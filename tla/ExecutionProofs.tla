-------------------------- MODULE ExecutionProofs --------------------------
(***************************************************************************)
(* Proofs about Execution, for any breakpoints, conditions and addresses:   *)
(* what is armed, what is stepped and what is reported.                     *)
(***************************************************************************)
EXTENDS Execution, NumberFacts

\* m_debug, the tunnel and the history of the requests.
DebugType ==
    [control : SUBSET {"sw", "hw", "step"}, dr7 : SUBSET Bits, addr : [Slots -> Addresses]]
Names == DOMAIN KvmReasons \cup DOMAIN HaxmReasons \cup DOMAIN WhpxReasons
             \cup {"none", "other", "debug"}
TunnelType == [reason : Names, dr6 : SUBSET Slots, at : Addresses]
AskedType ==
    [sw : BOOLEAN, swOK : BOOLEAN, bits : SUBSET Bits, addr : [Slots -> Addresses],
     hwOK : BOOLEAN, stepOK : BOOLEAN]

\* The types of the variables.
TypeOK ==
    /\ backend \in Backends
    /\ debug \in DebugType /\ kernel \in DebugType
    /\ tunnel \in TunnelType
    /\ pc \in {"idle", "guest", "stepped"} /\ stepping \in BOOLEAN
    /\ asked \in AskedType

\* The parts of ArmedInv about software and about hardware breakpoints.
SwArmed ==
    asked.swOK =>
        /\ asked.sw <=> "sw" \in debug.control
        /\ asked.sw <=> "sw" \in kernel.control
HwArmed ==
    asked.hwOK =>
        /\ asked.bits \subseteq debug.dr7 /\ asked.addr = debug.addr
        /\ asked.bits # {} <=> "hw" \in debug.control
        /\ asked.bits \subseteq kernel.dr7 /\ asked.addr = kernel.addr
        /\ asked.bits # {} <=> "hw" \in kernel.control

\* The last request for breakpoints that returned OK is in m_debug and with the hypervisor
\* until one is refused: a later SetDebug of anything hands over all of m_debug.
ArmedInv == SwArmed /\ HwArmed

\* Outside a Step the single step flag is off on both sides, if both calls of the last
\* Step were accepted.
StepInv ==
    asked.stepOK /\ (pc = "idle" \/ (pc = "guest" /\ ~stepping)) =>
        "step" \notin debug.control /\ "step" \notin kernel.control

\* What the tunnel says of an exit with cause c.
Tells(t, c) ==
    /\ t.reason = "debug" <=> c \in {"hit", "int3", "trap"}
    /\ c = "hit" => t.dr6 # {}
    /\ c = "trap" \/ (c = "int3" /\ backend # "kvm") => t.dr6 = {}

\* While the guest runs no exit has been handled yet; when StepImpl has RunImpl's OK the
\* tunnel is still that of the exit.
ExitInv ==
    /\ pc = "guest" => cause = "none"
    /\ pc = "stepped" => stepping
    /\ pc = "stepped" /\ status = "OK" => Tells(tunnel, cause)

\* The inductive invariant.
IInv ==
    /\ TypeOK /\ ArmedInv /\ StepInv /\ ExitInv
    /\ BreakpointsReported

-----------------------------------------------------------------------------
(* The exits *)

\* The reasons of every backend name no debug exit.
LEMMA KnownReasons ==
    ASSUME backend \in Backends
    PROVE  /\ DOMAIN Reasons \subseteq Names
           /\ {"debug", "trap", "int3", "hit"} \cap DOMAIN Reasons = {}
           /\ \A c \in DOMAIN Reasons :
                 Reasons[c] \notin {"HardwareBreakpoint", "SoftwareBreakpoint", "Step"}
PROOF
  <1>1. CASE backend = "kvm"
    <2>1. Reasons = KvmReasons
      BY <1>1 DEF Reasons
    <2>2. DOMAIN KvmReasons =
             {"hlt", "intr", "window", "exception", "shutdown", "unknown", "io",
              "mmio"}
      BY DEF KvmReasons
    <2>3. \A c \in DOMAIN KvmReasons :
             KvmReasons[c] \notin {"HardwareBreakpoint", "SoftwareBreakpoint", "Step"}
      BY <2>2 DEF KvmReasons
    <2>4. QED
      BY <2>1, <2>2, <2>3 DEF Names
  <1>2. CASE backend = "haxm"
    <2>1. Reasons = HaxmReasons
      BY <1>2 DEF Reasons
    <2>2. DOMAIN HaxmReasons =
             {"hlt", "window", "paused", "slow_mmio", "realmode", "unknown",
              "statechange", "io", "mmio"}
      BY DEF HaxmReasons
    <2>3. \A c \in DOMAIN HaxmReasons :
             HaxmReasons[c] \notin {"HardwareBreakpoint", "SoftwareBreakpoint", "Step"}
      BY <2>2 DEF HaxmReasons
    <2>4. QED
      BY <2>1, <2>2, <2>3 DEF Names
  <1>3. CASE backend = "whpx"
    <2>1. Reasons = WhpxReasons
      BY <1>3 DEF Reasons
    <2>2. DOMAIN WhpxReasons =
             {"hlt", "msr", "cpuid", "io", "mmio", "window", "canceled", "none",
              "exception", "unsupported", "invalid", "unrecoverable"}
      BY DEF WhpxReasons
    <2>3. \A c \in DOMAIN WhpxReasons :
             WhpxReasons[c] \notin {"HardwareBreakpoint", "SoftwareBreakpoint", "Step"}
      BY <2>2 DEF WhpxReasons
    <2>4. QED
      BY <2>1, <2>2, <2>3 DEF Names
  <1>4. QED
    BY <1>1, <1>2, <1>3, ExecutionAssumption

\* What the tunnel holds after an exit: its type, and what it says of the cause.
LEMMA ExitTunnel ==
    ASSUME TypeOK, NEW c \in Causes, NEW t \in Tunnels(c)
    PROVE  t \in TunnelType /\ Tells(t, c)
PROOF
  <1>1. c \in {"trap", "int3", "hit"} \/ (c \in Names /\ c # "debug")
    <2>1. backend \in Backends
      BY DEF TypeOK
    <2>2. DOMAIN Reasons \subseteq Names /\ "debug" \notin DOMAIN Reasons
      BY <2>1, KnownReasons
    <2>3. "other" \in Names
      BY DEF Names
    <2>4. QED
      BY <2>2, <2>3 DEF Causes, DebugCauses
  <1>0. "debug" \in Names
    BY DEF Names
  <1>3. tunnel \in TunnelType
    BY DEF TypeOK
  <1>4. CASE c \in {"trap", "int3"}
    <2>1. CASE c = "trap" \/ backend # "kvm"
      <3>1. t \in [reason : {"debug"}, dr6 : {{}}, at : Addresses]
        BY <1>4, <2>1 DEF Tunnels
      <3>2. t.reason = "debug" /\ t.dr6 = {}
        BY <3>1
      <3>3. t \in TunnelType
        BY <1>0, <3>1 DEF TunnelType
      <3>4. QED
        BY <1>4, <3>2, <3>3 DEF Tells
    <2>2. CASE c = "int3" /\ backend = "kvm"
      <3>1. t \in [reason : {"debug"}, dr6 : {tunnel.dr6}, at : Addresses]
        BY <2>2 DEF Tunnels
      <3>2. t \in TunnelType /\ t.reason = "debug"
        BY <1>0, <1>3, <3>1 DEF TunnelType
      <3>3. QED
        BY <2>2, <3>2 DEF Tells
    <2>3. QED
      BY <1>4, <2>1, <2>2
  <1>5. CASE c = "hit"
    <2>1. t \in [reason : {"debug"}, dr6 : (SUBSET Enabled(kernel.dr7)) \ {{}}, at : Addresses]
      BY <1>5 DEF Tunnels
    <2>2. t.reason = "debug" /\ t.dr6 \subseteq Enabled(kernel.dr7) /\ t.dr6 # {}
      BY <2>1
    <2>3. Enabled(kernel.dr7) \subseteq Slots
      BY DEF Enabled
    <2>4. t \in TunnelType
      BY <1>0, <2>1, <2>2, <2>3 DEF TunnelType
    <2>5. QED
      BY <1>5, <2>2, <2>4 DEF Tells
  <1>6. CASE c \notin {"trap", "int3", "hit"}
    <2>1. \/ t \in [reason : {c}, dr6 : {tunnel.dr6}, at : Addresses \ {0}]
          \/ t \in [reason : {c}, dr6 : SUBSET Slots, at : Addresses \ {0}]
          \/ t \in [reason : {c}, dr6 : {{s} : s \in Slots}, at : Addresses]
          \/ t \in [reason : {c}, dr6 : SUBSET Slots, at : Addresses]
          \/ t \in [reason : {c}, dr6 : {tunnel.dr6}, at : Addresses]
          \/ t = [tunnel EXCEPT !.reason = c]
      BY <1>6 DEF Tunnels
    <2>2. t \in TunnelType /\ t.reason = c
      BY <1>1, <1>3, <1>6, <2>1 DEF TunnelType
    <2>3. QED
      BY <1>1, <1>6, <2>2 DEF Tells
  <1>7. QED
    BY <1>4, <1>5, <1>6

\* The reason reported for a tunnel and a cause it tells of.
LEMMA ExitReason ==
    ASSUME TypeOK, NEW t, NEW c, Tells(t, c)
    PROVE  /\ c = "hit" => Reason(t) = "HardwareBreakpoint"
           /\ Reason(t) = "HardwareBreakpoint" =>
                 c = "hit" \/ (c = "int3" /\ backend = "kvm")
           /\ c = "trap" \/ (c = "int3" /\ backend # "kvm") => Reason(t) = "SoftwareBreakpoint"
           /\ Reason(t) = "SoftwareBreakpoint" => c \in {"int3", "trap"}
           /\ Reason(t) # "Step"
PROOF
  <1>1. CASE c \in {"trap", "int3", "hit"}
    <2>1. t.reason = "debug"
      BY <1>1 DEF Tells
    <2>2. Reason(t) = IF t.dr6 # {} THEN "HardwareBreakpoint" ELSE "SoftwareBreakpoint"
      BY <2>1 DEF Reason
    <2>3. QED
      BY <1>1, <2>2 DEF Tells
  <1>2. CASE c \notin {"trap", "int3", "hit"}
    <2>1. t.reason # "debug"
      BY <1>2 DEF Tells
    <2>2. Reason(t) \notin {"HardwareBreakpoint", "SoftwareBreakpoint", "Step"}
      BY <2>1, KnownReasons DEF Reason, TypeOK
    <2>3. QED
      BY <1>2, <2>2
  <1>3. QED
    BY <1>1, <1>2

-----------------------------------------------------------------------------
(* The parts of the invariant, step by step *)

\* The invariant holds when the processor has been created.
LEMMA InitInv == Init => IInv
PROOF
  <1> SUFFICES ASSUME Init PROVE IInv
    OBVIOUS
  <1>1. NoAddress \in [Slots -> Addresses]
    BY ExecutionAssumption DEF NoAddress
  <1>2. TypeOK
    <2>1. debug \in DebugType /\ kernel \in DebugType
      BY <1>1 DEF Init, DebugType
    <2>2. tunnel \in TunnelType
      BY ExecutionAssumption DEF Init, TunnelType, Names
    <2>3. asked \in AskedType
      BY <1>1 DEF Init, AskedType
    <2>4. QED
      BY <2>1, <2>2, <2>3 DEF Init, TypeOK
  <1>3. ArmedInv /\ StepInv
    BY DEF Init, ArmedInv, SwArmed, HwArmed, StepInv
  <1>4. ExitInv /\ BreakpointsReported
    BY DEF Init, ExitInv, BreakpointsReported
  <1>5. QED
    BY <1>2, <1>3, <1>4 DEF IInv

\* What SetHardwareBreakpoints is called with.
LEMMA RequestTypes ==
    ASSUME NEW request \in Requests
    PROVE  request[1] \in SUBSET Bits /\ request[2] \in [Slots -> Addresses]
PROOF
  BY ExecutionAssumption DEF Bits

\* Types.
LEMMA TypeStep == TypeOK /\ [Next]_vars => TypeOK'
PROOF
  <1> SUFFICES ASSUME TypeOK, [Next]_vars PROVE TypeOK'
    OBVIOUS
  <1> USE DEF TypeOK
  <1>0. ASSUME NEW d \in DebugType, NEW ok \in BOOLEAN, SetDebug(d, ok), asked' \in AskedType,
               UNCHANGED <<backend, tunnel, exits>>
        PROVE  TypeOK'
    <2>1. debug' \in DebugType /\ kernel' \in DebugType
      BY <1>0 DEF SetDebug
    <2>2. QED
      BY <1>0, <2>1 DEF exits
  <1>1. ASSUME NEW enable \in BOOLEAN, EnableSoftwareBreakpoints(enable) PROVE TypeOK'
    <2>1. PICK ok \in BOOLEAN :
             /\ SetDebug([debug EXCEPT !.control =
                             IF enable THEN @ \cup {"sw"} ELSE @ \ {"sw"}], ok)
             /\ asked' = (IF ok THEN [asked EXCEPT !.sw = enable, !.swOK = TRUE]
                          ELSE [asked EXCEPT !.swOK = FALSE])
      BY <1>1 DEF EnableSoftwareBreakpoints
    <2>2. asked' \in AskedType
      BY <2>1 DEF AskedType
    <2>3. [debug EXCEPT !.control = IF enable THEN @ \cup {"sw"} ELSE @ \ {"sw"}] \in DebugType
      BY DEF DebugType
    <2>4. QED
      BY <1>0, <1>1, <2>1, <2>2, <2>3 DEF EnableSoftwareBreakpoints
  <1>2. CASE ClearHardwareBreakpoints
    <2>1. NoAddress \in [Slots -> Addresses]
      BY ExecutionAssumption DEF NoAddress
    <2>2. PICK ok \in BOOLEAN :
             /\ SetDebug([control |-> debug.control \ {"hw"}, dr7 |-> {}, addr |-> NoAddress],
                         ok)
             /\ HardwareAsked({}, NoAddress, ok)
      BY <1>2 DEF ClearHardwareBreakpoints
    <2>3. asked' \in AskedType
      BY <2>1, <2>2 DEF AskedType, HardwareAsked
    <2>4. [control |-> debug.control \ {"hw"}, dr7 |-> {}, addr |-> NoAddress] \in DebugType
      BY <2>1 DEF DebugType
    <2>5. QED
      BY <1>0, <1>2, <2>2, <2>3, <2>4 DEF ClearHardwareBreakpoints
  <1>3. ASSUME NEW bits \in SUBSET Bits, NEW addr \in [Slots -> Addresses],
               SetHardwareBreakpoints(bits, addr)
        PROVE TypeOK'
    <2>1. PICK ok \in BOOLEAN :
             /\ SetDebug(Configured(bits, addr), ok)
             /\ HardwareAsked(bits, addr, ok)
      BY <1>3 DEF SetHardwareBreakpoints
    <2>2. asked' \in AskedType
      BY <2>1 DEF AskedType, HardwareAsked
    <2>3. Configured(bits, addr) \in DebugType
      BY DEF Configured, DebugType
    <2>4. QED
      BY <1>0, <1>3, <2>1, <2>2, <2>3 DEF SetHardwareBreakpoints
  <1>4. CASE Run \/ StepUnsupported \/ FailRun
    <2>1. CASE Run
      BY <2>1 DEF Run
    <2>2. CASE StepUnsupported
      BY <2>2 DEF StepUnsupported
    <2>3. CASE FailRun
      BY <2>3 DEF FailRun, Returned
    <2>4. QED
      BY <1>4, <2>1, <2>2, <2>3
  <1>5. CASE Step
    BY <1>5 DEF Step, SetDebug, DebugType, AskedType
  <1>6. CASE EndStep
    BY <1>6 DEF EndStep, SetDebug, DebugType, AskedType
  <1>7. ASSUME NEW c \in Causes, NEW t \in Tunnels(c), GuestExit(c, t) PROVE TypeOK'
    BY <1>7, ExitTunnel DEF GuestExit, Returned
  <1>8. ASSUME NEW c \in Causes, EmulationFails(c) PROVE TypeOK'
    <2>1. c \in Names
      BY <1>8 DEF EmulationFails, Names, WhpxReasons
    <2>2. QED
      BY <1>8, <2>1 DEF EmulationFails, Returned, TunnelType
  <1>9. CASE UNCHANGED vars
    BY <1>9 DEF vars, exits
  <1>10. QED
    BY <1>1, <1>2, <1>3, <1>4, <1>5, <1>6, <1>7, <1>8, <1>9, RequestTypes DEF Next

\* A SetDebug that leaves the software breakpoints alone keeps their part: it hands over
\* all of m_debug.
LEMMA SwKept ==
    ASSUME SwArmed, NEW ok \in BOOLEAN,
           kernel' = (IF ok THEN debug' ELSE kernel),
           "sw" \in debug'.control <=> "sw" \in debug.control,
           asked'.sw = asked.sw, asked'.swOK = asked.swOK
    PROVE  SwArmed'
PROOF
  <1> SUFFICES ASSUME asked.swOK
               PROVE  (asked'.sw <=> "sw" \in debug'.control)
                      /\ (asked'.sw <=> "sw" \in kernel'.control)
    BY DEF SwArmed
  <1>1. (asked.sw <=> "sw" \in debug.control) /\ (asked.sw <=> "sw" \in kernel.control)
    BY DEF SwArmed
  <1>2. asked'.sw <=> "sw" \in debug'.control
    BY <1>1
  <1>3. CASE ok
    <2>1. kernel' = debug'
      BY <1>3
    <2>2. QED
      BY <2>1, <1>2, Zenon
  <1>4. CASE ~ok
    <2>1. kernel' = kernel
      BY <1>4
    <2>2. QED
      BY <2>1, <1>1, <1>2, Zenon
  <1>5. QED
    BY <1>3, <1>4

\* The same for hardware breakpoints.
LEMMA HwKept ==
    ASSUME HwArmed, NEW ok \in BOOLEAN,
           kernel' = (IF ok THEN debug' ELSE kernel),
           "hw" \in debug'.control <=> "hw" \in debug.control,
           debug'.dr7 = debug.dr7, debug'.addr = debug.addr,
           asked'.bits = asked.bits, asked'.addr = asked.addr, asked'.hwOK = asked.hwOK
    PROVE  HwArmed'
PROOF
  <1>1. CASE ok
    <2>1. kernel' = debug'
      BY <1>1
    <2>2. QED
      BY <2>1, Zenon DEF HwArmed
  <1>2. CASE ~ok
    <2>1. kernel' = kernel
      BY <1>2
    <2>2. QED
      BY <2>1, Zenon DEF HwArmed
  <1>3. QED
    BY <1>1, <1>2

\* Requests for breakpoints, and the calls of StepImpl: what was asked for stays armed.
LEMMA ArmedStep == TypeOK /\ ArmedInv /\ [Next]_vars => ArmedInv'
PROOF
  <1> SUFFICES ASSUME TypeOK, ArmedInv, [Next]_vars PROVE SwArmed' /\ HwArmed'
    BY DEF ArmedInv
  <1>0. debug \in DebugType /\ kernel \in DebugType /\ asked \in AskedType
    BY DEF TypeOK
  <1>a. SwArmed /\ HwArmed
    BY DEF ArmedInv
  <1>1. ASSUME NEW enable \in BOOLEAN, EnableSoftwareBreakpoints(enable)
        PROVE  SwArmed' /\ HwArmed'
    <2>1. PICK ok \in BOOLEAN :
             /\ debug' = [debug EXCEPT !.control =
                             IF enable THEN @ \cup {"sw"} ELSE @ \ {"sw"}]
             /\ kernel' = (IF ok THEN debug' ELSE kernel)
             /\ asked' = (IF ok THEN [asked EXCEPT !.sw = enable, !.swOK = TRUE]
                          ELSE [asked EXCEPT !.swOK = FALSE])
      BY <1>1 DEF EnableSoftwareBreakpoints, SetDebug
    <2>2. /\ debug'.control = (IF enable THEN debug.control \cup {"sw"} ELSE debug.control \ {"sw"})
          /\ debug'.dr7 = debug.dr7 /\ debug'.addr = debug.addr
      BY <1>0, <2>1 DEF DebugType
    <2>3. asked'.bits = asked.bits /\ asked'.addr = asked.addr
      BY <1>0, <2>1 DEF AskedType
    <2>4. asked'.hwOK = asked.hwOK /\ (ok => asked'.sw = enable) /\ asked'.swOK = ok
      BY <1>0, <2>1 DEF AskedType
    <2>5. "sw" \in debug'.control <=> enable
      BY <2>2
    <2>6. ok => (asked'.sw <=> "sw" \in debug'.control)
      BY <2>4, <2>5
    <2>7. ok => kernel' = debug'
      BY <2>1
    <2>8. SwArmed'
      BY <2>4, <2>6, <2>7, Zenon DEF SwArmed
    <2>9. "hw" \in debug'.control <=> "hw" \in debug.control
      BY <2>2
    <2>10. HwArmed'
      BY <1>a, <2>1, <2>2, <2>3, <2>4, <2>9, HwKept
    <2>11. QED
      BY <2>8, <2>10
  <1>2. ASSUME NEW bits \in SUBSET Bits, NEW addr \in [Slots -> Addresses],
               NEW ok \in BOOLEAN, NEW d,
               d.addr = addr, bits \subseteq d.dr7, bits # {} <=> "hw" \in d.control,
               "sw" \in d.control <=> "sw" \in debug.control,
               SetDebug(d, ok), HardwareAsked(bits, addr, ok)
        PROVE  SwArmed' /\ HwArmed'
    <2>1. debug' = d /\ kernel' = (IF ok THEN debug' ELSE kernel)
      BY <1>2 DEF SetDebug
    <2>2. ok => asked'.bits = bits /\ asked'.addr = addr
      BY <1>0, <1>2 DEF AskedType, HardwareAsked
    <2>3. asked'.hwOK = ok /\ asked'.sw = asked.sw /\ asked'.swOK = asked.swOK
      BY <1>0, <1>2 DEF AskedType, HardwareAsked
    <2>4. SwArmed'
      BY <1>a, <1>2, <2>1, <2>3, SwKept
    <2>5. ok => kernel' = debug'
      BY <2>1
    <2>6. ok => /\ asked'.addr = debug'.addr /\ asked'.bits \subseteq debug'.dr7
                /\ asked'.bits # {} <=> "hw" \in debug'.control
      BY <1>2, <2>1, <2>2
    <2>7. HwArmed'
      BY <2>3, <2>5, <2>6, Zenon DEF HwArmed
    <2>8. QED
      BY <2>4, <2>7
  <1>3. CASE ClearHardwareBreakpoints
    <2>1. NoAddress \in [Slots -> Addresses]
      BY ExecutionAssumption DEF NoAddress
    <2> DEFINE d == [control |-> debug.control \ {"hw"}, dr7 |-> {}, addr |-> NoAddress]
    <2>2. PICK ok \in BOOLEAN :
             /\ SetDebug(d, ok)
             /\ HardwareAsked({}, NoAddress, ok)
      BY <1>3 DEF ClearHardwareBreakpoints
    <2>3. /\ d.addr = NoAddress /\ {} \subseteq d.dr7 /\ "hw" \notin d.control
          /\ "sw" \in d.control <=> "sw" \in debug.control
      OBVIOUS
    <2>4. {} \in SUBSET Bits
      OBVIOUS
    <2> HIDE DEF d
    <2>5. QED
      BY <1>2, <2>1, <2>2, <2>3, <2>4
  <1>4. ASSUME NEW bits \in SUBSET Bits, NEW addr \in [Slots -> Addresses],
               SetHardwareBreakpoints(bits, addr)
        PROVE  SwArmed' /\ HwArmed'
    <2>1. bits # {}
      BY <1>4 DEF SetHardwareBreakpoints, Enabled
    <2> DEFINE d == Configured(bits, addr)
    <2>2. PICK ok \in BOOLEAN :
             /\ SetDebug(d, ok)
             /\ HardwareAsked(bits, addr, ok)
      BY <1>4 DEF SetHardwareBreakpoints
    <2>3. /\ d.addr = addr /\ bits \subseteq d.dr7 /\ "hw" \in d.control
          /\ "sw" \in d.control <=> "sw" \in debug.control
      BY DEF Configured
    <2> HIDE DEF d
    <2>4. QED
      BY <1>2, <2>1, <2>2, <2>3
  <1>5. ASSUME NEW C, "sw" \in C <=> "sw" \in debug.control,
               "hw" \in C <=> "hw" \in debug.control, NEW ok \in BOOLEAN,
               SetDebug([debug EXCEPT !.control = C], ok),
               asked' = [asked EXCEPT !.stepOK = ok]
        PROVE  SwArmed' /\ HwArmed'
    <2>1. /\ debug'.control = C /\ debug'.dr7 = debug.dr7 /\ debug'.addr = debug.addr
          /\ kernel' = (IF ok THEN debug' ELSE kernel)
      BY <1>0, <1>5 DEF SetDebug, DebugType
    <2>2. asked'.bits = asked.bits /\ asked'.addr = asked.addr
      BY <1>0, <1>5 DEF AskedType
    <2>3. asked'.hwOK = asked.hwOK /\ asked'.sw = asked.sw /\ asked'.swOK = asked.swOK
      BY <1>0, <1>5 DEF AskedType
    <2>4. SwArmed'
      BY <1>a, <1>5, <2>1, <2>3, SwKept
    <2>5. HwArmed'
      BY <1>a, <1>5, <2>1, <2>2, <2>3, HwKept
    <2>6. QED
      BY <2>4, <2>5
  <1>6. CASE Step
    <2>1. PICK ok \in BOOLEAN : /\ SetDebug([debug EXCEPT !.control = @ \cup {"step"}], ok)
                                /\ asked' = [asked EXCEPT !.stepOK = ok]
      BY <1>6 DEF Step
    <2>2. QED
      BY <1>5, <2>1
  <1>7. CASE EndStep
    <2>1. PICK ok \in BOOLEAN : /\ SetDebug([debug EXCEPT !.control = @ \ {"step"}], ok)
                                /\ asked' = [asked EXCEPT !.stepOK = ok]
      BY <1>7 DEF EndStep
    <2>2. QED
      BY <1>5, <2>1
  <1>8. ASSUME UNCHANGED <<debug, kernel, asked>> PROVE SwArmed' /\ HwArmed'
    BY <1>a, <1>8, Zenon DEF SwArmed, HwArmed
  <1>9. CASE Run \/ StepUnsupported \/ FailRun
    BY <1>8, <1>9 DEF Run, StepUnsupported, FailRun
  <1>10. ASSUME NEW c, NEW t, GuestExit(c, t) PROVE SwArmed' /\ HwArmed'
    BY <1>8, <1>10 DEF GuestExit
  <1>11. ASSUME NEW c, EmulationFails(c) PROVE SwArmed' /\ HwArmed'
    BY <1>8, <1>11 DEF EmulationFails
  <1>12. CASE UNCHANGED vars
    BY <1>8, <1>12 DEF vars
  <1>13. QED
    BY <1>1, <1>3, <1>4, <1>6, <1>7, <1>9, <1>10, <1>11, <1>12, RequestTypes DEF Next

\* The single step flag.
LEMMA StepStep == TypeOK /\ StepInv /\ ExitInv /\ [Next]_vars => StepInv'
PROOF
  <1> SUFFICES ASSUME TypeOK, StepInv, ExitInv, [Next]_vars PROVE StepInv'
    OBVIOUS
  <1> USE DEF StepInv
  <1>0. /\ debug \in DebugType /\ kernel \in DebugType /\ asked \in AskedType
        /\ stepping \in BOOLEAN
    BY DEF TypeOK
  <1>1. ASSUME NEW enable \in BOOLEAN, EnableSoftwareBreakpoints(enable) PROVE StepInv'
    BY <1>0, <1>1 DEF EnableSoftwareBreakpoints, SetDebug, DebugType, AskedType, exits
  <1>2. CASE ClearHardwareBreakpoints
    BY <1>0, <1>2
       DEF ClearHardwareBreakpoints, HardwareAsked, SetDebug, DebugType, AskedType, exits
  <1>3. ASSUME NEW bits \in SUBSET Bits, NEW addr \in [Slots -> Addresses],
               SetHardwareBreakpoints(bits, addr)
        PROVE StepInv'
    BY <1>0, <1>3
       DEF SetHardwareBreakpoints, HardwareAsked, Configured, SetDebug, DebugType, AskedType,
           exits
  <1>4. CASE Run \/ StepUnsupported \/ FailRun
    BY <1>0, <1>4 DEF Run, StepUnsupported, FailRun, Returned
  <1>5. CASE Step
    BY <1>0, <1>5 DEF Step, SetDebug, DebugType, AskedType
  <1>6. CASE EndStep
    BY <1>0, <1>6 DEF EndStep, SetDebug, DebugType, AskedType, ExitInv
  <1>7. ASSUME NEW c, NEW t, GuestExit(c, t) PROVE StepInv'
    BY <1>0, <1>7 DEF GuestExit, Returned
  <1>8. ASSUME NEW c, EmulationFails(c) PROVE StepInv'
    BY <1>0, <1>8 DEF EmulationFails, Returned
  <1>9. CASE UNCHANGED vars
    BY <1>9 DEF vars, exits
  <1>10. QED
    BY <1>1, <1>2, <1>3, <1>4, <1>5, <1>6, <1>7, <1>8, <1>9, RequestTypes DEF Next

\* What is known of the exit: the guest runs with a clean history, and only StepImpl looks
\* at an exit twice.
LEMMA ExitStep == TypeOK /\ ExitInv /\ [Next]_vars => ExitInv'
PROOF
  <1> SUFFICES ASSUME TypeOK, ExitInv, [Next]_vars PROVE ExitInv'
    OBVIOUS
  <1> USE DEF ExitInv
  <1>0. stepping \in BOOLEAN /\ pc \in {"idle", "guest", "stepped"}
    BY DEF TypeOK
  <1>1. ASSUME UNCHANGED <<backend, tunnel, exits>> PROVE ExitInv'
    BY <1>1 DEF exits, Tells
  <1>2. ASSUME NEW enable \in BOOLEAN, EnableSoftwareBreakpoints(enable) PROVE ExitInv'
    BY <1>1, <1>2 DEF EnableSoftwareBreakpoints
  <1>3. CASE ClearHardwareBreakpoints
    BY <1>1, <1>3 DEF ClearHardwareBreakpoints
  <1>4. ASSUME NEW bits, NEW addr, SetHardwareBreakpoints(bits, addr) PROVE ExitInv'
    BY <1>1, <1>4 DEF SetHardwareBreakpoints
  <1>5. CASE Run
    BY <1>5 DEF Run
  <1>6. CASE Step
    <2>1. PICK ok \in BOOLEAN : pc' = (IF ok THEN "guest" ELSE "idle")
      BY <1>6 DEF Step
    <2>2. QED
      BY <1>6, <2>1 DEF Step
  <1>7. CASE StepUnsupported
    BY <1>7 DEF StepUnsupported
  <1>8. CASE FailRun
    BY <1>0, <1>8 DEF FailRun, Returned
  <1>9. CASE EndStep
    BY <1>9 DEF EndStep
  <1>10. ASSUME NEW c \in Causes, NEW t \in Tunnels(c), GuestExit(c, t)
         PROVE ExitInv'
    <2>1. Tells(t, c)
      BY ExitTunnel
    <2>2. Tells(tunnel, cause)'
      BY <1>10, <2>1 DEF GuestExit, Tells
    <2>3. pc' # "guest" /\ (pc' = "stepped" => stepping')
      BY <1>0, <1>10 DEF GuestExit, Returned
    <2>4. QED
      BY <2>2, <2>3
  <1>11. ASSUME NEW c \in Causes, EmulationFails(c)
         PROVE ExitInv'
    BY <1>0, <1>11 DEF EmulationFails, Returned
  <1>12. CASE UNCHANGED vars
    BY <1>1, <1>12 DEF vars
  <1>13. QED
    BY <1>2, <1>3, <1>4, <1>5, <1>6, <1>7, <1>8, <1>9, <1>10, <1>11, <1>12 DEF Next

\* Exits at breakpoints and after single steps are reported as what they are.
LEMMA ReportedStep ==
    TypeOK /\ ExitInv /\ BreakpointsReported /\ [Next]_vars => BreakpointsReported'
PROOF
  <1> SUFFICES ASSUME TypeOK, ExitInv, BreakpointsReported, [Next]_vars
               PROVE  BreakpointsReported'
    OBVIOUS
  <1> USE DEF BreakpointsReported
  <1>0. stepping \in BOOLEAN
    BY DEF TypeOK
  <1>1. ASSUME UNCHANGED <<backend, exits>> PROVE BreakpointsReported'
    BY <1>1 DEF exits
  <1>2. ASSUME NEW enable \in BOOLEAN, EnableSoftwareBreakpoints(enable)
        PROVE  BreakpointsReported'
    BY <1>1, <1>2 DEF EnableSoftwareBreakpoints
  <1>3. CASE ClearHardwareBreakpoints
    BY <1>1, <1>3 DEF ClearHardwareBreakpoints
  <1>4. ASSUME NEW bits, NEW addr, SetHardwareBreakpoints(bits, addr)
        PROVE  BreakpointsReported'
    BY <1>1, <1>4 DEF SetHardwareBreakpoints
  <1>5. CASE Run
    BY <1>5 DEF Run
  <1>6. CASE Step
    <2>1. PICK ok \in BOOLEAN : /\ pc' = (IF ok THEN "guest" ELSE "idle")
                                /\ status' = (IF ok THEN status ELSE "Failed")
      BY <1>6 DEF Step
    <2>2. ~(pc' = "idle" /\ status' = "OK")
      BY <2>1
    <2>3. QED
      BY <2>2
  <1>7. CASE StepUnsupported
    BY <1>7 DEF StepUnsupported
  <1>8. CASE FailRun
    BY <1>8 DEF FailRun
  <1>9. CASE EndStep
    <2>1. PICK ok \in BOOLEAN :
             /\ status' = (IF ok THEN status ELSE "Failed")
             /\ ok /\ status = "OK" =>
                   exitInfo' = (IF Reason(tunnel) = "SoftwareBreakpoint" THEN "Step"
                                ELSE Reason(tunnel))
      BY <1>9 DEF EndStep
    <2>2. SUFFICES ASSUME ok, status = "OK" PROVE BreakpointsReported'
      BY <2>1
    <2>3. pc = "stepped" /\ Tells(tunnel, cause) /\ stepping' /\ cause' = cause
      BY <1>9, <2>2 DEF EndStep, ExitInv
    <2>4. exitInfo' = (IF Reason(tunnel) = "SoftwareBreakpoint" THEN "Step" ELSE Reason(tunnel))
      BY <2>1, <2>2
    <2>5. /\ cause = "hit" => Reason(tunnel) = "HardwareBreakpoint"
          /\ Reason(tunnel) = "HardwareBreakpoint" =>
                cause = "hit" \/ (cause = "int3" /\ backend = "kvm")
          /\ cause = "trap" => Reason(tunnel) = "SoftwareBreakpoint"
          /\ Reason(tunnel) = "SoftwareBreakpoint" => cause \in {"int3", "trap"}
          /\ Reason(tunnel) # "Step"
      BY <2>3, ExitReason
    <2>6. backend' = backend
      BY <1>9 DEF EndStep
    <2>7. QED
      BY <2>3, <2>4, <2>5, <2>6
  <1>10. ASSUME NEW c \in Causes, NEW t \in Tunnels(c), GuestExit(c, t)
         PROVE BreakpointsReported'
    <2>1. /\ c = "hit" => Reason(t) = "HardwareBreakpoint"
          /\ Reason(t) = "HardwareBreakpoint" =>
                c = "hit" \/ (c = "int3" /\ backend = "kvm")
          /\ c = "int3" /\ backend = "haxm" => Reason(t) = "SoftwareBreakpoint"
          /\ Reason(t) = "SoftwareBreakpoint" => c \in {"int3", "trap"}
          /\ Reason(t) # "Step"
      BY ExitTunnel, ExitReason
    <2>2. cause' = c /\ exitInfo' = Reason(t) /\ backend' = backend
      BY <1>10 DEF GuestExit
    <2>3. pc' = "idle" => ~stepping'
      BY <1>0, <1>10 DEF GuestExit, Returned
    <2>4. QED
      BY <2>1, <2>2, <2>3
  <1>11. ASSUME NEW c \in Causes, EmulationFails(c)
         PROVE BreakpointsReported'
    BY <1>11 DEF EmulationFails
  <1>12. CASE UNCHANGED vars
    BY <1>1, <1>12 DEF vars
  <1>13. QED
    BY <1>2, <1>3, <1>4, <1>5, <1>6, <1>7, <1>8, <1>9, <1>10, <1>11, <1>12 DEF Next

-----------------------------------------------------------------------------
(* The theorems *)

\* The invariant holds of every behaviour of the processor.
THEOREM Invariance == Spec => []IInv
PROOF
  <1>1. IInv /\ [Next]_vars => IInv'
    BY TypeStep, ArmedStep, StepStep, ExitStep, ReportedStep DEF IInv
  <1>2. QED
    BY <1>1, InitInv, PTL DEF Spec

\* The hypervisor has the breakpoints the application last set with status OK, for any
\* set of slots, conditions and addresses.
THEOREM BreakpointsArmed == Spec => []RequestedAreArmed
PROOF
  <1>1. IInv => RequestedAreArmed
    BY DEF IInv, ArmedInv, SwArmed, HwArmed, RequestedAreArmed
  <1>2. QED
    BY <1>1, Invariance, PTL

\* The single step flag does not outlive a Step of which the hypervisor accepted both
\* calls.
THEOREM RunNotStepped == Spec => []RunIsNotStepped
PROOF
  <1>1. IInv => RunIsNotStepped
    BY DEF IInv, StepInv, RunIsNotStepped
  <1>2. QED
    BY <1>1, Invariance, PTL

\* Breakpoints and completed steps are told apart from each other and from all other
\* exits, on every backend.
THEOREM ReportedBreakpoints == Spec => []BreakpointsReported
PROOF
  <1>1. IInv => BreakpointsReported
    BY DEF IInv
  <1>2. QED
    BY <1>1, Invariance, PTL

\* GetBreakpointAddress finds the address that was requested for a slot that was hit: the
\* least one, which exists whatever the set of slots.
THEOREM HitAddress == Spec => HitAddressIsRequested
PROOF
  <1> DEFINE A == pc = "guest" /\ pc' # "guest" /\ cause' = "hit" /\ asked.hwOK =>
                     \E s \in tunnel'.dr6 : GetBreakpointAddress' = asked.addr[s]
  <1>1. IInv /\ [Next]_vars => [A]_vars
    <2> SUFFICES ASSUME IInv, [Next]_vars, pc = "guest", pc' # "guest", cause' = "hit",
                        asked.hwOK
                 PROVE  \E s \in tunnel'.dr6 : GetBreakpointAddress' = asked.addr[s]
      OBVIOUS
    <2>1. TypeOK /\ asked.addr = debug.addr /\ cause = "none"
      BY DEF IInv, ArmedInv, HwArmed, ExitInv
    <2>2. ASSUME NEW c \in Causes, NEW t \in Tunnels(c), GuestExit(c, t)
          PROVE  \E s \in tunnel'.dr6 : GetBreakpointAddress' = asked.addr[s]
      <3>1. c = "hit" /\ tunnel' = t /\ debug' = debug
        BY <2>2 DEF GuestExit
      <3>2. t.dr6 \subseteq Slots /\ t.dr6 # {}
        BY <2>1, <3>1, ExitTunnel DEF TunnelType, Tells
      <3>3. \E x \in t.dr6 : \A y \in t.dr6 : x <= y
        BY <3>2, LeastNumber, ExecutionAssumption
      <3>4. (CHOOSE x \in t.dr6 : \A y \in t.dr6 : x <= y) \in t.dr6
        BY <3>3
      <3>5. GetBreakpointAddress' = debug'.addr[CHOOSE x \in t.dr6 : \A y \in t.dr6 : x <= y]
        BY <3>1, <3>2 DEF GetBreakpointAddress
      <3>6. QED
        BY <2>1, <3>1, <3>4, <3>5
    <2>3. ASSUME NEW c, EmulationFails(c) PROVE FALSE
      BY <2>3 DEF EmulationFails
    <2>4. CASE FailRun
      BY <2>1, <2>4 DEF FailRun
    <2>5. CASE UNCHANGED vars
      BY <2>5 DEF vars, exits
    <2>6. CASE Run \/ Step \/ StepUnsupported \/ EndStep \/ ClearHardwareBreakpoints
      BY <2>6 DEF Run, Step, StepUnsupported, EndStep, ClearHardwareBreakpoints
    <2>7. ASSUME NEW enable, EnableSoftwareBreakpoints(enable) PROVE FALSE
      BY <2>7 DEF EnableSoftwareBreakpoints
    <2>8. ASSUME NEW bits, NEW addr, SetHardwareBreakpoints(bits, addr) PROVE FALSE
      BY <2>8 DEF SetHardwareBreakpoints
    <2>9. QED
      BY <2>2, <2>3, <2>4, <2>5, <2>6, <2>7, <2>8 DEF Next
  <1>2. QED
    BY <1>1, Invariance, PTL DEF Spec, HitAddressIsRequested

=============================================================================
