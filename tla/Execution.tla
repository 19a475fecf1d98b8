----------------------------- MODULE Execution -----------------------------
(***************************************************************************)
(* Running, stepping and breakpoints of a virtual processor: the KVM and   *)
(* HAXM processors (kvm/src/kvm_vp.cpp, haxm/src/common/haxm_vp.cpp), which *)
(* share what m_debug asks the hypervisor for and how an exit is turned    *)
(* into m_exitInfo and into what GetBreakpointAddress finds in the tunnel; *)
(* and the WHPX processor (whpx/src/whpx_vp.cpp), whose emulator may fail  *)
(* and which supports neither steps nor breakpoints.                       *)
(*                                                                         *)
(* "Tunnel" is the kvm_run page, the hax_tunnel or m_exitContext.  The     *)
(* bits of DR7 are pairs of a slot and a bit: "enable" stands for L and G, *)
(* Conditions for those of the trigger and the length.  Registers are in   *)
(* KvmRegisters and RegisterAccess; here UpdateRegisters may only fail.    *)
(* The application's I/O handlers, which HandleExecResult calls, touch     *)
(* none of this state and are left out.                                    *)
(***************************************************************************)
EXTENDS Integers

CONSTANTS
    Backends,       \* of "kvm", "haxm" and "whpx"
    Slots,          \* the hardware breakpoints
    Conditions,     \* the bits of a slot other than "enable"
    Addresses,      \* addresses, 0 among them
    Requests        \* the arguments of SetHardwareBreakpoints: bits of DR7 and addresses

ASSUME ExecutionAssumption ==
    /\ Backends \subseteq {"kvm", "haxm", "whpx"}
    /\ Slots \subseteq Nat
    /\ Addresses \subseteq Nat /\ 0 \in Addresses
    /\ Requests \subseteq
          (SUBSET (Slots \X ({"enable"} \cup Conditions))) \X [Slots -> Addresses]

VARIABLES
    backend,    \* the subclass of VirtualProcessor
    debug,      \* m_debug: control, DR7 and the four addresses
    kernel,     \* the last m_debug that the hypervisor accepted
    tunnel,     \* the exit reason, and the union read as debug: DR6 and an address
    exitInfo,   \* m_exitInfo.reason
    pc,         \* "idle", "guest" or "stepped": in StepImpl, RunImpl has returned
    stepping,   \* StepImpl called RunImpl
    status,     \* what the last Run or Step returned
    cause,      \* history: why the guest last exited
    asked       \* history: the breakpoints last requested with status OK, whether a
                \* request was refused since, and whether the hypervisor accepted
                \* m_debug throughout the last Step

exits == <<exitInfo, pc, stepping, status, cause>>
vars == <<backend, debug, kernel, tunnel, exits, asked>>

Bits == Slots \X ({"enable"} \cup Conditions)

NoAddress == [s \in Slots |-> 0]

Enabled(dr7) == {s \in Slots : <<s, "enable">> \in dr7}

\* WHPX inherits the operations of VirtualProcessor, which return Unsupported.
Debuggable == backend # "whpx"

-----------------------------------------------------------------------------
(* m_debug *)

\* m_debug becomes d and is handed to the hypervisor.  The ENABLE flag is set if and
\* only if another flag is, so it is left out.
SetDebug(d, ok) ==
    /\ debug' = d
    /\ kernel' = (IF ok THEN d ELSE kernel)

EnableSoftwareBreakpoints(enable) ==
    /\ pc = "idle" /\ Debuggable
    /\ \E ok \in BOOLEAN :
          /\ SetDebug([debug EXCEPT !.control =
                          IF enable THEN @ \cup {"sw"} ELSE @ \ {"sw"}], ok)
          /\ asked' = (IF ok THEN [asked EXCEPT !.sw = enable, !.swOK = TRUE]
                       ELSE [asked EXCEPT !.swOK = FALSE])
    /\ UNCHANGED <<backend, tunnel, exits>>

\* History: hardware breakpoints were requested and the call returned OK, or failed.
HardwareAsked(bits, addr, ok) ==
    asked' = (IF ok THEN [asked EXCEPT !.bits = bits, !.addr = addr, !.hwOK = TRUE]
              ELSE [asked EXCEPT !.hwOK = FALSE])

ClearHardwareBreakpoints ==
    /\ pc = "idle" /\ Debuggable
    /\ \E ok \in BOOLEAN :
          /\ SetDebug([control |-> debug.control \ {"hw"}, dr7 |-> {}, addr |-> NoAddress], ok)
          /\ HardwareAsked({}, NoAddress, ok)
    /\ UNCHANGED <<backend, tunnel, exits>>

\* Mutant: the addresses of breakpoints in use are kept.
Configured_KeepAddress(bits, addr) ==
    [control |-> debug.control \cup {"hw"}, dr7 |-> debug.dr7 \cup bits,
     addr |-> [s \in Slots |-> IF s \in Enabled(debug.dr7) THEN debug.addr[s] ELSE addr[s]]]

\* The bits of the new breakpoints are added to those in DR7.
Configured(bits, addr) ==
    [control |-> debug.control \cup {"hw"}, dr7 |-> debug.dr7 \cup bits, addr |-> addr]

SetHardwareBreakpoints(bits, addr) ==
    /\ pc = "idle" /\ Debuggable
    /\ Enabled(bits) # {}       \* otherwise it is ClearHardwareBreakpoints
    /\ \E ok \in BOOLEAN :
          /\ SetDebug(Configured(bits, addr), ok)
          /\ HardwareAsked(bits, addr, ok)
    /\ UNCHANGED <<backend, tunnel, exits>>

-----------------------------------------------------------------------------
(* Exits *)

\* HandleExecResult, RunImpl of WHPX: m_exitInfo.reason for an exit reason.
KvmReasons ==
    [hlt |-> "HLT", intr |-> "Normal", window |-> "Interrupt", exception |-> "Exception",
     shutdown |-> "Shutdown", unknown |-> "Error", io |-> "PIO", mmio |-> "MMIO"]

HaxmReasons ==
    [hlt |-> "HLT", window |-> "Interrupt", paused |-> "Normal", slow_mmio |-> "Error",
     realmode |-> "Error", unknown |-> "Error", statechange |-> "Shutdown", io |-> "PIO",
     mmio |-> "MMIO"]

WhpxReasons ==
    [hlt |-> "HLT", msr |-> "MSRAccess", cpuid |-> "CPUID", io |-> "PIO", mmio |-> "MMIO",
     window |-> "Interrupt", canceled |-> "Cancelled", none |-> "Normal",
     exception |-> "Exception", unsupported |-> "Error", invalid |-> "Error",
     unrecoverable |-> "Error"]

Reasons == [kvm |-> KvmReasons, haxm |-> HaxmReasons, whpx |-> WhpxReasons][backend]

\* The exits the guest can cause now: those the code knows, others, and what m_debug
\* asked for.
DebugCauses ==
    (IF "step" \in kernel.control THEN {"trap"} ELSE {})
        \cup (IF "sw" \in kernel.control THEN {"int3"} ELSE {})
        \cup (IF "hw" \in kernel.control /\ Enabled(kernel.dr7) # {} THEN {"hit"} ELSE {})
Causes == DOMAIN Reasons \cup {"other"} \cup DebugCauses

\* The tunnel after an exit (external).  The union holds data of the exit.  KVM writes
\* DR6 for a #DB only: an INT3 leaves there what an earlier exit left.  In the kvm_run page
\* io.data_offset lies where debug.arch.pc is, mmio.data and mmio.len (1, 2, 4 or 8, a bit
\* of DR6) where pc and dr6 are, and the data of other known exits before both.  In the
\* hax_tunnel the port and its size lie at debug.rip and io._flags at dr6, the data of other
\* known exits at rip, and HAX_EXIT_FAST_MMIO leaves both alone.
Tunnels(c) ==
    CASE c = "trap" \/ (c = "int3" /\ backend # "kvm") ->
             [reason : {"debug"}, dr6 : {{}}, at : Addresses]
      [] c = "int3" /\ backend = "kvm" ->
             [reason : {"debug"}, dr6 : {tunnel.dr6}, at : Addresses]
      [] c = "hit" ->
             [reason : {"debug"}, dr6 : (SUBSET Enabled(kernel.dr7)) \ {{}}, at : Addresses]
      [] c = "io" /\ backend = "kvm" ->
             [reason : {c}, dr6 : {tunnel.dr6}, at : Addresses \ {0}]
      [] c = "io" /\ backend = "haxm" ->
             [reason : {c}, dr6 : SUBSET Slots, at : Addresses \ {0}]
      [] c = "mmio" /\ backend = "kvm" ->
             [reason : {c}, dr6 : {{s} : s \in Slots}, at : Addresses]
      [] c = "other" /\ Debuggable ->
             [reason : {c}, dr6 : SUBSET Slots, at : Addresses]
      [] c \in {"slow_mmio", "statechange"} ->
             [reason : {c}, dr6 : {tunnel.dr6}, at : Addresses]
      [] OTHER -> {[tunnel EXCEPT !.reason = c]}

\* Mutant: DR6 is looked at whatever the exit is.
Reason_AnyExit(t) ==
    IF t.dr6 # {} THEN "HardwareBreakpoint"
    ELSE IF t.reason = "debug" THEN "SoftwareBreakpoint"
    ELSE IF t.reason \in DOMAIN Reasons THEN Reasons[t.reason] ELSE "Unhandled"

\* m_exitInfo.reason from the tunnel.
Reason(t) ==
    IF t.reason = "debug"
    THEN IF t.dr6 # {} THEN "HardwareBreakpoint" ELSE "SoftwareBreakpoint"
    ELSE IF t.reason \in DOMAIN Reasons THEN Reasons[t.reason] ELSE "Unhandled"

NeverHit == -1      \* VPOperationStatus::BreakpointNeverHit

\* Mutant: of the first slot in use, not of the first that was hit.
GetBreakpointAddress_InUse ==
    IF tunnel.dr6 = {} /\ tunnel.at = 0 THEN NeverHit
    ELSE IF tunnel.dr6 = {} \/ Enabled(debug.dr7) = {} THEN tunnel.at
    ELSE debug.addr[CHOOSE s \in Enabled(debug.dr7) : \A t \in Enabled(debug.dr7) : s <= t]

\* GetBreakpointAddress: of the first slot in DR6, or else the address in the tunnel.
GetBreakpointAddress ==
    IF tunnel.dr6 = {} /\ tunnel.at = 0 THEN NeverHit
    ELSE IF tunnel.dr6 = {} THEN tunnel.at
    ELSE debug.addr[CHOOSE s \in tunnel.dr6 : \A t \in tunnel.dr6 : s <= t]

-----------------------------------------------------------------------------
(* Run and Step *)

\* Run: UpdateRegisters, and the guest runs.
Run ==
    /\ pc = "idle"
    /\ pc' = "guest" /\ stepping' = FALSE
    /\ cause' = "none"
    /\ UNCHANGED <<backend, debug, kernel, tunnel, exitInfo, status, asked>>

\* Step: the single step flag, then RunImpl.  If the hypervisor refuses, the flag stays
\* in m_debug.
Step ==
    /\ pc = "idle" /\ Debuggable
    /\ \E ok \in BOOLEAN :
          /\ SetDebug([debug EXCEPT !.control = @ \cup {"step"}], ok)
          /\ pc' = (IF ok THEN "guest" ELSE "idle")
          /\ status' = (IF ok THEN status ELSE "Failed")
          /\ asked' = [asked EXCEPT !.stepOK = ok]
    /\ stepping' = TRUE
    /\ cause' = "none"
    /\ UNCHANGED <<backend, tunnel, exitInfo>>

\* Step of a backend that has no StepImpl.
StepUnsupported ==
    /\ pc = "idle" /\ ~Debuggable
    /\ status' = "Unsupported" /\ stepping' = TRUE
    /\ cause' = "none"
    /\ UNCHANGED <<backend, debug, kernel, tunnel, exitInfo, pc, asked>>

Returned == IF stepping THEN "stepped" ELSE "idle"

\* The guest stops and HandleExecResult handles the exit; RunImpl returns OK.
GuestExit(c, t) ==
    /\ pc = "guest"
    /\ tunnel' = t /\ cause' = c
    /\ exitInfo' = Reason(t)
    /\ status' = "OK"
    /\ pc' = Returned
    /\ UNCHANGED <<backend, debug, kernel, stepping, asked>>

\* WHPX: the emulator fails.  m_exitInfo keeps the last reason.
EmulationFails(c) ==
    /\ pc = "guest" /\ backend = "whpx" /\ c \in {"io", "mmio"}
    /\ tunnel' = [tunnel EXCEPT !.reason = c]
    /\ cause' = c
    /\ status' = "Failed"
    /\ pc' = Returned
    /\ UNCHANGED <<backend, debug, kernel, exitInfo, stepping, asked>>

\* UpdateRegisters or the run failed.
FailRun ==
    /\ pc = "guest"
    /\ status' = "Failed"
    /\ pc' = Returned
    /\ UNCHANGED <<backend, debug, kernel, tunnel, exitInfo, stepping, cause, asked>>

\* Mutant: the flag is cleared in m_debug but the hypervisor is not told when Run failed.
EndStep_OnlyOK ==
    /\ pc = "stepped"
    /\ IF status = "OK"
       THEN SetDebug([debug EXCEPT !.control = @ \ {"step"}], TRUE)
       ELSE debug' = [debug EXCEPT !.control = @ \ {"step"}] /\ UNCHANGED kernel
    /\ pc' = "idle"
    /\ UNCHANGED <<backend, tunnel, exitInfo, status, stepping, cause, asked>>

\* StepImpl, after RunImpl: the flag is taken back, and on success HandleExecResult
\* runs once more.
EndStep ==
    /\ pc = "stepped"
    /\ \E ok \in BOOLEAN :
          /\ SetDebug([debug EXCEPT !.control = @ \ {"step"}], ok)
          /\ status' = (IF ok THEN status ELSE "Failed")
          /\ IF ok /\ status = "OK"
             THEN exitInfo' = (IF Reason(tunnel) = "SoftwareBreakpoint" THEN "Step"
                               ELSE Reason(tunnel))
             ELSE UNCHANGED exitInfo
          /\ asked' = [asked EXCEPT !.stepOK = ok]
    /\ pc' = "idle"
    /\ UNCHANGED <<backend, tunnel, stepping, cause>>

Init ==
    /\ backend \in Backends
    /\ debug = [control |-> {}, dr7 |-> {}, addr |-> NoAddress]
    /\ kernel = debug
    /\ tunnel = [reason |-> "none", dr6 |-> {}, at |-> 0]
    /\ exitInfo = "none" /\ status = "OK"
    /\ pc = "idle" /\ stepping = FALSE
    /\ cause = "none"
    /\ asked = [sw |-> FALSE, swOK |-> TRUE, bits |-> {}, addr |-> NoAddress, hwOK |-> TRUE,
                stepOK |-> TRUE]

Next ==
    \/ \E enable \in BOOLEAN : EnableSoftwareBreakpoints(enable)
    \/ ClearHardwareBreakpoints
    \/ \E request \in Requests : SetHardwareBreakpoints(request[1], request[2])
    \/ Run \/ Step \/ StepUnsupported \/ FailRun \/ EndStep
    \/ \E c \in Causes :
          \/ \E t \in Tunnels(c) : GuestExit(c, t)
          \/ EmulationFails(c)

Spec == Init /\ [][Next]_vars

-----------------------------------------------------------------------------
(* Properties *)

\* While breakpoints were last requested with status OK, the hypervisor has them: the
\* flags and addresses survive steps, failed calls and requests of the other kind.
RequestedAreArmed ==
    pc = "guest" =>
        /\ asked.swOK => (asked.sw <=> "sw" \in kernel.control)
        /\ asked.hwOK =>
              /\ asked.bits \subseteq kernel.dr7 /\ asked.addr = kernel.addr
              /\ (asked.bits # {} <=> "hw" \in kernel.control)

\* Run does not stop after one instruction: the hypervisor's single step flag is on only
\* in a Step (vp.hpp:117, "Runs the virtual processor until interrupted."), if it accepted
\* both calls of the last Step, whether the step itself or later requests failed or not.
RunIsNotStepped ==
    pc = "guest" /\ ~stepping /\ asked.stepOK => "step" \notin kernel.control

\* The exits the hypervisor makes for m_debug are told apart from each other and from all
\* other exits although DR6 lies in a union that those overwrite: a hardware breakpoint is
\* reported as one (vp.hpp:368-369) by Run and by Step; nothing else is but an INT3 on KVM
\* (see SoftwareBreakpointReported); on HAXM Run reports an INT3 as a software breakpoint;
\* and Step reports a completed step, and nothing but a step or an INT3, as Step.
BreakpointsReported ==
    pc = "idle" /\ status = "OK" =>
        /\ cause = "hit" => exitInfo = "HardwareBreakpoint"
        /\ exitInfo = "HardwareBreakpoint" =>
              cause = "hit" \/ (cause = "int3" /\ backend = "kvm")
        /\ cause = "int3" /\ backend = "haxm" /\ ~stepping => exitInfo = "SoftwareBreakpoint"
        /\ cause = "trap" /\ stepping => exitInfo = "Step"
        /\ exitInfo \in {"SoftwareBreakpoint", "Step"} => cause \in {"int3", "trap"}

\* After Run an INT 3h in the guest is reported as a software breakpoint (vp.hpp:357-358).
\* On KVM it is not once DR6 has a bit of an earlier exit (kvm_vp.cpp:285).
SoftwareBreakpointReported ==
    pc = "idle" /\ status = "OK" /\ cause = "int3" /\ ~stepping =>
        exitInfo = "SoftwareBreakpoint"

\* When the guest stops at hardware breakpoints, GetBreakpointAddress, which combines the
\* slots the hypervisor left in the tunnel with the addresses in m_debug, returns the
\* address that was requested, by the last call that returned OK, for a slot that was hit
\* (vp.hpp:387-389).  A refused request leaves its addresses in m_debug, hence hwOK.
HitAddressIsRequested ==
    [][pc = "guest" /\ pc' # "guest" /\ cause' = "hit" /\ asked.hwOK =>
         \E s \in tunnel'.dr6 : GetBreakpointAddress' = asked.addr[s]]_vars

=============================================================================
