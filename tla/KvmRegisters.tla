---------------------------- MODULE KvmRegisters ----------------------------
(***************************************************************************)
(* The register state of a KvmVirtualProcessor (kvm/src/kvm_vp.cpp).  The  *)
(* virtual processor keeps copies of four banks of registers (m_regs,      *)
(* m_sregs, m_debugRegs, m_fpuRegs).  They are read from KVM by the first  *)
(* operation after an exit that needs them (RefreshRegisters), and written *)
(* back, bank by bank, when the guest is entered (UpdateRegisters).  MSRs  *)
(* are read and written directly.                                          *)
(*                                                                         *)
(* A register is a name; widths and sub-registers are left out.  `truth'   *)
(* records the last value that the application or the guest gave each      *)
(* register, Unknown if neither did.                                       *)
(***************************************************************************)
EXTENDS Integers, Sequences

CONSTANTS
    Registers,      \* every register of the model
    Writable,       \* those RegWrite supports
    FPUControls,    \* the x87 control words, set by SetFPUControl
    MXCSRs,         \* MXCSR, set by SetMXCSR
    MSRs,           \* those SetMSR reaches
    BankOf,         \* the bank of each register; "none" is an MSR in no bank
    Values,         \* what a register can hold
    Zero,           \* the value the constructor gives the copies
    Reset,          \* the value KVM gives the registers of a new VCPU
    Unknown,        \* no value: nobody wrote the register
    MayFail,        \* ioctls may fail
    Signals         \* a signal may end KVM_RUN with an error after the guest ran

Banks == <<"regs", "sregs", "debugRegs", "fpuRegs">>
BankNames == {"regs", "sregs", "debugRegs", "fpuRegs"}

ASSUME RegisterAssumption ==
    /\ BankOf \in [Registers -> BankNames \cup {"none"}]
    /\ Writable \subseteq Registers
    /\ FPUControls \subseteq Registers /\ FPUControls \cap Writable = {}
    /\ MXCSRs \subseteq Registers
    /\ MSRs \subseteq Registers
    /\ \A r \in Writable \cup FPUControls \cup MXCSRs : BankOf[r] # "none"

ASSUME ValueAssumption ==
    /\ Zero \in Values /\ Reset \in Values /\ Unknown \notin Values
    /\ MayFail \in BOOLEAN /\ Signals \in BOOLEAN

VARIABLES
    cache,      \* m_regs, m_sregs, m_debugRegs and m_fpuRegs
    dirty,      \* m_regsDirty: the copies are older than the VCPU
    changed,    \* the banks whose m_...Changed flag is set
    hw,         \* the VCPU in KVM
    pc,         \* "idle", or "guest" while KVM_RUN is in progress
    executed,   \* the guest has executed since it was entered
    truth       \* history: the last value written to each register

vars == <<cache, dirty, changed, hw, pc, executed, truth>>

\* f with the values of w where w has one.
Update(f, w) == [r \in DOMAIN f |-> IF r \in DOMAIN w THEN w[r] ELSE f[r]]

\* The registers of the given banks, as they are in f.
Part(f, banks) == [r \in {s \in Registers : BankOf[s] \in banks} |-> f[r]]

-----------------------------------------------------------------------------
(* Reading and writing the registers, while the guest is not running *)

\* The copies after a successful RefreshRegisters.
Refreshed == IF dirty THEN Update(cache, Part(hw, BankNames)) ELSE cache

RegRead(r) == Refreshed[r]

GetMSR(r) == hw[r]

\* RegRead, GetFPUControl, GetMXCSR and every other reader.
Read ==
    /\ pc = "idle" /\ dirty
    /\ cache' = Refreshed
    /\ dirty' = FALSE
    /\ UNCHANGED <<changed, hw, pc, executed, truth>>

\* RefreshRegisters gives up at a bank: the operation returns Failed, the banks
\* before that one have been copied.
FailRefresh ==
    /\ pc = "idle" /\ dirty /\ MayFail
    /\ \E k \in 1 .. Len(Banks) :
          cache' = Update(cache, Part(hw, {Banks[i] : i \in 1 .. k - 1}))
    /\ UNCHANGED <<dirty, changed, hw, pc, executed, truth>>

\* m_regsChanged, m_sregsChanged, m_debugRegsChanged, m_fpuRegsChanged.
MarkChanged(rs) == changed' = changed \cup {BankOf[r] : r \in rs}

\* The copies are refreshed, then the registers w names are changed in them.
Store(w) ==
    /\ pc = "idle"
    /\ cache' = Update(Refreshed, w)
    /\ dirty' = FALSE
    /\ truth' = Update(truth, w)
    /\ UNCHANGED <<hw, pc, executed>>

\* RegWrite, of one register or of several.  When it returns Unsupported for one
\* of them the ones before it have been written: w is what was written.
RegWrite(w) == Store(w) /\ MarkChanged(DOMAIN w)

\* SetFPUControl sets no flag.
SetFPUControl(w) == Store(w) /\ UNCHANGED changed

SetMXCSR(w) == Store(w) /\ MarkChanged(DOMAIN w)

\* SetMSR and SetMSRs go to KVM at once; the copies are not told.
SetMSR(w) ==
    /\ pc = "idle"
    /\ hw' = Update(hw, w)
    /\ truth' = Update(truth, w)
    /\ UNCHANGED <<cache, dirty, changed, pc, executed>>

-----------------------------------------------------------------------------
(* RunImpl *)

\* The VCPU after a successful UpdateRegisters.
UpdateRegisters == Update(hw, Part(cache, changed))

EnterGuest ==
    /\ pc = "idle"
    /\ hw' = UpdateRegisters
    /\ changed' = {}
    /\ pc' = "guest"
    /\ executed' = FALSE
    /\ UNCHANGED <<cache, dirty, truth>>

\* Mutant: every flag is cleared before the banks are written.
FailUpdate_ClearsAll ==
    /\ pc = "idle" /\ MayFail
    /\ \E k \in {i \in 1 .. Len(Banks) : Banks[i] \in changed} :
          LET written == {Banks[i] : i \in 1 .. k - 1} \cap changed IN
          hw' = Update(hw, Part(cache, written))
    /\ changed' = {}
    /\ UNCHANGED <<cache, dirty, pc, executed, truth>>

\* UpdateRegisters gives up at a bank: Run returns Failed, the banks before that
\* one have been written and their flags cleared.
FailUpdate ==
    /\ pc = "idle" /\ MayFail
    /\ \E k \in {i \in 1 .. Len(Banks) : Banks[i] \in changed} :
          LET written == {Banks[i] : i \in 1 .. k - 1} \cap changed IN
          /\ hw' = Update(hw, Part(cache, written))
          /\ changed' = changed \ written
    /\ UNCHANGED <<cache, dirty, pc, executed, truth>>

\* The guest executes and gives some registers new values (external).
Execute(w) ==
    /\ pc = "guest"
    /\ hw' = Update(hw, w)
    /\ truth' = Update(truth, w)
    /\ executed' = TRUE
    /\ UNCHANGED <<cache, dirty, changed, pc>>

\* Mutant: the copies are believed to be current.
Exit_NotDirty ==
    /\ pc = "guest"
    /\ pc' = "idle"
    /\ UNCHANGED <<cache, dirty, changed, hw, executed, truth>>

\* KVM_RUN returns and HandleExecResult marks the copies.
Exit ==
    /\ pc = "guest"
    /\ dirty' = TRUE
    /\ pc' = "idle"
    /\ UNCHANGED <<cache, changed, hw, executed, truth>>

\* KVM_RUN fails and Run returns Failed.  With EINTR the guest may have executed.
FailRun ==
    /\ pc = "guest" /\ MayFail /\ (executed => Signals)
    /\ pc' = "idle"
    /\ UNCHANGED <<cache, dirty, changed, hw, executed, truth>>

-----------------------------------------------------------------------------

\* The constructor: m_regsDirty is false although the copies were never read.
\* m_debugRegs is not initialised.
Init ==
    /\ cache \in [Registers -> Values]
    /\ \A r \in Registers : BankOf[r] # "debugRegs" => cache[r] = Zero
    /\ dirty = FALSE /\ changed = {}
    /\ hw = [r \in Registers |-> Reset]
    /\ pc = "idle" /\ executed = FALSE
    /\ truth = [r \in Registers |-> Unknown]

\* The values a call can give to some of the registers rs.
Assignments(rs) == UNION {[s -> Values] : s \in SUBSET rs}

Next ==
    \/ Read \/ FailRefresh
    \/ \E w \in Assignments(Writable) : RegWrite(w)
    \/ \E w \in [FPUControls -> Values] : SetFPUControl(w)
    \/ \E w \in [MXCSRs -> Values] : SetMXCSR(w)
    \/ \E w \in Assignments(MSRs) : SetMSR(w)
    \/ EnterGuest \/ FailUpdate
    \/ \E w \in Assignments(Registers) : Execute(w)
    \/ Exit \/ FailRun

Spec == Init /\ [][Next]_vars

-----------------------------------------------------------------------------
(* Properties *)

TypeOK ==
    /\ cache \in [Registers -> Values] /\ hw \in [Registers -> Values]
    /\ truth \in [Registers -> Values \cup {Unknown}]
    /\ dirty \in BOOLEAN /\ executed \in BOOLEAN
    /\ changed \subseteq BankNames
    /\ pc \in {"idle", "guest"}

\* The registers with one way in: neither a control word of the FPU nor an MSR
\* that a bank also holds.
Plain == {r \in Registers \ FPUControls : r \in MSRs => BankOf[r] = "none"}

Cached == {r \in Registers : BankOf[r] # "none"}

\* While the guest runs every register has the value last written to it, whatever
\* ioctls failed in between (vp.hpp:206, "Writes to a register.").
GuestSees(rs) ==
    pc = "guest" => \A r \in rs : truth[r] # Unknown => hw[r] = truth[r]

\* What the application reads is what was last written, by itself or by the guest.
Reads(rs) ==
    pc = "idle" => \A r \in rs : truth[r] # Unknown => RegRead(r) = truth[r]

\* Registers written by RegWrite, SetMXCSR and, outside the banks, SetMSR reach
\* the guest.
GuestSeesLastWrite == GuestSees(Plain)

\* RegRead and the other readers return the last value written.
ReadsLastWrite == Reads(Plain \cap Cached)

=============================================================================
