-------------------------- MODULE RegisterAccess --------------------------
(***************************************************************************)
(* Registers of the HAXM virtual processor (haxm_vp.cpp), which keeps      *)
(* copies of two banks, and of the WHPX one (whpx_vp.cpp, whpx_regs.cpp),  *)
(* which keeps none, with the base class's RegCopy: RegRead and RegWrite   *)
(* of several names of one register, the control registers, MSRs and what  *)
(* Run moves, while any call of the hypervisor may fail.                   *)
(*                                                                         *)
(* The history variable file is the registers as the architecture has      *)
(* them.  A chunk of it becomes Unsaid where nothing is said: a call that *)
(* failed may or may not have had effect, and the calls that return OK and *)
(* do something else are told apart where they are modelled.               *)
(***************************************************************************)
EXTENDS SubRegisters, FiniteSetsExt

CONSTANTS
    Families,       \* sets of registers; those of one family are used together
    Values,         \* what the application writes
    MSRs,           \* model specific registers other than EFER
    MaxMsrArray,    \* HAX_MAX_MSR_ARRAY
    MaxBatch,       \* bound: names in one call
    MaxMsrs         \* bound: MSRs in one call

ASSUME RegisterAssumption ==
    /\ MSRs \cap (General \cup Counters \cup Whole \cup {"st", "control"}) = {}
    /\ Values \subseteq Nat \ {0}
    /\ MaxMsrArray \in Nat \ {0} /\ MaxBatch \in Nat /\ MaxMsrs \in Nat

VARIABLES
    backend,    \* "haxm" or "whpx"
    family,     \* the registers in use, a member of Families
    recent,     \* WHPX: g_whpxVersion is at least 10.0.17763
    honours,    \* HAXM: SET_REGS writes EFER (external)
    dirty,      \* HAXM: m_regsDirty
    changed,    \* HAXM: the banks whose changed flag is set
    copy,       \* HAXM: m_regs and m_fpuRegs
    vcpu,       \* the registers of the hypervisor's VCPU, MSRs included
    running,    \* the guest runs
    status,     \* what the last call returned
    file,       \* history: the registers as they should be
    pending     \* history: HAXM: the places written since the last UpdateRegisters

fixed == <<backend, family, recent, honours>>
accessVars == <<fixed, dirty, changed, copy, vcpu, running, status, file, pending>>

Of(rs) == UNION {{r} \X Chunks(r) : r \in rs}
Places == Of(family)

\* EFER is an MSR and a register; the control registers have operations of their own.
MsrNames == family \cap (MSRs \cup {"efer"})
RegNames == NamesOf(family \ (MSRs \cup {"control"}))

\* What a place holds: chunk c of the value v, or one of these.
Zero    == <<0, "zero">>
Guest   == <<0, "guest">>       \* written by the guest, or the reset state
Garbage == <<0, "garbage">>     \* not initialised
Unsaid  == <<0, "unsaid">>      \* nothing is promised

\* The RegValue of a number.
Value(v) == [c \in UNION {Chunks(r) : r \in family} |-> <<v, c>>]

Bank(r) == IF r \in {"st", "xmm", "control"} THEN "fpu" ELSE "regs"
Banks == {"regs", "fpu"}

-----------------------------------------------------------------------------
(* Writes, as functions of the registers *)

\* What a move puts into place p: a chunk of the RegValue, or one of three others.
Piece(regs, p, value, from) ==
    CASE from = "zero"   -> Zero
      [] from = "unsaid" -> Unsaid
      [] from = "kept"   -> regs[p]
      [] OTHER           -> value[from]

\* The registers after a loop over a batch of assignments, in which names may occur twice
\* and overlap: each place has what the last assignment that moves something to it left.
After(regs, batch, moves) ==
    [p \in DOMAIN regs |->
        LET to == {i \in DOMAIN batch : batch[i][1][1] = p[1] /\ p[2] \in DOMAIN moves[i]}
            last == Max(to)
        IN  IF to = {} THEN regs[p] ELSE Piece(regs, p, batch[last][2], moves[last][p[2]])]

Unknown(f, places) == [p \in DOMAIN f |-> IF p \in places THEN Unsaid ELSE f[p]]

\* Chunks that do not get what they should although the call returns OK: SPL, BPL, SIL
\* and DIL on HAXM clear bits 15:8; SetFPUControl cuts off or overwrites parts of what it
\* is given; the WHPX setters clear the other control registers.
Departures(n) ==
    CASE backend = "haxm" /\ n = <<Index, "low8">> -> {"b1"}
      [] backend = "haxm" /\ n[2] = "fpu"          -> {"tw", "rip", "rdp"}
      [] backend = "whpx" /\ n[2] = "fpu"          -> {"tw", "cs", "ds", "mxcsr", "mask"}
      [] backend = "whpx" /\ n[2] = "mxcsr"        -> DataPointer \cup {"mask"}
      [] backend = "whpx" /\ n[2] = "mask"         -> DataPointer \cup {"mxcsr"}
      [] OTHER -> {}

\* What the architecture says of an assignment to n.
Filed(n) ==
    LET move   == Architecture(n)
        unsaid == Departures(n) \cup NoRule(n)
    IN  [c \in DOMAIN move \cup unsaid |-> IF c \in unsaid THEN "unsaid" ELSE move[c]]

FiledAll(f, batch) == After(f, batch, [i \in DOMAIN batch |-> Filed(batch[i][1])])
Registers(batch) == {batch[i][1][1] : i \in DOMAIN batch}

-----------------------------------------------------------------------------
(* HAXM *)

\* RefreshRegisters reads both banks if the copies are stale.
Refreshed == IF dirty THEN vcpu ELSE copy

\* One of its calls fails: the first bank, or none, was read.
FailRefresh ==
    /\ backend = "haxm" /\ dirty /\ ~running
    /\ status' = "Failed"
    /\ copy' \in {copy, [p \in Places |-> IF Bank(p[1]) = "regs" THEN vcpu[p] ELSE copy[p]]}
    /\ UNCHANGED <<fixed, dirty, changed, vcpu, running, file, pending>>

\* The constructor tries whether SET_REGS writes EFER before the VCPU exists: the calls
\* fail, m_useEferMSR stays true and EFER is read and written as an MSR.
IsMSR(n) == n[1] = "efer"

\* Mutant: the other bank is marked.
Marked_Regs(n) == "regs"

\* m_regsChanged or m_fpuRegsChanged.
Marked(n) == Bank(n[1])

HaxmWrites(regs, batch) == After(regs, batch, [i \in DOMAIN batch |-> HaxmWrite(batch[i][1])])

\* Mutant: a name that is not supported is skipped.
Done_Skips(batch) == {i \in DOMAIN batch : HaxmSupports(batch[i][1])}

\* The assignments before the first whose name is not supported.
Done(batch) == {i \in DOMAIN batch : \A j \in 1 .. i : HaxmSupports(batch[j][1])}

\* The registers named before the first name that is not supported.
Preceding(batch) ==
    {r \in Registers(batch) : \E i \in DOMAIN batch :
        batch[i][1][1] = r /\ \A j \in 1 .. i : HaxmSupports(batch[j][1])}

\* RegWrite, SetFPUControl, SetMXCSR, SetMXCSRMask.  The result of SetMSR is not looked at.
HaxmRegWrite(batch, reference) ==
    LET done   == Done(batch)
        toMSR  == Restrict(batch, {i \in done : IsMSR(batch[i][1])})
        toCopy == Restrict(batch, {i \in done : ~IsMSR(batch[i][1])})
        all    == \A i \in DOMAIN batch : HaxmSupports(batch[i][1])
    IN  \E ok \in {TRUE, DOMAIN toMSR = {}} :
           /\ copy' = HaxmWrites(Refreshed, toCopy) /\ dirty' = FALSE
           /\ changed' = changed \cup {Marked(toCopy[i][1]) : i \in DOMAIN toCopy}
           /\ pending' = pending \cup Of(Registers(toCopy))
           /\ vcpu' = (IF ok THEN HaxmWrites(vcpu, toMSR) ELSE vcpu)
           /\ status' = (IF all THEN "OK" ELSE "Unsupported")
           /\ file' = (IF all
                       THEN Unknown(FiledAll(file, reference),
                                    IF ok THEN {} ELSE Of(Registers(toMSR)))
                       ELSE Unknown(file, Of(Preceding(batch))))
           /\ UNCHANGED <<fixed, running>>

\* The registers GetMSRs and SetMSRs pass for n: blocks that are full whenever n is at
\* least a block, so that the last one runs past the arrays.
MsrEntries(n) ==
    IF n <= MaxMsrArray THEN n ELSE MaxMsrArray * ((n + MaxMsrArray - 1) \div MaxMsrArray)

MsrWrites(regs, batch) == After(regs, batch, [i \in DOMAIN batch |-> Own(batch[i][1])])

\* SetMSR and SetMSRs, block by block until one fails; past the end of the arrays any
\* register may get any value.
HaxmSetMSRs(batch) ==
    LET n == Len(batch)
        m == MsrEntries(n)
        junk == {[c \in DOMAIN Value(0) |-> Garbage]}
    IN  \E past \in [n + 1 .. m -> (MsrNames \X {"whole"}) \X junk] :
        \E sent \in {s \in 0 .. m : s = m \/ s % MaxMsrArray = 0} :
           /\ vcpu' = MsrWrites(vcpu, [i \in 1 .. sent |-> IF i <= n THEN batch[i] ELSE past[i]])
           /\ status' = (IF sent = m THEN "OK" ELSE "Failed")
           /\ file' = (IF sent = n /\ m = n THEN MsrWrites(file, batch)
                       ELSE Unknown(file, Of(MsrNames)))
           /\ UNCHANGED <<fixed, dirty, changed, copy, running, pending>>

-----------------------------------------------------------------------------
(* WHPX *)

\* Each name gets its own value of the register, made from the value before the call;
\* the hypervisor assigns them in order, so of two names of one register the last wins.
WhpxMove(n) ==
    LET move == WhpxWrite(n)
    IN  [c \in Chunks(n[1]) |-> IF c \in DOMAIN move THEN move[c] ELSE "kept"]

WhpxWrites(batch) == After(vcpu, batch, [i \in DOMAIN batch |-> WhpxMove(batch[i][1])])

Aliased(batch) ==
    {r \in Registers(batch) :
        \E i, j \in DOMAIN batch : i # j /\ batch[i][1][1] = r /\ batch[j][1][1] = r}

\* RegWrite, SetFPUControl, SetMXCSR, SetMXCSRMask.
WhpxRegWrite(batch, reference) ==
    /\ \/ /\ \E i \in DOMAIN batch : ~WhpxSupports(batch[i][1], recent)
          /\ status' = "Unsupported"
          /\ UNCHANGED <<vcpu, file>>
       \/ /\ \A i \in DOMAIN batch : WhpxSupports(batch[i][1], recent)
          /\ status' = "OK"
          /\ vcpu' = WhpxWrites(batch)
          /\ file' = Unknown(FiledAll(file, reference), Of(Aliased(batch)))
       \/ /\ \A i \in DOMAIN batch : WhpxSupports(batch[i][1], recent)
          /\ status' = "Failed"
          /\ vcpu' \in {vcpu, WhpxWrites(batch)}
          /\ file' = Unknown(file, Of(Registers(batch)))
    /\ UNCHANGED <<fixed, dirty, changed, copy, running, pending>>

\* "hidden" stands for the MSRs that are not in the list, "specctrl" for the two that
\* depend on the version.
TranslateMSR(m) == m # "hidden" /\ (m = "specctrl" => recent)

\* SetMSR and SetMSRs.  OK is returned when the hypervisor refuses, too.
WhpxSetMSRs(batch) ==
    /\ \/ /\ \E i \in DOMAIN batch : ~TranslateMSR(batch[i][1][1])
          /\ status' = "InvalidRegister"
          /\ UNCHANGED <<vcpu, file>>
       \/ /\ \A i \in DOMAIN batch : TranslateMSR(batch[i][1][1])
          /\ status' = "OK"
          /\ \/ vcpu' = MsrWrites(vcpu, batch) /\ file' = MsrWrites(file, batch)
             \/ vcpu' = vcpu /\ file' = Unknown(file, Of(Registers(batch)))
    /\ UNCHANGED <<fixed, dirty, changed, copy, running, pending>>

-----------------------------------------------------------------------------
(* What the application calls *)

\* What GetMSR may answer when n is read: RegRead of EFER on HAXM does not look at it.
Answers(n) == IF backend = "haxm" /\ IsMSR(n) THEN BOOLEAN ELSE {TRUE}

\* What RegRead of n, returning OK, puts into each chunk of the RegValue.
Result(n, got) ==
    LET move == IF backend = "haxm" THEN HaxmRead(n) ELSE WhpxRead(n)
        regs == IF backend = "haxm" /\ ~IsMSR(n) THEN Refreshed ELSE vcpu
    IN  [c \in DOMAIN Value(0) |->
            CASE c \notin DOMAIN move \/ ~got -> Garbage
              [] move[c] = "zero"             -> Zero
              [] OTHER                        -> regs[<<n[1], move[c]>>]]

\* Chunks that are read as something else although RegRead returns OK: the parts of an
\* FPUControl that are not kept; AH, CH, DH and BH are read as AL, CL, DL and BL by WHPX;
\* EFER keeps what the caller had when GetMSR failed.
Amiss(n, got) ==
    CASE backend = "haxm" /\ n[2] = "fpu"   -> {"tw", "rip", "rdp"}
      [] backend = "whpx" /\ n[2] = "fpu"   -> {"tw", "cs", "ds"}
      [] backend = "whpx" /\ n[2] = "high8" -> {"b0"}
      [] OTHER                              -> IF got THEN {} ELSE Chunks(n[1])

\* What it should put there, and Unsaid elsewhere.
Expected(n, got) ==
    LET move == Sources(n)
    IN  [c \in DOMAIN Value(0) |->
            IF c \in DOMAIN move \ Amiss(n, got) THEN file[<<n[1], move[c]>>] ELSE Unsaid]

Supports(n) == IF backend = "haxm" THEN HaxmSupports(n) ELSE WhpxSupports(n, recent)

\* RegRead of a set of names.  On HAXM the copies are refreshed first; what GetMSR answers
\* for EFER changes neither the state nor the status.
RegRead(names) ==
    /\ ~running
    /\ status' = (IF \A n \in names : Supports(n) THEN "OK" ELSE "Unsupported")
    /\ copy' = (IF backend = "haxm" THEN Refreshed ELSE copy)
    /\ dirty' = FALSE
    /\ UNCHANGED <<fixed, changed, vcpu, running, file, pending>>

Write(batch, reference) ==
    /\ ~running
    /\ IF backend = "haxm" THEN HaxmRegWrite(batch, reference)
       ELSE WhpxRegWrite(batch, reference)

RegWrite(batch) == Write(batch, batch)

\* RegCopy: RegRead into a RegValue that is not initialised, then RegWrite.
RegCopy(dst, src) ==
    /\ Supports(src)
    /\ \E got \in Answers(src) :
          Write(<< <<dst, Result(src, got)>> >>, << <<dst, Expected(src, got)>> >>)

\* SetFPUControl, SetMXCSR, SetMXCSRMask.
SetControl(n, v) == Write(<< <<n, Value(v)>> >>, << <<n, Value(v)>> >>)

SetMSRs(batch) ==
    /\ ~running
    /\ IF backend = "haxm" THEN HaxmSetMSRs(batch) ELSE WhpxSetMSRs(batch)

-----------------------------------------------------------------------------
(* Run *)

\* The VCPU after UpdateRegisters, when the calls for the banks in fails failed.
Updated(fails) ==
    [p \in Places |->
        IF Bank(p[1]) \in changed \ fails /\ (p[1] \in MsrNames => p[1] = "efer" /\ honours)
        THEN copy[p] ELSE vcpu[p]]

\* UpdateRegisters clears the flags whatever the calls return, so writes since the last
\* run are lost; a stale copy of EFER may be written over a newer one.
UpdateRegisters(fails) ==
    /\ changed' = {} /\ pending' = {}
    /\ vcpu' = Updated(fails)
    /\ file' = Unknown(file, {p \in pending : Bank(p[1]) \in fails}
                  \cup (IF honours /\ "regs" \in changed THEN Of(family \cap {"efer"}) ELSE {}))

\* Run; on WHPX there is nothing to update.  The hypervisor may refuse to run.
Run ==
    /\ ~running
    /\ IF backend = "haxm" THEN \E fails \in SUBSET changed : UpdateRegisters(fails)
       ELSE UNCHANGED <<changed, pending, vcpu, file>>
    /\ \/ running' = TRUE /\ status' = "running"
       \/ running' = FALSE /\ status' = "Failed"
    /\ UNCHANGED <<fixed, dirty, copy>>

\* The guest writes a register.
Execute(r) ==
    /\ running
    /\ vcpu' = [p \in Places |-> IF p[1] = r THEN Guest ELSE vcpu[p]]
    /\ file' = [p \in Places |-> IF p[1] = r THEN Guest ELSE file[p]]
    /\ UNCHANGED <<fixed, dirty, changed, copy, running, status, pending>>

\* The guest exits; HandleExecResult marks the copies stale.
Exit ==
    /\ running
    /\ running' = FALSE /\ status' = "OK"
    /\ dirty' = (backend = "haxm")
    /\ UNCHANGED <<fixed, changed, copy, vcpu, file, pending>>

AccessInit ==
    /\ backend \in {"haxm", "whpx"} /\ family \in Families
    /\ recent \in BOOLEAN /\ honours \in BOOLEAN
    /\ backend = "haxm" => recent
    /\ backend = "whpx" \/ "efer" \notin family => honours
    /\ vcpu = [p \in Places |-> Guest] /\ file = vcpu
    /\ copy = [p \in Places |-> Zero]
    /\ dirty = (backend = "haxm") /\ changed = {} /\ pending = {}
    /\ running = FALSE /\ status = "OK"

Batches(names) == UNION {[1 .. k -> names \X {Value(v) : v \in Values}] : k \in 1 .. MaxBatch}
MsrBatches ==
    UNION {[1 .. k -> (MsrNames \X {"whole"}) \X {Value(v) : v \in Values}] : k \in 1 .. MaxMsrs}

AccessNext ==
    \/ FailRefresh \/ Run \/ Exit
    \/ \E names \in {{n} : n \in RegNames} \cup {RegNames} : RegRead(names)
    \/ \E batch \in Batches(RegNames) : RegWrite(batch)
    \/ \E dst, src \in RegNames : RegCopy(dst, src)
    \/ \E n \in NamesOf(family \cap {"control"}), v \in Values : SetControl(n, v)
    \/ \E batch \in MsrBatches : SetMSRs(batch)
    \/ \E r \in family : Execute(r)

AccessSpec == AccessInit /\ [][AccessNext]_accessVars

-----------------------------------------------------------------------------
(* Properties *)

Agrees(value, expected) == expected # Unsaid => value = expected

\* RegRead and GetMSR return the last value written to each part of a register, by the
\* application under any of its names or by the guest, whatever was refreshed, updated
\* or failed in between.  Departures and Amiss name the parts for which the code does not.
ReadsMatch ==
    ~running =>
        /\ \A n \in NamesOf(family \ MSRs) : Supports(n) =>
              \A got \in Answers(n), c \in DOMAIN Value(0) :
                  Agrees(Result(n, got)[c], Expected(n, got)[c])
        /\ \A p \in Of(MsrNames) : Agrees(vcpu[p], file[p])

\* When the guest is entered every part of every register holds the last value written,
\* unless the hypervisor refused to take that write, or Departures names the part: a
\* refused write takes no earlier write and no write to the other bank with it.
GuestRunsWithWrites ==
    [][~running /\ running' => \A p \in Places : Agrees(vcpu'[p], file'[p])]_accessVars

\* A call refused because of one name or MSR changes nothing on WHPX, and on HAXM
\* nothing but what comes before that name.
RefusedChangesNothing ==
    [][status' \in {"Unsupported", "InvalidRegister"} =>
         /\ backend = "whpx" => vcpu' = vcpu
         /\ backend = "haxm" =>
               \A p \in Places : file'[p] # Unsaid =>
                   Refreshed'[p] = Refreshed[p] /\ vcpu'[p] = vcpu[p]]_accessVars

=============================================================================
