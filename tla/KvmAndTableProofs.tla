------------------------- MODULE KvmAndTableProofs --------------------------
(***************************************************************************)
(* Proofs about KvmRegisters, for any registers, banks and values: the     *)
(* guest and the application see the last value written to every register  *)
(* with one way in, provided no signal ends KVM_RUN after the guest ran.   *)
(* And about Descriptors, for any tables, selectors, vectors and stores:   *)
(* descriptors are read back as they were stored and the tables not left.  *)
(***************************************************************************)
EXTENDS KvmRegisters, Descriptors, TLAPS

Known(r) == truth[r] # Unknown

\* A write of the application is in the copies until the guest has executed, and
\* in the VCPU unless the flag of its bank is set.
Coherent ==
    \A r \in Plain : Known(r) =>
        /\ BankOf[r] \notin changed => hw[r] = truth[r]
        /\ r \in Cached /\ ~dirty /\ ~(pc = "guest" /\ executed) => cache[r] = truth[r]

\* Nothing is waiting to be written while the copies are stale or the guest runs.
NothingWaits == dirty \/ pc = "guest" => changed = {}

\* The inductive invariant.
IInv == TypeOK /\ NothingWaits /\ Coherent

-----------------------------------------------------------------------------
(* The operators of the model *)

\* Update changes the registers w names and no other.
LEMMA UpdateValue ==
    ASSUME NEW f, NEW w, NEW r \in DOMAIN f
    PROVE  /\ r \in DOMAIN w => Update(f, w)[r] = w[r]
           /\ r \notin DOMAIN w => Update(f, w)[r] = f[r]
  BY DEF Update

\* Update keeps the type of a register file.
LEMMA UpdateType ==
    ASSUME NEW S, NEW f \in [Registers -> S], NEW w,
           \A r \in DOMAIN w : w[r] \in S
    PROVE  Update(f, w) \in [Registers -> S]
  BY DEF Update

\* Writing the banks bs of g into f takes their registers from g, the others from f.
LEMMA PartValue ==
    ASSUME NEW f, NEW g, NEW bs, NEW r \in Registers, DOMAIN f = Registers
    PROVE  Update(f, Part(g, bs))[r] = (IF BankOf[r] \in bs THEN g[r] ELSE f[r])
  BY DEF Update, Part

\* It keeps the type of a register file.
LEMMA PartType ==
    ASSUME NEW f \in [Registers -> Values], NEW g \in [Registers -> Values], NEW bs
    PROVE  Update(f, Part(g, bs)) \in [Registers -> Values]
  BY DEF Update, Part

\* What the application can pass is a partial register file.
LEMMA AssignmentType ==
    ASSUME NEW rs \in SUBSET Registers, NEW w \in Assignments(rs)
    PROVE  /\ DOMAIN w \subseteq rs
           /\ \A r \in DOMAIN w : w[r] \in Values
  <1>1. PICK s \in SUBSET rs : w \in [s -> Values]
    BY DEF Assignments
  <1>2. QED
    BY <1>1

\* Refreshed has the type of a register file, and holds the VCPU's value of a
\* register in a bank when the copies are stale.
LEMMA RefreshedValue ==
    ASSUME TypeOK
    PROVE  /\ Refreshed \in [Registers -> Values]
           /\ \A r \in Cached : Refreshed[r] = (IF dirty THEN hw[r] ELSE cache[r])
  <1>1. Update(cache, Part(hw, BankNames)) \in [Registers -> Values]
    BY PartType DEF TypeOK
  <1>2. \A r \in Cached : Update(cache, Part(hw, BankNames))[r] = hw[r]
    <2> TAKE r \in Cached
    <2>1. r \in Registers /\ BankOf[r] \in BankNames
      BY RegisterAssumption DEF Cached
    <2>2. DOMAIN cache = Registers
      BY DEF TypeOK
    <2>3. QED
      BY <2>1, <2>2, PartValue
  <1>3. QED
    BY <1>1, <1>2 DEF Refreshed, TypeOK

\* A value is not Unknown: whoever writes a register makes it known.
LEMMA ValuesAreKnown == \A v \in Values : v # Unknown
  BY ValueAssumption

-----------------------------------------------------------------------------
(* The invariant holds initially and every action keeps it *)

\* Nothing is known of any register at first.
LEMMA InitIInv == Init => IInv
  <1> SUFFICES ASSUME Init PROVE IInv
    OBVIOUS
  <1>1. TypeOK
    BY ValueAssumption DEF Init, TypeOK
  <1>2. NothingWaits
    BY DEF Init, NothingWaits
  <1>3. \A r \in Plain : ~Known(r)
    BY DEF Init, Known, Plain
  <1>4. QED
    BY <1>1, <1>2, <1>3 DEF IInv, Coherent

\* A refresh that succeeds.
LEMMA ReadStep == IInv /\ Read => IInv'
  <1> SUFFICES ASSUME IInv, Read PROVE IInv'
    OBVIOUS
  <1> USE DEF IInv
  <1>1. TypeOK'
    BY RefreshedValue DEF Read, TypeOK
  <1>2. NothingWaits'
    BY DEF Read, NothingWaits
  <1>3. Coherent'
    <2> SUFFICES ASSUME NEW r \in Plain, Known(r)
                 PROVE  /\ BankOf[r] \notin changed => hw[r] = truth[r]
                        /\ r \in Cached => Refreshed[r] = truth[r]
      BY DEF Read, Coherent, Known
    <2>1. BankOf[r] \notin changed /\ hw[r] = truth[r]
      BY DEF Read, Coherent, NothingWaits
    <2>2. QED
      BY <2>1, RefreshedValue DEF Read
  <1>4. QED
    BY <1>1, <1>2, <1>3

\* A refresh that fails part of the way changes copies that are stale anyway.
LEMMA FailRefreshStep == IInv /\ FailRefresh => IInv'
  <1> SUFFICES ASSUME IInv, FailRefresh PROVE IInv'
    OBVIOUS
  <1> USE DEF IInv
  <1>1. cache' \in [Registers -> Values]
    <2>1. PICK k \in 1 .. Len(Banks) :
              cache' = Update(cache, Part(hw, {Banks[i] : i \in 1 .. k - 1}))
      BY DEF FailRefresh
    <2>2. QED
      BY <2>1, PartType DEF TypeOK
  <1>2. QED
    BY <1>1 DEF FailRefresh, TypeOK, NothingWaits, Coherent, Known

\* A write to the copies, with its bank marked or of a register that is not Plain.
LEMMA StoreStep ==
    ASSUME IInv, NEW w, Store(w),
           DOMAIN w \subseteq Cached, \A r \in DOMAIN w : w[r] \in Values,
           \/ MarkChanged(DOMAIN w)
           \/ UNCHANGED changed /\ DOMAIN w \cap Plain = {}
    PROVE  IInv'
  <1> USE DEF IInv
  <1>1. TypeOK'
    <2>1. cache' \in [Registers -> Values]
      BY RefreshedValue, UpdateType DEF Store
    <2>2. truth' \in [Registers -> Values \cup {Unknown}]
      BY UpdateType DEF Store, TypeOK
    <2>3. changed' \subseteq BankNames
      BY RegisterAssumption DEF MarkChanged, TypeOK, Cached
    <2>4. QED
      BY <2>1, <2>2, <2>3 DEF Store, TypeOK
  <1>2. NothingWaits'
    BY DEF Store, NothingWaits
  <1>3. Coherent'
    <2> SUFFICES ASSUME NEW r \in Plain, truth'[r] # Unknown
                 PROVE  /\ BankOf[r] \notin changed' => hw[r] = truth'[r]
                        /\ r \in Cached => cache'[r] = truth'[r]
      BY DEF Store, Coherent, Known
    <2>0. r \in Registers /\ r \in DOMAIN truth /\ r \in DOMAIN Refreshed
      BY RefreshedValue DEF Plain, TypeOK
    <2>1. CASE r \in DOMAIN w
      <3>1. cache'[r] = w[r] /\ truth'[r] = w[r]
        BY <2>0, <2>1, UpdateValue DEF Store
      <3>2. BankOf[r] \in changed'
        BY <2>1 DEF MarkChanged
      <3>3. QED
        BY <3>1, <3>2
    <2>2. CASE r \notin DOMAIN w
      <3>1. truth'[r] = truth[r] /\ cache'[r] = Refreshed[r]
        BY <2>0, <2>2, UpdateValue DEF Store
      <3>2. changed \subseteq changed'
        BY DEF MarkChanged
      <3>3. BankOf[r] \notin changed => hw[r] = truth[r]
        BY <3>1 DEF Coherent, Known
      <3>4. r \in Cached /\ ~dirty => cache[r] = truth[r]
        BY <3>1 DEF Coherent, Known, Store
      <3>5. r \in Cached => Refreshed[r] = truth[r]
        BY <3>3, <3>4, RefreshedValue DEF NothingWaits
      <3>6. QED
        BY <3>1, <3>2, <3>3, <3>5
    <2>3. QED
      BY <2>1, <2>2
  <1>4. QED
    BY <1>1, <1>2, <1>3

\* A write to an MSR: of the Plain registers it reaches only those in no bank.
LEMMA SetMSRStep ==
    ASSUME IInv, NEW w \in Assignments(MSRs), SetMSR(w) PROVE IInv'
  <1> USE DEF IInv
  <1>0. DOMAIN w \subseteq MSRs /\ \A r \in DOMAIN w : w[r] \in Values
    BY AssignmentType, RegisterAssumption
  <1>1. TypeOK'
    <2>1. hw' \in [Registers -> Values]
      BY <1>0, UpdateType DEF SetMSR, TypeOK
    <2>2. truth' \in [Registers -> Values \cup {Unknown}]
      BY <1>0, UpdateType DEF SetMSR, TypeOK
    <2>3. QED
      BY <2>1, <2>2 DEF SetMSR, TypeOK
  <1>2. NothingWaits'
    BY DEF SetMSR, NothingWaits
  <1>3. Coherent'
    <2> SUFFICES ASSUME NEW r \in Plain, truth'[r] # Unknown
                 PROVE  /\ BankOf[r] \notin changed => hw'[r] = truth'[r]
                        /\ r \in Cached /\ ~dirty => cache[r] = truth'[r]
      BY DEF SetMSR, Coherent, Known
    <2>0. r \in DOMAIN hw /\ r \in DOMAIN truth
      BY DEF Plain, TypeOK
    <2>1. CASE r \in DOMAIN w
      <3>1. hw'[r] = w[r] /\ truth'[r] = w[r]
        BY <2>0, <2>1, UpdateValue DEF SetMSR
      <3>2. r \notin Cached
        BY <1>0, <2>1 DEF Plain, Cached
      <3>3. QED
        BY <3>1, <3>2
    <2>2. CASE r \notin DOMAIN w
      <3>1. hw'[r] = hw[r] /\ truth'[r] = truth[r]
        BY <2>0, <2>2, UpdateValue DEF SetMSR
      <3>2. QED
        BY <3>1 DEF SetMSR, Coherent, Known
    <2>3. QED
      BY <2>1, <2>2
  <1>4. QED
    BY <1>1, <1>2, <1>3

\* Writing back the changed banks makes the VCPU agree; so does writing some of
\* them and leaving the flags of the others set.
LEMMA WriteBackStep ==
    ASSUME IInv, pc = "idle",
           NEW written \in SUBSET changed,
           hw' = Update(hw, Part(cache, written)),
           changed' = changed \ written,
           UNCHANGED <<cache, dirty, truth>>,
           \/ UNCHANGED <<pc, executed>>
           \/ pc' = "guest" /\ executed' = FALSE /\ changed' = {}
    PROVE  IInv'
  <1> USE DEF IInv
  <1>1. TypeOK'
    <2>1. hw' \in [Registers -> Values]
      BY PartType DEF TypeOK
    <2>2. QED
      BY <2>1 DEF TypeOK
  <1>2. NothingWaits'
    BY DEF NothingWaits
  <1>3. Coherent'
    <2> SUFFICES ASSUME NEW r \in Plain, Known(r)
                 PROVE  /\ BankOf[r] \notin changed' => hw'[r] = truth[r]
                        /\ r \in Cached /\ ~dirty => cache[r] = truth[r]
      BY DEF Coherent, Known
    <2>0. r \in Registers /\ DOMAIN hw = Registers
      BY DEF Plain, TypeOK
    <2>1. r \in Cached /\ ~dirty => cache[r] = truth[r]
      BY DEF Coherent
    <2>2. ASSUME BankOf[r] \in written PROVE hw'[r] = truth[r]
      <3>1. ~dirty
        BY <2>2 DEF NothingWaits
      <3>2. r \in Cached
        BY <2>0, <2>2 DEF TypeOK, Cached, BankNames
      <3>3. hw'[r] = cache[r]
        BY <2>0, <2>2, PartValue
      <3>4. QED
        BY <2>1, <3>1, <3>2, <3>3
    <2>3. ASSUME BankOf[r] \notin written, BankOf[r] \notin changed'
          PROVE  hw'[r] = truth[r]
      <3>1. hw'[r] = hw[r]
        BY <2>0, <2>3, PartValue
      <3>2. QED
        BY <2>3, <3>1 DEF Coherent
    <2>4. QED
      BY <2>1, <2>2, <2>3
  <1>4. QED
    BY <1>1, <1>2, <1>3

\* The guest writes the VCPU while nothing waits in the copies.
LEMMA ExecuteStep ==
    ASSUME IInv, NEW w \in Assignments(Registers), Execute(w) PROVE IInv'
  <1> USE DEF IInv
  <1>0. \A r \in DOMAIN w : w[r] \in Values
    BY AssignmentType
  <1>1. TypeOK'
    <2>1. hw' \in [Registers -> Values]
      BY <1>0, UpdateType DEF Execute, TypeOK
    <2>2. truth' \in [Registers -> Values \cup {Unknown}]
      BY <1>0, UpdateType DEF Execute, TypeOK
    <2>3. QED
      BY <2>1, <2>2 DEF Execute, TypeOK
  <1>2. NothingWaits'
    BY DEF Execute, NothingWaits
  <1>3. Coherent'
    <2> SUFFICES ASSUME NEW r \in Plain, truth'[r] # Unknown
                 PROVE  hw'[r] = truth'[r]
      BY DEF Execute, Coherent, Known
    <2>0. r \in DOMAIN hw /\ r \in DOMAIN truth
      BY DEF Plain, TypeOK
    <2>1. CASE r \in DOMAIN w
      BY <2>0, <2>1, UpdateValue DEF Execute
    <2>2. CASE r \notin DOMAIN w
      <3>1. hw'[r] = hw[r] /\ truth'[r] = truth[r]
        BY <2>0, <2>2, UpdateValue DEF Execute
      <3>2. QED
        BY <3>1 DEF Execute, Coherent, Known, NothingWaits
    <2>3. QED
      BY <2>1, <2>2
  <1>4. QED
    BY <1>1, <1>2, <1>3

\* Every step keeps the invariant, if KVM_RUN does not fail after the guest ran.
LEMMA NextIInv == ~Signals /\ IInv /\ [Next]_vars => IInv'
  <1> SUFFICES ASSUME ~Signals, IInv, [Next]_vars PROVE IInv'
    OBVIOUS
  <1>1. CASE Read
    BY <1>1, ReadStep
  <1>2. CASE FailRefresh
    BY <1>2, FailRefreshStep
  <1>3. ASSUME NEW w \in Assignments(Writable), RegWrite(w) PROVE IInv'
    <2>1. DOMAIN w \subseteq Cached /\ \A r \in DOMAIN w : w[r] \in Values
      BY AssignmentType, RegisterAssumption DEF Cached
    <2>2. QED
      BY <1>3, <2>1, StoreStep DEF RegWrite
  <1>4. ASSUME NEW w \in [FPUControls -> Values], SetFPUControl(w) PROVE IInv'
    <2>1. DOMAIN w \subseteq Cached /\ DOMAIN w \cap Plain = {}
      BY RegisterAssumption DEF Cached, Plain
    <2>2. QED
      BY <1>4, <2>1, StoreStep DEF SetFPUControl
  <1>5. ASSUME NEW w \in [MXCSRs -> Values], SetMXCSR(w) PROVE IInv'
    <2>1. DOMAIN w \subseteq Cached
      BY RegisterAssumption DEF Cached
    <2>2. QED
      BY <1>5, <2>1, StoreStep DEF SetMXCSR
  <1>6. ASSUME NEW w \in Assignments(MSRs), SetMSR(w) PROVE IInv'
    BY <1>6, SetMSRStep
  <1>7. CASE EnterGuest
    <2>1. changed' = changed \ changed /\ hw' = Update(hw, Part(cache, changed))
      BY <1>7 DEF EnterGuest, UpdateRegisters
    <2>2. QED
      BY <1>7, <2>1, WriteBackStep DEF EnterGuest
  <1>8. CASE FailUpdate
    <2>1. PICK written \in SUBSET changed :
              hw' = Update(hw, Part(cache, written)) /\ changed' = changed \ written
      BY <1>8 DEF FailUpdate
    <2>2. QED
      BY <1>8, <2>1, WriteBackStep DEF FailUpdate
  <1>9. ASSUME NEW w \in Assignments(Registers), Execute(w) PROVE IInv'
    BY <1>9, ExecuteStep
  <1>10. CASE Exit
    BY <1>10 DEF Exit, IInv, TypeOK, NothingWaits, Coherent, Known
  <1>11. CASE FailRun
    BY <1>11 DEF FailRun, IInv, TypeOK, NothingWaits, Coherent, Known
  <1>12. CASE UNCHANGED vars
    BY <1>12 DEF vars, IInv, TypeOK, NothingWaits, Coherent, Known
  <1>13. QED
    BY <1>1, <1>2, <1>3, <1>4, <1>5, <1>6, <1>7, <1>8, <1>9, <1>10, <1>11, <1>12 DEF Next

-----------------------------------------------------------------------------

\* Whatever ioctls fail and in whatever order registers of whatever banks are read
\* and written, a Plain register has its last value whenever the guest runs.
THEOREM GuestSeesEveryWrite ==
    ASSUME ~Signals PROVE Spec => []GuestSeesLastWrite
  <1>1. IInv => GuestSeesLastWrite
    <2> SUFFICES ASSUME IInv, pc = "guest", NEW r \in Plain, truth[r] # Unknown
                 PROVE  hw[r] = truth[r]
      BY DEF GuestSeesLastWrite, GuestSees
    <2>1. QED
      BY DEF IInv, Coherent, NothingWaits, Known
  <1>2. IInv /\ [Next]_vars => IInv'
    BY NextIInv
  <1>3. QED
    BY <1>1, <1>2, InitIInv, PTL DEF Spec

\* Under the same condition RegRead and the other readers return the last value.
THEOREM ReadsEveryWrite ==
    ASSUME ~Signals PROVE Spec => []ReadsLastWrite
  <1>1. IInv => ReadsLastWrite
    <2> SUFFICES ASSUME IInv, pc = "idle", NEW r \in Plain \cap Cached,
                        truth[r] # Unknown
                 PROVE  Refreshed[r] = truth[r]
      BY DEF ReadsLastWrite, Reads, RegRead
    <2>1. dirty => hw[r] = truth[r]
      BY DEF IInv, Coherent, NothingWaits, Known
    <2>2. ~dirty => cache[r] = truth[r]
      BY DEF IInv, Coherent, Known
    <2>3. QED
      BY <2>1, <2>2, RefreshedValue DEF IInv
  <1>2. IInv /\ [Next]_vars => IInv'
    BY NextIInv
  <1>3. QED
    BY <1>1, <1>2, InitIInv, PTL DEF Spec

-----------------------------------------------------------------------------
(* Descriptor tables *)

\* The words of a table and what was meant by them.
WordType ==
    [kind : Kinds, limitLow : Nat, limitHigh : Nat, baseLow : Nat, baseMid : Nat,
     baseHigh : Nat, flags : FlagSets \cup {{}}]

\* A reader between its two reads has checked that both words are in the table.
TableTypes ==
    /\ ia32e \in BOOLEAN /\ limit \in Nat /\ reach \in Int /\ idtReach \in Int
    /\ gdt \in [Words -> WordType]
    /\ stored \in [Words -> Entries \cup {NoEntry}]
    /\ reader # NoReader => reader \in Selectors /\ reader + 16 <= limit

\* A descriptor that was stored whole and not overwritten is in the table as the
\* application, or the guest, put it there: both words, where it has two.
TableHolds ==
    \A w \in Words : stored[w].kind # "none" =>
        /\ gdt[w] = FirstWord(stored[w])
        /\ Wide(stored[w].kind) =>
              /\ w + 1 \in Words
              /\ gdt[w + 1] = TopWord(stored[w].base \div Half(stored[w].kind))

\* The inductive invariant.
TableInv == TableTypes /\ TableHolds /\ ReadsWhatIsStored /\ StaysInTable

-----------------------------------------------------------------------------
(* Words and descriptors *)

\* The bits of a base, and the two halves of one with more than 32.
LEMMA BaseBits ==
    \A b \in 0 .. 31 :
        /\ (b % 2) + 2 * ((b \div 2) % 2) = b % 4
        /\ (b % 2) + 2 * ((b \div 2) % 2) + 4 * ((b \div 4) % 2) = b % 8
        /\ (b \div 2) % 2 = 1 <=> (b % 4) * 2 >= 4
        /\ (b \div 4) % 2 = 1 <=> (b % 8) * 2 >= 8
        /\ b % 2 \in Nat /\ (b \div 2) % 2 \in Nat /\ (b \div 4) % 2 \in Nat
        /\ (b % 4) + (b \div 4) * 4 = b /\ (b % 8) + (b \div 8) * 8 = b
        /\ b \div 4 \in Nat /\ b \div 8 \in Nat
        /\ b < 8 => b % 8 = b
  OBVIOUS

\* The two bits of a limit, or of the upper half of a base.
LEMMA TwoBits ==
    /\ \A t \in Nat : t % 2 \in Nat /\ t \div 2 \in Nat /\ (t % 2) + 2 * (t \div 2) = t
    /\ \A t \in 0 .. 3 : (t % 2) + 2 * ((t \div 2) % 2) = t /\ (t \div 2) % 2 \in Nat
  OBVIOUS

\* Adding a multiple of Half leaves the lower half.
LEMMA LowerHalf ==
    \A b \in Nat, t \in Nat : /\ ((b % 4) + t * 4) % 4 = b % 4
                              /\ ((b % 8) + t * 8) % 8 = b % 8
  OBVIOUS

\* The fields of a descriptor that is stored.
LEMMA EntryFields ==
    ASSUME NEW d \in Entries
    PROVE  /\ d.kind \in Kinds /\ d.base \in 0 .. 31 /\ d.limit \in 0 .. 3
           /\ d.flags \in FlagSets \cup {{}}
           /\ d.kind # "none"
           /\ d.kind = "segment" => d.base < 8
  <1>1. CASE d \in {e \in [kind : Kinds, base : Bases, limit : Limits, flags : FlagSets] :
                       /\ e.kind \in {"segment", "ldt", "tss16", "tss"}
                       /\ e.base < 8 \/ Wide(e.kind)}
    <2>1. d.kind \in {"segment", "ldt", "tss16", "tss"} /\ (d.base < 8 \/ Wide(d.kind))
      BY <1>1
    <2>2. d.base \in Bases /\ d.limit \in Limits /\ d.flags \in FlagSets
      BY <1>1
    <2>3. d.kind = "segment" => d.base < 8
      BY <2>1 DEF Wide, Extended
    <2>4. QED
      BY <2>1, <2>2, <2>3, DescriptorAssumption DEF Kinds
  <1>2. CASE d \in {e \in [kind : Gates, base : Bases, limit : {0}, flags : {{}}] :
                       e.base < (IF Wide(e.kind) THEN 16 ELSE 4)}
    <2>1. d \in [kind : Gates, base : Bases, limit : {0}, flags : {{}}]
      BY <1>2, Zenon
    <2>2. d.kind \in Gates /\ d.base \in Bases /\ d.limit \in {0} /\ d.flags \in {{}}
      BY <2>1, Zenon
    <2>3. d.base \in 0 .. 31 /\ d.limit \in 0 .. 3
      <3>1. d.base \in Bases /\ d.limit = 0
        BY <2>2, Zenon
      <3>2. Bases \subseteq 0 .. 31 /\ 0 \in 0 .. 3
        BY DescriptorAssumption
      <3>3. QED
        BY <3>1, <3>2, Zenon
    <2>4. d.kind \in Kinds /\ d.kind # "none" /\ d.kind # "segment"
      BY <2>2 DEF Kinds, Gates
    <2>5. QED
      BY <2>2, <2>3, <2>4, Zenon
  <1>3. CASE d \in [kind : {"taskgate", "reserved"}, base : {0}, limit : {0}, flags : {{}}]
    BY <1>3 DEF Kinds
  <1>4. QED
    BY <1>1, <1>2, <1>3 DEF Entries

\* Words made from descriptors are words.
LEMMA WordTypes ==
    /\ \A d \in Entries : FirstWord(d) \in WordType
    /\ \A t \in Nat : TopWord(t) \in WordType
  <1>1. ASSUME NEW d \in Entries PROVE FirstWord(d) \in WordType
    <2>1. d.kind \in Kinds /\ d.base \in 0 .. 31 /\ d.limit \in 0 .. 3
          /\ d.flags \in FlagSets \cup {{}}
      BY EntryFields
    <2>2. /\ d.base % 2 \in Nat /\ (d.base \div 2) % 2 \in Nat /\ (d.base \div 4) % 2 \in Nat
          /\ d.limit % 2 \in Nat /\ (d.limit \div 2) % 2 \in Nat
      BY <2>1, BaseBits, TwoBits
    <2>3. QED
      BY <2>1, <2>2 DEF FirstWord, WordType
  <1>2. ASSUME NEW t \in Nat PROVE TopWord(t) \in WordType
    BY TwoBits DEF TopWord, WordType, Kinds
  <1>3. QED
    BY <1>1, <1>2

\* GetBase of the two words of a descriptor gives its base back, as far as it can.
LEMMA BaseReadBack ==
    ASSUME NEW d \in Entries, NEW second \in WordType
    PROVE  LET H == Half(d.kind)
               base == GetBase(FirstWord(d), second)
           IN  /\ base % H = d.base % H
               /\ d.kind = "segment" => base = d.base
               /\ ~HighBit(d) /\ second = TopWord(d.base \div H) => base = d.base
  <1> DEFINE H == Half(d.kind)
             b == d.base
             base == GetBase(FirstWord(d), second)
  <1>1. d.kind \in Kinds /\ b \in 0 .. 31 /\ (d.kind = "segment" => b < 8)
    BY EntryFields
  <1>2. FirstWord(d).kind = d.kind /\ H \in {4, 8} /\ (H = 4 <=> d.kind \in Gates)
    BY DEF FirstWord, Half
  <1>3. Low32(FirstWord(d)) = b % H
    BY <1>1, BaseBits DEF FirstWord, Half, Low32
  <1>4. FirstWord(d).baseHigh = 1 <=> HighBit(d)
    BY <1>1, BaseBits DEF FirstWord, Half, HighBit
  <1>5. TopOf(second) \in Nat
    BY DEF WordType, TopOf
  <1>6. base = IF d.kind = "segment" THEN b % H
               ELSE IF HighBit(d) THEN (b % H) + 3 * H ELSE (b % H) + TopOf(second) * H
    BY <1>2, <1>3, <1>4 DEF GetBase
  <1>7. b \in Nat /\ b % H \in Nat /\ (b % H) % H = b % H
    BY <1>1, <1>2
  <1>8. base % H = b % H
    BY <1>2, <1>5, <1>6, <1>7, LowerHalf
  <1>9. d.kind = "segment" => base = b
    BY <1>1, <1>6, BaseBits DEF Half, Gates
  <1>10. ASSUME ~HighBit(d), second = TopWord(b \div H), d.kind # "segment" PROVE base = b
    <2>1. TopOf(second) = b \div H
      BY <1>1, <1>2, <1>10, BaseBits, TwoBits DEF TopOf, TopWord
    <2>2. QED
      BY <1>1, <1>2, <1>6, <1>10, <2>1, BaseBits
  <1>11. QED
    BY <1>8, <1>9, <1>10

\* GetLimit gives the limit back.
LEMMA LimitReadBack ==
    ASSUME NEW d \in Entries, d.kind \notin Gates
    PROVE  GetLimit(FirstWord(d)) = (IF "g" \in d.flags THEN 2 * d.limit + 1 ELSE d.limit)
  <1>1. d.limit \in 0 .. 3
    BY EntryFields
  <1>2. QED
    BY <1>1, TwoBits DEF GetLimit, FirstWord

-----------------------------------------------------------------------------
(* What GetGDTEntry and ReadSegment return *)

\* Selectors name words of the table.
LEMMA SelectorWords ==
    ASSUME NEW s \in Selectors
    PROVE  /\ s \in Nat /\ Index(s) \in Words /\ Index(s) + 1 \in Words /\ Index(s) \in Int
           /\ s # NoReader
  BY DescriptorAssumption DEF Words, Index, NoReader

\* A result put together from a table that holds what was stored is right: the second
\* word is that of the table, or the descriptor has none.
LEMMA ReturnIsRight ==
    ASSUME TableTypes, TableHolds, ia32e' = ia32e,
           NEW s \in Selectors, NEW second \in WordType,
           Return(s, gdt[Index(s)], second),
           Wide(gdt[Index(s)].kind) => second = gdt[Index(s) + 1]
    PROVE  ReadsWhatIsStored'
  <1> DEFINE i == Index(s)
             d == stored[i]
             H == Half(d.kind)
  <1>1. i \in Words
    BY SelectorWords
  <1>2. SUFFICES ASSUME d.kind # "none" PROVE ReadsWhatIsStored'
    BY DEF Return, ReadsWhatIsStored
  <1>3. d \in Entries /\ gdt[i] = FirstWord(d) /\ gdt[i].kind = d.kind
    <2>1. d \in Entries
      BY <1>1, <1>2 DEF TableTypes, NoEntry
    <2>2. gdt[i] = FirstWord(d)
      BY <1>1, <1>2 DEF TableHolds
    <2>3. QED
      BY <2>1, <2>2 DEF FirstWord
  <1>4. Wide(d.kind) => second = TopWord(d.base \div H)
    BY <1>1, <1>2, <1>3 DEF TableHolds
  <1>5. /\ result'.meant = d /\ result'.kind = d.kind
        /\ result'.segment = "OK" => Loadable(d.kind)
        /\ result'.base = GetBase(FirstWord(d), second)
        /\ result'.limit = GetLimit(FirstWord(d))
        /\ result'.size = ComputeSegmentSize(FirstWord(d).flags)
    BY <1>3 DEF Return
  <1> HIDE DEF d, i
  <1>6. d.kind \notin Gates => FirstWord(d).flags = d.flags
    BY DEF FirstWord
  <1>7. Loadable(d.kind) => d.kind \notin (Gates \cup {"taskgate", "reserved"})
    BY DEF Loadable, Gates
  <1>8. d.kind \notin Gates =>
           /\ result'.limit = (IF "g" \in d.flags THEN 2 * d.limit + 1 ELSE d.limit)
           /\ result'.size \in {16, 32, 64}
           /\ result'.size = 64 => ia32e' /\ "l" \in d.flags
    BY <1>3, <1>5, <1>6, LimitReadBack DEF ComputeSegmentSize
  <1>9. /\ result'.base % H = d.base % H
        /\ d.kind = "segment" \/ (Wide(d.kind) /\ ~HighBit(d)) => result'.base = d.base
    BY <1>3, <1>4, <1>5, BaseReadBack
  <1>10. QED
    BY <1>5, <1>7, <1>8, <1>9 DEF ReadsWhatIsStored, Wide

\* No descriptor was returned.
LEMMA NothingReturned ==
    ASSUME result'.status # "OK" PROVE ReadsWhatIsStored'
  BY DEF ReadsWhatIsStored

\* The touched bytes are below a limit that both operands are below.
LEMMA ReachedWithin ==
    ASSUME TableTypes, StaysInTable, limit' = limit, idtReach' = idtReach,
           NEW s \in Selectors, NEW n \in Nat, Reached(s, n), s + n <= limit
    PROVE  reach' \in Int /\ StaysInTable'
  BY DescriptorAssumption DEF TableTypes, StaysInTable, Reached, MaxOf

-----------------------------------------------------------------------------
(* What the operations leave *)

\* A descriptor is stored, or a part of it, and those it overlaps are given up.
LEMMA WrittenKeepsTable ==
    ASSUME TableTypes, TableHolds, ia32e' = ia32e,
           NEW s \in Selectors, NEW d \in Entries, NEW n \in 1 .. 2, n = 2 => Wide(d.kind),
           Written(s, d, n)
    PROVE  /\ gdt' \in [Words -> WordType] /\ stored' \in [Words -> Entries \cup {NoEntry}]
           /\ TableHolds'
  <1> DEFINE i == Index(s)
             top == TopWord(d.base \div Half(d.kind))
  <1>1. i \in Words /\ i + 1 \in Words /\ i \in Int
    BY SelectorWords
  <1>2. FirstWord(d) \in WordType /\ top \in WordType
    <2>1. d.base \div Half(d.kind) \in Nat
      BY EntryFields, BaseBits DEF Half
    <2>2. QED
      BY <2>1, WordTypes
  <1>3. Words \subseteq Int
    BY SelectorWords DEF Words
  <1>4. \A w \in Words : /\ w = i => gdt'[w] = FirstWord(d)
                         /\ w = i + 1 /\ n > 1 => gdt'[w] = top
                         /\ w # i /\ ~(w = i + 1 /\ n > 1) => gdt'[w] = gdt[w]
    BY <1>1 DEF Written
  <1>5. \A w \in Words :
           /\ w = i => stored'[w] = IF n = (IF Wide(d.kind) THEN 2 ELSE 1) THEN d ELSE NoEntry
           /\ w = i + 1 /\ n > 1 => stored'[w] = NoEntry
           /\ w # i /\ ~(w = i + 1 /\ n > 1) =>
                 stored'[w] = IF w = i - 1 /\ Wide(stored[w].kind) THEN NoEntry ELSE stored[w]
    BY <1>1 DEF Written
  <1>6. gdt' = [w \in Words |-> gdt'[w]] /\ stored' = [w \in Words |-> stored'[w]]
    BY DEF Written
  <1> HIDE DEF i, top
  <1>7. gdt' \in [Words -> WordType]
    <2>1. \A w \in Words : gdt'[w] \in WordType
      BY <1>2, <1>4 DEF TableTypes
    <2>2. QED
      BY <1>6, <2>1
  <1>8. stored' \in [Words -> Entries \cup {NoEntry}]
    <2>1. \A w \in Words : stored'[w] \in Entries \cup {NoEntry}
      BY <1>5 DEF TableTypes
    <2>2. QED
      BY <1>6, <2>1
  <1>9. ASSUME NEW w \in Words, stored'[w].kind # "none"
        PROVE  /\ gdt'[w] = FirstWord(stored'[w])
               /\ Wide(stored'[w].kind) =>
                     /\ w + 1 \in Words
                     /\ gdt'[w + 1] = TopWord(stored'[w].base \div Half(stored'[w].kind))
    <2>1. stored'[w] # NoEntry
      BY <1>9 DEF NoEntry
    <2>2. CASE w = i
      <3>1. n = (IF Wide(d.kind) THEN 2 ELSE 1) /\ stored'[w] = d
        BY <1>5, <2>1, <2>2
      <3>2. gdt'[w] = FirstWord(d)
        BY <1>4, <2>2
      <3>3. Wide(d.kind) => w + 1 \in Words /\ gdt'[w + 1] = top
        <4>1. i + 1 # i
          BY <1>1
        <4>2. QED
          BY <1>1, <1>4, <2>2, <3>1, <4>1
      <3>4. QED
        BY <3>1, <3>2, <3>3 DEF top
    <2>3. CASE w # i
      <3>1. ~(w = i + 1 /\ n > 1)
        BY <1>5, <2>1, <2>3
      <3>2. stored'[w] = stored[w] /\ gdt'[w] = gdt[w]
        BY <1>4, <1>5, <2>1, <2>3, <3>1
      <3>3. gdt'[w] = FirstWord(stored'[w])
        BY <1>9, <3>2 DEF TableHolds
      <3>4. ASSUME Wide(stored[w].kind)
            PROVE  /\ w + 1 \in Words
                   /\ gdt'[w + 1] = TopWord(stored[w].base \div Half(stored[w].kind))
        <4>1. /\ w + 1 \in Words
              /\ gdt[w + 1] = TopWord(stored[w].base \div Half(stored[w].kind))
          BY <1>9, <3>2, <3>4 DEF TableHolds
        <4>2. w # i - 1
          BY <1>5, <2>1, <2>3, <3>1, <3>4
        <4>3. w + 1 # i /\ w + 1 # i + 1
          BY <1>1, <1>3, <2>3, <4>2
        <4>4. QED
          BY <1>4, <4>1, <4>3
      <3>5. QED
        BY <3>2, <3>3, <3>4
    <2>4. QED
      BY <2>2, <2>3
  <1>10. TableHolds'
    BY <1>9 DEF TableHolds, Wide
  <1>11. QED
    BY <1>7, <1>8, <1>10

\* The table is left alone.
LEMMA TableKept ==
    ASSUME TableTypes, TableHolds, UNCHANGED <<ia32e, limit, gdt, stored>>,
           reach' \in Int, idtReach' \in Int,
           reader' = NoReader \/ (reader' \in Selectors /\ reader' + 16 <= limit)
    PROVE  TableTypes' /\ TableHolds'
  <1>1. TableTypes'
    BY DEF TableTypes, Entries, Wide
  <1>2. TableHolds'
    BY DEF TableHolds, Wide
  <1>3. QED
    BY <1>1, <1>2

\* GetGDTEntry up to its first read, ReadSegment with it where that is all.
LEMMA ReadFirstStep ==
    ASSUME TableInv, NEW s \in Selectors, ReadFirst(s)
    PROVE  TableInv'
  <1> USE DEF TableInv
  <1> DEFINE word == gdt[Index(s)]
  <1>1. /\ reader = NoReader
        /\ UNCHANGED <<ia32e, limit, gdt, stored, idtReach, stores>>
    BY DEF ReadFirst
  <1>2. word \in WordType /\ s \in Nat /\ limit \in Nat /\ idtReach' \in Int
    BY <1>1, SelectorWords DEF TableTypes
  <1>3. CASE ~Fits(s, 8)
    <2>1. Refuse("InvalidSelector") /\ UNCHANGED <<reader, reach>>
      BY <1>3 DEF ReadFirst
    <2>2. TableTypes' /\ TableHolds'
      BY <1>1, <1>2, <2>1, TableKept DEF TableTypes
    <2>3. ReadsWhatIsStored'
      BY <2>1, NothingReturned DEF Refuse, NoResult
    <2>4. QED
      BY <1>1, <2>1, <2>2, <2>3 DEF StaysInTable
  <1>4. CASE Fits(s, 8)
    <2>1. Reached(s, 8)
      BY <1>4 DEF ReadFirst
    <2>2. reach' \in Int /\ StaysInTable'
      BY <1>1, <1>4, <2>1, ReachedWithin DEF Fits
    <2>3. CASE word.kind = "segment" \/ (~ia32e /\ word.kind # "reserved")
      <3>1. reader' = reader /\ \E top \in 0 .. 3 : Return(s, word, TopWord(top))
        BY <1>4, <2>3 DEF ReadFirst, Extended
      <3>2. PICK top \in 0 .. 3 : Return(s, word, TopWord(top))
        BY <3>1
      <3>3. TopWord(top) \in WordType
        BY WordTypes
      <3>4. ~Wide(word.kind)
        BY <2>3 DEF Wide, Extended
      <3>5. ReadsWhatIsStored'
        BY <1>1, <3>2, <3>3, <3>4, ReturnIsRight
      <3>6. TableTypes' /\ TableHolds'
        BY <1>1, <1>2, <2>2, <3>1, TableKept
      <3>7. QED
        BY <2>2, <3>5, <3>6
    <2>4. CASE /\ ~(word.kind = "segment" \/ (~ia32e /\ word.kind # "reserved"))
               /\ ia32e /\ word.kind \in Extended /\ Fits(s, 16)
      <3>1. reader' = s /\ result' = NoResult
        BY <1>4, <2>4 DEF ReadFirst
      <3>2. reader' \in Selectors /\ reader' + 16 <= limit
        BY <2>4, <3>1 DEF Fits
      <3>3. TableTypes' /\ TableHolds'
        BY <1>1, <1>2, <2>2, <3>2, TableKept
      <3>4. ReadsWhatIsStored'
        BY <3>1, NothingReturned DEF NoResult
      <3>5. QED
        BY <2>2, <3>3, <3>4
    <2>5. CASE /\ ~(word.kind = "segment" \/ (~ia32e /\ word.kind # "reserved"))
               /\ ~(ia32e /\ word.kind \in Extended /\ Fits(s, 16))
      <3>1. Refuse("InvalidSelector") /\ reader' = reader
        BY <1>4, <2>5 DEF ReadFirst
      <3>2. TableTypes' /\ TableHolds'
        BY <1>1, <1>2, <2>2, <3>1, TableKept
      <3>3. ReadsWhatIsStored'
        BY <3>1, NothingReturned DEF Refuse, NoResult
      <3>4. QED
        BY <2>2, <3>2, <3>3
    <2>6. QED
      BY <2>3, <2>4, <2>5
  <1>5. QED
    BY <1>3, <1>4

\* The second read of GetGDTEntry, of a descriptor that may have been replaced since the
\* first.
LEMMA ReadSecondStep == TableInv /\ ReadSecond => TableInv'
  <1> SUFFICES ASSUME TableInv, ReadSecond PROVE TableInv'
    OBVIOUS
  <1> USE DEF TableInv
  <1>1. /\ UNCHANGED <<ia32e, limit, gdt, stored, idtReach, stores>> /\ reader' = NoReader
        /\ Return(reader, gdt[Index(reader)], gdt[Index(reader) + 1]) /\ Reached(reader, 16)
    BY DEF ReadSecond
  <1>2. reader \in Selectors /\ reader + 16 <= limit
    BY DEF ReadSecond, TableTypes
  <1>3. gdt[Index(reader) + 1] \in WordType /\ idtReach' \in Int
    BY <1>1, <1>2, SelectorWords DEF TableTypes
  <1>4. reach' \in Int /\ StaysInTable'
    BY <1>1, <1>2, ReachedWithin
  <1>5. ReadsWhatIsStored'
    BY <1>1, <1>2, <1>3, ReturnIsRight
  <1>6. TableTypes' /\ TableHolds'
    BY <1>1, <1>3, <1>4, TableKept
  <1>7. QED
    BY <1>4, <1>5, <1>6

\* SetGDTEntry, that writes all, a part or nothing of the descriptor, and the store of
\* another virtual processor.
LEMMA DescriptorStoreStep ==
    ASSUME TableInv, NEW s \in Selectors, NEW d \in Entries,
           SetGDTEntry(s, d) \/ GuestStore(s, d)
    PROVE  TableInv'
  <1> USE DEF TableInv
  <1>1. UNCHANGED <<ia32e, limit, reader, idtReach>> /\ result' = NoResult
    BY DEF SetGDTEntry, GuestStore
  <1>2. ReadsWhatIsStored'
    BY <1>1, NothingReturned DEF NoResult
  <1>3. idtReach' \in Int
         /\ (reader' = NoReader \/ (reader' \in Selectors /\ reader' + 16 <= limit))
    BY <1>1 DEF TableTypes
  <1>4. ASSUME NEW n \in 1 .. 2, n = 2 => Wide(d.kind), Written(s, d, n),
               reach' \in Int, StaysInTable'
        PROVE  TableInv'
    <2>1. /\ gdt' \in [Words -> WordType] /\ stored' \in [Words -> Entries \cup {NoEntry}]
          /\ TableHolds'
      BY <1>1, <1>4, WrittenKeepsTable
    <2>2. Entries' = Entries
      BY <1>1 DEF Entries, Wide
    <2>3. TableTypes'
      BY <1>1, <1>4, <2>1, <2>2 DEF TableTypes
    <2>4. QED
      BY <1>2, <1>4, <2>1, <2>3
  <1>5. CASE UNCHANGED <<gdt, stored, reach>>
    <2>1. TableTypes' /\ TableHolds'
      BY <1>1, <1>3, <1>5, TableKept DEF TableTypes
    <2>2. QED
      BY <1>1, <1>2, <1>5, <2>1 DEF StaysInTable
  <1>6. CASE \E n \in 1 .. 2 : /\ Fits(s, 8 * n) /\ (n = 2 => Wide(d.kind))
                               /\ Written(s, d, n) /\ Reached(s, 8 * n)
    <2>1. PICK n \in 1 .. 2 : /\ Fits(s, 8 * n) /\ (n = 2 => Wide(d.kind))
                              /\ Written(s, d, n) /\ Reached(s, 8 * n)
      BY <1>6
    <2>2. 8 * n \in Nat /\ s + 8 * n <= limit
      BY <2>1 DEF Fits
    <2>3. reach' \in Int /\ StaysInTable'
      BY <1>1, <2>1, <2>2, ReachedWithin
    <2>4. QED
      BY <1>4, <2>1, <2>3
  <1>7. CASE GuestStore(s, d)
    <2> DEFINE n == IF Wide(d.kind) THEN 2 ELSE 1
    <2>1. n \in 1 .. 2 /\ (n = 2 => Wide(d.kind)) /\ Written(s, d, n) /\ reach' = reach
      BY <1>7 DEF GuestStore
    <2>2. reach' \in Int /\ StaysInTable'
      BY <1>1, <2>1 DEF TableTypes, StaysInTable
    <2>3. QED
      BY <1>4, <2>1, <2>2
  <1>8. QED
    BY <1>5, <1>6, <1>7 DEF SetGDTEntry

\* GetIDTEntry and SetIDTEntry stay in a table that ends with an entry.
LEMMA IDTStep ==
    ASSUME TableInv, NEW v \in Vectors, AccessIDTEntry(v)
    PROVE  TableInv'
  <1> USE DEF TableInv
  <1>1. UNCHANGED <<ia32e, limit, gdt, reader, result, stored, reach, stores>>
    BY DEF AccessIDTEntry
  <1>2. /\ v \in Nat /\ v * 8 <= limit /\ limit \in Nat
        /\ idtReach' = MaxOf(idtReach, v * 8 + 7) /\ idtReach \in Int /\ reach \in Int
    BY DescriptorAssumption DEF AccessIDTEntry, TableTypes
  <1>3. idtReach' \in Int /\ (limit % 8 = 7 => v * 8 + 7 <= limit)
    BY <1>2 DEF MaxOf
  <1>4. StaysInTable'
    BY <1>1, <1>2, <1>3 DEF StaysInTable, MaxOf
  <1>5. reader' = NoReader \/ (reader' \in Selectors /\ reader' + 16 <= limit)
    BY <1>1 DEF TableTypes
  <1>6. TableTypes' /\ TableHolds'
    BY <1>1, <1>2, <1>3, <1>5, TableKept
  <1>7. ReadsWhatIsStored'
    BY <1>1 DEF ReadsWhatIsStored, Wide
  <1>8. QED
    BY <1>4, <1>6, <1>7

\* The tables are empty at first.
LEMMA TablesStart == TablesInit => TableInv
  <1> SUFFICES ASSUME TablesInit PROVE TableInv
    OBVIOUS
  <1>1. TableTypes
    <2>1. TopWord(0) \in WordType
      BY WordTypes
    <2>2. QED
      BY <2>1, DescriptorAssumption DEF TablesInit, TableTypes
  <1>2. TableHolds
    BY DEF TablesInit, TableHolds, NoEntry
  <1>3. ReadsWhatIsStored
    BY DEF TablesInit, ReadsWhatIsStored, NoResult
  <1>4. StaysInTable
    BY <1>1, DescriptorAssumption DEF TablesInit, StaysInTable, TableTypes
  <1>5. QED
    BY <1>1, <1>2, <1>3, <1>4 DEF TableInv

\* Every step keeps the invariant.
LEMMA TablesStep == TableInv /\ [TablesNext]_tableVars => TableInv'
  <1> SUFFICES ASSUME TableInv, [TablesNext]_tableVars PROVE TableInv'
    OBVIOUS
  <1>1. CASE ReadFails
    <2>1. UNCHANGED <<ia32e, limit, gdt, stored, reach, idtReach>> /\ reader' = NoReader
      BY <1>1 DEF ReadFails
    <2>2. TableTypes' /\ TableHolds'
      BY <2>1, TableKept DEF TableInv, TableTypes
    <2>3. ReadsWhatIsStored'
      BY <1>1, NothingReturned DEF ReadFails, Refuse, NoResult
    <2>4. QED
      BY <2>1, <2>2, <2>3 DEF TableInv, StaysInTable
  <1>2. CASE UNCHANGED tableVars
    <2>1. UNCHANGED <<ia32e, limit, gdt, stored, reach, idtReach, reader, result>>
      BY <1>2 DEF tableVars
    <2>2. TableTypes' /\ TableHolds'
      BY <2>1, TableKept DEF TableInv, TableTypes
    <2>3. ReadsWhatIsStored'
      BY <2>1 DEF TableInv, ReadsWhatIsStored, Wide
    <2>4. QED
      BY <2>1, <2>2, <2>3 DEF TableInv, StaysInTable
  <1>3. QED
    BY <1>1, <1>2, ReadFirstStep, ReadSecondStep, DescriptorStoreStep, IDTStep DEF TablesNext

\* Whatever is stored in the descriptor tables, by the application or by another virtual
\* processor between the two reads of GetGDTEntry: GetGDTEntry, ReadSegment and
\* GetSegmentSize return the descriptor that is there, but for the upper half of a base
\* whose lower half is negative as an int.
THEOREM DescriptorsReadBack == TablesSpec => []ReadsWhatIsStored
  <1>1. TableInv => ReadsWhatIsStored
    BY DEF TableInv
  <1>2. QED
    BY TablesStart, TablesStep, <1>1, PTL DEF TablesSpec

\* For every limit, selector, vector and mode GetGDTEntry and SetGDTEntry touch no byte
\* beyond the limit of the GDT, and GetIDTEntry and SetIDTEntry none beyond that of an IDT
\* of whole entries.
THEOREM TablesNotLeft == TablesSpec => []StaysInTable
  <1>1. TableInv => StaysInTable
    BY DEF TableInv
  <1>2. QED
    BY TablesStart, TablesStep, <1>1, PTL DEF TablesSpec

=============================================================================
