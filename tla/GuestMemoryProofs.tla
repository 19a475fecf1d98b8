------------------------- MODULE GuestMemoryProofs -------------------------
(***************************************************************************)
(* Proofs about GuestMemory, for every size of the address space, every    *)
(* platform and every sequence of map and unmap calls.                     *)
(***************************************************************************)
EXTENDS GuestMemory, NumberFacts, SequenceTheorems, TLAPS

-----------------------------------------------------------------------------
(* Sequences: what vector::erase and vector::insert leave where.           *)

\* Erasing an element: the ones before it stay, the ones after it move down.
LEMMA RemoveAtProperties ==
    ASSUME NEW S, NEW s \in Seq(S), NEW i \in 1 .. Len(s)
    PROVE  /\ RemoveAt(s, i) \in Seq(S)
           /\ Len(RemoveAt(s, i)) = Len(s) - 1
           /\ \A j \in 1 .. Len(s) - 1 :
                RemoveAt(s, i)[j] = IF j < i THEN s[j] ELSE s[j + 1]
<1> DEFINE a == SubSeq(s, 1, i - 1)
           b == SubSeq(s, i + 1, Len(s))
<1>1. Len(s) \in Nat /\ i \in Int /\ i - 1 \in Int /\ i + 1 \in Int
  BY LenProperties
<1>2. a \in Seq(S) /\ Len(a) = i - 1 /\ \A j \in 1 .. i - 1 : a[j] = s[j]
  BY <1>1, SubSeqProperties
<1>3. b \in Seq(S) /\ Len(b) = Len(s) - i /\ \A j \in 1 .. Len(s) - i : b[j] = s[i + j]
  BY <1>1, SubSeqProperties
<1>4. /\ a \o b \in Seq(S)
      /\ Len(a \o b) = Len(a) + Len(b)
      /\ \A j \in 1 .. Len(a) + Len(b) :
            (a \o b)[j] = IF j <= Len(a) THEN a[j] ELSE b[j - Len(a)]
  BY <1>2, <1>3, ConcatProperties
<1>5. RemoveAt(s, i) = a \o b
  BY DEF RemoveAt
<1> HIDE DEF a, b
<1>6. ASSUME NEW j \in 1 .. Len(s) - 1
      PROVE  (a \o b)[j] = IF j < i THEN s[j] ELSE s[j + 1]
  <2>1. CASE j < i
    BY <1>1, <1>2, <1>3, <1>4, <2>1
  <2>2. CASE ~(j < i)
    <3>1. /\ j \in 1 .. Len(a) + Len(b) /\ ~(j <= Len(a))
          /\ j - Len(a) \in 1 .. Len(s) - i /\ i + (j - Len(a)) = j + 1
      BY <1>1, <1>2, <1>3, <2>2
    <3> QED BY <1>3, <1>4, <2>2, <3>1
  <2> QED BY <2>1, <2>2
<1>7. Len(a \o b) = Len(s) - 1
  BY <1>1, <1>2, <1>3, <1>4
<1> QED
  BY <1>4, <1>5, <1>6, <1>7, Zenon

\* Inserting an element: the ones before it stay, the ones from there on move up.
LEMMA InsertAtProperties ==
    ASSUME NEW S, NEW s \in Seq(S), NEW i \in 1 .. Len(s), NEW e \in S
    PROVE  /\ InsertAt(s, i, e) \in Seq(S)
           /\ Len(InsertAt(s, i, e)) = Len(s) + 1
           /\ InsertAt(s, i, e)[i] = e
           /\ \A j \in 1 .. i - 1 : InsertAt(s, i, e)[j] = s[j]
           /\ \A j \in i .. Len(s) : InsertAt(s, i, e)[j + 1] = s[j]
<1> DEFINE a == SubSeq(s, 1, i - 1)
           b == SubSeq(s, i, Len(s))
<1>1. Len(s) \in Nat /\ i \in Int /\ i - 1 \in Int
  BY LenProperties
<1>2. a \in Seq(S) /\ Len(a) = i - 1 /\ \A j \in 1 .. i - 1 : a[j] = s[j]
  BY <1>1, SubSeqProperties
<1>3. b \in Seq(S) /\ Len(b) = Len(s) - i + 1
      /\ \A j \in 1 .. Len(s) - i + 1 : b[j] = s[i + j - 1]
  BY <1>1, SubSeqProperties
<1> DEFINE c == <<e>>
<1>4. c \in Seq(S) /\ Len(c) = 1 /\ c[1] = e
  OBVIOUS
<1>5. InsertAt(s, i, e) = (a \o c) \o b
  BY DEF InsertAt
<1> HIDE DEF a, b, c
<1>6. /\ a \o c \in Seq(S)
      /\ Len(a \o c) = Len(a) + Len(c)
      /\ \A j \in 1 .. Len(a) + Len(c) :
            (a \o c)[j] = IF j <= Len(a) THEN a[j] ELSE c[j - Len(a)]
  BY <1>2, <1>4, ConcatProperties
<1> DEFINE d == a \o c
<1>7. d \in Seq(S) /\ Len(d) = i /\ d[i] = e
      /\ \A j \in 1 .. i - 1 : d[j] = s[j]
  BY <1>1, <1>2, <1>4, <1>6
<1> HIDE DEF d
<1>8. /\ d \o b \in Seq(S)
      /\ Len(d \o b) = Len(d) + Len(b)
      /\ \A j \in 1 .. Len(d) + Len(b) :
            (d \o b)[j] = IF j <= Len(d) THEN d[j] ELSE b[j - Len(d)]
  BY <1>3, <1>7, ConcatProperties
<1>9. /\ (d \o b)[i] = e
      /\ \A j \in 1 .. i - 1 : (d \o b)[j] = s[j]
      /\ \A j \in i .. Len(s) : (d \o b)[j + 1] = s[j]
  <2>1. (d \o b)[i] = e
    BY <1>1, <1>3, <1>7, <1>8
  <2>2. ASSUME NEW j \in 1 .. i - 1 PROVE (d \o b)[j] = s[j]
    BY <1>1, <1>3, <1>7, <1>8
  <2>3. ASSUME NEW j \in i .. Len(s) PROVE (d \o b)[j + 1] = s[j]
    <3>1. /\ j + 1 \in 1 .. Len(d) + Len(b) /\ ~(j + 1 <= Len(d))
          /\ (j + 1) - Len(d) \in 1 .. Len(s) - i + 1 /\ i + ((j + 1) - Len(d)) - 1 = j
      BY <1>1, <1>3, <1>7
    <3> QED BY <1>3, <1>8, <3>1
  <2> QED BY <2>1, <2>2, <2>3
<1>10. Len(d \o b) = Len(s) + 1
  BY <1>1, <1>3, <1>7, <1>8
<1>11. InsertAt(s, i, e) = d \o b
  BY <1>5 DEF d
<1> QED
  BY <1>8, <1>9, <1>10, <1>11, Zenon

-----------------------------------------------------------------------------
(* The inductive invariant.                                                *)

\* A region that holds no address of the range being unmapped.
Apart(r) ==
    \/ r.baseAddress + r.size <= unmapped.baseAddress
    \/ unmapped.baseAddress + unmapped.size <= r.baseAddress

\* While SubtractMemoryRange runs, its range is a block of guest addresses that
\* the hypervisor no longer backs, and the regions behind the iterator are apart
\* from it.
SubtractInv ==
    pc = "subtract" =>
        /\ unmapped.size > 0
        /\ unmapped.baseAddress + unmapped.size <= GpaLimit
        /\ \A a \in RangeOf(unmapped.baseAddress, unmapped.size) : hv[a] = NotMapped
        /\ \A i \in 1 .. it - 1 : i <= Len(regions) => Apart(regions[i])

\* The inductive invariant.
IInv == TypeOK /\ SubtractInv /\ BackedMemoryIsRecorded

-----------------------------------------------------------------------------
(* 64-bit arithmetic on addresses that do not wrap.                        *)

\* 64-bit addition yields an address.
LEMMA PlusInAddr ==
    ASSUME NEW a \in Addr, NEW b \in Addr
    PROVE  Plus(a, b) \in Addr
  BY AddrAssumption DEF Addr, Plus

\* The last address of a range below the limit is computed without wrapping.
LEMMA FinalOfRange ==
    ASSUME NEW base \in Addr, NEW size \in Addr, size > 0, base + size <= GpaLimit
    PROVE  Final(base, size) = base + size - 1
  BY AddrAssumption DEF Addr, Final, Plus, Minus

\* Moving a region's start and its host pointer by the same amount, in either
\* direction and wrapping or not, leaves where it puts an address unchanged.
LEMMA HostOfMovedStart ==
    ASSUME NEW host \in Addr, NEW base \in Addr, NEW start \in Addr, NEW a \in Addr
    PROVE  Plus(Plus(host, Minus(start, base)), Minus(a, start))
             = Plus(host, Minus(a, base))
  BY AddrAssumption DEF Addr, Plus, Minus

\* A range that passes the checks of MapGuestMemory and UnmapGuestMemory.
LEMMA RangeStatusOK ==
    ASSUME NEW base \in Addr, NEW size \in Addr, RangeStatus(base, size) = "OK"
    PROVE  size > 0
  BY DEF RangeStatus, Addr

\* The checks return a status.
LEMMA StatusType ==
    ASSUME NEW base \in Addr, NEW size \in Addr, NEW host \in Addr
    PROVE  /\ RangeStatus(base, size) \in {"OK", "MisalignedAddress", "EmptyRange",
                                           "MisalignedSize", "Unsupported"}
           /\ MapStatus(base, size, host) \in {"OK", "MisalignedHostMemory",
                 "MisalignedAddress", "EmptyRange", "MisalignedSize", "Unsupported",
                 "OutOfBounds"}
           /\ MapStatus(base, size, host) = "OK" => RangeStatus(base, size) = "OK"
  BY DEF RangeStatus, MapStatus

-----------------------------------------------------------------------------

\* The empty memory map satisfies the invariant.
LEMMA InitIInv == Init => IInv
<1> SUFFICES ASSUME Init PROVE IInv
  OBVIOUS
<1>1. regions = << >> /\ Len(regions) = 0 /\ regions \in Seq(Region)
  BY DEF Init
<1>2. TypeOK
  BY <1>1, AddrAssumption DEF Init, TypeOK, NoRange, Gpa, Addr
<1>3. SubtractInv
  BY DEF Init, SubtractInv
<1>4. BackedMemoryIsRecorded
  BY DEF Init, BackedMemoryIsRecorded
<1> QED
  BY <1>2, <1>3, <1>4 DEF IInv

(* Steps that only answer: the region list and the hypervisor stay.        *)

\* A call that only returns a status keeps the invariant.
LEMMA AnswerStep ==
    ASSUME IInv, UNCHANGED <<regions, hv, pc, it, unmapped>>,
           status' \in {"OK", "MisalignedHostMemory", "MisalignedAddress", "EmptyRange",
                        "MisalignedSize", "Unsupported", "OutOfBounds"} \cup ImplErrors
    PROVE  IInv'
<1>1. TypeOK'
  BY DEF IInv, TypeOK
<1>2. SubtractInv'
  BY DEF IInv, SubtractInv, Apart
<1>3. BackedMemoryIsRecorded'
  BY DEF IInv, BackedMemoryIsRecorded
<1> QED
  BY <1>1, <1>2, <1>3 DEF IInv

\* MapGuestMemory refusing a range changes no mapping.
LEMMA RejectMapStep ==
    ASSUME IInv, NEW base \in Bases, NEW size \in Sizes, NEW host \in Hosts,
           RejectMap(base, size, host)
    PROVE  IInv'
<1>1. base \in Addr /\ size \in Addr /\ host \in Addr
  BY ArgumentAssumption DEF Addr
<1> QED
  BY <1>1, StatusType, AnswerStep DEF RejectMap

\* UnmapGuestMemory refusing a range changes no mapping.
LEMMA RejectUnmapStep ==
    ASSUME IInv, NEW base \in Bases, NEW size \in Sizes, RejectUnmap(base, size)
    PROVE  IInv'
<1>1. base \in Addr /\ size \in Addr /\ 0 \in Addr
  BY ArgumentAssumption, AddrAssumption DEF Addr
<1> QED
  BY <1>1, StatusType, AnswerStep DEF RejectUnmap

-----------------------------------------------------------------------------
(* A successful map appends a region and a successful unmap clears the      *)
(* hypervisor's side before the list is touched.                            *)

\* A mapping the hypervisor accepts is recorded behind the others.
LEMMA MapStep ==
    ASSUME IInv, NEW base \in Bases, NEW size \in Sizes, NEW host \in Hosts,
           MapGuestMemory(base, size, host)
    PROVE  IInv'
<1> DEFINE new == MemoryRegion(base, size, host)
<1>1. base \in Addr /\ size \in Addr /\ host \in Addr
  BY ArgumentAssumption DEF Addr
<1>2. size > 0 /\ base + size <= GpaLimit
  BY <1>1, StatusType, RangeStatusOK DEF MapGuestMemory, HypervisorMaps
<1>3. new \in Region /\ new.baseAddress = base /\ new.size = size
      /\ new.hostMemory = host
  BY <1>1 DEF MemoryRegion, Region
<1> HIDE DEF new
<1>4. regions \in Seq(Region) /\ regions' = Append(regions, new) /\ Len(regions) \in Nat
  BY LenProperties DEF IInv, TypeOK, MapGuestMemory, new
<1>5. /\ regions' \in Seq(Region)
      /\ Len(regions') = Len(regions) + 1
      /\ \A i \in 1 .. Len(regions) : regions'[i] = regions[i]
      /\ regions'[Len(regions) + 1] = new
  BY <1>3, <1>4, AppendProperties
<1>6. \A a \in Gpa : hv'[a] = IF a \in RangeOf(base, size)
                              THEN Plus(host, a - base) ELSE hv[a]
  BY DEF MapGuestMemory, HypervisorMaps
<1>7. TypeOK'
  <2>1. \A i \in 1 .. Len(regions') :
           regions'[i].size > 0 /\ regions'[i].baseAddress + regions'[i].size <= GpaLimit
    BY <1>2, <1>3, <1>4, <1>5 DEF IInv, TypeOK
  <2>2. hv' \in [Gpa -> Addr \cup {NotMapped}]
    <3>1. \A a \in RangeOf(base, size) : a - base \in Addr
      BY <1>1, <1>2, AddrAssumption DEF RangeOf, Addr
    <3>2. \A a \in RangeOf(base, size) : Plus(host, a - base) \in Addr
      BY <1>1, <3>1, PlusInAddr
    <3> QED
      BY <3>2 DEF IInv, TypeOK, MapGuestMemory, HypervisorMaps
  <2>3. it' \in 1 .. Len(regions') + 1
    BY <1>4, <1>5 DEF IInv, TypeOK, MapGuestMemory
  <2> QED
    BY <1>5, <2>1, <2>2, <2>3 DEF IInv, TypeOK, MapGuestMemory
<1>8. SubtractInv'
  BY DEF SubtractInv, MapGuestMemory
<1>9. BackedMemoryIsRecorded'
  <2> SUFFICES ASSUME NEW a \in Gpa, hv'[a] # NotMapped
               PROVE  \E i \in 1 .. Len(regions') :
                         Covers(regions'[i], a) /\ HostOf(regions'[i], a) = hv'[a]
    BY DEF BackedMemoryIsRecorded
  <2>1. CASE a \in RangeOf(base, size)
    <3>1. Covers(new, a) /\ HostOf(new, a) = hv'[a]
      BY <1>1, <1>2, <1>3, <1>6, <2>1 DEF Covers, HostOf, Minus, RangeOf, Addr
    <3> QED BY <1>4, <1>5, <3>1
  <2>2. CASE a \notin RangeOf(base, size)
    <3>1. PICK i \in 1 .. Len(regions) :
                 Covers(regions[i], a) /\ HostOf(regions[i], a) = hv[a]
      BY <1>6, <2>2 DEF IInv, BackedMemoryIsRecorded
    <3>2. i \in 1 .. Len(regions') /\ regions'[i] = regions[i]
      BY <1>4, <1>5
    <3> QED BY <1>6, <2>2, <3>1, <3>2
  <2> QED BY <2>1, <2>2
<1> QED
  BY <1>7, <1>8, <1>9 DEF IInv

\* UnmapGuestMemory starts SubtractMemoryRange on a range no longer backed.
LEMMA UnmapStep ==
    ASSUME IInv, NEW base \in Bases, NEW size \in Sizes, UnmapGuestMemory(base, size)
    PROVE  IInv'
<1>1. base \in Addr /\ size \in Addr
  BY ArgumentAssumption DEF Addr
<1>2. size > 0 /\ base + size <= GpaLimit
  BY <1>1, RangeStatusOK DEF UnmapGuestMemory, HypervisorUnmaps
<1>3. \A a \in Gpa : hv'[a] = IF a \in RangeOf(base, size) THEN NotMapped ELSE hv[a]
  BY DEF UnmapGuestMemory, HypervisorUnmaps
<1>4. regions' = regions /\ Len(regions) \in Nat
  BY LenProperties DEF IInv, TypeOK, UnmapGuestMemory
<1>5. TypeOK'
  BY <1>1, <1>4 DEF IInv, TypeOK, UnmapGuestMemory, HypervisorUnmaps
<1>6. SubtractInv'
  <2>1. \A a \in RangeOf(base, size) : a \in Gpa
    BY <1>1, <1>2, AddrAssumption DEF RangeOf, Gpa, Addr
  <2> QED
    BY <1>1, <1>2, <1>3, <2>1 DEF SubtractInv, UnmapGuestMemory
<1>7. BackedMemoryIsRecorded'
  BY <1>3, <1>4 DEF IInv, BackedMemoryIsRecorded
<1> QED
  BY <1>5, <1>6, <1>7 DEF IInv

-----------------------------------------------------------------------------
(* The turns of SubtractMemoryRange's loop.                                *)

\* Addresses are integers, for the leaves that are pure arithmetic.
LEMMA AddrIsInt ==
    /\ \A a \in Addr : a \in Int /\ a >= 0 /\ a < AddrSpace
    /\ \A a \in Gpa : a \in Int /\ a \in Addr
    /\ GpaLimit \in Int /\ AddrSpace \in Int /\ GpaLimit < AddrSpace
  BY AddrAssumption DEF Addr, Gpa

\* The loop's facts, with the wrapping sums replaced by plain ones.
LEMMA LoopFacts ==
    ASSUME IInv, InLoop
    PROVE  /\ regions \in Seq(Region) /\ Len(regions) \in Nat
           /\ it \in 1 .. Len(regions) /\ Current \in Region
           /\ Current.baseAddress \in Addr /\ Current.size \in Addr
           /\ Current.hostMemory \in Addr
           /\ unmapped.baseAddress \in Addr /\ unmapped.size \in Addr
           /\ UnmappedFinal = unmapped.baseAddress + unmapped.size - 1
           /\ CurrentFinal = Current.baseAddress + Current.size - 1
<1>1. /\ regions \in Seq(Region) /\ Len(regions) \in Nat
      /\ it \in 1 .. Len(regions)
  BY LenProperties DEF IInv, TypeOK, InLoop
<1>2. /\ Current \in Region
      /\ Current.size > 0 /\ Current.baseAddress + Current.size <= GpaLimit
  BY <1>1, ElementOfSeq DEF IInv, TypeOK, Current
<1>3. /\ Current.baseAddress \in Addr /\ Current.size \in Addr
      /\ Current.hostMemory \in Addr
  BY <1>2 DEF Region
<1>4. /\ unmapped.baseAddress \in Addr /\ unmapped.size \in Addr
      /\ unmapped.size > 0
      /\ unmapped.baseAddress + unmapped.size <= GpaLimit
  BY DEF IInv, TypeOK, InLoop, SubtractInv
<1>5. UnmappedFinal = unmapped.baseAddress + unmapped.size - 1
  BY <1>4, FinalOfRange DEF UnmappedFinal
<1>6. CurrentFinal = Current.baseAddress + Current.size - 1
  BY <1>2, <1>3, FinalOfRange DEF CurrentFinal
<1> QED
  BY <1>1, <1>2, <1>3, <1>4, <1>5, <1>6

\* The same as integers.
LEMMA LoopInts ==
    ASSUME IInv, InLoop
    PROVE  /\ Current.baseAddress \in Int /\ Current.baseAddress >= 0
           /\ Current.size \in Int /\ Current.size > 0
           /\ Current.baseAddress + Current.size <= GpaLimit
           /\ unmapped.baseAddress \in Int /\ unmapped.baseAddress >= 0
           /\ unmapped.size \in Int /\ unmapped.size > 0
           /\ unmapped.baseAddress + unmapped.size <= GpaLimit
           /\ GpaLimit \in Int /\ AddrSpace \in Int /\ GpaLimit < AddrSpace
<1>1. Current.size > 0 /\ Current.baseAddress + Current.size <= GpaLimit
  BY LoopFacts DEF IInv, TypeOK, Current
<1>2. /\ unmapped.size > 0
      /\ unmapped.baseAddress + unmapped.size <= GpaLimit
  BY DEF IInv, InLoop, SubtractInv
<1> QED
  BY <1>1, <1>2, LoopFacts, AddrIsInt

\* No address of the range being unmapped is backed.
LEMMA LoopBacked ==
    ASSUME IInv, InLoop, NEW a \in Gpa, hv[a] # NotMapped
    PROVE  /\ a \in Int /\ a \in Addr
           /\ ~(unmapped.baseAddress <= a /\ a < unmapped.baseAddress + unmapped.size)
<1>1. a \in Int /\ a \in Addr
  BY AddrIsInt
<1>2. a \notin RangeOf(unmapped.baseAddress, unmapped.size)
  BY DEF IInv, InLoop, SubtractInv
<1> QED
  BY <1>1, <1>2, LoopInts DEF RangeOf

\* Where the range ends, as the four cases tell it.
LEMMA LoopCases ==
    ASSUME IInv, InLoop
    PROVE  /\ ReachesStart <=> unmapped.baseAddress <= Current.baseAddress
           /\ ReachesEnd <=> Current.baseAddress + Current.size
                               <= unmapped.baseAddress + unmapped.size
<1>1. /\ UnmappedFinal = unmapped.baseAddress + unmapped.size - 1
      /\ CurrentFinal = Current.baseAddress + Current.size - 1
  BY LoopFacts
<1>2. /\ Current.baseAddress \in Int /\ Current.size \in Int
      /\ unmapped.baseAddress \in Int /\ unmapped.size \in Int
  BY LoopInts
<1>3. ReachesStart <=> unmapped.baseAddress <= Current.baseAddress
  BY DEF ReachesStart
<1>4. ReachesEnd <=> Current.baseAddress + Current.size
                      <= unmapped.baseAddress + unmapped.size
  BY <1>1, <1>2 DEF ReachesEnd
<1> QED
  BY <1>3, <1>4

\* Case 1: an erased region held only addresses that are no longer backed.
LEMMA EraseStep ==
    ASSUME IInv, EraseRegion
    PROVE  IInv'
<1>1. InLoop /\ ReachesStart /\ ReachesEnd
  BY DEF EraseRegion
<1>2. /\ regions' \in Seq(Region)
      /\ Len(regions') = Len(regions) - 1
      /\ \A j \in 1 .. Len(regions) - 1 :
            regions'[j] = IF j < it THEN regions[j] ELSE regions[j + 1]
  BY <1>1, LoopFacts, RemoveAtProperties DEF EraseRegion
<1>2a. Len(regions) \in Nat /\ it \in 1 .. Len(regions)
  BY <1>1, LoopFacts
<1>3. TypeOK'
  <2>1. \A j \in 1 .. Len(regions') : \E k \in 1 .. Len(regions) : regions'[j] = regions[k]
    <3>1. \A j \in 1 .. Len(regions') : j \in 1 .. Len(regions) /\ j + 1 \in 1 .. Len(regions)
      BY <1>2, <1>2a
    <3> QED
      BY <1>2, <3>1
  <2>2. \A j \in 1 .. Len(regions') :
           regions'[j].size > 0 /\ regions'[j].baseAddress + regions'[j].size <= GpaLimit
    BY <2>1 DEF IInv, TypeOK
  <2> QED
    BY <1>2, <1>2a, <2>2 DEF IInv, TypeOK, EraseRegion
<1>4. SubtractInv'
  <2>1. /\ UNCHANGED <<hv, pc, it, unmapped>> /\ pc = "subtract"
        /\ \A j \in 1 .. it - 1 : j <= Len(regions) /\ j < it /\ j \in 1 .. Len(regions) - 1
    BY <1>1, <1>2a DEF EraseRegion, InLoop
  <2>2. \A j \in 1 .. it - 1 : Apart(regions[j]) /\ regions'[j] = regions[j]
    BY <1>2, <2>1 DEF IInv, SubtractInv
  <2> QED
    BY <2>1, <2>2 DEF IInv, SubtractInv, Apart
<1>5. BackedMemoryIsRecorded'
  <2> SUFFICES ASSUME NEW a \in Gpa, hv[a] # NotMapped
               PROVE  \E i \in 1 .. Len(regions') :
                         Covers(regions'[i], a) /\ HostOf(regions'[i], a) = hv[a]
    BY DEF BackedMemoryIsRecorded, EraseRegion
  <2>1. PICK i \in 1 .. Len(regions) :
               Covers(regions[i], a) /\ HostOf(regions[i], a) = hv[a]
    BY DEF IInv, BackedMemoryIsRecorded
  <2>2. ~Covers(Current, a)
    BY <1>1, LoopInts, LoopBacked, LoopCases DEF Covers
  <2>3. i # it
    BY <2>1, <2>2 DEF Current
  <2>4. CASE i < it
    <3>1. i \in 1 .. Len(regions') /\ i \in 1 .. Len(regions) - 1
      BY <1>2, <1>2a, <2>4
    <3>2. regions'[i] = regions[i]
      BY <1>2, <2>4, <3>1
    <3> QED BY <2>1, <3>1, <3>2
  <2>5. CASE i > it
    <3>1. i - 1 \in 1 .. Len(regions') /\ i - 1 \in 1 .. Len(regions) - 1
          /\ ~(i - 1 < it) /\ (i - 1) + 1 = i
      BY <1>2, <1>2a, <2>5
    <3>2. regions'[i - 1] = regions[i]
      BY <1>2, <3>1
    <3> QED BY <2>1, <3>1, <3>2
  <2> QED BY <1>2a, <2>3, <2>4, <2>5
<1> QED
  BY <1>3, <1>4, <1>5 DEF IInv

\* Cases 2 and 3 replace the current region by another.
LEMMA ReplaceStep ==
    ASSUME IInv, InLoop, NEW r \in Region,
           r.size > 0, r.baseAddress + r.size <= GpaLimit, Apart(r),
           regions' = [regions EXCEPT ![it] = r], it' = it + 1,
           UNCHANGED <<hv, status, pc, unmapped>>,
           \A a \in Gpa : hv[a] # NotMapped /\ Covers(Current, a) =>
                             Covers(r, a) /\ HostOf(r, a) = HostOf(Current, a)
    PROVE  IInv'
<1>1. /\ regions' \in Seq(Region)
      /\ Len(regions') = Len(regions)
      /\ \A j \in 1 .. Len(regions) : regions'[j] = IF j = it THEN r ELSE regions[j]
  BY LoopFacts, ExceptSeq
<1>2. TypeOK'
  <2>1. \A j \in 1 .. Len(regions') :
           regions'[j].size > 0 /\ regions'[j].baseAddress + regions'[j].size <= GpaLimit
    BY <1>1, LoopFacts DEF IInv, TypeOK
  <2> QED
    BY <1>1, <2>1, LoopFacts DEF IInv, TypeOK
<1>3. SubtractInv'
  <2>1. \A j \in 1 .. Len(regions) : j <= it => Apart(regions'[j])
    BY <1>1, LoopFacts DEF IInv, SubtractInv, InLoop
  <2>2. unmapped' = unmapped /\ hv' = hv /\ pc' = pc
    OBVIOUS
  <2> QED
    BY <1>1, <2>1, <2>2, LoopFacts DEF IInv, SubtractInv, Apart, InLoop
<1>4. BackedMemoryIsRecorded'
  <2> SUFFICES ASSUME NEW a \in Gpa, hv[a] # NotMapped
               PROVE  \E i \in 1 .. Len(regions') :
                         Covers(regions'[i], a) /\ HostOf(regions'[i], a) = hv[a]
    BY DEF BackedMemoryIsRecorded
  <2>1. PICK i \in 1 .. Len(regions) :
               Covers(regions[i], a) /\ HostOf(regions[i], a) = hv[a]
    BY DEF IInv, BackedMemoryIsRecorded
  <2> QED
    BY <1>1, <2>1 DEF Current
<1> QED
  BY <1>2, <1>3, <1>4 DEF IInv

\* The range covers the end of the region, which is shortened.
LEMMA TrimEndStep ==
    ASSUME IInv, TrimEnd
    PROVE  IInv'
<1> DEFINE size == unmapped.baseAddress - Current.baseAddress
           r == MemoryRegion(Current.baseAddress, size, Current.hostMemory)
<1>1. InLoop /\ ~ReachesStart /\ ReachesEnd
  BY DEF TrimEnd
<1>2. /\ size \in Int /\ size > 0 /\ size < AddrSpace
      /\ Current.baseAddress + size <= GpaLimit
      /\ FirstSize = size
  BY <1>1, LoopInts, LoopCases DEF Minus, FirstSize
<1>3. size \in Addr
  BY <1>2, AddrAssumption DEF Addr
<1>4. /\ r \in Region /\ r.baseAddress = Current.baseAddress
      /\ r.size = size /\ r.hostMemory = Current.hostMemory
  BY <1>1, <1>3, LoopFacts DEF MemoryRegion, Region
<1>5. [Current EXCEPT !.size = size] = r
  BY <1>1, LoopFacts DEF MemoryRegion, Region
<1>6. regions' = [regions EXCEPT ![it] = r]
  BY <1>2, <1>5 DEF TrimEnd, Current
<1> HIDE DEF r
<1>7. r.size > 0 /\ r.baseAddress + r.size <= GpaLimit /\ Apart(r)
  BY <1>1, <1>2, <1>4, LoopInts DEF Apart
<1>8. ASSUME NEW a \in Gpa, hv[a] # NotMapped, Covers(Current, a)
      PROVE  Covers(r, a) /\ HostOf(r, a) = HostOf(Current, a)
  BY <1>1, <1>4, <1>8, LoopInts, LoopBacked, LoopCases DEF Covers, HostOf
<1> QED
  BY <1>1, <1>4, <1>6, <1>7, <1>8, ReplaceStep DEF TrimEnd

\* The range covers the start of the region, which is moved up.
LEMMA TrimStartStep ==
    ASSUME IInv, TrimStart
    PROVE  IInv'
<1> DEFINE start == unmapped.baseAddress + unmapped.size
           size == Current.baseAddress + Current.size - start
           host == Plus(Current.hostMemory, Minus(start, Current.baseAddress))
           r == MemoryRegion(start, size, host)
<1>1. InLoop /\ ReachesStart /\ ~ReachesEnd
  BY DEF TrimStart
<1>2. /\ start \in Int /\ start > 0 /\ start < AddrSpace
      /\ size \in Int /\ size > 0 /\ size < AddrSpace /\ start + size <= GpaLimit
  BY <1>1, LoopInts, LoopCases
<1>3. start \in Addr /\ size \in Addr
  BY <1>2, AddrAssumption DEF Addr
<1>4. host \in Addr
  <2>1. Minus(start, Current.baseAddress) \in Addr
    BY <1>1, <1>2, LoopInts DEF Minus, Addr
  <2> QED BY <1>1, <2>1, LoopFacts, PlusInAddr
<1>5. /\ AfterUnmapped = start
      /\ RestSize = size
  <2>1. /\ UnmappedFinal = start - 1
        /\ CurrentFinal = start + size - 1
    <3>1. /\ UnmappedFinal = unmapped.baseAddress + unmapped.size - 1
          /\ CurrentFinal = Current.baseAddress + Current.size - 1
      BY <1>1, LoopFacts
    <3>2. /\ unmapped.baseAddress \in Int /\ unmapped.size \in Int
          /\ Current.baseAddress \in Int /\ Current.size \in Int
      BY <1>1, LoopInts
    <3> QED
      BY <3>1, <3>2
  <2> HIDE DEF start, size
  <2> QED
    BY <1>2, <2>1, AddrAssumption DEF Plus, Minus, AfterUnmapped, RestSize
<1>6. /\ r \in Region /\ r.baseAddress = start /\ r.size = size /\ r.hostMemory = host
  BY <1>3, <1>4 DEF MemoryRegion, Region
<1>7. regions' = [regions EXCEPT ![it] = r]
  BY <1>5 DEF TrimStart
<1> HIDE DEF r, host
<1>8. r.size > 0 /\ r.baseAddress + r.size <= GpaLimit /\ Apart(r)
  BY <1>1, <1>2, <1>6, LoopInts DEF Apart
<1>9. ASSUME NEW a \in Gpa, hv[a] # NotMapped, Covers(Current, a)
      PROVE  Covers(r, a) /\ HostOf(r, a) = HostOf(Current, a)
  <2>1. Covers(r, a)
    BY <1>1, <1>6, <1>9, LoopInts, LoopBacked, LoopCases DEF Covers
  <2>2. a \in Addr
    BY AddrIsInt
  <2>3. HostOf(r, a) = HostOf(Current, a)
    BY <1>1, <1>3, <1>6, <2>2, LoopFacts, HostOfMovedStart DEF HostOf, host
  <2> QED BY <2>1, <2>3
<1> QED
  BY <1>1, <1>6, <1>7, <1>8, <1>9, ReplaceStep DEF TrimStart

\* The range lies inside the region, which is split in two.
LEMMA SplitStep ==
    ASSUME IInv, SplitRegion
    PROVE  IInv'
<1> DEFINE cut == unmapped.baseAddress - Current.baseAddress
           start == unmapped.baseAddress + unmapped.size
           size == Current.baseAddress + Current.size - start
           host == Plus(Plus(Current.hostMemory, cut), unmapped.size)
           r1 == MemoryRegion(Current.baseAddress, cut, Current.hostMemory)
           r2 == MemoryRegion(start, size, host)
<1>1. InLoop /\ ~ReachesStart /\ ~ReachesEnd
  BY DEF SplitRegion
<1>2. /\ cut \in Int /\ cut > 0 /\ cut < AddrSpace
      /\ start \in Int /\ start > 0 /\ start < AddrSpace
      /\ size \in Int /\ size > 0 /\ size < AddrSpace /\ start + size <= GpaLimit
      /\ Current.baseAddress + cut <= GpaLimit
      /\ FirstSize = cut
  BY <1>1, LoopInts, LoopCases DEF Minus, FirstSize
<1>3. cut \in Addr /\ start \in Addr /\ size \in Addr
  BY <1>2, AddrAssumption DEF Addr
<1>4. host \in Addr
  BY <1>1, <1>3, LoopFacts, PlusInAddr
<1>5. /\ AfterUnmapped = start
      /\ RestSize = size
  <2>1. /\ UnmappedFinal = start - 1
        /\ CurrentFinal = start + size - 1
    <3>1. /\ UnmappedFinal = unmapped.baseAddress + unmapped.size - 1
          /\ CurrentFinal = Current.baseAddress + Current.size - 1
      BY <1>1, LoopFacts
    <3>2. /\ unmapped.baseAddress \in Int /\ unmapped.size \in Int
          /\ Current.baseAddress \in Int /\ Current.size \in Int
      BY <1>1, LoopInts
    <3> QED
      BY <3>1, <3>2
  <2> HIDE DEF start, size
  <2> QED
    BY <1>2, <2>1, AddrAssumption DEF Plus, Minus, AfterUnmapped, RestSize
<1>6. /\ r1 \in Region /\ r1.baseAddress = Current.baseAddress /\ r1.size = cut
      /\ r1.hostMemory = Current.hostMemory
      /\ r2 \in Region /\ r2.baseAddress = start /\ r2.size = size
      /\ r2.hostMemory = host
  BY <1>1, <1>3, <1>4, LoopFacts DEF MemoryRegion, Region
<1>7. [Current EXCEPT !.size = cut] = r1
  BY <1>1, LoopFacts DEF MemoryRegion, Region
<1>8. regions' = InsertAt([regions EXCEPT ![it] = r1], it, r2)
  BY <1>2, <1>5, <1>7 DEF SplitRegion, SecondHost, Current
<1>9. /\ r1.size > 0 /\ r1.baseAddress + r1.size <= GpaLimit
      /\ r2.size > 0 /\ r2.baseAddress + r2.size <= GpaLimit
      /\ Apart(r1) /\ Apart(r2)
  BY <1>1, <1>2, <1>6, LoopInts DEF Apart
<1>10. ASSUME NEW a \in Gpa, hv[a] # NotMapped, Covers(Current, a)
       PROVE  \/ Covers(r1, a) /\ HostOf(r1, a) = HostOf(Current, a)
              \/ Covers(r2, a) /\ HostOf(r2, a) = HostOf(Current, a)
  <2>1. Covers(r1, a) \/ Covers(r2, a)
    BY <1>1, <1>6, <1>10, LoopInts, LoopBacked, LoopCases DEF Covers
  <2>2. HostOf(r1, a) = HostOf(Current, a)
    BY <1>6 DEF HostOf
  <2>3. ASSUME Covers(r2, a)
        PROVE  HostOf(r2, a) = HostOf(Current, a)
    <3>1. /\ a \in Int /\ start <= a /\ a < start + size
      BY <1>6, <2>3, AddrIsInt DEF Covers
    <3>2. /\ Current.hostMemory \in Int /\ Current.hostMemory >= 0
          /\ Current.hostMemory < AddrSpace
      BY <1>1, LoopFacts, AddrIsInt
    <3>3. Plus(host, a - start) = Plus(Current.hostMemory, a - Current.baseAddress)
      BY <1>1, <1>2, <3>1, <3>2, LoopInts DEF Plus
    <3>4. Minus(a, start) = a - start /\ Minus(a, Current.baseAddress) = a - Current.baseAddress
      BY <1>1, <1>2, <3>1, LoopInts DEF Minus
    <3> QED BY <1>6, <3>3, <3>4 DEF HostOf
  <2> QED BY <2>1, <2>2, <2>3
<1> HIDE DEF r1, r2
<1>11. regions' = InsertAt([regions EXCEPT ![it] = r1], it, r2)
  BY <1>8 DEF r1, r2
<1>12. /\ regions' \in Seq(Region)
       /\ Len(regions') = Len(regions) + 1
       /\ regions'[it] = r2 /\ regions'[it + 1] = r1
       /\ \A j \in 1 .. it - 1 : regions'[j] = regions[j]
       /\ \A j \in it + 1 .. Len(regions) : regions'[j + 1] = regions[j]
  <2> DEFINE mid == [regions EXCEPT ![it] = r1]
             new == InsertAt(mid, it, r2)
  <2>1. /\ mid \in Seq(Region) /\ Len(mid) = Len(regions) /\ mid[it] = r1
        /\ \A j \in 1 .. Len(regions) : j # it => mid[j] = regions[j]
    BY <1>1, <1>6, LoopFacts, ExceptSeq
  <2>2. Len(regions) \in Nat /\ it \in 1 .. Len(regions)
    BY <1>1, LoopFacts
  <2>3. regions' = new
    BY <1>11
  <2> HIDE DEF mid
  <2>4. mid \in Seq(Region) /\ it \in 1 .. Len(mid) /\ r2 \in Region
    BY <1>6, <2>1, <2>2
  <2>5. /\ new \in Seq(Region)
        /\ Len(new) = Len(mid) + 1
        /\ new[it] = r2
        /\ \A j \in 1 .. it - 1 : new[j] = mid[j]
        /\ \A j \in it .. Len(mid) : new[j + 1] = mid[j]
    <3>1. new \in Seq(Region)
      BY <2>4, InsertAtProperties
    <3>2. Len(new) = Len(mid) + 1
      BY <2>4, InsertAtProperties
    <3>3. new[it] = r2
      BY <2>4, InsertAtProperties
    <3>4. \A j \in 1 .. it - 1 : new[j] = mid[j]
      BY <2>4, InsertAtProperties
    <3>5. \A j \in it .. Len(mid) : new[j + 1] = mid[j]
      BY <2>4, InsertAtProperties
    <3> QED BY <3>1, <3>2, <3>3, <3>4, <3>5
  <2> HIDE DEF new
  <2>6. new[it + 1] = r1
    BY <2>1, <2>2, <2>5
  <2>7. \A j \in 1 .. it - 1 : new[j] = regions[j]
    BY <2>1, <2>2, <2>5
  <2>8. \A j \in it + 1 .. Len(regions) : new[j + 1] = regions[j]
    BY <2>1, <2>2, <2>5
  <2> QED BY <2>1, <2>3, <2>5, <2>6, <2>7, <2>8
<1>13. Len(regions) \in Nat /\ it \in 1 .. Len(regions)
  BY <1>1, LoopFacts
<1>14. TypeOK'
  <2>1. ASSUME NEW j \in 1 .. Len(regions')
        PROVE  regions'[j].size > 0
                 /\ regions'[j].baseAddress + regions'[j].size <= GpaLimit
    <3>1. CASE j < it
      BY <1>12, <1>13, <3>1 DEF IInv, TypeOK
    <3>2. CASE j = it \/ j = it + 1
      BY <1>9, <1>12, <3>2
    <3>3. CASE j > it + 1
      <4>1. j - 1 \in it + 1 .. Len(regions) /\ (j - 1) + 1 = j
        BY <1>12, <1>13, <3>3
      <4>2. regions'[j] = regions[j - 1] /\ j - 1 \in 1 .. Len(regions)
        BY <1>12, <1>13, <4>1
      <4> QED BY <4>2 DEF IInv, TypeOK
    <3> QED BY <1>12, <1>13, <3>1, <3>2, <3>3
  <2>2. it' \in 1 .. Len(regions') + 1
    BY <1>12, <1>13 DEF SplitRegion
  <2> QED
    BY <1>12, <2>1, <2>2 DEF IInv, TypeOK, SplitRegion
<1>15. SubtractInv'
  <2>1. ASSUME NEW j \in 1 .. it PROVE Apart(regions'[j])
    <3>1. CASE j = it
      BY <1>9, <1>12, <3>1
    <3>2. CASE j < it
      BY <1>1, <1>12, <1>13, <3>2 DEF IInv, SubtractInv, InLoop
    <3> QED BY <1>13, <3>1, <3>2
  <2>2. unmapped' = unmapped /\ hv' = hv /\ pc' = pc /\ it' = it + 1
    BY DEF SplitRegion
  <2>3. it' - 1 = it
    BY <1>13, <2>2
  <2> QED
    BY <1>1, <2>1, <2>2, <2>3 DEF IInv, SubtractInv, Apart, InLoop
<1>16. BackedMemoryIsRecorded'
  <2> SUFFICES ASSUME NEW a \in Gpa, hv[a] # NotMapped
               PROVE  \E i \in 1 .. Len(regions') :
                         Covers(regions'[i], a) /\ HostOf(regions'[i], a) = hv[a]
    BY DEF BackedMemoryIsRecorded, SplitRegion
  <2>1. PICK i \in 1 .. Len(regions) :
               Covers(regions[i], a) /\ HostOf(regions[i], a) = hv[a]
    BY DEF IInv, BackedMemoryIsRecorded
  <2>2. CASE i < it
    <3>1. i \in 1 .. Len(regions') /\ regions'[i] = regions[i]
      BY <1>12, <1>13, <2>2
    <3> QED BY <2>1, <3>1
  <2>3. CASE i = it
    <3>1. it \in 1 .. Len(regions') /\ it + 1 \in 1 .. Len(regions')
      BY <1>12, <1>13
    <3> QED
      BY <1>10, <1>12, <2>1, <2>3, <3>1 DEF Current
  <2>4. CASE i > it
    <3>1. i + 1 \in 1 .. Len(regions') /\ regions'[i + 1] = regions[i]
      BY <1>12, <1>13, <2>4
    <3> QED BY <2>1, <3>1
  <2> QED BY <1>13, <2>2, <2>3, <2>4
<1> QED
  BY <1>14, <1>15, <1>16 DEF IInv

\* SubtractMemoryRange returns.
LEMMA EndStep ==
    ASSUME IInv, EndSubtract
    PROVE  IInv'
<1>1. TypeOK'
  BY LenProperties, AddrAssumption DEF IInv, TypeOK, EndSubtract, NoRange, Addr
<1>2. SubtractInv'
  BY DEF EndSubtract, SubtractInv
<1>3. BackedMemoryIsRecorded'
  BY DEF IInv, BackedMemoryIsRecorded, EndSubtract
<1> QED
  BY <1>1, <1>2, <1>3 DEF IInv

-----------------------------------------------------------------------------

\* Every step keeps the invariant.
LEMMA NextIInv == IInv /\ [Next]_vars => IInv'
<1> SUFFICES ASSUME IInv, [Next]_vars PROVE IInv'
  OBVIOUS
<1>1. ASSUME NEW base \in Bases, NEW size \in Sizes, NEW host \in Hosts,
             RejectMap(base, size, host) PROVE IInv'
  BY <1>1, RejectMapStep
<1>2. ASSUME NEW base \in Bases, NEW size \in Sizes, NEW host \in Hosts,
             MapGuestMemory(base, size, host) PROVE IInv'
  BY <1>2, MapStep
<1>3. ASSUME NEW base \in Bases, NEW size \in Sizes, NEW host \in Hosts,
             FailMap(base, size, host) PROVE IInv'
  BY <1>3, AnswerStep DEF FailMap
<1>4. ASSUME NEW base \in Bases, NEW size \in Sizes, RejectUnmap(base, size) PROVE IInv'
  BY <1>4, RejectUnmapStep
<1>5. ASSUME NEW base \in Bases, NEW size \in Sizes, UnmapGuestMemory(base, size)
      PROVE IInv'
  BY <1>5, UnmapStep
<1>6. ASSUME NEW base \in Bases, NEW size \in Sizes, FailUnmap(base, size) PROVE IInv'
  BY <1>6, AnswerStep DEF FailUnmap
<1>7. CASE SubtractMemoryRange
  BY <1>7, EraseStep, TrimEndStep, TrimStartStep, SplitStep, EndStep
     DEF SubtractMemoryRange
<1>8. CASE UNCHANGED vars
  BY <1>8, AnswerStep DEF vars, IInv, TypeOK
<1> QED
  BY <1>1, <1>2, <1>3, <1>4, <1>5, <1>6, <1>7, <1>8 DEF Next

\* The region list stays well formed under every sequence of calls.
THEOREM TypeCorrect == Spec => []TypeOK
<1>1. IInv => TypeOK
  BY DEF IInv
<1> QED
  BY <1>1, InitIInv, NextIInv, PTL DEF Spec

\* SubtractMemoryRange never loses memory the guest still has: each guest address
\* the hypervisor backs stays in a region that puts it at the same host address.
THEOREM BackedMemoryStaysRecorded == Spec => []BackedMemoryIsRecorded
<1>1. IInv => BackedMemoryIsRecorded
  BY DEF IInv
<1> QED
  BY <1>1, InitIInv, NextIInv, PTL DEF Spec

\* When UnmapGuestMemory returns OK, no region meets the unmapped range.
THEOREM UnmapAlwaysForgets == Spec => UnmapForgets
<1>1. IInv /\ [Next]_vars =>
        [pc = "subtract" /\ pc' = "idle" =>
           \A i \in 1 .. Len(regions') :
              \A a \in RangeOf(unmapped.baseAddress, unmapped.size) :
                  ~Covers(regions'[i], a)]_vars
  <2> SUFFICES ASSUME IInv, Next, pc = "subtract", pc' = "idle",
                      NEW i \in 1 .. Len(regions'),
                      NEW a \in RangeOf(unmapped.baseAddress, unmapped.size)
               PROVE  ~Covers(regions'[i], a)
    BY DEF vars
  <2>1. EndSubtract
    BY DEF Next, RejectMap, MapGuestMemory, FailMap, RejectUnmap, UnmapGuestMemory,
           FailUnmap, SubtractMemoryRange, EraseRegion, TrimEnd, TrimStart,
           SplitRegion, InLoop
  <2>2. /\ regions' = regions /\ it > Len(regions) /\ it \in Int
        /\ regions \in Seq(Region) /\ Len(regions) \in Nat
    BY <2>1, LenProperties DEF EndSubtract, IInv, TypeOK
  <2>3. regions[i] \in Region /\ i \in 1 .. it - 1 /\ i <= Len(regions)
    BY <2>2, ElementOfSeq
  <2>4. Apart(regions[i])
    BY <2>2, <2>3 DEF IInv, SubtractInv
  <2>5. /\ regions[i].baseAddress \in Int /\ regions[i].size \in Int
    BY <2>3 DEF Region, Addr
  <2>6. unmapped.baseAddress \in Int /\ unmapped.size \in Int
    BY DEF IInv, TypeOK, Addr
  <2>7. a \in Int /\ unmapped.baseAddress <= a /\ a < unmapped.baseAddress + unmapped.size
    BY <2>6 DEF RangeOf
  <2>8. regions'[i] = regions[i]
    BY <2>2
  <2> QED
    BY <2>4, <2>5, <2>6, <2>7, <2>8 DEF Apart, Covers
<1> QED
  BY <1>1, InitIInv, NextIInv, PTL DEF Spec, UnmapForgets

-----------------------------------------------------------------------------
(* MemRead and MemWrite: what their loop over the regions finds.           *)

\* The region r holds the whole of an access of `size' bytes at paddr, as the loop
\* computes it.
LoopHolds(paddr, size, r) ==
    /\ paddr >= r.baseAddress
    /\ Final(paddr, size) <= Final(r.baseAddress, r.size)

\* f[i][left] is what the loop returns with the regions 1 to i left to visit.
IsScan(paddr, size, n, f) ==
    f = [i \in 0 .. n |-> [left \in Addr |->
            IF i = 0 THEN NotMapped
            ELSE IF ~LoopHolds(paddr, size, regions[i]) THEN f[i - 1][left]
            ELSE IF left <= regions[i].size THEN HostOf(regions[i], paddr)
            ELSE f[i - 1][left - regions[i].size]]]

\* The loop is well defined for lists of any length.
LEMMA ScanExists ==
    ASSUME NEW paddr, NEW size, NEW n \in Nat
    PROVE  \E f : IsScan(paddr, size, n, f)
<1> DEFINE Without == {m \in 0 .. n : ~\E f : IsScan(paddr, size, m, f)}
<1>0. /\ n \in 0 .. n /\ (n \notin Without => \E f : IsScan(paddr, size, n, f))
      /\ Without \subseteq Nat
  OBVIOUS
<1> HIDE DEF Without
<1> SUFFICES ASSUME Without # {} PROVE FALSE
  BY <1>0
<1>1. PICK m \in Without : \A k \in Without : m <= k
  BY <1>0, LeastNumber
<1> USE DEF Without
<1>2. CASE m = 0
  <2> DEFINE f == [i \in 0 .. 0 |-> [left \in Addr |-> NotMapped]]
  <2>1. IsScan(paddr, size, 0, f)
    BY DEF IsScan
  <2> QED
    BY <1>1, <1>2, <2>1
<1>3. CASE m > 0
  <2>1. m - 1 \in 0 .. n /\ m - 1 \notin Without
    BY <1>1, <1>3
  <2>2. PICK g : IsScan(paddr, size, m - 1, g)
    BY <2>1
  <2> DEFINE last == [left \in Addr |->
                 IF ~LoopHolds(paddr, size, regions[m]) THEN g[m - 1][left]
                 ELSE IF left <= regions[m].size THEN HostOf(regions[m], paddr)
                 ELSE g[m - 1][left - regions[m].size]]
             f == [i \in 0 .. m |-> IF i = m THEN last ELSE g[i]]
             F == [i \in 0 .. m |-> [left \in Addr |->
                     IF i = 0 THEN NotMapped
                     ELSE IF ~LoopHolds(paddr, size, regions[i]) THEN f[i - 1][left]
                     ELSE IF left <= regions[i].size THEN HostOf(regions[i], paddr)
                     ELSE f[i - 1][left - regions[i].size]]]
  <2>3. ASSUME NEW i \in 0 .. m PROVE f[i] = F[i]
    <3>1. CASE i = m
      <4>1. m # 0 /\ f[m - 1] = g[m - 1] /\ f[m] = last /\ m \in 0 .. m
        BY <1>3
      <4> HIDE DEF f
      <4> QED
        BY <3>1, <4>1
    <3>2. CASE i # m
      <4>1. i \in 0 .. m - 1 /\ f[i] = g[i]
        BY <3>2
      <4>2. i # 0 => f[i - 1] = g[i - 1]
        BY <3>2
      <4>3. g[i] = [left \in Addr |->
                     IF i = 0 THEN NotMapped
                     ELSE IF ~LoopHolds(paddr, size, regions[i]) THEN g[i - 1][left]
                     ELSE IF left <= regions[i].size THEN HostOf(regions[i], paddr)
                     ELSE g[i - 1][left - regions[i].size]]
        BY <2>2, <4>1 DEF IsScan
      <4> HIDE DEF f
      <4> QED
        BY <4>1, <4>2, <4>3
    <3> QED
      BY <3>1, <3>2
  <2>4. f = F
    <3>1. DOMAIN f = 0 .. m /\ DOMAIN F = 0 .. m
      OBVIOUS
    <3>2. f = [i \in 0 .. m |-> f[i]] /\ F = [i \in 0 .. m |-> F[i]]
      OBVIOUS
    <3> HIDE DEF f, F
    <3> QED
      BY <2>3, <3>2
  <2>5. IsScan(paddr, size, m, f)
    <3> HIDE DEF f
    <3> QED
      BY <2>4 DEF IsScan
  <2> QED
    BY <1>1, <2>5
<1> QED
  BY <1>1, <1>2, <1>3

\* MemRead and MemWrite return what the loop finds in the whole list.
LEMMA AccessIsScan ==
    ASSUME NEW paddr, NEW size, Len(regions) \in Nat
    PROVE  \E f : /\ IsScan(paddr, size, Len(regions), f)
                  /\ MemAccess(paddr, size) = f[Len(regions)][size]
<1>1. MemAccess(paddr, size)
         = (CHOOSE f : IsScan(paddr, size, Len(regions), f))[Len(regions)][size]
  BY DEF MemAccess, IsScan, LoopHolds
<1>2. \E f : IsScan(paddr, size, Len(regions), f)
  BY ScanExists
<1> QED
  BY <1>1, <1>2

\* The region r holds the addresses paddr to paddr + size - 1.
HoldsRange(paddr, size, r) ==
    r.baseAddress <= paddr /\ paddr + size <= r.baseAddress + r.size

\* For an access that does not leave the guest's address space the loop stops at the
\* first region, from the newest, that holds all of it.
LEMMA AccessFindsNewest ==
    ASSUME TypeOK, NEW paddr \in Gpa, NEW size \in 1 .. GpaLimit - paddr
    PROVE  \/ /\ \A i \in 1 .. Len(regions) : ~HoldsRange(paddr, size, regions[i])
              /\ MemAccess(paddr, size) = NotMapped
           \/ \E k \in 1 .. Len(regions) :
                 /\ HoldsRange(paddr, size, regions[k])
                 /\ \A j \in k + 1 .. Len(regions) : ~HoldsRange(paddr, size, regions[j])
                 /\ MemAccess(paddr, size) = HostOf(regions[k], paddr)
<1> DEFINE n == Len(regions)
<1>1. regions \in Seq(Region) /\ n \in Nat
  BY DEF TypeOK
<1>2. paddr \in Addr /\ size \in Addr /\ size > 0 /\ paddr + size <= GpaLimit
  BY AddrAssumption DEF Gpa, Addr
<1>3. ASSUME NEW i \in 1 .. n
      PROVE  /\ LoopHolds(paddr, size, regions[i]) <=> HoldsRange(paddr, size, regions[i])
             /\ HoldsRange(paddr, size, regions[i]) => size <= regions[i].size
  <2>1. /\ regions[i].baseAddress \in Addr /\ regions[i].size \in Addr
        /\ regions[i].size > 0 /\ regions[i].baseAddress + regions[i].size <= GpaLimit
    <3>1. regions[i] \in Region
      BY <1>1
    <3> QED
      BY <3>1 DEF TypeOK, Region
  <2>2. Final(paddr, size) = paddr + size - 1
    BY <1>2, FinalOfRange
  <2>3. Final(regions[i].baseAddress, regions[i].size)
           = regions[i].baseAddress + regions[i].size - 1
    BY <2>1, FinalOfRange
  <2>4. /\ paddr \in Int /\ size \in Int /\ regions[i].baseAddress \in Int
        /\ regions[i].size \in Int
    BY <1>2, <2>1 DEF Addr
  <2> QED
    BY <2>2, <2>3, <2>4 DEF LoopHolds, HoldsRange
<1>4. PICK f : /\ IsScan(paddr, size, n, f)
               /\ MemAccess(paddr, size) = f[n][size]
  BY <1>1, AccessIsScan
<1>5. f[0][size] = NotMapped
  <2>1. 0 \in 0 .. n
    BY <1>1
  <2> QED
    BY <1>2, <1>4, <2>1 DEF IsScan
<1>6. ASSUME NEW i \in 1 .. n
      PROVE  f[i][size] = (IF HoldsRange(paddr, size, regions[i])
                           THEN HostOf(regions[i], paddr) ELSE f[i - 1][size])
  <2>1. i \in 0 .. n /\ i # 0
    BY <1>1
  <2>2. f[i][size] = (IF ~LoopHolds(paddr, size, regions[i]) THEN f[i - 1][size]
                      ELSE IF size <= regions[i].size THEN HostOf(regions[i], paddr)
                      ELSE f[i - 1][size - regions[i].size])
    BY <1>2, <1>4, <2>1 DEF IsScan
  <2> QED
    BY <1>3, <2>2
<1> HIDE DEF n
\* The turns after the last region that holds the range change nothing.
<1>7. ASSUME NEW k \in 0 .. n,
             \A j \in k + 1 .. n : ~HoldsRange(paddr, size, regions[j])
      PROVE  f[n][size] = f[k][size]
  <2> DEFINE Bad == {j \in k .. n : f[j][size] # f[k][size]}
  <2> SUFFICES ASSUME Bad # {} PROVE FALSE
    BY <1>1
  <2>1. Bad \subseteq Nat
    BY <1>1
  <2>2. PICK j \in Bad : \A l \in Bad : j <= l
    BY <2>1, LeastNumber
  <2>3. j # k /\ j \in k + 1 .. n /\ j - 1 \in k .. n /\ j \in 1 .. n
    BY <1>1, <2>2
  <2>4. f[j - 1][size] = f[k][size]
    BY <2>2, <2>3
  <2>5. f[j][size] = f[j - 1][size]
    BY <1>6, <1>7, <2>3
  <2> QED
    BY <2>2, <2>4, <2>5
<1>8. CASE \A i \in 1 .. n : ~HoldsRange(paddr, size, regions[i])
  <2>1. f[n][size] = f[0][size]
    BY <1>1, <1>7, <1>8
  <2> QED
    BY <1>4, <1>5, <1>8, <2>1 DEF n
<1>9. CASE \E i \in 1 .. n : HoldsRange(paddr, size, regions[i])
  <2> DEFINE H == {i \in 1 .. n : HoldsRange(paddr, size, regions[i])}
  <2>1. H \subseteq 0 .. n /\ H # {}
    BY <1>1, <1>9
  <2>2. PICK k \in H : \A j \in H : j <= k
    BY <1>1, <2>1, GreatestNumber
  <2>3. k \in 1 .. n /\ HoldsRange(paddr, size, regions[k])
    OBVIOUS
  <2>4. \A j \in k + 1 .. n : ~HoldsRange(paddr, size, regions[j])
    BY <1>1, <2>2, <2>3
  <2>5. f[n][size] = f[k][size]
    BY <1>1, <1>7, <2>3, <2>4
  <2>6. f[k][size] = HostOf(regions[k], paddr)
    BY <1>6, <2>3
  <2> QED
    BY <1>4, <2>3, <2>4, <2>5, <2>6 DEF n
<1> QED
  BY <1>8, <1>9

-----------------------------------------------------------------------------
(* A platform that does not unmap: the host sees what the guest sees.      *)

\* The hypervisor backs an address with the memory of the newest region that holds it.
NewestInv ==
    /\ pc = "idle"
    /\ \A a \in Gpa :
          /\ (\A i \in 1 .. Len(regions) : ~Covers(regions[i], a)) => hv[a] = NotMapped
          /\ \A i \in 1 .. Len(regions) :
                Covers(regions[i], a) /\ (\A j \in i + 1 .. Len(regions) : ~Covers(regions[j], a))
                    => hv[a] = HostOf(regions[i], a)

\* MapGuestMemory over anything that was mapped before keeps it.
LEMMA NewestMapStep ==
    ASSUME IInv, NewestInv, NEW base \in Bases, NEW size \in Sizes, NEW host \in Hosts,
           MapGuestMemory(base, size, host)
    PROVE  NewestInv'
<1> DEFINE new == MemoryRegion(base, size, host)
           n == Len(regions)
<1>1. base \in Addr /\ size \in Addr /\ host \in Addr
  BY ArgumentAssumption DEF Addr
<1>2. size > 0 /\ base + size <= GpaLimit
  BY <1>1, StatusType, RangeStatusOK DEF MapGuestMemory, HypervisorMaps
<1>3. new.baseAddress = base /\ new.size = size /\ new.hostMemory = host /\ new \in Region
  BY <1>1 DEF MemoryRegion, Region
<1>4. regions \in Seq(Region) /\ n \in Nat
  BY DEF IInv, TypeOK
<1>5. regions' = Append(regions, new) /\ pc' = "idle"
  BY DEF MapGuestMemory
<1>6. /\ Len(regions') = n + 1 /\ regions'[n + 1] = new
      /\ \A i \in 1 .. n : regions'[i] = regions[i]
  BY <1>3, <1>4, <1>5, AppendProperties
<1>7. hv' = [a \in Gpa |-> IF a \in RangeOf(base, size) THEN Plus(host, a - base) ELSE hv[a]]
  BY DEF MapGuestMemory, HypervisorMaps
<1> HIDE DEF new, n
<1>8. ASSUME NEW a \in Gpa
      PROVE  /\ (\A i \in 1 .. Len(regions') : ~Covers(regions'[i], a)) => hv'[a] = NotMapped
             /\ \A i \in 1 .. Len(regions') :
                   Covers(regions'[i], a)
                     /\ (\A j \in i + 1 .. Len(regions') : ~Covers(regions'[j], a))
                         => hv'[a] = HostOf(regions'[i], a)
  <2>1. a \in Int
    BY AddrAssumption DEF Gpa
  <2>2. Covers(new, a) <=> a \in RangeOf(base, size)
    BY <1>1, <1>3, <2>1 DEF Covers, RangeOf, Addr
  <2>3. n + 1 \in 1 .. n + 1 /\ \A i \in 1 .. n : i \in 1 .. n + 1 /\ n + 1 \in i + 1 .. n + 1
    BY <1>4
  <2>4. CASE Covers(new, a)
    <3>1. hv'[a] = Plus(host, a - base)
      BY <1>7, <2>2, <2>4
    <3>2. HostOf(new, a) = Plus(host, a - base)
      BY <1>1, <1>3, <2>1, <2>4 DEF HostOf, Minus, Covers, Addr
    <3>3. ASSUME NEW i \in 1 .. n + 1, \A j \in i + 1 .. n + 1 : ~Covers(regions'[j], a)
          PROVE  i = n + 1
      BY <1>4, <1>6, <2>3, <2>4, <3>3
    <3> QED
      BY <1>6, <2>3, <2>4, <3>1, <3>2, <3>3
  <2>5. CASE ~Covers(new, a)
    <3>1. hv'[a] = hv[a]
      BY <1>7, <2>2, <2>5
    <3>2. ASSUME NEW i \in 1 .. n + 1, Covers(regions'[i], a),
                 \A j \in i + 1 .. n + 1 : ~Covers(regions'[j], a)
          PROVE  hv'[a] = HostOf(regions'[i], a)
      <4>1. i # n + 1 /\ i \in 1 .. n
        BY <1>4, <1>6, <2>5, <3>2
      <4>2. \A j \in i + 1 .. n : j \in i + 1 .. n + 1 /\ regions'[j] = regions[j]
        BY <1>4, <1>6, <4>1
      <4>3. Covers(regions[i], a) /\ \A j \in i + 1 .. n : ~Covers(regions[j], a)
        BY <1>6, <3>2, <4>1, <4>2
      <4> QED
        BY <1>6, <3>1, <4>1, <4>3 DEF NewestInv, n
    <3>3. ASSUME \A i \in 1 .. n + 1 : ~Covers(regions'[i], a) PROVE hv'[a] = NotMapped
      <4>1. \A i \in 1 .. n : ~Covers(regions[i], a)
        BY <1>6, <2>3, <3>3
      <4> QED
        BY <3>1, <4>1 DEF NewestInv, n
    <3> QED
      BY <1>6, <3>2, <3>3
  <2> QED
    BY <2>4, <2>5
<1> QED
  BY <1>5, <1>8 DEF NewestInv

\* Every step of a platform that does not unmap keeps it.
LEMMA NewestStep ==
    ASSUME ~MemoryUnmapping, IInv, NewestInv, [Next]_vars
    PROVE  NewestInv'
<1>0. ASSUME UNCHANGED <<regions, hv, pc>> PROVE NewestInv'
  BY <1>0 DEF NewestInv
<1>1. ASSUME NEW base \in Bases, NEW size \in Sizes, NEW host \in Hosts,
             RejectMap(base, size, host) \/ FailMap(base, size, host)
      PROVE  NewestInv'
  BY <1>0, <1>1 DEF RejectMap, FailMap
<1>2. ASSUME NEW base \in Bases, NEW size \in Sizes, NEW host \in Hosts,
             MapGuestMemory(base, size, host)
      PROVE  NewestInv'
  BY <1>2, NewestMapStep
<1>3. ASSUME NEW base \in Bases, NEW size \in Sizes,
             RejectUnmap(base, size) \/ FailUnmap(base, size)
      PROVE  NewestInv'
  BY <1>0, <1>3 DEF RejectUnmap, FailUnmap
<1>4. ASSUME NEW base \in Bases, NEW size \in Sizes, UnmapGuestMemory(base, size)
      PROVE  FALSE
  BY <1>4 DEF UnmapGuestMemory
<1>5. CASE SubtractMemoryRange
  <2>1. pc = "idle"
    BY DEF NewestInv
  <2> QED
    BY <1>5, <2>1 DEF SubtractMemoryRange, EraseRegion, TrimEnd, TrimStart, SplitRegion,
                      EndSubtract, InLoop
<1>6. CASE UNCHANGED vars
  BY <1>0, <1>6 DEF vars
<1> QED
  BY <1>1, <1>2, <1>3, <1>4, <1>5, <1>6 DEF Next

\* It holds throughout.
LEMMA NewestAlways ==
    ASSUME ~MemoryUnmapping
    PROVE  Spec => [](IInv /\ NewestInv)
<1>1. Init => IInv /\ NewestInv
  BY InitIInv DEF Init, NewestInv
<1>2. IInv /\ NewestInv /\ [Next]_vars => (IInv /\ NewestInv)'
  BY NextIInv, NewestStep
<1> QED
  BY <1>1, <1>2, PTL DEF Spec

\* A single byte is read from and written to where the guest has it, however many
\* mappings lie on top of each other.
LEMMA ByteAccess == IInv /\ NewestInv => ByteAccessMatchesGuest
<1> SUFFICES ASSUME IInv, NewestInv, NEW paddr \in Gpa
             PROVE  MemAccess(paddr, 1) = hv[paddr]
  BY DEF ByteAccessMatchesGuest
<1>1. TypeOK /\ paddr \in Int /\ 1 \in 1 .. GpaLimit - paddr
  BY AddrAssumption DEF IInv, Gpa
<1>2. ASSUME NEW i \in 1 .. Len(regions)
      PROVE  HoldsRange(paddr, 1, regions[i]) <=> Covers(regions[i], paddr)
  <2>1. regions[i] \in Region
    BY <1>1, ElementOfSeq DEF TypeOK
  <2>2. regions[i].baseAddress \in Int /\ regions[i].size \in Int
    BY <2>1 DEF Region, Addr
  <2> QED
    BY <1>1, <2>2 DEF HoldsRange, Covers
<1>3. Len(regions) \in Nat
  BY <1>1 DEF TypeOK
<1>4. CASE /\ \A i \in 1 .. Len(regions) : ~HoldsRange(paddr, 1, regions[i])
           /\ MemAccess(paddr, 1) = NotMapped
  BY <1>2, <1>4 DEF NewestInv
<1>5. ASSUME NEW k \in 1 .. Len(regions), HoldsRange(paddr, 1, regions[k]),
             \A j \in k + 1 .. Len(regions) : ~HoldsRange(paddr, 1, regions[j]),
             MemAccess(paddr, 1) = HostOf(regions[k], paddr)
      PROVE  MemAccess(paddr, 1) = hv[paddr]
  <2>1. \A j \in k + 1 .. Len(regions) : j \in 1 .. Len(regions)
    BY <1>3
  <2>2. Covers(regions[k], paddr) /\ \A j \in k + 1 .. Len(regions) : ~Covers(regions[j], paddr)
    BY <1>2, <1>5, <2>1
  <2> QED
    BY <1>5, <2>2 DEF NewestInv
<1> QED
  BY <1>1, <1>4, <1>5, AccessFindsNewest

\* An address that one region holds is backed by that region's memory.
LEMMA OnceIsNewest ==
    ASSUME NewestInv, NEW a \in Gpa, CoveredOnce(a), NEW k \in 1 .. Len(regions),
           Covers(regions[k], a), Len(regions) \in Nat
    PROVE  hv[a] = HostOf(regions[k], a)
<1>1. \A j \in k + 1 .. Len(regions) : j \in 1 .. Len(regions) /\ j # k
  OBVIOUS
<1>2. \A j \in k + 1 .. Len(regions) : ~Covers(regions[j], a)
  BY <1>1 DEF CoveredOnce
<1> QED
  BY <1>2 DEF NewestInv

\* Host addresses follow guest addresses, wrapping or not.
LEMMA HostOfNext ==
    ASSUME NEW host \in Addr, NEW base \in Addr, NEW a \in Addr, NEW i \in Addr,
           base <= a, a + i \in Addr
    PROVE  Plus(host, Minus(a + i, base)) = Plus(Plus(host, Minus(a, base)), i)
<1>1. /\ host \in Int /\ base \in Int /\ a \in Int /\ i \in Int /\ 0 <= host /\ 0 <= base
      /\ 0 <= i /\ host < AddrSpace /\ a + i < AddrSpace /\ AddrSpace \in Int
  BY AddrAssumption DEF Addr
<1>2. Minus(a + i, base) = a + i - base /\ Minus(a, base) = a - base
  BY <1>1 DEF Minus
<1>3. Plus(host, a + i - base) = Plus(Plus(host, a - base), i)
  BY <1>1 DEF Plus
<1> QED
  BY <1>2, <1>3

\* An access of any extent in which nothing was mapped twice goes to where the guest
\* has all of its bytes.
LEMMA RangeAccess == IInv /\ NewestInv => AccessMatchesGuest
<1> SUFFICES ASSUME IInv, NewestInv, NEW paddr \in Gpa, NEW size \in 1 .. GpaLimit - paddr,
                    \A a \in RangeOf(paddr, size) : CoveredOnce(a),
                    MemAccess(paddr, size) # NotMapped, NEW i \in 0 .. size - 1
             PROVE  hv[paddr + i] = Plus(MemAccess(paddr, size), i)
  BY DEF AccessMatchesGuest, AccessAgrees
<1>1. TypeOK /\ paddr \in Int /\ paddr >= 0 /\ size \in Int /\ GpaLimit \in Int
  BY AddrAssumption DEF IInv, Gpa
<1>2. PICK k \in 1 .. Len(regions) : /\ HoldsRange(paddr, size, regions[k])
                                     /\ MemAccess(paddr, size) = HostOf(regions[k], paddr)
  BY <1>1, AccessFindsNewest
<1>3. regions[k] \in Region /\ Len(regions) \in Nat
  BY <1>1, ElementOfSeq DEF TypeOK
<1>4. /\ regions[k].baseAddress \in Addr /\ regions[k].size \in Addr
      /\ regions[k].hostMemory \in Addr
  BY <1>3 DEF Region
<1>5. paddr + i \in Gpa /\ paddr + i \in RangeOf(paddr, size) /\ paddr + i \in Addr /\ paddr \in Addr
  BY <1>1, AddrAssumption DEF Gpa, RangeOf, Addr
<1>6. Covers(regions[k], paddr + i) /\ paddr >= regions[k].baseAddress
  BY <1>1, <1>2, <1>4 DEF HoldsRange, Covers, Addr
<1>7. hv[paddr + i] = HostOf(regions[k], paddr + i)
  BY <1>3, <1>5, <1>6, OnceIsNewest
<1>8. HostOf(regions[k], paddr + i) = Plus(HostOf(regions[k], paddr), i)
  <2>1. i \in Addr
    BY <1>1, AddrAssumption DEF Addr, Gpa
  <2> DEFINE host == regions[k].hostMemory
             base == regions[k].baseAddress
  <2>2. host \in Addr /\ base \in Addr /\ base <= paddr
    BY <1>1, <1>4, <1>6 DEF Addr
  <2> HIDE DEF host, base
  <2>3. Plus(host, Minus(paddr + i, base)) = Plus(Plus(host, Minus(paddr, base)), i)
    BY <1>5, <2>1, <2>2, HostOfNext
  <2> QED
    BY <2>3 DEF HostOf, host, base
<1> QED
  BY <1>2, <1>7, <1>8

\* GetMemoryRegion finds the region the guest's memory is in, where nothing was mapped
\* twice.
LEMMA RegionLookup == IInv /\ NewestInv => RegionLookupMatchesGuest
<1> SUFFICES ASSUME IInv, NewestInv, NEW a \in Gpa, CoveredOnce(a)
             PROVE  IF GetMemoryRegion(a) = 0 THEN hv[a] = NotMapped
                    ELSE HostOf(regions[GetMemoryRegion(a)], a) = hv[a]
  BY DEF RegionLookupMatchesGuest
<1>1. TypeOK /\ Len(regions) \in Nat /\ a \in Int
  BY AddrAssumption DEF IInv, TypeOK, Gpa
<1> DEFINE I == {i \in 1 .. Len(regions) : /\ a >= regions[i].baseAddress
                                           /\ a <= Final(regions[i].baseAddress, regions[i].size)}
<1>2. GetMemoryRegion(a) = (IF I # {} THEN Min(I) ELSE 0)
  BY DEF GetMemoryRegion, SelectInSeq
<1>3. ASSUME NEW i \in 1 .. Len(regions) PROVE i \in I <=> Covers(regions[i], a)
  <2>1. regions[i] \in Region
    BY <1>1, ElementOfSeq DEF TypeOK
  <2>2. /\ regions[i].baseAddress \in Addr /\ regions[i].size \in Addr
        /\ regions[i].size > 0 /\ regions[i].baseAddress + regions[i].size <= GpaLimit
    BY <1>1, <2>1 DEF TypeOK, Region
  <2>3. Final(regions[i].baseAddress, regions[i].size)
           = regions[i].baseAddress + regions[i].size - 1
    BY <2>2, FinalOfRange
  <2> QED
    BY <1>1, <2>2, <2>3 DEF Covers, Addr
<1>4. I \subseteq 1 .. Len(regions)
  OBVIOUS
<1> HIDE DEF I
<1>5. CASE I = {}
  <2>1. \A i \in 1 .. Len(regions) : ~Covers(regions[i], a)
    BY <1>3, <1>5
  <2> QED
    BY <1>2, <1>5, <2>1 DEF NewestInv
<1>6. CASE I # {}
  <2>0. I \subseteq Nat
    BY <1>1, <1>4
  <2>1. \E x \in I : \A y \in I : x <= y
    BY <1>6, <2>0, LeastNumber
  <2>2. Min(I) \in I
    BY <2>1 DEF Min
  <2>3. Min(I) \in 1 .. Len(regions) /\ Min(I) # 0 /\ Covers(regions[Min(I)], a)
    <3>1. Min(I) \in 1 .. Len(regions)
      BY <1>4, <2>2, Zenon
    <3>2. Covers(regions[Min(I)], a)
      BY <1>3, <2>2, <3>1
    <3> QED
      BY <1>1, <3>1, <3>2
  <2>4. hv[a] = HostOf(regions[Min(I)], a)
    BY <1>1, <2>3, OnceIsNewest
  <2> QED
    BY <1>2, <1>6, <2>3, <2>4
<1> QED
  BY <1>5, <1>6

\* On a platform that does not unmap, MemRead and MemWrite of a byte reach the memory
\* the guest has there, whatever was mapped over what.
THEOREM BytesMatchGuest ==
    ASSUME ~MemoryUnmapping
    PROVE  Spec => []ByteAccessMatchesGuest
BY NewestAlways, ByteAccess, PTL

\* On such a platform accesses of any extent do, where nothing was mapped twice.
THEOREM RangesMatchGuest ==
    ASSUME ~MemoryUnmapping
    PROVE  Spec => []AccessMatchesGuest
BY NewestAlways, RangeAccess, PTL

\* On such a platform GetMemoryRegion does, where nothing was mapped twice.
THEOREM RegionsMatchGuest ==
    ASSUME ~MemoryUnmapping
    PROVE  Spec => []RegionLookupMatchesGuest
BY NewestAlways, RegionLookup, PTL

=============================================================================
