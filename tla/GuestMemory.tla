---------------------------- MODULE GuestMemory ----------------------------
(***************************************************************************)
(* The guest physical memory of a virt86::VirtualMachine (core/src/vm/     *)
(* vm.cpp).  The base class keeps m_memoryRegions, an ordered list of      *)
(* [baseAddress, size, hostMemory] that MemRead and MemWrite search on the *)
(* host's behalf; the hypervisor keeps its own map from guest physical to  *)
(* host addresses, which is what the guest sees.  Every call that succeeds *)
(* in the hypervisor must be mirrored in the list.                         *)
(*                                                                         *)
(* Addresses and sizes are the 64-bit integers of the code scaled to       *)
(* 0 .. AddrSpace-1; sums and differences wrap as uint64_t does.           *)
(*                                                                         *)
(* SubtractMemoryRange walks the list with an iterator that erases and     *)
(* inserts as it goes; each turn of its loop is one step of the model, and *)
(* no other call runs until the loop has ended.                            *)
(***************************************************************************)
EXTENDS Integers, Sequences, SequencesExt

CONSTANTS
    AddrSpace,              \* 2^64, scaled
    PageSize,               \* 4 KiB
    GpaLimit,               \* HostInfo.gpa.mask + 1
    LargeLimit,             \* 0xFFFFFFFF + 1
    LargeMemoryAllocation,  \* PlatformFeatures::largeMemoryAllocation
    MemoryUnmapping,        \* the platform overrides UnmapGuestMemoryImpl
    StrictUnmapping,        \* the hypervisor unmaps only what is wholly mapped
    Remapping,              \* the hypervisor lets a mapped page be mapped again
    ImplErrors,             \* the statuses of a failing ...Impl method
    Bases, Sizes, Hosts,    \* the arguments callers pass
    MaxRegions              \* bound: no map or unmap call beyond this many regions

\* Guest addresses fit in 64 bits.
ASSUME AddrAssumption ==
    /\ AddrSpace \in Nat /\ PageSize \in Nat \ {0} /\ GpaLimit \in Nat \ {0}
    /\ LargeLimit \in Nat
    /\ GpaLimit < AddrSpace

\* The platform's features and the failures it reports.
ASSUME FeatureAssumption ==
    /\ LargeMemoryAllocation \in BOOLEAN
    /\ MemoryUnmapping \in BOOLEAN
    /\ StrictUnmapping \in BOOLEAN
    /\ Remapping \in BOOLEAN
    /\ "OK" \notin ImplErrors

\* Arguments are 64-bit values.
ASSUME ArgumentAssumption ==
    /\ Bases \subseteq 0 .. AddrSpace - 1
    /\ Sizes \subseteq 0 .. AddrSpace - 1
    /\ Hosts \subseteq 0 .. AddrSpace - 1
    /\ MaxRegions \in Nat

VARIABLES
    regions,    \* m_memoryRegions
    hv,         \* the hypervisor's map: guest address -> host address
    status,     \* what the last call returned
    pc,         \* "idle", or "subtract" inside SubtractMemoryRange
    it,         \* SubtractMemoryRange's iterator, an index of regions
    unmapped    \* SubtractMemoryRange's arguments

vars == <<regions, hv, status, pc, it, unmapped>>

-----------------------------------------------------------------------------
(* 64-bit values *)

Addr == 0 .. AddrSpace - 1
Gpa  == 0 .. GpaLimit - 1

\* hv[a] of a guest address the hypervisor has no memory for.
NotMapped == -1

Plus(a, b)  == IF a + b >= AddrSpace THEN a + b - AddrSpace ELSE a + b
Minus(a, b) == IF a >= b THEN a - b ELSE a - b + AddrSpace

\* The inclusive final address of a range, as every method computes it.
Final(base, size) == Minus(Plus(base, size), 1)

Region == [baseAddress : Addr, size : Addr, hostMemory : Addr]

MemoryRegion(base, size, host) ==
    [baseAddress |-> base, size |-> size, hostMemory |-> host]

\* A region holds a guest address, and where it puts it in host memory.
Covers(r, a) == r.baseAddress <= a /\ a < r.baseAddress + r.size
HostOf(r, a) == Plus(r.hostMemory, Minus(a, r.baseAddress))

\* The guest addresses of a range, without wrapping: what the caller names.
RangeOf(base, size) == base .. (base + size - 1)

-----------------------------------------------------------------------------
(* The checks made before the hypervisor is called *)

RangeStatus(base, size) ==
    IF base % PageSize # 0 THEN "MisalignedAddress"
    ELSE IF size = 0 THEN "EmptyRange"
    ELSE IF size % PageSize # 0 THEN "MisalignedSize"
    ELSE IF size >= LargeLimit /\ ~LargeMemoryAllocation THEN "Unsupported"
    ELSE "OK"

\* MapGuestMemory's comparison with the limit, in which the sum wraps: of a range that ends
\* beyond 64 bits the hypervisor is asked.
MapStatus(base, size, host) ==
    IF host % PageSize # 0 THEN "MisalignedHostMemory"
    ELSE IF RangeStatus(base, size) # "OK" THEN RangeStatus(base, size)
    ELSE IF base >= GpaLimit \/ Final(base, size) >= GpaLimit THEN "OutOfBounds"
    ELSE "OK"

-----------------------------------------------------------------------------
(* The hypervisor, as the ...Impl methods use it (external).  It rejects   *)
(* ranges outside of the guest's address space, may reject any other       *)
(* request, and maps or unmaps the whole range or nothing.                 *)

HypervisorMaps(base, size, host) ==
    /\ base + size <= GpaLimit
    /\ Remapping \/ \A a \in RangeOf(base, size) : hv[a] = NotMapped
    /\ hv' = [a \in Gpa |-> IF a \in RangeOf(base, size)
                            THEN Plus(host, a - base) ELSE hv[a]]

HypervisorUnmaps(base, size) ==
    /\ base + size <= GpaLimit
    /\ StrictUnmapping => \A a \in RangeOf(base, size) : hv[a] # NotMapped
    /\ hv' = [a \in Gpa |-> IF a \in RangeOf(base, size) THEN NotMapped ELSE hv[a]]

-----------------------------------------------------------------------------

\* The arguments of SubtractMemoryRange outside of it.
NoRange == [baseAddress |-> 0, size |-> 0]

Init ==
    /\ regions = << >>
    /\ hv = [a \in Gpa |-> NotMapped]
    /\ status = "OK"
    /\ pc = "idle"
    /\ it = 1
    /\ unmapped = NoRange

\* MapGuestMemory returns before it calls the hypervisor.
RejectMap(base, size, host) ==
    /\ pc = "idle"
    /\ MapStatus(base, size, host) # "OK"
    /\ status' = MapStatus(base, size, host)
    /\ UNCHANGED <<regions, hv, pc, it, unmapped>>

\* MapGuestMemoryImpl succeeds and the region is appended.
MapGuestMemory(base, size, host) ==
    /\ pc = "idle"
    /\ Len(regions) < MaxRegions
    /\ MapStatus(base, size, host) = "OK"
    /\ HypervisorMaps(base, size, host)
    /\ regions' = Append(regions, MemoryRegion(base, size, host))
    /\ status' = "OK"
    /\ UNCHANGED <<pc, it, unmapped>>

\* MapGuestMemoryImpl fails: nothing is recorded.
FailMap(base, size, host) ==
    /\ pc = "idle"
    /\ MapStatus(base, size, host) = "OK"
    /\ status' \in ImplErrors
    /\ UNCHANGED <<regions, hv, pc, it, unmapped>>

RejectUnmap(base, size) ==
    /\ pc = "idle"
    /\ RangeStatus(base, size) # "OK"
    /\ status' = RangeStatus(base, size)
    /\ UNCHANGED <<regions, hv, pc, it, unmapped>>

\* UnmapGuestMemoryImpl succeeds and SubtractMemoryRange is entered.
UnmapGuestMemory(base, size) ==
    /\ pc = "idle"
    /\ MemoryUnmapping
    /\ Len(regions) <= MaxRegions
    /\ RangeStatus(base, size) = "OK"
    /\ HypervisorUnmaps(base, size)
    /\ pc' = "subtract"
    /\ it' = 1
    /\ unmapped' = [baseAddress |-> base, size |-> size]
    /\ UNCHANGED <<regions, status>>

\* UnmapGuestMemoryImpl fails; the base class's own always does.
FailUnmap(base, size) ==
    /\ pc = "idle"
    /\ RangeStatus(base, size) = "OK"
    /\ IF MemoryUnmapping THEN status' \in ImplErrors ELSE status' = "Unsupported"
    /\ UNCHANGED <<regions, hv, pc, it, unmapped>>

-----------------------------------------------------------------------------
(* SubtractMemoryRange: one turn of its loop per step.  The four cases are  *)
(* told apart only by where the unmapped range starts and ends; none of     *)
(* them asks whether the range and the region meet at all.                  *)

Current == regions[it]

UnmappedFinal == Final(unmapped.baseAddress, unmapped.size)
CurrentFinal  == Final(Current.baseAddress, Current.size)

ReachesStart == unmapped.baseAddress <= Current.baseAddress
ReachesEnd   == UnmappedFinal >= CurrentFinal

\* Mutant: the range's last address, not the one after it.
AfterUnmapped_OffByOne == UnmappedFinal

\* What is left of the region: its first FirstSize addresses, and the RestSize
\* addresses from AfterUnmapped on.
AfterUnmapped == Plus(UnmappedFinal, 1)
FirstSize     == Minus(unmapped.baseAddress, Current.baseAddress)
RestSize      == Minus(CurrentFinal, UnmappedFinal)

\* Mutant: the unmapped range is not skipped.
SecondHost_NotSkipped == Plus(Current.hostMemory, FirstSize)

\* The host memory of the second part of a region cut in two.
SecondHost == Plus(Plus(Current.hostMemory, FirstSize), unmapped.size)

InLoop == pc = "subtract" /\ it <= Len(regions)

\* Mutant: the iterator is advanced past the region that follows the erased one.
EraseRegion_Skip ==
    /\ InLoop /\ ReachesStart /\ ReachesEnd
    /\ regions' = RemoveAt(regions, it)
    /\ it' = it + 1
    /\ UNCHANGED <<hv, status, pc, unmapped>>

\* Mutant: the loop continues without erasing.
EraseRegion_Keep ==
    /\ InLoop /\ ReachesStart /\ ReachesEnd
    /\ UNCHANGED vars

\* Case 1: the range covers the region, which is erased.
EraseRegion ==
    /\ InLoop /\ ReachesStart /\ ReachesEnd
    /\ regions' = RemoveAt(regions, it)
    /\ UNCHANGED <<hv, status, pc, it, unmapped>>

\* Case 2: the region ends where the range starts.
TrimEnd ==
    /\ InLoop /\ ~ReachesStart /\ ReachesEnd
    /\ regions' = [regions EXCEPT ![it].size = FirstSize]
    /\ it' = it + 1
    /\ UNCHANGED <<hv, status, pc, unmapped>>

\* Case 3: the region starts where the range ends.
TrimStart ==
    /\ InLoop /\ ReachesStart /\ ~ReachesEnd
    /\ regions' = [regions EXCEPT ![it] =
          MemoryRegion(AfterUnmapped, RestSize,
                       Plus(Current.hostMemory,
                            Minus(AfterUnmapped, Current.baseAddress)))]
    /\ it' = it + 1
    /\ UNCHANGED <<hv, status, pc, unmapped>>

\* Case 4: the region is cut in two.  The second part is inserted before the
\* first, and the iterator, left at the inserted part, is advanced to the first
\* part, which the next turn visits again.
SplitRegion ==
    /\ InLoop /\ ~ReachesStart /\ ~ReachesEnd
    /\ regions' = InsertAt([regions EXCEPT ![it].size = FirstSize], it,
                           MemoryRegion(AfterUnmapped, RestSize, SecondHost))
    /\ it' = it + 1
    /\ UNCHANGED <<hv, status, pc, unmapped>>

\* The iterator has reached the end and UnmapGuestMemory returns.
EndSubtract ==
    /\ pc = "subtract" /\ it > Len(regions)
    /\ pc' = "idle" /\ it' = 1 /\ unmapped' = NoRange
    /\ status' = "OK"
    /\ UNCHANGED <<regions, hv>>

SubtractMemoryRange == EraseRegion \/ TrimEnd \/ TrimStart \/ SplitRegion \/ EndSubtract

-----------------------------------------------------------------------------

Next ==
    \/ \E base \in Bases, size \in Sizes, host \in Hosts :
          \/ RejectMap(base, size, host)
          \/ MapGuestMemory(base, size, host)
          \/ FailMap(base, size, host)
    \/ \E base \in Bases, size \in Sizes :
          \/ RejectUnmap(base, size)
          \/ UnmapGuestMemory(base, size)
          \/ FailUnmap(base, size)
    \/ SubtractMemoryRange

Spec == Init /\ [][Next]_vars /\ WF_vars(SubtractMemoryRange)

-----------------------------------------------------------------------------
(* MemRead and MemWrite: the host range an access of `size' bytes at paddr  *)
(* is made to.  The regions are searched from the most recent; one that     *)
(* holds the whole range answers, or, if the sum wrapped and the size is    *)
(* larger than the region, only reduces the size.  NotMapped: false.        *)

\* Mutant: the oldest region that holds the range answers.
MemAccess_Forward(paddr, size) ==
    LET i == SelectInSeq(regions, LAMBDA r : /\ paddr >= r.baseAddress
                                             /\ paddr + size <= r.baseAddress + r.size)
    IN  IF i = 0 THEN NotMapped ELSE HostOf(regions[i], paddr)

\* Mutant: the end of the range is not compared with the region's.
MemAccess_StartOnly(paddr, size) ==
    LET i == SelectLastInSeq(regions, LAMBDA r : Covers(r, paddr))
    IN  IF i = 0 THEN NotMapped ELSE HostOf(regions[i], paddr)

MemAccess(paddr, size) ==
    LET finalPAddr == Final(paddr, size)
        Holds(r) == /\ paddr >= r.baseAddress
                    /\ finalPAddr <= Final(r.baseAddress, r.size)
        scan[i \in 0 .. Len(regions)] == [left \in Addr |->
            IF i = 0 THEN NotMapped
            ELSE IF ~Holds(regions[i]) THEN scan[i - 1][left]
            ELSE IF left <= regions[i].size THEN HostOf(regions[i], paddr)
            ELSE scan[i - 1][left - regions[i].size]]
    IN  scan[Len(regions)][size]

\* Mutant: the region's end is taken as inclusive.
GetMemoryRegion_Inclusive(address) ==
    SelectInSeq(regions, LAMBDA r : /\ address >= r.baseAddress
                                    /\ address <= r.baseAddress + r.size)

\* GetMemoryRegion: the index of the first region that holds the address.
GetMemoryRegion(address) ==
    SelectInSeq(regions, LAMBDA r : /\ address >= r.baseAddress
                                    /\ address <= Final(r.baseAddress, r.size))

-----------------------------------------------------------------------------
(* Properties *)

\* Type correctness: every region is a non-empty block of guest addresses.
TypeOK ==
    /\ regions \in Seq(Region)
    /\ \A i \in 1 .. Len(regions) :
          /\ regions[i].size > 0
          /\ regions[i].baseAddress + regions[i].size <= GpaLimit
    /\ hv \in [Gpa -> Addr \cup {NotMapped}]
    /\ status \in {"OK", "MisalignedHostMemory", "MisalignedAddress", "EmptyRange",
                   "MisalignedSize", "Unsupported", "OutOfBounds"} \cup ImplErrors
    /\ pc \in {"idle", "subtract"}
    /\ it \in 1 .. Len(regions) + 1
    /\ unmapped \in [baseAddress : Addr, size : Addr]

\* Memory the guest still has is never forgotten: each guest address the
\* hypervisor backs lies in some region that puts it at the same host address,
\* however often ranges around it were unmapped, cut and moved by
\* SubtractMemoryRange.
BackedMemoryIsRecorded ==
    \A a \in Gpa : hv[a] # NotMapped =>
        \E i \in 1 .. Len(regions) :
            Covers(regions[i], a) /\ HostOf(regions[i], a) = hv[a]

\* The host never reaches memory that was just unmapped: when SubtractMemoryRange
\* returns, no region meets the unmapped range.
UnmapForgets ==
    [][pc = "subtract" /\ pc' = "idle" =>
         \A i \in 1 .. Len(regions') :
            \A a \in RangeOf(unmapped.baseAddress, unmapped.size) :
                ~Covers(regions'[i], a)]_vars

\* SubtractMemoryRange returns, although it inserts into and erases from the
\* vector it walks.
SubtractTerminates == pc = "subtract" ~> pc = "idle"

\* The host and the guest see the same memory: an access MemRead or MemWrite
\* makes for [paddr, paddr + size) goes, byte for byte, to the host addresses
\* that the hypervisor backs the range with, and fails if it backs none of it.
AccessAgrees(paddr, size) ==
    LET host == MemAccess(paddr, size) IN
        \/ host = NotMapped
        \/ \A i \in 0 .. size - 1 : hv[paddr + i] = Plus(host, i)

\* A guest address was not mapped again over an older mapping.
CoveredOnce(a) ==
    \A i, j \in 1 .. Len(regions) : Covers(regions[i], a) /\ Covers(regions[j], a) => i = j

\* ... for accesses of any extent in which no page was mapped twice (vm.cpp:203-204:
\* copy from the regions that contain the range), whatever was mapped around it.
AccessMatchesGuest ==
    pc = "idle" => \A paddr \in Gpa : \A size \in 1 .. GpaLimit - paddr :
                      (\A a \in RangeOf(paddr, size) : CoveredOnce(a))
                          => AccessAgrees(paddr, size)

\* ... and for single bytes, mapped twice or not, where MemRead must also find what
\* the guest has (vm.cpp:205-206: the most recent mappings take precedence).
ByteAccessMatchesGuest ==
    pc = "idle" => \A paddr \in Gpa : MemAccess(paddr, 1) = hv[paddr]

\* For a page that was not mapped twice GetMemoryRegion, which searches from the
\* oldest region, finds the memory the guest has, as MemRead, which searches from the
\* newest, does.
RegionLookupMatchesGuest ==
    pc = "idle" => \A a \in Gpa : CoveredOnce(a) =>
        LET i == GetMemoryRegion(a) IN
            IF i = 0 THEN hv[a] = NotMapped ELSE HostOf(regions[i], a) = hv[a]

=============================================================================
