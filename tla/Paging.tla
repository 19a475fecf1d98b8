------------------------------- MODULE Paging -------------------------------
(***************************************************************************)
(* VirtualProcessor::LinearToPhysical (core/src/vp/vp.cpp): the walk of    *)
(* the guest's page tables in 32-bit, PAE and 4-level paging.              *)
(*                                                                         *)
(* Each entry is read from guest memory by a step of its own.  Another     *)
(* virtual processor may write the tables between two reads, so a read     *)
(* returns any entry, and fails where the host has no memory.              *)
(*                                                                         *)
(* Bit fields are numbers: a mask of n bits is % 2^n, a shift by n bits is *)
(* \div or * 2^n, and the widths are constants, so that TLC can use small  *)
(* ones.  `address' is the page frame number of an entry, the field the    *)
(* large-page views of the entry overlay.                                  *)
(***************************************************************************)
EXTENDS Integers, Sequences

CONSTANTS
    EntrySize, Entries,         \* PAE and 4-level: 8 bytes, 512 to a table
    EntrySize32, Entries32,     \* 32-bit: 4 bytes, 1024 to a table
    TopEntries,                 \* PAE: the 4 PDPTEs
    HighSize,                   \* 2^8: PDE32.large.addrHigh
    Frames,                     \* 2^40: frame numbers of PAE and 4-level paging
    LinearSize,                 \* 2^64
    LinearAddresses,            \* the linear addresses translated
    FrameNumbers,               \* the frame numbers in entries
    CR3s,                       \* CR3, in units of the PDPT's 32 bytes
    RegsMayFail                 \* RegRead may fail

PageSize == EntrySize * Entries
PdptSize == TopEntries * EntrySize

\* Physical addresses of 32-bit paging are as wide as linear ones.
Frames32 == Entries32 * Entries32
Linear32 == Frames32 * PageSize

ASSUME WidthAssumption ==
    /\ {EntrySize, Entries, EntrySize32, Entries32, TopEntries, HighSize, Frames,
        LinearSize} \subseteq Nat \ {0}
    /\ EntrySize32 * Entries32 = PageSize
    /\ Entries % TopEntries = 0 /\ Frames % (Entries * Entries) = 0
    /\ TopEntries * Entries * Entries * PageSize = Linear32
    /\ RegsMayFail \in BOOLEAN

ASSUME ValueAssumption ==
    /\ LinearAddresses \subseteq 0 .. LinearSize - 1
    /\ FrameNumbers \subseteq 0 .. Frames - 1 /\ CR3s \subseteq Nat

VARIABLES
    regs,       \* CR0.PG, CR4.PAE, CR4.PSE, EFER.LME and CR3
    laddr,      \* the argument
    pc,         \* "idle", "walk" inside LinearToPhysical..., "done" when it returns
    mode,       \* the paging mode LinearToPhysical took
    level,      \* the level of the next entry, 1 at the top
    table,      \* the frame number of its table, or for the PDPT of PAE CR3 >> 5
    reads,      \* history: the entries read
    result      \* *paddr and true, or NoAddress and false

vars == <<regs, laddr, pc, mode, level, table, reads, result>>

NoAddress == -1

\* The other bits of an entry that is not valid do not matter.
Entry == [valid : {TRUE}, large : BOOLEAN, address : FrameNumbers]
            \cup [valid : {FALSE}, large : {FALSE}, address : {0}]
Registers == [pg : BOOLEAN, pae : BOOLEAN, pse : BOOLEAN, lme : BOOLEAN, cr3 : CR3s]

-----------------------------------------------------------------------------
(* The code's address arithmetic *)

\* The low bits of linAddr under the low bits of tableAddr.
BuildAddress(linAddr, tableAddr, linAddrSize, tableSize) ==
    (tableAddr % tableSize) * linAddrSize + (linAddr % linAddrSize)

Levels(m) == CASE m = "ThirtyTwoBit" -> 2 [] m = "PAE" -> 3 [] m = "FourLevel" -> 4

\* Mutant: PDPT and page directory are indexed by the same bits.
EntryOffset_SameBits(m, l, n) ==
    CASE m = "ThirtyTwoBit" /\ n = 1 -> (l \div (PageSize * Entries32)) * EntrySize32
      [] m = "ThirtyTwoBit" /\ n = 2 -> (l \div PageSize) * EntrySize32
      [] m = "PAE" /\ n = 2          -> l - (l % EntrySize)
      [] m = "FourLevel" /\ n = 1    -> (l \div (PageSize * Entries * Entries * Entries)) * EntrySize
      [] n = Levels(m)               -> (l \div PageSize) * EntrySize
      [] OTHER                       -> (l \div (PageSize * Entries * Entries)) * EntrySize

\* GetEntry's linAddr, before it is masked: the index bits at the bottom.  The second
\* level of PAE takes the low bits of the address as they are (vp.cpp:297).
EntryOffset(m, l, n) ==
    CASE m = "ThirtyTwoBit" /\ n = 1 -> (l \div (PageSize * Entries32)) * EntrySize32
      [] m = "ThirtyTwoBit" /\ n = 2 -> (l \div PageSize) * EntrySize32
      [] m = "PAE" /\ n = 1          -> (l \div (PageSize * Entries * Entries)) * EntrySize
      [] m = "PAE" /\ n = 2          -> l - (l % EntrySize)
      [] m = "FourLevel" /\ n = 1    -> (l \div (PageSize * Entries * Entries * Entries)) * EntrySize
      [] m = "FourLevel" /\ n = 2    -> (l \div (PageSize * Entries * Entries)) * EntrySize
      [] m = "FourLevel" /\ n = 3    -> (l \div (PageSize * Entries)) * EntrySize
      [] OTHER                       -> (l \div PageSize) * EntrySize

\* GetEntry's entryAddr.
EntryAddress(m, l, n, t) ==
    CASE m = "ThirtyTwoBit" ->
             BuildAddress(EntryOffset(m, l, n), t, PageSize, Frames32)
      [] m = "PAE" /\ n = 1 ->
             BuildAddress(EntryOffset(m, l, n), t, PdptSize, Linear32 \div PdptSize)
      [] OTHER ->
             BuildAddress(EntryOffset(m, l, n), t, PageSize, Frames)

\* The levels whose entries may map a large page.
MapsLargePage(m, n, e) ==
    /\ e.large
    /\ \/ m = "ThirtyTwoBit" /\ n = 1 /\ regs.pse
       \/ m = "PAE" /\ n = 2
       \/ m = "FourLevel" /\ n \in {2, 3}

\* The pages of a large page of PAE and 4-level paging: 2 MiB or 1 GiB.
LargePages(m, n) == IF m = "FourLevel" /\ n = 2 THEN Entries * Entries ELSE Entries

\* Mutant: the frame number is taken for the large page's number.
LargeAddress_Unshifted(m, l, n, e) ==
    BuildAddress(l, e.address, PageSize * LargePages(m, n), Frames \div LargePages(m, n))

\* The physical address in a large page: a PDE of 32-bit paging holds its high bits
\* apart, below the low ones.
LargeAddress(m, l, n, e) ==
    IF m = "ThirtyTwoBit"
    THEN LET addrLow  == e.address \div Entries32
             addrHigh == (e.address \div 2) % HighSize
         IN  BuildAddress(l, addrHigh * Entries32 + addrLow, PageSize * Entries32,
                          HighSize * Entries32)
    ELSE BuildAddress(l, e.address \div LargePages(m, n), PageSize * LargePages(m, n),
                      Frames \div LargePages(m, n))

\* Mutant: the address is cut to the index of an entry.
PageAddress_Cut(m, l, e) == BuildAddress(l, e.address * Entries, EntrySize, Frames * Entries)

PageAddress(m, l, e) ==
    BuildAddress(l, e.address, PageSize, IF m = "ThirtyTwoBit" THEN Frames32 ELSE Frames)

-----------------------------------------------------------------------------

\* LinearToPhysical: the mode from CR0.PG, CR4.PAE and EFER.LME.
PagingMode ==
    IF ~regs.pg THEN "None"
    ELSE IF ~regs.pae THEN "ThirtyTwoBit"
    ELSE IF ~regs.lme THEN "PAE"
    ELSE "FourLevel"

\* CR3 as each mode takes it: in pages, or for PAE in PDPTs.
TopTable(m) == IF m = "PAE" THEN regs.cr3 ELSE regs.cr3 \div (PageSize \div PdptSize)

\* Linear addresses are 32 bits wide except in 4-level paging.
Truncated(m, l) == IF m = "FourLevel" THEN l ELSE l % Linear32

Init ==
    /\ regs \in Registers
    /\ laddr = 0 /\ pc = "idle" /\ mode = "None" /\ level = 1 /\ table = 0
    /\ reads = << >> /\ result = NoAddress

\* LinearToPhysical, up to the first entry.
LinearToPhysical(l) ==
    /\ pc = "idle"
    /\ laddr' = l
    /\ mode' = PagingMode
    /\ IF PagingMode = "None"
       THEN /\ pc' = "done" /\ result' = l % Linear32
            /\ UNCHANGED <<level, table>>
       ELSE /\ pc' = "walk" /\ level' = 1 /\ table' = TopTable(PagingMode)
            /\ UNCHANGED result
    /\ UNCHANGED <<regs, reads>>

\* RegRead fails.
FailRegisters(l) ==
    /\ pc = "idle" /\ RegsMayFail
    /\ laddr' = l /\ pc' = "done"
    /\ UNCHANGED <<regs, mode, level, table, reads, result>>

Linear == Truncated(mode, laddr)

\* GetEntry, and what follows it: the walk fails, ends or goes down.
GetEntry(e) ==
    /\ pc = "walk"
    /\ mode = "ThirtyTwoBit" => e.address < Frames32    \* a field of 20 bits
    /\ reads' = Append(reads, [at |-> EntryAddress(mode, Linear, level, table), entry |-> e])
    /\ \/ /\ ~e.valid
          /\ pc' = "done" /\ result' = NoAddress
          /\ UNCHANGED <<level, table>>
       \/ /\ e.valid /\ MapsLargePage(mode, level, e)
          /\ pc' = "done" /\ result' = LargeAddress(mode, Linear, level, e)
          /\ UNCHANGED <<level, table>>
       \/ /\ e.valid /\ ~MapsLargePage(mode, level, e) /\ level = Levels(mode)
          /\ pc' = "done" /\ result' = PageAddress(mode, Linear, e)
          /\ UNCHANGED <<level, table>>
       \/ /\ e.valid /\ ~MapsLargePage(mode, level, e) /\ level < Levels(mode)
          /\ level' = level + 1 /\ table' = e.address
          /\ UNCHANGED <<pc, result>>
    /\ UNCHANGED <<regs, laddr, mode>>

\* MemRead finds no memory at the entry's address.
FailEntry ==
    /\ pc = "walk"
    /\ pc' = "done" /\ result' = NoAddress
    /\ UNCHANGED <<regs, laddr, mode, level, table, reads>>

\* LinearToPhysical returns.
Return ==
    /\ pc = "done"
    /\ pc' = "idle"
    /\ laddr' = 0 /\ mode' = "None" /\ level' = 1 /\ table' = 0
    /\ reads' = << >> /\ result' = NoAddress
    /\ UNCHANGED regs

\* The guest runs between two calls and changes its control registers (external).
GuestRuns ==
    /\ pc = "idle"
    /\ regs' \in Registers
    /\ UNCHANGED <<laddr, pc, mode, level, table, reads, result>>

Next ==
    \/ \E l \in LinearAddresses : LinearToPhysical(l) \/ FailRegisters(l)
    \/ \E e \in Entry : GetEntry(e)
    \/ FailEntry \/ Return \/ GuestRuns

Spec == Init /\ [][Next]_vars

-----------------------------------------------------------------------------
(* The architecture's walk, from the memory an entry of each level maps *)

Span(m, n) ==
    LET slots == IF m = "ThirtyTwoBit" THEN Entries32 ELSE Entries
        below == Levels(m) - n
    IN  PageSize * (CASE below = 0 -> 1 [] below = 1 -> slots [] below = 2 -> slots * slots
                      [] OTHER -> slots * slots * slots)

Slots(m, n) ==
    IF m = "ThirtyTwoBit" THEN Entries32
    ELSE IF m = "PAE" /\ n = 1 THEN TopEntries ELSE Entries

\* The bytes [t, ...) of the n-th table: CR3, or the entry above.
TableBase(n) ==
    IF n > 1 THEN reads[n - 1].entry.address * PageSize
    ELSE IF mode = "PAE" THEN (regs.cr3 * PdptSize) % Linear32
    ELSE LET base == (regs.cr3 * PdptSize) - ((regs.cr3 * PdptSize) % PageSize)
         IN  base % (PageSize * (IF mode = "ThirtyTwoBit" THEN Frames32 ELSE Frames))

\* The entry the architecture reads at level n: of that table, the one whose Span
\* holds the linear address.
ArchEntryAddress(n) ==
    TableBase(n) + ((laddr \div Span(mode, n)) % Slots(mode, n))
                     * (IF mode = "ThirtyTwoBit" THEN EntrySize32 ELSE EntrySize)

\* The physical address in the block of memory that an entry of level n maps.
ArchAddress(n, e) ==
    LET span == Span(mode, n)
        base == e.address * PageSize
    IN  IF mode = "ThirtyTwoBit" /\ n = 1
        THEN ((e.address \div 2) % HighSize) * Linear32 + (base - (base % span)) + (laddr % span)
        ELSE (base - (base % span)) + (laddr % span)

-----------------------------------------------------------------------------
(* Properties *)

\* Every entry GetEntry reads is the one the architecture's walk reads there (vp.hpp:176-178,
\* "Translation is performed according to the specifications"), whatever another processor
\* writes in between; except for the second level of PAE, whose index comes from other bits.
WalkIsArchitecturalButPAE ==
    \A i \in 1 .. Len(reads) :
        ~(mode = "PAE" /\ i = 2) => reads[i].at = ArchEntryAddress(i)

\* The address LinearToPhysical returns is the one that the last entry maps the linear
\* address to, whatever the page size, and every entry on the way was valid.
ResultIsArchitectural ==
    pc = "done" /\ reads # << >> =>
        LET n == Len(reads) IN
        result # NoAddress =>
            /\ \A i \in 1 .. n : reads[i].entry.valid
            /\ result = ArchAddress(n, reads[n].entry)

\* A translation keeps the offset in the page, which LMemRead and LMemWrite rely on when
\* they use one translation for all bytes of a page.
PageOffsetKept == result # NoAddress => result % PageSize = laddr % PageSize

=============================================================================
