--------------------------- MODULE PagingProofs ---------------------------
(* LinearToPhysical walks the tables of the guest as the architecture does   *)
(* (except at the second level of PAE), returns the address that the last    *)
(* entry maps, and keeps the offset in the page: for every width of the      *)
(* fields, every guest and every page table.                                 *)
EXTENDS Paging, NumberFacts, TLAPS

-----------------------------------------------------------------------------
(* Addresses *)

\* The sizes are positive numbers; a table of PAE or 4-level paging is a number of PDPTs,
\* and all frames are a number of the largest pages.
LEMMA Sizes ==
    /\ EntrySize \in Nat \ {0} /\ Entries \in Nat \ {0} /\ PageSize \in Nat \ {0}
    /\ EntrySize32 \in Nat \ {0} /\ Entries32 \in Nat \ {0} /\ Frames32 \in Nat \ {0}
    /\ TopEntries \in Nat \ {0} /\ PdptSize \in Nat \ {0} /\ Linear32 \in Nat \ {0}
    /\ HighSize \in Nat \ {0} /\ Frames \in Nat \ {0}
    /\ Entries * Entries \in Nat \ {0} /\ Entries <= Frames /\ Entries * Entries <= Frames
PROOF
  <1>1. /\ EntrySize \in Nat \ {0} /\ Entries \in Nat \ {0} /\ Entries32 \in Nat \ {0}
        /\ EntrySize32 \in Nat \ {0} /\ TopEntries \in Nat \ {0}
        /\ HighSize \in Nat \ {0} /\ Frames \in Nat \ {0}
        /\ Frames % (Entries * Entries) = 0
    BY WidthAssumption
  <1>2. Entries * Entries \in Nat \ {0} /\ Entries <= Entries * Entries
    BY <1>1
  <1>3. PageSize \in Nat \ {0}
    BY <1>1 DEF PageSize
  <1>4. Frames32 \in Nat \ {0}
    BY <1>1 DEF Frames32
  <1>5. PdptSize \in Nat \ {0}
    BY <1>1 DEF PdptSize
  <1>6. Linear32 \in Nat \ {0}
    BY <1>3, <1>4 DEF Linear32
  <1>7. Entries * Entries <= Frames
    <2> DEFINE s == Entries * Entries
    <2>1. s \in Nat \ {0} /\ Frames % s = 0
      BY <1>1, <1>2
    <2> HIDE DEF s
    <2>2. Frames < s => Frames % s = Frames
      <3>1. ASSUME Frames < s PROVE Frames \in 0 .. s - 1
        BY <1>1, <2>1, <3>1
      <3>2. QED
        BY <2>1, <3>1, RemainderBelow
    <2>3. ~(Frames < s)
      BY <1>1, <2>1, <2>2
    <2>4. QED
      BY <1>1, <2>1, <2>3 DEF s
  <1>8. QED
    BY <1>1, <1>2, <1>3, <1>4, <1>5, <1>6, <1>7

\* A number without remainder is a multiple.
LEMMA Multiple ==
    ASSUME NEW p \in Nat \ {0}, NEW a \in Nat \ {0}, a % p = 0
    PROVE  a \div p \in Nat \ {0} /\ a = (a \div p) * p
PROOF
  <1> DEFINE q == a \div p
  <1>0. a \in Int
    OBVIOUS
  <1>1. q \in Int /\ a = q * p + (a % p)
    BY <1>0, Division, Zenon
  <1> HIDE DEF q
  <1>2. a = q * p
    <2>1. q * p \in Int
      BY <1>1
    <2>2. QED
      BY <1>1, <2>1
  <1>3. q >= 1
    <2>1. CASE q <= 0
      <3>1. (-q) * p >= 0 /\ (-q) * p = -(q * p)
        BY <1>1, <2>1
      <3>2. QED
        BY <1>1, <1>2, <3>1
    <2>2. QED
      BY <1>1, <2>1
  <1>4. QED
    BY <1>1, <1>2, <1>3 DEF q

\* BuildAddress with a linear part of whole pages keeps the offset in the page.
LEMMA BuildAddressOffset ==
    ASSUME NEW l \in Nat, NEW t \in Nat, NEW pages \in Nat \ {0}, NEW size \in Nat \ {0}
    PROVE  BuildAddress(l, t, PageSize * pages, size) % PageSize = l % PageSize
PROOF
  <1> DEFINE p == PageSize
  <1> DEFINE low == l % (p * pages)
  <1> DEFINE high == t % size
  <1>1. p \in Nat \ {0} /\ p * pages \in Nat \ {0}
    BY Sizes
  <1>2. low \in Int /\ high \in Int
    BY <1>1, Division
  <1>3. low % p = l % p
    <2> DEFINE m == p * pages
    <2>1. m \in Nat \ {0} /\ m = p * pages /\ l \in Int
      BY <1>1
    <2> HIDE DEF m
    <2>2. (l % m) % p = l % p
      BY <1>1, <2>1, RemainderTwice
    <2>3. QED
      BY <2>2 DEF m
  <1>4. high * (p * pages) = (high * pages) * p /\ high * pages \in Int
    BY <1>1, <1>2
  <1>5. (low + (high * pages) * p) % p = low % p
    BY <1>1, <1>2, <1>4, RemainderShift
  <1>6. high * (p * pages) + low = low + (high * pages) * p
    BY <1>1, <1>2, <1>4
  <1>7. QED
    BY <1>3, <1>5, <1>6 DEF BuildAddress

\* Cutting a linear address to 32 bits keeps the offset in the page.
LEMMA TruncatedOffset ==
    ASSUME NEW m, NEW l \in Nat
    PROVE  Truncated(m, l) \in Nat /\ Truncated(m, l) % PageSize = l % PageSize
PROOF
  <1>1. Linear32 = PageSize * Frames32 /\ Linear32 \in Nat \ {0}
    BY Sizes DEF Linear32
  <1>2. l % Linear32 \in Nat
    BY <1>1, Division
  <1>3. (l % Linear32) % PageSize = l % PageSize
    <2>1. l \in Int
      OBVIOUS
    <2>2. PageSize \in Nat \ {0} /\ Frames32 \in Nat \ {0}
      BY Sizes
    <2> DEFINE z == Linear32
    <2>3. z = PageSize * Frames32 /\ z \in Nat \ {0}
      BY <1>1
    <2> HIDE DEF z
    <2>4. (l % z) % PageSize = l % PageSize
      BY ONLY <2>1, <2>2, <2>3, RemainderTwice
    <2>5. QED
      BY <2>4 DEF z
  <1>4. QED
    BY <1>2, <1>3 DEF Truncated

\* The frame number of an entry is a number.
LEMMA AddressType == \A e \in Entry : e.address \in Nat
PROOF
  <1>1. FrameNumbers \subseteq Nat
    BY ValueAssumption, Sizes
  <1>2. \A e \in [valid : {TRUE}, large : BOOLEAN, address : FrameNumbers] : e.address \in Nat
    BY <1>1
  <1>3. \A e \in [valid : {FALSE}, large : {FALSE}, address : {0}] : e.address \in Nat
    OBVIOUS
  <1>4. QED
    BY <1>2, <1>3 DEF Entry

\* The address in a page of 4 KiB.
LEMMA PageAddressOffset ==
    ASSUME NEW m, NEW l \in Nat, NEW e \in Entry
    PROVE  PageAddress(m, l, e) % PageSize = l % PageSize
PROOF
  <1>1. e.address \in Nat
    BY AddressType
  <1>2. PageSize * 1 = PageSize
    BY Sizes
  <1>3. (IF m = "ThirtyTwoBit" THEN Frames32 ELSE Frames) \in Nat \ {0}
    BY Sizes
  <1>4. QED
    BY <1>1, <1>2, <1>3, BuildAddressOffset DEF PageAddress

\* The address in a large page.
LEMMA LargeAddressOffset ==
    ASSUME NEW m, NEW n, NEW l \in Nat, NEW e \in Entry
    PROVE  LargeAddress(m, l, n, e) % PageSize = l % PageSize
PROOF
  <1>1. e.address \in Nat
    BY AddressType
  <1>2. CASE m = "ThirtyTwoBit"
    <2> DEFINE high == (e.address \div 2) % HighSize
    <2> DEFINE low == e.address \div Entries32
    <2>1. high \in Nat
      <3>1. e.address \div 2 \in Int
        BY <1>1
      <3>2. high \in 0 .. HighSize - 1
        BY <3>1, Sizes, Division, Zenon
      <3>3. QED
        BY <3>2, Sizes
    <2>2. low \in Nat
      BY <1>1, Sizes
    <2>3. high * Entries32 + low \in Nat /\ HighSize * Entries32 \in Nat \ {0}
      BY <2>1, <2>2, Sizes
    <2>4. QED
      BY <1>2, <2>3, Sizes, BuildAddressOffset DEF LargeAddress
  <1>3. CASE m # "ThirtyTwoBit"
    <2> DEFINE pages == LargePages(m, n)
    <2>1. pages \in Nat \ {0} /\ pages <= Frames
      BY Sizes DEF LargePages
    <2>2. Frames \div pages \in Nat \ {0} /\ e.address \div pages \in Nat
      BY <2>1, <1>1, Sizes
    <2>3. QED
      BY <1>3, <2>1, <2>2, BuildAddressOffset DEF LargeAddress
  <1>4. QED
    BY <1>2, <1>3

-----------------------------------------------------------------------------
(* The entries that are read *)

\* Tables and linear addresses as numbers of their parts: the levels of each mode use
\* every bit of the linear address once.
LEMMA Products ==
    /\ PageSize = EntrySize * Entries /\ PageSize = EntrySize32 * Entries32
    /\ PdptSize = EntrySize * TopEntries
    /\ Linear32 = (1 * Entries32) * (PageSize * Entries32)
    /\ Linear32 = (Entries32 * Entries32) * PageSize
    /\ Linear32 = (1 * TopEntries) * (PageSize * (Entries * Entries))
    /\ Linear32 = ((TopEntries * Entries) * Entries) * PageSize
    /\ Linear32 = (PageSize * Entries) * (TopEntries * Entries)
    /\ PageSize \div PdptSize \in Nat \ {0} /\ PageSize = PdptSize * (PageSize \div PdptSize)
    /\ Linear32 \div PdptSize \in Nat \ {0} /\ Linear32 = PdptSize * (Linear32 \div PdptSize)
PROOF
  <1>1. PageSize = EntrySize * Entries /\ PageSize = EntrySize32 * Entries32
    BY WidthAssumption DEF PageSize
  <1>2. PdptSize = EntrySize * TopEntries
    BY Sizes DEF PdptSize
  <1>3. /\ Linear32 = (1 * Entries32) * (PageSize * Entries32)
        /\ Linear32 = (Entries32 * Entries32) * PageSize
    BY Sizes DEF Linear32, Frames32
  <1>4. Linear32 = TopEntries * Entries * Entries * PageSize
    BY WidthAssumption
  <1>5. /\ Linear32 = (1 * TopEntries) * (PageSize * (Entries * Entries))
        /\ Linear32 = ((TopEntries * Entries) * Entries) * PageSize
        /\ Linear32 = (PageSize * Entries) * (TopEntries * Entries)
    BY <1>4, Sizes
  <1>6. PICK k \in Nat \ {0} : Entries = k * TopEntries
    <2>1. Entries % TopEntries = 0 /\ Entries \in Nat \ {0} /\ TopEntries \in Nat \ {0}
      BY WidthAssumption
    <2>2. QED
      BY <2>1, Multiple
  <1>7. PageSize = k * PdptSize
    BY <1>1, <1>2, <1>6, Sizes
  <1>8. PageSize % PdptSize = 0
    <2>1. 0 \in 0 .. PdptSize - 1 /\ k \in Int /\ k * PdptSize + 0 = PageSize
      BY <1>7, Sizes
    <2>2. (k * PdptSize + 0) % PdptSize = 0
      BY <2>1, Sizes, RemainderUnique
    <2>3. QED
      BY <2>1, <2>2
  <1>9. PageSize \div PdptSize \in Nat \ {0} /\ PageSize = (PageSize \div PdptSize) * PdptSize
    BY <1>8, Sizes, Multiple
  <1>10. Linear32 % PdptSize = 0
    <2> DEFINE j == Frames32 * k
    <2>1. j \in Int
      BY Sizes
    <2>2. Linear32 = j * PdptSize
      BY <1>7, Sizes DEF Linear32
    <2>3. 0 \in 0 .. PdptSize - 1
      BY Sizes
    <2> HIDE DEF j
    <2>4. (j * PdptSize + 0) % PdptSize = 0
      BY <2>1, <2>3, Sizes, RemainderUnique
    <2>5. j * PdptSize + 0 = Linear32
      BY <2>2, Sizes
    <2>6. QED
      BY <2>4, <2>5
  <1>11. Linear32 \div PdptSize \in Nat \ {0} /\ Linear32 = (Linear32 \div PdptSize) * PdptSize
    BY <1>10, Sizes, Multiple
  <1>12. /\ PageSize = PdptSize * (PageSize \div PdptSize)
         /\ Linear32 = PdptSize * (Linear32 \div PdptSize)
    <2>1. \A q \in Nat : q * PdptSize = PdptSize * q
      BY Sizes
    <2>2. QED
      BY <1>9, <1>11, <2>1
  <1>13. QED
    BY <1>1, <1>2, <1>3, <1>5, <1>9, <1>11, <1>12

\* BuildAddress builds a number.
LEMMA BuildAddressType ==
    ASSUME NEW l \in Nat, NEW t \in Nat, NEW size \in Nat \ {0}, NEW frames \in Nat \ {0}
    PROVE  BuildAddress(l, t, size, frames) \in Nat
PROOF
  <1>1. l % size \in Nat /\ t % frames \in Nat
    OBVIOUS
  <1>2. (t % frames) * size \in Nat
    BY <1>1
  <1>3. QED
    BY <1>1, <1>2 DEF BuildAddress

\* The three modes that walk tables, and their levels.
WalkModes == {"ThirtyTwoBit", "PAE", "FourLevel"}

\* The memory that an entry of each level maps.
LEMMA Spans ==
    /\ Levels("ThirtyTwoBit") = 2 /\ Levels("PAE") = 3 /\ Levels("FourLevel") = 4
    /\ Span("ThirtyTwoBit", 1) = PageSize * Entries32 /\ Span("ThirtyTwoBit", 2) = PageSize
    /\ Span("PAE", 1) = PageSize * (Entries * Entries)
    /\ Span("PAE", 2) = PageSize * Entries /\ Span("PAE", 3) = PageSize
    /\ Span("FourLevel", 1) = PageSize * (Entries * Entries * Entries)
    /\ Span("FourLevel", 2) = PageSize * (Entries * Entries)
    /\ Span("FourLevel", 3) = PageSize * Entries /\ Span("FourLevel", 4) = PageSize
PROOF
  <1>1. Levels("ThirtyTwoBit") = 2 /\ Levels("PAE") = 3 /\ Levels("FourLevel") = 4
    BY DEF Levels
  <1>2. PageSize * 1 = PageSize
    BY Sizes
  <1>3. Span("ThirtyTwoBit", 1) = PageSize * Entries32 /\ Span("ThirtyTwoBit", 2) = PageSize
    BY <1>1, <1>2 DEF Span
  <1>4. /\ Span("PAE", 1) = PageSize * (Entries * Entries)
        /\ Span("PAE", 2) = PageSize * Entries /\ Span("PAE", 3) = PageSize
    BY <1>1, <1>2 DEF Span
  <1>5. /\ Span("FourLevel", 1) = PageSize * (Entries * Entries * Entries)
        /\ Span("FourLevel", 2) = PageSize * (Entries * Entries)
        /\ Span("FourLevel", 3) = PageSize * Entries /\ Span("FourLevel", 4) = PageSize
    BY <1>1, <1>2 DEF Span
  <1>6. QED
    BY <1>1, <1>3, <1>4, <1>5

\* The table's bytes as GetEntry takes them: its number, cut to the width of the mode.
TableOf(m, n, t) ==
    IF m = "ThirtyTwoBit" THEN (t % Frames32) * PageSize
    ELSE IF m = "PAE" /\ n = 1 THEN (t % (Linear32 \div PdptSize)) * PdptSize
    ELSE (t % Frames) * PageSize

\* The index of the architecture's entry in its table, in bytes.
IndexOf(m, n, l) ==
    ((l \div Span(m, n)) % Slots(m, n)) * (IF m = "ThirtyTwoBit" THEN EntrySize32 ELSE EntrySize)

\* GetEntry reads the entry with the architecture's index of the table it is given, at
\* every level except the second one of PAE.
LEMMA EntryIsIndexed ==
    ASSUME NEW m \in WalkModes, NEW n \in 1 .. Levels(m), NEW l \in Nat, NEW t \in Nat,
           ~(m = "PAE" /\ n = 2)
    PROVE  EntryAddress(m, Truncated(m, l), n, t) = TableOf(m, n, t) + IndexOf(m, n, l)
PROOF
  <1> DEFINE lin == Truncated(m, l)
  <1>1. lin \in Nat /\ l \in Int
    BY TruncatedOffset
  <1>2. CASE m = "ThirtyTwoBit" /\ n = 1
    <2> DEFINE x == PageSize * Entries32
    <2>1. x \in Nat \ {0} /\ Linear32 = (1 * Entries32) * x
      BY Sizes, Products
    <2>2. lin = l % Linear32
      BY <1>2 DEF Truncated
    <2>3. EntryAddress(m, lin, n, t) = BuildAddress((lin \div x) * EntrySize32, t, PageSize, Frames32)
      BY <1>2 DEF EntryAddress, EntryOffset
    <2>4. IndexOf(m, n, l) = ((l \div x) % Entries32) * EntrySize32
      BY <1>2, Spans DEF IndexOf, Slots
    <2> HIDE DEF x, lin
    <2>5. (lin \div x) % Entries32 = (l \div x) % Entries32
      <3>1. 1 \in Nat \ {0} /\ Entries32 \in Nat \ {0} /\ x \in Nat \ {0}
        BY <2>1, Sizes
      <3>2. ((l % ((1 * Entries32) * x)) \div x) % Entries32 = (l \div x) % Entries32
        BY <1>1, <3>1, DigitOfRemainder, Zenon
      <3>3. QED
        BY <2>1, <2>2, <3>2, Zenon
    <2>6. BuildAddress((lin \div x) * EntrySize32, t, PageSize, Frames32)
            = (t % Frames32) * PageSize + ((lin \div x) % Entries32) * EntrySize32
      <3>1. lin \div x \in Int /\ EntrySize32 \in Nat \ {0} /\ Entries32 \in Nat \ {0}
        BY <2>1, <1>1, Sizes
      <3>2. ((lin \div x) * EntrySize32) % (EntrySize32 * Entries32) = ((lin \div x) % Entries32) * EntrySize32
        BY <3>1, RemainderScaled, Zenon
      <3>3. QED
        BY <3>2, Products DEF BuildAddress
    <2>7. TableOf(m, n, t) = (t % Frames32) * PageSize
      BY <1>2 DEF TableOf
    <2>8. QED
      BY <2>3, <2>4, <2>5, <2>6, <2>7 DEF lin
  <1>3. CASE m = "ThirtyTwoBit" /\ n = 2
    <2>1. PageSize \in Nat \ {0} /\ Linear32 = (Entries32 * Entries32) * PageSize
      BY Sizes, Products
    <2>2. lin = l % Linear32
      BY <1>3 DEF Truncated
    <2>3. EntryAddress(m, lin, n, t)
            = BuildAddress((lin \div PageSize) * EntrySize32, t, PageSize, Frames32)
      BY <1>3 DEF EntryAddress, EntryOffset
    <2>4. IndexOf(m, n, l) = ((l \div PageSize) % Entries32) * EntrySize32
      BY <1>3, Spans DEF IndexOf, Slots
    <2> HIDE DEF lin
    <2>5. (lin \div PageSize) % Entries32 = (l \div PageSize) % Entries32
      <3>1. Entries32 \in Nat \ {0} /\ Entries32 \in Nat \ {0} /\ PageSize \in Nat \ {0}
        BY <2>1, Sizes
      <3>2. ((l % ((Entries32 * Entries32) * PageSize)) \div PageSize) % Entries32 = (l \div PageSize) % Entries32
        BY <1>1, <3>1, DigitOfRemainder, Zenon
      <3>3. QED
        BY <2>1, <2>2, <3>2, Zenon
    <2>6. BuildAddress((lin \div PageSize) * EntrySize32, t, PageSize, Frames32)
            = (t % Frames32) * PageSize + ((lin \div PageSize) % Entries32) * EntrySize32
      <3>1. lin \div PageSize \in Int /\ EntrySize32 \in Nat \ {0} /\ Entries32 \in Nat \ {0}
        BY <2>1, <1>1, Sizes
      <3>2. ((lin \div PageSize) * EntrySize32) % (EntrySize32 * Entries32) = ((lin \div PageSize) % Entries32) * EntrySize32
        BY <3>1, RemainderScaled, Zenon
      <3>3. QED
        BY <3>2, Products DEF BuildAddress
    <2>7. TableOf(m, n, t) = (t % Frames32) * PageSize
      BY <1>3 DEF TableOf
    <2>8. QED
      BY <2>3, <2>4, <2>5, <2>6, <2>7 DEF lin
  <1>4. CASE m = "PAE" /\ n = 1
    <2> DEFINE x == PageSize * (Entries * Entries)
               f == Linear32 \div PdptSize
    <2>1. /\ x \in Nat \ {0} /\ Linear32 = (1 * TopEntries) * x
          /\ PageSize * Entries * Entries = x
      BY Sizes, Products
    <2>2. lin = l % Linear32
      BY <1>4 DEF Truncated
    <2>3. EntryAddress(m, lin, n, t) = BuildAddress((lin \div x) * EntrySize, t, PdptSize, f)
      BY <1>4, <2>1 DEF EntryAddress, EntryOffset
    <2>4. IndexOf(m, n, l) = ((l \div x) % TopEntries) * EntrySize
      BY <1>4, Spans DEF IndexOf, Slots
    <2>5. TableOf(m, n, t) = (t % f) * PdptSize
      BY <1>4 DEF TableOf
    <2>6. f \in Nat \ {0}
      BY Products
    <2> HIDE DEF x, lin, f
    <2>7. (lin \div x) % TopEntries = (l \div x) % TopEntries
      <3>1. 1 \in Nat \ {0} /\ TopEntries \in Nat \ {0} /\ x \in Nat \ {0}
        BY <2>1, Sizes
      <3>2. ((l % ((1 * TopEntries) * x)) \div x) % TopEntries = (l \div x) % TopEntries
        BY <1>1, <3>1, DigitOfRemainder, Zenon
      <3>3. QED
        BY <2>1, <2>2, <3>2, Zenon
    <2>8. BuildAddress((lin \div x) * EntrySize, t, PdptSize, f)
            = (t % f) * PdptSize + ((lin \div x) % TopEntries) * EntrySize
      <3>1. lin \div x \in Int /\ EntrySize \in Nat \ {0} /\ TopEntries \in Nat \ {0}
        BY <2>1, <2>6, <1>1, Sizes
      <3>2. ((lin \div x) * EntrySize) % (EntrySize * TopEntries) = ((lin \div x) % TopEntries) * EntrySize
        BY <3>1, RemainderScaled, Zenon
      <3>3. QED
        BY <3>2, Products DEF BuildAddress
    <2>9. QED
      BY <2>3, <2>4, <2>5, <2>7, <2>8 DEF lin
  <1>5. CASE m = "PAE" /\ n = 3
    <2>1. /\ PageSize \in Nat \ {0} /\ TopEntries * Entries \in Nat \ {0}
          /\ Linear32 = ((TopEntries * Entries) * Entries) * PageSize
      BY Sizes, Products
    <2>2. lin = l % Linear32
      BY <1>5 DEF Truncated
    <2>3. EntryAddress(m, lin, n, t)
            = BuildAddress((lin \div PageSize) * EntrySize, t, PageSize, Frames)
      BY <1>5 DEF EntryAddress, EntryOffset
    <2>4. IndexOf(m, n, l) = ((l \div PageSize) % Entries) * EntrySize
      BY <1>5, Spans DEF IndexOf, Slots
    <2>5. TableOf(m, n, t) = (t % Frames) * PageSize
      BY <1>5 DEF TableOf
    <2> HIDE DEF lin
    <2>6. (lin \div PageSize) % Entries = (l \div PageSize) % Entries
      <3>1. (TopEntries * Entries) \in Nat \ {0} /\ Entries \in Nat \ {0} /\ PageSize \in Nat \ {0}
        BY <2>1, Sizes
      <3>2. ((l % (((TopEntries * Entries) * Entries) * PageSize)) \div PageSize) % Entries = (l \div PageSize) % Entries
        BY <1>1, <3>1, DigitOfRemainder, Zenon
      <3>3. QED
        BY <2>1, <2>2, <3>2, Zenon
    <2>7. BuildAddress((lin \div PageSize) * EntrySize, t, PageSize, Frames)
            = (t % Frames) * PageSize + ((lin \div PageSize) % Entries) * EntrySize
      <3>1. lin \div PageSize \in Int /\ EntrySize \in Nat \ {0} /\ Entries \in Nat \ {0}
        BY <2>1, <1>1, Sizes
      <3>2. ((lin \div PageSize) * EntrySize) % (EntrySize * Entries) = ((lin \div PageSize) % Entries) * EntrySize
        BY <3>1, RemainderScaled, Zenon
      <3>3. QED
        BY <3>2, Products DEF BuildAddress
    <2>8. QED
      BY <2>3, <2>4, <2>5, <2>6, <2>7 DEF lin
  <1>6. CASE m = "FourLevel"
    <2> DEFINE x == Span(m, n)
    <2>1. lin = l /\ TableOf(m, n, t) = (t % Frames) * PageSize
      BY <1>6 DEF Truncated, TableOf
    <2>2. n \in {1, 2, 3, 4}
      BY <1>6, Spans
    <2>3. x \in Nat \ {0}
      <3>1. /\ PageSize * Entries \in Nat \ {0} /\ PageSize * (Entries * Entries) \in Nat \ {0}
            /\ PageSize * (Entries * Entries * Entries) \in Nat \ {0}
        BY Sizes
      <3>2. QED
        BY <1>6, <2>2, <3>1, Spans, Sizes
    <2>4. EntryAddress(m, lin, n, t) = BuildAddress((l \div x) * EntrySize, t, PageSize, Frames)
      <3>1. /\ PageSize * (Entries * Entries * Entries) = PageSize * Entries * Entries * Entries
            /\ PageSize * (Entries * Entries) = PageSize * Entries * Entries
        BY Sizes
      <3>2. EntryOffset(m, l, n) = (l \div x) * EntrySize
        <4>1. CASE n = 1
          BY <1>6, <4>1, <3>1, Spans DEF EntryOffset
        <4>2. CASE n = 2
          BY <1>6, <4>2, <3>1, Spans DEF EntryOffset
        <4>3. CASE n = 3
          BY <1>6, <4>3, Spans DEF EntryOffset
        <4>4. CASE n = 4
          BY <1>6, <4>4, Spans DEF EntryOffset
        <4>5. QED
          BY <2>2, <4>1, <4>2, <4>3, <4>4
      <3>3. QED
        BY <1>6, <2>1, <3>2 DEF EntryAddress
    <2>5. IndexOf(m, n, l) = ((l \div x) % Entries) * EntrySize
      BY <1>6 DEF IndexOf, Slots
    <2> HIDE DEF x, lin
    <2>6. BuildAddress((l \div x) * EntrySize, t, PageSize, Frames)
            = (t % Frames) * PageSize + ((l \div x) % Entries) * EntrySize
      <3>1. l \div x \in Int /\ EntrySize \in Nat \ {0} /\ Entries \in Nat \ {0}
        BY <2>3, <1>1, Sizes
      <3>2. ((l \div x) * EntrySize) % (EntrySize * Entries) = ((l \div x) % Entries) * EntrySize
        BY <3>1, RemainderScaled, Zenon
      <3>3. QED
        BY <3>2, Products DEF BuildAddress
    <2>7. QED
      BY <2>1, <2>4, <2>5, <2>6 DEF lin
  <1>7. (m = "ThirtyTwoBit" => n \in {1, 2}) /\ (m = "PAE" => n \in {1, 3})
    BY Spans
  <1>8. QED
    BY <1>2, <1>3, <1>4, <1>5, <1>6, <1>7 DEF WalkModes

\* CR3 names the top table the architecture takes from it.
LEMMA TopTableIsBase ==
    ASSUME mode \in WalkModes, regs.cr3 \in Nat
    PROVE  TopTable(mode) \in Nat /\ TableOf(mode, 1, TopTable(mode)) = TableBase(1)
PROOF
  <1> DEFINE c == regs.cr3
             q == PageSize \div PdptSize
             f == Linear32 \div PdptSize
             frames == IF mode = "ThirtyTwoBit" THEN Frames32 ELSE Frames
             base == (c * PdptSize) - ((c * PdptSize) % PageSize)
  <1>1. c \in Int /\ q \in Nat \ {0} /\ f \in Nat \ {0} /\ PdptSize \in Nat \ {0}
    BY Products, Sizes
  <1>2. PageSize = PdptSize * q /\ Linear32 = PdptSize * f
    BY Products
  <1>3. c \div q \in Nat /\ frames \in Nat \ {0} /\ PageSize \in Nat \ {0}
    <2>1. c \in Nat
      OBVIOUS
    <2> HIDE DEF c, q
    <2>2. c \div q \in Nat
      BY <1>1, <2>1
    <2>3. QED
      BY <2>2, Sizes
  <1>4. CASE mode = "PAE"
    <2>1. TopTable(mode) = c /\ TableOf(mode, 1, c) = (c % f) * PdptSize
      BY <1>4 DEF TopTable, TableOf
    <2>2. TableBase(1) = (c * PdptSize) % Linear32
      BY <1>4 DEF TableBase
    <2> HIDE DEF c, q, f
    <2>3. (c * PdptSize) % (PdptSize * f) = (c % f) * PdptSize
      BY <1>1, RemainderScaled, Zenon
    <2>4. QED
      BY <1>2, <2>1, <2>2, <2>3 DEF c
  <1>5. CASE mode # "PAE"
    <2>1. TopTable(mode) = c \div q
      BY <1>5 DEF TopTable
    <2>2. TableOf(mode, 1, c \div q) = ((c \div q) % frames) * PageSize
      BY <1>5 DEF TableOf
    <2>3. TableBase(1) = base % (PageSize * frames)
      BY <1>5 DEF TableBase
    <2> HIDE DEF c, q, f, frames
    <2>4. (c * PdptSize) - ((c * PdptSize) % (PdptSize * q)) = (c \div q) * (PdptSize * q)
      BY <1>1, RoundedDown, Zenon
    <2>5. base = (c \div q) * PageSize
      BY <1>2, <2>4
    <2> HIDE DEF base
    <2>6. ((c \div q) * PageSize) % (PageSize * frames) = ((c \div q) % frames) * PageSize
      <3>1. c \div q \in Int
        BY <1>3
      <3>2. QED
        BY <1>3, <3>1, RemainderScaled, Zenon
    <2>7. QED
      BY <1>3, <2>1, <2>2, <2>3, <2>5, <2>6
  <1>6. QED
    BY <1>4, <1>5

\* A frame number of an entry is not cut.
LEMMA FrameIsTable ==
    ASSUME NEW m \in WalkModes, NEW n \in Nat, n > 1, NEW a \in 0 .. Frames - 1,
           m = "ThirtyTwoBit" => a < Frames32
    PROVE  TableOf(m, n, a) = a * PageSize
PROOF
  <1>1. a % Frames = a
    BY Sizes, RemainderBelow
  <1>2. m = "ThirtyTwoBit" => a % Frames32 = a
    <2>1. m = "ThirtyTwoBit" => a \in 0 .. Frames32 - 1
      BY Sizes
    <2>2. QED
      BY <2>1, Sizes, RemainderBelow
  <1>3. QED
    BY <1>1, <1>2 DEF TableOf

\* The frame numbers that entries hold.
LEMMA AddressBound == \A e \in Entry : e.address \in 0 .. Frames - 1
PROOF
  <1>1. FrameNumbers \subseteq 0 .. Frames - 1 /\ 0 \in 0 .. Frames - 1
    BY ValueAssumption, Sizes
  <1>2. \A e \in [valid : {TRUE}, large : BOOLEAN, address : FrameNumbers] :
            e.address \in 0 .. Frames - 1
    BY <1>1
  <1>3. \A e \in [valid : {FALSE}, large : {FALSE}, address : {0}] : e.address \in 0 .. Frames - 1
    BY <1>1
  <1>4. QED
    BY <1>2, <1>3 DEF Entry

\* The address in a page of 4 KiB is the one its entry maps.
LEMMA PageIsArchitectural ==
    ASSUME mode \in WalkModes, laddr \in Nat, NEW e \in Entry,
           mode = "ThirtyTwoBit" => e.address < Frames32
    PROVE  PageAddress(mode, Linear, e) = ArchAddress(Levels(mode), e)
PROOF
  <1> DEFINE a == e.address
             frames == IF mode = "ThirtyTwoBit" THEN Frames32 ELSE Frames
  <1>1. a \in Nat /\ a \in 0 .. frames - 1 /\ frames \in Nat \ {0}
    BY AddressBound, Sizes
  <1>2. Linear % PageSize = laddr % PageSize
    BY TruncatedOffset DEF Linear
  <1>3. Span(mode, Levels(mode)) = PageSize /\ ~(mode = "ThirtyTwoBit" /\ Levels(mode) = 1)
    BY Spans DEF WalkModes
  <1>4. PageAddress(mode, Linear, e) = (a % frames) * PageSize + (laddr % PageSize)
    BY <1>2 DEF PageAddress, BuildAddress
  <1>5. ArchAddress(Levels(mode), e)
          = (a * PageSize - ((a * PageSize) % PageSize)) + (laddr % PageSize)
    BY <1>3 DEF ArchAddress
  <1> HIDE DEF a, frames
  <1>6. a % frames = a
    BY <1>1, RemainderBelow
  <1>7. (a * PageSize) % PageSize = 0 /\ a * PageSize \in Int
    <2>1. PageSize \in Nat \ {0} /\ 0 \in 0 .. PageSize - 1 /\ a \in Int
      BY <1>1, Sizes
    <2>2. (a * PageSize + 0) % PageSize = 0
      BY <2>1, RemainderUnique
    <2>3. a * PageSize + 0 = a * PageSize /\ a * PageSize \in Int
      BY <2>1
    <2>4. QED
      BY <2>2, <2>3
  <1>8. a * PageSize - 0 = a * PageSize
    BY <1>7
  <1>9. QED
    BY <1>4, <1>5, <1>6, <1>7, <1>8

\* The frames are a number of large pages of either size.
LEMMA LargePagesDivide ==
    ASSUME NEW m, NEW n
    PROVE  /\ LargePages(m, n) \in Nat \ {0}
           /\ Frames \div LargePages(m, n) \in Nat \ {0}
           /\ Frames = (Frames \div LargePages(m, n)) * LargePages(m, n)
PROOF
  <1> DEFINE s == Entries * Entries
  <1>1. s \in Nat \ {0} /\ Frames \in Nat \ {0} /\ Entries \in Nat \ {0} /\ Frames % s = 0
    BY Sizes, WidthAssumption
  <1>2. Frames \div s \in Nat \ {0} /\ Frames = (Frames \div s) * s
    <2> HIDE DEF s
    <2>1. QED
      BY <1>1, Multiple
  <1>3. Frames % Entries = 0
    <2> DEFINE q == Frames \div s
               j == q * Entries
    <2>1. q \in Nat /\ Frames = q * s
      BY <1>2
    <2> HIDE DEF q
    <2>2. j \in Int /\ j * Entries + 0 = Frames /\ 0 \in 0 .. Entries - 1
      BY <1>1, <2>1
    <2> HIDE DEF j
    <2>3. (j * Entries + 0) % Entries = 0
      BY <1>1, <2>2, RemainderUnique
    <2>4. QED
      BY <2>2, <2>3
  <1>4. Frames \div Entries \in Nat \ {0} /\ Frames = (Frames \div Entries) * Entries
    BY <1>1, <1>3, Multiple
  <1>5. LargePages(m, n) = s \/ LargePages(m, n) = Entries
    BY DEF LargePages
  <1>6. QED
    BY <1>1, <1>2, <1>4, <1>5

\* The address in a large page of 32-bit paging is the one its entry maps: the high bits
\* of the entry are above those of the frame number.
LEMMA LargeIsArchitectural32 ==
    ASSUME mode = "ThirtyTwoBit", laddr \in Nat, NEW e \in Entry, e.address < Frames32
    PROVE  LargeAddress(mode, Linear, 1, e) = ArchAddress(1, e)
PROOF
  <1> DEFINE a == e.address
             low == a \div Entries32
             high == (a \div 2) % HighSize
             span == PageSize * Entries32
             t == high * Entries32 + low
             size == HighSize * Entries32
  <1>0. a \in Nat /\ a < Entries32 * Entries32
    BY AddressType DEF Frames32
  <1>1. LargeAddress(mode, Linear, 1, e) = (t % size) * span + (Linear % span)
    BY DEF LargeAddress, BuildAddress
  <1>2. ArchAddress(1, e)
          = high * Linear32 + ((a * PageSize) - ((a * PageSize) % span)) + (laddr % span)
    BY Spans DEF ArchAddress
  <1>3. span \in Nat \ {0} /\ size \in Nat \ {0} /\ Linear32 = Entries32 * span
    BY Sizes, Products
  <1>4. Linear % span = laddr % span
    <2>1. Linear = laddr % Linear32
      BY DEF Linear, Truncated
    <2>2. laddr \in Int /\ Entries32 \in Nat \ {0} /\ Linear32 \in Nat \ {0}
          /\ Linear32 = span * Entries32
      BY <1>3, Sizes
    <2> HIDE DEF span
    <2>3. (laddr % Linear32) % span = laddr % span
      BY <1>3, <2>2, RemainderTwice
    <2>4. QED
      BY <2>1, <2>3
  <1>5. low \in 0 .. Entries32 - 1
    <2> HIDE DEF a
    <2>1. Entries32 \in Nat \ {0}
      BY Sizes
    <2>2. QED
      BY <1>0, <2>1, QuotientBelow
  <1>6. high \in 0 .. HighSize - 1
    <2> DEFINE h == a \div 2
    <2>1. h \in Int /\ HighSize \in Nat \ {0}
      BY <1>0, Sizes
    <2> HIDE DEF h, a
    <2>2. h % HighSize \in 0 .. HighSize - 1
      BY <2>1, Division, Zenon
    <2>3. QED
      BY <2>2 DEF h
  <1>7. (a * PageSize) - ((a * PageSize) % span) = low * span
    <2>1. a \in Int /\ PageSize \in Nat \ {0} /\ Entries32 \in Nat \ {0}
      BY <1>0, Sizes
    <2> HIDE DEF a
    <2>2. (a * PageSize) - ((a * PageSize) % (PageSize * Entries32))
            = (a \div Entries32) * (PageSize * Entries32)
      BY <2>1, RoundedDown, Zenon
    <2>3. QED
      BY <2>2
  <1> HIDE DEF a, low, high, span
  <1>8. t \in 0 .. size - 1
    <2>1. high \in Int /\ low \in Int /\ high >= 0 /\ low >= 0 /\ low <= Entries32 - 1
          /\ HighSize - 1 - high >= 0 /\ Entries32 \in Nat \ {0} /\ HighSize \in Nat \ {0}
      BY <1>5, <1>6, Sizes
    <2>2. high * Entries32 \in Nat /\ (HighSize - 1 - high) * Entries32 \in Nat
      BY <2>1
    <2>3. (HighSize - 1 - high) * Entries32 = size - Entries32 - high * Entries32
      BY <2>1
    <2>4. size \in Nat
      BY <1>3
    <2> HIDE DEF size
    <2>5. QED
      BY <2>1, <2>2, <2>3, <2>4
  <1>9. t % size = t
    <2> HIDE DEF t, size
    <2>1. QED
      BY <1>3, <1>8, RemainderBelow
  <1>10. t * span = high * Linear32 + low * span
    <2>1. high \in Int /\ low \in Int /\ Entries32 \in Int /\ span \in Int
      BY <1>3, <1>5, <1>6, Sizes
    <2>2. t * span = high * (Entries32 * span) + low * span
      BY <2>1
    <2>3. QED
      BY <1>3, <2>2
  <1>11. QED
    BY <1>1, <1>2, <1>4, <1>7, <1>9, <1>10

\* The address in a large page is the one its entry maps.
LEMMA LargeIsArchitectural ==
    ASSUME mode \in WalkModes, laddr \in Nat, NEW e \in Entry, NEW n \in Nat,
           MapsLargePage(mode, n, e), mode = "ThirtyTwoBit" => e.address < Frames32
    PROVE  LargeAddress(mode, Linear, n, e) = ArchAddress(n, e)
PROOF
  <1>1. CASE mode = "ThirtyTwoBit"
    BY <1>1, LargeIsArchitectural32 DEF MapsLargePage
  <1>2. CASE mode # "ThirtyTwoBit"
    <2> DEFINE a == e.address
               pages == LargePages(mode, n)
               span == PageSize * pages
               frames == Frames \div pages
    <2>1. \/ mode = "PAE" /\ n = 2
          \/ mode = "FourLevel" /\ n \in {2, 3}
      BY <1>2 DEF MapsLargePage
    <2>2. Span(mode, n) = span
      BY <2>1, Spans DEF LargePages
    <2>3. pages \in Nat \ {0} /\ frames \in Nat \ {0} /\ Frames = frames * pages
      BY LargePagesDivide
    <2>4. a \in Nat /\ a < frames * pages
      BY <2>3, AddressBound, Sizes
    <2>5. LargeAddress(mode, Linear, n, e)
            = ((a \div pages) % frames) * span + (Linear % span)
      BY <1>2 DEF LargeAddress, BuildAddress
    <2>6. ArchAddress(n, e) = (a * PageSize - ((a * PageSize) % span)) + (laddr % span)
      BY <1>2, <2>2 DEF ArchAddress
    <2>7. Linear % span = laddr % span
      <3>1. CASE mode = "FourLevel"
        BY <3>1 DEF Linear, Truncated
      <3>2. CASE mode = "PAE"
        <4>1. pages = Entries /\ Linear = laddr % Linear32
          BY <3>2 DEF LargePages, Linear, Truncated
        <4>2. /\ span \in Nat \ {0} /\ TopEntries * Entries \in Nat \ {0} /\ laddr \in Int
              /\ Linear32 \in Nat \ {0}
          BY <4>1, Sizes
        <4>3. Linear32 = span * (TopEntries * Entries)
          BY <4>1, Products
        <4> HIDE DEF span
        <4> DEFINE k == TopEntries * Entries
        <4>4. k \in Nat \ {0} /\ Linear32 = span * k
          BY <4>2, <4>3
        <4> HIDE DEF k
        <4>5. (laddr % Linear32) % span = laddr % span
          BY <4>2, <4>4, RemainderTwice
        <4>6. QED
          BY <4>1, <4>5
      <3>3. QED
        BY <2>1, <3>1, <3>2
    <2> HIDE DEF a, pages, frames
    <2>8. (a \div pages) % frames = a \div pages
      <3>1. a \div pages \in 0 .. frames - 1
        BY <2>3, <2>4, QuotientBelow
      <3>2. QED
        BY <2>3, <3>1, RemainderBelow
    <2>9. a * PageSize - ((a * PageSize) % span) = (a \div pages) * span
      <3>1. a \in Int /\ PageSize \in Nat \ {0}
        BY <2>4, Sizes
      <3>2. (a * PageSize) - ((a * PageSize) % (PageSize * pages))
              = (a \div pages) * (PageSize * pages)
        BY <2>3, <3>1, RoundedDown, Zenon
      <3>3. QED
        BY <3>2
    <2>10. QED
      BY <2>5, <2>6, <2>7, <2>8, <2>9
  <1>3. QED
    BY <1>1, <1>2

-----------------------------------------------------------------------------

\* There is a result only when LinearToPhysical has returned one, and it has the
\* offset of the address that was translated.
OffsetInv ==
    /\ laddr \in Nat
    /\ pc # "done" => result = NoAddress
    /\ PageOffsetKept

\* Every step keeps the offset: only LinearToPhysical without paging and the last
\* GetEntry of a walk set the result.
LEMMA OffsetStep == OffsetInv /\ [Next]_vars => OffsetInv'
PROOF
  <1> SUFFICES ASSUME OffsetInv, [Next]_vars PROVE OffsetInv'
    OBVIOUS
  <1>1. CASE \E l \in LinearAddresses : LinearToPhysical(l)
    <2>1. PICK l \in LinearAddresses : LinearToPhysical(l)
      BY <1>1
    <2>2. l \in Nat
      BY ValueAssumption, WidthAssumption
    <2>3. laddr' = l
      BY <2>1 DEF LinearToPhysical
    <2>4. CASE PagingMode = "None"
      <3>1. pc' = "done" /\ result' = Truncated("None", l)
        BY <2>1, <2>4 DEF LinearToPhysical, Truncated
      <3>2. QED
        BY <3>1, <2>2, <2>3, TruncatedOffset DEF OffsetInv, PageOffsetKept
    <2>5. CASE PagingMode # "None"
      BY <2>1, <2>2, <2>3, <2>5 DEF LinearToPhysical, OffsetInv, PageOffsetKept
    <2>6. QED
      BY <2>4, <2>5
  <1>2. CASE \E l \in LinearAddresses : FailRegisters(l)
    <2>1. PICK l \in LinearAddresses : FailRegisters(l)
      BY <1>2
    <2>2. l \in Nat
      BY ValueAssumption, WidthAssumption
    <2>3. QED
      BY <2>1, <2>2 DEF FailRegisters, OffsetInv, PageOffsetKept
  <1>3. CASE \E e \in Entry : GetEntry(e)
    <2>1. PICK e \in Entry : GetEntry(e)
      BY <1>3
    <2>2. Linear \in Nat /\ Linear % PageSize = laddr % PageSize
      BY TruncatedOffset DEF Linear, OffsetInv
    <2>3. laddr' = laddr
      BY <2>1 DEF GetEntry
    <2>4. \/ result' = NoAddress
          \/ pc' = "done" /\ result' = LargeAddress(mode, Linear, level, e)
          \/ pc' = "done" /\ result' = PageAddress(mode, Linear, e)
      BY <2>1 DEF GetEntry, OffsetInv
    <2>5. QED
      BY <2>2, <2>3, <2>4, LargeAddressOffset, PageAddressOffset
      DEF OffsetInv, PageOffsetKept
  <1>4. CASE FailEntry
    BY <1>4 DEF FailEntry, OffsetInv, PageOffsetKept
  <1>5. CASE Return
    BY <1>5 DEF Return, OffsetInv, PageOffsetKept
  <1>6. CASE GuestRuns
    BY <1>6 DEF GuestRuns, OffsetInv, PageOffsetKept
  <1>7. CASE UNCHANGED vars
    BY <1>7 DEF vars, OffsetInv, PageOffsetKept
  <1>8. QED
    BY <1>1, <1>2, <1>3, <1>4, <1>5, <1>6, <1>7 DEF Next

\* LinearToPhysical keeps the offset in the page, in every paging mode and for every page
\* size: LMemRead and LMemWrite may use one translation for all bytes of a page.
THEOREM OffsetAlwaysKept == Spec => []PageOffsetKept
PROOF
  <1>1. Init => OffsetInv
    BY DEF Init, OffsetInv, PageOffsetKept
  <1>2. OffsetInv => PageOffsetKept
    BY DEF OffsetInv
  <1>3. QED
    BY <1>1, <1>2, OffsetStep, PTL DEF Spec

-----------------------------------------------------------------------------
(* The walk *)

\* The types that the walk relies on.
Read == [at : Nat, entry : Entry]
WalkTypes ==
    /\ regs.cr3 \in Nat /\ laddr \in Nat /\ level \in Nat /\ table \in Nat
    /\ reads \in Seq(Read)
    /\ pc \in {"idle", "walk", "done"}

\* Where LinearToPhysical is: the table of the next entry is the one the last entry names,
\* or CR3 at the top, every entry so far is valid, and no call leaves a result behind.
Progress ==
    /\ pc = "idle" => reads = << >>
    /\ pc # "done" => result = NoAddress
    /\ mode = "ThirtyTwoBit" => \A i \in 1 .. Len(reads) : reads[i].entry.address < Frames32
    /\ pc = "walk" =>
           /\ mode \in WalkModes
           /\ level = Len(reads) + 1 /\ level <= Levels(mode)
           /\ table = IF level = 1 THEN TopTable(mode) ELSE reads[level - 1].entry.address
           /\ \A i \in 1 .. Len(reads) : reads[i].entry.valid

WalkInv == WalkTypes /\ Progress /\ WalkIsArchitecturalButPAE /\ ResultIsArchitectural

\* A control register's page number is a number.
LEMMA RegistersType == \A r \in Registers : r.cr3 \in Nat
PROOF BY ValueAssumption DEF Registers

\* What the architecture reads at a level depends on CR3, on the linear address and on the
\* entry above.
LEMMA ArchEntryKept ==
    ASSUME regs' = regs, laddr' = laddr, mode' = mode, NEW i \in Nat,
           i > 1 => reads'[i - 1] = reads[i - 1]
    PROVE  ArchEntryAddress(i)' = ArchEntryAddress(i)
PROOF
  <1>1. TableBase(i)' = TableBase(i)
    BY DEF TableBase
  <1>2. QED
    BY <1>1 DEF ArchEntryAddress, Span, Slots, Levels

\* GetEntry's address is a number.
LEMMA EntryAddressType ==
    ASSUME NEW m \in WalkModes, NEW n \in 1 .. Levels(m), NEW l \in Nat, NEW t \in Nat
    PROVE  EntryAddress(m, l, n, t) \in Nat
PROOF
  <1>1. \A x \in Nat \ {0}, es \in Nat \ {0} : (l \div x) * es \in Nat
    <2> TAKE x \in Nat \ {0}, es \in Nat \ {0}
    <2>1. l \div x \in Nat
      OBVIOUS
    <2>2. QED
      BY <2>1
  <1>2. l - (l % EntrySize) \in Nat
    <2>1. l \in Int /\ EntrySize \in Nat \ {0}
      BY Sizes
    <2> DEFINE q == l \div EntrySize
               r == l % EntrySize
    <2>2. q \in Nat
      BY <2>1
    <2>3. l = q * EntrySize + r /\ r \in 0 .. EntrySize - 1
      BY <2>1, Division, Zenon
    <2> HIDE DEF q
    <2>4. q * EntrySize \in Nat
      BY <2>1, <2>2
    <2> HIDE DEF r
    <2>5. l - r \in Nat
      BY <2>1, <2>3, <2>4
    <2>6. QED
      BY <2>5 DEF r
  <1>3. /\ PageSize * Entries32 \in Nat \ {0} /\ PageSize * Entries \in Nat \ {0}
        /\ PageSize * Entries * Entries \in Nat \ {0}
        /\ PageSize * Entries * Entries * Entries \in Nat \ {0}
    BY Sizes
  <1>4. /\ PageSize \in Nat \ {0} /\ EntrySize \in Nat \ {0} /\ EntrySize32 \in Nat \ {0}
    BY Sizes
  <1>5. EntryOffset(m, l, n) \in Nat
    <2>1. CASE m = "ThirtyTwoBit"
      BY <1>1, <1>3, <1>4, <2>1, Spans DEF EntryOffset
    <2>2. CASE m = "PAE"
      BY <1>1, <1>2, <1>3, <1>4, <2>2, Spans DEF EntryOffset
    <2>3. CASE m = "FourLevel"
      BY <1>1, <1>3, <1>4, <2>3, Spans DEF EntryOffset
    <2>4. QED
      BY <2>1, <2>2, <2>3 DEF WalkModes
  <1>6. Linear32 \div PdptSize \in Nat \ {0}
    BY Products
  <1>7. QED
    BY <1>5, <1>6, Sizes, BuildAddressType DEF EntryAddress

\* The entry that GetEntry reads next is the architecture's.
LEMMA NextEntryIsArchitectural ==
    ASSUME WalkTypes, Progress, pc = "walk", ~(mode = "PAE" /\ level = 2)
    PROVE  EntryAddress(mode, Linear, level, table) = ArchEntryAddress(level)
PROOF
  <1>1. mode \in WalkModes /\ level \in 1 .. Levels(mode) /\ laddr \in Nat /\ table \in Nat
    <2>1. mode \in WalkModes /\ level \in Nat /\ level <= Levels(mode) /\ level = Len(reads) + 1
      BY DEF WalkTypes, Progress
    <2>2. Levels(mode) \in Nat
      BY <2>1, Spans DEF WalkModes
    <2>3. Len(reads) \in Nat
      BY DEF WalkTypes
    <2>4. QED
      BY <2>1, <2>2, <2>3 DEF WalkTypes
  <1>2. EntryAddress(mode, Linear, level, table)
          = TableOf(mode, level, table) + IndexOf(mode, level, laddr)
    BY <1>1, EntryIsIndexed DEF Linear
  <1>3. TableOf(mode, level, table) = TableBase(level)
    <2>1. CASE level = 1
      <3>1. table = TopTable(mode) /\ regs.cr3 \in Nat
        BY <2>1 DEF Progress, WalkTypes
      <3>2. QED
        BY <1>1, <2>1, <3>1, TopTableIsBase
    <2>2. CASE level # 1
      <3> DEFINE r == reads[level - 1]
      <3>1. level \in Nat /\ level > 1 /\ level - 1 \in 1 .. Len(reads)
        BY <1>1, <2>2 DEF Progress, WalkTypes
      <3>2. r \in Read
        BY <3>1 DEF WalkTypes
      <3>3. r.entry.address \in 0 .. Frames - 1
        BY <3>2, AddressBound DEF Read
      <3>4. mode = "ThirtyTwoBit" => r.entry.address < Frames32
        BY <3>1 DEF Progress
      <3>5. table = r.entry.address
        BY <2>2 DEF Progress
      <3>6. TableBase(level) = r.entry.address * PageSize
        BY <3>1 DEF TableBase
      <3> HIDE DEF r
      <3>7. QED
        BY <1>1, <3>1, <3>3, <3>4, <3>5, <3>6, FrameIsTable
    <2>3. QED
      BY <2>1, <2>2
  <1>4. ArchEntryAddress(level) = TableBase(level) + IndexOf(mode, level, laddr)
    BY DEF ArchEntryAddress, IndexOf
  <1>5. QED
    BY <1>2, <1>3, <1>4

\* Reading an entry keeps the invariant: the walk ends without a result, ends with the
\* address the entry maps, or goes on with the table the entry names.
LEMMA GetEntryKeepsWalk ==
    ASSUME WalkInv, NEW e \in Entry, GetEntry(e)
    PROVE  WalkInv'
PROOF
  <1> DEFINE n == Len(reads)
             r == [at |-> EntryAddress(mode, Linear, level, table), entry |-> e]
  <1>1. /\ pc = "walk" /\ reads' = Append(reads, r)
        /\ regs' = regs /\ laddr' = laddr /\ mode' = mode
        /\ mode = "ThirtyTwoBit" => e.address < Frames32
    BY DEF GetEntry
  <1>2. /\ regs.cr3 \in Nat /\ laddr \in Nat /\ level \in Nat /\ table \in Nat
        /\ n \in Nat /\ mode \in WalkModes /\ level = n + 1 /\ level <= Levels(mode)
        /\ result = NoAddress
        /\ \A i \in 1 .. n : reads[i].entry.valid
    BY <1>1 DEF WalkInv, WalkTypes, Progress
  <1>3. level \in 1 .. Levels(mode) /\ Levels(mode) \in Nat
    BY <1>2, Spans DEF WalkModes
  <1>4. r \in Read
    <2>1. Linear \in Nat
      BY <1>2, TruncatedOffset DEF Linear
    <2>2. EntryAddress(mode, Linear, level, table) \in Nat
      BY <1>2, <1>3, <2>1, EntryAddressType
    <2>3. QED
      BY <2>2 DEF Read
  <1>5. /\ reads' \in Seq(Read) /\ Len(reads') = n + 1 /\ reads'[n + 1] = r
        /\ \A i \in 1 .. n : reads'[i] = reads[i]
    <2>1. reads \in Seq(Read)
      BY DEF WalkInv, WalkTypes
    <2> HIDE DEF r
    <2>2. QED
      BY <1>1, <1>4, <2>1
  <1>6. r.entry = e /\ r.at = EntryAddress(mode, Linear, level, table) /\ e.address \in Nat
    BY AddressType
  <1> HIDE DEF r
  <1>7. \/ ~e.valid /\ pc' = "done" /\ result' = NoAddress /\ level' = level /\ table' = table
        \/ /\ e.valid /\ MapsLargePage(mode, level, e) /\ pc' = "done"
           /\ result' = LargeAddress(mode, Linear, level, e) /\ level' = level /\ table' = table
        \/ /\ e.valid /\ level = Levels(mode) /\ pc' = "done"
           /\ result' = PageAddress(mode, Linear, e) /\ level' = level /\ table' = table
        \/ /\ e.valid /\ level < Levels(mode) /\ pc' = "walk" /\ result' = NoAddress
           /\ level' = level + 1 /\ table' = e.address
    BY <1>1, <1>2 DEF GetEntry
  <1>8. WalkTypes'
    BY <1>1, <1>2, <1>5, <1>6, <1>7 DEF WalkTypes
  <1>9. Progress'
    <2>1. mode = "ThirtyTwoBit" => \A i \in 1 .. n + 1 : reads'[i].entry.address < Frames32
      <3>1. mode = "ThirtyTwoBit" => \A i \in 1 .. n : reads[i].entry.address < Frames32
        BY DEF WalkInv, Progress
      <3>2. \A i \in 1 .. n + 1 : i \in 1 .. n \/ i = n + 1
        BY <1>2
      <3>3. QED
        BY <1>1, <1>5, <1>6, <3>1, <3>2
    <2>2. ASSUME pc' = "walk"
          PROVE  /\ level' = n + 2 /\ level' <= Levels(mode) /\ level' # 1
                 /\ table' = reads'[level' - 1].entry.address
                 /\ \A i \in 1 .. n + 1 : reads'[i].entry.valid
      <3>1. e.valid /\ level < Levels(mode) /\ level' = level + 1 /\ table' = e.address
        BY <1>7, <2>2
      <3>2. level' = n + 2 /\ level' <= Levels(mode) /\ level' - 1 = n + 1 /\ level' # 1
        BY <1>2, <1>3, <3>1
      <3>3. \A i \in 1 .. n + 1 : i \in 1 .. n \/ i = n + 1
        BY <1>2
      <3>4. \A i \in 1 .. n + 1 : reads'[i].entry.valid
        BY <1>2, <1>5, <1>6, <3>1, <3>3
      <3>5. QED
        BY <1>5, <1>6, <3>1, <3>2, <3>4
    <2>3. pc' # "idle" /\ (pc' # "done" => result' = NoAddress)
      BY <1>7
    <2>4. (n + 1) + 1 = n + 2
      BY <1>2
    <2>5. QED
      BY <1>1, <1>2, <1>5, <2>1, <2>2, <2>3, <2>4 DEF Progress, Levels
  <1>10. WalkIsArchitecturalButPAE'
    <2> SUFFICES ASSUME NEW i \in 1 .. n + 1, ~(mode = "PAE" /\ i = 2)
                 PROVE  reads'[i].at = ArchEntryAddress(i)'
      BY <1>1, <1>5 DEF WalkIsArchitecturalButPAE
    <2>1. i \in Nat /\ (i > 1 => i - 1 \in 1 .. n)
      BY <1>2
    <2>2. ArchEntryAddress(i)' = ArchEntryAddress(i)
      BY <1>1, <1>5, <2>1, ArchEntryKept
    <2>3. CASE i \in 1 .. n
      BY <1>5, <2>2, <2>3 DEF WalkInv, WalkIsArchitecturalButPAE
    <2>4. CASE i = n + 1
      BY <1>1, <1>2, <1>5, <1>6, <2>2, <2>4, NextEntryIsArchitectural DEF WalkInv
    <2>5. QED
      BY <1>2, <2>3, <2>4
  <1>11. ResultIsArchitectural'
    <2>1. \A i \in 1 .. n + 1 : i \in 1 .. n \/ i = n + 1
      BY <1>2
    <2>2. e.valid => \A i \in 1 .. n + 1 : reads'[i].entry.valid
      BY <1>2, <1>5, <1>6, <2>1
    <2>3. pc' = "done" /\ result' # NoAddress => e.valid /\ result' = ArchAddress(level, e)
      BY <1>1, <1>2, <1>7, PageIsArchitectural, LargeIsArchitectural
    <2>4. Len(reads') = level /\ reads'[level].entry = e /\ level = n + 1
      BY <1>2, <1>5, <1>6
    <2>5. CASE pc' = "done" /\ result' # NoAddress
      <3>1. result' = ArchAddress(level, e) /\ \A i \in 1 .. level : reads'[i].entry.valid
        BY <2>2, <2>3, <2>4, <2>5
      <3> HIDE DEF n
      <3>2. QED
        BY <1>1, <2>4, <3>1 DEF ResultIsArchitectural, ArchAddress
    <2>6. CASE ~(pc' = "done" /\ result' # NoAddress)
      BY <2>6 DEF ResultIsArchitectural
    <2>7. QED
      BY <2>5, <2>6
  <1>12. QED
    BY <1>8, <1>9, <1>10, <1>11 DEF WalkInv

\* Every step keeps the invariant of the walk.
LEMMA WalkStep == WalkInv /\ [Next]_vars => WalkInv'
PROOF
  <1> SUFFICES ASSUME WalkInv, [Next]_vars PROVE WalkInv'
    OBVIOUS
  <1>0. \A l \in LinearAddresses : l \in Nat
    BY ValueAssumption, WidthAssumption
  <1>1. CASE \E l \in LinearAddresses : LinearToPhysical(l)
    <2>1. PICK l \in LinearAddresses : LinearToPhysical(l)
      BY <1>1
    <2>2. /\ reads = << >> /\ reads' = << >> /\ regs' = regs /\ laddr' = l /\ l \in Nat
          /\ result = NoAddress
      BY <1>0, <2>1 DEF LinearToPhysical, WalkInv, Progress
    <2>3. WalkIsArchitecturalButPAE' /\ ResultIsArchitectural'
      BY <2>2 DEF WalkIsArchitecturalButPAE, ResultIsArchitectural
    <2>4. CASE PagingMode = "None"
      <3>1. pc' = "done" /\ mode' = "None" /\ level' = level /\ table' = table
        BY <2>1, <2>4 DEF LinearToPhysical
      <3>2. WalkTypes' /\ Progress'
        BY <2>2, <3>1 DEF WalkInv, WalkTypes, Progress
      <3>3. QED
        BY <2>3, <3>2 DEF WalkInv
    <2>5. CASE PagingMode # "None"
      <3>1. /\ pc' = "walk" /\ mode' = PagingMode /\ level' = 1
            /\ table' = TopTable(PagingMode) /\ result' = NoAddress
        BY <2>1, <2>2, <2>5 DEF LinearToPhysical
      <3>2. PagingMode \in WalkModes
        BY <2>5 DEF PagingMode, WalkModes
      <3>3. TopTable(PagingMode) \in Nat
        <4> DEFINE q == PageSize \div PdptSize
        <4>1. regs.cr3 \in Nat /\ q \in Nat \ {0}
          BY Products DEF WalkInv, WalkTypes
        <4> HIDE DEF q
        <4>2. regs.cr3 \div q \in Nat
          BY <4>1
        <4>3. QED
          BY <4>1, <4>2 DEF TopTable, q
      <3>4. TopTable(mode)' = TopTable(PagingMode)
        BY <2>2, <3>1 DEF TopTable
      <3>5. WalkTypes'
        BY <2>2, <3>1, <3>3 DEF WalkInv, WalkTypes
      <3>6. 1 <= Levels(mode')
        BY <3>1, <3>2, Spans DEF WalkModes
      <3>7. Len(reads') = 0 /\ 1 = 0 + 1 /\ \A i \in 1 .. 0 : FALSE
        BY <2>2
      <3>8. table' = TopTable(mode)' /\ 1 <= Levels(mode)' /\ mode' \in WalkModes
        BY <3>1, <3>2, <3>4, <3>6
      <3>9. Progress'
        BY <2>2, <3>1, <3>7, <3>8 DEF Progress
      <3>10. QED
        BY <2>3, <3>5, <3>9 DEF WalkInv
    <2>6. QED
      BY <2>4, <2>5
  <1>2. CASE \E l \in LinearAddresses : FailRegisters(l)
    <2>1. PICK l \in LinearAddresses : FailRegisters(l)
      BY <1>2
    <2>2. /\ reads = << >> /\ UNCHANGED <<regs, mode, level, table, reads, result>>
          /\ laddr' = l /\ l \in Nat /\ pc' = "done"
      BY <1>0, <2>1 DEF FailRegisters, WalkInv, Progress
    <2>3. WalkTypes' /\ Progress'
      BY <2>2 DEF WalkInv, WalkTypes, Progress
    <2>4. QED
      BY <2>2, <2>3 DEF WalkInv, WalkIsArchitecturalButPAE, ResultIsArchitectural
  <1>3. CASE \E e \in Entry : GetEntry(e)
    BY <1>3, GetEntryKeepsWalk
  <1>4. CASE FailEntry
    <2>1. /\ UNCHANGED <<regs, laddr, mode, level, table, reads>> /\ pc' = "done"
          /\ result' = NoAddress
      BY <1>4 DEF FailEntry
    <2>2. WalkTypes' /\ Progress'
      BY <2>1 DEF WalkInv, WalkTypes, Progress
    <2>3. WalkIsArchitecturalButPAE'
      <3>1. \A i \in Nat : ArchEntryAddress(i)' = ArchEntryAddress(i)
        BY <2>1, ArchEntryKept
      <3>2. 1 .. Len(reads) \subseteq Nat
        BY DEF WalkInv, WalkTypes
      <3>3. QED
        BY <2>1, <3>1, <3>2 DEF WalkInv, WalkIsArchitecturalButPAE
    <2>4. QED
      BY <2>1, <2>2, <2>3 DEF WalkInv, ResultIsArchitectural
  <1>5. CASE Return
    <2>1. regs' = regs /\ reads' = << >> /\ pc' = "idle" /\ mode' = "None" /\ level' = 1
          /\ table' = 0 /\ laddr' = 0 /\ result' = NoAddress
      BY <1>5 DEF Return
    <2>2. WalkTypes' /\ Progress'
      BY <2>1 DEF WalkInv, WalkTypes, Progress
    <2>3. QED
      BY <2>1, <2>2 DEF WalkInv, WalkIsArchitecturalButPAE, ResultIsArchitectural
  <1>6. CASE GuestRuns
    <2>1. /\ reads = << >> /\ regs' \in Registers /\ pc = "idle"
          /\ UNCHANGED <<laddr, pc, mode, level, table, reads, result>>
      BY <1>6 DEF GuestRuns, WalkInv, Progress
    <2>2. WalkTypes' /\ Progress'
      BY <2>1, RegistersType DEF WalkInv, WalkTypes, Progress
    <2>3. QED
      BY <2>1, <2>2 DEF WalkInv, WalkIsArchitecturalButPAE, ResultIsArchitectural
  <1>7. CASE UNCHANGED vars
    <2>1. UNCHANGED <<regs, laddr, pc, mode, level, table, reads, result>>
      BY <1>7 DEF vars
    <2>2. WalkTypes' /\ Progress'
      BY <2>1 DEF WalkInv, WalkTypes, Progress, TopTable, Levels
    <2>3. WalkIsArchitecturalButPAE'
      <3>1. \A i \in Nat : ArchEntryAddress(i)' = ArchEntryAddress(i)
        BY <2>1, ArchEntryKept
      <3>2. 1 .. Len(reads) \subseteq Nat
        BY DEF WalkInv, WalkTypes
      <3>3. QED
        BY <2>1, <3>1, <3>2 DEF WalkInv, WalkIsArchitecturalButPAE
    <2>4. ResultIsArchitectural'
      BY <2>1 DEF WalkInv, ResultIsArchitectural, ArchAddress, Span, Levels
    <2>5. QED
      BY <2>2, <2>3, <2>4 DEF WalkInv
  <1>8. QED
    BY <1>1, <1>2, <1>3, <1>4, <1>5, <1>6, <1>7 DEF Next

\* The invariant of the walk holds at the start.
LEMMA WalkStart == Init => WalkInv
PROOF
  <1> SUFFICES ASSUME Init PROVE WalkInv
    OBVIOUS
  <1>1. WalkTypes /\ Progress
    BY RegistersType DEF Init, WalkTypes, Progress
  <1>2. QED
    BY <1>1 DEF Init, WalkInv, WalkIsArchitecturalButPAE, ResultIsArchitectural

\* Whatever the registers, the linear address and the tables, which another processor may
\* change during the walk, every entry GetEntry reads is the one of the architecture's
\* walk, except at the second level of PAE.
THEOREM WalksLikeTheArchitecture == Spec => []WalkIsArchitecturalButPAE
PROOF
  <1>1. WalkInv => WalkIsArchitecturalButPAE
    BY DEF WalkInv
  <1>2. QED
    BY <1>1, WalkStart, WalkStep, PTL DEF Spec

\* The address LinearToPhysical returns is the one the last entry maps the linear address
\* to, for a page of every size, and every entry on the way was valid.
THEOREM ReturnsMappedAddress == Spec => []ResultIsArchitectural
PROOF
  <1>1. WalkInv => ResultIsArchitectural
    BY DEF WalkInv
  <1>2. QED
    BY <1>1, WalkStart, WalkStep, PTL DEF Spec
=============================================================================
