---------------------------- MODULE AccessProofs ----------------------------
(***************************************************************************)
(* What the application reads and writes of a virtual processor that does  *)
(* not run: its linear memory (LinearMemory) and its registers on HAXM and *)
(* WHPX (RegisterAccess).  LMemRead and LMemWrite walk every range page by *)
(* page, for every page size that divides the address space, every range   *)
(* and every guest.  Every part of a register is read as it was last       *)
(* written, by whatever name, for all registers, values, batches and MSRs, *)
(* whichever calls of the hypervisor fail.                                 *)
(***************************************************************************)
EXTENDS LinearMemory, RegisterAccess, NumberFacts, SequenceTheorems, TLAPS

-----------------------------------------------------------------------------
(* Addresses *)

\* The offset of an address in its page, and the number of pages.
Offset(a) == a % PageSize
PageCount == AddrSpace \div PageSize

\* The address space is a number of whole pages.
LEMMA WholePages ==
    /\ PageSize \in Nat \ {0} /\ AddrSpace \in Nat \ {0} /\ PageCount \in Nat \ {0}
    /\ AddrSpace = PageSize * PageCount /\ AddrSpace = PageCount * PageSize
    /\ PageSize < AddrSpace
PROOF
  <1>1. /\ PageSize \in Nat \ {0} /\ AddrSpace \in Nat \ {0}
        /\ AddrSpace % PageSize = 0 /\ PageSize < AddrSpace
    BY SizeAssumption
  <1>2. /\ PageCount \in Int
        /\ AddrSpace = PageCount * PageSize + (AddrSpace % PageSize)
    BY <1>1, Division DEF PageCount
  <1> HIDE DEF PageCount
  <1>3. AddrSpace = PageCount * PageSize /\ PageCount * PageSize = PageSize * PageCount
    BY <1>1, <1>2
  <1>4. PageCount > 0
    <2>1. SUFFICES ASSUME PageCount <= 0 PROVE FALSE
      BY <1>2
    <2>2. PageCount * PageSize <= 0
      BY <1>1, <1>2, <2>1
    <2>3. QED
      BY <1>1, <1>3, <2>2
  <1>5. QED
    BY <1>1, <1>2, <1>3, <1>4

\* An address is the start of its page and an offset.
LEMMA OffsetIs ==
    ASSUME NEW a \in Int
    PROVE  /\ PageOf(a) \in Int /\ Offset(a) \in 0 .. PageSize - 1
           /\ a = PageOf(a) * PageSize + Offset(a)
           /\ PageOf(a) * PageSize \in Int
PROOF
  <1>1. /\ PageOf(a) \in Int /\ Offset(a) \in 0 .. PageSize - 1
        /\ a = PageOf(a) * PageSize + Offset(a)
    BY WholePages, Division, Zenon DEF PageOf, Offset
  <1>2. QED
    BY <1>1, WholePages

\* Wrap leaves addresses alone, and is never out of the address space.
LEMMA WrapIs ==
    ASSUME NEW n \in Int
    PROVE  /\ Wrap(n) \in 0 .. AddrSpace - 1
           /\ n \in 0 .. AddrSpace - 1 => Wrap(n) = n
PROOF
  <1>1. Wrap(n) \in 0 .. AddrSpace - 1
    BY WholePages, Division, Zenon DEF Wrap
  <1>2. ASSUME n \in 0 .. AddrSpace - 1 PROVE Wrap(n) = n
    <2>1. (0 * AddrSpace + n) % AddrSpace = n
      BY <1>2, WholePages, RemainderUnique
    <2>2. 0 * AddrSpace + n = n
      BY WholePages
    <2>3. QED
      BY <2>1, <2>2 DEF Wrap
  <1>3. QED
    BY <1>1, <1>2

\* Wrapping once or twice is the same.
LEMMA WrapShift ==
    ASSUME NEW n \in Int, NEW k \in Int
    PROVE  Wrap(n + k * AddrSpace) = Wrap(n)
BY WholePages, RemainderShift DEF Wrap

LEMMA WrapOver ==
    ASSUME NEW n \in Int
    PROVE  Wrap(n + AddrSpace) = Wrap(n) /\ Wrap(n - AddrSpace) = Wrap(n)
PROOF
  <1>1. n + 1 * AddrSpace = n + AddrSpace /\ n + (-1) * AddrSpace = n - AddrSpace
    BY WholePages
  <1>2. Wrap(n + 1 * AddrSpace) = Wrap(n)
    BY WrapShift
  <1>3. Wrap(n + (-1) * AddrSpace) = Wrap(n)
    <2>1. -1 \in Int
      OBVIOUS
    <2>2. QED
      BY <2>1, WrapShift
  <1>4. QED
    BY <1>1, <1>2, <1>3

LEMMA WrapSum ==
    ASSUME NEW n \in Int, NEW d \in Int
    PROVE  Wrap(Wrap(n) + d) = Wrap(n + d)
PROOF
  <1> DEFINE q == n \div AddrSpace
  <1>0. q \in Int /\ Wrap(n) \in 0 .. AddrSpace - 1 /\ n = q * AddrSpace + Wrap(n)
    BY WholePages, Division, Zenon DEF Wrap
  <1> HIDE DEF q
  <1>1. q \in Int /\ Wrap(n) \in Int /\ n = q * AddrSpace + Wrap(n)
    BY <1>0
  <1>2. q * AddrSpace \in Int
    BY <1>1, WholePages
  <1>3. n + d = (Wrap(n) + d) + q * AddrSpace /\ Wrap(n) + d \in Int
    BY <1>1, <1>2
  <1>4. QED
    BY <1>1, <1>3, WrapShift

\* Wrapping keeps the offset in the page.
LEMMA WrapOffset ==
    ASSUME NEW n \in Int
    PROVE  Offset(Wrap(n)) = Offset(n)
BY WholePages, RemainderTwice DEF Wrap, Offset

\* Bytes of one page: their page and offset.
LEMMA SamePage ==
    ASSUME NEW a \in Int, NEW b \in Nat, Offset(a) + b < PageSize
    PROVE  PageOf(a + b) = PageOf(a) /\ Offset(a + b) = Offset(a) + b
PROOF
  <1> DEFINE r == Offset(a) + b
  <1>0. /\ PageOf(a) \in Int /\ Offset(a) \in 0 .. PageSize - 1
        /\ a = PageOf(a) * PageSize + Offset(a) /\ PageOf(a) * PageSize \in Int
    BY OffsetIs, Zenon
  <1>1. r \in 0 .. PageSize - 1 /\ PageOf(a) \in Int
    BY <1>0, WholePages
  <1>2. a + b = PageOf(a) * PageSize + r
    BY <1>0
  <1>3. (PageOf(a) * PageSize + r) % PageSize = r
    BY <1>1, WholePages, RemainderUnique
  <1>4. Offset(a + b) = r
    BY <1>2, <1>3 DEF Offset
  <1>5. /\ PageOf(a + b) \in Int /\ PageOf(a + b) * PageSize \in Int
        /\ a + b = PageOf(a + b) * PageSize + r
    <2>1. a + b \in Int
      OBVIOUS
    <2>2. QED
      BY <1>4, <2>1, OffsetIs
  <1>6. PageOf(a) * PageSize = PageOf(a + b) * PageSize
    BY <1>0, <1>1, <1>2, <1>5
  <1>7. PageOf(a) = PageOf(a + b)
    BY <1>1, <1>5, <1>6, WholePages, SameMultiple, Zenon
  <1>8. QED
    BY <1>4, <1>7

\* The page of an address in the address space ends in it.
LEMMA PageFits ==
    ASSUME NEW a \in 0 .. AddrSpace - 1
    PROVE  /\ PageOf(a) \in 0 .. PageCount - 1
           /\ a - Offset(a) \in 0 .. AddrSpace - PageSize
PROOF
  <1> DEFINE q == PageOf(a)
  <1> DEFINE start == q * PageSize
  <1>1. q \in Int /\ Offset(a) \in 0 .. PageSize - 1 /\ a = start + Offset(a) /\ start \in Int
    BY OffsetIs
  <1> HIDE DEF q
  <1>2. q >= 0
    <2>1. SUFFICES ASSUME q <= -1 PROVE FALSE
      BY <1>1
    <2>2. q * PageSize <= -PageSize
      BY <1>1, <2>1, WholePages
    <2>3. QED
      BY <1>1, <2>2, WholePages
  <1>3. q <= PageCount - 1
    <2>1. SUFFICES ASSUME q >= PageCount PROVE FALSE
      BY <1>1, WholePages
    <2>2. q * PageSize >= PageCount * PageSize
      BY <1>1, <2>1, WholePages
    <2>3. QED
      BY <1>1, <2>2, WholePages
  <1>4. start >= 0
    BY <1>1, <1>2, WholePages
  <1>5. start <= AddrSpace - PageSize
    <2>1. q * PageSize <= (PageCount - 1) * PageSize
      BY <1>1, <1>3, WholePages
    <2>2. (PageCount - 1) * PageSize = PageCount * PageSize - PageSize
      BY WholePages
    <2>3. QED
      BY <2>1, <2>2, <1>1, WholePages
  <1>6. QED
    BY <1>1, <1>2, <1>3, <1>4, <1>5, WholePages DEF q

\* PageEnd is the last address of the page, the last page included, where the sum wraps.
LEMMA PageEndIs ==
    ASSUME NEW a \in 0 .. AddrSpace - 1
    PROVE  PageEnd(a) = a - Offset(a) + PageSize - 1
PROOF
  <1> DEFINE next == Wrap(a + PageSize)
  <1>1. a \in Int /\ Offset(a) \in 0 .. PageSize - 1 /\ a - Offset(a) \in 0 .. AddrSpace - PageSize
    <2>1. a \in Int
      BY WholePages
    <2>2. Offset(a) \in 0 .. PageSize - 1
      BY <2>1, OffsetIs, Zenon
    <2>3. QED
      BY <2>1, <2>2, PageFits
  <1>2. Offset(next) = Offset(a)
    <2>1. a + PageSize \in Int /\ a + 1 * PageSize = a + PageSize /\ 1 \in Int
      BY <1>1, WholePages
    <2>2. (a + 1 * PageSize) % PageSize = a % PageSize
      BY <1>1, <2>1, WholePages, RemainderShift, Zenon
    <2>3. QED
      BY <2>1, <2>2, WrapOffset DEF Offset
  <1>3. PageEnd(a) = Wrap(next - Offset(a) - 1)
    BY <1>2 DEF PageEnd, Offset
  <1> DEFINE sum == a + PageSize
  <1>4. sum \in Int /\ sum - AddrSpace \in Int
    BY <1>1, WholePages
  <1>5. CASE sum < AddrSpace
    <2>1. next = a + PageSize
      BY <1>1, <1>4, <1>5, WrapIs, WholePages
    <2>2. next - Offset(a) - 1 \in 0 .. AddrSpace - 1
      BY <1>1, <2>1, WholePages
    <2>3. QED
      BY <1>1, <1>3, <2>1, <2>2, WrapIs, WholePages
  <1>6. CASE sum >= AddrSpace
    <2>1. Wrap(sum - AddrSpace) = next
      BY <1>4, WrapOver
    <2>2. sum - AddrSpace \in 0 .. AddrSpace - 1 /\ sum - AddrSpace \in 0 .. PageSize - 1
      BY <1>1, <1>6, WholePages
    <2>3. next = sum - AddrSpace
      BY <2>1, <2>2, <1>4, WrapIs
    <2>4. Offset(next) = next
      <3>1. 0 * PageSize + next = next
        BY <2>2, <2>3, WholePages
      <3>2. (0 * PageSize + next) % PageSize = next
        BY <2>2, <2>3, WholePages, RemainderUnique
      <3>3. QED
        BY <3>1, <3>2 DEF Offset
    <2>5. next - Offset(a) - 1 = -1 /\ a - Offset(a) + PageSize - 1 = AddrSpace - 1
      BY <1>1, <1>2, <2>2, <2>3, <2>4, WholePages
    <2>6. Wrap(-1) = AddrSpace - 1
      <3>1. -1 \in Int /\ -1 + AddrSpace = AddrSpace - 1 /\ AddrSpace - 1 \in 0 .. AddrSpace - 1
        BY WholePages
      <3>2. Wrap(-1 + AddrSpace) = Wrap(-1)
        BY <3>1, WrapOver
      <3>3. QED
        BY <3>1, <3>2, WrapIs
    <2>7. QED
      BY <1>3, <2>5, <2>6
  <1>7. QED
    BY <1>4, <1>5, <1>6, WholePages

\* The next page: where CopyPage finds its start and its end.
LEMMA NextPage ==
    ASSUME NEW a \in 0 .. AddrSpace - 1
    PROVE  /\ Wrap(PageEnd(a) + 1) = Wrap(a + (PageSize - Offset(a)))
           /\ Offset(Wrap(PageEnd(a) + 1)) = 0
           /\ Wrap(PageEnd(a) + PageSize) = PageEnd(Wrap(PageEnd(a) + 1))
PROOF
  <1> DEFINE behind == a - Offset(a) + PageSize
  <1> DEFINE next == Wrap(PageEnd(a) + 1)
  <1>1. /\ a \in Int /\ Offset(a) \in 0 .. PageSize - 1
        /\ a - Offset(a) \in 0 .. AddrSpace - PageSize
        /\ PageOf(a) \in Int /\ a = PageOf(a) * PageSize + Offset(a) /\ PageOf(a) * PageSize \in Int
    <2>1. a \in Int
      BY WholePages
    <2>2. /\ Offset(a) \in 0 .. PageSize - 1
          /\ PageOf(a) \in Int /\ a = PageOf(a) * PageSize + Offset(a) /\ PageOf(a) * PageSize \in Int
      BY <2>1, OffsetIs, Zenon
    <2>3. QED
      BY <2>1, <2>2, PageFits
  <1>2. PageEnd(a) + 1 = behind /\ PageEnd(a) + PageSize = behind + (PageSize - 1)
    BY <1>1, PageEndIs, WholePages
  <1>3. behind \in PageSize .. AddrSpace /\ behind \in Int
    BY <1>1, WholePages
  <1>4. next = Wrap(behind)
    BY <1>2
  <1>5. behind = a + (PageSize - Offset(a))
    BY <1>1, WholePages
  <1>6. Offset(next) = 0
    <2>1. behind = (PageOf(a) + 1) * PageSize + 0 /\ PageOf(a) + 1 \in Int /\ 0 \in 0 .. PageSize - 1
      BY <1>1, WholePages
    <2>2. ((PageOf(a) + 1) * PageSize + 0) % PageSize = 0
      BY <2>1, WholePages, RemainderUnique
    <2>3. Offset(behind) = 0
      BY <2>1, <2>2 DEF Offset
    <2>4. QED
      BY <1>3, <1>4, <2>3, WrapOffset
  <1>7. next \in 0 .. AddrSpace - 1
    BY <1>3, <1>4, WrapIs
  <1>8. PageEnd(next) = next + (PageSize - 1) /\ next \in 0 .. AddrSpace - PageSize
    <2>1. PageEnd(next) = next - Offset(next) + PageSize - 1
      BY <1>7, PageEndIs
    <2>2. next - Offset(next) \in 0 .. AddrSpace - PageSize
      BY <1>7, PageFits
    <2> HIDE DEF next
    <2>3. QED
      BY <1>6, <1>7, <2>1, <2>2, WholePages
  <1>9. Wrap(behind + (PageSize - 1)) = next + (PageSize - 1)
    <2>1. PageSize - 1 \in Int
      BY WholePages
    <2>2. Wrap(next + (PageSize - 1)) = Wrap(behind + (PageSize - 1))
      BY <2>1, <1>3, <1>4, WrapSum
    <2>3. next + (PageSize - 1) \in 0 .. AddrSpace - 1
      BY <1>8, WholePages
    <2>4. QED
      BY <2>2, <2>3, WrapIs
  <1>10. QED
    BY <1>2, <1>4, <1>5, <1>6, <1>8, <1>9

-----------------------------------------------------------------------------
(* The loop *)

\* The arguments are addresses and sizes; the page tables map pages to frames; what was
\* copied is a sequence, empty before the call; nothing is reported before it ends.
CallInv ==
    /\ laddr \in 0 .. AddrSpace - 1 /\ size \in 0 .. AddrSpace - 1
    /\ map \in [Pages -> Frames \cup {NoFrame}]
    /\ copied \in Seq(Int)
    /\ pc = "idle" => copied = << >>
    /\ pc # "done" => bytes = Unset

\* Where the loop is while bytes are left: at byte pos of the range, with the end of
\* that page and as many bytes as the page and the range have left.
TurnInv ==
    /\ srcAddrStart = Wrap(laddr + pos)
    /\ srcAddrEnd = PageEnd(srcAddrStart)
    /\ copySize = Least(size - pos, PageSize - Offset(srcAddrStart))

LoopInv ==
    pc \in {"loop", "copy"} =>
        /\ pos \in 0 .. size /\ Len(copied) = pos
        /\ pos < size => TurnInv

\* Between translation and copy: the address in some frame of the next byte.
InFrame(f) == physAddr = f * PageSize + Offset(srcAddrStart)
CopyInv == pc = "copy" => pos < size /\ \E f \in Frames : InFrame(f)

IInv == CallInv /\ LoopInv /\ CopyInv /\ AllOrFalse

\* What TurnInv gives: an address, and a turn within its page and the range.
LEMMA TurnBounds ==
    ASSUME CallInv, pos \in 0 .. size, pos < size, TurnInv
    PROVE  /\ srcAddrStart \in 0 .. AddrSpace - 1
           /\ Offset(srcAddrStart) \in 0 .. PageSize - 1
           /\ copySize \in 1 .. size - pos
           /\ Offset(srcAddrStart) + copySize <= PageSize
           /\ copySize < size - pos => copySize = PageSize - Offset(srcAddrStart)
PROOF
  <1>1. laddr + pos \in Int /\ size \in Int /\ pos \in Int /\ size - pos > 0
    BY DEF CallInv
  <1>2. srcAddrStart \in 0 .. AddrSpace - 1
    BY <1>1, WrapIs DEF TurnInv
  <1>3. Offset(srcAddrStart) \in 0 .. PageSize - 1
    <2>1. srcAddrStart \in Int
      BY <1>2, WholePages
    <2>2. QED
      BY <2>1, OffsetIs, Zenon
  <1>4. QED
    BY <1>1, <1>2, <1>3, WholePages DEF TurnInv, Least

\* The first turn.
LEMMA CallStep ==
    ASSUME CallInv, NEW l \in Addresses, NEW n \in Sizes, Call(l, n)
    PROVE  IInv'
PROOF
  <1>1. l \in 0 .. AddrSpace - 1 /\ n \in 0 .. AddrSpace - 1
    BY SizeAssumption
  <1>2. /\ laddr' = l /\ size' = n /\ pos' = 0 /\ pc' = "loop" /\ copied' = << >>
        /\ srcAddrStart' = l /\ srcAddrEnd' = PageEnd(l)
        /\ copySize' = Least(n, Wrap(Wrap(PageEnd(l) - l) + 1))
    BY DEF Call, CallInv
  <1>3. Offset(l) \in 0 .. PageSize - 1 /\ l \in Int
    <2>1. l \in Int
      BY <1>1, WholePages
    <2>2. QED
      BY <2>1, OffsetIs, Zenon
  <1>4. Wrap(Wrap(PageEnd(l) - l) + 1) = PageSize - Offset(l)
    <2>1. PageEnd(l) - l = PageSize - Offset(l) - 1
      BY <1>1, <1>3, PageEndIs, WholePages
    <2>2. Wrap(PageEnd(l) - l) = PageSize - Offset(l) - 1
      <3>1. PageSize - Offset(l) - 1 \in 0 .. AddrSpace - 1
        BY <1>3, WholePages
      <3>2. QED
        BY <2>1, <3>1, WrapIs
    <2>3. Wrap(PageEnd(l) - l) + 1 = PageSize - Offset(l)
      BY <1>3, <2>2, WholePages
    <2>4. PageSize - Offset(l) \in 0 .. AddrSpace - 1
      BY <1>3, WholePages
    <2>5. QED
      BY <2>3, <2>4, WrapIs
  <1>5. Wrap(l + 0) = l
    BY <1>1, <1>3, WrapIs
  <1>6. TurnInv'
    BY <1>1, <1>2, <1>4, <1>5 DEF TurnInv, Offset
  <1>7. CallInv' /\ LoopInv'
    BY <1>1, <1>2, <1>6 DEF CallInv, LoopInv, Call
  <1>8. CopyInv' /\ AllOrFalse'
    BY <1>2 DEF CopyInv, AllOrFalse
  <1>9. QED
    BY <1>7, <1>8 DEF IInv

\* A frame has an address, and so has the byte of a turn in it.
LEMMA FrameBase ==
    ASSUME NEW f \in Frames
    PROVE  f \in Nat /\ f * PageSize \in Int
PROOF
  <1>1. f \in Nat /\ f \in Int /\ PageSize \in Int
    BY SizeAssumption
  <1>2. QED
    BY <1>1

\* A linear address is in a page that the page tables know.
LEMMA PageKnown ==
    ASSUME NEW a \in 0 .. AddrSpace - 1
    PROVE  PageOf(a) \in Pages
PROOF
  <1>1. /\ PageSize \in Nat \ {0} /\ PageCount \in Nat \ {0} /\ AddrSpace = PageCount * PageSize
        /\ a \in Nat /\ a < AddrSpace
    BY WholePages
  <1>2. a \div PageSize \in 0 .. PageCount - 1
    BY <1>1, QuotientBelow
  <1>3. QED
    BY <1>2 DEF PageOf, Pages, PageCount

\* What the loop knows when it copies.
LEMMA CopyFacts ==
    ASSUME IInv, pc = "copy"
    PROVE  /\ pos \in 0 .. size /\ pos < size /\ Len(copied) = pos
           /\ CallInv /\ TurnInv
           /\ \E f \in Frames : InFrame(f)
PROOF
  BY DEF IInv, LoopInv, CopyInv

\* The addresses of a turn are a sequence as long as the turn.
LEMMA TurnIsSequence ==
    ASSUME IInv, CopyPage
    PROVE  Turn \in Seq(Int) /\ Len(Turn) = copySize
PROOF
  <1>0. pc = "copy"
    BY DEF CopyPage
  <1>1. /\ Offset(srcAddrStart) \in 0 .. PageSize - 1
        /\ copySize \in 1 .. size - pos /\ size - pos \in Nat
    BY <1>0, CopyFacts, TurnBounds DEF CallInv
  <1>2. PICK f \in Frames : InFrame(f)
    BY <1>0, CopyFacts
  <1>3. physAddr \in Int
    <2>1. f * PageSize \in Int
      BY FrameBase
    <2> DEFINE base == f * PageSize
    <2>2. base \in Int /\ physAddr = base + Offset(srcAddrStart)
      BY <1>2, <2>1 DEF InFrame
    <2> HIDE DEF base
    <2>3. QED
      BY <1>1, <2>2, WholePages
  <1>4. QED
    BY <1>1, <1>3 DEF Turn

\* The translation of a page.
LEMMA TranslateStep ==
    ASSUME IInv, Translate
    PROVE  IInv'
PROOF
  <1>1. /\ pc = "loop" /\ pos \in 0 .. size /\ pos < size /\ Len(copied) = pos
        /\ CallInv /\ TurnInv
    BY DEF IInv, LoopInv, Translate
  <1>2. srcAddrStart \in 0 .. AddrSpace - 1
    BY <1>1, TurnBounds
  <1>3. /\ pc' = "copy" /\ physAddr' = LinearToPhysical(srcAddrStart)
        /\ UNCHANGED <<map, laddr, size, srcAddrStart, srcAddrEnd, pos, copySize, bytes, copied>>
    BY DEF Translate
  <1>4. map[PageOf(srcAddrStart)] \in Frames
    BY <1>1, <1>2, PageKnown DEF CallInv, Translate
  <1>5. CallInv' /\ LoopInv'
    BY <1>1, <1>3 DEF CallInv, LoopInv, TurnInv
  <1>6. CopyInv'
    <2>1. InFrame(map[PageOf(srcAddrStart)])'
      BY <1>3 DEF InFrame, LinearToPhysical, Offset
    <2>2. map'[PageOf(srcAddrStart')] \in Frames
      BY <1>3, <1>4
    <2>3. pos' < size'
      BY <1>1, <1>3
    <2>4. QED
      BY <2>1, <2>2, <2>3 DEF CopyInv, InFrame
  <1>7. AllOrFalse'
    BY <1>3 DEF AllOrFalse
  <1>8. QED
    BY <1>5, <1>6, <1>7 DEF IInv

\* The copy of a page.
LEMMA CopyStep ==
    ASSUME IInv, CopyPage
    PROVE  IInv'
PROOF
  <1>1. /\ pc = "copy" /\ pos \in 0 .. size /\ pos < size /\ Len(copied) = pos
        /\ CallInv /\ TurnInv
    BY CopyFacts DEF CopyPage
  <1>2. /\ srcAddrStart \in 0 .. AddrSpace - 1
        /\ Offset(srcAddrStart) \in 0 .. PageSize - 1
        /\ copySize \in 1 .. size - pos
        /\ copySize < size - pos => copySize = PageSize - Offset(srcAddrStart)
    BY <1>1, TurnBounds
  <1>3. size \in 0 .. AddrSpace - 1 /\ laddr \in 0 .. AddrSpace - 1 /\ pos \in Int /\ copySize \in Int
    BY <1>1, <1>2 DEF CallInv
  <1>4. pos' = pos + copySize
    <2>1. pos + copySize \in 0 .. AddrSpace - 1
      BY <1>1, <1>2, <1>3, WholePages
    <2>2. QED
      BY <2>1, WrapIs DEF CopyPage
  <1>5. pc' = "loop" /\ laddr' = laddr /\ size' = size /\ pos' \in 0 .. size'
    BY <1>1, <1>2, <1>3, <1>4 DEF CopyPage
  <1>6. copied' \in Seq(Int) /\ Len(copied') = pos'
    <2>2. Turn \in Seq(Int) /\ Len(Turn) = copySize
      BY TurnIsSequence
    <2>3. copied \in Seq(Int) /\ copied' = copied \o Turn
      BY <1>1 DEF CallInv, CopyPage
    <2>4. copied \o Turn \in Seq(Int) /\ Len(copied \o Turn) = Len(copied) + Len(Turn)
      BY <2>2, <2>3, ConcatProperties, Zenon
    <2>5. QED
      BY <2>2, <2>3, <2>4, <1>1, <1>4
  <1>7. ASSUME pos' < size' PROVE TurnInv'
    <2>1. copySize = PageSize - Offset(srcAddrStart)
      BY <1>2, <1>3, <1>4, <1>5, <1>7
    <2>2. /\ Wrap(srcAddrEnd + 1) = Wrap(srcAddrStart + copySize)
          /\ Offset(Wrap(srcAddrEnd + 1)) = 0
          /\ Wrap(srcAddrEnd + PageSize) = PageEnd(Wrap(srcAddrEnd + 1))
      BY <1>1, <1>2, <2>1, NextPage DEF TurnInv
    <2>3. Wrap(srcAddrStart + copySize) = Wrap(laddr + pos')
      <3>1. laddr + pos \in Int /\ (laddr + pos) + copySize = laddr + pos'
        BY <1>3, <1>4
      <3>2. Wrap(Wrap(laddr + pos) + copySize) = Wrap((laddr + pos) + copySize)
        BY <1>3, <3>1, WrapSum
      <3>3. QED
        BY <1>1, <3>1, <3>2 DEF TurnInv
    <2>4. srcAddrStart' = Wrap(laddr' + pos')
      BY <1>5, <2>2, <2>3 DEF CopyPage
    <2>5. srcAddrEnd' = PageEnd(srcAddrStart') /\ Offset(srcAddrStart') = 0
      BY <2>2 DEF CopyPage
    <2>6. copySize' = Least(size' - pos', PageSize - Offset(srcAddrStart'))
      <3>1. size - pos' \in 0 .. AddrSpace - 1 /\ size - pos' \in Int
        BY <1>3, <1>4, <1>5, WholePages
      <3>2. Wrap(size - pos') = size - pos'
        BY <3>1, WrapIs
      <3>3. copySize' = Least(PageSize, size - pos')
        BY <3>2 DEF CopyPage, NextSize
      <3>4. PageSize - Offset(srcAddrStart') = PageSize
        BY <2>5, WholePages
      <3>5. QED
        BY <3>1, <3>3, <3>4, <1>5, WholePages DEF Least
    <2>7. QED
      BY <2>4, <2>5, <2>6 DEF TurnInv, Offset, PageEnd, Wrap
  <1>8. CallInv'
    BY <1>1, <1>3, <1>5, <1>6 DEF CallInv, CopyPage
  <1>9. LoopInv'
    BY <1>5, <1>6, <1>7 DEF LoopInv
  <1>10. CopyInv' /\ AllOrFalse'
    BY <1>5 DEF CopyInv, AllOrFalse
  <1>11. QED
    BY <1>8, <1>9, <1>10 DEF IInv

\* Every step keeps the invariant.
LEMMA IInvStep == IInv /\ [Next]_vars => IInv'
PROOF
  <1> SUFFICES ASSUME IInv, [Next]_vars PROVE IInv'
    OBVIOUS
  <1>1. ASSUME NEW l \in Addresses, NEW n \in Sizes, Call(l, n) PROVE IInv'
    BY <1>1, CallStep DEF IInv
  <1>2. ASSUME NEW l \in Addresses, NEW n \in Sizes, CallNull(l, n) PROVE IInv'
    <2>1. l \in 0 .. AddrSpace - 1 /\ n \in 0 .. AddrSpace - 1
      BY SizeAssumption
    <2>2. CallInv' /\ LoopInv' /\ CopyInv'
      BY <1>2, <2>1 DEF CallNull, locals, IInv, CallInv, LoopInv, CopyInv
    <2>3. /\ copied' = << >> /\ size' = n /\ result' = FALSE /\ bytes' = Unset
          /\ Len(<< >>) = 0
      BY <1>2 DEF CallNull, IInv, CallInv
    <2>4. AllOrFalse'
      BY <2>1, <2>3 DEF AllOrFalse
    <2>5. QED
      BY <2>2, <2>4 DEF IInv
  <1>3. CASE Translate
    BY <1>3, TranslateStep
  <1>4. CASE CopyPage
    BY <1>4, CopyStep
  <1>5. CASE FailTranslate \/ FailCopy
    <2>1. /\ pc' = "done" /\ result' = FALSE
          /\ UNCHANGED <<map, laddr, size, pos, bytes, copied>>
      BY <1>5 DEF FailTranslate, FailCopy, locals
    <2>2. pc \in {"loop", "copy"} /\ pos < size
      BY <1>5 DEF FailTranslate, FailCopy, IInv, CopyInv
    <2>3. CallInv' /\ LoopInv' /\ CopyInv'
      BY <2>1, <2>2 DEF IInv, CallInv, LoopInv, CopyInv
    <2>4. AllOrFalse'
      BY <2>1, <2>2 DEF IInv, CallInv, LoopInv, AllOrFalse
    <2>5. QED
      BY <2>3, <2>4 DEF IInv
  <1>6. CASE Finish
    <2>1. CallInv' /\ LoopInv' /\ CopyInv'
      BY <1>6 DEF Finish, IInv, CallInv, LoopInv, CopyInv
    <2>2. AllOrFalse'
      BY <1>6 DEF Finish, IInv, CallInv, LoopInv, AllOrFalse
    <2>3. QED
      BY <2>1, <2>2 DEF IInv
  <1>7. CASE Return
    BY <1>7, WholePages DEF Return, IInv, CallInv, LoopInv, CopyInv, AllOrFalse
  <1>8. ASSUME NEW p \in Pages, NEW f \in Frames \cup {NoFrame}, Remap(p, f) PROVE IInv'
    <2>1. map' \in [Pages -> Frames \cup {NoFrame}]
      BY <1>8 DEF Remap, IInv, CallInv
    <2>2. QED
      BY <1>8, <2>1
      DEF Remap, locals, IInv, CallInv, LoopInv, TurnInv, CopyInv, InFrame, AllOrFalse
  <1>9. CASE UNCHANGED vars
    BY <1>9
    DEF vars, locals, IInv, CallInv, LoopInv, TurnInv, CopyInv, InFrame, AllOrFalse
  <1>10. QED
    BY <1>1, <1>2, <1>3, <1>4, <1>5, <1>6, <1>7, <1>8, <1>9 DEF Next, Steps

\* The invariant holds in every state.
THEOREM LoopInvariant == Spec => []IInv
PROOF
  <1>1. Init => IInv
    BY WholePages DEF Init, IInv, CallInv, LoopInv, CopyInv, AllOrFalse
  <1>2. QED
    BY <1>1, IInvStep, PTL DEF Spec

\* The frame and the offset of an address in a frame.
LEMMA FramePart ==
    ASSUME NEW f \in Frames, InFrame(f), Offset(srcAddrStart) \in 0 .. PageSize - 1
    PROVE  PageOf(physAddr) = f /\ physAddr % PageSize = Offset(srcAddrStart)
PROOF
  <1>1. f \in Int /\ PageSize \in Nat \ {0}
    BY FrameBase, SizeAssumption
  <1>2. physAddr = f * PageSize + Offset(srcAddrStart)
    BY DEF InFrame
  <1> DEFINE r == Offset(srcAddrStart)
  <1>3. r \in 0 .. PageSize - 1
    OBVIOUS
  <1> HIDE DEF r
  <1>4. (f * PageSize + r) % PageSize = r /\ (f * PageSize + r) \div PageSize = f
    BY <1>1, <1>3, RemainderUnique, QuotientUnique
  <1>5. QED
    BY <1>2, <1>4 DEF r, PageOf

\* Every access LMemRead and LMemWrite hand to MemRead and MemWrite lies in the page that
\* was translated for it.
THEOREM AccessStaysInPage == Spec => []AccessWithinPage
PROOF
  <1>1. IInv => AccessWithinPage
    <2>1. SUFFICES ASSUME IInv, pc = "copy"
                   PROVE  copySize > 0 /\ (physAddr % PageSize) + copySize <= PageSize
      BY DEF AccessWithinPage
    <2>2. CallInv /\ pos \in 0 .. size /\ pos < size /\ TurnInv
      BY <2>1, CopyFacts
    <2>3. /\ copySize \in 1 .. size - pos
          /\ Offset(srcAddrStart) \in 0 .. PageSize - 1
          /\ Offset(srcAddrStart) + copySize <= PageSize
      BY <2>2, TurnBounds
    <2>4. PICK f \in Frames : InFrame(f)
      BY <2>1, CopyFacts
    <2>5. physAddr % PageSize = Offset(srcAddrStart)
      BY <2>3, <2>4, FramePart
    <2>6. QED
      BY <2>2, <2>3, <2>5 DEF CallInv
  <1>2. QED
    BY <1>1, LoopInvariant, PTL

\* The arithmetic on the ends of pages keeps the loop at laddr + pos, also where the range
\* wraps round the address space.
THEOREM LoopStaysAt == Spec => []LoopIsAt
PROOF
  <1>1. IInv => LoopIsAt
    BY DEF IInv, CallInv, LoopInv, TurnInv, LoopIsAt
  <1>2. QED
    BY <1>1, LoopInvariant, PTL

\* The methods return true exactly when every byte was copied, and then bytesRead or
\* bytesWritten is the size.
THEOREM ReportsAllOrFalse == Spec => []AllOrFalse
PROOF
  <1>1. IInv => AllOrFalse
    BY DEF IInv
  <1>2. QED
    BY <1>1, LoopInvariant, PTL

\* One byte of a turn is in the page that was translated, and goes to its own offset in the
\* frame.
LEMMA ByteOfTurn ==
    ASSUME IInv, CopyPage, NEW i \in pos + 1 .. pos + copySize
    PROVE  /\ PageOf(Wrap(laddr + i - 1)) = PageOf(Wrap(laddr + pos))
           /\ Turn[i - pos] = PageOf(physAddr) * PageSize + (Wrap(laddr + i - 1) % PageSize)
PROOF
  <1> DEFINE b == i - pos - 1
  <1>0. pc = "copy"
    BY DEF CopyPage
  <1>1. /\ pos \in 0 .. size /\ pos < size /\ CallInv /\ TurnInv
        /\ size \in 0 .. AddrSpace - 1 /\ laddr \in 0 .. AddrSpace - 1
    BY <1>0, CopyFacts DEF CallInv
  <1>2. /\ srcAddrStart \in 0 .. AddrSpace - 1
        /\ Offset(srcAddrStart) \in 0 .. PageSize - 1
        /\ copySize \in 1 .. size - pos
        /\ Offset(srcAddrStart) + copySize <= PageSize
    BY <1>1, TurnBounds
  <1>3. /\ b \in Nat /\ Offset(srcAddrStart) + b < PageSize /\ srcAddrStart \in Int
        /\ i - pos = b + 1 /\ i - pos \in 1 .. copySize
    BY <1>1, <1>2, WholePages
  <1>4. Wrap(laddr + i - 1) = srcAddrStart + b
    <2>1. laddr + pos \in Int /\ b \in Int /\ laddr + i - 1 = (laddr + pos) + b
      BY <1>1, <1>2, <1>3
    <2>2. Wrap(Wrap(laddr + pos) + b) = Wrap((laddr + pos) + b)
      BY <2>1, WrapSum
    <2>3. srcAddrStart - Offset(srcAddrStart) \in 0 .. AddrSpace - PageSize
      BY <1>2, PageFits
    <2>4. srcAddrStart + b \in 0 .. AddrSpace - 1
      BY <1>2, <1>3, <2>3, WholePages
    <2>5. Wrap(srcAddrStart + b) = srcAddrStart + b
      BY <2>4, WrapIs
    <2>6. QED
      BY <1>1, <2>1, <2>2, <2>5 DEF TurnInv
  <1>5. /\ PageOf(srcAddrStart + b) = PageOf(srcAddrStart)
        /\ Offset(srcAddrStart + b) = Offset(srcAddrStart) + b
    BY <1>3, SamePage
  <1>6. PICK f \in Frames : InFrame(f)
    BY <1>0, CopyFacts
  <1> DEFINE base == f * PageSize
  <1>7. base \in Int /\ PageOf(physAddr) * PageSize = base
    BY <1>2, <1>6, FrameBase, FramePart
  <1>8. physAddr = base + Offset(srcAddrStart)
    BY <1>6 DEF InFrame
  <1>9. Turn[i - pos] = physAddr + (b + 1) - 1
    BY <1>3 DEF Turn
  <1> HIDE DEF base, b
  <1>10. Turn[i - pos] = base + Offset(srcAddrStart + b)
    BY <1>2, <1>3, <1>5, <1>7, <1>8, <1>9, WholePages
  <1>11. srcAddrStart = Wrap(laddr + pos)
    BY <1>1 DEF TurnInv
  <1>12. QED
    BY <1>4, <1>5, <1>7, <1>10, <1>11 DEF Offset

\* Each byte is copied through a translation that its own turn of the loop made of its own
\* page, whatever the guest does to its page tables at any time.
THEOREM BytesAreTranslated == Spec => EachByteTranslated
PROOF
  <1> DEFINE Asked == physAddr' \notin {physAddr, Unset} =>
                         physAddr' = LinearToPhysical(Wrap(laddr + pos))
             Byte(i) == LET a == Wrap(laddr + i - 1)
                        IN  /\ PageOf(a) = PageOf(Wrap(laddr + pos))
                            /\ copied'[i] = PageOf(physAddr) * PageSize + (a % PageSize)
             ByteStep == \A i \in Len(copied) + 1 .. Len(copied') : Byte(i)
  <1>1. IInv /\ [Next]_vars => [Asked /\ ByteStep]_vars
    <2>1. SUFFICES ASSUME IInv, Next PROVE Asked /\ ByteStep
      OBVIOUS
    <2>a. Asked
      <3>1. CASE Translate
        <4>1. srcAddrStart = Wrap(laddr + pos)
          BY <2>1, <3>1 DEF Translate, IInv, LoopInv, TurnInv
        <4>2. QED
          BY <3>1, <4>1 DEF Translate
      <3>2. CASE ~Translate
        BY <2>1, <3>2
        DEF Next, Steps, Call, CallNull, FailTranslate, CopyPage, FailCopy, Finish, Return,
            Remap, locals
      <3>3. QED
        BY <3>1, <3>2
    <2>2. CASE CopyPage
      <3>1. CallInv /\ pos \in 0 .. size /\ pos < size /\ TurnInv /\ Len(copied) = pos
        BY <2>1, <2>2, CopyFacts DEF CopyPage
      <3>2. copySize \in 1 .. size - pos /\ size \in Nat
        BY <3>1, TurnBounds DEF CallInv
      <3>3. copied' = copied \o Turn
        BY <2>2 DEF CopyPage
      <3>4. Turn \in Seq(Int) /\ Len(Turn) = copySize /\ copied \in Seq(Int)
        BY <2>1, <2>2, TurnIsSequence DEF IInv, CallInv
      <3>5. /\ Len(copied \o Turn) = Len(copied) + Len(Turn)
            /\ \A i \in 1 .. Len(copied) + Len(Turn) :
                  (copied \o Turn)[i] = IF i <= Len(copied) THEN copied[i] ELSE Turn[i - Len(copied)]
        BY <3>4, ConcatProperties, Zenon
      <3>6. ASSUME NEW i \in pos + 1 .. pos + copySize
            PROVE  copied'[i] = Turn[i - pos]
        BY <3>1, <3>2, <3>3, <3>4, <3>5
      <3>7. ASSUME NEW i \in pos + 1 .. pos + copySize
            PROVE  Byte(i)
        BY <2>1, <2>2, <3>6, ByteOfTurn
      <3>8. Len(copied) + 1 .. Len(copied') = pos + 1 .. pos + copySize
        BY <3>1, <3>3, <3>4, <3>5
      <3> HIDE DEF Byte
      <3>9. QED
        BY <2>a, <3>7, <3>8
    <2>3. CASE ~CopyPage
      <3>1. copied \in Seq(Int) /\ copied' \in {copied, << >>}
        BY <2>1, <2>3
        DEF Next, Steps, Call, CallNull, Translate, FailTranslate, FailCopy, Finish, Return,
            Remap, locals, IInv, CallInv
      <3>2. Len(copied) \in Nat /\ Len(copied') \in {Len(copied), 0}
        BY <3>1
      <3>3. Len(copied) + 1 .. Len(copied') = {}
        BY <3>2
      <3> HIDE DEF Byte
      <3>4. QED
        BY <2>a, <3>3
    <2>4. QED
      BY <2>2, <2>3
  <1>2. QED
    BY <1>1, LoopInvariant, PTL DEF Spec, EachByteTranslated

-----------------------------------------------------------------------------
(* Registers *)

\* The types of the variables; the banks of registers are functions on the places.
AccessTypes ==
    /\ backend \in {"haxm", "whpx"}
    /\ recent \in BOOLEAN /\ honours \in BOOLEAN /\ dirty \in BOOLEAN /\ running \in BOOLEAN
    /\ changed \subseteq Banks /\ pending \subseteq Places
    /\ DOMAIN copy = Places /\ DOMAIN vcpu = Places /\ DOMAIN file = Places

\* What is waiting for UpdateRegisters: only while HAXM's copies are newer than the VCPU,
\* in a bank that is marked, and never an MSR.
Waiting ==
    /\ changed # {} => backend = "haxm" /\ ~dirty /\ ~running
    /\ \A p \in pending : Bank(p[1]) \in changed /\ p[1] \notin MsrNames
    /\ running => status = "running"

\* The VCPU has every write that is not waiting.
VcpuHolds == \A p \in Places : p \notin pending => Agrees(vcpu[p], file[p])

\* HAXM's copies have every write, unless they are stale.
CopyHolds ==
    backend = "haxm" /\ ~dirty /\ ~running =>
        \A p \in Places : p[1] \notin MsrNames => Agrees(copy[p], file[p])

\* The inductive invariant.
AccessInv == AccessTypes /\ Waiting /\ VcpuHolds /\ CopyHolds

-----------------------------------------------------------------------------
(* Places and names *)

\* The chunks of a RegValue.
ValueChunks == UNION {Chunks(r) : r \in family}

\* A place is a register and a chunk of it.
LEMMA PlaceParts ==
    ASSUME NEW rs, NEW p \in Of(rs)
    PROVE  p = <<p[1], p[2]>> /\ p[1] \in rs /\ p[2] \in Chunks(p[1])
  <1>1. PICK r \in rs : p \in {r} \X Chunks(r)
    BY DEF Of
  <1>2. QED
    BY <1>1

\* The places of some of the registers.
LEMMA PlacesOf ==
    ASSUME NEW rs, NEW p \in Places
    PROVE  p \in Of(rs) <=> p[1] \in rs
  <1>1. p = <<p[1], p[2]>> /\ p[2] \in Chunks(p[1])
    BY PlaceParts DEF Places
  <1>2. ASSUME p[1] \in rs PROVE p \in Of(rs)
    <2>1. p \in {p[1]} \X Chunks(p[1])
      BY <1>1
    <2>2. QED
      BY <1>2, <2>1 DEF Of
  <1>3. QED
    BY <1>2, PlaceParts

\* The places of registers that are in use.
LEMMA PlacesWithin ==
    ASSUME NEW rs, rs \subseteq family
    PROVE  Of(rs) \subseteq Places
  BY DEF Of, Places

\* MSRs are read and written as a whole.
LEMMA MsrShape ==
    ASSUME NEW r \in MsrNames
    PROVE  /\ r \in family /\ Chunks(r) = {"all"} /\ r \notin General \cup Counters
           /\ r # "st" /\ r # "control" /\ Bank(r) = "regs"
  <1>1. r \in family /\ r \in MSRs \cup {"efer"}
    BY DEF MsrNames
  <1>2. r \notin General \cup Counters /\ r # "st" /\ r # "control" /\ r # "xmm"
    BY <1>1, RegisterAssumption DEF General, Counters, Legacy, Index, Extended, Whole
  <1>3. QED
    BY <1>1, <1>2 DEF Chunks, Bank

\* The kinds of names.
LEMMA NameKinds ==
    ASSUME NEW rs, NEW n \in NamesOf(rs)
    PROVE  /\ n = <<n[1], n[2]>> /\ n[1] \in rs
           /\ \/ /\ n[1] \in General /\ n[2] \in {"low8", "high8", "16", "32", "64"}
                 /\ n[2] = "high8" => n[1] = Legacy
              \/ n[1] \in Counters /\ n[2] \in {"16", "32", "64"}
              \/ n[1] = "st" /\ n[2] \in {"st", "mm"}
              \/ n[1] = "control" /\ n[2] \in {"fpu", "mxcsr", "mask"}
              \/ /\ n[1] \notin General \cup Counters \cup {"st", "control"}
                 /\ n[2] = "whole"
  <1>1. PICK r \in rs : n \in {r} \X Views(r)
    BY DEF NamesOf
  <1>2. n = <<n[1], n[2]>> /\ n[1] = r /\ n[2] \in Views(r)
    BY <1>1
  <1>3. CASE r = Legacy
    BY <1>2, <1>3 DEF Views, General, Legacy, Index, Extended, Counters
  <1>4. CASE r \in {Index, Extended}
    BY <1>2, <1>4 DEF Views, General, Legacy, Index, Extended, Counters
  <1>5. CASE r \in Counters
    BY <1>2, <1>5 DEF Views, General, Legacy, Index, Extended, Counters
  <1>6. CASE r = "st" \/ r = "control"
    BY <1>2, <1>6 DEF Views, General, Legacy, Index, Extended, Counters
  <1>7. CASE r \notin General \cup Counters \cup {"st", "control"}
    BY <1>2, <1>7 DEF Views, General, Legacy, Index, Extended, Counters
  <1>8. QED
    BY <1>2, <1>3, <1>4, <1>5, <1>6, <1>7 DEF General

\* The chunks of the control registers.
LEMMA ControlChunks == Chunks("control") = FPUControl \cup {"mxcsr", "mask"}
  BY DEF Chunks, General, Legacy, Index, Extended, Counters

\* A name stands for chunks of its register.
LEMMA OwnChunks ==
    ASSUME NEW rs, NEW n \in NamesOf(rs)
    PROVE  /\ DOMAIN Own(n) \subseteq Chunks(n[1])
           /\ \A c \in DOMAIN Own(n) : Own(n)[c] \in Chunks(n[1])
           /\ n[2] # "high8" => \A c \in DOMAIN Own(n) : Own(n)[c] = c
  <1> USE DEF Same, SetLowByte, SetHighByte, SetLowWord, LowDword
  <1>1. CASE n[1] \in General /\ n[2] \in {"low8", "high8", "16", "32", "64"}
    <2>1. Chunks(n[1]) = {"b0", "b1", "w", "d"}
      BY <1>1 DEF Chunks, General, Legacy, Index, Extended
    <2>2. QED
      BY <1>1, <2>1 DEF Own
  <1>2. CASE n[1] \in Counters /\ n[2] \in {"16", "32", "64"}
    <2>1. Chunks(n[1]) = {"b0", "b1", "w", "d"}
      BY <1>2 DEF Chunks, Counters
    <2>2. QED
      BY <1>2, <2>1 DEF Own
  <1>3. CASE n[1] = "st" /\ n[2] \in {"st", "mm"}
    BY <1>3 DEF Own, Chunks, General, Legacy, Index, Extended, Counters
  <1>4. CASE n[1] = "control" /\ n[2] \in {"fpu", "mxcsr", "mask"}
    BY <1>4, ControlChunks DEF Own
  <1>5. CASE n[2] = "whole"
    BY <1>5 DEF Own
  <1>6. QED
    BY <1>1, <1>2, <1>3, <1>4, <1>5, NameKinds

\* HaxmWrite does what the architecture says of the chunks for which there is a rule and
\* no departure.
LEMMA HaxmMoves ==
    ASSUME NEW rs, NEW n \in NamesOf(rs), NEW c \in Chunks(n[1]), backend = "haxm",
           c \notin Departures(n) \cup NoRule(n)
    PROVE  /\ c \in DOMAIN HaxmWrite(n) <=> c \in DOMAIN Architecture(n)
           /\ c \in DOMAIN HaxmWrite(n) => /\ HaxmWrite(n)[c] = Architecture(n)[c]
                                           /\ HaxmWrite(n)[c] \in Chunks(n[1]) \cup {"zero"}
  <1> USE DEF ZeroExtended
  <1>1. CASE n[1] = Index /\ n[2] = "low8"
    <2>1. n = <<Index, "low8">>
      BY <1>1, NameKinds
    <2>2. c # "b1"
      BY <2>1 DEF Departures
    <2>3. HaxmWrite(n) = ZeroExtended(SetLowByte, {"b1"}) /\ Architecture(n) = SetLowByte
      BY <1>1 DEF HaxmWrite, Architecture, Own, Counters, Index
    <2>4. QED
      BY <2>2, <2>3 DEF SetLowByte, Same
  <1>2. CASE n[1] \in Counters /\ n[2] = "16"
    <2>1. HaxmWrite(n) = ZeroExtended(SetLowWord, {"w"}) /\ Architecture(n) = SetLowWord
      BY <1>2 DEF HaxmWrite, Architecture, Own, Counters, Index, General, Legacy, Extended
    <2>2. c \in DOMAIN SetLowWord
      BY <1>2 DEF NoRule, Own
    <2>3. QED
      BY <2>1, <2>2 DEF SetLowWord, Same
  <1>3. CASE n[1] \in General /\ n[2] = "32"
    <2>1. HaxmWrite(n) = ZeroExtended(LowDword, {"d"})
      BY <1>3 DEF HaxmWrite, Counters, Index, General, Legacy, Extended
    <2>2. Architecture(n) = ZeroExtended(LowDword, {"d"})
      BY <1>3 DEF Architecture, Own
    <2>3. QED
      BY <2>1, <2>2 DEF LowDword, Same
  <1>4. CASE /\ ~(n[1] = Index /\ n[2] = "low8") /\ ~(n[1] \in Counters /\ n[2] = "16")
             /\ ~(n[1] \in General /\ n[2] = "32") /\ n[2] # "fpu"
    <2>1. HaxmWrite(n) = Own(n) /\ Architecture(n) = Own(n)
      BY <1>4 DEF HaxmWrite, Architecture
    <2>2. QED
      BY <2>1, OwnChunks
  <1>5. CASE n[2] = "fpu"
    <2>1. HaxmWrite(n) = HaxmControl /\ Architecture(n) = Same(FPUControl)
      BY <1>5 DEF HaxmWrite, Architecture, Own
    <2>2. c \notin {"tw", "rip", "rdp"} /\ n[1] = "control"
      BY <1>5, NameKinds DEF Departures
    <2>3. QED
      BY <2>1, <2>2, ControlChunks DEF HaxmControl, FPUControl, DataPointer, Same
  <1>6. QED
    BY <1>1, <1>2, <1>3, <1>4, <1>5

\* What HaxmWrite changes is named by the architecture, or nothing is said of it.
LEMMA HaxmMovesFiled ==
    ASSUME NEW rs, NEW n \in NamesOf(rs), NEW c \in Chunks(n[1]), backend = "haxm"
    PROVE  /\ c \in DOMAIN HaxmWrite(n) => c \in DOMAIN Filed(n)
           /\ c \in DOMAIN Filed(n) =>
                 \/ Filed(n)[c] = "unsaid"
                 \/ /\ c \in DOMAIN HaxmWrite(n) /\ HaxmWrite(n)[c] = Filed(n)[c]
                    /\ Filed(n)[c] \in Chunks(n[1]) \cup {"zero"}
  <1>1. CASE c \in Departures(n) \cup NoRule(n)
    BY <1>1 DEF Filed
  <1>2. CASE c \notin Departures(n) \cup NoRule(n)
    BY <1>2, HaxmMoves DEF Filed
  <1>3. QED
    BY <1>1, <1>2

\* The same of the value that WHPX makes of the register, where other chunks are kept.
LEMMA WhpxMovesFiled ==
    ASSUME NEW rs, NEW n \in NamesOf(rs), NEW c \in Chunks(n[1]), backend = "whpx"
    PROVE  /\ c \in DOMAIN WhpxMove(n)
           /\ c \notin DOMAIN Filed(n) => WhpxMove(n)[c] = "kept"
           /\ c \in DOMAIN Filed(n) =>
                 \/ Filed(n)[c] = "unsaid"
                 \/ /\ WhpxMove(n)[c] = Filed(n)[c]
                    /\ Filed(n)[c] \in Chunks(n[1]) \cup {"zero"}
  <1>1. CASE c \in Departures(n) \cup NoRule(n)
    BY <1>1 DEF Filed, WhpxMove
  <1>2. CASE c \notin Departures(n) \cup NoRule(n)
    <2>1. /\ c \in DOMAIN WhpxWrite(n) <=> c \in DOMAIN Architecture(n)
          /\ c \in DOMAIN WhpxWrite(n) => /\ WhpxWrite(n)[c] = Architecture(n)[c]
                                          /\ WhpxWrite(n)[c] \in Chunks(n[1]) \cup {"zero"}
      <3> USE DEF ZeroExtended
      <3>1. CASE n[1] \in General /\ n[2] = "32"
        <4>1. WhpxWrite(n) = ZeroExtended(LowDword, {"d"})
          BY <3>1 DEF WhpxWrite
        <4>2. Architecture(n) = ZeroExtended(LowDword, {"d"})
          BY <3>1 DEF Architecture, Own
        <4>3. QED
          BY <4>1, <4>2 DEF LowDword, Same
      <3>2. CASE n[1] \in Counters /\ n[2] = "32"
        <4>1. WhpxWrite(n) = ZeroExtended(LowDword, {"d"}) /\ Architecture(n) = LowDword
          BY <3>2 DEF WhpxWrite, Architecture, Own, General, Legacy, Index, Extended, Counters
        <4>2. c \in DOMAIN LowDword
          BY <1>2, <3>2 DEF NoRule, Own
        <4>3. QED
          BY <4>1, <4>2 DEF LowDword, Same
      <3>3. CASE n[1] = "control" /\ n[2] \in {"fpu", "mxcsr", "mask"}
        <4>1. Architecture(n) = Own(n)
          BY <3>3 DEF Architecture
        <4>2. CASE n[2] = "fpu"
          <5>1. /\ WhpxWrite(n) = ZeroExtended(WhpxControl, {"mxcsr", "mask"})
                /\ c \notin {"tw", "cs", "ds", "mxcsr", "mask"} /\ Own(n) = Same(FPUControl)
            BY <1>2, <4>2 DEF WhpxWrite, Departures, Own
          <5>2. c \in FPUControl /\ FPUControl \subseteq Chunks(n[1])
            BY <3>3, <5>1, ControlChunks
          <5>3. WhpxControl[c] = c /\ DOMAIN WhpxControl = FPUControl
            BY <5>1, <5>2 DEF WhpxControl
          <5>4. QED
            BY <4>1, <5>1, <5>2, <5>3 DEF Same
        <4>3. CASE n[2] = "mxcsr"
          <5>1. /\ WhpxWrite(n) = ZeroExtended(Own(n), DataPointer \cup {"mask"})
                /\ c \notin DataPointer \cup {"mask"}
            BY <1>2, <4>3 DEF WhpxWrite, Departures
          <5>2. QED
            BY <4>1, <5>1, OwnChunks
        <4>4. CASE n[2] = "mask"
          <5>1. /\ WhpxWrite(n) = ZeroExtended(Own(n), DataPointer \cup {"mxcsr"})
                /\ c \notin DataPointer \cup {"mxcsr"}
            BY <1>2, <4>4 DEF WhpxWrite, Departures
          <5>2. QED
            BY <4>1, <5>1, OwnChunks
        <4>5. QED
          BY <3>3, <4>2, <4>3, <4>4
      <3>4. CASE n[2] \notin {"32", "fpu", "mxcsr", "mask"}
        <4>1. WhpxWrite(n) = Own(n) /\ Architecture(n) = Own(n)
          BY <3>4 DEF WhpxWrite, Architecture
        <4>2. QED
          BY <4>1, OwnChunks
      <3>5. QED
        BY <3>1, <3>2, <3>3, <3>4, NameKinds
    <2>2. QED
      BY <1>2, <2>1 DEF Filed, WhpxMove
  <1>3. QED
    BY <1>1, <1>2

\* What HaxmRead and WhpxRead take from the register, against the architecture.
LEMMA ReadMoves ==
    ASSUME NEW rs, NEW n \in NamesOf(rs), NEW got, NEW c \in DOMAIN Sources(n) \ Amiss(n, got)
    PROVE  /\ c \in Chunks(n[1]) /\ Sources(n)[c] \in Chunks(n[1]) \ {"zero"}
           /\ backend = "haxm" => c \in DOMAIN HaxmRead(n) /\ HaxmRead(n)[c] = Sources(n)[c]
           /\ backend = "whpx" => c \in DOMAIN WhpxRead(n) /\ WhpxRead(n)[c] = Sources(n)[c]
  <1>0. "zero" \notin Chunks(n[1])
    BY DEF Chunks, FPUControl, DataPointer
  <1>1. CASE n[2] = "high8"
    <2>1. n[1] \in General /\ Own(n) = [d \in {"b1"} |-> "b0"]
      BY <1>1, NameKinds DEF Own, SetHighByte
    <2>2. Chunks(n[1]) = {"b0", "b1", "w", "d"}
      BY <2>1 DEF Chunks, General, Legacy, Index, Extended
    <2>3. {Own(n)[d] : d \in DOMAIN Own(n)} = {"b0"}
      BY <2>1
    <2>4. (CHOOSE d \in DOMAIN Own(n) : Own(n)[d] = "b0") = "b1"
      <3>1. DOMAIN Own(n) = {"b1"} /\ Own(n)["b1"] = "b0"
        BY <2>1
      <3>2. \E d \in DOMAIN Own(n) : Own(n)[d] = "b0"
        BY <3>1
      <3>3. QED
        BY <3>1, <3>2
    <2>5. Sources(n) = [d \in {"b0"} |-> "b1"]
      BY <2>3, <2>4 DEF Sources
    <2>6. backend # "whpx"
      BY <1>1, <2>5 DEF Amiss
    <2>7. QED
      BY <1>0, <1>1, <2>2, <2>5, <2>6 DEF HaxmRead
  <1>2. CASE n[2] # "high8"
    <2>1. /\ DOMAIN Own(n) \subseteq Chunks(n[1])
          /\ \A d \in DOMAIN Own(n) : Own(n)[d] = d
      BY <1>2, OwnChunks
    <2>2. {Own(n)[d] : d \in DOMAIN Own(n)} = DOMAIN Own(n)
      BY <2>1
    <2>3. Sources(n) = [d \in DOMAIN Own(n) |-> d]
      <3>1. ASSUME NEW v \in DOMAIN Own(n)
            PROVE  (CHOOSE d \in DOMAIN Own(n) : Own(n)[d] = v) = v
        BY <2>1
      <3>2. QED
        BY <2>2, <3>1 DEF Sources
    <2>4. c \in DOMAIN Own(n) /\ Sources(n)[c] = c /\ Own(n)[c] = c /\ c \in Chunks(n[1])
      BY <2>1, <2>3
    <2>5. CASE n[2] = "fpu"
      <3>1. n[1] = "control" /\ n[1] \notin General \cup Counters /\ c \in FPUControl
        BY <2>4, <2>5, NameKinds DEF Own, Same, General, Legacy, Index, Extended, Counters
      <3>2. ASSUME backend = "haxm"
            PROVE  c \in DOMAIN HaxmRead(n) /\ HaxmRead(n)[c] = c
        <4>1. c \notin {"tw", "rip", "rdp"} /\ HaxmRead(n) = HaxmControl
          BY <2>5, <3>2 DEF Amiss, HaxmRead
        <4>2. QED
          BY <3>1, <4>1 DEF HaxmControl, ZeroExtended, Same, FPUControl, DataPointer
      <3>3. ASSUME backend = "whpx"
            PROVE  c \in DOMAIN WhpxRead(n) /\ WhpxRead(n)[c] = c
        <4>1. c \notin {"tw", "cs", "ds"} /\ WhpxRead(n) = WhpxControl
          BY <2>5, <3>1, <3>3 DEF Amiss, WhpxRead
        <4>2. QED
          BY <3>1, <4>1 DEF WhpxControl
      <3>4. QED
        BY <1>0, <2>4, <3>2, <3>3
    <2>6. CASE n[2] # "fpu"
      BY <1>0, <1>2, <2>4, <2>6 DEF HaxmRead, WhpxRead, Same
    <2>7. QED
      BY <2>5, <2>6
  <1>3. QED
    BY <1>1, <1>2

-----------------------------------------------------------------------------
(* Batches *)

\* A batch: assignments of values to names, by number.
LEMMA AfterValue ==
    ASSUME NEW regs, NEW batch, NEW moves, NEW p \in DOMAIN regs, NEW k \in Nat,
           DOMAIN batch \subseteq 1 .. k,
           NEW to, to = {i \in DOMAIN batch : batch[i][1][1] = p[1] /\ p[2] \in DOMAIN moves[i]}
    PROVE  \/ to = {} /\ After(regs, batch, moves)[p] = regs[p]
           \/ \E i \in to : /\ \A j \in to : j <= i
                            /\ After(regs, batch, moves)[p]
                                   = Piece(regs, p, batch[i][2], moves[i][p[2]])
  <1>1. After(regs, batch, moves)[p]
           = IF to = {} THEN regs[p]
             ELSE Piece(regs, p, batch[Max(to)][2], moves[Max(to)][p[2]])
    BY DEF After
  <1>2. CASE to = {}
    BY <1>1, <1>2
  <1>3. CASE to # {}
    <2>1. to \subseteq 0 .. k
      OBVIOUS
    <2>2. \E x \in to : \A y \in to : y <= x
      BY <1>3, <2>1, GreatestNumber
    <2>3. \E x \in to : \A y \in to : x >= y
      BY <2>1, <2>2
    <2>4. Max(to) \in to /\ \A y \in to : Max(to) >= y
      BY <2>3 DEF Max
    <2>5. \A y \in to : y <= Max(to)
      BY <2>1, <2>4
    <2>6. QED
      BY <1>1, <1>3, <2>4, <2>5
  <1>4. QED
    BY <1>2, <1>3

\* A register that is not named is left alone.
LEMMA AfterFrame ==
    ASSUME NEW regs, NEW batch, NEW moves, NEW p \in DOMAIN regs,
           p[1] \notin Registers(batch)
    PROVE  After(regs, batch, moves)[p] = regs[p]
  <1>1. {i \in DOMAIN batch : batch[i][1][1] = p[1] /\ p[2] \in DOMAIN moves[i]} = {}
    BY DEF Registers
  <1>2. QED
    BY <1>1 DEF After

\* Two assignments of the same chunk agree if the values do.
LEMMA PiecesAgree ==
    ASSUME NEW regs, NEW f, NEW p, NEW v, NEW w, NEW from \in ValueChunks \cup {"zero"},
           Agrees(regs[p], f[p]), \A c \in ValueChunks : Agrees(v[c], w[c])
    PROVE  Agrees(Piece(regs, p, v, from), Piece(f, p, w, from))
  BY DEF Piece, Agrees

\* A place of two banks of registers, after two loops that assign the same values to its
\* register, the second by the rules of the architecture.
LEMMA AfterAgrees ==
    ASSUME NEW regs, NEW f, NEW p \in DOMAIN regs, p \in DOMAIN f,
           NEW batch, NEW ref, NEW moves, NEW rules, NEW k \in Nat,
           DOMAIN batch \subseteq 1 .. k, DOMAIN ref \subseteq 1 .. k,
           {i \in DOMAIN batch : batch[i][1][1] = p[1]} = {i \in DOMAIN ref : ref[i][1][1] = p[1]},
           Agrees(regs[p], f[p]),
           \A i \in DOMAIN batch : batch[i][1][1] = p[1] =>
               /\ \A c \in ValueChunks : Agrees(batch[i][2][c], ref[i][2][c])
               /\ p[2] \in DOMAIN moves[i] => p[2] \in DOMAIN rules[i]
               /\ p[2] \in DOMAIN rules[i] =>
                     \/ rules[i][p[2]] = "unsaid"
                     \/ /\ p[2] \in DOMAIN moves[i] /\ moves[i][p[2]] = rules[i][p[2]]
                        /\ rules[i][p[2]] \in ValueChunks \cup {"zero"}
    PROVE  Agrees(After(regs, batch, moves)[p], After(f, ref, rules)[p])
  <1> DEFINE named == {i \in DOMAIN batch : batch[i][1][1] = p[1]}
             to == {i \in DOMAIN batch : batch[i][1][1] = p[1] /\ p[2] \in DOMAIN moves[i]}
             by == {i \in DOMAIN ref : ref[i][1][1] = p[1] /\ p[2] \in DOMAIN rules[i]}
             new == After(regs, batch, moves)[p]
             filed == After(f, ref, rules)[p]
  <1>1. \/ to = {} /\ new = regs[p]
        \/ \E i \in to : (\A j \in to : j <= i) /\ new = Piece(regs, p, batch[i][2], moves[i][p[2]])
    <2>1. to = {i \in DOMAIN batch : batch[i][1][1] = p[1] /\ p[2] \in DOMAIN moves[i]}
      OBVIOUS
    <2> HIDE DEF to
    <2>2. QED
      BY <2>1, AfterValue
  <1>2. \/ by = {} /\ filed = f[p]
        \/ \E i \in by : (\A j \in by : j <= i) /\ filed = Piece(f, p, ref[i][2], rules[i][p[2]])
    <2>1. by = {i \in DOMAIN ref : ref[i][1][1] = p[1] /\ p[2] \in DOMAIN rules[i]}
      OBVIOUS
    <2>2. filed = After(f, ref, rules)[p] /\ p \in DOMAIN f /\ DOMAIN ref \subseteq 1 .. k
      OBVIOUS
    <2> HIDE DEF by, to, named, new, filed
    <2>3. QED
      BY <2>1, <2>2, AfterValue
  <1>3. to \subseteq by /\ to \subseteq Int /\ by \subseteq named /\ named \subseteq DOMAIN batch
    OBVIOUS
  <1>4. CASE by = {}
    <2>1. to = {}
      BY <1>3, <1>4
    <2>2. filed = f[p] /\ new = regs[p]
      BY <1>1, <1>2, <1>4, <2>1
    <2>3. QED
      BY <2>2
  <1>5. CASE by # {}
    <2>1. PICK i \in by : /\ \A j \in by : j <= i
                          /\ filed = Piece(f, p, ref[i][2], rules[i][p[2]])
      BY <1>2, <1>5
    <2>2. i \in named /\ p[2] \in DOMAIN rules[i]
      BY <1>3, <2>1
    <2>3. CASE rules[i][p[2]] = "unsaid"
      BY <2>1, <2>3 DEF Piece, Agrees
    <2>4. CASE rules[i][p[2]] # "unsaid"
      <3>1. /\ i \in to /\ moves[i][p[2]] = rules[i][p[2]]
            /\ rules[i][p[2]] \in ValueChunks \cup {"zero"}
            /\ \A c \in ValueChunks : Agrees(batch[i][2][c], ref[i][2][c])
        BY <2>2, <2>4
      <3>2. PICK j \in to : /\ \A l \in to : l <= j
                            /\ new = Piece(regs, p, batch[j][2], moves[j][p[2]])
        BY <1>1, <3>1
      <3>3. j = i
        <4>1. i \in Int /\ j \in Int /\ i <= j /\ j <= i
          BY <1>3, <2>1, <3>1, <3>2
        <4>2. QED
          BY <4>1
      <3>4. QED
        BY <2>1, <3>1, <3>2, <3>3, PiecesAgree
    <2>5. QED
      BY <2>3, <2>4
  <1>6. QED
    BY <1>4, <1>5

\* The chunks of a register in use are chunks of a RegValue.
LEMMA ChunksOfValues ==
    /\ \A r \in family : Chunks(r) \subseteq ValueChunks
    /\ DOMAIN Value(0) = ValueChunks
  BY DEF ValueChunks, Value

\* A batch and what it should assign: names that are no MSRs, except EFER, and values that
\* agree wherever something is said of them.
Matched(batch, reference) ==
    /\ \E k \in Nat : DOMAIN batch = 1 .. k
    /\ DOMAIN reference = DOMAIN batch
    /\ \A i \in DOMAIN batch :
          /\ batch[i][1] \in NamesOf(family \ MSRs) /\ reference[i][1] = batch[i][1]
          /\ \A c \in ValueChunks : Agrees(batch[i][2][c], reference[i][2][c])

\* HAXM's loop and the architecture, for the registers named in a part of the batch.
LEMMA HaxmAgrees ==
    ASSUME NEW regs, NEW f, NEW p \in Places, DOMAIN regs = Places, DOMAIN f = Places,
           NEW batch, NEW reference, NEW part, backend = "haxm", Matched(batch, reference),
           DOMAIN part \subseteq DOMAIN batch, \A i \in DOMAIN part : part[i] = batch[i],
           \A i \in DOMAIN batch : batch[i][1][1] = p[1] => i \in DOMAIN part,
           Agrees(regs[p], f[p])
    PROVE  Agrees(HaxmWrites(regs, part)[p], FiledAll(f, reference)[p])
  <1>1. PICK k \in Nat : DOMAIN batch = 1 .. k
    BY DEF Matched
  <1>2. p[1] \in family /\ p[2] \in Chunks(p[1])
    BY PlaceParts DEF Places
  <1> DEFINE moves == [i \in DOMAIN part |-> HaxmWrite(part[i][1])]
             rules == [i \in DOMAIN reference |-> Filed(reference[i][1])]
  <1>3. {i \in DOMAIN part : part[i][1][1] = p[1]}
           = {i \in DOMAIN reference : reference[i][1][1] = p[1]}
    BY DEF Matched
  <1>4. ASSUME NEW i \in DOMAIN part, part[i][1][1] = p[1]
        PROVE  /\ \A c \in ValueChunks : Agrees(part[i][2][c], reference[i][2][c])
               /\ p[2] \in DOMAIN moves[i] => p[2] \in DOMAIN rules[i]
               /\ p[2] \in DOMAIN rules[i] =>
                     \/ rules[i][p[2]] = "unsaid"
                     \/ /\ p[2] \in DOMAIN moves[i] /\ moves[i][p[2]] = rules[i][p[2]]
                        /\ rules[i][p[2]] \in ValueChunks \cup {"zero"}
    <2> DEFINE n == batch[i][1]
    <2>1. n \in NamesOf(family \ MSRs) /\ n[1] = p[1]
      BY <1>4 DEF Matched
    <2>2. moves[i] = HaxmWrite(n) /\ rules[i] = Filed(n)
      BY <1>4 DEF Matched
    <2> HIDE DEF moves, rules, n
    <2>3. /\ p[2] \in DOMAIN HaxmWrite(n) => p[2] \in DOMAIN Filed(n)
          /\ p[2] \in DOMAIN Filed(n) =>
                \/ Filed(n)[p[2]] = "unsaid"
                \/ /\ p[2] \in DOMAIN HaxmWrite(n) /\ HaxmWrite(n)[p[2]] = Filed(n)[p[2]]
                   /\ Filed(n)[p[2]] \in Chunks(n[1]) \cup {"zero"}
      BY <1>2, <2>1, HaxmMovesFiled
    <2>4. \A c \in ValueChunks : Agrees(part[i][2][c], reference[i][2][c])
      BY DEF Matched
    <2>5. Chunks(n[1]) \subseteq ValueChunks
      BY <1>2, <2>1, ChunksOfValues
    <2>6. QED
      BY <2>2, <2>3, <2>4, <2>5
  <1>5. DOMAIN part \subseteq 1 .. k /\ DOMAIN reference \subseteq 1 .. k
    BY <1>1 DEF Matched
  <1> HIDE DEF moves, rules
  <1>6. Agrees(After(regs, part, moves)[p], After(f, reference, rules)[p])
    BY <1>3, <1>4, <1>5, AfterAgrees
  <1>7. QED
    BY <1>6 DEF HaxmWrites, FiledAll, moves, rules

\* WHPX's loop and the architecture, for registers that are named once.
LEMMA WhpxAgrees ==
    ASSUME NEW f, NEW p \in Places, DOMAIN vcpu = Places, DOMAIN f = Places,
           NEW batch, NEW reference, backend = "whpx", Matched(batch, reference),
           p[1] \notin Aliased(batch), Agrees(vcpu[p], f[p])
    PROVE  Agrees(WhpxWrites(batch)[p], FiledAll(f, reference)[p])
  <1>1. PICK k \in Nat : DOMAIN batch = 1 .. k
    BY DEF Matched
  <1>2. p[1] \in family /\ p[2] \in Chunks(p[1])
    BY PlaceParts DEF Places
  <1> DEFINE moves == [i \in DOMAIN batch |-> WhpxMove(batch[i][1])]
             rules == [i \in DOMAIN reference |-> Filed(reference[i][1])]
             to == {i \in DOMAIN batch : batch[i][1][1] = p[1] /\ p[2] \in DOMAIN moves[i]}
             by == {i \in DOMAIN reference : reference[i][1][1] = p[1] /\ p[2] \in DOMAIN rules[i]}
             new == After(vcpu, batch, moves)[p]
             filed == After(f, reference, rules)[p]
  <1>3. new = WhpxWrites(batch)[p] /\ filed = FiledAll(f, reference)[p]
    BY DEF WhpxWrites, FiledAll
  <1>4. CASE p[1] \notin Registers(batch)
    <2>1. p[1] \notin Registers(reference)
      BY <1>4 DEF Registers, Matched
    <2>2. new = vcpu[p] /\ filed = f[p]
      BY <1>4, <2>1, AfterFrame
    <2>3. QED
      BY <1>3, <2>2
  <1>5. CASE p[1] \in Registers(batch)
    <2>1. PICK i \in DOMAIN batch : batch[i][1][1] = p[1]
      BY <1>5 DEF Registers
    <2>2. \A j \in DOMAIN batch : batch[j][1][1] = p[1] => j = i
      BY <1>5, <2>1 DEF Aliased
    <2> DEFINE n == batch[i][1]
    <2>3. n \in NamesOf(family \ MSRs) /\ n[1] = p[1] /\ reference[i][1] = n
      BY <2>1 DEF Matched
    <2>4. moves[i] = WhpxMove(n) /\ rules[i] = Filed(n) /\ i \in DOMAIN reference
      BY <2>3 DEF Matched
    <2>5. by \subseteq {i} /\ (i \in by <=> p[2] \in DOMAIN rules[i])
      BY <2>1, <2>2, <2>3, <2>4 DEF Matched
    <2>6. to \subseteq {i} /\ (i \in to <=> p[2] \in DOMAIN moves[i])
      BY <2>1, <2>2
    <2>7. \/ to = {} /\ new = vcpu[p]
          \/ \E j \in to : (\A l \in to : l <= j) /\ new = Piece(vcpu, p, batch[j][2], moves[j][p[2]])
      <3>1. to = {j \in DOMAIN batch : batch[j][1][1] = p[1] /\ p[2] \in DOMAIN moves[j]}
        OBVIOUS
      <3>2. DOMAIN batch \subseteq 1 .. k
        BY <1>1
      <3> HIDE DEF to, moves
      <3>3. QED
        BY <3>1, <3>2, AfterValue
    <2>8. \/ by = {} /\ filed = f[p]
          \/ \E j \in by : (\A l \in by : l <= j) /\ filed = Piece(f, p, reference[j][2], rules[j][p[2]])
      <3>1. by = {j \in DOMAIN reference : reference[j][1][1] = p[1] /\ p[2] \in DOMAIN rules[j]}
        OBVIOUS
      <3>2. DOMAIN reference \subseteq 1 .. k
        BY <1>1 DEF Matched
      <3> HIDE DEF by, rules
      <3>3. QED
        BY <3>1, <3>2, AfterValue
    <2>9. \A c \in ValueChunks : Agrees(batch[i][2][c], reference[i][2][c])
      BY DEF Matched
    <2> HIDE DEF n, to, by, new, filed, moves, rules
    <2>10. /\ p[2] \in DOMAIN WhpxMove(n)
           /\ p[2] \notin DOMAIN Filed(n) => WhpxMove(n)[p[2]] = "kept"
           /\ p[2] \in DOMAIN Filed(n) =>
                 \/ Filed(n)[p[2]] = "unsaid"
                 \/ /\ WhpxMove(n)[p[2]] = Filed(n)[p[2]]
                    /\ Filed(n)[p[2]] \in Chunks(n[1]) \cup {"zero"}
      BY <1>2, <2>3, WhpxMovesFiled
    <2>11. new = Piece(vcpu, p, batch[i][2], moves[i][p[2]])
      BY <2>4, <2>6, <2>7, <2>10
    <2>12. CASE p[2] \notin DOMAIN Filed(n)
      <3>1. by = {}
        BY <2>4, <2>5, <2>12
      <3>2. filed = f[p] /\ new = vcpu[p]
        BY <2>4, <2>8, <2>10, <2>11, <2>12, <3>1 DEF Piece
      <3>3. QED
        BY <1>3, <3>2
    <2>13. CASE p[2] \in DOMAIN Filed(n)
      <3>1. filed = Piece(f, p, reference[i][2], rules[i][p[2]])
        BY <2>4, <2>5, <2>8, <2>13
      <3>2. CASE Filed(n)[p[2]] = "unsaid"
        BY <1>3, <2>4, <3>1, <3>2 DEF Piece, Agrees
      <3>3. CASE Filed(n)[p[2]] # "unsaid"
        <4>1. moves[i][p[2]] = rules[i][p[2]] /\ rules[i][p[2]] \in ValueChunks \cup {"zero"}
          BY <1>2, <2>3, <2>4, <2>10, <2>13, <3>3, ChunksOfValues
        <4>2. QED
          BY <1>3, <2>9, <2>11, <3>1, <4>1, PiecesAgree
      <3>4. QED
        BY <3>2, <3>3
    <2>14. QED
      BY <2>12, <2>13
  <1>6. QED
    BY <1>4, <1>5

\* MSRs that are written on both sides.
LEMMA MsrAgrees ==
    ASSUME NEW f, NEW p \in Places, DOMAIN vcpu = Places, DOMAIN f = Places,
           NEW batch, NEW k \in Nat, DOMAIN batch = 1 .. k,
           \A i \in DOMAIN batch : batch[i][1] \in MsrNames \X {"whole"},
           Agrees(vcpu[p], f[p])
    PROVE  Agrees(MsrWrites(vcpu, batch)[p], MsrWrites(f, batch)[p])
  <1>1. p[1] \in family /\ p[2] \in Chunks(p[1])
    BY PlaceParts DEF Places
  <1> DEFINE moves == [i \in DOMAIN batch |-> Own(batch[i][1])]
  <1>2. ASSUME NEW i \in DOMAIN batch, batch[i][1][1] = p[1]
        PROVE  /\ \A c \in ValueChunks : Agrees(batch[i][2][c], batch[i][2][c])
               /\ p[2] \in DOMAIN moves[i] => moves[i][p[2]] \in ValueChunks \cup {"zero"}
    <2> DEFINE n == batch[i][1]
    <2>1. n \in MsrNames \X {"whole"} /\ n[1] = p[1] /\ n[2] = "whole"
      BY <1>2
    <2>2. Own(n) = Same(Chunks(n[1])) /\ moves[i] = Own(n)
      BY <2>1 DEF Own
    <2>3. QED
      BY <1>1, <2>1, <2>2, ChunksOfValues DEF Same, Agrees
  <1>3. DOMAIN batch \subseteq 1 .. k
    OBVIOUS
  <1> HIDE DEF moves
  <1>4. Agrees(After(vcpu, batch, moves)[p], After(f, batch, moves)[p])
    BY <1>2, <1>3, AfterAgrees
  <1>5. QED
    BY <1>4 DEF MsrWrites, moves

-----------------------------------------------------------------------------
(* Reading *)

\* Nothing waits on WHPX, nor while HAXM's copies are stale or the guest runs.
LEMMA NothingPending ==
    ASSUME AccessInv, backend = "whpx" \/ dirty \/ running
    PROVE  changed = {} /\ pending = {}
  <1>1. changed = {}
    BY DEF AccessInv, Waiting, AccessTypes
  <1>2. QED
    BY <1>1 DEF AccessInv, Waiting

\* Refreshed copies have every write.
LEMMA RefreshedHolds ==
    ASSUME AccessInv, backend = "haxm", ~running
    PROVE  /\ DOMAIN Refreshed = Places
           /\ \A p \in Places : p[1] \notin MsrNames => Agrees(Refreshed[p], file[p])
  <1>1. CASE dirty
    BY <1>1, NothingPending DEF AccessInv, AccessTypes, VcpuHolds, Refreshed
  <1>2. CASE ~dirty
    BY <1>2 DEF AccessInv, AccessTypes, CopyHolds, Refreshed
  <1>3. QED
    BY <1>1, <1>2

\* The VCPU has the MSRs, EFER among them.
LEMMA MsrsHold ==
    ASSUME AccessInv, NEW p \in Places, p[1] \in MsrNames \/ backend = "whpx"
    PROVE  Agrees(vcpu[p], file[p])
  <1>1. p \notin pending
    BY NothingPending DEF AccessInv, Waiting
  <1>2. QED
    BY <1>1 DEF AccessInv, VcpuHolds

\* RegRead returns what was written, chunk by chunk.
LEMMA ResultAgrees ==
    ASSUME AccessInv, ~running, NEW n \in NamesOf(family \ MSRs), NEW got \in Answers(n),
           NEW c \in ValueChunks
    PROVE  Agrees(Result(n, got)[c], Expected(n, got)[c])
  <1>1. Expected(n, got)[c] = IF c \in DOMAIN Sources(n) \ Amiss(n, got)
                              THEN file[<<n[1], Sources(n)[c]>>] ELSE Unsaid
    BY ChunksOfValues DEF Expected
  <1>2. CASE c \notin DOMAIN Sources(n) \ Amiss(n, got)
    BY <1>1, <1>2 DEF Agrees
  <1>3. CASE c \in DOMAIN Sources(n) \ Amiss(n, got)
    <2> DEFINE p == <<n[1], Sources(n)[c]>>
    <2>1. /\ n[1] \in family /\ n[1] \notin MSRs /\ Sources(n)[c] \in Chunks(n[1])
          /\ Sources(n)[c] # "zero" /\ c \in Chunks(n[1])
      BY <1>3, NameKinds, ReadMoves
    <2>2. p \in Places /\ p[1] = n[1]
      BY <2>1 DEF Places, Of
    <2>3. Expected(n, got)[c] = file[p]
      BY <1>1, <1>3
    <2>4. CASE backend = "haxm"
      <3>1. c \in DOMAIN HaxmRead(n) /\ HaxmRead(n)[c] = Sources(n)[c]
        BY <1>3, <2>4, ReadMoves
      <3>2. got
        <4>1. CASE IsMSR(n)
          <5>1. n[2] # "fpu" /\ got \in BOOLEAN
            BY <2>4, <4>1, NameKinds DEF IsMSR, Answers
          <5>2. QED
            BY <1>3, <2>1, <2>4, <5>1 DEF Amiss
        <4>2. CASE ~IsMSR(n)
          BY <4>2 DEF Answers
        <4>3. QED
          BY <4>1, <4>2
      <3>3. Result(n, got)[c] = IF IsMSR(n) THEN vcpu[p] ELSE Refreshed[p]
        BY <2>1, <2>4, <3>1, <3>2, ChunksOfValues DEF Result
      <3> HIDE DEF p
      <3>4. CASE IsMSR(n)
        <4>1. p[1] \in MsrNames
          BY <2>1, <2>2, <3>4 DEF IsMSR, MsrNames
        <4>2. QED
          BY <2>2, <2>3, <3>3, <3>4, <4>1, MsrsHold
      <3>5. CASE ~IsMSR(n)
        <4>1. p[1] \notin MsrNames
          BY <2>1, <2>2, <3>5 DEF IsMSR, MsrNames
        <4>2. QED
          BY <2>2, <2>3, <2>4, <3>3, <3>5, <4>1, RefreshedHolds
      <3>6. QED
        BY <3>4, <3>5
    <2>5. CASE backend = "whpx"
      <3>1. c \in DOMAIN WhpxRead(n) /\ WhpxRead(n)[c] = Sources(n)[c] /\ got
        BY <1>3, <2>5, ReadMoves DEF Answers
      <3>2. Result(n, got)[c] = vcpu[p]
        BY <2>1, <2>5, <3>1, ChunksOfValues DEF Result
      <3> HIDE DEF p
      <3>3. QED
        BY <2>2, <2>3, <2>5, <3>2, MsrsHold
    <2>6. QED
      BY <2>4, <2>5 DEF AccessInv, AccessTypes
  <1>4. QED
    BY <1>2, <1>3

\* The invariant says what RegRead and GetMSR return.
LEMMA ReadsFollow == AccessInv => ReadsMatch
  <1> SUFFICES ASSUME AccessInv, ~running PROVE ReadsMatch
    BY DEF ReadsMatch
  <1>1. ASSUME NEW p \in Of(MsrNames) PROVE Agrees(vcpu[p], file[p])
    <2>1. p[1] \in MsrNames
      BY PlaceParts
    <2>2. p \in Places
      <3>1. MsrNames \subseteq family
        BY DEF MsrNames
      <3>2. QED
        BY <3>1, PlacesWithin
    <2>3. QED
      BY <2>1, <2>2, MsrsHold
  <1>2. ASSUME NEW n \in NamesOf(family \ MSRs), NEW got \in Answers(n),
               NEW c \in DOMAIN Value(0)
        PROVE  Agrees(Result(n, got)[c], Expected(n, got)[c])
    BY <1>2, ResultAgrees, ChunksOfValues
  <1>3. QED
    BY <1>1, <1>2 DEF ReadsMatch

-----------------------------------------------------------------------------
(* Writing *)

\* What the application calls does not change.
LEMMA FixedPlaces ==
    ASSUME UNCHANGED fixed
    PROVE  Places' = Places /\ MsrNames' = MsrNames
  BY DEF fixed, Places, MsrNames

\* Unknown and After keep the domain.
LEMMA Domains ==
    /\ \A f, places : DOMAIN Unknown(f, places) = DOMAIN f
    /\ \A f, batch, moves : DOMAIN After(f, batch, moves) = DOMAIN f
  BY DEF Unknown, After

\* Where nothing is said, anything agrees.
LEMMA UnknownAgrees ==
    ASSUME NEW f, NEW places, NEW p \in DOMAIN f, NEW v, p \in places \/ Agrees(v, f[p])
    PROVE  Agrees(v, Unknown(f, places)[p])
  BY DEF Unknown, Agrees

\* RegWrite and the setters of HAXM.
LEMMA HaxmRegWriteStep ==
    ASSUME AccessInv, backend = "haxm", ~running, NEW batch, NEW reference,
           Matched(batch, reference), HaxmRegWrite(batch, reference)
    PROVE  AccessInv'
  <1> DEFINE done   == Done(batch)
             toMSR  == Restrict(batch, {i \in done : IsMSR(batch[i][1])})
             toCopy == Restrict(batch, {i \in done : ~IsMSR(batch[i][1])})
             all    == \A i \in DOMAIN batch : HaxmSupports(batch[i][1])
  <1>1. PICK ok \in {TRUE, DOMAIN toMSR = {}} :
           /\ copy' = HaxmWrites(Refreshed, toCopy) /\ dirty' = FALSE
           /\ changed' = changed \cup {Marked(toCopy[i][1]) : i \in DOMAIN toCopy}
           /\ pending' = pending \cup Of(Registers(toCopy))
           /\ vcpu' = (IF ok THEN HaxmWrites(vcpu, toMSR) ELSE vcpu)
           /\ file' = (IF all
                       THEN Unknown(FiledAll(file, reference),
                                    IF ok THEN {} ELSE Of(Registers(toMSR)))
                       ELSE Unknown(file, Of(Preceding(batch))))
           /\ UNCHANGED <<fixed, running>>
    BY DEF HaxmRegWrite
  <1>2. PICK k \in Nat : DOMAIN batch = 1 .. k
    BY DEF Matched
  <1>3. /\ DOMAIN toMSR \subseteq DOMAIN batch /\ DOMAIN toCopy \subseteq DOMAIN batch
        /\ \A i \in DOMAIN toMSR : toMSR[i] = batch[i]
        /\ \A i \in DOMAIN toCopy : toCopy[i] = batch[i]
    BY DEF Restrict, Done
  <1>4. \A i \in DOMAIN batch :
           /\ batch[i][1][1] \in family /\ batch[i][1][1] = reference[i][1][1]
           /\ batch[i][1][1] \in MsrNames <=> IsMSR(batch[i][1])
    <2>1. ASSUME NEW i \in DOMAIN batch
          PROVE  batch[i][1][1] \in family \ MSRs /\ reference[i][1] = batch[i][1]
      BY NameKinds DEF Matched
    <2>2. QED
      BY <2>1 DEF MsrNames, IsMSR
  <1>5. /\ \A i \in DOMAIN toMSR : toMSR[i][1][1] \in MsrNames
        /\ \A i \in DOMAIN toCopy : toCopy[i][1][1] \notin MsrNames /\ toCopy[i][1][1] \in family
    BY <1>3, <1>4 DEF Restrict
  <1>6. Registers(toMSR) \subseteq Preceding(batch) /\ Registers(toCopy) \subseteq Preceding(batch)
    BY <1>3 DEF Registers, Preceding, Done, Restrict
  <1>7. all => \A i \in DOMAIN batch : i \in DOMAIN toMSR \/ i \in DOMAIN toCopy
    BY <1>2 DEF Restrict, Done
  <1>8. Registers(toMSR) \subseteq MsrNames /\ Registers(toCopy) \cap MsrNames = {}
        /\ Registers(toCopy) \subseteq family
    BY <1>5 DEF Registers
  <1> HIDE DEF done, toMSR, toCopy, all
  <1>9. all => Registers(reference) \subseteq Registers(toMSR) \cup Registers(toCopy)
    <2> SUFFICES ASSUME all, NEW r \in Registers(reference)
                 PROVE  r \in Registers(toMSR) \cup Registers(toCopy)
      OBVIOUS
    <2>1. PICK i \in DOMAIN reference : r = reference[i][1][1]
      BY DEF Registers
    <2>2. i \in DOMAIN batch /\ r = batch[i][1][1]
      BY <2>1 DEF Matched
    <2>3. \/ i \in DOMAIN toMSR /\ r = toMSR[i][1][1]
          \/ i \in DOMAIN toCopy /\ r = toCopy[i][1][1]
      BY <1>3, <1>7, <2>2
    <2>4. QED
      BY <2>3 DEF Registers
  <1>10. Places' = Places /\ MsrNames' = MsrNames /\ backend' = backend /\ recent' = recent
         /\ honours' = honours /\ running' = running
    BY <1>1, FixedPlaces DEF fixed
  <1>11. DOMAIN copy = Places /\ DOMAIN vcpu = Places /\ DOMAIN file = Places
         /\ DOMAIN Refreshed = Places
    BY RefreshedHolds DEF AccessInv, AccessTypes
  <1>12. AccessTypes'
    <2>1. Of(Registers(toCopy)) \subseteq Places
      BY <1>8, PlacesWithin
    <2>2. changed' \subseteq Banks
      BY <1>1 DEF AccessInv, AccessTypes, Marked, Bank, Banks
    <2>3. DOMAIN copy' = Places /\ DOMAIN vcpu' = Places /\ DOMAIN file' = Places
      BY <1>1, <1>11, Domains DEF HaxmWrites, FiledAll
    <2>4. QED
      BY <1>1, <1>10, <2>1, <2>2, <2>3 DEF AccessInv, AccessTypes
  <1>13. Waiting'
    <2>1. ASSUME NEW p \in pending' PROVE Bank(p[1]) \in changed' /\ p[1] \notin MsrNames
      <3>1. CASE p \in pending
        BY <1>1, <3>1 DEF AccessInv, Waiting
      <3>2. CASE p \in Of(Registers(toCopy))
        <4>1. p[1] \in Registers(toCopy)
          BY <3>2, PlaceParts
        <4>2. PICK i \in DOMAIN toCopy : p[1] = toCopy[i][1][1]
          BY <4>1 DEF Registers
        <4>3. QED
          BY <1>1, <1>5, <4>2 DEF Marked
      <3>3. QED
        BY <1>1, <3>1, <3>2
    <2>2. QED
      BY <1>1, <1>10, <2>1 DEF Waiting
  <1>14. ASSUME NEW p \in Places, p \notin pending' PROVE Agrees(vcpu'[p], file'[p])
    <2>1. CASE p[1] \in MsrNames
      <3>0. Agrees(vcpu[p], file[p]) /\ p[1] \notin Registers(toCopy)
        BY <1>8, <2>1, MsrsHold
      <3>1. CASE all /\ ok
        <4>1. \A i \in DOMAIN batch : batch[i][1][1] = p[1] => i \in DOMAIN toMSR
          BY <1>3, <1>5, <1>7, <2>1, <3>1
        <4>2. Agrees(HaxmWrites(vcpu, toMSR)[p], FiledAll(file, reference)[p])
          BY <1>3, <1>11, <3>0, <4>1, HaxmAgrees
        <4>3. DOMAIN FiledAll(file, reference) = Places
          BY <1>11, Domains DEF FiledAll
        <4>4. QED
          BY <1>1, <3>1, <4>2, <4>3, UnknownAgrees
      <3>2. CASE all /\ ~ok
        <4>1. DOMAIN FiledAll(file, reference) = Places
          BY <1>11, Domains DEF FiledAll
        <4>2. CASE p[1] \in Registers(toMSR)
          <5>1. p \in Of(Registers(toMSR))
            BY <4>2, PlacesOf
          <5>2. QED
            BY <1>1, <3>2, <4>1, <5>1, UnknownAgrees
        <4>3. CASE p[1] \notin Registers(toMSR)
          <5>1. FiledAll(file, reference)[p] = file[p]
            BY <1>9, <1>11, <3>0, <3>2, <4>3, AfterFrame DEF FiledAll
          <5>2. QED
            BY <1>1, <3>0, <3>2, <4>1, <5>1, UnknownAgrees
        <4>4. QED
          BY <4>2, <4>3
      <3>3. CASE ~all
        <4>1. CASE p[1] \in Preceding(batch)
          <5>1. p \in Of(Preceding(batch))
            BY <4>1, PlacesOf
          <5>2. QED
            BY <1>1, <1>11, <3>3, <5>1, UnknownAgrees
        <4>2. CASE p[1] \notin Preceding(batch)
          <5>1. HaxmWrites(vcpu, toMSR)[p] = vcpu[p]
            BY <1>6, <1>11, <4>2, AfterFrame DEF HaxmWrites
          <5>2. vcpu'[p] = vcpu[p]
            BY <1>1, <5>1
          <5>3. QED
            BY <1>1, <1>11, <3>0, <3>3, <5>2, UnknownAgrees
        <4>3. QED
          BY <4>1, <4>2
      <3>4. QED
        BY <1>1, <3>1, <3>2, <3>3
    <2>2. CASE p[1] \notin MsrNames
      <3>1. p \notin pending /\ p \notin Of(Registers(toCopy))
        BY <1>1, <1>14
      <3>2. p[1] \notin Registers(toCopy) /\ p[1] \notin Registers(toMSR)
        BY <1>8, <2>2, <3>1, PlacesOf
      <3>3. HaxmWrites(vcpu, toMSR)[p] = vcpu[p]
        BY <1>11, <3>2, AfterFrame DEF HaxmWrites
      <3>4. vcpu'[p] = vcpu[p]
        BY <1>1, <3>3
      <3>5. Agrees(vcpu[p], file[p])
        BY <3>1 DEF AccessInv, VcpuHolds
      <3>6. CASE all
        <4>1. FiledAll(file, reference)[p] = file[p]
          BY <1>9, <1>11, <3>2, <3>6, AfterFrame DEF FiledAll
        <4>2. DOMAIN FiledAll(file, reference) = Places
          BY <1>11, Domains DEF FiledAll
        <4>3. QED
          BY <1>1, <3>4, <3>5, <3>6, <4>1, <4>2, UnknownAgrees
      <3>7. CASE ~all
        BY <1>1, <1>11, <3>4, <3>5, <3>7, UnknownAgrees
      <3>8. QED
        BY <3>6, <3>7
    <2>3. QED
      BY <2>1, <2>2
  <1>15. ASSUME NEW p \in Places, p[1] \notin MsrNames PROVE Agrees(copy'[p], file'[p])
    <2>1. Agrees(Refreshed[p], file[p])
      BY <1>15, RefreshedHolds
    <2>2. p[1] \notin Registers(toMSR)
      BY <1>8, <1>15
    <2>3. CASE all
      <3>1. \A i \in DOMAIN batch : batch[i][1][1] = p[1] => i \in DOMAIN toCopy
        BY <1>3, <1>5, <1>7, <1>15, <2>3
      <3>2. Agrees(HaxmWrites(Refreshed, toCopy)[p], FiledAll(file, reference)[p])
        BY <1>3, <1>11, <2>1, <3>1, HaxmAgrees
      <3>3. DOMAIN FiledAll(file, reference) = Places
        BY <1>11, Domains DEF FiledAll
      <3>4. QED
        BY <1>1, <2>3, <3>2, <3>3, UnknownAgrees
    <2>4. CASE ~all
      <3>1. CASE p[1] \in Preceding(batch)
        <4>1. p \in Of(Preceding(batch))
          BY <3>1, PlacesOf
        <4>2. QED
          BY <1>1, <1>11, <2>4, <4>1, UnknownAgrees
      <3>2. CASE p[1] \notin Preceding(batch)
        <4>1. copy'[p] = Refreshed[p]
          BY <1>1, <1>6, <1>11, <3>2, AfterFrame DEF HaxmWrites
        <4>2. QED
          BY <1>1, <1>11, <2>1, <2>4, <4>1, UnknownAgrees
      <3>3. QED
        BY <3>1, <3>2
    <2>5. QED
      BY <2>3, <2>4
  <1>16. VcpuHolds' /\ CopyHolds'
    BY <1>10, <1>14, <1>15 DEF VcpuHolds, CopyHolds, Agrees, Unsaid
  <1>17. QED
    BY <1>12, <1>13, <1>16 DEF AccessInv

\* RegWrite and the setters of WHPX.
LEMMA WhpxRegWriteStep ==
    ASSUME AccessInv, backend = "whpx", ~running, NEW batch, NEW reference,
           Matched(batch, reference), WhpxRegWrite(batch, reference)
    PROVE  AccessInv'
  <1>1. UNCHANGED <<fixed, dirty, changed, copy, running, pending>>
    BY DEF WhpxRegWrite
  <1>2. /\ Places' = Places /\ MsrNames' = MsrNames /\ backend' = backend /\ recent' = recent
        /\ honours' = honours /\ running' = running /\ dirty' = dirty /\ changed' = changed
        /\ copy' = copy /\ pending' = pending
    BY <1>1, FixedPlaces DEF fixed
  <1>3. DOMAIN copy = Places /\ DOMAIN vcpu = Places /\ DOMAIN file = Places
    BY DEF AccessInv, AccessTypes
  <1>4. DOMAIN FiledAll(file, reference) = Places /\ DOMAIN WhpxWrites(batch) = Places
    BY <1>3, Domains DEF FiledAll, WhpxWrites
  <1>5. \A p \in Places : Agrees(vcpu[p], file[p])
    BY MsrsHold
  <1>6. DOMAIN vcpu' = Places /\ DOMAIN file' = Places
    BY <1>3, <1>4, Domains DEF WhpxRegWrite
  <1>7. ASSUME NEW p \in Places PROVE Agrees(vcpu'[p], file'[p])
    <2>1. CASE vcpu' = vcpu /\ file' = file
      BY <1>5, <2>1
    <2>2. CASE /\ vcpu' = WhpxWrites(batch)
               /\ file' = Unknown(FiledAll(file, reference), Of(Aliased(batch)))
      <3>1. CASE p[1] \in Aliased(batch)
        <4>1. p \in Of(Aliased(batch))
          BY <3>1, PlacesOf
        <4>2. QED
          BY <1>4, <2>2, <4>1, UnknownAgrees
      <3>2. CASE p[1] \notin Aliased(batch)
        <4>1. Agrees(WhpxWrites(batch)[p], FiledAll(file, reference)[p])
          BY <1>3, <1>5, <3>2, WhpxAgrees
        <4>2. QED
          BY <1>4, <2>2, <4>1, UnknownAgrees
      <3>3. QED
        BY <3>1, <3>2
    <2>3. CASE /\ vcpu' \in {vcpu, WhpxWrites(batch)}
               /\ file' = Unknown(file, Of(Registers(batch)))
      <3>1. CASE p[1] \in Registers(batch)
        <4>1. p \in Of(Registers(batch))
          BY <3>1, PlacesOf
        <4>2. QED
          BY <1>3, <2>3, <4>1, UnknownAgrees
      <3>2. CASE p[1] \notin Registers(batch)
        <4>1. WhpxWrites(batch)[p] = vcpu[p]
          BY <1>3, <3>2, AfterFrame DEF WhpxWrites
        <4>2. vcpu'[p] = vcpu[p]
          BY <2>3, <4>1
        <4>3. QED
          BY <1>3, <1>5, <2>3, <4>2, UnknownAgrees
      <3>3. QED
        BY <3>1, <3>2
    <2>4. QED
      BY <2>1, <2>2, <2>3 DEF WhpxRegWrite
  <1>8. AccessTypes'
    BY <1>2, <1>3, <1>6 DEF AccessInv, AccessTypes
  <1>9. Waiting'
    BY <1>2 DEF AccessInv, Waiting
  <1>10. VcpuHolds' /\ CopyHolds'
    BY <1>2, <1>7 DEF VcpuHolds, CopyHolds, Agrees, Unsaid
  <1>11. QED
    BY <1>8, <1>9, <1>10 DEF AccessInv

\* The blocks of MSRs that HAXM is sent.
LEMMA HaxmSetMSRsStep ==
    ASSUME AccessInv, backend = "haxm", ~running, NEW batch \in MsrBatches, HaxmSetMSRs(batch)
    PROVE  AccessInv'
  <1>1. PICK k \in 1 .. MaxMsrs :
           batch \in [1 .. k -> (MsrNames \X {"whole"}) \X {Value(v) : v \in Values}]
    BY DEF MsrBatches
  <1> DEFINE n == Len(batch)
             m == MsrEntries(n)
             junk == {[c \in DOMAIN Value(0) |-> Garbage]}
  <1>2. k \in Nat /\ n = k
    BY <1>1, RegisterAssumption
  <1>3. PICK past \in [n + 1 .. m -> (MsrNames \X {"whole"}) \X junk] :
        \E sent \in {s \in 0 .. m : s = m \/ s % MaxMsrArray = 0} :
           /\ vcpu' = MsrWrites(vcpu, [i \in 1 .. sent |-> IF i <= n THEN batch[i] ELSE past[i]])
           /\ file' = (IF sent = n /\ m = n THEN MsrWrites(file, batch)
                       ELSE Unknown(file, Of(MsrNames)))
           /\ UNCHANGED <<fixed, dirty, changed, copy, running, pending>>
    BY DEF HaxmSetMSRs
  <1>4. PICK sent \in 0 .. m :
           /\ vcpu' = MsrWrites(vcpu, [i \in 1 .. sent |-> IF i <= n THEN batch[i] ELSE past[i]])
           /\ file' = (IF sent = n /\ m = n THEN MsrWrites(file, batch)
                       ELSE Unknown(file, Of(MsrNames)))
           /\ UNCHANGED <<fixed, dirty, changed, copy, running, pending>>
    BY <1>3
  <1> DEFINE put == [i \in 1 .. sent |-> IF i <= n THEN batch[i] ELSE past[i]]
  <1>5. m \in Nat
    BY <1>2, RegisterAssumption DEF MsrEntries
  <1>6. ASSUME NEW i \in DOMAIN put PROVE put[i][1] \in MsrNames \X {"whole"}
    <2>1. i \in 1 .. m /\ i \in 1 .. sent
      BY <1>5
    <2>2. CASE i <= n
      <3>1. put[i] = batch[i] /\ i \in 1 .. k
        BY <1>2, <2>1, <2>2
      <3>2. QED
        BY <1>1, <3>1
    <2>3. CASE ~(i <= n)
      <3>1. put[i] = past[i] /\ i \in n + 1 .. m
        BY <1>2, <1>5, <2>1, <2>3
      <3>2. QED
        BY <1>3, <3>1
    <2>4. QED
      BY <2>2, <2>3
  <1>7. Registers(put) \subseteq MsrNames
    BY <1>6 DEF Registers
  <1>8. sent = n => put = batch
    BY <1>1, <1>2
  <1>9. vcpu' = MsrWrites(vcpu, put)
    BY <1>4
  <1> HIDE DEF put, junk, m
  <1>10. /\ Places' = Places /\ MsrNames' = MsrNames /\ backend' = backend /\ recent' = recent
         /\ honours' = honours /\ running' = running /\ dirty' = dirty /\ changed' = changed
         /\ copy' = copy /\ pending' = pending
    BY <1>4, FixedPlaces DEF fixed
  <1>11. DOMAIN copy = Places /\ DOMAIN vcpu = Places /\ DOMAIN file = Places
    BY DEF AccessInv, AccessTypes
  <1>12. DOMAIN vcpu' = Places /\ DOMAIN file' = Places
    BY <1>4, <1>9, <1>11, Domains DEF MsrWrites
  <1>13. ASSUME NEW p \in Places, p[1] \notin MsrNames
         PROVE  vcpu'[p] = vcpu[p] /\ (file'[p] = file[p])
    <2>1. p[1] \notin Registers(put) /\ p \notin Of(MsrNames)
      BY <1>7, <1>13, PlacesOf
    <2>2. vcpu'[p] = vcpu[p]
      BY <1>9, <1>11, <2>1, AfterFrame DEF MsrWrites
    <2>3. CASE sent = n /\ m = n
      <3>1. p[1] \notin Registers(batch)
        BY <1>8, <2>1, <2>3
      <3>2. MsrWrites(file, batch)[p] = file[p]
        BY <1>11, <3>1, AfterFrame DEF MsrWrites
      <3>3. QED
        BY <1>4, <2>2, <2>3, <3>2
    <2>4. CASE ~(sent = n /\ m = n)
      BY <1>4, <1>11, <2>1, <2>2, <2>4 DEF Unknown
    <2>5. QED
      BY <2>3, <2>4
  <1>14. ASSUME NEW p \in Places, p[1] \in MsrNames PROVE Agrees(vcpu'[p], file'[p])
    <2>1. CASE sent = n /\ m = n
      <3>1. Agrees(vcpu[p], file[p])
        BY <1>14, MsrsHold
      <3>2. DOMAIN batch = 1 .. k /\ \A i \in DOMAIN batch : batch[i][1] \in MsrNames \X {"whole"}
        BY <1>1
      <3>3. Agrees(MsrWrites(vcpu, batch)[p], MsrWrites(file, batch)[p])
        BY <1>2, <1>11, <3>1, <3>2, MsrAgrees
      <3>4. QED
        BY <1>4, <1>8, <1>9, <2>1, <3>3
    <2>2. CASE ~(sent = n /\ m = n)
      <3>1. p \in Of(MsrNames)
        BY <1>14, PlacesOf
      <3>2. QED
        BY <1>4, <1>11, <2>2, <3>1, UnknownAgrees
    <2>3. QED
      BY <2>1, <2>2
  <1>15. AccessTypes'
    BY <1>10, <1>11, <1>12 DEF AccessInv, AccessTypes
  <1>16. Waiting'
    BY <1>10 DEF AccessInv, Waiting
  <1>17. VcpuHolds'
    <2>1. ASSUME NEW p \in Places, p \notin pending PROVE Agrees(vcpu'[p], file'[p])
      BY <1>13, <1>14, <2>1 DEF AccessInv, VcpuHolds
    <2>2. QED
      BY <1>10, <2>1 DEF VcpuHolds, Agrees, Unsaid
  <1>18. CopyHolds'
    <2>1. ASSUME NEW p \in Places, p[1] \notin MsrNames, Agrees(copy[p], file[p])
          PROVE  Agrees(copy'[p], file'[p])
      BY <1>10, <1>13, <2>1
    <2>2. QED
      BY <1>10, <2>1 DEF AccessInv, CopyHolds, Agrees, Unsaid
  <1>19. QED
    BY <1>15, <1>16, <1>17, <1>18 DEF AccessInv

\* The MSRs that WHPX is sent.
LEMMA WhpxSetMSRsStep ==
    ASSUME AccessInv, backend = "whpx", ~running, NEW batch \in MsrBatches, WhpxSetMSRs(batch)
    PROVE  AccessInv'
  <1>1. PICK k \in 1 .. MaxMsrs :
           batch \in [1 .. k -> (MsrNames \X {"whole"}) \X {Value(v) : v \in Values}]
    BY DEF MsrBatches
  <1>2. /\ k \in Nat /\ DOMAIN batch = 1 .. k
        /\ \A i \in DOMAIN batch : batch[i][1] \in MsrNames \X {"whole"}
    BY <1>1, RegisterAssumption
  <1>3. /\ Places' = Places /\ MsrNames' = MsrNames /\ backend' = backend /\ recent' = recent
        /\ honours' = honours /\ running' = running /\ dirty' = dirty /\ changed' = changed
        /\ copy' = copy /\ pending' = pending
    BY FixedPlaces DEF fixed, WhpxSetMSRs
  <1>4. DOMAIN copy = Places /\ DOMAIN vcpu = Places /\ DOMAIN file = Places
    BY DEF AccessInv, AccessTypes
  <1>5. DOMAIN vcpu' = Places /\ DOMAIN file' = Places
    BY <1>4, Domains DEF WhpxSetMSRs, MsrWrites
  <1>6. ASSUME NEW p \in Places PROVE Agrees(vcpu'[p], file'[p])
    <2>1. Agrees(vcpu[p], file[p])
      BY MsrsHold
    <2>2. CASE vcpu' = vcpu /\ file' = file
      BY <2>1, <2>2
    <2>3. CASE vcpu' = MsrWrites(vcpu, batch) /\ file' = MsrWrites(file, batch)
      BY <1>2, <1>4, <2>1, <2>3, MsrAgrees
    <2>4. CASE vcpu' = vcpu /\ file' = Unknown(file, Of(Registers(batch)))
      BY <1>4, <2>1, <2>4, UnknownAgrees
    <2>5. QED
      BY <2>2, <2>3, <2>4 DEF WhpxSetMSRs
  <1>7. AccessTypes'
    BY <1>3, <1>4, <1>5 DEF AccessInv, AccessTypes
  <1>8. Waiting'
    BY <1>3 DEF AccessInv, Waiting
  <1>9. VcpuHolds' /\ CopyHolds'
    BY <1>3, <1>6 DEF VcpuHolds, CopyHolds, Agrees, Unsaid
  <1>10. QED
    BY <1>7, <1>8, <1>9 DEF AccessInv

\* A write of either backend.
LEMMA WriteStep ==
    ASSUME AccessInv, NEW batch, NEW reference, Matched(batch, reference),
           Write(batch, reference)
    PROVE  AccessInv'
  <1>1. CASE backend = "haxm"
    BY <1>1, HaxmRegWriteStep DEF Write
  <1>2. CASE backend = "whpx"
    BY <1>2, WhpxRegWriteStep DEF Write
  <1>3. QED
    BY <1>1, <1>2 DEF AccessInv, AccessTypes

\* Names that are registers are no MSRs.
LEMMA NamesWithin ==
    /\ RegNames \subseteq NamesOf(family \ MSRs)
    /\ NamesOf(family \cap {"control"}) \subseteq NamesOf(family \ MSRs)
  <1>1. family \cap {"control"} \subseteq family \ MSRs
    BY RegisterAssumption
  <1>2. QED
    BY <1>1 DEF RegNames, NamesOf

\* What the application writes is what should be written.
LEMMA RegWriteStep ==
    ASSUME AccessInv, NEW batch \in Batches(RegNames), RegWrite(batch)
    PROVE  AccessInv'
  <1>1. PICK k \in 1 .. MaxBatch : batch \in [1 .. k -> RegNames \X {Value(v) : v \in Values}]
    BY DEF Batches
  <1>2. k \in Nat /\ DOMAIN batch = 1 .. k /\ \A i \in DOMAIN batch : batch[i][1] \in RegNames
    BY <1>1, RegisterAssumption
  <1>3. Matched(batch, batch)
    BY <1>2, NamesWithin DEF Matched, Agrees
  <1>4. QED
    BY <1>3, WriteStep DEF RegWrite

\* The setters of the control registers.
LEMMA SetControlStep ==
    ASSUME AccessInv, NEW n \in NamesOf(family \cap {"control"}), NEW v \in Values,
           SetControl(n, v)
    PROVE  AccessInv'
  <1> DEFINE batch == << <<n, Value(v)>> >>
  <1>1. DOMAIN batch = 1 .. 1 /\ batch[1][1] = n
    OBVIOUS
  <1>2. Write(batch, batch)
    BY DEF SetControl
  <1> HIDE DEF batch
  <1>3. \A i \in DOMAIN batch : batch[i][1] \in NamesOf(family \ MSRs)
    BY <1>1, NamesWithin
  <1>4. Matched(batch, batch)
    BY <1>1, <1>3 DEF Matched, Agrees
  <1>5. QED
    BY <1>2, <1>4, WriteStep

\* RegCopy writes what it read.
LEMMA RegCopyStep ==
    ASSUME AccessInv, NEW dst \in RegNames, NEW src \in RegNames, RegCopy(dst, src)
    PROVE  AccessInv'
  <1>0. PICK got \in Answers(src) :
           Write(<< <<dst, Result(src, got)>> >>, << <<dst, Expected(src, got)>> >>)
    BY DEF RegCopy
  <1> DEFINE batch == << <<dst, Result(src, got)>> >>
             reference == << <<dst, Expected(src, got)>> >>
  <1>1. Write(batch, reference) /\ ~running
    BY <1>0 DEF Write
  <1>2. src \in NamesOf(family \ MSRs) /\ dst \in NamesOf(family \ MSRs)
    BY NamesWithin
  <1>3. ASSUME NEW c \in ValueChunks PROVE Agrees(Result(src, got)[c], Expected(src, got)[c])
    BY <1>1, <1>2, ResultAgrees
  <1>4. /\ DOMAIN batch = 1 .. 1 /\ DOMAIN reference = DOMAIN batch
        /\ batch[1][1] = dst /\ reference[1][1] = dst
        /\ batch[1][2] = Result(src, got) /\ reference[1][2] = Expected(src, got)
    OBVIOUS
  <1> HIDE DEF batch, reference
  <1>5. \A i \in DOMAIN batch : i = 1
    BY <1>4
  <1>6. Matched(batch, reference)
    BY <1>2, <1>3, <1>4, <1>5 DEF Matched
  <1>7. QED
    BY <1>1, <1>6, WriteStep

-----------------------------------------------------------------------------
(* The other steps *)

\* A refresh that failed leaves the copies stale.
LEMMA FailRefreshStep == AccessInv /\ FailRefresh => AccessInv'
  <1> SUFFICES ASSUME AccessInv, FailRefresh PROVE AccessInv'
    OBVIOUS
  <1>1. /\ Places' = Places /\ MsrNames' = MsrNames /\ backend' = backend /\ recent' = recent
        /\ honours' = honours /\ running' = running /\ dirty' = dirty /\ changed' = changed
        /\ vcpu' = vcpu /\ file' = file /\ pending' = pending /\ dirty
    BY FixedPlaces DEF fixed, FailRefresh
  <1>2. DOMAIN copy' = Places
    BY DEF FailRefresh, AccessInv, AccessTypes
  <1>3. AccessTypes'
    BY <1>1, <1>2 DEF AccessInv, AccessTypes
  <1>4. Waiting'
    BY <1>1 DEF AccessInv, Waiting, FailRefresh
  <1>5. VcpuHolds' /\ CopyHolds'
    BY <1>1 DEF AccessInv, VcpuHolds, CopyHolds, Agrees, Unsaid
  <1>6. QED
    BY <1>3, <1>4, <1>5 DEF AccessInv

\* RegRead refreshes the copies.
LEMMA RegReadStep ==
    ASSUME AccessInv, NEW names, RegRead(names)
    PROVE  AccessInv'
  <1>1. /\ Places' = Places /\ MsrNames' = MsrNames /\ backend' = backend /\ recent' = recent
        /\ honours' = honours /\ running' = running /\ dirty' = FALSE /\ changed' = changed
        /\ vcpu' = vcpu /\ file' = file /\ pending' = pending /\ ~running
        /\ copy' = (IF backend = "haxm" THEN Refreshed ELSE copy)
    BY FixedPlaces DEF fixed, RegRead
  <1>2. DOMAIN copy' = Places
    BY <1>1, RefreshedHolds DEF AccessInv, AccessTypes
  <1>3. AccessTypes'
    BY <1>1, <1>2 DEF AccessInv, AccessTypes
  <1>4. Waiting'
    BY <1>1 DEF AccessInv, Waiting
  <1>5. VcpuHolds'
    BY <1>1 DEF AccessInv, VcpuHolds, Agrees, Unsaid
  <1>6. backend = "haxm" => \A p \in Places : p[1] \notin MsrNames => Agrees(copy'[p], file[p])
    BY <1>1, RefreshedHolds
  <1>7. CopyHolds'
    BY <1>1, <1>6 DEF CopyHolds, Agrees, Unsaid
  <1>8. QED
    BY <1>3, <1>4, <1>5, <1>7 DEF AccessInv

\* UpdateRegisters leaves the VCPU with every write that is still promised.
LEMMA UpdateHolds ==
    ASSUME AccessInv, backend = "haxm", ~running, NEW fails \in SUBSET changed,
           UpdateRegisters(fails), NEW p \in Places
    PROVE  /\ Agrees(vcpu'[p], file'[p])
           /\ file'[p] \in {file[p], Unsaid}
  <1> DEFINE refused == {q \in pending : Bank(q[1]) \in fails}
             stale == IF honours /\ "regs" \in changed THEN Of(family \cap {"efer"}) ELSE {}
  <1>1. file' = Unknown(file, refused \cup stale) /\ vcpu' = Updated(fails)
    BY DEF UpdateRegisters
  <1>2. DOMAIN file = Places
    BY DEF AccessInv, AccessTypes
  <1>3. vcpu'[p] = IF /\ Bank(p[1]) \in changed \ fails
                      /\ p[1] \in MsrNames => p[1] = "efer" /\ honours
                   THEN copy[p] ELSE vcpu[p]
    BY <1>1 DEF Updated
  <1>4. file'[p] \in {file[p], Unsaid}
    BY <1>1, <1>2 DEF Unknown
  <1>5. CASE /\ Bank(p[1]) \in changed \ fails
             /\ p[1] \in MsrNames => p[1] = "efer" /\ honours
    <2>1. vcpu'[p] = copy[p]
      BY <1>3, <1>5
    <2>2. CASE p[1] \in MsrNames
      <3>1. p[1] = "efer" /\ honours /\ p[1] \in family /\ Bank(p[1]) = "regs"
        BY <1>5, <2>2, MsrShape
      <3>2. p \in Of(family \cap {"efer"})
        BY <3>1, PlacesOf
      <3>3. p \in stale
        BY <1>5, <3>1, <3>2
      <3> HIDE DEF stale, refused
      <3>4. QED
        BY <1>1, <1>2, <1>4, <3>3, UnknownAgrees
    <2>3. CASE p[1] \notin MsrNames
      <3>1. ~dirty
        BY <1>5 DEF AccessInv, Waiting
      <3>2. Agrees(copy[p], file[p])
        BY <2>3, <3>1 DEF AccessInv, CopyHolds
      <3> HIDE DEF stale, refused
      <3>3. QED
        BY <1>1, <1>2, <1>4, <2>1, <3>2, UnknownAgrees
    <2>4. QED
      BY <2>2, <2>3
  <1>6. CASE ~(/\ Bank(p[1]) \in changed \ fails
               /\ p[1] \in MsrNames => p[1] = "efer" /\ honours)
    <2>1. vcpu'[p] = vcpu[p]
      BY <1>3, <1>6
    <2>2. CASE p \in pending
      <3>1. p \in refused
        BY <1>6, <2>2 DEF AccessInv, Waiting
      <3> HIDE DEF stale, refused
      <3>2. QED
        BY <1>1, <1>2, <1>4, <3>1, UnknownAgrees
    <2>3. CASE p \notin pending
      <3>1. Agrees(vcpu[p], file[p])
        BY <2>3 DEF AccessInv, VcpuHolds
      <3> HIDE DEF stale, refused
      <3>2. QED
        BY <1>1, <1>2, <1>4, <2>1, <3>1, UnknownAgrees
    <2>4. QED
      BY <2>2, <2>3
  <1>7. QED
    BY <1>5, <1>6

\* Run, whether the guest is entered or not.
LEMMA RunStep ==
    ASSUME AccessInv, Run
    PROVE  AccessInv' /\ \A p \in Places : Agrees(vcpu'[p], file'[p])
  <1>1. /\ Places' = Places /\ MsrNames' = MsrNames /\ backend' = backend /\ recent' = recent
        /\ honours' = honours /\ dirty' = dirty /\ copy' = copy /\ ~running
        /\ running' \in BOOLEAN /\ (running' => status' = "running")
    BY FixedPlaces DEF fixed, Run
  <1>2. DOMAIN copy = Places /\ DOMAIN vcpu = Places /\ DOMAIN file = Places
    BY DEF AccessInv, AccessTypes
  <1>3. /\ changed' = {} /\ pending' = {} /\ DOMAIN vcpu' = Places /\ DOMAIN file' = Places
        /\ \A p \in Places : Agrees(vcpu'[p], file'[p]) /\ file'[p] \in {file[p], Unsaid}
    <2>1. CASE backend = "haxm"
      <3>1. PICK fails \in SUBSET changed : UpdateRegisters(fails)
        BY <2>1 DEF Run
      <3>2. changed' = {} /\ pending' = {} /\ DOMAIN vcpu' = Places /\ DOMAIN file' = Places
        BY <1>2, <3>1, Domains DEF UpdateRegisters, Updated
      <3>3. QED
        BY <1>1, <2>1, <3>1, <3>2, UpdateHolds
    <2>2. CASE backend = "whpx"
      <3>1. changed = {} /\ pending = {}
        BY <2>2, NothingPending
      <3>2. UNCHANGED <<changed, pending, vcpu, file>>
        BY <2>2 DEF Run
      <3>3. QED
        BY <1>2, <2>2, <3>1, <3>2, MsrsHold
    <2>3. QED
      BY <2>1, <2>2 DEF AccessInv, AccessTypes
  <1>4. AccessTypes'
    BY <1>1, <1>2, <1>3 DEF AccessInv, AccessTypes
  <1>5. Waiting'
    BY <1>1, <1>3 DEF Waiting
  <1>6. VcpuHolds'
    BY <1>1, <1>3 DEF VcpuHolds, Agrees, Unsaid
  <1>7. CopyHolds'
    <2>1. ASSUME NEW p \in Places, Agrees(copy[p], file[p]) PROVE Agrees(copy[p], file'[p])
      BY <1>3, <2>1 DEF Agrees
    <2>2. QED
      BY <1>1, <2>1 DEF AccessInv, CopyHolds, Agrees, Unsaid
  <1>8. QED
    BY <1>3, <1>4, <1>5, <1>6, <1>7 DEF AccessInv

\* The guest writes while nothing waits.
LEMMA ExecuteStep ==
    ASSUME AccessInv, NEW r \in family, Execute(r)
    PROVE  AccessInv'
  <1>1. /\ Places' = Places /\ MsrNames' = MsrNames /\ backend' = backend /\ recent' = recent
        /\ honours' = honours /\ running' = running /\ dirty' = dirty /\ changed' = changed
        /\ copy' = copy /\ status' = status /\ pending' = pending /\ running
    BY FixedPlaces DEF fixed, Execute
  <1>2. /\ vcpu' = [p \in Places |-> IF p[1] = r THEN Guest ELSE vcpu[p]]
        /\ file' = [p \in Places |-> IF p[1] = r THEN Guest ELSE file[p]]
    BY DEF Execute
  <1>3. AccessTypes'
    BY <1>1, <1>2 DEF AccessInv, AccessTypes
  <1>4. Waiting'
    BY <1>1 DEF AccessInv, Waiting
  <1>5. ASSUME NEW p \in Places, p \notin pending PROVE Agrees(vcpu'[p], file'[p])
    BY <1>2, <1>5 DEF AccessInv, VcpuHolds, Agrees
  <1>6. VcpuHolds' /\ CopyHolds'
    BY <1>1, <1>5 DEF VcpuHolds, CopyHolds, Agrees, Unsaid
  <1>7. QED
    BY <1>3, <1>4, <1>6 DEF AccessInv

\* An exit marks HAXM's copies stale.
LEMMA ExitStep == AccessInv /\ Exit => AccessInv'
  <1> SUFFICES ASSUME AccessInv, Exit PROVE AccessInv'
    OBVIOUS
  <1>1. /\ Places' = Places /\ MsrNames' = MsrNames /\ backend' = backend /\ recent' = recent
        /\ honours' = honours /\ running' = FALSE /\ dirty' = (backend = "haxm")
        /\ changed' = changed /\ copy' = copy /\ vcpu' = vcpu /\ file' = file
        /\ pending' = pending /\ running
    BY FixedPlaces DEF fixed, Exit
  <1>2. changed = {} /\ pending = {}
    BY <1>1, NothingPending
  <1>3. AccessTypes'
    BY <1>1 DEF AccessInv, AccessTypes
  <1>4. Waiting'
    BY <1>1, <1>2 DEF Waiting
  <1>5. VcpuHolds' /\ CopyHolds'
    BY <1>1 DEF AccessInv, VcpuHolds, CopyHolds, Agrees, Unsaid
  <1>6. QED
    BY <1>3, <1>4, <1>5 DEF AccessInv

-----------------------------------------------------------------------------
(* Theorems *)

\* The registers as they are when the virtual processor is made.
LEMMA AccessStart == AccessInit => AccessInv
  <1> SUFFICES ASSUME AccessInit PROVE AccessInv
    OBVIOUS
  <1>1. AccessTypes
    BY DEF AccessInit, AccessTypes, Banks
  <1>2. Waiting
    BY DEF AccessInit, Waiting
  <1>3. VcpuHolds /\ CopyHolds
    BY DEF AccessInit, VcpuHolds, CopyHolds, Agrees
  <1>4. QED
    BY <1>1, <1>2, <1>3 DEF AccessInv

\* Every step keeps the invariant.
LEMMA AccessStep == AccessInv /\ [AccessNext]_accessVars => AccessInv'
  <1> SUFFICES ASSUME AccessInv, [AccessNext]_accessVars PROVE AccessInv'
    OBVIOUS
  <1>1. CASE UNCHANGED accessVars
    BY <1>1 DEF accessVars, fixed, AccessInv, AccessTypes, Waiting, VcpuHolds, CopyHolds, Places,
                MsrNames, Agrees, Unsaid
  <1>2. CASE FailRefresh
    BY <1>2, FailRefreshStep
  <1>3. CASE Run
    BY <1>3, RunStep
  <1>4. CASE Exit
    BY <1>4, ExitStep
  <1>5. CASE \E names \in {{n} : n \in RegNames} \cup {RegNames} : RegRead(names)
    BY <1>5, RegReadStep
  <1>6. CASE \E batch \in Batches(RegNames) : RegWrite(batch)
    BY <1>6, RegWriteStep
  <1>7. CASE \E dst, src \in RegNames : RegCopy(dst, src)
    BY <1>7, RegCopyStep
  <1>8. CASE \E n \in NamesOf(family \cap {"control"}), v \in Values : SetControl(n, v)
    BY <1>8, SetControlStep
  <1>9. ASSUME NEW batch \in MsrBatches, SetMSRs(batch) PROVE AccessInv'
    <2>1. CASE backend = "haxm"
      BY <1>9, <2>1, HaxmSetMSRsStep DEF SetMSRs
    <2>2. CASE backend = "whpx"
      BY <1>9, <2>2, WhpxSetMSRsStep DEF SetMSRs
    <2>3. QED
      BY <2>1, <2>2 DEF AccessInv, AccessTypes
  <1>10. CASE \E r \in family : Execute(r)
    BY <1>10, ExecuteStep
  <1>11. QED
    BY <1>1, <1>2, <1>3, <1>4, <1>5, <1>6, <1>7, <1>8, <1>9, <1>10 DEF AccessNext

\* RegRead and GetMSR return the last value written to each part of a register.
THEOREM ReadsFollowWrites == AccessSpec => []ReadsMatch
  <1>1. AccessSpec => []AccessInv
    BY AccessStart, AccessStep, PTL DEF AccessSpec
  <1>2. QED
    BY <1>1, ReadsFollow, PTL

\* Only Run enters the guest.
LEMMA EntryHolds ==
    ASSUME AccessInv, [AccessNext]_accessVars, ~running, running'
    PROVE  \A p \in Places : Agrees(vcpu'[p], file'[p])
  <1>1. CASE Run
    BY <1>1, RunStep
  <1>2. running' # running
    OBVIOUS
  <1>3. QED
    <2>1. ~(UNCHANGED accessVars) /\ ~FailRefresh /\ ~Exit
      BY <1>2 DEF accessVars, FailRefresh, Exit
    <2>2. \A names : ~RegRead(names)
      BY <1>2 DEF RegRead
    <2>3. \A batch, reference : ~Write(batch, reference)
      BY <1>2 DEF Write, HaxmRegWrite, WhpxRegWrite
    <2>4. \A batch : ~SetMSRs(batch)
      BY <1>2 DEF SetMSRs, HaxmSetMSRs, WhpxSetMSRs
    <2>5. \A r : ~Execute(r)
      BY DEF Execute
    <2>6. QED
      BY <1>1, <2>1, <2>2, <2>3, <2>4, <2>5 DEF AccessNext, RegWrite, RegCopy, SetControl

\* When the guest is entered, the VCPU has every write that the hypervisor did not refuse.
THEOREM GuestHasWrites == AccessSpec => GuestRunsWithWrites
  <1>1. AccessSpec => []AccessInv
    BY AccessStart, AccessStep, PTL DEF AccessSpec
  <1>2. AccessInv /\ [AccessNext]_accessVars =>
            [~running /\ running' => \A p \in Places : Agrees(vcpu'[p], file'[p])]_accessVars
    BY EntryHolds
  <1>3. QED
    BY <1>1, <1>2, PTL DEF AccessSpec, GuestRunsWithWrites

\* What a refused call leaves alone.
Kept ==
    /\ backend = "whpx" => vcpu' = vcpu
    /\ backend = "haxm" =>
          \A p \in Places : file'[p] # Unsaid =>
              Refreshed'[p] = Refreshed[p] /\ vcpu'[p] = vcpu[p]

\* A write that HAXM refuses has changed what comes before the name it refuses.
LEMMA HaxmRefusal ==
    ASSUME AccessInv, backend = "haxm", ~running, NEW batch, NEW reference,
           HaxmRegWrite(batch, reference), status' = "Unsupported"
    PROVE  Kept
  <1> DEFINE done   == Done(batch)
             toMSR  == Restrict(batch, {i \in done : IsMSR(batch[i][1])})
             toCopy == Restrict(batch, {i \in done : ~IsMSR(batch[i][1])})
             all    == \A i \in DOMAIN batch : HaxmSupports(batch[i][1])
  <1>1. PICK ok \in {TRUE, DOMAIN toMSR = {}} :
           /\ copy' = HaxmWrites(Refreshed, toCopy) /\ dirty' = FALSE
           /\ vcpu' = (IF ok THEN HaxmWrites(vcpu, toMSR) ELSE vcpu)
           /\ status' = (IF all THEN "OK" ELSE "Unsupported")
           /\ ~all => file' = Unknown(file, Of(Preceding(batch)))
    BY DEF HaxmRegWrite
  <1>2. Registers(toMSR) \subseteq Preceding(batch) /\ Registers(toCopy) \subseteq Preceding(batch)
    <2>1. /\ DOMAIN toMSR \subseteq DOMAIN batch /\ DOMAIN toCopy \subseteq DOMAIN batch
          /\ \A i \in DOMAIN toMSR : toMSR[i] = batch[i]
          /\ \A i \in DOMAIN toCopy : toCopy[i] = batch[i]
      BY DEF Restrict, Done
    <2>2. QED
      BY <2>1 DEF Registers, Preceding, Done, Restrict
  <1> HIDE DEF done, toMSR, toCopy, all
  <1>3. file' = Unknown(file, Of(Preceding(batch)))
    BY <1>1
  <1>4. DOMAIN vcpu = Places /\ DOMAIN file = Places /\ DOMAIN Refreshed = Places
    BY RefreshedHolds DEF AccessInv, AccessTypes
  <1>5. ASSUME NEW p \in Places, file'[p] # Unsaid
        PROVE  Refreshed'[p] = Refreshed[p] /\ vcpu'[p] = vcpu[p]
    <2>1. p \notin Of(Preceding(batch))
      BY <1>3, <1>4, <1>5 DEF Unknown
    <2>2. p[1] \notin Registers(toMSR) /\ p[1] \notin Registers(toCopy)
      BY <1>2, <2>1, PlacesOf
    <2>3. copy'[p] = Refreshed[p]
      BY <1>1, <1>4, <2>2, AfterFrame DEF HaxmWrites
    <2>4. HaxmWrites(vcpu, toMSR)[p] = vcpu[p]
      BY <1>4, <2>2, AfterFrame DEF HaxmWrites
    <2>5. Refreshed' = copy'
      BY <1>1 DEF Refreshed
    <2>6. QED
      BY <1>1, <2>3, <2>4, <2>5
  <1>6. QED
    BY <1>5 DEF Kept

\* Of the calls that are refused, no other changes anything.
LEMMA RefusalKeeps ==
    ASSUME AccessInv, AccessNext, status' \in {"Unsupported", "InvalidRegister"}
    PROVE  Kept
  <1>1. ~FailRefresh /\ ~Run /\ ~Exit
    BY DEF FailRefresh, Run, Exit
  <1>2. ASSUME NEW names, RegRead(names) PROVE Kept
    <2>1. /\ vcpu' = vcpu /\ dirty' = FALSE
          /\ copy' = (IF backend = "haxm" THEN Refreshed ELSE copy)
      BY <1>2 DEF RegRead
    <2>2. backend = "haxm" => Refreshed' = Refreshed
      BY <2>1 DEF Refreshed
    <2>3. QED
      BY <2>1, <2>2 DEF Kept
  <1>3. ASSUME NEW batch, NEW reference, Write(batch, reference) PROVE Kept
    <2>1. CASE backend = "haxm"
      <3>1. HaxmRegWrite(batch, reference) /\ ~running
        BY <1>3, <2>1 DEF Write
      <3>2. status' = "Unsupported"
        BY <3>1 DEF HaxmRegWrite
      <3>3. QED
        BY <2>1, <3>1, <3>2, HaxmRefusal
    <2>2. CASE backend = "whpx"
      BY <1>3, <2>2 DEF Write, WhpxRegWrite, Kept
    <2>3. QED
      BY <2>1, <2>2 DEF AccessInv, AccessTypes
  <1>4. ASSUME NEW batch, SetMSRs(batch) PROVE Kept
    <2>1. backend # "haxm"
      BY <1>4 DEF SetMSRs, HaxmSetMSRs
    <2>2. QED
      BY <1>4, <2>1 DEF SetMSRs, WhpxSetMSRs, Kept
  <1>5. \A r : ~Execute(r)
    BY DEF Execute, AccessInv, Waiting
  <1>6. QED
    BY <1>1, <1>2, <1>3, <1>4, <1>5 DEF AccessNext, RegWrite, RegCopy, SetControl

\* A call refused because of one name changes nothing on WHPX, and on HAXM nothing but
\* what comes before that name.
THEOREM RefusalChangesNothing == AccessSpec => RefusedChangesNothing
  <1>1. AccessSpec => []AccessInv
    BY AccessStart, AccessStep, PTL DEF AccessSpec
  <1>2. AccessInv /\ [AccessNext]_accessVars =>
            [status' \in {"Unsupported", "InvalidRegister"} => Kept]_accessVars
    BY RefusalKeeps
  <1>3. QED
    BY <1>1, <1>2, PTL DEF AccessSpec, RefusedChangesNothing, Kept

=============================================================================
