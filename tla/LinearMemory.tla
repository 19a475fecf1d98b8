---------------------------- MODULE LinearMemory ----------------------------
(***************************************************************************)
(* VirtualProcessor::LMemRead and LMemWrite (core/src/vp/vp.cpp): a range  *)
(* of linear addresses is copied page by page; a turn of the loop          *)
(* translates a page and then copies what it has of the range.  The two    *)
(* methods differ only in the direction of the copy.                       *)
(*                                                                         *)
(* The guest runs on other virtual processors meanwhile and may change the *)
(* page tables between two turns, and between the translation and the copy *)
(* of one; LinearToPhysical itself is in Paging.                           *)
(* Addresses are the uint64_t of the code, scaled, and wrap as they do.    *)
(***************************************************************************)
EXTENDS Integers, Sequences

CONSTANTS
    PageSize,       \* 4 KiB
    AddrSpace,      \* 2^64
    Frames,         \* the page frames of the guest's physical memory
    Backed,         \* those the host has memory for
    Addresses,      \* the laddr arguments
    Sizes           \* the size arguments

ASSUME SizeAssumption ==
    /\ PageSize \in Nat \ {0} /\ AddrSpace \in Nat \ {0}
    /\ AddrSpace % PageSize = 0 /\ PageSize < AddrSpace
    /\ Frames \subseteq Nat /\ Backed \subseteq Frames
    /\ Addresses \subseteq 0 .. AddrSpace - 1 /\ Sizes \subseteq 0 .. AddrSpace - 1

VARIABLES
    map,            \* the guest's page tables: linear page -> frame, or NoFrame
    pc,             \* "idle", "loop", "copy": between translation and copy, "done"
    laddr, size,    \* the arguments
    srcAddrStart, srcAddrEnd, pos, copySize,    \* the locals
    physAddr,       \* the local of one turn: Unset outside "copy"
    result,         \* true or false
    bytes,          \* *bytesRead, *bytesWritten: Unset until it is assigned
    copied          \* history: the physical address each byte was copied from or to

locals == <<srcAddrStart, srcAddrEnd, pos, copySize, physAddr>>
vars == <<map, pc, laddr, size, locals, result, bytes, copied>>

NoFrame == -1
Unset == -1

Pages == 0 .. (AddrSpace \div PageSize) - 1
PageOf(a) == a \div PageSize

\* uint64_t
Wrap(n) == n % AddrSpace

\* LinearToPhysical, with the page tables as they are now (external to this module: it
\* keeps the offset in the page, Paging!PageOffsetKept).
LinearToPhysical(a) == map[PageOf(a)] * PageSize + (a % PageSize)

-----------------------------------------------------------------------------

Least(a, b) == IF a <= b THEN a ELSE b

\* The last address of the page of a.
PageEnd(a) == Wrap(Wrap(a + PageSize) - (Wrap(a + PageSize) % PageSize) - 1)

Init ==
    /\ map \in [Pages -> Frames \cup {NoFrame}]
    /\ pc = "idle" /\ laddr = 0 /\ size = 0
    /\ srcAddrStart = 0 /\ srcAddrEnd = 0 /\ pos = 0 /\ copySize = 0
    /\ physAddr = Unset
    /\ result = FALSE /\ bytes = Unset /\ copied = << >>

\* The method is called and computes the first range.
Call(l, n) ==
    /\ pc = "idle"
    /\ laddr' = l /\ size' = n
    /\ srcAddrStart' = l /\ srcAddrEnd' = PageEnd(l) /\ pos' = 0
    /\ copySize' = Least(n, Wrap(Wrap(PageEnd(l) - l) + 1))
    /\ pc' = "loop"
    /\ UNCHANGED <<map, physAddr, result, bytes, copied>>

\* No buffer: the method returns false at once.
CallNull(l, n) ==
    /\ pc = "idle"
    /\ laddr' = l /\ size' = n
    /\ pc' = "done" /\ result' = FALSE
    /\ UNCHANGED <<map, locals, bytes, copied>>

\* The page is translated, with the page tables as they are now.
Translate ==
    /\ pc = "loop" /\ pos < size
    /\ map[PageOf(srcAddrStart)] # NoFrame
    /\ physAddr' = LinearToPhysical(srcAddrStart)
    /\ pc' = "copy"
    /\ UNCHANGED <<map, laddr, size, srcAddrStart, srcAddrEnd, pos, copySize, result, bytes,
                   copied>>

\* LinearToPhysical fails, for a page without a frame or a register it could not read, and
\* so does the method.
FailTranslate ==
    /\ pc = "loop" /\ pos < size
    /\ pc' = "done" /\ result' = FALSE
    /\ UNCHANGED <<map, laddr, size, locals, bytes, copied>>

\* The physical addresses of the bytes of this turn.
Turn == [i \in 1 .. copySize |-> physAddr + i - 1]

\* Mutant: all that is left.
NextSize_All(left) == left

\* Mutant: whole pages only.
NextSize_WholePages(left) == IF left < PageSize THEN 0 ELSE PageSize

\* The next turn's share of what is left.
NextSize(left) == Least(PageSize, left)

\* Mutant: a turn always counts a whole page.
CopyPage_WholePage ==
    /\ pc = "copy" /\ PageOf(physAddr) \in Backed
    /\ copied' = copied \o Turn
    /\ pos' = Wrap(pos + PageSize)
    /\ srcAddrStart' = Wrap(srcAddrEnd + 1)
    /\ srcAddrEnd' = Wrap(srcAddrEnd + PageSize)
    /\ copySize' = NextSize(Wrap(size - pos'))
    /\ pc' = "loop" /\ physAddr' = Unset
    /\ UNCHANGED <<map, laddr, size, result, bytes>>

\* Mutant: only the first page is translated.
CopyPage_OneTranslation ==
    /\ pc = "copy" /\ PageOf(physAddr) \in Backed
    /\ copied' = copied \o Turn
    /\ pos' = Wrap(pos + copySize)
    /\ srcAddrStart' = Wrap(srcAddrEnd + 1)
    /\ srcAddrEnd' = Wrap(srcAddrEnd + PageSize)
    /\ copySize' = NextSize(Wrap(size - pos'))
    /\ IF pos' < size THEN pc' = pc /\ physAddr' = physAddr + copySize
       ELSE pc' = "loop" /\ physAddr' = Unset
    /\ UNCHANGED <<map, laddr, size, result, bytes>>

\* MemRead or MemWrite, and the end of the turn.
CopyPage ==
    /\ pc = "copy" /\ PageOf(physAddr) \in Backed
    /\ copied' = copied \o Turn
    /\ pos' = Wrap(pos + copySize)
    /\ srcAddrStart' = Wrap(srcAddrEnd + 1)
    /\ srcAddrEnd' = Wrap(srcAddrEnd + PageSize)
    /\ copySize' = NextSize(Wrap(size - pos'))
    /\ pc' = "loop" /\ physAddr' = Unset
    /\ UNCHANGED <<map, laddr, size, result, bytes>>

\* Mutant: the failure ends the loop and is not reported.
FailCopy_Break ==
    /\ pc = "copy" /\ PageOf(physAddr) \notin Backed
    /\ pc' = "done" /\ result' = TRUE /\ physAddr' = Unset
    /\ UNCHANGED <<map, laddr, size, srcAddrStart, srcAddrEnd, pos, copySize, bytes, copied>>

\* MemRead or MemWrite fails and so does the method.
FailCopy ==
    /\ pc = "copy" /\ PageOf(physAddr) \notin Backed
    /\ pc' = "done" /\ result' = FALSE /\ physAddr' = Unset
    /\ UNCHANGED <<map, laddr, size, srcAddrStart, srcAddrEnd, pos, copySize, bytes, copied>>

\* The loop ends.
Finish ==
    /\ pc = "loop" /\ pos >= size
    /\ pc' = "done" /\ result' = TRUE /\ bytes' = pos
    /\ UNCHANGED <<map, laddr, size, locals, copied>>

Return ==
    /\ pc = "done"
    /\ pc' = "idle" /\ laddr' = 0 /\ size' = 0
    /\ srcAddrStart' = 0 /\ srcAddrEnd' = 0 /\ pos' = 0 /\ copySize' = 0
    /\ result' = FALSE /\ bytes' = Unset /\ copied' = << >>
    /\ UNCHANGED <<map, physAddr>>

\* The guest changes the translation of a page (external).
Remap(p, f) ==
    /\ map' = [map EXCEPT ![p] = f]
    /\ UNCHANGED <<pc, laddr, size, locals, result, bytes, copied>>

Steps == Translate \/ FailTranslate \/ CopyPage \/ FailCopy \/ Finish

Next ==
    \/ \E l \in Addresses, n \in Sizes : Call(l, n) \/ CallNull(l, n)
    \/ Steps \/ Return
    \/ \E p \in Pages, f \in Frames \cup {NoFrame} : Remap(p, f)

\* The calling thread goes on.
Spec == Init /\ [][Next]_vars /\ WF_vars(Steps)

-----------------------------------------------------------------------------
(* Properties *)

\* No access leaves the page frame that was translated for it: MemRead and MemWrite never
\* reach the frame behind it, which may belong to something else.
AccessWithinPage ==
    pc = "copy" => copySize > 0 /\ (physAddr % PageSize) + copySize <= PageSize

\* The loop is where the arithmetic on the ends of pages says it is: the bytes copied so
\* far are the first pos, and the next is laddr + pos, also where the range wraps.
LoopIsAt ==
    pc \in {"loop", "copy"} =>
        /\ Len(copied) = pos /\ pos <= size
        /\ pos < size => srcAddrStart = Wrap(laddr + pos)

\* Each byte is copied through a translation that its own turn of the loop made of its own
\* page: LinearToPhysical is asked for the next byte to be copied, and the bytes copied
\* before it is asked again lie in that page and keep their offsets in it.  The guest may
\* change the page tables after the translation: the copy then goes to the old frame.
EachByteTranslated ==
    [][/\ physAddr' \notin {physAddr, Unset} => physAddr' = LinearToPhysical(Wrap(laddr + pos))
       /\ \A i \in Len(copied) + 1 .. Len(copied') :
             LET a == Wrap(laddr + i - 1)
             IN  /\ PageOf(a) = PageOf(Wrap(laddr + pos))
                 /\ copied'[i] = PageOf(physAddr) * PageSize + (a % PageSize)]_vars

\* A call that returns true has copied every byte and says so; one that returns false
\* has copied less, unless it was asked for nothing and given no buffer, and says nothing.
AllOrFalse ==
    pc = "done" => IF result THEN Len(copied) = size /\ bytes = size
                   ELSE (Len(copied) < size \/ size = 0) /\ bytes = Unset

\* The loop ends, whatever the guest does to the page tables.
CallReturns == pc = "loop" ~> pc = "done"

=============================================================================
