----------------------------- MODULE MCPaging -----------------------------
(* A small instance of Paging: pages of 8 bytes, tables of 4 entries (8 in   *)
(* 32-bit paging), linear addresses of 9 bits (11 in 4-level paging).        *)
EXTENDS Paging

\* An address of 4-level paging from its four indexes and its offset.
Address(i1, i2, i3, i4, offset) == (((i1 * 4 + i2) * 4 + i3) * 4 + i4) * 8 + offset

\* Indexes with no bit in common, two offsets, the ends of the address space and an
\* address above the 11 bits that are translated.
MCLinearAddresses ==
    {Address(i1, i2, i3, i4, offset) :
        i1 \in {1, 2}, i2 \in {1, 2}, i3 \in {1, 2}, i4 \in {1, 2}, offset \in {0, 5}}
    \cup {0, 2047, 2048 + 777, 4095}

\* Frame numbers that share no run of bits; the third is beyond 32-bit paging.
MCFrameNumbers == {18, 45, 210}
MCCR3s == {45, 210}
=============================================================================
