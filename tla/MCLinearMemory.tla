--------------------------- MODULE MCLinearMemory ---------------------------
(* A small instance of LinearMemory: four pages of three bytes; a range may  *)
(* span every page and wrap round.                                           *)
EXTENDS LinearMemory

\* The first, the second and the last byte of a page; in the first, a middle and the last page.
MCAddresses == {0, 1, 5, 6, 10, 11}

\* Nothing, less than a page, one page, two pages and a byte, all bytes but one.
MCSizes == {0, 2, 3, 7, 11}
=============================================================================
