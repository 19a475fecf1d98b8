--------------------------- MODULE MCGuestMemory ---------------------------
(* Small instances of GuestMemory: an address space of 32 bytes, pages of 2 *)
(* bytes, a guest of 4 pages.                                               *)
EXTENDS GuestMemory

\* Every page of the guest, one address inside a page and one beyond the limit.
MCBases == {0, 2, 4, 6} \cup {1, 8}

\* Empty, misaligned, one to four pages, and one that wraps round.
MCSizes == {0, 1, 2, 4, 6, 8, 30}

\* Two blocks of host memory that do not meet and a misaligned pointer.
MCHosts == {8, 18, 9}

MCImplErrors == {"Failed"}
=============================================================================
