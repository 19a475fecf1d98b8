--------------------------- MODULE MCDescriptors ---------------------------
(* Tables of one to three words, some with a limit that is no word's end;   *)
(* bases within a half, with its highest bit, and with an upper half.       *)
EXTENDS Descriptors

MCBases == {3, 6, 9}
MCFlagSets == {{"g", "l"}, {"d"}}
=============================================================================
