-------------------------- MODULE MCBackendMemory --------------------------
(* Two machines of two processors on each backend; the first one has two   *)
(* blocks of pages, both together above 4 GiB.  The dirty bits of a block  *)
(* take part of a word, those of both two words.                           *)
EXTENDS BackendMemory

MCPages == 0 .. 1
MCFlagSets == {{"read", "write"}, {"write", "track"}, {"track"}}
=============================================================================
