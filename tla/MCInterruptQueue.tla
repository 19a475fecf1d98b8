------------------------- MODULE MCInterruptQueue -------------------------
(* InterruptQueue with two threads that enqueue.                           *)
EXTENDS InterruptQueue
=============================================================================
