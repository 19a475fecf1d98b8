------------------------- MODULE InterruptChannel -------------------------
(***************************************************************************)
(* What EnqueueInterrupt promises (vp.hpp:21-23): a channel from the       *)
(* threads that enqueue interrupts to the guest.  Requests are accepted    *)
(* one at a time, and the guest receives them in the order they were       *)
(* accepted, each once.  When it does is not said here.                    *)
(***************************************************************************)
EXTENDS Naturals, Sequences

VARIABLES
    pending,    \* the requests accepted and not yet received
    received    \* the requests the guest received

vars == <<pending, received>>

Accepted == Len(received) + Len(pending)

Init == pending = << >> /\ received = << >>

\* A request is accepted; it is known by its number.
Accept ==
    /\ pending' = Append(pending, Accepted + 1)
    /\ UNCHANGED received

\* The guest receives the oldest request.
Receive ==
    /\ pending # << >>
    /\ received' = Append(received, Head(pending))
    /\ pending' = Tail(pending)

Next == Accept \/ Receive

Spec == Init /\ [][Next]_vars

=============================================================================
