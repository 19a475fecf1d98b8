---------------------------- MODULE MCExecution ----------------------------
(* Execution on the three backends.  Either of two slots is set up, so that *)
(* bits of an earlier request stay in DR7.                                  *)
EXTENDS Execution

Address(first, second) == [s \in {0, 1} |-> IF s = 0 THEN first ELSE second]
MCRequests ==
    {<< {<<0, "enable">>}, Address(1, 0) >>,
     << {<<1, "enable">>, <<1, "trigger">>}, Address(0, 1) >>}
=============================================================================
