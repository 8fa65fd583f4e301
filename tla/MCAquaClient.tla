---------------------------- MODULE MCAquaClient ----------------------------
(* Instances of AquaClient for TLC.                                         *)
EXTENDS AquaClient

CONSTANTS e1, e2

Two == {e1, e2}
One == {e1}

\* No span, a span longer than any backoff here, and one Task.Delay refuses.
Spans == {0, 5000, 200000}
LongSpan == {5000}
(* The first backoff (1 s) exceeds the cap, as the sixth does in the code.   *)
Cap == 500
Delays == 100000
=============================================================================
