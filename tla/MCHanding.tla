----------------------------- MODULE MCHanding ------------------------------
(* Small queues of short rows for TLC: two items on one stream, rendered   *)
(* unalike, one on another stream and one that will not open.              *)
EXTENDS Handing
Streams == [item \in Items |-> IF item = "other" THEN 2 ELSE 1]
Lists   == {<<"loud", "loud", "soft">>, <<"loud", "other">>, <<"soft", "lost">>}
=============================================================================
