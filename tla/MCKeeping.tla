----------------------------- MODULE MCKeeping ------------------------------
(* A song filed elsewhere while it is queued, and small queues of it.      *)
EXTENDS Keeping

FiledElsewhere == {<<"a", "b">>}
=============================================================================
