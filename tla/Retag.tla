------------------------------- MODULE Retag --------------------------------
(***************************************************************************)
(* What a tag written over a track promises: the track is at every moment  *)
(* what stood before the write or what the write meant, and once the write *)
(* is answered for as landed, nothing but another write changes it.  What  *)
(* was written with no record kept, or edited by another program before it *)
(* was mended, is promised nothing.                                        *)
(***************************************************************************)
CONSTANT Files

VARIABLES
  stands,   \* the track, mended
  last,     \* the last write: what stood before it, what it meant, its answer
  trusted   \* whether a record was kept of it and no other program edited the track

vars == <<stands, last, trusted>>

\* A write is asked for over the track as it stands; its record may be enough to make it.
Ask ==
  /\ last' \in [before : {stands}, after : Files, answer : {"none"}, kept : BOOLEAN]
  /\ trusted' = last'.kept
  /\ trusted' => stands' \in {last'.before, last'.after}

\* Until it has landed, a write may come to have happened or not to have.
Settle ==
  /\ last' \in {[last EXCEPT !.answer = answer] : answer \in {last.answer, "landed", "failed"}}
  /\ last.answer \in {"landed", "failed"} => last' = last
  /\ trusted' \in {trusted, FALSE}
  /\ trusted' => /\ stands' \in {last.before, last.after}
                 /\ last'.answer = "landed" => stands' = last.after

Init ==
  /\ last = [before |-> stands, after |-> stands, answer |-> "none", kept |-> TRUE]
  /\ trusted = TRUE

Next == Ask \/ Settle

Spec == Init /\ [][Next]_vars
=============================================================================
