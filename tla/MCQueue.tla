------------------------------ MODULE MCQueue -------------------------------
(* Small queues for TLC.                                                   *)
EXTENDS Resumed
=============================================================================
