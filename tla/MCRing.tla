------------------------------- MODULE MCRing -------------------------------
(***************************************************************************)
(* Ring on small instances: a ring of a few frames, a fade of two steps,   *)
(* and a handful of seeks, splices and fades.                              *)
(***************************************************************************)
EXTENDS Ring
=============================================================================
