------------------------------ MODULE MCShared ------------------------------
(* Two people sharing two songs, one of which the other's library lacks;    *)
(* the clock of the first is ahead.                                         *)
EXTENDS Shared

MCSharedAtFirst == <<1, 2>>
MCLacks == <<{}, {2}>>
MCSkew == <<2, 0>>
=============================================================================
