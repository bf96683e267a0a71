------------------------------ MODULE MCLedger ------------------------------
(* Ledger on two devices of one listener, one of which may hold no song.   *)
EXTENDS Ledger

Held == {holding \in [Devices -> SUBSET Keys] : holding[1] = Keys /\ holding[2] \in {{}, Keys}}
Skewed == [device \in Devices |-> device - 1]
=============================================================================
