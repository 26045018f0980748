------------------------------ MODULE MCChannel ------------------------------
(* Instances of Channel for TLC: an unbuffered channel and one with two       *)
(* places.  Coroutines and items are not declared symmetric, for liveness.    *)
EXTENDS Channel, TLC

RendezvousOrTwo == {0, 2}
=============================================================================
