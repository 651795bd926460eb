---------------------------- MODULE MC_RefClock ----------------------------
(* The clock with few clients and short times.                            *)
EXTENDS RefClock, TLC

SomeDeltas == {-2, 1, 3}
ClientSymmetry == Permutations(Clients)
=============================================================================
