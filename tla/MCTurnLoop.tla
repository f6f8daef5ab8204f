---------------------------- MODULE MCTurnLoop ----------------------------
(***************************************************************************)
(* TurnLoop, with the requests its rounds send, on small instances.        *)
(***************************************************************************)
EXTENDS ModelRequests, TLC

CONSTANTS read, w1, w2

Symmetry == Permutations({w1, w2})
===========================================================================
