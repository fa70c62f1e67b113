-------------------------- MODULE MCServerLifecycle --------------------------
(* ServerLifecycle for TLC: the models are interchangeable when the router   *)
(* knows all or none of them by their display names.                         *)
EXTENDS ServerLifecycle, TLC

ModelSymmetry == Permutations(Models)
=============================================================================
