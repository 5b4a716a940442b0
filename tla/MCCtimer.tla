------------------------------- MODULE MCCtimer --------------------------------
(* Ctimer for TLC. *)
EXTENDS Ctimer, TLC

Symmetry == Permutations(Timers)
===============================================================================
