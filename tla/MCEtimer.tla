------------------------------- MODULE MCEtimer --------------------------------
(* Etimer for TLC. *)
EXTENDS Etimer, TLC

Symmetry == Permutations(Timers) \cup Permutations(Mortal)
===============================================================================
