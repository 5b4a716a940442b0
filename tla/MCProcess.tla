------------------------------ MODULE MCProcess -------------------------------
(* Process for TLC: the polled processes are interchangeable, and so are the others. *)
EXTENDS Process, TLC

Symmetry == Permutations(Polled) \cup Permutations(Procs \ Polled)
===============================================================================
