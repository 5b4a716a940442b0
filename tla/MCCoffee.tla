------------------------------- MODULE MCCoffee --------------------------------
(* The instances of Coffee that TLC checks.                                   *)
EXTENDS Coffee, TLC

CONSTANTS a, b

\* The sizes the two files grow to.
Sizes31 == a :> 3 @@ b :> 1

\* Values of equal standing may be exchanged.
Symmetry == Permutations(Values)
================================================================================
