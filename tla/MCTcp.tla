--------------------------------- MODULE MCTcp ---------------------------------
(* The instances of Tcp that TLC checks.  The initial sequence numbers are    *)
(* close to the modulus, so that every connection wraps.                      *)
EXTENDS Tcp

CONSTANTS c, s

MCEnds == {c, s}
MCIss == [e \in MCEnds |-> IF e = c THEN 14 ELSE 15]
MCMaxBytes == [e \in MCEnds |-> IF e = c THEN 2 ELSE 1]
MCCap == [e \in MCEnds |-> IF e = c THEN 1 ELSE 2]
MCCapOne == [e \in MCEnds |-> 1]
================================================================================
