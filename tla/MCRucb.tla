-------------------------------- MODULE MCRucb --------------------------------
(* The instance of Rucb that TLC checks: files of one full chunk, and of a    *)
(* full and a short one.                                                      *)
EXTENDS Rucb

FullAndShort == {<<2>>, <<2, 1>>}
===============================================================================
