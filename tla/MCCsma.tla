-------------------------------- MODULE MCCsma --------------------------------
(***************************************************************************)
(* Csma on a small instance: d1 and d2 are data packets and k is an ACK.   *)
(***************************************************************************)
EXTENDS Csma

CONSTANTS d1, d2, k

MCPackets == {d1, d2, k}
MCAcks == {k}

\* d2 may be sent once only, the others twice
MCMaxTx == [p \in MCPackets |-> IF p = d2 THEN 1 ELSE 2]
===============================================================================
