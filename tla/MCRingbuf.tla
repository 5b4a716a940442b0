------------------------------ MODULE MCRingbuf -------------------------------
(* Ringbuf for TLC. *)
EXTENDS Ringbuf
===============================================================================
