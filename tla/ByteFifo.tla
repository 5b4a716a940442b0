------------------------------- MODULE ByteFifo -------------------------------
(***************************************************************************)
(* What core/lib/ringbuf.h promises: a first-in first-out queue of at most *)
(* Capacity bytes.  An insertion that finds the queue full changes nothing *)
(* and answers 0, a removal that finds it empty changes nothing and        *)
(* answers -1.                                                             *)
(***************************************************************************)
EXTENDS Integers, Sequences

CONSTANTS Bytes,     \* what an element may be
          Capacity   \* how many elements fit

VARIABLES q,         \* the queued bytes, oldest first
          put_ret,   \* answer of the last completed insertion
          get_ret    \* answer of the last completed removal

fifoVars == <<q, put_ret, get_ret>>

Init == q = << >> /\ put_ret = 1 /\ get_ret = -1

Put(c) == /\ Len(q) < Capacity
          /\ q' = Append(q, c)
          /\ put_ret' = 1
          /\ UNCHANGED get_ret

PutFull == /\ Len(q) = Capacity
           /\ put_ret' = 0
           /\ UNCHANGED <<q, get_ret>>

Get == /\ q # << >>
       /\ get_ret' = Head(q)
       /\ q' = Tail(q)
       /\ UNCHANGED put_ret

GetEmpty == /\ q = << >>
            /\ get_ret' = -1
            /\ UNCHANGED <<q, put_ret>>

Next == (\E c \in Bytes : Put(c)) \/ PutFull \/ Get \/ GetEmpty

Spec == Init /\ [][Next]_fifoVars
================================================================================
