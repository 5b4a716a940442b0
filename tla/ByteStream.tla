------------------------------ MODULE ByteStream ------------------------------
(* What a stream socket promises the applications at its two ends: the bytes  *)
(* written at one end arrive at the other in the order of writing, none       *)
(* twice, and a writer is told that bytes are sent only once the other        *)
(* application has them, as long as that application still listens.  The      *)
(* i-th byte an end writes is the number i.                                   *)
EXTENDS Naturals, Sequences

CONSTANT Ends

VARIABLES written,      \* written[e]: how many bytes end e has written
          got,          \* got[e]: the bytes given to the application at e
          confirmed,    \* confirmed[e]: how many bytes e was told are sent
          deaf          \* deaf[e]: e has ended the connection itself

vars == <<written, got, confirmed, deaf>>

Other(e) == CHOOSE d \in Ends : d # e

Init == /\ written = [e \in Ends |-> 0]
        /\ got = [e \in Ends |-> <<>>]
        /\ confirmed = [e \in Ends |-> 0]
        /\ deaf = [e \in Ends |-> FALSE]

\* End e writes some bytes.
Write(e) == /\ written'[e] > written[e]
            /\ written' = [written EXCEPT ![e] = written'[e]]
            /\ UNCHANGED <<got, confirmed, deaf>>

\* End e is given the next bytes of the other end, is told that some of its
\* own have been taken, ends the connection, or several of these at once.
Progress(e) ==
  /\ \E n \in Len(got[e])..written[Other(e)] :
       got' = [got EXCEPT ![e] = [i \in 1..n |-> i]]
  /\ \E n \in confirmed[e]..written[e] :
       /\ n = confirmed[e] \/ deaf[Other(e)] \/ n <= Len(got[Other(e)])
       /\ confirmed' = [confirmed EXCEPT ![e] = n]
  /\ \E b \in {deaf[e], TRUE} : deaf' = [deaf EXCEPT ![e] = b]
  /\ UNCHANGED written

Next == \E e \in Ends : Write(e) \/ Progress(e)

Spec == Init /\ [][Next]_vars
===============================================================================
