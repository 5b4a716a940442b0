--------------------------------- MODULE Rucb ---------------------------------
(* The file transfer of rucb.c over the reliable unicast of runicast.c and    *)
(* the stubborn unicast of stunicast.c, from one sender to one receiver.      *)
(* Below are the MAC queues of the two nodes, first in first out per          *)
(* neighbour as those of Csma: a packet waits there for any time, is lost or  *)
(* arrives, maybe several times, and then the sender's sent callback comes.   *)
(*                                                                            *)
(* The application sends a file when the one before is done with, and not     *)
(* from within its timedout callback.                                         *)
EXTENDS Naturals, Sequences

CONSTANTS Files,           \* the files: the lengths of their chunks
          RUCB_DATASIZE,   \* the length of a full chunk
          MAX_TRANSMISSIONS,
          Ids,             \* 2^RUNICAST_PACKET_ID_BITS
          Room, AckRoom,   \* what the MAC queues take for the other node
          MaxFiles         \* bound: how often a file is sent

ASSUME RucbAssumption ==
  /\ {RUCB_DATASIZE, MAX_TRANSMISSIONS} \subseteq Nat \ {0} /\ Ids \in Nat \ {0, 1}
  /\ {Room, AckRoom, MaxFiles} \subseteq Nat
  /\ Files \subseteq Seq(1..RUCB_DATASIZE)

\* A file is read at multiples of RUCB_DATASIZE: only its last chunk is short.
ASSUME FileAssumption ==
  \A f \in Files : \A i \in 1..(Len(f) - 1) : f[i] = RUCB_DATASIZE

VARIABLES snd,       \* the sender's connection
          rcv,       \* the receiver's connection
          mac,       \* the packets in the sender's MAC queue
          acks       \* the identifiers of the ACKs in the receiver's

vars == <<snd, rcv, mac, acks>>

(* snd: nxt, rxmit and tx are sndnxt, rxmit and is_tx, buf the packet in the  *)
(* stunicast buffer, if any, chunk that of rucb and size 1 + last_size, file  *)
(* what read_chunk reads.  History: n how many packets there were, sent the   *)
(* ones reported as sent, told the last report, gaveup whether a transfer     *)
(* ended short, skips the timeouts since the last ACK, wrapped whether they   *)
(* have left one number out of Ids, starts how many files there were, stale   *)
(* whether one of exactly one full chunk began with the last_size 0 that the  *)
(* file before had left.                                                      *)
Init ==
  /\ snd = [nxt |-> 0, rxmit |-> 0, tx |-> FALSE, buf |-> <<>>,
            chunk |-> 0, size |-> 0, file |-> <<>>,
            n |-> 0, sent |-> {}, told |-> "none", gaveup |-> FALSE,
            skips |-> 0, wrapped |-> FALSE, starts |-> 0, stale |-> FALSE]
  /\ rcv = [last |-> Ids, open |-> FALSE, chunk |-> 0, given |-> <<>>]
  /\ mac = <<>> /\ acks = <<>>

-------------------------------------------------------------------------------
(* The sender.  What a call leaves: the connection and the MAC queue.         *)
Left(x, q) == [x |-> x, q |-> q]

\* mutated form: the number is not masked to its two bits
M_NextId(i) == i + 1

NextId(i) == (i + 1) % Ids

\* stunicast_cancel
stunicast_cancel(x) == [x EXCEPT !.buf = <<>>]

\* mutated form: the stubborn sender is not cancelled
M_sent_by_stunicast(x) ==
  LET y == [x EXCEPT !.rxmit = @ + 1]
  IN  IF y.rxmit < MAX_TRANSMISSIONS THEN y
      ELSE [y EXCEPT !.tx = FALSE, !.rxmit = 0, !.nxt = NextId(@),
                     !.told = "timedout", !.gaveup = TRUE]

\* mutated form: transmissions are not counted
M_sent_by_stunicast2(x) == x

\* sent_by_stunicast, for a data packet: with the callback timedout of rucb.
sent_by_stunicast(x) ==
  LET y == [x EXCEPT !.rxmit = @ + 1]
  IN  IF y.rxmit < MAX_TRANSMISSIONS THEN y
      ELSE [stunicast_cancel(y) EXCEPT
              !.tx = FALSE, !.rxmit = 0, !.nxt = NextId(@),
              !.told = "timedout", !.gaveup = TRUE, !.skips = @ + 1,
              !.wrapped = @ \/ y.skips + 2 >= Ids]

\* unicast_send: a MAC without room calls back at once.
unicast_send(x, q, p) ==
  IF Len(q) < Room THEN Left(x, Append(q, p)) ELSE Left(sent_by_stunicast(x), q)

\* stunicast_send_stubborn: whether a queuebuf is left.
stunicast_send_stubborn(x, q, p, buffers) ==
  IF buffers THEN unicast_send([x EXCEPT !.buf = <<p>>], q, p)
             ELSE Left([x EXCEPT !.buf = <<>>], q)

\* runicast_send; rucb ignores its result.
runicast_send(x, q, len, buffers) ==
  LET p == [id |-> x.nxt, no |-> x.n + 1, chunk |-> x.chunk, len |-> len]
      r == stunicast_send_stubborn(
             [x EXCEPT !.rxmit = 0, !.tx = TRUE, !.n = @ + 1, !.told = "busy"],
             q, p, buffers)
  IN  IF x.tx THEN Left(x, q)
      ELSE IF buffers THEN r
      ELSE Left([r.x EXCEPT !.tx = FALSE, !.told = "failed", !.gaveup = TRUE], r.q)

read_data(x) == IF x.chunk < Len(x.file) THEN x.file[x.chunk + 1] ELSE 0

\* mutated form: chunk is not advanced
M_acked(x, q, buffers) ==
  [runicast_send(x, q, read_data(x), buffers) EXCEPT !.x.size = 1 + read_data(x)]

\* acked of rucb.c: the next chunk, or the end.
acked(x, q, buffers) ==
  LET y == [x EXCEPT !.chunk = @ + 1]
      len == read_data(y)
      r == runicast_send(y, q, len, buffers)
  IN  IF len = 0 /\ y.size = 1 THEN Left([y EXCEPT !.told = "done"], q)
      ELSE Left([r.x EXCEPT !.size = 1 + len], r.q)

\* mutated form: the number of the ACK is not looked at
M_AckReceived(x, q, id, buffers) ==
  acked([stunicast_cancel(x) EXCEPT
           !.nxt = NextId(@), !.tx = FALSE, !.skips = 0,
           !.sent = @ \cup {IF x.tx THEN x.n ELSE x.n + 1}], q, buffers)

\* recv_from_stunicast at the sender: an ACK.
AckReceived(x, q, id, buffers) ==
  IF id # x.nxt THEN Left(x, q)
  ELSE acked([stunicast_cancel(x) EXCEPT
                !.nxt = NextId(@), !.tx = FALSE, !.skips = 0,
                !.sent = @ \cup {IF x.tx THEN x.n ELSE x.n + 1}], q, buffers)

-------------------------------------------------------------------------------
(* The receiver.                                                              *)

\* mutated form: last_seqno is not looked at
M_recv(r, p) ==
  LET at == IF r.open THEN r.chunk ELSE 0
  IN  [last |-> p.id, open |-> p.len = RUCB_DATASIZE, chunk |-> at + 1,
       given |-> Append(r.given, [no |-> p.no, moved |-> p.chunk # at, len |-> p.len])]

\* recv of rucb.c: given records what write_chunk is given and whether at
\* another place than it was read from.
recv(r, p) ==
  LET at == IF r.open THEN r.chunk ELSE 0
  IN  IF p.id = r.last THEN r
      ELSE [last |-> p.id, open |-> p.len = RUCB_DATASIZE, chunk |-> at + 1,
            given |-> Append(r.given, [no |-> p.no, moved |-> p.chunk # at, len |-> p.len])]

\* recv_from_stunicast at the receiver: the ACK needs a queuebuf and room in
\* the MAC queue, and the packet is given up to rucb in any case.
DataReceived(p) ==
  /\ rcv' = recv(rcv, p)
  /\ \/ Len(acks) < AckRoom /\ acks' = Append(acks, p.id)
     \/ UNCHANGED acks

-------------------------------------------------------------------------------
Do(result) == \E r \in {result} : snd' = r.x /\ mac' = r.q

\* rucb_send
rucb_send(f) ==
  /\ snd.told # "busy" /\ snd.starts < MaxFiles
  /\ LET x == [snd EXCEPT !.chunk = 0, !.file = f, !.starts = @ + 1,
                        !.stale = @ \/ (snd.size = 1 /\ f = <<RUCB_DATASIZE>>)]
     IN  \E buffers \in BOOLEAN :
           Do(runicast_send(x, mac, read_data(x), buffers))
  /\ UNCHANGED <<rcv, acks>>

\* send of stunicast.c: the retransmission timer.
Resend == /\ snd.buf # <<>>
          /\ Do(unicast_send(snd, mac, snd.buf[1]))
          /\ UNCHANGED <<rcv, acks>>

\* The MAC has sent the packet, or failed to, and calls back.
Transmit == /\ mac # <<>>
            /\ DataReceived(Head(mac)) \/ UNCHANGED <<rcv, acks>>
            /\ Do(Left(sent_by_stunicast(snd), Tail(mac)))

\* The packet arrived, the link layer's acknowledgement did not: the MAC will
\* send it again.
TransmitAgain == /\ mac # <<>>
                 /\ DataReceived(Head(mac))
                 /\ UNCHANGED <<snd, mac>>

\* An ACK is sent, and arrives or is lost.
TransmitAck == /\ acks # <<>>
               /\ acks' = Tail(acks)
               /\ \/ \E buffers \in BOOLEAN :
                       Do(AckReceived(snd, mac, Head(acks), buffers))
                  \/ UNCHANGED <<snd, mac>>
               /\ UNCHANGED rcv

Next == \/ \E f \in Files : rucb_send(f)
        \/ Resend \/ Transmit \/ TransmitAgain \/ TransmitAck

\* The retransmission timer is a ctimer, and a MAC calls back for every packet
\* (CalledBack of Ctimer, Answered of Csma).
Spec == Init /\ [][Next]_vars /\ WF_vars(Resend) /\ WF_vars(Transmit)

-------------------------------------------------------------------------------
Packet == [id : 0..(Ids - 1), no : Nat, chunk : Nat, len : 0..RUCB_DATASIZE]

\* The type invariant.
TypeOK ==
  /\ snd.nxt \in 0..(Ids - 1) /\ snd.rxmit \in 0..(MAX_TRANSMISSIONS - 1)
  /\ snd.tx \in BOOLEAN /\ snd.buf \in Seq(Packet)
  /\ snd.chunk \in Nat /\ snd.size \in 0..(1 + RUCB_DATASIZE)
  /\ snd.told \in {"none", "busy", "done", "timedout", "failed"}
  /\ rcv.last \in 0..Ids /\ rcv.open \in BOOLEAN
  /\ mac \in Seq(Packet) /\ Len(mac) <= Room
  /\ acks \in Seq(0..(Ids - 1)) /\ Len(acks) <= AckRoom

\* A packet under way is one whose acknowledgement will be recognised: while
\* is_tx is set, and only then, the stubborn buffer holds a packet to send
\* again, and it carries the number the ACK handler waits for; and the
\* application has been told neither of its arrival nor of its end.
UnderWay ==
  /\ snd.tx <=> snd.buf # <<>>
  /\ snd.tx <=> snd.told = "busy"
  /\ snd.tx => snd.buf[1].id = snd.nxt /\ snd.buf[1].no = snd.n

\* The receiving application is given packets in the order of sending and none
\* twice, whatever is sent again by the timer or by the MAC, late or not.
OnceInOrder ==
  \A i, j \in DOMAIN rcv.given : i < j => rcv.given[i].no < rcv.given[j].no

\* What is reported as sent has been given to the application at the receiver,
\* unless the numbers of the packets came round: after Ids - 1 timeouts in a
\* row an old ACK, or a packet dropped for a duplicate, looks like the new one.
SentTrue ==
  ~snd.wrapped => snd.sent \subseteq {rcv.given[i].no : i \in DOMAIN rcv.given}

\* As long as no transfer has been given up, data is written at the place in
\* the file it was read from, and when the sender has no more to do the
\* receiver has everything and has closed the file.  A file that ends with a
\* short chunk is followed by an empty packet, which opens and closes another
\* at the receiver.  Not after a file of one full chunk with a stale last_size:
\* that is done without the empty packet that would close it.
FileWhole ==
  ~snd.gaveup /\ ~snd.stale =>
    /\ \A i \in DOMAIN rcv.given : rcv.given[i].moved => rcv.given[i].len = 0
    /\ snd.told = "done" => ~rcv.open /\ Len(rcv.given) = snd.n

\* A transfer comes to an end at the sender, although every packet and every
\* ACK may be lost: each chunk is acknowledged or times out.
Ends == snd.told = "busy" ~> snd.told # "busy"
===============================================================================
