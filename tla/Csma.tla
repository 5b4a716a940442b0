--------------------------------- MODULE Csma ---------------------------------
(***************************************************************************)
(* core/net/mac/csma.c, the MAC layer's queue of packets per neighbour,    *)
(* with the send_list of core/net/mac/nullrdc.c below it and the pools of  *)
(* core/lib/memb.c and core/net/queuebuf.c it allocates from.  send_list   *)
(* sends a whole queue in one go; for each packet it calls packet_sent,    *)
(* which frees or keeps the packet and calls the sender back, who may send *)
(* again before send_list goes on with the next packet it remembers.       *)
(*                                                                         *)
(* A packet's metadata, buffer and list entry are one packet here, found   *)
(* by its sequence number; the pools are counts.  A transmit timer fires   *)
(* at any time after it was set.  The counters of collisions and deferrals *)
(* are only written, and the energy attributes do not matter.              *)
(***************************************************************************)
EXTENDS Integers, Sequences, FiniteSets, SequencesExt, FiniteSetsExt

CONSTANTS Packets, Addrs, NONE,
          Blocks,        \* neighbor_memb
          Acks,          \* the packets of type PACKETBUF_ATTR_PACKET_TYPE_ACK
          MaxTx,         \* max_transmissions of each packet
          QueuebufNum,   \* QUEUEBUF_NUM, the size of the other pools
          PerNeighbor,   \* CSMA_MAX_PACKET_PER_NEIGHBOR
          OthersMax      \* bound: queuebufs that other modules hold

ASSUME CsmaAssumption ==
  /\ NONE \notin Packets \cup Addrs \cup Blocks /\ Acks \subseteq Packets
  /\ MaxTx \in [Packets -> Nat \ {0}] /\ OthersMax \in Nat
  /\ QueuebufNum \in Nat \ {0} /\ PerNeighbor \in 1 .. QueuebufNum

VARIABLES addr,            \* n->addr, NONE for a free block
          queue,           \* n->queued_packet_list
          transmissions,
          timer,           \* whether n->transmit_timer is set
          packets, metadata, bufs,   \* blocks taken from the three pools
          others,          \* queuebufs that other modules hold
          pc,              \* send_list: "idle", "send" or "callback"
          n, cur, next,    \* its ptr, buf_list and next
          to,              \* history: where each packet was sent, or NONE
          answer,          \* history: what each sender was told
          acked, noacks    \* history: what happened to each packet on the air

nbrVars == <<addr, queue, transmissions, timer>>
poolVars == <<packets, metadata, bufs>>
listVars == <<pc, n, cur, next>>
history == <<to, answer, acked, noacks>>
vars == <<nbrVars, poolVars, others, listVars, history>>

Statuses == {"OK", "NOACK", "COLLISION", "ERR"}

-------------------------------------------------------------------------------
(* send_packet(sent, ptr) of csma.c *)

(* neighbor_queue_from_addr(a), or else a block of neighbor_memb *)
Entry(a) ==
  LET known == {b \in Blocks : addr[b] = a}
      free == {b \in Blocks : addr[b] = NONE}
  IN  IF known # {} THEN CHOOSE b \in known : TRUE
      ELSE IF free # {} THEN CHOOSE b \in free : TRUE ELSE NONE

BufFree == bufs + others < QueuebufNum

\* a pool is asked only when the ones before it had a block
GotPacket == packets < QueuebufNum
GotMetadata == GotPacket /\ metadata < QueuebufNum
GotBuf == GotMetadata /\ BufFree

\* mutated form: the block is not given back
MetadataKept(m) == m

\* memb_free of the metadata and of the packet when what comes next is missing
MetadataFreed(m) == m - 1
PacketFreed(m) == m - 1

\* mutated form: one packet too many
FullLate(b) == Len(queue[b]) > PerNeighbor

Full(b) == Len(queue[b]) >= PerNeighbor

(* The packet is the first in the queue of b if it is an ACK, else the last *)
Enqueued(b, p) == IF p \in Acks THEN << p >> \o queue[b] ELSE Append(queue[b], p)

\* n->transmissions of a block that is taken from neighbor_memb is set
Entered(b) == [transmissions EXCEPT ![b] = IF addr[b] = NONE THEN 0 ELSE @]

(* The timer is set when p is now the first packet: "send asap" *)
Accept(b, p, a) ==
  /\ addr' = [addr EXCEPT ![b] = a]
  /\ queue' = [queue EXCEPT ![b] = Enqueued(b, p)]
  /\ transmissions' = Entered(b)
  /\ timer' = [timer EXCEPT ![b] = @ \/ Head(Enqueued(b, p)) = p]
  /\ packets' = packets + 1 /\ metadata' = metadata + 1 /\ bufs' = bufs + 1
  /\ UNCHANGED answer

\* MAC_TX_ERR at once
Refuse(p) == answer' = [answer EXCEPT ![p] = Append(@, "ERR")]

\* "The packet allocation failed. Remove and free neighbor entry if empty."
NeighborFreed(b) == queue[b] = << >>

(* A pool had no block: the blocks that the others gave go back, each by   *)
(* its own call, and so does the neighbour, if the packet was its first.   *)
GiveBack(b, a) ==
  /\ metadata' = IF GotMetadata THEN MetadataFreed(metadata + 1) ELSE metadata
  /\ packets' = IF GotPacket THEN PacketFreed(packets + 1) ELSE packets
  /\ addr' = [addr EXCEPT ![b] = IF NeighborFreed(b) THEN NONE ELSE a]
  /\ transmissions' = Entered(b)
  /\ UNCHANGED <<queue, timer, bufs>>

send_packet(p, a) ==
  /\ pc \in {"idle", "callback"}
  /\ to[p] = NONE
  /\ to' = [to EXCEPT ![p] = a]
  /\ LET b == Entry(a) IN
       \/ b = NONE /\ Refuse(p) /\ UNCHANGED <<nbrVars, poolVars>>
       \/ b # NONE /\ Full(b) /\ Refuse(p) /\ UNCHANGED <<nbrVars, poolVars>>
       \/ b # NONE /\ ~Full(b) /\ ~GotBuf /\ Refuse(p) /\ GiveBack(b, a)
       \/ b # NONE /\ ~Full(b) /\ GotBuf /\ Accept(b, p, a)
  /\ UNCHANGED <<others, listVars, acked, noacks>>

-------------------------------------------------------------------------------
(* send_list(packet_sent, n, q) of nullrdc.c *)

(* Where p is in the queue of b *)
Place(b, p) == CHOOSE i \in DOMAIN queue[b] : queue[b][i] = p

(* The next packet is read before the current one is sent *)
Sending(b, p) ==
  LET i == Place(b, p) IN
    /\ pc' = "send" /\ n' = b /\ cur' = p
    /\ next' = IF i = Len(queue[b]) THEN NONE ELSE queue[b][i + 1]

(* The transmit timer of b fires *)
transmit_packet_list(b) ==
  /\ pc = "idle"
  /\ timer[b]
  /\ timer' = [timer EXCEPT ![b] = FALSE]
  /\ IF queue[b] # << >> THEN Sending(b, Head(queue[b])) ELSE UNCHANGED listVars
  /\ UNCHANGED <<addr, queue, transmissions, poolVars, others, history>>

send_list ==
  /\ pc = "callback"
  /\ IF next # NONE THEN Sending(n, next) ELSE pc' = "idle" /\ UNCHANGED <<n, cur, next>>
  /\ UNCHANGED <<nbrVars, poolVars, others, history>>

\* mutated form: send_list goes on after a failure
GoOnAnyway(r) == TRUE

\* last_sent_ok
GoOn(r) == r = "OK"

-------------------------------------------------------------------------------
(* packet_sent(n, status, 1) of csma.c *)

\* the packet of the queue with the sequence number of the one that was sent
Found == IF Contains(queue[n], cur) THEN cur ELSE NONE

\* mutated form: no timer for the packet after
TimerForNextNot(rest) == FALSE

\* free_packet sets the timer for the next packet, or stops it
TimerForNext(rest) == rest # << >>

(* free_packet(n, q) and then the sender's callback, with status r; the    *)
(* count of a block that is freed means nothing until the block is entered *)
Finish(q, r) ==
  LET rest == RemoveAt(queue[n], Place(n, q)) IN
    /\ queue' = [queue EXCEPT ![n] = rest]
    /\ packets' = packets - 1 /\ metadata' = metadata - 1 /\ bufs' = bufs - 1
    /\ transmissions' = [transmissions EXCEPT ![n] = 0]
    /\ timer' = [timer EXCEPT ![n] = TimerForNext(rest)]
    /\ addr' = [addr EXCEPT ![n] = IF rest = << >> THEN NONE ELSE @]
    /\ answer' = [answer EXCEPT ![q] = Append(@, r)]

Retry(tx) ==
  /\ timer' = [timer EXCEPT ![n] = TRUE]
  /\ transmissions' = [transmissions EXCEPT ![n] = tx]
  /\ UNCHANGED <<addr, queue, poolVars, answer>>

\* mutated form: one transmission fewer
MayRetryLess(q, tx) == tx + 1 < MaxTx[q]

MayRetry(q, tx) == tx < MaxTx[q]

\* mutated form: whatever was not sent is sent again
RetriedAll(r) == r # "OK"

Retried(r) == r \in {"COLLISION", "NOACK"}

\* n->transmissions counts these, and not the collisions
Counted(r) == r \in {"OK", "NOACK"}

packet_sent(r) ==
  LET tx == IF Counted(r) THEN transmissions[n] + 1 ELSE transmissions[n]
      again == Retried(r) /\ MayRetry(Found, tx)
  IN  IF Found = NONE
        THEN /\ transmissions' = [transmissions EXCEPT ![n] = tx]
             /\ UNCHANGED <<addr, queue, timer, poolVars, answer>>
        ELSE \/ again /\ Retry(tx)
             \/ ~again /\ Finish(Found, r)

(* send_one_packet: the radio sends cur, with result r *)
send_one_packet(r) ==
  /\ pc = "send"
  /\ packet_sent(r)
  /\ pc' = "callback"
  /\ next' = IF GoOn(r) THEN next ELSE NONE
  /\ acked' = IF r = "OK" THEN acked \cup {cur} ELSE acked
  /\ noacks' = [noacks EXCEPT ![cur] =
                   IF r = "NOACK" /\ @ <= MaxTx[cur] THEN @ + 1 ELSE @]
  /\ UNCHANGED <<n, cur, others, to>>

-------------------------------------------------------------------------------
(* Other modules take and free queuebufs *)
OthersTake == BufFree /\ others < OthersMax /\ others' = others + 1
OthersFree == others > 0 /\ others' = others - 1
Others ==
  /\ pc \in {"idle", "callback"}
  /\ OthersTake \/ OthersFree
  /\ UNCHANGED <<nbrVars, poolVars, listVars, history>>

Init ==
  /\ addr = [b \in Blocks |-> NONE] /\ queue = [b \in Blocks |-> << >>]
  /\ transmissions = [b \in Blocks |-> 0] /\ timer = [b \in Blocks |-> FALSE]
  /\ packets = 0 /\ metadata = 0 /\ bufs = 0 /\ others = 0
  /\ pc = "idle" /\ n = NONE /\ cur = NONE /\ next = NONE
  /\ to = [p \in Packets |-> NONE] /\ answer = [p \in Packets |-> << >>]
  /\ acked = {} /\ noacks = [p \in Packets |-> 0]

Transmit == \E b \in Blocks : transmit_packet_list(b)

Next ==
  \/ \E p \in Packets, a \in Addrs : send_packet(p, a)
  \/ Transmit \/ send_list \/ Others
  \/ \E r \in Statuses : send_one_packet(r)

Spec == Init /\ [][Next]_vars

(* Timers fire, send_list goes on, and the channel is not busy for ever:   *)
(* collisions alone never use up the transmissions of a packet.            *)
FairSpec ==
  /\ Spec
  /\ \A b \in Blocks : WF_vars(transmit_packet_list(b))
  /\ WF_vars(send_list)
  /\ WF_vars(\E r \in Statuses : send_one_packet(r))
  /\ SF_vars(\E r \in Statuses \ {"COLLISION"} : send_one_packet(r))

-------------------------------------------------------------------------------
Holds(b) == Range(queue[b])
Queued == UNION {Holds(b) : b \in Blocks}
Ahead(b, p) == {queue[b][i] : i \in {j \in DOMAIN queue[b] :
                  \A k \in 1 .. j : queue[b][k] # p}}

(* Queues stay within CSMA_MAX_PACKET_PER_NEIGHBOR and pools within their  *)
(* sizes.                                                                  *)
TypeOK ==
  /\ addr \in [Blocks -> Addrs \cup {NONE}] /\ queue \in [Blocks -> Seq(Packets)]
  /\ \A b \in Blocks : Len(queue[b]) <= PerNeighbor
  /\ transmissions \in [Blocks -> Nat] /\ timer \in [Blocks -> BOOLEAN]
  /\ packets \in 0 .. QueuebufNum /\ metadata \in Nat /\ bufs + others \in 0 .. QueuebufNum
  /\ pc \in {"idle", "send", "callback"} /\ n \in Blocks \cup {NONE}
  /\ {cur, next} \subseteq Packets \cup {NONE}

(* Nothing leaks: when the second or third pool is empty, send_packet      *)
(* frees what the first gave, and free_packet frees all three, so the      *)
(* three pools always hold one block for each queued packet, and a packet  *)
(* is at one place in one queue.                                           *)
PoolsBalanced ==
  /\ IsFiniteSet(Queued)
  /\ packets = Cardinality(Queued) /\ metadata = packets /\ bufs = packets
  /\ \A b, c \in Blocks : \A i \in DOMAIN queue[b], j \in DOMAIN queue[c] :
       queue[b][i] = queue[c][j] => b = c /\ i = j

(* A neighbour that exists has packets and a timer that will send them,    *)
(* except while its packets are being sent; a free block has no timer      *)
(* that could fire for its next owner.                                     *)
NeverStuck ==
  \A b \in Blocks : pc # "send" \/ b # n =>
    /\ addr[b] # NONE <=> timer[b]
    /\ addr[b] # NONE <=> queue[b] # << >>

(* The packet that send_list remembered over a callback is still queued at *)
(* the neighbour that it remembered, and the data packets of one neighbour *)
(* go out in order: "rather than potentially sending out-of-order packet   *)
(* fragments" (nullrdc.c, send_list).                                      *)
InOrder ==
  pc = "send" =>
    /\ cur \in Holds(n) /\ to[cur] = addr[n]
    /\ cur \notin Acks => Ahead(n, cur) \subseteq Acks

(* A sender is told of its own packet, once: OK when it was acknowledged,  *)
(* and, of a packet to an address that never had an ACK packet pushed      *)
(* before it, NOACK only after max_transmissions attempts.                 *)
AnswerTrue ==
  \A p \in Packets :
    /\ Len(answer[p]) <= 1
    /\ answer[p] = << "OK" >> <=> p \in acked
    /\ answer[p] # << >> => to[p] # NONE
    /\ (\A q \in Acks : to[q] # to[p]) =>
         /\ noacks[p] <= MaxTx[p] /\ answer[p] # << "COLLISION" >>
         /\ answer[p] = << "NOACK" >> => noacks[p] = MaxTx[p]

(* Every sender is called back.                                            *)
Answered == \A p \in Packets : to[p] # NONE ~> answer[p] # << >>
===============================================================================
