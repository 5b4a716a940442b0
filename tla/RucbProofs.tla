------------------------------ MODULE RucbProofs ------------------------------
(***************************************************************************)
(* The transfer of rucb.c over runicast.c, for every number of             *)
(* transmissions, every size of the MAC queues and every number space.     *)
(* Each part of the invariant speaks of a sender x, a MAC queue q, a       *)
(* receiver r and queued ACKs a, so that the lemmas on the functions of    *)
(* stunicast.c and runicast.c can be put together as the calls are.        *)
(***************************************************************************)
EXTENDS Rucb, SequenceTheorems, TLAPS

Sender ==
  [nxt : 0 .. Ids - 1, rxmit : 0 .. MAX_TRANSMISSIONS - 1, tx : BOOLEAN, buf : Seq(Packet),
   chunk : Nat, size : 0 .. 1 + RUCB_DATASIZE, file : Seq(1 .. RUCB_DATASIZE),
   n : Nat, sent : SUBSET Nat, told : {"none", "busy", "done", "timedout", "failed"},
   gaveup : BOOLEAN, skips : Nat, wrapped : BOOLEAN, starts : Nat,
   stale : BOOLEAN]

Receiver ==
  [last : 0 .. Ids, open : BOOLEAN, chunk : Nat, 
   given : Seq([no : Nat, moved : BOOLEAN, len : 0 .. RUCB_DATASIZE])]

QueueOK(q) == q \in Seq(Packet) /\ Len(q) <= Room
AcksOK(a) == a \in Seq(0 .. Ids - 1) /\ Len(a) <= AckRoom

(* UnderWay, of a sender *)
BufferOK(x) ==
  /\ x.tx <=> x.buf # << >>
  /\ x.tx <=> x.told = "busy"
  /\ x.tx => x.buf[1].id = x.nxt /\ x.buf[1].no = x.n

(* The number after i, without the remainder *)
LEMMA NextIdFacts ==
  ASSUME NEW i \in 0 .. Ids - 1
  PROVE  NextId(i) = (IF i + 1 < Ids THEN i + 1 ELSE 0) /\ NextId(i) \in 0 .. Ids - 1
  BY RucbAssumption DEF NextId

(* sent_by_stunicast: one more transmission, or the timeout *)
LEMMA CountFacts ==
  ASSUME NEW x \in Sender, NEW y, y = sent_by_stunicast(x)
  PROVE  /\ y \in Sender
         /\ y.n = x.n /\ y.sent = x.sent /\ y.chunk = x.chunk /\ y.file = x.file /\ y.size = x.size
         /\ y.stale = x.stale
         /\ \/ /\ y.tx = x.tx /\ y.buf = x.buf /\ y.nxt = x.nxt /\ y.told = x.told
               /\ y.skips = x.skips /\ y.wrapped = x.wrapped /\ y.gaveup = x.gaveup
            \/ /\ y.tx = FALSE /\ y.buf = << >> /\ y.nxt = NextId(x.nxt) /\ y.told = "timedout"
               /\ y.skips = x.skips + 1 /\ y.wrapped = (x.wrapped \/ x.skips + 2 >= Ids)
               /\ y.gaveup = TRUE
<1>1. x.rxmit \in 0 .. MAX_TRANSMISSIONS - 1 /\ x.nxt \in 0 .. Ids - 1 /\ x.skips \in Nat
  BY DEF Sender
<1> DEFINE z == [x EXCEPT !.rxmit = @ + 1]
<1>2. z.rxmit = x.rxmit + 1 /\ z.skips = x.skips
  BY DEF Sender
<1>3. CASE x.rxmit + 1 < MAX_TRANSMISSIONS
  <2>1. y = z
    BY <1>2, <1>3 DEF sent_by_stunicast
  <2>2. x.rxmit + 1 \in 0 .. MAX_TRANSMISSIONS - 1
    BY <1>1, <1>3, RucbAssumption
  <2>3. y \in Sender
    BY <2>1, <2>2, Zenon DEF Sender
  <2>4. /\ y.n = x.n /\ y.sent = x.sent /\ y.chunk = x.chunk /\ y.file = x.file /\ y.size = x.size
        /\ y.tx = x.tx /\ y.buf = x.buf /\ y.nxt = x.nxt /\ y.told = x.told
        /\ y.skips = x.skips /\ y.wrapped = x.wrapped /\ y.gaveup = x.gaveup
        /\ y.stale = x.stale
    BY <2>1, Zenon DEF Sender
  <2> QED
    BY <2>3, <2>4
<1>4. CASE ~(x.rxmit + 1 < MAX_TRANSMISSIONS)
  <2>1. y = [[z EXCEPT !.buf = << >>] EXCEPT
                !.tx = FALSE, !.rxmit = 0, !.nxt = NextId(@),
                !.told = "timedout", !.gaveup = TRUE, !.skips = @ + 1,
                !.wrapped = @ \/ z.skips + 2 >= Ids]
    BY <1>2, <1>4 DEF sent_by_stunicast, stunicast_cancel
  <2>2. NextId(x.nxt) \in 0 .. Ids - 1 /\ 0 \in 0 .. MAX_TRANSMISSIONS - 1 /\ << >> \in Seq(Packet)
    BY <1>1, NextIdFacts, RucbAssumption
  <2>3. (x.wrapped \/ x.skips + 2 >= Ids) \in BOOLEAN
    OBVIOUS
  <2>4. x.skips + 1 \in Nat
    BY <1>1
  <2>5. y = [x EXCEPT !.rxmit = 0, !.buf = << >>, !.tx = FALSE, !.nxt = NextId(x.nxt),
                      !.told = "timedout", !.gaveup = TRUE, !.skips = x.skips + 1,
                      !.wrapped = (x.wrapped \/ x.skips + 2 >= Ids)]
    BY <1>2, <2>1 DEF Sender
  <2>6. y \in Sender
    <3> DEFINE w == (x.wrapped \/ x.skips + 2 >= Ids)
               u == NextId(x.nxt)
               k == x.skips + 1
    <3>1. w \in BOOLEAN /\ u \in 0 .. Ids - 1 /\ k \in Nat
      BY <2>2, <2>3, <2>4
    <3>2. y = [x EXCEPT !.rxmit = 0, !.buf = << >>, !.tx = FALSE, !.nxt = u,
                        !.told = "timedout", !.gaveup = TRUE, !.skips = k,
                        !.wrapped = w]
      BY <2>5
    <3>3. 0 \in 0 .. MAX_TRANSMISSIONS - 1 /\ << >> \in Seq(Packet)
      BY <2>2
    <3> HIDE DEF w, u, k
    <3> DEFINE v == [x EXCEPT !.rxmit = 0, !.buf = << >>, !.tx = FALSE, !.nxt = u]
    <3>4. v \in Sender
      BY <3>1, <3>3 DEF Sender
    <3>5. y = [v EXCEPT !.told = "timedout", !.gaveup = TRUE, !.skips = k, !.wrapped = w]
      BY <3>2
    <3> HIDE DEF v
    <3> QED
      BY <3>1, <3>4, <3>5 DEF Sender
  <2>7. /\ y.n = x.n /\ y.sent = x.sent /\ y.chunk = x.chunk /\ y.file = x.file /\ y.size = x.size
        /\ y.tx = FALSE /\ y.buf = << >> /\ y.nxt = NextId(x.nxt) /\ y.told = "timedout"
        /\ y.skips = x.skips + 1 /\ y.wrapped = (x.wrapped \/ x.skips + 2 >= Ids)
        /\ y.gaveup = TRUE /\ y.stale = x.stale
    BY <2>5, ZenonT(60) DEF Sender
  <2> QED
    BY <2>6, <2>7
<1> QED
  BY <1>3, <1>4

(* unicast_send: the packet is queued, or it counts as sent at once. *)
LEMMA UnicastFacts ==
  ASSUME NEW x \in Sender, NEW q, QueueOK(q), NEW p \in Packet
  PROVE  \/ /\ unicast_send(x, q, p) = Left(x, Append(q, p)) /\ QueueOK(Append(q, p))
         \/ unicast_send(x, q, p) = Left(sent_by_stunicast(x), q)
<1>1. Len(q) \in Nat /\ Room \in Nat
  BY RucbAssumption DEF QueueOK
<1>2. Len(q) < Room => QueueOK(Append(q, p))
  BY <1>1, AppendProperties DEF QueueOK
<1> QED
  BY <1>2 DEF unicast_send

(* The sender after a packet is put into the stunicast buffer, and after   *)
(* there was no buffer for it                                              *)
Begun(x, p) == [x EXCEPT !.rxmit = 0, !.tx = TRUE, !.n = @ + 1, !.told = "busy", !.buf = <<p>>]
Failed(x) == [x EXCEPT !.rxmit = 0, !.n = @ + 1, !.told = "failed", !.gaveup = TRUE,
                       !.buf = << >>]
NewPacket(x, len) == [id |-> x.nxt, no |-> x.n + 1, chunk |-> x.chunk, len |-> len]

(* ... and what is in it then *)
LEMMA BegunFacts ==
  ASSUME NEW x \in Sender, NEW len \in 0 .. RUCB_DATASIZE, NEW p, p = NewPacket(x, len),
         NEW y, y = Begun(x, p)
  PROVE  /\ p \in Packet /\ y \in Sender /\ y.buf = <<p>>
         /\ y.tx = TRUE /\ y.n = x.n + 1 /\ y.told = "busy"
         /\ y.nxt = x.nxt /\ y.sent = x.sent /\ y.skips = x.skips
         /\ y.wrapped = x.wrapped /\ y.gaveup = x.gaveup
         /\ y.chunk = x.chunk /\ y.file = x.file /\ y.size = x.size
<1>1. p \in Packet
  BY DEF Sender, Packet, NewPacket
<1>2. <<p>> \in Seq(Packet)
  BY <1>1
<1>3. 0 \in 0 .. MAX_TRANSMISSIONS - 1
  BY RucbAssumption
<1>4. x.n + 1 \in Nat
  BY DEF Sender
<1>5. y \in Sender
  BY <1>2, <1>3, <1>4, Zenon DEF Begun, Sender
<1> QED
  BY <1>1, <1>5, Zenon DEF Begun, Sender

(* ... and when there was no buffer *)
LEMMA FailedFacts ==
  ASSUME NEW x \in Sender
  PROVE  /\ Failed(x) \in Sender /\ Failed(x).buf = << >> /\ Failed(x).tx = x.tx
         /\ Failed(x).n = x.n + 1 /\ Failed(x).told = "failed" /\ Failed(x).nxt = x.nxt
         /\ Failed(x).sent = x.sent /\ Failed(x).skips = x.skips
         /\ Failed(x).wrapped = x.wrapped /\ Failed(x).gaveup = TRUE
<1>1. 0 \in 0 .. MAX_TRANSMISSIONS - 1 /\ << >> \in Seq(Packet)
  BY RucbAssumption
<1>2. x.n + 1 \in Nat
  BY DEF Sender
<1>3. Failed(x) \in Sender
  BY <1>1, <1>2, Zenon DEF Failed, Sender
<1> QED
  BY <1>3, Zenon DEF Failed, Sender

(* runicast_send, when it is not busy *)
LEMMA SendFacts ==
  ASSUME NEW x \in Sender, NEW q, QueueOK(q), NEW len \in 0 .. RUCB_DATASIZE,
         NEW buffers \in BOOLEAN, ~x.tx
  PROVE  LET p == NewPacket(x, len)
         IN  \/ runicast_send(x, q, len, buffers) = unicast_send(Begun(x, p), q, p)
             \/ runicast_send(x, q, len, buffers) = Left(Failed(x), q)
<1> DEFINE p == NewPacket(x, len)
           y == [x EXCEPT !.rxmit = 0, !.tx = TRUE, !.n = @ + 1, !.told = "busy"]
<1>1. [y EXCEPT !.buf = <<p>>] = Begun(x, p)
  BY DEF Begun, Sender
<1>2. CASE buffers
  <2>1. stunicast_send_stubborn(y, q, p, buffers) = unicast_send([y EXCEPT !.buf = <<p>>], q, p)
    BY <1>2 DEF stunicast_send_stubborn
  <2>2. runicast_send(x, q, len, buffers) = stunicast_send_stubborn(y, q, p, buffers)
    BY <1>2 DEF runicast_send, NewPacket
  <2> QED
    BY <1>1, <2>1, <2>2
<1>3. CASE ~buffers
  <2>1. stunicast_send_stubborn(y, q, p, buffers) = Left([y EXCEPT !.buf = << >>], q)
    BY <1>3 DEF stunicast_send_stubborn
  <2>2. [[y EXCEPT !.buf = << >>] EXCEPT !.tx = FALSE, !.told = "failed", !.gaveup = TRUE]
          = Failed(x)
    BY DEF Failed, Sender
  <2> DEFINE r == stunicast_send_stubborn(y, q, p, buffers)
  <2>3. runicast_send(x, q, len, buffers)
          = Left([r.x EXCEPT !.tx = FALSE, !.told = "failed", !.gaveup = TRUE], r.q)
    BY <1>3, Zenon DEF runicast_send, NewPacket
  <2>4. r.x = [y EXCEPT !.buf = << >>] /\ r.q = q
    BY <2>1 DEF Left
  <2>5. runicast_send(x, q, len, buffers) = Left(Failed(x), q)
    BY <2>2, <2>3, <2>4, Zenon
  <2> QED
    BY <2>5
<1> QED
  BY <1>2, <1>3

-------------------------------------------------------------------------------
(* A sequence, the sequence with one more element, and its tail *)
LEMMA SequenceFacts ==
  ASSUME NEW S, NEW s \in Seq(S)
  PROVE  /\ Len(s) \in Nat /\ (s = << >> <=> Len(s) = 0)
         /\ \A i \in 1 .. Len(s) : s[i] \in S
         /\ \A e \in S :
              /\ Append(s, e) \in Seq(S) /\ Len(Append(s, e)) = Len(s) + 1
              /\ \A i \in 1 .. Len(s) : Append(s, e)[i] = s[i]
              /\ Append(s, e)[Len(s) + 1] = e
         /\ s # << >> =>
              /\ Len(s) >= 1 /\ Head(s) = s[1] /\ Head(s) \in S
              /\ Tail(s) \in Seq(S) /\ Len(Tail(s)) = Len(s) - 1
              /\ \A i \in 1 .. Len(s) - 1 : Tail(s)[i] = s[i + 1]
<1>1. Len(s) \in Nat /\ (s = << >> <=> Len(s) = 0) /\ \A i \in 1 .. Len(s) : s[i] \in S
  BY ElementOfSeq
<1>2. ASSUME NEW e \in S
      PROVE  /\ Append(s, e) \in Seq(S) /\ Len(Append(s, e)) = Len(s) + 1
             /\ \A i \in 1 .. Len(s) : Append(s, e)[i] = s[i]
             /\ Append(s, e)[Len(s) + 1] = e
  BY AppendProperties
<1>3. ASSUME s # << >>
      PROVE  /\ Len(s) >= 1 /\ Head(s) = s[1] /\ Head(s) \in S
             /\ Tail(s) \in Seq(S) /\ Len(Tail(s)) = Len(s) - 1
             /\ \A i \in 1 .. Len(s) - 1 : Tail(s)[i] = s[i + 1]
  <2>1. /\ Head(s) \in S /\ Tail(s) \in Seq(S) /\ Len(Tail(s)) = Len(s) - 1
        /\ \A i \in 1 .. Len(Tail(s)) : Tail(s)[i] = s[i + 1]
    BY <1>3, HeadTailProperties
  <2> QED
    BY <1>1, <1>3, <2>1
<1> QED
  BY <1>1, <1>2, <1>3

(* The packets of a queue are packets. *)
LEMMA QueueFacts ==
  ASSUME NEW q \in Seq(Packet)
  PROVE  /\ Len(q) \in Nat /\ (q # << >> => Len(q) >= 1 /\ q[1] \in Packet /\ Head(q) = q[1])
         /\ \A i \in 1 .. Len(q) : q[i] \in Packet /\ q[i].no \in Nat /\ q[i].id \in 0 .. Ids - 1
<1>1. /\ Len(q) \in Nat /\ \A i \in 1 .. Len(q) : q[i] \in Packet
      /\ q # << >> => Len(q) >= 1 /\ q[1] \in Packet /\ Head(q) = q[1]
  BY SequenceFacts
<1>2. \A p \in Packet : p.no \in Nat /\ p.id \in 0 .. Ids - 1
  BY DEF Packet
<1> QED
  BY <1>1, <1>2

(* ... and those given have their numbers. *)
LEMMA GivenFacts ==
  ASSUME NEW r \in Receiver
  PROVE  Len(r.given) \in Nat /\ \A i \in 1 .. Len(r.given) : r.given[i].no \in Nat
<1> DEFINE G == [no : Nat, moved : BOOLEAN, len : 0 .. RUCB_DATASIZE]
<1>1. r.given \in Seq(G) /\ \A e \in G : e.no \in Nat
  BY DEF Receiver
<1> HIDE DEF G
<1> QED
  BY <1>1, SequenceFacts

(* The packets in the MAC queue and those given, in the order of sending:  *)
(* packets with one number no have one identifier, and the receiver keeps  *)
(* the identifier of the last one given.                                   *)
InOrder(x, q, r) ==
  LET g == r.given
      m == Len(r.given)
  IN  /\ \A i \in 1 .. Len(q) : q[i].no <= x.n /\ (x.tx /\ q[i].no = x.n => q[i].id = x.nxt)
      /\ \A i, j \in 1 .. Len(q) : i <= j =>
           q[i].no <= q[j].no /\ (q[i].no = q[j].no => q[i].id = q[j].id)
      /\ \A i, j \in 1 .. m : i < j => g[i].no < g[j].no
      /\ m > 0 =>
           /\ g[m].no <= x.n /\ (x.tx /\ g[m].no = x.n => r.last = x.nxt)
           /\ \A i \in 1 .. Len(q) : g[m].no <= q[i].no /\ (g[m].no = q[i].no => q[i].id = r.last)

(* A sender with another n, tx or nxt *)
LEMMA InOrderSender ==
  ASSUME NEW x \in Sender, NEW y \in Sender, NEW q \in Seq(Packet), NEW r \in Receiver,
         InOrder(x, q, r), x.n <= y.n,
         y.tx => y.n > x.n \/ (x.tx /\ y.nxt = x.nxt)
  PROVE  InOrder(y, q, r)
<1>1. x.n \in Nat /\ y.n \in Nat /\ x.tx \in BOOLEAN /\ y.tx \in BOOLEAN
  BY DEF Sender
<1>2. \A i \in 1 .. Len(q) : q[i].no \in Nat
  BY QueueFacts
<1>3. Len(r.given) \in Nat /\ \A i \in 1 .. Len(r.given) : r.given[i].no \in Nat
  BY GivenFacts
<1>4. Len(r.given) > 0 => r.given[Len(r.given)].no \in Nat
  BY <1>3
<1> QED
  BY <1>1, <1>2, <1>3, <1>4 DEF InOrder

(* The packet in the stunicast buffer is queued. *)
LEMMA InOrderPush ==
  ASSUME NEW x \in Sender, BufferOK(x), x.tx, NEW q \in Seq(Packet), NEW r \in Receiver,
         InOrder(x, q, r), NEW p \in Packet, p = x.buf[1]
  PROVE  InOrder(x, Append(q, p), r)
<1> DEFINE t == Append(q, p)
           k == Len(q)
<1>1. /\ k \in Nat /\ Len(t) = k + 1 /\ t[k + 1] = p /\ \A i \in 1 .. k : t[i] = q[i]
  BY SequenceFacts
<1>2. p.no = x.n /\ p.id = x.nxt /\ x.n \in Nat
  BY DEF BufferOK, Sender
<1>3. \A i \in 1 .. k : q[i].no \in Nat
  BY QueueFacts
<1>4. Len(r.given) \in Nat /\ \A i \in 1 .. Len(r.given) : r.given[i].no \in Nat
  BY GivenFacts
<1>5. \A i \in 1 .. k + 1 : i = k + 1 \/ i \in 1 .. k
  BY <1>1
<1>6. /\ \A i \in 1 .. k : q[i].no <= x.n /\ (q[i].no = x.n => q[i].id = x.nxt)
      /\ \A i, j \in 1 .. k : i <= j =>
           q[i].no <= q[j].no /\ (q[i].no = q[j].no => q[i].id = q[j].id)
  BY DEF InOrder
<1> HIDE DEF t, k
<1>7. \A i \in 1 .. k + 1 : t[i].no <= x.n /\ (t[i].no = x.n => t[i].id = x.nxt)
  BY <1>1, <1>2, <1>5, <1>6
<1>8. ASSUME NEW i \in 1 .. k + 1, NEW j \in 1 .. k + 1, i <= j
      PROVE  t[i].no <= t[j].no /\ (t[i].no = t[j].no => t[i].id = t[j].id)
  <2>1. CASE j = k + 1
    BY <1>1, <1>2, <1>7, <2>1
  <2>2. CASE j \in 1 .. k
    <3>1. i \in 1 .. k
      BY <1>1, <1>8, <2>2
    <3> QED
      BY <1>1, <1>6, <1>8, <2>2, <3>1
  <2> QED
    BY <1>5, <2>1, <2>2
<1>9. ASSUME Len(r.given) > 0, NEW i \in 1 .. k + 1
      PROVE  LET g == r.given[Len(r.given)]
             IN  g.no <= t[i].no /\ (g.no = t[i].no => t[i].id = r.last)
  <2>1. CASE i = k + 1
    BY <1>1, <1>2, <1>9, <2>1 DEF InOrder
  <2>2. CASE i \in 1 .. k
    BY <1>1, <1>9, <2>2 DEF InOrder, k
  <2> QED
    BY <1>5, <2>1, <2>2
<1> QED
  BY <1>1, <1>7, <1>8, <1>9 DEF InOrder, t

(* The MAC is done with its first packet. *)
LEMMA InOrderPop ==
  ASSUME NEW x \in Sender, NEW q \in Seq(Packet), q # << >>, NEW r \in Receiver,
         InOrder(x, q, r)
  PROVE  InOrder(x, Tail(q), r)
<1> DEFINE t == Tail(q)
           k == Len(q)
<1>1. k \in Nat /\ k >= 1 /\ Len(t) = k - 1 /\ \A i \in 1 .. k - 1 : t[i] = q[i + 1]
  BY SequenceFacts
<1> HIDE DEF t, k
<1>2. \A i \in 1 .. k - 1 : i + 1 \in 1 .. k
  BY <1>1
<1>3. \A i, j \in 1 .. k - 1 : i <= j => i + 1 <= j + 1
  BY <1>1
<1> QED
  BY <1>1, <1>2, <1>3 DEF InOrder, t, k

(* Where the next packet is written *)
At(r) == IF r.open THEN r.chunk ELSE 0

(* The first packet of the queue is received, and given or not. *)
LEMMA RecvFacts ==
  ASSUME NEW r \in Receiver, NEW p \in Packet, NEW y, y = recv(r, p)
  PROVE  /\ y \in Receiver
         /\ p.id = r.last => y = r
         /\ p.id # r.last =>
              /\ y.last = p.id /\ y.open = (p.len = RUCB_DATASIZE)
              /\ y.chunk = At(r) + 1
              /\ Len(y.given) = Len(r.given) + 1
              /\ \A i \in 1 .. Len(r.given) : y.given[i] = r.given[i]
              /\ y.given[Len(r.given) + 1].no = p.no
              /\ y.given[Len(r.given) + 1].moved = (p.chunk # At(r))
              /\ y.given[Len(r.given) + 1].len = p.len
<1> DEFINE at == At(r)
           mv == (p.chunk # at)
           e == [no |-> p.no, moved |-> mv, len |-> p.len]
           G == [no : Nat, moved : BOOLEAN, len : 0 .. RUCB_DATASIZE]
<1>1. at \in Nat /\ p.no \in Nat /\ p.len \in 0 .. RUCB_DATASIZE /\ p.id \in 0 .. Ids /\ r.given \in Seq(G) /\ mv \in BOOLEAN
  BY RucbAssumption DEF Receiver, Packet, At
<1> HIDE DEF mv
<1>2. e \in G /\ e.no = p.no /\ e.moved = mv /\ e.len = p.len
  BY <1>1
<1>3. /\ Append(r.given, e) \in Seq(G) /\ Len(Append(r.given, e)) = Len(r.given) + 1
      /\ \A i \in 1 .. Len(r.given) : Append(r.given, e)[i] = r.given[i]
      /\ Append(r.given, e)[Len(r.given) + 1] = e
  <2> HIDE DEF e, G
  <2> QED
    BY <1>1, <1>2, SequenceFacts
<1>4. CASE p.id = r.last
  BY <1>4 DEF recv
<1>5. CASE p.id # r.last
  <2> DEFINE o == (p.len = RUCB_DATASIZE)
  <2>1. y = [last |-> p.id, open |-> o, chunk |-> at + 1, given |-> Append(r.given, e)]
    BY <1>5 DEF recv, At, mv
  <2>2. at + 1 \in Nat /\ o \in BOOLEAN
    BY <1>1
  <2> HIDE DEF at, e, o
  <2>3. y \in Receiver
    BY <1>1, <1>3, <2>1, <2>2 DEF Receiver
  <2>4. y.last = p.id /\ y.open = o /\ y.chunk = at + 1 /\ y.given = Append(r.given, e)
    BY <2>1
  <2>5. y.open = (p.len = RUCB_DATASIZE) /\ y.chunk = At(r) + 1
    BY <2>4, Zenon DEF o, at
  <2>6. y.given[Len(r.given) + 1].no = p.no /\ y.given[Len(r.given) + 1].len = p.len
    BY <1>2, <1>3, <2>4
  <2>7. y.given[Len(r.given) + 1].moved = (p.chunk # At(r))
    <3>1. y.given[Len(r.given) + 1].moved = mv
      BY <1>2, <1>3, <2>4
    <3> QED
      BY <3>1, Zenon DEF mv, at
  <2>8. Len(y.given) = Len(r.given) + 1 /\ \A i \in 1 .. Len(r.given) : y.given[i] = r.given[i]
    BY <1>3, <2>4
  <2> QED
    BY <1>5, <2>3, <2>4, <2>5, <2>6, <2>7, <2>8, Zenon
<1> QED
  BY <1>4, <1>5, Zenon

(* recv keeps the order: what it gives is the first of the queue. *)
LEMMA InOrderRecv ==
  ASSUME NEW x \in Sender, NEW q \in Seq(Packet), q # << >>, NEW r \in Receiver,
         InOrder(x, q, r), NEW y, y = recv(r, q[1])
  PROVE  InOrder(x, q, y)
<1> DEFINE m == Len(r.given)
<1>1. /\ Len(q) \in Nat /\ Len(q) >= 1 /\ q[1] \in Packet
      /\ \A i \in 1 .. Len(q) : q[i].no \in Nat
  BY QueueFacts
<1>2. m \in Nat /\ \A i \in 1 .. m : r.given[i].no \in Nat
  BY GivenFacts
<1>3. CASE q[1].id = r.last
  BY <1>1, <1>3, RecvFacts
<1>4. CASE q[1].id # r.last
  <2>1. /\ y.last = q[1].id /\ Len(y.given) = m + 1
        /\ \A i \in 1 .. m : y.given[i] = r.given[i]
        /\ y.given[m + 1].no = q[1].no
    BY SMTT(60), <1>1, <1>4, RecvFacts
  <2> HIDE DEF m
  <2>2. \A i \in 1 .. Len(q) :
          /\ q[i].no <= x.n /\ (x.tx /\ q[i].no = x.n => q[i].id = x.nxt)
          /\ q[1].no <= q[i].no /\ (q[1].no = q[i].no => q[i].id = q[1].id)
    BY <1>1 DEF InOrder
  <2>3. m > 0 => r.given[m].no < q[1].no
    <3>1. 1 \in 1 .. Len(q)
      BY <1>1
    <3>2. m > 0 => m \in 1 .. m
      BY <1>2
    <3>3. m > 0 => r.given[m].no <= q[1].no /\ (r.given[m].no = q[1].no => q[1].id = r.last)
      BY <3>1 DEF InOrder, m
    <3> QED
      BY <1>1, <1>2, <1>4, <3>1, <3>2, <3>3
  <2>4. \A i, j \in 1 .. m + 1 : i < j => y.given[i].no < y.given[j].no
    <3> SUFFICES ASSUME NEW i \in 1 .. m + 1, NEW j \in 1 .. m + 1, i < j
                 PROVE  y.given[i].no < y.given[j].no
      OBVIOUS
    <3>1. i \in 1 .. m /\ m \in 1 .. m
      BY <1>2
    <3>2. \A k, l \in 1 .. m : k < l => r.given[k].no < r.given[l].no
      BY DEF InOrder, m
    <3>3. r.given[i].no <= r.given[m].no
      <4>1. CASE i = m
        BY <4>1, <3>1, <1>2
      <4>2. CASE i # m
        BY <4>2, <3>1, <3>2, <1>2
      <4> QED
        BY <4>1, <4>2
    <3>4. CASE j = m + 1
      BY SMTT(60), <3>1, <3>3, <3>4, <2>1, <2>3, <1>1, <1>2
    <3>5. CASE j # m + 1
      <4>1. j \in 1 .. m
        BY <1>2, <3>5
      <4>2. y.given[i] = r.given[i] /\ y.given[j] = r.given[j]
        BY <2>1, <3>1, <4>1
      <4>3. r.given[i].no < r.given[j].no
        BY <3>1, <3>2, <4>1
      <4> QED
        BY <4>2, <4>3
    <3> QED
      BY <3>4, <3>5
  <2>5. /\ y.given[m + 1].no <= x.n /\ (x.tx /\ y.given[m + 1].no = x.n => y.last = x.nxt)
        /\ \A i \in 1 .. Len(q) :
             y.given[m + 1].no <= q[i].no /\ (y.given[m + 1].no = q[i].no => q[i].id = y.last)
    BY <1>1, <2>1, <2>2
  <2>6. \A i, j \in 1 .. Len(q) : i <= j =>
          q[i].no <= q[j].no /\ (q[i].no = q[j].no => q[i].id = q[j].id)
    BY DEF InOrder
  <2> QED
    BY <2>1, <2>2, <2>4, <2>5, <2>6 DEF InOrder
<1> QED
  BY <1>3, <1>4

-------------------------------------------------------------------------------
(* How many numbers ago id was the one to send next *)
Age(x, id) == IF id <= x.nxt THEN x.nxt - id ELSE x.nxt - id + Ids

(* Before the numbers have come round, the identifiers of the packets and  *)
(* ACKs under way lie within a window that is smaller than the number      *)
(* space, and are met in the order of sending: first the ACKs, then what   *)
(* the receiver was given last, then the MAC queue.                        *)
Fresh(x, q, r, a) ==
  ~x.wrapped =>
    /\ x.skips + 2 <= Ids
    /\ \A i \in 1 .. Len(q) : /\ Age(x, q[i].id) <= x.skips + 1
                              /\ q[i].id = x.nxt => x.tx /\ q[i].no = x.n
    /\ \A i, j \in 1 .. Len(q) : i <= j => Age(x, q[j].id) <= Age(x, q[i].id)
    /\ \A i \in 1 .. Len(a) : Age(x, a[i]) <= x.skips + 1
    /\ \A i, j \in 1 .. Len(a) : i <= j => Age(x, a[j]) <= Age(x, a[i])
    /\ Len(r.given) = 0 => Len(a) = 0 /\ r.last = Ids
    /\ Len(r.given) > 0 =>
         /\ r.last \in 0 .. Ids - 1 /\ Age(x, r.last) <= x.skips + 1
         /\ r.last = x.nxt => x.tx /\ r.given[Len(r.given)].no = x.n
         /\ \A i \in 1 .. Len(a) : Age(x, r.last) <= Age(x, a[i])
         /\ \A i \in 1 .. Len(q) : Age(x, q[i].id) <= Age(x, r.last)
    /\ x.sent \subseteq {r.given[i].no : i \in 1 .. Len(r.given)}

(* Ages are below Ids, tell the numbers apart, and grow with nxt. *)
LEMMA AgeFacts ==
  ASSUME NEW x \in Sender, NEW id \in 0 .. Ids - 1
  PROVE  /\ Age(x, id) \in 0 .. Ids - 1
         /\ Age(x, id) = 0 <=> id = x.nxt
         /\ \A id2 \in 0 .. Ids - 1 : Age(x, id) = Age(x, id2) => id = id2
         /\ \A y \in Sender : y.nxt = x.nxt => Age(y, id) = Age(x, id)
         /\ \A y \in Sender : y.nxt = NextId(x.nxt) /\ Age(x, id) + 1 < Ids =>
              Age(y, id) = Age(x, id) + 1
<1>1. x.nxt \in 0 .. Ids - 1 /\ Ids \in Nat
  BY RucbAssumption DEF Sender
<1>2. NextId(x.nxt) = IF x.nxt + 1 < Ids THEN x.nxt + 1 ELSE 0
  BY <1>1, NextIdFacts
<1> QED
  BY <1>1, <1>2 DEF Age

(* The numbers in the queue of ACKs *)
LEMMA AckFacts ==
  ASSUME NEW a \in Seq(0 .. Ids - 1)
  PROVE  Len(a) \in Nat /\ \A i \in 1 .. Len(a) : a[i] \in 0 .. Ids - 1
  BY SequenceFacts

(* The number, the packets sent and what was reported stay, but for a new  *)
(* packet.                                                                 *)
LEMMA FreshSame ==
  ASSUME NEW x \in Sender, NEW y \in Sender, NEW q \in Seq(Packet), NEW r \in Receiver,
         NEW a \in Seq(0 .. Ids - 1), Fresh(x, q, r, a),
         y.nxt = x.nxt /\ y.skips = x.skips /\ y.wrapped = x.wrapped /\ y.sent = x.sent,
         x.tx => y.tx /\ y.n = x.n
  PROVE  Fresh(y, q, r, a)
<1> SUFFICES ASSUME ~y.wrapped
             PROVE  Fresh(y, q, r, a)
  BY DEF Fresh
<1>1. ~x.wrapped
  OBVIOUS
<1>2. \A id \in 0 .. Ids - 1 : Age(y, id) = Age(x, id)
  BY AgeFacts
<1>3. /\ \A i \in 1 .. Len(q) : q[i].id \in 0 .. Ids - 1
      /\ \A i \in 1 .. Len(a) : a[i] \in 0 .. Ids - 1
  BY QueueFacts, AckFacts
<1> QED
  BY <1>1, <1>2, <1>3 DEF Fresh

(* The timeout: everything under way is one number older. *)
LEMMA FreshTimeout ==
  ASSUME NEW x \in Sender, NEW y \in Sender, NEW q \in Seq(Packet), NEW r \in Receiver,
         NEW a \in Seq(0 .. Ids - 1), Fresh(x, q, r, a),
         y.nxt = NextId(x.nxt), y.skips = x.skips + 1, y.sent = x.sent,
         ~y.wrapped => ~x.wrapped /\ x.skips + 2 < Ids
  PROVE  Fresh(y, q, r, a)
<1> SUFFICES ASSUME ~y.wrapped
             PROVE  Fresh(y, q, r, a)
  BY DEF Fresh
<1>1. ~x.wrapped /\ x.skips + 2 < Ids /\ x.skips \in Nat /\ Ids \in Nat
  BY RucbAssumption DEF Sender
<1>2. ASSUME NEW id \in 0 .. Ids - 1, Age(x, id) <= x.skips + 1
      PROVE  Age(y, id) = Age(x, id) + 1 /\ id # y.nxt /\ Age(x, id) \in Nat
  <2>1. Age(x, id) \in 0 .. Ids - 1 /\ Age(x, id) + 1 < Ids
    BY <1>1, <1>2, AgeFacts
  <2>2. Age(y, id) = Age(x, id) + 1
    BY <2>1, AgeFacts
  <2>3. Age(y, id) # 0
    BY <2>1, <2>2
  <2>4. Age(y, id) = 0 <=> id = y.nxt
    BY AgeFacts
  <2> QED
    BY <2>1, <2>2, <2>3, <2>4
<1>3. /\ Len(q) \in Nat /\ \A i \in 1 .. Len(q) : q[i].id \in 0 .. Ids - 1
      /\ Len(a) \in Nat /\ \A i \in 1 .. Len(a) : a[i] \in 0 .. Ids - 1
  BY QueueFacts, AckFacts
<1>4. ASSUME NEW i \in 1 .. Len(q)
      PROVE  Age(y, q[i].id) = Age(x, q[i].id) + 1 /\ q[i].id # y.nxt
             /\ Age(x, q[i].id) \in Nat /\ Age(x, q[i].id) <= x.skips + 1
  BY <1>1, <1>2, <1>3 DEF Fresh
<1>5. ASSUME NEW i \in 1 .. Len(a)
      PROVE  Age(y, a[i]) = Age(x, a[i]) + 1
             /\ Age(x, a[i]) \in Nat /\ Age(x, a[i]) <= x.skips + 1
  BY <1>1, <1>2, <1>3 DEF Fresh
<1>6. ASSUME Len(r.given) > 0
      PROVE  /\ r.last \in 0 .. Ids - 1 /\ r.last # y.nxt
             /\ Age(y, r.last) = Age(x, r.last) + 1
             /\ Age(x, r.last) \in Nat /\ Age(x, r.last) <= x.skips + 1
  BY <1>1, <1>2, <1>6 DEF Fresh
<1>7. \A i, j \in 1 .. Len(q) : i <= j => Age(y, q[j].id) <= Age(y, q[i].id)
  BY <1>1, <1>4 DEF Fresh
<1>8. \A i, j \in 1 .. Len(a) : i <= j => Age(y, a[j]) <= Age(y, a[i])
  <2>1. \A i, j \in 1 .. Len(a) : i <= j => Age(x, a[j]) <= Age(x, a[i])
    BY <1>1 DEF Fresh
  <2> QED
    BY <1>5, <2>1
<1>9. Len(r.given) > 0 =>
         /\ \A i \in 1 .. Len(a) : Age(y, r.last) <= Age(y, a[i])
         /\ \A i \in 1 .. Len(q) : Age(y, q[i].id) <= Age(y, r.last)
  <2> SUFFICES ASSUME Len(r.given) > 0
               PROVE  /\ \A i \in 1 .. Len(a) : Age(y, r.last) <= Age(y, a[i])
                      /\ \A i \in 1 .. Len(q) : Age(y, q[i].id) <= Age(y, r.last)
    OBVIOUS
  <2>1. /\ \A i \in 1 .. Len(a) : Age(x, r.last) <= Age(x, a[i])
        /\ \A i \in 1 .. Len(q) : Age(x, q[i].id) <= Age(x, r.last)
    BY <1>1 DEF Fresh
  <2>2. Age(y, r.last) = Age(x, r.last) + 1 /\ Age(x, r.last) \in Nat
    BY <1>6
  <2>3. \A i \in 1 .. Len(a) : Age(y, r.last) <= Age(y, a[i])
    BY <1>5, <2>1, <2>2
  <2>4. \A i \in 1 .. Len(q) : Age(y, q[i].id) <= Age(y, r.last)
    BY <1>4, <2>1, <2>2
  <2> QED
    BY <2>3, <2>4
<1>10. /\ Len(r.given) = 0 => Len(a) = 0 /\ r.last = Ids
       /\ y.sent \subseteq {r.given[i].no : i \in 1 .. Len(r.given)}
  BY <1>1 DEF Fresh
<1>11. /\ y.skips + 2 <= Ids
       /\ \A i \in 1 .. Len(q) : Age(y, q[i].id) <= y.skips + 1
       /\ \A i \in 1 .. Len(a) : Age(y, a[i]) <= y.skips + 1
       /\ Len(r.given) > 0 => Age(y, r.last) <= y.skips + 1
  BY SMTT(60), <1>1, <1>4, <1>5, <1>6
<1> QED
  BY <1>4, <1>6, <1>7, <1>8, <1>9, <1>10, <1>11 DEF Fresh

(* The packet in the stunicast buffer is queued. *)
LEMMA FreshPush ==
  ASSUME NEW x \in Sender, BufferOK(x), x.tx, NEW q \in Seq(Packet), NEW r \in Receiver,
         NEW a \in Seq(0 .. Ids - 1), Fresh(x, q, r, a), NEW p \in Packet, p = x.buf[1]
  PROVE  Fresh(x, Append(q, p), r, a)
<1> SUFFICES ASSUME ~x.wrapped
             PROVE  Fresh(x, Append(q, p), r, a)
  BY DEF Fresh
<1> DEFINE t == Append(q, p)
           k == Len(q)
<1>1. /\ k \in Nat /\ Len(t) = k + 1 /\ t[k + 1] = p /\ \A i \in 1 .. k : t[i] = q[i]
  BY SequenceFacts
<1>2. p.no = x.n /\ p.id = x.nxt /\ x.n \in Nat /\ p.id \in 0 .. Ids - 1 /\ x.skips \in Nat
  BY DEF BufferOK, Sender, Packet
<1>3. Age(x, p.id) = 0
  BY <1>2, AgeFacts
<1>4. \A i \in 1 .. k + 1 : i = k + 1 \/ i \in 1 .. k
  BY <1>1
<1>5. \A i \in 1 .. k : q[i].id \in 0 .. Ids - 1
  BY QueueFacts
<1>6. \A id \in 0 .. Ids - 1 : Age(x, id) \in 0 .. Ids - 1
  BY AgeFacts
<1> HIDE DEF t
<1>7. \A i \in 1 .. k + 1 : /\ Age(x, t[i].id) <= x.skips + 1
                            /\ t[i].id = x.nxt => x.tx /\ t[i].no = x.n
  BY SMTT(60), <1>1, <1>2, <1>3, <1>4 DEF Fresh
<1>8. ASSUME NEW i \in 1 .. k + 1, NEW j \in 1 .. k + 1, i <= j
      PROVE  Age(x, t[j].id) <= Age(x, t[i].id)
  <2>1. CASE j = k + 1
    <3>1. t[i].id \in 0 .. Ids - 1
      BY <1>1, <1>2, <1>4, <1>5
    <3> QED
      BY <1>1, <1>3, <1>6, <2>1, <3>1
  <2>2. CASE j \in 1 .. k
    <3>1. i \in 1 .. k
      BY <1>1, <1>8, <2>2
    <3> QED
      BY <1>1, <1>8, <2>2, <3>1 DEF Fresh
  <2> QED
    BY <1>4, <2>1, <2>2
<1>9. ASSUME Len(r.given) > 0, NEW i \in 1 .. k + 1
      PROVE  Age(x, t[i].id) <= Age(x, r.last)
  <2>1. r.last \in 0 .. Ids - 1 /\ Age(x, r.last) \in 0 .. Ids - 1
    BY <1>6, <1>9 DEF Fresh
  <2>2. CASE i = k + 1
    BY <1>1, <1>3, <2>1, <2>2
  <2>3. CASE i \in 1 .. k
    BY <1>1, <1>9, <2>3 DEF Fresh
  <2> QED
    BY <1>4, <2>2, <2>3
<1> QED
  BY <1>1, <1>7, <1>8, <1>9 DEF Fresh, t

(* The first packet leaves the MAC queue, the first ACK its queue. *)
LEMMA FreshPop ==
  ASSUME NEW x \in Sender, NEW q \in Seq(Packet), NEW r \in Receiver,
         NEW a \in Seq(0 .. Ids - 1), Fresh(x, q, r, a)
  PROVE  /\ q # << >> => Fresh(x, Tail(q), r, a)
         /\ a # << >> => Fresh(x, q, r, Tail(a))
<1> SUFFICES ASSUME ~x.wrapped
             PROVE  /\ q # << >> => Fresh(x, Tail(q), r, a)
                    /\ a # << >> => Fresh(x, q, r, Tail(a))
  BY DEF Fresh
<1>1. ASSUME q # << >>
      PROVE  Fresh(x, Tail(q), r, a)
  <2> DEFINE t == Tail(q)
             k == Len(q)
  <2>1. k \in Nat /\ k >= 1 /\ Len(t) = k - 1 /\ \A i \in 1 .. k - 1 : t[i] = q[i + 1]
    BY <1>1, SequenceFacts
  <2> HIDE DEF t, k
  <2>2. /\ \A i \in 1 .. k - 1 : i + 1 \in 1 .. k
        /\ \A i, j \in 1 .. k - 1 : i <= j => i + 1 <= j + 1
    BY <2>1
  <2>3. /\ \A i \in 1 .. k : /\ Age(x, q[i].id) <= x.skips + 1
                             /\ q[i].id = x.nxt => x.tx /\ q[i].no = x.n
        /\ \A i, j \in 1 .. k : i <= j => Age(x, q[j].id) <= Age(x, q[i].id)
        /\ Len(r.given) > 0 => \A i \in 1 .. k : Age(x, q[i].id) <= Age(x, r.last)
    BY DEF Fresh, k
  <2>4. \A i \in 1 .. k - 1 : /\ Age(x, t[i].id) <= x.skips + 1
                              /\ t[i].id = x.nxt => x.tx /\ t[i].no = x.n
    BY <2>1, <2>2, <2>3
  <2>5. \A i, j \in 1 .. k - 1 : i <= j => Age(x, t[j].id) <= Age(x, t[i].id)
    BY <2>1, <2>2, <2>3
  <2>6. Len(r.given) > 0 => \A i \in 1 .. k - 1 : Age(x, t[i].id) <= Age(x, r.last)
    BY <2>1, <2>2, <2>3
  <2> QED
    BY <2>1, <2>4, <2>5, <2>6 DEF Fresh, t
<1>2. ASSUME a # << >>
      PROVE  Fresh(x, q, r, Tail(a))
  <2> DEFINE t == Tail(a)
             k == Len(a)
  <2>1. k \in Nat /\ k >= 1 /\ Len(t) = k - 1 /\ \A i \in 1 .. k - 1 : t[i] = a[i + 1]
    BY <1>2, SequenceFacts
  <2> HIDE DEF t, k
  <2>2. /\ \A i \in 1 .. k - 1 : i + 1 \in 1 .. k
        /\ \A i, j \in 1 .. k - 1 : i <= j => i + 1 <= j + 1
    BY <2>1
  <2>3. Len(r.given) = 0 => k = 0
    BY DEF Fresh, k
  <2> QED
    BY <2>1, <2>2, <2>3 DEF Fresh, t, k
<1> QED
  BY <1>1, <1>2

(* The first packet of the queue is received ... *)
LEMMA FreshRecv ==
  ASSUME NEW x \in Sender, NEW q \in Seq(Packet), q # << >>, NEW r \in Receiver,
         NEW a \in Seq(0 .. Ids - 1), Fresh(x, q, r, a), NEW y, y = recv(r, q[1])
  PROVE  /\ Fresh(x, q, y, a)
         /\ ~x.wrapped => Len(y.given) > 0 /\ y.last = q[1].id
<1> SUFFICES ASSUME ~x.wrapped
             PROVE  Fresh(x, q, y, a) /\ Len(y.given) > 0 /\ y.last = q[1].id
  BY DEF Fresh
<1> DEFINE m == Len(r.given)
<1>1. /\ Len(q) \in Nat /\ Len(q) >= 1 /\ q[1] \in Packet /\ 1 \in 1 .. Len(q)
      /\ \A i \in 1 .. Len(q) : q[i].id \in 0 .. Ids - 1
  BY QueueFacts
<1>2. m \in Nat /\ Len(a) \in Nat /\ \A i \in 1 .. Len(a) : a[i] \in 0 .. Ids - 1
  BY GivenFacts, AckFacts
<1>3. \A id \in 0 .. Ids - 1 : Age(x, id) \in Nat
  BY AgeFacts
<1>4. CASE q[1].id = r.last
  <2>1. y = r
    BY <1>1, <1>4, RecvFacts
  <2>2. m # 0
    BY <1>1, <1>4, RucbAssumption DEF Fresh
  <2> QED
    BY <1>2, <1>4, <2>1, <2>2
<1>5. CASE q[1].id # r.last
  <2>1. /\ y.last = q[1].id /\ Len(y.given) = m + 1
        /\ \A i \in 1 .. m : y.given[i] = r.given[i]
        /\ y.given[m + 1].no = q[1].no
    BY <1>1, <1>5, RecvFacts
  <2> HIDE DEF m
  <2>2. /\ Age(x, q[1].id) <= x.skips + 1
        /\ q[1].id = x.nxt => x.tx /\ q[1].no = x.n
        /\ \A i \in 1 .. Len(q) : Age(x, q[i].id) <= Age(x, q[1].id)
    BY <1>1 DEF Fresh
  <2>3. ASSUME NEW i \in 1 .. Len(a)
        PROVE  Age(x, q[1].id) <= Age(x, a[i])
    <3>1. m # 0
      BY <1>2 DEF Fresh, m
    <3>2. /\ r.last \in 0 .. Ids - 1 /\ Age(x, r.last) <= Age(x, a[i])
          /\ Age(x, q[1].id) <= Age(x, r.last)
      BY <1>1, <1>2, <3>1 DEF Fresh, m
    <3> QED
      BY <1>1, <1>2, <1>3, <3>2
  <2>4. x.sent \subseteq {y.given[i].no : i \in 1 .. Len(y.given)}
    <3>1. x.sent \subseteq {r.given[i].no : i \in 1 .. m}
      BY DEF Fresh, m
    <3>2. \A i \in 1 .. m : i \in 1 .. m + 1
      BY <1>2
    <3>3. \A i \in 1 .. m : i \in 1 .. Len(y.given) /\ y.given[i].no = r.given[i].no
      BY <2>1, <3>2
    <3> SUFFICES ASSUME NEW v \in x.sent
                 PROVE  \E i \in 1 .. Len(y.given) : v = y.given[i].no
      OBVIOUS
    <3>4. PICK i \in 1 .. m : v = r.given[i].no
      BY <3>1
    <3> QED
      BY <3>3, <3>4
  <2>5. Len(y.given) > 0 /\ Len(y.given) # 0
    BY <1>2, <2>1
  <2>6. y.given[Len(y.given)].no = q[1].no
    BY <2>1
  <2>7. /\ x.skips + 2 <= Ids
        /\ \A i \in 1 .. Len(q) : /\ Age(x, q[i].id) <= x.skips + 1
                                  /\ q[i].id = x.nxt => x.tx /\ q[i].no = x.n
        /\ \A i, j \in 1 .. Len(q) : i <= j => Age(x, q[j].id) <= Age(x, q[i].id)
        /\ \A i \in 1 .. Len(a) : Age(x, a[i]) <= x.skips + 1
        /\ \A i, j \in 1 .. Len(a) : i <= j => Age(x, a[j]) <= Age(x, a[i])
    BY DEF Fresh
  <2>8. /\ y.last \in 0 .. Ids - 1 /\ Age(x, y.last) <= x.skips + 1
        /\ y.last = x.nxt => x.tx /\ y.given[Len(y.given)].no = x.n
        /\ \A i \in 1 .. Len(a) : Age(x, y.last) <= Age(x, a[i])
        /\ \A i \in 1 .. Len(q) : Age(x, q[i].id) <= Age(x, y.last)
    BY <1>1, <2>1, <2>2, <2>3, <2>6
  <2>9. Fresh(x, q, y, a)
    BY <2>4, <2>5, <2>7, <2>8 DEF Fresh
  <2> QED
    BY <2>1, <2>5, <2>9
<1> QED
  BY <1>4, <1>5

(* ... and acknowledged. *)
LEMMA FreshAnswer ==
  ASSUME NEW x \in Sender, NEW q \in Seq(Packet), NEW r \in Receiver,
         NEW a \in Seq(0 .. Ids - 1), Fresh(x, q, r, a), NEW id \in 0 .. Ids - 1,
         ~x.wrapped => Len(r.given) > 0 /\ r.last = id
  PROVE  Fresh(x, q, r, Append(a, id))
<1> SUFFICES ASSUME ~x.wrapped
             PROVE  Fresh(x, q, r, Append(a, id))
  BY DEF Fresh
<1> DEFINE t == Append(a, id)
           k == Len(a)
<1>1. /\ k \in Nat /\ Len(t) = k + 1 /\ t[k + 1] = id /\ \A i \in 1 .. k : t[i] = a[i]
  BY SequenceFacts
<1>2. \A i \in 1 .. k + 1 : i = k + 1 \/ i \in 1 .. k
  BY <1>1
<1>3. Age(x, id) \in Nat
  BY AgeFacts
<1>4. Len(r.given) # 0 /\ Len(r.given) > 0 /\ r.last = id
  BY GivenFacts
<1> HIDE DEF t
<1>5. \A i \in 1 .. k + 1 : Age(x, t[i]) <= x.skips + 1 /\ Age(x, id) <= Age(x, t[i])
  BY <1>1, <1>2, <1>3, <1>4 DEF Fresh
<1>6. ASSUME NEW i \in 1 .. k + 1, NEW j \in 1 .. k + 1, i <= j
      PROVE  Age(x, t[j]) <= Age(x, t[i])
  <2>1. CASE j = k + 1
    BY <1>1, <1>5, <2>1
  <2>2. CASE j \in 1 .. k
    <3>1. i \in 1 .. k
      BY <1>1, <1>6, <2>2
    <3> QED
      BY <1>1, <1>6, <2>2, <3>1 DEF Fresh
  <2> QED
    BY <1>2, <2>1, <2>2
<1> QED
  BY <1>1, <1>4, <1>5, <1>6 DEF Fresh, t

(* The ACK that the sender waits for: everything under way is a repetition *)
(* of the packet that it acknowledges.                                     *)
LEMMA FreshAcked ==
  ASSUME NEW x \in Sender, NEW y \in Sender, NEW q \in Seq(Packet), NEW r \in Receiver,
         NEW a \in Seq(0 .. Ids - 1), a # << >>, Fresh(x, q, r, a), a[1] = x.nxt,
         y.nxt = NextId(x.nxt), y.skips = 0, y.wrapped = x.wrapped,
         y.sent = x.sent \cup {IF x.tx THEN x.n ELSE x.n + 1}
  PROVE  /\ Fresh(y, q, r, a)
         /\ ~x.wrapped => /\ x.tx /\ Len(r.given) > 0 /\ r.last = x.nxt
                          /\ r.given[Len(r.given)].no = x.n
<1> SUFFICES ASSUME ~x.wrapped, ~y.wrapped
             PROVE  /\ Fresh(y, q, r, a) /\ x.tx /\ Len(r.given) > 0 /\ r.last = x.nxt
                    /\ r.given[Len(r.given)].no = x.n
  BY DEF Fresh
<1>1. /\ Len(q) \in Nat /\ \A i \in 1 .. Len(q) : q[i].id \in 0 .. Ids - 1
      /\ Len(a) \in Nat /\ (\A i \in 1 .. Len(a) : a[i] \in 0 .. Ids - 1) /\ 1 \in 1 .. Len(a)
      /\ Len(r.given) \in Nat /\ Ids \in Nat /\ Ids > 1
  BY QueueFacts, AckFacts, GivenFacts, RucbAssumption
<1>2. ASSUME NEW id \in 0 .. Ids - 1
      PROVE  /\ Age(x, id) \in Nat /\ (Age(x, id) = 0 <=> id = x.nxt)
             /\ Age(x, id) = 0 => Age(y, id) = 1 /\ id # y.nxt
  <2>1. /\ Age(x, id) \in 0 .. Ids - 1 /\ (Age(x, id) = 0 <=> id = x.nxt)
        /\ Age(x, id) + 1 < Ids => Age(y, id) = Age(x, id) + 1
    BY AgeFacts
  <2>2. Age(y, id) = 0 <=> id = y.nxt
    BY AgeFacts
  <2>3. Age(x, id) \in Nat /\ (Age(x, id) = 0 => Age(y, id) = 1)
    BY <1>1, <2>1
  <2> QED
    BY <2>1, <2>2, <2>3
<1>3. Age(x, a[1]) = 0
  BY <1>1, <1>2
<1>4. Len(r.given) > 0
  BY <1>1 DEF Fresh
<1>5. r.last \in 0 .. Ids - 1 /\ Age(x, r.last) = 0
  <2>1. r.last \in 0 .. Ids - 1 /\ Age(x, r.last) <= Age(x, a[1])
    BY <1>1, <1>4 DEF Fresh
  <2> QED
    BY <1>2, <1>3, <2>1
<1>6. \A i \in 1 .. Len(a) : Age(x, a[i]) = 0
  <2>1. \A i \in 1 .. Len(a) : Age(x, a[i]) <= Age(x, a[1])
    BY <1>1 DEF Fresh
  <2> QED
    BY <1>1, <1>2, <1>3, <2>1
<1>7. \A i \in 1 .. Len(q) : Age(x, q[i].id) = 0
  <2>1. \A i \in 1 .. Len(q) : Age(x, q[i].id) <= Age(x, r.last)
    BY <1>4 DEF Fresh
  <2> QED
    BY <1>1, <1>2, <1>5, <2>1
<1>8. r.last = x.nxt /\ x.tx /\ r.given[Len(r.given)].no = x.n
  <2>1. r.last = x.nxt
    BY <1>2, <1>5
  <2> QED
    BY <1>4, <2>1 DEF Fresh
<1>9. y.sent \subseteq {r.given[i].no : i \in 1 .. Len(r.given)}
  <2>1. x.sent \subseteq {r.given[i].no : i \in 1 .. Len(r.given)}
    BY DEF Fresh
  <2>2. Len(r.given) \in 1 .. Len(r.given)
    BY <1>1, <1>4
  <2> QED
    BY <1>8, <2>1, <2>2
<1>10. /\ \A i \in 1 .. Len(a) : Age(y, a[i]) = 1
       /\ \A i \in 1 .. Len(q) : Age(y, q[i].id) = 1 /\ q[i].id # y.nxt
       /\ Age(y, r.last) = 1 /\ r.last # y.nxt
  BY <1>1, <1>2, <1>5, <1>6, <1>7
<1>11. /\ y.skips + 2 <= Ids /\ y.skips + 1 = 1
       /\ Len(r.given) # 0
  BY <1>1, <1>4
<1>12. Fresh(y, q, r, a)
  <2>1. \A i \in 1 .. Len(q) : /\ Age(y, q[i].id) <= y.skips + 1
                               /\ q[i].id = y.nxt => y.tx /\ q[i].no = y.n
    BY <1>10, <1>11
  <2>2. \A i, j \in 1 .. Len(q) : i <= j => Age(y, q[j].id) <= Age(y, q[i].id)
    BY <1>10
  <2>3. /\ \A i \in 1 .. Len(a) : Age(y, a[i]) <= y.skips + 1
        /\ \A i, j \in 1 .. Len(a) : i <= j => Age(y, a[j]) <= Age(y, a[i])
    BY <1>10, <1>11
  <2>4. /\ r.last \in 0 .. Ids - 1 /\ Age(y, r.last) <= y.skips + 1 /\ r.last # y.nxt
        /\ \A i \in 1 .. Len(a) : Age(y, r.last) <= Age(y, a[i])
        /\ \A i \in 1 .. Len(q) : Age(y, q[i].id) <= Age(y, r.last)
    BY <1>5, <1>10, <1>11
  <2> QED
    BY <1>9, <1>11, <2>1, <2>2, <2>3, <2>4, Zenon DEF Fresh
<1> QED
  BY <1>4, <1>8, <1>12

-------------------------------------------------------------------------------
(* The invariant, but for the stunicast buffer *)
Sound(x, q, r, a) ==
  /\ x \in Sender /\ QueueOK(q) /\ r \in Receiver /\ AcksOK(a)
  /\ InOrder(x, q, r) /\ Fresh(x, q, r, a)

(* sent_by_stunicast keeps the invariant. *)
LEMMA CountSound ==
  ASSUME NEW x, NEW q, NEW r, NEW a, Sound(x, q, r, a), BufferOK(x),
         NEW y, y = sent_by_stunicast(x)
  PROVE  Sound(y, q, r, a) /\ BufferOK(y)
<1>1. /\ x \in Sender /\ q \in Seq(Packet) /\ r \in Receiver /\ a \in Seq(0 .. Ids - 1)
      /\ InOrder(x, q, r) /\ Fresh(x, q, r, a) /\ x.n \in Nat /\ x.skips \in Nat /\ Ids \in Nat
  BY RucbAssumption DEF Sound, QueueOK, AcksOK, Sender
<1>2. y \in Sender /\ y.n = x.n /\ y.sent = x.sent
  BY <1>1, CountFacts
<1>3. CASE /\ y.tx = x.tx /\ y.buf = x.buf /\ y.nxt = x.nxt /\ y.told = x.told
           /\ y.skips = x.skips /\ y.wrapped = x.wrapped
  <2>1. BufferOK(y)
    BY <1>2, <1>3, Zenon DEF BufferOK
  <2>2. InOrder(y, q, r)
    BY <1>1, <1>2, <1>3, InOrderSender
  <2>3. Fresh(y, q, r, a)
    BY <1>1, <1>2, <1>3, FreshSame
  <2> QED
    BY <1>2, <2>1, <2>2, <2>3 DEF Sound
<1>4. CASE /\ y.tx = FALSE /\ y.buf = << >> /\ y.nxt = NextId(x.nxt) /\ y.told = "timedout"
           /\ y.skips = x.skips + 1 /\ y.wrapped = (x.wrapped \/ x.skips + 2 >= Ids)
  <2>1. BufferOK(y)
    BY <1>4 DEF BufferOK
  <2>2. InOrder(y, q, r)
    BY <1>1, <1>2, <1>4, InOrderSender
  <2>3. ~y.wrapped => ~x.wrapped /\ x.skips + 2 < Ids
    <3>1. x.skips + 2 >= Ids \/ x.skips + 2 < Ids
      BY <1>1
    <3> QED
      BY <1>4, <3>1, Zenon
  <2>4. Fresh(y, q, r, a)
    BY <1>1, <1>2, <1>4, <2>3, FreshTimeout
  <2> QED
    BY <1>2, <2>1, <2>2, <2>4 DEF Sound
<1>5. \/ /\ y.tx = x.tx /\ y.buf = x.buf /\ y.nxt = x.nxt /\ y.told = x.told
         /\ y.skips = x.skips /\ y.wrapped = x.wrapped
      \/ /\ y.tx = FALSE /\ y.buf = << >> /\ y.nxt = NextId(x.nxt) /\ y.told = "timedout"
         /\ y.skips = x.skips + 1 /\ y.wrapped = (x.wrapped \/ x.skips + 2 >= Ids)
  BY <1>1, CountFacts, ZenonT(60)
<1> QED
  BY <1>3, <1>4, <1>5, Zenon

(* unicast_send of the packet in the buffer keeps the invariant. *)
LEMMA UnicastSound ==
  ASSUME NEW x, NEW q, NEW r, NEW a, Sound(x, q, r, a), BufferOK(x), x.tx,
         NEW p, p = x.buf[1], NEW s, s = unicast_send(x, q, p)
  PROVE  Sound(s.x, s.q, r, a) /\ BufferOK(s.x)
<1>1. /\ x \in Sender /\ q \in Seq(Packet) /\ r \in Receiver /\ a \in Seq(0 .. Ids - 1)
      /\ InOrder(x, q, r) /\ Fresh(x, q, r, a) /\ QueueOK(q)
  BY DEF Sound, QueueOK, AcksOK
<1>2. p \in Packet
  <2>1. x.buf \in Seq(Packet) /\ x.buf # << >>
    BY <1>1 DEF Sender, BufferOK
  <2> QED
    BY <2>1, QueueFacts
<1>3. CASE s = Left(x, Append(q, p)) /\ QueueOK(Append(q, p))
  <2>1. InOrder(x, Append(q, p), r) /\ Fresh(x, Append(q, p), r, a)
    BY <1>1, <1>2, InOrderPush, FreshPush
  <2>2. s.x = x /\ s.q = Append(q, p)
    BY <1>3 DEF Left
  <2> QED
    BY <1>3, <2>1, <2>2 DEF Sound
<1>4. CASE s = Left(sent_by_stunicast(x), q)
  <2>1. s.x = sent_by_stunicast(x) /\ s.q = q
    BY <1>4 DEF Left
  <2> QED
    BY <2>1, CountSound
<1> QED
  BY <1>1, <1>2, <1>3, <1>4, UnicastFacts

(* runicast_send keeps it, and leaves the buffer as is_tx says. *)
LEMMA SendSound ==
  ASSUME NEW x, NEW q, NEW r, NEW a, Sound(x, q, r, a), ~x.tx,
         NEW len \in 0 .. RUCB_DATASIZE, NEW buffers \in BOOLEAN,
         NEW s, s = runicast_send(x, q, len, buffers)
  PROVE  Sound(s.x, s.q, r, a) /\ BufferOK(s.x)
<1> DEFINE p == NewPacket(x, len)
           y == Begun(x, p)
           z == Failed(x)
<1>1. /\ x \in Sender /\ q \in Seq(Packet) /\ r \in Receiver /\ a \in Seq(0 .. Ids - 1)
      /\ InOrder(x, q, r) /\ Fresh(x, q, r, a) /\ QueueOK(q) /\ x.n \in Nat
  BY DEF Sound, QueueOK, AcksOK, Sender
<1>2. s = unicast_send(y, q, p) \/ s = Left(z, q)
  BY <1>1, SendFacts
<1>3. CASE s = unicast_send(y, q, p)
  <2>0. p = NewPacket(x, len) /\ y = Begun(x, p)
    OBVIOUS
  <2> HIDE DEF p, y
  <2>1. /\ p \in Packet /\ y \in Sender /\ y.buf = <<p>> /\ y.tx = TRUE /\ y.n = x.n + 1
        /\ y.told = "busy" /\ y.nxt = x.nxt /\ y.sent = x.sent /\ y.skips = x.skips
        /\ y.wrapped = x.wrapped
    <3>1. x \in Sender
      BY <1>1
    <3>2. p \in Packet /\ y \in Sender
      BY <3>1, <2>0, BegunFacts
    <3>3. y.buf = <<p>> /\ y.tx = TRUE /\ y.n = x.n + 1 /\ y.told = "busy"
      BY <3>1, <2>0, Zenon DEF Begun, Sender
    <3>4. y.nxt = x.nxt /\ y.sent = x.sent /\ y.skips = x.skips /\ y.wrapped = x.wrapped
      BY <3>1, <2>0, Zenon DEF Begun, Sender
    <3> QED
      BY <3>2, <3>3, <3>4, Zenon
  <2>2. p.id = x.nxt /\ p.no = x.n + 1
    BY <2>0 DEF NewPacket
  <2>3. y.buf[1] = p /\ y.buf # << >>
    BY <2>1
  <2>4. BufferOK(y)
    BY <2>1, <2>2, <2>3 DEF BufferOK
  <2>5. InOrder(y, q, r)
    BY <1>1, <2>1, InOrderSender
  <2>6. Fresh(y, q, r, a)
    BY <1>1, <2>1, FreshSame
  <2>7. Sound(y, q, r, a)
    BY <2>1, <2>5, <2>6 DEF Sound
  <2> QED
    BY <1>3, <2>1, <2>3, <2>4, <2>7, UnicastSound
<1>4. CASE s = Left(z, q)
  <2>1. /\ z \in Sender /\ z.buf = << >> /\ z.tx = x.tx /\ z.n = x.n + 1 /\ z.told = "failed"
        /\ z.nxt = x.nxt /\ z.sent = x.sent /\ z.skips = x.skips /\ z.wrapped = x.wrapped
    BY <1>1, FailedFacts
  <2>2. s.x = z /\ s.q = q
    BY <1>4 DEF Left
  <2> HIDE DEF z
  <2>3. BufferOK(z)
    BY <2>1 DEF BufferOK
  <2>4. InOrder(z, q, r)
    BY <1>1, <2>1, InOrderSender
  <2>5. Fresh(z, q, r, a)
    BY <1>1, <2>1, FreshSame
  <2> QED
    BY <2>1, <2>2, <2>3, <2>4, <2>5 DEF Sound
<1> QED
  BY <1>2, <1>3, <1>4

(* A sender that differs in chunk, file, size, starts or told *)
LEMMA SameSound ==
  ASSUME NEW x, NEW q, NEW r, NEW a, Sound(x, q, r, a), NEW y \in Sender,
         y.nxt = x.nxt, y.tx = x.tx, y.n = x.n, y.skips = x.skips, y.wrapped = x.wrapped,
         y.sent = x.sent
  PROVE  Sound(y, q, r, a)
<1>1. /\ x \in Sender /\ q \in Seq(Packet) /\ r \in Receiver /\ a \in Seq(0 .. Ids - 1)
      /\ InOrder(x, q, r) /\ Fresh(x, q, r, a) /\ x.n \in Nat
  BY DEF Sound, QueueOK, AcksOK, Sender
<1>2. InOrder(y, q, r) /\ Fresh(y, q, r, a)
  BY <1>1, InOrderSender, FreshSame
<1> QED
  BY <1>2 DEF Sound

(* read_data gives no more than a full chunk. *)
LEMMA ReadTyped ==
  ASSUME NEW x \in Sender
  PROVE  read_data(x) \in 0 .. RUCB_DATASIZE
<1>1. x.chunk \in Nat /\ x.file \in Seq(1 .. RUCB_DATASIZE) /\ RUCB_DATASIZE \in Nat
  BY RucbAssumption DEF Sender
<1>2. x.chunk < Len(x.file) => x.chunk + 1 \in 1 .. Len(x.file)
  BY <1>1
<1>3. x.chunk < Len(x.file) => x.file[x.chunk + 1] \in 1 .. RUCB_DATASIZE
  BY <1>1, <1>2
<1> QED
  BY <1>1, <1>3 DEF read_data

(* The sender when the ACK of its packet has come, before the next send *)
Advanced(x) == [x EXCEPT !.buf = << >>, !.nxt = NextId(x.nxt), !.tx = FALSE, !.skips = 0,
                         !.sent = x.sent \cup {IF x.tx THEN x.n ELSE x.n + 1},
                         !.chunk = x.chunk + 1]

(* ... field by field *)
LEMMA AdvancedFacts ==
  ASSUME NEW x \in Sender, NEW y, y = Advanced(x)
  PROVE  /\ y \in Sender /\ y.buf = << >> /\ y.nxt = NextId(x.nxt) /\ y.tx = FALSE
         /\ y.skips = 0 /\ y.sent = x.sent \cup {IF x.tx THEN x.n ELSE x.n + 1}
         /\ y.chunk = x.chunk + 1 /\ y.n = x.n /\ y.wrapped = x.wrapped /\ y.gaveup = x.gaveup
         /\ y.told = x.told /\ y.file = x.file /\ y.size = x.size /\ y.stale = x.stale
<1> DEFINE new == IF x.tx THEN x.n ELSE x.n + 1
           sn == x.sent \cup {new}
<1>1. new \in Nat /\ sn \in SUBSET Nat /\ x.chunk + 1 \in Nat /\ 0 \in Nat
  BY DEF Sender
<1>2. NextId(x.nxt) \in 0 .. Ids - 1 /\ << >> \in Seq(Packet)
  BY NextIdFacts DEF Sender
<1>3. y = [x EXCEPT !.buf = << >>, !.nxt = NextId(x.nxt), !.tx = FALSE, !.skips = 0,
                    !.sent = sn, !.chunk = x.chunk + 1]
  BY DEF Advanced
<1>6. sn = x.sent \cup {IF x.tx THEN x.n ELSE x.n + 1}
  OBVIOUS
<1> HIDE DEF sn, new
<1>4. y \in Sender
  BY <1>1, <1>2, <1>3, ZenonT(60) DEF Sender
<1>5. /\ y.buf = << >> /\ y.nxt = NextId(x.nxt) /\ y.tx = FALSE
      /\ y.skips = 0 /\ y.sent = sn
      /\ y.chunk = x.chunk + 1 /\ y.n = x.n /\ y.wrapped = x.wrapped /\ y.gaveup = x.gaveup
      /\ y.told = x.told /\ y.file = x.file /\ y.size = x.size /\ y.stale = x.stale
  BY <1>3, Zenon DEF Sender
<1> QED
  BY <1>4, <1>5, <1>6, Zenon

(* What recv_from_stunicast does with the ACK that is waited for: the end  *)
(* of the file, or the next packet                                         *)
Acknowledged(x, q, buffers, s) ==
  \E y, len, t :
    /\ y = Advanced(x) /\ len = read_data(y) /\ t = runicast_send(y, q, len, buffers)
    /\ s = IF len = 0 /\ x.size = 1 THEN Left([y EXCEPT !.told = "done"], q)
           ELSE Left([t.x EXCEPT !.size = 1 + len], t.q)

(* recv_from_stunicast of the sender is that. *)
LEMMA AckReceivedFacts ==
  ASSUME NEW x \in Sender, NEW q, NEW buffers, NEW s, s = AckReceived(x, q, x.nxt, buffers)
  PROVE  Acknowledged(x, q, buffers, s)
<1> DEFINE w == [stunicast_cancel(x) EXCEPT
                   !.nxt = NextId(@), !.tx = FALSE, !.skips = 0,
                   !.sent = @ \cup {IF x.tx THEN x.n ELSE x.n + 1}]
           y == Advanced(x)
           len == read_data(y)
           t == runicast_send(y, q, len, buffers)
<1>1. s = acked(w, q, buffers)
  BY DEF AckReceived
<1>2. [w EXCEPT !.chunk = @ + 1] = y
  BY DEF stunicast_cancel, Advanced, Sender
<1>3. y.size = x.size
  BY AdvancedFacts
<1>4. len = read_data(y) /\ t = runicast_send(y, q, len, buffers)
  OBVIOUS
<1> HIDE DEF w, y, len, t
<1>5. acked(w, q, buffers) =
        IF len = 0 /\ y.size = 1 THEN Left([y EXCEPT !.told = "done"], q)
        ELSE Left([t.x EXCEPT !.size = 1 + len], t.q)
  BY <1>2, <1>4, Zenon DEF acked
<1>6. s = IF len = 0 /\ x.size = 1 THEN Left([y EXCEPT !.told = "done"], q)
          ELSE Left([t.x EXCEPT !.size = 1 + len], t.q)
  BY <1>1, <1>3, <1>5
<1>7. y = Advanced(x)
  BY DEF y
<1> QED
  BY <1>4, <1>6, <1>7, Zenon DEF Acknowledged

(* The fields of rucb that a sender gets at the end of acked               *)
LEMMA FieldFacts ==
  ASSUME NEW x \in Sender
  PROVE  /\ \A v \in 0 .. 1 + RUCB_DATASIZE :
              LET y == [x EXCEPT !.size = v]
              IN  /\ y \in Sender /\ y.size = v
                  /\ y.nxt = x.nxt /\ y.tx = x.tx /\ y.n = x.n /\ y.skips = x.skips
                  /\ y.wrapped = x.wrapped /\ y.sent = x.sent /\ y.buf = x.buf /\ y.told = x.told
                  /\ y.chunk = x.chunk /\ y.file = x.file /\ y.gaveup = x.gaveup /\ y.stale = x.stale
         /\ LET y == [x EXCEPT !.told = "done"]
            IN  /\ y \in Sender /\ y.told = "done"
                /\ y.nxt = x.nxt /\ y.tx = x.tx /\ y.n = x.n /\ y.skips = x.skips
                /\ y.wrapped = x.wrapped /\ y.sent = x.sent /\ y.buf = x.buf /\ y.size = x.size
                /\ y.chunk = x.chunk /\ y.file = x.file /\ y.gaveup = x.gaveup /\ y.stale = x.stale
<1>1. ASSUME NEW v \in 0 .. 1 + RUCB_DATASIZE
      PROVE  LET y == [x EXCEPT !.size = v]
             IN  /\ y \in Sender /\ y.size = v
                 /\ y.nxt = x.nxt /\ y.tx = x.tx /\ y.n = x.n /\ y.skips = x.skips
                 /\ y.wrapped = x.wrapped /\ y.sent = x.sent /\ y.buf = x.buf /\ y.told = x.told
                 /\ y.chunk = x.chunk /\ y.file = x.file /\ y.gaveup = x.gaveup /\ y.stale = x.stale
  BY Zenon DEF Sender
<1>2. LET y == [x EXCEPT !.told = "done"]
      IN  /\ y \in Sender /\ y.told = "done"
          /\ y.nxt = x.nxt /\ y.tx = x.tx /\ y.n = x.n /\ y.skips = x.skips
          /\ y.wrapped = x.wrapped /\ y.sent = x.sent /\ y.buf = x.buf /\ y.size = x.size
          /\ y.chunk = x.chunk /\ y.file = x.file /\ y.gaveup = x.gaveup /\ y.stale = x.stale
  BY Zenon DEF Sender
<1> QED
  BY <1>1, <1>2, Zenon

(* The sender when rucb_send has set it to the start of f *)
Started(x, f) ==
  [x EXCEPT !.chunk = 0, !.file = f, !.starts = @ + 1,
            !.stale = @ \/ (x.size = 1 /\ f = <<RUCB_DATASIZE>>)]

(* ... field by field *)
AtStart(x, f, y) ==
  /\ y \in Sender /\ y.chunk = 0 /\ y.file = f
  /\ y.nxt = x.nxt /\ y.tx = x.tx /\ y.n = x.n /\ y.skips = x.skips
  /\ y.wrapped = x.wrapped /\ y.sent = x.sent /\ y.buf = x.buf /\ y.told = x.told
  /\ y.size = x.size /\ y.gaveup = x.gaveup
  /\ y.stale = (x.stale \/ (x.size = 1 /\ f = <<RUCB_DATASIZE>>))

LEMMA StartedFacts ==
  ASSUME NEW x \in Sender, NEW f \in Files
  PROVE  AtStart(x, f, Started(x, f))
<1> DEFINE y == Started(x, f)
           v == (x.stale \/ (x.size = 1 /\ f = <<RUCB_DATASIZE>>))
           k == x.starts + 1
<1>1. 0 \in Nat /\ f \in Seq(1 .. RUCB_DATASIZE) /\ v \in BOOLEAN
  BY RucbAssumption
<1>2. k \in Nat
  BY DEF Sender
<1>3. y = [x EXCEPT !.chunk = 0, !.file = f, !.starts = k, !.stale = v]
  BY Zenon DEF Started
<1>4. v = (x.stale \/ (x.size = 1 /\ f = <<RUCB_DATASIZE>>))
  OBVIOUS
<1> HIDE DEF v, k
<1> HIDE DEF y
<1>5. y \in Sender /\ y.stale = v
  BY <1>1, <1>2, <1>3, Zenon DEF Sender
<1>6. /\ y.chunk = 0 /\ y.file = f
      /\ y.nxt = x.nxt /\ y.tx = x.tx /\ y.n = x.n /\ y.skips = x.skips
      /\ y.wrapped = x.wrapped /\ y.sent = x.sent /\ y.buf = x.buf /\ y.told = x.told
      /\ y.size = x.size /\ y.gaveup = x.gaveup
  BY <1>3, Zenon DEF Sender
<1> QED
  <2>1. AtStart(x, f, y)
    BY <1>4, <1>5, <1>6, Zenon DEF AtStart
  <2> QED
    BY <2>1 DEF y

(* The ACK the sender waits for, up to the next send *)
LEMMA AdvancedSound ==
  ASSUME NEW x, NEW q, NEW r, NEW a, Sound(x, q, r, a), a # << >>, a[1] = x.nxt,
         NEW y, y = Advanced(x)
  PROVE  /\ Sound(y, q, r, Tail(a)) /\ ~y.tx
         /\ ~x.wrapped => /\ x.tx /\ Len(r.given) > 0 /\ r.last = x.nxt
                          /\ r.given[Len(r.given)].no = x.n
<1>1. /\ x \in Sender /\ q \in Seq(Packet) /\ r \in Receiver /\ a \in Seq(0 .. Ids - 1)
      /\ InOrder(x, q, r) /\ Fresh(x, q, r, a) /\ x.n \in Nat /\ Len(a) <= AckRoom
  BY DEF Sound, QueueOK, AcksOK, Sender
<1>2. y \in Sender /\ y.nxt = NextId(x.nxt) /\ y.tx = FALSE /\ y.skips = 0 /\ y.n = x.n
  BY <1>1, AdvancedFacts
<1>3. y.wrapped = x.wrapped /\ y.sent = x.sent \cup {IF x.tx THEN x.n ELSE x.n + 1}
  <2>1. x \in Sender
    BY <1>1
  <2> QED
    BY <2>1, AdvancedFacts, Zenon
<1>4. Fresh(y, q, r, a)
  BY <1>1, <1>2, <1>3, FreshAcked
<1>5. ~x.wrapped => x.tx /\ Len(r.given) > 0 /\ r.last = x.nxt /\ r.given[Len(r.given)].no = x.n
  BY <1>1, <1>2, <1>3, FreshAcked
<1>6. Fresh(y, q, r, Tail(a))
  BY <1>1, <1>2, <1>4, FreshPop
<1>7. InOrder(y, q, r)
  BY <1>1, <1>2, InOrderSender
<1>8. AcksOK(Tail(a))
  <2>1. Len(a) \in Nat /\ AckRoom \in Nat
    BY <1>1, RucbAssumption
  <2> QED
    BY <1>1, <2>1, SequenceFacts DEF AcksOK
<1> QED
  BY <1>2, <1>5, <1>6, <1>7, <1>8 DEF Sound

(* An ACK, waited for or not, keeps the invariant. *)
LEMMA AckedSound ==
  ASSUME NEW x, NEW q, NEW r, NEW a, Sound(x, q, r, a), BufferOK(x), a # << >>,
         NEW buffers \in BOOLEAN, NEW s, s = AckReceived(x, q, a[1], buffers)
  PROVE  Sound(s.x, s.q, r, Tail(a)) /\ BufferOK(s.x)
<1>1. /\ x \in Sender /\ a \in Seq(0 .. Ids - 1)
  BY DEF Sound, QueueOK, AcksOK, Sender
<1>2. CASE a[1] # x.nxt
  <2>1. s = Left(x, q)
    BY <1>2 DEF AckReceived
  <2>2. s.x = x /\ s.q = q
    BY <2>1 DEF Left
  <2>3. Fresh(x, q, r, Tail(a))
    BY FreshPop DEF Sound, QueueOK, AcksOK
  <2>4. AcksOK(Tail(a))
    <3>1. Len(a) \in Nat /\ AckRoom \in Nat /\ Len(a) <= AckRoom
      BY <1>1, RucbAssumption DEF Sound, AcksOK
    <3> QED
      BY <1>1, <3>1, SequenceFacts DEF AcksOK
  <2> QED
    BY <2>2, <2>3, <2>4 DEF Sound
<1>3. CASE a[1] = x.nxt
  <2>0. PICK y, len, t :
          /\ y = Advanced(x) /\ len = read_data(y) /\ t = runicast_send(y, q, len, buffers)
          /\ s = IF len = 0 /\ x.size = 1 THEN Left([y EXCEPT !.told = "done"], q)
                 ELSE Left([t.x EXCEPT !.size = 1 + len], t.q)
    <3>1. x \in Sender
      BY <1>1
    <3>2. s = AckReceived(x, q, x.nxt, buffers)
      BY <1>3
    <3>3. Acknowledged(x, q, buffers, s)
      BY <3>1, <3>2, AckReceivedFacts
    <3> QED
      BY <3>3, Zenon DEF Acknowledged
  <2>1. Sound(y, q, r, Tail(a)) /\ ~y.tx
    BY <1>3, <2>0, AdvancedSound
  <2>2. y \in Sender /\ y.buf = << >>
    BY <1>1, <2>0, AdvancedFacts
  <2>3. len \in 0 .. RUCB_DATASIZE
    BY <2>0, <2>2, ReadTyped
  <2>4. s = Left([y EXCEPT !.told = "done"], q) \/ s = Left([t.x EXCEPT !.size = 1 + len], t.q)
    BY <2>0, Zenon
  <2>5. Sound(t.x, t.q, r, Tail(a)) /\ BufferOK(t.x)
    BY <2>0, <2>1, <2>3, SendSound
  <2>6. 1 + len \in 0 .. 1 + RUCB_DATASIZE
    BY <2>3, RucbAssumption
  <2>7. CASE s = Left([y EXCEPT !.told = "done"], q)
    <3> DEFINE z == [y EXCEPT !.told = "done"]
    <3>1. /\ z \in Sender /\ z.told = "done"
          /\ z.nxt = y.nxt /\ z.tx = y.tx /\ z.n = y.n /\ z.skips = y.skips
          /\ z.wrapped = y.wrapped /\ z.sent = y.sent /\ z.buf = y.buf
      BY <2>2, FieldFacts, Zenon
    <3>2. s.x = z /\ s.q = q
      BY <2>7 DEF Left
    <3> HIDE DEF z
    <3>3. Sound(z, q, r, Tail(a))
      BY <2>1, <3>1, SameSound
    <3>4. BufferOK(z)
      BY <2>1, <2>2, <3>1 DEF BufferOK
    <3> QED
      BY <3>2, <3>3, <3>4
  <2>8. CASE s = Left([t.x EXCEPT !.size = 1 + len], t.q)
    <3> DEFINE u == t.x
               v == 1 + len
               z == [u EXCEPT !.size = v]
    <3>0. u \in Sender /\ v \in 0 .. 1 + RUCB_DATASIZE
      BY <2>5, <2>6 DEF Sound
    <3>1. /\ z \in Sender
          /\ z.nxt = u.nxt /\ z.tx = u.tx /\ z.n = u.n /\ z.skips = u.skips
          /\ z.wrapped = u.wrapped /\ z.sent = u.sent /\ z.buf = u.buf
          /\ z.told = u.told
      <4> HIDE DEF u, v
      <4> QED
        BY <3>0, FieldFacts, ZenonT(60)
    <3>2. s.x = z /\ s.q = t.q
      BY <2>8 DEF Left
    <3> HIDE DEF z
    <3>3. Sound(z, t.q, r, Tail(a))
      BY <2>5, <3>1, SameSound
    <3>4. BufferOK(z)
      BY <2>5, <3>1, Zenon DEF BufferOK
    <3> QED
      BY <3>2, <3>3, <3>4
  <2> QED
    BY <2>4, <2>7, <2>8, Zenon
<1> QED
  BY <1>2, <1>3

(* The first packet of the MAC queue is received; the ACK is queued or not. *)
LEMMA RecvSound ==
  ASSUME NEW x, NEW q, NEW r, NEW a, Sound(x, q, r, a), q # << >>,
         NEW y, y = recv(r, q[1]), NEW b,
         (Len(a) < AckRoom /\ b = Append(a, q[1].id)) \/ b = a
  PROVE  Sound(x, q, y, b)
<1>1. /\ x \in Sender /\ q \in Seq(Packet) /\ r \in Receiver /\ a \in Seq(0 .. Ids - 1)
      /\ InOrder(x, q, r) /\ Fresh(x, q, r, a) /\ QueueOK(q) /\ AcksOK(a)
  BY DEF Sound, QueueOK, AcksOK
<1>2. q[1] \in Packet /\ q[1].id \in 0 .. Ids - 1
  BY <1>1, QueueFacts
<1>3. y \in Receiver
  BY <1>1, <1>2, RecvFacts
<1>4. InOrder(x, q, y)
  BY <1>1, InOrderRecv
<1>5. Fresh(x, q, y, a) /\ (~x.wrapped => Len(y.given) > 0 /\ y.last = q[1].id)
  BY <1>1, FreshRecv
<1>6. CASE b = a
  BY <1>1, <1>3, <1>4, <1>5, <1>6 DEF Sound
<1>7. CASE Len(a) < AckRoom /\ b = Append(a, q[1].id)
  <2>1. Fresh(x, q, y, b)
    BY <1>1, <1>2, <1>3, <1>5, <1>7, FreshAnswer
  <2>2. AcksOK(b)
    <3>1. Len(a) \in Nat /\ AckRoom \in Nat
      BY <1>1, RucbAssumption
    <3> QED
      BY <1>1, <1>2, <1>7, <3>1, SequenceFacts DEF AcksOK
  <2> QED
    BY <1>1, <1>3, <1>4, <2>1, <2>2 DEF Sound
<1> QED
  BY <1>6, <1>7

(* The MAC is done with its first packet. *)
LEMMA PopSound ==
  ASSUME NEW x, NEW q, NEW r, NEW a, Sound(x, q, r, a), q # << >>
  PROVE  Sound(x, Tail(q), r, a)
<1>1. /\ x \in Sender /\ q \in Seq(Packet) /\ r \in Receiver /\ a \in Seq(0 .. Ids - 1)
      /\ InOrder(x, q, r) /\ Fresh(x, q, r, a) /\ Len(q) <= Room
  BY DEF Sound, QueueOK, AcksOK
<1>2. InOrder(x, Tail(q), r) /\ Fresh(x, Tail(q), r, a)
  BY <1>1, InOrderPop, FreshPop
<1>3. QueueOK(Tail(q))
  <2>1. Len(q) \in Nat /\ Room \in Nat
    BY <1>1, RucbAssumption
  <2> QED
    BY <1>1, <2>1, SequenceFacts DEF QueueOK
<1> QED
  BY <1>1, <1>2, <1>3 DEF Sound

(* ... and an ACK is lost. *)
LEMMA LostSound ==
  ASSUME NEW x, NEW q, NEW r, NEW a, Sound(x, q, r, a), a # << >>
  PROVE  Sound(x, q, r, Tail(a))
<1>1. /\ x \in Sender /\ q \in Seq(Packet) /\ r \in Receiver /\ a \in Seq(0 .. Ids - 1)
      /\ InOrder(x, q, r) /\ Fresh(x, q, r, a) /\ Len(a) <= AckRoom
  BY DEF Sound, QueueOK, AcksOK
<1>2. Fresh(x, q, r, Tail(a))
  BY <1>1, FreshPop
<1>3. AcksOK(Tail(a))
  <2>1. Len(a) \in Nat /\ AckRoom \in Nat
    BY <1>1, RucbAssumption
  <2> QED
    BY <1>1, <2>1, SequenceFacts DEF AcksOK
<1> QED
  BY <1>1, <1>2, <1>3 DEF Sound

-------------------------------------------------------------------------------
RucbInv == Sound(snd, mac, rcv, acks) /\ BufferOK(snd)

(* The invariant at the start *)
LEMMA InitSound ==
  Init => RucbInv
<1> SUFFICES ASSUME Init
             PROVE  RucbInv
  OBVIOUS
<1>1. snd \in Sender
  <2>1. /\ 0 \in 0 .. Ids - 1 /\ 0 \in 0 .. MAX_TRANSMISSIONS - 1 /\ 0 \in 0 .. 1 + RUCB_DATASIZE
        /\ 0 \in Nat /\ << >> \in Seq(Packet) /\ << >> \in Seq(1 .. RUCB_DATASIZE)
        /\ {} \in SUBSET Nat
    BY RucbAssumption
  <2> QED
    BY <2>1 DEF Init, Sender
<1>2. rcv \in Receiver
  BY RucbAssumption DEF Init, Receiver
<1>3. QueueOK(mac) /\ AcksOK(acks)
  BY RucbAssumption DEF Init, QueueOK, AcksOK
<1>4. /\ Len(mac) = 0 /\ Len(acks) = 0 /\ Len(rcv.given) = 0 /\ rcv.last = Ids
      /\ snd.sent = {} /\ snd.skips = 0
  BY DEF Init
<1>5. InOrder(snd, mac, rcv)
  BY <1>4 DEF InOrder
<1>6. Fresh(snd, mac, rcv, acks)
  BY <1>4, RucbAssumption DEF Fresh
<1>7. BufferOK(snd)
  BY DEF Init, BufferOK
<1> QED
  BY <1>1, <1>2, <1>3, <1>5, <1>6, <1>7 DEF RucbInv, Sound

(* Every step keeps the invariant. *)
LEMMA NextSound ==
  ASSUME RucbInv, [Next]_vars
  PROVE  RucbInv'
<1> USE DEF RucbInv
<1>1. ASSUME NEW f \in Files, rucb_send(f)
      PROVE  RucbInv'
  <2> DEFINE x == Started(snd, f)
             len == read_data(x)
  <2>1. PICK buffers \in BOOLEAN : Do(runicast_send(x, mac, len, buffers))
    BY <1>1 DEF rucb_send, Started
  <2>2. snd.told # "busy" /\ rcv' = rcv /\ acks' = acks
    BY <1>1 DEF rucb_send
  <2>3. snd \in Sender
    BY DEF Sound
  <2>10. AtStart(snd, f, x)
    BY <2>3, StartedFacts
  <2> HIDE DEF x
  <2>4. /\ x \in Sender /\ x.nxt = snd.nxt /\ x.tx = snd.tx /\ x.n = snd.n
        /\ x.skips = snd.skips /\ x.wrapped = snd.wrapped /\ x.sent = snd.sent
    BY <2>10, Zenon DEF AtStart
  <2>5. Sound(x, mac, rcv, acks)
    BY <2>4, SameSound
  <2>6. ~x.tx
    BY <2>2, <2>4 DEF BufferOK
  <2>7. len \in 0 .. RUCB_DATASIZE
    BY <2>4, ReadTyped
  <2> DEFINE s == runicast_send(x, mac, len, buffers)
  <2> HIDE DEF len
  <2>8. Sound(s.x, s.q, rcv, acks) /\ BufferOK(s.x)
    BY <2>5, <2>6, <2>7, SendSound
  <2>9. snd' = s.x /\ mac' = s.q
    BY <2>1 DEF Do
  <2> QED
    BY <2>2, <2>8, <2>9
<1>2. CASE Resend
  <2> DEFINE s == unicast_send(snd, mac, snd.buf[1])
  <2>1. snd' = s.x /\ mac' = s.q /\ rcv' = rcv /\ acks' = acks /\ snd.buf # << >>
    BY <1>2 DEF Resend, Do
  <2>2. snd.tx
    BY <2>1 DEF BufferOK
  <2>3. Sound(s.x, s.q, rcv, acks) /\ BufferOK(s.x)
    BY <2>2, UnicastSound
  <2> QED
    BY <2>1, <2>3
<1>3. ASSUME DataReceived(Head(mac)), mac # << >>
      PROVE  Sound(snd, mac, rcv', acks')
  <2>1. mac \in Seq(Packet)
    BY DEF Sound, QueueOK
  <2>2. Head(mac) = mac[1]
    BY <2>1, <1>3
  <2>3. /\ rcv' = recv(rcv, mac[1])
        /\ (Len(acks) < AckRoom /\ acks' = Append(acks, mac[1].id)) \/ acks' = acks
    BY <1>3, <2>2 DEF DataReceived
  <2> QED
    BY <1>3, <2>3, RecvSound
<1>4. CASE Transmit
  <2>1. /\ mac # << >> /\ snd' = sent_by_stunicast(snd) /\ mac' = Tail(mac)
        /\ DataReceived(Head(mac)) \/ (rcv' = rcv /\ acks' = acks)
    BY <1>4 DEF Transmit, Do, Left
  <2>2. Sound(snd, mac, rcv', acks')
    BY <1>3, <2>1
  <2>3. Sound(snd, mac', rcv', acks')
    BY <2>1, <2>2, PopSound
  <2> QED
    BY <2>1, <2>3, CountSound
<1>5. CASE TransmitAgain
  BY <1>3, <1>5 DEF TransmitAgain
<1>6. CASE TransmitAck
  <2>1. acks # << >> /\ acks' = Tail(acks) /\ rcv' = rcv
    BY <1>6 DEF TransmitAck
  <2>2. acks \in Seq(0 .. Ids - 1)
    BY DEF Sound, AcksOK
  <2>3. Head(acks) = acks[1]
    BY <2>1, <2>2
  <2>4. CASE \E buffers \in BOOLEAN : Do(AckReceived(snd, mac, Head(acks), buffers))
    <3>1. PICK buffers \in BOOLEAN : Do(AckReceived(snd, mac, acks[1], buffers))
      BY <2>3, <2>4
    <3> DEFINE s == AckReceived(snd, mac, acks[1], buffers)
    <3>2. snd' = s.x /\ mac' = s.q
      BY <3>1 DEF Do
    <3>3. Sound(s.x, s.q, rcv, Tail(acks)) /\ BufferOK(s.x)
      BY <2>1, AckedSound
    <3> QED
      BY <2>1, <3>2, <3>3
  <2>5. CASE UNCHANGED <<snd, mac>>
    BY <2>1, <2>5, LostSound
  <2> QED
    BY <1>6, <2>4, <2>5 DEF TransmitAck
<1>7. CASE UNCHANGED vars
  BY <1>7 DEF vars
<1> QED
  BY <1>1, <1>2, <1>4, <1>5, <1>6, <1>7 DEF Next

(* The inductive invariant: types, order, window of the numbers, buffer.   *)
THEOREM RucbInvariant == Spec => []RucbInv
<1> QED
  BY InitSound, NextSound, PTL DEF Spec

(* The type invariant of the transfer: the sequence number stays in its    *)
(* bits, rxmit below the limit, and neither MAC queue takes more than it   *)
(* has room for.                                                           *)
THEOREM RucbTyped == Spec => []TypeOK
<1>1. RucbInv => TypeOK
  BY DEF RucbInv, Sound, QueueOK, AcksOK, Sender, Receiver, TypeOK
<1> QED
  BY <1>1, RucbInvariant, PTL

(* While runicast's is_tx is set, and only then, the stunicast buffer      *)
(* holds the packet, with the number that the ACK handler waits for, and   *)
(* rucb has been told neither of its arrival nor of its end.               *)
THEOREM BufferKept == Spec => []UnderWay
<1>1. RucbInv => UnderWay
  BY DEF RucbInv, BufferOK, UnderWay
<1> QED
  BY <1>1, RucbInvariant, PTL

(* For every number space of two or more and every room of the queues: the *)
(* receiver's rucb is given the packets in the order of sending and none   *)
(* twice.                                                                  *)
THEOREM GivenOnce == Spec => []OnceInOrder
<1>1. ASSUME RucbInv
      PROVE  OnceInOrder
  <2>1. rcv \in Receiver /\ InOrder(snd, mac, rcv)
    BY <1>1 DEF RucbInv, Sound
  <2>2. DOMAIN rcv.given = 1 .. Len(rcv.given)
    BY <2>1 DEF Receiver
  <2> QED
    BY <2>1, <2>2 DEF OnceInOrder, InOrder
<1> QED
  BY <1>1, RucbInvariant, PTL

(* What runicast reports as sent has been given to the application at the  *)
(* receiver, as long as the numbers have not come round.                   *)
THEOREM ReportsTrue == Spec => []SentTrue
<1>1. ASSUME RucbInv
      PROVE  SentTrue
  <2>1. rcv \in Receiver /\ Fresh(snd, mac, rcv, acks)
    BY <1>1 DEF RucbInv, Sound
  <2>2. DOMAIN rcv.given = 1 .. Len(rcv.given)
    BY <2>1 DEF Receiver
  <2> QED
    BY <2>1, <2>2 DEF SentTrue, Fresh
<1> QED
  BY <1>1, RucbInvariant, PTL

-------------------------------------------------------------------------------
(* The file.  As long as no transfer has been given up, the receiver is    *)
(* where the packet under way belongs, or one further when it has had it;  *)
(* a packet without data may find it at the start of another file.         *)
Chunked(f) == \A i \in 1 .. (Len(f) - 1) : f[i] = RUCB_DATASIZE
Good(x) == ~x.gaveup /\ ~x.stale
Placed(x, r) == read_data(x) = 0 \/ At(r) = x.chunk

Carried(x, q, r) ==
  /\ x.n > 0 /\ Chunked(x.file)
  /\ x.buf[1].chunk = x.chunk /\ x.buf[1].len = read_data(x)
  /\ \A i \in 1 .. Len(q) :
       q[i].id = x.nxt => q[i].chunk = x.chunk /\ q[i].len = read_data(x)
  /\ r.last = x.nxt => /\ Len(r.given) = x.n /\ (r.open => r.chunk = x.chunk + 1)
                       /\ r.open <=> read_data(x) = RUCB_DATASIZE
  /\ r.last # x.nxt => Len(r.given) = x.n - 1 /\ Placed(x, r)

Clean(x, q, r) ==
  /\ ~x.wrapped /\ x.skips = 0
  /\ \A i \in 1 .. Len(r.given) : r.given[i].moved => r.given[i].len = 0
  /\ \A i \in 1 .. Len(q) : q[i].no # 0

Whole(x, q, r) ==
  Good(x) =>
    /\ Clean(x, q, r) /\ x.told \in {"none", "busy", "done"}
    /\ x.told = "none" => x.n = 0 /\ Len(r.given) = 0 /\ ~r.open
    /\ x.told = "done" => Len(r.given) = x.n /\ ~r.open
    /\ x.told = "busy" => Carried(x, q, r)

(* What acked is to find in last_size: the length of the chunk under way,  *)
(* but for the first, for which rucb_send leaves it as it is               *)
SizeOK(x) ==
  Good(x) /\ x.told = "busy" =>
    /\ x.chunk > 0 => x.size = 1 + read_data(x)
    /\ x.chunk = 0 /\ x.size = 1 /\ Len(x.file) = 1 => read_data(x) # RUCB_DATASIZE

(* Before a send *)
Ready(x, q, r) ==
  Good(x) =>
    Clean(x, q, r) /\ Chunked(x.file) /\ Len(r.given) = x.n /\ Placed(x, r)

(* What a file gives at a chunk: data, all of it but at the end, or nothing *)
LEMMA ChunkRead ==
  ASSUME NEW x \in Sender, Chunked(x.file)
  PROVE  /\ ~(x.chunk < Len(x.file)) => read_data(x) = 0
         /\ x.chunk < Len(x.file) => read_data(x) # 0
         /\ x.chunk + 1 < Len(x.file) => read_data(x) = RUCB_DATASIZE
         /\ RUCB_DATASIZE # 0 /\ Len(x.file) \in Nat /\ x.chunk \in Nat
<1>1. /\ x.chunk \in Nat /\ Len(x.file) \in Nat /\ RUCB_DATASIZE # 0
      /\ x.file \in Seq(1 .. RUCB_DATASIZE)
  BY RucbAssumption DEF Sender
<1>2. x.chunk < Len(x.file) => x.chunk + 1 \in 1 .. Len(x.file)
  BY <1>1
<1>3. x.chunk < Len(x.file) => x.file[x.chunk + 1] \in 1 .. RUCB_DATASIZE
  BY <1>1, <1>2, ElementOfSeq
<1>4. x.chunk + 1 < Len(x.file) => x.chunk + 1 \in 1 .. (Len(x.file) - 1) /\ x.chunk < Len(x.file)
  BY <1>1
<1>5. x.chunk + 1 < Len(x.file) => x.file[x.chunk + 1] = RUCB_DATASIZE
  BY <1>4 DEF Chunked
<1> QED
  BY <1>1, <1>3, <1>4, <1>5 DEF read_data

(* Whole looks at these fields only. *)
LEMMA WholeSame ==
  ASSUME NEW x, NEW y, NEW q, NEW r, Whole(x, q, r),
         y.wrapped = x.wrapped, y.gaveup = x.gaveup, y.skips = x.skips, y.told = x.told,
         y.n = x.n, y.file = x.file, y.chunk = x.chunk, y.buf = x.buf, y.nxt = x.nxt,
         y.stale = x.stale
  PROVE  Whole(y, q, r)
<1>1. read_data(y) = read_data(x)
  BY DEF read_data
<1>2. Carried(x, q, r) => Carried(y, q, r)
  BY <1>1, Zenon DEF Carried, Placed
<1>3. Clean(x, q, r) => Clean(y, q, r)
  BY Zenon DEF Clean
<1> QED
  BY <1>2, <1>3, Zenon DEF Whole, Good

(* sent_by_stunicast: the same fields, or the transfer is given up *)
LEMMA WholeCount ==
  ASSUME NEW x \in Sender, NEW q, NEW r, Whole(x, q, r), NEW y, y = sent_by_stunicast(x)
  PROVE  Whole(y, q, r) /\ (SizeOK(x) => SizeOK(y))
<1>1. y.n = x.n /\ y.chunk = x.chunk /\ y.file = x.file /\ y.size = x.size /\ y.stale = x.stale
  BY CountFacts
<1>2. CASE /\ y.buf = x.buf /\ y.nxt = x.nxt /\ y.told = x.told
           /\ y.skips = x.skips /\ y.wrapped = x.wrapped /\ y.gaveup = x.gaveup
  <2>1. Whole(y, q, r)
    BY <1>1, <1>2, WholeSame, Zenon
  <2>2. SizeOK(x) => SizeOK(y)
    BY <1>1, <1>2, Zenon DEF SizeOK, Good, read_data
  <2> QED
    BY <2>1, <2>2
<1>3. CASE y.gaveup = TRUE
  BY <1>3 DEF Whole, SizeOK, Good
<1> QED
  BY <1>2, <1>3, CountFacts, ZenonT(60)

(* The packet in the buffer is queued once more. *)
LEMMA WholePush ==
  ASSUME NEW x \in Sender, NEW q \in Seq(Packet), NEW r, Whole(x, q, r), NEW p \in Packet,
         BufferOK(x), x.tx, p = x.buf[1]
  PROVE  Whole(x, Append(q, p), r)
<1> DEFINE t == Append(q, p)
           k == Len(q)
<1>1. /\ k \in Nat /\ Len(t) = k + 1 /\ t[k + 1] = p /\ \A i \in 1 .. k : t[i] = q[i]
  BY SequenceFacts
<1>2. \A i \in 1 .. k + 1 : i = k + 1 \/ i \in 1 .. k
  BY <1>1
<1>3. p.no = x.n /\ x.told = "busy" /\ x.n \in Nat
  BY DEF BufferOK, Sender
<1> HIDE DEF t
<1>4. ASSUME Good(x)
      PROVE  Clean(x, t, r) /\ Carried(x, t, r)
  <2>1. Carried(x, q, r) /\ Clean(x, q, r)
    BY <1>3, <1>4 DEF Whole
  <2>2. p.no # 0
    BY <1>3, <2>1 DEF Carried
  <2>3. \A i \in 1 .. k + 1 : t[i].no # 0
    BY <1>1, <1>2, <2>1, <2>2 DEF Clean
  <2>4. \A i \in 1 .. k + 1 : t[i].id = x.nxt => t[i].chunk = x.chunk /\ t[i].len = read_data(x)
    BY <1>1, <1>2, <2>1 DEF Carried
  <2>5. Clean(x, t, r)
    BY <1>1, <2>1, <2>3 DEF Clean
  <2>6. Carried(x, t, r)
    BY <1>1, <2>1, <2>4, Zenon DEF Carried
  <2> QED
    BY <2>5, <2>6
<1> QED
  BY <1>3, <1>4 DEF Whole, t

(* The MAC is done with a packet. *)
LEMMA WholePop ==
  ASSUME NEW x, NEW q \in Seq(Packet), q # << >>, NEW r, Whole(x, q, r)
  PROVE  Whole(x, Tail(q), r)
<1> DEFINE t == Tail(q)
           k == Len(q)
<1>1. k \in Nat /\ k >= 1 /\ Len(t) = k - 1 /\ \A i \in 1 .. k - 1 : t[i] = q[i + 1]
  BY SequenceFacts
<1>2. \A i \in 1 .. k - 1 : i + 1 \in 1 .. k
  BY <1>1
<1> HIDE DEF t, k
<1>3. Clean(x, q, r) => Clean(x, t, r)
  BY <1>1, <1>2 DEF Clean, k
<1>4. ASSUME Carried(x, q, r)
      PROVE  Carried(x, t, r)
  <2>1. \A i \in 1 .. Len(t) : t[i].id = x.nxt => t[i].chunk = x.chunk /\ t[i].len = read_data(x)
    BY <1>1, <1>2, <1>4 DEF Carried, k
  <2> QED
    BY <1>4, <2>1, Zenon DEF Carried
<1> QED
  BY <1>3, <1>4, Zenon DEF Whole, t

(* A packet that the receiver does not take for a repetition is the one    *)
(* under way.                                                              *)
LEMMA NewIsNext ==
  ASSUME NEW x, NEW q, NEW r, NEW a, Sound(x, q, r, a), BufferOK(x), Whole(x, q, r), Good(x),
         q # << >>, q[1].id # r.last
  PROVE  q[1].id = x.nxt /\ x.told = "busy"
<1>1. /\ x \in Sender /\ q \in Seq(Packet) /\ r \in Receiver /\ a \in Seq(0 .. Ids - 1)
      /\ InOrder(x, q, r) /\ Fresh(x, q, r, a) /\ x.n \in Nat /\ x.tx \in BOOLEAN
  BY DEF Sound, QueueOK, AcksOK, Sender
<1>2. /\ 1 \in 1 .. Len(q) /\ q[1].id \in 0 .. Ids - 1 /\ q[1].no \in Nat
      /\ Len(r.given) \in Nat
  BY <1>1, QueueFacts, GivenFacts
<1>3. ~x.wrapped /\ x.skips = 0 /\ q[1].no # 0
  BY <1>2 DEF Whole, Clean
<1>4. CASE Len(r.given) > 0
  <2>1. /\ r.last \in 0 .. Ids - 1 /\ Age(x, r.last) <= 1 /\ Age(x, q[1].id) <= Age(x, r.last)
        /\ q[1].id = x.nxt => x.tx
    BY <1>1, <1>2, <1>3, <1>4 DEF Fresh
  <2>2. Age(x, q[1].id) # Age(x, r.last)
    BY <1>1, <1>2, <2>1, AgeFacts
  <2>3. Age(x, q[1].id) \in 0 .. Ids - 1 /\ Age(x, r.last) \in 0 .. Ids - 1 /\ Ids \in Nat
    BY <1>1, <1>2, <2>1, AgeFacts, RucbAssumption
  <2>4. Age(x, q[1].id) = 0
    BY <2>1, <2>2, <2>3
  <2>5. q[1].id = x.nxt
    BY <1>1, <1>2, <2>4, AgeFacts
  <2> QED
    BY <2>1, <2>5 DEF BufferOK
<1>5. CASE Len(r.given) = 0
  <2>1. q[1].no <= x.n /\ (x.tx /\ q[1].no = x.n => q[1].id = x.nxt)
    BY <1>1, <1>2 DEF InOrder
  <2>2. x.n # 0
    BY <1>1, <1>2, <1>3, <2>1
  <2>3. x.told = "busy"
    BY <1>5, <2>2 DEF Whole
  <2>4. r.last = Ids /\ x.nxt # Ids
    BY <1>1, <1>3, <1>5, RucbAssumption DEF Fresh, Sender
  <2>5. Len(r.given) = x.n - 1
    BY <2>3, <2>4 DEF Whole, Carried
  <2>6. q[1].no = x.n
    BY <1>1, <1>2, <1>3, <1>5, <2>1, <2>5
  <2> QED
    BY <2>1, <2>3, <2>6 DEF BufferOK
<1> QED
  BY <1>2, <1>4, <1>5

(* The receiver takes the packet under way at its place. *)
LEMMA WholeRecv ==
  ASSUME NEW x, NEW q, NEW r, NEW a, Sound(x, q, r, a), BufferOK(x), Whole(x, q, r),
         q # << >>, NEW y, y = recv(r, q[1])
  PROVE  Whole(x, q, y)
<1> SUFFICES ASSUME Good(x)
             PROVE  Whole(x, q, y)
  BY DEF Whole
<1> DEFINE m == Len(r.given)
<1>1. /\ x \in Sender /\ q \in Seq(Packet) /\ r \in Receiver /\ x.n \in Nat
  BY DEF Sound, QueueOK, Sender
<1>2. 1 \in 1 .. Len(q) /\ q[1] \in Packet /\ m \in Nat
  BY <1>1, QueueFacts, GivenFacts
<1>3. CASE q[1].id = r.last
  BY <1>1, <1>2, <1>3, RecvFacts
<1>4. CASE q[1].id # r.last
  <2>1. q[1].id = x.nxt /\ x.told = "busy"
    BY <1>4, NewIsNext
  <2>2. Carried(x, q, r) /\ Clean(x, q, r)
    BY <2>1 DEF Whole
  <2>3. /\ q[1].chunk = x.chunk /\ q[1].len = read_data(x)
        /\ m = x.n - 1 /\ Placed(x, r)
    BY <1>2, <1>4, <2>1, <2>2 DEF Carried
  <2>4. /\ y.last = q[1].id /\ y.chunk = At(r) + 1 /\ Len(y.given) = m + 1
        /\ \A i \in 1 .. m : y.given[i] = r.given[i]
    BY <1>1, <1>2, <1>4, RecvFacts
  <2>5. r \in Receiver /\ q[1] \in Packet
    BY <1>1, <1>2
  <2>6. /\ y.open = (q[1].len = RUCB_DATASIZE) /\ y.given[m + 1].moved = (q[1].chunk # At(r))
        /\ y.given[m + 1].len = q[1].len
    <3> DEFINE p == q[1]
    <3>1. p.id # r.last /\ p \in Packet /\ r \in Receiver /\ y = recv(r, p)
      BY <1>4, <2>5
    <3> HIDE DEF p
    <3>2. /\ y.open = (p.len = RUCB_DATASIZE) /\ y.given[m + 1].moved = (p.chunk # At(r))
          /\ y.given[m + 1].len = p.len
      BY <3>1, RecvFacts, ZenonT(60)
    <3> QED
      BY <3>2, Zenon DEF p
  <2>7. /\ y.open <=> read_data(x) = RUCB_DATASIZE
        /\ y.given[m + 1].moved => y.given[m + 1].len = 0
    BY <2>3, <2>6, Zenon DEF Placed
  <2> HIDE DEF m
  <2>8. \A i \in 1 .. m + 1 : i = m + 1 \/ i \in 1 .. m
    BY <1>2
  <2>9. \A i \in 1 .. m + 1 : y.given[i].moved => y.given[i].len = 0
    BY <2>2, <2>4, <2>7, <2>8 DEF Clean, m
  <2>10. Clean(x, q, y)
    BY <2>2, <2>4, <2>9, Zenon DEF Clean
  <2>11. y.last = x.nxt /\ Len(y.given) = x.n
    BY <1>1, <1>2, <2>1, <2>3, <2>4
  <2>12. y.open => y.chunk = x.chunk + 1
    <3>1. RUCB_DATASIZE # 0
      BY RucbAssumption
    <3> QED
      BY <2>3, <2>4, <2>7, <3>1 DEF Placed
  <2>13. Carried(x, q, y)
    BY <2>2, <2>7, <2>11, <2>12, Zenon DEF Carried
  <2> QED
    BY <2>1, <2>10, <2>13, Zenon DEF Whole
<1> QED
  BY <1>3, <1>4

(* After runicast_send of the chunk that rucb is at *)
LEMMA WholeSend ==
  ASSUME NEW x, NEW q, NEW r, NEW a, Sound(x, q, r, a), ~x.tx, Ready(x, q, r),
         NEW len, len = read_data(x), NEW buffers \in BOOLEAN,
         NEW s, s = runicast_send(x, q, len, buffers)
  PROVE  /\ Whole(s.x, s.q, r) /\ s.x.chunk = x.chunk /\ s.x.file = x.file
         /\ s.x.size = x.size /\ s.x.stale = x.stale
<1> DEFINE p == NewPacket(x, len)
           y == Begun(x, p)
           z == Failed(x)
<1>1. /\ x \in Sender /\ q \in Seq(Packet) /\ r \in Receiver /\ a \in Seq(0 .. Ids - 1)
      /\ Fresh(x, q, r, a) /\ QueueOK(q) /\ x.n \in Nat /\ x.nxt \in 0 .. Ids - 1
  BY DEF Sound, QueueOK, AcksOK, Sender
<1>2. len \in 0 .. RUCB_DATASIZE
  BY <1>1, ReadTyped
<1>3. s = unicast_send(y, q, p) \/ s = Left(z, q)
  BY <1>1, <1>2, SendFacts
<1>4. CASE s = unicast_send(y, q, p)
  <2>1. p = NewPacket(x, len) /\ y = Begun(x, p)
    OBVIOUS
  <2> HIDE DEF p, y
  <2>2. x \in Sender
    BY <1>1
  <2>3. p \in Packet /\ y \in Sender
    BY <1>2, <2>1, <2>2, BegunFacts
  <2>4. y.buf = <<p>> /\ y.tx = TRUE /\ y.n = x.n + 1 /\ y.told = "busy"
    BY <2>1, <2>2, Zenon DEF Begun, Sender
  <2>5. /\ y.nxt = x.nxt /\ y.skips = x.skips /\ y.wrapped = x.wrapped
        /\ y.gaveup = x.gaveup /\ y.chunk = x.chunk /\ y.file = x.file /\ y.stale = x.stale
        /\ y.size = x.size
    BY <2>1, <2>2, Zenon DEF Begun, Sender
  <2>6. p.id = x.nxt /\ p.no = x.n + 1 /\ p.chunk = x.chunk /\ p.len = len
    BY <2>1 DEF NewPacket
  <2>7. read_data(y) = read_data(x)
    BY <2>5 DEF read_data
  <2>8. y.buf[1] = p /\ y.buf # << >>
    BY <2>4
  <2>9. BufferOK(y)
    BY <2>4, <2>5, <2>6, <2>8 DEF BufferOK
  <2>10. Whole(y, q, r)
    <3> SUFFICES ASSUME Good(x)
                 PROVE  Whole(y, q, r)
      BY <2>5 DEF Whole, Good
    <3>1. Clean(x, q, r) /\ Chunked(x.file)
      BY DEF Ready
    <3>2. Len(r.given) = x.n /\ Placed(x, r)
      BY DEF Ready
    <3>3. Clean(y, q, r)
      BY <2>5, <3>1, Zenon DEF Clean
    <3>4. ~x.wrapped
      BY <3>1 DEF Clean
    <3>5. \A i \in 1 .. Len(q) : q[i].id # x.nxt
      BY <1>1, <3>4 DEF Fresh
    <3>6. r.last # x.nxt
      BY <1>1, <3>4, GivenFacts, RucbAssumption DEF Fresh
    <3>7. x.n + 1 > 0 /\ Len(r.given) = x.n + 1 - 1
      BY <1>1, <3>2
    <3>8. Placed(y, r)
      BY <2>5, <2>7, <3>2, Zenon DEF Placed
    <3>9. Carried(y, q, r)
      BY <2>4, <2>5, <2>6, <2>7, <2>8, <3>1, <3>2, <3>5, <3>6, <3>7, <3>8 DEF Carried
    <3> QED
      BY <2>4, <3>3, <3>9 DEF Whole
  <2>11. CASE s = Left(y, Append(q, p))
    <3>1. s.x = y /\ s.q = Append(q, p)
      BY <2>11 DEF Left
    <3>2. Whole(y, Append(q, p), r)
      BY <1>1, <2>3, <2>4, <2>8, <2>9, <2>10, WholePush
    <3> QED
      BY <2>5, <3>1, <3>2
  <2>12. CASE s = Left(sent_by_stunicast(y), q)
    <3>1. s.x = sent_by_stunicast(y) /\ s.q = q
      BY <2>12 DEF Left
    <3>2. Whole(s.x, q, r)
      BY <2>3, <2>10, <3>1, WholeCount
    <3>3. /\ s.x.chunk = y.chunk /\ s.x.file = y.file /\ s.x.size = y.size
          /\ s.x.stale = y.stale
      BY <2>3, <3>1, CountFacts
    <3> QED
      BY <2>5, <3>1, <3>2, <3>3
  <2> QED
    BY <1>1, <1>4, <2>3, <2>11, <2>12, UnicastFacts
<1>5. CASE s = Left(z, q)
  <2>1. s.x = z /\ s.q = q
    BY <1>5 DEF Left
  <2>2. /\ z.gaveup = TRUE /\ z.chunk = x.chunk /\ z.file = x.file
        /\ z.size = x.size /\ z.stale = x.stale
    BY <1>1 DEF Failed, Sender
  <2> QED
    BY <2>1, <2>2 DEF Whole, Good
<1> QED
  BY <1>3, <1>4, <1>5

(* The ACK that is waited for: rucb goes on to a chunk that the receiver   *)
(* is at, or ends when the receiver has closed the file.                   *)
LEMMA WholeAdvanced ==
  ASSUME NEW x, NEW q, NEW r, NEW a, Sound(x, q, r, a), BufferOK(x), Whole(x, q, r), SizeOK(x),
         a # << >>, a[1] = x.nxt, Good(x), NEW y, y = Advanced(x)
  PROVE  /\ Clean(y, q, r) /\ Len(r.given) = y.n
         /\ read_data(y) = 0 /\ x.size = 1 => ~r.open
         /\ Ready(y, q, r)
<1>1. x \in Sender /\ r \in Receiver /\ Clean(x, q, r) /\ ~x.wrapped
  BY DEF Sound, Whole, Clean
<1>2. x.tx /\ Len(r.given) > 0 /\ r.last = x.nxt
  BY <1>1, AdvancedSound
<1>3. x.told = "busy"
  BY <1>2 DEF BufferOK
<1>4. /\ Chunked(x.file) /\ Len(r.given) = x.n /\ (r.open => r.chunk = x.chunk + 1)
      /\ r.open <=> read_data(x) = RUCB_DATASIZE
  BY <1>2, <1>3 DEF Whole, Carried
<1>5. y \in Sender /\ y.chunk = x.chunk + 1 /\ y.n = x.n /\ y.file = x.file /\ y.skips = 0
  BY <1>1, AdvancedFacts
<1>6. y.wrapped = x.wrapped
  <2>1. x \in Sender
    BY <1>1
  <2> QED
    BY <2>1, AdvancedFacts, Zenon
<1>7. Clean(y, q, r)
  BY <1>1, <1>5, <1>6, Zenon DEF Clean
<1>8. /\ ~(x.chunk < Len(x.file)) => read_data(x) = 0
      /\ x.chunk + 1 < Len(x.file) => read_data(x) = RUCB_DATASIZE
      /\ RUCB_DATASIZE # 0 /\ Len(x.file) \in Nat /\ x.chunk \in Nat
  BY <1>1, <1>4, ChunkRead
<1>9. /\ ~(y.chunk < Len(x.file)) => read_data(y) = 0
      /\ y.chunk < Len(x.file) => read_data(y) # 0
  BY <1>4, <1>5, ChunkRead
<1>10. /\ x.chunk > 0 => x.size = 1 + read_data(x)
       /\ x.chunk = 0 /\ x.size = 1 /\ Len(x.file) = 1 => read_data(x) # RUCB_DATASIZE
  BY <1>3 DEF SizeOK
<1>11. ASSUME read_data(y) = 0, x.size = 1
       PROVE  ~r.open
  <2>1. CASE x.chunk > 0
    <3>1. read_data(x) \in Nat
      BY <1>1, ReadTyped, RucbAssumption
    <3>2. read_data(x) = 0
      BY <1>10, <1>11, <2>1, <3>1
    <3> QED
      BY <1>4, <1>8, <3>2
  <2>2. CASE x.chunk = 0
    <3> DEFINE k == Len(x.file)
    <3>1. k = 0 \/ k = 1
      <4>1. y.chunk = 1
        BY <1>5, <2>2
      <4>2. ~(1 < k)
        BY <1>9, <1>11, <4>1
      <4>3. k \in Nat
        BY <1>8
      <4> HIDE DEF k
      <4> QED
        BY ONLY <4>2, <4>3
    <3>2. read_data(x) # RUCB_DATASIZE
      BY <1>8, <1>10, <1>11, <2>2, <3>1
    <3> QED
      BY <1>4, <3>2
  <2> QED
    BY <1>8, <2>1, <2>2
<1>12. Placed(y, r)
  <2>1. CASE r.open
    BY <1>4, <1>5, <2>1 DEF Placed, At
  <2>2. CASE ~r.open
    <3>1. ~(y.chunk < Len(x.file))
      BY <1>4, <1>5, <1>8, <2>2
    <3> QED
      BY <1>9, <3>1 DEF Placed
  <2> QED
    BY <2>1, <2>2
<1>13. Ready(y, q, r)
  BY <1>4, <1>5, <1>7, <1>12 DEF Ready
<1> QED
  BY <1>4, <1>5, <1>7, <1>11, <1>13

(* An ACK, waited for or not, keeps the file whole. *)
LEMMA WholeAcked ==
  ASSUME NEW x, NEW q, NEW r, NEW a, Sound(x, q, r, a), BufferOK(x), Whole(x, q, r), SizeOK(x),
         a # << >>, NEW buffers \in BOOLEAN, NEW s, s = AckReceived(x, q, a[1], buffers)
  PROVE  Whole(s.x, s.q, r) /\ SizeOK(s.x)
<1>1. x \in Sender
  BY DEF Sound
<1>2. CASE a[1] # x.nxt
  <2>1. s = Left(x, q)
    BY <1>2 DEF AckReceived
  <2>2. s.x = x /\ s.q = q
    BY <2>1 DEF Left
  <2> QED
    BY <2>2
<1>3. CASE a[1] = x.nxt
  <2>1. PICK y, len, t :
          /\ y = Advanced(x) /\ len = read_data(y) /\ t = runicast_send(y, q, len, buffers)
          /\ s = IF len = 0 /\ x.size = 1 THEN Left([y EXCEPT !.told = "done"], q)
                 ELSE Left([t.x EXCEPT !.size = 1 + len], t.q)
    <3>1. x \in Sender
      BY <1>1
    <3>2. s = AckReceived(x, q, x.nxt, buffers)
      BY <1>3
    <3>3. Acknowledged(x, q, buffers, s)
      BY <3>1, <3>2, AckReceivedFacts
    <3> QED
      BY <3>3, Zenon DEF Acknowledged
  <2>2. Sound(y, q, r, Tail(a)) /\ ~y.tx
    BY <1>3, <2>1, AdvancedSound
  <2>3. y \in Sender
    BY <2>2 DEF Sound
  <2>4. Good(y) <=> Good(x)
    BY <1>1, <2>1, AdvancedFacts, Zenon DEF Good
  <2>5. len \in 0 .. RUCB_DATASIZE
    BY <2>1, <2>3, ReadTyped
  <2>6. Good(x) =>
          /\ Clean(y, q, r) /\ Len(r.given) = y.n
          /\ (len = 0 /\ x.size = 1 => ~r.open)
          /\ Ready(y, q, r)
    BY <1>3, <2>1, WholeAdvanced
  <2>7. CASE len = 0 /\ x.size = 1
    <3> DEFINE z == [y EXCEPT !.told = "done"]
    <3>1. s = Left(z, q)
      BY <2>1, <2>7, Zenon
    <3>2. s.x = z /\ s.q = q
      BY <3>1 DEF Left
    <3>3. /\ z.told = "done" /\ z.n = y.n /\ z.skips = y.skips
          /\ z.wrapped = y.wrapped /\ z.gaveup = y.gaveup /\ z.stale = y.stale
      BY <2>3, FieldFacts, Zenon
    <3> HIDE DEF z
    <3>4. Clean(y, q, r) => Clean(z, q, r)
      BY <3>3, Zenon DEF Clean
    <3>5. Whole(z, q, r)
      BY <2>4, <2>6, <2>7, <3>3, <3>4 DEF Whole, Good
    <3>6. SizeOK(z)
      BY <3>3 DEF SizeOK
    <3> QED
      BY <3>2, <3>5, <3>6
  <2>8. CASE ~(len = 0 /\ x.size = 1)
    <3> DEFINE z == [t.x EXCEPT !.size = 1 + len]
    <3>1. Ready(y, q, r)
      BY <2>4, <2>6 DEF Ready
    <3>2. s = Left(z, t.q)
      BY <2>1, <2>8, Zenon
    <3>3. s.x = z /\ s.q = t.q
      BY <3>2 DEF Left
    <3>4. Whole(t.x, t.q, r) /\ t.x.chunk = y.chunk /\ t.x.file = y.file
      BY <2>1, <2>2, <3>1, WholeSend
    <3>5. t.x \in Sender
      BY <2>1, <2>2, <2>5, SendSound DEF Sound
    <3>6. 1 + len \in 0 .. 1 + RUCB_DATASIZE
      BY <2>5, RucbAssumption
    <3>7. /\ z.nxt = t.x.nxt /\ z.n = t.x.n /\ z.skips = t.x.skips /\ z.size = 1 + len
          /\ z.wrapped = t.x.wrapped /\ z.buf = t.x.buf /\ z.told = t.x.told
          /\ z.chunk = t.x.chunk /\ z.file = t.x.file /\ z.gaveup = t.x.gaveup
          /\ z.stale = t.x.stale
      BY <3>5, Zenon DEF Sender
    <3> HIDE DEF z
    <3>8. Whole(z, t.q, r)
      BY <3>4, <3>7, WholeSame, Zenon
    <3>9. read_data(z) = len
      BY ZenonT(60), <2>1, <3>4, <3>7 DEF read_data
    <3>10. z.chunk # 0
      <4>1. x \in Sender /\ x.chunk \in Nat
        BY <1>1 DEF Sender
      <4>2. y.chunk = x.chunk + 1
        BY <2>1, <4>1, AdvancedFacts
      <4> QED
        BY <3>4, <3>7, <4>1, <4>2
    <3>11. SizeOK(z)
      BY <3>7, <3>9, <3>10, Zenon DEF SizeOK
    <3> QED
      BY <3>3, <3>8, <3>11
  <2> QED
    BY <2>7, <2>8
<1> QED
  BY <1>2, <1>3

FileInv == RucbInv /\ Whole(snd, mac, rcv) /\ SizeOK(snd)

(* Every step keeps the file whole. *)
LEMMA NextWhole ==
  ASSUME FileInv, [Next]_vars
  PROVE  FileInv'
<1> USE DEF FileInv
<1>0. SUFFICES Whole(snd, mac, rcv)' /\ SizeOK(snd)'
  BY NextSound
<1>1. Sound(snd, mac, rcv, acks) /\ BufferOK(snd) /\ snd \in Sender /\ mac \in Seq(Packet)
  BY DEF RucbInv, Sound, QueueOK
<1>2. ASSUME NEW f \in Files, rucb_send(f)
      PROVE  Whole(snd, mac, rcv)' /\ SizeOK(snd)'
  <2> DEFINE x == Started(snd, f)
             len == read_data(x)
  <2>1. PICK buffers \in BOOLEAN : Do(runicast_send(x, mac, len, buffers))
    BY <1>2 DEF rucb_send, Started
  <2>2. snd.told # "busy" /\ rcv' = rcv
    BY <1>2 DEF rucb_send
  <2>3. snd \in Sender
    BY <1>1
  <2>5. AtStart(snd, f, x) /\ len = read_data(x)
    BY <2>3, StartedFacts
  <2> HIDE DEF x, len
  <2>4. /\ x \in Sender /\ x.nxt = snd.nxt /\ x.tx = snd.tx /\ x.n = snd.n
        /\ x.skips = snd.skips /\ x.wrapped = snd.wrapped /\ x.sent = snd.sent
        /\ x.chunk = 0 /\ x.file = f /\ x.gaveup = snd.gaveup /\ x.size = snd.size
        /\ x.stale = (snd.stale \/ (snd.size = 1 /\ f = <<RUCB_DATASIZE>>))
    BY <2>5, Zenon DEF AtStart
  <2>6. Sound(x, mac, rcv, acks)
    BY <1>1, <2>4, SameSound
  <2>7. ~x.tx
    BY <1>1, <2>2, <2>4 DEF BufferOK
  <2>8. Ready(x, mac, rcv)
    <3> SUFFICES ASSUME Good(snd)
                 PROVE  Ready(x, mac, rcv)
      BY <2>4 DEF Ready, Good
    <3>1. Clean(snd, mac, rcv) /\ Len(rcv.given) = snd.n /\ ~rcv.open
      BY <2>2 DEF Whole
    <3>2. Clean(x, mac, rcv)
      BY <2>4, <3>1, Zenon DEF Clean
    <3>3. At(rcv) = x.chunk
      BY <2>4, <3>1 DEF At
    <3>4. Chunked(f)
      BY FileAssumption DEF Chunked
    <3> QED
      BY <2>4, <3>1, <3>2, <3>3, <3>4 DEF Ready, Placed
  <2> DEFINE s == runicast_send(x, mac, len, buffers)
  <2>9. /\ Whole(s.x, s.q, rcv) /\ s.x.chunk = x.chunk /\ s.x.file = x.file
        /\ s.x.size = x.size /\ s.x.stale = x.stale
    BY <1>1, <2>4, <2>5, <2>6, <2>7, <2>8, WholeSend
  <2>10. snd' = s.x /\ mac' = s.q
    BY <2>1 DEF Do
  <2> HIDE DEF s
  <2>11. SizeOK(s.x)
    <3>1. f \in Seq(1 .. RUCB_DATASIZE) /\ s.x.chunk = 0 /\ s.x.file = f
      BY <2>4, <2>9, RucbAssumption
    <3>2. read_data(s.x) = IF 0 < Len(f) THEN f[1] ELSE 0
      BY <3>1 DEF read_data
    <3>3. Len(f) = 1 /\ f[1] = RUCB_DATASIZE => f = <<RUCB_DATASIZE>>
      BY <3>1
    <3>4. ~s.x.stale => ~(s.x.size = 1 /\ f = <<RUCB_DATASIZE>>)
      BY <2>4, <2>9, Zenon
    <3> QED
      BY <3>1, <3>2, <3>3, <3>4 DEF SizeOK, Good
  <2> QED
    BY <2>2, <2>9, <2>10, <2>11
<1>3. CASE Resend
  <2> DEFINE p == snd.buf[1]
             s == unicast_send(snd, mac, p)
  <2>1. snd' = s.x /\ mac' = s.q /\ rcv' = rcv /\ snd.buf # << >>
    BY <1>3 DEF Resend, Do
  <2>2. snd.tx
    BY <1>1, <2>1 DEF BufferOK
  <2>3. p \in Packet
    <3>1. snd.buf \in Seq(Packet)
      BY <1>1 DEF Sender
    <3> QED
      BY <2>1, <3>1, QueueFacts
  <2>4. CASE s = Left(snd, Append(mac, p))
    <3>1. Whole(snd, Append(mac, p), rcv)
      BY <1>1, <2>2, <2>3, WholePush
    <3> QED
      BY <2>1, <2>4, <3>1 DEF Left
  <2>5. CASE s = Left(sent_by_stunicast(snd), mac)
    <3>1. snd' = sent_by_stunicast(snd) /\ mac' = mac
      BY <2>1, <2>5 DEF Left
    <3> QED
      BY <1>1, <2>1, <3>1, WholeCount
  <2>6. QueueOK(mac)
    BY <1>1 DEF Sound
  <2> QED
    BY <1>1, <2>3, <2>4, <2>5, <2>6, UnicastFacts
<1>4. ASSUME DataReceived(Head(mac)), mac # << >>
      PROVE  Whole(snd, mac, rcv')
  <2>1. Head(mac) = mac[1]
    BY <1>1, <1>4
  <2>2. rcv' = recv(rcv, mac[1])
    BY <1>4, <2>1 DEF DataReceived
  <2> QED
    BY <1>1, <1>4, <2>2, WholeRecv
<1>5. CASE Transmit
  <2>1. /\ mac # << >> /\ snd' = sent_by_stunicast(snd) /\ mac' = Tail(mac)
        /\ DataReceived(Head(mac)) \/ rcv' = rcv
    BY <1>5 DEF Transmit, Do, Left
  <2>2. Whole(snd, mac, rcv')
    BY <1>4, <2>1
  <2>3. Whole(snd, mac', rcv')
    BY <1>1, <2>1, <2>2, WholePop
  <2> QED
    BY <1>1, <2>1, <2>3, WholeCount
<1>6. CASE TransmitAgain
  BY <1>4, <1>6 DEF TransmitAgain
<1>7. CASE TransmitAck
  <2>1. acks # << >> /\ rcv' = rcv
    BY <1>7 DEF TransmitAck
  <2>2. acks \in Seq(0 .. Ids - 1)
    BY <1>1 DEF Sound, AcksOK
  <2>3. Head(acks) = acks[1]
    BY <2>1, <2>2
  <2>4. CASE \E buffers \in BOOLEAN : Do(AckReceived(snd, mac, Head(acks), buffers))
    <3>1. PICK buffers \in BOOLEAN : Do(AckReceived(snd, mac, acks[1], buffers))
      BY <2>3, <2>4
    <3> DEFINE s == AckReceived(snd, mac, acks[1], buffers)
    <3>2. snd' = s.x /\ mac' = s.q
      BY <3>1 DEF Do
    <3>3. Whole(s.x, s.q, rcv) /\ SizeOK(s.x)
      BY <1>1, <2>1, WholeAcked
    <3> QED
      BY <2>1, <3>2, <3>3
  <2>5. CASE UNCHANGED <<snd, mac>>
    BY <2>1, <2>5
  <2> QED
    BY <1>7, <2>4, <2>5 DEF TransmitAck
<1>8. CASE UNCHANGED vars
  BY <1>8 DEF vars
<1> QED
  BY <1>2, <1>3, <1>5, <1>6, <1>7, <1>8 DEF Next

(* For every file, number of transmissions and room of the queues: as long *)
(* as no transfer has been given up and no file of one full chunk has been *)
(* sent with the last_size 0 of the file before, the receiver's rucb       *)
(* writes all data at the place it was read from, and when the sender's    *)
(* has no more to do it has had every packet and has closed the file.      *)
THEOREM FilesArrive == Spec => []FileWhole
<1>1. Init => FileInv
  <2> SUFFICES ASSUME Init
               PROVE  FileInv
    OBVIOUS
  <2>1. /\ Len(mac) = 0 /\ Len(rcv.given) = 0 /\ snd.skips = 0 /\ ~snd.wrapped
        /\ snd.told = "none" /\ snd.n = 0 /\ ~rcv.open
    BY DEF Init
  <2>2. Clean(snd, mac, rcv)
    BY <2>1 DEF Clean
  <2> QED
    BY <2>1, <2>2, InitSound DEF FileInv, Whole, SizeOK
<1>2. FileInv /\ [Next]_vars => FileInv'
  BY NextWhole
<1>3. ASSUME FileInv
      PROVE  FileWhole
  <2>1. rcv \in Receiver
    BY <1>3 DEF FileInv, RucbInv, Sound
  <2>2. DOMAIN rcv.given = 1 .. Len(rcv.given)
    BY <2>1 DEF Receiver
  <2> QED
    BY <1>3, <2>2 DEF FileInv, Whole, Good, Clean, FileWhole
<1> QED
  BY <1>1, <1>2, <1>3, PTL DEF Spec
===============================================================================
