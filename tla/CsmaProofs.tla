------------------------------ MODULE CsmaProofs ------------------------------
(***************************************************************************)
(* The packet queues of csma.c under the send_list of nullrdc.c, for every *)
(* number of neighbours, packets and buffers.                              *)
(***************************************************************************)
EXTENDS Csma, SequenceTheorems, FiniteSetTheorems, TLAPS

-------------------------------------------------------------------------------
(* t is s with e put in at place k: what list_push, list_add and           *)
(* list_remove do to a queue                                               *)
Inserted(t, k, e, s) ==
  /\ k \in 1 .. Len(t) /\ Len(t) = Len(s) + 1 /\ t[k] = e
  /\ \A i \in 1 .. Len(s) : (i < k => t[i] = s[i]) /\ (i >= k => t[i + 1] = s[i])

(* Every place of the longer sequence is k or a place of the other one. *)
LEMMA InsertedPlaces ==
  ASSUME NEW t, NEW k, NEW e, NEW s, Len(s) \in Nat, Inserted(t, k, e, s)
  PROVE  \A j \in 1 .. Len(t) :
           \/ j = k /\ t[j] = e
           \/ j < k /\ j \in 1 .. Len(s) /\ t[j] = s[j]
           \/ j > k /\ j - 1 \in 1 .. Len(s) /\ t[j] = s[j - 1]
<1> SUFFICES ASSUME NEW j \in 1 .. Len(t)
             PROVE  \/ j = k /\ t[j] = e
                    \/ j < k /\ j \in 1 .. Len(s) /\ t[j] = s[j]
                    \/ j > k /\ j - 1 \in 1 .. Len(s) /\ t[j] = s[j - 1]
  OBVIOUS
<1> DEFINE N == Len(s)
<1>1. /\ Len(t) = N + 1 /\ k \in 1 .. N + 1 /\ t[k] = e /\ N \in Nat
      /\ \A i \in 1 .. N : (i < k => t[i] = s[i]) /\ (i >= k => t[i + 1] = s[i])
  BY DEF Inserted
<1> HIDE DEF N
<1>2. CASE j < k
  BY <1>1, <1>2 DEF N
<1>3. CASE j > k
  <2>1. j - 1 \in 1 .. N /\ j - 1 >= k /\ (j - 1) + 1 = j
    BY <1>1, <1>3
  <2> QED
    BY <1>1, <1>3, <2>1 DEF N
<1> QED
  BY <1>1, <1>2, <1>3

(* list_push and list_add *)
LEMMA EnqueuedFacts ==
  ASSUME NEW b, queue[b] \in Seq(Packets), NEW p \in Packets
  PROVE  /\ Enqueued(b, p) \in Seq(Packets)
         /\ Inserted(Enqueued(b, p), IF p \in Acks THEN 1 ELSE Len(queue[b]) + 1, p, queue[b])
         /\ Head(Enqueued(b, p)) = Enqueued(b, p)[1]
<1> DEFINE s == queue[b]
           t == Enqueued(b, p)
           N == Len(s)
<1>1. s \in Seq(Packets) /\ N \in Nat
  OBVIOUS
<1>2. CASE p \in Acks
  <2>1. t = << p >> \o s
    BY <1>2 DEF Enqueued
  <2>2. /\ t \in Seq(Packets) /\ Len(t) = 1 + N
        /\ \A i \in 1 .. 1 + N : t[i] = IF i <= 1 THEN << p >>[i] ELSE s[i - 1]
    <3>1. << p >> \in Seq(Packets) /\ Len(<< p >>) = 1
      OBVIOUS
    <3> QED
      BY <1>1, <2>1, <3>1, ConcatProperties
  <2> HIDE DEF t, s
  <2>3. Inserted(t, 1, p, s)
    <3>1. t[1] = p /\ 1 \in 1 .. 1 + N
      BY <1>1, <2>2
    <3>2. \A i \in 1 .. N : i + 1 \in 1 .. 1 + N /\ i + 1 > 1 /\ (i + 1) - 1 = i /\ ~(i < 1)
      BY <1>1
    <3>3. \A i \in 1 .. N : t[i + 1] = s[i]
      BY <2>2, <3>2
    <3> QED
      BY <1>1, <2>2, <3>1, <3>2, <3>3 DEF Inserted
  <2>4. Head(t) = t[1]
    BY <1>1, <2>2
  <2> QED
    BY <1>2, <2>2, <2>3, <2>4 DEF t, s
<1>3. CASE p \notin Acks
  <2>1. t = Append(s, p)
    BY <1>3 DEF Enqueued
  <2>2. /\ t \in Seq(Packets) /\ Len(t) = N + 1 /\ t[N + 1] = p
        /\ \A i \in 1 .. N : t[i] = s[i]
    BY <1>1, <2>1, AppendProperties
  <2> HIDE DEF t, s
  <2>3. Inserted(t, N + 1, p, s)
    BY <1>1, <2>2 DEF Inserted
  <2>4. Head(t) = t[1]
    BY <1>1, <2>2
  <2> QED
    BY <1>3, <2>2, <2>3, <2>4 DEF t, s
<1> QED
  BY <1>2, <1>3

(* list_remove *)
LEMMA RemoveFacts ==
  ASSUME NEW s \in Seq(Packets), NEW k \in 1 .. Len(s)
  PROVE  RemoveAt(s, k) \in Seq(Packets) /\ Inserted(s, k, s[k], RemoveAt(s, k))
<1> DEFINE N == Len(s)
           l == SubSeq(s, 1, k - 1)
           r == SubSeq(s, k + 1, N)
           t == l \o r
<1>1. N \in Nat /\ k \in 1 .. N
  OBVIOUS
<1>2. /\ l \in Seq(Packets) /\ Len(l) = k - 1
      /\ \A i \in 1 .. k - 1 : l[i] = s[i]
  <2>1. 1 .. k - 1 \subseteq 1 .. N /\ \A i \in 1 .. k - 1 : 1 + i - 1 = i
    BY <1>1
  <2> QED
    BY <1>1, <2>1, SubSeqProperties
<1>3. /\ r \in Seq(Packets) /\ Len(r) = N - k
      /\ \A i \in 1 .. N - k : r[i] = s[k + i]
  <2>1. k + 1 .. N \subseteq 1 .. N /\ \A i \in 1 .. N - k : (k + 1) + i - 1 = k + i
    BY <1>1
  <2> QED
    BY <1>1, <2>1, SubSeqProperties
<1>4. /\ t \in Seq(Packets) /\ Len(t) = N - 1
      /\ \A i \in 1 .. N - 1 : t[i] = IF i <= k - 1 THEN l[i] ELSE r[i - (k - 1)]
  <2> HIDE DEF l, r
  <2>1. Len(l) + Len(r) = N - 1
    BY <1>1, <1>2, <1>3
  <2>2. /\ t \in Seq(Packets) /\ Len(t) = Len(l) + Len(r)
        /\ \A i \in 1 .. Len(l) + Len(r) : t[i] = IF i <= Len(l) THEN l[i] ELSE r[i - Len(l)]
    BY <1>2, <1>3, ConcatProperties, Zenon
  <2> QED
    BY <1>2, <2>1, <2>2
<1>5. RemoveAt(s, k) = t
  BY DEF RemoveAt
<1> HIDE DEF t, l, r
<1>6. ASSUME NEW i \in 1 .. N - 1
      PROVE  (i < k => s[i] = t[i]) /\ (i >= k => s[i + 1] = t[i])
  <2>1. CASE i < k
    <3>1. i <= k - 1 /\ i \in 1 .. k - 1 /\ ~(i >= k)
      BY <1>1, <2>1
    <3> QED
      BY <1>2, <1>4, <3>1
  <2>2. CASE ~(i < k)
    <3>1. ~(i <= k - 1) /\ i - (k - 1) \in 1 .. N - k /\ k + (i - (k - 1)) = i + 1
      BY <1>1, <2>2
    <3> QED
      BY <1>3, <1>4, <2>2, <3>1
  <2> QED
    BY <2>1, <2>2
<1>7. Len(s) = Len(t) + 1
  BY <1>1, <1>4
<1> QED
  BY <1>1, <1>4, <1>5, <1>6, <1>7 DEF Inserted

-------------------------------------------------------------------------------
(* The queues as a function Q of the blocks *)
Queues == [Blocks -> Seq(Packets)]
In(Q, p) == \E b \in Blocks : \E i \in 1 .. Len(Q[b]) : Q[b][i] = p
Distinct(Q) ==
  \A b, c \in Blocks : \A i \in 1 .. Len(Q[b]), j \in 1 .. Len(Q[c]) :
    Q[b][i] = Q[c][j] => b = c /\ i = j

(* The packet p is queued at b, and only ACKs are before it. *)
Reached(Q, b, p) ==
  \E i \in 1 .. Len(Q[b]) : Q[b][i] = p /\ \A j \in 1 .. i - 1 : Q[b][j] \in Acks

(* What is queued in R is what is queued in Q and p, or but p. *)
Adds(Q, R, p) == \A e : In(R, e) <=> In(Q, e) \/ e = p
Drops(Q, R, p) == \A e : In(R, e) <=> In(Q, e) /\ e # p

(* A packet that was nowhere is put into a queue. *)
LEMMA DistinctInsert ==
  ASSUME NEW Q \in Queues, NEW R \in Queues, NEW b \in Blocks, NEW k, NEW p,
         \A c \in Blocks \ {b} : R[c] = Q[c],
         Inserted(R[b], k, p, Q[b]), Distinct(Q), ~In(Q, p)
  PROVE  Distinct(R) /\ Adds(Q, R, p)
<1>1. \A c \in Blocks : Q[c] \in Seq(Packets) /\ Len(Q[c]) \in Nat /\ Len(R[c]) \in Nat
  BY DEF Queues
<1>2. \A j \in 1 .. Len(R[b]) :
        \/ j = k /\ R[b][j] = p
        \/ j < k /\ j \in 1 .. Len(Q[b]) /\ R[b][j] = Q[b][j]
        \/ j > k /\ j - 1 \in 1 .. Len(Q[b]) /\ R[b][j] = Q[b][j - 1]
  BY <1>1, InsertedPlaces
<1>3. /\ k \in 1 .. Len(R[b]) /\ R[b][k] = p /\ Len(R[b]) = Len(Q[b]) + 1
      /\ \A i \in 1 .. Len(Q[b]) : (i < k => R[b][i] = Q[b][i]) /\ (i >= k => R[b][i + 1] = Q[b][i])
  BY DEF Inserted
<1>4. ASSUME NEW c \in Blocks, NEW i \in 1 .. Len(R[c])
      PROVE  R[c][i] = p => c = b /\ i = k
  <2>1. CASE c = b
    BY <1>2, <1>4, <2>1 DEF In
  <2>2. CASE c # b
    BY <1>4, <2>2 DEF In
  <2> QED
    BY <2>1, <2>2
<1>5. ASSUME NEW c \in Blocks, NEW d \in Blocks, NEW i \in 1 .. Len(R[c]), NEW j \in 1 .. Len(R[d]),
             R[c][i] = R[d][j]
      PROVE  c = d /\ i = j
  <2>1. CASE R[c][i] = p
    BY <1>4, <1>5, <2>1
  <2>2. CASE R[c][i] # p
    <3>1. CASE c # b /\ d # b
      BY <1>5, <3>1 DEF Distinct
    <3>2. CASE c = b /\ d # b
      <4>1. \E x \in 1 .. Len(Q[b]) : Q[b][x] = R[b][i]
        BY <1>2, <1>5, <2>2, <3>2
      <4>2. R[d] = Q[d]
        BY <3>2
      <4> QED
        BY <1>5, <3>2, <4>1, <4>2 DEF Distinct
    <3>3. CASE c # b /\ d = b
      <4>1. \E y \in 1 .. Len(Q[b]) : Q[b][y] = R[b][j]
        BY <1>2, <1>5, <2>2, <3>3
      <4>2. R[c] = Q[c]
        BY <3>3
      <4> QED
        BY <1>5, <3>3, <4>1, <4>2 DEF Distinct
    <3>4. CASE c = b /\ d = b
      <4>1. PICK x \in 1 .. Len(Q[b]) : Q[b][x] = R[b][i] /\ ((i < k /\ x = i) \/ (i > k /\ x = i - 1))
        BY <1>2, <1>5, <2>2, <3>4
      <4>2. PICK y \in 1 .. Len(Q[b]) : Q[b][y] = R[b][j] /\ ((j < k /\ y = j) \/ (j > k /\ y = j - 1))
        BY <1>2, <1>5, <2>2, <3>4
      <4>3. x = y
        BY <1>5, <3>4, <4>1, <4>2 DEF Distinct
      <4> QED
        BY <1>1, <1>3, <3>4, <4>1, <4>2, <4>3
    <3> QED
      BY <3>1, <3>2, <3>3, <3>4
  <2> QED
    BY <2>1, <2>2
<1>6. ASSUME NEW e, In(R, e), e # p
      PROVE  In(Q, e)
  <2>1. PICK c \in Blocks : \E i \in 1 .. Len(R[c]) : R[c][i] = e
    BY <1>6 DEF In
  <2>2. PICK i \in 1 .. Len(R[c]) : R[c][i] = e
    BY <2>1
  <2>3. \E x \in 1 .. Len(Q[c]) : Q[c][x] = e
    BY <1>2, <1>6, <2>2
  <2> QED
    BY <2>3 DEF In
<1>7. ASSUME NEW e, In(Q, e)
      PROVE  In(R, e)
  <2>1. PICK c \in Blocks : \E i \in 1 .. Len(Q[c]) : Q[c][i] = e
    BY <1>7 DEF In
  <2>2. PICK i \in 1 .. Len(Q[c]) : Q[c][i] = e
    BY <2>1
  <2>3. \E x \in 1 .. Len(R[c]) : R[c][x] = e
    <3>1. CASE c # b
      BY <2>2, <3>1
    <3>2. CASE c = b
      <4>1. i \in 1 .. Len(R[b]) /\ i + 1 \in 1 .. Len(R[b])
        BY <1>1, <1>3, <2>2, <3>2
      <4>2. i \in 1 .. Len(Q[b]) /\ Q[b][i] = e
        BY <2>2, <3>2
      <4>3. R[b][i] = e \/ R[b][i + 1] = e
        <5>1. i < k \/ i >= k
          BY <1>1, <1>3
        <5> QED
          BY <1>3, <4>2, <5>1
      <4> QED
        BY <3>2, <4>1, <4>3
    <3> QED
      BY <3>1, <3>2
  <2> QED
    BY <2>3 DEF In
<1>8. In(R, p)
  BY <1>3 DEF In
<1>9. Distinct(R)
  BY <1>5 DEF Distinct
<1> QED
  BY <1>6, <1>7, <1>8, <1>9 DEF Adds

(* A packet is taken out of its queue. *)
LEMMA DistinctRemove ==
  ASSUME NEW Q \in Queues, NEW R \in Queues, NEW b \in Blocks, NEW k, NEW p,
         \A c \in Blocks \ {b} : R[c] = Q[c],
         Inserted(Q[b], k, p, R[b]), Distinct(Q)
  PROVE  Distinct(R) /\ Drops(Q, R, p)
<1>1. \A c \in Blocks : Len(Q[c]) \in Nat /\ Len(R[c]) \in Nat
  BY DEF Queues
<1>2. \A j \in 1 .. Len(Q[b]) :
        \/ j = k /\ Q[b][j] = p
        \/ j < k /\ j \in 1 .. Len(R[b]) /\ Q[b][j] = R[b][j]
        \/ j > k /\ j - 1 \in 1 .. Len(R[b]) /\ Q[b][j] = R[b][j - 1]
  BY <1>1, InsertedPlaces
<1>3. /\ k \in 1 .. Len(Q[b]) /\ Q[b][k] = p /\ Len(Q[b]) = Len(R[b]) + 1
      /\ \A i \in 1 .. Len(R[b]) : (i < k => Q[b][i] = R[b][i]) /\ (i >= k => Q[b][i + 1] = R[b][i])
  BY DEF Inserted
<1>4. ASSUME NEW c \in Blocks, NEW i \in 1 .. Len(R[c])
      PROVE  \E x \in 1 .. Len(Q[c]) :
               /\ Q[c][x] = R[c][i] /\ (c = b => x # k)
               /\ c # b => x = i
               /\ c = b => x = IF i < k THEN i ELSE i + 1
  <2>1. CASE c # b
    BY <1>4, <2>1
  <2>2. CASE c = b
    <3>1. i \in 1 .. Len(Q[b]) /\ i + 1 \in 1 .. Len(Q[b])
      BY <1>1, <1>3, <1>4, <2>2
    <3>2. CASE i < k
      BY <1>1, <1>3, <1>4, <2>2, <3>1, <3>2
    <3>3. CASE ~(i < k)
      BY <1>1, <1>3, <1>4, <2>2, <3>1, <3>3
    <3> QED
      BY <3>2, <3>3
  <2> QED
    BY <2>1, <2>2
<1>5. ASSUME NEW c \in Blocks, NEW d \in Blocks, NEW i \in 1 .. Len(R[c]), NEW j \in 1 .. Len(R[d]),
             R[c][i] = R[d][j]
      PROVE  c = d /\ i = j
  <2>1. PICK x \in 1 .. Len(Q[c]) : /\ Q[c][x] = R[c][i]
                                    /\ c # b => x = i
                                    /\ c = b => x = IF i < k THEN i ELSE i + 1
    BY <1>4
  <2>2. PICK y \in 1 .. Len(Q[d]) : /\ Q[d][y] = R[d][j]
                                    /\ d # b => y = j
                                    /\ d = b => y = IF j < k THEN j ELSE j + 1
    BY <1>4
  <2>3. c = d /\ x = y
    BY <1>5, <2>1, <2>2 DEF Distinct
  <2> QED
    BY <1>1, <1>3, <2>1, <2>2, <2>3
<1>6. ASSUME NEW e, In(R, e)
      PROVE  In(Q, e) /\ e # p
  <2>1. PICK c \in Blocks : \E i \in 1 .. Len(R[c]) : R[c][i] = e
    BY <1>6 DEF In
  <2>2. PICK i \in 1 .. Len(R[c]) : R[c][i] = e
    BY <2>1
  <2>3. PICK x \in 1 .. Len(Q[c]) : Q[c][x] = e /\ (c = b => x # k)
    BY <1>4, <2>2
  <2> QED
    BY <1>3, <2>3 DEF In, Distinct
<1>7. ASSUME NEW e, In(Q, e), e # p
      PROVE  In(R, e)
  <2>1. PICK c \in Blocks : \E i \in 1 .. Len(Q[c]) : Q[c][i] = e
    BY <1>7 DEF In
  <2>2. PICK i \in 1 .. Len(Q[c]) : Q[c][i] = e
    BY <2>1
  <2>3. \E x \in 1 .. Len(R[c]) : R[c][x] = e
    BY <1>2, <1>7, <2>2
  <2> QED
    BY <2>3 DEF In
<1>8. Distinct(R)
  BY <1>5 DEF Distinct
<1> QED
  BY <1>6, <1>7, <1>8 DEF Drops

-------------------------------------------------------------------------------
(* The parts of the invariant.  The types: *)
CsmaTypes ==
  /\ addr \in [Blocks -> Addrs \cup {NONE}] /\ queue \in Queues
  /\ \A b \in Blocks : Len(queue[b]) <= PerNeighbor
  /\ transmissions \in [Blocks -> Nat] /\ timer \in [Blocks -> BOOLEAN]
  /\ packets \in Nat /\ metadata \in Nat /\ bufs \in Nat /\ others \in Nat
  /\ packets <= QueuebufNum /\ bufs + others <= QueuebufNum
  /\ pc \in {"idle", "send", "callback"} /\ n \in Blocks \cup {NONE}
  /\ cur \in Packets \cup {NONE} /\ next \in Packets \cup {NONE}
  /\ to \in [Packets -> Addrs \cup {NONE}] /\ answer \in [Packets -> Seq(Statuses)]
  /\ acked \in SUBSET Packets /\ noacks \in [Packets -> Nat]

(* A queued packet waits at its neighbour, and nobody was told of it. *)
Addressed ==
  \A b \in Blocks : \A i \in 1 .. Len(queue[b]) :
    /\ to[queue[b][i]] = addr[b]
    /\ answer[queue[b][i]] = << >> /\ queue[b][i] \notin acked

(* Nothing has happened to a packet before it is sent. *)
Unsent ==
  \A p \in Packets : to[p] = NONE => answer[p] = << >> /\ p \notin acked /\ noacks[p] = 0

(* NeverStuck, and that also the neighbour being sent to has packets *)
Linked ==
  \A b \in Blocks :
    /\ addr[b] # NONE <=> queue[b] # << >>
    /\ (pc # "send" \/ b # n) => (addr[b] # NONE <=> timer[b])

(* What send_list remembers: the packet being sent, and the one after it,  *)
(* which is still there after the callback.                                *)
Walk ==
  /\ pc # "idle" => n \in Blocks
  /\ pc = "send" =>
       \E i \in 1 .. Len(queue[n]) :
         /\ queue[n][i] = cur /\ \A j \in 1 .. i - 1 : queue[n][j] \in Acks
         /\ next = IF i = Len(queue[n]) THEN NONE ELSE queue[n][i + 1]
  /\ pc = "callback" /\ next # NONE => Reached(queue, n, next)

(* A neighbour to whom no ACK was sent has had its first packet sent in    *)
(* vain as often as n->transmissions says, and none of the others.         *)
NoAcksTo(a) == \A q \in Acks : to[q] # a
Counts ==
  \A b \in Blocks : addr[b] # NONE /\ NoAcksTo(addr[b]) =>
    /\ noacks[queue[b][1]] = transmissions[b] /\ transmissions[b] < MaxTx[queue[b][1]]
    /\ \A i \in 2 .. Len(queue[b]) : noacks[queue[b][i]] = 0

Pools ==
  /\ IsFiniteSet(Queued)
  /\ packets = Cardinality(Queued) /\ metadata = packets /\ bufs = packets

CsmaInv ==
  /\ CsmaTypes /\ Distinct(queue) /\ Addressed /\ Unsent /\ Linked /\ Walk
  /\ Counts /\ AnswerTrue /\ Pools

(* Queued, by places *)
LEMMA QueuedFacts ==
  ASSUME NEW Q \in Queues
  PROVE  \A p : p \in UNION {Range(Q[b]) : b \in Blocks} <=> In(Q, p)
<1>1. \A b \in Blocks : DOMAIN Q[b] = 1 .. Len(Q[b])
  BY DEF Queues
<1>2. \A b \in Blocks : Range(Q[b]) = {Q[b][i] : i \in 1 .. Len(Q[b])}
  BY <1>1 DEF Range
<1>3. \A p : p \in UNION {Range(Q[b]) : b \in Blocks} <=> \E b \in Blocks : p \in Range(Q[b])
  OBVIOUS
<1>4. \A p, b : b \in Blocks => (p \in Range(Q[b]) <=> \E i \in 1 .. Len(Q[b]) : Q[b][i] = p)
  BY <1>2
<1> QED
  BY <1>3, <1>4, Zenon DEF In

(* A packet that is queued was sent. *)
LEMMA InFacts ==
  ASSUME CsmaTypes, Addressed, Linked
  PROVE  /\ \A b \in Blocks : \A i \in 1 .. Len(queue[b]) :
              queue[b][i] \in Packets /\ to[queue[b][i]] # NONE
         /\ \A p : to[p] = NONE => ~In(queue, p)
<1>1. \A b \in Blocks : queue[b] \in Seq(Packets)
  BY DEF CsmaTypes, Queues
<1>2. ASSUME NEW b \in Blocks, NEW i \in 1 .. Len(queue[b])
      PROVE  queue[b][i] \in Packets /\ to[queue[b][i]] # NONE
  <2>1. queue[b] # << >> /\ queue[b][i] \in Packets
    BY <1>1, <1>2
  <2>2. addr[b] # NONE
    BY <2>1 DEF Linked
  <2> QED
    BY <2>1, <2>2 DEF Addressed
<1> QED
  BY <1>2 DEF In

(* Where send_list is *)
LEMMA PlaceFacts ==
  ASSUME CsmaTypes, Distinct(queue), NEW b \in Blocks, NEW i \in 1 .. Len(queue[b])
  PROVE  Place(b, queue[b][i]) = i
<1>1. DOMAIN queue[b] = 1 .. Len(queue[b])
  BY DEF CsmaTypes, Queues
<1>2. \A j \in 1 .. Len(queue[b]) : queue[b][j] = queue[b][i] => j = i
  BY DEF Distinct
<1>3. \E j \in 1 .. Len(queue[b]) : queue[b][j] = queue[b][i]
  OBVIOUS
<1> DEFINE k == CHOOSE j \in 1 .. Len(queue[b]) : queue[b][j] = queue[b][i]
<1>4. k \in 1 .. Len(queue[b]) /\ queue[b][k] = queue[b][i]
  BY <1>3
<1>5. Place(b, queue[b][i]) = k
  BY <1>1 DEF Place
<1> QED
  BY <1>2, <1>4, <1>5

(* The first packet of a neighbour to whom no ACK was sent is the one      *)
(* being sent.                                                             *)
LEMMA FirstIsSent ==
  ASSUME CsmaTypes, Addressed, NEW b \in Blocks, NEW i \in 1 .. Len(queue[b]),
         \A j \in 1 .. i - 1 : queue[b][j] \in Acks, NoAcksTo(addr[b])
  PROVE  i = 1
<1>1. Len(queue[b]) \in Nat
  BY DEF CsmaTypes, Queues
<1> SUFFICES ASSUME i # 1
             PROVE  FALSE
  OBVIOUS
<1>2. 1 \in 1 .. i - 1 /\ 1 \in 1 .. Len(queue[b])
  BY <1>1
<1> QED
  BY <1>2 DEF Addressed, NoAcksTo

(* neighbor_queue_from_addr and memb_alloc *)
LEMMA EntryFacts ==
  ASSUME NEW a, Entry(a) # NONE
  PROVE  Entry(a) \in Blocks /\ addr[Entry(a)] \in {a, NONE}
<1> DEFINE known == {b \in Blocks : addr[b] = a}
           free == {b \in Blocks : addr[b] = NONE}
<1>1. Entry(a) = IF known # {} THEN CHOOSE b \in known : TRUE
                 ELSE IF free # {} THEN CHOOSE b \in free : TRUE ELSE NONE
  BY DEF Entry
<1>2. known # {} => (CHOOSE b \in known : TRUE) \in known
  OBVIOUS
<1>3. free # {} => (CHOOSE b \in free : TRUE) \in free
  OBVIOUS
<1> QED
  BY <1>1, <1>2, <1>3

-------------------------------------------------------------------------------
(* A new packet is a step of its history only. *)
LEMMA ToFacts ==
  ASSUME CsmaTypes, NEW p \in Packets, NEW a \in Addrs, to[p] = NONE,
         to' = [to EXCEPT ![p] = a]
  PROVE  /\ to' \in [Packets -> Addrs \cup {NONE}] /\ to'[p] = a
         /\ \A q \in Packets \ {p} : to'[q] = to[q]
         /\ \A c \in Addrs : NoAcksTo(c)' => NoAcksTo(c)
         /\ NoAcksTo(a)' => p \notin Acks
<1>1. to \in [Packets -> Addrs \cup {NONE}] /\ NONE \notin Addrs /\ Acks \subseteq Packets
  BY CsmaAssumption DEF CsmaTypes
<1>2. to'[p] = a /\ \A q \in Packets \ {p} : to'[q] = to[q]
  BY <1>1
<1>3. \A c \in Addrs : NoAcksTo(c)' => NoAcksTo(c)
  BY <1>1, <1>2 DEF NoAcksTo
<1>4. to' \in [Packets -> Addrs \cup {NONE}]
  BY <1>1
<1> QED
  BY <1>2, <1>3, <1>4 DEF NoAcksTo

(* Answers to the other packets stay true. *)
LEMMA AnswerKept ==
  ASSUME CsmaTypes, AnswerTrue, Unsent, NEW p \in Packets, NEW a \in Addrs, to[p] = NONE,
         to' = [to EXCEPT ![p] = a], acked' = acked, noacks' = noacks,
         NEW q \in Packets, q # p, answer'[q] = answer[q]
  PROVE  /\ Len(answer'[q]) <= 1
         /\ answer'[q] = << "OK" >> <=> q \in acked'
         /\ answer'[q] # << >> => to'[q] # NONE
         /\ NoAcksTo(to[q])' =>
              /\ noacks'[q] <= MaxTx[q] /\ answer'[q] # << "COLLISION" >>
              /\ answer'[q] = << "NOACK" >> => noacks'[q] = MaxTx[q]
<1>1. to'[q] = to[q] /\ \A c \in Addrs : NoAcksTo(c)' => NoAcksTo(c)
  BY ToFacts
<1>2. /\ Len(answer[q]) <= 1
      /\ answer[q] = << "OK" >> <=> q \in acked
      /\ answer[q] # << >> => to[q] # NONE
      /\ NoAcksTo(to[q]) =>
           /\ noacks[q] <= MaxTx[q] /\ answer[q] # << "COLLISION" >>
           /\ answer[q] = << "NOACK" >> => noacks[q] = MaxTx[q]
  BY DEF AnswerTrue, NoAcksTo
<1>3. CASE to[q] = NONE
  <2>1. answer[q] = << >> /\ noacks[q] = 0 /\ 0 <= MaxTx[q]
    BY <1>3, CsmaAssumption DEF Unsent
  <2>2. << >> # << "COLLISION" >> /\ << >> # << "NOACK" >>
    OBVIOUS
  <2> QED
    BY <1>1, <1>2, <2>1, <2>2
<1>4. CASE to[q] # NONE
  <2>1. to[q] \in Addrs
    BY <1>4 DEF CsmaTypes
  <2>2. NoAcksTo(to[q])' => NoAcksTo(to[q])
    BY <1>1, <2>1 DEF NoAcksTo
  <2> QED
    BY <1>1, <1>2, <2>2
<1> QED
  BY <1>3, <1>4

(* MAC_TX_ERR at once *)
LEMMA RefuseInv ==
  ASSUME CsmaInv, NEW p \in Packets, NEW a \in Addrs, to[p] = NONE,
         to' = [to EXCEPT ![p] = a], Refuse(p),
         UNCHANGED <<addr, queue, timer, poolVars, others, listVars, acked, noacks>>,
         transmissions' \in [Blocks -> Nat],
         \A b \in Blocks : addr[b] # NONE => transmissions'[b] = transmissions[b]
  PROVE  CsmaInv'
<1> USE DEF CsmaInv
<1>1. /\ addr' = addr /\ queue' = queue /\ timer' = timer
      /\ packets' = packets /\ metadata' = metadata /\ bufs' = bufs /\ others' = others
      /\ pc' = pc /\ n' = n /\ cur' = cur /\ next' = next /\ acked' = acked /\ noacks' = noacks
  BY DEF poolVars, listVars
<1>2. /\ to' \in [Packets -> Addrs \cup {NONE}] /\ to'[p] = a
      /\ \A q \in Packets \ {p} : to'[q] = to[q]
      /\ \A c \in Addrs : NoAcksTo(c)' => NoAcksTo(c)
  BY ToFacts
<1>3. answer \in [Packets -> Seq(Statuses)] /\ answer[p] = << >> /\ p \notin acked /\ noacks[p] = 0
  BY DEF CsmaTypes, Unsent
<1>4. /\ answer' \in [Packets -> Seq(Statuses)] /\ answer'[p] = << "ERR" >>
      /\ \A q \in Packets \ {p} : answer'[q] = answer[q]
  <2>1. answer' = [answer EXCEPT ![p] = Append(answer[p], "ERR")]
    BY DEF Refuse
  <2>2. Append(answer[p], "ERR") = << "ERR" >> /\ << "ERR" >> \in Seq(Statuses)
    BY <1>3 DEF Statuses
  <2> QED
    BY <1>3, <2>1, <2>2
<1>5. \A b \in Blocks : \A i \in 1 .. Len(queue[b]) : queue[b][i] \in Packets \ {p}
  BY InFacts
<1>6. a # NONE
  BY CsmaAssumption
<1>7. CsmaTypes'
  BY <1>1, <1>2, <1>4 DEF CsmaTypes, Queues
<1>8. Distinct(queue)' /\ Linked' /\ Walk'
  <2>1. Distinct(queue) /\ Linked /\ Walk
    OBVIOUS
  <2>2. Distinct(queue)' /\ Linked'
    BY ONLY <1>1, <2>1 DEF Distinct, Linked
  <2>3. Walk'
    BY ONLY <1>1, <2>1 DEF Walk, Reached
  <2> QED
    BY <2>2, <2>3
<1>9. Addressed'
  <2> SUFFICES ASSUME NEW b \in Blocks, NEW i \in 1 .. Len(queue[b])
               PROVE  /\ to'[queue[b][i]] = addr[b]
                      /\ answer'[queue[b][i]] = << >> /\ queue[b][i] \notin acked
    BY <1>1 DEF Addressed
  <2>1. queue[b][i] \in Packets \ {p}
    BY <1>5
  <2> QED
    BY <1>2, <1>4, <2>1 DEF Addressed
<1>10. Unsent'
  BY <1>1, <1>2, <1>4, <1>6 DEF Unsent
<1>11. Counts'
  <2> SUFFICES ASSUME NEW b \in Blocks, addr[b] # NONE, NoAcksTo(addr[b])'
               PROVE  /\ noacks[queue[b][1]] = transmissions'[b]
                      /\ transmissions'[b] < MaxTx[queue[b][1]]
                      /\ \A i \in 2 .. Len(queue[b]) : noacks[queue[b][i]] = 0
    BY <1>1 DEF Counts
  <2>1. addr[b] \in Addrs /\ transmissions'[b] = transmissions[b]
    BY DEF CsmaTypes
  <2>2. NoAcksTo(addr[b])
    BY <1>1, <1>2, <2>1 DEF NoAcksTo
  <2> QED
    BY <2>1, <2>2 DEF Counts
<1>12. AnswerTrue'
  <2> SUFFICES ASSUME NEW q \in Packets
               PROVE  /\ Len(answer'[q]) <= 1
                      /\ answer'[q] = << "OK" >> <=> q \in acked'
                      /\ answer'[q] # << >> => to'[q] # NONE
                      /\ NoAcksTo(to[q])' =>
                           /\ noacks'[q] <= MaxTx[q] /\ answer'[q] # << "COLLISION" >>
                           /\ answer'[q] = << "NOACK" >> => noacks'[q] = MaxTx[q]
    BY DEF AnswerTrue, NoAcksTo
  <2>1. CASE q = p
    <3>1. /\ Len(<< "ERR" >>) <= 1 /\ << "ERR" >> # << "OK" >> /\ << "ERR" >> # << "NOACK" >>
          /\ << "ERR" >> # << "COLLISION" >> /\ 0 <= MaxTx[p]
      BY CsmaAssumption
    <3> QED
      BY <1>1, <1>2, <1>3, <1>4, <1>6, <2>1, <3>1
  <2>2. CASE q # p
    <3>1. answer'[q] = answer[q]
      BY <1>4, <2>2
    <3> QED
      BY <1>1, <2>2, <3>1, AnswerKept
  <2> QED
    BY <2>1, <2>2
<1>13. Pools'
  BY <1>1 DEF Pools, Queued, Holds
<1> QED
  BY <1>7, <1>8, <1>9, <1>10, <1>11, <1>12, <1>13

(* What the pools gave goes back, and so does a neighbour without packets. *)
LEMMA GiveBackFacts ==
  ASSUME CsmaInv, NEW b \in Blocks, NEW a \in Addrs, addr[b] \in {a, NONE}, GiveBack(b, a)
  PROVE  /\ UNCHANGED <<addr, queue, timer, poolVars>>
         /\ transmissions' \in [Blocks -> Nat]
         /\ \A c \in Blocks : addr[c] # NONE => transmissions'[c] = transmissions[c]
<1>1. /\ metadata \in Nat /\ packets \in Nat /\ transmissions \in [Blocks -> Nat]
      /\ addr \in [Blocks -> Addrs \cup {NONE}] /\ (addr[b] # NONE <=> queue[b] # << >>)
  BY DEF CsmaInv, CsmaTypes, Linked
<1>2. metadata' = metadata
  <2>1. MetadataFreed(metadata + 1) = metadata
    BY <1>1 DEF MetadataFreed
  <2>2. metadata' = IF GotMetadata THEN MetadataFreed(metadata + 1) ELSE metadata
    BY DEF GiveBack
  <2> QED
    BY <2>1, <2>2, Zenon
<1>3. packets' = packets
  <2>1. PacketFreed(packets + 1) = packets
    BY <1>1 DEF PacketFreed
  <2>2. packets' = IF GotPacket THEN PacketFreed(packets + 1) ELSE packets
    BY DEF GiveBack
  <2> QED
    BY <2>1, <2>2, Zenon
<1>4. addr' = addr
  <2>1. addr' = [addr EXCEPT ![b] = IF queue[b] = << >> THEN NONE ELSE a]
    BY DEF GiveBack, NeighborFreed
  <2>2. addr[b] = IF queue[b] = << >> THEN NONE ELSE a
    BY <1>1
  <2> QED
    BY <1>1, <2>1, <2>2
<1>5. /\ transmissions' \in [Blocks -> Nat]
      /\ \A c \in Blocks : addr[c] # NONE => transmissions'[c] = transmissions[c]
  BY <1>1 DEF GiveBack, Entered
<1> QED
  BY <1>2, <1>3, <1>4, <1>5 DEF GiveBack, poolVars

(* The packet is queued. *)
LEMMA AcceptInv ==
  ASSUME CsmaInv, NEW p \in Packets, NEW a \in Addrs, to[p] = NONE,
         to' = [to EXCEPT ![p] = a], NEW b \in Blocks, addr[b] \in {a, NONE},
         ~Full(b), GotBuf, Accept(b, p, a), pc \in {"idle", "callback"},
         UNCHANGED <<others, listVars, acked, noacks>>
  PROVE  CsmaInv'
<1> USE DEF CsmaInv
<1> DEFINE s == queue[b]
           t == Enqueued(b, p)
           k == IF p \in Acks THEN 1 ELSE Len(s) + 1
<1>1. /\ pc' = pc /\ n' = n /\ cur' = cur /\ next' = next /\ acked' = acked /\ noacks' = noacks
      /\ answer' = answer /\ others' = others /\ packets' = packets + 1
      /\ metadata' = metadata + 1 /\ bufs' = bufs + 1
  BY DEF Accept, listVars
<1>2. /\ to' \in [Packets -> Addrs \cup {NONE}] /\ to'[p] = a
      /\ (\A q \in Packets \ {p} : to'[q] = to[q])
      /\ (\A c \in Addrs : NoAcksTo(c)' => NoAcksTo(c)) /\ (NoAcksTo(a)' => p \notin Acks)
  BY ToFacts
<1>3. answer[p] = << >> /\ p \notin acked /\ noacks[p] = 0
  BY DEF Unsent
<1>4. /\ \A c \in Blocks : \A i \in 1 .. Len(queue[c]) : queue[c][i] \in Packets \ {p}
      /\ ~In(queue, p)
  BY InFacts
<1>5. a # NONE /\ NONE \notin Addrs
  BY CsmaAssumption
<1>6. queue \in Queues /\ s \in Seq(Packets) /\ Len(s) \in Nat
  BY DEF CsmaTypes, Queues
<1>7. t \in Seq(Packets) /\ Inserted(t, k, p, s) /\ Head(t) = t[1]
  BY <1>6, EnqueuedFacts
<1>8. /\ queue' \in Queues /\ queue'[b] = t /\ \A c \in Blocks \ {b} : queue'[c] = queue[c]
  <2>1. queue' = [queue EXCEPT ![b] = t]
    BY DEF Accept
  <2> HIDE DEF t
  <2> QED
    BY <1>6, <1>7, <2>1 DEF Queues
<1>9. /\ addr' \in [Blocks -> Addrs \cup {NONE}] /\ addr'[b] = a
      /\ \A c \in Blocks \ {b} : addr'[c] = addr[c]
  BY DEF Accept, CsmaTypes
<1>10. /\ transmissions' \in [Blocks -> Nat]
       /\ transmissions'[b] = (IF addr[b] = NONE THEN 0 ELSE transmissions[b])
       /\ \A c \in Blocks \ {b} : transmissions'[c] = transmissions[c]
  BY DEF Accept, Entered, CsmaTypes
<1>11. /\ timer' \in [Blocks -> BOOLEAN] /\ (timer'[b] <=> timer[b] \/ t[1] = p)
       /\ \A c \in Blocks \ {b} : timer'[c] = timer[c]
  <2> DEFINE new == (timer[b] \/ Head(t) = p)
  <2>1. new \in BOOLEAN /\ timer \in [Blocks -> BOOLEAN]
    BY DEF CsmaTypes
  <2>2. timer' = [timer EXCEPT ![b] = new]
    BY DEF Accept
  <2>3. timer'[b] = new /\ \A c \in Blocks \ {b} : timer'[c] = timer[c]
    BY <2>1, <2>2, Zenon
  <2>4. timer' \in [Blocks -> BOOLEAN]
    BY <2>1, <2>2, Zenon
  <2> QED
    BY <1>7, <2>3, <2>4, Zenon
<1> HIDE DEF t
<1>12. /\ k \in 1 .. Len(t) /\ Len(t) = Len(s) + 1 /\ t[k] = p
       /\ \A i \in 1 .. Len(s) : (i < k => t[i] = s[i]) /\ (i >= k => t[i + 1] = s[i])
  BY <1>7 DEF Inserted
<1>13. \A j \in 1 .. Len(t) : t[j] = p \/ \E i \in 1 .. Len(s) : t[j] = s[i]
  <2> HIDE DEF k, s
  <2>1. \A j \in 1 .. Len(t) :
          \/ j = k /\ t[j] = p
          \/ j < k /\ j \in 1 .. Len(s) /\ t[j] = s[j]
          \/ j > k /\ j - 1 \in 1 .. Len(s) /\ t[j] = s[j - 1]
    BY <1>6, <1>7, InsertedPlaces
  <2> QED
    BY <2>1
<1>14. addr[b] = NONE => Len(s) = 0
  BY <1>6 DEF Linked
<1>15. t # << >> /\ t \in Seq(Packets)
  BY <1>6, <1>7, <1>12
<1>16. CsmaTypes'
  <2>1. /\ packets' \in Nat /\ metadata' \in Nat /\ bufs' \in Nat /\ others' \in Nat
        /\ packets' <= QueuebufNum /\ bufs' + others' <= QueuebufNum
    BY <1>1, CsmaAssumption DEF GotBuf, GotMetadata, GotPacket, BufFree, CsmaTypes
  <2>2. Len(s) + 1 <= PerNeighbor
    BY <1>6, CsmaAssumption DEF Full
  <2>3. \A c \in Blocks : Len(queue'[c]) <= PerNeighbor
    BY <1>8, <1>12, <2>2 DEF CsmaTypes
  <2> QED
    BY <1>1, <1>2, <1>8, <1>9, <1>10, <1>11, <2>1, <2>3 DEF CsmaTypes
<1>17. Distinct(queue') /\ \A e : In(queue', e) <=> In(queue, e) \/ e = p
  <2>1. Inserted(queue'[b], k, p, queue[b])
    BY <1>7, <1>8
  <2>2. queue \in Queues /\ queue' \in Queues /\ \A c \in Blocks \ {b} : queue'[c] = queue[c]
    BY <1>6, <1>8
  <2>3. ~In(queue, p)
    BY <1>4
  <2> HIDE DEF k
  <2> QED
    <3>1. Distinct(queue)
      OBVIOUS
    <3> HIDE DEF CsmaInv
    <3>2. Distinct(queue')
      BY <2>1, <2>2, <2>3, <3>1, DistinctInsert
    <3>3. Adds(queue, queue', p)
      BY <2>1, <2>2, <2>3, <3>1, DistinctInsert
    <3> QED
      BY <3>2, <3>3, Zenon DEF Adds
<1>18. Addressed'
  <2> SUFFICES ASSUME NEW c \in Blocks, NEW i \in 1 .. Len(queue'[c])
               PROVE  /\ to'[queue'[c][i]] = addr'[c]
                      /\ answer[queue'[c][i]] = << >> /\ queue'[c][i] \notin acked
    BY <1>1 DEF Addressed
  <2>1. CASE c # b
    BY <1>2, <1>4, <1>8, <1>9, <2>1 DEF Addressed
  <2>2. CASE c = b /\ queue'[c][i] = p
    BY <1>2, <1>3, <1>9, <2>2
  <2>3. CASE c = b /\ queue'[c][i] # p
    <3>1. PICK j \in 1 .. Len(s) : queue'[c][i] = s[j]
      BY <1>8, <1>13, <2>3
    <3>2. addr[b] = a
      BY <1>6, <1>14, <3>1
    <3> QED
      BY <1>2, <1>4, <1>9, <2>3, <3>1, <3>2 DEF Addressed
  <2> QED
    BY <2>1, <2>2, <2>3
<1>19. Unsent'
  BY <1>1, <1>2, <1>5 DEF Unsent
<1>20. Linked'
  <2> SUFFICES ASSUME NEW c \in Blocks
               PROVE  /\ addr'[c] # NONE <=> queue'[c] # << >>
                      /\ addr'[c] # NONE <=> timer'[c]
    BY <1>1 DEF Linked
  <2>1. CASE c # b
    BY <1>8, <1>9, <1>11, <2>1 DEF Linked
  <2>2. CASE c = b
    <3>1. timer'[b]
      <4>1. CASE addr[b] = NONE
        BY <1>11, <1>12, <1>14, <4>1
      <4>2. CASE addr[b] # NONE
        BY <1>11, <4>2 DEF Linked
      <4> QED
        BY <4>1, <4>2
    <3> QED
      BY <1>5, <1>8, <1>9, <1>15, <2>2, <3>1
  <2> QED
    BY <2>1, <2>2
<1>21. Walk'
  <2> SUFFICES ASSUME pc = "callback", next # NONE
               PROVE  Reached(queue', n, next)
    BY <1>1 DEF Walk
  <2>1. n \in Blocks /\ Reached(queue, n, next)
    BY DEF Walk
  <2>2. PICK i \in 1 .. Len(queue[n]) :
          queue[n][i] = next /\ \A j \in 1 .. i - 1 : queue[n][j] \in Acks
    BY <2>1 DEF Reached
  <2>3. CASE n # b
    BY <1>8, <2>1, <2>3 DEF Reached
  <2>4. CASE n = b /\ p \notin Acks
    <3>1. i \in 1 .. Len(t) /\ \A j \in 1 .. i : j < k /\ j \in 1 .. Len(s)
      BY <1>6, <1>12, <2>2, <2>4
    <3>2. \A j \in 1 .. i : t[j] = s[j]
      BY <1>12, <3>1
    <3>3. \A j \in 1 .. i - 1 : j \in 1 .. i
      BY <1>6
    <3>4. i \in 1 .. i
      BY <1>6
    <3> QED
      BY <1>8, <2>2, <2>4, <3>1, <3>2, <3>3, <3>4 DEF Reached
  <2>5. CASE n = b /\ p \in Acks
    <3>1. k = 1 /\ i + 1 \in 1 .. Len(t) /\ i >= 1
      BY <1>6, <1>12, <2>2, <2>5
    <3>2. t[i + 1] = next
      BY <1>12, <2>2, <2>5, <3>1
    <3>3. ASSUME NEW j \in 1 .. (i + 1) - 1
          PROVE  t[j] \in Acks
      <4>1. CASE j = 1
        BY <1>12, <2>5, <3>1, <4>1
      <4>2. CASE j # 1
        <5>1. j - 1 \in 1 .. i - 1 /\ j - 1 \in 1 .. Len(s) /\ j - 1 >= 1 /\ (j - 1) + 1 = j
          BY <1>6, <2>2, <2>5, <3>3, <4>2
        <5> QED
          BY <1>12, <2>2, <2>5, <3>1, <5>1
      <4> QED
        BY <4>1, <4>2
    <3> QED
      BY <1>8, <2>5, <3>1, <3>2, <3>3 DEF Reached
  <2> QED
    BY <2>3, <2>4, <2>5
<1>22. Counts'
  <2> SUFFICES ASSUME NEW c \in Blocks, addr'[c] # NONE, NoAcksTo(addr[c])'
               PROVE  /\ noacks[queue'[c][1]] = transmissions'[c]
                      /\ transmissions'[c] < MaxTx[queue'[c][1]]
                      /\ \A i \in 2 .. Len(queue'[c]) : noacks[queue'[c][i]] = 0
    BY <1>1 DEF Counts
  <2>1. CASE c # b
    <3>1. addr'[c] = addr[c] /\ addr[c] \in Addrs
      BY <1>9, <2>1 DEF CsmaTypes
    <3>2. NoAcksTo(addr[c])
      BY <1>2, <3>1 DEF NoAcksTo
    <3> QED
      BY <1>8, <1>10, <2>1, <3>1, <3>2 DEF Counts
  <2>2. CASE c = b
    <3>1. p \notin Acks /\ k = Len(s) + 1 /\ NoAcksTo(a)
      BY <1>2, <1>9, <2>2 DEF NoAcksTo
    <3>2. CASE addr[b] = NONE
      <4>1. Len(t) = 1 /\ t[1] = p /\ transmissions'[b] = 0 /\ MaxTx[p] > 0
        BY <1>10, <1>12, <1>14, <3>1, <3>2, CsmaAssumption
      <4> QED
        BY <1>3, <1>8, <2>2, <4>1
    <3>3. CASE addr[b] # NONE
      <4>1. addr[b] = a /\ transmissions'[b] = transmissions[b] /\ Len(s) >= 1
        BY <1>6, <1>10, <3>3 DEF Linked
      <4>2. /\ noacks[s[1]] = transmissions[b] /\ transmissions[b] < MaxTx[s[1]]
            /\ \A i \in 2 .. Len(s) : noacks[s[i]] = 0
        BY <3>1, <4>1, <3>3 DEF Counts
      <4>3. t[1] = s[1] /\ \A i \in 2 .. Len(s) : t[i] = s[i]
        BY <1>6, <1>12, <3>1, <4>1
      <4>4. \A i \in 2 .. Len(t) : i \in 2 .. Len(s) \/ i = k
        BY <1>6, <1>12, <3>1
      <4>5. \A i \in 2 .. Len(t) : noacks[t[i]] = 0
        BY <1>3, <1>12, <4>2, <4>3, <4>4
      <4> QED
        BY <1>8, <2>2, <4>1, <4>2, <4>3, <4>5
    <3> QED
      BY <3>2, <3>3
  <2> QED
    BY <2>1, <2>2
<1>23. AnswerTrue'
  <2> SUFFICES ASSUME NEW q \in Packets
               PROVE  /\ Len(answer'[q]) <= 1
                      /\ answer'[q] = << "OK" >> <=> q \in acked'
                      /\ answer'[q] # << >> => to'[q] # NONE
                      /\ NoAcksTo(to[q])' =>
                           /\ noacks'[q] <= MaxTx[q] /\ answer'[q] # << "COLLISION" >>
                           /\ answer'[q] = << "NOACK" >> => noacks'[q] = MaxTx[q]
    BY DEF AnswerTrue, NoAcksTo
  <2>1. CASE q = p
    <3>1. /\ Len(<< >>) <= 1 /\ << >> # << "OK" >> /\ << >> # << "NOACK" >>
          /\ << >> # << "COLLISION" >> /\ 0 <= MaxTx[p]
      BY CsmaAssumption
    <3> QED
      BY <1>1, <1>3, <2>1, <3>1
  <2>2. CASE q # p
    BY <1>1, <2>2, AnswerKept
  <2> QED
    BY <2>1, <2>2
<1>24. Pools'
  <2>1. \A e : e \in Queued' <=> In(queue', e)
    <3>1. Queued' = UNION {Range(queue'[c]) : c \in Blocks}
      BY DEF Queued, Holds
    <3> QED
      BY <1>8, <3>1, QueuedFacts
  <2>2. \A e : e \in Queued <=> In(queue, e)
    BY <1>6, QueuedFacts DEF Queued, Holds
  <2>3. Queued' = Queued \cup {p} /\ p \notin Queued
    BY <1>4, <1>17, <2>1, <2>2
  <2>4. IsFiniteSet(Queued) /\ packets = Cardinality(Queued) /\ metadata = packets /\ bufs = packets
    BY DEF Pools
  <2>5. IsFiniteSet(Queued') /\ Cardinality(Queued') = Cardinality(Queued) + 1
    BY <2>3, <2>4, FS_AddElement
  <2> QED
    BY <1>1, <2>4, <2>5 DEF Pools
<1>25. Distinct(queue)'
  BY <1>17 DEF Distinct
<1> QED
  BY <1>16, <1>18, <1>19, <1>20, <1>21, <1>22, <1>23, <1>24, <1>25

(* The transmit timer fires: the first packet of the neighbour is sent. *)
LEMMA TransmitInv ==
  ASSUME CsmaInv, NEW b \in Blocks, transmit_packet_list(b)
  PROVE  CsmaInv'
<1> USE DEF CsmaInv
<1>1. /\ addr' = addr /\ queue' = queue /\ transmissions' = transmissions
      /\ packets' = packets /\ metadata' = metadata /\ bufs' = bufs /\ others' = others
      /\ to' = to /\ answer' = answer /\ acked' = acked /\ noacks' = noacks
      /\ pc = "idle" /\ timer[b]
  BY DEF transmit_packet_list, poolVars, history
<1>2. /\ timer' \in [Blocks -> BOOLEAN] /\ \A c \in Blocks \ {b} : timer'[c] = timer[c]
  BY DEF transmit_packet_list, CsmaTypes
<1>3. queue[b] \in Seq(Packets) /\ queue[b] # << >>
  BY <1>1 DEF CsmaTypes, Queues, Linked
<1>4. Head(queue[b]) = queue[b][1] /\ 1 \in 1 .. Len(queue[b]) /\ Len(queue[b]) \in Nat
  BY <1>3
<1>5. Place(b, queue[b][1]) = 1
  BY <1>4, PlaceFacts
<1>6. /\ pc' = "send" /\ n' = b /\ cur' = queue[b][1]
      /\ next' = IF 1 = Len(queue[b]) THEN NONE ELSE queue[b][2]
  <2>1. Sending(b, Head(queue[b]))
    BY <1>3 DEF transmit_packet_list
  <2>2. 1 + 1 = 2
    OBVIOUS
  <2> QED
    BY <1>4, <1>5, <2>1, <2>2 DEF Sending
<1>7. cur' \in Packets \cup {NONE} /\ next' \in Packets \cup {NONE}
  <2>1. 1 # Len(queue[b]) => 2 \in 1 .. Len(queue[b])
    <3>1. \A N \in Nat : 1 \in 1 .. N /\ 1 # N => 2 \in 1 .. N
      OBVIOUS
    <3> QED
      BY <1>4, <3>1, Zenon
  <2>2. queue[b][1] \in Packets /\ (1 # Len(queue[b]) => queue[b][2] \in Packets)
    BY <1>3, <1>4, <2>1, ElementOfSeq
  <2> QED
    BY <1>6, <2>2
<1>8. CsmaTypes'
  BY <1>1, <1>2, <1>6, <1>7 DEF CsmaTypes, Queues
<1>9. Distinct(queue)' /\ Addressed' /\ Unsent' /\ Counts' /\ AnswerTrue' /\ Pools'
  <2>1. Distinct(queue)' /\ Addressed' /\ Unsent'
    BY <1>1 DEF Distinct, Addressed, Unsent
  <2>2. Counts'
    BY <1>1 DEF Counts, NoAcksTo
  <2>3. AnswerTrue'
    BY <1>1 DEF AnswerTrue
  <2>4. Pools'
    BY <1>1 DEF Pools, Queued, Holds
  <2> QED
    BY <2>1, <2>2, <2>3, <2>4
<1>10. Linked'
  BY <1>1, <1>2, <1>6 DEF Linked
<1>11. Walk'
  <2>1. \A j \in 1 .. 1 - 1 : queue[b][j] \in Acks
    OBVIOUS
  <2>2. 1 + 1 = 2
    OBVIOUS
  <2> QED
    BY <1>1, <1>4, <1>6, <2>1, <2>2 DEF Walk
<1> QED
  BY <1>8, <1>9, <1>10, <1>11

(* send_list goes on to the packet it remembered, or is done. *)
LEMMA SendListInv ==
  ASSUME CsmaInv, send_list
  PROVE  CsmaInv'
<1> USE DEF CsmaInv
<1>1. /\ addr' = addr /\ queue' = queue /\ transmissions' = transmissions /\ timer' = timer
      /\ packets' = packets /\ metadata' = metadata /\ bufs' = bufs /\ others' = others
      /\ to' = to /\ answer' = answer /\ acked' = acked /\ noacks' = noacks
      /\ pc = "callback"
  BY DEF send_list, nbrVars, poolVars, history
<1>2. Distinct(queue)' /\ Addressed' /\ Unsent' /\ Counts' /\ AnswerTrue' /\ Pools'
  <2>1. Distinct(queue)' /\ Addressed' /\ Unsent'
    BY <1>1 DEF Distinct, Addressed, Unsent
  <2>2. Counts'
    BY <1>1 DEF Counts, NoAcksTo
  <2>3. AnswerTrue'
    BY <1>1 DEF AnswerTrue
  <2>4. Pools'
    BY <1>1 DEF Pools, Queued, Holds
  <2> QED
    BY <2>1, <2>2, <2>3, <2>4
<1>3. CASE next = NONE
  <2>1. pc' = "idle" /\ n' = n /\ cur' = cur /\ next' = next
    BY <1>3 DEF send_list
  <2>2. CsmaTypes'
    BY <1>1, <2>1 DEF CsmaTypes, Queues
  <2>3. Linked' /\ Walk'
    BY <1>1, <2>1 DEF Linked, Walk
  <2> QED
    BY <1>2, <2>2, <2>3
<1>4. CASE next # NONE
  <2>1. n \in Blocks /\ Reached(queue, n, next)
    BY <1>1, <1>4 DEF Walk
  <2>2. PICK i \in 1 .. Len(queue[n]) :
          queue[n][i] = next /\ \A j \in 1 .. i - 1 : queue[n][j] \in Acks
    BY <2>1 DEF Reached
  <2>3. Place(n, next) = i
    BY <2>1, <2>2, PlaceFacts
  <2>4. /\ pc' = "send" /\ n' = n /\ cur' = next
        /\ next' = IF i = Len(queue[n]) THEN NONE ELSE queue[n][i + 1]
    BY <1>4, <2>3 DEF send_list, Sending
  <2>5. next' \in Packets \cup {NONE}
    <3>1. queue[n] \in Seq(Packets) /\ Len(queue[n]) \in Nat
      BY <2>1 DEF CsmaTypes, Queues
    <3>2. i # Len(queue[n]) => i + 1 \in 1 .. Len(queue[n])
      BY <3>1
    <3> QED
      BY <2>4, <3>1, <3>2
  <2>6. CsmaTypes'
    BY <1>1, <2>4, <2>5 DEF CsmaTypes, Queues
  <2>7. Linked'
    BY <1>1, <2>4 DEF Linked
  <2>8. Walk'
    BY <1>1, <2>1, <2>2, <2>4 DEF Walk
  <2> QED
    BY <1>2, <2>6, <2>7, <2>8
<1> QED
  BY <1>3, <1>4

(* Other modules take and free queuebufs. *)
LEMMA OthersInv ==
  ASSUME CsmaInv, Others
  PROVE  CsmaInv'
<1> USE DEF CsmaInv
<1>1. /\ addr' = addr /\ queue' = queue /\ transmissions' = transmissions /\ timer' = timer
      /\ packets' = packets /\ metadata' = metadata /\ bufs' = bufs
      /\ to' = to /\ answer' = answer /\ acked' = acked /\ noacks' = noacks
      /\ pc' = pc /\ n' = n /\ cur' = cur /\ next' = next
  BY DEF Others, nbrVars, poolVars, history, listVars
<1>2. others' \in Nat /\ bufs' + others' <= QueuebufNum
  BY <1>1, CsmaAssumption DEF Others, OthersTake, OthersFree, BufFree, CsmaTypes
<1>3. CsmaTypes'
  BY <1>1, <1>2 DEF CsmaTypes, Queues
<1>4. Distinct(queue)' /\ Addressed' /\ Unsent' /\ Linked' /\ Walk'
  BY <1>1 DEF Distinct, Addressed, Unsent, Linked, Walk, Reached
<1>5. Counts' /\ AnswerTrue'
  BY <1>1 DEF Counts, NoAcksTo, AnswerTrue
<1>6. Pools'
  BY <1>1 DEF Pools, Queued, Holds
<1> QED
  BY <1>3, <1>4, <1>5, <1>6

-------------------------------------------------------------------------------
(* packet_sent finds the packet that was sent. *)
LEMMA FoundFacts ==
  ASSUME CsmaInv, pc = "send"
  PROVE  /\ n \in Blocks /\ cur \in Packets /\ Found = cur /\ to[cur] = addr[n] /\ addr[n] \in Addrs
         /\ answer[cur] = << >> /\ cur \notin acked
         /\ \E i \in 1 .. Len(queue[n]) :
              /\ queue[n][i] = cur /\ \A j \in 1 .. i - 1 : queue[n][j] \in Acks
              /\ next = IF i = Len(queue[n]) THEN NONE ELSE queue[n][i + 1]
         /\ \A b \in Blocks : \A i \in 1 .. Len(queue[b]) :
              queue[b][i] = cur => b = n /\ (NoAcksTo(addr[n]) => i = 1)
<1> USE DEF CsmaInv
<1>1. n \in Blocks
  BY DEF Walk
<1>2. PICK i \in 1 .. Len(queue[n]) :
        /\ queue[n][i] = cur /\ \A j \in 1 .. i - 1 : queue[n][j] \in Acks
        /\ next = IF i = Len(queue[n]) THEN NONE ELSE queue[n][i + 1]
  BY DEF Walk
<1>3. cur \in Packets /\ to[cur] # NONE
  BY <1>1, <1>2, InFacts
<1>4. to[cur] = addr[n] /\ answer[cur] = << >> /\ cur \notin acked
  BY <1>1, <1>2 DEF Addressed
<1>5. addr[n] \in Addrs
  BY <1>1, <1>3, <1>4 DEF CsmaTypes
<1>6. Found = cur
  BY <1>2 DEF Found, Contains
<1>7. \A b \in Blocks : \A j \in 1 .. Len(queue[b]) : queue[b][j] = cur => b = n /\ j = i
  BY <1>1, <1>2 DEF Distinct
<1>8. NoAcksTo(addr[n]) => i = 1
  BY <1>1, <1>2, FirstIsSent
<1> QED
  BY <1>1, <1>2, <1>3, <1>4, <1>5, <1>6, <1>7, <1>8

(* The count of what was sent in vain *)
LEMMA NoacksFacts ==
  ASSUME CsmaTypes, cur \in Packets, NEW r,
         noacks' = [noacks EXCEPT ![cur] = IF r = "NOACK" /\ @ <= MaxTx[cur] THEN @ + 1 ELSE @]
  PROVE  /\ noacks' \in [Packets -> Nat]
         /\ \A q \in Packets \ {cur} : noacks'[q] = noacks[q]
         /\ noacks[cur] \in Nat /\ MaxTx[cur] \in Nat
         /\ r # "NOACK" => noacks'[cur] = noacks[cur]
         /\ r = "NOACK" /\ noacks[cur] <= MaxTx[cur] => noacks'[cur] = noacks[cur] + 1
<1>1. noacks \in [Packets -> Nat] /\ noacks[cur] \in Nat /\ MaxTx[cur] \in Nat
  BY CsmaAssumption DEF CsmaTypes
<1> DEFINE v == IF r = "NOACK" /\ noacks[cur] <= MaxTx[cur] THEN noacks[cur] + 1 ELSE noacks[cur]
<1>2. v \in Nat /\ noacks' = [noacks EXCEPT ![cur] = v]
  BY <1>1
<1>3. noacks' \in [Packets -> Nat] /\ noacks'[cur] = v /\ \A q \in Packets \ {cur} : noacks'[q] = noacks[q]
  <2> HIDE DEF v
  <2> QED
    BY <1>1, <1>2
<1> QED
  BY <1>1, <1>3

(* The packet stays and will be sent again. *)
LEMMA RetryInv ==
  ASSUME CsmaInv, NEW r \in Statuses, send_one_packet(r), NEW tx,
         tx = IF Counted(r) THEN transmissions[n] + 1 ELSE transmissions[n],
         Retried(r), MayRetry(cur, tx), Retry(tx)
  PROVE  CsmaInv'
<1> USE DEF CsmaInv
<1>1. /\ addr' = addr /\ queue' = queue /\ others' = others /\ packets' = packets
      /\ metadata' = metadata /\ bufs' = bufs /\ to' = to /\ answer' = answer
      /\ pc = "send" /\ pc' = "callback" /\ n' = n /\ cur' = cur
      /\ next' = NONE /\ acked' = acked
  <2>1. r # "OK"
    BY DEF Retried
  <2> QED
    BY <2>1 DEF send_one_packet, Retry, poolVars, GoOn
<1>2. /\ n \in Blocks /\ cur \in Packets /\ to[cur] = addr[n] /\ addr[n] \in Addrs
      /\ answer[cur] = << >>
      /\ \A b \in Blocks : \A i \in 1 .. Len(queue[b]) :
           queue[b][i] = cur => b = n /\ (NoAcksTo(addr[n]) => i = 1)
  BY <1>1, FoundFacts
<1>3. PICK i \in 1 .. Len(queue[n]) : queue[n][i] = cur
  BY <1>1, FoundFacts
<1>4. /\ noacks' \in [Packets -> Nat] /\ \A q \in Packets \ {cur} : noacks'[q] = noacks[q]
  BY <1>2, NoacksFacts DEF send_one_packet
<1>5. /\ noacks[cur] \in Nat /\ MaxTx[cur] \in Nat
      /\ r # "NOACK" => noacks'[cur] = noacks[cur]
      /\ r = "NOACK" /\ noacks[cur] <= MaxTx[cur] => noacks'[cur] = noacks[cur] + 1
  BY <1>2, NoacksFacts DEF send_one_packet
<1>6. /\ transmissions[n] \in Nat /\ tx \in Nat
      /\ r = "NOACK" => tx = transmissions[n] + 1
      /\ r # "NOACK" => tx = transmissions[n]
  <2>1. r \in {"COLLISION", "NOACK"}
    BY DEF Retried
  <2> QED
    BY <1>2, <2>1 DEF CsmaTypes, Counted
<1>7. /\ transmissions' \in [Blocks -> Nat] /\ transmissions'[n] = tx
      /\ \A b \in Blocks \ {n} : transmissions'[b] = transmissions[b]
  BY <1>2, <1>6 DEF Retry, CsmaTypes
<1>8. /\ timer' \in [Blocks -> BOOLEAN] /\ timer'[n] = TRUE
      /\ \A b \in Blocks \ {n} : timer'[b] = timer[b]
  BY <1>2 DEF Retry, CsmaTypes
<1>9. addr[n] # NONE
  BY <1>2, CsmaAssumption
<1>10. ASSUME NoAcksTo(addr[n])
       PROVE  noacks'[cur] = tx /\ tx < MaxTx[cur] /\ queue[n][1] = cur
  <2>1. queue[n][1] = cur
    BY <1>2, <1>3, <1>10
  <2>2. noacks[cur] = transmissions[n] /\ transmissions[n] < MaxTx[cur]
    BY <1>2, <1>9, <1>10, <2>1 DEF Counts
  <2> QED
    BY <1>5, <1>6, <2>1, <2>2 DEF MayRetry
<1>11. CsmaTypes'
  BY <1>1, <1>4, <1>7, <1>8 DEF CsmaTypes, Queues
<1>12. Distinct(queue)' /\ Addressed' /\ Walk'
  BY <1>1, <1>2 DEF Distinct, Addressed, Walk
<1>13. Unsent'
  BY <1>1, <1>2, <1>4, <1>9 DEF Unsent
<1>14. Linked'
  <2> SUFFICES ASSUME NEW b \in Blocks
               PROVE  (addr[b] # NONE <=> queue[b] # << >>) /\ (addr[b] # NONE <=> timer'[b])
    BY <1>1 DEF Linked
  <2>1. CASE b = n
    BY <1>8, <1>9, <2>1 DEF Linked
  <2>2. CASE b # n
    BY <1>8, <2>2 DEF Linked
  <2> QED
    BY <2>1, <2>2
<1>15. Counts'
  <2> SUFFICES ASSUME NEW b \in Blocks, addr[b] # NONE, NoAcksTo(addr[b])
               PROVE  /\ noacks'[queue[b][1]] = transmissions'[b]
                      /\ transmissions'[b] < MaxTx[queue[b][1]]
                      /\ \A j \in 2 .. Len(queue[b]) : noacks'[queue[b][j]] = 0
    BY <1>1 DEF Counts, NoAcksTo
  <2>1. /\ noacks[queue[b][1]] = transmissions[b] /\ transmissions[b] < MaxTx[queue[b][1]]
        /\ \A j \in 2 .. Len(queue[b]) : noacks[queue[b][j]] = 0
    BY DEF Counts
  <2>2. Len(queue[b]) \in Nat /\ Len(queue[b]) >= 1 /\ 1 \in 1 .. Len(queue[b])
    <3>1. queue[b] \in Seq(Packets) /\ queue[b] # << >>
      BY DEF CsmaTypes, Queues, Linked
    <3> QED
      BY <3>1
  <2>3. \A j \in 1 .. Len(queue[b]) : queue[b][j] \in Packets
    BY InFacts
  <2>4. \A j \in 2 .. Len(queue[b]) : j \in 1 .. Len(queue[b]) /\ j # 1
    BY <2>2
  <2>5. CASE b = n
    <3>1. \A j \in 2 .. Len(queue[b]) : queue[b][j] \in Packets \ {cur}
      BY <1>2, <2>3, <2>4, <2>5
    <3> QED
      BY <1>4, <1>7, <1>10, <2>1, <2>5, <3>1
  <2>6. CASE b # n
    <3>1. \A j \in 1 .. Len(queue[b]) : queue[b][j] \in Packets \ {cur}
      BY <1>2, <2>3, <2>6
    <3> QED
      BY <1>4, <1>7, <2>1, <2>2, <2>4, <2>6, <3>1
  <2> QED
    BY <2>5, <2>6
<1>16. AnswerTrue'
  <2> SUFFICES ASSUME NEW q \in Packets, NoAcksTo(to[q])
               PROVE  noacks'[q] <= MaxTx[q] /\ (answer[q] = << "NOACK" >> => noacks'[q] = MaxTx[q])
    BY <1>1 DEF AnswerTrue, NoAcksTo
  <2>1. CASE q # cur
    BY <1>4, <2>1 DEF AnswerTrue, NoAcksTo
  <2>2. CASE q = cur
    <3>1. noacks'[cur] <= MaxTx[cur]
      BY <1>2, <1>5, <1>6, <1>10, <2>2
    <3>2. answer[cur] # << "NOACK" >>
      BY <1>2
    <3> QED
      BY <2>2, <3>1, <3>2
  <2> QED
    BY <2>1, <2>2
<1>17. Pools'
  BY <1>1 DEF Pools, Queued, Holds
<1> QED
  BY <1>11, <1>12, <1>13, <1>14, <1>15, <1>16, <1>17

(* free_packet and the callback *)
LEMMA FinishInv ==
  ASSUME CsmaInv, NEW r \in Statuses, send_one_packet(r), NEW tx,
         tx = IF Counted(r) THEN transmissions[n] + 1 ELSE transmissions[n],
         ~(Retried(r) /\ MayRetry(cur, tx)), Finish(cur, r)
  PROVE  CsmaInv'
<1> USE DEF CsmaInv
<1>1. /\ others' = others /\ packets' = packets - 1 /\ metadata' = metadata - 1
      /\ bufs' = bufs - 1 /\ to' = to
      /\ pc = "send" /\ pc' = "callback" /\ n' = n /\ cur' = cur
      /\ next' = (IF r = "OK" THEN next ELSE NONE)
      /\ acked' = (IF r = "OK" THEN acked \cup {cur} ELSE acked)
  BY DEF send_one_packet, Finish, GoOn
<1>2. /\ n \in Blocks /\ cur \in Packets /\ to[cur] = addr[n] /\ addr[n] \in Addrs
      /\ answer[cur] = << >> /\ cur \notin acked
      /\ \A b \in Blocks : \A j \in 1 .. Len(queue[b]) :
           queue[b][j] = cur => b = n /\ (NoAcksTo(addr[n]) => j = 1)
  BY <1>1, FoundFacts
<1>3. PICK i \in 1 .. Len(queue[n]) :
        /\ queue[n][i] = cur /\ \A j \in 1 .. i - 1 : queue[n][j] \in Acks
        /\ next = IF i = Len(queue[n]) THEN NONE ELSE queue[n][i + 1]
  BY <1>1, FoundFacts
<1> DEFINE s == queue[n]
           t == RemoveAt(s, Place(n, cur))
<1>4. queue \in Queues /\ s \in Seq(Packets) /\ Len(s) \in Nat
  <2>1. queue \in Queues
    BY DEF CsmaTypes
  <2>2. s \in Seq(Packets)
    BY <1>2, <2>1 DEF Queues
  <2> HIDE DEF s
  <2> QED
    BY <2>1, <2>2
<1>5. t \in Seq(Packets) /\ Inserted(s, i, cur, t)
  <2>1. Place(n, cur) = i
    BY <1>2, <1>3, PlaceFacts
  <2>2. RemoveAt(s, i) \in Seq(Packets) /\ Inserted(s, i, s[i], RemoveAt(s, i))
    <3> HIDE DEF s
    <3> QED
      BY <1>3, <1>4, RemoveFacts DEF s
  <2> QED
    BY <1>3, <2>1, <2>2
<1>6. /\ queue' \in Queues /\ queue'[n] = t /\ \A b \in Blocks \ {n} : queue'[b] = queue[b]
  <2>1. queue' = [queue EXCEPT ![n] = t]
    BY DEF Finish
  <2> HIDE DEF t
  <2> QED
    BY <1>2, <1>4, <1>5, <2>1 DEF Queues
<1>7. /\ transmissions' \in [Blocks -> Nat] /\ transmissions'[n] = 0
      /\ \A b \in Blocks \ {n} : transmissions'[b] = transmissions[b]
  BY <1>2 DEF Finish, CsmaTypes
<1>8. /\ timer' \in [Blocks -> BOOLEAN] /\ (timer'[n] <=> t # << >>)
      /\ \A b \in Blocks \ {n} : timer'[b] = timer[b]
  <2> DEFINE new == (t # << >>)
  <2>1. new \in BOOLEAN /\ timer \in [Blocks -> BOOLEAN]
    BY DEF CsmaTypes
  <2>2. timer' = [timer EXCEPT ![n] = new]
    BY DEF Finish, TimerForNext
  <2> HIDE DEF new
  <2>3. timer'[n] = new /\ (\A b \in Blocks \ {n} : timer'[b] = timer[b])
    BY <1>2, <2>1, <2>2, Zenon
  <2>4. timer' \in [Blocks -> BOOLEAN]
    BY <2>1, <2>2, Zenon
  <2> QED
    BY <2>3, <2>4, Zenon DEF new
<1>9. /\ addr' \in [Blocks -> Addrs \cup {NONE}]
      /\ addr'[n] = (IF t = << >> THEN NONE ELSE addr[n])
      /\ \A b \in Blocks \ {n} : addr'[b] = addr[b]
  <2>1. addr' = [addr EXCEPT ![n] = IF t = << >> THEN NONE ELSE addr[n]]
    BY DEF Finish
  <2> HIDE DEF t
  <2> QED
    BY <1>2, <2>1 DEF CsmaTypes
<1>10. /\ answer' \in [Packets -> Seq(Statuses)] /\ answer'[cur] = << r >>
       /\ \A q \in Packets \ {cur} : answer'[q] = answer[q]
  <2>1. answer' = [answer EXCEPT ![cur] = Append(answer[cur], r)]
    BY DEF Finish
  <2>2. Append(answer[cur], r) = << r >> /\ << r >> \in Seq(Statuses)
    BY <1>2
  <2> QED
    BY <1>2, <2>1, <2>2 DEF CsmaTypes
<1>11. /\ noacks' \in [Packets -> Nat] /\ \A q \in Packets \ {cur} : noacks'[q] = noacks[q]
  BY <1>2, NoacksFacts DEF send_one_packet
<1>12. /\ noacks[cur] \in Nat /\ MaxTx[cur] \in Nat
       /\ r # "NOACK" => noacks'[cur] = noacks[cur]
       /\ r = "NOACK" /\ noacks[cur] <= MaxTx[cur] => noacks'[cur] = noacks[cur] + 1
  BY <1>2, NoacksFacts DEF send_one_packet
<1> HIDE DEF t
<1>13. /\ i \in 1 .. Len(s) /\ Len(s) = Len(t) + 1 /\ Len(t) \in Nat /\ s[i] = cur
       /\ \A j \in 1 .. Len(t) : (j < i => s[j] = t[j]) /\ (j >= i => s[j + 1] = t[j])
  BY <1>5 DEF Inserted
<1>14. addr[n] # NONE /\ (t = << >> <=> Len(t) = 0)
  BY <1>2, <1>5, CsmaAssumption
<1>15. /\ Distinct(queue') /\ Drops(queue, queue', cur)
  <2>1. Inserted(queue[n], i, cur, queue'[n])
    BY <1>5, <1>6
  <2>2. Distinct(queue)
    OBVIOUS
  <2> HIDE DEF CsmaInv
  <2> QED
    BY <1>2, <1>4, <1>6, <2>1, <2>2, DistinctRemove
<1>16. \A b \in Blocks : \A j \in 1 .. Len(queue'[b]) :
         queue'[b][j] \in Packets \ {cur} /\ In(queue, queue'[b][j])
  <2> SUFFICES ASSUME NEW b \in Blocks, NEW j \in 1 .. Len(queue'[b])
               PROVE  queue'[b][j] \in Packets \ {cur} /\ In(queue, queue'[b][j])
    OBVIOUS
  <2>1. queue'[b][j] \in Packets
    BY <1>6, ElementOfSeq DEF Queues
  <2>2. In(queue', queue'[b][j])
    BY DEF In
  <2> QED
    BY <1>15, <2>1, <2>2 DEF Drops
<1>17. \A j \in 1 .. Len(t) : \E k \in 1 .. Len(s) : t[j] = s[k]
  <2> SUFFICES ASSUME NEW j \in 1 .. Len(t)
               PROVE  \E k \in 1 .. Len(s) : t[j] = s[k]
    OBVIOUS
  <2>1. j \in 1 .. Len(s) /\ j + 1 \in 1 .. Len(s) /\ (j < i \/ j >= i)
    BY <1>13
  <2> QED
    BY <1>13, <2>1
<1>18. CsmaTypes'
  <2>1. cur \in Queued
    BY <1>2, <1>3, <1>4, QueuedFacts DEF Queued, Holds, In
  <2>2. packets # 0
    BY <2>1, FS_EmptySet DEF Pools
  <2>3. /\ packets' \in Nat /\ metadata' \in Nat /\ bufs' \in Nat /\ others' \in Nat
        /\ packets' <= QueuebufNum /\ bufs' + others' <= QueuebufNum
    <3>1. /\ packets \in Nat /\ others \in Nat /\ packets <= QueuebufNum
          /\ bufs + others <= QueuebufNum
      BY DEF CsmaTypes
    <3>2. metadata = packets /\ bufs = packets
      BY DEF Pools
    <3>3. QueuebufNum \in Nat
      BY CsmaAssumption
    <3> HIDE DEF CsmaInv
    <3> QED
      BY <1>1, <2>2, <3>1, <3>2, <3>3
  <2>4. \A b \in Blocks : Len(queue'[b]) <= PerNeighbor
    <3>1. Len(s) <= PerNeighbor /\ PerNeighbor \in Nat
      BY <1>2, CsmaAssumption DEF CsmaTypes
    <3>2. Len(t) <= PerNeighbor
      BY <1>13, <3>1
    <3> QED
      BY <1>6, <3>2 DEF CsmaTypes
  <2>5. acked' \in SUBSET Packets /\ next' \in Packets \cup {NONE}
    BY <1>1, <1>2 DEF CsmaTypes
  <2> QED
    BY <1>1, <1>2, <1>6, <1>7, <1>8, <1>9, <1>10, <1>11, <2>3, <2>4, <2>5 DEF CsmaTypes
<1>19. Addressed'
  <2> SUFFICES ASSUME NEW b \in Blocks, NEW j \in 1 .. Len(queue'[b])
               PROVE  /\ to[queue'[b][j]] = addr'[b]
                      /\ answer'[queue'[b][j]] = << >> /\ queue'[b][j] \notin acked'
    BY <1>1 DEF Addressed
  <2>1. queue'[b][j] \in Packets \ {cur}
    BY <1>16
  <2>2. to[queue'[b][j]] = addr[b] /\ answer[queue'[b][j]] = << >> /\ queue'[b][j] \notin acked
    BY <1>6, <1>17 DEF Addressed
  <2>3. addr'[b] = addr[b]
    BY <1>6, <1>9, <1>14
  <2> QED
    BY <1>1, <1>10, <2>1, <2>2, <2>3
<1>20. Unsent'
  BY <1>1, <1>2, <1>10, <1>11, <1>14 DEF Unsent
<1>21. Linked'
  <2> SUFFICES ASSUME NEW b \in Blocks
               PROVE  (addr'[b] # NONE <=> queue'[b] # << >>) /\ (addr'[b] # NONE <=> timer'[b])
    BY <1>1 DEF Linked
  <2>1. CASE b = n
    BY <1>6, <1>8, <1>9, <1>14, <2>1
  <2>2. CASE b # n
    BY <1>6, <1>8, <1>9, <2>2 DEF Linked
  <2> QED
    BY <2>1, <2>2
<1>22. Walk'
  <2> SUFFICES ASSUME r = "OK", next # NONE
               PROVE  Reached(queue', n, next)
    BY <1>1, <1>2 DEF Walk
  <2>1. i # Len(s) /\ next = s[i + 1]
    BY <1>3
  <2>2. i \in 1 .. Len(t) /\ \A j \in 1 .. i - 1 : j \in 1 .. Len(t) /\ j < i
    BY <1>13, <2>1
  <2>3. t[i] = next
    BY <1>13, <2>1, <2>2
  <2>4. \A j \in 1 .. i - 1 : t[j] \in Acks
    BY <1>3, <1>13, <2>2
  <2> QED
    BY <1>6, <2>2, <2>3, <2>4 DEF Reached
<1>23. Counts'
  <2> SUFFICES ASSUME NEW b \in Blocks, addr'[b] # NONE, NoAcksTo(addr'[b])
               PROVE  /\ noacks'[queue'[b][1]] = transmissions'[b]
                      /\ transmissions'[b] < MaxTx[queue'[b][1]]
                      /\ \A j \in 2 .. Len(queue'[b]) : noacks'[queue'[b][j]] = 0
    BY <1>1 DEF Counts, NoAcksTo
  <2>0. addr'[b] = addr[b] /\ (b = n => t # << >>)
    BY <1>9
  <2>1. /\ noacks[queue[b][1]] = transmissions[b] /\ transmissions[b] < MaxTx[queue[b][1]]
        /\ \A j \in 2 .. Len(queue[b]) : noacks[queue[b][j]] = 0
    BY <2>0 DEF Counts
  <2>2. CASE b = n
    <3>1. i = 1 /\ Len(t) >= 1
      BY <1>2, <1>3, <1>13, <1>14, <2>0, <2>2
    <3>2. ASSUME NEW j \in 1 .. Len(t)
          PROVE  t[j] \in Packets \ {cur} /\ noacks'[t[j]] = 0
      <4>1. j + 1 \in 2 .. Len(s) /\ j >= i
        BY <1>13, <3>1, <3>2
      <4>2. t[j] = s[j + 1]
        BY <1>13, <3>2, <4>1
      <4>3. noacks[t[j]] = 0
        BY <2>1, <2>2, <4>1, <4>2
      <4>4. t[j] \in Packets \ {cur}
        BY <1>2, <1>6, <1>16, <3>2
      <4> QED
        BY <1>11, <4>3, <4>4
    <3>3. 1 \in 1 .. Len(t) /\ \A j \in 2 .. Len(t) : j \in 1 .. Len(t)
      BY <1>13, <3>1
    <3>4. t[1] \in Packets /\ MaxTx[t[1]] > 0
      BY <3>2, <3>3, CsmaAssumption
    <3> QED
      BY <1>6, <1>7, <2>2, <3>2, <3>3, <3>4
  <2>3. CASE b # n
    <3>1. queue'[b] = queue[b] /\ transmissions'[b] = transmissions[b]
      BY <1>6, <1>7, <2>3
    <3>2. Len(queue[b]) \in Nat /\ 1 \in 1 .. Len(queue[b])
      <4>1. queue[b] \in Seq(Packets) /\ queue[b] # << >>
        BY <2>0 DEF CsmaTypes, Queues, Linked
      <4> QED
        BY <4>1
    <3>3. \A j \in 1 .. Len(queue[b]) : noacks'[queue[b][j]] = noacks[queue[b][j]]
      BY <1>11, <1>16, <3>1
    <3>4. \A j \in 2 .. Len(queue[b]) : j \in 1 .. Len(queue[b])
      BY <3>2
    <3> QED
      BY <2>1, <3>1, <3>2, <3>3, <3>4
  <2> QED
    BY <2>2, <2>3
<1>24. AnswerTrue'
  <2> SUFFICES ASSUME NEW q \in Packets
               PROVE  /\ Len(answer'[q]) <= 1
                      /\ answer'[q] = << "OK" >> <=> q \in acked'
                      /\ answer'[q] # << >> => to[q] # NONE
                      /\ NoAcksTo(to[q]) =>
                           /\ noacks'[q] <= MaxTx[q] /\ answer'[q] # << "COLLISION" >>
                           /\ answer'[q] = << "NOACK" >> => noacks'[q] = MaxTx[q]
    BY <1>1 DEF AnswerTrue, NoAcksTo
  <2>1. CASE q # cur
    <3>1. answer'[q] = answer[q] /\ noacks'[q] = noacks[q] /\ (q \in acked' <=> q \in acked)
      BY <1>1, <1>10, <1>11, <2>1
    <3> QED
      BY <3>1 DEF AnswerTrue, NoAcksTo
  <2>2. CASE q = cur
    <3>1. /\ Len(<< r >>) = 1 /\ << r >> # << >>
          /\ \A x : << r >> = << x >> <=> r = x
      OBVIOUS
    <3>2. r = "OK" <=> cur \in acked'
      BY <1>1, <1>2
    <3>3. ASSUME NoAcksTo(to[cur])
          PROVE  /\ noacks'[cur] <= MaxTx[cur] /\ r # "COLLISION"
                 /\ r = "NOACK" => noacks'[cur] = MaxTx[cur]
      <4>1. i = 1
        BY <1>2, <1>3, <3>3
      <4>2. noacks[cur] = transmissions[n] /\ transmissions[n] < MaxTx[cur]
        BY <1>2, <1>3, <1>14, <3>3, <4>1 DEF Counts
      <4>3. transmissions[n] \in Nat
        BY <1>2 DEF CsmaTypes
      <4>4. r = "COLLISION" => tx = transmissions[n]
        BY DEF Counted
      <4>5. r = "NOACK" => tx = transmissions[n] + 1
        BY DEF Counted
      <4>6. r # "COLLISION"
        BY <4>2, <4>4 DEF Retried, MayRetry
      <4>7. r = "NOACK" => ~(transmissions[n] + 1 < MaxTx[cur])
        BY <4>5 DEF Retried, MayRetry
      <4> QED
        BY <1>12, <4>2, <4>3, <4>6, <4>7
    <3>4. Len(answer'[q]) <= 1
      <4>1. Len(answer'[q]) = 1
        BY <1>10, <2>2, <3>1, Zenon
      <4> QED
        BY <4>1
    <3>5. answer'[q] = << "OK" >> <=> q \in acked'
      BY <1>10, <2>2, <3>1, <3>2
    <3>6. to[q] # NONE
      BY <1>2, <1>14, <2>2
    <3>7. ASSUME NoAcksTo(to[q])
          PROVE  /\ noacks'[q] <= MaxTx[q] /\ answer'[q] # << "COLLISION" >>
                 /\ answer'[q] = << "NOACK" >> => noacks'[q] = MaxTx[q]
      <4>1. /\ noacks'[cur] <= MaxTx[cur] /\ r # "COLLISION"
            /\ r = "NOACK" => noacks'[cur] = MaxTx[cur]
        BY <2>2, <3>3, <3>7
      <4> QED
        BY <1>10, <2>2, <3>1, <4>1
    <3> QED
      BY <3>4, <3>5, <3>6, <3>7
  <2> QED
    BY <2>1, <2>2
<1>25. Pools'
  <2>1. \A e : e \in Queued' <=> In(queue', e)
    <3>1. Queued' = UNION {Range(queue'[c]) : c \in Blocks}
      BY DEF Queued, Holds
    <3> QED
      BY <1>6, <3>1, QueuedFacts
  <2>2. \A e : e \in Queued <=> In(queue, e)
    BY <1>4, QueuedFacts DEF Queued, Holds
  <2>3. Queued' = Queued \ {cur} /\ cur \in Queued
    <3>1. In(queue, cur)
      BY <1>2, <1>3 DEF In
    <3> QED
      BY <1>15, <2>1, <2>2, <3>1 DEF Drops
  <2>4. IsFiniteSet(Queued) /\ packets = Cardinality(Queued) /\ metadata = packets /\ bufs = packets
    BY DEF Pools
  <2>5. IsFiniteSet(Queued') /\ Cardinality(Queued') = Cardinality(Queued) - 1
    BY <2>3, <2>4, FS_RemoveElement
  <2> QED
    BY <1>1, <2>4, <2>5 DEF Pools
<1>26. Distinct(queue)'
  BY <1>15 DEF Distinct
<1> QED
  BY <1>18, <1>19, <1>20, <1>21, <1>22, <1>23, <1>24, <1>25, <1>26

-------------------------------------------------------------------------------
(* At the start there are no neighbours. *)
LEMMA CsmaInit == Init => CsmaInv
<1> SUFFICES ASSUME Init
             PROVE  CsmaInv
  OBVIOUS
<1> USE DEF Init
<1>1. \A b \in Blocks : queue[b] = << >> /\ Len(queue[b]) = 0 /\ addr[b] = NONE /\ ~timer[b]
  OBVIOUS
<1>2. \A p \in Packets : answer[p] = << >> /\ to[p] = NONE /\ noacks[p] = 0
  OBVIOUS
<1>3. CsmaTypes
  <2>1. queue \in Queues
    BY DEF Queues
  <2>2. answer \in [Packets -> Seq(Statuses)]
    OBVIOUS
  <2> QED
    BY <1>1, <2>1, <2>2, CsmaAssumption DEF CsmaTypes
<1>4. \A b \in Blocks : \A i \in 1 .. Len(queue[b]) : FALSE
  BY <1>1
<1>5. Distinct(queue) /\ Addressed
  BY <1>4 DEF Distinct, Addressed
<1>6. Unsent /\ Linked /\ Walk /\ Counts
  BY <1>1, <1>2 DEF Unsent, Linked, Walk, Counts
<1>7. AnswerTrue
  <2>1. << >> # << "OK" >> /\ << >> # << "COLLISION" >> /\ << >> # << "NOACK" >> /\ Len(<< >>) = 0
    OBVIOUS
  <2>2. \A p \in Packets : MaxTx[p] \in Nat /\ 0 <= MaxTx[p]
    BY CsmaAssumption
  <2> SUFFICES ASSUME NEW p \in Packets
               PROVE  /\ Len(answer[p]) <= 1
                      /\ answer[p] = << "OK" >> <=> p \in acked
                      /\ answer[p] # << >> => to[p] # NONE
                      /\ noacks[p] <= MaxTx[p] /\ answer[p] # << "COLLISION" >>
                      /\ answer[p] = << "NOACK" >> => noacks[p] = MaxTx[p]
    BY DEF AnswerTrue
  <2> QED
    BY <1>2, <2>1, <2>2
<1>8. Pools
  <2>1. queue \in Queues
    BY <1>3 DEF CsmaTypes
  <2>2. \A p : p \in Queued <=> In(queue, p)
    BY <2>1, QueuedFacts DEF Queued, Holds
  <2>3. Queued = {}
    BY <1>4, <2>2 DEF In
  <2> QED
    BY <2>3, FS_EmptySet DEF Pools
<1> QED
  BY <1>3, <1>5, <1>6, <1>7, <1>8 DEF CsmaInv

(* Every step keeps the invariant. *)
LEMMA CsmaNext == CsmaInv /\ [Next]_vars => CsmaInv'
<1> SUFFICES ASSUME CsmaInv, [Next]_vars
             PROVE  CsmaInv'
  OBVIOUS
<1>1. ASSUME NEW p \in Packets, NEW a \in Addrs, send_packet(p, a)
      PROVE  CsmaInv'
  <2>1. /\ pc \in {"idle", "callback"} /\ to[p] = NONE /\ to' = [to EXCEPT ![p] = a]
        /\ UNCHANGED <<others, listVars, acked, noacks>>
    BY <1>1 DEF send_packet
  <2> DEFINE b == Entry(a)
  <2>2. \/ Refuse(p) /\ UNCHANGED <<nbrVars, poolVars>>
        \/ b # NONE /\ Refuse(p) /\ GiveBack(b, a)
        \/ b # NONE /\ ~Full(b) /\ GotBuf /\ Accept(b, p, a)
    BY <1>1 DEF send_packet
  <2>3. CASE Refuse(p) /\ UNCHANGED <<nbrVars, poolVars>>
    <3>1. transmissions \in [Blocks -> Nat]
      BY DEF CsmaInv, CsmaTypes
    <3> QED
      BY <2>1, <2>3, <3>1, RefuseInv DEF nbrVars
  <2>5. CASE b # NONE /\ Refuse(p) /\ GiveBack(b, a)
    <3>1. b \in Blocks /\ addr[b] \in {a, NONE}
      BY <2>5, EntryFacts
    <3> HIDE DEF b
    <3>2. /\ UNCHANGED <<addr, queue, timer, poolVars>>
          /\ transmissions' \in [Blocks -> Nat]
          /\ \A c \in Blocks : addr[c] # NONE => transmissions'[c] = transmissions[c]
      BY <2>5, <3>1, GiveBackFacts
    <3> QED
      BY <2>1, <2>5, <3>2, RefuseInv
  <2>4. CASE b # NONE /\ ~Full(b) /\ GotBuf /\ Accept(b, p, a)
    <3>1. b \in Blocks /\ addr[b] \in {a, NONE}
      BY <2>4, EntryFacts
    <3> HIDE DEF b
    <3> QED
      BY <2>1, <2>4, <3>1, AcceptInv
  <2> QED
    BY <2>2, <2>3, <2>4, <2>5
<1>2. ASSUME NEW r \in Statuses, send_one_packet(r)
      PROVE  CsmaInv'
  <2>1. pc = "send" /\ packet_sent(r)
    BY <1>2 DEF send_one_packet
  <2>2. Found = cur /\ cur # NONE
    BY <2>1, FoundFacts, CsmaAssumption
  <2> DEFINE tx == IF Counted(r) THEN transmissions[n] + 1 ELSE transmissions[n]
  <2>3. \/ Retried(r) /\ MayRetry(cur, tx) /\ Retry(tx)
        \/ ~(Retried(r) /\ MayRetry(cur, tx)) /\ Finish(cur, r)
    BY <2>1, <2>2 DEF packet_sent
  <2>4. CASE Retried(r) /\ MayRetry(cur, tx) /\ Retry(tx)
    BY <1>2, <2>4, RetryInv
  <2>5. CASE ~(Retried(r) /\ MayRetry(cur, tx)) /\ Finish(cur, r)
    BY <1>2, <2>5, FinishInv
  <2> QED
    BY <2>3, <2>4, <2>5
<1>3. CASE UNCHANGED vars
  <2>1. UNCHANGED <<addr, queue, transmissions, timer, packets, metadata, bufs, others,
                    pc, n, cur, next, to, answer, acked, noacks>>
    BY <1>3 DEF vars, nbrVars, poolVars, listVars, history
  <2>2. CsmaTypes' /\ Distinct(queue)' /\ Addressed' /\ Unsent' /\ Linked'
    BY <2>1 DEF CsmaInv, CsmaTypes, Distinct, Addressed, Unsent, Linked
  <2>3. Walk' /\ Counts' /\ Pools'
    BY <2>1 DEF CsmaInv, Walk, Counts, NoAcksTo, Pools, Queued, Holds
  <2>4. AnswerTrue'
    BY <2>1 DEF CsmaInv, AnswerTrue
  <2> QED
    BY <2>2, <2>3, <2>4 DEF CsmaInv
<1> QED
  BY <1>1, <1>2, <1>3, TransmitInv, SendListInv, OthersInv DEF Next, Transmit

(* The inductive invariant of csma.c and send_list. *)
THEOREM CsmaInvariant == Spec => []CsmaInv
  BY CsmaInit, CsmaNext, PTL DEF Spec

(* Queues stay within CSMA_MAX_PACKET_PER_NEIGHBOR and the pools within    *)
(* their sizes, whatever other modules take.                               *)
THEOREM CsmaTyped == Spec => []TypeOK
<1>1. CsmaInv => TypeOK
  <2> SUFFICES ASSUME CsmaInv
               PROVE  TypeOK
    OBVIOUS
  <2>1. CsmaTypes
    BY DEF CsmaInv
  <2>2. packets \in 0 .. QueuebufNum /\ metadata \in Nat /\ bufs + others \in 0 .. QueuebufNum
    BY <2>1, CsmaAssumption DEF CsmaTypes
  <2> QED
    BY <2>1, <2>2 DEF TypeOK, CsmaTypes, Queues
<1> QED
  BY <1>1, CsmaInvariant, PTL

(* What send_packet allocates before a pool is found empty goes back,      *)
(* free_packet gives back everything, and no packet is queued twice.       *)
THEOREM NothingLeaks == Spec => []PoolsBalanced
<1>1. CsmaInv => PoolsBalanced
  <2> SUFFICES ASSUME CsmaInv
               PROVE  PoolsBalanced
    OBVIOUS
  <2>1. Pools /\ Distinct(queue) /\ queue \in Queues
    BY DEF CsmaInv, CsmaTypes
  <2>2. \A b \in Blocks : DOMAIN queue[b] = 1 .. Len(queue[b])
    BY <2>1 DEF Queues
  <2>3. ASSUME NEW b \in Blocks, NEW c \in Blocks, NEW i \in DOMAIN queue[b],
               NEW j \in DOMAIN queue[c], queue[b][i] = queue[c][j]
        PROVE  b = c /\ i = j
    BY <2>1, <2>2, <2>3 DEF Distinct
  <2> QED
    BY <2>1, <2>3 DEF PoolsBalanced, Pools
<1> QED
  BY <1>1, CsmaInvariant, PTL

(* A neighbour that has packets has a timer that will send them, and a     *)
(* free block has none.                                                    *)
THEOREM TimerWhenQueued == Spec => []NeverStuck
<1>1. CsmaInv => NeverStuck
  BY DEF CsmaInv, Linked, NeverStuck
<1> QED
  BY <1>1, CsmaInvariant, PTL

(* What send_list remembered over a callback is still queued, and data     *)
(* packets go out in the order they were queued.                           *)
THEOREM SentInOrder == Spec => []InOrder
<1>1. CsmaInv => InOrder
  <2> SUFFICES ASSUME CsmaInv, pc = "send"
               PROVE  /\ cur \in Holds(n) /\ to[cur] = addr[n]
                      /\ cur \notin Acks => Ahead(n, cur) \subseteq Acks
    BY DEF InOrder
  <2>1. n \in Blocks /\ to[cur] = addr[n]
    BY FoundFacts
  <2>2. PICK i \in 1 .. Len(queue[n]) :
          queue[n][i] = cur /\ \A j \in 1 .. i - 1 : queue[n][j] \in Acks
    BY FoundFacts
  <2>3. queue[n] \in Seq(Packets)
    BY <2>1 DEF CsmaInv, CsmaTypes, Queues
  <2>4. DOMAIN queue[n] = 1 .. Len(queue[n]) /\ Len(queue[n]) \in Nat
    BY <2>3
  <2>5. cur \in Holds(n)
    BY <2>2, <2>4 DEF Holds, Range
  <2>6. ASSUME NEW j \in DOMAIN queue[n], \A k \in 1 .. j : queue[n][k] # cur
        PROVE  queue[n][j] \in Acks
    <3>1. i \notin 1 .. j /\ j \in 1 .. Len(queue[n])
      BY <2>2, <2>4, <2>6
    <3>2. j \in 1 .. i - 1
      BY <2>4, <3>1
    <3> QED
      BY <2>2, <3>2
  <2> QED
    BY <2>1, <2>5, <2>6 DEF Ahead
<1> QED
  BY <1>1, CsmaInvariant, PTL

(* A sender is told of its own packet, once and truly. *)
THEOREM ToldTruly == Spec => []AnswerTrue
<1>1. CsmaInv => AnswerTrue
  BY DEF CsmaInv
<1> QED
  BY <1>1, CsmaInvariant, PTL
===============================================================================
