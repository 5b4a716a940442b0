------------------------------ MODULE TcpProofs ------------------------------
(* Proofs about Tcp, for all constants: the types, what the socket knows of   *)
(* its connection, and that the sockets implement ByteStream.                 *)
EXTENDS Tcp, TLAPS, FiniteSetTheorems, SequenceTheorems

-------------------------------------------------------------------------------
(* The inductive invariant.                                                   *)

Numbers == 0 .. (SeqMod - 1)

End(e) ==
  [st : States, snd : Numbers, rcv : Numbers, len : 0 .. Mss, nrtx : 0 .. MaxRtx,
   att : BOOLEAN, poll : BOOLEAN, opens : Nat,
   out : Seq(Bytes(e)), nxt : Nat, closing : BOOLEAN,
   listening : BOOLEAN, port : BOOLEAN,
   wrote : 0 .. MaxBytes[e], got : Seq(Bytes(Other(e))), conf : Nat,
   told : {"none", "connected", "ended"}]

Message(e) ==
  [fl : {{"SYN"}, {"SYN", "ACK"}, {"ACK"}, {"FIN", "ACK"}, {"RST", "ACK"}},
   seq : Numbers, ack : Numbers, data : Seq(Bytes(e))]

\* The number of the byte after the first k that e sends
At(e, k) == (Iss[e] + 1 + k) % SeqMod

\* The output buffer: what was written and not yet reported as sent, of which
\* nxt bytes have been handed to the connection
Buffer(x) ==
  /\ x.nxt <= Len(x.out) /\ Len(x.out) <= BufLen
  /\ x.conf + Len(x.out) = x.wrote
  /\ \A i \in 1 .. Len(x.out) : x.out[i] = x.conf + i

\* The application has not been called yet
Untold(x) == x.told = "none" /\ x.nxt = 0 /\ x.conf = 0 /\ x.got = <<>>

\* An end before its connection, in the handshake, while it is established,
\* and afterwards
Unopened(x) == x.st = "CLOSED" /\ Untold(x) /\ ~x.att /\ ~x.poll /\ x.out = <<>>

Opening(e, x) ==
  /\ Untold(x) /\ x.len = 1 /\ x.snd = Iss[e]
  /\ IF e = Client THEN x.st = "SYN_SENT" /\ x.att
     ELSE /\ x.st = "SYN_RCVD" /\ ~x.att /\ x.out = <<>> /\ x.rcv = At(Other(e), 0)
          /\ x.port \/ UnlistenLate

Flowing(e, x) ==
  /\ IF x.att THEN x.told = "connected" ELSE UnlistenLate /\ x.told = "none" /\ x.nxt = 0
  /\ x.len <= x.nxt
  /\ ~SendWhileBusy => /\ x.nxt = x.len
                       /\ x.len = 0 \/ x.len = Min(Len(x.out), Mss)
                       /\ x.snd = At(e, x.conf)
  /\ ~UnlistenLate => x.rcv = At(Other(e), Len(x.got))

Closing(e, x) ==
  /\ ~x.att
  /\ IF UnlistenLate THEN x.told # "connected" ELSE x.told = "ended"
  /\ IF x.st \in {"FIN_WAIT_2", "TIME_WAIT"} THEN x.len = 0
     ELSE x.len = 1 /\ (~SendWhileBusy => x.snd = At(e, x.conf))

\* Who opened a connection by listening still listens
PortOK(e, x) ==
  IF e = Client THEN ~x.port ELSE x.port \/ UnlistenLate \/ x.opens = 0

EndOK(e, x) ==
  /\ x \in End(e) /\ Buffer(x) /\ PortOK(e, x)
  /\ x.opens = 0 => Unopened(x)
  /\ CASE x.st = "CLOSED" -> x.told # "connected"
       [] x.st \in {"SYN_SENT", "SYN_RCVD"} -> Opening(e, x)
       [] x.st = "ESTABLISHED" -> Flowing(e, x)
       [] OTHER -> Closing(e, x)

\* A segment that e, now x, has sent
SegOK(e, x, s) ==
  /\ s \in Message(e)
  /\ s.fl = {"SYN"} => e = Client
  /\ s.fl = {"SYN", "ACK"} => e # Client
  /\ "SYN" \in s.fl => s.seq = Iss[e]
  /\ s.fl = {"ACK"} \/ s.data = <<>>
  /\ "FIN" \in s.fl /\ ~SendWhileBusy => \E k \in 0 .. x.wrote : s.seq = At(e, k)
  /\ s.data # <<>> /\ ~SendWhileBusy =>
       \E k \in 0 .. x.wrote : /\ s.seq = At(e, k) /\ k + Len(s.data) <= x.wrote
                              /\ \A i \in 1 .. Len(s.data) : s.data[i] = k + i

TcpInv ==
  /\ end = [e \in Ends |-> end[e]] /\ net = [e \in Ends |-> net[e]]
  /\ \A e \in Ends :
       /\ EndOK(e, end[e])
       /\ IsFiniteSet(net[e]) /\ Cardinality(net[e]) <= Cap[e]
       /\ \A s \in net[e] : SegOK(Other(e), end[Other(e)], s)

\* e has the first j bytes of the other end, which is y, or has ended
Taken(e, x, y, a) ==
  \E j \in 0 .. y.wrote + 1 :
    a = At(Other(e), j) /\ (j <= Len(x.got) \/ x.told = "ended")

Opened(x) == x.opens > 0 /\ x.st # "SYN_SENT"

StreamOK(e, x, y) ==
  /\ \A i \in 1 .. Len(x.got) : x.got[i] = i
  /\ Len(x.got) <= y.wrote
  /\ x.st \notin {"CLOSED", "SYN_SENT"} => Taken(e, x, y, x.rcv)
  /\ x.st \notin {"CLOSED", "SYN_SENT", "SYN_RCVD"} => Opened(y)

StreamInv ==
  \A e \in Ends :
    /\ StreamOK(e, end[e], end[Other(e)])
    /\ \A s \in net[e] :
         /\ "ACK" \in s.fl /\ "RST" \notin s.fl =>
              /\ Taken(Other(e), end[Other(e)], end[e], s.ack)
              /\ Opened(end[Other(e)])
         /\ s.data # <<>> \/ "FIN" \in s.fl => Opened(end[e])

-------------------------------------------------------------------------------
(* The two ends and their numbers.                                            *)

LEMMA TwoEnds ==
  ASSUME NEW e \in Ends
  PROVE  /\ Other(e) \in Ends /\ Other(e) # e /\ Other(Other(e)) = e
         /\ \A d \in Ends : d = e \/ d = Other(e)
<1>1. PICK d \in Ends \ {Client} : Ends = {Client, d}
  BY TcpAssumption
<1>2. \E f \in Ends : f # e
  BY <1>1
<1>3. Other(e) \in Ends /\ Other(e) # e
  BY <1>2 DEF Other
<1>4. \E f \in Ends : f # Other(e)
  BY <1>3
<1>5. Other(Other(e)) \in Ends /\ Other(Other(e)) # Other(e)
  BY <1>4 DEF Other
<1> QED
  BY <1>1, <1>3, <1>5

\* The quotient and the remainder are unique.
LEMMA Remainder ==
  ASSUME NEW m \in Nat, m > 0, NEW q \in Int, NEW r \in Int, 0 <= r, r < m
  PROVE  (m * q + r) % m = r
<1> DEFINE x == m * q + r
<1>1. PICK p \in Int, t \in Int : x = m * p + t /\ 0 <= t /\ t < m /\ t = x % m
  <2>1. x \in Int /\ x \div m \in Int /\ x % m \in Int
    OBVIOUS
  <2>2. x = m * (x \div m) + (x % m) /\ 0 <= x % m /\ x % m < m
    BY <2>1
  <2> QED
    BY <2>1, <2>2
<1>2. m * (q - p) = t - r
  BY <1>1
<1>3. q - p >= 1 => m * (q - p) >= m
  OBVIOUS
<1>4. q - p <= -1 => m * (q - p) <= -m
  OBVIOUS
<1> QED
  BY <1>1, <1>2, <1>3, <1>4

LEMMA Numbering ==
  /\ \A x \in Int : x % SeqMod \in Numbers
  /\ \A x \in Numbers : x % SeqMod = x
  /\ \A x, n \in Nat : ((x % SeqMod) + n) % SeqMod = (x + n) % SeqMod
<1>1. SeqMod \in Nat /\ SeqMod > 0
  BY TcpAssumption
<1>2. ASSUME NEW x \in Nat, NEW n \in Nat
      PROVE  ((x % SeqMod) + n) % SeqMod = (x + n) % SeqMod
  <2> DEFINE y == (x % SeqMod) + n
             q == x \div SeqMod
             p == y \div SeqMod
             r == y % SeqMod
  <2>1. x % SeqMod \in Int /\ q \in Int /\ x = SeqMod * q + (x % SeqMod)
    BY <1>1
  <2>2. y \in Int
    BY <2>1
  <2>3. p \in Int /\ r \in Int /\ y = SeqMod * p + r /\ 0 <= r /\ r < SeqMod
    BY <1>1, <2>2
  <2>4. x + n = SeqMod * q + y
    <3> DEFINE t == x % SeqMod
    <3>1. x \in Int /\ n \in Int /\ t \in Int /\ SeqMod * q \in Int /\ x = SeqMod * q + t
      BY <1>1, <2>1
    <3> HIDE DEF q, t
    <3>2. x + n = SeqMod * q + (t + n)
      BY <3>1
    <3> QED
      BY <3>2 DEF t
  <2> HIDE DEF y, q, p
  <2>5. x + n = SeqMod * (q + p) + r
    BY <1>1, <2>1, <2>2, <2>3, <2>4
  <2> HIDE DEF r
  <2>6. (x + n) % SeqMod = r
    BY SMTT(30), <1>1, <2>1, <2>3, <2>5, Remainder
  <2> QED
    BY <2>6 DEF r, y
<1> QED
  BY <1>1, <1>2 DEF Numbers

LEMMA Positions ==
  ASSUME NEW e \in Ends
  PROVE  /\ Iss[e] \in Numbers /\ Add32(Iss[e], 1) = At(e, 0)
         /\ \A k \in Nat : At(e, k) \in Numbers
         /\ \A k, n \in Nat : Add32(At(e, k), n) = At(e, k + n)
         /\ \A a \in Numbers, n \in Nat : Add32(a, n) \in Numbers
<1>1. SeqMod \in Nat /\ SeqMod > 0 /\ Iss[e] \in Nat /\ Iss[e] \in Numbers /\ Numbers \subseteq Nat
  BY TcpAssumption DEF Numbers
<1>2. Add32(Iss[e], 1) = At(e, 0)
  BY <1>1 DEF Add32, At
<1>3. ASSUME NEW k \in Nat
      PROVE  At(e, k) \in Numbers
  BY <1>1, Numbering DEF At
<1>4. ASSUME NEW k \in Nat, NEW n \in Nat
      PROVE  Add32(At(e, k), n) = At(e, k + n)
  <2>1. Iss[e] + 1 + k \in Nat /\ (Iss[e] + 1 + k) + n = Iss[e] + 1 + (k + n)
    BY <1>1
  <2> QED
    BY <2>1, Numbering DEF Add32, At
<1>5. ASSUME NEW a \in Numbers, NEW n \in Nat
      PROVE  Add32(a, n) \in Numbers
  BY <1>1, Numbering DEF Add32
<1> QED
  BY <1>1, <1>2, <1>3, <1>4, <1>5

\* As long as not all numbers are used, two positions have two numbers, and
\* none has that of the SYN.
LEMMA Distinct ==
  ASSUME NEW e \in Ends, NEW j \in Nat, NEW k \in Nat, j < SeqMod, k < SeqMod
  PROVE  /\ At(e, j) = At(e, k) => j = k
         /\ k + 1 < SeqMod => At(e, k) # Iss[e]
<1>1. SeqMod \in Nat /\ SeqMod > 0 /\ Iss[e] \in Nat /\ Iss[e] < SeqMod
  BY TcpAssumption
<1>2. ASSUME NEW i \in Nat, i < SeqMod
      PROVE  At(e, i) = IF Iss[e] + 1 + i < SeqMod THEN Iss[e] + 1 + i ELSE Iss[e] + 1 + i - SeqMod
  BY <1>1, <1>2 DEF At
<1> QED
  BY <1>1, <1>2

-------------------------------------------------------------------------------
(* tcp-socket.c: what the parts of appcall do to an end.                      *)

\* Only the socket's part of the end differs
SameConn(x, z) ==
  /\ z.st = x.st /\ z.snd = x.snd /\ z.rcv = x.rcv /\ z.len = x.len /\ z.nrtx = x.nrtx
  /\ z.poll = x.poll /\ z.opens = x.opens /\ z.port = x.port /\ z.wrote = x.wrote

LEMMA Least ==
  ASSUME NEW a \in Nat, NEW b \in Nat
  PROVE  /\ Min(a, b) \in Nat /\ Min(a, b) <= a /\ Min(a, b) <= b
         /\ Min(a, b) = a \/ Min(a, b) = b
  BY DEF Min

LEMMA AckedFacts ==
  ASSUME NEW e \in Ends, NEW x \in End(e), Buffer(x)
  PROVE  LET z == acked(x) IN
           /\ z \in End(e) /\ Buffer(z) /\ SameConn(x, z)
           /\ z.nxt = 0 /\ z.conf = x.conf + x.nxt
           /\ z.att = x.att /\ z.closing = x.closing /\ z.listening = x.listening
           /\ z.got = x.got /\ z.told = x.told
<1>1. /\ x.out \in Seq(Bytes(e)) /\ Len(x.out) \in Nat /\ x.nxt \in Nat /\ x.conf \in Nat
      /\ BufLen \in Nat /\ x.nxt <= Len(x.out)
  BY TcpAssumption DEF End, Buffer
<1>2. CASE x.out = <<>>
  <2>1. acked(x) = x /\ x.nxt = 0
    BY <1>1, <1>2 DEF acked
  <2> QED
    BY <1>1, <2>1 DEF SameConn
<1>3. CASE x.out # <<>>
  <2> DEFINE t == SubSeq(x.out, x.nxt + 1, Len(x.out))
             w == x.conf + x.nxt
             z == [x EXCEPT !.out = t, !.nxt = 0, !.conf = w]
  <2>1. acked(x) = z
    BY <1>3 DEF acked
  <2>2. t \in Seq(Bytes(e)) /\ Len(t) = Len(x.out) - x.nxt
    BY <1>1
  <2>3. \A i \in 1 .. Len(t) : t[i] = x.out[x.nxt + i]
    BY SMTT(60), <1>1, <2>2
  <2>w. w \in Nat
    BY <1>1
  <2> HIDE DEF t, w
  <2>4. /\ z \in End(e) /\ SameConn(x, z) /\ z.nxt = 0 /\ z.conf = w /\ z.out = t
        /\ z.att = x.att /\ z.closing = x.closing /\ z.listening = x.listening
        /\ z.got = x.got /\ z.told = x.told
    <3>1. z \in End(e)
      BY <2>2, <2>w DEF End
    <3>2. z.nxt = 0 /\ z.conf = w /\ z.out = t
      BY DEF End
    <3>3. /\ z.att = x.att /\ z.closing = x.closing /\ z.listening = x.listening
          /\ z.got = x.got /\ z.told = x.told
      BY DEF End
    <3>4. SameConn(x, z)
      BY DEF End, SameConn
    <3> QED
      BY <3>1, <3>2, <3>3, <3>4
  <2> HIDE DEF z
  <2>5. Buffer(z)
    <3>1. z.wrote = x.wrote
      BY <2>4 DEF SameConn
    <3>2. \A i \in 1 .. Len(t) : t[i] = (x.conf + x.nxt) + i
      <4> SUFFICES ASSUME NEW i \in 1 .. Len(t)
                   PROVE  t[i] = (x.conf + x.nxt) + i
        OBVIOUS
      <4>1. x.nxt + i \in 1 .. Len(x.out)
        BY <1>1, <2>2
      <4>2. x.out[x.nxt + i] = x.conf + (x.nxt + i)
        BY <4>1 DEF Buffer
      <4> QED
        BY <1>1, <2>3, <4>2
    <3> QED
      BY <1>1, <2>2, <2>4, <3>1, <3>2 DEF Buffer, w
  <2> QED
    BY <2>1, <2>4, <2>5 DEF w
<1> QED
  BY <1>2, <1>3

LEMMA NewdataFacts ==
  ASSUME NEW e \in Ends, NEW x \in End(e), Buffer(x), NEW data \in Seq(Bytes(Other(e)))
  PROVE  LET z == newdata(x, data) IN
           /\ z \in End(e) /\ Buffer(z) /\ SameConn(x, z)
           /\ z.got = x.got \o data /\ z.out = x.out /\ z.nxt = x.nxt /\ z.conf = x.conf
           /\ z.att = x.att /\ z.closing = x.closing /\ z.listening = x.listening
           /\ z.told = x.told
<1> DEFINE g == x.got \o data
           z == [x EXCEPT !.got = g]
<1>1. newdata(x, data) = z
  BY DEF newdata
<1>2. g \in Seq(Bytes(Other(e)))
  BY DEF End
<1> HIDE DEF g
<1>3. z \in End(e)
  BY <1>2 DEF End
<1>4. /\ SameConn(x, z) /\ z.got = g /\ z.out = x.out /\ z.nxt = x.nxt /\ z.conf = x.conf
      /\ z.att = x.att /\ z.closing = x.closing /\ z.listening = x.listening
      /\ z.told = x.told
  BY DEF End, SameConn
<1> HIDE DEF z
<1>5. Buffer(z)
  BY <1>4 DEF Buffer, SameConn
<1> QED
  BY <1>1, <1>3, <1>4, <1>5 DEF g

\* What senddata leaves: the first bytes of the buffer are in the packet
Handed(e, x, fl, a) ==
  /\ a = Called(a.x, a.slen, fl) /\ a.fl = fl
  /\ a.x \in End(e) /\ Buffer(a.x) /\ SameConn(x, a.x)
  /\ a.slen = Min(Len(x.out), Mss) /\ a.x.nxt = a.slen /\ a.slen \in 0 .. Mss
  /\ a.x.out = x.out /\ a.x.conf = x.conf /\ a.x.got = x.got
  /\ a.x.att = x.att /\ a.x.closing = x.closing /\ a.x.listening = x.listening
  /\ a.x.told = x.told

LEMMA SenddataFacts ==
  ASSUME NEW e \in Ends, NEW x \in End(e), Buffer(x), NEW fl
  PROVE  Handed(e, x, fl, senddata(x, fl))
<1> DEFINE m == Min(Len(x.out), Mss)
           z == [x EXCEPT !.nxt = m]
<1>1. x.out \in Seq(Bytes(e)) /\ Len(x.out) \in Nat /\ Mss \in Nat /\ x.nxt \in Nat
  BY TcpAssumption DEF End
<1>2. m \in Nat /\ m \in 0 .. Mss /\ m <= Len(x.out)
  BY <1>1 DEF Min
<1>3. x.out = <<>> => m = 0 /\ x.nxt = 0
  BY <1>1, <1>2 DEF Buffer
<1>4. senddata(x, fl) = IF x.out = <<>> THEN Called(x, 0, fl) ELSE Called(z, m, fl)
  BY DEF senddata
<1> HIDE DEF m
<1>5. /\ z \in End(e) /\ SameConn(x, z) /\ z.nxt = m /\ z.out = x.out /\ z.conf = x.conf
      /\ z.got = x.got /\ z.att = x.att /\ z.closing = x.closing
      /\ z.listening = x.listening /\ z.told = x.told
  <2>1. z \in End(e)
    BY <1>2 DEF End
  <2> QED
    BY <2>1 DEF End, SameConn
<1> HIDE DEF z
<1>6. Buffer(z)
  BY <1>2, <1>5 DEF Buffer, SameConn
<1>7. CASE x.out = <<>>
  <2>1. senddata(x, fl) = Called(x, 0, fl) /\ m = 0 /\ x.nxt = 0
    BY <1>3, <1>4, <1>7
  <2> QED
    BY <1>2, <2>1 DEF Handed, Called, SameConn, m
<1>8. CASE x.out # <<>>
  <2>1. senddata(x, fl) = Called(z, m, fl)
    BY <1>4, <1>8
  <2> QED
    BY <1>2, <1>5, <1>6, <2>1 DEF Handed, Called, m
<1> QED
  BY <1>7, <1>8

LEMMA EndedFacts ==
  ASSUME NEW e \in Ends, NEW x \in End(e), Buffer(x)
  PROVE  LET z == Ended(x) IN
           /\ z \in End(e) /\ Buffer(z) /\ SameConn(x, z) /\ z.told = "ended"
           /\ z.out = x.out /\ z.nxt = x.nxt /\ z.conf = x.conf /\ z.got = x.got
           /\ z.att = x.att /\ z.closing = x.closing
<1> DEFINE b == x.listening \/ x.port
           z == [x EXCEPT !.told = "ended", !.listening = b]
<1>1. Ended(x) = z
  BY DEF Ended
<1>2. b \in BOOLEAN
  OBVIOUS
<1> HIDE DEF b
<1>3. z \in End(e)
  BY <1>2 DEF End
<1>4. /\ SameConn(x, z) /\ z.told = "ended" /\ z.out = x.out /\ z.nxt = x.nxt
      /\ z.conf = x.conf /\ z.got = x.got /\ z.att = x.att /\ z.closing = x.closing
  BY DEF End, SameConn
<1> HIDE DEF z
<1>5. Buffer(z)
  BY <1>4 DEF Buffer, SameConn
<1> QED
  BY <1>1, <1>3, <1>4, <1>5

LEMMA CloseFacts ==
  ASSUME NEW e \in Ends, NEW x \in End(e), Buffer(x), NEW slen, NEW fl
  PROVE  LET a == CloseIfDone(Called(x, slen, fl)) IN
           /\ a.slen = slen /\ a.x \in End(e) /\ Buffer(a.x) /\ SameConn(x, a.x)
           /\ a.x.out = x.out /\ a.x.nxt = x.nxt /\ a.x.conf = x.conf /\ a.x.got = x.got
           /\ \/ a.fl = fl /\ "CLOSE" \notin fl /\ a.x.att = x.att /\ a.x.told = x.told
              \/ /\ a.fl = fl \/ (a.fl = {"CLOSE"} /\ x.out = <<>>)
                 /\ "CLOSE" \in a.fl /\ ~a.x.att /\ a.x.told = "ended"
<1> DEFINE c == Called(x, slen, fl)
           closes == x.out = <<>> /\ x.closing
           f == IF closes THEN {"CLOSE"} ELSE fl
           y == IF closes THEN [x EXCEPT !.closing = FALSE] ELSE x
           w == [y EXCEPT !.att = FALSE]
           z == IF "CLOSE" \in f THEN Ended(w) ELSE y
<1>1. CloseIfDone(c) = Called(z, slen, f)
  BY DEF CloseIfDone, Called
<1>2. /\ y \in End(e) /\ SameConn(x, y) /\ y.out = x.out /\ y.nxt = x.nxt /\ y.conf = x.conf
      /\ y.got = x.got /\ y.att = x.att /\ y.told = x.told
  <2>1. CASE closes
    BY <2>1 DEF End, SameConn
  <2>2. CASE ~closes
    BY <2>2 DEF SameConn
  <2> QED
    BY <2>1, <2>2
<1> HIDE DEF y
<1>3. /\ w \in End(e) /\ SameConn(y, w) /\ w.out = y.out /\ w.nxt = y.nxt /\ w.conf = y.conf
      /\ w.got = y.got /\ w.att = FALSE
  BY <1>2 DEF End, SameConn
<1> HIDE DEF w
<1>4. Buffer(y) /\ Buffer(w)
  BY <1>2, <1>3 DEF Buffer, SameConn
<1>5. CASE "CLOSE" \in f
  <2>1. z = Ended(w)
    BY <1>5
  <2>2. /\ z \in End(e) /\ Buffer(z) /\ SameConn(w, z) /\ z.told = "ended"
        /\ z.out = w.out /\ z.nxt = w.nxt /\ z.conf = w.conf /\ z.got = w.got
        /\ z.att = w.att
    BY <1>3, <1>4, <2>1, EndedFacts
  <2> HIDE DEF z
  <2>3. SameConn(x, z)
    BY <1>2, <1>3, <2>2 DEF SameConn
  <2>4. f = fl \/ (f = {"CLOSE"} /\ x.out = <<>>)
    OBVIOUS
  <2> HIDE DEF f
  <2> QED
    BY <1>1, <1>2, <1>3, <1>5, <2>2, <2>3, <2>4 DEF Called
<1>6. CASE "CLOSE" \notin f
  <2>1. z = y /\ f = fl
    BY <1>6
  <2> HIDE DEF z, f
  <2> QED
    BY <1>1, <1>2, <1>4, <1>6, <2>1 DEF Called
<1> QED
  BY <1>5, <1>6

\* The events of the end of a connection.
LEMMA AppcallEnds ==
  ASSUME NEW e \in Ends, NEW x \in End(e), Buffer(x), NEW fl \in {{"ABORT"}, {"TIMEDOUT"}}
  PROVE  LET z == appcall(x, fl, <<>>).x IN
           /\ z \in End(e) /\ Buffer(z) /\ SameConn(x, z)
           /\ z.out = x.out /\ z.nxt = x.nxt /\ z.conf = x.conf /\ z.got = x.got
           /\ IF x.att THEN z.told = "ended" ELSE z = x
<1>1. CASE ~x.att
  <2>1. appcall(x, fl, <<>>) = Called(x, 0, fl)
    BY <1>1 DEF appcall
  <2> QED
    BY <1>1, <2>1 DEF Called, SameConn
<1>2. CASE x.att
  <2> DEFINE y == Ended(x)
             a == CloseIfDone(Called(y, 0, fl))
  <2>1. appcall(x, fl, <<>>) = a
    BY <1>2 DEF appcall
  <2>2. /\ y \in End(e) /\ Buffer(y) /\ SameConn(x, y) /\ y.told = "ended"
        /\ y.out = x.out /\ y.nxt = x.nxt /\ y.conf = x.conf /\ y.got = x.got
    BY EndedFacts
  <2> HIDE DEF y
  <2>4. /\ a.x \in End(e) /\ Buffer(a.x) /\ SameConn(y, a.x)
        /\ a.x.out = y.out /\ a.x.nxt = y.nxt /\ a.x.conf = y.conf /\ a.x.got = y.got
        /\ a.x.told = y.told \/ a.x.told = "ended"
    BY <2>2, CloseFacts
  <2> HIDE DEF a
  <2> QED
    BY <1>2, <2>1, <2>2, <2>4 DEF SameConn
<1> QED
  BY <1>1, <1>2

\* Acknowledgements, data, polls and retransmissions, and the FIN of the other
\* end.  Called for an open connection, the socket reports and takes what
\* there is, and has the bytes to send next ready.
LEMMA AppcallOpen ==
  ASSUME NEW e \in Ends, NEW x \in End(e), Buffer(x), x.att,
         NEW data \in Seq(Bytes(Other(e))),
         NEW fl \in SUBSET {"ACKDATA", "NEWDATA", "CLOSE", "POLL", "REXMIT"},
         "NEWDATA" \in fl \/ data = <<>>
  PROVE  LET a == appcall(x, fl, data) IN
           /\ a.slen \in 0 .. Mss /\ a.x \in End(e) /\ Buffer(a.x) /\ SameConn(x, a.x)
           /\ a.x.got = x.got \o data
           /\ IF "ACKDATA" \in fl THEN a.x.conf = x.conf + x.nxt
              ELSE a.x.conf = x.conf /\ a.x.out = x.out
           /\ fl \cap {"REXMIT", "NEWDATA", "ACKDATA", "POLL"} # {} =>
                a.x.nxt = a.slen /\ a.slen = Min(Len(a.x.out), Mss)
           /\ \/ a.fl = fl /\ "CLOSE" \notin fl /\ a.x.att /\ a.x.told = x.told
              \/ /\ a.fl = fl \/ (a.fl = {"CLOSE"} /\ a.x.out = <<>>)
                 /\ "CLOSE" \in a.fl /\ ~a.x.att /\ a.x.told = "ended"
<1> DEFINE y == IF "ACKDATA" \in fl THEN acked(x) ELSE x
           w == IF "NEWDATA" \in fl THEN newdata(y, data) ELSE y
           sd == fl \cap {"REXMIT", "NEWDATA", "ACKDATA", "POLL"} # {}
           c == IF sd THEN senddata(w, fl) ELSE Called(w, 0, fl)
           a == CloseIfDone(c)
<1>1. appcall(x, fl, data) = a
  BY DEF appcall
<1>2. /\ y \in End(e) /\ Buffer(y) /\ SameConn(x, y) /\ y.got = x.got /\ y.att
      /\ y.told = x.told
      /\ IF "ACKDATA" \in fl THEN y.conf = x.conf + x.nxt ELSE y.conf = x.conf /\ y.out = x.out
  BY AckedFacts DEF SameConn
<1> HIDE DEF y
<1>3. /\ w \in End(e) /\ Buffer(w) /\ SameConn(y, w) /\ w.got = x.got \o data /\ w.att
      /\ w.told = x.told /\ w.conf = y.conf /\ w.out = y.out
  <2>1. CASE "NEWDATA" \in fl
    <3>1. w = newdata(y, data)
      BY <2>1
    <3> HIDE DEF w
    <3>2. /\ w \in End(e) /\ Buffer(w) /\ SameConn(y, w) /\ w.got = y.got \o data
          /\ w.att = y.att /\ w.told = y.told /\ w.conf = y.conf /\ w.out = y.out
      BY <1>2, <3>1, NewdataFacts
    <3> QED
      BY <1>2, <3>2
  <2>2. CASE "NEWDATA" \notin fl
    <3>1. x.got \o data = x.got
      BY <2>2 DEF End
    <3> QED
      BY <1>2, <2>2, <3>1 DEF SameConn
  <2> QED
    BY <2>1, <2>2
<1> HIDE DEF w
<1>4. /\ c = Called(c.x, c.slen, fl) /\ c.slen \in 0 .. Mss
      /\ c.x \in End(e) /\ Buffer(c.x) /\ SameConn(w, c.x) /\ c.x.got = w.got /\ c.x.att
      /\ c.x.told = w.told /\ c.x.conf = w.conf /\ c.x.out = w.out
      /\ sd => c.x.nxt = c.slen /\ c.slen = Min(Len(w.out), Mss)
  <2>1. CASE sd
    <3>1. c = senddata(w, fl)
      BY <2>1
    <3> HIDE DEF sd, c
    <3> QED
      <4>1. w \in End(e) /\ Buffer(w) /\ w.att
        BY <1>3
      <4>2. Handed(e, w, fl, c)
        BY <3>1, <4>1, SenddataFacts
      <4> QED
        BY <4>1, <4>2 DEF Handed
  <2>2. CASE ~sd
    <3>1. c = Called(w, 0, fl)
      BY <2>2
    <3>2. Mss \in Nat
      BY TcpAssumption
    <3> HIDE DEF sd, c
    <3> QED
      BY <1>3, <2>2, <3>1, <3>2 DEF Called, SameConn
  <2> QED
    BY <2>1, <2>2
<1> HIDE DEF sd, c
<1>5. a = CloseIfDone(Called(c.x, c.slen, fl))
  BY <1>4
<1> HIDE DEF a
<1>6. /\ a.slen = c.slen /\ a.x \in End(e) /\ Buffer(a.x) /\ SameConn(c.x, a.x)
      /\ a.x.out = c.x.out /\ a.x.nxt = c.x.nxt /\ a.x.conf = c.x.conf /\ a.x.got = c.x.got
      /\ \/ a.fl = fl /\ "CLOSE" \notin fl /\ a.x.att = c.x.att /\ a.x.told = c.x.told
         \/ /\ a.fl = fl \/ (a.fl = {"CLOSE"} /\ c.x.out = <<>>)
            /\ "CLOSE" \in a.fl /\ ~a.x.att /\ a.x.told = "ended"
  <2>1. c.x \in End(e) /\ Buffer(c.x)
    BY <1>4
  <2> QED
    BY <1>5, <2>1, CloseFacts
<1>7. SameConn(x, a.x)
  BY <1>2, <1>3, <1>4, <1>6 DEF SameConn
<1>8. /\ sd => a.x.nxt = a.slen /\ a.slen = Min(Len(a.x.out), Mss)
      /\ a.slen \in 0 .. Mss /\ a.x.got = x.got \o data
      /\ IF "ACKDATA" \in fl THEN a.x.conf = x.conf + x.nxt
         ELSE a.x.conf = x.conf /\ a.x.out = x.out
  BY <1>2, <1>3, <1>4, <1>6
<1>9. \/ a.fl = fl /\ "CLOSE" \notin fl /\ a.x.att /\ a.x.told = x.told
      \/ /\ a.fl = fl \/ (a.fl = {"CLOSE"} /\ a.x.out = <<>>)
         /\ "CLOSE" \in a.fl /\ ~a.x.att /\ a.x.told = "ended"
  BY <1>3, <1>4, <1>6
<1> QED
  BY <1>1, <1>6, <1>7, <1>8, <1>9 DEF sd

-------------------------------------------------------------------------------
(* uip_process: the segments that are sent.                                   *)

\* A segment that e has just sent, and is z after that: an acknowledgement is
\* of what z has received, unless the segment is a reset
Sent(e, z, t) ==
  /\ SegOK(e, z, t)
  /\ "ACK" \in t.fl /\ "RST" \notin t.fl => t.ack = z.rcv
  /\ t.data # <<>> \/ "FIN" \in t.fl => z.st \notin {"CLOSED", "SYN_SENT", "SYN_RCVD"}

\* The segments without data that each state sends
Plain(z, fl) ==
  \/ fl = {"RST", "ACK"} \/ fl = {"ACK"}
  \/ fl = {"SYN"} /\ z.st = "SYN_SENT"
  \/ fl = {"SYN", "ACK"} /\ z.st = "SYN_RCVD"
  \/ fl = {"FIN", "ACK"} /\ z.st \in {"FIN_WAIT_1", "CLOSING", "LAST_ACK"}

\* What e leaves, and all that it sends.  Unless it answers an odd segment, an
\* end that has not heard of the other acknowledges nothing.
Step(e, r, odd) ==
  /\ EndOK(e, r.x)
  /\ IsFiniteSet(r.tx)
  /\ \A t \in r.tx : /\ Sent(e, r.x, t)
                     /\ r.x.st = "CLOSED" => "RST" \in t.fl
                     /\ r.x.st = "SYN_SENT" => "ACK" \notin t.fl \/ odd

LEMMA EmptySegment ==
  ASSUME NEW e \in Ends, NEW z, EndOK(e, z), NEW fl, Plain(z, fl)
  PROVE  Sent(e, z, Segment(z, fl, <<>>))
<1> DEFINE t == Segment(z, fl, <<>>)
<1>1. z \in End(e) /\ Buffer(z) /\ z.snd \in Numbers /\ z.rcv \in Numbers
  BY DEF EndOK, End
<1>2. t.fl = fl /\ t.seq = z.snd /\ t.ack = z.rcv /\ t.data = <<>>
  BY DEF Segment
<1>3. t \in Message(e)
  BY <1>1 DEF Segment, Message, Plain
<1> HIDE DEF t
<1>4. /\ "SYN" \in fl => z.snd = Iss[e]
      /\ fl = {"SYN"} => e = Client
      /\ fl = {"SYN", "ACK"} => e # Client
  <2>1. /\ fl = {"SYN"} => z.st = "SYN_SENT"
        /\ fl = {"SYN", "ACK"} => z.st = "SYN_RCVD"
        /\ "SYN" \in fl => fl = {"SYN"} \/ fl = {"SYN", "ACK"}
    BY DEF Plain
  <2>2. z.st \in {"SYN_SENT", "SYN_RCVD"} => Opening(e, z)
    BY DEF EndOK
  <2>3. z.st \in {"SYN_SENT", "SYN_RCVD"} =>
          z.snd = Iss[e] /\ (e = Client <=> z.st = "SYN_SENT")
    BY <2>2 DEF Opening
  <2> QED
    BY <2>1, <2>3
<1>5. "FIN" \in fl => /\ z.st \in {"FIN_WAIT_1", "CLOSING", "LAST_ACK"}
                      /\ ~SendWhileBusy => \E k \in 0 .. z.wrote : z.snd = At(e, k)
  <2> SUFFICES ASSUME "FIN" \in fl
               PROVE  /\ z.st \in {"FIN_WAIT_1", "CLOSING", "LAST_ACK"}
                      /\ ~SendWhileBusy => \E k \in 0 .. z.wrote : z.snd = At(e, k)
    OBVIOUS
  <2>1. z.st \in {"FIN_WAIT_1", "CLOSING", "LAST_ACK"}
    BY DEF Plain
  <2>2. ~SendWhileBusy => z.snd = At(e, z.conf)
    BY <2>1 DEF EndOK, Closing
  <2>3. z.conf \in 0 .. z.wrote
    BY <1>1 DEF Buffer, End
  <2> QED
    BY <2>1, <2>2, <2>3
<1>6. SegOK(e, z, t)
  BY <1>2, <1>3, <1>4, <1>5 DEF SegOK
<1>7. Sent(e, z, t)
  BY <1>2, <1>5, <1>6 DEF Sent
<1> QED
  BY <1>7 DEF t

LEMMA DataSegment ==
  ASSUME NEW e \in Ends, NEW z, EndOK(e, z), z.st = "ESTABLISHED"
  PROVE  Sent(e, z, Segment(z, {"ACK"}, SubSeq(z.out, 1, z.len)))
<1> DEFINE d == SubSeq(z.out, 1, z.len)
           t == Segment(z, {"ACK"}, d)
<1>1. /\ z \in End(e) /\ Buffer(z) /\ z.snd \in Numbers /\ z.rcv \in Numbers
      /\ z.out \in Seq(Bytes(e)) /\ z.len \in Nat /\ z.conf \in Nat /\ z.wrote \in Nat
      /\ z.nxt \in Nat /\ Len(z.out) \in Nat /\ Mss \in Nat
  BY TcpAssumption DEF EndOK, End
<1>2. Flowing(e, z)
  BY DEF EndOK
<1>3. z.len <= Len(z.out)
  BY <1>1, <1>2 DEF Flowing, Buffer
<1>4. /\ d \in Seq(Bytes(e)) /\ Len(d) = z.len
      /\ \A i \in 1 .. z.len : d[i] = z.out[i]
  BY <1>1, <1>3
<1> HIDE DEF d
<1>5. t.fl = {"ACK"} /\ t.seq = z.snd /\ t.ack = z.rcv /\ t.data = d
  BY DEF Segment
<1>6. t \in Message(e)
  BY <1>1, <1>4 DEF Segment, Message
<1> HIDE DEF t
<1>7. ~SendWhileBusy => z.snd = At(e, z.conf)
  BY <1>2 DEF Flowing
<1>8. /\ z.conf \in 0 .. z.wrote /\ z.conf + Len(d) <= z.wrote
      /\ \A i \in 1 .. Len(d) : d[i] = z.conf + i
  <2>1. z.conf + Len(z.out) = z.wrote /\ \A i \in 1 .. Len(z.out) : z.out[i] = z.conf + i
    BY <1>1 DEF Buffer
  <2>2. \A i \in 1 .. z.len : i \in 1 .. Len(z.out)
    BY <1>1, <1>3
  <2>3. \A i \in 1 .. Len(d) : d[i] = z.conf + i
    BY <1>4, <2>1, <2>2
  <2> QED
    BY <1>1, <1>3, <1>4, <2>1, <2>3
<1>9. SegOK(e, z, t)
  BY <1>5, <1>6, <1>7, <1>8 DEF SegOK
<1>10. Sent(e, z, t)
  BY <1>5, <1>9 DEF Sent
<1> QED
  BY <1>10 DEF t, d

LEMMA StepPlain ==
  ASSUME NEW e \in Ends, NEW z, EndOK(e, z), NEW fl, NEW odd, Plain(z, fl),
         z.st = "CLOSED" => fl = {"RST", "ACK"},
         z.st = "SYN_SENT" => fl = {"SYN"} \/ odd
  PROVE  SendNoData(z, fl).x = z /\ Step(e, SendNoData(z, fl), odd)
<1>1. Sent(e, z, Segment(z, fl, <<>>))
  BY EmptySegment
<1>2. SendNoData(z, fl).x = z /\ SendNoData(z, fl).tx = {Segment(z, fl, <<>>)}
  BY DEF SendNoData, Sends
<1>3. Segment(z, fl, <<>>).fl = fl
  BY DEF Segment
<1>4. IsFiniteSet({Segment(z, fl, <<>>)})
  BY FS_Singleton
<1> QED
  BY <1>1, <1>2, <1>3, <1>4 DEF Step

LEMMA StepDrop ==
  ASSUME NEW e \in Ends, NEW z, EndOK(e, z), NEW odd
  PROVE  Drop(z).x = z /\ Step(e, Drop(z), odd)
<1>1. Drop(z).x = z /\ Drop(z).tx = {}
  BY DEF Drop, Sends
<1> QED
  BY <1>1, FS_EmptySet DEF Step

LEMMA StepRexmit ==
  ASSUME NEW e \in Ends, NEW z, EndOK(e, z), z.st = "ESTABLISHED", NEW slen, NEW fl, NEW odd
  PROVE  LET r == apprexmit(Called(z, slen, fl)) IN r.x = z /\ Step(e, r, odd)
<1> DEFINE a == Called(z, slen, fl)
           t == Segment(z, {"ACK"}, SubSeq(z.out, 1, z.len))
           r == apprexmit(a)
<1>1. a.x = z /\ a.slen = slen /\ a.fl = fl
  BY DEF Called
<1> HIDE DEF a
<1>2. r = Sends(z, {t}) \/ r = SendNoData(z, {"ACK"}) \/ r = Drop(z)
  BY <1>1 DEF apprexmit, SendAck
<1>3. CASE r = Sends(z, {t})
  <2>1. r.x = z /\ r.tx = {t}
    BY <1>3 DEF Sends
  <2>2. Sent(e, z, t)
    BY DataSegment
  <2> HIDE DEF r, t
  <2> QED
    BY <2>1, <2>2, FS_Singleton DEF Step, a, r
<1>4. CASE r = SendNoData(z, {"ACK"})
  BY <1>4, StepPlain DEF Plain, a
<1>5. CASE r = Drop(z)
  BY <1>5, StepDrop DEF a
<1> QED
  BY <1>2, <1>3, <1>4, <1>5

\* The fields that sending leaves alone
Rest(x, z) ==
  /\ z.got = x.got /\ z.conf = x.conf /\ z.told = x.told
  /\ z.wrote = x.wrote /\ z.rcv = x.rcv /\ z.opens = x.opens

\* After appcall: the socket has the bytes to send next ready.
Ready(e, z) ==
  /\ z \in End(e) /\ Buffer(z) /\ PortOK(e, z) /\ z.st = "ESTABLISHED" /\ z.opens > 0
  /\ ~SendWhileBusy => z.snd = At(e, z.conf)

LEMMA AppsendClose ==
  ASSUME NEW e \in Ends, NEW a, NEW odd, Ready(e, a.x),
         "ABORT" \notin a.fl, "CLOSE" \in a.fl, ~a.x.att, a.x.told = "ended"
  PROVE  LET r == appsend(a) IN Step(e, r, odd) /\ Rest(a.x, r.x) /\ r.x.st = "FIN_WAIT_1"
<1> DEFINE z == a.x
           w == [z EXCEPT !.st = "FIN_WAIT_1", !.len = 1, !.nrtx = 0]
<1>1. appsend(a) = SendNoData(w, {"FIN", "ACK"})
  BY DEF appsend
<1>2. 1 \in 0 .. Mss /\ 0 \in 0 .. MaxRtx
  BY TcpAssumption
<1>3. z \in End(e) /\ Buffer(z) /\ PortOK(e, z) /\ z.opens > 0 /\ (~SendWhileBusy => z.snd = At(e, z.conf))
      /\ ~z.att /\ z.told = "ended"
  BY DEF Ready
<1> HIDE DEF z
<1>4. w \in End(e)
  BY <1>2, <1>3 DEF End, States
<1>5. /\ w.st = "FIN_WAIT_1" /\ w.len = 1 /\ Rest(z, w) /\ w.out = z.out /\ w.nxt = z.nxt
      /\ w.port = z.port /\ w.att = z.att /\ w.snd = z.snd
  BY <1>3 DEF End, Rest
<1> HIDE DEF w
<1>6. Buffer(w) /\ PortOK(e, w) /\ w.opens # 0
  BY <1>3, <1>5 DEF Buffer, PortOK, Rest, End
<1>7. Closing(e, w)
  BY <1>3, <1>5 DEF Closing, Rest
<1>8. EndOK(e, w)
  BY <1>4, <1>5, <1>6, <1>7 DEF EndOK
<1>9. SendNoData(w, {"FIN", "ACK"}).x = w /\ Step(e, SendNoData(w, {"FIN", "ACK"}), odd)
  BY <1>5, <1>8, StepPlain DEF Plain
<1> QED
  BY <1>1, <1>5, <1>9 DEF z

LEMMA AppsendOpen ==
  ASSUME NEW e \in Ends, NEW a, NEW odd, Ready(e, a.x),
         "ABORT" \notin a.fl, "CLOSE" \notin a.fl,
         IF a.x.att THEN a.x.told = "connected"
         ELSE UnlistenLate /\ a.x.told = "none",
         a.slen = a.x.nxt, a.slen \in 0 .. Mss, a.slen = 0 \/ a.slen = Min(Len(a.x.out), Mss),
         a.x.att \/ a.slen = 0,
         a.x.len <= a.x.nxt,
         ~SendWhileBusy => a.x.len = 0 \/ a.x.len = a.slen,
         ~UnlistenLate => a.x.rcv = At(Other(e), Len(a.x.got))
  PROVE  LET r == appsend(a) IN Step(e, r, odd) /\ Rest(a.x, r.x) /\ r.x.st = "ESTABLISHED"
<1> DEFINE z == a.x
           m == IF a.slen > 0 /\ z.len = 0 THEN a.slen ELSE z.len
           w == [z EXCEPT !.len = m, !.nrtx = 0]
<1>1. appsend(a) = apprexmit(Called(w, a.slen, a.fl))
  BY DEF appsend
<1>2. 0 \in 0 .. MaxRtx /\ Mss \in Nat
  BY TcpAssumption
<1>3. /\ z \in End(e) /\ Buffer(z) /\ PortOK(e, z) /\ z.opens > 0 /\ z.st = "ESTABLISHED"
      /\ z.len \in 0 .. Mss /\ z.nxt \in Nat /\ z.nxt = a.slen /\ z.len <= z.nxt
      /\ IF z.att THEN z.told = "connected" ELSE UnlistenLate /\ z.told = "none" /\ a.slen = 0
      /\ ~UnlistenLate => z.rcv = At(Other(e), Len(z.got))
      /\ ~SendWhileBusy => z.snd = At(e, z.conf)
  BY DEF Ready, End
<1>4. m \in 0 .. Mss /\ m <= z.nxt /\ (~SendWhileBusy => m = z.nxt)
  BY <1>2, <1>3
<1>5. m = 0 \/ m = Min(Len(z.out), Mss) \/ SendWhileBusy
  BY <1>3, <1>4
<1> HIDE DEF z, m
<1>6. w \in End(e)
  BY <1>2, <1>3, <1>4 DEF End
<1>7. /\ w.st = z.st /\ w.len = m /\ Rest(z, w) /\ w.out = z.out /\ w.nxt = z.nxt
      /\ w.port = z.port /\ w.att = z.att /\ w.snd = z.snd
  BY <1>3 DEF End, Rest
<1> HIDE DEF w
<1>8. Buffer(w) /\ PortOK(e, w) /\ w.opens # 0
  BY <1>3, <1>7 DEF Buffer, PortOK, Rest, End
<1>9. Flowing(e, w)
  BY <1>3, <1>4, <1>5, <1>7 DEF Flowing, Rest
<1>10. EndOK(e, w)
  BY <1>3, <1>6, <1>7, <1>8, <1>9 DEF EndOK
<1>11. LET r == apprexmit(Called(w, a.slen, a.fl)) IN r.x = w /\ Step(e, r, odd)
  BY <1>3, <1>7, <1>10, StepRexmit
<1> QED
  BY <1>1, <1>3, <1>7, <1>11 DEF z

-------------------------------------------------------------------------------
(* uip_process: the ways through it.                                          *)

\* An end that has been opened
Known(e, x) == x \in End(e) /\ Buffer(x) /\ PortOK(e, x) /\ x.opens > 0

\* Only the connection's part of the end differs
SameSock(x, z) ==
  /\ z.out = x.out /\ z.nxt = x.nxt /\ z.conf = x.conf /\ z.got = x.got /\ z.att = x.att
  /\ z.told = x.told /\ z.port = x.port /\ z.wrote = x.wrote /\ z.opens = x.opens

LEMMA KnownFacts ==
  ASSUME NEW e \in Ends, NEW x, Known(e, x)
  PROVE  /\ x \in End(e) /\ x.st \in States /\ x.snd \in Numbers /\ x.rcv \in Numbers
         /\ x.len \in 0 .. Mss /\ x.len \in Nat /\ x.nrtx \in 0 .. MaxRtx /\ x.nrtx \in Nat
         /\ x.out \in Seq(Bytes(e)) /\ Len(x.out) \in Nat /\ x.nxt \in Nat /\ x.conf \in Nat
         /\ x.got \in Seq(Bytes(Other(e))) /\ Len(x.got) \in Nat
         /\ x.nxt <= Len(x.out) /\ x.wrote \in Nat /\ x.conf + x.nxt <= x.wrote
         /\ x.opens \in Nat /\ x.opens > 0 /\ x.opens # 0
         /\ Mss \in Nat /\ Mss > 0 /\ MaxRtx \in Nat
<1>1. /\ x \in End(e) /\ x.st \in States /\ x.snd \in Numbers /\ x.rcv \in Numbers
      /\ x.len \in 0 .. Mss /\ x.nrtx \in 0 .. MaxRtx
      /\ x.out \in Seq(Bytes(e)) /\ x.nxt \in Nat /\ x.conf \in Nat
      /\ x.got \in Seq(Bytes(Other(e))) /\ x.opens \in Nat /\ x.opens > 0
      /\ x.wrote \in 0 .. MaxBytes[e]
  BY DEF Known, End
<1>2. Mss \in Nat /\ Mss > 0 /\ MaxRtx \in Nat /\ MaxBytes[e] \in Nat
  BY TcpAssumption
<1>3. Len(x.out) \in Nat /\ Len(x.got) \in Nat
  BY <1>1
<1>4. x.nxt <= Len(x.out) /\ x.conf + Len(x.out) = x.wrote
  BY DEF Known, Buffer
<1>5. /\ x.len \in Nat /\ x.nrtx \in Nat /\ x.wrote \in Nat /\ x.opens # 0
  BY <1>1, <1>2
<1>6. x.conf + x.nxt <= x.wrote
  <2> DEFINE c == x.conf
             n == x.nxt
             l == Len(x.out)
             w == x.wrote
  <2>1. c \in Nat /\ n \in Nat /\ l \in Nat /\ n <= l /\ c + l = w
    BY <1>1, <1>3, <1>4
  <2> HIDE DEF c, n, l, w
  <2>2. c + n <= w
    BY <2>1
  <2> QED
    BY <2>2 DEF c, n, w
<1> QED
  BY <1>1, <1>2, <1>3, <1>4, <1>5, <1>6

LEMMA KnownKept ==
  ASSUME NEW e \in Ends, NEW x, Known(e, x), NEW z \in End(e), SameSock(x, z)
  PROVE  Known(e, z)
<1>1. Buffer(z)
  BY DEF Known, Buffer, SameSock
<1>2. PortOK(e, z)
  BY DEF Known, PortOK, SameSock
<1> QED
  BY <1>1, <1>2 DEF Known, SameSock

\* After a call of the application
LEMMA KnownCalled ==
  ASSUME NEW e \in Ends, NEW x, Known(e, x), NEW z \in End(e), Buffer(z), SameConn(x, z)
  PROVE  Known(e, z)
<1>1. PortOK(e, z)
  BY DEF Known, PortOK, SameConn
<1> QED
  BY <1>1 DEF Known, SameConn

LEMMA EndKnown ==
  ASSUME NEW e \in Ends, NEW x, EndOK(e, x)
  PROVE  /\ x.opens # 0 => Known(e, x)
         /\ x.st # "CLOSED" => Known(e, x)
         /\ ~x.att => x.told # "connected"
<1>1. x \in End(e) /\ Buffer(x) /\ PortOK(e, x) /\ x.opens \in Nat
  BY DEF EndOK, End
<1>2. x.opens = 0 => x.st = "CLOSED"
  BY DEF EndOK, Unopened
<1>3. ~x.att => x.told # "connected"
  BY DEF EndOK, Opening, Untold, Flowing, Closing
<1> QED
  BY <1>1, <1>2, <1>3 DEF Known

LEMMA ClosedOK ==
  ASSUME NEW e \in Ends, NEW z, Known(e, z), z.st = "CLOSED", z.told # "connected"
  PROVE  EndOK(e, z)
  BY KnownFacts DEF EndOK, Known

LEMMA ClosingOK ==
  ASSUME NEW e \in Ends, NEW z, Known(e, z), Closing(e, z),
         z.st \in {"FIN_WAIT_1", "FIN_WAIT_2", "CLOSING", "TIME_WAIT", "LAST_ACK"}
  PROVE  EndOK(e, z)
  BY KnownFacts DEF EndOK, Known

\* An open connection y of which the application is to be told what fl says:
\* its bytes are acknowledged or not, and data has been received
Asked(e, y, fl, data) ==
  /\ Known(e, y) /\ y.st = "ESTABLISHED"
  /\ IF y.att THEN y.told = "connected" ELSE UnlistenLate /\ y.told = "none" /\ y.nxt = 0
  /\ data \in Seq(Bytes(Other(e))) /\ fl \in SUBSET {"ACKDATA", "NEWDATA", "POLL"} /\ fl # {}
  /\ "NEWDATA" \in fl \/ data = <<>>
  /\ IF "ACKDATA" \in fl
     THEN y.len = 0 /\ (~SendWhileBusy => y.snd = At(e, y.conf + y.nxt))
     ELSE /\ y.len <= y.nxt
          /\ ~SendWhileBusy => /\ y.len = 0 \/ y.len = Min(Len(y.out), Mss)
                               /\ y.snd = At(e, y.conf)
  /\ ~UnlistenLate => y.rcv = At(Other(e), Len(y.got) + Len(data))

LEMMA OpenStep ==
  ASSUME NEW e \in Ends, NEW y, NEW fl, NEW data, Asked(e, y, fl, data), NEW odd
  PROVE  LET r == appsend(appcall(y, fl, data)) IN
           /\ Step(e, r, odd) /\ r.x.st \in {"ESTABLISHED", "FIN_WAIT_1"}
           /\ r.x.wrote = y.wrote /\ r.x.opens = y.opens /\ r.x.rcv = y.rcv
           /\ r.x.got = (IF y.att THEN y.got \o data ELSE y.got)
           /\ r.x.conf = (IF y.att /\ "ACKDATA" \in fl THEN y.conf + y.nxt ELSE y.conf)
<1> DEFINE a == appcall(y, fl, data)
<1>1. /\ y \in End(e) /\ Buffer(y) /\ PortOK(e, y) /\ y.opens > 0 /\ y.len \in 0 .. Mss
      /\ y.nxt \in Nat /\ y.nxt <= Len(y.out) /\ Len(y.out) \in Nat /\ y.conf \in Nat
      /\ y.got \in Seq(Bytes(Other(e))) /\ Mss \in Nat
  BY KnownFacts DEF Asked, Known
<1>0. /\ IF y.att THEN y.told = "connected" ELSE UnlistenLate /\ y.told = "none" /\ y.nxt = 0
      /\ data \in Seq(Bytes(Other(e))) /\ fl \in SUBSET {"ACKDATA", "NEWDATA", "POLL"} /\ fl # {}
      /\ "NEWDATA" \in fl \/ data = <<>>
      /\ y.st = "ESTABLISHED"
  BY DEF Asked
<1>a. IF "ACKDATA" \in fl
      THEN y.len = 0 /\ (~SendWhileBusy => y.snd = At(e, y.conf + y.nxt))
      ELSE /\ y.len <= y.nxt
           /\ ~SendWhileBusy => /\ y.len = 0 \/ y.len = Min(Len(y.out), Mss)
                                /\ y.snd = At(e, y.conf)
  BY DEF Asked
<1>r. ~UnlistenLate => y.rcv = At(Other(e), Len(y.got) + Len(data))
  BY DEF Asked
<1> USE <1>0, <1>a, <1>r
<1>2. CASE ~y.att
  <2>1. a = Called(y, 0, fl)
    BY <1>2 DEF appcall
  <2>2. a.x = y /\ a.slen = 0 /\ a.fl = fl
    BY <2>1 DEF Called
  <2> HIDE DEF a
  <2>3. Ready(e, a.x)
    BY <1>1, <1>2, <2>2 DEF Ready
  <2>4. "ABORT" \notin a.fl /\ "CLOSE" \notin a.fl /\ 0 \in 0 .. Mss
    BY <1>1, <2>2
  <2>5. a.x.len <= a.x.nxt /\ (~SendWhileBusy => a.x.len = 0 \/ a.x.len = a.slen)
    BY <1>1, <1>2, <2>2
  <2>6. LET r == appsend(a) IN Step(e, r, odd) /\ Rest(a.x, r.x) /\ r.x.st = "ESTABLISHED"
    BY <1>2, <2>2, <2>3, <2>4, <2>5, AppsendOpen
  <2> QED
    BY <1>2, <2>2, <2>6 DEF Rest, a
<1>3. CASE y.att
  <2>1. /\ a.slen \in 0 .. Mss /\ a.x \in End(e) /\ Buffer(a.x) /\ SameConn(y, a.x)
        /\ a.x.got = y.got \o data
        /\ IF "ACKDATA" \in fl THEN a.x.conf = y.conf + y.nxt
           ELSE a.x.conf = y.conf /\ a.x.out = y.out
        /\ a.x.nxt = a.slen /\ a.slen = Min(Len(a.x.out), Mss)
        /\ \/ a.fl = fl /\ "CLOSE" \notin fl /\ a.x.att /\ a.x.told = y.told
           \/ /\ a.fl = fl \/ (a.fl = {"CLOSE"} /\ a.x.out = <<>>)
              /\ "CLOSE" \in a.fl /\ ~a.x.att /\ a.x.told = "ended"
    <3>1. fl \in SUBSET {"ACKDATA", "NEWDATA", "CLOSE", "POLL", "REXMIT"}
      OBVIOUS
    <3>2. fl \cap {"REXMIT", "NEWDATA", "ACKDATA", "POLL"} # {}
      OBVIOUS
    <3> QED
      <4>1. y \in End(e) /\ Buffer(y) /\ y.att /\ data \in Seq(Bytes(Other(e)))
        BY <1>1, <1>3
      <4>2. "NEWDATA" \in fl \/ data = <<>>
        OBVIOUS
      <4> HIDE <1>0, <1>a, <1>r
      <4> QED
        BY <4>1, <4>2, <3>1, <3>2, AppcallOpen
  <2> HIDE DEF a
  <2>2. a.x.st = y.st /\ a.x.snd = y.snd /\ a.x.len = y.len /\ a.x.rcv = y.rcv
        /\ a.x.opens = y.opens /\ a.x.wrote = y.wrote /\ a.x.port = y.port
    BY <2>1 DEF SameConn
  <2>3. Ready(e, a.x)
    <3>1. PortOK(e, a.x)
      BY <1>1, <2>2 DEF PortOK
    <3>2. ~SendWhileBusy => a.x.snd = At(e, a.x.conf)
      BY <2>1, <2>2
    <3> QED
      BY <1>1, <2>1, <2>2, <3>1, <3>2 DEF Ready
  <2>4. "ABORT" \notin a.fl
    BY <2>1
  <2>5. CASE "CLOSE" \in a.fl
    <3>1. ~a.x.att /\ a.x.told = "ended"
      BY <2>1, <2>5
    <3>2. LET r == appsend(a) IN Step(e, r, odd) /\ Rest(a.x, r.x) /\ r.x.st = "FIN_WAIT_1"
      BY <2>3, <2>4, <2>5, <3>1, AppsendClose
    <3> QED
      BY <1>3, <2>1, <2>2, <3>2 DEF Rest, a
  <2>6. CASE "CLOSE" \notin a.fl
    <3>1. a.x.att /\ a.x.told = "connected"
      BY <1>3, <2>1, <2>6
    <3>2. a.x.len <= a.x.nxt /\ (~SendWhileBusy => a.x.len = 0 \/ a.x.len = a.slen)
      <4>1. CASE "ACKDATA" \in fl
        BY <1>1, <2>1, <2>2, <4>1
      <4>2. CASE "ACKDATA" \notin fl
        <5>1. a.x.out = y.out /\ y.len <= Len(y.out) /\ y.len <= Mss
          BY <1>1, <2>1, <4>2
        <5>2. a.x.nxt = Min(Len(y.out), Mss)
          BY <2>1, <5>1
        <5>3. y.len <= Min(Len(y.out), Mss)
          BY <1>1, <5>1, Least
        <5> QED
          BY <2>1, <2>2, <4>2, <5>2, <5>3
      <4> QED
        BY <4>1, <4>2
    <3>3. ~UnlistenLate => a.x.rcv = At(Other(e), Len(a.x.got))
      <4>1. Len(y.got \o data) = Len(y.got) + Len(data)
        BY <1>1
      <4> QED
        BY <2>1, <2>2, <4>1
    <3>4. LET r == appsend(a) IN Step(e, r, odd) /\ Rest(a.x, r.x) /\ r.x.st = "ESTABLISHED"
      BY <2>1, <2>3, <2>4, <2>6, <3>1, <3>2, <3>3, AppsendOpen
    <3> QED
      BY <1>3, <2>1, <2>2, <3>4 DEF Rest, a
  <2> QED
    BY <2>5, <2>6
<1> QED
  BY <1>2, <1>3

\* uip_connected(), with the data of the segment: an incoming connection that
\* finds no listening socket is aborted, one whose port is gone is kept and
\* nobody told
Greeted(e, y, fl, data) ==
  /\ Known(e, y) /\ y.st = "ESTABLISHED" /\ Untold(y) /\ y.len = 0
  /\ ~SendWhileBusy => y.snd = At(e, 0)
  /\ y.att \/ y.out = <<>>
  /\ y.att \/ y.port \/ UnlistenLate
  /\ data \in Seq(Bytes(Other(e))) /\ fl \in SUBSET {"CONNECTED", "NEWDATA"}
  /\ "CONNECTED" \in fl
  /\ ~UnlistenLate => y.rcv = At(Other(e), Len(data))

LEMMA ConnectedStep ==
  ASSUME NEW e \in Ends, NEW y, NEW fl, NEW data, Greeted(e, y, fl, data), NEW odd
  PROVE  LET r == appsend(appcall(y, fl, data)) IN
           /\ Step(e, r, odd) /\ r.x.st \in {"CLOSED", "ESTABLISHED"}
           /\ r.x.wrote = y.wrote /\ r.x.opens = y.opens /\ r.x.rcv = y.rcv
           /\ r.x.got = <<>> \/ r.x.got = data
           /\ r.x.conf = y.conf
<1> DEFINE a == appcall(y, fl, data)
<1>g. /\ y.att \/ y.out = <<>>
      /\ y.att \/ y.port \/ UnlistenLate
      /\ data \in Seq(Bytes(Other(e))) /\ fl \in SUBSET {"CONNECTED", "NEWDATA"}
      /\ "CONNECTED" \in fl /\ y.st = "ESTABLISHED" /\ y.len = 0
  BY DEF Greeted
<1>h. (~SendWhileBusy => y.snd = At(e, 0)) /\ (~UnlistenLate => y.rcv = At(Other(e), Len(data)))
  BY DEF Greeted
<1>k. Known(e, y)
  BY DEF Greeted
<1> USE <1>g, <1>h, <1>k
<1>0. a = Connected(y, fl, data)
  BY DEF appcall
<1>1. /\ y \in End(e) /\ Buffer(y) /\ PortOK(e, y) /\ y.opens > 0 /\ y.len \in 0 .. Mss
      /\ y.nxt \in Nat /\ y.nxt = 0 /\ Len(y.out) \in Nat /\ y.conf = 0 /\ y.got = <<>>
      /\ y.told = "none" /\ Mss \in Nat
  BY KnownFacts DEF Greeted, Known, Untold
<1>2. CASE y.port /\ ~y.listening
  <2> DEFINE w == [y EXCEPT !.att = FALSE]
             z == [w EXCEPT !.st = "CLOSED"]
  <2>1. a = Called(w, 0, {"ABORT"})
    BY <1>0, <1>2 DEF Connected
  <2>2. w \in End(e) /\ SameConn(y, w) /\ w.told = y.told /\ w.out = y.out /\ w.nxt = y.nxt
        /\ w.conf = y.conf /\ w.got = y.got
    BY <1>1 DEF End, SameConn
  <2>3. appsend(a) = SendNoData(z, {"RST", "ACK"})
    BY <2>1 DEF appsend, Called
  <2> HIDE DEF w
  <2>4. Buffer(w)
    BY <1>1, <2>2 DEF Buffer, SameConn
  <2>5. Known(e, w)
    BY <2>2, <2>4, KnownCalled
  <2>6. z \in End(e) /\ SameSock(w, z) /\ z.st = "CLOSED" /\ z.rcv = w.rcv
    <3>1. "CLOSED" \in States
      BY DEF States
    <3>2. z \in End(e) /\ z.st = "CLOSED" /\ z.rcv = w.rcv
      BY <2>2, <3>1 DEF End
    <3>3. SameSock(w, z)
      BY <2>2 DEF End, SameSock
    <3> QED
      BY <3>2, <3>3
  <2> HIDE DEF z
  <2>7. Known(e, z)
    BY <2>5, <2>6, KnownKept
  <2>8. z.told = "none"
    BY <1>1, <2>2, <2>6 DEF SameSock
  <2>9. EndOK(e, z)
    BY <2>6, <2>7, <2>8, ClosedOK
  <2>10. SendNoData(z, {"RST", "ACK"}).x = z /\ Step(e, SendNoData(z, {"RST", "ACK"}), odd)
    BY <2>6, <2>9, StepPlain DEF Plain
  <2> QED
    BY <1>1, <2>2, <2>3, <2>6, <2>10 DEF SameSock, SameConn
<1>3. CASE ~(y.port /\ ~y.listening) /\ ~y.port /\ ~y.att
  <2>1. a = Called(y, 0, fl)
    BY <1>0, <1>3 DEF Connected
  <2>2. a.x = y /\ a.slen = 0 /\ a.fl = fl
    BY <2>1 DEF Called
  <2> HIDE DEF a
  <2>3. Ready(e, a.x)
    BY <1>1, <2>2 DEF Ready
  <2>4. "ABORT" \notin a.fl /\ "CLOSE" \notin a.fl /\ 0 \in 0 .. Mss
    BY <1>1, <2>2
  <2>5. a.x.len <= a.x.nxt /\ (~SendWhileBusy => a.x.len = 0 \/ a.x.len = a.slen)
    BY <1>1, <2>2
  <2>6. UnlistenLate
    BY <1>3
  <2>7. LET r == appsend(a) IN Step(e, r, odd) /\ Rest(a.x, r.x) /\ r.x.st = "ESTABLISHED"
    BY ZenonT(60), <1>1, <1>3, <2>2, <2>3, <2>4, <2>5, <2>6, AppsendOpen
  <2> QED
    BY <1>1, <2>2, <2>7 DEF Rest, a
<1>4. CASE ~(y.port /\ ~y.listening) /\ ~(~y.port /\ ~y.att)
  <2> DEFINE w == [y EXCEPT !.att = TRUE, !.listening = FALSE, !.told = "connected"]
             v == newdata(w, data)
  <2>1. a = senddata(v, fl)
    BY <1>0, <1>4 DEF Connected
  <2>2. w \in End(e) /\ SameConn(y, w) /\ w.out = y.out /\ w.nxt = y.nxt
        /\ w.conf = y.conf /\ w.got = y.got /\ w.att /\ w.told = "connected"
    BY <1>1 DEF End, SameConn
  <2> HIDE DEF w
  <2>3. Buffer(w)
    BY <1>1, <2>2 DEF Buffer, SameConn
  <2>4. /\ v \in End(e) /\ Buffer(v) /\ SameConn(w, v) /\ v.got = w.got \o data
        /\ v.out = w.out /\ v.conf = w.conf /\ v.att = w.att /\ v.told = w.told
    <3>1. w \in End(e) /\ Buffer(w)
      BY <2>2, <2>3
    <3> QED
      BY <3>1, NewdataFacts
  <2> HIDE DEF v
  <2>5. /\ a.fl = fl /\ a.x \in End(e) /\ Buffer(a.x) /\ SameConn(v, a.x)
        /\ a.slen = Min(Len(v.out), Mss) /\ a.x.nxt = a.slen /\ a.slen \in 0 .. Mss
        /\ a.x.out = v.out /\ a.x.conf = v.conf /\ a.x.got = v.got
        /\ a.x.att = v.att /\ a.x.told = v.told
    <3>1. v \in End(e) /\ Buffer(v)
      BY <2>4
    <3>2. Handed(e, v, fl, a)
      BY <2>1, <3>1, SenddataFacts
    <3> QED
      BY <3>2 DEF Handed
  <2> HIDE DEF a
  <2>6. /\ a.x.st = y.st /\ a.x.snd = y.snd /\ a.x.len = y.len /\ a.x.rcv = y.rcv
        /\ a.x.opens = y.opens /\ a.x.wrote = y.wrote /\ a.x.port = y.port
    BY <2>2, <2>4, <2>5 DEF SameConn
  <2>7. a.x.got = data /\ a.x.conf = y.conf /\ a.x.att /\ a.x.told = "connected"
    BY <1>1, <2>2, <2>4, <2>5
  <2>8. Ready(e, a.x)
    <3>1. PortOK(e, a.x)
      BY <1>1, <2>6 DEF PortOK
    <3> QED
      BY <1>1, <2>5, <2>6, <2>7, <3>1 DEF Ready
  <2>9. "ABORT" \notin a.fl /\ "CLOSE" \notin a.fl
    BY <2>5
  <2>10. a.x.len = 0 /\ a.x.len <= a.x.nxt
    BY <1>1, <2>5, <2>6
  <2>11. ~UnlistenLate => a.x.rcv = At(Other(e), Len(a.x.got))
    BY <2>6, <2>7
  <2>12. a.slen = Min(Len(a.x.out), Mss)
    BY <2>5
  <2>13. LET r == appsend(a) IN Step(e, r, odd) /\ Rest(a.x, r.x) /\ r.x.st = "ESTABLISHED"
    BY <2>5, <2>7, <2>8, <2>9, <2>10, <2>11, <2>12, AppsendOpen
  <2> QED
    BY <1>1, <2>6, <2>7, <2>13 DEF Rest, a
<1> QED
  BY <1>2, <1>3, <1>4

\* What a step that takes no segment leaves alone
Idle(x, z) ==
  /\ z.wrote = x.wrote /\ z.got = x.got /\ z.conf = x.conf /\ z.rcv = x.rcv
  /\ z.opens = x.opens /\ (x.told = "ended" => z.told = "ended")
  /\ z.st \in {x.st, "CLOSED"} \/ (x.st = "ESTABLISHED" /\ z.st = "FIN_WAIT_1")

\* A connection that is closed, and the application told of it if it knew.
LEMMA GoneFacts ==
  ASSUME NEW e \in Ends, NEW x, Known(e, x), ~x.att => x.told # "connected",
         NEW fl \in {{"ABORT"}, {"TIMEDOUT"}}
  PROVE  /\ LET z == appcall([x EXCEPT !.st = "CLOSED"], fl, <<>>).x IN
              EndOK(e, z) /\ z.st = "CLOSED" /\ Idle(x, z)
         /\ LET z == [appcall(x, fl, <<>>).x EXCEPT !.st = "CLOSED"] IN
              EndOK(e, z) /\ z.st = "CLOSED" /\ Idle(x, z)
<1>1. x \in End(e) /\ Buffer(x)
  BY DEF Known
<1>2. LET z == appcall([x EXCEPT !.st = "CLOSED"], fl, <<>>).x IN
        EndOK(e, z) /\ z.st = "CLOSED" /\ Idle(x, z)
  <2> DEFINE w == [x EXCEPT !.st = "CLOSED"]
             z == appcall(w, fl, <<>>).x
  <2>1. w \in End(e) /\ SameSock(x, w) /\ w.st = "CLOSED" /\ w.rcv = x.rcv
    BY <1>1 DEF End, SameSock, States
  <2> HIDE DEF w
  <2>2. Known(e, w) /\ Buffer(w)
    BY <2>1, KnownKept DEF Known
  <2>3. /\ z \in End(e) /\ Buffer(z) /\ SameConn(w, z)
        /\ z.conf = w.conf /\ z.got = w.got
        /\ IF w.att THEN z.told = "ended" ELSE z = w
    <3>1. w \in End(e) /\ Buffer(w)
      BY <2>1, <2>2
    <3> QED
      BY ZenonT(60), <3>1, AppcallEnds
  <2> HIDE DEF z
  <2>4. Known(e, z) /\ z.st = "CLOSED"
    BY <2>1, <2>2, <2>3, KnownCalled DEF SameConn
  <2>5. z.told # "connected" /\ (x.told = "ended" => z.told = "ended")
    BY <2>1, <2>3 DEF SameSock
  <2>6. EndOK(e, z)
    BY <2>4, <2>5, ClosedOK
  <2>7. Idle(x, z)
    BY <2>1, <2>3, <2>4, <2>5 DEF SameSock, SameConn, Idle
  <2> QED
    BY <2>4, <2>6, <2>7 DEF z, w
<1>3. LET z == [appcall(x, fl, <<>>).x EXCEPT !.st = "CLOSED"] IN
        EndOK(e, z) /\ z.st = "CLOSED" /\ Idle(x, z)
  <2> DEFINE w == appcall(x, fl, <<>>).x
             z == [w EXCEPT !.st = "CLOSED"]
  <2>1. /\ w \in End(e) /\ Buffer(w) /\ SameConn(x, w)
        /\ w.conf = x.conf /\ w.got = x.got
        /\ IF x.att THEN w.told = "ended" ELSE w = x
    BY ZenonT(60), <1>1, AppcallEnds
  <2> HIDE DEF w
  <2>2. Known(e, w)
    BY <2>1, KnownCalled
  <2>3. z \in End(e) /\ SameSock(w, z) /\ z.st = "CLOSED" /\ z.rcv = w.rcv
    BY <2>1 DEF End, SameSock, States
  <2> HIDE DEF z
  <2>4. Known(e, z)
    BY <2>2, <2>3, KnownKept
  <2>5. z.told # "connected" /\ (x.told = "ended" => z.told = "ended")
    BY <2>1, <2>3 DEF SameSock
  <2>6. EndOK(e, z)
    BY <2>3, <2>4, <2>5, ClosedOK
  <2>7. Idle(x, z)
    BY <2>1, <2>3, <2>5 DEF SameSock, SameConn, Idle
  <2> QED
    BY <2>3, <2>6, <2>7 DEF z, w
<1> QED
  BY <1>2, <1>3

\* What no part of EndOK is about: retransmissions and the poll flag
LEMMA TouchOK ==
  ASSUME NEW e \in Ends, NEW x, EndOK(e, x), x.st # "CLOSED" \/ x.opens # 0,
         NEW z \in End(e), SameSock(x, z),
         z.st = x.st, z.snd = x.snd, z.rcv = x.rcv, z.len = x.len
  PROVE  EndOK(e, z) /\ Known(e, z) /\ Idle(x, z)
<1>1. Known(e, x)
  BY EndKnown
<1>2. Known(e, z)
  BY <1>1, KnownKept
<1>3. z.st = "CLOSED" => z.told # "connected"
  BY DEF EndOK, SameSock
<1>4. z.st \in {"SYN_SENT", "SYN_RCVD"} => Opening(e, z)
  BY DEF EndOK, Opening, Untold, SameSock
<1>5. z.st = "ESTABLISHED" => Flowing(e, z)
  BY DEF EndOK, Flowing, SameSock
<1>6. z.st \notin {"CLOSED", "SYN_SENT", "SYN_RCVD", "ESTABLISHED"} => Closing(e, z)
  BY DEF EndOK, Closing, SameSock
<1>7. EndOK(e, z)
  BY <1>2, <1>3, <1>4, <1>5, <1>6, KnownFacts DEF EndOK, Known
<1>8. Idle(x, z)
  BY DEF Idle, SameSock
<1> QED
  BY <1>2, <1>7, <1>8

\* The poll of an established connection with nothing outstanding
LEMMA PolledStep ==
  ASSUME NEW e \in Ends, NEW x, EndOK(e, x), x.st = "ESTABLISHED", x.len = 0, NEW odd
  PROVE  LET r == appsend(appcall(x, {"POLL"}, <<>>)) IN Step(e, r, odd) /\ Idle(x, r.x)
<1>1. Known(e, x) /\ Flowing(e, x)
  BY EndKnown DEF EndOK
<1>2. x.got \in Seq(Bytes(Other(e))) /\ x.nxt \in Nat /\ Len(x.got) \in Nat
  BY <1>1, KnownFacts
<1> DEFINE d == <<>>
<1>3. d \in Seq(Bytes(Other(e))) /\ x.got \o d = x.got /\ Len(x.got) + Len(d) = Len(x.got)
      /\ d = <<>>
  BY <1>2
<1> HIDE DEF d
<1>4. IF x.att THEN x.told = "connected" ELSE UnlistenLate /\ x.told = "none" /\ x.nxt = 0
  BY <1>1 DEF Flowing
<1>5. /\ x.len <= x.nxt
      /\ ~SendWhileBusy => /\ x.len = 0 \/ x.len = Min(Len(x.out), Mss)
                           /\ x.snd = At(e, x.conf)
      /\ ~UnlistenLate => x.rcv = At(Other(e), Len(x.got) + Len(d))
  BY <1>1, <1>3 DEF Flowing
<1> DEFINE f == {"POLL"}
<1>6. f \in SUBSET {"ACKDATA", "NEWDATA", "POLL"} /\ f # {} /\ "ACKDATA" \notin f
  OBVIOUS
<1> HIDE DEF f
<1> DEFINE r == appsend(appcall(x, f, d))
<1>7. /\ Step(e, r, odd) /\ r.x.st \in {"ESTABLISHED", "FIN_WAIT_1"}
      /\ r.x.wrote = x.wrote /\ r.x.opens = x.opens /\ r.x.rcv = x.rcv
      /\ r.x.got = (IF x.att THEN x.got \o d ELSE x.got)
      /\ r.x.conf = (IF x.att /\ "ACKDATA" \in f THEN x.conf + x.nxt ELSE x.conf)
  <2>1. Asked(e, x, f, d)
    BY <1>1, <1>3, <1>4, <1>5, <1>6 DEF Asked
  <2> QED
    BY <2>1, OpenStep
<1> HIDE DEF r
<1>8. x.told # "ended"
  BY <1>4
<1>9. Idle(x, r.x)
  BY <1>3, <1>6, <1>7, <1>8 DEF Idle
<1> QED
  BY <1>7, <1>9 DEF r, f, d

LEMMA RexmitStep ==
  ASSUME NEW e \in Ends, NEW x, EndOK(e, x), x.len > 0, NEW odd,
         x.st \notin {"CLOSED", "FIN_WAIT_2", "TIME_WAIT"}
  PROVE  LET r == Rexmit(x) IN Step(e, r, odd) /\ Idle(x, r.x)
<1>1. Known(e, x) /\ Idle(x, x)
  BY EndKnown DEF Idle
<1>2. CASE x.st = "SYN_RCVD"
  <2>1. Rexmit(x) = SendNoData(x, {"SYN", "ACK"})
    BY <1>2 DEF Rexmit
  <2> QED
    BY <1>1, <1>2, <2>1, StepPlain DEF Plain
<1>3. CASE x.st = "SYN_SENT"
  <2>1. Rexmit(x) = SendNoData(x, {"SYN"})
    BY <1>3 DEF Rexmit
  <2> QED
    BY <1>1, <1>3, <2>1, StepPlain DEF Plain
<1>4. CASE x.st \in {"FIN_WAIT_1", "CLOSING", "LAST_ACK"}
  <2>1. Rexmit(x) = SendNoData(x, {"FIN", "ACK"})
    BY <1>4 DEF Rexmit
  <2> QED
    BY <1>1, <1>4, <2>1, StepPlain DEF Plain
<1>5. CASE x.st = "ESTABLISHED"
  <2> DEFINE a == appcall(x, {"REXMIT"}, <<>>)
  <2>1. Flowing(e, x) /\ x \in End(e) /\ Buffer(x)
    BY <1>5 DEF EndOK
  <2>2. /\ x.len \in 0 .. Mss /\ x.len \in Nat /\ x.nxt \in Nat /\ x.nxt <= Len(x.out) /\ Len(x.out) \in Nat
        /\ x.got \in Seq(Bytes(Other(e))) /\ Mss \in Nat /\ x.out \in Seq(Bytes(e))
    BY <1>1, KnownFacts
  <2>3. x.len <= x.nxt /\ x.att /\ x.told = "connected"
    BY <2>1, <2>2 DEF Flowing
  <2>4. x.out # <<>>
    BY <2>2, <2>3
  <2>5. /\ a.slen \in 0 .. Mss /\ a.x \in End(e) /\ Buffer(a.x) /\ SameConn(x, a.x)
        /\ a.x.got = x.got \o <<>> /\ a.x.conf = x.conf /\ a.x.out = x.out
        /\ a.x.nxt = a.slen /\ a.slen = Min(Len(a.x.out), Mss)
        /\ \/ a.x.att /\ a.x.told = x.told
           \/ a.fl = {"REXMIT"} /\ "CLOSE" \in a.fl
           \/ a.x.out = <<>>
    <3> DEFINE f == {"REXMIT"}
               d == <<>>
    <3>1. /\ f \in SUBSET {"ACKDATA", "NEWDATA", "CLOSE", "POLL", "REXMIT"}
          /\ f \cap {"REXMIT", "NEWDATA", "ACKDATA", "POLL"} # {}
          /\ "ACKDATA" \notin f /\ d \in Seq(Bytes(Other(e)))
          /\ "NEWDATA" \in f \/ d = <<>>
      OBVIOUS
    <3> HIDE DEF f, d
    <3> DEFINE b == appcall(x, f, d)
    <3>2. /\ b.slen \in 0 .. Mss /\ b.x \in End(e) /\ Buffer(b.x) /\ SameConn(x, b.x)
          /\ b.x.got = x.got \o d /\ b.x.conf = x.conf /\ b.x.out = x.out
          /\ b.x.nxt = b.slen /\ b.slen = Min(Len(b.x.out), Mss)
          /\ \/ b.fl = f /\ "CLOSE" \notin f /\ b.x.att /\ b.x.told = x.told
             \/ /\ b.fl = f \/ (b.fl = {"CLOSE"} /\ b.x.out = <<>>)
                /\ "CLOSE" \in b.fl /\ ~b.x.att /\ b.x.told = "ended"
      BY SMTT(60), <2>1, <2>3, <3>1, AppcallOpen
    <3>3. b = a
      BY DEF f, d
    <3> HIDE DEF b, a
    <3> QED
      BY <3>2, <3>3 DEF f, d
  <2> HIDE DEF a
  <2>6. a.x.att /\ a.x.told = "connected" /\ a.x.got = x.got
    <3>1. x.got \o <<>> = x.got
      BY <2>2
    <3> QED
      BY <2>3, <2>4, <2>5, <3>1
  <2> DEFINE z == a.x
  <2>7. /\ z.st = x.st /\ z.snd = x.snd /\ z.rcv = x.rcv /\ z.len = x.len /\ z.opens = x.opens
        /\ z.wrote = x.wrote /\ z.port = x.port
    BY <2>5 DEF SameConn
  <2>8. Known(e, z)
    BY <1>1, <2>5, KnownCalled
  <2>9. Flowing(e, z)
    <3>1. z.len <= z.nxt
      <4>1. x.len <= Min(Len(x.out), Mss)
        <5>1. x.len <= Len(x.out) /\ x.len <= Mss
          BY <2>2, <2>3
        <5> QED
          BY <5>1 DEF Min
      <4> QED
        BY <2>5, <2>7, <4>1
    <3>2. ~SendWhileBusy => x.len = Min(Len(x.out), Mss) /\ x.snd = At(e, x.conf)
      BY <2>1, <2>2 DEF Flowing
    <3>3. ~SendWhileBusy => z.nxt = z.len /\ z.len = Min(Len(z.out), Mss) /\ z.snd = At(e, z.conf)
      BY <2>5, <2>7, <3>2
    <3>4. ~UnlistenLate => z.rcv = At(Other(e), Len(z.got))
      BY <2>1, <2>6, <2>7 DEF Flowing
    <3> QED
      BY <2>6, <3>1, <3>3, <3>4 DEF Flowing
  <2>10. z.st = "ESTABLISHED" /\ z.opens # 0 /\ z \in End(e) /\ Buffer(z) /\ PortOK(e, z)
    BY <1>5, <2>7, <2>8, KnownFacts DEF Known
  <2>11. EndOK(e, z)
    BY <2>9, <2>10 DEF EndOK
  <2>12. Rexmit(x) = apprexmit(Called(z, a.slen, a.fl))
    <3>1. Rexmit(x) = apprexmit(a)
      BY <1>5 DEF Rexmit, a
    <3>2. apprexmit(a) = apprexmit(Called(z, a.slen, a.fl))
      BY DEF apprexmit, Called
    <3> QED
      BY <3>1, <3>2
  <2>13. Idle(x, z)
    BY <2>5, <2>6, <2>7, <2>3 DEF Idle
  <2> HIDE DEF z
  <2>14. LET r == apprexmit(Called(z, a.slen, a.fl)) IN r.x = z /\ Step(e, r, odd)
    BY <2>10, <2>11, StepRexmit
  <2> QED
    BY <2>12, <2>13, <2>14
<1>6. x.st \in States
  BY <1>1, KnownFacts
<1> QED
  BY <1>2, <1>3, <1>4, <1>5, <1>6 DEF States

LEMMA TimerStep ==
  ASSUME NEW e \in Ends, NEW x, EndOK(e, x), x.st # "CLOSED", NEW odd
  PROVE  LET r == uip_timer(x) IN Step(e, r, odd) /\ Idle(x, r.x)
<1>1. Known(e, x) /\ (~x.att => x.told # "connected")
  BY EndKnown
<1>2. /\ x \in End(e) /\ x.len \in Nat /\ x.nrtx \in 0 .. MaxRtx /\ MaxRtx \in Nat
      /\ x.st \in States
  BY <1>1, KnownFacts
<1>3. CASE x.st \in {"TIME_WAIT", "FIN_WAIT_2"}
  <2> DEFINE z == [x EXCEPT !.st = "CLOSED"]
  <2>1. uip_timer(x) = Drop(z)
    BY <1>3 DEF uip_timer
  <2>2. z \in End(e) /\ SameSock(x, z) /\ z.st = "CLOSED" /\ z.rcv = x.rcv
    BY <1>2 DEF End, SameSock, States
  <2> HIDE DEF z
  <2>3. x.told # "connected"
    BY <1>3 DEF EndOK, Closing
  <2>4. Known(e, z) /\ z.told # "connected"
    BY <1>1, <2>2, <2>3, KnownKept DEF SameSock
  <2>5. EndOK(e, z)
    BY <2>2, <2>4, ClosedOK
  <2>6. Idle(x, z)
    BY <2>2 DEF SameSock, Idle
  <2> QED
    BY <2>1, <2>5, <2>6, StepDrop
<1>4. CASE x.st \notin {"TIME_WAIT", "FIN_WAIT_2"} /\ x.len > 0 /\ GivenUp(x)
  <2> DEFINE z == appcall([x EXCEPT !.st = "CLOSED"], {"TIMEDOUT"}, <<>>).x
  <2>1. uip_timer(x) = SendNoData(z, {"RST", "ACK"})
    BY <1>4 DEF uip_timer
  <2>2. EndOK(e, z) /\ z.st = "CLOSED" /\ Idle(x, z)
    BY <1>1, GoneFacts
  <2> HIDE DEF z
  <2>3. SendNoData(z, {"RST", "ACK"}).x = z /\ Step(e, SendNoData(z, {"RST", "ACK"}), odd)
    BY <2>2, StepPlain DEF Plain
  <2> QED
    BY <2>1, <2>2, <2>3
<1>5. CASE x.st \notin {"TIME_WAIT", "FIN_WAIT_2"} /\ x.len > 0 /\ ~GivenUp(x)
  <2> DEFINE m == x.nrtx + 1
             z == [x EXCEPT !.nrtx = m]
  <2>1. uip_timer(x) = Rexmit(z)
    BY <1>5 DEF uip_timer
  <2>2. m \in 0 .. MaxRtx
    BY <1>2, <1>5 DEF GivenUp
  <2> HIDE DEF m
  <2>3. /\ z \in End(e) /\ SameSock(x, z) /\ z.st = x.st /\ z.snd = x.snd /\ z.rcv = x.rcv
        /\ z.len = x.len
    BY <1>2, <2>2 DEF End, SameSock
  <2> HIDE DEF z
  <2>4. EndOK(e, z) /\ Idle(x, z)
    BY <2>3, TouchOK
  <2>5. z.len > 0 /\ z.st \notin {"CLOSED", "FIN_WAIT_2", "TIME_WAIT"}
    BY <1>5, <2>3
  <2>6. LET r == Rexmit(z) IN Step(e, r, odd) /\ Idle(z, r.x)
    BY <2>4, <2>5, RexmitStep
  <2>7. Idle(x, Rexmit(z).x)
    BY <2>3, <2>4, <2>6 DEF Idle
  <2> QED
    BY <2>1, <2>6, <2>7
<1>6. CASE x.st \notin {"TIME_WAIT", "FIN_WAIT_2"} /\ ~(x.len > 0)
  <2>1. uip_timer(x) = appsend(appcall(x, {"POLL"}, <<>>))
    BY <1>6 DEF uip_timer
  <2>2. x.len = 0
    BY <1>2, <1>6
  <2>3. x.st = "ESTABLISHED"
    BY <1>2, <1>6, <2>2 DEF EndOK, Opening, Closing, States
  <2> QED
    BY <2>1, <2>2, <2>3, PolledStep
<1> QED
  BY <1>3, <1>4, <1>5, <1>6

LEMMA PollStep ==
  ASSUME NEW e \in Ends, NEW x, EndOK(e, x), x.poll, NEW odd
  PROVE  LET r == uip_poll([x EXCEPT !.poll = FALSE]) IN Step(e, r, odd) /\ Idle(x, r.x)
<1> DEFINE z == [x EXCEPT !.poll = FALSE]
<1>0. x.opens # 0
  BY DEF EndOK, Unopened
<1>1. Known(e, x) /\ x \in End(e)
  BY <1>0, EndKnown DEF EndOK
<1>2. /\ z \in End(e) /\ SameSock(x, z) /\ z.st = x.st /\ z.snd = x.snd /\ z.rcv = x.rcv
      /\ z.len = x.len
  BY <1>1 DEF End, SameSock
<1> HIDE DEF z
<1>3. EndOK(e, z) /\ Idle(x, z)
  BY <1>0, <1>2, TouchOK
<1>4. CASE z.st = "ESTABLISHED" /\ z.len = 0
  <2> DEFINE r == appsend(appcall(z, {"POLL"}, <<>>))
  <2>1. uip_poll(z) = r
    BY <1>4 DEF uip_poll
  <2>2. Step(e, r, odd) /\ Idle(z, r.x)
    BY <1>3, <1>4, PolledStep
  <2> HIDE DEF r
  <2>3. Idle(x, r.x)
    BY <1>2, <1>3, <2>2 DEF Idle
  <2> QED
    BY <2>1, <2>2, <2>3 DEF z
<1>5. CASE z.st = "SYN_SENT"
  <2>1. uip_poll(z) = SendNoData(z, {"SYN"})
    BY <1>5 DEF uip_poll
  <2> QED
    <3>1. SendNoData(z, {"SYN"}).x = z /\ Step(e, SendNoData(z, {"SYN"}), odd)
      BY <1>3, <1>5, StepPlain DEF Plain
    <3> QED
      BY <1>3, <2>1, <3>1 DEF z
<1>6. CASE ~(z.st = "ESTABLISHED" /\ z.len = 0) /\ z.st # "SYN_SENT"
  <2>1. uip_poll(z) = Drop(z)
    BY <1>6 DEF uip_poll
  <2> QED
    BY <1>3, <2>1, StepDrop DEF z
<1> QED
  BY <1>4, <1>5, <1>6

-------------------------------------------------------------------------------
(* uip_process: a segment arrives.                                            *)

\* What every segment for e is like
Segm(e, s) ==
  /\ s \in Message(Other(e)) /\ (s.fl = {"ACK"} \/ s.data = <<>>)
  /\ s.fl = {"SYN"} => e # Client
  /\ s.fl = {"SYN", "ACK"} => e = Client
  /\ "SYN" \in s.fl => s.seq = Iss[Other(e)]

Odd(s) == s.data # <<>> \/ "FIN" \in s.fl

Handshake == {"CLOSED", "SYN_SENT", "SYN_RCVD"}

\* What a segment s that arrives does to an end: the bytes it takes are the
\* next ones, and what it reports as sent is acknowledged
Moves(x, z, s) ==
  /\ z.wrote = x.wrote /\ (x.told = "ended" => z.told = "ended")
  /\ Opened(x) => Opened(z)
  /\ z.st \in Handshake \/ x.st \notin Handshake \/ ("ACK" \in s.fl /\ "RST" \notin s.fl)
  /\ \/ z.got = x.got
     \/ /\ z.got = x.got \o s.data /\ s.data # <<>> /\ s.seq = x.rcv
        /\ x.st \in {"SYN_RCVD", "ESTABLISHED"}
  /\ \/ z.conf = x.conf
     \/ /\ z.conf = x.conf + x.nxt /\ x.st = "ESTABLISHED" /\ Acks(x, s)
        /\ "RST" \notin s.fl
  /\ \/ z.st \in Handshake \cup {"ESTABLISHED"}
     \/ z.rcv = x.rcv /\ x.st \notin Handshake
     \/ /\ z.rcv = Add32(x.rcv, IF "FIN" \in s.fl THEN 1 ELSE Len(s.data))
        /\ s.seq = x.rcv /\ x.st \notin Handshake /\ Odd(s)

LEMMA IdleMoves ==
  ASSUME NEW x, NEW z, NEW s, Idle(x, z)
  PROVE  Moves(x, z, s)
<1>1. Opened(x) => Opened(z)
  BY DEF Idle, Opened
<1>2. z.st \in Handshake \/ x.st \notin Handshake
  BY DEF Idle, Handshake
<1>3. z.st \in Handshake \cup {"ESTABLISHED"} \/ x.st \notin Handshake
  BY DEF Idle, Handshake
<1> QED
  BY <1>1, <1>2, <1>3 DEF Idle, Moves

LEMMA SegmFacts ==
  ASSUME NEW e \in Ends, NEW s, Segm(e, s)
  PROVE  /\ s.data \in Seq(Bytes(Other(e))) /\ Len(s.data) \in Nat
         /\ s.data = <<>> <=> Len(s.data) = 0
         /\ s.seq \in Numbers /\ s.ack \in Numbers
         /\ s.fl \in {{"SYN"}, {"SYN", "ACK"}, {"ACK"}, {"FIN", "ACK"}, {"RST", "ACK"}}
<1>1. /\ s.data \in Seq(Bytes(Other(e))) /\ s.seq \in Numbers /\ s.ack \in Numbers
      /\ s.fl \in {{"SYN"}, {"SYN", "ACK"}, {"ACK"}, {"FIN", "ACK"}, {"RST", "ACK"}}
  BY DEF Segm, Message
<1> HIDE DEF Segm
<1>2. Len(s.data) \in Nat /\ (s.data = <<>> <=> Len(s.data) = 0)
  BY <1>1
<1> QED
  BY <1>1, <1>2

LEMMA ResetStep ==
  ASSUME NEW e \in Ends, NEW z, EndOK(e, z), z.st = "CLOSED", NEW s, Segm(e, s), NEW odd
  PROVE  Reset(z, s).x = z /\ Step(e, Reset(z, s), odd)
<1>1. CASE "RST" \in s.fl
  <2>1. Reset(z, s) = Drop(z)
    BY <1>1 DEF Reset
  <2> QED
    BY <2>1, StepDrop
<1>2. CASE "RST" \notin s.fl
  <2> DEFINE n == Add32(s.seq, 1)
             t == [fl |-> {"RST", "ACK"}, seq |-> s.ack, ack |-> n, data |-> <<>>]
  <2>1. Reset(z, s) = Sends(z, {t})
    BY <1>2 DEF Reset
  <2>2. n \in Numbers /\ s.ack \in Numbers
    BY SegmFacts, Positions
  <2> HIDE DEF n
  <2>3. t \in Message(e) /\ t.fl = {"RST", "ACK"} /\ t.data = <<>>
    BY <2>2 DEF Message
  <2> HIDE DEF t
  <2>4. SegOK(e, z, t)
    BY <2>3 DEF SegOK
  <2>5. Sent(e, z, t) /\ "RST" \in t.fl
    BY <2>3, <2>4 DEF Sent
  <2>6. Sends(z, {t}).x = z /\ Sends(z, {t}).tx = {t} /\ IsFiniteSet({t})
    BY FS_Singleton DEF Sends
  <2>7. Step(e, Sends(z, {t}), odd)
    BY <2>5, <2>6 DEF Step
  <2> QED
    BY <2>1, <2>6, <2>7
<1> QED
  BY <1>1, <1>2

LEMMA AckFacts ==
  ASSUME NEW e \in Ends, NEW x, Known(e, x)
  PROVE  LET z == Acknowledge(x) IN
           /\ Known(e, z) /\ SameSock(x, z) /\ z.st = x.st /\ z.rcv = x.rcv /\ z.nrtx = x.nrtx
           /\ z.snd = Add32(x.snd, x.len) /\ z.len = 0
<1> DEFINE n == Add32(x.snd, x.len)
           z == [x EXCEPT !.snd = n, !.len = 0]
<1>1. Acknowledge(x) = z
  BY DEF Acknowledge
<1>2. x \in End(e) /\ n \in Numbers /\ 0 \in 0 .. Mss
  <2>1. x \in End(e) /\ x.snd \in Numbers /\ x.len \in Nat /\ Mss \in Nat
    BY KnownFacts
  <2> QED
    BY SMTT(30), <2>1, Positions
<1> HIDE DEF n
<1>3. z \in End(e)
  BY <1>2 DEF End
<1>4. SameSock(x, z) /\ z.st = x.st /\ z.rcv = x.rcv /\ z.snd = n /\ z.len = 0 /\ z.nrtx = x.nrtx
  BY <1>2 DEF End, SameSock
<1> HIDE DEF z
<1>5. Known(e, z)
  BY <1>3, <1>4, KnownKept
<1> QED
  BY <1>1, <1>4, <1>5 DEF n

LEMMA ReceiveFacts ==
  ASSUME NEW e \in Ends, NEW x, Known(e, x), NEW n \in Nat
  PROVE  LET z == Receive(x, n) IN
           /\ Known(e, z) /\ SameSock(x, z) /\ z.st = x.st /\ z.nrtx = x.nrtx
           /\ z.snd = x.snd /\ z.len = x.len
           /\ z.rcv = Add32(x.rcv, n) /\ (n = 0 => z.rcv = x.rcv)
<1> DEFINE a == Add32(x.rcv, n)
           z == [x EXCEPT !.rcv = a]
<1>1. Receive(x, n) = z
  BY DEF Receive
<1>2. x \in End(e) /\ a \in Numbers
  BY KnownFacts, Positions
<1>3. n = 0 => a = x.rcv
  <2>1. x.rcv \in Numbers /\ x.rcv \in Nat
    BY KnownFacts, TcpAssumption DEF Numbers
  <2> QED
    BY <2>1, Numbering DEF Add32
<1> HIDE DEF a
<1>4. z \in End(e)
  BY <1>2 DEF End
<1>5. SameSock(x, z) /\ z.st = x.st /\ z.snd = x.snd /\ z.len = x.len /\ z.rcv = a /\ z.nrtx = x.nrtx
  BY <1>2 DEF End, SameSock
<1> HIDE DEF z
<1>6. Known(e, z)
  BY <1>4, <1>5, KnownKept
<1> QED
  BY <1>1, <1>3, <1>5, <1>6 DEF a

\* A new state of the connection
LEMMA StateFacts ==
  ASSUME NEW e \in Ends, NEW x, Known(e, x), NEW st \in States
  PROVE  LET z == [x EXCEPT !.st = st] IN
           /\ Known(e, z) /\ SameSock(x, z) /\ z.st = st /\ z.rcv = x.rcv
           /\ z.snd = x.snd /\ z.len = x.len
<1> DEFINE z == [x EXCEPT !.st = st]
<1>1. x \in End(e)
  BY KnownFacts
<1>2. z \in End(e)
  BY <1>1 DEF End
<1>3. SameSock(x, z) /\ z.st = st /\ z.snd = x.snd /\ z.len = x.len /\ z.rcv = x.rcv
  BY <1>1 DEF End, SameSock
<1> HIDE DEF z
<1>4. Known(e, z)
  BY <1>2, <1>3, KnownKept
<1> QED
  BY <1>3, <1>4 DEF z

LEMMA SynRcvdStep ==
  ASSUME NEW e \in Ends, NEW x, EndOK(e, x), x.st = "SYN_RCVD", NEW s, Segm(e, s),
         "RST" \notin s.fl, Expected(x, s)
  PROVE  LET r == Found(x, s) IN Step(e, r, Odd(s)) /\ Moves(x, r.x, s)
<1>1. Known(e, x) /\ Opening(e, x) /\ Idle(x, x)
  BY EndKnown DEF EndOK, Idle
<1>2. /\ Untold(x) /\ x.len = 1 /\ x.snd = Iss[e] /\ ~x.att /\ x.out = <<>>
      /\ x.rcv = At(Other(e), 0) /\ (x.port \/ UnlistenLate)
  BY <1>1 DEF Opening
<1>3. CASE Acks(x, s)
  <2> DEFINE y == Acknowledge(x)
             w == [y EXCEPT !.st = "ESTABLISHED"]
             v == Receive(w, Len(s.data))
             fl == {"CONNECTED"} \cup IF s.data = <<>> THEN {} ELSE {"NEWDATA"}
             r == appsend(appcall(v, fl, s.data))
  <2>1. Found(x, s) = r
    BY <1>3 DEF Found, InSynRcvd
  <2>2. fl \in SUBSET {"CONNECTED", "NEWDATA"} /\ "CONNECTED" \in fl
    OBVIOUS
  <2> HIDE DEF fl
  <2>3. /\ Known(e, y) /\ SameSock(x, y) /\ y.rcv = x.rcv
        /\ y.snd = Add32(x.snd, x.len) /\ y.len = 0
    BY <1>1, AckFacts
  <2> HIDE DEF y
  <2>4. Known(e, w) /\ SameSock(y, w) /\ w.st = "ESTABLISHED" /\ w.rcv = y.rcv
        /\ w.snd = y.snd /\ w.len = y.len
    <3>1. "ESTABLISHED" \in States
      BY DEF States
    <3> QED
      BY <2>3, <3>1, StateFacts
  <2> HIDE DEF w
  <2>5. Len(s.data) \in Nat /\ s.data \in Seq(Bytes(Other(e)))
    BY SegmFacts
  <2>6. /\ Known(e, v) /\ SameSock(w, v) /\ v.st = w.st
        /\ v.snd = w.snd /\ v.len = w.len /\ v.rcv = Add32(w.rcv, Len(s.data))
    BY <2>4, <2>5, ReceiveFacts
  <2> HIDE DEF v
  <2>7. SameSock(x, v) /\ v.st = "ESTABLISHED" /\ v.len = 0
        /\ v.snd = Add32(Iss[e], 1) /\ v.rcv = Add32(At(Other(e), 0), Len(s.data))
    BY <1>2, <2>3, <2>4, <2>6 DEF SameSock
  <2>8. v.snd = At(e, 0) /\ v.rcv = At(Other(e), Len(s.data))
    <3>1. Other(e) \in Ends
      BY TwoEnds
    <3> QED
      BY SMTT(60), <2>5, <2>7, <3>1, Positions
  <2>9. Greeted(e, v, fl, s.data)
    <3>1. Untold(v) /\ v.out = <<>> /\ (v.port \/ UnlistenLate)
      BY <1>2, <2>7 DEF SameSock, Untold
    <3> QED
      BY <2>2, <2>5, <2>6, <2>7, <2>8, <3>1 DEF Greeted
  <2>10. /\ Step(e, r, Odd(s)) /\ r.x.st \in {"CLOSED", "ESTABLISHED"}
         /\ r.x.wrote = v.wrote /\ r.x.opens = v.opens /\ r.x.rcv = v.rcv
         /\ r.x.got = <<>> \/ r.x.got = s.data
         /\ r.x.conf = v.conf
    BY <2>9, ConnectedStep
  <2> HIDE DEF r
  <2>11. r.x.got = x.got \/ (r.x.got = x.got \o s.data /\ s.data # <<>> /\ s.seq = x.rcv)
    <3>1. x.got = <<>> /\ x.got \o s.data = s.data
      BY <1>2, <2>5 DEF Untold
    <3>2. s.data # <<>> => s.seq = x.rcv
      BY <1>3 DEF Expected, Acks
    <3> QED
      BY <2>10, <3>1, <3>2
  <2>12. Moves(x, r.x, s)
    <3>1. x.told # "ended" /\ "ACK" \in s.fl
      BY <1>2, <1>3 DEF Untold, Acks
    <3>2. Opened(x) => Opened(r.x)
      BY <2>7, <2>10 DEF Opened, SameSock
    <3> QED
      BY <2>7, <2>10, <2>11, <3>1, <3>2 DEF Moves, SameSock, Handshake
  <2> QED
    BY <2>1, <2>10, <2>12
<1>4. CASE ~Acks(x, s)
  <2>1. Found(x, s) = SendNoData(x, {"SYN", "ACK"}) \/ Found(x, s) = Drop(x)
    BY <1>4 DEF Found, InSynRcvd
  <2>2. SendNoData(x, {"SYN", "ACK"}).x = x /\ Step(e, SendNoData(x, {"SYN", "ACK"}), Odd(s))
    BY StepPlain DEF Plain
  <2>3. Drop(x).x = x /\ Step(e, Drop(x), Odd(s))
    BY StepDrop
  <2> QED
    BY <1>1, <2>1, <2>2, <2>3, IdleMoves
<1> QED
  BY <1>3, <1>4

LEMMA SynSentStep ==
  ASSUME NEW e \in Ends, NEW x, EndOK(e, x), x.st = "SYN_SENT", NEW s, Segm(e, s),
         "RST" \notin s.fl, Expected(x, s)
  PROVE  LET r == Found(x, s) IN Step(e, r, Odd(s)) /\ Moves(x, r.x, s)
<1>1. Known(e, x) /\ Opening(e, x)
  BY EndKnown DEF EndOK
<1>2. Untold(x) /\ x.len = 1 /\ x.snd = Iss[e] /\ x.att /\ e = Client
  BY <1>1 DEF Opening
<1> DEFINE y == IF Acks(x, s) THEN Acknowledge(x) ELSE x
<1>3. /\ Known(e, y) /\ SameSock(x, y) /\ y.st = x.st /\ y.rcv = x.rcv
      /\ Acks(x, s) => y.snd = Add32(Iss[e], 1) /\ y.len = 0
  <2>1. CASE Acks(x, s)
    BY <1>1, <1>2, <2>1, AckFacts
  <2>2. CASE ~Acks(x, s)
    BY <1>1, <2>2 DEF SameSock
  <2> QED
    BY <2>1, <2>2
<1>4. CASE Acks(x, s) /\ s.fl = {"SYN", "ACK"}
  <2> DEFINE n == Add32(s.seq, 1)
             w == [y EXCEPT !.st = "ESTABLISHED", !.rcv = n]
             fl == {"CONNECTED", "NEWDATA"}
             d == <<>>
             r == appsend(appcall(w, fl, d))
  <2>1. Found(x, s) = r
    BY <1>4 DEF Found, InSynSent
  <2>2. fl \in SUBSET {"CONNECTED", "NEWDATA"} /\ "CONNECTED" \in fl
        /\ d \in Seq(Bytes(Other(e))) /\ Len(d) = 0 /\ d = <<>>
    OBVIOUS
  <2>3. n = At(Other(e), 0) /\ n \in Numbers
    <3>1. Other(e) \in Ends /\ s.seq = Iss[Other(e)]
      BY <1>4, TwoEnds DEF Segm
    <3> QED
      BY <3>1, Positions
  <2> HIDE DEF fl, d, n, y
  <2>4. y \in End(e)
    BY <1>3, KnownFacts
  <2>5. w \in End(e) /\ SameSock(y, w) /\ w.st = "ESTABLISHED" /\ w.rcv = n
        /\ w.snd = y.snd /\ w.len = y.len
    <3>1. w \in End(e)
      BY <2>3, <2>4 DEF End, States
    <3> QED
      BY <2>4, <3>1 DEF End, SameSock
  <2> HIDE DEF w
  <2>6. Known(e, w)
    BY <1>3, <2>5, KnownKept
  <2>7. SameSock(x, w) /\ w.len = 0 /\ w.snd = At(e, 0)
    <3>1. Add32(Iss[e], 1) = At(e, 0)
      BY Positions
    <3> QED
      BY <1>3, <1>4, <2>5, <3>1 DEF SameSock
  <2>8. Greeted(e, w, fl, d)
    <3>1. Untold(w) /\ w.att
      BY <1>2, <2>7 DEF SameSock, Untold
    <3>2. w.rcv = At(Other(e), Len(d))
      BY <2>2, <2>3, <2>5
    <3> QED
      BY <2>2, <2>5, <2>6, <2>7, <3>1, <3>2 DEF Greeted
  <2>9. /\ Step(e, r, Odd(s)) /\ r.x.st \in {"CLOSED", "ESTABLISHED"}
        /\ r.x.wrote = w.wrote /\ r.x.opens = w.opens /\ r.x.rcv = w.rcv
        /\ r.x.got = <<>> \/ r.x.got = d
        /\ r.x.conf = w.conf
    BY <2>8, ConnectedStep
  <2> HIDE DEF r
  <2>10. Moves(x, r.x, s)
    <3>1. x.told # "ended" /\ "ACK" \in s.fl /\ x.got = <<>>
      BY <1>2, <1>4 DEF Untold, Acks
    <3>2. Opened(x) => Opened(r.x)
      BY DEF Opened
    <3> QED
      BY <2>2, <2>7, <2>9, <3>1, <3>2 DEF Moves, SameSock, Handshake
  <2> QED
    BY <2>1, <2>9, <2>10
<1>5. CASE ~(Acks(x, s) /\ s.fl = {"SYN", "ACK"})
  <2> DEFINE z == [appcall(y, {"ABORT"}, <<>>).x EXCEPT !.st = "CLOSED"]
  <2>1. Found(x, s) = Reset(z, s)
    BY <1>5 DEF Found, InSynSent
  <2> HIDE DEF y
  <2>2. y.att
    BY <1>2, <1>3 DEF SameSock
  <2>3. EndOK(e, z) /\ z.st = "CLOSED" /\ Idle(y, z)
    BY <1>3, <2>2, GoneFacts
  <2> HIDE DEF z
  <2>4. Idle(x, z)
    BY <1>3, <2>3 DEF Idle, SameSock
  <2>5. Reset(z, s).x = z /\ Step(e, Reset(z, s), Odd(s))
    BY <2>3, ResetStep
  <2> QED
    BY <2>1, <2>4, <2>5, IdleMoves
<1> QED
  BY <1>4, <1>5

LEMMA EstablishedStep ==
  ASSUME NEW e \in Ends, NEW x, EndOK(e, x), x.st = "ESTABLISHED", NEW s, Segm(e, s),
         "RST" \notin s.fl, Expected(x, s)
  PROVE  LET r == Found(x, s) IN Step(e, r, Odd(s)) /\ Moves(x, r.x, s)
<1>1. Known(e, x) /\ Flowing(e, x) /\ Idle(x, x)
  BY EndKnown DEF EndOK, Idle
<1> DEFINE y == IF Acks(x, s) THEN Acknowledge(x) ELSE x
           fl == IF Acks(x, s) THEN {"ACKDATA"} ELSE {}
           n == Len(s.data)
           new == IF n > 0 THEN {"NEWDATA"} ELSE {}
<1>2. Found(x, s) = InEstablished(y, s, fl)
  BY DEF Found
<1>3. /\ n \in Nat /\ s.data \in Seq(Bytes(Other(e))) /\ (s.data = <<>> <=> n = 0)
      /\ Other(e) \in Ends
  BY SegmFacts, TwoEnds
<1>4. /\ IF x.att THEN x.told = "connected" ELSE UnlistenLate /\ x.told = "none" /\ x.nxt = 0
      /\ x.len <= x.nxt /\ x.len \in Nat /\ x.nxt \in Nat /\ x.conf \in Nat
      /\ ~SendWhileBusy => /\ x.nxt = x.len
                           /\ x.len = 0 \/ x.len = Min(Len(x.out), Mss)
                           /\ x.snd = At(e, x.conf)
      /\ ~UnlistenLate => x.rcv = At(Other(e), Len(x.got))
      /\ Len(x.got) \in Nat /\ x.got \in Seq(Bytes(Other(e)))
  BY <1>1, KnownFacts DEF Flowing
<1>5. Acks(x, s) => x.att /\ x.len > 0
  BY <1>4 DEF Acks
<1>6. /\ Known(e, y) /\ SameSock(x, y) /\ y.st = x.st /\ y.rcv = x.rcv
      /\ IF Acks(x, s) THEN y.len = 0 /\ y.snd = Add32(x.snd, x.len)
         ELSE y.len = x.len /\ y.snd = x.snd
  <2>1. CASE Acks(x, s)
    BY <1>1, <2>1, AckFacts
  <2>2. CASE ~Acks(x, s)
    BY <1>1, <2>2 DEF SameSock
  <2> QED
    BY <2>1, <2>2
<1>7. Acks(x, s) /\ ~SendWhileBusy => y.snd = At(e, x.conf + x.nxt)
  <2>1. Add32(At(e, x.conf), x.len) = At(e, x.conf + x.len)
    BY <1>4, Positions
  <2> QED
    BY <1>4, <1>6, <2>1
<1>8. ~(x.st = "SYN_SENT") /\ (n > 0 \/ "FIN" \in s.fl => s.seq = x.rcv)
  BY <1>3 DEF Expected
<1>9. /\ "ACKDATA" \in fl <=> Acks(x, s)
      /\ "NEWDATA" \in new <=> n > 0
      /\ fl \subseteq {"ACKDATA"} /\ new \subseteq {"NEWDATA"}
  OBVIOUS
<1> HIDE DEF y, fl, new
<1>10. CASE "FIN" \in s.fl /\ y.len > 0
  <2>1. Found(x, s) = Drop(y)
    BY <1>2, <1>10 DEF InEstablished
  <2>2. y = x
    BY <1>6, <1>10 DEF y
  <2> QED
    BY <1>1, <2>1, <2>2, StepDrop, IdleMoves
<1>11. CASE "FIN" \in s.fl /\ ~(y.len > 0)
  <2> DEFINE v == Receive(y, 1 + n)
             g == fl \cup new \cup {"CLOSE"}
             a == appcall(v, g, s.data)
             z == [a.x EXCEPT !.len = 1, !.st = "LAST_ACK", !.nrtx = 0]
  <2>1. Found(x, s) = SendNoData(z, {"FIN", "ACK"})
    <3>1. InEstablished(y, s, fl) = SendNoData(z, {"FIN", "ACK"})
      BY <1>11 DEF InEstablished, new
    <3> QED
      BY <1>2, <3>1
  <2>2. n = 0 /\ s.data = <<>> /\ 1 + n = 1
    <3>1. s.data = <<>>
      BY <1>11 DEF Segm
    <3> QED
      BY <1>3, <3>1
  <2>3. /\ Known(e, v) /\ SameSock(y, v) /\ v.st = y.st /\ v.snd = y.snd /\ v.len = y.len
        /\ v.rcv = Add32(y.rcv, 1)
    <3>1. 1 + n \in Nat
      BY <1>3
    <3>2. /\ Known(e, v) /\ SameSock(y, v) /\ v.st = y.st /\ v.snd = y.snd /\ v.len = y.len
          /\ v.rcv = Add32(y.rcv, 1 + n)
      BY <1>6, <3>1, ReceiveFacts
    <3> QED
      BY <2>2, <3>2
  <2> HIDE DEF v
  <2>4. /\ SameSock(x, v) /\ v.att = x.att /\ v.told = x.told /\ v.nxt = x.nxt /\ v.conf = x.conf
        /\ v.got = x.got /\ v.wrote = x.wrote /\ v.opens = x.opens
        /\ v.rcv = Add32(x.rcv, 1)
    BY <1>6, <2>3 DEF SameSock
  <2>5. /\ g \in SUBSET {"ACKDATA", "NEWDATA", "CLOSE", "POLL", "REXMIT"} /\ "CLOSE" \in g
        /\ "ACKDATA" \in g <=> Acks(x, s)
        /\ "CONNECTED" \notin g
    BY <1>9
  <2> HIDE DEF g
  <2>6. /\ a.x \in End(e) /\ Buffer(a.x) /\ SameConn(v, a.x) /\ a.x.got = x.got
        /\ IF Acks(x, s) /\ x.att THEN a.x.conf = x.conf + x.nxt ELSE a.x.conf = x.conf
        /\ ~a.x.att /\ (IF x.att THEN a.x.told = "ended" ELSE a.x.told = x.told)
    <3>1. v \in End(e) /\ Buffer(v)
      BY <2>3 DEF Known
    <3>2. CASE x.att
      <4>1. v.att /\ ("NEWDATA" \in g \/ s.data = <<>>)
        BY <2>2, <2>4, <3>2
      <4>2. /\ a.x \in End(e) /\ Buffer(a.x) /\ SameConn(v, a.x)
            /\ a.x.got = v.got \o s.data
            /\ IF "ACKDATA" \in g THEN a.x.conf = v.conf + v.nxt
               ELSE a.x.conf = v.conf /\ a.x.out = v.out
            /\ \/ a.fl = g /\ "CLOSE" \notin g /\ a.x.att /\ a.x.told = v.told
               \/ /\ a.fl = g \/ (a.fl = {"CLOSE"} /\ a.x.out = <<>>)
                  /\ "CLOSE" \in a.fl /\ ~a.x.att /\ a.x.told = "ended"
        <5> DEFINE d == s.data
        <5>1. d \in Seq(Bytes(Other(e))) /\ ("NEWDATA" \in g \/ d = <<>>)
          BY <1>3, <4>1
        <5> HIDE DEF d
        <5> DEFINE b == appcall(v, g, d)
        <5>2. /\ b.x \in End(e) /\ Buffer(b.x) /\ SameConn(v, b.x)
              /\ b.x.got = v.got \o d
              /\ IF "ACKDATA" \in g THEN b.x.conf = v.conf + v.nxt
                 ELSE b.x.conf = v.conf /\ b.x.out = v.out
              /\ \/ b.fl = g /\ "CLOSE" \notin g /\ b.x.att /\ b.x.told = v.told
                 \/ /\ b.fl = g \/ (b.fl = {"CLOSE"} /\ b.x.out = <<>>)
                    /\ "CLOSE" \in b.fl /\ ~b.x.att /\ b.x.told = "ended"
          <6>1. g \in SUBSET {"ACKDATA", "NEWDATA", "CLOSE", "POLL", "REXMIT"} /\ v.att
            BY <2>5, <4>1
          <6> QED
            BY <3>1, <5>1, <6>1, AppcallOpen
        <5> QED
          BY <5>2 DEF d
      <4>3. v.got \o s.data = x.got
        BY <1>4, <2>2, <2>4
      <4> HIDE DEF a
      <4> QED
        BY <2>4, <2>5, <3>2, <4>2, <4>3
    <3>3. CASE ~x.att
      <4>1. a = Called(v, 0, g)
        BY <2>4, <2>5, <3>3 DEF appcall
      <4>2. a.x = v
        BY <4>1 DEF Called
      <4> HIDE DEF a
      <4> QED
        BY <2>4, <3>1, <3>3, <4>2 DEF SameConn
    <3> QED
      BY <3>2, <3>3
  <2> HIDE DEF a
  <2> DEFINE w == a.x
  <2>7. Known(e, w) /\ w \in End(e)
    BY <2>3, <2>6, KnownCalled
  <2>8. w.rcv = v.rcv /\ w.wrote = v.wrote /\ w.opens = v.opens /\ w.snd = v.snd
    BY <2>6 DEF SameConn
  <2>m. Mss \in Nat /\ Mss > 0 /\ MaxRtx \in Nat
    BY TcpAssumption
  <2>n. 1 \in 0 .. Mss /\ 0 \in 0 .. MaxRtx
    BY <2>m
  <2>w. ~w.att /\ (IF x.att THEN w.told = "ended" ELSE w.told = x.told) /\ w.got = x.got
        /\ IF Acks(x, s) /\ x.att THEN w.conf = x.conf + x.nxt ELSE w.conf = x.conf
    BY <2>6
  <2> HIDE DEF w
  <2>9. /\ z \in End(e) /\ SameSock(w, z) /\ z.st = "LAST_ACK" /\ z.len = 1
        /\ z.snd = w.snd /\ z.rcv = w.rcv
    <3>1. z = [w EXCEPT !.len = 1, !.st = "LAST_ACK", !.nrtx = 0]
      BY DEF w
    <3> HIDE DEF z
    <3>2. z \in End(e)
      BY <2>7, <2>n, <3>1 DEF End, States
    <3> QED
      BY <2>7, <3>1, <3>2 DEF End, SameSock
  <2> HIDE DEF z
  <2>10. Known(e, z)
    BY <2>7, <2>9, KnownKept
  <2>11. Closing(e, z)
    <3>1. ~z.att /\ (IF UnlistenLate THEN z.told # "connected" ELSE z.told = "ended")
      BY <1>4, <2>9, <2>w DEF SameSock
    <3>2. ~SendWhileBusy => z.snd = At(e, z.conf)
      <4>1. z.snd = y.snd /\ z.conf = w.conf
        BY <2>3, <2>8, <2>9 DEF SameSock
      <4>2. CASE Acks(x, s)
        BY <1>5, <1>7, <2>w, <4>1, <4>2
      <4>3. CASE ~Acks(x, s)
        BY <1>4, <1>6, <2>w, <4>1, <4>3
      <4> QED
        BY <4>2, <4>3
    <3> QED
      BY <2>9, <3>1, <3>2 DEF Closing
  <2>12. EndOK(e, z)
    BY <2>9, <2>10, <2>11, ClosingOK
  <2>13. SendNoData(z, {"FIN", "ACK"}).x = z /\ Step(e, SendNoData(z, {"FIN", "ACK"}), Odd(s))
    BY <2>9, <2>12, StepPlain DEF Plain
  <2>14. Moves(x, z, s)
    <3>1. z.wrote = x.wrote /\ z.got = x.got /\ z.opens = x.opens /\ z.rcv = Add32(x.rcv, 1)
      BY <2>4, <2>8, <2>9, <2>w DEF SameSock
    <3>2. z.conf = x.conf \/ (z.conf = x.conf + x.nxt /\ Acks(x, s))
      BY <2>9, <2>w DEF SameSock
    <3>3. x.told # "ended" /\ x.st \notin Handshake /\ Odd(s) /\ s.seq = x.rcv
      BY <1>4, <1>8, <1>11 DEF Handshake, Odd
    <3>4. Opened(x) => Opened(z)
      BY <2>9, <3>1 DEF Opened
    <3> QED
      BY <1>11, <3>1, <3>2, <3>3, <3>4 DEF Moves
  <2> QED
    BY <2>1, <2>13, <2>14
<1>12. CASE "FIN" \notin s.fl /\ fl \cup new = {}
  <2>1. Found(x, s) = Drop(y)
    BY <1>2, <1>12 DEF InEstablished, new
  <2>2. ~Acks(x, s)
    BY <1>9, <1>12
  <2>3. y = x
    BY <2>2 DEF y
  <2> QED
    BY <1>1, <2>1, <2>3, StepDrop, IdleMoves
<1>13. CASE "FIN" \notin s.fl /\ fl \cup new # {}
  <2> DEFINE v == Receive(y, n)
             g == fl \cup new
             r == appsend(appcall(v, g, s.data))
  <2>1. Found(x, s) = r
    <3>1. InEstablished(y, s, fl) = r
      BY <1>13 DEF InEstablished, new
    <3> QED
      BY <1>2, <3>1
  <2>2. /\ Known(e, v) /\ SameSock(y, v) /\ v.st = y.st /\ v.snd = y.snd /\ v.len = y.len
        /\ v.rcv = Add32(y.rcv, n)
    BY ZenonT(60), <1>3, <1>6, ReceiveFacts
  <2>3. g \in SUBSET {"ACKDATA", "NEWDATA", "POLL"} /\ g # {} /\ ("ACKDATA" \in g <=> Acks(x, s))
        /\ ("NEWDATA" \in g \/ s.data = <<>>)
    BY <1>3, <1>9, <1>13
  <2> HIDE DEF v, g
  <2>4. /\ v.att = x.att /\ v.told = x.told /\ v.nxt = x.nxt /\ v.conf = x.conf /\ v.out = x.out
        /\ v.got = x.got /\ v.wrote = x.wrote /\ v.opens = x.opens
        /\ v.rcv = Add32(x.rcv, n) /\ v.st = "ESTABLISHED"
    BY <1>6, <2>2 DEF SameSock
  <2>5. IF "ACKDATA" \in g
        THEN v.len = 0 /\ (~SendWhileBusy => v.snd = At(e, v.conf + v.nxt))
        ELSE /\ v.len <= v.nxt
             /\ ~SendWhileBusy => /\ v.len = 0 \/ v.len = Min(Len(v.out), Mss)
                                  /\ v.snd = At(e, v.conf)
    <3>1. CASE Acks(x, s)
      BY <1>6, <1>7, <2>2, <2>3, <2>4, <3>1
    <3>2. CASE ~Acks(x, s)
      BY <1>4, <1>6, <2>2, <2>3, <2>4, <3>2
    <3> QED
      BY <3>1, <3>2
  <2>6. ~UnlistenLate => v.rcv = At(Other(e), Len(v.got) + Len(s.data))
    <3>1. Add32(At(Other(e), Len(x.got)), n) = At(Other(e), Len(x.got) + n)
      BY <1>3, <1>4, Positions
    <3> QED
      BY <1>4, <2>4, <3>1
  <2>7. Asked(e, v, g, s.data)
    <3>1. IF v.att THEN v.told = "connected" ELSE UnlistenLate /\ v.told = "none" /\ v.nxt = 0
      BY <1>4, <2>4
    <3> QED
      BY <1>3, <2>2, <2>3, <2>4, <2>5, <2>6, <3>1 DEF Asked
  <2>8. /\ Step(e, r, Odd(s)) /\ r.x.st \in {"ESTABLISHED", "FIN_WAIT_1"}
        /\ r.x.wrote = v.wrote /\ r.x.opens = v.opens /\ r.x.rcv = v.rcv
        /\ r.x.got = (IF v.att THEN v.got \o s.data ELSE v.got)
        /\ r.x.conf = (IF v.att /\ "ACKDATA" \in g THEN v.conf + v.nxt ELSE v.conf)
    BY <2>7, OpenStep
  <2> HIDE DEF r
  <2>9. Moves(x, r.x, s)
    <3>1. r.x.got = x.got \/ (r.x.got = x.got \o s.data /\ s.data # <<>> /\ s.seq = x.rcv)
      <4>1. n = 0 => x.got \o s.data = x.got
        <5>1. x.got \o <<>> = x.got
          BY <1>4
        <5> QED
          BY <1>3, <5>1
      <4>2. n # 0 => s.data # <<>> /\ s.seq = x.rcv
        BY <1>3, <1>8
      <4> QED
        BY <2>4, <2>8, <4>1, <4>2
    <3>2. r.x.conf = x.conf \/ (r.x.conf = x.conf + x.nxt /\ Acks(x, s))
      BY <2>3, <2>4, <2>8
    <3>3. r.x.rcv = x.rcv \/ (r.x.rcv = Add32(x.rcv, n) /\ s.seq = x.rcv /\ Odd(s))
      <4>1. n = 0 => Add32(x.rcv, n) = x.rcv
        BY <1>1, <1>3, ReceiveFacts
      <4>2. n # 0 => s.seq = x.rcv /\ Odd(s)
        BY <1>3, <1>8 DEF Odd
      <4> QED
        BY <2>4, <2>8, <4>1, <4>2
    <3>4. x.told # "ended" /\ x.st \notin Handshake
      BY <1>4 DEF Handshake
    <3>5. Opened(x) => Opened(r.x)
      BY <2>4, <2>8 DEF Opened
    <3> QED
      BY <1>13, <2>4, <2>8, <3>1, <3>2, <3>3, <3>4, <3>5 DEF Moves
  <2> QED
    BY <2>1, <2>8, <2>9
<1> QED
  BY <1>10, <1>11, <1>12, <1>13

LEMMA FinWaitStep ==
  ASSUME NEW e \in Ends, NEW x, EndOK(e, x), x.st \in {"FIN_WAIT_1", "FIN_WAIT_2"},
         NEW s, Segm(e, s), "RST" \notin s.fl, Expected(x, s)
  PROVE  LET r == Found(x, s) IN Step(e, r, Odd(s)) /\ Moves(x, r.x, s)
<1>1. Known(e, x) /\ Closing(e, x)
  BY EndKnown DEF EndOK
<1> DEFINE y == IF Acks(x, s) THEN Acknowledge(x) ELSE x
           fl == IF Acks(x, s) THEN {"ACKDATA"} ELSE {}
           n == Len(s.data)
           v == Receive(y, n)
           u == Receive(v, 1)
           t == IF x.st = "FIN_WAIT_2" \/ "ACKDATA" \in fl THEN "TIME_WAIT" ELSE "CLOSING"
<1>2. Found(x, s) = InFinWait(y, s, fl)
  BY DEF Found
<1>3. n \in Nat /\ (s.data = <<>> <=> n = 0)
  BY SegmFacts
<1>4. /\ Known(e, y) /\ SameSock(x, y) /\ y.st = x.st /\ y.rcv = x.rcv
      /\ IF Acks(x, s) THEN y.len = 0 ELSE y.len = x.len /\ y.snd = x.snd
  <2>1. CASE Acks(x, s)
    BY <1>1, <2>1, AckFacts
  <2>2. CASE ~Acks(x, s)
    BY <1>1, <2>2 DEF SameSock
  <2> QED
    BY <2>1, <2>2
<1>5. "ACKDATA" \in fl <=> Acks(x, s)
  OBVIOUS
<1> HIDE DEF y, fl
<1>6. /\ Known(e, v) /\ SameSock(y, v) /\ v.st = y.st /\ v.snd = y.snd /\ v.len = y.len
      /\ v.rcv = Add32(y.rcv, n) /\ (n = 0 => v.rcv = y.rcv)
  BY <1>3, <1>4, ReceiveFacts
<1>7. InFinWait(y, s, fl) =
        IF "FIN" \in s.fl THEN SendAck([u EXCEPT !.st = t])
        ELSE IF x.st = "FIN_WAIT_1" /\ "ACKDATA" \in fl THEN Drop([v EXCEPT !.st = "FIN_WAIT_2"])
        ELSE IF s.data # <<>> THEN SendAck(v) ELSE Drop(v)
  BY <1>4 DEF InFinWait
<1> HIDE DEF v
<1>8. /\ Known(e, u) /\ SameSock(v, u) /\ u.st = v.st /\ u.snd = v.snd /\ u.len = v.len
      /\ u.rcv = Add32(v.rcv, 1)
  BY <1>6, ReceiveFacts
<1> HIDE DEF u
<1>9. SameSock(x, v) /\ SameSock(x, u)
  BY <1>4, <1>6, <1>8 DEF SameSock
<1>10. n # 0 \/ "FIN" \in s.fl => s.seq = x.rcv /\ Odd(s)
  BY <1>3 DEF Expected, Odd
\* What may be left
<1>11. ASSUME NEW z, Known(e, z), SameSock(x, z), z.len = y.len, z.snd = y.snd,
              IF z.st \in {"FIN_WAIT_2", "TIME_WAIT"} THEN z.len = 0
              ELSE z.st \in {"FIN_WAIT_1", "CLOSING"} /\ x.st = "FIN_WAIT_1" /\ ~Acks(x, s)
       PROVE  EndOK(e, z)
  <2>1. Closing(e, z)
    <3>1. ~z.att /\ (IF UnlistenLate THEN z.told # "connected" ELSE z.told = "ended")
      BY <1>1, <1>11 DEF Closing, SameSock
    <3>2. CASE z.st \in {"FIN_WAIT_2", "TIME_WAIT"}
      BY <1>11, <3>1, <3>2 DEF Closing
    <3>3. CASE z.st \notin {"FIN_WAIT_2", "TIME_WAIT"}
      <4>1. x.st = "FIN_WAIT_1" /\ z.len = x.len /\ z.snd = x.snd /\ z.conf = x.conf
        BY <1>4, <1>11, <3>3 DEF SameSock
      <4>2. z.len = 1 /\ (~SendWhileBusy => z.snd = At(e, z.conf))
        BY <1>1, <4>1 DEF Closing
      <4> QED
        BY <3>1, <3>3, <4>2 DEF Closing
    <3> QED
      BY <3>2, <3>3
  <2>2. z.st \in {"FIN_WAIT_1", "FIN_WAIT_2", "CLOSING", "TIME_WAIT", "LAST_ACK"}
    BY <1>11
  <2> QED
    BY <1>11, <2>1, <2>2, ClosingOK
\* and how it moves
<1>12. ASSUME NEW z, SameSock(x, z), z.st \notin Handshake,
              \/ z.rcv = x.rcv
              \/ z.rcv = Add32(x.rcv, IF "FIN" \in s.fl THEN 1 ELSE n) /\ s.seq = x.rcv /\ Odd(s)
       PROVE  Moves(x, z, s)
  <2>1. Opened(x) => Opened(z)
    BY <1>12 DEF Opened, SameSock, Handshake
  <2>2. x.st \notin Handshake
    BY DEF Handshake
  <2>3. z.wrote = x.wrote /\ z.told = x.told /\ z.got = x.got /\ z.conf = x.conf
    BY <1>12 DEF SameSock
  <2> QED
    BY <1>12, <2>1, <2>2, <2>3 DEF Moves
<1>13. x.st = "FIN_WAIT_2" => y.len = 0
  BY <1>1, <1>4 DEF Closing
<1>14. CASE "FIN" \in s.fl
  <2> DEFINE z == [u EXCEPT !.st = t]
  <2>1. Found(x, s) = SendNoData(z, {"ACK"})
    BY <1>2, <1>7, <1>14 DEF SendAck
  <2>2. t \in States /\ t \in {"TIME_WAIT", "CLOSING"}
    BY DEF States
  <2>3. t = "TIME_WAIT" \/ (t = "CLOSING" /\ x.st = "FIN_WAIT_1" /\ ~Acks(x, s))
    BY <1>5
  <2>4. t = "TIME_WAIT" => y.len = 0
    BY <1>4, <1>5, <1>13
  <2> HIDE DEF t
  <2>5. /\ Known(e, z) /\ SameSock(u, z) /\ z.st = t /\ z.rcv = u.rcv
        /\ z.snd = u.snd /\ z.len = u.len
    BY <1>8, <2>2, StateFacts
  <2> HIDE DEF z
  <2>6. SameSock(x, z) /\ z.len = y.len /\ z.snd = y.snd
    BY <1>6, <1>8, <1>9, <2>5 DEF SameSock
  <2>7. EndOK(e, z)
    <3>1. IF z.st \in {"FIN_WAIT_2", "TIME_WAIT"} THEN z.len = 0
          ELSE z.st \in {"FIN_WAIT_1", "CLOSING"} /\ x.st = "FIN_WAIT_1" /\ ~Acks(x, s)
      BY <2>2, <2>3, <2>4, <2>5, <2>6
    <3> QED
      BY <1>11, <2>5, <2>6, <3>1
  <2>8. z.rcv = Add32(x.rcv, 1) /\ s.seq = x.rcv /\ Odd(s)
    <3>1. s.data = <<>>
      BY <1>14 DEF Segm
    <3>2. v.rcv = x.rcv
      BY <1>3, <1>4, <1>6, <3>1
    <3> QED
      BY <1>8, <1>10, <1>14, <2>5, <3>2
  <2>9. z.st \notin Handshake /\ z.st # "CLOSED" /\ z.st # "SYN_SENT"
    BY <2>2, <2>5 DEF Handshake
  <2>10. Moves(x, z, s)
    BY <1>12, <1>14, <2>6, <2>8, <2>9
  <2>11. SendNoData(z, {"ACK"}).x = z /\ Step(e, SendNoData(z, {"ACK"}), Odd(s))
    BY <2>7, <2>9, StepPlain DEF Plain
  <2> QED
    BY <2>1, <2>10, <2>11
<1>r. v.rcv = x.rcv \/ (v.rcv = Add32(x.rcv, n) /\ s.seq = x.rcv /\ Odd(s))
  BY <1>4, <1>6, <1>10
<1>15. CASE "FIN" \notin s.fl /\ x.st = "FIN_WAIT_1" /\ "ACKDATA" \in fl
  <2> DEFINE z == [v EXCEPT !.st = "FIN_WAIT_2"]
  <2>1. Found(x, s) = Drop(z)
    BY <1>2, <1>7, <1>15
  <2>2. "FIN_WAIT_2" \in States
    BY DEF States
  <2>3. /\ Known(e, z) /\ SameSock(v, z) /\ z.st = "FIN_WAIT_2" /\ z.rcv = v.rcv
        /\ z.snd = v.snd /\ z.len = v.len
    BY <1>6, <2>2, StateFacts
  <2> HIDE DEF z
  <2>4. SameSock(x, z) /\ z.len = y.len /\ z.snd = y.snd /\ z.len = 0
    BY <1>4, <1>5, <1>6, <1>9, <1>15, <2>3 DEF SameSock
  <2>5. EndOK(e, z)
    BY <1>11, <2>3, <2>4
  <2>6. Moves(x, z, s)
    BY <1>12, <1>15, <1>r, <2>3, <2>4 DEF Handshake
  <2>7. Drop(z).x = z /\ Step(e, Drop(z), Odd(s))
    BY <2>5, StepDrop
  <2> QED
    BY <2>1, <2>6, <2>7
<1>16. CASE "FIN" \notin s.fl /\ ~(x.st = "FIN_WAIT_1" /\ "ACKDATA" \in fl)
  <2>1. Found(x, s) = SendNoData(v, {"ACK"}) \/ Found(x, s) = Drop(v)
    BY <1>2, <1>7, <1>16 DEF SendAck
  <2>2. v.st = x.st /\ v.len = y.len /\ v.snd = y.snd
    BY <1>4, <1>6
  <2>3. EndOK(e, v)
    <3>1. IF v.st \in {"FIN_WAIT_2", "TIME_WAIT"} THEN v.len = 0
          ELSE v.st \in {"FIN_WAIT_1", "CLOSING"} /\ x.st = "FIN_WAIT_1" /\ ~Acks(x, s)
      BY <1>5, <1>13, <1>16, <2>2
    <3> QED
      BY <1>6, <1>9, <1>11, <2>2, <3>1
  <2>4. Moves(x, v, s)
    BY <1>9, <1>12, <1>16, <1>r, <2>2 DEF Handshake
  <2>5. SendNoData(v, {"ACK"}).x = v /\ Step(e, SendNoData(v, {"ACK"}), Odd(s))
    BY <2>2, <2>3, StepPlain DEF Plain
  <2>6. Drop(v).x = v /\ Step(e, Drop(v), Odd(s))
    BY <2>3, StepDrop
  <2> QED
    BY <2>1, <2>4, <2>5, <2>6
<1> QED
  BY <1>14, <1>15, <1>16

\* The last states
LEMMA LastStep ==
  ASSUME NEW e \in Ends, NEW x, EndOK(e, x), x.st \in {"TIME_WAIT", "LAST_ACK", "CLOSING"},
         NEW s, Segm(e, s), "RST" \notin s.fl, Expected(x, s)
  PROVE  LET r == Found(x, s) IN Step(e, r, Odd(s)) /\ Moves(x, r.x, s)
<1>1. Known(e, x) /\ Closing(e, x) /\ Idle(x, x) /\ x.told # "connected"
  BY EndKnown DEF EndOK, Idle, Closing
<1>2. CASE ~Acks(x, s)
  <2>1. Found(x, s) = SendNoData(x, {"ACK"}) \/ Found(x, s) = Drop(x)
    BY <1>2 DEF Found, SendAck
  <2>2. SendNoData(x, {"ACK"}).x = x /\ Step(e, SendNoData(x, {"ACK"}), Odd(s))
    BY StepPlain DEF Plain
  <2>3. Drop(x).x = x /\ Step(e, Drop(x), Odd(s))
    BY StepDrop
  <2> QED
    BY <1>1, <2>1, <2>2, <2>3, IdleMoves
<1>3. CASE Acks(x, s)
  <2> DEFINE y == Acknowledge(x)
             st == IF x.st = "LAST_ACK" THEN "CLOSED" ELSE "TIME_WAIT"
             z == [y EXCEPT !.st = st]
  <2>1. x.st # "TIME_WAIT"
    BY <1>1, <1>3 DEF Acks, Closing
  <2>2. Found(x, s) = Drop(z)
    BY <1>3, <2>1 DEF Found
  <2>3. Known(e, y) /\ SameSock(x, y) /\ y.len = 0 /\ y.rcv = x.rcv
    BY <1>1, AckFacts
  <2>4. st \in States /\ st \in {"CLOSED", "TIME_WAIT"}
    BY DEF States
  <2> HIDE DEF y, st
  <2>5. /\ Known(e, z) /\ SameSock(y, z) /\ z.st = st /\ z.rcv = y.rcv /\ z.len = y.len
    BY <2>3, <2>4, StateFacts
  <2> HIDE DEF z
  <2>6. SameSock(x, z) /\ z.len = 0 /\ z.rcv = x.rcv
    BY <2>3, <2>5 DEF SameSock
  <2>7. EndOK(e, z)
    <3>1. CASE st = "CLOSED"
      BY <1>1, <2>5, <2>6, <3>1, ClosedOK DEF SameSock
    <3>2. CASE st = "TIME_WAIT"
      <4>1. Closing(e, z)
        BY <1>1, <2>5, <2>6, <3>2 DEF Closing, SameSock
      <4> QED
        BY <2>5, <3>2, <4>1, ClosingOK
    <3> QED
      BY <2>4, <3>1, <3>2
  <2>8. Moves(x, z, s)
    <3>1. Opened(x) => Opened(z)
      BY <2>4, <2>5, <2>6 DEF Opened, SameSock
    <3>2. x.st \notin Handshake
      BY DEF Handshake
    <3> QED
      BY <2>6, <3>1, <3>2 DEF Moves, SameSock
  <2>9. Drop(z).x = z /\ Step(e, Drop(z), Odd(s))
    BY <2>7, StepDrop
  <2> QED
    BY <2>2, <2>8, <2>9
<1> QED
  BY <1>2, <1>3

\* found
LEMMA FoundStep ==
  ASSUME NEW e \in Ends, NEW x, EndOK(e, x), x.st # "CLOSED", NEW s, Segm(e, s)
  PROVE  LET r == Found(x, s) IN Step(e, r, Odd(s)) /\ Moves(x, r.x, s)
<1>1. Known(e, x) /\ (~x.att => x.told # "connected") /\ Idle(x, x)
  BY EndKnown DEF Idle
<1>2. CASE "RST" \in s.fl
  <2> DEFINE z == appcall([x EXCEPT !.st = "CLOSED"], {"ABORT"}, <<>>).x
  <2>1. Found(x, s) = Drop(z)
    BY <1>2 DEF Found, InReset
  <2>2. EndOK(e, z) /\ z.st = "CLOSED" /\ Idle(x, z)
    BY <1>1, GoneFacts
  <2> HIDE DEF z
  <2>3. Drop(z).x = z /\ Step(e, Drop(z), Odd(s))
    BY <2>2, StepDrop
  <2> QED
    BY <2>1, <2>2, <2>3, IdleMoves
<1>3. CASE "RST" \notin s.fl /\ ~Expected(x, s)
  <2>1. Found(x, s) = Unexpected(x, s)
    BY <1>3 DEF Found
  <2>2. CASE "SYN" \in s.fl /\ x.st = "SYN_RCVD"
    <3>1. Unexpected(x, s) = SendNoData(x, {"SYN", "ACK"})
      BY <2>2 DEF Unexpected
    <3>2. SendNoData(x, {"SYN", "ACK"}).x = x /\ Step(e, SendNoData(x, {"SYN", "ACK"}), Odd(s))
      BY <2>2, StepPlain DEF Plain
    <3> QED
      BY <1>1, <2>1, <3>1, <3>2, IdleMoves
  <2>3. CASE "SYN" \in s.fl /\ x.st = "SYN_SENT"
    <3>1. e = Client
      BY <2>3 DEF EndOK, Opening
    <3>2. s.fl # {"SYN"}
      BY <3>1 DEF Segm
    <3>3. s.fl = {"SYN", "ACK"}
      BY <2>3, <3>2, SegmFacts
    <3> QED
      BY <1>3, <2>3, <3>3 DEF Expected
  <2>4. CASE ~("SYN" \in s.fl /\ x.st = "SYN_RCVD") /\ ~("SYN" \in s.fl /\ x.st = "SYN_SENT")
    <3>1. Unexpected(x, s) = SendNoData(x, {"ACK"})
      BY <2>4 DEF Unexpected, SendAck
    <3>2. x.st = "SYN_SENT" => Odd(s)
      BY <1>3, <2>4 DEF Expected, Odd
    <3>3. SendNoData(x, {"ACK"}).x = x /\ Step(e, SendNoData(x, {"ACK"}), Odd(s))
      BY <3>2, StepPlain DEF Plain
    <3> QED
      BY <1>1, <2>1, <3>1, <3>3, IdleMoves
  <2> QED
    BY <2>2, <2>3, <2>4
<1>4. CASE "RST" \notin s.fl /\ Expected(x, s)
  <2>1. x.st \in States
    BY <1>1, KnownFacts
  <2> QED
    BY <1>4, <2>1, SynRcvdStep, SynSentStep, EstablishedStep, FinWaitStep, LastStep DEF States
<1> QED
  BY <1>2, <1>3, <1>4

\* tcp_input: a SYN opens a connection at an end that has not had one.
LEMMA InputStep ==
  ASSUME NEW e \in Ends, NEW x, EndOK(e, x), NEW s, Segm(e, s),
         ~(x.st = "CLOSED" /\ x.opens > 0 /\ s.fl = {"SYN"})
  PROVE  LET r == tcp_input(e, x, s) IN Step(e, r, Odd(s)) /\ Moves(x, r.x, s)
<1>1. x \in End(e) /\ x.opens \in Nat /\ Idle(x, x)
  BY DEF EndOK, End, Idle
<1>2. CASE x.st # "CLOSED"
  BY <1>2, FoundStep DEF tcp_input
<1>3. CASE x.st = "CLOSED" /\ s.fl = {"SYN"} /\ x.port
  <2> DEFINE n == Add32(s.seq, 1)
             o == x.opens + 1
             i == Iss[e]
             z == [x EXCEPT !.st = "SYN_RCVD", !.snd = i, !.len = 1, !.rcv = n, !.nrtx = 0,
                            !.opens = o]
  <2>1. tcp_input(e, x, s) = SendNoData(z, {"SYN", "ACK"})
    BY <1>3 DEF tcp_input, FoundListen
  <2>2. n = At(Other(e), 0) /\ n \in Numbers /\ i \in Numbers
    <3>1. Other(e) \in Ends /\ s.seq = Iss[Other(e)]
      BY <1>3, TwoEnds DEF Segm
    <3> QED
      BY <3>1, Positions
  <2>3. o \in Nat /\ o # 0 /\ o > 0 /\ x.opens = 0
    BY <1>1, <1>3
  <2>4. Unopened(x) /\ Buffer(x) /\ PortOK(e, x) /\ e # Client
    BY <1>3, <2>3 DEF EndOK, Segm
  <2>5. 1 \in 0 .. Mss /\ 0 \in 0 .. MaxRtx
    BY TcpAssumption
  <2> HIDE DEF n, o, i
  <2>6. z \in End(e)
    BY ZenonT(60), <1>1, <2>2, <2>3, <2>5 DEF End, States
  <2>7. /\ z.st = "SYN_RCVD" /\ z.snd = i /\ z.len = 1 /\ z.rcv = n /\ z.opens = o
        /\ z.out = x.out /\ z.nxt = x.nxt /\ z.conf = x.conf /\ z.got = x.got /\ z.att = x.att
        /\ z.told = x.told /\ z.port = x.port /\ z.wrote = x.wrote
    BY <1>1 DEF End
  <2> HIDE DEF z
  <2>8. Buffer(z) /\ PortOK(e, z) /\ Untold(z) /\ ~z.att /\ z.out = <<>>
    BY <1>3, <2>4, <2>7 DEF Buffer, PortOK, Unopened, Untold
  <2>9. Opening(e, z)
    BY <1>3, <2>2, <2>4, <2>7, <2>8 DEF Opening, i
  <2>10. EndOK(e, z)
    BY <2>3, <2>6, <2>7, <2>8, <2>9 DEF EndOK
  <2>11. SendNoData(z, {"SYN", "ACK"}).x = z /\ Step(e, SendNoData(z, {"SYN", "ACK"}), Odd(s))
    BY <2>7, <2>10, StepPlain DEF Plain
  <2>12. Moves(x, z, s)
    <3>1. ~Opened(x)
      BY <2>3 DEF Opened
    <3> QED
      BY <2>7, <3>1 DEF Moves, Handshake
  <2> QED
    BY <2>1, <2>11, <2>12
<1>4. CASE x.st = "CLOSED" /\ ~(s.fl = {"SYN"} /\ x.port)
  <2>1. tcp_input(e, x, s) = Reset(x, s)
    BY <1>4 DEF tcp_input
  <2>2. Reset(x, s).x = x /\ Step(e, Reset(x, s), Odd(s))
    BY <1>4, ResetStep
  <2> QED
    BY <1>1, <2>1, <2>2, IdleMoves
<1> QED
  BY <1>2, <1>3, <1>4

-------------------------------------------------------------------------------
(* The invariant is inductive.                                                *)

LEMMA SegKept ==
  ASSUME NEW e \in Ends, NEW x, NEW z, NEW s, SegOK(e, x, s),
         x.wrote \in Nat, z.wrote \in Nat, x.wrote <= z.wrote
  PROVE  SegOK(e, z, s)
<1>1. 0 .. x.wrote \subseteq 0 .. z.wrote
  OBVIOUS
<1>2. "FIN" \in s.fl /\ ~SendWhileBusy => \E k \in 0 .. z.wrote : s.seq = At(e, k)
  BY <1>1 DEF SegOK
<1>3. s.data # <<>> /\ ~SendWhileBusy =>
       \E k \in 0 .. z.wrote : /\ s.seq = At(e, k) /\ k + Len(s.data) <= z.wrote
                              /\ \A i \in 1 .. Len(s.data) : s.data[i] = k + i
  <2> SUFFICES ASSUME s.data # <<>>, ~SendWhileBusy
               PROVE  \E k \in 0 .. z.wrote : /\ s.seq = At(e, k) /\ k + Len(s.data) <= z.wrote
                                             /\ \A i \in 1 .. Len(s.data) : s.data[i] = k + i
    OBVIOUS
  <2>1. PICK k \in 0 .. x.wrote : /\ s.seq = At(e, k) /\ k + Len(s.data) <= x.wrote
                                 /\ \A i \in 1 .. Len(s.data) : s.data[i] = k + i
    BY DEF SegOK
  <2>2. Len(s.data) \in Nat
    BY DEF SegOK, Message
  <2>3. k \in 0 .. z.wrote /\ k + Len(s.data) <= z.wrote
    BY <2>1, <2>2
  <2> QED
    BY <2>1, <2>3
<1> QED
  BY <1>2, <1>3 DEF SegOK

LEMMA SegSegm ==
  ASSUME NEW e \in Ends, NEW y, NEW s, SegOK(Other(e), y, s)
  PROVE  Segm(e, s)
<1>1. Other(e) = Client <=> e # Client
  BY TwoEnds, TcpAssumption
<1> QED
  BY <1>1 DEF SegOK, Segm

LEMMA CarryFacts ==
  ASSUME TcpInv, NEW e \in Ends, NEW tx, IsFiniteSet(tx)
  PROVE  LET m == Carry(e, tx) IN
           /\ m = [d \in Ends |-> m[d]] /\ m[e] = net[e]
           /\ m[Other(e)] \subseteq net[Other(e)] \cup tx
           /\ \A d \in Ends : IsFiniteSet(m[d]) /\ Cardinality(m[d]) <= Cap[d]
<1> DEFINE f == Other(e)
           w == IF Cardinality(net[f] \cup tx) <= Cap[f] THEN net[f] \cup tx ELSE net[f]
           m == [net EXCEPT ![f] = w]
<1>1. Carry(e, tx) = m
  BY DEF Carry
<1>2. net = [d \in Ends |-> net[d]] /\ f \in Ends /\ f # e
  BY TwoEnds DEF TcpInv
<1>3. \A d \in Ends : IsFiniteSet(net[d]) /\ Cardinality(net[d]) <= Cap[d]
  BY DEF TcpInv
<1>4. IsFiniteSet(w) /\ Cardinality(w) <= Cap[f] /\ w \subseteq net[f] \cup tx
  <2>1. IsFiniteSet(net[f] \cup tx)
    BY <1>2, <1>3, FS_Union
  <2> QED
    BY <1>2, <1>3, <2>1
<1> HIDE DEF w
<1>5. m = [d \in Ends |-> m[d]] /\ m[f] = w /\ \A d \in Ends : d # f => m[d] = net[d]
  BY <1>2
<1> HIDE DEF m
<1> QED
  BY <1>1, <1>2, <1>3, <1>4, <1>5

\* One end has moved, and what it has sent may be on the way.
LEMMA InvKept ==
  ASSUME TcpInv, NEW e \in Ends, NEW z, EndOK(e, z), end[e].wrote <= z.wrote,
         end' = [end EXCEPT ![e] = z], net' = [d \in Ends |-> net'[d]],
         \A d \in Ends : IsFiniteSet(net'[d]) /\ Cardinality(net'[d]) <= Cap[d],
         net'[e] \subseteq net[e],
         \A s \in net'[Other(e)] : s \in net[Other(e)] \/ SegOK(e, z, s)
  PROVE  TcpInv'
<1>1. /\ Other(e) \in Ends /\ Other(e) # e /\ Other(Other(e)) = e
      /\ \A d \in Ends : d = e \/ d = Other(e)
  BY TwoEnds
<1>2. end = [d \in Ends |-> end[d]]
  BY DEF TcpInv
<1>3. /\ end' = [d \in Ends |-> end'[d]] /\ end'[e] = z /\ end'[Other(e)] = end[Other(e)]
  BY <1>1, <1>2
<1>4. \A d \in Ends : EndOK(d, end'[d])
  BY <1>1, <1>3 DEF TcpInv
<1>5. end[e].wrote \in Nat /\ z.wrote \in Nat
  <2>1. EndOK(e, end[e]) /\ MaxBytes[e] \in Nat
    BY TcpAssumption DEF TcpInv
  <2> QED
    BY <2>1 DEF EndOK, End
<1>6. ASSUME NEW s \in net'[e]
      PROVE  SegOK(Other(e), end'[Other(e)], s)
  BY <1>3, <1>6 DEF TcpInv
<1>7. ASSUME NEW s \in net'[Other(e)]
      PROVE  SegOK(e, end'[e], s)
  <2>1. CASE s \in net[Other(e)]
    <3>1. SegOK(e, end[e], s)
      BY <1>1, <2>1 DEF TcpInv
    <3> QED
      BY <1>3, <1>5, <3>1, SegKept
  <2>2. CASE SegOK(e, z, s)
    BY <1>3, <2>2
  <2> QED
    BY <1>7, <2>1, <2>2
<1>8. \A d \in Ends : \A s \in net'[d] : SegOK(Other(d), end'[Other(d)], s)
  BY <1>1, <1>6, <1>7
<1> QED
  BY <1>3, <1>4, <1>8 DEF TcpInv

\* A step of uip_process
LEMMA DoKept ==
  ASSUME TcpInv, NEW e \in Ends, NEW r, NEW odd, Step(e, r, odd), r.x.wrote = end[e].wrote,
         Do(e, r)
  PROVE  TcpInv'
<1>1. end' = [end EXCEPT ![e] = r.x] /\ net' = Carry(e, r.tx)
  BY DEF Do
<1>2. EndOK(e, r.x) /\ IsFiniteSet(r.tx) /\ \A t \in r.tx : SegOK(e, r.x, t)
  BY DEF Step, Sent
<1>3. /\ net' = [d \in Ends |-> net'[d]] /\ net'[e] = net[e]
      /\ net'[Other(e)] \subseteq net[Other(e)] \cup r.tx
      /\ \A d \in Ends : IsFiniteSet(net'[d]) /\ Cardinality(net'[d]) <= Cap[d]
  BY <1>1, <1>2, CarryFacts
<1>4. end[e].wrote <= r.x.wrote
  <2>1. EndOK(e, end[e]) /\ MaxBytes[e] \in Nat
    BY TcpAssumption DEF TcpInv
  <2>2. end[e].wrote \in Nat
    BY <2>1 DEF EndOK, End
  <2> QED
    BY <2>2
<1>5. net'[e] \subseteq net[e] /\ \A s \in net'[Other(e)] : s \in net[Other(e)] \/ SegOK(e, r.x, s)
  BY <1>2, <1>3
<1> QED
  BY <1>1, <1>2, <1>3, <1>4, <1>5, InvKept

\* A call of the application
LEMMA CallKept ==
  ASSUME TcpInv, NEW e \in Ends, NEW z, EndOK(e, z), end[e].wrote <= z.wrote,
         end' = [end EXCEPT ![e] = z], UNCHANGED net
  PROVE  TcpInv'
<1>1. /\ net' = [d \in Ends |-> net'[d]] /\ net'[e] = net[e] /\ net'[Other(e)] = net[Other(e)]
      /\ \A d \in Ends : IsFiniteSet(net'[d]) /\ Cardinality(net'[d]) <= Cap[d]
  BY DEF TcpInv
<1>2. net'[e] \subseteq net[e] /\ \A s \in net'[Other(e)] : s \in net[Other(e)] \/ SegOK(e, z, s)
  BY <1>1
<1> QED
  BY <1>1, <1>2, InvKept

\* What tcp_socket_connect and tcp_socket_send leave alone
Begins(x, z) ==
  /\ z.wrote = x.wrote /\ z.got = x.got /\ z.conf = x.conf /\ z.told = x.told
  /\ z.st = "SYN_SENT"

Grows(x, z) ==
  /\ x.wrote <= z.wrote /\ z.got = x.got /\ z.conf = x.conf /\ z.told = x.told
  /\ z.st = x.st /\ z.opens = x.opens /\ z.rcv = x.rcv

LEMMA ConnectStep ==
  ASSUME NEW e \in Ends, NEW x, EndOK(e, x), e = Client, x.opens = 0
  PROVE  LET z == [x EXCEPT
               !.st = "SYN_SENT", !.snd = Iss[e], !.rcv = 0, !.len = 1, !.nrtx = 0,
               !.att = TRUE, !.poll = TRUE, !.opens = 1]
         IN  EndOK(e, z) /\ Begins(x, z)
<1> DEFINE i == Iss[e]
           z == [x EXCEPT !.st = "SYN_SENT", !.snd = i, !.rcv = 0, !.len = 1, !.nrtx = 0,
                          !.att = TRUE, !.poll = TRUE, !.opens = 1]
<1>1. x \in End(e) /\ Unopened(x) /\ Buffer(x) /\ PortOK(e, x)
  BY DEF EndOK
<1>2. /\ i \in Numbers /\ 0 \in Numbers /\ 1 \in 0 .. Mss /\ 0 \in 0 .. MaxRtx
      /\ "SYN_SENT" \in States
  BY TcpAssumption DEF Numbers, States
<1> HIDE DEF i
<1>3. z \in End(e)
  BY ZenonT(60), <1>1, <1>2 DEF End
<1>4. /\ z.st = "SYN_SENT" /\ z.snd = i /\ z.len = 1 /\ z.opens = 1 /\ z.att
      /\ z.out = x.out /\ z.nxt = x.nxt /\ z.conf = x.conf /\ z.got = x.got
      /\ z.told = x.told /\ z.port = x.port /\ z.wrote = x.wrote
  BY <1>1 DEF End
<1> HIDE DEF z
<1>5. Buffer(z) /\ PortOK(e, z) /\ Untold(z)
  BY <1>1, <1>4 DEF Buffer, PortOK, Unopened, Untold
<1>6. Opening(e, z)
  BY <1>4, <1>5 DEF Opening, i
<1>7. EndOK(e, z) /\ Begins(x, z)
  BY <1>3, <1>4, <1>5, <1>6 DEF EndOK, Begins
<1> QED
  BY <1>7 DEF z, i

LEMMA UnlistenStep ==
  ASSUME NEW e \in Ends, NEW x, EndOK(e, x), x.port, x.opens = 0 \/ UnlistenLate
  PROVE  LET z == [x EXCEPT !.port = FALSE, !.listening = FALSE]
         IN  EndOK(e, z) /\ Idle(x, z)
<1> DEFINE z == [x EXCEPT !.port = FALSE, !.listening = FALSE]
<1>1. x \in End(e) /\ Buffer(x) /\ PortOK(e, x)
  BY DEF EndOK
<1>2. z \in End(e)
  BY <1>1 DEF End
<1>3. /\ z.st = x.st /\ z.snd = x.snd /\ z.len = x.len /\ z.rcv = x.rcv /\ z.opens = x.opens
      /\ z.att = x.att /\ z.poll = x.poll
      /\ z.out = x.out /\ z.nxt = x.nxt /\ z.conf = x.conf /\ z.got = x.got
      /\ z.told = x.told /\ z.wrote = x.wrote /\ ~z.port
  BY <1>1 DEF End
<1> HIDE DEF z
<1>4. Buffer(z) /\ PortOK(e, z)
  BY <1>1, <1>3 DEF Buffer, PortOK
<1>5. z.opens = 0 => Unopened(z)
  BY <1>3 DEF EndOK, Unopened, Untold
<1>6. z.opens # 0 => UnlistenLate
  BY <1>3
<1>7. z.st = "CLOSED" => z.told # "connected"
  BY <1>3 DEF EndOK
<1>8. z.st \in {"SYN_SENT", "SYN_RCVD"} => Opening(e, z)
  <2> SUFFICES ASSUME z.st \in {"SYN_SENT", "SYN_RCVD"}
               PROVE  Opening(e, z)
    OBVIOUS
  <2>1. Opening(e, x)
    BY <1>3 DEF EndOK
  <2>2. UnlistenLate
    BY <1>3, <1>5, <1>6 DEF Unopened
  <2> QED
    BY <1>3, <2>1, <2>2 DEF Opening, Untold
<1>9. z.st = "ESTABLISHED" => Flowing(e, z)
  BY <1>3 DEF EndOK, Flowing
<1>10. z.st \notin {"CLOSED", "SYN_SENT", "SYN_RCVD", "ESTABLISHED"} => Closing(e, z)
  BY <1>3 DEF EndOK, Closing
<1>11. EndOK(e, z)
  BY <1>2, <1>4, <1>5, <1>7, <1>8, <1>9, <1>10 DEF EndOK
<1>12. Idle(x, z)
  BY <1>3 DEF Idle
<1> QED
  BY <1>11, <1>12 DEF z

LEMMA CloseStep ==
  ASSUME NEW e \in Ends, NEW x, EndOK(e, x), x.told = "connected"
  PROVE  LET z == [x EXCEPT !.closing = TRUE] IN EndOK(e, z) /\ Idle(x, z)
<1> DEFINE z == [x EXCEPT !.closing = TRUE]
<1>1. x \in End(e) /\ x.opens # 0
  BY DEF EndOK, Unopened, Untold
<1>2. /\ z \in End(e) /\ SameSock(x, z) /\ z.st = x.st /\ z.snd = x.snd /\ z.rcv = x.rcv
      /\ z.len = x.len
  BY <1>1 DEF End, SameSock
<1> HIDE DEF z
<1>3. EndOK(e, z) /\ Idle(x, z)
  BY <1>1, <1>2, TouchOK
<1> QED
  BY <1>3 DEF z

LEMMA SendStep ==
  ASSUME NEW e \in Ends, NEW x, EndOK(e, x), NEW n \in Nat, x.wrote + n <= MaxBytes[e],
         x.att, x.told # "ended", SendWhileBusy \/ x.out = <<>>
  PROVE  LET len == Min(n, BufLen - Len(x.out))
             z == [x EXCEPT !.out = @ \o [i \in 1..len |-> x.wrote + i], !.wrote = @ + len]
         IN  EndOK(e, z) /\ Grows(x, z)
<1> DEFINE len == Min(n, BufLen - Len(x.out))
           b == [i \in 1..len |-> x.wrote + i]
           o == x.out \o b
           w == x.wrote + len
           z == [x EXCEPT !.out = o, !.wrote = w]
<1>2. x.opens # 0
  BY DEF EndOK, Unopened
<1>3. Known(e, x)
  BY <1>2, EndKnown
<1>1. /\ x \in End(e) /\ x.out \in Seq(Bytes(e)) /\ Len(x.out) \in Nat /\ x.wrote \in Nat
      /\ x.conf \in Nat /\ x.nxt \in Nat /\ x.len \in Nat
      /\ BufLen \in Nat /\ MaxBytes[e] \in Nat /\ Len(x.out) <= BufLen
  <2>1. Len(x.out) <= BufLen
    BY DEF EndOK, Buffer
  <2>2. BufLen \in Nat /\ MaxBytes[e] \in Nat
    BY TcpAssumption
  <2> QED
    BY <1>3, <2>1, <2>2, KnownFacts
<1>4. len \in Nat /\ len <= n /\ Len(x.out) + len <= BufLen
  <2> DEFINE m == BufLen - Len(x.out)
  <2>1. m \in Nat
    BY <1>1
  <2>2. len \in Nat /\ len <= n /\ len <= m
    <3> HIDE DEF m
    <3>1. Min(n, m) \in Nat /\ Min(n, m) <= n /\ Min(n, m) <= m
      BY <2>1, Least
    <3> QED
      BY <3>1 DEF m
  <2> QED
    BY <1>1, <2>2
<1> HIDE DEF len
<1>5. w \in 0 .. MaxBytes[e] /\ x.wrote <= w
  <2> DEFINE q == x.wrote
             m == MaxBytes[e]
  <2>1. q \in Nat /\ m \in Nat /\ len \in Nat /\ len <= n /\ q + n <= m
    BY <1>1, <1>4
  <2> HIDE DEF q, m
  <2>2. q + len \in 0 .. m /\ q <= q + len
    BY <2>1
  <2> QED
    BY <2>2 DEF q, m
<1>6. b \in Seq(Bytes(e)) /\ Len(b) = len /\ \A i \in 1 .. len : b[i] = x.wrote + i
  <2>1. \A i \in 1 .. len : x.wrote + i \in 1 .. MaxBytes[e]
    <3> DEFINE q == x.wrote
               m == MaxBytes[e]
    <3>1. q \in Nat /\ m \in Nat /\ len \in Nat /\ q + len <= m
      BY <1>1, <1>4, <1>5
    <3> HIDE DEF q, m
    <3>2. \A i \in 1 .. len : q + i \in 1 .. m
      BY <3>1
    <3> QED
      BY <3>2 DEF q, m
  <2> QED
    BY <1>4, <2>1 DEF Bytes
<1> HIDE DEF b
<1>7. /\ o \in Seq(Bytes(e)) /\ Len(o) = Len(x.out) + len
      /\ \A i \in 1 .. Len(x.out) : o[i] = x.out[i]
      /\ \A i \in Len(x.out) + 1 .. Len(x.out) + len : o[i] = b[i - Len(x.out)]
  <2> DEFINE p == x.out
  <2>1. p \in Seq(Bytes(e)) /\ b \in Seq(Bytes(e)) /\ Len(p) \in Nat
    BY <1>1, <1>6
  <2> HIDE DEF p
  <2>2. /\ p \o b \in Seq(Bytes(e)) /\ Len(p \o b) = Len(p) + Len(b)
        /\ \A i \in 1 .. Len(p) : (p \o b)[i] = p[i]
        /\ \A i \in Len(p) + 1 .. Len(p) + Len(b) : (p \o b)[i] = b[i - Len(p)]
    BY <2>1
  <2> QED
    BY <1>6, <2>2 DEF p
<1> HIDE DEF o
<1>8. \A i \in 1 .. Len(o) : o[i] = x.conf + i
  <2> SUFFICES ASSUME NEW i \in 1 .. Len(o)
               PROVE  o[i] = x.conf + i
    OBVIOUS
  <2>1. x.conf + Len(x.out) = x.wrote /\ \A j \in 1 .. Len(x.out) : x.out[j] = x.conf + j
    BY DEF EndOK, Buffer
  <2>2. CASE i \in 1 .. Len(x.out)
    BY <1>7, <2>1, <2>2
  <2>3. CASE i \notin 1 .. Len(x.out)
    <3>1. i \in Len(x.out) + 1 .. Len(x.out) + len /\ i - Len(x.out) \in 1 .. len
      BY <1>1, <1>4, <1>7, <2>3
    <3>2. o[i] = x.wrote + (i - Len(x.out))
      BY <1>6, <1>7, <3>1
    <3> QED
      BY <1>1, <2>1, <3>1, <3>2
  <2> QED
    BY <2>2, <2>3
<1>w. w = x.wrote + len
  OBVIOUS
<1> HIDE DEF w
<1>9. z \in End(e)
  BY <1>1, <1>5, <1>7 DEF End
<1>10. /\ z.st = x.st /\ z.snd = x.snd /\ z.len = x.len /\ z.rcv = x.rcv /\ z.opens = x.opens
       /\ z.att = x.att /\ z.port = x.port /\ z.nxt = x.nxt /\ z.conf = x.conf /\ z.got = x.got
       /\ z.told = x.told /\ z.out = o /\ z.wrote = w
  BY <1>1 DEF End
<1> HIDE DEF z
<1>11. Buffer(z)
  <2>1. x.nxt <= Len(x.out) /\ x.conf + Len(x.out) = x.wrote
    BY DEF EndOK, Buffer
  <2>2. x.nxt <= Len(o) /\ Len(o) <= BufLen /\ x.conf + Len(o) = w
    <3> DEFINE m == Len(x.out)
               c == x.conf
               t == x.nxt
               q == x.wrote
               k == Len(o)
    <3>1. /\ m \in Nat /\ c \in Nat /\ t \in Nat /\ q \in Nat /\ len \in Nat /\ BufLen \in Nat
          /\ t <= m /\ c + m = q /\ k = m + len /\ m + len <= BufLen /\ w = q + len
      BY <1>1, <1>4, <1>7, <1>w, <2>1
    <3> HIDE DEF m, c, t, q, k
    <3>2. t <= k /\ k <= BufLen /\ c + k = w
      BY <3>1
    <3> QED
      BY <3>2 DEF c, t, k
  <2> QED
    BY <1>8, <1>10, <2>2 DEF Buffer
<1>12. PortOK(e, z)
  BY <1>10 DEF EndOK, PortOK
<1>13. z.st = "CLOSED" => z.told # "connected"
  BY <1>10 DEF EndOK
<1>14. z.st \in {"SYN_SENT", "SYN_RCVD"} => Opening(e, z)
  BY <1>10 DEF EndOK, Opening, Untold
<1>15. z.st = "ESTABLISHED" => Flowing(e, z)
  <2> SUFFICES ASSUME z.st = "ESTABLISHED"
               PROVE  Flowing(e, z)
    OBVIOUS
  <2>1. Flowing(e, x)
    BY <1>10 DEF EndOK
  <2>2. ~SendWhileBusy => x.len = 0
    <3>1. x.out = <<>> => x.nxt = 0
      BY <1>1 DEF EndOK, Buffer
    <3> QED
      BY <1>1, <2>1, <3>1 DEF Flowing
  <2> QED
    BY <1>10, <2>1, <2>2 DEF Flowing
<1>16. z.st \in {"CLOSED", "SYN_SENT", "SYN_RCVD", "ESTABLISHED"}
  BY <1>10 DEF EndOK, Closing
<1>17. EndOK(e, z)
  BY <1>2, <1>9, <1>10, <1>11, <1>12, <1>13, <1>14, <1>15, <1>16 DEF EndOK
<1>18. Grows(x, z)
  BY <1>5, <1>10 DEF Grows
<1> QED
  BY <1>17, <1>18 DEF z, o, b, w, len

LEMMA InvInit == Init => TcpInv
<1> SUFFICES ASSUME Init
             PROVE  TcpInv
  OBVIOUS
<1>1. /\ end = [e \in Ends |-> Start(e)] /\ net = [e \in Ends |-> {}]
      /\ \A e \in Ends : end[e] = Start(e) /\ net[e] = {}
  BY DEF Init
<1>2. ASSUME NEW e \in Ends
      PROVE  EndOK(e, Start(e))
  <2> DEFINE x == Start(e)
             b == e # Client
  <2>1. /\ 0 \in Numbers /\ 0 \in 0 .. Mss /\ 0 \in 0 .. MaxRtx /\ 0 \in 0 .. MaxBytes[e]
        /\ <<>> \in Seq(Bytes(e)) /\ <<>> \in Seq(Bytes(Other(e))) /\ b \in BOOLEAN
        /\ BufLen \in Nat
    BY TcpAssumption DEF Numbers
  <2>2. x = [st |-> "CLOSED", snd |-> 0, rcv |-> 0, len |-> 0, nrtx |-> 0,
             att |-> FALSE, poll |-> FALSE, opens |-> 0,
             out |-> <<>>, nxt |-> 0, closing |-> FALSE, listening |-> b, port |-> b,
             wrote |-> 0, got |-> <<>>, conf |-> 0, told |-> "none"]
    BY DEF Start
  <2> HIDE DEF x, b
  <2>3. x \in End(e)
    BY <2>1, <2>2 DEF End, States
  <2>4. /\ x.st = "CLOSED" /\ ~x.att /\ ~x.poll /\ x.opens = 0 /\ x.out = <<>> /\ x.nxt = 0
        /\ x.port = b /\ x.wrote = 0 /\ x.got = <<>> /\ x.conf = 0 /\ x.told = "none"
    BY <2>2
  <2>5. Buffer(x) /\ PortOK(e, x) /\ Unopened(x)
    <3>1. Len(x.out) = 0
      BY <2>4
    <3>2. Buffer(x)
      BY <2>1, <2>4, <3>1 DEF Buffer
    <3> QED
      BY <2>4, <3>2 DEF PortOK, Unopened, Untold, b
  <2> QED
    BY <2>3, <2>4, <2>5 DEF EndOK, x
<1>3. \A e \in Ends : IsFiniteSet(net[e]) /\ Cardinality(net[e]) <= Cap[e]
  BY <1>1, FS_EmptySet, TcpAssumption
<1> QED
  BY <1>1, <1>2, <1>3 DEF TcpInv

LEMMA InvNext == TcpInv /\ [Next]_vars => TcpInv'
<1> SUFFICES ASSUME TcpInv, [Next]_vars
             PROVE  TcpInv'
  OBVIOUS
<1>1. ASSUME NEW e \in Ends
      PROVE  EndOK(e, end[e]) /\ end[e].wrote \in Nat /\ MaxBytes[e] \in Nat
  <2>1. EndOK(e, end[e]) /\ MaxBytes[e] \in Nat
    BY TcpAssumption DEF TcpInv
  <2> QED
    BY <2>1 DEF EndOK, End
<1>2. ASSUME NEW e \in Ends, NEW s \in net[e], Deliver(e, s)
      PROVE  TcpInv'
  <2> DEFINE r == tcp_input(e, end[e], s)
  <2>1. Do(e, r) /\ ~(end[e].st = "CLOSED" /\ end[e].opens > 0 /\ s.fl = {"SYN"})
    BY <1>2 DEF Deliver
  <2>2. Segm(e, s)
    BY SegSegm DEF TcpInv
  <2>3. Step(e, r, Odd(s)) /\ Moves(end[e], r.x, s)
    BY <1>1, <2>1, <2>2, InputStep
  <2> HIDE DEF r
  <2>4. r.x.wrote = end[e].wrote
    BY <2>3 DEF Moves
  <2> QED
    BY <2>1, <2>3, <2>4, DoKept
<1>3. ASSUME NEW e \in Ends, NEW s \in net[e], Lose(e, s)
      PROVE  TcpInv'
  <2>1. /\ net' = [net EXCEPT ![e] = net[e] \ {s}] /\ UNCHANGED end
        /\ net = [d \in Ends |-> net[d]]
    BY <1>3 DEF Lose, TcpInv
  <2>2. /\ net' = [d \in Ends |-> net'[d]] /\ net'[e] = net[e] \ {s}
        /\ \A d \in Ends : d # e => net'[d] = net[d]
    BY <2>1
  <2>3. IsFiniteSet(net[e] \ {s}) /\ Cardinality(net[e] \ {s}) <= Cap[e]
    <3>1. IsFiniteSet(net[e]) /\ Cardinality(net[e]) <= Cap[e] /\ Cap[e] \in Nat
      BY TcpAssumption DEF TcpInv
    <3>2. IsFiniteSet(net[e] \ {s}) /\ Cardinality(net[e] \ {s}) = Cardinality(net[e]) - 1
          /\ Cardinality(net[e]) \in Nat
      BY <3>1, FS_RemoveElement, FS_CardinalityType
    <3> QED
      BY <3>1, <3>2
  <2>4. \A d \in Ends : net'[d] \subseteq net[d]
    BY <2>2
  <2> QED
    BY <2>1, <2>2, <2>3, <2>4 DEF TcpInv
<1>4. ASSUME NEW e \in Ends, Timer(e)
      PROVE  TcpInv'
  <2> DEFINE r == uip_timer(end[e])
  <2>1. Do(e, r) /\ end[e].st # "CLOSED"
    BY <1>4 DEF Timer
  <2>2. Step(e, r, FALSE) /\ Idle(end[e], r.x)
    BY <1>1, <2>1, TimerStep
  <2> HIDE DEF r
  <2> QED
    BY <2>1, <2>2, DoKept DEF Idle
<1>5. ASSUME NEW e \in Ends, Poll(e)
      PROVE  TcpInv'
  <2> DEFINE r == uip_poll([end[e] EXCEPT !.poll = FALSE])
  <2>1. Do(e, r) /\ end[e].poll
    BY <1>5 DEF Poll
  <2>2. Step(e, r, FALSE) /\ Idle(end[e], r.x)
    BY <1>1, <2>1, PollStep
  <2> HIDE DEF r
  <2> QED
    BY <2>1, <2>2, DoKept DEF Idle
<1>6. ASSUME NEW e \in Ends, Connect(e)
      PROVE  TcpInv'
  <2> DEFINE z == [end[e] EXCEPT
               !.st = "SYN_SENT", !.snd = Iss[e], !.rcv = 0, !.len = 1, !.nrtx = 0,
               !.att = TRUE, !.poll = TRUE, !.opens = 1]
  <2>1. e = Client /\ end[e].opens = 0 /\ end' = [end EXCEPT ![e] = z] /\ UNCHANGED net
    BY <1>6 DEF Connect
  <2>2. EndOK(e, z) /\ Begins(end[e], z)
    BY ZenonT(60), <1>1, <2>1, ConnectStep
  <2> HIDE DEF z
  <2>3. end[e].wrote <= z.wrote
    BY <1>1, <2>2 DEF Begins
  <2> QED
    BY <2>1, <2>2, <2>3, CallKept
<1>7. ASSUME NEW e \in Ends, Unlisten(e)
      PROVE  TcpInv'
  <2> DEFINE z == [end[e] EXCEPT !.port = FALSE, !.listening = FALSE]
  <2>1. end[e].port /\ (end[e].opens = 0 \/ UnlistenLate) /\ end' = [end EXCEPT ![e] = z]
        /\ UNCHANGED net
    BY <1>7 DEF Unlisten
  <2>2. EndOK(e, z) /\ Idle(end[e], z)
    BY <1>1, <2>1, UnlistenStep
  <2> HIDE DEF z
  <2>3. end[e].wrote <= z.wrote
    BY <1>1, <2>2 DEF Idle
  <2> QED
    BY <2>1, <2>2, <2>3, CallKept
<1>8. ASSUME NEW e \in Ends, Close(e)
      PROVE  TcpInv'
  <2> DEFINE z == [end[e] EXCEPT !.closing = TRUE]
  <2>1. end[e].told = "connected" /\ end' = [end EXCEPT ![e] = z] /\ UNCHANGED net
    BY <1>8 DEF Close
  <2>2. EndOK(e, z) /\ Idle(end[e], z)
    BY <1>1, <2>1, CloseStep
  <2> HIDE DEF z
  <2>3. end[e].wrote <= z.wrote
    BY <1>1, <2>2 DEF Idle
  <2> QED
    BY <2>1, <2>2, <2>3, CallKept
<1>9. ASSUME NEW e \in Ends, NEW n \in 1..MaxBytes[e], Send(e, n)
      PROVE  TcpInv'
  <2> DEFINE x == end[e]
             len == Min(n, BufLen - Len(x.out))
             z == [x EXCEPT !.out = @ \o [i \in 1..len |-> x.wrote + i], !.wrote = @ + len]
  <2>1. /\ x.wrote + n <= MaxBytes[e] /\ x.att /\ x.told # "ended"
        /\ SendWhileBusy \/ x.out = <<>>
        /\ end' = [end EXCEPT ![e] = z] /\ UNCHANGED net
    <3>1. /\ x.wrote + n <= MaxBytes[e] /\ x.att /\ x.told # "ended"
          /\ SendWhileBusy \/ x.out = <<>>
      BY <1>9 DEF Send
    <3>2. end' = [end EXCEPT ![e] = z]
      BY <1>9 DEF Send
    <3>3. UNCHANGED net
      BY <1>9 DEF Send
    <3> QED
      BY <3>1, <3>2, <3>3
  <2>2. n \in Nat
    BY <1>1
  <2>3. EndOK(e, z) /\ Grows(x, z)
    BY <1>1, <2>1, <2>2, SendStep
  <2> HIDE DEF z
  <2> QED
    BY <2>1, <2>3, CallKept DEF Grows
<1>10. CASE UNCHANGED vars
  BY <1>10 DEF TcpInv, vars
<1> QED
  BY <1>2, <1>3, <1>4, <1>5, <1>6, <1>7, <1>8, <1>9, <1>10 DEF Next

\* The blocks, the sockets and the segments on the way agree, in every state:
\* the buffer holds what was written and not reported as sent, and a segment
\* carries bytes that were written, at their numbers.
THEOREM TcpInvariant == Spec => []TcpInv
  BY InvInit, InvNext, PTL DEF Spec

\* The blocks of both ends keep their types, over wraps of the numbers, lost,
\* repeated and late segments, and the network holds no more than it can.
THEOREM TcpTyped == Spec => []TypeOK
<1>1. TcpInv => TypeOK
  <2> SUFFICES ASSUME TcpInv, NEW e \in Ends
               PROVE  /\ end[e].st \in States
                      /\ {end[e].snd, end[e].rcv} \subseteq 0..(SeqMod - 1)
                      /\ end[e].len \in 0..Mss /\ end[e].nrtx \in 0..MaxRtx
                      /\ end[e].nxt \in 0..Len(end[e].out) /\ Len(end[e].out) <= BufLen
                      /\ {end[e].att, end[e].poll, end[e].closing, end[e].listening,
                          end[e].port} \subseteq BOOLEAN
                      /\ end[e].told \in {"none", "connected", "ended"}
                      /\ end[e].out \in Seq(Bytes(e)) /\ end[e].got \in Seq(Bytes(Other(e)))
                      /\ Cardinality(net[e]) <= Cap[e]
                      /\ \A s \in net[e] : /\ s.fl \subseteq Flags
                                           /\ s.data \in Seq(Bytes(Other(e)))
                                           /\ {s.seq, s.ack} \subseteq 0..(SeqMod - 1)
    BY DEF TypeOK
  <2> DEFINE x == end[e]
  <2>1. EndOK(e, x) /\ Cardinality(net[e]) <= Cap[e]
        /\ \A s \in net[e] : SegOK(Other(e), end[Other(e)], s)
    BY DEF TcpInv
  <2> HIDE DEF x
  <2>2. x \in End(e) /\ x.nxt <= Len(x.out) /\ Len(x.out) <= BufLen
    BY <2>1 DEF EndOK, Buffer
  <2>3. /\ x.st \in States /\ {x.snd, x.rcv} \subseteq 0..(SeqMod - 1)
        /\ x.len \in 0..Mss /\ x.nrtx \in 0..MaxRtx
        /\ {x.att, x.poll, x.closing, x.listening, x.port} \subseteq BOOLEAN
        /\ x.told \in {"none", "connected", "ended"}
        /\ x.out \in Seq(Bytes(e)) /\ x.got \in Seq(Bytes(Other(e))) /\ x.nxt \in Nat
    BY <2>2 DEF End, Numbers
  <2>4. x.nxt \in 0..Len(x.out)
    BY <2>2, <2>3
  <2>5. ASSUME NEW s \in net[e]
        PROVE  /\ s.fl \subseteq Flags /\ s.data \in Seq(Bytes(Other(e)))
               /\ {s.seq, s.ack} \subseteq 0..(SeqMod - 1)
    <3>1. s \in Message(Other(e))
      BY <2>1 DEF SegOK
    <3> QED
      BY <3>1 DEF Message, Numbers, Flags
  <2> QED
    BY <2>1, <2>2, <2>3, <2>4, <2>5 DEF x
<1> QED
  BY <1>1, TcpInvariant, PTL

\* As long as an application waits for DATA_SENT before it sends again, the
\* socket knows how many bytes the connection has outstanding.
THEOREM BytesInFlight == ~SendWhileBusy => (Spec => []InFlightKnown)
<1> SUFFICES ASSUME ~SendWhileBusy
             PROVE  Spec => []InFlightKnown
  OBVIOUS
<1>1. TcpInv => InFlightKnown
  BY DEF TcpInv, EndOK, Flowing, InFlightKnown
<1> QED
  BY <1>1, TcpInvariant, PTL

\* As long as no application unlistens after a SYN was answered, it knows of
\* its connection exactly while that is established.
THEOREM ToldOfConnection == ~UnlistenLate => (Spec => []ApplicationKnows)
<1> SUFFICES ASSUME ~UnlistenLate
             PROVE  Spec => []ApplicationKnows
  OBVIOUS
<1>1. TcpInv => ApplicationKnows
  <2> SUFFICES ASSUME TcpInv, NEW e \in Ends
               PROVE  end[e].told = "connected" <=> end[e].st = "ESTABLISHED"
    BY DEF ApplicationKnows
  <2>1. EndOK(e, end[e])
    BY DEF TcpInv
  <2> QED
    BY <2>1 DEF EndOK, Opening, Untold, Flowing, Closing
<1> QED
  BY <1>1, TcpInvariant, PTL

-------------------------------------------------------------------------------
(* The byte stream.                                                           *)

\* The network may keep a segment for as long as the connection lasts, so a
\* connection has to have more numbers than bytes, SYN and FIN.
Few == \A e \in Ends : MaxBytes[e] + 2 < SeqMod

LEMMA TakenKept ==
  ASSUME NEW e \in Ends, NEW x, NEW z, NEW y, NEW w, NEW a, Taken(e, x, y, a),
         y.wrote \in Nat, w.wrote \in Nat, y.wrote <= w.wrote,
         Len(x.got) \in Nat, Len(z.got) \in Nat, Len(x.got) <= Len(z.got),
         x.told = "ended" => z.told = "ended"
  PROVE  Taken(e, z, w, a)
<1>1. PICK j \in 0 .. y.wrote + 1 :
        a = At(Other(e), j) /\ (j <= Len(x.got) \/ x.told = "ended")
  BY DEF Taken
<1>2. j \in 0 .. w.wrote + 1 /\ (j <= Len(z.got) \/ z.told = "ended")
  BY <1>1
<1> QED
  BY <1>1, <1>2 DEF Taken

LEMMA EndTypes ==
  ASSUME TcpInv, NEW e \in Ends
  PROVE  /\ EndOK(e, end[e]) /\ end[e] \in End(e) /\ Buffer(end[e])
         /\ end[e].wrote \in Nat /\ end[e].wrote <= MaxBytes[e] /\ MaxBytes[e] \in Nat
         /\ end[e].got \in Seq(Bytes(Other(e))) /\ Len(end[e].got) \in Nat
         /\ end[e].conf \in Nat /\ end[e].nxt \in Nat /\ end[e].len \in Nat
         /\ end[e].opens \in Nat /\ end[e].conf + end[e].nxt <= end[e].wrote
<1> DEFINE x == end[e]
<1>1. EndOK(e, x) /\ MaxBytes[e] \in Nat /\ Mss \in Nat
  BY TcpAssumption DEF TcpInv
<1> HIDE DEF x
<1>2. x \in End(e) /\ Buffer(x)
  BY <1>1 DEF EndOK
<1>3. /\ x.wrote \in 0 .. MaxBytes[e] /\ x.got \in Seq(Bytes(Other(e))) /\ x.conf \in Nat
      /\ x.nxt \in Nat /\ x.len \in 0 .. Mss /\ x.opens \in Nat /\ x.out \in Seq(Bytes(e))
  BY <1>2 DEF End
<1>4. Len(x.got) \in Nat /\ Len(x.out) \in Nat
  BY <1>3
<1>5. x.nxt <= Len(x.out) /\ x.conf + Len(x.out) = x.wrote
  BY <1>2 DEF Buffer
<1> QED
  BY <1>1, <1>2, <1>3, <1>4, <1>5 DEF x

\* One end has moved: if what it has itself is right, all is.
LEMMA StreamKept ==
  ASSUME TcpInv, StreamInv, NEW e \in Ends, NEW z, EndOK(e, z),
         end' = [end EXCEPT ![e] = z], end[e].wrote <= z.wrote,
         end[e].told = "ended" => z.told = "ended", Opened(end[e]) => Opened(z),
         Len(end[e].got) <= Len(z.got), StreamOK(e, z, end[Other(e)]),
         net'[e] \subseteq net[e],
         \A t \in net'[Other(e)] :
           \/ t \in net[Other(e)]
           \/ /\ "ACK" \in t.fl /\ "RST" \notin t.fl =>
                   t.ack = z.rcv /\ z.st \notin {"CLOSED", "SYN_SENT"}
              /\ t.data # <<>> \/ "FIN" \in t.fl => z.st \notin Handshake
  PROVE  StreamInv'
<1> DEFINE f == Other(e)
           x == end[e]
           y == end[f]
<1>1. f \in Ends /\ f # e /\ Other(f) = e /\ \A d \in Ends : d = e \/ d = f
  BY TwoEnds
<1>2. end = [d \in Ends |-> end[d]]
  BY DEF TcpInv
<1>3. end'[e] = z /\ end'[f] = y
  BY <1>1, <1>2
<1>4. /\ x.wrote \in Nat /\ z.wrote \in Nat /\ y.wrote \in Nat /\ z.opens \in Nat
      /\ Len(x.got) \in Nat /\ Len(y.got) \in Nat /\ Len(z.got) \in Nat
  <2>1. z \in End(e) /\ MaxBytes[e] \in Nat
    BY EndTypes DEF EndOK
  <2>2. z.wrote \in 0 .. MaxBytes[e] /\ z.got \in Seq(Bytes(f)) /\ z.opens \in Nat
    BY <2>1 DEF End
  <2> QED
    BY <1>1, <2>1, <2>2, EndTypes
<1>5. /\ StreamOK(e, x, y) /\ StreamOK(f, y, x)
      /\ \A s \in net[e] :
           /\ "ACK" \in s.fl /\ "RST" \notin s.fl => Taken(f, y, x, s.ack) /\ Opened(y)
           /\ s.data # <<>> \/ "FIN" \in s.fl => Opened(x)
      /\ \A s \in net[f] :
           /\ "ACK" \in s.fl /\ "RST" \notin s.fl => Taken(e, x, y, s.ack) /\ Opened(x)
           /\ s.data # <<>> \/ "FIN" \in s.fl => Opened(y)
  BY <1>1 DEF StreamInv
<1> HIDE DEF x, y, f
<1>6. \A a : Taken(f, y, x, a) => Taken(f, y, z, a)
  BY <1>1, <1>4, TakenKept DEF x
<1>7. \A a : Taken(e, x, y, a) => Taken(e, z, y, a)
  BY <1>4, TakenKept DEF x
<1>8. StreamOK(f, y, z)
  <2>1. Len(y.got) <= z.wrote
    <3>1. Len(y.got) <= x.wrote
      BY <1>5 DEF StreamOK
    <3> QED
      BY <1>4, <3>1 DEF x
  <2> QED
    BY <1>5, <1>6, <2>1 DEF StreamOK, x
<1>9. ASSUME NEW s \in net'[e]
      PROVE  /\ "ACK" \in s.fl /\ "RST" \notin s.fl => Taken(f, y, z, s.ack) /\ Opened(y)
             /\ s.data # <<>> \/ "FIN" \in s.fl => Opened(z)
  BY <1>5, <1>6, <1>9 DEF x
<1>10. ASSUME NEW t \in net'[f]
       PROVE  /\ "ACK" \in t.fl /\ "RST" \notin t.fl => Taken(e, z, y, t.ack) /\ Opened(z)
              /\ t.data # <<>> \/ "FIN" \in t.fl => Opened(y)
  <2>1. CASE t \in net[f]
    BY <1>5, <1>7, <2>1 DEF x
  <2>2. CASE t \notin net[f]
    <3>1. /\ "ACK" \in t.fl /\ "RST" \notin t.fl =>
               t.ack = z.rcv /\ z.st \notin {"CLOSED", "SYN_SENT"}
          /\ t.data # <<>> \/ "FIN" \in t.fl => z.st \notin Handshake
      BY <1>10, <2>2 DEF f
    <3>2. StreamOK(e, z, y)
      BY DEF y, f
    <3>3. z.st \notin {"CLOSED", "SYN_SENT"} => Taken(e, z, y, z.rcv)
      BY <3>2 DEF StreamOK
    <3>4. z.st \notin Handshake => Opened(y)
      BY <3>2 DEF StreamOK, Handshake
    <3>5. z.st \notin {"CLOSED", "SYN_SENT"} => Opened(z)
      BY <1>4 DEF EndOK, Unopened, Opened
    <3> QED
      BY <3>1, <3>3, <3>4, <3>5
  <2> QED
    BY <2>1, <2>2
<1>11. StreamOK(e, z, y)
  BY DEF y, f
<1> QED
  BY <1>1, <1>3, <1>8, <1>9, <1>10, <1>11 DEF StreamInv, f

LEMMA IdleStream ==
  ASSUME NEW e \in Ends, NEW x, NEW y, NEW z, StreamOK(e, x, y), Idle(x, z),
         y.wrote \in Nat, Len(x.got) \in Nat
  PROVE  StreamOK(e, z, y) /\ (Opened(x) => Opened(z))
<1>1. z.got = x.got /\ z.rcv = x.rcv /\ (x.told = "ended" => z.told = "ended") /\ z.opens = x.opens
  BY DEF Idle
<1>2. /\ z.st \notin {"CLOSED", "SYN_SENT"} => x.st \notin {"CLOSED", "SYN_SENT"}
      /\ z.st \notin {"CLOSED", "SYN_SENT", "SYN_RCVD"} => x.st \notin {"CLOSED", "SYN_SENT", "SYN_RCVD"}
      /\ z.st = "SYN_SENT" => x.st = "SYN_SENT"
  BY DEF Idle
<1>3. Taken(e, x, y, x.rcv) => Taken(e, z, y, z.rcv)
  BY <1>1, TakenKept
<1>4. Opened(x) => Opened(z)
  BY <1>1, <1>2 DEF Opened
<1>5. x.st \notin {"CLOSED", "SYN_SENT"} => Taken(e, x, y, x.rcv)
  BY DEF StreamOK
<1>6. x.st \notin {"CLOSED", "SYN_SENT", "SYN_RCVD"} => Opened(y)
  BY DEF StreamOK
<1>7. Len(z.got) <= y.wrote /\ \A i \in 1 .. Len(z.got) : z.got[i] = i
  BY <1>1 DEF StreamOK
<1> QED
  BY <1>2, <1>3, <1>4, <1>5, <1>6, <1>7 DEF StreamOK

\* The bytes that arrive are the next ones, and those reported as sent have
\* arrived.
LEMMA MovesStream ==
  ASSUME ~SendWhileBusy, ~UnlistenLate, Few, TcpInv, StreamInv,
         NEW e \in Ends, NEW s \in net[e], NEW z, EndOK(e, z), Moves(end[e], z, s)
  PROVE  /\ StreamOK(e, z, end[Other(e)]) /\ Len(end[e].got) <= Len(z.got)
         /\ \/ z.conf = end[e].conf \/ end[Other(e)].told = "ended"
            \/ z.conf <= Len(end[Other(e)].got)
<1> DEFINE f == Other(e)
           x == end[e]
           y == end[f]
           d == s.data
<1>1. f \in Ends /\ Other(f) = e
  BY TwoEnds
<1>2. /\ EndOK(e, x) /\ x.wrote \in Nat /\ Len(x.got) \in Nat /\ x.got \in Seq(Bytes(f))
      /\ x.conf \in Nat /\ x.nxt \in Nat /\ x.len \in Nat
      /\ x.conf + x.nxt <= x.wrote /\ x.wrote <= MaxBytes[e] /\ MaxBytes[e] \in Nat
      /\ y.wrote \in Nat /\ y.wrote <= MaxBytes[f] /\ MaxBytes[f] \in Nat
      /\ Len(y.got) \in Nat
  BY <1>1, EndTypes
<1>3. SeqMod \in Nat /\ MaxBytes[e] + 2 < SeqMod /\ MaxBytes[f] + 2 < SeqMod
  BY <1>1, TcpAssumption DEF Few
<1>4. SegOK(f, y, s)
  BY DEF TcpInv
<1>5. /\ StreamOK(e, x, y)
      /\ "ACK" \in s.fl /\ "RST" \notin s.fl => Taken(f, y, x, s.ack) /\ Opened(y)
  BY <1>1 DEF StreamInv
<1>6. Moves(x, z, s)
  OBVIOUS
<1>7. d \in Seq(Bytes(f)) /\ Len(d) \in Nat
  BY <1>4 DEF SegOK, Message
<1>8. z.got \in Seq(Bytes(f)) /\ Len(z.got) \in Nat
  BY DEF EndOK, End
<1>9. Len(x.got) <= y.wrote /\ \A i \in 1 .. Len(x.got) : x.got[i] = i
  BY <1>5 DEF StreamOK
<1> HIDE DEF f, x, y
<1>10. x.st \in {"SYN_RCVD", "ESTABLISHED"} => x.rcv = At(f, Len(x.got))
  <2>1. CASE x.st = "ESTABLISHED"
    BY <1>2, <2>1 DEF EndOK, Flowing, f
  <2>2. CASE x.st = "SYN_RCVD"
    <3>1. x.got = <<>> /\ x.rcv = At(f, 0)
      BY <1>2, <2>2 DEF EndOK, Opening, Untold, f
    <3> QED
      BY <3>1
  <2> QED
    BY <2>1, <2>2
<1>11. /\ Len(z.got) <= y.wrote /\ Len(x.got) <= Len(z.got)
       /\ \A i \in 1 .. Len(z.got) : z.got[i] = i
  <2>1. CASE z.got = x.got
    BY <1>2, <1>9, <2>1
  <2>2. CASE z.got # x.got
    <3>1. z.got = x.got \o d /\ d # <<>> /\ s.seq = At(f, Len(x.got))
      BY <1>6, <1>10, <2>2 DEF Moves
    <3>2. PICK k \in 0 .. y.wrote : /\ s.seq = At(f, k) /\ k + Len(d) <= y.wrote
                                   /\ \A i \in 1 .. Len(d) : d[i] = k + i
      BY <1>4, <3>1 DEF SegOK
    <3>3. k = Len(x.got)
      <4> DEFINE n == Len(x.got)
                 w == y.wrote
                 m == MaxBytes[f]
      <4>1. n \in Nat /\ w \in Nat /\ n <= w /\ w <= m /\ m \in Nat /\ m + 2 < SeqMod /\ k \in 0 .. w
        BY <1>2, <1>3, <1>9
      <4>2. At(f, k) = At(f, n)
        BY <3>1, <3>2
      <4> HIDE DEF n, w, m
      <4>3. k \in Nat /\ k < SeqMod /\ n < SeqMod
        BY <1>3, <4>1
      <4>4. k = n
        BY <1>1, <4>1, <4>2, <4>3, Distinct
      <4> QED
        BY <4>4 DEF n
    <3>4. Len(z.got) = Len(x.got) + Len(d)
      BY <1>2, <1>7, <3>1
    <3>5. ASSUME NEW i \in 1 .. Len(z.got)
          PROVE  z.got[i] = i
      <4>1. CASE i <= Len(x.got)
        BY <1>2, <1>7, <1>9, <3>1, <4>1
      <4>2. CASE i > Len(x.got)
        <5>1. i - Len(x.got) \in 1 .. Len(d) /\ i \in Nat
          <6> DEFINE n == Len(x.got)
                     l == Len(d)
          <6>1. n \in Nat /\ l \in Nat /\ i \in 1 .. (n + l) /\ i > n
            BY <1>2, <1>7, <3>4, <4>2
          <6> HIDE DEF n, l
          <6>2. i - n \in 1 .. l /\ i \in Nat
            BY <6>1
          <6> QED
            BY <6>2 DEF n, l
        <5>2. z.got[i] = d[i - Len(x.got)]
          BY <1>2, <1>7, <3>1, <3>4, <4>2
        <5>3. d[i - Len(x.got)] = k + (i - Len(x.got))
          BY <3>2, <5>1
        <5> QED
          BY <1>2, <3>3, <5>1, <5>2, <5>3
      <4> QED
        BY <1>2, <4>1, <4>2
    <3>6. Len(z.got) <= y.wrote /\ Len(x.got) <= Len(z.got)
      <4> DEFINE n == Len(x.got)
                 l == Len(d)
                 w == y.wrote
                 g == Len(z.got)
      <4>1. n \in Nat /\ l \in Nat /\ w \in Nat /\ n + l <= w /\ g = n + l
        BY <1>2, <1>7, <3>2, <3>3, <3>4
      <4> HIDE DEF n, l, w, g
      <4>2. g <= w /\ n <= g
        BY <4>1
      <4> QED
        BY <4>2 DEF n, w, g
    <3> QED
      BY <3>5, <3>6
  <2> QED
    BY <2>1, <2>2
<1>12. ASSUME z.st \notin {"CLOSED", "SYN_SENT"}
       PROVE  Taken(e, z, y, z.rcv)
  <2>1. CASE z.st \in {"SYN_RCVD", "ESTABLISHED"}
    <3>1. z.rcv = At(f, Len(z.got))
      <4>1. CASE z.st = "ESTABLISHED"
        BY <4>1 DEF EndOK, Flowing, f
      <4>2. CASE z.st = "SYN_RCVD"
        <5>1. z.got = <<>> /\ z.rcv = At(f, 0)
          BY <4>2 DEF EndOK, Opening, Untold, f
        <5> QED
          BY <5>1
      <4> QED
        BY <2>1, <4>1, <4>2
    <3>2. Len(z.got) \in 0 .. y.wrote + 1 /\ Len(z.got) <= Len(z.got)
      BY <1>2, <1>8, <1>11
    <3> QED
      BY <3>1, <3>2 DEF Taken, f
  <2>2. CASE z.st \notin Handshake \cup {"ESTABLISHED"}
    <3>1. z.told = "ended"
      <4>1. Closing(e, z)
        BY <2>2 DEF EndOK, Handshake
      <4> QED
        BY <4>1 DEF Closing
    <3>2. CASE z.rcv = x.rcv /\ x.st \notin Handshake
      <4>1. Taken(e, x, y, x.rcv)
        BY <1>5, <3>2 DEF StreamOK, Handshake
      <4>2. PICK j \in 0 .. y.wrote + 1 : x.rcv = At(Other(e), j)
        BY <4>1 DEF Taken
      <4> QED
        BY <3>1, <3>2, <4>2 DEF Taken
    <3>3. CASE /\ z.rcv = Add32(x.rcv, IF "FIN" \in s.fl THEN 1 ELSE Len(d))
               /\ s.seq = x.rcv /\ Odd(s)
      <4> DEFINE c == IF "FIN" \in s.fl THEN 1 ELSE Len(d)
      <4>1. PICK k \in 0 .. y.wrote : s.seq = At(f, k) /\ k + c <= y.wrote + 1
        <5>1. CASE "FIN" \in s.fl
          <6>1. PICK k \in 0 .. y.wrote : s.seq = At(f, k)
            BY <1>4, <5>1 DEF SegOK
          <6> QED
            BY <1>2, <5>1, <6>1
        <5>2. CASE "FIN" \notin s.fl
          <6>1. d # <<>>
            BY <3>3, <5>2 DEF Odd
          <6>2. PICK k \in 0 .. y.wrote : s.seq = At(f, k) /\ k + Len(d) <= y.wrote
            BY <1>4, <6>1 DEF SegOK
          <6> QED
            BY <1>2, <1>7, <5>2, <6>2
        <5> QED
          BY <5>1, <5>2
      <4>2. c \in Nat /\ k \in Nat /\ k + c \in 0 .. y.wrote + 1
        BY <1>2, <1>7, <4>1
      <4>3. z.rcv = At(f, k + c)
        <5>1. z.rcv = Add32(At(f, k), c)
          BY <3>3, <4>1
        <5> HIDE DEF c
        <5> QED
          BY <1>1, <4>2, <5>1, Positions
      <4> HIDE DEF c
      <4> QED
        BY <3>1, <4>2, <4>3 DEF Taken, f
    <3> QED
      BY <1>6, <2>2, <3>2, <3>3 DEF Moves
  <2> QED
    BY <1>12, <2>1, <2>2 DEF Handshake
<1>13. z.st \notin Handshake => Opened(y)
  <2>1. z.st \in Handshake \/ x.st \notin Handshake \/ ("ACK" \in s.fl /\ "RST" \notin s.fl)
    BY <1>6 DEF Moves
  <2>2. x.st \notin Handshake => Opened(y)
    BY <1>5 DEF StreamOK, Handshake
  <2> QED
    BY <1>5, <2>1, <2>2
<1>14. z.conf = x.conf \/ y.told = "ended" \/ z.conf <= Len(y.got)
  <2> SUFFICES ASSUME z.conf # x.conf
               PROVE  y.told = "ended" \/ z.conf <= Len(y.got)
    OBVIOUS
  <2>1. z.conf = x.conf + x.nxt /\ x.st = "ESTABLISHED" /\ Acks(x, s) /\ "RST" \notin s.fl
    BY <1>6 DEF Moves
  <2>2. "ACK" \in s.fl /\ s.ack = Add32(x.snd, x.len)
    BY <2>1 DEF Acks
  <2>3. x.nxt = x.len /\ x.snd = At(e, x.conf)
    BY <1>2, <2>1 DEF EndOK, Flowing
  <2>4. s.ack = At(e, x.conf + x.nxt)
    <3> DEFINE c == x.conf
               n == x.nxt
    <3>1. c \in Nat /\ n \in Nat /\ s.ack = Add32(At(e, c), n)
      BY <1>2, <2>2, <2>3
    <3> HIDE DEF c, n
    <3>2. s.ack = At(e, c + n)
      BY <3>1, Positions
    <3> QED
      BY <3>2 DEF c, n
  <2>5. PICK j \in 0 .. x.wrote + 1 : s.ack = At(e, j) /\ (j <= Len(y.got) \/ y.told = "ended")
    BY <1>1, <1>5, <2>1, <2>2 DEF Taken
  <2>6. j = x.conf + x.nxt
    <3> DEFINE m == x.conf + x.nxt
               w == x.wrote
               b == MaxBytes[e]
    <3>1. m \in Nat /\ w \in Nat /\ b \in Nat /\ m <= w /\ w <= b /\ b + 2 < SeqMod
          /\ j \in 0 .. w + 1
      BY SMTT(60), <1>2, <1>3
    <3>2. At(e, j) = At(e, m)
      BY <2>4, <2>5
    <3> HIDE DEF m, w, b
    <3>3. j \in Nat /\ j < SeqMod /\ m < SeqMod
      BY <1>3, <3>1
    <3>4. j = m
      BY <3>1, <3>2, <3>3, Distinct
    <3> QED
      BY <3>4 DEF m
  <2> QED
    BY <2>1, <2>5, <2>6
<1>15. StreamOK(e, z, y)
  BY <1>11, <1>12, <1>13 DEF StreamOK, Handshake
<1> QED
  BY <1>11, <1>14, <1>15 DEF x, y, f

\* One end, now z, has written nothing and is on in the stream
Advances(e, z) ==
  /\ end' = [end EXCEPT ![e] = z] /\ EndOK(e, z) /\ z.wrote = end[e].wrote
  /\ (end[e].told = "ended" => z.told = "ended") /\ (Opened(end[e]) => Opened(z))
  /\ StreamOK(e, z, end[Other(e)]) /\ Len(end[e].got) <= Len(z.got)
  /\ end[e].conf <= z.conf
  /\ \/ z.conf = end[e].conf \/ end[Other(e)].told = "ended"
     \/ z.conf <= Len(end[Other(e)].got)

LEMMA IdleAdvances ==
  ASSUME TcpInv, StreamInv, NEW e \in Ends, NEW z, EndOK(e, z), Idle(end[e], z),
         end' = [end EXCEPT ![e] = z]
  PROVE  Advances(e, z)
<1> DEFINE x == end[e]
           y == end[Other(e)]
<1>1. /\ Other(e) \in Ends /\ y.wrote \in Nat /\ Len(x.got) \in Nat /\ x.conf \in Nat
      /\ StreamOK(e, x, y)
  BY TwoEnds, EndTypes DEF StreamInv
<1>2. StreamOK(e, z, y) /\ (Opened(x) => Opened(z))
  BY <1>1, IdleStream
<1>3. z.wrote = x.wrote /\ z.got = x.got /\ z.conf = x.conf /\ (x.told = "ended" => z.told = "ended")
  BY DEF Idle
<1> HIDE DEF x, y
<1>4. Len(x.got) <= Len(z.got) /\ x.conf <= z.conf
  BY <1>1, <1>3
<1> QED
  BY <1>2, <1>3, <1>4 DEF Advances, x, y

LEMMA MovesAdvances ==
  ASSUME ~SendWhileBusy, ~UnlistenLate, Few, TcpInv, StreamInv,
         NEW e \in Ends, NEW s \in net[e], NEW z, EndOK(e, z), Moves(end[e], z, s),
         end' = [end EXCEPT ![e] = z]
  PROVE  Advances(e, z)
<1>1. end[e].conf \in Nat /\ end[e].nxt \in Nat
  BY EndTypes
<1>2. z.conf = end[e].conf \/ z.conf = end[e].conf + end[e].nxt
  BY DEF Moves
<1>3. end[e].conf <= z.conf
  <2> DEFINE c == end[e].conf
             n == end[e].nxt
             m == z.conf
  <2>1. c \in Nat /\ n \in Nat /\ (m = c \/ m = c + n)
    BY <1>1, <1>2
  <2> HIDE DEF c, n, m
  <2>2. c <= m
    BY <2>1
  <2> QED
    BY <2>2 DEF c, m
<1>4. /\ z.wrote = end[e].wrote /\ (end[e].told = "ended" => z.told = "ended")
      /\ Opened(end[e]) => Opened(z)
  BY DEF Moves
<1> QED
  BY <1>3, <1>4, MovesStream DEF Advances

LEMMA ProgressStep ==
  ASSUME TcpInv, NEW e \in Ends, NEW z, Advances(e, z)
  PROVE  Stream!Progress(e)
<1> DEFINE f == Other(e)
           x == end[e]
           y == end[f]
<1>1. f \in Ends /\ f # e /\ end = [d \in Ends |-> end[d]] /\ f = Stream!Other(e)
  BY TwoEnds DEF TcpInv, Other, Stream!Other
<1>2. end' = [end EXCEPT ![e] = z] /\ z.wrote = x.wrote
      /\ (x.told = "ended" => z.told = "ended") /\ StreamOK(e, z, y)
      /\ Len(x.got) <= Len(z.got) /\ x.conf <= z.conf
      /\ (z.conf = x.conf \/ y.told = "ended" \/ z.conf <= Len(y.got))
  BY DEF Advances
<1>3. \A d \in Ends : end'[d] = IF d = e THEN z ELSE end[d]
  BY <1>1, <1>2
<1>4. z \in End(e) /\ Buffer(z)
  BY DEF Advances, EndOK
<1>5. /\ Len(x.got) \in Nat /\ y.wrote \in Nat /\ x.conf \in Nat /\ x.wrote \in Nat
  BY <1>1, EndTypes
<1>6. z.conf \in Nat /\ z.got \in Seq(Bytes(f)) /\ Len(z.got) \in Nat
      /\ z.out \in Seq(Bytes(e)) /\ Len(z.out) \in Nat
  BY <1>4 DEF End
<1>7. z.conf <= x.wrote
  <2> DEFINE c == z.conf
             l == Len(z.out)
             w == x.wrote
  <2>1. c \in Nat /\ l \in Nat /\ w \in Nat /\ c + l = w
    BY <1>2, <1>4, <1>5, <1>6 DEF Buffer
  <2> HIDE DEF c, l, w
  <2>2. c <= w
    BY <2>1
  <2> QED
    BY <2>2 DEF c, w
<1> DEFINE W == [d \in Ends |-> end[d].wrote]
           G == [d \in Ends |-> end[d].got]
           C == [d \in Ends |-> end[d].conf]
           D == [d \in Ends |-> end[d].told = "ended"]
<1>8. W' = W
  BY <1>2, <1>3
<1>9. \E n \in Len(G[e]) .. W[f] : G' = [G EXCEPT ![e] = [i \in 1 .. n |-> i]]
  <2>1. Len(z.got) <= y.wrote /\ \A i \in 1 .. Len(z.got) : z.got[i] = i
    BY <1>2 DEF StreamOK
  <2> DEFINE n == Len(z.got)
  <2>2. z.got = [i \in 1 .. n |-> i]
    BY SMTT(60), <1>6, <2>1
  <2>3. n \in Len(G[e]) .. W[f]
    BY <1>1, <1>2, <1>5, <1>6, <2>1
  <2>4. G' = [G EXCEPT ![e] = z.got]
    BY <1>3
  <2> HIDE DEF n, G, W
  <2> QED
    BY <2>2, <2>3, <2>4
<1>10. \E n \in C[e] .. W[e] : /\ n = C[e] \/ D[f] \/ n <= Len(G[f])
                               /\ C' = [C EXCEPT ![e] = n]
  <2>1. z.conf \in C[e] .. W[e]
    BY <1>2, <1>5, <1>6, <1>7
  <2>2. z.conf = C[e] \/ D[f] \/ z.conf <= Len(G[f])
    BY <1>1, <1>2
  <2>3. C' = [C EXCEPT ![e] = z.conf]
    BY <1>3
  <2> QED
    BY <2>1, <2>2, <2>3
<1>11. \E b \in {D[e], TRUE} : D' = [D EXCEPT ![e] = b]
  <2>1. D' = [D EXCEPT ![e] = (z.told = "ended")]
    BY <1>3
  <2>2. (z.told = "ended") \in {D[e], TRUE}
    BY <1>2
  <2> HIDE DEF D
  <2> QED
    BY <2>1, <2>2
<1> HIDE DEF W, G, C, D
<1>12. Stream!Progress(e) <=>
         /\ \E n \in Len(G[e]) .. W[Stream!Other(e)] : G' = [G EXCEPT ![e] = [i \in 1 .. n |-> i]]
         /\ \E n \in C[e] .. W[e] :
              /\ n = C[e] \/ D[Stream!Other(e)] \/ n <= Len(G[Stream!Other(e)])
              /\ C' = [C EXCEPT ![e] = n]
         /\ \E b \in {D[e], TRUE} : D' = [D EXCEPT ![e] = b]
         /\ W' = W
  BY DEF Stream!Progress, W, G, C, D
<1> QED
  BY <1>1, <1>8, <1>9, <1>10, <1>11, <1>12

\* An end has advanced: the other one and the segments on the way are right.
LEMMA AdvancesKept ==
  ASSUME TcpInv, StreamInv, NEW e \in Ends, NEW z, Advances(e, z),
         net'[e] \subseteq net[e],
         \A t \in net'[Other(e)] :
           \/ t \in net[Other(e)]
           \/ /\ "ACK" \in t.fl /\ "RST" \notin t.fl =>
                   t.ack = z.rcv /\ z.st \notin {"CLOSED", "SYN_SENT"}
              /\ t.data # <<>> \/ "FIN" \in t.fl => z.st \notin Handshake
  PROVE  StreamInv'
<1>1. end[e].wrote \in Nat
  BY EndTypes
<1>2. end[e].wrote <= z.wrote
  BY <1>1 DEF Advances
<1> QED
  BY <1>2, StreamKept DEF Advances

\* A step of uip_process
LEMMA DoAdvances ==
  ASSUME TcpInv, StreamInv, NEW e \in Ends, NEW r, NEW odd, Step(e, r, odd), Do(e, r),
         Advances(e, r.x), odd => Opened(end[e])
  PROVE  StreamInv'
<1> DEFINE z == r.x
<1>1. end' = [end EXCEPT ![e] = z] /\ net' = Carry(e, r.tx)
  BY DEF Do
<1>2. EndOK(e, z) /\ IsFiniteSet(r.tx)
  BY DEF Step
<1>3. net'[e] = net[e] /\ net'[Other(e)] \subseteq net[Other(e)] \cup r.tx
  BY <1>1, <1>2, CarryFacts
<1>4. ASSUME NEW t \in r.tx
      PROVE  /\ "ACK" \in t.fl /\ "RST" \notin t.fl =>
                  t.ack = z.rcv /\ z.st \notin {"CLOSED", "SYN_SENT"}
             /\ t.data # <<>> \/ "FIN" \in t.fl => z.st \notin Handshake
  <2>1. /\ Sent(e, z, t) /\ (z.st = "CLOSED" => "RST" \in t.fl)
        /\ z.st = "SYN_SENT" => "ACK" \notin t.fl \/ odd
    BY DEF Step
  <2>2. odd => z.st # "SYN_SENT"
    BY DEF Advances, Opened
  <2> QED
    BY <2>1, <2>2 DEF Sent, Handshake
<1>5. Advances(e, z)
  OBVIOUS
<1> HIDE DEF z
<1> QED
  BY <1>3, <1>4, <1>5, AdvancesKept

\* A call of the application
LEMMA CallAdvances ==
  ASSUME TcpInv, StreamInv, NEW e \in Ends, NEW z, Advances(e, z), UNCHANGED net
  PROVE  StreamInv'
  BY AdvancesKept

\* Who is still to connect is on in the stream when it connects.
LEMMA ConnectAdvances ==
  ASSUME TcpInv, StreamInv, NEW e \in Ends, NEW z, EndOK(e, z),
         end' = [end EXCEPT ![e] = z], end[e].opens = 0, Begins(end[e], z)
  PROVE  Advances(e, z)
<1> DEFINE x == end[e]
           y == end[Other(e)]
<1>1. Len(x.got) \in Nat /\ x.conf \in Nat /\ StreamOK(e, x, y) /\ x.opens = 0
  BY EndTypes DEF StreamInv
<1>2. ~Opened(x)
  BY <1>1 DEF Opened
<1>3. StreamOK(e, z, y)
  BY <1>1 DEF StreamOK, Begins
<1>4. z.wrote = x.wrote /\ z.told = x.told /\ z.got = x.got /\ z.conf = x.conf
  BY DEF Begins
<1> HIDE DEF x, y
<1>5. Len(x.got) <= Len(z.got) /\ x.conf <= z.conf
  BY <1>1, <1>4
<1> QED
  BY <1>2, <1>3, <1>4, <1>5 DEF Advances, x, y

\* An end writes.
LEMMA WriteStep ==
  ASSUME TcpInv, StreamInv, NEW e \in Ends, NEW z, EndOK(e, z),
         end' = [end EXCEPT ![e] = z], UNCHANGED net, Grows(end[e], z)
  PROVE  StreamInv' /\ (Stream!Write(e) \/ UNCHANGED Stream!vars)
<1> DEFINE x == end[e]
           y == end[Other(e)]
<1>1. /\ Len(x.got) \in Nat /\ x.wrote \in Nat /\ StreamOK(e, x, y)
      /\ Other(e) \in Ends /\ end = [d \in Ends |-> end[d]]
  BY TwoEnds, EndTypes DEF StreamInv, TcpInv
<1>0. /\ x.wrote <= z.wrote /\ z.got = x.got /\ z.conf = x.conf /\ z.told = x.told
      /\ z.st = x.st /\ z.opens = x.opens /\ z.rcv = x.rcv
  BY DEF Grows
<1>2. Opened(x) => Opened(z)
  BY <1>0 DEF Opened
<1>3. y.wrote \in Nat
  BY <1>1, EndTypes
<1>4. StreamOK(e, z, y)
  <2>1. Taken(e, x, y, x.rcv) => Taken(e, z, y, z.rcv)
    BY <1>0 DEF Taken
  <2> QED
    BY <1>0, <1>1, <2>1 DEF StreamOK
<1>5. StreamInv'
  <2>1. Len(x.got) <= Len(z.got)
    BY <1>0, <1>1
  <2>2. net'[e] \subseteq net[e] /\ net'[Other(e)] = net[Other(e)]
    OBVIOUS
  <2> QED
    BY <1>0, <1>2, <1>4, <2>1, <2>2, StreamKept
<1>6. \A d \in Ends : end'[d] = IF d = e THEN z ELSE end[d]
  BY <1>1
<1> DEFINE W == [d \in Ends |-> end[d].wrote]
           G == [d \in Ends |-> end[d].got]
           C == [d \in Ends |-> end[d].conf]
           D == [d \in Ends |-> end[d].told = "ended"]
<1>7. G' = G /\ C' = C /\ D' = D
  BY <1>0, <1>6
<1>8. W' = [W EXCEPT ![e] = W'[e]] /\ W'[e] = z.wrote /\ W[e] = x.wrote
  <2>1. W'[e] = z.wrote /\ W[e] = x.wrote
    BY <1>6
  <2>2. W' = [W EXCEPT ![e] = z.wrote]
    <3>1. \A d \in Ends : W'[d] = IF d = e THEN z.wrote ELSE W[d]
      BY <1>6
    <3>2. W = [d \in Ends |-> W[d]] /\ W' = [d \in Ends |-> W'[d]]
      OBVIOUS
    <3> HIDE DEF W
    <3> QED
      BY <3>1, <3>2
  <2> HIDE DEF W
  <2> QED
    BY <2>1, <2>2
<1>9. z.wrote = x.wrote \/ z.wrote > x.wrote
  <2>1. z.wrote \in Nat
    BY EndTypes DEF EndOK, End
  <2> QED
    BY <1>0, <1>1, <2>1
<1>10. CASE z.wrote = x.wrote
  <2>1. W' = W
    BY <1>8, <1>10
  <2> HIDE DEF W, G, C, D
  <2>2. Stream!vars = <<W, G, C, D>>
    BY DEF Stream!vars, W, G, C, D
  <2>3. Stream!vars' = <<W', G', C', D'>>
    BY DEF Stream!vars, W, G, C, D
  <2> QED
    BY <1>5, <1>7, <2>1, <2>2, <2>3
<1>11. CASE z.wrote > x.wrote
  <2>1. W'[e] > W[e]
    BY <1>8, <1>11
  <2> HIDE DEF W, G, C, D
  <2>2. Stream!Write(e) <=> /\ W'[e] > W[e] /\ W' = [W EXCEPT ![e] = W'[e]]
                            /\ UNCHANGED <<G, C, D>>
    BY DEF Stream!Write, W, G, C, D
  <2> QED
    BY <1>5, <1>7, <1>8, <2>1, <2>2
<1> QED
  BY <1>9, <1>10, <1>11

LEMMA StreamInit == Init => StreamInv /\ Stream!Init
<1> SUFFICES ASSUME Init
             PROVE  StreamInv /\ Stream!Init
  OBVIOUS
<1>1. \A e \in Ends : end[e] = Start(e) /\ net[e] = {} /\ Other(e) \in Ends
  BY TwoEnds DEF Init
<1>2. \A e \in Ends : /\ end[e].st = "CLOSED" /\ end[e].got = <<>> /\ end[e].wrote = 0
                      /\ end[e].conf = 0 /\ end[e].told = "none"
  <2> SUFFICES ASSUME NEW e \in Ends
               PROVE  /\ end[e].st = "CLOSED" /\ end[e].got = <<>> /\ end[e].wrote = 0
                      /\ end[e].conf = 0 /\ end[e].told = "none"
    OBVIOUS
  <2> DEFINE b == e # Client
  <2>1. end[e] = [st |-> "CLOSED", snd |-> 0, rcv |-> 0, len |-> 0, nrtx |-> 0,
             att |-> FALSE, poll |-> FALSE, opens |-> 0,
             out |-> <<>>, nxt |-> 0, closing |-> FALSE, listening |-> b, port |-> b,
             wrote |-> 0, got |-> <<>>, conf |-> 0, told |-> "none"]
    BY <1>1 DEF Start
  <2> HIDE DEF b
  <2> QED
    BY <2>1
<1>3. \A e \in Ends : StreamOK(e, end[e], end[Other(e)])
  BY <1>1, <1>2 DEF StreamOK
<1>4. StreamInv
  BY <1>1, <1>3 DEF StreamInv
<1>5. Stream!Init
  BY <1>2 DEF Stream!Init
<1> QED
  BY <1>4, <1>5

LEMMA StreamNext ==
  ASSUME ~SendWhileBusy, ~UnlistenLate, Few, TcpInv, StreamInv, [Next]_vars
  PROVE  StreamInv' /\ [Stream!Next]_(Stream!vars)
<1>1. ASSUME NEW e \in Ends
      PROVE  EndOK(e, end[e]) /\ end[e].wrote \in Nat /\ MaxBytes[e] \in Nat
  BY EndTypes
<1>2. ASSUME NEW e \in Ends, NEW z, Advances(e, z)
      PROVE  Stream!Next
  BY <1>2, ProgressStep DEF Stream!Next
<1>3. ASSUME NEW e \in Ends, NEW s \in net[e], Deliver(e, s)
      PROVE  StreamInv' /\ Stream!Next
  <2> DEFINE r == tcp_input(e, end[e], s)
  <2>1. Do(e, r) /\ ~(end[e].st = "CLOSED" /\ end[e].opens > 0 /\ s.fl = {"SYN"})
    BY <1>3 DEF Deliver
  <2>2. Segm(e, s)
    BY SegSegm DEF TcpInv
  <2>3. Step(e, r, Odd(s)) /\ Moves(end[e], r.x, s)
    BY <1>1, <2>1, <2>2, InputStep
  <2> HIDE DEF r
  <2>4. EndOK(e, r.x) /\ end' = [end EXCEPT ![e] = r.x]
    BY <2>1, <2>3 DEF Step, Do
  <2>5. Advances(e, r.x)
    BY <2>3, <2>4, MovesAdvances
  <2>6. Odd(s) => Opened(end[e])
    BY DEF StreamInv, Odd
  <2> QED
    BY <1>2, <2>1, <2>3, <2>5, <2>6, DoAdvances
<1>4. ASSUME NEW e \in Ends, NEW s \in net[e], Lose(e, s)
      PROVE  StreamInv' /\ UNCHANGED Stream!vars
  <2>1. net' = [net EXCEPT ![e] = net[e] \ {s}] /\ UNCHANGED end
    BY <1>4 DEF Lose
  <2>2. net = [d \in Ends |-> net[d]]
    BY DEF TcpInv
  <2>3. \A d \in Ends : net'[d] \subseteq net[d]
    BY <2>1, <2>2
  <2>4. StreamInv'
    BY <2>1, <2>3 DEF StreamInv
  <2>5. UNCHANGED Stream!vars
    BY <2>1 DEF Stream!vars
  <2> QED
    BY <2>4, <2>5
<1>5. ASSUME NEW e \in Ends, NEW r, Step(e, r, FALSE), Idle(end[e], r.x), Do(e, r)
      PROVE  StreamInv' /\ Stream!Next
  <2>1. EndOK(e, r.x) /\ end' = [end EXCEPT ![e] = r.x]
    BY <1>5 DEF Step, Do
  <2>2. Advances(e, r.x)
    BY <1>5, <2>1, IdleAdvances
  <2> QED
    BY <1>2, <1>5, <2>2, DoAdvances
<1>6. ASSUME NEW e \in Ends, Timer(e)
      PROVE  StreamInv' /\ Stream!Next
  <2> DEFINE r == uip_timer(end[e])
  <2>1. Do(e, r) /\ end[e].st # "CLOSED"
    BY <1>6 DEF Timer
  <2>2. Step(e, r, FALSE) /\ Idle(end[e], r.x)
    BY <1>1, <2>1, TimerStep
  <2> HIDE DEF r
  <2> QED
    BY <1>5, <2>1, <2>2
<1>7. ASSUME NEW e \in Ends, Poll(e)
      PROVE  StreamInv' /\ Stream!Next
  <2> DEFINE r == uip_poll([end[e] EXCEPT !.poll = FALSE])
  <2>1. Do(e, r) /\ end[e].poll
    BY <1>7 DEF Poll
  <2>2. Step(e, r, FALSE) /\ Idle(end[e], r.x)
    BY <1>1, <2>1, PollStep
  <2> HIDE DEF r
  <2> QED
    BY <1>5, <2>1, <2>2
<1>8. ASSUME NEW e \in Ends, Connect(e)
      PROVE  StreamInv' /\ Stream!Next
  <2> DEFINE z == [end[e] EXCEPT
               !.st = "SYN_SENT", !.snd = Iss[e], !.rcv = 0, !.len = 1, !.nrtx = 0,
               !.att = TRUE, !.poll = TRUE, !.opens = 1]
  <2>1. e = Client /\ end[e].opens = 0 /\ end' = [end EXCEPT ![e] = z] /\ UNCHANGED net
    BY <1>8 DEF Connect
  <2>2. EndOK(e, z) /\ Begins(end[e], z)
    BY ZenonT(60), <1>1, <2>1, ConnectStep
  <2> HIDE DEF z
  <2>3. Advances(e, z)
    BY <2>1, <2>2, ConnectAdvances
  <2> QED
    BY <1>2, <2>1, <2>3, CallAdvances
<1>9. ASSUME NEW e \in Ends, Unlisten(e)
      PROVE  StreamInv' /\ Stream!Next
  <2> DEFINE z == [end[e] EXCEPT !.port = FALSE, !.listening = FALSE]
  <2>1. end[e].port /\ (end[e].opens = 0 \/ UnlistenLate) /\ end' = [end EXCEPT ![e] = z]
        /\ UNCHANGED net
    BY <1>9 DEF Unlisten
  <2>2. EndOK(e, z) /\ Idle(end[e], z)
    BY <1>1, <2>1, UnlistenStep
  <2> HIDE DEF z
  <2>3. Advances(e, z)
    BY <2>1, <2>2, IdleAdvances
  <2> QED
    BY <1>2, <2>1, <2>3, CallAdvances
<1>10. ASSUME NEW e \in Ends, Close(e)
       PROVE  StreamInv' /\ Stream!Next
  <2> DEFINE z == [end[e] EXCEPT !.closing = TRUE]
  <2>1. end[e].told = "connected" /\ end' = [end EXCEPT ![e] = z] /\ UNCHANGED net
    BY <1>10 DEF Close
  <2>2. EndOK(e, z) /\ Idle(end[e], z)
    BY <1>1, <2>1, CloseStep
  <2> HIDE DEF z
  <2>3. Advances(e, z)
    BY <2>1, <2>2, IdleAdvances
  <2> QED
    BY <1>2, <2>1, <2>3, CallAdvances
<1>11. ASSUME NEW e \in Ends, NEW n \in 1..MaxBytes[e], Send(e, n)
       PROVE  StreamInv' /\ (Stream!Next \/ UNCHANGED Stream!vars)
  <2> DEFINE x == end[e]
             len == Min(n, BufLen - Len(x.out))
             z == [x EXCEPT !.out = @ \o [i \in 1..len |-> x.wrote + i], !.wrote = @ + len]
  <2>1. /\ x.wrote + n <= MaxBytes[e] /\ x.att /\ x.told # "ended"
        /\ SendWhileBusy \/ x.out = <<>>
    BY <1>11 DEF Send
  <2>2. end' = [end EXCEPT ![e] = z] /\ UNCHANGED net
    <3>1. end' = [end EXCEPT ![e] = z]
      BY <1>11 DEF Send
    <3>2. UNCHANGED net
      BY <1>11 DEF Send
    <3> QED
      BY <3>1, <3>2
  <2>3. n \in Nat
    BY <1>1
  <2>4. EndOK(e, z) /\ Grows(x, z)
    BY <1>1, <2>1, <2>3, SendStep
  <2> HIDE DEF z
  <2>5. StreamInv' /\ (Stream!Write(e) \/ UNCHANGED Stream!vars)
    BY <2>2, <2>4, WriteStep
  <2> QED
    BY <2>5 DEF Stream!Next
<1>12. CASE UNCHANGED vars
  <2>1. StreamInv'
    BY <1>12 DEF StreamInv, vars
  <2>2. UNCHANGED Stream!vars
    BY <1>12 DEF Stream!vars, vars
  <2> QED
    BY <2>1, <2>2
<1> QED
  BY <1>3, <1>4, <1>6, <1>7, <1>8, <1>9, <1>10, <1>11, <1>12 DEF Next

\* The sockets implement the byte stream: over a network that loses,
\* duplicates and reorders segments, each application is given the bytes the
\* other one wrote, in order, without a gap and none twice, and DATA_SENT is
\* reported of a byte only when the other application has it.  As long as an
\* application waits for DATA_SENT before it sends again and does not unlisten
\* after a SYN was answered, and not all sequence numbers are used.
THEOREM SocketsAreStreams ==
  ~SendWhileBusy /\ ~UnlistenLate /\ Few => (Spec => ImplementsStream)
<1> SUFFICES ASSUME ~SendWhileBusy, ~UnlistenLate, Few
             PROVE  Spec => ImplementsStream
  OBVIOUS
<1>1. Init => TcpInv /\ StreamInv /\ Stream!Init
  BY InvInit, StreamInit
<1>2. TcpInv /\ StreamInv /\ [Next]_vars =>
        TcpInv' /\ StreamInv' /\ [Stream!Next]_(Stream!vars)
  BY InvNext, StreamNext
<1> QED
  BY <1>1, <1>2, PTL DEF Spec, ImplementsStream, Stream!Spec
===============================================================================
