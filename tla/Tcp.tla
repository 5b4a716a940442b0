--------------------------------- MODULE Tcp ---------------------------------
(* The TCP of uip_process (uip6.c) under the stream sockets of tcp-socket.c,  *)
(* at the two ends of one connection over a network that loses, duplicates    *)
(* and reorders segments.  A step of an end is one call of uip_process with   *)
(* the calls of the application it makes: the periodic timer, the poll that   *)
(* tcp_connect posts, or an incoming segment; or one call of tcp-socket.c by  *)
(* the application.  The i-th byte an end writes is the number i.             *)
(*                                                                            *)
(* Left out: urgent data, uip_stop, the MSS and window arithmetic (the MSS is *)
(* a constant), the RTT estimate (the retransmission timer may fire at any    *)
(* time) and checksums.                                                       *)
EXTENDS Integers, Sequences, FiniteSets

CONSTANTS Ends, Client,          \* two ends; Client opens, the other listens
          Iss,                   \* Iss[e]: initial sequence number of e
          SeqMod,                \* sequence numbers are modulo SeqMod (2^32)
          Mss,                   \* uip_mss, in bytes
          MaxRtx, MaxSynRtx,     \* UIP_MAXRTX, UIP_MAXSYNRTX
          BufLen,                \* output_data_maxlen of the sockets
          MaxBytes,              \* bound: MaxBytes[e] bytes are written at e
          Cap,                   \* bound: Cap[e] segments on the way to e
          SendWhileBusy,         \* an application sends before DATA_SENT
          UnlistenLate           \* and unlistens after a SYN was answered

ASSUME TcpAssumption ==
  /\ Client \in Ends /\ \E d \in Ends \ {Client} : Ends = {Client, d}
  /\ SeqMod \in Nat \ {0} /\ Iss \in [Ends -> 0..(SeqMod - 1)]
  /\ {Mss, BufLen} \subseteq Nat \ {0}
  /\ {MaxRtx, MaxSynRtx} \subseteq Nat
  /\ {MaxBytes, Cap} \subseteq [Ends -> Nat]
  /\ {SendWhileBusy, UnlistenLate} \subseteq BOOLEAN

VARIABLES end,        \* end[e]: the connection block and the socket of e
          net         \* net[e]: the segments on the way to e

vars == <<end, net>>

Other(e) == CHOOSE d \in Ends : d # e

Add32(a, n) == (a + n) % SeqMod
Min(a, b) == IF a < b THEN a ELSE b

(* The fields of end[e].  The connection: st tcpstateflags, snd, rcv, len,    *)
(* nrtx as in struct uip_conn, att whether appstate.state is the socket, poll *)
(* whether its TCP_POLL is queued, opens how often it left CLOSED.  The       *)
(* socket: out the output buffer, nxt output_data_send_nxt, closing and       *)
(* listening its flags, port whether it holds a port to listen on.  History:  *)
(* wrote, got, conf (bytes written, given to the input callback, reported by  *)
(* DATA_SENT) and told, the last of the other events.                         *)
Start(e) ==
  [st |-> "CLOSED", snd |-> 0, rcv |-> 0, len |-> 0, nrtx |-> 0,
   att |-> FALSE, poll |-> FALSE, opens |-> 0,
   out |-> <<>>, nxt |-> 0, closing |-> FALSE,
   listening |-> e # Client, port |-> e # Client,
   wrote |-> 0, got |-> <<>>, conf |-> 0, told |-> "none"]

Init == /\ end = [e \in Ends |-> Start(e)]
        /\ net = [e \in Ends |-> {}]

-------------------------------------------------------------------------------
(* tcp-socket.c: the calls of the application.                                *)

\* What a call of the application leaves: the end, how many bytes it put into
\* the packet (uip_slen), and uip_flags.
Called(x, slen, fl) == [x |-> x, slen |-> slen, fl |-> fl]

\* mutated form: output_data_send_nxt is not set
M_senddata(x, fl) == Called(x, Min(Len(x.out), Mss), fl)

senddata(x, fl) ==
  LET len == Min(Len(x.out), Mss)
  IN  IF x.out = <<>> THEN Called(x, 0, fl)
                      ELSE Called([x EXCEPT !.nxt = len], len, fl)

acked(x) ==
  IF x.out = <<>> THEN x
  ELSE [x EXCEPT !.out = SubSeq(@, x.nxt + 1, Len(@)),
                 !.nxt = 0, !.conf = @ + x.nxt]

\* mutated form: input_data_len is not reset, and the buffer stays full
M_newdata(x, data) == [x EXCEPT !.got = IF @ = <<>> THEN data ELSE @]

newdata(x, data) == [x EXCEPT !.got = @ \o data]

\* An event of the end of the connection, and relisten.
Ended(x) == [x EXCEPT !.told = "ended", !.listening = @ \/ x.port]

\* appcall for uip_connected(), behind tcpip_uipcall: an incoming connection
\* is given to the listening socket; with no port any more nobody is called.
Connected(x, fl, data) ==
  IF x.port /\ ~x.listening THEN Called([x EXCEPT !.att = FALSE], 0, {"ABORT"})
  ELSE IF ~x.port /\ ~x.att THEN Called(x, 0, fl)
  ELSE senddata(newdata([x EXCEPT !.att = TRUE, !.listening = FALSE,
                                  !.told = "connected"], data), fl)

\* The end of appcall: a socket that is to close and has nothing left to send
\* closes; one whose connection is closed lets go of it.
CloseIfDone(a) ==
  LET closes == a.x.out = <<>> /\ a.x.closing
      fl == IF closes THEN {"CLOSE"} ELSE a.fl
      y == IF closes THEN [a.x EXCEPT !.closing = FALSE] ELSE a.x
  IN  Called(IF "CLOSE" \in fl THEN Ended([y EXCEPT !.att = FALSE]) ELSE y,
             a.slen, fl)

\* UIP_APPCALL with uip_flags fl and the data of the segment.  When no socket
\* is attached nothing changes: the uip_abort for such a connection is not
\* looked at by the states that still call it.
appcall(x, fl, data) ==
  IF "CONNECTED" \in fl THEN Connected(x, fl, data)
  ELSE IF ~x.att THEN Called(x, 0, fl)
  ELSE LET x1 == IF fl \cap {"TIMEDOUT", "ABORT"} # {} THEN Ended(x) ELSE x
           x2 == IF "ACKDATA" \in fl THEN acked(x1) ELSE x1
           x3 == IF "NEWDATA" \in fl THEN newdata(x2, data) ELSE x2
       IN  CloseIfDone(IF fl \cap {"REXMIT", "NEWDATA", "ACKDATA", "POLL"} # {}
                       THEN senddata(x3, fl) ELSE Called(x3, 0, fl))

-------------------------------------------------------------------------------
(* uip_process: what it does to an end and the segment it sends, if any.      *)

Sends(x, segs) == [x |-> x, tx |-> segs]
Drop(x) == Sends(x, {})

\* tcp_send: numbers from the connection.
Segment(x, fl, data) ==
  [fl |-> fl, seq |-> x.snd, ack |-> x.rcv, data |-> data]

SendNoData(x, fl) == Sends(x, {Segment(x, fl, <<>>)})
SendAck(x) == SendNoData(x, {"ACK"})

\* reset: a segment no connection wants.
Reset(x, s) ==
  IF "RST" \in s.fl THEN Drop(x)
  ELSE Sends(x, {[fl |-> {"RST", "ACK"}, seq |-> s.ack,
                  ack |-> Add32(s.seq, 1), data |-> <<>>]})

apprexmit(a) ==
  IF a.slen > 0 /\ a.x.len > 0
  THEN Sends(a.x, {Segment(a.x, {"ACK"}, SubSeq(a.x.out, 1, a.x.len))})
  ELSE IF "NEWDATA" \in a.fl THEN SendAck(a.x) ELSE Drop(a.x)

appsend(a) ==
  IF "ABORT" \in a.fl
  THEN SendNoData([a.x EXCEPT !.st = "CLOSED"], {"RST", "ACK"})
  ELSE IF "CLOSE" \in a.fl
  THEN SendNoData([a.x EXCEPT !.st = "FIN_WAIT_1", !.len = 1, !.nrtx = 0],
                  {"FIN", "ACK"})
  ELSE apprexmit(Called([a.x EXCEPT
         !.len = IF a.slen > 0 /\ @ = 0 THEN a.slen ELSE @, !.nrtx = 0],
         a.slen, a.fl))

\* found_listen: a SYN for the port that is listened on.
FoundListen(e, x, s) ==
  SendNoData([x EXCEPT !.st = "SYN_RCVD", !.snd = Iss[e], !.len = 1,
                       !.rcv = Add32(s.seq, 1), !.nrtx = 0,
                       !.opens = @ + 1], {"SYN", "ACK"})

\* Whether the segment is the next one, or of a handshake that has its own
\* sequence numbers.
Expected(x, s) ==
  \/ x.st = "SYN_SENT" /\ s.fl = {"SYN", "ACK"}
  \/ x.st = "SYN_RCVD" /\ s.fl = {"SYN"}
  \/ s.data = <<>> /\ s.fl \cap {"SYN", "FIN"} = {}
  \/ s.seq = x.rcv

Unexpected(x, s) ==
  CASE "SYN" \in s.fl /\ x.st = "SYN_RCVD" -> SendNoData(x, {"SYN", "ACK"})
    [] "SYN" \in s.fl /\ x.st = "SYN_SENT" -> SendNoData(x, s.fl \cup {"SYN"})
    [] OTHER -> SendAck(x)

Acks(x, s) == "ACK" \in s.fl /\ x.len > 0 /\ s.ack = Add32(x.snd, x.len)
Acknowledge(x) == [x EXCEPT !.snd = Add32(@, x.len), !.len = 0]
Receive(x, n) == [x EXCEPT !.rcv = Add32(@, n)]

InSynRcvd(x, s, fl) ==
  LET y == Receive([x EXCEPT !.st = "ESTABLISHED"], Len(s.data))
      new == IF s.data = <<>> THEN {} ELSE {"NEWDATA"}
  IN  IF "ACKDATA" \in fl THEN appsend(appcall(y, {"CONNECTED"} \cup new, s.data))
      ELSE IF s.fl = {"SYN"} THEN SendNoData(x, {"SYN", "ACK"})
      ELSE Drop(x)

InSynSent(x, s, fl) ==
  IF "ACKDATA" \in fl /\ s.fl = {"SYN", "ACK"}
  THEN appsend(appcall([x EXCEPT !.st = "ESTABLISHED", !.rcv = Add32(s.seq, 1)],
                       {"CONNECTED", "NEWDATA"}, <<>>))
  ELSE Reset([appcall(x, {"ABORT"}, <<>>).x EXCEPT !.st = "CLOSED"], s)

InEstablished(x, s, fl) ==
  LET n == Len(s.data)
      new == IF n > 0 THEN {"NEWDATA"} ELSE {}
  IN  IF "FIN" \in s.fl
      THEN IF x.len > 0 THEN Drop(x)
           ELSE SendNoData([appcall(Receive(x, 1 + n),
                                    fl \cup new \cup {"CLOSE"}, s.data).x
                              EXCEPT !.len = 1, !.st = "LAST_ACK", !.nrtx = 0],
                           {"FIN", "ACK"})
      ELSE IF fl \cup new = {} THEN Drop(x)
      ELSE appsend(appcall(Receive(x, n), fl \cup new, s.data))

\* FIN_WAIT_1, FIN_WAIT_2: the data is acknowledged and thrown away.
InFinWait(x, s, fl) ==
  LET y == Receive(x, Len(s.data))
  IN  IF "FIN" \in s.fl
      THEN SendAck([Receive(y, 1) EXCEPT !.st =
             IF x.st = "FIN_WAIT_2" \/ "ACKDATA" \in fl
             THEN "TIME_WAIT" ELSE "CLOSING"])
      ELSE IF x.st = "FIN_WAIT_1" /\ "ACKDATA" \in fl
      THEN Drop([y EXCEPT !.st = "FIN_WAIT_2"])
      ELSE IF s.data # <<>> THEN SendAck(y) ELSE Drop(y)

\* mutated form: the application is not told
M_InReset(x) == Drop([x EXCEPT !.st = "CLOSED"])

\* A reset of any sequence number ends the connection.
InReset(x) == Drop(appcall([x EXCEPT !.st = "CLOSED"], {"ABORT"}, <<>>).x)

\* found: a segment for an active connection.
Found(x, s) ==
  LET fl == IF Acks(x, s) THEN {"ACKDATA"} ELSE {}
      y == IF Acks(x, s) THEN Acknowledge(x) ELSE x
      done(st) == Drop(IF Acks(x, s) THEN [y EXCEPT !.st = st] ELSE y)
  IN  CASE "RST" \in s.fl -> InReset(x)
        [] "RST" \notin s.fl /\ ~Expected(x, s) -> Unexpected(x, s)
        [] OTHER ->
           CASE x.st = "SYN_RCVD" -> InSynRcvd(y, s, fl)
             [] x.st = "SYN_SENT" -> InSynSent(y, s, fl)
             [] x.st = "ESTABLISHED" -> InEstablished(y, s, fl)
             [] x.st \in {"FIN_WAIT_1", "FIN_WAIT_2"} -> InFinWait(y, s, fl)
             [] x.st = "TIME_WAIT" -> SendAck(y)
             [] x.st = "LAST_ACK" -> done("CLOSED")
             [] x.st = "CLOSING" -> done("TIME_WAIT")

\* uip_process(UIP_DATA): tcp_input.
tcp_input(e, x, s) ==
  IF x.st # "CLOSED" THEN Found(x, s)
  ELSE IF s.fl = {"SYN"} /\ x.port THEN FoundListen(e, x, s)
  ELSE Reset(x, s)

\* mutated form: one retransmission more
M_GivenUp(x) ==
  \/ x.nrtx > MaxRtx
  \/ x.st \in {"SYN_SENT", "SYN_RCVD"} /\ x.nrtx > MaxSynRtx

GivenUp(x) ==
  \/ x.nrtx = MaxRtx
  \/ x.st \in {"SYN_SENT", "SYN_RCVD"} /\ x.nrtx = MaxSynRtx

Rexmit(x) ==
  CASE x.st = "SYN_RCVD" -> SendNoData(x, {"SYN", "ACK"})
    [] x.st = "SYN_SENT" -> SendNoData(x, {"SYN"})
    [] x.st = "ESTABLISHED" -> apprexmit(appcall(x, {"REXMIT"}, <<>>))
    [] OTHER -> SendNoData(x, {"FIN", "ACK"})

\* mutated form: retransmissions are not counted
M_uip_timer(x) ==
  CASE x.st \in {"TIME_WAIT", "FIN_WAIT_2"} -> Drop([x EXCEPT !.st = "CLOSED"])
    [] x.st \notin {"TIME_WAIT", "FIN_WAIT_2"} /\ x.len > 0 -> Rexmit(x)
    [] OTHER -> appsend(appcall(x, {"POLL"}, <<>>))

\* uip_process(UIP_TIMER) when the timer of the connection has run out, or, in
\* ESTABLISHED with nothing outstanding, at every tick.
uip_timer(x) ==
  CASE x.st \in {"TIME_WAIT", "FIN_WAIT_2"} -> Drop([x EXCEPT !.st = "CLOSED"])
    [] x.st \notin {"TIME_WAIT", "FIN_WAIT_2"} /\ x.len > 0 ->
         IF GivenUp(x)
         THEN SendNoData(appcall([x EXCEPT !.st = "CLOSED"],
                                 {"TIMEDOUT"}, <<>>).x, {"RST", "ACK"})
         ELSE Rexmit([x EXCEPT !.nrtx = @ + 1])
    [] OTHER -> appsend(appcall(x, {"POLL"}, <<>>))

\* uip_process(UIP_POLL_REQUEST), for the TCP_POLL of tcp_connect.
uip_poll(x) ==
  IF x.st = "ESTABLISHED" /\ x.len = 0 THEN appsend(appcall(x, {"POLL"}, <<>>))
  ELSE IF x.st = "SYN_SENT" THEN SendNoData(x, {"SYN"})
  ELSE Drop(x)

-------------------------------------------------------------------------------
(* The network, external: a segment that finds Cap[d] others is lost.         *)
Carry(e, segs) ==
  LET d == Other(e)
  IN  [net EXCEPT ![d] = IF Cardinality(@ \cup segs) <= Cap[d] THEN @ \cup segs ELSE @]

Do(e, result) == \E r \in {result} :
                   /\ end' = [end EXCEPT ![e] = r.x]
                   /\ net' = Carry(e, r.tx)

\* A segment arrives, and may arrive again until the network loses the last
\* copy of it.  A SYN does not outlive the connection it opened (the maximum
\* segment lifetime).
Deliver(e, s) ==
  /\ s \in net[e]
  /\ ~(end[e].st = "CLOSED" /\ end[e].opens > 0 /\ s.fl = {"SYN"})
  /\ Do(e, tcp_input(e, end[e], s))

Lose(e, s) == /\ s \in net[e]
              /\ net' = [net EXCEPT ![e] = @ \ {s}]
              /\ UNCHANGED end

Timer(e) == end[e].st # "CLOSED" /\ Do(e, uip_timer(end[e]))

Poll(e) == end[e].poll /\ Do(e, uip_poll([end[e] EXCEPT !.poll = FALSE]))

-------------------------------------------------------------------------------
(* The calls of the applications.                                             *)

\* tcp_socket_connect: once.
Connect(e) ==
  /\ e = Client /\ end[e].opens = 0
  /\ end' = [end EXCEPT ![e] = [@ EXCEPT
       !.st = "SYN_SENT", !.snd = Iss[e], !.rcv = 0, !.len = 1, !.nrtx = 0,
       !.att = TRUE, !.poll = TRUE, !.opens = 1]]
  /\ UNCHANGED net

\* tcp_socket_unlisten
Unlisten(e) ==
  /\ end[e].port
  /\ end[e].opens = 0 \/ UnlistenLate
  /\ end' = [end EXCEPT ![e] = [@ EXCEPT !.port = FALSE, !.listening = FALSE]]
  /\ UNCHANGED net

\* tcp_socket_send of n bytes, of which as many are taken as the buffer holds,
\* by an application that has a connection, or is opening it.
Send(e, n) ==
  LET x == end[e]
      len == Min(n, BufLen - Len(x.out))
  IN  /\ x.wrote + n <= MaxBytes[e]
      /\ x.att /\ x.told # "ended" /\ ~x.closing
      /\ SendWhileBusy \/ x.out = <<>>
      /\ end' = [end EXCEPT ![e] = [x EXCEPT
           !.out = @ \o [i \in 1..len |-> x.wrote + i], !.wrote = @ + len]]
      /\ UNCHANGED net

\* tcp_socket_close
Close(e) == /\ end[e].told = "connected" /\ ~end[e].closing
            /\ end' = [end EXCEPT ![e] = [@ EXCEPT !.closing = TRUE]]
            /\ UNCHANGED net

Next == \E e \in Ends :
  \/ \E s \in net[e] : Deliver(e, s) \/ Lose(e, s)
  \/ Timer(e) \/ Poll(e) \/ Connect(e) \/ Unlisten(e) \/ Close(e)
  \/ \E n \in 1..MaxBytes[e] : Send(e, n)

\* The periodic timer of tcpip.c is restarted as long as a connection is
\* active.
Fairness == \A e \in Ends : WF_vars(Timer(e))

Spec == Init /\ [][Next]_vars /\ Fairness

-------------------------------------------------------------------------------
States == {"CLOSED", "SYN_SENT", "SYN_RCVD", "ESTABLISHED", "FIN_WAIT_1",
           "FIN_WAIT_2", "CLOSING", "TIME_WAIT", "LAST_ACK"}
Flags == {"SYN", "ACK", "FIN", "RST"}
Bytes(e) == 1..MaxBytes[e]

\* The type invariant.
TypeOK ==
  \A e \in Ends :
    /\ end[e].st \in States
    /\ {end[e].snd, end[e].rcv} \subseteq 0..(SeqMod - 1)
    /\ end[e].len \in 0..Mss /\ end[e].nrtx \in 0..MaxRtx
    /\ end[e].nxt \in 0..Len(end[e].out) /\ Len(end[e].out) <= BufLen
    /\ {end[e].att, end[e].poll, end[e].closing, end[e].listening,
        end[e].port} \subseteq BOOLEAN
    /\ end[e].told \in {"none", "connected", "ended"}
    /\ end[e].out \in Seq(Bytes(e)) /\ end[e].got \in Seq(Bytes(Other(e)))
    /\ Cardinality(net[e]) <= Cap[e]
    /\ \A s \in net[e] : /\ s.fl \subseteq Flags
                         /\ s.data \in Seq(Bytes(Other(e)))
                         /\ {s.seq, s.ack} \subseteq 0..(SeqMod - 1)

\* The socket knows how many bytes are in flight: acked() removes
\* output_data_send_nxt bytes from the buffer when the connection reports
\* that its len bytes have been acknowledged.
InFlightKnown ==
  \A e \in Ends : end[e].st = "ESTABLISHED" => end[e].nxt = end[e].len

\* An application knows whether its connection is there: it has been told of
\* the connection as long as it is established, and of its end afterwards,
\* whichever of reset, timeout, FIN and close ended it.
ApplicationKnows ==
  \A e \in Ends : end[e].told = "connected" <=> end[e].st = "ESTABLISHED"

\* What the sockets promise (ByteStream): the bytes arrive in the order they
\* were written, none lost in between and none twice, and DATA_SENT is
\* reported only of bytes the other application has been given.
Stream == INSTANCE ByteStream WITH
  written <- [e \in Ends |-> end[e].wrote],
  got <- [e \in Ends |-> end[e].got],
  confirmed <- [e \in Ends |-> end[e].conf],
  deaf <- [e \in Ends |-> end[e].told = "ended"]

ImplementsStream == Stream!Spec

\* Again and again both connections are at rest: no handshake, no outstanding
\* or waiting byte and no close hangs on for ever, however many segments are
\* lost, because the retransmissions and the two waiting states are limited.
Settles ==
  []<>(\A e \in Ends :
         \/ end[e].st = "CLOSED"
         \/ end[e].st = "ESTABLISHED" /\ end[e].out = <<>> /\ ~end[e].closing)
===============================================================================
