---------------------------- MODULE ProcessProofs -----------------------------
(***************************************************************************)
(* The process list keeps its shape, and no walk over it misses a process, *)
(* for any number of processes and any behaviour of their threads; and the *)
(* calls from thread to thread: who is running.                            *)
(***************************************************************************)
EXTENDS Process, SequenceTheorems, TLAPS

(* ReachBy(nx, h) holds h, is closed, and is the least such set. *)
LEMMA ReachFacts ==
  ASSUME NEW nx \in [Procs -> ProcOrNull], NEW h \in ProcOrNull
  PROVE  /\ ReachBy(nx, h) \subseteq Procs
         /\ h # NULL => h \in ReachBy(nx, h)
         /\ \A p \in ReachBy(nx, h) : nx[p] # NULL => nx[p] \in ReachBy(nx, h)
         /\ Closed(nx, ReachBy(nx, h))
         /\ \A S \in SUBSET Procs :
              Closed(nx, S) /\ h \in S \cup {NULL} => ReachBy(nx, h) \subseteq S
         /\ h = NULL => ReachBy(nx, h) = {}
<1>1. ReachBy(nx, h) \subseteq Procs
  BY DEF ReachBy
<1>2. h # NULL => h \in ReachBy(nx, h)
  BY DEF ReachBy, ProcOrNull
<1>3. ASSUME NEW p \in ReachBy(nx, h), nx[p] # NULL
      PROVE  nx[p] \in ReachBy(nx, h)
  <2>1. p \in Procs /\ nx[p] \in Procs
    BY <1>1, <1>3 DEF ProcOrNull
  <2>2. ASSUME NEW S \in SUBSET Procs, Closed(nx, S), h \in S \cup {NULL}
        PROVE  nx[p] \in S
    <3>1. p \in S
      BY <2>2, <1>3 DEF ReachBy
    <3> QED
      BY <3>1, <2>2, <1>3 DEF Closed
  <2> QED
    BY <2>1, <2>2 DEF ReachBy
<1>4. \A S \in SUBSET Procs :
        Closed(nx, S) /\ h \in S \cup {NULL} => ReachBy(nx, h) \subseteq S
  BY DEF ReachBy
<1>5. h = NULL => ReachBy(nx, h) = {}
  <2>1. Closed(nx, {}) /\ {} \in SUBSET Procs
    BY DEF Closed
  <2> QED
    BY <1>4, <2>1
<1>6. Closed(nx, ReachBy(nx, h))
  BY <1>3 DEF Closed
<1> QED
  BY <1>1, <1>2, <1>3, <1>4, <1>5, <1>6

(* process_start puts p in front of the list: nothing else changes what a  *)
(* loop in progress still visits, except that a loop that comes across p   *)
(* now goes on with the whole list.                                        *)
LEMMA LinkFacts ==
  ASSUME NEW nx \in [Procs -> ProcOrNull], NEW h \in ProcOrNull,
         NEW p \in Procs, p \notin ReachBy(nx, h),
         NEW ny, ny = [nx EXCEPT ![p] = h]
  PROVE  /\ ny \in [Procs -> ProcOrNull]
         /\ ReachBy(ny, p) = ReachBy(nx, h) \cup {p}
         /\ \A c \in ProcOrNull :
              ReachBy(nx, h) \cap ReachBy(nx, c) \subseteq ReachBy(ny, c)
         /\ Acyclic(nx) => Acyclic(ny)
         /\ OnePredecessor(nx, h) /\ NoneBefore(nx, h) => OnePredecessor(ny, p)
         /\ NoneBefore(ny, p)
<1> DEFINE L == ReachBy(nx, h)
<1>0. ny \in [Procs -> ProcOrNull] /\ p \in ProcOrNull
  BY DEF ProcOrNull
<1>1. L \subseteq Procs /\ (h # NULL => h \in L)
      /\ (\A x \in L : nx[x] # NULL => nx[x] \in L)
  BY ReachFacts
<1>2. ny[p] = h /\ \A x \in Procs : x # p => ny[x] = nx[x]
  OBVIOUS
<1>3. ReachBy(ny, p) \subseteq L \cup {p}
  <2>1. Closed(ny, L \cup {p})
    BY <1>1, <1>2 DEF Closed
  <2>2. \A S \in SUBSET Procs : Closed(ny, S) /\ p \in S \cup {NULL} => ReachBy(ny, p) \subseteq S
    BY <1>0, ReachFacts
  <2>3. L \cup {p} \in SUBSET Procs
    BY <1>1
  <2> QED
    BY <2>1, <2>2, <2>3
<1>4. ASSUME NEW S \in SUBSET Procs, Closed(ny, S), p \in S
      PROVE  L \subseteq S
  <2>1. Closed(nx, S \cap L)
    BY <1>1, <1>2, <1>4 DEF Closed
  <2>2. h \in (S \cap L) \cup {NULL}
    BY <1>1, <1>2, <1>4 DEF Closed
  <2> QED
    BY <2>1, <2>2, ReachFacts
<1>5. L \cup {p} \subseteq ReachBy(ny, p)
  <2>1. Closed(ny, ReachBy(ny, p)) /\ p \in ReachBy(ny, p) /\ ReachBy(ny, p) \subseteq Procs
    BY <1>0, NullAssumption, ReachFacts
  <2> QED
    BY <2>1, <1>4
<1>6. ASSUME NEW c \in ProcOrNull
      PROVE  L \cap ReachBy(nx, c) \subseteq ReachBy(ny, c)
  <2> DEFINE R == ReachBy(ny, c)
  <2>1. R \subseteq Procs /\ Closed(ny, R) /\ c \in R \cup {NULL}
    BY <1>0, ReachFacts
  <2>2. CASE p \in R
    BY <2>1, <2>2, <1>4
  <2>3. CASE p \notin R
    <3>1. Closed(nx, R)
      BY <2>1, <2>3, <1>2 DEF Closed
    <3> QED
      BY <2>1, <3>1, ReachFacts
  <2> QED
    BY <2>2, <2>3
<1>7. ASSUME Acyclic(nx)
      PROVE  Acyclic(ny)
  <2> SUFFICES ASSUME NEW S \in SUBSET Procs, S # {}, \A x \in S : ny[x] \in S
               PROVE  FALSE
    BY DEF Acyclic
  <2>1. CASE p \notin S
    <3>1. \A x \in S : nx[x] \in S
      BY <2>1, <1>2
    <3> QED
      BY <3>1, <1>7 DEF Acyclic
  <2>2. CASE p \in S
    <3>1. h \in S /\ h # NULL
      BY <2>2, <1>2, NullAssumption
    <3>2. \A x \in S \cap L : nx[x] \in S \cap L
      BY <1>1, <1>2, NullAssumption
    <3> QED
      BY <3>1, <3>2, <1>1, <1>7 DEF Acyclic
  <2> QED
    BY <2>1, <2>2
<1>8. OnePredecessor(nx, h) /\ NoneBefore(nx, h) => OnePredecessor(ny, p)
  BY <1>1, <1>2, <1>3 DEF OnePredecessor, NoneBefore
<1>9. NoneBefore(ny, p)
  <2>1. \A x \in L : nx[x] # p
    BY <1>1, NullAssumption
  <2>2. h # p
    BY <1>1, NullAssumption
  <2> QED
    BY <2>1, <2>2, <1>2, <1>3, <1>1 DEF NoneBefore
<1> QED
  BY <1>0, <1>3, <1>5, <1>6, <1>7, <1>8, <1>9

(* exit_process takes p off the list: p leaves it, everything else stays,  *)
(* and a loop in progress, even one that is at p, still visits all it did. *)
LEMMA UnlinkFacts ==
  ASSUME NEW nx \in [Procs -> ProcOrNull], NEW h \in ProcOrNull, NEW p \in Procs,
         Acyclic(nx), OnePredecessor(nx, h), NoneBefore(nx, h),
         NEW ny, NEW g,
         \/ p = h /\ g = nx[p] /\ ny = nx
         \/ /\ p # h /\ g = h
            /\ ny = [q \in Procs |-> IF q \in ReachBy(nx, h) /\ nx[q] = p
                                       THEN nx[p] ELSE nx[q]]
  PROVE  /\ ny \in [Procs -> ProcOrNull] /\ g \in ProcOrNull
         /\ ReachBy(ny, g) = ReachBy(nx, h) \ {p}
         /\ \A c \in ProcOrNull : ReachBy(nx, c) \ {p} \subseteq ReachBy(ny, c)
         /\ ny[p] = nx[p]
         /\ Acyclic(ny)
         /\ OnePredecessor(ny, g)
         /\ NoneBefore(ny, g)
<1> DEFINE L == ReachBy(nx, h)
<1>0. ny \in [Procs -> ProcOrNull] /\ g \in ProcOrNull
  BY DEF ProcOrNull
<1>1. /\ L \subseteq Procs /\ (h # NULL => h \in L)
      /\ \A x \in L : nx[x] # NULL => nx[x] \in L
  BY ReachFacts
<1>2. \A x \in Procs : nx[x] # x
  <2>1. \A x \in Procs : {x} \in SUBSET Procs /\ {x} # {}
    OBVIOUS
  <2> QED
    BY ZenonT(60), <2>1 DEF Acyclic
<1>3. /\ \A x \in L : p # h /\ nx[x] = p => ny[x] = nx[p]
      /\ \A x \in Procs : ~(x \in L /\ nx[x] = p) => ny[x] = nx[x]
      /\ \A x \in L : p = h => nx[x] # p
  BY <1>1 DEF NoneBefore
<1>4. ny[p] = nx[p]
  BY <1>2, <1>3
<1>5. ReachBy(ny, g) \subseteq L \ {p}
  <2>1. Closed(ny, L \ {p})
    <3> SUFFICES ASSUME NEW x \in L \ {p}
                 PROVE  ny[x] \in (L \ {p}) \cup {NULL}
      BY DEF Closed
    <3>1. CASE nx[x] = p
      <4>1. p # h /\ p \in L
        BY <3>1, <1>1, <1>3, NullAssumption
      <4>2. ny[x] = nx[p]
        BY <3>1, <4>1, <1>3
      <4> QED
        BY <4>1, <4>2, <1>1, <1>2
    <3>2. CASE nx[x] # p
      <4>1. ny[x] = nx[x]
        BY <3>2, <1>1, <1>3
      <4> QED
        BY <4>1, <3>2, <1>1
    <3> QED
      BY <3>1, <3>2
  <2>2. g \in (L \ {p}) \cup {NULL}
    <3>1. CASE p = h
      BY <3>1, <1>1, <1>2, NullAssumption
    <3>2. CASE p # h
      BY <3>2, <1>1
    <3> QED
      BY <3>1, <3>2
  <2>3. L \ {p} \in SUBSET Procs
    BY <1>1
  <2> QED
    BY <1>0, <2>1, <2>2, <2>3, ReachFacts
<1>6. ASSUME NEW c \in ProcOrNull
      PROVE  ReachBy(nx, c) \ {p} \subseteq ReachBy(ny, c)
  <2> DEFINE R == ReachBy(ny, c)
  <2>1. R \subseteq Procs /\ Closed(ny, R) /\ c \in R \cup {NULL}
    BY <1>0, ReachFacts
  <2>2. CASE \E q \in R : q \in L /\ nx[q] = p
    <3>1. PICK q \in R : q \in L /\ nx[q] = p
      BY <2>2
    <3>2. ny[q] = nx[p] /\ nx[p] \in R \cup {NULL}
      BY <3>1, <1>3, <2>1 DEF Closed
    <3>3. Closed(nx, R \cup {p})
      BY <3>2, <1>3, <2>1 DEF Closed
    <3>4. R \cup {p} \in SUBSET Procs /\ c \in (R \cup {p}) \cup {NULL}
      BY <2>1
    <3>5. ReachBy(nx, c) \subseteq R \cup {p}
      BY <3>3, <3>4, ReachFacts
    <3> QED
      BY <3>5
  <2>3. CASE ~ \E q \in R : q \in L /\ nx[q] = p
    <3>1. Closed(nx, R)
      BY <2>3, <1>3, <2>1 DEF Closed
    <3>2. ReachBy(nx, c) \subseteq R
      BY <3>1, <2>1, ReachFacts
    <3> QED
      BY <3>2
  <2> QED
    BY <2>2, <2>3
<1>7. L \ {p} \subseteq ReachBy(ny, g)
  <2>1. CASE p # h
    BY <1>6, <2>1
  <2>2. CASE p = h
    <3> DEFINE R == ReachBy(nx, g)
    <3>1. R \subseteq Procs /\ Closed(nx, R) /\ g \in R \cup {NULL}
      BY <1>0, ReachFacts
    <3>2. Closed(nx, R \cup {p}) /\ R \cup {p} \in SUBSET Procs
      BY <3>1, <2>2 DEF Closed
    <3>3. L \subseteq R \cup {p}
      BY <3>2, <2>2, ReachFacts
    <3> QED
      BY <3>3, <2>2
  <2> QED
    BY <2>1, <2>2
<1>8. Acyclic(ny)
  <2> SUFFICES ASSUME NEW S \in SUBSET Procs, S # {}, \A x \in S : ny[x] \in S
               PROVE  FALSE
    BY DEF Acyclic
  <2>1. CASE \E q \in S : q \in L /\ nx[q] = p
    <3>1. PICK q \in S : q \in L /\ nx[q] = p
      BY <2>1
    <3>2. nx[p] \in S
      BY <3>1, <1>3
    <3>3. \A x \in S \cup {p} : nx[x] \in S \cup {p}
      BY <3>2, <1>3
    <3>4. S \cup {p} \in SUBSET Procs /\ S \cup {p} # {}
      OBVIOUS
    <3> QED
      BY <3>3, <3>4 DEF Acyclic
  <2>2. CASE ~ \E q \in S : q \in L /\ nx[q] = p
    <3>1. \A x \in S : nx[x] \in S
      BY <2>2, <1>3
    <3> QED
      BY <3>1 DEF Acyclic
  <2> QED
    BY <2>1, <2>2
<1>9. OnePredecessor(ny, g)
  <2> SUFFICES ASSUME NEW x \in L \ {p}, NEW y \in L \ {p}, ny[x] = ny[y], ny[x] # NULL
               PROVE  x = y
    BY <1>5 DEF OnePredecessor
  <2>1. \A a, b \in L : nx[a] = nx[b] /\ nx[a] # NULL => a = b
    BY DEF OnePredecessor
  <2>2. p \in Procs /\ p # NULL
    BY NullAssumption
  <2>3. CASE nx[x] = p /\ nx[y] = p
    BY <2>1, <2>2, <2>3
  <2>4. CASE nx[x] = p /\ nx[y] # p
    BY <2>1, <2>2, <2>4, <1>1, <1>3
  <2>5. CASE nx[x] # p /\ nx[y] = p
    BY <2>1, <2>2, <2>5, <1>1, <1>3
  <2>6. CASE nx[x] # p /\ nx[y] # p
    BY <2>1, <2>6, <1>1, <1>3
  <2> QED
    BY <2>3, <2>4, <2>5, <2>6
<1>10. NoneBefore(ny, g)
  <2>1. CASE g = NULL
    <3>1. ReachBy(ny, g) = {}
      BY <2>1, <1>0, ReachFacts
    <3> QED
      BY <3>1 DEF NoneBefore
  <2>2. CASE g # NULL
    <3> SUFFICES ASSUME NEW x \in L \ {p}, ny[x] = g
                 PROVE  FALSE
      BY <1>5 DEF NoneBefore
    <3>1. \A a, b \in L : nx[a] = nx[b] /\ nx[a] # NULL => a = b
      BY DEF OnePredecessor
    <3>2. \A a \in L : nx[a] # h
      BY DEF NoneBefore
    <3>3. p # NULL /\ p \in Procs
      BY NullAssumption
    <3>4. CASE p = h
      <4>1. ny[x] = nx[x] /\ p \in L /\ nx[x] = nx[p]
        BY <3>3, <3>4, <1>1, <1>3
      <4> QED
        BY <4>1, <3>1, <2>2
    <3>5. CASE p # h
      <4>1. CASE nx[x] = p
        BY <4>1, <3>2, <3>3, <3>5, <1>1, <1>3
      <4>2. CASE nx[x] # p
        BY <4>2, <3>2, <3>5, <1>1, <1>3
      <4> QED
        BY <4>1, <4>2
    <3> QED
      BY <3>4, <3>5
  <2> QED
    BY <2>1, <2>2
<1> QED
  BY <1>0, <1>4, <1>5, <1>6, <1>7, <1>8, <1>9, <1>10

-------------------------------------------------------------------------------
(* The frames on a stack, and what the operations on a stack do to them *)
Frames(s) == {s[i] : i \in DOMAIN s}

LEMMA StackFacts ==
  ASSUME NEW s \in Seq(Frame), NEW f \in Frame
  PROVE  /\ Append(s, f) \in Seq(Frame)
         /\ Frames(Append(s, f)) = Frames(s) \cup {f}
         /\ s # << >> =>
              /\ s[Len(s)] \in Frames(s) /\ s[Len(s)] \in Frame
              /\ SubSeq(s, 1, Len(s) - 1) \in Seq(Frame)
              /\ Frames(SubSeq(s, 1, Len(s) - 1)) \subseteq Frames(s)
              /\ [s EXCEPT ![Len(s)] = f] \in Seq(Frame)
              /\ Frames([s EXCEPT ![Len(s)] = f]) \subseteq Frames(s) \cup {f}
<1>1. Append(s, f) \in Seq(Frame)
  OBVIOUS
<1>2. Frames(Append(s, f)) = Frames(s) \cup {f}
  <2>1. /\ DOMAIN Append(s, f) = 1 .. Len(s) + 1 /\ DOMAIN s = 1 .. Len(s) /\ Len(s) \in Nat
        /\ \A i \in 1 .. Len(s) : Append(s, f)[i] = s[i]
        /\ Append(s, f)[Len(s) + 1] = f
    OBVIOUS
  <2>2. 1 .. Len(s) + 1 = (1 .. Len(s)) \cup {Len(s) + 1}
    BY <2>1
  <2> QED
    BY <2>1, <2>2 DEF Frames
<1>3. ASSUME s # << >>
      PROVE  /\ s[Len(s)] \in Frames(s) /\ s[Len(s)] \in Frame
             /\ [s EXCEPT ![Len(s)] = f] \in Seq(Frame)
             /\ Frames([s EXCEPT ![Len(s)] = f]) \subseteq Frames(s) \cup {f}
  <2>1. Len(s) \in 1 .. Len(s) /\ DOMAIN s = 1 .. Len(s)
    BY <1>3
  <2> QED
    BY <2>1, ElementOfSeq DEF Frames
<1>4. ASSUME s # << >>
      PROVE  /\ SubSeq(s, 1, Len(s) - 1) \in Seq(Frame)
             /\ Frames(SubSeq(s, 1, Len(s) - 1)) \subseteq Frames(s)
  <2>1. Len(s) \in Nat /\ Len(s) > 0 /\ DOMAIN s = 1 .. Len(s)
    BY <1>3, <1>4
  <2>2. SubSeq(s, 1, Len(s) - 1) = [i \in 1 .. Len(s) - 1 |-> s[i]]
    BY <2>1
  <2>3. \A i \in 1 .. Len(s) - 1 : i \in DOMAIN s /\ s[i] \in Frame
    BY <2>1, ElementOfSeq
  <2> QED
    BY <2>1, <2>2, <2>3 DEF Frames
<1> QED
  BY <1>1, <1>2, <1>3, <1>4

(* A well-typed stack stays so when well-typed frames are pushed. *)
GoodFrame(f) == f \in Frame /\ FrameOK(f)
GoodStack(s) == s \in Seq(Frame) /\ \A i \in DOMAIN s : FrameOK(s[i])

LEMMA GoodStackFacts ==
  ASSUME NEW s, GoodStack(s), NEW f, GoodFrame(f)
  PROVE  /\ GoodStack(Append(s, f))
         /\ s # << >> =>
              /\ GoodFrame(s[Len(s)])
              /\ GoodStack(SubSeq(s, 1, Len(s) - 1))
              /\ GoodStack([s EXCEPT ![Len(s)] = f])
<1>1. s \in Seq(Frame) /\ f \in Frame /\ FrameOK(f)
  BY DEF GoodStack, GoodFrame
<1>2. \A g \in Frames(s) : FrameOK(g)
  BY DEF GoodStack, Frames
<1>3. ASSUME NEW t \in Seq(Frame), Frames(t) \subseteq Frames(s) \cup {f}
      PROVE  GoodStack(t)
  BY <1>1, <1>2, <1>3 DEF GoodStack, Frames
<1>4. Append(s, f) \in Seq(Frame) /\ Frames(Append(s, f)) \subseteq Frames(s) \cup {f}
  BY <1>1, StackFacts
<1>5. ASSUME s # << >>
      PROVE  /\ s[Len(s)] \in Frames(s) /\ s[Len(s)] \in Frame
             /\ SubSeq(s, 1, Len(s) - 1) \in Seq(Frame)
             /\ Frames(SubSeq(s, 1, Len(s) - 1)) \subseteq Frames(s) \cup {f}
             /\ [s EXCEPT ![Len(s)] = f] \in Seq(Frame)
             /\ Frames([s EXCEPT ![Len(s)] = f]) \subseteq Frames(s) \cup {f}
  BY <1>1, <1>5, StackFacts
<1>6. GoodStack(Append(s, f))
  BY <1>3, <1>4
<1>7. ASSUME s # << >>
      PROVE  /\ GoodFrame(s[Len(s)])
             /\ GoodStack(SubSeq(s, 1, Len(s) - 1))
             /\ GoodStack([s EXCEPT ![Len(s)] = f])
  BY <1>2, <1>3, <1>5, <1>7 DEF GoodFrame
<1> QED
  BY <1>6, <1>7

(* The frames the kernel pushes are well typed. *)
LEMMA GoodFrameFacts ==
  /\ \A p \in Procs, ev \in EventIds, pc \in {"called", "exiting"} :
       GoodFrame(ThreadFrame(p, ev, pc))
  /\ \A c \in ProcOrNull : GoodFrame([NewFrame("synch", "called") EXCEPT !.old = c])
  /\ GoodFrame(NewFrame("event", "take"))
  /\ \A ev \in EventIds, due \in SUBSET Procs :
       process_list \in ProcOrNull =>
         /\ GoodFrame(WalkFrame("poll", ev, due))
         /\ GoodFrame(WalkFrame("event", ev, due))
         /\ \A p \in Procs, from, old \in ProcOrNull :
              LET f == [WalkFrame("exit", ev, due) EXCEPT !.p = p, !.from = from, !.old = old]
              IN  GoodFrame(f) /\ GoodFrame([f EXCEPT !.pc = "unlink", !.due = {}])
<1> USE DEF GoodFrame, Frame, FrameOK, NewFrame, ProcOrNull
<1>1. ASSUME NEW p \in Procs, NEW ev \in EventIds, NEW pc \in {"called", "exiting"}
      PROVE  GoodFrame(ThreadFrame(p, ev, pc))
  BY DEF ThreadFrame
<1>2. ASSUME NEW c \in ProcOrNull
      PROVE  GoodFrame([NewFrame("synch", "called") EXCEPT !.old = c])
  BY DEF EventIds
<1>3. GoodFrame(NewFrame("event", "take"))
  BY DEF EventIds
<1>4. ASSUME NEW ev \in EventIds, NEW due \in SUBSET Procs, process_list \in ProcOrNull
      PROVE  /\ GoodFrame(WalkFrame("poll", ev, due))
             /\ GoodFrame(WalkFrame("event", ev, due))
  BY <1>4 DEF WalkFrame
<1>5. ASSUME NEW ev \in EventIds, NEW due \in SUBSET Procs, process_list \in ProcOrNull,
             NEW p \in Procs, NEW from \in ProcOrNull, NEW old \in ProcOrNull,
             NEW f, f = [WalkFrame("exit", ev, due) EXCEPT !.p = p, !.from = from, !.old = old]
      PROVE  GoodFrame(f) /\ GoodFrame([f EXCEPT !.pc = "unlink", !.due = {}])
  BY <1>5 DEF WalkFrame
<1> HIDE DEF GoodFrame, Frame, FrameOK, NewFrame, ProcOrNull
<1> QED
  BY <1>1, <1>2, <1>3, <1>4, <1>5

(* The kernel functions leave well-typed values behind. *)
LEMMA CallTyped ==
  ASSUME TypeOK, NEW p \in Procs, NEW ev \in EventIds, NEW rest, GoodStack(rest),
         Invoke(p, ev, rest) \/ call_process(p, ev, rest)
  PROVE  state' \in [Procs -> States] /\ process_current' \in ProcOrNull /\ GoodStack(stack')
<1>1. GoodFrame(ThreadFrame(p, ev, "called"))
  BY GoodFrameFacts
<1>2. GoodStack(Append(rest, ThreadFrame(p, ev, "called")))
  BY <1>1, GoodStackFacts
<1>3. CASE Invoke(p, ev, rest)
  BY <1>2, <1>3 DEF Invoke, TypeOK, States, ProcOrNull
<1>4. CASE call_process(p, ev, rest)
  BY <1>3, <1>4 DEF call_process, TypeOK
<1> QED
  BY <1>3, <1>4

LEMMA ListedTyped == Listed \in SUBSET Procs
  BY DEF Listed, Reach, ReachBy

LEMMA ExitTyped ==
  ASSUME TypeOK, NEW p \in Procs, NEW from \in ProcOrNull, NEW rest, GoodStack(rest),
         exit_process(p, from, rest)
  PROVE  state' \in [Procs -> States] /\ GoodStack(stack')
<1> DEFINE f == [WalkFrame("exit", "EXITED", Listed \ {p})
                   EXCEPT !.p = p, !.from = from, !.old = process_current]
           g == [f EXCEPT !.pc = "unlink", !.due = {}]
<1>1. Listed \ {p} \in SUBSET Procs /\ "EXITED" \in EventIds
  BY ListedTyped DEF EventIds
<1>2. GoodFrame(f) /\ GoodFrame(g)
  BY <1>1, GoodFrameFacts DEF TypeOK
<1> HIDE DEF f, g
<1>3. GoodStack(Append(rest, f)) /\ GoodStack(Append(rest, g))
  BY <1>2, GoodStackFacts
<1>4. \/ stack' = rest /\ state' = state
      \/ stack' = Append(rest, f) /\ state' = [state EXCEPT ![p] = "NONE"]
      \/ stack' = Append(rest, g) /\ state' = state
  BY DEF exit_process, f, g
<1> QED
  BY <1>3, <1>4 DEF TypeOK, States

LEMMA StartTyped ==
  ASSUME TypeOK, NEW p \in Procs, Start(p)
  PROVE  /\ state' \in [Procs -> States] /\ process_current' \in ProcOrNull
         /\ GoodStack(stack')
         /\ next' \in [Procs -> ProcOrNull] /\ process_list' \in ProcOrNull
<1> DEFINE f == [NewFrame("synch", "called") EXCEPT !.old = process_current]
<1>1. GoodFrame(f)
  BY GoodFrameFacts DEF TypeOK
<1>2. GoodStack(stack)
  BY DEF TypeOK, GoodStack
<1> HIDE DEF f
<1>3. GoodStack(Append(stack, f))
  BY <1>1, <1>2, GoodStackFacts
<1>4. Invoke(p, "INIT", Append(stack, f))
  BY DEF Start, f
<1>5. state' \in [Procs -> States] /\ process_current' \in ProcOrNull /\ GoodStack(stack')
  BY <1>3, <1>4, CallTyped DEF EventIds
<1> QED
  BY <1>5 DEF Start, TypeOK, ProcOrNull

LEMMA StackTyped ==
  ASSUME TypeOK, stack # << >>
  PROVE  /\ GoodStack(stack) /\ GoodFrame(Top) /\ GoodStack(Pop)
         /\ \A f : GoodFrame(f) => GoodStack(SetTop(f))
<1>1. GoodStack(stack)
  BY DEF TypeOK, GoodStack
<1>2. GoodFrame(NewFrame("event", "take"))
  BY GoodFrameFacts
<1>3. GoodFrame(Top) /\ GoodStack(Pop)
  BY <1>1, <1>2, GoodStackFacts DEF Top, Pop
<1>4. \A f : GoodFrame(f) => GoodStack(SetTop(f))
  BY <1>1, GoodStackFacts DEF SetTop
<1> QED
  BY <1>1, <1>3, <1>4

(* Frames that a walk leaves behind when it moves on *)
LEMMA WalkTyped ==
  ASSUME NEW f, GoodFrame(f)
  PROVE  /\ f.q # NULL => GoodFrame(Visited(f)) /\ GoodFrame([f EXCEPT !.pc = "call"])
         /\ GoodFrame([f EXCEPT !.pc = "unlink"])
         /\ \A c \in ProcOrNull : GoodFrame([f EXCEPT !.pc = "visit", !.q = c])
<1> USE DEF GoodFrame, Frame, FrameOK
<1>1. f.q # NULL => GoodFrame(Visited(f))
  BY DEF Visited, ProcOrNull
<1>2. f.q # NULL => GoodFrame([f EXCEPT !.pc = "call"])
  BY DEF ProcOrNull
<1>3. GoodFrame([f EXCEPT !.pc = "unlink"])
  OBVIOUS
<1>4. ASSUME NEW c \in ProcOrNull
      PROVE  GoodFrame([f EXCEPT !.pc = "visit", !.q = c])
  OBVIOUS
<1> HIDE DEF GoodFrame, Frame, FrameOK
<1> QED
  BY <1>1, <1>2, <1>3, <1>4

(* Every reachable state is well typed; in particular the event queue      *)
(* never exceeds its array, and no loop dereferences NULL.                 *)
THEOREM TypeCorrect == Spec => []TypeOK
<1>1. Init => TypeOK
  <2> SUFFICES ASSUME Init
               PROVE  TypeOK
    OBVIOUS
  <2>1. << >> \in Seq(Frame) /\ DOMAIN << >> = {}
        /\ << >> \in Seq([p : ProcOrNull, ev : EventIds]) /\ Len(<< >>) = 0
    OBVIOUS
  <2>2. 0 <= NumEvents /\ 0 \in 0 .. MaxCalls
    BY NumEventsAssumption, MaxCallsAssumption
  <2> QED
    BY <2>1, <2>2 DEF Init, process_init, TypeOK, ProcOrNull, States
<1>2. TypeOK /\ [Next]_vars => TypeOK'
  <2> SUFFICES ASSUME TypeOK, [Next]_vars
               PROVE  TypeOK'
    OBVIOUS
  <2>g. GoodStack(stack)
    BY DEF TypeOK, GoodStack
  <2>r. ASSUME GoodStack(stack'),
               process_list' \in ProcOrNull /\ process_current' \in ProcOrNull,
               next' \in [Procs -> ProcOrNull], state' \in [Procs -> States],
               needspoll' \subseteq Procs /\ asked' \subseteq Procs,
               poll_requested' \in BOOLEAN /\ booting' \subseteq Procs,
               events' = events, calls' = calls
        PROVE  TypeOK'
    BY <2>r DEF TypeOK, GoodStack
  <2>1. ASSUME NEW p \in ProcOrNull, NEW ev \in Posted, process_post(p, ev)
        PROVE  TypeOK'
    <3>1. [p |-> p, ev |-> ev] \in [p : ProcOrNull, ev : EventIds]
      BY DEF Posted, EventIds
    <3>2. Len(events) \in Nat /\ Len(events') = Len(events) + 1 /\ Len(events) < NumEvents
          /\ events' \in Seq([p : ProcOrNull, ev : EventIds])
      BY <2>1, <3>1, NumEventsAssumption DEF process_post, Full, TypeOK
    <3>3. Len(events') <= NumEvents
      BY <3>2, NumEventsAssumption
    <3> QED
      BY <2>1, <3>2, <3>3 DEF process_post, TypeOK, listVars, pollVars
  <2> DEFINE synch == [NewFrame("synch", "called") EXCEPT !.old = process_current]
  <2>s. GoodStack(Append(stack, synch))
    BY <2>g, GoodFrameFacts, GoodStackFacts DEF TypeOK
  <2>c. ASSUME Call PROVE calls' \in 0 .. MaxCalls
    BY <2>c, MaxCallsAssumption DEF Call, TypeOK
  <2>2. ASSUME NEW p \in Procs, NEW ev \in Posted, process_post_synch(p, ev)
        PROVE  TypeOK'
    <3>1. call_process(p, ev, Append(stack, synch)) /\ ev \in EventIds
      BY <2>2 DEF process_post_synch, Posted, EventIds
    <3>2. state' \in [Procs -> States] /\ process_current' \in ProcOrNull /\ GoodStack(stack')
      BY <3>1, <2>s, CallTyped
    <3> QED
      BY <2>2, <2>c, <3>2 DEF process_post_synch, TypeOK, GoodStack, listVars, pollVars
  <2>3. ASSUME NEW p \in Procs, process_start(p)
        PROVE  TypeOK'
    <3>1. Start(p)
      BY <2>3 DEF process_start
    <3> QED
      BY <2>3, <2>c, <3>1, StartTyped DEF process_start, TypeOK, GoodStack, pollVars
  <2>4. ASSUME NEW p \in Procs, process_exit(p)
        PROVE  TypeOK'
    <3>1. state' \in [Procs -> States] /\ GoodStack(stack')
      BY <2>4, <2>g, ExitTyped DEF process_exit, TypeOK
    <3> QED
      BY <2>4, <2>c, <3>1 DEF process_exit, TypeOK, GoodStack, listVars, pollVars
  <2>5. ASSUME NEW p \in Polled, process_poll(p)
        PROVE  TypeOK'
    BY <2>5, PolledAssumption DEF process_poll, TypeOK, listVars
  <2>6. CASE SynchReturn
    <3>1. stack # << >> /\ GoodStack(stack') /\ process_current' \in ProcOrNull
      BY <2>6, StackTyped DEF SynchReturn, Running, Restored, GoodFrame, Frame
    <3> QED
      BY <2>6, <2>r, <3>1 DEF SynchReturn, TypeOK, listVars, pollVars
  <2>7. CASE ThreadYield
    <3>1. GoodStack(stack') /\ Top.p \in Procs
      BY <2>7, StackTyped DEF ThreadYield, Running, GoodFrame, FrameOK
    <3> QED
      BY <2>7, <2>r, <3>1 DEF ThreadYield, BackToRunning, TypeOK, States, listVars, pollVars
  <2>8. CASE ThreadEnd
    <3>1. GoodStack(Pop) /\ Top.p \in Procs
      BY <2>8, StackTyped DEF ThreadEnd, Running, GoodFrame, FrameOK
    <3>2. exit_process(Top.p, Top.p, Pop) /\ Top.p \in ProcOrNull
      BY <2>8, <3>1 DEF ThreadEnd, ProcOrNull
    <3>3. state' \in [Procs -> States] /\ GoodStack(stack')
      BY <3>1, <3>2, ExitTyped
    <3> QED
      BY <2>8, <2>r, <3>3 DEF ThreadEnd, TypeOK, listVars, pollVars
  <2>9. CASE ThreadExited
    <3>1. GoodStack(stack')
      BY <2>9, StackTyped DEF ThreadExited, Running
    <3> QED
      BY <2>9, <2>r, <3>1 DEF ThreadExited, TypeOK, listVars, pollVars
  <2>10. CASE Advance
    <3>1. GoodFrame(Top) /\ Top.q \in Procs
      BY <2>10, StackTyped DEF Advance, GoodFrame, FrameOK
    <3>2. GoodFrame([Top EXCEPT !.pc = "visit", !.q = next[Top.q]])
      BY <3>1, WalkTyped DEF TypeOK
    <3>3. GoodStack(stack')
      BY <2>10, <3>2, StackTyped DEF Advance
    <3> QED
      BY <2>10, <2>r, <3>3 DEF Advance, TypeOK, listVars, pollVars
  <2>11. CASE ExitVisit
    <3>1. GoodFrame(Top) /\ Top.q \in Procs /\ GoodStack(SetTop(Visited(Top)))
      BY <2>11, StackTyped, WalkTyped DEF ExitVisit, Running, GoodFrame, Frame, ProcOrNull
    <3>2. state' \in [Procs -> States] /\ process_current' \in ProcOrNull /\ GoodStack(stack')
      <4>1. CASE Top.q # Top.p
        BY <2>11, <3>1, <4>1, CallTyped DEF ExitVisit, EventIds
      <4>2. CASE Top.q = Top.p
        BY <2>11, <3>1, <4>2 DEF ExitVisit, TypeOK
      <4> QED
        BY <4>1, <4>2
    <3> QED
      BY <2>11, <2>r, <3>2 DEF ExitVisit, TypeOK, listVars, pollVars
  <2>12. CASE ExitThread
    <3>1. GoodFrame(Top) /\ Top.p \in Procs
      BY <2>12, StackTyped DEF ExitThread, Running, GoodFrame, FrameOK
    <3>2. GoodStack(SetTop([Top EXCEPT !.pc = "unlink"]))
      BY <2>12, <3>1, StackTyped, WalkTyped DEF ExitThread, Running
    <3>3. GoodFrame(ThreadFrame(Top.p, "EXIT", "exiting"))
      BY <3>1, GoodFrameFacts DEF EventIds
    <3>4. GoodStack(stack') /\ process_current' \in ProcOrNull
      <4>1. GoodStack(Append(SetTop([Top EXCEPT !.pc = "unlink"]), ThreadFrame(Top.p, "EXIT", "exiting")))
        BY <3>2, <3>3, GoodStackFacts
      <4> QED
        BY <2>12, <3>1, <3>2, <4>1 DEF ExitThread, TypeOK, ProcOrNull
    <3> QED
      BY <2>12, <2>r, <3>4 DEF ExitThread, TypeOK, listVars, pollVars
  <2>13. CASE ExitUnlink
    <3>1. stack # << >> /\ GoodFrame(Top) /\ Top.p \in Procs /\ Top.old \in ProcOrNull
      BY <2>13, StackTyped DEF ExitUnlink, Running, GoodFrame, FrameOK, Frame
    <3>2. GoodStack(stack')
      <4>1. /\ Len(stack) - 1 \in Nat
            /\ \A i \in 1 .. Len(stack) - 1 : i \in DOMAIN stack /\ stack[i] \in Frame /\ FrameOK(stack[i])
        BY <2>g, <3>1, ElementOfSeq DEF GoodStack
      <4>2. \A i \in 1 .. Len(stack) - 1 : GoodFrame([stack[i] EXCEPT !.due = @ \ {Top.p}])
        BY <4>1 DEF GoodFrame, Frame, FrameOK
      <4>3. stack' = [i \in 1 .. Len(stack) - 1 |-> [stack[i] EXCEPT !.due = @ \ {Top.p}]]
        BY <2>13 DEF ExitUnlink
      <4> QED
        BY <4>1, <4>2, <4>3 DEF GoodStack, GoodFrame
    <3>3. process_list' \in ProcOrNull /\ next' \in [Procs -> ProcOrNull]
      BY <2>13, <3>1 DEF ExitUnlink, Unlink, Bypass, TypeOK
    <3> QED
      BY <2>13, <2>r, <3>1, <3>2, <3>3 DEF ExitUnlink, Restored, TypeOK
  <2>14. CASE PollVisit
    <3>1. GoodFrame(Top) /\ Top.q \in Procs /\ GoodStack(SetTop(Visited(Top)))
      BY <2>14, StackTyped, WalkTyped DEF PollVisit, Running, GoodFrame, Frame, ProcOrNull
    <3>2. state' \in [Procs -> States] /\ process_current' \in ProcOrNull /\ GoodStack(stack')
      <4>1. CASE Top.q \in needspoll
        BY <2>14, <3>1, <4>1, CallTyped DEF PollVisit, EventIds
      <4>2. CASE Top.q \notin needspoll
        BY <2>14, <3>1, <4>2 DEF PollVisit, TypeOK
      <4> QED
        BY <4>1, <4>2
    <3> QED
      BY <2>14, <2>r, <3>2 DEF PollVisit, TypeOK, listVars
  <2>p. ASSUME NEW rest, GoodStack(rest), do_poll(rest)
        PROVE  GoodStack(stack') /\ poll_requested' \in BOOLEAN
    <3>1. GoodFrame(WalkFrame("poll", "POLL", Listed))
      BY GoodFrameFacts, ListedTyped DEF TypeOK, EventIds
    <3> QED
      BY <2>p, <3>1, GoodStackFacts DEF do_poll
  <2>15. CASE EventTake
    <3>1. GoodStack(Pop) /\ stack # << >>
      BY <2>15, StackTyped DEF EventTake, Running
    <3>2. events' \in Seq([p : ProcOrNull, ev : EventIds]) /\ Len(events') <= NumEvents
      BY <2>15, NumEventsAssumption DEF EventTake, Taken, TypeOK
    <3>3. state' \in [Procs -> States] /\ process_current' \in ProcOrNull /\ GoodStack(stack')
      <4>1. CASE events = << >>
        BY <2>15, <3>1, <4>1 DEF EventTake, TypeOK
      <4>2. CASE events # << >>
        <5> DEFINE e == Head(events)
        <5>1. e.p \in ProcOrNull /\ e.ev \in EventIds
          <6>1. Head(events) \in [p : ProcOrNull, ev : EventIds]
            BY <4>2, HeadTailProperties DEF TypeOK
          <6> QED
            BY <6>1
        <5>2. CASE e.p = NULL
          <6>1. GoodFrame(WalkFrame("event", e.ev, Listed))
            BY <5>1, GoodFrameFacts, ListedTyped DEF TypeOK
          <6> QED
            BY <2>15, <3>1, <4>2, <5>2, <6>1, StackTyped DEF EventTake, TypeOK
        <5>3. CASE e.p # NULL
          <6>1. e.p \in Procs
            BY <5>1, <5>3 DEF ProcOrNull
          <6>2. Invoke(e.p, e.ev, Pop) \/ call_process(e.p, e.ev, Pop)
            BY <2>15, <4>2, <5>3 DEF EventTake
          <6> QED
            BY <3>1, <5>1, <6>1, <6>2, CallTyped
        <5> QED
          BY <5>2, <5>3
      <4> QED
        BY <4>1, <4>2
    <3> QED
      BY <2>15, <3>2, <3>3 DEF EventTake, TypeOK, GoodStack, listVars, pollVars
  <2>16. CASE EventPoll
    <3>1. GoodFrame(Top) /\ GoodStack(SetTop([Top EXCEPT !.pc = "call"]))
      BY <2>16, StackTyped, WalkTyped DEF EventPoll, Running
    <3>2. GoodStack(stack') /\ poll_requested' \in BOOLEAN
      BY <2>16, <2>p, <3>1 DEF EventPoll, TypeOK
    <3> QED
      BY <2>16, <2>r, <3>2 DEF EventPoll, TypeOK, listVars
  <2>17. CASE EventVisit
    <3>1. GoodFrame(Top) /\ Top.q \in Procs /\ Top.ev \in EventIds
      BY <2>17, StackTyped DEF EventVisit, Running, GoodFrame, Frame, FrameOK
    <3>2. GoodStack(SetTop(Visited(Top)))
      BY <2>17, <3>1, StackTyped, WalkTyped, NullAssumption DEF EventVisit, Running
    <3>3. state' \in [Procs -> States] /\ process_current' \in ProcOrNull /\ GoodStack(stack')
      BY <2>17, <3>1, <3>2, CallTyped DEF EventVisit
    <3> QED
      BY <2>17, <2>r, <3>3 DEF EventVisit, TypeOK, listVars, pollVars
  <2>18. CASE WalkReturn
    <3>1. GoodStack(stack')
      BY <2>18, StackTyped DEF WalkReturn
    <3> QED
      BY <2>18, <2>r, <3>1 DEF WalkReturn, TypeOK, listVars, pollVars
  <2>19. CASE process_run
    <3>1. GoodStack(<< NewFrame("event", "take") >>)
      <4>1. NewFrame("event", "take") \in Frame /\ FrameOK(NewFrame("event", "take"))
        BY GoodFrameFacts DEF GoodFrame
      <4> HIDE DEF NewFrame, Frame
      <4> QED
        BY <4>1 DEF GoodStack
    <3>2. GoodStack(stack') /\ poll_requested' \in BOOLEAN
      BY <2>19, <2>p, <3>1 DEF process_run, TypeOK
    <3>3. calls' \in 0 .. MaxCalls
      BY <2>19, MaxCallsAssumption DEF process_run
    <3> QED
      BY <2>19, <3>2, <3>3 DEF process_run, TypeOK, GoodStack, listVars
  <2>20. ASSUME NEW p \in Procs, BootStart(p)
         PROVE  TypeOK'
    <3>1. Start(p)
      BY <2>20 DEF BootStart
    <3> QED
      BY <2>20, <2>r, <3>1, StartTyped DEF BootStart, TypeOK, pollVars
  <2>21. CASE UNCHANGED vars
    BY <2>21 DEF vars, listVars, pollVars, TypeOK
  <2> QED
    BY <2>1, <2>2, <2>3, <2>4, <2>5, <2>6, <2>7, <2>8, <2>9, <2>10, <2>11, <2>12, <2>13,
       <2>14, <2>15, <2>16, <2>17, <2>18, <2>19, <2>20, <2>21
    DEF Next, ThreadCall, ThreadReturn, KernelStep
<1> QED
  BY <1>1, <1>2, PTL DEF Spec

-------------------------------------------------------------------------------
(* The frames a stack can gain, whatever they are *)
LEMMA FramesOps ==
  ASSUME NEW s \in Seq(Frame), NEW f, NEW g
  PROVE  /\ Frames(Append(s, f)) \subseteq Frames(s) \cup {f}
         /\ Frames(Append(Append(s, f), g)) \subseteq Frames(s) \cup {f, g}
         /\ s # << >> =>
              /\ s[Len(s)] \in Frames(s)
              /\ Frames(SubSeq(s, 1, Len(s) - 1)) \subseteq Frames(s)
              /\ Frames(Append(SubSeq(s, 1, Len(s) - 1), f)) \subseteq Frames(s) \cup {f}
              /\ Frames([s EXCEPT ![Len(s)] = f]) \subseteq Frames(s) \cup {f}
              /\ Frames(Append([s EXCEPT ![Len(s)] = f], g)) \subseteq Frames(s) \cup {f, g}
<1> DEFINE T == Frame \cup {f, g}
<1>1. ASSUME NEW t \in Seq(T), NEW e \in T
      PROVE  Append(t, e) \in Seq(T) /\ Frames(Append(t, e)) \subseteq Frames(t) \cup {e}
  <2>1. /\ DOMAIN Append(t, e) = 1 .. Len(t) + 1 /\ DOMAIN t = 1 .. Len(t) /\ Len(t) \in Nat
        /\ \A i \in 1 .. Len(t) : Append(t, e)[i] = t[i]
        /\ Append(t, e)[Len(t) + 1] = e
    BY AppendProperties, LenProperties
  <2> QED
    BY <2>1, AppendProperties DEF Frames
<1>2. s \in Seq(T) /\ f \in T /\ g \in T
  <2>1. Len(s) \in Nat /\ s \in [1 .. Len(s) -> Frame]
    BY LenProperties
  <2>2. s = [i \in 1 .. Len(s) |-> s[i]] /\ \A i \in 1 .. Len(s) : s[i] \in T
    BY <2>1
  <2> HIDE DEF T
  <2> QED
    BY <2>1, <2>2 DEF T
<1>3. ASSUME s # << >>
      PROVE  /\ s[Len(s)] \in Frames(s)
             /\ SubSeq(s, 1, Len(s) - 1) \in Seq(T)
             /\ Frames(SubSeq(s, 1, Len(s) - 1)) \subseteq Frames(s)
             /\ [s EXCEPT ![Len(s)] = f] \in Seq(T)
             /\ Frames([s EXCEPT ![Len(s)] = f]) \subseteq Frames(s) \cup {f}
  <2> HIDE DEF T
  <2>1. Len(s) \in Nat /\ Len(s) > 0 /\ DOMAIN s = 1 .. Len(s)
    BY <1>2, <1>3
  <2>2. SubSeq(s, 1, Len(s) - 1) = [i \in 1 .. Len(s) - 1 |-> s[i]]
    BY <2>1
  <2>3. \A i \in 1 .. Len(s) : s[i] \in T
    BY <1>2, ElementOfSeq
  <2>4. SubSeq(s, 1, Len(s) - 1) \in Seq(T) /\ Frames(SubSeq(s, 1, Len(s) - 1)) \subseteq Frames(s)
    BY <2>1, <2>2, <2>3 DEF Frames
  <2>5. [s EXCEPT ![Len(s)] = f] \in Seq(T)
    BY <1>2, <2>1, ExceptSeq
  <2>6. /\ DOMAIN [s EXCEPT ![Len(s)] = f] = DOMAIN s
        /\ \A i \in DOMAIN s : [s EXCEPT ![Len(s)] = f][i] \in {s[i], f}
    BY <2>1
  <2>7. Frames([s EXCEPT ![Len(s)] = f]) \subseteq Frames(s) \cup {f}
    BY <2>6 DEF Frames
  <2> QED
    BY <2>1, <2>4, <2>5, <2>7 DEF Frames
<1> HIDE DEF T
<1>4. Append(s, f) \in Seq(T) /\ Frames(Append(s, f)) \subseteq Frames(s) \cup {f}
  BY <1>1, <1>2
<1>5. Frames(Append(Append(s, f), g)) \subseteq Frames(s) \cup {f, g}
  <2>1. Frames(Append(Append(s, f), g)) \subseteq Frames(Append(s, f)) \cup {g}
    BY <1>1, <1>2, <1>4
  <2> QED
    BY <2>1, <1>4
<1>6. ASSUME s # << >>
      PROVE  /\ Frames(Append(SubSeq(s, 1, Len(s) - 1), f)) \subseteq Frames(s) \cup {f}
             /\ Frames(Append([s EXCEPT ![Len(s)] = f], g)) \subseteq Frames(s) \cup {f, g}
  <2>1. Frames(Append(SubSeq(s, 1, Len(s) - 1), f)) \subseteq Frames(SubSeq(s, 1, Len(s) - 1)) \cup {f}
    BY <1>1, <1>2, <1>3, <1>6
  <2>2. Frames(Append([s EXCEPT ![Len(s)] = f], g)) \subseteq Frames([s EXCEPT ![Len(s)] = f]) \cup {g}
    BY <1>1, <1>2, <1>3, <1>6
  <2> QED
    BY <2>1, <2>2, <1>3, <1>6
<1> QED
  BY <1>3, <1>4, <1>5, <1>6

(* What makes a walk complete, as an invariant of each frame of the stack. *)
WalkOK(nx, h, f) ==
  /\ f.due \subseteq ReachBy(nx, h)
  /\ f.due \subseteq ReachBy(nx, f.q)
  /\ f.pc = "advance" => f.q \notin f.due

WalksOK == \A f \in Frames(stack) : WalkOK(next, process_list, f)

(* The frames that a step which leaves the list alone may push or change: *)
(* one that owes no visits, a walk that begins, or the top frame moved on. *)
Pushed(f) ==
  \/ f.due = {} /\ f.pc # "advance"
  \/ f.due \subseteq Listed /\ f.q = process_list /\ f.pc = "visit"
  \/ stack # << >> /\ f = Visited(Top)
  \/ stack # << >> /\ f \in {[Top EXCEPT !.pc = "call"], [Top EXCEPT !.pc = "unlink"]}
  \/ stack # << >> /\ Top.pc = "advance" /\ f = [Top EXCEPT !.pc = "visit", !.q = next[@]]

StackMoves == \A f \in Frames(stack') : f \in Frames(stack) \/ Pushed(f)

LEMMA PushedFacts ==
  /\ \A p, ev : Pushed(ThreadFrame(p, ev, "called")) /\ Pushed(ThreadFrame(p, ev, "exiting"))
  /\ \A c : Pushed([NewFrame("synch", "called") EXCEPT !.old = c])
  /\ Pushed(NewFrame("event", "take"))
  /\ \A fn, ev : Pushed(WalkFrame(fn, ev, Listed))
  /\ \A p, from, old :
       LET f == [WalkFrame("exit", "EXITED", Listed \ {p}) EXCEPT !.p = p, !.from = from, !.old = old]
       IN  Pushed(f) /\ Pushed([f EXCEPT !.pc = "unlink", !.due = {}])
<1>1. \A p, ev : Pushed(ThreadFrame(p, ev, "called")) /\ Pushed(ThreadFrame(p, ev, "exiting"))
  BY DEF Pushed, ThreadFrame, NewFrame
<1>2. \A c : Pushed([NewFrame("synch", "called") EXCEPT !.old = c])
  BY DEF Pushed, NewFrame
<1>3. Pushed(NewFrame("event", "take"))
  BY DEF Pushed, NewFrame
<1>4. \A fn, ev : Pushed(WalkFrame(fn, ev, Listed))
  BY DEF Pushed, NewFrame, WalkFrame
<1>5. ASSUME NEW p, NEW from, NEW old, NEW f,
             f = [WalkFrame("exit", "EXITED", Listed \ {p}) EXCEPT !.p = p, !.from = from, !.old = old]
      PROVE  Pushed(f) /\ Pushed([f EXCEPT !.pc = "unlink", !.due = {}])
  <2>1. f.due = Listed \ {p} /\ f.q = process_list /\ f.pc = "visit"
    BY <1>5 DEF WalkFrame, NewFrame
  <2>2. /\ [f EXCEPT !.pc = "unlink", !.due = {}].due = {}
        /\ [f EXCEPT !.pc = "unlink", !.due = {}].pc = "unlink"
    BY <1>5 DEF WalkFrame, NewFrame
  <2> QED
    BY <2>1, <2>2 DEF Pushed
<1> QED
  BY <1>1, <1>2, <1>3, <1>4, <1>5

(* The steps that leave the list alone *)
QuietNext ==
  \/ \E p \in ProcOrNull, ev \in Posted : process_post(p, ev)
  \/ \E p \in Procs, ev \in Posted : process_post_synch(p, ev)
  \/ \E p \in Procs : process_exit(p)
  \/ \E p \in Polled : process_poll(p)
  \/ ThreadReturn \/ process_run
  \/ SynchReturn \/ Advance \/ WalkReturn \/ ExitVisit \/ ExitThread
  \/ PollVisit \/ EventTake \/ EventPoll \/ EventVisit

LEMMA QuietSteps ==
  ASSUME TypeOK, QuietNext
  PROVE  StackMoves /\ UNCHANGED listVars
<1>s. stack \in Seq(Frame)
  BY DEF TypeOK
<1>n. ASSUME stack # << >>
      PROVE  /\ Frames(Pop) \subseteq Frames(stack)
             /\ \A f : Frames(Append(Pop, f)) \subseteq Frames(stack) \cup {f}
             /\ \A f : Frames(SetTop(f)) \subseteq Frames(stack) \cup {f}
             /\ \A f, g : Frames(Append(SetTop(f), g)) \subseteq Frames(stack) \cup {f, g}
  BY <1>s, <1>n, FramesOps DEF Pop, SetTop
<1>p. \A f : Frames(Append(stack, f)) \subseteq Frames(stack) \cup {f}
  BY <1>s, FramesOps
<1>v. stack # << >> => Pushed(Visited(Top))
  BY DEF Pushed
<1>m. \A f, g : Pushed(f) /\ Pushed(g) /\ Frames(stack') \subseteq Frames(stack) \cup {f, g}
                => StackMoves
  BY DEF StackMoves
<1>1. ASSUME NEW p \in ProcOrNull, NEW ev \in Posted, process_post(p, ev)
      PROVE  StackMoves /\ UNCHANGED listVars
  BY <1>1 DEF process_post, StackMoves
<1>2. ASSUME NEW p \in Procs, NEW ev \in Posted, process_post_synch(p, ev)
      PROVE  StackMoves /\ UNCHANGED listVars
  <2> DEFINE f == [NewFrame("synch", "called") EXCEPT !.old = process_current]
             g == ThreadFrame(p, ev, "called")
  <2>2. stack' = Append(stack, f) \/ stack' = Append(Append(stack, f), g)
    BY <1>2 DEF process_post_synch, call_process, Invoke
  <2>3. Pushed(f) /\ Pushed(g)
    BY PushedFacts
  <2> HIDE DEF f, g
  <2>4. /\ Frames(Append(stack, f)) \subseteq Frames(stack) \cup {f}
        /\ Frames(Append(Append(stack, f), g)) \subseteq Frames(stack) \cup {f, g}
    BY <1>s, FramesOps
  <2>5. Frames(stack') \subseteq Frames(stack) \cup {f, g}
    BY <2>2, <2>4
  <2>6. StackMoves
    BY <1>m, <2>3, <2>5
  <2> QED
    BY <1>2, <2>6 DEF process_post_synch
<1>e. ASSUME NEW p, NEW from, NEW rest, exit_process(p, from, rest),
             Frames(rest) \subseteq Frames(stack),
             \A f : Frames(Append(rest, f)) \subseteq Frames(stack) \cup {f}
      PROVE  StackMoves
  <2> DEFINE f == [WalkFrame("exit", "EXITED", Listed \ {p})
                     EXCEPT !.p = p, !.from = from, !.old = process_current]
             g == [f EXCEPT !.pc = "unlink", !.due = {}]
  <2>1. Pushed(f) /\ Pushed(g)
    BY PushedFacts
  <2>2. stack' = rest \/ stack' = Append(rest, f) \/ stack' = Append(rest, g)
    BY <1>e DEF exit_process
  <2> HIDE DEF f, g
  <2>3. /\ Frames(Append(rest, f)) \subseteq Frames(stack) \cup {f}
        /\ Frames(Append(rest, g)) \subseteq Frames(stack) \cup {g}
    BY <1>e
  <2>4. Frames(stack') \subseteq Frames(stack) \cup {f, g}
    BY <1>e, <2>2, <2>3
  <2> QED
    BY <1>m, <2>1, <2>4
<1>3. ASSUME NEW p \in Procs, process_exit(p)
      PROVE  StackMoves /\ UNCHANGED listVars
  BY <1>3, <1>e, <1>p DEF process_exit
<1>4. ASSUME NEW p \in Polled, process_poll(p)
      PROVE  StackMoves /\ UNCHANGED listVars
  BY <1>4 DEF process_poll, StackMoves
<1>5. CASE ThreadReturn
  <2>1. CASE ThreadYield
    BY <2>1, <1>n DEF ThreadYield, Running, StackMoves
  <2>2. CASE ThreadEnd
    BY <2>2, <1>n, <1>e DEF ThreadEnd, Running
  <2>3. CASE ThreadExited
    BY <2>3, <1>n DEF ThreadExited, Running, StackMoves
  <2> QED
    BY <1>5, <2>1, <2>2, <2>3 DEF ThreadReturn
<1>6. CASE SynchReturn
  BY <1>6, <1>n DEF SynchReturn, Running, StackMoves
<1>7. CASE Advance
  <2>1. Pushed([Top EXCEPT !.pc = "visit", !.q = next[@]])
    BY <1>7 DEF Advance, Pushed
  <2> QED
    BY <1>7, <1>n, <2>1 DEF Advance, StackMoves
<1>8. CASE WalkReturn
  BY <1>8, <1>n DEF WalkReturn, StackMoves
<1>c. ASSUME NEW p, NEW ev, stack # << >>,
             \/ Invoke(p, ev, SetTop(Visited(Top)))
             \/ call_process(p, ev, SetTop(Visited(Top)))
             \/ stack' = SetTop(Visited(Top))
      PROVE  StackMoves
  <2> DEFINE f == Visited(Top)
             g == ThreadFrame(p, ev, "called")
  <2>1. Pushed(f) /\ Pushed(g)
    BY <1>c, <1>v, PushedFacts
  <2>2. stack' = SetTop(f) \/ stack' = Append(SetTop(f), g)
    BY <1>c DEF Invoke, call_process
  <2> HIDE DEF f, g
  <2>3. /\ Frames(SetTop(f)) \subseteq Frames(stack) \cup {f}
        /\ Frames(Append(SetTop(f), g)) \subseteq Frames(stack) \cup {f, g}
    BY <1>c, <1>n
  <2>4. Frames(stack') \subseteq Frames(stack) \cup {f, g}
    BY <2>2, <2>3
  <2> QED
    BY <1>m, <2>1, <2>4
<1>9. CASE ExitVisit
  BY <1>9, <1>c DEF ExitVisit, Running
<1>10. CASE ExitThread
  <2> DEFINE f == [Top EXCEPT !.pc = "unlink"]
             g == ThreadFrame(Top.p, "EXIT", "exiting")
  <2>1. stack # << >> /\ (stack' = SetTop(f) \/ stack' = Append(SetTop(f), g))
    BY <1>10 DEF ExitThread, Running
  <2>2. Pushed(f) /\ Pushed(g)
    BY <2>1, PushedFacts DEF Pushed
  <2> HIDE DEF f, g
  <2>3. /\ Frames(SetTop(f)) \subseteq Frames(stack) \cup {f}
        /\ Frames(Append(SetTop(f), g)) \subseteq Frames(stack) \cup {f, g}
    BY <1>n, <2>1
  <2>4. Frames(stack') \subseteq Frames(stack) \cup {f, g}
    BY <2>1, <2>3
  <2>5. StackMoves
    BY <1>m, <2>2, <2>4
  <2> QED
    BY <1>10, <2>5 DEF ExitThread
<1>11. CASE PollVisit
  BY <1>11, <1>c DEF PollVisit, Running
<1>12. CASE EventTake
  <2>1. stack # << >>
    BY <1>12 DEF EventTake, Running
  <2> DEFINE f == WalkFrame("event", Head(events).ev, Listed)
             g == ThreadFrame(Head(events).p, Head(events).ev, "called")
  <2>2. stack' = Pop \/ stack' = SetTop(f) \/ stack' = Append(Pop, g)
    BY <1>12 DEF EventTake, call_process, Invoke
  <2>3. Pushed(f) /\ Pushed(g)
    BY PushedFacts
  <2> HIDE DEF f, g
  <2>4. /\ Frames(Pop) \subseteq Frames(stack)
        /\ Frames(SetTop(f)) \subseteq Frames(stack) \cup {f}
        /\ Frames(Append(Pop, g)) \subseteq Frames(stack) \cup {g}
    BY <1>n, <2>1
  <2>5. Frames(stack') \subseteq Frames(stack) \cup {f, g}
    BY <2>2, <2>4
  <2>6. StackMoves
    BY <1>m, <2>3, <2>5
  <2> QED
    BY <1>12, <2>6 DEF EventTake
<1>13. CASE EventPoll
  <2> DEFINE f == [Top EXCEPT !.pc = "call"]
             g == WalkFrame("poll", "POLL", Listed)
  <2>1. stack # << >> /\ (stack' = SetTop(f) \/ stack' = Append(SetTop(f), g))
    BY <1>13 DEF EventPoll, Running, do_poll
  <2>2. Pushed(f) /\ Pushed(g)
    BY <2>1, PushedFacts DEF Pushed
  <2> HIDE DEF f, g
  <2>3. /\ Frames(SetTop(f)) \subseteq Frames(stack) \cup {f}
        /\ Frames(Append(SetTop(f), g)) \subseteq Frames(stack) \cup {f, g}
    BY <1>n, <2>1
  <2>4. Frames(stack') \subseteq Frames(stack) \cup {f, g}
    BY <2>1, <2>3
  <2>5. StackMoves
    BY <1>m, <2>2, <2>4
  <2> QED
    BY <1>13, <2>5 DEF EventPoll
<1>14. CASE EventVisit
  BY <1>14, <1>c DEF EventVisit, Running
<1>15. CASE process_run
  <2> DEFINE f == NewFrame("event", "take")
             g == WalkFrame("poll", "POLL", Listed)
  <2>1. stack' = << f >> \/ stack' = Append(<< f >>, g)
    BY <1>15 DEF process_run, do_poll
  <2>2. Pushed(f) /\ Pushed(g)
    BY PushedFacts
  <2> HIDE DEF f, g
  <2>3. << f >> \in Seq({f, g}) /\ Append(<< f >>, g) \in Seq({f, g})
    OBVIOUS
  <2>4. Frames(stack') \subseteq {f, g}
    BY <2>1, <2>3 DEF Frames
  <2> QED
    BY <1>15, <2>2, <2>4 DEF process_run, StackMoves
<1> QED
  BY <1>1, <1>2, <1>3, <1>4, <1>5, <1>6, <1>7, <1>8, <1>9, <1>10, <1>11, <1>12, <1>13,
     <1>14, <1>15 DEF QuietNext

(* Going one step on loses only the process the step leaves. *)
LEMMA ReachStep ==
  ASSUME NEW nx \in [Procs -> ProcOrNull], NEW q \in Procs
  PROVE  ReachBy(nx, q) \ {q} \subseteq ReachBy(nx, nx[q])
<1> DEFINE R == ReachBy(nx, nx[q])
<1>1. R \subseteq Procs /\ Closed(nx, R) /\ nx[q] \in R \cup {NULL}
  BY ReachFacts
<1>2. Closed(nx, R \cup {q}) /\ R \cup {q} \in SUBSET Procs
  BY <1>1 DEF Closed
<1>3. q \in ProcOrNull /\ q \in (R \cup {q}) \cup {NULL}
  BY DEF ProcOrNull
<1>4. ReachBy(nx, q) \subseteq R \cup {q}
  BY <1>2, <1>3, ReachFacts
<1> QED
  BY <1>4

(* Frames that a quiet step pushes owe no visit their walk will not make. *)
LEMMA PushedWalkOK ==
  ASSUME TypeOK, WalksOK, NEW f, Pushed(f)
  PROVE  WalkOK(next, process_list, f)
<1>1. CASE f.due = {} /\ f.pc # "advance"
  BY <1>1 DEF WalkOK
<1>2. CASE f.due \subseteq Listed /\ f.q = process_list /\ f.pc = "visit"
  BY <1>2 DEF WalkOK, Listed, Reach
<1>3. ASSUME stack # << >>
      PROVE  Top \in Frame /\ FrameOK(Top) /\ WalkOK(next, process_list, Top)
  <2>1. Top \in Frames(stack)
    BY <1>3, FramesOps DEF TypeOK, Top
  <2> QED
    BY <1>3, <2>1, StackTyped DEF WalksOK, GoodFrame
<1>4. CASE stack # << >> /\ f = Visited(Top)
  BY <1>3, <1>4 DEF WalkOK, Visited, Frame
<1>5. CASE stack # << >> /\ f \in {[Top EXCEPT !.pc = "call"], [Top EXCEPT !.pc = "unlink"]}
  BY <1>3, <1>5 DEF WalkOK, Frame
<1>6. CASE stack # << >> /\ Top.pc = "advance" /\ f = [Top EXCEPT !.pc = "visit", !.q = next[@]]
  <2>1. Top.q \in Procs /\ Top.q \notin Top.due /\ next \in [Procs -> ProcOrNull]
    BY <1>3, <1>6 DEF WalkOK, FrameOK, TypeOK
  <2>2. ReachBy(next, Top.q) \ {Top.q} \subseteq ReachBy(next, next[Top.q])
    BY <2>1, ReachStep
  <2>3. f.due = Top.due /\ f.q = next[Top.q] /\ f.pc = "visit"
    BY <1>3, <1>6 DEF Frame
  <2> QED
    BY <1>3, <1>6, <2>1, <2>2, <2>3 DEF WalkOK
<1> QED
  BY <1>1, <1>2, <1>4, <1>5, <1>6 DEF Pushed

(* process_start *)
LEMMA StartWalks ==
  ASSUME TypeOK, ListOK, WalksOK, NEW p \in Procs, Start(p)
  PROVE  ListOK' /\ WalksOK'
<1>1. /\ next \in [Procs -> ProcOrNull] /\ process_list \in ProcOrNull
      /\ p \notin ReachBy(next, process_list)
      /\ next' = [next EXCEPT ![p] = process_list] /\ process_list' = p
  BY DEF TypeOK, Start, Started, Listed, Reach
<1>2. /\ ReachBy(next', p) = ReachBy(next, process_list) \cup {p}
      /\ \A c \in ProcOrNull :
           ReachBy(next, process_list) \cap ReachBy(next, c) \subseteq ReachBy(next', c)
      /\ Acyclic(next') /\ OnePredecessor(next', p) /\ NoneBefore(next', p)
  BY ZenonT(60), <1>1, LinkFacts DEF ListOK
<1>3. ListOK'
  BY <1>1, <1>2 DEF ListOK
<1> DEFINE f == [NewFrame("synch", "called") EXCEPT !.old = process_current]
           g == ThreadFrame(p, "INIT", "called")
<1>4. stack' = Append(Append(stack, f), g)
  BY DEF Start, Invoke
<1>5. f.due = {} /\ f.pc = "called" /\ g.due = {} /\ g.pc = "called"
  BY DEF NewFrame, ThreadFrame
<1> HIDE DEF f, g
<1>6. Frames(stack') \subseteq Frames(stack) \cup {f, g}
  BY <1>4, FramesOps DEF TypeOK
<1>7. ASSUME NEW k \in Frames(stack)
      PROVE  WalkOK(next', process_list', k)
  <2>1. k \in Frame /\ WalkOK(next, process_list, k)
    BY ElementOfSeq DEF Frames, WalksOK, TypeOK
  <2>2. k.q \in ProcOrNull
    BY <2>1 DEF Frame
  <2> QED
    BY <1>1, <1>2, <2>1, <2>2 DEF WalkOK
<1>8. WalkOK(next', process_list', f) /\ WalkOK(next', process_list', g)
  BY <1>5 DEF WalkOK
<1> QED
  BY <1>3, <1>6, <1>7, <1>8 DEF WalksOK

(* The end of exit_process *)
LEMMA UnlinkWalks ==
  ASSUME TypeOK, ListOK, WalksOK, ExitUnlink
  PROVE  ListOK' /\ WalksOK'
<1> DEFINE p == Top.p
<1>1. stack # << >> /\ p \in Procs
  BY StackTyped DEF ExitUnlink, Running, GoodFrame, FrameOK
<1> HIDE DEF p
<1>2. /\ next \in [Procs -> ProcOrNull] /\ process_list \in ProcOrNull
      /\ \/ p = process_list /\ process_list' = next[p] /\ next' = next
         \/ /\ p # process_list /\ process_list' = process_list
            /\ next' = [q \in Procs |-> IF q \in ReachBy(next, process_list) /\ next[q] = p
                                          THEN next[p] ELSE next[q]]
  BY DEF TypeOK, ExitUnlink, Unlink, Bypass, Listed, Reach, p
<1>3. Acyclic(next) /\ OnePredecessor(next, process_list) /\ NoneBefore(next, process_list)
  BY DEF ListOK
<1>4. /\ ReachBy(next', process_list') = ReachBy(next, process_list) \ {p}
      /\ \A c \in ProcOrNull : ReachBy(next, c) \ {p} \subseteq ReachBy(next', c)
      /\ Acyclic(next') /\ OnePredecessor(next', process_list') /\ NoneBefore(next', process_list')
  BY <1>1, <1>2, <1>3, UnlinkFacts
<1>5. ListOK'
  BY <1>4 DEF ListOK
<1>6. ASSUME NEW f \in Frames(stack')
      PROVE  WalkOK(next', process_list', f)
  <2>1. PICK i \in 1 .. Len(stack) - 1 : f = [stack[i] EXCEPT !.due = @ \ {p}]
    BY DEF ExitUnlink, Frames, p
  <2>2. i \in DOMAIN stack /\ stack[i] \in Frame
    BY <1>1, <2>1, ElementOfSeq DEF TypeOK
  <2>3. WalkOK(next, process_list, stack[i]) /\ stack[i].q \in ProcOrNull
    BY <2>2 DEF WalksOK, Frames, Frame
  <2>4. f.q = stack[i].q /\ f.pc = stack[i].pc /\ f.due = stack[i].due \ {p}
    BY <2>1, <2>2 DEF Frame
  <2> QED
    BY <1>4, <2>3, <2>4 DEF WalkOK
<1> QED
  BY <1>5, <1>6 DEF WalksOK

(* The process list keeps its shape and every walk over it ends, whatever  *)
(* processes start and exit during the walks (process.c, all loops).       *)
THEOREM ListInvariant == Spec => [](ListOK /\ WalksOK)
<1> DEFINE Inv == ListOK /\ WalksOK
<1>1. Init => Inv
  <2> SUFFICES ASSUME Init
               PROVE  Inv
    OBVIOUS
  <2>1. /\ next = [p \in Procs |-> NULL] /\ process_list = NULL /\ stack = << >>
    BY DEF Init, process_init
  <2>2. next \in [Procs -> ProcOrNull] /\ NULL \in ProcOrNull
    BY <2>1 DEF ProcOrNull
  <2>3. ReachBy(next, process_list) = {}
    BY <2>1, <2>2, ReachFacts
  <2>4. Acyclic(next)
    BY <2>1, NullAssumption DEF Acyclic
  <2> QED
    BY <2>1, <2>3, <2>4 DEF ListOK, OnePredecessor, NoneBefore, WalksOK, Frames
<1>2. TypeOK /\ Inv /\ [Next]_vars => Inv'
  <2> SUFFICES ASSUME TypeOK, ListOK, WalksOK, [Next]_vars
               PROVE  Inv'
    OBVIOUS
  <2>1. CASE QuietNext
    <3>1. StackMoves /\ next' = next /\ process_list' = process_list
      BY <2>1, QuietSteps DEF listVars
    <3>2. \A f \in Frames(stack') : WalkOK(next, process_list, f)
      BY <3>1, PushedWalkOK DEF StackMoves, WalksOK
    <3> QED
      BY <3>1, <3>2 DEF ListOK, WalksOK
  <2>2. ASSUME NEW p \in Procs, process_start(p) \/ BootStart(p)
        PROVE  Inv'
    BY <2>2, StartWalks DEF process_start, BootStart
  <2>3. CASE ExitUnlink
    BY <2>3, UnlinkWalks
  <2>4. CASE UNCHANGED vars
    BY <2>4 DEF vars, listVars, ListOK, WalksOK
  <2> QED
    BY <2>1, <2>2, <2>3, <2>4 DEF Next, QuietNext, ThreadCall, KernelStep
<1> QED
  BY <1>1, <1>2, TypeCorrect, PTL DEF Spec

(* The list is sound in every reachable state. *)
THEOREM ListSound == Spec => []ListOK
  BY ListInvariant, PTL

(* No broadcast, poll or exit notice misses a process that stays listed.   *)
THEOREM NoneMissed == Spec => []WalkComplete
<1>1. TypeOK /\ WalksOK => WalkComplete
  <2> SUFFICES ASSUME TypeOK, WalksOK, NEW i \in DOMAIN stack
               PROVE  /\ stack[i].due \subseteq Listed
                      /\ stack[i].due \subseteq
                           Reach(IF stack[i].pc = "advance" THEN next[stack[i].q] ELSE stack[i].q)
    BY DEF WalkComplete
  <2>1. WalkOK(next, process_list, stack[i])
    BY DEF WalksOK, Frames
  <2>2. CASE stack[i].pc = "advance"
    <3>1. stack[i].q \in Procs /\ next \in [Procs -> ProcOrNull]
      BY <2>2 DEF TypeOK, FrameOK
    <3>2. ReachBy(next, stack[i].q) \ {stack[i].q} \subseteq ReachBy(next, next[stack[i].q])
      BY <3>1, ReachStep
    <3> QED
      BY <2>1, <2>2, <3>2 DEF WalkOK, Listed, Reach
  <2>3. CASE stack[i].pc # "advance"
    BY <2>1, <2>3 DEF WalkOK, Listed, Reach
  <2> QED
    BY <2>2, <2>3
<1> QED
  BY <1>1, TypeCorrect, ListInvariant, PTL

-------------------------------------------------------------------------------
(* Who is running: PROCESS_CURRENT() is right whenever a thread runs, no   *)
(* poll is lost, no thread is entered twice, and between two rounds of the *)
(* main loop the states of the processes are those of the list.            *)

(* A stack after a frame is pushed, the top is popped, or it is replaced.  *)
LEMMA StackIndices ==
  ASSUME NEW s \in Seq(Frame), NEW f \in Frame
  PROVE  /\ Len(s) \in Nat /\ DOMAIN s = 1 .. Len(s)
         /\ s = << >> <=> Len(s) = 0
         /\ \A i \in 1 .. Len(s) : s[i] \in Frame
         /\ Append(s, f) \in Seq(Frame) /\ Len(Append(s, f)) = Len(s) + 1
         /\ \A i \in 1 .. Len(s) : Append(s, f)[i] = s[i]
         /\ Append(s, f)[Len(s) + 1] = f
         /\ s # << >> =>
              /\ SubSeq(s, 1, Len(s) - 1) \in Seq(Frame)
              /\ Len(SubSeq(s, 1, Len(s) - 1)) = Len(s) - 1
              /\ \A i \in 1 .. Len(s) - 1 : SubSeq(s, 1, Len(s) - 1)[i] = s[i]
              /\ [s EXCEPT ![Len(s)] = f] \in Seq(Frame)
              /\ Len([s EXCEPT ![Len(s)] = f]) = Len(s)
              /\ \A i \in 1 .. Len(s) - 1 : [s EXCEPT ![Len(s)] = f][i] = s[i]
              /\ [s EXCEPT ![Len(s)] = f][Len(s)] = f
<1>1. /\ Len(s) \in Nat /\ DOMAIN s = 1 .. Len(s)
      /\ s = << >> <=> Len(s) = 0
      /\ \A i \in 1 .. Len(s) : s[i] \in Frame
  BY ElementOfSeq
<1>2. /\ Append(s, f) \in Seq(Frame) /\ Len(Append(s, f)) = Len(s) + 1
      /\ \A i \in 1 .. Len(s) : Append(s, f)[i] = s[i]
      /\ Append(s, f)[Len(s) + 1] = f
  BY AppendProperties
<1>3. ASSUME s # << >>
      PROVE  /\ SubSeq(s, 1, Len(s) - 1) \in Seq(Frame)
             /\ Len(SubSeq(s, 1, Len(s) - 1)) = Len(s) - 1
             /\ \A i \in 1 .. Len(s) - 1 : SubSeq(s, 1, Len(s) - 1)[i] = s[i]
  <2>1. Len(s) \in Nat /\ Len(s) > 0 /\ \A i \in 1 .. Len(s) - 1 : s[i] \in Frame
    BY <1>1, <1>3
  <2> DEFINE t == SubSeq(s, 1, Len(s) - 1)
             n == Len(s) - 1
  <2>2. 1 \in Int /\ n \in Int
    BY <2>1
  <2>3. /\ t \in Seq(Frame)
        /\ Len(t) = IF 1 <= n THEN n - 1 + 1 ELSE 0
        /\ \A i \in 1 .. n - 1 + 1 : t[i] = s[1 + i - 1]
    BY <2>1, <2>2, SubSeqProperties
  <2> HIDE DEF t
  <2>4. Len(t) = Len(s) - 1
    <3>1. \A k \in Nat : k > 0 => (IF 1 <= k - 1 THEN k - 1 - 1 + 1 ELSE 0) = k - 1
      OBVIOUS
    <3> QED
      BY <2>1, <2>3, <3>1, Zenon
  <2>5. ASSUME NEW i \in 1 .. Len(s) - 1
        PROVE  t[i] = s[i]
    <3>1. i \in 1 .. n - 1 + 1 /\ 1 + i - 1 = i
      BY <2>1
    <3> QED
      BY <2>3, <3>1
  <2> QED
    BY <2>3, <2>4, <2>5, Zenon DEF t
<1>4. ASSUME s # << >>
      PROVE  /\ [s EXCEPT ![Len(s)] = f] \in Seq(Frame)
             /\ Len([s EXCEPT ![Len(s)] = f]) = Len(s)
             /\ \A i \in 1 .. Len(s) - 1 : [s EXCEPT ![Len(s)] = f][i] = s[i]
             /\ [s EXCEPT ![Len(s)] = f][Len(s)] = f
  <2> DEFINE t == [s EXCEPT ![Len(s)] = f]
  <2>1. Len(s) \in 1 .. Len(s) /\ Len(s) \in Nat
    BY <1>1, <1>4
  <2>2. /\ t \in Seq(Frame) /\ Len(t) = Len(s)
        /\ \A j \in 1 .. Len(s) : t[j] = IF j = Len(s) THEN f ELSE s[j]
    BY <2>1, ExceptSeq
  <2> HIDE DEF t
  <2>3. t[Len(s)] = f /\ \A i \in 1 .. Len(s) - 1 : t[i] = s[i]
    BY <2>1, <2>2
  <2> QED
    BY <2>2, <2>3, Zenon DEF t
<1> QED
  BY <1>1, <1>2, <1>3, <1>4

-------------------------------------------------------------------------------
(* A thread that has called into the kernel is below the frame of that     *)
(* call, which will restore process_current to the thread's process.       *)
Restores(f, g) == f.fn = "thread" => g.fn \in {"synch", "exit"} /\ g.old = f.p

Nested(s) == \A i \in 1 .. Len(s) - 1 : Restores(s[i], s[i + 1])

(* Pushing, popping and replacing frames keeps the nesting. *)
LEMMA NestedOps ==
  ASSUME NEW s \in Seq(Frame), Nested(s), NEW f \in Frame
  PROVE  /\ s = << >> \/ Restores(s[Len(s)], f) => Nested(Append(s, f))
         /\ s # << >> =>
              LET t == SubSeq(s, 1, Len(s) - 1) IN
              /\ Nested(t)
              /\ t # << >> => Restores(t[Len(t)], s[Len(s)])
              /\ f.fn = s[Len(s)].fn /\ f.old = s[Len(s)].old =>
                   Nested([s EXCEPT ![Len(s)] = f])
<1>1. ASSUME s = << >> \/ Restores(s[Len(s)], f)
      PROVE  Nested(Append(s, f))
  <2> DEFINE t == Append(s, f)
  <2>1. /\ Len(s) \in Nat /\ Len(t) = Len(s) + 1
        /\ \A i \in 1 .. Len(s) : t[i] = s[i]
        /\ t[Len(s) + 1] = f /\ (s = << >> <=> Len(s) = 0)
    BY StackIndices
  <2> HIDE DEF t
  <2> SUFFICES ASSUME NEW i \in 1 .. Len(t) - 1
               PROVE  Restores(t[i], t[i + 1])
    BY DEF Nested, t
  <2>2. CASE i = Len(s)
    BY <1>1, <2>1, <2>2
  <2>3. CASE i # Len(s)
    BY <2>1, <2>3 DEF Nested
  <2> QED
    BY <2>2, <2>3
<1>2. ASSUME s # << >>
      PROVE  LET t == SubSeq(s, 1, Len(s) - 1) IN
             /\ Nested(t)
             /\ t # << >> => Restores(t[Len(t)], s[Len(s)])
  <2> DEFINE t == SubSeq(s, 1, Len(s) - 1)
  <2>1. /\ Len(s) \in Nat /\ Len(s) > 0 /\ Len(t) = Len(s) - 1 /\ t \in Seq(Frame)
        /\ \A i \in 1 .. Len(s) - 1 : t[i] = s[i]
    BY <1>2, StackIndices
  <2>2. t # << >> => Len(t) > 0
    BY <2>1, StackIndices
  <2> HIDE DEF t
  <2>3. Nested(t)
    BY <2>1 DEF Nested
  <2>4. t # << >> => Restores(t[Len(t)], s[Len(s)])
    BY <2>1, <2>2 DEF Nested
  <2> QED
    BY <2>3, <2>4 DEF t
<1>3. ASSUME s # << >>, f.fn = s[Len(s)].fn, f.old = s[Len(s)].old
      PROVE  Nested([s EXCEPT ![Len(s)] = f])
  <2> DEFINE t == [s EXCEPT ![Len(s)] = f]
  <2>1. /\ Len(s) \in Nat /\ Len(s) > 0 /\ Len(t) = Len(s)
        /\ \A i \in 1 .. Len(s) - 1 : t[i] = s[i]
        /\ t[Len(s)] = f
    BY <1>3, StackIndices
  <2> HIDE DEF t
  <2> SUFFICES ASSUME NEW i \in 1 .. Len(t) - 1
               PROVE  Restores(t[i], t[i + 1])
    BY DEF Nested, t
  <2>2. Restores(s[i], s[i + 1]) /\ t[i] = s[i]
    BY <2>1 DEF Nested
  <2>3. CASE i = Len(s) - 1
    BY <2>1, <2>2, <2>3, <1>3 DEF Restores
  <2>4. CASE i # Len(s) - 1
    BY <2>1, <2>2, <2>4
  <2> QED
    BY <2>3, <2>4
<1> QED
  BY <1>1, <1>2, <1>3

(* The nesting, and PROCESS_CURRENT() for the thread on top. *)
TopIsThread(s) == s # << >> /\ s[Len(s)].fn = "thread"
CallsOK(s, c) == Nested(s) /\ (TopIsThread(s) => c = s[Len(s)].p)

(* A frame on top of a stack *)
LEMMA PushCalls ==
  ASSUME NEW s \in Seq(Frame), Nested(s), NEW f \in Frame, NEW c,
         TopIsThread(s) => Restores(s[Len(s)], f),
         f.fn = "thread" => c = f.p
  PROVE  CallsOK(Append(s, f), c)
<1>1. Nested(Append(s, f))
  BY NestedOps DEF TopIsThread, Restores
<1>2. Len(Append(s, f)) = Len(s) + 1 /\ Append(s, f)[Len(s) + 1] = f
  BY StackIndices
<1> QED
  BY <1>1, <1>2 DEF CallsOK, TopIsThread

(* call_process, from a frame that is not a thread's *)
LEMMA CallCalls ==
  ASSUME TypeOK, NEW p \in Procs, NEW ev \in EventIds, NEW rest \in Seq(Frame),
         Nested(rest), ~TopIsThread(rest),
         Invoke(p, ev, rest) \/ call_process(p, ev, rest)
  PROVE  CallsOK(stack', process_current')
<1> DEFINE f == ThreadFrame(p, ev, "called")
<1>1. f \in Frame /\ f.fn = "thread" /\ f.p = p
  BY GoodFrameFacts DEF GoodFrame, ThreadFrame, NewFrame
<1> HIDE DEF f
<1>2. CASE stack' = rest
  BY <1>2 DEF CallsOK
<1>3. CASE stack' = Append(rest, f) /\ process_current' = p
  BY <1>1, <1>3, PushCalls
<1> QED
  BY <1>2, <1>3 DEF Invoke, call_process, f

(* exit_process, from a thread that is process_current or from the kernel *)
LEMMA ExitCalls ==
  ASSUME TypeOK, NEW p \in Procs, NEW from \in ProcOrNull, NEW rest \in Seq(Frame),
         CallsOK(rest, process_current),
         exit_process(p, from, rest), process_current' = process_current
  PROVE  CallsOK(stack', process_current')
<1> DEFINE f == [WalkFrame("exit", "EXITED", Listed \ {p})
                   EXCEPT !.p = p, !.from = from, !.old = process_current]
           g == [f EXCEPT !.pc = "unlink", !.due = {}]
<1>1. Listed \ {p} \in SUBSET Procs /\ "EXITED" \in EventIds
  BY ListedTyped DEF EventIds
<1>2. f \in Frame /\ g \in Frame
  BY <1>1, GoodFrameFacts DEF TypeOK, GoodFrame
<1>3. /\ f.fn = "exit" /\ f.old = process_current
      /\ g.fn = "exit" /\ g.old = process_current
  BY DEF WalkFrame, NewFrame
<1>4. stack' = rest \/ stack' = Append(rest, f) \/ stack' = Append(rest, g)
  BY DEF exit_process
<1> HIDE DEF f, g
<1>5. ASSUME NEW h \in Frame, h.fn = "exit", h.old = process_current
      PROVE  CallsOK(Append(rest, h), process_current)
  BY <1>5, PushCalls DEF CallsOK, Restores
<1> QED
  BY <1>2, <1>3, <1>4, <1>5

(* The synch frame of process_post_synch and process_start *)
LEMMA SynchCalls ==
  ASSUME TypeOK, CallsOK(stack, process_current)
  PROVE  LET s == Append(stack, [NewFrame("synch", "called") EXCEPT !.old = process_current])
         IN  s \in Seq(Frame) /\ Nested(s) /\ ~TopIsThread(s)
<1> DEFINE f == [NewFrame("synch", "called") EXCEPT !.old = process_current]
<1>1. f \in Frame /\ f.fn = "synch" /\ f.old = process_current
  BY GoodFrameFacts DEF TypeOK, GoodFrame, NewFrame
<1>2. stack \in Seq(Frame)
  BY DEF TypeOK
<1> HIDE DEF f
<1>3. Append(stack, f) \in Seq(Frame) /\ Append(stack, f)[Len(Append(stack, f))] = f
  BY <1>1, <1>2, StackIndices
<1>4. CallsOK(Append(stack, f), process_current)
  BY <1>1, <1>2, PushCalls DEF CallsOK, Restores
<1>5. ~TopIsThread(Append(stack, f))
  BY <1>1, <1>3 DEF TopIsThread
<1> QED
  BY <1>3, <1>4, <1>5 DEF CallsOK, f

(* What is below the top, and what the top may become *)
LEMMA TopCalls ==
  ASSUME TypeOK, CallsOK(stack, process_current), stack # << >>
  PROVE  /\ stack \in Seq(Frame) /\ Top \in Frame /\ FrameOK(Top)
         /\ Pop \in Seq(Frame) /\ Nested(Pop)
         /\ Pop # << >> => Restores(Pop[Len(Pop)], Top)
         /\ Top.fn \notin {"synch", "exit"} => ~TopIsThread(Pop)
         /\ \A f \in Frame : f.fn = Top.fn /\ f.old = Top.old /\ f.fn # "thread" =>
              SetTop(f) \in Seq(Frame) /\ Nested(SetTop(f)) /\ ~TopIsThread(SetTop(f))
<1>1. stack \in Seq(Frame) /\ Top \in Frame /\ FrameOK(Top) /\ Pop \in Seq(Frame) /\ Nested(stack)
  BY StackTyped DEF GoodFrame, GoodStack, CallsOK
<1>2. Nested(Pop) /\ (Pop # << >> => Restores(Pop[Len(Pop)], Top))
  BY <1>1, NestedOps DEF Pop, Top
<1>3. Top.fn \notin {"synch", "exit"} => ~TopIsThread(Pop)
  BY <1>2 DEF TopIsThread, Restores
<1>4. ASSUME NEW f \in Frame, f.fn = Top.fn, f.old = Top.old, f.fn # "thread"
      PROVE  SetTop(f) \in Seq(Frame) /\ Nested(SetTop(f)) /\ ~TopIsThread(SetTop(f))
  <2>1. Nested(SetTop(f))
    BY <1>1, <1>4, NestedOps DEF SetTop, Top
  <2>2. SetTop(f) \in Seq(Frame) /\ SetTop(f)[Len(SetTop(f))] = f
    BY <1>1, StackIndices DEF SetTop
  <2> QED
    BY <1>4, <2>1, <2>2 DEF TopIsThread
<1> QED
  BY <1>1, <1>2, <1>3, <1>4

(* Whenever a thread runs or resumes, PROCESS_CURRENT() is its process,    *)
(* however deep the calls between threads and kernel are nested.           *)
THEOREM CurrentRight == Spec => []CurrentIsRunning
<1> DEFINE Inv == CallsOK(stack, process_current)
<1>1. Init => Inv
  <2> SUFFICES ASSUME Init
               PROVE  Inv
    OBVIOUS
  <2>1. stack = << >> /\ Len(stack) = 0
    BY DEF Init, process_init
  <2> QED
    BY <2>1 DEF CallsOK, Nested, TopIsThread
<1>2. TypeOK /\ Inv /\ [Next]_vars => Inv'
  <2> SUFFICES ASSUME TypeOK, Inv, [Next]_vars
               PROVE  CallsOK(stack', process_current')
    OBVIOUS
  <2> HIDE DEF Inv
  <2>i. CallsOK(stack, process_current) /\ stack \in Seq(Frame)
    BY DEF Inv, TypeOK
  <2>1. CASE UNCHANGED <<stack, process_current>>
    BY <2>1, <2>i
  <2>2. ASSUME NEW p \in Procs, NEW ev \in Posted, process_post_synch(p, ev)
        PROVE  CallsOK(stack', process_current')
    <3> DEFINE s == Append(stack, [NewFrame("synch", "called") EXCEPT !.old = process_current])
    <3>1. s \in Seq(Frame) /\ Nested(s) /\ ~TopIsThread(s)
      BY <2>i, SynchCalls
    <3>2. call_process(p, ev, s) /\ ev \in EventIds
      BY <2>2 DEF process_post_synch, Posted, EventIds
    <3> HIDE DEF s
    <3> QED
      BY <3>1, <3>2, CallCalls
  <2>3. ASSUME NEW p \in Procs, process_start(p) \/ BootStart(p)
        PROVE  CallsOK(stack', process_current')
    <3> DEFINE s == Append(stack, [NewFrame("synch", "called") EXCEPT !.old = process_current])
    <3>1. s \in Seq(Frame) /\ Nested(s) /\ ~TopIsThread(s)
      BY <2>i, SynchCalls
    <3>2. Invoke(p, "INIT", s) /\ "INIT" \in EventIds
      BY <2>3 DEF process_start, BootStart, Start, EventIds
    <3> HIDE DEF s
    <3> QED
      BY <3>1, <3>2, CallCalls
  <2>4. ASSUME NEW p \in Procs, process_exit(p)
        PROVE  CallsOK(stack', process_current')
    BY <2>4, <2>i, ExitCalls DEF process_exit, TypeOK
  <2>5. CASE SynchReturn \/ ExitUnlink
    <3>1. stack # << >> /\ Top.fn \in {"synch", "exit"} /\ process_current' = Top.old
      BY <2>5 DEF SynchReturn, ExitUnlink, Running, Restored
    <3>2. /\ Pop \in Seq(Frame) /\ Nested(Pop)
          /\ Pop # << >> => Restores(Pop[Len(Pop)], Top)
      BY <2>i, <3>1, TopCalls
    <3>3. CallsOK(Pop, Top.old)
      BY <3>2 DEF CallsOK, TopIsThread, Restores
    <3>4. CASE SynchReturn
      BY <3>1, <3>3, <3>4 DEF SynchReturn
    <3>5. CASE ExitUnlink
      <4>1. /\ Len(stack) \in Nat /\ Len(Pop) = Len(stack) - 1
            /\ \A i \in 1 .. Len(stack) - 1 : Pop[i] = stack[i] /\ stack[i] \in Frame
        BY <2>i, <3>1, StackIndices, TopCalls DEF Pop
      <4>2. stack' = [i \in 1 .. Len(stack) - 1 |-> [stack[i] EXCEPT !.due = @ \ {Top.p}]]
        BY <3>5 DEF ExitUnlink
      <4>3. \A i \in 1 .. Len(Pop) :
              stack'[i].fn = Pop[i].fn /\ stack'[i].p = Pop[i].p /\ stack'[i].old = Pop[i].old
        BY <4>1, <4>2 DEF Frame
      <4>4. Len(stack') = Len(Pop)
        BY <4>1, <4>2
      <4>5. Nested(stack')
        BY <4>3, <4>4, <3>2, LenProperties DEF Nested, Restores
      <4>6. Pop = << >> => Len(Pop) = 0
        OBVIOUS
      <4>7. stack' # << >> => Len(stack') > 0
        <5>1. stack' \in Seq(Frame)
          BY <4>1, <4>2 DEF Frame
        <5> QED
          BY <5>1, StackIndices, <3>1, <2>i, TopCalls
      <4> QED
        BY <3>1, <3>3, <4>3, <4>4, <4>5, <4>6, <4>7, <3>2, LenProperties DEF CallsOK, TopIsThread
    <3> QED
      BY <2>5, <3>4, <3>5
  <2>6. CASE ThreadReturn
    <3>1. /\ stack # << >> /\ Top.fn = "thread" /\ process_current' = process_current
      BY <2>6 DEF ThreadReturn, ThreadYield, ThreadEnd, ThreadExited, Running
    <3>2. Pop \in Seq(Frame) /\ Nested(Pop) /\ ~TopIsThread(Pop) /\ FrameOK(Top)
      BY <2>i, <3>1, TopCalls
    <3>3. CASE stack' = Pop
      BY <3>2, <3>3 DEF CallsOK
    <3>4. CASE ThreadEnd
      <4>1. exit_process(Top.p, Top.p, Pop) /\ Top.p \in Procs /\ Top.p \in ProcOrNull
        BY <3>1, <3>2, <3>4 DEF ThreadEnd, FrameOK, ProcOrNull
      <4>2. CallsOK(Pop, process_current)
        BY <3>2 DEF CallsOK
      <4> QED
        BY <3>1, <3>2, <4>1, <4>2, ExitCalls
    <3> QED
      BY <2>6, <3>3, <3>4 DEF ThreadReturn, ThreadYield, ThreadExited
  <2>7. ASSUME stack # << >>, Top.fn \in {"poll", "event"}, stack' = Pop
        PROVE  CallsOK(stack', process_current')
    <3>1. Nested(Pop) /\ ~TopIsThread(Pop)
      BY <2>i, <2>7, TopCalls
    <3> QED
      BY <2>7, <3>1 DEF CallsOK
  <2>8. ASSUME stack # << >>, NEW f \in Frame, stack' = SetTop(f),
               f.fn = Top.fn, f.old = Top.old, f.fn # "thread"
        PROVE  CallsOK(stack', process_current')
    BY <2>8, <2>i, TopCalls DEF CallsOK
  <2>9. ASSUME stack # << >>, NEW f \in Frame, f.fn = Top.fn, f.old = Top.old, f.fn # "thread",
               NEW p \in Procs, NEW ev \in EventIds,
               Invoke(p, ev, SetTop(f)) \/ call_process(p, ev, SetTop(f))
        PROVE  CallsOK(stack', process_current')
    <3>1. SetTop(f) \in Seq(Frame) /\ Nested(SetTop(f)) /\ ~TopIsThread(SetTop(f))
      BY <2>9, <2>i, TopCalls
    <3> QED
      BY <2>9, <3>1, CallCalls
  <2>10. ASSUME stack # << >>, NEW f \in Frame, f.fn = Top.fn, f.old = Top.old, f.fn # "thread",
                NEW g \in Frame, g.fn = "thread" => process_current' = g.p,
                stack' = Append(SetTop(f), g)
         PROVE  CallsOK(stack', process_current')
    <3>1. SetTop(f) \in Seq(Frame) /\ Nested(SetTop(f)) /\ ~TopIsThread(SetTop(f))
      BY <2>10, <2>i, TopCalls
    <3> QED
      BY <2>10, <3>1, PushCalls
  <2>v. ASSUME stack # << >>
        PROVE  /\ Top \in Frame /\ FrameOK(Top)
               /\ Top.q # NULL =>
                    /\ Top.q \in Procs /\ Visited(Top) \in Frame
                    /\ Visited(Top).fn = Top.fn /\ Visited(Top).old = Top.old
               /\ \A pc \in {"call", "unlink"} :
                    /\ [Top EXCEPT !.pc = pc] \in Frame
                    /\ [Top EXCEPT !.pc = pc].fn = Top.fn /\ [Top EXCEPT !.pc = pc].old = Top.old
    <3>1. Top \in Frame /\ FrameOK(Top)
      BY <2>v, <2>i, TopCalls
    <3> QED
      BY <3>1 DEF Visited, Frame, ProcOrNull
  <2>11. CASE Advance
    <3> DEFINE f == [Top EXCEPT !.pc = "visit", !.q = next[@]]
    <3>1. /\ stack # << >> /\ Top.pc = "advance" /\ stack' = SetTop(f)
          /\ process_current' = process_current
      BY <2>11 DEF Advance
    <3>2. Top \in Frame /\ Top.q \in Procs
      BY <3>1, <2>v DEF FrameOK
    <3>3. f \in Frame /\ f.fn = Top.fn /\ f.old = Top.old /\ f.p = Top.p
      BY <3>2 DEF Frame, TypeOK
    <3> HIDE DEF f
    <3>4. CASE Top.fn # "thread"
      BY <3>1, <3>3, <3>4, <2>8
    <3>5. CASE Top.fn = "thread"
      <4>1. Nested(stack')
        BY <2>i, <3>1, <3>3, NestedOps DEF SetTop, Top, CallsOK
      <4>2. stack'[Len(stack')] = f
        BY <2>i, <3>1, <3>3, StackIndices DEF SetTop
      <4>3. process_current = Top.p
        BY <2>i, <3>1, <3>5 DEF CallsOK, TopIsThread, Top
      <4> QED
        BY <3>1, <3>3, <4>1, <4>2, <4>3 DEF CallsOK
    <3> QED
      BY <3>4, <3>5
  <2>12. CASE ExitVisit
    <3>1. stack # << >> /\ Top.fn = "exit" /\ Top.q # NULL
      BY <2>12 DEF ExitVisit, Running
    <3>2. stack' = SetTop(Visited(Top)) \/ call_process(Top.q, "EXITED", SetTop(Visited(Top)))
      BY <2>12 DEF ExitVisit
    <3> QED
      BY <3>1, <3>2, <2>v, <2>8, <2>9 DEF EventIds
  <2>13. CASE PollVisit
    <3>1. stack # << >> /\ Top.fn = "poll" /\ Top.q # NULL
      BY <2>13 DEF PollVisit, Running
    <3>2. stack' = SetTop(Visited(Top)) \/ Invoke(Top.q, "POLL", SetTop(Visited(Top)))
      BY <2>13 DEF PollVisit
    <3> QED
      BY <3>1, <3>2, <2>v, <2>8, <2>9 DEF EventIds
  <2>14. CASE EventVisit
    <3>1. stack # << >> /\ Top.fn = "event" /\ Top.pc = "call"
      BY <2>14 DEF EventVisit, Running
    <3>2. call_process(Top.q, Top.ev, SetTop(Visited(Top)))
      BY <2>14 DEF EventVisit
    <3>3. Top.q \in Procs /\ Top.q # NULL /\ Top.ev \in EventIds
      BY <3>1, <2>v, NullAssumption DEF FrameOK, Frame
    <3> QED
      BY <3>1, <3>2, <3>3, <2>v, <2>9
  <2>15. CASE ExitThread
    <3> DEFINE f == [Top EXCEPT !.pc = "unlink"]
               g == ThreadFrame(Top.p, "EXIT", "exiting")
    <3>1. stack # << >> /\ Top.fn = "exit"
      BY <2>15 DEF ExitThread, Running
    <3>2. \/ stack' = SetTop(f)
          \/ stack' = Append(SetTop(f), g) /\ process_current' = Top.p
      BY <2>15 DEF ExitThread
    <3>3. f \in Frame /\ f.fn = Top.fn /\ f.old = Top.old /\ Top.p \in Procs
      BY <3>1, <2>v DEF FrameOK
    <3>4. g \in Frame /\ g.p = Top.p
      BY <3>3, GoodFrameFacts DEF GoodFrame, EventIds, ThreadFrame, NewFrame
    <3> HIDE DEF f, g
    <3> QED
      BY <3>1, <3>2, <3>3, <3>4, <2>8, <2>10
  <2>w. WalkFrame("poll", "POLL", Listed) \in Frame /\ WalkFrame("poll", "POLL", Listed).fn = "poll"
    BY GoodFrameFacts, ListedTyped DEF GoodFrame, TypeOK, EventIds, WalkFrame, NewFrame
  <2>16. CASE EventPoll
    <3> DEFINE f == [Top EXCEPT !.pc = "call"]
               g == WalkFrame("poll", "POLL", Listed)
    <3>1. stack # << >> /\ Top.fn = "event"
      BY <2>16 DEF EventPoll, Running
    <3>2. stack' = SetTop(f) \/ stack' = Append(SetTop(f), g)
      BY <2>16 DEF EventPoll, do_poll
    <3>3. f \in Frame /\ f.fn = Top.fn /\ f.old = Top.old
      BY <3>1, <2>v
    <3> HIDE DEF f, g
    <3>4. g \in Frame /\ g.fn # "thread"
      BY <2>w DEF g
    <3> QED
      BY <3>1, <3>2, <3>3, <3>4, <2>8, <2>10
  <2>17. CASE EventTake
    <3>1. stack # << >> /\ Top.fn = "event"
      BY <2>17 DEF EventTake, Running
    <3>2. Pop \in Seq(Frame) /\ Nested(Pop) /\ ~TopIsThread(Pop)
      BY <3>1, <2>i, TopCalls
    <3>3. CASE events = << >>
      BY <2>17, <3>1, <3>3, <2>7 DEF EventTake
    <3>4. CASE events # << >>
      <4>1. Head(events) \in [p : ProcOrNull, ev : EventIds]
        <5>1. events \in Seq([p : ProcOrNull, ev : EventIds])
          BY DEF TypeOK
        <5> QED
          BY <3>4, <5>1, HeadTailProperties
      <4>2. CASE Head(events).p = NULL
        <5> DEFINE f == WalkFrame("event", Head(events).ev, Listed)
        <5>1. f \in Frame /\ f.fn = "event"
          BY <4>1, GoodFrameFacts, ListedTyped DEF GoodFrame, TypeOK, WalkFrame, NewFrame
        <5>2. stack' = SetTop(f)
          BY <2>17, <3>4, <4>2 DEF EventTake
        <5> HIDE DEF f
        <5>3. SetTop(f) \in Seq(Frame) /\ SetTop(f)[Len(SetTop(f))] = f
          BY <2>i, <3>1, <5>1, StackIndices DEF SetTop
        <5>4. Nested(SetTop(f))
          <6> DEFINE t == SetTop(f)
          <6>1. /\ Len(stack) \in Nat /\ Len(stack) > 0 /\ Len(t) = Len(stack)
                /\ \A i \in 1 .. Len(stack) - 1 : t[i] = stack[i]
            BY <2>i, <3>1, <5>1, StackIndices DEF SetTop
          <6>2. \A i \in 1 .. Len(stack) - 1 : i + 1 # Len(stack) => Restores(stack[i], stack[i + 1])
            BY <2>i DEF CallsOK, Nested
          <6>3. Len(stack) > 1 => stack[Len(stack) - 1].fn # "thread"
            BY <2>i, <3>1, <6>1 DEF CallsOK, Nested, Restores, Top
          <6> HIDE DEF t
          <6>4. \A i \in 1 .. Len(t) - 1 : Restores(t[i], t[i + 1])
            BY <6>1, <6>2, <6>3 DEF Restores
          <6> QED
            BY <6>4 DEF Nested, t
        <5> QED
          BY <5>1, <5>2, <5>3, <5>4 DEF CallsOK, TopIsThread
      <4>3. CASE Head(events).p # NULL
        <5>1. Head(events).p \in Procs /\ Head(events).ev \in EventIds
          BY <4>1, <4>3 DEF ProcOrNull
        <5>2. \/ Invoke(Head(events).p, Head(events).ev, Pop)
              \/ call_process(Head(events).p, Head(events).ev, Pop)
          BY <2>17, <3>4, <4>3 DEF EventTake
        <5> QED
          BY <3>2, <5>1, <5>2, CallCalls
      <4> QED
        BY <4>2, <4>3
    <3> QED
      BY <3>3, <3>4
  <2>18. CASE WalkReturn
    BY <2>18, <2>7 DEF WalkReturn
  <2>19. CASE process_run
    <3> DEFINE f == NewFrame("event", "take")
               g == WalkFrame("poll", "POLL", Listed)
    <3>1. f \in Frame /\ f.fn = "event"
      BY GoodFrameFacts DEF GoodFrame, NewFrame
    <3>2. stack' = << f >> \/ stack' = Append(<< f >>, g)
      BY <2>19 DEF process_run, do_poll
    <3> HIDE DEF f, g
    <3>3. << f >> \in Seq(Frame) /\ Len(<< f >>) = 1 /\ << f >>[1] = f
      BY <3>1
    <3>4. Nested(<< f >>) /\ ~TopIsThread(<< f >>)
      BY <3>1, <3>3 DEF Nested, TopIsThread
    <3>5. g \in Frame /\ g.fn # "thread"
      BY <2>w DEF g
    <3>6. CallsOK(Append(<< f >>, g), process_current')
      BY <3>3, <3>4, <3>5, PushCalls
    <3> QED
      BY <3>2, <3>4, <3>6 DEF CallsOK
  <2>20. ASSUME NEW p \in ProcOrNull, NEW ev \in Posted, process_post(p, ev)
         PROVE  CallsOK(stack', process_current')
    BY <2>20, <2>1 DEF process_post
  <2>21. ASSUME NEW p \in Polled, process_poll(p)
         PROVE  CallsOK(stack', process_current')
    BY <2>21, <2>1 DEF process_poll
  <2>22. CASE UNCHANGED vars
    BY <2>22, <2>1 DEF vars
  <2> QED
    BY <2>2, <2>3, <2>4, <2>5, <2>6, <2>11, <2>12, <2>13, <2>14, <2>15, <2>16, <2>17,
       <2>18, <2>19, <2>20, <2>21, <2>22 DEF Next, ThreadCall, KernelStep
<1>3. Inv => CurrentIsRunning
  BY DEF CallsOK, TopIsThread, CurrentIsRunning, InThread, Top
<1> QED
  BY <1>1, <1>2, <1>3, TypeCorrect, PTL DEF Spec

-------------------------------------------------------------------------------
(* The processes that a poll in progress will still look at *)
Owes(s) == {p \in Procs : \E i \in DOMAIN s : s[i].fn = "poll" /\ p \in s[i].due}

(* Pushing, popping and replacing frames: what stays owed *)
LEMMA OwesOps ==
  ASSUME NEW s \in Seq(Frame), NEW f \in Frame
  PROVE  /\ Owes(s) \subseteq Owes(Append(s, f))
         /\ f.fn = "poll" => f.due \subseteq Owes(Append(s, f))
         /\ s # << >> =>
              /\ s[Len(s)].fn # "poll" \/ s[Len(s)].due = {} =>
                   Owes(s) \subseteq Owes(SubSeq(s, 1, Len(s) - 1))
              /\ \A D :
                   (s[Len(s)].fn = "poll" => f.fn = "poll" /\ s[Len(s)].due \ D \subseteq f.due) =>
                     Owes(s) \ D \subseteq Owes([s EXCEPT ![Len(s)] = f])
<1>1. /\ Len(s) \in Nat /\ DOMAIN s = 1 .. Len(s) /\ (s = << >> <=> Len(s) = 0)
      /\ \A i \in 1 .. Len(s) : s[i] \in Frame
  BY StackIndices
<1>n. \A k \in Nat : \A i \in 1 .. k : i = k \/ i \in 1 .. k - 1
  OBVIOUS
<1>2. Owes(s) \subseteq Owes(Append(s, f)) /\ (f.fn = "poll" => f.due \subseteq Owes(Append(s, f)))
  <2> DEFINE t == Append(s, f)
  <2>1. /\ DOMAIN t = 1 .. Len(s) + 1
        /\ \A i \in 1 .. Len(s) : t[i] = s[i]
        /\ t[Len(s) + 1] = f
    <3>1. t \in Seq(Frame) /\ Len(t) = Len(s) + 1
      BY StackIndices
    <3> QED
      BY <3>1, StackIndices
  <2>2. f.due \subseteq Procs
    BY DEF Frame
  <2> HIDE DEF t
  <2>3. Owes(s) \subseteq Owes(t)
    BY <1>1, <2>1 DEF Owes
  <2>4. f.fn = "poll" => f.due \subseteq Owes(t)
    BY <1>1, <2>1, <2>2 DEF Owes
  <2> QED
    BY <2>3, <2>4 DEF t
<1>3. ASSUME s # << >>, s[Len(s)].fn # "poll" \/ s[Len(s)].due = {}
      PROVE  Owes(s) \subseteq Owes(SubSeq(s, 1, Len(s) - 1))
  <2> DEFINE t == SubSeq(s, 1, Len(s) - 1)
  <2>1. t \in Seq(Frame) /\ Len(t) = Len(s) - 1
    BY <1>3, StackIndices
  <2>2. DOMAIN t = 1 .. Len(s) - 1 /\ \A i \in 1 .. Len(s) - 1 : t[i] = s[i]
    BY <1>3, <2>1, StackIndices
  <2> HIDE DEF t
  <2>3. \A i \in 1 .. Len(s) : i = Len(s) \/ i \in 1 .. Len(s) - 1
    BY <1>1, <1>n
  <2>4. Owes(s) \subseteq Owes(t)
    BY <1>1, <1>3, <2>2, <2>3 DEF Owes
  <2> QED
    BY <2>4 DEF t
<1>4. ASSUME s # << >>, NEW D,
             s[Len(s)].fn = "poll" => f.fn = "poll" /\ s[Len(s)].due \ D \subseteq f.due
      PROVE  Owes(s) \ D \subseteq Owes([s EXCEPT ![Len(s)] = f])
  <2> DEFINE t == [s EXCEPT ![Len(s)] = f]
  <2>1. t \in Seq(Frame) /\ Len(t) = Len(s)
    BY <1>4, StackIndices
  <2>2. /\ \A i \in 1 .. Len(s) - 1 : t[i] = s[i]
        /\ t[Len(s)] = f
    BY <1>4, StackIndices
  <2> HIDE DEF t
  <2>5. DOMAIN t = 1 .. Len(s)
    BY <2>1, StackIndices
  <2>6. Len(s) \in 1 .. Len(s)
    BY <1>1, <1>4
  <2>3. \A i \in 1 .. Len(s) : i = Len(s) \/ i \in 1 .. Len(s) - 1
    BY <1>1, <1>n
  <2>4. Owes(s) \ D \subseteq Owes(t)
    BY <1>1, <1>4, <2>2, <2>3, <2>5, <2>6 DEF Owes
  <2> QED
    BY <2>4 DEF t
<1> QED
  BY <1>1, <1>2, <1>3, <1>4

(* What process_start and the end of exit_process do to the list *)
LEMMA StartListed ==
  ASSUME TypeOK, ListOK, NEW p \in Procs, Start(p)
  PROVE  p \notin Listed /\ Listed' = Listed \cup {p}
<1>1. /\ next \in [Procs -> ProcOrNull] /\ process_list \in ProcOrNull
      /\ p \notin ReachBy(next, process_list)
      /\ next' = [next EXCEPT ![p] = process_list] /\ process_list' = p
  BY DEF TypeOK, Start, Started, Listed, Reach
<1>2. /\ ReachBy(next', p) = ReachBy(next, process_list) \cup {p}
      /\ \A c \in ProcOrNull :
           ReachBy(next, process_list) \cap ReachBy(next, c) \subseteq ReachBy(next', c)
      /\ Acyclic(next') /\ OnePredecessor(next', p) /\ NoneBefore(next', p)
  BY ZenonT(60), <1>1, LinkFacts DEF ListOK
<1> QED
  BY <1>1, <1>2 DEF Listed, Reach

LEMMA UnlinkListed ==
  ASSUME TypeOK, ListOK, ExitUnlink
  PROVE  /\ Top.p \in Procs /\ Listed' = Listed \ {Top.p}
         /\ next'[Top.p] = next[Top.p] /\ next[Top.p] # Top.p
<1> DEFINE p == Top.p
<1>1. stack # << >> /\ p \in Procs
  BY StackTyped DEF ExitUnlink, Running, GoodFrame, FrameOK
<1> HIDE DEF p
<1>2. /\ next \in [Procs -> ProcOrNull] /\ process_list \in ProcOrNull
      /\ \/ p = process_list /\ process_list' = next[p] /\ next' = next
         \/ /\ p # process_list /\ process_list' = process_list
            /\ next' = [q \in Procs |-> IF q \in ReachBy(next, process_list) /\ next[q] = p
                                          THEN next[p] ELSE next[q]]
  BY DEF TypeOK, ExitUnlink, Unlink, Bypass, Listed, Reach, p
<1>3. Acyclic(next) /\ OnePredecessor(next, process_list) /\ NoneBefore(next, process_list)
  BY DEF ListOK
<1>4. ReachBy(next', process_list') = ReachBy(next, process_list) \ {p} /\ next'[p] = next[p]
  BY <1>1, <1>2, <1>3, UnlinkFacts
<1>5. next[p] # p
  <2>1. {p} \in SUBSET Procs /\ {p} # {}
    BY <1>1
  <2> QED
    BY <1>3, <2>1 DEF Acyclic
<1> QED
  BY <1>1, <1>4, <1>5 DEF Listed, Reach, p

(* No poll is lost: a process that was polled is looked at by a poll in    *)
(* progress, or another poll is requested (process_poll against do_poll).  *)
THEOREM PollsKept == Spec => []PollPending
<1> DEFINE Inv == /\ asked \subseteq needspoll /\ asked \subseteq Listed
                  /\ poll_requested \/ asked \subseteq Owes(stack)
<1>1. Init => Inv
  BY DEF Init, process_init
<1>2. TypeOK /\ ListOK /\ WalkComplete /\ Inv /\ [Next]_vars => Inv'
  <2> SUFFICES ASSUME TypeOK, ListOK, WalkComplete, Inv, [Next]_vars
               PROVE  Inv'
    OBVIOUS
  <2>s. stack \in Seq(Frame) /\ Listed \in SUBSET Procs
    BY ListedTyped DEF TypeOK
  <2>t. ASSUME stack # << >>
        PROVE  /\ Top \in Frame /\ FrameOK(Top) /\ Pop \in Seq(Frame)
               /\ \A f \in Frame : SetTop(f) \in Seq(Frame)
               /\ Top.fn # "poll" \/ Top.due = {} => Owes(stack) \subseteq Owes(Pop)
               /\ \A f \in Frame : \A D :
                    (Top.fn = "poll" => f.fn = "poll" /\ Top.due \ D \subseteq f.due)
                      => Owes(stack) \ D \subseteq Owes(SetTop(f))
    <3>1. Top \in Frame /\ FrameOK(Top) /\ Pop \in Seq(Frame)
      BY <2>t, StackTyped DEF GoodFrame, GoodStack
    <3>2. \A f \in Frame : SetTop(f) \in Seq(Frame)
      BY <2>s, <2>t, StackIndices DEF SetTop
    <3>3. Top.fn # "poll" \/ Top.due = {} => Owes(stack) \subseteq Owes(Pop)
      BY <2>s, <2>t, <3>1, OwesOps DEF Top, Pop
    <3>4. ASSUME NEW f \in Frame, NEW D,
                 Top.fn = "poll" => f.fn = "poll" /\ Top.due \ D \subseteq f.due
          PROVE  Owes(stack) \ D \subseteq Owes(SetTop(f))
      BY <2>s, <2>t, <3>4, OwesOps DEF Top, SetTop
    <3> QED
      BY <3>1, <3>2, <3>3, <3>4
  <2>q. ASSUME UNCHANGED <<listVars, pollVars>>, Owes(stack) \subseteq Owes(stack')
        PROVE  Inv'
    BY <2>q DEF listVars, pollVars, Listed, Reach
  <2>1. ASSUME NEW p \in ProcOrNull, NEW ev \in Posted, process_post(p, ev)
        PROVE  Inv'
    BY <2>1, <2>q DEF process_post
  <2>f. [NewFrame("synch", "called") EXCEPT !.old = process_current] \in Frame
    BY GoodFrameFacts DEF TypeOK, GoodFrame
  <2>c. ASSUME NEW p \in Procs, NEW ev \in EventIds, NEW rest \in Seq(Frame),
               Invoke(p, ev, rest) \/ call_process(p, ev, rest)
        PROVE  Owes(rest) \subseteq Owes(stack')
    <3>1. ThreadFrame(p, ev, "called") \in Frame
      BY GoodFrameFacts DEF GoodFrame
    <3>2. stack' = rest \/ stack' = Append(rest, ThreadFrame(p, ev, "called"))
      BY <2>c DEF Invoke, call_process
    <3> QED
      BY <3>1, <3>2, OwesOps
  <2>e. ASSUME NEW p \in Procs, NEW from \in ProcOrNull, NEW rest \in Seq(Frame),
               exit_process(p, from, rest)
        PROVE  Owes(rest) \subseteq Owes(stack')
    <3> DEFINE f == [WalkFrame("exit", "EXITED", Listed \ {p})
                       EXCEPT !.p = p, !.from = from, !.old = process_current]
               g == [f EXCEPT !.pc = "unlink", !.due = {}]
    <3>1. Listed \ {p} \in SUBSET Procs /\ "EXITED" \in EventIds
      BY <2>s DEF EventIds
    <3>2. f \in Frame /\ g \in Frame
      BY <3>1, GoodFrameFacts DEF TypeOK, GoodFrame
    <3>3. stack' = rest \/ stack' = Append(rest, f) \/ stack' = Append(rest, g)
      BY <2>e DEF exit_process
    <3> HIDE DEF f, g
    <3> QED
      BY <3>2, <3>3, OwesOps
  <2>2. ASSUME NEW p \in Procs, NEW ev \in Posted, process_post_synch(p, ev)
        PROVE  Inv'
    <3> DEFINE f == [NewFrame("synch", "called") EXCEPT !.old = process_current]
    <3>1. call_process(p, ev, Append(stack, f)) /\ ev \in EventIds /\ UNCHANGED <<listVars, pollVars>>
      BY <2>2 DEF process_post_synch, Posted, EventIds
    <3> HIDE DEF f
    <3>2. Append(stack, f) \in Seq(Frame) /\ Owes(stack) \subseteq Owes(Append(stack, f))
      BY <2>s, <2>f, OwesOps, StackIndices DEF f
    <3> QED
      BY <3>1, <3>2, <2>c, <2>q
  <2>3. ASSUME NEW p \in Procs, process_start(p) \/ BootStart(p)
        PROVE  Inv'
    <3> DEFINE f == [NewFrame("synch", "called") EXCEPT !.old = process_current]
    <3>1. Start(p) /\ UNCHANGED pollVars
      BY <2>3 DEF process_start, BootStart
    <3>2. Invoke(p, "INIT", Append(stack, f)) /\ "INIT" \in EventIds
      BY <3>1 DEF Start, EventIds
    <3> HIDE DEF f
    <3>3. Append(stack, f) \in Seq(Frame) /\ Owes(stack) \subseteq Owes(Append(stack, f))
      BY <2>s, <2>f, OwesOps, StackIndices DEF f
    <3>4. Owes(stack) \subseteq Owes(stack')
      BY <3>2, <3>3, <2>c
    <3>5. Listed' = Listed \cup {p}
      BY <3>1, StartListed
    <3> QED
      BY <3>1, <3>4, <3>5 DEF pollVars
  <2>4. ASSUME NEW p \in Procs, process_exit(p)
        PROVE  Inv'
    BY <2>4, <2>e, <2>q, <2>s DEF process_exit, TypeOK
  <2>5. ASSUME NEW p \in Polled, process_poll(p)
        PROVE  Inv'
    BY <2>5 DEF process_poll, listVars, Listed, Reach
  <2>6. CASE SynchReturn \/ ThreadYield \/ ThreadExited
    <3>1. stack # << >> /\ Top.fn # "poll" /\ stack' = Pop /\ UNCHANGED <<listVars, pollVars>>
      BY <2>6 DEF SynchReturn, ThreadYield, ThreadExited, Running
    <3> QED
      BY <3>1, <2>t, <2>q
  <2>7. CASE ThreadEnd
    <3>1. /\ stack # << >> /\ Top.fn = "thread" /\ exit_process(Top.p, Top.p, Pop)
          /\ UNCHANGED <<listVars, pollVars>>
      BY <2>7 DEF ThreadEnd, Running
    <3>2. Top.p \in Procs /\ Top.p \in ProcOrNull
      BY <3>1, <2>t DEF FrameOK, ProcOrNull
    <3> QED
      BY <3>1, <3>2, <2>t, <2>e, <2>q
  <2>8. CASE Advance
    <3> DEFINE f == [Top EXCEPT !.pc = "visit", !.q = next[@]]
    <3>1. /\ stack # << >> /\ Top.pc = "advance" /\ stack' = SetTop(f)
          /\ UNCHANGED <<listVars, pollVars>>
      BY <2>8 DEF Advance
    <3>2. Top \in Frame /\ Top.q \in Procs
      BY <3>1, <2>t DEF FrameOK
    <3>3. f \in Frame /\ f.fn = Top.fn /\ f.due = Top.due
      BY <3>2 DEF Frame, TypeOK
    <3> HIDE DEF f
    <3>4. Owes(stack) \ {} \subseteq Owes(SetTop(f))
      BY <3>1, <3>3, <2>t
    <3> QED
      BY <3>1, <3>4, <2>q
  <2>v. ASSUME stack # << >>
        PROVE  /\ Top.q # NULL =>
                    /\ Top.q \in Procs /\ Visited(Top) \in Frame
                    /\ Visited(Top).fn = Top.fn /\ Visited(Top).due = Top.due \ {Top.q}
               /\ \A pc \in {"call", "unlink"} :
                    /\ [Top EXCEPT !.pc = pc] \in Frame
                    /\ [Top EXCEPT !.pc = pc].fn = Top.fn
    BY <2>t, <2>v DEF Visited, Frame, ProcOrNull
  <2>w. ASSUME stack # << >>, Top.fn # "poll", NEW f \in Frame
        PROVE  Owes(stack) \subseteq Owes(SetTop(f)) /\ SetTop(f) \in Seq(Frame)
    <3>1. Owes(stack) \ {} \subseteq Owes(SetTop(f))
      BY <2>t, <2>w
    <3> QED
      BY <3>1, <2>t, <2>w
  <2>9. CASE ExitVisit
    <3>1. /\ stack # << >> /\ Top.fn = "exit" /\ Top.q # NULL /\ UNCHANGED <<listVars, pollVars>>
          /\ stack' = SetTop(Visited(Top)) \/ call_process(Top.q, "EXITED", SetTop(Visited(Top)))
      BY <2>9 DEF ExitVisit, Running
    <3>2. /\ Visited(Top) \in Frame /\ Top.q \in Procs /\ "EXITED" \in EventIds
      BY <3>1, <2>v DEF EventIds
    <3>3. Owes(stack) \subseteq Owes(SetTop(Visited(Top))) /\ SetTop(Visited(Top)) \in Seq(Frame)
      BY <3>1, <3>2, <2>w
    <3> QED
      BY <3>1, <3>2, <3>3, <2>c, <2>q
  <2>10. CASE EventVisit
    <3>1. /\ stack # << >> /\ Top.fn = "event" /\ Top.pc = "call" /\ UNCHANGED <<listVars, pollVars>>
          /\ call_process(Top.q, Top.ev, SetTop(Visited(Top)))
      BY <2>10 DEF EventVisit, Running
    <3>2. Top.q \in Procs /\ Top.q # NULL /\ Top.ev \in EventIds
      BY <3>1, <2>t, NullAssumption DEF FrameOK, Frame
    <3>3. Visited(Top) \in Frame
      BY <3>1, <3>2, <2>v
    <3>4. Owes(stack) \subseteq Owes(SetTop(Visited(Top))) /\ SetTop(Visited(Top)) \in Seq(Frame)
      BY <3>1, <3>3, <2>w
    <3> QED
      BY <3>1, <3>2, <3>4, <2>c, <2>q
  <2>11. CASE ExitThread
    <3> DEFINE f == [Top EXCEPT !.pc = "unlink"]
               g == ThreadFrame(Top.p, "EXIT", "exiting")
    <3>1. /\ stack # << >> /\ Top.fn = "exit" /\ UNCHANGED <<listVars, pollVars>>
          /\ stack' = SetTop(f) \/ stack' = Append(SetTop(f), g)
      BY <2>11 DEF ExitThread, Running
    <3>2. f \in Frame /\ Top.p \in Procs
      BY <3>1, <2>t, <2>v DEF FrameOK
    <3>3. g \in Frame
      BY <3>2, GoodFrameFacts DEF GoodFrame, EventIds
    <3> HIDE DEF f, g
    <3>4. Owes(stack) \subseteq Owes(SetTop(f)) /\ SetTop(f) \in Seq(Frame)
      BY <3>1, <3>2, <2>w
    <3>5. Owes(SetTop(f)) \subseteq Owes(Append(SetTop(f), g))
      BY <3>3, <3>4, OwesOps
    <3> QED
      BY <3>1, <3>4, <3>5, <2>q
  <2>12. CASE ExitUnlink
    <3>1. /\ stack # << >> /\ Top.fn = "exit" /\ asked' = asked \ {Top.p}
          /\ UNCHANGED <<needspoll, poll_requested>>
          /\ stack' = [i \in 1 .. Len(stack) - 1 |-> [stack[i] EXCEPT !.due = @ \ {Top.p}]]
      BY <2>12 DEF ExitUnlink, Running
    <3>2. Listed' = Listed \ {Top.p}
      BY <2>12, UnlinkListed
    <3>3. Owes(stack) \subseteq Owes(Pop)
      BY <3>1, <2>t
    <3>4. /\ Len(stack) \in Nat /\ DOMAIN Pop = 1 .. Len(stack) - 1
          /\ \A i \in 1 .. Len(stack) - 1 : Pop[i] = stack[i] /\ stack[i] \in Frame
      BY <2>s, <2>t, <3>1, StackIndices DEF Pop
    <3>5. /\ DOMAIN stack' = 1 .. Len(stack) - 1
          /\ \A i \in 1 .. Len(stack) - 1 :
               stack'[i].fn = Pop[i].fn /\ stack'[i].due = Pop[i].due \ {Top.p}
      BY <3>1, <3>4 DEF Frame
    <3>6. Owes(Pop) \ {Top.p} \subseteq Owes(stack')
      BY <3>4, <3>5 DEF Owes
    <3> QED
      BY <3>1, <3>2, <3>3, <3>6
  <2>p. ASSUME NEW rest \in Seq(Frame), do_poll(rest)
        PROVE  Listed \subseteq Owes(stack')
    <3> DEFINE g == WalkFrame("poll", "POLL", Listed)
    <3>1. g \in Frame /\ g.fn = "poll" /\ g.due = Listed
      BY GoodFrameFacts, <2>s DEF GoodFrame, TypeOK, EventIds, WalkFrame, NewFrame
    <3>2. stack' = Append(rest, g)
      BY <2>p DEF do_poll
    <3> HIDE DEF g
    <3> QED
      BY <3>1, <3>2, OwesOps
  <2>13. CASE PollVisit
    <3>1. /\ stack # << >> /\ Top.fn = "poll" /\ Top.q # NULL
          /\ needspoll' = needspoll \ {Top.q} /\ asked' = asked \ {Top.q}
          /\ UNCHANGED <<listVars, poll_requested>>
          /\ stack' = SetTop(Visited(Top)) \/ Invoke(Top.q, "POLL", SetTop(Visited(Top)))
      BY <2>13 DEF PollVisit, Running
    <3>2. /\ Visited(Top) \in Frame /\ Top.q \in Procs /\ "POLL" \in EventIds
          /\ Visited(Top).fn = "poll" /\ Visited(Top).due = Top.due \ {Top.q}
      BY <3>1, <2>v DEF EventIds
    <3>3. Owes(stack) \ {Top.q} \subseteq Owes(SetTop(Visited(Top))) /\ SetTop(Visited(Top)) \in Seq(Frame)
      BY <3>1, <3>2, <2>t
    <3>4. Owes(stack) \ {Top.q} \subseteq Owes(stack')
      BY <3>1, <3>2, <3>3, <2>c
    <3> QED
      BY <3>1, <3>4 DEF listVars, Listed, Reach
  <2>14. CASE EventTake
    <3>1. stack # << >> /\ Top.fn = "event" /\ UNCHANGED <<listVars, pollVars>>
      BY <2>14 DEF EventTake, Running
    <3>2. Owes(stack) \subseteq Owes(Pop) /\ Pop \in Seq(Frame)
      BY <3>1, <2>t
    <3>3. CASE events = << >>
      BY <2>14, <3>1, <3>2, <3>3, <2>q DEF EventTake
    <3>4. CASE events # << >>
      <4>1. Head(events) \in [p : ProcOrNull, ev : EventIds]
        <5>1. events \in Seq([p : ProcOrNull, ev : EventIds])
          BY DEF TypeOK
        <5> QED
          BY <3>4, <5>1, HeadTailProperties
      <4>2. CASE Head(events).p = NULL
        <5> DEFINE f == WalkFrame("event", Head(events).ev, Listed)
        <5>1. f \in Frame
          BY <4>1, <2>s, GoodFrameFacts DEF GoodFrame, TypeOK
        <5>2. stack' = SetTop(f)
          BY <2>14, <3>4, <4>2 DEF EventTake
        <5> HIDE DEF f
        <5> QED
          BY <3>1, <5>1, <5>2, <2>w, <2>q
      <4>3. CASE Head(events).p # NULL
        <5>1. Head(events).p \in Procs /\ Head(events).ev \in EventIds
          BY <4>1, <4>3 DEF ProcOrNull
        <5>2. \/ Invoke(Head(events).p, Head(events).ev, Pop)
              \/ call_process(Head(events).p, Head(events).ev, Pop)
          BY <2>14, <3>4, <4>3 DEF EventTake
        <5>3. Owes(Pop) \subseteq Owes(stack')
          BY <3>2, <5>1, <5>2, <2>c
        <5> QED
          BY <3>1, <3>2, <5>3, <2>q
      <4> QED
        BY <4>2, <4>3
    <3> QED
      BY <3>3, <3>4
  <2>15. CASE EventPoll
    <3> DEFINE f == [Top EXCEPT !.pc = "call"]
    <3>1. /\ stack # << >> /\ Top.fn = "event" /\ UNCHANGED <<listVars, needspoll, asked>>
          /\ \/ do_poll(SetTop(f))
             \/ stack' = SetTop(f) /\ UNCHANGED poll_requested
      BY <2>15 DEF EventPoll, Running
    <3>2. f \in Frame
      BY <3>1, <2>v
    <3> HIDE DEF f
    <3>3. Owes(stack) \subseteq Owes(SetTop(f)) /\ SetTop(f) \in Seq(Frame)
      BY <3>1, <3>2, <2>w
    <3>4. CASE do_poll(SetTop(f))
      BY <3>1, <3>3, <3>4, <2>p DEF listVars, Listed, Reach
    <3>5. CASE stack' = SetTop(f) /\ UNCHANGED poll_requested
      BY <3>1, <3>3, <3>5 DEF listVars, Listed, Reach
    <3> QED
      BY <3>1, <3>4, <3>5
  <2>16. CASE WalkReturn
    <3>1. /\ stack # << >> /\ Top.pc = "visit" /\ Top.q = NULL /\ stack' = Pop
          /\ UNCHANGED <<listVars, pollVars>>
      BY <2>16 DEF WalkReturn
    <3>2. Len(stack) \in DOMAIN stack
      BY <2>s, <3>1
    <3>3. Top.due \subseteq Reach(NULL)
      BY <3>1, <3>2 DEF WalkComplete, Top
    <3>4. Reach(NULL) = {}
      BY ReachFacts DEF Reach, TypeOK, ProcOrNull
    <3> QED
      BY <3>1, <3>3, <3>4, <2>t, <2>q
  <2>17. CASE process_run
    <3> DEFINE s == << NewFrame("event", "take") >>
    <3>1. /\ stack = << >> /\ UNCHANGED <<listVars, needspoll, asked>>
          /\ \/ do_poll(s)
             \/ stack' = s /\ ~poll_requested /\ poll_requested' = poll_requested
      BY <2>17 DEF process_run, PollsFirst
    <3>2. NewFrame("event", "take") \in Frame
      BY GoodFrameFacts DEF GoodFrame
    <3>3. s \in Seq(Frame)
      <4> HIDE DEF NewFrame, Frame
      <4> QED
        BY <3>2
    <3> HIDE DEF s
    <3>4. Owes(stack) = {}
      BY <3>1 DEF Owes
    <3>5. CASE do_poll(s)
      BY <3>1, <3>3, <3>5, <2>p DEF listVars, Listed, Reach
    <3>6. CASE stack' = s /\ ~poll_requested /\ poll_requested' = poll_requested
      BY <3>1, <3>4, <3>6 DEF listVars, Listed, Reach
    <3> QED
      BY <3>1, <3>5, <3>6
  <2>18. CASE UNCHANGED vars
    BY <2>18, <2>q DEF vars
  <2> QED
    BY <2>1, <2>2, <2>3, <2>4, <2>5, <2>6, <2>7, <2>8, <2>9, <2>10, <2>11, <2>12, <2>13,
       <2>14, <2>15, <2>16, <2>17, <2>18 DEF Next, ThreadCall, ThreadReturn, KernelStep
<1>3. Inv => PollPending
  BY DEF PollPending, Owes
<1> QED
  BY <1>1, <1>2, <1>3, TypeCorrect, ListSound, NoneMissed, PTL DEF Spec

-------------------------------------------------------------------------------
(* A frame that explains why a process p is in a state other than RUNNING: *)
(* call_process has entered its thread, or exit_process is ending it.      *)
Explains(f, p, st) ==
  \/ st = "CALLED" /\ f.fn = "thread" /\ f.pc = "called" /\ f.p = p
  \/ st = "NONE" /\ f.fn = "exit" /\ f.p = p

Explained(s, p, st) == \E i \in DOMAIN s : Explains(s[i], p, st)

\* everything that s explains but the states of q, t explains too
Keeps(s, t, Q) ==
  \A p \in Procs \ Q : \A st \in States : Explained(s, p, st) => Explained(t, p, st)

\* a frame that explains nothing
Silent(f) == f.fn \notin {"thread", "exit"} \/ (f.fn = "thread" /\ f.pc # "called")

(* Pushing, popping and replacing frames: what stays explained *)
LEMMA ExplainedOps ==
  ASSUME NEW s \in Seq(Frame), NEW f \in Frame
  PROVE  /\ Keeps(s, Append(s, f), {})
         /\ \A p \in Procs : \A st \in States :
              Explains(f, p, st) => Explained(Append(s, f), p, st)
         /\ s # << >> =>
              /\ Keeps(s, SubSeq(s, 1, Len(s) - 1), {s[Len(s)].p})
              /\ Silent(s[Len(s)]) => Keeps(s, SubSeq(s, 1, Len(s) - 1), {})
              /\ Silent(s[Len(s)]) \/ (s[Len(s)].fn = "exit" /\ f.fn = "exit" /\ f.p = s[Len(s)].p) =>
                   Keeps(s, [s EXCEPT ![Len(s)] = f], {})
<1>1. /\ Len(s) \in Nat /\ DOMAIN s = 1 .. Len(s) /\ (s = << >> <=> Len(s) = 0)
      /\ \A i \in 1 .. Len(s) : s[i] \in Frame
  BY StackIndices
<1>n. \A k \in Nat : \A i \in 1 .. k : i = k \/ i \in 1 .. k - 1
  OBVIOUS
<1>2. /\ Keeps(s, Append(s, f), {})
      /\ \A p \in Procs : \A st \in States :
           Explains(f, p, st) => Explained(Append(s, f), p, st)
  <2> DEFINE t == Append(s, f)
  <2>1. /\ DOMAIN t = 1 .. Len(s) + 1
        /\ \A i \in 1 .. Len(s) : t[i] = s[i]
        /\ t[Len(s) + 1] = f
    <3>1. t \in Seq(Frame) /\ Len(t) = Len(s) + 1
      BY StackIndices
    <3> QED
      BY <3>1, StackIndices
  <2>2. Len(s) + 1 \in DOMAIN t /\ \A i \in DOMAIN s : i \in DOMAIN t /\ t[i] = s[i]
    BY <1>1, <2>1
  <2> HIDE DEF t
  <2> QED
    BY <2>1, <2>2, Zenon DEF t, Keeps, Explained
<1>3. ASSUME s # << >>
      PROVE  LET t == SubSeq(s, 1, Len(s) - 1) IN
             /\ Keeps(s, t, {s[Len(s)].p})
             /\ Silent(s[Len(s)]) => Keeps(s, t, {})
  <2> DEFINE t == SubSeq(s, 1, Len(s) - 1)
  <2>1. t \in Seq(Frame) /\ Len(t) = Len(s) - 1
    BY <1>3, StackIndices
  <2>2. DOMAIN t = 1 .. Len(s) - 1 /\ \A i \in 1 .. Len(s) - 1 : t[i] = s[i]
    BY <1>3, <2>1, StackIndices
  <2> HIDE DEF t
  <2>3. \A i \in DOMAIN s : i = Len(s) \/ (i \in DOMAIN t /\ t[i] = s[i])
    BY <1>1, <1>n, <2>2
  <2>4. Keeps(s, t, {s[Len(s)].p})
    BY <2>3 DEF Keeps, Explained, Explains
  <2>5. ASSUME Silent(s[Len(s)])
        PROVE  Keeps(s, t, {})
    BY <2>3, <2>5 DEF Keeps, Explained, Explains, Silent
  <2> QED
    BY <2>4, <2>5 DEF t
<1>4. ASSUME s # << >>,
             Silent(s[Len(s)]) \/ (s[Len(s)].fn = "exit" /\ f.fn = "exit" /\ f.p = s[Len(s)].p)
      PROVE  Keeps(s, [s EXCEPT ![Len(s)] = f], {})
  <2> DEFINE t == [s EXCEPT ![Len(s)] = f]
  <2>1. t \in Seq(Frame) /\ Len(t) = Len(s)
    BY <1>4, StackIndices
  <2>2. (\A i \in 1 .. Len(s) - 1 : t[i] = s[i]) /\ t[Len(s)] = f
    BY <1>4, StackIndices
  <2> HIDE DEF t
  <2>3. \A i \in DOMAIN s : i \in DOMAIN t /\ (i = Len(s) \/ t[i] = s[i])
    BY <1>1, <1>n, <2>1, <2>2, StackIndices
  <2>4. \A p \in Procs : \A st \in States :
          Explains(s[Len(s)], p, st) => Explains(t[Len(s)], p, st)
    BY <1>4, <2>2 DEF Explains, Silent
  <2>5. Keeps(s, t, {})
    BY <2>3, <2>4, Zenon DEF Keeps, Explained
  <2> QED
    BY <2>5 DEF t
<1> QED
  BY <1>2, <1>3, <1>4

(* process_init leaves no process deaf, and no step does: whoever sets a   *)
(* state other than RUNNING puts the frame on the stack that explains it,  *)
(* and whoever takes that frame off sets RUNNING or unlinks the process.   *)
THEOREM NotDeaf == Spec => []NoneDeaf
<1> DEFINE Fine(L, st, s) == \A p \in L : st[p] = "RUNNING" \/ Explained(s, p, st[p])
           Inv == Fine(Listed, state, stack)
<1>1. Init => Inv
  <2>1. Init => Listed = {}
    <3>1. ASSUME Init
          PROVE  Reach(NULL) = {} /\ process_list = NULL
      BY <3>1, ReachFacts DEF Init, process_init, Reach, ProcOrNull
    <3> QED
      BY <3>1 DEF Listed
  <2> QED
    BY <2>1
<1>2. TypeOK /\ ListOK /\ Inv /\ [Next]_vars => Inv'
  <2> SUFFICES ASSUME TypeOK, ListOK, Inv, [Next]_vars
               PROVE  Inv'
    OBVIOUS
  <2>s. stack \in Seq(Frame) /\ Listed \in SUBSET Procs /\ state \in [Procs -> States]
    BY ListedTyped DEF TypeOK
  <2>t. ASSUME stack # << >>
        PROVE  /\ Top \in Frame /\ FrameOK(Top) /\ Pop \in Seq(Frame)
               /\ \A f \in Frame : SetTop(f) \in Seq(Frame)
               /\ Keeps(stack, Pop, {Top.p})
               /\ Silent(Top) => Keeps(stack, Pop, {})
               /\ \A f \in Frame :
                    Silent(Top) \/ (Top.fn = "exit" /\ f.fn = "exit" /\ f.p = Top.p) =>
                      Keeps(stack, SetTop(f), {})
    <3>1. Top \in Frame /\ FrameOK(Top) /\ Pop \in Seq(Frame)
      BY <2>t, StackTyped DEF GoodFrame, GoodStack
    <3>2. \A f \in Frame : SetTop(f) \in Seq(Frame)
      BY <2>s, <2>t, StackIndices DEF SetTop
    <3>3. Keeps(stack, Pop, {Top.p}) /\ (Silent(Top) => Keeps(stack, Pop, {}))
      BY <2>s, <2>t, <3>1, ExplainedOps DEF Top, Pop
    <3>4. ASSUME NEW f \in Frame,
                 Silent(Top) \/ (Top.fn = "exit" /\ f.fn = "exit" /\ f.p = Top.p)
          PROVE  Keeps(stack, SetTop(f), {})
      BY <2>s, <2>t, <3>4, ExplainedOps DEF Top, SetTop
    <3> QED
      BY <3>1, <3>2, <3>3, <3>4
  <2>q. ASSUME UNCHANGED <<listVars, state>>, Keeps(stack, stack', {})
        PROVE  Inv'
    <3>1. Listed' = Listed
      BY <2>q DEF listVars, Listed, Reach
    <3> QED
      BY <2>q, <2>s, <3>1 DEF Keeps
  <2>i. Keeps(stack, stack, {})
    BY DEF Keeps
  <2>f. [NewFrame("synch", "called") EXCEPT !.old = process_current] \in Frame
    BY GoodFrameFacts DEF TypeOK, GoodFrame
  <2>c. ASSUME NEW p \in Procs, NEW ev \in EventIds, NEW rest \in Seq(Frame),
               Keeps(stack, rest, {}),
               \/ Invoke(p, ev, rest) /\ Listed' \subseteq Listed \cup {p}
               \/ call_process(p, ev, rest) /\ UNCHANGED listVars
        PROVE  Inv'
    <3>1. CASE stack' = rest /\ UNCHANGED <<state, listVars>>
      BY <2>c, <2>q, <3>1
    <3>2. CASE Invoke(p, ev, rest) /\ Listed' \subseteq Listed \cup {p}
      <4> DEFINE f == ThreadFrame(p, ev, "called")
      <4>1. f \in Frame
        BY GoodFrameFacts DEF GoodFrame
      <4>2. stack' = Append(rest, f) /\ state' = [state EXCEPT ![p] = "CALLED"]
        BY <3>2 DEF Invoke
      <4>3. Explains(f, p, "CALLED")
        BY DEF Explains, ThreadFrame, NewFrame
      <4> HIDE DEF f
      <4>4. Explained(stack', p, "CALLED") /\ Keeps(rest, stack', {}) /\ "CALLED" \in States
        BY <4>1, <4>2, <4>3, ExplainedOps DEF States
      <4>5. state'[p] = "CALLED" /\ \A q \in Procs \ {p} : state'[q] = state[q]
        BY <2>s, <4>2
      <4>6. ASSUME NEW q \in Listed'
            PROVE  state'[q] = "RUNNING" \/ Explained(stack', q, state'[q])
        <5>1. CASE q = p
          BY <4>4, <4>5, <5>1
        <5>2. CASE q # p
          <6>1. q \in Listed /\ q \in Procs /\ state'[q] = state[q] /\ state[q] \in States
            BY <2>s, <3>2, <4>5, <5>2
          <6> QED
            BY <2>c, <4>4, <6>1 DEF Keeps
        <5> QED
          BY <5>1, <5>2
      <4> QED
        BY <4>6
    <3>3. UNCHANGED listVars => Listed' \subseteq Listed \cup {p}
      BY DEF listVars, Listed, Reach
    <3> QED
      BY <2>c, <3>1, <3>2, <3>3 DEF call_process
  <2>e. ASSUME NEW p \in Procs, NEW from \in ProcOrNull, NEW rest \in Seq(Frame),
               Keeps(stack, rest, {p}), exit_process(p, from, rest), UNCHANGED listVars
        PROVE  Inv'
    <3> DEFINE f == [WalkFrame("exit", "EXITED", Listed \ {p})
                       EXCEPT !.p = p, !.from = from, !.old = process_current]
               g == [f EXCEPT !.pc = "unlink", !.due = {}]
    <3>1. Listed \ {p} \in SUBSET Procs /\ "EXITED" \in EventIds
      BY <2>s DEF EventIds
    <3>2. f \in Frame /\ g \in Frame
      BY <3>1, GoodFrameFacts DEF TypeOK, GoodFrame
    <3>3. Explains(f, p, "NONE") /\ Explains(g, p, "NONE") /\ "NONE" \in States
      BY DEF Explains, WalkFrame, NewFrame, States
    <3>4. \/ p \notin Listed /\ stack' = rest /\ state' = state
          \/ stack' = Append(rest, f) /\ state' = [state EXCEPT ![p] = "NONE"]
          \/ stack' = Append(rest, g) /\ state' = state /\ state[p] = "NONE"
      BY <2>e DEF exit_process
    <3>5. Listed' = Listed
      BY <2>e DEF listVars, Listed, Reach
    <3> HIDE DEF f, g
    <3>6. Keeps(rest, stack', {})
      <4>1. Keeps(rest, rest, {})
        BY DEF Keeps
      <4> QED
        BY <3>2, <3>4, <4>1, ExplainedOps
    <3>7. p \in Listed => state'[p] = "NONE" /\ Explained(stack', p, "NONE")
      <4>1. Explained(Append(rest, f), p, "NONE") /\ Explained(Append(rest, g), p, "NONE")
        BY <3>2, <3>3, ExplainedOps
      <4>2. p \in Listed => stack' = Append(rest, f) \/ stack' = Append(rest, g)
        BY <3>4
      <4>3. p \in Listed => state'[p] = "NONE"
        BY <2>s, <3>4
      <4> QED
        BY <4>1, <4>2, <4>3, Zenon
    <3>8. \A q \in Procs \ {p} : state'[q] = state[q]
      BY <2>s, <3>4
    <3>9. ASSUME NEW q \in Listed
          PROVE  state'[q] = "RUNNING" \/ Explained(stack', q, state'[q])
      <4>1. CASE q = p
        BY <3>7, <4>1
      <4>2. CASE q # p
        <5>1. q \in Procs \ {p} /\ state'[q] = state[q] /\ state[q] \in States
          BY <2>s, <3>8, <4>2
        <5> QED
          BY <2>e, <3>6, <5>1 DEF Keeps
      <4> QED
        BY <4>1, <4>2
    <3> QED
      BY <3>5, <3>9
  <2>1. ASSUME NEW p \in ProcOrNull, NEW ev \in Posted, process_post(p, ev)
        PROVE  Inv'
    BY <2>1, <2>q, <2>i DEF process_post
  <2>y. Append(stack, [NewFrame("synch", "called") EXCEPT !.old = process_current]) \in Seq(Frame)
        /\ Keeps(stack, Append(stack, [NewFrame("synch", "called") EXCEPT !.old = process_current]), {})
    <3> DEFINE f == [NewFrame("synch", "called") EXCEPT !.old = process_current]
    <3>1. f \in Frame
      BY <2>f
    <3> HIDE DEF f
    <3>2. Append(stack, f) \in Seq(Frame) /\ Keeps(stack, Append(stack, f), {})
      BY <2>s, <3>1, ExplainedOps, StackIndices
    <3> QED
      BY <3>2 DEF f
  <2>2. ASSUME NEW p \in Procs, NEW ev \in Posted, process_post_synch(p, ev)
        PROVE  Inv'
    <3> DEFINE s == Append(stack, [NewFrame("synch", "called") EXCEPT !.old = process_current])
    <3>1. call_process(p, ev, s) /\ ev \in EventIds /\ UNCHANGED listVars
      BY <2>2 DEF process_post_synch, Posted, EventIds
    <3>2. s \in Seq(Frame) /\ Keeps(stack, s, {})
      BY <2>y
    <3> HIDE DEF s
    <3> QED
      BY <3>1, <3>2, <2>c
  <2>3. ASSUME NEW p \in Procs, process_start(p) \/ BootStart(p)
        PROVE  Inv'
    <3> DEFINE s == Append(stack, [NewFrame("synch", "called") EXCEPT !.old = process_current])
    <3>1. Start(p)
      BY <2>3 DEF process_start, BootStart
    <3>2. Invoke(p, "INIT", s) /\ "INIT" \in EventIds
      BY <3>1 DEF Start, EventIds
    <3>3. s \in Seq(Frame) /\ Keeps(stack, s, {})
      BY <2>y
    <3>4. Listed' = Listed \cup {p}
      BY <3>1, StartListed
    <3> HIDE DEF s
    <3> QED
      BY <3>2, <3>3, <3>4, <2>c
  <2>4. ASSUME NEW p \in Procs, process_exit(p)
        PROVE  Inv'
    <3>1. exit_process(p, process_current, stack) /\ UNCHANGED listVars
      BY <2>4 DEF process_exit
    <3>2. process_current \in ProcOrNull /\ Keeps(stack, stack, {p})
      BY DEF TypeOK, Keeps
    <3> QED
      BY <3>1, <3>2, <2>e, <2>s
  <2>5. ASSUME NEW p \in Polled, process_poll(p)
        PROVE  Inv'
    BY <2>5, <2>q, <2>i DEF process_poll
  <2>6. CASE SynchReturn \/ ThreadExited
    <3>1. /\ stack # << >> /\ stack' = Pop /\ UNCHANGED <<listVars, state>>
          /\ Silent(Top)
      BY <2>6 DEF SynchReturn, ThreadExited, Running, Silent
    <3> QED
      BY <3>1, <2>t, <2>q
  <2>y1. CASE ThreadYield
    <3>1. /\ stack # << >> /\ Top.fn = "thread" /\ stack' = Pop /\ UNCHANGED listVars
          /\ state' = [state EXCEPT ![Top.p] = "RUNNING"]
      BY <2>y1 DEF ThreadYield, Running, BackToRunning
    <3>2. Top.p \in Procs /\ Keeps(stack, stack', {Top.p})
      BY <3>1, <2>t DEF FrameOK
    <3>3. Listed' = Listed
      BY <3>1 DEF listVars, Listed, Reach
    <3>4. state'[Top.p] = "RUNNING" /\ \A q \in Procs \ {Top.p} : state'[q] = state[q]
      BY <2>s, <3>1, <3>2
    <3>5. ASSUME NEW q \in Listed, q # Top.p
          PROVE  state'[q] = "RUNNING" \/ Explained(stack', q, state'[q])
      <4>1. q \in Procs \ {Top.p} /\ state'[q] = state[q] /\ state[q] \in States
        BY <2>s, <3>4, <3>5
      <4> QED
        BY <3>2, <4>1 DEF Keeps
    <3> QED
      BY <3>3, <3>4, <3>5
  <2>7. CASE ThreadEnd
    <3>1. /\ stack # << >> /\ Top.fn = "thread" /\ exit_process(Top.p, Top.p, Pop)
          /\ UNCHANGED listVars
      BY <2>7 DEF ThreadEnd, Running
    <3>2. Top.p \in Procs /\ Top.p \in ProcOrNull
      BY <3>1, <2>t DEF FrameOK, ProcOrNull
    <3> QED
      BY <3>1, <3>2, <2>t, <2>e
  <2>v. ASSUME stack # << >>
        PROVE  /\ Top.q # NULL =>
                    /\ Top.q \in Procs /\ Visited(Top) \in Frame
                    /\ Visited(Top).fn = Top.fn /\ Visited(Top).p = Top.p
               /\ \A pc \in {"call", "unlink"} :
                    /\ [Top EXCEPT !.pc = pc] \in Frame
                    /\ [Top EXCEPT !.pc = pc].fn = Top.fn
                    /\ [Top EXCEPT !.pc = pc].p = Top.p
    BY <2>t, <2>v DEF Visited, Frame, ProcOrNull
  <2>w. ASSUME stack # << >>, NEW f \in Frame,
               Silent(Top) \/ (Top.fn = "exit" /\ f.fn = "exit" /\ f.p = Top.p)
        PROVE  Keeps(stack, SetTop(f), {}) /\ SetTop(f) \in Seq(Frame)
    BY <2>t, <2>w
  <2>8. CASE Advance
    <3> DEFINE f == [Top EXCEPT !.pc = "visit", !.q = next[@]]
    <3>1. /\ stack # << >> /\ Top.pc = "advance" /\ stack' = SetTop(f)
          /\ UNCHANGED <<listVars, state>>
      BY <2>8 DEF Advance
    <3>2. Top \in Frame /\ Top.q \in Procs
      BY <3>1, <2>t DEF FrameOK
    <3>3. f \in Frame /\ f.fn = Top.fn /\ f.p = Top.p
      BY <3>2 DEF Frame, TypeOK
    <3>4. Silent(Top) \/ Top.fn = "exit"
      BY <3>1 DEF Silent
    <3> HIDE DEF f
    <3> QED
      BY <3>1, <3>3, <3>4, <2>w, <2>q
  <2>9. CASE ExitVisit
    <3>1. /\ stack # << >> /\ Top.fn = "exit" /\ Top.q # NULL /\ UNCHANGED listVars
          /\ \/ stack' = SetTop(Visited(Top)) /\ UNCHANGED state
             \/ call_process(Top.q, "EXITED", SetTop(Visited(Top)))
      BY <2>9 DEF ExitVisit, Running
    <3>2. /\ Visited(Top) \in Frame /\ Top.q \in Procs /\ "EXITED" \in EventIds
          /\ Visited(Top).fn = "exit" /\ Visited(Top).p = Top.p
      BY <3>1, <2>v DEF EventIds
    <3>3. Keeps(stack, SetTop(Visited(Top)), {}) /\ SetTop(Visited(Top)) \in Seq(Frame)
      BY <3>1, <3>2, <2>w
    <3> QED
      BY <3>1, <3>2, <3>3, <2>c, <2>q
  <2>10. CASE EventVisit
    <3>1. /\ stack # << >> /\ Top.fn = "event" /\ Top.pc = "call" /\ UNCHANGED listVars
          /\ call_process(Top.q, Top.ev, SetTop(Visited(Top)))
      BY <2>10 DEF EventVisit, Running
    <3>2. Top.q \in Procs /\ Top.q # NULL /\ Top.ev \in EventIds
      BY <3>1, <2>t, NullAssumption DEF FrameOK, Frame
    <3>3. Visited(Top) \in Frame /\ Silent(Top)
      BY <3>1, <3>2, <2>v DEF Silent
    <3>4. Keeps(stack, SetTop(Visited(Top)), {}) /\ SetTop(Visited(Top)) \in Seq(Frame)
      BY <3>1, <3>3, <2>w
    <3> QED
      BY <3>1, <3>2, <3>4, <2>c
  <2>11. CASE ExitThread
    <3> DEFINE f == [Top EXCEPT !.pc = "unlink"]
               g == ThreadFrame(Top.p, "EXIT", "exiting")
    <3>1. /\ stack # << >> /\ Top.fn = "exit" /\ UNCHANGED <<listVars, state>>
          /\ stack' = SetTop(f) \/ stack' = Append(SetTop(f), g)
      BY <2>11 DEF ExitThread, Running
    <3>2. f \in Frame /\ f.fn = "exit" /\ f.p = Top.p /\ Top.p \in Procs
      BY <3>1, <2>t, <2>v DEF FrameOK
    <3>3. g \in Frame
      BY <3>2, GoodFrameFacts DEF GoodFrame, EventIds
    <3> HIDE DEF f, g
    <3>4. Keeps(stack, SetTop(f), {}) /\ SetTop(f) \in Seq(Frame)
      BY <3>1, <3>2, <2>w
    <3>5. Keeps(SetTop(f), Append(SetTop(f), g), {})
      BY <3>3, <3>4, ExplainedOps
    <3>6. Keeps(stack, stack', {})
      BY <3>1, <3>4, <3>5 DEF Keeps
    <3> QED
      BY <3>1, <3>6, <2>q
  <2>12. CASE ExitUnlink
    <3>1. /\ stack # << >> /\ UNCHANGED state
          /\ stack' = [i \in 1 .. Len(stack) - 1 |-> [stack[i] EXCEPT !.due = @ \ {Top.p}]]
      BY <2>12 DEF ExitUnlink, Running
    <3>2. Listed' = Listed \ {Top.p}
      BY <2>12, UnlinkListed
    <3>3. Keeps(stack, Pop, {Top.p})
      BY <3>1, <2>t
    <3>4. /\ Len(stack) \in Nat /\ DOMAIN Pop = 1 .. Len(stack) - 1
          /\ \A i \in 1 .. Len(stack) - 1 : Pop[i] = stack[i] /\ stack[i] \in Frame
      BY <2>s, <2>t, <3>1, StackIndices DEF Pop
    <3>5. /\ DOMAIN stack' = 1 .. Len(stack) - 1
          /\ \A i \in 1 .. Len(stack) - 1 :
               /\ stack'[i].fn = Pop[i].fn /\ stack'[i].p = Pop[i].p
               /\ stack'[i].pc = Pop[i].pc
      BY <3>1, <3>4 DEF Frame
    <3>6. Keeps(Pop, stack', {})
      BY <3>4, <3>5 DEF Keeps, Explained, Explains
    <3>7. Keeps(stack, stack', {Top.p})
      BY <3>3, <3>6 DEF Keeps
    <3> QED
      BY <2>s, <3>1, <3>2, <3>7 DEF Keeps
  <2>p. ASSUME NEW rest \in Seq(Frame), do_poll(rest), Keeps(stack, rest, {}),
               UNCHANGED <<listVars, state>>
        PROVE  Inv'
    <3> DEFINE g == WalkFrame("poll", "POLL", Listed)
    <3>1. g \in Frame
      BY GoodFrameFacts, <2>s DEF GoodFrame, TypeOK, EventIds
    <3>2. stack' = Append(rest, g)
      BY <2>p DEF do_poll
    <3> HIDE DEF g
    <3>3. Keeps(rest, stack', {})
      BY <3>1, <3>2, ExplainedOps
    <3>4. Keeps(stack, stack', {})
      BY <2>p, <3>3 DEF Keeps
    <3> QED
      BY <2>p, <3>4, <2>q
  <2>13. CASE PollVisit
    <3>1. /\ stack # << >> /\ Top.fn = "poll" /\ Top.q # NULL /\ UNCHANGED listVars
          /\ \/ stack' = SetTop(Visited(Top)) /\ UNCHANGED state
             \/ Invoke(Top.q, "POLL", SetTop(Visited(Top)))
      BY <2>13 DEF PollVisit, Running
    <3>2. /\ Visited(Top) \in Frame /\ Top.q \in Procs /\ "POLL" \in EventIds
          /\ Silent(Top)
      BY <3>1, <2>v DEF EventIds, Silent
    <3>3. Keeps(stack, SetTop(Visited(Top)), {}) /\ SetTop(Visited(Top)) \in Seq(Frame)
      BY <3>1, <3>2, <2>w
    <3>4. Listed' \subseteq Listed \cup {Top.q}
      BY <3>1 DEF listVars, Listed, Reach
    <3> QED
      BY <3>1, <3>2, <3>3, <3>4, <2>c, <2>q
  <2>14. CASE EventTake
    <3>1. /\ stack # << >> /\ Silent(Top) /\ UNCHANGED listVars
      BY <2>14 DEF EventTake, Running, Silent
    <3>2. Keeps(stack, Pop, {}) /\ Pop \in Seq(Frame)
      BY <3>1, <2>t
    <3>3. CASE events = << >>
      BY <2>14, <3>1, <3>2, <3>3, <2>q DEF EventTake
    <3>4. CASE events # << >>
      <4>1. Head(events) \in [p : ProcOrNull, ev : EventIds]
        <5>1. events \in Seq([p : ProcOrNull, ev : EventIds])
          BY DEF TypeOK
        <5> QED
          BY <3>4, <5>1, HeadTailProperties
      <4>2. CASE Head(events).p = NULL
        <5> DEFINE f == WalkFrame("event", Head(events).ev, Listed)
        <5>1. f \in Frame
          BY <4>1, <2>s, GoodFrameFacts DEF GoodFrame, TypeOK
        <5>2. stack' = SetTop(f) /\ UNCHANGED state
          BY <2>14, <3>4, <4>2 DEF EventTake
        <5> HIDE DEF f
        <5> QED
          BY <3>1, <5>1, <5>2, <2>w, <2>q
      <4>3. CASE Head(events).p # NULL
        <5>1. Head(events).p \in Procs /\ Head(events).ev \in EventIds
          BY <4>1, <4>3 DEF ProcOrNull
        <5>2. \/ Invoke(Head(events).p, Head(events).ev, Pop)
              \/ call_process(Head(events).p, Head(events).ev, Pop)
          BY <2>14, <3>4, <4>3 DEF EventTake
        <5>3. Listed' \subseteq Listed \cup {Head(events).p}
          BY <3>1 DEF listVars, Listed, Reach
        <5> QED
          BY <3>1, <3>2, <5>1, <5>2, <5>3, <2>c
      <4> QED
        BY <4>2, <4>3
    <3> QED
      BY <3>3, <3>4
  <2>15. CASE EventPoll
    <3> DEFINE f == [Top EXCEPT !.pc = "call"]
    <3>1. /\ stack # << >> /\ Silent(Top) /\ UNCHANGED <<listVars, state>>
          /\ do_poll(SetTop(f)) \/ stack' = SetTop(f)
      BY <2>15 DEF EventPoll, Running, Silent
    <3>2. f \in Frame
      BY <3>1, <2>v
    <3> HIDE DEF f
    <3>3. Keeps(stack, SetTop(f), {}) /\ SetTop(f) \in Seq(Frame)
      BY <3>1, <3>2, <2>w
    <3> QED
      BY <3>1, <3>3, <2>p, <2>q
  <2>16. CASE WalkReturn
    <3>1. stack # << >> /\ Silent(Top) /\ stack' = Pop /\ UNCHANGED <<listVars, state>>
      BY <2>16 DEF WalkReturn, Silent
    <3> QED
      BY <3>1, <2>t, <2>q
  <2>17. CASE process_run
    <3> DEFINE s == << NewFrame("event", "take") >>
    <3>1. /\ stack = << >> /\ UNCHANGED <<listVars, state>>
          /\ do_poll(s) \/ stack' = s
      BY <2>17 DEF process_run
    <3>2. NewFrame("event", "take") \in Frame
      BY GoodFrameFacts DEF GoodFrame
    <3>3. s \in Seq(Frame)
      <4> HIDE DEF NewFrame, Frame
      <4> QED
        BY <3>2
    <3> HIDE DEF s
    <3>4. Keeps(stack, s, {})
      BY <3>1 DEF Keeps, Explained
    <3> QED
      BY <3>1, <3>3, <3>4, <2>p, <2>q
  <2>18. CASE UNCHANGED vars
    BY <2>18, <2>q, <2>i DEF vars
  <2> QED
    BY <2>1, <2>2, <2>3, <2>4, <2>5, <2>6, <2>y1, <2>7, <2>8, <2>9, <2>10, <2>11, <2>12, <2>13,
       <2>14, <2>15, <2>16, <2>17, <2>18 DEF Next, ThreadCall, ThreadReturn, KernelStep
<1>3. TypeOK /\ Inv => NoneDeaf
  BY DEF NoneDeaf, InCall, ExitUnderWay, Explained, Explains, TypeOK, States
<1> QED
  BY <1>1, <1>2, <1>3, TypeCorrect, ListSound, PTL DEF Spec

-------------------------------------------------------------------------------
(* With ExitCalled FALSE a process is exited only while it waits for an    *)
(* event.  Then at most one frame keeps a process from being called: the   *)
(* thread that call_process has entered, or the exit_process that ends it. *)
Holds(f) == f.fn = "exit" \/ (f.fn = "thread" /\ f.pc = "called")
Kept(f) == IF f.fn = "exit" THEN "NONE" ELSE "CALLED"
Held(s) == {p \in Procs : \E i \in 1 .. Len(s) : Holds(s[i]) /\ s[i].p = p}
Idle(p, L) == IF p \in L THEN "RUNNING" ELSE "NONE"

(* p->state of every process, from the stack and the list L *)
StatesOK(s, st, L) ==
  /\ \A i \in 1 .. Len(s) : Holds(s[i]) => s[i].p \in L /\ st[s[i].p] = Kept(s[i])
  /\ \A i, j \in 1 .. Len(s) : Holds(s[i]) /\ Holds(s[j]) /\ s[i].p = s[j].p => i = j
  /\ \A p \in Procs \ Held(s) : st[p] = Idle(p, L)

(* Frames that differ only in what StatesOK does not look at *)
LEMMA SameStates ==
  ASSUME NEW s \in Seq(Frame), NEW t \in Seq(Frame), Len(t) = Len(s),
         \A i \in 1 .. Len(s) :
           /\ t[i].fn = s[i].fn /\ (Holds(t[i]) <=> Holds(s[i]))
           /\ Holds(s[i]) => t[i].p = s[i].p,
         NEW st, NEW L, StatesOK(s, st, L)
  PROVE  StatesOK(t, st, L)
<1>1. Held(t) = Held(s)
  BY DEF Held
<1> QED
  BY <1>1 DEF StatesOK, Kept

(* A frame on top: another one, or one that takes the process f.p, which   *)
(* may come to the list at the same time.                                  *)
LEMMA PushStates ==
  ASSUME NEW s \in Seq(Frame), NEW f \in Frame, NEW st \in [Procs -> States],
         NEW L \in SUBSET Procs, StatesOK(s, st, L)
  PROVE  /\ ~Holds(f) => StatesOK(Append(s, f), st, L)
         /\ \A M \in SUBSET Procs :
              Holds(f) /\ f.p \in M /\ f.p \notin Held(s) /\ M \ {f.p} = L \ {f.p} =>
                StatesOK(Append(s, f), [st EXCEPT ![f.p] = Kept(f)], M)
<1> DEFINE t == Append(s, f)
           n == Len(s)
<1>1. /\ n \in Nat /\ Len(t) = n + 1 /\ (\A i \in 1 .. n : t[i] = s[i]) /\ t[n + 1] = f
  BY StackIndices
<1>2. \A i \in 1 .. n + 1 : i = n + 1 \/ i \in 1 .. n
  BY <1>1
<1>3. \A i \in 1 .. n : i \in 1 .. n + 1
  BY <1>1
<1>5. n + 1 \in 1 .. n + 1
  BY <1>1
<1>4. \A i \in 1 .. n : s[i] \in Frame
  BY StackIndices
<1> HIDE DEF t, n
<1>6. Held(s) = {p \in Procs : \E i \in 1 .. n : Holds(s[i]) /\ s[i].p = p}
  BY DEF Held, n
<1>7. /\ \A i \in 1 .. n : Holds(s[i]) => s[i].p \in L /\ st[s[i].p] = Kept(s[i])
      /\ \A i, j \in 1 .. n : Holds(s[i]) /\ Holds(s[j]) /\ s[i].p = s[j].p => i = j
      /\ \A p \in Procs \ Held(s) : st[p] = Idle(p, L)
  BY DEF StatesOK, n
<1>8. ASSUME ~Holds(f)
      PROVE  StatesOK(t, st, L)
  <2>1. Held(t) = Held(s)
    BY <1>1, <1>2, <1>3, <1>6, <1>8 DEF Held
  <2> QED
    BY <1>1, <1>2, <1>7, <1>8, <2>1 DEF StatesOK
<1>9. ASSUME NEW M \in SUBSET Procs, Holds(f), f.p \in M, f.p \notin Held(s),
             M \ {f.p} = L \ {f.p}
      PROVE  StatesOK(t, [st EXCEPT ![f.p] = Kept(f)], M)
  <2> DEFINE su == [st EXCEPT ![f.p] = Kept(f)]
  <2>1. Held(t) = Held(s) \cup {f.p}
    BY <1>1, <1>2, <1>3, <1>5, <1>6, <1>9 DEF Held
  <2>2. su[f.p] = Kept(f) /\ \A p \in Procs : p # f.p => su[p] = st[p]
    BY <1>9
  <2> HIDE DEF su
  <2>3. \A i \in 1 .. n : Holds(s[i]) => s[i].p \in Held(s) /\ s[i].p # f.p
    BY <1>6, <1>7, <1>9
  <2>4. \A i \in 1 .. Len(t) : Holds(t[i]) => t[i].p \in M /\ su[t[i].p] = Kept(t[i])
    <3> SUFFICES ASSUME NEW i \in 1 .. Len(t), Holds(t[i])
                 PROVE  t[i].p \in M /\ su[t[i].p] = Kept(t[i])
      OBVIOUS
    <3>1. CASE i = n + 1
      BY <3>1, <1>1, <2>2, <1>9
    <3>2. CASE i \in 1 .. n
      BY <3>2, <1>1, <1>7, <2>2, <2>3, <1>9
    <3> QED
      BY <3>1, <3>2, <1>1, <1>2
  <2>5. \A i, j \in 1 .. Len(t) : Holds(t[i]) /\ Holds(t[j]) /\ t[i].p = t[j].p => i = j
    BY <1>1, <1>2, <1>7, <2>3
  <2>6. \A p \in Procs \ Held(t) : su[p] = Idle(p, M)
    BY <2>1, <2>2, <1>7, <1>9 DEF Idle
  <2> QED
    BY <2>4, <2>5, <2>6 DEF StatesOK, su
<1> QED
  BY <1>8, <1>9 DEF t

(* The top is popped, and the process that it held is free again.          *)
LEMMA PopStates ==
  ASSUME NEW s \in Seq(Frame), s # << >>, NEW st \in [Procs -> States],
         NEW L \in SUBSET Procs, StatesOK(s, st, L),
         \A i \in 1 .. Len(s) : FrameOK(s[i])
  PROVE  LET f == s[Len(s)]
             t == SubSeq(s, 1, Len(s) - 1)
         IN  /\ ~Holds(f) => StatesOK(t, st, L)
             /\ Holds(f) =>
                  /\ f.p \in L /\ f.p \in Procs /\ st[f.p] = Kept(f) /\ f.p \notin Held(t)
                  /\ \A M \in SUBSET Procs : M \ {f.p} = L \ {f.p} =>
                       StatesOK(t, [st EXCEPT ![f.p] = Idle(f.p, M)], M)
<1> DEFINE f == s[Len(s)]
           t == SubSeq(s, 1, Len(s) - 1)
           n == Len(s) - 1
<1>1. /\ n \in Nat /\ Len(s) = n + 1 /\ Len(t) = n /\ \A i \in 1 .. n : t[i] = s[i]
  BY StackIndices
<1> HIDE DEF t, n
<1>2. \A i \in 1 .. n + 1 : i = n + 1 \/ i \in 1 .. n
  BY <1>1
<1>3. \A i \in 1 .. n : i \in 1 .. n + 1 /\ i # n + 1
  BY <1>1
<1>4. n + 1 \in 1 .. n + 1 /\ f = s[n + 1]
  BY <1>1
<1>5. FrameOK(f)
  BY <1>1, <1>4
<1> HIDE DEF f
<1>7. /\ \A i \in 1 .. n + 1 : Holds(s[i]) => s[i].p \in L /\ st[s[i].p] = Kept(s[i])
      /\ \A i, j \in 1 .. n + 1 : Holds(s[i]) /\ Holds(s[j]) /\ s[i].p = s[j].p => i = j
      /\ \A p \in Procs \ Held(s) : st[p] = Idle(p, L)
  BY <1>1 DEF StatesOK
<1>8. ASSUME ~Holds(f)
      PROVE  StatesOK(t, st, L)
  <2>1. Held(t) = Held(s)
    BY <1>1, <1>2, <1>3, <1>4, <1>8 DEF Held
  <2> QED
    BY <1>1, <1>3, <1>7, <1>8, <2>1 DEF StatesOK
<1>9. ASSUME Holds(f)
      PROVE  /\ f.p \in L /\ f.p \in Procs /\ st[f.p] = Kept(f) /\ f.p \notin Held(t)
             /\ \A M \in SUBSET Procs : M \ {f.p} = L \ {f.p} =>
                  StatesOK(t, [st EXCEPT ![f.p] = Idle(f.p, M)], M)
  <2>1. f.p \in L /\ f.p \in Procs /\ st[f.p] = Kept(f)
    BY <1>4, <1>5, <1>7, <1>9 DEF FrameOK, Holds
  <2>2. \A i \in 1 .. n : Holds(s[i]) => s[i].p # f.p
    BY <1>3, <1>4, <1>7, <1>9
  <2>3. Held(t) = {p \in Procs : \E i \in 1 .. n : Holds(s[i]) /\ s[i].p = p}
    BY <1>1 DEF Held
  <2>4. f.p \notin Held(t)
    BY <2>2, <2>3
  <2>5. Held(s) = Held(t) \cup {f.p}
    BY <1>1, <1>2, <1>3, <1>4, <1>9, <2>1, <2>3 DEF Held
  <2>6. ASSUME NEW M \in SUBSET Procs, M \ {f.p} = L \ {f.p}
        PROVE  StatesOK(t, [st EXCEPT ![f.p] = Idle(f.p, M)], M)
    <3> DEFINE su == [st EXCEPT ![f.p] = Idle(f.p, M)]
    <3>1. su[f.p] = Idle(f.p, M) /\ \A p \in Procs : p # f.p => su[p] = st[p]
      BY <2>1
    <3> HIDE DEF su
    <3>2. ASSUME NEW i \in 1 .. n, Holds(s[i])
          PROVE  s[i].p \in M /\ su[s[i].p] = Kept(s[i])
      <4>1. s[i].p \in L /\ s[i].p \in Procs /\ st[s[i].p] = Kept(s[i]) /\ s[i].p # f.p
        BY <3>2, <1>3, <1>7, <2>2
      <4> QED
        BY <4>1, <3>1, <2>6
    <3>3. \A i, j \in 1 .. n : Holds(s[i]) /\ Holds(s[j]) /\ s[i].p = s[j].p => i = j
      BY <1>3, <1>7
    <3>4. \A p \in Procs \ Held(t) : su[p] = Idle(p, M)
      BY <3>1, <2>5, <2>6, <1>7 DEF Idle
    <3> QED
      BY <1>1, <3>2, <3>3, <3>4 DEF StatesOK, su
  <2> QED
    BY <2>1, <2>4, <2>6
<1> QED
  BY <1>8, <1>9 DEF t, f

(* Which frame may be directly above which, and which at the bottom: a     *)
(* call that does not answer call_process is the direct call in            *)
(* exit_process; do_poll is called by do_event or before it, and waits     *)
(* only for the process that it polls.                                     *)
Above(f, g) ==
  /\ g.fn # "event"
  /\ g.fn = "thread" =>
       \/ g.pc = "called"
       \/ g.pc = "exiting" /\ f.fn = "exit" /\ f.p = g.p
  /\ g.fn = "poll" => f.fn = "event"
  /\ f.fn = "poll" => f.pc = "advance" /\ Holds(g) /\ g.p = f.q

Bottom(f) == f.fn # "poll" /\ (f.fn = "thread" => f.pc = "called")

Shape(s) ==
  /\ s # << >> => Bottom(s[1])
  /\ \A i \in 1 .. Len(s) - 1 : Above(s[i], s[i + 1])

(* f may take the place of g *)
Alike(f, g) == f.fn = g.fn /\ f.fn # "thread" /\ (f.fn = "exit" => f.p = g.p)

LEMMA ShapeOps ==
  ASSUME NEW s \in Seq(Frame), Shape(s), NEW f \in Frame
  PROVE  /\ (IF s = << >> THEN Bottom(f) ELSE Above(s[Len(s)], f)) => Shape(Append(s, f))
         /\ s # << >> =>
              LET t == SubSeq(s, 1, Len(s) - 1) IN
              /\ Shape(t)
              /\ t # << >> => Above(t[Len(t)], s[Len(s)])
              /\ Alike(f, s[Len(s)]) => Shape([s EXCEPT ![Len(s)] = f])
              /\ s[Len(s)].fn = "poll" => Held(s) = {}
<1>1. ASSUME IF s = << >> THEN Bottom(f) ELSE Above(s[Len(s)], f)
      PROVE  Shape(Append(s, f))
  <2> DEFINE t == Append(s, f)
  <2>1. /\ Len(s) \in Nat /\ Len(t) = Len(s) + 1
        /\ \A i \in 1 .. Len(s) : t[i] = s[i]
        /\ t[Len(s) + 1] = f /\ (s = << >> <=> Len(s) = 0)
    BY StackIndices
  <2> HIDE DEF t
  <2>2. Bottom(t[1])
    BY <1>1, <2>1 DEF Shape
  <2>3. ASSUME NEW i \in 1 .. Len(t) - 1
        PROVE  Above(t[i], t[i + 1])
    <3>1. CASE i = Len(s)
      BY <1>1, <2>1, <3>1
    <3>2. CASE i # Len(s)
      BY <2>1, <3>2 DEF Shape
    <3> QED
      BY <3>1, <3>2
  <2> QED
    BY <2>2, <2>3 DEF Shape, t
<1>2. ASSUME s # << >>
      PROVE  LET t == SubSeq(s, 1, Len(s) - 1) IN
             /\ Shape(t)
             /\ t # << >> => Above(t[Len(t)], s[Len(s)])
  <2> DEFINE t == SubSeq(s, 1, Len(s) - 1)
  <2>1. /\ Len(s) \in Nat /\ Len(s) > 0 /\ Len(t) = Len(s) - 1 /\ t \in Seq(Frame)
        /\ \A i \in 1 .. Len(s) - 1 : t[i] = s[i]
    BY <1>2, StackIndices
  <2>2. t # << >> => Len(t) > 0
    BY <2>1, StackIndices
  <2> HIDE DEF t
  <2>3. Shape(t)
    BY <1>2, <2>1, <2>2 DEF Shape
  <2>4. t # << >> => Above(t[Len(t)], s[Len(s)])
    BY <2>1, <2>2 DEF Shape
  <2> QED
    BY <2>3, <2>4 DEF t
<1>3. ASSUME s # << >>, Alike(f, s[Len(s)])
      PROVE  Shape([s EXCEPT ![Len(s)] = f])
  <2> DEFINE t == [s EXCEPT ![Len(s)] = f]
  <2>1. /\ Len(s) \in Nat /\ Len(s) > 0 /\ Len(t) = Len(s)
        /\ \A i \in 1 .. Len(s) - 1 : t[i] = s[i]
        /\ t[Len(s)] = f
    BY <1>3, StackIndices
  <2> HIDE DEF t
  <2>2. Bottom(t[1])
    <3>1. Bottom(s[1])
      BY <1>3 DEF Shape
    <3>2. CASE Len(s) = 1
      BY <1>3, <2>1, <3>1, <3>2 DEF Alike, Bottom
    <3>3. CASE Len(s) # 1
      BY <2>1, <3>1, <3>3
    <3> QED
      BY <3>2, <3>3
  <2>3. ASSUME NEW i \in 1 .. Len(t) - 1
        PROVE  Above(t[i], t[i + 1])
    <3>1. Above(s[i], s[i + 1]) /\ t[i] = s[i]
      BY <2>1 DEF Shape
    <3>2. CASE i = Len(s) - 1
      <4>1. t[i + 1] = f /\ Above(s[i], s[Len(s)])
        BY <2>1, <3>1, <3>2
      <4> QED
        BY <3>1, <4>1, <1>3 DEF Above, Alike, Holds
    <3>3. CASE i # Len(s) - 1
      BY <2>1, <3>1, <3>3
    <3> QED
      BY <3>2, <3>3
  <2> QED
    BY <2>2, <2>3 DEF Shape, t
<1>4. ASSUME s # << >>, s[Len(s)].fn = "poll"
      PROVE  Held(s) = {}
  <2>1. Len(s) \in Nat /\ Len(s) > 0
    BY <1>4, StackIndices
  <2>2. Len(s) # 1
    BY <1>4 DEF Shape, Bottom
  <2>3. s[Len(s) - 1].fn = "event"
    <3>1. Len(s) - 1 \in 1 .. Len(s) - 1 /\ Len(s) - 1 + 1 = Len(s)
      <4>1. \A k \in Nat : k > 0 /\ k # 1 => k - 1 \in 1 .. k - 1 /\ k - 1 + 1 = k
        OBVIOUS
      <4> QED
        BY <2>1, <2>2, <4>1, Zenon
    <3> QED
      BY <1>4, <3>1 DEF Shape, Above
  <2>4. Len(s) = 2
    <3> SUFFICES ASSUME Len(s) # 2
                 PROVE  FALSE
      OBVIOUS
    <3>1. Len(s) - 2 \in 1 .. Len(s) - 1 /\ Len(s) - 2 + 1 = Len(s) - 1
      <4>1. \A k \in Nat : k > 0 /\ k # 1 /\ k # 2 =>
                            k - 2 \in 1 .. k - 1 /\ k - 2 + 1 = k - 1
        OBVIOUS
      <4> QED
        BY <2>1, <2>2, <4>1, Zenon
    <3>2. Above(s[Len(s) - 2], s[Len(s) - 1])
      BY <3>1, Zenon DEF Shape
    <3> QED
      BY <2>3, <3>2, Zenon DEF Above
  <2>5. s[1].fn = "event" /\ s[2].fn = "poll"
    BY <1>4, <2>3, <2>4
  <2> QED
    BY <2>4, <2>5 DEF Held, Holds
<1> QED
  BY <1>1, <1>2, <1>3, <1>4

-------------------------------------------------------------------------------
NoPoll(s) == s # << >> => s[Len(s)].fn # "poll"

(* A poll on top of the stack is at a process of the list, or about to go  *)
(* on with one, or at its end.                                             *)
PollAt(s, L, nx) ==
  \/ NoPoll(s)
  \/ s[Len(s)].pc = "visit" /\ s[Len(s)].q \in L \cup {NULL}
  \/ s[Len(s)].pc = "advance" /\ nx[s[Len(s)].q] \in L \cup {NULL}

(* The caller of p: not a poll, or the poll that is at p *)
Awaits(s, p) == NoPoll(s) \/ (s[Len(s)].pc = "advance" /\ s[Len(s)].q = p)

(* The thread of a process that is free is entered. *)
LEMMA InvokeStates ==
  ASSUME TypeOK, NEW p \in Procs, NEW ev \in EventIds, NEW rest \in Seq(Frame),
         StatesOK(rest, state, Listed), Shape(rest), Awaits(rest, p),
         NEW M \in SUBSET Procs, p \in M, p \notin Held(rest), M \ {p} = Listed \ {p},
         Invoke(p, ev, rest)
  PROVE  StatesOK(stack', state', M) /\ Shape(stack') /\ NoPoll(stack')
<1> DEFINE f == ThreadFrame(p, ev, "called")
<1>1. f \in Frame /\ f.fn = "thread" /\ f.p = p /\ f.pc = "called"
  BY GoodFrameFacts DEF GoodFrame, ThreadFrame, NewFrame
<1>2. stack' = Append(rest, f) /\ state' = [state EXCEPT ![p] = "CALLED"]
  BY DEF Invoke
<1>3. state \in [Procs -> States] /\ Listed \in SUBSET Procs
  BY ListedTyped DEF TypeOK
<1> HIDE DEF f
<1>4. Holds(f) /\ Kept(f) = "CALLED"
  BY <1>1 DEF Holds, Kept
<1>5. StatesOK(stack', state', M)
  BY <1>1, <1>2, <1>3, <1>4, PushStates
<1>6. IF rest = << >> THEN Bottom(f) ELSE Above(rest[Len(rest)], f)
  BY <1>1, <1>4 DEF Bottom, Above, Awaits, NoPoll
<1>7. Shape(stack')
  BY <1>1, <1>2, <1>6, ShapeOps
<1>8. Len(stack') = Len(rest) + 1 /\ stack'[Len(rest) + 1] = f
  BY <1>1, <1>2, StackIndices
<1> QED
  BY <1>1, <1>5, <1>7, <1>8 DEF NoPoll

(* A process that is called, or that has the state RUNNING, is free. *)
LEMMA RunningFree ==
  ASSUME TypeOK, NEW rest \in Seq(Frame), NEW st \in [Procs -> States],
         StatesOK(rest, st, Listed), NEW p \in Procs, st[p] = "RUNNING"
  PROVE  p \in Listed /\ p \notin Held(rest)
<1>1. p \notin Held(rest)
  BY DEF Held, StatesOK, Kept
<1> QED
  BY <1>1 DEF StatesOK, Idle

LEMMA CallStates ==
  ASSUME TypeOK, NEW p \in Procs, NEW ev \in EventIds, NEW rest \in Seq(Frame),
         StatesOK(rest, state, Listed), Shape(rest), NoPoll(rest),
         call_process(p, ev, rest)
  PROVE  StatesOK(stack', state', Listed) /\ Shape(stack') /\ NoPoll(stack')
<1>1. CASE state[p] = "RUNNING"
  <2>1. p \in Listed /\ p \notin Held(rest) /\ Listed \in SUBSET Procs /\ Invoke(p, ev, rest)
    BY <1>1, RunningFree, ListedTyped DEF TypeOK, call_process, Callable
  <2> QED
    BY <2>1, InvokeStates DEF Awaits
<1>2. CASE state[p] # "RUNNING"
  BY <1>2 DEF call_process, Callable
<1> QED
  BY <1>1, <1>2

(* exit_process of a listed process that is free once its thread is left   *)
LEMMA ExitStates ==
  ASSUME TypeOK, NEW p \in Procs, NEW from \in ProcOrNull, NEW rest \in Seq(Frame),
         p \in Listed, p \notin Held(rest), state[p] # "NONE",
         StatesOK(rest, [state EXCEPT ![p] = "RUNNING"], Listed),
         Shape(rest), Awaits(rest, p), exit_process(p, from, rest)
  PROVE  StatesOK(stack', state', Listed) /\ Shape(stack') /\ NoPoll(stack')
<1> DEFINE f == [WalkFrame("exit", "EXITED", Listed \ {p})
                   EXCEPT !.p = p, !.from = from, !.old = process_current]
           st == [state EXCEPT ![p] = "RUNNING"]
<1>1. Listed \ {p} \in SUBSET Procs /\ "EXITED" \in EventIds /\ Listed \in SUBSET Procs
  BY ListedTyped DEF EventIds
<1>2. f \in Frame
  BY <1>1, GoodFrameFacts DEF TypeOK, GoodFrame
<1>3. f.fn = "exit" /\ f.p = p
  BY DEF WalkFrame, NewFrame
<1>4. stack' = Append(rest, f) /\ state' = [state EXCEPT ![p] = "NONE"]
  BY DEF exit_process
<1> HIDE DEF f
<1>5. Holds(f) /\ Kept(f) = "NONE"
  BY <1>3 DEF Holds, Kept
<1>6. st \in [Procs -> States] /\ [st EXCEPT ![p] = "NONE"] = state'
  BY <1>4 DEF TypeOK, States
<1>7. StatesOK(rest, st, Listed)
  OBVIOUS
<1>12. state' = [st EXCEPT ![f.p] = Kept(f)]
  BY <1>3, <1>5, <1>6
<1> HIDE DEF st
<1>13. StatesOK(Append(rest, f), [st EXCEPT ![f.p] = Kept(f)], Listed)
  BY <1>1, <1>2, <1>3, <1>5, <1>6, <1>7, PushStates
<1>8. StatesOK(stack', state', Listed)
  BY <1>4, <1>12, <1>13
<1>9. IF rest = << >> THEN Bottom(f) ELSE Above(rest[Len(rest)], f)
  BY <1>3, <1>5 DEF Bottom, Above, Awaits, NoPoll
<1>10. Shape(stack')
  BY <1>2, <1>4, <1>9, ShapeOps
<1>11. Len(stack') = Len(rest) + 1 /\ stack'[Len(rest) + 1] = f
  BY <1>2, <1>4, StackIndices
<1> QED
  BY <1>3, <1>8, <1>10, <1>11 DEF NoPoll

(* A frame that holds no process, on top of a stack without a poll on top  *)
LEMMA PushOther ==
  ASSUME NEW s \in Seq(Frame), NEW f \in Frame, NEW st \in [Procs -> States],
         NEW L \in SUBSET Procs, StatesOK(s, st, L), Shape(s), ~Holds(f), NoPoll(s),
         IF s = << >> THEN Bottom(f) ELSE Above(s[Len(s)], f)
  PROVE  LET t == Append(s, f)
         IN  /\ t \in Seq(Frame) /\ StatesOK(t, st, L) /\ Shape(t)
             /\ t # << >> /\ t[Len(t)] = f
<1> DEFINE t == Append(s, f)
<1>1. StatesOK(t, st, L) /\ Shape(t)
  BY PushStates, ShapeOps
<1>2. t \in Seq(Frame) /\ Len(t) = Len(s) + 1 /\ t[Len(s) + 1] = f /\ Len(s) \in Nat
  BY StackIndices
<1>3. t # << >>
  BY <1>2, StackIndices
<1> QED
  BY <1>1, <1>2, <1>3

(* What replaces the top, and what is below it *)
LEMMA TopStates ==
  ASSUME TypeOK, StatesOK(stack, state, Listed), Shape(stack), stack # << >>
  PROVE  /\ stack \in Seq(Frame) /\ Top \in Frame /\ FrameOK(Top) /\ Pop \in Seq(Frame)
         /\ Top.fn = "thread" => Top.pc \in {"called", "exiting"}
         /\ Top.fn = "event" => Pop = << >>
         /\ Top.fn = "poll" => Held(stack) = {}
         /\ \A f \in Frame : Alike(f, Top) =>
              /\ SetTop(f) \in Seq(Frame) /\ StatesOK(SetTop(f), state, Listed) /\ Shape(SetTop(f))
              /\ SetTop(f) # << >> /\ SetTop(f)[Len(SetTop(f))] = f
         /\ Shape(Pop)
         /\ ~Holds(Top) => StatesOK(Pop, state, Listed) /\ NoPoll(Pop)
         /\ Holds(Top) =>
              /\ Top.p \in Listed /\ Top.p \in Procs /\ state[Top.p] = Kept(Top)
              /\ Top.p \notin Held(Pop) /\ Awaits(Pop, Top.p)
              /\ \A M \in SUBSET Procs : M \ {Top.p} = Listed \ {Top.p} =>
                   StatesOK(Pop, [state EXCEPT ![Top.p] = Idle(Top.p, M)], M)
<1>1. stack \in Seq(Frame) /\ Top \in Frame /\ FrameOK(Top) /\ Pop \in Seq(Frame)
  BY StackTyped DEF GoodFrame, GoodStack
<1>2. /\ state \in [Procs -> States] /\ Listed \in SUBSET Procs
      /\ \A i \in 1 .. Len(stack) : FrameOK(stack[i])
  BY <1>1, ListedTyped, StackIndices DEF TypeOK
<1>3. Shape(Pop) /\ (Pop # << >> => Above(Pop[Len(Pop)], Top))
  BY <1>1, ShapeOps DEF Pop, Top
<1>4. Pop = << >> => Bottom(Top)
  <2>1. Len(stack) \in Nat /\ Len(Pop) = Len(stack) - 1
    BY <1>1, StackIndices DEF Pop
  <2>2. Pop = << >> => Len(stack) = 1
    BY <2>1
  <2> QED
    BY <2>2 DEF Shape, Top
<1>5. Top.fn = "poll" => Held(stack) = {}
  BY <1>1, ShapeOps DEF Top
<1>6. ASSUME NEW f \in Frame, Alike(f, Top)
      PROVE  /\ SetTop(f) \in Seq(Frame) /\ StatesOK(SetTop(f), state, Listed) /\ Shape(SetTop(f))
             /\ SetTop(f) # << >> /\ SetTop(f)[Len(SetTop(f))] = f
  <2> DEFINE t == SetTop(f)
  <2>1. Shape(t)
    BY <1>1, <1>6, ShapeOps DEF SetTop, Top
  <2>2. /\ t \in Seq(Frame) /\ Len(t) = Len(stack)
        /\ \A i \in 1 .. Len(stack) - 1 : t[i] = stack[i]
        /\ t[Len(stack)] = f
    BY <1>1, StackIndices DEF SetTop
  <2>3. t # << >> /\ Len(stack) \in Nat
    BY <1>1, <2>2, StackIndices
  <2> HIDE DEF t
  <2>4. Holds(f) <=> Holds(Top)
    BY <1>6 DEF Alike, Holds
  <2>n. \A k \in Nat : \A i \in 1 .. k : i = k \/ i \in 1 .. k - 1
    OBVIOUS
  <2>5. ASSUME NEW i \in 1 .. Len(stack)
        PROVE  /\ t[i].fn = stack[i].fn /\ (Holds(t[i]) <=> Holds(stack[i]))
               /\ Holds(stack[i]) => t[i].p = stack[i].p
    <3>1. CASE i = Len(stack)
      BY <3>1, <2>2, <2>4, <1>6 DEF Alike, Top, Holds
    <3>2. CASE i \in 1 .. Len(stack) - 1
      BY <3>2, <2>2
    <3> QED
      BY <3>1, <3>2, <2>3, <2>n
  <2>6. StatesOK(t, state, Listed)
    BY <1>1, <2>2, <2>5, SameStates
  <2> QED
    BY <2>1, <2>2, <2>3, <2>6 DEF t
<1>7. ASSUME ~Holds(Top)
      PROVE  StatesOK(Pop, state, Listed) /\ NoPoll(Pop)
  <2>1. StatesOK(Pop, state, Listed)
    BY <1>1, <1>2, <1>7, PopStates DEF Top, Pop
  <2> QED
    BY <1>3, <1>7, <2>1 DEF NoPoll, Above
<1>8. ASSUME Holds(Top)
      PROVE  /\ Top.p \in Listed /\ Top.p \in Procs /\ state[Top.p] = Kept(Top)
             /\ Top.p \notin Held(Pop) /\ Awaits(Pop, Top.p)
             /\ \A M \in SUBSET Procs : M \ {Top.p} = Listed \ {Top.p} =>
                  StatesOK(Pop, [state EXCEPT ![Top.p] = Idle(Top.p, M)], M)
  <2>1. /\ Top.p \in Listed /\ Top.p \in Procs /\ state[Top.p] = Kept(Top)
        /\ Top.p \notin Held(Pop)
        /\ \A M \in SUBSET Procs : M \ {Top.p} = Listed \ {Top.p} =>
             StatesOK(Pop, [state EXCEPT ![Top.p] = Idle(Top.p, M)], M)
    BY <1>1, <1>2, <1>8, PopStates DEF Top, Pop
  <2>2. Awaits(Pop, Top.p)
    BY <1>3 DEF Awaits, NoPoll, Above
  <2> QED
    BY <2>1, <2>2
<1>9. /\ Top.fn = "thread" => Top.pc \in {"called", "exiting"}
      /\ Top.fn = "event" => Pop = << >>
  BY <1>3, <1>4 DEF Above, Bottom
<1> QED
  BY <1>1, <1>3, <1>5, <1>6, <1>7, <1>8, <1>9

-------------------------------------------------------------------------------
Queued == [p : ProcOrNull, ev : EventIds \ {"INIT"}]

CallsInv ==
  /\ StatesOK(stack, state, Listed) /\ Shape(stack)
  /\ PollAt(stack, Listed, next)
  /\ events \in Seq(Queued)

(* The states of the processes and the calls in progress agree.            *)
LEMMA CallsStep ==
  ASSUME ~ExitCalled, TypeOK, ListOK, CallsInv, [Next]_vars
  PROVE  CallsInv'
<1>t. /\ stack \in Seq(Frame) /\ state \in [Procs -> States] /\ Listed \in SUBSET Procs
      /\ process_list \in Listed \cup {NULL}
      /\ \A p \in Listed : next[p] \in Listed \cup {NULL}
  <2>1. next \in [Procs -> ProcOrNull] /\ process_list \in ProcOrNull
    BY DEF TypeOK
  <2> QED
    BY <2>1, ListedTyped, ReachFacts DEF TypeOK, Listed, Reach
<1>i. /\ StatesOK(stack, state, Listed) /\ Shape(stack)
      /\ PollAt(stack, Listed, next) /\ events \in Seq(Queued)
  BY DEF CallsInv
<1>q. ASSUME UNCHANGED listVars
      PROVE  Listed' = Listed /\ next' = next
  BY <1>q DEF listVars, Listed, Reach
<1>n. ASSUME UNCHANGED listVars, events' \in Seq(Queued),
             StatesOK(stack', state', Listed), Shape(stack'), NoPoll(stack')
      PROVE  CallsInv'
  BY <1>n, <1>q DEF CallsInv, PollAt
<1>u. ASSUME UNCHANGED <<listVars, state, stack>>, events' \in Seq(Queued)
      PROVE  CallsInv'
  BY <1>u, <1>q, <1>i DEF CallsInv
<1>e. ASSUME UNCHANGED events
      PROVE  events' \in Seq(Queued)
  BY <1>e, <1>i
<1>s. ASSUME NoPoll(stack)
      PROVE  LET s == Append(stack, [NewFrame("synch", "called") EXCEPT !.old = process_current])
             IN  s \in Seq(Frame) /\ StatesOK(s, state, Listed) /\ Shape(s) /\ NoPoll(s)
  <2> DEFINE f == [NewFrame("synch", "called") EXCEPT !.old = process_current]
  <2>1. f \in Frame /\ f.fn = "synch"
    BY GoodFrameFacts DEF TypeOK, GoodFrame, NewFrame
  <2> HIDE DEF f
  <2>2. ~Holds(f) /\ IF stack = << >> THEN Bottom(f) ELSE Above(stack[Len(stack)], f)
    BY <2>1, <1>s DEF Holds, Bottom, Above, NoPoll
  <2>3. LET s == Append(stack, f)
        IN  /\ s \in Seq(Frame) /\ StatesOK(s, state, Listed) /\ Shape(s)
            /\ s # << >> /\ s[Len(s)] = f
    BY <1>t, <1>i, <1>s, <2>1, <2>2, PushOther
  <2> QED
    BY <2>1, <2>3 DEF NoPoll, f
<1>1. ASSUME NEW p \in ProcOrNull, NEW ev \in Posted, process_post(p, ev)
      PROVE  CallsInv'
  <2>1. [p |-> p, ev |-> ev] \in Queued
    BY DEF Queued, Posted, EventIds
  <2>2. events' \in Seq(Queued)
    BY <1>1, <1>i, <2>1, AppendProperties DEF process_post
  <2> QED
    BY <1>1, <2>2, <1>u DEF process_post
<1>2. ASSUME NEW p \in Procs, NEW ev \in Posted, process_post_synch(p, ev)
      PROVE  CallsInv'
  <2> DEFINE s == Append(stack, [NewFrame("synch", "called") EXCEPT !.old = process_current])
  <2>1. NoPoll(stack)
    BY <1>2 DEF process_post_synch, Call, InThread, Top, NoPoll
  <2>2. s \in Seq(Frame) /\ StatesOK(s, state, Listed) /\ Shape(s) /\ NoPoll(s)
    BY <2>1, <1>s
  <2>3. call_process(p, ev, s) /\ ev \in EventIds /\ UNCHANGED <<listVars, events>>
    BY <1>2 DEF process_post_synch, Posted, EventIds
  <2> HIDE DEF s
  <2>4. StatesOK(stack', state', Listed) /\ Shape(stack') /\ NoPoll(stack')
    BY <2>2, <2>3, CallStates
  <2> QED
    BY <2>3, <2>4, <1>n, <1>e
<1>3. ASSUME NEW p \in Procs, process_start(p) \/ BootStart(p)
      PROVE  CallsInv'
  <2> DEFINE s == Append(stack, [NewFrame("synch", "called") EXCEPT !.old = process_current])
  <2>1. NoPoll(stack)
    BY <1>3 DEF process_start, BootStart, Call, InThread, Top, NoPoll
  <2>2. s \in Seq(Frame) /\ StatesOK(s, state, Listed) /\ Shape(s) /\ NoPoll(s)
    BY <2>1, <1>s
  <2>3. Start(p) /\ UNCHANGED events
    BY <1>3 DEF process_start, BootStart
  <2>4. Invoke(p, "INIT", s) /\ "INIT" \in EventIds
    BY <2>3 DEF Start, EventIds
  <2>5. p \notin Listed /\ Listed' = Listed \cup {p}
    BY <2>3, StartListed
  <2> HIDE DEF s
  <2>6. p \notin Held(s)
    BY <2>2, <2>5 DEF Held, StatesOK
  <2>7. Listed' \in SUBSET Procs /\ p \in Listed' /\ Listed' \ {p} = Listed \ {p}
    BY <2>5, <1>t
  <2>8. StatesOK(stack', state', Listed') /\ Shape(stack') /\ NoPoll(stack')
    BY <2>2, <2>4, <2>6, <2>7, InvokeStates DEF Awaits
  <2> QED
    BY <2>3, <2>8, <1>e DEF CallsInv, PollAt
<1>4. ASSUME NEW p \in Procs, process_exit(p)
      PROVE  CallsInv'
  <2>1. /\ NoPoll(stack) /\ state[p] = "RUNNING"
        /\ exit_process(p, process_current, stack) /\ UNCHANGED <<listVars, events>>
    BY <1>4 DEF process_exit, Call, InThread, Top, NoPoll
  <2>2. p \in Listed /\ p \notin Held(stack)
    BY <2>1, <1>t, <1>i, RunningFree
  <2>3. [state EXCEPT ![p] = "RUNNING"] = state
    BY <2>1, <1>t
  <2>4. process_current \in ProcOrNull
    BY DEF TypeOK
  <2>5. StatesOK(stack', state', Listed) /\ Shape(stack') /\ NoPoll(stack')
    BY <2>1, <2>2, <2>3, <2>4, <1>t, <1>i, ExitStates DEF Awaits
  <2> QED
    BY <2>1, <2>5, <1>n, <1>e
<1>5. ASSUME NEW p \in Polled, process_poll(p)
      PROVE  CallsInv'
  BY <1>5, <1>u, <1>e DEF process_poll
<1>p. ASSUME stack # << >>
      PROVE  /\ Top \in Frame /\ FrameOK(Top) /\ Pop \in Seq(Frame)
             /\ Top.fn = "thread" => Top.pc \in {"called", "exiting"}
             /\ Top.fn = "event" => Pop = << >>
             /\ Top.fn = "poll" => Held(stack) = {}
             /\ \A f \in Frame : Alike(f, Top) =>
                  /\ SetTop(f) \in Seq(Frame) /\ StatesOK(SetTop(f), state, Listed) /\ Shape(SetTop(f))
                  /\ SetTop(f) # << >> /\ SetTop(f)[Len(SetTop(f))] = f
             /\ Shape(Pop)
             /\ ~Holds(Top) => StatesOK(Pop, state, Listed) /\ NoPoll(Pop)
             /\ Holds(Top) =>
                  /\ Top.p \in Listed /\ Top.p \in Procs /\ state[Top.p] = Kept(Top)
                  /\ Top.p \notin Held(Pop) /\ Awaits(Pop, Top.p)
                  /\ \A M \in SUBSET Procs : M \ {Top.p} = Listed \ {Top.p} =>
                       StatesOK(Pop, [state EXCEPT ![Top.p] = Idle(Top.p, M)], M)
  BY <1>i, <1>p, TopStates
<1>6. CASE SynchReturn \/ ThreadExited \/ WalkReturn
  <2>1. /\ stack # << >> /\ ~Holds(Top) /\ stack' = Pop /\ UNCHANGED <<listVars, state, events>>
    BY <1>6 DEF SynchReturn, ThreadExited, WalkReturn, Running, Holds
  <2> QED
    BY <2>1, <1>p, <1>n, <1>e
<1>7. CASE ThreadYield
  <2>1. /\ stack # << >> /\ Holds(Top) /\ stack' = Pop /\ UNCHANGED <<listVars, events>>
        /\ state' = [state EXCEPT ![Top.p] = "RUNNING"]
    BY <1>7 DEF ThreadYield, Running, Holds, BackToRunning
  <2>2. Top.p \in Listed /\ Idle(Top.p, Listed) = "RUNNING" /\ Awaits(Pop, Top.p) /\ Shape(Pop)
    BY <2>1, <1>p DEF Idle
  <2>3. StatesOK(stack', state', Listed)
    BY <2>1, <2>2, <1>p, <1>t
  <2>4. PollAt(Pop, Listed, next)
    BY <2>2, <1>t DEF PollAt, Awaits
  <2> QED
    BY <2>1, <2>2, <2>3, <2>4, <1>q, <1>e DEF CallsInv
<1>8. CASE ThreadEnd
  <2>1. /\ stack # << >> /\ Holds(Top) /\ Top.fn = "thread"
        /\ exit_process(Top.p, Top.p, Pop) /\ UNCHANGED <<listVars, events>>
    BY <1>8 DEF ThreadEnd, Running, Holds
  <2>2. /\ Top.p \in Listed /\ Idle(Top.p, Listed) = "RUNNING" /\ Awaits(Pop, Top.p)
        /\ Shape(Pop) /\ Top.p \in Procs /\ Top.p \notin Held(Pop) /\ Pop \in Seq(Frame)
        /\ state[Top.p] # "NONE" /\ Top.p \in ProcOrNull
    BY <2>1, <1>p DEF Idle, Kept, ProcOrNull
  <2>3. StatesOK(Pop, [state EXCEPT ![Top.p] = "RUNNING"], Listed)
    BY <2>1, <2>2, <1>p, <1>t
  <2>4. StatesOK(stack', state', Listed) /\ Shape(stack') /\ NoPoll(stack')
    BY <2>1, <2>2, <2>3, ExitStates
  <2> QED
    BY <2>1, <2>4, <1>n, <1>e
<1>9. CASE Advance
  <2> DEFINE f == [Top EXCEPT !.pc = "visit", !.q = next[@]]
  <2>1. /\ stack # << >> /\ Top.pc = "advance" /\ stack' = SetTop(f)
        /\ UNCHANGED <<listVars, state, events>>
    BY <1>9 DEF Advance
  <2>2. Top \in Frame /\ Top.q \in Procs /\ Top.fn # "thread"
    BY <2>1, <1>p DEF FrameOK
  <2>3. f \in Frame /\ f.fn = Top.fn /\ f.p = Top.p /\ f.pc = "visit" /\ f.q = next[Top.q]
    BY <2>2 DEF Frame, TypeOK
  <2> HIDE DEF f
  <2>4. Alike(f, Top)
    BY <2>2, <2>3 DEF Alike
  <2>5. /\ StatesOK(stack', state', Listed) /\ Shape(stack')
        /\ stack' # << >> /\ stack'[Len(stack')] = f
    BY <2>1, <2>3, <2>4, <1>p
  <2>6. f.fn = "poll" => f.q \in Listed \cup {NULL}
    BY <2>1, <2>3, <1>i DEF PollAt, NoPoll, Top
  <2>7. PollAt(stack', Listed, next)
    BY <2>3, <2>5, <2>6 DEF PollAt, NoPoll
  <2> QED
    BY <2>1, <2>5, <2>7, <1>q, <1>e DEF CallsInv
<1>v. ASSUME stack # << >>, Top.q # NULL, Top.fn \in {"exit", "poll", "event"}
      PROVE  /\ Top.q \in Procs /\ Visited(Top) \in Frame /\ Alike(Visited(Top), Top)
             /\ Visited(Top).fn = Top.fn /\ Visited(Top).pc = "advance" /\ Visited(Top).q = Top.q
  BY <1>p, <1>v DEF Visited, Frame, ProcOrNull, Alike
<1>w. ASSUME stack # << >>, NEW pc \in {"call", "unlink"}, Top.fn # "thread"
      PROVE  /\ [Top EXCEPT !.pc = pc] \in Frame /\ Alike([Top EXCEPT !.pc = pc], Top)
             /\ [Top EXCEPT !.pc = pc].fn = Top.fn /\ [Top EXCEPT !.pc = pc].p = Top.p
  BY <1>p, <1>w DEF Frame, Alike
<1>10. CASE ExitVisit \/ EventVisit
  <2>1. /\ stack # << >> /\ Top.fn \in {"exit", "event"} /\ Top.q # NULL /\ UNCHANGED <<listVars, events>>
        /\ \/ stack' = SetTop(Visited(Top)) /\ UNCHANGED state
           \/ \E ev \in EventIds : call_process(Top.q, ev, SetTop(Visited(Top)))
    <3>1. CASE ExitVisit
      BY <3>1 DEF ExitVisit, Running, EventIds
    <3>2. CASE EventVisit
      <4>1. stack # << >> /\ Top.fn = "event" /\ Top.pc = "call"
        BY <3>2 DEF EventVisit, Running
      <4>2. Top.q \in Procs /\ Top.ev \in EventIds
        BY <4>1, <1>p DEF FrameOK, Frame
      <4> QED
        BY <3>2, <4>1, <4>2, NullAssumption DEF EventVisit
    <3> QED
      BY <1>10, <3>1, <3>2
  <2> DEFINE s == SetTop(Visited(Top))
  <2>2. Top.q \in Procs /\ s \in Seq(Frame) /\ StatesOK(s, state, Listed) /\ Shape(s) /\ NoPoll(s)
    BY <2>1, <1>v, <1>p DEF NoPoll
  <2>3. (stack' = s /\ UNCHANGED state) \/ \E ev \in EventIds : call_process(Top.q, ev, s)
    BY <2>1
  <2> HIDE DEF s
  <2>4. StatesOK(stack', state', Listed) /\ Shape(stack') /\ NoPoll(stack')
    BY <2>2, <2>3, CallStates
  <2> QED
    BY <2>1, <2>4, <1>n, <1>e
<1>11. CASE ExitThread
  <2> DEFINE f == [Top EXCEPT !.pc = "unlink"]
             g == ThreadFrame(Top.p, "EXIT", "exiting")
             s == SetTop(f)
  <2>1. /\ stack # << >> /\ Top.fn = "exit" /\ UNCHANGED <<listVars, state, events>>
        /\ stack' = s \/ stack' = Append(s, g)
    BY <1>11 DEF ExitThread, Running
  <2>2. f \in Frame /\ Top.p \in Procs /\ Alike(f, Top) /\ f.fn = "exit" /\ f.p = Top.p
    BY <2>1, <1>p, <1>w DEF FrameOK
  <2>3. g \in Frame /\ g.fn = "thread" /\ g.pc = "exiting" /\ g.p = Top.p
    BY <2>2, GoodFrameFacts DEF GoodFrame, EventIds, ThreadFrame, NewFrame
  <2> HIDE DEF f, g
  <2>4. /\ s \in Seq(Frame) /\ StatesOK(s, state, Listed) /\ Shape(s)
        /\ s # << >> /\ s[Len(s)] = f
    BY <2>1, <2>2, <1>p
  <2> HIDE DEF s
  <2>5. NoPoll(s) /\ ~Holds(g) /\ Above(s[Len(s)], g)
    BY <2>2, <2>3, <2>4 DEF NoPoll, Holds, Above
  <2>6. LET t == Append(s, g)
        IN  /\ StatesOK(t, state, Listed) /\ Shape(t) /\ t # << >> /\ t[Len(t)] = g
    BY <2>3, <2>4, <2>5, <1>t, PushOther
  <2>7. StatesOK(stack', state', Listed) /\ Shape(stack') /\ NoPoll(stack')
    BY <2>1, <2>3, <2>4, <2>5, <2>6 DEF NoPoll
  <2> QED
    BY <2>1, <2>7, <1>n, <1>e
<1>12. CASE ExitUnlink
  <2>1. /\ stack # << >> /\ Top.fn = "exit" /\ UNCHANGED <<state, events>>
        /\ stack' = [i \in 1 .. Len(stack) - 1 |-> [stack[i] EXCEPT !.due = @ \ {Top.p}]]
    BY <1>12 DEF ExitUnlink, Running
  <2>2. /\ Holds(Top) /\ Top.p \in Listed /\ state[Top.p] = "NONE" /\ Awaits(Pop, Top.p)
        /\ Shape(Pop) /\ Pop \in Seq(Frame)
    BY <2>1, <1>p DEF Holds, Kept
  <2>3. /\ Top.p \in Procs /\ Listed' = Listed \ {Top.p}
        /\ next'[Top.p] = next[Top.p] /\ next[Top.p] # Top.p
    BY <1>12, UnlinkListed
  <2>4. Listed' \in SUBSET Procs /\ Listed' \ {Top.p} = Listed \ {Top.p} /\ Idle(Top.p, Listed') = "NONE"
    BY <2>3, <1>t DEF Idle
  <2>5. [state EXCEPT ![Top.p] = "NONE"] = state
    BY <2>2, <2>3, <1>t
  <2>6. StatesOK(Pop, state, Listed')
    BY <2>1, <2>2, <2>4, <2>5, <1>p
  <2>7. /\ Len(stack) \in Nat /\ Len(Pop) = Len(stack) - 1
        /\ \A i \in 1 .. Len(stack) - 1 : Pop[i] = stack[i] /\ stack[i] \in Frame
    BY <1>t, <1>p, <2>1, StackIndices DEF Pop
  <2>8. /\ Len(stack') = Len(Pop) /\ stack' \in Seq(Frame)
        /\ \A i \in 1 .. Len(Pop) :
             /\ stack'[i].fn = Pop[i].fn /\ stack'[i].p = Pop[i].p /\ stack'[i].pc = Pop[i].pc
             /\ stack'[i].q = Pop[i].q
    BY <2>1, <2>7 DEF Frame
  <2>9. StatesOK(stack', state', Listed')
    <3>1. \A i \in 1 .. Len(Pop) :
            /\ stack'[i].fn = Pop[i].fn /\ (Holds(stack'[i]) <=> Holds(Pop[i]))
            /\ Holds(Pop[i]) => stack'[i].p = Pop[i].p
      BY <2>8 DEF Holds
    <3> DEFINE L == Listed'
    <3>2. StatesOK(Pop, state, L)
      BY <2>6
    <3> HIDE DEF L
    <3>3. StatesOK(stack', state, L)
      BY <2>2, <2>8, <3>1, <3>2, SameStates
    <3> QED
      BY <2>1, <3>3 DEF L
  <2>10. /\ Len(Pop) \in Nat /\ (Pop = << >> <=> Len(Pop) = 0)
         /\ stack' = << >> <=> Len(stack') = 0
    BY <2>2, <2>8, StackIndices
  <2>11. Shape(stack')
    <3>1. \A k \in Nat : k # 0 => 1 \in 1 .. k
      OBVIOUS
    <3>2. \A k \in Nat : \A i \in 1 .. k - 1 : i \in 1 .. k /\ i + 1 \in 1 .. k
      OBVIOUS
    <3>3. stack' # << >> => Bottom(stack'[1])
      BY <2>2, <2>8, <2>10, <3>1 DEF Shape, Bottom
    <3>4. ASSUME NEW i \in 1 .. Len(stack') - 1
          PROVE  Above(stack'[i], stack'[i + 1])
      <4>1. i \in 1 .. Len(Pop) /\ i + 1 \in 1 .. Len(Pop) /\ i \in 1 .. Len(Pop) - 1
        BY <2>8, <2>10, <3>2
      <4>2. Above(Pop[i], Pop[i + 1])
        BY <4>1, <2>2 DEF Shape
      <4> QED
        BY <4>1, <4>2, <2>8 DEF Above, Holds
    <3> QED
      BY <3>3, <3>4 DEF Shape
  <2>12. PollAt(stack', Listed', next')
    <3>1. next[Top.p] \in Listed' \cup {NULL}
      BY <2>2, <2>3, <1>t
    <3>2. CASE stack' = << >>
      BY <3>2 DEF PollAt, NoPoll
    <3>3. CASE stack' # << >>
      <4>1. Len(Pop) \in 1 .. Len(Pop) /\ Pop # << >>
        BY <3>3, <2>8, <2>10
      <4>2. /\ stack'[Len(stack')].fn = Pop[Len(Pop)].fn
            /\ stack'[Len(stack')].pc = Pop[Len(Pop)].pc
            /\ stack'[Len(stack')].q = Pop[Len(Pop)].q
        BY <4>1, <2>8
      <4> QED
        BY <3>1, <3>3, <4>1, <4>2, <2>2, <2>3 DEF PollAt, NoPoll, Awaits
    <3> QED
      BY <3>2, <3>3
  <2> QED
    BY <2>1, <2>9, <2>11, <2>12, <1>e DEF CallsInv
<1>13. CASE PollVisit
  <2> DEFINE s == SetTop(Visited(Top))
  <2>1. /\ stack # << >> /\ Top.fn = "poll" /\ Top.pc = "visit" /\ Top.q # NULL
        /\ UNCHANGED <<listVars, events>>
        /\ (stack' = s /\ UNCHANGED state) \/ Invoke(Top.q, "POLL", s)
    BY <1>13 DEF PollVisit, Running
  <2>2. Top.q \in Listed
    BY <2>1, <1>i DEF PollAt, NoPoll, Top
  <2>3. /\ Top.q \in Procs /\ Visited(Top) \in Frame /\ Alike(Visited(Top), Top)
        /\ Visited(Top).fn = "poll" /\ Visited(Top).pc = "advance" /\ Visited(Top).q = Top.q
    BY <2>1, <1>v
  <2>4. /\ s \in Seq(Frame) /\ StatesOK(s, state, Listed) /\ Shape(s)
        /\ s # << >> /\ s[Len(s)] = Visited(Top)
    BY <2>1, <2>3, <1>p
  <2> HIDE DEF s
  <2>5. Held(s) = {}
    BY <2>3, <2>4, ShapeOps
  <2>6. CASE stack' = s /\ UNCHANGED state
    <3>1. PollAt(s, Listed, next)
      BY <2>2, <2>3, <2>4, <1>t DEF PollAt
    <3> QED
      BY <2>1, <2>4, <2>6, <3>1, <1>q, <1>e DEF CallsInv
  <2>7. CASE Invoke(Top.q, "POLL", s)
    <3>1. "POLL" \in EventIds /\ Awaits(s, Top.q)
      BY <2>3, <2>4 DEF EventIds, Awaits
    <3>2. StatesOK(stack', state', Listed) /\ Shape(stack') /\ NoPoll(stack')
      BY <2>2, <2>3, <2>4, <2>5, <2>7, <3>1, <1>t, InvokeStates
    <3> QED
      BY <2>1, <3>2, <1>n, <1>e
  <2> QED
    BY <2>1, <2>6, <2>7
<1>14. CASE EventTake
  <2>1. stack # << >> /\ Top.fn = "event" /\ UNCHANGED listVars /\ events' = Taken
    BY <1>14 DEF EventTake, Running
  <2>2. ~Holds(Top) /\ Pop \in Seq(Frame) /\ StatesOK(Pop, state, Listed) /\ NoPoll(Pop) /\ Shape(Pop)
    BY <2>1, <1>p DEF Holds
  <2>3. CASE events = << >>
    <3>1. stack' = Pop /\ UNCHANGED <<state, events>>
      BY <1>14, <2>1, <2>3 DEF EventTake, Taken
    <3> QED
      BY <2>1, <2>2, <3>1, <1>n, <1>e
  <2>4. CASE events # << >>
    <3>1. Head(events) \in Queued /\ events' \in Seq(Queued)
      BY <2>1, <2>4, <1>i, HeadTailProperties DEF Taken
    <3>2. CASE Head(events).p = NULL
      <4> DEFINE f == WalkFrame("event", Head(events).ev, Listed)
      <4>1. f \in Frame /\ f.fn = "event"
        BY <3>1, <1>t, GoodFrameFacts DEF GoodFrame, TypeOK, Queued, WalkFrame, NewFrame
      <4>2. stack' = SetTop(f) /\ UNCHANGED state
        BY <1>14, <2>4, <3>2 DEF EventTake
      <4> HIDE DEF f
      <4>3. Alike(f, Top)
        BY <2>1, <4>1 DEF Alike
      <4>4. /\ StatesOK(stack', state', Listed) /\ Shape(stack')
            /\ stack' # << >> /\ stack'[Len(stack')] = f
        BY <2>1, <4>1, <4>2, <4>3, <1>p
      <4> QED
        BY <2>1, <3>1, <4>1, <4>4, <1>n DEF NoPoll
    <3>3. CASE Head(events).p # NULL
      <4>1. Head(events).p \in Procs /\ Head(events).ev \in EventIds /\ Head(events).ev # "INIT"
        BY <3>1, <3>3 DEF ProcOrNull, Queued
      <4>2. call_process(Head(events).p, Head(events).ev, Pop)
        BY <1>14, <2>4, <3>3, <4>1 DEF EventTake
      <4>3. StatesOK(stack', state', Listed) /\ Shape(stack') /\ NoPoll(stack')
        BY <2>2, <4>1, <4>2, CallStates
      <4> QED
        BY <2>1, <3>1, <4>3, <1>n
    <3> QED
      BY <3>2, <3>3
  <2> QED
    BY <2>3, <2>4
<1>d. ASSUME NEW s \in Seq(Frame), StatesOK(s, state, Listed), Shape(s), s # << >>,
             s[Len(s)].fn = "event", do_poll(s), UNCHANGED <<listVars, state, events>>
      PROVE  CallsInv'
  <2> DEFINE g == WalkFrame("poll", "POLL", Listed)
  <2>1. g \in Frame /\ g.fn = "poll" /\ g.pc = "visit" /\ g.q = process_list
    BY GoodFrameFacts, <1>t DEF GoodFrame, TypeOK, EventIds, WalkFrame, NewFrame
  <2>2. stack' = Append(s, g)
    BY <1>d DEF do_poll
  <2> HIDE DEF g
  <2>3. NoPoll(s) /\ ~Holds(g) /\ Above(s[Len(s)], g)
    BY <1>d, <2>1 DEF NoPoll, Holds, Above
  <2>4. LET t == Append(s, g)
        IN  /\ StatesOK(t, state, Listed) /\ Shape(t) /\ t # << >> /\ t[Len(t)] = g
    BY <1>d, <2>1, <2>3, <1>t, PushOther
  <2>5. PollAt(stack', Listed, next)
    BY <2>1, <2>2, <2>4, <1>t DEF PollAt
  <2> QED
    BY <2>2, <2>4, <2>5, <1>d, <1>q, <1>e DEF CallsInv
<1>15. CASE EventPoll
  <2> DEFINE f == [Top EXCEPT !.pc = "call"]
             s == SetTop(f)
  <2>1. /\ stack # << >> /\ Top.fn = "event" /\ UNCHANGED <<listVars, state, events>>
        /\ do_poll(s) \/ stack' = s
    BY <1>15 DEF EventPoll, Running
  <2>2. f \in Frame /\ Alike(f, Top) /\ f.fn = "event"
    BY <2>1, <1>w
  <2> HIDE DEF f
  <2>3. /\ s \in Seq(Frame) /\ StatesOK(s, state, Listed) /\ Shape(s)
        /\ s # << >> /\ s[Len(s)] = f
    BY <2>1, <2>2, <1>p
  <2> HIDE DEF s
  <2>4. CASE stack' = s
    BY <2>1, <2>2, <2>3, <2>4, <1>n, <1>e DEF NoPoll
  <2>5. CASE do_poll(s)
    BY <2>1, <2>2, <2>3, <2>5, <1>d
  <2> QED
    BY <2>1, <2>4, <2>5
<1>16. CASE process_run
  <2> DEFINE f == NewFrame("event", "take")
             s == Append(stack, f)
  <2>1. /\ stack = << >> /\ UNCHANGED <<listVars, state, events>>
        /\ do_poll(<<f>>) \/ stack' = <<f>>
    BY <1>16 DEF process_run
  <2>2. f \in Frame /\ f.fn = "event"
    BY GoodFrameFacts DEF GoodFrame, NewFrame
  <2> HIDE DEF f
  <2>3. s = <<f>>
    BY <2>1
  <2>4. NoPoll(stack) /\ ~Holds(f) /\ Bottom(f)
    BY <2>1, <2>2 DEF NoPoll, Holds, Bottom
  <2>5. /\ s \in Seq(Frame) /\ StatesOK(s, state, Listed) /\ Shape(s)
        /\ s # << >> /\ s[Len(s)] = f
    BY <2>1, <2>2, <2>4, <1>t, <1>i, PushOther
  <2> HIDE DEF s
  <2>6. CASE stack' = s
    BY <2>1, <2>2, <2>5, <2>6, <1>n, <1>e DEF NoPoll
  <2>7. CASE do_poll(s)
    BY <2>1, <2>2, <2>5, <2>7, <1>d
  <2> QED
    BY <2>1, <2>3, <2>6, <2>7
<1>17. CASE UNCHANGED vars
  BY <1>17, <1>u, <1>e DEF vars
<1> QED
  BY <1>1, <1>2, <1>3, <1>4, <1>5, <1>6, <1>7, <1>8, <1>9, <1>10, <1>11, <1>12, <1>13,
     <1>14, <1>15, <1>16, <1>17 DEF Next, ThreadCall, ThreadReturn, KernelStep

(* With no exit of a process that is in a call, the calls in progress      *)
(* account for every process that cannot be called.                        *)
THEOREM CallInvariant == ~ExitCalled => (Spec => []CallsInv)
<1> SUFFICES ASSUME ~ExitCalled
             PROVE  Spec => []CallsInv
  OBVIOUS
<1>1. Init => CallsInv
  <2> SUFFICES ASSUME Init
               PROVE  CallsInv
    OBVIOUS
  <2>1. /\ stack = << >> /\ Len(stack) = 0 /\ events = << >>
        /\ state = [p \in Procs |-> "NONE"] /\ next = [p \in Procs |-> NULL]
        /\ process_list = NULL
    BY DEF Init, process_init
  <2>2. Listed = {}
    BY <2>1, ReachFacts DEF Listed, Reach, ProcOrNull
  <2>3. StatesOK(stack, state, Listed) /\ Shape(stack)
    BY <2>1, <2>2 DEF StatesOK, Shape, Idle
  <2> QED
    BY <2>1, <2>3 DEF CallsInv, PollAt, NoPoll
<1>2. TypeOK /\ ListOK /\ CallsInv /\ [Next]_vars => CallsInv'
  BY CallsStep
<1> QED
  BY <1>1, <1>2, TypeCorrect, ListSound, PTL DEF Spec

(* With no exit of a process that is in a call, the kernel never enters a  *)
(* thread that has not returned, so no protothread shares its local        *)
(* continuation with a second call (call_process, do_poll, exit_process).  *)
THEOREM NotReentered == ~ExitCalled => (Spec => []NoReentry)
<1> SUFFICES ASSUME ~ExitCalled
             PROVE  Spec => []NoReentry
  OBVIOUS
<1>1. TypeOK /\ CallsInv => NoReentry
  <2> SUFFICES ASSUME TypeOK, CallsInv, NEW i \in DOMAIN stack, NEW j \in DOMAIN stack,
                      stack[i].fn = "thread", stack[j].fn = "thread", stack[i].p = stack[j].p
               PROVE  i = j
    BY DEF NoReentry
  <2>1. Len(stack) \in Nat /\ i \in 1 .. Len(stack) /\ j \in 1 .. Len(stack)
    BY DEF TypeOK
  <2>2. \A k, l \in 1 .. Len(stack) :
          Holds(stack[k]) /\ Holds(stack[l]) /\ stack[k].p = stack[l].p => k = l
    BY DEF CallsInv, StatesOK
  <2>3. ASSUME NEW k \in 1 .. Len(stack), stack[k].fn = "thread"
        PROVE  \/ Holds(stack[k])
               \/ /\ k - 1 \in 1 .. Len(stack) /\ Holds(stack[k - 1])
                  /\ stack[k - 1].fn = "exit" /\ stack[k - 1].p = stack[k].p
    <3>1. CASE k = 1
      <4>1. stack # << >>
        BY <2>1
      <4> QED
        BY <2>3, <3>1, <4>1 DEF CallsInv, Shape, Bottom, Holds
    <3>2. CASE k # 1
      <4>1. k - 1 \in 1 .. Len(stack) - 1 /\ k - 1 \in 1 .. Len(stack) /\ k - 1 + 1 = k
        BY <2>1, <3>2
      <4>2. Above(stack[k - 1], stack[k])
        BY <4>1 DEF CallsInv, Shape
      <4> QED
        BY <2>3, <4>1, <4>2 DEF Above, Holds
    <3> QED
      BY <3>1, <3>2
  <2>4. CASE Holds(stack[i]) /\ Holds(stack[j])
    BY <2>1, <2>2, <2>4
  <2>5. CASE ~Holds(stack[i]) /\ Holds(stack[j])
    <3>1. i - 1 = j
      BY <2>1, <2>2, <2>3, <2>5
    <3> QED
      BY <2>1, <2>3, <2>5, <3>1
  <2>6. CASE Holds(stack[i]) /\ ~Holds(stack[j])
    <3>1. j - 1 = i
      BY <2>1, <2>2, <2>3, <2>6
    <3> QED
      BY <2>1, <2>3, <2>6, <3>1
  <2>7. CASE ~Holds(stack[i]) /\ ~Holds(stack[j])
    <3>1. i - 1 = j - 1
      BY <2>1, <2>2, <2>3, <2>7
    <3> QED
      BY <2>1, <3>1
  <2> QED
    BY <2>4, <2>5, <2>6, <2>7
<1> QED
  BY <1>1, TypeCorrect, CallInvariant, PTL
===============================================================================
