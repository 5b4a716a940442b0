------------------------------- MODULE Process --------------------------------
(***************************************************************************)
(* core/sys/process.c: the process kernel.  Processes are protothreads on  *)
(* a linked list; the kernel calls their threads with events, and a thread *)
(* calls back into the kernel (post, start, exit) before it returns, so    *)
(* the list is changed in the middle of the kernel's own walks over it.    *)
(*                                                                         *)
(* The C stack is a variable: one frame per kernel function or thread that *)
(* is waiting for a call to return.  A thread is an arbitrary sequence of  *)
(* kernel calls, at most MaxCalls of them per process_run so that the      *)
(* stack stays finite.  An interrupt may call process_poll between any two *)
(* steps.  The field due of a walk's frame is history: the processes that  *)
(* were on the list when the walk began and are still owed a visit.        *)
(***************************************************************************)
EXTENDS Integers, Sequences, FiniteSets

CONSTANTS Procs,       \* the process structures
          NULL,        \* no process; also PROCESS_BROADCAST
          NumEvents,   \* PROCESS_CONF_NUMEVENTS
          Polled,      \* the processes that drivers and threads poll
          MaxCalls,    \* bound: kernel calls of all threads per process_run
          ExitCalled   \* whether a thread may process_exit a process that is
                       \* not waiting for an event: itself, a caller of its
                       \* own, or one that is exiting already

ASSUME NullAssumption == NULL \notin Procs
ASSUME NumEventsAssumption == NumEvents \in Nat \ {0}
ASSUME PolledAssumption == Polled \subseteq Procs
ASSUME MaxCallsAssumption == MaxCalls \in Nat
ASSUME ExitCalledAssumption == ExitCalled \in BOOLEAN

VARIABLES process_list,     \* head of the list
          next,             \* p->next, stale when p is off the list
          state,            \* p->state
          needspoll,        \* the processes with p->needspoll
          poll_requested,
          events,           \* the nevents entries of events[] from fevent on
          process_current,
          stack,            \* the C stack, innermost frame last
          calls,            \* kernel calls made since process_run began
          booting,          \* the processes main has yet to start
          asked             \* history: polls asked for, not served, p not exited

listVars == <<process_list, next>>
pollVars == <<needspoll, poll_requested, asked>>
vars == <<listVars, state, pollVars, events, process_current, stack, calls,
          booting>>

ProcOrNull == Procs \cup {NULL}
States == {"NONE", "RUNNING", "CALLED"}
EventIds == {"INIT", "EXIT", "EXITED", "POLL", "MSG"}

\* what threads post: some applications post EXIT, nothing posts INIT
Posted == {"EXIT", "MSG"}

-------------------------------------------------------------------------------
(* The list *)

(* What a loop from h over the pointers nx visits: the least set of        *)
(* processes that holds h and is closed under nx.                          *)
Closed(nx, S) == \A p \in S : nx[p] \in S \cup {NULL}
ReachBy(nx, h) ==
  {p \in Procs : \A S \in SUBSET Procs : Closed(nx, S) /\ h \in S \cup {NULL} => p \in S}

Reach(h) == ReachBy(next, h)
Listed == Reach(process_list)

-------------------------------------------------------------------------------
(* The C stack *)

Frame == [fn : {"thread", "synch", "exit", "poll", "event"},
          pc : {"called", "exiting", "take", "visit", "call", "advance", "unlink"},
          p : ProcOrNull, ev : EventIds,
          q : ProcOrNull,     \* cursor of a walk
          from : ProcOrNull,  \* fromprocess
          old : ProcOrNull,   \* old_current, caller
          due : SUBSET Procs]

NewFrame(fn, pc) ==
  [fn |-> fn, pc |-> pc, p |-> NULL, ev |-> "INIT", q |-> NULL, from |-> NULL,
   old |-> NULL, due |-> {}]

\* pc is "exiting" for the direct call of exit_process, else "called"
ThreadFrame(p, ev, pc) == [NewFrame("thread", pc) EXCEPT !.p = p, !.ev = ev]

\* a loop over the list that is about to visit its first process
WalkFrame(fn, ev, due) ==
  [NewFrame(fn, "visit") EXCEPT !.ev = ev, !.q = process_list, !.due = due]

Top == stack[Len(stack)]
Pop == SubSeq(stack, 1, Len(stack) - 1)
SetTop(f) == [stack EXCEPT ![Len(stack)] = f]
Running(fn, pc) == stack # << >> /\ Top.fn = fn /\ Top.pc = pc

-------------------------------------------------------------------------------
(* Kernel functions that others call.  rest is the stack they return to.   *)

\* mutated form: any state but NONE will do
CallableUnlessNone(p) == state[p] # "NONE"

(* p->state & PROCESS_STATE_RUNNING *)
Callable(p) == state[p] = "RUNNING"

(* p->state = RUNNING, if it was not, and call_process(p, ev) *)
Invoke(p, ev, rest) ==
  /\ state' = [state EXCEPT ![p] = "CALLED"]
  /\ process_current' = p
  /\ stack' = Append(rest, ThreadFrame(p, ev, "called"))

call_process(p, ev, rest) ==
  IF Callable(p)
    THEN Invoke(p, ev, rest)
    ELSE stack' = rest /\ UNCHANGED <<state, process_current>>

(* exit_process(p, from) up to its first call *)
exit_process(p, from, rest) ==
  LET frame == [WalkFrame("exit", "EXITED", Listed \ {p})
                  EXCEPT !.p = p, !.from = from, !.old = process_current]
  IN  IF p \notin Listed
        THEN stack' = rest /\ UNCHANGED state
        ELSE IF state[p] # "NONE"
          THEN /\ state' = [state EXCEPT ![p] = "NONE"]
               /\ stack' = Append(rest, frame)
          ELSE /\ stack' = Append(rest, [frame EXCEPT !.pc = "unlink", !.due = {}])
               /\ UNCHANGED state

\* mutated form: only the first process of the list is looked at
Started1(p) == p = process_list

Started(p) == p \in Listed

(* process_start(p), the process_post_synch at its end included *)
Start(p) ==
  /\ ~Started(p)
  /\ next' = [next EXCEPT ![p] = process_list]
  /\ process_list' = p
  /\ Invoke(p, "INIT",
            Append(stack, [NewFrame("synch", "called") EXCEPT !.old = process_current]))

-------------------------------------------------------------------------------
(* Calls that a thread makes.  Calls that return at once without an effect *)
(* (the queue is full, the process is started already) are stuttering.     *)

InThread == stack # << >> /\ Top.fn = "thread"

Call == InThread /\ calls < MaxCalls /\ calls' = calls + 1

\* mutated form: one event too many
FullLate == Len(events) = NumEvents + 1

Full == Len(events) = NumEvents

process_post(p, ev) ==
  /\ InThread
  /\ ~Full
  /\ events' = Append(events, [p |-> p, ev |-> ev])
  /\ UNCHANGED <<listVars, state, pollVars, process_current, stack, calls, booting>>

process_post_synch(p, ev) ==
  /\ Call
  /\ call_process(p, ev,
       Append(stack, [NewFrame("synch", "called") EXCEPT !.old = process_current]))
  /\ UNCHANGED <<listVars, pollVars, events, booting>>

process_start(p) ==
  /\ Call
  /\ Start(p)
  /\ UNCHANGED <<pollVars, events, booting>>

process_exit(p) ==
  /\ Call
  /\ ExitCalled \/ state[p] = "RUNNING"
  /\ exit_process(p, process_current, stack)
  /\ UNCHANGED <<listVars, pollVars, events, process_current, booting>>

(* process_poll(p), from an interrupt handler or from a thread *)
process_poll(p) ==
  /\ state[p] # "NONE"
  /\ needspoll' = needspoll \cup {p}
  /\ poll_requested' = TRUE
  /\ asked' = asked \cup ({p} \cap Listed)
  /\ UNCHANGED <<listVars, state, events, process_current, stack, calls, booting>>

\* mutated form: process_current is left as the callee set it
NotRestored == process_current

(* caller, old_current *)
Restored == Top.old

(* The end of process_post_synch *)
SynchReturn ==
  /\ Running("synch", "called")
  /\ process_current' = Restored
  /\ stack' = Pop
  /\ UNCHANGED <<listVars, state, pollVars, events, calls, booting>>

-------------------------------------------------------------------------------
BackToRunning(p) == [state EXCEPT ![p] = "RUNNING"]

(* The thread returns to call_process, PT_WAITING or PT_YIELDED. *)
ThreadYield ==
  /\ Running("thread", "called") /\ Top.ev # "EXIT"
  /\ state' = BackToRunning(Top.p)
  /\ stack' = Pop
  /\ UNCHANGED <<listVars, pollVars, events, process_current, calls, booting>>

(* It returns PT_EXITED or PT_ENDED, or it was called with EXIT. *)
ThreadEnd ==
  /\ Running("thread", "called")
  /\ exit_process(Top.p, Top.p, Pop)
  /\ UNCHANGED <<listVars, pollVars, events, process_current, calls, booting>>

(* It returns to exit_process, which ignores what it returns. *)
ThreadExited ==
  /\ Running("thread", "exiting")
  /\ stack' = Pop
  /\ UNCHANGED <<listVars, state, pollVars, events, process_current, calls, booting>>

-------------------------------------------------------------------------------
(* Walks over the list, and the rest of exit_process *)

Visited(f) == [f EXCEPT !.pc = "advance", !.due = @ \ {f.q}]

(* p = p->next, read when the visit is over *)
Advance ==
  /\ stack # << >> /\ Top.pc = "advance"
  /\ stack' = SetTop([Top EXCEPT !.pc = "visit", !.q = next[@]])
  /\ UNCHANGED <<listVars, state, pollVars, events, process_current, calls, booting>>

ExitVisit ==
  /\ Running("exit", "visit") /\ Top.q # NULL
  /\ IF Top.q # Top.p
       THEN call_process(Top.q, "EXITED", SetTop(Visited(Top)))
       ELSE stack' = SetTop(Visited(Top)) /\ UNCHANGED <<state, process_current>>
  /\ UNCHANGED <<listVars, pollVars, events, calls, booting>>

ExitThread ==
  /\ Running("exit", "visit") /\ Top.q = NULL
  /\ LET rest == SetTop([Top EXCEPT !.pc = "unlink"]) IN
       IF Top.p # Top.from
         THEN /\ process_current' = Top.p
              /\ stack' = Append(rest, ThreadFrame(Top.p, "EXIT", "exiting"))
         ELSE stack' = rest /\ UNCHANGED process_current
  /\ UNCHANGED <<listVars, state, pollVars, events, calls, booting>>

\* mutated form: p->next is cleared as well
BypassAndClear(p) ==
  [q \in Procs |-> IF q = p THEN NULL
                   ELSE IF q \in Listed /\ next[q] = p THEN next[p] ELSE next[q]]

\* mutated form: only the first process of the list can be taken off
BypassNone(p) == next

(* q->next = p->next for the listed q before p; p->next itself stays *)
Bypass(p) ==
  [q \in Procs |-> IF q \in Listed /\ next[q] = p THEN next[p] ELSE next[q]]

Unlink(p) ==
  IF p = process_list
    THEN process_list' = next[p] /\ UNCHANGED next
    ELSE next' = Bypass(p) /\ UNCHANGED process_list

ExitUnlink ==
  /\ Running("exit", "unlink")
  /\ Unlink(Top.p)
  /\ process_current' = Restored
  /\ stack' = [i \in 1 .. Len(stack) - 1 |-> [stack[i] EXCEPT !.due = @ \ {Top.p}]]
  /\ asked' = asked \ {Top.p}
  /\ UNCHANGED <<state, needspoll, poll_requested, events, calls, booting>>

-------------------------------------------------------------------------------
(* The main loop *)

(* do_poll() up to its first visit, called with stack rest *)
do_poll(rest) ==
  /\ poll_requested' = FALSE
  /\ stack' = Append(rest, WalkFrame("poll", "POLL", Listed))

PollVisit ==
  /\ Running("poll", "visit") /\ Top.q # NULL
  /\ needspoll' = needspoll \ {Top.q}
  /\ asked' = asked \ {Top.q}
  /\ IF Top.q \in needspoll
       THEN Invoke(Top.q, "POLL", SetTop(Visited(Top)))
       ELSE stack' = SetTop(Visited(Top)) /\ UNCHANGED <<state, process_current>>
  /\ UNCHANGED <<listVars, poll_requested, events, calls, booting>>

Taken == IF events = << >> THEN events ELSE Tail(events)

(* do_event() takes the first event off the queue. *)
EventTake ==
  /\ Running("event", "take")
  /\ events' = Taken
  /\ IF events = << >>
       THEN stack' = Pop /\ UNCHANGED <<state, process_current>>
       ELSE LET e == Head(events) IN
         IF e.p = NULL
           THEN /\ stack' = SetTop(WalkFrame("event", e.ev, Listed))
                /\ UNCHANGED <<state, process_current>>
           ELSE IF e.ev = "INIT"
             THEN Invoke(e.p, e.ev, Pop)
             ELSE call_process(e.p, e.ev, Pop)
  /\ UNCHANGED <<listVars, pollVars, calls, booting>>

(* In between the visits of a broadcast, do_event looks for polls. *)
EventPoll ==
  /\ Running("event", "visit") /\ Top.q # NULL
  /\ LET rest == SetTop([Top EXCEPT !.pc = "call"]) IN
       IF poll_requested
         THEN do_poll(rest)
         ELSE stack' = rest /\ UNCHANGED poll_requested
  /\ UNCHANGED <<listVars, state, needspoll, asked, events, process_current, calls, booting>>

EventVisit ==
  /\ Running("event", "call")
  /\ call_process(Top.q, Top.ev, SetTop(Visited(Top)))
  /\ UNCHANGED <<listVars, pollVars, events, calls, booting>>

\* mutated form: do_poll clears poll_requested when it is done
WalkReturnClear ==
  /\ stack # << >> /\ Top.fn \in {"poll", "event"} /\ Top.pc = "visit" /\ Top.q = NULL
  /\ stack' = Pop
  /\ poll_requested' = (poll_requested /\ Top.fn # "poll")
  /\ UNCHANGED <<listVars, state, needspoll, asked, events, process_current, calls, booting>>

(* The end of a loop of do_poll or do_event *)
WalkReturn ==
  /\ stack # << >> /\ Top.fn \in {"poll", "event"} /\ Top.pc = "visit" /\ Top.q = NULL
  /\ stack' = Pop
  /\ UNCHANGED <<listVars, state, pollVars, events, process_current, calls, booting>>

\* mutated form: polls wait until the queue is empty
PollsLast == poll_requested /\ events = << >>

PollsFirst == poll_requested

(* process_run(): do_poll() if a poll is requested, then do_event() *)
process_run ==
  /\ stack = << >>
  /\ LET rest == << NewFrame("event", "take") >> IN
       IF PollsFirst
         THEN do_poll(rest)
         ELSE stack' = rest /\ UNCHANGED poll_requested
  /\ calls' = 0
  /\ booting' = {}
  /\ UNCHANGED <<listVars, state, needspoll, asked, events, process_current>>

(* main() starts the first processes before it enters its loop. *)
BootStart(p) ==
  /\ stack = << >> /\ p \in booting
  /\ booting' = booting \ {p}
  /\ Start(p)
  /\ UNCHANGED <<pollVars, events, calls>>

-------------------------------------------------------------------------------
(* process_init(), with the process structures as PROCESS() defines them *)
process_init ==
  /\ process_list = NULL /\ process_current = NULL
  /\ next = [p \in Procs |-> NULL]
  /\ state = [p \in Procs |-> "NONE"]
  /\ needspoll = {} /\ poll_requested = FALSE /\ asked = {}
  /\ events = << >> /\ stack = << >> /\ calls = 0
  /\ booting = Procs

ThreadCall ==
  \/ \E p \in ProcOrNull, ev \in Posted : process_post(p, ev)
  \/ \E p \in Procs, ev \in Posted : process_post_synch(p, ev)
  \/ \E p \in Procs : process_start(p) \/ process_exit(p)

ThreadReturn == ThreadYield \/ ThreadEnd \/ ThreadExited

KernelStep ==
  \/ SynchReturn \/ Advance \/ WalkReturn
  \/ ExitVisit \/ ExitThread \/ ExitUnlink
  \/ PollVisit \/ EventTake \/ EventPoll \/ EventVisit

Init == process_init
Next ==
  \/ ThreadCall \/ ThreadReturn \/ KernelStep \/ process_run
  \/ \E p \in Procs : BootStart(p)
  \/ \E p \in Polled : process_poll(p)
Spec == Init /\ [][Next]_vars

(* main() loops for ever, and a thread returns: it may not block. *)
Fairness == WF_vars(process_run) /\ WF_vars(KernelStep) /\ WF_vars(ThreadReturn)
FairSpec == Spec /\ Fairness

-------------------------------------------------------------------------------
FrameOK(f) ==
  /\ f.fn \in {"thread", "exit"} => f.p \in Procs
  /\ f.pc \in {"call", "advance"} => f.q \in Procs

(* The C types, a bounded event queue, and no walk that follows NULL. *)
TypeOK ==
  /\ process_list \in ProcOrNull /\ process_current \in ProcOrNull
  /\ next \in [Procs -> ProcOrNull]
  /\ state \in [Procs -> States]
  /\ needspoll \subseteq Procs /\ asked \subseteq Procs
  /\ poll_requested \in BOOLEAN /\ booting \subseteq Procs
  /\ events \in Seq([p : ProcOrNull, ev : EventIds]) /\ Len(events) <= NumEvents
  /\ stack \in Seq(Frame) /\ \A i \in DOMAIN stack : FrameOK(stack[i])
  /\ calls \in 0 .. MaxCalls

Acyclic(nx) == \A S \in SUBSET Procs : S # {} => \E p \in S : nx[p] \notin S
OnePredecessor(nx, h) ==
  \A p, q \in ReachBy(nx, h) : nx[p] = nx[q] /\ nx[p] # NULL => p = q
NoneBefore(nx, h) == \A p \in ReachBy(nx, h) : nx[p] # h

(* Every loop over ->next ends, from wherever it starts: the pointers of   *)
(* unlinked processes, which a loop may still hold, included.  On the list *)
(* every process but the first has exactly one predecessor, so unlinking   *)
(* the first match, as exit_process does, takes a process off for good.    *)
ListOK ==
  /\ Acyclic(next)
  /\ OnePredecessor(next, process_list)
  /\ NoneBefore(next, process_list)

(* A broadcast, a poll and the notice of an exit miss no process that was  *)
(* on the list when the walk began and stayed there, even when handlers    *)
(* exit the process the walk is at, its neighbours, or start others.       *)
WalkComplete ==
  \A i \in DOMAIN stack :
    LET f == stack[i] IN
      /\ f.due \subseteq Listed
      /\ f.due \subseteq Reach(IF f.pc = "advance" THEN next[f.q] ELSE f.q)

(* A poll is not lost: poll_requested is cleared before the walk, so a     *)
(* poll asked for during the walk is seen by the walk or by the next one.  *)
PollPending ==
  \A p \in asked :
    /\ p \in needspoll
    /\ \/ poll_requested
       \/ \E i \in DOMAIN stack : stack[i].fn = "poll" /\ p \in stack[i].due

(* Whenever a thread runs or resumes, PROCESS_CURRENT() is its process:    *)
(* timers it sets and connections it opens are its own.                    *)
CurrentIsRunning == InThread => process_current = Top.p

InCall(p) == \E i \in DOMAIN stack :
  stack[i].fn = "thread" /\ stack[i].pc = "called" /\ stack[i].p = p

ExitUnderWay(p) == \E i \in DOMAIN stack : stack[i].fn = "exit" /\ stack[i].p = p

(* No process on the list is deaf: one that cannot take an event is in a   *)
(* call, or is being exited, further up the stack.  So between two rounds  *)
(* of the main loop every listed process can be called, even where threads *)
(* have exited themselves, their callers, or processes that are exiting.   *)
NoneDeaf ==
  \A p \in Listed :
    \/ state[p] = "RUNNING"
    \/ state[p] = "CALLED" /\ InCall(p)
    \/ state[p] = "NONE" /\ ExitUnderWay(p)

(* The local continuation of a protothread is not shared by two calls:     *)
(* the kernel does not enter a thread that has not returned.               *)
NoReentry ==
  \A i, j \in DOMAIN stack :
    stack[i].fn = "thread" /\ stack[j].fn = "thread" /\ stack[i].p = stack[j].p => i = j

(* A poll that is asked for is served, or its process exits. *)
PollServed == \A p \in Procs : p \in asked ~> p \notin asked
===============================================================================
