-------------------------------- MODULE Etimer --------------------------------
(***************************************************************************)
(* core/sys/etimer.c over core/sys/timer.c and the tick interrupt of       *)
(* cpu/avr/dev/clock.c: event timers on a list, scanned by etimer_process  *)
(* when it is polled, which posts a timer event for each that has expired. *)
(*                                                                         *)
(* The clock wraps around.  The list is a sequence.  Of the kernel, the    *)
(* module keeps the bounded event queue, the poll flag of etimer_process   *)
(* and which processes are on the list; one round of the main loop is a    *)
(* poll of etimer_process, if one was requested, and one event.  The tick  *)
(* comes at any moment, at most MaxLag times in a round.                   *)
(*                                                                         *)
(* A process may make calls after it has exited: its thread gets           *)
(* PROCESS_EVENT_EXIT after etimer_process was told, a thread that exits   *)
(* itself goes on, and the callback of a ctimer runs as the process that   *)
(* set it, whatever has become of that.                                    *)
(***************************************************************************)
EXTENDS Integers, Sequences, FiniteSets, FiniteSetsExt, SequencesExt

CONSTANTS Timers, Procs,
          NONE,        \* PROCESS_NONE; also the data of an event of no timer
          Wrap,        \* the values of clock_time_t are 0 .. Wrap - 1
          Intervals,   \* arguments of etimer_set
          Diffs,       \* arguments of etimer_adjust
          Mortal,      \* the processes that may exit
          NumEvents,   \* PROCESS_CONF_NUMEVENTS
          MaxLag,      \* bound: ticks in one round of the main loop
          MaxLate,     \* bound: ticks by which a timer is overdue when it is
                       \* reset or adjusted
          MaxCalls,    \* bound: calls of all processes
          AdjustAhead  \* whether etimer_adjust may move the start of a timer
                       \* into the future

ASSUME TimeAssumption ==
  /\ Wrap \in Nat \ {0} /\ Intervals \subseteq 0 .. Wrap - 1 /\ Diffs \subseteq Int
  /\ NONE \notin Timers \cup Procs /\ Mortal \subseteq Procs /\ AdjustAhead \in BOOLEAN
  /\ NumEvents \in Nat \ {0} /\ MaxLag \in Nat /\ MaxLate \in Nat /\ MaxCalls \in Nat

VARIABLES count,             \* clock_time()
          timerlist,
          start, interval,   \* t->timer
          owner,             \* t->p
          next_expiration,
          needspoll,         \* etimer_process.needspoll
          events,            \* queued events, each a process and a timer or NONE
          alive,             \* the processes on the list of the kernel
          pc,                \* what process_run does: see Places
          t_at,              \* the loop of etimer_process is at this position
          lag, calls,        \* the bounds' counters
          age,               \* history: real ticks since the timer's start, up
                             \* to Wrap, when the start is no longer known
          late               \* history: the timers last set by a process that
                             \* had exited

timerVars == <<timerlist, start, interval, owner, next_expiration, age, late>>
loopVars == <<pc, t_at, lag>>
vars == <<count, timerVars, needspoll, events, alive, loopVars, calls>>

-------------------------------------------------------------------------------
Time == 0 .. Wrap - 1
Listed == ToSet(timerlist)

\* mutated form: the comparison counts a timer as expired a tick too soon
ExpiredSoon(t) == interval[t] < (count - start[t] + 2) % Wrap

timer_expired(t) == interval[t] < (count - start[t] + 1) % Wrap

\* mutated form: the wrap is not taken into account
UpdateTimeAbsolute(list, st, iv) ==
  IF list = << >> THEN 0 ELSE Min({(st[t] + iv[t]) % Wrap : t \in ToSet(list)})

(* next_expiration after update_time(), for the given list and timers *)
update_time(list, st, iv) ==
  IF list = << >> THEN 0
    ELSE (count + Min({(st[t] + iv[t] - count) % Wrap : t \in ToSet(list)})) % Wrap

\* mutated form: the test is an entry late
RoomLate == Len(events) <= NumEvents

(* process_post does not return PROCESS_ERR_FULL *)
Room == Len(events) < NumEvents

(* A list with the item t unlinked, if it is there: each walk over a list  *)
(* that looks for one item stops at it                                     *)
Without(list, t) ==
  IF t \in ToSet(list)
    THEN RemoveAt(list, CHOOSE i \in DOMAIN list : list[i] = t) ELSE list

-------------------------------------------------------------------------------
(* Calls that processes make, as poll handlers or in handling an event *)

Call == pc \in {"event", "handle"} /\ calls < MaxCalls /\ calls' = calls + 1

\* mutated form: the list is not searched
AddAgain(t) == << t >> \o timerlist

\* add_timer's list; a timer without owner is not searched for
Add(t) == IF owner[t] # NONE /\ t \in Listed THEN timerlist ELSE << t >> \o timerlist

(* add_timer after the timer was given start st and interval iv; p is      *)
(* PROCESS_CURRENT(), on the list or not                                   *)
add_timer(t, p, st, iv) ==
  /\ Call
  /\ start' = [start EXCEPT ![t] = st]
  /\ interval' = [interval EXCEPT ![t] = iv]
  /\ needspoll' = TRUE
  /\ owner' = [owner EXCEPT ![t] = p]
  /\ timerlist' = Add(t)
  /\ next_expiration' = update_time(timerlist', start', interval')
  /\ late' = IF p \in alive THEN late \ {t} ELSE late \cup {t}
  /\ UNCHANGED <<count, events, alive, loopVars>>

etimer_set(t, p, iv) ==
  add_timer(t, p, count, iv) /\ age' = [age EXCEPT ![t] = 0]

etimer_restart(t, p) ==
  add_timer(t, p, count, interval[t]) /\ age' = [age EXCEPT ![t] = 0]

(* etimer.h gives it a meaning for a timer that has expired *)
etimer_reset(t, p) ==
  /\ owner[t] = NONE /\ age[t] \in interval[t] .. interval[t] + MaxLate
  /\ add_timer(t, p, (start[t] + interval[t]) % Wrap, interval[t])
  /\ age' = [age EXCEPT ![t] = @ - interval[t]]

etimer_adjust(t, d) ==
  /\ Call
  /\ age[t] <= interval[t] + MaxLate /\ (age[t] >= d \/ AdjustAhead)
  /\ start' = [start EXCEPT ![t] = (@ + d) % Wrap]
  /\ age' = [age EXCEPT ![t] = Min({@ - d, Wrap})]
  /\ next_expiration' = update_time(timerlist, start', interval)
  /\ UNCHANGED <<count, timerlist, interval, owner, late, needspoll, events, alive, loopVars>>

etimer_stop(t) ==
  /\ Call
  /\ timerlist' = Without(timerlist, t)
  /\ next_expiration' = IF t \in Listed THEN update_time(timerlist', start, interval)
                                        ELSE next_expiration
  /\ owner' = [owner EXCEPT ![t] = NONE]
  /\ UNCHANGED <<count, start, interval, age, late, needspoll, events, alive, loopVars>>

(* process_post of any other event *)
PostOther(p) ==
  /\ Call /\ Room
  /\ events' = Append(events, <<p, NONE>>)
  /\ UNCHANGED <<count, timerVars, needspoll, alive, loopVars>>

(* list is what etimer_process keeps when it is told that p exited: the    *)
(* timers that are not p's, in their order                                 *)
Cleaned(p, list) ==
  LET kept == {i \in DOMAIN timerlist : owner[timerlist[i]] # p}
  IN  \E at \in [1 .. Cardinality(kept) -> kept] :
        /\ \A i, j \in DOMAIN at : i < j => at[i] < at[j]
        /\ list = [i \in DOMAIN at |-> timerlist[at[i]]]

(* exit_process of a process on the list, up to where etimer_process gets  *)
(* PROCESS_EVENT_EXITED: it does not call update_time, and the timers keep *)
(* p.  What p's thread does after that, called with PROCESS_EVENT_EXIT or  *)
(* on its way back from the call that exited it, are calls like others.    *)
Exit(p) ==
  /\ Call
  /\ p \in alive \cap Mortal
  /\ alive' = alive \ {p}
  /\ Cleaned(p, timerlist')
  /\ UNCHANGED <<count, start, interval, owner, next_expiration, age, late, needspoll, events,
                 loopVars>>

StartAgain(p) ==
  /\ Call
  /\ p \in Procs \ alive
  /\ alive' = alive \cup {p}
  /\ UNCHANGED <<count, timerVars, needspoll, events, loopVars>>

Calls ==
  \/ \E t \in Timers, p \in Procs :
       \/ \E iv \in Intervals : etimer_set(t, p, iv)
       \/ etimer_restart(t, p)
       \/ etimer_reset(t, p)
  \/ \E t \in Timers : etimer_stop(t) \/ \E d \in Diffs : etimer_adjust(t, d)
  \/ \E p \in Procs : PostOther(p) \/ Exit(p) \/ StartAgain(p)

-------------------------------------------------------------------------------
(* The tick interrupt *)

\* mutated form: a single timer is overlooked
PendingMany == Len(timerlist) > 1

etimer_pending == timerlist # << >>

Tick ==
  /\ lag < MaxLag
  /\ lag' = lag + 1
  /\ count' = (count + 1) % Wrap
  /\ age' = [t \in Timers |-> Min({age[t] + 1, Wrap})]
  /\ needspoll' = (needspoll \/ etimer_pending)
  /\ UNCHANGED <<timerlist, start, interval, owner, next_expiration, late, events, alive,
                 pc, t_at, calls>>

-------------------------------------------------------------------------------
(* process_run, called by main for ever *)

Places == {"run", "scan", "event", "handle"}

(* do_poll, as far as it concerns etimer_process *)
Run ==
  /\ pc = "run"
  /\ pc' = IF needspoll THEN "scan" ELSE "event"
  /\ needspoll' = FALSE
  /\ t_at' = 1
  /\ lag' = 0
  /\ UNCHANGED <<count, timerVars, events, alive, calls>>

\* mutated form: the request is forgotten while the queue is full
AskAgainNot == FALSE

\* etimer_request_poll: whether etimer_process requests another poll when process_post fails
AskAgain == TRUE

(* One round of the loop of etimer_process: the timer at t_at *)
Fire(t) ==
  /\ events' = Append(events, <<owner[t], t>>)
  /\ owner' = [owner EXCEPT ![t] = NONE]
  /\ timerlist' = RemoveAt(timerlist, t_at)
  /\ next_expiration' = update_time(timerlist', start, interval)
  /\ t_at' = 1
  /\ UNCHANGED needspoll

Pass(t) ==
  /\ t_at' = t_at + 1
  /\ needspoll' = (needspoll \/ (timer_expired(t) /\ AskAgain))
  /\ UNCHANGED <<events, owner, timerlist, next_expiration>>

Scan ==
  /\ pc = "scan"
  /\ t_at <= Len(timerlist)
  /\ LET t == timerlist[t_at]
     IN  IF timer_expired(t) /\ Room THEN Fire(t) ELSE Pass(t)
  /\ UNCHANGED <<count, start, interval, age, late, alive, pc, lag, calls>>

ScanEnd ==
  /\ pc = "scan"
  /\ t_at > Len(timerlist)
  /\ pc' = "event"
  /\ UNCHANGED <<count, timerVars, needspoll, events, alive, t_at, lag, calls>>

(* do_event: the event leaves the queue, then its process handles it *)
Take ==
  /\ pc = "event"
  /\ events # << >>
  /\ events' = Tail(events)
  /\ pc' = "handle"
  /\ UNCHANGED <<count, timerVars, needspoll, alive, t_at, lag, calls>>

Return ==
  /\ pc = "handle" \/ (pc = "event" /\ events = << >>)
  /\ pc' = "run"
  /\ UNCHANGED <<count, timerVars, needspoll, events, alive, t_at, lag, calls>>

Loop == Run \/ Scan \/ ScanEnd \/ Take \/ Return

-------------------------------------------------------------------------------
Init ==
  /\ count = 0 /\ timerlist = << >> /\ next_expiration = 0
  /\ start = [t \in Timers |-> 0] /\ interval = [t \in Timers |-> 0]
  /\ owner = [t \in Timers |-> NONE] /\ age = [t \in Timers |-> 0] /\ late = {}
  /\ needspoll = FALSE /\ events = << >> /\ alive = Procs
  /\ pc = "run" /\ t_at = 1 /\ lag = 0 /\ calls = 0

Next == Tick \/ Loop \/ Calls

Spec == Init /\ [][Next]_vars

-------------------------------------------------------------------------------
(* The queue stays within its bound, the clock within its width, and the  *)
(* scan within the list.                                                   *)
TypeOK ==
  /\ {count, next_expiration} \subseteq Time
  /\ timerlist \in Seq(Timers)
  /\ start \in [Timers -> Time] /\ interval \in [Timers -> Time]
  /\ owner \in [Timers -> Procs \cup {NONE}]
  /\ age \in [Timers -> Int] /\ \A t \in Timers : age[t] <= Wrap
  /\ needspoll \in BOOLEAN
  /\ events \in Seq((Procs \cup {NONE}) \X (Timers \cup {NONE})) /\ Len(events) <= NumEvents
  /\ alive \subseteq Procs /\ late \subseteq Timers
  /\ pc \in Places /\ t_at \in Nat \ {0} /\ lag \in 0 .. MaxLag /\ calls \in 0 .. MaxCalls

(* A timer is on the list once, whatever order of sets, stops, exits and   *)
(* expirations led there (add_timer searches only for timers with an       *)
(* owner, so a listed timer must have one), and no timer that a process    *)
(* set while it was on the list outlives it there: only one that it set    *)
(* after etimer_process had been told of its exit does.                    *)
ListSound ==
  /\ \A i, j \in DOMAIN timerlist : timerlist[i] = timerlist[j] => i = j
  /\ \A t \in Listed : owner[t] # NONE /\ (owner[t] \in alive \/ t \in late)

\* t's event is posted in this step
Fires(t) == events' = Append(events, <<owner[t], t>>)

(* No timer event is posted before the interval has passed in real ticks,  *)
(* across every wrap of the clock, reset and adjustment.                   *)
NotEarly == [][\A t \in Listed : Fires(t) => age[t] >= interval[t]]_vars

(* An expired timer never has to wait for the next tick: when its event    *)
(* could not be posted, or it expired while the list was being scanned,    *)
(* a poll is requested and the next process_run scans again.               *)
ExpiredIsPolled ==
  pc # "scan" => \A t \in Listed : timer_expired(t) => needspoll

(* What etimer_next_expiration_time returns is the expiration time of the  *)
(* timer that is due first, as long as no timer is overdue.                *)
NextExpirationSoonest ==
  LET Left == {interval[t] - age[t] : t \in Listed}
  IN  Left # {} /\ Min(Left) >= 0 => next_expiration = (count + Min(Left)) % Wrap
===============================================================================
