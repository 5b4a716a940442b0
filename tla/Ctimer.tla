-------------------------------- MODULE Ctimer --------------------------------
(***************************************************************************)
(* core/sys/ctimer.c: callback timers.  A ctimer is an etimer owned by     *)
(* ctimer_process and an entry of ctimer_list; ctimer_process looks for    *)
(* the timer of each PROCESS_EVENT_TIMER it gets on its own list and calls *)
(* that entry's function.  The two lists, and the events between them, are *)
(* kept in step only by the calls below.                                   *)
(*                                                                         *)
(* A ctimer is identified with its etimer.  The callback is whatever calls *)
(* follow in "handle"; it runs in the context of the process that set the  *)
(* timer, which is not recorded.  main calls ctimer_init before anything   *)
(* that sets a ctimer, and process_start runs ctimer_process at once, so   *)
(* initialized is 1 throughout.                                            *)
(***************************************************************************)
EXTENDS Etimer

CONSTANT ctimer_process

ASSUME CtimerAssumption == ctimer_process \in Procs \ Mortal

VARIABLES ctimer_list,
          rearmed        \* history: the ctimers that were set again while an
                         \* event of theirs was queued

ctimerVars == <<ctimer_list, rearmed>>
cvars == <<vars, ctimerVars>>

OnList(t) == t \in ToSet(ctimer_list)
Queued(t) == <<ctimer_process, t>> \in ToSet(events)

-------------------------------------------------------------------------------
list_remove(t) == Without(ctimer_list, t)

list_add(t) == Append(list_remove(t), t)

(* t is put on the list, with its etimer set again *)
Armed(t) ==
  /\ ctimer_list' = list_add(t)
  /\ rearmed' = IF Queued(t) THEN rearmed \cup {t} ELSE rearmed

ctimer_set(t, iv) == etimer_set(t, ctimer_process, iv) /\ Armed(t)

ctimer_restart(t) == etimer_restart(t, ctimer_process) /\ Armed(t)

ctimer_reset(t) == etimer_reset(t, ctimer_process) /\ Armed(t)

\* mutated form: the ctimer stays on the list
CtimerStopOnly(t) == etimer_stop(t) /\ UNCHANGED ctimerVars

ctimer_stop(t) ==
  /\ etimer_stop(t)
  /\ ctimer_list' = list_remove(t)
  /\ UNCHANGED rearmed

CtimerCalls ==
  \/ \E t \in Timers :
       \/ \E iv \in Intervals : ctimer_set(t, iv)
       \/ ctimer_restart(t)
       \/ ctimer_reset(t)
       \/ ctimer_stop(t)
  \/ \E p \in Procs : PostOther(p) /\ UNCHANGED ctimerVars

-------------------------------------------------------------------------------
(* The ctimer whose function ctimer_process calls for the next event, if   *)
(* there is one                                                            *)
Called == {t \in ToSet(ctimer_list) : Head(events) = <<ctimer_process, t>>}

TakeTimer ==
  /\ Take
  /\ ctimer_list' = IF Called = {} THEN ctimer_list ELSE list_remove(Head(events)[2])
  /\ UNCHANGED rearmed

CtimerLoop ==
  \/ TakeTimer
  \/ (Run \/ Scan \/ ScanEnd \/ Return) /\ UNCHANGED ctimerVars

CtimerTick == Tick /\ UNCHANGED ctimerVars

CtimerInit == Init /\ ctimer_list = << >> /\ rearmed = {}

CtimerNext == CtimerTick \/ CtimerLoop \/ CtimerCalls

CtimerSpec == CtimerInit /\ [][CtimerNext]_cvars

(* The loop of main never stops, and neither does the clock *)
FairCtimerSpec == CtimerSpec /\ WF_cvars(CtimerLoop) /\ WF_cvars(CtimerTick)

-------------------------------------------------------------------------------
(* ctimer_list and the etimers agree, in any order of sets, expirations    *)
(* and callbacks: a ctimer is on the list once; no callback is forgotten,  *)
(* since the event that leads to it is in the queue or its etimer is still *)
(* to fire; and an etimer that is to fire finds a function to call, unless *)
(* the ctimer was set while its previous event was queued.                 *)
ListsAgree ==
  /\ ctimer_list \in Seq(Timers) /\ IsInjective(ctimer_list)
  /\ \A t \in Timers : OnList(t) => t \in Listed \/ Queued(t)
  /\ \A t \in Listed \ rearmed : OnList(t)

\* the callbacks of this step
CalledNow == IF TakeTimer THEN Called ELSE {}

OnTime(t) == t \notin Listed /\ age[t] >= interval[t]

(* A callback is called when its timer has expired, never earlier, with    *)
(* the same exception.                                                     *)
CallbackOnTime == [][\A t \in CalledNow \ rearmed : OnTime(t)]_cvars

(* Every ctimer that is set is called back, or stopped first *)
CalledBack == \A t \in Timers : OnList(t) ~> ~OnList(t)
===============================================================================
