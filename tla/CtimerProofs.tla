----------------------------- MODULE CtimerProofs ------------------------------
(***************************************************************************)
(* The callback timers of ctimer.c over the event timers, for every number *)
(* of timers and every size of the event queue.                            *)
(***************************************************************************)
EXTENDS Ctimer, EtimerProofs

(* Every step of the callback timers is one of the event timers. *)
LEMMA CtimerSteps ==
  /\ [CtimerNext]_cvars => [Next]_vars
  /\ [CtimerNext]_cvars => NoExit
<1> SUFFICES ASSUME [CtimerNext]_cvars
             PROVE  [Next]_vars /\ NoExit
  OBVIOUS
<1>1. CASE CtimerTick
  BY <1>1 DEF CtimerTick, Next, NoExit
<1>2. CASE CtimerLoop
  <2>1. Loop
    BY <1>2 DEF CtimerLoop, TakeTimer, Loop
  <2> QED
    BY <2>1 DEF Next, NoExit
<1>3. ASSUME NEW t \in Timers,
             \/ \E iv \in Intervals : ctimer_set(t, iv)
             \/ ctimer_restart(t) \/ ctimer_reset(t)
      PROVE  [Next]_vars /\ NoExit
  <2>1. /\ ctimer_process \in Procs
        /\ \/ \E iv \in Intervals : etimer_set(t, ctimer_process, iv)
           \/ etimer_restart(t, ctimer_process) \/ etimer_reset(t, ctimer_process)
    BY <1>3, CtimerAssumption DEF ctimer_set, ctimer_restart, ctimer_reset
  <2>2. Calls
    BY <2>1 DEF Calls
  <2>3. NoExit
    BY <2>1 DEF NoExit
  <2> QED
    BY <2>2, <2>3 DEF Next
<1>4. ASSUME NEW t \in Timers, ctimer_stop(t)
      PROVE  [Next]_vars /\ NoExit
  BY <1>4 DEF ctimer_stop, Next, Calls, NoExit
<1>5. ASSUME NEW p \in Procs, PostOther(p)
      PROVE  [Next]_vars /\ NoExit
  BY <1>5 DEF Next, Calls, NoExit
<1>6. CASE UNCHANGED cvars
  BY <1>6 DEF cvars, NoExit
<1> QED
  BY <1>1, <1>2, <1>3, <1>4, <1>5, <1>6 DEF CtimerNext, CtimerCalls

(* ctimer.c uses etimer.c as any process does: what holds of the event     *)
(* timers holds under the callback timers.                                 *)
THEOREM CtimerIsEtimer == CtimerSpec => Spec
<1>1. CtimerInit => Init
  BY DEF CtimerInit
<1> QED
  BY <1>1, CtimerSteps, PTL DEF CtimerSpec, Spec

-------------------------------------------------------------------------------
(* Queues *)

(* process_post, by members *)
LEMMA PostMembers ==
  ASSUME NEW E, NEW s \in Seq(E), NEW e \in E
  PROVE  ToSet(Append(s, e)) = ToSet(s) \cup {e}
<1> DEFINE N == Len(s)
           a == Append(s, e)
<1>1. N \in Nat /\ DOMAIN s = 1 .. N
  OBVIOUS
<1>2. a \in Seq(E) /\ DOMAIN a = 1 .. N + 1 /\ a[N + 1] = e /\ \A i \in 1 .. N : a[i] = s[i]
  OBVIOUS
<1>3. \A i \in 1 .. N + 1 : i = N + 1 \/ i \in 1 .. N
  BY <1>1
<1>4. N + 1 \in 1 .. N + 1 /\ \A i \in 1 .. N : i \in 1 .. N + 1
  BY <1>1
<1> HIDE DEF a, N
<1>5. ToSet(a) = {a[i] : i \in 1 .. N + 1} /\ ToSet(s) = {s[i] : i \in 1 .. N}
  BY <1>1, <1>2 DEF ToSet
<1> QED
  BY <1>2, <1>3, <1>4, <1>5 DEF a

(* do_event, by members *)
LEMMA TakeMembers ==
  ASSUME NEW E, NEW s \in Seq(E), s # << >>
  PROVE  /\ ToSet(Tail(s)) \subseteq ToSet(s) /\ Head(s) \in ToSet(s)
         /\ \A e \in ToSet(s) : e = Head(s) \/ e \in ToSet(Tail(s))
<1> DEFINE N == Len(s)
           a == Tail(s)
<1>1. N \in Nat /\ N >= 1 /\ DOMAIN s = 1 .. N /\ Head(s) = s[1]
  OBVIOUS
<1>2. Len(a) = N - 1 /\ DOMAIN a = 1 .. N - 1 /\ \A i \in 1 .. N - 1 : a[i] = s[i + 1]
  OBVIOUS
<1>3. /\ \A i \in 1 .. N - 1 : i + 1 \in 1 .. N
      /\ \A i \in 1 .. N : i = 1 \/ (i - 1 \in 1 .. N - 1 /\ (i - 1) + 1 = i)
      /\ 1 \in 1 .. N
  BY <1>1
<1> HIDE DEF a, N
<1>4. ToSet(a) = {a[i] : i \in 1 .. N - 1} /\ ToSet(s) = {s[i] : i \in 1 .. N}
  BY <1>1, <1>2 DEF ToSet
<1>5. ToSet(a) \subseteq ToSet(s) /\ s[1] \in ToSet(s)
  BY <1>2, <1>3, <1>4
<1>6. ASSUME NEW i \in 1 .. N
      PROVE  i = 1 \/ s[i] \in ToSet(a)
  <2>1. CASE i # 1
    <3>1. i - 1 \in 1 .. N - 1 /\ (i - 1) + 1 = i
      BY <1>3, <2>1
    <3>2. a[i - 1] = s[i]
      BY <1>2, <3>1
    <3> QED
      BY <1>4, <3>1, <3>2
  <2> QED
    BY <2>1
<1> QED
  BY <1>1, <1>4, <1>5, <1>6 DEF a

(* list_add moves the item to the end. *)
LEMMA ListAddFacts ==
  ASSUME ctimer_list \in Seq(Timers), Once(ctimer_list), NEW t \in Timers
  PROVE  /\ list_add(t) \in Seq(Timers) /\ Once(list_add(t))
         /\ Members(list_add(t)) = Members(ctimer_list) \cup {t}
<1> DEFINE s == list_remove(t)
           a == Append(s, t)
           N == Len(s)
<1>1. s \in Seq(Timers) /\ Once(s) /\ Members(s) = Members(ctimer_list) \ {t}
  BY WithoutFacts DEF list_remove, Unlinked
<1>2. list_add(t) = a
  BY DEF list_add
<1> HIDE DEF s
<1>3. N \in Nat /\ Members(s) = {s[i] : i \in 1 .. N} /\ \A i, j \in 1 .. N : s[i] = s[j] => i = j
  BY <1>1 DEF Members, Once
<1>4. a \in Seq(Timers) /\ Len(a) = N + 1 /\ a[N + 1] = t /\ \A i \in 1 .. N : a[i] = s[i]
  BY <1>1
<1>5. /\ \A i \in 1 .. N + 1 : i = N + 1 \/ i \in 1 .. N
      /\ N + 1 \in 1 .. N + 1 /\ \A i \in 1 .. N : i \in 1 .. N + 1
  BY <1>3
<1> HIDE DEF a, N
<1>6. Members(a) = {a[i] : i \in 1 .. N + 1}
  BY <1>4 DEF Members
<1>7. Members(a) = Members(s) \cup {t}
  BY <1>3, <1>4, <1>5, <1>6
<1>8. \A i \in 1 .. N : s[i] # t
  BY <1>1, <1>3
<1>9. \A i, j \in 1 .. N + 1 : a[i] = a[j] => i = j
  BY <1>3, <1>4, <1>5, <1>8
<1>10. Once(a)
  BY <1>4, <1>9 DEF Once
<1> QED
  BY <1>1, <1>2, <1>4, <1>7, <1>10

-------------------------------------------------------------------------------
(* The two lists and the queue *)

(* ListsAgree, and why it lasts: all timers are ctimer_process's, and an   *)
(* event that is queued for a timer on the list is accounted for.          *)
Agree ==
  /\ ctimer_list \in Seq(Timers) /\ Once(ctimer_list)
  /\ \A t \in Members(timerlist) : owner[t] = ctimer_process
  /\ \A t \in Members(ctimer_list) : t \in Members(timerlist) \/ Queued(t)
  /\ \A t \in Members(timerlist) \ rearmed : t \in Members(ctimer_list)
  /\ \A t \in Members(timerlist) : Queued(t) => t \in rearmed

(* The events under way, for the steps below *)
Posts == (Procs \cup {NONE}) \X (Timers \cup {NONE})

(* ctimer_set, ctimer_restart and ctimer_reset *)
LEMMA ArmAgree ==
  ASSUME EtimerInv, Agree, NEW t \in Timers,
         \/ \E iv \in Intervals : ctimer_set(t, iv)
         \/ ctimer_restart(t) \/ ctimer_reset(t)
  PROVE  Agree'
<1>1. /\ Armed(t) /\ ctimer_process \in Procs
      /\ \/ \E iv \in Intervals : etimer_set(t, ctimer_process, iv)
         \/ etimer_restart(t, ctimer_process) \/ etimer_reset(t, ctimer_process)
  BY CtimerAssumption DEF ctimer_set, ctimer_restart, ctimer_reset
<1>2. Members(timerlist') = Members(timerlist) \cup {t}
  BY <1>1, SetsAdd
<1>3. events' = events /\ owner' = [owner EXCEPT ![t] = ctimer_process]
  BY <1>1 DEF etimer_set, etimer_restart, etimer_reset, add_timer
<1>4. /\ ctimer_list' = list_add(t)
      /\ rearmed' = IF Queued(t) THEN rearmed \cup {t} ELSE rearmed
  BY <1>1 DEF Armed
<1>5. /\ ctimer_list' \in Seq(Timers) /\ Once(ctimer_list')
      /\ Members(ctimer_list') = Members(ctimer_list) \cup {t}
  BY <1>4, ListAddFacts DEF Agree
<1>6. Members(timerlist) \subseteq Timers /\ owner \in [Timers -> Procs \cup {NONE}]
  BY ToSetFacts DEF EtimerInv, TypeOK
<1>7. \A u : Queued(u)' <=> Queued(u)
  BY <1>3 DEF Queued
<1>8. \A u \in Members(timerlist') : owner'[u] = ctimer_process
  BY <1>2, <1>3, <1>6 DEF Agree
<1>9. \A u \in Members(ctimer_list') : u \in Members(timerlist') \/ Queued(u)'
  BY <1>2, <1>5, <1>7 DEF Agree
<1>10. \A u \in Members(timerlist') \ rearmed' : u \in Members(ctimer_list')
  BY <1>2, <1>4, <1>5 DEF Agree
<1>11. \A u \in Members(timerlist') : Queued(u)' => u \in rearmed'
  BY <1>2, <1>4, <1>7 DEF Agree
<1> QED
  BY <1>5, <1>8, <1>9, <1>10, <1>11 DEF Agree, Members, Once, Queued

(* ctimer_stop *)
LEMMA StopAgree ==
  ASSUME EtimerInv, Agree, NEW t \in Timers, ctimer_stop(t)
  PROVE  Agree'
<1>1. Members(timerlist') = Members(timerlist) \ {t}
  BY StopSound DEF ctimer_stop
<1>2. /\ events' = events /\ owner' = [owner EXCEPT ![t] = NONE] /\ rearmed' = rearmed
      /\ ctimer_list' = Without(ctimer_list, t)
  BY DEF ctimer_stop, etimer_stop, list_remove
<1>3. ctimer_list' \in Seq(Timers) /\ Unlinked(ctimer_list, t, ctimer_list')
  BY <1>2, WithoutFacts DEF Agree
<1>4. Once(ctimer_list') /\ Members(ctimer_list') = Members(ctimer_list) \ {t}
  BY <1>3 DEF Unlinked
<1>5. Members(timerlist) \subseteq Timers /\ owner \in [Timers -> Procs \cup {NONE}]
  BY ToSetFacts DEF EtimerInv, TypeOK
<1>6. \A u : Queued(u)' <=> Queued(u)
  BY <1>2 DEF Queued
<1>7. \A u \in Members(timerlist') : owner'[u] = ctimer_process
  BY <1>1, <1>2, <1>5 DEF Agree
<1>8. \A u \in Members(ctimer_list') : u \in Members(timerlist') \/ Queued(u)'
  BY <1>1, <1>4, <1>6 DEF Agree
<1>9. \A u \in Members(timerlist') \ rearmed' : u \in Members(ctimer_list')
  BY <1>1, <1>2, <1>4 DEF Agree
<1>10. \A u \in Members(timerlist') : Queued(u)' => u \in rearmed'
  BY <1>1, <1>2, <1>6 DEF Agree
<1> QED
  BY <1>3, <1>4, <1>7, <1>8, <1>9, <1>10 DEF Agree, Members, Once, Queued

(* etimer_process posts to ctimer_process. *)
LEMMA FireAgree ==
  ASSUME EtimerInv, Agree, Scan, Room, Fire(timerlist[t_at]), UNCHANGED ctimerVars
  PROVE  Agree' /\ \A u : Queued(u)' <=> Queued(u) \/ u = timerlist[t_at]
<1> DEFINE t == timerlist[t_at]
<1>1. t \in Members(timerlist) /\ Members(timerlist') = Members(timerlist) \ {t}
  BY FireSound
<1>2. Members(timerlist) \subseteq Timers /\ owner \in [Timers -> Procs \cup {NONE}]
  BY ToSetFacts DEF EtimerInv, TypeOK
<1>3. /\ owner' = [owner EXCEPT ![t] = NONE] /\ events' = Append(events, <<owner[t], t>>)
      /\ ctimer_list' = ctimer_list /\ rearmed' = rearmed
  BY DEF Fire, ctimerVars
<1> HIDE DEF t
<1>4. owner[t] = ctimer_process
  BY <1>1 DEF Agree
<1>5. events \in Seq(Posts) /\ <<ctimer_process, t>> \in Posts
  BY <1>1, <1>2, CtimerAssumption DEF EtimerInv, TypeOK, Posts
<1>6. ToSet(events') = ToSet(events) \cup {<<ctimer_process, t>>}
  BY <1>3, <1>4, <1>5, PostMembers
<1>7. \A u : Queued(u)' <=> Queued(u) \/ u = t
  BY <1>6 DEF Queued
<1>8. \A u \in Members(timerlist') : owner'[u] = ctimer_process
  BY <1>1, <1>2, <1>3 DEF Agree
<1>9. \A u \in Members(ctimer_list') : u \in Members(timerlist') \/ Queued(u)'
  BY <1>1, <1>3, <1>7 DEF Agree
<1>10. \A u \in Members(timerlist') \ rearmed' : u \in Members(ctimer_list')
  BY <1>1, <1>3 DEF Agree
<1>11. \A u \in Members(timerlist') : Queued(u)' => u \in rearmed'
  BY <1>1, <1>3, <1>7 DEF Agree
<1>12. ctimer_list' \in Seq(Timers) /\ Once(ctimer_list')
  BY <1>3 DEF Agree
<1> QED
  BY <1>7, <1>8, <1>9, <1>10, <1>11, <1>12 DEF Agree, Members, Once, Queued, t

(* ctimer_process looks for the timer of the event on its list. *)
LEMMA TakeAgree ==
  ASSUME EtimerInv, Agree, TakeTimer
  PROVE  Agree' /\ \A u : Queued(u)' => Queued(u)
<1>1. /\ events # << >> /\ events' = Tail(events) /\ timerlist' = timerlist /\ owner' = owner
      /\ rearmed' = rearmed
      /\ ctimer_list' = IF Called = {} THEN ctimer_list ELSE list_remove(Head(events)[2])
  BY DEF TakeTimer, Take, timerVars
<1>2. events \in Seq(Posts)
  BY DEF EtimerInv, TypeOK, Posts
<1>3. /\ ToSet(events') \subseteq ToSet(events) /\ Head(events) \in ToSet(events)
      /\ \A e \in ToSet(events) : e = Head(events) \/ e \in ToSet(events')
  BY <1>1, <1>2, TakeMembers
<1>4. \A u : Queued(u)' => Queued(u)
  BY <1>3 DEF Queued
<1>5. \A u : Queued(u) => Queued(u)' \/ Head(events) = <<ctimer_process, u>>
  BY <1>3 DEF Queued
<1>6. ctimer_list \in Seq(Timers) /\ Once(ctimer_list) /\ ToSet(ctimer_list) = Members(ctimer_list)
  BY ToSetFacts DEF Agree
<1>7. \A u \in Members(timerlist') : owner'[u] = ctimer_process /\ (Queued(u)' => u \in rearmed')
  BY <1>1, <1>4 DEF Agree
<1>8. CASE Called = {}
  <2>1. \A u \in Members(ctimer_list) : Head(events) # <<ctimer_process, u>>
    BY <1>6, <1>8 DEF Called
  <2>2. ctimer_list' = ctimer_list
    BY <1>1, <1>8
  <2>3. \A u \in Members(ctimer_list') : u \in Members(timerlist') \/ Queued(u)'
    BY <1>1, <1>5, <2>1, <2>2 DEF Agree
  <2>4. \A u \in Members(timerlist') \ rearmed' : u \in Members(ctimer_list')
    BY <1>1, <2>2 DEF Agree
  <2>5. ctimer_list' \in Seq(Timers) /\ Once(ctimer_list')
    BY <1>6, <2>2
  <2> QED
    BY <1>4, <1>7, <2>3, <2>4, <2>5 DEF Agree, Members, Once, Queued
<1>9. CASE Called # {}
  <2>1. PICK t \in Members(ctimer_list) : Head(events) = <<ctimer_process, t>>
    BY <1>6, <1>9 DEF Called
  <2>2. ctimer_list' = Without(ctimer_list, t)
    BY <1>1, <1>9, <2>1 DEF list_remove
  <2>3. ctimer_list' \in Seq(Timers) /\ Unlinked(ctimer_list, t, ctimer_list')
    BY <1>6, <2>2, WithoutFacts
  <2>4. Once(ctimer_list') /\ Members(ctimer_list') = Members(ctimer_list) \ {t}
    BY <2>3 DEF Unlinked
  <2>5. Queued(t)
    BY <1>3, <2>1 DEF Queued
  <2>6. \A u : u # t => (Queued(u) => Queued(u)')
    BY <1>5, <2>1
  <2>7. \A u \in Members(ctimer_list') : u \in Members(timerlist') \/ Queued(u)'
    BY <1>1, <2>4, <2>6 DEF Agree
  <2>8. \A u \in Members(timerlist') \ rearmed' : u \in Members(ctimer_list')
    BY <1>1, <2>4, <2>5 DEF Agree
  <2> QED
    BY <1>4, <1>7, <2>3, <2>4, <2>7, <2>8 DEF Agree, Members, Once, Queued
<1> QED
  BY <1>8, <1>9

(* Another event *)
LEMMA PostAgree ==
  ASSUME EtimerInv, Agree, NEW p \in Procs, PostOther(p), UNCHANGED ctimerVars
  PROVE  Agree' /\ \A u \in Timers : Queued(u)' <=> Queued(u)
<1>1. /\ events' = Append(events, <<p, NONE>>) /\ timerlist' = timerlist /\ owner' = owner
      /\ ctimer_list' = ctimer_list /\ rearmed' = rearmed
  BY DEF PostOther, timerVars, ctimerVars
<1>2. events \in Seq(Posts) /\ <<p, NONE>> \in Posts
  BY DEF EtimerInv, TypeOK, Posts
<1>3. ToSet(events') = ToSet(events) \cup {<<p, NONE>>}
  BY <1>1, <1>2, PostMembers
<1>4. NONE \notin Timers
  BY TimeAssumption
<1>5. \A u \in Timers : Queued(u)' <=> Queued(u)
  BY <1>3, <1>4 DEF Queued
<1>6. Members(timerlist) \subseteq Timers /\ Members(ctimer_list) \subseteq Timers
  BY ToSetFacts DEF EtimerInv, TypeOK, Agree
<1>7. \A u \in Members(ctimer_list') : u \in Members(timerlist') \/ Queued(u)'
  BY <1>1, <1>5, <1>6 DEF Agree
<1>8. \A u \in Members(timerlist') : Queued(u)' => u \in rearmed'
  BY <1>1, <1>5, <1>6 DEF Agree
<1>9. \A u \in Members(timerlist') : owner'[u] = ctimer_process
  BY <1>1 DEF Agree
<1>10. \A u \in Members(timerlist') \ rearmed' : u \in Members(ctimer_list')
  BY <1>1 DEF Agree
<1>11. ctimer_list' \in Seq(Timers) /\ Once(ctimer_list')
  BY <1>1 DEF Agree
<1>12. Agree'
  BY <1>7, <1>8, <1>9, <1>10, <1>11 DEF Agree, Members, Once, Queued
<1> QED
  BY <1>5, <1>12

(* The other steps *)
LEMMA SameAgree ==
  ASSUME Agree, UNCHANGED <<events, timerlist, owner, ctimer_list, rearmed>>
  PROVE  Agree'
  BY DEF Agree, Members, Once, Queued

(* Which step is which *)
LEMMA CtimerCases ==
  ASSUME [CtimerNext]_cvars
  PROVE  \/ \E t \in Timers : \/ \E iv \in Intervals : ctimer_set(t, iv)
                              \/ ctimer_restart(t) \/ ctimer_reset(t)
         \/ \E t \in Timers : ctimer_stop(t)
         \/ \E p \in Procs : PostOther(p) /\ UNCHANGED ctimerVars
         \/ TakeTimer
         \/ /\ Scan /\ Room /\ timer_expired(timerlist[t_at]) /\ Fire(timerlist[t_at])
            /\ UNCHANGED ctimerVars
         \/ Tick /\ UNCHANGED <<events, timerlist, owner, ctimer_list, rearmed>>
         \/ UNCHANGED <<events, timerlist, owner, ctimer_list, rearmed, count, start, interval, age>>
<1>1. CASE CtimerTick
  BY <1>1 DEF CtimerTick, Tick, ctimerVars
<1>2. CASE (Run \/ ScanEnd \/ Return) /\ UNCHANGED ctimerVars
  BY <1>2 DEF Run, ScanEnd, Return, timerVars, ctimerVars
<1>3. CASE Scan /\ UNCHANGED ctimerVars
  <2>1. CASE Pass(timerlist[t_at])
    BY <1>3, <2>1 DEF Scan, Pass, ctimerVars
  <2> QED
    BY <1>3, <2>1, ScanCases
<1>4. CASE UNCHANGED cvars
  BY <1>4 DEF cvars, vars, timerVars, ctimerVars
<1> QED
  BY <1>1, <1>2, <1>3, <1>4 DEF CtimerNext, CtimerLoop, CtimerCalls

(* Every step keeps the two lists in agreement. *)
LEMMA AgreeNext == EtimerInv /\ Agree /\ [CtimerNext]_cvars => Agree'
  BY CtimerCases, ArmAgree, StopAgree, PostAgree, TakeAgree, FireAgree, SameAgree

(* At the start both are empty. *)
LEMMA AgreeInit == CtimerInit => Agree
  BY DEF CtimerInit, Init, Agree, Members, Once

(* No callback is forgotten and no etimer fires for nobody, in any order   *)
(* of sets, stops, expirations and callbacks.                              *)
THEOREM NoneForgotten == CtimerSpec => []ListsAgree
<1>1. EtimerInv /\ Agree => ListsAgree
  <2> SUFFICES ASSUME EtimerInv, Agree
               PROVE  ListsAgree
    OBVIOUS
  <2>1. Listed = Members(timerlist) /\ Members(timerlist) \subseteq Timers
    BY ToSetFacts DEF EtimerInv, TypeOK, Listed
  <2>2. /\ ctimer_list \in Seq(Timers) /\ ToSet(ctimer_list) = Members(ctimer_list)
        /\ DOMAIN ctimer_list = 1 .. Len(ctimer_list)
    BY ToSetFacts DEF Agree
  <2>3. IsInjective(ctimer_list)
    BY <2>2 DEF Agree, Once, IsInjective
  <2>4. \A t : OnList(t) <=> t \in Members(ctimer_list)
    BY <2>2 DEF OnList
  <2> QED
    BY <2>1, <2>2, <2>3, <2>4 DEF Agree, ListsAgree
<1> QED
  BY <1>1, AgreeInit, AgreeNext, CtimerIsEtimer, EtimerInvariant, PTL DEF CtimerSpec

-------------------------------------------------------------------------------
(* Time *)

(* Every step keeps the ages: ctimer.c does not adjust timers. *)
LEMMA CtimerAges ==
  ASSUME Punctual, EtimerInv, Ages, [CtimerNext]_cvars
  PROVE  Ages'
<1>1. ASSUME NEW t \in Timers,
             \/ \E iv \in Intervals : ctimer_set(t, iv)
             \/ ctimer_restart(t) \/ ctimer_reset(t)
      PROVE  Ages'
  <2>1. /\ ctimer_process \in Procs
        /\ \/ \E iv \in Intervals : etimer_set(t, ctimer_process, iv)
           \/ etimer_restart(t, ctimer_process) \/ etimer_reset(t, ctimer_process)
    BY <1>1, CtimerAssumption DEF ctimer_set, ctimer_restart, ctimer_reset
  <2> QED
    BY <2>1, AgesSet, AgesReset
<1>2. ASSUME \/ \E t \in Timers : ctimer_stop(t)
             \/ \E p \in Procs : PostOther(p)
             \/ TakeTimer \/ Scan
      PROVE  Ages'
  <2>1. UNCHANGED <<count, start, interval, age>>
    BY <1>2 DEF ctimer_stop, etimer_stop, PostOther, TakeTimer, Take, Scan, timerVars
  <2> QED
    BY <2>1, AgesSame
<1> QED
  BY <1>1, <1>2, CtimerCases, AgesTick, AgesSame

(* An event that is queued was due, unless its timer was set again. *)
Late == \A t \in Timers : Queued(t) /\ t \notin rearmed => age[t] >= interval[t]

(* Every step keeps that. *)
LEMMA LateNext ==
  ASSUME EtimerInv, Agree, Ages, Late, [CtimerNext]_cvars
  PROVE  Late'
<1>1. ASSUME NEW t \in Timers,
             \/ \E iv \in Intervals : ctimer_set(t, iv)
             \/ ctimer_restart(t) \/ ctimer_reset(t)
      PROVE  Late'
  <2>1. Armed(t) /\ \E st, iv, g : /\ add_timer(t, ctimer_process, st, iv)
                                   /\ age' = [age EXCEPT ![t] = g]
    BY <1>1 DEF ctimer_set, ctimer_restart, ctimer_reset, etimer_set, etimer_restart, etimer_reset
  <2>2. PICK st, iv, g : add_timer(t, ctimer_process, st, iv) /\ age' = [age EXCEPT ![t] = g]
    BY <2>1
  <2>3. /\ events' = events /\ interval' = [interval EXCEPT ![t] = iv]
        /\ rearmed' = IF Queued(t) THEN rearmed \cup {t} ELSE rearmed
    BY <2>1, <2>2 DEF add_timer, Armed
  <2>4. interval \in [Timers -> Time] /\ age \in [Timers -> Int]
    BY DEF EtimerInv, TypeOK
  <2>5. \A u : Queued(u)' <=> Queued(u)
    BY <2>3 DEF Queued
  <2>6. \A u \in Timers \ {t} : age'[u] = age[u] /\ interval'[u] = interval[u]
    BY <2>2, <2>3, <2>4
  <2>7. ASSUME NEW u \in Timers, Queued(u)', u \notin rearmed'
        PROVE  age'[u] >= interval'[u]
    <3>1. u # t /\ u \notin rearmed
      BY <2>3, <2>5, <2>7
    <3> QED
      BY <2>5, <2>6, <2>7, <3>1 DEF Late
  <2> QED
    BY <2>7 DEF Late, Queued
<1>2. ASSUME NEW t \in Timers, ctimer_stop(t)
      PROVE  Late'
  <2>1. UNCHANGED <<events, age, interval, rearmed>>
    BY <1>2 DEF ctimer_stop, etimer_stop
  <2> QED
    BY <2>1 DEF Late, Queued
<1>3. ASSUME NEW p \in Procs, PostOther(p), UNCHANGED ctimerVars
      PROVE  Late'
  <2>1. UNCHANGED <<age, interval, rearmed>>
    BY <1>3 DEF PostOther, timerVars, ctimerVars
  <2>2. \A u \in Timers : Queued(u)' <=> Queued(u)
    BY <1>3, PostAgree
  <2>3. \A u \in Timers : Queued(u)' /\ u \notin rearmed' => age'[u] >= interval'[u]
    BY <2>1, <2>2 DEF Late
  <2> QED
    BY <2>3 DEF Late, Queued
<1>4. CASE TakeTimer
  <2>1. UNCHANGED <<age, interval, rearmed>>
    BY <1>4 DEF TakeTimer, Take, timerVars
  <2>2. \A u : Queued(u)' => Queued(u)
    BY <1>4, TakeAgree
  <2>3. \A u \in Timers : Queued(u)' /\ u \notin rearmed' => age'[u] >= interval'[u]
    BY <2>1, <2>2 DEF Late
  <2> QED
    BY <2>3 DEF Late, Queued
<1>5. CASE /\ Scan /\ Room /\ timer_expired(timerlist[t_at]) /\ Fire(timerlist[t_at])
           /\ UNCHANGED ctimerVars
  <2> DEFINE t == timerlist[t_at]
  <2>1. UNCHANGED <<age, interval, rearmed>>
    BY <1>5 DEF Scan, ctimerVars
  <2>2. \A u : Queued(u)' <=> Queued(u) \/ u = t
    BY <1>5, FireAgree
  <2>3. t \in Timers
    BY <1>5, FireSound, ToSetFacts DEF EtimerInv, TypeOK
  <2>4. age[t] >= interval[t]
    BY <1>5, <2>3, ExpiredFacts
  <2> HIDE DEF t
  <2>5. \A u \in Timers : Queued(u)' /\ u \notin rearmed' => age'[u] >= interval'[u]
    BY <2>1, <2>2, <2>4 DEF Late
  <2> QED
    BY <2>5 DEF Late, Queued
<1>6. CASE Tick /\ UNCHANGED <<events, timerlist, owner, ctimer_list, rearmed>>
  <2>1. interval' = interval /\ \A t \in Timers : age'[t] = IF age[t] < Wrap THEN age[t] + 1 ELSE Wrap
    BY <1>6, AgesTick DEF Tick
  <2>2. \A t \in Timers : age[t] >= interval[t] => age'[t] >= interval'[t]
    BY <2>1, TimerFacts
  <2>3. \A u : Queued(u)' <=> Queued(u)
    BY <1>6 DEF Queued
  <2>4. \A u \in Timers : Queued(u)' /\ u \notin rearmed' => age'[u] >= interval'[u]
    BY <1>6, <2>2, <2>3 DEF Late
  <2> QED
    BY <2>4 DEF Late, Queued
<1>7. CASE UNCHANGED <<events, timerlist, owner, ctimer_list, rearmed, count, start, interval, age>>
  BY <1>7 DEF Late, Queued
<1> QED
  BY <1>1, <1>2, <1>3, <1>4, <1>5, <1>6, <1>7, CtimerCases

(* With a ctimer reset less than a wrap of the clock after its start, a    *)
(* callback is called when its timer has expired, never earlier, unless    *)
(* the ctimer was set while its previous event was queued.                 *)
THEOREM CalledOnTime == Punctual => (CtimerSpec => CallbackOnTime)
<1> SUFFICES ASSUME Punctual
             PROVE  CtimerSpec => CallbackOnTime
  OBVIOUS
<1>1. CtimerInit => Ages /\ Late
  <2>1. CtimerInit => Ages
    BY AgesInit DEF CtimerInit
  <2>2. CtimerInit => Late
    BY DEF CtimerInit, Init, Late, Queued, ToSet
  <2> QED
    BY <2>1, <2>2
<1>2. EtimerInv /\ Ages /\ [CtimerNext]_cvars => Ages'
  BY CtimerAges
<1>3. EtimerInv /\ Agree /\ Ages /\ Late /\ [CtimerNext]_cvars => Late'
  BY LateNext
<1>4. EtimerInv /\ Agree /\ Late => [\A t \in CalledNow \ rearmed : OnTime(t)]_cvars
  <2> SUFFICES ASSUME EtimerInv, Agree, Late, NEW t \in CalledNow \ rearmed
               PROVE  OnTime(t)
    OBVIOUS
  <2>1. TakeTimer /\ t \in Called
    BY DEF CalledNow
  <2>2. events # << >> /\ events \in Seq(Posts)
    BY <2>1 DEF TakeTimer, Take, EtimerInv, TypeOK, Posts
  <2>3. Head(events) \in ToSet(events)
    BY <2>2, TakeMembers
  <2>4. Queued(t) /\ t \in ToSet(ctimer_list)
    BY <2>1, <2>3 DEF Called, Queued
  <2>5. t \in Timers
    BY <2>4, ToSetFacts DEF Agree
  <2>6. Listed = Members(timerlist)
    BY ToSetFacts DEF EtimerInv, TypeOK, Listed
  <2> QED
    BY <2>4, <2>5, <2>6 DEF OnTime, Agree, Late
<1> QED
  BY <1>1, <1>2, <1>3, <1>4, AgreeInit, AgreeNext, CtimerIsEtimer, EtimerInvariant, PTL
  DEF CtimerSpec, CallbackOnTime

(* Under the callback timers no process exits, so next_expiration is       *)
(* always the time at which the first of them is due.                      *)
THEOREM CtimerNextKnown == Punctual => (CtimerSpec => []NextExpirationSoonest)
<1> SUFFICES ASSUME Punctual
             PROVE  CtimerSpec => []NextExpirationSoonest
  OBVIOUS
<1>1. CtimerInit => Ages /\ Soonest
  <2>1. CtimerInit => Ages
    BY AgesInit DEF CtimerInit
  <2>2. CtimerInit => Soonest
    BY DEF CtimerInit, Init, Soonest, First, Members
  <2> QED
    BY <2>1, <2>2
<1>2. EtimerInv /\ Ages /\ [CtimerNext]_cvars => Ages'
  BY CtimerAges
<1>3. EtimerInv /\ EtimerInv' /\ Ages /\ Ages' /\ Soonest /\ [CtimerNext]_cvars => Soonest'
  BY CtimerSteps, SoonestNext
<1> QED
  BY <1>1, <1>2, <1>3, CtimerIsEtimer, EtimerInvariant, SoonestFacts, PTL DEF CtimerSpec
===============================================================================
