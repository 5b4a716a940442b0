----------------------------- MODULE EtimerProofs ------------------------------
(***************************************************************************)
(* The event timers of etimer.c, for every clock width, number of timers   *)
(* and size of the event queue.                                            *)
(***************************************************************************)
EXTENDS Etimer, SequenceTheorems, FiniteSetTheorems, WellFoundedInduction, TLAPS

-------------------------------------------------------------------------------
(* clock_time_t arithmetic *)

(* A value less than a wrap away from the clock's range, taken modulo Wrap *)
LEMMA WrapFacts ==
  /\ \A x \in Int : x % Wrap \in Time
  /\ \A x \in Time : x % Wrap = x
  /\ \A x \in Int : x >= Wrap /\ x < 2 * Wrap => x % Wrap = x - Wrap
  /\ \A x \in Int : x >= -Wrap /\ x < 0 => x % Wrap = x + Wrap
<1>1. Wrap \in Nat /\ Wrap > 0
  BY TimeAssumption
<1> QED
  BY <1>1 DEF Time

(* Min is the least number of a set that is bounded below. *)
LEMMA MinFacts ==
  ASSUME NEW S, S \subseteq Nat, S # {}
  PROVE  Min(S) \in S /\ \A y \in S : Min(S) <= y
<1> DEFINE R == OpToRel(<, Nat)
<1>1. IsWellFoundedOn(R, Nat)
  BY NatLessThanWellFounded
<1>2. \A x, y \in Nat : <<y, x>> \in R <=> y < x
  BY DEF OpToRel
<1> HIDE DEF R
<1>3. PICK x \in S : \A y \in S : ~(<<y, x>> \in R)
  BY <1>1, WFMin, Zenon
<1>4. ASSUME NEW y \in S
      PROVE  x <= y
  <2>1. x \in Nat /\ y \in Nat
    OBVIOUS
  <2>2. ~(y < x)
    BY <1>2, <1>3, <2>1, Zenon
  <2> QED
    BY <2>1, <2>2
<1>5. \E z \in S : \A y \in S : z <= y
  BY <1>4
<1> QED
  BY <1>5 DEF Min

(* The cap of a timer's age *)
LEMMA CapFacts ==
  ASSUME NEW a \in Int, NEW b \in Int
  PROVE  Min({a, b}) = IF a <= b THEN a ELSE b
<1> DEFINE m == IF a <= b THEN a ELSE b
<1>1. m \in {a, b} /\ \A y \in {a, b} : m <= y
  OBVIOUS
<1>2. \A x \in {a, b} : (\A y \in {a, b} : x <= y) => x = m
  OBVIOUS
<1>3. \E x \in {a, b} : \A y \in {a, b} : x <= y
  BY <1>1
<1>4. Min({a, b}) \in {a, b} /\ \A y \in {a, b} : Min({a, b}) <= y
  <2> DEFINE c == CHOOSE x \in {a, b} : \A y \in {a, b} : x <= y
  <2>1. c \in {a, b} /\ \A y \in {a, b} : c <= y
    BY <1>3
  <2>2. Min({a, b}) = c
    BY DEF Min
  <2> QED
    BY <2>1, <2>2
<1> QED
  BY <1>2, <1>4

-------------------------------------------------------------------------------
(* Lists *)

Members(s) == {s[i] : i \in 1 .. Len(s)}
Once(s) == \A i, j \in 1 .. Len(s) : s[i] = s[j] => i = j

(* ToSet, by places *)
LEMMA ToSetFacts ==
  ASSUME NEW T, NEW s \in Seq(T)
  PROVE  /\ DOMAIN s = 1 .. Len(s) /\ Len(s) \in Nat
         /\ ToSet(s) = Members(s) /\ Members(s) \subseteq T
         /\ s = << >> <=> Members(s) = {}
         /\ s = << >> <=> Len(s) = 0
<1>1. DOMAIN s = 1 .. Len(s) /\ Len(s) \in Nat /\ \A i \in 1 .. Len(s) : s[i] \in T
  OBVIOUS
<1>2. ToSet(s) = Members(s)
  BY <1>1 DEF ToSet, Members
<1>3. s = << >> <=> Len(s) = 0
  OBVIOUS
<1>4. Len(s) = 0 <=> Members(s) = {}
  <2>1. Len(s) = 0 => Members(s) = {}
    BY DEF Members
  <2>2. Len(s) # 0 => s[1] \in Members(s)
    BY <1>1 DEF Members
  <2> QED
    BY <2>1, <2>2
<1> QED
  BY <1>1, <1>2, <1>3, <1>4 DEF Members

(* s without its k-th item *)
Removed(s, k, t) ==
  /\ Len(t) = Len(s) - 1
  /\ \A i \in 1 .. Len(t) : t[i] = IF i < k THEN s[i] ELSE s[i + 1]

(* RemoveAt, by places *)
LEMMA RemoveAtFacts ==
  ASSUME NEW T, NEW s \in Seq(T), NEW k \in 1 .. Len(s)
  PROVE  RemoveAt(s, k) \in Seq(T) /\ Removed(s, k, RemoveAt(s, k))
<1> DEFINE N == Len(s)
           l == SubSeq(s, 1, k - 1)
           r == SubSeq(s, k + 1, N)
           t == l \o r
<1>1. N \in Nat /\ k \in 1 .. N
  OBVIOUS
<1>2. /\ l \in Seq(T) /\ Len(l) = k - 1
      /\ \A i \in 1 .. k - 1 : l[i] = s[i]
  <2>1. 1 .. k - 1 \subseteq 1 .. N /\ \A i \in 1 .. k - 1 : 1 + i - 1 = i
    BY <1>1
  <2> QED
    BY <1>1, <2>1, SubSeqProperties
<1>3. /\ r \in Seq(T) /\ Len(r) = N - k
      /\ \A i \in 1 .. N - k : r[i] = s[k + i]
  <2>1. k + 1 .. N \subseteq 1 .. N /\ \A i \in 1 .. N - k : (k + 1) + i - 1 = k + i
    BY <1>1
  <2> QED
    BY <1>1, <2>1, SubSeqProperties
<1>4. /\ t \in Seq(T) /\ Len(t) = N - 1
      /\ \A i \in 1 .. N - 1 : t[i] = IF i <= k - 1 THEN l[i] ELSE r[i - (k - 1)]
  <2> HIDE DEF l, r
  <2>1. Len(l) + Len(r) = N - 1
    BY <1>1, <1>2, <1>3
  <2>2. /\ t \in Seq(T) /\ Len(t) = Len(l) + Len(r)
        /\ \A i \in 1 .. Len(l) + Len(r) : t[i] = IF i <= Len(l) THEN l[i] ELSE r[i - Len(l)]
    BY <1>2, <1>3, ConcatProperties, Zenon
  <2> QED
    BY <1>2, <2>1, <2>2
<1>5. RemoveAt(s, k) = t
  BY DEF RemoveAt
<1> HIDE DEF t, l, r
<1>6. ASSUME NEW i \in 1 .. N - 1
      PROVE  t[i] = IF i < k THEN s[i] ELSE s[i + 1]
  <2>1. CASE i < k
    <3>1. i <= k - 1 /\ i \in 1 .. k - 1
      BY <1>1, <2>1
    <3> QED
      BY <1>2, <1>4, <2>1, <3>1
  <2>2. CASE ~(i < k)
    <3>1. ~(i <= k - 1) /\ i - (k - 1) \in 1 .. N - k /\ k + (i - (k - 1)) = i + 1
      BY <1>1, <2>2
    <3> QED
      BY <1>3, <1>4, <2>2, <3>1
  <2> QED
    BY <2>1, <2>2
<1>7. Removed(s, k, t)
  BY <1>4, <1>6 DEF Removed
<1> QED
  BY <1>4, <1>5, <1>7

(* Unlinking the item e leaves a list without duplicates the others. *)
Unlinked(s, e, t) == Once(t) /\ Members(t) = Members(s) \ {e}

(* What is left when an item is taken out of a list without duplicates *)
LEMMA RemovedFacts ==
  ASSUME NEW s, NEW k \in 1 .. Len(s), NEW t, Len(s) \in Nat, Removed(s, k, t), Once(s)
  PROVE  Unlinked(s, s[k], t)
<1> DEFINE N == Len(s)
<1>1. /\ N \in Nat /\ k \in 1 .. N /\ Len(t) = N - 1
      /\ \A i \in 1 .. N - 1 : t[i] = IF i < k THEN s[i] ELSE s[i + 1]
  BY DEF Removed
<1>2. \A i, j \in 1 .. N : s[i] = s[j] => i = j
  BY DEF Once
<1> HIDE DEF N
<1>3. \A i \in 1 .. N - 1 :
        /\ (i < k \/ ~(i < k)) /\ i \in 1 .. N /\ i + 1 \in 1 .. N /\ i + 1 # i
        /\ i < k => i # k
        /\ ~(i < k) => i + 1 # k
  BY <1>1
<1>4. ASSUME NEW i \in 1 .. N - 1, NEW j \in 1 .. N - 1, t[i] = t[j]
      PROVE  i = j
  <2>1. CASE i < k /\ j < k
    BY <1>1, <1>2, <1>3, <1>4, <2>1
  <2>2. CASE ~(i < k) /\ ~(j < k)
    <3>1. i + 1 = j + 1
      BY <1>1, <1>2, <1>3, <1>4, <2>2
    <3> QED
      BY <3>1
  <2>3. CASE i < k /\ ~(j < k)
    <3>1. i = j + 1
      BY <1>1, <1>2, <1>3, <1>4, <2>3
    <3> QED
      BY <1>1, <2>3, <3>1
  <2>4. CASE ~(i < k) /\ j < k
    <3>1. i + 1 = j
      BY <1>1, <1>2, <1>3, <1>4, <2>4
    <3> QED
      BY <1>1, <2>4, <3>1
  <2> QED
    BY <2>1, <2>2, <2>3, <2>4
<1>5. \A i \in 1 .. N - 1 : t[i] \in Members(s) /\ t[i] # s[k]
  <2>1. Members(s) = {s[i] : i \in 1 .. N}
    BY DEF Members, N
  <2> QED
    BY <1>1, <1>2, <1>3, <2>1
<1>6. \A j \in 1 .. N : s[j] # s[k] => \E i \in 1 .. N - 1 : t[i] = s[j]
  <2> SUFFICES ASSUME NEW j \in 1 .. N, s[j] # s[k]
               PROVE  \E i \in 1 .. N - 1 : t[i] = s[j]
    OBVIOUS
  <2>1. CASE j < k
    BY <1>1, <2>1
  <2>2. CASE ~(j < k)
    <3>1. j - 1 \in 1 .. N - 1 /\ ~(j - 1 < k) /\ (j - 1) + 1 = j
      BY <1>1, <2>2
    <3> QED
      BY <1>1, <3>1
  <2> QED
    BY <2>1, <2>2
<1>7. Members(t) = Members(s) \ {s[k]}
  <2>1. Members(s) = {s[i] : i \in 1 .. N} /\ Members(t) = {t[i] : i \in 1 .. N - 1}
    BY <1>1 DEF Members, N
  <2> QED
    BY <1>5, <1>6, <2>1
<1>8. Once(t)
  BY <1>1, <1>4 DEF Once
<1> QED
  BY <1>7, <1>8 DEF Unlinked

(* list_remove and the search of etimer_stop *)
LEMMA WithoutFacts ==
  ASSUME NEW T, NEW s \in Seq(T), NEW e, Once(s)
  PROVE  Without(s, e) \in Seq(T) /\ Unlinked(s, e, Without(s, e))
<1>1. /\ DOMAIN s = 1 .. Len(s) /\ Len(s) \in Nat /\ ToSet(s) = Members(s)
  BY ToSetFacts
<1>2. CASE e \in ToSet(s)
  <2> DEFINE k == CHOOSE i \in DOMAIN s : s[i] = e
  <2>1. k \in 1 .. Len(s) /\ s[k] = e
    BY <1>1, <1>2 DEF Members
  <2>2. Without(s, e) = RemoveAt(s, k)
    BY <1>2 DEF Without
  <2> HIDE DEF k
  <2>3. RemoveAt(s, k) \in Seq(T) /\ Removed(s, k, RemoveAt(s, k))
    BY <2>1, RemoveAtFacts
  <2>4. Unlinked(s, s[k], RemoveAt(s, k))
    BY <1>1, <2>1, <2>3, RemovedFacts
  <2> QED
    BY <2>1, <2>2, <2>3, <2>4
<1>3. CASE e \notin ToSet(s)
  BY <1>1, <1>3 DEF Without, Unlinked
<1> QED
  BY <1>2, <1>3

(* Putting a new item in front *)
LEMMA PushFacts ==
  ASSUME NEW T, NEW s \in Seq(T), NEW e \in T
  PROVE  /\ << e >> \o s \in Seq(T) /\ Members(<< e >> \o s) = Members(s) \cup {e}
         /\ Once(s) /\ e \notin Members(s) => Once(<< e >> \o s)
<1> DEFINE N == Len(s)
           t == << e >> \o s
<1>1. N \in Nat /\ s \in Seq(T)
  OBVIOUS
<1>2. /\ t \in Seq(T) /\ Len(t) = 1 + N
      /\ \A i \in 1 .. 1 + N : t[i] = IF i <= 1 THEN << e >>[i] ELSE s[i - 1]
  <2>1. << e >> \in Seq(T) /\ Len(<< e >>) = 1
    OBVIOUS
  <2> QED
    BY <1>1, <2>1, ConcatProperties
<1> HIDE DEF t
<1>3. t[1] = e /\ \A i \in 1 .. N : t[i + 1] = s[i]
  <2>1. 1 \in 1 .. 1 + N /\ \A i \in 1 .. N : i + 1 \in 1 .. 1 + N /\ ~(i + 1 <= 1) /\ (i + 1) - 1 = i
    BY <1>1
  <2> QED
    BY <1>2, <2>1
<1>4. \A j \in 1 .. 1 + N : j = 1 \/ (j - 1 \in 1 .. N /\ (j - 1) + 1 = j)
  BY <1>1
<1>5. \A j \in 1 .. 1 + N : j = 1 \/ t[j] = s[j - 1]
  BY <1>3, <1>4
<1>6. Members(t) = {t[j] : j \in 1 .. 1 + N} /\ Members(s) = {s[i] : i \in 1 .. N}
  BY <1>2 DEF Members, N
<1> HIDE DEF N
<1>7. Members(t) = Members(s) \cup {e}
  <2>1. \A j \in 1 .. 1 + N : t[j] \in Members(s) \cup {e}
    BY <1>3, <1>4, <1>5, <1>6
  <2>2. e \in Members(t) /\ \A i \in 1 .. N : s[i] \in Members(t)
    <3>1. 1 \in 1 .. 1 + N /\ \A i \in 1 .. N : i + 1 \in 1 .. 1 + N
      BY <1>1 DEF N
    <3> QED
      BY <1>3, <1>6, <3>1
  <2> QED
    BY <1>6, <2>1, <2>2
<1>8. ASSUME Once(s), e \notin Members(s)
      PROVE  Once(t)
  <2>1. \A i, j \in 1 .. N : s[i] = s[j] => i = j
    BY <1>8 DEF Once, N
  <2>2. \A i \in 1 .. N : s[i] # e
    BY <1>6, <1>8
  <2>3. ASSUME NEW i \in 1 .. 1 + N, NEW j \in 1 .. 1 + N, t[i] = t[j]
        PROVE  i = j
    <3>1. CASE i = 1 \/ j = 1
      BY <1>3, <1>4, <1>5, <2>2, <2>3, <3>1
    <3>2. CASE i # 1 /\ j # 1
      <4>1. i - 1 = j - 1
        BY <1>4, <1>5, <2>1, <2>3, <3>2
      <4> QED
        BY <4>1
    <3> QED
      BY <3>1, <3>2
  <2> QED
    BY <1>2, <2>3 DEF Once
<1> QED
  BY <1>2, <1>7, <1>8 DEF t

(* What is left of the list when p has exited *)
LEMMA CleanedFacts ==
  ASSUME timerlist \in Seq(Timers), Once(timerlist), NEW p, NEW list, Cleaned(p, list)
  PROVE  /\ list \in Seq(Timers) /\ Once(list)
         /\ \A t \in Members(list) : t \in Members(timerlist) /\ owner[t] # p
<1> DEFINE kept == {i \in DOMAIN timerlist : owner[timerlist[i]] # p}
           c == Cardinality(kept)
<1>1. /\ DOMAIN timerlist = 1 .. Len(timerlist) /\ Len(timerlist) \in Nat
      /\ \A i \in 1 .. Len(timerlist) : timerlist[i] \in Timers
  OBVIOUS
<1>2. c \in Nat
  <2>1. IsFiniteSet(1 .. Len(timerlist))
    BY <1>1, FS_Interval
  <2>2. IsFiniteSet(kept)
    BY <1>1, <2>1, FS_Subset
  <2> QED
    BY <2>2, FS_CardinalityType
<1>3. PICK at \in [1 .. c -> kept] :
        /\ \A i, j \in DOMAIN at : i < j => at[i] < at[j]
        /\ list = [i \in DOMAIN at |-> timerlist[at[i]]]
  BY DEF Cleaned
<1>4. \A k \in kept : k \in 1 .. Len(timerlist) /\ owner[timerlist[k]] # p
  BY <1>1
<1> HIDE DEF c, kept
<1>5. DOMAIN at = 1 .. c /\ list = [i \in 1 .. c |-> timerlist[at[i]]]
  BY <1>3
<1>6. \A i \in 1 .. c : /\ at[i] \in 1 .. Len(timerlist) /\ list[i] = timerlist[at[i]]
                        /\ list[i] \in Timers /\ owner[list[i]] # p
  BY <1>1, <1>3, <1>4, <1>5
<1>7. list \in Seq(Timers) /\ Len(list) = c
  <2>1. list \in [1 .. c -> Timers]
    BY <1>5, <1>6
  <2> QED
    BY <1>2, <2>1
<1>8. ASSUME NEW i \in 1 .. c, NEW j \in 1 .. c, list[i] = list[j]
      PROVE  i = j
  <2>1. at[i] = at[j] /\ at[i] \in Int
    BY <1>6, <1>8 DEF Once
  <2>2. ~(i < j) /\ ~(j < i)
    BY <1>3, <1>5, <2>1
  <2> QED
    BY <1>2, <2>2
<1> QED
  BY <1>6, <1>7, <1>8 DEF Once, Members

(* update_time stays within the width of the clock. *)
LEMMA UpdateTimeType ==
  ASSUME count \in Time, NEW list \in Seq(Timers), NEW st \in [Timers -> Time],
         NEW iv \in [Timers -> Time]
  PROVE  update_time(list, st, iv) \in Time
<1>1. 0 \in Time /\ Time \subseteq Int
  BY TimeAssumption DEF Time
<1>2. CASE list = << >>
  BY <1>1, <1>2 DEF update_time
<1>3. CASE list # << >>
  <2> DEFINE S == {(st[t] + iv[t] - count) % Wrap : t \in ToSet(list)}
  <2>1. ToSet(list) # {} /\ ToSet(list) \subseteq Timers
    BY <1>3, ToSetFacts
  <2>2. ASSUME NEW t \in ToSet(list)
        PROVE  st[t] + iv[t] - count \in Int
    <3>1. st[t] \in Time /\ iv[t] \in Time
      BY <2>1
    <3>2. st[t] \in Int /\ iv[t] \in Int /\ count \in Int
      BY <1>1, <3>1
    <3> QED
      BY <3>2
  <2>3. S # {} /\ S \subseteq Nat
    <3>1. \A t \in ToSet(list) : (st[t] + iv[t] - count) % Wrap \in Time
      BY <2>2, WrapFacts
    <3>2. Time \subseteq Nat
      BY TimeAssumption DEF Time
    <3> QED
      BY <2>1, <3>1, <3>2
  <2>4. update_time(list, st, iv) = (count + Min(S)) % Wrap
    BY <1>3 DEF update_time
  <2> HIDE DEF S
  <2>5. Min(S) \in Nat
    BY <2>3, MinFacts
  <2>6. count + Min(S) \in Int
    BY <1>1, <2>5
  <2> QED
    BY <2>4, <2>6, WrapFacts
<1> QED
  BY <1>2, <1>3

-------------------------------------------------------------------------------
(* t has an owner, which is on the list of processes unless it set t late. *)
Owned(t) == owner[t] # NONE /\ (owner[t] \in alive \/ t \in late)

(* Every timer on the list is there once and has an owner.                 *)
Sound == Once(timerlist) /\ \A t \in Members(timerlist) : Owned(t)

EtimerInv == TypeOK /\ Sound

(* add_timer: the list keeps each timer once, since one without an owner   *)
(* is not on it.                                                           *)
LEMMA AddSound ==
  ASSUME EtimerInv, NEW t \in Timers, NEW p \in Procs, NEW st \in Time, NEW iv \in Time,
         add_timer(t, p, st, iv), age' \in [Timers -> Int], \A u \in Timers : age'[u] <= Wrap
  PROVE  EtimerInv' /\ Members(timerlist') = Members(timerlist) \cup {t}
<1> USE DEF EtimerInv
<1>1. /\ timerlist \in Seq(Timers) /\ ToSet(timerlist) = Members(timerlist)
      /\ Members(timerlist) \subseteq Timers
  BY ToSetFacts DEF TypeOK
<1>2. /\ start' \in [Timers -> Time] /\ interval' \in [Timers -> Time]
      /\ owner' \in [Timers -> Procs \cup {NONE}] /\ owner'[t] = p
      /\ \A u \in Timers \ {t} : owner'[u] = owner[u]
  BY DEF add_timer, TypeOK
<1>3. /\ late' = IF p \in alive THEN late \ {t} ELSE late \cup {t}
      /\ alive' = alive /\ count' = count /\ events' = events
      /\ needspoll' = TRUE /\ pc' = pc /\ t_at' = t_at /\ lag' = lag
      /\ calls < MaxCalls /\ calls' = calls + 1
  BY DEF add_timer, Call, loopVars
<1>4. /\ timerlist' \in Seq(Timers) /\ Once(timerlist')
      /\ Members(timerlist') = Members(timerlist) \cup {t}
  <2>1. CASE owner[t] # NONE /\ t \in Listed
    <3>1. timerlist' = timerlist /\ t \in Members(timerlist)
      BY <1>1, <2>1 DEF add_timer, Add, Listed
    <3> QED
      BY <1>1, <3>1 DEF Sound
  <2>2. CASE ~(owner[t] # NONE /\ t \in Listed)
    <3>1. timerlist' = << t >> \o timerlist
      BY <2>2 DEF add_timer, Add
    <3>2. t \notin Members(timerlist) /\ Once(timerlist)
      BY <1>1, <2>2 DEF Sound, Owned, Listed
    <3> QED
      BY <1>1, <3>1, <3>2, PushFacts
  <2> QED
    BY <2>1, <2>2
<1>5. next_expiration' \in Time
  <2>1. next_expiration' = update_time(timerlist', start', interval') /\ count \in Time
    BY DEF add_timer, TypeOK
  <2> QED
    BY <1>2, <1>4, <2>1, UpdateTimeType
<1>6. Sound'
  <2>1. Owned(t)'
    <3>1. NONE \notin Procs
      BY TimeAssumption
    <3> QED
      BY <1>2, <1>3, <3>1 DEF Owned
  <2>2. ASSUME NEW u \in Members(timerlist), u # t
        PROVE  Owned(u)'
    <3>1. u \in Timers /\ Owned(u) /\ owner'[u] = owner[u]
      BY <1>1, <1>2, <2>2 DEF Sound
    <3> QED
      BY <1>3, <2>2, <3>1 DEF Owned
  <2>3. \A u \in Members(timerlist') : Owned(u)'
    BY <1>4, <2>1, <2>2
  <2> QED
    BY <1>4, <2>3 DEF Sound, Members, Once
<1>7. calls' \in 0 .. MaxCalls
  BY <1>3, TimeAssumption DEF TypeOK
<1>8. TypeOK'
  <2>1. late' \subseteq Timers
    BY <1>3 DEF TypeOK
  <2> QED
    BY <1>2, <1>3, <1>4, <1>5, <1>7, <2>1 DEF TypeOK
<1> QED
  BY <1>4, <1>6, <1>8

(* etimer_adjust leaves the list alone. *)
LEMMA AdjustSound ==
  ASSUME EtimerInv, NEW t \in Timers, NEW d \in Diffs, etimer_adjust(t, d)
  PROVE  EtimerInv' /\ timerlist' = timerlist
<1> USE DEF EtimerInv
<1>1. /\ timerlist' = timerlist /\ interval' = interval /\ owner' = owner /\ count' = count
      /\ needspoll' = needspoll /\ events' = events /\ alive' = alive /\ late' = late
      /\ pc' = pc /\ t_at' = t_at /\ lag' = lag /\ calls < MaxCalls /\ calls' = calls + 1
  BY DEF etimer_adjust, Call, loopVars
<1>2. d \in Int /\ start[t] \in Int /\ age[t] \in Int /\ Wrap \in Int /\ MaxCalls \in Nat
  BY TimeAssumption DEF TypeOK, Time
<1>3. (start[t] + d) % Wrap \in Time
  BY <1>2, WrapFacts
<1>4. start' \in [Timers -> Time]
  BY <1>3 DEF etimer_adjust, TypeOK
<1>5. age' \in [Timers -> Int] /\ \A u \in Timers : age'[u] <= Wrap
  <2> DEFINE new == Min({age[t] - d, Wrap})
  <2>1. new \in Int /\ new <= Wrap
    BY <1>2, CapFacts
  <2>2. age' = [age EXCEPT ![t] = new]
    BY DEF etimer_adjust
  <2> HIDE DEF new
  <2> QED
    BY <2>1, <2>2 DEF TypeOK
<1>6. next_expiration' \in Time
  BY <1>4, UpdateTimeType DEF etimer_adjust, TypeOK
<1>7. calls' \in 0 .. MaxCalls
  BY <1>1, <1>2 DEF TypeOK
<1>8. TypeOK'
  BY <1>1, <1>4, <1>5, <1>6, <1>7 DEF TypeOK
<1> QED
  BY <1>1, <1>8 DEF Sound, Owned

(* etimer_stop *)
LEMMA StopSound ==
  ASSUME EtimerInv, NEW t \in Timers, etimer_stop(t)
  PROVE  EtimerInv' /\ Members(timerlist') = Members(timerlist) \ {t}
<1> USE DEF EtimerInv
<1>1. /\ start' = start /\ interval' = interval /\ age' = age /\ count' = count
      /\ needspoll' = needspoll /\ events' = events /\ alive' = alive /\ late' = late
      /\ pc' = pc /\ t_at' = t_at /\ lag' = lag /\ calls < MaxCalls /\ calls' = calls + 1
  BY DEF etimer_stop, Call, loopVars
<1>2. timerlist \in Seq(Timers) /\ Once(timerlist) /\ Members(timerlist) \subseteq Timers
  BY ToSetFacts DEF TypeOK, Sound
<1>3. timerlist' \in Seq(Timers) /\ Unlinked(timerlist, t, timerlist')
  BY <1>2, WithoutFacts DEF etimer_stop
<1>4. Once(timerlist') /\ Members(timerlist') = Members(timerlist) \ {t}
  BY <1>3 DEF Unlinked
<1>5. /\ owner' \in [Timers -> Procs \cup {NONE}]
      /\ \A u \in Timers \ {t} : owner'[u] = owner[u]
  BY DEF etimer_stop, TypeOK
<1>6. next_expiration' \in Time
  <2>1. update_time(timerlist', start, interval) \in Time
    BY <1>3, UpdateTimeType DEF TypeOK
  <2> QED
    BY <2>1 DEF etimer_stop, TypeOK
<1>7. calls' \in 0 .. MaxCalls
  BY <1>1, TimeAssumption DEF TypeOK
<1>8. TypeOK'
  BY <1>1, <1>3, <1>5, <1>6, <1>7 DEF TypeOK
<1>9. \A u \in Members(timerlist') : Owned(u)'
  BY <1>1, <1>2, <1>4, <1>5 DEF Sound, Owned
<1>10. Sound'
  BY <1>4, <1>9 DEF Sound, Once, Members
<1> QED
  BY <1>4, <1>8, <1>10

(* The events of an event queue that is not full *)
LEMMA PostType ==
  ASSUME TypeOK, Room, NEW p \in Procs \cup {NONE}, NEW t \in Timers \cup {NONE}
  PROVE  /\ Append(events, <<p, t>>) \in Seq((Procs \cup {NONE}) \X (Timers \cup {NONE}))
         /\ Len(Append(events, <<p, t>>)) <= NumEvents
<1> DEFINE E == (Procs \cup {NONE}) \X (Timers \cup {NONE})
           e == <<p, t>>
<1>1. events \in Seq(E) /\ e \in E
  BY DEF TypeOK
<1>2. Len(events) < NumEvents /\ NumEvents \in Nat
  BY TimeAssumption DEF Room
<1> HIDE DEF E, e
<1>3. Append(events, e) \in Seq(E) /\ Len(Append(events, e)) = Len(events) + 1
  BY <1>1
<1>4. Len(events) \in Nat
  BY <1>1
<1>5. Len(Append(events, e)) <= NumEvents
  BY <1>2, <1>3, <1>4
<1> QED
  BY <1>3, <1>5 DEF E, e

(* The calls that are not about a timer *)
LEMMA OtherCallsSound ==
  ASSUME EtimerInv, NEW p \in Procs, PostOther(p) \/ Exit(p) \/ StartAgain(p)
  PROVE  EtimerInv' /\ Members(timerlist') \subseteq Members(timerlist)
<1> USE DEF EtimerInv
<1>1. calls' \in 0 .. MaxCalls
  BY TimeAssumption DEF TypeOK, PostOther, Exit, StartAgain, Call
<1>2. CASE PostOther(p)
  <2>1. /\ count' = count /\ timerlist' = timerlist /\ start' = start /\ interval' = interval
        /\ owner' = owner /\ next_expiration' = next_expiration /\ age' = age /\ late' = late
        /\ needspoll' = needspoll /\ alive' = alive /\ pc' = pc /\ t_at' = t_at /\ lag' = lag
    BY <1>2 DEF PostOther, timerVars, loopVars
  <2>2. /\ events' \in Seq((Procs \cup {NONE}) \X (Timers \cup {NONE}))
        /\ Len(events') <= NumEvents
    BY <1>2, PostType DEF PostOther
  <2> QED
    BY <1>1, <2>1, <2>2 DEF TypeOK, Sound, Owned
<1>3. CASE Exit(p)
  <2>1. /\ count' = count /\ start' = start /\ interval' = interval
        /\ owner' = owner /\ next_expiration' = next_expiration /\ age' = age /\ late' = late
        /\ needspoll' = needspoll /\ events' = events /\ pc' = pc /\ t_at' = t_at /\ lag' = lag
        /\ alive' = alive \ {p} /\ Cleaned(p, timerlist')
    BY <1>3 DEF Exit, loopVars
  <2>2. /\ timerlist' \in Seq(Timers) /\ Once(timerlist')
        /\ \A t \in Members(timerlist') : t \in Members(timerlist) /\ owner[t] # p
    BY <2>1, CleanedFacts DEF TypeOK, Sound
  <2>3. TypeOK'
    BY <1>1, <2>1, <2>2 DEF TypeOK
  <2>4. \A t \in Members(timerlist') : Owned(t)'
    BY <2>1, <2>2 DEF Sound, Owned
  <2>5. Sound'
    BY <2>2, <2>4 DEF Sound, Once, Members
  <2> QED
    BY <2>2, <2>3, <2>5
<1>4. CASE StartAgain(p)
  <2>1. /\ count' = count /\ timerlist' = timerlist /\ start' = start /\ interval' = interval
        /\ owner' = owner /\ next_expiration' = next_expiration /\ age' = age /\ late' = late
        /\ needspoll' = needspoll /\ events' = events /\ pc' = pc /\ t_at' = t_at /\ lag' = lag
        /\ alive' = alive \cup {p}
    BY <1>4 DEF StartAgain, timerVars, loopVars
  <2>2. TypeOK'
    BY <1>1, <2>1 DEF TypeOK
  <2> QED
    BY <2>1, <2>2 DEF Sound, Owned
<1> QED
  BY <1>2, <1>3, <1>4

(* The tick interrupt *)
LEMMA TickSound ==
  ASSUME EtimerInv, Tick
  PROVE  EtimerInv' /\ timerlist' = timerlist
<1> USE DEF EtimerInv
<1>1. /\ timerlist' = timerlist /\ start' = start /\ interval' = interval /\ owner' = owner
      /\ next_expiration' = next_expiration /\ events' = events /\ alive' = alive /\ late' = late
      /\ pc' = pc /\ t_at' = t_at /\ calls' = calls /\ lag < MaxLag /\ lag' = lag + 1
      /\ count' = (count + 1) % Wrap
  BY DEF Tick
<1>2. lag' \in 0 .. MaxLag
  BY <1>1, TimeAssumption DEF TypeOK
<1>3. count' \in Time
  <2>1. count + 1 \in Int
    BY TimeAssumption DEF TypeOK, Time
  <2> QED
    BY <1>1, <2>1, WrapFacts
<1>4. age' \in [Timers -> Int] /\ \A t \in Timers : age'[t] <= Wrap
  <2>1. age' = [t \in Timers |-> Min({age[t] + 1, Wrap})]
    BY DEF Tick
  <2>2. \A t \in Timers : Min({age[t] + 1, Wrap}) \in Int /\ Min({age[t] + 1, Wrap}) <= Wrap
    <3> SUFFICES ASSUME NEW t \in Timers
                 PROVE  Min({age[t] + 1, Wrap}) \in Int /\ Min({age[t] + 1, Wrap}) <= Wrap
      OBVIOUS
    <3>1. age[t] + 1 \in Int /\ Wrap \in Int
      BY TimeAssumption DEF TypeOK
    <3> QED
      BY <3>1, CapFacts
  <2> QED
    BY <2>1, <2>2
<1>5. needspoll' \in BOOLEAN
  BY DEF Tick
<1>6. TypeOK'
  BY <1>1, <1>2, <1>3, <1>4, <1>5 DEF TypeOK
<1> QED
  BY <1>1, <1>6 DEF Sound, Owned

(* An expired timer leaves the list. *)
LEMMA FireSound ==
  ASSUME EtimerInv, Scan, NEW t, t = timerlist[t_at], Fire(t), Room
  PROVE  /\ EtimerInv' /\ t \in Members(timerlist)
         /\ Members(timerlist') = Members(timerlist) \ {t}
<1> USE DEF EtimerInv
<1>1. /\ count' = count /\ start' = start /\ interval' = interval /\ age' = age
      /\ needspoll' = needspoll /\ alive' = alive /\ late' = late
      /\ pc' = pc /\ t_at' = 1 /\ lag' = lag
      /\ calls' = calls /\ events' = Append(events, <<owner[t], t>>)
  BY DEF Scan, Fire
<1>2. /\ timerlist \in Seq(Timers) /\ Once(timerlist) /\ Members(timerlist) \subseteq Timers
      /\ Len(timerlist) \in Nat
  BY ToSetFacts DEF TypeOK, Sound
<1>3. t_at \in 1 .. Len(timerlist)
  BY <1>2 DEF Scan, TypeOK
<1>4. t \in Members(timerlist)
  BY <1>3 DEF Members
<1>5. timerlist' \in Seq(Timers) /\ Removed(timerlist, t_at, timerlist')
  BY <1>2, <1>3, RemoveAtFacts DEF Fire
<1>6. Unlinked(timerlist, t, timerlist')
  BY <1>2, <1>3, <1>5, RemovedFacts
<1>7. Once(timerlist') /\ Members(timerlist') = Members(timerlist) \ {t}
  BY <1>6 DEF Unlinked
<1>8. /\ owner' \in [Timers -> Procs \cup {NONE}] /\ owner[t] \in Procs \cup {NONE}
      /\ \A u \in Timers \ {t} : owner'[u] = owner[u]
  BY <1>2, <1>4 DEF Fire, TypeOK
<1>9. next_expiration' \in Time
  BY <1>5, UpdateTimeType DEF Fire, TypeOK
<1>10. /\ events' \in Seq((Procs \cup {NONE}) \X (Timers \cup {NONE}))
       /\ Len(events') <= NumEvents
  BY <1>1, <1>2, <1>4, <1>8, PostType
<1>11. TypeOK'
  BY <1>1, <1>5, <1>8, <1>9, <1>10 DEF TypeOK
<1>12. \A u \in Members(timerlist') : Owned(u)'
  BY <1>1, <1>2, <1>7, <1>8 DEF Sound, Owned
<1>13. Sound'
  BY <1>7, <1>12 DEF Sound, Once, Members
<1> QED
  BY <1>4, <1>7, <1>11, <1>13

(* The other steps of process_run leave the list alone. *)
LEMMA LoopSound ==
  ASSUME EtimerInv,
         \/ Run \/ ScanEnd \/ Take \/ Return
         \/ Scan /\ Pass(timerlist[t_at])
  PROVE  EtimerInv' /\ timerVars' = timerVars
<1> USE DEF EtimerInv
<1>1. /\ count' = count /\ timerlist' = timerlist /\ start' = start /\ interval' = interval
      /\ owner' = owner /\ next_expiration' = next_expiration /\ age' = age
      /\ alive' = alive /\ late' = late /\ calls' = calls
  BY DEF Run, ScanEnd, Take, Return, Scan, Pass, timerVars
<1>2. lag' \in 0 .. MaxLag
  BY TimeAssumption DEF Run, ScanEnd, Take, Return, Scan, TypeOK
<1>3. t_at' \in Nat \ {0}
  BY DEF Run, ScanEnd, Take, Return, Scan, Pass, TypeOK
<1>4. pc' \in Places
  BY DEF Run, ScanEnd, Take, Return, Scan, Places, TypeOK
<1>5. needspoll' \in BOOLEAN
  BY DEF Run, ScanEnd, Take, Return, Scan, Pass, TypeOK
<1>6. /\ events' \in Seq((Procs \cup {NONE}) \X (Timers \cup {NONE}))
      /\ Len(events') <= NumEvents
  <2> DEFINE E == (Procs \cup {NONE}) \X (Timers \cup {NONE})
  <2>1. events \in Seq(E) /\ Len(events) <= NumEvents /\ NumEvents \in Nat
    BY TimeAssumption DEF TypeOK
  <2>2. events' = events \/ (events # << >> /\ events' = Tail(events))
    BY DEF Run, ScanEnd, Take, Return, Scan, Pass
  <2> HIDE DEF E
  <2>3. events # << >> => Tail(events) \in Seq(E) /\ Len(Tail(events)) = Len(events) - 1 /\ Len(events) \in Nat
    BY <2>1
  <2>4. events' \in Seq(E) /\ Len(events') <= NumEvents
    BY <2>1, <2>2, <2>3
  <2> QED
    BY <2>4 DEF E
<1>7. TypeOK'
  BY <1>1, <1>2, <1>3, <1>4, <1>5, <1>6 DEF TypeOK
<1> QED
  BY <1>1, <1>7 DEF Sound, Owned, timerVars

(* A step of the scan posts the event of an expired timer, or passes on. *)
LEMMA ScanCases ==
  ASSUME Scan
  PROVE  \/ Fire(timerlist[t_at]) /\ Room /\ timer_expired(timerlist[t_at])
         \/ Pass(timerlist[t_at])
  BY DEF Scan

(* The calls that set a timer again are all add_timer. *)
LEMMA SetsAdd ==
  ASSUME EtimerInv, NEW t \in Timers, NEW p \in Procs,
         \/ \E iv \in Intervals : etimer_set(t, p, iv)
         \/ etimer_restart(t, p)
         \/ etimer_reset(t, p)
  PROVE  /\ EtimerInv' /\ Members(timerlist') = Members(timerlist) \cup {t}
         /\ \E st, iv \in Time : add_timer(t, p, st, iv)
<1>1. /\ count \in Time /\ start[t] \in Time /\ interval[t] \in Time /\ Intervals \subseteq Time
      /\ age \in [Timers -> Int] /\ \A u \in Timers : age[u] <= Wrap
  BY TimeAssumption DEF EtimerInv, TypeOK, Time
<1>2. Time \subseteq Int /\ Wrap \in Nat /\ \A x \in Time : x >= 0
  BY TimeAssumption DEF Time
<1>3. ASSUME NEW iv \in Intervals, etimer_set(t, p, iv)
      PROVE  /\ EtimerInv' /\ Members(timerlist') = Members(timerlist) \cup {t}
             /\ \E st, i \in Time : add_timer(t, p, st, i)
  <2>1. add_timer(t, p, count, iv) /\ age' = [age EXCEPT ![t] = 0]
    BY <1>3 DEF etimer_set
  <2>2. age' \in [Timers -> Int] /\ \A u \in Timers : age'[u] <= Wrap
    BY <1>1, <1>2, <2>1
  <2>3. count \in Time /\ iv \in Time
    BY <1>1
  <2> QED
    BY <2>1, <2>2, <2>3, AddSound
<1>4. CASE etimer_restart(t, p)
  <2>1. add_timer(t, p, count, interval[t]) /\ age' = [age EXCEPT ![t] = 0]
    BY <1>4 DEF etimer_restart
  <2>2. age' \in [Timers -> Int] /\ \A u \in Timers : age'[u] <= Wrap
    BY <1>1, <1>2, <2>1
  <2> QED
    BY <1>1, <2>1, <2>2, AddSound
<1>5. CASE etimer_reset(t, p)
  <2> DEFINE st == (start[t] + interval[t]) % Wrap
             new == age[t] - interval[t]
  <2>1. add_timer(t, p, st, interval[t]) /\ age' = [age EXCEPT ![t] = new]
    BY <1>5 DEF etimer_reset
  <2>2. new \in Int /\ new <= Wrap
    <3>1. age[t] \in Int /\ interval[t] \in Int /\ interval[t] >= 0 /\ age[t] <= Wrap
      BY <1>1, <1>2
    <3> QED
      BY <1>2, <3>1
  <2>3. st \in Time
    <3>1. start[t] \in Int /\ interval[t] \in Int
      BY <1>1, <1>2
    <3>2. start[t] + interval[t] \in Int
      BY <3>1
    <3> QED
      BY <3>2, WrapFacts
  <2> HIDE DEF st, new
  <2>4. age' \in [Timers -> Int] /\ \A u \in Timers : age'[u] <= Wrap
    BY <1>1, <2>1, <2>2
  <2> QED
    BY <1>1, <2>1, <2>3, <2>4, AddSound
<1> QED
  BY <1>3, <1>4, <1>5

(* Every step keeps the types and the list. *)
LEMMA EtimerNext == EtimerInv /\ [Next]_vars => EtimerInv'
<1> SUFFICES ASSUME EtimerInv, [Next]_vars
             PROVE  EtimerInv'
  OBVIOUS
<1>1. CASE Tick
  BY <1>1, TickSound
<1>2. CASE Loop
  <2>1. CASE Scan
    BY <2>1, ScanCases, FireSound, LoopSound
  <2>2. CASE Run \/ ScanEnd \/ Take \/ Return
    BY <2>2, LoopSound
  <2> QED
    BY <1>2, <2>1, <2>2 DEF Loop
<1>3. CASE Calls
  <2>1. ASSUME NEW t \in Timers, NEW p \in Procs,
               \/ \E iv \in Intervals : etimer_set(t, p, iv)
               \/ etimer_restart(t, p)
               \/ etimer_reset(t, p)
        PROVE  EtimerInv'
    BY <2>1, SetsAdd
  <2>2. ASSUME NEW t \in Timers, etimer_stop(t) \/ \E d \in Diffs : etimer_adjust(t, d)
        PROVE  EtimerInv'
    BY <2>2, StopSound, AdjustSound
  <2>3. ASSUME NEW p \in Procs, PostOther(p) \/ Exit(p) \/ StartAgain(p)
        PROVE  EtimerInv'
    BY <2>3, OtherCallsSound
  <2> QED
    BY <1>3, <2>1, <2>2, <2>3 DEF Calls
<1>4. CASE UNCHANGED vars
  BY <1>4 DEF vars, timerVars, loopVars, EtimerInv, TypeOK, Sound, Owned, Members, Once
<1> QED
  BY <1>1, <1>2, <1>3, <1>4 DEF Next

(* At the start there are no timers. *)
LEMMA EtimerInit == Init => EtimerInv
<1> SUFFICES ASSUME Init
             PROVE  EtimerInv
  OBVIOUS
<1> USE DEF Init
<1>1. 0 \in Time
  BY TimeAssumption DEF Time
<1>2. TypeOK
  <2>1. start \in [Timers -> Time] /\ interval \in [Timers -> Time]
    BY <1>1
  <2>2. /\ owner \in [Timers -> Procs \cup {NONE}] /\ needspoll \in BOOLEAN /\ alive \subseteq Procs
        /\ late \subseteq Timers
    OBVIOUS
  <2>3. age \in [Timers -> Int] /\ \A t \in Timers : age[t] <= Wrap
    BY TimeAssumption
  <2>4. /\ events \in Seq((Procs \cup {NONE}) \X (Timers \cup {NONE}))
        /\ timerlist \in Seq(Timers)
    OBVIOUS
  <2>5. Len(events) <= NumEvents
    BY TimeAssumption
  <2>6. /\ t_at \in Nat \ {0} /\ lag \in 0 .. MaxLag /\ calls \in 0 .. MaxCalls
        /\ pc \in Places
    BY TimeAssumption DEF Places
  <2>7. {count, next_expiration} \subseteq Time
    BY <1>1
  <2> HIDE DEF Init
  <2> QED
    BY <2>1, <2>2, <2>3, <2>4, <2>5, <2>6, <2>7 DEF TypeOK
<1>3. Sound
  BY DEF Sound, Once, Members
<1> QED
  BY <1>2, <1>3 DEF EtimerInv

(* The types and the list together *)
THEOREM EtimerInvariant == Spec => []EtimerInv
  BY EtimerInit, EtimerNext, PTL DEF Spec

(* The variables of etimer.c keep their types: the event queue its bound,  *)
(* times the width of the clock.                                           *)
THEOREM EtimerTyped == Spec => []TypeOK
<1>1. EtimerInv => TypeOK
  BY DEF EtimerInv
<1> QED
  BY <1>1, EtimerInvariant, PTL

(* A timer is on the list once and has an owner, which is on the list of   *)
(* processes unless it set the timer after its exit.                       *)
THEOREM TimersSound == Spec => []ListSound
<1>1. EtimerInv => ListSound
  <2> SUFFICES ASSUME EtimerInv
               PROVE  ListSound
    OBVIOUS
  <2>1. DOMAIN timerlist = 1 .. Len(timerlist) /\ Listed = Members(timerlist)
    BY ToSetFacts DEF EtimerInv, TypeOK, Listed
  <2> QED
    BY <2>1 DEF EtimerInv, Sound, Owned, Once, ListSound
<1> QED
  BY <1>1, EtimerInvariant, PTL

-------------------------------------------------------------------------------
(* The clock's arithmetic against real ticks *)

(* A timer is reset or adjusted less than a wrap of the clock after its    *)
(* start.                                                                  *)
Punctual == \A iv \in Intervals \cup {0} : iv + MaxLate + 1 < Wrap

(* The time from s to c on the clock *)
Since(c, s) == (c - s) % Wrap

(* A difference on the clock is the age, up to a wrap. *)
Ages ==
  \A t \in Timers :
    /\ interval[t] \in Intervals \cup {0} /\ age[t] >= 0
    /\ age[t] < Wrap => Since(count, start[t]) = age[t]

(* The difference of two times, and how it moves *)
LEMMA DiffFacts ==
  ASSUME NEW c \in Time, NEW s \in Time
  PROVE  /\ Since(c, s) = IF s <= c THEN c - s ELSE c - s + Wrap
         /\ (c - s + 1) % Wrap = IF Since(c, s) + 1 = Wrap THEN 0 ELSE Since(c, s) + 1
         /\ Since(c, s) + 1 < Wrap => Since((c + 1) % Wrap, s) = Since(c, s) + 1
         /\ \A d \in Int : Since(c, s) - d \in Time =>
              Since(c, (s + d) % Wrap) = Since(c, s) - d
         /\ \A v \in Time : v >= Since(c, s) => (s + v - c) % Wrap = v - Since(c, s)
<1>1. Wrap \in Nat /\ Wrap > 0 /\ c \in Int /\ s \in Int /\ 0 <= c /\ c < Wrap /\ 0 <= s /\ s < Wrap
  BY TimeAssumption DEF Time
<1> DEFINE a == IF s <= c THEN c - s ELSE c - s + Wrap
<1>2. \A x \in Int : 0 <= x /\ x < Wrap => x % Wrap = x
  BY <1>1, WrapFacts DEF Time
<1>3. \A x \in Int : x >= -Wrap /\ x < 0 => x % Wrap = x + Wrap
  BY WrapFacts
<1>4. \A x \in Int : x >= Wrap /\ x < 2 * Wrap => x % Wrap = x - Wrap
  BY WrapFacts
<1>5. Since(c, s) = a
  <2>1. CASE s <= c
    <3>1. c - s \in Int /\ 0 <= c - s /\ c - s < Wrap
      BY <1>1, <2>1
    <3> QED
      BY <1>2, <2>1, <3>1 DEF Since
  <2>2. CASE ~(s <= c)
    <3>1. c - s \in Int /\ c - s >= -Wrap /\ c - s < 0
      BY <1>1, <2>2
    <3> QED
      BY <1>3, <2>2, <3>1 DEF Since
  <2> QED
    BY <2>1, <2>2
<1>6. (c - s + 1) % Wrap = IF a + 1 = Wrap THEN 0 ELSE a + 1
  <2> DEFINE x == c - s + 1
  <2>1. x \in Int /\ x >= -Wrap /\ x <= Wrap
    BY <1>1
  <2>2. x % Wrap = IF x < 0 THEN x + Wrap ELSE IF x = Wrap THEN 0 ELSE x
    <3> HIDE DEF x
    <3>1. x = Wrap => x % Wrap = x - Wrap /\ x - Wrap = 0
      BY <1>1, <1>4, <2>1
    <3> QED
      BY <1>1, <1>2, <1>3, <2>1, <3>1
  <2>3. (IF x < 0 THEN x + Wrap ELSE IF x = Wrap THEN 0 ELSE x) = (IF a + 1 = Wrap THEN 0 ELSE a + 1)
    BY <1>1
  <2> QED
    BY <2>2, <2>3
<1>7. ASSUME a + 1 < Wrap
      PROVE  Since((c + 1) % Wrap, s) = a + 1
  <2> DEFINE y == IF c + 1 = Wrap THEN 0 ELSE c + 1
             x == y - s
  <2>1. (c + 1) % Wrap = y
    <3>1. CASE c + 1 = Wrap
      <4>1. c + 1 \in Int /\ c + 1 >= Wrap /\ c + 1 < 2 * Wrap /\ (c + 1) - Wrap = 0
        BY <1>1, <3>1
      <4> QED
        BY <1>4, <3>1, <4>1
    <3>2. CASE c + 1 # Wrap
      <4>1. c + 1 \in Int /\ 0 <= c + 1 /\ c + 1 < Wrap
        BY <1>1, <3>2
      <4> QED
        BY <1>2, <3>2, <4>1
    <3> QED
      BY <3>1, <3>2
  <2>2. x \in Int /\ x >= -Wrap /\ x < Wrap /\ (IF x < 0 THEN x + Wrap ELSE x) = a + 1
    BY <1>1, <1>7
  <2>3. x % Wrap = IF x < 0 THEN x + Wrap ELSE x
    <3> HIDE DEF x
    <3> QED
      BY <1>2, <1>3, <2>2
  <2> QED
    BY <2>1, <2>2, <2>3 DEF Since
<1>8. ASSUME NEW d \in Int, a - d \in Time
      PROVE  Since(c, (s + d) % Wrap) = a - d
  <2> DEFINE z == s + d
             y == IF z < 0 THEN z + Wrap ELSE IF z < Wrap THEN z ELSE z - Wrap
             x == c - y
  <2>1. a - d >= 0 /\ a - d < Wrap /\ a - d \in Int
    BY <1>1, <1>8 DEF Time
  <2>2. z \in Int /\ z >= -Wrap /\ z < 2 * Wrap
    BY <1>1, <2>1
  <2>3. z % Wrap = y
    <3> HIDE DEF z
    <3> QED
      BY <1>1, <1>2, <1>3, <1>4, <2>2
  <2>4. x \in Int /\ x >= -Wrap /\ x < Wrap /\ (IF x < 0 THEN x + Wrap ELSE x) = a - d
    BY <1>1, <2>1, <2>2
  <2>5. x % Wrap = IF x < 0 THEN x + Wrap ELSE x
    <3> HIDE DEF x
    <3> QED
      BY <1>2, <1>3, <2>4
  <2> QED
    BY <2>3, <2>4, <2>5 DEF Since
<1>9. ASSUME NEW v \in Time, v >= a
      PROVE  (s + v - c) % Wrap = v - a
  <2> DEFINE z == s + v - c
             y == IF z < 0 THEN z + Wrap ELSE IF z < Wrap THEN z ELSE z - Wrap
  <2>1. v \in Int /\ 0 <= v /\ v < Wrap
    BY <1>1 DEF Time
  <2>2. z \in Int /\ z >= -Wrap /\ z < 2 * Wrap /\ y = v - a
    BY <1>1, <1>9, <2>1
  <2>3. z % Wrap = y
    <3> HIDE DEF z
    <3> QED
      BY <1>1, <1>2, <1>3, <1>4, <2>2
  <2> QED
    BY <2>2, <2>3
<1> HIDE DEF a
<1>10. Since(c, s) = IF s <= c THEN c - s ELSE c - s + Wrap
  BY <1>5 DEF a
<1> QED
  BY <1>5, <1>6, <1>7, <1>8, <1>9, <1>10

(* One timer is given another start and age. *)
LEMMA AgesChanged ==
  ASSUME EtimerInv, Ages, NEW t \in Timers, NEW st, NEW iv \in Intervals \cup {0}, NEW g \in Int,
         g >= 0, g < Wrap => Since(count, st) = g, count' = count,
         start' = [start EXCEPT ![t] = st], interval' = [interval EXCEPT ![t] = iv],
         age' = [age EXCEPT ![t] = g]
  PROVE  Ages'
<1>1. start \in [Timers -> Time] /\ interval \in [Timers -> Time] /\ age \in [Timers -> Int]
  BY DEF EtimerInv, TypeOK
<1>2. start'[t] = st /\ interval'[t] = iv /\ age'[t] = g
  BY <1>1
<1>3. \A u \in Timers \ {t} :
        start'[u] = start[u] /\ interval'[u] = interval[u] /\ age'[u] = age[u]
  BY <1>1
<1> SUFFICES ASSUME NEW u \in Timers
             PROVE  /\ interval'[u] \in Intervals \cup {0} /\ age'[u] >= 0
                    /\ age'[u] < Wrap => Since(count, start'[u]) = age'[u]
  BY DEF Ages, Since
<1>4. CASE u = t
  BY <1>2, <1>4
<1>5. CASE u # t
  BY <1>3, <1>5 DEF Ages
<1> QED
  BY <1>4, <1>5

(* Facts about one timer, for the steps below *)
LEMMA TimerFacts ==
  ASSUME EtimerInv, NEW t \in Timers
  PROVE  /\ count \in Time /\ start[t] \in Time /\ interval[t] \in Time /\ age[t] \in Int
         /\ count \in Int /\ start[t] \in Int /\ interval[t] \in Int /\ age[t] <= Wrap
         /\ interval[t] >= 0 /\ interval[t] < Wrap /\ Wrap \in Nat /\ Wrap > 0 /\ MaxLate \in Nat
<1>1. count \in Time /\ start[t] \in Time /\ interval[t] \in Time /\ age[t] \in Int /\ age[t] <= Wrap
  BY DEF EtimerInv, TypeOK
<1>2. Wrap \in Nat /\ Wrap > 0 /\ MaxLate \in Nat
  BY TimeAssumption
<1> QED
  BY <1>1, <1>2 DEF Time

(* timer_set and timer_restart *)
LEMMA AgesSet ==
  ASSUME EtimerInv, Ages, NEW t \in Timers, NEW p \in Procs,
         (\E iv \in Intervals : etimer_set(t, p, iv)) \/ etimer_restart(t, p)
  PROVE  Ages'
<1>1. PICK iv \in Intervals \cup {0} :
        add_timer(t, p, count, iv) /\ age' = [age EXCEPT ![t] = 0]
  BY DEF etimer_set, etimer_restart, Ages
<1>2. Since(count, count) = 0
  BY TimerFacts, DiffFacts
<1>3. /\ count' = count /\ start' = [start EXCEPT ![t] = count]
      /\ interval' = [interval EXCEPT ![t] = iv]
  BY <1>1 DEF add_timer
<1>4. age' = [age EXCEPT ![t] = 0] /\ 0 \in Int /\ 0 >= 0 /\ (0 < Wrap => Since(count, count) = 0)
  BY <1>1, <1>2
<1> QED
  BY <1>3, <1>4, AgesChanged

(* timer_reset moves the start by an interval that has passed. *)
LEMMA AgesReset ==
  ASSUME EtimerInv, Ages, Punctual, NEW t \in Timers, NEW p \in Procs, etimer_reset(t, p)
  PROVE  Ages'
<1> DEFINE st == (start[t] + interval[t]) % Wrap
           g == age[t] - interval[t]
<1>1. add_timer(t, p, st, interval[t]) /\ age' = [age EXCEPT ![t] = g]
  BY DEF etimer_reset
<1>2. age[t] \in interval[t] .. interval[t] + MaxLate
  BY DEF etimer_reset
<1>3. interval[t] \in Intervals \cup {0} /\ interval[t] + MaxLate + 1 < Wrap
  BY DEF Ages, Punctual
<1>4. age[t] >= interval[t] /\ age[t] < Wrap
  BY <1>2, <1>3, TimerFacts
<1>5. Since(count, start[t]) = age[t]
  BY <1>4 DEF Ages
<1>6. g \in Time /\ g \in Int /\ g >= 0
  BY <1>4, TimerFacts DEF Time
<1>7. Since(count, st) = g
  <2>1. count \in Time /\ start[t] \in Time /\ interval[t] \in Int
    BY TimerFacts
  <2>2. Since(count, start[t]) - interval[t] \in Time
    BY <1>5, <1>6
  <2> QED
    BY <1>5, <2>1, <2>2, DiffFacts
<1>8. /\ count' = count /\ start' = [start EXCEPT ![t] = st]
      /\ interval' = [interval EXCEPT ![t] = interval[t]]
  BY <1>1 DEF add_timer
<1> HIDE DEF st, g
<1> QED
  BY <1>1, <1>3, <1>6, <1>7, <1>8, AgesChanged

(* etimer_adjust moves the start by less than the timer's age. *)
LEMMA AgesAdjust ==
  ASSUME EtimerInv, Ages, Punctual, ~AdjustAhead, NEW t \in Timers, NEW d \in Diffs,
         etimer_adjust(t, d)
  PROVE  /\ Ages' /\ age[t] - d >= 0 /\ age[t] + 1 < Wrap
         /\ start' = [start EXCEPT ![t] = (start[t] + d) % Wrap]
<1> DEFINE st == (start[t] + d) % Wrap
           g == Min({age[t] - d, Wrap})
<1>1. /\ start' = [start EXCEPT ![t] = st] /\ age' = [age EXCEPT ![t] = g]
      /\ interval' = interval /\ count' = count
  BY DEF etimer_adjust
<1>2. age[t] <= interval[t] + MaxLate /\ age[t] >= d
  BY DEF etimer_adjust
<1>3. interval[t] \in Intervals \cup {0} /\ interval[t] + MaxLate + 1 < Wrap
  BY DEF Ages, Punctual
<1>4. d \in Int
  BY TimeAssumption
<1>5. age[t] + 1 < Wrap /\ age[t] - d >= 0 /\ age[t] - d \in Int /\ Wrap \in Int
  BY <1>2, <1>3, <1>4, TimerFacts
<1>6. Since(count, start[t]) = age[t]
  BY <1>5, TimerFacts DEF Ages
<1>7. g = IF age[t] - d <= Wrap THEN age[t] - d ELSE Wrap
  BY <1>5, CapFacts
<1>8. g \in Int /\ g >= 0
  BY <1>5, <1>7, TimerFacts
<1>9. ASSUME g < Wrap
      PROVE  Since(count, st) = g
  <2>1. g = age[t] - d /\ g \in Time
    BY <1>5, <1>7, <1>9, TimerFacts DEF Time
  <2>2. Since(count, start[t]) - d \in Time
    BY <1>6, <2>1
  <2> QED
    BY <1>4, <1>6, <2>1, <2>2, TimerFacts, DiffFacts
<1>10. interval' = [interval EXCEPT ![t] = interval[t]]
  BY <1>1 DEF EtimerInv, TypeOK
<1>11. start' = [start EXCEPT ![t] = (start[t] + d) % Wrap]
  BY <1>1
<1> HIDE DEF st, g
<1> QED
  BY <1>1, <1>3, <1>5, <1>8, <1>9, <1>10, <1>11, AgesChanged

(* The tick *)
LEMMA AgesTick ==
  ASSUME EtimerInv, Ages, Tick
  PROVE  Ages' /\ \A t \in Timers : age'[t] = IF age[t] < Wrap THEN age[t] + 1 ELSE Wrap
<1>1. /\ start' = start /\ interval' = interval /\ count' = (count + 1) % Wrap
      /\ age' = [t \in Timers |-> Min({age[t] + 1, Wrap})]
  BY DEF Tick
<1>2. ASSUME NEW t \in Timers
      PROVE  age'[t] = IF age[t] < Wrap THEN age[t] + 1 ELSE Wrap
  <2>1. age'[t] = Min({age[t] + 1, Wrap}) /\ age[t] + 1 \in Int /\ Wrap \in Int
    BY <1>1, TimerFacts
  <2>2. age'[t] = IF age[t] + 1 <= Wrap THEN age[t] + 1 ELSE Wrap
    BY <2>1, CapFacts
  <2> QED
    BY <2>2, TimerFacts
<1>3. ASSUME NEW t \in Timers
      PROVE  /\ age'[t] >= 0
             /\ age'[t] < Wrap => Since((count + 1) % Wrap, start[t]) = age'[t]
  <2>1. age[t] >= 0 /\ (age[t] < Wrap => Since(count, start[t]) = age[t])
    BY DEF Ages
  <2>2. age'[t] >= 0 /\ (age'[t] < Wrap => age[t] < Wrap /\ age[t] + 1 < Wrap /\ age'[t] = age[t] + 1)
    BY <1>2, <2>1, TimerFacts
  <2> QED
    BY <2>1, <2>2, TimerFacts, DiffFacts
<1>4. Ages'
  <2> SUFFICES ASSUME NEW t \in Timers
               PROVE  /\ interval'[t] \in Intervals \cup {0} /\ age'[t] >= 0
                      /\ age'[t] < Wrap => Since(count', start'[t]) = age'[t]
    BY DEF Ages, Since
  <2> QED
    BY <1>1, <1>3 DEF Ages
<1> QED
  BY <1>2, <1>4

(* The other steps *)
LEMMA AgesSame ==
  ASSUME Ages, UNCHANGED <<count, start, interval, age>>
  PROVE  Ages'
  BY DEF Ages, Since

(* An expired timer is at least as old as its interval, and one whose      *)
(* start is known has expired when it is.                                  *)
LEMMA ExpiredFacts ==
  ASSUME EtimerInv, Ages, NEW t \in Timers
  PROVE  /\ timer_expired(t) => age[t] >= interval[t]
         /\ age[t] + 1 < Wrap /\ age[t] >= interval[t] => timer_expired(t)
<1>1. CASE age[t] < Wrap
  <2>1. Since(count, start[t]) = age[t]
    BY <1>1 DEF Ages
  <2>2. (count - start[t] + 1) % Wrap = IF age[t] + 1 = Wrap THEN 0 ELSE age[t] + 1
    BY <2>1, TimerFacts, DiffFacts
  <2>3. age[t] >= 0
    BY DEF Ages
  <2> QED
    BY <2>2, <2>3, TimerFacts DEF timer_expired
<1>2. CASE ~(age[t] < Wrap)
  BY <1>2, TimerFacts
<1> QED
  BY <1>1, <1>2

(* Every step keeps the ages. *)
LEMMA AgesNext ==
  ASSUME Punctual, ~AdjustAhead, EtimerInv, Ages, [Next]_vars
  PROVE  Ages'
<1>1. CASE Tick
  BY <1>1, AgesTick
<1>2. CASE Loop \/ UNCHANGED vars
  <2>1. UNCHANGED <<count, start, interval, age>>
    BY <1>2 DEF Loop, Run, Scan, ScanEnd, Take, Return, vars, timerVars
  <2> QED
    BY <2>1, AgesSame
<1>3. CASE Calls
  <2>1. ASSUME NEW t \in Timers, NEW p \in Procs,
               \/ \E iv \in Intervals : etimer_set(t, p, iv)
               \/ etimer_restart(t, p)
               \/ etimer_reset(t, p)
        PROVE  Ages'
    BY <2>1, AgesSet, AgesReset
  <2>2. ASSUME NEW t \in Timers, NEW d \in Diffs, etimer_adjust(t, d)
        PROVE  Ages'
    BY <2>2, AgesAdjust
  <2>3. ASSUME \/ \E t \in Timers : etimer_stop(t)
               \/ \E p \in Procs : PostOther(p) \/ Exit(p) \/ StartAgain(p)
        PROVE  Ages'
    <3>1. UNCHANGED <<count, start, interval, age>>
      BY <2>3 DEF etimer_stop, PostOther, Exit, StartAgain, timerVars
    <3> QED
      BY <3>1, AgesSame
  <2> QED
    BY <1>3, <2>1, <2>2, <2>3 DEF Calls
<1> QED
  BY <1>1, <1>2, <1>3 DEF Next

(* At the start the clock is at 0 and so are all timers. *)
LEMMA AgesInit == Init => Ages
<1> SUFFICES ASSUME Init, NEW t \in Timers
             PROVE  /\ interval[t] \in Intervals \cup {0} /\ age[t] >= 0
                    /\ age[t] < Wrap => Since(count, start[t]) = age[t]
  BY DEF Ages
<1>1. count = 0 /\ start[t] = 0 /\ interval[t] = 0 /\ age[t] = 0
  BY DEF Init
<1>2. 0 \in Time
  BY TimeAssumption DEF Time
<1>3. Since(0, 0) = 0
  BY <1>2, DiffFacts
<1> QED
  BY <1>1, <1>3

(* The events that a step appends *)
LEMMA AppendFacts ==
  ASSUME NEW E, NEW s \in Seq(E), NEW e \in E
  PROVE  /\ Append(s, e) # s /\ s # << >> => Append(s, e) # Tail(s)
         /\ \A f \in E : Append(s, e) = Append(s, f) => e = f
<1>1. Len(Append(s, e)) = Len(s) + 1 /\ Len(s) \in Nat
  OBVIOUS
<1>2. s # << >> => Len(Tail(s)) = Len(s) - 1
  OBVIOUS
<1>3. Append(s, e)[Len(s) + 1] = e /\ \A f \in E : Append(s, f)[Len(s) + 1] = f
  OBVIOUS
<1> QED
  BY <1>1, <1>2, <1>3

(* No step posts the event of a timer too soon. *)
LEMMA NotEarlyStep ==
  ASSUME EtimerInv, Ages, [Next]_vars, NEW t \in Listed, Fires(t)
  PROVE  age[t] >= interval[t]
<1> DEFINE E == (Procs \cup {NONE}) \X (Timers \cup {NONE})
<1>1. /\ t \in Timers /\ t # NONE /\ Listed = Members(timerlist) /\ Members(timerlist) \subseteq Timers
  BY ToSetFacts, TimeAssumption DEF EtimerInv, TypeOK, Listed
<1>2. owner \in [Timers -> Procs \cup {NONE}]
  BY DEF EtimerInv, TypeOK
<1>3. <<owner[t], t>> \in E /\ events \in Seq(E)
  BY <1>1, <1>2 DEF EtimerInv, TypeOK
<1>4. events' = Append(events, <<owner[t], t>>)
  BY DEF Fires
<1> DEFINE e == <<owner[t], t>>
<1> HIDE DEF E, e
<1>5. events' # events /\ ~(events # << >> /\ events' = Tail(events))
  BY <1>3, <1>4, AppendFacts DEF e
<1>6. CASE Scan
  <2>1. Fire(timerlist[t_at]) /\ Room /\ timer_expired(timerlist[t_at])
    BY <1>5, <1>6, ScanCases DEF Pass
  <2> DEFINE u == timerlist[t_at]
  <2>2. u \in Timers
    BY <1>1, <1>6, <2>1, FireSound
  <2>3. <<owner[u], u>> \in E
    BY <1>2, <2>2 DEF E
  <2>4. Append(events, e) = Append(events, <<owner[u], u>>)
    BY <1>4, <2>1 DEF Fire, e
  <2>5. e = <<owner[u], u>>
    BY <1>3, <2>3, <2>4, AppendFacts DEF e
  <2>6. t = u
    BY <2>5 DEF e
  <2> QED
    BY <1>1, <2>1, <2>6, ExpiredFacts
<1>7. ASSUME NEW p \in Procs, PostOther(p)
      PROVE  FALSE
  <2>1. Append(events, e) = Append(events, <<p, NONE>>)
    BY <1>4, <1>7 DEF PostOther, e
  <2>2. <<p, NONE>> \in E
    BY DEF E
  <2>3. e = <<p, NONE>>
    BY <1>3, <2>1, <2>2, AppendFacts DEF e
  <2> QED
    BY <1>1, <2>3 DEF e
<1>8. ASSUME NEW u \in Timers, NEW p \in Procs,
             \/ \E iv \in Intervals : etimer_set(u, p, iv)
             \/ etimer_restart(u, p) \/ etimer_reset(u, p)
      PROVE  FALSE
  BY <1>5, <1>8 DEF etimer_set, etimer_restart, etimer_reset, add_timer
<1>9. ASSUME NEW p \in Procs, Exit(p) \/ StartAgain(p)
      PROVE  FALSE
  BY <1>5, <1>9 DEF Exit, StartAgain
<1>10. CASE Tick \/ Run \/ ScanEnd \/ Take \/ Return \/ UNCHANGED vars
  BY <1>5, <1>10 DEF Tick, Run, ScanEnd, Take, Return, vars
<1>11. ASSUME NEW u \in Timers, etimer_stop(u) \/ \E d \in Diffs : etimer_adjust(u, d)
       PROVE  FALSE
  BY <1>5, <1>11 DEF etimer_stop, etimer_adjust
<1> QED
  BY <1>6, <1>7, <1>8, <1>9, <1>10, <1>11 DEF Next, Loop, Calls

(* With a timer reset or adjusted less than a wrap after its start, and    *)
(* never adjusted to a start in the future, etimer_process posts no timer  *)
(* event before the interval has passed in real ticks.                     *)
THEOREM NoneEarly == Punctual /\ ~AdjustAhead => (Spec => NotEarly)
<1> SUFFICES ASSUME Punctual, ~AdjustAhead
             PROVE  Spec => NotEarly
  OBVIOUS
<1>1. EtimerInv /\ Ages /\ [Next]_vars => Ages'
  BY AgesNext
<1>2. EtimerInv /\ Ages /\ [Next]_vars => [\A t \in Listed : Fires(t) => age[t] >= interval[t]]_vars
  BY NotEarlyStep
<1> QED
  BY <1>1, <1>2, AgesInit, EtimerInvariant, PTL DEF Spec, NotEarly

-------------------------------------------------------------------------------
(* Expired timers and polls *)

(* The timers that the scan has passed are polled for like all timers when *)
(* there is no scan.                                                       *)
Polled ==
  /\ pc # "scan" => \A t \in Members(timerlist) : timer_expired(t) => needspoll
  /\ pc = "scan" => \A i \in 1 .. Len(timerlist) :
       i < t_at /\ timer_expired(timerlist[i]) => needspoll

(* A timer that etimer_adjust postpones was expired already if it is       *)
(* expired now.                                                            *)
LEMMA AdjustPolled ==
  ASSUME Punctual, ~AdjustAhead, Diffs \subseteq Nat, EtimerInv, Ages, Polled,
         NEW t \in Timers, NEW d \in Diffs, etimer_adjust(t, d)
  PROVE  Polled'
<1>1. /\ timerlist' = timerlist /\ interval' = interval /\ count' = count
      /\ needspoll' = needspoll /\ pc' = pc /\ t_at' = t_at
      /\ pc # "scan"
  BY DEF etimer_adjust, Call, loopVars
<1>2. /\ Ages' /\ age[t] - d >= 0 /\ age[t] + 1 < Wrap
      /\ start' = [start EXCEPT ![t] = (start[t] + d) % Wrap]
  BY AgesAdjust
<1>3. \A u \in Timers \ {t} : start'[u] = start[u]
  BY <1>2 DEF EtimerInv, TypeOK
<1>4. d \in Int /\ d >= 0
  OBVIOUS
<1> DEFINE st == (start[t] + d) % Wrap
           g == age[t] - d
<1>5. start'[t] = st
  BY <1>2 DEF EtimerInv, TypeOK
<1>6. g \in Time /\ g + 1 < Wrap /\ g <= age[t] /\ g \in Int
  BY <1>2, <1>4, TimerFacts DEF Time
<1>7. Since(count, start[t]) = age[t]
  BY <1>2, TimerFacts DEF Ages
<1>8. Since(count, st) = g
  <2>1. Since(count, start[t]) - d \in Time
    BY <1>6, <1>7
  <2>2. count \in Time /\ start[t] \in Time
    BY TimerFacts
  <2> QED
    BY <1>4, <1>7, <2>1, <2>2, DiffFacts
<1>9. st \in Time
  <2>1. start[t] + d \in Int
    BY <1>4, TimerFacts
  <2> QED
    BY <2>1, WrapFacts
<1>10. (count - st + 1) % Wrap = g + 1
  <2>1. (count - st + 1) % Wrap = IF g + 1 = Wrap THEN 0 ELSE g + 1
    <3> HIDE DEF st, g
    <3>1. count \in Time
      BY TimerFacts
    <3> QED
      BY <1>8, <1>9, <3>1, DiffFacts
  <2> QED
    BY <1>6, <2>1, TimerFacts
<1>11. timer_expired(t)' => timer_expired(t)
  <2> SUFFICES ASSUME timer_expired(t)'
               PROVE  timer_expired(t)
    OBVIOUS
  <2>1. interval[t] < g + 1
    BY <1>1, <1>5, <1>10 DEF timer_expired
  <2>2. age[t] >= interval[t]
    BY <1>6, <2>1, TimerFacts
  <2> QED
    BY <1>2, <2>2, ExpiredFacts
<1>12. \A u \in Timers \ {t} : timer_expired(u)' <=> timer_expired(u)
  BY <1>1, <1>3 DEF timer_expired
<1>13. \A u \in Members(timerlist) : u \in Timers
  BY ToSetFacts DEF EtimerInv, TypeOK
<1>14. ASSUME NEW u \in Members(timerlist), timer_expired(u)'
       PROVE  needspoll
  <2>1. timer_expired(u)
    BY <1>11, <1>12, <1>13, <1>14
  <2> QED
    BY <1>1, <2>1 DEF Polled
<1>15. \A u \in Members(timerlist') : timer_expired(u)' => needspoll'
  BY <1>1, <1>14
<1> QED
  BY <1>1, <1>15 DEF Polled, Members, timer_expired

(* A call that leaves the clock, the timers and the flag alone *)
LEMMA CallPolled ==
  ASSUME Polled, pc # "scan", UNCHANGED <<count, start, interval, pc, needspoll>>,
         Members(timerlist') \subseteq Members(timerlist)
  PROVE  Polled'
<1>1. \A t \in Members(timerlist) : timer_expired(t) => needspoll
  BY DEF Polled
<1>2. \A t : timer_expired(t)' <=> timer_expired(t)
  BY DEF timer_expired
<1>3. \A t \in Members(timerlist') : timer_expired(t)' => needspoll'
  BY <1>1, <1>2
<1> QED
  BY <1>3 DEF Polled, Members, timer_expired

(* Every step of process_run keeps expired timers polled for. *)
LEMMA LoopPolled ==
  ASSUME EtimerInv, Polled, Loop
  PROVE  Polled'
<1>1. count' = count /\ start' = start /\ interval' = interval
  BY DEF Loop, Run, Scan, ScanEnd, Take, Return, timerVars
<1>2. \A t : timer_expired(t)' <=> timer_expired(t)
  BY <1>1 DEF timer_expired
<1>3. Len(timerlist) \in Nat /\ t_at \in Nat \ {0} /\ needspoll \in BOOLEAN
  BY ToSetFacts DEF EtimerInv, TypeOK
<1>4. CASE Run
  <2>1. timerlist' = timerlist /\ t_at' = 1 /\ pc # "scan" /\ pc' = IF needspoll THEN "scan" ELSE "event"
    BY <1>4 DEF Run, timerVars
  <2>2. \A i \in 1 .. Len(timerlist) : ~(i < 1)
    BY <1>3
  <2>3. needspoll \/ \A t \in Members(timerlist') : ~timer_expired(t)'
    BY <1>2, <2>1 DEF Polled
  <2>4. pc' # "scan" => \A t \in Members(timerlist') : ~timer_expired(t)'
    BY <2>1, <2>3
  <2>5. pc' = "scan" => \A i \in 1 .. Len(timerlist') : ~(i < t_at')
    BY <2>1, <2>2
  <2> QED
    BY <2>4, <2>5 DEF Polled, Members, timer_expired
<1>5. CASE Scan /\ Fire(timerlist[t_at]) /\ Room
  <2>1. pc' = "scan" /\ t_at' = 1
    BY <1>5 DEF Scan, Fire
  <2>2. \A i \in 1 .. Len(timerlist') : ~(i < t_at')
    <3>1. EtimerInv'
      BY <1>5, FireSound
    <3>2. timerlist' \in Seq(Timers)
      BY <3>1 DEF EtimerInv, TypeOK
    <3>3. Len(timerlist') \in Nat
      BY <3>2
    <3> QED
      BY <2>1, <3>3
  <2> QED
    BY <2>1, <2>2 DEF Polled
<1>6. CASE Scan /\ Pass(timerlist[t_at])
  <2>1. /\ pc = "scan" /\ pc' = "scan" /\ timerlist' = timerlist /\ t_at' = t_at + 1
        /\ needspoll' = (needspoll \/ timer_expired(timerlist[t_at]))
    BY <1>6 DEF Scan, Pass, AskAgain
  <2>2. ASSUME NEW i \in 1 .. Len(timerlist), i < t_at + 1, timer_expired(timerlist[i])
        PROVE  needspoll \/ timer_expired(timerlist[t_at])
    <3>1. i = t_at \/ i < t_at
      BY <1>3, <2>2
    <3> QED
      BY <2>1, <2>2, <3>1 DEF Polled
  <2>3. \A i \in 1 .. Len(timerlist) :
          i < t_at + 1 /\ timer_expired(timerlist[i]) => needspoll'
    BY <2>1, <2>2
  <2>4. \A i \in 1 .. Len(timerlist') : i < t_at' /\ timer_expired(timerlist[i])' => needspoll'
    <3>1. \A i : timer_expired(timerlist[i])' <=> timer_expired(timerlist[i])
      BY <1>1, <2>1 DEF timer_expired
    <3> QED
      BY <2>1, <2>3, <3>1
  <2> QED
    BY <2>1, <2>4 DEF Polled, timer_expired
<1>7. CASE ScanEnd
  <2>1. pc = "scan" /\ pc' = "event" /\ timerlist' = timerlist /\ t_at > Len(timerlist) /\ needspoll' = needspoll
    BY <1>7 DEF ScanEnd, timerVars
  <2>2. \A i \in 1 .. Len(timerlist) : i < t_at
    BY <1>3, <2>1
  <2>3. \A i \in 1 .. Len(timerlist) : timer_expired(timerlist[i]) => needspoll
    BY <2>1, <2>2 DEF Polled
  <2>4. \A t \in Members(timerlist') : timer_expired(t)' => needspoll'
    BY <1>2, <2>1, <2>3 DEF Members
  <2> QED
    BY <2>1, <2>4 DEF Polled, Members, timer_expired
<1>8. CASE Take \/ Return
  <2>1. pc # "scan" /\ pc' # "scan" /\ timerlist' = timerlist /\ needspoll' = needspoll
    BY <1>8 DEF Take, Return, timerVars
  <2>2. \A t \in Members(timerlist') : timer_expired(t)' => needspoll'
    BY <1>2, <2>1 DEF Polled
  <2> QED
    BY <2>1, <2>2 DEF Polled, Members, timer_expired
<1> QED
  BY <1>4, <1>5, <1>6, <1>7, <1>8, ScanCases DEF Loop

(* Every step *)
LEMMA PolledNext ==
  ASSUME Punctual, ~AdjustAhead, Diffs \subseteq Nat, EtimerInv, Ages, Polled, [Next]_vars
  PROVE  Polled'
<1>1. ASSUME needspoll' = TRUE
      PROVE  Polled'
  BY <1>1 DEF Polled
<1>2. CASE Tick
  <2>1. needspoll' = (needspoll \/ etimer_pending) /\ timerlist' = timerlist
    BY <1>2 DEF Tick
  <2>2. CASE timerlist # << >>
    BY <1>1, <2>1, <2>2 DEF etimer_pending
  <2>3. CASE timerlist = << >>
    <3>1. Members(timerlist') = {} /\ Len(timerlist') = 0
      BY <2>1, <2>3 DEF Members
    <3> QED
      BY <3>1 DEF Polled, Members
  <2> QED
    BY <2>2, <2>3
<1>3. ASSUME NEW t \in Timers, NEW p \in Procs,
             \/ \E iv \in Intervals : etimer_set(t, p, iv)
             \/ etimer_restart(t, p)
             \/ etimer_reset(t, p)
      PROVE  Polled'
  BY <1>1, <1>3 DEF etimer_set, etimer_restart, etimer_reset, add_timer
<1>4. ASSUME NEW t \in Timers, etimer_stop(t)
      PROVE  Polled'
  <2>1. pc # "scan" /\ UNCHANGED <<count, start, interval, pc, needspoll>>
    BY <1>4 DEF etimer_stop, Call, loopVars
  <2>2. Members(timerlist') \subseteq Members(timerlist)
    BY <1>4, StopSound
  <2> QED
    BY <2>1, <2>2, CallPolled
<1>5. ASSUME NEW p \in Procs, PostOther(p) \/ Exit(p) \/ StartAgain(p)
      PROVE  Polled'
  <2>1. pc # "scan" /\ UNCHANGED <<count, start, interval, pc, needspoll>>
    BY <1>5 DEF PostOther, Exit, StartAgain, Call, loopVars, timerVars
  <2>2. Members(timerlist') \subseteq Members(timerlist)
    BY <1>5, OtherCallsSound
  <2> QED
    BY <2>1, <2>2, CallPolled
<1>6. CASE UNCHANGED vars
  BY <1>6 DEF vars, timerVars, loopVars, Polled, Members, timer_expired
<1> QED
  BY <1>2, <1>3, <1>4, <1>5, <1>6, AdjustPolled, LoopPolled DEF Next, Calls

(* Where timers are only ever postponed by etimer_adjust, an expired timer *)
(* never has to wait for the next tick: a poll is requested when its event *)
(* could not be posted or it expired behind the scan.                      *)
THEOREM ExpiredPolled ==
  Punctual /\ ~AdjustAhead /\ Diffs \subseteq Nat => (Spec => []ExpiredIsPolled)
<1> SUFFICES ASSUME Punctual, ~AdjustAhead, Diffs \subseteq Nat
             PROVE  Spec => []ExpiredIsPolled
  OBVIOUS
<1>1. Init => Polled
  BY DEF Init, Polled, Members
<1>2. EtimerInv /\ Ages /\ [Next]_vars => Ages'
  BY AgesNext
<1>3. EtimerInv /\ Ages /\ Polled /\ [Next]_vars => Polled'
  BY PolledNext
<1>4. EtimerInv /\ Polled => ExpiredIsPolled
  <2> SUFFICES ASSUME EtimerInv, Polled
               PROVE  ExpiredIsPolled
    OBVIOUS
  <2>1. Listed = Members(timerlist)
    BY ToSetFacts DEF EtimerInv, TypeOK, Listed
  <2> QED
    BY <2>1 DEF Polled, ExpiredIsPolled
<1> QED
  BY <1>1, <1>2, <1>3, <1>4, AgesInit, EtimerInvariant, PTL DEF Spec

-------------------------------------------------------------------------------
(* next_expiration *)

(* The timers that are due first, none of them overdue, are due at         *)
(* next_expiration.                                                        *)
Due(iv, ag, t) == iv[t] - ag[t]
First(list, iv, ag, t) ==
  /\ t \in Members(list) /\ Due(iv, ag, t) >= 0
  /\ \A u \in Members(list) : Due(iv, ag, t) <= Due(iv, ag, u)
Soonest ==
  \A t \in Timers : First(timerlist, interval, age, t) =>
    next_expiration = (count + Due(interval, age, t)) % Wrap

(* update_time finds the timers that are due first. *)
LEMMA UpdateFacts ==
  ASSUME count \in Time, NEW list \in Seq(Timers), NEW st \in [Timers -> Time],
         NEW iv \in [Timers -> Time], NEW ag \in [Timers -> Int],
         \A u \in Timers : ag[u] >= 0 /\ (ag[u] < Wrap => Since(count, st[u]) = ag[u]),
         NEW t \in Timers, First(list, iv, ag, t)
  PROVE  update_time(list, st, iv) = (count + Due(iv, ag, t)) % Wrap
<1> DEFINE S == {(st[u] + iv[u] - count) % Wrap : u \in ToSet(list)}
           m == Due(iv, ag, t)
<1>1. ToSet(list) = Members(list) /\ Members(list) \subseteq Timers /\ list # << >>
  BY ToSetFacts DEF First
<1>2. ASSUME NEW u \in Members(list)
      PROVE  (st[u] + iv[u] - count) % Wrap = Due(iv, ag, u)
  <2>1. st[u] \in Time /\ iv[u] \in Time /\ ag[u] \in Int /\ ag[u] >= 0 /\ u \in Timers
    BY <1>1
  <2>2. m <= Due(iv, ag, u) /\ m >= 0 /\ m \in Int
    <3>1. iv[t] \in Int /\ ag[t] \in Int
      BY TimeAssumption DEF Time
    <3> QED
      BY <3>1 DEF First, Due
  <2>3. iv[u] \in Int /\ iv[u] < Wrap /\ Wrap \in Nat
    BY <2>1, TimeAssumption DEF Time
  <2>4. ag[u] <= iv[u]
    <3> HIDE DEF m
    <3>1. iv[u] - ag[u] >= 0
      BY <2>1, <2>2, <2>3 DEF Due
    <3> QED
      BY <2>1, <2>3, <3>1
  <2>5. ag[u] < Wrap
    BY <2>1, <2>3, <2>4
  <2>6. Since(count, st[u]) = ag[u]
    BY <2>1, <2>5
  <2>7. iv[u] >= Since(count, st[u])
    BY <2>1, <2>3, <2>4, <2>6
  <2> QED
    BY <2>1, <2>6, <2>7, DiffFacts DEF Due
<1>3. m \in Nat
  BY TimeAssumption DEF First, Due, Time
<1>4. m \in S /\ \A y \in S : m <= y
  BY <1>1, <1>2 DEF First
<1>5. S \subseteq Nat
  <2>1. ASSUME NEW u \in Members(list)
        PROVE  (st[u] + iv[u] - count) % Wrap \in Nat
    <3>1. st[u] \in Int /\ iv[u] \in Int /\ count \in Int
      <4>1. st[u] \in Time /\ iv[u] \in Time
        BY <1>1
      <4> QED
        BY <4>1, TimeAssumption DEF Time
    <3>2. st[u] + iv[u] - count \in Int
      BY <3>1
    <3>3. Time \subseteq Nat
      BY TimeAssumption DEF Time
    <3> QED
      BY <3>2, <3>3, WrapFacts
  <2> QED
    BY <1>1, <2>1
<1>6. update_time(list, st, iv) = (count + Min(S)) % Wrap
  BY <1>1 DEF update_time
<1>7. Min(S) = m
  <2> HIDE DEF S, m
  <2>1. Min(S) \in S /\ \A y \in S : Min(S) <= y
    BY <1>4, <1>5, MinFacts
  <2>2. Min(S) <= m /\ m <= Min(S) /\ Min(S) \in Nat
    BY <1>4, <1>5, <2>1
  <2> QED
    BY <1>3, <2>2
<1> QED
  BY <1>6, <1>7

(* After a call of update_time *)
LEMMA SoonestUpdated ==
  ASSUME EtimerInv, Ages, EtimerInv', Ages', count' = count,
         next_expiration' = update_time(timerlist', start', interval')
  PROVE  Soonest'
<1>1. /\ count \in Time /\ timerlist' \in Seq(Timers) /\ start' \in [Timers -> Time]
      /\ interval' \in [Timers -> Time] /\ age' \in [Timers -> Int]
  BY DEF EtimerInv, TypeOK
<1>2. \A u \in Timers : age'[u] >= 0 /\ (age'[u] < Wrap => Since(count, start'[u]) = age'[u])
  BY DEF Ages, Since
<1>3. ASSUME NEW t \in Timers, First(timerlist', interval', age', t)
      PROVE  next_expiration' = (count + Due(interval', age', t)) % Wrap
  BY <1>1, <1>2, <1>3, UpdateFacts
<1> QED
  BY <1>3 DEF Soonest, First, Due, Members

(* A tick brings every timer nearer by one, and the clock nearer to        *)
(* next_expiration.                                                        *)
LEMMA SoonestTick ==
  ASSUME EtimerInv, Ages, Soonest, Tick
  PROVE  Soonest'
<1>1. /\ timerlist' = timerlist /\ interval' = interval /\ next_expiration' = next_expiration
      /\ count' = (count + 1) % Wrap
  BY DEF Tick
<1>2. \A t \in Timers : age'[t] = IF age[t] < Wrap THEN age[t] + 1 ELSE Wrap
  BY AgesTick
<1>3. Members(timerlist) \subseteq Timers
  BY ToSetFacts DEF EtimerInv, TypeOK
<1>4. ASSUME NEW t \in Timers, First(timerlist, interval, age', t)
      PROVE  next_expiration = (((count + 1) % Wrap) + Due(interval, age', t)) % Wrap
  <2> DEFINE m == Due(interval, age, t)
  <2>1. /\ t \in Members(timerlist) /\ interval[t] - age'[t] >= 0
        /\ \A u \in Members(timerlist) : interval[t] - age'[t] <= interval[u] - age'[u]
    BY <1>4 DEF First, Due
  <2>2. ASSUME NEW u \in Members(timerlist)
        PROVE  age[u] < Wrap /\ age'[u] = age[u] + 1 /\ age[u] \in Int /\ interval[u] \in Int
    <3>1. /\ age'[u] = IF age[u] < Wrap THEN age[u] + 1 ELSE Wrap
          /\ age[u] \in Int /\ interval[u] \in Int /\ interval[u] < Wrap /\ Wrap \in Nat
      BY <1>2, <1>3, TimerFacts
    <3>2. interval[u] - age'[u] >= 0
      <4>1. age'[t] \in Int /\ interval[t] \in Int
        BY <1>2, TimerFacts
      <4>2. age'[u] \in Int
        BY <3>1
      <4> QED
        BY <2>1, <3>1, <4>1, <4>2
    <3> QED
      BY <3>1, <3>2
  <2>3. /\ age'[t] = age[t] + 1 /\ age[t] \in Int /\ age[t] >= 0
        /\ interval[t] \in Int /\ interval[t] < Wrap
    BY <2>1, <2>2, TimerFacts DEF Ages
  <2>4. m \in Int /\ m >= 1 /\ m < Wrap /\ Due(interval, age', t) = m - 1
    BY <2>1, <2>3, TimerFacts DEF Due
  <2>5. \A u \in Members(timerlist) : m <= Due(interval, age, u)
    <3> SUFFICES ASSUME NEW u \in Members(timerlist)
                 PROVE  interval[t] - age[t] <= interval[u] - age[u]
      BY DEF Due
    <3> QED
      BY <2>1, <2>2
  <2>6. First(timerlist, interval, age, t)
    BY <2>1, <2>4, <2>5 DEF First
  <2>7. next_expiration = (count + m) % Wrap
    BY <2>6 DEF Soonest
  <2> HIDE DEF m
  <2>8. (((count + 1) % Wrap) + (m - 1)) % Wrap = (count + m) % Wrap
    <3>1. /\ count \in Int /\ 0 <= count /\ count < Wrap /\ Wrap \in Nat
      BY TimerFacts DEF Time
    <3>2. CASE count + 1 < Wrap
      <4>1. count + 1 \in Time
        BY <3>1, <3>2 DEF Time
      <4>2. (count + 1) % Wrap = count + 1
        BY <4>1, WrapFacts
      <4>3. (count + 1) + (m - 1) = count + m
        BY <2>4, <3>1
      <4> QED
        BY <4>2, <4>3
    <3>3. CASE ~(count + 1 < Wrap)
      <4>1. count + 1 = Wrap /\ count + 1 \in Int /\ count + 1 >= Wrap /\ count + 1 < 2 * Wrap /\ (count + 1) - Wrap = 0
        BY <3>1, <3>3
      <4>2. (count + 1) % Wrap = 0
        BY <4>1, WrapFacts
      <4>3. m - 1 \in Time /\ 0 + (m - 1) = m - 1
        BY <2>4, <3>1 DEF Time
      <4>4. (m - 1) % Wrap = m - 1
        BY <4>3, WrapFacts
      <4>5. count + m \in Int /\ count + m >= Wrap /\ count + m < 2 * Wrap /\ (count + m) - Wrap = m - 1
        BY <2>4, <3>1, <4>1
      <4>6. (count + m) % Wrap = m - 1
        BY <4>5, WrapFacts
      <4> QED
        BY <4>2, <4>3, <4>4, <4>6
    <3> QED
      BY <3>2, <3>3
  <2> QED
    BY <2>4, <2>7, <2>8
<1>5. \A t \in Timers : First(timerlist', interval', age', t) =>
        next_expiration' = (count' + Due(interval', age', t)) % Wrap
  BY <1>1, <1>4
<1> QED
  BY <1>5 DEF Soonest, First, Due, Members

(* Steps that leave the list and the timers alone *)
LEMMA SoonestSame ==
  ASSUME Soonest, UNCHANGED <<count, interval, age, next_expiration>>,
         Members(timerlist') = Members(timerlist)
  PROVE  Soonest'
<1>1. \A t : First(timerlist, interval, age, t)' <=> First(timerlist, interval, age, t)
  BY DEF First, Due, Members
<1>2. \A t : Due(interval, age, t)' = Due(interval, age, t)
  BY DEF Due
<1> QED
  BY <1>1, <1>2 DEF Soonest

(* Min, for what etimer_next_expiration_time is about *)
LEMMA SoonestFacts == EtimerInv /\ Ages /\ Soonest => NextExpirationSoonest
<1> SUFFICES ASSUME EtimerInv, Ages, Soonest
             PROVE  NextExpirationSoonest
  OBVIOUS
<1> DEFINE L == {interval[t] - age[t] : t \in Listed}
           D == {y + Wrap : y \in L}
<1>1. Listed = Members(timerlist) /\ Members(timerlist) \subseteq Timers
  BY ToSetFacts DEF EtimerInv, TypeOK, Listed
<1> SUFFICES ASSUME L # {}, Min(L) >= 0
             PROVE  next_expiration = (count + Min(L)) % Wrap
  BY DEF NextExpirationSoonest
<1>2. \A y \in L : y \in Int /\ y + Wrap \in Nat
  <2> SUFFICES ASSUME NEW t \in Listed
               PROVE  interval[t] - age[t] \in Int /\ (interval[t] - age[t]) + Wrap \in Nat
    OBVIOUS
  <2> QED
    BY <1>1, TimerFacts
<1>3. D # {} /\ D \subseteq Nat
  BY <1>2
<1>4. Min(D) \in D /\ \A y \in D : Min(D) <= y
  <2> HIDE DEF D
  <2> QED
    BY <1>3, MinFacts
<1>5. PICK x \in L : Min(D) = x + Wrap
  BY <1>4
<1>6. \A y \in L : x <= y
  <2> SUFFICES ASSUME NEW y \in L
               PROVE  x <= y
    OBVIOUS
  <2>1. x + Wrap <= y + Wrap
    BY <1>4, <1>5
  <2>2. x \in Int /\ y \in Int /\ Wrap \in Int
    BY <1>2, TimeAssumption
  <2> QED
    BY <2>1, <2>2
<1>7. Min(L) \in L /\ \A y \in L : Min(L) <= y
  <2> HIDE DEF L
  <2>1. \E z \in L : \A y \in L : z <= y
    BY <1>6
  <2> QED
    BY <2>1 DEF Min
<1>8. PICK t \in Listed : Min(L) = interval[t] - age[t]
  BY <1>7
<1>9. First(timerlist, interval, age, t)
  BY <1>1, <1>7, <1>8 DEF First, Due
<1> QED
  BY <1>1, <1>8, <1>9 DEF Soonest, Due

(* The steps other than Exit, which alone does not call update_time *)
NoExit ==
  \/ Tick \/ Loop \/ UNCHANGED vars
  \/ \E t \in Timers, p \in Procs :
       \/ \E iv \in Intervals : etimer_set(t, p, iv)
       \/ etimer_restart(t, p)
       \/ etimer_reset(t, p)
  \/ \E t \in Timers : etimer_stop(t) \/ \E d \in Diffs : etimer_adjust(t, d)
  \/ \E p \in Procs : PostOther(p) \/ StartAgain(p)

(* Each of them keeps next_expiration. *)
LEMMA SoonestNext ==
  ASSUME EtimerInv, Ages, EtimerInv', Ages', Soonest, NoExit
  PROVE  Soonest'
<1>1. CASE Tick
  BY <1>1, SoonestTick
<1>2. CASE Scan /\ Fire(timerlist[t_at])
  <2>1. count' = count /\ next_expiration' = update_time(timerlist', start', interval')
    BY <1>2 DEF Scan, Fire
  <2> QED
    BY <2>1, SoonestUpdated
<1>3. CASE (Scan /\ Pass(timerlist[t_at])) \/ Run \/ ScanEnd \/ Take \/ Return \/ UNCHANGED vars
  <2>1. UNCHANGED <<count, interval, age, next_expiration>> /\ timerlist' = timerlist
    BY <1>3 DEF Scan, Pass, Run, ScanEnd, Take, Return, timerVars, vars
  <2> QED
    BY <2>1, SoonestSame
<1>4. ASSUME NEW t \in Timers, NEW p \in Procs,
             \/ \E iv \in Intervals : etimer_set(t, p, iv)
             \/ etimer_restart(t, p)
             \/ etimer_reset(t, p)
      PROVE  Soonest'
  <2>1. count' = count /\ next_expiration' = update_time(timerlist', start', interval')
    BY <1>4 DEF etimer_set, etimer_restart, etimer_reset, add_timer
  <2> QED
    BY <2>1, SoonestUpdated
<1>5. ASSUME NEW t \in Timers, NEW d \in Diffs, etimer_adjust(t, d)
      PROVE  Soonest'
  <2>1. count' = count /\ next_expiration' = update_time(timerlist', start', interval')
    BY <1>5 DEF etimer_adjust
  <2> QED
    BY <2>1, SoonestUpdated
<1>6. ASSUME NEW t \in Timers, etimer_stop(t)
      PROVE  Soonest'
  <2>1. /\ UNCHANGED <<count, start, interval, age>>
        /\ next_expiration' = IF t \in Listed THEN update_time(timerlist', start, interval)
                                              ELSE next_expiration
    BY <1>6 DEF etimer_stop
  <2>2. CASE t \in Listed
    <3>1. count' = count /\ next_expiration' = update_time(timerlist', start', interval')
      BY <2>1, <2>2
    <3> QED
      BY <3>1, SoonestUpdated
  <2>3. CASE t \notin Listed
    <3>1. Members(timerlist') = Members(timerlist)
      <4>1. Members(timerlist') = Members(timerlist) \ {t}
        BY <1>6, StopSound
      <4>2. Listed = Members(timerlist)
        BY ToSetFacts DEF EtimerInv, TypeOK, Listed
      <4> QED
        BY <2>3, <4>1, <4>2
    <3> QED
      BY <2>1, <2>3, <3>1, SoonestSame
  <2> QED
    BY <2>2, <2>3
<1>7. ASSUME NEW p \in Procs, PostOther(p) \/ StartAgain(p)
      PROVE  Soonest'
  <2>1. UNCHANGED <<count, interval, age, next_expiration>> /\ timerlist' = timerlist
    BY <1>7 DEF PostOther, StartAgain, timerVars
  <2> QED
    BY <2>1, SoonestSame
<1> QED
  BY <1>1, <1>2, <1>3, <1>4, <1>5, <1>6, <1>7, ScanCases DEF NoExit, Loop

(* Where no process exits, etimer_next_expiration_time returns the time at *)
(* which the first timer is due, as long as none is overdue.               *)
THEOREM NextKnown ==
  Punctual /\ ~AdjustAhead /\ Mortal = {} => (Spec => []NextExpirationSoonest)
<1> SUFFICES ASSUME Punctual, ~AdjustAhead, Mortal = {}
             PROVE  Spec => []NextExpirationSoonest
  OBVIOUS
<1>1. Init => Soonest
  BY DEF Init, Soonest, First, Members
<1>2. EtimerInv /\ Ages /\ [Next]_vars => Ages'
  BY AgesNext
<1>3. [Next]_vars => NoExit
  BY DEF Next, Calls, NoExit, Exit
<1>4. EtimerInv /\ EtimerInv' /\ Ages /\ Ages' /\ Soonest /\ [Next]_vars => Soonest'
  BY <1>3, SoonestNext
<1> QED
  BY <1>1, <1>2, <1>4, AgesInit, EtimerInvariant, SoonestFacts, PTL DEF Spec
===============================================================================
