------------------------- MODULE TimerThreadProofs -------------------------
(***************************************************************************)
(* The timer thread never fires early, loses or doubles a timer, whatever  *)
(* the timers, their intervals and the actors that start them.             *)
(***************************************************************************)
EXTENDS TimerThread, FiniteSetTheorems, SequenceTheorems, TLAPS

(* The places of run() at which the thread owns m_Mutex.                   *)
Inside == {"check", "wait", "sleep", "recheck", "invoke", "pop"}

(* Those that have seen an entry, which only pop removes.                  *)
Occupied == {"sleep", "nap", "renap", "recheck", "invoke", "pop"}

LastIsEarliest ==
  \A i \in DOMAIN timers : left[timers[i]] >= left[Last(timers)]

InOrder ==
  \A i, j \in DOMAIN timers : i < j => left[timers[i]] >= left[timers[j]]

(* What the timer thread and a handler know where they are.                *)
Places ==
  /\ mutex = TimerThread <=> pc \in Inside
  /\ pc \in Occupied => timers # <<>>
  /\ ~sort => InOrder
  /\ pc = "sleep" => LastIsEarliest
  /\ \A a \in Actors : apc[a] = "add" => starting[a] \in Timers

TimerInv == TypeOK /\ Places /\ NeverEarly /\ OneShotFiresOnce /\ SleepsForEarliest

-----------------------------------------------------------------------------
(* Entries of a timer                                                      *)

(* The positions of a timer in a vector are a finite set.                  *)
LEMMA PositionsFinite ==
  ASSUME NEW S, NEW s \in Seq(S), NEW k
  PROVE  /\ IsFiniteSet(Positions(s, k))
         /\ Cardinality(Positions(s, k)) \in Nat
<1>1. DOMAIN s = 1..Len(s) /\ Len(s) \in Nat
  OBVIOUS
<1>2. IsFiniteSet(1..Len(s))
  BY <1>1, FS_Interval
<1>3. Positions(s, k) \in SUBSET (1..Len(s))
  BY <1>1 DEF Positions
<1>4. IsFiniteSet(Positions(s, k))
  BY <1>2, <1>3, FS_Subset
<1> QED
  BY <1>4, FS_CardinalityType

(* emplace_back adds one entry of the timer it appends.                    *)
LEMMA AppendAddsOne ==
  ASSUME NEW S, NEW s \in Seq(S), NEW j \in S, NEW k
  PROVE  Cardinality(Positions(Append(s, j), k)) =
           Cardinality(Positions(s, k)) + (IF j = k THEN 1 ELSE 0)
<1> DEFINE t == Append(s, j)
           n == Len(s) + 1
<1>1. DOMAIN s = 1..Len(s) /\ Len(s) \in Nat /\ n \notin Positions(s, k)
  BY DEF Positions
<1>2. DOMAIN t = 1..n /\ t[n] = j /\ \A i \in DOMAIN s : t[i] = s[i]
  BY <1>1
<1>3. Positions(t, k) = IF j = k THEN Positions(s, k) \cup {n} ELSE Positions(s, k)
  BY <1>1, <1>2 DEF Positions
<1>4. IsFiniteSet(Positions(s, k)) /\ Cardinality(Positions(s, k)) \in Nat
  BY PositionsFinite
<1>5. Cardinality(Positions(s, k) \cup {n}) = Cardinality(Positions(s, k)) + 1
  BY <1>1, <1>4, FS_AddElement
<1> QED
  BY <1>3, <1>4, <1>5

(* The vector without its last entry.                                      *)
LEMMA FrontProperties ==
  ASSUME NEW S, NEW s \in Seq(S), s # <<>>
  PROVE  /\ Front(s) \in Seq(S)
         /\ Last(s) \in S
         /\ Len(s) \in Nat \ {0}
         /\ DOMAIN Front(s) = 1..(Len(s) - 1)
         /\ \A i \in DOMAIN Front(s) : Front(s)[i] = s[i]
         /\ Append(Front(s), Last(s)) = s
<1>1. Len(s) \in Nat \ {0}
  OBVIOUS
<1> DEFINE n == Len(s) - 1
<1>0. n \in Nat /\ \A i \in 1..n : s[i] \in S
  BY <1>1
<1>2. Front(s) \in Seq(S) /\ Len(Front(s)) = n
  <2> HIDE DEF n
  <2>1. SubSeq(s, 1, n) \in Seq(S) /\ Len(SubSeq(s, 1, n)) = IF 1 <= n THEN n - 1 + 1 ELSE 0
    BY <1>0, SubSeqProperties
  <2>2. Front(s) = SubSeq(s, 1, n)
    BY DEF Front, n
  <2>3. (IF 1 <= n THEN n - 1 + 1 ELSE 0) = n
    BY <1>0
  <2> QED
    BY <2>1, <2>2, <2>3
<1>3. Last(s) \in S
  BY <1>1 DEF Last
<1>4. \A i \in 1..(Len(s) - 1) : Front(s)[i] = s[i]
  BY <1>1, SubSeqProperties DEF Front
<1>5. DOMAIN Front(s) = 1..(Len(s) - 1)
  BY <1>2
<1>6. Append(Front(s), Last(s)) = s
  BY <1>1, <1>2, <1>3, <1>4, <1>5 DEF Last
<1> QED
  BY <1>1, <1>2, <1>3, <1>4, <1>5, <1>6

(* A sorted vector has the entries of the one it was made of.              *)
LEMMA SortedProperties ==
  ASSUME NEW S, NEW s \in Seq(S), NEW r \in Sorted(s)
  PROVE  /\ r \in Seq(S)
         /\ Len(r) = Len(s)
         /\ \A i, j \in DOMAIN r : i < j => left[r[i]] >= left[r[j]]
         /\ \A k : Cardinality(Positions(r, k)) = Cardinality(Positions(s, k))
<1> DEFINE D == DOMAIN s
<1>1. D = 1..Len(s) /\ Len(s) \in Nat
  OBVIOUS
<1>2. PICK p \in [D -> D] : IsInjective(p) /\ r = [i \in D |-> s[p[i]]]
  BY DEF Sorted
<1>3. DOMAIN r = 1..Len(s) /\ \A i \in 1..Len(s) : r[i] \in S
  <2>1. DOMAIN r = D /\ \A i \in D : p[i] \in D /\ r[i] = s[p[i]]
    BY <1>2
  <2>2. \A i \in D : s[i] \in S
    BY <1>1
  <2> HIDE DEF D
  <2> QED
    BY <1>1, <2>1, <2>2
<1>4. r \in Seq(S) /\ Len(r) = Len(s)
  BY <1>1, <1>2, <1>3
<1>5. \A i, j \in DOMAIN r : i < j => left[r[i]] >= left[r[j]]
  BY DEF Sorted
<1>6. ASSUME NEW k
      PROVE  Cardinality(Positions(r, k)) = Cardinality(Positions(s, k))
  <2>1. IsFiniteSet(D)
    BY <1>1, FS_Interval
  <2>2. p \in Injection(D, D)
    BY <1>2 DEF Injection
  <2>0. p \in Surjection(D, D)
    BY <2>1, <2>2, FS_Injection
  <2> DEFINE q == [i \in Positions(r, k) |-> p[i]]
  <2>3. q \in [Positions(r, k) -> Positions(s, k)]
    BY <1>2, <1>3, <1>1 DEF Positions
  <2>4. \A a, b \in Positions(r, k) : q[a] = q[b] => a = b
    BY <1>2, <1>3, <1>1 DEF IsInjective, Positions
  <2>5. \A t \in Positions(s, k) : \E a \in Positions(r, k) : q[a] = t
    BY <1>2, <1>3, <1>1, <2>0 DEF Surjection, Positions
  <2>6. q \in Bijection(Positions(r, k), Positions(s, k))
    BY <2>3, <2>4, <2>5 DEF Bijection, Injection, Surjection, IsInjective
  <2>7. ExistsBijection(Positions(r, k), Positions(s, k))
    BY <2>6 DEF ExistsBijection
  <2> QED
    BY <2>7, <1>4, PositionsFinite, FS_Bijection
<1> QED
  BY <1>4, <1>5, <1>6

(* What is popped is the last entry, and no entry of another timer.        *)
LEMMA FrontTakesOne ==
  ASSUME NEW S, NEW s \in Seq(S), s # <<>>, NEW k
  PROVE  /\ Cardinality(Positions(Front(s), k)) =
              Cardinality(Positions(s, k)) - (IF Last(s) = k THEN 1 ELSE 0)
         /\ Last(s) = k => Cardinality(Positions(s, k)) >= 1
<1> DEFINE f == Front(s)
           j == Last(s)
<1>1. f \in Seq(S) /\ j \in S /\ Append(f, j) = s
  BY FrontProperties
<1>2. Cardinality(Positions(f, k)) \in Nat
  BY <1>1, PositionsFinite
<1> HIDE DEF f, j
<1>3. Cardinality(Positions(s, k)) =
        Cardinality(Positions(f, k)) + (IF j = k THEN 1 ELSE 0)
  <2>1. \A r \in Seq(S), i \in S :
          Cardinality(Positions(Append(r, i), k)) =
            Cardinality(Positions(r, k)) + (IF i = k THEN 1 ELSE 0)
    BY AppendAddsOne
  <2>2. Cardinality(Positions(Append(f, j), k)) =
          Cardinality(Positions(f, k)) + (IF j = k THEN 1 ELSE 0)
    BY <1>1, <2>1, Zenon
  <2> QED
    BY <1>1, <2>2, Zenon
<1>4. /\ Cardinality(Positions(f, k)) =
           Cardinality(Positions(s, k)) - (IF j = k THEN 1 ELSE 0)
      /\ j = k => Cardinality(Positions(s, k)) >= 1
  BY <1>1, <1>2, <1>3
<1> QED
  BY <1>4 DEF f, j

(* A timer has entries exactly when it is in the vector.                   *)
LEMMA ArmedHasEntries ==
  ASSUME NEW S, NEW s \in Seq(S), NEW k
  PROVE  (\E i \in DOMAIN s : s[i] = k) <=> Cardinality(Positions(s, k)) > 0
<1>1. IsFiniteSet(Positions(s, k)) /\ Cardinality(Positions(s, k)) \in Nat
  BY PositionsFinite
<1>2. Cardinality(Positions(s, k)) = 0 <=> Positions(s, k) = {}
  BY <1>1, FS_EmptySet
<1> QED
  BY <1>1, <1>2 DEF Positions

-----------------------------------------------------------------------------
(* The invariant                                                           *)

(* The invariant holds before anything is started.                         *)
LEMMA TimerInit == Init => TimerInv
<1> SUFFICES ASSUME Init PROVE TimerInv
  OBVIOUS
<1>1. TypeOK
  <2>1. timers \in Seq(Timers)
    BY DEF Init
  <2>2. left \in [Timers -> Int] /\ pending \in [Timers -> Nat]
    BY DEF Init
  <2>3. starting \in [Actors -> Timers \cup {NoTimer}]
    BY DEF Init
  <2> QED
    BY <2>1, <2>2, <2>3 DEF Init, TypeOK
<1>2. Places /\ NeverEarly /\ SleepsForEarliest
  BY TimerAssumption
  DEF Init, Places, Inside, Occupied, InOrder, NeverEarly, SleepsForEarliest
<1>3. \A k : Positions(timers, k) = {}
  BY DEF Init, Positions
<1>4. OneShotFiresOnce
  BY <1>3, FS_EmptySet DEF Init, OneShotFiresOnce, Entries
<1> QED
  BY <1>1, <1>2, <1>4 DEF TimerInv

(* A step that leaves the vector and the due times alone keeps what the    *)
(* invariant says of them.                                                 *)
LEMMA SameEntries ==
  ASSUME UNCHANGED <<timers, left>>
  PROVE  /\ InOrder' <=> InOrder
         /\ LastIsEarliest' <=> LastIsEarliest
         /\ \A k : Entries(k)' = Entries(k)
         /\ \A k : left'[k] = left[k]
         /\ Last(timers)' = Last(timers)
  BY DEF InOrder, LastIsEarliest, Entries

(* Time passes alike for every entry.                                      *)
LEMMA TickKeeps ==
  ASSUME TimerInv, Tick
  PROVE  TimerInv'
<1> USE DEF TimerInv, Tick, actorVars
<1>1. TypeOK'
  BY DEF TypeOK
<1>2. \A i \in DOMAIN timers : /\ timers[i] \in Timers
                               /\ left[timers[i]] \in Int
                               /\ left'[timers[i]] = left[timers[i]] - 1
  BY DEF TypeOK, Armed
<1>3. timers # <<>> => Len(timers) \in DOMAIN timers /\ Last(timers) = timers[Len(timers)]
  BY DEF TypeOK, Last
<1>4. InOrder => InOrder'
  BY <1>2 DEF InOrder
<1>5. timers # <<>> /\ LastIsEarliest => LastIsEarliest'
  <2> SUFFICES ASSUME timers # <<>>, LastIsEarliest, NEW i \in DOMAIN timers
               PROVE  left'[timers[i]] >= left'[Last(timers)]
    BY DEF LastIsEarliest
  <2>1. left[timers[i]] >= left[Last(timers)]
    BY DEF LastIsEarliest
  <2> HIDE DEF TimerInv, Tick
  <2> QED
    BY <1>2, <1>3, <2>1
<1>6. Places'
  BY <1>4, <1>5 DEF Places, Inside, Occupied
<1>7. NeverEarly'
  BY <1>2, <1>3 DEF NeverEarly, Places, Occupied
<1>8. OneShotFiresOnce'
  BY DEF OneShotFiresOnce, Entries
<1>9. SleepsForEarliest'
  BY <1>5 DEF SleepsForEarliest, LastIsEarliest, Places, Occupied
<1> QED
  BY <1>1, <1>6, <1>7, <1>8, <1>9

(* Starting a timer and exiting: nothing the thread looks at changes until *)
(* addTimer has the mutex.                                                 *)
LEMMA HandlerKeeps ==
  ASSUME TimerInv,
         \/ \E a \in Actors, k \in Timers : Start(a, k)
         \/ Exit \/ NotifyAll \/ Join
         \/ \E a \in Actors : Notify(a)
         \/ WakesSpuriously
  PROVE  TimerInv'
<1>1. /\ UNCHANGED <<timers, left, sort, pending, mutex>>
      /\ \/ UNCHANGED <<pc, nap>>
         \/ pc \in {"nap", "blocked"} /\ Wakes
  BY DEF Start, Exit, NotifyAll, Join, Notify, WakesSpuriously, Wakes, threadVars,
         timerVars, actorVars
<1>2. TypeOK'
  <2> USE DEF TypeOK, threadVars, timerVars, actorVars
  <2>0. TypeOK
    BY DEF TimerInv
  <2>1. CASE \E a \in Actors, k \in Timers : Start(a, k)
    BY <2>0, <2>1 DEF Start
  <2>2. CASE Exit
    BY <2>0, <2>2, TimerAssumption DEF Exit
  <2>3. CASE NotifyAll
    BY <2>0, <2>3, TimerAssumption DEF NotifyAll, Wakes
  <2>4. CASE Join
    BY <2>0, <2>4, TimerAssumption DEF Join
  <2>5. CASE \E a \in Actors : Notify(a)
    BY <2>0, <2>5 DEF Notify, Wakes
  <2>6. CASE WakesSpuriously
    BY <2>0, <2>6 DEF WakesSpuriously, Wakes
  <2> QED
    BY <2>1, <2>2, <2>3, <2>4, <2>5, <2>6
<1>3. \A a \in Actors : apc'[a] = "add" => starting'[a] \in Timers
  BY DEF TimerInv, TypeOK, Places, Start, Exit, NotifyAll, Join, Notify,
         WakesSpuriously, threadVars, timerVars, actorVars
<1>4. Places'
  BY <1>1, <1>3, SameEntries DEF TimerInv, Places, Inside, Occupied, Wakes
<1>5. NeverEarly' /\ OneShotFiresOnce'
  BY <1>1, SameEntries DEF TimerInv, NeverEarly, OneShotFiresOnce, Wakes
<1>6. pc' \in {"sleep", "nap"} =>
        \A a \in Actors : apc[a] = "notify" /\ pc' = "nap" => apc'[a] = "notify"
  BY DEF TimerInv, TypeOK, Start, Exit, NotifyAll, Join, Notify, WakesSpuriously,
         Wakes, threadVars, timerVars, actorVars
<1>7. SleepsForEarliest'
  BY <1>1, <1>6, SameEntries
  DEF TimerInv, SleepsForEarliest, Places, LastIsEarliest, Wakes
<1> QED
  BY <1>2, <1>4, <1>5, <1>7 DEF TimerInv

(* emplace_back under the mutex: the order is lost, a sort is asked for,   *)
(* and the notify is still to come.                                        *)
LEMMA AddTimerKeeps ==
  ASSUME TimerInv, NEW a \in Actors, AddTimer(a)
  PROVE  TimerInv'
<1> DEFINE k == starting[a]
<1> USE DEF AddTimer, threadVars
<1>1. k \in Timers /\ Interval[k] \in Nat /\ timers \in Seq(Timers)
  BY TimerAssumption DEF TimerInv, TypeOK, Places
<1>2. TypeOK'
  BY <1>1 DEF TimerInv, TypeOK
<1>3. pc \notin Inside /\ TimerThread # Nobody
  BY TimerAssumption DEF TimerInv, Places
<1>4. timers' # <<>>
  BY <1>1
<1>5. Places'
  BY <1>2, <1>3, <1>4 DEF TimerInv, TypeOK, Places, Inside
<1>6. NeverEarly'
  BY <1>3 DEF NeverEarly, Inside
<1>7. ASSUME NEW j \in Timers \ Periodic
      PROVE  Entries(j)' = pending'[j]
  <2>1. Entries(j)' = Entries(j) + (IF k = j THEN 1 ELSE 0)
    BY <1>1, AppendAddsOne DEF Entries
  <2>2. Entries(j) = pending[j]
    BY <1>3 DEF TimerInv, TypeOK, OneShotFiresOnce, Inside
  <2> QED
    BY <1>1, <2>1, <2>2 DEF TimerInv, TypeOK
<1>8. OneShotFiresOnce'
  BY <1>3, <1>7 DEF OneShotFiresOnce, Inside, TimerInv, TypeOK
<1>9. SleepsForEarliest'
  BY DEF SleepsForEarliest, TimerInv, TypeOK
<1> QED
  BY <1>2, <1>5, <1>6, <1>8, <1>9 DEF TimerInv

(* The steps of run() that only move along: the vector and the due times   *)
(* stay, and the mutex is taken or released.                               *)
LEMMA MoveKeeps ==
  ASSUME TimerInv,
         \/ Lock \/ CheckEmpty \/ Wait \/ CheckStop \/ Sleep \/ NapEnds
         \/ RecheckDue \/ RecheckEarly
  PROVE  TimerInv'
<1> USE DEF Lock, CheckEmpty, Wait, CheckStop, Sleep, NapEnds, RecheckDue,
            RecheckEarly, Acquire, Release, timerVars, actorVars
<1>1. UNCHANGED <<timers, left, sort, pending, apc, starting>>
  OBVIOUS
<1>2. TypeOK'
  BY DEF TimerInv, TypeOK
<1>3. Places'
  BY <1>1, SameEntries, TimerAssumption DEF TimerInv, Places, Inside, Occupied
<1>4. NeverEarly'
  BY <1>1, SameEntries DEF TimerInv, NeverEarly
<1>5. OneShotFiresOnce'
  BY <1>1, SameEntries DEF TimerInv, OneShotFiresOnce
<1>6. SleepsForEarliest'
  BY <1>1, SameEntries DEF TimerInv, SleepsForEarliest, Places, LastIsEarliest
<1> QED
  BY <1>2, <1>3, <1>4, <1>5, <1>6 DEF TimerInv

(* Whether it sorts or not, the last entry is the earliest afterwards.     *)
LEMMA LookKeeps ==
  ASSUME TimerInv, Look
  PROVE  TimerInv'
<1> USE DEF Look, actorVars
<1>1. timers \in Seq(Timers) /\ timers # <<>> /\ left \in [Timers -> Int]
  BY DEF TimerInv, TypeOK
<1>2. /\ timers' \in Seq(Timers)
      /\ Len(timers') = Len(timers)
      /\ \A k : Entries(k)' = Entries(k)
      /\ InOrder'
  <2>1. CASE sort
    <3>1. timers' \in Sorted(timers)
      BY <2>1
    <3> QED
      BY <1>1, <3>1, SortedProperties DEF Entries, InOrder
  <2>2. CASE ~sort
    <3>1. timers' = timers
      BY <2>2
    <3> QED
      BY <1>1, <2>2, <3>1, SameEntries DEF TimerInv, Places
  <2> QED
    BY <2>1, <2>2
<1>3. /\ timers' # <<>>
      /\ Last(timers') \in Timers
      /\ \A i \in DOMAIN timers' :
           /\ timers'[i] \in Timers
           /\ i < Len(timers') \/ i = Len(timers')
      /\ Len(timers') \in DOMAIN timers' /\ Last(timers') = timers'[Len(timers')]
  BY <1>1, <1>2 DEF Last
<1>4. LastIsEarliest'
  BY <1>1, <1>2, <1>3 DEF LastIsEarliest, InOrder
<1>5. TypeOK'
  <2>1. left[Last(timers')] \in Int
    BY <1>1, <1>3
  <2>2. nap' \in {0, left[Last(timers')]} /\ nap' >= 0
    BY <2>1
  <2>4. pc' \in {"sleep", "invoke"} /\ sort' \in BOOLEAN
    OBVIOUS
  <2>3. UNCHANGED <<stop, mutex, left, pending, apc, starting>>
    OBVIOUS
  <2> HIDE DEF Look
  <2> QED
    BY <1>2, <2>1, <2>2, <2>3, <2>4 DEF TimerInv, TypeOK
<1>6. Places'
  BY <1>2, <1>3, <1>4 DEF TimerInv, Places, Inside, Occupied
<1>7. NeverEarly'
  BY <1>1, <1>3 DEF NeverEarly
<1>8. OneShotFiresOnce'
  BY <1>2 DEF TimerInv, OneShotFiresOnce
<1>9. SleepsForEarliest'
  BY <1>4 DEF SleepsForEarliest, LastIsEarliest
<1> QED
  BY <1>5, <1>6, <1>7, <1>8, <1>9 DEF TimerInv

(* The entry that fires is in the vector, so that a start is pending.      *)
LEMMA InvokeKeeps ==
  ASSUME TimerInv, Invoke
  PROVE  TimerInv'
<1> DEFINE k == Last(timers)
<1> USE DEF Invoke, actorVars
<1>1. timers \in Seq(Timers) /\ timers # <<>>
  BY DEF TimerInv, TypeOK, Places, Occupied
<1>2. k \in Timers /\ Entries(k) >= 1
  BY <1>1, FrontProperties, FrontTakesOne DEF Entries
<1>3. k \notin Periodic => pending[k] >= 1
  BY <1>2 DEF TimerInv, TypeOK, OneShotFiresOnce
<1>4. TypeOK'
  BY <1>2, <1>3 DEF TimerInv, TypeOK
<1>5. Places'
  BY SameEntries DEF TimerInv, Places, Inside, Occupied
<1>6. NeverEarly'
  BY SameEntries DEF TimerInv, NeverEarly
<1>7. OneShotFiresOnce'
  BY <1>2, <1>3, SameEntries DEF TimerInv, TypeOK, OneShotFiresOnce
<1>8. SleepsForEarliest'
  BY DEF SleepsForEarliest
<1> QED
  BY <1>4, <1>5, <1>6, <1>7, <1>8 DEF TimerInv

(* pop_back, and emplace_back if the timer is periodic.                    *)
LEMMA PopKeeps ==
  ASSUME TimerInv, Pop
  PROVE  TimerInv'
<1> DEFINE k == Last(timers)
<1> USE DEF Pop, Release, actorVars
<1>1. /\ timers \in Seq(Timers) /\ timers # <<>> /\ left \in [Timers -> Int]
      /\ k \in Timers /\ Front(timers) \in Seq(Timers)
  BY FrontProperties DEF TimerInv, TypeOK, Places, Occupied
<1>2. Interval[k] \in Nat
  BY <1>1, TimerAssumption
<1>3. pc' = "lock" /\ mutex' = Nobody /\ UNCHANGED <<pending, apc, starting>>
  OBVIOUS
<1>4. CASE k \in Periodic
  <2>1. timers' = timers /\ sort' = TRUE /\ left' = [left EXCEPT ![k] = Interval[k]]
    BY <1>1, <1>4, FrontProperties
  <2>2. \A j : Entries(j)' = Entries(j)
    BY <2>1 DEF Entries
  <2>3. TypeOK'
    BY <1>1, <1>2, <1>3, <2>1 DEF TimerInv, TypeOK
  <2>4. Places'
    BY <1>3, <2>1, TimerAssumption DEF TimerInv, Places, Inside, Occupied
  <2>5. OneShotFiresOnce'
    BY <1>3, <1>4, <2>2 DEF TimerInv, TypeOK, OneShotFiresOnce
  <2> QED
    BY <1>3, <2>3, <2>4, <2>5 DEF TimerInv, NeverEarly, SleepsForEarliest
<1>5. CASE k \notin Periodic
  <2>1. /\ timers' = Front(timers) /\ sort' = sort
        /\ left' = [left EXCEPT ![k] = IF Entries(k) > 1 THEN @ ELSE 0]
    BY <1>5
  <2>2. \A j : Entries(j)' = Entries(j) - (IF k = j THEN 1 ELSE 0)
    BY <1>1, <2>1, FrontTakesOne DEF Entries
  <2>3. \A i \in DOMAIN timers' : /\ i \in DOMAIN timers
                                  /\ timers'[i] = timers[i]
                                  /\ timers[i] \in Timers
    <3>1. /\ Len(timers) \in Nat
          /\ DOMAIN timers' = 1..(Len(timers) - 1)
          /\ \A i \in DOMAIN timers' : timers'[i] = timers[i]
      BY <1>1, <2>1, FrontProperties
    <3>2. \A i \in DOMAIN timers' : i \in DOMAIN timers
      BY <1>1, <3>1
    <3> QED
      BY <1>1, <3>1, <3>2
  <2>4. \A i \in DOMAIN timers' : left'[timers'[i]] = left[timers[i]]
    <3> SUFFICES ASSUME NEW i \in DOMAIN timers', NEW j, j = k, timers[i] = j
                 PROVE  left'[j] = left[j]
      BY <1>1, <2>1, <2>3
    <3>1. timers' \in Seq(Timers) /\ timers'[i] = j
      BY <1>1, <2>1, <2>3
    <3>2. Cardinality(Positions(timers', j)) > 0
      BY <3>1, ArmedHasEntries
    <3>3. Entries(j) \in Nat
      BY <1>1, PositionsFinite DEF Entries
    <3>4. Entries(j)' = Entries(j) - 1
      BY <2>2
    <3>5. Entries(j) > 1
      BY <3>2, <3>3, <3>4 DEF Entries
    <3> QED
      BY <1>1, <2>1, <3>5
  <2>5. InOrder => InOrder'
    BY <2>3, <2>4 DEF InOrder
  <2>6. TypeOK'
    BY <1>1, <1>3, <2>1 DEF TimerInv, TypeOK
  <2>7. Places'
    BY <1>3, <2>1, <2>5, TimerAssumption DEF TimerInv, Places, Inside, Occupied
  <2>8. ASSUME NEW j \in Timers \ Periodic
        PROVE  Entries(j)' = pending'[j]
    <3>1. Entries(j) \in Nat /\ pending[j] \in Nat
      BY <1>1, PositionsFinite DEF Entries, TimerInv, TypeOK
    <3>2. Entries(j) = pending[j] + (IF k = j THEN 1 ELSE 0)
      BY DEF TimerInv, OneShotFiresOnce
    <3> QED
      BY <1>3, <2>2, <3>1, <3>2
  <2>9. OneShotFiresOnce'
    BY <1>3, <2>6, <2>8 DEF OneShotFiresOnce, TypeOK
  <2> QED
    BY <1>3, <2>6, <2>7, <2>9 DEF TimerInv, NeverEarly, SleepsForEarliest
<1> QED
  BY <1>4, <1>5

(* The invariant is inductive.                                             *)
LEMMA TimerStep == TimerInv /\ [Next]_vars => TimerInv'
<1> SUFFICES ASSUME TimerInv, [Next]_vars PROVE TimerInv'
  OBVIOUS
<1>1. CASE Tick
  BY <1>1, TickKeeps
<1>2. CASE ThreadStep
  BY <1>2, MoveKeeps, LookKeeps, InvokeKeeps, PopKeeps DEF ThreadStep
<1>3. CASE \/ WakesSpuriously \/ Exit \/ ExitStep
           \/ \E a \in Actors : Notify(a) \/ \E k \in Timers : Start(a, k)
  BY <1>3, HandlerKeeps DEF ExitStep
<1>4. CASE \E a \in Actors : AddTimer(a)
  BY <1>4, AddTimerKeeps
<1>5. CASE UNCHANGED vars
  <2>1. UNCHANGED <<timers, left>>
    BY <1>5 DEF vars
  <2>2. TypeOK' /\ NeverEarly' /\ SleepsForEarliest'
    BY <1>5 DEF vars, TimerInv, TypeOK, NeverEarly, SleepsForEarliest
  <2>3. Places' /\ OneShotFiresOnce'
    BY <1>5, <2>1, SameEntries DEF vars, TimerInv, Places, OneShotFiresOnce
  <2> QED
    BY <2>2, <2>3 DEF TimerInv
<1> QED
  BY <1>1, <1>2, <1>3, <1>4, <1>5 DEF Next, HandlerStep

-----------------------------------------------------------------------------
(* The inductive invariant holds of every run of the timers.               *)
THEOREM TimerInvariant == Spec => []TimerInv
<1> QED
  BY TimerInit, TimerStep, PTL DEF Spec

(* The variables of the timers keep their types.                           *)
THEOREM TimerTypeCorrect == Spec => []TypeOK
<1>1. TimerInv => TypeOK
  BY DEF TimerInv
<1> QED
  BY <1>1, TimerInvariant, PTL

(* run() never calls a callback before the timer is due, although a start  *)
(* may move the due time of an entry it already naps for.                  *)
THEOREM TimerNeverEarly == Spec => []NeverEarly
<1>1. TimerInv => NeverEarly
  BY DEF TimerInv
<1> QED
  BY <1>1, TimerInvariant, PTL

(* Each start of a one-shot timer is called back once by run(), although   *)
(* the same timer may be in the vector several times.                      *)
THEOREM TimerOneShotFiresOnce == Spec => []OneShotFiresOnce
<1>1. TimerInv => OneShotFiresOnce
  BY DEF TimerInv
<1> QED
  BY <1>1, TimerInvariant, PTL

(* The nap of run() is for the earliest timer, or a notify of addTimer is  *)
(* on its way to cut it short.                                             *)
THEOREM TimerSleepsForEarliest == Spec => []SleepsForEarliest
<1>1. TimerInv => SleepsForEarliest
  BY DEF TimerInv
<1> QED
  BY <1>1, TimerInvariant, PTL

(* No step of run() or of a handler loses a periodic timer: neither the    *)
(* sort nor pop_back with emplace_back leaves it out.                      *)
THEOREM TimerPeriodicStaysArmed == Spec => PeriodicStaysArmed
<1>1. ASSUME TimerInv, [Next]_vars
      PROVE  [\A k \in Periodic : Armed(k) => Armed(k)']_vars
  <2> SUFFICES ASSUME NEW k \in Periodic, Armed(k)
               PROVE  Armed(k)'
    OBVIOUS
  <2>1. timers \in Seq(Timers) /\ Entries(k) > 0
    BY <1>1, ArmedHasEntries DEF TimerInv, TypeOK, Armed, Entries
  <2>2. CASE timers' = timers
    BY <2>2 DEF Armed
  <2>3. CASE \E a \in Actors : AddTimer(a)
    <3>1. PICK a \in Actors : AddTimer(a)
      BY <2>3
    <3>2. starting[a] \in Timers /\ timers' = Append(timers, starting[a])
      BY <1>1, <3>1 DEF AddTimer, TimerInv, Places
    <3> QED
      BY <2>1, <3>2 DEF Armed
  <2>4. CASE Look
    <3>1. CASE sort
      <4>1. timers' \in Sorted(timers)
        BY <2>4, <3>1 DEF Look
      <4>2. /\ timers' \in Seq(Timers)
            /\ Cardinality(Positions(timers', k)) = Cardinality(Positions(timers, k))
        BY <2>1, <4>1, SortedProperties
      <4> QED
        BY <2>1, <4>2, ArmedHasEntries DEF Armed, Entries
    <3>2. CASE ~sort
      BY <2>2, <2>4, <3>2 DEF Look
    <3> QED
      BY <3>1, <3>2
  <2>5. CASE Pop
    <3>0. timers # <<>>
      BY <1>1, <2>5 DEF Pop, TimerInv, Places, Occupied
    <3>1. CASE Last(timers) \in Periodic
      <4>1. timers' = timers
        BY <2>1, <2>5, <3>0, <3>1, FrontProperties DEF Pop
      <4> QED
        BY <2>2, <4>1
    <3>2. CASE Last(timers) \notin Periodic
      <4>1. timers' = Front(timers) /\ Last(timers) # k
        BY <2>5, <3>2 DEF Pop
      <4>2. /\ timers' \in Seq(Timers)
            /\ Cardinality(Positions(timers', k)) = Cardinality(Positions(timers, k))
        BY <2>1, <3>0, <4>1, FrontProperties, FrontTakesOne, PositionsFinite
      <4> QED
        BY <2>1, <4>2, ArmedHasEntries DEF Armed, Entries
    <3> QED
      BY <3>1, <3>2
  <2>6. \/ timers' = timers \/ Look \/ Pop
        \/ \E a \in Actors : AddTimer(a)
    BY <1>1 DEF Next, vars, Tick, ThreadStep, HandlerStep, ExitStep, Start, Notify, Exit,
                NotifyAll, Join, WakesSpuriously, Lock, CheckEmpty, Wait, CheckStop,
                Sleep, NapEnds, RecheckDue, RecheckEarly, Invoke, timerVars, threadVars,
                actorVars
  <2> QED
    BY <2>2, <2>3, <2>4, <2>5, <2>6
<1> QED
  BY <1>1, TimerInvariant, PTL DEF Spec, PeriodicStaysArmed
-----------------------------------------------------------------------------
(* What the callers of NativeTimer see                                     *)

(* A timer is in the vector when it has an entry there.                    *)
LEMMA ArmedIsRunning ==
  ASSUME TimerInv, NEW k \in Timers
  PROVE  /\ Armed(k) <=> Running[k] > 0
         /\ Running[k] = Entries(k)
         /\ Entries(k) \in Nat
<1>1. timers \in Seq(Timers)
  BY DEF TimerInv, TypeOK
<1>2. Armed(k) <=> Entries(k) > 0
  BY <1>1, ArmedHasEntries DEF Armed, Entries
<1> QED
  BY <1>1, <1>2, PositionsFinite DEF Running, Entries

(* The clock of the timer thread is the clock of its callers.              *)
LEMMA TickPasses ==
  ASSUME TimerInv, Tick
  PROVE  Service!Pass
<1>1. left' = [k \in Timers |-> IF Running[k] > 0 THEN left[k] - 1 ELSE left[k]]
  BY ArmedIsRunning DEF Tick
<1>2. Running' = Running /\ Calling' = Calling
  BY DEF Tick, Running, Calling, Entries
<1> QED
  BY <1>1, <1>2 DEF Service!Pass, Running, Calling

(* A start counts from the moment at which addTimer has the mutex.         *)
LEMMA AddTimerStarts ==
  ASSUME TimerInv, NEW a \in Actors, AddTimer(a)
  PROVE  \E k \in Timers : Service!Start(k)
<1> DEFINE k == starting[a]
<1>1. /\ k \in Timers /\ timers \in Seq(Timers)
      /\ timers' = Append(timers, k) /\ left' = [left EXCEPT ![k] = Interval[k]]
      /\ pc' = pc
  BY DEF TimerInv, TypeOK, Places, AddTimer, threadVars
<1> HIDE DEF k
<1>2. \A j : Entries(j)' = Entries(j) + (IF k = j THEN 1 ELSE 0)
  BY <1>1, AppendAddsOne DEF Entries
<1>3. \A j \in Timers : Entries(j) \in Nat
  BY ArmedIsRunning
<1>4. Running' = [Running EXCEPT ![k] = @ + 1]
  <2>1. Running \in [Timers -> Int] /\ Running' \in [Timers -> Int]
    BY <1>2, <1>3 DEF Running
  <2>2. \A j \in Timers : Running'[j] = Running[j] + (IF k = j THEN 1 ELSE 0)
    BY <1>2, <1>3 DEF Running
  <2> QED
    BY <1>1, <2>1, <2>2
<1>5. pc # "pop"
  BY TimerAssumption DEF AddTimer, TimerInv, Places, Inside
<1>6. Calling' = Calling
  BY <1>1, <1>5 DEF Calling
<1>7. Service!Start(k)
  BY <1>1, <1>4, <1>6 DEF Service!Start, Running, Calling
<1> QED
  BY <1>1, <1>7

(* The callback is that of a timer that runs and is due.                   *)
LEMMA InvokeCalls ==
  ASSUME TimerInv, Invoke
  PROVE  \E k \in Timers : Service!Call(k)
<1> DEFINE k == Last(timers)
<1>1. timers \in Seq(Timers) /\ timers # <<>> /\ left[k] <= 0
  BY DEF TimerInv, TypeOK, Places, Occupied, NeverEarly, Invoke
<1>2. k \in Timers /\ Entries(k) >= 1
  BY <1>1, FrontProperties, FrontTakesOne DEF Entries
<1>3. Calling = NoTimer /\ Calling' = k
  BY DEF Invoke, Calling
<1>4. left' = left /\ Running' = Running
  BY DEF Invoke, Running, Entries
<1>5. Running[k] > 0
  BY <1>2, ArmedIsRunning
<1>6. Service!Call(k)
  BY <1>1, <1>3, <1>4, <1>5 DEF Service!Call, Running, Calling
<1> QED
  BY <1>2, <1>6

(* What is popped is what has called back, and a reload keeps its entry.   *)
LEMMA PopReturns ==
  ASSUME TimerInv, Pop
  PROVE  \E k \in Timers : Service!Return(k)
<1> DEFINE k == Last(timers)
<1>1. /\ timers \in Seq(Timers) /\ timers # <<>>
      /\ k \in Timers /\ Append(Front(timers), k) = timers
  BY FrontProperties DEF TimerInv, TypeOK, Places, Occupied, Pop
<1>2. Calling = k /\ Calling' = NoTimer
  BY DEF Pop, Calling
<1>3. \A j \in Timers : Entries(j) \in Nat /\ Running[j] = Entries(j)
  BY ArmedIsRunning
<1>4. CASE k \in Periodic
  <2>1. timers' = timers /\ left' = [left EXCEPT ![k] = Interval[k]]
    BY <1>1, <1>4 DEF Pop
  <2>2. Running' = Running
    BY <2>1 DEF Running, Entries
  <2> QED
    BY <1>1, <1>2, <1>4, <2>1, <2>2 DEF Service!Return, Running, Calling
<1>5. CASE k \notin Periodic
  <2>1. /\ timers' = Front(timers)
        /\ left' = [left EXCEPT ![k] = IF Running[k] > 1 THEN @ ELSE 0]
    BY <1>1, <1>3, <1>5 DEF Pop
  <2>2. \A j : Entries(j)' = Entries(j) - (IF k = j THEN 1 ELSE 0)
    BY <1>1, <2>1, FrontTakesOne DEF Entries
  <2>3. Running' = [Running EXCEPT ![k] = @ - 1]
    <3>1. Running \in [Timers -> Int] /\ Running' \in [Timers -> Int]
      BY <1>3, <2>2 DEF Running
    <3>2. \A j \in Timers : Running'[j] = Running[j] - (IF k = j THEN 1 ELSE 0)
      BY <1>3, <2>2 DEF Running
    <3> QED
      BY <1>1, <3>1, <3>2
  <2> QED
    BY <1>1, <1>2, <1>5, <2>1, <2>3 DEF Service!Return, Running, Calling
<1> QED
  BY <1>4, <1>5

(* Everything else the timer thread and the handlers do is not seen: the   *)
(* sort changes the order of the entries and not their number.             *)
LEMMA OthersStutter ==
  ASSUME TimerInv, [Next]_vars, ~Tick, ~Invoke, ~Pop, \A a \in Actors : ~AddTimer(a)
  PROVE  UNCHANGED <<Running, left, Calling>>
<1>1. CASE Look
  <2>1. timers \in Seq(Timers)
    BY DEF TimerInv, TypeOK
  <2>2. \A k : Entries(k)' = Entries(k)
    <3>1. CASE sort
      <4>1. timers' \in Sorted(timers)
        BY <1>1, <3>1 DEF Look
      <4> QED
        BY <2>1, <4>1, SortedProperties DEF Entries
    <3>2. CASE ~sort
      BY <1>1, <3>2, SameEntries DEF Look
    <3> QED
      BY <3>1, <3>2
  <2> QED
    BY <1>1, <2>2 DEF Look, Running, Calling
<1>2. CASE ~Look
  <2>1. /\ UNCHANGED <<timers, left>>
        /\ pc' = pc \/ "pop" \notin {pc, pc'}
    BY <1>2 DEF Next, vars, ThreadStep, HandlerStep, ExitStep, Start, Notify, Exit,
                NotifyAll, Join, WakesSpuriously, Wakes, Lock, CheckEmpty, Wait,
                CheckStop, Sleep, NapEnds, RecheckDue, RecheckEarly, timerVars,
                threadVars, actorVars
  <2> QED
    BY <2>1 DEF Running, Calling, Entries
<1> QED
  BY <1>1, <1>2

(* The vector of timers with its sort, naps and reloads implements the     *)
(* service that a NativeTimer is to those who start it.                    *)
THEOREM TimerThreadImplementsService == Spec => ServiceSpec
<1>1. Init => Service!Init
  <2>1. ASSUME Init
        PROVE  Running = [k \in Timers |-> 0] /\ Calling = NoTimer
    <3>1. \A k : Positions(timers, k) = {}
      BY <2>1 DEF Init, Positions
    <3> QED
      BY <2>1, <3>1, FS_EmptySet DEF Init, Running, Calling, Entries
  <2> QED
    BY <2>1 DEF Init, Service!Init, Running, Calling
<1>2. TimerInv /\ [Next]_vars => [Service!Next]_(Service!serviceVars)
  <2> SUFFICES ASSUME TimerInv, [Next]_vars
               PROVE  [Service!Next]_(Service!serviceVars)
    OBVIOUS
  <2>1. CASE Tick
    BY <2>1, TickPasses DEF Service!Next
  <2>2. CASE \E a \in Actors : AddTimer(a)
    BY <2>2, AddTimerStarts DEF Service!Next
  <2>3. CASE Invoke
    BY <2>3, InvokeCalls DEF Service!Next
  <2>4. CASE Pop
    BY <2>4, PopReturns DEF Service!Next
  <2>5. CASE ~Tick /\ ~Invoke /\ ~Pop /\ \A a \in Actors : ~AddTimer(a)
    <3>1. UNCHANGED <<Running, left, Calling>>
      BY <2>5, OthersStutter
    <3> QED
      BY <3>1 DEF Service!serviceVars, Running, Calling
  <2> QED
    BY <2>1, <2>2, <2>3, <2>4, <2>5
<1> QED
  BY <1>1, <1>2, TimerInvariant, PTL DEF Spec, ServiceSpec, Service!Spec
=============================================================================
