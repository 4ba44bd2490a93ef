---------------------------- MODULE TimerThread ----------------------------
(***************************************************************************)
(* The timers of the Linux build: NativeTimerThread and NativeTimer of     *)
(* src/Native.cpp, started by TimerScheduler of src/Akka.cpp.  One thread  *)
(* keeps the started timers in a vector, sorts it when something was added *)
(* so that the earliest timer is the last, and naps until that one is due. *)
(* A handler that starts a timer appends it under the mutex and wakes the  *)
(* thread.  Starting a key that is known appends the same timer again.     *)
(* stop(), and with it cancel(), does nothing, so that it is no action.    *)
(*                                                                         *)
(* Time is relative: left[k] is _timePoint of k minus the clock.           *)
(***************************************************************************)
EXTENDS Integers, Sequences, SequencesExt

CONSTANTS
  Actors,      (* the actors that start timers, one handler at a time each *)
  Timers,      (* the timers, each with a key of its own                   *)
  Periodic,    (* those started with startPeriodicTimer                    *)
  Owner,       (* the actor in whose TimerScheduler a timer is             *)
  Interval,    (* the interval of a timer, in ticks of the clock           *)
  Exiter,      (* the actor whose handler calls exit()                     *)
  NoTimer,     (* no timer                                                 *)
  TimerThread, (* the thread, as an owner of the mutex                     *)
  Nobody,      (* the owner of a free mutex                                *)
  MaxEntries,  (* bound: a start waits while the vector is this long       *)
  MaxLate      (* bound: unless the thread naps, the clock waits for it    *)
               (* when a timer is this late                                *)

ASSUME TimerAssumption ==
  /\ Periodic \subseteq Timers
  /\ Owner \in [Timers -> Actors]
  /\ Interval \in [Timers -> Nat \ {0}]
  /\ Exiter \in Actors
  /\ NoTimer \notin Timers
  /\ TimerThread # Nobody
  /\ MaxEntries \in Nat
  /\ MaxLate \in Nat \ {0}

VARIABLES
  timers,      (* m_Timers                                                 *)
  sort,        (* m_Sort                                                   *)
  stop,        (* m_Stop                                                   *)
  mutex,       (* the owner of m_Mutex                                     *)
  left,        (* _timePoint of each timer, minus the clock                *)
  pc,          (* where the timer thread is in run()                       *)
  nap,         (* napTime, and then what is left of the nap                *)
  apc,         (* what the handler of each actor is doing                  *)
  starting,    (* the timer it starts, or NoTimer                          *)
  pending      (* the starts of each one-shot timer that have yet to fire  *)

vars == <<timers, sort, stop, mutex, left, pc, nap, apc, starting, pending>>

threadVars == <<pc, nap, mutex>>
actorVars  == <<apc, starting>>
timerVars  == <<timers, sort, left, pending>>

Armed(k) == \E i \in DOMAIN timers : timers[i] = k

Positions(s, k) == {i \in DOMAIN s : s[i] = k}
Entries(k) == Cardinality(Positions(timers, k))

Init ==
  /\ timers = <<>>
  /\ sort = FALSE
  /\ stop = FALSE
  /\ mutex = Nobody
  /\ left = [k \in Timers |-> 0]
  /\ pc = "lock"
  /\ nap = 0
  /\ apc = [a \in Actors |-> "idle"]
  /\ starting = [a \in Actors |-> NoTimer]
  /\ pending = [k \in Timers |-> 0]

-----------------------------------------------------------------------------
(* The clock                                                               *)

Tick ==
  /\ \/ pc = "nap" /\ nap > 0
     \/ \A k \in Timers : Armed(k) => left[k] > -MaxLate
  /\ left' = [k \in Timers |-> IF Armed(k) THEN left[k] - 1 ELSE left[k]]
  /\ nap' = IF pc = "nap" /\ nap > 0 THEN nap - 1 ELSE nap
  /\ UNCHANGED <<timers, sort, stop, mutex, pc, actorVars, pending>>

-----------------------------------------------------------------------------
(* Handlers: startPeriodicTimer, startSingleTimer, exit                    *)

Start(a, k) ==
  /\ apc[a] = "idle"
  /\ Owner[k] = a
  /\ Len(timers) < MaxEntries
  /\ apc' = [apc EXCEPT ![a] = "add"]
  /\ starting' = [starting EXCEPT ![a] = k]
  /\ UNCHANGED <<threadVars, timerVars, stop>>

(* Mutant: addTimer does not ask for a sort.                               *)
AddTimerUnsorted(a) ==
  LET k == starting[a] IN
  /\ apc[a] = "add"
  /\ mutex = Nobody
  /\ left' = [left EXCEPT ![k] = Interval[k]]
  /\ timers' = Append(timers, k)
  /\ pending' = [pending EXCEPT ![k] = IF k \in Periodic THEN @ ELSE @ + 1]
  /\ apc' = [apc EXCEPT ![a] = "notify"]
  /\ starting' = [starting EXCEPT ![a] = NoTimer]
  /\ UNCHANGED <<threadVars, sort, stop>>

(* addTimer; nothing it writes is read outside m_Mutex.                    *)
AddTimer(a) ==
  LET k == starting[a] IN
  /\ apc[a] = "add"
  /\ mutex = Nobody
  /\ left' = [left EXCEPT ![k] = Interval[k]]
  /\ timers' = Append(timers, k)
  /\ sort' = TRUE
  /\ pending' = [pending EXCEPT ![k] = IF k \in Periodic THEN @ ELSE @ + 1]
  /\ apc' = [apc EXCEPT ![a] = "notify"]
  /\ starting' = [starting EXCEPT ![a] = NoTimer]
  /\ UNCHANGED <<threadVars, stop>>

(* What a notify does to the timer thread, if it waits.                    *)
Wakes ==
  IF pc \in {"nap", "blocked"}
  THEN /\ pc' = IF pc = "nap" THEN "renap" ELSE "reblock"
       /\ nap' = 0
  ELSE UNCHANGED <<pc, nap>>

(* Mutant: addTimer wakes nobody.                                          *)
NotifyNobody(a) ==
  /\ apc[a] = "notify"
  /\ apc' = [apc EXCEPT ![a] = "idle"]
  /\ UNCHANGED <<timerVars, stop, mutex, pc, nap, starting>>

Notify(a) ==
  /\ apc[a] = "notify"
  /\ Wakes
  /\ apc' = [apc EXCEPT ![a] = "idle"]
  /\ UNCHANGED <<timerVars, stop, mutex, starting>>

(* exit(0) in the Exit handler runs ~NativeTimerThread: m_Stop is set      *)
(* without the mutex.  preStart of that actor started a periodic timer.    *)
Exit ==
  /\ apc[Exiter] = "idle"
  /\ \E k \in Periodic : Owner[k] = Exiter /\ Armed(k)
  /\ stop' = TRUE
  /\ apc' = [apc EXCEPT ![Exiter] = "notifyAll"]
  /\ UNCHANGED <<threadVars, timerVars, starting>>

NotifyAll ==
  /\ apc[Exiter] = "notifyAll"
  /\ Wakes
  /\ apc' = [apc EXCEPT ![Exiter] = "join"]
  /\ UNCHANGED <<timerVars, stop, mutex, starting>>

Join ==
  /\ apc[Exiter] = "join"
  /\ pc = "ended"
  /\ apc' = [apc EXCEPT ![Exiter] = "joined"]
  /\ UNCHANGED <<threadVars, timerVars, stop, starting>>

-----------------------------------------------------------------------------
(* run()                                                                   *)

Acquire == mutex = Nobody /\ mutex' = TimerThread

Release == mutex' = Nobody

(* At the top of the loop, and when wait or wait_for returns.              *)
Lock ==
  /\ \/ pc \in {"lock", "reblock"} /\ pc' = "check"
     \/ pc = "renap" /\ pc' = "recheck"
  /\ Acquire
  /\ UNCHANGED <<timerVars, stop, nap, actorVars>>

(* Mutant: m_Stop is looked at only when there is nothing to do.           *)
StoppingWhenEmpty == stop /\ timers = <<>>

(* if (m_Stop) return                                                      *)
Stopping == stop

(* m_Stop is read, and found FALSE, before the wait begins.                *)
CheckEmpty ==
  /\ pc = "check"
  /\ ~stop
  /\ timers = <<>>
  /\ pc' = "wait"
  /\ UNCHANGED <<timerVars, stop, mutex, nap, actorVars>>

Wait ==
  /\ pc = "wait"
  /\ Release
  /\ pc' = "blocked"
  /\ UNCHANGED <<timerVars, stop, nap, actorVars>>

CheckStop ==
  /\ pc = "check"
  /\ Stopping
  /\ Release
  /\ pc' = "ended"
  /\ UNCHANGED <<timerVars, stop, nap, actorVars>>

(* A vector with the entries of s in which nothing is later than what is   *)
(* before it; std::sort leaves the order of equal entries open.            *)
Sorted(s) ==
  {r \in {[i \in DOMAIN s |-> s[p[i]]] :
            p \in {f \in [DOMAIN s -> DOMAIN s] : IsInjective(f)}} :
     \A i, j \in DOMAIN r : i < j => left[r[i]] >= left[r[j]]}

(* Sort if necessary, and compare the last entry with the clock.           *)
Look ==
  /\ pc = "check"
  /\ ~Stopping
  /\ timers # <<>>
  /\ timers' \in IF sort THEN Sorted(timers) ELSE {timers}
  /\ sort' = FALSE
  /\ IF left[Last(timers')] > 0
     THEN nap' = left[Last(timers')] /\ pc' = "sleep"
     ELSE nap' = 0 /\ pc' = "invoke"
  /\ UNCHANGED <<stop, mutex, left, pending, actorVars>>

(* wait_for: the nap starts now.                                           *)
Sleep ==
  /\ pc = "sleep"
  /\ Release
  /\ pc' = "nap"
  /\ UNCHANGED <<timerVars, stop, nap, actorVars>>

NapEnds ==
  /\ pc = "nap"
  /\ nap = 0
  /\ pc' = "renap"
  /\ UNCHANGED <<timerVars, stop, mutex, nap, actorVars>>

(* wait and wait_for may return for no reason.                             *)
WakesSpuriously ==
  /\ pc \in {"nap", "blocked"}
  /\ Wakes
  /\ UNCHANGED <<timerVars, stop, mutex, actorVars>>

(* Mutant: whatever ended the nap, the timer fires.                        *)
RecheckNothing ==
  /\ pc = "recheck"
  /\ pc' = "invoke"
  /\ UNCHANGED <<timerVars, stop, mutex, nap, actorVars>>

(* After the nap: look at the last entry, the vector is not sorted again.  *)
RecheckDue ==
  /\ pc = "recheck"
  /\ left[Last(timers)] <= 0
  /\ pc' = "invoke"
  /\ UNCHANGED <<timerVars, stop, mutex, nap, actorVars>>

RecheckEarly ==
  /\ pc = "recheck"
  /\ left[Last(timers)] > 0
  /\ Release
  /\ pc' = "lock"
  /\ UNCHANGED <<timerVars, stop, nap, actorVars>>

(* Mutant: the mutex is released for the callback.                         *)
InvokeUnlocked ==
  LET k == Last(timers) IN
  /\ pc = "invoke"
  /\ pending' = [pending EXCEPT ![k] = IF k \in Periodic THEN @ ELSE @ - 1]
  /\ Release
  /\ pc' = "pop"
  /\ UNCHANGED <<timers, sort, left, stop, nap, actorVars>>

(* The callback tells the owner, with m_Mutex held.                        *)
Invoke ==
  LET k == Last(timers) IN
  /\ pc = "invoke"
  /\ pending' = [pending EXCEPT ![k] = IF k \in Periodic THEN @ ELSE @ - 1]
  /\ pc' = "pop"
  /\ UNCHANGED <<timers, sort, left, stop, mutex, nap, actorVars>>

(* Mutant: every timer is appended again.                                  *)
PopReloadsAll ==
  LET k == Last(timers) IN
  /\ pc = "pop"
  /\ timers' = Append(Front(timers), k)
  /\ left' = [left EXCEPT ![k] = Interval[k]]
  /\ sort' = TRUE
  /\ Release
  /\ pc' = "lock"
  /\ UNCHANGED <<stop, nap, actorVars, pending>>

(* Mutant: a periodic timer is appended with the due time that it had.     *)
PopKeepsDue ==
  LET k == Last(timers) IN
  /\ pc = "pop"
  /\ IF k \in Periodic
     THEN /\ timers' = Append(Front(timers), k)
          /\ sort' = TRUE
          /\ UNCHANGED left
     ELSE /\ timers' = Front(timers)
          /\ left' = [left EXCEPT ![k] = IF Entries(k) > 1 THEN @ ELSE 0]
          /\ UNCHANGED sort
  /\ Release
  /\ pc' = "lock"
  /\ UNCHANGED <<stop, nap, actorVars, pending>>

(* A periodic timer is appended again, a one-shot one is dropped.          *)
Pop ==
  LET k == Last(timers) IN
  /\ pc = "pop"
  /\ IF k \in Periodic
     THEN /\ timers' = Append(Front(timers), k)
          /\ left' = [left EXCEPT ![k] = Interval[k]]
          /\ sort' = TRUE
     ELSE /\ timers' = Front(timers)
          /\ left' = [left EXCEPT ![k] = IF Entries(k) > 1 THEN @ ELSE 0]
          /\ UNCHANGED sort
  /\ Release
  /\ pc' = "lock"
  /\ UNCHANGED <<stop, nap, actorVars, pending>>

-----------------------------------------------------------------------------
ThreadStep ==
  \/ Lock \/ CheckEmpty \/ Wait \/ CheckStop \/ Look \/ Sleep \/ NapEnds
  \/ RecheckDue \/ RecheckEarly \/ Invoke \/ Pop

HandlerStep(a) == AddTimer(a) \/ Notify(a)

ExitStep == NotifyAll \/ Join

Next ==
  \/ Tick
  \/ ThreadStep
  \/ WakesSpuriously
  \/ \E a \in Actors : HandlerStep(a) \/ \E k \in Timers : Start(a, k)
  \/ Exit
  \/ ExitStep

Spec == Init /\ [][Next]_vars

(* Time passes, and the timer thread, the thread in exit() and a handler   *)
(* that has added a timer keep running.                                    *)
FairSpec ==
  /\ Spec
  /\ WF_vars(Tick)
  /\ WF_vars(ThreadStep)
  /\ WF_vars(ExitStep)
  /\ \A a \in Actors : WF_vars(Notify(a))

-----------------------------------------------------------------------------
(* The types of the variables.                                             *)
TypeOK ==
  /\ timers \in Seq(Timers)
  /\ sort \in BOOLEAN
  /\ stop \in BOOLEAN
  /\ mutex \in {TimerThread, Nobody}
  /\ left \in [Timers -> Int]
  /\ pc \in {"lock", "check", "wait", "blocked", "reblock", "sleep", "nap",
             "renap", "recheck", "invoke", "pop", "ended"}
  /\ nap \in Nat
  /\ apc \in [Actors -> {"idle", "add", "notify", "notifyAll", "join", "joined"}]
  /\ starting \in [Actors -> Timers \cup {NoTimer}]
  /\ pending \in [Timers -> Nat]

(* run() fires a timer when it is due or later, never earlier, although    *)
(* addTimer may wake it in the middle of a nap and move a due time away.   *)
NeverEarly == pc \in {"invoke", "pop"} => left[Last(timers)] <= 0

(* Each start of a one-shot timer fires it once: what run() pops is what   *)
(* it invoked, nothing is dropped and nothing fires twice.  Between the    *)
(* call of the callback and the pop the entry is there, and has fired.     *)
OneShotFiresOnce ==
  \A k \in Timers \ Periodic :
    Entries(k) =
      pending[k] + (IF pc = "pop" /\ Last(timers) = k THEN 1 ELSE 0)

(* A nap of run() ends for the earliest timer: one that is due before the  *)
(* last entry has been added since, and its notify is still to come.       *)
SleepsForEarliest ==
  pc \in {"sleep", "nap"} =>
    \/ \A i \in DOMAIN timers : left[timers[i]] >= left[Last(timers)]
    \/ \E a \in Actors : apc[a] = "notify"

(* A periodic timer is never lost once it has been started: pop_back and   *)
(* emplace_back in run() are never torn apart.                             *)
PeriodicStaysArmed == [][\A k \in Periodic : Armed(k) => Armed(k)']_vars

(* What the callers of a timer see: the starts to come, and the callback.  *)
Running == [k \in Timers |-> Entries(k)]
Calling == IF pc = "pop" THEN Last(timers) ELSE NoTimer

(* run() and addTimer serve their callers as NativeTimer promises: each    *)
(* callback belongs to a start and is not early, no start is forgotten or  *)
(* served twice by the sort, the reload or an entry that is appended in    *)
(* the meantime, and a reload or another start moves the due time by the   *)
(* interval.                                                               *)
Service == INSTANCE TimerService WITH running <- Running, calling <- Calling

ServiceSpec == Service!Spec

(* A timer that is due fires, whatever else is started: the vector is      *)
(* sorted in time and no notify of addTimer is lost.                       *)
DueFires ==
  \A k \in Timers :
    Armed(k) /\ left[k] <= 0 ~> stop \/ (pc = "pop" /\ Last(timers) = k)

(* exit() gets past the join in ~NativeTimerThread, although m_Stop is set *)
(* without the mutex: the thread never blocks without a timeout any more.  *)
ExitCompletes == apc[Exiter] = "notifyAll" ~> apc[Exiter] = "joined"
=============================================================================
