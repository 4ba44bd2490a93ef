---------------------------- MODULE TimerService ----------------------------
(***************************************************************************)
(* What the class NativeTimer of src/Native.h promises to TimerScheduler:  *)
(* a timer that is started calls back when its interval is over or later,  *)
(* once per start, or, with autoReload, again and again.  Starting a timer *)
(* that runs begins its interval anew for every start that has yet to call *)
(* back.  TimerThread is shown to implement this module.                   *)
(***************************************************************************)
EXTENDS Integers

CONSTANTS
  Timers,      (* the timers                                               *)
  Periodic,    (* those with autoReload                                    *)
  Interval,    (* the interval of a timer                                  *)
  NoTimer      (* no timer                                                 *)

VARIABLES
  running,     (* the starts of each timer that it still calls back for    *)
  left,        (* the time until it is due, 0 while it is not running      *)
  calling      (* the timer whose callback runs, or NoTimer                *)

serviceVars == <<running, left, calling>>

Init ==
  /\ running = [k \in Timers |-> 0]
  /\ left = [k \in Timers |-> 0]
  /\ calling = NoTimer

(* Time passes.                                                            *)
Pass ==
  /\ left' = [k \in Timers |-> IF running[k] > 0 THEN left[k] - 1 ELSE left[k]]
  /\ UNCHANGED <<running, calling>>

Start(k) ==
  /\ running' = [running EXCEPT ![k] = @ + 1]
  /\ left' = [left EXCEPT ![k] = Interval[k]]
  /\ UNCHANGED calling

(* The callback, of one timer at a time.                                   *)
Call(k) ==
  /\ calling = NoTimer
  /\ running[k] > 0
  /\ left[k] <= 0
  /\ calling' = k
  /\ UNCHANGED <<running, left>>

(* After it, a one-shot timer has done with one start, and a periodic one  *)
(* begins its interval anew.                                               *)
Return(k) ==
  /\ calling = k
  /\ IF k \in Periodic
     THEN /\ left' = [left EXCEPT ![k] = Interval[k]]
          /\ UNCHANGED running
     ELSE /\ running' = [running EXCEPT ![k] = @ - 1]
          /\ left' = [left EXCEPT ![k] = IF running[k] > 1 THEN @ ELSE 0]
  /\ calling' = NoTimer

Next == Pass \/ \E k \in Timers : Start(k) \/ Call(k) \/ Return(k)

Spec == Init /\ [][Next]_serviceVars
=============================================================================
