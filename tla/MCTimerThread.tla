--------------------------- MODULE MCTimerThread ---------------------------
(* TimerThread with two actors: one like Sender, with a periodic timer and *)
(* a one-shot timer that its handler starts again and again, one like      *)
(* System, with a periodic timer and the handler that exits.               *)
EXTENDS TimerThread, TLC

CONSTANTS sender, system, startTest, endTest, propTimer

MCOwner == endTest :> sender @@ startTest :> sender @@ propTimer :> system

MCInterval == endTest :> 1 @@ startTest :> 2 @@ propTimer :> 2
=============================================================================
