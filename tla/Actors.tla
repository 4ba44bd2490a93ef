------------------------------- MODULE Actors -------------------------------
(***************************************************************************)
(* What the framework promises the author of an actor, whatever the number *)
(* of dispatcher threads: tell puts a message at the end of the actor's    *)
(* inbox, the actor handles one message at a time, in the order in which   *)
(* they entered the inbox, and every message in the inbox is handled.      *)
(* Dispatcher is shown to implement this module.                           *)
(***************************************************************************)
EXTENDS Sequences

CONSTANTS
  Actors,   (* the actors                                      *)
  Msgs,     (* the messages                                    *)
  NoMsg     (* no message: the actor is between two invocations *)

VARIABLES
  inbox,    (* the messages each actor has yet to handle       *)
  busy      (* the message each actor is handling, or NoMsg    *)

actorVars == <<inbox, busy>>

Init ==
  /\ inbox = [a \in Actors |-> <<>>]
  /\ busy = [a \in Actors |-> NoMsg]

Deliver(a, m) ==
  /\ inbox' = [inbox EXCEPT ![a] = Append(@, m)]
  /\ UNCHANGED busy

Begin(a) ==
  /\ busy[a] = NoMsg
  /\ inbox[a] # <<>>
  /\ busy' = [busy EXCEPT ![a] = Head(inbox[a])]
  /\ inbox' = [inbox EXCEPT ![a] = Tail(@)]

End(a) ==
  /\ busy[a] # NoMsg
  /\ busy' = [busy EXCEPT ![a] = NoMsg]
  /\ UNCHANGED inbox

Next ==
  \E a \in Actors : Begin(a) \/ End(a) \/ \E m \in Msgs : Deliver(a, m)

Spec == Init /\ [][Next]_actorVars

(* Every actor gets its turn and every handler returns.                    *)
LiveSpec ==
  Spec /\ \A a \in Actors : WF_actorVars(Begin(a)) /\ WF_actorVars(End(a))
=============================================================================
