----------------------------- MODULE FifoQueue -----------------------------
(***************************************************************************)
(* What the interface AbstractNativeQueue<T> of src/Native.h promises to   *)
(* the rest of the framework: a first-in first-out queue on which send and *)
(* recv each take effect at one instant.  A recv that gives up reports     *)
(* ENOENT, and may do so only at an instant when the queue is empty.       *)
(* NativeQueue (the Linux monitor) is shown to implement this module.      *)
(***************************************************************************)
EXTENDS Sequences

CONSTANTS
  Consumers,  (* the threads that call recv                        *)
  Items,      (* the values that are queued                        *)
  ENOENT      (* the error a recv returns when it found nothing    *)

VARIABLES
  items,      (* what has been sent and not yet received, in order *)
  got         (* what the last recv of each consumer returned      *)

fifoVars == <<items, got>>

Init ==
  /\ items = <<>>
  /\ got = [c \in Consumers |-> ENOENT]

Send(x) ==
  /\ items' = Append(items, x)
  /\ UNCHANGED got

Recv(c) ==
  /\ items # <<>>
  /\ got' = [got EXCEPT ![c] = Head(items)]
  /\ items' = Tail(items)

RecvTimeout(c) ==
  /\ items = <<>>
  /\ got' = [got EXCEPT ![c] = ENOENT]
  /\ UNCHANGED items

Next ==
  \/ \E x \in Items : Send(x)
  \/ \E c \in Consumers : Recv(c) \/ RecvTimeout(c)

Spec == Init /\ [][Next]_fifoVars

(* As long as something is queued, some consumer eventually receives.      *)
LiveSpec == Spec /\ WF_fifoVars(\E c \in Consumers : Recv(c))
=============================================================================
