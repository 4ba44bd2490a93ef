---------------------------- MODULE NativeQueue ----------------------------
(***************************************************************************)
(* NativeQueue<T> of src/Native.h in the Linux build: a std::queue, a      *)
(* mutex and a condition variable.  send pushes under the mutex, unlocks   *)
(* and then notifies one waiter; recv waits at most once for the           *)
(* condition variable and looks at the queue again when it wakes up,       *)
(* whatever woke it.  The queue size given to the constructor is ignored.  *)
(*                                                                         *)
(* One action per stretch of code between two visible effects on the       *)
(* mutex, the condition variable or the queue.                             *)
(***************************************************************************)
EXTENDS Naturals, Sequences, FiniteSets

CONSTANTS
  Producers,   (* threads that call send                                   *)
  Consumers,   (* threads that call recv in a loop                         *)
  Items,       (* the values that are queued                               *)
  ENOENT,      (* the error code of a recv that found nothing              *)
  Nobody,      (* the owner of a free mutex                                *)
  MaxItems     (* bound: a new send starts only below this many items      *)

ASSUME QueueAssumption ==
  /\ IsFiniteSet(Producers) /\ IsFiniteSet(Consumers)
  /\ Producers \cap Consumers = {}
  /\ Nobody \notin Producers \cup Consumers
  /\ ENOENT \notin Items
  /\ MaxItems \in Nat

VARIABLES
  queue,       (* queue_                                                   *)
  mutex,       (* the owner of mutex_                                      *)
  waiting,     (* the consumers blocked on cond_                           *)
  pc,          (* where each thread is in send or recv                     *)
  arg,         (* the item a producer is sending, or one it sent last      *)
  front,       (* the value a consumer copied with queue_.front()          *)
  got          (* what the last recv of a consumer returned to its caller  *)

vars == <<queue, mutex, waiting, pc, arg, front, got>>

Procs == Producers \cup Consumers

ProducerPCs == {"idle", "push", "unlock", "notify"}
ConsumerPCs == {"idle", "check", "waiting", "relock", "recheck", "front", "pop"}

(* Inside the critical section of mutex_.                                  *)
Locked == {"push", "unlock", "check", "recheck", "front", "pop"}

Goto(p, label) == pc' = [pc EXCEPT ![p] = label]

Acquire(p) == mutex = Nobody /\ mutex' = p

Release == mutex' = Nobody

Init ==
  /\ queue = <<>>
  /\ mutex = Nobody
  /\ waiting = {}
  /\ pc = [p \in Procs |-> "idle"]
  /\ arg \in [Producers -> Items]
  /\ front = [c \in Consumers |-> ENOENT]
  /\ got = [c \in Consumers |-> ENOENT]

-----------------------------------------------------------------------------
(* send(item, to): the timeout is not used.                                *)

SendLock(p, x) ==
  /\ pc[p] = "idle"
  /\ Len(queue) < MaxItems
  /\ Acquire(p)
  /\ arg' = [arg EXCEPT ![p] = x]
  /\ Goto(p, "push")
  /\ UNCHANGED <<queue, waiting, front, got>>

(* Mutant: the slot is queued before the item is copied into it.           *)
SendPushUnset(p) ==
  /\ pc[p] = "push"
  /\ queue' = Append(queue, ENOENT)
  /\ Goto(p, "unlock")
  /\ UNCHANGED <<mutex, waiting, arg, front, got>>

SendPush(p) ==
  /\ pc[p] = "push"
  /\ queue' = Append(queue, arg[p])
  /\ Goto(p, "unlock")
  /\ UNCHANGED <<mutex, waiting, arg, front, got>>

SendUnlock(p) ==
  /\ pc[p] = "unlock"
  /\ Release
  /\ Goto(p, "notify")
  /\ UNCHANGED <<queue, waiting, arg, front, got>>

(* Mutant: notify only when the item is the only one queued.               *)
SendNotifyFirst(p) ==
  /\ pc[p] = "notify"
  /\ IF waiting = {} \/ Len(queue) # 1
     THEN Goto(p, "idle") /\ UNCHANGED waiting
     ELSE \E c \in waiting :
            /\ waiting' = waiting \ {c}
            /\ pc' = [pc EXCEPT ![p] = "idle", ![c] = "relock"]
  /\ UNCHANGED <<queue, mutex, arg, front, got>>

(* notify_one wakes one of the blocked consumers, if there is one.         *)
SendNotify(p) ==
  /\ pc[p] = "notify"
  /\ \/ /\ waiting = {}
        /\ Goto(p, "idle")
        /\ UNCHANGED waiting
     \/ \E c \in waiting :
          /\ waiting' = waiting \ {c}
          /\ pc' = [pc EXCEPT ![p] = "idle", ![c] = "relock"]
  /\ UNCHANGED <<queue, mutex, arg, front, got>>

-----------------------------------------------------------------------------
(* recv(item, to)                                                          *)

RecvLock(c) ==
  /\ pc[c] = "idle"
  /\ Acquire(c)
  /\ Goto(c, "check")
  /\ UNCHANGED <<queue, waiting, arg, front, got>>

(* wait_for releases the mutex and blocks in one step.                     *)
RecvWait(c) ==
  /\ pc[c] = "check"
  /\ queue = <<>>
  /\ Release
  /\ waiting' = waiting \cup {c}
  /\ Goto(c, "waiting")
  /\ UNCHANGED <<queue, arg, front, got>>

(* The wait times out, or ends spuriously.                                 *)
RecvWaitExpires(c) ==
  /\ c \in waiting
  /\ waiting' = waiting \ {c}
  /\ Goto(c, "relock")
  /\ UNCHANGED <<queue, mutex, arg, front, got>>

RecvRelock(c) ==
  /\ pc[c] = "relock"
  /\ Acquire(c)
  /\ Goto(c, "recheck")
  /\ UNCHANGED <<queue, waiting, arg, front, got>>

(* Mutant: a consumer that was woken gives up without a second look.       *)
RecvGiveUpBlind(c) ==
  /\ pc[c] = "recheck"
  /\ Release
  /\ got' = [got EXCEPT ![c] = ENOENT]
  /\ Goto(c, "idle")
  /\ UNCHANGED <<queue, waiting, arg, front>>

(* Still empty after the wait: return ENOENT, the unique_lock unlocks.     *)
RecvGiveUp(c) ==
  /\ pc[c] = "recheck"
  /\ queue = <<>>
  /\ Release
  /\ got' = [got EXCEPT ![c] = ENOENT]
  /\ Goto(c, "idle")
  /\ UNCHANGED <<queue, waiting, arg, front>>

(* Mutant: the lock is given up between front and pop.                     *)
RecvFrontUnlocked(c) ==
  /\ pc[c] \in {"check", "recheck"}
  /\ queue # <<>>
  /\ front' = [front EXCEPT ![c] = Head(queue)]
  /\ Release
  /\ Goto(c, "pop")
  /\ UNCHANGED <<queue, waiting, arg, got>>

(* Something is queued, at the first look or after the wait.               *)
RecvFront(c) ==
  /\ pc[c] \in {"check", "recheck"}
  /\ queue # <<>>
  /\ front' = [front EXCEPT ![c] = Head(queue)]
  /\ Goto(c, "pop")
  /\ UNCHANGED <<queue, mutex, waiting, arg, got>>

RecvPop(c) ==
  /\ pc[c] = "pop"
  /\ queue' = Tail(queue)
  /\ got' = [got EXCEPT ![c] = front[c]]
  /\ Release
  /\ Goto(c, "idle")
  /\ UNCHANGED <<waiting, arg, front>>

-----------------------------------------------------------------------------
SendStep(p) == SendPush(p) \/ SendUnlock(p) \/ SendNotify(p)

RecvStep(c) == RecvWait(c) \/ RecvGiveUp(c) \/ RecvFront(c) \/ RecvPop(c)

Next ==
  \/ \E p \in Producers : SendStep(p) \/ \E x \in Items : SendLock(p, x)
  \/ \E c \in Consumers :
       RecvStep(c) \/ RecvLock(c) \/ RecvRelock(c) \/ RecvWaitExpires(c)

Spec == Init /\ [][Next]_vars

(* A thread that is inside send or recv keeps running, consumers call recv *)
(* again and again, and nobody is refused the mutex for ever.  Nothing is  *)
(* assumed of the timeout, which on the work queue is 2^32-1 ms, nor of    *)
(* the producers starting another send.                                    *)
FairSpec ==
  /\ Spec
  /\ \A p \in Producers : WF_vars(SendStep(p))
  /\ \A c \in Consumers : WF_vars(RecvStep(c))
  /\ \A c \in Consumers : SF_vars(RecvLock(c)) /\ SF_vars(RecvRelock(c))

-----------------------------------------------------------------------------
(* The types of the variables, and where each kind of thread can be.       *)
TypeOK ==
  /\ queue \in Seq(Items)
  /\ mutex \in Procs \cup {Nobody}
  /\ waiting \subseteq Consumers
  /\ pc \in [Procs -> ProducerPCs \cup ConsumerPCs]
  /\ \A p \in Producers : pc[p] \in ProducerPCs
  /\ \A c \in Consumers : pc[c] \in ConsumerPCs
  /\ arg \in [Producers -> Items]
  /\ front \in [Consumers -> Items \cup {ENOENT}]
  /\ got \in [Consumers -> Items \cup {ENOENT}]

(* The code between lock and unlock of mutex_ in send and recv is a        *)
(* critical section: a thread is in it exactly when it owns the mutex.     *)
MutexOwner == \A p \in Procs : pc[p] \in Locked <=> mutex = p

(* cond_ blocks exactly the threads inside wait_for in recv.               *)
WaitSet == \A c \in Consumers : pc[c] = "waiting" <=> c \in waiting

(* Between front() and pop() in recv nobody else touches the queue: the    *)
(* value returned is the one removed.                                      *)
FrontIsHead ==
  \A c \in Consumers : pc[c] = "pop" => queue # <<>> /\ front[c] = Head(queue)

(* No wakeup is lost although send notifies after unlocking: while a       *)
(* consumer sleeps in recv, every queued item is matched by a notify still *)
(* to come or by a consumer that has woken up and has yet to look.         *)
NoLostWakeup ==
  waiting # {} =>
    Len(queue) <=
      Cardinality({p \in Producers : pc[p] \in {"unlock", "notify"}})
      + Cardinality({c \in Consumers : pc[c] \in {"relock", "recheck", "pop"}})

(* send and recv of the monitor behave as the atomic operations of the     *)
(* queue that the mailboxes and the work queue are built on.               *)
Fifo == INSTANCE FifoQueue WITH items <- queue

FifoSpec == Fifo!Spec

(* A queued item is eventually received, although recv waits only once and *)
(* a notify may find nobody waiting.                                       *)
FifoLiveSpec == Fifo!LiveSpec
=============================================================================
