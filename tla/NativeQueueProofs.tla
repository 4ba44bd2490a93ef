------------------------- MODULE NativeQueueProofs -------------------------
(***************************************************************************)
(* The monitor queue of the Linux build is correct for any number of       *)
(* producers, consumers and items: its critical section is one, and its    *)
(* send and recv implement those of the atomic queue FifoQueue.            *)
(*                                                                         *)
(* QueueInv is inductive: who owns the mutex and who waits follow from     *)
(* where the threads are, and therefore the consumer between front() and   *)
(* pop() is the only thread that may touch the queue.                      *)
(***************************************************************************)
EXTENDS NativeQueue, FiniteSetTheorems, TLAPS

QueueInv == TypeOK /\ MutexOwner /\ WaitSet /\ FrontIsHead

(* The queue starts in a state that satisfies the invariant.               *)
LEMMA QueueInit == Init => QueueInv
<1> SUFFICES ASSUME Init PROVE QueueInv
  OBVIOUS
<1>1. TypeOK
  BY QueueAssumption DEF Init, TypeOK, Procs, ProducerPCs, ConsumerPCs
<1>2. MutexOwner
  BY QueueAssumption DEF Init, MutexOwner, Locked, Procs
<1>3. WaitSet
  BY DEF Init, WaitSet, Procs
<1>4. FrontIsHead
  BY DEF Init, FrontIsHead, Procs
<1> QED
  BY <1>1, <1>2, <1>3, <1>4 DEF QueueInv

(* Every step of send and recv preserves the types.                        *)
LEMMA QueueTypeStep ==
  ASSUME QueueInv, [Next]_vars PROVE TypeOK'
<1> USE QueueAssumption DEF TypeOK, Procs, ProducerPCs, ConsumerPCs, Goto
<1>0. TypeOK
  BY DEF QueueInv
<1>1. ASSUME NEW p \in Producers, NEW x \in Items, SendLock(p, x) PROVE TypeOK'
  BY <1>0, <1>1 DEF SendLock, Acquire
<1>2. ASSUME NEW p \in Producers, SendPush(p) PROVE TypeOK'
  BY <1>0, <1>2 DEF SendPush
<1>3. ASSUME NEW p \in Producers, SendUnlock(p) PROVE TypeOK'
  BY <1>0, <1>3 DEF SendUnlock, Release
<1>4. ASSUME NEW p \in Producers, SendNotify(p) PROVE TypeOK'
  <2>1. CASE pc' = [pc EXCEPT ![p] = "idle"] /\ UNCHANGED waiting
    BY <1>0, <1>4, <2>1 DEF SendNotify
  <2>2. CASE \E c \in waiting :
               /\ waiting' = waiting \ {c}
               /\ pc' = [pc EXCEPT ![p] = "idle", ![c] = "relock"]
    BY <1>0, <1>4, <2>2 DEF SendNotify
  <2> QED
    BY <1>4, <2>1, <2>2 DEF SendNotify
<1>5. ASSUME NEW c \in Consumers, RecvLock(c) PROVE TypeOK'
  BY <1>0, <1>5 DEF RecvLock, Acquire
<1>6. ASSUME NEW c \in Consumers, RecvWait(c) PROVE TypeOK'
  BY <1>0, <1>6 DEF RecvWait, Release
<1>7. ASSUME NEW c \in Consumers, RecvWaitExpires(c) PROVE TypeOK'
  BY <1>0, <1>7 DEF RecvWaitExpires
<1>8. ASSUME NEW c \in Consumers, RecvRelock(c) PROVE TypeOK'
  BY <1>0, <1>8 DEF RecvRelock, Acquire
<1>9. ASSUME NEW c \in Consumers, RecvGiveUp(c) PROVE TypeOK'
  BY <1>0, <1>9 DEF RecvGiveUp, Release
<1>10. ASSUME NEW c \in Consumers, RecvFront(c) PROVE TypeOK'
  BY <1>0, <1>10 DEF RecvFront
<1>11. ASSUME NEW c \in Consumers, RecvPop(c) PROVE TypeOK'
  <2>1. queue # <<>>
    BY <1>11 DEF RecvPop, QueueInv, FrontIsHead
  <2> QED
    BY <1>0, <1>11, <2>1 DEF RecvPop, Release
<1>12. CASE UNCHANGED vars
  BY <1>0, <1>12 DEF vars
<1> QED
  BY <1>1, <1>2, <1>3, <1>4, <1>5, <1>6, <1>7, <1>8, <1>9, <1>10, <1>11, <1>12
     DEF Next, SendStep, RecvStep

(* Every step of send and recv preserves who owns the mutex, who waits and *)
(* what the consumer before its pop has seen.                              *)
LEMMA QueueSafetyStep ==
  ASSUME QueueInv, [Next]_vars PROVE MutexOwner' /\ WaitSet' /\ FrontIsHead'
<1> USE QueueAssumption
    DEF QueueInv, TypeOK, Procs, ProducerPCs, ConsumerPCs, Goto, Locked,
        MutexOwner, WaitSet, FrontIsHead
<1>1. ASSUME NEW p \in Producers, NEW x \in Items, SendLock(p, x)
      PROVE MutexOwner' /\ WaitSet' /\ FrontIsHead'
  BY <1>1 DEF SendLock, Acquire
<1>2. ASSUME NEW p \in Producers, SendPush(p)
      PROVE MutexOwner' /\ WaitSet' /\ FrontIsHead'
  BY <1>2 DEF SendPush
<1>3. ASSUME NEW p \in Producers, SendUnlock(p)
      PROVE MutexOwner' /\ WaitSet' /\ FrontIsHead'
  BY <1>3 DEF SendUnlock, Release
<1>4. ASSUME NEW p \in Producers, SendNotify(p)
      PROVE MutexOwner' /\ WaitSet' /\ FrontIsHead'
  <2>1. CASE pc' = [pc EXCEPT ![p] = "idle"] /\ UNCHANGED waiting
    BY <1>4, <2>1 DEF SendNotify
  <2>2. CASE \E c \in waiting :
               /\ waiting' = waiting \ {c}
               /\ pc' = [pc EXCEPT ![p] = "idle", ![c] = "relock"]
    BY <1>4, <2>2 DEF SendNotify
  <2> QED
    BY <1>4, <2>1, <2>2 DEF SendNotify
<1>5. ASSUME NEW c \in Consumers, RecvLock(c)
      PROVE MutexOwner' /\ WaitSet' /\ FrontIsHead'
  BY <1>5 DEF RecvLock, Acquire
<1>6. ASSUME NEW c \in Consumers, RecvWait(c)
      PROVE MutexOwner' /\ WaitSet' /\ FrontIsHead'
  BY <1>6 DEF RecvWait, Release
<1>7. ASSUME NEW c \in Consumers, RecvWaitExpires(c)
      PROVE MutexOwner' /\ WaitSet' /\ FrontIsHead'
  BY <1>7 DEF RecvWaitExpires
<1>8. ASSUME NEW c \in Consumers, RecvRelock(c)
      PROVE MutexOwner' /\ WaitSet' /\ FrontIsHead'
  BY <1>8 DEF RecvRelock, Acquire
<1>9. ASSUME NEW c \in Consumers, RecvGiveUp(c)
      PROVE MutexOwner' /\ WaitSet' /\ FrontIsHead'
  BY <1>9 DEF RecvGiveUp, Release
<1>10. ASSUME NEW c \in Consumers, RecvFront(c)
       PROVE MutexOwner' /\ WaitSet' /\ FrontIsHead'
  BY <1>10 DEF RecvFront
<1>11. ASSUME NEW c \in Consumers, RecvPop(c)
       PROVE MutexOwner' /\ WaitSet' /\ FrontIsHead'
  BY <1>11 DEF RecvPop, Release
<1>12. CASE UNCHANGED vars
  BY <1>12 DEF vars
<1> QED
  BY <1>1, <1>2, <1>3, <1>4, <1>5, <1>6, <1>7, <1>8, <1>9, <1>10, <1>11, <1>12
     DEF Next, SendStep, RecvStep

(* QueueInv holds in every reachable state of the monitor queue.           *)
THEOREM QueueInvariant == Spec => []QueueInv
<1>1. QueueInv /\ [Next]_vars => QueueInv'
  BY QueueTypeStep, QueueSafetyStep DEF QueueInv
<1> QED
  BY QueueInit, <1>1, PTL DEF Spec

(* The variables of send and recv keep their types.                        *)
THEOREM QueueTypeCorrect == Spec => []TypeOK
BY QueueInvariant, PTL DEF QueueInv

(* No two threads are between lock and unlock of mutex_ at once.           *)
THEOREM QueueMutualExclusion ==
  Spec => [](\A p, q \in Procs : pc[p] \in Locked /\ pc[q] \in Locked => p = q)
<1>1. QueueInv => \A p, q \in Procs : pc[p] \in Locked /\ pc[q] \in Locked => p = q
  BY DEF QueueInv, MutexOwner
<1> QED
  BY QueueInvariant, <1>1, PTL

(* recv returns the item that it removes from the queue.                   *)
THEOREM QueueFrontIsHead == Spec => []FrontIsHead
BY QueueInvariant, PTL DEF QueueInv

-----------------------------------------------------------------------------
(* A step of send or recv is a step of the atomic queue, or none: the push *)
(* sends, the pop receives, and giving up after the second look finds      *)
(* nothing.                                                                *)
LEMMA QueueStepSimulation ==
  ASSUME QueueInv, [Next]_vars PROVE [Fifo!Next]_(Fifo!fifoVars)
<1> USE DEF Fifo!Next, Fifo!fifoVars, Fifo!Send, Fifo!Recv, Fifo!RecvTimeout,
            QueueInv, TypeOK, Goto
<1>1. ASSUME NEW p \in Producers, NEW x \in Items, SendLock(p, x)
      PROVE UNCHANGED Fifo!fifoVars
  BY <1>1 DEF SendLock
<1>2. ASSUME NEW p \in Producers, SendPush(p) PROVE Fifo!Next
  <2>1. arg[p] \in Items /\ Fifo!Send(arg[p])
    BY <1>2 DEF SendPush
  <2> QED
    BY <2>1
<1>3. ASSUME NEW p \in Producers, SendUnlock(p) \/ SendNotify(p)
      PROVE UNCHANGED Fifo!fifoVars
  BY <1>3 DEF SendUnlock, SendNotify
<1>4. ASSUME NEW c \in Consumers,
             RecvLock(c) \/ RecvWait(c) \/ RecvWaitExpires(c) \/ RecvRelock(c)
             \/ RecvFront(c)
      PROVE UNCHANGED Fifo!fifoVars
  BY <1>4 DEF RecvLock, RecvWait, RecvWaitExpires, RecvRelock, RecvFront
<1>5. ASSUME NEW c \in Consumers, RecvGiveUp(c) PROVE Fifo!Next
  <2>1. Fifo!RecvTimeout(c)
    BY <1>5 DEF RecvGiveUp
  <2> QED
    BY <2>1
<1>6. ASSUME NEW c \in Consumers, RecvPop(c) PROVE Fifo!Next
  <2>1. queue # <<>> /\ front[c] = Head(queue)
    BY <1>6 DEF RecvPop, FrontIsHead
  <2>2. Fifo!Recv(c)
    BY <1>6, <2>1 DEF RecvPop
  <2> QED
    BY <2>2
<1>7. CASE UNCHANGED vars
  BY <1>7 DEF vars
<1> QED
  BY <1>1, <1>2, <1>3, <1>4, <1>5, <1>6, <1>7 DEF Next, SendStep, RecvStep

(* The monitor implements the atomic queue that Dispatcher takes for       *)
(* granted.                                                                *)
THEOREM QueueImplementsFifo == Spec => FifoSpec
<1>1. Init => Fifo!Init
  BY DEF Init, Fifo!Init
<1> QED
  BY QueueInvariant, QueueStepSimulation, <1>1, PTL DEF Spec, FifoSpec, Fifo!Spec

-----------------------------------------------------------------------------
(* No wakeup is lost.  The two sets that NoLostWakeup counts: the sends    *)
(* that have pushed and not yet notified, and the consumers that are awake *)
(* and have not yet taken or given up.                                     *)
Announced == {p \in Producers : pc[p] \in {"unlock", "notify"}}

Awake == {c \in Consumers : pc[c] \in {"relock", "recheck", "pop"}}

LEMMA CountsAreNaturals ==
  /\ IsFiniteSet(Announced) /\ Cardinality(Announced) \in Nat
  /\ IsFiniteSet(Awake) /\ Cardinality(Awake) \in Nat
BY QueueAssumption, FS_Subset, FS_CardinalityType DEF Announced, Awake

(* A set that loses or gains one element.                                  *)
LEMMA CountPlusOne ==
  ASSUME NEW S, IsFiniteSet(S), NEW x, x \notin S
  PROVE  Cardinality(S \cup {x}) = Cardinality(S) + 1
BY FS_AddElement

LEMMA CountMinusOne ==
  ASSUME NEW S, IsFiniteSet(S), NEW x, x \in S
  PROVE  Cardinality(S \ {x}) = Cardinality(S) - 1
BY FS_RemoveElement

LEMMA CountGrows ==
  ASSUME NEW S, IsFiniteSet(S), NEW x
  PROVE  Cardinality(S \cup {x}) \in Nat /\ Cardinality(S \cup {x}) >= Cardinality(S)
<1>1. Cardinality(S) \in Nat
  BY FS_CardinalityType
<1>2. Cardinality(S \cup {x}) = IF x \in S THEN Cardinality(S) ELSE Cardinality(S) + 1
  BY FS_AddElement
<1> QED
  BY <1>1, <1>2

(* Whatever a step does to the queue it does to the two counts.            *)
LEMMA NoLostWakeupStep ==
  ASSUME QueueInv, TypeOK', NoLostWakeup, [Next]_vars PROVE NoLostWakeup'
<1> USE QueueAssumption DEF Goto
<1> DEFINE Room == Len(queue) <= Cardinality(Announced) + Cardinality(Awake)
<1>0. /\ TypeOK /\ MutexOwner /\ WaitSet
      /\ Len(queue) \in Nat /\ Len(queue') \in Nat
      /\ waiting # {} => Room
  BY DEF QueueInv, NoLostWakeup, TypeOK, Announced, Awake
<1>00. SUFFICES ASSUME waiting' # {} PROVE Room'
  BY DEF NoLostWakeup, Announced, Awake
<1>01. /\ Cardinality(Announced) \in Nat /\ Cardinality(Awake) \in Nat
       /\ IsFiniteSet(Announced) /\ IsFiniteSet(Awake)
  BY CountsAreNaturals
<1>1. ASSUME NEW p \in Producers, NEW x \in Items, SendLock(p, x) PROVE Room'
  <2>1. Announced' = Announced /\ Awake' = Awake
    BY <1>0, <1>1 DEF SendLock, TypeOK, Procs, Announced, Awake
  <2> QED
    BY <1>0, <1>1, <1>00, <2>1 DEF SendLock
<1>2. ASSUME NEW p \in Producers, SendPush(p) PROVE Room'
  <2>1. Announced' = Announced \cup {p} /\ p \notin Announced /\ Awake' = Awake
    BY <1>0, <1>2 DEF SendPush, TypeOK, Procs, Announced, Awake
  <2>2. Cardinality(Announced') = Cardinality(Announced) + 1
    BY <1>01, <2>1, CountPlusOne
  <2>3. Len(queue') = Len(queue) + 1
    BY <1>0, <1>2 DEF SendPush, TypeOK
  <2>4. Room
    BY <1>0, <1>00, <1>2 DEF SendPush
  <2> QED
    BY <1>0, <1>01, <2>1, <2>2, <2>3, <2>4
<1>3. ASSUME NEW p \in Producers, SendUnlock(p) PROVE Room'
  <2>1. Announced' = Announced /\ Awake' = Awake
    BY <1>0, <1>3 DEF SendUnlock, TypeOK, Procs, Announced, Awake
  <2> QED
    BY <1>0, <1>3, <1>00, <2>1 DEF SendUnlock
<1>4. ASSUME NEW p \in Producers, SendNotify(p) PROVE Room'
  <2>1. PICK c \in waiting : /\ waiting' = waiting \ {c}
                             /\ pc' = [pc EXCEPT ![p] = "idle", ![c] = "relock"]
    BY <1>00, <1>4 DEF SendNotify
  <2>2. c \in Consumers /\ pc[c] = "waiting" /\ pc[p] = "notify" /\ c # p
    BY <1>0, <1>4, <2>1 DEF TypeOK, WaitSet, SendNotify
  <2>3. Announced' = Announced \ {p} /\ p \in Announced
    BY <1>0, <2>1, <2>2 DEF TypeOK, Procs, Announced, Awake
  <2>4. Awake' = Awake \cup {c} /\ c \notin Awake
    BY <1>0, <2>1, <2>2 DEF TypeOK, Procs, Announced, Awake
  <2>5. /\ Cardinality(Announced') = Cardinality(Announced) - 1
        /\ Cardinality(Awake') = Cardinality(Awake) + 1
    BY <1>01, <2>3, <2>4, CountPlusOne, CountMinusOne
  <2>6. queue' = queue /\ Room
    BY <1>0, <1>4, <2>1 DEF SendNotify
  <2> QED
    BY <1>0, <1>01, <2>5, <2>6
<1>5. ASSUME NEW c \in Consumers, RecvLock(c) PROVE Room'
  <2>1. Announced' = Announced /\ Awake' = Awake
    BY <1>0, <1>5 DEF RecvLock, TypeOK, Procs, Announced, Awake
  <2> QED
    BY <1>0, <1>5, <1>00, <2>1 DEF RecvLock
<1>6. ASSUME NEW c \in Consumers, RecvWait(c) PROVE Room'
  <2>1. Len(queue') = 0
    BY <1>6 DEF RecvWait
  <2>2. Announced' = Announced /\ Awake' = Awake
    BY <1>0, <1>6 DEF RecvWait, TypeOK, Procs, Announced, Awake
  <2> QED
    BY <1>01, <2>1, <2>2
<1>7. ASSUME NEW c \in Consumers, RecvWaitExpires(c) PROVE Room'
  <2>1. pc[c] = "waiting" /\ Room /\ queue' = queue
    BY <1>0, <1>7 DEF RecvWaitExpires, WaitSet
  <2>2. Announced' = Announced /\ Awake' = Awake \cup {c} /\ c \notin Awake
    BY <1>0, <1>7, <2>1 DEF RecvWaitExpires, TypeOK, Procs, Announced, Awake
  <2>3. Cardinality(Awake') = Cardinality(Awake) + 1
    BY <1>01, <2>2, CountPlusOne
  <2> QED
    BY <1>0, <1>01, <2>1, <2>2, <2>3
<1>8. ASSUME NEW c \in Consumers, RecvRelock(c) PROVE Room'
  <2>1. Announced' = Announced /\ Awake' = Awake
    BY <1>0, <1>8 DEF RecvRelock, TypeOK, Procs, Announced, Awake
  <2> QED
    BY <1>0, <1>8, <1>00, <2>1 DEF RecvRelock
<1>9. ASSUME NEW c \in Consumers, RecvGiveUp(c) PROVE Room'
  <2>1. Len(queue') = 0
    BY <1>9 DEF RecvGiveUp
  <2>2. Announced' = Announced /\ Awake' = Awake \ {c} /\ c \in Awake
    BY <1>0, <1>9 DEF RecvGiveUp, TypeOK, Procs, Announced, Awake
  <2>3. Cardinality(Awake') \in Nat
    BY <1>01, <2>2, FS_RemoveElement, FS_CardinalityType
  <2> QED
    BY <1>01, <2>1, <2>2, <2>3
<1>10. ASSUME NEW c \in Consumers, RecvFront(c) PROVE Room'
  <2>1. Room /\ queue' = queue
    BY <1>0, <1>00, <1>10 DEF RecvFront
  <2>2. Announced' = Announced /\ Awake' = Awake \cup {c}
    BY <1>0, <1>10 DEF RecvFront, TypeOK, Procs, Announced, Awake
  <2>3. Cardinality(Awake') \in Nat /\ Cardinality(Awake') >= Cardinality(Awake)
    BY <1>01, <2>2, CountGrows
  <2> QED
    BY <1>0, <1>01, <2>1, <2>2, <2>3
<1>11. ASSUME NEW c \in Consumers, RecvPop(c) PROVE Room'
  <2>1. queue # <<>> /\ Room
    BY <1>0, <1>00, <1>11 DEF RecvPop, QueueInv, FrontIsHead
  <2>2. Len(queue') = Len(queue) - 1
    BY <1>0, <1>11, <2>1 DEF RecvPop, TypeOK
  <2>3. Announced' = Announced /\ Awake' = Awake \ {c} /\ c \in Awake
    BY <1>0, <1>11 DEF RecvPop, TypeOK, Procs, Announced, Awake
  <2>4. Cardinality(Awake') = Cardinality(Awake) - 1
    BY <1>01, <2>3, CountMinusOne
  <2> QED
    BY <1>0, <1>01, <2>1, <2>2, <2>3, <2>4
<1>12. CASE UNCHANGED vars
  <2>1. UNCHANGED <<queue, waiting, pc>>
    BY <1>12 DEF vars
  <2>2. Announced' = Announced /\ Awake' = Awake
    BY <2>1 DEF Announced, Awake
  <2> QED
    BY <1>0, <1>00, <2>1, <2>2
<1> QED
  BY <1>1, <1>2, <1>3, <1>4, <1>5, <1>6, <1>7, <1>8, <1>9, <1>10, <1>11, <1>12
     DEF Next, SendStep, RecvStep

(* While a consumer sleeps, every queued item has a notify to come or a    *)
(* consumer that is awake, for any number of threads.                      *)
THEOREM QueueNoLostWakeup == Spec => []NoLostWakeup
<1>1. Init => NoLostWakeup
  BY DEF Init, NoLostWakeup
<1>2. QueueInv /\ QueueInv' /\ NoLostWakeup /\ [Next]_vars => NoLostWakeup'
  BY NoLostWakeupStep DEF QueueInv
<1> QED
  BY QueueInvariant, <1>1, <1>2, PTL DEF Spec
=============================================================================
