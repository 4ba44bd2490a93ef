----------------------------- MODULE Dispatcher -----------------------------
(***************************************************************************)
(* MessageDispatcher and Mailbox of src/Akka.cpp: any thread may tell an   *)
(* actor, which puts a copy of the message into the mailbox and, if the    *)
(* mailbox is not scheduled yet, puts the mailbox on the work queue; the   *)
(* dispatcher threads take mailboxes from the work queue, let the actor    *)
(* handle a batch of its messages and hand the mailbox back.               *)
(*                                                                         *)
(* The atomic word _currentStatus is the only coordination between the     *)
(* threads: every load and every compare-and-swap of it is a step of its   *)
(* own.  send and recv of the queues are single steps (NativeQueue shows   *)
(* that they may be), messageCount is a read without the lock.             *)
(*                                                                         *)
(* Bounded selects the queues: FALSE is the Linux build, whose queues      *)
(* grow; TRUE the FreeRTOS build, whose send gives up after some ticks.    *)
(***************************************************************************)
EXTENDS Naturals, Sequences, FiniteSets

CONSTANTS
  Threads,        (* the threads of the dispatcher                         *)
  Senders,        (* other threads that tell: main, timers, MQTT client    *)
  Actors,         (* the actors, each with one cell and one mailbox        *)
  NoActor,        (* no actor                                              *)
  NoThread,       (* _currentThread of an actor that never handled         *)
  Throughput,     (* the longest batch of one mailbox, 10 in the code      *)
  Bounded,        (* do the queues have a capacity                         *)
  MailboxSize,    (* capacity of a mailbox, 15 in the code                 *)
  WorkQueueSize,  (* capacity of the work queue, 20 in the code            *)
  MaxTells        (* bound: the number of messages ever told               *)

ASSUME DispatcherAssumption ==
  /\ Threads \cap Senders = {}
  /\ IsFiniteSet(Actors) /\ NoActor \notin Actors
  /\ NoThread \notin Threads
  /\ Throughput \in Nat \ {0}
  /\ Bounded \in BOOLEAN
  /\ MailboxSize \in Nat
  /\ WorkQueueSize \in Nat
  /\ MaxTells \in Nat

VARIABLES
  mailbox,        (* the messages in each mailbox                          *)
  status,         (* _currentStatus of each mailbox                        *)
  workQueue,      (* _workQueue: mailboxes that are waiting for a thread   *)
  currentThread,  (* _currentThread of each cell                           *)
  pc,             (* where each thread is                                  *)
  target,         (* the mailbox a thread is sending to or registering     *)
  arg,            (* the message a thread is sending                       *)
  hint,           (* the argument hasMessageHint of registerForExecution   *)
  loaded,         (* the status a thread loaded before a compare-and-swap  *)
  running,        (* the mailbox a dispatcher thread is processing         *)
  rxd,            (* the message a dispatcher thread is handling           *)
  counter,        (* the messages handled in this batch                    *)
  told            (* the number of messages told so far                    *)

vars == <<mailbox, status, workQueue, currentThread, pc, target, arg, hint,
          loaded, running, rxd, counter, told>>

Procs == Threads \cup Senders
Msgs  == 1..MaxTells
NoMsg == 0

(* The values of _currentStatus that occur: nothing closes or suspends.    *)
Open      == 0
Scheduled == 2

PCs == {"idle", "enqueue", "checkScheduled", "checkOpen", "count", "load",
        "cas", "post", "recv", "dequeue", "handler", "idleLoad", "idleCas"}

Goto(p, label) == pc' = [pc EXCEPT ![p] = label]

Full(q, size) == Bounded /\ Len(q) >= size

(* Where a thread continues when dispatch or registerForExecution returns. *)
Caller(p) ==
  IF p \in Senders THEN "idle"
  ELSE IF running[p] = NoActor THEN "recv" ELSE "handler"

Init ==
  /\ mailbox = [a \in Actors |-> <<>>]
  /\ status = [a \in Actors |-> Open]
  /\ workQueue = <<>>
  /\ currentThread = [a \in Actors |-> NoThread]
  /\ pc = [p \in Procs |-> IF p \in Threads THEN "recv" ELSE "idle"]
  /\ target = [p \in Procs |-> NoActor]
  /\ arg = [p \in Procs |-> NoMsg]
  /\ hint = [p \in Procs |-> FALSE]
  /\ loaded = [p \in Procs |-> Open]
  /\ running = [t \in Threads |-> NoActor]
  /\ rxd = [t \in Threads |-> NoMsg]
  /\ counter = [t \in Threads |-> 0]
  /\ told = 0

cellVars   == <<currentThread, running, rxd, counter>>
queueVars  == <<mailbox, workQueue>>

-----------------------------------------------------------------------------
(* tell, dispatch, enqueue                                                 *)

(* Another thread, or the handler of an actor, tells actor a.              *)
Tell(p, a) ==
  /\ pc[p] \in {"idle", "handler"}
  /\ told < MaxTells
  /\ told' = told + 1
  /\ arg' = [arg EXCEPT ![p] = told + 1]
  /\ target' = [target EXCEPT ![p] = a]
  /\ Goto(p, "enqueue")
  /\ UNCHANGED <<queueVars, cellVars, status, hint, loaded>>

(* dispatch registers the mailbox whatever enqueue returned.               *)
EnqueueReturns(p) ==
  /\ arg' = [arg EXCEPT ![p] = NoMsg]
  /\ hint' = [hint EXCEPT ![p] = TRUE]
  /\ Goto(p, "checkScheduled")
  /\ UNCHANGED <<workQueue, cellVars, status, target, loaded, told>>

(* Mutant: the message is put in front of the others.                      *)
EnqueueInFront(p) ==
  /\ pc[p] = "enqueue"
  /\ ~Full(mailbox[target[p]], MailboxSize)
  /\ mailbox' = [mailbox EXCEPT ![target[p]] = <<arg[p]>> \o @]
  /\ EnqueueReturns(p)

Enqueue(p) ==
  /\ pc[p] = "enqueue"
  /\ ~Full(mailbox[target[p]], MailboxSize)
  /\ mailbox' = [mailbox EXCEPT ![target[p]] = Append(@, arg[p])]
  /\ EnqueueReturns(p)

(* Mutant: a full mailbox drops its oldest message, not the new one.       *)
EnqueueDropsOldest(p) ==
  /\ pc[p] = "enqueue"
  /\ Full(mailbox[target[p]], MailboxSize)
  /\ mailbox' = [mailbox EXCEPT ![target[p]] = Append(Tail(@), arg[p])]
  /\ EnqueueReturns(p)

(* The mailbox stayed full for 10 ms: the message is deleted.              *)
EnqueueTimeout(p) ==
  /\ pc[p] = "enqueue"
  /\ Full(mailbox[target[p]], MailboxSize)
  /\ UNCHANGED mailbox
  /\ EnqueueReturns(p)

-----------------------------------------------------------------------------
(* registerForExecution: canBeScheduledForExecution, setAsScheduled and    *)
(* the send to the work queue                                              *)

RegisterReturns(p) ==
  /\ Goto(p, Caller(p))
  /\ target' = [target EXCEPT ![p] = NoActor]
  /\ hint' = [hint EXCEPT ![p] = FALSE]
  /\ loaded' = [loaded EXCEPT ![p] = Open]

(* _currentStatus is read a first time and compared with Scheduled.        *)
CheckScheduled(p) ==
  /\ pc[p] = "checkScheduled"
  /\ Goto(p, IF status[target[p]] # Scheduled THEN "checkOpen"
             ELSE IF hint[p] THEN "load" ELSE "count")
  /\ UNCHANGED <<queueVars, cellVars, status, target, arg, hint, loaded, told>>

(* It is read a second time and compared with Open.                        *)
CheckOpen(p) ==
  /\ pc[p] = "checkOpen"
  /\ \/ /\ status[target[p]] = Open
        /\ Goto(p, IF hint[p] THEN "load" ELSE "count")
        /\ UNCHANGED <<target, hint, loaded>>
     \/ /\ status[target[p]] # Open
        /\ RegisterReturns(p)
  /\ UNCHANGED <<queueVars, cellVars, status, arg, told>>

(* The mailbox of a is being pushed to or popped from by another thread.   *)
QueueBusy(p, a) ==
  \E q \in Procs \ {p} :
    \/ pc[q] = "enqueue" /\ target[q] = a
    \/ pc[q] = "dequeue" /\ running[q] = a

(* The values messageCount() > 0 can have.  On Linux it reads the size of  *)
(* a std::queue without the lock, so that it can see anything during a     *)
(* push or a pop; FreeRTOS counts in a critical section.                   *)
HasMessages(p, a) ==
  IF ~Bounded /\ QueueBusy(p, a) THEN BOOLEAN ELSE {mailbox[a] # <<>>}

Count(p) ==
  /\ pc[p] = "count"
  /\ \E nonEmpty \in HasMessages(p, target[p]) :
       \/ /\ nonEmpty
          /\ Goto(p, "load")
          /\ UNCHANGED <<target, hint, loaded>>
       \/ /\ ~nonEmpty
          /\ RegisterReturns(p)
  /\ UNCHANGED <<queueVars, cellVars, status, arg, told>>

(* Mutant: swap whatever the status was.                                   *)
LoadAny(p) ==
  /\ pc[p] = "load"
  /\ loaded' = [loaded EXCEPT ![p] = status[target[p]]]
  /\ Goto(p, "cas")
  /\ UNCHANGED <<queueVars, cellVars, status, target, arg, hint, told>>

(* setAsScheduled: load the status, give up unless it is Open ...          *)
Load(p) ==
  /\ pc[p] = "load"
  /\ \/ /\ status[target[p]] = Open
        /\ loaded' = [loaded EXCEPT ![p] = status[target[p]]]
        /\ Goto(p, "cas")
        /\ UNCHANGED <<target, hint>>
     \/ /\ status[target[p]] # Open
        /\ RegisterReturns(p)
  /\ UNCHANGED <<queueVars, cellVars, status, arg, told>>

(* Mutant: a store in place of the compare-and-swap.                       *)
StoreScheduled(p) ==
  /\ pc[p] = "cas"
  /\ status' = [status EXCEPT ![target[p]] = Scheduled]
  /\ Goto(p, "post")
  /\ UNCHANGED <<queueVars, cellVars, target, arg, hint, loaded, told>>

(* ... and swap it; the thread that succeeds has won the mailbox.          *)
CasScheduled(p) ==
  /\ pc[p] = "cas"
  /\ status[target[p]] = loaded[p]
  /\ status' = [status EXCEPT ![target[p]] = Scheduled]
  /\ Goto(p, "post")
  /\ UNCHANGED <<queueVars, cellVars, target, arg, hint, loaded, told>>

(* compare_exchange_weak may fail, even when the status is the loaded one. *)
CasScheduledFails(p) ==
  /\ pc[p] = "cas"
  /\ Goto(p, "load")
  /\ UNCHANGED <<queueVars, cellVars, status, target, arg, hint, loaded, told>>

Post(p) ==
  /\ pc[p] = "post"
  /\ ~Full(workQueue, WorkQueueSize)
  /\ workQueue' = Append(workQueue, target[p])
  /\ RegisterReturns(p)
  /\ UNCHANGED <<mailbox, cellVars, status, arg, told>>

(* The work queue stayed full for 100 ms: the error is not looked at.      *)
PostTimeout(p) ==
  /\ pc[p] = "post"
  /\ Full(workQueue, WorkQueueSize)
  /\ RegisterReturns(p)
  /\ UNCHANGED <<queueVars, cellVars, status, arg, told>>

-----------------------------------------------------------------------------
(* handleMailbox and processMailbox                                        *)

ShouldProcessMessage(a) == status[a] \in {Open, Scheduled}

WorkReceive(t) ==
  LET a == Head(workQueue) IN
  /\ pc[t] = "recv"
  /\ workQueue # <<>>
  /\ workQueue' = Tail(workQueue)
  /\ IF ShouldProcessMessage(a)
     THEN /\ running' = [running EXCEPT ![t] = a]
          /\ counter' = [counter EXCEPT ![t] = 0]
          /\ Goto(t, "dequeue")
     ELSE UNCHANGED <<running, counter, pc>>
  /\ UNCHANGED <<mailbox, status, currentThread, target, arg, hint, loaded,
                 rxd, told>>

(* Mutant: the cell is given a thread only once.                           *)
DequeueKeepsThread(t) ==
  LET a == running[t] IN
  /\ pc[t] = "dequeue"
  /\ mailbox[a] # <<>>
  /\ rxd' = [rxd EXCEPT ![t] = Head(mailbox[a])]
  /\ mailbox' = [mailbox EXCEPT ![a] = Tail(@)]
  /\ currentThread' =
       [currentThread EXCEPT ![a] = IF @ = NoThread THEN t ELSE @]
  /\ Goto(t, "handler")
  /\ UNCHANGED <<workQueue, status, target, arg, hint, loaded, running,
                 counter, told>>

(* dequeue copies the message into rxd(); the cell remembers the thread,   *)
(* and invoke enters the handler.                                          *)
Dequeue(t) ==
  LET a == running[t] IN
  /\ pc[t] = "dequeue"
  /\ mailbox[a] # <<>>
  /\ rxd' = [rxd EXCEPT ![t] = Head(mailbox[a])]
  /\ mailbox' = [mailbox EXCEPT ![a] = Tail(@)]
  /\ currentThread' = [currentThread EXCEPT ![a] = t]
  /\ Goto(t, "handler")
  /\ UNCHANGED <<workQueue, status, target, arg, hint, loaded, running,
                 counter, told>>

(* recv with timeout 0 found nothing: the batch ends.                      *)
DequeueEmpty(t) ==
  /\ pc[t] = "dequeue"
  /\ mailbox[running[t]] = <<>>
  /\ Goto(t, "idleLoad")
  /\ UNCHANGED <<queueVars, cellVars, status, target, arg, hint, loaded, told>>

(* Mutant: the batch is one message too long.                              *)
HandlerReturnsLate(t) ==
  /\ pc[t] = "handler"
  /\ rxd' = [rxd EXCEPT ![t] = NoMsg]
  /\ counter' = [counter EXCEPT ![t] = @ + 1]
  /\ Goto(t, IF counter[t] = Throughput THEN "idleLoad" ELSE "dequeue")
  /\ UNCHANGED <<queueVars, status, currentThread, target, arg, hint, loaded,
                 running, told>>

HandlerReturns(t) ==
  /\ pc[t] = "handler"
  /\ rxd' = [rxd EXCEPT ![t] = NoMsg]
  /\ counter' = [counter EXCEPT ![t] = @ + 1]
  /\ Goto(t, IF counter[t] + 1 = Throughput THEN "idleLoad" ELSE "dequeue")
  /\ UNCHANGED <<queueVars, status, currentThread, target, arg, hint, loaded,
                 running, told>>

(* setAsIdle: load the status, swap it with the Scheduled bit cleared ...  *)
IdleLoad(t) ==
  /\ pc[t] = "idleLoad"
  /\ loaded' = [loaded EXCEPT ![t] = status[running[t]]]
  /\ Goto(t, "idleCas")
  /\ UNCHANGED <<queueVars, cellVars, status, target, arg, hint, told>>

(* Mutant: register again only after a full batch.                         *)
IdleCasWithoutLook(t) ==
  /\ pc[t] = "idleCas"
  /\ status[running[t]] = loaded[t]
  /\ status' = [status EXCEPT ![running[t]] = Open]
  /\ running' = [running EXCEPT ![t] = NoActor]
  /\ counter' = [counter EXCEPT ![t] = 0]
  /\ loaded' = [loaded EXCEPT ![t] = Open]
  /\ IF counter[t] = Throughput
     THEN target' = [target EXCEPT ![t] = running[t]] /\ Goto(t, "checkScheduled")
     ELSE UNCHANGED target /\ Goto(t, "recv")
  /\ UNCHANGED <<queueVars, currentThread, arg, hint, rxd, told>>

(* Mutant: the Scheduled bit is not cleared.                               *)
IdleCasKeepsScheduled(t) ==
  /\ pc[t] = "idleCas"
  /\ status[running[t]] = loaded[t]
  /\ target' = [target EXCEPT ![t] = running[t]]
  /\ running' = [running EXCEPT ![t] = NoActor]
  /\ counter' = [counter EXCEPT ![t] = 0]
  /\ hint' = [hint EXCEPT ![t] = FALSE]
  /\ loaded' = [loaded EXCEPT ![t] = Open]
  /\ Goto(t, "checkScheduled")
  /\ UNCHANGED <<queueVars, status, currentThread, arg, rxd, told>>

(* ... and register the mailbox again, for what arrived in the meantime.   *)
IdleCas(t) ==
  /\ pc[t] = "idleCas"
  /\ status[running[t]] = loaded[t]
  /\ status' = [status EXCEPT ![running[t]] = Open]
  /\ target' = [target EXCEPT ![t] = running[t]]
  /\ running' = [running EXCEPT ![t] = NoActor]
  /\ counter' = [counter EXCEPT ![t] = 0]
  /\ hint' = [hint EXCEPT ![t] = FALSE]
  /\ loaded' = [loaded EXCEPT ![t] = Open]
  /\ Goto(t, "checkScheduled")
  /\ UNCHANGED <<queueVars, currentThread, arg, rxd, told>>

IdleCasFails(t) ==
  /\ pc[t] = "idleCas"
  /\ Goto(t, "idleLoad")
  /\ UNCHANGED <<queueVars, cellVars, status, target, arg, hint, loaded, told>>

-----------------------------------------------------------------------------
DispatchStep(p) ==
  \/ Enqueue(p) \/ EnqueueTimeout(p)
  \/ CheckScheduled(p) \/ CheckOpen(p) \/ Count(p)
  \/ Load(p) \/ CasScheduled(p) \/ CasScheduledFails(p)
  \/ Post(p) \/ PostTimeout(p)

ThreadStep(t) ==
  \/ WorkReceive(t) \/ Dequeue(t) \/ DequeueEmpty(t) \/ HandlerReturns(t)
  \/ IdleLoad(t) \/ IdleCas(t) \/ IdleCasFails(t)

Next ==
  \/ \E p \in Procs : DispatchStep(p) \/ \E a \in Actors : Tell(p, a)
  \/ \E t \in Threads : ThreadStep(t)

Spec == Init /\ [][Next]_vars

(* Every thread keeps running, handlers return, and a compare-and-swap     *)
(* that is tried for ever with the right value succeeds at last.  Nothing  *)
(* makes anybody tell.                                                     *)
FairSpec ==
  /\ Spec
  /\ \A p \in Senders : WF_vars(DispatchStep(p))
  /\ \A t \in Threads : WF_vars(DispatchStep(t) \/ ThreadStep(t))
  /\ \A p \in Procs : SF_vars(CasScheduled(p))
  /\ \A t \in Threads : SF_vars(IdleCas(t))

-----------------------------------------------------------------------------
(* The types of the variables.                                             *)
TypeOK ==
  /\ mailbox \in [Actors -> Seq(Msgs)]
  /\ status \in [Actors -> {Open, Scheduled}]
  /\ workQueue \in Seq(Actors)
  /\ currentThread \in [Actors -> Threads \cup {NoThread}]
  /\ pc \in [Procs -> PCs]
  /\ target \in [Procs -> Actors \cup {NoActor}]
  /\ arg \in [Procs -> Msgs \cup {NoMsg}]
  /\ hint \in [Procs -> BOOLEAN]
  /\ loaded \in [Procs -> {Open, Scheduled}]
  /\ running \in [Threads -> Actors \cup {NoActor}]
  /\ rxd \in [Threads -> Msgs \cup {NoMsg}]
  /\ counter \in [Threads -> 0..Throughput]
  /\ told \in 0..MaxTells

(* An actor is never run by two dispatcher threads at once, from the       *)
(* receipt of its mailbox to setAsIdle: handlers need no locks.            *)
SingleThreaded ==
  \A t, u \in Threads :
    running[t] # NoActor /\ running[t] = running[u] => t = u

(* Thread p alone decides about the mailbox of a: it has won the           *)
(* compare-and-swap and is about to queue it, or it is processing it.      *)
Holds(p, a) ==
  \/ pc[p] = "post" /\ target[p] = a
  \/ p \in Threads /\ running[p] = a

Queued(a) == \E i \in DOMAIN workQueue : workQueue[i] = a

(* The Scheduled bit is a token: a mailbox is on the work queue once, or   *)
(* in the hands of one thread, or Open, never two of these.  This is what  *)
(* setAsScheduled and setAsIdle are for.                                   *)
OneToken ==
  /\ \A i, j \in DOMAIN workQueue : workQueue[i] = workQueue[j] => i = j
  /\ \A a \in Actors :
       /\ status[a] = Open => ~Queued(a) /\ \A p \in Procs : ~Holds(p, a)
       /\ Queued(a) => \A p \in Procs : ~Holds(p, a)
       /\ \A p, q \in Procs : Holds(p, a) /\ Holds(q, a) => p = q
       /\ \A t \in Threads :
            ~(running[t] = a /\ pc[t] = "post" /\ target[t] = a)

(* While a handler runs, and tells others, the cell of its actor points to *)
(* the thread that runs it: sender() and msgBuilder() use the received     *)
(* message and the transmit buffer of this invocation.                     *)
HandlerContext ==
  \A t \in Threads :
    rxd[t] # NoMsg => running[t] # NoActor /\ currentThread[running[t]] = t

(* Thread p is committed to register the mailbox of a.                     *)
WillRegister(p, a) ==
  /\ target[p] = a
  /\ pc[p] \in {"enqueue", "checkScheduled", "checkOpen", "count", "load", "cas"}

(* No lost wakeup: a mailbox with a message in it is on its way to a       *)
(* handler, whatever the interleaving of tells with the end of a batch.    *)
NoStrandedMailbox ==
  \A a \in Actors :
    mailbox[a] # <<>> =>
      Queued(a) \/ \E p \in Procs : Holds(p, a) \/ WillRegister(p, a)

(* A mailbox that is marked as scheduled is on the work queue or in the    *)
(* hands of a thread: the status is never left behind by a send to the     *)
(* work queue that failed.                                                 *)
ScheduledIsQueued ==
  \A a \in Actors :
    status[a] = Scheduled => Queued(a) \/ \E p \in Procs : Holds(p, a)

(* With a work queue at least as long as the number of actors, the send to *)
(* it in registerForExecution, whose result is ignored, always finds room. *)
WorkQueueHasRoom ==
  Cardinality(Actors) <= WorkQueueSize =>
    \A p \in Procs : pc[p] = "post" => Len(workQueue) < WorkQueueSize

(* Dispatcher implements Actors: the inbox is the mailbox, and an actor is *)
(* busy with the message in rxd() of the thread that runs it.              *)
Runner(a) == {t \in Threads : running[t] = a}

Busy(a) == IF Runner(a) = {} THEN NoMsg ELSE rxd[CHOOSE t \in Runner(a) : TRUE]

Actor == INSTANCE Actors WITH inbox <- mailbox,
                              busy  <- [a \in Actors |-> Busy(a)]

(* One message at a time, in order, none lost once it is in the mailbox.   *)
ActorsSpec == Actor!Spec

(* Every message in a mailbox is eventually handled, although a batch may  *)
(* end, and the mailbox be handed back, at any time.                       *)
ActorsLiveSpec == Actor!LiveSpec
=============================================================================
