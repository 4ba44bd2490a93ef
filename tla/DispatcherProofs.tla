-------------------------- MODULE DispatcherProofs --------------------------
(***************************************************************************)
(* The scheduling protocol of Mailbox and MessageDispatcher is correct for *)
(* any number of dispatcher threads, other threads, actors and messages.   *)
(*                                                                         *)
(* The inductive invariant has three layers: Locals ties the local         *)
(* variables of a thread to its place in the code; OneToken makes the      *)
(* Scheduled bit a token that exactly one place owns; on top of them, and  *)
(* as long as the work queue has room, ScheduledIsQueued says that the     *)
(* token is never dropped and NoStrandedMailbox that a message always has  *)
(* somebody who will come for it.                                          *)
(***************************************************************************)
EXTENDS Dispatcher, FiniteSetTheorems, TLAPS

(* In dispatch or registerForExecution, and in processMailbox.             *)
RegisterPCs == {"enqueue", "checkScheduled", "checkOpen", "count", "load",
                "cas", "post"}

ProcessPCs == {"dequeue", "handler", "idleLoad", "idleCas"}

(* What the local variables of a thread hold at each place in the code.    *)
Locals ==
  /\ \A s \in Senders : pc[s] \in RegisterPCs \cup {"idle"}
  /\ \A t \in Threads : pc[t] \in RegisterPCs \cup ProcessPCs \cup {"recv"}
  /\ \A p \in Procs : pc[p] \in RegisterPCs => target[p] \in Actors
  /\ \A p \in Procs : pc[p] = "enqueue" => arg[p] \in Msgs
  /\ \A p \in Procs : pc[p] = "cas" => loaded[p] = Open
  /\ \A t \in Threads : pc[t] \in ProcessPCs => running[t] \in Actors
  /\ \A t \in Threads : pc[t] = "recv" => running[t] = NoActor
  /\ \A t \in Threads :
       rxd[t] # NoMsg <=>
         running[t] # NoActor /\ pc[t] \in RegisterPCs \cup {"handler"}
  /\ \A t \in Threads :
       rxd[t] # NoMsg \/ pc[t] = "dequeue" => counter[t] < Throughput

DispatchInv == TypeOK /\ Locals /\ OneToken /\ HandlerContext

-----------------------------------------------------------------------------
LEMMA DispatchInit == Init => DispatchInv
<1> SUFFICES ASSUME Init PROVE DispatchInv
  OBVIOUS
<1> USE DispatcherAssumption
    DEF Init, Procs, Msgs, NoMsg, Open, Scheduled, PCs, RegisterPCs, ProcessPCs
<1>1. TypeOK
  BY DEF TypeOK
<1>2. Locals
  BY DEF Locals
<1>3. OneToken
  BY DEF OneToken, Queued, Holds
<1>4. HandlerContext
  BY DEF HandlerContext
<1> QED
  BY <1>1, <1>2, <1>3, <1>4 DEF DispatchInv

(* A thread that stays in registerForExecution.                            *)
LEMMA StaysInRegister ==
  ASSUME TypeOK, Locals, NEW p \in Procs, NEW label \in RegisterPCs \ {"enqueue"},
         pc[p] \in RegisterPCs, pc' = [pc EXCEPT ![p] = label],
         label = "cas" => loaded'[p] = Open,
         loaded' \in [Procs -> {Open, Scheduled}],
         \A q \in Procs \ {p} : loaded'[q] = loaded[q],
         status' \in [Actors -> {Open, Scheduled}],
         UNCHANGED <<queueVars, cellVars, target, arg, hint, told>>
  PROVE  TypeOK' /\ Locals'
<1> USE DispatcherAssumption
    DEF TypeOK, Locals, Procs, PCs, RegisterPCs, ProcessPCs, queueVars, cellVars
<1>1. TypeOK'
  OBVIOUS
<1>2. Locals'
  OBVIOUS
<1> QED
  BY <1>1, <1>2

(* A thread that returns from registerForExecution.                        *)
LEMMA LeavesRegister ==
  ASSUME TypeOK, Locals, NEW p \in Procs, RegisterReturns(p),
         pc[p] \in RegisterPCs,
         workQueue' \in Seq(Actors),
         UNCHANGED <<mailbox, cellVars, status, arg, told>>
  PROVE  TypeOK' /\ Locals'
<1> USE DispatcherAssumption
    DEF TypeOK, Locals, Procs, PCs, RegisterPCs, ProcessPCs, cellVars,
        RegisterReturns, Goto, Open, Scheduled
<1>1. CASE p \in Senders
  <2>1. Caller(p) = "idle"
    BY <1>1 DEF Caller
  <2>2. TypeOK'
    BY <2>1
  <2>3. Locals'
    BY <1>1, <2>1
  <2> QED
    BY <2>2, <2>3
<1>2. CASE p \in Threads /\ running[p] = NoActor
  <2>1. Caller(p) = "recv"
    BY <1>2 DEF Caller
  <2>2. TypeOK'
    BY <2>1
  <2>3. Locals'
    BY <1>2, <2>1
  <2> QED
    BY <2>2, <2>3
<1>3. CASE p \in Threads /\ running[p] # NoActor
  <2>1. Caller(p) = "handler"
    BY <1>3 DEF Caller
  <2>2. TypeOK'
    BY <2>1
  <2>3. Locals'
    BY <1>3, <2>1
  <2> QED
    BY <2>2, <2>3
<1> QED
  BY <1>1, <1>2, <1>3

(* The mailbox accepts the message or times out; dispatch goes on.         *)
LEMMA LeavesEnqueue ==
  ASSUME TypeOK, Locals, NEW p \in Procs, EnqueueReturns(p), pc[p] = "enqueue",
         mailbox' \in [Actors -> Seq(Msgs)]
  PROVE  TypeOK' /\ Locals'
<1> USE DispatcherAssumption
    DEF TypeOK, Locals, Procs, PCs, RegisterPCs, ProcessPCs, cellVars,
        EnqueueReturns, Goto
<1>1. TypeOK'
  OBVIOUS
<1>2. Locals'
  OBVIOUS
<1> QED
  BY <1>1, <1>2

LEMMA LocalsDispatch ==
  ASSUME TypeOK, Locals, NEW p \in Procs, DispatchStep(p)
  PROVE  TypeOK' /\ Locals'
<1> DEFINE a == target[p]
<1>1. CASE Enqueue(p)
  <2>1. /\ pc[p] = "enqueue" /\ EnqueueReturns(p)
        /\ mailbox' = [mailbox EXCEPT ![a] = Append(@, arg[p])]
    BY <1>1 DEF Enqueue
  <2>2. arg[p] \in Msgs /\ a \in Actors
    BY <2>1 DEF Locals, RegisterPCs
  <2>3. Append(mailbox[a], arg[p]) \in Seq(Msgs)
    BY <2>2 DEF TypeOK
  <2>4. mailbox' \in [Actors -> Seq(Msgs)]
    BY <2>1, <2>3 DEF TypeOK
  <2> QED
    BY <2>1, <2>4, LeavesEnqueue
<1>2. CASE EnqueueTimeout(p)
  BY <1>2, LeavesEnqueue DEF EnqueueTimeout, TypeOK
<1>3. CASE CheckScheduled(p)
  <2>1. PICK label \in {"checkOpen", "load", "count"} : pc' = [pc EXCEPT ![p] = label]
    BY <1>3 DEF CheckScheduled, Goto
  <2> QED
    BY <1>3, <2>1, StaysInRegister DEF CheckScheduled, RegisterPCs, TypeOK
<1>4. CASE CheckOpen(p)
  <2>1. CASE RegisterReturns(p)
    BY <1>4, <2>1, LeavesRegister
       DEF CheckOpen, RegisterPCs, TypeOK, queueVars
  <2>2. CASE ~RegisterReturns(p)
    <3>1. PICK label \in {"load", "count"} : pc' = [pc EXCEPT ![p] = label]
      BY <1>4, <2>2 DEF CheckOpen, Goto
    <3> QED
      BY <1>4, <2>2, <3>1, StaysInRegister DEF CheckOpen, RegisterPCs, TypeOK
  <2> QED
    BY <2>1, <2>2
<1>5. CASE Count(p)
  <2>1. CASE RegisterReturns(p)
    BY <1>5, <2>1, LeavesRegister DEF Count, RegisterPCs, TypeOK, queueVars
  <2>2. CASE ~RegisterReturns(p)
    <3>1. /\ pc[p] = "count" /\ pc' = [pc EXCEPT ![p] = "load"]
          /\ UNCHANGED <<queueVars, cellVars, status, arg, told, target, hint, loaded>>
      BY <1>5, <2>2 DEF Count, Goto
    <3> QED
      BY <3>1, StaysInRegister DEF RegisterPCs, TypeOK
  <2> QED
    BY <2>1, <2>2
<1>6. CASE Load(p)
  <2>1. CASE RegisterReturns(p)
    BY <1>6, <2>1, LeavesRegister DEF Load, RegisterPCs, TypeOK, queueVars
  <2>2. CASE ~RegisterReturns(p)
    <3>1. /\ pc[p] = "load" /\ pc' = [pc EXCEPT ![p] = "cas"]
          /\ loaded' = [loaded EXCEPT ![p] = Open]
          /\ UNCHANGED <<queueVars, cellVars, status, arg, told, target, hint>>
      BY <1>6, <2>2 DEF Load, Goto
    <3>2. /\ loaded' \in [Procs -> {Open, Scheduled}]
          /\ loaded'[p] = Open
          /\ \A q \in Procs \ {p} : loaded'[q] = loaded[q]
      BY <3>1 DEF TypeOK
    <3> QED
      BY <3>1, <3>2, StaysInRegister DEF RegisterPCs, TypeOK
  <2> QED
    BY <2>1, <2>2
<1>7. CASE CasScheduled(p)
  BY <1>7, StaysInRegister DEF CasScheduled, RegisterPCs, TypeOK, Goto
<1>8. CASE CasScheduledFails(p)
  BY <1>8, StaysInRegister DEF CasScheduledFails, RegisterPCs, TypeOK, Goto
<1>9. CASE Post(p)
  <2>1. /\ pc[p] = "post" /\ RegisterReturns(p)
        /\ workQueue' = Append(workQueue, a)
        /\ UNCHANGED <<mailbox, cellVars, status, arg, told>>
    BY <1>9 DEF Post
  <2>2. a \in Actors
    BY <2>1 DEF Locals, RegisterPCs
  <2>3. workQueue' \in Seq(Actors)
    BY <2>1, <2>2 DEF TypeOK
  <2> QED
    BY <2>1, <2>3, LeavesRegister DEF RegisterPCs
<1>10. CASE PostTimeout(p)
  BY <1>10, LeavesRegister DEF PostTimeout, RegisterPCs, TypeOK, queueVars
<1> QED
  BY <1>1, <1>2, <1>3, <1>4, <1>5, <1>6, <1>7, <1>8, <1>9, <1>10
     DEF DispatchStep

(* Types and locals, for a tell and for a thread that processes a mailbox. *)
LEMMA LocalsTell ==
  ASSUME TypeOK, Locals, NEW p \in Procs, NEW a \in Actors, Tell(p, a)
  PROVE  TypeOK' /\ Locals'
<1> USE DispatcherAssumption
    DEF TypeOK, Procs, PCs, Goto, queueVars, cellVars, Tell
<1>1. told + 1 \in Msgs /\ told + 1 \in 0..MaxTells
  BY DEF Msgs
<1>2. TypeOK'
  BY <1>1
<1>3. Locals'
  BY <1>1 DEF Locals, RegisterPCs, ProcessPCs
<1> QED
  BY <1>2, <1>3

LEMMA LocalsThread ==
  ASSUME TypeOK, Locals, NEW t \in Threads, ThreadStep(t)
  PROVE  TypeOK' /\ Locals'
<1> USE DispatcherAssumption
    DEF TypeOK, Procs, PCs, Goto, queueVars, cellVars, NoMsg
<1>1. CASE WorkReceive(t)
  <2>1. Head(workQueue) \in Actors /\ workQueue' \in Seq(Actors)
    BY <1>1 DEF WorkReceive
  <2>2. /\ running' = [running EXCEPT ![t] = Head(workQueue)]
        /\ counter' = [counter EXCEPT ![t] = 0]
        /\ pc' = [pc EXCEPT ![t] = "dequeue"]
        /\ pc[t] = "recv"
    BY <1>1, <2>1 DEF WorkReceive, ShouldProcessMessage
  <2>3. TypeOK'
    BY <1>1, <2>1, <2>2 DEF WorkReceive
  <2>4. Locals'
    BY <1>1, <2>1, <2>2 DEF WorkReceive, Locals, RegisterPCs, ProcessPCs
  <2> QED
    BY <2>3, <2>4
<1>2. CASE Dequeue(t)
  <2>1. running[t] \in Actors /\ counter[t] < Throughput
    BY <1>2 DEF Dequeue, Locals, ProcessPCs
  <2>2. mailbox[running[t]] \in Seq(Msgs) /\ mailbox[running[t]] # <<>>
    BY <1>2, <2>1 DEF Dequeue
  <2>3. /\ Head(mailbox[running[t]]) \in Msgs
        /\ Tail(mailbox[running[t]]) \in Seq(Msgs)
    BY <2>2
  <2>4. TypeOK'
    BY <1>2, <2>1, <2>3 DEF Dequeue
  <2>5. Head(mailbox[running[t]]) # NoMsg
    BY <2>3 DEF Msgs
  <2>6. Locals'
    BY <1>2, <2>1, <2>3, <2>5 DEF Dequeue, Locals, RegisterPCs, ProcessPCs
  <2> QED
    BY <2>4, <2>6
<1>3. CASE DequeueEmpty(t)
  BY <1>3 DEF DequeueEmpty, Locals, RegisterPCs, ProcessPCs
<1>4. CASE HandlerReturns(t)
  <2>1. /\ running[t] \in Actors /\ rxd[t] # NoMsg
        /\ counter[t] \in 0..Throughput /\ counter[t] < Throughput
    BY <1>4 DEF HandlerReturns, Locals, ProcessPCs, RegisterPCs
  <2>2. PICK label \in {"idleLoad", "dequeue"} :
          /\ pc' = [pc EXCEPT ![t] = label]
          /\ label = "dequeue" => counter[t] + 1 # Throughput
    BY <1>4 DEF HandlerReturns
  <2>3. /\ counter[t] + 1 \in 0..Throughput
        /\ label = "dequeue" => counter[t] + 1 < Throughput
    BY <2>1, <2>2
  <2>4. /\ counter' = [counter EXCEPT ![t] = counter[t] + 1]
        /\ rxd' = [rxd EXCEPT ![t] = NoMsg]
        /\ UNCHANGED <<queueVars, status, currentThread, target, arg, hint,
                       loaded, running, told>>
    BY <1>4 DEF HandlerReturns
  <2>5. TypeOK'
    BY <2>2, <2>3, <2>4
  <2>6. Locals'
    BY <1>4, <2>1, <2>2, <2>3, <2>4
       DEF HandlerReturns, Locals, RegisterPCs, ProcessPCs
  <2> QED
    BY <2>5, <2>6
<1>5. CASE IdleLoad(t)
  <2>1. running[t] \in Actors
    BY <1>5 DEF IdleLoad, Locals, ProcessPCs
  <2> QED
    BY <1>5, <2>1 DEF IdleLoad, Locals, RegisterPCs, ProcessPCs
<1>6. CASE IdleCas(t)
  <2>1. running[t] \in Actors /\ rxd[t] = NoMsg
    BY <1>6 DEF IdleCas, Locals, ProcessPCs, RegisterPCs
  <2>2. TypeOK'
    BY <1>6, <2>1 DEF IdleCas, Open, Scheduled
  <2>3. Locals'
    BY <1>6, <2>1 DEF IdleCas, Locals, RegisterPCs, ProcessPCs
  <2> QED
    BY <2>2, <2>3
<1>7. CASE IdleCasFails(t)
  BY <1>7 DEF IdleCasFails, Locals, RegisterPCs, ProcessPCs
<1> QED
  BY <1>1, <1>2, <1>3, <1>4, <1>5, <1>6, <1>7 DEF ThreadStep

-----------------------------------------------------------------------------
(* The token: the Scheduled bit of a mailbox and the one place that owns   *)
(* it.                                                                     *)

(* A step that touches neither the bit nor the work queue, and gives no    *)
(* thread a mailbox, leaves the token where it is.                         *)
LEMMA TokenStays ==
  ASSUME OneToken, UNCHANGED <<status, workQueue, running>>,
         \A q \in Procs :
           pc'[q] = "post" => pc[q] = "post" /\ target'[q] = target[q]
  PROVE  OneToken'
<1>1. \A q \in Procs : \A a \in Actors : Holds(q, a)' => Holds(q, a)
  BY DEF Holds
<1>2. \A a \in Actors : Queued(a)' <=> Queued(a)
  BY DEF Queued
<1>3. \A a \in Actors : \A t \in Threads :
        ~(running'[t] = a /\ pc'[t] = "post" /\ target'[t] = a)
  BY DEF OneToken, Procs
<1> QED
  BY <1>1, <1>2, <1>3 DEF OneToken

(* setAsScheduled takes the token of an Open mailbox.                      *)
LEMMA TokenTaken ==
  ASSUME TypeOK, Locals, OneToken, NEW p \in Procs, CasScheduled(p)
  PROVE  OneToken'
<1> DEFINE a == target[p]
<1>1. /\ a \in Actors /\ status[a] = Open /\ pc[p] = "cas"
      /\ status' = [status EXCEPT ![a] = Scheduled]
      /\ pc' = [pc EXCEPT ![p] = "post"]
      /\ UNCHANGED <<workQueue, running, target>>
  BY DEF CasScheduled, Locals, RegisterPCs, Goto, queueVars, cellVars
<1>2. ~Queued(a) /\ \A q \in Procs : ~Holds(q, a)
  BY <1>1 DEF OneToken
<1>3. \A q \in Procs : \A b \in Actors :
        Holds(q, b)' => Holds(q, b) \/ (q = p /\ b = a)
  BY <1>1 DEF Holds, TypeOK
<1>4. \A b \in Actors : status'[b] = Open => status[b] = Open /\ b # a
  BY <1>1 DEF TypeOK, Open, Scheduled
<1>5. \A b \in Actors : Queued(b)' <=> Queued(b)
  BY <1>1 DEF Queued
<1>6. \A i, j \in DOMAIN workQueue' : workQueue'[i] = workQueue'[j] => i = j
  BY <1>1 DEF OneToken
<1>7. \A b \in Actors : \A t \in Threads :
        ~(running'[t] = b /\ pc'[t] = "post" /\ target'[t] = b)
  <2> SUFFICES ASSUME NEW b \in Actors, NEW t \in Threads,
                      running'[t] = b, pc'[t] = "post", target'[t] = b
               PROVE  FALSE
    OBVIOUS
  <2>1. CASE t = p
    BY <1>1, <1>2, <2>1 DEF Holds, Procs
  <2>2. CASE t # p
    BY <1>1, <2>2 DEF OneToken, TypeOK, Procs
  <2> QED
    BY <2>1, <2>2
<1>8. ASSUME NEW b \in Actors
      PROVE  /\ status'[b] = Open => ~Queued(b)' /\ \A q \in Procs : ~Holds(q, b)'
             /\ Queued(b)' => \A q \in Procs : ~Holds(q, b)'
             /\ \A q, r \in Procs : Holds(q, b)' /\ Holds(r, b)' => q = r
  BY <1>2, <1>3, <1>4, <1>5 DEF OneToken
<1> QED
  BY <1>6, <1>7, <1>8 DEF OneToken

(* The thread that won it puts the mailbox at the end of the work queue.   *)
LEMMA TokenPosted ==
  ASSUME TypeOK, Locals, OneToken, NEW p \in Procs, Post(p)
  PROVE  OneToken'
<1>1. PICK a \in Actors :
      /\ a = target[p] /\ pc[p] = "post"
      /\ workQueue' = Append(workQueue, a)
      /\ pc' = [pc EXCEPT ![p] = Caller(p)]
      /\ target' = [target EXCEPT ![p] = NoActor]
      /\ UNCHANGED <<status, running>>
  BY DEF Post, Locals, RegisterPCs, RegisterReturns, Goto, cellVars
<1>2. Caller(p) # "post"
  BY DEF Caller
<1>3. Holds(p, a) /\ status[a] # Open /\ ~Queued(a)
  BY <1>1 DEF OneToken, Holds
<1>4. \A q \in Procs : \A b \in Actors : Holds(q, b)' => Holds(q, b)
  BY <1>1, <1>2 DEF Holds, TypeOK
<1>5. \A q \in Procs : ~Holds(q, a)'
  <2> SUFFICES ASSUME NEW q \in Procs, Holds(q, a)' PROVE FALSE
    OBVIOUS
  <2>1. q = p
    BY <1>1, <1>3, <1>4 DEF OneToken
  <2>2. p \in Threads /\ running[p] = a
    BY <1>1, <1>2, <2>1 DEF Holds, TypeOK
  <2> QED
    BY <1>1, <2>2 DEF OneToken
<1>6. /\ DOMAIN workQueue = 1..Len(workQueue)
      /\ DOMAIN workQueue' = 1..(Len(workQueue) + 1)
      /\ \A i \in DOMAIN workQueue : workQueue'[i] = workQueue[i]
      /\ workQueue'[Len(workQueue) + 1] = a
      /\ Len(workQueue) \in Nat
  BY <1>1 DEF TypeOK
<1>7. \A b \in Actors : Queued(b)' => Queued(b) \/ b = a
  BY <1>6 DEF Queued
<1>8. \A i, j \in DOMAIN workQueue' : workQueue'[i] = workQueue'[j] => i = j
  <2> SUFFICES ASSUME NEW i \in DOMAIN workQueue', NEW j \in DOMAIN workQueue',
                      workQueue'[i] = workQueue'[j]
               PROVE  i = j
    OBVIOUS
  <2>1. \A k \in DOMAIN workQueue : workQueue[k] # a
    BY <1>3 DEF Queued
  <2>2. CASE i \in DOMAIN workQueue /\ j \in DOMAIN workQueue
    BY <1>6, <2>2 DEF OneToken
  <2>3. CASE i = Len(workQueue) + 1 \/ j = Len(workQueue) + 1
    BY <1>6, <2>1, <2>3
  <2> QED
    BY <1>6, <2>2, <2>3
<1>9. \A b \in Actors : \A t \in Threads :
        ~(running'[t] = b /\ pc'[t] = "post" /\ target'[t] = b)
  BY <1>1, <1>2 DEF OneToken, TypeOK, Procs
<1>10. ASSUME NEW b \in Actors
       PROVE  /\ status'[b] = Open => ~Queued(b)' /\ \A q \in Procs : ~Holds(q, b)'
              /\ Queued(b)' => \A q \in Procs : ~Holds(q, b)'
              /\ \A q, r \in Procs : Holds(q, b)' /\ Holds(r, b)' => q = r
  BY <1>1, <1>3, <1>4, <1>5, <1>7 DEF OneToken
<1> QED
  BY <1>8, <1>9, <1>10 DEF OneToken

(* A dispatcher thread takes the mailbox from the work queue.              *)
LEMMA TokenReceived ==
  ASSUME TypeOK, Locals, OneToken, NEW t \in Threads, WorkReceive(t)
  PROVE  OneToken'
<1>1. PICK a \in Actors :
      /\ a = Head(workQueue) /\ workQueue # <<>> /\ a = workQueue[1]
      /\ workQueue' = Tail(workQueue)
      /\ DOMAIN workQueue = 1..Len(workQueue) /\ Len(workQueue) \in Nat \ {0}
      /\ DOMAIN workQueue' = 1..(Len(workQueue) - 1)
      /\ \A i \in DOMAIN workQueue' : workQueue'[i] = workQueue[i + 1]
  BY DEF WorkReceive, TypeOK
<1>2. /\ running' = [running EXCEPT ![t] = a]
      /\ pc' = [pc EXCEPT ![t] = "dequeue"]
      /\ UNCHANGED <<status, target>>
  BY <1>1 DEF WorkReceive, ShouldProcessMessage, TypeOK, Goto
<1>3. Queued(a)
  BY <1>1 DEF Queued
<1>4. status[a] # Open /\ \A q \in Procs : ~Holds(q, a)
  BY <1>1, <1>3 DEF OneToken
<1>5. \A q \in Procs : \A b \in Actors :
        Holds(q, b)' => Holds(q, b) \/ (q = t /\ b = a)
  BY <1>2 DEF Holds, TypeOK
<1>6. \A i \in DOMAIN workQueue' : i + 1 \in DOMAIN workQueue /\ i + 1 # 1
  BY <1>1
<1>7. \A b \in Actors : Queued(b)' => Queued(b)
  BY <1>1, <1>6 DEF Queued
<1>8. ~Queued(a)'
  BY <1>1, <1>6 DEF Queued, OneToken
<1>9. \A i, j \in DOMAIN workQueue' : workQueue'[i] = workQueue'[j] => i = j
  <2> SUFFICES ASSUME NEW i \in DOMAIN workQueue', NEW j \in DOMAIN workQueue',
                      workQueue'[i] = workQueue'[j]
               PROVE  i = j
    OBVIOUS
  <2>1. i + 1 = j + 1
    BY <1>1, <1>6 DEF OneToken
  <2> QED
    BY <1>1, <2>1
<1>10. \A b \in Actors : \A u \in Threads :
         ~(running'[u] = b /\ pc'[u] = "post" /\ target'[u] = b)
  BY <1>2 DEF OneToken, TypeOK, Procs
<1>11. ASSUME NEW b \in Actors
       PROVE  /\ status'[b] = Open => ~Queued(b)' /\ \A q \in Procs : ~Holds(q, b)'
              /\ Queued(b)' => \A q \in Procs : ~Holds(q, b)'
              /\ \A q, r \in Procs : Holds(q, b)' /\ Holds(r, b)' => q = r
  BY <1>2, <1>4, <1>5, <1>7, <1>8 DEF OneToken
<1> QED
  BY <1>9, <1>10, <1>11 DEF OneToken

(* setAsIdle gives the token back.                                         *)
LEMMA TokenReturned ==
  ASSUME TypeOK, Locals, OneToken, NEW t \in Threads, IdleCas(t)
  PROVE  OneToken'
<1> DEFINE a == running[t]
<1>1. /\ a \in Actors
      /\ status' = [status EXCEPT ![a] = Open]
      /\ pc' = [pc EXCEPT ![t] = "checkScheduled"]
      /\ target' = [target EXCEPT ![t] = a]
      /\ running' = [running EXCEPT ![t] = NoActor]
      /\ UNCHANGED workQueue
  BY DEF IdleCas, Locals, ProcessPCs, Goto, queueVars
<1>2. Holds(t, a)
  BY DEF Holds
<1>3. ~Queued(a) /\ \A q \in Procs : Holds(q, a) => q = t
  BY <1>1, <1>2 DEF OneToken, Procs
<1>4. \A q \in Procs : \A b \in Actors : Holds(q, b)' => Holds(q, b) /\ q # t
  BY <1>1, DispatcherAssumption DEF Holds, TypeOK, Procs
<1>5. \A b \in Actors : Queued(b)' <=> Queued(b)
  BY <1>1 DEF Queued
<1>6. \A b \in Actors : status'[b] = Open => status[b] = Open \/ b = a
  BY <1>1 DEF TypeOK
<1>7. \A b \in Actors : \A u \in Threads :
        ~(running'[u] = b /\ pc'[u] = "post" /\ target'[u] = b)
  BY <1>1 DEF OneToken, TypeOK, Procs
<1>8. \A i, j \in DOMAIN workQueue' : workQueue'[i] = workQueue'[j] => i = j
  BY <1>1 DEF OneToken
<1>9. ASSUME NEW b \in Actors
      PROVE  /\ status'[b] = Open => ~Queued(b)' /\ \A q \in Procs : ~Holds(q, b)'
             /\ Queued(b)' => \A q \in Procs : ~Holds(q, b)'
             /\ \A q, r \in Procs : Holds(q, b)' /\ Holds(r, b)' => q = r
  BY <1>1, <1>3, <1>4, <1>5, <1>6 DEF OneToken
<1> QED
  BY <1>7, <1>8, <1>9 DEF OneToken

LEMMA OneTokenDispatch ==
  ASSUME TypeOK, Locals, OneToken, NEW p \in Procs, DispatchStep(p)
  PROVE  OneToken'
<1>1. CASE CasScheduled(p)
  BY <1>1, TokenTaken
<1>2. CASE Post(p)
  BY <1>2, TokenPosted
<1>3. CASE ~CasScheduled(p) /\ ~Post(p)
  <2>1. UNCHANGED <<status, workQueue, running>>
    BY <1>3 DEF DispatchStep, Enqueue, EnqueueTimeout, EnqueueReturns,
         CheckScheduled, CheckOpen, Count, Load, CasScheduledFails, PostTimeout,
         queueVars, cellVars
  <2>2. PICK label \in PCs \ {"post"} : pc' = [pc EXCEPT ![p] = label]
    BY <1>3 DEF DispatchStep, Enqueue, EnqueueTimeout, EnqueueReturns,
         CheckScheduled, CheckOpen, Count, Load, CasScheduledFails, PostTimeout,
         RegisterReturns, Caller, Goto, PCs
  <2>3. \A q \in Procs \ {p} : target'[q] = target[q]
    BY <1>3 DEF DispatchStep, Enqueue, EnqueueTimeout, EnqueueReturns,
         CheckScheduled, CheckOpen, Count, Load, CasScheduledFails, PostTimeout,
         RegisterReturns, TypeOK
  <2>4. \A q \in Procs :
          pc'[q] = "post" => pc[q] = "post" /\ target'[q] = target[q]
    BY <2>2, <2>3 DEF TypeOK
  <2> QED
    BY <2>1, <2>4, TokenStays
<1> QED
  BY <1>1, <1>2, <1>3

LEMMA OneTokenTell ==
  ASSUME TypeOK, OneToken, NEW p \in Procs, NEW a \in Actors, Tell(p, a)
  PROVE  OneToken'
<1>1. UNCHANGED <<status, workQueue, running>>
  BY DEF Tell, queueVars, cellVars
<1>2. \A q \in Procs : pc'[q] = "post" => pc[q] = "post" /\ target'[q] = target[q]
  BY DEF Tell, Goto, TypeOK
<1> QED
  BY <1>1, <1>2, TokenStays

LEMMA OneTokenThread ==
  ASSUME TypeOK, Locals, OneToken, NEW t \in Threads, ThreadStep(t)
  PROVE  OneToken'
<1>1. CASE WorkReceive(t)
  BY <1>1, TokenReceived
<1>2. CASE IdleCas(t)
  BY <1>2, TokenReturned
<1>3. CASE ~WorkReceive(t) /\ ~IdleCas(t)
  <2>1. UNCHANGED <<status, workQueue, running, target>>
    BY <1>3 DEF ThreadStep, Dequeue, DequeueEmpty, HandlerReturns, IdleLoad,
         IdleCasFails, queueVars, cellVars
  <2>2. PICK label \in PCs \ {"post"} : pc' = [pc EXCEPT ![t] = label]
    BY <1>3 DEF ThreadStep, Dequeue, DequeueEmpty, HandlerReturns, IdleLoad,
         IdleCasFails, Goto, PCs
  <2>3. \A q \in Procs :
          pc'[q] = "post" => pc[q] = "post" /\ target'[q] = target[q]
    BY <2>1, <2>2 DEF TypeOK
  <2> QED
    BY <2>1, <2>3, TokenStays
<1> QED
  BY <1>1, <1>2, <1>3

-----------------------------------------------------------------------------
(* Nobody but the holder of the token runs the actor, so that nobody else  *)
(* can have changed _currentThread since.                                  *)
LEMMA TokenSingleThreaded == OneToken /\ TypeOK => SingleThreaded
BY DEF OneToken, TypeOK, SingleThreaded, Holds, Procs

LEMMA HandlerContextDispatch ==
  ASSUME HandlerContext, NEW p \in Procs,
         DispatchStep(p) \/ \E a \in Actors : Tell(p, a)
  PROVE  HandlerContext'
<1>1. UNCHANGED cellVars
  BY DEF DispatchStep, Enqueue, EnqueueTimeout, EnqueueReturns, CheckScheduled,
         CheckOpen, Count, Load, CasScheduled, CasScheduledFails, Post,
         PostTimeout, Tell
<1> QED
  BY <1>1 DEF cellVars, HandlerContext

LEMMA HandlerContextThread ==
  ASSUME DispatchInv, NEW t \in Threads, ThreadStep(t)
  PROVE  HandlerContext'
<1> USE DEF DispatchInv, TypeOK, HandlerContext
<1>1. CASE WorkReceive(t)
  BY <1>1 DEF WorkReceive, Locals, ProcessPCs
<1>2. CASE Dequeue(t)
  <2>1. running[t] \in Actors
    BY <1>2 DEF Dequeue, Locals, ProcessPCs
  <2>2. \A u \in Threads : u # t /\ running[u] # NoActor => running[u] # running[t]
    BY <2>1, TokenSingleThreaded DEF SingleThreaded
  <2> QED
    BY <1>2, <2>1, <2>2, DispatcherAssumption DEF Dequeue
<1>3. CASE HandlerReturns(t)
  BY <1>3 DEF HandlerReturns
<1>4. CASE IdleCas(t)
  BY <1>4 DEF IdleCas, Locals, RegisterPCs
<1>5. CASE DequeueEmpty(t) \/ IdleLoad(t) \/ IdleCasFails(t)
  BY <1>5 DEF DequeueEmpty, IdleLoad, IdleCasFails, cellVars
<1> QED
  BY <1>1, <1>2, <1>3, <1>4, <1>5 DEF ThreadStep

(* The invariant of the protocol.                                          *)
THEOREM DispatchInvariant == Spec => []DispatchInv
<1>1. ASSUME DispatchInv, [Next]_vars PROVE DispatchInv'
  <2> USE DEF DispatchInv
  <2>1. ASSUME NEW p \in Procs, DispatchStep(p) PROVE DispatchInv'
    BY <1>1, <2>1, LocalsDispatch, OneTokenDispatch, HandlerContextDispatch
  <2>2. ASSUME NEW p \in Procs, NEW a \in Actors, Tell(p, a) PROVE DispatchInv'
    BY <1>1, <2>2, LocalsTell, OneTokenTell, HandlerContextDispatch
  <2>3. ASSUME NEW t \in Threads, ThreadStep(t) PROVE DispatchInv'
    BY <1>1, <2>3, LocalsThread, OneTokenThread, HandlerContextThread
  <2>4. CASE UNCHANGED vars
    BY <1>1, <2>4 DEF vars, TypeOK, Locals, OneToken, HandlerContext, Holds, Queued
  <2> QED
    BY <1>1, <2>1, <2>2, <2>3, <2>4 DEF Next
<1> QED
  BY DispatchInit, <1>1, PTL DEF Spec

(* The variables keep their types; no batch is longer than Throughput.     *)
THEOREM DispatchTypeCorrect == Spec => []TypeOK
BY DispatchInvariant, PTL DEF DispatchInv

(* A mailbox is on the work queue once, or held by one thread, or Open.    *)
THEOREM DispatchOneToken == Spec => []OneToken
BY DispatchInvariant, PTL DEF DispatchInv

(* Two dispatcher threads never run the same actor.                        *)
THEOREM DispatchSingleThreaded == Spec => []SingleThreaded
<1>1. DispatchInv => SingleThreaded
  BY TokenSingleThreaded DEF DispatchInv
<1> QED
  BY DispatchInvariant, <1>1, PTL

(* sender() and msgBuilder() use the thread that runs this handler.        *)
THEOREM DispatchHandlerContext == Spec => []HandlerContext
BY DispatchInvariant, PTL DEF DispatchInv

-----------------------------------------------------------------------------
(* With as many places in the work queue as there are actors, the thread   *)
(* that is about to put its mailbox there finds one free: the mailboxes on *)
(* the queue are different ones, and its own is not among them.            *)
LEMMA TokenRoom == DispatchInv => WorkQueueHasRoom
<1> SUFFICES ASSUME DispatchInv, Cardinality(Actors) <= WorkQueueSize,
                    NEW p \in Procs, pc[p] = "post"
             PROVE  Len(workQueue) < WorkQueueSize
  BY DEF WorkQueueHasRoom
<1> DEFINE others == Actors \ {target[p]}
           places == 1..Len(workQueue)
<1>1. target[p] \in Actors /\ ~Queued(target[p])
  BY DEF DispatchInv, Locals, RegisterPCs, OneToken, Holds
<1>2. workQueue \in Seq(Actors) /\ Len(workQueue) \in Nat
  BY DEF DispatchInv, TypeOK
<1>3. workQueue \in [places -> others]
  <2>1. workQueue \in [places -> Actors]
    BY <1>2
  <2>2. \A i \in places : workQueue[i] # target[p]
    BY <1>1, <2>1 DEF Queued
  <2> QED
    BY <2>1, <2>2
<1>4. \A i, j \in places : workQueue[i] = workQueue[j] => i = j
  BY <1>3 DEF DispatchInv, OneToken
<1>5. workQueue \in Injection(places, others)
  BY <1>3, <1>4 DEF Injection, IsInjective
<1>6. IsFiniteSet(others) /\ Cardinality(others) = Cardinality(Actors) - 1
  BY <1>1, FS_RemoveElement, DispatcherAssumption
<1>7. Cardinality(places) <= Cardinality(others)
  BY <1>5, <1>6, FS_Injection
<1>8. Cardinality(places) = Len(workQueue)
  <2>1. /\ 1 \in Int /\ Len(workQueue) \in Int
        /\ 1 > Len(workQueue) => Len(workQueue) = 0
        /\ Len(workQueue) - 1 + 1 = Len(workQueue)
    BY <1>2
  <2>2. Cardinality(places) =
          IF 1 > Len(workQueue) THEN 0 ELSE Len(workQueue) - 1 + 1
    BY <2>1, FS_Interval, Zenon
  <2> QED
    BY <2>1, <2>2
<1>9. Cardinality(Actors) \in Nat
  BY FS_CardinalityType, DispatcherAssumption
<1> QED
  BY <1>2, <1>6, <1>7, <1>8, <1>9, DispatcherAssumption

(* registerForExecution may ignore the result of its send.                 *)
THEOREM DispatchWorkQueueHasRoom == Spec => []WorkQueueHasRoom
BY DispatchInvariant, TokenRoom, PTL

-----------------------------------------------------------------------------
(* No lost wakeup.  It needs a work queue that never turns a mailbox away; *)
(* DispatcherSmallQueue shows what happens with a shorter one.             *)
HasRoom == ~Bounded \/ Cardinality(Actors) <= WorkQueueSize

(* The token of the mailbox is on the work queue or in somebody's hands.   *)
Owned(a) == Queued(a) \/ \E p \in Procs : Holds(p, a)

(* Somebody will come for the messages in the mailbox of a.                *)
Covered(a) == Owned(a) \/ \E p \in Procs : WillRegister(p, a)

WakeInv == DispatchInv /\ ScheduledIsQueued /\ NoStrandedMailbox

LEMMA NeverPostTimeout ==
  ASSUME DispatchInv, HasRoom, NEW p \in Procs
  PROVE  ~PostTimeout(p)
<1> SUFFICES ASSUME PostTimeout(p) PROVE FALSE
  OBVIOUS
<1>1. pc[p] = "post" /\ Bounded /\ Len(workQueue) >= WorkQueueSize
  BY DEF PostTimeout, Full
<1>2. Len(workQueue) < WorkQueueSize
  BY <1>1, TokenRoom DEF HasRoom, WorkQueueHasRoom
<1>3. Len(workQueue) \in Nat /\ WorkQueueSize \in Nat
  BY DispatcherAssumption DEF DispatchInv, TypeOK
<1> QED
  BY <1>1, <1>2, <1>3

(* The token changes hands but is not dropped, by dispatch ...             *)
LEMMA OwnedDispatch ==
  ASSUME DispatchInv, HasRoom, NEW p \in Procs, NEW a \in Actors, Owned(a),
         DispatchStep(p) \/ \E b \in Actors : Tell(p, b)
  PROVE  Owned(a)'
<1> USE DEF DispatchInv
<1>1. CASE Post(p)
  <2>1. PICK b \in Actors :
        /\ b = target[p] /\ workQueue' = Append(workQueue, b)
        /\ pc' = [pc EXCEPT ![p] = Caller(p)]
        /\ target' = [target EXCEPT ![p] = NoActor]
        /\ UNCHANGED running
    BY <1>1 DEF Post, Locals, RegisterPCs, RegisterReturns, Goto, cellVars
  <2>2. /\ DOMAIN workQueue = 1..Len(workQueue)
        /\ DOMAIN workQueue' = 1..(Len(workQueue) + 1)
        /\ \A i \in DOMAIN workQueue : workQueue'[i] = workQueue[i]
        /\ workQueue'[Len(workQueue) + 1] = b
        /\ Len(workQueue) \in Nat
    BY <2>1 DEF TypeOK
  <2>3. Queued(b)' /\ (Queued(a) => Queued(a)')
    BY <2>2 DEF Queued
  <2>4. ASSUME NEW q \in Procs, Holds(q, a), a # b PROVE Holds(q, a)'
    BY <2>1, <2>4 DEF Holds, TypeOK
  <2> QED
    BY <2>3, <2>4 DEF Owned
<1>2. CASE ~Post(p)
  <2>1. UNCHANGED <<workQueue, running>>
    BY <1>2, NeverPostTimeout
       DEF DispatchStep, Enqueue, EnqueueTimeout, EnqueueReturns, CheckScheduled,
           CheckOpen, Count, Load, CasScheduled, CasScheduledFails, Tell,
           queueVars, cellVars
  <2>2. /\ pc[p] # "post"
        /\ \A q \in Procs \ {p} : pc'[q] = pc[q] /\ target'[q] = target[q]
    BY <1>2, NeverPostTimeout
       DEF DispatchStep, Enqueue, EnqueueTimeout, EnqueueReturns, CheckScheduled,
           CheckOpen, Count, Load, CasScheduled, CasScheduledFails, Tell,
           RegisterReturns, Goto, TypeOK
  <2>3. \A q \in Procs : Holds(q, a) => Holds(q, a)'
    BY <2>1, <2>2 DEF Holds
  <2> QED
    BY <2>1, <2>3 DEF Owned, Queued
<1> QED
  BY <1>1, <1>2

(* ... and by the dispatcher threads, up to setAsIdle.                     *)
LEMMA OwnedThread ==
  ASSUME DispatchInv, NEW t \in Threads, NEW a \in Actors, Owned(a),
         ThreadStep(t), ~(IdleCas(t) /\ running[t] = a)
  PROVE  Owned(a)'
<1> USE DEF DispatchInv
<1>1. CASE WorkReceive(t)
  <2>1. PICK b \in Actors :
        /\ b = Head(workQueue) /\ b = workQueue[1]
        /\ DOMAIN workQueue = 1..Len(workQueue) /\ Len(workQueue) \in Nat \ {0}
        /\ DOMAIN workQueue' = 1..(Len(workQueue) - 1)
        /\ \A i \in DOMAIN workQueue' : workQueue'[i] = workQueue[i + 1]
    BY <1>1 DEF WorkReceive, TypeOK
  <2>2. /\ running' = [running EXCEPT ![t] = b] /\ running[t] = NoActor
        /\ pc' = [pc EXCEPT ![t] = "dequeue"] /\ pc[t] = "recv"
        /\ UNCHANGED target
    BY <1>1, <2>1 DEF WorkReceive, ShouldProcessMessage, TypeOK, Goto, Locals
  <2>3. Holds(t, b)'
    BY <2>2 DEF Holds, TypeOK
  <2>4. Queued(a) /\ a # b => Queued(a)'
    <3> SUFFICES ASSUME NEW i \in DOMAIN workQueue, workQueue[i] = a, a # b
                 PROVE  \E j \in DOMAIN workQueue' : workQueue'[j] = a
      BY DEF Queued
    <3>1. i - 1 \in DOMAIN workQueue' /\ (i - 1) + 1 = i
      BY <2>1
    <3> QED
      BY <2>1, <3>1
  <2>5. \A q \in Procs : Holds(q, a) => Holds(q, a)'
    BY <2>2, DispatcherAssumption DEF Holds, TypeOK
  <2> QED
    BY <2>3, <2>4, <2>5 DEF Owned, Procs
<1>2. CASE IdleCas(t)
  <2>1. /\ running[t] # a
        /\ pc[t] = "idleCas" /\ pc' = [pc EXCEPT ![t] = "checkScheduled"]
        /\ running' = [running EXCEPT ![t] = NoActor]
        /\ target' = [target EXCEPT ![t] = running[t]]
        /\ UNCHANGED workQueue
    BY <1>2 DEF IdleCas, Goto, queueVars
  <2>2. \A q \in Procs : Holds(q, a) => Holds(q, a)'
    BY <2>1 DEF Holds, TypeOK
  <2> QED
    BY <2>1, <2>2 DEF Owned, Queued
<1>3. CASE ~WorkReceive(t) /\ ~IdleCas(t)
  <2>1. /\ UNCHANGED <<workQueue, running, target>>
        /\ pc[t] # "post"
        /\ \A q \in Procs \ {t} : pc'[q] = pc[q]
    BY <1>3 DEF ThreadStep, Dequeue, DequeueEmpty, HandlerReturns, IdleLoad,
         IdleCasFails, queueVars, cellVars, Goto, TypeOK
  <2>2. \A q \in Procs : Holds(q, a) => Holds(q, a)'
    BY <2>1 DEF Holds
  <2> QED
    BY <2>1, <2>2 DEF Owned, Queued
<1> QED
  BY <1>1, <1>2, <1>3

LEMMA ScheduledIsQueuedStep ==
  ASSUME WakeInv, HasRoom, Next
  PROVE  ScheduledIsQueued'
<1> USE DEF WakeInv, DispatchInv
<1> SUFFICES ASSUME NEW a \in Actors, status'[a] = Scheduled
             PROVE  Owned(a)'
  BY DEF ScheduledIsQueued, Owned
<1>1. ASSUME NEW p \in Procs, DispatchStep(p) \/ \E b \in Actors : Tell(p, b)
      PROVE  Owned(a)'
  <2>1. CASE status[a] = Scheduled
    BY <1>1, <2>1, OwnedDispatch DEF ScheduledIsQueued, Owned
  <2>2. CASE status[a] # Scheduled
    <3>1. CasScheduled(p)
      BY <1>1, <2>2 DEF DispatchStep, Enqueue, EnqueueTimeout, EnqueueReturns,
           CheckScheduled, CheckOpen, Count, Load, CasScheduledFails, Post,
           PostTimeout, Tell
    <3>2. target[p] = a
      BY <2>2, <3>1 DEF CasScheduled, TypeOK
    <3>3. Holds(p, a)'
      BY <3>1, <3>2 DEF CasScheduled, Goto, Holds, TypeOK
    <3> QED
      BY <3>3 DEF Owned
  <2> QED
    BY <2>1, <2>2
<1>2. ASSUME NEW t \in Threads, ThreadStep(t) PROVE Owned(a)'
  <2>1. status[a] = Scheduled /\ ~(IdleCas(t) /\ running[t] = a)
    BY <1>2 DEF ThreadStep, WorkReceive, Dequeue, DequeueEmpty, HandlerReturns,
         IdleLoad, IdleCas, IdleCasFails, TypeOK, Open, Scheduled
  <2> QED
    BY <1>2, <2>1, OwnedThread DEF ScheduledIsQueued, Owned
<1> QED
  BY <1>1, <1>2 DEF Next

(* A thread that gives up registering leaves the mailbox to somebody else: *)
(* the status it saw says that the token is owned, the count it saw says   *)
(* that the mailbox is empty, or that another thread is at it.             *)
LEMMA CoveredDispatch ==
  ASSUME WakeInv, HasRoom, NEW p \in Procs, NEW a \in Actors,
         mailbox[a] # <<>>, Covered(a),
         DispatchStep(p) \/ \E b \in Actors : Tell(p, b)
  PROVE  Covered(a)'
<1> USE DEF WakeInv, DispatchInv
<1>1. CASE Owned(a)
  BY <1>1, OwnedDispatch DEF Covered
<1>2. CASE \E q \in Procs \ {p} : WillRegister(q, a)
  <2>1. PICK q \in Procs \ {p} : WillRegister(q, a)
    BY <1>2
  <2>2. pc'[q] = pc[q] /\ target'[q] = target[q]
    BY DEF DispatchStep, Enqueue, EnqueueTimeout, EnqueueReturns, CheckScheduled,
         CheckOpen, Count, Load, CasScheduled, CasScheduledFails, Post,
         PostTimeout, RegisterReturns, Tell, Goto, TypeOK
  <2> QED
    BY <2>1, <2>2 DEF WillRegister, Covered
<1>3. CASE WillRegister(p, a) /\ ~Owned(a) /\ ~\E q \in Procs \ {p} : WillRegister(q, a)
  <2>1. /\ target[p] = a /\ pc[p] \notin {"idle", "handler", "post"}
        /\ status[a] = Open
    BY <1>3 DEF WillRegister, ScheduledIsQueued, Owned, TypeOK
  <2>2. \A q \in Procs \ {p} :
          /\ ~(pc[q] = "enqueue" /\ target[q] = a)
          /\ ~(q \in Threads /\ pc[q] = "dequeue" /\ running[q] = a)
    BY <1>3 DEF WillRegister, Owned, Holds
  <2>3. ~QueueBusy(p, a)
    <3> SUFFICES ASSUME NEW q \in Procs \ {p},
                        pc[q] = "dequeue", running[q] = a, q \notin Threads
                 PROVE  FALSE
      BY <2>2 DEF QueueBusy
    <3> QED
      BY DEF Locals, Procs, RegisterPCs
  <2>4. HasMessages(p, a) = {TRUE}
    BY <2>3 DEF HasMessages
  <2>5. CASE Enqueue(p) \/ EnqueueTimeout(p) \/ CheckScheduled(p) \/ CasScheduledFails(p)
    <3>1. WillRegister(p, a)'
      BY <2>1, <2>5 DEF Enqueue, EnqueueTimeout, EnqueueReturns, CheckScheduled,
           CasScheduledFails, Goto, WillRegister, TypeOK
    <3> QED
      BY <3>1 DEF Covered
  <2>6. CASE CheckOpen(p) \/ Count(p) \/ Load(p)
    <3>1. WillRegister(p, a)'
      BY <2>1, <2>4, <2>6 DEF CheckOpen, Count, Load, Goto, WillRegister, TypeOK
    <3> QED
      BY <3>1 DEF Covered
  <2>7. CASE CasScheduled(p)
    <3>1. Holds(p, a)'
      BY <2>1, <2>7 DEF CasScheduled, Goto, Holds, TypeOK
    <3> QED
      BY <3>1 DEF Covered, Owned
  <2> QED
    BY <2>1, <2>5, <2>6, <2>7 DEF DispatchStep, Post, PostTimeout, Tell
<1> QED
  BY <1>1, <1>2, <1>3 DEF Covered

LEMMA CoveredThread ==
  ASSUME WakeInv, NEW t \in Threads, NEW a \in Actors, Covered(a), ThreadStep(t)
  PROVE  Covered(a)'
<1> USE DEF WakeInv, DispatchInv
<1>1. CASE Owned(a) /\ ~(IdleCas(t) /\ running[t] = a)
  BY <1>1, OwnedThread DEF Covered
<1>2. CASE IdleCas(t) /\ running[t] = a
  <2>1. WillRegister(t, a)'
    BY <1>2 DEF IdleCas, Goto, WillRegister, TypeOK, Procs
  <2> QED
    BY <2>1 DEF Covered, Procs
<1>3. CASE ~Owned(a) /\ ~(IdleCas(t) /\ running[t] = a)
  <2>1. PICK q \in Procs : WillRegister(q, a)
    BY <1>3 DEF Covered
  <2>2. q # t /\ pc'[q] = pc[q] /\ target'[q] = target[q]
    BY <2>1 DEF ThreadStep, WorkReceive, Dequeue, DequeueEmpty, HandlerReturns,
         IdleLoad, IdleCas, IdleCasFails, WillRegister, Goto, TypeOK
  <2> QED
    BY <2>1, <2>2 DEF WillRegister, Covered
<1> QED
  BY <1>1, <1>2, <1>3

LEMMA NoStrandedMailboxStep ==
  ASSUME WakeInv, HasRoom, Next
  PROVE  NoStrandedMailbox'
<1> USE DEF WakeInv, DispatchInv
<1> SUFFICES ASSUME NEW a \in Actors, mailbox'[a] # <<>>
             PROVE  Covered(a)'
  BY DEF NoStrandedMailbox, Covered, Owned
<1>1. mailbox[a] # <<>> => Covered(a)
  BY DEF NoStrandedMailbox, Covered, Owned
<1>2. ASSUME NEW p \in Procs, DispatchStep(p) \/ \E b \in Actors : Tell(p, b)
      PROVE  Covered(a)'
  <2>1. CASE mailbox[a] # <<>>
    BY <1>1, <1>2, <2>1, CoveredDispatch
  <2>2. CASE mailbox[a] = <<>>
    <3>1. Enqueue(p) /\ target[p] = a
      BY <1>2, <2>2 DEF DispatchStep, Enqueue, EnqueueTimeout, CheckScheduled,
           CheckOpen, Count, Load, CasScheduled, CasScheduledFails, Post,
           PostTimeout, Tell, queueVars, TypeOK
    <3>2. WillRegister(p, a)'
      BY <3>1 DEF Enqueue, EnqueueReturns, Goto, WillRegister, TypeOK
    <3> QED
      BY <3>2 DEF Covered
  <2> QED
    BY <2>1, <2>2
<1>3. ASSUME NEW t \in Threads, ThreadStep(t) PROVE Covered(a)'
  <2>1. mailbox[a] # <<>>
    BY <1>3 DEF ThreadStep, WorkReceive, Dequeue, DequeueEmpty, HandlerReturns,
         IdleLoad, IdleCas, IdleCasFails, queueVars, TypeOK
  <2> QED
    BY <1>1, <1>3, <2>1, CoveredThread
<1> QED
  BY <1>2, <1>3 DEF Next

(* Both hold together, under the assumption on the work queue.             *)
LEMMA WakeInvariant == ASSUME HasRoom PROVE Spec => []WakeInv
<1>1. Init => WakeInv
  <2>1. Init => ScheduledIsQueued /\ NoStrandedMailbox
    BY DEF Init, ScheduledIsQueued, NoStrandedMailbox, Open, Scheduled
  <2> QED
    BY <2>1, DispatchInit DEF WakeInv
<1>2. ASSUME WakeInv, UNCHANGED vars
      PROVE  ScheduledIsQueued' /\ NoStrandedMailbox'
  BY <1>2 DEF WakeInv, vars, ScheduledIsQueued, NoStrandedMailbox, Queued, Holds,
             WillRegister
<1>3. WakeInv /\ DispatchInv' /\ [Next]_vars => WakeInv'
  BY <1>2, ScheduledIsQueuedStep, NoStrandedMailboxStep DEF WakeInv
<1> QED
  BY <1>1, <1>3, DispatchInvariant, PTL DEF Spec

(* As long as the work queue has room for every actor, registerForExecution *)
(* never leaves a mailbox marked as scheduled that is on no queue.         *)
THEOREM DispatchScheduledIsQueued ==
  ASSUME HasRoom PROVE Spec => []ScheduledIsQueued
BY WakeInvariant, PTL DEF WakeInv

(* As long as the work queue has room for every actor, a mailbox with a    *)
(* message in it has somebody who will come for it, wherever a tell meets  *)
(* the end of a batch.                                                     *)
THEOREM DispatchNoStrandedMailbox ==
  ASSUME HasRoom PROVE Spec => []NoStrandedMailbox
BY WakeInvariant, PTL DEF WakeInv

-----------------------------------------------------------------------------
(* Dispatcher implements Actors.                                           *)

(* What an actor is busy with, from what its runners hold.                 *)
LEMMA BusyIs ==
  ASSUME NEW a, NEW m,
         \A t \in Threads : running[t] = a => rxd[t] = m,
         (\A t \in Threads : running[t] # a) => m = NoMsg
  PROVE  Busy(a) = m
<1>1. CASE Runner(a) = {}
  BY <1>1 DEF Busy, Runner
<1>2. CASE Runner(a) # {}
  <2> DEFINE u == CHOOSE t \in Runner(a) : TRUE
  <2>1. u \in Runner(a)
    BY <1>2
  <2>2. rxd[u] = m
    BY <2>1 DEF Runner
  <2> QED
    BY <1>2, <2>2 DEF Busy
<1> QED
  BY <1>1, <1>2

LEMMA BusyIsNext ==
  ASSUME NEW a, NEW m,
         \A t \in Threads : running'[t] = a => rxd'[t] = m,
         (\A t \in Threads : running'[t] # a) => m = NoMsg
  PROVE  Busy(a)' = m
<1>1. CASE Runner(a)' = {}
  BY <1>1 DEF Busy, Runner
<1>2. CASE Runner(a)' # {}
  <2> DEFINE u == CHOOSE t \in Runner(a)' : TRUE
  <2>1. u \in Runner(a)'
    BY <1>2
  <2>2. rxd'[u] = m
    BY <2>1 DEF Runner
  <2> QED
    BY <1>2, <2>2 DEF Busy
<1> QED
  BY <1>1, <1>2

(* A thread that runs an actor is its only runner.                         *)
LEMMA BusyOfRunner ==
  ASSUME DispatchInv, NEW t \in Threads, running[t] \in Actors
  PROVE  Busy(running[t]) = rxd[t]
<1>1. \A u \in Threads : running[u] = running[t] => u = t
  BY TokenSingleThreaded, DispatcherAssumption DEF DispatchInv, SingleThreaded
<1> QED
  BY <1>1, BusyIs

(* Threads that only dispatch leave the runners alone.                     *)
LEMMA BusyStays ==
  ASSUME UNCHANGED <<running, rxd>>, NEW a
  PROVE  Busy(a)' = Busy(a)
BY DEF Busy, Runner

LEMMA ActorsStepDispatch ==
  ASSUME DispatchInv, NEW p \in Procs,
         DispatchStep(p) \/ \E b \in Actors : Tell(p, b)
  PROVE  [Actor!Next]_(Actor!actorVars)
<1> USE DEF DispatchInv
<1>1. UNCHANGED <<running, rxd>>
  BY DEF DispatchStep, Enqueue, EnqueueTimeout, EnqueueReturns, CheckScheduled,
         CheckOpen, Count, Load, CasScheduled, CasScheduledFails, Post,
         PostTimeout, Tell, cellVars
<1>2. [a \in Actors |-> Busy(a)]' = [a \in Actors |-> Busy(a)]
  BY <1>1, BusyStays
<1>3. CASE Enqueue(p)
  <2>1. target[p] \in Actors /\ arg[p] \in Msgs
    BY <1>3 DEF Enqueue, Locals, RegisterPCs
  <2>2. Actor!Deliver(target[p], arg[p])
    BY <1>2, <1>3 DEF Enqueue, Actor!Deliver
  <2> QED
    BY <2>1, <2>2 DEF Actor!Next
<1>4. CASE ~Enqueue(p)
  <2>1. UNCHANGED mailbox
    BY <1>4 DEF DispatchStep, EnqueueTimeout, CheckScheduled, CheckOpen, Count,
         Load, CasScheduled, CasScheduledFails, Post, PostTimeout, Tell, queueVars
  <2> QED
    BY <1>2, <2>1 DEF Actor!actorVars
<1> QED
  BY <1>3, <1>4

LEMMA ActorsStepThread ==
  ASSUME DispatchInv, DispatchInv', NEW t \in Threads, ThreadStep(t)
  PROVE  [Actor!Next]_(Actor!actorVars)
<1> USE DEF DispatchInv
<1> DEFINE busy == [a \in Actors |-> Busy(a)]
<1>1. CASE WorkReceive(t)
  <2>1. /\ UNCHANGED <<mailbox, rxd>> /\ running[t] = NoActor
        /\ running' = [running EXCEPT ![t] = Head(workQueue)]
        /\ Head(workQueue) \in Actors /\ rxd[t] = NoMsg
        /\ Queued(Head(workQueue))
    BY <1>1 DEF WorkReceive, ShouldProcessMessage, TypeOK, Locals, Queued
  <2>2. \A u \in Threads : running[u] # Head(workQueue)
    BY <2>1 DEF OneToken, Holds, Procs
  <2>3. ASSUME NEW a \in Actors PROVE Busy(a)' = Busy(a)
    <3>1. CASE a = Head(workQueue)
      <4>1. Busy(a) = NoMsg
        BY <2>2, <3>1 DEF Busy, Runner
      <4>2. \A u \in Threads : running'[u] = a => rxd'[u] = NoMsg
        BY <2>1, <2>2, <3>1 DEF TypeOK
      <4>3. Busy(a)' = NoMsg
        BY <4>2, BusyIsNext
      <4> QED
        BY <4>1, <4>3
    <3>2. CASE a # Head(workQueue)
      <4>1. Runner(a)' = Runner(a)
        BY <2>1, <3>2, DispatcherAssumption DEF Runner, TypeOK
      <4> QED
        BY <2>1, <4>1 DEF Busy
    <3> QED
      BY <3>1, <3>2
  <2> QED
    BY <2>1, <2>3 DEF Actor!actorVars
<1>2. CASE Dequeue(t)
  <2>1. PICK a \in Actors :
        /\ a = running[t] /\ rxd[t] = NoMsg /\ mailbox[a] # <<>>
        /\ rxd' = [rxd EXCEPT ![t] = Head(mailbox[a])]
        /\ mailbox' = [mailbox EXCEPT ![a] = Tail(@)]
        /\ UNCHANGED running
    BY <1>2 DEF Dequeue, Locals, ProcessPCs, RegisterPCs
  <2>2. Busy(a) = NoMsg
    BY <2>1, BusyOfRunner
  <2>3. \A u \in Threads : running[u] = a => u = t
    BY <2>1, TokenSingleThreaded, DispatcherAssumption DEF SingleThreaded
  <2>4. Busy(a)' = Head(mailbox[a])
    BY <2>1, <2>3, BusyIsNext DEF TypeOK
  <2>5. ASSUME NEW b \in Actors, b # a PROVE Busy(b)' = Busy(b)
    <3>1. Runner(b)' = Runner(b) /\ t \notin Runner(b)
      BY <2>1, <2>5 DEF Runner
    <3>2. \A u \in Runner(b) : rxd'[u] = rxd[u]
      BY <2>1, <3>1 DEF Runner, TypeOK
    <3>3. Runner(b) # {} => (CHOOSE u \in Runner(b) : TRUE) \in Runner(b)
      OBVIOUS
    <3> QED
      BY <3>1, <3>2, <3>3 DEF Busy
  <2>6. busy' = [busy EXCEPT ![a] = Head(mailbox[a])]
    BY <2>4, <2>5
  <2>7. Actor!Begin(a)
    BY <2>1, <2>2, <2>6 DEF Actor!Begin
  <2> QED
    BY <2>7 DEF Actor!Next
<1>3. CASE HandlerReturns(t)
  <2>1. PICK a \in Actors :
        /\ a = running[t] /\ rxd[t] # NoMsg
        /\ rxd' = [rxd EXCEPT ![t] = NoMsg]
        /\ UNCHANGED <<mailbox, running>>
    BY <1>3, DispatcherAssumption
       DEF HandlerReturns, Locals, ProcessPCs, RegisterPCs, queueVars
  <2>2. Busy(a) # NoMsg
    BY <2>1, BusyOfRunner
  <2>3. \A u \in Threads : running[u] = a => u = t
    BY <2>1, TokenSingleThreaded, DispatcherAssumption DEF SingleThreaded
  <2>4. Busy(a)' = NoMsg
    BY <2>1, <2>3, BusyIsNext DEF TypeOK
  <2>5. ASSUME NEW b \in Actors, b # a PROVE Busy(b)' = Busy(b)
    <3>1. Runner(b)' = Runner(b) /\ t \notin Runner(b)
      BY <2>1, <2>5 DEF Runner
    <3>2. \A u \in Runner(b) : rxd'[u] = rxd[u]
      BY <2>1, <3>1 DEF Runner, TypeOK
    <3>3. Runner(b) # {} => (CHOOSE u \in Runner(b) : TRUE) \in Runner(b)
      OBVIOUS
    <3> QED
      BY <3>1, <3>2, <3>3 DEF Busy
  <2>6. busy' = [busy EXCEPT ![a] = NoMsg]
    BY <2>4, <2>5
  <2>7. Actor!End(a)
    BY <2>1, <2>2, <2>6 DEF Actor!End
  <2> QED
    BY <2>7 DEF Actor!Next
<1>4. CASE IdleCas(t)
  <2>1. /\ UNCHANGED <<mailbox, rxd>> /\ running[t] \in Actors /\ rxd[t] = NoMsg
        /\ running' = [running EXCEPT ![t] = NoActor]
    BY <1>4 DEF IdleCas, Locals, ProcessPCs, RegisterPCs, queueVars
  <2>2. \A u \in Threads : running[u] = running[t] => u = t
    BY <2>1, TokenSingleThreaded, DispatcherAssumption DEF SingleThreaded
  <2>3. ASSUME NEW a \in Actors PROVE Busy(a)' = Busy(a)
    <3>1. CASE a = running[t]
      <4>1. Busy(a) = NoMsg
        BY <2>1, <3>1, BusyOfRunner
      <4>2. Runner(a)' = {}
        BY <2>1, <2>2, <3>1, DispatcherAssumption DEF Runner, TypeOK
      <4> QED
        BY <4>1, <4>2 DEF Busy
    <3>2. CASE a # running[t]
      <4>1. Runner(a)' = Runner(a)
        BY <2>1, <3>2, DispatcherAssumption DEF Runner, TypeOK
      <4> QED
        BY <2>1, <4>1 DEF Busy
    <3> QED
      BY <3>1, <3>2
  <2> QED
    BY <2>1, <2>3 DEF Actor!actorVars
<1>5. CASE DequeueEmpty(t) \/ IdleLoad(t) \/ IdleCasFails(t)
  <2>1. UNCHANGED <<mailbox, running, rxd>>
    BY <1>5 DEF DequeueEmpty, IdleLoad, IdleCasFails, queueVars, cellVars
  <2>2. busy' = busy
    BY <2>1, BusyStays
  <2> QED
    BY <2>1, <2>2 DEF Actor!actorVars
<1> QED
  BY <1>1, <1>2, <1>3, <1>4, <1>5 DEF ThreadStep

(* The dispatcher gives every actor what Actors promises: one message at a *)
(* time, in the order of arrival, none lost that is in the mailbox.        *)
THEOREM DispatcherImplementsActors == Spec => ActorsSpec
<1>1. Init => Actor!Init
  <2> SUFFICES ASSUME Init PROVE Actor!Init
    OBVIOUS
  <2>1. \A a \in Actors : Busy(a) = NoMsg
    BY DispatcherAssumption DEF Init, Busy, Runner
  <2> QED
    BY <2>1 DEF Init, Actor!Init
<1>2. ASSUME DispatchInv, DispatchInv', [Next]_vars
      PROVE  [Actor!Next]_(Actor!actorVars)
  <2>1. CASE UNCHANGED vars
    <3>1. UNCHANGED <<mailbox, running, rxd>>
      BY <2>1 DEF vars
    <3>2. [a \in Actors |-> Busy(a)]' = [a \in Actors |-> Busy(a)]
      BY <3>1, BusyStays
    <3> QED
      BY <3>1, <3>2 DEF Actor!actorVars
  <2> QED
    BY <1>2, <2>1, ActorsStepDispatch, ActorsStepThread DEF Next
<1> QED
  BY DispatchInvariant, <1>1, <1>2, PTL DEF Spec, ActorsSpec, Actor!Spec

=============================================================================
