----------------------------- MODULE NodeProofs -----------------------------
(***************************************************************************)
(* What the actors tell each other is sound, whatever a peer sends, for    *)
(* any commands, any order of the map and any way in which values are      *)
(* converted to JSON and back.                                             *)
(*                                                                         *)
(* Mail is the invariant: every message in a mailbox was told by somebody  *)
(* with a reference, and lies where Mailbox puts it.  What it needs to be  *)
(* inductive is that the bridge finds in a message mqttPublishRcvd the     *)
(* topic and the payload of a command, and nobody but the client's thread  *)
(* tells such a message; and, for the actor that is polled, that the walk  *)
(* is on an actor of the system (Ring).  A handler keeps Mail if all it    *)
(* tells may be told (Tells).                                              *)
(***************************************************************************)
EXTENDS Node, ConversionProofs, FiniteSetTheorems

-----------------------------------------------------------------------------
(* Messages in mailboxes                                                   *)

(* The fields of the event that a command of the peer becomes.             *)
Arrival(c) ==
  <<[tag |-> "topic", val |-> <<"topic", c.topic>>],
    [tag |-> "message", val |-> <<"json", c.payload>>]>>

(* A message that may be told when the references in table are known.      *)
IsSent(m, table) ==
  /\ IsMessage(m)
  /\ m.src \in table
  /\ m.dst \in table \cup {NoSender}
  /\ m.cls = "mqttPublishRcvd" => \E c \in Commands : m.fields = Arrival(c)

AllSent(ms, table) ==
  /\ ms \in Seq(ToSet(ms))
  /\ \A i \in DOMAIN ms : IsSent(ms[i], table)

(* Every message in a mailbox was told, and lies where Mailbox puts it.    *)
Mail ==
  /\ DOMAIN inbox = Local
  /\ Local \subseteq known
  /\ \A a \in Local :
       /\ AllSent(inbox[a], known)
       /\ \A i \in DOMAIN inbox[a] : Mailbox(inbox[a][i].dst) = a

(* What is told to one mailbox after the other arrives there.              *)
LEMMA DeliverTo ==
  ASSUME NEW boxes, NEW ms, NEW E, ms \in Seq(E), NEW G,
         \A b \in Local : boxes[b] \in Seq(G[b]),
         \A b \in Local : \A e \in E : Mailbox(e.dst) = b => e \in G[b]
  PROVE  /\ DOMAIN Deliver(boxes, ms) = Local
         /\ \A b \in Local : Deliver(boxes, ms)[b] \in Seq(G[b])
<1> DEFINE S(b) == {m \in ToSet(ms) : Mailbox(m.dst) = b}
<1>1. Deliver(boxes, ms) = [b \in Local |-> boxes[b] \o Filter(ms, S(b))]
  BY DEF Deliver
<1>2. ASSUME NEW b \in Local
      PROVE  boxes[b] \o Filter(ms, S(b)) \in Seq(G[b])
  <2> DEFINE R == S(b)
  <2>1. Filter(ms, R) \in Seq(E \cap R)
    <3> HIDE DEF R
    <3> QED
      BY FilterRange
  <2>2. E \cap R \subseteq G[b]
    OBVIOUS
  <2> HIDE DEF R
  <2>3. Filter(ms, R) \in Seq(G[b])
    BY <2>1, <2>2, SeqMonotonic
  <2>4. boxes[b] \o Filter(ms, R) \in Seq(G[b])
    BY <2>3, ConcatProperties
  <2> QED
    BY <2>4 DEF R
<1> HIDE DEF S
<1> QED
  BY <1>1, <1>2

(* Lists of messages that may be told: one after the other, one, none.     *)
LEMMA ConcatSent ==
  ASSUME NEW s, NEW t, NEW table, AllSent(s, table), AllSent(t, table)
  PROVE  AllSent(s \o t, table)
<1> DEFINE T == ToSet(s) \cup ToSet(t)
<1>1. s \in Seq(T) /\ t \in Seq(T)
  BY SeqMonotonic DEF AllSent
<1>2. s \o t \in Seq(T)
  BY <1>1, ConcatProperties
<1>3. \A x \in T : IsSent(x, table)
  BY DEF AllSent, ToSet
<1> HIDE DEF T
<1>4. \A i \in DOMAIN (s \o t) : IsSent((s \o t)[i], table)
  <2>1. \A i \in DOMAIN (s \o t) : (s \o t)[i] \in T
    BY <1>2
  <2> QED
    BY <1>3, <2>1
<1>5. s \o t \in Seq(ToSet(s \o t))
  BY <1>2, OwnElements
<1> QED
  BY <1>4, <1>5 DEF AllSent

(* A single message that may be told.                                      *)
LEMMA OneSent ==
  ASSUME NEW m, NEW table, IsSent(m, table)
  PROVE  AllSent(<<m>>, table)
<1>1. <<m>> \in Seq({m})
  OBVIOUS
<1>2. <<m>> \in Seq(ToSet(<<m>>))
  BY <1>1, OwnElements
<1> QED
  BY <1>2 DEF AllSent

(* No message.                                                             *)
LEMMA NoneSent == ASSUME NEW table PROVE AllSent(<<>>, table)
<1>1. <<>> \in Seq(ToSet(<<>>))
  OBVIOUS
<1> QED
  BY <1>1 DEF AllSent

(* References are never taken back.                                        *)
LEMMA SentStays ==
  ASSUME NEW m, NEW table, NEW later, IsSent(m, table), table \subseteq later
  PROVE  IsSent(m, later)
  BY DEF IsSent

(* Telling what may be told keeps the mailboxes in order.                  *)
LEMMA DeliverMail ==
  ASSUME Mail, known \subseteq known',
         NEW boxes, \A b \in Local : boxes[b] \in Seq(ToSet(inbox[b])),
         NEW ms, AllSent(ms, known'),
         inbox' = Deliver(boxes, ms)
  PROVE  Mail'
<1> DEFINE Good(x, b) == IsSent(x, known') /\ Mailbox(x.dst) = b
           Box(b) == {x \in ToSet(inbox[b]) \cup ToSet(ms) : Good(x, b)}
           G == [b \in Local |-> Box(b)]
<1>1. ASSUME NEW b \in Local
      PROVE  boxes[b] \in Seq(G[b])
  <2>1. ASSUME NEW x \in ToSet(inbox[b])
        PROVE  Good(x, b)
    <3>1. PICK i \in DOMAIN inbox[b] : x = inbox[b][i]
      BY DEF ToSet
    <3>2. IsSent(x, known) /\ Mailbox(x.dst) = b
      BY <3>1 DEF Mail, AllSent
    <3> QED
      BY <3>2, SentStays
  <2>2. ToSet(inbox[b]) \subseteq G[b]
    <3> HIDE DEF Good
    <3>1. ToSet(inbox[b]) \subseteq Box(b)
      BY <2>1
    <3> HIDE DEF Box
    <3> QED
      BY <3>1
  <2> HIDE DEF G
  <2> QED
    BY <2>2, SeqMonotonic
<1>2. ASSUME NEW b \in Local, NEW e \in ToSet(ms), Mailbox(e.dst) = b
      PROVE  e \in G[b]
  <2>1. IsSent(e, known')
    BY DEF AllSent, ToSet
  <2> QED
    BY <1>2, <2>1
<1>3. ms \in Seq(ToSet(ms))
  BY DEF AllSent
<1>4. DOMAIN inbox' = Local /\ \A b \in Local : inbox'[b] \in Seq(G[b])
  <2> HIDE DEF G
  <2> QED
    BY <1>1, <1>2, <1>3, DeliverTo
<1>5. ASSUME NEW b \in Local
      PROVE  /\ inbox'[b] \in Seq(ToSet(inbox'[b]))
             /\ \A i \in DOMAIN inbox'[b] : Good(inbox'[b][i], b)
  <2>1. inbox'[b] \in Seq(G[b])
    BY <1>4
  <2>2. \A x \in G[b] : Good(x, b)
    OBVIOUS
  <2> HIDE DEF G, Good
  <2>3. \A i \in DOMAIN inbox'[b] : Good(inbox'[b][i], b)
    BY <2>1, <2>2
  <2>4. inbox'[b] \in Seq(ToSet(inbox'[b]))
    BY <2>1, OwnElements
  <2> QED
    BY <2>3, <2>4
<1>6. Local \subseteq known'
  BY DEF Mail
<1> QED
  BY <1>4, <1>5, <1>6 DEF Mail, AllSent, Mailbox

(* What the receiver for AnyClass tells is a publication of the bridge.    *)
LEMMA ForwardedSent ==
  ASSUME NEW m, NEW table, Local \subseteq table
  PROVE  AllSent(Forwarded(m), table)
<1> DEFINE pub == Told(PublishPairs(<<msgToJsonCmd(m)>>), "bridge", "mqtt")
<1>1. IsSent(pub, table)
  <2>1. "bridge" \in table /\ "mqtt" \in table
    BY DEF Local
  <2> DEFINE pairs == PublishPairs(<<msgToJsonCmd(m)>>)
  <2>2. IsMessage(pairs) /\ pairs.cls = "mqttPublish"
    <3>1. \A x : Len(<<x>>) = 1
      OBVIOUS
    <3> QED
      BY <3>1, PairsIs
  <2> HIDE DEF pairs
  <2> QED
    BY <2>1, <2>2 DEF IsSent, IsMessage, Told, pairs
<1>2. Forwarded(m) = <<>> \/ Forwarded(m) = <<pub>>
  BY DEF Forwarded
<1> HIDE DEF pub
<1> QED
  BY <1>1, <1>2, OneSent, NoneSent

(* A handler, in which actor a takes its message and tells what may be     *)
(* told when it has created its references.                                *)
Handles(a) ==
  /\ known \subseteq known'
  /\ inbox[a] # <<>>
  /\ \E out : AllSent(out, known') /\ Receive(a, Head(inbox[a]), out)

(* A handler that tells what may be told keeps the mailboxes in order.     *)
LEMMA HandlesMail ==
  ASSUME Mail, NEW a \in Local, Handles(a)
  PROVE  Mail'
<1> DEFINE boxes == [inbox EXCEPT ![a] = Tail(@)]
           any == IF a = "bridge" THEN Forwarded(Head(inbox[a])) ELSE <<>>
<1>1. PICK out : AllSent(out, known') /\ Receive(a, Head(inbox[a]), out)
  BY DEF Handles
<1>2. inbox' = Deliver(boxes, any \o out)
  BY <1>1 DEF Receive
<1>3. \A b \in Local : boxes[b] \in Seq(ToSet(inbox[b]))
  <2>1. \A b \in Local : inbox[b] \in Seq(ToSet(inbox[b])) /\ DOMAIN inbox = Local
    BY DEF Mail, AllSent
  <2>2. Tail(inbox[a]) \in Seq(ToSet(inbox[a]))
    BY <2>1, HeadTailProperties DEF Handles
  <2> QED
    BY <2>1, <2>2
<1>4. AllSent(any \o out, known')
  <2>1. AllSent(any, known')
    BY ForwardedSent, NoneSent DEF Mail, Handles
  <2> HIDE DEF any
  <2> QED
    BY <1>1, <2>1, ConcatSent
<1> HIDE DEF boxes, any
<1> QED
  BY <1>2, <1>3, <1>4, DeliverMail DEF Handles

-----------------------------------------------------------------------------
(* The walk over the references                                            *)

(* The map has every actor once, and the cursor is on one of them.         *)
Ring ==
  /\ refs \in Seq(Local) /\ IsInjective(refs) /\ Len(refs) >= Len(Order)
  /\ cursor \in ToSet(refs) \cup {"end"}

(* There are actors to walk over.                                          *)
LEMMA OrderNotEmpty == Order \in Seq(Local) /\ Len(Order) \in Nat \ {0}
<1>1. Order \in Seq(Local) /\ Len(Order) \in Nat
  BY NodeAssumption
<1>2. 1..Len(Order) # {}
  BY NodeAssumption
<1> QED
  BY <1>1, <1>2

(* The walk starts at the first actor of the map.                          *)
LEMMA RingInit == Init => Ring
<1> SUFFICES ASSUME Init PROVE Ring
  OBVIOUS
<1>1. refs = Order /\ cursor = Order[1]
  BY DEF Init
<1>2. Order[1] \in ToSet(Order)
  BY OrderNotEmpty DEF ToSet
<1>3. IsInjective(Order)
  BY NodeAssumption
<1> QED
  BY <1>1, <1>2, <1>3, OrderNotEmpty DEF Ring

(* nextRef finds a reference, the cursor moves to another or to the end.   *)
LEMMA NextRef ==
  ASSUME Ring
  PROVE  nextRef \in ToSet(refs) /\ nextRef \in Local
<1>1. 1 \in 1..Len(refs)
  BY OrderNotEmpty DEF Ring
<1>2. refs[1] \in ToSet(refs) /\ ToSet(refs) \subseteq Local
  BY <1>1 DEF Ring, ToSet
<1> QED
  BY <1>2 DEF nextRef, Ring

(* The cursor moves to a reference of the map, or behind its end.          *)
LEMMA SuccessorOf ==
  ASSUME Ring, NEW ref \in ToSet(refs)
  PROVE  Successor(ref) \in ToSet(refs) \cup {"end"}
<1> DEFINE I == {i \in 1..Len(refs) : refs[i] = ref}
           k == Min(I)
<1>1. I # {} /\ I \subseteq Nat
  BY DEF Ring, ToSet
<1>2. k \in I
  <2>1. \E n \in I : \A j \in I : n <= j
    <3> HIDE DEF I
    <3> QED
      BY <1>1, LeastElement
  <2> HIDE DEF I
  <2> QED
    BY <2>1 DEF Min
<1>3. SelectInSeq(refs, LAMBDA r : r = ref) = k
  BY <1>1 DEF SelectInSeq
<1>4. Successor(ref) = IF k = Len(refs) THEN "end" ELSE refs[k + 1]
  BY <1>3 DEF Successor
<1>5. k \in 1..Len(refs)
  BY <1>2
<1> HIDE DEF k, I
<1> QED
  BY <1>4, <1>5 DEF Ring, ToSet

(* create() enters the bridge where no other is.                           *)
LEMMA InsertRing ==
  ASSUME Ring, ~Contains(refs, "bridge"), NEW i \in Places
  PROVE  LET r == InsertAt(refs, i, "bridge") IN
         /\ r \in Seq(Local) /\ IsInjective(r) /\ Len(r) >= Len(Order)
         /\ ToSet(refs) \subseteq ToSet(r)
<1> DEFINE n == Len(refs)
           r == InsertAt(refs, i, "bridge")
<1>1. refs \in Seq(Local) /\ n \in Nat /\ i \in 1..n
  BY NodeAssumption, OrderNotEmpty DEF Ring
<1>2. "bridge" \in Local
  BY DEF Local
<1> HIDE DEF n
<1>3. /\ SubSeq(refs, 1, i - 1) \in Seq(Local)
      /\ Len(SubSeq(refs, 1, i - 1)) = i - 1
      /\ \A j \in 1..(i - 1) : SubSeq(refs, 1, i - 1)[j] = refs[j]
  BY <1>1 DEF n
<1>4. /\ SubSeq(refs, i, n) \in Seq(Local)
      /\ Len(SubSeq(refs, i, n)) = n - i + 1
      /\ \A j \in 1..(n - i + 1) : SubSeq(refs, i, n)[j] = refs[i + j - 1]
  BY <1>1 DEF n
<1>5. /\ r \in Seq(Local) /\ Len(r) = n + 1
      /\ \A j \in 1..(n + 1) :
           r[j] = IF j < i THEN refs[j] ELSE IF j = i THEN "bridge" ELSE refs[j - 1]
  <2>1. r = SubSeq(refs, 1, i - 1) \o <<"bridge">> \o SubSeq(refs, i, n)
    BY DEF InsertAt, n
  <2> HIDE DEF r
  <2> QED
    BY <1>1, <1>2, <1>3, <1>4, <2>1
<1> HIDE DEF r
<1>6. \A j \in 1..n : refs[j] # "bridge"
  BY DEF Contains, n
<1>7. \A j, k \in 1..n : refs[j] = refs[k] => j = k
  BY <1>1 DEF Ring, IsInjective, n
<1>8. IsInjective(r)
  <2>1. ASSUME NEW j \in 1..(n + 1), NEW k \in 1..(n + 1), r[j] = r[k]
        PROVE  j = k
    <3> DEFINE old(x) == IF x < i THEN x ELSE x - 1
    <3>1. ASSUME NEW x \in 1..(n + 1), x # i
          PROVE  old(x) \in 1..n /\ r[x] = refs[old(x)] /\ r[x] # "bridge"
      BY <1>1, <1>5, <1>6, <3>1
    <3>2. r[i] = "bridge"
      BY <1>1, <1>5
    <3>3. CASE j = i \/ k = i
      BY <2>1, <3>1, <3>2, <3>3
    <3>4. CASE j # i /\ k # i
      <4>1. refs[old(j)] = refs[old(k)] /\ old(j) \in 1..n /\ old(k) \in 1..n
        BY <2>1, <3>1, <3>4
      <4>2. old(j) = old(k)
        <5> HIDE DEF old
        <5> QED
          BY <1>7, <4>1
      <4> QED
        BY <1>1, <3>4, <4>2
    <3> QED
      BY <3>3, <3>4
  <2> QED
    BY <1>1, <1>5, <2>1 DEF IsInjective
<1>9. ToSet(refs) \subseteq ToSet(r)
  <2>1. ASSUME NEW j \in 1..n
        PROVE  \E k \in 1..(n + 1) : r[k] = refs[j]
    <3>1. CASE j < i
      BY <1>1, <1>5, <3>1
    <3>2. CASE j >= i
      <4>1. j + 1 \in 1..(n + 1) /\ r[j + 1] = refs[j]
        BY <1>1, <1>5, <3>2
      <4> QED
        BY <4>1
    <3> QED
      BY <1>1, <3>1, <3>2
  <2>2. DOMAIN refs = 1..n /\ DOMAIN r = 1..(n + 1)
    BY <1>1, <1>5 DEF n
  <2> QED
    BY <2>1, <2>2, Zenon DEF ToSet
<1> QED
  BY <1>1, <1>5, <1>8, <1>9, OrderNotEmpty DEF r, n, Ring

(* Steps that leave map and cursor alone.                                  *)
LEMMA RingStays ==
  ASSUME Ring, UNCHANGED <<refs, cursor>>
  PROVE  Ring'
  BY DEF Ring

(* Only the polling timer and create() move the cursor or the map.         *)
LEMMA RingNext == Ring /\ [Next]_vars => Ring'
<1> SUFFICES ASSUME Ring, [Next]_vars
             PROVE  Ring'
  OBVIOUS
<1>1. ASSUME NEW a \in Local, ActorStep(a)
      PROVE  Ring'
  <2>1. CASE PollTimer
    <3>1. refs' = refs
      BY <2>1 DEF PollTimer
    <3>2. cursor' \in ToSet(refs) \cup {"end"}
      BY <2>1, NextRef, SuccessorOf DEF PollTimer, Ring
    <3> QED
      BY <3>1, <3>2 DEF Ring
  <2>2. CASE ~PollTimer
    <3>1. UNCHANGED <<refs, cursor>>
      BY <1>1, <2>2 DEF ActorStep, Unhandled, Properties, SenderStep, StartTest,
        EndTest, Pong, EchoPing, Config, SystemHears, BridgeStep,
        BridgeConnected, BridgeDisconnected, PublishRcvd, PubTimer,
        PropertiesReply, Publishes, Announce, MqttPublish, bridgeVars
    <3> QED
      BY <3>1, RingStays
  <2> QED
    BY <2>1, <2>2
<1>2. CASE EmplaceBridge
  <2>1. PICK i \in Places : refs' = InsertAt(refs, i, "bridge")
    BY <1>2 DEF EmplaceBridge
  <2>2. ~Contains(refs, "bridge") /\ cursor' = cursor
    BY <1>2 DEF EmplaceBridge
  <2> QED
    BY <2>1, <2>2, InsertRing DEF Ring
<1>3. CASE onConnect \/ onConnectionLost \/ onMessageArrived
  BY <1>3, RingStays DEF onConnect, onConnectionLost, onMessageArrived, bridgeVars
<1>4. CASE \E class \in {"pollTimer", "pubTimer"} : BridgeTimer(class)
  BY <1>4, RingStays DEF BridgeTimer, bridgeVars
<1>5. CASE StartTimer \/ EndTimer
  BY <1>5, RingStays DEF StartTimer, EndTimer, bridgeVars
<1>6. CASE UNCHANGED vars
  BY <1>6, RingStays DEF vars, bridgeVars
<1> QED
  BY <1>1, <1>2, <1>3, <1>4, <1>5, <1>6 DEF Next

-----------------------------------------------------------------------------
(* What the handlers tell                                                  *)

(* The message that a handler has was told to its actor.                   *)
LEMMA HeadSent ==
  ASSUME Mail, NEW a \in Local, inbox[a] # <<>>
  PROVE  IsSent(Head(inbox[a]), known) /\ Mailbox(Head(inbox[a]).dst) = a
<1>1. inbox[a] \in Seq(ToSet(inbox[a])) /\ 1 \in DOMAIN inbox[a]
  BY DEF Mail, AllSent
<1>2. Head(inbox[a]) = inbox[a][1]
  BY <1>1
<1> QED
  BY <1>1, <1>2 DEF Mail, AllSent

Request == {"ping", "get", "clear", "set", "Properties"}

(* An answer goes to whoever sent the request.                             *)
LEMMA AnswerSent ==
  ASSUME NEW m, NEW a \in Local, NEW fields, NEW table,
         Local \subseteq table, IsSent(m, table), m.cls \in Request,
         IsList(fields)
  PROVE  AllSent(<<Answer(a, m, fields)>>, table)
<1> DEFINE x == Answer(a, m, fields)
           answer == Reply(m)
           all == answer.fields \o fields
<1>1. IsMessage(answer) /\ answer.cls = ReplyClass(m.cls)
  <2> DEFINE new == [Msg(ReplyClass(m.cls)) EXCEPT !.src = m.dst, !.dst = m.src]
  <2>1. IsMessage(new) /\ new.cls = ReplyClass(m.cls)
    BY MsgIs DEF IsMessage
  <2>2. answer = Add(new, Field("$ID", "UINT", Id(m)))
    BY DEF Reply
  <2> HIDE DEF new, answer
  <2> QED
    BY <2>1, <2>2, AddIs
<1>2. IsList(all)
  BY <1>1, ConcatList DEF IsMessage
<1>3. x = Told([answer EXCEPT !.fields = all], a, m.src)
  BY <1>1 DEF Answer, IsMessage
<1> HIDE DEF answer, all, x
<1>4. x.cls = ReplyClass(m.cls) /\ x.src = a /\ x.dst = m.src /\ IsMessage(x)
  BY <1>1, <1>2, <1>3 DEF Told, IsMessage
<1>5. ReplyClass(m.cls) # "mqttPublishRcvd"
  BY DEF ReplyClass, Request
<1>6. IsSent(x, table)
  BY <1>4, <1>5 DEF IsSent
<1> QED
  BY <1>6, OneSent DEF x

(* A new message of another class from one local actor to another.         *)
LEMMA NewSent ==
  ASSUME NEW m, NEW from \in Local, NEW to, NEW table,
         Local \subseteq table, to \in table,
         IsMessage(m), m.cls # "mqttPublishRcvd"
  PROVE  AllSent(<<Told(m, from, to)>>, table)
<1> DEFINE x == Told(m, from, to)
<1>1. x.cls = m.cls /\ x.src = from /\ x.dst = to /\ IsMessage(x)
  BY DEF Told, IsMessage
<1> HIDE DEF x
<1>2. IsSent(x, table)
  BY <1>1 DEF IsSent
<1> QED
  BY <1>2, OneSent DEF x

(* An event goes to subscribers.                                           *)
LEMMA PublishSent ==
  ASSUME NEW m, NEW table, Local \subseteq table,
         IsMessage(m), m.src \in table,
         m.cls = "mqttPublishRcvd" => \E c \in Commands : m.fields = Arrival(c)
  PROVE  AllSent(Publish(Bus, m), table)
<1> DEFINE B == {Bus[i] : i \in 1..5}
           E == {[m EXCEPT !.dst = s.subscriber] :
                   s \in {b \in B : SameClassifier(m, b)}}
<1>1. Bus \in Seq(B) /\ \A s \in B : s.subscriber \in {"system", "bridge"}
  BY DEF Bus
<1>2. Publish(Bus, m) \in Seq(E)
  <2> HIDE DEF B
  <2> QED
    BY <1>1, PublishRange
<1>3. ASSUME NEW e \in E
      PROVE  IsSent(e, table)
  <2>1. PICK s \in B : e = [m EXCEPT !.dst = s.subscriber]
    OBVIOUS
  <2>2. s.subscriber \in table
    BY <1>1 DEF Local
  <2> QED
    BY <2>1, <2>2 DEF IsSent, IsMessage
<1> HIDE DEF E
<1>4. Publish(Bus, m) \in Seq(ToSet(Publish(Bus, m)))
  BY <1>2, OwnElements
<1> QED
  BY <1>2, <1>3, <1>4 DEF AllSent

(* Mailboxes are empty at first.                                           *)
LEMMA MailInit == Init => Mail
<1> SUFFICES ASSUME Init PROVE Mail
  OBVIOUS
<1>1. DOMAIN inbox = Local /\ known = Local /\ \A a \in Local : inbox[a] = <<>>
  BY DEF Init
<1> QED
  BY <1>1, NoneSent DEF Mail

(* A handler that tells nothing but what AnyClass does.                    *)
LEMMA Silent ==
  ASSUME UNCHANGED known, NEW a \in Local, inbox[a] # <<>>,
         Receive(a, Head(inbox[a]), <<>>)
  PROVE  Handles(a)
  BY NoneSent DEF Handles

(* One that tells what may be told already.                                *)
LEMMA Tells ==
  ASSUME UNCHANGED known, NEW a \in Local, inbox[a] # <<>>,
         NEW out, AllSent(out, known), Receive(a, Head(inbox[a]), out)
  PROVE  Handles(a)
  BY DEF Handles

(* One that answers a request.                                             *)
LEMMA Answers ==
  ASSUME Mail, UNCHANGED known, NEW a \in Local, inbox[a] # <<>>, NEW fields,
         Head(inbox[a]).cls \in Request, IsList(fields),
         Receive(a, Head(inbox[a]), <<Answer(a, Head(inbox[a]), fields)>>)
  PROVE  Handles(a)
<1>1. Local \subseteq known
  BY DEF Mail
<1>2. AllSent(<<Answer(a, Head(inbox[a]), fields)>>, known)
  BY <1>1, HeadSent, AnswerSent
<1> QED
  BY <1>2, Tells

(* Properties: every actor but echo answers.                               *)
LEMMA PropertiesHandles ==
  ASSUME Mail, NEW a \in Local, Properties(a)
  PROVE  Handles(a)
<1> DEFINE m == Head(inbox[a])
<1>1. inbox[a] # <<>> /\ m.cls \in Request /\ UNCHANGED known
  BY DEF Properties, Receives, Request
<1>2. CASE a = "echo"
  BY <1>1, <1>2, Silent DEF Properties
<1>3. CASE a # "echo"
  <2>1. a \in {"sender", "config", "system", "bridge"}
    BY <1>3 DEF Properties, Receivers, Local
  <2>2. IsList(PropertyFields(a))
    <3>1. \/ \E x : PropertyFields(a) = <<x>>
          \/ \E x, y : PropertyFields(a) = <<x, y>>
      <4>1. CASE a = "sender"
        BY <4>1 DEF PropertyFields
      <4>2. CASE a = "config"
        BY <4>2 DEF PropertyFields
      <4>3. CASE a = "system"
        BY <4>3 DEF PropertyFields
      <4>4. CASE a = "bridge"
        BY <4>4 DEF PropertyFields
      <4> QED
        BY <2>1, <4>1, <4>2, <4>3, <4>4
    <3> QED
      BY <3>1, OneList, TwoList
  <2> QED
    BY <1>1, <1>3, <2>2, Answers DEF Properties
<1> QED
  BY <1>2, <1>3

(* A ping is told to a reference.                                          *)
LEMMA PingSent ==
  ASSUME NEW to, NEW table, Local \subseteq table, to \in table
  PROVE  AllSent(<<Ping(to)>>, table)
<1> DEFINE m == Add(Msg("ping"), Field("counter", "UINT", counter'))
<1>1. IsMessage(m) /\ m.cls # "mqttPublishRcvd"
  BY MsgIs, AddIs
<1>2. "sender" \in Local
  BY DEF Local
<1> HIDE DEF m
<1>3. AllSent(<<Told(m, "sender", to)>>, table)
  BY <1>1, <1>2, NewSent
<1> QED
  BY <1>3 DEF Ping, m

(* Sender tells pings to references.                                       *)
LEMMA SenderHandles ==
  ASSUME Mail, SenderStep
  PROVE  Handles("sender")
<1>1. /\ "sender" \in Local /\ "echo" \in known /\ Local \subseteq known
      /\ inbox["sender"] # <<>> /\ known' = known
  BY DEF Mail, Local, SenderStep, StartTest, EndTest, Pong, Receives
<1> DEFINE m == Head(inbox["sender"])
<1>2. CASE StartTest
  <2>1. AllSent(<<Ping("echo")>>, known)
    BY <1>1, PingSent
  <2>2. Receive("sender", m, <<Ping("echo")>>)
    BY <1>2 DEF StartTest
  <2> HIDE DEF m
  <2> QED
    BY <1>1, <2>1, <2>2, Tells DEF m
<1>3. CASE EndTest
  BY <1>1, <1>3, Silent DEF EndTest
<1>4. CASE Pong
  <2>1. m.src \in known
    BY <1>1, HeadSent DEF IsSent
  <2>2. AllSent(<<Ping(m.src)>>, known)
    BY <1>1, <2>1, PingSent
  <2>3. \/ Receive("sender", m, <<Ping(m.src)>>)
        \/ Receive("sender", m, <<>>)
    BY <1>4 DEF Pong
  <2> HIDE DEF m
  <2> QED
    BY <1>1, <2>2, <2>3, Tells, Silent DEF m
<1> QED
  BY <1>2, <1>3, <1>4 DEF SenderStep

(* Echo answers a ping.                                                    *)
LEMMA EchoHandles ==
  ASSUME Mail, EchoPing
  PROVE  Handles("echo")
<1> DEFINE m == Head(inbox["echo"])
           n == Min({Get(m, "counter")[2] + 1, MaxCount})
<1>1. /\ "echo" \in Local /\ inbox["echo"] # <<>> /\ UNCHANGED known
      /\ m.cls \in Request
  BY DEF Local, EchoPing, Receives, Request
<1>2. Receive("echo", m, <<Answer("echo", m, <<Field("counter", "UINT", n)>>)>>)
  BY DEF EchoPing
<1>3. IsList(<<Field("counter", "UINT", n)>>)
  BY OneList
<1> HIDE DEF n
<1> QED
  BY <1>1, <1>2, <1>3, Answers

(* ConfigActor answers, or not.                                            *)
LEMMA ConfigHandles ==
  ASSUME Mail, Config
  PROVE  Handles("config")
<1> DEFINE m == Head(inbox["config"])
<1>1. /\ "config" \in Local /\ inbox["config"] # <<>> /\ UNCHANGED known
      /\ m.cls \in Request
  BY DEF Local, Config, Request
<1>2. \/ Receive("config", m, <<Answer("config", m, ConfigAnswer(m))>>)
      \/ Receive("config", m, <<>>)
  BY DEF Config
<1>3. IsList(ConfigAnswer(m))
  <2>1. m.cls \in {"get", "clear", "set"}
    BY DEF Config
  <2> QED
    BY <2>1, OneList DEF ConfigAnswer
<1> QED
  BY <1>1, <1>2, <1>3, Answers, Silent

(* The bridge tells mqtt, or itself, from itself.                          *)
LEMMA BridgeSent ==
  ASSUME NEW m, NEW to \in {"mqtt", "bridge"}, NEW table, Local \subseteq table,
         IsMessage(m), m.cls # "mqttPublishRcvd"
  PROVE  AllSent(<<Told(m, "bridge", to)>>, table)
<1>1. "bridge" \in Local /\ to \in table
  BY DEF Local
<1> QED
  BY <1>1, NewSent

(* subscribeEventBus tells mqtt.                                           *)
LEMMA SubscribeSent ==
  ASSUME NEW table, Local \subseteq table
  PROVE  AllSent(SubscribeRequests, table)
<1> DEFINE S == {s \in ToSet(Bus) : s.src \in known \ Local}
           remote == Filter(Bus, S)
           request(i) == Add(Msg("mqttSubscribe"),
              [tag |-> "topic",
               val |-> <<"topic", Topic("src", remote[i].src, remote[i].cls)>>])
<1>1. SubscribeRequests =
        [i \in DOMAIN remote |-> Told(request(i), "bridge", "mqtt")]
  BY DEF SubscribeRequests
<1>2. DOMAIN remote = 1..Len(remote) /\ Len(remote) \in Nat
  <2>1. Bus \in Seq({Bus[i] : i \in 1..5})
    BY DEF Bus
  <2>2. remote \in Seq({Bus[i] : i \in 1..5} \cap S)
    <3> HIDE DEF S
    <3> QED
      BY <2>1, FilterRange
  <2> HIDE DEF remote, S
  <2> QED
    BY <2>2
<1> HIDE DEF remote
<1>3. ASSUME NEW i \in DOMAIN remote
      PROVE  IsSent(Told(request(i), "bridge", "mqtt"), table)
  <2>1. "bridge" \in table /\ "mqtt" \in table
    BY DEF Local
  <2>2. IsMessage(request(i)) /\ request(i).cls = "mqttSubscribe"
    BY MsgIs, AddIs
  <2> HIDE DEF request
  <2> QED
    BY <2>1, <2>2 DEF IsSent, IsMessage, Told
<1> HIDE DEF request
<1>4. SubscribeRequests \in
        Seq({Told(request(i), "bridge", "mqtt") : i \in DOMAIN remote})
  BY <1>1, <1>2
<1>5. SubscribeRequests \in Seq(ToSet(SubscribeRequests))
  BY <1>4, OwnElements
<1> QED
  BY <1>1, <1>3, <1>5 DEF AllSent

(* Events of a message go to mqtt.                                         *)
LEMMA AnnounceHandles ==
  ASSUME Mail, NEW class, Announce(class)
  PROVE  Handles("bridge")
<1> DEFINE m == Head(inbox["bridge"])
           pub == msgToJsonEvents(m)
<1>1. /\ "bridge" \in Local /\ inbox["bridge"] # <<>> /\ UNCHANGED known
      /\ Receive("bridge", m, Events(m))
  BY DEF Announce, Local, Receives
<1>2. IsMessage(pub) /\ pub.cls = "mqttPublish"
  BY <1>1, HeadSent, EventsIs DEF IsSent
<1> HIDE DEF pub
<1>3. AllSent(<<Told(pub, "bridge", "mqtt")>>, known)
  BY <1>2, BridgeSent DEF Mail
<1>4. Events(m) = <<Told(pub, "bridge", "mqtt")>> \/ Events(m) = <<>>
  BY DEF Events, pub
<1>5. AllSent(Events(m), known)
  BY <1>3, <1>4, NoneSent
<1> QED
  BY <1>1, <1>5, Tells

(* pubTimer: one message to mqtt, two of the bridge to itself.             *)
LEMMA PubTimerHandles ==
  ASSUME Mail, PubTimer
  PROVE  Handles("bridge")
<1> DEFINE alive == PublishPairs(<<Alive>>)
           simple == Add(Msg("publish"), Field("simple", "INT", 1123))
           complex == Add(Msg("publish"), Field("complex", "OBJECT", Complex))
           one == IF mqttConnected THEN <<Told(alive, "bridge", "mqtt")>> ELSE <<>>
           two == <<Told(simple, "bridge", "bridge"),
                    Told(complex, "bridge", "bridge")>>
<1>1. /\ "bridge" \in Local /\ inbox["bridge"] # <<>> /\ UNCHANGED known
      /\ Receive("bridge", Head(inbox["bridge"]), one \o two)
  BY DEF PubTimer, Local, Receives
<1>2. /\ IsMessage(alive) /\ alive.cls # "mqttPublishRcvd"
      /\ IsMessage(simple) /\ simple.cls # "mqttPublishRcvd"
      /\ IsMessage(complex) /\ complex.cls # "mqttPublishRcvd"
  <2>1. Len(<<Alive>>) = 1
    OBVIOUS
  <2> QED
    BY <2>1, PairsIs, MsgIs, AddIs
<1> HIDE DEF alive, simple, complex
<1>3. AllSent(one, known)
  BY <1>2, BridgeSent, NoneSent DEF Mail
<1>4. AllSent(two, known)
  <2>1. AllSent(<<Told(simple, "bridge", "bridge")>>, known)
    BY <1>2, BridgeSent DEF Mail
  <2>2. AllSent(<<Told(complex, "bridge", "bridge")>>, known)
    BY <1>2, BridgeSent DEF Mail
  <2>3. two = <<Told(simple, "bridge", "bridge")>>
              \o <<Told(complex, "bridge", "bridge")>>
    OBVIOUS
  <2> QED
    BY <2>1, <2>2, <2>3, ConcatSent
<1>5. AllSent(one \o two, known)
  BY <1>3, <1>4, ConcatSent
<1> HIDE DEF one, two
<1> QED
  BY <1>1, <1>5, Tells

(* pollTimer: the actor under the cursor is asked.                         *)
LEMMA PollTimerHandles ==
  ASSUME Mail, Ring, PollTimer
  PROVE  Handles("bridge")
<1> DEFINE m == Head(inbox["bridge"])
           poll == Told(Msg("Properties"), "bridge", nextRef)
<1>1. /\ "bridge" \in Local /\ inbox["bridge"] # <<>> /\ UNCHANGED known
      /\ Receive("bridge", m, <<poll>>) \/ Receive("bridge", m, <<>>)
  BY DEF PollTimer, Local, Receives
<1>2. IsMessage(Msg("Properties")) /\ Msg("Properties").cls # "mqttPublishRcvd"
  BY MsgIs
<1>3. AllSent(<<poll>>, known)
  BY <1>1, <1>2, NextRef, NewSent DEF Mail
<1> HIDE DEF poll, m
<1> QED
  BY <1>1, <1>3, Tells, Silent DEF m

(* What came for the bridge is a topic and a payload of a command.         *)
LEMMA ArrivalRead ==
  ASSUME Mail, Receives("bridge", "mqttPublishRcvd")
  PROVE  \E c \in Commands :
           /\ Get(Head(inbox["bridge"]), "topic")[2] = c.topic
           /\ Get(Head(inbox["bridge"]), "message")[2] = c.payload
<1> DEFINE m == Head(inbox["bridge"])
<1>1. PICK c \in Commands : m.fields = Arrival(c)
  BY HeadSent DEF IsSent, Receives, Local
<1> HIDE DEF m
<1>2. Get(m, "topic") = m.fields[1].val
  <2>1. {i \in 1..Len(m.fields) : m.fields[i].tag = "topic"} = {1}
    BY <1>1 DEF Arrival
  <2>2. Min({1}) = 1
    BY DEF Min
  <2>3. SelectInSeq(m.fields, LAMBDA f : f.tag = "topic") = 1
    BY <2>1, <2>2 DEF SelectInSeq
  <2> QED
    BY <2>3 DEF Get
<1>3. Get(m, "message") = m.fields[2].val
  <2>1. {i \in 1..Len(m.fields) : m.fields[i].tag = "message"} = {2}
    BY <1>1 DEF Arrival
  <2>2. Min({2}) = 2
    BY DEF Min
  <2>3. SelectInSeq(m.fields, LAMBDA f : f.tag = "message") = 2
    BY <2>1, <2>2 DEF SelectInSeq
  <2> QED
    BY <2>3 DEF Get
<1>4. m.fields[1].val[2] = c.topic /\ m.fields[2].val[2] = c.payload
  BY <1>1 DEF Arrival
<1> QED
  BY <1>2, <1>3, <1>4 DEF m

(* What comes in is sent on to an actor, or published.                     *)
LEMMA RouteSent ==
  ASSUME Mail, NEW c \in Commands, NEW x,
         x = Incoming(c.topic, c.payload, known)
  PROVE  /\ known \subseteq x.known
         /\ AllSent(Route(x), x.known)
<1>1. /\ known \cup {NoSender} \subseteq x.known
      /\ IsMessage(x.msg)
      /\ x.msg.src \in x.known
      /\ x.msg.dst \in known \cup {NoSender}
      /\ x.ok => Len(c.topic) >= 3 /\ x.msg.cls = c.topic[3]
  BY NodeAssumption, IncomingSound
<1>2. Local \subseteq x.known
  BY <1>1 DEF Mail
<1>3. CASE ~x.ok
  BY <1>1, <1>3, NoneSent DEF Route
<1>4. CASE x.ok
  <2>1. x.msg.cls # "mqttPublishRcvd"
    <3>1. Len(c.topic) \in Nat
      BY NodeAssumption
    <3> QED
      BY <1>1, <1>4, <3>1, NodeAssumption
  <2>2. IsSent(x.msg, x.known)
    BY <1>1, <2>1 DEF IsSent
  <2>3. AllSent(Publish(Bus, x.msg), x.known)
    BY <1>1, <1>2, <2>1, PublishSent
  <2> QED
    BY <1>1, <2>2, <2>3, OneSent, NoneSent DEF Route
<1> QED
  BY <1>3, <1>4

(* mqttPublishRcvd: references may be new, and the message may be theirs.  *)
LEMMA PublishRcvdHandles ==
  ASSUME Mail, PublishRcvd
  PROVE  Handles("bridge")
<1> DEFINE m == Head(inbox["bridge"])
           x == Incoming(Get(m, "topic")[2], Get(m, "message")[2], known)
<1>1. /\ "bridge" \in Local /\ inbox["bridge"] # <<>>
      /\ Receives("bridge", "mqttPublishRcvd")
      /\ known' = x.known /\ Receive("bridge", m, Route(x))
  BY DEF PublishRcvd, Local, Receives
<1>2. PICK c \in Commands : x = Incoming(c.topic, c.payload, known)
  BY <1>1, ArrivalRead
<1> HIDE DEF x, m
<1>3. known \subseteq known' /\ AllSent(Route(x), known')
  BY <1>1, <1>2, RouteSent
<1> QED
  BY <1>1, <1>3 DEF Handles, m

(* The events of the client and the messages of timers.                    *)
LEMMA EventMail ==
  ASSUME Mail, UNCHANGED known, NEW class, NEW fields, Event(class, fields),
         IsList(fields),
         class = "mqttPublishRcvd" => \E c \in Commands : fields = Arrival(c)
  PROVE  Mail'
<1> DEFINE m == [Msg(class) EXCEPT !.src = "mqtt", !.fields = fields]
<1>1. IsMessage(m) /\ m.src = "mqtt" /\ m.cls = class /\ m.fields = fields
  BY MsgIs DEF IsMessage
<1>2. inbox' = Deliver(inbox, Publish(Bus, m))
  BY DEF Event
<1> HIDE DEF m
<1>3. AllSent(Publish(Bus, m), known)
  <2>1. "mqtt" \in known /\ Local \subseteq known
    BY DEF Mail, Local
  <2> QED
    BY <1>1, <2>1, PublishSent
<1>4. \A b \in Local : inbox[b] \in Seq(ToSet(inbox[b]))
  BY DEF Mail, AllSent
<1> QED
  BY <1>2, <1>3, <1>4, DeliverMail

(* A timer tells its actor.                                                *)
LEMMA FiresMail ==
  ASSUME Mail, UNCHANGED known, NEW a \in Local, NEW class,
         class # "mqttPublishRcvd", Fires(a, class)
  PROVE  Mail'
<1>1. IsMessage(Msg(class)) /\ Msg(class).cls = class
  BY MsgIs
<1>2. AllSent(<<Told(Msg(class), a, a)>>, known)
  <2>1. Local \subseteq known /\ a \in known
    BY DEF Mail
  <2> QED
    BY <1>1, <2>1, NewSent
<1>3. inbox' = Deliver(inbox, <<Told(Msg(class), a, a)>>)
  BY DEF Fires
<1>4. \A b \in Local : inbox[b] \in Seq(ToSet(inbox[b]))
  BY DEF Mail, AllSent
<1> QED
  BY <1>2, <1>3, <1>4, DeliverMail

(* The callbacks of the client publish events.                             *)
LEMMA ClientMail ==
  ASSUME Mail, onConnect \/ onConnectionLost \/ onMessageArrived
  PROVE  Mail'
<1>1. CASE onConnect
  BY <1>1, NoList, EventMail DEF onConnect
<1>2. CASE onConnectionLost
  BY <1>2, NoList, EventMail DEF onConnectionLost
<1>3. CASE onMessageArrived
  <2>1. PICK c \in Commands : Event("mqttPublishRcvd", Arrival(c))
    BY <1>3 DEF onMessageArrived, Arrival
  <2>2. UNCHANGED known
    BY <1>3 DEF onMessageArrived
  <2>3. IsList(Arrival(c))
    BY TwoList DEF Arrival
  <2> QED
    BY <2>1, <2>2, <2>3, EventMail
<1> QED
  BY <1>1, <1>2, <1>3

(* The timers of the bridge and of sender.                                 *)
LEMMA TimerMail ==
  ASSUME Mail,
         \/ \E class \in {"pollTimer", "pubTimer"} : BridgeTimer(class)
         \/ StartTimer \/ EndTimer
  PROVE  Mail'
<1>1. "sender" \in Local /\ "bridge" \in Local
  BY DEF Local
<1>2. ASSUME NEW class \in {"pollTimer", "pubTimer"}, BridgeTimer(class)
      PROVE  Mail'
  BY <1>1, <1>2, FiresMail DEF BridgeTimer
<1>3. CASE StartTimer
  BY <1>1, <1>3, FiresMail DEF StartTimer
<1>4. CASE EndTimer
  BY <1>1, <1>4, FiresMail DEF EndTimer
<1> QED
  BY <1>2, <1>3, <1>4

(* Whatever receiver runs, the mailboxes stay in order.                    *)
LEMMA ActorHandles ==
  ASSUME Mail, Ring, NEW a \in Local, ActorStep(a)
  PROVE  Handles(a)
<1>1. CASE Unhandled(a)
  BY <1>1, Silent DEF Unhandled
<1>2. CASE Properties(a)
  BY <1>2, PropertiesHandles
<1>3. CASE a = "sender" /\ SenderStep
  BY <1>3, SenderHandles
<1>4. CASE a = "echo" /\ EchoPing
  BY <1>4, EchoHandles
<1>5. CASE a = "config" /\ Config
  BY <1>5, ConfigHandles
<1>6. CASE a = "system" /\ SystemHears
  BY <1>6, Silent DEF SystemHears, Receives
<1>7. CASE a = "bridge" /\ BridgeStep
  <2>1. "bridge" \in Local /\ Local \subseteq known
    BY DEF Local, Mail
  <2>2. CASE BridgeConnected
    <3>1. AllSent(SubscribeRequests, known)
      BY <2>1, SubscribeSent
    <3> QED
      BY <1>7, <2>1, <2>2, <3>1, Tells DEF BridgeConnected, Receives
  <2>3. CASE BridgeDisconnected
    BY <1>7, <2>1, <2>3, Silent DEF BridgeDisconnected, Receives
  <2>4. CASE PublishRcvd
    BY <1>7, <2>4, PublishRcvdHandles
  <2>5. CASE PubTimer
    BY <1>7, <2>5, PubTimerHandles
  <2>6. CASE PropertiesReply \/ Publishes
    BY <1>7, <2>6, AnnounceHandles DEF PropertiesReply, Publishes
  <2>7. CASE PollTimer
    BY <1>7, <2>7, PollTimerHandles
  <2> QED
    BY <1>7, <2>2, <2>3, <2>4, <2>5, <2>6, <2>7 DEF BridgeStep
<1>8. CASE a = "mqtt" /\ MqttPublish
  BY <1>8, Silent DEF MqttPublish, Receives
<1> QED
  BY <1>1, <1>2, <1>3, <1>4, <1>5, <1>6, <1>7, <1>8 DEF ActorStep

(* Mail is inductive.                                                      *)
LEMMA MailNext == Mail /\ Ring /\ [Next]_vars => Mail'
<1> SUFFICES ASSUME Mail, Ring, [Next]_vars
             PROVE  Mail'
  OBVIOUS
<1>1. CASE \E a \in Local : ActorStep(a)
  BY <1>1, ActorHandles, HandlesMail
<1>2. CASE EmplaceBridge
  <2>1. UNCHANGED <<inbox, known>>
    BY <1>2 DEF EmplaceBridge
  <2> QED
    BY <2>1 DEF Mail, AllSent, Mailbox
<1>3. CASE onConnect \/ onConnectionLost \/ onMessageArrived
  BY <1>3, ClientMail
<1>4. CASE \/ \E class \in {"pollTimer", "pubTimer"} : BridgeTimer(class)
           \/ StartTimer \/ EndTimer
  BY <1>4, TimerMail
<1>5. CASE UNCHANGED vars
  <2>1. UNCHANGED <<inbox, known>>
    BY <1>5 DEF vars
  <2> QED
    BY <2>1 DEF Mail, AllSent, Mailbox
<1> QED
  BY <1>1, <1>2, <1>3, <1>4, <1>5 DEF Next

-----------------------------------------------------------------------------
(* Bridge.cpp:115-143 and 89-99, ActorCell::sender(): whatever commands a  *)
(* peer sends, messages in mailboxes were told by known senders to the     *)
(* actors in whose mailboxes they are.                                     *)
THEOREM NodeMail == Spec => [](Mail /\ Ring)
<1>1. Init => Mail /\ Ring
  BY MailInit, RingInit
<1>2. Mail /\ Ring /\ [Next]_vars => (Mail /\ Ring)'
  BY MailNext, RingNext
<1> QED
  BY <1>1, <1>2, PTL DEF Spec

(* sender() finds a reference for every message of every mailbox.          *)
THEOREM NodeSenderKnown == Spec => []SenderKnown
<1>1. Mail => SenderKnown
  BY DEF Mail, AllSent, IsSent, SenderKnown
<1> QED
  BY <1>1, NodeMail, PTL

(* A message is in the mailbox of the actor it is for, or in the bridge's  *)
(* if that actor is a remote one.                                          *)
THEOREM NodeAddressed == Spec => []Addressed
<1>1. Mail => Addressed
  BY DEF Mail, AllSent, IsSent, Mailbox, Addressed, Local, NoSender
<1> QED
  BY <1>1, NodeMail, PTL

-----------------------------------------------------------------------------
(* Commands that go out                                                    *)

(* What a command of the bridge becomes is the first message it tells.     *)
Command(m) == Told(PublishPairs(<<msgToJsonCmd(m)>>), "bridge", "mqtt")

(* mqtt gets it before anything else that the handler tells.               *)
LEMMA CommandFirst ==
  ASSUME Mail, Handles("bridge"), Goes(Head(inbox["bridge"]))
  PROVE  Published # <<>> /\ Head(Published) = Command(Head(inbox["bridge"]))
<1> DEFINE m == Head(inbox["bridge"])
           pub == Command(m)
<1>1. PICK out : AllSent(out, known') /\ Receive("bridge", m, out)
  BY DEF Handles
<1> DEFINE ms == <<pub>> \o out
           S == {e \in ToSet(ms) : Mailbox(e.dst) = "mqtt"}
           F == Filter(ms, S)
           T == {pub} \cup ToSet(out)
<1>2. inbox'["mqtt"] = inbox["mqtt"] \o F
  <2>1. inbox' = Deliver([inbox EXCEPT !["bridge"] = Tail(@)], ms)
    BY <1>1 DEF Receive, Forwarded, Goes, Command
  <2>2. "mqtt" \in Local /\ "mqtt" # "bridge" /\ DOMAIN inbox = Local
    BY DEF Local, Mail
  <2> HIDE DEF ms
  <2> QED
    BY <2>1, <2>2 DEF Deliver
<1>3. ms \in Seq(T) /\ ms # <<>> /\ ms[1] = pub
  <2>1. out \in Seq(T)
    BY <1>1, SeqMonotonic DEF AllSent
  <2>2. <<pub>> \in Seq(T) /\ Len(<<pub>>) = 1 /\ <<pub>>[1] = pub
    OBVIOUS
  <2> HIDE DEF pub, T
  <2> QED
    BY <2>1, <2>2, ConcatProperties
<1>4. pub \in S
  <2>1. pub.dst = "mqtt" /\ Mailbox("mqtt") = "mqtt"
    BY DEF Command, Told, PublishPairs, Msg, Mailbox, Local
  <2>2. pub \in ToSet(ms)
    <3> HIDE DEF ms, pub
    <3> QED
      BY <1>3 DEF ToSet
  <2> HIDE DEF ms, pub
  <2> QED
    BY <2>1, <2>2
<1> HIDE DEF ms, pub, T
<1>5. F \in Seq(T \cap S) /\ Len(F) > 0 /\ F[1] = pub
  <2> HIDE DEF S
  <2> QED
    BY <1>3, <1>4, FilterRange, FilterFirst
<1> HIDE DEF F, S
<1> DEFINE box == inbox["mqtt"]
<1>6. box \in Seq(ToSet(box))
  BY DEF Mail, AllSent, Local
<1> DEFINE V == ToSet(box) \cup (T \cap S)
<1>7. box \in Seq(V) /\ F \in Seq(V)
  <2> HIDE DEF box
  <2> QED
    BY <1>5, <1>6, SeqMonotonic
<1> HIDE DEF V
<1>8. Published = SubSeq(box \o F, Len(box) + 1, Len(box \o F))
  BY <1>2 DEF Published
<1> HIDE DEF box
<1>9. /\ box \o F \in Seq(V) /\ Len(box \o F) = Len(box) + Len(F)
      /\ Len(box) \in Nat /\ Len(F) \in Nat
  BY <1>7, ConcatProperties
<1>10. (box \o F)[Len(box) + 1] = F[1]
  <2>1. Len(box) + 1 \in 1..(Len(box) + Len(F)) /\ ~(Len(box) + 1 <= Len(box))
        /\ Len(box) + 1 - Len(box) = 1
    BY <1>5, <1>9
  <2> QED
    BY <1>7, <2>1, ConcatProperties
<1>11. Len(Published) = Len(F) /\ Published[1] = F[1] /\ Published \in Seq(V)
  BY <1>5, <1>8, <1>9, <1>10
<1> QED
  BY <1>5, <1>11 DEF pub

(* The topic and the payload mqtt finds in it.                             *)
LEMMA CommandPair ==
  ASSUME NEW m
  PROVE  /\ Pairs(Command(m))[1].topic = msgToJsonCmd(m).topic
         /\ Pairs(Command(m))[1].payload = msgToJsonCmd(m).payload
<1> DEFINE c == msgToJsonCmd(m)
           fields == Command(m).fields
<1> HIDE DEF c
<1>1. Len(<<c>>) = 1 /\ <<c>>[1] = c
  OBVIOUS
<1>2. fields = [i \in 1..(2 * Len(<<c>>)) |->
                  LET p == <<c>>[(i + 1) \div 2] IN
                  IF i % 2 = 1 THEN [tag |-> "topic", val |-> <<"topic", p.topic>>]
                               ELSE [tag |-> "message", val |-> <<"json", p.payload>>]]
  BY DEF Command, Told, PublishPairs, Msg, c
<1>3. /\ fields[1] = [tag |-> "topic", val |-> <<"topic", c.topic>>]
      /\ fields[2] = [tag |-> "message", val |-> <<"json", c.payload>>]
      /\ Len(fields) = 2
  <2> DEFINE g == [i \in 1..2 |->
                  IF i = 1 THEN [tag |-> "topic", val |-> <<"topic", c.topic>>]
                           ELSE [tag |-> "message", val |-> <<"json", c.payload>>]]
  <2>1. 2 * Len(<<c>>) = 2 /\ (1 + 1) \div 2 = 1 /\ (2 + 1) \div 2 = 1
        /\ 1 % 2 = 1 /\ 2 % 2 = 0
    BY <1>1
  <2>2. fields = g
    BY <1>1, <1>2, <2>1
  <2> HIDE DEF fields
  <2>3. Len(g) = 2
    OBVIOUS
  <2> QED
    BY <2>2, <2>3
<1>4. Pairs(Command(m))[1] =
        [topic |-> fields[1].val[2], payload |-> fields[2].val[2]]
  <2>1. Len(fields) \div 2 = 1
    BY <1>3
  <2> HIDE DEF fields
  <2>2. Pairs(Command(m)) = [i \in 1..(Len(fields) \div 2) |->
          [topic |-> fields[2*i - 1].val[2], payload |-> fields[2*i].val[2]]]
    BY DEF Pairs, fields
  <2> QED
    BY <2>1, <2>2
<1> HIDE DEF fields
<1>5. Pairs(Command(m))[1] = [topic |-> c.topic, payload |-> c.payload]
  BY <1>3, <1>4
<1> QED
  BY <1>5 DEF c

(* Bridge.cpp:19-31: a message for a remote actor is handed to mqtt at     *)
(* once, whichever receivers of the bridge match it, under a topic from    *)
(* which the bridge of a peer that knows the actor finds for whom it is    *)
(* and of which class, whatever it holds.                                  *)
THEOREM NodeCommandsGo == Spec => CommandsGo
<1>1. ASSUME Mail, Ring, ActorStep("bridge"), Goes(Head(inbox["bridge"]))
      PROVE  LET m == Head(inbox["bridge"]) IN
             /\ Published # <<>>
             /\ AtPeer(m).ok
             /\ AtPeer(m).msg.dst = m.dst /\ AtPeer(m).msg.cls = m.cls
  <2> DEFINE m == Head(inbox["bridge"])
             c == msgToJsonCmd(m)
  <2>1. Handles("bridge") /\ "bridge" \in Local
    BY <1>1, ActorHandles DEF Local
  <2>2. Published # <<>> /\ Head(Published) = Command(m)
    BY <1>1, <2>1, CommandFirst
  <2>3. IsMessage(m) /\ m.dst # NoSender
    <3>1. IsSent(m, known) /\ Mailbox(m.dst) = "bridge"
      BY <1>1, <2>1, HeadSent DEF Handles
    <3>2. Mailbox(NoSender) = NoSender /\ NoSender # "bridge"
      BY DEF Mailbox, NoSender
    <3> QED
      BY <3>1, <3>2 DEF IsSent
  <2> HIDE DEF m
  <2>4. c.topic = Topic("dst", m.dst, m.cls) /\ c.payload = <<"object", <<>>>>
    BY <2>3, CommandIsEmpty
  <2> HIDE DEF c
  <2>5. AtPeer(m) = Incoming(c.topic, c.payload, {m.dst})
    BY <2>2, CommandPair DEF AtPeer, c
  <2> QED
    BY <2>2, <2>3, <2>4, <2>5, EmptyRead DEF m
<1> QED
  BY <1>1, NodeMail, PTL DEF Spec, CommandsGo
=============================================================================
