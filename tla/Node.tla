-------------------------------- MODULE Node --------------------------------
(***************************************************************************)
(* The actors that main() creates, at work: each with its mailbox and its  *)
(* Receive, the references they answer to, the event bus, and a peer that  *)
(* sends commands through the broker.                                      *)
(*                                                                         *)
(* A handler is one step: it touches the state of its own actor, the table *)
(* of references and mailboxes, and Dispatcher shows that an actor handles *)
(* the messages of its mailbox one at a time, in order.  The mailboxes are *)
(* those of Linux, without a limit.  The connection is in Gateway: here it *)
(* comes and goes, and is announced.                                       *)
(***************************************************************************)
EXTENDS Conversion, FiniteSets

CONSTANTS
  Commands,     (* the [topic, payload] a peer may send                    *)
  Order,        (* the references of the system when the bridge starts, in *)
                (* the order of the unordered_map                          *)
  Places,       (* bound: where in that order the bridge may come          *)
  MaxInFlight,  (* bound: the timers and the peer wait while this many     *)
                (* messages are in mailboxes, apart from the ball and a    *)
                (* change of the connection                                *)
  MaxCount      (* bound: the counter of the benchmark stops here          *)

Local == {"sender", "echo", "config", "mqtt", "system", "bridge"}

ASSUME NodeAssumption ==
  /\ \A c \in Commands :
       /\ c.topic \in Seq(STRING)
       /\ Len(c.topic) > 2 => c.topic[3] # "mqttPublishRcvd"
       /\ IsPayload(c.payload)
  /\ Order \in Seq(Local) /\ IsInjective(Order)
  /\ ToSet(Order) = Local \ {"bridge"}
  /\ Places \subseteq 1..Len(Order) /\ Places # {}
  /\ MaxInFlight \in Nat \ {0}
  /\ MaxCount \in Nat

VARIABLES
  inbox,         (* the messages in the mailbox of each actor              *)
  known,         (* ActorRef::_actorRefs, by the names in it               *)
  refs,          (* ActorSystem::_actorRefs, in its order                  *)
  cursor,        (* Bridge::_currentActorRef: a reference, or "end"        *)
  looping,       (* does the bridge's handler convert fields for ever?     *)
  mqttConnected, (* Bridge::_mqttConnected                                 *)
  connected,     (* is the client connected?                               *)
  testing,       (* Sender::_testing                                       *)
  counter,       (* Sender::_counter                                       *)
  endTimer       (* has the timer END_TEST yet to fire?                    *)

bridgeVars == <<refs, cursor, looping>>
senderVars == <<testing, counter, endTimer>>
vars == <<inbox, known, bridgeVars, mqttConnected, connected, senderVars>>

(* What the actors subscribe to in preStart, in the order of main().       *)
Bus ==
  [i \in 1..5 |->
     [subscriber |-> IF i < 3 THEN "system" ELSE "bridge",
      src        |-> "mqtt",
      cls        |-> <<"mqttConnected", "mqttDisconnected", "mqttConnected",
                       "mqttDisconnected", "mqttPublishRcvd">>[i]]]

(* The classes each Receive matches.                                       *)
Receivers ==
  [sender |-> {"pingReply", "StartTest", "EndTest", "Properties"},
   echo   |-> {"ping", "Properties"},
   config |-> {"get", "clear", "set", "Properties"},
   mqtt   |-> {"pubTimer", "mqttPublish"},
   system |-> {"mqttConnected", "mqttDisconnected", "exit", "Properties"},
   bridge |-> {"mqttConnected", "mqttDisconnected", "mqttPublishRcvd",
               "pubTimer", "PropertiesReply", "pollTimer", "publish",
               "Properties"}]

Init ==
  /\ inbox = [a \in Local |-> <<>>]
  /\ known = Local
  /\ refs = Order
  /\ cursor = Order[1]
  /\ looping = FALSE
  /\ mqttConnected = FALSE
  /\ connected \in BOOLEAN
  /\ testing = FALSE
  /\ counter = 0
  /\ endTimer = FALSE

-----------------------------------------------------------------------------
(* Sending and receiving                                                   *)

(* Mutant: remote references tell mqtt.                                    *)
MailboxMqtt(ref) == IF ref \in Local \cup {NoSender} THEN ref ELSE "mqtt"

(* tell: a message for a remote reference goes into the bridge's mailbox   *)
(* as it is, one for NoSender nowhere.                                     *)
Mailbox(ref) == IF ref \in Local \cup {NoSender} THEN ref ELSE "bridge"

Deliver(boxes, ms) ==
  [a \in Local |-> boxes[a] \o Filter(ms, {m \in ToSet(ms) : Mailbox(m.dst) = a})]

(* Mutant: nothing goes out unless the bridge is connected.                *)
ForwardedConnected(m) ==
  IF m.dst = "bridge" \/ ~mqttConnected THEN <<>>
  ELSE <<Told(PublishPairs(<<msgToJsonCmd(m)>>), "bridge", "mqtt")>>

(* The bridge's receiver for AnyClass: a message that is for somebody else *)
(* goes out as a command.                                                  *)
Forwarded(m) ==
  IF m.dst = "bridge" THEN <<>>
  ELSE <<Told(PublishPairs(<<msgToJsonCmd(m)>>), "bridge", "mqtt")>>

(* Receive::receive: actor a has message m, and every receiver that        *)
(* matches it runs; those of its class tell the messages in out.  The      *)
(* handler before has returned.                                            *)
Receive(a, m, out) ==
  LET any == IF a = "bridge" THEN Forwarded(m) ELSE <<>> IN
  /\ a = "bridge" => ~looping
  /\ inbox' = Deliver([inbox EXCEPT ![a] = Tail(@)], any \o out)

Receives(a, class) == inbox[a] # <<>> /\ Head(inbox[a]).cls = class

(* replyBuilder(m) with more fields, told to the sender of m.              *)
Answer(a, m, fields) ==
  Told([Reply(m) EXCEPT !.fields = @ \o fields], a, m.src)

(* No receiver, or that for AnyClass only.                                 *)
Unhandled(a) ==
  /\ inbox[a] # <<>>
  /\ Head(inbox[a]).cls \notin Receivers[a]
  /\ Receive(a, Head(inbox[a]), <<>>)
  /\ UNCHANGED <<known, bridgeVars, mqttConnected, connected, senderVars>>

(* The properties that an actor answers with; echo, which has a receiver   *)
(* that does nothing, does not answer.                                     *)
PropertyFields(a) ==
  CASE a = "sender" -> <<Field("counter", "UINT", counter)>>
    [] a = "config" -> <<Field("config", "BYTES", "loaded")>>
    [] a = "system" -> <<Field("cpu", "BYTES", "x86_64"),
                         Field("upTime", "UINT", 1000)>>
    [] a = "bridge" -> <<Field("txd", "UINT", 0), Field("rxd", "UINT", 0)>>

Properties(a) ==
  LET m == Head(inbox[a]) IN
  /\ Receives(a, "Properties")
  /\ "Properties" \in Receivers[a]
  /\ Receive(a, m, IF a = "echo" THEN <<>>
                   ELSE <<Answer(a, m, PropertyFields(a))>>)
  /\ UNCHANGED <<known, bridgeVars, mqttConnected, connected, senderVars>>

-----------------------------------------------------------------------------
(* Sender and Echo: the benchmark                                          *)

Ping(to) == Told(Add(Msg("ping"), Field("counter", "UINT", counter')),
                 "sender", to)

IsBall(m) == {m.src, m.dst} = {"sender", "echo"}
BallsAt(a) == {i \in DOMAIN inbox[a] : IsBall(inbox[a][i])}
Balls == Cardinality(BallsAt("sender")) + Cardinality(BallsAt("echo"))

StartTest ==
  /\ Receives("sender", "StartTest")
  /\ counter' = 0
  /\ testing' = TRUE
  /\ endTimer' = TRUE
  /\ Receive("sender", Head(inbox["sender"]), <<Ping("echo")>>)
  /\ UNCHANGED <<known, bridgeVars, mqttConnected, connected>>

EndTest ==
  /\ Receives("sender", "EndTest")
  /\ testing' = FALSE
  /\ Receive("sender", Head(inbox["sender"]), <<>>)
  /\ UNCHANGED <<known, bridgeVars, mqttConnected, connected, counter, endTimer>>

Pong ==
  LET m == Head(inbox["sender"]) IN
  /\ Receives("sender", "pingReply")
  /\ counter' = IF testing THEN Get(m, "counter")[2] ELSE counter
  /\ Receive("sender", m, IF testing THEN <<Ping(m.src)>> ELSE <<>>)
  /\ UNCHANGED <<known, bridgeVars, mqttConnected, connected, testing, endTimer>>

EchoPing ==
  LET m == Head(inbox["echo"])
      n == Min({Get(m, "counter")[2] + 1, MaxCount}) IN
  /\ Receives("echo", "ping")
  /\ Receive("echo", m, <<Answer("echo", m, <<Field("counter", "UINT", n)>>)>>)
  /\ UNCHANGED <<known, bridgeVars, mqttConnected, connected, senderVars>>

-----------------------------------------------------------------------------
(* ConfigActor and System                                                  *)

(* set answers unless the value is there and is no string.                 *)
ConfigAnswer(m) ==
  CASE m.cls = "get" -> <<Field("config", "BYTES", "{..}")>>
    [] m.cls = "clear" -> <<Field("erc", "INT", 0)>>
    [] m.cls = "set" ->
         <<Field("erc", "INT",
             IF GetsString(m, "namespace") /\ GetsString(m, "key")
             THEN 0 ELSE 22)>>

Config ==
  LET m == Head(inbox["config"])
      silent == /\ m.cls = "set"
                /\ GetsString(m, "namespace") /\ GetsString(m, "key")
                /\ ~GetsString(m, "value")
  IN  /\ inbox["config"] # <<>>
      /\ m.cls \in {"get", "clear", "set"}
      /\ Receive("config", m, IF silent THEN <<>>
                              ELSE <<Answer("config", m, ConfigAnswer(m))>>)
      /\ UNCHANGED <<known, bridgeVars, mqttConnected, connected, senderVars>>

(* The receivers of System for the connection write to the log.            *)
SystemHears ==
  /\ Receives("system", "mqttConnected") \/ Receives("system", "mqttDisconnected")
  /\ Receive("system", Head(inbox["system"]), <<>>)
  /\ UNCHANGED <<known, bridgeVars, mqttConnected, connected, senderVars>>

-----------------------------------------------------------------------------
(* Bridge                                                                  *)

(* subscribeEventBus asks mqtt for the events of remote references.        *)
SubscribeRequests ==
  LET remote == Filter(Bus, {s \in ToSet(Bus) : s.src \in known \ Local}) IN
  [i \in DOMAIN remote |->
     Told(Add(Msg("mqttSubscribe"),
              [tag |-> "topic",
               val |-> <<"topic", Topic("src", remote[i].src, remote[i].cls)>>]),
          "bridge", "mqtt")]

BridgeConnected ==
  /\ Receives("bridge", "mqttConnected")
  /\ mqttConnected' = TRUE
  /\ Receive("bridge", Head(inbox["bridge"]), SubscribeRequests)
  /\ UNCHANGED <<known, bridgeVars, connected, senderVars>>

BridgeDisconnected ==
  /\ Receives("bridge", "mqttDisconnected")
  /\ mqttConnected' = FALSE
  /\ Receive("bridge", Head(inbox["bridge"]), <<>>)
  /\ UNCHANGED <<known, bridgeVars, connected, senderVars>>

(* What the peer sent becomes a message to an actor, or an event.          *)
Route(x) ==
  IF ~x.ok THEN <<>>
  ELSE IF x.msg.dst # NoSender THEN <<x.msg>>
  ELSE IF x.msg.src # NoSender THEN Publish(Bus, x.msg)
  ELSE <<>>

PublishRcvd ==
  LET m == Head(inbox["bridge"])
      x == Incoming(Get(m, "topic")[2], Get(m, "message")[2], known) IN
  /\ Receives("bridge", "mqttPublishRcvd")
  /\ known' = x.known
  /\ Receive("bridge", m, Route(x))
  /\ UNCHANGED <<bridgeVars, mqttConnected, connected, senderVars>>

(* The events that are published of a message if the bridge is connected;  *)
(* none if it never comes to an end with them.                             *)
Loops(m)  == mqttConnected /\ GoesBack(Data(m))
Events(m) ==
  IF mqttConnected /\ ~Loops(m)
  THEN <<Told(msgToJsonEvents(m), "bridge", "mqtt")>> ELSE <<>>

Announce(class) ==
  LET m == Head(inbox["bridge"]) IN
  /\ Receives("bridge", class)
  /\ Receive("bridge", m, Events(m))
  /\ looping' = Loops(m)
  /\ UNCHANGED <<known, refs, cursor, mqttConnected, connected, senderVars>>

Publishes          == Announce("publish")
PropertiesReply    == Announce("PropertiesReply")

(* system/alive, and two messages of the bridge to itself.                 *)
Alive == [topic |-> Topic("src", "system", "alive"), payload |-> <<"bool", TRUE>>]
Complex == <<Field("a", "INT", 1), Field("b", "BOOL", TRUE),
             Field("c", "BYTES", "a string"), Field("e", "FLOAT", "3.14")>>

PubTimer ==
  LET self(field) == Told(Add(Msg("publish"), field), "bridge", "bridge")
      alive == Told(PublishPairs(<<Alive>>), "bridge", "mqtt") IN
  /\ Receives("bridge", "pubTimer")
  /\ Receive("bridge", Head(inbox["bridge"]),
             (IF mqttConnected THEN <<alive>> ELSE <<>>)
             \o <<self(Field("simple", "INT", 1123)),
                  self(Field("complex", "OBJECT", Complex))>>)
  /\ UNCHANGED <<known, bridgeVars, mqttConnected, connected, senderVars>>

(* Mutant: the walk starts again where it started first.                   *)
nextRefOld == IF cursor = "end" THEN Order[1] ELSE cursor

(* The reference under the cursor; a cursor at the end starts again.       *)
nextRef == IF cursor = "end" THEN refs[1] ELSE cursor

Successor(ref) ==
  LET i == SelectInSeq(refs, LAMBDA r : r = ref) IN
  IF i = Len(refs) THEN "end" ELSE refs[i + 1]

(* Mutant: the cursor moves twice.                                         *)
PollTimerSkips ==
  /\ Receives("bridge", "pollTimer")
  /\ cursor' = IF mqttConnected /\ Successor(nextRef) # "end"
               THEN Successor(Successor(nextRef)) ELSE "end"
  /\ Receive("bridge", Head(inbox["bridge"]),
             IF mqttConnected
             THEN <<Told(Msg("Properties"), "bridge", nextRef)>> ELSE <<>>)
  /\ UNCHANGED <<known, refs, looping, mqttConnected, connected, senderVars>>

PollTimer ==
  /\ Receives("bridge", "pollTimer")
  /\ cursor' = IF mqttConnected THEN Successor(nextRef) ELSE cursor
  /\ Receive("bridge", Head(inbox["bridge"]),
             IF mqttConnected
             THEN <<Told(Msg("Properties"), "bridge", nextRef)>> ELSE <<>>)
  /\ UNCHANGED <<known, refs, looping, mqttConnected, connected, senderVars>>

(* Mutant: create() enters it twice.                                       *)
EmplaceAgain ==
  /\ Len(refs) <= Cardinality(Local)
  /\ \E i \in Places : refs' = InsertAt(refs, i, "bridge")
  /\ UNCHANGED <<inbox, known, cursor, looping, mqttConnected, connected,
                 senderVars>>

(* create() enters the bridge into the system's map when preStart has set  *)
(* the cursor: a new node comes before another one, wherever its bucket is.*)
EmplaceBridge ==
  /\ ~Contains(refs, "bridge")
  /\ \E i \in Places : refs' = InsertAt(refs, i, "bridge")
  /\ UNCHANGED <<inbox, known, cursor, looping, mqttConnected, connected,
                 senderVars>>

-----------------------------------------------------------------------------
(* Mqtt                                                                    *)

(* mqttPublish for each pair: the message leaves this model.               *)
MqttPublish ==
  /\ Receives("mqtt", "mqttPublish")
  /\ Receive("mqtt", Head(inbox["mqtt"]), <<>>)
  /\ UNCHANGED <<known, bridgeVars, mqttConnected, connected, senderVars>>

Waits(a, class) == \E i \in DOMAIN inbox[a] : inbox[a][i].cls = class

(* A change of the connection of which an actor has yet to hear; there is  *)
(* one at most, and it may be on its way together with anything.           *)
Changes == {"mqttConnected", "mqttDisconnected"}
Unheard == \E a \in {"bridge", "system"}, c \in Changes : Waits(a, c)

InFlight ==
  LET counts(m) == m.cls \notin Changes /\ ~IsBall(m) IN
  Cardinality(UNION {{<<a, i>> : i \in {j \in DOMAIN inbox[a] : counts(inbox[a][j])}} :
                     a \in Local})

Room == InFlight < MaxInFlight

(* The callbacks of the client, on its thread.                             *)
Event(class, fields) ==
  inbox' = Deliver(inbox, Publish(Bus,
             [Msg(class) EXCEPT !.src = "mqtt", !.fields = fields]))

onConnect ==
  /\ ~Unheard /\ ~connected
  /\ connected' = TRUE
  /\ Event("mqttConnected", <<>>)
  /\ UNCHANGED <<known, bridgeVars, mqttConnected, senderVars>>

onConnectionLost ==
  /\ ~Unheard /\ connected
  /\ connected' = FALSE
  /\ Event("mqttDisconnected", <<>>)
  /\ UNCHANGED <<known, bridgeVars, mqttConnected, senderVars>>

onMessageArrived ==
  /\ Room /\ connected
  /\ \E c \in Commands :
       Event("mqttPublishRcvd", <<[tag |-> "topic", val |-> <<"topic", c.topic>>],
                                  [tag |-> "message", val |-> <<"json", c.payload>>]>>)
  /\ UNCHANGED <<known, bridgeVars, mqttConnected, connected, senderVars>>

-----------------------------------------------------------------------------
(* The timer thread.  A periodic timer fires when the message before was   *)
(* handled.                                                                *)

Fires(a, class) == inbox' = Deliver(inbox, <<Told(Msg(class), a, a)>>)

BridgeTimer(class) ==
  /\ Room /\ ~Waits("bridge", class)
  /\ Fires("bridge", class)
  /\ UNCHANGED <<known, bridgeVars, mqttConnected, connected, senderVars>>

(* START_TEST: four seconds after END_TEST its message is handled, and the *)
(* last pong is.                                                           *)
StartTimer ==
  /\ Room
  /\ ~testing /\ ~Waits("sender", "StartTest") /\ Balls = 0
  /\ Fires("sender", "StartTest")
  /\ UNCHANGED <<known, bridgeVars, mqttConnected, connected, senderVars>>

EndTimer ==
  /\ endTimer
  /\ endTimer' = FALSE
  /\ Fires("sender", "EndTest")
  /\ UNCHANGED <<known, bridgeVars, mqttConnected, connected, testing, counter>>

-----------------------------------------------------------------------------
SenderStep == StartTest \/ EndTest \/ Pong

BridgeStep ==
  \/ BridgeConnected \/ BridgeDisconnected \/ PublishRcvd \/ PubTimer
  \/ PropertiesReply \/ PollTimer \/ Publishes

ActorStep(a) ==
  \/ Unhandled(a)
  \/ Properties(a)
  \/ a = "sender" /\ SenderStep
  \/ a = "echo" /\ EchoPing
  \/ a = "config" /\ Config
  \/ a = "system" /\ SystemHears
  \/ a = "bridge" /\ BridgeStep
  \/ a = "mqtt" /\ MqttPublish

Next ==
  \/ \E a \in Local : ActorStep(a)
  \/ EmplaceBridge
  \/ onConnect \/ onConnectionLost \/ onMessageArrived
  \/ \E class \in {"pollTimer", "pubTimer"} : BridgeTimer(class)
  \/ StartTimer \/ EndTimer

Spec == Init /\ [][Next]_vars

(* WF_vars(ActorStep(a)), written out: an actor has a step if and only if  *)
(* its mailbox is not empty and its handler has returned; the others only  *)
(* append to the mailbox.                                                  *)
Handled(a) == inbox[a] # <<>> /\ ~IsPrefix(inbox[a], inbox'[a])
Rests(a)   == inbox[a] = <<>> \/ (a = "bridge" /\ looping)
Turns(a)   == []<>Rests(a) \/ []<><<Handled(a)>>_vars

(* Every actor gets its turn, main() goes on, and the timers fire.  The    *)
(* polling timer does not depend on Room, which only bounds the model: it  *)
(* fires if there is room again and again.                                 *)
FairSpec ==
  /\ Spec
  /\ \A a \in Local : Turns(a)
  /\ WF_vars(EmplaceBridge)
  /\ WF_vars(EndTimer)
  /\ SF_vars(BridgeTimer("pollTimer"))

-----------------------------------------------------------------------------
(* The types of the variables.                                             *)
TypeOK ==
  /\ DOMAIN inbox = Local
  /\ \A a \in Local : \A i \in DOMAIN inbox[a] :
       DOMAIN inbox[a][i] = {"cls", "src", "dst", "fields"}
  /\ NoSender \notin Local /\ Local \subseteq known
  /\ IsInjective(refs) /\ ToSet(refs) \subseteq Local
  /\ cursor \in ToSet(refs) \cup {"end"}
  /\ looping \in BOOLEAN
  /\ mqttConnected \in BOOLEAN
  /\ connected \in BOOLEAN
  /\ testing \in BOOLEAN
  /\ counter \in 0..MaxCount
  /\ endTimer \in BOOLEAN

(* sender() is never the null that lookup returns for a Uid it does not    *)
(* know: the sender of every message in a mailbox has a reference, those   *)
(* included that a payload named or that come from a peer without a name.  *)
SenderKnown ==
  \A a \in Local : \A i \in DOMAIN inbox[a] : inbox[a][i].src \in known

(* A message lies in the mailbox of the actor it is addressed to; in that  *)
(* of the bridge there are those for remote references, too, and no other, *)
(* however the message object was reused on its way.                       *)
Addressed ==
  \A a \in Local : \A i \in DOMAIN inbox[a] :
    LET to == inbox[a][i].dst IN
    \/ to = a
    \/ a = "bridge" /\ to \in known \ (Local \cup {NoSender})

(* README.md, "Sender": a test is one ping or pong in play, from the start *)
(* of the test until its end; what a peer pings does not disturb it.       *)
OneBall == IF testing THEN Balls = 1 ELSE Balls <= 1

(* What a peer may send without a part in the benchmark: it does not start *)
(* a test, answer sender's ping, or use one's name to write to the other.  *)
PeersLeaveBenchmark ==
  \A c \in Commands :
    Len(c.topic) > 2 /\ c.topic[1] = "dst" =>
      /\ c.topic[2] = "sender" => c.topic[3] \notin {"StartTest", "pingReply"}
      /\ \A name \in Named(c.payload) : {c.topic[2], name} # {"sender", "echo"}

-----------------------------------------------------------------------------
(* What a peer that runs the same bridge makes of what this one publishes. *)

Published == SubSeq(inbox'["mqtt"], Len(inbox["mqtt"]) + 1, Len(inbox'["mqtt"]))

(* The pairs the handler of mqttPublish takes from a message.              *)
Pairs(m) ==
  [i \in 1..(Len(m.fields) \div 2) |->
     [topic |-> m.fields[2*i - 1].val[2], payload |-> m.fields[2*i].val[2]]]

(* Values are the same if they differ in being signed, at most.            *)
Same(v, w) ==
  \/ v = w
  \/ {v[1], w[1]} = {"INT", "UINT"} /\ v[2] = w[2]

Reads(m, field) == Has(m, field.tag) /\ Same(Get(m, field.tag), field.val)

(* A message to publish, or properties an actor replied, become events.  A *)
(* sender without a name has no topic.                                     *)
Announces ==
  /\ Publishes \/ PropertiesReply
  /\ mqttConnected /\ ~looping' /\ Head(inbox["bridge"]).src # NoSender

EventPairs    == Pairs(Published[Len(Published)])
AtReader(p)   == Incoming(p.topic, p.payload, {})
IsObject(f)   == f.val[1] = "OBJECT"
Plain(fields) == {f \in ToSet(fields) : ~IsObject(f) /\ f.tag \notin Meta}

(* The values behind the last object that an object contains.              *)
Behind(fields) ==
  {fields[i] : i \in {j \in DOMAIN fields :
                        \A k \in j..Len(fields) : fields[k] \in Plain(fields)}}

(* x is the event that a field of m became: the field's value as "value";  *)
(* of an object the values behind the last one in it, each by its name.    *)
IsEventOf(x, m, f) ==
  /\ x.ok /\ x.msg.src = m.src /\ x.msg.cls = f.tag
  /\ IF IsObject(f)
     THEN \A g \in Behind(f.val[2]) : Reads(x.msg, g)
     ELSE Reads(x.msg, [f EXCEPT !.tag = "value"])

(* Bridge.cpp:8-12 and 33-35: each field of such a message becomes an event*)
(* of its own, and a peer reads from it who sent it, which field it is and *)
(* what its value was; of an object with objects in it, what IsEventOf     *)
(* says.                                                                   *)
EventsArrive ==
  [][LET m == Head(inbox["bridge"])
         fields == Data(m)
     IN  Announces =>
           /\ Len(EventPairs) = Len(fields)
           /\ \A i \in DOMAIN fields :
                IsEventOf(AtReader(EventPairs[i]), m, fields[i])]_vars

(* Bridge.cpp:200-201: a message to publish with several fields becomes    *)
(* one event, an object, under the class of the message.                   *)
OneEvent ==
  [][LET m == Head(inbox["bridge"]) IN
     Announces /\ m.cls = "publish" /\ Len(Data(m)) > 1 =>
       /\ Len(EventPairs) = 1
       /\ EventPairs[1].topic = <<"src", m.src, m.cls>>]_vars

Goes(m) == m.dst # "bridge"

(* The message that a command of this bridge becomes at the peer.          *)
AtPeer(m) ==
  LET p == Pairs(Head(Published))[1] IN Incoming(p.topic, p.payload, {m.dst})

(* A message for a remote actor is handed to mqtt at once, connected or    *)
(* not, whichever receivers match it as well, and the peer knows for whom  *)
(* and what it is.                                                         *)
CommandsGo ==
  [][LET m == Head(inbox["bridge"]) IN
     ActorStep("bridge") /\ Goes(m) =>
       /\ Published # <<>>
       /\ AtPeer(m).ok
       /\ AtPeer(m).msg.dst = m.dst /\ AtPeer(m).msg.cls = m.cls]_vars

(* Bridge.cpp:19-31: a command goes out with its sender and its values.    *)
CommandsComplete ==
  [][LET m == Head(inbox["bridge"]) IN
     ActorStep("bridge") /\ Goes(m) =>
       /\ AtPeer(m).msg.src = m.src
       /\ \A i \in DOMAIN m.fields : Reads(AtPeer(m).msg, m.fields[i])]_vars

(* The keys of an object, or "value" for what is none.                     *)
Keys(json) ==
  IF json[1] = "object" THEN json[2] ELSE <<[tag |-> "value", val |-> json]>>

AllKnown(json) ==
  \A e \in ToSet(Keys(json)) : e.tag # "$SRC" => e.val[1] # "null"

(* What the message got has for the key e: an object in it has the values  *)
(* of its own, if all are known.                                           *)
Gets(got, e) ==
  CASE e.tag = "$SRC" -> got.src = e.val[2]
    [] e.val[1] = "text" -> Reads(got, Field(e.tag, "BYTES", e.val[2]))
    [] e.val[1] = "object" ->
         /\ Has(got, e.tag) /\ Get(got, e.tag)[1] = "OBJECT"
         /\ AllKnown(e.val) =>
              \A k \in ToSet(e.val[2]) :
                k.tag = "$SRC" \/ k.val[1] = "object"
                \/ Field(k.tag, XdrType(k.val), k.val[2])
                     \in ToSet(Get(got, e.tag)[2])
    [] OTHER -> Reads(got, Field(e.tag, XdrType(e.val), e.val[2]))

(* Bridge.cpp:19-31, the way in: what a peer puts under a key of a command *)
(* is what the actor it names gets under that name, once the bridge has    *)
(* told it, and the sender is the peer's, or NoSender.  Nobody gets part   *)
(* of a command of which the bridge does not know a value.                 *)
CommandsArrive ==
  [][LET m == Head(inbox["bridge"])
         topic == Get(m, "topic")[2]
         json == Get(m, "message")[2]
         to == topic[2]
         got == inbox'[to][Len(inbox'[to])]
     IN  PublishRcvd /\ Len(topic) = 3 /\ to \in Local =>
           IF AllKnown(json)
           THEN /\ got.cls = topic[3] /\ got.dst = to
                /\ \A e \in ToSet(Keys(json)) : Gets(got, e)
                /\ "$SRC" \notin {e.tag : e \in ToSet(Keys(json))} =>
                     got.src = NoSender
           ELSE inbox' = [inbox EXCEPT !["bridge"] = Tail(@)]]_vars

-----------------------------------------------------------------------------
(* The requests of a peer that ask for an answer, by the actors that give  *)
(* one and the class they answer.                                          *)
Answering == {<<"sender", "Properties">>, <<"system", "Properties">>,
              <<"bridge", "Properties">>, <<"config", "Properties">>,
              <<"config", "get">>, <<"config", "clear">>, <<"echo", "ping">>}

(* They carry a $SRC and an $ID.                                           *)
Requests ==
  {c \in Commands : /\ Len(c.topic) = 3
                    /\ <<c.topic[2], c.topic[3]>> \in Answering
                    /\ c.payload[1] = "object"
                    /\ {"$SRC", "$ID"} \subseteq
                         {c.payload[2][i].tag : i \in DOMAIN c.payload[2]}}

ReplyTo(c) ==
  LET entries == c.payload[2] IN
  entries[SelectInSeq(entries, LAMBDA e : e.tag = "$SRC")].val[2]

Arrived(c) ==
  \E i \in DOMAIN inbox["bridge"] :
    LET m == inbox["bridge"][i] IN
    m.cls = "mqttPublishRcvd" /\ Get(m, "topic")[2] = c.topic
                             /\ Get(m, "message")[2] = c.payload

IsPublished(topic) ==
  \E i \in DOMAIN inbox["mqtt"] :
    LET m == inbox["mqtt"][i] IN
    m.cls = "mqttPublish" /\ \E j \in DOMAIN Pairs(m) : Pairs(m)[j].topic = topic

(* README.md:24-27: a request that comes in with a reply address is        *)
(* answered there, under its class with "Reply", whether or not the bridge *)
(* believes in the connection.                                             *)
RequestsAnswered ==
  \A c \in Requests :
    Arrived(c) ~> IsPublished(<<"dst", ReplyTo(c), ReplyClass(c.topic[3])>>)

(* The commands of a peer that ask the bridge to publish something, and do *)
(* not send it into an endless loop.                                       *)
Publications ==
  {c \in Commands :
     /\ c.topic = <<"dst", "bridge", "publish">>
     /\ Named(c.payload) # {}
     /\ ~GoesBack(Incoming(c.topic, c.payload, {"bridge"}).msg.fields)}

(* Bridge.cpp:43: the bridge can be asked to publish explicitly.  As long  *)
(* as it is connected, each value a peer gives it for that is published in *)
(* the name of the peer.                                                   *)
ExplicitlyPublished ==
  \A c \in Publications :
    [](Arrived(c) /\ []mqttConnected =>
         <>(\A e \in ToSet(c.payload[2]) :
              e.tag \in Meta \/ IsPublished(<<"src", ReplyTo(c), e.tag>>)))

(* While the bridge is connected it asks every actor of the system for its *)
(* properties again and again, although the bridge itself enters the map   *)
(* after the cursor was set.                                               *)
EveryRefPolled ==
  <>[]mqttConnected =>
    \A a \in Local :
      []<>(\E i \in DOMAIN inbox[a] :
             inbox[a][i].cls = "Properties" /\ inbox[a][i].src = "bridge")

(* README.md, "Publisher": and what they reply is published as events.     *)
PropertiesPublished ==
  <>[]mqttConnected =>
    \A a \in {"sender", "config", "system", "bridge"} :
      []<>(\E i \in DOMAIN inbox["mqtt"] :
             LET m == inbox["mqtt"][i] IN
             m.cls = "mqttPublish" /\ m.fields # <<>> /\
             \E j \in DOMAIN Pairs(m) :
               Pairs(m)[j].topic[1] = "src" /\ Pairs(m)[j].topic[2] = a
               /\ Pairs(m)[j].topic[3] \notin {"simple", "complex", "alive"})
=============================================================================
