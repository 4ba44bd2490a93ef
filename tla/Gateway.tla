------------------------------ MODULE Gateway ------------------------------
(***************************************************************************)
(* The connection to the MQTT broker, kept by three parties that share     *)
(* state without a lock: main(), which creates the mqtt actor and then the *)
(* bridge; the thread on which the MQTT client calls back into Mqtt; and   *)
(* the handlers of the two actors.                                         *)
(*                                                                         *)
(* The client is external.  Its callbacks run one at a time, and it sees   *)
(* the connection come and go when none is running.  A connect of a client *)
(* that is not down, and a disconnect of one that is not up, do nothing.   *)
(*                                                                         *)
(* A handler of the bridge touches the bridge's own state only and is one  *)
(* step (Dispatcher shows that handlers of an actor never overlap); the    *)
(* handler of mqtt shares the client and _conn_opts with the callbacks and *)
(* takes a step for each call.                                             *)
(***************************************************************************)
EXTENDS Naturals, Sequences, SequencesExt

CONSTANTS
  MaxInbox,      (* bound: timers and commands wait while an actor they    *)
                 (* reach has this many messages                           *)
  MaxEvents,     (* bound: the network waits while the bridge has this     *)
                 (* many events to handle                                  *)
  MaxPairs       (* bound: the topics in one Publish message               *)

ASSUME GatewayAssumption ==
  /\ MaxInbox \in Nat \ {0}
  /\ MaxEvents \in Nat \ {0}
  /\ MaxPairs \in Nat \ {0}

VARIABLES
  main,          (* where main() is                                        *)
  receive,       (* the actors that have become a Receive                  *)
  bus,           (* the classes of mqtt's events the bridge subscribed to  *)
  inbox,         (* the messages in the mailbox of each actor              *)
  client,        (* the MQTT client                                        *)
  subscription,  (* what became of asking for each topic on the connection *)
  options,       (* does _conn_opts hold onConnect and onConnectFailure?   *)
  announces,     (* did it when the client was last told to connect?       *)
  cpc,           (* where the callback thread is                           *)
  connected,     (* Mqtt::_connected                                       *)
  apc,           (* where the handler of mqtt is                           *)
  pairs,         (* the topics it has yet to publish                       *)
  mqttConnected  (* Bridge::_mqttConnected                                 *)

mainVars   == <<main, receive, bus>>
clientVars == <<client, subscription, announces>>
mqttVars   == <<apc, pairs>>
vars == <<mainVars, inbox, clientVars, options, cpc, connected, mqttVars,
          mqttConnected>>

Mqtt   == "mqtt"
Bridge == "bridge"
Topics == {"dst/system", "dst/system/#"}
Events == {"Connected", "Disconnected"}

(* Nobody has asked for a topic; the broker has yet to answer, or sends the*)
(* messages to it; or the client or the broker would not have it.          *)
Outcomes == {"none", "asked", "granted", "failed"}
Nothing  == [t \in Topics |-> "none"]

Room(a) == Len(inbox[a]) < MaxInbox

EventsHandled ==
  Len(SelectSeq(inbox[Bridge], LAMBDA m : m \in Events)) < MaxEvents

Tell(a, m) == inbox' = [inbox EXCEPT ![a] = Append(@, m)]

(* eb.publish: the bridge is told if it has subscribed.                    *)
Publish(event) ==
  IF event \in bus THEN Tell(Bridge, event) ELSE UNCHANGED inbox

(* _connected is not initialised.                                          *)
Init ==
  /\ main = "mqtt.preStart"
  /\ receive = {}
  /\ bus = {}
  /\ inbox = [a \in {Mqtt, Bridge} |-> <<>>]
  /\ client = "down"
  /\ subscription = Nothing
  /\ options = FALSE
  /\ announces = FALSE
  /\ cpc = "idle"
  /\ connected \in BOOLEAN
  /\ apc = "idle"
  /\ pairs = 0
  /\ mqttConnected = FALSE

-----------------------------------------------------------------------------
(* The MQTT client                                                         *)

(* MQTTAsync_connect with _conn_opts as they are.                          *)
Connect ==
  IF client = "down"
  THEN client' = "connecting" /\ announces' = options /\ UNCHANGED subscription
  ELSE UNCHANGED clientVars

(* MQTTAsync_disconnect: no callback tells of it.                          *)
Disconnect ==
  IF client = "up"
  THEN client' = "down" /\ subscription' = Nothing /\ UNCHANGED announces
  ELSE UNCHANGED clientVars

ConnectSucceeds ==
  /\ client = "connecting"
  /\ cpc = "idle"
  /\ EventsHandled
  /\ client' = "up"
  /\ cpc' = IF announces THEN "announceUp" ELSE "idle"
  /\ UNCHANGED <<mainVars, inbox, subscription, announces, options,
                 connected, mqttVars, mqttConnected>>

(* onConnectFailure, if it is called, writes to the log.                   *)
ConnectFails ==
  /\ client = "connecting"
  /\ cpc = "idle"
  /\ client' = "down"
  /\ UNCHANGED <<mainVars, inbox, subscription, announces, options, cpc,
                 connected, mqttVars,
                 mqttConnected>>

ConnectionLost ==
  /\ client = "up"
  /\ cpc = "idle"
  /\ EventsHandled
  /\ client' = "down"
  /\ subscription' = Nothing
  /\ cpc' = "announceDown"
  /\ UNCHANGED <<mainVars, inbox, announces, options, connected, mqttVars,
                 mqttConnected>>

-----------------------------------------------------------------------------
(* main(): actorOf<Mqtt>, actorOf<Bridge>                                  *)

MqttPreStart ==
  /\ main = "mqtt.preStart"
  /\ options' = TRUE
  /\ client' = "connecting"
  /\ announces' = TRUE
  /\ main' = "mqtt.become"
  /\ UNCHANGED <<receive, bus, inbox, subscription, cpc, connected, mqttVars,
                 mqttConnected>>

(* Mutant: subscribes to one class of events only.                         *)
BridgeForgetsDisconnected ==
  /\ \/ /\ main = "bridge.timers"
        /\ bus' = bus
        /\ main' = "bridge.Connected"
     \/ /\ main = "bridge.Connected"
        /\ bus' = bus \cup {"Connected"}
        /\ main' = "bridge.become"
  /\ UNCHANGED <<receive, inbox, clientVars, options, cpc, connected, mqttVars,
                 mqttConnected>>

(* preStart: the timers, then one class of events after the other.         *)
BridgePreStart ==
  /\ \/ /\ main = "bridge.timers"
        /\ bus' = bus
        /\ main' = "bridge.Connected"
     \/ /\ main = "bridge.Connected"
        /\ bus' = bus \cup {"Connected"}
        /\ main' = "bridge.Disconnected"
     \/ /\ main = "bridge.Disconnected"
        /\ bus' = bus \cup {"Disconnected"}
        /\ main' = "bridge.become"
  /\ UNCHANGED <<receive, inbox, clientVars, options, cpc, connected, mqttVars,
                 mqttConnected>>

Become ==
  /\ \/ /\ main = "mqtt.become"
        /\ receive' = receive \cup {Mqtt}
        /\ main' = "bridge.timers"
     \/ /\ main = "bridge.become"
        /\ receive' = receive \cup {Bridge}
        /\ main' = "done"
  /\ UNCHANGED <<bus, inbox, clientVars, options, cpc, connected, mqttVars,
                 mqttConnected>>

-----------------------------------------------------------------------------
(* onConnect                                                               *)

AnnounceUp ==
  /\ cpc = "announceUp"
  /\ Publish("Connected")
  /\ cpc' = "setConnected"
  /\ UNCHANGED <<mainVars, clientVars, options, connected, mqttVars,
                 mqttConnected>>

SetConnected ==
  /\ cpc = "setConnected"
  /\ connected' = TRUE
  /\ cpc' = "subscribeSystem"
  /\ UNCHANGED <<mainVars, inbox, clientVars, options, mqttVars, mqttConnected>>

(* MQTTAsync_subscribe fails unless the client is up, and may fail if it   *)
(* is; both, and a broker that refuses, are written to the log.            *)
Subscribe(topic) ==
  IF client = "up"
  THEN \E outcome \in {"asked", "failed"} :
         subscription' = [subscription EXCEPT ![topic] = outcome]
  ELSE UNCHANGED subscription

SubscribeSystem ==
  /\ cpc = "subscribeSystem"
  /\ Subscribe("dst/system")
  /\ cpc' = "subscribeActors"
  /\ UNCHANGED <<mainVars, inbox, client, announces, options, connected, mqttVars,
                 mqttConnected>>

SubscribeActors ==
  /\ cpc = "subscribeActors"
  /\ Subscribe("dst/system/#")
  /\ cpc' = "idle"
  /\ UNCHANGED <<mainVars, inbox, client, announces, options, connected, mqttVars,
                 mqttConnected>>

(* onSubscribe, onSubscribeFailure                                         *)
SubscribeEnds(topic, outcome) ==
  /\ client = "up" /\ subscription[topic] = "asked"
  /\ cpc = "idle"
  /\ subscription' = [subscription EXCEPT ![topic] = outcome]
  /\ UNCHANGED <<mainVars, inbox, client, announces, options, cpc, connected,
                 mqttVars, mqttConnected>>

Granted(topic) == SubscribeEnds(topic, "granted")
Refused(topic) == SubscribeEnds(topic, "failed")

-----------------------------------------------------------------------------
(* onConnectionLost                                                        *)

AnnounceDown ==
  /\ cpc = "announceDown"
  /\ Publish("Disconnected")
  /\ cpc' = "clearConnected"
  /\ UNCHANGED <<mainVars, clientVars, options, connected, mqttVars,
                 mqttConnected>>

(* Mutant: _connected stays as it was.                                     *)
ClearNothing ==
  /\ cpc = "clearConnected"
  /\ cpc' = "resetOptions"
  /\ UNCHANGED <<mainVars, inbox, clientVars, options, connected, mqttVars,
                 mqttConnected>>

ClearConnected ==
  /\ cpc = "clearConnected"
  /\ connected' = FALSE
  /\ cpc' = "resetOptions"
  /\ UNCHANGED <<mainVars, inbox, clientVars, options, mqttVars, mqttConnected>>

(* _conn_opts = MQTTAsync_connectOptions_initializer has no callbacks.     *)
ResetOptions ==
  /\ cpc = "resetOptions"
  /\ options' = FALSE
  /\ cpc' = "setOptions"
  /\ UNCHANGED <<mainVars, inbox, clientVars, connected, mqttVars,
                 mqttConnected>>

SetOptions ==
  /\ cpc = "setOptions"
  /\ options' = TRUE
  /\ cpc' = "reconnect"
  /\ UNCHANGED <<mainVars, inbox, clientVars, connected, mqttVars,
                 mqttConnected>>

Reconnect ==
  /\ cpc = "reconnect"
  /\ Connect
  /\ cpc' = "idle"
  /\ UNCHANGED <<mainVars, inbox, options, connected, mqttVars,
                 mqttConnected>>

-----------------------------------------------------------------------------
(* The mqtt actor                                                          *)

TimersStarted(a) ==
  main \notin IF a = Mqtt THEN {"mqtt.preStart"}
              ELSE {"mqtt.preStart", "mqtt.become", "bridge.timers"}

(* The timer of actor a sends pubTimer; bound: the one before was handled. *)
PubTimer(a) ==
  /\ TimersStarted(a)
  /\ Room(a) /\ Room(Mqtt)
  /\ ~Contains(inbox[a], "pubTimer")
  /\ Tell(a, "pubTimer")
  /\ UNCHANGED <<mainVars, clientVars, options, cpc, connected, mqttVars,
                 mqttConnected>>

(* The topics in message m: pubTimer has one if _connected.  A Publish     *)
(* without a topic changes nothing and is left out.                        *)
Pairs(m) ==
  IF m = "Publish" THEN 1..MaxPairs ELSE {IF connected THEN 1 ELSE 0}

(* Before become a message is dropped.                                     *)
MqttReceive ==
  /\ apc = "idle"
  /\ inbox[Mqtt] # <<>>
  /\ inbox' = [inbox EXCEPT ![Mqtt] = Tail(@)]
  /\ pairs' \in IF Mqtt \in receive THEN Pairs(Head(inbox[Mqtt])) ELSE {0}
  /\ apc' = IF pairs' = 0 THEN "idle" ELSE "send"
  /\ UNCHANGED <<mainVars, clientVars, options, cpc, connected, mqttConnected>>

(* Mutant: one topic too many.                                             *)
NextPairBlind ==
  /\ pairs' = pairs - 1
  /\ apc' = IF pairs < 1 THEN "idle" ELSE "send"

NextPair ==
  /\ pairs' = pairs - 1
  /\ apc' = IF pairs = 1 THEN "idle" ELSE "send"

(* mqttPublish.                                                            *)
Send ==
  /\ apc = "send"
  /\ client = "up"
  /\ NextPair
  /\ UNCHANGED <<mainVars, inbox, clientVars, options, cpc, connected,
                 mqttConnected>>

(* sendMessage fails: a client that is up may refuse a message, too.       *)
SendFails ==
  /\ apc = "send"
  /\ apc' = "disconnect"
  /\ UNCHANGED <<mainVars, inbox, clientVars, options, cpc, connected, pairs,
                 mqttConnected>>

SendDisconnects ==
  /\ apc = "disconnect"
  /\ Disconnect
  /\ apc' = "connect"
  /\ UNCHANGED <<mainVars, inbox, options, cpc, connected, pairs,
                 mqttConnected>>

(* Mutant: mqttPublish disconnects only.                                   *)
SendGivesUp ==
  /\ apc = "connect"
  /\ NextPair
  /\ UNCHANGED <<mainVars, inbox, clientVars, options, cpc, connected,
                 mqttConnected>>

SendConnects ==
  /\ apc = "connect"
  /\ Connect
  /\ NextPair
  /\ UNCHANGED <<mainVars, inbox, options, cpc, connected, mqttConnected>>

-----------------------------------------------------------------------------
(* The bridge                                                              *)

(* A local actor tells a remote one: the message goes to the bridge.       *)
Command ==
  /\ Bridge \in receive
  /\ Room(Bridge) /\ Room(Mqtt)
  /\ Tell(Bridge, "command")
  /\ UNCHANGED <<mainVars, clientVars, options, cpc, connected, mqttVars,
                 mqttConnected>>

(* The Publish messages a handler of the bridge sends to mqtt.             *)
Published(m) ==
  IF m = "command" \/ (m \in {"pubTimer", "publish"} /\ mqttConnected)
  THEN <<"Publish">> ELSE <<>>

(* pubTimer has the bridge publish two values of its own.                  *)
ToSelf(m) ==
  IF m = "pubTimer" THEN <<"publish", "publish">> ELSE <<>>

Learns(m) ==
  mqttConnected' = IF m \in Events THEN m = "Connected" ELSE mqttConnected

BridgeReceive ==
  LET m == Head(inbox[Bridge]) IN
  /\ inbox[Bridge] # <<>>
  /\ IF Bridge \in receive
     THEN /\ inbox' = [inbox EXCEPT ![Mqtt] = @ \o Published(m),
                                    ![Bridge] = Tail(@) \o ToSelf(m)]
          /\ Learns(m)
     ELSE /\ inbox' = [inbox EXCEPT ![Bridge] = Tail(@)]
          /\ UNCHANGED mqttConnected
  /\ UNCHANGED <<mainVars, clientVars, options, cpc, connected, mqttVars>>

-----------------------------------------------------------------------------
MainStep == MqttPreStart \/ BridgePreStart \/ Become

CallbackStep ==
  \/ AnnounceUp \/ SetConnected \/ SubscribeSystem \/ SubscribeActors
  \/ AnnounceDown \/ ClearConnected \/ ResetOptions \/ SetOptions \/ Reconnect

MqttStep == MqttReceive \/ Send \/ SendFails \/ SendDisconnects \/ SendConnects

AttemptEnds == ConnectSucceeds \/ ConnectFails

Next ==
  \/ MainStep
  \/ AttemptEnds \/ ConnectionLost
  \/ CallbackStep
  \/ \E topic \in Topics : Granted(topic) \/ Refused(topic)
  \/ MqttStep
  \/ BridgeReceive
  \/ Command
  \/ \E a \in {Mqtt, Bridge} : PubTimer(a)

Spec == Init /\ [][Next]_vars

(* The threads keep running, an attempt to connect ends some time, and the *)
(* timers go on.  Nobody has to send a command, to answer a subscription   *)
(* or to make anything go well.                                            *)
FairSpec ==
  /\ Spec
  /\ WF_vars(MainStep)
  /\ WF_vars(CallbackStep)
  /\ WF_vars(MqttStep)
  /\ WF_vars(BridgeReceive)
  /\ WF_vars(AttemptEnds)
  /\ \A a \in {Mqtt, Bridge} : WF_vars(PubTimer(a))

(* Moreover, a client that tries again and again to connect succeeds.      *)
ReachableSpec == FairSpec /\ SF_vars(ConnectSucceeds)

-----------------------------------------------------------------------------
(* The types of the variables.                                             *)
TypeOK ==
  /\ main \in {"mqtt.preStart", "mqtt.become", "bridge.timers",
               "bridge.Connected", "bridge.Disconnected", "bridge.become",
               "done"}
  /\ receive \subseteq {Mqtt, Bridge}
  /\ bus \subseteq Events
  /\ inbox[Mqtt] \in Seq({"pubTimer", "Publish"})
  /\ inbox[Bridge] \in Seq(Events \cup {"pubTimer", "publish", "command"})
  /\ client \in {"down", "connecting", "up"}
  /\ subscription \in [Topics -> Outcomes]
  /\ options \in BOOLEAN
  /\ announces \in BOOLEAN
  /\ cpc \in {"idle", "announceUp", "setConnected", "subscribeSystem",
              "subscribeActors", "announceDown", "clearConnected",
              "resetOptions", "setOptions", "reconnect"}
  /\ connected \in BOOLEAN
  /\ apc \in {"idle", "send", "disconnect", "connect"}
  /\ pairs \in 0..MaxPairs
  /\ mqttConnected \in BOOLEAN

Asked == \A t \in Topics : subscription[t] # "none"

(* A client that is up while _connected says so has asked for both topics  *)
(* of this system on that very connection, whatever mqttPublish and the    *)
(* callbacks did meanwhile.  That it listens the code does not promise: a  *)
(* subscription that fails is only logged.                                 *)
ConnectedAsks == client = "up" /\ cpc = "idle" /\ connected => Asked

(* While _connected says so, a client that is down is told to connect      *)
(* again: pubTimer publishes, sendMessage fails and mqttPublish connects.  *)
KeepsTrying == client = "down" /\ connected ~> client # "down"

(* What onConnect and onConnectionLost announce reaches a bridge that has  *)
(* its Receive: at some later time it believes it.                         *)
BridgeHears ==
  /\ Bridge \in receive /\ cpc = "announceUp" ~> mqttConnected
  /\ Bridge \in receive /\ cpc = "announceDown" ~> ~mqttConnected

(* README.md:24: actors listen for messages destined to them.  A client    *)
(* that is up has at least asked for both topics.                          *)
Listens == client = "up" /\ cpc = "idle" => Asked

(* main.cpp:19: bridge acts as a gateway via mqtt to other actorsystems.   *)
StaysGateway == []<>(client = "up")
=============================================================================
