--------------------------- MODULE GatewayProofs ---------------------------
(***************************************************************************)
(* What the mailboxes of the two actors hold, and that a client that says  *)
(* it is connected has asked for its topics, whatever the bounds.          *)
(* The difficulty is _conn_opts, which is incomplete while onConnectionLost*)
(* runs: a connection made then has no callbacks, asks for nothing, and    *)
(* must not be one that _connected stands for.                             *)
(***************************************************************************)
EXTENDS Gateway, TLAPS

OnConnect == {"announceUp", "setConnected", "subscribeSystem", "subscribeActors"}

OnConnectionLost == {"announceDown", "clearConnected", "resetOptions",
                     "setOptions", "reconnect"}

ClientTypes ==
  /\ client \in {"down", "connecting", "up"}
  /\ cpc \in OnConnect \cup OnConnectionLost \cup {"idle"}
  /\ subscription \in [Topics -> Outcomes]
  /\ options \in BOOLEAN /\ announces \in BOOLEAN /\ connected \in BOOLEAN

(* Before preStart of mqtt nobody uses the client.                         *)
NotStarted ==
  main = "mqtt.preStart" =>
    client = "down" /\ cpc = "idle" /\ apc = "idle" /\ receive = {}

(* _conn_opts is incomplete before preStart and inside onConnectionLost,   *)
(* which has cleared _connected by then.                                   *)
OptionsComplete ==
  /\ options \/ main = "mqtt.preStart" \/ cpc = "setOptions"
  /\ cpc \in {"resetOptions", "setOptions", "reconnect"} => ~connected

(* A connection without callbacks is not one _connected stands for, and no *)
(* onConnect runs for it.                                                  *)
SilentIsUnconnected ==
  /\ client # "down" /\ ~announces => ~connected
  /\ cpc \in OnConnect => announces

(* What the callbacks have asked for while the client is up.               *)
Asking ==
  client = "up" =>
    /\ cpc \in OnConnect \cup {"idle"}
    /\ cpc = "subscribeActors" => subscription["dst/system"] # "none"
    /\ cpc = "idle" /\ announces => Asked

AskInv ==
  /\ ClientTypes
  /\ NotStarted
  /\ OptionsComplete
  /\ SilentIsUnconnected
  /\ Asking

-----------------------------------------------------------------------------
LEMMA AskInit == Init => AskInv
  BY DEF Init, Outcomes, Nothing, AskInv, ClientTypes, NotStarted, OptionsComplete,
         SilentIsUnconnected, Asking, OnConnect, OnConnectionLost

LEMMA AskNext == AskInv /\ [Next]_vars => AskInv'
<1> SUFFICES ASSUME AskInv, [Next]_vars PROVE AskInv'
  OBVIOUS
<1> USE DEF AskInv, ClientTypes, NotStarted, OptionsComplete,
            SilentIsUnconnected, Asking, OnConnect, OnConnectionLost,
            Topics, Outcomes, Nothing, Asked, mainVars, clientVars, mqttVars
<1>1. CASE MqttPreStart
  BY <1>1 DEF MqttPreStart
<1>2. CASE BridgePreStart
  BY <1>2 DEF BridgePreStart
<1>3. CASE Become
  BY <1>3 DEF Become
<1>4. CASE ConnectSucceeds
  BY <1>4 DEF ConnectSucceeds
<1>5. CASE ConnectFails
  BY <1>5 DEF ConnectFails
<1>6. CASE ConnectionLost
  BY <1>6 DEF ConnectionLost
<1>7. CASE AnnounceUp
  BY <1>7 DEF AnnounceUp
<1>8. CASE SetConnected
  BY <1>8 DEF SetConnected
<1>9. CASE SubscribeSystem
  BY <1>9 DEF SubscribeSystem, Subscribe
<1>10. CASE SubscribeActors
  BY <1>10 DEF SubscribeActors, Subscribe
<1>11. CASE AnnounceDown
  BY <1>11 DEF AnnounceDown
<1>12. CASE ClearConnected
  BY <1>12 DEF ClearConnected
<1>13. CASE ResetOptions
  BY <1>13 DEF ResetOptions
<1>14. CASE SetOptions
  BY <1>14 DEF SetOptions
<1>15. CASE Reconnect
  BY <1>15 DEF Reconnect, Connect
<1>16. CASE MqttReceive
  (* A message handled before become is dropped.                           *)
  <2>1. main = "mqtt.preStart" => apc' = "idle"
    BY <1>16 DEF MqttReceive, Mqtt
  <2> QED
    BY <1>16, <2>1 DEF MqttReceive
<1>17. CASE Send
  BY <1>17 DEF Send
<1>18. CASE SendFails
  BY <1>18 DEF SendFails
<1>19. CASE SendDisconnects
  BY <1>19 DEF SendDisconnects, Disconnect
<1>20. CASE SendConnects
  BY <1>20 DEF SendConnects, Connect
<1>21. CASE BridgeReceive
  BY <1>21 DEF BridgeReceive
<1>22. CASE Command
  BY <1>22 DEF Command
<1>23. ASSUME NEW a \in {Mqtt, Bridge}, PubTimer(a)
       PROVE  AskInv'
  BY <1>23 DEF PubTimer
<1>24. ASSUME NEW topic \in Topics, Granted(topic) \/ Refused(topic)
       PROVE  AskInv'
  BY <1>24 DEF Granted, Refused, SubscribeEnds
<1>25. CASE UNCHANGED vars
  BY <1>25 DEF vars
<1> QED
  BY <1>1, <1>2, <1>3, <1>4, <1>5, <1>6, <1>7, <1>8, <1>9, <1>10, <1>11,
     <1>12, <1>13, <1>14, <1>15, <1>16, <1>17, <1>18, <1>19, <1>20, <1>21,
     <1>22, <1>23, <1>24, <1>25
     DEF Next, MainStep, AttemptEnds, CallbackStep, MqttStep

(* The invariant of the connection: what mqtt's callbacks and its handler  *)
(* leave behind for each other.                                            *)
THEOREM AskInvariant == Spec => []AskInv
<1> QED
  BY AskInit, AskNext, PTL DEF Spec

(* A client that is up while Mqtt::_connected says so has asked for both   *)
(* dst/ topics on that connection, although mqttPublish may disconnect and *)
(* connect it between any two steps of onConnect and onConnectionLost.     *)
THEOREM GatewayConnectedAsks == Spec => []ConnectedAsks
<1>1. AskInv => ConnectedAsks
  BY DEF AskInv, SilentIsUnconnected, Asking, ConnectedAsks
<1> QED
  BY <1>1, AskInvariant, PTL

-----------------------------------------------------------------------------
(* Types                                                                   *)

MqttMessages == {"pubTimer", "Publish"}

BridgeMessages == Events \cup {"pubTimer", "publish", "command"}

Mailboxes ==
  /\ DOMAIN inbox = {Mqtt, Bridge}
  /\ inbox[Mqtt] \in Seq(MqttMessages)
  /\ inbox[Bridge] \in Seq(BridgeMessages)

(* The rest of TypeOK.  A handler of mqtt that is in the middle of a       *)
(* Publish has topics left.                                                *)
Places ==
  /\ main \in {"mqtt.preStart", "mqtt.become", "bridge.timers",
               "bridge.Connected", "bridge.Disconnected", "bridge.become",
               "done"}
  /\ receive \subseteq {Mqtt, Bridge}
  /\ bus \subseteq Events
  /\ apc \in {"idle", "send", "disconnect", "connect"}
  /\ pairs \in 0..MaxPairs
  /\ apc # "idle" => pairs > 0
  /\ mqttConnected \in BOOLEAN

(* What a step does to the mailboxes: it takes a message or leaves some.   *)
MailboxesKept(a, s) ==
  /\ inbox' = [inbox EXCEPT ![a] = s]
  /\ a \in {Mqtt, Bridge}
  /\ s \in Seq(IF a = Mqtt THEN MqttMessages ELSE BridgeMessages)

(* A mailbox that is replaced by one of its messages keeps the types.      *)
LEMMA MailboxTypes ==
  ASSUME NEW a, NEW s, Mailboxes, MailboxesKept(a, s)
  PROVE  Mailboxes'
  BY DEF Mailboxes, MailboxesKept, Mqtt, Bridge

(* An event of mqtt goes to the mailbox of the bridge or nowhere.          *)
LEMMA PublishTypes ==
  ASSUME Mailboxes, NEW e \in Events, Publish(e)
  PROVE  Mailboxes'
<1>1. CASE e \in bus
  <2>1. inbox[Bridge] \in Seq(BridgeMessages) /\ e \in BridgeMessages
    BY DEF Mailboxes, BridgeMessages
  <2>2. Append(inbox[Bridge], e) \in Seq(BridgeMessages)
    BY <2>1
  <2>3. MailboxesKept(Bridge, Append(inbox[Bridge], e))
    BY <1>1, <2>2 DEF MailboxesKept, Publish, Tell, Mqtt, Bridge
  <2> QED
    BY <2>3, MailboxTypes
<1>2. CASE e \notin bus
  BY <1>2 DEF Publish, Mailboxes
<1> QED
  BY <1>1, <1>2

(* The bridge takes a message and leaves what its handler tells.           *)
LEMMA BridgeReceiveTypes ==
  ASSUME Mailboxes, BridgeReceive
  PROVE  Mailboxes'
<1> DEFINE m == Head(inbox[Bridge])
           rest == Tail(inbox[Bridge])
<1>1. /\ inbox[Mqtt] \in Seq(MqttMessages) /\ inbox[Bridge] \in Seq(BridgeMessages)
      /\ inbox[Bridge] # <<>> /\ DOMAIN inbox = {Mqtt, Bridge}
  BY DEF BridgeReceive, Mailboxes
<1>2. rest \in Seq(BridgeMessages)
  BY <1>1
<1>4. CASE Bridge \in receive
  <2>1. Published(m) \in Seq(MqttMessages) /\ ToSelf(m) \in Seq(BridgeMessages)
    <3>1. /\ <<>> \in Seq(MqttMessages) /\ <<"Publish">> \in Seq(MqttMessages)
          /\ <<>> \in Seq(BridgeMessages)
          /\ <<"publish", "publish">> \in Seq(BridgeMessages)
      BY DEF MqttMessages, BridgeMessages
    <3> QED
      BY <3>1 DEF Published, ToSelf
  <2>2. /\ inbox[Mqtt] \o Published(m) \in Seq(MqttMessages)
        /\ rest \o ToSelf(m) \in Seq(BridgeMessages)
    <3> HIDE DEF m, rest
    <3> QED
      BY <1>1, <1>2, <2>1
  <2>3. inbox' = [inbox EXCEPT ![Mqtt] = @ \o Published(m),
                               ![Bridge] = rest \o ToSelf(m)]
    BY <1>4, <1>1 DEF BridgeReceive, Mqtt, Bridge
  <2>4. /\ inbox'[Mqtt] = inbox[Mqtt] \o Published(m)
        /\ inbox'[Bridge] = rest \o ToSelf(m)
        /\ DOMAIN inbox' = {Mqtt, Bridge}
    <3> HIDE DEF m, rest
    <3> QED
      BY <1>1, <2>3 DEF Mqtt, Bridge
  <2> QED
    BY <2>2, <2>4 DEF Mailboxes
<1>5. CASE Bridge \notin receive
  <2>1. MailboxesKept(Bridge, rest)
    BY <1>2, <1>5 DEF BridgeReceive, MailboxesKept, Mqtt, Bridge
  <2> QED
    BY <2>1, MailboxTypes
<1> QED
  BY <1>4, <1>5

(* Who tells mqtt and the bridge, and what.                                *)
LEMMA MailboxesNext == Mailboxes /\ [Next]_vars => Mailboxes'
<1> SUFFICES ASSUME Mailboxes, [Next]_vars PROVE Mailboxes'
  OBVIOUS
<1>1. CASE UNCHANGED inbox
  BY <1>1 DEF Mailboxes
<1>2. CASE AnnounceUp \/ AnnounceDown
  BY <1>2, PublishTypes DEF AnnounceUp, AnnounceDown, Events
<1>3. CASE MqttReceive
  <2>1. Tail(inbox[Mqtt]) \in Seq(MqttMessages)
    BY <1>3 DEF MqttReceive, Mailboxes
  <2>2. MailboxesKept(Mqtt, Tail(inbox[Mqtt]))
    BY <1>3, <2>1 DEF MqttReceive, MailboxesKept
  <2> QED
    BY <2>2, MailboxTypes
<1>4. CASE BridgeReceive
  BY <1>4, BridgeReceiveTypes
<1>5. CASE Command
  <2>1. Append(inbox[Bridge], "command") \in Seq(BridgeMessages)
    BY DEF Mailboxes, BridgeMessages
  <2>2. MailboxesKept(Bridge, Append(inbox[Bridge], "command"))
    BY <1>5, <2>1 DEF Command, Tell, MailboxesKept, Mqtt, Bridge
  <2> QED
    BY <2>2, MailboxTypes
<1>6. ASSUME NEW a \in {Mqtt, Bridge}, PubTimer(a)
      PROVE  Mailboxes'
  <2>1. /\ Append(inbox[Mqtt], "pubTimer") \in Seq(MqttMessages)
        /\ Append(inbox[Bridge], "pubTimer") \in Seq(BridgeMessages)
    BY DEF Mailboxes, MqttMessages, BridgeMessages
  <2>2. MailboxesKept(a, Append(inbox[a], "pubTimer"))
    BY <1>6, <2>1 DEF PubTimer, Tell, MailboxesKept, Mqtt, Bridge
  <2> QED
    BY <2>2, MailboxTypes
<1>7. \/ UNCHANGED inbox \/ AnnounceUp \/ AnnounceDown \/ MqttReceive
      \/ BridgeReceive \/ Command \/ \E a \in {Mqtt, Bridge} : PubTimer(a)
  BY DEF Next, vars, MainStep, AttemptEnds, CallbackStep, MqttStep, MqttPreStart,
         BridgePreStart, Become, ConnectSucceeds, ConnectFails, ConnectionLost,
         SetConnected, SubscribeSystem, SubscribeActors, Granted, Refused,
         SubscribeEnds, ClearConnected, ResetOptions, SetOptions, Reconnect, Send,
         SendFails, SendDisconnects, SendConnects
<1> QED
  BY <1>1, <1>2, <1>3, <1>4, <1>5, <1>6, <1>7

(* Where main(), the handler of mqtt and the bridge are.                   *)
LEMMA PlacesNext == Places /\ [Next]_vars => Places'
<1> SUFFICES ASSUME Places, [Next]_vars PROVE Places'
  OBVIOUS
<1> USE DEF Places, mainVars, clientVars, mqttVars
<1>1. CASE MainStep
  BY <1>1 DEF MainStep, MqttPreStart, BridgePreStart, Become, Events, Mqtt, Bridge
<1>2. CASE AttemptEnds \/ ConnectionLost
  BY <1>2 DEF AttemptEnds, ConnectSucceeds, ConnectFails, ConnectionLost
<1>3. CASE CallbackStep
  BY <1>3
  DEF CallbackStep, AnnounceUp, AnnounceDown, SetConnected, SubscribeSystem,
      SubscribeActors, ClearConnected, ResetOptions, SetOptions, Reconnect
<1>4. CASE MqttReceive
  <2>1. pairs' \in 0..MaxPairs
    BY <1>4, GatewayAssumption DEF MqttReceive, Pairs
  <2>2. apc' \in {"idle", "send"} /\ (apc' # "idle" => pairs' > 0)
    BY <1>4, <2>1 DEF MqttReceive
  <2> QED
    BY <1>4, <2>1, <2>2 DEF MqttReceive
<1>5. CASE Send \/ SendConnects
  <2>1. pairs > 0 /\ NextPair
    BY <1>5 DEF Send, SendConnects
  <2>2. /\ pairs' \in 0..MaxPairs /\ apc' \in {"idle", "send"}
        /\ apc' # "idle" => pairs' > 0
    BY <2>1, GatewayAssumption DEF NextPair
  <2> QED
    BY <1>5, <2>2 DEF Send, SendConnects
<1>6. CASE SendFails \/ SendDisconnects
  BY <1>6 DEF SendFails, SendDisconnects
<1>7. CASE BridgeReceive
  BY <1>7 DEF BridgeReceive, Learns
<1>8. CASE Command \/ \E a \in {Mqtt, Bridge} : PubTimer(a)
  BY <1>8 DEF Command, PubTimer
<1>9. CASE UNCHANGED vars
  BY <1>9 DEF vars
<1>10. CASE \E topic \in Topics : Granted(topic) \/ Refused(topic)
  BY <1>10 DEF Granted, Refused, SubscribeEnds
<1> QED
  BY <1>1, <1>2, <1>3, <1>4, <1>5, <1>6, <1>7, <1>8, <1>9, <1>10
     DEF Next, MqttStep

(* The variables of the connection keep their types: mqtt's mailbox holds  *)
(* Publish messages and timers only, the handler never publishes more      *)
(* topics than the message has, and none after the last.                   *)
THEOREM GatewayTypeCorrect == Spec => []TypeOK
<1>1. Init => Mailboxes /\ Places
  <2> SUFFICES ASSUME Init PROVE Mailboxes /\ Places
    OBVIOUS
  <2>1. inbox[Mqtt] = <<>> /\ inbox[Bridge] = <<>> /\ DOMAIN inbox = {Mqtt, Bridge}
    BY DEF Init
  <2>2. <<>> \in Seq(MqttMessages) /\ <<>> \in Seq(BridgeMessages)
    OBVIOUS
  <2>3. Mailboxes
    BY <2>1, <2>2 DEF Mailboxes
  <2>4. pairs = 0 /\ 0 \in 0..MaxPairs
    BY GatewayAssumption DEF Init
  <2>5. Places
    BY <2>4 DEF Init, Places
  <2> QED
    BY <2>3, <2>5
<1>2. Mailboxes /\ Places /\ AskInv => TypeOK
  BY DEF Mailboxes, Places, AskInv, ClientTypes, OnConnect, OnConnectionLost,
         MqttMessages, BridgeMessages, TypeOK
<1> QED
  BY <1>1, <1>2, MailboxesNext, PlacesNext, AskInvariant, PTL DEF Spec
=============================================================================
