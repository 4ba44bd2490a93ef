----------------------------- MODULE Conversion -----------------------------
(***************************************************************************)
(* What the bridge makes of a message on its way to MQTT, and of a topic   *)
(* and a payload on their way in.                                          *)
(*                                                                         *)
(* A topic is the sequence <<kind, path, leaf>>; one with fewer than three *)
(* slashes is shorter.  A payload is a JSON value <<kind, value>>, where   *)
(* an object is a sequence of [tag, val] with distinct tags, a "fraction"  *)
(* is a number that is not an integer, "text" is no JSON, and "null"       *)
(* stands for the values that jsonToXdr does not know.  JSON does not tell *)
(* signed from unsigned, and the message that comes in does not, either.   *)
(*                                                                         *)
(* How one value is converted is a parameter, given in JsonValues: what    *)
(* becomes of the class, the sender and the receiver does not depend on it.*)
(***************************************************************************)
EXTENDS Messages

CONSTANTS
  ToJson(_, _),     (* xdrTagToJson: a field into a JSON value             *)
  FromJson(_, _)    (* jsonToXdr: the fields that a value under a name     *)
                    (* appends, and whether it could be converted          *)

Null == <<"null", 0>>

Topic(kind, path, leaf) ==
  IF path = NoSender THEN <<kind, path \o "/" \o leaf>>
                     ELSE <<kind, path, leaf>>

(* object[tag] = val                                                       *)
SetKey(entries, tag, val) ==
  LET entry == [tag |-> tag, val |-> val] IN
  IF \E i \in DOMAIN entries : entries[i].tag = tag
  THEN [i \in DOMAIN entries |->
          IF entries[i].tag = tag THEN entry ELSE entries[i]]
  ELSE Append(entries, entry)

JsonKind == [BYTES |-> "string", UINT |-> "number", INT |-> "number",
             FLOAT |-> "fraction", BOOL |-> "bool"]

(* The topics and payloads of one message mqttPublish.                     *)
PublishPairs(pairs) ==
  [Msg("mqttPublish") EXCEPT !.fields =
     [i \in 1..(2 * Len(pairs)) |->
        LET p == pairs[(i + 1) \div 2] IN
        IF i % 2 = 1 THEN [tag |-> "topic", val |-> <<"topic", p.topic>>]
                     ELSE [tag |-> "message", val |-> <<"json", p.payload>>]]]

(* The fields that are no part of a message's address.                     *)
Data(m) == Filter(m.fields, {f \in ToSet(m.fields) : f.tag \notin Meta})

(* A BOOL is read with get, not getNext: it is that of the first field with*)
(* the tag, and the cursor is behind that one then.  A second BOOL of a    *)
(* name is therefore reached again and again, and the loop does not end.   *)
GoesBack(fields) ==
  \E i, j \in DOMAIN fields :
    j < i /\ fields[i].val[1] = "BOOL" /\ fields[j].tag = fields[i].tag

(* Mutant: the topic has the name of the receiver.                         *)
msgToJsonEventsDst(m) ==
  LET fields == Data(m) IN
  PublishPairs([i \in DOMAIN fields |->
    [topic   |-> Topic("src", m.dst, fields[i].tag),
     payload |-> ToJson(Null, fields[i])]])

(* One topic for each field of the message, under the name of its sender,  *)
(* unless the loop goes back.                                              *)
msgToJsonEvents(m) ==
  LET fields == Data(m) IN
  PublishPairs([i \in DOMAIN fields |->
    [topic   |-> Topic("src", m.src, fields[i].tag),
     payload |-> ToJson(Null, fields[i])]])

(* fieldCount looks at the tag it returns, which is 0 at first, and not at *)
(* the field it has reached.                                               *)
CountField(acc, f) ==
  IF acc.tag \in {"$DST", "$SRC", "$CLS"} THEN acc
  ELSE [acc EXCEPT !.tag = f.tag, !.count = @ + 1]

(* It leaves no field of the message unread.                               *)
fieldCount(m) ==
  LET seen[i \in 0..Len(AllFields(m))] ==
        IF i = 0 THEN [tag |-> "0", count |-> 0, unread |-> <<>>]
        ELSE CountField(seen[i - 1], AllFields(m)[i])
  IN  seen[Len(AllFields(m))]

(* A field of a command: $SRC goes by name, $DST and $CLS and values that  *)
(* are neither strings nor numbers are skipped.                            *)
CommandEntry(entries, f) ==
  IF f.tag \in {"$DST", "$CLS"} \/ f.val[1] \in {"BOOL", "OBJECT"}
  THEN entries
  ELSE SetKey(entries, f.tag,
              <<IF f.tag = "$SRC" THEN "string" ELSE JsonKind[f.val[1]],
                f.val[2]>>)

(* Mutant: the topic has the name of the sender.                           *)
msgToJsonCmdSrc(m) ==
  [topic |-> Topic("dst", m.src, m.cls), payload |-> <<"object", <<>>>>]

(* The field that was counted, if it is the only one and the next to read; *)
(* otherwise all that are yet to read.                                     *)
msgToJsonCmd(m) ==
  LET counted == fieldCount(m)
      next    == SubSeq(counted.unread, 1, Min({1, Len(counted.unread)}))
      read    == IF counted.count = 1
                 THEN Filter(next, {f \in ToSet(next) : f.tag = counted.tag})
                 ELSE counted.unread
      object[i \in 0..Len(read)] ==
        IF i = 0 THEN <<>> ELSE CommandEntry(object[i - 1], read[i])
  IN  [topic   |-> Topic("dst", m.dst, m.cls),
       payload |-> <<"object", object[Len(read)]>>]

-----------------------------------------------------------------------------
XdrType(json) ==
  CASE json[1] = "string"   -> "BYTES"
    [] json[1] = "number"   -> IF json[2] >= 0 THEN "UINT" ELSE "INT"
    [] json[1] = "fraction" -> "FLOAT"
    [] json[1] = "bool"     -> "BOOL"

(* What a key of an object does to acc: the message so far, the references *)
(* known so far, and whether all went well.  $SRC creates a remote         *)
(* reference; every other key adds the whole object once more.             *)
ReadKey(acc, e, payload) ==
  IF ~acc.ok THEN acc
  ELSE IF e.tag = "$SRC"
  THEN [acc EXCEPT !.msg.src = e.val[2], !.known = @ \cup {e.val[2]}]
  ELSE LET x == FromJson(e.tag, payload) IN
       [acc EXCEPT !.ok = x.ok, !.msg.fields = @ \o x.fields]

(* The payload into the message.                                           *)
messageToMsg(m, payload, known) ==
  LET start == [ok |-> TRUE, known |-> known, msg |-> m]
      keys == payload[2]
      read[i \in 0..Len(keys)] ==
        IF i = 0 THEN start ELSE ReadKey(read[i - 1], keys[i], payload)
  IN  CASE payload[1] = "text" ->
             [start EXCEPT !.msg = Add(m, Field("value", "BYTES", payload[2]))]
        [] payload[1] = "object" -> read[Len(keys)]
        [] OTHER ->
             LET x == FromJson("value", payload) IN
             [start EXCEPT !.ok = x.ok, !.msg.fields = @ \o x.fields]

(* The names that a payload gives for its sender.                          *)
Named(payload) ==
  IF payload[1] = "object"
  THEN {e.val[2] : e \in {k \in ToSet(payload[2]) : k.tag = "$SRC"}}
  ELSE {}

(* A payload whose keys, if any, and the fields it becomes are lists.      *)
IsList(s) == s \in Seq(ToSet(s))

IsPayload(payload) ==
  CASE payload[1] = "text" -> TRUE
    [] payload[1] = "object" ->
         /\ IsList(payload[2])
         /\ \A e \in ToSet(payload[2]) : IsList(FromJson(e.tag, payload).fields)
    [] OTHER -> IsList(FromJson("value", payload).fields)

(* The topic into the message: commands need a reference to the actor they *)
(* name, events create one.                                                *)
topicToMsg(m, topic, known) ==
  LET fails == [ok |-> FALSE, known |-> known, msg |-> m]
      named(msg, refs) ==
        [ok |-> TRUE, known |-> refs, msg |-> [msg EXCEPT !.cls = topic[3]]]
  IN  IF Len(topic) < 3 THEN fails
      ELSE CASE topic[1] = "dst" ->
                  IF topic[2] \in known
                  THEN named([m EXCEPT !.dst = topic[2]], known) ELSE fails
             [] topic[1] = "src" ->
                  named([m EXCEPT !.src = topic[2]], known \cup {topic[2]})
             [] OTHER -> named(m, known)

(* Mutant: a name that comes in gets no reference.                         *)
IncomingForgets(topic, payload, known) ==
  LET t == topicToMsg(Msg(NoSender), topic, known \cup {NoSender}) IN
  IF t.ok THEN [messageToMsg(t.msg, payload, t.known) EXCEPT !.known = known]
          ELSE t

(* The message for a topic and a payload, for a bridge that knows some     *)
(* references, and the references it knows then.                           *)
Incoming(topic, payload, known) ==
  LET t == topicToMsg(Msg(NoSender), topic, known \cup {NoSender}) IN
  IF t.ok THEN messageToMsg(t.msg, payload, t.known) ELSE t
=============================================================================
