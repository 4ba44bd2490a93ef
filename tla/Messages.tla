------------------------------ MODULE Messages ------------------------------
(***************************************************************************)
(* Messages as actors build, send and match them.  A Msg is an Xdr: a      *)
(* sequence of tagged values, of which $CLS, $SRC and $DST are always the  *)
(* first three and are overwritten in place; everything else is appended.  *)
(* A value is <<type, value>> with a type of Xdr; a Uid is its label, and  *)
(* the Uid 0 is that of NoSender.                                          *)
(***************************************************************************)
EXTENDS Integers, Sequences, SequencesExt

NoSender == "NoSender"
Meta     == {"$DST", "$SRC", "$CLS", "$ID"}

Field(tag, type, value) == [tag |-> tag, val |-> <<type, value>>]

(* Msg(cls), and msgBuilder(cls): clear() and cls(cls).                    *)
Msg(class) ==
  [cls |-> class, src |-> NoSender, dst |-> NoSender, fields |-> <<>>]

Add(m, field) == [m EXCEPT !.fields = Append(@, field)]

(* The message from its first field on, as rewind, peek and skip see it.   *)
AllFields(m) ==
  <<Field("$CLS", "UINT", m.cls), Field("$SRC", "UINT", m.src),
    Field("$DST", "UINT", m.dst)>> \o m.fields

(* get finds the first field with a tag.                                   *)
Has(m, tag) == \E i \in DOMAIN m.fields : m.fields[i].tag = tag
Get(m, tag) == m.fields[SelectInSeq(m.fields, LAMBDA f : f.tag = tag)].val
GetsString(m, tag) == Has(m, tag) /\ Get(m, tag)[1] = "BYTES"

Id(m) == IF Has(m, "$ID") THEN Get(m, "$ID")[2] ELSE 0

(* Mutant: the answer has the class of the request.                        *)
ReplySameClass(req) ==
  Add([Msg(req.cls) EXCEPT !.src = req.dst, !.dst = req.src],
      Field("$ID", "UINT", Id(req)))

(* The label of the request with "Reply" after it, for the requests that   *)
(* an actor of the repository answers.                                     *)
ReplyClass(class) ==
  CASE class = "ping" -> "pingReply"
    [] class = "get" -> "getReply"
    [] class = "clear" -> "clearReply"
    [] class = "set" -> "setReply"
    [] class = "Properties" -> "PropertiesReply"

(* replyBuilder(req): to the sender, with the request's $ID, 0 if it has   *)
(* none, and a class that says which request is answered.                  *)
Reply(req) ==
  Add([Msg(ReplyClass(req.cls)) EXCEPT !.src = req.dst, !.dst = req.src],
      Field("$ID", "UINT", Id(req)))

(* tell(m, from) of the reference to.                                      *)
Told(m, from, to) == [m EXCEPT !.src = from, !.dst = to]

-----------------------------------------------------------------------------
(* A loop over a sequence that keeps what is in S.  It is SelectSeq with a *)
(* set for the test, so that lemmas can be stated about it.                *)
Filter(s, S) ==
  LET kept[i \in 0..Len(s)] ==
        IF i = 0 THEN <<>>
        ELSE IF s[i] \in S THEN Append(kept[i - 1], s[i]) ELSE kept[i - 1]
  IN  kept[Len(s)]

(* The event bus.  A subscription is [subscriber, src, cls].               *)

Covers(a, b) == a = b \/ a = NoSender \/ b = NoSender

(* MessageClassifier::operator==, where 0 stands for any source or class.  *)
SameClassifier(a, b) == Covers(a.src, b.src) /\ Covers(a.cls, b.cls)

(* eb.publish: the event once for each subscription it fits, in the order  *)
(* in which they were made, addressed to the subscriber.                   *)
Publish(bus, event) ==
  LET fits == Filter(bus, {s \in ToSet(bus) : SameClassifier(event, s)}) IN
  [i \in DOMAIN fits |-> [event EXCEPT !.dst = fits[i].subscriber]]
=============================================================================
