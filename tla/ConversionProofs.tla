-------------------------- MODULE ConversionProofs --------------------------
(***************************************************************************)
(* What the loops of Messages and Conversion return.  A loop is a          *)
(* recursive function, and the induction over its steps is by the least    *)
(* step that goes wrong: the induction theorems of the library take the    *)
(* induction hypothesis as an operator, which no prover here can           *)
(* instantiate, while the theorem that a set of natural numbers has a      *)
(* least element takes a set.                                              *)
(***************************************************************************)
EXTENDS Conversion, SequenceTheorems, WellFoundedInduction, TLAPS

(* A set of natural numbers has a least element.                           *)
LEMMA LeastElement ==
  ASSUME NEW T, T \subseteq Nat, T # {}
  PROVE  \E n \in T : \A k \in T : n <= k
<1>1. PICK x \in T : \A y \in T : ~ (<<y, x>> \in OpToRel(<, Nat))
  BY NatLessThanWellFounded, WFMin, Zenon
<1>2. \A x1, y1 \in Nat : y1 < x1 => <<y1, x1>> \in OpToRel(<, Nat)
  BY DEF OpToRel
<1>3. \A y \in T : ~(y < x)
  BY <1>1, <1>2, Zenon
<1> HIDE <1>1, <1>2
<1> QED
  BY <1>3

(* What holds before the first step of a loop of n steps and after each    *)
(* step before which it held, holds at its end.                            *)
LEMMA LoopInduction ==
  ASSUME NEW n \in Nat, NEW P,
         0 \in P,
         \A i \in 1..n : i - 1 \in P => i \in P
  PROVE  \A i \in 0..n : i \in P
<1> DEFINE T == 0..n \ P
<1> SUFFICES ASSUME T # {} PROVE FALSE
  OBVIOUS
<1>1. PICK k \in T : \A j \in T : k <= j
  <2>1. T \subseteq Nat
    OBVIOUS
  <2> HIDE DEF T
  <2> QED
    BY <2>1, LeastElement
<1>2. k \in 1..n /\ k - 1 \notin T
  BY <1>1
<1> QED
  BY <1>1, <1>2

(* The body of the loop of Filter, and n of its steps.                     *)
Keep(kept, e, S) == IF e \in S THEN Append(kept, e) ELSE kept

IsFilterRun(f, s, S, n) ==
  f = [i \in 0..n |-> IF i = 0 THEN <<>> ELSE Keep(f[i - 1], s[i], S)]

(* The loop of Filter ends.                                                *)
LEMMA FilterLoop ==
  ASSUME NEW s, NEW S, NEW n \in Nat
  PROVE  \E f : IsFilterRun(f, s, S, n)
<1> DEFINE P == {k \in Nat : \E f : IsFilterRun(f, s, S, k)}
<1>1. 0 \in P
  <2>1. IsFilterRun([i \in 0..0 |-> <<>>], s, S, 0)
    BY DEF IsFilterRun
  <2> QED
    BY <2>1
<1>2. ASSUME NEW i \in 1..n, i - 1 \in P
      PROVE  i \in P
  <2>1. PICK f : IsFilterRun(f, s, S, i - 1)
    BY <1>2
  <2> DEFINE g == [j \in 0..i |->
                     IF j = i THEN Keep(f[i - 1], s[i], S) ELSE f[j]]
  <2>2. \A j \in 0..(i - 1) :
          f[j] = IF j = 0 THEN <<>> ELSE Keep(f[j - 1], s[j], S)
    BY <2>1 DEF IsFilterRun
  <2>3. \A j \in 0..i :
          g[j] = IF j = 0 THEN <<>> ELSE Keep(g[j - 1], s[j], S)
    BY <2>2
  <2>4. IsFilterRun(g, s, S, i)
    <3>1. g = [j \in 0..i |-> g[j]]
      OBVIOUS
    <3> HIDE DEF g
    <3> QED
      BY <2>3, <3>1 DEF IsFilterRun
  <2> HIDE DEF g
  <2> QED
    BY <2>4
<1>3. n \in P
  <2> HIDE DEF P
  <2> QED
    BY <1>1, <1>2, LoopInduction
<1> QED
  BY <1>3

(* Filter is what its loop has after the last element.                     *)
LEMMA FilterDef ==
  ASSUME NEW s, NEW S, Len(s) \in Nat
  PROVE  \E f : /\ f[0] = <<>>
                /\ \A i \in 1..Len(s) : f[i] = Keep(f[i - 1], s[i], S)
                /\ Filter(s, S) = f[Len(s)]
<1> DEFINE K == CHOOSE f : IsFilterRun(f, s, S, Len(s))
<1>1. IsFilterRun(K, s, S, Len(s))
  BY FilterLoop
<1>2. Filter(s, S) = K[Len(s)]
  BY DEF Filter, IsFilterRun, Keep
<1> HIDE DEF K
<1>3. K[0] = <<>> /\ \A i \in 1..Len(s) : K[i] = Keep(K[i - 1], s[i], S)
  BY <1>1 DEF IsFilterRun
<1> QED
  BY <1>2, <1>3

(* Filter keeps elements of s that are in S.                               *)
LEMMA FilterRange ==
  ASSUME NEW M, NEW s \in Seq(M), NEW S
  PROVE  Filter(s, S) \in Seq(M \cap S)
<1>1. PICK f : /\ f[0] = <<>>
               /\ \A i \in 1..Len(s) : f[i] = Keep(f[i - 1], s[i], S)
               /\ Filter(s, S) = f[Len(s)]
  BY FilterDef
<1> DEFINE P == {i \in 0..Len(s) : f[i] \in Seq(M \cap S)}
<1>2. 0 \in P
  <2>1. <<>> \in Seq(M \cap S) /\ 0 \in 0..Len(s)
    OBVIOUS
  <2> QED
    BY <1>1, <2>1
<1>3. ASSUME NEW i \in 1..Len(s), i - 1 \in P
      PROVE  i \in P
  <2>1. s[i] \in M /\ i \in 0..Len(s)
    OBVIOUS
  <2>2. f[i] = Keep(f[i - 1], s[i], S) /\ f[i - 1] \in Seq(M \cap S)
    BY <1>1, <1>3
  <2>3. CASE s[i] \in S
    <3>1. Append(f[i - 1], s[i]) \in Seq(M \cap S)
      BY <2>1, <2>2, <2>3, AppendProperties
    <3> QED
      BY <2>1, <2>2, <2>3, <3>1 DEF Keep
  <2>4. CASE s[i] \notin S
    BY <2>1, <2>2, <2>4 DEF Keep
  <2> QED
    BY <2>3, <2>4
<1>4. Len(s) \in P
  <2>1. Len(s) \in Nat /\ Len(s) \in 0..Len(s)
    OBVIOUS
  <2> HIDE DEF P
  <2> QED
    BY <1>2, <1>3, <2>1, LoopInduction
<1> QED
  BY <1>1, <1>4

(* Filter of one message.                                                  *)
LEMMA FilterOne ==
  ASSUME NEW e, NEW S
  PROVE  Filter(<<e>>, S) = IF e \in S THEN <<e>> ELSE <<>>
<1>1. PICK f : /\ f[0] = <<>>
               /\ \A i \in 1..Len(<<e>>) : f[i] = Keep(f[i - 1], <<e>>[i], S)
               /\ Filter(<<e>>, S) = f[Len(<<e>>)]
  BY FilterDef
<1>2. Filter(<<e>>, S) = Keep(<<>>, e, S)
  BY <1>1
<1>3. Append(<<>>, e) = <<e>>
  OBVIOUS
<1> QED
  BY <1>2, <1>3 DEF Keep

(* The first of a sequence stays first if it is kept.                      *)
LEMMA FilterFirst ==
  ASSUME NEW M, NEW s \in Seq(M), s # <<>>, NEW S, s[1] \in S
  PROVE  Len(Filter(s, S)) > 0 /\ Filter(s, S)[1] = s[1]
<1>1. PICK f : /\ f[0] = <<>>
               /\ \A i \in 1..Len(s) : f[i] = Keep(f[i - 1], s[i], S)
               /\ Filter(s, S) = f[Len(s)]
  BY FilterDef
<1>2. Len(s) \in Nat /\ Len(s) > 0 /\ \A i \in 1..Len(s) : s[i] \in M
  OBVIOUS
<1> DEFINE Begins(t) == t \in Seq(M) /\ Len(t) > 0 /\ t[1] = s[1]
           P == {i \in 0..Len(s) : i > 0 => Begins(f[i])}
<1>3. 0 \in P
  BY <1>2
<1>4. ASSUME NEW i \in 1..Len(s), i - 1 \in P
      PROVE  i \in P
  <2>1. f[i] = Keep(f[i - 1], s[i], S) /\ s[i] \in M
    BY <1>1, <1>2
  <2>2. CASE i = 1
    <3>1. f[i] = Append(<<>>, s[1])
      BY <1>1, <2>1, <2>2 DEF Keep
    <3>2. Append(<<>>, s[1]) = <<s[1]>>
      OBVIOUS
    <3>3. Begins(<<s[1]>>)
      BY <1>2
    <3>4. i \in 0..Len(s)
      BY <1>2
    <3> HIDE DEF Begins
    <3> QED
      BY <3>1, <3>2, <3>3, <3>4
  <2>3. CASE i > 1
    <3>1. Begins(f[i - 1])
      BY <1>4, <2>3
    <3>2. \A t, e : Begins(t) /\ e \in M => Begins(Append(t, e))
      BY AppendProperties
    <3> HIDE DEF Begins
    <3>3. Begins(f[i])
      BY <2>1, <3>1, <3>2 DEF Keep
    <3> QED
      BY <3>3
  <2> QED
    BY <1>2, <2>2, <2>3
<1>5. Len(s) \in P
  <2>1. Len(s) \in Nat /\ Len(s) \in 0..Len(s)
    OBVIOUS
  <2> HIDE DEF P
  <2> QED
    BY <1>3, <1>4, <2>1, LoopInduction
<1> QED
  BY <1>1, <1>2, <1>5

(* What eb.publish sends is the event, to subscribers it fits.             *)
LEMMA PublishRange ==
  ASSUME NEW B, NEW bus \in Seq(B), NEW event
  PROVE  Publish(bus, event) \in
           Seq({[event EXCEPT !.dst = s.subscriber] :
                  s \in {b \in B : SameClassifier(event, b)}})
<1> DEFINE S == {s \in ToSet(bus) : SameClassifier(event, s)}
           fits == Filter(bus, S)
           C == {b \in B : SameClassifier(event, b)}
           E == {[event EXCEPT !.dst = s.subscriber] : s \in C}
<1>1. fits \in Seq(C)
  <2>1. fits \in Seq(B \cap S)
    <3> HIDE DEF S
    <3> QED
      BY FilterRange
  <2>2. B \cap S \subseteq C
    OBVIOUS
  <2> HIDE DEF fits, S, C
  <2> QED
    BY <2>1, <2>2, SeqMonotonic
<1>2. Publish(bus, event) =
        [i \in DOMAIN fits |-> [event EXCEPT !.dst = fits[i].subscriber]]
  BY DEF Publish
<1> HIDE DEF fits, C
<1>3. [i \in DOMAIN fits |-> [event EXCEPT !.dst = fits[i].subscriber]] \in Seq(E)
  <2>1. DOMAIN fits = 1..Len(fits) /\ Len(fits) \in Nat
    BY <1>1
  <2>2. \A i \in 1..Len(fits) : [event EXCEPT !.dst = fits[i].subscriber] \in E
    BY <1>1
  <2> HIDE DEF E
  <2> QED
    BY <2>1, <2>2
<1> QED
  BY <1>2, <1>3 DEF C

-----------------------------------------------------------------------------
(* A sequence of its own elements is a sequence of others they are among.  *)
LEMMA OwnElements ==
  ASSUME NEW S, NEW s \in Seq(S)
  PROVE  s \in Seq(ToSet(s))
<1>1. \A T : (\A i \in 1..Len(s) : s[i] \in T) => s \in Seq(T)
  OBVIOUS
<1>2. \A i \in 1..Len(s) : s[i] \in ToSet(s)
  BY DEF ToSet
<1> QED
  BY <1>1, <1>2

(* Lists: none, one, one after the other, one more.                        *)
LEMMA NoList == IsList(<<>>)
<1>1. <<>> \in Seq(ToSet(<<>>))
  OBVIOUS
<1> QED
  BY <1>1 DEF IsList

(* One.                                                                    *)
LEMMA OneList == ASSUME NEW e PROVE IsList(<<e>>)
<1>1. <<e>> \in Seq({e})
  OBVIOUS
<1> QED
  BY <1>1, OwnElements DEF IsList

(* One after the other.                                                    *)
LEMMA ConcatList ==
  ASSUME NEW s, NEW t, IsList(s), IsList(t)
  PROVE  IsList(s \o t)
<1> DEFINE T == ToSet(s) \cup ToSet(t)
<1>1. s \in Seq(T) /\ t \in Seq(T)
  BY SeqMonotonic DEF IsList
<1>2. s \o t \in Seq(T)
  BY <1>1, ConcatProperties
<1> HIDE DEF T
<1> QED
  BY <1>2, OwnElements DEF IsList

(* One more.                                                               *)
LEMMA AppendList ==
  ASSUME NEW s, NEW e, IsList(s)
  PROVE  IsList(Append(s, e))
<1> DEFINE T == ToSet(s) \cup {e}
<1>1. s \in Seq(T) /\ e \in T
  BY SeqMonotonic DEF IsList
<1>2. Append(s, e) \in Seq(T)
  BY <1>1, AppendProperties
<1> HIDE DEF T
<1> QED
  BY <1>2, OwnElements DEF IsList

(* Two.                                                                    *)
LEMMA TwoList == ASSUME NEW x, NEW y PROVE IsList(<<x, y>>)
<1>1. <<x, y>> \in Seq({x, y})
  OBVIOUS
<1> QED
  BY <1>1, OwnElements DEF IsList

(* What a loop keeps of a list.                                            *)
LEMMA FilterList ==
  ASSUME NEW s, NEW S, IsList(s)
  PROVE  IsList(Filter(s, S))
<1>1. Filter(s, S) \in Seq(ToSet(s) \cap S)
  BY FilterRange DEF IsList
<1> QED
  BY <1>1, OwnElements DEF IsList

(* The shape of a message.                                                 *)
IsMessage(m) == DOMAIN m = {"cls", "src", "dst", "fields"} /\ IsList(m.fields)

(* Messages as they are made.                                              *)
LEMMA MsgIs ==
  ASSUME NEW class
  PROVE  /\ IsMessage(Msg(class)) /\ Msg(class).cls = class
         /\ Msg(class).src = NoSender /\ Msg(class).dst = NoSender
  BY NoList DEF IsMessage, Msg

(* A field more.                                                           *)
LEMMA AddIs ==
  ASSUME NEW m, IsMessage(m), NEW field
  PROVE  LET x == Add(m, field) IN
         IsMessage(x) /\ x.cls = m.cls /\ x.src = m.src /\ x.dst = m.dst
<1>1. IsList(Append(m.fields, field))
  BY AppendList DEF IsMessage
<1> QED
  BY <1>1 DEF IsMessage, Add

(* Topics and payloads to publish.                                         *)
LEMMA PairsIs ==
  ASSUME NEW pairs, Len(pairs) \in Nat
  PROVE  IsMessage(PublishPairs(pairs)) /\ PublishPairs(pairs).cls = "mqttPublish"
<1> DEFINE n == 2 * Len(pairs)
           e(i) == LET p == pairs[(i + 1) \div 2] IN
                   IF i % 2 = 1 THEN [tag |-> "topic", val |-> <<"topic", p.topic>>]
                                ELSE [tag |-> "message", val |-> <<"json", p.payload>>]
           fields == [i \in 1..n |-> e(i)]
<1>1. PublishPairs(pairs) = [Msg("mqttPublish") EXCEPT !.fields = fields]
  BY DEF PublishPairs
<1>2. n \in Nat
  OBVIOUS
<1> HIDE DEF n, e
<1>3. fields \in Seq({e(i) : i \in 1..n})
  BY <1>2
<1>4. IsList(fields)
  BY <1>3, OwnElements DEF IsList
<1> HIDE DEF fields
<1> QED
  BY <1>1, <1>4 DEF Msg, IsMessage

(* One topic and payload to publish for each field of a message.           *)
LEMMA EventsIs ==
  ASSUME NEW m, IsMessage(m)
  PROVE  IsMessage(msgToJsonEvents(m)) /\ msgToJsonEvents(m).cls = "mqttPublish"
<1> DEFINE fields == Data(m)
           pair(i) == [topic   |-> Topic("src", m.src, fields[i].tag),
                       payload |-> ToJson(Null, fields[i])]
           pairs == [i \in DOMAIN fields |-> pair(i)]
<1>1. msgToJsonEvents(m) = PublishPairs(pairs)
  BY DEF msgToJsonEvents
<1>2. IsList(fields)
  BY FilterList DEF Data, IsMessage
<1> HIDE DEF fields, pair
<1>3. Len(pairs) \in Nat
  <2>1. DOMAIN fields = 1..Len(fields) /\ Len(fields) \in Nat
    BY <1>2 DEF IsList
  <2>2. pairs \in Seq({pair(i) : i \in DOMAIN fields})
    BY <2>1
  <2> QED
    BY <2>2
<1> HIDE DEF pairs
<1> QED
  BY <1>1, <1>3, PairsIs

(* What the loop of messageToMsg has made of a message m for a bridge that *)
(* knew some references: a message to the same receiver, of the same       *)
(* class, from somebody who is known now: the sender it had, or a name.    *)
IsReading(acc, m, known, names) ==
  /\ DOMAIN acc = {"ok", "known", "msg"}
  /\ known \subseteq acc.known
  /\ IsMessage(acc.msg)
  /\ acc.msg.src \in acc.known
  /\ acc.msg.src \in names \cup {m.src}
  /\ acc.msg.dst = m.dst /\ acc.msg.cls = m.cls

(* A key of an object does not change the receiver or the class.           *)
LEMMA ReadKeyKeeps ==
  ASSUME NEW acc, NEW m, NEW known, NEW names, NEW e, NEW payload,
         IsReading(acc, m, known, names),
         e.tag = "$SRC" => e.val[2] \in names,
         IsList(FromJson(e.tag, payload).fields)
  PROVE  IsReading(ReadKey(acc, e, payload), m, known, names)
<1> DEFINE x == FromJson(e.tag, payload)
           fields == acc.msg.fields \o x.fields
<1>1. IsList(fields)
  BY ConcatList DEF IsReading, IsMessage
<1>2. \/ ReadKey(acc, e, payload) = acc
      \/ /\ e.tag = "$SRC"
         /\ ReadKey(acc, e, payload) =
              [acc EXCEPT !.msg.src = e.val[2], !.known = @ \cup {e.val[2]}]
      \/ ReadKey(acc, e, payload) = [acc EXCEPT !.ok = x.ok, !.msg.fields = fields]
  BY DEF ReadKey, IsReading, IsMessage
<1> HIDE DEF fields, x
<1>3. CASE ReadKey(acc, e, payload) = acc
  BY <1>3
<1>4. CASE /\ e.tag = "$SRC"
           /\ ReadKey(acc, e, payload) =
                [acc EXCEPT !.msg.src = e.val[2], !.known = @ \cup {e.val[2]}]
  BY <1>4 DEF IsReading, IsMessage
<1>5. CASE ReadKey(acc, e, payload) = [acc EXCEPT !.ok = x.ok, !.msg.fields = fields]
  BY <1>1, <1>5 DEF IsReading, IsMessage
<1> QED
  BY <1>2, <1>3, <1>4, <1>5

IsReadRun(f, start, keys, payload, n) ==
  f = [i \in 0..n |-> IF i = 0 THEN start ELSE ReadKey(f[i - 1], keys[i], payload)]

(* The loop over the keys of an object ends.                               *)
LEMMA ReadLoop ==
  ASSUME NEW start, NEW keys, NEW payload, NEW n \in Nat
  PROVE  \E f : IsReadRun(f, start, keys, payload, n)
<1> DEFINE P == {k \in Nat : \E f : IsReadRun(f, start, keys, payload, k)}
<1>1. 0 \in P
  <2>1. IsReadRun([i \in 0..0 |-> start], start, keys, payload, 0)
    BY DEF IsReadRun
  <2> QED
    BY <2>1
<1>2. ASSUME NEW i \in 1..n, i - 1 \in P
      PROVE  i \in P
  <2>1. PICK f : IsReadRun(f, start, keys, payload, i - 1)
    BY <1>2
  <2> DEFINE g == [j \in 0..i |->
                     IF j = i THEN ReadKey(f[i - 1], keys[i], payload) ELSE f[j]]
  <2>2. \A j \in 0..(i - 1) :
          f[j] = IF j = 0 THEN start ELSE ReadKey(f[j - 1], keys[j], payload)
    BY <2>1 DEF IsReadRun
  <2>3. \A j \in 0..i :
          g[j] = IF j = 0 THEN start ELSE ReadKey(g[j - 1], keys[j], payload)
    BY <2>2
  <2>4. IsReadRun(g, start, keys, payload, i)
    <3>1. g = [j \in 0..i |-> g[j]]
      OBVIOUS
    <3> HIDE DEF g
    <3> QED
      BY <2>3, <3>1 DEF IsReadRun
  <2> HIDE DEF g
  <2> QED
    BY <2>4
<1>3. n \in P
  <2> HIDE DEF P
  <2> QED
    BY <1>1, <1>2, LoopInduction
<1> QED
  BY <1>3

(* The payload leaves the receiver and the class of the message as the     *)
(* topic made them, and whatever $SRC it names has a reference.            *)
LEMMA PayloadRead ==
  ASSUME NEW m, NEW payload, NEW known,
         IsMessage(m), m.src \in known, IsPayload(payload)
  PROVE  IsReading(messageToMsg(m, payload, known), m, known, Named(payload))
<1> DEFINE start == [ok |-> TRUE, known |-> known, msg |-> m]
           keys == payload[2]
           n == Len(keys)
           x == FromJson("value", payload)
           K == CHOOSE f : IsReadRun(f, start, keys, payload, n)
<1>1. IsReading(start, m, known, Named(payload))
  BY DEF IsReading
<1>2. CASE payload[1] = "text"
  <2>1. messageToMsg(m, payload, known) =
          [start EXCEPT !.msg = Add(m, Field("value", "BYTES", payload[2]))]
    BY <1>2 DEF messageToMsg
  <2> DEFINE added == Add(m, Field("value", "BYTES", payload[2]))
  <2>2. IsMessage(added) /\ added.src = m.src /\ added.dst = m.dst
        /\ added.cls = m.cls
    BY AddIs
  <2> HIDE DEF added
  <2>3. messageToMsg(m, payload, known) = [start EXCEPT !.msg = added]
    BY <2>1 DEF added
  <2> QED
    BY <2>2, <2>3 DEF IsReading
<1>3. CASE payload[1] = "object"
  <2>1. messageToMsg(m, payload, known) = K[n]
    BY <1>3 DEF messageToMsg, IsReadRun
  <2>2. /\ keys \in Seq(ToSet(keys)) /\ n \in Nat /\ 0 \in 0..n
        /\ \A e \in ToSet(keys) : IsList(FromJson(e.tag, payload).fields)
    BY <1>3 DEF IsPayload, IsList
  <2>3. IsReadRun(K, start, keys, payload, n)
    <3> HIDE DEF start, keys, n
    <3> QED
      BY <2>2, ReadLoop
  <2> DEFINE names == Named(payload)
  <2> HIDE DEF K, start, n
  <2>4. K[0] = start /\ \A i \in 1..n : K[i] = ReadKey(K[i - 1], keys[i], payload)
    <3> HIDE DEF keys
    <3> QED
      BY <2>2, <2>3 DEF IsReadRun
  <2> DEFINE P == {i \in Nat : IsReading(K[i], m, known, names)}
  <2>5. 0 \in P
    <3> HIDE DEF names
    <3> QED
      BY <1>1, <2>4 DEF names
  <2>6. ASSUME NEW i \in 1..n, i - 1 \in P
        PROVE  i \in P
    <3>1. IsReading(K[i - 1], m, known, names) /\ i \in Nat
      BY <2>6
    <3>2. /\ keys[i].tag = "$SRC" => keys[i].val[2] \in names
          /\ IsList(FromJson(keys[i].tag, payload).fields)
      <4>1. keys[i] \in ToSet(keys)
        BY <2>2 DEF n
      <4> QED
        BY <1>3, <2>2, <4>1 DEF Named
    <3> HIDE DEF keys, names
    <3>3. IsReading(ReadKey(K[i - 1], keys[i], payload), m, known, names)
      BY <3>1, <3>2, ReadKeyKeeps
    <3> QED
      BY <2>4, <3>1, <3>3
  <2>7. n \in P
    <3>1. n \in Nat /\ n \in 0..n
      BY <2>2
    <3> HIDE DEF P, keys
    <3> QED
      BY <2>5, <2>6, <3>1, LoopInduction
  <2> QED
    BY <2>1, <2>7 DEF n
<1>4. CASE payload[1] \notin {"text", "object"}
  <2>1. messageToMsg(m, payload, known) =
          [start EXCEPT !.ok = x.ok, !.msg.fields = @ \o x.fields]
    BY <1>4 DEF messageToMsg
  <2> DEFINE fields == m.fields \o x.fields
  <2>2. messageToMsg(m, payload, known) =
          [start EXCEPT !.ok = x.ok, !.msg.fields = fields]
    BY <2>1
  <2>3. IsList(fields)
    BY <1>4, ConcatList DEF IsPayload, IsMessage
  <2> HIDE DEF fields
  <2> QED
    BY <1>1, <2>2, <2>3 DEF IsReading, IsMessage
<1> QED
  BY <1>2, <1>3, <1>4

(* The topic gives the message a sender that is known, if it gives one,    *)
(* and a receiver that was known before.                                   *)
LEMMA TopicRead ==
  ASSUME NEW m, NEW topic, NEW known, IsMessage(m), m.src \in known
  PROVE  LET t == topicToMsg(m, topic, known) IN
         /\ known \subseteq t.known
         /\ IsMessage(t.msg)
         /\ t.msg.src \in t.known
         /\ t.msg.dst \in known \cup {m.dst}
         /\ t.ok => Len(topic) >= 3 /\ t.msg.cls = topic[3]
         /\ t.ok /\ t.msg.dst # m.dst =>
              topic[1] = "dst" /\ topic[2] = t.msg.dst /\ t.msg.src = m.src
  BY DEF topicToMsg, IsMessage

(* What comes in is from a sender that the bridge knows then, for a        *)
(* receiver that it knew, if any, and of the class of the topic; a command *)
(* is from a sender that its payload names, or from nobody.                *)
LEMMA IncomingSound ==
  ASSUME NEW topic, NEW payload, NEW known,
         IsPayload(payload)
  PROVE  LET x == Incoming(topic, payload, known) IN
         /\ known \cup {NoSender} \subseteq x.known
         /\ IsMessage(x.msg)
         /\ x.msg.src \in x.known
         /\ x.msg.dst \in known \cup {NoSender}
         /\ x.ok => Len(topic) >= 3 /\ x.msg.cls = topic[3]
         /\ x.ok /\ x.msg.dst # NoSender =>
              /\ topic[1] = "dst" /\ topic[2] = x.msg.dst
              /\ x.msg.src \in Named(payload) \cup {NoSender}
<1> DEFINE empty == Msg(NoSender)
           refs == known \cup {NoSender}
           t == topicToMsg(empty, topic, refs)
<1>1. IsMessage(empty) /\ empty.src = NoSender /\ empty.dst = NoSender
  BY MsgIs
<1> HIDE DEF empty
<1>2. /\ refs \subseteq t.known
      /\ IsMessage(t.msg)
      /\ t.msg.src \in t.known
      /\ t.msg.dst \in refs
      /\ t.ok => Len(topic) >= 3 /\ t.msg.cls = topic[3]
      /\ t.ok /\ t.msg.dst # NoSender =>
           topic[1] = "dst" /\ topic[2] = t.msg.dst /\ t.msg.src = NoSender
  <2> HIDE DEF refs
  <2> QED
    BY <1>1, TopicRead DEF refs
<1>3. CASE t.ok
  <2>1. Incoming(topic, payload, known) = messageToMsg(t.msg, payload, t.known)
    BY <1>3 DEF Incoming, empty
  <2> HIDE DEF t
  <2>2. IsReading(messageToMsg(t.msg, payload, t.known), t.msg, t.known, Named(payload))
    BY <1>2, PayloadRead
  <2> QED
    BY <1>2, <1>3, <2>1, <2>2 DEF IsReading
<1>4. CASE ~t.ok
  <2>1. Incoming(topic, payload, known) = t
    BY <1>4 DEF Incoming, empty
  <2> HIDE DEF t
  <2> QED
    BY <1>2, <1>4, <2>1
<1> QED
  BY <1>3, <1>4
-----------------------------------------------------------------------------
(* Commands that go out                                                    *)

NoneCounted == [tag |-> "0", count |-> 0, unread |-> <<>>]
ClassCounted == [tag |-> "$CLS", count |-> 1, unread |-> <<>>]

(* The loop of fieldCount over n fields.                                   *)
IsCountRun(f, fields, n) ==
  f = [i \in 0..n |-> IF i = 0 THEN NoneCounted ELSE CountField(f[i - 1], fields[i])]

(* fieldCount finds one field in every message, which is $CLS.             *)
LEMMA ClassIsCounted ==
  ASSUME NEW m, IsMessage(m)
  PROVE  fieldCount(m) = ClassCounted
<1> DEFINE all == AllFields(m)
           n == Len(all)
           K == CHOOSE f : IsCountRun(f, all, n)
<1>1. n \in Nat /\ n > 0 /\ all[1].tag = "$CLS"
  <2> DEFINE first == <<Field("$CLS", "UINT", m.cls), Field("$SRC", "UINT", m.src),
                        Field("$DST", "UINT", m.dst)>>
  <2>1. all = first \o m.fields
    BY DEF AllFields
  <2> DEFINE T == ToSet(m.fields) \cup {first[1], first[2], first[3]}
  <2>2. m.fields \in Seq(T)
    <3>1. m.fields \in Seq(ToSet(m.fields))
      BY DEF IsMessage, IsList
    <3> HIDE DEF first
    <3> QED
      BY <3>1, SeqMonotonic
  <2>3. Len(first) = 3 /\ first[1].tag = "$CLS"
    BY DEF Field
  <2>4. first \in Seq(T)
    OBVIOUS
  <2> HIDE DEF first, all, T
  <2>5. Len(all) = 3 + Len(m.fields) /\ all[1] = first[1] /\ Len(m.fields) \in Nat
    <3>1. Len(first \o m.fields) = Len(first) + Len(m.fields)
      BY <2>2, <2>4, ConcatProperties
    <3>2. 1 \in 1..(Len(first) + Len(m.fields)) /\ Len(m.fields) \in Nat
      BY <2>2, <2>3
    <3>3. (first \o m.fields)[1] = first[1]
      BY <2>2, <2>3, <2>4, <3>2, ConcatProperties
    <3> QED
      BY <2>1, <2>3, <3>1, <3>2, <3>3
  <2> QED
    BY <2>3, <2>5
<1>2. fieldCount(m) = K[n]
  BY DEF fieldCount, IsCountRun, NoneCounted
<1> HIDE DEF all, n
<1>3. /\ \A f : CountField(ClassCounted, f) = ClassCounted
      /\ \A f : f.tag = "$CLS" => CountField(NoneCounted, f) = ClassCounted
  <2>1. \A f : CountField(ClassCounted, f) = ClassCounted
    BY DEF CountField, ClassCounted
  <2>2. ASSUME NEW f, f.tag = "$CLS"
        PROVE  CountField(NoneCounted, f) = ClassCounted
    <3>1. CountField(NoneCounted, f) =
            [NoneCounted EXCEPT !.tag = f.tag, !.count = NoneCounted.count + 1]
      BY DEF CountField, NoneCounted
    <3>2. NoneCounted.count + 1 = 1
      BY DEF NoneCounted
    <3> QED
      BY <2>2, <3>1, <3>2 DEF NoneCounted, ClassCounted
  <2> QED
    BY <2>1, <2>2
<1>4. \E f : IsCountRun(f, all, n)
  <2> DEFINE g == [i \in 0..n |-> IF i = 0 THEN NoneCounted ELSE ClassCounted]
  <2>1. \A i \in 0..n :
          g[i] = IF i = 0 THEN NoneCounted ELSE CountField(g[i - 1], all[i])
    <3>1. ASSUME NEW i \in 0..n
          PROVE  g[i] = IF i = 0 THEN NoneCounted ELSE CountField(g[i - 1], all[i])
      <4>1. CASE i = 0
        BY <4>1
      <4>2. CASE i = 1
        BY <1>1, <1>3, <4>2
      <4>3. CASE i > 1
        <5>1. g[i - 1] = ClassCounted /\ g[i] = ClassCounted
          BY <1>1, <4>3
        <5> QED
          BY <1>3, <4>3, <5>1
      <4> QED
        BY <1>1, <4>1, <4>2, <4>3
    <3> QED
      BY <3>1
  <2>2. g = [i \in 0..n |-> g[i]]
    OBVIOUS
  <2> HIDE DEF g
  <2>3. IsCountRun(g, all, n)
    BY <2>1, <2>2 DEF IsCountRun
  <2> QED
    BY <2>3
<1>5. IsCountRun(K, all, n)
  BY <1>4
<1> HIDE DEF K
<1>6. /\ K[0] = NoneCounted
      /\ \A i \in 1..n : K[i] = CountField(K[i - 1], all[i])
  BY <1>1, <1>5 DEF IsCountRun
<1> DEFINE P == {i \in 0..n : i > 0 => K[i] = ClassCounted}
<1>7. 0 \in P
  BY <1>1
<1>8. ASSUME NEW i \in 1..n, i - 1 \in P
      PROVE  i \in P
  <2>1. CASE i = 1
    BY <1>1, <1>3, <1>6, <2>1
  <2>2. CASE i > 1
    BY <1>1, <1>3, <1>6, <1>8, <2>2
  <2> QED
    BY <1>1, <2>1, <2>2
<1>9. n \in P
  <2>1. n \in 0..n
    BY <1>1
  <2> HIDE DEF P
  <2> QED
    BY <1>1, <1>7, <1>8, <2>1, LoopInduction
<1> QED
  BY <1>1, <1>2, <1>9

(* Bridge.cpp:320-438: whatever the fields of a command, and whoever sent  *)
(* it, what is published under its topic is {}.                            *)
THEOREM CommandIsEmpty ==
  ASSUME NEW m, IsMessage(m)
  PROVE  msgToJsonCmd(m) =
           [topic |-> Topic("dst", m.dst, m.cls), payload |-> <<"object", <<>>>>]
<1> DEFINE counted == fieldCount(m)
           next == SubSeq(counted.unread, 1, Min({1, Len(counted.unread)}))
           read == IF counted.count = 1
                   THEN Filter(next, {f \in ToSet(next) : f.tag = counted.tag})
                   ELSE counted.unread
           K == CHOOSE object : object = [i \in 0..Len(read) |->
                  IF i = 0 THEN <<>> ELSE CommandEntry(object[i - 1], read[i])]
<1>1. msgToJsonCmd(m) = [topic |-> Topic("dst", m.dst, m.cls),
                         payload |-> <<"object", K[Len(read)]>>]
  BY DEF msgToJsonCmd
<1>2. counted.unread = <<>> /\ counted.count = 1
  BY ClassIsCounted DEF ClassCounted
<1>3. next = <<>>
  <2>1. Len(<<>>) = 0
    OBVIOUS
  <2>2. Min({1, 0}) = 0
    BY DEF Min
  <2>3. SubSeq(<<>>, 1, 0) = <<>>
    OBVIOUS
  <2> QED
    BY <1>2, <2>1, <2>2, <2>3
<1> HIDE DEF counted, next
<1>4. \A S : Filter(<<>>, S) = <<>>
  <2>1. Len(<<>>) = 0
    OBVIOUS
  <2> QED
    BY <2>1, FilterDef
<1>5. read = <<>>
  BY <1>2, <1>3, <1>4
<1> HIDE DEF read
<1>6. Len(read) = 0
  BY <1>5
<1>7. K[0] = <<>>
  <2> DEFINE IsObject(f) == f = [i \in 0..0 |->
               IF i = 0 THEN <<>> ELSE CommandEntry(f[i - 1], read[i])]
  <2>1. IsObject([i \in 0..0 |-> <<>>])
    OBVIOUS
  <2>2. K = CHOOSE f : IsObject(f)
    BY <1>6
  <2>3. IsObject(K)
    <3> HIDE DEF IsObject, K
    <3> QED
      BY <2>1, <2>2
  <2> HIDE DEF K
  <2> QED
    BY <2>3
<1> QED
  BY <1>1, <1>6, <1>7

(* The bridge of the peer reads a command without fields and finds the     *)
(* receiver it has a reference to, and the class.                          *)
LEMMA EmptyRead ==
  ASSUME NEW dst, dst # NoSender, NEW cls
  PROVE  LET x == Incoming(Topic("dst", dst, cls), <<"object", <<>>>>, {dst}) IN
         x.ok /\ x.msg.dst = dst /\ x.msg.cls = cls
<1> DEFINE topic == Topic("dst", dst, cls)
           payload == <<"object", <<>>>>
           empty == Msg(NoSender)
           refs == {dst} \cup {NoSender}
           t == topicToMsg(empty, topic, refs)
           start == [ok |-> TRUE, known |-> t.known, msg |-> t.msg]
           K == CHOOSE f : IsReadRun(f, start, <<>>, payload, Len(<<>>))
<1>1. topic = <<"dst", dst, cls>> /\ Len(topic) = 3
  BY DEF Topic
<1>2. IsMessage(empty)
  BY MsgIs
<1>3. t.ok /\ t.msg.dst = dst /\ t.msg.cls = cls
  <2>1. topic[1] = "dst" /\ topic[2] = dst /\ topic[3] = cls /\ dst \in refs
    BY <1>1
  <2> DEFINE to == [empty EXCEPT !.dst = dst]
  <2> HIDE DEF empty, topic, refs
  <2>2. t = [ok |-> TRUE, known |-> refs, msg |-> [to EXCEPT !.cls = cls]]
    BY <1>1, <2>1 DEF topicToMsg
  <2>3. to.dst = dst /\ DOMAIN to = {"cls", "src", "dst", "fields"}
    BY <1>2 DEF IsMessage
  <2> HIDE DEF to, t
  <2> QED
    BY <2>2, <2>3
<1>4. Incoming(topic, payload, {dst}) = messageToMsg(t.msg, payload, t.known)
  BY <1>3 DEF Incoming
<1> HIDE DEF t
<1>5. messageToMsg(t.msg, payload, t.known) = K[Len(<<>>)]
  BY DEF messageToMsg, IsReadRun
<1>6. Len(<<>>) = 0
  OBVIOUS
<1> HIDE DEF start
<1>7. K[0] = start
  <2>1. IsReadRun(K, start, <<>>, payload, Len(<<>>))
    BY <1>6, ReadLoop
  <2> HIDE DEF K
  <2> QED
    BY <1>6, <2>1 DEF IsReadRun
<1> QED
  BY <1>3, <1>4, <1>5, <1>6, <1>7 DEF start
=============================================================================
