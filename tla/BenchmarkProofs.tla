--------------------------- MODULE BenchmarkProofs ---------------------------
(***************************************************************************)
(* A test of the benchmark is one ball in play, whatever else the actors   *)
(* tell each other, as long as peers leave it alone (PeersLeaveBenchmark). *)
(*                                                                         *)
(* Game is the invariant.  It says more than OneBall: that a ball is a     *)
(* ping for echo or a pong for sender and has a number in it, that no pong *)
(* for sender is anything else, and that the start of a test waits only    *)
(* while no ball is in play.  Steps come in two kinds.  Moves (Rally) take *)
(* the only ball, or the start, from one player's mailbox and put a ball   *)
(* into the other's.  All other steps take no ball away and tell only what *)
(* is Quiet, and Game depends on nothing but where the other messages are  *)
(* (ShiftedGame).                                                          *)
(***************************************************************************)
EXTENDS NodeProofs

Players == {"sender", "echo"}

(* A counter that get finds.                                               *)
CountOk(m) == Get(m, "counter")[2] \in 0..MaxCount

InPlay(a, i) == i \in DOMAIN inbox[a] /\ IsBall(inbox[a][i])

(* What the balls are: a pong for sender, a ping for echo.                 *)
BallsShaped ==
  /\ \A i \in DOMAIN inbox["sender"] :
       LET m == inbox["sender"][i] IN
       (IsBall(m) <=> m.cls = "pingReply") /\ (IsBall(m) => CountOk(m))
  /\ \A i \in DOMAIN inbox["echo"] :
       LET m == inbox["echo"][i] IN IsBall(m) => m.cls = "ping" /\ CountOk(m)

(* There is one in play at most, and one during a test.                    *)
NoSecond ==
  \A a, b \in Players : \A i \in DOMAIN inbox[a], j \in DOMAIN inbox[b] :
    InPlay(a, i) /\ InPlay(b, j) => a = b /\ i = j

SomeInPlay == \E a \in Players : \E i \in DOMAIN inbox[a] : InPlay(a, i)

(* A test that is yet to start is the only one, and no ball is in play.    *)
StartWaits ==
  \A i \in DOMAIN inbox["sender"] :
    inbox["sender"][i].cls = "StartTest" =>
      /\ ~testing /\ ~SomeInPlay
      /\ \A j \in DOMAIN inbox["sender"] :
           inbox["sender"][j].cls = "StartTest" => i = j

Game ==
  /\ BallsShaped /\ NoSecond /\ StartWaits
  /\ testing => SomeInPlay
  /\ counter \in 0..MaxCount

(* A message that is no part of the game.                                  *)
Quiet(e) ==
  ~IsBall(e) /\ (e.dst = "sender" => e.cls \notin {"StartTest", "pingReply"})

AllQuiet(ms) == ms \in Seq(ToSet(ms)) /\ \A e \in ToSet(ms) : Quiet(e)

(* The mailbox of b after a step that was no part of the game: without its *)
(* first d messages, and with more behind.                                 *)
Shifted(b, d) ==
  /\ \A i \in DOMAIN inbox'[b] :
       \/ i + d \in DOMAIN inbox[b] /\ inbox'[b][i] = inbox[b][i + d]
       \/ Quiet(inbox'[b][i]) /\ inbox'[b][i].dst = b
  /\ \A i \in DOMAIN inbox[b] :
       i > d => i - d \in DOMAIN inbox'[b] /\ inbox'[b][i - d] = inbox[b][i]
  /\ \A i \in DOMAIN inbox[b] : i <= d => ~IsBall(inbox[b][i])
  /\ DOMAIN inbox[b] \subseteq Nat \ {0} /\ DOMAIN inbox'[b] \subseteq Nat \ {0}

(* The elements of two sequences, one after the other.                     *)
LEMMA ToSetConcat ==
  ASSUME NEW s, NEW t, s \in Seq(ToSet(s)), t \in Seq(ToSet(t))
  PROVE  /\ ToSet(s \o t) = ToSet(s) \cup ToSet(t)
         /\ s \o t \in Seq(ToSet(s \o t))
<1> DEFINE T == ToSet(s) \cup ToSet(t)
<1>1. s \in Seq(T) /\ t \in Seq(T)
  BY SeqMonotonic
<1>2. s \o t \in Seq(T)
  BY <1>1, ConcatProperties
<1>3. /\ DOMAIN s = 1..Len(s) /\ DOMAIN t = 1..Len(t)
      /\ DOMAIN (s \o t) = 1..(Len(s) + Len(t))
      /\ Len(s) \in Nat /\ Len(t) \in Nat
  BY <1>1
<1>4. \A i \in 1..Len(s) : (s \o t)[i] = s[i]
  BY <1>1
<1>5. \A i \in 1..Len(t) : (s \o t)[i + Len(s)] = t[i]
  BY <1>1
<1>6. \A i \in 1..(Len(s) + Len(t)) : (s \o t)[i] \in T
  BY <1>2, <1>3
<1>7. ToSet(s) \subseteq ToSet(s \o t)
  BY <1>3, <1>4 DEF ToSet
<1>8. ToSet(t) \subseteq ToSet(s \o t)
  <2>1. \A i \in 1..Len(t) : i + Len(s) \in 1..(Len(s) + Len(t))
    BY <1>3
  <2> QED
    BY <1>3, <1>5, <2>1 DEF ToSet
<1>9. ToSet(s \o t) \subseteq T
  BY <1>3, <1>6 DEF ToSet
<1> HIDE DEF T
<1>10. s \o t \in Seq(ToSet(s \o t))
  BY <1>2, OwnElements
<1> QED
  BY <1>7, <1>8, <1>9, <1>10 DEF T

(* Lists of messages that are no part of the game.                         *)
LEMMA OneQuiet ==
  ASSUME NEW e, Quiet(e)
  PROVE  AllQuiet(<<e>>)
<1>1. <<e>> \in Seq({e}) /\ ToSet(<<e>>) = {e}
  BY DEF ToSet
<1> QED
  BY <1>1 DEF AllQuiet

(* No message.                                                             *)
LEMMA NoneQuiet == AllQuiet(<<>>)
  BY DEF AllQuiet, ToSet

(* One list after the other.                                               *)
LEMMA ConcatQuiet ==
  ASSUME NEW s, NEW t, AllQuiet(s), AllQuiet(t)
  PROVE  AllQuiet(s \o t)
  BY ToSetConcat DEF AllQuiet

(* The places of two sequences, one after the other.                       *)
LEMMA ConcatAt ==
  ASSUME NEW M, NEW t \in Seq(M), NEW r \in Seq(M)
  PROVE  /\ DOMAIN (t \o r) = 1..(Len(t) + Len(r))
         /\ \A i \in 1..Len(t) : (t \o r)[i] = t[i]
         /\ \A i \in (Len(t) + 1)..(Len(t) + Len(r)) : (t \o r)[i] = r[i - Len(t)]
  OBVIOUS

(* What is left of a sequence whose first element was taken, or not.       *)
LEMMA RestAt ==
  ASSUME NEW M, NEW q \in Seq(M), NEW d \in 0..1, d = 1 => q # <<>>,
         NEW s, s = IF d = 1 THEN Tail(q) ELSE q
  PROVE  /\ s \in Seq(M) /\ Len(s) = Len(q) - d
         /\ \A i \in 1..Len(s) : s[i] = q[i + d]
<1>1. CASE d = 0
  BY <1>1
<1>2. CASE d = 1
  <2>1. /\ Tail(q) \in Seq(M) /\ Len(Tail(q)) = Len(q) - 1
        /\ \A i \in 1..(Len(q) - 1) : Tail(q)[i] = q[i + 1]
    BY <1>2, HeadTailProperties
  <2> QED
    BY <1>2, <2>1
<1> QED
  BY <1>1, <1>2

(* Telling what is no part of the game shifts the mailbox of a player.     *)
LEMMA DeliverShifts ==
  ASSUME Mail, NEW b \in Players, NEW boxes, NEW ms, AllQuiet(ms),
         inbox' = Deliver(boxes, ms), NEW d \in 0..1,
         boxes[b] = IF d = 1 THEN Tail(inbox[b]) ELSE inbox[b],
         d = 1 => inbox[b] # <<>> /\ ~IsBall(Head(inbox[b]))
  PROVE  Shifted(b, d)
<1> DEFINE q == inbox[b]
           S == {m \in ToSet(ms) : Mailbox(m.dst) = b}
           r == Filter(ms, S)
           M == ToSet(q) \cup ToSet(ms)
           n == Len(q) - d
<1>1. b \in Local
  BY DEF Players, Local
<1>2. q \in Seq(ToSet(q))
  BY <1>1 DEF Mail, AllSent
<1>3. r \in Seq(S)
  <2>1. ms \in Seq(ToSet(ms))
    BY DEF AllQuiet
  <2>2. r \in Seq(ToSet(ms) \cap S)
    <3> HIDE DEF S
    <3> QED
      BY <2>1, FilterRange
  <2>3. ToSet(ms) \cap S = S
    OBVIOUS
  <2> HIDE DEF S, r
  <2> QED
    BY <2>2, <2>3
<1>4. \A e \in S : Quiet(e) /\ e.dst = b
  BY DEF AllQuiet, Mailbox, Players
<1>5. inbox'[b] = boxes[b] \o r
  BY <1>1 DEF Deliver
<1>6. q \in Seq(M) /\ r \in Seq(M)
  <2>1. ToSet(q) \subseteq M /\ S \subseteq M
    OBVIOUS
  <2> HIDE DEF q, r, S, M
  <2> QED
    BY <1>2, <1>3, <2>1, SeqMonotonic
<1>7. /\ DOMAIN inbox'[b] = 1..(n + Len(r))
      /\ \A i \in 1..n : inbox'[b][i] = q[i + d]
      /\ \A i \in (n + 1)..(n + Len(r)) : inbox'[b][i] = r[i - n]
  <2>1. d = 1 => q # <<>>
    OBVIOUS
  <2> DEFINE s == boxes[b]
  <2>2. s = IF d = 1 THEN Tail(q) ELSE q
    OBVIOUS
  <2>3. inbox'[b] = s \o r
    BY <1>5
  <2> HIDE DEF r, M, S, s, q
  <2>4. /\ s \in Seq(M) /\ Len(s) = Len(q) - d
        /\ \A i \in 1..Len(s) : s[i] = q[i + d]
    <3>1. q \in Seq(M)
      BY <1>6
    <3> QED
      BY <2>1, <2>2, <3>1, RestAt
  <2>5. /\ DOMAIN (s \o r) = 1..(Len(s) + Len(r))
        /\ \A i \in 1..Len(s) : (s \o r)[i] = s[i]
        /\ \A i \in (Len(s) + 1)..(Len(s) + Len(r)) : (s \o r)[i] = r[i - Len(s)]
    <3>1. s \in Seq(M) /\ r \in Seq(M)
      BY <1>6, <2>4
    <3> QED
      BY <3>1, ConcatAt, Zenon
  <2> QED
    BY <2>3, <2>4, <2>5
<1>8. DOMAIN q = 1..Len(q) /\ Len(q) \in Nat /\ Len(r) \in Nat /\ n \in Nat
  <2>1. q # <<>> => Len(q) > 0
    BY <1>2
  <2>2. DOMAIN q = 1..Len(q) /\ Len(q) \in Nat
    BY <1>2
  <2> HIDE DEF r, S
  <2>3. Len(r) \in Nat
    BY <1>3
  <2> QED
    BY <2>1, <2>2, <2>3
<1> HIDE DEF r, S
<1>9. ASSUME NEW i \in DOMAIN inbox'[b]
      PROVE  \/ i + d \in DOMAIN q /\ inbox'[b][i] = q[i + d]
             \/ Quiet(inbox'[b][i]) /\ inbox'[b][i].dst = b
  <2>1. CASE i \in 1..n
    <3>1. inbox'[b][i] = q[i + d]
      BY <1>7, <2>1
    <3>2. i + d \in DOMAIN q
      BY <1>8, <2>1
    <3> QED
      BY <3>1, <3>2
  <2>2. CASE i \in (n + 1)..(n + Len(r))
    <3>1. inbox'[b][i] = r[i - n]
      BY <1>7, <2>2
    <3>2. i - n \in 1..Len(r)
      BY <1>8, <2>2
    <3>3. inbox'[b][i] \in S
      BY <1>3, <3>1, <3>2
    <3> QED
      BY <1>4, <3>3
  <2> QED
    BY <1>7, <1>8, <2>1, <2>2
<1>10. ASSUME NEW i \in DOMAIN q, i > d
       PROVE  i - d \in DOMAIN inbox'[b] /\ inbox'[b][i - d] = q[i]
  BY <1>7, <1>8, <1>10
<1>11. ASSUME NEW i \in DOMAIN q, i <= d
       PROVE  ~IsBall(q[i])
  <2>1. d = 1 /\ i = 1 /\ Head(q) = q[1]
    BY <1>2, <1>8, <1>11
  <2> QED
    BY <2>1
<1> QED
  BY <1>7, <1>8, <1>9, <1>10, <1>11 DEF Shifted

(* A step that is no part of the game does not disturb it.                 *)
LEMMA ShiftedGame ==
  ASSUME Game, NEW d \in 0..1, NEW e \in 0..1,
         Shifted("sender", d), Shifted("echo", e),
         testing' \in {testing, FALSE}, counter' = counter
  PROVE  Game'
<1> DEFINE D == [a \in Players |-> IF a = "sender" THEN d ELSE e]
<1>1. \A a \in Players : Shifted(a, D[a]) /\ D[a] \in 0..1
  BY DEF Players
<1> HIDE DEF D
<1>2. ASSUME NEW a \in Players, NEW i \in DOMAIN inbox'[a], InPlay(a, i)'
      PROVE  i + D[a] \in DOMAIN inbox[a] /\ InPlay(a, i + D[a])
  BY <1>1, <1>2 DEF Shifted, InPlay, Quiet
<1>3. SomeInPlay' => SomeInPlay
  BY <1>2 DEF SomeInPlay
<1>4. SomeInPlay => SomeInPlay'
  <2> SUFFICES ASSUME NEW a \in Players, NEW i \in DOMAIN inbox[a], InPlay(a, i)
               PROVE  SomeInPlay'
    BY DEF SomeInPlay
  <2>1. i > D[a] /\ i \in Nat
    BY <1>1 DEF Shifted, InPlay
  <2>2. i - D[a] \in DOMAIN inbox'[a] /\ InPlay(a, i - D[a])'
    BY <1>1, <2>1 DEF Shifted, InPlay
  <2> QED
    BY <2>2 DEF SomeInPlay
<1>5. NoSecond'
  <2> SUFFICES ASSUME NEW a \in Players, NEW b \in Players,
                      NEW i \in DOMAIN inbox'[a], NEW j \in DOMAIN inbox'[b],
                      InPlay(a, i)', InPlay(b, j)'
               PROVE  a = b /\ i = j
    BY DEF NoSecond
  <2>1. a = b /\ i + D[a] = j + D[b]
    BY <1>2 DEF Game, NoSecond
  <2>2. i \in Nat /\ j \in Nat
    BY <1>1 DEF Shifted
  <2> QED
    BY <1>1, <2>1, <2>2
<1>6. BallsShaped'
  <2>1. ASSUME NEW i \in DOMAIN inbox'["sender"]
        PROVE  LET m == inbox'["sender"][i] IN
               (IsBall(m) <=> m.cls = "pingReply") /\ (IsBall(m) => CountOk(m))
    BY DEF Game, BallsShaped, Shifted, Quiet
  <2>2. ASSUME NEW i \in DOMAIN inbox'["echo"]
        PROVE  LET m == inbox'["echo"][i] IN
               IsBall(m) => m.cls = "ping" /\ CountOk(m)
    BY DEF Game, BallsShaped, Shifted, Quiet
  <2> QED
    BY <2>1, <2>2 DEF BallsShaped
<1>7. StartWaits'
  <2> DEFINE Start(i) == inbox'["sender"][i].cls = "StartTest"
  <2>1. ASSUME NEW i \in DOMAIN inbox'["sender"], Start(i)
        PROVE  /\ i + d \in DOMAIN inbox["sender"]
               /\ inbox["sender"][i + d].cls = "StartTest"
    BY <2>1 DEF Shifted, Quiet
  <2>2. ASSUME NEW i \in DOMAIN inbox'["sender"], Start(i)
        PROVE  ~testing' /\ ~SomeInPlay'
    <3>1. ~testing /\ ~SomeInPlay
      BY <2>1, <2>2 DEF Game, StartWaits
    <3>2. ~SomeInPlay'
      BY <1>3, <3>1
    <3>3. ~testing'
      BY <3>1
    <3> QED
      BY <3>2, <3>3
  <2>3. ASSUME NEW i \in DOMAIN inbox'["sender"], Start(i),
               NEW j \in DOMAIN inbox'["sender"], Start(j)
        PROVE  i = j
    <3>1. i + d = j + d
      BY <2>1, <2>3 DEF Game, StartWaits
    <3>2. i \in Nat /\ j \in Nat
      BY DEF Shifted
    <3> QED
      BY <3>1, <3>2
  <2> QED
    BY <2>2, <2>3 DEF StartWaits
<1>8. testing' => SomeInPlay'
  BY <1>4 DEF Game
<1> QED
  BY <1>5, <1>6, <1>7, <1>8 DEF Game

(* What is told to one actor, by a player that takes its first message.    *)
LEMMA AppendAt ==
  ASSUME NEW M, NEW s \in Seq(M), NEW e
  PROVE  /\ DOMAIN Append(s, e) = 1..(Len(s) + 1)
         /\ \A i \in 1..Len(s) : Append(s, e)[i] = s[i]
         /\ Append(s, e)[Len(s) + 1] = e
<1>1. s \in Seq(M \cup {e})
  BY SeqMonotonic
<1> QED
  BY <1>1

(* Telling one message appends it to one mailbox.                          *)
LEMMA DeliverOne ==
  ASSUME NEW boxes, NEW e, NEW b \in Local, NEW M, boxes[b] \in Seq(M)
  PROVE  Deliver(boxes, <<e>>)[b] =
           IF Mailbox(e.dst) = b THEN Append(boxes[b], e) ELSE boxes[b]
<1> DEFINE S == {m \in ToSet(<<e>>) : Mailbox(m.dst) = b}
<1>1. Deliver(boxes, <<e>>)[b] = boxes[b] \o Filter(<<e>>, S)
  BY DEF Deliver
<1>2. e \in S <=> Mailbox(e.dst) = b
  BY DEF ToSet
<1> HIDE DEF S
<1>3. Filter(<<e>>, S) = IF Mailbox(e.dst) = b THEN <<e>> ELSE <<>>
  BY <1>2, FilterOne
<1> DEFINE s == boxes[b]
<1>4. s \in Seq(M \cup {e})
  <2> HIDE DEF s
  <2>1. s \in Seq(M)
    BY DEF s
  <2> QED
    BY <2>1, SeqMonotonic
<1>5. s \o <<e>> = Append(s, e) /\ s \o <<>> = s
  <2> HIDE DEF s
  <2> QED
    BY <1>4
<1> QED
  BY <1>1, <1>3, <1>5

(* Telling nothing changes nothing.                                        *)
LEMMA DeliverNone ==
  ASSUME NEW boxes, NEW b \in Local, NEW M, boxes[b] \in Seq(M)
  PROVE  Deliver(boxes, <<>>)[b] = boxes[b]
<1> DEFINE S == {m \in ToSet(<<>>) : Mailbox(m.dst) = b}
<1>1. Deliver(boxes, <<>>)[b] = boxes[b] \o Filter(<<>>, S)
  BY DEF Deliver
<1> HIDE DEF S
<1>2. Filter(<<>>, S) = <<>>
  <2>1. Len(<<>>) = 0
    OBVIOUS
  <2> QED
    BY <2>1, FilterDef
<1> QED
  BY <1>1, <1>2

(* The mailboxes when the first message was taken.                         *)
LEMMA BoxesOf ==
  ASSUME Mail, NEW a \in Local, inbox[a] # <<>>
  PROVE  /\ [inbox EXCEPT ![a] = Tail(@)][a] = Tail(inbox[a])
         /\ \A b \in Local :
              /\ b # a => [inbox EXCEPT ![a] = Tail(@)][b] = inbox[b]
              /\ [inbox EXCEPT ![a] = Tail(@)][b] \in Seq(ToSet(inbox[b]))
<1>1. DOMAIN inbox = Local /\ \A b \in Local : inbox[b] \in Seq(ToSet(inbox[b]))
  BY DEF Mail, AllSent
<1>2. Tail(inbox[a]) \in Seq(ToSet(inbox[a]))
  BY <1>1, HeadTailProperties
<1> QED
  BY <1>1, <1>2

(* A player takes a message and tells one to the other player.             *)
LEMMA PlayerTells ==
  ASSUME Mail, NEW a \in Players, inbox[a] # <<>>, NEW m, NEW e,
         Receive(a, m, <<e>>), NEW b \in Players \ {a}, e.dst = b
  PROVE  inbox'[a] = Tail(inbox[a]) /\ inbox'[b] = Append(inbox[b], e)
<1> DEFINE boxes == [inbox EXCEPT ![a] = Tail(@)]
<1>1. a \in Local /\ b \in Local /\ a # "bridge"
  BY DEF Players, Local
<1>2. inbox' = Deliver(boxes, <<e>>)
  <2>1. <<>> \o <<e>> = <<e>>
    OBVIOUS
  <2> QED
    BY <1>1, <2>1 DEF Receive
<1>3. /\ boxes[a] = Tail(inbox[a]) /\ boxes[b] = inbox[b]
      /\ \A c \in Local : boxes[c] \in Seq(ToSet(inbox[c]))
  BY <1>1, BoxesOf
<1>4. Mailbox(e.dst) = b
  BY <1>1 DEF Mailbox
<1> HIDE DEF boxes
<1>5. Deliver(boxes, <<e>>)[a] = boxes[a]
  <2>1. Mailbox(e.dst) # a
    BY <1>4
  <2> QED
    BY <1>1, <1>3, <2>1, DeliverOne
<1>6. Deliver(boxes, <<e>>)[b] = Append(boxes[b], e)
  BY <1>1, <1>3, <1>4, DeliverOne
<1> QED
  BY <1>2, <1>3, <1>5, <1>6

(* A player takes a message and tells nothing.                             *)
LEMMA PlayerSilent ==
  ASSUME Mail, NEW a \in Players, inbox[a] # <<>>, NEW m, Receive(a, m, <<>>)
  PROVE  /\ inbox'[a] = Tail(inbox[a])
         /\ \A b \in Players \ {a} : inbox'[b] = inbox[b]
<1> DEFINE boxes == [inbox EXCEPT ![a] = Tail(@)]
<1>1. a \in Local /\ Players \subseteq Local /\ a # "bridge"
  BY DEF Players, Local
<1>2. inbox' = Deliver(boxes, <<>>)
  <2>1. <<>> \o <<>> = <<>>
    OBVIOUS
  <2> QED
    BY <1>1, <2>1 DEF Receive
<1>3. /\ boxes[a] = Tail(inbox[a]) /\ \A b \in Players \ {a} : boxes[b] = inbox[b]
      /\ \A c \in Local : boxes[c] \in Seq(ToSet(inbox[c]))
  BY <1>1, BoxesOf
<1> HIDE DEF boxes
<1> QED
  BY <1>1, <1>2, <1>3, DeliverNone

-----------------------------------------------------------------------------
(* The moves of the game                                                   *)

PlayerOf(b) == IF b = "sender" THEN "pingReply" ELSE "ping"

(* One player takes the only ball, or the start, and plays a ball.         *)
LEMMA Rally ==
  ASSUME Mail, Game, NEW a \in Players, NEW b \in Players \ {a}, NEW e,
         inbox[a] # <<>>,
         inbox'[a] = Tail(inbox[a]), inbox'[b] = Append(inbox[b], e),
         IsBall(e), e.cls = PlayerOf(b), CountOk(e),
         \A c \in Players : \A i \in DOMAIN inbox[c] :
           InPlay(c, i) => c = a /\ i = 1,
         \A i \in DOMAIN inbox["sender"] :
           inbox["sender"][i].cls = "StartTest" => a = "sender" /\ i = 1,
         counter' \in 0..MaxCount
  PROVE  Game'
<1> PICK n : n = Len(inbox[b]) + 1
  OBVIOUS
<1>1. a \in Local /\ b \in Local /\ Players = {a, b}
  BY DEF Players, Local
<1>2. /\ inbox[a] \in Seq(ToSet(inbox[a])) /\ inbox[b] \in Seq(ToSet(inbox[b]))
      /\ Len(inbox[a]) \in Nat \ {0} /\ n \in Nat \ {0}
      /\ DOMAIN inbox[a] = 1..Len(inbox[a]) /\ DOMAIN inbox[b] = 1..Len(inbox[b])
  BY <1>1 DEF Mail, AllSent
<1>3. /\ DOMAIN inbox'[a] = 1..(Len(inbox[a]) - 1)
      /\ \A i \in 1..(Len(inbox[a]) - 1) : inbox'[a][i] = inbox[a][i + 1]
  <2>1. /\ Len(Tail(inbox[a])) = Len(inbox[a]) - 1
        /\ Tail(inbox[a]) \in Seq(ToSet(inbox[a]))
        /\ \A i \in 1..(Len(inbox[a]) - 1) : Tail(inbox[a])[i] = inbox[a][i + 1]
    BY <1>2, HeadTailProperties
  <2> QED
    BY <2>1
<1>4. /\ DOMAIN inbox'[b] = 1..n
      /\ \A i \in 1..Len(inbox[b]) : inbox'[b][i] = inbox[b][i]
      /\ inbox'[b][n] = e
  BY <1>2, AppendAt
<1>5. ASSUME NEW i \in DOMAIN inbox'[a]
      PROVE  /\ i + 1 \in DOMAIN inbox[a] /\ i + 1 # 1
             /\ inbox'[a][i] = inbox[a][i + 1]
  BY <1>2, <1>3
<1>6. ASSUME NEW i \in DOMAIN inbox'[b]
      PROVE  \/ i = n /\ inbox'[b][i] = e
             \/ i \in DOMAIN inbox[b] /\ inbox'[b][i] = inbox[b][i]
  BY <1>2, <1>4
<1>7. ASSUME NEW c \in Players, NEW i \in DOMAIN inbox'[c], InPlay(c, i)'
      PROVE  c = b /\ i = n
  <2>1. CASE c = a
    <3>1. InPlay(a, i + 1) /\ i + 1 # 1
      BY <1>5, <1>7, <2>1 DEF InPlay
    <3> QED
      BY <3>1 DEF InPlay
  <2>2. CASE c = b
    <3>1. i = n \/ InPlay(b, i)
      BY <1>6, <1>7, <2>2 DEF InPlay
    <3> QED
      BY <2>2, <3>1 DEF InPlay
  <2> QED
    BY <1>1, <2>1, <2>2
<1>8. InPlay(b, n)' /\ SomeInPlay'
  <2>1. n \in DOMAIN inbox'[b] /\ IsBall(inbox'[b][n])
    BY <1>2, <1>4
  <2> QED
    BY <2>1 DEF InPlay, SomeInPlay
<1>9. NoSecond'
  BY <1>7 DEF NoSecond
<1>10. ASSUME NEW c \in Players, NEW i \in DOMAIN inbox'[c]
       PROVE  \/ c = b /\ inbox'[c][i] = e
              \/ \E j \in DOMAIN inbox[c] : inbox'[c][i] = inbox[c][j]
  <2>1. CASE c = a
    BY <1>5, <2>1
  <2>2. CASE c = b
    BY <1>6, <2>2
  <2> QED
    BY <1>1, <2>1, <2>2
<1>11. BallsShaped'
  <2>1. ASSUME NEW i \in DOMAIN inbox'["sender"]
        PROVE  LET m == inbox'["sender"][i] IN
               (IsBall(m) <=> m.cls = "pingReply") /\ (IsBall(m) => CountOk(m))
    BY <1>10 DEF Game, BallsShaped, Players, PlayerOf
  <2>2. ASSUME NEW i \in DOMAIN inbox'["echo"]
        PROVE  LET m == inbox'["echo"][i] IN
               IsBall(m) => m.cls = "ping" /\ CountOk(m)
    BY <1>10 DEF Game, BallsShaped, Players, PlayerOf
  <2> QED
    BY <2>1, <2>2 DEF BallsShaped
<1>12. \A i \in DOMAIN inbox'["sender"] : inbox'["sender"][i].cls # "StartTest"
  <2>1. CASE a = "sender"
    BY <1>5, <2>1
  <2>2. CASE b = "sender"
    BY <1>6, <2>2 DEF PlayerOf
  <2> QED
    BY <1>1, <2>1, <2>2 DEF Players
<1> QED
  BY <1>8, <1>9, <1>11, <1>12 DEF Game, StartWaits

(* What the only ball is, when the first message of a player is one.       *)
LEMMA OnlyBall ==
  ASSUME Mail, Game, NEW a \in Players, InPlay(a, 1)
  PROVE  /\ \A c \in Players : \A i \in DOMAIN inbox[c] :
              InPlay(c, i) => c = a /\ i = 1
         /\ \A i \in DOMAIN inbox["sender"] :
              inbox["sender"][i].cls # "StartTest"
<1>1. SomeInPlay /\ 1 \in DOMAIN inbox[a]
  BY DEF SomeInPlay, InPlay
<1>2. \A c \in Players : \A i \in DOMAIN inbox[c] :
        InPlay(c, i) => c = a /\ i = 1
  BY <1>1 DEF Game, NoSecond
<1> QED
  BY <1>1, <1>2 DEF Game, StartWaits

(* The first message of an actor.                                          *)
LEMMA HeadAt ==
  ASSUME Mail, NEW a \in Local, inbox[a] # <<>>
  PROVE  Head(inbox[a]) = inbox[a][1] /\ 1 \in DOMAIN inbox[a]
<1>1. inbox[a] \in Seq(ToSet(inbox[a]))
  BY DEF Mail, AllSent
<1> QED
  BY <1>1

(* A number that was put into a message is what get finds there.           *)
LEMMA CountAdded ==
  ASSUME NEW m, NEW n \in 0..MaxCount,
         \/ m.fields = <<Field("counter", "UINT", n)>>
         \/ \E id : m.fields = <<Field("$ID", "UINT", id),
                                 Field("counter", "UINT", n)>>
  PROVE  CountOk(m)
<1>1. CASE m.fields = <<Field("counter", "UINT", n)>>
  <2>1. {i \in 1..Len(m.fields) : m.fields[i].tag = "counter"} = {1}
    BY <1>1 DEF Field
  <2>2. Min({1}) = 1
    BY DEF Min
  <2>3. SelectInSeq(m.fields, LAMBDA f : f.tag = "counter") = 1
    BY <2>1, <2>2 DEF SelectInSeq
  <2>4. m.fields[1].val[2] = n
    BY <1>1 DEF Field
  <2> QED
    BY <2>3, <2>4 DEF CountOk, Get
<1>2. CASE \E id : m.fields = <<Field("$ID", "UINT", id),
                                Field("counter", "UINT", n)>>
  <2>1. {i \in 1..Len(m.fields) : m.fields[i].tag = "counter"} = {2}
    BY <1>2 DEF Field
  <2>2. Min({2}) = 2
    BY DEF Min
  <2>3. SelectInSeq(m.fields, LAMBDA f : f.tag = "counter") = 2
    BY <2>1, <2>2 DEF SelectInSeq
  <2>4. m.fields[2].val[2] = n
    BY <1>2 DEF Field
  <2> QED
    BY <2>3, <2>4 DEF CountOk, Get
<1> QED
  BY <1>1, <1>2

(* StartTest brings the ball into play.                                    *)
LEMMA StartGame ==
  ASSUME Mail, Game, StartTest
  PROVE  Game'
<1> DEFINE e == Ping("echo")
<1>1. /\ "sender" \in Local /\ "sender" \in Players
      /\ "echo" \in Players \ {"sender"} /\ inbox["sender"] # <<>>
      /\ counter' = 0 /\ Receive("sender", Head(inbox["sender"]), <<e>>)
  BY DEF StartTest, Receives, Players, Local
<1>2. inbox["sender"][1].cls = "StartTest" /\ 1 \in DOMAIN inbox["sender"]
  BY <1>1, HeadAt DEF StartTest, Receives
<1>3. 0 \in 0..MaxCount
  BY NodeAssumption
<1>4. /\ e.src = "sender" /\ e.dst = "echo" /\ e.cls = "ping"
      /\ e.fields = <<Field("counter", "UINT", counter')>>
  BY DEF Ping, Told, Add, Msg
<1> HIDE DEF e
<1>5. IsBall(e) /\ e.cls = PlayerOf("echo") /\ CountOk(e)
  BY <1>1, <1>3, <1>4, CountAdded DEF IsBall, PlayerOf
<1>6. /\ inbox'["sender"] = Tail(inbox["sender"])
      /\ inbox'["echo"] = Append(inbox["echo"], e)
  BY <1>1, <1>4, PlayerTells
<1>7. /\ ~SomeInPlay
      /\ \A i \in DOMAIN inbox["sender"] :
           inbox["sender"][i].cls = "StartTest" => i = 1
  BY <1>2 DEF Game, StartWaits
<1>8. \A c \in Players : \A i \in DOMAIN inbox[c] : ~InPlay(c, i)
  BY <1>7 DEF SomeInPlay
<1> QED
  BY <1>1, <1>3, <1>5, <1>6, <1>7, <1>8, Rally

(* Sender plays the ball back while it is testing, and keeps it otherwise. *)
LEMMA PongGame ==
  ASSUME Mail, Game, Pong
  PROVE  Game'
<1> DEFINE m == Head(inbox["sender"])
           e == Ping(m.src)
<1>1. /\ "sender" \in Local /\ "sender" \in Players
      /\ "echo" \in Players \ {"sender"} /\ inbox["sender"] # <<>>
      /\ m.cls = "pingReply" /\ testing' = testing
  BY DEF Pong, Receives, Players, Local
<1>2. m = inbox["sender"][1] /\ 1 \in DOMAIN inbox["sender"]
  BY <1>1, HeadAt
<1>3. IsBall(m) /\ CountOk(m)
  BY <1>1, <1>2 DEF Game, BallsShaped
<1>4. m.src = "echo"
  <2>1. Mailbox(m.dst) = "sender"
    BY <1>1, HeadSent
  <2>2. m.dst = "sender"
    BY <2>1 DEF Mailbox
  <2> QED
    BY <1>3, <2>2 DEF IsBall
<1>5. InPlay("sender", 1)
  BY <1>2, <1>3 DEF InPlay
<1>6. /\ \A c \in Players : \A i \in DOMAIN inbox[c] :
           InPlay(c, i) => c = "sender" /\ i = 1
      /\ \A i \in DOMAIN inbox["sender"] : inbox["sender"][i].cls # "StartTest"
  BY <1>1, <1>5, OnlyBall
<1>7. CASE testing
  <2>1. /\ e.src = "sender" /\ e.dst = "echo" /\ e.cls = "ping"
        /\ e.fields = <<Field("counter", "UINT", counter')>>
    BY <1>4 DEF Ping, Told, Add, Msg
  <2>2. Receive("sender", m, <<e>>) /\ counter' = Get(m, "counter")[2]
    BY <1>7 DEF Pong
  <2> HIDE DEF e, m
  <2>3. counter' \in 0..MaxCount
    BY <1>3, <2>2 DEF CountOk
  <2>4. IsBall(e) /\ e.cls = PlayerOf("echo") /\ CountOk(e)
    BY <2>1, <2>3, CountAdded DEF IsBall, PlayerOf
  <2>5. /\ inbox'["sender"] = Tail(inbox["sender"])
        /\ inbox'["echo"] = Append(inbox["echo"], e)
    BY <1>1, <2>1, <2>2, PlayerTells
  <2> QED
    BY <1>1, <1>6, <2>3, <2>4, <2>5, Rally
<1>8. CASE ~testing
  <2>1. Receive("sender", m, <<>>) /\ counter' = counter
    BY <1>8 DEF Pong
  <2> HIDE DEF e, m
  <2>2. inbox'["sender"] = Tail(inbox["sender"]) /\ inbox'["echo"] = inbox["echo"]
    BY <1>1, <2>1, PlayerSilent
  <2>3. ASSUME NEW i \in DOMAIN inbox'["sender"]
        PROVE  /\ i + 1 \in DOMAIN inbox["sender"] /\ i + 1 # 1
               /\ inbox'["sender"][i] = inbox["sender"][i + 1]
    <3>1. inbox["sender"] \in Seq(ToSet(inbox["sender"]))
      BY <1>1 DEF Mail, AllSent
    <3>2. /\ Tail(inbox["sender"]) \in Seq(ToSet(inbox["sender"]))
          /\ Len(Tail(inbox["sender"])) = Len(inbox["sender"]) - 1
          /\ \A j \in 1..(Len(inbox["sender"]) - 1) :
               Tail(inbox["sender"])[j] = inbox["sender"][j + 1]
      BY <1>1, <3>1, HeadTailProperties
    <3>3. i \in 1..(Len(inbox["sender"]) - 1)
      BY <2>2, <3>2
    <3> QED
      BY <2>2, <3>1, <3>2, <3>3
  <2>4. \A c \in Players : \A i \in DOMAIN inbox'[c] : ~InPlay(c, i)'
    <3>1. ASSUME NEW i \in DOMAIN inbox'["sender"], InPlay("sender", i)'
          PROVE  FALSE
      <4>1. InPlay("sender", i + 1) /\ i + 1 # 1 /\ i + 1 \in DOMAIN inbox["sender"]
        BY <2>3, <3>1 DEF InPlay
      <4> QED
        BY <1>1, <1>6, <4>1
    <3>2. ASSUME NEW i \in DOMAIN inbox'["echo"], InPlay("echo", i)'
          PROVE  FALSE
      <4>1. InPlay("echo", i) /\ i \in DOMAIN inbox["echo"]
        BY <2>2, <3>2 DEF InPlay
      <4> QED
        BY <1>1, <1>6, <4>1
    <3> QED
      BY <3>1, <3>2 DEF Players
  <2>5. ~SomeInPlay' /\ NoSecond'
    BY <2>4 DEF SomeInPlay, NoSecond
  <2>6. BallsShaped'
    <3>1. ASSUME NEW i \in DOMAIN inbox'["sender"]
          PROVE  LET x == inbox'["sender"][i] IN
                 (IsBall(x) <=> x.cls = "pingReply") /\ (IsBall(x) => CountOk(x))
      BY <2>3 DEF Game, BallsShaped
    <3>2. ASSUME NEW i \in DOMAIN inbox'["echo"]
          PROVE  LET x == inbox'["echo"][i] IN
                 IsBall(x) => x.cls = "ping" /\ CountOk(x)
      BY <2>2 DEF Game, BallsShaped
    <3> QED
      BY <3>1, <3>2 DEF BallsShaped
  <2>7. StartWaits'
    BY <1>6, <2>3 DEF StartWaits
  <2> QED
    BY <1>1, <1>8, <2>1, <2>5, <2>6, <2>7 DEF Game
<1> QED
  BY <1>7, <1>8

-----------------------------------------------------------------------------
(* What is no move                                                         *)

(* Messages that are no part of the game arrive.                           *)
LEMMA TellQuiet ==
  ASSUME Mail, Game, NEW ms, AllQuiet(ms), inbox' = Deliver(inbox, ms),
         testing' \in {testing, FALSE}, counter' = counter
  PROVE  Game'
<1>1. 0 \in 0..1 /\ 0 # 1
  OBVIOUS
<1>2. ASSUME NEW b \in Players
      PROVE  Shifted(b, 0)
  BY <1>1, DeliverShifts
<1>3. "sender" \in Players /\ "echo" \in Players
  BY DEF Players
<1> QED
  BY <1>1, <1>2, <1>3, ShiftedGame

(* An actor handles a message that is not a ball and tells nothing that is *)
(* part of the game.                                                       *)
LEMMA HandleQuiet ==
  ASSUME Mail, Game, NEW a \in Local, inbox[a] # <<>>,
         a \in Players => ~IsBall(Head(inbox[a])),
         NEW m, NEW out, AllQuiet(out), Receive(a, m, out),
         testing' \in {testing, FALSE}, counter' = counter
  PROVE  Game'
<1> DEFINE boxes == [inbox EXCEPT ![a] = Tail(@)]
           any == IF a = "bridge" THEN Forwarded(m) ELSE <<>>
           d(b) == IF b = a THEN 1 ELSE 0
<1>1. inbox' = Deliver(boxes, any \o out)
  BY DEF Receive
<1>2. AllQuiet(any \o out)
  <2>1. AllQuiet(any)
    <3> DEFINE e == Told(PublishPairs(<<msgToJsonCmd(m)>>), "bridge", "mqtt")
    <3>1. e.src = "bridge" /\ e.dst = "mqtt"
      BY DEF Told, PublishPairs, Msg
    <3>2. any = <<>> \/ any = <<e>>
      BY DEF Forwarded
    <3> HIDE DEF e, any
    <3>3. Quiet(e)
      BY <3>1 DEF Quiet, IsBall
    <3> QED
      BY <3>2, <3>3, OneQuiet, NoneQuiet
  <2> HIDE DEF any
  <2> QED
    BY <2>1, ConcatQuiet
<1>3. /\ boxes[a] = Tail(inbox[a])
      /\ \A b \in Local \ {a} : boxes[b] = inbox[b]
  BY BoxesOf
<1> HIDE DEF boxes, any
<1>4. 0 \in 0..1 /\ 1 \in 0..1 /\ 0 # 1
  OBVIOUS
<1>5. ASSUME NEW b \in Players
      PROVE  d(b) \in 0..1 /\ Shifted(b, d(b))
  <2>1. CASE b = a
    <3>1. /\ boxes[b] = Tail(inbox[b]) /\ inbox[b] # <<>>
          /\ ~IsBall(Head(inbox[b]))
      BY <1>3, <2>1
    <3>2. Shifted(b, 1)
      BY <1>1, <1>2, <1>4, <3>1, DeliverShifts
    <3> QED
      BY <1>4, <2>1, <3>2
  <2>2. CASE b # a
    <3>1. boxes[b] = inbox[b]
      BY <1>3, <2>2 DEF Players, Local
    <3>2. Shifted(b, 0)
      BY <1>1, <1>2, <1>4, <3>1, DeliverShifts
    <3> QED
      BY <1>4, <2>2, <3>2
  <2> QED
    BY <2>1, <2>2
<1>6. "sender" \in Players /\ "echo" \in Players
  BY DEF Players
<1> HIDE DEF d
<1> QED
  BY <1>5, <1>6, ShiftedGame

(* A message from an actor that does not play.                             *)
LEMMA OutsiderQuiet ==
  ASSUME NEW m, IsMessage(m), NEW from, from \notin Players, NEW to,
         m.cls \notin {"StartTest", "pingReply"}
  PROVE  AllQuiet(<<Told(m, from, to)>>)
<1> DEFINE e == Told(m, from, to)
<1>1. e.src = from /\ e.cls = m.cls
  BY DEF Told, IsMessage
<1> HIDE DEF e
<1>2. Quiet(e)
  BY <1>1 DEF Quiet, IsBall, Players
<1> QED
  BY <1>2, OneQuiet DEF e

(* Two messages are one and another one.                                   *)
LEMMA TwoOf ==
  ASSUME NEW x, NEW y
  PROVE  <<x>> \o <<y>> = <<x, y>>
<1>1. /\ <<x>> \in Seq({x, y}) /\ <<y>> \in Seq({x, y})
      /\ <<x, y>> \in Seq({x, y})
  OBVIOUS
<1>2. Len(<<x>> \o <<y>>) = Len(<<x, y>>)
  OBVIOUS
<1>3. \A i \in 1..Len(<<x, y>>) : (<<x>> \o <<y>>)[i] = <<x, y>>[i]
  OBVIOUS
<1>4. <<x>> \o <<y>> \in Seq({x, y})
  BY <1>1, ConcatProperties
<1> QED
  BY <1>1, <1>2, <1>3, <1>4, SeqEqual

(* An answer is a ball if and only if it is echo's to sender's ping.       *)
LEMMA AnswerQuiet ==
  ASSUME NEW m, IsMessage(m), m.cls \in Request, NEW a, NEW fields,
         {a, m.src} # {"sender", "echo"},
         m.src = "sender" => m.cls # "ping"
  PROVE  AllQuiet(<<Answer(a, m, fields)>>)
<1> DEFINE e == Answer(a, m, fields)
<1>1. e.src = a /\ e.dst = m.src /\ e.cls = ReplyClass(m.cls)
  BY DEF Answer, Told, Reply, Add, Msg
<1>2. /\ ReplyClass(m.cls) # "StartTest"
      /\ m.cls # "ping" => ReplyClass(m.cls) # "pingReply"
  BY DEF ReplyClass, Request
<1> HIDE DEF e
<1>3. Quiet(e)
  BY <1>1, <1>2 DEF Quiet, IsBall
<1> QED
  BY <1>3, OneQuiet DEF e

(* Properties: no ball asks for them, and none is told.                    *)
LEMMA PropertiesGame ==
  ASSUME Mail, Game, NEW a \in Local, Properties(a)
  PROVE  Game'
<1> DEFINE m == Head(inbox[a])
<1>1. /\ inbox[a] # <<>> /\ m.cls = "Properties"
      /\ testing' = testing /\ counter' = counter
      /\ Receive(a, m, IF a = "echo" THEN <<>>
                       ELSE <<Answer(a, m, PropertyFields(a))>>)
  BY DEF Properties, Receives, senderVars
<1>2. m = inbox[a][1] /\ 1 \in DOMAIN inbox[a] /\ IsMessage(m)
  BY <1>1, HeadAt, HeadSent DEF IsSent
<1>3. Mailbox(m.dst) = a
  BY <1>1, HeadSent
<1> HIDE DEF m
<1>4. a \in Players => ~IsBall(m)
  BY <1>1, <1>2 DEF Players, Game, BallsShaped
<1>5. CASE a = "echo"
  BY <1>1, <1>4, <1>5, HandleQuiet, NoneQuiet DEF m
<1>6. CASE a # "echo"
  <2>1. {a, m.src} # {"sender", "echo"}
    <3>1. CASE a = "sender"
      <4>1. m.dst = "sender"
        BY <1>3, <3>1 DEF Mailbox
      <4> QED
        BY <1>4, <3>1, <4>1 DEF Players, IsBall
    <3>2. CASE a # "sender"
      BY <1>6, <3>2
    <3> QED
      BY <3>1, <3>2
  <2>2. m.cls \in Request /\ m.cls # "ping"
    BY <1>1 DEF Request
  <2>3. AllQuiet(<<Answer(a, m, PropertyFields(a))>>)
    BY <1>2, <2>1, <2>2, AnswerQuiet
  <2>4. Receive(a, m, <<Answer(a, m, PropertyFields(a))>>)
    BY <1>1, <1>6
  <2> QED
    BY <1>1, <1>4, <2>3, <2>4, HandleQuiet DEF m
<1> QED
  BY <1>5, <1>6

(* Both players have receivers for balls.                                  *)
LEMMA UnhandledGame ==
  ASSUME Mail, Game, NEW a \in Local, Unhandled(a)
  PROVE  Game'
<1> DEFINE m == Head(inbox[a])
<1>1. /\ inbox[a] # <<>> /\ m.cls \notin Receivers[a]
      /\ testing' = testing /\ counter' = counter /\ Receive(a, m, <<>>)
  BY DEF Unhandled, senderVars
<1>2. m = inbox[a][1] /\ 1 \in DOMAIN inbox[a]
  BY <1>1, HeadAt
<1> HIDE DEF m
<1>3. a \in Players => ~IsBall(m)
  BY <1>1, <1>2 DEF Players, Game, BallsShaped, Receivers
<1> QED
  BY <1>1, <1>3, HandleQuiet, NoneQuiet DEF m

(* EndTest leaves the ball where it is.                                    *)
LEMMA EndTestGame ==
  ASSUME Mail, Game, EndTest
  PROVE  Game'
<1> DEFINE m == Head(inbox["sender"])
<1>1. /\ "sender" \in Local /\ inbox["sender"] # <<>> /\ m.cls = "EndTest"
      /\ testing' = FALSE /\ counter' = counter
      /\ Receive("sender", m, <<>>)
  BY DEF EndTest, Receives, Local
<1>2. m = inbox["sender"][1] /\ 1 \in DOMAIN inbox["sender"]
  BY <1>1, HeadAt
<1> HIDE DEF m
<1>3. ~IsBall(m)
  BY <1>1, <1>2 DEF Game, BallsShaped
<1> QED
  BY <1>1, <1>3, HandleQuiet, NoneQuiet DEF m

(* Echo plays sender's ball back, and answers others without disturbing    *)
(* the game.                                                               *)
LEMMA EchoGame ==
  ASSUME Mail, Game, EchoPing
  PROVE  Game'
<1> DEFINE m == Head(inbox["echo"])
           n == Min({Get(m, "counter")[2] + 1, MaxCount})
           e == Answer("echo", m, <<Field("counter", "UINT", n)>>)
<1>1. /\ "echo" \in Local /\ "echo" \in Players
      /\ "sender" \in Players \ {"echo"} /\ inbox["echo"] # <<>>
      /\ m.cls = "ping" /\ testing' = testing /\ counter' = counter
      /\ Receive("echo", m, <<e>>)
  BY DEF EchoPing, Receives, Players, Local, senderVars
<1>2. /\ m = inbox["echo"][1] /\ 1 \in DOMAIN inbox["echo"]
      /\ IsMessage(m) /\ Mailbox(m.dst) = "echo"
  BY <1>1, HeadAt, HeadSent DEF IsSent
<1>3. IsBall(m) <=> m.src = "sender"
  BY <1>2 DEF IsBall, Mailbox
<1>4. CASE m.src = "sender"
  <2>1. InPlay("echo", 1) /\ CountOk(m)
    BY <1>2, <1>3, <1>4 DEF InPlay, Game, BallsShaped
  <2>2. /\ \A c \in Players : \A i \in DOMAIN inbox[c] :
             InPlay(c, i) => c = "echo" /\ i = 1
        /\ \A i \in DOMAIN inbox["sender"] : inbox["sender"][i].cls # "StartTest"
    BY <1>1, <2>1, OnlyBall
  <2>3. n \in 0..MaxCount
    <3> DEFINE c == Get(m, "counter")[2]
    <3>1. c \in 0..MaxCount /\ MaxCount \in Nat
      BY <2>1, NodeAssumption DEF CountOk
    <3> HIDE DEF c
    <3>2. \E k \in {c + 1, MaxCount} : \A j \in {c + 1, MaxCount} : k <= j
      BY <3>1
    <3>3. Min({c + 1, MaxCount}) \in {c + 1, MaxCount}
          /\ \A j \in {c + 1, MaxCount} : Min({c + 1, MaxCount}) <= j
      BY <3>2 DEF Min
    <3> QED
      BY <3>1, <3>3 DEF c
  <2>4. /\ e.src = "echo" /\ e.dst = "sender" /\ e.cls = "pingReply"
        /\ \E id : e.fields = <<Field("$ID", "UINT", id),
                                Field("counter", "UINT", n)>>
    <3> DEFINE f == Field("counter", "UINT", n)
               g == Field("$ID", "UINT", Id(m))
    <3> HIDE DEF m, n, f
    <3>1. ReplyClass(m.cls) = "pingReply"
      BY <1>1 DEF ReplyClass
    <3>2. /\ Reply(m).cls = "pingReply" /\ Reply(m).fields = <<g>>
          /\ DOMAIN Reply(m) = {"cls", "src", "dst", "fields"}
      <4> HIDE DEF g
      <4> QED
        BY <3>1 DEF Reply, Add, Msg, g
    <3> HIDE DEF g
    <3>3. <<g>> \o <<f>> = <<g, f>>
      BY TwoOf
    <3>4. e = Answer("echo", m, <<f>>)
      BY DEF f
    <3>5. e.src = "echo" /\ e.dst = m.src /\ e.cls = "pingReply" /\ e.fields = <<g, f>>
      BY <3>2, <3>3, <3>4 DEF Answer, Told
    <3> QED
      BY <1>4, <3>5 DEF f, g
  <2> HIDE DEF e, n
  <2>5. IsBall(e) /\ e.cls = PlayerOf("sender") /\ CountOk(e)
    BY <2>3, <2>4, CountAdded DEF IsBall, PlayerOf
  <2>6. /\ inbox'["echo"] = Tail(inbox["echo"])
        /\ inbox'["sender"] = Append(inbox["sender"], e)
    BY <1>1, <2>4, PlayerTells
  <2>7. counter' \in 0..MaxCount
    BY <1>1 DEF Game
  <2> QED
    BY <1>1, <2>2, <2>5, <2>6, <2>7, Rally
<1>5. CASE m.src # "sender"
  <2>1. {"echo", m.src} # {"sender", "echo"} /\ m.cls \in Request
    BY <1>1, <1>5 DEF Request
  <2> HIDE DEF n, m
  <2>2. AllQuiet(<<e>>)
    BY <1>2, <1>5, <2>1, AnswerQuiet
  <2> HIDE DEF e
  <2> QED
    BY <1>1, <1>3, <1>5, <2>2, HandleQuiet DEF m
<1> QED
  BY <1>4, <1>5

(* ConfigActor may answer to players, but does not play.                   *)
LEMMA ConfigGame ==
  ASSUME Mail, Game, Config
  PROVE  Game'
<1> DEFINE m == Head(inbox["config"])
           e == Answer("config", m, ConfigAnswer(m))
<1>1. /\ "config" \in Local /\ "config" \notin Players /\ inbox["config"] # <<>>
      /\ m.cls \in Request /\ m.cls # "ping"
      /\ testing' = testing /\ counter' = counter
      /\ Receive("config", m, <<e>>) \/ Receive("config", m, <<>>)
  BY DEF Config, Players, Local, senderVars, Request
<1>2. IsMessage(m)
  BY <1>1, HeadSent DEF IsSent
<1> HIDE DEF m
<1>3. AllQuiet(<<e>>)
  BY <1>1, <1>2, AnswerQuiet
<1> HIDE DEF e
<1> QED
  BY <1>1, <1>3, HandleQuiet, NoneQuiet

(* System hears of the connection and tells nothing.                       *)
LEMMA SystemGame ==
  ASSUME Mail, Game, SystemHears
  PROVE  Game'
<1>1. /\ "system" \in Local /\ "system" \notin Players /\ inbox["system"] # <<>>
      /\ testing' = testing /\ counter' = counter
      /\ Receive("system", Head(inbox["system"]), <<>>)
  BY DEF SystemHears, Receives, Players, Local, senderVars
<1> QED
  BY <1>1, HandleQuiet, NoneQuiet

(* The mqtt actor tells nothing.                                           *)
LEMMA MqttGame ==
  ASSUME Mail, Game, MqttPublish
  PROVE  Game'
<1>1. /\ "mqtt" \in Local /\ "mqtt" \notin Players /\ inbox["mqtt"] # <<>>
      /\ testing' = testing /\ counter' = counter
      /\ Receive("mqtt", Head(inbox["mqtt"]), <<>>)
  BY DEF MqttPublish, Receives, Players, Local, senderVars
<1> QED
  BY <1>1, HandleQuiet, NoneQuiet

(* What the bridge does is no part of the game.                            *)
LEMMA BridgeQuiet ==
  ASSUME Mail, Game, inbox["bridge"] # <<>>, NEW out, AllQuiet(out),
         Receive("bridge", Head(inbox["bridge"]), out), UNCHANGED senderVars
  PROVE  Game'
<1>1. /\ "bridge" \in Local /\ "bridge" \notin Players
      /\ testing' = testing /\ counter' = counter
  BY DEF Local, Players, senderVars
<1> QED
  BY <1>1, HandleQuiet

(* subscribeEventBus tells mqtt.                                           *)
LEMMA SubscribeQuiet == AllQuiet(SubscribeRequests)
<1> DEFINE S == {s \in ToSet(Bus) : s.src \in known \ Local}
           remote == Filter(Bus, S)
           request(i) == Add(Msg("mqttSubscribe"),
              [tag |-> "topic",
               val |-> <<"topic", Topic("src", remote[i].src, remote[i].cls)>>])
<1>1. SubscribeRequests =
        [i \in DOMAIN remote |-> Told(request(i), "bridge", "mqtt")]
  BY DEF SubscribeRequests
<1>2. SubscribeRequests \in Seq(ToSet(SubscribeRequests))
  BY SubscribeSent DEF AllSent
<1> HIDE DEF remote
<1>3. ASSUME NEW i \in DOMAIN remote
      PROVE  Quiet(SubscribeRequests[i])
  <2> DEFINE e == SubscribeRequests[i]
  <2>1. e.src = "bridge" /\ e.dst = "mqtt"
    BY <1>1 DEF Told, Add, Msg
  <2> HIDE DEF e
  <2>2. Quiet(e)
    BY <2>1 DEF Quiet, IsBall
  <2> QED
    BY <2>2 DEF e
<1>4. \A i \in DOMAIN SubscribeRequests : Quiet(SubscribeRequests[i])
  BY <1>1, <1>3
<1> QED
  BY <1>2, <1>4 DEF AllQuiet, ToSet

(* Events of a message go to mqtt.                                         *)
LEMMA AnnounceGame ==
  ASSUME Mail, Game, NEW class, Announce(class)
  PROVE  Game'
<1> DEFINE m == Head(inbox["bridge"])
           pub == msgToJsonEvents(m)
<1>1. /\ inbox["bridge"] # <<>> /\ UNCHANGED senderVars
      /\ Receive("bridge", m, Events(m))
  BY DEF Announce, Receives
<1>2. IsMessage(pub) /\ pub.cls = "mqttPublish" /\ "bridge" \notin Players
  <2>1. IsMessage(m)
    BY <1>1, HeadSent DEF IsSent, Local
  <2> QED
    BY <2>1, EventsIs DEF Players
<1> HIDE DEF pub
<1>3. AllQuiet(<<Told(pub, "bridge", "mqtt")>>)
  BY <1>2, OutsiderQuiet
<1>4. Events(m) = <<Told(pub, "bridge", "mqtt")>> \/ Events(m) = <<>>
  BY DEF Events, pub
<1>5. AllQuiet(Events(m))
  BY <1>3, <1>4, NoneQuiet
<1> QED
  BY <1>1, <1>5, BridgeQuiet

(* pubTimer: messages from the bridge to mqtt and to itself.               *)
LEMMA PubTimerGame ==
  ASSUME Mail, Game, PubTimer
  PROVE  Game'
<1> DEFINE alive == PublishPairs(<<Alive>>)
           simple == Add(Msg("publish"), Field("simple", "INT", 1123))
           complex == Add(Msg("publish"), Field("complex", "OBJECT", Complex))
           one == IF mqttConnected THEN <<Told(alive, "bridge", "mqtt")>> ELSE <<>>
           two == <<Told(simple, "bridge", "bridge"),
                    Told(complex, "bridge", "bridge")>>
<1>1. /\ inbox["bridge"] # <<>> /\ UNCHANGED senderVars
      /\ Receive("bridge", Head(inbox["bridge"]), one \o two)
  BY DEF PubTimer, Receives
<1>2. /\ IsMessage(alive) /\ alive.cls = "mqttPublish"
      /\ IsMessage(simple) /\ simple.cls = "publish"
      /\ IsMessage(complex) /\ complex.cls = "publish"
      /\ "bridge" \notin Players
  <2>1. Len(<<Alive>>) = 1
    OBVIOUS
  <2> QED
    BY <2>1, PairsIs, MsgIs, AddIs DEF Players
<1> HIDE DEF alive, simple, complex
<1>3. AllQuiet(one)
  BY <1>2, OutsiderQuiet, NoneQuiet
<1>4. AllQuiet(two)
  <2>1. AllQuiet(<<Told(simple, "bridge", "bridge")>>)
    BY <1>2, OutsiderQuiet
  <2>2. AllQuiet(<<Told(complex, "bridge", "bridge")>>)
    BY <1>2, OutsiderQuiet
  <2>3. two = <<Told(simple, "bridge", "bridge")>>
              \o <<Told(complex, "bridge", "bridge")>>
    BY TwoOf
  <2> QED
    BY <2>1, <2>2, <2>3, ConcatQuiet
<1>5. AllQuiet(one \o two)
  BY <1>3, <1>4, ConcatQuiet
<1> HIDE DEF one, two
<1> QED
  BY <1>1, <1>5, BridgeQuiet

(* pollTimer: a player is asked for its properties.                        *)
LEMMA PollTimerGame ==
  ASSUME Mail, Game, PollTimer
  PROVE  Game'
<1> DEFINE m == Head(inbox["bridge"])
           poll == Told(Msg("Properties"), "bridge", nextRef)
<1>1. /\ inbox["bridge"] # <<>> /\ UNCHANGED senderVars
      /\ Receive("bridge", m, <<poll>>) \/ Receive("bridge", m, <<>>)
  BY DEF PollTimer, Receives, senderVars
<1>2. /\ IsMessage(Msg("Properties")) /\ Msg("Properties").cls = "Properties"
      /\ "bridge" \notin Players
  BY MsgIs DEF Players
<1>3. AllQuiet(<<poll>>)
  BY <1>2, OutsiderQuiet
<1> HIDE DEF poll
<1> QED
  BY <1>1, <1>3, BridgeQuiet, NoneQuiet

(* An event goes to no player.                                             *)
LEMMA PublishQuiet ==
  ASSUME NEW m, IsMessage(m)
  PROVE  AllQuiet(Publish(Bus, m))
<1> DEFINE B == {Bus[i] : i \in 1..5}
           E == {[m EXCEPT !.dst = s.subscriber] :
                   s \in {b \in B : SameClassifier(m, b)}}
<1>1. Bus \in Seq(B) /\ \A s \in B : s.subscriber \in {"system", "bridge"}
  BY DEF Bus
<1>2. Publish(Bus, m) \in Seq(E)
  <2> HIDE DEF B
  <2> QED
    BY <1>1, PublishRange
<1>3. ASSUME NEW e \in E
      PROVE  Quiet(e)
  <2>1. PICK s \in B : e = [m EXCEPT !.dst = s.subscriber]
    OBVIOUS
  <2>2. e.dst \notin Players
    BY <1>1, <2>1 DEF Players, IsMessage
  <2> QED
    BY <2>2 DEF Quiet, IsBall, Players
<1> HIDE DEF E
<1>4. Publish(Bus, m) \in Seq(ToSet(Publish(Bus, m)))
  BY <1>2, OwnElements
<1>5. \A i \in DOMAIN Publish(Bus, m) : Quiet(Publish(Bus, m)[i])
  BY <1>2, <1>3
<1> QED
  BY <1>4, <1>5 DEF AllQuiet, ToSet

(* What comes in is no part of the game if peers leave it alone.           *)
LEMMA RouteQuiet ==
  ASSUME PeersLeaveBenchmark, NEW c \in Commands, NEW x,
         x = Incoming(c.topic, c.payload, known)
  PROVE  AllQuiet(Route(x))
<1>1. /\ IsMessage(x.msg)
      /\ x.ok => Len(c.topic) >= 3 /\ x.msg.cls = c.topic[3]
      /\ x.ok /\ x.msg.dst # NoSender =>
           /\ c.topic[1] = "dst" /\ x.msg.dst = c.topic[2]
           /\ x.msg.src \in Named(c.payload) \cup {NoSender}
  BY NodeAssumption, IncomingSound
<1>2. ASSUME x.ok, x.msg.dst # NoSender
      PROVE  Quiet(x.msg)
  <2>1. Len(c.topic) > 2
    <3>1. Len(c.topic) \in Nat
      BY NodeAssumption
    <3> QED
      BY <1>1, <1>2, <3>1
  <2>2. /\ x.msg.dst = "sender" => x.msg.cls \notin {"StartTest", "pingReply"}
        /\ \A name \in Named(c.payload) : {x.msg.dst, name} # {"sender", "echo"}
    BY <1>1, <1>2, <2>1 DEF PeersLeaveBenchmark
  <2>3. {x.msg.src, x.msg.dst} # {"sender", "echo"}
    <3>1. CASE x.msg.src \in Named(c.payload)
      <4>1. {x.msg.src, x.msg.dst} = {x.msg.dst, x.msg.src}
        OBVIOUS
      <4> QED
        BY <2>2, <3>1, <4>1
    <3>2. CASE x.msg.src = NoSender
      BY <3>2 DEF NoSender
    <3> QED
      BY <1>1, <1>2, <3>1, <3>2
  <2> QED
    BY <2>2, <2>3 DEF Quiet, IsBall
<1>3. CASE Route(x) = <<>>
  BY <1>3, NoneQuiet
<1>4. CASE x.ok /\ x.msg.dst # NoSender
  BY <1>2, <1>4, OneQuiet DEF Route
<1>5. CASE Route(x) = Publish(Bus, x.msg)
  BY <1>1, <1>5, PublishQuiet
<1> QED
  BY <1>3, <1>4, <1>5 DEF Route

(* mqttPublishRcvd: what the peer sent.                                    *)
LEMMA PublishRcvdGame ==
  ASSUME PeersLeaveBenchmark, Mail, Game, PublishRcvd
  PROVE  Game'
<1> DEFINE m == Head(inbox["bridge"])
           x == Incoming(Get(m, "topic")[2], Get(m, "message")[2], known)
<1>1. /\ Receives("bridge", "mqttPublishRcvd") /\ inbox["bridge"] # <<>>
      /\ Receive("bridge", m, Route(x)) /\ UNCHANGED senderVars
  BY DEF PublishRcvd, Receives
<1>2. PICK c \in Commands : x = Incoming(c.topic, c.payload, known)
  BY <1>1, ArrivalRead
<1> HIDE DEF x
<1>3. AllQuiet(Route(x))
  BY <1>2, RouteQuiet
<1> QED
  BY <1>1, <1>3, BridgeQuiet

(* Neither are the events of the client and the messages of most timers.   *)
LEMMA EventGame ==
  ASSUME Mail, Game, NEW class, NEW fields, Event(class, fields),
         UNCHANGED senderVars, IsList(fields)
  PROVE  Game'
<1> DEFINE m == [Msg(class) EXCEPT !.src = "mqtt", !.fields = fields]
<1>1. IsMessage(m)
  BY MsgIs DEF IsMessage
<1>2. inbox' = Deliver(inbox, Publish(Bus, m))
  BY DEF Event
<1> HIDE DEF m
<1>3. AllQuiet(Publish(Bus, m))
  BY <1>1, PublishQuiet
<1> QED
  BY <1>2, <1>3, TellQuiet DEF senderVars

(* The timers of the bridge, and END_TEST.                                 *)
LEMMA FiresGame ==
  ASSUME Mail, Game, NEW a \in {"bridge", "sender"}, NEW class,
         class \notin {"StartTest", "pingReply"}, Fires(a, class),
         testing' = testing, counter' = counter
  PROVE  Game'
<1> DEFINE e == Told(Msg(class), a, a)
<1>1. e.src = a /\ e.dst = a /\ e.cls = class
  BY DEF Told, Msg
<1>2. inbox' = Deliver(inbox, <<e>>)
  BY DEF Fires
<1> HIDE DEF e
<1>3. AllQuiet(<<e>>)
  <2>1. Quiet(e)
    BY <1>1 DEF Quiet, IsBall
  <2> QED
    BY <2>1, OneQuiet
<1> QED
  BY <1>2, <1>3, TellQuiet

(* The balls of a player, counted.                                         *)
LEMMA BallsFinite ==
  ASSUME Mail, NEW a \in Players
  PROVE  IsFiniteSet(BallsAt(a)) /\ Cardinality(BallsAt(a)) \in Nat
<1>1. inbox[a] \in Seq(ToSet(inbox[a]))
  BY DEF Mail, AllSent, Players, Local
<1>2. DOMAIN inbox[a] = 1..Len(inbox[a]) /\ Len(inbox[a]) \in Nat
  BY <1>1
<1>3. BallsAt(a) \subseteq 1..Len(inbox[a])
  BY <1>2 DEF BallsAt
<1>4. IsFiniteSet(1..Len(inbox[a]))
  BY <1>2, FS_Interval
<1> QED
  BY <1>3, <1>4, FS_Subset, FS_CardinalityType

(* START_TEST fires when no ball is in play and no start waits.            *)
LEMMA StartTimerGame ==
  ASSUME Mail, Game, StartTimer
  PROVE  Game'
<1> PICK n : n = Len(inbox["sender"]) + 1
  OBVIOUS
<1> PICK e : e = Told(Msg("StartTest"), "sender", "sender")
  OBVIOUS
<1>1. e.src = "sender" /\ e.dst = "sender" /\ e.cls = "StartTest"
  BY DEF Told, Msg
<1>2. /\ inbox' = Deliver(inbox, <<e>>) /\ Balls = 0 /\ ~testing
      /\ ~Waits("sender", "StartTest")
      /\ testing' = testing /\ counter' = counter
  BY DEF StartTimer, Fires, senderVars
<1>3. /\ "sender" \in Local /\ "echo" \in Local
      /\ "sender" \in Players /\ "echo" \in Players
  BY DEF Local, Players
<1>4. \A b \in Local : inbox[b] \in Seq(ToSet(inbox[b]))
  BY DEF Mail, AllSent
<1>5. inbox'["sender"] = Append(inbox["sender"], e) /\ inbox'["echo"] = inbox["echo"]
  <2>1. Mailbox(e.dst) = "sender"
    BY <1>1, <1>3 DEF Mailbox
  <2>2. Deliver(inbox, <<e>>)["sender"] = Append(inbox["sender"], e)
    <3>1. inbox["sender"] \in Seq(ToSet(inbox["sender"]))
      BY <1>3, <1>4
    <3>2. Deliver(inbox, <<e>>)["sender"] =
            IF Mailbox(e.dst) = "sender" THEN Append(inbox["sender"], e)
                                         ELSE inbox["sender"]
      <4> HIDE <1>1, <1>2, <2>1
      <4> QED
        BY <1>3, <3>1, DeliverOne
    <3> QED
      BY <2>1, <3>2
  <2>3. Deliver(inbox, <<e>>)["echo"] = inbox["echo"]
    <3>1. Mailbox(e.dst) # "echo" /\ inbox["echo"] \in Seq(ToSet(inbox["echo"]))
      BY <1>3, <1>4, <2>1
    <3> QED
      BY <1>3, <3>1, DeliverOne, Zenon
  <2> QED
    BY <1>2, <2>2, <2>3
<1>6. ASSUME NEW i \in DOMAIN inbox'["sender"]
      PROVE  \/ i = n /\ inbox'["sender"][i] = e
             \/ i \in DOMAIN inbox["sender"] /\ inbox'["sender"][i] = inbox["sender"][i]
  <2>1. /\ DOMAIN inbox'["sender"] = 1..n
        /\ \A j \in 1..Len(inbox["sender"]) :
             inbox'["sender"][j] = inbox["sender"][j]
        /\ inbox'["sender"][n] = e
    BY <1>3, <1>4, <1>5, AppendAt
  <2>2. DOMAIN inbox["sender"] = 1..Len(inbox["sender"])
        /\ Len(inbox["sender"]) \in Nat
    BY <1>3, <1>4
  <2> QED
    BY <2>1, <2>2
<1>7. \A a \in Players : \A i \in DOMAIN inbox[a] : ~InPlay(a, i)
  <2>1. \A a \in Players : IsFiniteSet(BallsAt(a)) /\ Cardinality(BallsAt(a)) \in Nat
    BY BallsFinite
  <2>2. Cardinality(BallsAt("sender")) = 0 /\ Cardinality(BallsAt("echo")) = 0
    BY <1>2, <1>3, <2>1 DEF Balls
  <2>3. BallsAt("sender") = {} /\ BallsAt("echo") = {}
    BY <1>3, <2>1, <2>2, FS_EmptySet
  <2> QED
    BY <2>3 DEF Players, BallsAt, InPlay
<1>8. ~IsBall(e)
  BY <1>1 DEF IsBall
<1>9. \A a \in Players : \A i \in DOMAIN inbox'[a] : ~InPlay(a, i)'
  <2>1. ASSUME NEW i \in DOMAIN inbox'["sender"], InPlay("sender", i)'
        PROVE  FALSE
    BY <1>3, <1>6, <1>7, <1>8, <2>1 DEF InPlay
  <2>2. ASSUME NEW i \in DOMAIN inbox'["echo"], InPlay("echo", i)'
        PROVE  FALSE
    BY <1>3, <1>5, <1>7, <2>2 DEF InPlay
  <2> QED
    BY <2>1, <2>2 DEF Players
<1>10. ~SomeInPlay' /\ NoSecond'
  BY <1>9 DEF SomeInPlay, NoSecond
<1>11. BallsShaped'
  <2>1. ASSUME NEW i \in DOMAIN inbox'["sender"]
        PROVE  LET m == inbox'["sender"][i] IN
               (IsBall(m) <=> m.cls = "pingReply") /\ (IsBall(m) => CountOk(m))
    BY <1>1, <1>6, <1>8 DEF Game, BallsShaped
  <2>2. ASSUME NEW i \in DOMAIN inbox'["echo"]
        PROVE  LET m == inbox'["echo"][i] IN
               IsBall(m) => m.cls = "ping" /\ CountOk(m)
    BY <1>5 DEF Game, BallsShaped
  <2> QED
    BY <2>1, <2>2 DEF BallsShaped
<1>12. StartWaits'
  <2>1. ASSUME NEW i \in DOMAIN inbox'["sender"],
               inbox'["sender"][i].cls = "StartTest"
        PROVE  i = n
    BY <1>2, <1>6, <2>1 DEF Waits
  <2> QED
    BY <1>2, <1>10, <2>1 DEF StartWaits
<1> QED
  BY <1>2, <1>10, <1>11, <1>12 DEF Game

(* No test runs at first.                                                  *)
LEMMA GameInit == Init => Game
<1> SUFFICES ASSUME Init PROVE Game
  OBVIOUS
<1>1. /\ inbox["sender"] = <<>> /\ inbox["echo"] = <<>>
      /\ testing = FALSE /\ counter = 0
  BY DEF Init, Local
<1>2. DOMAIN inbox["sender"] = {} /\ DOMAIN inbox["echo"] = {}
  BY <1>1
<1>3. \A a \in Players : DOMAIN inbox[a] = {}
  BY <1>2 DEF Players
<1>4. 0 \in 0..MaxCount
  BY NodeAssumption
<1> QED
  BY <1>1, <1>2, <1>3, <1>4 DEF Game, BallsShaped, NoSecond, StartWaits

(* Game is inductive, given Mail.                                          *)
LEMMA GameNext ==
  ASSUME PeersLeaveBenchmark
  PROVE  Mail /\ Game /\ [Next]_vars => Game'
<1> SUFFICES ASSUME Mail, Game, [Next]_vars
             PROVE  Game'
  OBVIOUS
<1>1. ASSUME NEW a \in Local, ActorStep(a)
      PROVE  Game'
  <2>1. CASE Unhandled(a)
    BY <2>1, UnhandledGame
  <2>2. CASE Properties(a)
    BY <2>2, PropertiesGame
  <2>3. CASE SenderStep
    BY <2>3, StartGame, EndTestGame, PongGame DEF SenderStep
  <2>4. CASE EchoPing
    BY <2>4, EchoGame
  <2>5. CASE Config
    BY <2>5, ConfigGame
  <2>6. CASE SystemHears
    BY <2>6, SystemGame
  <2>7. CASE BridgeStep
    <3>1. CASE BridgeConnected
      BY <3>1, BridgeQuiet, SubscribeQuiet DEF BridgeConnected, Receives
    <3>2. CASE BridgeDisconnected
      BY <3>2, BridgeQuiet, NoneQuiet DEF BridgeDisconnected, Receives
    <3>3. CASE PublishRcvd
      BY <3>3, PublishRcvdGame
    <3>4. CASE PubTimer
      BY <3>4, PubTimerGame
    <3>5. CASE PropertiesReply \/ Publishes
      BY <3>5, AnnounceGame DEF PropertiesReply, Publishes
    <3>6. CASE PollTimer
      BY <3>6, PollTimerGame
    <3> QED
      BY <2>7, <3>1, <3>2, <3>3, <3>4, <3>5, <3>6 DEF BridgeStep
  <2>8. CASE MqttPublish
    BY <2>8, MqttGame
  <2> QED
    BY <1>1, <2>1, <2>2, <2>3, <2>4, <2>5, <2>6, <2>7, <2>8 DEF ActorStep
<1>2. CASE EmplaceBridge \/ UNCHANGED vars
  <2>1. UNCHANGED <<inbox, testing, counter>>
    BY <1>2 DEF EmplaceBridge, vars, senderVars
  <2> QED
    BY <2>1 DEF Game, BallsShaped, NoSecond, StartWaits, SomeInPlay, InPlay
<1>3. CASE onConnect \/ onConnectionLost
  BY <1>3, NoList, EventGame DEF onConnect, onConnectionLost
<1>4. CASE onMessageArrived
  <2>1. PICK c \in Commands : Event("mqttPublishRcvd", Arrival(c))
    BY <1>4 DEF onMessageArrived, Arrival
  <2>2. IsList(Arrival(c)) /\ UNCHANGED senderVars
    BY <1>4, TwoList DEF onMessageArrived, Arrival
  <2> QED
    BY <2>1, <2>2, EventGame
<1>5. ASSUME NEW class \in {"pollTimer", "pubTimer"}, BridgeTimer(class)
      PROVE  Game'
  BY <1>5, FiresGame DEF BridgeTimer, senderVars
<1>6. CASE EndTimer
  BY <1>6, FiresGame DEF EndTimer
<1>7. CASE StartTimer
  BY <1>7, StartTimerGame
<1> QED
  BY <1>1, <1>2, <1>3, <1>4, <1>5, <1>6, <1>7 DEF Next

(* While peers leave it alone the game goes on as it should: this is the   *)
(* inductive invariant of the benchmark.                                   *)
THEOREM NodeGame ==
  ASSUME PeersLeaveBenchmark
  PROVE  Spec => []Game
<1>1. Init => Mail /\ Ring /\ Game
  BY MailInit, RingInit, GameInit
<1>2. Mail /\ Ring /\ Game /\ [Next]_vars => (Mail /\ Ring /\ Game)'
  BY MailNext, RingNext, GameNext
<1> QED
  BY <1>1, <1>2, PTL DEF Spec

(* README.md, "Sender": from its start until its end a test has exactly    *)
(* one ping or pong in play, and there is never a second one.              *)
THEOREM NodeOneBall ==
  ASSUME PeersLeaveBenchmark
  PROVE  Spec => []OneBall
<1>1. Mail /\ Game => OneBall
  <2> SUFFICES ASSUME Mail, Game
               PROVE  OneBall
    OBVIOUS
  <2>1. "sender" \in Players /\ "echo" \in Players
    BY DEF Players
  <2>2. ASSUME NEW a \in Players, NEW b \in Players \ {a},
               NEW i \in BallsAt(a)
        PROVE  BallsAt(a) = {i} /\ BallsAt(b) = {}
    BY DEF BallsAt, InPlay, Game, NoSecond
  <2>3. Cardinality({}) = 0 /\ \A i : Cardinality({i}) = 1
    BY FS_EmptySet, FS_Singleton
  <2>4. CASE BallsAt("sender") # {}
    <3>1. PICK i : i \in BallsAt("sender")
      BY <2>4
    <3>2. BallsAt("sender") = {i} /\ BallsAt("echo") = {}
      BY <2>1, <2>2, <3>1
    <3>3. Cardinality(BallsAt("sender")) = 1 /\ Cardinality(BallsAt("echo")) = 0
      BY <2>3, <3>2
    <3>4. Balls = 1
      BY <3>3 DEF Balls
    <3> QED
      BY <3>4 DEF OneBall
  <2>5. CASE BallsAt("echo") # {}
    <3>1. PICK i : i \in BallsAt("echo")
      BY <2>5
    <3>2. BallsAt("echo") = {i} /\ BallsAt("sender") = {}
      BY <2>1, <2>2, <3>1
    <3>3. Cardinality(BallsAt("echo")) = 1 /\ Cardinality(BallsAt("sender")) = 0
      BY <2>3, <3>2
    <3>4. Balls = 1
      BY <3>3 DEF Balls
    <3> QED
      BY <3>4 DEF OneBall
  <2>6. CASE BallsAt("sender") = {} /\ BallsAt("echo") = {}
    <3>1. ~testing
      BY <2>6 DEF Game, SomeInPlay, InPlay, BallsAt, Players
    <3> QED
      BY <2>3, <2>6, <3>1 DEF OneBall, Balls
  <2> QED
    BY <2>4, <2>5, <2>6
<1> QED
  BY <1>1, NodeMail, NodeGame, PTL

(* The flags of the actors.                                                *)
Flags ==
  /\ mqttConnected \in BOOLEAN /\ connected \in BOOLEAN
  /\ testing \in BOOLEAN /\ endTimer \in BOOLEAN
  /\ looping \in BOOLEAN

(* Handlers and callbacks set flags to TRUE or FALSE.                      *)
LEMMA FlagsNext == Flags /\ [Next]_vars => Flags'
<1> SUFFICES ASSUME Flags, [Next]_vars
             PROVE  Flags'
  OBVIOUS
<1>1. ASSUME NEW a \in Local, ActorStep(a)
      PROVE  Flags'
  BY <1>1 DEF Flags, ActorStep, Unhandled, Properties, SenderStep, StartTest,
    EndTest, Pong, EchoPing, Config, SystemHears, BridgeStep, BridgeConnected,
    BridgeDisconnected, PublishRcvd, PubTimer, PropertiesReply, Publishes,
    Announce, Loops, PollTimer, MqttPublish, senderVars, bridgeVars
<1>2. CASE EmplaceBridge \/ UNCHANGED vars
  BY <1>2 DEF Flags, EmplaceBridge, vars, senderVars, bridgeVars
<1>3. CASE onConnect \/ onConnectionLost \/ onMessageArrived
  BY <1>3 DEF Flags, onConnect, onConnectionLost, onMessageArrived, senderVars,
    bridgeVars
<1>4. CASE \/ \E class \in {"pollTimer", "pubTimer"} : BridgeTimer(class)
           \/ StartTimer \/ EndTimer
  BY <1>4 DEF Flags, BridgeTimer, StartTimer, EndTimer, senderVars, bridgeVars
<1> QED
  BY <1>1, <1>2, <1>3, <1>4 DEF Next

(* The variables have their types; that the counter stays a number rests   *)
(* on the game, for the sender takes it from the pong as it is.            *)
THEOREM NodeTypeCorrect ==
  ASSUME PeersLeaveBenchmark
  PROVE  Spec => []TypeOK
<1>1. Init => Flags
  BY DEF Init, Flags
<1>2. Mail /\ Ring /\ Game /\ Flags => TypeOK
  <2> SUFFICES ASSUME Mail, Ring, Game, Flags
               PROVE  TypeOK
    OBVIOUS
  <2>1. \A a \in Local : \A i \in DOMAIN inbox[a] :
          DOMAIN inbox[a][i] = {"cls", "src", "dst", "fields"}
    BY DEF Mail, AllSent, IsSent, IsMessage
  <2>2. ToSet(refs) \subseteq Local
    BY DEF Ring, ToSet
  <2>3. NoSender \notin Local
    BY DEF NoSender, Local
  <2> QED
    BY <2>1, <2>2, <2>3 DEF TypeOK, Mail, Ring, Game, Flags
<1> QED
  BY <1>1, <1>2, NodeMail, NodeGame, FlagsNext, PTL DEF Spec

=============================================================================
