------------------------------- MODULE MCNode -------------------------------
(* A peer with one named actor that sends what the actors of this node     *)
(* understand, and some topics that they do not.                           *)
EXTENDS Node, JsonValues

Entry(tag, kind, value) == [tag |-> tag, val |-> <<kind, value>>]
From == Entry("$SRC", "string", "peer")
Nr   == Entry("$ID", "number", 7)

To(actor, class, entries) ==
  [topic |-> <<"dst", actor, class>>, payload |-> <<"object", entries>>]

Set(entry) ==
  To("config", "set", <<From, Entry("namespace", "string", "mqtt"),
                        Entry("key", "string", "url"), entry>>)

Publication(entry) ==
  To("bridge", "publish", <<From, Entry("x", "number", 1), entry>>)

(* An object with an object between its values.                            *)
Nested ==
  <<Entry("u", "number", 1),
    Entry("n", "object", <<Entry("z", "fraction", "1.5")>>),
    Entry("w", "bool", TRUE)>>

MCCommands ==
  { To("echo", "ping", <<Entry("counter", "number", 0), From, Nr>>),
    To("system", "Properties", <<From, Nr>>),
    Set(Entry("value", "number", -1)),
    Set(Entry("value", "null", 0)),
    Publication(Entry("y", "object", Nested)),
    [topic |-> <<"dst", "mqtt", "Properties">>, payload |-> <<"text", "?">>],
    [topic |-> <<"dst", "nobody", "get">>, payload |-> <<"null", 0>>],
    [topic |-> <<"dst", "node">>, payload |-> <<"bool", TRUE>>] }

ASSUME PeersLeaveBenchmark

MCOrder == <<"echo", "sender", "system", "mqtt", "config">>
=============================================================================
