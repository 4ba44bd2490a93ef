----------------------------- MODULE JsonValues -----------------------------
(***************************************************************************)
(* A field of a message as a JSON value and a JSON value as fields, for    *)
(* objects nested to any depth: ToJson and FromJson of Conversion.         *)
(***************************************************************************)
EXTENDS Conversion

RECURSIVE xdrToJson(_, _)

(* One field into a variant that is null or an object.  An Xdr within the  *)
(* message makes the variant an object of its own fields and nothing else. *)
(* A BOOL is read from the first field with its tag, which is this one     *)
(* unless the message GoesBack; the names in an Xdr within it differ.      *)
xdrTagToJson(variant, f) ==
  LET type == f.val[1] IN
  IF type = "OBJECT" THEN xdrToJson(<<"object", <<>>>>, f.val[2])
  ELSE LET json == <<JsonKind[type], f.val[2]>> IN
       IF variant[1] = "object"
       THEN <<"object", SetKey(variant[2], f.tag, json)>>
       ELSE json

xdrToJson(variant, fields) ==
  FoldLeft(LAMBDA v, f : IF f.tag \in Meta THEN v ELSE xdrTagToJson(v, f),
           variant, fields)

RECURSIVE jsonToXdr(_, _)

(* Mutant: the values of an object go by the name of the object.           *)
jsonToXdrOneName(name, json) ==
  IF json[1] = "null" THEN [ok |-> FALSE, fields |-> <<>>]
  ELSE IF json[1] # "object"
  THEN [ok |-> TRUE, fields |-> <<Field(name, XdrType(json), json[2])>>]
  ELSE FoldLeft(
    LAMBDA acc, e :
      LET x == jsonToXdr(name, e.val) IN
      IF ~acc.ok \/ e.tag = "$SRC" \/ e.val[1] = "object" THEN acc
      ELSE [ok |-> x.ok, fields |-> acc.fields \o x.fields],
    [ok |-> TRUE, fields |-> <<>>], json[2])

(* A value under a name, or all fields of an object but $SRC; what comes   *)
(* before a value it does not know stays in the message.                   *)
jsonToXdr(name, json) ==
  IF json[1] = "null" THEN [ok |-> FALSE, fields |-> <<>>]
  ELSE IF json[1] # "object"
  THEN [ok |-> TRUE, fields |-> <<Field(name, XdrType(json), json[2])>>]
  ELSE FoldLeft(
    LAMBDA acc, e :
      LET isObject == e.val[1] = "object"
          x == jsonToXdr(IF isObject THEN "NONAME" ELSE e.tag, e.val)
      IN  IF ~acc.ok \/ e.tag = "$SRC" THEN acc
          ELSE IF isObject
          THEN [acc EXCEPT !.fields = Append(@, Field(e.tag, "OBJECT", x.fields))]
          ELSE [ok |-> x.ok, fields |-> acc.fields \o x.fields],
    [ok |-> TRUE, fields |-> <<>>], json[2])
=============================================================================
