------------------------------ MODULE JsonCodec ------------------------------
(***************************************************************************)
(* What the conversions between C++ objects and JSON share: the writers    *)
(* are the tables of the to_json of every type, the readers those of the   *)
(* from_json.  A C++ object is a function from its members to values; its  *)
(* JSON has a token and a content.                                         *)
(***************************************************************************)
EXTENDS JsonKinds, Integers, Sequences

CONSTANT Bad   \* an exception thrown by the reader

Json(token, content) == [token |-> token, content |-> content]

(* Time is counted in microseconds and written with three digits after the *)
(* second; the reader takes whatever digits it finds for milliseconds.     *)
ToIso8601(t)   == [sec |-> t \div 1000000, fraction |-> (t \div 1000) % 1000]
FromIso8601(x) == x.sec * 1000000 + x.fraction * 1000

Token(kind) ==
  CASE kind.is \in {"text", "enum"} -> "string"
    [] kind.is \in {"real", "uint32", "int8", "int32"} -> "number"
    [] kind.is = "flag" -> "boolean"

Written(table, v) == {m \in DOMAIN table : table[m].must \/ v[m] # Absent}

(* j is null until the first key is set: an object of which nothing is     *)
(* written stays null.                                                     *)
RECURSIVE Encode(_, _, _)
Encode(writers, kind, v) ==
  CASE kind.is = "list" ->
         Json("array", [i \in DOMAIN v |-> Encode(writers, kind.of, v[i])])
    [] kind.is = "object" ->
         LET table   == writers[kind.of]
             members == Written(table, v)
             under(k) == CHOOSE m \in members : table[m].key = k
         IN IF members = {} THEN Json("null", NaN)
            ELSE Json("object", [k \in {table[m].key : m \in members} |->
                                   Encode(writers, table[under(k)].kind, v[under(k)])])
    [] kind.is = "time" -> Json("string", ToIso8601(v))
    [] kind.is = "enum" -> Json("string", kind.of[v])
    [] kind.is = "real" /\ v = NaN -> Json("null", NaN)
    [] OTHER -> Json(Token(kind), v)

(* contains() is false of any JSON but an object, so that only at() refuses *)
(* another token: a type of which nothing is needed reads anything.        *)
Contains(j, key) == j.token = "object" /\ key \in DOMAIN j.content

RECURSIVE Decode(_, _, _)
Decode(readers, kind, j) ==
  CASE kind.is = "list" ->
         IF j.token # "array" THEN Bad ELSE
         LET parts == [i \in DOMAIN j.content |-> Decode(readers, kind.of, j.content[i])]
         IN IF \E i \in DOMAIN parts : parts[i] = Bad THEN Bad ELSE parts
    [] kind.is = "object" ->
         LET table == readers[kind.of]
             read  == [m \in DOMAIN table |->
                         IF Contains(j, table[m].key)
                         THEN Decode(readers, table[m].kind, j.content[table[m].key])
                         ELSE IF table[m].must THEN Bad ELSE table[m].initial]
         IN IF \E m \in DOMAIN table : read[m] = Bad THEN Bad ELSE read
    [] kind.is = "time" ->
         IF j.token # "string" THEN Bad ELSE FromIso8601(j.content)
    [] kind.is = "enum" ->
         IF j.token # "string" \/ j.content \notin DOMAIN kind.of THEN Bad
         ELSE kind.of[j.content]
    [] OTHER -> IF j.token # Token(kind) THEN Bad ELSE j.content

=============================================================================
