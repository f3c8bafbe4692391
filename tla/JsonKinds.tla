------------------------------ MODULE JsonKinds ------------------------------
(***************************************************************************)
(* How a to_json or a from_json is described: a table from the members of  *)
(* the C++ struct to the key, the kind of the value, and whether the       *)
(* member is written in any case or the key must be there.                 *)
(***************************************************************************)
EXTENDS Values, TLC

Text   == [is |-> "text"]
Real   == [is |-> "real"]
Uint32 == [is |-> "uint32"]
Int8   == [is |-> "int8"]
Int32  == [is |-> "int32"]
Flag   == [is |-> "flag"]
Time   == [is |-> "time"]
Enum(spelling) == [is |-> "enum", of |-> spelling]
Object(type)   == [is |-> "object", of |-> type]
List(kind)     == [is |-> "list", of |-> kind]

Same(names) == [n \in names |-> n]

Rows(keys, kind, must, initial) ==
  [m \in DOMAIN keys |-> [key |-> keys[m], kind |-> kind, must |-> must, initial |-> initial]]

(* to_json: j[key] = member, or the same if the member has a value.        *)
Writes(members, kind) == Rows(Same(members), kind, TRUE, Absent)
IfSet(members, kind)  == Rows(Same(members), kind, FALSE, Absent)
IfSetAs(keys, kind)   == Rows(keys, kind, FALSE, Absent)

(* from_json: member = j.at(key), or the same if j contains the key; the   *)
(* member else keeps what the struct gives it.                             *)
Needs(members, kind)      == Rows(Same(members), kind, TRUE, Absent)
IfContains(members, kind) == Rows(Same(members), kind, FALSE, Absent)
IfContainsAs(keys, kind)  == Rows(keys, kind, FALSE, Absent)
IfContainsElse(members, kind, initial) == Rows(Same(members), kind, FALSE, initial)

=============================================================================
