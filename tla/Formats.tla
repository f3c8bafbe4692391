------------------------------- MODULE Formats -------------------------------
(***************************************************************************)
(* What crosses the borders of the program as text: a message written by   *)
(* one side and read by the other, and a layout file that is loaded,       *)
(* wrapped in a graph and edited.                                          *)
(***************************************************************************)
EXTENDS LayoutLoader, LayoutGraph

CONSTANTS
  Messages,     \* pairs of a type and an object of that type
  Documents,    \* JSON documents offered to the loader
  MaxEdits      \* a bound on the edits of one layout

VARIABLES
  message, document,   \* what came in: one of the two
  output,              \* what was made of it
  edits

formatVars == <<message, document, output, graph, edits>>

W == INSTANCE MessageToJson
R == INSTANCE MessageFromJson
F == INSTANCE LayoutToJson

NothingLoaded == output = None /\ graph = None /\ edits = 0

FormatsIdle == message = None /\ document = None /\ NothingLoaded

FormatsInit ==
  /\ \/ message \in Messages /\ document = None
     \/ message = None /\ document \in Documents
  /\ NothingLoaded

Receive ==
  /\ message # None /\ output = None
  /\ LET kind == Object(message[1])
     IN output' = Decode(R!Types, kind, Encode(W!Types, kind, message[2]))
  /\ UNCHANGED <<message, document, graph, edits>>

LoadGraph ==
  /\ document # None /\ output = None
  /\ output' = LoadFromJson(document)
  /\ IF output'.ok THEN FromLif(output'.lif) ELSE UNCHANGED graph
  /\ UNCHANGED <<message, document, edits>>

EditGraph ==
  /\ edits < MaxEdits
  /\ edits' = edits + 1
  /\ Mutate
  /\ UNCHANGED <<message, document, output>>

FormatsNext == Receive \/ LoadGraph \/ EditGraph

FormatsSpec == FormatsInit /\ [][FormatsNext]_formatVars

-----------------------------------------------------------------------------
(* Properties.                                                             *)

RECURSIVE HoldsNaN(_, _, _), Rounded(_, _, _)
HoldsNaN(types, kind, v) ==
  CASE v = Absent       -> FALSE
    [] kind.is = "real" -> v = NaN
    [] kind.is = "list" -> \E i \in DOMAIN v : HoldsNaN(types, kind.of, v[i])
    [] kind.is = "object" ->
         \E m \in DOMAIN v : HoldsNaN(types, types[kind.of][m].kind, v[m])
    [] OTHER -> FALSE

Rounded(types, kind, v) ==
  CASE v = Absent         -> v
    [] kind.is = "time"   -> v - (v % 1000)
    [] kind.is = "list"   -> [i \in DOMAIN v |-> Rounded(types, kind.of, v[i])]
    [] kind.is = "object" ->
         [m \in DOMAIN v |-> Rounded(types, types[kind.of][m].kind, v[m])]
    [] OTHER -> v

(* A message arrives as it was sent: every member of the struct is written *)
(* by to_json and read by from_json under the same key, in the same kind   *)
(* and spelling, empty optionals and empty lists apart, times cut to       *)
(* milliseconds; an object of which nothing is written arrives as null and *)
(* is read as one with nothing set.  A message that holds a NaN anywhere   *)
(* is written and refused by the reader.                                   *)
(* Code: the to_json and from_json of serialization.hpp, the to_string and *)
(* from_string of traits.hpp.                                              *)
MessageReadsBack ==
  message # None /\ output # None =>
    LET kind == Object(message[1])
        sent == message[2]
    IN output = IF HoldsNaN(W!Types, kind, sent) THEN Bad
                ELSE Rounded(W!Types, kind, sent)

(* What the loader holds against an element by itself.                     *)
OwnErrors(lif) ==
  (UNION {ValidateNode(At(lif, "nodes", p)) : p \in Places(lif, "nodes")})
    \cup (UNION {ValidateEdge(lif.layouts[p[1]], At(lif, "edges", p)) \ {"DANGLING_NODE_REF"}
                 : p \in Places(lif, "edges")})
    \cup UNION {ValidateStation(At(lif, "stations", p)) : p \in Places(lif, "stations")}

(* An edited layout can be written and loaded again, unchanged: no edit    *)
(* leaves a reference open or an id twice.                                 *)
(* Not so if an element was added that the loader refuses on its own: the  *)
(* edits look neither for empty lists nor at angles, heights, trajectories *)
(* and NaN, and the file is then refused for that alone.                   *)
(* Code: graph.cpp, layout_serialization.hpp, load_from_json.              *)
LayoutReloads ==
  graph # None =>
    LET again == LoadFromJson(Encode(F!Types, Object("LIF"), graph.lif))
        sound == OwnErrors(graph.lif) = {} /\ ~ HoldsNaN(F!Types, Object("LIF"), graph.lif)
    IN /\ ValidateLayout(graph.lif) = OwnErrors(graph.lif)
       /\ again = IF sound THEN [lif |-> graph.lif, ok |-> TRUE] ELSE Rejected

=============================================================================
