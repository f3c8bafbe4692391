---------------------------- MODULE LayoutLoader ----------------------------
(***************************************************************************)
(* load_from_json: parses a JSON document, and validates what it parsed.   *)
(***************************************************************************)
EXTENDS JsonCodec, LayoutRules

L == INSTANCE LayoutFromJson

(* Each layout is read by itself, so that one bad layout does not hide the *)
(* others; any error at all leaves no LIF.                                 *)

Rejected == [lif |-> Absent, ok |-> FALSE]

Part(json, key, kind) ==
  IF key \notin DOMAIN json.content THEN Bad
  ELSE Decode(L!Types, kind, json.content[key])

LayoutsOf(json) ==
  IF "layouts" \notin DOMAIN json.content THEN <<Bad>>
  ELSE IF json.content.layouts.token # "array" THEN <<Bad>>
  ELSE [i \in DOMAIN json.content.layouts.content |->
          Decode(L!Types, Object("Layout"), json.content.layouts.content[i])]

LoadFromJson(json) ==
  IF json.token # "object" THEN Rejected ELSE
  LET meta    == Part(json, "metaInformation", Object("MetaInformation"))
      layouts == LayoutsOf(json)
      lif     == [metaInformation |-> meta, layouts |-> layouts]
  IN IF meta = Bad \/ Bad \in Elements(layouts) \/ ValidateLayout(lif) # {}
     THEN Rejected
     ELSE [lif |-> lif, ok |-> TRUE]

=============================================================================
