----------------------------- MODULE MCOrderFlow -----------------------------
(***************************************************************************)
(* The fleet manager dispatches "A" with its first node released, an       *)
(* update that leads "A" on to another place, and an order "B", released   *)
(* to its end, that begins where "A" does not.                             *)
(***************************************************************************)
EXTENDS OrderFlow

Line(places, first, base) ==
  LET last == first + 2 * (Len(places) - 1)
      node(s) == places[1 + (s - first) \div 2]
  IN [nodes |-> [s \in {x \in first .. last : x % 2 = 0} |->
                   [what |-> node(s), released |-> s <= base]],
      edges |-> [s \in {x \in first .. last : x % 2 = 1} |->
                   [what |-> <<node(s - 1), node(s + 1)>>, released |-> s <= base]]]

MCOrder(id, upd, line) ==
  [id |-> id, upd |-> upd, tag |-> 0, nodes |-> line.nodes, edges |-> line.edges]

A0 == MCOrder("A", 0, Line(<<"p", "q", "r">>, 0, 0))
A1 == MCOrder("A", 1, Line(<<"p", "s">>, 0, 2))
B0 == MCOrder("B", 0, Line(<<"t", "u">>, 0, 2))

MCOrders == {A0, A1, B0}

(* An order and an update that stitches on its second node.                *)
Shifted == {MCOrder("A", 0, Line(<<"p", "q", "r">>, 0, 2)),
            MCOrder("A", 1, Line(<<"q", "r">>, 2, 4))}

(* An order of which the vehicle may drive to the first node only.         *)
WithHorizon == {A0}

MCStates == Reports

ASSUME DispatchesContinue == OrdersContinue

=============================================================================
