----------------------------- MODULE MCAgvOrders -----------------------------
(***************************************************************************)
(* Two fleets at one AGV object, each explored on its own.                 *)
(*                                                                         *)
(* "driving": an order "A" with two updates that stitch one on the other,  *)
(* a competing order "B", and a vehicle that may report any of a few       *)
(* positions in them.  Node s of "A" is place s; the node of "B" is place  *)
(* 4, where the second update of "A" stitches.                             *)
(*                                                                         *)
(* "modes": a vehicle that leaves AUTOMATIC and comes back, a fleet        *)
(* manager that resumes or discards the captured queue, and a restart of   *)
(* the AGV object.  A full queue refuses the newest order here.            *)
(***************************************************************************)
EXTENDS AgvOrders

VARIABLE part

(* A route from first over base to last; what lies after base is horizon.  *)
MCNodes(first, base, last) ==
  [s \in {x \in first .. last : x % 2 = 0} |-> [what |-> s, released |-> s <= base]]
MCEdges(first, base, last) ==
  [s \in {x \in first .. last : x % 2 = 1} |->
     [what |-> <<s - 1, s + 1>>, released |-> s <= base]]

MCOrder(id, upd, first, base, last) ==
  [id |-> id, upd |-> upd, tag |-> 0,
   nodes |-> MCNodes(first, base, last), edges |-> MCEdges(first, base, last)]

(* An order to go to one place and stay there.                             *)
MCStay(id, upd, place, tag) ==
  [MCOrder(id, upd, 0, 0, 0) EXCEPT !.nodes[0].what = place, !.tag = tag]

DrivingOrders == {MCOrder("A", 0, 0, 2, 4), MCOrder("A", 1, 2, 4, 4),
                  MCOrder("A", 2, 4, 6, 6), MCStay("B", 0, 4, 0)}
ModesOrders == {MCStay("A", 0, 1, 0), MCStay("A", 1, 1, 1), MCStay("B", 0, 2, 0)}

MCState(id, upd, seq, node, mode, base) ==
  [order_id |-> id, upd |-> upd, seq |-> seq, node |-> node, mode |-> mode, new_base |-> base]

Auto(id, upd, seq) == MCState(id, upd, seq, seq, "AUTOMATIC", FALSE)

DrivingStates == {Auto("A", 0, 2), Auto("A", 1, 4), Auto("A", 0, 4),
                  MCState("B", 0, 0, 4, "AUTOMATIC", FALSE)}
ModesStates == {Auto("", 0, 0), MCState("", 0, 0, 0, "MANUAL", FALSE),
                MCState("A", 0, 0, 1, "AUTOMATIC", TRUE)}

MCOrders == DrivingOrders \cup ModesOrders
MCStates == DrivingStates \cup ModesStates

-----------------------------------------------------------------------------
Driving == INSTANCE AgvOrders
  WITH Orders <- DrivingOrders, States <- DrivingStates, DropOldest <- TRUE, MaxStops <- 0
Modes == INSTANCE AgvOrders
  WITH Orders <- ModesOrders, States <- ModesStates, DropOldest <- FALSE, MaxStops <- 1

MCInit == Init /\ part \in {"driving", "modes"}

MCNext ==
  /\ UNCHANGED part
  /\ \/ part = "driving" /\ Driving!Next
     \/ part = "modes" /\ Modes!Next

MCSpec == MCInit /\ [][MCNext]_<<vars, part>>

=============================================================================
