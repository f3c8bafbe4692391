---------------------------- MODULE MCAgvSparse ----------------------------
(***************************************************************************)
(* AgvOrders with one order and an update that leaves the stitch node out: *)
(* its route starts two nodes further on.                                  *)
(***************************************************************************)
EXTENDS AgvOrders

Place(s) == [what |-> s, released |-> TRUE]
Join(s) == [what |-> <<s - 1, s + 1>>, released |-> TRUE]

A0 == [id |-> "A", upd |-> 0, tag |-> 0,
       nodes |-> [s \in {0, 2} |-> Place(s)], edges |-> [s \in {1} |-> Join(s)]]
A1 == [id |-> "A", upd |-> 1, tag |-> 0,
       nodes |-> [s \in {4, 6} |-> Place(s)], edges |-> [s \in {5} |-> Join(s)]]

MCOrders == {A0, A1}

MCStates == {[order_id |-> "A", upd |-> 0, seq |-> s, node |-> s,
              mode |-> "AUTOMATIC", new_base |-> FALSE] : s \in {0, 2}}

=============================================================================
