----------------------------- MODULE LayoutGraph -----------------------------
(***************************************************************************)
(* The graph the master wraps around a layout: the LIF, the indices from   *)
(* ids to places in it, the edges that leave and enter each node and the   *)
(* stations that refer to it.  The mutations update all of them in place;  *)
(* one that throws changes nothing and has no step here.  Nothing depends  *)
(* on the order of the vectors of edge and station ids: they are bags.     *)
(***************************************************************************)
EXTENDS LayoutRules, FiniteSets, Bags

CONSTANTS
  Lifs,         \* the layout files the master may be given
  NewNodes, NewEdges, NewStations,   \* what it may add to them
  LayoutIds

VARIABLE graph

(* The fields of a C++ object that the graph looks at.                     *)
ElementLists == {"nodes", "edges", "stations"}
Fields ==
  [nodes    |-> {"nodeId"},
   edges    |-> {"edgeId", "startNodeId", "endNodeId"},
   stations |-> {"stationId", "interactionNodeIds"}]

IsSeq(s) == s \in Seq(Elements(s))
HasFields(x, fields) == fields \subseteq DOMAIN x /\ x = [k \in DOMAIN x |-> x[k]]
IsElement(list, x) ==
  HasFields(x, Fields[list]) /\ (list = "stations" => IsSeq(x.interactionNodeIds))

IsLif(lif) ==
  /\ HasFields(lif, {"layouts"})
  /\ IsSeq(lif.layouts)
  /\ \A i \in DOMAIN lif.layouts :
       /\ HasFields(lif.layouts[i], {"layoutId"} \cup ElementLists)
       /\ \A list \in ElementLists :
            /\ IsSeq(lif.layouts[i][list])
            /\ \A j \in DOMAIN lif.layouts[i][list] :
                 IsElement(list, lif.layouts[i][list][j])

ASSUME GraphAssumption ==
  /\ \A lif \in Lifs : IsLif(lif)
  /\ \A n \in NewNodes : IsElement("nodes", n)
  /\ \A e \in NewEdges : IsElement("edges", e)
  /\ \A s \in NewStations : IsElement("stations", s)

-----------------------------------------------------------------------------
(* from_lif: every index from the LIF alone.                               *)

IndexOf(lif, list, key) ==
  [id \in IdsOf(lif, list, key) |->
     CHOOSE p \in Places(lif, list) : At(lif, list, p)[key] = id]

(* What an index finds: find_node, find_edge, find_station.                *)
Found(lif, list, index) == [id \in DOMAIN index |-> At(lif, list, index[id])]

EdgesAt(edges, end, n) == SetToBag({e \in DOMAIN edges : edges[e][end] = n})

Incident(lif, end) ==
  LET edges == Found(lif, "edges", IndexOf(lif, "edges", "edgeId"))
  IN [n \in IdsOf(lif, "nodes", "nodeId") |-> EdgesAt(edges, end, n)]

(* A station that names a node twice is listed twice.                      *)
Named(station) == Elements(station.interactionNodeIds)
Times(station, n) ==
  Cardinality({i \in DOMAIN station.interactionNodeIds : station.interactionNodeIds[i] = n})

Mentions(stations, n) ==
  [s \in {t \in DOMAIN stations : n \in Named(stations[t])} |-> Times(stations[s], n)]

MentionsIn(id, station, n) == Mentions([s \in {id} |-> station], n)
Once(id) == SetToBag({id})

StationsAt(lif) ==
  LET stations == Found(lif, "stations", IndexOf(lif, "stations", "stationId"))
  IN [n \in UNION {Named(stations[s]) : s \in DOMAIN stations} |-> Mentions(stations, n)]

RebuildIndices(lif) ==
  [lif      |-> lif,
   node     |-> IndexOf(lif, "nodes", "nodeId"),
   edge     |-> IndexOf(lif, "edges", "edgeId"),
   station  |-> IndexOf(lif, "stations", "stationId"),
   outbound |-> Incident(lif, "startNodeId"),
   inbound  |-> Incident(lif, "endNodeId"),
   stations |-> StationsAt(lif)]

FromLif(lif) ==
  /\ graph = None
  /\ ValidateLayout(lif) = {}
  /\ graph' = RebuildIndices(lif)

-----------------------------------------------------------------------------
(* Helpers of the mutations.                                               *)

LayoutsWith(lif, layoutId) ==
  {i \in DOMAIN lif.layouts : lif.layouts[i].layoutId = layoutId}

Without(f, ids) == [x \in DOMAIN f \ ids |-> f[x]]
With(f, id, v) == [x \in DOMAIN f \cup {id} |-> IF x = id THEN v ELSE f[x]]
Lookup(f, id) == IF id \in DOMAIN f THEN f[id] ELSE EmptyBag

Rekey(f, old, new) ==
  IF old \in DOMAIN f THEN With(Without(f, {old}), new, f[old]) ELSE f

(* Swap and pop: the last element takes the place of the erased one.       *)
EraseAt(elements, i) ==
  [j \in 1 .. Len(elements) - 1 |-> IF j = i THEN elements[Len(elements)] ELSE elements[j]]

Erased(lif, list, place) ==
  [lif EXCEPT !.layouts[place[1]][list] = EraseAt(@, place[2])]

EraseForgetting(index, lif, list, key, id) == Without(index, {id})   \* a fault

EraseSwap(index, lif, list, key, id) ==
  LET place    == index[id]
      elements == lif.layouts[place[1]][list]
      moved    == elements[Len(elements)][key]
  IN IF moved = id THEN Without(index, {id})
     ELSE [Without(index, {id}) EXCEPT ![moved] = place]

Appended(lif, list, i, element) == [lif EXCEPT !.layouts[i][list] = Append(@, element)]
EndPlace(lif, list, i) == <<i, Len(lif.layouts[i][list]) + 1>>

(* The LIF with some of the elements of a list assigned to.                *)
Replaced(lif, list, elements) ==
  [lif EXCEPT !.layouts = [i \in DOMAIN lif.layouts |->
     [lif.layouts[i] EXCEPT ![list] = [j \in DOMAIN lif.layouts[i][list] |->
        IF <<i, j>> \in DOMAIN elements THEN elements[<<i, j>>]
        ELSE lif.layouts[i][list][j]]]]]

FieldSet(lif, list, places, key, v) ==
  Replaced(lif, list, [p \in places |-> [At(lif, list, p) EXCEPT ![key] = v]])

(* edges_between looks at the edges that leave the first node.             *)
EdgesBetween(g, from, to) ==
  {e \in BagToSet(g.outbound[from]) : At(g.lif, "edges", g.edge[e]).endNodeId = to}

-----------------------------------------------------------------------------
(* add_node, add_edge, add_station: the new element goes to the end of its *)
(* list; an edge may end, and a station refer, in any layout.              *)

AddNode(n, layoutId) ==
  \E i \in LayoutsWith(graph.lif, layoutId) :
    /\ n.nodeId \notin DOMAIN graph.node
    /\ graph' = [graph EXCEPT
         !.lif = Appended(@, "nodes", i, n),
         !.node = With(@, n.nodeId, EndPlace(graph.lif, "nodes", i)),
         !.outbound = With(@, n.nodeId, Lookup(@, n.nodeId)),
         !.inbound = With(@, n.nodeId, Lookup(@, n.nodeId))]

AddEdge(e, layoutId) ==
  \E i \in LayoutsWith(graph.lif, layoutId) :
    /\ e.edgeId \notin DOMAIN graph.edge
    /\ e.startNodeId \in DOMAIN graph.node
    /\ graph.node[e.startNodeId][1] = i
    /\ e.endNodeId \in DOMAIN graph.node
    /\ graph' = [graph EXCEPT
         !.lif = Appended(@, "edges", i, e),
         !.edge = With(@, e.edgeId, EndPlace(graph.lif, "edges", i)),
         !.outbound[e.startNodeId] = @ (+) Once(e.edgeId),
         !.inbound[e.endNodeId] = @ (+) Once(e.edgeId)]

AddStation(s, layoutId) ==
  \E i \in LayoutsWith(graph.lif, layoutId) :
    /\ s.stationId \notin DOMAIN graph.station
    /\ Named(s) \subseteq DOMAIN graph.node
    /\ graph' = [graph EXCEPT
         !.lif = Appended(@, "stations", i, s),
         !.station = With(@, s.stationId, EndPlace(graph.lif, "stations", i)),
         !.stations = [n \in DOMAIN @ \cup Named(s) |->
            Lookup(@, n) (+) MentionsIn(s.stationId, s, n)]]

-----------------------------------------------------------------------------
(* delete_node, delete_edge, delete_station.                               *)

NodeHasNoEdge(g, id) ==               \* a fault: stations are not looked at
  g.outbound[id] = EmptyBag /\ g.inbound[id] = EmptyBag

NodeIsFree(g, id) ==
  /\ g.outbound[id] = EmptyBag
  /\ g.inbound[id] = EmptyBag
  /\ Lookup(g.stations, id) = EmptyBag

NodeDeleted(g, id) ==
  [g EXCEPT !.lif = Erased(@, "nodes", g.node[id]),
            !.node = EraseSwap(@, g.lif, "nodes", "nodeId", id),
            !.outbound = Without(@, {id}),
            !.inbound = Without(@, {id}),
            !.stations = Without(@, {id})]

DeleteNode(id) ==
  /\ id \in DOMAIN graph.node
  /\ NodeIsFree(graph, id)
  /\ graph' = NodeDeleted(graph, id)

DeleteEdge(id) ==
  /\ id \in DOMAIN graph.edge
  /\ LET e == At(graph.lif, "edges", graph.edge[id])
     IN graph' = [graph EXCEPT
          !.outbound[e.startNodeId] = @ (-) Once(id),
          !.inbound[e.endNodeId] = @ (-) Once(id),
          !.edge = EraseSwap(@, graph.lif, "edges", "edgeId", id),
          !.lif = Erased(@, "edges", graph.edge[id])]

(* Each mention of a node takes one entry away from its list.              *)
DeleteStation(id) ==
  /\ id \in DOMAIN graph.station
  /\ LET s == At(graph.lif, "stations", graph.station[id])
     IN graph' = [graph EXCEPT
          !.stations = [n \in DOMAIN @ |-> @[n] (-) MentionsIn(id, s, n)],
          !.station = EraseSwap(@, graph.lif, "stations", "stationId", id),
          !.lif = Erased(@, "stations", graph.station[id])]

(* prune: the nodes no edge and no station knows, in the order of the file *)
(* before the first of them is erased.                                     *)
UnconnectedNodes(g) ==
  {id \in DOMAIN g.node :
     /\ g.outbound[id] = EmptyBag
     /\ g.inbound[id] = EmptyBag
     /\ \A p \in Places(g.lif, "stations") : id \notin Named(At(g.lif, "stations", p))}

Before(p, q) == p[1] < q[1] \/ (p[1] = q[1] /\ p[2] < q[2])

InFileOrder(g, ids) ==
  \A j, k \in DOMAIN ids : j < k => Before(g.node[ids[j]], g.node[ids[k]])

NodesDeleted(g, ids) ==
  LET after[k \in 0 .. Len(ids)] ==
        IF k = 0 THEN g ELSE NodeDeleted(after[k - 1], ids[k])
  IN after[Len(ids)]

Prune ==
  LET victims == UnconnectedNodes(graph)
  IN /\ victims # {}
     /\ \E ids \in [1 .. Cardinality(victims) -> victims] :
          InFileOrder(graph, ids) /\ graph' = NodesDeleted(graph, ids)

-----------------------------------------------------------------------------
(* update_node_id, update_edge_id, update_station_id: the element and all  *)
(* references to it, found through the indices.                            *)

EndRenamed(lif, index, edges, end, new) ==
  FieldSet(lif, "edges", {index[e] : e \in BagToSet(edges)}, end, new)

InteractionRenamed(lif, index, stations, old, new) ==
  Replaced(lif, "stations", [p \in {index[s] : s \in BagToSet(stations)} |->
    [At(lif, "stations", p) EXCEPT !.interactionNodeIds =
       [i \in DOMAIN @ |-> IF @[i] = old THEN new ELSE @[i]]]])

UpdateNodeId(old, new) ==
  /\ old \in DOMAIN graph.node
  /\ new \notin DOMAIN graph.node
  /\ LET named  == FieldSet(graph.lif, "nodes", {graph.node[old]}, "nodeId", new)
         starts == EndRenamed(named, graph.edge, graph.outbound[old], "startNodeId", new)
         ends   == EndRenamed(starts, graph.edge, graph.inbound[old], "endNodeId", new)
     IN graph' = [graph EXCEPT
          !.lif = InteractionRenamed(ends, graph.station, Lookup(graph.stations, old),
                                     old, new),
          !.node = Rekey(@, old, new),
          !.outbound = Rekey(@, old, new),
          !.inbound = Rekey(@, old, new),
          !.stations = Rekey(@, old, new)]

UpdateEdgeId(old, new) ==
  /\ old \in DOMAIN graph.edge
  /\ new \notin DOMAIN graph.edge
  /\ LET e == At(graph.lif, "edges", graph.edge[old])
     IN graph' = [graph EXCEPT
          !.lif = FieldSet(@, "edges", {graph.edge[old]}, "edgeId", new),
          !.outbound[e.startNodeId] = Rekey(@, old, new),
          !.inbound[e.endNodeId] = Rekey(@, old, new),
          !.edge = Rekey(@, old, new)]

UpdateStationId(old, new) ==
  /\ old \in DOMAIN graph.station
  /\ new \notin DOMAIN graph.station
  /\ LET s == At(graph.lif, "stations", graph.station[old])
     IN graph' = [graph EXCEPT
          !.lif = FieldSet(@, "stations", {graph.station[old]}, "stationId", new),
          !.stations = [n \in DOMAIN @ |->
             IF n \in Named(s) THEN Rekey(@[n], old, new) ELSE @[n]],
          !.station = Rekey(@, old, new)]

Mutate ==
  /\ graph # None
  /\ \/ \E n \in NewNodes, l \in LayoutIds : AddNode(n, l)
     \/ \E e \in NewEdges, l \in LayoutIds : AddEdge(e, l)
     \/ \E s \in NewStations, l \in LayoutIds : AddStation(s, l)
     \/ \E id \in DOMAIN graph.node : DeleteNode(id)
     \/ \E id \in DOMAIN graph.edge : DeleteEdge(id)
     \/ \E id \in DOMAIN graph.station : DeleteStation(id)
     \/ Prune
     \/ \E old \in DOMAIN graph.node, n \in NewNodes : UpdateNodeId(old, n.nodeId)
     \/ \E old \in DOMAIN graph.edge, e \in NewEdges : UpdateEdgeId(old, e.edgeId)
     \/ \E old \in DOMAIN graph.station, s \in NewStations :
          UpdateStationId(old, s.stationId)

GraphInit == graph = None

GraphNext == (\E lif \in Lifs : FromLif(lif)) \/ Mutate

GraphSpec == GraphInit /\ [][GraphNext]_graph

-----------------------------------------------------------------------------
SameEntries(f, g) == \A n \in DOMAIN f \cup DOMAIN g : Lookup(f, n) = Lookup(g, n)

(* After any edits the indices are those the layout gives when they are    *)
(* built anew: no swap, rename or erase leaves an entry behind, and the    *)
(* edges between two nodes are the ones the layout has.                    *)
(* Code: add_*, delete_*, update_*_id and prune of graph.cpp against       *)
(* rebuild_indices.                                                        *)
GraphIndexed ==
  graph # None =>
    LET built == RebuildIndices(graph.lif)
    IN /\ graph.node = built.node /\ graph.edge = built.edge
       /\ graph.station = built.station
       /\ graph.outbound = built.outbound /\ graph.inbound = built.inbound
       /\ SameEntries(graph.stations, built.stations)
       /\ \A from, to \in DOMAIN graph.node :
            EdgesBetween(graph, from, to) =
              {At(graph.lif, "edges", p).edgeId : p \in
                {q \in Places(graph.lif, "edges") :
                   /\ At(graph.lif, "edges", q).startNodeId = from
                   /\ At(graph.lif, "edges", q).endNodeId = to}}

(* No edit leaves a reference open or an id twice, whatever is added and   *)
(* renamed: these two reasons to refuse the layout never come up.          *)
(* Code: the guards of graph.cpp against validate_layout.                  *)
LayoutClosed ==
  graph # None =>
    /\ ~ DuplicateIds(graph.lif)
    /\ ~ Unresolved(graph.lif)
    /\ \A p \in Places(graph.lif, "edges") :
         \E n \in Elements(graph.lif.layouts[p[1]].nodes) :
           n.nodeId = At(graph.lif, "edges", p).startNodeId

=============================================================================
