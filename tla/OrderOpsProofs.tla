--------------------------- MODULE OrderOpsProofs ---------------------------
(***************************************************************************)
(* Lemmas about the order algebra: what the smallest and the largest       *)
(* element of a finite set of sequence ids are, what a merge returns, and  *)
(* what a decision of the stitcher says of the order it lets through.      *)
(***************************************************************************)
EXTENDS OrderOps, TLAPS, WellFoundedInduction, FiniteSetTheorems

(* Front, Back and StitchSeq pick what their names say: a finite set of    *)
(* integers that is not empty has a least and a greatest element.          *)
LEMMA ExtremeElements ==
  ASSUME NEW S \in SUBSET Int, IsFiniteSet(S), S # {}
  PROVE  /\ Min(S) \in S /\ \A y \in S : Min(S) <= y
         /\ Max(S) \in S /\ \A y \in S : Max(S) >= y
<1> DEFINE HasMin(A) == \E x \in A : \A y \in A : x <= y
           HasMax(A) == \E x \in A : \A y \in A : x >= y
           Bad == {A \in FiniteSubsetsOf(S) : A # {} /\ ~(HasMin(A) /\ HasMax(A))}
<1>1. ASSUME Bad # {} PROVE FALSE
  <2>1. PICK A \in Bad : \A B \in Bad : ~ (<<B, A>> \in StrictSubsetOrdering(S))
    <3>1. Bad \subseteq FiniteSubsetsOf(S)
      OBVIOUS
    <3> HIDE DEF Bad
    <3> QED
      BY <1>1, <3>1, FS_StrictSubsetOrderingWellFounded, WFMin
  <2>2. PICK x \in A : TRUE
    OBVIOUS
  <2>3. A \in SUBSET S /\ IsFiniteSet(A)
    BY DEF FiniteSubsetsOf
  <2>4. CASE A \ {x} = {}
    <3>1. A = {x} /\ x \in Int
      BY <2>2, <2>3, <2>4
    <3>2. HasMin(A) /\ HasMax(A)
      BY <3>1
    <3> QED
      BY <3>2
  <2>5. CASE A \ {x} # {}
    <3>1. A \ {x} \in FiniteSubsetsOf(S)
      BY <2>3, FS_RemoveElement DEF FiniteSubsetsOf
    <3>2. <<A \ {x}, A>> \in StrictSubsetOrdering(S)
      BY <2>2, <2>3 DEF StrictSubsetOrdering
    <3>3. HasMin(A \ {x}) /\ HasMax(A \ {x})
      BY <2>1, <2>5, <3>1, <3>2
    <3>4. HasMin(A)
      <4>1. PICK m \in A \ {x} : \A y \in A \ {x} : m <= y
        BY <3>3
      <4> QED
        BY <2>2, <2>3, <4>1
    <3>5. HasMax(A)
      <4>1. PICK m \in A \ {x} : \A y \in A \ {x} : m >= y
        BY <3>3
      <4> QED
        BY <2>2, <2>3, <4>1
    <3> QED
      BY <3>4, <3>5
  <2> QED
    BY <2>4, <2>5
<1>2. HasMin(S) /\ HasMax(S)
  BY <1>1 DEF FiniteSubsetsOf
<1> QED
  BY <1>2 DEF Min, Max

(* last_released_seq of a list with a base is one of its released ids.     *)
LEMMA StitchIsReleased ==
  ASSUME NEW r, IsRoute(r), HasBase(r)
  PROVE  /\ StitchSeq(r) \in DOMAIN r
         /\ r[StitchSeq(r)].released
         /\ StitchSeq(r) \in Preserved(r)
<1>1. Released(r) \in SUBSET Int /\ IsFiniteSet(Released(r))
  BY FS_Subset DEF IsRoute, Released
<1>2. StitchSeq(r) \in Released(r)
  BY <1>1, ExtremeElements DEF StitchSeq, HasBase
<1> QED
  BY <1>2 DEF Released, Preserved

(* What a merge returns is a list again.                                   *)
LEMMA MergeIsRoute ==
  ASSUME NEW r, NEW u, IsRoute(r), IsRoute(u)
  PROVE  IsRoute(MergeRoute(r, u))
<1>1. Preserved(r) \subseteq DOMAIN r
  BY DEF Preserved
<1>2. IsFiniteSet(Preserved(r) \cup DOMAIN u)
  BY <1>1, FS_Subset, FS_Union DEF IsRoute
<1>3. DOMAIN MergeRoute(r, u) = Preserved(r) \cup DOMAIN u
  BY DEF MergeRoute
<1> QED
  BY <1>1, <1>2, <1>3 DEF IsRoute, MergeRoute

(* A merge holds every element of the update.                              *)
LEMMA MergeHoldsUpdate ==
  ASSUME NEW r, NEW u
  PROVE  /\ DOMAIN MergeRoute(r, u) = Preserved(r) \cup DOMAIN u
         /\ \A s \in DOMAIN u : MergeRoute(r, u)[s] = u[s]
BY DEF MergeRoute

(* An update that keeps the base leaves the stitch element as it was.      *)
LEMMA MergeKeepsStitch ==
  ASSUME NEW r, NEW u, IsRoute(r), HasBase(r), KeepsBase(r, u)
  PROVE  /\ StitchSeq(r) \in DOMAIN MergeRoute(r, u)
         /\ MergeRoute(r, u)[StitchSeq(r)] = r[StitchSeq(r)]
<1>1. StitchSeq(r) \in Preserved(r)
  BY StitchIsReleased
<1> QED
  BY <1>1 DEF MergeRoute, KeepsBase

(* combine_order returns an order with the update's ids and both merges.   *)
LEMMA CombineIsOrder ==
  ASSUME NEW b, NEW u, IsOrder(b), IsOrder(u)
  PROVE  /\ IsOrder(Combine(b, u))
         /\ Combine(b, u).id = u.id
         /\ Combine(b, u).upd = u.upd
         /\ Combine(b, u).nodes = MergeRoute(b.nodes, u.nodes)
         /\ Combine(b, u).edges = MergeRoute(b.edges, u.edges)
<1>1. IsRoute(MergeRoute(b.nodes, u.nodes)) /\ IsRoute(MergeRoute(b.edges, u.edges))
  BY MergeIsRoute DEF IsOrder
<1>2. /\ DOMAIN Combine(b, u) = DOMAIN u
      /\ Combine(b, u).id = u.id
      /\ Combine(b, u).upd = u.upd
      /\ Combine(b, u).nodes = MergeRoute(b.nodes, u.nodes)
      /\ Combine(b, u).edges = MergeRoute(b.edges, u.edges)
  BY DEF Combine, IsOrder
<1> QED
  BY <1>1, <1>2 DEF IsOrder

(* NoOrder is told from every order by its empty id.                       *)
LEMMA OrderIsSome ==
  ASSUME NEW o, IsOrder(o)
  PROVE  o # NoOrder
BY DEF IsOrder, NoOrder

(* What decide lets through: a first order, an order after a completed     *)
(* one, or an update with a higher id of the order that is tracked.        *)
LEMMA SendNowMeans ==
  ASSUME NEW o, NEW snap, Decide(o, snap) = "SEND_NOW", snap.active # NoOrder
  PROVE  /\ DOMAIN o.nodes # {}
         /\ \/ o.id # snap.active.id /\ snap.complete
            \/ o.id = snap.active.id /\ ~(o.upd <= snap.active.upd)
BY DEF Decide, Fresh, Refused

(* In a list is_valid_graph accepts every node but the first has the node  *)
(* two ids before it and the edge between them: the list has no gap.       *)
LEMMA NodesHavePredecessors ==
  ASSUME NEW o, IsRoute(o.nodes), IsValidGraph(o),
         NEW s \in DOMAIN o.nodes, s # Front(o.nodes)
  PROVE  /\ s - 2 \in DOMAIN o.nodes
         /\ s - 1 \in DOMAIN o.edges
<1> DEFINE D == DOMAIN o.nodes
           B == {t \in D : t < s}
<1>1. D \in SUBSET Int /\ IsFiniteSet(D) /\ D # {}
  BY DEF IsRoute
<1>2. /\ Front(o.nodes) \in D /\ \A t \in D : Front(o.nodes) <= t
      /\ Back(o.nodes) \in D /\ \A t \in D : Back(o.nodes) >= t
  BY <1>1, ExtremeElements DEF Front, Back
<1>3. B \in SUBSET Int /\ IsFiniteSet(B) /\ B # {}
  BY <1>1, <1>2, FS_Subset
<1>4. PICK m \in B : \A t \in B : m >= t
  BY <1>3, ExtremeElements
<1>5. m # Back(o.nodes)
  BY <1>1, <1>2, <1>4
<1>6. m + 1 \in DOMAIN o.edges /\ m + 2 \in D
  BY <1>5 DEF IsValidGraph
<1>7. m % 2 = 0 /\ s % 2 = 0
  BY DEF IsValidGraph
<1>8. m \in Int /\ s \in Int /\ m < s /\ ~ (m + 2 < s)
  BY <1>1, <1>4, <1>6
<1>9. s = m + 2
  BY <1>7, <1>8
<1>10. s - 2 = m /\ s - 1 = m + 1
  BY <1>8, <1>9
<1> QED
  BY <1>6, <1>10

(* So an order is_valid_graph accepts has, with n nodes from id f on, the  *)
(* ids f, f + 2, ... for its nodes and the ids between them for its edges. *)
LEMMA ValidGraphIds ==
  ASSUME NEW o, IsRoute(o.nodes), IsRoute(o.edges), IsValidGraph(o),
         NEW f, f = Front(o.nodes), NEW n, n = Cardinality(DOMAIN o.nodes)
  PROVE  /\ f \in Nat /\ f % 2 = 0 /\ n \in Nat \ {0}
         /\ DOMAIN o.nodes = {f + 2 * (i - 1) : i \in 1 .. n}
         /\ DOMAIN o.edges = {f + 2 * i - 1 : i \in 1 .. n - 1}
         /\ Back(o.nodes) = f + 2 * (n - 1)
<1> DEFINE D == DOMAIN o.nodes
           b == Back(o.nodes)
           m == (b - f) \div 2
<1>1. D \in SUBSET Nat /\ IsFiniteSet(D) /\ D # {}
  BY DEF IsRoute, IsValidGraph
<1>2. f \in D /\ (\A s \in D : f <= s) /\ b \in D /\ \A s \in D : b >= s
  <2>1. D \in SUBSET Int
    BY <1>1
  <2> QED
    BY <1>1, <2>1, ExtremeElements DEF Front, Back
<1>3. \A s \in D : s % 2 = 0
  BY DEF IsValidGraph
<1>4. f \in Nat /\ b \in Nat /\ m \in Nat /\ b = f + 2 * m
  BY <1>1, <1>2, <1>3
<1> HIDE DEF m
<1>5. D = {f + 2 * i : i \in 0 .. m}
  <2>1. ASSUME NEW s \in D PROVE s \in {f + 2 * i : i \in 0 .. m}
    <3>1. s \in Nat /\ f <= s /\ s <= b /\ s % 2 = 0 /\ f % 2 = 0
      BY <1>1, <1>2, <1>3
    <3>2. (s - f) \div 2 \in 0 .. m /\ s = f + 2 * ((s - f) \div 2)
      BY <1>4, <3>1
    <3> QED
      BY <3>2
  <2> DEFINE X == {i \in 0 .. m : f + 2 * i \notin D}
  <2>2. ASSUME X # {} PROVE FALSE
    <3>1. X \in SUBSET Int /\ IsFiniteSet(X)
      <4>1. IsFiniteSet(0 .. m)
        BY <1>4, FS_Interval
      <4>2. X \in SUBSET (0 .. m) /\ X \in SUBSET Int
        BY <1>4
      <4> HIDE DEF X
      <4> QED
        BY <4>1, <4>2, FS_Subset
    <3>2. PICK j \in X : \A i \in X : j <= i
      BY <2>2, <3>1, ExtremeElements
    <3>3. j # 0 /\ j \in Nat /\ j <= m
      BY <1>2, <1>4, <3>2
    <3>4. j - 1 \in 0 .. m /\ j - 1 \notin X
      BY <1>4, <3>2, <3>3
    <3>5. f + 2 * (j - 1) \in D /\ f + 2 * (j - 1) # b
      BY <1>4, <3>3, <3>4
    <3>6. f + 2 * (j - 1) + 2 \in D
      BY <3>5 DEF IsValidGraph
    <3>7. f + 2 * (j - 1) + 2 = f + 2 * j
      BY <1>4, <3>3
    <3> QED
      BY <3>2, <3>6, <3>7
  <2> QED
    BY <2>1, <2>2
<1>6. n = m + 1
  <2> DEFINE T == {f + 2 * i : i \in 0 .. m}
             g == [i \in 0 .. m |-> f + 2 * i]
  <2>1. g \in Bijection(0 .. m, T)
    <3>1. g \in [0 .. m -> T] /\ DOMAIN g = 0 .. m
      OBVIOUS
    <3>2. \A i, j \in 0 .. m : g[i] = g[j] => i = j
      BY <1>4
    <3>3. \A t \in T : \E i \in 0 .. m : g[i] = t
      OBVIOUS
    <3> HIDE DEF g, T
    <3> QED
      BY <3>1, <3>2, <3>3 DEF Bijection, Injection, Surjection, IsInjective
  <2>2. IsFiniteSet(0 .. m) /\ Cardinality(0 .. m) = m + 1
    <3>1. 0 \in Int /\ m \in Int
      BY <1>4
    <3>2. IsFiniteSet(0 .. m) /\ Cardinality(0 .. m) = IF 0 > m THEN 0 ELSE m - 0 + 1
      BY ONLY <3>1, FS_Interval
    <3> QED
      BY <1>4, <3>2
  <2> HIDE DEF g, T
  <2>3. Cardinality(T) = m + 1
    BY <2>1, <2>2, FS_Bijection DEF ExistsBijection
  <2> QED
    BY <1>5, <2>3 DEF T
<1>7. D = {f + 2 * (i - 1) : i \in 1 .. n}
  <2>1. \A i \in 1 .. n : i - 1 \in 0 .. m
    BY <1>4, <1>6
  <2>2. \A i \in 0 .. m : i + 1 \in 1 .. n /\ (i + 1) - 1 = i
    BY <1>4, <1>6
  <2>3. {f + 2 * i : i \in 0 .. m} = {f + 2 * (i - 1) : i \in 1 .. n}
    BY <2>1, <2>2
  <2> QED
    BY <1>5, <2>3
<1>8. DOMAIN o.edges = {f + 2 * i - 1 : i \in 1 .. n - 1}
  <2> DEFINE T == {f + 2 * i - 1 : i \in 1 .. n - 1}
  <2>1. ASSUME NEW i \in 1 .. n - 1 PROVE f + 2 * i - 1 \in DOMAIN o.edges
    <3>1. f + 2 * (i - 1) \in D /\ f + 2 * (i - 1) # b
      BY <1>4, <1>6, <1>7
    <3>2. f + 2 * (i - 1) + 1 \in DOMAIN o.edges
      BY <3>1 DEF IsValidGraph
    <3>3. f + 2 * (i - 1) + 1 = f + 2 * i - 1
      BY <1>4
    <3> QED
      BY <3>2, <3>3
  <2>2. Cardinality(T) = n - 1
    <3> DEFINE g == [i \in 1 .. n - 1 |-> f + 2 * i - 1]
    <3>1. g \in Bijection(1 .. n - 1, T)
      BY <1>4, <1>6 DEF Bijection, Injection, Surjection, IsInjective
    <3>2. IsFiniteSet(1 .. n - 1) /\ Cardinality(1 .. n - 1) = n - 1
      <4>1. 1 \in Int /\ n - 1 \in Int /\ (IF 1 > n - 1 THEN 0 ELSE n - 1 - 1 + 1) = n - 1
        BY <1>4, <1>6
      <4> QED
        BY <4>1, FS_Interval
    <3> HIDE DEF g, T
    <3> QED
      BY <3>1, <3>2, FS_Bijection DEF ExistsBijection
  <2>3. Cardinality(DOMAIN o.edges) = n - 1 /\ IsFiniteSet(DOMAIN o.edges)
    <3>1. Cardinality(DOMAIN o.edges) \in Nat /\ IsFiniteSet(DOMAIN o.edges)
      BY FS_CardinalityType DEF IsRoute
    <3> QED
      BY <3>1, <1>4, <1>6 DEF IsValidGraph
  <2>4. T \in SUBSET DOMAIN o.edges
    BY <2>1
  <2> HIDE DEF T
  <2>5. T = DOMAIN o.edges
    BY <2>2, <2>3, <2>4, FS_Subset
  <2> QED
    BY <2>5 DEF T
<1>9. f \in Nat /\ f % 2 = 0 /\ n \in Nat \ {0} /\ b = f + 2 * (n - 1)
  BY <1>2, <1>3, <1>4, <1>6
<1> QED
  BY <1>7, <1>8, <1>9

(* The base comes first and is not empty, and an edge is released just     *)
(* when the node it leads to is.                                           *)
LEMMA ValidGraphBase ==
  ASSUME NEW o, IsRoute(o.nodes), IsRoute(o.edges), IsValidGraph(o),
         NEW f, f = Front(o.nodes), NEW n, n = Cardinality(DOMAIN o.nodes)
  PROVE  /\ f \in DOMAIN o.nodes /\ o.nodes[f].released
         /\ \A s, t \in DOMAIN o.nodes :
              s < t /\ o.nodes[t].released => o.nodes[s].released
         /\ \A e \in DOMAIN o.edges :
              e + 1 \in DOMAIN o.nodes /\ o.edges[e].released = o.nodes[e + 1].released
<1>1. /\ f \in Nat /\ n \in Nat \ {0}
      /\ DOMAIN o.nodes = {f + 2 * (i - 1) : i \in 1 .. n}
      /\ DOMAIN o.edges = {f + 2 * i - 1 : i \in 1 .. n - 1}
  BY ValidGraphIds
<1>2. DOMAIN o.nodes \subseteq Nat /\ DOMAIN o.edges \subseteq Nat
  BY DEF IsRoute
<1>3. \A s \in DOMAIN o.nodes : o.nodes[s].released <=> ~InHorizon(o, s)
  BY DEF IsValidGraph
<1>4. f \in DOMAIN o.nodes
  <2>1. f + 2 * (1 - 1) = f /\ 1 \in 1 .. n
    BY <1>1
  <2> QED
    BY <1>1, <2>1
<1>5. o.nodes[f].released
  <2>1. \A e \in DOMAIN o.edges : ~ (e < f)
    BY <1>1
  <2> QED
    BY <1>3, <1>4, <2>1 DEF InHorizon
<1>6. ASSUME NEW s \in DOMAIN o.nodes, NEW t \in DOMAIN o.nodes, s < t, o.nodes[t].released
      PROVE  o.nodes[s].released
  <2>1. \A e \in DOMAIN o.edges : e < s => e < t
    BY <1>2, <1>6
  <2> QED
    BY <1>3, <1>6, <2>1 DEF InHorizon
<1>7. ASSUME NEW e \in DOMAIN o.edges
      PROVE  e + 1 \in DOMAIN o.nodes /\ o.edges[e].released = o.nodes[e + 1].released
  <2>1. PICK i \in 1 .. n - 1 : e = f + 2 * i - 1
    BY <1>1
  <2>2. e + 1 = f + 2 * ((i + 1) - 1) /\ i + 1 \in 1 .. n
    BY <1>1, <2>1
  <2>3. e + 1 \in DOMAIN o.nodes
    BY <1>1, <2>2
  <2>4. o.edges[e].released => ~InHorizon(o, e)
    BY DEF IsValidGraph
  <2>5. \A d \in DOMAIN o.edges : d < e + 1 <=> d < e \/ d = e
    BY <1>2
  <2>6. InHorizon(o, e + 1) <=> InHorizon(o, e) \/ ~ o.edges[e].released
    BY <2>5 DEF InHorizon
  <2>7. o.edges[e].released \in BOOLEAN /\ o.nodes[e + 1].released \in BOOLEAN
    BY <2>3 DEF IsRoute
  <2>8. o.nodes[e + 1].released <=> ~InHorizon(o, e + 1)
    BY <1>3, <2>3
  <2>9. o.edges[e].released <=> o.nodes[e + 1].released
    BY <2>4, <2>6, <2>8
  <2> QED
    BY <2>3, <2>7, <2>9
<1> QED
  BY <1>4, <1>5, <1>6, <1>7

=============================================================================
