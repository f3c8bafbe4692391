------------------------- MODULE VehicleRuntimeProofs -------------------------
(***************************************************************************)
(* The execution plane of a vehicle, for every set of orders a master may  *)
(* send: stop() silences the loop; the published states are one road;      *)
(* vehicle and master agree on the base still to drive; and an update the  *)
(* shared rule allows is accepted.  The last three rest on one inductive   *)
(* invariant, RoadInv, that relates the node states to the edge states and *)
(* both to the order the master has merged.                                *)
(***************************************************************************)
EXTENDS VehicleRuntime, OrderOpsProofs, SequenceTheorems

-----------------------------------------------------------------------------
(* stop() clears running_ before it waits, and only a loop that spins      *)
(* waits, steps or leaves.                                                 *)
LoopInv ==
  /\ stopper # "idle" => ~ running
  /\ loop \in {"waiting", "stepping", "leaving"} => spinning
  /\ stopper = "stopped" => loop # "stepping"

(* After stop() has returned no strategy is stepped until spin() is called *)
(* again, wherever the loop was when stop() was called.                    *)
(* Code: Handler::stop and spin with running_ and spinning_.               *)
THEOREM StoppedIsSilent == RuntimeSpec => []StopSilences
<1>1. RuntimeInit => LoopInv
  BY DEF RuntimeInit, LoopInv
<1>2. LoopInv /\ [RuntimeNext]_runtimeVars => LoopInv'
  <2> SUFFICES ASSUME LoopInv, [RuntimeNext]_runtimeVars
               PROVE  LoopInv'
    OBVIOUS
  <2> USE DEF LoopInv
  <2>1. CASE BeginSpin
    BY <2>1 DEF BeginSpin
  <2>2. CASE EnterLoop
    BY <2>2 DEF EnterLoop
  <2>3. CASE WaitEnds
    BY <2>3 DEF WaitEnds
  <2>4. CASE StepStrategies
    BY <2>4 DEF StepStrategies
  <2>5. CASE LeaveLoop
    BY <2>5 DEF LeaveLoop
  <2>6. ASSUME NEW o \in PushedOrders, PushOrder(o) PROVE LoopInv'
    BY <2>6 DEF PushOrder
  <2>7. CASE Stop
    BY <2>7 DEF Stop
  <2>8. CASE LeaveStop
    BY <2>8 DEF LeaveStop
  <2>9. CASE ReachNode \/ FinishAction
    BY <2>9 DEF ReachNode, FinishAction, loopVars
  <2>10. CASE UNCHANGED runtimeVars
    BY <2>10 DEF runtimeVars, loopVars
  <2> QED
    BY <2>1, <2>2, <2>3, <2>4, <2>5, <2>6, <2>7, <2>8, <2>9, <2>10 DEF RuntimeNext, LoopStep
<1>3. LoopInv => StopSilences
  BY DEF LoopInv, StopSilences
<1> QED
  BY <1>1, <1>2, <1>3, PTL DEF RuntimeSpec

-----------------------------------------------------------------------------
(* Sorting and picking.                                                    *)

(* A sequence without repetition has as many elements as positions.        *)
LEMMA StrictCount ==
  ASSUME NEW n \in Nat, NEW q \in [1 .. n -> Int],
         \A i, j \in 1 .. n : i < j => q[i] < q[j], NEW m \in 0 .. n
  PROVE  LET I == {q[i] : i \in 1 .. m} IN IsFiniteSet(I) /\ Cardinality(I) = m
<1> DEFINE I == {q[i] : i \in 1 .. m}
           g == [i \in 1 .. m |-> q[i]]
<1>1. g \in Bijection(1 .. m, I)
  <2>1. g \in [1 .. m -> I] /\ DOMAIN g = 1 .. m
    OBVIOUS
  <2>2. \A i, j \in 1 .. m : g[i] = g[j] => i = j
    <3> SUFFICES ASSUME NEW i \in 1 .. m, NEW j \in 1 .. m, i # j
                 PROVE  g[i] # g[j]
      OBVIOUS
    <3>1. i \in 1 .. n /\ j \in 1 .. n /\ (i < j \/ j < i)
      OBVIOUS
    <3>2. q[i] \in Int /\ q[j] \in Int /\ (q[i] < q[j] \/ q[j] < q[i])
      BY <3>1
    <3> QED
      BY <3>2
  <2>3. \A t \in I : \E i \in 1 .. m : g[i] = t
    OBVIOUS
  <2> HIDE DEF g, I
  <2> QED
    BY <2>1, <2>2, <2>3 DEF Bijection, Injection, Surjection, IsInjective
<1>2. IsFiniteSet(1 .. m) /\ Cardinality(1 .. m) = m
  <2>1. 1 \in Int /\ m \in Int
    OBVIOUS
  <2>2. IsFiniteSet(1 .. m) /\ Cardinality(1 .. m) = IF 1 > m THEN 0 ELSE m - 1 + 1
    BY ONLY <2>1, FS_Interval
  <2> QED
    BY <2>2
<1> HIDE DEF g, I
<1>3. IsFiniteSet(I) /\ Cardinality(I) = m
  BY <1>1, <1>2, FS_Bijection DEF ExistsBijection
<1> QED
  BY <1>3 DEF I

(* Ascending finds the one increasing enumeration of its set.              *)
LEMMA AscendingIs ==
  ASSUME NEW n \in Nat, NEW q \in [1 .. n -> Int],
         \A i, j \in 1 .. n : i < j => q[i] < q[j],
         NEW I, I = {q[i] : i \in 1 .. n}
  PROVE  Cardinality(I) = n /\ Ascending(I) = q
<1>1. Cardinality(I) = n
  <2>1. n \in 0 .. n
    OBVIOUS
  <2> QED
    BY <2>1, StrictCount
<1>2. ASSUME NEW k \in 1 .. n
      PROVE  Cardinality({y \in I : y < q[k]}) = k - 1
  <2>1. {y \in I : y < q[k]} = {q[i] : i \in 1 .. k - 1}
    <3>1. \A i \in 1 .. n : q[i] < q[k] <=> i < k
      <4> SUFFICES ASSUME NEW i \in 1 .. n PROVE q[i] < q[k] <=> i < k
        OBVIOUS
      <4>1. q[i] \in Int /\ q[k] \in Int /\ (i < k \/ i = k \/ k < i)
        OBVIOUS
      <4> QED
        BY <4>1
    <3>2. \A i \in 1 .. k - 1 : i \in 1 .. n /\ i < k
      OBVIOUS
    <3>3. \A i \in 1 .. n : i < k => i \in 1 .. k - 1
      OBVIOUS
    <3> QED
      BY <3>1, <3>2, <3>3
  <2> DEFINE p == k - 1
  <2>2. p \in 0 .. n
    OBVIOUS
  <2> HIDE DEF p
  <2>3. Cardinality({q[i] : i \in 1 .. p}) = p
    BY <2>2, StrictCount
  <2> QED
    BY ONLY <2>1, <2>3 DEF p
<1>3. ASSUME NEW k \in 1 .. n
      PROVE  (CHOOSE x \in I : Cardinality({y \in I : y < x}) = k - 1) = q[k]
  <2>1. q[k] \in I /\ Cardinality({y \in I : y < q[k]}) = k - 1
    BY <1>2
  <2>2. ASSUME NEW x \in I, Cardinality({y \in I : y < x}) = k - 1
        PROVE  x = q[k]
    <3>1. PICK i \in 1 .. n : x = q[i]
      OBVIOUS
    <3>2. i - 1 = k - 1
      BY <1>2, <2>2, <3>1
    <3> QED
      BY <3>1, <3>2
  <2> QED
    BY <2>1, <2>2
<1> QED
  BY <1>1, <1>3 DEF Ascending

(* Picking the positions a + 1 .. a + k takes what stands there.           *)
LEMMA PickInterval ==
  ASSUME NEW q, NEW a \in Nat, NEW k \in Nat, NEW I, I = a + 1 .. a + k
  PROVE  Pick(q, I) = [i \in 1 .. k |-> q[a + i]]
<1> DEFINE e == [i \in 1 .. k |-> a + i]
<1>1. e \in [1 .. k -> Int] /\ \A i, j \in 1 .. k : i < j => e[i] < e[j]
  OBVIOUS
<1>2. I = {e[i] : i \in 1 .. k}
  <2>1. \A x \in I : x - a \in 1 .. k /\ x = a + (x - a)
    OBVIOUS
  <2>2. \A i \in 1 .. k : e[i] \in I
    OBVIOUS
  <2>3. \A x \in I : \E i \in 1 .. k : x = e[i]
    BY <2>1
  <2> HIDE DEF e
  <2> QED
    BY <2>2, <2>3
<1>3. Cardinality(I) = k /\ Ascending(I) = e
  <2> HIDE DEF e
  <2> QED
    BY <1>1, <1>2, AscendingIs
<1> QED
  BY <1>3 DEF Pick

LEMMA PickPrefix ==
  ASSUME NEW q, NEW k \in Nat, NEW I, I = 1 .. k
  PROVE  Pick(q, I) = [i \in 1 .. k |-> q[i]]
<1>1. \A a, c \in Nat : \A J : J = a + 1 .. a + c => Pick(q, J) = [i \in 1 .. c |-> q[a + i]]
  BY ONLY PickInterval
<1>2. 0 \in Nat /\ I = 0 + 1 .. 0 + k
  OBVIOUS
<1>3. Pick(q, I) = [i \in 1 .. k |-> q[0 + i]]
  BY ONLY <1>1, <1>2, k \in Nat
<1>4. \A i \in 1 .. k : 0 + i = i
  OBVIOUS
<1> QED
  BY ONLY <1>3, <1>4

(* A function on 1 .. n is a sequence, and Tail moves it by one.           *)
LEMMA FunctionIsSeq ==
  ASSUME NEW S1, NEW n \in Nat, NEW q \in [1 .. n -> S1]
  PROVE  q \in Seq(S1) /\ Len(q) = n
OBVIOUS

LEMMA TailIs ==
  ASSUME NEW S1, NEW q \in Seq(S1), q # <<>>
  PROVE  Tail(q) = [i \in 1 .. Len(q) - 1 |-> q[i + 1]]
<1>1. /\ Tail(q) \in Seq(S1) /\ Len(Tail(q)) = Len(q) - 1
      /\ \A i \in 1 .. Len(Tail(q)) : Tail(q)[i] = q[i + 1]
  BY HeadTailProperties
<1>2. Tail(q) \in [1 .. Len(Tail(q)) -> S1]
  BY <1>1, LenProperties
<1> QED
  BY <1>1, <1>2

-----------------------------------------------------------------------------
(* The elements of node and edge states.                                   *)
NodeNames == UNION {{o.nodes[s].what : s \in DOMAIN o.nodes} : o \in PushedOrders}
EdgeEnds  == UNION {{o.edges[s].what : s \in DOMAIN o.edges} : o \in PushedOrders}
NodeState == [seq : Nat, what : NodeNames, released : BOOLEAN]
EdgeState == [seq : Nat, what : EdgeEnds, released : BOOLEAN]

StateAt(route, s) == [seq |-> s, what |-> route[s].what, released |-> route[s].released]

LEMMA StateFields ==
  \A r, s : /\ StateAt(r, s).seq = s
            /\ StateAt(r, s).what = r[s].what
            /\ StateAt(r, s).released = r[s].released
BY DEF StateAt

(* The states of n nodes from id f on, of all but the first, and of the    *)
(* edges between them.                                                     *)
AllNodes(o, f, n) == [i \in 1 .. n |-> StateAt(o.nodes, f + 2 * (i - 1))]
NewNodes(o, f, n) == [i \in 1 .. n - 1 |-> StateAt(o.nodes, f + 2 * i)]
Hops(o, f, n)     == [i \in 1 .. n - 1 |-> StateAt(o.edges, f + 2 * i - 1)]

LEMMA PushedIsOrder ==
  ASSUME NEW o \in PushedOrders
  PROVE  /\ IsOrder(o) /\ IsRoute(o.nodes) /\ IsRoute(o.edges)
         /\ o.id # NoId /\ o.upd \in Nat
         /\ \A s \in DOMAIN o.nodes : StateAt(o.nodes, s) \in NodeState /\ o.nodes[s].what # NoId
         /\ \A s \in DOMAIN o.edges : StateAt(o.edges, s) \in EdgeState
<1>1. IsOrder(o) /\ \A s \in DOMAIN o.nodes : o.nodes[s].what # NoId
  BY RuntimeAssumption
<1>2. IsRoute(o.nodes) /\ IsRoute(o.edges) /\ o.id # NoId /\ o.upd \in Nat
  BY <1>1 DEF IsOrder
<1>3. ASSUME NEW s \in DOMAIN o.nodes PROVE StateAt(o.nodes, s) \in NodeState
  <2>1. o.nodes[s].what \in NodeNames
    BY DEF NodeNames
  <2>2. s \in Nat /\ o.nodes[s].released \in BOOLEAN
    BY <1>2 DEF IsRoute
  <2> QED
    BY <2>1, <2>2 DEF StateAt, NodeState
<1>4. ASSUME NEW s \in DOMAIN o.edges PROVE StateAt(o.edges, s) \in EdgeState
  <2>1. o.edges[s].what \in EdgeEnds
    BY DEF EdgeEnds
  <2>2. s \in Nat /\ o.edges[s].released \in BOOLEAN
    BY <1>2 DEF IsRoute
  <2> QED
    BY <2>1, <2>2 DEF StateAt, EdgeState
<1> QED
  BY <1>1, <1>2, <1>3, <1>4

(* An order is_valid_graph accepts is a chain of n nodes from id f on.     *)
Spans(o, f, n) == f = Front(o.nodes) /\ n = Cardinality(DOMAIN o.nodes)

Chain(o, f, n) ==
  /\ f \in Nat /\ f % 2 = 0 /\ n \in Nat \ {0} /\ n - 1 \in Nat
  /\ DOMAIN o.nodes = {f + 2 * (i - 1) : i \in 1 .. n}
  /\ DOMAIN o.edges = {f + 2 * i - 1 : i \in 1 .. n - 1}
  /\ f \in DOMAIN o.nodes /\ o.nodes[f].released
  /\ \A s, t \in DOMAIN o.nodes : s < t /\ o.nodes[t].released => o.nodes[s].released
  /\ \A e \in DOMAIN o.edges :
       e + 1 \in DOMAIN o.nodes /\ o.edges[e].released = o.nodes[e + 1].released

LEMMA PushedIsChain ==
  ASSUME NEW o \in PushedOrders, IsValidGraph(o), NEW f, NEW n, Spans(o, f, n)
  PROVE  Chain(o, f, n)
<1>1. IsRoute(o.nodes) /\ IsRoute(o.edges)
  BY PushedIsOrder
<1>2. f = Front(o.nodes) /\ n = Cardinality(DOMAIN o.nodes)
  BY DEF Spans
<1>3. /\ f \in Nat /\ f % 2 = 0 /\ n \in Nat \ {0}
      /\ DOMAIN o.nodes = {f + 2 * (i - 1) : i \in 1 .. n}
      /\ DOMAIN o.edges = {f + 2 * i - 1 : i \in 1 .. n - 1}
  BY ONLY <1>1, <1>2, IsValidGraph(o), ValidGraphIds
<1>4. /\ f \in DOMAIN o.nodes /\ o.nodes[f].released
      /\ \A s, t \in DOMAIN o.nodes : s < t /\ o.nodes[t].released => o.nodes[s].released
      /\ \A e \in DOMAIN o.edges :
           e + 1 \in DOMAIN o.nodes /\ o.edges[e].released = o.nodes[e + 1].released
  BY ONLY <1>1, <1>2, IsValidGraph(o), ValidGraphBase
<1>5. n - 1 \in Nat
  BY ONLY <1>3
<1> QED
  BY ONLY <1>3, <1>4, <1>5 DEF Chain

(* The states an accepted order adds, all of its nodes or all but the      *)
(* stitch node, and its edges.                                             *)
LEMMA AddedStates ==
  ASSUME NEW o \in PushedOrders, IsValidGraph(o), NEW f, NEW n, Spans(o, f, n)
  PROVE  /\ StatesOf(o.nodes, InOrder(o.nodes)) = AllNodes(o, f, n)
         /\ StatesOf(o.nodes, Tail(InOrder(o.nodes))) = NewNodes(o, f, n)
         /\ StatesOf(o.edges, InOrder(o.edges)) = Hops(o, f, n)
<1> DEFINE p == [i \in 1 .. n |-> f + 2 * (i - 1)]
           e == [i \in 1 .. n - 1 |-> f + 2 * i - 1]
<1>1. /\ f \in Nat /\ n \in Nat \ {0}
      /\ DOMAIN o.nodes = {f + 2 * (i - 1) : i \in 1 .. n}
      /\ DOMAIN o.edges = {f + 2 * i - 1 : i \in 1 .. n - 1}
  <2>1. Chain(o, f, n)
    BY PushedIsChain
  <2> QED
    BY ONLY <2>1 DEF Chain
<1>2. /\ p \in [1 .. n -> Int] /\ \A i, j \in 1 .. n : i < j => p[i] < p[j]
      /\ e \in [1 .. n - 1 -> Int] /\ \A i, j \in 1 .. n - 1 : i < j => e[i] < e[j]
      /\ n - 1 \in Nat
  BY <1>1
<1>3. DOMAIN o.nodes = {p[i] : i \in 1 .. n} /\ DOMAIN o.edges = {e[i] : i \in 1 .. n - 1}
  BY <1>1
<1>4. InOrder(o.nodes) = p /\ InOrder(o.edges) = e
  <2> HIDE DEF p, e
  <2> QED
    BY <1>1, <1>2, <1>3, AscendingIs DEF InOrder
<1>5. Tail(p) = [i \in 1 .. n - 1 |-> f + 2 * i]
  <2> HIDE DEF p
  <2>1. p \in Seq(Int) /\ Len(p) = n /\ p # <<>>
    <3>1. p \in Seq(Int) /\ Len(p) = n
      BY <1>1, <1>2, FunctionIsSeq
    <3> QED
      BY <1>1, <3>1, EmptySeq
  <2>2. Tail(p) = [i \in 1 .. n - 1 |-> p[i + 1]]
    BY <2>1, TailIs
  <2>3. \A i \in 1 .. n - 1 : p[i + 1] = f + 2 * i
    BY <1>1 DEF p
  <2> QED
    BY <2>2, <2>3
<1>6. /\ DOMAIN p = 1 .. n /\ \A i \in 1 .. n : p[i] = f + 2 * (i - 1)
      /\ DOMAIN e = 1 .. n - 1 /\ \A i \in 1 .. n - 1 : e[i] = f + 2 * i - 1
  OBVIOUS
<1> HIDE DEF p, e
<1>7. StatesOf(o.nodes, p) = [i \in 1 .. n |-> StateAt(o.nodes, f + 2 * (i - 1))]
  BY <1>6 DEF StatesOf, StateAt
<1>8. StatesOf(o.edges, e) = [i \in 1 .. n - 1 |-> StateAt(o.edges, f + 2 * i - 1)]
  BY <1>6 DEF StatesOf, StateAt
<1>9. StatesOf(o.nodes, Tail(p)) = [i \in 1 .. n - 1 |-> StateAt(o.nodes, f + 2 * i)]
  BY <1>5 DEF StatesOf, StateAt
<1> QED
  BY <1>4, <1>7, <1>8, <1>9 DEF AllNodes, NewNodes, Hops

-----------------------------------------------------------------------------
(* A vehicle that has not reached a node of its order still has the first  *)
(* one ahead, and no edge that leads there.                                *)
Skip(node, N) == IF node = NoId /\ N # <<>> THEN 1 ELSE 0

(* The road: node states two apart, the base before the horizon, and one   *)
(* edge state for each node state but a first node not reached.            *)
Road(node, seq, N, E) ==
  /\ \A i \in 1 .. Len(N) : N[i].seq = N[1].seq + 2 * (i - 1)
  /\ \A i, j \in 1 .. Len(N) : i < j /\ N[j].released => N[i].released
  /\ Len(E) = Len(N) - Skip(node, N)
  /\ \A i \in 1 .. Len(E) : /\ E[i].seq = N[i + Skip(node, N)].seq - 1
                            /\ E[i].released = N[i + Skip(node, N)].released
  /\ node = NoId => seq = 0
  /\ node = NoId /\ N # <<>> => N[1].released
  /\ node # NoId /\ N # <<>> => N[1].seq = seq + 2

(* Linked is what the road looks like from outside.                        *)
LEMMA RoadIsLinked ==
  ASSUME state.nodes \in Seq(NodeState), state.edges \in Seq(EdgeState),
         Road(state.node, state.seq, state.nodes, state.edges)
  PROVE  StatesLinked
<1> DEFINE N == state.nodes
           E == state.edges
           k == Skip(state.node, N)
<1>1. k \in {0, 1} /\ Len(N) \in Nat /\ Len(E) \in Nat /\ Len(E) = Len(N) - k
  BY DEF Skip, Road
<1>2. \A i \in 1 .. Len(N) : N[i].seq \in Nat /\ N[i].seq = N[1].seq + 2 * (i - 1)
  <2>1. \A i \in 1 .. Len(N) : N[i] \in NodeState
    BY ElementOfSeq
  <2> QED
    BY <2>1 DEF Road, NodeState
<1>3. \A i, j \in 1 .. Len(N) : i < j /\ N[j].released => N[i].released
  BY DEF Road
<1>4. \A i \in 1 .. Len(E) : E[i].seq = N[i + k].seq - 1
  BY DEF Road
<1> HIDE DEF N, E, k
<1>5. ASSUME NEW i \in 1 .. Len(N) - 1 PROVE N[i + 1].seq = N[i].seq + 2
  <2>1. i \in 1 .. Len(N) /\ i + 1 \in 1 .. Len(N) /\ 1 \in 1 .. Len(N)
    BY <1>1
  <2>2. N[i].seq = N[1].seq + 2 * (i - 1) /\ N[i + 1].seq = N[1].seq + 2 * ((i + 1) - 1)
        /\ N[1].seq \in Nat
    BY <1>2, <2>1
  <2> QED
    BY <2>2
<1>6. ASSUME NEW i \in 1 .. Len(E) - 1 PROVE E[i + 1].seq = E[i].seq + 2
  <2>1. i \in 1 .. Len(E) /\ i + 1 \in 1 .. Len(E) /\ i + k \in 1 .. Len(N) - 1
        /\ (i + 1) + k = (i + k) + 1
    BY <1>1
  <2>2. N[(i + k) + 1].seq = N[i + k].seq + 2
    BY <1>5, <2>1
  <2>3. N[i + k].seq \in Nat
    BY <1>1, <1>2, <2>1
  <2>4. E[i].seq = N[i + k].seq - 1 /\ E[i + 1].seq = N[(i + k) + 1].seq - 1
    BY <1>4, <2>1
  <2> QED
    BY <2>2, <2>3, <2>4
<1>7. N # <<>> /\ E # <<>> => N[Len(N)].seq = E[Len(E)].seq + 1
  <2> SUFFICES ASSUME N # <<>>, E # <<>> PROVE N[Len(N)].seq = E[Len(E)].seq + 1
    OBVIOUS
  <2>1. Len(E) \in Nat \ {0} /\ Len(N) \in Nat \ {0}
    BY EmptySeq DEF N, E
  <2>2. Len(E) \in 1 .. Len(E) /\ Len(E) + k = Len(N) /\ Len(N) \in 1 .. Len(N)
    BY <1>1, <2>1
  <2>3. E[Len(E)].seq = N[Len(N)].seq - 1 /\ N[Len(N)].seq \in Nat
    BY <1>2, <1>4, <2>2
  <2> QED
    BY <2>3
<1> QED
  BY <1>3, <1>5, <1>6, <1>7 DEF StatesLinked, Linked, S!Last, N, E

-----------------------------------------------------------------------------
(* Reaching the next node.                                                 *)

LEMMA NodeFacts ==
  ASSUME NEW N \in Seq(NodeState)
  PROVE  /\ Len(N) \in Nat /\ DOMAIN N = 1 .. Len(N)
         /\ N # <<>> => Len(N) \in Nat \ {0}
         /\ \A i \in 1 .. Len(N) : /\ N[i] \in NodeState /\ N[i].seq \in Nat
                                   /\ N[i].released \in BOOLEAN /\ N[i].what # NoId
<1>1. \A i \in 1 .. Len(N) : N[i] \in NodeState
  BY ElementOfSeq
<1>2. \A w \in NodeNames : w # NoId
  BY RuntimeAssumption DEF NodeNames
<1>3. Len(N) \in Nat /\ DOMAIN N = 1 .. Len(N) /\ (N # <<>> => Len(N) \in Nat \ {0})
  BY LenProperties, EmptySeq
<1> QED
  BY <1>1, <1>2, <1>3 DEF NodeState

LEMMA EdgeFacts ==
  ASSUME NEW E \in Seq(EdgeState)
  PROVE  /\ Len(E) \in Nat /\ DOMAIN E = 1 .. Len(E)
         /\ \A i \in 1 .. Len(E) : /\ E[i] \in EdgeState /\ E[i].seq \in Nat
                                   /\ E[i].released \in BOOLEAN
<1>1. \A i \in 1 .. Len(E) : E[i] \in EdgeState
  BY ElementOfSeq
<1> QED
  BY <1>1, LenProperties DEF EdgeState

(* The sequence ids of the node states grow.                               *)
LEMMA RoadGrows ==
  ASSUME NEW node, NEW seq \in Nat, NEW N \in Seq(NodeState), NEW E, Road(node, seq, N, E)
  PROVE  /\ \A i, j \in 1 .. Len(N) : i < j => N[i].seq < N[j].seq
         /\ node # NoId => \A i \in 1 .. Len(N) : N[i].seq > seq
<1>1. \A i \in 1 .. Len(N) : N[i].seq = N[1].seq + 2 * (i - 1)
  BY DEF Road
<1>2. Len(N) \in Nat /\ (1 \in 1 .. Len(N) => N[1].seq \in Nat)
  BY NodeFacts
<1>3. ASSUME NEW i \in 1 .. Len(N), NEW j \in 1 .. Len(N), i < j
      PROVE  N[i].seq < N[j].seq
  <2>1. 1 \in 1 .. Len(N) /\ N[i].seq = N[1].seq + 2 * (i - 1) /\ N[j].seq = N[1].seq + 2 * (j - 1)
    BY <1>1, <1>2
  <2> QED
    BY <1>2, <1>3, <2>1
<1>4. ASSUME node # NoId, NEW i \in 1 .. Len(N) PROVE N[i].seq > seq
  <2>1. N # <<>> /\ 1 \in 1 .. Len(N)
    BY <1>2, EmptySeq
  <2>2. N[1].seq = seq + 2
    BY <1>4, <2>1 DEF Road
  <2>3. N[i].seq = N[1].seq + 2 * (i - 1)
    BY <1>1
  <2> QED
    BY <2>2, <2>3
<1> QED
  BY <1>3, <1>4

LEMMA ReachRoad ==
  ASSUME NEW node, NEW seq \in Nat, NEW N \in Seq(NodeState), NEW E \in Seq(EdgeState),
         Road(node, seq, N, E), N # <<>>, N[1].released,
         NEW left, left = Pick(E, {i \in DOMAIN E : E[i].seq > N[1].seq})
  PROVE  /\ Tail(N) \in Seq(NodeState) /\ left \in Seq(EdgeState)
         /\ Road(N[1].what, N[1].seq, Tail(N), left)
<1> DEFINE k == Skip(node, N)
           l == Len(N)
           m == 1 - k
<1>1. l \in Nat \ {0} /\ k \in {0, 1} /\ m \in {0, 1} /\ Len(E) \in Nat
      /\ k = 1 - m /\ Len(E) = l - k /\ 1 \in 1 .. l
  BY NodeFacts, EdgeFacts DEF Road, Skip
<1>2. /\ \A i \in 1 .. l : N[i].seq = N[1].seq + 2 * (i - 1)
      /\ \A i, j \in 1 .. l : i < j /\ N[j].released => N[i].released
      /\ \A i \in 1 .. Len(E) : E[i].seq = N[i + k].seq - 1 /\ E[i].released = N[i + k].released
  BY DEF Road
<1>3. N[1].seq \in Nat /\ N[1].what # NoId
  BY NodeFacts, <1>1
<1>4. /\ Tail(N) \in Seq(NodeState) /\ Len(Tail(N)) = l - 1
      /\ \A i \in 1 .. l - 1 : Tail(N)[i] = N[i + 1]
  BY HeadTailProperties
<1> HIDE DEF k, l, m
<1>5. {i \in DOMAIN E : E[i].seq > N[1].seq} = m + 1 .. m + (l - 1)
  <2>1. DOMAIN E = 1 .. l - k
    BY <1>1, EdgeFacts
  <2>2. \A i \in 1 .. l - k : E[i].seq = N[1].seq + 2 * (i + k - 1) - 1
    <3> SUFFICES ASSUME NEW i \in 1 .. l - k
                 PROVE  E[i].seq = N[1].seq + 2 * (i + k - 1) - 1
      OBVIOUS
    <3>1. i \in 1 .. Len(E) /\ i + k \in 1 .. l
      BY <1>1
    <3>2. E[i].seq = N[i + k].seq - 1 /\ N[i + k].seq = N[1].seq + 2 * ((i + k) - 1)
      BY <1>2, <3>1
    <3> QED
      BY <1>1, <1>3, <3>2
  <2>3. \A i \in 1 .. l - k : E[i].seq > N[1].seq <=> i >= m + 1
    <3> SUFFICES ASSUME NEW i \in 1 .. l - k
                 PROVE  E[i].seq > N[1].seq <=> i >= m + 1
      OBVIOUS
    <3>0. i \in Nat
      BY ONLY <1>1, i \in 1 .. l - k
    <3>1. E[i].seq = N[1].seq + 2 * (i + k - 1) - 1 /\ i \in Nat
      BY ONLY <2>2, <3>0, i \in 1 .. l - k
    <3>2. CASE k = 0
      BY <1>1, <1>3, <3>1, <3>2
    <3>3. CASE k = 1
      BY <1>1, <1>3, <3>1, <3>3
    <3> QED
      BY <1>1, <3>2, <3>3
  <2>4. \A i \in m + 1 .. m + (l - 1) : i \in 1 .. l - k
    BY <1>1
  <2>5. \A i \in 1 .. l - k : i >= m + 1 => i \in m + 1 .. m + (l - 1)
    BY <1>1
  <2> QED
    BY <2>1, <2>3, <2>4, <2>5
<1>6. left = [i \in 1 .. l - 1 |-> E[m + i]]
  <2>1. l - 1 \in Nat /\ m \in Nat
    BY <1>1
  <2>2. \A a, c \in Nat : \A J : J = a + 1 .. a + c => Pick(E, J) = [i \in 1 .. c |-> E[a + i]]
    BY ONLY PickInterval
  <2> QED
    BY <1>5, <2>1, <2>2
<1>7. left \in Seq(EdgeState) /\ Len(left) = l - 1
  <2>1. \A i \in 1 .. l - 1 : m + i \in 1 .. Len(E)
    BY <1>1
  <2>2. left \in [1 .. l - 1 -> EdgeState]
    BY <1>6, <2>1, ElementOfSeq
  <2>3. l - 1 \in Nat
    BY <1>1
  <2> QED
    BY <2>2, <2>3, FunctionIsSeq
<1>8. Skip(N[1].what, Tail(N)) = 0
  BY <1>3 DEF Skip
<1>9. \A i \in 1 .. l - 1 : left[i].seq = Tail(N)[i].seq - 1 /\ left[i].released = Tail(N)[i].released
  <2> SUFFICES ASSUME NEW i \in 1 .. l - 1
               PROVE  left[i].seq = Tail(N)[i].seq - 1 /\ left[i].released = Tail(N)[i].released
    OBVIOUS
  <2>1. m + i \in 1 .. Len(E) /\ (m + i) + k = i + 1
    BY <1>1
  <2>2. left[i] = E[m + i]
    BY <1>6
  <2>3. E[m + i].seq = N[i + 1].seq - 1 /\ E[m + i].released = N[i + 1].released
    BY <1>2, <2>1
  <2> QED
    BY <1>4, <2>2, <2>3
<1>10. \A i \in 1 .. l - 1 : Tail(N)[i].seq = Tail(N)[1].seq + 2 * (i - 1)
  <2> SUFFICES ASSUME NEW i \in 1 .. l - 1
               PROVE  Tail(N)[i].seq = Tail(N)[1].seq + 2 * (i - 1)
    OBVIOUS
  <2>1. i + 1 \in 1 .. l /\ 2 \in 1 .. l /\ 1 \in 1 .. l - 1 /\ 1 + 1 = 2 /\ 2 - 1 = 1
    BY <1>1
  <2>2. N[i + 1].seq = N[1].seq + 2 * ((i + 1) - 1) /\ N[2].seq = N[1].seq + 2 * 1
    BY <1>2, <2>1
  <2>3. Tail(N)[i] = N[i + 1] /\ Tail(N)[1] = N[2]
    BY <1>4, <2>1
  <2>4. N[i + 1].seq = N[2].seq + 2 * (i - 1)
    <3> DEFINE x == N[i + 1].seq
               y == N[2].seq
               z == N[1].seq
    <3>1. i \in Nat /\ z \in Nat /\ x = z + 2 * ((i + 1) - 1) /\ y = z + 2 * 1
      BY <1>1, <1>3, <2>2
    <3> HIDE DEF x, y, z
    <3>2. x = y + 2 * (i - 1)
      BY <3>1
    <3> QED
      BY <3>2 DEF x, y
  <2> QED
    BY <2>3, <2>4
<1>11. \A i, j \in 1 .. l - 1 : i < j /\ Tail(N)[j].released => Tail(N)[i].released
  <2>1. \A i \in 1 .. l - 1 : i + 1 \in 1 .. l /\ Tail(N)[i] = N[i + 1]
    BY <1>1, <1>4
  <2>2. \A i, j \in 1 .. l - 1 : i < j => i + 1 < j + 1
    BY <1>1
  <2> QED
    BY <1>2, <2>1, <2>2
<1>12. Tail(N) # <<>> => Tail(N)[1].seq = N[1].seq + 2
  <2> SUFFICES ASSUME Tail(N) # <<>> PROVE Tail(N)[1].seq = N[1].seq + 2
    OBVIOUS
  <2>1. 1 \in 1 .. l - 1 /\ 1 + 1 \in 1 .. l
    BY <1>1, <1>4, EmptySeq
  <2> QED
    BY <1>2, <1>4, <2>1
<1>13. Len(left) = Len(Tail(N)) - 0 /\ \A i \in 1 .. Len(left) : i + 0 = i
  BY <1>1, <1>4, <1>7
<1> QED
  BY <1>3, <1>4, <1>7, <1>8, <1>9, <1>10, <1>11, <1>12, <1>13 DEF Road

-----------------------------------------------------------------------------
(* What the master holds for the vehicle: nodes on even ids, the base      *)
(* before the horizon.                                                     *)
Based(r) ==
  /\ IsRoute(r) /\ HasBase(r)
  /\ \A s \in DOMAIN r : s % 2 = 0
  /\ \A s \in DOMAIN r : s <= StitchSeq(r) => r[s].released

(* Vehicle and master agree on the base still ahead, in both directions,   *)
(* and on its end once the vehicle stands there.                           *)
Agree(node, seq, N, r) ==
  /\ \A i \in 1 .. Len(N) :
       N[i].released /\ N[i].seq >= Front(r) =>
         N[i].seq \in Released(r) /\ r[N[i].seq].what = N[i].what
  /\ \A s \in Released(r) :
       node = NoId \/ s > seq =>
         \E i \in 1 .. Len(N) : N[i].released /\ N[i].seq = s /\ N[i].what = r[s].what
  /\ node # NoId /\ StitchSeq(r) <= seq =>
       StitchSeq(r) = seq /\ r[seq].what = node

LEMMA BasedFacts ==
  ASSUME NEW r, Based(r)
  PROVE  /\ Front(r) \in Nat /\ StitchSeq(r) \in Nat /\ Front(r) <= StitchSeq(r)
         /\ StitchSeq(r) \in Released(r)
         /\ \A s \in Released(r) : s \in Nat /\ s <= StitchSeq(r)
         /\ \A s \in DOMAIN r : s \in Nat /\ Front(r) <= s
<1>1. DOMAIN r \subseteq Nat /\ IsFiniteSet(DOMAIN r) /\ Released(r) # {}
  BY DEF Based, IsRoute, HasBase
<1>2. Released(r) \in SUBSET DOMAIN r /\ Released(r) \in SUBSET Int /\ DOMAIN r \in SUBSET Int
  BY <1>1 DEF Released
<1>3. IsFiniteSet(Released(r)) /\ DOMAIN r # {}
  BY <1>1, <1>2, FS_Subset
<1>4. StitchSeq(r) \in Released(r) /\ \A y \in Released(r) : StitchSeq(r) >= y
  BY <1>1, <1>2, <1>3, ExtremeElements DEF StitchSeq
<1>5. Front(r) \in DOMAIN r /\ \A y \in DOMAIN r : Front(r) <= y
  BY <1>1, <1>2, <1>3, ExtremeElements DEF Front
<1>6. Front(r) \in Nat /\ StitchSeq(r) \in Nat /\ Front(r) <= StitchSeq(r)
  BY <1>1, <1>2, <1>4, <1>5
<1>7. \A s \in Released(r) : s \in Nat /\ s <= StitchSeq(r)
  BY <1>1, <1>2, <1>4, <1>6
<1> QED
  BY <1>1, <1>4, <1>5, <1>6, <1>7

(* Driving to the next node keeps the agreement.                           *)
LEMMA ReachAgree ==
  ASSUME NEW node, NEW seq \in Nat, NEW N \in Seq(NodeState), NEW E, Road(node, seq, N, E),
         N # <<>>, N[1].released,
         NEW r, Based(r), Agree(node, seq, N, r)
  PROVE  Agree(N[1].what, N[1].seq, Tail(N), r)
<1> DEFINE l == Len(N)
           t == StitchSeq(r)
           h == N[1].seq
<1>1. l \in Nat \ {0} /\ 1 \in 1 .. l /\ h \in Nat /\ N[1].what # NoId
  BY NodeFacts
<1>2. /\ Len(Tail(N)) = l - 1
      /\ \A i \in 1 .. l - 1 : Tail(N)[i] = N[i + 1] /\ i + 1 \in 1 .. l
  BY <1>1, HeadTailProperties
<1>3. /\ Front(r) \in Nat /\ t \in Nat /\ Front(r) <= t
      /\ \A s \in Released(r) : s \in Nat /\ s <= t
  BY BasedFacts
<1>4. /\ \A i \in 1 .. l : N[i].released /\ N[i].seq >= Front(r) =>
                             N[i].seq \in Released(r) /\ r[N[i].seq].what = N[i].what
      /\ \A s \in Released(r) :
           node = NoId \/ s > seq =>
             \E i \in 1 .. l : N[i].released /\ N[i].seq = s /\ N[i].what = r[s].what
  BY DEF Agree
<1>5. node # NoId => h = seq + 2
  BY DEF Road
<1> HIDE DEF l, t, h
<1>6. ASSUME NEW i \in 1 .. l - 1, Tail(N)[i].released, Tail(N)[i].seq >= Front(r)
      PROVE  Tail(N)[i].seq \in Released(r) /\ r[Tail(N)[i].seq].what = Tail(N)[i].what
  BY <1>2, <1>4, <1>6
<1>7. ASSUME NEW s \in Released(r), s > h
      PROVE  \E i \in 1 .. l - 1 : /\ Tail(N)[i].released /\ Tail(N)[i].seq = s
                                   /\ Tail(N)[i].what = r[s].what
  <2>1. node = NoId \/ s > seq
    BY <1>1, <1>3, <1>5, <1>7
  <2>2. PICK i \in 1 .. l : N[i].released /\ N[i].seq = s /\ N[i].what = r[s].what
    BY <1>4, <2>1
  <2>3. i # 1
    BY <1>1, <1>3, <1>7, <2>2 DEF h
  <2>4. i - 1 \in 1 .. l - 1 /\ (i - 1) + 1 = i
    BY <1>1, <2>3
  <2>5. Tail(N)[i - 1] = N[i]
    BY <1>2, <2>4
  <2> QED
    BY <2>2, <2>4, <2>5
<1>8. ASSUME t <= h PROVE t = h /\ r[h].what = N[1].what
  <2>1. h >= Front(r)
    BY <1>1, <1>3, <1>8
  <2>2. h \in Released(r) /\ r[h].what = N[1].what
    BY <1>1, <1>4, <2>1 DEF h
  <2> QED
    BY <1>1, <1>3, <1>8, <2>2
<1> QED
  BY <1>1, <1>2, <1>6, <1>7, <1>8 DEF Agree, h, t

-----------------------------------------------------------------------------
(* Taking over a new order.                                                *)

LEMMA ValidIsBased ==
  ASSUME NEW o \in PushedOrders, IsValidGraph(o)
  PROVE  Based(o.nodes) /\ Front(o.nodes) \in Released(o.nodes)
<1> DEFINE f == Front(o.nodes)
<1>1. /\ f \in DOMAIN o.nodes /\ o.nodes[f].released
      /\ \A s, t \in DOMAIN o.nodes : s < t /\ o.nodes[t].released => o.nodes[s].released
  <2>1. Spans(o, f, Cardinality(DOMAIN o.nodes))
    BY DEF Spans
  <2> HIDE DEF f
  <2>2. Chain(o, f, Cardinality(DOMAIN o.nodes))
    BY <2>1, PushedIsChain
  <2> QED
    BY ONLY <2>2 DEF Chain
<1>2. IsRoute(o.nodes) /\ HasBase(o.nodes)
  BY <1>1, PushedIsOrder DEF HasBase, Released
<1>3. StitchSeq(o.nodes) \in DOMAIN o.nodes /\ o.nodes[StitchSeq(o.nodes)].released
  BY <1>2, StitchIsReleased
<1>4. \A s \in DOMAIN o.nodes : s <= StitchSeq(o.nodes) => o.nodes[s].released
  <2>1. \A s \in DOMAIN o.nodes : s \in Nat
    BY <1>2 DEF IsRoute
  <2>2. \A s \in DOMAIN o.nodes :
          s <= StitchSeq(o.nodes) => s < StitchSeq(o.nodes) \/ s = StitchSeq(o.nodes)
    BY <1>3, <2>1
  <2> QED
    BY <1>1, <1>3, <2>2
<1>5. \A s \in DOMAIN o.nodes : s % 2 = 0
  BY DEF IsValidGraph
<1> QED
  BY <1>1, <1>2, <1>4, <1>5 DEF Based, Released

LEMMA NewRoad ==
  ASSUME NEW o \in PushedOrders, IsValidGraph(o),
         NEW N, N = StatesOf(o.nodes, InOrder(o.nodes)),
         NEW E, E = StatesOf(o.edges, InOrder(o.edges))
  PROVE  /\ N \in Seq(NodeState) /\ E \in Seq(EdgeState)
         /\ Road(NoId, 0, N, E)
         /\ Agree(NoId, 0, N, o.nodes)
<1> DEFINE f == Front(o.nodes)
           n == Cardinality(DOMAIN o.nodes)
<1>f. Spans(o, f, n)
  BY DEF Spans
<1> HIDE DEF f, n
<1>h. f = Front(o.nodes) /\ Chain(o, f, n)
  BY <1>f, PushedIsChain DEF f
<1>1. /\ f \in Nat /\ n \in Nat \ {0}
      /\ DOMAIN o.nodes = {f + 2 * (i - 1) : i \in 1 .. n}
      /\ DOMAIN o.edges = {f + 2 * i - 1 : i \in 1 .. n - 1}
  BY ONLY <1>h DEF Chain
<1>2. /\ f \in DOMAIN o.nodes /\ o.nodes[f].released
      /\ \A s, t \in DOMAIN o.nodes : s < t /\ o.nodes[t].released => o.nodes[s].released
      /\ \A e \in DOMAIN o.edges :
           e + 1 \in DOMAIN o.nodes /\ o.edges[e].released = o.nodes[e + 1].released
  BY ONLY <1>h DEF Chain
<1>3. /\ N = [i \in 1 .. n |-> StateAt(o.nodes, f + 2 * (i - 1))]
      /\ E = [i \in 1 .. n - 1 |-> StateAt(o.edges, f + 2 * i - 1)]
  <2>1. N = AllNodes(o, f, n) /\ E = Hops(o, f, n)
    BY <1>f, AddedStates
  <2> QED
    BY <2>1 DEF AllNodes, Hops
<1>4. n - 1 \in Nat /\ (\A i \in 1 .. n - 1 : i + 1 \in 1 .. n) /\ 1 \in 1 .. n
  BY <1>1
<1>5. N \in Seq(NodeState) /\ Len(N) = n
  <2>1. \A i \in 1 .. n : StateAt(o.nodes, f + 2 * (i - 1)) \in NodeState
    BY <1>1, PushedIsOrder
  <2>2. N \in [1 .. n -> NodeState]
    BY <1>3, <2>1
  <2> QED
    BY <1>1, <2>2, FunctionIsSeq
<1>6. E \in Seq(EdgeState) /\ Len(E) = n - 1
  <2>1. \A i \in 1 .. n - 1 : StateAt(o.edges, f + 2 * i - 1) \in EdgeState
    BY <1>1, PushedIsOrder
  <2>2. E \in [1 .. n - 1 -> EdgeState]
    BY <1>3, <2>1
  <2> QED
    BY <1>4, <2>2, FunctionIsSeq
<1>7. Skip(NoId, N) = 1
  BY <1>1, <1>5, EmptySeq DEF Skip
<1>8. \A i \in 1 .. n : /\ N[i].seq = f + 2 * (i - 1)
                        /\ N[i].released = o.nodes[f + 2 * (i - 1)].released
                        /\ N[i].what = o.nodes[f + 2 * (i - 1)].what
                        /\ f + 2 * (i - 1) \in DOMAIN o.nodes
  <2>1. \A i \in 1 .. n : N[i] = StateAt(o.nodes, f + 2 * (i - 1))
    BY <1>3
  <2>2. \A i \in 1 .. n : f + 2 * (i - 1) \in DOMAIN o.nodes
    BY <1>1
  <2> QED
    BY <2>1, <2>2, StateFields
<1>9. f + 2 * (1 - 1) = f
  BY <1>1
<1>10. Road(NoId, 0, N, E)
  <2>1. \A i \in 1 .. n : N[i].seq = N[1].seq + 2 * (i - 1)
    BY <1>4, <1>8, <1>9
  <2>2. \A i, j \in 1 .. n : i < j /\ N[j].released => N[i].released
    <3>1. \A i, j \in 1 .. n : i < j => f + 2 * (i - 1) < f + 2 * (j - 1)
      BY <1>1
    <3> QED
      BY <1>2, <1>8, <3>1
  <2>3. ASSUME NEW i \in 1 .. n - 1
        PROVE  E[i].seq = N[i + 1].seq - 1 /\ E[i].released = N[i + 1].released
    <3>1. E[i].seq = f + 2 * i - 1 /\ E[i].released = o.edges[f + 2 * i - 1].released
      BY <1>3, StateFields
    <3>2. f + 2 * i - 1 \in DOMAIN o.edges /\ (f + 2 * i - 1) + 1 = f + 2 * ((i + 1) - 1)
          /\ f + 2 * i - 1 = (f + 2 * ((i + 1) - 1)) - 1
      BY <1>1
    <3>3. o.edges[f + 2 * i - 1].released = o.nodes[f + 2 * ((i + 1) - 1)].released
      BY <1>2, <3>2
    <3>4. i + 1 \in 1 .. n
      BY <1>4
    <3> QED
      BY <1>8, <3>1, <3>2, <3>3, <3>4
  <2>4. N[1].released
    BY <1>2, <1>4, <1>8, <1>9
  <2>5. Len(E) = Len(N) - 1
    BY <1>5, <1>6
  <2> QED
    BY <1>5, <1>6, <1>7, <2>1, <2>2, <2>3, <2>4, <2>5 DEF Road
<1>11. Agree(NoId, 0, N, o.nodes)
  <2>1. \A i \in 1 .. n : N[i].released =>
          N[i].seq \in Released(o.nodes) /\ o.nodes[N[i].seq].what = N[i].what
    BY <1>8 DEF Released
  <2>2. \A s \in Released(o.nodes) :
          \E i \in 1 .. n : N[i].released /\ N[i].seq = s /\ N[i].what = o.nodes[s].what
    <3> SUFFICES ASSUME NEW s \in Released(o.nodes)
                 PROVE  \E i \in 1 .. n : N[i].released /\ N[i].seq = s
                                          /\ N[i].what = o.nodes[s].what
      OBVIOUS
    <3>1. PICK i \in 1 .. n : s = f + 2 * (i - 1)
      BY <1>1 DEF Released
    <3> QED
      BY <1>8, <3>1 DEF Released
  <2> QED
    BY <1>5, <2>1, <2>2 DEF Agree
<1> QED
  BY <1>5, <1>6, <1>10, <1>11

-----------------------------------------------------------------------------
(* The end of the base.                                                    *)

(* The released node states are the first k.                               *)
LEMMA PrefixLength ==
  ASSUME NEW node, NEW seq, NEW N \in Seq(NodeState), NEW E, Road(node, seq, N, E)
  PROVE  \E k \in 0 .. Len(N) : \A i \in 1 .. Len(N) : N[i].released <=> i <= k
<1> DEFINE R == {i \in 1 .. Len(N) : N[i].released}
<1>1. Len(N) \in Nat /\ \A i, j \in 1 .. Len(N) : i < j /\ N[j].released => N[i].released
  BY NodeFacts DEF Road
<1>2. CASE R = {}
  BY <1>1, <1>2
<1>3. CASE R # {}
  <2>1. IsFiniteSet(1 .. Len(N))
    <3>1. 1 \in Int /\ Len(N) \in Int
      BY <1>1
    <3> QED
      BY ONLY <3>1, FS_Interval
  <2>2. IsFiniteSet(R) /\ R \in SUBSET Int
    BY <2>1, FS_Subset
  <2>3. Max(R) \in R /\ \A y \in R : Max(R) >= y
    BY <1>3, <2>2, ExtremeElements
  <2>4. \A i \in 1 .. Len(N) : i <= Max(R) => i < Max(R) \/ i = Max(R)
    BY <2>2, <2>3
  <2>5. \A i \in 1 .. Len(N) : N[i].released <=> i <= Max(R)
    BY <1>1, <2>3, <2>4
  <2>6. Max(R) \in 0 .. Len(N)
    BY <1>1, <2>3
  <2> QED
    BY <2>5, <2>6
<1> QED
  BY <1>2, <1>3

(* BaseEnd is the last released node state, or the node reached last when  *)
(* none is ahead.                                                          *)
LEMMA EndOfBase ==
  ASSUME NEW st, NEW node, NEW seq \in Nat, NEW N \in Seq(NodeState), NEW E,
         node = st.node, seq = st.seq, N = st.nodes, Road(node, seq, N, E),
         NEW k \in 0 .. Len(N), \A i \in 1 .. Len(N) : N[i].released <=> i <= k
  PROVE  BaseEnd(st) = IF k >= 1 /\ N[k].seq > seq THEN <<N[k].what, N[k].seq>>
                       ELSE <<node, seq>>
<1> DEFINE A == Ahead(st)
<1>1. Len(N) \in Nat /\ DOMAIN N = 1 .. Len(N) /\ \A i \in 1 .. Len(N) : N[i].seq \in Nat
  BY NodeFacts
<1>2. A = {i \in 1 .. Len(N) : i <= k /\ N[i].seq > seq}
  BY <1>1 DEF Ahead
<1>3. \A i, j \in 1 .. Len(N) : i < j => N[i].seq < N[j].seq
  BY RoadGrows
<1>4. CASE k >= 1 /\ N[k].seq > seq
  <2>1. k \in A
    BY <1>1, <1>2, <1>4
  <2>2. \A i \in A : i <= k
    BY <1>2
  <2>3. IsFiniteSet(A) /\ A \in SUBSET Int
    <3>1. 1 \in Int /\ Len(N) \in Int
      BY <1>1
    <3>2. IsFiniteSet(1 .. Len(N))
      BY ONLY <3>1, FS_Interval
    <3> QED
      BY <1>2, <3>2, FS_Subset
  <2>4. A # {} /\ Max(A) \in A /\ Max(A) >= k
    <3> HIDE DEF A
    <3> QED
      BY <2>1, <2>3, ExtremeElements
  <2>5. Max(A) = k
    <3> HIDE DEF A
    <3> QED
      BY <2>2, <2>3, <2>4
  <2> QED
    BY <1>4, <2>4, <2>5 DEF BaseEnd
<1>5. CASE ~ (k >= 1 /\ N[k].seq > seq)
  <2>1. ASSUME NEW i \in A PROVE FALSE
    <3>1. i \in 1 .. Len(N) /\ i <= k /\ N[i].seq > seq /\ k \in 1 .. Len(N)
      BY <1>1, <1>2, <2>1
    <3>2. N[i].seq <= N[k].seq
      <4>1. i < k \/ i = k
        BY <1>1, <3>1
      <4>2. N[i].seq \in Nat /\ N[k].seq \in Nat
        BY <1>1, <3>1
      <4> QED
        BY <1>3, <3>1, <4>1, <4>2
    <3>3. N[i].seq \in Nat /\ N[k].seq \in Nat /\ k >= 1
      BY <1>1, <3>1
    <3> QED
      BY <1>5, <3>1, <3>2, <3>3
  <2> QED
    BY <1>5, <2>1 DEF BaseEnd
<1> QED
  BY <1>4, <1>5

(* Where an update of node w and id f is stitched on: behind the k states  *)
(* of the base ahead, or at the node the vehicle stands on.                *)
Place(node, seq, N, w, f, k) ==
  /\ k \in 0 .. Len(N)
  /\ \A i \in 1 .. Len(N) : N[i].released <=> i <= k
  /\ \A i \in 1 .. k : N[i].seq = f + 2 * (i - k)
  /\ node # NoId => f = seq + 2 * k
  /\ node = NoId => k >= 1
  /\ k = 0 => node = w
  /\ k >= 1 => N[k].what = w

LEMMA StitchPlace ==
  ASSUME NEW st, NEW node, NEW seq \in Nat, NEW N \in Seq(NodeState), NEW E,
         node = st.node, seq = st.seq, N = st.nodes, Road(node, seq, N, E),
         NEW o \in PushedOrders, Stitches(st, o),
         NEW f \in DOMAIN o.nodes, f = Front(o.nodes), NEW w, w = o.nodes[f].what
  PROVE  \E k \in 0 .. Len(N) : Place(node, seq, N, w, f, k)
<1>1. PICK k \in 0 .. Len(N) : \A i \in 1 .. Len(N) : N[i].released <=> i <= k
  BY PrefixLength
<1>2. /\ Len(N) \in Nat /\ (N # <<>> => Len(N) \in Nat \ {0})
      /\ \A i \in 1 .. Len(N) : N[i].seq \in Nat
  BY NodeFacts
<1>3. <<w, f>> = IF k >= 1 /\ N[k].seq > seq THEN <<N[k].what, N[k].seq>> ELSE <<node, seq>>
  <2>1. BaseEnd(st) = IF k >= 1 /\ N[k].seq > seq THEN <<N[k].what, N[k].seq>> ELSE <<node, seq>>
    BY <1>1, EndOfBase
  <2> QED
    BY <2>1 DEF Stitches
<1>4. w # NoId
  BY PushedIsOrder
<1>5. \A i \in 1 .. Len(N) : N[i].seq = N[1].seq + 2 * (i - 1)
  BY DEF Road
<1>6. CASE k >= 1 /\ N[k].seq > seq
  <2>1. k \in 1 .. Len(N) /\ 1 \in 1 .. Len(N) /\ N # <<>>
    BY <1>2, <1>6, EmptySeq
  <2>2. f = N[k].seq /\ w = N[k].what
    BY <1>3, <1>6
  <2>3. \A i \in 1 .. k : N[i].seq = f + 2 * (i - k)
    <3> SUFFICES ASSUME NEW i \in 1 .. k PROVE N[i].seq = f + 2 * (i - k)
      OBVIOUS
    <3> DEFINE x == N[i].seq
               z == N[1].seq
    <3>1. x = z + 2 * (i - 1) /\ f = z + 2 * (k - 1) /\ z \in Nat /\ i \in Nat /\ k \in Nat
      BY <1>2, <1>5, <2>1, <2>2
    <3> HIDE DEF x, z
    <3>2. x = f + 2 * (i - k)
      BY <3>1
    <3> QED
      BY <3>2 DEF x
  <2>4. node # NoId => f = seq + 2 * k
    <3> SUFFICES ASSUME node # NoId PROVE f = seq + 2 * k
      OBVIOUS
    <3>1. N[1].seq = seq + 2
      BY <2>1 DEF Road
    <3>2. f = N[1].seq + 2 * (k - 1)
      BY <1>5, <2>1, <2>2
    <3> QED
      BY <2>1, <3>1, <3>2
  <2>5. (node = NoId => k >= 1) /\ (k = 0 => node = w) /\ (k >= 1 => N[k].what = w)
    BY <1>6, <2>1, <2>2
  <2>6. Place(node, seq, N, w, f, k)
    BY ONLY k \in 0 .. Len(N), <1>1, <2>3, <2>4, <2>5 DEF Place
  <2> QED
    BY <2>6
<1>7. CASE ~ (k >= 1 /\ N[k].seq > seq)
  <2>1. node = w /\ f = seq /\ node # NoId
    BY <1>3, <1>4, <1>7
  <2>2. k = 0
    <3> SUFFICES ASSUME k # 0 PROVE FALSE
      OBVIOUS
    <3>1. k \in 1 .. Len(N)
      BY <1>2
    <3>2. N[k].seq > seq
      BY <2>1, <3>1, RoadGrows
    <3> QED
      BY <1>7, <3>1, <3>2
  <2> QED
    BY <1>1, <2>1, <2>2 DEF Place
<1> QED
  BY <1>6, <1>7

(* The update begins where the master's base ends.                         *)
LEMMA StitchIsBaseEnd ==
  ASSUME NEW node, NEW seq \in Nat, NEW N \in Seq(NodeState), NEW E, Road(node, seq, N, E),
         NEW r, Based(r), Agree(node, seq, N, r),
         NEW w, NEW f \in Nat, NEW k, Place(node, seq, N, w, f, k)
  PROVE  f = StitchSeq(r)
<1> DEFINE t == StitchSeq(r)
<1>1. /\ Front(r) \in Nat /\ t \in Nat /\ Front(r) <= t /\ t \in Released(r)
      /\ \A s \in Released(r) : s \in Nat /\ s <= t
  BY BasedFacts
<1>2. Len(N) \in Nat /\ k \in 0 .. Len(N) /\ \A i \in 1 .. Len(N) : N[i].released <=> i <= k
  BY NodeFacts DEF Place
<1>3. \A i \in 1 .. k : N[i].seq = f + 2 * (i - k)
  BY DEF Place
<1>4. ASSUME k >= 1, f >= Front(r) PROVE f <= t
  <2>1. k \in 1 .. Len(N) /\ k \in 1 .. k
    BY <1>2, <1>4
  <2>2. N[k].seq = f
    BY <1>2, <1>3, <2>1
  <2>3. f \in Released(r)
    BY <1>2, <1>4, <2>1, <2>2 DEF Agree
  <2> QED
    BY <1>1, <2>3
<1> HIDE DEF t
<1>5. CASE node = NoId \/ t > seq
  <2>1. PICK i \in 1 .. Len(N) : N[i].released /\ N[i].seq = t
    BY <1>1, <1>5 DEF Agree, t
  <2>2. i \in 1 .. k
    BY <1>2, <2>1
  <2>3. t = f + 2 * (i - k)
    BY <1>3, <2>1, <2>2
  <2>4. t <= f /\ k >= 1
    BY <1>1, <1>2, <2>2, <2>3
  <2> QED
    BY <1>1, <1>4, <2>4 DEF t
<1>6. CASE node # NoId /\ t <= seq
  <2>1. t = seq
    BY <1>6 DEF Agree, t
  <2>2. f = seq + 2 * k
    BY <1>6 DEF Place
  <2>3. k = 0
    BY <1>1, <1>2, <1>4, <2>1, <2>2
  <2> QED
    BY <2>1, <2>2, <2>3 DEF t
<1> QED
  BY <1>1, <1>5, <1>6

-----------------------------------------------------------------------------
(* Taking over an update.                                                  *)

(* The node and edge states after an update: k node and m edge states that *)
(* are left of the base, then c more of each.                              *)
UpdateOf(node, N, E, o, f, n, k, m, c, N2, E2) ==
  /\ Spans(o, f, n)
  /\ c = n - 1 /\ m = k - Skip(node, N)
  /\ N2 = Kept(N) \o StatesOf(o.nodes, Tail(InOrder(o.nodes)))
  /\ E2 = Kept(E) \o StatesOf(o.edges, InOrder(o.edges))

Updated(N, E, o, f, k, m, c, N2, E2) ==
  /\ N2 \in Seq(NodeState) /\ Len(N2) = k + c
  /\ \A i \in 1 .. k : N2[i] = N[i]
  /\ \A i \in k + 1 .. k + c : N2[i] = StateAt(o.nodes, f + 2 * (i - k))
  /\ E2 \in Seq(EdgeState) /\ Len(E2) = m + c /\ m \in 0 .. Len(E)
  /\ \A i \in 1 .. m : E2[i] = E[i]
  /\ \A i \in m + 1 .. m + c : E2[i] = StateAt(o.edges, f + 2 * (i - m) - 1)

LEMMA UpdatedStates ==
  ASSUME NEW node, NEW seq \in Nat, NEW N \in Seq(NodeState), NEW E \in Seq(EdgeState),
         Road(node, seq, N, E),
         NEW o \in PushedOrders, IsValidGraph(o),
         NEW f, NEW w, NEW k, Place(node, seq, N, w, f, k),
         NEW n, NEW m, NEW c, NEW N2, NEW E2,
         UpdateOf(node, N, E, o, f, n, k, m, c, N2, E2)
  PROVE  Updated(N, E, o, f, k, m, c, N2, E2)
<1>u. /\ Spans(o, f, n)
      /\ m = k - Skip(node, N)
      /\ N2 = Kept(N) \o StatesOf(o.nodes, Tail(InOrder(o.nodes)))
      /\ E2 = Kept(E) \o StatesOf(o.edges, InOrder(o.edges))
  BY DEF UpdateOf
<1>1. /\ f \in Nat /\ n \in Nat \ {0} /\ n - 1 \in Nat
      /\ DOMAIN o.nodes = {f + 2 * (i - 1) : i \in 1 .. n}
      /\ DOMAIN o.edges = {f + 2 * i - 1 : i \in 1 .. n - 1}
  <2>1. Chain(o, f, n)
    BY ONLY <1>u, o \in PushedOrders, IsValidGraph(o), PushedIsChain
  <2> QED
    BY ONLY <2>1 DEF Chain
<1>2. /\ StatesOf(o.nodes, Tail(InOrder(o.nodes))) = NewNodes(o, f, n)
      /\ StatesOf(o.edges, InOrder(o.edges)) = Hops(o, f, n)
  BY <1>u, AddedStates
<1>3. /\ Len(N) \in Nat /\ DOMAIN N = 1 .. Len(N) /\ Len(E) \in Nat /\ DOMAIN E = 1 .. Len(E)
      /\ \A i \in 1 .. Len(N) : N[i] \in NodeState
      /\ \A i \in 1 .. Len(E) : E[i] \in EdgeState
  BY NodeFacts, EdgeFacts
<1>4. /\ k \in 0 .. Len(N)
      /\ \A i \in 1 .. Len(N) : N[i].released <=> i <= k
      /\ node = NoId => k >= 1
  BY DEF Place
<1>5. Skip(node, N) \in {0, 1} /\ (Skip(node, N) = 1 => k >= 1)
  BY <1>4 DEF Skip
<1>6. /\ Len(E) = Len(N) - Skip(node, N)
      /\ \A i \in 1 .. Len(E) : E[i].released = N[i + Skip(node, N)].released
  BY DEF Road
<1> DEFINE s == Skip(node, N)
<1>s. s = Skip(node, N)
  OBVIOUS
<1> HIDE DEF s
<1>7. m \in 0 .. Len(E) /\ m = k - s /\ k \in Nat /\ m \in Nat /\ s \in {0, 1}
  BY <1>3, <1>4, <1>5, <1>6, <1>s, <1>u
<1>8. {i \in DOMAIN N : N[i].released} = 1 .. k
  BY <1>3, <1>4
<1>9. {i \in DOMAIN E : E[i].released} = 1 .. m
  <2>1. \A i \in 1 .. Len(E) : i + s \in 1 .. Len(N) /\ (i + s <= k <=> i <= m)
    BY <1>3, <1>6, <1>7, <1>s
  <2>2. \A i \in 1 .. Len(E) : E[i].released <=> i <= m
    BY <1>4, <1>6, <1>s, <2>1
  <2> QED
    BY <1>3, <1>7, <2>2
<1>c. c = n - 1
  BY DEF UpdateOf
<1>10. c \in Nat
  BY <1>1, <1>c
<1>11. Kept(N) \in [1 .. k -> NodeState] /\ \A i \in 1 .. k : Kept(N)[i] = N[i]
  <2>1. Kept(N) = [i \in 1 .. k |-> N[i]]
    <3>1. Pick(N, 1 .. k) = [i \in 1 .. k |-> N[i]]
      BY ONLY <1>7, PickPrefix
    <3> QED
      BY <1>8, <3>1 DEF Kept
  <2>2. \A i \in 1 .. k : i \in 1 .. Len(N)
    BY <1>3, <1>4
  <2> QED
    BY <1>3, <2>1, <2>2
<1>12. Kept(E) \in [1 .. m -> EdgeState] /\ \A i \in 1 .. m : Kept(E)[i] = E[i]
  <2>1. Kept(E) = [i \in 1 .. m |-> E[i]]
    <3>1. Pick(E, 1 .. m) = [i \in 1 .. m |-> E[i]]
      BY ONLY <1>7, PickPrefix
    <3> QED
      BY <1>9, <3>1 DEF Kept
  <2>2. \A i \in 1 .. m : i \in 1 .. Len(E)
    BY <1>3, <1>7
  <2> QED
    BY <1>3, <2>1, <2>2
<1>13. /\ NewNodes(o, f, n) \in [1 .. c -> NodeState]
       /\ \A i \in 1 .. c : NewNodes(o, f, n)[i] = StateAt(o.nodes, f + 2 * i)
  <2>1. \A i \in 1 .. c : i + 1 \in 1 .. n /\ f + 2 * i = f + 2 * ((i + 1) - 1)
    BY ONLY <1>1, <1>c
  <2>2. \A i \in 1 .. c : f + 2 * i \in DOMAIN o.nodes
    BY ONLY <1>1, <2>1
  <2>3. \A i \in 1 .. c : StateAt(o.nodes, f + 2 * i) \in NodeState
    BY <2>2, PushedIsOrder
  <2> QED
    BY <2>3, <1>c DEF NewNodes
<1>14. /\ Hops(o, f, n) \in [1 .. c -> EdgeState]
       /\ \A i \in 1 .. c : Hops(o, f, n)[i] = StateAt(o.edges, f + 2 * i - 1)
  <2>1. \A i \in 1 .. c : StateAt(o.edges, f + 2 * i - 1) \in EdgeState
    BY <1>1, <1>c, PushedIsOrder
  <2> QED
    BY <2>1, <1>c DEF Hops
<1>15. /\ N2 \in Seq(NodeState) /\ Len(N2) = k + c
       /\ \A i \in 1 .. k : N2[i] = Kept(N)[i]
       /\ \A i \in k + 1 .. k + c : N2[i] = NewNodes(o, f, n)[i - k]
  <2>1. N2 = Kept(N) \o NewNodes(o, f, n)
    BY ONLY <1>2, <1>u
  <2>2. /\ Kept(N) \in Seq(NodeState) /\ Len(Kept(N)) = k
        /\ NewNodes(o, f, n) \in Seq(NodeState) /\ Len(NewNodes(o, f, n)) = c
    BY ONLY <1>7, <1>10, <1>11, <1>13, FunctionIsSeq
  <2>3. /\ N2 \in Seq(NodeState) /\ Len(N2) = Len(Kept(N)) + Len(NewNodes(o, f, n))
        /\ \A i \in 1 .. Len(Kept(N)) + Len(NewNodes(o, f, n)) :
             N2[i] = IF i <= Len(Kept(N)) THEN Kept(N)[i] ELSE NewNodes(o, f, n)[i - Len(Kept(N))]
    BY ONLY <2>1, <2>2, ConcatProperties
  <2>4. /\ \A i \in 1 .. k : i \in 1 .. k + c /\ i <= k
        /\ \A i \in k + 1 .. k + c : i \in 1 .. k + c /\ ~ (i <= k)
    BY ONLY <1>7, <1>10
  <2> QED
    BY ONLY <2>2, <2>3, <2>4
<1>16. /\ E2 \in Seq(EdgeState) /\ Len(E2) = m + c
       /\ \A i \in 1 .. m : E2[i] = Kept(E)[i]
       /\ \A i \in m + 1 .. m + c : E2[i] = Hops(o, f, n)[i - m]
  <2>1. E2 = Kept(E) \o Hops(o, f, n)
    BY ONLY <1>2, <1>u
  <2>2. /\ Kept(E) \in Seq(EdgeState) /\ Len(Kept(E)) = m
        /\ Hops(o, f, n) \in Seq(EdgeState) /\ Len(Hops(o, f, n)) = c
    BY ONLY <1>7, <1>10, <1>12, <1>14, FunctionIsSeq
  <2>3. /\ E2 \in Seq(EdgeState) /\ Len(E2) = Len(Kept(E)) + Len(Hops(o, f, n))
        /\ \A i \in 1 .. Len(Kept(E)) + Len(Hops(o, f, n)) :
             E2[i] = IF i <= Len(Kept(E)) THEN Kept(E)[i] ELSE Hops(o, f, n)[i - Len(Kept(E))]
    BY ONLY <2>1, <2>2, ConcatProperties
  <2>4. /\ \A i \in 1 .. m : i \in 1 .. m + c /\ i <= m
        /\ \A i \in m + 1 .. m + c : i \in 1 .. m + c /\ ~ (i <= m)
    BY ONLY <1>7, <1>10
  <2> QED
    BY ONLY <2>2, <2>3, <2>4
<1>17. \A i \in k + 1 .. k + c : i - k \in 1 .. c
  BY ONLY <1>7, <1>10
<1>18. \A i \in m + 1 .. m + c : i - m \in 1 .. c
  BY ONLY <1>7, <1>10
<1> QED
  BY <1>c, <1>7, <1>11, <1>12, <1>13, <1>14, <1>15, <1>16, <1>17, <1>18 DEF Updated

LEMMA UpdateRoad ==
  ASSUME NEW node, NEW seq \in Nat, NEW N \in Seq(NodeState), NEW E \in Seq(EdgeState),
         Road(node, seq, N, E),
         NEW o \in PushedOrders, IsValidGraph(o),
         NEW f, f = Front(o.nodes), NEW w, NEW k, Place(node, seq, N, w, f, k),
         NEW N2, N2 = Kept(N) \o StatesOf(o.nodes, Tail(InOrder(o.nodes))),
         NEW E2, E2 = Kept(E) \o StatesOf(o.edges, InOrder(o.edges))
  PROVE  /\ N2 \in Seq(NodeState) /\ E2 \in Seq(EdgeState)
         /\ Road(node, seq, N2, E2)
<1> DEFINE n == Cardinality(DOMAIN o.nodes)
           s == Skip(node, N)
           m == k - s
           c == n - 1
<1>n. Spans(o, f, n)
  BY DEF Spans
<1>s. s = Skip(node, N)
  OBVIOUS
<1>m. m = k - s
  OBVIOUS
<1>c. c = n - 1
  OBVIOUS
<1> HIDE DEF n, s, m, c
<1>1. /\ f \in Nat /\ n \in Nat \ {0} /\ c \in Nat
      /\ DOMAIN o.nodes = {f + 2 * (i - 1) : i \in 1 .. n}
      /\ DOMAIN o.edges = {f + 2 * i - 1 : i \in 1 .. n - 1}
  <2>1. Chain(o, f, n)
    BY ONLY <1>n, o \in PushedOrders, IsValidGraph(o), PushedIsChain
  <2> QED
    BY ONLY <2>1, <1>c DEF Chain
<1>2. /\ \A u, t \in DOMAIN o.nodes : u < t /\ o.nodes[t].released => o.nodes[u].released
      /\ \A e \in DOMAIN o.edges :
           e + 1 \in DOMAIN o.nodes /\ o.edges[e].released = o.nodes[e + 1].released
  <2>1. Chain(o, f, n)
    BY ONLY <1>n, o \in PushedOrders, IsValidGraph(o), PushedIsChain
  <2> QED
    BY ONLY <2>1 DEF Chain
<1>3. /\ N2 \in Seq(NodeState) /\ Len(N2) = k + c
      /\ \A i \in 1 .. k : N2[i] = N[i]
      /\ \A i \in k + 1 .. k + c : N2[i] = StateAt(o.nodes, f + 2 * (i - k))
      /\ E2 \in Seq(EdgeState) /\ Len(E2) = m + c /\ m \in 0 .. Len(E)
      /\ \A i \in 1 .. m : E2[i] = E[i]
      /\ \A i \in m + 1 .. m + c : E2[i] = StateAt(o.edges, f + 2 * (i - m) - 1)
  <2>1. UpdateOf(node, N, E, o, f, n, k, m, c, N2, E2)
    BY <1>n, <1>s, <1>m, <1>c DEF UpdateOf
  <2>2. Updated(N, E, o, f, k, m, c, N2, E2)
    BY <2>1, UpdatedStates
  <2> QED
    BY ONLY <2>2 DEF Updated
<1>4. /\ k \in 0 .. Len(N) /\ Len(N) \in Nat /\ Len(E) \in Nat
      /\ \A i \in 1 .. Len(N) : N[i].released <=> i <= k
      /\ \A i \in 1 .. k : N[i].seq = f + 2 * (i - k)
      /\ node # NoId => f = seq + 2 * k
      /\ node = NoId => k >= 1
  BY NodeFacts, EdgeFacts DEF Place
<1>5. /\ \A i \in 1 .. Len(N) : N[i].seq = N[1].seq + 2 * (i - 1)
      /\ Len(E) = Len(N) - s
      /\ \A i \in 1 .. Len(E) : E[i].seq = N[i + s].seq - 1 /\ E[i].released = N[i + s].released
      /\ node = NoId => seq = 0
  BY <1>s DEF Road
<1>6. s \in {0, 1} /\ (s = 1 <=> node = NoId)
  <2>1. node = NoId => N # <<>>
    <3> SUFFICES ASSUME node = NoId, N = <<>> PROVE FALSE
      OBVIOUS
    <3>1. Len(N) = 0
      BY EmptySeq
    <3> QED
      BY <1>4, <3>1
  <2> QED
    BY <1>s, <2>1 DEF Skip
<1>7. Skip(node, N2) = s
  <2>1. node = NoId => N2 # <<>>
    <3> SUFFICES ASSUME node = NoId, N2 = <<>> PROVE FALSE
      OBVIOUS
    <3>1. Len(N2) = 0
      BY EmptySeq
    <3> QED
      BY <1>1, <1>3, <1>4, <3>1
  <2> QED
    BY <1>6, <2>1 DEF Skip
<1>8. \A i \in 1 .. k : i \in 1 .. Len(N)
  BY ONLY <1>4
<1>9. \A i \in 1 .. k + c : i \in 1 .. k \/ i \in k + 1 .. k + c
  BY ONLY <1>1, <1>4
<1>10. \A i \in 1 .. k + c : N2[i].seq = f + 2 * (i - k)
  <2>1. \A i \in 1 .. k : N2[i].seq = f + 2 * (i - k)
    BY ONLY <1>3, <1>4
  <2>2. \A i \in k + 1 .. k + c : N2[i].seq = f + 2 * (i - k)
    BY ONLY <1>3, StateFields
  <2> QED
    BY ONLY <1>9, <2>1, <2>2
<1>11. \A i \in k + 1 .. k + c : /\ f + 2 * (i - k) \in DOMAIN o.nodes
                                 /\ N2[i].released = o.nodes[f + 2 * (i - k)].released
  <2>1. \A i \in k + 1 .. k + c : /\ (i - k) + 1 \in 1 .. n
                                  /\ f + 2 * (i - k) = f + 2 * (((i - k) + 1) - 1)
    BY ONLY <1>1, <1>4, <1>c
  <2>2. \A i \in k + 1 .. k + c : f + 2 * (i - k) \in DOMAIN o.nodes
    BY ONLY <1>1, <2>1
  <2> QED
    BY ONLY <1>3, <2>2, StateFields
<1>12. \A i \in 1 .. k + c : N2[i].seq = N2[1].seq + 2 * (i - 1)
  <2> SUFFICES ASSUME NEW i \in 1 .. k + c
               PROVE  N2[i].seq = N2[1].seq + 2 * (i - 1)
    OBVIOUS
  <2>1. 1 \in 1 .. k + c /\ i \in Nat /\ k \in Nat
    BY ONLY <1>1, <1>4, i \in 1 .. k + c
  <2>2. N2[i].seq = f + 2 * (i - k) /\ N2[1].seq = f + 2 * (1 - k)
    BY ONLY <1>10, <2>1, i \in 1 .. k + c
  <2>3. f + 2 * (i - k) = (f + 2 * (1 - k)) + 2 * (i - 1)
    BY ONLY <1>1, <2>1
  <2> QED
    BY ONLY <2>2, <2>3
<1>13. \A i, j \in 1 .. k + c : i < j /\ N2[j].released => N2[i].released
  <2> SUFFICES ASSUME NEW i \in 1 .. k + c, NEW j \in 1 .. k + c, i < j, N2[j].released
               PROVE  N2[i].released
    OBVIOUS
  <2>1. CASE i \in 1 .. k
    <3>1. i \in 1 .. Len(N) /\ i <= k
      BY ONLY <1>4, <2>1
    <3> QED
      BY <1>3, <1>4, <2>1, <3>1
  <2>2. CASE i \in k + 1 .. k + c
    <3>1. j \in k + 1 .. k + c /\ f + 2 * (i - k) < f + 2 * (j - k)
      BY ONLY <1>1, <1>4, <2>2, i < j, j \in 1 .. k + c
    <3> QED
      BY <1>2, <1>11, <2>2, <3>1
  <2> QED
    BY <1>9, <2>1, <2>2
<1>14. m \in Nat /\ m + s = k /\ Len(E2) = Len(N2) - s
  <2>1. k \in Nat /\ m \in Nat /\ m + s = k
    BY ONLY <1>3, <1>4, <1>6, <1>m
  <2>2. Len(N2) = k + c /\ Len(E2) = m + c
    BY ONLY <1>3
  <2> QED
    BY ONLY <1>1, <1>6, <2>1, <2>2
<1>15. \A i \in 1 .. m + c : E2[i].seq = N2[i + s].seq - 1 /\ E2[i].released = N2[i + s].released
  <2> SUFFICES ASSUME NEW i \in 1 .. m + c
               PROVE  E2[i].seq = N2[i + s].seq - 1 /\ E2[i].released = N2[i + s].released
    OBVIOUS
  <2>1. CASE i \in 1 .. m
    <3>1. i \in 1 .. Len(E) /\ i + s \in 1 .. k
      BY ONLY <1>3, <1>4, <1>6, <1>14, <2>1
    <3>2. E2[i] = E[i] /\ N2[i + s] = N[i + s]
      BY ONLY <1>3, <2>1, <3>1
    <3> QED
      BY ONLY <1>5, <3>1, <3>2
  <2>2. CASE i \in m + 1 .. m + c
    <3>1. i + s \in k + 1 .. k + c /\ (i + s) - k = i - m /\ i + s \in 1 .. k + c
      BY ONLY <1>1, <1>4, <1>6, <1>14, <2>2
    <3>2. E2[i].seq = f + 2 * (i - m) - 1 /\ E2[i].released = o.edges[f + 2 * (i - m) - 1].released
      BY ONLY <1>3, <2>2, StateFields
    <3>3. N2[i + s].seq = f + 2 * (i - m) /\ N2[i + s].released = o.nodes[f + 2 * (i - m)].released
      BY ONLY <1>10, <1>11, <3>1
    <3>4. f + 2 * (i - m) - 1 \in DOMAIN o.edges
      <4>1. i - m \in 1 .. n - 1
        BY ONLY <1>1, <1>14, <1>c, <2>2
      <4> QED
        BY ONLY <1>1, <4>1
    <3>5. /\ (f + 2 * (i - m) - 1) + 1 = f + 2 * (i - m)
          /\ f + 2 * (i - m) - 1 = (f + 2 * (i - m)) - 1
      BY ONLY <1>1, <1>14, <2>2
    <3>6. o.edges[f + 2 * (i - m) - 1].released = o.nodes[f + 2 * (i - m)].released
      BY ONLY <1>2, <3>4, <3>5
    <3> DEFINE z == f + 2 * (i - m)
    <3> HIDE DEF z
    <3>7. E2[i].seq = N2[i + s].seq - 1
      <4>1. E2[i].seq = z - 1 /\ N2[i + s].seq = z
        BY ONLY <3>2, <3>3, <3>5 DEF z
      <4> QED
        BY ONLY <4>1
    <3> QED
      BY ONLY <3>2, <3>3, <3>6, <3>7
  <2>3. i \in 1 .. m \/ i \in m + 1 .. m + c
    BY ONLY <1>1, <1>14, i \in 1 .. m + c
  <2> QED
    BY <2>1, <2>2, <2>3
<1>16. node = NoId => N2[1].released
  <2> SUFFICES ASSUME node = NoId PROVE N2[1].released
    OBVIOUS
  <2>1. 1 \in 1 .. k /\ 1 \in 1 .. Len(N) /\ 1 <= k
    BY ONLY <1>4, node = NoId
  <2> QED
    BY ONLY <1>3, <1>4, <2>1
<1>17. node # NoId /\ N2 # <<>> => N2[1].seq = seq + 2
  <2> SUFFICES ASSUME node # NoId, N2 # <<>> PROVE N2[1].seq = seq + 2
    OBVIOUS
  <2>1. Len(N2) \in Nat \ {0}
    BY <1>3, NodeFacts
  <2>2. 1 \in 1 .. k + c
    BY ONLY <1>3, <2>1
  <2>3. N2[1].seq = f + 2 * (1 - k) /\ f = seq + 2 * k
    BY ONLY <1>4, <1>10, <2>2, node # NoId
  <2>4. k \in Nat
    BY ONLY <1>4
  <2> QED
    BY ONLY <2>3, <2>4, seq \in Nat
<1> QED
  BY ONLY <1>3, <1>5, <1>7, <1>12, <1>13, <1>14, <1>15, <1>16, <1>17 DEF Road

(* What the master holds after it merged the update.                       *)
LEMMA MergedBase ==
  ASSUME NEW r, Based(r), NEW o \in PushedOrders, IsValidGraph(o),
         NEW f, f = Front(o.nodes), f = StitchSeq(r)
  PROVE  /\ Based(MergeRoute(r, o.nodes))
         /\ Front(MergeRoute(r, o.nodes)) = f
         /\ Released(MergeRoute(r, o.nodes)) = Released(o.nodes)
         /\ StitchSeq(MergeRoute(r, o.nodes)) = StitchSeq(o.nodes)
         /\ \A u \in DOMAIN o.nodes : MergeRoute(r, o.nodes)[u] = o.nodes[u]
<1> DEFINE M == MergeRoute(r, o.nodes)
           n == Cardinality(DOMAIN o.nodes)
<1>n. Spans(o, f, n)
  BY DEF Spans
<1> HIDE DEF n
<1>1. /\ f \in Nat /\ n \in Nat \ {0} /\ f % 2 = 0
      /\ DOMAIN o.nodes = {f + 2 * (i - 1) : i \in 1 .. n}
  <2>1. Chain(o, f, n)
    BY ONLY <1>n, o \in PushedOrders, IsValidGraph(o), PushedIsChain
  <2> QED
    BY ONLY <2>1 DEF Chain
<1>2. Based(o.nodes) /\ f \in Released(o.nodes) /\ IsRoute(o.nodes)
  BY ValidIsBased, PushedIsOrder
<1>3. /\ f \in Released(r)
      /\ \A u \in Released(r) : u \in Nat /\ u <= f
      /\ \A u \in DOMAIN r : u \in Nat
      /\ \A u \in DOMAIN r : u <= f => r[u].released
      /\ \A u \in DOMAIN r : u % 2 = 0
      /\ IsRoute(r)
  BY BasedFacts DEF Based
<1>4. \A u \in DOMAIN o.nodes : u \in Nat /\ f <= u
  BY <1>2, BasedFacts
<1>5. Preserved(r) = {u \in DOMAIN r : u >= f} /\ \A u \in Preserved(r) : u = f \/ ~ r[u].released
  <2>1. \A u \in DOMAIN r : r[u].released <=> u <= f
    BY <1>3 DEF Released
  <2>2. \A u \in DOMAIN r : (r[u].released => u = f) <=> u >= f
    BY <1>1, <1>3, <2>1
  <2> QED
    BY <2>2 DEF Preserved
<1>6. /\ DOMAIN M = Preserved(r) \cup DOMAIN o.nodes
      /\ \A u \in DOMAIN o.nodes : M[u] = o.nodes[u]
      /\ \A u \in Preserved(r) \ DOMAIN o.nodes : M[u] = r[u]
  BY DEF MergeRoute
<1>7. IsRoute(M)
  BY <1>2, <1>3, MergeIsRoute
<1> HIDE DEF M
<1>8. f \in DOMAIN o.nodes
  BY <1>2 DEF Released
<1>9. Released(M) = Released(o.nodes)
  BY <1>5, <1>6, <1>8 DEF Released
<1>10. StitchSeq(M) = StitchSeq(o.nodes)
  BY <1>9 DEF StitchSeq
<1>11. Front(M) = f
  <2>1. DOMAIN M \in SUBSET Int /\ IsFiniteSet(DOMAIN M) /\ DOMAIN M # {}
    BY <1>6, <1>7, <1>8 DEF IsRoute
  <2>2. Min(DOMAIN M) \in DOMAIN M /\ \A u \in DOMAIN M : Min(DOMAIN M) <= u
    BY <2>1, ExtremeElements
  <2>3. \A u \in DOMAIN M : u \in Nat /\ f <= u
    BY <1>1, <1>3, <1>4, <1>5, <1>6
  <2>4. Min(DOMAIN M) \in Nat /\ f <= Min(DOMAIN M) /\ Min(DOMAIN M) <= f
    BY <1>6, <1>8, <2>2, <2>3
  <2> QED
    BY <1>1, <2>4 DEF Front
<1>12. \A u \in DOMAIN M : u % 2 = 0
  BY <1>2, <1>3, <1>5, <1>6 DEF Based
<1>13. \A u \in DOMAIN M : u <= StitchSeq(M) => M[u].released
  <2> SUFFICES ASSUME NEW u \in DOMAIN M, u <= StitchSeq(o.nodes) PROVE M[u].released
    BY <1>10
  <2>1. StitchSeq(o.nodes) \in DOMAIN o.nodes
    BY <1>2, BasedFacts DEF Released
  <2>2. u \in DOMAIN o.nodes
    <3>1. PICK j \in 1 .. n : StitchSeq(o.nodes) = f + 2 * (j - 1)
      BY <1>1, <2>1
    <3>2. u \in Nat /\ f <= u /\ u % 2 = 0
      BY <1>1, <1>3, <1>4, <1>5, <1>6, <1>12
    <3> DEFINE d == (u - f) \div 2
    <3>3. d \in Nat /\ u = f + 2 * d
      BY ONLY <1>1, <3>2
    <3> HIDE DEF d
    <3>4. u <= f + 2 * (j - 1)
      BY <3>1
    <3>5. d + 1 \in 1 .. n /\ u = f + 2 * ((d + 1) - 1)
      BY ONLY <1>1, <3>3, <3>4, j \in 1 .. n
    <3> QED
      BY <1>1, <3>5
  <2>3. o.nodes[u].released
    BY <1>2, <2>2 DEF Based
  <2> QED
    BY <1>6, <2>2, <2>3
<1>14. HasBase(M)
  BY <1>2, <1>9 DEF HasBase, Based
<1>15. Based(M)
  BY <1>7, <1>12, <1>13, <1>14 DEF Based
<1> QED
  BY <1>6, <1>9, <1>10, <1>11, <1>15 DEF M

(* The update leaves vehicle and master in agreement on the new base.      *)
LEMMA UpdateAgree ==
  ASSUME NEW node, NEW seq \in Nat, NEW N \in Seq(NodeState), NEW E \in Seq(EdgeState),
         Road(node, seq, N, E),
         NEW r, Based(r), Agree(node, seq, N, r),
         NEW o \in PushedOrders, IsValidGraph(o),
         NEW f, f = Front(o.nodes), NEW w, w = o.nodes[f].what,
         NEW k, Place(node, seq, N, w, f, k),
         NEW N2, N2 = Kept(N) \o StatesOf(o.nodes, Tail(InOrder(o.nodes)))
  PROVE  Based(MergeRoute(r, o.nodes)) /\ Agree(node, seq, N2, MergeRoute(r, o.nodes))
<1> DEFINE n == Cardinality(DOMAIN o.nodes)
           m == k - Skip(node, N)
           c == n - 1
           E2 == Kept(E) \o StatesOf(o.edges, InOrder(o.edges))
           M == MergeRoute(r, o.nodes)
<1>n. Spans(o, f, n)
  BY DEF Spans
<1>c. c = n - 1
  OBVIOUS
<1>u. UpdateOf(node, N, E, o, f, n, k, m, c, N2, E2)
  BY <1>n DEF UpdateOf
<1> HIDE DEF n, m, c, E2
<1>1. /\ f \in Nat /\ n \in Nat \ {0}
      /\ DOMAIN o.nodes = {f + 2 * (i - 1) : i \in 1 .. n}
  <2>1. Chain(o, f, n)
    BY ONLY <1>n, o \in PushedOrders, IsValidGraph(o), PushedIsChain
  <2> QED
    BY ONLY <2>1 DEF Chain
<1>2. /\ Len(N2) = k + c
      /\ \A i \in 1 .. k : N2[i] = N[i]
      /\ \A i \in k + 1 .. k + c : N2[i] = StateAt(o.nodes, f + 2 * (i - k))
  <2>1. Updated(N, E, o, f, k, m, c, N2, E2)
    BY <1>u, UpdatedStates
  <2> QED
    BY ONLY <2>1 DEF Updated
<1>3. /\ k \in 0 .. Len(N) /\ Len(N) \in Nat
      /\ \A i \in 1 .. Len(N) : N[i].released <=> i <= k
      /\ \A i \in 1 .. k : N[i].seq = f + 2 * (i - k)
      /\ node # NoId => f = seq + 2 * k
      /\ node = NoId => k >= 1
      /\ k = 0 => node = w
      /\ k >= 1 => N[k].what = w
  BY NodeFacts DEF Place
<1>4. f = StitchSeq(r)
  BY <1>1, StitchIsBaseEnd
<1>5. /\ Based(M) /\ Front(M) = f /\ Released(M) = Released(o.nodes)
      /\ StitchSeq(M) = StitchSeq(o.nodes)
      /\ \A u \in DOMAIN o.nodes : M[u] = o.nodes[u]
  BY <1>4, MergedBase
<1> HIDE DEF M
<1>6. f \in Released(o.nodes) /\ Based(o.nodes) /\ f \in DOMAIN o.nodes
  BY ValidIsBased DEF Released
<1>7. \A u \in Released(o.nodes) : u \in DOMAIN o.nodes /\ M[u] = o.nodes[u] /\ o.nodes[u].released
  BY <1>5 DEF Released
<1>8. k \in Nat /\ c \in Nat
  BY ONLY <1>1, <1>3, <1>c
<1>9. ASSUME NEW i \in 1 .. k + c, N2[i].released, N2[i].seq >= f
      PROVE  N2[i].seq \in Released(M) /\ M[N2[i].seq].what = N2[i].what
  <2>1. CASE i \in 1 .. k
    <3>1. N2[i] = N[i] /\ N[i].seq = f + 2 * (i - k)
      BY <1>2, <1>3, <2>1
    <3>2. i = k /\ k >= 1
      <4>1. f + 2 * (i - k) >= f
        BY <1>9, <3>1
      <4> QED
        BY ONLY <1>1, <1>8, <2>1, <4>1
    <3>3. f + 2 * (i - k) = f
      BY ONLY <1>1, <1>8, <3>2
    <3>4. N2[i].seq = f /\ N2[i].what = w
      BY <1>3, <3>1, <3>2, <3>3
    <3> QED
      BY <1>5, <1>6, <1>7, <3>4
  <2>2. CASE i \in k + 1 .. k + c
    <3>1. /\ N2[i].seq = f + 2 * (i - k)
          /\ N2[i].what = o.nodes[f + 2 * (i - k)].what
          /\ N2[i].released = o.nodes[f + 2 * (i - k)].released
      BY ONLY <1>2, <2>2, StateFields
    <3>2. f + 2 * (i - k) \in DOMAIN o.nodes
      <4>1. (i - k) + 1 \in 1 .. n /\ f + 2 * (i - k) = f + 2 * (((i - k) + 1) - 1)
        BY ONLY <1>1, <1>8, <1>c, <2>2
      <4> QED
        BY ONLY <1>1, <4>1
    <3> QED
      BY <1>5, <1>9, <3>1, <3>2 DEF Released
  <2>3. i \in 1 .. k \/ i \in k + 1 .. k + c
    BY ONLY <1>8, i \in 1 .. k + c
  <2> QED
    BY <2>1, <2>2, <2>3
<1>10. ASSUME NEW u \in Released(M), node = NoId \/ u > seq
       PROVE  \E i \in 1 .. k + c : N2[i].released /\ N2[i].seq = u /\ N2[i].what = M[u].what
  <2>1. u \in DOMAIN o.nodes /\ M[u] = o.nodes[u] /\ o.nodes[u].released
    BY <1>5, <1>7
  <2>2. PICK j \in 1 .. n : u = f + 2 * (j - 1)
    BY <1>1, <2>1
  <2>3. CASE j = 1
    <3>1. u = f
      BY ONLY <1>1, <2>2, <2>3
    <3>2. k >= 1
      <4>1. k = 0 => node # NoId /\ seq = f
        BY ONLY <1>1, <1>3, seq \in Nat
      <4>2. k = 0 => FALSE
        BY ONLY <1>1, <1>10, <3>1, <4>1
      <4> QED
        BY ONLY <1>8, <4>2
    <3>3. k \in 1 .. k /\ k \in 1 .. k + c /\ k \in 1 .. Len(N) /\ k <= k /\ f + 2 * (k - k) = f
      BY ONLY <1>1, <1>3, <1>8, <3>2
    <3>4. N2[k].released /\ N2[k].seq = f /\ N2[k].what = w
      BY ONLY <1>2, <1>3, <3>2, <3>3
    <3> QED
      BY <2>1, <3>1, <3>3, <3>4
  <2>4. CASE j # 1
    <3> DEFINE i == k + (j - 1)
    <3>1. i \in k + 1 .. k + c /\ i \in 1 .. k + c /\ f + 2 * (i - k) = u
      BY ONLY <1>1, <1>8, <1>c, <2>2, <2>4
    <3> HIDE DEF i
    <3>2. N2[i] = StateAt(o.nodes, u)
      BY ONLY <1>2, <3>1
    <3>3. N2[i].released /\ N2[i].seq = u /\ N2[i].what = M[u].what
      BY ONLY <2>1, <3>2, StateFields
    <3> QED
      BY ONLY <3>1, <3>3
  <2> QED
    BY <2>3, <2>4
<1>11. ASSUME node # NoId, StitchSeq(M) <= seq
       PROVE  StitchSeq(M) = seq /\ M[seq].what = node
  <2>1. StitchSeq(o.nodes) \in Nat /\ f <= StitchSeq(o.nodes)
    BY <1>6, BasedFacts
  <2>2. f = seq + 2 * k
    BY <1>3, <1>11
  <2>3. k = 0 /\ f = seq /\ StitchSeq(o.nodes) = seq
    BY ONLY <1>1, <1>5, <1>8, <1>11, <2>1, <2>2, seq \in Nat
  <2> QED
    BY <1>3, <1>5, <1>6, <1>7, <2>3
<1>12. Agree(node, seq, N2, M)
  BY ONLY <1>2, <1>5, <1>9, <1>10, <1>11 DEF Agree
<1> QED
  BY <1>5, <1>12 DEF M

-----------------------------------------------------------------------------
(* The inductive invariant.                                                *)
StateTyped ==
  /\ DOMAIN state = {"id", "upd", "node", "seq", "nodes", "edges", "actions", "errors"}
  /\ state.upd \in Nat /\ state.seq \in Nat
  /\ state.nodes \in Seq(NodeState) /\ state.edges \in Seq(EdgeState)
  /\ inbox \in PushedOrders \cup {Nothing}

(* The order merged so far carries the ids the vehicle reports.            *)
HeldMatches ==
  /\ held.id = state.id /\ held.upd = state.upd
  /\ held.id = NoId => held = NoOrder /\ state.nodes = <<>> /\ state.node = NoId
  /\ held.id # NoId => Based(held.nodes)

RoadInv ==
  /\ StateTyped
  /\ Road(state.node, state.seq, state.nodes, state.edges)
  /\ HeldMatches
  /\ held.id # NoId => Agree(state.node, state.seq, state.nodes, held.nodes)

LEMMA RoadInit == RuntimeInit => RoadInv
<1> SUFFICES ASSUME RuntimeInit PROVE RoadInv
  OBVIOUS
<1>1. /\ state = Blank /\ held = NoOrder /\ inbox = Nothing
      /\ state.nodes = <<>> /\ state.edges = <<>> /\ state.node = NoId /\ state.seq = 0
      /\ state.id = NoId /\ state.upd = 0
      /\ DOMAIN state = {"id", "upd", "node", "seq", "nodes", "edges", "actions", "errors"}
  BY DEF RuntimeInit, Blank
<1>2. held.id = NoId /\ held.upd = 0
  BY <1>1 DEF NoOrder
<1>3. StateTyped
  BY <1>1, EmptySeq DEF StateTyped
<1>4. Road(NoId, 0, <<>>, <<>>)
  BY DEF Road, Skip
<1> QED
  BY <1>1, <1>2, <1>3, <1>4 DEF RoadInv, HeldMatches

(* An order taken over, new or update.                                     *)
LEMMA AcceptKeepsRoad ==
  ASSUME RoadInv, NEW o \in PushedOrders, o = inbox, Validate(state, o) = "ACCEPTED",
         Accept(o), UNCHANGED inbox
  PROVE  RoadInv'
<1> DEFINE cleared == [state EXCEPT !.errors = FALSE]
           N == state.nodes
           E == state.edges
           node == state.node
           seq == state.seq
           N1 == StatesOf(o.nodes, InOrder(o.nodes))
           E1 == StatesOf(o.edges, InOrder(o.edges))
           N2 == Kept(N) \o StatesOf(o.nodes, Tail(InOrder(o.nodes)))
           E2 == Kept(E) \o StatesOf(o.edges, InOrder(o.edges))
           fields == {"id", "upd", "node", "seq", "nodes", "edges", "actions", "errors"}
<1>1. /\ DOMAIN state = fields /\ state.upd \in Nat /\ seq \in Nat
      /\ N \in Seq(NodeState) /\ E \in Seq(EdgeState) /\ inbox' \in PushedOrders \cup {Nothing}
      /\ Road(node, seq, N, E)
      /\ held.id = state.id /\ held.upd = state.upd
      /\ held.id # NoId => Based(held.nodes) /\ Agree(node, seq, N, held.nodes)
  BY DEF RoadInv, StateTyped, HeldMatches
<1>2. IsValidGraph(o)
  BY DEF Validate
<1>3. o.id # NoId /\ o.upd \in Nat
  BY PushedIsOrder
<1>4. /\ DOMAIN cleared = fields
      /\ cleared.id = state.id /\ cleared.node = node /\ cleared.seq = seq
      /\ cleared.nodes = N /\ cleared.edges = E
  BY <1>1
<1>5. CASE o.id # state.id
  <2>1. state' = ApplyNewOrder(cleared, o) /\ held' = o
    BY <1>5 DEF Accept
  <2>2. /\ DOMAIN state' = fields
        /\ state'.id = o.id /\ state'.upd = o.upd /\ state'.node = NoId /\ state'.seq = 0
        /\ state'.nodes = N1 /\ state'.edges = E1
    <3> HIDE DEF cleared, N1, E1
    <3> QED
      BY <1>4, <2>1 DEF ApplyNewOrder, N1, E1
  <2>3. /\ N1 \in Seq(NodeState) /\ E1 \in Seq(EdgeState)
        /\ Road(NoId, 0, N1, E1) /\ Agree(NoId, 0, N1, o.nodes)
    BY <1>2, NewRoad
  <2>4. Based(o.nodes)
    BY <1>2, ValidIsBased
  <2> HIDE DEF N1, E1, cleared
  <2>5. StateTyped'
    BY <1>1, <1>3, <2>2, <2>3 DEF StateTyped
  <2> QED
    BY <1>3, <2>1, <2>2, <2>3, <2>4, <2>5 DEF RoadInv, HeldMatches
<1>6. CASE o.id = state.id
  <2>1. state' = ApplyOrderUpdate(cleared, o) /\ held' = Combine(held, o)
    BY <1>6 DEF Accept
  <2>2. /\ DOMAIN state' = fields
        /\ state'.id = o.id /\ state'.upd = o.upd /\ state'.node = node /\ state'.seq = seq
        /\ state'.nodes = N2 /\ state'.edges = E2
    <3> HIDE DEF cleared
    <3> QED
      BY <1>4, <1>6, <2>1 DEF ApplyOrderUpdate
  <2>3. Stitches(state, o)
    BY <1>6 DEF Validate
  <2> DEFINE f == Front(o.nodes)
             w == o.nodes[f].what
  <2>4. f \in DOMAIN o.nodes
    BY <1>2, ValidIsBased DEF Released
  <2>5. Based(held.nodes) /\ Agree(node, seq, N, held.nodes)
    BY <1>1, <1>3, <1>6
  <2> HIDE DEF N, E, node, seq, N2, E2, f, cleared
  <2>6. PICK k \in 0 .. Len(N) : Place(node, seq, N, w, f, k)
    BY <1>1, <2>3, <2>4, StitchPlace DEF N, E, node, seq, f
  <2>7. N2 \in Seq(NodeState) /\ E2 \in Seq(EdgeState) /\ Road(node, seq, N2, E2)
    BY <1>1, <1>2, <2>6, UpdateRoad DEF N2, E2, f
  <2>8. Based(MergeRoute(held.nodes, o.nodes)) /\ Agree(node, seq, N2, MergeRoute(held.nodes, o.nodes))
    BY <1>1, <1>2, <2>5, <2>6, UpdateAgree DEF N2, f
  <2>9. held'.id = o.id /\ held'.upd = o.upd /\ held'.nodes = MergeRoute(held.nodes, o.nodes)
    <3>1. DOMAIN o = {"id", "upd", "nodes", "edges", "tag"}
      BY PushedIsOrder DEF IsOrder
    <3> QED
      BY <2>1, <3>1 DEF Combine
  <2>10. StateTyped'
    BY <1>1, <1>3, <2>2, <2>7 DEF StateTyped
  <2> QED
    BY <1>3, <2>2, <2>7, <2>8, <2>9, <2>10 DEF RoadInv, HeldMatches
<1> QED
  BY <1>5, <1>6

LEMMA ReachKeepsRoad ==
  ASSUME RoadInv, ReachNode
  PROVE  RoadInv'
<1> DEFINE N == state.nodes
           E == state.edges
           E1 == Pick(E, {i \in DOMAIN E : E[i].seq > Head(N).seq})
<1>1. /\ StateTyped /\ HeldMatches
      /\ Road(state.node, state.seq, N, E)
      /\ held.id # NoId => Agree(state.node, state.seq, N, held.nodes)
      /\ state.seq \in Nat /\ N \in Seq(NodeState) /\ E \in Seq(EdgeState)
  BY DEF RoadInv, StateTyped
<1>2. N # <<>> /\ Head(N) = N[1] /\ N[1].released /\ 1 \in 1 .. Len(N)
  <2>1. N # <<>> /\ Head(N).released
    BY DEF ReachNode
  <2>2. Head(N) = N[1]
    BY <1>1, <2>1, HeadTailProperties
  <2>3. 1 \in 1 .. Len(N)
    BY <1>1, <2>1, NodeFacts
  <2> QED
    BY <2>1, <2>2, <2>3
<1>3. /\ state' = [state EXCEPT !.node = N[1].what, !.seq = N[1].seq,
                                !.nodes = Tail(N), !.edges = E1]
      /\ UNCHANGED <<inbox, held>>
  BY <1>2 DEF ReachNode
<1> HIDE DEF E1
<1>4. /\ DOMAIN state' = {"id", "upd", "node", "seq", "nodes", "edges", "actions", "errors"}
      /\ state'.id = state.id /\ state'.upd = state.upd
      /\ state'.node = N[1].what /\ state'.seq = N[1].seq
      /\ state'.nodes = Tail(N) /\ state'.edges = E1
  BY <1>1, <1>3 DEF StateTyped
<1>5. E1 = Pick(E, {i \in DOMAIN E : E[i].seq > N[1].seq})
  BY <1>2 DEF E1
<1>6. N[1].seq \in Nat
  BY <1>1, <1>2, NodeFacts
<1> HIDE DEF N, E
<1>7. Tail(N) \in Seq(NodeState) /\ E1 \in Seq(EdgeState) /\ Road(N[1].what, N[1].seq, Tail(N), E1)
  BY <1>1, <1>2, <1>5, ReachRoad
<1>8. held.id # NoId
  BY <1>1, <1>2 DEF HeldMatches, N
<1>9. Based(held.nodes)
  BY <1>1, <1>8 DEF HeldMatches
<1>10. Agree(N[1].what, N[1].seq, Tail(N), held.nodes)
  BY <1>1, <1>2, <1>8, <1>9, ReachAgree
<1>11. StateTyped'
  BY <1>1, <1>3, <1>4, <1>6, <1>7 DEF StateTyped
<1> QED
  BY <1>1, <1>3, <1>4, <1>7, <1>8, <1>9, <1>10, <1>11 DEF RoadInv, HeldMatches

(* What touches only the actions, the errors and the cache.                *)
LEMMA OtherFieldsKeepRoad ==
  ASSUME RoadInv, held' = held, inbox' \in PushedOrders \cup {Nothing},
         DOMAIN state' = DOMAIN state,
         state'.id = state.id, state'.upd = state.upd, state'.node = state.node,
         state'.seq = state.seq, state'.nodes = state.nodes, state'.edges = state.edges
  PROVE  RoadInv'
BY DEF RoadInv, StateTyped, HeldMatches

LEMMA RoadStep == RoadInv /\ [RuntimeNext]_runtimeVars => RoadInv'
<1> SUFFICES ASSUME RoadInv, [RuntimeNext]_runtimeVars PROVE RoadInv'
  OBVIOUS
<1>t. /\ inbox \in PushedOrders \cup {Nothing}
      /\ DOMAIN state = {"id", "upd", "node", "seq", "nodes", "edges", "actions", "errors"}
  BY DEF RoadInv, StateTyped
<1>1. ASSUME UNCHANGED <<state, held>>, inbox' \in PushedOrders \cup {Nothing}
      PROVE  RoadInv'
  BY <1>1, OtherFieldsKeepRoad
<1>2. CASE BeginSpin \/ EnterLoop \/ WaitEnds \/ LeaveLoop \/ Stop \/ LeaveStop
  <2>1. UNCHANGED orderVars
    BY <1>2 DEF BeginSpin, EnterLoop, WaitEnds, LeaveLoop, Stop, LeaveStop
  <2> QED
    BY <1>1, <1>t, <2>1 DEF orderVars
<1>3. CASE StepStrategies
  <2>1. AcceptanceStep
    BY <1>3 DEF StepStrategies
  <2>2. CASE inbox = Nothing \/ Ids(inbox) = last
    <3>1. UNCHANGED orderVars
      BY <2>1, <2>2 DEF AcceptanceStep
    <3> QED
      BY <1>1, <1>t, <3>1 DEF orderVars
  <2>3. CASE ~ (inbox = Nothing \/ Ids(inbox) = last)
    <3>1. /\ verdict' = [order |-> inbox, outcome |-> Validate(state, inbox)]
          /\ \/ verdict'.outcome = "ACCEPTED" /\ Accept(inbox)
             \/ state' = [state EXCEPT !.errors = TRUE] /\ UNCHANGED <<last, held>>
             \/ UNCHANGED <<last, state, held>>
          /\ UNCHANGED inbox
      BY <2>1, <2>3 DEF AcceptanceStep
    <3>2. inbox \in PushedOrders
      BY <1>t, <2>3
    <3>3. CASE verdict'.outcome = "ACCEPTED" /\ Accept(inbox)
      <4>1. Validate(state, inbox) = "ACCEPTED"
        BY <3>1, <3>3
      <4> QED
        BY <3>1, <3>2, <3>3, <4>1, AcceptKeepsRoad
    <3>4. CASE state' = [state EXCEPT !.errors = TRUE] /\ UNCHANGED <<last, held>>
      <4>1. /\ DOMAIN state' = DOMAIN state
            /\ state'.id = state.id /\ state'.upd = state.upd /\ state'.node = state.node
            /\ state'.seq = state.seq /\ state'.nodes = state.nodes
            /\ state'.edges = state.edges
        BY <1>t, <3>4
      <4> QED
        BY <1>t, <3>1, <3>4, <4>1, OtherFieldsKeepRoad
    <3>5. CASE UNCHANGED <<last, state, held>>
      BY <1>1, <1>t, <3>1, <3>5
    <3> QED
      BY <3>1, <3>3, <3>4, <3>5
  <2> QED
    BY <2>2, <2>3
<1>4. ASSUME NEW o \in PushedOrders, PushOrder(o) PROVE RoadInv'
  BY <1>1, <1>4 DEF PushOrder
<1>5. CASE ReachNode
  BY <1>5, ReachKeepsRoad
<1>6. CASE FinishAction
  <2>1. PICK i \in DOMAIN state.actions : state' = [state EXCEPT !.actions[i].status = "FINISHED"]
    BY <1>6 DEF FinishAction
  <2>2. /\ DOMAIN state' = DOMAIN state
        /\ state'.id = state.id /\ state'.upd = state.upd /\ state'.node = state.node
        /\ state'.seq = state.seq /\ state'.nodes = state.nodes
        /\ state'.edges = state.edges
    BY <1>t, <2>1
  <2>3. UNCHANGED <<inbox, held>>
    BY <1>6 DEF FinishAction
  <2> QED
    BY <1>t, <2>2, <2>3, OtherFieldsKeepRoad
<1>7. CASE UNCHANGED runtimeVars
  BY <1>1, <1>t, <1>7 DEF runtimeVars, orderVars
<1> QED
  BY <1>2, <1>3, <1>4, <1>5, <1>6, <1>7 DEF RuntimeNext, LoopStep

-----------------------------------------------------------------------------
(* Whatever orders and updates come while it drives, the published states  *)
(* are one road: sequence ids without gap or repetition, the base before   *)
(* the horizon, and the last edge leading to the last node.                *)
(* Code: apply_new_order, apply_order_update, validate_order.              *)
THEOREM StatesAreARoad == RuntimeSpec => []StatesLinked
<1>1. RoadInv => StatesLinked
  BY RoadIsLinked DEF RoadInv, StateTyped
<1> QED
  BY <1>1, RoadInit, RoadStep, PTL DEF RuntimeSpec

(* The vehicle still has to drive the base the master has merged for the   *)
(* same orders.                                                            *)
(* Code: apply_order_update of the vehicle against combine_order of the    *)
(* master.                                                                 *)
THEOREM VehicleAndMasterAgree == RuntimeSpec => []BaseAgreesWithMaster
<1>1. ASSUME RoadInv PROVE BaseAgreesWithMaster
  <2> SUFFICES ASSUME held # NoOrder
               PROVE  RemainingBase(held)
                        = {<<n.seq, n.what>> : n \in {k \in S!ToSet(state.nodes) :
                              k.released /\ k.seq >= Front(held.nodes)}}
    BY DEF BaseAgreesWithMaster
  <2> DEFINE N == state.nodes
             r == held.nodes
             A == {n \in S!ToSet(N) : n.released /\ n.seq >= Front(r)}
  <2>1. held.id # NoId
    BY <1>1 DEF RoadInv, HeldMatches
  <2>2. /\ Based(r) /\ Agree(state.node, state.seq, N, r)
        /\ Road(state.node, state.seq, N, state.edges)
        /\ N \in Seq(NodeState) /\ state.seq \in Nat
    BY <1>1, <2>1 DEF RoadInv, HeldMatches, StateTyped
  <2>3. S!ToSet(N) = {N[i] : i \in 1 .. Len(N)}
    BY <2>2, NodeFacts DEF S!ToSet
  <2>4. RemainingBase(held)
          = {<<s, r[s].what>> : s \in {t \in Released(r) : state.node = NoId \/ t > state.seq}}
    BY DEF RemainingBase
  <2> HIDE DEF N, r
  <2>5. ASSUME NEW t \in Released(r), state.node = NoId \/ t > state.seq
        PROVE  \E n \in A : <<n.seq, n.what>> = <<t, r[t].what>>
    <3>1. PICK i \in 1 .. Len(N) : N[i].released /\ N[i].seq = t /\ N[i].what = r[t].what
      BY <2>2, <2>5 DEF Agree
    <3>2. t >= Front(r)
      BY <2>2, BasedFacts DEF Released
    <3> QED
      BY <2>3, <3>1, <3>2
  <2>6. ASSUME NEW n \in A
        PROVE  /\ n.seq \in Released(r) /\ r[n.seq].what = n.what
               /\ state.node = NoId \/ n.seq > state.seq
    <3>1. PICK i \in 1 .. Len(N) : n = N[i]
      BY <2>3
    <3>2. n.seq \in Released(r) /\ r[n.seq].what = n.what
      BY <2>2, <3>1 DEF Agree
    <3>3. state.node # NoId => n.seq > state.seq
      BY <2>2, <3>1, RoadGrows
    <3> QED
      BY <3>2, <3>3
  <2>7. RemainingBase(held) = {<<n.seq, n.what>> : n \in A}
    <3> HIDE DEF A
    <3>1. \A x \in RemainingBase(held) : x \in {<<n.seq, n.what>> : n \in A}
      BY <2>4, <2>5
    <3>2. \A n \in A : <<n.seq, n.what>> \in RemainingBase(held)
      BY <2>4, <2>6
    <3> QED
      BY <3>1, <3>2
  <2> QED
    BY <2>7 DEF N, r
<1> QED
  BY <1>1, RoadInit, RoadStep, PTL DEF RuntimeSpec

(* An update that begins where the master's base ends is stitched on.  The *)
(* one exception: the base is the first node and no node was reached yet.  *)
LEMMA StitchFound ==
  ASSUME NEW st, NEW node, NEW seq \in Nat, NEW N \in Seq(NodeState), NEW E,
         node = st.node, seq = st.seq, N = st.nodes, Road(node, seq, N, E),
         NEW r, Based(r), Agree(node, seq, N, r), ~ (node = NoId /\ Released(r) = {0}),
         NEW t, t = StitchSeq(r)
  PROVE  BaseEnd(st) = <<r[t].what, t>>
<1>1. /\ Front(r) \in Nat /\ t \in Nat /\ Front(r) <= t /\ t \in Released(r)
      /\ \A u \in Released(r) : u \in Nat /\ u <= t
  BY BasedFacts
<1>2. Len(N) \in Nat /\ \A i \in 1 .. Len(N) : N[i].seq \in Nat
  BY NodeFacts
<1>3. PICK k \in 0 .. Len(N) : \A i \in 1 .. Len(N) : N[i].released <=> i <= k
  BY PrefixLength
<1>4. BaseEnd(st) = IF k >= 1 /\ N[k].seq > seq THEN <<N[k].what, N[k].seq>> ELSE <<node, seq>>
  BY <1>3, EndOfBase
<1>5. /\ \A i \in 1 .. Len(N) : N[i].released /\ N[i].seq >= Front(r) =>
                                  N[i].seq \in Released(r) /\ r[N[i].seq].what = N[i].what
      /\ \A u \in Released(r) :
           node = NoId \/ u > seq =>
             \E i \in 1 .. Len(N) : N[i].released /\ N[i].seq = u /\ N[i].what = r[u].what
      /\ node # NoId /\ t <= seq => t = seq /\ r[seq].what = node
  BY DEF Agree
<1>6. /\ \A i, j \in 1 .. Len(N) : i < j => N[i].seq < N[j].seq
      /\ node # NoId => \A i \in 1 .. Len(N) : N[i].seq > seq
      /\ node = NoId => seq = 0
  <2>1. node = NoId => seq = 0
    BY DEF Road
  <2> QED
    BY <2>1, RoadGrows
<1>7. ASSUME NEW i \in 1 .. Len(N), N[i].released
      PROVE  k \in 1 .. Len(N) /\ N[i].seq <= N[k].seq
  <2>1. k \in 1 .. Len(N) /\ (i < k \/ i = k)
    BY <1>2, <1>3, <1>7
  <2> QED
    BY <1>2, <1>6, <2>1
<1>8. ASSUME k >= 1, N[k].seq >= Front(r)
      PROVE  N[k].seq \in Released(r) /\ r[N[k].seq].what = N[k].what /\ N[k].seq <= t
  <2>1. k \in 1 .. Len(N) /\ N[k].released
    BY <1>2, <1>3, <1>8
  <2> QED
    BY <1>1, <1>5, <1>8, <2>1
<1>9. CASE node = NoId \/ t > seq
  <2>1. PICK i \in 1 .. Len(N) : N[i].released /\ N[i].seq = t
    BY <1>1, <1>5, <1>9
  <2>2. k \in 1 .. Len(N) /\ k >= 1 /\ N[k].seq >= t /\ N[k].seq \in Nat
    BY <1>1, <1>2, <1>7, <2>1
  <2>3. N[k].seq >= Front(r)
    BY <1>1, <2>2
  <2>4. N[k].seq = t /\ r[t].what = N[k].what
    <3>1. N[k].seq <= t
      BY <1>8, <2>2, <2>3
    <3>2. N[k].seq = t
      BY <1>1, <2>2, <3>1
    <3> QED
      BY <1>8, <2>2, <2>3, <3>2
  <2>5. N[k].seq > seq
    <3>1. CASE t > seq
      BY <2>4, <3>1
    <3>2. CASE ~ (t > seq)
      <4>1. node = NoId /\ seq = 0 /\ t = 0
        BY <1>1, <1>6, <1>9, <3>2
      <4>2. \A u \in Released(r) : u = 0
        BY ONLY <1>1, <4>1
      <4>3. Released(r) = {0}
        BY ONLY <1>1, <4>1, <4>2
      <4> QED
        BY <4>1, <4>3
    <3> QED
      BY <3>1, <3>2
  <2> QED
    BY <1>4, <2>2, <2>4, <2>5
<1>10. CASE node # NoId /\ t <= seq
  <2>1. t = seq /\ r[seq].what = node
    BY <1>5, <1>10
  <2>2. k = 0
    <3> SUFFICES ASSUME k # 0 PROVE FALSE
      OBVIOUS
    <3>1. k \in 1 .. Len(N) /\ k >= 1
      BY <1>2
    <3>2. N[k].seq > seq /\ N[k].seq \in Nat
      BY <1>2, <1>6, <1>10, <3>1
    <3>3. N[k].seq >= Front(r)
      BY <1>1, <2>1, <3>2
    <3>4. N[k].seq <= t
      BY <1>8, <3>1, <3>3
    <3> QED
      BY <1>1, <2>1, <3>2, <3>4
  <2> QED
    BY <1>4, <2>1, <2>2
<1> QED
  BY <1>1, <1>9, <1>10

(* An update the shared rule is_valid_update allows is accepted, unless    *)
(* the base is the first node alone and no node was reported yet.          *)
(* Code: validate_order against is_valid_update of order_graph_validator.  *)
THEOREM AllowedUpdatesAccepted == RuntimeSpec => ValidUpdatesAccepted
<1> DEFINE allowed ==
             /\ verdict' # verdict /\ verdict'.order.id = state.id
             /\ IsValidUpdate(held, verdict'.order)
             /\ ~ (state.node = NoId /\ Released(held.nodes) = {0})
<1>1. ASSUME RoadInv, [RuntimeNext]_runtimeVars, allowed
      PROVE  verdict'.outcome = "ACCEPTED"
  <2>1. StepStrategies
    BY <1>1 DEF RuntimeNext, LoopStep, runtimeVars, orderVars, BeginSpin, EnterLoop, WaitEnds,
                LeaveLoop, Stop, LeaveStop, PushOrder, ReachNode, FinishAction
  <2>2. ~ (inbox = Nothing \/ Ids(inbox) = last)
    BY <1>1, <2>1 DEF StepStrategies, AcceptanceStep, orderVars
  <2>3. verdict' = [order |-> inbox, outcome |-> Validate(state, inbox)]
    BY <2>1, <2>2 DEF StepStrategies, AcceptanceStep
  <2>4. inbox \in PushedOrders
    BY <1>1, <2>2 DEF RoadInv, StateTyped
  <2> DEFINE o == inbox
             r == held.nodes
             t == StitchSeq(r)
  <2>5. /\ o.id = state.id /\ IsValidUpdate(held, o)
        /\ ~ (state.node = NoId /\ Released(r) = {0})
        /\ o.id # NoId /\ o.upd \in Nat /\ IsValidGraph(o)
    BY <1>1, <2>3, <2>4, PushedIsOrder DEF IsValidUpdate
  <2>6. /\ held.id = o.id /\ held.upd = state.upd /\ state.upd \in Nat
        /\ Based(r) /\ Agree(state.node, state.seq, state.nodes, r)
        /\ Road(state.node, state.seq, state.nodes, state.edges)
        /\ state.nodes \in Seq(NodeState) /\ state.seq \in Nat
    BY <1>1, <2>5 DEF RoadInv, HeldMatches, StateTyped
  <2>7. o.upd > state.upd
    BY <2>5, <2>6 DEF IsValidUpdate
  <2>8. Front(o.nodes) = t /\ o.nodes[Front(o.nodes)] = r[t]
    BY <2>5, <2>6 DEF IsValidUpdate, Based
  <2>9. BaseEnd(state) = <<r[t].what, t>>
    <3> HIDE DEF r
    <3> QED
      BY <2>5, <2>6, StitchFound
  <2>10. Stitches(state, o)
    BY <2>8, <2>9 DEF Stitches
  <2>11. Validate(state, o) = "ACCEPTED"
    BY <2>5, <2>6, <2>7, <2>10 DEF Validate
  <2> QED
    BY <2>3, <2>11
<1>2. RoadInv /\ [RuntimeNext]_runtimeVars => [allowed => verdict'.outcome = "ACCEPTED"]_runtimeVars
  BY <1>1
<1> QED
  BY <1>2, RoadInit, RoadStep, PTL DEF RuntimeSpec, ValidUpdatesAccepted

=============================================================================
