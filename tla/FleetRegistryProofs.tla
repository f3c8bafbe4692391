-------------------------- MODULE FleetRegistryProofs --------------------------
(***************************************************************************)
(* The registry of vehicles and the client's table, for every set of       *)
(* vehicles, layouts and factsheets, every bound on the objects and every  *)
(* broker, with one application thread.                                    *)
(***************************************************************************)
EXTENDS FleetRegistry, TLAPS, FiniteSetTheorems, SequenceTheorems

(* What a thread may still have to do.                                     *)
Plans ==
  {<<>>,
   <<"create", "activate", "subscribe", "install", "drop">>,
   <<"activate", "subscribe", "install", "drop">>,
   <<"subscribe", "install", "drop">>, <<"install", "drop">>, <<"drop">>,
   <<"remove", "drop">>,
   <<"snapshot", "compute", "swap", "drop">>, <<"compute", "swap", "drop">>,
   <<"swap", "drop">>,
   <<"store", "read", "write", "drop">>, <<"read", "write", "drop">>,
   <<"write", "drop">>,
   <<"deactivate", "unsubscribe", "erase", "drop">>,
   <<"unsubscribe", "erase", "drop">>, <<"erase", "drop">>}

Phase(r) == IF r.steps = <<>> THEN "idle" ELSE Head(r.steps)

TeardownSteps == {"deactivate", "unsubscribe", "erase"}
Looking == {"snapshot", "compute", "swap"}

IsThread(r) ==
  r = [steps |-> r.steps, vehicle |-> r.vehicle, held |-> r.held, self |-> r.self,
       seen |-> r.seen, computed |-> r.computed]

Threaded(r) ==
  /\ IsThread(r)
  /\ r.steps \in Plans
  /\ r.held \subseteq Objects
  /\ r.steps = <<>> => r = Idle

OwnObjects(f) ==
  /\ f \in [Vehicles -> Objects \cup {Null}]
  /\ \A v \in Vehicles : f[v] # Null => f[v][1] = v

StateInv(t) ==
  /\ OwnObjects(agvs) /\ OwnObjects(handlers)
  /\ factsheet \in [Objects -> Nat]
  /\ cache = [v \in Vehicles |-> cache[v]]
  /\ app = [a \in {t} |-> app[a]]
  /\ active \subseteq Objects /\ gone \subseteq Objects
  /\ Threaded(app[t]) /\ Threaded(callback)

-----------------------------------------------------------------------------
(* Objects are numbered as they are made, and whoever is referred to,      *)
(* switched on or has a factsheet was made.                                *)

Used(t, i) == agvs[i[1]] = i \/ i \in app[t].held \/ i \in callback.held
Made(t, i) == i \in gone \/ Used(t, i)
Counts(t, v, n) == \A i \in Objects : i[1] = v => (Made(t, i) <=> i[2] <= n)

MadeInv(t) ==
  /\ \A v \in Vehicles : \E n \in 0 .. MaxObjects : Counts(t, v, n)
  /\ \A i \in active : Made(t, i)
  /\ \A i \in Objects : factsheet[i] # 0 => Made(t, i)
  /\ \A v \in Vehicles : agvs[v] \notin gone

(* What the application thread relies on between two of its steps.         *)
AppInv(t) ==
  LET r == app[t]
  IN /\ Phase(r) \in {"create", "remove", "snapshot"} => r.held = {}
     /\ Phase(r) \in {"create", "remove"} => r.vehicle \in Vehicles
     /\ Phase(r) = "create" => \E i \in Objects : i[1] = r.vehicle /\ ~ Made(t, i)
     /\ Phase(r) \in {"activate", "subscribe", "install"} =>
          /\ r.vehicle \in Vehicles /\ r.self \in Objects
          /\ agvs[r.vehicle] = r.self /\ r.held = {r.self}
     /\ Phase(r) \in TeardownSteps =>
          r.self \in r.held /\ r.self \in gone /\ agvs[r.self[1]] = Null
     /\ \A i \in r.held : agvs[i[1]] \in {i, Null}
     /\ r.seen # Null =>
          Phase(r) \in Looking \cup {"drop"} /\ \A i \in r.held : agvs[i[1]] = i
     /\ Phase(r) \in Looking => r.seen # Null
     /\ Phase(r) = "compute" => r.computed = agvs
     /\ Phase(r) = "swap" => r.computed = [v \in Vehicles |-> r.computed[v]]

CallbackInv ==
  LET c == callback
  IN /\ c.steps # <<>> => c.vehicle \in Vehicles /\ c.self \in Objects /\ c.self[1] = c.vehicle
     /\ c.held \subseteq {c.self}
     /\ Phase(c) \in {"store", "read", "write"} => c.held = {c.self}
     /\ Phase(c) \in TeardownSteps => c.self \in c.held /\ c.self \in gone
     /\ Phase(c) = "store" => c.computed \in Nat

(* A vehicle is heard as far as its onboarding has come.                   *)
Onboarding(t, v, heads) == app[t].vehicle = v /\ Phase(app[t]) \in heads

HeardInv(t) ==
  Phase(callback) # "erase" =>
    \A v \in Vehicles : agvs[v] # Null /\ v \notin deaf =>
      /\ ~ Onboarding(t, v, {"activate"}) => agvs[v] \in active
      /\ ~ Onboarding(t, v, {"activate", "subscribe"}) => v \in topics
      /\ ~ Onboarding(t, v, {"activate", "subscribe", "install"}) => handlers[v] = agvs[v]

FleetInv(t) ==
  StateInv(t) /\ MadeInv(t) /\ AppInv(t) /\ CallbackInv /\ HeardInv(t)

-----------------------------------------------------------------------------
(* One step of a thread.                                                   *)

(* The step a plan makes after s.                                          *)
Follows(s, q) ==
  /\ s = "create" => q = "activate"
  /\ s = "activate" => q = "subscribe"
  /\ s = "subscribe" => q = "install"
  /\ s \in {"remove", "install", "swap", "write", "erase"} => q = "drop"
  /\ s = "snapshot" => q = "compute"
  /\ s = "compute" => q = "swap"
  /\ s = "store" => q = "read"
  /\ s = "read" => q = "write"
  /\ s = "deactivate" => q = "unsubscribe"
  /\ s = "unsubscribe" => q = "erase"
  /\ s = "drop" => q = "idle"

(* A thread that goes on without its first step.                           *)
GoesOn(r, q) ==
  /\ IsThread(q) /\ q.steps \in Plans /\ q.steps # <<>>
  /\ q.vehicle = r.vehicle /\ q.held = r.held /\ q.self = r.self
  /\ q.seen = r.seen /\ q.computed = r.computed
  /\ Follows(Phase(r), Phase(q))

LEMMA PlanMoves ==
  ASSUME NEW s \in Plans, s # <<>>
  PROVE  /\ Tail(s) \in Plans
         /\ Follows(Head(s), IF Tail(s) = <<>> THEN "idle" ELSE Head(Tail(s)))
         /\ Head(s) # "drop" => Tail(s) # <<>>
         /\ Head(s) = "drop" => s = <<"drop">> /\ Tail(s) = <<>>
<1>1. CASE s = <<"create", "activate", "subscribe", "install", "drop">>
  BY <1>1 DEF Plans, Follows
<1>2. CASE s = <<"activate", "subscribe", "install", "drop">>
  BY <1>2 DEF Plans, Follows
<1>3. CASE s = <<"subscribe", "install", "drop">>
  BY <1>3 DEF Plans, Follows
<1>4. CASE s = <<"install", "drop">>
  BY <1>4 DEF Plans, Follows
<1>5. CASE s = <<"drop">>
  BY <1>5 DEF Plans, Follows
<1>6. CASE s = <<"remove", "drop">>
  BY <1>6 DEF Plans, Follows
<1>7. CASE s = <<"snapshot", "compute", "swap", "drop">>
  BY <1>7 DEF Plans, Follows
<1>8. CASE s = <<"compute", "swap", "drop">>
  BY <1>8 DEF Plans, Follows
<1>9. CASE s = <<"swap", "drop">>
  BY <1>9 DEF Plans, Follows
<1>10. CASE s = <<"store", "read", "write", "drop">>
  BY <1>10 DEF Plans, Follows
<1>11. CASE s = <<"read", "write", "drop">>
  BY <1>11 DEF Plans, Follows
<1>12. CASE s = <<"write", "drop">>
  BY <1>12 DEF Plans, Follows
<1>13. CASE s = <<"deactivate", "unsubscribe", "erase", "drop">>
  BY <1>13 DEF Plans, Follows
<1>14. CASE s = <<"unsubscribe", "erase", "drop">>
  BY <1>14 DEF Plans, Follows
<1>15. CASE s = <<"erase", "drop">>
  BY <1>15 DEF Plans, Follows
<1> QED
  BY ONLY <1>1, <1>2, <1>3, <1>4, <1>5, <1>6, <1>7, <1>8,
          <1>9, <1>10, <1>11, <1>12, <1>13, <1>14, <1>15, s \in Plans, s # <<>>
     DEF Plans

LEMMA PastGoesOn ==
  ASSUME NEW r, Threaded(r), Phase(r) # "idle", Phase(r) # "drop"
  PROVE  GoesOn(r, Past(r))
<1>1. r.steps \in Plans /\ r.steps # <<>> /\ Head(r.steps) # "drop"
  BY DEF Threaded, Phase
<1>2. /\ Tail(r.steps) \in Plans /\ Tail(r.steps) # <<>>
      /\ Follows(Head(r.steps), Head(Tail(r.steps)))
  BY ONLY <1>1, PlanMoves
<1>3. IsThread(r)
  BY DEF Threaded
<1> DEFINE rest == Tail(r.steps)
           q == [r EXCEPT !.steps = rest]
<1> HIDE DEF rest
<1>4. IsThread(q)
  BY ONLY <1>3 DEF IsThread
<1>5. /\ q.steps = rest /\ q.vehicle = r.vehicle /\ q.held = r.held
      /\ q.self = r.self /\ q.seen = r.seen /\ q.computed = r.computed
  BY ONLY <1>3 DEF IsThread
<1>6. q = Past(r)
  BY DEF Past, rest
<1> HIDE DEF q
<1>7. GoesOn(r, q)
  BY ONLY <1>1, <1>2, <1>4, <1>5 DEF GoesOn, Phase, rest
<1> QED
  BY ONLY <1>6, <1>7

(* What is left of a plan whose last step is the drop.                     *)
LEMMA DropIsLast ==
  ASSUME NEW r, Threaded(r), Phase(r) = "drop"
  PROVE  r.steps = <<"drop">> /\ Tail(r.steps) = <<>>
<1>1. r.steps \in Plans /\ r.steps # <<>> /\ Head(r.steps) = "drop"
  BY DEF Threaded, Phase
<1> QED
  BY ONLY <1>1, PlanMoves

LEMMA TeardownPlan ==
  Teardown \o <<"drop">> = <<"deactivate", "unsubscribe", "erase", "drop">>
<1> DEFINE d == <<"drop">>
           u == Teardown
           p == <<"deactivate", "unsubscribe", "erase", "drop">>
           S == TeardownSteps \cup {"drop"}
<1>1. /\ u \in Seq(S) /\ d \in Seq(S) /\ p \in Seq(S)
      /\ Len(u) = 3 /\ Len(d) = 1 /\ Len(p) = 4
  BY DEF Teardown, TeardownSteps
<1>2. /\ u[1] = "deactivate" /\ u[2] = "unsubscribe" /\ u[3] = "erase" /\ d[1] = "drop"
      /\ p[1] = "deactivate" /\ p[2] = "unsubscribe" /\ p[3] = "erase" /\ p[4] = "drop"
  BY DEF Teardown
<1> HIDE DEF d, u, p, S
<1>3. /\ u \o d \in Seq(S) /\ Len(u \o d) = Len(u) + Len(d)
      /\ \A i \in 1 .. Len(u) + Len(d) :
           (u \o d)[i] = IF i <= Len(u) THEN u[i] ELSE d[i - Len(u)]
  BY ONLY <1>1, ConcatProperties
<1>4. /\ Len(u \o d) = 4
      /\ \A i \in 1 .. 4 : (u \o d)[i] = IF i <= 3 THEN u[i] ELSE d[i - 3]
  BY ONLY <1>1, <1>3
<1>5. \A i \in 1 .. 4 : (u \o d)[i] = p[i]
  BY ONLY <1>4, <1>2
<1>6. u \o d = p
  BY ONLY <1>5, <1>4, <1>3, <1>1, SeqEqual
<1> QED
  BY <1>6 DEF u, d, p

(* What an update of a thread leaves alone.                                *)
Fields(q, steps, vehicle, held, self, seen, computed) ==
  /\ IsThread(q)
  /\ q.steps = steps /\ q.vehicle = vehicle /\ q.held = held /\ q.self = self
  /\ q.seen = seen /\ q.computed = computed

LEMMA Updates ==
  ASSUME NEW r, IsThread(r), NEW s, NEW h, NEW f, NEW n, NEW c, NEW v
  PROVE  /\ Fields([r EXCEPT !.held = h], r.steps, r.vehicle, h, r.self, r.seen, r.computed)
         /\ Fields([r EXCEPT !.self = f, !.held = h],
                   r.steps, r.vehicle, h, f, r.seen, r.computed)
         /\ Fields([r EXCEPT !.held = h, !.computed = c],
                   r.steps, r.vehicle, h, r.self, r.seen, c)
         /\ Fields([r EXCEPT !.computed = c], r.steps, r.vehicle, r.held, r.self, r.seen, c)
         /\ Fields([r EXCEPT !.seen = n], r.steps, r.vehicle, r.held, r.self, n, r.computed)
         /\ Fields([r EXCEPT !.vehicle = v], r.steps, v, r.held, r.self, r.seen, r.computed)
         /\ Fields([r EXCEPT !.self = f], r.steps, r.vehicle, r.held, f, r.seen, r.computed)
         /\ Fields([r EXCEPT !.self = f, !.steps = s],
                   s, r.vehicle, r.held, f, r.seen, r.computed)
<1>1. Fields([r EXCEPT !.held = h], r.steps, r.vehicle, h, r.self, r.seen, r.computed)
  BY DEF Fields, IsThread
<1>2. Fields([r EXCEPT !.self = f, !.held = h],
             r.steps, r.vehicle, h, f, r.seen, r.computed)
  <2> DEFINE q == [r EXCEPT !.self = f, !.held = h]
  <2>1. IsThread(q)
    <3> DEFINE p == [r EXCEPT !.self = f]
    <3>1. IsThread(p)
      BY DEF IsThread
    <3>2. q = [p EXCEPT !.held = h]
      OBVIOUS
    <3> HIDE DEF p, q
    <3> QED
      BY ONLY <3>1, <3>2, SMT DEF IsThread
  <2>2. q.steps = r.steps /\ q.vehicle = r.vehicle /\ q.held = h
    BY DEF IsThread
  <2>3. q.self = f /\ q.seen = r.seen /\ q.computed = r.computed
    BY DEF IsThread
  <2> QED
    BY ONLY <2>1, <2>2, <2>3 DEF Fields
<1>3. Fields([r EXCEPT !.held = h, !.computed = c],
             r.steps, r.vehicle, h, r.self, r.seen, c)
  <2> DEFINE q == [r EXCEPT !.held = h, !.computed = c]
  <2>1. IsThread(q)
    <3> DEFINE p == [r EXCEPT !.held = h]
    <3>1. IsThread(p)
      BY DEF IsThread
    <3>2. q = [p EXCEPT !.computed = c]
      OBVIOUS
    <3> HIDE DEF p, q
    <3> QED
      BY ONLY <3>1, <3>2, SMT DEF IsThread
  <2>2. q.steps = r.steps /\ q.vehicle = r.vehicle /\ q.held = h
    BY DEF IsThread
  <2>3. q.self = r.self /\ q.seen = r.seen /\ q.computed = c
    BY DEF IsThread
  <2> QED
    BY ONLY <2>1, <2>2, <2>3 DEF Fields
<1>4. Fields([r EXCEPT !.computed = c], r.steps, r.vehicle, r.held, r.self, r.seen, c)
  BY DEF Fields, IsThread
<1>5. Fields([r EXCEPT !.seen = n], r.steps, r.vehicle, r.held, r.self, n, r.computed)
  BY DEF Fields, IsThread
<1>6. Fields([r EXCEPT !.self = f, !.steps = s],
             s, r.vehicle, r.held, f, r.seen, r.computed)
  <2> DEFINE q == [r EXCEPT !.self = f, !.steps = s]
  <2>1. IsThread(q)
    <3> DEFINE p == [r EXCEPT !.self = f]
    <3>1. IsThread(p)
      BY DEF IsThread
    <3>2. q = [p EXCEPT !.steps = s]
      OBVIOUS
    <3> HIDE DEF p, q
    <3> QED
      BY ONLY <3>1, <3>2, SMT DEF IsThread
  <2>2. q.steps = s /\ q.vehicle = r.vehicle /\ q.held = r.held
    BY DEF IsThread
  <2>3. q.self = f /\ q.seen = r.seen /\ q.computed = r.computed
    BY DEF IsThread
  <2> QED
    BY ONLY <2>1, <2>2, <2>3 DEF Fields
<1>7. Fields([r EXCEPT !.vehicle = v], r.steps, v, r.held, r.self, r.seen, r.computed)
  BY DEF Fields, IsThread
<1>8. Fields([r EXCEPT !.self = f], r.steps, r.vehicle, r.held, f, r.seen, r.computed)
  BY DEF Fields, IsThread
<1> QED
  BY ONLY <1>1, <1>2, <1>3, <1>4, <1>5, <1>6, <1>7, <1>8

LEMMA IdleThread ==
  /\ Fields(Idle, <<>>, Null, {}, Null, Null, Null)
  /\ Threaded(Idle) /\ Phase(Idle) = "idle"
<1>1. Fields(Idle, <<>>, Null, {}, Null, Null, Null)
  BY DEF Idle, Fields, IsThread
<1>2. Threaded(Idle)
  BY ONLY <1>1 DEF Threaded, Fields, Plans
<1> QED
  BY ONLY <1>1, <1>2 DEF Fields, Phase

-----------------------------------------------------------------------------
(* References.                                                             *)

LEMMA ReferrersAre ==
  ASSUME NEW t, Apps = {t}, StateInv(t), NEW i \in Objects
  PROVE  /\ Referrers(i) # {} <=> Used(t, i)
         /\ t \in Referrers(i) <=> i \in app[t].held
         /\ "callback" \in Referrers(i) <=> i \in callback.held
         /\ i[1] \in Referrers(i) <=> agvs[i[1]] = i
         /\ Referrers(i) \subseteq {t, "callback", i[1]}
<1>1. i[1] \in Vehicles /\ t \notin Vehicles /\ "callback" \notin Vehicles /\ t # "callback"
  BY FleetAssumption DEF Objects
<1>2. \A v \in Vehicles : agvs[v] = i => v = i[1]
  BY FleetAssumption DEF StateInv, OwnObjects, Objects
<1>3. Referrers(i) = {v \in Vehicles : agvs[v] = i} \cup {a \in {t} : i \in app[a].held}
                       \cup (IF i \in callback.held THEN {"callback"} ELSE {})
  BY ONLY Apps = {t} DEF Referrers
<1> QED
  BY ONLY <1>1, <1>2, <1>3 DEF Used

LEMMA ReferrersFinite ==
  ASSUME NEW t, Apps = {t}, StateInv(t), NEW i \in Objects
  PROVE  IsFiniteSet(Referrers(i))
<1>1. IsFiniteSet({t, "callback", i[1]})
  <2>1. IsFiniteSet({t}) /\ IsFiniteSet({"callback"}) /\ IsFiniteSet({i[1]})
    BY ONLY FS_Singleton
  <2>2. IsFiniteSet({t} \cup {"callback"})
    BY ONLY <2>1, FS_Union
  <2>3. IsFiniteSet(({t} \cup {"callback"}) \cup {i[1]})
    BY ONLY <2>1, <2>2, FS_Union
  <2> QED
    BY ONLY <2>3
<1>2. Referrers(i) \in SUBSET {t, "callback", i[1]}
  BY ReferrersAre
<1> QED
  BY ONLY <1>1, <1>2, FS_Subset

(* Only its own thread refers to an orphan, and another one to what a      *)
(* thread holds otherwise.                                                 *)
LEMMA OrphansAre ==
  ASSUME NEW t, Apps = {t}, StateInv(t)
  PROVE  /\ \A i \in app[t].held :
              IF i \in Orphans(app[t]) THEN agvs[i[1]] # i /\ i \notin callback.held
              ELSE agvs[i[1]] = i \/ i \in callback.held
         /\ \A i \in callback.held :
              IF i \in Orphans(callback) THEN agvs[i[1]] # i /\ i \notin app[t].held
              ELSE agvs[i[1]] = i \/ i \in app[t].held
<1>1. app[t].held \subseteq Objects /\ callback.held \subseteq Objects
  BY DEF StateInv, Threaded
<1>2. ASSUME NEW i \in Objects
      PROVE  /\ t \in Referrers(i) <=> i \in app[t].held
             /\ "callback" \in Referrers(i) <=> i \in callback.held
             /\ i[1] \in Referrers(i) <=> agvs[i[1]] = i
             /\ Referrers(i) \subseteq {t, "callback", i[1]}
             /\ Cardinality(Referrers(i)) = 1 <=> \E x : Referrers(i) = {x}
  <2>1. Cardinality(Referrers(i)) = 1 <=> \E x : Referrers(i) = {x}
    BY ONLY FS_Singleton, ReferrersFinite, Apps = {t}, StateInv(t), i \in Objects
  <2> QED
    BY ONLY <2>1, ReferrersAre, Apps = {t}, StateInv(t), i \in Objects
<1>3. \A i \in Objects : t # "callback" /\ i[1] # t /\ i[1] # "callback"
  BY FleetAssumption DEF Objects
<1>4. ASSUME NEW i \in app[t].held
      PROVE  IF i \in Orphans(app[t]) THEN agvs[i[1]] # i /\ i \notin callback.held
             ELSE agvs[i[1]] = i \/ i \in callback.held
  BY ONLY <1>1, <1>2, <1>3, i \in app[t].held DEF Orphans
<1>5. ASSUME NEW i \in callback.held
      PROVE  IF i \in Orphans(callback) THEN agvs[i[1]] # i /\ i \notin app[t].held
             ELSE agvs[i[1]] = i \/ i \in app[t].held
  <2>1. i \in Objects
    BY ONLY <1>1, <1>5
  <2>2. i \in Orphans(callback) <=> \E x : Referrers(i) = {x}
    BY ONLY <2>1, <1>2, <1>5 DEF Orphans
  <2>3. "callback" \in Referrers(i)
    BY ONLY <2>1, <1>2, <1>5
  <2> QED
    BY ONLY <2>1, <2>2, <2>3, <1>2, <1>3
<1> QED
  BY ONLY <1>4, <1>5

-----------------------------------------------------------------------------
(* Numbers.                                                                *)

LEMMA FirstObjects ==
  ASSUME NEW v \in Vehicles, NEW n \in 0 .. MaxObjects
  PROVE  LET S == {i \in Objects : i[1] = v /\ i[2] <= n}
         IN IsFiniteSet(S) /\ Cardinality(S) = n
<1> DEFINE S == {i \in Objects : i[1] = v /\ i[2] <= n}
           f == [k \in 1 .. n |-> <<v, k>>]
<1>1. n \in Nat /\ MaxObjects \in Nat /\ n <= MaxObjects
  BY FleetAssumption
<1>2. IsFiniteSet(1 .. n) /\ Cardinality(1 .. n) = n
  BY ONLY <1>1, FS_Interval
<1>3. f \in [1 .. n -> S]
  BY ONLY <1>1, v \in Vehicles DEF Objects
<1>4. \A a, b \in 1 .. n : f[a] = f[b] => a = b
  OBVIOUS
<1>5. \A i \in S : \E k \in 1 .. n : f[k] = i
  <2> SUFFICES ASSUME NEW i \in S PROVE \E k \in 1 .. n : f[k] = i
    OBVIOUS
  <2>1. i[2] \in 1 .. n /\ i = <<v, i[2]>>
    BY <1>1 DEF Objects
  <2> QED
    BY ONLY <2>1
<1> HIDE DEF S, f
<1>6. f \in Bijection(1 .. n, S)
  <2>1. f \in Injection(1 .. n, S)
    BY ONLY <1>3, <1>4, Zenon DEF Injection, IsInjective
  <2>2. f \in Surjection(1 .. n, S)
    BY ONLY <1>3, <1>5, Zenon DEF Surjection
  <2> QED
    BY ONLY <2>1, <2>2 DEF Bijection
<1>7. ExistsBijection(1 .. n, S)
  BY ONLY <1>6 DEF ExistsBijection
<1>8. IsFiniteSet(S) /\ Cardinality(S) = n
  BY ONLY <1>2, <1>7, FS_Bijection
<1> QED
  BY <1>8 DEF S

(* The next number of a vehicle is the one after the last it has used.     *)
LEMMA NextNumber ==
  ASSUME NEW t, Apps = {t}, StateInv(t), MadeInv(t), NEW v \in Vehicles
  PROVE  \E n \in 0 .. MaxObjects : Counts(t, v, n) /\ NextObject(v) = <<v, n + 1>>
<1>1. PICK n \in 0 .. MaxObjects : Counts(t, v, n)
  BY DEF MadeInv
<1>2. \A i \in Objects : Referrers(i) # {} <=> Used(t, i)
  BY ReferrersAre
<1>3. Created(v) = {i \in Objects : i[1] = v /\ i[2] <= n}
  BY ONLY <1>1, <1>2 DEF Created, Counts, Made
<1>4. Cardinality(Created(v)) = n
  BY <1>3, FirstObjects
<1> QED
  BY ONLY <1>1, <1>4 DEF NextObject

(* While an object is left unmade, the next one is such an object.         *)
LEMMA NextIsUnmade ==
  ASSUME NEW t, Apps = {t}, StateInv(t), MadeInv(t), NEW v \in Vehicles,
         NEW n \in 0 .. MaxObjects, Counts(t, v, n), NextObject(v) = <<v, n + 1>>
  PROVE  /\ NextObject(v) \in Objects => ~ Made(t, NextObject(v))
         /\ (\E i \in Objects : i[1] = v /\ ~ Made(t, i)) => NextObject(v) \in Objects
<1>1. n \in Nat /\ MaxObjects \in Nat /\ n <= MaxObjects
  BY FleetAssumption
<1>2. <<v, n + 1>> \in Objects => ~ Made(t, <<v, n + 1>>)
  <2>1. <<v, n + 1>>[1] = v /\ <<v, n + 1>>[2] = n + 1
    OBVIOUS
  <2>2. ~ (n + 1 <= n)
    BY ONLY <1>1
  <2> QED
    BY ONLY <2>1, <2>2, Counts(t, v, n) DEF Counts
<1>3. ASSUME NEW i \in Objects, i[1] = v, ~ Made(t, i)
      PROVE  <<v, n + 1>> \in Objects
  <2>1. ~ (i[2] <= n) /\ i[2] \in 1 .. MaxObjects
    BY ONLY <1>3, Counts(t, v, n) DEF Counts, Objects
  <2> QED
    BY ONLY <2>1, <1>1, v \in Vehicles DEF Objects
<1> QED
  BY ONLY <1>2, <1>3, NextObject(v) = <<v, n + 1>>

-----------------------------------------------------------------------------
(* The scope of the references: the drop, and ~AGV.                        *)

TornDown(r, q) ==
  /\ Phase(r) \in TeardownSteps
  /\ IsThread(q) /\ q.steps \in Plans /\ q.steps # <<>>
  /\ q.vehicle = r.vehicle /\ q.self = r.self
  /\ q.seen = r.seen /\ q.computed = r.computed
  /\ \/ q.held = r.held /\ Phase(q) \in {"unsubscribe", "erase"}
     \/ q.held = r.held \ {r.self} /\ Phase(q) = "drop"

TornBy(r, q) ==
  /\ active' = active \/ active' = active \ {r.self}
  /\ topics' = topics \/ (topics' = topics \ {r.self[1]} /\ Phase(q) = "erase")
  /\ handlers' = handlers
       \/ (handlers' = [handlers EXCEPT ![r.self[1]] = Null] /\ callback = Idle)
  /\ UNCHANGED <<agvs, gone, deaf, layout>>

LEMMA OverKeeps ==
  ASSUME NEW r, NEW q, GoesOn(r, q)
  PROVE  /\ IsThread(Over(q)) /\ Over(q).steps = q.steps /\ Phase(Over(q)) = Phase(q)
         /\ Over(q).vehicle = r.vehicle /\ Over(q).self = r.self
         /\ Over(q).seen = r.seen /\ Over(q).computed = r.computed
         /\ Over(q).held = r.held \ {r.self}
<1> DEFINE h == q.held \ {q.self}
<1>1. IsThread(q)
  BY DEF GoesOn
<1> HIDE DEF h
<1>2. Fields([q EXCEPT !.held = h], q.steps, q.vehicle, h, q.self, q.seen, q.computed)
  BY ONLY <1>1, Updates
<1>3. Over(q) = [q EXCEPT !.held = h]
  BY DEF Over, h
<1>4. Fields(Over(q), q.steps, q.vehicle, h, q.self, q.seen, q.computed)
  BY ONLY <1>2, <1>3
<1> QED
  BY ONLY <1>4, GoesOn(r, q) DEF Fields, GoesOn, Phase, h

LEMMA TeardownEffect ==
  ASSUME NEW r, NEW q, Threaded(r), TeardownStep(r, q)
  PROVE  TornDown(r, q) /\ TornBy(r, q)
<1>1. CASE Deactivate(r, q)
  <2>1. Phase(r) = "deactivate" /\ q = Past(r)
    BY ONLY <1>1 DEF Deactivate, AtStep, Phase
  <2>2. GoesOn(r, q)
    BY ONLY <2>1, Threaded(r), PastGoesOn
  <2>3. TornDown(r, q)
    BY ONLY <2>1, <2>2 DEF TornDown, GoesOn, Follows, TeardownSteps
  <2> QED
    BY ONLY <2>3, <1>1 DEF Deactivate, TornBy
<1>2. CASE Unsubscribe(r, q)
  <2>1. Phase(r) = "unsubscribe" /\ q = Past(r)
    BY ONLY <1>2 DEF Unsubscribe, AtStep, Phase
  <2>2. GoesOn(r, q)
    BY ONLY <2>1, Threaded(r), PastGoesOn
  <2>3. TornDown(r, q) /\ Phase(q) = "erase"
    BY ONLY <2>1, <2>2 DEF TornDown, GoesOn, Follows, TeardownSteps
  <2> QED
    BY ONLY <2>3, <1>2 DEF Unsubscribe, TornBy
<1>3. CASE UnsubscribeFails(r, q)
  <2> DEFINE p == Past(r)
             s == Past(p)
  <2>1. Phase(r) = "unsubscribe" /\ q = Over(s)
    BY ONLY <1>3 DEF UnsubscribeFails, AtStep, Phase
  <2>2. GoesOn(r, p)
    BY ONLY <2>1, Threaded(r), PastGoesOn
  <2> HIDE DEF p
  <2>3. Threaded(p) /\ Phase(p) = "erase"
    BY ONLY <2>1, <2>2, Threaded(r) DEF Threaded, GoesOn, Follows
  <2>4. GoesOn(p, s)
    BY ONLY <2>3, PastGoesOn
  <2> HIDE DEF s
  <2>6. /\ IsThread(q) /\ q.steps = s.steps /\ Phase(q) = Phase(s)
        /\ q.vehicle = p.vehicle /\ q.self = p.self
        /\ q.seen = p.seen /\ q.computed = p.computed
        /\ q.held = p.held \ {p.self}
    BY ONLY <2>1, <2>4, OverKeeps
  <2>7. TornDown(r, q)
    BY ONLY <2>1, <2>2, <2>3, <2>4, <2>6 DEF TornDown, GoesOn, Follows, TeardownSteps
  <2> QED
    BY ONLY <2>7, <1>3 DEF UnsubscribeFails, TornBy, registry
<1>4. CASE Erase(r, q)
  <2> DEFINE p == Past(r)
  <2>1. Phase(r) = "erase" /\ q = Over(p)
    BY ONLY <1>4 DEF Erase, AtStep, Phase
  <2>2. GoesOn(r, p)
    BY ONLY <2>1, Threaded(r), PastGoesOn
  <2> HIDE DEF p
  <2>3. /\ IsThread(q) /\ q.steps = p.steps /\ Phase(q) = Phase(p)
        /\ q.vehicle = r.vehicle /\ q.self = r.self
        /\ q.seen = r.seen /\ q.computed = r.computed
        /\ q.held = r.held \ {r.self}
    BY ONLY <2>1, <2>2, OverKeeps
  <2>4. TornDown(r, q)
    BY ONLY <2>1, <2>2, <2>3 DEF TornDown, GoesOn, Follows, TeardownSteps
  <2> QED
    BY ONLY <2>4, <1>4 DEF Erase, TornBy, HandlersFree
<1> QED
  BY ONLY <1>1, <1>2, <1>3, <1>4, TeardownStep(r, q) DEF TeardownStep

(* The drop is the end of the call, or the beginning of ~AGV.              *)
LEMMA DropEffect ==
  ASSUME NEW r, Threaded(r), Phase(r) = "drop"
  PROVE  \/ Orphans(r) = {} /\ Dropped(r) = Idle /\ Gone(r) = gone
         \/ \E o \in Orphans(r) :
              /\ Fields(Dropped(r), Dropped(r).steps,
                        r.vehicle, r.held, o, r.seen, r.computed)
              /\ Dropped(r).steps \in Plans /\ Phase(Dropped(r)) = "deactivate"
              /\ Gone(r) = gone \cup {o}
<1>1. r.steps = <<"drop">> /\ Tail(r.steps) = <<>> /\ IsThread(r)
  BY DropIsLast DEF Threaded
<1>2. CASE Orphans(r) = {}
  <2> DEFINE q == [Past(r) EXCEPT !.held = {}]
  <2>1. q.steps = <<>>
    BY ONLY <1>1 DEF Past, IsThread
  <2>2. Done(q) = Idle
    BY ONLY <2>1 DEF Done
  <2>3. Dropped(r) = Idle
    BY ONLY <1>2, <2>2 DEF Dropped
  <2> QED
    BY ONLY <1>2, <2>3 DEF Gone
<1>3. CASE Orphans(r) # {}
  <2> DEFINE o == CHOOSE i \in Orphans(r) : TRUE
             steps == Teardown \o r.steps
             q == [r EXCEPT !.self = o, !.steps = steps]
  <2>1. o \in Orphans(r)
    BY <1>3
  <2>2. Dropped(r) = q
    BY <1>3, Zenon DEF Dropped
  <2> HIDE DEF o, steps
  <2>3. Fields(q, steps, r.vehicle, r.held, o, r.seen, r.computed)
    BY ONLY <1>1, Updates
  <2> HIDE DEF q
  <2>4. Dropped(r).self = o
    BY ONLY <2>2, <2>3 DEF Fields
  <2>5. Gone(r) = gone \cup {o}
    BY ONLY <2>1, <2>4 DEF Gone
  <2>6. steps \in Plans /\ steps # <<>> /\ Head(steps) = "deactivate"
    <3>1. steps = <<"deactivate", "unsubscribe", "erase", "drop">>
      BY ONLY <1>1, TeardownPlan DEF steps
    <3> QED
      BY ONLY <3>1 DEF Plans
  <2>7. /\ Dropped(r).steps \in Plans /\ Phase(Dropped(r)) = "deactivate"
        /\ Fields(Dropped(r), Dropped(r).steps,
                  r.vehicle, r.held, o, r.seen, r.computed)
    BY ONLY <2>2, <2>3, <2>6 DEF Fields, Phase
  <2> QED
    BY ONLY <2>1, <2>5, <2>7
<1> QED
  BY ONLY <1>2, <1>3

-----------------------------------------------------------------------------
(* What a step that leaves an invariant's state alone preserves.           *)

SameMade(t) == \A i \in Objects : Made(t, i)' <=> Made(t, i)

LEMMA SteppedIs ==
  ASSUME NEW t, StateInv(t), NEW q, Steps(t, q)
  PROVE  app'[t] = q /\ app' = [a \in {t} |-> app'[a]]
<1>1. app = [a \in {t} |-> app[a]]
  BY DEF StateInv
<1> QED
  BY ONLY <1>1, Steps(t, q) DEF Steps

LEMMA MadeKept ==
  ASSUME NEW t, MadeInv(t), SameMade(t), active' \subseteq Objects,
         \A i \in active' : i \in active \/ Made(t, i)',
         \A i \in Objects : factsheet'[i] # 0 => factsheet[i] # 0 \/ Made(t, i)',
         \A v \in Vehicles : agvs'[v] \notin gone'
  PROVE  MadeInv(t)'
<1>1. \A v \in Vehicles, n \in 0 .. MaxObjects : Counts(t, v, n) => Counts(t, v, n)'
  BY ONLY SameMade(t) DEF SameMade, Counts
<1>2. \A v \in Vehicles : \E n \in 0 .. MaxObjects : Counts(t, v, n)'
  BY ONLY <1>1, MadeInv(t) DEF MadeInv
<1>3. \A i \in active' : Made(t, i)'
  BY DEF MadeInv, SameMade
<1>4. \A i \in Objects : factsheet'[i] # 0 => Made(t, i)'
  BY DEF MadeInv, SameMade
<1> QED
  BY ONLY <1>2, <1>3, <1>4, \A v \in Vehicles : agvs'[v] \notin gone' DEF MadeInv

LEMMA AppKept ==
  ASSUME NEW t, StateInv(t), AppInv(t), SameMade(t), app' = app, agvs' = agvs,
         gone \subseteq gone'
  PROVE  AppInv(t)'
<1>1. (\E i \in Objects : i[1] = app[t].vehicle /\ ~ Made(t, i)) =>
        (\E i \in Objects : i[1] = app[t].vehicle /\ ~ Made(t, i)')
  BY ONLY SameMade(t) DEF SameMade
<1>2. app'[t] = app[t]
  BY ONLY app' = app
<1> QED
  BY ONLY <1>1, <1>2, AppInv(t), agvs' = agvs, gone \subseteq gone' DEF AppInv

LEMMA CallbackKept ==
  ASSUME CallbackInv, callback' = callback, gone \subseteq gone'
  PROVE  CallbackInv'
BY DEF CallbackInv

(* A thread is onboarding the same vehicle, or none.                       *)
SameOnboarding(r, q) ==
  \/ q = r
  \/ /\ Phase(r) \notin {"activate", "subscribe", "install"}
     /\ Phase(q) \notin {"activate", "subscribe", "install"}

LEMMA HeardKept ==
  ASSUME NEW t, HeardInv(t), agvs' = agvs, deaf' = deaf,
         SameOnboarding(app[t], app'[t]),
         Phase(callback) = "erase" => Phase(callback') = "erase",
         \A v \in Vehicles : agvs[v] # Null =>
           /\ agvs[v] \in active => agvs[v] \in active'
           /\ v \in topics => v \in topics' \/ Phase(callback') = "erase"
           /\ handlers'[v] = handlers[v]
  PROVE  HeardInv(t)'
<1> DEFINE O1(v) == Onboarding(t, v, {"activate"})
           O2(v) == Onboarding(t, v, {"activate", "subscribe"})
           O3(v) == Onboarding(t, v, {"activate", "subscribe", "install"})
<1>1. \A v \in Vehicles : (O1(v)' <=> O1(v)) /\ (O2(v)' <=> O2(v)) /\ (O3(v)' <=> O3(v))
  BY ONLY SameOnboarding(app[t], app'[t]) DEF SameOnboarding, Onboarding
<1>2. Phase(callback') # "erase" => \A v \in Vehicles : agvs[v] # Null /\ v \notin deaf =>
         (~ O1(v) => agvs[v] \in active) /\ (~ O2(v) => v \in topics)
           /\ (~ O3(v) => handlers[v] = agvs[v])
  BY DEF HeardInv
<1> HIDE DEF O1, O2, O3
<1>3. Phase(callback') # "erase" => \A v \in Vehicles : agvs'[v] # Null /\ v \notin deaf' =>
         (~ O1(v)' => agvs'[v] \in active') /\ (~ O2(v)' => v \in topics')
           /\ (~ O3(v)' => handlers'[v] = agvs'[v])
  BY <1>1, <1>2
<1> QED
  BY <1>3 DEF HeardInv, O1, O2, O3

-----------------------------------------------------------------------------
(* Calls.                                                                  *)

LEMMA CallThreads ==
  ASSUME NEW steps \in Plans, NEW v, NEW n
  PROVE  /\ Fields([Idle EXCEPT !.steps = steps, !.vehicle = v],
                   steps, v, {}, Null, Null, Null)
         /\ Fields([Idle EXCEPT !.steps = steps, !.seen = n],
                   steps, Null, {}, Null, n, Null)
<1>1. Fields([Idle EXCEPT !.steps = steps, !.vehicle = v], steps, v, {}, Null, Null, Null)
  <2> DEFINE p == [Idle EXCEPT !.steps = steps]
             q == [Idle EXCEPT !.steps = steps, !.vehicle = v]
  <2>1. Fields(p, steps, Null, {}, Null, Null, Null) /\ q = [p EXCEPT !.vehicle = v]
    BY DEF Fields, IsThread, Idle
  <2> HIDE DEF p, q
  <2>2. IsThread(p)
    BY ONLY <2>1 DEF Fields
  <2>3. Fields(q, p.steps, v, p.held, p.self, p.seen, p.computed)
    BY ONLY <2>1, <2>2, Updates
  <2>4. Fields(q, steps, v, {}, Null, Null, Null)
    BY ONLY <2>1, <2>3 DEF Fields
  <2> QED
    BY ONLY <2>4 DEF q
<1>2. Fields([Idle EXCEPT !.steps = steps, !.seen = n], steps, Null, {}, Null, n, Null)
  <2> DEFINE p == [Idle EXCEPT !.steps = steps]
             q == [Idle EXCEPT !.steps = steps, !.seen = n]
  <2>1. Fields(p, steps, Null, {}, Null, Null, Null) /\ q = [p EXCEPT !.seen = n]
    BY DEF Fields, IsThread, Idle
  <2> HIDE DEF p, q
  <2>2. IsThread(p)
    BY ONLY <2>1 DEF Fields
  <2>3. Fields(q, p.steps, p.vehicle, p.held, p.self, n, p.computed)
    BY ONLY <2>1, <2>2, Updates
  <2>4. Fields(q, steps, Null, {}, Null, n, Null)
    BY ONLY <2>1, <2>3 DEF Fields
  <2> QED
    BY ONLY <2>4 DEF q
<1> QED
  BY ONLY <1>1, <1>2

LEMMA SameHeld ==
  ASSUME NEW t, agvs' = agvs, gone' = gone, callback' = callback,
         app'[t].held = app[t].held
  PROVE  SameMade(t)
BY DEF SameMade, Made, Used

(* A step of the application thread that touches nothing else.             *)
LEMMA AppAlone ==
  ASSUME NEW t, FleetInv(t), UNCHANGED <<registry, layout, callback>>,
         NEW q, Steps(t, q), Threaded(q), SameMade(t), AppInv(t)',
         SameOnboarding(app[t], q)
  PROVE  FleetInv(t)'
<1>1. app'[t] = q /\ app' = [a \in {t} |-> app'[a]]
  BY SteppedIs DEF FleetInv
<1>2. /\ agvs' = agvs /\ topics' = topics /\ handlers' = handlers /\ active' = active
      /\ gone' = gone /\ deaf' = deaf /\ callback' = callback
      /\ factsheet' = factsheet /\ active_graph' = active_graph /\ cache' = cache
  BY DEF registry, layout
<1>3. StateInv(t)'
  BY ONLY <1>1, <1>2, Threaded(q), FleetInv(t) DEF FleetInv, StateInv
<1>4. MadeInv(t)'
  <2>1. MadeInv(t) /\ active \subseteq Objects
    BY DEF FleetInv, StateInv
  <2>2. \A v \in Vehicles : agvs[v] \notin gone
    BY ONLY <2>1 DEF MadeInv
  <2> QED
    BY ONLY <1>2, <2>1, <2>2, SameMade(t), MadeKept
<1>5. CallbackInv'
  BY ONLY <1>2, FleetInv(t), CallbackKept DEF FleetInv
<1>6. HeardInv(t)'
  BY ONLY <1>1, <1>2, FleetInv(t), SameOnboarding(app[t], q), HeardKept DEF FleetInv
<1> QED
  BY ONLY <1>3, <1>4, <1>5, <1>6, AppInv(t)' DEF FleetInv

LEMMA OnboardKeeps ==
  ASSUME NEW t, Apps = {t}, FleetInv(t), NEW v \in Vehicles, OnboardAgv(t, v)
  PROVE  FleetInv(t)'
<1> DEFINE steps == <<"create", "activate", "subscribe", "install", "drop">>
           q == [Idle EXCEPT !.steps = steps, !.vehicle = v]
<1>1. /\ app[t] = Idle /\ Steps(t, q) /\ NextObject(v) \in Objects
      /\ UNCHANGED <<registry, layout, callback>>
  BY DEF OnboardAgv, Call, Steps
<1>2. steps \in Plans /\ steps # <<>> /\ Head(steps) = "create"
  BY DEF Plans
<1> HIDE DEF steps
<1>3. Fields(q, steps, v, {}, Null, Null, Null)
  BY ONLY <1>2, CallThreads
<1> HIDE DEF q
<1>4. Threaded(q) /\ Phase(q) = "create"
  BY ONLY <1>2, <1>3 DEF Fields, Threaded, Phase
<1>5. Fields(app[t], <<>>, Null, {}, Null, Null, Null) /\ Phase(app[t]) = "idle"
  BY ONLY <1>1, IdleThread
<1>6. app'[t] = q
  BY <1>1, SteppedIs DEF FleetInv
<1>7. SameMade(t)
  BY ONLY <1>1, <1>3, <1>5, <1>6, SameHeld DEF registry, Fields
<1>8. \E i \in Objects : i[1] = v /\ ~ Made(t, i)
  <2>1. \E n \in 0 .. MaxObjects : Counts(t, v, n) /\ NextObject(v) = <<v, n + 1>>
    BY ONLY FleetInv(t), Apps = {t}, v \in Vehicles, NextNumber DEF FleetInv
  <2>2. ~ Made(t, NextObject(v)) /\ NextObject(v)[1] = v
    BY ONLY <2>1, <1>1, FleetInv(t), Apps = {t}, v \in Vehicles, NextIsUnmade DEF FleetInv
  <2> QED
    BY ONLY <2>2, <1>1
<1>9. AppInv(t)'
  BY ONLY <1>3, <1>4, <1>6, <1>7, <1>8
     DEF AppInv, Fields, SameMade, TeardownSteps, Looking
<1>10. SameOnboarding(app[t], q)
  BY ONLY <1>4, <1>5 DEF SameOnboarding
<1> QED
  BY ONLY <1>1, <1>4, <1>7, <1>9, <1>10, FleetInv(t), AppAlone

LEMMA OffboardKeeps ==
  ASSUME NEW t, Apps = {t}, FleetInv(t), NEW v \in Vehicles, OffboardAgv(t, v)
  PROVE  FleetInv(t)'
<1> DEFINE steps == <<"remove", "drop">>
           q == [Idle EXCEPT !.steps = steps, !.vehicle = v]
<1>1. app[t] = Idle /\ Steps(t, q) /\ UNCHANGED <<registry, layout, callback>>
  BY DEF OffboardAgv, Call, Steps
<1>2. steps \in Plans /\ steps # <<>> /\ Head(steps) = "remove"
  BY DEF Plans
<1> HIDE DEF steps
<1>3. Fields(q, steps, v, {}, Null, Null, Null)
  BY ONLY <1>2, CallThreads
<1> HIDE DEF q
<1>4. Threaded(q) /\ Phase(q) = "remove"
  BY ONLY <1>2, <1>3 DEF Fields, Threaded, Phase
<1>5. Fields(app[t], <<>>, Null, {}, Null, Null, Null) /\ Phase(app[t]) = "idle"
  BY ONLY <1>1, IdleThread
<1>6. app'[t] = q
  BY <1>1, SteppedIs DEF FleetInv
<1>7. SameMade(t)
  BY ONLY <1>1, <1>3, <1>5, <1>6, SameHeld DEF registry, Fields
<1>8. AppInv(t)'
  BY ONLY <1>3, <1>4, <1>6, v \in Vehicles DEF AppInv, Fields, TeardownSteps, Looking
<1>9. SameOnboarding(app[t], q)
  BY ONLY <1>4, <1>5 DEF SameOnboarding
<1> QED
  BY ONLY <1>1, <1>4, <1>7, <1>8, <1>9, FleetInv(t), AppAlone

-----------------------------------------------------------------------------
(* onboard_agv.                                                            *)

(* A step of the application thread on the registry.                       *)
LEMMA AppMoves ==
  ASSUME NEW t, FleetInv(t), UNCHANGED <<layout, callback>>,
         NEW q, Steps(t, q), Threaded(q),
         OwnObjects(agvs)', OwnObjects(handlers)', active' \subseteq Objects,
         gone \subseteq gone', gone' \subseteq Objects,
         MadeInv(t)', AppInv(t)', HeardInv(t)'
  PROVE  FleetInv(t)'
<1>1. app'[t] = q /\ app' = [a \in {t} |-> app'[a]]
  BY SteppedIs DEF FleetInv
<1>2. /\ callback' = callback
      /\ factsheet' = factsheet /\ active_graph' = active_graph /\ cache' = cache
  BY DEF layout
<1>3. StateInv(t)'
  <2>1. /\ factsheet \in [Objects -> Nat] /\ cache = [v \in Vehicles |-> cache[v]]
        /\ Threaded(callback)
    BY DEF FleetInv, StateInv
  <2> QED
    BY ONLY <1>1, <1>2, <2>1, Threaded(q), OwnObjects(agvs)', OwnObjects(handlers)',
            active' \subseteq Objects, gone' \subseteq Objects DEF StateInv
<1>4. CallbackInv'
  BY ONLY <1>2, FleetInv(t), gone \subseteq gone', CallbackKept DEF FleetInv
<1> QED
  BY ONLY <1>3, <1>4, MadeInv(t)', AppInv(t)', HeardInv(t)' DEF FleetInv

LEMMA IdleApp ==
  ASSUME NEW t, app'[t] = Idle
  PROVE  AppInv(t)'
BY IdleThread DEF AppInv, Fields, TeardownSteps, Looking

(* A call that returns at once: it held nothing.                           *)
LEMMA ReturnKeeps ==
  ASSUME NEW t, FleetInv(t), UNCHANGED <<registry, layout, callback>>, Steps(t, Idle),
         app[t].held = {}, Phase(app[t]) \notin {"activate", "subscribe", "install"}
  PROVE  FleetInv(t)'
<1>1. app'[t] = Idle
  BY SteppedIs DEF FleetInv
<1>2. SameMade(t)
  BY ONLY <1>1, IdleThread, app[t].held = {}, UNCHANGED <<registry, layout, callback>>,
          SameHeld DEF registry, Fields
<1>3. AppInv(t)'
  BY ONLY <1>1, IdleApp
<1>4. SameOnboarding(app[t], Idle)
  BY ONLY IdleThread, Phase(app[t]) \notin {"activate", "subscribe", "install"}
     DEF SameOnboarding
<1> QED
  BY ONLY <1>2, <1>3, <1>4, IdleThread, AppAlone, FleetInv(t), Steps(t, Idle),
          UNCHANGED <<registry, layout, callback>>

(* An onboarding that goes on holds the object it has made.                *)
LEMMA OnboardingIs ==
  ASSUME NEW t, FleetInv(t), Phase(app[t]) \in {"activate", "subscribe", "install"}
  PROVE  /\ app[t].vehicle \in Vehicles /\ app[t].self \in Objects
         /\ agvs[app[t].vehicle] = app[t].self /\ app[t].self[1] = app[t].vehicle
         /\ app[t].held = {app[t].self} /\ app[t].seen = Null
         /\ Threaded(app[t]) /\ app[t].steps # <<>>
<1> DEFINE r == app[t]
<1>1. /\ r.vehicle \in Vehicles /\ r.self \in Objects /\ agvs[r.vehicle] = r.self
      /\ r.held = {r.self} /\ r.seen = Null
  BY DEF FleetInv, AppInv, Looking
<1>2. Threaded(r) /\ OwnObjects(agvs)
  BY DEF FleetInv, StateInv
<1>3. r.self[1] = r.vehicle
  BY ONLY <1>1, <1>2, FleetAssumption DEF OwnObjects
<1>4. r.steps # <<>>
  BY DEF Phase
<1> QED
  BY ONLY <1>1, <1>2, <1>3, <1>4

(* It keeps what it relies on.                                             *)
LEMMA OnboardingKeeps ==
  ASSUME NEW t, FleetInv(t), Phase(app[t]) \in {"activate", "subscribe", "install"},
         NEW q, Steps(t, q), q.vehicle = app[t].vehicle, q.self = app[t].self,
         q.held = app[t].held, q.seen = app[t].seen,
         Phase(q) \in {"subscribe", "install", "drop"},
         agvs' = agvs, gone' = gone, callback' = callback
  PROVE  app'[t] = q /\ SameMade(t) /\ AppInv(t)'
<1>1. app'[t] = q
  BY SteppedIs DEF FleetInv
<1>2. /\ app[t].vehicle \in Vehicles /\ app[t].self \in Objects
      /\ agvs[app[t].vehicle] = app[t].self /\ app[t].self[1] = app[t].vehicle
      /\ app[t].held = {app[t].self} /\ app[t].seen = Null
  BY OnboardingIs
<1>3. SameMade(t)
  BY ONLY <1>1, q.held = app[t].held, agvs' = agvs, gone' = gone, callback' = callback,
          SameHeld
<1>4. AppInv(t)'
  BY ONLY <1>1, <1>2, q.vehicle = app[t].vehicle, q.self = app[t].self,
          q.held = app[t].held, q.seen = app[t].seen, agvs' = agvs,
          Phase(q) \in {"subscribe", "install", "drop"}
     DEF AppInv, TeardownSteps, Looking
<1> QED
  BY ONLY <1>1, <1>3, <1>4

LEMMA ActivateKeeps ==
  ASSUME NEW t, Apps = {t}, FleetInv(t), Activate(t)
  PROVE  FleetInv(t)'
<1> DEFINE r == app[t]
           q == Past(app[t])
<1>1. /\ Phase(r) = "activate" /\ Steps(t, q) /\ active' = active \cup {r.self}
      /\ agvs' = agvs /\ topics' = topics /\ handlers' = handlers /\ gone' = gone
      /\ deaf' = deaf /\ callback' = callback /\ UNCHANGED <<layout, callback>>
  BY DEF Activate, AtStep, Phase
<1>2. /\ r.vehicle \in Vehicles /\ r.self \in Objects
      /\ agvs[r.vehicle] = r.self /\ r.self[1] = r.vehicle
      /\ r.held = {r.self} /\ r.seen = Null /\ Threaded(r) /\ r.steps # <<>>
  BY ONLY <1>1, FleetInv(t), OnboardingIs
<1>3. GoesOn(r, q)
  BY ONLY <1>1, <1>2, PastGoesOn
<1> HIDE DEF q
<1>4. Phase(q) = "subscribe" /\ Threaded(q)
  BY ONLY <1>1, <1>2, <1>3 DEF GoesOn, Follows, Threaded
<1>5. app'[t] = q /\ SameMade(t) /\ AppInv(t)'
  BY ONLY <1>1, <1>3, <1>4, FleetInv(t), OnboardingKeeps DEF GoesOn
<1>6. OwnObjects(agvs) /\ OwnObjects(handlers) /\ active' \subseteq Objects /\ gone \subseteq Objects
  BY <1>1, <1>2 DEF FleetInv, StateInv
<1>7. MadeInv(t)'
  <2>1. Made(t, r.self)
    BY ONLY <1>2 DEF Made, Used
  <2>2. MadeInv(t) /\ \A v \in Vehicles : agvs[v] \notin gone
    BY DEF FleetInv, MadeInv
  <2>3. factsheet' = factsheet
    BY <1>1 DEF layout
  <2>4. \A i \in active' : i \in active \/ Made(t, i)'
    BY ONLY <1>1, <1>2, <1>5, <2>1 DEF SameMade
  <2> QED
    BY ONLY <1>1, <1>5, <1>6, <2>2, <2>3, <2>4, MadeKept
<1>8. HeardInv(t)'
  BY ONLY <1>1, <1>2, <1>3, <1>4, <1>5, FleetInv(t)
     DEF FleetInv, HeardInv, Onboarding, GoesOn
<1> QED
  BY ONLY <1>1, <1>4, <1>5, <1>6, <1>7, <1>8, FleetInv(t), AppMoves DEF OwnObjects

LEMMA SubscribeKeeps ==
  ASSUME NEW t, Apps = {t}, FleetInv(t), Subscribe(t)
  PROVE  FleetInv(t)'
<1> DEFINE r == app[t]
           q == Past(app[t])
<1>1. /\ Phase(r) = "subscribe" /\ Steps(t, q) /\ topics' = topics \cup {r.vehicle}
      /\ agvs' = agvs /\ active' = active /\ handlers' = handlers /\ gone' = gone
      /\ deaf' = deaf /\ callback' = callback /\ UNCHANGED <<layout, callback>>
  BY DEF Subscribe, AtStep, Phase
<1>2. /\ r.vehicle \in Vehicles /\ r.self \in Objects
      /\ agvs[r.vehicle] = r.self /\ r.self[1] = r.vehicle
      /\ r.held = {r.self} /\ r.seen = Null /\ Threaded(r) /\ r.steps # <<>>
  BY ONLY <1>1, FleetInv(t), OnboardingIs
<1>3. GoesOn(r, q)
  BY ONLY <1>1, <1>2, PastGoesOn
<1> HIDE DEF q
<1>4. Phase(q) = "install" /\ Threaded(q)
  BY ONLY <1>1, <1>2, <1>3 DEF GoesOn, Follows, Threaded
<1>5. app'[t] = q /\ SameMade(t) /\ AppInv(t)'
  BY ONLY <1>1, <1>3, <1>4, FleetInv(t), OnboardingKeeps DEF GoesOn
<1>6. OwnObjects(agvs) /\ OwnObjects(handlers) /\ active \subseteq Objects /\ gone \subseteq Objects
  BY DEF FleetInv, StateInv
<1>7. MadeInv(t)'
  <2>1. MadeInv(t) /\ \A v \in Vehicles : agvs[v] \notin gone
    BY DEF FleetInv, MadeInv
  <2>2. factsheet' = factsheet
    BY <1>1 DEF layout
  <2> QED
    BY ONLY <1>1, <1>5, <1>6, <2>1, <2>2, MadeKept
<1>8. HeardInv(t)'
  BY ONLY <1>1, <1>2, <1>3, <1>4, <1>5, FleetInv(t)
     DEF FleetInv, HeardInv, Onboarding, GoesOn
<1> QED
  BY ONLY <1>1, <1>4, <1>5, <1>6, <1>7, <1>8, FleetInv(t), AppMoves DEF OwnObjects

LEMMA SubscribeFailsKeeps ==
  ASSUME NEW t, Apps = {t}, FleetInv(t), SubscribeFails(t)
  PROVE  FleetInv(t)'
<1> DEFINE r == app[t]
           p == Past(app[t])
           q == Past(p)
<1>1. /\ Phase(r) = "subscribe" /\ Steps(t, q) /\ deaf' = deaf \cup {r.vehicle}
      /\ agvs' = agvs /\ active' = active /\ handlers' = handlers /\ gone' = gone
      /\ topics' = topics /\ callback' = callback /\ UNCHANGED <<layout, callback>>
  BY DEF SubscribeFails, AtStep, Phase
<1>2. /\ r.vehicle \in Vehicles /\ r.self \in Objects
      /\ agvs[r.vehicle] = r.self /\ r.self[1] = r.vehicle
      /\ r.held = {r.self} /\ r.seen = Null /\ Threaded(r) /\ r.steps # <<>>
  BY ONLY <1>1, FleetInv(t), OnboardingIs
<1>3. GoesOn(r, p)
  BY ONLY <1>1, <1>2, PastGoesOn
<1> HIDE DEF p
<1>4. Phase(p) = "install" /\ Threaded(p)
  BY ONLY <1>1, <1>2, <1>3 DEF GoesOn, Follows, Threaded
<1>5. GoesOn(p, q)
  BY ONLY <1>4, PastGoesOn
<1> HIDE DEF q
<1>6. Phase(q) = "drop" /\ Threaded(q)
  BY ONLY <1>4, <1>5 DEF GoesOn, Follows, Threaded
<1>7. /\ q.vehicle = r.vehicle /\ q.self = r.self /\ q.held = r.held /\ q.seen = r.seen
  BY ONLY <1>3, <1>5 DEF GoesOn
<1>8. app'[t] = q /\ SameMade(t) /\ AppInv(t)'
  BY ONLY <1>1, <1>6, <1>7, FleetInv(t), OnboardingKeeps
<1>9. OwnObjects(agvs) /\ OwnObjects(handlers) /\ active \subseteq Objects /\ gone \subseteq Objects
  BY DEF FleetInv, StateInv
<1>10. MadeInv(t)'
  <2>1. MadeInv(t) /\ \A v \in Vehicles : agvs[v] \notin gone
    BY DEF FleetInv, MadeInv
  <2>2. factsheet' = factsheet
    BY <1>1 DEF layout
  <2> QED
    BY ONLY <1>1, <1>8, <1>9, <2>1, <2>2, MadeKept
<1>11. HeardInv(t)'
  BY ONLY <1>1, <1>2, <1>6, <1>7, <1>8, FleetInv(t) DEF FleetInv, HeardInv, Onboarding
<1> QED
  BY ONLY <1>1, <1>6, <1>8, <1>9, <1>10, <1>11, FleetInv(t), AppMoves DEF OwnObjects

LEMMA InstallKeeps ==
  ASSUME NEW t, Apps = {t}, FleetInv(t), Install(t)
  PROVE  FleetInv(t)'
<1> DEFINE r == app[t]
           q == Past(app[t])
<1>1. /\ Phase(r) = "install" /\ Steps(t, q)
      /\ handlers' = [handlers EXCEPT ![r.vehicle] = r.self]
      /\ agvs' = agvs /\ active' = active /\ topics' = topics /\ gone' = gone
      /\ deaf' = deaf /\ callback' = callback /\ UNCHANGED <<layout, callback>>
  BY DEF Install, AtStep, Phase
<1>2. /\ r.vehicle \in Vehicles /\ r.self \in Objects
      /\ agvs[r.vehicle] = r.self /\ r.self[1] = r.vehicle
      /\ r.held = {r.self} /\ r.seen = Null /\ Threaded(r) /\ r.steps # <<>>
  BY ONLY <1>1, FleetInv(t), OnboardingIs
<1>3. GoesOn(r, q)
  BY ONLY <1>1, <1>2, PastGoesOn
<1> HIDE DEF q
<1>4. Phase(q) = "drop" /\ Threaded(q)
  BY ONLY <1>1, <1>2, <1>3 DEF GoesOn, Follows, Threaded
<1>5. app'[t] = q /\ SameMade(t) /\ AppInv(t)'
  BY ONLY <1>1, <1>3, <1>4, FleetInv(t), OnboardingKeeps DEF GoesOn
<1>6. OwnObjects(agvs) /\ OwnObjects(handlers) /\ active \subseteq Objects /\ gone \subseteq Objects
  BY DEF FleetInv, StateInv
<1>7. OwnObjects(handlers')
  BY ONLY <1>1, <1>2, <1>6 DEF OwnObjects
<1>8. MadeInv(t)'
  <2>1. MadeInv(t) /\ \A v \in Vehicles : agvs[v] \notin gone
    BY DEF FleetInv, MadeInv
  <2>2. factsheet' = factsheet
    BY <1>1 DEF layout
  <2> QED
    BY ONLY <1>1, <1>5, <1>6, <2>1, <2>2, MadeKept
<1>9. HeardInv(t)'
  <2>1. /\ handlers'[r.vehicle] = r.self
        /\ \A v \in Vehicles : v # r.vehicle => handlers'[v] = handlers[v]
    BY ONLY <1>1, <1>2, <1>6 DEF OwnObjects
  <2> QED
    BY ONLY <2>1, <1>1, <1>2, <1>3, <1>4, <1>5, FleetInv(t)
       DEF FleetInv, HeardInv, Onboarding, GoesOn
<1> QED
  BY ONLY <1>1, <1>4, <1>5, <1>6, <1>7, <1>8, <1>9, FleetInv(t), AppMoves DEF OwnObjects

LEMMA CreateKeeps ==
  ASSUME NEW t, Apps = {t}, FleetInv(t), Create(t)
  PROVE  FleetInv(t)'
<1>0. PICK v : v = app[t].vehicle
  OBVIOUS
<1> DEFINE r == app[t]
           i == NextObject(v)
           p == Past(app[t])
           q == [p EXCEPT !.self = i, !.held = {i}]
<1>1. Phase(r) = "create"
  BY DEF Create, AtStep, Phase
<1>2. r.held = {} /\ r.seen = Null /\ v \in Vehicles /\ Threaded(r) /\ r.steps # <<>>
      /\ \E o \in Objects : o[1] = v /\ ~ Made(t, o)
  BY <1>0, <1>1 DEF FleetInv, AppInv, StateInv, Looking, Phase
<1>3. CASE agvs[v] # Null
  <2>1. Steps(t, Idle) /\ UNCHANGED <<registry, layout, callback>>
    BY <1>0, <1>3 DEF Create, registry
  <2> QED
    BY ONLY <2>1, <1>1, <1>2, FleetInv(t), ReturnKeeps DEF Looking
<1>4. CASE agvs[v] = Null
  <2>1. /\ agvs' = [agvs EXCEPT ![v] = i] /\ deaf' = deaf \ {v} /\ Steps(t, q)
        /\ topics' = topics /\ handlers' = handlers /\ active' = active /\ gone' = gone
        /\ callback' = callback /\ UNCHANGED <<layout, callback>>
    BY <1>0, <1>4 DEF Create
  <2>2. GoesOn(r, p)
    BY ONLY <1>1, <1>2, PastGoesOn
  <2>3. PICK n \in 0 .. MaxObjects : Counts(t, v, n) /\ i = <<v, n + 1>>
    BY ONLY <1>2, FleetInv(t), Apps = {t}, NextNumber DEF FleetInv
  <2>4. i \in Objects /\ ~ Made(t, i) /\ i[1] = v /\ i[2] = n + 1
    BY ONLY <1>2, <2>3, FleetInv(t), Apps = {t}, NextIsUnmade DEF FleetInv
  <2> HIDE DEF i, p
  <2>5. Fields(q, p.steps, v, {i}, i, Null, p.computed) /\ p.steps \in Plans /\ p.steps # <<>>
        /\ Phase(p) = "activate"
    <3>1. Fields(q, p.steps, p.vehicle, {i}, i, p.seen, p.computed)
      BY ONLY <2>2, Updates DEF GoesOn
    <3> QED
      BY ONLY <3>1, <1>0, <1>1, <1>2, <2>2 DEF GoesOn, Fields, Follows
  <2> HIDE DEF q
  <2>6. Threaded(q) /\ Phase(q) = "activate"
    BY ONLY <2>4, <2>5 DEF Fields, Threaded, Phase
  <2>7. app'[t] = q /\ app' = [a \in {t} |-> app'[a]]
    BY ONLY <2>1, FleetInv(t), SteppedIs DEF FleetInv
  <2>8. /\ OwnObjects(agvs) /\ OwnObjects(handlers) /\ active \subseteq Objects
        /\ gone \subseteq Objects /\ factsheet \in [Objects -> Nat]
        /\ cache = [w \in Vehicles |-> cache[w]] /\ Threaded(callback)
    BY DEF FleetInv, StateInv
  <2>9. agvs'[v] = i /\ \A w \in Vehicles : w # v => agvs'[w] = agvs[w]
    BY ONLY <2>1, <2>8, <1>2 DEF OwnObjects
  <2>10. OwnObjects(agvs')
    BY ONLY <2>1, <2>4, <2>8, <2>9, <1>2 DEF OwnObjects
  <2>11. factsheet' = factsheet /\ active_graph' = active_graph /\ cache' = cache
    BY ONLY <2>1 DEF layout
  <2>12. \A o \in Objects : Made(t, o)' <=> Made(t, o) \/ o = i
    <3>1. \A o \in Objects : o[1] \in Vehicles
      BY DEF Objects
    <3>2. \A o \in Objects : agvs'[o[1]] = o <=> agvs[o[1]] = o \/ o = i
      BY ONLY <3>1, <2>4, <2>9, <1>4, FleetAssumption
    <3> QED
      BY ONLY <3>2, <2>1, <2>5, <2>7, <1>2 DEF Made, Used, Fields
  <2>13. StateInv(t)'
    BY ONLY <2>1, <2>6, <2>7, <2>8, <2>10, <2>11 DEF StateInv
  <2>14. MadeInv(t)'
    <3>1. n + 1 \in 0 .. MaxObjects /\ n \in Nat
      BY ONLY <2>3, <2>4, FleetAssumption DEF Objects
    <3>2. Counts(t, v, n + 1)'
      <4>1. \A o \in Objects : o[1] = v => (o[2] <= n + 1 <=> o[2] <= n \/ o = i)
        <5>1. \A o \in Objects : o = <<o[1], o[2]>> /\ o[2] \in Nat
          BY FleetAssumption DEF Objects
        <5>2. \A o \in Objects : o[1] = v /\ o[2] = n + 1 => o = i
          BY ONLY <5>1, <2>3
        <5> QED
          BY ONLY <5>1, <5>2, <2>4, <3>1
      <4> QED
        BY ONLY <4>1, <2>3, <2>12 DEF Counts
    <3>3. \A w \in Vehicles : \E k \in 0 .. MaxObjects : Counts(t, w, k)'
      <4>1. \A w \in Vehicles : \E k \in 0 .. MaxObjects : Counts(t, w, k)
        BY DEF FleetInv, MadeInv
      <4>2. ASSUME NEW w \in Vehicles, NEW k \in 0 .. MaxObjects, w # v, Counts(t, w, k)
            PROVE  Counts(t, w, k)'
        BY ONLY <4>2, <2>4, <2>12 DEF Counts
      <4> QED
        BY ONLY <3>1, <3>2, <4>1, <4>2
    <3>4. /\ \A o \in active : Made(t, o)
          /\ \A o \in Objects : factsheet[o] # 0 => Made(t, o)
          /\ \A w \in Vehicles : agvs[w] \notin gone
      BY DEF FleetInv, MadeInv
    <3>5. i \notin gone
      BY ONLY <2>4 DEF Made
    <3> QED
      BY ONLY <3>3, <3>4, <3>5, <2>1, <2>8, <2>9, <2>11, <2>12 DEF MadeInv
  <2>15. AppInv(t)'
    BY ONLY <2>4, <2>5, <2>6, <2>7, <2>9, <1>2
       DEF AppInv, Fields, TeardownSteps, Looking
  <2>16. CallbackInv'
    BY ONLY <2>1, FleetInv(t), CallbackKept DEF FleetInv
  <2>17. HeardInv(t)'
    BY ONLY <2>1, <2>5, <2>6, <2>7, <2>9, <1>0, <1>1, FleetInv(t)
       DEF FleetInv, HeardInv, Onboarding, Fields
  <2> QED
    BY ONLY <2>13, <2>14, <2>15, <2>16, <2>17 DEF FleetInv
<1> QED
  BY ONLY <1>3, <1>4

-----------------------------------------------------------------------------
(* offboard_agv, and the scope every call leaves.                          *)

LEMMA RemoveKeeps ==
  ASSUME NEW t, Apps = {t}, FleetInv(t), Remove(t)
  PROVE  FleetInv(t)'
<1>0. PICK v : v = app[t].vehicle
  OBVIOUS
<1> DEFINE r == app[t]
           p == Past(app[t])
           q == [p EXCEPT !.held = {agvs[v]}]
<1>1. Phase(r) = "remove"
  BY DEF Remove, AtStep, Phase
<1>2. r.held = {} /\ r.seen = Null /\ v \in Vehicles /\ Threaded(r) /\ r.steps # <<>>
  BY <1>0, <1>1 DEF FleetInv, AppInv, StateInv, Looking, Phase
<1>3. CASE agvs[v] = Null
  <2>1. Steps(t, Idle) /\ UNCHANGED <<registry, layout, callback>>
    BY <1>0, <1>3 DEF Remove, registry
  <2> QED
    BY ONLY <2>1, <1>1, <1>2, FleetInv(t), ReturnKeeps DEF Looking
<1>4. CASE agvs[v] # Null
  <2>1. /\ agvs' = [agvs EXCEPT ![v] = Null] /\ Steps(t, q)
        /\ topics' = topics /\ handlers' = handlers /\ active' = active /\ gone' = gone
        /\ deaf' = deaf /\ callback' = callback /\ UNCHANGED <<layout, callback>>
    BY <1>0, <1>4 DEF Remove
  <2>2. GoesOn(r, p)
    BY ONLY <1>1, <1>2, PastGoesOn
  <2> HIDE DEF p
  <2>3. /\ OwnObjects(agvs) /\ OwnObjects(handlers) /\ active \subseteq Objects
        /\ gone \subseteq Objects
    BY DEF FleetInv, StateInv
  <2>4. agvs[v] \in Objects /\ agvs[v][1] = v
    BY ONLY <1>2, <1>4, <2>3 DEF OwnObjects
  <2>5. Fields(q, p.steps, r.vehicle, {agvs[v]}, r.self, Null, p.computed)
        /\ p.steps \in Plans /\ p.steps # <<>> /\ Phase(p) = "drop"
    <3>1. Fields(q, p.steps, p.vehicle, {agvs[v]}, p.self, p.seen, p.computed)
      BY ONLY <2>2, Updates DEF GoesOn
    <3> QED
      BY ONLY <3>1, <1>1, <1>2, <2>2 DEF GoesOn, Fields, Follows
  <2> HIDE DEF q
  <2>6. Threaded(q) /\ Phase(q) = "drop"
    BY ONLY <2>4, <2>5 DEF Fields, Threaded, Phase
  <2>7. app'[t] = q
    BY ONLY <2>1, FleetInv(t), SteppedIs DEF FleetInv
  <2>8. agvs'[v] = Null /\ \A w \in Vehicles : w # v => agvs'[w] = agvs[w]
    BY ONLY <2>1, <2>3, <1>2 DEF OwnObjects
  <2>9. OwnObjects(agvs')
    BY ONLY <2>1, <2>3, <2>8, <1>2 DEF OwnObjects
  <2>10. SameMade(t)
    <3>1. \A o \in Objects : o[1] \in Vehicles /\ o # Null
      BY FleetAssumption DEF Objects
    <3>2. \A o \in Objects : agvs[o[1]] = o <=> agvs'[o[1]] = o \/ o = agvs[v]
      BY ONLY <3>1, <2>4, <2>8
    <3> QED
      BY ONLY <3>2, <2>1, <2>5, <2>7, <1>2 DEF SameMade, Made, Used, Fields
  <2>11. MadeInv(t)'
    <3>1. MadeInv(t) /\ \A w \in Vehicles : agvs[w] \notin gone
      BY DEF FleetInv, MadeInv
    <3>2. factsheet' = factsheet
      BY ONLY <2>1 DEF layout
    <3>3. Null \notin gone
      BY ONLY <2>3, FleetAssumption
    <3>4. \A w \in Vehicles : agvs'[w] \notin gone'
      BY ONLY <3>1, <3>3, <2>1, <2>8
    <3> QED
      BY ONLY <3>1, <3>2, <3>4, <2>1, <2>3, <2>10, MadeKept
  <2>12. AppInv(t)'
    BY ONLY <2>4, <2>5, <2>6, <2>7, <2>8 DEF AppInv, Fields, TeardownSteps, Looking
  <2>13. HeardInv(t)'
    BY ONLY <2>1, <2>5, <2>6, <2>7, <2>8, <1>1, FleetInv(t)
       DEF FleetInv, HeardInv, Onboarding, Fields
  <2> QED
    BY ONLY <2>1, <2>3, <2>6, <2>9, <2>11, <2>12, <2>13, FleetInv(t), AppMoves
       DEF OwnObjects
<1> QED
  BY ONLY <1>3, <1>4

LEMMA DropKeeps ==
  ASSUME NEW t, Apps = {t}, FleetInv(t), Drop(t)
  PROVE  FleetInv(t)'
<1> DEFINE r == app[t]
           q == Dropped(app[t])
<1>1. /\ Phase(r) = "drop" /\ Steps(t, q) /\ gone' = Gone(r)
      /\ agvs' = agvs /\ active' = active /\ topics' = topics /\ handlers' = handlers
      /\ deaf' = deaf /\ callback' = callback /\ UNCHANGED <<layout, callback>>
  BY DEF Drop, AtStep, Phase
<1>2. Threaded(r) /\ StateInv(t) /\ AppInv(t) /\ MadeInv(t)
  BY DEF FleetInv, StateInv
<1>3. \A i \in r.held : IF i \in Orphans(r) THEN agvs[i[1]] # i /\ i \notin callback.held
                        ELSE agvs[i[1]] = i \/ i \in callback.held
  BY ONLY <1>2, Apps = {t}, OrphansAre
<1>4. app'[t] = q
  BY ONLY <1>1, <1>2, SteppedIs
<1>5. CASE Orphans(r) = {} /\ q = Idle /\ Gone(r) = gone
  <2>1. SameMade(t)
    BY ONLY <1>1, <1>3, <1>4, <1>5, IdleThread DEF SameMade, Made, Used, Fields
  <2>2. AppInv(t)'
    BY ONLY <1>4, <1>5, IdleApp
  <2>3. SameOnboarding(r, q)
    BY ONLY <1>1, <1>5, IdleThread DEF SameOnboarding
  <2>4. UNCHANGED <<registry, layout, callback>>
    BY ONLY <1>1, <1>5 DEF registry
  <2> QED
    BY ONLY <2>1, <2>2, <2>3, <2>4, <1>1, <1>5, IdleThread, FleetInv(t), AppAlone
<1>6. ASSUME NEW o \in Orphans(r),
             Fields(q, q.steps, r.vehicle, r.held, o, r.seen, r.computed),
             q.steps \in Plans, Phase(q) = "deactivate", Gone(r) = gone \cup {o}
      PROVE  FleetInv(t)'
  <2>1. o \in r.held /\ agvs[o[1]] # o /\ o \notin callback.held
    BY ONLY <1>3, <1>6 DEF Orphans
  <2>2. /\ OwnObjects(agvs) /\ OwnObjects(handlers) /\ active \subseteq Objects
        /\ gone \subseteq Objects /\ r.held \subseteq Objects
    BY ONLY <1>2 DEF StateInv, Threaded
  <2>3. agvs[o[1]] = Null /\ r.seen = Null
    BY ONLY <1>2, <2>1 DEF AppInv
  <2> HIDE DEF q
  <2>4. Threaded(q)
    BY ONLY <1>6, <2>2 DEF Fields, Threaded, Phase
  <2>5. SameMade(t)
    BY ONLY <1>1, <1>4, <1>6, <2>1 DEF SameMade, Made, Used, Fields
  <2>6. \A v \in Vehicles : agvs[v] \notin gone \cup {o}
    <3>1. \A v \in Vehicles : agvs[v] \notin gone
      BY ONLY <1>2 DEF MadeInv
    <3>2. \A v \in Vehicles : agvs[v] # o
      BY ONLY <2>1, <2>2, FleetAssumption DEF OwnObjects
    <3> QED
      BY ONLY <3>1, <3>2
  <2>7. MadeInv(t)'
    <3>1. factsheet' = factsheet
      BY ONLY <1>1 DEF layout
    <3> QED
      BY ONLY <3>1, <1>1, <1>2, <1>6, <2>2, <2>5, <2>6, MadeKept
  <2>8. AppInv(t)'
    BY ONLY <1>1, <1>2, <1>4, <1>6, <2>1, <2>3 DEF AppInv, Fields, TeardownSteps, Looking
  <2>9. SameOnboarding(r, q)
    BY ONLY <1>1, <1>6 DEF SameOnboarding
  <2>10. HeardInv(t)'
    BY ONLY <1>1, <1>4, <2>9, FleetInv(t), HeardKept DEF FleetInv
  <2>11. gone \subseteq gone' /\ gone' \subseteq Objects
    BY ONLY <1>1, <1>6, <2>1, <2>2
  <2>12. OwnObjects(agvs)' /\ OwnObjects(handlers)' /\ active' \subseteq Objects
    BY ONLY <1>1, <2>2 DEF OwnObjects
  <2> QED
    BY ONLY <1>1, <2>4, <2>7, <2>8, <2>10, <2>11, <2>12, FleetInv(t), AppMoves
<1> QED
  BY ONLY <1>1, <1>2, <1>5, <1>6, DropEffect

LEMMA TeardownKeeps ==
  ASSUME NEW t, Apps = {t}, FleetInv(t), UNCHANGED callback,
         NEW q, Steps(t, q), TeardownStep(app[t], q)
  PROVE  FleetInv(t)'
<1> DEFINE r == app[t]
<1>1. Threaded(r) /\ StateInv(t) /\ AppInv(t) /\ MadeInv(t)
  BY DEF FleetInv, StateInv
<1>2. TornDown(r, q) /\ TornBy(r, q)
  BY ONLY <1>1, TeardownStep(app[t], q), TeardownEffect
<1>3. /\ r.self \in r.held /\ r.self \in gone /\ agvs[r.self[1]] = Null /\ r.seen = Null
  BY ONLY <1>1, <1>2 DEF AppInv, TornDown, TeardownSteps, Looking
<1>4. /\ OwnObjects(agvs) /\ OwnObjects(handlers) /\ active \subseteq Objects
      /\ gone \subseteq Objects /\ r.held \subseteq Objects
  BY ONLY <1>1 DEF StateInv, Threaded
<1>5. Threaded(q)
  BY ONLY <1>2, <1>4 DEF TornDown, Threaded
<1>6. app'[t] = q
  BY ONLY <1>1, Steps(t, q), SteppedIs
<1>7. agvs' = agvs /\ gone' = gone /\ deaf' = deaf /\ factsheet' = factsheet
      /\ active' \subseteq active /\ UNCHANGED <<layout, callback>>
  BY ONLY <1>2, UNCHANGED callback DEF TornBy, layout
<1>8. q.held \subseteq r.held /\ \A i \in r.held : i \in q.held \/ i \in gone
  BY ONLY <1>2, <1>3 DEF TornDown
<1>9. SameMade(t)
  BY ONLY <1>6, <1>7, <1>8 DEF SameMade, Made, Used
<1>10. \A v \in Vehicles : agvs[v] \notin gone
  BY ONLY <1>1 DEF MadeInv
<1>11. MadeInv(t)'
  BY ONLY <1>1, <1>4, <1>7, <1>9, <1>10, MadeKept
<1>12. AppInv(t)'
  <2>1. Phase(q) \in {"unsubscribe", "erase"} => q.held = r.held
    BY ONLY <1>2 DEF TornDown
  <2>2. Phase(q) \in {"unsubscribe", "erase", "drop"} /\ q.self = r.self /\ q.seen = Null
    BY ONLY <1>2, <1>3 DEF TornDown
  <2>3. \A i \in r.held : agvs[i[1]] \in {i, Null}
    BY ONLY <1>1 DEF AppInv
  <2> QED
    BY ONLY <1>3, <1>6, <1>7, <1>8, <2>1, <2>2, <2>3 DEF AppInv, TeardownSteps, Looking
<1>13. SameOnboarding(r, q)
  BY ONLY <1>2 DEF SameOnboarding, TornDown, TeardownSteps
<1>14. \A v \in Vehicles : agvs[v] # Null =>
         /\ agvs[v] \in active => agvs[v] \in active'
         /\ v \in topics => v \in topics'
         /\ handlers'[v] = handlers[v]
  <2>1. \A v \in Vehicles : agvs[v] # Null => agvs[v] # r.self /\ v # r.self[1]
    BY ONLY <1>3, <1>10
  <2>2. \A v \in Vehicles : v # r.self[1] => handlers'[v] = handlers[v]
    BY ONLY <1>2, <1>4 DEF TornBy, OwnObjects
  <2>3. \A v \in Vehicles : v # r.self[1] /\ v \in topics => v \in topics'
    BY ONLY <1>2 DEF TornBy
  <2>4. \A i \in active : i # r.self => i \in active'
    BY ONLY <1>2 DEF TornBy
  <2> QED
    BY ONLY <2>1, <2>2, <2>3, <2>4
<1>15. HeardInv(t)'
  BY ONLY <1>6, <1>7, <1>13, <1>14, FleetInv(t), HeardKept DEF FleetInv
<1>16. OwnObjects(handlers)'
  <2>1. handlers' = handlers \/ handlers' = [handlers EXCEPT ![r.self[1]] = Null]
    BY ONLY <1>2 DEF TornBy
  <2> QED
    BY ONLY <2>1, <1>4 DEF OwnObjects
<1>17. OwnObjects(agvs)' /\ active' \subseteq Objects /\ gone \subseteq gone' /\ gone' \subseteq Objects
  BY ONLY <1>4, <1>7 DEF OwnObjects
<1> QED
  BY ONLY <1>5, <1>7, <1>11, <1>12, <1>15, <1>16, <1>17, Steps(t, q), FleetInv(t), AppMoves

-----------------------------------------------------------------------------
(* set_graph.                                                              *)

(* A step of the application thread that may change the layout.            *)
LEMMA LayoutMoves ==
  ASSUME NEW t, FleetInv(t), UNCHANGED <<registry, factsheet, callback>>,
         NEW q, Steps(t, q), Threaded(q), cache' = [v \in Vehicles |-> cache'[v]],
         SameMade(t), AppInv(t)', SameOnboarding(app[t], q)
  PROVE  FleetInv(t)'
<1>1. app'[t] = q /\ app' = [a \in {t} |-> app'[a]]
  BY SteppedIs DEF FleetInv
<1>2. /\ agvs' = agvs /\ topics' = topics /\ handlers' = handlers /\ active' = active
      /\ gone' = gone /\ deaf' = deaf /\ callback' = callback /\ factsheet' = factsheet
  BY DEF registry
<1>3. StateInv(t)'
  <2>1. /\ OwnObjects(agvs) /\ OwnObjects(handlers) /\ factsheet \in [Objects -> Nat]
        /\ active \subseteq Objects /\ gone \subseteq Objects /\ Threaded(callback)
    BY DEF FleetInv, StateInv
  <2> QED
    BY ONLY <1>1, <1>2, <2>1, Threaded(q), cache' = [v \in Vehicles |-> cache'[v]]
       DEF StateInv, OwnObjects
<1>4. MadeInv(t)'
  <2>1. MadeInv(t) /\ active \subseteq Objects
    BY DEF FleetInv, StateInv
  <2>2. \A v \in Vehicles : agvs[v] \notin gone
    BY ONLY <2>1 DEF MadeInv
  <2> QED
    BY ONLY <1>2, <2>1, <2>2, SameMade(t), MadeKept
<1>5. CallbackInv'
  BY ONLY <1>2, FleetInv(t), CallbackKept DEF FleetInv
<1>6. HeardInv(t)'
  BY ONLY <1>1, <1>2, FleetInv(t), SameOnboarding(app[t], q), HeardKept DEF FleetInv
<1> QED
  BY ONLY <1>3, <1>4, <1>5, <1>6, AppInv(t)' DEF FleetInv

LEMMA SetGraphKeeps ==
  ASSUME NEW t, Apps = {t}, FleetInv(t), NEW g \in Layouts, SetGraph(t, g)
  PROVE  FleetInv(t)'
<1> DEFINE steps == <<"snapshot", "compute", "swap", "drop">>
           q == [Idle EXCEPT !.steps = steps, !.seen = g]
<1>1. app[t] = Idle /\ Steps(t, q) /\ UNCHANGED <<registry, layout, callback>>
  BY DEF SetGraph, Steps
<1>2. steps \in Plans /\ steps # <<>> /\ Head(steps) = "snapshot"
  BY DEF Plans
<1> HIDE DEF steps
<1>3. Fields(q, steps, Null, {}, Null, g, Null) /\ g # Null
  BY ONLY <1>2, CallThreads, g \in Layouts, FleetAssumption
<1> HIDE DEF q
<1>4. Threaded(q) /\ Phase(q) = "snapshot"
  BY ONLY <1>2, <1>3 DEF Fields, Threaded, Phase
<1>5. Fields(app[t], <<>>, Null, {}, Null, Null, Null) /\ Phase(app[t]) = "idle"
  BY ONLY <1>1, IdleThread
<1>6. app'[t] = q
  BY <1>1, SteppedIs DEF FleetInv
<1>7. SameMade(t)
  BY ONLY <1>1, <1>3, <1>5, <1>6, SameHeld DEF registry, Fields
<1>8. AppInv(t)'
  BY ONLY <1>3, <1>4, <1>6 DEF AppInv, Fields, TeardownSteps, Looking
<1>9. SameOnboarding(app[t], q)
  BY ONLY <1>4, <1>5 DEF SameOnboarding
<1> QED
  BY ONLY <1>1, <1>4, <1>7, <1>8, <1>9, FleetInv(t), AppAlone

(* What holds of a set_graph on its way.                                   *)
LEMMA LookingIs ==
  ASSUME NEW t, FleetInv(t), Phase(app[t]) \in Looking
  PROVE  /\ Threaded(app[t]) /\ app[t].seen # Null
         /\ \A i \in app[t].held : agvs[i[1]] = i
  BY DEF FleetInv, StateInv, AppInv

LEMMA SnapshotKeeps ==
  ASSUME NEW t, Apps = {t}, FleetInv(t), SnapshotAgvs(t)
  PROVE  FleetInv(t)'
<1>0. PICK H : H = {agvs[v] : v \in Vehicles} \ {Null}
  OBVIOUS
<1> DEFINE r == app[t]
           p == Past(app[t])
           q == [p EXCEPT !.held = H, !.computed = agvs]
<1>1. Phase(r) = "snapshot" /\ Steps(t, q) /\ UNCHANGED <<registry, layout, callback>>
  BY <1>0 DEF SnapshotAgvs, AtStep, Phase
<1>2. Threaded(r) /\ r.seen # Null /\ r.held = {} /\ OwnObjects(agvs)
  BY <1>1, LookingIs DEF FleetInv, AppInv, StateInv, Looking
<1>3. GoesOn(r, p)
  BY ONLY <1>1, <1>2, PastGoesOn
<1> HIDE DEF p
<1>4. \A i \in H : i \in Objects /\ agvs[i[1]] = i
  BY ONLY <1>0, <1>2 DEF OwnObjects
<1>5. \A i \in Objects : agvs[i[1]] = i => i \in H
  BY ONLY <1>0, FleetAssumption DEF Objects
<1>6. Fields(q, p.steps, r.vehicle, H, r.self, r.seen, agvs)
      /\ p.steps \in Plans /\ p.steps # <<>> /\ Phase(p) = "compute"
  <2>1. Fields(q, p.steps, p.vehicle, H, p.self, p.seen, agvs)
    BY ONLY <1>3, Updates DEF GoesOn
  <2> QED
    BY ONLY <2>1, <1>1, <1>3 DEF GoesOn, Fields, Follows
<1> HIDE DEF q
<1>7. Threaded(q) /\ Phase(q) = "compute"
  BY ONLY <1>4, <1>6 DEF Fields, Threaded, Phase
<1>8. app'[t] = q
  BY <1>1, SteppedIs DEF FleetInv
<1>9. agvs' = agvs /\ gone' = gone /\ callback' = callback
  BY ONLY <1>1 DEF registry
<1>10. SameMade(t)
  BY ONLY <1>2, <1>4, <1>6, <1>8, <1>9 DEF SameMade, Made, Used, Fields
<1>11. AppInv(t)'
  BY ONLY <1>2, <1>4, <1>6, <1>7, <1>8, <1>9 DEF AppInv, Fields, TeardownSteps, Looking
<1>12. SameOnboarding(r, q)
  BY ONLY <1>1, <1>7 DEF SameOnboarding
<1> QED
  BY ONLY <1>1, <1>7, <1>10, <1>11, <1>12, FleetInv(t), AppAlone

LEMMA ComputeKeeps ==
  ASSUME NEW t, Apps = {t}, FleetInv(t), Compute(t)
  PROVE  FleetInv(t)'
<1> DEFINE r == app[t]
           p == Past(app[t])
           results == [v \in Vehicles |-> Aligned(app[t].seen, p.computed[v])]
           q == [p EXCEPT !.computed = results]
<1>1. Phase(r) = "compute" /\ Steps(t, q) /\ UNCHANGED <<registry, layout, callback>>
  BY DEF Compute, AtStep, Phase
<1>2. Threaded(r) /\ r.seen # Null /\ r.computed = agvs /\ (\A i \in r.held : agvs[i[1]] = i)
  BY <1>1, LookingIs DEF FleetInv, AppInv, Looking
<1>3. GoesOn(r, p)
  BY ONLY <1>1, <1>2, PastGoesOn
<1> HIDE DEF p
<1>4. results = [v \in Vehicles |-> results[v]]
  OBVIOUS
<1> HIDE DEF results
<1>5. Fields(q, p.steps, r.vehicle, r.held, r.self, r.seen, results)
      /\ p.steps \in Plans /\ p.steps # <<>> /\ Phase(p) = "swap"
  <2>1. Fields(q, p.steps, p.vehicle, p.held, p.self, p.seen, results)
    BY ONLY <1>3, Updates DEF GoesOn
  <2> QED
    BY ONLY <2>1, <1>1, <1>3 DEF GoesOn, Fields, Follows
<1> HIDE DEF q
<1>6. Threaded(q) /\ Phase(q) = "swap"
  BY ONLY <1>2, <1>5 DEF Fields, Threaded, Phase
<1>7. app'[t] = q
  BY <1>1, SteppedIs DEF FleetInv
<1>8. agvs' = agvs /\ gone' = gone /\ callback' = callback
  BY ONLY <1>1 DEF registry
<1>9. SameMade(t)
  BY ONLY <1>5, <1>7, <1>8, SameHeld DEF Fields
<1>10. AppInv(t)'
  BY ONLY <1>2, <1>4, <1>5, <1>6, <1>7, <1>8 DEF AppInv, Fields, TeardownSteps, Looking
<1>11. SameOnboarding(r, q)
  BY ONLY <1>1, <1>6 DEF SameOnboarding
<1> QED
  BY ONLY <1>1, <1>6, <1>9, <1>10, <1>11, FleetInv(t), AppAlone

LEMMA SwapKeeps ==
  ASSUME NEW t, Apps = {t}, FleetInv(t), Swap(t)
  PROVE  FleetInv(t)'
<1> DEFINE r == app[t]
           q == Past(app[t])
<1>1. /\ Phase(r) = "swap" /\ Steps(t, q) /\ cache' = r.computed
      /\ UNCHANGED <<registry, factsheet, callback>>
  BY DEF Swap, AtStep, Phase
<1>2. Threaded(r) /\ r.seen # Null /\ \A i \in r.held : agvs[i[1]] = i
  BY ONLY <1>1, FleetInv(t), LookingIs DEF Looking
<1>3. r.computed = [v \in Vehicles |-> r.computed[v]]
  BY ONLY <1>1, FleetInv(t) DEF FleetInv, AppInv
<1>4. GoesOn(r, q)
  BY ONLY <1>1, <1>2, PastGoesOn
<1> HIDE DEF q
<1>5. Threaded(q) /\ Phase(q) = "drop"
  BY ONLY <1>1, <1>2, <1>4 DEF GoesOn, Threaded, Follows
<1>6. app'[t] = q
  BY <1>1, SteppedIs DEF FleetInv
<1>7. agvs' = agvs /\ gone' = gone /\ callback' = callback
  BY ONLY <1>1 DEF registry
<1>8. SameMade(t)
  BY ONLY <1>4, <1>6, <1>7, SameHeld DEF GoesOn
<1>9. AppInv(t)'
  BY ONLY <1>2, <1>4, <1>5, <1>6, <1>7 DEF AppInv, GoesOn, TeardownSteps, Looking
<1>10. SameOnboarding(r, q)
  BY ONLY <1>1, <1>5 DEF SameOnboarding
<1>11. cache' = [v \in Vehicles |-> cache'[v]]
  BY ONLY <1>1, <1>3
<1> QED
  BY ONLY <1>1, <1>5, <1>8, <1>9, <1>10, <1>11, FleetInv(t), LayoutMoves

-----------------------------------------------------------------------------
(* The callback.                                                           *)

(* A step of the callback thread.                                          *)
LEMMA CallbackMoves ==
  ASSUME NEW t, FleetInv(t), UNCHANGED <<agvs, app>>, Threaded(callback'),
         OwnObjects(handlers)', factsheet' \in [Objects -> Nat],
         cache' = [v \in Vehicles |-> cache'[v]],
         active' \subseteq Objects, gone \subseteq gone', gone' \subseteq Objects,
         SameMade(t), MadeInv(t)', CallbackInv', HeardInv(t)'
  PROVE  FleetInv(t)'
<1>1. OwnObjects(agvs) /\ app = [a \in {t} |-> app[a]] /\ Threaded(app[t])
  BY DEF FleetInv, StateInv
<1>2. StateInv(t)'
  BY ONLY <1>1, UNCHANGED <<agvs, app>>, Threaded(callback'), OwnObjects(handlers)',
          factsheet' \in [Objects -> Nat], cache' = [v \in Vehicles |-> cache'[v]],
          active' \subseteq Objects, gone' \subseteq Objects
     DEF StateInv, OwnObjects
<1>3. AppInv(t)'
  BY ONLY FleetInv(t), UNCHANGED <<agvs, app>>, gone \subseteq gone', SameMade(t), AppKept
     DEF FleetInv
<1> QED
  BY ONLY <1>2, <1>3, MadeInv(t)', CallbackInv', HeardInv(t)' DEF FleetInv

(* One that leaves the registry alone.                                     *)
LEMMA AlignMoves ==
  ASSUME NEW t, FleetInv(t), UNCHANGED <<registry, app>>, Threaded(callback'),
         Phase(callback) # "erase",
         factsheet' \in [Objects -> Nat], cache' = [v \in Vehicles |-> cache'[v]],
         SameMade(t), \A i \in Objects : factsheet'[i] # 0 => factsheet[i] # 0 \/ Made(t, i)',
         CallbackInv'
  PROVE  FleetInv(t)'
<1>1. /\ agvs' = agvs /\ topics' = topics /\ handlers' = handlers /\ active' = active
      /\ gone' = gone /\ deaf' = deaf /\ app' = app
  BY DEF registry
<1>2. OwnObjects(handlers) /\ active \subseteq Objects /\ gone \subseteq Objects /\ MadeInv(t)
  BY DEF FleetInv, StateInv
<1>3. MadeInv(t)'
  <2>1. \A v \in Vehicles : agvs[v] \notin gone
    BY ONLY <1>2 DEF MadeInv
  <2> QED
    BY ONLY <1>1, <1>2, <2>1, SameMade(t), MadeKept,
            \A i \in Objects : factsheet'[i] # 0 => factsheet[i] # 0 \/ Made(t, i)'
<1>4. HeardInv(t)'
  <2>1. SameOnboarding(app[t], app'[t])
    BY ONLY <1>1 DEF SameOnboarding
  <2> QED
    BY ONLY <1>1, <2>1, FleetInv(t), Phase(callback) # "erase", HeardKept DEF FleetInv
<1> QED
  BY ONLY <1>1, <1>2, <1>3, <1>4, FleetInv(t), Threaded(callback'), SameMade(t), CallbackInv',
          factsheet' \in [Objects -> Nat],
          cache' = [v \in Vehicles |-> cache'[v]], CallbackMoves DEF OwnObjects

LEMMA ArrivedThread ==
  ASSUME NEW steps \in Plans, NEW v, NEW h, NEW f, NEW c
  PROVE  Fields([Idle EXCEPT !.steps = steps, !.vehicle = v, !.held = h, !.self = f,
                             !.computed = c],
                steps, v, h, f, Null, c)
<1> DEFINE p1 == [Idle EXCEPT !.steps = steps, !.vehicle = v]
           p2 == [p1 EXCEPT !.held = h]
           p3 == [p2 EXCEPT !.self = f]
           p4 == [p3 EXCEPT !.computed = c]
           q == [Idle EXCEPT !.steps = steps, !.vehicle = v, !.held = h, !.self = f,
                             !.computed = c]
<1>1. q = p4
  OBVIOUS
<1>2. Fields(p1, steps, v, {}, Null, Null, Null)
  BY CallThreads
<1> HIDE DEF p1
<1>3. Fields(p2, p1.steps, p1.vehicle, h, p1.self, p1.seen, p1.computed)
  <2>1. IsThread(p1)
    BY ONLY <1>2 DEF Fields
  <2> QED
    BY ONLY <2>1, Updates
<1> HIDE DEF p2
<1>4. Fields(p3, p2.steps, p2.vehicle, p2.held, f, p2.seen, p2.computed)
  <2>1. IsThread(p2)
    BY ONLY <1>3 DEF Fields
  <2> QED
    BY ONLY <2>1, Updates
<1> HIDE DEF p3
<1>5. Fields(p4, p3.steps, p3.vehicle, p3.held, p3.self, p3.seen, c)
  <2>1. IsThread(p3)
    BY ONLY <1>4 DEF Fields
  <2> QED
    BY ONLY <2>1, Updates
<1> HIDE DEF p4, q
<1>6. Fields(q, steps, v, h, f, Null, c)
  BY ONLY <1>1, <1>2, <1>3, <1>4, <1>5 DEF Fields
<1> QED
  BY ONLY <1>6 DEF q

LEMMA ArrivalKeeps ==
  ASSUME NEW t, Apps = {t}, FleetInv(t), NEW v \in Vehicles, MessageArrived(v)
  PROVE  FleetInv(t)'
<1>0. PICK i : i = handlers[v]
  OBVIOUS
<1> DEFINE steps == <<"store", "read", "write", "drop">>
<1>1. PICK f \in Factsheets :
        callback' = [Idle EXCEPT !.steps = steps, !.vehicle = v, !.held = {i}, !.self = i,
                                 !.computed = f]
  BY <1>0 DEF MessageArrived
<1>2. /\ callback = Idle /\ i # Null /\ i \in active /\ i \notin gone
      /\ agvs' = agvs /\ handlers' = handlers /\ active' = active /\ gone' = gone
      /\ factsheet' = factsheet /\ active_graph' = active_graph /\ cache' = cache /\ app' = app
      /\ UNCHANGED <<registry, app>>
  BY <1>0 DEF MessageArrived, Live, registry, layout
<1>3. steps \in Plans /\ steps # <<>> /\ Head(steps) = "store"
  BY DEF Plans
<1> HIDE DEF steps
<1> DEFINE d == callback'
<1>4. Fields(d, steps, v, {i}, i, Null, f)
  BY ONLY <1>1, <1>3, ArrivedThread
<1>5. Fields(callback, <<>>, Null, {}, Null, Null, Null) /\ Phase(callback) = "idle"
  BY ONLY <1>2, IdleThread
<1>6. i \in Objects /\ i[1] = v /\ OwnObjects(agvs)
  BY <1>0, <1>2 DEF FleetInv, StateInv, OwnObjects
<1>7. Threaded(d) /\ Phase(d) = "store"
  BY ONLY <1>3, <1>4, <1>6 DEF Fields, Threaded, Phase
<1>8. Made(t, i)
  BY ONLY <1>2, FleetInv(t) DEF FleetInv, MadeInv
<1>9. SameMade(t)
  BY ONLY <1>2, <1>4, <1>5, <1>8 DEF SameMade, Made, Used, Fields
<1>10. CallbackInv'
  <2>1. f \in Nat
    BY FleetAssumption
  <2> QED
    BY ONLY <1>4, <1>6, <1>7, <2>1, v \in Vehicles DEF CallbackInv, Fields, TeardownSteps
<1>11. factsheet' \in [Objects -> Nat] /\ cache' = [w \in Vehicles |-> cache'[w]]
  BY <1>2 DEF FleetInv, StateInv
<1> QED
  BY ONLY <1>2, <1>5, <1>7, <1>9, <1>10, <1>11, FleetInv(t), AlignMoves

(* A callback that goes on is about its own object.                        *)
LEMMA AligningIs ==
  ASSUME NEW t, FleetInv(t), Phase(callback) \in {"store", "read", "write"}
  PROVE  /\ Threaded(callback) /\ callback.vehicle \in Vehicles /\ callback.vehicle # Null
         /\ callback.self \in Objects /\ callback.self[1] = callback.vehicle
         /\ callback.held = {callback.self} /\ Made(t, callback.self)
<1>1. callback.steps # <<>>
  BY DEF Phase
<1>2. /\ Threaded(callback) /\ callback.vehicle \in Vehicles
      /\ callback.self \in Objects /\ callback.self[1] = callback.vehicle
      /\ callback.held = {callback.self}
  BY <1>1 DEF FleetInv, StateInv, CallbackInv
<1>3. callback.vehicle # Null
  BY ONLY <1>2, FleetAssumption
<1>4. Made(t, callback.self)
  BY ONLY <1>2 DEF Made, Used
<1> QED
  BY ONLY <1>2, <1>3, <1>4

LEMMA StoreKeeps ==
  ASSUME NEW t, Apps = {t}, FleetInv(t), StoreFactsheet
  PROVE  FleetInv(t)'
<1> DEFINE c == callback
           d == Past(callback)
<1>1. /\ Phase(c) = "store" /\ callback' = d
      /\ factsheet' = [factsheet EXCEPT ![c.self] = c.computed]
      /\ agvs' = agvs /\ gone' = gone /\ active_graph' = active_graph /\ cache' = cache
      /\ app' = app /\ UNCHANGED <<registry, app>>
  BY DEF StoreFactsheet, AtStep, Phase, registry
<1>2. /\ Threaded(c) /\ c.vehicle \in Vehicles /\ c.vehicle # Null
      /\ c.self \in Objects /\ c.self[1] = c.vehicle
      /\ c.held = {c.self} /\ Made(t, c.self)
  BY ONLY <1>1, FleetInv(t), AligningIs
<1>3. GoesOn(c, d)
  BY ONLY <1>1, <1>2, PastGoesOn
<1> HIDE DEF d
<1>4. Threaded(d) /\ Phase(d) = "read"
  BY ONLY <1>1, <1>2, <1>3 DEF GoesOn, Threaded, Follows
<1>5. SameMade(t)
  BY ONLY <1>1, <1>3 DEF SameMade, Made, Used, GoesOn
<1>6. /\ factsheet \in [Objects -> Nat] /\ c.computed \in Nat
      /\ cache = [v \in Vehicles |-> cache[v]]
  BY <1>1 DEF FleetInv, StateInv, CallbackInv
<1>7. /\ factsheet' \in [Objects -> Nat] /\ factsheet'[c.self] = c.computed
      /\ \A i \in Objects : i # c.self => factsheet'[i] = factsheet[i]
  BY ONLY <1>1, <1>2, <1>6
<1>8. \A i \in Objects : factsheet'[i] # 0 => factsheet[i] # 0 \/ Made(t, i)'
  BY ONLY <1>2, <1>5, <1>7 DEF SameMade
<1>9. CallbackInv'
  BY ONLY <1>1, <1>2, <1>3, <1>4 DEF CallbackInv, GoesOn, TeardownSteps
<1> QED
  BY ONLY <1>1, <1>4, <1>5, <1>6, <1>7, <1>8, <1>9, FleetInv(t), AlignMoves

LEMMA ReadKeeps ==
  ASSUME NEW t, Apps = {t}, FleetInv(t), ReadGraph
  PROVE  FleetInv(t)'
<1> DEFINE c == callback
           d == callback'
           p == Past(callback)
<1>1. /\ Phase(c) = "read"
      /\ d = IF active_graph = Null THEN Past(p) ELSE [p EXCEPT !.seen = active_graph]
      /\ agvs' = agvs /\ gone' = gone /\ active_graph' = active_graph /\ cache' = cache
      /\ factsheet' = factsheet /\ app' = app /\ UNCHANGED <<registry, app>>
  BY DEF ReadGraph, AtStep, Phase, registry, layout
<1>2. /\ Threaded(c) /\ c.vehicle \in Vehicles /\ c.vehicle # Null
      /\ c.self \in Objects /\ c.self[1] = c.vehicle
      /\ c.held = {c.self} /\ Made(t, c.self)
  BY ONLY <1>1, FleetInv(t), AligningIs
<1>3. GoesOn(c, p)
  BY ONLY <1>1, <1>2, PastGoesOn
<1> HIDE DEF p
<1>4. Threaded(p) /\ Phase(p) = "write"
  BY ONLY <1>1, <1>2, <1>3 DEF GoesOn, Threaded, Follows
<1>5. /\ Threaded(d) /\ d.vehicle = c.vehicle /\ d.self = c.self /\ d.held = c.held
      /\ d.computed = c.computed
      /\ IF active_graph = Null THEN Phase(d) = "drop" ELSE Phase(d) = "write" /\ d.seen = active_graph
  <2>1. CASE active_graph = Null
    <3>1. d = Past(p)
      BY ONLY <1>1, <2>1
    <3>2. GoesOn(p, d)
      BY ONLY <1>4, <3>1, PastGoesOn
    <3> QED
      BY ONLY <2>1, <3>2, <1>3, <1>4 DEF GoesOn, Threaded, Follows
  <2>2. CASE active_graph # Null
    <3>1. d = [p EXCEPT !.seen = active_graph]
      BY ONLY <1>1, <2>2
    <3>2. IsThread(p)
      BY ONLY <1>4 DEF Threaded
    <3>3. Fields(d, p.steps, p.vehicle, p.held, p.self, active_graph, p.computed)
      BY ONLY <3>1, <3>2, Updates
    <3>4. p.steps # <<>>
      BY ONLY <1>4 DEF Phase
    <3> QED
      BY ONLY <2>2, <3>3, <3>4, <1>3, <1>4 DEF Fields, GoesOn, Threaded, Phase
  <2> QED
    BY ONLY <2>1, <2>2
<1>6. SameMade(t)
  BY ONLY <1>1, <1>5 DEF SameMade, Made, Used
<1>7. CallbackInv'
  BY ONLY <1>2, <1>5 DEF CallbackInv, TeardownSteps
<1>8. factsheet' \in [Objects -> Nat] /\ cache' = [v \in Vehicles |-> cache'[v]]
      /\ \A i \in Objects : factsheet'[i] # 0 => factsheet[i] # 0 \/ Made(t, i)'
  BY <1>1 DEF FleetInv, StateInv
<1> QED
  BY ONLY <1>1, <1>5, <1>6, <1>7, <1>8, FleetInv(t), AlignMoves

LEMMA WriteKeeps ==
  ASSUME NEW t, Apps = {t}, FleetInv(t), WriteCache
  PROVE  FleetInv(t)'
<1> DEFINE c == callback
           d == Past(callback)
           entry == [graph |-> callback.seen, factsheet |-> callback.computed]
<1>1. /\ Phase(c) = "write" /\ callback' = d /\ cache' = [cache EXCEPT ![c.vehicle] = entry]
      /\ agvs' = agvs /\ gone' = gone /\ active_graph' = active_graph
      /\ factsheet' = factsheet /\ app' = app /\ UNCHANGED <<registry, app>>
  BY DEF WriteCache, AtStep, Phase, registry
<1>2. /\ Threaded(c) /\ c.vehicle \in Vehicles /\ c.vehicle # Null
      /\ c.self \in Objects /\ c.self[1] = c.vehicle
      /\ c.held = {c.self} /\ Made(t, c.self)
  BY ONLY <1>1, FleetInv(t), AligningIs
<1>3. GoesOn(c, d)
  BY ONLY <1>1, <1>2, PastGoesOn
<1> HIDE DEF d
<1>4. Threaded(d) /\ Phase(d) = "drop"
  BY ONLY <1>1, <1>2, <1>3 DEF GoesOn, Threaded, Follows
<1>5. SameMade(t)
  BY ONLY <1>1, <1>3 DEF SameMade, Made, Used, GoesOn
<1>6. CallbackInv'
  BY ONLY <1>1, <1>2, <1>3, <1>4 DEF CallbackInv, GoesOn, TeardownSteps
<1>7. factsheet \in [Objects -> Nat] /\ cache = [v \in Vehicles |-> cache[v]]
  BY DEF FleetInv, StateInv
<1>8. cache' = [v \in Vehicles |-> cache'[v]]
  BY ONLY <1>1, <1>7
<1>9. factsheet' \in [Objects -> Nat]
      /\ \A i \in Objects : factsheet'[i] # 0 => factsheet[i] # 0 \/ Made(t, i)'
  BY ONLY <1>1, <1>7
<1> QED
  BY ONLY <1>1, <1>4, <1>5, <1>6, <1>8, <1>9, FleetInv(t), AlignMoves

(* The callback lets go of its object, or becomes the thread of its ~AGV.  *)
LEMMA DropSelfKeeps ==
  ASSUME NEW t, Apps = {t}, FleetInv(t), DropSelf
  PROVE  FleetInv(t)'
<1> DEFINE c == callback
           d == Dropped(callback)
<1>1. /\ Phase(c) = "drop" /\ callback' = d /\ gone' = Gone(c)
      /\ agvs' = agvs /\ active' = active /\ topics' = topics /\ handlers' = handlers
      /\ deaf' = deaf /\ app' = app /\ UNCHANGED <<agvs, app>> /\ UNCHANGED layout
      /\ factsheet' = factsheet /\ cache' = cache
  BY DEF DropSelf, AtStep, Phase, layout
<1>2. StateInv(t) /\ MadeInv(t) /\ Threaded(c)
  BY DEF FleetInv, StateInv
<1>3. /\ OwnObjects(agvs) /\ OwnObjects(handlers) /\ factsheet \in [Objects -> Nat]
      /\ cache = [v \in Vehicles |-> cache[v]]
      /\ active \subseteq Objects /\ gone \subseteq Objects
  BY ONLY <1>2 DEF StateInv
<1>4. c.vehicle \in Vehicles /\ c.self \in Objects /\ c.self[1] = c.vehicle
      /\ c.held \subseteq {c.self}
  BY <1>1 DEF FleetInv, CallbackInv, Phase
<1>5. \A i \in c.held : IF i \in Orphans(c) THEN agvs[i[1]] # i /\ i \notin app[t].held
                        ELSE agvs[i[1]] = i \/ i \in app[t].held
  BY ONLY <1>2, Apps = {t}, OrphansAre
<1>6. /\ \/ Orphans(c) = {} /\ d = Idle /\ gone' = gone
         \/ /\ c.self \in Orphans(c) /\ c.held = {c.self}
            /\ Fields(d, d.steps, c.vehicle, c.held, c.self, c.seen, c.computed)
            /\ d.steps \in Plans /\ Phase(d) = "deactivate" /\ gone' = gone \cup {c.self}
  <2>1. Orphans(c) \subseteq c.held
    BY DEF Orphans
  <2>2. \/ Orphans(c) = {} /\ d = Idle /\ Gone(c) = gone
        \/ \E o \in Orphans(c) :
             /\ Fields(d, d.steps, c.vehicle, c.held, o, c.seen, c.computed)
             /\ d.steps \in Plans /\ Phase(d) = "deactivate" /\ Gone(c) = gone \cup {o}
    BY ONLY <1>1, <1>2, DropEffect
  <2> QED
    BY ONLY <1>1, <1>4, <2>1, <2>2
<1> HIDE DEF d
<1>7. Threaded(d)
  BY ONLY <1>4, <1>6, IdleThread DEF Fields, Threaded, Phase
<1>8. SameMade(t)
  <2>1. CASE Orphans(c) = {} /\ d = Idle /\ gone' = gone
    BY ONLY <2>1, <1>1, <1>5, IdleThread DEF SameMade, Made, Used, Fields
  <2>2. CASE c.held = {c.self} /\ gone' = gone \cup {c.self} /\ d.held = c.held
    BY ONLY <2>2, <1>1 DEF SameMade, Made, Used
  <2> QED
    BY ONLY <1>6, <2>1, <2>2 DEF Fields
<1>9. gone \subseteq gone' /\ gone' \subseteq Objects
  BY ONLY <1>3, <1>4, <1>6
<1>10. \A v \in Vehicles : agvs[v] \notin gone'
  <2>1. \A v \in Vehicles : agvs[v] \notin gone
    BY ONLY <1>2 DEF MadeInv
  <2>2. c.self \in Orphans(c) /\ c.held = {c.self} => \A v \in Vehicles : agvs[v] # c.self
    BY ONLY <1>3, <1>4, <1>5, FleetAssumption DEF OwnObjects
  <2> QED
    BY ONLY <1>6, <2>1, <2>2
<1>11. MadeInv(t)'
  BY ONLY <1>1, <1>2, <1>3, <1>8, <1>10, MadeKept
<1>12. CallbackInv'
  <2>1. CASE d = Idle
    BY ONLY <2>1, <1>1, IdleThread DEF CallbackInv, Fields, TeardownSteps
  <2>2. CASE /\ Fields(d, d.steps, c.vehicle, {c.self}, c.self, c.seen, c.computed)
             /\ Phase(d) = "deactivate" /\ gone' = gone \cup {c.self}
    BY ONLY <2>2, <1>1, <1>4 DEF CallbackInv, Fields, TeardownSteps
  <2> QED
    BY ONLY <1>6, <2>1, <2>2
<1>13. SameOnboarding(app[t], app'[t])
  BY ONLY <1>1 DEF SameOnboarding
<1>14. HeardInv(t)'
  BY ONLY <1>1, <1>13, FleetInv(t), HeardKept DEF FleetInv
<1> QED
  BY ONLY <1>1, <1>3, <1>7, <1>8, <1>9, <1>11, <1>12, <1>14, FleetInv(t), CallbackMoves
     DEF OwnObjects

LEMMA OwnTeardownKeeps ==
  ASSUME NEW t, Apps = {t}, FleetInv(t), UNCHANGED app, TeardownStep(callback, callback')
  PROVE  FleetInv(t)'
<1> DEFINE c == callback
           d == callback'
<1>1. StateInv(t) /\ MadeInv(t) /\ Threaded(c) /\ CallbackInv
  BY DEF FleetInv, StateInv
<1>2. TornDown(c, d) /\ TornBy(c, d)
  BY ONLY <1>1, TeardownStep(callback, callback'), TeardownEffect
<1>3. Phase(c) \in TeardownSteps /\ c.steps # <<>> /\ c # Idle
  BY ONLY <1>2, IdleThread DEF TornDown, TeardownSteps, Phase
<1>4. Phase(c) # "erase"
  BY ONLY <1>3, TeardownStep(callback, callback')
     DEF TeardownStep, Deactivate, Unsubscribe, UnsubscribeFails, Erase, HandlersFree, AtStep, Phase
<1>5. /\ c.vehicle \in Vehicles /\ c.self \in Objects /\ c.self[1] = c.vehicle
      /\ c.held = {c.self} /\ c.self \in gone
  BY ONLY <1>1, <1>3 DEF CallbackInv
<1>6. /\ OwnObjects(agvs) /\ OwnObjects(handlers) /\ factsheet \in [Objects -> Nat]
      /\ cache = [v \in Vehicles |-> cache[v]]
      /\ active \subseteq Objects /\ gone \subseteq Objects
  BY ONLY <1>1 DEF StateInv
<1>7. /\ agvs' = agvs /\ gone' = gone /\ deaf' = deaf /\ factsheet' = factsheet
      /\ cache' = cache /\ handlers' = handlers /\ active' \subseteq active
      /\ app' = app /\ UNCHANGED <<agvs, app>> /\ UNCHANGED layout
  BY ONLY <1>2, <1>3, UNCHANGED app DEF TornBy, layout
<1>8. Threaded(d)
  BY ONLY <1>2, <1>5 DEF TornDown, Threaded
<1>9. d.held \subseteq {c.self}
  BY ONLY <1>2, <1>5 DEF TornDown
<1>10. SameMade(t)
  BY ONLY <1>5, <1>7, <1>9 DEF SameMade, Made, Used
<1>11. \A v \in Vehicles : agvs[v] \notin gone
  BY ONLY <1>1 DEF MadeInv
<1>12. MadeInv(t)'
  BY ONLY <1>1, <1>6, <1>7, <1>10, <1>11, MadeKept
<1>13. CallbackInv'
  <2>1. /\ Phase(d) \in {"unsubscribe", "erase", "drop"}
        /\ Phase(d) \in {"unsubscribe", "erase"} => d.held = c.held
        /\ d.vehicle = c.vehicle /\ d.self = c.self
    BY ONLY <1>2 DEF TornDown
  <2> QED
    BY ONLY <2>1, <1>5, <1>7, <1>9 DEF CallbackInv, TeardownSteps
<1>14. SameOnboarding(app[t], app'[t])
  BY ONLY <1>7 DEF SameOnboarding
<1>15. HeardInv(t)'
  <2>1. \A v \in Vehicles : agvs[v] # Null =>
          /\ agvs[v] \in active => agvs[v] \in active'
          /\ v \in topics => v \in topics' \/ Phase(d) = "erase"
          /\ handlers'[v] = handlers[v]
    BY ONLY <1>2, <1>5, <1>7, <1>11 DEF TornBy
  <2> QED
    BY ONLY <1>4, <1>7, <1>14, <2>1, FleetInv(t), HeardKept DEF FleetInv
<1> QED
  BY ONLY <1>6, <1>7, <1>8, <1>10, <1>12, <1>13, <1>15, FleetInv(t), CallbackMoves
     DEF OwnObjects

-----------------------------------------------------------------------------
(* The theorems.                                                           *)

LEMMA FleetStarts ==
  ASSUME NEW t, Apps = {t}, FleetInit
  PROVE  FleetInv(t)
<1>1. app[t] = Idle /\ callback = Idle
  BY DEF FleetInit
<1>2. Fields(Idle, <<>>, Null, {}, Null, Null, Null) /\ Threaded(Idle) /\ Phase(Idle) = "idle"
  BY ONLY IdleThread
<1>3. StateInv(t)
  BY <1>1, <1>2, FleetAssumption DEF FleetInit, StateInv, OwnObjects
<1>4. MadeInv(t)
  <2>1. \A i \in Objects : ~ Made(t, i) /\ i[1] \in Vehicles /\ i[2] \in 1 .. MaxObjects
    BY <1>1, <1>2, FleetAssumption DEF FleetInit, Made, Used, Fields, Objects
  <2>2. \A v \in Vehicles : Counts(t, v, 0)
    BY ONLY <2>1, FleetAssumption DEF Counts
  <2>3. 0 \in 0 .. MaxObjects
    BY FleetAssumption
  <2> QED
    BY <2>2, <2>3 DEF FleetInit, MadeInv
<1>5. AppInv(t) /\ CallbackInv
  BY ONLY <1>1, <1>2 DEF AppInv, CallbackInv, Fields, TeardownSteps, Looking
<1>6. HeardInv(t)
  BY DEF FleetInit, HeardInv
<1> QED
  BY ONLY <1>3, <1>4, <1>5, <1>6 DEF FleetInv

LEMMA FleetStutters ==
  ASSUME NEW t, FleetInv(t), UNCHANGED fleetVars
  PROVE  FleetInv(t)'
BY DEF fleetVars, registry, layout, FleetInv, StateInv, MadeInv, AppInv, CallbackInv, HeardInv,
       Made, Used, Counts, Onboarding, OwnObjects

LEMMA FleetSteps ==
  ASSUME NEW t, Apps = {t}, FleetInv(t), FleetNext
  PROVE  FleetInv(t)'
<1>1. ASSUME NEW v \in Vehicles, OnboardAgv(t, v)
      PROVE  FleetInv(t)'
  BY ONLY <1>1, Apps = {t}, FleetInv(t), OnboardKeeps
<1>2. ASSUME NEW v \in Vehicles, OffboardAgv(t, v)
      PROVE  FleetInv(t)'
  BY ONLY <1>2, Apps = {t}, FleetInv(t), OffboardKeeps
<1>3. ASSUME NEW g \in Layouts, SetGraph(t, g)
      PROVE  FleetInv(t)'
  BY ONLY <1>3, Apps = {t}, FleetInv(t), SetGraphKeeps
<1>4. ASSUME NEW v \in Vehicles, MessageArrived(v)
      PROVE  FleetInv(t)'
  BY ONLY <1>4, Apps = {t}, FleetInv(t), ArrivalKeeps
<1>5. ASSUME AppStep(t)
      PROVE  FleetInv(t)'
  <2>1. CASE Create(t)
    BY ONLY <2>1, Apps = {t}, FleetInv(t), CreateKeeps
  <2>2. CASE Activate(t)
    BY ONLY <2>2, Apps = {t}, FleetInv(t), ActivateKeeps
  <2>3. CASE Subscribe(t)
    BY ONLY <2>3, Apps = {t}, FleetInv(t), SubscribeKeeps
  <2>4. CASE SubscribeFails(t)
    BY ONLY <2>4, Apps = {t}, FleetInv(t), SubscribeFailsKeeps
  <2>5. CASE Install(t)
    BY ONLY <2>5, Apps = {t}, FleetInv(t), InstallKeeps
  <2>6. CASE Remove(t)
    BY ONLY <2>6, Apps = {t}, FleetInv(t), RemoveKeeps
  <2>7. CASE SnapshotAgvs(t)
    BY ONLY <2>7, Apps = {t}, FleetInv(t), SnapshotKeeps
  <2>8. CASE Compute(t)
    BY ONLY <2>8, Apps = {t}, FleetInv(t), ComputeKeeps
  <2>9. CASE Swap(t)
    BY ONLY <2>9, Apps = {t}, FleetInv(t), SwapKeeps
  <2>10. CASE Drop(t)
    BY ONLY <2>10, Apps = {t}, FleetInv(t), DropKeeps
  <2>11. ASSUME NEW q, Steps(t, q), TeardownStep(app[t], q), UNCHANGED callback
         PROVE  FleetInv(t)'
    BY ONLY <2>11, Apps = {t}, FleetInv(t), TeardownKeeps
  <2> QED
    BY ONLY <1>5, <2>1, <2>2, <2>3, <2>4, <2>5, <2>6, <2>7, <2>8, <2>9, <2>10, <2>11
       DEF AppStep
<1>6. ASSUME CallbackStep
      PROVE  FleetInv(t)'
  <2>1. CASE StoreFactsheet
    BY ONLY <2>1, Apps = {t}, FleetInv(t), StoreKeeps
  <2>2. CASE ReadGraph
    BY ONLY <2>2, Apps = {t}, FleetInv(t), ReadKeeps
  <2>3. CASE WriteCache
    BY ONLY <2>3, Apps = {t}, FleetInv(t), WriteKeeps
  <2>4. CASE DropSelf
    BY ONLY <2>4, Apps = {t}, FleetInv(t), DropSelfKeeps
  <2>5. CASE /\ \E after \in After(callback) : callback' = after /\ TeardownStep(callback, after)
             /\ UNCHANGED app
    <3>1. TeardownStep(callback, callback')
      BY ONLY <2>5
    <3> QED
      BY ONLY <3>1, <2>5, Apps = {t}, FleetInv(t), OwnTeardownKeeps
  <2> QED
    BY ONLY <1>6, <2>1, <2>2, <2>3, <2>4, <2>5 DEF CallbackStep
<1> QED
  BY ONLY <1>1, <1>2, <1>3, <1>4, <1>5, <1>6, Apps = {t}, FleetNext DEF FleetNext

(* The invariant holds of every state that one application thread and the  *)
(* callback thread of the client can reach.                                *)
(* Code: onboard_agv, offboard_agv, set_graph, handle_factsheet, ~AGV.     *)
THEOREM FleetInvariant ==
  ASSUME NEW t, Apps = {t}
  PROVE  FleetSpec => []FleetInv(t)
<1>1. FleetInit => FleetInv(t)
  BY FleetStarts, Apps = {t}
<1>2. FleetInv(t) /\ [FleetNext]_fleetVars => FleetInv(t)'
  BY FleetSteps, FleetStutters, Apps = {t}
<1> QED
  BY <1>1, <1>2, PTL DEF FleetSpec

(* Between the calls of one application thread every onboarded vehicle is  *)
(* heard by its present object: whatever tears down an older object of it  *)
(* has taken neither its topic nor its entry in the client's table.        *)
(* Code: onboard_agv, offboard_agv, ~AGV, ProtocolAdapter::subscribe and   *)
(* unsubscribe, PahoMqttClient::subscribe and unsubscribe.                 *)
THEOREM HeardWhenQuiet ==
  ASSUME NEW t, Apps = {t}
  PROVE  FleetSpec => []OnboardedIsHeard
<1>1. FleetInv(t) => OnboardedIsHeard
  <2> SUFFICES ASSUME FleetInv(t), Quiet, ~ TearsDown(callback),
                      NEW v \in Vehicles, agvs[v] # Null, v \notin deaf
               PROVE  v \in topics /\ handlers[v] = agvs[v] /\ Live(agvs[v])
    BY DEF OnboardedIsHeard
  <2>1. Phase(callback) # "erase"
    BY DEF TearsDown, Teardown, AtStep, Phase
  <2>2. Phase(app[t]) = "idle"
    BY ONLY Quiet, Apps = {t}, IdleThread DEF Quiet
  <2>3. agvs[v] \in active /\ v \in topics /\ handlers[v] = agvs[v]
    BY <2>1, <2>2 DEF FleetInv, HeardInv, Onboarding
  <2>4. agvs[v] \notin gone
    BY DEF FleetInv, MadeInv
  <2> QED
    BY <2>3, <2>4 DEF Live
<1> QED
  BY <1>1, FleetInvariant, Apps = {t}, PTL

=============================================================================
