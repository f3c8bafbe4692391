---------------------------- MODULE FleetRegistry ----------------------------
(***************************************************************************)
(* The master's registry of vehicles and the MQTT client underneath it:    *)
(* onboarding and offboarding, the topic a vehicle is heard on, the        *)
(* layout with its alignment cache, and the callback that brings a         *)
(* factsheet.                                                              *)
(*                                                                         *)
(* Application threads run one call at a time as a list of critical        *)
(* sections; the callback thread of the client runs one handler at a time  *)
(* and holds handler_mutex_ while it does.  An AGV object is its vehicle   *)
(* and a number.  It lives while the map, a thread or a callback refers to *)
(* it, and the one that drops the last reference runs ~AGV.  The four      *)
(* topics of a vehicle are one here.                                       *)
(***************************************************************************)
EXTENDS Integers, Sequences, FiniteSets

CONSTANTS
  Vehicles, Apps,
  Null,
  MaxObjects,    \* a bound on the AGV objects of one vehicle
  Layouts,       \* the layouts an application may install
  Factsheets,    \* the versions a vehicle may send, numbers above 0
  BrokerRefuses  \* whether a subscribe or unsubscribe may fail

VARIABLES
  agvs,          \* agvs_
  topics,        \* the topics the broker routes to this client
  handlers,      \* handlers_ of the client: the object each topic calls
  active,        \* the objects whose active_flags_ are set
  gone,          \* the objects whose destructor has begun
  factsheet,     \* last_factsheet_ of each object, 0 when empty
  active_graph,  \* active_graph_, Null when null
  cache,         \* alignment_cache_: the graph and factsheet compared
  deaf,          \* history: vehicles whose last subscribe failed
  app, callback  \* the threads

registry == <<agvs, topics, handlers, active, gone, deaf>>
layout   == <<factsheet, active_graph, cache>>
fleetVars == <<registry, layout, app, callback>>

Objects == Vehicles \X (1 .. MaxObjects)

ASSUME FleetAssumption ==
  /\ IsFiniteSet(Vehicles) /\ IsFiniteSet(Apps)
  /\ Vehicles \cap Apps = {} /\ "callback" \notin Vehicles \cup Apps
  /\ Null \notin Vehicles \cup Objects \cup Layouts
  /\ MaxObjects \in Nat
  /\ Factsheets \subseteq Nat \ {0}

Idle == [steps |-> <<>>, vehicle |-> Null, held |-> {}, self |-> Null, seen |-> Null,
         computed |-> Null]

FleetInit ==
  /\ agvs = [v \in Vehicles |-> Null]
  /\ topics = {}
  /\ handlers = [v \in Vehicles |-> Null]
  /\ active = {} /\ gone = {}
  /\ factsheet = [i \in Objects |-> 0]
  /\ active_graph = Null
  /\ cache = [v \in Vehicles |-> Null]
  /\ deaf = {}
  /\ app = [t \in Apps |-> Idle]
  /\ callback = Idle

-----------------------------------------------------------------------------
(* Threads and references.                                                 *)

AtStep(thread, step) == thread.steps # <<>> /\ Head(thread.steps) = step
Past(thread) == [thread EXCEPT !.steps = Tail(@)]
Done(thread) == IF thread.steps = <<>> THEN Idle ELSE thread

Referrers(i) ==
  {v \in Vehicles : agvs[v] = i} \cup {t \in Apps : i \in app[t].held}
    \cup (IF i \in callback.held THEN {"callback"} ELSE {})

Orphans(thread) == {i \in thread.held : Cardinality(Referrers(i)) = 1}

Created(v) == {i \in Objects : i[1] = v /\ (i \in gone \/ Referrers(i) # {})}
NextObject(v) == <<v, Cardinality(Created(v)) + 1>>

(* handler_mutex_ is free.                                                 *)
HandlersFree == callback = Idle

(* A thread leaves the scope of its references: with the last one to an    *)
(* object, ~AGV runs on it.                                                *)
Teardown == <<"deactivate", "unsubscribe", "erase">>

Dropped(thread) ==
  IF Orphans(thread) = {} THEN Done([Past(thread) EXCEPT !.held = {}])
  ELSE [thread EXCEPT !.self = CHOOSE i \in Orphans(thread) : TRUE, !.steps = Teardown \o @]

Gone(thread) == gone \cup ({Dropped(thread).self} \cap Orphans(thread))

-----------------------------------------------------------------------------
(* Calls of the application.                                               *)

Call(t, steps, v) ==
  /\ app[t] = Idle
  /\ app' = [app EXCEPT ![t] = [Idle EXCEPT !.steps = steps, !.vehicle = v]]
  /\ UNCHANGED <<registry, layout, callback>>

OnboardAgv(t, v) ==
  /\ NextObject(v) \in Objects
  /\ Call(t, <<"create", "activate", "subscribe", "install", "drop">>, v)
OffboardAgv(t, v) == Call(t, <<"remove", "drop">>, v)
SetGraph(t, g) ==
  /\ app[t] = Idle
  /\ app' = [app EXCEPT ![t] = [Idle EXCEPT !.steps = <<"snapshot", "compute", "swap", "drop">>,
                                            !.seen = g]]
  /\ UNCHANGED <<registry, layout, callback>>

Steps(t, thread) == app' = [app EXCEPT ![t] = thread]

(* onboard_agv under agv_mutex_; a second onboarding returns.              *)
CreateAnyway(t) ==          \* a fault: an onboarded vehicle is replaced
  LET i == NextObject(app[t].vehicle)
  IN /\ AtStep(app[t], "create")
     /\ agvs' = [agvs EXCEPT ![app[t].vehicle] = i]
     /\ deaf' = deaf \ {app[t].vehicle}
     /\ Steps(t, [Past(app[t]) EXCEPT !.self = i, !.held = {i}])
     /\ UNCHANGED <<topics, handlers, active, gone, layout, callback>>

Create(t) ==
  LET v == app[t].vehicle
      i == NextObject(v)
  IN /\ AtStep(app[t], "create")
     /\ \/ /\ agvs[v] # Null
           /\ Steps(t, Idle)
           /\ UNCHANGED <<agvs, deaf>>
        \/ /\ agvs[v] = Null
           /\ agvs' = [agvs EXCEPT ![v] = i]
           /\ deaf' = deaf \ {v}
           /\ Steps(t, [Past(app[t]) EXCEPT !.self = i, !.held = {i}])
     /\ UNCHANGED <<topics, handlers, active, gone, layout, callback>>

(* setup_subscriptions: the flag of the new wrapper, the broker, then the  *)
(* table.  A broker that refuses leaves the table as it is.                *)
Activate(t) ==
  /\ AtStep(app[t], "activate")
  /\ active' = active \cup {app[t].self}
  /\ Steps(t, Past(app[t]))
  /\ UNCHANGED <<agvs, topics, handlers, gone, deaf, layout, callback>>

Subscribe(t) ==
  /\ AtStep(app[t], "subscribe")
  /\ topics' = topics \cup {app[t].vehicle}
  /\ Steps(t, Past(app[t]))
  /\ UNCHANGED <<agvs, handlers, active, gone, deaf, layout, callback>>

SubscribeFails(t) ==
  /\ BrokerRefuses
  /\ AtStep(app[t], "subscribe")
  /\ deaf' = deaf \cup {app[t].vehicle}
  /\ Steps(t, Past(Past(app[t])))
  /\ UNCHANGED <<agvs, topics, handlers, active, gone, layout, callback>>

Install(t) ==
  /\ AtStep(app[t], "install")
  /\ HandlersFree
  /\ handlers' = [handlers EXCEPT ![app[t].vehicle] = app[t].self]
  /\ Steps(t, Past(app[t]))
  /\ UNCHANGED <<agvs, topics, active, gone, deaf, layout, callback>>

(* offboard_agv: the map first; stop() and the assignment in between touch *)
(* nothing that is modelled here.                                          *)
Remove(t) ==
  LET v == app[t].vehicle
  IN /\ AtStep(app[t], "remove")
     /\ \/ /\ agvs[v] = Null
           /\ Steps(t, Idle)
           /\ UNCHANGED agvs
        \/ /\ agvs[v] # Null
           /\ agvs' = [agvs EXCEPT ![v] = Null]
           /\ Steps(t, [Past(app[t]) EXCEPT !.held = {agvs[v]}])
     /\ UNCHANGED <<topics, handlers, active, gone, deaf, layout, callback>>

(* set_graph: the vehicles, their factsheets against the new graph, and    *)
(* graph and cache together.                                               *)
SnapshotAgvs(t) ==
  /\ AtStep(app[t], "snapshot")
  /\ Steps(t, [Past(app[t]) EXCEPT !.held = {agvs[v] : v \in Vehicles} \ {Null},
                                   !.computed = agvs])
  /\ UNCHANGED <<registry, layout, callback>>

Aligned(g, i) == IF i = Null THEN Null
                 ELSE IF factsheet[i] = 0 THEN Null
                 ELSE [graph |-> g, factsheet |-> factsheet[i]]

Compute(t) ==
  /\ AtStep(app[t], "compute")
  /\ Steps(t, [Past(app[t]) EXCEPT
                 !.computed = [v \in Vehicles |-> Aligned(app[t].seen, @[v])]])
  /\ UNCHANGED <<registry, layout, callback>>

Swap(t) ==
  /\ AtStep(app[t], "swap")
  /\ active_graph' = app[t].seen
  /\ cache' = app[t].computed
  /\ Steps(t, Past(app[t]))
  /\ UNCHANGED <<registry, factsheet, callback>>

Drop(t) ==
  /\ AtStep(app[t], "drop")
  /\ gone' = Gone(app[t])
  /\ Steps(t, Dropped(app[t]))
  /\ UNCHANGED <<agvs, topics, handlers, active, deaf, layout, callback>>

-----------------------------------------------------------------------------
(* ~AGV, by whichever thread.  The topic is the vehicle's, so what is      *)
(* unsubscribed and erased is its present handler, whosever it is.         *)

TearsDown(thread) == \E i \in DOMAIN Teardown : AtStep(thread, Teardown[i])

(* What becomes of the thread: the next step, or ~AGV is over.             *)
Over(thread) == [thread EXCEPT !.held = @ \ {thread.self}]
After(thread) == {Past(thread), Over(Past(thread)), Over(Past(Past(thread)))}

Deactivate(thread, after) ==
  /\ AtStep(thread, "deactivate")
  /\ after = Past(thread)
  /\ active' = active \ {thread.self}
  /\ UNCHANGED <<agvs, topics, handlers, gone, deaf, layout>>

Unsubscribe(thread, after) ==
  /\ AtStep(thread, "unsubscribe")
  /\ after = Past(thread)
  /\ topics' = topics \ {thread.self[1]}
  /\ UNCHANGED <<agvs, handlers, active, gone, deaf, layout>>

UnsubscribeFails(thread, after) ==
  /\ BrokerRefuses
  /\ AtStep(thread, "unsubscribe")
  /\ after = Over(Past(Past(thread)))
  /\ UNCHANGED <<registry, layout>>

(* A callback thread that tears an AGV down waits for the mutex it holds.  *)
Erase(thread, after) ==
  /\ AtStep(thread, "erase")
  /\ HandlersFree
  /\ after = Over(Past(thread))
  /\ handlers' = [handlers EXCEPT ![thread.self[1]] = Null]
  /\ UNCHANGED <<agvs, topics, active, gone, deaf, layout>>

TeardownStep(thread, after) ==
  \/ Deactivate(thread, after)
  \/ Unsubscribe(thread, after)
  \/ UnsubscribeFails(thread, after)
  \/ Erase(thread, after)

-----------------------------------------------------------------------------
(* The callback thread: message_arrived with a factsheet.                  *)

(* The wrapper goes on if its flag is set and its AGV still lives.         *)
Live(i) == i # Null /\ i \in active /\ i \notin gone

MessageArrived(v) ==
  /\ callback = Idle
  /\ Live(handlers[v])
  /\ \E f \in Factsheets :
       callback' = [Idle EXCEPT !.steps = <<"store", "read", "write", "drop">>,
                      !.vehicle = v, !.held = {handlers[v]}, !.self = handlers[v],
                      !.computed = f]
  /\ UNCHANGED <<registry, layout, app>>

StoreFactsheet ==
  /\ AtStep(callback, "store")
  /\ factsheet' = [factsheet EXCEPT ![callback.self] = callback.computed]
  /\ callback' = Past(callback)
  /\ UNCHANGED <<registry, active_graph, cache, app>>

(* refresh_alignment_for_agv: without a layout there is nothing to align.  *)
ReadGraph ==
  /\ AtStep(callback, "read")
  /\ callback' = IF active_graph = Null THEN Past(Past(callback))
                 ELSE [Past(callback) EXCEPT !.seen = active_graph]
  /\ UNCHANGED <<registry, layout, app>>

WriteCache ==
  /\ AtStep(callback, "write")
  /\ cache' = [cache EXCEPT ![callback.vehicle] =
                [graph |-> callback.seen, factsheet |-> callback.computed]]
  /\ callback' = Past(callback)
  /\ UNCHANGED <<registry, factsheet, active_graph, app>>

DropSelf ==
  /\ AtStep(callback, "drop")
  /\ gone' = Gone(callback)
  /\ callback' = Dropped(callback)
  /\ UNCHANGED <<agvs, topics, handlers, active, deaf, layout, app>>

-----------------------------------------------------------------------------

AppStep(t) ==
  \/ Create(t) \/ Activate(t) \/ Subscribe(t) \/ SubscribeFails(t) \/ Install(t)
  \/ Remove(t)
  \/ SnapshotAgvs(t) \/ Compute(t) \/ Swap(t)
  \/ Drop(t)
  \/ /\ TearsDown(app[t])
     /\ \E after \in After(app[t]) : Steps(t, after) /\ TeardownStep(app[t], after)
     /\ UNCHANGED callback

CallbackStep ==
  \/ StoreFactsheet \/ ReadGraph \/ WriteCache \/ DropSelf
  \/ /\ TearsDown(callback)
     /\ \E after \in After(callback) : callback' = after /\ TeardownStep(callback, after)
     /\ UNCHANGED app

FleetNext ==
  \/ \E t \in Apps : AppStep(t) \/ (\E g \in Layouts : SetGraph(t, g))
  \/ \E t \in Apps, v \in Vehicles : OnboardAgv(t, v) \/ OffboardAgv(t, v)
  \/ \E v \in Vehicles : MessageArrived(v)
  \/ CallbackStep

FleetFairness == (\A t \in Apps : WF_fleetVars(AppStep(t))) /\ WF_fleetVars(CallbackStep)

FleetSpec == FleetInit /\ [][FleetNext]_fleetVars /\ FleetFairness

-----------------------------------------------------------------------------
(* Properties.                                                             *)

Quiet == \A t \in Apps : app[t] = Idle

(* Between calls of one application thread a vehicle that is onboarded is  *)
(* heard: the broker routes its topic here, the table calls its present    *)
(* object and the wrapper is switched on.  Not so if the broker refused,   *)
(* or while the callback thread tears an older object of it down.          *)
(* Code: onboard_agv, offboard_agv, ~AGV, ProtocolAdapter::subscribe and   *)
(* unsubscribe, PahoMqttClient::subscribe and unsubscribe.                 *)
OnboardedIsHeard ==
  Quiet /\ ~ TearsDown(callback) =>
    \A v \in Vehicles : agvs[v] # Null /\ v \notin deaf =>
      /\ v \in topics
      /\ handlers[v] = agvs[v]
      /\ Live(agvs[v])

(* With a layout loaded and a factsheet received, an onboarded vehicle has *)
(* the alignment result of the newest of both, whichever came last.  It    *)
(* has not when the two overlap: each of the two computes from what it has *)
(* read, writes later, and looks at nothing again.                         *)
(* Code: handle_factsheet, refresh_alignment_for_agv ("Pairs with load/set *)
(* to keep alignment fresh whichever of {layout-load, factsheet-arrival}   *)
(* happens last"), set_graph.                                              *)
AlignmentFresh ==
  Quiet /\ callback = Idle /\ active_graph # Null =>
    \A v \in Vehicles :
      agvs[v] # Null /\ factsheet[agvs[v]] # 0 =>
        cache[v] = Aligned(active_graph, agvs[v])

(* Once a vehicle is offboarded and nothing is called any more, the broker *)
(* stops routing its messages and the client forgets its handler, or it is *)
(* onboarded again.                                                        *)
(* Code: offboard_agv ("The AGV destructor calls                           *)
(* protocol_adapter_->unsubscribe<T>() for each subscribed topic").        *)
OffboardUnsubscribes ==
  \A v \in Vehicles :
    (agvs[v] = Null /\ handlers[v] # Null) ~> (handlers[v] = Null \/ agvs[v] # Null)

=============================================================================
