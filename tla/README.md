# TLA+ verification of vda5050_core

This directory holds TLA+ models of `src/vda5050/vda5050_core`, the C++ library
of both ends of the VDA5050 protocol: a *master* that sends orders to a fleet
of vehicles over MQTT, and the *client* that receives them on a vehicle. The
models are translated from the source, TLC checks them on small instances and
TLAPS proves the theorems about them for every value of the constants.

Paths below are relative to `src/vda5050/vda5050_core/`; `agv.cpp` is
`src/master/agv.cpp`, and so on.

    tlc -config MCAgvOrders.cfg MCAgvOrders      # a run
    tlapm AgvOrdersProofs.tla                    # the proofs of a module

`PROJECT.json` lists the runs, the theorems, the source lines every definition
stands for, the hazards of the code, and for every property of a passing run a
mutant: an operator kept beside the definition it replaces ("a fault: ..."),
under which TLC finds the property violated. Those operators are used by nothing
else.

## 1. Inventory

### Master, one vehicle

| Part | State | Operations | Hard because |
|---|---|---|---|
| **Order stitching rules** (`order_lifecycle_manager.cpp`: `combine_order`, `order_stitcher.cpp`) | none | merge an update into an order; decide SEND_NOW, QUEUE or REJECT on a snapshot | routes with released base and horizon; a stitch node that both orders carry; many guards in a given order |
| **Order lifecycle manager** (`order_lifecycle_manager.cpp`) | tracked order, mirror of the last State, completion, parked updates, strike counter | `record_published`, `on_state_update`, `enqueue_pending_update`, `clear`, `snapshot` | every method is atomic, every *use* takes several: decide, publish and record are three |
| **Order path of the AGV** (`agv.cpp`) | outbound queue, mode-cancelled buffer, cached State | `send_order`, `publish_order`, `handle_state`, `resume_`/`discard_mode_cancelled_queue`, `stop`, `restart` | three threads, a critical section at a time |
| **Queue processor** (`agv.cpp:1057-1163`) | stop flag, running flag, `std::thread` handle, condition variable | `start_queue_processor`, `stop_queue_processor`, `process_queues` | called from the MQTT thread and from application threads; the join is outside the lock |
| **Connection and operational state** (`agv.cpp:146-489`) | connection status, operational state, `prev_connection_` | `handle_connection`, `handle_state`, `pause`, `resume`, `stop`, `restart` | two status variables written by three threads, a precedence rule between them |
| **State heartbeat** (`heartbeat.cpp`) | listener state, last report, timeout episode | start, stop, `received_connection`, `listen` | a timeout races a late State; a join waits for a user callback |
| **Publisher chain** (`order_publisher.cpp`, `pre_send_validator.cpp`, `order_graph_validator.cpp`, ...) | none | validate, publish | reads a context under one lock after another |

Correct means, here: an order or update goes out at most once and in the order
of dispatch; what the tracker says is what the wire says; no order goes out
against another one in progress; an update extends the order it was judged
against; stopping stops, and returns; nothing is published to a vehicle that is
known to be gone; silence is noticed and its end announced; a disagreement with
the vehicle comes to an end.

### Master, the fleet

| Part | State | Operations | Hard because |
|---|---|---|---|
| **Fleet registry and assignment** (`master.cpp`) | AGV table, layout graph, alignment cache, `active_assignments_` | onboard, offboard (one, many), `assign_order`, `assign_instant_actions`, `set_graph`, broker status | objects of one vehicle share a topic; the last reference may fall on the callback thread; a cache written after the graph was replaced; reports from a snapshot |
| **Instant actions** (`instant_actions_publisher.cpp`, `action_conflict_validator.cpp`, `instant_action_mode_validator.cpp`) | none | mode, conflict and capability gates, publish | the same gates twice, in the preview and in the chain |
| **Schema and traversability** (`schema_validator.cpp`, `traversability_validator.cpp`) | none | judge one message | four validators that each see a part |
| **State event detection** (`event_detector.cpp`, `state_event_detector.cpp`) | previous State | differences, named events | optional fields, dropped States, identity of errors |

Correct: a vehicle that is onboarded is heard and one that is offboarded is not;
a cached result belongs to the graph in force; what is previewed is what is
sent; an order that goes out can be driven; who follows the events knows the
State.

### Vehicle

| Part | State | Operations | Hard because |
|---|---|---|---|
| **Order acceptance** (`client/strategies/`) | current order, its place in it | accept, update, reject | the mirror image of the master's rules, on states instead of orders |
| **Adapter** (`client/adapter/`) | the order, two lookups, the request under way, the published State | order handler, dispatch thread, answers of the integration | answers arrive late and on any thread; lookups outlive what they index |
| **Execution engine** (`execution/`) | event queue, waits, the loop of the handler | `step`, `suspend`, `notify`, `spin`, `wake`, `stop` | waits without a predicate, timeouts noticed late |

Correct: an update is accepted exactly when it continues the order; both sides
agree on the base; the published states are one road; an event is not held back
for ever; stop silences.

### Shared

**MQTT transport** (`paho_mqtt_client.cpp`, `protocol_adapter.cpp`): a table of
topic handlers under `handler_mutex_`. Handlers run with the mutex held, on the
one callback thread. **Layout** (`layout/`): a document with five indices over
it, the rules of a valid one, and a loader. **Message types and JSON**: a writer
and a reader for each type. Correct: a message arrives as it was sent; the
indices are those of the layout; an edited layout loads again.

### How they interact

The application calls the master from its own threads; the master forwards to
the AGV objects. Each AGV has a *queue thread* that takes instant actions and
orders from the outbound queues and publishes them, and a *monitor thread* in
its heartbeat. Connection and State messages come in on the *MQTT thread*,
which tells the lifecycle manager, moves the updates it releases back into the
outbound queue, starts and stops the two other threads, and calls the
application's overrides. Everything they share is guarded by one of
`queue_mutex_`, `thread_mutex_`, `state_mutex_`, `data_mutex_`,
`heartbeat_mutex_` and `lifecycle_mutex_`, each held for a few lines: the
interesting behaviour is between two critical sections. A step of our models is
therefore one critical section, or the work of one thread between two.

## 2. Modules

    OrderOps            rules on orders, no state
      OrderLifecycle    the lifecycle manager, one operator per method
        AgvOrders       queue thread, MQTT thread, fleet manager
          MCAgvOrders  MCAgvSparse
      OrderSession      what AgvOrders promises (abstract)
      ClientAdapter     the vehicle's adapter, order side
        OrderFlow       AgvOrders and ClientAdapter over lossy topics
          MCOrderFlow
      MessageGates      validators, publisher chains, previews
      VehicleRuntime    order acceptance on the handler loop
    QueueProcessor      thread, flag, condition variable, handle
      MCQueueTwo
    Heartbeat           the listener and its clock
      AgvConnection     status, pause/resume, heartbeat, queue thread
        MCAgvConnection
    FleetRegistry       onboarding over the handler table, layout and cache
      MCOffboard
    StateEvents         what is read off two States in a row
    EventEngine         event queues and waits
    Values              the field that is absent, the number that is none
      JsonKinds         what a field can be
        MessageToJson   MessageFromJson      every to_json, every from_json
        LayoutToJson    LayoutFromJson       and those of the layout
        JsonCodec       writing and reading by such a table
      LayoutRules       validate_layout
        LayoutLoader    a layout file, read and judged
        LayoutGraph     the graph over a layout, and its edits
      Formats           messages read back, layouts loaded and edited
        FormatsInputs   the messages, files and edits of the run
    MCComponents        extends QueueProcessor, MessageGates, VehicleRuntime,
                        StateEvents, FleetRegistry and FormatsInputs and has an
                        instance of EventEngine: side by side, one of them moves
    OrderOpsProofs  AgvOrdersProofs  OrderFlowProofs  ComponentProofs
    VehicleRuntimeProofs  AgvConnectionProofs  FleetRegistryProofs  LayoutProofs

**OrderOps.** A route is a function from sequence ids to contents with a
`released` flag; nodes are even, edges odd. `Combine` and `CanCombine` are
`combine_order`, `Decide` is `OrderStitcher::decide` with its guards in order,
`IsValidGraph` and `IsValidUpdate` are the graph validator, of which
`is_valid_update` is what the vehicle side runs. Contents are opaque values, so
that byte equality of nodes is equality.

**OrderLifecycle.** `record_published`, `on_state_update` (completion, strike
counter of `tick_mismatch`, recovery, drain of the parked updates),
`enqueue_pending_update`, `clear` and `snapshot`, on the variables of the class.
All run under `lifecycle_mutex_`, so each is one operator.

**AgvOrders.** The queue thread in `publish_order` (pop, decide on a snapshot,
park, or copy the State, validate, publish, record), the MQTT thread in
`handle_state` (cache, tell the lifecycle, forward, capture the queue when the
vehicle leaves AUTOMATIC) and `handle_connection`, the fleet manager's calls,
and `stop` and `restart` in their critical sections. `wire` is what was handed
to the broker. The vehicle is arbitrary: any State of `States` at any time. A
validator that is not modelled may pass or fail.

**OrderSession.** The promise of the order path with no word on queues, threads
or snapshots: at most one order in progress, continued under higher update ids.
`AgvOrders!KeepsSession` is its specification under the mapping `issued <- wire`
and `session <- SessionNow`: the order being recorded while it is on its way out,
the tracked one otherwise.

**ClientAdapter.** The order handler, `process_navigation` in its two locks, the
answers `finished` and `failed`, and the order part of the `StateManager`. The
maps from sequence ids to positions are kept as the code keeps them: built for
the first order, and not for the updates. Reading past the end of a vector is a
choice between zeroed memory and the end of the process.

**OrderFlow.** `AgvOrders` and `ClientAdapter`: what is appended to the wire is
what the vehicle receives, in order, and the State it keeps is the only State
the master sees. QoS 0, so a bounded number of messages is lost either way.
`Reports` are the States the vehicle can publish; they are among the `States` that
`AgvOrders` lets a vehicle send. What the fleet manager has to see to is named, not
assumed: `InTurn` (the orders of one id go out under rising update ids) and
`OrdersContinue` (an update goes as far as the released nodes of the dispatches it
follows, and keeps what it holds of them).

**MessageGates.** The validators as predicates on one message in one context
(status, State, factsheet, layout, tracked order), `OrderPublisher::publish` and
`InstantActionsPublisher::publish` as their conjunctions, `publish_order` with
the stitch decision, and the two previews `assign_order` and
`assign_instant_actions` with their answers in order.

**VehicleRuntime.** The latest-wins cache of `AGVContext`, `Handler::spin`,
`wake` and `stop` with the condition variable, `OrderValidator`, and
`apply_new_order` and `apply_order_update` on sequences of node, edge and action
states. Driving is a host strategy that is not in the source: it reaches a
released node or finishes an action between two steps. `spin` is not called
while a `stop` yields. What the loops over the states keep is `Pick(q, I)`, the members of `q` at
the positions of `I`; `Ascending(I)` lists the members of `I` in order.

**StateEvents.** The differences between two States, on the callback path behind
the schema gate and in `EventDetector`. A listener that keeps a picture from the
events alone stands at the end of each.

**EventEngine.** Emitting, `suspend` with and without a timeout, `notify`,
`step`. A timeout passes at any time and is noticed by `check_timeout`.

**FleetRegistry.** A call of the application is a list of critical sections, from
`agv_mutex_` down to the broker, the handler table and `active_flags_`; the
callback thread runs one handler at a time and holds `handler_mutex_`. An AGV
object lives while something refers to it, and the thread that drops the last
reference runs `~AGV`: a step of its own for every lock. The four topics of a
vehicle are one.

**JsonKinds, MessageToJson, MessageFromJson, LayoutToJson, LayoutFromJson,
JsonCodec.** Functions of `serialization.hpp` and `layout_serialization.hpp` are
data: a table for every `to_json` and another for every `from_json`, each with the
keys, kinds and conditions that function has, so that a writer and its reader can
disagree as their two bodies could. `Encode` and `Decode` interpret a table:
enumerators as strings, times in milliseconds, NaN as null; a required key that is
missing refuses the message; an object of which nothing is written is null, as in
the code, and a reader that requires no key takes any token.

**LayoutRules, LayoutLoader, LayoutGraph, Formats.** `validate_layout`, the loader,
and every mutator of `Graph`, swap-and-pop and all, with its indices from ids to
places and, for each node, the edges that leave and enter it and the stations that
name it. `from_lif` and the mutators are the actions of `GraphSpec`; `Formats` takes
the same actions on what the loader made of a file, so its graph goes through
behaviours of `GraphSpec`. The vectors of edge and station ids are bags: no caller
and no mutator depends on their order. A mutator that throws, for an id in use, an
unknown layout or a node still referred to, has no step.

**QueueProcessor.** `start_queue_processor`, the critical section and the join
of `stop_queue_processor`, and `process_queues`, with any number of callers.
The condition variable is explicit: a waiter is *blocked* until notified or
woken spuriously, so a lost wakeup would show. Messages are counted.

**Heartbeat.** The listener of one AGV: its monitor thread waits for
`Interval`, checks, and calls back once per episode; a join waits until the
thread has left its loop. Time advances in the whole seconds of `is_timeout`.

**AgvConnection.** An operation is the list of its steps (`todo`), each a
critical section or a join: `handle_connection` by the state it brings,
`handle_state`, `stop`, `restart`, `pause`, `resume`. Beside it run the monitor
thread through `on_state_heartbeat_timeout` and the queue thread, which reads
the validator's context under three locks. Operations run one after the other,
as when the application makes its calls from the library's MQTT callbacks.

## 3. Runs

States are distinct states. No run has a state constraint; every bound is in a
guard or in a set that the configuration gives.

| Run | States | What it asks |
|---|---|---|
| `agv_orders` | 2,284,599 | an order of three nodes with base and horizon, two updates that stitch one on the other, and a competing order; queue of 2, one parked update, recovery after 2 strikes. Apart from it the mode-cancelled buffer, one `stop` or `restart` at any moment, a full queue that refuses the newest |
| `order_flow` | 179,218 | master and vehicle: an order with a horizon, an update that reroutes the horizon, and an order the vehicle refuses; one message lost |
| `beyond_base` | violation | does the vehicle stop at the end of its base |
| `stale_lookup` | violation | the same with an update on the second node: does the vehicle drive to the node that is next |
| `sparse_update` | violation | an update that leaves the stitch node out |
| `components` | 185,373 | seven components that share no state, each on its own |
| `stale_alignment` | violation | whether the alignment results are those of the layout in force |
| `offboard_hangs` | violation | whether an offboarded vehicle is unsubscribed |
| `agv_connection` | 947,272 | every sequence of Connection messages and calls, two States |
| `missed_resume` | violation | whether the end of a silence is always announced |
| `paused_queue` | violation | whether messages kept over a pause go out |
| `stop_hangs` | violation | whether every stop returns with two callers |

**agv_orders**, an order and its updates. `TypeOK` (the parked updates keep within their cap and the
strike counter below its threshold), `NoOrderTwice` (the six places an order can
be in hand it over without duplication), `TrackerMatchesWire`,
`NoConcurrentOrders`, `UpdateIdAdvances`, `ExtensionKeepsAnchor`. The bounds let
every case of `decide` and of the drain happen: an update before its order, at
its stitch node, past it, unconfirmed; a completed order; a mismatch that
recovers between decision and record; a queue that drops its oldest. The
properties relate at most two orders and one update of each, and a third order
(`A2`) is there so that an update is judged against a merged one.

**agv_orders**, modes. `NoOrderTwice` again, `DispatchOrderKept` (the buffer
returns in front of what was queued meanwhile), `NoOrderNoFlags` (restart and
recovery leave no completion flag or strike for the next order). Here orders have
one node each: the rules on routes are the business of the other part. The first
state chooses the part.

**order_flow.** `BaseAgrees` (what the vehicle may drive without asking, the
master tracks as released and alike), `UpdateFindsItsBase` (an update that goes
out meets a vehicle that drives the order it extends), `DisagreementEnds` (the
mismatch rule, against lost and refused orders), `HeldOrderCompletes` (failed
navigation is tried again until the order, if it is released to its end, is done
and the master knows). The property says nothing of an order with a horizon: that
the vehicle drives on there is finding 7. One
State is on its way at a time and one message is lost: enough for a State of a
finished order to arrive under the next one, for an order or update to vanish,
and for every State that could have ended a disagreement to be the lost one.
The two base properties say `InTurn` first: after a recovery the fleet manager can
dispatch an order that the vehicle has passed, which the vehicle refuses and the
master tracks, and no strike is counted, for the order ids agree. The run has such
behaviours (the update dispatched before its order), the properties except them.

**components.** The first state chooses the component that moves; the others stay
as they began, so that the state space is a sum and not a product.

- Queue processor, one caller: `TypeOK`, `OneThread`, `HandleKept`,
  `WorkIsTaken`, `StopReturns`. Queues hold 3; one more thread identity than
  callers is enough because a caller joins one at a time. `stop_hangs` has two
  callers, where `OneThread` and `StopReturns` fail.
- Gates, every combination of 4 contacts, 14 States, 3 factsheets, with and
  without a layout, 3 tracked orders and 20 messages, each of them wrong in at
  most one respect: `OrderDrivable`, `RecoveryActionsPass`, `MirrorsPublisher`,
  `PreviewAdmits`. A gate is a conjunction, so one wrong thing at a time is
  what tells two gates apart.
- Vehicle, six orders and updates that extend, shorten, redirect and do not
  stitch: `StatesLinked`, `BaseAgreesWithMaster`, `ValidUpdatesAccepted`,
  `StopSilences`, `PushedIsJudged`.
- Events, ten States that differ in each field: `EventsTellState`. Three are
  enough for any difference of two; ten give each field its own.
- Engine, three events, one update, two waits: `EventsServed`. A second wait is
  there to replace the first.
- Fleet, one vehicle of up to three objects, two layouts and two factsheets, a
  broker that may refuse: `OnboardedIsHeard`. With one application thread and the
  callback thread; two application threads that onboard and offboard one vehicle
  at once break `OnboardedIsHeard`, for the old object erases the handler of the
  new one (`agv.cpp:119`).
- Formats: `MessageReadsBack` on every type, with each optional key absent and
  present, each member in turn changed, every enumerator and NaN. `GraphIndexed`
  and `LayoutReloads` after every sequence of four edits: two suffice for a swap
  and the removal of what was swapped, three for a rename between them.
  `LayoutProofs` has `GraphIndexed` for any number of edits. The mutators check ids
  and references and nothing else (`graph.cpp:305-401`): an angle or a height out
  of range, a NaN, a bad trajectory or an empty list goes in and makes a file that
  the loader refuses for that alone. What is added includes such elements, and
  `LayoutReloads` says of the edited layout that it has no *other* fault.

Deadlock is not checked here because three of the components really stop: the
fleet in finding 6, the gates after one judgement, a document that is refused.

**agv_connection.** `TypeOK`; `RunningIsWatched` (between operations the queue
thread runs exactly when the State topic is watched); `PublishWhileConnected`
(though the validator's context is torn, nothing is published while the
connection is lost); `LossNotMasked` (a timeout does not hide a loss);
`SilenceNoticed` (a silent vehicle does not stay AVAILABLE). An interval of one
tick and two States are enough for a timeout, a recovery and a second timeout of
the same listener; calls and Connection messages are not bounded. The bound
`MaxAway = 0` is the claim that a timeout callback takes less than a second: with
`MaxAway = 1` a State that arrives during a slow `on_state_timeout` can be
followed by a silence that the episode flag hides for good, and `SilenceNoticed`
fails. Likewise the lines of `handle_state` from the report to the status take
less than a tick (`TimePasses`).

### Fairness

- `QueueProcessor`: weak fairness of each queue thread and of a caller's join
  and clear, because the operating system runs a thread that can run. Nobody
  must call start, stop or send, and no spurious wake is owed.
- `AgvConnection`: weak fairness of the operation under way, of the monitor
  thread, of the queue thread and of time. No message and no call is owed.
- `AgvOrders` states none: its properties are safety properties, since whether
  anything happens depends on a vehicle that the module leaves arbitrary.
- `OrderFlow`: weak fairness of the threads of the master, of the threads of the
  vehicle, of publishing States (every 30 seconds) and of delivery; strong
  fairness of `Finished`, a vehicle that is asked to drive again and again gets
  there at last. The fleet manager owes nothing, nor do the validators.
- `VehicleRuntime`: weak fairness of the loop, whose wait has a timeout.
  `EventEngine`: of `step`, which the host calls for ever, and of time.
- `FleetRegistry`: weak fairness of each application thread inside a call and of
  the callback thread; used by `offboard_hangs` only.

Deadlock is checked in `agv_orders`, `agv_connection` and the runs on them.
`order_flow` may stop for good when the vehicle has crashed on a read past the
end.

### Findings

1. `sparse_update` (`order_publisher.cpp:72`): the master accepts an update that
   does not carry the stitch node, because `combine_order` takes it from the
   base. `order_stitcher.hpp:44-51` says `is_valid_update`, which refuses it, is
   applied; nothing under `src/master` calls it.
2. `stop_hangs` (`agv.cpp:1070`): a start between the critical section of a
   stop and its join clears the stop flag that the old queue thread has not read.
   Two threads then serve the queue and the join does not return. `agv.hpp:73`
   promises thread-safe methods.
3. `missed_resume` (`agv.cpp:684`): a timeout that finds the vehicle UNAVAILABLE
   fires `on_state_timeout`, leaves UNAVAILABLE, and the State that ends the
   silence fires no `on_state_resumed`; `master.hpp:600-605` pairs them.
4. `paused_queue` (`agv.cpp:213`): `pause` sets OFFLINE, `resume` does not undo
   it, and the kept messages are refused one by one; `agv.hpp:181-189` says they
   are processed.

5. `stale_lookup` (`adapter.cpp:109`): an accepted update replaces the order and
   not the two lookups of the first one. The vehicle is asked for one sequence id
   and given the node of another, or the vector is read past its end. An update
   whose ids begin at 0 again, as in `order_flow`, does not show it.
6. `offboard_hangs` (`paho_mqtt_client.cpp:95`): a vehicle offboarded while its
   message is handled loses its last reference on the callback thread, which
   holds `handler_mutex_` and waits for it in `unsubscribe`. No message of any
   vehicle is handled after that.
7. `beyond_base` (`adapter.cpp:231`): `process_navigation` never reads `released`
   and drives an order to the end of its horizon. `node.hpp:46-47` calls an
   unreleased node part of the horizon, `order_execution.hpp:42` has the vehicle
   wait for an extension of the base, `agv.cpp:667-668` has it stall at the stitch
   node.
8. `stale_alignment` (`master.cpp:766`): `set_graph` installs results it computed
   before the swap, and `refresh_alignment_for_agv` reads the layout under one lock
   and writes under another; when the two overlap, one misses what the other did.
   `master.hpp:402-404` says the pair keeps the alignment fresh whichever comes
   last.

Short of findings, because no document says otherwise: an order that is lost
before the vehicle took any other is tracked for ever (`tick_mismatch` returns
early on an empty order id); `ValidUpdatesAccepted` and `OnboardedIsHeard` name
one exception each.

## 4. Theorems

All are theorems of the specification for every value of the constants, from the
assumptions the modules name and nothing else:

| Assumption | It says |
|---|---|
| `AgvAssumption`, `LifecycleAssumption` | orders are well formed, caps and thresholds have their signs |
| `ConnectionAssumption`, `HeartbeatAssumption` | the calls are the four modelled; intervals and bounds are numbers |
| `QueueAssumption` | finite sets of callers and threads, one thread identity more than callers |
| `GatesAssumption` | the nodes of a message have even ids and its edges odd ones, in any number |
| `RuntimeAssumption` | pushed orders are well formed and no node has the empty id |
| `FlowAssumption` | what the vehicle can report are States that may arrive; bounds are numbers |
| `LayoutUnits`, `GraphAssumption` | a LIF and what is added to one are C++ objects: the fields the graph reads exist, and the lists are lists |
| `FleetAssumption` | finite sets of vehicles and threads, kept apart; a factsheet's version is above 0 |

The theorems of `FleetRegistryProofs` and one on the queue processor also say
of the number of threads that it is one, because the properties are false of
two. **RouteInvariant** and **BasesAgree** say of the dispatches `OrdersContinue`.

**OrderOpsProofs** has the lemmas on the rules: what `Combine` keeps, replaces and
bounds, and the ends of its base and horizon.

**AgvOrdersProofs**, the order path:

- **TypeCorrect**: `TypeOK`, one lemma per lifecycle operator and one step per
  action.
- **TrackerInvariant**: `PublishInv`, the inductive invariant of the publish
  path. Decision, publish and record are three steps with anything in between,
  so the properties below are not inductive by themselves. What carries them:
  only the queue thread ever sets the tracked order to a new one, hence from the
  decision to the record it is the order of the snapshot or none; a decision
  SEND_NOW stays true of the order in hand; completion is never withdrawn; and
  what is about to be recorded passed the structural check against the snapshot.
- **TrackerFollowsWire** (`TrackerMatchesWire`), **NoConcurrency**
  (`NoConcurrentOrders`), **UpdatesAdvance** (`UpdateIdAdvances`),
  **AnchorKept** (`ExtensionKeepsAnchor`), **FlagsNeedOrder**
  (`NoOrderNoFlags`): from the invariant and the lemmas on `Combine`.
- **DispatchInvariant**: `DispatchInv`. `PlacesInv` says that the six places a
  dispatch can be in share nothing, that none repeats one, and that all hold only
  what was dispatched; the property alone would not say why an order popped from
  one place is in no other. `FirstsInv` says that the queue and the buffer are
  subsequences of the dispatches, the buffer before the queue, and that only
  updates are parked: that is why a drain, which appends old dispatches behind
  new ones, cannot bring two *first* orders out of order.
- **DispatchedOnce** (`NoOrderTwice`) and **DispatchInOrder**
  (`DispatchOrderKept`) follow, for any sizes and either overflow policy.
- **ImplementsSession** (`KeepsSession`): every step of the order path is a step
  of `OrderSession` or a stutter. Publishing is `Issue` (the invariant says that
  the order then continues the session or finds it done), recording is a stutter
  because the mapping already shows the order in flight, and what the other
  threads do to the tracked order is `Finish`, `Forget` or `ForgetProgress`.

**OrderFlowProofs**, master and vehicle over topics that lose messages:

- **FlowImplementsPath**: the joined system implements `AgvOrders!Spec`. A delivered
  State is one of `States` because the vehicle holds an order that was sent to it
  (`VehicleInv`), so every theorem above holds of the joined system too.
- **KnowInvariant**: `KnowInv`. A State is judged long after it was true: it lies on
  the topic, in the MQTT thread, in the mirrors of the lifecycle and in the snapshot
  of the queue thread. `PipelineInv` says the same of all four: what it tells is an
  order that arrived, and if none arrived since, the vehicle holds it. This is
  stable when messages are delivered, refused or lost, where "the vehicle is as it
  says" is not. `SnapshotInv` says the decision is made against the last order sent.
- **UpdatesFindTheirBase** (`UpdateFindsItsBase`): guards 1 and 4 of `decide` pass an
  update only on a State that names the last order sent; if the orders went out in
  turn no other order of the wire fits it, so that one has arrived and is held.
- **RouteInvariant**: `RouteInv`, the tracked order continues *every* order sent
  under its id, not just the last. A merge keeps what the base continued
  (`MergeContinues`); an order that is recorded afresh, after a recovery, was checked
  against nothing, and there `OrdersContinue` is needed.
- **BasesAgree** (`BaseAgrees`): the vehicle may hold any of them, an old one after a
  loss or a refusal.

Without the two provisos both properties are false: an update that was parked when
the order was forgotten goes out afresh, without a merge, behind a later one or on a
base that is no longer tracked.

**AgvConnectionProofs**, the status and who runs under it. An operation is a list
of steps, so the invariant has to know what a list can still be:

- `PlanInv`: a list is one of those the code makes (`IsPlan`: starts and stops do
  not mix, a handle is joined before its state is reset, ...). `WatchInv`: the
  queue thread *will* run when the operation ends exactly when the topic *will* be
  watched; between the two calls that bring it about `RunningIsWatched` itself is
  false. `GateInv`: a validator's context that says ONLINE when the AGV no longer
  is belongs to an operation that has yet to join this very thread, and the
  operational state, read last, no longer says AVAILABLE.
- **TypesKept** (`TypeOK`), **WatchedWhileRunning** (`RunningIsWatched`),
  **PublishedWhileConnected** (`PublishWhileConnected`), **LossStays**
  (`LossNotMasked`).

**VehicleRuntimeProofs**, the vehicle:

- **StoppedIsSilent** (`StopSilences`) by `LoopInv`: a stop under way has cleared
  `running_`, and no loop that saw it cleared steps again.
- **StatesAreARoad** (`StatesLinked`) and **VehicleAndMasterAgree**
  (`BaseAgreesWithMaster`) by `RoadInv`. The node and edge states are two
  sequences and the merged order two functions; the invariant says that the node
  states step by 2 from where the vehicle is, with the edge between, the released
  ones first, and that the merged order holds the same content at each id still to
  be driven. It is preserved because `Stitches` compares the *end of the base*:
  with the last node of the route in its place (`BaseEndOfRoute`) an update would
  be appended behind a gap.
- **AllowedUpdatesAccepted** (`ValidUpdatesAccepted`): `RoadInv` turns what
  `is_valid_update` says of the merged order into what `Stitches` says of the
  states.

**ComponentProofs**, three components that share no state. The gates, for every
context and message: **SentOrdersDrivable**
(`OrderDrivable`; each gate judges one hop, and a contiguous route makes the
hops a drive), **RecoveryIsSent** (`RecoveryActionsPass`), **PreviewMirrorsChain**
(`MirrorsPublisher`), **PreviewAdmitsSendable** (`PreviewAdmits`). The invariant is
that a report is the judgement of its context and message.

The state events: **EventsTold** (`EventsTellState`), which is inductive as it
stands. The errors are what makes it a theorem: `SameError` looks at less than
the whole error, and that it is an equivalence is why a listener who adds what
appeared and drops what resolved has the errors of the latest State.

The queue processor:

- **TypesKept** (`TypeOK`) and **HandlesKept** (`HandleKept`) for any number of
  callers. The invariant adds that the running flag tells whether the handle is
  taken, and that only a caller in its join holds a thread besides it.
- **OneCallerOneThread**: with one caller `OneThread` holds. The invariant is
  that the one thread is in the handle or in the join, never both; finding 2
  is what happens to it with two callers.

**FleetRegistryProofs**, for one application thread (`Apps = {t}`) beside the
callback thread, any vehicles, layouts and factsheets, and a broker that may
refuse:

- **FleetInvariant**: `FleetInv`, in five parts. `StateInv`: each thread has one of
  the lists of critical sections the code makes. `MadeInv`: the objects of a
  vehicle are numbered as they are made, and nothing refers to or is switched on
  for one that was not; so a new object is really new. `AppInv` and `CallbackInv`:
  what each thread holds while it waits for a lock; a destructor runs on an object
  that the table no longer has. `HeardInv`: a vehicle is heard as far as its
  onboarding has come.
- **HeardWhenQuiet** (`OnboardedIsHeard`): a `~AGV` on the application thread is
  over before that thread onboards again. One on the callback thread is not, and
  takes the topic of the new object; it then waits for ever at the table (finding
  6), which is the exception the property names, and for which `HeardInv` excepts
  the callback in `erase` and nothing else.

With two application threads it is false, not just unproved: the offboard of one
and the onboard of the other interleave between their locks. `AlignmentFresh` is
false with one (finding 8) and has no theorem.

**LayoutProofs**, the graph of a layout, for any layouts, any elements to add and
any number of edits:

- **GraphInvariant**: `GraphInv`. `Tables`: each index leads to the places of the
  elements and back, which is also why no id is there twice. `Lists`: the ends of
  an edge are known, its start in its own layout; the nodes of a station are known;
  and the bags of a node are what the edges and stations say. `GraphIndexed` alone
  is not inductive: a rename finds the edges to rewrite through the lists of the
  node, and writes to places that the index has, and only an index that leads back
  tells that these are all of them.
- The argument goes in layers, each a few lemmas: what appending, swap-and-pop and
  assignment do to a sequence, then to the places of a LIF (`Grown`, `Shrunk`,
  `Changed`), then to an index and what it finds (`GrownIndex`, `ShrunkIndex`,
  `RenamedIndex`), then to the bags. A mutation is one of these on one list, but
  `update_node_id`, which is four of them one after the other (`RenamedInLif`), and
  `prune`, which is many: the least number of deletions after which the invariant
  fails cannot exist (`DeletionsKeep`). That the victims are distinct is not stated
  in the code; it follows from the order of the file.
- **GraphStaysIndexed** (`GraphIndexed`): an index is the only one there is
  (`IndexIsUnique`), so it is the one `rebuild_indices` makes.
- **LayoutStaysClosed** (`LayoutClosed`): of the reasons `validate_layout` has to
  refuse a layout, an id twice, an open reference and an edge without its start node
  never come up after edits. It is the part of `LayoutReloads` that is about the
  edits; the rest is about the loader.

Only model-checked, and why:

- `MessageReadsBack` and `LayoutReloads` evaluate recursive operators on messages and
  layouts: induction over data, out of the prover's reach.
- Every liveness property (`WorkIsTaken`, `StopReturns`, `PushedIsJudged`,
  `EventsServed`, `SilenceNoticed`, `DisagreementEnds`, `HeldOrderCompletes`), for
  fairness is out of its reach too.

## 5. Not modelled, and limits

- Of the fleet: the batch variants of onboarding and offboarding, which repeat the
  single ones; `active_assignments_`, which only its getters read; the broker
  status; what an alignment result contains.
- Of the vehicle's adapter: node, edge and instant actions, the state thread as a
  thread (a State goes out at any time), the connection message and the last
  will, an exception out of the navigation callback.
- In `AgvConnection` operations are not concurrent with each other, and the
  overrides of the application call nothing. `QueueProcessor` has the concurrent
  callers, without the status.
- `AgvOrders` lets the queue thread start only when it is stopped: the overlap
  of a start and a join is in `QueueProcessor`.
- `MessageGates` judges at one moment; `AgvOrders` and `AgvConnection` have the
  moments in between, for the gates their properties need.
- The message types abstract text: a string, a number or a time is a member of a
  small set. Dates that carry fewer than three digits of a second are not in it.
- Connecting and reconnecting, and whether the broker's answers need the callback
  thread, belong to the Paho library. The action factory, errors, logging, the
  Python bindings and the migration script have no state or control to check.

`PROJECT.json` lists the hazards that no property covers, each with the reason.

## 6. Plan

Done, most important first: the order path, the thread it runs on, the status
that gates it, the vehicle that answers it, the fleet around it, the messages and
layouts between them.

The safety invariants and action properties of every component whose operators
are not recursive are theorems.

Next:

1. The actions of the adapter (`process_actions`) and its state thread.
2. Two operations of `AgvConnection` at once, with the handles of
   `QueueProcessor`.
