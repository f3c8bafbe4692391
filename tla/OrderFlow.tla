------------------------------ MODULE OrderFlow ------------------------------
(***************************************************************************)
(* The master's AGV object and the vehicle's adapter, joined by the topics *)
(* of the two: what AgvOrders puts on the wire is what ClientAdapter       *)
(* receives, and the State that adapter keeps is the only State the master *)
(* sees.  Both publish with QoS 0, so a message may be lost; what arrives  *)
(* arrives in the order it was published.                                  *)
(*                                                                         *)
(* The vehicle stays connected and in AUTOMATIC, and nobody stops the AGV  *)
(* object: those parts have runs of their own.                             *)
(***************************************************************************)
EXTENDS AgvOrders, ClientAdapter

CONSTANTS
  MaxUplink,     \* bound of the model: States on their way to the master
  MaxLosses      \* bound of the model: messages lost

(* The States the vehicle may publish: about no order or one that was sent *)
(* to it, at a node of an order or at what lies past the end of a vector.  *)
Stops == {<<0, NoId>>} \cup
          UNION {{<<s, o.nodes[s].what>> : s \in DOMAIN o.nodes} : o \in Orders}

ReportOf(id, upd, stop) ==
  [order_id |-> id, upd |-> upd, seq |-> stop[1], node |-> stop[2],
   mode |-> "AUTOMATIC", new_base |-> FALSE]

Reports == {ReportOf(NoId, 0, stop) : stop \in Stops} \cup
           UNION {{ReportOf(o.id, o.upd, stop) : stop \in Stops} : o \in Orders}

ASSUME FlowAssumption ==
  /\ MaxUplink \in Nat \ {0} /\ MaxLosses \in Nat
  /\ Reports \subseteq States

VARIABLES
  delivered,     \* how many orders of the wire have arrived or are lost
  uplink,        \* the States on their way
  losses

flowVars == <<vars, adapterVars, delivered, uplink, losses>>

FlowInit ==
  /\ Init
  /\ AdapterInit
  /\ delivered = 0 /\ uplink = <<>> /\ losses = 0

-----------------------------------------------------------------------------
(* The network.                                                            *)

DeliverOrder ==
  /\ delivered < Len(wire)
  /\ delivered' = delivered + 1
  /\ OnOrder(wire[delivered'])
  /\ UNCHANGED <<vars, uplink, losses>>

LoseOrder ==
  /\ delivered < Len(wire) /\ losses < MaxLosses
  /\ delivered' = delivered + 1
  /\ losses' = losses + 1
  /\ UNCHANGED <<vars, adapterVars, uplink>>

Report == ReportOf(vstate.id, vstate.upd, <<vstate.seq, vstate.node>>)

(* The state thread publishes when it is asked to and every 30 seconds.    *)
PublishState ==
  /\ alive
  /\ Len(uplink) < MaxUplink
  /\ uplink' = Append(uplink, Report)
  /\ UNCHANGED <<vars, adapterVars, delivered, losses>>

LoseState ==
  /\ uplink # <<>> /\ losses < MaxLosses
  /\ uplink' = Tail(uplink)
  /\ losses' = losses + 1
  /\ UNCHANGED <<vars, adapterVars, delivered>>

DeliverState ==
  /\ running /\ uplink # <<>>
  /\ ReceiveState(Head(uplink))
  /\ uplink' = Tail(uplink)
  /\ UNCHANGED <<adapterVars, delivered, losses>>

-----------------------------------------------------------------------------
MasterStep == \/ \E o \in Orders : SendOrder(o)
              \/ QueueThread
              \/ UpdateLifecycle
              \/ ForwardReady
              \/ FinishState
              \/ GoOnline

FlowNext == \/ MasterStep /\ UNCHANGED <<adapterVars, delivered, uplink, losses>>
            \/ AdapterNext /\ UNCHANGED <<vars, delivered, uplink, losses>>
            \/ DeliverOrder \/ LoseOrder
            \/ PublishState \/ LoseState \/ DeliverState

(* The threads of both programs go on while they have work, the messages   *)
(* that are not lost arrive, and a vehicle that is asked again and again   *)
(* to drive to a node gets there at last.  Nothing makes the fleet manager *)
(* dispatch, or the rest of the publisher chain pass.                      *)
MasterThreads ==
  \/ GoOnline \/ UpdateLifecycle \/ ForwardReady \/ FinishState
  \/ RecordPublishedOrder

VehicleThreads == CopyOrder \/ DispatchNode \/ ReportProgress

FlowSpec ==
  /\ FlowInit /\ [][FlowNext]_flowVars
  /\ WF_flowVars(MasterThreads /\ UNCHANGED <<adapterVars, delivered, uplink, losses>>)
  /\ WF_flowVars(VehicleThreads /\ UNCHANGED <<vars, delivered, uplink, losses>>)
  /\ SF_flowVars(Finished /\ UNCHANGED <<vars, delivered, uplink, losses>>)
  /\ WF_flowVars(PublishState)
  /\ WF_flowVars(DeliverState)

-----------------------------------------------------------------------------
(* Properties.                                                             *)

OrderIds == {o.id : o \in Orders}

(* The three-strike rule ends a disagreement: when the master tracks one   *)
(* order and the vehicle reports another, because it refused the first or  *)
(* never saw it, then in the end the master lets go of it or the vehicle   *)
(* takes it up.  (A vehicle that reports no order at all is never counted  *)
(* as disagreeing: tick_mismatch returns early.)                           *)
DisagreementEnds ==
  \A id \in OrderIds :
    (alive /\ active_order.id = id /\ vstate.id \notin {NoId, id})
      ~> (~alive \/ active_order.id # id \/ vstate.id = id)

(* An order the vehicle holds as it was dispatched, all of it released,    *)
(* and has never updated, is driven to its end and the master learns of    *)
(* it, whatever State or navigation attempt is lost on the way.            *)
Complete(o) == Released(o.nodes) = DOMAIN o.nodes

HeldOrderCompletes ==
  \A o \in Orders :
    (held = o /\ active_order = o /\ node_lookup = DOMAIN o.nodes /\ o.upd = 0 /\ Complete(o))
      ~> (order_complete \/ active_order # o \/ held # o)

(* The orders of each id went out under rising update ids.  The session of *)
(* AgvOrders sees to it as long as the tracked order is not forgotten; from *)
(* one session of an id to the next it is the fleet manager's to see to.    *)
InTurn ==
  \A i, j \in DOMAIN wire :
    i < j /\ wire[i].id = wire[j].id => wire[i].upd < wire[j].upd

(* Guards 1 and 4 of the stitch decision at work on the vehicle: when an   *)
(* update goes out the vehicle really drives the order it extends, at the  *)
(* tracked update id or a later one; a lost update is never built upon.    *)
UpdateFindsItsBase ==
  [][ InTurn /\ wire' # wire /\ IsUpdate(q_order, q_snap)
        => vstate.id = q_order.id /\ vstate.upd >= q_snap.active.upd ]_flowVars

(* An order that carries on from a base: it goes as far as the released    *)
(* nodes of the base at least, and keeps what it holds of them.            *)
ContinuesBase(base, next) ==
  \A s \in Released(base.nodes) :
    /\ HasBase(next.nodes) => s <= StitchSeq(next.nodes)
    /\ s \in DOMAIN next.nodes => next.nodes[s] = base.nodes[s]

(* What BaseAgrees asks of the fleet manager: an update continues the bases *)
(* of the dispatches it follows.  The master looks at this for the order it *)
(* tracks; once it has forgotten that, an update goes out unchecked.        *)
OrdersContinue ==
  \A a, b \in Orders : a.id = b.id /\ a.upd < b.upd => ContinuesBase(a, b)

(* What the vehicle may drive without asking again, the released nodes it  *)
(* holds, the master tracks as released and with the same content: lost    *)
(* updates, refusals and recoveries leave the vehicle behind, never beside *)
(* the tracked route.  (An order that goes out again under an older update *)
(* id is refused by the vehicle and tracked by the master: the two then    *)
(* differ, and no strike is counted, for the order ids agree.)             *)
BaseAgrees ==
  InTurn /\ active_order # NoOrder /\ q_pc # "record" /\ held.id = active_order.id
    => \A s \in Released(held.nodes) \cap DOMAIN active_order.nodes :
         active_order.nodes[s] = held.nodes[s]

(* The vehicle is asked to drive to the node whose sequence id is next.    *)
DrivesInSequence == request # None => request.node[1] = request.seq

(* The vehicle is asked to drive within its base: it waits at the last     *)
(* released node for an update that extends the base.                      *)
(* Code: process_navigation against what the State, the order resource of  *)
(* the client and the drain of the master say of the end of the base.      *)
StaysInBase ==
  request # None /\ request.node[1] \in DOMAIN held.nodes
    => held.nodes[request.node[1]].released

=============================================================================
