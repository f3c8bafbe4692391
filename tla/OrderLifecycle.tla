--------------------------- MODULE OrderLifecycle ---------------------------
(***************************************************************************)
(* OrderLifecycleManager: what the master knows of the order one vehicle   *)
(* is driving.  Every method runs under lifecycle_mutex_, so each is one   *)
(* operator on the variables below; the threads that call them, and what   *)
(* happens between two calls, are in module AgvOrders.                     *)
(***************************************************************************)
EXTENDS OrderOps, Sequences

CONSTANTS
  MismatchThreshold,   \* mismatch_threshold_, 3 in the code
  PendingCap           \* pending_queue_cap_, 8 in the code

ASSUME LifecycleAssumption ==
  /\ MismatchThreshold \in Nat \ {0}
  /\ PendingCap \in Nat

VARIABLES
  active_order,      \* active_order_ with its cached id and update id
  reported,          \* the mirrors of the last State: [id, upd, seq]
  order_complete,
  needs_more_base,
  pending_updates,
  mismatch_count

lifecycleVars == <<active_order, reported, order_complete, needs_more_base,
                   pending_updates, mismatch_count>>

NothingReported == [id |-> NoId, upd |-> 0, seq |-> 0]

LifecycleInit ==
  /\ active_order = NoOrder
  /\ reported = NothingReported
  /\ order_complete = FALSE
  /\ needs_more_base = FALSE
  /\ pending_updates = <<>>
  /\ mismatch_count = 0

Tracks(id) == active_order # NoOrder /\ active_order.id = id

Snapshot == [active    |-> active_order,
             complete  |-> order_complete,
             last_seq  |-> reported.seq,
             state_id  |-> reported.id,
             state_upd |-> reported.upd]

-----------------------------------------------------------------------------
(* record_published(order, merged): merged is NoOrder when the publisher   *)
(* did not combine.                                                        *)

Extends(o) == Tracks(o.id) /\ o.upd > active_order.upd

Recombined(o) == IF CanCombine(active_order, o, reported.seq)
                 THEN Combine(active_order, o) ELSE o

RecordedSparse(o, merged) == o    \* a fault: the update replaces the route

RecordedOrder(o, merged) ==
  IF ~Extends(o) THEN o ELSE IF merged # NoOrder THEN merged ELSE Recombined(o)

RecordPublished(o, merged) ==
  /\ active_order' = RecordedOrder(o, merged)
  /\ order_complete' = (order_complete /\ Tracks(o.id))
  /\ needs_more_base' = (needs_more_base /\ Tracks(o.id) /\ ~Extends(o))
  /\ UNCHANGED <<reported, pending_updates, mismatch_count>>

EnqueueUncapped(o) ==     \* a fault: the cap is not looked at
  /\ pending_updates' = Append(pending_updates, o)
  /\ UNCHANGED <<active_order, reported, order_complete, needs_more_base,
                 mismatch_count>>

(* enqueue_pending_update rejects the newest at the cap.                   *)
EnqueuePendingUpdate(o) ==
  /\ pending_updates' = IF Len(pending_updates) >= PendingCap
                        THEN pending_updates ELSE Append(pending_updates, o)
  /\ UNCHANGED <<active_order, reported, order_complete, needs_more_base,
                 mismatch_count>>

ClearKeepingFlags ==      \* a fault: the completion flag survives
  /\ active_order' = NoOrder
  /\ reported' = NothingReported
  /\ pending_updates' = <<>>
  /\ mismatch_count' = 0
  /\ UNCHANGED <<order_complete, needs_more_base>>

Clear ==
  /\ active_order' = NoOrder
  /\ reported' = NothingReported
  /\ order_complete' = FALSE
  /\ needs_more_base' = FALSE
  /\ pending_updates' = <<>>
  /\ mismatch_count' = 0

-----------------------------------------------------------------------------
(* tick_mismatch: the strikes the State leaves on the counter.             *)

StrikesNotKept(s) ==      \* a fault: each mismatch counts from zero
  IF active_order = NoOrder \/ s.order_id = NoId THEN mismatch_count
  ELSE IF Tracks(s.order_id) THEN 0 ELSE 1

Strikes(s) ==
  IF active_order = NoOrder \/ s.order_id = NoId THEN mismatch_count
  ELSE IF Tracks(s.order_id) THEN 0 ELSE mismatch_count + 1

Recovers(s) ==
  /\ active_order # NoOrder
  /\ s.order_id \notin {NoId, active_order.id}
  /\ Strikes(s) >= MismatchThreshold

(* Completion: the State stands on the last node of the tracked route.  It *)
(* is not asked which order the State is about.                            *)
Completes(s) ==
  /\ active_order # NoOrder
  /\ DOMAIN active_order.nodes # {}
  /\ s.seq = Back(active_order.nodes)
  /\ s.node = active_order.nodes[s.seq].what

(* drain_pending_locked, one verdict per head of the queue.  The verdict   *)
(* does not depend on the updates drained before it: adoption waits for    *)
(* record_published.                                                       *)
TooLate(c, s, complete)  == ~complete /\ Front(c.nodes) < s.seq
TooEarly(c, s, complete) == ~complete /\ Front(c.nodes) > s.seq

Stays(c, s, complete) ==
  \/ ~Tracks(c.id)
  \/ /\ DOMAIN c.nodes # {}
     /\ ~TooLate(c, s, complete)
     /\ TooEarly(c, s, complete) \/ s.upd < active_order.upd

Releasable(c, s, complete) ==
  /\ DOMAIN c.nodes # {}
  /\ ~TooLate(c, s, complete)
  /\ CanCombine(active_order, c, s.seq)

(* The loop stops at the first update that stays.                          *)
StopIndex(s, complete) ==
  Min({Len(pending_updates) + 1} \cup
      {i \in DOMAIN pending_updates : Stays(pending_updates[i], s, complete)})

ReadyIndices(s, complete) ==
  {i \in 1 .. StopIndex(s, complete) - 1 :
     Releasable(pending_updates[i], s, complete)}

(* The increasing enumeration of a finite set of numbers, as a singleton.  *)
Enumerations(S) ==
  {f \in [1 .. Cardinality(S) -> S] :
     \A i, j \in 1 .. Cardinality(S) : i < j => f[i] < f[j]}

(* The vectors drain_pending_locked can return: always exactly one.        *)
Ready(s, complete) ==
  {[i \in DOMAIN f |-> pending_updates[f[i]]] :
     f \in Enumerations(ReadyIndices(s, complete))}

-----------------------------------------------------------------------------
(* on_state_update(state): the new state of the manager, and the vector of *)
(* updates it returns (in a singleton).                                    *)

Recover(s) ==
  /\ Recovers(s)
  /\ active_order' = NoOrder
  /\ order_complete' = FALSE
  /\ needs_more_base' = FALSE
  /\ pending_updates' = <<>>
  /\ mismatch_count' = 0

FollowKeepingReleased(s) ==   \* a fault: what is released also stays
  /\ ~Recovers(s)
  /\ order_complete' = (order_complete \/ Completes(s))
  /\ needs_more_base' = (needs_more_base \/ s.new_base)
  /\ mismatch_count' = Strikes(s)
  /\ UNCHANGED <<active_order, pending_updates>>

Follow(s) ==
  /\ ~Recovers(s)
  /\ order_complete' = (order_complete \/ Completes(s))
  /\ needs_more_base' = (needs_more_base \/ s.new_base)
  /\ mismatch_count' = Strikes(s)
  /\ pending_updates' = SubSeq(pending_updates,
                               StopIndex(s, order_complete'),
                               Len(pending_updates))
  /\ UNCHANGED active_order

OnStateUpdate(s) ==
  /\ reported' = [id |-> s.order_id, upd |-> s.upd, seq |-> s.seq]
  /\ Recover(s) \/ Follow(s)

Returned(s) ==
  IF Recovers(s) THEN {<<>>} ELSE Ready(s, order_complete \/ Completes(s))

=============================================================================
