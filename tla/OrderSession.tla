---------------------------- MODULE OrderSession ----------------------------
(***************************************************************************)
(* What the master promises about the orders it sends to one vehicle, with *)
(* no word on queues, threads or snapshots: the vehicle is in at most one  *)
(* session; an order opens one, an update of the same order continues it   *)
(* under a higher update id, and another order opens the next one only     *)
(* when the vehicle is done with this one or the master has forgotten it.  *)
(* AgvOrders implements this module.                                       *)
(***************************************************************************)
EXTENDS Integers, Sequences

CONSTANTS Orders, NoId

VARIABLES
  issued,    \* the orders sent so far, oldest first
  session    \* what is in progress: its order, its last update, is it done

NoSession == [id |-> NoId, upd |-> 0, done |-> FALSE]

Init == issued = <<>> /\ session = NoSession

Continues(o) == session.id = o.id /\ o.upd > session.upd
Opens(o)     == session = NoSession \/ (session.id # o.id /\ session.done)

Issue(o) ==
  /\ Continues(o) \/ Opens(o)
  /\ issued' = Append(issued, o)
  /\ session' = [id |-> o.id, upd |-> o.upd,
                 done |-> session.done /\ session.id = o.id]

Finish ==
  /\ session # NoSession
  /\ session' = [session EXCEPT !.done = TRUE]
  /\ UNCHANGED issued

Forget == session' = NoSession /\ UNCHANGED issued

(* The master forgets while an order is on its way out: the order stays,   *)
(* what was known of the vehicle's progress in it does not.                *)
ForgetProgress ==
  /\ session' = [session EXCEPT !.done = FALSE]
  /\ UNCHANGED issued

Next == \/ \E o \in Orders : Issue(o)
        \/ Finish
        \/ Forget
        \/ ForgetProgress

Spec == Init /\ [][Next]_<<issued, session>>

=============================================================================
