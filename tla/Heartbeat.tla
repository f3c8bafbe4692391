------------------------------- MODULE Heartbeat -------------------------------
(***************************************************************************)
(* The HeartbeatListener that watches the State topic of one AGV           *)
(* (heartbeat.cpp): its monitor thread wakes every Interval, asks whether  *)
(* the last report is older than that, and calls back once per timeout     *)
(* episode.  Time advances in ticks, the whole seconds of is_timeout.      *)
(*                                                                         *)
(* An AGV starts a listener once and stops it once, then drops it: "none"  *)
(* is no listener.                                                         *)
(***************************************************************************)
EXTENDS Naturals

CONSTANTS
  Interval,   \* heartbeat_interval_, 30 in the code; also the check interval
  MaxAway     \* ticks the monitor thread may spend between two waits

ASSUME HeartbeatAssumption == Interval \in Nat \ {0} /\ MaxAway \in Nat

VARIABLES
  hb_state,       \* state_ of the listener, or "none"
  l_pc,           \* the monitor thread: off, wait, check, or in the callback
  timeout_fired,
  elapsed,        \* ticks since last_connection_report_, up to Interval + 1
  waited          \* ticks since the thread began to wait

listenerVars == <<hb_state, l_pc, timeout_fired, elapsed, waited>>

ListenerInit ==
  /\ hb_state = "none" /\ l_pc = "off"
  /\ timeout_fired = FALSE
  /\ elapsed = 0 /\ waited = 0

-----------------------------------------------------------------------------
(* What the AGV calls.                                                     *)

StartListener ==
  /\ hb_state' = "RUNNING" /\ l_pc' = "wait"
  /\ timeout_fired' = FALSE
  /\ elapsed' = 0 /\ waited' = 0

StopListener ==
  /\ hb_state' = "STOPPING"
  /\ UNCHANGED <<l_pc, timeout_fired, elapsed, waited>>

(* The join; the AGV then destroys the listener.                           *)
JoinListener ==
  /\ l_pc = "off"
  /\ hb_state' = "none"
  /\ elapsed' = 0 /\ waited' = 0 /\ timeout_fired' = FALSE
  /\ UNCHANGED l_pc

ReceivedConnection ==
  /\ elapsed' = IF hb_state = "RUNNING" THEN 0 ELSE elapsed
  /\ UNCHANGED <<hb_state, l_pc, timeout_fired, waited>>

-----------------------------------------------------------------------------
(* The monitor thread, in listen().                                        *)

StopNoticed ==
  /\ l_pc = "wait" /\ hb_state # "RUNNING"
  /\ l_pc' = "off"
  /\ UNCHANGED <<hb_state, timeout_fired, elapsed, waited>>

Wake ==
  /\ l_pc = "wait" /\ hb_state = "RUNNING" /\ waited = Interval
  /\ l_pc' = "check"
  /\ UNCHANGED <<hb_state, timeout_fired, elapsed, waited>>

IsTimeout == elapsed > Interval

CheckKeepingFlag ==      \* a fault: a recovery does not reset the flag
  /\ l_pc = "check" /\ ~(IsTimeout /\ ~timeout_fired)
  /\ l_pc' = "wait" /\ waited' = 0
  /\ UNCHANGED <<hb_state, timeout_fired, elapsed>>

CheckQuiet ==
  /\ l_pc = "check" /\ ~(IsTimeout /\ ~timeout_fired)
  /\ timeout_fired' = (IsTimeout /\ timeout_fired)
  /\ l_pc' = "wait" /\ waited' = 0
  /\ UNCHANGED <<hb_state, elapsed>>

CheckTimeout ==
  /\ l_pc = "check" /\ IsTimeout /\ ~timeout_fired
  /\ l_pc' = "callback"
  /\ UNCHANGED <<hb_state, timeout_fired, elapsed, waited>>

CallbackReturns ==
  /\ l_pc = "user"
  /\ timeout_fired' = TRUE
  /\ l_pc' = "wait" /\ waited' = 0
  /\ UNCHANGED <<hb_state, elapsed>>

(* The wait ends on time, and the thread is back in it within MaxAway.     *)
Tick ==
  /\ l_pc # "off"
  /\ waited < IF l_pc = "wait" THEN Interval ELSE Interval + MaxAway
  /\ elapsed' = IF IsTimeout THEN elapsed ELSE elapsed + 1
  /\ waited' = waited + 1
  /\ UNCHANGED <<hb_state, l_pc, timeout_fired>>

=============================================================================
