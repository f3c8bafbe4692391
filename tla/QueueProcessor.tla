---------------------------- MODULE QueueProcessor ----------------------------
(***************************************************************************)
(* The life of the outbound queue thread of an AGV: start_queue_processor, *)
(* stop_queue_processor and the loop of process_queues, with the calls     *)
(* that wake it.  AgvOrders takes it for granted that there is one such    *)
(* thread and that stopping it takes effect; here the condition variable,  *)
(* the stop flag and the thread handle are modelled instead, and any       *)
(* number of callers: the MQTT thread (handle_connection) and the          *)
(* application threads in stop, pause, resume and the destructor.          *)
(*                                                                         *)
(* A step is one critical section of thread_mutex_ or queue_mutex_.  The   *)
(* messages are counted, not named.                                        *)
(***************************************************************************)
EXTENDS Naturals, FiniteSets

CONSTANTS
  Callers,       \* threads that start and stop the queue processor
  Threads,       \* identities of queue threads, free again once joined
  NoThread,      \* a std::thread that is not joinable
  MaxQueueSize   \* max_queue_size_

(* Each caller joins one thread at most and one more can be in the handle, *)
(* so the identities never run out.                                        *)
ASSUME QueueAssumption ==
  /\ IsFiniteSet(Callers) /\ IsFiniteSet(Threads)
  /\ Cardinality(Threads) > Cardinality(Callers)
  /\ NoThread \notin Threads
  /\ MaxQueueSize \in Nat \ {0}

VARIABLES
  stop_processing, processor_running,
  queue_thread,  \* the thread handle, or NoThread
  queued,        \* how many instant actions and orders wait
  t_pc,          \* each queue thread: none, check, blocked, publish, exited
  c_pc,          \* each caller: idle, join (on thread_to_join), clear
  thread_to_join

vars == <<stop_processing, processor_running, queue_thread, queued, t_pc, c_pc,
          thread_to_join>>

Kinds == {"actions", "orders"}

Init ==
  /\ stop_processing = FALSE /\ processor_running = FALSE
  /\ queue_thread = NoThread
  /\ queued = [k \in Kinds |-> 0]
  /\ t_pc = [t \in Threads |-> "none"]
  /\ c_pc = [c \in Callers |-> "idle"]
  /\ thread_to_join = [c \in Callers |-> NoThread]

Blocked == {t \in Threads : t_pc[t] = "blocked"}

HasWork == \E k \in Kinds : queued[k] > 0

-----------------------------------------------------------------------------
(* The callers.                                                            *)

StartUnguarded(c) ==      \* a fault: starts though already running
  /\ c_pc[c] = "idle"
  /\ \E t \in Threads :
       /\ t_pc[t] = "none"
       /\ t_pc' = [t_pc EXCEPT ![t] = "check"]
       /\ queue_thread' = t
  /\ stop_processing' = FALSE
  /\ processor_running' = TRUE
  /\ UNCHANGED <<queued, c_pc, thread_to_join>>

StartQueueProcessor(c) ==
  /\ c_pc[c] = "idle" /\ ~processor_running
  /\ \E t \in Threads :
       /\ t_pc[t] = "none"
       /\ t_pc' = [t_pc EXCEPT ![t] = "check"]
       /\ queue_thread' = t
  /\ stop_processing' = FALSE
  /\ processor_running' = TRUE
  /\ UNCHANGED <<queued, c_pc, thread_to_join>>

(* The critical section of stop_queue_processor: signal, wake every        *)
(* waiter, steal the handle.                                               *)
SignalKeepingWaiters(c) ==      \* a fault: no notify_all
  /\ c_pc[c] = "idle"
  /\ stop_processing' = TRUE
  /\ thread_to_join' = [thread_to_join EXCEPT ![c] = queue_thread]
  /\ queue_thread' = NoThread
  /\ processor_running' = FALSE
  /\ c_pc' = [c_pc EXCEPT ![c] = "join"]
  /\ UNCHANGED <<t_pc, queued>>

SignalStop(c) ==
  /\ c_pc[c] = "idle"
  /\ stop_processing' = TRUE
  /\ t_pc' = [t \in Threads |-> IF t \in Blocked THEN "check" ELSE t_pc[t]]
  /\ thread_to_join' = [thread_to_join EXCEPT ![c] = queue_thread]
  /\ queue_thread' = NoThread
  /\ processor_running' = FALSE
  /\ c_pc' = [c_pc EXCEPT ![c] = "join"]
  /\ UNCHANGED queued

(* The join, if there is a thread to join.  pause(), OFFLINE and the       *)
(* destructor end here; stop() and CONNECTIONBROKEN go on to clear the     *)
(* queues.                                                                 *)
JoinUnfinished(c) ==      \* a fault: does not wait for the thread
  /\ c_pc[c] = "join"
  /\ thread_to_join' = [thread_to_join EXCEPT ![c] = NoThread]
  /\ c_pc' \in {[c_pc EXCEPT ![c] = pc] : pc \in {"idle", "clear"}}
  /\ UNCHANGED <<stop_processing, processor_running, queue_thread, queued, t_pc>>

JoinReturns(c) ==
  /\ c_pc[c] = "join"
  /\ thread_to_join[c] # NoThread => t_pc[thread_to_join[c]] = "exited"
  /\ t_pc' = [t \in Threads |-> IF t = thread_to_join[c] THEN "none" ELSE t_pc[t]]
  /\ thread_to_join' = [thread_to_join EXCEPT ![c] = NoThread]
  /\ c_pc' \in {[c_pc EXCEPT ![c] = pc] : pc \in {"idle", "clear"}}
  /\ UNCHANGED <<stop_processing, processor_running, queue_thread, queued>>

ClearQueues(c) ==
  /\ c_pc[c] = "clear"
  /\ queued' = [k \in Kinds |-> 0]
  /\ c_pc' = [c_pc EXCEPT ![c] = "idle"]
  /\ UNCHANGED <<stop_processing, processor_running, queue_thread, t_pc,
                 thread_to_join>>

(* send_order and send_instant_actions: at the cap the oldest message      *)
(* makes room.  notify_one wakes one waiter, if there is any.              *)
SendSilently(k) ==      \* a fault: no notify_one
  /\ queued' = [queued EXCEPT ![k] = IF @ < MaxQueueSize THEN @ + 1 ELSE @]
  /\ UNCHANGED <<stop_processing, processor_running, queue_thread, t_pc, c_pc,
                 thread_to_join>>

SendUncapped(k) ==      \* a fault: the cap admits one more
  /\ queued' = [queued EXCEPT ![k] = IF @ <= MaxQueueSize THEN @ + 1 ELSE @]
  /\ UNCHANGED <<stop_processing, processor_running, queue_thread, t_pc, c_pc,
                 thread_to_join>>

Send(k) ==
  /\ queued' = [queued EXCEPT ![k] = IF @ < MaxQueueSize THEN @ + 1 ELSE @]
  /\ \/ /\ Blocked = {}
        /\ UNCHANGED t_pc
     \/ \E t \in Blocked : t_pc' = [t_pc EXCEPT ![t] = "check"]
  /\ UNCHANGED <<stop_processing, processor_running, queue_thread, c_pc,
                 thread_to_join>>

-----------------------------------------------------------------------------
(* A queue thread in process_queues.                                       *)

Moves(t, from, to) == t_pc[t] = from /\ t_pc' = [t_pc EXCEPT ![t] = to]

(* The predicate of the wait is false.                                     *)
Wait(t) ==
  /\ ~stop_processing /\ ~HasWork
  /\ Moves(t, "check", "blocked")
  /\ UNCHANGED <<stop_processing, processor_running, queue_thread, queued, c_pc,
                 thread_to_join>>

Exit(t) ==
  /\ stop_processing
  /\ Moves(t, "check", "exited")
  /\ UNCHANGED <<stop_processing, processor_running, queue_thread, queued, c_pc,
                 thread_to_join>>

(* Instant actions go first.                                               *)
Take(t, k) ==
  /\ ~stop_processing
  /\ queued[k] > 0
  /\ k = "orders" => queued["actions"] = 0
  /\ Moves(t, "check", "publish")
  /\ queued' = [queued EXCEPT ![k] = @ - 1]
  /\ UNCHANGED <<stop_processing, processor_running, queue_thread, c_pc,
                 thread_to_join>>

(* publish_order or publish_instant_actions, outside the lock.             *)
Publish(t) ==
  /\ Moves(t, "publish", "check")
  /\ UNCHANGED <<stop_processing, processor_running, queue_thread, queued, c_pc,
                 thread_to_join>>

SpuriousWake(t) ==
  /\ Moves(t, "blocked", "check")
  /\ UNCHANGED <<stop_processing, processor_running, queue_thread, queued, c_pc,
                 thread_to_join>>

-----------------------------------------------------------------------------
QueueThread(t) == Wait(t) \/ Exit(t) \/ (\E k \in Kinds : Take(t, k)) \/ Publish(t)

Next == \/ \E c \in Callers : \/ StartQueueProcessor(c)
                              \/ SignalStop(c)
                              \/ JoinReturns(c)
                              \/ ClearQueues(c)
        \/ \E k \in Kinds : Send(k)
        \/ \E t \in Threads : QueueThread(t) \/ SpuriousWake(t)

(* The operating system runs every thread that can run; nobody has to call *)
(* start, stop or send, and a waiter need not wake by itself.              *)
Fairness == /\ \A t \in Threads : WF_vars(QueueThread(t))
            /\ \A c \in Callers : WF_vars(JoinReturns(c) \/ ClearQueues(c))

Spec == Init /\ [][Next]_vars /\ Fairness

-----------------------------------------------------------------------------
(* Properties.                                                             *)

(* The values the variables range over; the queues keep within their cap.  *)
TypeOK ==
  /\ stop_processing \in BOOLEAN /\ processor_running \in BOOLEAN
  /\ queue_thread \in Threads \cup {NoThread}
  /\ queued \in [Kinds -> 0 .. MaxQueueSize]
  /\ t_pc \in [Threads -> {"none", "check", "blocked", "publish", "exited"}]
  /\ c_pc \in [Callers -> {"idle", "join", "clear"}]
  /\ thread_to_join \in [Callers -> Threads \cup {NoThread}]

(* A thread that was started and not yet joined is held by the handle or   *)
(* by exactly one caller in join(): assigning to a joinable handle, or     *)
(* destroying one, would call std::terminate (agv.cpp, the comment in      *)
(* stop_queue_processor).                                                  *)
Holders(t) == {c \in Callers : thread_to_join[c] = t}

HandleKept ==
  \A t \in Threads : t_pc[t] # "none" =>
    \/ queue_thread = t /\ Holders(t) = {}
    \/ queue_thread # t /\ \E c \in Callers : Holders(t) = {c}

(* Two queue threads never serve the queue at once, so orders go out in    *)
(* the order of the queue and one at a time.                               *)
Serving(t) == t_pc[t] \in {"check", "blocked", "publish"}

OneThread == \A t, u \in Threads : Serving(t) /\ Serving(u) => t = u

(* While the processor runs, queued messages are taken or the processor is *)
(* stopped: no wakeup of the queue thread is lost.                         *)
WorkIsTaken ==
  HasWork /\ processor_running
    ~> ~HasWork \/ ~processor_running \/ \E t \in Threads : t_pc[t] = "publish"

(* A call of stop_queue_processor returns, having released the thread      *)
(* (agv.hpp, stop: "releasing all runtime resources").                     *)
StopReturns == \A c \in Callers : c_pc[c] = "join" ~> c_pc[c] = "idle"

=============================================================================
