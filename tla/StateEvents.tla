------------------------------ MODULE StateEvents ------------------------------
(***************************************************************************)
(* The transitions the master reads off two State messages in a row, on    *)
(* its two paths: the callbacks of AGV::handle_state, behind the schema    *)
(* gate, and the updates EventDetector pushes to a provider.  A listener   *)
(* that takes the first State as it is and keeps its picture up to date    *)
(* from the events alone stands at the end of each path.  newBaseRequest,  *)
(* an edge that carries no value, is left out.                             *)
(***************************************************************************)

CONSTANTS
  Unset,       \* an empty std::optional
  NoText,         \* the empty string
  States,       \* the State messages that may arrive
  Connections   \* the connection states that may arrive

VARIABLES
  callbacks,    \* AGV::prev_state_, and the listener of the callbacks
  detector,     \* EventDetector::prev_state_, and the listener of the provider
  link          \* prev_connection_, and what its listener was told

eventVars == <<callbacks, detector, link>>

-----------------------------------------------------------------------------
(* The differences of two State messages.                                  *)

ValueOr(field, default) == IF field = Unset THEN default ELSE field

(* A level is not part of what makes two errors the same.                  *)
SameError(e, other) == /\ e.type = other.type
                       /\ e.references = other.references
                       /\ e.description = other.description

ErrorsDiff(from, against) == {e \in from : \A other \in against : ~ SameError(e, other)}

ReachedNode(prev, curr) ==
  /\ curr.node # NoText
  /\ <<curr.node, curr.seq>> # <<prev.node, prev.seq>>

ModeChanged(prev, curr)    == prev.mode # curr.mode
PausedChangedIfSent(prev, curr) ==        \* a fault: an empty field is no news
  Unset \notin {prev.paused, curr.paused} /\ prev.paused # curr.paused

PausedChanged(prev, curr)  == ValueOr(prev.paused, FALSE) # ValueOr(curr.paused, FALSE)
DrivingChanged(prev, curr) == prev.driving # curr.driving
LoadsChanged(prev, curr)   == prev.loads # curr.loads

-----------------------------------------------------------------------------
(* The listener's picture, event by event in the order they are sent: the  *)
(* errors that appeared before those that resolved.                        *)

Picture(m) == [node |-> m.node, errors |-> m.errors, mode |-> m.mode,
               paused |-> ValueOr(m.paused, FALSE), driving |-> m.driving,
               loads |-> ValueOr(m.loads, {})]

WithoutErrors(errors, gone) == {e \in errors : \A other \in gone : ~ SameError(e, other)}

Told(picture, prev, curr) ==
  [node     |-> IF ReachedNode(prev, curr) THEN curr.node ELSE picture.node,
   errors   |-> WithoutErrors(picture.errors \cup ErrorsDiff(curr.errors, prev.errors),
                        ErrorsDiff(prev.errors, curr.errors)),
   mode     |-> IF ModeChanged(prev, curr) THEN curr.mode ELSE picture.mode,
   paused   |-> IF PausedChanged(prev, curr) THEN ValueOr(curr.paused, FALSE) ELSE picture.paused,
   driving  |-> IF DrivingChanged(prev, curr) THEN curr.driving ELSE picture.driving,
   loads    |-> IF LoadsChanged(prev, curr) THEN ValueOr(curr.loads, {}) ELSE picture.loads]

Notice(path, m) ==
  [prev    |-> m,
   picture |-> IF path.prev = Unset THEN Picture(m) ELSE Told(path.picture, path.prev, m)]

-----------------------------------------------------------------------------

EventsInit ==
  /\ callbacks = [prev |-> Unset, picture |-> Unset]
  /\ detector = [prev |-> Unset, picture |-> Unset]
  /\ link = [prev |-> Unset, told |-> Unset]

StateSchema(m) == /\ m.header_ok
                  /\ m.states_named
                  /\ \A e \in m.errors : e.type # NoText

HandleState(m) ==
  /\ StateSchema(m)
  /\ callbacks' = Notice(callbacks, m)
  /\ UNCHANGED <<detector, link>>

DropState(m) ==
  /\ ~ StateSchema(m)
  /\ UNCHANGED eventVars

OnState(m) ==
  /\ detector' = Notice(detector, m)
  /\ UNCHANGED <<callbacks, link>>

OnConnection(c) ==
  /\ link' = [prev |-> c,
              told |-> IF link.prev = c THEN link.told
                       ELSE IF c = "ONLINE" THEN "CONNECTED" ELSE c]
  /\ UNCHANGED <<callbacks, detector>>

EventsNext == \/ \E m \in States : HandleState(m) \/ DropState(m) \/ OnState(m)
        \/ \E c \in Connections : OnConnection(c)

EventsSpec == EventsInit /\ [][EventsNext]_eventVars

-----------------------------------------------------------------------------
(* Properties.                                                             *)

SameErrors(some, others) ==
  /\ \A e \in some : \E other \in others : SameError(e, other)
  /\ \A other \in others : \E e \in some : SameError(e, other)

Knows(path) ==
  path.prev # Unset =>
    LET picture == path.picture  m == path.prev
    IN /\ m.node # NoText => picture.node = m.node
       /\ SameErrors(picture.errors, m.errors)
       /\ picture.mode = m.mode
       /\ picture.paused = ValueOr(m.paused, FALSE)
       /\ picture.driving = m.driving
       /\ picture.loads = ValueOr(m.loads, {})

(* Who follows the events alone knows what the latest State said, however  *)
(* the States succeed each other: though optional fields come and go, a    *)
(* malformed State is dropped between two good ones, an error changes its  *)
(* level, and resolved errors are told after new ones.  A vehicle that     *)
(* reports no node is not told of.                                         *)
(* Code: handle_state, EventDetector::on_state and the functions of        *)
(* state_event_detector.                                                   *)
EventsTellState ==
  /\ Knows(callbacks)
  /\ Knows(detector)
  /\ link.prev # Unset => link.told = IF link.prev = "ONLINE" THEN "CONNECTED" ELSE link.prev

=============================================================================
