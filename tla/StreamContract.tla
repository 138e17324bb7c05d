--------------------------- MODULE StreamContract ---------------------------
(***************************************************************************)
(* What a run's event stream promises its subscribers, without saying how: *)
(* each one receives, in order, every event after its cursor that its      *)
(* stream modes accept, and its stream ends only after the last of them.   *)
(* It is dropped only for lagging more than a queue behind, and on a       *)
(* resumable stream only when events after its cursor are retained no      *)
(* more.                                                                   *)
(***************************************************************************)
EXTENDS Naturals, Sequences, FiniteSets, StreamModes

CONSTANTS
    Events,      \* the events a run may publish
    Filters,     \* the sets of stream modes a subscriber may ask for
    Subscribers,
    QueueSize    \* how many events a subscriber may lag behind

VARIABLES
    resumable,   \* whether the stream keeps a history
    log,         \* the events published; an event's id is its position
    evicted,     \* the id up to which they are retained no more
    closed,      \* the run is over
    phase,       \* each subscriber: away, attached, done, failed or left
    modes,       \* the stream modes it asked for
    cursor       \* the id up to which it has received them

contractVars == <<resumable, log, evicted, closed, phase, modes, cursor>>

Due(s) == {i \in (cursor[s] + 1)..Len(log) : Matches(log[i], modes[s])}

Init ==
    /\ resumable \in BOOLEAN
    /\ log = <<>>
    /\ evicted = 0
    /\ closed = FALSE
    /\ phase = [s \in Subscribers |-> "away"]
    /\ modes = [s \in Subscribers |-> {}]
    /\ cursor = [s \in Subscribers |-> 0]

Publish ==
    /\ ~closed
    /\ \E e \in Events : log' = Append(log, e)
    /\ evicted' \in evicted..Len(log')
    /\ ~resumable => evicted' = 0
    /\ UNCHANGED <<resumable, closed, phase, modes, cursor>>

Close ==
    /\ ~closed
    /\ closed' = TRUE
    /\ UNCHANGED <<resumable, log, evicted, phase, modes, cursor>>

\* Without a history there is nothing to resume from: the live tail only.
Subscribe(s) ==
    /\ phase[s] = "away"
    /\ phase' = [phase EXCEPT ![s] = "attached"]
    /\ \E wanted \in Filters : modes' = [modes EXCEPT ![s] = wanted]
    /\ \E after \in evicted..Len(log) :
         /\ ~resumable => after = Len(log)
         /\ cursor' = [cursor EXCEPT ![s] = after]
    /\ UNCHANGED <<resumable, log, evicted, closed>>

Deliver(s) ==
    /\ phase[s] = "attached"
    /\ \E i \in Due(s) :
         /\ \A j \in Due(s) : i <= j
         /\ cursor' = [cursor EXCEPT ![s] = i]
    /\ UNCHANGED <<resumable, log, evicted, closed, phase, modes>>

Over(s, how) ==
    /\ phase[s] = "attached"
    /\ phase' = [phase EXCEPT ![s] = how]
    /\ UNCHANGED <<resumable, log, evicted, closed, modes, cursor>>

End(s) == closed /\ Due(s) = {} /\ Over(s, "done")

Drop(s) ==
    /\ Cardinality(Due(s)) > QueueSize
    /\ resumable => cursor[s] < evicted
    /\ Over(s, "failed")

Leave(s) == Over(s, "left")

Next ==
    \/ Publish \/ Close
    \/ \E s \in Subscribers : Subscribe(s) \/ Deliver(s) \/ End(s) \/ Drop(s) \/ Leave(s)

Spec == Init /\ [][Next]_contractVars
=============================================================================
