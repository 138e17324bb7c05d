----------------------------- MODULE EventStream -----------------------------
(***************************************************************************)
(* The event stream of one run (RunEventStream): the producer publishes to *)
(* it and closes it, and subscribers, the response that created the run    *)
(* and every later join, attach to it, replay its history and drain their  *)
(* bounded live queues at their own pace.                                  *)
(*                                                                         *)
(* An event's id is its position in the log, so the history deque, which   *)
(* loses its oldest events only, is the log after the last evicted id.     *)
(* What a subscriber's iterator does from one yield or await to the next   *)
(* is one step or several; publishing between them is an interleaving the  *)
(* code may not have, and the properties hold all the same.                *)
(***************************************************************************)
EXTENDS Naturals, FiniteSets, SequencesExt, StreamModes

CONSTANTS
    Events,       \* the events a run may publish: name and encoded size
    Filters,      \* the sets of stream modes a subscriber may ask for
    Subscribers,
    QueueSize,    \* _SUBSCRIBER_QUEUE_SIZE
    MaxHistory,   \* max_history_events
    MaxBytes,     \* max_history_bytes
    MaxEvents     \* bound: how many events the run publishes

ASSUME EventsAssumption == \A e \in Events : e.size \in Nat /\ e.subgraph \in BOOLEAN
ASSUME QueueSizeAssumption == QueueSize \in Nat \ {0}
ASSUME HistoryAssumption == MaxHistory \in Nat /\ MaxBytes \in Nat
ASSUME MaxEventsAssumption == MaxEvents \in Nat

VARIABLES
    resumable,    \* stream_resumable: keep a history
    log,          \* every event published so far
    evicted,      \* _evicted_through_id
    closed,       \* closed_at is set
    attached,     \* the subscriber's queue is in _subscribers
    modes,        \* the stream modes it asked for
    queue,        \* the event ids in its queue ...
    mark,         \* ... and the end or overflow marker behind them
    phase,        \* its iterator: away, attached, done, failed, left
    started,      \* ... and whether anything was read from it
    replay,       \* the ids it has yet to replay, which it does in their order
    delivered,    \* the last id it yielded, or its starting cursor
    joined        \* history variable: the last id when it subscribed

streamVars == <<resumable, log, evicted, closed>>
subVars == <<attached, modes, queue, mark, phase, started, replay, delivered, joined>>
vars == <<streamVars, subVars>>

Ids == 1..MaxEvents
Phases == {"away", "attached", "done", "failed", "left"}

TypeOK ==
    /\ resumable \in BOOLEAN
    /\ log \in Seq(Events)
    /\ evicted \in 0..Len(log)
    /\ closed \in BOOLEAN
    /\ attached \in [Subscribers -> BOOLEAN]
    /\ modes \in [Subscribers -> Filters \cup {{}}]
    /\ queue \in [Subscribers -> Seq(Ids)]
    /\ \A s \in Subscribers : Len(queue[s]) <= QueueSize
    /\ mark \in [Subscribers -> {"none", "end", "overflow"}]
    /\ phase \in [Subscribers -> Phases]
    /\ started \in [Subscribers -> BOOLEAN]
    /\ replay \in [Subscribers -> SUBSET Ids]
    /\ delivered \in [Subscribers -> 0..Len(log)]
    /\ joined \in [Subscribers -> 0..Len(log)]

Init ==
    /\ resumable \in BOOLEAN
    /\ log = <<>>
    /\ evicted = 0
    /\ closed = FALSE
    /\ attached = [s \in Subscribers |-> FALSE]
    /\ modes = [s \in Subscribers |-> {}]
    /\ queue = [s \in Subscribers |-> <<>>]
    /\ mark = [s \in Subscribers |-> "none"]
    /\ phase = [s \in Subscribers |-> "away"]
    /\ started = [s \in Subscribers |-> FALSE]
    /\ replay = [s \in Subscribers |-> {}]
    /\ delivered = [s \in Subscribers |-> 0]
    /\ joined = [s \in Subscribers |-> 0]

-----------------------------------------------------------------------------
(* The history.                                                            *)

\* The frames of events from+1 ... are within both history limits.
Fits(events, from) ==
    /\ Len(events) - from <= MaxHistory
    /\ FoldSeq(LAMBDA e, bytes : bytes + e.size, 0,
               SubSeq(events, from + 1, Len(events))) <= MaxBytes

\* The oldest events are evicted one by one until the rest fits; an event
\* bigger than the byte limit takes the whole history with it.
EvictTo(events, k) ==
    /\ k \in evicted..Len(events)
    /\ Fits(events, k)
    /\ \A j \in evicted..(k - 1) : ~Fits(events, j)

\* cursor_expired
CursorExpired(after) == evicted > 0 /\ after < evicted

\* FAULTY: the event at the cursor is replayed again.
ReplayFromCursor(after, wanted) ==
    {i \in (evicted + 1)..Len(log) : resumable /\ i >= after /\ Matches(log[i], wanted)}

\* The retained events after a cursor that the subscriber wants.
ReplayAfter(after, wanted) ==
    {i \in (evicted + 1)..Len(log) : resumable /\ i > after /\ Matches(log[i], wanted)}

-----------------------------------------------------------------------------
(* The producer.                                                           *)

\* queue.full()
Full(s) == Len(queue[s]) = QueueSize

\* publish: the next id, the history, then every queue that wants it.  A
\* full queue is detached, emptied, and holds the overflow marker instead.
Publish ==
    /\ ~closed
    /\ Len(log) < MaxEvents
    /\ \E e \in Events :
         LET wanting == {s \in Subscribers : attached[s] /\ Matches(e, modes[s])}
             full == {s \in wanting : Full(s)}
         IN  /\ log' = Append(log, e)
             /\ evicted' \in {k \in 0..Len(log') :
                               IF resumable THEN EvictTo(log', k) ELSE k = evicted}
             /\ queue' = [s \in Subscribers |->
                            IF s \in full THEN <<>>
                            ELSE IF s \in wanting THEN Append(queue[s], Len(log'))
                            ELSE queue[s]]
             /\ mark' = [s \in Subscribers |-> IF s \in full THEN "overflow" ELSE mark[s]]
             /\ attached' = [s \in Subscribers |-> attached[s] /\ s \notin full]
    /\ UNCHANGED <<resumable, closed, modes, phase, started, replay, delivered, joined>>

\* close: an end marker for every queue with room for it.
Close ==
    /\ ~closed
    /\ closed' = TRUE
    /\ mark' = [s \in Subscribers |->
                  IF attached[s] /\ ~Full(s) THEN "end" ELSE mark[s]]
    /\ UNCHANGED <<resumable, log, evicted, attached, modes, queue, phase, started, replay,
                   delivered, joined>>

-----------------------------------------------------------------------------
(* The subscribers.                                                        *)

\* _attach: the replay and the live queue, in one synchronous step.
Attach(s, backlog) ==
    /\ replay' = [replay EXCEPT ![s] = backlog]
    /\ queue' = [queue EXCEPT ![s] = <<>>]
    /\ mark' = [mark EXCEPT ![s] = IF closed THEN "end" ELSE "none"]
    /\ attached' = [attached EXCEPT ![s] = ~closed]

Subscribe(s, after, wanted, backlog) ==
    /\ phase[s] = "away"
    /\ phase' = [phase EXCEPT ![s] = "attached"]
    /\ modes' = [modes EXCEPT ![s] = wanted]
    /\ delivered' = [delivered EXCEPT ![s] = after]
    /\ joined' = [joined EXCEPT ![s] = Len(log)]
    /\ Attach(s, backlog)
    /\ UNCHANGED <<streamVars, started>>

\* subscribe(after=None): the creating response, or a join without a
\* Last-Event-ID, which a finished run answers otherwise.
SubscribeLive(s) ==
    /\ ~closed
    /\ \E wanted \in Filters : Subscribe(s, Len(log), wanted, {})

\* A join with a Last-Event-ID that is neither ahead nor expired (409).
SubscribeAfter(s) ==
    /\ closed => resumable
    /\ \E after \in 0..Len(log), wanted \in Filters :
         /\ ~CursorExpired(after)
         /\ Subscribe(s, after, wanted, ReplayAfter(after, wanted))

Iterating(s) == phase[s] = "attached" /\ started[s]

\* The response asks the iterator for its first event.
Start(s) ==
    /\ phase[s] = "attached" /\ ~started[s]
    /\ started' = [started EXCEPT ![s] = TRUE]
    /\ UNCHANGED <<streamVars, attached, modes, queue, mark, phase, replay, delivered, joined>>

\* _drain: the replay first.
Replay(s) ==
    /\ Iterating(s)
    /\ \E i \in replay[s] :
         /\ \A j \in replay[s] : i <= j
         /\ delivered' = [delivered EXCEPT ![s] = i]
         /\ replay' = [replay EXCEPT ![s] = @ \ {i}]
    /\ UNCHANGED <<streamVars, attached, modes, queue, mark, phase, started, joined>>

Draining(s) == Iterating(s) /\ replay[s] = {}

\* An event from the queue, unless it was already delivered.
Live(s) ==
    /\ Draining(s)
    /\ queue[s] # <<>>
    /\ delivered' = [delivered EXCEPT ![s] =
                       IF Head(queue[s]) > @ THEN Head(queue[s]) ELSE @]
    /\ queue' = [queue EXCEPT ![s] = Tail(@)]
    /\ UNCHANGED <<streamVars, attached, modes, mark, phase, started, replay, joined>>

Over(s, how) ==
    /\ phase' = [phase EXCEPT ![s] = how]
    /\ replay' = [replay EXCEPT ![s] = {}]
    /\ started' = [started EXCEPT ![s] = FALSE]
    /\ UNCHANGED <<streamVars, modes, mark, delivered, joined>>

\* The queue is taken out of the stream and goes with what is in it.
Release(s) ==
    /\ attached' = [attached EXCEPT ![s] = FALSE]
    /\ queue' = [queue EXCEPT ![s] = <<>>]

\* The iterator ends, and its finally takes the queue out of the stream.
Finish(s, how) == Over(s, how) /\ Release(s)

Overflowed(s) == Draining(s) /\ queue[s] = <<>> /\ mark[s] = "overflow"

\* The overflow is raised when the history cannot make up for it ...
Fail(s) ==
    /\ Overflowed(s)
    /\ ~resumable \/ CursorExpired(delivered[s])
    /\ Finish(s, "failed")

\* FAULTY: it resumes from history without a live queue.
CatchUpDetached(s) ==
    /\ Overflowed(s)
    /\ resumable /\ ~CursorExpired(delivered[s])
    /\ replay' = [replay EXCEPT ![s] = ReplayAfter(delivered[s], modes[s])]
    /\ mark' = [mark EXCEPT ![s] = "none"]
    /\ UNCHANGED <<streamVars, attached, queue, modes, phase, started, delivered, joined>>

\* ... else it resumes from history with a fresh live queue.
CatchUp(s) ==
    /\ Overflowed(s)
    /\ resumable /\ ~CursorExpired(delivered[s])
    /\ Attach(s, ReplayAfter(delivered[s], modes[s]))
    /\ UNCHANGED <<streamVars, modes, phase, started, delivered, joined>>

\* FAULTY: only the marker ends the iterator.
EndAtMarker(s) ==
    /\ Draining(s) /\ queue[s] = <<>> /\ mark[s] = "end"
    /\ Finish(s, "done")

\* The end marker, or a closed stream and nothing left in the queue.
End(s) ==
    /\ Draining(s) /\ queue[s] = <<>> /\ mark[s] # "overflow"
    /\ mark[s] = "end" \/ closed
    /\ Finish(s, "done")

\* The client goes away: aclose() of the iterator runs its finally, but not
\* that of one from which nothing was read.
Leave(s) == Iterating(s) /\ Finish(s, "left")

\* detach: a subscription that nobody will iterate is given up ...
Detach(s) ==
    /\ phase[s] = "attached" /\ ~started[s]
    /\ Over(s, "left") /\ Release(s)

\* ... or its iterator is dropped with its response, and the queue stays.
Vanish(s) ==
    /\ phase[s] = "attached" /\ ~started[s]
    /\ Over(s, "left") /\ UNCHANGED <<attached, queue>>

-----------------------------------------------------------------------------
Drain(s) == Start(s) \/ Replay(s) \/ Live(s) \/ Fail(s) \/ CatchUp(s) \/ End(s)

Next ==
    \/ Publish \/ Close
    \/ \E s \in Subscribers :
         \/ SubscribeLive(s) \/ SubscribeAfter(s) \/ Drain(s)
         \/ Leave(s) \/ Detach(s) \/ Vanish(s)

Spec == Init /\ [][Next]_vars

\* A client that stays keeps reading; the run owes no further event.
FairSpec == Spec /\ \A s \in Subscribers : WF_vars(Drain(s))

-----------------------------------------------------------------------------
(* Without a history, a subscriber's cursor is where it joined.            *)
Cursor ==
    [s \in Subscribers |->
        IF resumable \/ delivered[s] > joined[s] THEN delivered[s] ELSE joined[s]]

\* The stream keeps its contract: every subscriber receives, in order and
\* once, each event after its cursor that its modes accept, through replay,
\* live queue, overflow, eviction and catch-up, and it ends after the last.
Contract == INSTANCE StreamContract WITH cursor <- Cursor
KeepsContract == Contract!Spec

\* What a subscriber has yet to receive is in its replay and its queue, in
\* order and without duplicates, as long as its queue did not overflow: no
\* event slips between the replay and the live queue.
NothingIsLost ==
    \A s \in Subscribers :
        phase[s] = "attached" /\ mark[s] # "overflow" =>
            /\ replay[s] \union Range(queue[s]) = Contract!Due(s)
            /\ \A k \in DOMAIN queue[s] :
                 /\ \A i \in replay[s] : i < queue[s][k]
                 /\ \A l \in 1..(k - 1) : queue[s][l] < queue[s][k]

\* FAILS, see the README: a resumable subscriber is dropped only once an event
\* it missed, one its modes accept, was evicted.
DroppedOnlyForEvictedEvents ==
    [][\A s \in Subscribers :
        resumable /\ phase[s] = "attached" /\ phase'[s] = "failed" =>
            \E i \in (delivered[s] + 1)..evicted : Matches(log[i], modes[s])]_vars

\* Once the run is over, every subscriber that keeps reading gets to the end
\* (or is told that it cannot): a queue that was full when the stream closed
\* has no end marker, and its iterator must end without one.
EveryReaderEnds ==
    \A s \in Subscribers :
        closed /\ phase[s] = "attached" ~> phase[s] \in {"done", "failed", "left"}
=============================================================================
