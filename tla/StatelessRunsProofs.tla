------------------------- MODULE StatelessRunsProofs -------------------------
(***************************************************************************)
(* Proofs about StatelessRuns, for every bound on departures and failures: *)
(* the thread of a stateless run is discarded at most once, never under    *)
(* the run, and whoever stops last has cleaned up.                         *)
(*                                                                         *)
(* The argument is about who owns after_run.  Until the run is handed off  *)
(* it is the request; afterwards it is the run's task, or the request      *)
(* again when the task never took a step.  Owner says that the owners      *)
(* exclude one another, Owed that none has discarded anything before its   *)
(* turn, and Kept that what exists is still owed by somebody.              *)
(***************************************************************************)
EXTENDS StatelessRuns, TLAPS

Early   == {"ensure", "admit", "executing"}
Pending == {"fresh", "lock", "insert", "undo", "producer", "running", "saving", "marking"}

\* The one case in which the request does not wait for its run.
Abandoned == route = "create" /\ left

\* Where request and task can be together.
Owner ==
  /\ request \in Early => task = "none"
  /\ request = "waiting" => route = "create"
  /\ request \in {"awaiting", "replying", "relaying"} => route = "stream"
  /\ request = "executing" => route = "wait"
  /\ route = "wait" => task = "none"
  /\ route = "create" => task \in {"none", "lock", "running", "saving", "marking", "over"}
  /\ route # "stream" => ~produced
  /\ request \in {"replying", "relaying"} => produced
  /\ task \in {"none", "fresh", "unstarted", "lock", "insert", "undo"} => ~produced
  /\ route = "stream" /\ task \in {"producer", "running", "saving", "marking"} => produced
  /\ Discarding(request) => task \in {"none", "unstarted"} \/ route = "create"
  /\ ~Discarding(request) \/ ~Discarding(task)
  /\ route = "create" /\ task \in Pending /\ ~Abandoned => request = "waiting"

\* Nothing was discarded before its owner's turn.
Owed ==
  /\ discards <= 1
  /\ Discarding(request) \/ Discarding(task) => discards = 1
  /\ request \in Early \union {"waiting"} => discards = 0
  /\ route = "stream" /\ task \in Pending => discards = 0
  /\ task = "unstarted" /\ request = "awaiting" => discards = 0
  /\ route = "create" /\ discards > 0 /\ ~Abandoned => task \in {"none", "over"}

\* Somebody is left to discard the thread.
Owing ==
  \/ request \in Early \union {"waiting"} \/ Discarding(request)
  \/ route = "stream" /\ (task \in Pending \/ Discarding(task))
  \/ task = "unstarted" /\ request = "awaiting" /\ left /\ onLeave = "cancel"

\* What exists goes with the thread, and the thread is owed.
Kept ==
  \/ cut \/ Abandoned
  \/ /\ thread => Owing
     /\ row \/ checkpoints => thread
     /\ request \in {"admit", "executing", "waiting"} \/ task \in Pending => thread
     /\ request = "rows" \/ task = "rows" => ~checkpoints

IInv == TypeOK /\ Owner /\ Owed /\ Kept

-----------------------------------------------------------------------------
\* The invariant holds at first.
LEMMA InitInv == Init => IInv
<1> SUFFICES ASSUME Init
             PROVE  IInv
    OBVIOUS
<1> USE DEF Init, Early, Pending, Discarding
<1>1. TypeOK
    BY DEF TypeOK
<1>2. Owner /\ Owed
    BY DEF Owner, Owed, Abandoned
<1>3. Kept
    BY DEF Kept, Owing
<1> QED BY <1>1, <1>2, <1>3 DEF IInv


\* A discard in progress keeps the invariant, wherever it runs or fails.
LEMMA DiscardInv ==
    ASSUME IInv, RequestDiscards \/ TaskDiscards \/ DiscardFails
    PROVE  IInv'
<1> USE BoundsAssumption
        DEF IInv, TypeOK, Owner, Owed, Kept, Owing, Abandoned, Early, Pending, Discarding,
            data, faults, fate, Fail
<1>1. CASE RequestDiscards
  <2>1. CASE request = "read"
      BY <1>1, <2>1 DEF RequestDiscards, DiscardStep
  <2>2. CASE request = "checkpoints"
    <3>1. /\ request' = "rows" /\ checkpoints' = FALSE
          /\ UNCHANGED <<thread, row, route, onLeave, task, cancelled, produced, queue, callback,
                         discards, cut, left, cancels, failures>>
        BY <1>1, <2>2 DEF RequestDiscards, DiscardStep
    <3>2. TypeOK'
      <4>1. /\ cancelled' \in BOOLEAN /\ produced' \in BOOLEAN /\ callback' \in BOOLEAN
            /\ thread' \in BOOLEAN /\ row' \in BOOLEAN /\ checkpoints' \in BOOLEAN
            /\ cut' \in BOOLEAN /\ left' \in BOOLEAN
          BY <3>1
      <4> QED BY <3>1, <4>1
    <3>3. Owner' /\ Owed'
        BY <2>2, <3>1
    <3>4. Kept'
        BY <2>2, <3>1
    <3> QED BY <3>2, <3>3, <3>4
  <2>3. CASE request = "rows"
    <3>1. /\ request' = "over" /\ thread' = FALSE /\ row' = FALSE
          /\ UNCHANGED <<checkpoints, route, onLeave, task, cancelled, produced, queue, callback,
                         discards, cut, left, cancels, failures>>
        BY <1>1, <2>3 DEF RequestDiscards, DiscardStep
    <3>2. TypeOK'
      <4>1. /\ cancelled' \in BOOLEAN /\ produced' \in BOOLEAN /\ callback' \in BOOLEAN
            /\ thread' \in BOOLEAN /\ row' \in BOOLEAN /\ checkpoints' \in BOOLEAN
            /\ cut' \in BOOLEAN /\ left' \in BOOLEAN
          BY <3>1
      <4> QED BY <3>1, <4>1
    <3>3. Owner' /\ Owed'
        BY <2>3, <3>1
    <3>4. Kept'
        BY <2>3, <3>1
    <3> QED BY <3>2, <3>3, <3>4
  <2> QED BY <1>1, <2>1, <2>2, <2>3 DEF RequestDiscards
<1>2. CASE TaskDiscards
  <2>1. CASE task = "read"
      BY <1>2, <2>1 DEF TaskDiscards, DiscardStep
  <2>2. CASE task = "checkpoints"
    <3>1. /\ task' = "rows" /\ checkpoints' = FALSE
          /\ UNCHANGED <<thread, row, route, onLeave, request, cancelled, produced, queue, callback,
                         discards, cut, left, cancels, failures>>
        BY <1>2, <2>2 DEF TaskDiscards, DiscardStep
    <3>2. TypeOK'
      <4>1. /\ cancelled' \in BOOLEAN /\ produced' \in BOOLEAN /\ callback' \in BOOLEAN
            /\ thread' \in BOOLEAN /\ row' \in BOOLEAN /\ checkpoints' \in BOOLEAN
            /\ cut' \in BOOLEAN /\ left' \in BOOLEAN
          BY <3>1
      <4> QED BY <3>1, <4>1
    <3>3. Owner' /\ Owed'
        BY <2>2, <3>1
    <3>4. Kept'
        BY <2>2, <3>1
    <3> QED BY <3>2, <3>3, <3>4
  <2>3. CASE task = "rows"
    <3>1. /\ task' = "over" /\ thread' = FALSE /\ row' = FALSE
          /\ UNCHANGED <<checkpoints, route, onLeave, request, cancelled, produced, queue, callback,
                         discards, cut, left, cancels, failures>>
        BY <1>2, <2>3 DEF TaskDiscards, DiscardStep
    <3>2. TypeOK'
      <4>1. /\ cancelled' \in BOOLEAN /\ produced' \in BOOLEAN /\ callback' \in BOOLEAN
            /\ thread' \in BOOLEAN /\ row' \in BOOLEAN /\ checkpoints' \in BOOLEAN
            /\ cut' \in BOOLEAN /\ left' \in BOOLEAN
          BY <3>1
      <4> QED BY <3>1, <4>1
    <3> QED BY <2>3, <3>1, <3>2
  <2> QED BY <1>2, <2>1, <2>2, <2>3 DEF TaskDiscards
<1>3. CASE DiscardFails
    BY <1>3 DEF DiscardFails
<1> QED BY <1>1, <1>2, <1>3

\* A step of the request keeps the invariant.
LEMMA RequestInv ==
    ASSUME IInv,
           \/ EnsureThread \/ Refuse \/ SpawnJob \/ HandOff \/ RequestFails \/ ExecutedInline
           \/ Waited \/ Admitted \/ StartRelay \/ CloseResponse
    PROVE  IInv'
<1> USE BoundsAssumption
        DEF IInv, TypeOK, Owner, Owed, Kept, Owing, Abandoned, Early, Pending, Discarding,
            RequestAt, TaskAt, Fail, data, faults, fate
<1>1. CASE EnsureThread
    BY <1>1 DEF EnsureThread
<1>2. CASE Refuse
    BY <1>2 DEF Refuse
<1>3. CASE SpawnJob
    BY <1>3 DEF SpawnJob
<1>4. CASE HandOff
    BY <1>4 DEF HandOff
<1>5. CASE RequestFails
    BY <1>5 DEF RequestFails
<1>6. CASE ExecutedInline
    BY <1>6 DEF ExecutedInline
<1>7. CASE Waited
    BY <1>7 DEF Waited
<1>8. CASE Admitted
    BY <1>8 DEF Admitted, NeverStarted
<1>9. CASE CloseResponse
    BY <1>9 DEF CloseResponse, ResponseOver
<1>10. CASE StartRelay
    BY <1>10 DEF StartRelay
<1> QED BY <1>1, <1>2, <1>3, <1>4, <1>5, <1>6, <1>7, <1>8, <1>9, <1>10

\* A step of the run's task keeps the invariant.
LEMMA TaskInv ==
    ASSUME IInv,
           \/ StartAdmission \/ AcquireLock \/ LeaveQueue \/ StartProducer \/ InsertFails \/ InsertUndone
           \/ Claim \/ GraphWrites \/ GraphEnds \/ RunEnds \/ RunUnwinds
    PROVE  IInv'
<1> USE BoundsAssumption
        DEF IInv, TypeOK, Owner, Owed, Kept, Owing, Abandoned, Early, Pending, Discarding,
            RequestAt, TaskAt, Fail, data, faults, fate
<1>1. CASE StartAdmission
    BY <1>1 DEF StartAdmission
<1>2. CASE AcquireLock
    BY <1>2 DEF AcquireLock
<1>3. CASE LeaveQueue
    BY <1>3 DEF LeaveQueue
<1>4. CASE StartProducer
    BY <1>4 DEF StartProducer
<1>5. CASE InsertFails
  <2>1. row' = row \/ row' = TRUE
      BY <1>5 DEF InsertFails
  <2>2. CASE row' = row
      BY <1>5, <2>2 DEF InsertFails
  <2>3. CASE row' = TRUE
      BY <1>5, <2>3 DEF InsertFails
  <2> QED BY <2>1, <2>2, <2>3
<1>6. CASE InsertUndone
    BY <1>6 DEF InsertUndone
<1>7. CASE Claim
    BY <1>7 DEF Claim
<1>8. CASE GraphWrites
    BY <1>8 DEF GraphWrites, Executes
<1>9. CASE GraphEnds
    BY <1>9 DEF GraphEnds
<1>10. CASE RunEnds
    BY <1>10 DEF RunEnds
<1>11. CASE RunUnwinds
    BY <1>11 DEF RunUnwinds
<1> QED BY <1>1, <1>2, <1>3, <1>4, <1>5, <1>6, <1>7, <1>8, <1>9, <1>10, <1>11

\* What a cancellation does to the task: it never starts, or it stops cleaning
\* up, or it will notice later.
LEMMA InterruptEffect ==
    ASSUME TypeOK, Interrupt
    PROVE  /\ cancelled' \in BOOLEAN /\ cut' \in BOOLEAN /\ (cut => cut')
           /\ \/ task' = task
              \/ task = "fresh" /\ task' = "unstarted" /\ (cut' \/ request = "awaiting")
              \/ (task = "undo" \/ Discarding(task)) /\ ~(produced /\ Discarding(task))
                 /\ task' = "over" /\ cut'
<1> USE DEF TypeOK
<1>1. CASE cancelled \/ task \in {"none", "over", "unstarted", "marking"} \/ (produced /\ Discarding(task))
    BY <1>1 DEF Interrupt
<1>2. CASE ~(cancelled \/ task \in {"none", "over", "unstarted", "marking"} \/ (produced /\ Discarding(task)))
  <2>1. cut' = (cut \/ task = "undo" \/ Discarding(task) \/ (task = "fresh" /\ request # "awaiting"))
      BY <1>2 DEF Interrupt
  <2>2. cut' \in BOOLEAN /\ (cut => cut')
      BY <2>1
  <2>3. CASE task = "fresh"
      BY <1>2, <2>1, <2>2, <2>3 DEF Interrupt
  <2>4. CASE task = "undo" \/ Discarding(task)
      BY <1>2, <2>1, <2>2, <2>4 DEF Interrupt, Discarding
  <2>5. CASE task # "fresh" /\ task # "undo" /\ ~Discarding(task)
      BY <1>2, <2>1, <2>2, <2>5 DEF Interrupt
  <2> QED BY <2>3, <2>4, <2>5
<1> QED BY <1>1, <1>2

\* A shutdown keeps the invariant.
LEMMA ShutDownInv == ASSUME IInv, ShutDown PROVE IInv'
    BY InterruptEffect
    DEF ShutDown, IInv, TypeOK, Owner, Owed, Kept, Owing, Abandoned, Early, Pending,
        Discarding, data

\* A departing client keeps the invariant.
LEMMA LeaveInv == ASSUME IInv, Leave PROVE IInv'
<1> USE DEF IInv, TypeOK, Owner, Owed, Kept, Owing, Abandoned, Early, Pending, Discarding,
            RequestAt
<1>1. /\ left' = TRUE /\ cancels' \in Nat
      /\ UNCHANGED <<route, onLeave, produced, checkpoints, failures>>
    BY DEF Leave
<1>2. CASE request \in Early \union {"waiting"}
  <2>1. /\ request' = "read" /\ discards' = discards + 1
        /\ UNCHANGED <<task, cancelled, queue, callback, cut>>
      BY <1>2 DEF Leave
  <2>2. thread' = thread \/ thread' = TRUE
      BY <1>2 DEF Leave
  <2>3. row' = row \/ (row' = TRUE /\ route = "create")
      BY <1>2 DEF Leave
  <2>4. thread' \in BOOLEAN /\ row' \in BOOLEAN
      BY <2>2, <2>3
  <2>5. TypeOK'
      BY <1>1, <2>1, <2>4
  <2>6. Owner' /\ Owed'
      BY <1>1, <1>2, <2>1
  <2>7. Kept'
    <3>1. CASE route = "create"
        BY <1>1, <3>1
    <3>2. CASE route # "create"
      <4>1. row' = row
          BY <2>3, <3>2
      <4> QED BY <1>1, <1>2, <2>1, <2>2, <3>2, <4>1
    <3> QED BY <3>1, <3>2
  <2> QED BY <2>5, <2>6, <2>7
<1>3. CASE Discarding(request)
  <2>1. /\ request' = "over" /\ cut' = TRUE
        /\ UNCHANGED <<task, cancelled, queue, callback, discards, thread, row>>
      BY <1>3 DEF Leave
  <2>2. TypeOK' /\ Kept'
      BY <1>1, <2>1
  <2>3. Owner' /\ Owed'
      BY <1>1, <1>3, <2>1
  <2> QED BY <2>2, <2>3
<1>4. CASE request \in {"awaiting", "relaying"}
  <2>1. /\ UNCHANGED <<discards, thread, row>>
        /\ request' \in {request, "over"}
        /\ request' = "over" => onLeave = "continue" \/ produced
        /\ queue' \in {queue, "released"} /\ callback' \in {callback, AbandonsLater}
      BY <1>4 DEF Leave, GiveUp
  <2>4. queue' \in {"none", "attached", "released", "unread"} /\ callback' \in BOOLEAN
      BY <2>1 DEF AbandonsLater, AdmissionDone
  <2>2. CASE onLeave = "cancel"
    <3>1. Interrupt
        BY <1>4, <2>2 DEF Leave
    <3>2. request' = request \/ produced
        BY <1>4, <2>1, <2>2
    <3>3. TypeOK'
        BY <1>1, <1>4, <2>1, <2>4, <3>1, InterruptEffect
    <3>4. Owner' /\ Owed'
        BY <1>1, <1>4, <2>1, <2>2, <3>1, <3>2, InterruptEffect
    <3>5. Kept'
        BY <1>1, <1>4, <2>1, <2>2, <3>1, <3>2, InterruptEffect
    <3> QED BY <3>3, <3>4, <3>5
  <2>3. CASE onLeave = "continue"
    <3>1. UNCHANGED <<task, cancelled, cut>>
        BY <1>4, <2>3 DEF Leave
    <3>2. TypeOK'
        BY <1>1, <1>4, <2>1, <2>4, <3>1
    <3>3. Owner' /\ Owed'
        BY <1>1, <1>4, <2>1, <2>3, <3>1
    <3>4. Kept'
        BY <1>1, <1>4, <2>1, <2>3, <3>1
    <3> QED BY <3>2, <3>3, <3>4
  <2> QED BY <2>2, <2>3
<1>5. CASE request = "replying"
  <2>1. /\ request' = "over" /\ queue' = "unread"
        /\ UNCHANGED <<task, cancelled, callback, cut, discards, thread, row>>
      BY <1>5 DEF Leave
  <2> QED BY <1>1, <1>5, <2>1
<1> QED BY <1>2, <1>3, <1>4, <1>5 DEF Leave

\* Giving up an admission concerns its subscription only.
LEMMA AbandonInv == ASSUME IInv, AbandonAdmission PROVE IInv'
<1>1. /\ queue' \in {queue, "released"} /\ callback' = FALSE
      /\ UNCHANGED <<route, onLeave, request, task, cancelled, produced, thread, row, checkpoints,
                    discards, cut, left, cancels, failures>>
    BY DEF AbandonAdmission, GiveUp, data, faults
<1>2. TypeOK'
  <2>1. queue' \in {"none", "attached", "released", "unread"} /\ callback' \in BOOLEAN
      BY <1>1 DEF IInv, TypeOK
  <2> QED BY <1>1, <2>1 DEF IInv, TypeOK
<1> QED BY <1>1, <1>2 DEF IInv, Owner, Owed, Kept, Owing, Abandoned, Early, Pending, Discarding

\* The invariant holds in every reachable state.
LEMMA Invariance == Spec => []IInv
<1>1. IInv /\ [Next]_vars => IInv'
  <2> SUFFICES ASSUME IInv, [Next]_vars
               PROVE  IInv'
      OBVIOUS
  <2>1. CASE UNCHANGED vars
      BY <2>1 DEF vars, data, faults, fate, IInv, TypeOK, Owner, Owed, Kept, Owing, Abandoned,
                  Early, Pending, Discarding
  <2>2. CASE Next
      BY <2>2, DiscardInv, RequestInv, TaskInv, ShutDownInv, LeaveInv, AbandonInv
      DEF Next, RequestStep, TaskStep
  <2> QED BY <2>1, <2>2
<1> QED BY <1>1, InitInv, PTL DEF Spec

-----------------------------------------------------------------------------
\* Somebody reads the eager subscription, or is still to give it up: the
\* request waits for admission or relays, or it has left its callback.
Watched ==
  /\ queue # "none" => produced
  /\ queue = "attached" => request \in {"awaiting", "replying", "relaying"} \/ callback
  /\ route = "stream" /\ task \in {"fresh", "lock", "insert"} /\ ~cancelled =>
       request = "awaiting" \/ callback

\* No step forgets the subscription.
LEMMA WatchedStep ==
    ASSUME IInv, Watched, [Next]_vars
    PROVE  Watched'
<1> USE DEF Watched, IInv, TypeOK, Owner, Discarding, RequestAt, TaskAt, data, faults, fate, Fail
<1>1. CASE RequestDiscards \/ TaskDiscards
  <2>1. CASE RequestDiscards
      BY <2>1 DEF RequestDiscards
  <2>2. CASE TaskDiscards
    <3>1. task' \in {"checkpoints", "rows", "over"}
        BY <2>2 DEF TaskDiscards, DiscardStep
    <3> QED BY <2>2, <3>1 DEF TaskDiscards
  <2> QED BY <1>1, <2>1, <2>2
<1>2. CASE DiscardFails
    BY <1>2 DEF DiscardFails
<1>3. CASE EnsureThread \/ Refuse \/ SpawnJob \/ HandOff \/ RequestFails \/ ExecutedInline \/ Waited
    BY <1>3 DEF Early, EnsureThread, Refuse, SpawnJob, HandOff, RequestFails, ExecutedInline, Waited
<1>4. CASE Admitted
    BY <1>4 DEF Admitted
<1>5. CASE StartRelay \/ CloseResponse
    BY <1>5 DEF StartRelay, CloseResponse, ResponseOver
<1>6. CASE StartAdmission \/ AcquireLock \/ LeaveQueue
    BY <1>6 DEF StartAdmission, AcquireLock, LeaveQueue
<1>7. CASE StartProducer
    BY <1>7 DEF StartProducer
<1>8. CASE InsertFails \/ InsertUndone \/ Claim \/ GraphWrites \/ GraphEnds \/ RunEnds \/ RunUnwinds
    BY <1>8 DEF InsertFails, InsertUndone, Claim, GraphWrites, GraphEnds, RunEnds, RunUnwinds
<1>9. CASE AbandonAdmission
    BY <1>9 DEF AbandonAdmission, AdmissionDone, GiveUp
<1>10. ASSUME Interrupt
       PROVE  task' \in {"fresh", "lock", "insert"} => task' = task /\ (~cancelled' => ~cancelled)
    BY <1>10 DEF Interrupt
<1>11. CASE ShutDown
    BY <1>10, <1>11 DEF ShutDown
<1>12. CASE Leave
  <2>1. UNCHANGED <<route, onLeave, produced>>
      BY <1>12 DEF Leave
  <2>2. CASE request = "awaiting"
    <3>1. callback' = AbandonsLater /\ GiveUp
        BY <1>12, <2>2 DEF Leave
    <3>2. CASE onLeave = "cancel"
      <4>1. Interrupt /\ request' = IF produced THEN "over" ELSE request
          BY <1>12, <2>2, <3>2 DEF Leave
      <4> QED BY <1>10, <2>1, <2>2, <3>1, <4>1 DEF GiveUp
    <3>3. CASE onLeave = "continue"
      <4>1. request' = "over" /\ UNCHANGED <<task, cancelled>>
          BY <1>12, <2>2, <3>3 DEF Leave
      <4> QED BY <2>1, <2>2, <3>1, <3>3, <4>1 DEF GiveUp, AbandonsLater, AdmissionDone
    <3> QED BY <3>2, <3>3
  <2>3. CASE request = "replying"
      BY <1>12, <2>1, <2>3 DEF Leave
  <2>4. CASE request = "relaying"
      BY <1>10, <1>12, <2>1, <2>4 DEF Leave
  <2>5. CASE request \notin {"awaiting", "replying", "relaying"}
    <3>1. UNCHANGED <<task, cancelled, queue, callback>> /\ request' \in {"read", "over"}
        BY <1>12, <2>5 DEF Leave
    <3> QED BY <2>1, <2>5, <3>1
  <2> QED BY <2>2, <2>3, <2>4, <2>5
<1>13. CASE UNCHANGED vars
    BY <1>13 DEF vars
<1> QED BY <1>1, <1>2, <1>3, <1>4, <1>5, <1>6, <1>7, <1>8, <1>9, <1>11, <1>12, <1>13
        DEF Next, RequestStep, TaskStep

\* The subscription of a client that has left is given back by a callback that
\* is still registered, or was: the safety half of AbandonedQueuesAreDetached,
\* without fairness (runs.py 486-500, 1627-1648).
NoQueueIsForgotten == request = "over" /\ queue = "attached" => callback

THEOREM QueuesAreWatched == Spec => []NoQueueIsForgotten
<1>1. Init => Watched
    BY DEF Init, Watched
<1>2. IInv /\ Watched /\ [Next]_vars => Watched'
    BY WatchedStep
<1>3. Watched => NoQueueIsForgotten
    BY DEF Watched, NoQueueIsForgotten
<1> QED BY <1>1, <1>2, <1>3, Invariance, PTL DEF Spec

-----------------------------------------------------------------------------
\* Every variable keeps its type.
THEOREM StatelessTypes == Spec => []TypeOK
<1>1. IInv => TypeOK
    BY DEF IInv
<1> QED BY <1>1, Invariance, PTL

\* The thread of a stateless run is discarded at most once, whoever owns
\* after_run when the client leaves, the store fails or the process stops
\* (runs.py 326-338, 428-482).
THEOREM DiscardsOnce == Spec => []DiscardedAtMostOnce
<1>1. IInv => DiscardedAtMostOnce
    BY DEF IInv, Owed, DiscardedAtMostOnce
<1> QED BY <1>1, Invariance, PTL

\* Nothing executes on a thread that is being discarded, except under a create
\* that its client abandoned (runs.py 934-937).
THEOREM DiscardsIdleThreads == Spec => []NoRunOnDiscardedThread
<1>1. IInv => NoRunOnDiscardedThread
    BY DEF IInv, TypeOK, Owner, Owed, Abandoned, Early, Pending, Executes, NoRunOnDiscardedThread
<1> QED BY <1>1, Invariance, PTL

\* Once request and task have stopped, whatever they made is gone, unless the
\* discard itself was hit: the safety half of NothingIsLeft, without fairness
\* (runs.py 879-880).
StopsClean == Nothing => Gone \/ cut \/ Abandoned

THEOREM StopsCleanAlways == Spec => []StopsClean
<1>1. IInv => StopsClean
    BY DEF IInv, TypeOK, Owner, Kept, Owing, Early, Pending, Discarding, StopsClean, Nothing, Gone
<1> QED BY <1>1, Invariance, PTL
=============================================================================
