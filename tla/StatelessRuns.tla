---------------------------- MODULE StatelessRuns ----------------------------
(***************************************************************************)
(* A stateless run (runs.py 883-986): it executes on a thread made for it, *)
(* which is discarded afterwards with its rows and checkpoints.  Depending *)
(* on the route the request discards it, or, when the run may outlive the  *)
(* response, whoever ends up with after_run: the request until the run is  *)
(* handed off, its admission task, or the finalizer of its producer        *)
(* (runs.py 307-516).  A streaming run has its response subscribed before  *)
(* the response exists, and whoever finds that nobody will read it has to  *)
(* give the queue back.  Client, store and shutdown interrupt any await.   *)
(*                                                                         *)
(* Nobody else knows the thread, so one request is the whole system.       *)
(***************************************************************************)
EXTENDS Naturals

CONSTANTS
  MaxCancels,   \* bound: departures of the client and shutdowns
  MaxFailures   \* bound: store calls that fail

ASSUME BoundsAssumption == {MaxCancels, MaxFailures} \subseteq Nat

VARIABLES
  route,       \* "create", "wait" or "stream"
  onLeave,     \* request.on_disconnect: "cancel" or "continue"
  request,     \* what the request awaits
  task,        \* what the run's task awaits: admission, producer, finalizer, job
  cancelled,   \* that task was cancelled
  produced,    \* the producer was started: the task is it, then its finalizer
  queue,       \* the eager subscription's: "none", "attached", "released", or
               \* "unread", attached to the end, of a relay that never started
  callback,    \* _abandon_admission waits for the admission task to be done
  thread,      \* the thread row exists
  row,         \* the run row exists
  checkpoints, \* the checkpointer holds checkpoints of the thread
  discards,    \* history: how often discarding the thread was begun
  cut,         \* history: a discard, or the way to it, was broken off
  left,        \* the client is gone
  cancels, failures

data   == <<thread, row, checkpoints>>
faults == <<left, cancels, failures>>
fate   == <<cancelled, produced, queue, callback>>
vars   == <<route, onLeave, request, task, fate, data, discards, cut, faults>>

Init ==
  /\ route \in {"create", "wait", "stream"}
  /\ onLeave \in {"cancel", "continue"}
  /\ request = "ensure"
  /\ task = "none"
  /\ cancelled = FALSE /\ produced = FALSE
  /\ queue = "none" /\ callback = FALSE
  /\ thread = FALSE /\ row = FALSE /\ checkpoints = FALSE
  /\ discards = 0 /\ cut = FALSE
  /\ left = FALSE
  /\ cancels = 0 /\ failures = 0

Discarding(pc) == pc \in {"read", "checkpoints", "rows"}
Executes == task \in {"running", "saving"} \/ request = "executing"

\* the request or the task goes on at a label; going to "read" begins a discard
RequestAt(label) ==
  request' = label /\ discards' = IF label = "read" THEN discards + 1 ELSE discards
TaskAt(label) ==
  task' = label /\ discards' = IF label = "read" THEN discards + 1 ELSE discards

Fail == failures < MaxFailures /\ failures' = failures + 1

(***************************************************************************)
(* ThreadOps.delete under _discard_thread.                                 *)
(***************************************************************************)
DiscardStep(pc, next) ==
  \/ /\ pc = "read"
     /\ next = IF thread THEN "checkpoints" ELSE "over"
     /\ UNCHANGED data
  \/ /\ pc = "checkpoints" /\ next = "rows"
     /\ checkpoints' = FALSE /\ UNCHANGED <<thread, row>>
  \/ /\ pc = "rows" /\ next = "over"
     /\ thread' = FALSE /\ row' = FALSE /\ UNCHANGED checkpoints

RequestDiscards ==
  /\ Discarding(request)
  /\ DiscardStep(request, request')
  /\ UNCHANGED <<route, onLeave, task, fate, discards, cut, faults>>

TaskDiscards ==
  /\ Discarding(task)
  /\ DiscardStep(task, task')
  /\ UNCHANGED <<route, onLeave, request, fate, discards, cut, faults>>

\* logged and swallowed: what is left is litter
DiscardFails ==
  /\ Fail /\ cut' = TRUE
  /\ \/ Discarding(request) /\ request' = "over" /\ UNCHANGED task
     \/ Discarding(task) /\ task' = "over" /\ UNCHANGED request
  /\ UNCHANGED <<route, onLeave, fate, data, discards, left, cancels>>

(***************************************************************************)
(* The request.                                                            *)
(***************************************************************************)
\* ensure_thread_for_run creates the thread
EnsureThread ==
  /\ request = "ensure"
  /\ thread' = TRUE
  /\ RequestAt(IF route = "wait" THEN "executing" ELSE "admit")
  /\ UNCHANGED <<route, onLeave, task, fate, row, checkpoints, cut, faults>>

\* an unsupported assistant or an invalid payload, after the thread was created
Refuse ==
  /\ request = "ensure"
  /\ thread' = TRUE
  /\ RequestAt("read")
  /\ UNCHANGED <<route, onLeave, task, fate, row, checkpoints, cut, faults>>

\* a background run: row and task under the admission lock
SpawnJob ==
  /\ route = "create" /\ request = "admit"
  /\ row' = TRUE /\ task' = "lock" /\ RequestAt("waiting")
  /\ UNCHANGED <<route, onLeave, fate, thread, checkpoints, cut, faults>>

\* a streaming run: the admission task takes over after_run
HandOff ==
  /\ route = "stream" /\ request = "admit"
  /\ task' = "fresh" /\ RequestAt("awaiting")
  /\ UNCHANGED <<route, onLeave, fate, data, cut, faults>>

\* a store call of the request fails: its finally, or its except, discards
RequestFails ==
  /\ request \in {"ensure", "admit", "executing"} /\ Fail
  /\ RequestAt("read")
  /\ UNCHANGED <<route, onLeave, task, fate, data, cut, left, cancels>>

\* the graph is invoked in the request
ExecutedInline ==
  /\ request = "executing"
  /\ RequestAt("read")
  /\ UNCHANGED <<route, onLeave, task, fate, data, cut, faults>>

\* asyncio.wait({task}) is over
Waited ==
  /\ request = "waiting" /\ task = "over"
  /\ RequestAt("read")
  /\ UNCHANGED <<route, onLeave, task, fate, data, cut, faults>>

\* Mutant: the request cleans up after any admission that failed.
RequestCleansUp == TRUE

\* the request has to run after_run: admission never took its first step
NeverStarted == task = "unstarted"

\* admission is over: its producer's events are relayed, or its error is raised
Admitted ==
  /\ request = "awaiting"
  /\ IF produced THEN RequestAt("replying")
     ELSE /\ task \in {"over", "unstarted"}
          /\ RequestAt(IF NeverStarted THEN "read" ELSE "over")
  /\ UNCHANGED <<route, onLeave, task, fate, data, cut, faults>>

\* the response asks its relay, and that the subscription, for the first event
StartRelay ==
  /\ request = "replying" /\ RequestAt("relaying")
  /\ UNCHANGED <<route, onLeave, task, fate, data, cut, faults>>

ResponseOver == request = "relaying" /\ (task = "over" \/ left)

\* Mutant: the thread is discarded when the response closes.
CloseWithDiscard ==
  /\ ResponseOver /\ RequestAt("read") /\ queue' = "released"
  /\ UNCHANGED <<route, onLeave, task, cancelled, produced, callback, data, cut, faults>>

\* the stream has ended or the client has left: the relay's finally
CloseResponse ==
  /\ ResponseOver /\ RequestAt("over") /\ queue' = "released"
  /\ UNCHANGED <<route, onLeave, task, cancelled, produced, callback, data, cut, faults>>

(***************************************************************************)
(* The run's task.                                                         *)
(***************************************************************************)
StartAdmission ==
  /\ task = "fresh" /\ task' = "lock"
  /\ UNCHANGED <<route, onLeave, request, fate, data, discards, cut, faults>>

AcquireLock ==
  /\ task = "lock" /\ ~cancelled
  /\ task' = IF route = "stream" THEN "insert" ELSE "running"
  /\ UNCHANGED <<route, onLeave, request, fate, data, discards, cut, faults>>

\* Mutant: only admissions that held the lock clean up.
LeaveQueueOnly ==
  /\ task = "lock" /\ cancelled
  /\ TaskAt("over")
  /\ UNCHANGED <<route, onLeave, request, fate, data, cut, faults>>

\* cancelled in the lock's queue: no producer will run after_run
LeaveQueue ==
  /\ task = "lock" /\ cancelled
  /\ TaskAt(IF route = "stream" THEN "read" ELSE "over")
  /\ UNCHANGED <<route, onLeave, request, fate, data, cut, faults>>

\* the row is inserted and start_producer runs: subscription and producer
StartProducer ==
  /\ task = "insert" /\ ~cancelled
  /\ row' = TRUE /\ task' = "producer" /\ produced' = TRUE /\ queue' = "attached"
  /\ UNCHANGED <<route, onLeave, request, cancelled, callback, thread, checkpoints, discards,
                 cut, faults>>

\* the insert fails or is cancelled, committed or not
InsertFails ==
  /\ task = "insert"
  /\ \/ cancelled /\ UNCHANGED failures
     \/ ~cancelled /\ Fail
  /\ row' \in {row, TRUE}
  /\ task' = "undo"
  /\ UNCHANGED <<route, onLeave, request, fate, thread, checkpoints, discards, cut, left, cancels>>

\* _interrupt_row_only, then after_run
InsertUndone ==
  /\ task = "undo" /\ TaskAt("read")
  /\ UNCHANGED <<route, onLeave, request, fate, data, cut, faults>>

Claim ==
  /\ task = "producer" /\ ~cancelled /\ task' = "running"
  /\ UNCHANGED <<route, onLeave, request, fate, data, discards, cut, faults>>

GraphWrites ==
  /\ Executes /\ checkpoints' = TRUE
  /\ UNCHANGED <<route, onLeave, request, task, fate, thread, row, discards, cut, faults>>

GraphEnds ==
  /\ task = "running" /\ ~cancelled /\ task' = "saving"
  /\ UNCHANGED <<route, onLeave, request, fate, data, discards, cut, faults>>

\* the finalizer of a producer goes on to after_run, a job is over
RunEnds ==
  /\ \/ task = "saving" /\ ~cancelled
     \/ task = "marking"
  /\ TaskAt(IF produced THEN "read" ELSE "over")
  /\ UNCHANGED <<route, onLeave, request, fate, data, cut, faults>>

\* the cancelled task raises; the finalizer, or the job's handler, marks the row
RunUnwinds ==
  /\ task \in {"producer", "running", "saving"} /\ cancelled
  /\ task' = "marking"
  /\ UNCHANGED <<route, onLeave, request, fate, data, discards, cut, faults>>

(***************************************************************************)
(* Cancellation.                                                           *)
(***************************************************************************)
\* a task is cancelled once; not started it never will, and what admission does
\* on its way out is broken off.  The finalizer's work is nobody's to cancel
Interrupt ==
  IF cancelled \/ task \in {"none", "over", "unstarted", "marking"} \/ (produced /\ Discarding(task))
    THEN UNCHANGED <<task, cancelled, cut>>
    ELSE /\ cancelled' = TRUE
         /\ task' = CASE task = "fresh"                        -> "unstarted"
                      [] task = "undo" \/ Discarding(task)     -> "over"
                      [] OTHER                                 -> task
         /\ cut' = (cut \/ task = "undo" \/ Discarding(task)
                        \/ (task = "fresh" /\ request # "awaiting"))

AdmissionDone == produced \/ task \in {"over", "unstarted"}

\* Mutant: the request abandons the admission whether it is done or not.
AbandonsAtOnce == FALSE

\* a client that leaves its run to go on, before admission is done
AbandonsLater == onLeave = "continue" /\ ~AdmissionDone

\* _abandon_admission, of a run that was admitted
GiveUp == queue' = IF produced THEN "released" ELSE queue

\* the done callback of an admission whose client has left
AbandonAdmission ==
  /\ callback /\ AdmissionDone
  /\ callback' = FALSE /\ GiveUp
  /\ UNCHANGED <<route, onLeave, request, task, cancelled, produced, data, discards, cut, faults>>

Leave ==
  /\ ~left /\ request # "over" /\ cancels < MaxCancels
  /\ left' = TRUE /\ cancels' = cancels + 1
  /\ \/ /\ request \in {"ensure", "admit", "executing", "waiting"}
        /\ thread' \in {thread, TRUE}
        /\ row' \in (IF route = "create" /\ request = "admit" THEN {row, TRUE} ELSE {row})
        /\ RequestAt("read")
        /\ UNCHANGED <<task, cancelled, queue, callback, cut>>
     \/ /\ Discarding(request)
        /\ request' = "over" /\ cut' = TRUE
        /\ UNCHANGED <<task, cancelled, queue, callback, discards, thread, row>>
     \/ /\ request = "awaiting"
        /\ request' = IF onLeave = "continue" \/ produced THEN "over" ELSE request
        /\ IF onLeave = "cancel" THEN Interrupt ELSE UNCHANGED <<task, cancelled, cut>>
        /\ callback' = AbandonsLater /\ GiveUp
        /\ UNCHANGED <<discards, thread, row>>
     \/ /\ request = "replying"
        /\ request' = "over" /\ queue' = "unread"
        /\ UNCHANGED <<task, cancelled, callback, cut, discards, thread, row>>
     \/ /\ request = "relaying"
        /\ IF onLeave = "cancel" THEN Interrupt ELSE UNCHANGED <<task, cancelled, cut>>
        /\ UNCHANGED <<request, queue, callback, discards, thread, row>>
  /\ UNCHANGED <<route, onLeave, produced, checkpoints, failures>>

\* registry.shutdown, after the requests have ended
ShutDown ==
  /\ request = "over" /\ cancels < MaxCancels
  /\ Interrupt /\ task \notin {"none", "over", "unstarted"}
  /\ cancels' = cancels + 1
  /\ UNCHANGED <<route, onLeave, request, produced, queue, callback, data, discards, left, failures>>

RequestStep ==
  \/ RequestDiscards \/ EnsureThread \/ Refuse \/ SpawnJob \/ HandOff \/ ExecutedInline
  \/ Waited \/ Admitted \/ StartRelay \/ CloseResponse

TaskStep ==
  \/ TaskDiscards \/ StartAdmission \/ AcquireLock \/ LeaveQueue \/ StartProducer \/ InsertFails
  \/ InsertUndone \/ Claim \/ GraphEnds \/ RunEnds \/ RunUnwinds

Next ==
  \/ RequestStep \/ TaskStep \/ GraphWrites
  \/ RequestFails \/ DiscardFails \/ AbandonAdmission \/ Leave \/ ShutDown

\* the event loop runs what is ready, and graphs come to an end
Spec ==
  /\ Init /\ [][Next]_vars
  /\ WF_vars(RequestStep) /\ WF_vars(TaskStep) /\ WF_vars(AbandonAdmission)

-----------------------------------------------------------------------------
TypeOK ==
  /\ route \in {"create", "wait", "stream"}
  /\ onLeave \in {"cancel", "continue"}
  /\ request \in {"ensure", "admit", "awaiting", "replying", "relaying", "waiting", "executing",
                  "read", "checkpoints", "rows", "over"}
  /\ task \in {"none", "fresh", "unstarted", "lock", "insert", "undo", "producer", "running",
               "saving", "marking", "read", "checkpoints", "rows", "over"}
  /\ discards \in Nat /\ cancels \in Nat /\ failures \in Nat
  /\ cancelled \in BOOLEAN /\ produced \in BOOLEAN
  /\ queue \in {"none", "attached", "released", "unread"} /\ callback \in BOOLEAN
  /\ thread \in BOOLEAN /\ row \in BOOLEAN /\ checkpoints \in BOOLEAN
  /\ cut \in BOOLEAN /\ left \in BOOLEAN

\* after_run is never run twice: request, admission task and finalizer each may
\* own it, and a cancellation or a failure may hit any hand-over (runs.py
\* 326-338, 428-460, 468-482).
DiscardedAtMostOnce == discards <= 1

\* Once the thread is being discarded nothing executes on it, though the run may
\* outlive its client: only a create whose request is cancelled while it waits
\* discards under the job it started (runs.py 934-937).
NoRunOnDiscardedThread ==
  discards > 0 /\ ~(route = "create" /\ left) => ~Executes

Nothing == request = "over" /\ task \in {"none", "over", "unstarted"}
Gone    == ~thread /\ ~row /\ ~checkpoints

\* Everything made for a stateless run is gone in the end, wherever the client
\* leaves, the store fails or the shutdown comes, unless that hits the discard
\* itself (runs.py 879-880, 939-950).
NothingIsLeft ==
  thread ~> Nothing /\ (Gone \/ cut \/ (route = "create" /\ left))

\* A subscription taken for a client that has left is given back while the run
\* goes on without it: whether it left before the run was queued, admitted or
\* answered, and however admission, shutdown and the callback are ordered
\* (runs.py 486-500, 1627-1648); only a relay that was dropped before it was
\* started leaves its queue behind.
AbandonedQueuesAreDetached ==
  request = "over" /\ queue = "attached" ~> queue = "released"
=============================================================================
