---------------------------- MODULE RunExecution ----------------------------
(***************************************************************************)
(* The tasks that execute the runs of one thread in one skeino process:    *)
(*                                                                         *)
(*  - the background task of POST /runs (RunOps._run_to_completion),       *)
(*  - the admission task of POST /runs/stream (admit), which hands its run *)
(*    to the producer task (RunOps._publish_run) under the same run id,    *)
(*  - the producer's finalizer (finalize_run, run by the registry).        *)
(*                                                                         *)
(* A task is a program counter naming the await it is suspended at, and an *)
(* action is what runs from that await to the next one.  The effect of an  *)
(* awaited store call and the resumption of its caller are one step; a     *)
(* cancellation delivered at the await, or a call that raises, may or may  *)
(* not have taken effect.                                                  *)
(***************************************************************************)
EXTENDS Naturals, SequencesExt, RunStore

CONSTANTS
    Runs,       \* the run ids the clients of the thread will create
    NoRun,      \* "nobody", as the owner of a lock
    MaxFaults   \* bound: how many store calls may raise

ASSUME RunsAssumption == Runs # {} /\ NoRun \notin Runs
ASSUME MaxFaultsAssumption == MaxFaults \in Nat

Kinds == {"background", "streaming"}
Strategies == {"reject", "enqueue", "interrupt", "rollback"}
OnDisconnect == {"continue", "cancel"}
RequestType ==
    [kind : Kinds, strategy : Strategies, onDisconnect : OnDisconnect]

VARIABLES
    request,     \* what each run's client asks for
    task,        \* where the run's current task, or its finalizer, awaits
    tracked,     \* the task BackgroundRunRegistry._tasks holds for the run
    callback,    \* the admission task's done callback has yet to run
    cancel,      \* Task.cancel() on the current task: asked for, delivered
    lockOwner,   \* the thread's execution lock ...
    lockQueue,   \* ... and its waiters, first come first served
    row,         \* the run rows in the metadata store
    thread,      \* the thread row's status
    unsettled,   \* the thread is in RunOps._unsettled_threads
    stream,      \* the run's RunEventStream
    outcome,     \* the terminal event published on it
    faults       \* how many store calls have raised

execVars == <<request, task, tracked, callback, cancel, lockOwner, lockQueue,
              row, thread, unsettled, stream, outcome, faults>>

registryVars == <<tracked, callback>>
lockVars == <<lockOwner, lockQueue>>
threadVars == <<thread, unsettled>>
streamVars == <<stream, outcome>>

-----------------------------------------------------------------------------
(* The awaits of a task.                                                   *)

\* Spawned and not yet run, or queued for the execution lock.
Waiting == {"ready", "lockWait"}

\* Holding the execution lock.  "insert" is the admission task's create_run,
\* "start" a producer spawned and not yet run, and the four last belong to
\* the cancellation handler of a background task and to the finalizer of a
\* streaming run.
Holding ==
    {"insert", "start", "claim", "lost", "busy", "graph", "finish", "settle",
     "tokens", "failMark", "failLost", "failThread", "ended",
     "intMark", "intLost", "intThread", "resettle"}

\* Recording that a run never started, after the lock is given up.
Dropping == {"dropRow"}

\* "done": the task is over and its done callback has yet to run.
Over == {"none", "done", "gone"}

TaskStates == Waiting \cup Holding \cup Dropping \cup Over
Statuses == {"idle", "busy", "error", "interrupted"}
Settled == {"idle", "interrupted"}  \* what _settled_thread_status returns
Outcomes == {"none", "success", "error", "interrupted"}

TypeOKExec ==
    /\ request \in [Runs -> RequestType]
    /\ task \in [Runs -> TaskStates]
    /\ tracked \in [Runs -> {"none", "run", "admission", "producer"}]
    /\ callback \in [Runs -> BOOLEAN]
    /\ cancel \in [Runs -> {"none", "requested", "delivered"}]
    /\ lockOwner \in Runs \cup {NoRun}
    /\ lockQueue \in Seq(Runs)
    /\ row \in [Runs -> RowStates]
    /\ thread \in Statuses
    /\ unsettled \in BOOLEAN
    /\ stream \in [Runs -> {"none", "open", "closed"}]
    /\ outcome \in [Runs -> Outcomes]
    /\ faults \in 0..MaxFaults

ExecInit ==
    /\ task = [r \in Runs |-> "none"]
    /\ tracked = [r \in Runs |-> "none"]
    /\ callback = [r \in Runs |-> FALSE]
    /\ cancel = [r \in Runs |-> "none"]
    /\ lockOwner = NoRun
    /\ lockQueue = <<>>
    /\ row = [r \in Runs |-> "absent"]
    /\ thread = "idle"
    /\ unsettled = FALSE
    /\ stream = [r \in Runs |-> "none"]
    /\ outcome = [r \in Runs |-> "none"]
    /\ faults = 0

Streaming(r) == request[r].kind = "streaming"
Live(r) == task[r] \notin Over
Goto(r, s) == task' = [task EXCEPT ![r] = s]

-----------------------------------------------------------------------------
(* How an await ends: it returns, it raises, or it raises CancelledError.  *)

Resumes(r) ==
    /\ cancel[r] # "requested"
    /\ UNCHANGED <<cancel, faults>>

Raises(r) ==
    /\ cancel[r] # "requested"
    /\ faults < MaxFaults
    /\ faults' = faults + 1
    /\ UNCHANGED cancel

Unwinds(r) ==
    /\ cancel[r] = "requested"
    /\ cancel' = [cancel EXCEPT ![r] = "delivered"]
    /\ UNCHANGED faults

\* What Task.cancel() can reach: a task that is not over.  A streaming run's
\* finalizer is not the run's task any more.
Cancellable(r) ==
    /\ Live(r)
    /\ Streaming(r) =>
         task[r] \notin {"ended", "intMark", "intLost", "intThread", "resettle"}

\* "if not task.cancelling(): task.cancel()"
RequestCancel(r) ==
    cancel' = IF Cancellable(r) /\ cancel[r] = "none"
              THEN [cancel EXCEPT ![r] = "requested"] ELSE cancel

\* Awaiting a task and being cancelled passes the cancel on to it unguarded.
PassCancelOn(r) ==
    cancel' = IF Cancellable(r)
              THEN [cancel EXCEPT ![r] = "requested"] ELSE cancel

-----------------------------------------------------------------------------
(* The execution lock (ThreadLockManager, an asyncio.Lock).                *)

\* Lock.acquire() returns at once: free, and every waiter already cancelled.
Uncontended(r) ==
    /\ lockOwner = NoRun
    /\ \A i \in 1..Len(lockQueue) : cancel[lockQueue[i]] = "requested"

\* What a task does with the lock once it has it.
FirstHeld(r) == IF Streaming(r) THEN "insert" ELSE "claim"

-----------------------------------------------------------------------------
(* The start of a background task and of an admission task.                *)

\* The first step: acquire the lock or queue for it.
Start(r) ==
    /\ task[r] = "ready"
    /\ Resumes(r)
    /\ IF Uncontended(r)
       THEN /\ lockOwner' = r
            /\ Goto(r, FirstHeld(r))
            /\ UNCHANGED lockQueue
       ELSE /\ lockQueue' = Append(lockQueue, r)
            /\ Goto(r, "lockWait")
            /\ UNCHANGED lockOwner
    /\ UNCHANGED <<request, registryVars, row, threadVars, streamVars>>

\* Cancelled before its first step, a task ends without running any of its
\* body: no handler of the body sees the cancellation.
NeverRuns(r) ==
    /\ task[r] = "ready"
    /\ Unwinds(r)
    /\ Goto(r, "done")
    /\ UNCHANGED <<request, registryVars, lockVars, row, threadVars, streamVars>>

Grant(r) ==
    /\ task[r] = "lockWait"
    /\ Resumes(r)
    /\ lockOwner = NoRun
    /\ lockQueue # <<>> /\ Head(lockQueue) = r
    /\ lockOwner' = r
    /\ lockQueue' = Tail(lockQueue)
    /\ Goto(r, FirstHeld(r))
    /\ UNCHANGED <<request, registryVars, row, threadVars, streamVars>>

\* Cancelled while queued.  A background run has a row to interrupt; an
\* admission has inserted nothing.
GiveUpLock(r) ==
    /\ task[r] = "lockWait"
    /\ Unwinds(r)
    /\ \E i \in 1..Len(lockQueue) :
         /\ lockQueue[i] = r
         /\ lockQueue' = RemoveAt(lockQueue, i)
    /\ Goto(r, IF Streaming(r) THEN "done" ELSE "dropRow")
    /\ UNCHANGED <<request, registryVars, lockOwner, row, threadVars, streamVars>>

\* FAULTY: a run that never started also settles its thread.
DropRowAndThread(r) ==
    /\ task[r] = "dropRow"
    /\ Resumes(r)
    /\ row' = UpdateStatus(row, r, "interrupted")
    /\ thread' = "idle"
    /\ Goto(r, "done")
    /\ UNCHANGED <<request, registryVars, lockVars, unsettled, streamVars>>

\* _interrupt_row_only, best effort: the task ends whatever the store does.
DropRow(r) ==
    /\ task[r] = "dropRow"
    /\ \/ Resumes(r) /\ row' = UpdateStatus(row, r, "interrupted")
       \/ (Raises(r) \/ Unwinds(r)) /\ row' \in {row, UpdateStatus(row, r, "interrupted")}
    /\ Goto(r, "done")
    /\ UNCHANGED <<request, registryVars, lockVars, threadVars, streamVars>>

-----------------------------------------------------------------------------
(* admit(): insert the row and hand the run to its producer.               *)

\* FAULTY: the admission task releases the lock that it acquired.
HandOffReleasing(r) ==
    /\ task[r] = "insert"
    /\ Resumes(r)
    /\ row' = InsertRow(row, r)
    /\ stream' = [stream EXCEPT ![r] = "open"]
    /\ tracked' = [tracked EXCEPT ![r] = "producer"]
    /\ callback' = [callback EXCEPT ![r] = TRUE]
    /\ Goto(r, "start")
    /\ lockOwner' = NoRun
    /\ UNCHANGED <<request, lockQueue, threadVars, outcome>>

\* create_run returned: start_producer opens the stream and spawns the
\* producer, which the registry tracks from now on in the same step.
HandOff(r) ==
    /\ task[r] = "insert"
    /\ Resumes(r)
    /\ row' = InsertRow(row, r)
    /\ stream' = [stream EXCEPT ![r] = "open"]
    /\ tracked' = [tracked EXCEPT ![r] = "producer"]
    /\ callback' = [callback EXCEPT ![r] = TRUE]
    /\ Goto(r, "start")
    /\ UNCHANGED <<request, lockVars, threadVars, outcome>>

\* FAULTY: a failed insert is taken for no insert at all.
InsertFailsBare(r) ==
    /\ task[r] = "insert"
    /\ Raises(r) \/ Unwinds(r)
    /\ row' \in {row, InsertRow(row, r)}
    /\ lockOwner' = NoRun
    /\ Goto(r, "done")
    /\ UNCHANGED <<request, registryVars, lockQueue, threadVars, streamVars>>

\* create_run raised or was cancelled: the insert may have committed.
InsertFails(r) ==
    /\ task[r] = "insert"
    /\ Raises(r) \/ Unwinds(r)
    /\ row' \in {row, InsertRow(row, r)}
    /\ lockOwner' = NoRun
    /\ Goto(r, "dropRow")
    /\ UNCHANGED <<request, registryVars, lockQueue, threadVars, streamVars>>

StartProducer(r) ==
    /\ task[r] = "start"
    /\ \/ Resumes(r) /\ Goto(r, "claim")
       \/ Unwinds(r) /\ Goto(r, "intMark")
    /\ UNCHANGED <<request, registryVars, lockVars, row, threadVars, streamVars>>

-----------------------------------------------------------------------------
(* The body of a run, the same for a background task and for a producer:   *)
(* claim, mark the thread busy, run the graph, save success, settle.       *)

\* An exception goes to the failure handler, a cancellation to the
\* cancellation handler (background) or to the finalizer (streaming).
Aborts(r) ==
    \/ Raises(r) /\ Goto(r, "failMark")
    \/ Unwinds(r) /\ Goto(r, "intMark")

\* FAULTY: a background task whose lock stays held.
LeaveKeepingLock(r) ==
    /\ Goto(r, IF Streaming(r) THEN "ended" ELSE "done")
    /\ UNCHANGED lockOwner

\* The body returns.  A background task releases its lock as it does; a
\* producer leaves it to the finalizer.
Leave(r) ==
    IF Streaming(r)
    THEN Goto(r, "ended") /\ UNCHANGED lockOwner
    ELSE Goto(r, "done") /\ lockOwner' = NoRun

\* A producer publishes how the run ended; a background run has no stream.
Publish(r, status) ==
    outcome' = IF Streaming(r) THEN [outcome EXCEPT ![r] = status] ELSE outcome

\* The outcome read back with fetch_run_row: a deleted row reads as an error.
Persisted(r) == IF row[r] \in {"success", "interrupted"} THEN row[r] ELSE "error"

\* _claim_run: update_run_status(running)
Claim(r) ==
    /\ task[r] = "claim"
    /\ \/ /\ Resumes(r)
          /\ row' = UpdateStatus(row, r, "running")
          /\ Goto(r, IF row[r] \in InFlight THEN "busy" ELSE "lost")
       \/ /\ Aborts(r)
          /\ row' \in {row, UpdateStatus(row, r, "running")}
    /\ UNCHANGED <<request, registryVars, lockVars, threadVars, streamVars>>

\* The claim or the final write lost: fetch_run_row tells to whom.
Lost(r) ==
    /\ task[r] = "lost"
    /\ \/ Resumes(r) /\ Leave(r) /\ Publish(r, Persisted(r))
       \/ Aborts(r) /\ UNCHANGED <<lockOwner, outcome>>
    /\ UNCHANGED <<request, registryVars, lockQueue, row, threadVars, stream>>

\* update_thread(busy)
Busy(r) ==
    /\ task[r] = "busy"
    /\ \/ Resumes(r) /\ thread' = "busy" /\ Goto(r, "graph")
       \/ Aborts(r) /\ thread' \in {thread, "busy"}
    /\ UNCHANGED <<request, registryVars, lockVars, row, unsettled, streamVars>>

\* The graph returns, raises, or is cancelled.
Graph(r) ==
    /\ task[r] = "graph"
    /\ \/ Resumes(r) /\ task' \in {[task EXCEPT ![r] = s] : s \in {"finish", "failMark"}}
       \/ Unwinds(r) /\ Goto(r, "intMark")
    /\ UNCHANGED <<request, registryVars, lockVars, row, threadVars, streamVars>>

\* _finish_run_status(success), then the synchronous start of
\* _settle_thread_after_success, which records the thread as unsettled.
Finish(r) ==
    /\ task[r] = "finish"
    /\ \/ /\ Resumes(r)
          /\ row' = UpdateStatus(row, r, "success")
          /\ IF row[r] \in InFlight
             THEN Goto(r, "settle") /\ unsettled' = TRUE
             ELSE Goto(r, "lost") /\ UNCHANGED unsettled
       \/ /\ Aborts(r)
          /\ row' \in {row, UpdateStatus(row, r, "success")}
          /\ UNCHANGED unsettled
    /\ UNCHANGED <<request, registryVars, lockVars, thread, streamVars>>

\* Reading the state for the token count is a fallback that awaits; the
\* body ends with it or without it.
SettleDone(r) ==
    \/ Goto(r, "tokens") /\ UNCHANGED <<lockOwner, outcome>>
    \/ Leave(r) /\ Publish(r, "success")

\* FAULTY: a failed settle is forgotten instead of queued.
SettleForgetting(r) ==
    /\ task[r] = "settle"
    /\ \/ Resumes(r) /\ thread' \in Settled /\ SettleDone(r)
       \/ Raises(r) /\ UNCHANGED thread /\ SettleDone(r)
    /\ unsettled' = FALSE
    /\ UNCHANGED <<request, registryVars, lockQueue, row, stream>>

\* _settle_thread_after_success: an exception is logged and leaves the
\* thread queued for the retry; a cancellation propagates and leaves it too.
Settle(r) ==
    /\ task[r] = "settle"
    /\ \/ Resumes(r) /\ thread' \in Settled /\ unsettled' = FALSE /\ SettleDone(r)
       \/ /\ thread' \in Settled \cup {thread}
          /\ \/ Raises(r) /\ SettleDone(r)
             \/ Unwinds(r) /\ Goto(r, "intMark") /\ UNCHANGED <<lockOwner, outcome>>
          /\ UNCHANGED unsettled
    /\ UNCHANGED <<request, registryVars, lockQueue, row, stream>>

Tokens(r) ==
    /\ task[r] = "tokens"
    /\ \/ Resumes(r) /\ Leave(r) /\ Publish(r, "success")
       \/ Unwinds(r) /\ Goto(r, "intMark") /\ UNCHANGED <<lockOwner, outcome>>
    /\ UNCHANGED <<request, registryVars, lockQueue, row, threadVars, stream>>

-----------------------------------------------------------------------------
(* _mark_run_failed, the failure handler.                                  *)

\* A cancellation inside the handler is caught by nobody: a background task
\* ends, a producer goes to its finalizer.
AbandonHandler(r) ==
    /\ Unwinds(r)
    /\ IF Streaming(r) THEN Goto(r, "intMark") /\ UNCHANGED lockOwner ELSE Leave(r)
    /\ UNCHANGED outcome

\* An exception inside it is logged; the subscribers still get the failure.
HandlerRaises(r) == Raises(r) /\ Leave(r) /\ Publish(r, "error")

FailMark(r) ==
    /\ task[r] = "failMark"
    /\ \/ /\ Resumes(r)
          /\ row' = UpdateStatus(row, r, "error")
          /\ Goto(r, IF row[r] \in InFlight THEN "failThread" ELSE "failLost")
          /\ UNCHANGED <<lockOwner, outcome>>
       \/ /\ HandlerRaises(r) \/ AbandonHandler(r)
          /\ row' \in {row, UpdateStatus(row, r, "error")}
    /\ UNCHANGED <<request, registryVars, lockQueue, threadVars, stream>>

FailLost(r) ==
    /\ task[r] = "failLost"
    /\ \/ Resumes(r) /\ Leave(r) /\ Publish(r, Persisted(r))
       \/ HandlerRaises(r)
       \/ AbandonHandler(r)
    /\ UNCHANGED <<request, registryVars, lockQueue, row, threadVars, stream>>

FailThread(r) ==
    /\ task[r] = "failThread"
    /\ \/ Resumes(r) /\ thread' = "error" /\ Leave(r) /\ Publish(r, "error")
       \/ /\ thread' \in {thread, "error"}
          /\ HandlerRaises(r) \/ AbandonHandler(r)
    /\ UNCHANGED <<request, registryVars, lockQueue, row, unsettled, stream>>

-----------------------------------------------------------------------------
(* _mark_run_interrupted: in a background task's CancelledError handler, or *)
(* in the finalizer of a producer that ended cancelled.                    *)

\* finish() in start_producer, then the end of finish() in spawn: the lock
\* released, the stream closed, the run forgotten, in one step.
CloseRun(r) ==
    /\ lockOwner' = NoRun
    /\ stream' = [stream EXCEPT ![r] = "closed"]
    /\ tracked' = [tracked EXCEPT ![r] = "none"]
    /\ Goto(r, "gone")

\* FAULTY: the finalizer closes the stream of a cancelled run silently.
ConcludeSilently(r, status) ==
    IF Streaming(r)
    THEN CloseRun(r) /\ UNCHANGED outcome
    ELSE Leave(r) /\ UNCHANGED <<stream, tracked, outcome>>

\* The handler is over: the task ends cancelled, or the finalizer publishes
\* the terminal event and closes the run.
Conclude(r, status) ==
    /\ IF Streaming(r)
       THEN CloseRun(r)
       ELSE Leave(r) /\ UNCHANGED <<stream, tracked>>
    /\ Publish(r, status)

\* FAULTY: "end interrupted" even though another writer finalized the row.
IntMarkRegardless(r) ==
    /\ task[r] = "intMark"
    /\ Resumes(r)
    /\ row' = UpdateStatus(row, r, "interrupted")
    /\ IF row[r] \in InFlight
       THEN Goto(r, "intThread") /\ UNCHANGED <<lockOwner, stream, tracked, outcome>>
       ELSE Conclude(r, "interrupted")
    /\ UNCHANGED <<request, callback, lockQueue, threadVars>>

IntMark(r) ==
    /\ task[r] = "intMark"
    /\ \/ /\ Resumes(r)
          /\ row' = UpdateStatus(row, r, "interrupted")
          /\ Goto(r, IF row[r] \in InFlight THEN "intThread" ELSE "intLost")
          /\ UNCHANGED <<lockOwner, stream, tracked, outcome>>
       \/ /\ Raises(r)
          /\ row' \in {row, UpdateStatus(row, r, "interrupted")}
          /\ Conclude(r, "interrupted")
    /\ UNCHANGED <<request, callback, lockQueue, threadVars>>

IntThread(r) ==
    /\ task[r] = "intThread"
    /\ \/ Resumes(r) /\ thread' = "idle"
       \/ Raises(r) /\ thread' \in {thread, "idle"}
    /\ Conclude(r, "interrupted")
    /\ UNCHANGED <<request, callback, lockQueue, row, unsettled>>

\* FAULTY: the thread is not settled again.
IntLostUnsettled(r) ==
    /\ task[r] = "intLost"
    /\ Resumes(r) /\ Conclude(r, Persisted(r))
    /\ UNCHANGED <<request, callback, lockQueue, row, threadVars>>

\* Cancelled after success was saved: settle the thread again.
IntLost(r) ==
    /\ task[r] = "intLost"
    /\ \/ /\ Resumes(r)
          /\ IF row[r] = "success"
             THEN /\ Goto(r, "resettle")
                  /\ unsettled' = TRUE
                  /\ UNCHANGED <<lockOwner, stream, tracked, outcome>>
             ELSE Conclude(r, Persisted(r)) /\ UNCHANGED unsettled
       \/ Raises(r) /\ Conclude(r, "interrupted") /\ UNCHANGED unsettled
    /\ UNCHANGED <<request, callback, lockQueue, row, thread>>

Resettle(r) ==
    /\ task[r] = "resettle"
    /\ \/ Resumes(r) /\ thread' \in Settled /\ unsettled' = FALSE
       \/ Raises(r) /\ thread' \in Settled \cup {thread} /\ UNCHANGED unsettled
    /\ Conclude(r, "success")
    /\ UNCHANGED <<request, callback, lockQueue, row>>

-----------------------------------------------------------------------------
(* What the registry does once a task is over.                             *)

\* The finalizer of a producer that was not cancelled.
Finalize(r) ==
    /\ task[r] = "ended"
    /\ CloseRun(r)
    /\ UNCHANGED <<request, callback, cancel, lockQueue, row, threadVars, outcome, faults>>

\* The done callback of a background task, or of an admission that ended
\* without a producer.
Forget(r) ==
    /\ task[r] = "done"
    /\ Goto(r, "gone")
    /\ tracked' = [tracked EXCEPT ![r] = "none"]
    /\ UNCHANGED <<request, callback, cancel, lockVars, row, threadVars, streamVars, faults>>

\* FAULTY: the admission's callback forgets the run it handed over.
AdmissionCallbackForgets(r) ==
    /\ callback[r]
    /\ callback' = [callback EXCEPT ![r] = FALSE]
    /\ tracked' = [tracked EXCEPT ![r] = "none"]
    /\ UNCHANGED <<request, task, cancel, lockVars, row, threadVars, streamVars, faults>>

\* The done callback of an admission that handed its run over: it forgets
\* the run only if the admission is still the task tracked for it.
AdmissionCallback(r) ==
    /\ callback[r]
    /\ callback' = [callback EXCEPT ![r] = FALSE]
    /\ tracked' = IF tracked[r] = "admission"
                  THEN [tracked EXCEPT ![r] = "none"] ELSE tracked
    /\ UNCHANGED <<request, task, cancel, lockVars, row, threadVars, streamVars, faults>>

-----------------------------------------------------------------------------
TaskStep(r) ==
    \/ Start(r) \/ NeverRuns(r) \/ Grant(r) \/ GiveUpLock(r) \/ DropRow(r)
    \/ HandOff(r) \/ InsertFails(r) \/ StartProducer(r)
    \/ Claim(r) \/ Lost(r) \/ Busy(r) \/ Graph(r) \/ Finish(r) \/ Settle(r) \/ Tokens(r)
    \/ FailMark(r) \/ FailLost(r) \/ FailThread(r)
    \/ IntMark(r) \/ IntThread(r) \/ IntLost(r) \/ Resettle(r)
    \/ Finalize(r) \/ Forget(r)
=============================================================================
