-------------------------------- MODULE Runs --------------------------------
(***************************************************************************)
(* The runs of one thread: the request handlers that create, cancel and    *)
(* delete them, the admission lock and multitask strategies, the settle    *)
(* retry of the liveness pass, and another worker's orphan sweep, around   *)
(* the tasks of RunExecution that execute them.                            *)
(***************************************************************************)
EXTENDS RunExecution

CONSTANTS
    Requests,     \* the requests a client may make
    CancelModes,  \* the cancel calls a client may make
    MaxCancels,   \* bound: runs a cancel call is made for
    MaxForeign,   \* bound: rows swept by another worker or deleted
    SettleRetry   \* whether the liveness pass runs

ASSUME RequestsAssumption == Requests \subseteq RequestType
ASSUME CancelModesAssumption ==
    CancelModes \subseteq {"interrupt", "interruptWait", "rollback"}
ASSUME BoundsAssumption == MaxCancels \in Nat /\ MaxForeign \in Nat
ASSUME SettleRetryAssumption == SettleRetry \in BOOLEAN

VARIABLES
    creator,    \* where each create request awaits, or how it was answered
    victims,    \* the active runs its strategy has yet to cancel
    victim,     \* the one it is cancelling
    admOwner,   \* the thread's admission lock ...
    admQueue,   \* ... and its waiters
    api,        \* where the cancel request for a run awaits, or its answer
    apiMode,    \* what that request asked for
    retry,      \* where the settle retry of the liveness pass awaits
    foreign     \* rows swept elsewhere or deleted so far

createVars == <<creator, victims, victim, admOwner, admQueue>>
apiVars == <<api, apiMode>>
vars == <<execVars, createVars, apiVars, retry, foreign>>

Answered == {"answered", "rejected", "failed", "refused", "relay", "left"}
CreatorStates ==
    Answered \cup {"idle", "queued", "supersede", "awaitVictim", "deleteVictim",
                   "insert", "admit"}
ApiAnswered == {"cancelled", "conflict", "failed"}
ApiStates == ApiAnswered \cup {"idle", "act", "wait", "delete", "backstop"}

TypeOK ==
    /\ TypeOKExec
    /\ creator \in [Runs -> CreatorStates]
    /\ victims \in [Runs -> SUBSET Runs]
    /\ victim \in [Runs -> Runs \cup {NoRun}]
    /\ admOwner \in Runs \cup {NoRun}
    /\ admQueue \in Seq(Runs)
    /\ api \in [Runs -> ApiStates]
    /\ apiMode \in [Runs -> {"none"} \cup CancelModes]
    /\ retry \in {"idle", "rows", "settle"}
    /\ foreign \in 0..MaxForeign

Init ==
    /\ ExecInit
    /\ request \in [Runs -> Requests]
    /\ creator = [r \in Runs |-> "idle"]
    /\ victims = [r \in Runs |-> {}]
    /\ victim = [r \in Runs |-> NoRun]
    /\ admOwner = NoRun
    /\ admQueue = <<>>
    /\ api = [r \in Runs |-> "idle"]
    /\ apiMode = [r \in Runs |-> "none"]
    /\ retry = "idle"
    /\ foreign = 0

-----------------------------------------------------------------------------
(* Admission: _admit_and_spawn and _create_streaming_run.                  *)

Await(r, s) == creator' = [creator EXCEPT ![r] = s]

\* A store call of a request handler that raises.
StoreRaises == faults < MaxFaults /\ faults' = faults + 1

\* active_runs: what the registry tracks, but for tasks that are over and
\* have no finalizer, which it prunes.
ActiveRuns == {r \in Runs : tracked[r] # "none" /\ task[r] # "done"}

Pruned == [r \in Runs |-> IF task[r] = "done" THEN "gone" ELSE task[r]]
PrunedTracked == [r \in Runs |-> IF task[r] = "done" THEN "none" ELSE tracked[r]]

\* The request arrives and asks for the admission lock.
Arrive(r) ==
    /\ creator[r] = "idle"
    /\ Await(r, "queued")
    /\ admQueue' = Append(admQueue, r)
    /\ UNCHANGED <<execVars, victims, victim, admOwner, apiVars, retry, foreign>>

\* FAULTY: a streaming run's admission goes on under the admission lock.
EnterKeepingLock(r, tasks, tracks) ==
    /\ admOwner' = r
    /\ tracked' = IF Streaming(r) THEN [tracks EXCEPT ![r] = "admission"] ELSE tracks
    /\ task' = IF Streaming(r) THEN [tasks EXCEPT ![r] = "ready"] ELSE tasks
    /\ Await(r, IF Streaming(r) THEN "admit" ELSE "insert")

\* The strategy lets the run in.  A background run awaits its row's insert
\* under the lock; a streaming run is registered and its admission task
\* spawned at once, and the lock is released.
Enter(r, tasks, tracks) ==
    IF Streaming(r)
    THEN /\ tracked' = [tracks EXCEPT ![r] = "admission"]
         /\ task' = [tasks EXCEPT ![r] = "ready"]
         /\ admOwner' = NoRun
         /\ Await(r, "admit")
    ELSE /\ tracked' = tracks
         /\ task' = tasks
         /\ admOwner' = r
         /\ Await(r, "insert")

\* The lock is granted and _resolve_multitask runs to its first await.
Admit(r) ==
    /\ creator[r] = "queued"
    /\ admOwner = NoRun
    /\ admQueue # <<>> /\ Head(admQueue) = r
    /\ admQueue' = Tail(admQueue)
    /\ CASE ActiveRuns = {} \/ request[r].strategy = "enqueue" ->
              Enter(r, Pruned, PrunedTracked) /\ UNCHANGED victims
         [] ActiveRuns # {} /\ request[r].strategy = "reject" ->
              /\ Await(r, "rejected")
              /\ tracked' = PrunedTracked
              /\ task' = Pruned
              /\ UNCHANGED <<admOwner, victims>>
         [] OTHER ->
              /\ Await(r, "supersede")
              /\ victims' = [victims EXCEPT ![r] = ActiveRuns]
              /\ tracked' = PrunedTracked
              /\ task' = Pruned
              /\ admOwner' = r
    /\ UNCHANGED <<request, callback, cancel, lockVars, row, threadVars, streamVars,
                   faults, victim, apiVars, retry, foreign>>

\* registry.cancel(run_id, wait=True) for the next active run.  One that is
\* no longer tracked has nothing to cancel.
CancelVictim(r) ==
    /\ creator[r] = "supersede"
    /\ \E v \in victims[r] :
         /\ victims' = [victims EXCEPT ![r] = @ \ {v}]
         /\ IF tracked[v] = "none"
            THEN UNCHANGED <<cancel, creator, victim>>
            ELSE /\ RequestCancel(v)
                 /\ victim' = [victim EXCEPT ![r] = v]
                 /\ Await(r, "awaitVictim")
    /\ UNCHANGED <<request, task, registryVars, lockVars, row, threadVars, streamVars,
                   faults, admOwner, admQueue, apiVars, retry, foreign>>

\* FAULTY: cancel() waits for the task but not for its finalizer.
TaskOnlyUnwound(r) ==
    task[r] \in {"done", "gone"} \/ (Streaming(r) /\ task[r] \in {"ended", "intMark", "intLost", "intThread", "resettle"})

\* cancel(wait=True) returns: the task is over, its finalizer too.
Unwound(r) == task[r] \in {"done", "gone"}

VictimUnwound(r) ==
    /\ creator[r] = "awaitVictim"
    /\ Unwound(victim[r])
    /\ IF request[r].strategy = "rollback"
       THEN Await(r, "deleteVictim") /\ UNCHANGED victim
       ELSE Await(r, "supersede") /\ victim' = [victim EXCEPT ![r] = NoRun]
    /\ UNCHANGED <<execVars, victims, admOwner, admQueue, apiVars, retry, foreign>>

\* A create that fails gives the admission lock up.
FailCreate(r) == Await(r, "failed") /\ admOwner' = NoRun

DeleteVictim(r) ==
    /\ creator[r] = "deleteVictim"
    /\ \/ /\ row' = DeleteRow(row, victim[r])
          /\ Await(r, "supersede")
          /\ UNCHANGED <<admOwner, faults>>
       \/ /\ StoreRaises
          /\ row' \in {row, DeleteRow(row, victim[r])}
          /\ FailCreate(r)
    /\ victim' = [victim EXCEPT ![r] = NoRun]
    /\ UNCHANGED <<request, task, registryVars, cancel, lockVars, threadVars, streamVars,
                   victims, admQueue, apiVars, retry, foreign>>

\* Every active run was cancelled: the new run goes in.
Superseded(r) ==
    /\ creator[r] = "supersede"
    /\ victims[r] = {}
    /\ Enter(r, task, tracked)
    /\ UNCHANGED <<request, callback, cancel, lockVars, row, threadVars, streamVars,
                   faults, victims, victim, admQueue, apiVars, retry, foreign>>

\* create_run, then the background task is spawned and the lock released.
Spawn(r) ==
    /\ creator[r] = "insert"
    /\ \/ /\ row' = InsertRow(row, r)
          /\ tracked' = [tracked EXCEPT ![r] = "run"]
          /\ Goto(r, "ready")
          /\ Await(r, "answered")
          /\ admOwner' = NoRun
          /\ UNCHANGED faults
       \/ /\ StoreRaises
          /\ row' \in {row, InsertRow(row, r)}
          /\ FailCreate(r)
          /\ UNCHANGED <<tracked, task>>
    /\ UNCHANGED <<request, callback, cancel, lockVars, threadVars, streamVars,
                   victims, victim, admQueue, apiVars, retry, foreign>>

\* The admission task answered its request: a stream to relay, or an error
\* (409 when it was superseded).
AdmissionAnswers(r) ==
    /\ creator[r] = "admit"
    /\ \/ stream[r] # "none" /\ Await(r, "relay")
       \/ stream[r] = "none" /\ task[r] \in {"done", "gone"} /\ Await(r, "refused")
    /\ UNCHANGED <<execVars, victims, victim, admOwner, admQueue, apiVars, retry, foreign>>

-----------------------------------------------------------------------------
(* The client of a streaming run goes away.                                *)

\* Before the run is registered: nothing is left behind but the victims.
LeaveAdmission(r) ==
    /\ Streaming(r)
    /\ creator[r] \in {"queued", "supersede", "awaitVictim", "deleteVictim"}
    /\ Await(r, "left")
    /\ admOwner' = IF admOwner = r THEN NoRun ELSE admOwner
    /\ IF creator[r] = "queued"
       THEN \E i \in 1..Len(admQueue) :
              admQueue[i] = r /\ admQueue' = RemoveAt(admQueue, i)
       ELSE UNCHANGED admQueue
    /\ row' \in {row} \cup
         (IF creator[r] = "deleteVictim" THEN {DeleteRow(row, victim[r])} ELSE {})
    /\ victims' = [victims EXCEPT ![r] = {}]
    /\ victim' = [victim EXCEPT ![r] = NoRun]
    /\ UNCHANGED <<request, task, registryVars, cancel, lockVars, threadVars, streamVars,
                   faults, apiVars, retry, foreign>>

\* While it is admitted or streamed, with on_disconnect="cancel".  The
\* request awaits the admission task, so the cancel passes on to it; once
\* there is a producer, it is cancelled unless it already was.
ClientLeaves(r) ==
    /\ Streaming(r)
    /\ request[r].onDisconnect = "cancel"
    /\ creator[r] \in {"admit", "relay"}
    /\ Await(r, "left")
    /\ IF creator[r] = "admit" THEN PassCancelOn(r) ELSE RequestCancel(r)
    /\ UNCHANGED <<request, task, registryVars, lockVars, row, threadVars, streamVars,
                   faults, victims, victim, admOwner, admQueue, apiVars, retry, foreign>>

-----------------------------------------------------------------------------
(* cancel_run                                                              *)

Answer(r, s) == api' = [api EXCEPT ![r] = s]

\* get_run found the row in flight (a terminal one is a 409).
ReadForCancel(r) ==
    /\ api[r] = "idle"
    /\ Cardinality({s \in Runs : api[s] # "idle"}) < MaxCancels
    /\ row[r] \in InFlight
    /\ \E m \in CancelModes : apiMode' = [apiMode EXCEPT ![r] = m]
    /\ Answer(r, "act")
    /\ UNCHANGED <<execVars, createVars, retry, foreign>>

\* registry.cancel, on what is tracked by now.
ActOnCancel(r) ==
    /\ api[r] = "act"
    /\ IF tracked[r] = "none"
       THEN Answer(r, "conflict") /\ UNCHANGED cancel
       ELSE /\ RequestCancel(r)
            /\ Answer(r, IF apiMode[r] = "interrupt" THEN "cancelled" ELSE "wait")
    /\ UNCHANGED <<request, task, registryVars, lockVars, row, threadVars, streamVars,
                   faults, createVars, apiMode, retry, foreign>>

\* FAULTY: no backstop after the wait.
CancelUnwoundBare(r) ==
    /\ api[r] = "wait"
    /\ Unwound(r)
    /\ Answer(r, IF apiMode[r] = "rollback" THEN "delete" ELSE "cancelled")
    /\ UNCHANGED <<execVars, createVars, apiMode, retry, foreign>>

CancelUnwound(r) ==
    /\ api[r] = "wait"
    /\ Unwound(r)
    /\ Answer(r, IF apiMode[r] = "rollback" THEN "delete" ELSE "backstop")
    /\ UNCHANGED <<execVars, createVars, apiMode, retry, foreign>>

\* The last write: delete the row, or persist "interrupted" in case the
\* task's own handler did not.
SettleCancel(r) ==
    /\ api[r] \in {"delete", "backstop"}
    /\ LET written == IF api[r] = "delete" THEN DeleteRow(row, r)
                      ELSE UpdateStatus(row, r, "interrupted")
       IN  \/ row' = written /\ Answer(r, "cancelled") /\ UNCHANGED faults
           \/ StoreRaises /\ row' \in {row, written} /\ Answer(r, "failed")
    /\ UNCHANGED <<request, task, registryVars, cancel, lockVars, threadVars, streamVars,
                   createVars, apiMode, retry, foreign>>

-----------------------------------------------------------------------------
(* Rows changed by others.                                                 *)

\* delete_run: a terminal row only.
DeleteTerminal(r) ==
    /\ foreign < MaxForeign
    /\ row[r] \in Terminal
    /\ row' = DeleteRow(row, r)
    /\ foreign' = foreign + 1
    /\ UNCHANGED <<request, task, registryVars, cancel, lockVars, threadVars, streamVars,
                   faults, createVars, apiVars, retry>>

\* Another worker's fail_stale_runs, when this process's heartbeat is late.
SweptElsewhere(r) ==
    /\ foreign < MaxForeign
    /\ row[r] \in InFlight
    /\ row' = UpdateStatus(row, r, "error")
    /\ foreign' = foreign + 1
    /\ UNCHANGED <<request, task, registryVars, cancel, lockVars, threadVars, streamVars,
                   faults, createVars, apiVars, retry>>

-----------------------------------------------------------------------------
(* _retry_unsettled_threads                                                *)

\* The thread row is read; then, in the same step, active_runs.
RetryRead ==
    /\ retry = "idle"
    /\ SettleRetry
    /\ unsettled
    /\ tracked' = IF thread = "busy" THEN PrunedTracked ELSE tracked
    /\ task' = IF thread = "busy" THEN Pruned ELSE task
    /\ unsettled' = (thread = "busy")
    /\ retry' = IF thread = "busy" /\ ActiveRuns = {} THEN "rows" ELSE "idle"
    /\ UNCHANGED <<request, callback, cancel, lockVars, row, thread, streamVars,
                   faults, createVars, apiVars, foreign>>

\* FAULTY: every row of the thread is listed, not only those in flight.
RetryRowsUnfiltered ==
    /\ retry = "rows"
    /\ IF \E r \in Runs : row[r] # "absent"
       THEN retry' = "idle" /\ UNCHANGED unsettled
       ELSE retry' = "settle" /\ unsettled' = TRUE
    /\ UNCHANGED <<request, task, registryVars, cancel, lockVars, row, thread, streamVars,
                   faults, createVars, apiVars, foreign>>

\* The in-flight rows are listed; with none, the settle starts.
RetryRows ==
    /\ retry = "rows"
    /\ IF \E r \in Runs : row[r] \in InFlight
       THEN retry' = "idle" /\ UNCHANGED unsettled
       ELSE retry' = "settle" /\ unsettled' = TRUE
    /\ UNCHANGED <<request, task, registryVars, cancel, lockVars, row, thread, streamVars,
                   faults, createVars, apiVars, foreign>>

\* _settle_thread_after_success
RetrySettle ==
    /\ retry = "settle"
    /\ retry' = "idle"
    /\ \/ thread' \in Settled /\ unsettled' = FALSE /\ UNCHANGED faults
       \/ StoreRaises /\ thread' \in Settled \cup {thread} /\ UNCHANGED unsettled
    /\ UNCHANGED <<request, task, registryVars, cancel, lockVars, row, streamVars,
                   createVars, apiVars, foreign>>

-----------------------------------------------------------------------------
CreatorStep(r) ==
    \/ Admit(r) \/ CancelVictim(r) \/ VictimUnwound(r) \/ DeleteVictim(r)
    \/ Superseded(r) \/ Spawn(r) \/ AdmissionAnswers(r)

ApiStep(r) == ActOnCancel(r) \/ CancelUnwound(r) \/ SettleCancel(r)

RetryStep == RetryRead \/ RetryRows \/ RetrySettle

\* The tasks and callbacks of RunExecution leave the handlers alone.
RunStep(r) ==
    /\ TaskStep(r) \/ AdmissionCallback(r)
    /\ UNCHANGED <<createVars, apiVars, retry, foreign>>

Environment(r) ==
    \/ Arrive(r) \/ LeaveAdmission(r) \/ ClientLeaves(r) \/ ReadForCancel(r)
    \/ DeleteTerminal(r) \/ SweptElsewhere(r)

\* Every request is answered and every run is over.
AllQuiet ==
    /\ \A r \in Runs : /\ creator[r] \in Answered \cup {"idle"}
                       /\ task[r] \in {"none", "gone"}
                       /\ ~callback[r]
                       /\ api[r] \in ApiAnswered \cup {"idle"}
    /\ retry = "idle"

Resting == AllQuiet /\ UNCHANGED vars

Next ==
    \/ \E r \in Runs : RunStep(r) \/ CreatorStep(r) \/ ApiStep(r) \/ Environment(r)
    \/ RetryStep
    \/ Resting

Spec == Init /\ [][Next]_vars

\* The event loop runs every ready task and the store answers every call;
\* the graph ends.  Clients, cancels and other workers owe nothing.
Fairness ==
    /\ \A r \in Runs : /\ WF_vars(RunStep(r))
                       /\ WF_vars(CreatorStep(r))
                       /\ WF_vars(ApiStep(r))
    /\ WF_vars(RetryStep)

FairSpec == Spec /\ Fairness

-----------------------------------------------------------------------------
(* Safety.                                                                 *)

\* "skeino runs at most one executing run per thread": two runs of a thread
\* are never in the graph at once, however their tasks, cancellations and
\* finalizers interleave.
OneExecutor ==
    \A r, s \in Runs : task[r] = "graph" /\ task[s] = "graph" => r = s

\* The execution lock is held by exactly the run whose task or finalizer is
\* between acquiring and releasing it: no path (error, cancellation before the
\* first step, hand-off to a producer) leaks it or releases it twice.
LockOwnership == \A r \in Runs : lockOwner = r <=> task[r] \in Holding

\* Two runs admitted with strategy "reject" are never unfinished together:
\* the check and the spawn are one decision under the admission lock, and a
\* run stays visible to the check through its admission, its hand-off to a
\* producer and its finalizer.
RejectedRunsNeverOverlap ==
    \A r, s \in Runs :
        /\ request[r].strategy = "reject" /\ Live(r)
        /\ request[s].strategy = "reject" /\ Live(s)
        => r = s

\* A streaming run that is over has a terminal row, or none: whatever was
\* cancelled at whatever await, its finalizer or its admission saw to it
\* (unless its client left: the second cancellation of an admission that was
\* already superseded cuts the write short that interrupts its row).
StreamedRunSettlesRow ==
    \A r \in Runs :
        Streaming(r) /\ task[r] = "gone" /\ creator[r] # "left" => row[r] \notin InFlight

\* FAILS, see the README: a run that was cancelled and is over is not left in
\* flight in the store.  A background task cancelled before its first step
\* runs no handler, and an interrupting create has no backstop for it.
CancelledRunSettlesRow ==
    \A r \in Runs :
        task[r] = "gone" /\ cancel[r] = "delivered" => row[r] \notin InFlight

\* The terminal event of a closed stream is the persisted outcome, even when
\* the run was cancelled after its success was saved or swept by another
\* worker before it finished.
TerminalEventMatchesRow ==
    \A r \in Runs :
        stream[r] = "closed" => row[r] \in {outcome[r], "deleted"}

\* A cancel call answered after waiting means what it says: the run is over,
\* and its row is terminal, or gone after a rollback.
CancelKeepsItsWord ==
    \A r \in Runs :
        api[r] = "cancelled" /\ apiMode[r] # "interrupt" =>
            /\ task[r] \in {"done", "gone"}
            /\ row[r] \notin InFlight
            /\ apiMode[r] = "rollback" => row[r] = "deleted"

\* A thread left "busy" with nothing live on it and only successful runs is
\* queued for the settle retry: success never strands its thread (as long as
\* the store does not fail the write that saved it).
SuccessNeverStrandsThread ==
    /\ thread = "busy"
    /\ \A r \in Runs : ~Live(r) /\ row[r] \in {"absent", "success"}
    => unsettled

-----------------------------------------------------------------------------
(* Actions.                                                                *)

\* A terminal status is final, and a deleted row never comes back: of a run's
\* own writes, a cancel's backstop and another worker's sweep, the first to
\* finalize the row wins and late writers change nothing.
TerminalIsFinal ==
    [][\A r \in Runs :
        /\ row[r] \in Terminal => row'[r] \in {row[r], "deleted"}
        /\ row[r] = "deleted" => row'[r] = "deleted"]_vars

\* Only "enqueue" joins a thread with a run on it: whatever a run's strategy
\* found when it asked, nothing else is live when its task is spawned.
OnlyEnqueueJoinsLiveRuns ==
    [][\A r \in Runs :
        tracked[r] = "none" /\ tracked'[r] # "none" /\ request[r].strategy # "enqueue"
        => \A s \in Runs \ {r} : ~Live(s)]_vars

\* A run enters the graph on a thread that reads "busy", and the thread stays
\* so: no earlier run, no run that never started and no finalizer settles it
\* under a later one.  Only a settle retry does, which made its checks before
\* that run was there and writes after (runs.py 1696-1717); the releases of an
\* orphan sweep, of which this module has the swept rows only, can do the same.
OnlyARetryUnmarksThreads ==
    [][\A r \in Runs :
        task'[r] = "graph" =>
            \/ thread' = "busy"
            \/ retry = "settle" /\ retry' = "idle"
            \/ task[r] = "graph" /\ thread' = thread]_vars

\* Every stream ends with exactly one terminal event: published once, never
\* replaced, and before the stream is closed.
OneTerminalEvent ==
    [][\A r \in Runs :
        /\ outcome[r] # "none" => outcome'[r] = outcome[r]
        /\ stream'[r] = "closed" => outcome'[r] # "none"]_vars

-----------------------------------------------------------------------------
(* Liveness.                                                               *)

\* Every spawned run ends and is forgotten by the registry: no lost wake-up of
\* the lock, no hand-off nobody finishes, no finalizer that never runs.
EveryRunEnds == \A r \in Runs : task[r] = "ready" ~> task[r] = "gone"

\* A thread queued for a settle is settled in the end, by the next run on it
\* or by the liveness pass, although the store may fail the settle itself:
\* neither a failed settle nor a retry that finds the thread in use forgets it.
EverySettleHappens == unsettled ~> ~unsettled /\ thread # "busy"

\* Every create and cancel request is answered: no two of them, and no
\* supersede waiting on a victim that waits for a lock, block one another.
EveryRequestAnswered ==
    \A r \in Runs : /\ creator[r] = "queued" ~> creator[r] \in Answered
                    /\ api[r] = "act" ~> api[r] \in ApiAnswered
=============================================================================
