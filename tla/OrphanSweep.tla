----------------------------- MODULE OrphanSweep -----------------------------
(***************************************************************************)
(* Several processes over one metadata store: each heartbeats the runs it  *)
(* executes, fails the runs of a process that died, and releases the       *)
(* thread those runs left busy.  A run is seen here as the store sees it,  *)
(* with its process; RunExecution has its tasks in detail.                 *)
(*                                                                         *)
(* Time is a discrete clock.  An age is the time since updated_at, and a   *)
(* process is due for a heartbeat every Beat ticks.                        *)
(***************************************************************************)
EXTENDS Naturals, FiniteSets, RunStore

CONSTANTS
    Workers,     \* the processes that share the store
    NoWorker,    \* the owner of a run that does not exist yet
    MaxRuns,     \* bound: runs created on the thread
    Outcomes,    \* bound: how runs end
    Beat,        \* run_heartbeat_seconds
    Timeout,     \* orphaned_run_timeout_seconds
    Unreliable,  \* the processes that may miss heartbeat after heartbeat
    MaxFaults,   \* bound: other store calls that raise
    MaxCrashes   \* bound: processes that die

ASSUME WorkersAssumption == NoWorker \notin Workers /\ Unreliable \subseteq Workers
ASSUME BeatAssumption == Beat \in Nat \ {0}
\* _orphan_timeout_outlasts_heartbeat
ASSUME TimeoutAssumption == Timeout \in Nat /\ Timeout >= 3 * Beat
ASSUME OutcomesAssumption == Outcomes \subseteq {"success", "error", "interrupted"}
ASSUME LimitsAssumption ==
    MaxRuns \in Nat /\ MaxFaults \in Nat /\ MaxCrashes \in Nat

\* In the order in which they were created.
Runs == 1..MaxRuns

VARIABLES
    row,         \* the status of each run's row ...
    age,         \* ... and the time since it was touched, while in flight
    thread,      \* the status of the thread ...
    threadAge,   \* ... and the time since it was written, while busy
    owner,       \* the process that a run was created in
    step,        \* how far that process is with it
    up,          \* which processes are alive
    beat,        \* the time since a process last tried to heartbeat
    missed,      \* whether that heartbeat failed
    unsettled,   \* _unsettled_threads has the thread
    unreleased,  \* _unreleased_threads has the thread
    job, at,     \* what its sweep pass is doing, and at which await
    candidates,  \* the stale rows its sweep has yet to claim
    verdict,     \* the status its release is about to write
    faults, crashes,
    reported,    \* history: which sweeps reported a run failed
    late         \* history: the processes that missed two heartbeats running

storeVars == <<row, age, thread, threadAge>>
runVars == <<owner, step>>
clockVars == <<up, beat, missed, late>>
passVars == <<unsettled, unreleased, job, at, candidates, verdict>>
boundVars == <<faults, crashes>>
vars == <<storeVars, runVars, clockVars, passVars, boundVars, reported>>

ThreadStates == {"idle", "busy", "interrupted", "error"}
Steps == {"none", "queued", "claimed", "graph", "settle", "over", "dead"}
Jobs == {"none", "retry", "scan", "claim", "release", "stuck"}
Awaits == {"thread", "pending", "running", "latest", "write"}

TypeOK ==
    /\ row \in [Runs -> RowStates]
    /\ age \in [Runs -> 0..(Timeout + 1)]
    /\ thread \in ThreadStates
    /\ threadAge \in 0..(Timeout + 1)
    /\ owner \in [Runs -> Workers \cup {NoWorker}]
    /\ step \in [Runs -> Steps]
    /\ up \in [Workers -> BOOLEAN]
    /\ beat \in [Workers -> 0..Beat]
    /\ missed \in [Workers -> BOOLEAN]
    /\ late \in SUBSET Workers
    /\ unsettled \in [Workers -> BOOLEAN]
    /\ unreleased \in [Workers -> BOOLEAN]
    /\ job \in [Workers -> Jobs]
    /\ at \in [Workers -> Awaits]
    /\ candidates \in [Workers -> SUBSET Runs]
    /\ verdict \in [Workers -> ThreadStates]
    /\ faults \in 0..MaxFaults
    /\ crashes \in 0..MaxCrashes
    /\ reported \in [Runs -> SUBSET Workers]

Init ==
    /\ row = [r \in Runs |-> "absent"]
    /\ age = [r \in Runs |-> 0]
    /\ thread = "idle"
    /\ threadAge = 0
    /\ owner = [r \in Runs |-> NoWorker]
    /\ step = [r \in Runs |-> "none"]
    /\ up = [w \in Workers |-> TRUE]
    /\ beat = [w \in Workers |-> 0]
    /\ missed = [w \in Workers |-> FALSE]
    /\ late = {}
    /\ unsettled = [w \in Workers |-> FALSE]
    /\ unreleased = [w \in Workers |-> FALSE]
    /\ job = [w \in Workers |-> "none"]
    /\ at = [w \in Workers |-> "thread"]
    /\ candidates = [w \in Workers |-> {}]
    /\ verdict = [w \in Workers |-> "idle"]
    /\ faults = 0
    /\ crashes = 0
    /\ reported = [r \in Runs |-> {}]

-----------------------------------------------------------------------------
(* The store.                                                              *)

\* all_active: the runs a process tracks.
Active(w) == {r \in Runs : owner[r] = w /\ step[r] \in {"queued", "claimed", "graph", "settle"}}

StoreRaises == faults < MaxFaults /\ faults' = faults + 1
StoreAnswers == UNCHANGED faults

\* update_run_status, which also sets updated_at.
WriteRow(r, status) ==
    /\ row' = UpdateStatus(row, r, status)
    /\ age' = [age EXCEPT ![r] = 0]

\* update_thread, which also sets updated_at.
WriteThread(status) == thread' = status /\ threadAge' = 0

\* The statuses a thread may settle to after success (_settled_thread_status).
Settled == {"idle", "interrupted"}

\* FAULTY: the outcome of the run is taken for the status of the thread.
LeftAsTheRun(status) == IF status = "success" THEN Settled ELSE {status}

\* What a run that ended with this status leaves its thread as.
Left(status) ==
    CASE status = "success" -> Settled
      [] status = "interrupted" -> {"idle"}
      [] OTHER -> {"error"}

\* FAULTY: a row whose run is pending is not looked at.
StaleRunning(r) == row[r] = "running" /\ age[r] > Timeout

\* A row the sweep may fail.
Stale(r) == row[r] \in InFlight /\ age[r] > Timeout

-----------------------------------------------------------------------------
(* The runs of the processes.                                              *)

\* A request reaches a process: the run's row is inserted and its task
\* registered.
Create(w, r) ==
    /\ up[w]
    /\ step[r] = "none"
    /\ \A q \in 1..(r - 1) : step[q] # "none"
    /\ row' = InsertRow(row, r)
    /\ age' = [age EXCEPT ![r] = 0]
    /\ owner' = [owner EXCEPT ![r] = w]
    /\ step' = [step EXCEPT ![r] = "queued"]
    /\ UNCHANGED <<thread, threadAge, clockVars, passVars, boundVars, reported>>

Goto(r, s) == step' = [step EXCEPT ![r] = s]

\* The thread's lock is a lock of one process.
Unlocked(w) == \A q \in Active(w) : step[q] = "queued"

\* _claim_run, under the lock: a run that is no longer in flight is over.
ClaimRun(r) ==
    /\ step[r] = "queued" /\ Unlocked(owner[r])
    /\ WriteRow(r, "running")
    /\ Goto(r, IF row[r] \in InFlight THEN "claimed" ELSE "over")
    /\ UNCHANGED <<thread, threadAge, owner, clockVars, passVars, boundVars, reported>>

MarkBusy(r) ==
    /\ step[r] = "claimed"
    /\ WriteThread("busy")
    /\ Goto(r, "graph")
    /\ UNCHANGED <<row, age, owner, clockVars, passVars, boundVars, reported>>

\* The outcome is saved, unless the row was finalized by a sweep meanwhile:
\* then the run leaves the thread alone.  After success the thread is
\* recorded as unsettled until its settle succeeds.  A run that fails or is
\* cancelled may get here without having reached the graph.
Save(r, status) ==
    /\ \/ step[r] = "graph"
       \/ status # "success" /\ step[r] = "claimed"
       \/ status # "success" /\ step[r] = "queued" /\ Unlocked(owner[r])
    /\ WriteRow(r, status)
    /\ Goto(r, IF row[r] \in InFlight THEN "settle" ELSE "over")
    /\ unsettled' = IF row[r] \in InFlight /\ status = "success"
                    THEN [unsettled EXCEPT ![owner[r]] = TRUE] ELSE unsettled
    /\ UNCHANGED <<thread, threadAge, owner, clockVars, unreleased, job, at,
                   candidates, verdict, boundVars, reported>>

\* _interrupt_row_only: a run that is stopped while it waits for the lock
\* leaves the thread to others.
Stop(r) ==
    /\ step[r] = "queued"
    /\ WriteRow(r, "interrupted")
    /\ Goto(r, "over")
    /\ UNCHANGED <<thread, threadAge, owner, clockVars, passVars, boundVars, reported>>

\* The thread takes the status the run leaves it; a failed write leaves it
\* busy, and only after success is it retried by this process.
Settle(r) ==
    /\ step[r] = "settle"
    /\ \/ /\ StoreAnswers
          /\ \E status \in Left(row[r]) : WriteThread(status)
          /\ unsettled' = IF row[r] = "success"
                          THEN [unsettled EXCEPT ![owner[r]] = FALSE] ELSE unsettled
       \/ /\ StoreRaises
          /\ UNCHANGED <<thread, threadAge>> \/ \E status \in Left(row[r]) : WriteThread(status)
          /\ UNCHANGED unsettled
    /\ Goto(r, "over")
    /\ UNCHANGED <<row, age, owner, clockVars, unreleased, job, at, candidates,
                   verdict, crashes, reported>>

\* The store is out both for a run's write and for its failure handler: the
\* run ends with its row in flight.
Abandon(r) ==
    /\ step[r] \in {"queued", "claimed", "graph"}
    /\ StoreRaises
    /\ Goto(r, "over")
    /\ UNCHANGED <<storeVars, owner, clockVars, passVars, crashes, reported>>

-----------------------------------------------------------------------------
(* Heartbeats, clocks and crashes.                                         *)

\* FAULTY: a run that waits for its lock is not kept alive.
TouchedRunning(w) ==
    [r \in Runs |-> IF r \in Active(w) /\ row[r] = "running" THEN 0 ELSE age[r]]

\* touch_runs
Touched(w) ==
    [r \in Runs |-> IF r \in Active(w) /\ row[r] \in InFlight THEN 0 ELSE age[r]]

HeartbeatRuns(w) ==
    /\ up[w]
    /\ beat[w] > 0
    /\ age' = Touched(w)
    /\ beat' = [beat EXCEPT ![w] = 0]
    /\ missed' = [missed EXCEPT ![w] = FALSE]
    /\ UNCHANGED <<row, thread, threadAge, runVars, up, late, passVars, boundVars, reported>>

\* The failure is logged, and the next beat tries again.  A reliable process
\* fails no two in a row.
HeartbeatFails(w) ==
    /\ up[w]
    /\ beat[w] > 0
    /\ missed[w] => w \in Unreliable
    /\ beat' = [beat EXCEPT ![w] = 0]
    /\ missed' = [missed EXCEPT ![w] = TRUE]
    /\ late' = IF missed[w] THEN late \cup {w} ELSE late
    /\ UNCHANGED <<storeVars, runVars, up, passVars, boundVars, reported>>

\* Ages beyond the timeout are all the same.
Older(a) == IF a > Timeout THEN a ELSE a + 1

\* Time passes, but not past a heartbeat that is due.
Tick ==
    /\ \A w \in Workers : up[w] => beat[w] < Beat
    /\ age' = [r \in Runs |-> IF row[r] \in InFlight THEN Older(age[r]) ELSE age[r]]
    /\ threadAge' = IF thread = "busy" THEN Older(threadAge) ELSE threadAge
    /\ beat' = [w \in Workers |-> IF up[w] THEN beat[w] + 1 ELSE beat[w]]
    /\ UNCHANGED <<row, thread, runVars, up, missed, late, passVars, boundVars, reported>>

\* A process dies with its tasks and its memory.
Crash(w) ==
    /\ up[w]
    /\ crashes < MaxCrashes
    /\ crashes' = crashes + 1
    /\ up' = [up EXCEPT ![w] = FALSE]
    /\ beat' = [beat EXCEPT ![w] = 0]
    /\ missed' = [missed EXCEPT ![w] = FALSE]
    /\ step' = [r \in Runs |-> IF r \in Active(w) THEN "dead" ELSE step[r]]
    /\ unsettled' = [unsettled EXCEPT ![w] = FALSE]
    /\ unreleased' = [unreleased EXCEPT ![w] = FALSE]
    /\ job' = [job EXCEPT ![w] = "none"]
    /\ at' = [at EXCEPT ![w] = "thread"]
    /\ candidates' = [candidates EXCEPT ![w] = {}]
    /\ verdict' = [verdict EXCEPT ![w] = "idle"]
    /\ UNCHANGED <<storeVars, owner, late, faults, reported>>

Restart(w) ==
    /\ ~up[w]
    /\ up' = [up EXCEPT ![w] = TRUE]
    /\ UNCHANGED <<storeVars, runVars, beat, missed, late, passVars, boundVars, reported>>

-----------------------------------------------------------------------------
(* The sweep pass: retry the settles of this process, fail stale rows,     *)
(* release the threads of the failed runs, release stuck threads.          *)

Begin(w, j) ==
    /\ job' = [job EXCEPT ![w] = j]
    /\ at' = [at EXCEPT ![w] = "thread"]
    /\ verdict' = [verdict EXCEPT ![w] = "idle"]

\* What the pass does after the job it is at.
Follow(w) ==
    CASE job[w] = "retry" -> Begin(w, "scan")
      [] job[w] = "release" -> Begin(w, "stuck")
      [] OTHER -> Begin(w, "none")

StartRetry(w) ==
    /\ up[w] /\ job[w] = "none" /\ unsettled[w]
    /\ Begin(w, "retry")
    /\ UNCHANGED <<storeVars, runVars, clockVars, unsettled, unreleased, candidates,
                   boundVars, reported>>

\* FAULTY: the runs of this process are not excluded.
EveryStaleRow(w) == {r \in Runs : Stale(r)}

\* The rows fail_stale_runs reads; the runs this process tracks are excluded.
StaleRows(w) == {r \in Runs : Stale(r)} \ Active(w)

\* The job after the claims: the threads of failed runs, then stuck ones.
Release(w, failed) == Begin(w, IF failed \/ unreleased[w] THEN "release" ELSE "stuck")

\* A scan that raises ends the pass.
Scan(w) ==
    /\ up[w]
    /\ job[w] = "scan" \/ (job[w] = "none" /\ ~unsettled[w])
    /\ \/ /\ StoreAnswers
          /\ candidates' = [candidates EXCEPT ![w] = StaleRows(w)]
          /\ IF StaleRows(w) = {} THEN Release(w, FALSE) ELSE Begin(w, "claim")
       \/ StoreRaises /\ Begin(w, "none") /\ UNCHANGED candidates
    /\ UNCHANGED <<storeVars, runVars, clockVars, unsettled, unreleased, crashes, reported>>

\* FAULTY: the claim is not conditional.
ClaimableAnyway(r) == TRUE

\* The claim is conditional on the row being still stale.
Claimable(r) == Stale(r)

Fail(r) == row' = [row EXCEPT ![r] = "error"] /\ age' = [age EXCEPT ![r] = 0]

\* One row is claimed; the await "running" notes that the pass claimed one.
ClaimStale(w, r) ==
    /\ job[w] = "claim"
    /\ r \in candidates[w]
    /\ candidates' = [candidates EXCEPT ![w] = @ \ {r}]
    /\ IF Claimable(r)
       THEN /\ Fail(r)
            /\ reported' = [reported EXCEPT ![r] = @ \cup {w}]
            /\ unreleased' = [unreleased EXCEPT ![w] = TRUE]
       ELSE UNCHANGED <<row, age, reported, unreleased>>
    /\ IF candidates[w] = {r}
       THEN Release(w, Claimable(r))
       ELSE /\ at' = IF Claimable(r) THEN [at EXCEPT ![w] = "running"] ELSE at
            /\ UNCHANGED <<job, verdict>>
    /\ UNCHANGED <<thread, threadAge, runVars, clockVars, unsettled, boundVars>>

\* A claim raises, with or without its effect.  What was claimed before is
\* reported, the row itself is not; the pass ends if there was nothing.
ClaimRaises(w, r) ==
    /\ job[w] = "claim"
    /\ r \in candidates[w]
    /\ StoreRaises
    /\ UNCHANGED <<row, age>> \/ (Stale(r) /\ Fail(r))
    /\ candidates' = [candidates EXCEPT ![w] = {}]
    /\ Begin(w, IF at[w] = "running" THEN "release" ELSE "none")
    /\ UNCHANGED <<thread, threadAge, runVars, clockVars, unsettled, unreleased, crashes,
                   reported>>

\* The retry set a job works through forgets the thread.
Discard(w, j) ==
    /\ unsettled' = IF j = "retry" THEN [unsettled EXCEPT ![w] = FALSE] ELSE unsettled
    /\ unreleased' = IF j = "release" THEN [unreleased EXCEPT ![w] = FALSE] ELSE unreleased

Keep == UNCHANGED <<unsettled, unreleased>>

Await(w, a) == at' = [at EXCEPT ![w] = a] /\ UNCHANGED <<job, verdict>>

\* A run is in flight: the retry keeps the thread for later, the release is
\* done with it.
Skip(w) ==
    /\ Follow(w)
    /\ IF job[w] = "release" THEN Discard(w, "release") ELSE Keep

\* A call of a release raises: the thread stays in the retry set.
GiveUp(w) == StoreRaises /\ Follow(w) /\ Keep

Releasing(w) == job[w] \in {"retry", "release", "stuck"}

\* The thread is fetched (or searched for, oldest busy first), and the
\* registry asked for its active runs.
ReadThread(w) ==
    /\ Releasing(w) /\ at[w] = "thread"
    /\ \/ /\ StoreAnswers
          /\ IF thread # "busy" \/ (job[w] = "stuck" /\ threadAge <= Timeout)
             THEN Follow(w) /\ Discard(w, job[w])
             ELSE IF Active(w) # {}
             THEN Skip(w)
             ELSE Await(w, "pending") /\ Keep
       \/ GiveUp(w)
    /\ UNCHANGED <<storeVars, runVars, clockVars, candidates, crashes, reported>>

\* FAULTY: the query for runs in flight forgets its status filter.
AnyRow(status) == \E r \in Runs : row[r] # "absent"

\* list_run_rows(limit=1, status_value=...)
HasRow(status) == \E r \in Runs : row[r] = status

\* What a release that found nothing in flight awaits next.
Decide(w) ==
    CASE job[w] = "stuck" -> Await(w, "latest")
      [] job[w] = "release" ->
            /\ at' = [at EXCEPT ![w] = "write"]
            /\ verdict' = [verdict EXCEPT ![w] = "error"]
            /\ UNCHANGED job
      [] job[w] = "retry" ->
            /\ at' = [at EXCEPT ![w] = "write"]
            /\ \E status \in Settled : verdict' = [verdict EXCEPT ![w] = status]
            /\ UNCHANGED job

\* _has_in_flight_runs asks the store for pending rows, then for running ones.
CheckRows(w) ==
    /\ Releasing(w) /\ at[w] \in {"pending", "running"}
    /\ \/ /\ StoreAnswers
          /\ IF HasRow(at[w]) THEN Skip(w)
             ELSE /\ IF at[w] = "pending" THEN Await(w, "running") ELSE Decide(w)
                  /\ Keep
       \/ GiveUp(w)
    /\ UNCHANGED <<storeVars, runVars, clockVars, candidates, crashes, reported>>

LatestStatus ==
    LET created == {r \in Runs : row[r] # "absent"}
    IN  IF created = {} THEN "absent"
        ELSE row[CHOOSE r \in created : \A q \in created : q <= r]

\* A stuck thread settles as its latest run would have left it.
ReadLatest(w) ==
    /\ job[w] = "stuck" /\ at[w] = "latest"
    /\ \/ /\ StoreAnswers
          /\ \E status \in Left(LatestStatus) : verdict' = [verdict EXCEPT ![w] = status]
          /\ at' = [at EXCEPT ![w] = "write"]
          /\ UNCHANGED <<job, unsettled, unreleased>>
       \/ GiveUp(w)
    /\ UNCHANGED <<storeVars, runVars, clockVars, candidates, crashes, reported>>

WriteVerdict(w) ==
    /\ Releasing(w) /\ at[w] = "write"
    /\ \/ StoreAnswers /\ WriteThread(verdict[w]) /\ Discard(w, job[w]) /\ Follow(w)
       \/ GiveUp(w) /\ (UNCHANGED <<thread, threadAge>> \/ WriteThread(verdict[w]))
    /\ UNCHANGED <<row, age, runVars, clockVars, candidates, crashes, reported>>

-----------------------------------------------------------------------------
RunStep ==
    \E r \in Runs :
        \/ \E w \in Workers : Create(w, r)
        \/ ClaimRun(r) \/ MarkBusy(r) \/ Settle(r) \/ Stop(r) \/ Abandon(r)
        \/ \E status \in Outcomes : Save(r, status)

Heartbeat(w) == HeartbeatRuns(w) \/ HeartbeatFails(w)

SweepPass(w) ==
    \/ StartRetry(w) \/ Scan(w)
    \/ \E r \in Runs : ClaimStale(w, r) \/ ClaimRaises(w, r)
    \/ ReadThread(w) \/ CheckRows(w) \/ ReadLatest(w) \/ WriteVerdict(w)

Next ==
    \/ RunStep
    \/ Tick
    \/ \E w \in Workers : Heartbeat(w) \/ SweepPass(w) \/ Crash(w) \/ Restart(w)

Spec == Init /\ [][Next]_vars

\* The heartbeat and the sweep are loops of their own (maintain_runs), a
\* process that dies is restarted, and time passes.  Runs need not progress.
Fairness ==
    /\ WF_vars(Tick)
    /\ \A w \in Workers : /\ WF_vars(Heartbeat(w))
                          /\ WF_vars(SweepPass(w))
                          /\ WF_vars(Restart(w))

FairSpec == Spec /\ Fairness

-----------------------------------------------------------------------------
(* Each run is failed, and reported, by one sweep at most, whatever the    *)
(* other sweeps, the heartbeats and the run's own process do between a     *)
(* scan and its claims (fail_stale_runs: "concurrent sweepers on several   *)
(* workers never both claim a run").                                       *)
ReportedOnce == \A r \in Runs : Cardinality(reported[r]) <= 1

(* A run whose process is alive and has not missed two heartbeats running  *)
(* is never failed by a sweep, whichever state it is in ("one failed       *)
(* heartbeat pass is tolerated", config.py).                               *)
LiveRunsSurvive ==
    \A w \in Workers : \A r \in Active(w) : reported[r] # {} => w \in late

(* A process never fails a run that it is executing itself, not even when  *)
(* its heartbeats have all failed (fail_orphaned_runs: "own active runs    *)
(* are never touched, whatever their row says").                           *)
OwnRunsNeverSwept ==
    \A w \in Workers : \A r \in Active(w) : w \notin reported[r]

(* A run whose process died, or gave it up with the store out, does not    *)
(* stay in flight: a sweep fails it.                                       *)
OrphansEnd ==
    \A r \in Runs : (step[r] \in {"dead", "over"}) ~> (row[r] \notin InFlight)

(* A thread left busy with no run in flight is released, also when the     *)
(* process that should have done it died or its write failed, and with it  *)
(* the memory of what was to be done.                                      *)
Stranded ==
    /\ thread = "busy"
    /\ \A r \in Runs : row[r] \notin InFlight
    /\ \A w \in Workers : Active(w) = {}
ThreadsReleased == Stranded ~> ~Stranded
=============================================================================
