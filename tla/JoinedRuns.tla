----------------------------- MODULE JoinedRuns -----------------------------
(***************************************************************************)
(* Joining runs and shutting down.  A run of this process goes through the *)
(* hands of its admission task, its producer and the registry's finalizer  *)
(* (or of one background task); joiners find out where it is from the row, *)
(* the registry and the streams, each read at another moment (runs.py      *)
(* 221-249, 518-598, 726-874, 1360-1404; concurrency.py 82-221), and the   *)
(* shutdown of the process stops it wherever it is (runs.py 1215-1230).    *)
(*                                                                         *)
(* What Runs and RunExecution detail, the thread, its locks, faults of the *)
(* store and other workers, is left out: here a run ends as the store says.*)
(***************************************************************************)
EXTENDS RunStreams

CONSTANTS
  Joiners,      \* clients of GET .../join and GET .../stream
  Asks,         \* Asks[j]: the run j asks for
  MaxCancels    \* bound: cancellations of runs by clients

ASSUME CancelsAssumption == MaxCancels \in Nat /\ Asks \in [Joiners -> Runs]

None == "none"

VARIABLES
  row,        \* row[r]: "none", "live" (pending or running) or how it ended
  task,       \* task[r]: what _tasks[r] is, None when it is not tracked
  work,       \* work[r]: how far that task is
  cancelled,  \* cancelled[r]: task.cancel() was called on that task
  completion, \* completion[r]: the finalizer's future
  published,  \* published[r]: the stream carries its terminal event
  jpc,        \* jpc[j]: what the joiner awaits
  jmode,      \* jmode[j]: "join", or "tail" or "replay" of its stream
  ended,      \* ended[j]: its relay got the terminal event
  answer,     \* answer[j]: what the joiner was answered
  cancels,    \* cancellations so far
  server,     \* "up", "cancelling", "waiting", "sweeping", "off"
  active      \* what all_active() returned to shutdown

runVars  == <<row, task, work, cancelled, completion, published>>
hearing  == <<jpc, jmode, answer>>
joinVars == <<hearing, ended>>
downVars == <<cancels, server, active>>
vars     == <<clock, kind, streamVars, runVars, joinVars, downVars>>

Terminal == {"success", "error", "interrupted"}
Tracked(r) == task[r] # None

\* "stranded": it ended, before any shutdown, and left its row in flight
Done(r) == work[r] \in {"ended", "unwound", "stranded"}

Init ==
  /\ StreamsInit
  /\ row = [r \in Runs |-> "none"]
  /\ task = [r \in Runs |-> None]
  /\ work = [r \in Runs |-> "unborn"]
  /\ cancelled = [r \in Runs |-> FALSE]
  /\ completion = [r \in Runs |-> None]
  /\ published = [r \in Runs |-> FALSE]
  /\ jpc = [j \in Joiners |-> "idle"]
  /\ jmode \in [Joiners -> {"join", "tail", "replay"}]
  /\ ended = [j \in Joiners |-> FALSE]
  /\ answer = [j \in Joiners |-> None]
  /\ cancels = 0
  /\ server = "up"
  /\ active = {}

Work(r, w) == work' = [work EXCEPT ![r] = w]
Row(r, s)  == row' = [row EXCEPT ![r] = s]

\* _forget
Forget(r) == task' = [task EXCEPT ![r] = None]

(***************************************************************************)
(* The run.                                                                *)
(***************************************************************************)
\* create_run: row and task before the caller knows the id
CreateJob(r) ==
  /\ server = "up" /\ kind[r] = "job" /\ work[r] = "unborn"
  /\ Row(r, "live") /\ Work(r, "queued")
  /\ task' = [task EXCEPT ![r] = "job"]
  /\ UNCHANGED <<clock, kind, streamVars, cancelled, completion, published, joinVars, downVars>>

\* create_streaming_run: the admission task is tracked first
CreateStream(r) ==
  /\ server = "up" /\ kind[r] # "job" /\ work[r] = "unborn"
  /\ Work(r, "queued")
  /\ task' = [task EXCEPT ![r] = "admission"]
  /\ UNCHANGED <<clock, kind, streamVars, row, cancelled, completion, published, joinVars, downVars>>

\* The run ends and nobody writes its row; one that the shutdown has listed
\* is still to be swept.
Strand(r) ==
  /\ Work(r, IF server = "up" THEN "stranded" ELSE "unwound")
  /\ UNCHANGED row

\* cancelled in the queue of the execution lock, where an admission has
\* inserted nothing and a job interrupts its row, or before the first step,
\* where a job does nothing
LeaveQueue(r) ==
  /\ work[r] = "queued" /\ cancelled[r]
  /\ \/ row[r] = "none" /\ Work(r, "unwound") /\ UNCHANGED row
     \/ row[r] = "live" /\ Work(r, "unwound") /\ Row(r, "interrupted")
     \/ row[r] = "live" /\ Strand(r)
  /\ Forget(r)
  /\ UNCHANGED <<clock, kind, streamVars, cancelled, completion, published, joinVars, downVars>>

\* the lock is acquired: a job runs, admission inserts the row
Begin(r) ==
  /\ work[r] = "queued" /\ ~cancelled[r]
  /\ IF task[r] = "job" THEN Work(r, "running") /\ UNCHANGED row
                        ELSE Work(r, "inserted") /\ Row(r, "live")
  /\ UNCHANGED <<clock, kind, streamVars, task, cancelled, completion, published, joinVars, downVars>>

\* Mutant: the admission's done callback forgets the run its producer took over.
HandOffForgotten(r) ==
  /\ work[r] = "inserted" /\ ~cancelled[r]
  /\ OpenStream(r)
  /\ task' = [task EXCEPT ![r] = None]
  /\ completion' = [completion EXCEPT ![r] = "pending"]
  /\ Work(r, "running")
  /\ UNCHANGED <<clock, kind, row, cancelled, published, joinVars, downVars>>

\* start_producer: stream, producer and completion in one step
HandOff(r) ==
  /\ work[r] = "inserted" /\ ~cancelled[r]
  /\ OpenStream(r)
  /\ task' = [task EXCEPT ![r] = "producer"]
  /\ completion' = [completion EXCEPT ![r] = "pending"]
  /\ Work(r, "running")
  /\ UNCHANGED <<clock, kind, row, cancelled, published, joinVars, downVars>>

\* the insert was cancelled: _interrupt_row_only, unless its client's departure
\* cancels that too, and the admission ends
UndoInsert(r) ==
  /\ work[r] = "inserted" /\ cancelled[r]
  /\ \/ Row(r, "interrupted") /\ Work(r, "unwound")
     \/ Strand(r)
  /\ Forget(r)
  /\ UNCHANGED <<clock, kind, streamVars, cancelled, completion, published, joinVars, downVars>>

\* the graph ends and the row is written
SaveOutcome(r) ==
  /\ work[r] = "running" /\ ~cancelled[r]
  /\ \E outcome \in {"success", "error"} : Row(r, outcome)
  /\ Work(r, "saved")
  /\ UNCHANGED <<clock, kind, streamVars, task, cancelled, completion, published, joinVars, downVars>>

\* the stream carries its terminal event, to those attached by now
Publish(r) ==
  /\ published' = [published EXCEPT ![r] = TRUE]
  /\ ended' = [j \in Joiners |-> ended[j] \/ (jpc[j] = "attached" /\ Asks[j] = r)]

\* the producer publishes its terminal event and returns
EndProducer(r) ==
  /\ work[r] = "saved" /\ ~cancelled[r] /\ task[r] = "producer"
  /\ Publish(r)
  /\ Work(r, "ended")
  /\ UNCHANGED <<clock, kind, streamVars, row, task, cancelled, completion, hearing, downVars>>

\* a cancelled producer raises at its next step
UnwindProducer(r) ==
  /\ work[r] \in {"running", "saved"} /\ cancelled[r] /\ task[r] = "producer"
  /\ Work(r, "unwound")
  /\ UNCHANGED <<clock, kind, streamVars, row, task, cancelled, completion, published, joinVars, downVars>>

\* a background task ends; a cancelled one interrupts its row, but for one
\* cancelled inside its failure handler, which may have written or not
EndJob(r) ==
  /\ task[r] = "job"
  /\ \/ work[r] = "saved" /\ Work(r, "ended") /\ UNCHANGED row
     \/ /\ work[r] = "running" /\ cancelled[r]
        /\ \/ \E outcome \in {"interrupted", "error"} : Row(r, outcome) /\ Work(r, "unwound")
           \/ Strand(r)
  /\ Forget(r)
  /\ UNCHANGED <<clock, kind, streamVars, cancelled, completion, published, joinVars, downVars>>

\* finalize_run of a cancelled producer: the row first, then its event
MarkInterrupted(r) ==
  /\ task[r] = "producer" /\ work[r] = "unwound" /\ ~published[r]
  /\ Row(r, IF row[r] = "live" THEN "interrupted" ELSE row[r])
  /\ Publish(r)
  /\ UNCHANGED <<clock, kind, streamVars, task, work, cancelled, completion, hearing, downVars>>

\* Mutant: finish() releases the lock only.
FinalizeLockOnly(r) ==
  /\ task[r] = "producer" /\ Done(r) /\ published[r]
  /\ completion' = [completion EXCEPT ![r] = "resolved"]
  /\ Forget(r)
  /\ UNCHANGED <<clock, kind, streamVars, row, work, cancelled, published, joinVars, downVars>>

\* finish(): the stream closes, the future resolves, the run is forgotten
Finalize(r) ==
  /\ task[r] = "producer" /\ Done(r) /\ published[r]
  /\ CloseStream(r)
  /\ completion' = [completion EXCEPT ![r] = "resolved"]
  /\ Forget(r)
  /\ UNCHANGED <<clock, kind, row, work, cancelled, published, joinVars, downVars>>

\* cancel_run, a superseding run or a departed client; the task may be done
CancelTask(r) ==
  cancelled' = IF Tracked(r) /\ ~Done(r) THEN [cancelled EXCEPT ![r] = TRUE] ELSE cancelled

Cancel(r) ==
  /\ server = "up" /\ cancels < MaxCancels
  /\ Tracked(r) /\ ~cancelled[r]
  /\ CancelTask(r) /\ cancels' = cancels + 1
  /\ UNCHANGED <<clock, kind, streamVars, row, task, work, completion, published, joinVars, server, active>>

\* delete_run
Delete(r) ==
  /\ server = "up" /\ row[r] \in Terminal
  /\ Row(r, "none")
  /\ UNCHANGED <<clock, kind, streamVars, task, work, cancelled, completion, published, joinVars, downVars>>

\* a stranded row is ended after all: by the backstop of a cancel_run that
\* waits, by its rollback, or by an orphan sweep of some process
EndStranded(r) ==
  /\ work[r] = "stranded" /\ row[r] = "live"
  /\ \E s \in {"interrupted", "error", "none"} : Row(r, s)
  /\ UNCHANGED <<clock, kind, streamVars, task, work, cancelled, completion, published, joinVars, downVars>>

(***************************************************************************)
(* The joiners.                                                            *)
(***************************************************************************)
Jump(j, label) == jpc' = [jpc EXCEPT ![j] = label]

Answer(j, a) == Jump(j, "done") /\ answer' = [answer EXCEPT ![j] = a]

JoinUnchanged == UNCHANGED <<clock, kind, runVars, jmode, downVars>>

\* get_run: 404 for an unknown run
Lookup(j) ==
  /\ server = "up" /\ jpc[j] = "idle"
  /\ IF row[Asks[j]] = "none" THEN Answer(j, "missing")
                              ELSE Jump(j, "admission") /\ UNCHANGED answer
  /\ UNCHANGED <<streamVars, ended>> /\ JoinUnchanged

\* with a task to wait for, or the row to read again
Follow(j) == Jump(j, IF Tracked(Asks[j]) THEN "waiting" ELSE "reread")

\* _await_admission is over
Admitted(j) == jpc[j] = "admission" /\ task[Asks[j]] # "admission"

\* join_run
Join(j) ==
  /\ jmode[j] = "join" /\ Admitted(j)
  /\ Follow(j)
  /\ UNCHANGED <<streamVars, ended, answer>> /\ JoinUnchanged

\* Mutant: only a closed stream has a finished producer.
StreamClosed(r) == closedAt[r] >= 0

\* a done producer may not be finalized yet
ProducerFinished(r) == closedAt[r] >= 0 \/ (Tracked(r) /\ Done(r))

\* join_run_stream: attach to the stream, live or retained, or else report the
\* final state as join_run does
JoinStream(j) ==
  LET r       == Asks[j]
      replays == jmode[j] = "replay" /\ kind[r] = "resumable"
  IN  /\ jmode[j] # "join" /\ Admitted(j)
      /\ SweepStreams
      /\ IF r \in streams' /\ (replays \/ ~ProducerFinished(r))
           THEN Jump(j, "attached") /\ ended' = [ended EXCEPT ![j] = replays /\ published[r]]
           ELSE Follow(j) /\ UNCHANGED ended
      /\ UNCHANGED answer /\ JoinUnchanged

\* Mutant: the finalizer is not waited for.
OverWhenDone(r) == Done(r) \/ ~Tracked(r)

\* wait(): the task, its successors and the finalizer of the last one
Over(r) == (Done(r) \/ ~Tracked(r)) /\ completion[r] # "pending"

Waited(j) ==
  /\ jpc[j] = "waiting" /\ Over(Asks[j])
  /\ Jump(j, "collect")
  /\ UNCHANGED <<streamVars, ended, answer>> /\ JoinUnchanged

\* the run was not tracked: a fresh status, and 409 while it is in flight
Reread(j) ==
  /\ jpc[j] = "reread"
  /\ CASE row[Asks[j]] = "none" -> Answer(j, "missing")
       [] row[Asks[j]] = "live" -> Answer(j, "refused")
       [] OTHER                 -> Jump(j, "collect") /\ UNCHANGED answer
  /\ UNCHANGED <<streamVars, ended>> /\ JoinUnchanged

\* _collect_terminal_output, _final_state_events: what the row says now
Collect(j) ==
  /\ jpc[j] = "collect"
  /\ Answer(j, IF row[Asks[j]] = "none" THEN "missing" ELSE row[Asks[j]])
  /\ UNCHANGED <<streamVars, ended>> /\ JoinUnchanged

\* the subscription ended with its stream
Relayed(j) ==
  /\ jpc[j] = "attached" /\ closedAt[Asks[j]] >= 0
  /\ Answer(j, IF ended[j] THEN "ended" ELSE "cut")
  /\ UNCHANGED <<streamVars, ended>> /\ JoinUnchanged

\* the client goes away; with cancel_on_disconnect the run is cancelled
Disconnect(j) ==
  /\ jpc[j] = "attached" \/ (jpc[j] = "waiting" /\ jmode[j] # "join")
  /\ Answer(j, "left")
  /\ \/ UNCHANGED <<cancelled, cancels>>
     \/ /\ cancels < MaxCancels /\ cancels' = cancels + 1
        /\ CancelTask(Asks[j])
  /\ UNCHANGED <<clock, kind, streamVars, row, task, work, completion, published,
                 jmode, ended, server, active>>

(***************************************************************************)
(* The shutdown of the process, once the server has answered everyone.     *)
(***************************************************************************)
Quiet == server = "up" /\ \A j \in Joiners : jpc[j] \in {"idle", "done"}

CancelAll == cancelled' = [r \in Runs |-> cancelled[r] \/ (Tracked(r) /\ ~Done(r))]

\* Mutant: the active runs are listed after their tasks have ended.
ListTooLate ==
  /\ Quiet /\ CancelAll
  /\ server' = "waiting" /\ active' = {}
  /\ UNCHANGED <<clock, kind, streamVars, row, task, work, completion, published, joinVars, cancels>>

\* all_active(), and registry.shutdown() up to its first await
ShutDown ==
  /\ Quiet /\ CancelAll
  /\ server' = "waiting" /\ active' = {r \in Runs : Tracked(r)}
  /\ UNCHANGED <<clock, kind, streamVars, row, task, work, completion, published, joinVars, cancels>>

\* the tasks and completions are awaited
AllUnwound ==
  /\ server = "waiting" /\ \A r \in Runs : Over(r)
  /\ server' = "sweeping"
  /\ UNCHANGED <<clock, kind, streamVars, runVars, joinVars, cancels, active>>

\* a run that was active and is still in flight is interrupted
SweepRow(r) ==
  /\ server = "sweeping" /\ r \in active
  /\ Row(r, IF row[r] = "live" THEN "interrupted" ELSE row[r])
  /\ active' = active \ {r}
  /\ UNCHANGED <<clock, kind, streamVars, task, work, cancelled, completion, published,
                 joinVars, cancels, server>>

Off ==
  /\ server = "sweeping" /\ active = {}
  /\ server' = "off"
  /\ UNCHANGED <<clock, kind, streamVars, runVars, joinVars, cancels, active>>

TimePasses == Tick /\ UNCHANGED <<kind, streamVars, runVars, joinVars, downVars>>

RunStep(r) ==
  \/ LeaveQueue(r) \/ Begin(r) \/ HandOff(r) \/ UndoInsert(r) \/ SaveOutcome(r) \/ EndProducer(r)
  \/ UnwindProducer(r) \/ EndJob(r) \/ MarkInterrupted(r) \/ Finalize(r)

JoinStep(j) == Join(j) \/ JoinStream(j) \/ Waited(j) \/ Reread(j) \/ Collect(j) \/ Relayed(j)

Next ==
  \/ \E r \in Runs : \/ CreateJob(r) \/ CreateStream(r) \/ RunStep(r)
                     \/ Cancel(r) \/ Delete(r) \/ EndStranded(r) \/ SweepRow(r)
  \/ \E j \in Joiners : Lookup(j) \/ JoinStep(j) \/ Disconnect(j)
  \/ ShutDown \/ AllUnwound \/ Off
  \/ TimePasses

\* the event loop runs what is ready, and a graph that is run comes to an end
Fairness ==
  /\ \A r \in Runs : WF_vars(RunStep(r))
  /\ \A j \in Joiners : WF_vars(JoinStep(j))

Spec == Init /\ [][Next]_vars /\ Fairness

-----------------------------------------------------------------------------
\* What a joiner is told is how the run ended: no answer while the row is in
\* flight but for a stranded run, none that another writer contradicts, and no
\* subscription that ends without the terminal event, wherever between row,
\* event, finalizer and retention the run was when it asked (runs.py 547-598,
\* 827-874, 1370-1384).
JoinsTellTheOutcome ==
  \A j \in Joiners :
    /\ answer[j] # "cut"
    /\ answer[j] = "live" => work[Asks[j]] = "stranded"
    /\ answer[j] \in Terminal => row[Asks[j]] \in {answer[j], "none"}

\* Of the runs of this process only a stranded one is refused as one that runs
\* elsewhere: one that is queued, running or between task and finalizer is
\* waited for, though its row, its task and its stream are read at different
\* moments (runs.py 228-247, 545-591).
OnlyStrandedRunsRefused ==
  \A j \in Joiners : answer[j] = "refused" => work[Asks[j]] = "stranded"

\* A join ends with its run: whether the producer ends, fails, is cancelled
\* before or after its row was written, or never starts.
EveryJoinEnds ==
  \A j \in Joiners : jpc[j] = "admission" ~> jpc[j] = "done"

\* When shutdown returns, it has left no run in flight that was still tracked
\* when it began, not even one whose task it cancelled before the first step
\* (runs.py 1218-1230); what was stranded before stays.
ShutdownSettlesRows ==
  server = "off" =>
    \A r \in Runs : ~Tracked(r) /\ (row[r] = "live" => work[r] = "stranded")
=============================================================================
