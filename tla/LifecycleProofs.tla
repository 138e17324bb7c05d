-------------------------- MODULE LifecycleProofs --------------------------
(***************************************************************************)
(* Proofs about the life of a run, for any number of runs and of requests  *)
(* of any strategy: how it is admitted, and how it ends.  Both parts start *)
(* from the invariant of RunsProofs and prove an invariant relative to it. *)
(***************************************************************************)
EXTENDS RunsProofs

(***************************************************************************)
(* PART 1: admission.  Only enqueue joins a thread with a live run, and    *)
(* two runs admitted with reject never overlap.                            *)
(*                                                                         *)
(* What a request finds out when it has the admission lock must hold until *)
(* its run is spawned.  It finds out by asking the registry, so a live run *)
(* must be tracked through all its hand-offs (Registered); it keeps the    *)
(* lock until then (InCharge); and nobody is spawned meanwhile, so the     *)
(* live runs are those it has yet to cancel (Covered).                     *)
(***************************************************************************)

\* The awaits of a create request under the admission lock.
Admitting == {"supersede", "awaitVictim", "deleteVictim", "insert"}

Registered ==
    \A r \in Runs :
        /\ Live(r) => tracked[r] # "none"
        /\ callback[r] => tracked[r] # "admission"
        /\ creator[r] \in Before => tracked[r] = "none" /\ ~callback[r]

InCharge == \A r \in Runs : creator[r] \in Admitting <=> admOwner = r

Covers(r, s) == s \in victims[r] \/ (creator[r] = "awaitVictim" /\ s = victim[r])

Covered ==
    \A r \in Runs :
        creator[r] \in Admitting /\ request[r].strategy # "enqueue" =>
            \A s \in Runs : Live(s) => creator[r] # "insert" /\ Covers(r, s)

Admission == Registered /\ InCharge /\ Covered /\ RejectedRunsNeverOverlap

-----------------------------------------------------------------------------
(***************************************************************************)
(* The steps of a run's task.                                              *)
(***************************************************************************)
\* A run stays tracked from task to task until the last of them is over.
RegistryStep(r) ==
    \E s \in TaskStates :
        /\ Goto(r, s)
        /\ request' = request
        /\ task[r] \notin {"none", "gone"}
        /\ task[r] = "done" => s = "gone"
        /\ \/ tracked' = tracked /\ callback' = callback
           \/ /\ tracked' = [tracked EXCEPT ![r] = "producer"]
              /\ callback' = [callback EXCEPT ![r] = TRUE]
              /\ task[r] # "done"
           \/ /\ tracked' = [tracked EXCEPT ![r] = "none"]
              /\ callback' = callback
              /\ s = "gone"

\* Every action of RunExecution does no more to the registry.
LEMMA StepRegistry ==
    ASSUME NEW r \in Runs, TaskStep(r)
    PROVE  RegistryStep(r)
<1> USE DEF RegistryStep, Aborts, TaskStates, Waiting, Holding, Dropping, Over, registryVars
<1>1. CASE Start(r)
    BY <1>1 DEF Start, FirstHeld
<1>2. CASE NeverRuns(r)
    BY <1>2 DEF NeverRuns
<1>3. CASE Grant(r)
    BY <1>3 DEF Grant, FirstHeld
<1>4. CASE GiveUpLock(r)
    BY <1>4 DEF GiveUpLock
<1>5. CASE DropRow(r)
    BY <1>5 DEF DropRow
<1>6. CASE HandOff(r)
    BY <1>6 DEF HandOff
<1>7. CASE InsertFails(r)
    BY <1>7 DEF InsertFails
<1>8. CASE StartProducer(r)
    BY <1>8 DEF StartProducer
<1>9. CASE Claim(r)
    BY <1>9 DEF Claim
<1>10. CASE Lost(r)
    BY <1>10 DEF Lost, Leave
<1>11. CASE Busy(r)
    BY <1>11 DEF Busy
<1>12. CASE Graph(r)
    BY <1>12 DEF Graph, Goto
<1>13. CASE Finish(r)
    BY <1>13 DEF Finish
<1>14. CASE Settle(r)
    BY <1>14 DEF Settle, SettleDone, Leave
<1>15. CASE Tokens(r)
    BY <1>15 DEF Tokens, Leave
<1>16. CASE FailMark(r)
    BY <1>16 DEF FailMark, HandlerRaises, AbandonHandler, Leave
<1>17. CASE FailLost(r)
    BY <1>17 DEF FailLost, HandlerRaises, AbandonHandler, Leave
<1>18. CASE FailThread(r)
    BY <1>18 DEF FailThread, HandlerRaises, AbandonHandler, Leave
<1>19. CASE IntMark(r)
    BY <1>19 DEF IntMark, Conclude, CloseRun, Leave
<1>20. CASE IntThread(r)
    BY <1>20 DEF IntThread, Conclude, CloseRun, Leave
<1>21. CASE IntLost(r)
    BY <1>21 DEF IntLost, Conclude, CloseRun, Leave
<1>22. CASE Resettle(r)
    BY <1>22 DEF Resettle, Conclude, CloseRun, Leave
<1>23. CASE Finalize(r)
    BY <1>23 DEF Finalize, CloseRun
<1>24. CASE Forget(r)
    BY <1>24 DEF Forget
<1> HIDE DEF RegistryStep
<1> QED
    BY <1>1, <1>2, <1>3, <1>4, <1>5, <1>6, <1>7, <1>8, <1>9, <1>10, <1>11, <1>12,
       <1>13, <1>14, <1>15, <1>16, <1>17, <1>18, <1>19, <1>20, <1>21, <1>22, <1>23,
       <1>24 DEF TaskStep

\* What the registry and the requests are made of.
LEMMA Types ==
    ASSUME IInv
    PROVE  /\ task \in [Runs -> TaskStates]
           /\ tracked \in [Runs -> {"none", "run", "admission", "producer"}]
           /\ callback \in [Runs -> BOOLEAN]
           /\ creator \in [Runs -> CreatorStates]
           /\ victims \in [Runs -> SUBSET Runs]
           /\ victim \in [Runs -> Runs \cup {NoRun}]
           /\ request \in [Runs -> RequestType]
    BY DEF IInv, TypeOK, TypeOKExec

\* Nothing comes alive and nobody is forgotten alive.
Subsides ==
    /\ \A r \in Runs : Live(r)' => Live(r) /\ tracked'[r] # "none"
    /\ UNCHANGED request

\* When no run comes alive, the live runs are covered as they were.
LEMMA SubsidingKeeps ==
    ASSUME Covered, RejectedRunsNeverOverlap, Subsides, NEW r \in Runs,
           \A q \in Runs \ {r} :
               /\ creator'[q] = creator[q] /\ victims'[q] = victims[q]
               /\ victim'[q] = victim[q],
           creator'[r] \in Admitting /\ request[r].strategy # "enqueue" =>
               \A s \in Runs : Live(s)' => creator'[r] # "insert" /\ Covers(r, s)'
    PROVE  Covered' /\ RejectedRunsNeverOverlap'
<1>1. RejectedRunsNeverOverlap'
    BY DEF RejectedRunsNeverOverlap, Subsides
<1>2. ASSUME NEW q \in Runs \ {r}, creator'[q] \in Admitting, request'[q].strategy # "enqueue",
             NEW s \in Runs, Live(s)'
      PROVE  creator'[q] # "insert" /\ Covers(q, s)'
    BY <1>2 DEF Covered, Covers, Subsides
<1> QED BY <1>1, <1>2 DEF Covered, Subsides

\* The tasks leave the requests alone and the runs tracked.
LEMMA TaskAdmission ==
    ASSUME IInv, Admission, NEW r \in Runs, TaskStep(r),
           UNCHANGED <<createVars, apiVars, retry, foreign>>
    PROVE  /\ Admission'
           /\ \A q \in Runs : tracked[q] = "none" => tracked'[q] = "none"
<1>1. PICK s \in TaskStates :
        /\ task' = [task EXCEPT ![r] = s]
        /\ request' = request
        /\ task[r] \notin {"none", "gone"}
        /\ task[r] = "done" => s = "gone"
        /\ \/ tracked' = tracked /\ callback' = callback
           \/ /\ tracked' = [tracked EXCEPT ![r] = "producer"]
              /\ callback' = [callback EXCEPT ![r] = TRUE]
              /\ task[r] # "done"
           \/ /\ tracked' = [tracked EXCEPT ![r] = "none"]
              /\ callback' = callback
              /\ s = "gone"
    BY StepRegistry DEF RegistryStep, Goto
<1>2. UNCHANGED <<creator, victims, victim, admOwner>>
    BY DEF createVars
<1>3. creator[r] \notin Before
    BY <1>1 DEF IInv, Fresh
<1>4. ASSUME NEW q \in Runs
      PROVE  /\ Live(q)' => Live(q) /\ tracked'[q] # "none"
             /\ callback'[q] => tracked'[q] # "admission"
             /\ creator'[q] \in Before => tracked'[q] = "none" /\ ~callback'[q]
             /\ tracked[q] = "none" => tracked'[q] = "none"
  <2>1. CASE q = r
      BY <1>1, <1>2, <1>3, <2>1, Types DEF Admission, Registered, Live, Over
  <2>2. CASE q # r
    <3>1. task'[q] = task[q] /\ tracked'[q] = tracked[q] /\ callback'[q] = callback[q]
        BY <1>1, <2>2, Types
    <3> QED BY <1>2, <3>1 DEF Admission, Registered, Live
  <2> QED BY <2>1, <2>2
<1>5. Registered'
    BY <1>4 DEF Registered
<1>6. InCharge'
    BY <1>2 DEF Admission, InCharge
<1>7. Covered' /\ RejectedRunsNeverOverlap'
  <2>1. Subsides
      BY <1>1, <1>4 DEF Subsides
  <2>2. creator'[r] \notin Admitting
      BY <1>2, <1>3 DEF Admitting, Before
  <2> QED BY <1>2, <2>1, <2>2, SubsidingKeeps DEF Admission
<1> QED BY <1>4, <1>5, <1>6, <1>7 DEF Admission
-----------------------------------------------------------------------------
(***************************************************************************)
(* The steps of the handlers.                                              *)
(***************************************************************************)
\* The action property, for one step.
JoinsAlone ==
    \A r \in Runs :
        tracked[r] = "none" /\ tracked'[r] # "none" /\ request[r].strategy # "enqueue"
        => \A s \in Runs \ {r} : ~Live(s)

\* The registry as a handler finds it, or after it pruned it.
MayPrune(tasks, tracks) ==
    \/ tasks = task /\ tracks = tracked
    \/ tasks = Pruned /\ tracks = PrunedTracked

\* Pruning forgets no live run.
LEMMA PruningKeeps ==
    ASSUME IInv, Admission, NEW tasks, NEW tracks, MayPrune(tasks, tracks)
    PROVE  /\ DOMAIN tasks = Runs /\ DOMAIN tracks = Runs
           /\ \A q \in Runs :
                /\ tasks[q] \notin Over <=> Live(q)
                /\ Live(q) => tracks[q] # "none"
                /\ tracked[q] = "none" => tracks[q] = "none"
                /\ tracks[q] \in {tracked[q], "none"}
<1>1. CASE tasks = task /\ tracks = tracked
    BY <1>1, Types DEF Admission, Registered, Live
<1>2. CASE tasks = Pruned /\ tracks = PrunedTracked
    <2>1. ASSUME NEW q \in Runs
          PROVE  /\ tasks[q] \notin Over <=> Live(q)
                 /\ Live(q) => tracks[q] # "none"
                 /\ tracked[q] = "none" => tracks[q] = "none"
                 /\ tracks[q] \in {tracked[q], "none"}
        BY <1>2, <2>1 DEF Pruned, PrunedTracked, Admission, Registered, Live, Over
    <2> QED BY <1>2, <2>1 DEF Pruned, PrunedTracked
<1> QED BY <1>1, <1>2 DEF MayPrune

\* A handler that starts no task brings nothing to life.
Quiet(r) ==
    /\ request' = request
    /\ MayPrune(task', tracked')
    /\ callback' \in {callback, [callback EXCEPT ![r] = FALSE]}
    /\ \A q \in Runs : creator'[q] \in Before => creator[q] \in Before

\* It keeps the registry complete.
LEMMA Quieting ==
    ASSUME IInv, Admission, NEW r \in Runs, Quiet(r)
    PROVE  Registered' /\ Subsides /\ JoinsAlone
<1>1. ASSUME NEW q \in Runs
      PROVE  /\ Live(q)' <=> Live(q)
             /\ Live(q) => tracked'[q] # "none"
             /\ tracked[q] = "none" => tracked'[q] = "none"
             /\ tracked'[q] \in {tracked[q], "none"}
    BY PruningKeeps DEF Quiet, Live
<1>2. \A q \in Runs : callback'[q] => callback[q]
    BY Types DEF Quiet
<1>3. Registered'
    BY <1>1, <1>2 DEF Registered, Admission, Quiet
<1>4. Subsides
    BY <1>1 DEF Subsides, Quiet
<1>5. JoinsAlone
    BY <1>1 DEF JoinsAlone
<1> QED BY <1>3, <1>4, <1>5

\* The handlers of requests that are not, or no longer, in charge.
Bystands(r) ==
    /\ Quiet(r)
    /\ \/ UNCHANGED <<creator, victims, victim, admOwner>>
       \/ /\ \E c \in CreatorStates \ Admitting : Await(r, c)
          /\ creator[r] \notin Admitting
          /\ admOwner' = admOwner
          /\ \A q \in Runs \ {r} : victims'[q] = victims[q] /\ victim'[q] = victim[q]

\* They disturb no admission.
LEMMA BystandingKeeps ==
    ASSUME IInv, Admission, NEW r \in Runs, Bystands(r)
    PROVE  Admission' /\ JoinsAlone
<1>1. Registered' /\ Subsides /\ JoinsAlone
    BY Quieting DEF Bystands
<1>2. CASE UNCHANGED <<creator, victims, victim, admOwner>>
    <2>1. InCharge'
        BY <1>2 DEF InCharge, Admission
    <2>2. creator'[r] \in Admitting /\ request[r].strategy # "enqueue" =>
               \A s \in Runs : Live(s)' => creator'[r] # "insert" /\ Covers(r, s)'
        BY <1>1, <1>2 DEF Admission, Covered, Covers, Subsides
    <2>3. Covered' /\ RejectedRunsNeverOverlap'
        BY <1>1, <1>2, <2>2, SubsidingKeeps DEF Admission
    <2> QED BY <1>1, <2>1, <2>3 DEF Admission
<1>3. CASE /\ \E c \in CreatorStates \ Admitting : Await(r, c)
           /\ creator[r] \notin Admitting
           /\ admOwner' = admOwner
           /\ \A q \in Runs \ {r} : victims'[q] = victims[q] /\ victim'[q] = victim[q]
    <2>1. /\ creator'[r] \notin Admitting
          /\ \A q \in Runs \ {r} : creator'[q] = creator[q]
        BY <1>3, Types DEF Await
    <2>2. InCharge'
        BY <1>3, <2>1 DEF InCharge, Admission
    <2>3. Covered' /\ RejectedRunsNeverOverlap'
        BY <1>1, <1>3, <2>1, SubsidingKeeps DEF Admission
    <2> QED BY <1>1, <2>2, <2>3 DEF Admission
<1> QED BY <1>2, <1>3, <1>1 DEF Bystands

\* The handler of the request in charge, as long as it starts no task.
Presides(r) ==
    /\ Quiet(r)
    /\ admOwner \in {r, NoRun}
    /\ \E c \in CreatorStates :
         /\ Await(r, c)
         /\ admOwner' = IF c \in Admitting THEN r ELSE NoRun
         /\ c \in Admitting /\ request[r].strategy # "enqueue" =>
              \A s \in Runs : Live(s) => c # "insert" /\ Covers(r, s)'
    /\ \A q \in Runs \ {r} : victims'[q] = victims[q] /\ victim'[q] = victim[q]

\* It keeps what it found out about the live runs.
LEMMA PresidingKeeps ==
    ASSUME IInv, Admission, NEW r \in Runs, Presides(r)
    PROVE  Admission' /\ JoinsAlone
<1>1. Registered' /\ Subsides /\ JoinsAlone
    BY Quieting DEF Presides
<1>2. PICK c \in CreatorStates :
         /\ creator' = [creator EXCEPT ![r] = c]
         /\ admOwner' = IF c \in Admitting THEN r ELSE NoRun
         /\ c \in Admitting /\ request[r].strategy # "enqueue" =>
              \A s \in Runs : Live(s) => c # "insert" /\ Covers(r, s)'
    BY DEF Presides, Await
<1>3. creator'[r] = c /\ \A q \in Runs \ {r} : creator'[q] = creator[q]
    BY <1>2, Types
<1>4. InCharge'
    <2>1. \A q \in Runs \ {r} : creator[q] \notin Admitting
        BY RunsAssumption DEF Presides, Admission, InCharge
    <2> QED BY <1>2, <1>3, <2>1, RunsAssumption DEF InCharge
<1>5. creator'[r] \in Admitting /\ request[r].strategy # "enqueue" =>
           \A s \in Runs : Live(s)' => creator'[r] # "insert" /\ Covers(r, s)'
    BY <1>1, <1>2, <1>3 DEF Subsides
<1>6. \A q \in Runs \ {r} : victims'[q] = victims[q] /\ victim'[q] = victim[q]
    BY DEF Presides
<1>7. Covered' /\ RejectedRunsNeverOverlap'
    BY <1>1, <1>3, <1>5, <1>6, SubsidingKeeps DEF Admission
<1> QED BY <1>1, <1>4, <1>7 DEF Admission

\* The handler that starts the task of its run.
Spawns(r) ==
    /\ \E tasks, tracks :
         /\ MayPrune(tasks, tracks)
         /\ task' = [tasks EXCEPT ![r] = "ready"]
         /\ \E s \in {"run", "admission"} : tracked' = [tracks EXCEPT ![r] = s]
    /\ request' = request /\ callback' = callback
    /\ creator[r] \in Before /\ admOwner \in {r, NoRun}
    /\ \E c \in {"answered", "admit"} : Await(r, c)
    /\ admOwner' = NoRun
    /\ UNCHANGED <<victims, victim>>
    /\ request[r].strategy # "enqueue" => \A s \in Runs : ~Live(s)

\* It joins a live run only if it enqueues.
LEMMA SpawningKeeps ==
    ASSUME IInv, Admission, NEW r \in Runs, Spawns(r)
    PROVE  Admission' /\ JoinsAlone
<1>1. PICK tasks, tracks :
         /\ MayPrune(tasks, tracks)
         /\ task' = [tasks EXCEPT ![r] = "ready"]
         /\ \E s \in {"run", "admission"} : tracked' = [tracks EXCEPT ![r] = s]
    BY DEF Spawns
<1>2. PICK c \in {"answered", "admit"} : creator' = [creator EXCEPT ![r] = c]
    BY DEF Spawns, Await
<1>3. /\ creator'[r] \notin Admitting \cup Before
      /\ \A q \in Runs \ {r} : creator'[q] = creator[q]
    BY <1>2, Types DEF Admitting, Before
<1>4. tracked'[r] # "none"
    BY <1>1, PruningKeeps
<1>5. ASSUME NEW q \in Runs \ {r}
      PROVE  /\ Live(q)' <=> Live(q)
             /\ Live(q) => tracked'[q] # "none"
             /\ tracked[q] = "none" => tracked'[q] = "none"
             /\ tracked'[q] \in {tracked[q], "none"}
    <2>1. task'[q] = tasks[q] /\ tracked'[q] = tracks[q]
        BY <1>1, PruningKeeps
    <2> QED BY <1>1, <2>1, PruningKeeps DEF Live
<1>6. Registered'
    <2>1. ~callback'[r]
        BY DEF Spawns, Admission, Registered
    <2>2. \A q \in Runs : callback'[q] <=> callback[q]
        BY DEF Spawns
    <2> QED BY <1>3, <1>4, <1>5, <2>1, <2>2 DEF Admission, Registered
<1>7. \A q \in Runs : creator'[q] \notin Admitting
    BY <1>3, RunsAssumption DEF Spawns, Admission, InCharge
<1>8. InCharge' /\ Covered'
    BY <1>7, RunsAssumption DEF Spawns, InCharge, Covered
<1>9. RejectedRunsNeverOverlap'
    BY <1>5 DEF Spawns, Admission, RejectedRunsNeverOverlap
<1>10. JoinsAlone
    BY <1>5 DEF Spawns, JoinsAlone
<1> QED BY <1>6, <1>8, <1>9, <1>10 DEF Admission

\* Every handler does one of the three.
LEMMA HandlerKinds ==
    ASSUME IInv, Admission, NEW r \in Runs, HandlerStep(r)
    PROVE  Bystands(r) \/ Presides(r) \/ Spawns(r)
<1>1. \A s \in Runs : Live(s) => s \in ActiveRuns
    BY DEF Admission, Registered, ActiveRuns, Live, Over
<1>2. creator[r] \in Admitting => admOwner = r
    BY DEF Admission, InCharge
<1>3. /\ {"rejected", "left", "relay", "refused", "queued"} \subseteq CreatorStates \ Admitting
      /\ {"supersede", "awaitVictim", "deleteVictim", "insert", "failed"} \subseteq CreatorStates
      /\ Admitting \subseteq Before
    BY DEF CreatorStates, Answered, Admitting, Before
<1>4. ASSUME request' = request, MayPrune(task', tracked'), callback' = callback,
             NEW c \in CreatorStates, Await(r, c), c \in Before => creator[r] \in Before
      PROVE  Quiet(r)
    BY <1>4, Types DEF Quiet, Await
<1>5. ASSUME request' = request, MayPrune(task', tracked'),
             callback' \in {callback, [callback EXCEPT ![r] = FALSE]},
             UNCHANGED <<creator, victims, victim, admOwner>>
      PROVE  Bystands(r)
    BY <1>5 DEF Bystands, Quiet
<1>6. UNCHANGED <<task, tracked>> => MayPrune(task', tracked')
    BY DEF MayPrune
<1>7. CASE AdmissionCallback(r) /\ UNCHANGED <<createVars, apiVars, retry, foreign>>
    <2>1. tracked' = tracked
        BY <1>7 DEF AdmissionCallback, Admission, Registered
    <2> QED BY <1>5, <1>6, <1>7, <2>1 DEF AdmissionCallback, createVars
<1>8. CASE ApiStep(r)
    BY <1>5, <1>6, <1>8
       DEF ApiStep, ActOnCancel, CancelUnwound, SettleCancel, execVars, registryVars, createVars
<1>9. CASE ReadForCancel(r) \/ DeleteTerminal(r) \/ SweptElsewhere(r)
    BY <1>5, <1>6, <1>9
       DEF ReadForCancel, DeleteTerminal, SweptElsewhere, execVars, registryVars, createVars
<1>10. CASE RetryStep
    <2>1. CASE RetryRead
        <3>1. MayPrune(task', tracked')
            BY <2>1 DEF RetryRead, MayPrune
        <3> QED BY <1>5, <2>1, <3>1 DEF RetryRead, createVars
    <2>2. CASE RetryRows
        BY <1>5, <1>6, <2>2 DEF RetryRows, registryVars, createVars
    <2>3. CASE RetrySettle
        BY <1>5, <1>6, <2>3 DEF RetrySettle, registryVars, createVars
    <2> QED BY <1>10, <2>1, <2>2, <2>3 DEF RetryStep
<1>11. CASE Arrive(r)
    <2>1. Quiet(r)
        BY <1>3, <1>4, <1>6, <1>11 DEF Arrive, execVars, registryVars, Before
    <2> QED BY <1>3, <1>11, <2>1 DEF Arrive, Bystands, Admitting
<1>12. CASE AdmissionAnswers(r)
    <2>1. \E c \in {"relay", "refused"} : Await(r, c)
        BY <1>12 DEF AdmissionAnswers
    <2>2. Quiet(r)
        BY <1>3, <1>4, <1>6, <1>12, <2>1 DEF AdmissionAnswers, execVars, registryVars, Before
    <2> QED BY <1>3, <1>12, <2>1, <2>2 DEF AdmissionAnswers, Bystands, Admitting
<1>13. CASE ClientLeaves(r)
    <2>1. Quiet(r)
        BY <1>3, <1>4, <1>6, <1>13 DEF ClientLeaves, registryVars, Before
    <2> QED BY <1>3, <1>13, <2>1 DEF ClientLeaves, Bystands, Admitting
<1>14. CASE LeaveAdmission(r)
    <2>1. Quiet(r)
        BY <1>3, <1>4, <1>6, <1>14 DEF LeaveAdmission, registryVars, Before
    <2>2. \A q \in Runs \ {r} : victims'[q] = victims[q] /\ victim'[q] = victim[q]
        BY <1>14, Types DEF LeaveAdmission
    <2>3. CASE creator[r] = "queued"
        <3>1. admOwner # r
            BY <2>3 DEF Admission, InCharge, Admitting
        <3> QED BY <1>3, <1>14, <2>1, <2>2, <2>3, <3>1
                DEF LeaveAdmission, Bystands, Admitting
    <2>4. CASE creator[r] # "queued"
        <3>1. admOwner = r
            BY <1>2, <1>14, <2>4 DEF LeaveAdmission, Admitting
        <3>2. admOwner' = NoRun /\ Await(r, "left")
            BY <1>14, <3>1 DEF LeaveAdmission
        <3> QED BY <1>3, <2>1, <2>2, <3>1, <3>2 DEF Presides
    <2> QED BY <2>3, <2>4
<1>15. CASE Admit(r)
    <2>1. MayPrune(Pruned, PrunedTracked) /\ request' = request /\ callback' = callback
        BY <1>15 DEF Admit, MayPrune
    <2>2. creator[r] \in Before /\ creator[r] \notin Admitting /\ admOwner = NoRun
        BY <1>15 DEF Admit, Before, Admitting
    <2>3. CASE ActiveRuns = {} \/ request[r].strategy = "enqueue"
        <3>1. request[r].strategy # "enqueue" => \A s \in Runs : ~Live(s)
            BY <1>1, <2>3
        <3>2. Enter(r, Pruned, PrunedTracked) /\ UNCHANGED <<victims, victim>>
            BY <1>15, <2>3 DEF Admit
        <3>3. CASE Streaming(r)
            BY <2>1, <2>2, <3>1, <3>2, <3>3 DEF Enter, Spawns
        <3>4. CASE ~Streaming(r)
            <4>1. Quiet(r)
                BY <1>3, <1>4, <2>1, <2>2, <3>2, <3>4 DEF Enter
            <4> QED BY <1>3, <2>2, <3>1, <3>2, <3>4, <4>1 DEF Enter, Presides, Admitting
        <3> QED BY <3>3, <3>4
    <2>4. CASE ActiveRuns # {} /\ request[r].strategy = "reject"
        <3>1. /\ Await(r, "rejected") /\ task' = Pruned /\ tracked' = PrunedTracked
              /\ UNCHANGED <<admOwner, victims, victim>>
            BY <1>15, <2>4 DEF Admit
        <3>2. Quiet(r)
            BY <1>3, <1>4, <2>1, <2>2, <3>1
        <3> QED BY <1>3, <2>2, <3>1, <3>2 DEF Bystands
    <2>5. CASE ActiveRuns # {} /\ request[r].strategy \notin {"enqueue", "reject"}
        <3>1. /\ Await(r, "supersede") /\ task' = Pruned /\ tracked' = PrunedTracked
              /\ victims' = [victims EXCEPT ![r] = ActiveRuns]
              /\ admOwner' = r /\ victim' = victim
            BY <1>15, <2>5 DEF Admit
        <3>2. Quiet(r)
            BY <1>3, <1>4, <2>1, <2>2, <3>1
        <3>3. victims'[r] = ActiveRuns /\ \A q \in Runs \ {r} : victims'[q] = victims[q]
            BY <3>1, Types
        <3>4. \A s \in Runs : Live(s) => Covers(r, s)'
            BY <1>1, <3>3 DEF Covers
        <3> QED BY <1>3, <2>2, <3>1, <3>2, <3>3, <3>4 DEF Presides, Admitting
    <2> QED BY <2>3, <2>4, <2>5
<1>16. CASE creator[r] \in Admitting /\ ~LeaveAdmission(r) /\ CreatorStep(r)
    <2>1. admOwner = r /\ creator[r] \in Before
        BY <1>2, <1>3, <1>16
    <2>2. /\ request[r].strategy # "enqueue" =>
               \A s \in Runs : Live(s) => creator[r] # "insert" /\ Covers(r, s)
        BY <1>16 DEF Admission, Covered
    <2>3. CASE CancelVictim(r)
        <3>1. PICK v \in victims[r] :
                /\ victims' = [victims EXCEPT ![r] = @ \ {v}]
                /\ IF tracked[v] = "none"
                   THEN UNCHANGED <<creator, victim>>
                   ELSE /\ victim' = [victim EXCEPT ![r] = v]
                        /\ Await(r, "awaitVictim")
            BY <2>3 DEF CancelVictim
        <3>2. /\ creator[r] = "supersede" /\ v \in Runs
              /\ UNCHANGED <<request, task, tracked, callback, admOwner>>
            BY <2>3, <3>1, Types DEF CancelVictim, registryVars
        <3>3. /\ victims'[r] = victims[r] \ {v}
              /\ \A q \in Runs \ {r} : victims'[q] = victims[q]
            BY <3>1, Types
        <3>4. CASE tracked[v] = "none"
            <4>1. Await(r, "supersede") /\ victim' = victim
                BY <3>1, <3>2, <3>4, Types DEF Await
            <4>2. Quiet(r)
                BY <1>3, <1>4, <1>6, <2>1, <3>2, <4>1
            <4>3. ~Live(v)
                BY <3>2, <3>4 DEF Admission, Registered
            <4>4. request[r].strategy # "enqueue" => \A s \in Runs : Live(s) => Covers(r, s)'
                BY <2>2, <3>2, <3>3, <4>3 DEF Covers
            <4> QED BY <1>3, <2>1, <3>2, <3>3, <4>1, <4>2, <4>4 DEF Presides, Admitting
        <3>5. CASE tracked[v] # "none"
            <4>1. Await(r, "awaitVictim") /\ victim' = [victim EXCEPT ![r] = v]
                BY <3>1, <3>5
            <4>2. Quiet(r)
                BY <1>3, <1>4, <1>6, <2>1, <3>2, <4>1
            <4>3. /\ creator'[r] = "awaitVictim" /\ victim'[r] = v
                  /\ \A q \in Runs \ {r} : victim'[q] = victim[q]
                BY <4>1, Types DEF Await
            <4>4. request[r].strategy # "enqueue" => \A s \in Runs : Live(s) => Covers(r, s)'
                BY <2>2, <3>2, <3>3, <4>3 DEF Covers
            <4> QED BY <1>3, <2>1, <3>2, <3>3, <4>1, <4>2, <4>3, <4>4 DEF Presides, Admitting
        <3> QED BY <3>4, <3>5
    <2>4. CASE VictimUnwound(r)
        <3>1. /\ UNCHANGED <<request, task, tracked, callback, admOwner, victims>>
              /\ creator[r] = "awaitVictim" /\ task[victim[r]] \in {"done", "gone"}
            BY <2>4 DEF VictimUnwound, Unwound, execVars, registryVars
        <3>2. PICK c \in {"deleteVictim", "supersede"} : Await(r, c)
            BY <2>4 DEF VictimUnwound
        <3>3. \A q \in Runs \ {r} : victim'[q] = victim[q]
            BY <2>4, Types DEF VictimUnwound
        <3>4. Quiet(r)
            BY <1>3, <1>4, <1>6, <2>1, <3>1, <3>2
        <3>5. \A s \in Runs : Live(s) => s # victim[r]
            BY <3>1 DEF Live, Over
        <3>6. request[r].strategy # "enqueue" => \A s \in Runs : Live(s) => Covers(r, s)'
            BY <2>2, <3>1, <3>5 DEF Covers
        <3> QED BY <1>3, <2>1, <3>1, <3>2, <3>3, <3>4, <3>6 DEF Presides, Admitting
    <2>5. CASE DeleteVictim(r)
        <3>1. /\ UNCHANGED <<request, task, tracked, callback, victims>>
              /\ creator[r] = "deleteVictim"
              /\ \/ Await(r, "supersede") /\ admOwner' = admOwner
                 \/ Await(r, "failed") /\ admOwner' = NoRun
            BY <2>5 DEF DeleteVictim, FailCreate, registryVars
        <3>2. \A q \in Runs \ {r} : victim'[q] = victim[q]
            BY <2>5, Types DEF DeleteVictim
        <3>3. Quiet(r)
            BY <1>3, <1>4, <1>6, <2>1, <3>1
        <3>4. request[r].strategy # "enqueue" => \A s \in Runs : Live(s) => Covers(r, s)'
            BY <2>2, <3>1 DEF Covers
        <3> QED BY <1>3, <2>1, <3>1, <3>2, <3>3, <3>4 DEF Presides, Admitting
    <2>6. CASE Superseded(r)
        <3>1. /\ Enter(r, task, tracked) /\ creator[r] = "supersede" /\ victims[r] = {}
              /\ UNCHANGED <<request, callback, victims, victim>>
            BY <2>6 DEF Superseded
        <3>2. request[r].strategy # "enqueue" => \A s \in Runs : ~Live(s)
            BY <2>2, <3>1 DEF Covers
        <3>3. CASE Streaming(r)
            BY <2>1, <3>1, <3>2, <3>3 DEF Enter, Spawns, MayPrune
        <3>4. CASE ~Streaming(r)
            <4>1. /\ UNCHANGED <<task, tracked>> /\ Await(r, "insert") /\ admOwner' = r
                BY <3>1, <3>4 DEF Enter
            <4>2. Quiet(r)
                BY <1>3, <1>4, <1>6, <2>1, <3>1, <4>1
            <4> QED BY <1>3, <2>1, <3>1, <3>2, <4>1, <4>2 DEF Presides, Admitting
        <3> QED BY <3>3, <3>4
    <2>7. CASE Spawn(r)
        <3>1. /\ creator[r] = "insert" /\ UNCHANGED <<request, callback, victims, victim>>
              /\ admOwner' = NoRun
            BY <2>7 DEF Spawn, FailCreate
        <3>2. request[r].strategy # "enqueue" => \A s \in Runs : ~Live(s)
            BY <2>2, <3>1
        <3>3. CASE /\ tracked' = [tracked EXCEPT ![r] = "run"]
                   /\ Goto(r, "ready") /\ Await(r, "answered")
            BY <2>1, <3>1, <3>2, <3>3 DEF Goto, Spawns, MayPrune
        <3>4. CASE UNCHANGED <<tracked, task>> /\ Await(r, "failed")
            <4>1. Quiet(r)
                BY <1>3, <1>4, <1>6, <2>1, <3>1, <3>4
            <4> QED BY <1>3, <2>1, <3>1, <3>4, <4>1 DEF Presides, Admitting
        <3> QED BY <2>7, <3>3, <3>4 DEF Spawn, FailCreate
    <2>8. ~Admit(r) /\ ~AdmissionAnswers(r)
        BY <1>16 DEF Admit, AdmissionAnswers, Admitting
    <2> QED BY <1>16, <2>3, <2>4, <2>5, <2>6, <2>7, <2>8 DEF CreatorStep
<1>17. CASE CreatorStep(r) /\ creator[r] \notin Admitting
    BY <1>12, <1>15, <1>17
       DEF CreatorStep, CancelVictim, VictimUnwound, DeleteVictim, Superseded, Spawn, Admitting
<1> QED
    BY <1>7, <1>8, <1>9, <1>10, <1>11, <1>13, <1>14, <1>16, <1>17
       DEF HandlerStep, Environment

\* It holds at the start, and every step keeps it and joins no live run.
LEMMA AdmissionInit == Init => Admission
<1> SUFFICES ASSUME Init PROVE Admission
    OBVIOUS
<1>1. Registered
    BY DEF Init, ExecInit, Registered, Live, Over
<1>2. InCharge /\ Covered
    BY RunsAssumption DEF Init, InCharge, Covered, Admitting
<1>3. RejectedRunsNeverOverlap
    BY DEF Init, ExecInit, RejectedRunsNeverOverlap, Live, Over
<1> QED BY <1>1, <1>2, <1>3 DEF Admission

\* Whatever the step.
LEMMA AdmissionStep ==
    ASSUME IInv, Admission, [Next]_vars
    PROVE  Admission' /\ JoinsAlone
<1>1. ASSUME NEW r \in Runs, TaskStep(r), UNCHANGED <<createVars, apiVars, retry, foreign>>
      PROVE  Admission' /\ JoinsAlone
    BY <1>1, TaskAdmission DEF JoinsAlone
<1>2. ASSUME NEW r \in Runs, HandlerStep(r)
      PROVE  Admission' /\ JoinsAlone
    BY <1>2, HandlerKinds, BystandingKeeps, PresidingKeeps, SpawningKeeps
<1>3. CASE UNCHANGED vars
    <2>1. UNCHANGED <<task, tracked, callback, creator, victims, victim, admOwner, request>>
        BY <1>3 DEF vars, execVars, registryVars, createVars
    <2>2. Registered' /\ InCharge' /\ RejectedRunsNeverOverlap' /\ JoinsAlone
        BY <2>1 DEF Admission, Registered, InCharge, RejectedRunsNeverOverlap, Live, JoinsAlone
    <2>3. Covered'
        BY <2>1 DEF Admission, Covered, Covers, Live
    <2> QED BY <2>2, <2>3 DEF Admission
<1> QED BY <1>1, <1>2, <1>3, NextCases

\* So it always holds.
LEMMA AdmissionInvariance == Spec => []Admission
<1>1. Init => Admission
    BY AdmissionInit
<1>2. IInv /\ Admission /\ [Next]_vars => Admission'
    BY AdmissionStep
<1> QED BY <1>1, <1>2, Invariance, PTL DEF Spec

\* Two runs admitted with strategy "reject" are never unfinished together.
THEOREM RejectsNeverOverlap == Spec => []RejectedRunsNeverOverlap
<1>1. Admission => RejectedRunsNeverOverlap
    BY DEF Admission
<1> QED BY <1>1, AdmissionInvariance, PTL

\* A task is spawned next to a live run only for a request that enqueues.
THEOREM OnlyEnqueueJoins == Spec => OnlyEnqueueJoinsLiveRuns
<1>1. IInv /\ Admission /\ [Next]_vars =>
        [\A r \in Runs :
            tracked[r] = "none" /\ tracked'[r] # "none" /\ request[r].strategy # "enqueue"
            => \A s \in Runs \ {r} : ~Live(s)]_vars
    BY AdmissionStep DEF JoinsAlone
<1> QED BY <1>1, Invariance, AdmissionInvariance, PTL DEF Spec, OnlyEnqueueJoinsLiveRuns

-----------------------------------------------------------------------------
(***************************************************************************)
(* PART 2: outcomes.  A cancel that was waited for keeps its word,         *)
(* whatever the store does; and, as long as the store fails no call, a     *)
(* streaming run leaves a settled row, its terminal event is that row's    *)
(* status, and success never strands its thread.                           *)
(***************************************************************************)

\* The places of a run whose row was inserted, but for those that a
\* background run, whose row comes before its task, shares with a streaming one.
Begun ==
    {"start", "claim", "lost", "busy", "graph", "finish", "settle", "tokens",
     "failMark", "failLost", "failThread", "ended",
     "intMark", "intLost", "intThread", "resettle"}

HasRow(r) ==
    \/ task[r] \in Begun
    \/ ~Streaming(r) /\ task[r] \in {"ready", "lockWait", "dropRow"}
    \/ api[r] # "idle"

Inserted ==
    \A r \in Runs :
        /\ task[r] = "insert" => Streaming(r)
        /\ HasRow(r) => row[r] # "absent"
        /\ row[r] # "timeout"

\* What a cancel request relies on once it has waited.
Word ==
    \A r \in Runs :
        /\ api[r] \in {"delete", "backstop"} =>
             Unwound(r) /\ (apiMode[r] = "rollback" <=> api[r] = "delete")
        /\ api[r] = "cancelled" /\ apiMode[r] # "interrupt" =>
             /\ Unwound(r)
             /\ row[r] \notin InFlight
             /\ apiMode[r] = "rollback" => row[r] = "deleted"

\* What the place of a run says of its row, as long as no store call fails.
Tale(r) ==
    /\ task[r] \in {"lost", "failLost", "intLost"} => row[r] \notin InFlight
    /\ task[r] \in {"settle", "tokens", "resettle"} => row[r] \in {"success", "deleted"}
    /\ task[r] = "failThread" => row[r] \in {"error", "deleted"}
    /\ task[r] = "intThread" => row[r] \in {"interrupted", "deleted"}
    /\ task[r] \in {"ready", "lockWait", "insert", "start", "claim", "busy", "graph",
                    "finish"} => row[r] # "success"
    /\ task[r] = "ended" \/ stream[r] = "closed" => row[r] \in {outcome[r], "deleted"}
    /\ Streaming(r) /\ task[r] = "dropRow" => cancel[r] = "delivered" \/ creator[r] = "left"
    /\ Streaming(r) /\ task[r] \in {"done", "gone"} /\ creator[r] # "left" =>
         row[r] \notin InFlight

Tales == \A r \in Runs : Tale(r)

\* A run that did not end in success, or whose cancellation handler has yet to
\* find out whether it did.
Answers(r) == row[r] \notin {"absent", "success"} \/ task[r] \in {"intMark", "intLost"}

\* A thread left busy is queued for a settle, or some run answers for it.
Remembered == thread = "busy" /\ ~unsettled => \E r \in Runs : Answers(r)
-----------------------------------------------------------------------------
(***************************************************************************)
(* What the actions may do to the rows, and how a run gets from place to   *)
(* place with one.                                                         *)
(***************************************************************************)
\* A run begins when its row is inserted, by its task or by its request.
WritingStep(r) ==
    \E s \in TaskStates :
        /\ Goto(r, s)
        /\ s = "insert" => Streaming(r)
        /\ s \in Begun => \/ task[r] \in Begun
                          \/ task[r] = "insert" /\ row' = InsertRow(row, r)
                          \/ ~Streaming(r) /\ task[r] \in {"ready", "lockWait"}
        /\ s \in {"ready", "lockWait"} => task[r] \in {"ready", "lockWait"}
        /\ s = "dropRow" => task[r] \in {"lockWait", "insert"}
        /\ task[r] = "done" => s = "gone"
        /\ task[r] \notin {"none", "gone"}
        /\ \/ row' = row
           \/ \E u \in {"running", "success", "error", "interrupted"} :
                row' = UpdateStatus(row, r, u)
           \/ task[r] = "insert" /\ row' = InsertRow(row, r)

\* Every action of RunExecution does no more.
LEMMA StepWriting ==
    ASSUME NEW r \in Runs, TaskStep(r)
    PROVE  WritingStep(r)
<1> USE DEF WritingStep, Begun, Aborts, TaskStates, Waiting, Holding, Dropping, Over
<1>1. CASE Start(r)
    BY <1>1 DEF Start, FirstHeld
<1>2. CASE NeverRuns(r)
    BY <1>2 DEF NeverRuns
<1>3. CASE Grant(r)
    BY <1>3 DEF Grant, FirstHeld
<1>4. CASE GiveUpLock(r)
    BY <1>4 DEF GiveUpLock
<1>5. CASE DropRow(r)
    BY <1>5 DEF DropRow
<1>6. CASE HandOff(r)
    BY <1>6 DEF HandOff
<1>7. CASE InsertFails(r)
    BY <1>7 DEF InsertFails
<1>8. CASE StartProducer(r)
    BY <1>8 DEF StartProducer
<1>9. CASE Claim(r)
    BY <1>9 DEF Claim
<1>10. CASE Lost(r)
    BY <1>10 DEF Lost, Leave
<1>11. CASE Busy(r)
    BY <1>11 DEF Busy
<1>12. CASE Graph(r)
    BY <1>12 DEF Graph, Goto
<1>13. CASE Finish(r)
    BY <1>13 DEF Finish
<1>14. CASE Settle(r)
    BY <1>14 DEF Settle, SettleDone, Leave
<1>15. CASE Tokens(r)
    BY <1>15 DEF Tokens, Leave
<1>16. CASE FailMark(r)
    BY <1>16 DEF FailMark, HandlerRaises, AbandonHandler, Leave
<1>17. CASE FailLost(r)
    BY <1>17 DEF FailLost, HandlerRaises, AbandonHandler, Leave
<1>18. CASE FailThread(r)
    BY <1>18 DEF FailThread, HandlerRaises, AbandonHandler, Leave
<1>19. CASE IntMark(r)
    BY <1>19 DEF IntMark, Conclude, CloseRun, Leave
<1>20. CASE IntThread(r)
    BY <1>20 DEF IntThread, Conclude, CloseRun, Leave
<1>21. CASE IntLost(r)
    BY <1>21 DEF IntLost, Conclude, CloseRun, Leave
<1>22. CASE Resettle(r)
    BY <1>22 DEF Resettle, Conclude, CloseRun, Leave
<1>23. CASE Finalize(r)
    BY <1>23 DEF Finalize, CloseRun
<1>24. CASE Forget(r)
    BY <1>24 DEF Forget
<1> HIDE DEF WritingStep
<1> QED
    BY <1>1, <1>2, <1>3, <1>4, <1>5, <1>6, <1>7, <1>8, <1>9, <1>10, <1>11, <1>12,
       <1>13, <1>14, <1>15, <1>16, <1>17, <1>18, <1>19, <1>20, <1>21, <1>22, <1>23,
       <1>24 DEF TaskStep

\* A handler writes rows for others: it deletes, interrupts or fails them.
\* It inserts its own, and then starts the task.
HandlerWriting(r) ==
    /\ request' = request
    /\ \/ row' = row
       \/ \E v : row' = DeleteRow(row, v)
       \/ \E v, u : u \in {"error", "interrupted"} /\ row' = UpdateStatus(row, v, u)
       \/ creator[r] = "insert" /\ row' = InsertRow(row, r)
    /\ \/ task' = task \/ task' = Pruned
       \/ /\ task' = [task EXCEPT ![r] = "ready"] \/ task' = [Pruned EXCEPT ![r] = "ready"]
          /\ creator[r] \in Before
          /\ (Streaming(r) /\ row' = row) \/ row' = InsertRow(row, r)
    /\ \/ creator' = creator
       \/ creator[r] # "left" /\ \E c \in CreatorStates : Await(r, c)
    /\ \/ cancel' = cancel
       \/ \E v : cancel[v] = "none" /\ cancel' = [cancel EXCEPT ![v] = "requested"]
       \/ Await(r, "left") /\ cancel' = [cancel EXCEPT ![r] = "requested"]
    /\ \/ thread' = thread /\ unsettled' = unsettled
       \/ unsettled'
       \/ thread' \in Settled
       \/ thread' = thread /\ thread # "busy"

\* Every action that is not a task's does no more.
LEMMA HandlerStepWriting ==
    ASSUME NEW r \in Runs, HandlerStep(r)
    PROVE  HandlerWriting(r)
<1> USE DEF HandlerWriting, execVars, registryVars, lockVars, threadVars, streamVars,
            createVars, CreatorStates, Answered, Before
<1>1. CASE Arrive(r)
    BY <1>1 DEF Arrive
<1>2. CASE Admit(r)
    BY <1>2 DEF Admit, Enter
<1>3. CASE CancelVictim(r)
    BY <1>3 DEF CancelVictim, RequestCancel
<1>4. CASE VictimUnwound(r)
    BY <1>4 DEF VictimUnwound
<1>5. CASE DeleteVictim(r)
    BY <1>5 DEF DeleteVictim, StoreRaises, FailCreate
<1>6. CASE Superseded(r)
    BY <1>6 DEF Superseded, Enter
<1>7. CASE Spawn(r)
    BY <1>7 DEF Spawn, StoreRaises, FailCreate, Goto
<1>8. CASE AdmissionAnswers(r)
    BY <1>8 DEF AdmissionAnswers
<1>9. CASE LeaveAdmission(r)
    BY <1>9 DEF LeaveAdmission
<1>10. CASE ClientLeaves(r)
    BY <1>10 DEF ClientLeaves, PassCancelOn, RequestCancel
<1>11. CASE ReadForCancel(r)
    BY <1>11 DEF ReadForCancel, Answer
<1>12. CASE ActOnCancel(r)
    BY <1>12 DEF ActOnCancel, RequestCancel, Answer
<1>13. CASE CancelUnwound(r)
    BY <1>13 DEF CancelUnwound, Answer
<1>14. CASE SettleCancel(r)
    BY <1>14 DEF SettleCancel, StoreRaises, Answer
<1>15. CASE DeleteTerminal(r)
    BY <1>15 DEF DeleteTerminal
<1>16. CASE SweptElsewhere(r)
    BY <1>16 DEF SweptElsewhere
<1>17. CASE RetryRead
    BY <1>17 DEF RetryRead
<1>18. CASE RetryRows
    BY <1>18 DEF RetryRows
<1>19. CASE RetrySettle
    BY <1>19 DEF RetrySettle, StoreRaises
<1>20. CASE AdmissionCallback(r) /\ UNCHANGED <<createVars, apiVars, retry, foreign>>
    BY <1>20 DEF AdmissionCallback
<1> HIDE DEF HandlerWriting
<1> QED
    BY <1>1, <1>2, <1>3, <1>4, <1>5, <1>6, <1>7, <1>8, <1>9, <1>10, <1>11, <1>12,
       <1>13, <1>14, <1>15, <1>16, <1>17, <1>18, <1>19, <1>20
    DEF HandlerStep, CreatorStep, ApiStep, Environment, RetryStep

\* What a cancel request may do for itself.
ApiMove(r) ==
    /\ \A q \in Runs \ {r} : api'[q] = api[q] /\ apiMode'[q] = apiMode[q]
    /\ \/ api'[r] = api[r] /\ apiMode'[r] = apiMode[r]
       \/ api[r] = "idle" /\ api'[r] = "act" /\ row' = row /\ row[r] \in InFlight
       \/ /\ apiMode'[r] = apiMode[r] /\ api[r] # "idle"
          /\ \/ api'[r] = "cancelled" /\ apiMode[r] = "interrupt"
             \/ api'[r] \in {"wait", "conflict", "failed"}
             \/ /\ api'[r] = IF apiMode[r] = "rollback" THEN "delete" ELSE "backstop"
                /\ Unwound(r) /\ task' = task
             \/ /\ api[r] \in {"delete", "backstop"} /\ api'[r] = "cancelled"
                /\ task' = task
                /\ row' = IF api[r] = "delete" THEN DeleteRow(row, r)
                          ELSE UpdateStatus(row, r, "interrupted")

\* Every such action does no more to the cancel requests.
LEMMA HandlerApiMove ==
    ASSUME IInv, NEW r \in Runs, HandlerStep(r)
    PROVE  ApiMove(r)
<1>0. /\ api \in [Runs -> ApiStates]
      /\ apiMode \in [Runs -> {"none"} \cup CancelModes]
    BY DEF IInv, TypeOK
<1> USE DEF ApiMove, execVars, registryVars, createVars, apiVars
<1>1. CASE Arrive(r)
    BY <1>1 DEF Arrive
<1>2. CASE Admit(r)
    BY <1>2 DEF Admit, Enter
<1>3. CASE CancelVictim(r)
    BY <1>3 DEF CancelVictim, RequestCancel
<1>4. CASE VictimUnwound(r)
    BY <1>4 DEF VictimUnwound
<1>5. CASE DeleteVictim(r)
    BY <1>5 DEF DeleteVictim, StoreRaises, FailCreate
<1>6. CASE Superseded(r)
    BY <1>6 DEF Superseded, Enter
<1>7. CASE Spawn(r)
    BY <1>7 DEF Spawn, StoreRaises, FailCreate, Goto
<1>8. CASE AdmissionAnswers(r)
    BY <1>8 DEF AdmissionAnswers
<1>9. CASE LeaveAdmission(r)
    BY <1>9 DEF LeaveAdmission
<1>10. CASE ClientLeaves(r)
    BY <1>10 DEF ClientLeaves, PassCancelOn, RequestCancel
<1>11. CASE ReadForCancel(r)
    BY <1>11, <1>0 DEF ReadForCancel, Answer
<1>12. CASE ActOnCancel(r)
    BY <1>12, <1>0 DEF ActOnCancel, RequestCancel, Answer
<1>13. CASE CancelUnwound(r)
    BY <1>13, <1>0 DEF CancelUnwound, Answer
<1>14. CASE SettleCancel(r)
    BY <1>14, <1>0 DEF SettleCancel, StoreRaises, Answer
<1>15. CASE DeleteTerminal(r)
    BY <1>15 DEF DeleteTerminal
<1>16. CASE SweptElsewhere(r)
    BY <1>16 DEF SweptElsewhere
<1>17. CASE RetryRead
    BY <1>17 DEF RetryRead
<1>18. CASE RetryRows
    BY <1>18 DEF RetryRows
<1>19. CASE RetrySettle
    BY <1>19 DEF RetrySettle, StoreRaises
<1>20. CASE AdmissionCallback(r) /\ UNCHANGED <<createVars, apiVars, retry, foreign>>
    BY <1>20 DEF AdmissionCallback
<1> HIDE DEF ApiMove
<1> QED
    BY <1>1, <1>2, <1>3, <1>4, <1>5, <1>6, <1>7, <1>8, <1>9, <1>10, <1>11, <1>12,
       <1>13, <1>14, <1>15, <1>16, <1>17, <1>18, <1>19, <1>20
    DEF HandlerStep, CreatorStep, ApiStep, Environment, RetryStep
-----------------------------------------------------------------------------
(***************************************************************************)
(* The same, as seen by one run.                                           *)
(***************************************************************************)
\* What the handlers of any run do to run q.
LEMMA HandlerEffect ==
    ASSUME IInv, Unwritten, NEW r \in Runs, HandlerStep(r), NEW q \in Runs
    PROVE  /\ Streaming(q)' = Streaming(q)
           /\ row[q] # "absent" => /\ row'[q] \in {row[q], "deleted", "error", "interrupted"}
                                   /\ row[q] \notin InFlight => row'[q] \in {row[q], "deleted"}
           /\ row[q] = "absent" => row'[q] \in {"absent", "pending"}
           /\ \/ task'[q] = task[q]
              \/ task[q] = "done" /\ task'[q] = "gone"
              \/ /\ task[q] = "none" /\ task'[q] = "ready"
                 /\ row[q] = "absent"
                 /\ Streaming(q) \/ row'[q] = "pending"
           /\ creator[q] = "left" => creator'[q] = "left"
           /\ cancel[q] = "delivered" => cancel'[q] = "delivered" \/ creator'[q] = "left"
           /\ stream'[q] = stream[q] /\ outcome'[q] = outcome[q]
<1>1. HandlerWriting(r) /\ HandlerFootprint(r)
    BY HandlerStepWriting, HandlerStepFootprint DEF IInv
<1>2. /\ task \in [Runs -> TaskStates] /\ row \in [Runs -> RowStates]
      /\ creator \in [Runs -> CreatorStates]
      /\ cancel \in [Runs -> {"none", "requested", "delivered"}]
    BY DEF IInv, TypeOK, TypeOKExec
<1>3. Streaming(q)' = Streaming(q) /\ stream'[q] = stream[q] /\ outcome'[q] = outcome[q]
    BY <1>1 DEF HandlerFootprint, Streaming
<1>4. creator[r] \in Before => row[r] = "absent" /\ task[r] = "none"
    BY DEF IInv, Fresh, Unwritten
<1>5. /\ row[q] # "absent" => /\ row'[q] \in {row[q], "deleted", "error", "interrupted"}
                              /\ row[q] \notin InFlight => row'[q] \in {row[q], "deleted"}
      /\ row[q] = "absent" => row'[q] \in {"absent", "pending"}
  <2>1. CASE row' = row
      BY <2>1
  <2>2. CASE \E v : row' = DeleteRow(row, v)
      BY <1>2, <2>2 DEF DeleteRow
  <2>3. CASE \E v, u : u \in {"error", "interrupted"} /\ row' = UpdateStatus(row, v, u)
    <3>1. PICK v, u : u \in {"error", "interrupted"} /\ row' = UpdateStatus(row, v, u)
        BY <2>3
    <3>2. CASE v = q
        BY <1>2, <3>1, <3>2 DEF UpdateStatus, InFlight
    <3>3. CASE v # q
        BY <1>2, <3>1, <3>3 DEF UpdateStatus
    <3> QED BY <3>2, <3>3
  <2>4. CASE creator[r] = "insert" /\ row' = InsertRow(row, r)
      BY <1>2, <1>4, <2>4 DEF InsertRow, Before
  <2> QED BY <1>1, <2>1, <2>2, <2>3, <2>4 DEF HandlerWriting
<1>6. \/ task'[q] = task[q]
      \/ task[q] = "done" /\ task'[q] = "gone"
      \/ /\ task[q] = "none" /\ task'[q] = "ready"
         /\ row[q] = "absent"
         /\ Streaming(q) \/ row'[q] = "pending"
  <2>1. CASE task' = task \/ task' = Pruned
      BY <1>2, <2>1 DEF Pruned
  <2>2. CASE /\ task' = [task EXCEPT ![r] = "ready"] \/ task' = [Pruned EXCEPT ![r] = "ready"]
             /\ creator[r] \in Before
             /\ (Streaming(r) /\ row' = row) \/ row' = InsertRow(row, r)
    <3>1. CASE q = r
        BY <1>2, <1>4, <2>2, <3>1 DEF Pruned, InsertRow
    <3>2. CASE q # r
        BY <1>2, <2>2, <3>2 DEF Pruned
    <3> QED BY <3>1, <3>2
  <2> QED BY <1>1, <2>1, <2>2 DEF HandlerWriting
<1>7. /\ creator[q] = "left" => creator'[q] = "left"
      /\ cancel[q] = "delivered" => cancel'[q] = "delivered" \/ creator'[q] = "left"
    BY <1>1, <1>2 DEF HandlerWriting, Await
<1> QED BY <1>3, <1>5, <1>6, <1>7

\* What a step of a run's task does to that run and to the others.
LEMMA TaskEffect ==
    ASSUME IInv, NEW r \in Runs, TaskStep(r), UNCHANGED <<createVars, apiVars, retry, foreign>>
    PROVE  /\ \A q \in Runs :
                /\ Streaming(q)' = Streaming(q)
                /\ creator'[q] = creator[q]
                /\ api'[q] = api[q] /\ apiMode'[q] = apiMode[q]
                /\ q # r => /\ task'[q] = task[q] /\ row'[q] = row[q]
                            /\ stream'[q] = stream[q] /\ outcome'[q] = outcome[q]
                            /\ cancel'[q] = cancel[q]
           /\ task'[r] = "insert" => Streaming(r)
           /\ task'[r] \in Begun => \/ task[r] \in Begun
                                    \/ task[r] = "insert" /\ row'[r] = "pending"
                                    \/ ~Streaming(r) /\ task[r] \in {"ready", "lockWait"}
           /\ task'[r] \in {"ready", "lockWait"} => task[r] \in {"ready", "lockWait"}
           /\ task'[r] = "dropRow" => task[r] \in {"lockWait", "insert"}
           /\ task[r] = "done" => task'[r] = "gone"
           /\ task[r] \notin {"none", "gone"}
           /\ row[r] # "absent" => row'[r] # "absent"
           /\ row[r] # "timeout" => row'[r] # "timeout"
           /\ row[r] \notin InFlight /\ task[r] # "insert" => row'[r] = row[r]
<1>1. WritingStep(r) /\ Footprint(r)
    BY StepWriting, StepFootprint
<1>2. /\ task \in [Runs -> TaskStates] /\ row \in [Runs -> RowStates]
      /\ cancel \in [Runs -> {"none", "requested", "delivered"}]
      /\ stream \in [Runs -> {"none", "open", "closed"}]
      /\ outcome \in [Runs -> Outcomes]
    BY DEF IInv, TypeOK, TypeOKExec
<1>3. PICK s \in TaskStates :
        /\ task' = [task EXCEPT ![r] = s]
        /\ s = "insert" => Streaming(r)
        /\ s \in Begun => \/ task[r] \in Begun
                          \/ task[r] = "insert" /\ row' = InsertRow(row, r)
                          \/ ~Streaming(r) /\ task[r] \in {"ready", "lockWait"}
        /\ s \in {"ready", "lockWait"} => task[r] \in {"ready", "lockWait"}
        /\ s = "dropRow" => task[r] \in {"lockWait", "insert"}
        /\ task[r] = "done" => s = "gone"
        /\ task[r] \notin {"none", "gone"}
        /\ \/ row' = row
           \/ \E u \in {"running", "success", "error", "interrupted"} :
                row' = UpdateStatus(row, r, u)
           \/ task[r] = "insert" /\ row' = InsertRow(row, r)
    BY <1>1 DEF WritingStep, Goto
<1>4. task'[r] = s /\ (row' = InsertRow(row, r) => row'[r] = "pending")
    BY <1>2, <1>3 DEF InsertRow
<1>5. /\ row[r] # "absent" => row'[r] # "absent"
      /\ row[r] # "timeout" => row'[r] # "timeout"
      /\ row[r] \notin InFlight /\ task[r] # "insert" => row'[r] = row[r]
    BY <1>2, <1>3 DEF UpdateStatus, InsertRow
<1>6. ASSUME NEW q \in Runs
      PROVE  /\ Streaming(q)' = Streaming(q)
             /\ creator'[q] = creator[q]
             /\ api'[q] = api[q] /\ apiMode'[q] = apiMode[q]
             /\ q # r => /\ task'[q] = task[q] /\ row'[q] = row[q]
                         /\ stream'[q] = stream[q] /\ outcome'[q] = outcome[q]
                         /\ cancel'[q] = cancel[q]
  <2>1. /\ Streaming(q)' = Streaming(q)
        /\ creator'[q] = creator[q] /\ api'[q] = api[q] /\ apiMode'[q] = apiMode[q]
      BY <1>1 DEF Footprint, Streaming, createVars, apiVars
  <2>2. q # r => task'[q] = task[q] /\ row'[q] = row[q]
      BY <1>2, <1>3 DEF UpdateStatus, InsertRow
  <2>3. q # r => /\ stream'[q] = stream[q] /\ outcome'[q] = outcome[q]
                 /\ cancel'[q] = cancel[q]
      BY <1>1, <1>2 DEF Footprint
  <2> QED BY <2>1, <2>2, <2>3
<1> QED BY <1>3, <1>4, <1>5, <1>6

-----------------------------------------------------------------------------
(***************************************************************************)
(* A cancel that waited keeps its word, whatever the store does.           *)
(***************************************************************************)
\* A run that has a row keeps it, deleted or not ...
LEMMA InsertedStep ==
    ASSUME IInv, Unwritten, Inserted, [Next]_vars
    PROVE  Inserted'
<1>1. ASSUME NEW r \in Runs, TaskStep(r), UNCHANGED <<createVars, apiVars, retry, foreign>>
      PROVE  Inserted'
  <2> SUFFICES ASSUME NEW q \in Runs
               PROVE  /\ task'[q] = "insert" => Streaming(q)'
                      /\ HasRow(q)' => row'[q] # "absent"
                      /\ row'[q] # "timeout"
      BY DEF Inserted
  <2>1. CASE q # r
      BY <1>1, <2>1, TaskEffect DEF Inserted, HasRow
  <2>2. CASE q = r
    <3>1. HasRow(r)' => HasRow(r) \/ (task[r] = "insert" /\ row'[r] = "pending")
        BY <1>1, TaskEffect DEF HasRow, Inserted
    <3> QED BY <1>1, <2>2, <3>1, TaskEffect DEF Inserted
  <2> QED BY <2>1, <2>2
<1>2. ASSUME NEW r \in Runs, HandlerStep(r)
      PROVE  Inserted'
  <2> SUFFICES ASSUME NEW q \in Runs
               PROVE  /\ task'[q] = "insert" => Streaming(q)'
                      /\ HasRow(q)' => row'[q] # "absent"
                      /\ row'[q] # "timeout"
      BY DEF Inserted
  <2>1. api'[q] # "idle" => api[q] # "idle" \/ (row'[q] = row[q] /\ row[q] \in InFlight)
    <3>1. ApiMove(r)
        BY <1>2, HandlerApiMove
    <3> QED BY <3>1 DEF ApiMove
  <2>2. HasRow(q)' => HasRow(q) \/ row[q] \in InFlight \/ row'[q] = "pending"
      BY <1>2, <2>1, HandlerEffect DEF HasRow, Begun
  <2>3. row[q] # "absent" => row'[q] # "absent"
      BY <1>2, HandlerEffect
  <2>4. row'[q] # "timeout"
      BY <1>2, HandlerEffect DEF Inserted
  <2>5. task'[q] = "insert" => Streaming(q)'
      BY <1>2, HandlerEffect DEF Inserted
  <2> QED BY <2>2, <2>3, <2>4, <2>5 DEF Inserted, InFlight
<1>3. CASE UNCHANGED vars
    BY <1>3 DEF Inserted, HasRow, Streaming, vars, execVars, apiVars
<1> QED BY <1>1, <1>2, <1>3, NextCases

\* ... so what a cancel request wrote, or found written, stays.
LEMMA WordStep ==
    ASSUME IInv, Unwritten, Inserted, Word, [Next]_vars
    PROVE  Word'
<1>1. ASSUME NEW r \in Runs, TaskStep(r), UNCHANGED <<createVars, apiVars, retry, foreign>>
      PROVE  Word'
  <2> SUFFICES ASSUME NEW q \in Runs
               PROVE  /\ api'[q] \in {"delete", "backstop"} =>
                           Unwound(q)' /\ (apiMode'[q] = "rollback" <=> api'[q] = "delete")
                      /\ api'[q] = "cancelled" /\ apiMode'[q] # "interrupt" =>
                           /\ Unwound(q)'
                           /\ row'[q] \notin InFlight
                           /\ apiMode'[q] = "rollback" => row'[q] = "deleted"
      BY DEF Word
  <2>1. Unwound(q) => Unwound(q)' /\ (row[q] \notin InFlight => row'[q] = row[q])
      BY <1>1, TaskEffect DEF Unwound
  <2> QED BY <1>1, <2>1, TaskEffect DEF Word
<1>2. ASSUME NEW r \in Runs, HandlerStep(r)
      PROVE  Word'
  <2> SUFFICES ASSUME NEW q \in Runs
               PROVE  /\ api'[q] \in {"delete", "backstop"} =>
                           Unwound(q)' /\ (apiMode'[q] = "rollback" <=> api'[q] = "delete")
                      /\ api'[q] = "cancelled" /\ apiMode'[q] # "interrupt" =>
                           /\ Unwound(q)'
                           /\ row'[q] \notin InFlight
                           /\ apiMode'[q] = "rollback" => row'[q] = "deleted"
      BY DEF Word
  <2>1. Unwound(q) => Unwound(q)'
      BY <1>2, HandlerEffect DEF Unwound
  <2>2. api[q] # "idle" => row[q] # "absent"
      BY DEF Inserted, HasRow
  <2>3. row[q] # "absent" /\ row[q] \notin InFlight => row'[q] \in {row[q], "deleted"}
      BY <1>2, HandlerEffect
  <2>4. ApiMove(r)
      BY <1>2, HandlerApiMove
  <2>5. row \in [Runs -> RowStates]
      BY DEF IInv, TypeOK, TypeOKExec
  <2>6. CASE api'[q] = api[q] /\ apiMode'[q] = apiMode[q]
      BY <2>1, <2>2, <2>3, <2>6 DEF Word, InFlight
  <2>7. CASE q = r /\ api'[r] \in {"act", "wait", "conflict", "failed"}
      BY <2>7
  <2>8. CASE /\ q = r /\ apiMode'[r] = apiMode[r]
             /\ api'[r] = "cancelled" /\ apiMode[r] = "interrupt"
      BY <2>8
  <2>9. CASE /\ q = r /\ apiMode'[r] = apiMode[r]
             /\ api'[r] = IF apiMode[r] = "rollback" THEN "delete" ELSE "backstop"
             /\ Unwound(r)
      BY <2>1, <2>9
  <2>10. CASE /\ q = r /\ apiMode'[r] = apiMode[r]
              /\ api[r] \in {"delete", "backstop"} /\ api'[r] = "cancelled"
              /\ row' = IF api[r] = "delete" THEN DeleteRow(row, r)
                        ELSE UpdateStatus(row, r, "interrupted")
    <3>1. /\ row[r] # "absent" /\ Unwound(r)
          /\ apiMode[r] = "rollback" <=> api[r] = "delete"
        BY <2>2, <2>10 DEF Word
    <3>2. row'[r] \notin InFlight /\ (api[r] = "delete" => row'[r] = "deleted")
        BY <2>5, <2>10, <3>1 DEF DeleteRow, UpdateStatus, InFlight
    <3> QED BY <2>1, <2>10, <3>1, <3>2
  <2> QED BY <2>4, <2>6, <2>7, <2>8, <2>9, <2>10 DEF ApiMove
<1>3. CASE UNCHANGED vars
    BY <1>3 DEF Word, Unwound, vars, execVars, apiVars
<1> QED BY <1>1, <1>2, <1>3, NextCases

\* Rows are there when they are relied on, in every behaviour.
LEMMA InsertedInvariance == Spec => [](IInv /\ Unwritten /\ Inserted)
<1>1. Init => Unwritten /\ Inserted
    BY RunsAssumption DEF Init, ExecInit, Unwritten, Inserted, HasRow, Begun
<1>2. IInv /\ Unwritten /\ Inserted /\ [Next]_vars => Unwritten' /\ Inserted'
    BY InvUnwritten, InsertedStep
<1> QED BY <1>1, <1>2, Invariance, PTL DEF Spec

\* A cancel call answered after waiting: the run is over and its row terminal,
\* or gone after a rollback, for any failures of the store.
THEOREM CancelsKeepTheirWord == Spec => []CancelKeepsItsWord
<1>1. Init => Word
    BY DEF Init, Word
<1>2. IInv /\ Unwritten /\ Inserted /\ Word /\ [Next]_vars => Word'
    BY WordStep
<1>3. Word => CancelKeepsItsWord
    BY DEF Word, CancelKeepsItsWord, Unwound
<1> QED BY <1>1, <1>2, <1>3, InsertedInvariance, PTL DEF Spec
-----------------------------------------------------------------------------
(***************************************************************************)
(* Streams and rows end alike, when no store call fails.                   *)
(***************************************************************************)
\* The task of a run tells its tale to the end ...
LEMMA TaleTask ==
    ASSUME MaxFaults = 0, IInv, Unwritten, Inserted, Published, NEW r \in Runs, Tale(r),
           TaskStep(r), UNCHANGED <<createVars, apiVars, retry, foreign>>
    PROVE  Tale(r)'
<1>a. ~Raises(r)
    BY DEF Raises, IInv, TypeOK, TypeOKExec
<1>b. /\ row[r] \in RowStates /\ row[r] # "timeout"
      /\ task[r] \in Begun => row[r] # "absent"
      /\ task[r] = "insert" \/ (Streaming(r) /\ task[r] \in {"ready", "lockWait"}) =>
           row[r] = "absent"
    BY DEF IInv, TypeOK, TypeOKExec, Inserted, HasRow, Unwritten
<1>c. /\ task[r] \notin {"ended", "gone"} => stream[r] # "closed"
      /\ outcome[r] \in {"none", "success", "error", "interrupted"}
    BY DEF Published, IInv, TypeOK, TypeOKExec, Outcomes
<1>d. Streaming(r)' = Streaming(r) /\ creator'[r] = creator[r]
    BY TaskEffect
<1>e. /\ r \in DOMAIN task /\ r \in DOMAIN row /\ r \in DOMAIN stream
      /\ r \in DOMAIN outcome /\ r \in DOMAIN cancel
    BY DEF IInv, TypeOK, TypeOKExec
<1> USE DEF Tale, Goto, Resumes, Unwinds, Aborts, UpdateStatus, InsertRow, RowStates,
            InFlight, Terminal, Begun, registryVars, lockVars, threadVars, streamVars
<1>1. CASE Start(r)
    BY <1>1, <1>a, <1>b, <1>c, <1>d, <1>e DEF Start, FirstHeld
<1>2. CASE NeverRuns(r)
    BY <1>2, <1>a, <1>b, <1>c, <1>d, <1>e DEF NeverRuns
<1>3. CASE Grant(r)
    BY <1>3, <1>a, <1>b, <1>c, <1>d, <1>e DEF Grant, FirstHeld
<1>4. CASE GiveUpLock(r)
    BY <1>4, <1>a, <1>b, <1>c, <1>d, <1>e DEF GiveUpLock
<1>5. CASE DropRow(r)
    BY <1>5, <1>a, <1>b, <1>c, <1>d, <1>e DEF DropRow
<1>6. CASE HandOff(r)
    BY <1>6, <1>a, <1>b, <1>c, <1>d, <1>e DEF HandOff
<1>7. CASE InsertFails(r)
    BY <1>7, <1>a, <1>b, <1>c, <1>d, <1>e DEF InsertFails
<1>8. CASE StartProducer(r)
    BY <1>8, <1>a, <1>b, <1>c, <1>d, <1>e DEF StartProducer
<1>9. CASE Claim(r)
    BY <1>9, <1>a, <1>b, <1>c, <1>d, <1>e DEF Claim
<1>10. CASE Lost(r)
    BY <1>10, <1>a, <1>b, <1>c, <1>d, <1>e DEF Lost, Leave, Publish, Persisted
<1>11. CASE Busy(r)
    BY <1>11, <1>a, <1>b, <1>c, <1>d, <1>e DEF Busy
<1>12. CASE Graph(r)
    BY <1>12, <1>a, <1>b, <1>c, <1>d, <1>e DEF Graph
<1>13. CASE Finish(r)
    BY <1>13, <1>a, <1>b, <1>c, <1>d, <1>e DEF Finish
<1>14. CASE Settle(r)
    BY <1>14, <1>a, <1>b, <1>c, <1>d, <1>e DEF Settle, SettleDone, Leave, Publish
<1>15. CASE Tokens(r)
    BY <1>15, <1>a, <1>b, <1>c, <1>d, <1>e DEF Tokens, Leave, Publish
<1>16. CASE FailMark(r)
    BY <1>16, <1>a, <1>b, <1>c, <1>d, <1>e
        DEF FailMark, HandlerRaises, AbandonHandler, Leave
<1>17. CASE FailLost(r)
    BY <1>17, <1>a, <1>b, <1>c, <1>d, <1>e
        DEF FailLost, HandlerRaises, AbandonHandler, Leave, Publish, Persisted
<1>18. CASE FailThread(r)
    BY <1>18, <1>a, <1>b, <1>c, <1>d, <1>e
        DEF FailThread, HandlerRaises, AbandonHandler, Leave, Publish
<1>19. CASE IntMark(r)
    BY <1>19, <1>a, <1>b, <1>c, <1>d, <1>e DEF IntMark, Conclude, CloseRun, Leave, Publish
<1>20. CASE IntThread(r)
    BY <1>20, <1>a, <1>b, <1>c, <1>d, <1>e DEF IntThread, Conclude, CloseRun, Leave, Publish
<1>21. CASE IntLost(r)
    BY <1>21, <1>a, <1>b, <1>c, <1>d, <1>e
        DEF IntLost, Conclude, CloseRun, Leave, Publish, Persisted
<1>22. CASE Resettle(r)
    BY <1>22, <1>a, <1>b, <1>c, <1>d, <1>e DEF Resettle, Conclude, CloseRun, Leave, Publish
<1>23. CASE Finalize(r)
    BY <1>23, <1>a, <1>b, <1>c, <1>d, <1>e DEF Finalize, CloseRun
<1>24. CASE Forget(r)
    BY <1>24, <1>a, <1>b, <1>c, <1>d, <1>e DEF Forget
<1> QED
    BY <1>1, <1>2, <1>3, <1>4, <1>5, <1>6, <1>7, <1>8, <1>9, <1>10, <1>11, <1>12,
       <1>13, <1>14, <1>15, <1>16, <1>17, <1>18, <1>19, <1>20, <1>21, <1>22, <1>23,
       <1>24 DEF TaskStep
\* ... and the handlers change only rows that are in flight.
LEMMA TalesStep ==
    ASSUME MaxFaults = 0, IInv, Unwritten, Inserted, Published, Tales, [Next]_vars
    PROVE  Tales'
<1>1. ASSUME NEW r \in Runs, TaskStep(r), UNCHANGED <<createVars, apiVars, retry, foreign>>
      PROVE  Tales'
  <2>1. Tale(r)'
      BY <1>1, TaleTask DEF Tales
  <2>2. ASSUME NEW q \in Runs, q # r
        PROVE  Tale(q)'
      BY <1>1, <2>2, TaskEffect DEF Tales, Tale
  <2> QED BY <2>1, <2>2 DEF Tales
<1>2. ASSUME NEW r \in Runs, HandlerStep(r), NEW q \in Runs
      PROVE  Tale(q)'
  <2>1. /\ Streaming(q)' = Streaming(q)
        /\ stream'[q] = stream[q] /\ outcome'[q] = outcome[q]
        /\ creator[q] = "left" => creator'[q] = "left"
        /\ cancel[q] = "delivered" => cancel'[q] = "delivered" \/ creator'[q] = "left"
      BY <1>2, HandlerEffect
  <2>2. row[q] # "absent" => /\ row'[q] \in {row[q], "deleted", "error", "interrupted"}
                             /\ row[q] \notin InFlight => row'[q] \in {row[q], "deleted"}
      BY <1>2, HandlerEffect
  <2>3. row[q] = "absent" => row'[q] \in {"absent", "pending"}
      BY <1>2, HandlerEffect
  <2>4. \/ task'[q] = task[q]
        \/ task[q] = "done" /\ task'[q] = "gone"
        \/ task[q] = "none" /\ task'[q] = "ready" /\ row[q] = "absent"
      BY <1>2, HandlerEffect
  <2>5. /\ task[q] \in Begun => row[q] # "absent"
        /\ task[q] = "ended" \/ stream[q] = "closed" =>
             outcome[q] \in {"success", "error", "interrupted"}
        /\ task[q] = "none" => stream[q] # "closed"
      BY DEF Inserted, HasRow, Published, IInv, TypeOK, TypeOKExec, Outcomes
  <2>6. row[q] = "absent" /\ row'[q] # "absent" => creator[q] \in Before
    <3>1. HandlerFootprint(r)
        BY <1>2, HandlerStepFootprint DEF IInv
    <3>2. HandlerWriting(r)
        BY <1>2, HandlerStepWriting
    <3>3. row \in [Runs -> RowStates]
        BY DEF IInv, TypeOK, TypeOKExec
    <3>4. \A v : row[q] = "absent" => DeleteRow(row, v)[q] = "absent"
        BY <3>3, RowOperators
    <3>5. \A v, u : row[q] = "absent" => UpdateStatus(row, v, u)[q] = "absent"
        BY <3>3 DEF UpdateStatus, InFlight
    <3>6. q # r => InsertRow(row, r)[q] = row[q]
        BY <3>3, RowOperators
    <3> QED BY <3>2, <3>4, <3>5, <3>6 DEF HandlerWriting, Before
  <2>7. creator[q] \in Before => task[q] = "none"
      BY DEF IInv, Fresh
  <2>8. Tale(q)
      BY DEF Tales
  <2>9. CASE task'[q] = task[q]
    <3>1. /\ task[q] \in {"lost", "failLost", "intLost"} => row'[q] \notin InFlight
          /\ task[q] \in {"settle", "tokens", "resettle"} => row'[q] \in {"success", "deleted"}
          /\ task[q] = "failThread" => row'[q] \in {"error", "deleted"}
          /\ task[q] = "intThread" => row'[q] \in {"interrupted", "deleted"}
        BY <2>2, <2>5, <2>8 DEF Tale, Begun, InFlight
    <3>2. row[q] # "success" => row'[q] # "success"
        BY <2>2, <2>3
    <3>3. task[q] = "ended" \/ stream[q] = "closed" => row'[q] \in {outcome[q], "deleted"}
        BY <2>2, <2>5, <2>8 DEF Tale, InFlight
    <3>4. task[q] \in {"done", "gone"} /\ row[q] \notin InFlight => row'[q] \notin InFlight
        BY <2>2, <2>6, <2>7 DEF InFlight
    <3> QED BY <2>1, <2>8, <2>9, <3>1, <3>2, <3>3, <3>4 DEF Tale
  <2>10. CASE task[q] = "done" /\ task'[q] = "gone"
    <3>1. row[q] \notin InFlight => row'[q] \notin InFlight
        BY <2>2, <2>6, <2>7, <2>10 DEF InFlight
    <3>2. stream[q] # "closed"
        BY <2>10 DEF Published
    <3> QED BY <2>1, <2>8, <2>10, <3>1, <3>2 DEF Tale
  <2>11. CASE task[q] = "none" /\ task'[q] = "ready" /\ row[q] = "absent"
      BY <2>1, <2>3, <2>5, <2>11 DEF Tale
  <2> QED BY <2>4, <2>9, <2>10, <2>11
<1>3. CASE UNCHANGED vars
    BY <1>3 DEF Tales, Tale, Streaming, vars, execVars, createVars
<1>4. ASSUME NEW r \in Runs, HandlerStep(r)
      PROVE  Tales'
    BY <1>2, <1>4 DEF Tales
<1> QED BY <1>1, <1>3, <1>4, NextCases

-----------------------------------------------------------------------------
(***************************************************************************)
(* Success never strands its thread, when no store call fails.             *)
(***************************************************************************)
\* A task that leaves its thread busy and forgotten answers for it, or found
\* it so and answers as before.
LEMMA TaskRemembers ==
    ASSUME MaxFaults = 0, IInv, Unwritten, Inserted, NEW r \in Runs, Tale(r),
           TaskStep(r), thread' = "busy", ~unsettled'
    PROVE  Answers(r)' \/ (thread = "busy" /\ ~unsettled /\ (Answers(r) => Answers(r)'))
<1>a. ~Raises(r)
    BY DEF Raises, IInv, TypeOK, TypeOKExec
<1>b. /\ row[r] \in RowStates /\ row[r] # "timeout"
      /\ task[r] \in Begun => row[r] # "absent"
      /\ task[r] = "insert" \/ (Streaming(r) /\ task[r] \in {"ready", "lockWait"}) =>
           row[r] = "absent"
    BY DEF IInv, TypeOK, TypeOKExec, Inserted, HasRow, Unwritten
<1>e. /\ r \in DOMAIN task /\ r \in DOMAIN row
      /\ unsettled \in BOOLEAN /\ unsettled' = FALSE
    BY StepFootprint DEF IInv, TypeOK, TypeOKExec, Footprint
<1> USE DEF Tale, Answers, Goto, Resumes, Unwinds, Aborts, UpdateStatus, InsertRow,
            RowStates, InFlight, Terminal, Begun, Settled, lockVars, threadVars, streamVars
<1>1. CASE Start(r)
    BY <1>1, <1>a, <1>b, <1>e DEF Start, FirstHeld
<1>2. CASE NeverRuns(r)
    BY <1>2, <1>a, <1>b, <1>e DEF NeverRuns
<1>3. CASE Grant(r)
    BY <1>3, <1>a, <1>b, <1>e DEF Grant, FirstHeld
<1>4. CASE GiveUpLock(r)
    BY <1>4, <1>a, <1>b, <1>e DEF GiveUpLock
<1>5. CASE DropRow(r)
    BY <1>5, <1>a, <1>b, <1>e DEF DropRow
<1>6. CASE HandOff(r)
    BY <1>6, <1>a, <1>b, <1>e DEF HandOff
<1>7. CASE InsertFails(r)
    BY <1>7, <1>a, <1>b, <1>e DEF InsertFails
<1>8. CASE StartProducer(r)
    BY <1>8, <1>a, <1>b, <1>e DEF StartProducer
<1>9. CASE Claim(r)
    BY <1>9, <1>a, <1>b, <1>e DEF Claim
<1>10. CASE Lost(r)
    BY <1>10, <1>a, <1>b, <1>e DEF Lost, Leave, Publish, Persisted
<1>11. CASE Busy(r)
    BY <1>11, <1>a, <1>b, <1>e DEF Busy
<1>12. CASE Graph(r)
    BY <1>12, <1>a, <1>b, <1>e DEF Graph
<1>13. CASE Finish(r)
    BY <1>13, <1>a, <1>b, <1>e DEF Finish
<1>14. CASE Settle(r)
    BY <1>14, <1>a, <1>b, <1>e DEF Settle, SettleDone, Leave, Publish
<1>15. CASE Tokens(r)
    BY <1>15, <1>a, <1>b, <1>e DEF Tokens, Leave, Publish
<1>16. CASE FailMark(r)
    BY <1>16, <1>a, <1>b, <1>e DEF FailMark, HandlerRaises, AbandonHandler, Leave
<1>17. CASE FailLost(r)
    BY <1>17, <1>a, <1>b, <1>e
        DEF FailLost, HandlerRaises, AbandonHandler, Leave, Publish, Persisted
<1>18. CASE FailThread(r)
    BY <1>18, <1>a, <1>b, <1>e DEF FailThread, HandlerRaises, AbandonHandler, Leave, Publish
<1>19. CASE IntMark(r)
    BY <1>19, <1>a, <1>b, <1>e DEF IntMark, Conclude, CloseRun, Leave, Publish
<1>20. CASE IntThread(r)
    BY <1>20, <1>a, <1>b, <1>e DEF IntThread, Conclude, CloseRun, Leave, Publish
<1>21. CASE IntLost(r)
    BY <1>21, <1>a, <1>b, <1>e DEF IntLost, Conclude, CloseRun, Leave, Publish, Persisted
<1>22. CASE Resettle(r)
    BY <1>22, <1>a, <1>b, <1>e DEF Resettle, Conclude, CloseRun, Leave, Publish
<1>23. CASE Finalize(r)
    BY <1>23, <1>a, <1>b, <1>e DEF Finalize, CloseRun
<1>24. CASE Forget(r)
    BY <1>24, <1>a, <1>b, <1>e DEF Forget
<1> QED
    BY <1>1, <1>2, <1>3, <1>4, <1>5, <1>6, <1>7, <1>8, <1>9, <1>10, <1>11, <1>12,
       <1>13, <1>14, <1>15, <1>16, <1>17, <1>18, <1>19, <1>20, <1>21, <1>22, <1>23,
       <1>24 DEF TaskStep

\* So some run always answers for a thread that is busy and forgotten.
LEMMA RememberedStep ==
    ASSUME MaxFaults = 0, IInv, Unwritten, Inserted, Tales, Remembered, [Next]_vars
    PROVE  Remembered'
<1> SUFFICES ASSUME thread' = "busy", ~unsettled'
             PROVE  \E q \in Runs : Answers(q)'
    BY DEF Remembered
<1>1. ASSUME NEW r \in Runs, TaskStep(r), UNCHANGED <<createVars, apiVars, retry, foreign>>
      PROVE  \E q \in Runs : Answers(q)'
  <2>1. Answers(r)' \/ (thread = "busy" /\ ~unsettled /\ (Answers(r) => Answers(r)'))
      BY <1>1, TaskRemembers DEF Tales
  <2>2. \A q \in Runs : q # r /\ Answers(q) => Answers(q)'
      BY <1>1, TaskEffect DEF Answers
  <2> QED BY <2>1, <2>2 DEF Remembered
<1>2. ASSUME NEW r \in Runs, HandlerStep(r)
      PROVE  \E q \in Runs : Answers(q)'
  <2>1. thread = "busy" /\ ~unsettled
      BY <1>2, HandlerStepWriting DEF HandlerWriting, Settled
  <2>2. PICK q \in Runs : Answers(q)
      BY <2>1 DEF Remembered
  <2>3. CASE row[q] \notin {"absent", "success"}
    <3>1. row'[q] \in {row[q], "deleted", "error", "interrupted"}
        BY <1>2, <2>3, HandlerEffect
    <3> QED BY <2>3, <3>1 DEF Answers
  <2>4. CASE task[q] \in {"intMark", "intLost"}
    <3>1. task'[q] = task[q]
        BY <1>2, <2>4, HandlerEffect
    <3> QED BY <2>4, <3>1 DEF Answers
  <2> QED BY <2>2, <2>3, <2>4 DEF Answers
<1>3. CASE UNCHANGED vars
    BY <1>3 DEF Remembered, Answers, vars, execVars
<1> QED BY <1>1, <1>2, <1>3, NextCases

\* Terminal events are published where they should be, at every step.
LEMMA PublishedStep == IInv /\ Published /\ [Next]_vars => Published'
<1> SUFFICES ASSUME IInv, Published, [Next]_vars PROVE Published'
    OBVIOUS
<1>1. CASE UNCHANGED vars
    BY <1>1 DEF Published, vars, execVars
<1> QED BY <1>1, TaskPublished, HandlerPublished, NextCases

\* Every run's tale is true in every behaviour without failing store calls.
LEMMA TalesInvariance ==
    ASSUME MaxFaults = 0
    PROVE  Spec => [](IInv /\ Unwritten /\ Inserted /\ Published /\ Tales)
<1>1. Init => Published /\ Tales
    BY DEF Init, ExecInit, Published, Tales, Tale
<1>2. IInv /\ Unwritten /\ Inserted /\ Published /\ Tales /\ [Next]_vars
        => Published' /\ Tales'
    BY PublishedStep, TalesStep
<1> QED BY <1>1, <1>2, InsertedInvariance, PTL DEF Spec

\* The terminal event of a closed stream is the persisted outcome, as long as
\* no store call fails.
THEOREM TerminalEventsMatchRows ==
    ASSUME MaxFaults = 0
    PROVE  Spec => []TerminalEventMatchesRow
<1>1. Tales => TerminalEventMatchesRow
    BY DEF Tales, Tale, TerminalEventMatchesRow
<1> QED BY <1>1, TalesInvariance, PTL

\* A streaming run that is over leaves no row in flight, unless its client
\* left while it was admitted, as long as no store call fails.
THEOREM StreamedRunsSettleRows ==
    ASSUME MaxFaults = 0
    PROVE  Spec => []StreamedRunSettlesRow
<1>1. Tales => StreamedRunSettlesRow
    BY DEF Tales, Tale, StreamedRunSettlesRow
<1> QED BY <1>1, TalesInvariance, PTL

\* A thread left busy with nothing live and only successes on it is queued
\* for the settle retry, as long as no store call fails.
THEOREM SuccessesAreRemembered ==
    ASSUME MaxFaults = 0
    PROVE  Spec => []SuccessNeverStrandsThread
<1>1. Init => Remembered
    BY DEF Init, ExecInit, Remembered
<1>2. IInv /\ Unwritten /\ Inserted /\ Tales /\ Remembered /\ [Next]_vars => Remembered'
    BY RememberedStep
<1>3. Remembered => SuccessNeverStrandsThread
    BY DEF Remembered, Answers, SuccessNeverStrandsThread, Live, Over
<1> QED BY <1>1, <1>2, <1>3, TalesInvariance, PTL DEF Spec
=============================================================================
