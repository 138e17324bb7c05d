----------------------------- MODULE RunsProofs -----------------------------
(***************************************************************************)
(* Theorems about Runs, for any number of runs and any bounds.             *)
(*                                                                         *)
(* The actions are many and small, so each proof goes in two stages: a     *)
(* lemma that goes through the actions once and says what any of them may  *)
(* do to the variables of interest (its footprint), and the invariance     *)
(* argument, which sees the footprint only.                                *)
(***************************************************************************)
EXTENDS Runs, SequenceTheorems, TLAPS

\* A waiter leaving the middle of a queue leaves a queue.
LEMMA RemoveAtType ==
    ASSUME NEW S, NEW q \in Seq(S), NEW i \in 1..Len(q)
    PROVE  RemoveAt(q, i) \in Seq(S)
<1>1. SubSeq(q, 1, i - 1) \in Seq(S)
    BY SubSeqProperties
<1>2. SubSeq(q, i + 1, Len(q)) \in Seq(S)
    BY SubSeqProperties
<1> QED BY <1>1, <1>2, ConcatProperties DEF RemoveAt

-----------------------------------------------------------------------------
(* What a step of a run's task may change, and how.                        *)

Footprint(r) ==
    /\ request' = request
    /\ task[r] \notin {"none", "gone"}
    /\ \E s \in TaskStates : Goto(r, s)
    /\ tracked' = tracked \/ \E s \in {"none", "producer"} : tracked' = [tracked EXCEPT ![r] = s]
    /\ callback' = callback \/ callback' = [callback EXCEPT ![r] = TRUE]
    /\ cancel' = cancel \/ cancel' = [cancel EXCEPT ![r] = "delivered"]
    /\ lockOwner' \in {lockOwner, r, NoRun}
    /\ \/ lockQueue' \in {lockQueue, Append(lockQueue, r)}
       \/ lockQueue # <<>> /\ lockQueue' = Tail(lockQueue)
       \/ \E i \in 1..Len(lockQueue) : lockQueue' = RemoveAt(lockQueue, i)
    /\ \/ row' \in {row, InsertRow(row, r)}
       \/ \E s \in RowStates : row' = UpdateStatus(row, r, s)
    /\ thread' = thread \/ thread' \in Statuses
    /\ unsettled' = unsettled \/ unsettled' \in BOOLEAN
    /\ stream' = stream \/ \E s \in {"open", "closed"} : stream' = [stream EXCEPT ![r] = s]
    /\ outcome' = outcome \/ \E s \in Outcomes : outcome' = [outcome EXCEPT ![r] = s]
    /\ faults' = faults \/ (faults < MaxFaults /\ faults' = faults + 1)

\* Every action of RunExecution has that footprint.
LEMMA StepFootprint ==
    ASSUME NEW r \in Runs, TaskStep(r)
    PROVE  Footprint(r)
<1> USE DEF Footprint, Resumes, Raises, Unwinds, Aborts, TaskStates, Waiting, Holding,
            Dropping, Over, registryVars, lockVars, threadVars, streamVars, RowStates,
            Terminal, InFlight
<1>1. CASE Start(r)
    BY <1>1 DEF Start, FirstHeld
<1>2. CASE NeverRuns(r)
    BY <1>2 DEF NeverRuns
<1>3. CASE Grant(r)
    BY <1>3 DEF Grant, FirstHeld
<1>4. CASE GiveUpLock(r)
    BY <1>4 DEF GiveUpLock
<1>5. CASE DropRow(r)
    BY <1>5 DEF DropRow
<1>6. CASE HandOff(r)
    BY <1>6 DEF HandOff
<1>7. CASE InsertFails(r)
    BY <1>7 DEF InsertFails
<1>8. CASE StartProducer(r)
    BY <1>8 DEF StartProducer
<1>9. CASE Claim(r)
    BY <1>9 DEF Claim
<1>10. CASE Lost(r)
    BY <1>10 DEF Lost, Leave, Publish, Persisted, Outcomes
<1>11. CASE Busy(r)
    BY <1>11 DEF Busy, Statuses
<1>12. CASE Graph(r)
    BY <1>12 DEF Graph, Goto
<1>13. CASE Finish(r)
    BY <1>13 DEF Finish
<1>14. CASE Settle(r)
    BY <1>14 DEF Settle, SettleDone, Leave, Publish, Statuses, Settled, Outcomes
<1>15. CASE Tokens(r)
    BY <1>15 DEF Tokens, Leave, Publish, Outcomes
<1>16. CASE FailMark(r)
    BY <1>16 DEF FailMark, HandlerRaises, AbandonHandler, Leave, Publish, Outcomes
<1>17. CASE FailLost(r)
    BY <1>17 DEF FailLost, HandlerRaises, AbandonHandler, Leave, Publish, Outcomes,
                 Persisted
<1>18. CASE FailThread(r)
    BY <1>18 DEF FailThread, HandlerRaises, AbandonHandler, Leave, Publish, Outcomes,
                 Statuses
<1>19. CASE IntMark(r)
    BY <1>19 DEF IntMark, Conclude, CloseRun, Leave, Publish, Outcomes
<1>20. CASE IntThread(r)
    BY <1>20 DEF IntThread, Conclude, CloseRun, Leave, Publish, Outcomes, Statuses
<1>21. CASE IntLost(r)
    BY <1>21 DEF IntLost, Conclude, CloseRun, Leave, Publish, Outcomes, Persisted
<1>22. CASE Resettle(r)
    BY <1>22 DEF Resettle, Conclude, CloseRun, Leave, Publish, Outcomes, Statuses, Settled
<1>23. CASE Finalize(r)
    BY <1>23 DEF Finalize, CloseRun
<1>24. CASE Forget(r)
    BY <1>24 DEF Forget
<1> HIDE DEF Footprint
<1> QED
    BY <1>1, <1>2, <1>3, <1>4, <1>5, <1>6, <1>7, <1>8, <1>9, <1>10, <1>11, <1>12,
       <1>13, <1>14, <1>15, <1>16, <1>17, <1>18, <1>19, <1>20, <1>21, <1>22, <1>23,
       <1>24 DEF TaskStep

\* A step with that footprint keeps the variables of RunExecution typed.
LEMMA FootprintType ==
    ASSUME TypeOKExec, NEW r \in Runs, Footprint(r)
    PROVE  TypeOKExec'
<1>1. task' \in [Runs -> TaskStates]
    BY DEF Footprint, Goto, TypeOKExec
<1>2. tracked' \in [Runs -> {"none", "run", "admission", "producer"}]
    BY DEF Footprint, TypeOKExec
<1>3. callback' \in [Runs -> BOOLEAN]
    BY DEF Footprint, TypeOKExec
<1>4. cancel' \in [Runs -> {"none", "requested", "delivered"}]
    BY DEF Footprint, TypeOKExec
<1>5. lockOwner' \in Runs \cup {NoRun}
    BY DEF Footprint, TypeOKExec
<1>6. lockQueue' \in Seq(Runs)
    <2>1. lockQueue \in Seq(Runs)
        BY DEF TypeOKExec
    <2>2. Append(lockQueue, r) \in Seq(Runs)
        BY <2>1, AppendProperties
    <2>3. lockQueue # <<>> => Tail(lockQueue) \in Seq(Runs)
        BY <2>1, HeadTailProperties
    <2>4. \A i \in 1..Len(lockQueue) : RemoveAt(lockQueue, i) \in Seq(Runs)
        BY <2>1, RemoveAtType
    <2> QED BY <2>1, <2>2, <2>3, <2>4 DEF Footprint
<1>7. row' \in [Runs -> RowStates]
    <2>1. "pending" \in RowStates /\ row \in [Runs -> RowStates]
        BY DEF RowStates, InFlight, TypeOKExec
    <2> QED BY <2>1 DEF Footprint, InsertRow, UpdateStatus
<1>8. thread' \in Statuses /\ unsettled' \in BOOLEAN
    BY DEF Footprint, TypeOKExec
<1>9. stream' \in [Runs -> {"none", "open", "closed"}]
    BY DEF Footprint, TypeOKExec
<1>10. outcome' \in [Runs -> Outcomes]
    BY DEF Footprint, TypeOKExec
<1>11. faults' \in 0..MaxFaults
    BY MaxFaultsAssumption DEF Footprint, TypeOKExec
<1>12. request' \in [Runs -> RequestType]
    BY DEF Footprint, TypeOKExec
<1> QED BY <1>1, <1>2, <1>3, <1>4, <1>5, <1>6, <1>7, <1>8, <1>9, <1>10, <1>11,
           <1>12 DEF TypeOKExec

\* Where a step leaves the run, and what that means for the execution lock.
LockStep(r) ==
    \E s \in TaskStates :
        /\ Goto(r, s)
        /\ \/ task[r] \in Holding /\ s \in Holding /\ lockOwner' = lockOwner
           \/ task[r] \in Holding /\ s \notin Holding /\ lockOwner' = NoRun
           \/ task[r] \notin Holding /\ s \notin Holding /\ lockOwner' = lockOwner
           \/ task[r] \notin Holding /\ s \in Holding /\ lockOwner = NoRun /\ lockOwner' = r

\* Every action takes the lock when it enters Holding, from nobody, and gives
\* it up when it leaves Holding.
LEMMA StepLock ==
    ASSUME NEW r \in Runs, TaskStep(r)
    PROVE  LockStep(r)
<1> USE DEF LockStep, Aborts, TaskStates, Waiting, Holding, Dropping, Over, lockVars
<1>1. CASE Start(r)
    BY <1>1 DEF Start, FirstHeld, Uncontended
<1>2. CASE NeverRuns(r)
    BY <1>2 DEF NeverRuns
<1>3. CASE Grant(r)
    BY <1>3 DEF Grant, FirstHeld
<1>4. CASE GiveUpLock(r)
    BY <1>4 DEF GiveUpLock
<1>5. CASE DropRow(r)
    BY <1>5 DEF DropRow
<1>6. CASE HandOff(r)
    BY <1>6 DEF HandOff
<1>7. CASE InsertFails(r)
    BY <1>7 DEF InsertFails
<1>8. CASE StartProducer(r)
    BY <1>8 DEF StartProducer
<1>9. CASE Claim(r)
    BY <1>9 DEF Claim
<1>10. CASE Lost(r)
    BY <1>10 DEF Lost, Leave, Publish, Persisted, Outcomes
<1>11. CASE Busy(r)
    BY <1>11 DEF Busy, Statuses
<1>12. CASE Graph(r)
    BY <1>12 DEF Graph, Goto
<1>13. CASE Finish(r)
    BY <1>13 DEF Finish
<1>14. CASE Settle(r)
    BY <1>14 DEF Settle, SettleDone, Leave, Publish, Statuses, Settled, Outcomes
<1>15. CASE Tokens(r)
    BY <1>15 DEF Tokens, Leave, Publish, Outcomes
<1>16. CASE FailMark(r)
    BY <1>16 DEF FailMark, HandlerRaises, AbandonHandler, Leave, Publish, Outcomes
<1>17. CASE FailLost(r)
    BY <1>17 DEF FailLost, HandlerRaises, AbandonHandler, Leave, Publish, Outcomes,
                 Persisted
<1>18. CASE FailThread(r)
    BY <1>18 DEF FailThread, HandlerRaises, AbandonHandler, Leave, Publish, Outcomes,
                 Statuses
<1>19. CASE IntMark(r)
    BY <1>19 DEF IntMark, Conclude, CloseRun, Leave, Publish, Outcomes
<1>20. CASE IntThread(r)
    BY <1>20 DEF IntThread, Conclude, CloseRun, Leave, Publish, Outcomes, Statuses
<1>21. CASE IntLost(r)
    BY <1>21 DEF IntLost, Conclude, CloseRun, Leave, Publish, Outcomes, Persisted
<1>22. CASE Resettle(r)
    BY <1>22 DEF Resettle, Conclude, CloseRun, Leave, Publish, Outcomes, Statuses, Settled
<1>23. CASE Finalize(r)
    BY <1>23 DEF Finalize, CloseRun
<1>24. CASE Forget(r)
    BY <1>24 DEF Forget
<1> HIDE DEF LockStep
<1> QED
    BY <1>1, <1>2, <1>3, <1>4, <1>5, <1>6, <1>7, <1>8, <1>9, <1>10, <1>11, <1>12,
       <1>13, <1>14, <1>15, <1>16, <1>17, <1>18, <1>19, <1>20, <1>21, <1>22, <1>23,
       <1>24 DEF TaskStep

-----------------------------------------------------------------------------
(* What the request handlers, the liveness pass and other workers may      *)
(* change.                                                                 *)

\* A create request that has not spawned anything for its run.
Before == {"idle", "queued", "supersede", "awaitVictim", "deleteVictim", "insert"}

\* They start tasks but never touch the execution lock or a stream.
HandlerFootprint(r) ==
    /\ UNCHANGED <<request, lockOwner, lockQueue, stream, outcome>>
    /\ \E base \in {task, Pruned} :
         \/ /\ task' = base
            /\ \/ creator' = creator
               \/ \E c \in CreatorStates :
                    /\ Await(r, c)
                    /\ c \in Before => creator[r] \in Before
         \/ /\ task' = [base EXCEPT ![r] = "ready"]
            /\ creator[r] \in Before
            /\ \E c \in {"admit", "answered"} : Await(r, c)
    /\ \E base \in {tracked, PrunedTracked} :
         tracked' = base \/ \E s \in {"none", "run", "admission"} : tracked' = [base EXCEPT ![r] = s]
    /\ callback' = callback \/ callback' = [callback EXCEPT ![r] = FALSE]
    /\ cancel' = cancel \/ \E v \in Runs : cancel' = [cancel EXCEPT ![v] = "requested"]
    /\ \/ row' = row
       \/ \E v \in Runs \cup {NoRun} : row' = DeleteRow(row, v)
       \/ \E v \in Runs, s \in RowStates : row' = UpdateStatus(row, v, s)
       \/ /\ creator[r] = "insert" /\ row' = InsertRow(row, r)
          /\ \E c \in CreatorStates \ Before : Await(r, c)
    /\ thread' = thread \/ (retry = "settle" /\ retry' = "idle" /\ thread' \in Statuses)
    /\ unsettled' = unsettled \/ unsettled' \in BOOLEAN
    /\ faults' = faults \/ (faults < MaxFaults /\ faults' = faults + 1)
    /\ victims' = victims \/ \E V \in SUBSET Runs : victims' = [victims EXCEPT ![r] = V]
    /\ victim' = victim \/ \E v \in Runs \cup {NoRun} : victim' = [victim EXCEPT ![r] = v]
    /\ admOwner' \in {admOwner, r, NoRun}
    /\ \/ admQueue' \in {admQueue, Append(admQueue, r)}
       \/ admQueue # <<>> /\ admQueue' = Tail(admQueue)
       \/ \E i \in 1..Len(admQueue) : admQueue' = RemoveAt(admQueue, i)
    /\ api' = api \/ \E s \in ApiStates : api' = [api EXCEPT ![r] = s]
    /\ apiMode' = apiMode \/ \E m \in CancelModes : apiMode' = [apiMode EXCEPT ![r] = m]
    /\ retry' = retry \/ retry' \in {"idle", "rows", "settle"}
    /\ foreign' = foreign \/ (foreign < MaxForeign /\ foreign' = foreign + 1)

\* Every action of Runs that is not a step of a task.
HandlerStep(r) ==
    \/ AdmissionCallback(r) /\ UNCHANGED <<createVars, apiVars, retry, foreign>>
    \/ CreatorStep(r) \/ ApiStep(r) \/ Environment(r) \/ RetryStep

\* Every such action has that footprint.
LEMMA HandlerStepFootprint ==
    ASSUME TypeOK, NEW r \in Runs, HandlerStep(r)
    PROVE  HandlerFootprint(r)
<1>0. /\ victim[r] \in Runs \cup {NoRun}
      /\ victims[r] \subseteq Runs
      /\ "error" \in RowStates /\ "interrupted" \in RowStates
    BY DEF TypeOK, RowStates, Terminal
<1> USE DEF HandlerFootprint, execVars, registryVars, lockVars, threadVars, streamVars,
            createVars, apiVars, Before, CreatorStates, Answered, ApiStates,
            ApiAnswered
<1>1. CASE Arrive(r)
    BY <1>1 DEF Arrive
<1>2. CASE Admit(r)
    <2>1. CASE ActiveRuns = {} \/ request[r].strategy = "enqueue"
        BY <1>2, <2>1 DEF Admit, Enter
    <2>2. CASE ActiveRuns # {} /\ request[r].strategy = "reject"
        BY <1>2, <2>2 DEF Admit
    <2>3. CASE ActiveRuns # {} /\ request[r].strategy \notin {"enqueue", "reject"}
        <3>1. ActiveRuns \subseteq Runs
            BY DEF ActiveRuns
        <3> QED BY <1>2, <2>3, <3>1 DEF Admit
    <2> QED BY <2>1, <2>2, <2>3
<1>3. CASE CancelVictim(r)
    BY <1>3, <1>0 DEF CancelVictim, RequestCancel
<1>4. CASE VictimUnwound(r)
    BY <1>4 DEF VictimUnwound
<1>5. CASE DeleteVictim(r)
    BY <1>5, <1>0 DEF DeleteVictim, StoreRaises, FailCreate
<1>6. CASE Superseded(r)
    BY <1>6 DEF Superseded, Enter
<1>7. CASE Spawn(r)
    BY <1>7 DEF Spawn, StoreRaises, FailCreate, Goto
<1>8. CASE AdmissionAnswers(r)
    BY <1>8 DEF AdmissionAnswers
<1>9. CASE LeaveAdmission(r)
    BY <1>9, <1>0 DEF LeaveAdmission
<1>10. CASE ClientLeaves(r)
    BY <1>10 DEF ClientLeaves, PassCancelOn, RequestCancel
<1>11. CASE ReadForCancel(r)
    BY <1>11 DEF ReadForCancel, Answer
<1>12. CASE ActOnCancel(r)
    BY <1>12 DEF ActOnCancel, RequestCancel, Answer
<1>13. CASE CancelUnwound(r)
    BY <1>13 DEF CancelUnwound, Answer
<1>14. CASE SettleCancel(r)
    BY <1>14, <1>0 DEF SettleCancel, StoreRaises, Answer
<1>15. CASE DeleteTerminal(r)
    BY <1>15 DEF DeleteTerminal
<1>16. CASE SweptElsewhere(r)
    BY <1>16, <1>0 DEF SweptElsewhere
<1>17. CASE RetryRead
    BY <1>17 DEF RetryRead
<1>18. CASE RetryRows
    BY <1>18 DEF RetryRows
<1>19. CASE RetrySettle
    BY <1>19 DEF RetrySettle, StoreRaises, Settled, Statuses
<1>20. CASE AdmissionCallback(r) /\ UNCHANGED <<createVars, apiVars, retry, foreign>>
    BY <1>20 DEF AdmissionCallback
<1> HIDE DEF HandlerFootprint
<1> QED
    BY <1>1, <1>2, <1>3, <1>4, <1>5, <1>6, <1>7, <1>8, <1>9, <1>10, <1>11, <1>12,
       <1>13, <1>14, <1>15, <1>16, <1>17, <1>18, <1>19, <1>20 DEF HandlerStep,
        CreatorStep, ApiStep, Environment, RetryStep

\* A step with that footprint keeps every variable typed.
LEMMA HandlerType ==
    ASSUME TypeOK, NEW r \in Runs, HandlerFootprint(r)
    PROVE  TypeOK'
<1>1. task' \in [Runs -> TaskStates] /\ tracked' \in [Runs -> {"none", "run", "admission", "producer"}]
    <2>1. /\ task \in [Runs -> TaskStates]
          /\ tracked \in [Runs -> {"none", "run", "admission", "producer"}]
        BY DEF TypeOK, TypeOKExec
    <2>2. "gone" \in TaskStates /\ "ready" \in TaskStates
        BY DEF TaskStates, Over, Waiting
    <2>3. Pruned \in [Runs -> TaskStates]
        BY <2>1, <2>2 DEF Pruned
    <2>4. PrunedTracked \in [Runs -> {"none", "run", "admission", "producer"}]
        BY <2>1 DEF PrunedTracked
    <2>5. task' \in [Runs -> TaskStates]
        BY <2>1, <2>2, <2>3 DEF HandlerFootprint
    <2>6. tracked' \in [Runs -> {"none", "run", "admission", "producer"}]
        BY <2>1, <2>4 DEF HandlerFootprint
    <2> QED BY <2>5, <2>6
<1>2. callback' \in [Runs -> BOOLEAN] /\ cancel' \in [Runs -> {"none", "requested", "delivered"}]
    <2>1. callback \in [Runs -> BOOLEAN] /\ cancel \in [Runs -> {"none", "requested", "delivered"}]
        BY DEF TypeOK, TypeOKExec
    <2>2. callback' \in [Runs -> BOOLEAN]
        BY <2>1 DEF HandlerFootprint
    <2>3. cancel' \in [Runs -> {"none", "requested", "delivered"}]
        BY <2>1 DEF HandlerFootprint
    <2> QED BY <2>2, <2>3
<1>3. row' \in [Runs -> RowStates]
    <2>1. /\ row \in [Runs -> RowStates]
          /\ "pending" \in RowStates /\ "deleted" \in RowStates
        BY DEF RowStates, InFlight, TypeOK, TypeOKExec
    <2> QED BY <2>1 DEF HandlerFootprint, InsertRow, UpdateStatus, DeleteRow
<1>4. thread' \in Statuses /\ unsettled' \in BOOLEAN
    BY DEF HandlerFootprint, TypeOK, TypeOKExec
<1>5. faults' \in 0..MaxFaults /\ foreign' \in 0..MaxForeign
    BY MaxFaultsAssumption, BoundsAssumption DEF HandlerFootprint, TypeOK, TypeOKExec
<1>6. TypeOKExec'
    BY <1>1, <1>2, <1>3, <1>4, <1>5 DEF HandlerFootprint, TypeOK, TypeOKExec
<1>7. creator' \in [Runs -> CreatorStates]
    <2>1. "admit" \in CreatorStates /\ "answered" \in CreatorStates
        BY DEF CreatorStates, Answered
    <2> QED BY <2>1 DEF HandlerFootprint, Await, TypeOK
<1>8. victims' \in [Runs -> SUBSET Runs]
    BY DEF HandlerFootprint, TypeOK
<1>9. victim' \in [Runs -> Runs \cup {NoRun}]
    BY DEF HandlerFootprint, TypeOK
<1>10. admOwner' \in Runs \cup {NoRun}
    BY DEF HandlerFootprint, TypeOK
<1>11. admQueue' \in Seq(Runs)
    <2>1. admQueue \in Seq(Runs)
        BY DEF TypeOK
    <2>2. Append(admQueue, r) \in Seq(Runs)
        BY <2>1, AppendProperties
    <2>3. admQueue # <<>> => Tail(admQueue) \in Seq(Runs)
        BY <2>1, HeadTailProperties
    <2>4. \A i \in 1..Len(admQueue) : RemoveAt(admQueue, i) \in Seq(Runs)
        BY <2>1, RemoveAtType
    <2> QED BY <2>1, <2>2, <2>3, <2>4 DEF HandlerFootprint
<1>12. api' \in [Runs -> ApiStates]
    BY DEF HandlerFootprint, TypeOK
<1>13. apiMode' \in [Runs -> {"none"} \cup CancelModes]
    BY DEF HandlerFootprint, TypeOK
<1>14. retry' \in {"idle", "rows", "settle"}
    BY DEF HandlerFootprint, TypeOK
<1> QED BY <1>5, <1>6, <1>7, <1>8, <1>9, <1>10, <1>11, <1>12, <1>13, <1>14 DEF TypeOK

\* The two kinds of step.
LEMMA NextCases ==
    ASSUME [Next]_vars
    PROVE  \/ \E r \in Runs : TaskStep(r) /\ UNCHANGED <<createVars, apiVars, retry, foreign>>
           \/ \E r \in Runs : HandlerStep(r)
           \/ UNCHANGED vars
BY RunsAssumption DEF Next, RunStep, HandlerStep, Resting

-----------------------------------------------------------------------------
(* The inductive invariant: types, who holds the execution lock, and that  *)
(* a task is only ever spawned for a run that has none.                    *)

Fresh == \A r \in Runs : creator[r] \in Before => task[r] = "none"

IInv == TypeOK /\ Fresh /\ LockOwnership

\* It holds at the start ...
LEMMA InitInv == Init => IInv
<1> SUFFICES ASSUME Init PROVE IInv
    OBVIOUS
<1>1. TypeOKExec
    <2>1. request \in [Runs -> RequestType]
        BY RequestsAssumption DEF Init
    <2>2. /\ task \in [Runs -> TaskStates]
          /\ row \in [Runs -> RowStates]
          /\ outcome \in [Runs -> Outcomes]
          /\ thread \in Statuses
        BY DEF Init, ExecInit, TaskStates, Over, RowStates, Statuses, Outcomes
    <2>3. /\ tracked \in [Runs -> {"none", "run", "admission", "producer"}]
          /\ callback \in [Runs -> BOOLEAN]
          /\ cancel \in [Runs -> {"none", "requested", "delivered"}]
          /\ stream \in [Runs -> {"none", "open", "closed"}]
          /\ unsettled \in BOOLEAN
          /\ lockOwner \in Runs \cup {NoRun}
        BY DEF Init, ExecInit
    <2>4. lockQueue \in Seq(Runs) /\ faults \in 0..MaxFaults
        BY MaxFaultsAssumption DEF Init, ExecInit
    <2> QED BY <2>1, <2>2, <2>3, <2>4 DEF TypeOKExec
<1>2. TypeOK
    BY <1>1, BoundsAssumption, EmptySeq DEF Init, TypeOK, CreatorStates, ApiStates
<1>3. Fresh /\ LockOwnership
    BY RunsAssumption DEF Init, ExecInit, Fresh, LockOwnership, Holding
<1> QED BY <1>2, <1>3 DEF IInv

\* ... is kept by the steps of the tasks ...
LEMMA TaskInv ==
    ASSUME IInv, NEW r \in Runs, TaskStep(r), UNCHANGED <<createVars, apiVars, retry, foreign>>
    PROVE  IInv'
<1>1. Footprint(r) /\ LockStep(r)
    BY StepFootprint, StepLock
<1>2. TypeOKExec'
    BY <1>1, FootprintType DEF IInv, TypeOK
<1>3. TypeOK'
    BY <1>2 DEF IInv, TypeOK, createVars, apiVars
<1>4. task \in [Runs -> TaskStates]
    BY DEF IInv, TypeOK, TypeOKExec
<1>5. Fresh'
    BY <1>1, <1>4 DEF IInv, Fresh, Footprint, Goto, createVars
<1>6. LockOwnership'
    BY <1>1, <1>4, RunsAssumption DEF IInv, LockOwnership, LockStep, Goto
<1> QED BY <1>3, <1>5, <1>6 DEF IInv

\* ... and of the handlers, which spawn and prune tasks outside Holding ...
LEMMA HandlerInv ==
    ASSUME IInv, NEW r \in Runs, HandlerStep(r)
    PROVE  IInv'
<1>1. HandlerFootprint(r)
    BY HandlerStepFootprint DEF IInv
<1>2. TypeOK'
    BY <1>1, HandlerType DEF IInv
<1>3. /\ task \in [Runs -> TaskStates]
      /\ creator \in [Runs -> CreatorStates]
    BY DEF IInv, TypeOK, TypeOKExec
<1>4. \A s \in Runs : task[s] = "none" <=> Pruned[s] = "none"
    BY <1>3 DEF Pruned
<1>5. /\ Pruned \in [Runs -> TaskStates]
      /\ \A s \in Runs : task[s] \in Holding <=> Pruned[s] \in Holding
    BY <1>3 DEF Pruned, Holding, TaskStates, Over
<1>6. Fresh'
    BY <1>1, <1>3, <1>4, <1>5 DEF IInv, Fresh, HandlerFootprint, Await, Before
<1>7. LockOwnership'
    <2>1. \A s \in Runs : task'[s] \in Holding <=> task[s] \in Holding
        <3>1. "ready" \notin Holding /\ "none" \notin Holding
            BY DEF Holding
        <3> QED BY <1>1, <1>3, <1>5, <3>1 DEF IInv, Fresh, HandlerFootprint
    <2> QED BY <1>1, <2>1 DEF IInv, LockOwnership, HandlerFootprint
<1> QED BY <1>2, <1>6, <1>7 DEF IInv

\* ... and when nothing changes.
LEMMA StutterInv == IInv /\ UNCHANGED vars => IInv'
<1> SUFFICES ASSUME IInv, UNCHANGED vars PROVE IInv'
    OBVIOUS
<1>1. TypeOKExec'
    BY DEF IInv, TypeOK, TypeOKExec, vars, execVars
<1>2. TypeOK'
    BY <1>1 DEF IInv, TypeOK, vars, createVars, apiVars
<1>3. Fresh' /\ LockOwnership'
    BY DEF IInv, Fresh, LockOwnership, vars, execVars, createVars
<1> QED BY <1>2, <1>3 DEF IInv

\* So it always holds.
THEOREM Invariance == Spec => []IInv
<1>1. Init => IInv
    BY InitInv
<1>2. IInv /\ [Next]_vars => IInv'
    BY NextCases, TaskInv, HandlerInv, StutterInv
<1> QED BY <1>1, <1>2, PTL DEF Spec

\* Every variable keeps its type.
THEOREM TypeCorrect == Spec => []TypeOK
<1>1. IInv => TypeOK
    BY DEF IInv
<1> QED BY <1>1, Invariance, PTL

\* The execution lock is held by exactly the run that is between acquiring and
\* releasing it, whatever is cancelled or fails in between.
THEOREM LockIsOwned == Spec => []LockOwnership
<1>1. IInv => LockOwnership
    BY DEF IInv
<1> QED BY <1>1, Invariance, PTL

\* At most one run of a thread executes its graph.
THEOREM RunsExecuteOneAtATime == Spec => []OneExecutor
<1>1. LockOwnership => OneExecutor
    BY DEF LockOwnership, OneExecutor, Holding
<1> QED BY <1>1, LockIsOwned, PTL

-----------------------------------------------------------------------------
(* A row is inserted only for a run that never had one: create_run resets  *)
(* whatever row it finds, so this is what keeps a terminal status final.   *)

Unwritten ==
    \A r \in Runs :
        /\ creator[r] = "insert" => ~Streaming(r)
        /\ \/ creator[r] \in Before
           \/ task[r] = "insert"
           \/ Streaming(r) /\ task[r] \in {"ready", "lockWait"}
           => row[r] = "absent"

\* What a step of a task may do to the rows, and where a run is inserted.
RowStep(r) ==
    \E s \in TaskStates :
        /\ Goto(r, s)
        /\ s # "ready"
        /\ s = "lockWait" => task[r] = "ready"
        /\ s = "insert" => Streaming(r) /\ task[r] \in {"ready", "lockWait"}
        /\ \/ row' = row
           \/ \E u \in RowStates : row' = UpdateStatus(row, r, u)
           \/ task[r] = "insert" /\ s # "insert" /\ row' = InsertRow(row, r)

\* Every action of RunExecution does no more.
LEMMA StepRow ==
    ASSUME NEW r \in Runs, TaskStep(r)
    PROVE  RowStep(r)
<1> USE DEF RowStep, Aborts, TaskStates, Waiting, Holding, Dropping, Over, RowStates,
            InFlight, Terminal
<1>1. CASE Start(r)
    BY <1>1 DEF Start, FirstHeld
<1>2. CASE NeverRuns(r)
    BY <1>2 DEF NeverRuns
<1>3. CASE Grant(r)
    BY <1>3 DEF Grant, FirstHeld
<1>4. CASE GiveUpLock(r)
    BY <1>4 DEF GiveUpLock
<1>5. CASE DropRow(r)
    BY <1>5 DEF DropRow
<1>6. CASE HandOff(r)
    BY <1>6 DEF HandOff
<1>7. CASE InsertFails(r)
    BY <1>7 DEF InsertFails
<1>8. CASE StartProducer(r)
    BY <1>8 DEF StartProducer
<1>9. CASE Claim(r)
    BY <1>9 DEF Claim
<1>10. CASE Lost(r)
    BY <1>10 DEF Lost, Leave, Publish, Persisted, Outcomes
<1>11. CASE Busy(r)
    BY <1>11 DEF Busy, Statuses
<1>12. CASE Graph(r)
    BY <1>12 DEF Graph, Goto
<1>13. CASE Finish(r)
    BY <1>13 DEF Finish
<1>14. CASE Settle(r)
    BY <1>14 DEF Settle, SettleDone, Leave, Publish, Statuses, Settled, Outcomes
<1>15. CASE Tokens(r)
    BY <1>15 DEF Tokens, Leave, Publish, Outcomes
<1>16. CASE FailMark(r)
    BY <1>16 DEF FailMark, HandlerRaises, AbandonHandler, Leave, Publish, Outcomes
<1>17. CASE FailLost(r)
    BY <1>17 DEF FailLost, HandlerRaises, AbandonHandler, Leave, Publish, Outcomes,
                 Persisted
<1>18. CASE FailThread(r)
    BY <1>18 DEF FailThread, HandlerRaises, AbandonHandler, Leave, Publish, Outcomes,
                 Statuses
<1>19. CASE IntMark(r)
    BY <1>19 DEF IntMark, Conclude, CloseRun, Leave, Publish, Outcomes
<1>20. CASE IntThread(r)
    BY <1>20 DEF IntThread, Conclude, CloseRun, Leave, Publish, Outcomes, Statuses
<1>21. CASE IntLost(r)
    BY <1>21 DEF IntLost, Conclude, CloseRun, Leave, Publish, Outcomes, Persisted
<1>22. CASE Resettle(r)
    BY <1>22 DEF Resettle, Conclude, CloseRun, Leave, Publish, Outcomes, Statuses, Settled
<1>23. CASE Finalize(r)
    BY <1>23 DEF Finalize, CloseRun
<1>24. CASE Forget(r)
    BY <1>24 DEF Forget
<1> HIDE DEF RowStep
<1> QED
    BY <1>1, <1>2, <1>3, <1>4, <1>5, <1>6, <1>7, <1>8, <1>9, <1>10, <1>11, <1>12,
       <1>13, <1>14, <1>15, <1>16, <1>17, <1>18, <1>19, <1>20, <1>21, <1>22, <1>23,
       <1>24 DEF TaskStep

\* A background run enters with its insert, a streaming run before it.
EntryStep(r) ==
    /\ \/ creator' = creator
       \/ \E c \in CreatorStates : Await(r, c) /\ (c = "insert" => ~Streaming(r))
    /\ \/ task' \in {task, Pruned}
       \/ creator[r] = "insert"
       \/ row' = row

\* Every other action does no more.
LEMMA HandlerEntry ==
    ASSUME NEW r \in Runs, HandlerStep(r)
    PROVE  EntryStep(r)
<1> USE DEF EntryStep, execVars, registryVars, lockVars, threadVars, streamVars,
            createVars, CreatorStates, Answered
<1>1. CASE Arrive(r)
    BY <1>1 DEF Arrive
<1>2. CASE Admit(r)
    BY <1>2 DEF Admit, Enter
<1>3. CASE CancelVictim(r)
    BY <1>3 DEF CancelVictim, RequestCancel
<1>4. CASE VictimUnwound(r)
    BY <1>4 DEF VictimUnwound
<1>5. CASE DeleteVictim(r)
    BY <1>5 DEF DeleteVictim, StoreRaises, FailCreate
<1>6. CASE Superseded(r)
    BY <1>6 DEF Superseded, Enter
<1>7. CASE Spawn(r)
    BY <1>7 DEF Spawn, StoreRaises, FailCreate, Goto
<1>8. CASE AdmissionAnswers(r)
    BY <1>8 DEF AdmissionAnswers
<1>9. CASE LeaveAdmission(r)
    BY <1>9 DEF LeaveAdmission
<1>10. CASE ClientLeaves(r)
    BY <1>10 DEF ClientLeaves, PassCancelOn, RequestCancel
<1>11. CASE ReadForCancel(r)
    BY <1>11 DEF ReadForCancel, Answer
<1>12. CASE ActOnCancel(r)
    BY <1>12 DEF ActOnCancel, RequestCancel, Answer
<1>13. CASE CancelUnwound(r)
    BY <1>13 DEF CancelUnwound, Answer
<1>14. CASE SettleCancel(r)
    BY <1>14 DEF SettleCancel, StoreRaises, Answer
<1>15. CASE DeleteTerminal(r)
    BY <1>15 DEF DeleteTerminal
<1>16. CASE SweptElsewhere(r)
    BY <1>16 DEF SweptElsewhere
<1>17. CASE RetryRead
    BY <1>17 DEF RetryRead
<1>18. CASE RetryRows
    BY <1>18 DEF RetryRows
<1>19. CASE RetrySettle
    BY <1>19 DEF RetrySettle, StoreRaises, Settled
<1>20. CASE AdmissionCallback(r) /\ UNCHANGED <<createVars, apiVars, retry, foreign>>
    BY <1>20 DEF AdmissionCallback
<1> HIDE DEF EntryStep
<1> QED
    BY <1>1, <1>2, <1>3, <1>4, <1>5, <1>6, <1>7, <1>8, <1>9, <1>10, <1>11, <1>12,
       <1>13, <1>14, <1>15, <1>16, <1>17, <1>18, <1>19, <1>20 DEF HandlerStep,
        CreatorStep, ApiStep, Environment, RetryStep

\* What the store operations leave of a row: only an in-flight one is updated,
\* a delete deletes, an insert touches its own row.
LEMMA RowOperators ==
    ASSUME NEW rows \in [Runs -> RowStates], NEW v, NEW r \in Runs
    PROVE  /\ DeleteRow(rows, v)[r] \in {rows[r], "deleted"}
           /\ rows[r] = "absent" => DeleteRow(rows, v)[r] = "absent"
           /\ \A u \in RowStates :
                rows[r] \notin InFlight => UpdateStatus(rows, v, u)[r] = rows[r]
           /\ r # v => InsertRow(rows, v)[r] = rows[r]
BY DEF DeleteRow, UpdateStatus, InsertRow, RowStates

\* The steps of the tasks keep Unwritten ...
LEMMA TaskUnwritten ==
    ASSUME IInv, Unwritten, NEW r \in Runs, TaskStep(r),
           UNCHANGED <<createVars, apiVars, retry, foreign>>
    PROVE  Unwritten'
<1>1. Footprint(r) /\ RowStep(r)
    BY StepFootprint, StepRow
<1>2. task \in [Runs -> TaskStates] /\ row \in [Runs -> RowStates]
    BY DEF IInv, TypeOK, TypeOKExec
<1>3. creator[r] \notin Before
    BY <1>1 DEF Footprint, IInv, Fresh
<1> SUFFICES ASSUME NEW q \in Runs
             PROVE  /\ creator'[q] = "insert" => ~Streaming(q)'
                    /\ \/ creator'[q] \in Before
                       \/ task'[q] = "insert"
                       \/ Streaming(q)' /\ task'[q] \in {"ready", "lockWait"}
                       => row'[q] = "absent"
    BY DEF Unwritten
<1>4. Streaming(q)' = Streaming(q) /\ creator' = creator
    BY <1>1 DEF Footprint, Streaming, createVars
<1>5. PICK s \in TaskStates :
        /\ task' = [task EXCEPT ![r] = s]
        /\ s # "ready"
        /\ s = "lockWait" => task[r] = "ready"
        /\ s = "insert" => Streaming(r) /\ task[r] \in {"ready", "lockWait"}
        /\ \/ row' = row
           \/ \E u \in RowStates : row' = UpdateStatus(row, r, u)
           \/ task[r] = "insert" /\ s # "insert" /\ row' = InsertRow(row, r)
    BY <1>1 DEF RowStep, Goto
<1>6. row[q] = "absent" => row'[q] = "absent" \/ (q = r /\ task[r] = "insert" /\ s # "insert")
    <2>1. /\ \A u \in RowStates :
               row[q] = "absent" => UpdateStatus(row, r, u)[q] = "absent"
          /\ r # q => InsertRow(row, r)[q] = row[q]
        BY <1>2, RowOperators DEF InFlight
    <2> QED BY <1>5, <2>1
<1> QED BY <1>2, <1>3, <1>4, <1>5, <1>6 DEF Unwritten

\* ... and so do the handlers ...
LEMMA HandlerUnwritten ==
    ASSUME IInv, Unwritten, NEW r \in Runs, HandlerStep(r)
    PROVE  Unwritten'
<1>1. HandlerFootprint(r) /\ EntryStep(r)
    BY HandlerStepFootprint, HandlerEntry DEF IInv
<1>2. /\ task \in [Runs -> TaskStates] /\ row \in [Runs -> RowStates]
      /\ creator \in [Runs -> CreatorStates]
    BY DEF IInv, TypeOK, TypeOKExec
<1> SUFFICES ASSUME NEW q \in Runs
             PROVE  /\ creator'[q] = "insert" => ~Streaming(q)'
                    /\ \/ creator'[q] \in Before
                       \/ task'[q] = "insert"
                       \/ Streaming(q)' /\ task'[q] \in {"ready", "lockWait"}
                       => row'[q] = "absent"
    BY DEF Unwritten
<1>3. Streaming(q)' = Streaming(q)
    BY <1>1 DEF HandlerFootprint, Streaming
<1>4. creator'[q] \in Before => creator[q] \in Before
    BY <1>1, <1>2 DEF HandlerFootprint, Await, Before
<1>7. creator'[q] = "insert" => creator[q] = "insert" \/ ~Streaming(q)
    BY <1>1, <1>2 DEF EntryStep, Await
<1>8. task'[q] = "ready" =>
        \/ task[q] = "ready"
        \/ creator[q] \in Before /\ row' = row
        \/ creator[q] = "insert"
    <2>1. Pruned[q] = "ready" => task[q] = "ready"
        BY <1>2 DEF Pruned
    <2>2. Pruned \in [Runs -> TaskStates]
        BY <1>2 DEF Pruned, TaskStates, Over
    <2>3. \/ task' \in {task, Pruned}
          \/ /\ creator[r] \in Before
             /\ \E base \in {task, Pruned} : task' = [base EXCEPT ![r] = "ready"]
        BY <1>1 DEF HandlerFootprint
    <2>4. CASE task' \in {task, Pruned}
        BY <2>1, <2>4
    <2>5. CASE /\ creator[r] \in Before
               /\ \E base \in {task, Pruned} : task' = [base EXCEPT ![r] = "ready"]
        <3>1. CASE q # r
            BY <1>2, <2>1, <2>2, <2>5, <3>1
        <3>2. CASE q = r
            BY <1>1, <2>1, <2>5, <3>2 DEF EntryStep
        <3> QED BY <3>1, <3>2
    <2> QED BY <2>3, <2>4, <2>5
<1>5. \/ row'[q] = "absent"
      \/ row[q] # "absent"
      \/ creator[q] = "insert" /\ creator'[q] \notin Before
    <2>1. \A v :
            /\ row[q] = "absent" => DeleteRow(row, v)[q] = "absent"
            /\ \A u \in RowStates :
                 row[q] = "absent" => UpdateStatus(row, v, u)[q] = "absent"
            /\ v # q => InsertRow(row, v)[q] = row[q]
        BY <1>2, RowOperators DEF InFlight
    <2>2. CASE /\ creator[r] = "insert"
               /\ row' = InsertRow(row, r)
               /\ \E c \in CreatorStates \ Before : Await(r, c)
        <3>1. r = q => creator'[q] \notin Before
            BY <1>2, <2>2 DEF Await
        <3>2. r # q => row'[q] = row[q]
            BY <2>1, <2>2
        <3> QED BY <2>2, <3>1, <3>2
    <2>3. \/ row' = row
          \/ \E v \in Runs \cup {NoRun} : row' = DeleteRow(row, v)
          \/ \E v \in Runs, u \in RowStates : row' = UpdateStatus(row, v, u)
          \/ /\ creator[r] = "insert"
             /\ row' = InsertRow(row, r)
             /\ \E c \in CreatorStates \ Before : Await(r, c)
        BY <1>1 DEF HandlerFootprint
    <2> QED BY <2>1, <2>2, <2>3
<1>6. /\ task'[q] = "insert" => task[q] = "insert"
      /\ task'[q] = "lockWait" => task[q] = "lockWait"
    BY <1>1, <1>2 DEF HandlerFootprint, Pruned
<1> QED BY <1>3, <1>4, <1>5, <1>6, <1>7, <1>8 DEF Unwritten, IInv, Fresh, Before

\* ... hence every step.
LEMMA InvUnwritten == IInv /\ Unwritten /\ [Next]_vars => Unwritten'
<1> SUFFICES ASSUME IInv, Unwritten, [Next]_vars PROVE Unwritten'
    OBVIOUS
<1>1. CASE UNCHANGED vars
    BY <1>1 DEF Unwritten, Streaming, vars, execVars, createVars
<1> QED BY <1>1, NextCases, TaskUnwritten, HandlerUnwritten

\* A terminal status is final and a deleted row stays deleted, whoever races
\* to write it.
THEOREM TerminalRowsAreFinal == Spec => TerminalIsFinal
<1> DEFINE Final == \A r \in Runs :
                      /\ row[r] \in Terminal => row'[r] \in {row[r], "deleted"}
                      /\ row[r] = "deleted" => row'[r] = "deleted"
<1>1. Init => Unwritten
    BY RunsAssumption DEF Init, ExecInit, Unwritten
<1>2. IInv /\ Unwritten /\ [Next]_vars => [Final]_vars
    <2> SUFFICES ASSUME IInv, Unwritten, [Next]_vars, NEW q \in Runs
                 PROVE  \/ /\ row[q] \in Terminal => row'[q] \in {row[q], "deleted"}
                           /\ row[q] = "deleted" => row'[q] = "deleted"
                        \/ UNCHANGED vars
        OBVIOUS
    <2>1. row \in [Runs -> RowStates]
        BY DEF IInv, TypeOK, TypeOKExec
    <2>2. /\ "deleted" \notin Terminal \cup InFlight
          /\ Terminal \cap InFlight = {}
          /\ "absent" \notin Terminal
        BY DEF Terminal, InFlight
    <2>3. \A v :
            /\ DeleteRow(row, v)[q] \in {row[q], "deleted"}
            /\ \A u \in RowStates :
                 row[q] \notin InFlight => UpdateStatus(row, v, u)[q] = row[q]
            /\ q # v => InsertRow(row, v)[q] = row[q]
        BY <2>1, RowOperators
    <2>4. CASE \E r \in Runs : TaskStep(r) /\ UNCHANGED <<createVars, apiVars, retry, foreign>>
        <3>1. PICK r \in Runs : RowStep(r)
            BY <2>4, StepRow
        <3>2. \/ row' = row
              \/ \E u \in RowStates : row' = UpdateStatus(row, r, u)
              \/ row[r] = "absent" /\ row' = InsertRow(row, r)
            BY <3>1 DEF RowStep, Unwritten
        <3> QED BY <2>2, <2>3, <3>2
    <2>5. CASE \E r \in Runs : HandlerStep(r)
        <3>1. PICK r \in Runs : HandlerFootprint(r)
            BY <2>5, HandlerStepFootprint DEF IInv
        <3>2. \/ row' = row
              \/ \E v : row' = DeleteRow(row, v)
              \/ \E v \in Runs, u \in RowStates : row' = UpdateStatus(row, v, u)
              \/ row[r] = "absent" /\ row' = InsertRow(row, r)
            BY <3>1 DEF HandlerFootprint, Unwritten, Before
        <3> QED BY <2>2, <2>3, <3>2
    <2> QED BY <2>4, <2>5, NextCases
<1>3. Spec => []Unwritten
    <2>1. IInv /\ Unwritten /\ [Next]_vars => Unwritten'
        BY InvUnwritten
    <2> QED BY <1>1, <2>1, Invariance, PTL DEF Spec
<1>4. Spec => [][Final]_vars
    BY <1>2, <1>3, Invariance, PTL DEF Spec
<1> QED BY <1>4 DEF TerminalIsFinal

-----------------------------------------------------------------------------
(* The thread's status is written under the execution lock only.           *)

BusyStep(r) ==
    \E s \in TaskStates :
        /\ Goto(r, s)
        /\ s = "graph" => thread' = "busy"
        /\ thread' = thread \/ task[r] \in Holding \ {"graph"}

\* Every action of RunExecution writes it so.
LEMMA StepBusy ==
    ASSUME NEW r \in Runs, TaskStep(r)
    PROVE  BusyStep(r)
<1> USE DEF BusyStep, Aborts, TaskStates, Waiting, Holding, Dropping, Over, threadVars
<1>1. CASE Start(r)
    BY <1>1 DEF Start, FirstHeld
<1>2. CASE NeverRuns(r)
    BY <1>2 DEF NeverRuns
<1>3. CASE Grant(r)
    BY <1>3 DEF Grant, FirstHeld
<1>4. CASE GiveUpLock(r)
    BY <1>4 DEF GiveUpLock
<1>5. CASE DropRow(r)
    BY <1>5 DEF DropRow
<1>6. CASE HandOff(r)
    BY <1>6 DEF HandOff
<1>7. CASE InsertFails(r)
    BY <1>7 DEF InsertFails
<1>8. CASE StartProducer(r)
    BY <1>8 DEF StartProducer
<1>9. CASE Claim(r)
    BY <1>9 DEF Claim
<1>10. CASE Lost(r)
    BY <1>10 DEF Lost, Leave, Publish, Persisted, Outcomes
<1>11. CASE Busy(r)
    BY <1>11 DEF Busy, Statuses
<1>12. CASE Graph(r)
    BY <1>12 DEF Graph, Goto
<1>13. CASE Finish(r)
    BY <1>13 DEF Finish
<1>14. CASE Settle(r)
    BY <1>14 DEF Settle, SettleDone, Leave, Publish, Statuses, Settled, Outcomes
<1>15. CASE Tokens(r)
    BY <1>15 DEF Tokens, Leave, Publish, Outcomes
<1>16. CASE FailMark(r)
    BY <1>16 DEF FailMark, HandlerRaises, AbandonHandler, Leave, Publish, Outcomes
<1>17. CASE FailLost(r)
    BY <1>17 DEF FailLost, HandlerRaises, AbandonHandler, Leave, Publish, Outcomes,
                 Persisted
<1>18. CASE FailThread(r)
    BY <1>18 DEF FailThread, HandlerRaises, AbandonHandler, Leave, Publish, Outcomes,
                 Statuses
<1>19. CASE IntMark(r)
    BY <1>19 DEF IntMark, Conclude, CloseRun, Leave, Publish, Outcomes
<1>20. CASE IntThread(r)
    BY <1>20 DEF IntThread, Conclude, CloseRun, Leave, Publish, Outcomes, Statuses
<1>21. CASE IntLost(r)
    BY <1>21 DEF IntLost, Conclude, CloseRun, Leave, Publish, Outcomes, Persisted
<1>22. CASE Resettle(r)
    BY <1>22 DEF Resettle, Conclude, CloseRun, Leave, Publish, Outcomes, Statuses, Settled
<1>23. CASE Finalize(r)
    BY <1>23 DEF Finalize, CloseRun
<1>24. CASE Forget(r)
    BY <1>24 DEF Forget
<1> HIDE DEF BusyStep
<1> QED
    BY <1>1, <1>2, <1>3, <1>4, <1>5, <1>6, <1>7, <1>8, <1>9, <1>10, <1>11, <1>12,
       <1>13, <1>14, <1>15, <1>16, <1>17, <1>18, <1>19, <1>20, <1>21, <1>22, <1>23,
       <1>24 DEF TaskStep

\* A run executes on a thread that reads "busy", unless a settle retry that had
\* made its checks before wrote another status.
THEOREM ExecutingThreadsAreBusy == Spec => OnlyARetryUnmarksThreads
<1> DEFINE Marked ==
        \A r \in Runs :
            task'[r] = "graph" =>
                \/ thread' = "busy"
                \/ retry = "settle" /\ retry' = "idle"
                \/ task[r] = "graph" /\ thread' = thread
<1>1. IInv /\ [Next]_vars => [Marked]_vars
    <2> SUFFICES ASSUME IInv, [Next]_vars
                 PROVE  Marked \/ UNCHANGED vars
        OBVIOUS
    <2>1. task \in [Runs -> TaskStates]
        BY DEF IInv, TypeOK, TypeOKExec
    <2>2. CASE \E r \in Runs : TaskStep(r) /\ UNCHANGED <<createVars, apiVars, retry, foreign>>
        <3>1. PICK r \in Runs : BusyStep(r)
            BY <2>2, StepBusy
        <3>2. \A q \in Runs : task[q] = "graph" /\ task[r] \in Holding => q = r
            BY DEF IInv, LockOwnership, Holding
        <3> QED BY <2>1, <3>1, <3>2 DEF BusyStep, Goto
    <2>3. CASE \E r \in Runs : HandlerStep(r)
        <3>1. PICK r \in Runs : HandlerFootprint(r)
            BY <2>3, HandlerStepFootprint DEF IInv
        <3>2. thread' = thread \/ (retry = "settle" /\ retry' = "idle")
            BY <3>1 DEF HandlerFootprint
        <3>3. \A q \in Runs : task'[q] = "graph" => task[q] = "graph"
            BY <2>1, <3>1 DEF HandlerFootprint, Pruned
        <3> QED BY <3>2, <3>3
    <2> QED BY <2>2, <2>3, NextCases
<1>2. Spec => [][Marked]_vars
    BY <1>1, Invariance, PTL DEF Spec
<1> QED BY <1>2 DEF OnlyARetryUnmarksThreads

-----------------------------------------------------------------------------
(* A stream's terminal event is published by the last step of the body or  *)
(* by the finalizer, and a stream is closed after it.                      *)

Published ==
    \A r \in Runs :
        /\ outcome[r] # "none" => task[r] \in {"ended", "gone"}
        /\ task[r] = "ended" \/ stream[r] = "closed" => outcome[r] # "none"

\* What a step of a task may do to its stream.
StreamStep(r) ==
    \E s \in TaskStates, e \in Outcomes :
        /\ Goto(r, s)
        /\ \/ e = "none" /\ outcome' = outcome
           \/ /\ e # "none" /\ outcome' = [outcome EXCEPT ![r] = e]
              /\ task[r] \notin {"none", "ended", "gone"}
              /\ s \in {"ended", "gone"}
        /\ s = "ended" => e # "none"
        /\ task[r] = "ended" => s = "gone"
        /\ task[r] # "gone"
        /\ \/ stream' = stream
           \/ stream' = [stream EXCEPT ![r] = "open"]
           \/ /\ stream' = [stream EXCEPT ![r] = "closed"]
              /\ task[r] = "ended" \/ e # "none"

\* Every action of RunExecution does no more.
LEMMA StepStream ==
    ASSUME NEW r \in Runs, TaskStep(r)
    PROVE  StreamStep(r)
<1> USE DEF StreamStep, Aborts, TaskStates, Waiting, Holding, Dropping, Over,
            streamVars, Outcomes
<1>1. CASE Start(r)
    BY <1>1 DEF Start, FirstHeld
<1>2. CASE NeverRuns(r)
    BY <1>2 DEF NeverRuns
<1>3. CASE Grant(r)
    BY <1>3 DEF Grant, FirstHeld
<1>4. CASE GiveUpLock(r)
    BY <1>4 DEF GiveUpLock
<1>5. CASE DropRow(r)
    BY <1>5 DEF DropRow
<1>6. CASE HandOff(r)
    BY <1>6 DEF HandOff
<1>7. CASE InsertFails(r)
    BY <1>7 DEF InsertFails
<1>8. CASE StartProducer(r)
    BY <1>8 DEF StartProducer
<1>9. CASE Claim(r)
    BY <1>9 DEF Claim
<1>10. CASE Lost(r)
    BY <1>10 DEF Lost, Leave, Publish, Persisted, Outcomes
<1>11. CASE Busy(r)
    BY <1>11 DEF Busy, Statuses
<1>12. CASE Graph(r)
    BY <1>12 DEF Graph, Goto
<1>13. CASE Finish(r)
    BY <1>13 DEF Finish
<1>14. CASE Settle(r)
    BY <1>14 DEF Settle, SettleDone, Leave, Publish, Statuses, Settled, Outcomes
<1>15. CASE Tokens(r)
    BY <1>15 DEF Tokens, Leave, Publish, Outcomes
<1>16. CASE FailMark(r)
    BY <1>16 DEF FailMark, HandlerRaises, AbandonHandler, Leave, Publish, Outcomes
<1>17. CASE FailLost(r)
    BY <1>17 DEF FailLost, HandlerRaises, AbandonHandler, Leave, Publish, Outcomes,
                 Persisted
<1>18. CASE FailThread(r)
    BY <1>18 DEF FailThread, HandlerRaises, AbandonHandler, Leave, Publish, Outcomes,
                 Statuses
<1>19. CASE IntMark(r)
    BY <1>19 DEF IntMark, Conclude, CloseRun, Leave, Publish, Outcomes
<1>20. CASE IntThread(r)
    BY <1>20 DEF IntThread, Conclude, CloseRun, Leave, Publish, Outcomes, Statuses
<1>21. CASE IntLost(r)
    BY <1>21 DEF IntLost, Conclude, CloseRun, Leave, Publish, Outcomes, Persisted
<1>22. CASE Resettle(r)
    BY <1>22 DEF Resettle, Conclude, CloseRun, Leave, Publish, Outcomes, Statuses, Settled
<1>23. CASE Finalize(r)
    BY <1>23 DEF Finalize, CloseRun
<1>24. CASE Forget(r)
    BY <1>24 DEF Forget
<1> HIDE DEF StreamStep
<1> QED
    BY <1>1, <1>2, <1>3, <1>4, <1>5, <1>6, <1>7, <1>8, <1>9, <1>10, <1>11, <1>12,
       <1>13, <1>14, <1>15, <1>16, <1>17, <1>18, <1>19, <1>20, <1>21, <1>22, <1>23,
       <1>24 DEF TaskStep

\* The steps of the tasks keep Published and never replace a terminal event ...
LEMMA TaskPublished ==
    ASSUME IInv, Published, NEW r \in Runs, TaskStep(r)
    PROVE  /\ Published'
           /\ \A q \in Runs : outcome[q] # "none" => outcome'[q] = outcome[q]
<1>1. PICK s \in TaskStates, e \in Outcomes :
        /\ task' = [task EXCEPT ![r] = s]
        /\ \/ e = "none" /\ outcome' = outcome
           \/ /\ e # "none" /\ outcome' = [outcome EXCEPT ![r] = e]
              /\ task[r] \notin {"none", "ended", "gone"}
              /\ s \in {"ended", "gone"}
        /\ s = "ended" => e # "none"
        /\ task[r] = "ended" => s = "gone"
        /\ task[r] # "gone"
        /\ \/ stream' = stream
           \/ stream' = [stream EXCEPT ![r] = "open"]
           \/ /\ stream' = [stream EXCEPT ![r] = "closed"]
              /\ task[r] = "ended" \/ e # "none"
    BY StepStream DEF StreamStep, Goto
<1>2. /\ task \in [Runs -> TaskStates]
      /\ outcome \in [Runs -> Outcomes]
      /\ stream \in [Runs -> {"none", "open", "closed"}]
    BY DEF IInv, TypeOK, TypeOKExec
<1>3. ASSUME NEW q \in Runs
      PROVE  /\ outcome'[q] # "none" => task'[q] \in {"ended", "gone"}
             /\ task'[q] = "ended" \/ stream'[q] = "closed" => outcome'[q] # "none"
             /\ outcome[q] # "none" => outcome'[q] = outcome[q]
    <2>1. CASE q = r
        BY <1>1, <1>2, <2>1 DEF Published
    <2>2. CASE q # r
        BY <1>1, <1>2, <2>2 DEF Published
    <2> QED BY <2>1, <2>2
<1> QED BY <1>3 DEF Published

\* ... and the handlers leave the streams alone.
LEMMA HandlerPublished ==
    ASSUME IInv, Published, NEW r \in Runs, HandlerStep(r)
    PROVE  Published' /\ UNCHANGED streamVars
<1>1. HandlerFootprint(r)
    BY HandlerStepFootprint DEF IInv
<1>2. task \in [Runs -> TaskStates]
    BY DEF IInv, TypeOK, TypeOKExec
<1>3. \A q \in Runs : /\ task'[q] = "ended" => task[q] = "ended"
                      /\ task[q] \in {"ended", "gone"} => task'[q] = task[q]
    BY <1>1, <1>2 DEF HandlerFootprint, Pruned, IInv, Fresh
<1> QED BY <1>1, <1>3 DEF HandlerFootprint, Published, streamVars

\* Every stream ends with exactly one terminal event, before it is closed.
THEOREM StreamsEndOnce == Spec => OneTerminalEvent
<1> DEFINE Once == \A r \in Runs :
                     /\ outcome[r] # "none" => outcome'[r] = outcome[r]
                     /\ stream'[r] = "closed" => outcome'[r] # "none"
<1>1. Init => Published
    BY DEF Init, ExecInit, Published
<1>2. IInv /\ Published /\ [Next]_vars => Published' /\ [Once]_vars
    <2> SUFFICES ASSUME IInv, Published, [Next]_vars PROVE Published' /\ [Once]_vars
        OBVIOUS
    <2>1. CASE \E r \in Runs : TaskStep(r)
        BY <2>1, TaskPublished DEF Published
    <2>2. CASE \E r \in Runs : HandlerStep(r)
        BY <2>2, HandlerPublished DEF Published, streamVars
    <2>3. CASE UNCHANGED vars
        BY <2>3 DEF Published, vars, execVars
    <2> QED BY <2>1, <2>2, <2>3, NextCases
<1>3. Spec => [][Once]_vars
    BY <1>1, <1>2, Invariance, PTL DEF Spec
<1> QED BY <1>3 DEF OneTerminalEvent
=============================================================================
