-------------------------- MODULE OrphanSweepProofs --------------------------
(***************************************************************************)
(* Theorems about OrphanSweep, for any number of processes and runs, any   *)
(* number of crashes and faults, and any timeout of three heartbeats or    *)
(* more.                                                                   *)
(***************************************************************************)
EXTENDS OrphanSweep, FiniteSetTheorems, TLAPS

\* The statuses of the thread are statuses, and ages stay bounded.
LEMMA Data ==
    /\ \A status : Left(status) \subseteq ThreadStates
    /\ \A a \in 0..(Timeout + 1) : Older(a) \in 0..(Timeout + 1) /\ Older(a) <= a + 1
    /\ 0 \in 0..(Timeout + 1)
<1>1. Timeout \in Nat
    BY TimeoutAssumption
<1>2. \A status : Left(status) \subseteq ThreadStates
    BY DEF Left, Settled, ThreadStates
<1>3. \A a \in 0..(Timeout + 1) : Older(a) \in 0..(Timeout + 1) /\ Older(a) <= a + 1
    BY <1>1 DEF Older
<1> QED BY <1>1, <1>2, <1>3

\* A run's step keeps the types.
LEMMA RunStepType ==
    ASSUME TypeOK, RunStep
    PROVE  TypeOK'
<1> USE Data DEF TypeOK, WriteRow, WriteThread, UpdateStatus, Goto, InFlight, Terminal,
        RowStates, Steps, StoreRaises, StoreAnswers, Active, storeVars, runVars,
        clockVars, passVars, boundVars
<1>1. ASSUME NEW w \in Workers, NEW r \in Runs, Create(w, r)
      PROVE  TypeOK'
    BY <1>1 DEF Create, InsertRow
<1>2. ASSUME NEW r \in Runs, ClaimRun(r)
      PROVE  TypeOK'
    BY <1>2 DEF ClaimRun
<1>3. ASSUME NEW r \in Runs, MarkBusy(r)
      PROVE  TypeOK'
    BY <1>3 DEF MarkBusy, ThreadStates
<1>4. ASSUME NEW r \in Runs, NEW status \in Outcomes, Save(r, status)
      PROVE  TypeOK'
    BY <1>4, OutcomesAssumption DEF Save
<1>5. ASSUME NEW r \in Runs, Settle(r)
      PROVE  TypeOK'
    <2>1. thread' \in ThreadStates /\ threadAge' \in 0..(Timeout + 1)
        BY <1>5 DEF Settle
    <2>2. unsettled' \in [Workers -> BOOLEAN]
        BY <1>5 DEF Settle
    <2> QED BY <1>5, <2>1, <2>2, LimitsAssumption DEF Settle
<1>6. ASSUME NEW r \in Runs, Stop(r)
      PROVE  TypeOK'
    BY <1>6 DEF Stop
<1>7. ASSUME NEW r \in Runs, Abandon(r)
      PROVE  TypeOK'
    BY <1>7, LimitsAssumption DEF Abandon
<1> QED BY <1>1, <1>2, <1>3, <1>4, <1>5, <1>6, <1>7 DEF RunStep

\* A heartbeat, a crash, a restart, or the passing of time keeps the types.
LEMMA ClockType ==
    ASSUME TypeOK,
           Tick \/ \E w \in Workers : Heartbeat(w) \/ Crash(w) \/ Restart(w)
    PROVE  TypeOK'
<1> USE DEF TypeOK, storeVars, runVars, clockVars, passVars, boundVars
<1>1. CASE Tick
    <2>1. age' \in [Runs -> 0..(Timeout + 1)] /\ threadAge' \in 0..(Timeout + 1)
        BY <1>1, Data DEF Tick
    <2>2. beat' \in [Workers -> 0..Beat]
        BY <1>1, BeatAssumption DEF Tick
    <2> QED BY <1>1, <2>1, <2>2 DEF Tick
<1>2. ASSUME NEW w \in Workers, HeartbeatRuns(w)
      PROVE  TypeOK'
    BY <1>2, Data, BeatAssumption DEF HeartbeatRuns, Touched
<1>3. ASSUME NEW w \in Workers, HeartbeatFails(w)
      PROVE  TypeOK'
    BY <1>3, BeatAssumption DEF HeartbeatFails
<1>4. ASSUME NEW w \in Workers, Crash(w)
      PROVE  TypeOK'
    BY <1>4, BeatAssumption, LimitsAssumption DEF Crash, Steps, Jobs, Awaits, ThreadStates
<1>5. ASSUME NEW w \in Workers, Restart(w)
      PROVE  TypeOK'
    BY <1>5 DEF Restart
<1> QED BY <1>1, <1>2, <1>3, <1>4, <1>5 DEF Heartbeat

\* Where a pass goes next is a job and an await.
PassType ==
    /\ job' \in [Workers -> Jobs]
    /\ at' \in [Workers -> Awaits]
    /\ verdict' \in [Workers -> ThreadStates]

LEMMA MovesType ==
    ASSUME TypeOK, NEW w \in Workers
    PROVE  /\ \A j \in Jobs : Begin(w, j) => PassType
           /\ \A failed : Release(w, failed) => PassType
           /\ Follow(w) => PassType
           /\ \A a \in Awaits : Await(w, a) => PassType
<1>1. \A j \in Jobs : Begin(w, j) => PassType
    BY DEF TypeOK, Begin, PassType, Awaits, ThreadStates
<1>2. {"none", "scan", "release", "stuck"} \subseteq Jobs
    BY DEF Jobs
<1>3. Follow(w) => PassType
    BY <1>1, <1>2 DEF Follow
<1>4. \A failed : Release(w, failed) => PassType
    BY <1>1, <1>2 DEF Release
<1>5. \A a \in Awaits : Await(w, a) => PassType
    BY DEF TypeOK, Await, PassType
<1> QED BY <1>1, <1>3, <1>4, <1>5

\* Claims and releases change the store by typed values only.
LEMMA WritesType ==
    ASSUME TypeOK, NEW w \in Workers
    PROVE  /\ \A r \in Runs : Fail(r) => /\ row' \in [Runs -> RowStates]
                                        /\ age' \in [Runs -> 0..(Timeout + 1)]
           /\ \A j : Discard(w, j) => /\ unsettled' \in [Workers -> BOOLEAN]
                                      /\ unreleased' \in [Workers -> BOOLEAN]
           /\ Keep => /\ unsettled' \in [Workers -> BOOLEAN]
                      /\ unreleased' \in [Workers -> BOOLEAN]
           /\ StoreRaises \/ StoreAnswers => faults' \in 0..MaxFaults
<1>1. "error" \in RowStates /\ 0 \in 0..(Timeout + 1)
    BY Data DEF RowStates, Terminal
<1>2. \A r \in Runs : Fail(r) => /\ row' \in [Runs -> RowStates]
                               /\ age' \in [Runs -> 0..(Timeout + 1)]
    BY <1>1 DEF TypeOK, Fail
<1>3. /\ \A j : Discard(w, j) => /\ unsettled' \in [Workers -> BOOLEAN]
                                 /\ unreleased' \in [Workers -> BOOLEAN]
      /\ Keep => /\ unsettled' \in [Workers -> BOOLEAN]
                 /\ unreleased' \in [Workers -> BOOLEAN]
    BY DEF TypeOK, Discard, Keep
<1>4. StoreRaises \/ StoreAnswers => faults' \in 0..MaxFaults
    BY LimitsAssumption DEF TypeOK, StoreRaises, StoreAnswers
<1> QED BY <1>2, <1>3, <1>4

\* A step of a sweep pass keeps the types.
LEMMA SweepType ==
    ASSUME TypeOK, NEW w \in Workers, SweepPass(w)
    PROVE  TypeOK'
<1> DEFINE Sets == /\ unsettled' \in [Workers -> BOOLEAN]
                   /\ unreleased' \in [Workers -> BOOLEAN]
           Rest == UNCHANGED <<owner, step, clockVars, crashes>>
<1> USE MovesType, WritesType DEF storeVars, runVars, passVars, boundVars
<1>a. /\ {"none", "retry", "scan", "claim", "release", "stuck"} \subseteq Jobs
      /\ {"thread", "pending", "running", "latest", "write"} \subseteq Awaits
    BY DEF Jobs, Awaits
<1>b. ASSUME PassType, Sets, Rest, StoreRaises \/ StoreAnswers,
             thread' \in ThreadStates, threadAge' \in 0..(Timeout + 1),
             row' \in [Runs -> RowStates], age' \in [Runs -> 0..(Timeout + 1)],
             candidates' \in [Workers -> SUBSET Runs],
             reported' \in [Runs -> SUBSET Workers]
      PROVE  TypeOK'
    BY <1>b DEF TypeOK, PassType, clockVars
<1> HIDE DEF Sets, Rest
<1>1. CASE StartRetry(w)
    <2>1. PassType
        BY <1>1, <1>a DEF StartRetry
    <2> QED BY <1>1, <1>b, <2>1 DEF StartRetry, TypeOK, Sets, Rest, StoreAnswers
<1>2. CASE Scan(w)
    <2>1. PassType
        BY <1>2, <1>a DEF Scan
    <2>2. candidates' \in [Workers -> SUBSET Runs]
        <3>1. StaleRows(w) \in SUBSET Runs
            BY DEF StaleRows
        <3> QED BY <1>2, <3>1 DEF Scan, TypeOK
    <2> QED BY <1>2, <1>b, <2>1, <2>2 DEF Scan, TypeOK, Sets, Rest
<1>3. ASSUME NEW r \in Runs, ClaimStale(w, r)
      PROVE  TypeOK'
    <2>1. PassType
        <3>1. CASE candidates[w] = {r}
            BY <1>3, <3>1 DEF ClaimStale
        <3>2. CASE candidates[w] # {r}
            <4>1. at' \in [Workers -> Awaits] /\ UNCHANGED <<job, verdict>>
                BY <1>3, <1>a, <3>2 DEF ClaimStale, TypeOK
            <4> QED BY <4>1 DEF PassType, TypeOK
        <3> QED BY <3>1, <3>2
    <2>2. /\ row' \in [Runs -> RowStates] /\ age' \in [Runs -> 0..(Timeout + 1)]
          /\ reported' \in [Runs -> SUBSET Workers]
          /\ Sets
        <3>1. reported[r] \cup {w} \in SUBSET Workers
            BY DEF TypeOK
        <3>2. CASE Claimable(r)
            BY <1>3, <3>1, <3>2 DEF ClaimStale, TypeOK, Sets
        <3>3. CASE ~Claimable(r)
            BY <1>3, <3>3 DEF ClaimStale, TypeOK, Sets
        <3> QED BY <3>2, <3>3
    <2>3. candidates' \in [Workers -> SUBSET Runs]
        BY <1>3 DEF ClaimStale, TypeOK
    <2> QED BY <1>3, <1>b, <2>1, <2>2, <2>3 DEF ClaimStale, TypeOK, Rest, StoreAnswers
<1>4. ASSUME NEW r \in Runs, ClaimRaises(w, r)
      PROVE  TypeOK'
    <2>1. PassType
        BY <1>4, <1>a DEF ClaimRaises
    <2>2. /\ row' \in [Runs -> RowStates] /\ age' \in [Runs -> 0..(Timeout + 1)]
          /\ candidates' \in [Workers -> SUBSET Runs]
        BY <1>4 DEF ClaimRaises, TypeOK
    <2> QED BY <1>4, <1>b, <2>1, <2>2 DEF ClaimRaises, TypeOK, Sets, Rest
<1>5. CASE ReadThread(w)
    <2>1. PassType /\ Sets /\ (StoreRaises \/ StoreAnswers)
        BY <1>5, <1>a DEF ReadThread, Skip, GiveUp, Sets
    <2> QED BY <1>5, <1>b, <2>1 DEF ReadThread, TypeOK, Rest
<1>6. CASE CheckRows(w)
    <2>1. Decide(w) => PassType
        BY <1>6, <1>a DEF CheckRows, Releasing, Decide, PassType, TypeOK, Settled, ThreadStates
    <2>2. PassType /\ Sets /\ (StoreRaises \/ StoreAnswers)
        BY <1>6, <1>a, <2>1 DEF CheckRows, Skip, GiveUp, Sets
    <2> QED BY <1>6, <1>b, <2>2 DEF CheckRows, TypeOK, Rest
<1>7. CASE ReadLatest(w)
    <2>1. PassType /\ Sets /\ (StoreRaises \/ StoreAnswers)
        BY <1>7, <1>a, Data DEF ReadLatest, GiveUp, Keep, Sets, PassType, TypeOK
    <2> QED BY <1>7, <1>b, <2>1 DEF ReadLatest, TypeOK, Rest
<1>8. CASE WriteVerdict(w)
    <2>1. PassType /\ Sets /\ (StoreRaises \/ StoreAnswers)
        BY <1>8 DEF WriteVerdict, GiveUp, Sets
    <2>2. thread' \in ThreadStates /\ threadAge' \in 0..(Timeout + 1)
        BY <1>8, Data DEF WriteVerdict, WriteThread, TypeOK
    <2> QED BY <1>8, <1>b, <2>1, <2>2 DEF WriteVerdict, TypeOK, Rest
<1> QED BY <1>1, <1>2, <1>3, <1>4, <1>5, <1>6, <1>7, <1>8 DEF SweepPass

\* Every variable keeps its type.
THEOREM SweepTypeCorrect == Spec => []TypeOK
<1>1. Init => TypeOK
    BY Data, BeatAssumption, LimitsAssumption
       DEF Init, TypeOK, RowStates, ThreadStates, Steps, Jobs, Awaits
<1>2. TypeOK /\ [Next]_vars => TypeOK'
    <2> SUFFICES ASSUME TypeOK, [Next]_vars PROVE TypeOK'
        OBVIOUS
    <2>1. CASE UNCHANGED vars
        BY <2>1 DEF vars, storeVars, runVars, clockVars, passVars, boundVars, TypeOK
    <2> QED BY <2>1, RunStepType, ClockType, SweepType DEF Next
<1> QED BY <1>1, <1>2, PTL DEF Spec
-----------------------------------------------------------------------------
(* The inductive invariant behind the three safety properties.             *)

\* A run that was not created has no row, no report, and is nobody's
\* candidate; a candidate is not a run that its sweeper tracks.
Fresh ==
    /\ \A r \in Runs : step[r] = "none" => row[r] = "absent" /\ reported[r] = {}
    /\ \A w \in Workers : \A r \in candidates[w] : step[r] # "none" /\ r \notin Active(w)

\* Only live processes execute runs.
Alive == \A w \in Workers : Active(w) # {} => up[w]

\* A process that never missed two beats in a row has touched its runs since
\* the last beat that it did not miss.
Punctual ==
    \A w \in Workers \ late : \A r \in Active(w) :
        row[r] \in InFlight => age[r] <= (IF missed[w] THEN Beat ELSE 0) + beat[w]

\* A run that was reported failed has ended, and one process reported it.
Settles ==
    \A r \in Runs : /\ reported[r] # {} => row[r] \notin InFlight
                    /\ \A v, w \in reported[r] : v = w

IInv ==
    /\ TypeOK /\ Fresh /\ Alive /\ Punctual /\ Settles
    /\ LiveRunsSurvive /\ OwnRunsNeverSwept

\* The runs of a punctual process are not stale: this is where the timeout
\* must be longer than two heartbeats.
LEMMA LiveRunsAreNotStale ==
    ASSUME IInv, NEW w \in Workers \ late, NEW r \in Active(w)
    PROVE  ~Stale(r)
<1>1. r \in Runs /\ age[r] \in Nat /\ beat[w] \in Nat /\ beat[w] <= Beat
    BY TimeoutAssumption, BeatAssumption DEF IInv, TypeOK, Active
<1>2. row[r] \in InFlight => age[r] <= 2 * Beat
    BY <1>1, BeatAssumption DEF IInv, Punctual
<1> QED BY <1>1, <1>2, TimeoutAssumption, BeatAssumption DEF Stale

\* What the steps that neither create a run, nor touch an age, nor claim may
\* change: runs go on or end, rows in flight move, candidates go.
Quiet ==
    /\ UNCHANGED <<owner, up, beat, missed, late, reported>>
    /\ \A r \in Runs :
          /\ step'[r] = step[r] \/ (step[r] # "none" /\ step'[r] # "none")
          /\ \A w \in Workers : r \in Active(w)' => r \in Active(w)
          /\ row'[r] = row[r] \/ row'[r] \notin InFlight \/ row[r] \in InFlight
          /\ row'[r] = row[r] \/ step[r] # "none"
          /\ age'[r] \in {age[r], 0}
    /\ \A w \in Workers :
          \A r \in candidates'[w] : r \in candidates[w] \/ r \in StaleRows(w)

LEMMA QuietInv ==
    ASSUME IInv, TypeOK', Quiet
    PROVE  IInv'
<1> USE DEF IInv
<1>1. \A w \in Workers : \A r \in StaleRows(w) :
          r \in Runs /\ step[r] # "none" /\ r \notin Active(w)
    BY DEF StaleRows, Stale, Fresh, InFlight
<1>2. Fresh'
    <2>1. ASSUME NEW r \in Runs, step'[r] = "none"
          PROVE  row'[r] = "absent" /\ reported'[r] = {}
        BY <2>1 DEF Quiet, Fresh
    <2>2. ASSUME NEW w \in Workers, NEW r \in candidates'[w]
          PROVE  step'[r] # "none" /\ r \notin Active(w)'
        <3>1. r \in Runs
            BY <2>2 DEF TypeOK
        <3>2. step[r] # "none" /\ r \notin Active(w)
            BY <1>1, <2>2 DEF Quiet, Fresh
        <3> QED BY <3>1, <3>2 DEF Quiet
    <2> QED BY <2>1, <2>2 DEF Fresh
<1>3. \A w \in Workers : Active(w)' \subseteq Active(w)
    <2>1. \A w \in Workers : Active(w)' \subseteq Runs
        BY DEF Active
    <2> QED BY <2>1 DEF Quiet
<1>4. Alive'
    BY <1>3 DEF Quiet, Alive
<1>5. Punctual'
    <2> SUFFICES ASSUME NEW w \in Workers \ late, NEW r \in Active(w)',
                        row'[r] \in InFlight
                 PROVE  age'[r] <= (IF missed[w] THEN Beat ELSE 0) + beat[w]
        BY DEF Punctual, Quiet
    <2>1. r \in Runs /\ r \in Active(w)
        BY <1>3 DEF Active
    <2>2. age[r] <= (IF missed[w] THEN Beat ELSE 0) + beat[w]
        BY <2>1 DEF Punctual, Quiet
    <2>3. 0 <= (IF missed[w] THEN Beat ELSE 0) + beat[w]
        BY BeatAssumption DEF TypeOK
    <2> QED BY <2>1, <2>2, <2>3 DEF Quiet
<1>6. Settles'
    BY DEF Settles, Quiet
<1>7. LiveRunsSurvive' /\ OwnRunsNeverSwept'
    BY <1>3 DEF Quiet, LiveRunsSurvive, OwnRunsNeverSwept
<1> QED BY <1>2, <1>4, <1>5, <1>6, <1>7

\* The steps of a run's own process after its creation are quiet.
LEMMA RunStepsAreQuiet ==
    ASSUME IInv, NEW r \in Runs,
           \/ ClaimRun(r) \/ MarkBusy(r) \/ Settle(r) \/ Stop(r) \/ Abandon(r)
           \/ \E status \in Outcomes : Save(r, status)
    PROVE  Quiet
<1> USE DEF IInv, TypeOK, storeVars, clockVars, passVars, boundVars
<1>1. /\ step[r] # "none" /\ (step[r] \in {"queued", "claimed", "graph", "settle"})
      /\ \E s \in Steps \ {"none"} : step' = [step EXCEPT ![r] = s]
    BY DEF ClaimRun, MarkBusy, Settle, Stop, Abandon, Save, Goto, Steps
<1>2. UNCHANGED <<owner, up, beat, missed, late, reported, candidates>>
    BY DEF ClaimRun, MarkBusy, Settle, Stop, Abandon, Save
<1>3. \/ UNCHANGED <<row, age>>
      \/ \E status : WriteRow(r, status)
    BY DEF ClaimRun, MarkBusy, Settle, Stop, Abandon, Save
<1>4. ASSUME NEW q \in Runs
      PROVE  /\ step'[q] = step[q] \/ (step[q] # "none" /\ step'[q] # "none")
             /\ \A w \in Workers : q \in Active(w)' => q \in Active(w)
    <2>1. CASE q = r
        BY <1>1, <1>2, <2>1 DEF Active
    <2>2. CASE q # r
        <3>1. step'[q] = step[q]
            BY <1>1, <2>2
        <3> QED BY <1>2, <3>1 DEF Active
    <2> QED BY <2>1, <2>2
<1>5. ASSUME NEW q \in Runs
      PROVE  /\ row'[q] = row[q] \/ row[q] \in InFlight
             /\ row'[q] = row[q] \/ step[q] # "none"
             /\ age'[q] \in {age[q], 0}
    BY <1>1, <1>3 DEF WriteRow, UpdateStatus
<1> QED BY <1>2, <1>4, <1>5 DEF Quiet

\* So are those of a sweep pass, but for its claims.
LEMMA SweepStepsAreQuiet ==
    ASSUME IInv, NEW w \in Workers,
           \/ StartRetry(w) \/ Scan(w) \/ \E r \in Runs : ClaimRaises(w, r)
           \/ ReadThread(w) \/ CheckRows(w) \/ ReadLatest(w) \/ WriteVerdict(w)
    PROVE  Quiet
<1> USE DEF IInv, TypeOK, storeVars, runVars, clockVars, passVars, boundVars
<1>1. UNCHANGED <<owner, step, up, beat, missed, late, reported>>
    BY DEF StartRetry, Scan, ClaimRaises, ReadThread, CheckRows, ReadLatest, WriteVerdict
<1>2. candidates' = candidates \/ \E s \in {{}, StaleRows(w)} :
                                     candidates' = [candidates EXCEPT ![w] = s]
    BY DEF StartRetry, Scan, ClaimRaises, ReadThread, CheckRows, ReadLatest, WriteVerdict
<1>3. \/ UNCHANGED <<row, age>>
      \/ \E r \in candidates[w] : Stale(r) /\ Fail(r)
    BY DEF StartRetry, Scan, ClaimRaises, ReadThread, CheckRows, ReadLatest, WriteVerdict
<1>4. ASSUME NEW q \in Runs
      PROVE  /\ row'[q] = row[q] \/ row[q] \in InFlight
             /\ row'[q] = row[q] \/ step[q] # "none"
             /\ age'[q] \in {age[q], 0}
    BY <1>3 DEF Fail, Stale, Fresh
<1>5. \A v \in Workers : Active(v)' = Active(v)
    BY <1>1 DEF Active
<1>6. \A v \in Workers : \A r \in candidates'[v] : r \in candidates[v] \/ r \in StaleRows(v)
    BY <1>2
<1> QED BY <1>1, <1>4, <1>5, <1>6 DEF Quiet

\* A claim fails a stale row, which no punctual process executes, and the
\* sweeping process does not either.
LEMMA ClaimInv ==
    ASSUME IInv, TypeOK', NEW w \in Workers, NEW r \in Runs, ClaimStale(w, r)
    PROVE  IInv'
<1> USE DEF IInv, TypeOK
<1>1. /\ UNCHANGED <<owner, step, up, beat, missed, late>>
      /\ candidates' = [candidates EXCEPT ![w] = @ \ {r}]
    BY DEF ClaimStale, runVars, clockVars
<1>2. \A v \in Workers : Active(v)' = Active(v)
    BY <1>1 DEF Active
<1>3. CASE ~Claimable(r)
    <2>1. UNCHANGED <<row, age, reported>>
        BY <1>3 DEF ClaimStale
    <2>2. Quiet
        <3>1. \A v \in Workers : candidates'[v] \subseteq candidates[v]
            BY <1>1
        <3> QED BY <1>1, <1>2, <2>1, <3>1 DEF Quiet
    <2> QED BY <2>2, QuietInv
<1>4. CASE Claimable(r)
    <2>1. /\ row' = [row EXCEPT ![r] = "error"] /\ age' = [age EXCEPT ![r] = 0]
          /\ reported' = [reported EXCEPT ![r] = @ \cup {w}]
        BY <1>4 DEF ClaimStale, Fail
    <2>2. Stale(r) /\ reported[r] = {} /\ step[r] # "none" /\ r \notin Active(w)
        BY <1>4 DEF Claimable, Stale, Settles, Fresh, ClaimStale
    <2>3. reported'[r] = {w} /\ row'[r] = "error"
        BY <2>1, <2>2
    <2>4. \A q \in Runs : q # r => reported'[q] = reported[q] /\ row'[q] = row[q]
        BY <2>1
    <2>5. Fresh'
        BY <1>1, <1>2, <2>2, <2>4 DEF Fresh
    <2>6. Alive'
        BY <1>1, <1>2 DEF Alive
    <2>7. Punctual'
        <3> SUFFICES ASSUME NEW v \in Workers \ late, NEW q \in Active(v),
                            row'[q] \in InFlight
                     PROVE  age'[q] <= (IF missed[v] THEN Beat ELSE 0) + beat[v]
            BY <1>1, <1>2 DEF Punctual
        <3>1. q \in Runs /\ age[q] <= (IF missed[v] THEN Beat ELSE 0) + beat[v]
            BY <2>3, <2>4 DEF Active, Punctual, InFlight
        <3>2. 0 <= (IF missed[v] THEN Beat ELSE 0) + beat[v]
            BY BeatAssumption
        <3> QED BY <2>1, <3>1, <3>2
    <2>8. Settles'
        BY <2>3, <2>4 DEF Settles, InFlight
    <2>9. LiveRunsSurvive'
        <3>1. ASSUME NEW v \in Workers, NEW q \in Active(v), reported'[q] # {}
              PROVE  v \in late
            <4>1. q \in Runs
                BY DEF Active
            <4> QED BY <2>2, <2>4, <3>1, <4>1, LiveRunsAreNotStale DEF LiveRunsSurvive
        <3> QED BY <1>1, <1>2, <3>1 DEF LiveRunsSurvive
    <2>10. OwnRunsNeverSwept'
        <3>1. ASSUME NEW v \in Workers, NEW q \in Active(v)
              PROVE  v \notin reported'[q]
            <4>1. q \in Runs
                BY DEF Active
            <4> QED BY <2>2, <2>3, <2>4, <4>1 DEF OwnRunsNeverSwept
        <3> QED BY <1>2, <3>1 DEF OwnRunsNeverSwept
    <2> QED BY <2>5, <2>6, <2>7, <2>8, <2>9, <2>10
<1> QED BY <1>3, <1>4

\* A new run is nobody's candidate, unreported and freshly touched.
LEMMA CreateInv ==
    ASSUME IInv, TypeOK', NEW w \in Workers, NEW r \in Runs, Create(w, r)
    PROVE  IInv'
<1> USE DEF IInv, TypeOK
<1>1. /\ step[r] = "none" /\ up[w] /\ reported[r] = {}
      /\ \A v \in Workers : r \notin candidates[v]
    BY DEF Create, Fresh
<1>2. /\ step' = [step EXCEPT ![r] = "queued"] /\ owner' = [owner EXCEPT ![r] = w]
      /\ row' = [row EXCEPT ![r] = "pending"] /\ age' = [age EXCEPT ![r] = 0]
      /\ UNCHANGED <<up, beat, missed, late, candidates, reported>>
    BY DEF Create, InsertRow, clockVars, passVars
<1>3. \A v \in Workers : \A q \in Active(v)' : q \in Runs /\ (q # r => q \in Active(v))
    BY <1>2 DEF Active
<1>4. r \in Active(w)' /\ \A v \in Workers : v # w => r \notin Active(v)'
    BY <1>2 DEF Active
<1>5. Fresh'
    BY <1>1, <1>2, <1>3 DEF Fresh
<1>6. Alive'
    BY <1>1, <1>2, <1>3, <1>4 DEF Alive
<1>7. Punctual'
    <2> SUFFICES ASSUME NEW v \in Workers \ late, NEW q \in Active(v)',
                        row'[q] \in InFlight
                 PROVE  age'[q] <= (IF missed[v] THEN Beat ELSE 0) + beat[v]
        BY <1>2 DEF Punctual
    <2>1. CASE q = r
        BY <1>2, <2>1, BeatAssumption
    <2>2. CASE q # r
        BY <1>2, <1>3, <2>2 DEF Punctual
    <2> QED BY <2>1, <2>2
<1>8. Settles'
    BY <1>1, <1>2 DEF Settles
<1>9. LiveRunsSurvive' /\ OwnRunsNeverSwept'
    BY <1>1, <1>2, <1>3 DEF LiveRunsSurvive, OwnRunsNeverSwept
<1> QED BY <1>5, <1>6, <1>7, <1>8, <1>9

\* Time passes for the rows and for the processes that must keep them alive.
LEMMA TickInv ==
    ASSUME IInv, TypeOK', Tick
    PROVE  IInv'
<1> USE DEF IInv, TypeOK
<1>1. /\ UNCHANGED <<row, step, owner, up, missed, late, candidates, reported>>
      /\ \A w \in Workers : beat'[w] = IF up[w] THEN beat[w] + 1 ELSE beat[w]
      /\ \A r \in Runs : age'[r] = IF row[r] \in InFlight THEN Older(age[r]) ELSE age[r]
    BY DEF Tick, runVars, passVars
<1>2. \A w \in Workers : Active(w)' = Active(w)
    BY <1>1 DEF Active
<1>3. Punctual'
    <2> SUFFICES ASSUME NEW w \in Workers \ late, NEW r \in Active(w),
                        row[r] \in InFlight
                 PROVE  age'[r] <= (IF missed[w] THEN Beat ELSE 0) + beat'[w]
        BY <1>1, <1>2 DEF Punctual
    <2>1. r \in Runs /\ up[w] /\ age[r] <= (IF missed[w] THEN Beat ELSE 0) + beat[w]
        BY DEF Active, Punctual, Alive
    <2>2. age[r] \in Nat /\ beat[w] \in Nat /\ age'[r] \in Nat /\ age'[r] <= age[r] + 1
        BY <1>1, <2>1, Data, TimeoutAssumption, BeatAssumption
    <2>3. beat'[w] = beat[w] + 1
        BY <1>1, <2>1
    <2> QED BY <2>1, <2>2, <2>3, BeatAssumption
<1> QED BY <1>1, <1>2, <1>3 DEF Fresh, Alive, Settles, LiveRunsSurvive, OwnRunsNeverSwept

\* A heartbeat touches every run of its process that is in flight; one that
\* fails leaves the process one missed beat, or makes it late.
LEMMA HeartbeatInv ==
    ASSUME IInv, TypeOK', NEW w \in Workers, Heartbeat(w)
    PROVE  IInv'
<1> USE DEF IInv, TypeOK
<1>1. /\ UNCHANGED <<row, step, owner, up, candidates, reported>>
      /\ late \subseteq late'
      /\ beat' = [beat EXCEPT ![w] = 0]
    BY DEF Heartbeat, HeartbeatRuns, HeartbeatFails, storeVars, runVars, passVars
<1>2. \A v \in Workers : Active(v)' = Active(v)
    BY <1>1 DEF Active
<1>3. Punctual'
    <2> SUFFICES ASSUME NEW v \in Workers \ late', NEW r \in Active(v),
                        row[r] \in InFlight
                 PROVE  age'[r] <= (IF missed'[v] THEN Beat ELSE 0) + beat'[v]
        BY <1>1, <1>2 DEF Punctual
    <2>1. r \in Runs /\ age[r] <= (IF missed[v] THEN Beat ELSE 0) + beat[v]
        BY <1>1 DEF Active, Punctual
    <2>2. age[r] \in Nat /\ beat[v] \in Nat /\ beat[v] <= Beat
        BY <2>1, TimeoutAssumption, BeatAssumption
    <2>3. CASE HeartbeatRuns(w)
        <3>1. /\ age'[r] = IF r \in Active(w) /\ row[r] \in InFlight THEN 0 ELSE age[r]
              /\ missed' = [missed EXCEPT ![w] = FALSE]
            BY <2>1, <2>3 DEF HeartbeatRuns, Touched
        <3>2. CASE v # w
            BY <1>1, <2>1, <2>2, <3>1, <3>2, BeatAssumption
        <3>3. CASE v = w
            BY <1>1, <3>1, <3>3, BeatAssumption
        <3> QED BY <3>2, <3>3
    <2>4. CASE HeartbeatFails(w)
        <3>1. /\ age' = age /\ missed' = [missed EXCEPT ![w] = TRUE]
              /\ missed[w] => w \in late'
            BY <2>4 DEF HeartbeatFails, storeVars
        <3>2. CASE v # w
            BY <1>1, <2>1, <3>1, <3>2
        <3>3. CASE v = w
            <4>1. ~missed[w]
                BY <3>1, <3>3
            <4> QED BY <1>1, <2>1, <2>2, <3>1, <3>3, <4>1, BeatAssumption
        <3> QED BY <3>2, <3>3
    <2> QED BY <2>3, <2>4 DEF Heartbeat
<1> QED BY <1>1, <1>2, <1>3 DEF Fresh, Alive, Settles, LiveRunsSurvive, OwnRunsNeverSwept

\* A process that dies executes nothing any more, and one that starts has
\* nothing to execute yet.
LEMMA CrashInv ==
    ASSUME IInv, TypeOK', NEW w \in Workers, Crash(w) \/ Restart(w)
    PROVE  IInv'
<1> USE DEF IInv, TypeOK
<1>1. /\ UNCHANGED <<row, age, owner, late, reported>>
      /\ \A r \in Runs : step[r] # "none" <=> step'[r] # "none"
      /\ \A v \in Workers : candidates'[v] \subseteq candidates[v]
      /\ \A v \in Workers \ {w} : /\ up'[v] = up[v] /\ beat'[v] = beat[v]
                                 /\ missed'[v] = missed[v]
    <2>1. CASE Crash(w)
        BY <2>1 DEF Crash, storeVars, Active
    <2>2. CASE Restart(w)
        BY <2>2 DEF Restart, storeVars, runVars, passVars
    <2> QED BY <2>1, <2>2
<1>2. \A v \in Workers : Active(v)' \subseteq Active(v)
    BY DEF Crash, Restart, runVars, Active
<1>3. Active(w)' = {}
    <2>1. CASE Crash(w)
        BY <2>1 DEF Crash, Active
    <2>2. CASE Restart(w)
        BY <2>2 DEF Restart, Active, Alive, runVars
    <2> QED BY <2>1, <2>2
<1>4. Fresh'
    BY <1>1, <1>2 DEF Fresh
<1>5. Alive'
    BY <1>1, <1>2, <1>3 DEF Alive
<1>6. Punctual'
    BY <1>1, <1>2, <1>3 DEF Punctual
<1> QED BY <1>1, <1>2, <1>4, <1>5, <1>6 DEF Settles, LiveRunsSurvive, OwnRunsNeverSwept

\* The invariant holds of every behaviour.
THEOREM SweepInvariant == Spec => []IInv
<1>1. Init => IInv
    <2> SUFFICES ASSUME Init PROVE IInv
        OBVIOUS
    <2>1. \A w \in Workers : Active(w) = {}
        BY DEF Init, Active
    <2>2. TypeOK
        BY Data, BeatAssumption, LimitsAssumption
           DEF Init, TypeOK, RowStates, ThreadStates, Steps, Jobs, Awaits
    <2>3. Fresh /\ Settles
        BY DEF Init, Fresh, Settles
    <2> QED BY <2>1, <2>2, <2>3 DEF IInv, Alive, Punctual, LiveRunsSurvive, OwnRunsNeverSwept
<1>2. IInv /\ TypeOK' /\ [Next]_vars => IInv'
    <2> SUFFICES ASSUME IInv, TypeOK', [Next]_vars PROVE IInv'
        OBVIOUS
    <2>1. CASE RunStep
        BY <2>1, CreateInv, RunStepsAreQuiet, QuietInv DEF RunStep
    <2>2. CASE Tick
        BY <2>2, TickInv
    <2>3. ASSUME NEW w \in Workers, SweepPass(w)
          PROVE  IInv'
        BY <2>3, SweepStepsAreQuiet, ClaimInv, QuietInv DEF SweepPass
    <2>4. ASSUME NEW w \in Workers, Heartbeat(w) \/ Crash(w) \/ Restart(w)
          PROVE  IInv'
        BY <2>4, HeartbeatInv, CrashInv
    <2>5. CASE UNCHANGED vars
        BY <2>5 DEF vars, storeVars, runVars, clockVars, passVars, boundVars, IInv, TypeOK,
           Fresh, Alive, Punctual, Settles, Active, LiveRunsSurvive, OwnRunsNeverSwept
    <2> QED BY <2>1, <2>2, <2>3, <2>4, <2>5 DEF Next
<1> QED BY <1>1, <1>2, SweepTypeCorrect, PTL DEF Spec

\* A process that keeps its heartbeats keeps its runs, for every timeout of
\* three heartbeats or more.
THEOREM LiveRunsAreSafe == Spec => []LiveRunsSurvive
    BY SweepInvariant, PTL DEF IInv

\* No process fails a run that it executes.
THEOREM OwnRunsAreSafe == Spec => []OwnRunsNeverSwept
    BY SweepInvariant, PTL DEF IInv

\* However many sweep, each run is reported failed once at most.
THEOREM RunsAreReportedOnce == Spec => []ReportedOnce
<1>1. IInv => ReportedOnce
    <2> SUFFICES ASSUME IInv, NEW r \in Runs PROVE Cardinality(reported[r]) <= 1
        BY DEF ReportedOnce
    <2>1. CASE reported[r] = {}
        BY <2>1, FS_EmptySet
    <2>2. CASE reported[r] # {}
        <3>1. PICK w : w \in reported[r]
            BY <2>2
        <3>2. reported[r] = {w}
            BY <3>1 DEF IInv, Settles
        <3> QED BY <3>2, FS_Singleton
    <2> QED BY <2>1, <2>2
<1> QED BY <1>1, SweepInvariant, PTL
=============================================================================
