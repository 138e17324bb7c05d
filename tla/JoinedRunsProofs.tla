--------------------------- MODULE JoinedRunsProofs ---------------------------
(***************************************************************************)
(* Proofs about JoinedRuns, for any runs, joiners and settings: what a     *)
(* joiner is told is how the run ended, no local run is refused, and the   *)
(* shutdown leaves no run in flight, except the runs that were stranded.   *)
(*                                                                         *)
(* The registry, the rows and the streams are read at different moments,   *)
(* so the invariant ties them to one another run by run (Hands): a run     *)
(* that is not tracked is over, its row settled unless it is stranded or   *)
(* the shutdown has still to sweep it, and its stream is open exactly      *)
(* while its producer is tracked.  Joins says what a joiner may still rely *)
(* on at each await.                                                       *)
(*                                                                         *)
(* Kept, an invariant relative to that one, is about the finished streams: *)
(* how deque, map, clock and cap agree on which of them are retained.      *)
(***************************************************************************)
EXTENDS JoinedRuns, SequenceTheorems, WellFoundedInduction, TLAPS

Fates   == {"unborn", "queued", "inserted", "running", "saved", "ended", "unwound",
            "stranded"}
Holders == {None, "job", "admission", "producer"}
Waits   == {"admission", "waiting", "reread", "collect", "attached"}

Types ==
  /\ clock \in Nat
  /\ closedAt \in [Runs -> {Unopened, Live} \union Nat]
  /\ row \in [Runs -> {"none", "live"} \union Terminal]
  /\ task \in [Runs -> Holders]
  /\ work \in [Runs -> Fates]
  /\ completion \in [Runs -> {None, "pending", "resolved"}]
  /\ published \in [Runs -> BOOLEAN]
  /\ jpc \in [Joiners -> {"idle", "done"} \union Waits]
  /\ jmode \in [Joiners -> {"join", "tail", "replay"}]
  /\ ended \in [Joiners -> BOOLEAN]
  /\ answer \in [Joiners -> {None, "missing", "refused", "live", "ended", "left"} \union Terminal]
  /\ server \in {"up", "waiting", "sweeping", "off"}
  /\ active \subseteq Runs

\* Which hand a run is in, and what row, stream and completion say meanwhile.
Hand(r) ==
  /\ task[r] = None => work[r] = "unborn" \/ Done(r)
  /\ work[r] = "unborn" => task[r] = None
  /\ work[r] \in {"unborn", "queued", "inserted"} => ~published[r] /\ task[r] # "producer"
  /\ work[r] = "unborn" => row[r] = "none"
  /\ work[r] = "queued" => task[r] \in {"job", "admission"} /\ (task[r] = "job" => row[r] = "live")
  /\ work[r] = "inserted" => task[r] = "admission" /\ row[r] = "live"
  /\ work[r] \in {"running", "saved"} => task[r] \in {"job", "producer"} /\ ~published[r]
  /\ work[r] = "running" => row[r] = "live"
  /\ work[r] = "queued" /\ task[r] = "admission" => row[r] = "none"
  /\ work[r] \in {"saved", "ended"} => row[r] # "live"
  /\ Done(r) => task[r] \in {None, "producer"}
  /\ work[r] = "stranded" => task[r] = None
  /\ completion[r] = "pending" <=> task[r] = "producer"
  /\ closedAt[r] = Live <=> task[r] = "producer"
  /\ published[r] => row[r] # "live"

\* A published event is on a stream that is closed or still to be finalized.
Heard(r) ==
  /\ closedAt[r] \in Nat => published[r]
  /\ published[r] => Done(r) /\ (task[r] = "producer" \/ closedAt[r] \in Nat)

\* What a run that nobody holds may have left to the shutdown's sweep, or for good.
Left(r) ==
  /\ row[r] = "live" /\ ~Tracked(r) =>
       work[r] = "stranded" \/ (server # "up" /\ r \in active)
  /\ Tracked(r) /\ server # "up" => server = "waiting" /\ r \in active
  /\ server = "off" => r \notin active

Hands == \A r \in Runs : Hand(r) /\ Heard(r) /\ Left(r)

\* What a joiner relies on.
Joined(j) ==
  /\ jpc[j] \in Waits => server = "up" /\ work[Asks[j]] # "unborn"
  /\ jpc[j] \in {"reread", "collect"} => ~Tracked(Asks[j])
  /\ jpc[j] = "attached" /\ published[Asks[j]] => ended[j]
  /\ answer[j] \in Terminal => ~Tracked(Asks[j]) /\ work[Asks[j]] # "unborn"
  /\ answer[j] \in Terminal => row[Asks[j]] \in {answer[j], "none"}
  /\ answer[j] \in {"live", "refused"} => work[Asks[j]] = "stranded"

Joins == \A j \in Joiners : Joined(j)

IInv == Types /\ Hands /\ Joins

-----------------------------------------------------------------------------
(***************************************************************************)
(* The steps of a run, and the sweep of its row.                           *)
(***************************************************************************)
\* A background run has its row and its task at once.
LEMMA CreateJobKeeps ==
    ASSUME IInv, NEW r \in Runs, CreateJob(r)
    PROVE  IInv'
<1> USE CancelsAssumption
        DEF IInv, Types, Fates, Holders, Waits, Terminal, Unopened, Live, None, Work, Row, Done,
            Tracked, JoinUnchanged, runVars, hearing, joinVars, downVars, streamVars
<1>1. Types'
    BY DEF CreateJob
<1>2. Hands'
    BY DEF Hands, Hand, Heard, Left, CreateJob
<1>3. Joins'
    BY DEF Hands, Hand, Heard, Left, Joins, Joined, CreateJob
<1> QED BY <1>1, <1>2, <1>3

\* A streaming run is tracked before it has a row.
LEMMA CreateStreamKeeps ==
    ASSUME IInv, NEW r \in Runs, CreateStream(r)
    PROVE  IInv'
<1> USE CancelsAssumption
        DEF IInv, Types, Fates, Holders, Waits, Terminal, Unopened, Live, None, Work, Row, Done,
            Tracked, JoinUnchanged, runVars, hearing, joinVars, downVars, streamVars
<1>1. Types'
    BY DEF CreateStream
<1>2. Hands'
    BY DEF Hands, Hand, Heard, Left, CreateStream
<1>3. Joins'
    BY DEF Hands, Hand, Heard, Left, Joins, Joined, CreateStream
<1> QED BY <1>1, <1>2, <1>3

\* A run that never began is forgotten; only the shutdown may find its row.
LEMMA LeaveQueueKeeps ==
    ASSUME IInv, NEW r \in Runs, LeaveQueue(r)
    PROVE  IInv'
<1> USE CancelsAssumption
        DEF IInv, Types, Fates, Holders, Waits, Terminal, Unopened, Live, None, Work, Row, Done,
            Tracked, JoinUnchanged, runVars, hearing, joinVars, downVars, streamVars
<1>1. Types'
    BY DEF LeaveQueue, Forget, Strand
<1>2. Hands'
    BY DEF Hands, Hand, Heard, Left, LeaveQueue, Forget, Strand
<1>3. Joins'
    BY DEF Hands, Hand, Heard, Left, Joins, Joined, LeaveQueue, Forget, Strand
<1> QED BY <1>1, <1>2, <1>3

\* The lock's next run begins.
LEMMA BeginKeeps ==
    ASSUME IInv, NEW r \in Runs, Begin(r)
    PROVE  IInv'
<1> USE CancelsAssumption
        DEF IInv, Types, Fates, Holders, Waits, Terminal, Unopened, Live, None, Work, Row, Done,
            Tracked, JoinUnchanged, runVars, hearing, joinVars, downVars, streamVars
<1>1. Types'
    BY DEF Begin
<1>2. Hands'
    BY DEF Hands, Hand, Heard, Left, Begin
<1>3. Joins'
    BY DEF Hands, Hand, Heard, Left, Joins, Joined, Begin
<1> QED BY <1>1, <1>2, <1>3

\* The producer takes over with an open stream.
LEMMA HandOffKeeps ==
    ASSUME IInv, NEW r \in Runs, HandOff(r)
    PROVE  IInv'
<1> USE CancelsAssumption
        DEF IInv, Types, Fates, Holders, Waits, Terminal, Unopened, Live, None, Work, Row, Done,
            Tracked, JoinUnchanged, runVars, hearing, joinVars, downVars, streamVars
<1>1. Types'
    BY DEF HandOff, OpenStream
<1>2. Hands'
    BY DEF Hands, Hand, Heard, Left, HandOff, OpenStream
<1>3. Joins'
    BY DEF Hands, Hand, Heard, Left, Joins, Joined, HandOff, OpenStream
<1> QED BY <1>1, <1>2, <1>3

\* A cancelled insert leaves an interrupted row.
LEMMA UndoInsertKeeps ==
    ASSUME IInv, NEW r \in Runs, UndoInsert(r)
    PROVE  IInv'
<1> USE CancelsAssumption
        DEF IInv, Types, Fates, Holders, Waits, Terminal, Unopened, Live, None, Work, Row, Done,
            Tracked, JoinUnchanged, runVars, hearing, joinVars, downVars, streamVars
<1>1. Types'
    BY DEF UndoInsert, Forget, Strand
<1>2. Hands'
    BY DEF Hands, Hand, Heard, Left, UndoInsert, Forget, Strand
<1>3. Joins'
    BY DEF Hands, Hand, Heard, Left, Joins, Joined, UndoInsert, Forget, Strand
<1> QED BY <1>1, <1>2, <1>3

\* The row is settled while the run is tracked.
LEMMA SaveOutcomeKeeps ==
    ASSUME IInv, NEW r \in Runs, SaveOutcome(r)
    PROVE  IInv'
<1> USE CancelsAssumption
        DEF IInv, Types, Fates, Holders, Waits, Terminal, Unopened, Live, None, Work, Row, Done,
            Tracked, JoinUnchanged, runVars, hearing, joinVars, downVars, streamVars
<1>1. Types'
    BY DEF SaveOutcome
<1>2. Hands'
    BY DEF Hands, Hand, Heard, Left, SaveOutcome
<1>3. Joins'
    BY DEF Hands, Hand, Heard, Left, Joins, Joined, SaveOutcome
<1> QED BY <1>1, <1>2, <1>3

\* The terminal event follows the row.
LEMMA EndProducerKeeps ==
    ASSUME IInv, NEW r \in Runs, EndProducer(r)
    PROVE  IInv'
<1> USE CancelsAssumption
        DEF IInv, Types, Fates, Holders, Waits, Terminal, Unopened, Live, None, Work, Row, Done,
            Tracked, JoinUnchanged, runVars, hearing, joinVars, downVars, streamVars
<1>1. Types'
    BY DEF EndProducer, Publish
<1>2. Hands'
    BY DEF Hands, Hand, Heard, Left, EndProducer, Publish
<1>3. Joins'
  <2> SUFFICES ASSUME NEW j \in Joiners PROVE Joined(j)'
      BY DEF Joins
  <2>1. Joined(j) /\ Hand(r)
      BY DEF Joins, Hands
  <2>2. /\ task[r] = "producer" /\ work[r] \notin {"unborn", "stranded"} /\ work'[r] # "unborn"
        /\ UNCHANGED <<jpc, jmode, answer, task, server>>
        /\ \A q \in Runs : q # r => /\ row'[q] = row[q] /\ work'[q] = work[q]
                                    /\ published'[q] = published[q]
      BY DEF EndProducer, Publish
  <2>3. ended'[j] = (ended[j] \/ (jpc[j] = "attached" /\ Asks[j] = r))
      BY DEF EndProducer, Publish
  <2>4. jpc'[j] = "attached" /\ published'[Asks[j]] => ended'[j]
      BY <2>1, <2>2, <2>3 DEF Joined
  <2>5. /\ Asks[j] \in Runs
        /\ answer[j] \in Terminal \union {"live", "refused"} => Asks[j] # r
      BY <2>1, <2>2 DEF Joined
  <2> QED BY <2>1, <2>2, <2>4, <2>5 DEF Joined
<1> QED BY <1>1, <1>2, <1>3

\* A cancelled producer leaves row and event to its finalizer.
LEMMA UnwindProducerKeeps ==
    ASSUME IInv, NEW r \in Runs, UnwindProducer(r)
    PROVE  IInv'
<1> USE CancelsAssumption
        DEF IInv, Types, Fates, Holders, Waits, Terminal, Unopened, Live, None, Work, Row, Done,
            Tracked, JoinUnchanged, runVars, hearing, joinVars, downVars, streamVars
<1>1. Types'
    BY DEF UnwindProducer
<1>2. Hands'
    BY DEF Hands, Hand, Heard, Left, UnwindProducer
<1>3. Joins'
    BY DEF Hands, Hand, Heard, Left, Joins, Joined, UnwindProducer
<1> QED BY <1>1, <1>2, <1>3

\* A job settles its row before it is forgotten.
LEMMA EndJobKeeps ==
    ASSUME IInv, NEW r \in Runs, EndJob(r)
    PROVE  IInv'
<1> USE CancelsAssumption
        DEF IInv, Types, Fates, Holders, Waits, Terminal, Unopened, Live, None, Work, Row, Done,
            Tracked, JoinUnchanged, runVars, hearing, joinVars, downVars, streamVars
<1>1. Types'
    BY DEF EndJob, Forget, Strand
<1>2. Hands'
    BY DEF Hands, Hand, Heard, Left, EndJob, Forget, Strand
<1>3. Joins'
    BY DEF Hands, Hand, Heard, Left, Joins, Joined, EndJob, Forget, Strand
<1> QED BY <1>1, <1>2, <1>3

\* The finalizer settles the row, then publishes.
LEMMA MarkInterruptedKeeps ==
    ASSUME IInv, NEW r \in Runs, MarkInterrupted(r)
    PROVE  IInv'
<1> USE CancelsAssumption
        DEF IInv, Types, Fates, Holders, Waits, Terminal, Unopened, Live, None, Work, Row, Done,
            Tracked, JoinUnchanged, runVars, hearing, joinVars, downVars, streamVars
<1>1. Types'
    BY DEF MarkInterrupted, Publish
<1>2. Hands'
    BY DEF Hands, Hand, Heard, Left, MarkInterrupted, Publish
<1>3. Joins'
  <2> SUFFICES ASSUME NEW j \in Joiners PROVE Joined(j)'
      BY DEF Joins
  <2>1. Joined(j) /\ Hand(r)
      BY DEF Joins, Hands
  <2>2. /\ task[r] = "producer" /\ work[r] \notin {"unborn", "stranded"} /\ work'[r] # "unborn"
        /\ UNCHANGED <<jpc, jmode, answer, task, server>>
        /\ \A q \in Runs : q # r => /\ row'[q] = row[q] /\ work'[q] = work[q]
                                    /\ published'[q] = published[q]
      BY DEF MarkInterrupted, Publish
  <2>3. ended'[j] = (ended[j] \/ (jpc[j] = "attached" /\ Asks[j] = r))
      BY DEF MarkInterrupted, Publish
  <2>4. jpc'[j] = "attached" /\ published'[Asks[j]] => ended'[j]
      BY <2>1, <2>2, <2>3 DEF Joined
  <2>5. /\ Asks[j] \in Runs
        /\ answer[j] \in Terminal \union {"live", "refused"} => Asks[j] # r
      BY <2>1, <2>2 DEF Joined
  <2> QED BY <2>1, <2>2, <2>4, <2>5 DEF Joined
<1> QED BY <1>1, <1>2, <1>3

\* The finalizer forgets a run that is settled and told.
LEMMA FinalizeKeeps ==
    ASSUME IInv, NEW r \in Runs, Finalize(r)
    PROVE  IInv'
<1> USE CancelsAssumption
        DEF IInv, Types, Fates, Holders, Waits, Terminal, Unopened, Live, None, Work, Row, Done,
            Tracked, JoinUnchanged, runVars, hearing, joinVars, downVars, streamVars
<1>1. Types'
    BY DEF Finalize, Forget, CloseStream
<1>2. Hands'
    BY DEF Hands, Hand, Heard, Left, Finalize, Forget, CloseStream
<1>3. Joins'
    BY DEF Hands, Hand, Heard, Left, Joins, Joined, Finalize, Forget, CloseStream
<1> QED BY <1>1, <1>2, <1>3

\* A cancellation is noticed later.
LEMMA CancelKeeps ==
    ASSUME IInv, NEW r \in Runs, Cancel(r)
    PROVE  IInv'
<1> USE CancelsAssumption
        DEF IInv, Types, Fates, Holders, Waits, Terminal, Unopened, Live, None, Work, Row, Done,
            Tracked, JoinUnchanged, runVars, hearing, joinVars, downVars, streamVars
<1>1. Types'
    BY DEF Cancel, CancelTask
<1>2. Hands'
    BY DEF Hands, Hand, Heard, Left, Cancel, CancelTask
<1>3. Joins'
    BY DEF Hands, Hand, Heard, Left, Joins, Joined, Cancel, CancelTask
<1> QED BY <1>1, <1>2, <1>3

\* Only settled rows are deleted.
LEMMA DeleteKeeps ==
    ASSUME IInv, NEW r \in Runs, Delete(r)
    PROVE  IInv'
<1> USE CancelsAssumption
        DEF IInv, Types, Fates, Holders, Waits, Terminal, Unopened, Live, None, Work, Row, Done,
            Tracked, JoinUnchanged, runVars, hearing, joinVars, downVars, streamVars
<1>1. Types'
    BY DEF Delete
<1>2. Hands'
    BY DEF Hands, Hand, Heard, Left, Delete
<1>3. Joins'
    BY DEF Hands, Hand, Heard, Left, Joins, Joined, Delete
<1> QED BY <1>1, <1>2, <1>3

\* A stranded row is ended by others.
LEMMA EndStrandedKeeps ==
    ASSUME IInv, NEW r \in Runs, EndStranded(r)
    PROVE  IInv'
<1> USE CancelsAssumption
        DEF IInv, Types, Fates, Holders, Waits, Terminal, Unopened, Live, None, Work, Row, Done,
            Tracked, JoinUnchanged, runVars, hearing, joinVars, downVars, streamVars
<1>1. Types'
    BY DEF EndStranded
<1>2. Hands'
    BY DEF Hands, Hand, Heard, Left, EndStranded
<1>3. Joins'
    BY DEF Hands, Hand, Heard, Left, Joins, Joined, EndStranded
<1> QED BY <1>1, <1>2, <1>3

\* The sweep settles what was left.
LEMMA SweepRowKeeps ==
    ASSUME IInv, NEW r \in Runs, SweepRow(r)
    PROVE  IInv'
<1> USE CancelsAssumption
        DEF IInv, Types, Fates, Holders, Waits, Terminal, Unopened, Live, None, Work, Row, Done,
            Tracked, JoinUnchanged, runVars, hearing, joinVars, downVars, streamVars
<1>1. Types'
    BY DEF SweepRow
<1>2. Hands'
    BY DEF Hands, Hand, Heard, Left, SweepRow
<1>3. Joins'
    BY DEF Hands, Hand, Heard, Left, Joins, Joined, SweepRow
<1> QED BY <1>1, <1>2, <1>3

-----------------------------------------------------------------------------
(***************************************************************************)
(* The steps of a joiner.                                                  *)
(***************************************************************************)
\* A joiner learns that the run exists.
LEMMA LookupKeeps ==
    ASSUME IInv, NEW j \in Joiners, Lookup(j)
    PROVE  IInv'
<1> USE CancelsAssumption
        DEF IInv, Types, Fates, Holders, Waits, Terminal, Unopened, Live, None, Work, Row, Done,
            Tracked, JoinUnchanged, runVars, hearing, joinVars, downVars, streamVars
<1>1. Types'
    BY DEF Lookup, Jump, Answer
<1>2. Hands'
    BY DEF Hands, Hand, Heard, Left, Lookup, Jump, Answer
<1>3. Joins'
    BY DEF Hands, Hand, Heard, Left, Joins, Joined, Lookup, Jump, Answer
<1> QED BY <1>1, <1>2, <1>3

\* A joiner waits, or reads again what is over.
LEMMA JoinKeeps ==
    ASSUME IInv, NEW j \in Joiners, Join(j)
    PROVE  IInv'
<1> USE CancelsAssumption
        DEF IInv, Types, Fates, Holders, Waits, Terminal, Unopened, Live, None, Work, Row, Done,
            Tracked, JoinUnchanged, runVars, hearing, joinVars, downVars, streamVars
<1>1. Types'
    BY DEF Join, Jump, Follow, Admitted
<1>2. Hands'
    BY DEF Hands, Hand, Heard, Left, Join, Jump, Follow, Admitted
<1>3. Joins'
    BY DEF Hands, Hand, Heard, Left, Joins, Joined, Join, Jump, Follow, Admitted
<1> QED BY <1>1, <1>2, <1>3

\* A subscriber attaches to a stream that still has the event to come, or to replay.
LEMMA JoinStreamKeeps ==
    ASSUME IInv, NEW j \in Joiners, JoinStream(j)
    PROVE  IInv'
<1> USE CancelsAssumption
        DEF IInv, Types, Fates, Holders, Waits, Terminal, Unopened, Live, None, Work, Row, Done,
            Tracked, JoinUnchanged, runVars, hearing, joinVars, downVars, streamVars
<1> DEFINE r == Asks[j]
           replays == jmode[j] = "replay" /\ kind[r] = "resumable"
<1>1. r \in Runs /\ Hand(r) /\ Heard(r) /\ Joined(j)
    BY DEF Hands, Joins
<1>2. /\ jpc[j] = "admission"
      /\ UNCHANGED <<clock, closedAt, row, task, work, completion, published, jmode, answer, server, active>>
    BY DEF JoinStream, Admitted, SweepStreams
<1>3. Hands'
    BY <1>2 DEF Hands, Hand, Heard, Left
<1>4. \A i \in Joiners : i # j => jpc'[i] = jpc[i] /\ ended'[i] = ended[i]
    BY DEF JoinStream, Jump, Follow
<1>5. \A i \in Joiners : i # j => Joined(i)'
    BY <1>2, <1>4 DEF Joins, Joined
<1>6. CASE r \in streams' /\ (replays \/ ~ProducerFinished(r))
  <2>1. jpc' = [jpc EXCEPT ![j] = "attached"] /\ ended' = [ended EXCEPT ![j] = replays /\ published[r]]
      BY <1>6 DEF JoinStream, Jump
  <2>2. published[r] => replays
      BY <1>1, <1>6 DEF Hand, Heard, ProducerFinished
  <2>3. Types'
      BY <1>1, <1>2, <2>1
  <2>4. Joined(j)'
      BY <1>1, <1>2, <2>1, <2>2 DEF Joined
  <2> QED BY <1>3, <1>5, <2>3, <2>4 DEF Joins
<1>7. CASE ~(r \in streams' /\ (replays \/ ~ProducerFinished(r)))
  <2>1. Follow(j) /\ UNCHANGED ended
      BY <1>7 DEF JoinStream
  <2>2. jpc' = [jpc EXCEPT ![j] = IF Tracked(r) THEN "waiting" ELSE "reread"]
      BY <2>1 DEF Follow, Jump
  <2>3. Types'
      BY <1>2, <2>1, <2>2
  <2>4. Joined(j)'
      BY <1>1, <1>2, <2>1, <2>2 DEF Joined
  <2> QED BY <1>3, <1>5, <2>3, <2>4 DEF Joins
<1> QED BY <1>6, <1>7

\* What was waited for is settled.
LEMMA WaitedKeeps ==
    ASSUME IInv, NEW j \in Joiners, Waited(j)
    PROVE  IInv'
<1> USE CancelsAssumption
        DEF IInv, Types, Fates, Holders, Waits, Terminal, Unopened, Live, None, Work, Row, Done,
            Tracked, JoinUnchanged, runVars, hearing, joinVars, downVars, streamVars
<1>1. Asks[j] \in Runs /\ Hand(Asks[j]) /\ Heard(Asks[j]) /\ Left(Asks[j]) /\ Joined(j)
    BY DEF Hands, Joins
<1>2. UNCHANGED <<clock, closedAt, row, task, work, completion, published, jmode, ended, server, active>>
    BY DEF Waited
<1>3. Hands'
    BY <1>2 DEF Hands, Hand, Heard, Left
<1>4. jpc' = [jpc EXCEPT ![j] = "collect"] /\ UNCHANGED answer /\ jpc[j] = "waiting" /\ Over(Asks[j])
    BY DEF Waited, Jump
<1>5. Types'
    BY <1>2, <1>4
<1>6. Joined(j)'
  <2>1. task[Asks[j]] = None
      BY <1>1, <1>4 DEF Over, Hand
  <2> QED BY <1>1, <1>2, <1>4, <2>1 DEF Joined
<1>7. \A i \in Joiners : i # j => Joined(i)'
  <2>1. \A i \in Joiners : i # j => jpc'[i] = jpc[i] /\ answer'[i] = answer[i]
      BY <1>4
  <2> QED BY <1>2, <2>1 DEF Joins, Joined
<1> QED BY <1>3, <1>5, <1>6, <1>7 DEF Joins

\* A row read again is in flight if its run is stranded.
LEMMA RereadKeeps ==
    ASSUME IInv, NEW j \in Joiners, Reread(j)
    PROVE  IInv'
<1> USE CancelsAssumption
        DEF IInv, Types, Fates, Holders, Waits, Terminal, Unopened, Live, None, Work, Row, Done,
            Tracked, JoinUnchanged, runVars, hearing, joinVars, downVars, streamVars
<1>1. Types'
    BY DEF Reread, Jump, Answer
<1>2. Hands'
    BY DEF Hands, Hand, Heard, Left, Reread, Jump, Answer
<1>3. Joins'
    BY DEF Hands, Hand, Heard, Left, Joins, Joined, Reread, Jump, Answer
<1> QED BY <1>1, <1>2, <1>3

\* The answer is the row.
LEMMA CollectKeeps ==
    ASSUME IInv, NEW j \in Joiners, Collect(j)
    PROVE  IInv'
<1> USE CancelsAssumption
        DEF IInv, Types, Fates, Holders, Waits, Terminal, Unopened, Live, None, Work, Row, Done,
            Tracked, JoinUnchanged, runVars, hearing, joinVars, downVars, streamVars
<1>1. Asks[j] \in Runs /\ Hand(Asks[j]) /\ Heard(Asks[j]) /\ Left(Asks[j]) /\ Joined(j)
    BY DEF Hands, Joins
<1>2. UNCHANGED <<clock, closedAt, row, task, work, completion, published, jmode, ended, server, active>>
    BY DEF Collect
<1>3. Hands'
    BY <1>2 DEF Hands, Hand, Heard, Left
<1>4. /\ jpc' = [jpc EXCEPT ![j] = "done"] /\ jpc[j] = "collect"
      /\ answer' = [answer EXCEPT ![j] = IF row[Asks[j]] = "none" THEN "missing" ELSE row[Asks[j]]]
    BY DEF Collect, Answer, Jump
<1>5. Types'
  <2>1. row[Asks[j]] \in {"none", "live"} \union Terminal
      BY <1>1
  <2> QED BY <1>1, <1>2, <1>4, <2>1
<1>6. Joined(j)'
    BY <1>1, <1>2, <1>4 DEF Joined, Left
<1>7. \A i \in Joiners : i # j => Joined(i)'
  <2>1. \A i \in Joiners : i # j => jpc'[i] = jpc[i] /\ answer'[i] = answer[i]
      BY <1>4
  <2> QED BY <1>2, <2>1 DEF Joins, Joined
<1> QED BY <1>3, <1>5, <1>6, <1>7 DEF Joins

\* A closed stream has carried its event.
LEMMA RelayedKeeps ==
    ASSUME IInv, NEW j \in Joiners, Relayed(j)
    PROVE  IInv'
<1> USE CancelsAssumption
        DEF IInv, Types, Fates, Holders, Waits, Terminal, Unopened, Live, None, Work, Row, Done,
            Tracked, JoinUnchanged, runVars, hearing, joinVars, downVars, streamVars
<1>1. Asks[j] \in Runs /\ Hand(Asks[j]) /\ Heard(Asks[j]) /\ Left(Asks[j]) /\ Joined(j)
    BY DEF Hands, Joins
<1>2. UNCHANGED <<clock, closedAt, row, task, work, completion, published, jmode, ended, server, active>>
    BY DEF Relayed
<1>3. Hands'
    BY <1>2 DEF Hands, Hand, Heard, Left
<1>4. /\ jpc' = [jpc EXCEPT ![j] = "done"] /\ jpc[j] = "attached" /\ closedAt[Asks[j]] >= 0
      /\ answer' = [answer EXCEPT ![j] = IF ended[j] THEN "ended" ELSE "cut"]
    BY DEF Relayed, Answer, Jump
<1>5. Types'
  <2>1. ended[j]
      BY <1>1, <1>4 DEF Joined, Heard
  <2> QED BY <1>1, <1>2, <1>4, <2>1
<1>6. Joined(j)'
  <2>1. ended[j]
      BY <1>1, <1>4 DEF Joined, Heard
  <2> QED BY <1>1, <1>2, <1>4, <2>1 DEF Joined
<1>7. \A i \in Joiners : i # j => Joined(i)'
  <2>1. \A i \in Joiners : i # j => jpc'[i] = jpc[i] /\ answer'[i] = answer[i]
      BY <1>4
  <2> QED BY <1>2, <2>1 DEF Joins, Joined
<1> QED BY <1>3, <1>5, <1>6, <1>7 DEF Joins

\* A client that leaves is told nothing.
LEMMA DisconnectKeeps ==
    ASSUME IInv, NEW j \in Joiners, Disconnect(j)
    PROVE  IInv'
<1> USE CancelsAssumption
        DEF IInv, Types, Fates, Holders, Waits, Terminal, Unopened, Live, None, Work, Row, Done,
            Tracked, JoinUnchanged, runVars, hearing, joinVars, downVars, streamVars
<1>1. Types'
    BY DEF Disconnect, Jump, Answer, CancelTask
<1>2. Hands'
    BY DEF Hands, Hand, Heard, Left, Disconnect, Jump, Answer, CancelTask
<1>3. Joins'
    BY DEF Hands, Hand, Heard, Left, Joins, Joined, Disconnect, Jump, Answer, CancelTask
<1> QED BY <1>1, <1>2, <1>3

-----------------------------------------------------------------------------
(***************************************************************************)
(* The process.                                                            *)
(***************************************************************************)
\* The shutdown lists what it has to settle.
LEMMA ShutDownKeeps ==
    ASSUME IInv, ShutDown
    PROVE  IInv'
<1> USE CancelsAssumption
        DEF IInv, Types, Fates, Holders, Waits, Terminal, Unopened, Live, None, Work, Row, Done,
            Tracked, JoinUnchanged, runVars, hearing, joinVars, downVars, streamVars
<1>1. Types'
    BY DEF ShutDown, Quiet, CancelAll
<1>2. Hands'
    BY DEF Hands, Hand, Heard, Left, ShutDown, Quiet, CancelAll
<1>3. Joins'
    BY DEF Hands, Hand, Heard, Left, Joins, Joined, ShutDown, Quiet, CancelAll
<1> QED BY <1>1, <1>2, <1>3

\* Nothing is tracked any more.
LEMMA AllUnwoundKeeps ==
    ASSUME IInv, AllUnwound
    PROVE  IInv'
<1> USE CancelsAssumption
        DEF IInv, Types, Fates, Holders, Waits, Terminal, Unopened, Live, None, Work, Row, Done,
            Tracked, JoinUnchanged, runVars, hearing, joinVars, downVars, streamVars
<1>1. Types'
    BY DEF AllUnwound, Over
<1>2. Hands'
    BY DEF Hands, Hand, Heard, Left, AllUnwound, Over
<1>3. Joins'
    BY DEF Hands, Hand, Heard, Left, Joins, Joined, AllUnwound, Over
<1> QED BY <1>1, <1>2, <1>3

\* The process ends.
LEMMA OffKeeps ==
    ASSUME IInv, Off
    PROVE  IInv'
<1> USE CancelsAssumption
        DEF IInv, Types, Fates, Holders, Waits, Terminal, Unopened, Live, None, Work, Row, Done,
            Tracked, JoinUnchanged, runVars, hearing, joinVars, downVars, streamVars
<1>1. Types'
    BY DEF Off
<1>2. Hands'
    BY DEF Hands, Hand, Heard, Left, Off
<1>3. Joins'
    BY DEF Hands, Hand, Heard, Left, Joins, Joined, Off
<1> QED BY <1>1, <1>2, <1>3

\* Time concerns the streams only.
LEMMA TimePassesKeeps ==
    ASSUME IInv, TimePasses
    PROVE  IInv'
<1> USE CancelsAssumption
        DEF IInv, Types, Fates, Holders, Waits, Terminal, Unopened, Live, None, Work, Row, Done,
            Tracked, JoinUnchanged, runVars, hearing, joinVars, downVars, streamVars
<1>1. Types'
    BY DEF TimePasses, Tick
<1>2. Hands'
    BY DEF Hands, Hand, Heard, Left, TimePasses, Tick
<1>3. Joins'
    BY DEF Hands, Hand, Heard, Left, Joins, Joined, TimePasses, Tick
<1> QED BY <1>1, <1>2, <1>3

\* No run has been created and nobody has asked.
LEMMA InitInv == Init => IInv
<1> SUFFICES ASSUME Init PROVE IInv
    OBVIOUS
<1> USE DEF Init, StreamsInit, Terminal, Unopened, Live, None, Done, Tracked, Waits
<1>1. Types
    BY DEF Types, Fates, Holders
<1>2. Hands
    BY DEF Hands, Hand, Heard, Left
<1>3. Joins
    BY DEF Joins, Joined
<1> QED BY <1>1, <1>2, <1>3 DEF IInv

\* The invariant holds in every reachable state.
LEMMA Invariance == Spec => []IInv
<1>1. IInv /\ [Next]_vars => IInv'
  <2> SUFFICES ASSUME IInv, [Next]_vars PROVE IInv'
      OBVIOUS
  <2>1. ASSUME NEW r \in Runs,
               \/ CreateJob(r) \/ CreateStream(r) \/ RunStep(r) \/ Cancel(r) \/ Delete(r)
               \/ EndStranded(r) \/ SweepRow(r)
        PROVE  IInv'
      BY <2>1, CreateJobKeeps, CreateStreamKeeps, LeaveQueueKeeps, BeginKeeps, HandOffKeeps,
         UndoInsertKeeps, SaveOutcomeKeeps, EndProducerKeeps, UnwindProducerKeeps, EndJobKeeps,
         MarkInterruptedKeeps, FinalizeKeeps, CancelKeeps, DeleteKeeps, EndStrandedKeeps,
         SweepRowKeeps
      DEF RunStep
  <2>2. ASSUME NEW j \in Joiners, Lookup(j) \/ JoinStep(j) \/ Disconnect(j)
        PROVE  IInv'
      BY <2>2, LookupKeeps, JoinKeeps, JoinStreamKeeps, WaitedKeeps, RereadKeeps, CollectKeeps,
         RelayedKeeps, DisconnectKeeps
      DEF JoinStep
  <2>3. CASE ShutDown \/ AllUnwound \/ Off \/ TimePasses
      BY <2>3, ShutDownKeeps, AllUnwoundKeeps, OffKeeps, TimePassesKeeps
  <2>4. CASE UNCHANGED vars
    <3>1. UNCHANGED <<clock, closedAt, row, task, work, completion, published, jpc, jmode, ended,
                      answer, server, active>>
        BY <2>4 DEF vars, streamVars, runVars, joinVars, hearing, downVars
    <3> QED BY <3>1 DEF IInv, Types, Hands, Hand, Heard, Left, Joins, Joined, Done, Tracked
  <2> QED BY <2>1, <2>2, <2>3, <2>4 DEF Next
<1> QED BY <1>1, InitInv, PTL DEF Spec

-----------------------------------------------------------------------------
\* Every variable that the argument uses keeps its type.
THEOREM JoinTypes == Spec => []Types
<1>1. IInv => Types
    BY DEF IInv
<1> QED BY <1>1, Invariance, PTL

\* A joiner is told how its run ended: nothing of a run in flight unless it is
\* stranded, never what another writer contradicts, and no subscription ends
\* without the terminal event (runs.py 547-598, 827-874, 1370-1384).
THEOREM JoinersAreToldTheOutcome == Spec => []JoinsTellTheOutcome
<1>1. IInv => JoinsTellTheOutcome
    BY DEF IInv, Types, Joins, Joined, JoinsTellTheOutcome, Terminal, None
<1> QED BY <1>1, Invariance, PTL

\* No run of this process is refused as another's while a task, a finalizer or
\* the store still has it: only a stranded one is (runs.py 228-247, 545-591).
THEOREM LocalRunsAreJoined == Spec => []OnlyStrandedRunsRefused
<1>1. IInv => OnlyStrandedRunsRefused
    BY DEF IInv, Joins, Joined, OnlyStrandedRunsRefused
<1> QED BY <1>1, Invariance, PTL

\* When the shutdown returns, a run still in flight was stranded before it
\* began (runs.py 1218-1230).
THEOREM ShutdownsSettleRows == Spec => []ShutdownSettlesRows
<1>1. IInv => ShutdownSettlesRows
    BY DEF IInv, Types, Hands, Left, ShutdownSettlesRows
<1> QED BY <1>1, Invariance, PTL

-----------------------------------------------------------------------------
(***************************************************************************)
(* The retention of finished streams.  The deque is what is left of the    *)
(* closed streams, in their order: Gone of them have left it, and a stream *)
(* has left it exactly if its time was up or the cap was passed.           *)
(***************************************************************************)
Gone == Len(closes) - Len(expiry)

InOrder(q, when) ==
  \A i, k \in DOMAIN q : i < k => q[i] # q[k] /\ when[q[i]] <= when[q[k]]

Closes ==
  /\ closes \in Seq(Runs)
  /\ \A i \in DOMAIN closes : closedAt[closes[i]] \in 0..clock
  /\ InOrder(closes, closedAt)

Deque ==
  /\ expiry \in Seq(Runs)
  /\ Gone \in 0..Len(closes)
  /\ expiry = SubSeq(closes, Gone + 1, Len(closes))

Lapsed ==
  /\ swept \in 0..clock
  /\ \A i \in DOMAIN closes :
       i <= Gone <=> \/ i <= Len(closes) - MaxRetained
                     \/ swept - closedAt[closes[i]] >= Retention

Mapped == streams = {r \in Runs : closedAt[r] = Live} \union InSeq(expiry)

Kept == Closes /\ Deque /\ Lapsed /\ Mapped

\* The end of a sequence, from behind its first n elements.
LEMMA SuffixIs ==
    ASSUME NEW q \in Seq(Runs), NEW n \in 0..Len(q)
    PROVE  /\ SubSeq(q, n + 1, Len(q)) \in Seq(Runs)
           /\ Len(SubSeq(q, n + 1, Len(q))) = Len(q) - n
           /\ \A i \in 1..(Len(q) - n) : SubSeq(q, n + 1, Len(q))[i] = q[n + i]
           /\ InSeq(SubSeq(q, n + 1, Len(q))) = {q[i] : i \in (n + 1)..Len(q)}
<1> DEFINE s == SubSeq(q, n + 1, Len(q))
<1>1. \A i \in (n + 1)..Len(q) : q[i] \in Runs
    BY ElementOfSeq
<1>2. /\ s \in Seq(Runs)
      /\ Len(s) = Len(q) - n
      /\ \A i \in 1..(Len(q) - n) : s[i] = q[n + i]
  <2>1. /\ s \in Seq(Runs)
        /\ Len(s) = IF n + 1 <= Len(q) THEN Len(q) - (n + 1) + 1 ELSE 0
        /\ \A i \in 1..(Len(q) - (n + 1) + 1) : s[i] = q[n + 1 + i - 1]
      BY <1>1, SubSeqProperties, LenProperties
  <2> QED BY <2>1, LenProperties
<1>3. InSeq(s) = {q[i] : i \in (n + 1)..Len(q)}
  <2>1. DOMAIN s = 1..(Len(q) - n)
      BY <1>2, LenProperties
  <2>2. ASSUME NEW i \in (n + 1)..Len(q) PROVE q[i] \in InSeq(s)
    <3>1. i - n \in 1..(Len(q) - n) /\ n + (i - n) = i
        BY LenProperties
    <3>2. s[i - n] = q[i]
        BY <1>2, <3>1
    <3> QED BY <2>1, <3>1, <3>2 DEF InSeq
  <2>3. ASSUME NEW i \in 1..(Len(q) - n) PROVE s[i] \in {q[k] : k \in (n + 1)..Len(q)}
    <3>1. n + i \in (n + 1)..Len(q)
        BY LenProperties
    <3> QED BY <1>2, <3>1
  <2> QED BY <2>1, <2>2, <2>3 DEF InSeq
<1> QED BY <1>2, <1>3

\* A suffix of a suffix.
LEMMA SuffixOfSuffix ==
    ASSUME NEW q \in Seq(Runs), NEW n \in 0..Len(q),
           NEW s, s = SubSeq(q, n + 1, Len(q)), NEW m \in 0..Len(s)
    PROVE  /\ n + m \in 0..Len(q)
           /\ SubSeq(s, m + 1, Len(s)) = SubSeq(q, n + m + 1, Len(q))
<1>1. /\ s \in Seq(Runs) /\ Len(s) = Len(q) - n
      /\ \A i \in 1..(Len(q) - n) : s[i] = q[n + i]
    BY SuffixIs
<1>2. n + m \in 0..Len(q)
    BY <1>1, LenProperties
<1> DEFINE a == SubSeq(s, m + 1, Len(s))
           b == SubSeq(q, n + m + 1, Len(q))
<1>3. a \in Seq(Runs) /\ Len(a) = Len(s) - m /\ \A i \in 1..(Len(s) - m) : a[i] = s[m + i]
    BY <1>1, SuffixIs
<1>4. b \in Seq(Runs) /\ Len(b) = Len(q) - (n + m) /\ \A i \in 1..(Len(q) - (n + m)) : b[i] = q[n + m + i]
    BY <1>2, SuffixIs
<1>5. Len(a) = Len(b)
    BY <1>1, <1>3, <1>4, LenProperties
<1>6. ASSUME NEW i \in 1..Len(a) PROVE a[i] = b[i]
  <2>1. /\ i \in 1..(Len(s) - m) /\ m + i \in 1..(Len(q) - n) /\ i \in 1..(Len(q) - (n + m))
        /\ n + (m + i) = n + m + i
      BY <1>1, <1>3, <1>5, LenProperties
  <2> QED BY <1>1, <1>3, <1>4, <2>1
<1> QED BY <1>2, <1>3, <1>4, <1>5, <1>6, SeqEqual

\* A nonempty set of positions has a first one.
LEMMA FirstOf ==
    ASSUME NEW S, S \subseteq Nat, S # {}
    PROVE  \E i \in S : \A k \in S : i <= k
<1> DEFINE R == OpToRel(<, Nat)
<1>1. \E i \in S : \A k \in S : ~(<<k, i>> \in R)
    BY NatLessThanWellFounded, WFMin
<1>2. ASSUME NEW i \in S, NEW k \in S, ~(<<k, i>> \in R) PROVE i <= k
  <2>1. ~(k < i)
      BY <1>2 DEF OpToRel
  <2> QED BY <2>1
<1> QED BY <1>1, <1>2

\* A sweep of streams in the order of their closing drops those whose time is up.
LEMMA SweptIs ==
    ASSUME NEW q \in Seq(Runs), NEW when, clock \in Nat,
           \A i \in DOMAIN q : when[q[i]] \in Nat, InOrder(q, when)
    PROVE  \E n \in 0..Len(q) :
             /\ Swept(q, when) = SubSeq(q, n + 1, Len(q))
             /\ \A i \in DOMAIN q : i <= n <=> clock - when[q[i]] >= Retention
<1> USE RetentionAssumption
<1> DEFINE fresh == {i \in DOMAIN q : ~Expired(q[i], when)}
           first == CHOOSE i \in fresh : \A k \in fresh : i <= k
<1>1. DOMAIN q = 1..Len(q) /\ Len(q) \in Nat
    BY LenProperties
<1>2. CASE fresh = {}
  <2>1. Swept(q, when) = <<>>
      BY <1>2 DEF Swept
  <2>2. SubSeq(q, Len(q) + 1, Len(q)) = <<>>
      BY <1>1, SubSeqEmpty
  <2>3. \A i \in DOMAIN q : i <= Len(q) <=> clock - when[q[i]] >= Retention
      BY <1>1, <1>2 DEF Expired
  <2> QED BY <1>1, <2>1, <2>2, <2>3
<1>3. CASE fresh # {}
  <2>1. first \in fresh /\ \A k \in fresh : first <= k
    <3>1. fresh \subseteq Nat
        BY <1>1
    <3> HIDE DEF fresh
    <3>2. \E i \in fresh : \A k \in fresh : i <= k
        BY <1>3, <3>1, FirstOf
    <3> QED BY <3>2
  <2>2. first - 1 \in 0..Len(q) /\ (first - 1) + 1 = first
      BY <1>1, <2>1
  <2>3. Swept(q, when) = SubSeq(q, (first - 1) + 1, Len(q))
      BY <1>3, <2>2 DEF Swept
  <2>4. ASSUME NEW i \in DOMAIN q PROVE i <= first - 1 <=> clock - when[q[i]] >= Retention
    <3>1. i <= first - 1 => i \notin fresh
        BY <1>1, <2>1
    <3>2. first <= i => when[q[first]] <= when[q[i]]
        BY <1>1, <2>1 DEF InOrder
    <3>3. ~(clock - when[q[first]] >= Retention)
        BY <2>1 DEF Expired
    <3>4. i \notin fresh <=> clock - when[q[i]] >= Retention
        BY DEF Expired
    <3>5. when[q[first]] \in Nat /\ when[q[i]] \in Nat
        BY <2>1
    <3> QED BY <1>1, <2>1, <3>1, <3>2, <3>3, <3>4, <3>5
  <2> QED BY <2>2, <2>3, <2>4
<1> QED BY <1>2, <1>3

\* The cap drops no more than it must.
LEMMA CappedIs ==
    ASSUME NEW q \in Seq(Runs)
    PROVE  \E n \in 0..Len(q) :
             /\ Capped(q) = SubSeq(q, n + 1, Len(q))
             /\ \A i \in Nat : i <= n <=> i = 0 \/ i <= Len(q) - MaxRetained
<1> USE RetentionAssumption
<1> DEFINE n == IF Len(q) > MaxRetained THEN Len(q) - MaxRetained ELSE 0
<1>1. Len(q) \in Nat
    BY LenProperties
<1>2. n \in 0..Len(q) /\ \A i \in Nat : i <= n <=> i = 0 \/ i <= Len(q) - MaxRetained
    BY <1>1
<1>3. Capped(q) = SubSeq(q, n + 1, Len(q))
    <2>1. (IF Len(q) > MaxRetained THEN Len(q) - MaxRetained + 1 ELSE 1) = n + 1
        BY <1>1
    <2> HIDE DEF n
    <2> QED BY <2>1, Zenon DEF Capped
<1> QED BY <1>2, <1>3

\* The deque and the map lose the same streams when the deque loses its front.
LEMMA FrontLeaves ==
    ASSUME NEW q \in Seq(Runs), NEW n \in 0..Len(q), NEW m \in n..Len(q),
           \A i, k \in DOMAIN q : i < k => q[i] # q[k],
           NEW L, \A i \in DOMAIN q : q[i] \notin L,
           NEW s, s = InSeq(SubSeq(q, n + 1, Len(q))),
           NEW t, t = InSeq(SubSeq(q, m + 1, Len(q)))
    PROVE  (L \union s) \ (s \ t) = L \union t
<1>1. Len(q) \in Nat /\ DOMAIN q = 1..Len(q)
    BY LenProperties
<1>2. s = {q[i] : i \in (n + 1)..Len(q)}
    BY SuffixIs
<1>3. t = {q[i] : i \in (m + 1)..Len(q)}
    BY <1>1, SuffixIs
<1>4. t \subseteq s
    BY <1>1, <1>2, <1>3
<1>5. \A i \in (n + 1)..Len(q) : i \in DOMAIN q
    BY <1>1
<1>6. \A x \in s : x \notin L
    BY <1>2, <1>5
<1> QED BY <1>4, <1>6

\* The sweep of what is left of the closed streams.
LEMMA SweptLeaves ==
    ASSUME NEW q \in Seq(Runs), NEW g \in 0..Len(q), NEW when, clock \in Nat,
           \A i \in DOMAIN q : when[q[i]] \in Nat, InOrder(q, when),
           NEW e, e = SubSeq(q, g + 1, Len(q))
    PROVE  \E h \in g..Len(q) :
             /\ Swept(e, when) = SubSeq(q, h + 1, Len(q))
             /\ \A i \in DOMAIN q : i <= h <=> i <= g \/ clock - when[q[i]] >= Retention
<1>1. DOMAIN q = 1..Len(q) /\ Len(q) \in Nat
    BY LenProperties
<1>2. /\ e \in Seq(Runs) /\ Len(e) = Len(q) - g
      /\ \A i \in 1..(Len(q) - g) : e[i] = q[g + i]
    BY SuffixIs
<1>3. DOMAIN e = 1..(Len(q) - g)
    BY <1>2, LenProperties
<1>4. \A i \in DOMAIN e : e[i] = q[g + i] /\ g + i \in DOMAIN q /\ i \in Int /\ g \in Int
  <2> SUFFICES ASSUME NEW i \in 1..(Len(q) - g)
               PROVE  e[i] = q[g + i] /\ g + i \in DOMAIN q /\ i \in Int /\ g \in Int
      BY <1>3
  <2>1. e[i] = q[g + i]
      BY <1>2
  <2>2. g + i \in 1..Len(q) /\ i \in Int /\ g \in Int
      BY <1>1
  <2> QED BY <1>1, <2>1, <2>2
<1>5. \A i \in DOMAIN e : when[e[i]] \in Nat
    BY <1>4
<1>6. InOrder(e, when)
  <2> SUFFICES ASSUME NEW i \in DOMAIN e, NEW k \in DOMAIN e, i < k
               PROVE  e[i] # e[k] /\ when[e[i]] <= when[e[k]]
      BY DEF InOrder
  <2>1. g + i < g + k
      BY <1>4
  <2> QED BY <1>4, <2>1 DEF InOrder
<1>7. PICK n \in 0..Len(e) : /\ Swept(e, when) = SubSeq(e, n + 1, Len(e))
                             /\ \A i \in DOMAIN e : i <= n <=> clock - when[e[i]] >= Retention
    BY <1>2, <1>5, <1>6, SweptIs
<1>8. Swept(e, when) = SubSeq(q, g + n + 1, Len(q))
    BY <1>7, SuffixOfSuffix
<1>9. g + n \in g..Len(q) /\ n \in Nat /\ g \in Nat
  <2>1. n \in 0..(Len(q) - g)
      BY <1>2
  <2> QED BY <1>1, <2>1
<1>10. ASSUME NEW i \in DOMAIN q
       PROVE  i <= g + n <=> i <= g \/ clock - when[q[i]] >= Retention
  <2>1. CASE i <= g
      BY <1>1, <1>9, <2>1
  <2>2. CASE ~(i <= g)
    <3>1. i - g \in DOMAIN e /\ g + (i - g) = i
        BY <1>1, <1>3, <2>2
    <3>2. i - g <= n <=> clock - when[q[i]] >= Retention
        BY <1>4, <1>7, <3>1
    <3>3. i - g <= n <=> i <= g + n
        BY <1>1, <1>9
    <3> QED BY <2>2, <3>2, <3>3
  <2> QED BY <2>1, <2>2
<1> QED BY <1>8, <1>9, <1>10

\* The cap on what is left of the closed streams.
LEMMA CappedLeaves ==
    ASSUME NEW q \in Seq(Runs), NEW g \in 0..Len(q), NEW e, e = SubSeq(q, g + 1, Len(q))
    PROVE  \E h \in g..Len(q) :
             /\ Capped(e) = SubSeq(q, h + 1, Len(q))
             /\ \A i \in DOMAIN q : i <= h <=> i <= g \/ i <= Len(q) - MaxRetained
<1> USE RetentionAssumption
<1>1. DOMAIN q = 1..Len(q) /\ Len(q) \in Nat
    BY LenProperties
<1>2. e \in Seq(Runs) /\ Len(e) = Len(q) - g
    BY SuffixIs
<1>3. PICK n \in 0..Len(e) : /\ Capped(e) = SubSeq(e, n + 1, Len(e))
                             /\ \A i \in Nat : i <= n <=> i = 0 \/ i <= Len(e) - MaxRetained
    BY <1>2, CappedIs
<1>4. Capped(e) = SubSeq(q, g + n + 1, Len(q))
    BY <1>3, SuffixOfSuffix
<1>5. g + n \in g..Len(q) /\ n \in Nat /\ g \in Nat
  <2>1. n \in 0..(Len(q) - g)
      BY <1>2
  <2> QED BY <1>1, <2>1
<1>6. ASSUME NEW i \in DOMAIN q
      PROVE  i <= g + n <=> i <= g \/ i <= Len(q) - MaxRetained
  <2>1. CASE i <= g
      BY <1>1, <1>5, <2>1
  <2>2. CASE ~(i <= g)
    <3>1. i - g \in Nat /\ i - g # 0
        BY <1>1, <2>2
    <3>2. i - g <= n <=> i - g <= (Len(q) - g) - MaxRetained
        BY <1>2, <1>3, <3>1
    <3>3. i - g <= n <=> i <= g + n
        BY <1>1, <1>5
    <3>4. i - g <= (Len(q) - g) - MaxRetained <=> i <= Len(q) - MaxRetained
      <4>1. MaxRetained \in Nat
          OBVIOUS
      <4> QED BY <1>1, <1>5, <4>1
    <3> QED BY <2>2, <3>2, <3>3, <3>4
  <2> QED BY <2>1, <2>2
<1> QED BY <1>4, <1>5, <1>6

\* The facts that both kinds of steps start from.
LEMMA KeptFacts ==
    ASSUME IInv, Kept
    PROVE  /\ clock \in Nat /\ closedAt \in [Runs -> {Unopened, Live} \union Nat]
           /\ Len(closes) \in Nat /\ DOMAIN closes = 1..Len(closes)
           /\ Gone \in 0..Len(closes) /\ Len(expiry) = Len(closes) - Gone
           /\ InSeq(expiry) = {closes[i] : i \in (Gone + 1)..Len(closes)}
           /\ swept \in 0..clock
           /\ \A i \in DOMAIN closes : /\ closes[i] \in Runs
                                       /\ closedAt[closes[i]] \in 0..clock
                                       /\ closedAt[closes[i]] \in Nat
<1>1. clock \in Nat /\ closedAt \in [Runs -> {Unopened, Live} \union Nat]
    BY DEF IInv, Types
<1>2. Len(closes) \in Nat /\ DOMAIN closes = 1..Len(closes)
    BY LenProperties DEF Kept, Closes
<1>3. \A i \in DOMAIN closes : closes[i] \in Runs
    BY ElementOfSeq, LenProperties DEF Kept, Closes
<1>4. \A i \in DOMAIN closes : closedAt[closes[i]] \in 0..clock
    BY DEF Kept, Closes
<1>5. Gone \in 0..Len(closes) /\ swept \in 0..clock
    BY DEF Kept, Deque, Lapsed
<1>6. Len(expiry) = Len(closes) - Gone
    BY <1>5, SuffixIs DEF Kept, Closes, Deque
<1>7. InSeq(expiry) = {closes[i] : i \in (Gone + 1)..Len(closes)}
    BY <1>5, SuffixIs DEF Kept, Closes, Deque
<1>8. \A i \in DOMAIN closes : closedAt[closes[i]] \in Nat
    BY <1>1, <1>4
<1> QED BY <1>1, <1>2, <1>3, <1>4, <1>5, <1>6, <1>7, <1>8

\* What a caller that sweeps does to the streams, having opened some: those
\* whose time is up leave the deque and the map together.
LEMMA SweepingKeeps ==
    ASSUME IInv, Kept, NEW opened \in SUBSET Runs,
           \A r \in opened : closedAt[r] = Unopened,
           Keep(streams \union opened, Swept(expiry, closedAt)),
           closedAt' = [r \in Runs |-> IF r \in opened THEN Live ELSE closedAt[r]],
           closes' = closes, clock' = clock
    PROVE  Kept'
<1> DEFINE q == closes
           L == {r \in Runs : closedAt[r] = Live} \union opened
<1>1. /\ clock \in Nat /\ closedAt \in [Runs -> {Unopened, Live} \union Nat]
      /\ Len(q) \in Nat /\ DOMAIN q = 1..Len(q)
      /\ Gone \in 0..Len(q) /\ Len(expiry) = Len(q) - Gone
      /\ swept \in 0..clock
      /\ \A i \in DOMAIN q : q[i] \in Runs /\ closedAt[q[i]] \in 0..clock /\ closedAt[q[i]] \in Nat
    BY KeptFacts
<1>2. q \in Seq(Runs) /\ InOrder(q, closedAt) /\ expiry = SubSeq(q, Gone + 1, Len(q))
    BY DEF Kept, Closes, Deque
<1>3. PICK h \in Gone..Len(q) :
        /\ Swept(expiry, closedAt) = SubSeq(q, h + 1, Len(q))
        /\ \A i \in DOMAIN q : i <= h <=> i <= Gone \/ clock - closedAt[q[i]] >= Retention
    BY <1>1, <1>2, SweptLeaves
<1>4. /\ expiry' = SubSeq(q, h + 1, Len(q)) /\ swept' = clock
      /\ streams' = (streams \union opened) \ (InSeq(expiry) \ InSeq(expiry'))
    BY <1>3 DEF Keep
<1>5. h \in 0..Len(q)
    BY <1>1
<1>6. expiry' \in Seq(Runs) /\ Len(expiry') = Len(q) - h
    BY <1>2, <1>4, <1>5, SuffixIs
<1>7. Gone' = h
  <2>1. Len(q) - (Len(q) - h) = h
      BY <1>1, <1>5
  <2> QED BY <1>6, <2>1 DEF Gone
<1>8. \A i \in DOMAIN q : closedAt'[q[i]] = closedAt[q[i]]
    BY <1>1 DEF Unopened
<1>9. Closes'
    BY <1>1, <1>2, <1>8 DEF Closes, InOrder
<1>10. Deque'
    BY <1>4, <1>5, <1>6, <1>7 DEF Deque
<1>11. Lapsed'
  <2>1. ASSUME NEW i \in DOMAIN q
        PROVE  i <= h <=> i <= Len(q) - MaxRetained \/ clock - closedAt[q[i]] >= Retention
    <3>1. i <= Gone <=> i <= Len(q) - MaxRetained \/ swept - closedAt[q[i]] >= Retention
        BY DEF Kept, Lapsed
    <3>2. swept - closedAt[q[i]] >= Retention => clock - closedAt[q[i]] >= Retention
        BY <1>1, RetentionAssumption
    <3> QED BY <1>3, <3>1, <3>2
  <2>2. clock \in 0..clock
      BY <1>1
  <2> QED BY <1>4, <1>7, <1>8, <2>1, <2>2 DEF Lapsed
<1>12. Mapped'
  <2>1. streams \union opened = L \union InSeq(expiry)
      BY DEF Kept, Mapped
  <2>2. \A i \in DOMAIN q : q[i] \notin L
      BY <1>1 DEF Live, Unopened
  <2>3. \A i, k \in DOMAIN q : i < k => q[i] # q[k]
      BY <1>2 DEF InOrder
  <2> HIDE DEF L
  <2>4. (L \union InSeq(expiry)) \ (InSeq(expiry) \ InSeq(expiry')) = L \union InSeq(expiry')
    <3> DEFINE s == InSeq(SubSeq(q, Gone + 1, Len(q)))
               t == InSeq(SubSeq(q, h + 1, Len(q)))
    <3>1. (L \union s) \ (s \ t) = L \union t
      <4>1. q \in Seq(Runs) /\ Gone \in 0..Len(q) /\ h \in Gone..Len(q)
          BY <1>1, <1>2
      <4> HIDE DEF q, s, t
      <4> QED BY <2>2, <2>3, <4>1, FrontLeaves DEF s, t
    <3> QED BY <1>2, <1>4, <3>1
  <2>5. streams' = L \union InSeq(expiry')
      BY <1>4, <2>1, <2>4
  <2>6. {r \in Runs : closedAt'[r] = Live} = L
      BY <1>1 DEF L
  <2>7. Mapped' <=> streams' = {r \in Runs : closedAt'[r] = Live} \union InSeq(expiry')
      BY DEF Mapped, InSeq
  <2> QED BY <2>5, <2>6, <2>7
<1> QED BY <1>9, <1>10, <1>11, <1>12 DEF Kept

\* A stream that is closed without history leaves at once, and the others as
\* in any sweep.
LEMMA ForgettingKeeps ==
    ASSUME IInv, Kept, NEW r \in Runs, closedAt[r] = Live, CloseStream(r), ~Retained(r),
           clock' = clock
    PROVE  Kept'
<1> DEFINE q == closes
           now == [closedAt EXCEPT ![r] = clock]
           L == {x \in Runs : closedAt[x] = Live} \ {r}
<1>1. /\ clock \in Nat /\ closedAt \in [Runs -> {Unopened, Live} \union Nat]
      /\ Len(q) \in Nat /\ DOMAIN q = 1..Len(q)
      /\ Gone \in 0..Len(q) /\ Len(expiry) = Len(q) - Gone
      /\ swept \in 0..clock
      /\ \A i \in DOMAIN q : q[i] \in Runs /\ closedAt[q[i]] \in 0..clock /\ closedAt[q[i]] \in Nat
    BY KeptFacts
<1>2. q \in Seq(Runs) /\ InOrder(q, closedAt) /\ expiry = SubSeq(q, Gone + 1, Len(q))
    BY DEF Kept, Closes, Deque
<1>3. \A i \in DOMAIN q : q[i] # r /\ now[q[i]] = closedAt[q[i]]
    BY <1>1 DEF Live
<1>4. InOrder(q, now)
    BY <1>2, <1>3 DEF InOrder
<1>5. \A i \in DOMAIN q : now[q[i]] \in Nat
    BY <1>1, <1>3
<1> HIDE DEF now
<1>6. PICK h \in Gone..Len(q) :
        /\ Swept(expiry, now) = SubSeq(q, h + 1, Len(q))
        /\ \A i \in DOMAIN q : i <= h <=> i <= Gone \/ clock - now[q[i]] >= Retention
    BY <1>1, <1>2, <1>4, <1>5, SweptLeaves
<1>7. h \in 0..Len(q)
    BY <1>1
<1>8. PICK g \in h..Len(q) :
        /\ Capped(Swept(expiry, now)) = SubSeq(q, g + 1, Len(q))
        /\ \A i \in DOMAIN q : i <= g <=> i <= h \/ i <= Len(q) - MaxRetained
    BY <1>2, <1>6, <1>7, CappedLeaves
<1>9. /\ closedAt' = now /\ closes' = closes /\ swept' = clock
      /\ expiry' = SubSeq(q, g + 1, Len(q))
      /\ streams' = (streams \ {r}) \ (InSeq(expiry) \ InSeq(expiry'))
    BY <1>8 DEF CloseStream, now
<1>10. g \in 0..Len(q) /\ g \in Gone..Len(q)
    BY <1>1, <1>7
<1>11. expiry' \in Seq(Runs) /\ Len(expiry') = Len(q) - g
    BY <1>2, <1>9, <1>10, SuffixIs
<1>12. Gone' = g
  <2>1. Len(q) - (Len(q) - g) = g
      BY <1>1, <1>10
  <2> QED BY <1>9, <1>11, <2>1 DEF Gone
<1>13. Closes'
    BY <1>1, <1>2, <1>3, <1>4, <1>9 DEF Closes
<1>14. Deque'
    BY <1>9, <1>10, <1>11, <1>12 DEF Deque
<1>15. Lapsed'
  <2>1. ASSUME NEW i \in DOMAIN q
        PROVE  i <= g <=> i <= Len(q) - MaxRetained \/ clock - now[q[i]] >= Retention
    <3>1. i <= Gone <=> i <= Len(q) - MaxRetained \/ swept - closedAt[q[i]] >= Retention
        BY DEF Kept, Lapsed
    <3>2. swept - closedAt[q[i]] >= Retention => clock - closedAt[q[i]] >= Retention
        BY <1>1, RetentionAssumption
    <3> QED BY <1>3, <1>6, <1>8, <3>1, <3>2
  <2>2. clock \in 0..clock
      BY <1>1
  <2> QED BY <1>9, <1>12, <2>1, <2>2 DEF Lapsed
<1>16. Mapped'
  <2>1. streams \ {r} = L \union InSeq(expiry)
    <3>1. InSeq(expiry) = {q[i] : i \in (Gone + 1)..Len(q)}
        BY KeptFacts
    <3>2. \A i \in (Gone + 1)..Len(q) : i \in DOMAIN q
        BY <1>1
    <3>3. r \notin InSeq(expiry)
        BY <1>3, <3>1, <3>2
    <3> QED BY <3>3 DEF Kept, Mapped
  <2>2. \A i \in DOMAIN q : q[i] \notin L
      BY <1>1 DEF Live
  <2>3. \A i, k \in DOMAIN q : i < k => q[i] # q[k]
      BY <1>2 DEF InOrder
  <2> HIDE DEF L
  <2>4. (L \union InSeq(expiry)) \ (InSeq(expiry) \ InSeq(expiry')) = L \union InSeq(expiry')
    <3> DEFINE s == InSeq(SubSeq(q, Gone + 1, Len(q)))
               t == InSeq(SubSeq(q, g + 1, Len(q)))
    <3>1. (L \union s) \ (s \ t) = L \union t
      <4>1. q \in Seq(Runs) /\ Gone \in 0..Len(q) /\ g \in Gone..Len(q)
          BY <1>1, <1>2, <1>10
      <4> HIDE DEF q, s, t
      <4> QED BY <2>2, <2>3, <4>1, FrontLeaves DEF s, t
    <3> QED BY <1>2, <1>9, <3>1
  <2>5. streams' = L \union InSeq(expiry')
      BY <1>9, <2>1, <2>4
  <2>6. {x \in Runs : closedAt'[x] = Live} = L
      BY <1>1, <1>9 DEF L, now, Live
  <2>7. Mapped' <=> streams' = {x \in Runs : closedAt'[x] = Live} \union InSeq(expiry')
      BY DEF Mapped, InSeq
  <2> QED BY <2>5, <2>6, <2>7
<1> QED BY <1>13, <1>14, <1>15, <1>16 DEF Kept

\* A stream that is closed with its history is the last of the retained ones.
LEMMA RetainingKeeps ==
    ASSUME IInv, Kept, NEW r \in Runs, closedAt[r] = Live, CloseStream(r), Retained(r),
           clock' = clock
    PROVE  Kept'
<1> DEFINE q == Append(closes, r)
           now == [closedAt EXCEPT ![r] = clock]
           added == Append(expiry, r)
           L == {x \in Runs : closedAt[x] = Live} \ {r}
<1>0. /\ clock \in Nat /\ closedAt \in [Runs -> {Unopened, Live} \union Nat]
      /\ Len(closes) \in Nat /\ DOMAIN closes = 1..Len(closes)
      /\ Gone \in 0..Len(closes) /\ Len(expiry) = Len(closes) - Gone
      /\ swept \in 0..clock
      /\ \A i \in DOMAIN closes : /\ closes[i] \in Runs /\ closedAt[closes[i]] \in 0..clock
                                  /\ closedAt[closes[i]] \in Nat
    BY KeptFacts
<1>1. /\ q \in Seq(Runs) /\ Len(q) = Len(closes) + 1 /\ q[Len(closes) + 1] = r
      /\ \A i \in 1..Len(closes) : q[i] = closes[i]
  <2>1. closes \in Seq(Runs)
      BY DEF Kept, Closes
  <2> QED BY <2>1, AppendProperties
<1>2. /\ DOMAIN q = 1..Len(q) /\ Len(q) \in Nat /\ Gone \in 0..Len(q)
      /\ \A i \in DOMAIN q : i \in DOMAIN closes \/ i = Len(q)
      /\ \A i \in DOMAIN closes : i \in DOMAIN q /\ q[i] = closes[i] /\ i < Len(q)
      /\ q[Len(q)] = r
  <2>1. DOMAIN q = 1..Len(q)
      BY <1>1, LenProperties
  <2> HIDE DEF q
  <2> QED BY <1>0, <1>1, <2>1
<1>3. \A i \in DOMAIN closes : q[i] # r /\ now[q[i]] = closedAt[closes[i]]
  <2>1. \A i \in DOMAIN closes : closes[i] # r
      BY <1>0 DEF Live
  <2> HIDE DEF q
  <2> QED BY <1>0, <1>2, <2>1
<1>4. now[r] = clock /\ now[r] \in Nat
    BY <1>0
<1> HIDE DEF q, now
<1>5. /\ \A i \in DOMAIN q : now[q[i]] \in 0..clock /\ now[q[i]] \in Nat
      /\ InOrder(q, now)
  <2>1. ASSUME NEW i \in DOMAIN q PROVE now[q[i]] \in 0..clock /\ now[q[i]] \in Nat
      BY <1>0, <1>2, <1>3, <1>4
  <2>2. ASSUME NEW i \in DOMAIN q, NEW k \in DOMAIN q, i < k
        PROVE  q[i] # q[k] /\ now[q[i]] <= now[q[k]]
    <3>1. i \in DOMAIN closes
        BY <1>0, <1>1, <1>2, <2>2
    <3>2. CASE k = Len(q)
        BY <1>0, <1>2, <1>3, <1>4, <2>1, <3>1, <3>2
    <3>3. CASE k \in DOMAIN closes
        BY <1>2, <1>3, <2>2, <3>1, <3>3 DEF Kept, Closes, InOrder
    <3> QED BY <1>2, <3>2, <3>3
  <2> QED BY <2>1, <2>2 DEF InOrder
<1>5a. added = SubSeq(q, Gone + 1, Len(q))
  <2> DEFINE b == SubSeq(q, Gone + 1, Len(q))
  <2>1. expiry \in Seq(Runs) /\ \A i \in 1..(Len(closes) - Gone) : expiry[i] = closes[Gone + i]
      BY SuffixIs DEF Kept, Closes, Deque
  <2>2. /\ added \in Seq(Runs) /\ Len(added) = Len(expiry) + 1 /\ added[Len(expiry) + 1] = r
        /\ \A i \in 1..Len(expiry) : added[i] = expiry[i]
      BY <2>1, AppendProperties
  <2>3. b \in Seq(Runs) /\ Len(b) = Len(q) - Gone /\ \A i \in 1..(Len(q) - Gone) : b[i] = q[Gone + i]
      BY <1>1, <1>2, SuffixIs
  <2> HIDE DEF added, b
  <2>4. Len(added) = Len(closes) - Gone + 1 /\ Len(b) = Len(added)
      BY <1>0, <1>1, <2>2, <2>3
  <2>5. ASSUME NEW i \in 1..Len(added) PROVE added[i] = b[i]
    <3>1. CASE i = Len(added)
      <4>1. Gone + i = Len(q)
          BY <1>0, <1>1, <2>4, <3>1
      <4>2. added[i] = r
          BY <1>0, <2>2, <3>1
      <4>3. b[i] = q[Gone + i]
          BY <2>3, <2>4
      <4> QED BY <1>2, <4>1, <4>2, <4>3
    <3>2. CASE i # Len(added)
      <4>1. i \in 1..(Len(closes) - Gone) /\ Gone + i \in DOMAIN closes /\ i \in 1..Len(expiry)
          BY <1>0, <2>4, <3>2
      <4>2. added[i] = closes[Gone + i]
          BY <2>1, <2>2, <4>1
      <4>3. b[i] = q[Gone + i]
          BY <2>3, <2>4
      <4> QED BY <1>2, <4>1, <4>2, <4>3
    <3> QED BY <3>1, <3>2
  <2>6. added = b
      BY <2>2, <2>3, <2>4, <2>5, SeqEqual
  <2> QED BY <2>6 DEF b
<1> HIDE DEF added
<1>6. PICK h \in Gone..Len(q) :
        /\ Swept(added, now) = SubSeq(q, h + 1, Len(q))
        /\ \A i \in DOMAIN q : i <= h <=> i <= Gone \/ clock - now[q[i]] >= Retention
    BY <1>0, <1>1, <1>2, <1>5, <1>5a, SweptLeaves
<1>7. h \in 0..Len(q)
    BY <1>2
<1>8. PICK g \in h..Len(q) :
        /\ Capped(Swept(added, now)) = SubSeq(q, g + 1, Len(q))
        /\ \A i \in DOMAIN q : i <= g <=> i <= h \/ i <= Len(q) - MaxRetained
    BY <1>1, <1>6, <1>7, CappedLeaves
<1>9. /\ closedAt' = now /\ closes' = q /\ swept' = clock
      /\ expiry' = SubSeq(q, g + 1, Len(q))
      /\ streams' = streams \ (InSeq(added) \ InSeq(expiry'))
  <2>1. added # expiry
    <3>1. expiry \in Seq(Runs)
        BY DEF Kept, Deque
    <3>2. Len(added) = Len(expiry) + 1
        BY <3>1, AppendProperties DEF added
    <3> QED BY <3>1, <3>2, LenProperties
  <2> QED BY <1>8, <2>1 DEF CloseStream, now, q, added
<1>10. g \in 0..Len(q) /\ g \in Gone..Len(q)
    BY <1>2, <1>7
<1>11. expiry' \in Seq(Runs) /\ Len(expiry') = Len(q) - g
    BY <1>1, <1>9, <1>10, SuffixIs
<1>12. Gone' = g
  <2>1. Len(q) - (Len(q) - g) = g
      BY <1>2, <1>10
  <2> QED BY <1>9, <1>11, <2>1 DEF Gone
<1>13. Closes'
    BY <1>1, <1>5, <1>9 DEF Closes
<1>14. Deque'
    BY <1>9, <1>10, <1>11, <1>12 DEF Deque
<1>15. Lapsed'
  <2>1. ASSUME NEW i \in DOMAIN q
        PROVE  i <= g <=> i <= Len(q) - MaxRetained \/ clock - now[q[i]] >= Retention
    <3>1. i <= Gone => i <= Len(q) - MaxRetained \/ clock - now[q[i]] >= Retention
      <4> SUFFICES ASSUME i <= Gone
                   PROVE  i <= Len(q) - MaxRetained \/ clock - now[q[i]] >= Retention
          OBVIOUS
      <4>1. i \in DOMAIN closes
          BY <1>0, <1>1, <1>2
      <4>2. i <= Len(closes) - MaxRetained \/ swept - closedAt[closes[i]] >= Retention
          BY <4>1 DEF Kept, Lapsed
      <4>3. i <= Len(closes) - MaxRetained => i <= Len(q) - MaxRetained
          BY <1>0, <1>1, <4>1, RetentionAssumption
      <4>4. swept - closedAt[closes[i]] >= Retention => clock - closedAt[closes[i]] >= Retention
          BY <1>0, <4>1, RetentionAssumption
      <4> QED BY <1>3, <4>1, <4>2, <4>3, <4>4
    <3> QED BY <1>6, <1>8, <3>1
  <2>2. clock \in 0..clock
      BY <1>0
  <2> QED BY <1>9, <1>12, <2>1, <2>2 DEF Lapsed
<1>16. Mapped'
  <2>1. streams = L \union InSeq(added)
    <3>1. /\ InSeq(expiry) = {closes[i] : i \in (Gone + 1)..Len(closes)}
          /\ InSeq(added) = {q[i] : i \in (Gone + 1)..Len(q)}
        BY <1>1, <1>2, <1>5a, KeptFacts, SuffixIs
    <3>2. ASSUME NEW i \in (Gone + 1)..Len(q)
          PROVE  q[i] \in InSeq(expiry) \union {r}
      <4>1. i = Len(q) \/ i \in (Gone + 1)..Len(closes)
          BY <1>0, <1>1
      <4>2. i \in (Gone + 1)..Len(closes) => i \in DOMAIN closes
          BY <1>0
      <4> QED BY <1>2, <3>1, <4>1, <4>2
    <3>3. ASSUME NEW i \in (Gone + 1)..Len(closes)
          PROVE  closes[i] \in InSeq(added)
      <4>1. i \in (Gone + 1)..Len(q) /\ i \in DOMAIN closes
          BY <1>0, <1>1
      <4> QED BY <1>2, <3>1, <4>1
    <3>4. r \in InSeq(added)
      <4>1. Len(q) \in (Gone + 1)..Len(q)
          BY <1>0, <1>1
      <4> QED BY <1>2, <3>1, <4>1
    <3>5. InSeq(added) = InSeq(expiry) \union {r}
        BY <3>1, <3>2, <3>3, <3>4
    <3> QED BY <3>5 DEF Kept, Mapped
  <2>2. \A i \in DOMAIN q : q[i] \notin L
    <3>1. \A i \in DOMAIN closes : closes[i] \notin L
        BY <1>0 DEF Live
    <3> QED BY <1>2, <3>1
  <2>3. \A i, k \in DOMAIN q : i < k => q[i] # q[k]
      BY <1>5 DEF InOrder
  <2> HIDE DEF L
  <2>4. (L \union InSeq(added)) \ (InSeq(added) \ InSeq(expiry')) = L \union InSeq(expiry')
    <3> DEFINE s == InSeq(SubSeq(q, Gone + 1, Len(q)))
               t == InSeq(SubSeq(q, g + 1, Len(q)))
    <3>1. (L \union s) \ (s \ t) = L \union t
      <4>1. q \in Seq(Runs) /\ Gone \in 0..Len(q) /\ g \in Gone..Len(q)
          BY <1>1, <1>2, <1>10
      <4> HIDE DEF s, t
      <4> QED BY <2>2, <2>3, <4>1, FrontLeaves DEF s, t
    <3> QED BY <1>5a, <1>9, <3>1
  <2>5. streams' = L \union InSeq(expiry')
      BY <1>9, <2>1, <2>4
  <2>6. {x \in Runs : closedAt'[x] = Live} = L
      BY <1>0, <1>9 DEF L, now, Live
  <2>7. Mapped' <=> streams' = {x \in Runs : closedAt'[x] = Live} \union InSeq(expiry')
      BY DEF Mapped, InSeq
  <2> QED BY <2>5, <2>6, <2>7
<1> QED BY <1>13, <1>14, <1>15, <1>16 DEF Kept

\* Time alone changes nothing: a stream expires when a caller looks.
LEMMA StandingKeeps ==
    ASSUME IInv, Kept, UNCHANGED streamVars, clock' \in Nat, clock <= clock'
    PROVE  Kept'
<1> USE DEF streamVars
<1>1. /\ clock \in Nat /\ swept \in 0..clock
      /\ \A i \in DOMAIN closes : closedAt[closes[i]] \in 0..clock
    BY KeptFacts
<1>2. swept' \in 0..clock' /\ \A i \in DOMAIN closes : closedAt[closes[i]] \in 0..clock'
    BY <1>1
<1>3. Gone' = Gone
    BY DEF Gone
<1>4. Closes'
    BY <1>2 DEF Kept, Closes, InOrder
<1>5. Deque'
    BY <1>3 DEF Kept, Deque
<1>6. Lapsed'
    BY <1>2, <1>3 DEF Kept, Lapsed
<1>7. Mapped'
    BY DEF Kept, Mapped, InSeq
<1> QED BY <1>4, <1>5, <1>6, <1>7 DEF Kept

\* The promise follows from what the deque is.
LEMMA PromiseHolds ==
    ASSUME IInv, Kept
    PROVE  KeepsWhatItPromised
<1> DEFINE live   == {r \in Runs : closedAt[r] = Live}
           late   == {k \in DOMAIN closes : k > Len(closes) - MaxRetained}
           latest == {closes[i] : i \in late}
<1>1. /\ clock \in Nat /\ closedAt \in [Runs -> {Unopened, Live} \union Nat]
      /\ Len(closes) \in Nat /\ DOMAIN closes = 1..Len(closes)
      /\ Gone \in 0..Len(closes)
      /\ InSeq(expiry) = {closes[i] : i \in (Gone + 1)..Len(closes)}
      /\ swept \in 0..clock
      /\ \A i \in DOMAIN closes : closes[i] \in Runs /\ closedAt[closes[i]] \in Nat
    BY KeptFacts
<1>2. MaxRetained \in Nat /\ Retention \in Nat
    BY RetentionAssumption
<1>3. \A i \in DOMAIN closes :
        i \in (Gone + 1)..Len(closes) <=> i \in late /\ swept - closedAt[closes[i]] < Retention
  <2> SUFFICES ASSUME NEW i \in DOMAIN closes
               PROVE  i \in (Gone + 1)..Len(closes)
                        <=> i \in late /\ swept - closedAt[closes[i]] < Retention
      OBVIOUS
  <2>1. i <= Gone <=> i <= Len(closes) - MaxRetained \/ swept - closedAt[closes[i]] >= Retention
      BY DEF Kept, Lapsed
  <2>2. i \in (Gone + 1)..Len(closes) <=> ~(i <= Gone)
      BY <1>1
  <2>3. i \in late <=> ~(i <= Len(closes) - MaxRetained)
      BY <1>1, <1>2
  <2>4. swept - closedAt[closes[i]] < Retention <=> ~(swept - closedAt[closes[i]] >= Retention)
      BY <1>1, <1>2
  <2> QED BY <2>1, <2>2, <2>3, <2>4
<1>4. \A i \in (Gone + 1)..Len(closes) : i \in DOMAIN closes
    BY <1>1
<1>5. InSeq(expiry) = {r \in latest : swept - closedAt[r] < Retention}
  <2> HIDE DEF late
  <2>1. late \subseteq DOMAIN closes
      BY DEF late
  <2> QED BY <1>1, <1>3, <1>4, <2>1
<1>6. \A r \in InSeq(expiry) : r \notin live
    BY <1>1, <1>4 DEF Live
<1>7. streams = live \union InSeq(expiry)
    BY DEF Kept, Mapped
<1> QED BY <1>5, <1>6, <1>7 DEF KeepsWhatItPromised

\* Only opening, closing, attaching and time concern the streams.
LEMMA KeptStep ==
    ASSUME IInv, Kept, [Next]_vars
    PROVE  Kept'
<1>1. clock \in Nat /\ closedAt \in [Runs -> {Unopened, Live} \union Nat]
    BY DEF IInv, Types
<1>2. CASE UNCHANGED streamVars /\ clock' = clock
    BY <1>1, <1>2, StandingKeeps
<1>3. CASE TimePasses
    BY <1>1, <1>3, StandingKeeps DEF TimePasses, Tick
<1>4. ASSUME NEW r \in Runs, HandOff(r) PROVE Kept'
  <2>1. closedAt[r] = Unopened
      BY <1>1, <1>4 DEF IInv, Hands, Hand, Heard, HandOff, Done, Live, Unopened
  <2>2. /\ closedAt' = [x \in Runs |-> IF x \in {r} THEN Live ELSE closedAt[x]]
        /\ Keep(streams \union {r}, Swept(expiry, closedAt))
        /\ closes' = closes /\ clock' = clock
      BY <1>1, <1>4 DEF HandOff, OpenStream
  <2>3. {r} \in SUBSET Runs /\ \A x \in {r} : closedAt[x] = Unopened
      BY <2>1
  <2> QED BY <2>2, <2>3, SweepingKeeps
<1>5. ASSUME NEW r \in Runs, Finalize(r) PROVE Kept'
  <2>1. closedAt[r] = Live /\ CloseStream(r) /\ clock' = clock
      BY <1>5 DEF IInv, Hands, Hand, Finalize
  <2> QED BY <2>1, ForgettingKeeps, RetainingKeeps
<1>6. ASSUME NEW j \in Joiners, JoinStream(j) PROVE Kept'
  <2>1. /\ Keep(streams \union {}, Swept(expiry, closedAt))
        /\ closedAt' = closedAt /\ closes' = closes /\ clock' = clock
      BY <1>6 DEF JoinStream, SweepStreams, JoinUnchanged
  <2>2. closedAt' = [x \in Runs |-> IF x \in {} THEN Live ELSE closedAt[x]]
      BY <1>1, <2>1
  <2>3. {} \in SUBSET Runs /\ \A x \in {} : closedAt[x] = Unopened
      OBVIOUS
  <2> QED BY <2>1, <2>2, <2>3, SweepingKeeps
<1>7. ASSUME NEW r \in Runs,
             \/ CreateJob(r) \/ CreateStream(r) \/ LeaveQueue(r) \/ Begin(r) \/ UndoInsert(r)
             \/ SaveOutcome(r) \/ EndProducer(r) \/ UnwindProducer(r) \/ EndJob(r)
             \/ MarkInterrupted(r) \/ Cancel(r) \/ Delete(r) \/ EndStranded(r) \/ SweepRow(r)
      PROVE  UNCHANGED streamVars /\ clock' = clock
    BY <1>7 DEF CreateJob, CreateStream, LeaveQueue, Begin, UndoInsert, SaveOutcome, EndProducer,
       UnwindProducer, EndJob, MarkInterrupted, Cancel, Delete, EndStranded, SweepRow
<1>8. ASSUME NEW j \in Joiners,
             \/ Lookup(j) \/ Join(j) \/ Waited(j) \/ Reread(j) \/ Collect(j) \/ Relayed(j)
             \/ Disconnect(j)
      PROVE  UNCHANGED streamVars /\ clock' = clock
    BY <1>8 DEF Lookup, Join, Waited, Reread, Collect, Relayed, Disconnect, JoinUnchanged
<1>9. CASE ShutDown \/ AllUnwound \/ Off \/ UNCHANGED vars
  <2>1. UNCHANGED streamVars /\ clock' = clock
      BY <1>9 DEF ShutDown, AllUnwound, Off, vars
  <2> QED BY <1>2, <2>1
<1> QED BY <1>2, <1>3, <1>4, <1>5, <1>6, <1>7, <1>8, <1>9 DEF Next, RunStep, JoinStep

\* A live stream can be attached to, and a finished one exactly as long as was
\* promised: the deque, the cap and the map never disagree, whenever streams
\* are closed and callers look (run_streams.py 282-361).
THEOREM RetentionIsAsPromised == Spec => []KeepsWhatItPromised
<1>1. Init => Kept
  <2> SUFFICES ASSUME Init PROVE Kept
      OBVIOUS
  <2>1. /\ clock = 0 /\ closes = <<>> /\ expiry = <<>> /\ swept = 0 /\ streams = {}
        /\ \A r \in Runs : closedAt[r] = Unopened
      BY DEF Init, StreamsInit
  <2>2. Len(closes) = 0 /\ DOMAIN closes = {} /\ closes \in Seq(Runs) /\ InSeq(expiry) = {}
      BY <2>1, EmptySeq DEF InSeq
  <2>3. Gone = 0 /\ expiry \in Seq(Runs) /\ expiry = SubSeq(closes, Gone + 1, Len(closes))
    <3>1. Gone = 0 /\ expiry \in Seq(Runs)
        BY <2>1, <2>2 DEF Gone
    <3>2. SubSeq(closes, 1, 0) = <<>>
        BY SubSeqEmpty
    <3> QED BY <2>1, <2>2, <3>1, <3>2
  <2>4. Closes /\ Deque /\ Lapsed
      BY <2>1, <2>2, <2>3 DEF Closes, Deque, Lapsed, InOrder
  <2>5. Mapped
      BY <2>1, <2>2 DEF Mapped, Unopened, Live
  <2> QED BY <2>4, <2>5 DEF Kept
<1>2. IInv /\ Kept /\ [Next]_vars => Kept'
    BY KeptStep
<1>3. IInv /\ Kept => KeepsWhatItPromised
    BY PromiseHolds
<1> QED BY <1>1, <1>2, <1>3, Invariance, PTL DEF Spec
=============================================================================
