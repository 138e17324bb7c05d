--------------------------- MODULE MetadataStores ---------------------------
(***************************************************************************)
(* Concurrent calls on a metadata store: the four stores of skeino, each   *)
(* with the atomicity its database gives it.  A call awaits one statement  *)
(* after the other; it may be cancelled at any of them, and a statement    *)
(* may fail.  Processes share the database of a SQL or Mongo store.        *)
(*                                                                         *)
(*   memory    a call has no await: it is one step                         *)
(*   sqlite    a connection per process, lent to one call at a time; its   *)
(*             transaction stays open when a call ends without commit      *)
(*   postgres  a connection and a transaction per call, from a pool        *)
(*   mongo     every statement commits                                     *)
(*                                                                         *)
(* rows is what is committed; View is what a connection sees.              *)
(***************************************************************************)
EXTENDS Naturals, FiniteSets, StoreScripts

CONSTANTS
    Runs,        \* run ids of the thread
    Thread,      \* the key of its own row
    Callers,     \* bound: calls made
    Workers,     \* processes
    Home,        \* the process of each caller
    Backends,    \* the stores to check
    Calls,       \* bound: the operations each caller may call
    FirstRows,   \* what may be stored at first
    PoolSize,    \* pool_max_size
    MaxTroubles  \* bound: calls that fail or are cancelled

ASSUME KeysAssumption == Thread \notin Runs /\ IsFiniteSet(Runs)
ASSUME HomeAssumption ==
    Home \in [Callers -> Workers] /\ IsFiniteSet(Callers) /\ Workers \cap Callers = {}
ASSUME BackendsAssumption == Backends \subseteq {"memory", "sqlite", "postgres", "mongo"}
ASSUME PoolAssumption == PoolSize \in Nat \ {0} /\ MaxTroubles \in Nat

VARIABLES
    backend,   \* the store this deployment uses
    rows,      \* the committed rows
    written,   \* by connection: what its transaction has written
    open,      \* the SQLite connections with a transaction open
    op,        \* what each caller calls
    at,        \* waiting for a connection, running, or over
    script,    \* the statements a running call has yet to execute
    seen,      \* the stale rows its scan found and it has yet to claim
    found,     \* the runs it claimed, or read
    answer,    \* what it returned
    troubles,  \* the calls that failed or were cancelled
    doubtful   \* history: those that cannot know the fate of their statement

callVars == <<op, at, script, seen, found, answer, troubles, doubtful>>
vars == <<backend, rows, written, open, callVars>>

Keys == Runs \cup {Thread}
Conns == Workers \cup Callers

InFlight == {"pending", "running"}
Ended == {"success", "error", "interrupted"}
RowType == [status : {"none", "idle", "busy"} \cup InFlight \cup Ended, stale : BOOLEAN]

Row(status) == [status |-> status, stale |-> FALSE]
Absent == Row("none")

\* What a call is about: a status it may write, and a run where it needs one.
ASSUME CallsAssumption ==
    \A c \in Callers : \A o \in Calls[c] :
        /\ o.name \in Operations
        /\ o.name \in {"createRun", "updateRunStatus", "deleteRun"} => o.run \in Runs
        /\ o.name = "updateRunStatus" => o.value \in InFlight \cup Ended
        /\ o.name = "updateThread" => o.value \in {"nothing", "idle", "busy"} \cup Ended

\* Only runs in flight miss heartbeats, and every run has its thread.
ASSUME FirstRowsAssumption ==
    \A t \in FirstRows :
        /\ t \in [Keys -> RowType]
        /\ \A k \in Keys : t[k].stale => k \in Runs /\ t[k].status \in InFlight
        /\ t[Thread] = Absent => \A r \in Runs : t[r] = Absent

Answers ==
    {"none", "done", "created", "exists", "existing", "vanished", "updated", "missed",
     "raised"}

Present(v) == {k \in Keys : v[k] # Absent}
Moving(v) == {k \in Runs : v[k].status \in InFlight}
Stale(v) == {k \in Moving(v) : v[k].stale}

Nothing == [k \in {} |-> Absent]

\* The rows g with the changes f.
Overlay(f, g) == [k \in DOMAIN f \cup DOMAIN g |-> IF k \in DOMAIN f THEN f[k] ELSE g[k]]

\* In particular, a connection goes back to the pool without a transaction.
TypeOK ==
    /\ backend \in Backends
    /\ rows \in [Keys -> RowType]
    /\ \A k \in Conns : DOMAIN written[k] \subseteq Keys
    /\ open \subseteq Workers
    /\ \A c \in Callers : op[c] \in Calls[c]
    /\ at \in [Callers -> {"waiting", "running", "over"}]
    /\ \A c \in Callers : \A i \in DOMAIN script[c] : script[c][i] \in Statements
    /\ seen \in [Callers -> SUBSET Runs]
    /\ found \in [Callers -> SUBSET Runs]
    /\ answer \in [Callers -> Answers]
    /\ troubles \in 0..MaxTroubles
    /\ doubtful \subseteq Callers
    /\ \A c \in Callers : at[c] # "running" => script[c] = <<>> /\ written[c] = Nothing

\* Run ids are fresh: one create for a run, and only if it has no row yet.
Init ==
    /\ backend \in Backends
    /\ rows \in FirstRows
    /\ written = [k \in Conns |-> Nothing]
    /\ open = {}
    /\ op \in [Callers -> UNION {Calls[c] : c \in Callers}]
    /\ \A c \in Callers : op[c] \in Calls[c]
    /\ \A c, d \in Callers :
         op[c].name = "createRun" =>
             /\ rows[op[c].run] = Absent
             /\ op[d].name = "createRun" /\ op[d].run = op[c].run => c = d
    /\ at = [c \in Callers |-> "waiting"]
    /\ script = [c \in Callers |-> <<>>]
    /\ seen = [c \in Callers |-> {}]
    /\ found = [c \in Callers |-> {}]
    /\ answer = [c \in Callers |-> "none"]
    /\ troubles = 0
    /\ doubtful = {}

-----------------------------------------------------------------------------
(* The database.                                                           *)

Conn(c) == IF backend = "sqlite" THEN Home[c] ELSE c
View(c) == Overlay(written[Conn(c)], rows)

Transactional == backend \in {"sqlite", "postgres"}

\* REFERENCES app_threads ON DELETE CASCADE, enforced on every connection.
ForeignKeys == Transactional

\* FAULTY: an update without a condition on the status.
AnyRun(v, o) == {o.run} \cap Present(v)

\* WHERE run_id = ... AND status IN ('pending', 'running')
UpdatedRun(v, o) == {o.run} \cap Moving(v)

\* The claim of a row the scan found repeats the scan's condition.
ClaimedRun(v, k) == {k} \cap Stale(v)

\* The rows a statement of c writes, seeing v; k is the row a claim tries.
Change(c, s, v, k) ==
    LET o == op[c] IN
    CASE s = "insertThread" -> [t \in {Thread} |-> Row("idle")]
      [] s = "updateThread" /\ o.value # "nothing" ->
           [t \in {Thread} \cap Present(v) |-> Row(o.value)]
      [] s = "deleteRuns" -> [r \in Runs \cap Present(v) |-> Absent]
      [] s = "deleteThread" ->
           [t \in IF backend = "mongo" THEN {Thread} ELSE Keys |-> Absent]
      [] s = "insertRun" -> [r \in {o.run} |-> Row("pending")]
      [] s = "updateRun" -> [r \in UpdatedRun(v, o) |-> Row(o.value)]
      [] s = "deleteRun" -> [r \in {o.run} \cap Present(v) |-> Absent]
      [] s = "touch" -> [r \in {o.run} \cap Moving(v) |-> Row(v[r].status)]
      [] s = "failStale" -> [r \in Stale(v) \ {o.run} |-> Row("error")]
      [] s = "claim" -> [r \in ClaimedRun(v, k) |-> Row("error")]
      [] OTHER -> Nothing

\* The rows whose locks a Postgres statement needs.  An insert of a run locks
\* its thread against deletion, and only against that.
Locks(c, s) ==
    LET deleting == {d \in Callers : Thread \in DOMAIN written[d] /\ written[d][Thread] = Absent}
    IN  CASE s = "insertThread" -> {Thread}
          [] s = "deleteThread" -> Keys
          [] s = "insertRun" -> {op[c].run} \cup (IF deleting # {} THEN {Thread} ELSE {})
          [] OTHER -> DOMAIN Change(c, s, rows, op[c].run)

HasFreeConnection(w) ==
    Cardinality({c \in Callers : Home[c] = w /\ at[c] = "running"})
        < (IF backend = "sqlite" THEN 1 ELSE PoolSize)

\* Whether a statement must wait: for another process's write to a SQLite
\* file, for a Postgres row lock, or, when it is a call of the public
\* fetch_thread_row, for a connection of its own.
Blocked(c, s) ==
    \/ backend = "sqlite" /\ s \in Writes /\ open \ {Home[c]} # {}
    \/ /\ backend = "postgres" /\ s \in Writes
       /\ \E d \in Callers \ {c} : Locks(c, s) \cap DOMAIN written[d] # {}
    \/ Transactional /\ s = "fetchThread" /\ ~HasFreeConnection(Home[c])

-----------------------------------------------------------------------------
(* The stores' scripts.  The memory store runs a call without an await.    *)

MemoryThreadCall(o) ==
    CASE o.name = "fetchThread" -> "readThread"
      [] o.name = "createThread" -> "insertThread"
      [] o.name = "updateThread" -> "updateThread"
      [] o.name = "deleteThread" -> "deleteThread"

MemoryRunCall(o) ==
    CASE o.name = "createRun" -> "insertRun"
      [] o.name = "updateRunStatus" -> "updateRun"
      [] o.name = "fetchRun" -> "readRun"
      [] o.name = "listRuns" -> "readRuns"
      [] o.name = "deleteRun" -> "deleteRun"
      [] o.name = "touchRuns" -> "touch"
      [] o.name = "failStaleRuns" -> "failStale"

ThreadCalls == {"fetchThread", "createThread", "updateThread", "deleteThread"}

Script(o) ==
    CASE backend = "sqlite" -> SqliteScript(o)
      [] backend = "postgres" -> PostgresScript(o)
      [] backend = "mongo" -> MongoScript(o)
      [] backend = "memory" ->
           << IF o.name \in ThreadCalls THEN MemoryThreadCall(o) ELSE MemoryRunCall(o) >>

OnConflict(o) ==
    CASE backend = "sqlite" -> SqliteConflict(o)
      [] backend = "postgres" -> PostgresConflict(o)
      [] backend = "mongo" -> MongoConflict(o)
      [] OTHER -> <<>>

RollsBack(o) ==
    \/ backend = "sqlite" /\ SqliteRollsBack(o)
    \/ backend = "postgres" /\ PostgresRollsBack(o)

\* FAULTY: the databases have no unique key for threads.
ConflictsInMemory(c, s, v) ==
    s = "insertThread" /\ backend = "memory" /\ Thread \in Present(v)

\* The unique key of threads, and the foreign key of runs.
Conflicts(c, s, v) == s = "insertThread" /\ Thread \in Present(v)
Dangles(c, s, v) == s = "insertRun" /\ ForeignKeys /\ Thread \notin Present(v)

Database == [rows |-> rows, written |-> written, open |-> open]

\* The connection of c outside a transaction, in database d.
Closed(c, d) ==
    [d EXCEPT !.written[Conn(c)] = Nothing, !.open = @ \ {Conn(c)}]

\* The database after a statement of c.  A write that violates a constraint
\* changes no row but has opened the transaction.
Effect(c, s, k) ==
    LET v == View(c)
        opened == IF backend = "sqlite" THEN open \cup {Conn(c)} ELSE open
        ch == Change(c, s, v, k)
    IN  CASE s = "commit" -> Closed(c, [Database EXCEPT !.rows = v])
          [] s = "rollback" -> Closed(c, Database)
          [] s \in Reads -> Database
          [] s \in Writes ->
               IF Conflicts(c, s, v) \/ Dangles(c, s, v) THEN [Database EXCEPT !.open = opened]
               ELSE IF Transactional
                    THEN [Database EXCEPT !.written[Conn(c)] = Overlay(ch, @), !.open = opened]
                    ELSE [Database EXCEPT !.rows = Overlay(ch, @)]

\* (Through e, so that TLC computes d once.)
Becomes(d) == \E e \in {d} : rows' = e.rows /\ written' = e.written /\ open' = e.open

\* The row a claim tries next, in the order of the scan.
Tries(c, s) == IF s = "claim" THEN seen[c] ELSE {op[c].run}

-----------------------------------------------------------------------------
(* Calls.                                                                  *)

Returns(c, ans) ==
    /\ at' = [at EXCEPT ![c] = "over"]
    /\ script' = [script EXCEPT ![c] = <<>>]
    /\ answer' = [answer EXCEPT ![c] = IF ans = "none" THEN "done" ELSE ans]

\* On to the next statement, if there is one.
GoesOn(c, rest, ans) ==
    IF rest = <<>> THEN Returns(c, ans)
    ELSE /\ script' = [script EXCEPT ![c] = rest]
         /\ answer' = [answer EXCEPT ![c] = ans]
         /\ UNCHANGED at

\* The call gets its connection.
Start(c) ==
    /\ at[c] = "waiting"
    /\ backend # "memory"
    /\ Transactional => HasFreeConnection(Home[c])
    /\ IF Script(op[c]) = <<>> THEN Returns(c, "done")
       ELSE /\ at' = [at EXCEPT ![c] = "running"]
            /\ script' = [script EXCEPT ![c] = Script(op[c])]
            /\ UNCHANGED answer
    /\ UNCHANGED <<backend, rows, written, open, op, seen, found, troubles, doubtful>>

\* What the call has learnt from a statement.
Learns(c, s, v, k) ==
    LET o == op[c] IN
    CASE s \in {"claim", "failStale"} -> found[c] \cup DOMAIN Change(c, s, v, k)
      [] s = "readRun" -> {r \in {o.run} \cap Runs : v[r].status = o.value}
      [] s = "readRuns" -> {r \in Runs : v[r].status = o.value}
      [] OTHER -> found[c]

Answer(c, s, v, k) ==
    CASE s = "insertThread" -> IF Conflicts(c, s, v) THEN "exists" ELSE "created"
      [] s = "updateRun" -> IF Change(c, s, v, k) = Nothing THEN "missed" ELSE "updated"
      [] s \in {"readThread", "fetchThread"} /\ op[c].name = "createThread" ->
           IF Thread \in Present(v) THEN "existing" ELSE "vanished"
      [] OTHER -> answer[c]

\* A statement of the call returns.
Proceed(c) ==
    /\ at[c] = "running"
    /\ LET s == Head(script[c])
           v == View(c)
       IN  /\ ~Blocked(c, s)
           /\ \E k \in Tries(c, s) :
                /\ Becomes(Effect(c, s, k))
                /\ found' = [found EXCEPT ![c] = Learns(c, s, v, k)]
                /\ seen' = [seen EXCEPT ![c] = IF s = "scan" THEN Stale(v) \ {op[c].run}
                                               ELSE @ \ {k}]
                /\ CASE Conflicts(c, s, v) -> GoesOn(c, OnConflict(op[c]), "exists")
                     [] Dangles(c, s, v) -> Returns(c, "raised")
                     [] s = "scan" ->
                          GoesOn(c, [i \in 1..Cardinality(Stale(v) \ {op[c].run}) |-> "claim"]
                                        \o Tail(script[c]), answer[c])
                     [] OTHER -> GoesOn(c, Tail(script[c]), Answer(c, s, v, k))
    /\ UNCHANGED <<backend, op, troubles, doubtful>>

\* A call on the memory store: a conflict returns the row or raises at once.
InMemory(c) ==
    /\ at[c] = "waiting"
    /\ backend = "memory"
    /\ LET s == Script(op[c])[1]
           k == op[c].run
       IN  /\ Becomes(Effect(c, s, k))
           /\ found' = [found EXCEPT ![c] = Learns(c, s, rows, k)]
           /\ Returns(c, IF Conflicts(c, s, rows) /\ op[c].value = "do_nothing"
                         THEN "existing" ELSE Answer(c, s, rows, k))
    /\ UNCHANGED <<backend, op, seen, troubles, doubtful>>

\* The call ends early, in database d: its connection is given back, rolled
\* back or as it is.
Aborts(c, d, ans) ==
    /\ Becomes(IF RollsBack(op[c]) THEN Closed(c, d) ELSE d)
    /\ Returns(c, ans)
    /\ UNCHANGED <<backend, op, seen, found>>

\* How an awaited statement can go wrong, and whether it took effect: the
\* database refuses it, the answer is lost, the awaiting task is cancelled.
\* aiosqlite's thread executes the statement of a cancelled await all the same.
Troubles ==
    {<<"fails", FALSE>>}
        \cup (IF backend \in {"postgres", "mongo"} THEN {<<"lost", TRUE>>} ELSE {})
        \cup ({"cancelled"} \X (IF backend = "sqlite" THEN {TRUE} ELSE BOOLEAN))

Trouble(c) ==
    /\ at[c] = "running"
    /\ troubles < MaxTroubles
    /\ troubles' = troubles + 1
    /\ \E t \in Troubles, k \in Tries(c, Head(script[c])) :
         /\ t[2] => ~Blocked(c, Head(script[c]))
         /\ Aborts(c, IF t[2] THEN Effect(c, Head(script[c]), k) ELSE Database,
                   IF t[1] # "cancelled" /\ backend = "mongo" /\ MongoReportsPartly(op[c], found[c])
                   THEN "done" ELSE "raised")
         /\ doubtful' = IF t[1] = "fails" THEN doubtful ELSE doubtful \cup {c}

\* SQLite gives up after its busy timeout.
TimesOut(c) ==
    /\ at[c] = "running"
    /\ backend = "sqlite"
    /\ Blocked(c, Head(script[c]))
    /\ Aborts(c, Database, "raised")
    /\ UNCHANGED <<troubles, doubtful>>

Next ==
    \/ \E c \in Callers : \/ Start(c) \/ Proceed(c) \/ InMemory(c)
                          \/ Trouble(c) \/ TimesOut(c)

Spec == Init /\ [][Next]_vars

\* Databases answer, and connections are lent in turn.
FairSpec ==
    /\ Spec
    /\ \A c \in Callers : /\ WF_vars(Start(c)) /\ WF_vars(InMemory(c))
                          /\ WF_vars(Proceed(c)) /\ WF_vars(TimesOut(c))

-----------------------------------------------------------------------------
(* What callers rely on.                                                   *)

Over(c, name) == at[c] = "over" /\ op[c].name = name

\* The calls that were told that they ended run r.
Winners(r) ==
    {c \in Callers :
        \/ /\ Over(c, "updateRunStatus") /\ op[c].run = r
           /\ op[c].value \in Ended /\ answer[c] = "updated"
        \/ Over(c, "failStaleRuns") /\ r \in found[c] /\ answer[c] = "done"}

\* A run is ended once: of the run itself, a cancel, and the sweeps of every
\* process, one at most is told that its write took effect.
EndedOnce == \A r \in Runs : Cardinality(Winners(r)) <= 1

\* What a caller was told stands: the end of a run that a write was
\* acknowledged for, or that a read returned, is still there, or the row was
\* deleted.  A SQLite connection also reads what a cancelled call left
\* uncommitted, so its reads are held to it only where no call had trouble.
EndsStand ==
    \A c \in Callers : \A r \in Runs :
        \/ Over(c, "updateRunStatus") /\ c \in Winners(r)
        \/ /\ Over(c, "fetchRun") \/ Over(c, "listRuns")
           /\ r \in found[c] /\ op[c].value \in Ended
           /\ backend = "sqlite" => troubles = 0
        => rows[r] \in {Row(op[c].value), Absent}

\* A run that a sweep failed is reported by it, so that its thread can be
\* released, unless the sweep cannot know what became of its claims.  (In
\* this instance only sweeps write error.)
ClaimsAreReported ==
    \A r \in Runs : rows[r].status = "error" =>
        \E c \in Callers :
            /\ op[c].name = "failStaleRuns"
            /\ \/ c \in doubtful
               \/ r \in found[c] /\ (at[c] = "running" \/ answer[c] = "done")

\* No run row is left without its thread, by any interleaving or interruption
\* of deletes.  The memory and Mongo stores have no foreign keys: there a run
\* created after its thread's deletion has none.
RunsKeepTheirThread ==
    \/ Thread \in Present(rows)
    \/ Present(rows) = {}
    \/ ~ForeignKeys /\ \E c \in Callers : op[c].name = "createRun"

\* Concurrent creates of one thread agree on who made it, and a create that
\* may find the thread only fails if the thread was deleted meanwhile.
CreatesAgree ==
    \/ \E c \in Callers : op[c].name = "deleteThread"
    \/ backend = "sqlite" /\ troubles > 0
    \/ /\ Cardinality({c \in Callers : Over(c, "createThread") /\ answer[c] = "created"}) <= 1
       /\ \A c \in Callers : Over(c, "createThread") =>
            /\ answer[c] # "vanished"
            /\ answer[c] \in {"created", "exists", "existing"} => Thread \in Present(rows)

\* Every call ends, with or without trouble: no call waits for a connection
\* while it holds one, and no lock outlives its holder.  (A call that is over
\* stays over.)
EveryCallEnds == <>(\A c \in Callers : at[c] = "over")
=============================================================================
