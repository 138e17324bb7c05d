---------------------------- MODULE PostgresSetup ----------------------------
(***************************************************************************)
(* Start and stop of replicas that share one Postgres database: the        *)
(* metadata store's pool, opened on first use and closed by the lifespan's *)
(* exit stack (metadata_store.py 182-250, app.py 168-263), and the index   *)
(* maintenance every start runs under a session-level advisory lock        *)
(* (metadata_store.py 252-322).  A step is the code between two awaits.    *)
(*                                                                         *)
(* Data is abstracted to what the properties tell apart: a pool is its     *)
(* number, an index is absent, invalid or valid, and a server session is   *)
(* the start of the replica that connected it.                             *)
(***************************************************************************)
EXTENDS Naturals

CONSTANTS
  Workers,      \* replicas of the server
  Users,        \* Users[w]: tasks of replica w that call the store besides its setup
  IndexCount,   \* Len(_INDEXES)
  MaxStarts,    \* bound: starts of one replica
  MaxFailures   \* bound: statements and connections that fail, all together

ASSUME BoundsAssumption ==
  {MaxStarts, MaxFailures} \subseteq Nat /\ IndexCount \in Nat \ {0}

Setup   == "setup"
None    == "none"
Tasks   == (UNION {Users[w] : w \in Workers}) \union {Setup}
ASSUME UsersAssumption == \A w \in Workers : {Setup, None} \cap Users[w] = {}

Indexes == 1 .. IndexCount
Session == Workers \X (1 .. MaxStarts)
NoSession == <<None, 0>>

VARIABLES
  phase,     \* phase[w]: where the lifespan of replica w is
  starts,    \* starts[w]: how often w was started
  pool,      \* pool[w]: self._pool, 0 for None
  made,      \* made[w]: pools w constructed since it was started
  live,      \* live[w]: pools of w that hold connections
  lock,      \* lock[w]: the task that holds _pool_lock
  pc,        \* pc[w][t]: what task t of w awaits
  got,       \* got[w][t]: the pool t opens or uses
  at,        \* at[w]: the index setup is at
  advisory,  \* the session that holds _INDEX_LOCK_KEY
  index,     \* index[i]: pg_index's word on index i
  builder,   \* builder[i]: the session whose CREATE INDEX runs
  failures,  \* failures so far, up to MaxFailures
  indexed    \* history: some setup ran the whole sequence without an exception

store  == <<pool, made, live, lock, got>>
server == <<advisory, index, builder>>
vars   == <<phase, starts, store, pc, at, server, failures, indexed>>

Goto(w, t, label) == pc' = [pc EXCEPT ![w][t] = label]
Fail == failures < MaxFailures /\ failures' = failures + 1
Self(w) == <<w, starts[w]>>

Init ==
  /\ phase = [w \in Workers |-> "down"]
  /\ starts = [w \in Workers |-> 0]
  /\ pool = [w \in Workers |-> 0]
  /\ made = [w \in Workers |-> 0]
  /\ live = [w \in Workers |-> {}]
  /\ lock = [w \in Workers |-> None]
  /\ pc = [w \in Workers |-> [t \in Tasks |-> "idle"]]
  /\ got = [w \in Workers |-> [t \in Tasks |-> 0]]
  /\ at = [w \in Workers |-> 1]
  /\ advisory = NoSession
  /\ index \in [Indexes -> {"absent", "invalid", "valid"}]
  /\ builder = [i \in Indexes |-> NoSession]
  /\ failures = 0
  /\ indexed = FALSE

(***************************************************************************)
(* The pool.                                                               *)
(***************************************************************************)
\* _ensure_pool: the pool when it is open, else the lock's queue
Ensure(w, t) ==
  IF pool[w] # 0
    THEN Goto(w, t, "using") /\ got' = [got EXCEPT ![w][t] = pool[w]]
    ELSE Goto(w, t, "lockWait") /\ UNCHANGED got

\* a request, a run's task or a liveness pass makes a call of the store
Call(w, t) ==
  /\ t \in Users[w] /\ phase[w] \in {"starting", "serving"} /\ pc[w][t] = "idle"
  /\ Ensure(w, t)
  /\ UNCHANGED <<phase, starts, pool, made, live, lock, at, server, failures, indexed>>

\* Mutant: the lock's holder does not look again.
NeverReread(w) == FALSE

\* the pool another caller opened while this one waited for the lock
IsOpen(w) == pool[w] # 0

\* async with self._pool_lock: re-read, else construct the pool and open it
Locked(w, t) ==
  /\ pc[w][t] = "lockWait" /\ lock[w] = None
  /\ IF IsOpen(w)
       THEN /\ Goto(w, t, "using") /\ got' = [got EXCEPT ![w][t] = pool[w]]
            /\ UNCHANGED <<made, live, lock>>
       ELSE /\ lock' = [lock EXCEPT ![w] = t]
            /\ made' = [made EXCEPT ![w] = @ + 1]
            /\ live' = [live EXCEPT ![w] = @ \union {made'[w]}]
            /\ got' = [got EXCEPT ![w][t] = made'[w]]
            /\ Goto(w, t, "opening")
  /\ UNCHANGED <<phase, starts, pool, at, server, failures, indexed>>

Opened(w, t) ==
  /\ pc[w][t] = "opening"
  /\ pool' = [pool EXCEPT ![w] = got[w][t]]
  /\ lock' = [lock EXCEPT ![w] = None]
  /\ Goto(w, t, "using")
  /\ UNCHANGED <<phase, starts, made, live, got, at, server, failures, indexed>>

\* pool.open fails, times out or is cancelled after connections came up
OpenFails(w, t) ==
  /\ pc[w][t] = "opening" /\ Fail
  /\ Goto(w, t, "undo")
  /\ UNCHANGED <<phase, starts, store, at, server, indexed>>

\* what a task does that lost its call to an exception
Raised(w, t) == IF t = Setup THEN "failed" ELSE "idle"

\* Mutant: the failed open keeps the lock.
UndoneLocked(w, t) ==
  /\ pc[w][t] = "undo"
  /\ live' = [live EXCEPT ![w] = @ \ {got[w][t]}]
  /\ got' = [got EXCEPT ![w][t] = 0]
  /\ Goto(w, t, Raised(w, t))
  /\ UNCHANGED <<phase, starts, pool, made, lock, at, server, failures, indexed>>

\* except BaseException: the unreachable pool is closed, the lock released
Undone(w, t) ==
  /\ pc[w][t] = "undo"
  /\ live' = [live EXCEPT ![w] = @ \ {got[w][t]}]
  /\ lock' = [lock EXCEPT ![w] = None]
  /\ got' = [got EXCEPT ![w][t] = 0]
  /\ Goto(w, t, Raised(w, t))
  /\ UNCHANGED <<phase, starts, pool, made, at, server, failures, indexed>>

\* cancelled in the lock's queue, or the statements of the call fail
CallFails(w, t) ==
  /\ pc[w][t] \in {"lockWait", "using"} /\ Fail
  /\ got' = [got EXCEPT ![w][t] = 0]
  /\ Goto(w, t, Raised(w, t))
  /\ UNCHANGED <<phase, starts, pool, made, live, lock, at, server, indexed>>

\* the connection goes back to the pool; setup has its tables and goes on
Used(w, t) ==
  /\ pc[w][t] = "using"
  /\ got' = [got EXCEPT ![w][t] = 0]
  /\ Goto(w, t, IF t = Setup THEN "connect" ELSE "idle")
  /\ UNCHANGED <<phase, starts, pool, made, live, lock, at, server, failures, indexed>>

(***************************************************************************)
(* setup(): the indexes, on a connection of their own.                     *)
(***************************************************************************)
Connect(w) ==
  /\ pc[w][Setup] = "connect"
  /\ Goto(w, Setup, "tryLock")
  /\ UNCHANGED <<phase, starts, store, at, server, failures, indexed>>

\* Mutant: setup goes on without the lock.
LockIgnored == TRUE

LockFree == advisory = NoSession

\* pg_try_advisory_lock: tried, never waited for
TryLock(w) ==
  /\ pc[w][Setup] = "tryLock"
  /\ IF LockFree THEN advisory' = Self(w) /\ Goto(w, Setup, "probe")
                 ELSE UNCHANGED advisory /\ Goto(w, Setup, "release")
  /\ at' = [at EXCEPT ![w] = 1]
  /\ UNCHANGED <<phase, starts, store, index, builder, failures, indexed>>

\* the next index of the loop, or the end of the sequence
Advance(w) ==
  IF at[w] < IndexCount
    THEN /\ at' = [at EXCEPT ![w] = @ + 1] /\ Goto(w, Setup, "probe")
         /\ UNCHANGED indexed
    ELSE /\ Goto(w, Setup, "release") /\ indexed' = TRUE
         /\ UNCHANGED at

\* Mutant: nobody looks for leftovers of interrupted builds.
NotProbed(i) == FALSE

Leftover(i) == index[i] = "invalid"

\* _INVALID_INDEX_SQL
Probe(w) ==
  /\ pc[w][Setup] = "probe"
  /\ Goto(w, Setup, IF Leftover(at[w]) THEN "drop" ELSE "create")
  /\ UNCHANGED <<phase, starts, store, at, server, failures, indexed>>

\* DROP INDEX CONCURRENTLY IF EXISTS
Drop(w) ==
  /\ pc[w][Setup] = "drop"
  /\ index' = [index EXCEPT ![at[w]] = "absent"]
  /\ builder' = [builder EXCEPT ![at[w]] = NoSession]
  /\ Goto(w, Setup, "create")
  /\ UNCHANGED <<phase, starts, store, at, advisory, failures, indexed>>

\* CREATE INDEX CONCURRENTLY publishes the index invalid and builds it;
\* IF NOT EXISTS skips one that is there, valid or not
Create(w) ==
  /\ pc[w][Setup] = "create"
  /\ \/ /\ index[at[w]] = "absent"
        /\ index' = [index EXCEPT ![at[w]] = "invalid"]
        /\ builder' = [builder EXCEPT ![at[w]] = Self(w)]
        /\ Goto(w, Setup, "building")
        /\ UNCHANGED <<at, indexed>>
     \/ /\ index[at[w]] # "absent"
        /\ Advance(w)
        /\ UNCHANGED <<index, builder>>
  /\ UNCHANGED <<phase, starts, store, advisory, failures>>

\* the server's answer to CREATE INDEX
Built(w) ==
  /\ pc[w][Setup] = "building" /\ builder[at[w]] # Self(w)
  /\ IF index[at[w]] = "valid" THEN Advance(w)
                               ELSE Goto(w, Setup, "abort") /\ UNCHANGED <<at, indexed>>
  /\ UNCHANGED <<phase, starts, store, server, failures>>

\* a statement raises or setup is cancelled; a build the server runs stops
StatementFails(w) ==
  /\ pc[w][Setup] \in {"connect", "tryLock", "probe", "drop", "create", "building"} /\ Fail
  /\ Goto(w, Setup, IF pc[w][Setup] = "connect" THEN "failed" ELSE "abort")
  /\ builder' = [i \in Indexes |-> IF builder[i] = Self(w) THEN NoSession ELSE builder[i]]
  /\ UNCHANGED <<phase, starts, store, at, advisory, index, indexed>>

\* finally: pg_advisory_unlock, best effort, and conn.close; either releases
Release(w) ==
  /\ pc[w][Setup] \in {"release", "abort"}
  /\ advisory' = IF advisory = Self(w) THEN NoSession ELSE advisory
  /\ Goto(w, Setup, IF pc[w][Setup] = "release" THEN "done" ELSE "failed")
  /\ UNCHANGED <<phase, starts, store, at, index, builder, failures, indexed>>

(***************************************************************************)
(* The server: builds end, and so does the session of a crashed replica.   *)
(***************************************************************************)
Building(i) == builder[i] # NoSession

BuildEnds(i) ==
  /\ Building(i)
  /\ \/ index' = [index EXCEPT ![i] = "valid"] /\ UNCHANGED failures
     \/ Fail /\ UNCHANGED index
  /\ builder' = [builder EXCEPT ![i] = NoSession]
  /\ UNCHANGED <<phase, starts, store, pc, at, advisory, indexed>>

Gone(s) == phase[s[1]] \in {"down", "closed"} \/ starts[s[1]] # s[2]

\* the server notices that the client is gone: its build fails, its lock is free
SessionEnds ==
  /\ advisory # NoSession /\ Gone(advisory)
  /\ builder' = [i \in Indexes |-> IF builder[i] = advisory THEN NoSession ELSE builder[i]]
  /\ advisory' = NoSession
  /\ UNCHANGED <<phase, starts, store, pc, at, index, failures, indexed>>

(***************************************************************************)
(* The lifespan.                                                           *)
(***************************************************************************)
Boot(w) ==
  /\ phase[w] \in {"down", "closed"} /\ starts[w] < MaxStarts
  /\ phase' = [phase EXCEPT ![w] = "starting"]
  /\ starts' = [starts EXCEPT ![w] = @ + 1]
  /\ pool' = [pool EXCEPT ![w] = 0]
  /\ made' = [made EXCEPT ![w] = 0]
  /\ Goto(w, Setup, "lockWait")
  /\ UNCHANGED <<live, lock, got, at, server, failures, indexed>>

Serve(w) ==
  /\ phase[w] = "starting" /\ pc[w][Setup] = "done"
  /\ phase' = [phase EXCEPT ![w] = "serving"]
  /\ UNCHANGED <<starts, store, pc, at, server, failures, indexed>>

\* Mutant: aclose is registered after setup.
UnwindsNothing(w) ==
  /\ phase[w] = "starting" /\ pc[w][Setup] = "failed"
  /\ phase' = [phase EXCEPT ![w] = "closed"]
  /\ Goto(w, Setup, "idle")
  /\ UNCHANGED <<starts, store, at, server, failures, indexed>>

\* aclose is registered before setup runs: a failed setup unwinds through it
SetupFailed(w) ==
  /\ phase[w] = "starting" /\ pc[w][Setup] = "failed"
  /\ phase' = [phase EXCEPT ![w] = "draining"]
  /\ UNCHANGED <<starts, store, pc, at, server, failures, indexed>>

Stop(w) ==
  /\ phase[w] = "serving"
  /\ phase' = [phase EXCEPT ![w] = "draining"]
  /\ UNCHANGED <<starts, store, pc, at, server, failures, indexed>>

Drained(w) == \A t \in Users[w] : pc[w][t] = "idle"

\* aclose, once requests and run tasks have ended
Close(w) ==
  /\ phase[w] = "draining" /\ Drained(w)
  /\ live' = [live EXCEPT ![w] = @ \ {pool[w]}]
  /\ pool' = [pool EXCEPT ![w] = 0]
  /\ phase' = [phase EXCEPT ![w] = "closed"]
  /\ Goto(w, Setup, "idle")
  /\ UNCHANGED <<starts, made, lock, got, at, server, failures, indexed>>

\* the process dies: the server keeps its session until SessionEnds
Crash(w) ==
  /\ phase[w] \in {"starting", "serving", "draining"} /\ Fail
  /\ phase' = [phase EXCEPT ![w] = "down"]
  /\ pool' = [pool EXCEPT ![w] = 0]
  /\ live' = [live EXCEPT ![w] = {}]
  /\ lock' = [lock EXCEPT ![w] = None]
  /\ pc' = [pc EXCEPT ![w] = [t \in Tasks |-> "idle"]]
  /\ got' = [got EXCEPT ![w] = [t \in Tasks |-> 0]]
  /\ UNCHANGED <<starts, made, at, server, indexed>>

TaskStep(w, t) == Locked(w, t) \/ Opened(w, t) \/ Undone(w, t) \/ Used(w, t)

SetupStep(w) ==
  \/ Connect(w) \/ TryLock(w) \/ Probe(w) \/ Drop(w) \/ Create(w) \/ Built(w)
  \/ Release(w) \/ Serve(w) \/ SetupFailed(w)

Next ==
  \/ \E w \in Workers :
       \/ \E t \in Tasks : Call(w, t) \/ TaskStep(w, t) \/ OpenFails(w, t) \/ CallFails(w, t)
       \/ SetupStep(w) \/ StatementFails(w)
       \/ Boot(w) \/ Stop(w) \/ Close(w) \/ Crash(w)
  \/ \E i \in Indexes : BuildEnds(i)
  \/ SessionEnds

Spec == Init /\ [][Next]_vars

\* the event loops run what is ready, the server ends its builds and notices
\* dead clients; no replica has to be started, stopped or to fail
Fairness ==
  /\ \A w \in Workers : WF_vars(SetupStep(w)) /\ WF_vars(Close(w))
  /\ \A w \in Workers, t \in Tasks : WF_vars(TaskStep(w, t))
  /\ \A i \in Indexes : WF_vars(BuildEnds(i))
  /\ WF_vars(SessionEnds)

FairSpec == Spec /\ Fairness

-----------------------------------------------------------------------------
Pools == Nat

TypeOK ==
  /\ phase \in [Workers -> {"down", "starting", "serving", "draining", "closed"}]
  /\ starts \in [Workers -> 0 .. MaxStarts]
  /\ pool \in [Workers -> Pools]
  /\ made \in [Workers -> Pools]
  /\ live \in [Workers -> SUBSET Pools]
  /\ lock \in [Workers -> Tasks \union {None}]
  /\ pc \in [Workers -> [Tasks -> {"idle", "lockWait", "opening", "undo", "using", "connect",
       "tryLock", "probe", "drop", "create", "building", "release", "abort", "done", "failed"}]]
  /\ got \in [Workers -> [Tasks -> Pools]]
  /\ at \in [Workers -> Indexes]
  /\ advisory \in Session \union {NoSession}
  /\ index \in [Indexes -> {"absent", "invalid", "valid"}]
  /\ builder \in [Indexes -> Session \union {NoSession}]
  /\ failures \in 0 .. MaxFailures
  /\ indexed \in BOOLEAN

\* Every pool with connections is self._pool or the one the lock's holder is
\* opening or closing again, and its lifespan is still to run aclose: concurrent
\* first calls, failed and cancelled opens and a setup that raises half way leave
\* no pool behind that nobody closes (metadata_store.py 198-232, app.py 197-203).
NoPoolLeaks ==
  \A w \in Workers : \A p \in live[w] :
    /\ phase[w] \notin {"down", "closed"}
    /\ \/ p = pool[w]
       \/ /\ lock[w] \in Tasks /\ p = got[w][lock[w]]
          /\ pc[w][lock[w]] \in {"opening", "undo"}

\* A replica's setup never drops an index that another replica's build, live or
\* orphaned by a crash, is still filling, however starts, failures and crashes
\* interleave (metadata_store.py 112-132, 273-280).
NoBuildIsDropped ==
  [][\A w \in Workers, i \in Indexes : Drop(w) /\ at[w] = i => ~Building(i)]_vars

\* Once a setup ran its whole sequence, every index is valid and stays so: no
\* invalid leftover was skipped by IF NOT EXISTS, and no later start undoes one
\* (metadata_store.py 110-112, 269-271).
IndexedMeansValid ==
  indexed => \A i \in Indexes : index[i] = "valid"

\* A start ends: the replica serves, or its lifespan unwinds, whatever lock
\* another replica's session holds or leaves behind.
EveryStartEnds ==
  \A w \in Workers : phase[w] = "starting" ~> phase[w] # "starting"

=============================================================================
