------------------------- MODULE PostgresSetupProofs -------------------------
(***************************************************************************)
(* Proofs about PostgresSetup, for any number of replicas, callers,        *)
(* indexes, starts and failures: no pool is left behind, no running build  *)
(* is dropped, and a finished index sequence means valid indexes.          *)
(*                                                                         *)
(* There are two owners.  In each replica _pool_lock belongs to the one    *)
(* task that is opening or closing a pool (Holder), so a live pool is      *)
(* self._pool or that task's (Pooled).  In the database the advisory lock  *)
(* belongs to one session, and so does every build (Locker), so the loop   *)
(* over the indexes finds an index as its last step left it (Loop).        *)
(***************************************************************************)
EXTENDS PostgresSetup, TLAPS

Holding  == {"opening", "undo"}
Looping  == {"probe", "drop", "create", "building"}
Live(w)  == phase[w] \in {"starting", "serving", "draining"}

\* Where the lifespan is says where its tasks can be.
Stages ==
  \A w \in Workers :
    /\ ~Live(w) => \A t \in Tasks : pc[w][t] = "idle"
    /\ phase[w] = "serving" => pc[w][Setup] = "done"
    /\ phase[w] = "draining" => pc[w][Setup] \in {"done", "failed"}
    /\ Live(w) => starts[w] > 0
    /\ \A t \in Tasks \ {Setup} :
         /\ pc[w][t] \in {"idle", "lockWait", "using"} \union Holding
         /\ t \notin Users[w] => pc[w][t] = "idle"

Holder ==
  \A w \in Workers :
    /\ \A t \in Tasks : pc[w][t] \in Holding <=> lock[w] = t
    /\ lock[w] # None => pool[w] = 0

Pooled ==
  \A w \in Workers :
    /\ 0 \notin live[w]
    /\ ~Live(w) => live[w] = {}
    /\ \A p \in live[w] : p = pool[w] \/ (lock[w] # None /\ p = got[w][lock[w]])

Locker ==
  /\ advisory # NoSession => advisory[2] <= starts[advisory[1]]
  /\ \A w \in Workers :
       /\ pc[w][Setup] \in Looping => advisory = Self(w)
       /\ Live(w) /\ advisory = Self(w) => pc[w][Setup] \in Looping \union {"release", "abort"}
  /\ \A i \in Indexes :
       /\ builder[i] # NoSession => builder[i] = advisory /\ index[i] = "invalid"
       /\ \A w \in Workers :
            Live(w) /\ builder[i] = Self(w) => pc[w][Setup] = "building" /\ i = at[w]

Loop ==
  \A w \in Workers :
    /\ pc[w][Setup] \in Looping => \A i \in Indexes : i < at[w] => index[i] = "valid"
    /\ pc[w][Setup] = "drop" => index[at[w]] = "invalid"
    /\ pc[w][Setup] = "create" => index[at[w]] # "invalid"
    /\ pc[w][Setup] = "building" => index[at[w]] # "absent"

IInv == TypeOK /\ Stages /\ Holder /\ Pooled /\ Locker /\ Loop /\ IndexedMeansValid

-----------------------------------------------------------------------------
(***************************************************************************)
(* What a step of each kind does to the program counters.                  *)
(***************************************************************************)
Labels == {"idle", "lockWait", "opening", "undo", "using", "connect", "tryLock", "probe",
           "drop", "create", "building", "release", "abort", "done", "failed"}

\* Where a task of the store is, and where setup is once it has its tables.
Calling   == {"idle", "lockWait", "using"} \union Holding
AtIndexes == {"connect", "tryLock", "release", "abort"} \union Looping

Others(w, t) ==
  \A v \in Workers, s \in Tasks : v # w \/ s # t => pc'[v][s] = pc[v][s]

\* setup() is a task like the others.
LEMMA SetupIsATask == Setup \in Tasks
    BY DEF Tasks

\* The lock's holder is a task or nobody.
LEMMA NoneIsNoTask == None \notin Tasks
<1>1. None # Setup
    BY DEF None, Setup
<1> QED BY <1>1, UsersAssumption DEF Tasks

\* Only the task that moves moves.
LEMMA GotoEffect ==
    ASSUME TypeOK, NEW w \in Workers, NEW t \in Tasks, NEW label \in Labels, Goto(w, t, label)
    PROVE  pc' \in [Workers -> [Tasks -> Labels]] /\ pc'[w][t] = label /\ Others(w, t)
    BY DEF TypeOK, Goto, Labels, Others

\* A task of the store ends, or goes on with, one call.
PoolStep(w, t) ==
  \/ Call(w, t) \/ Locked(w, t) \/ Opened(w, t) \/ OpenFails(w, t) \/ Undone(w, t)
  \/ CallFails(w, t) \/ Used(w, t)

\* A task of the store touches neither the lifespan nor the indexes.
LEMMA PoolMoves ==
    ASSUME IInv, NEW w \in Workers, NEW t \in Tasks, PoolStep(w, t)
    PROVE  /\ UNCHANGED <<phase, starts, at, advisory, index, builder, indexed>>
           /\ pc' \in [Workers -> [Tasks -> Labels]] /\ Others(w, t)
           /\ pc[w][t] \in Calling /\ Live(w)
           /\ t # Setup => t \in Users[w] /\ pc'[w][t] \in Calling
           /\ t = Setup => phase[w] = "starting" /\ pc'[w][t] \in {"using", "opening", "undo", "connect", "failed"}
<1> USE GotoEffect DEF Setup, Labels, Calling, Holding, server, store
<1>1. Setup \in Tasks /\ (t # Setup /\ pc[w][t] # "idle" => t \in Users[w])
    BY SetupIsATask DEF IInv, Stages
<1>2. pc[w][t] # "idle" => Live(w)
    BY DEF IInv, Stages
<1>3. t = Setup /\ pc[w][t] \in Calling \ {"idle"} => phase[w] = "starting"
    BY <1>2 DEF IInv, Stages, Live
<1>4. TypeOK
    BY DEF IInv
<1>5. CASE Call(w, t)
  <2>1. t # Setup
      BY <1>5, UsersAssumption DEF Call
  <2>2. \E l \in {"using", "lockWait"} : Goto(w, t, l)
      BY <1>5 DEF Call, Ensure
  <2> QED BY <1>4, <1>5, <2>1, <2>2 DEF Call, Live
<1>6. CASE Locked(w, t)
  <2>1. \E l \in {"using", "opening"} : Goto(w, t, l)
      BY <1>6 DEF Locked
  <2> QED BY <1>1, <1>2, <1>3, <1>4, <1>6, <2>1 DEF Locked
<1>7. CASE Opened(w, t)
    BY <1>1, <1>2, <1>3, <1>4, <1>7 DEF Opened
<1>8. CASE OpenFails(w, t)
    BY <1>1, <1>2, <1>3, <1>4, <1>8 DEF OpenFails
<1>9. CASE Undone(w, t)
    BY <1>1, <1>2, <1>3, <1>4, <1>9 DEF Undone, Raised
<1>10. CASE CallFails(w, t)
    BY <1>1, <1>2, <1>3, <1>4, <1>10 DEF CallFails, Raised
<1>11. CASE Used(w, t)
    BY <1>1, <1>2, <1>3, <1>4, <1>11 DEF Used
<1> QED BY <1>5, <1>6, <1>7, <1>8, <1>9, <1>10, <1>11 DEF PoolStep

\* Setup works on the indexes.
IndexStep(w) ==
  \/ Connect(w) \/ TryLock(w) \/ Probe(w) \/ Drop(w) \/ Create(w) \/ Built(w)
  \/ Release(w) \/ StatementFails(w)

\* Setup at the indexes touches no pool.
LEMMA IndexMoves ==
    ASSUME IInv, NEW w \in Workers, IndexStep(w)
    PROVE  /\ UNCHANGED <<phase, starts, pool, made, live, lock, got>>
           /\ pc' \in [Workers -> [Tasks -> Labels]] /\ Others(w, Setup)
           /\ phase[w] = "starting"
           /\ pc[w][Setup] \in AtIndexes /\ pc'[w][Setup] \in AtIndexes \union {"done", "failed"}
<1> USE GotoEffect DEF Labels, AtIndexes, Looping, store, server
<1>1. TypeOK /\ Setup \in Tasks
    BY SetupIsATask DEF IInv
<1>2. pc[w][Setup] \in AtIndexes => phase[w] = "starting"
    BY <1>1 DEF IInv, Stages, Live
<1>3. CASE Connect(w)
    BY <1>1, <1>2, <1>3 DEF Connect
<1>4. CASE TryLock(w)
  <2>1. \E l \in {"probe", "release"} : Goto(w, Setup, l)
      BY <1>4 DEF TryLock
  <2> QED BY <1>1, <1>2, <1>4, <2>1 DEF TryLock
<1>5. CASE Probe(w)
    BY <1>1, <1>2, <1>5 DEF Probe
<1>6. CASE Drop(w)
    BY <1>1, <1>2, <1>6 DEF Drop
<1>7. CASE Create(w)
  <2>1. \E l \in {"building", "probe", "release"} : Goto(w, Setup, l)
      BY <1>7 DEF Create, Advance
  <2> QED BY <1>1, <1>2, <1>7, <2>1 DEF Create
<1>8. CASE Built(w)
  <2>1. \E l \in {"abort", "probe", "release"} : Goto(w, Setup, l)
      BY <1>8 DEF Built, Advance
  <2> QED BY <1>1, <1>2, <1>8, <2>1 DEF Built
<1>9. CASE Release(w)
    BY <1>1, <1>2, <1>9 DEF Release
<1>10. CASE StatementFails(w)
    BY <1>1, <1>2, <1>10 DEF StatementFails
<1> QED BY <1>3, <1>4, <1>5, <1>6, <1>7, <1>8, <1>9, <1>10 DEF IndexStep

-----------------------------------------------------------------------------
(***************************************************************************)
(* The invariant, part by part.                                            *)
(***************************************************************************)
\* A task of the store keeps the types.
LEMMA PoolTypes ==
    ASSUME IInv, NEW w \in Workers, NEW t \in Tasks, PoolStep(w, t)
    PROVE  TypeOK'
<1> USE DEF Pools
<1>1. TypeOK
    BY DEF IInv
<1>2. /\ UNCHANGED <<phase, starts, at, advisory, index, builder, indexed>>
      /\ pc' \in [Workers -> [Tasks -> Labels]]
    BY PoolMoves
<1>3. /\ pool' \in [Workers -> Pools] /\ made' \in [Workers -> Pools]
      /\ live' \in [Workers -> SUBSET Pools] /\ lock' \in [Workers -> Tasks \union {None}]
      /\ got' \in [Workers -> [Tasks -> Pools]] /\ failures' \in 0 .. MaxFailures
  <2> USE <1>1 DEF TypeOK, store, Fail
  <2>1. CASE Call(w, t)
    <3>1. got' = got \/ got' = [got EXCEPT ![w][t] = pool[w]]
        BY <2>1 DEF Call, Ensure
    <3>2. UNCHANGED <<pool, made, live, lock, failures>>
        BY <2>1 DEF Call
    <3>3. CASE got' = got
        BY <3>2, <3>3
    <3>4. CASE got' = [got EXCEPT ![w][t] = pool[w]]
        BY <3>2, <3>4
    <3> QED BY <3>1, <3>3, <3>4
  <2>2. CASE Locked(w, t)
    <3>1. CASE IsOpen(w)
      <4>1. got' = [got EXCEPT ![w][t] = pool[w]] /\ UNCHANGED <<pool, made, live, lock, failures>>
          BY <2>2, <3>1 DEF Locked
      <4> QED BY <4>1
    <3>2. CASE ~IsOpen(w)
      <4>1. /\ lock' = [lock EXCEPT ![w] = t] /\ made' = [made EXCEPT ![w] = @ + 1]
            /\ live' = [live EXCEPT ![w] = @ \union {made[w] + 1}]
            /\ got' = [got EXCEPT ![w][t] = made[w] + 1] /\ UNCHANGED <<pool, failures>>
          BY <2>2, <3>2 DEF Locked
      <4> QED BY <4>1
    <3> QED BY <3>1, <3>2
  <2>3. CASE Opened(w, t)
      BY <2>3 DEF Opened
  <2>4. CASE OpenFails(w, t)
      BY <2>4, BoundsAssumption DEF OpenFails
  <2>5. CASE Undone(w, t)
      BY <2>5 DEF Undone
  <2>6. CASE CallFails(w, t)
      BY <2>6, BoundsAssumption DEF CallFails
  <2>7. CASE Used(w, t)
      BY <2>7 DEF Used
  <2> QED BY <2>1, <2>2, <2>3, <2>4, <2>5, <2>6, <2>7 DEF PoolStep
<1> QED BY <1>1, <1>2, <1>3 DEF TypeOK, Labels

\* Setup at the indexes keeps the types.
LEMMA IndexTypes ==
    ASSUME IInv, NEW w \in Workers, IndexStep(w)
    PROVE  TypeOK'
<1>1. TypeOK /\ IndexCount \in Nat \ {0}
    BY BoundsAssumption DEF IInv
<1>2. /\ UNCHANGED <<phase, starts, pool, made, live, lock, got>>
      /\ pc' \in [Workers -> [Tasks -> Labels]]
    BY IndexMoves
<1>3. Self(w) \in Session
    BY <1>1, IndexMoves, BoundsAssumption DEF IInv, TypeOK, Stages, Live, Self, Session
<1>4. at[w] < IndexCount => at[w] + 1 \in Indexes
    BY <1>1 DEF TypeOK, Indexes
<1>5. /\ at' \in [Workers -> Indexes] /\ advisory' \in Session \union {NoSession}
      /\ index' \in [Indexes -> {"absent", "invalid", "valid"}]
      /\ builder' \in [Indexes -> Session \union {NoSession}]
      /\ failures' \in 0 .. MaxFailures /\ indexed' \in BOOLEAN
  <2> USE <1>1 DEF TypeOK, store, server, Fail
  <2>1. CASE Connect(w)
      BY <2>1 DEF Connect
  <2>2. CASE TryLock(w)
    <3>1. 1 \in Indexes
        BY <1>1 DEF Indexes
    <3>2. advisory' = advisory \/ advisory' = Self(w)
        BY <2>2 DEF TryLock
    <3>3. at' = [at EXCEPT ![w] = 1] /\ UNCHANGED <<index, builder, failures, indexed>>
        BY <2>2 DEF TryLock
    <3> QED BY <1>3, <3>1, <3>2, <3>3
  <2>3. CASE Probe(w)
      BY <2>3 DEF Probe
  <2>4. CASE Drop(w)
      BY <2>4 DEF Drop
  <2>5. CASE Create(w)
    <3>1. CASE index[at[w]] = "absent"
      <4>1. /\ index' = [index EXCEPT ![at[w]] = "invalid"]
            /\ builder' = [builder EXCEPT ![at[w]] = Self(w)]
            /\ UNCHANGED <<at, indexed, advisory, failures>>
          BY <2>5, <3>1 DEF Create
      <4> QED BY <1>3, <4>1
    <3>2. CASE index[at[w]] # "absent"
        BY <1>4, <2>5, <3>2 DEF Create, Advance
    <3> QED BY <3>1, <3>2
  <2>6. CASE Built(w)
    <3>1. CASE index[at[w]] = "valid"
        BY <1>4, <2>6, <3>1 DEF Built, Advance
    <3>2. CASE index[at[w]] # "valid"
        BY <2>6, <3>2 DEF Built
    <3> QED BY <3>1, <3>2
  <2>7. CASE Release(w)
      BY <2>7 DEF Release
  <2>8. CASE StatementFails(w)
      BY <2>8, BoundsAssumption DEF StatementFails
  <2> QED BY <2>1, <2>2, <2>3, <2>4, <2>5, <2>6, <2>7, <2>8 DEF IndexStep
<1> QED BY <1>1, <1>2, <1>5 DEF TypeOK, Labels

\* A step that neither takes nor gives back the lock keeps both parts.
LEMMA OwnersStay ==
    ASSUME TypeOK, Holder, Pooled, NEW w \in Workers, NEW t \in Tasks, Others(w, t),
           UNCHANGED <<phase, pool, live, lock>>,
           pc[w][t] \in Holding <=> pc'[w][t] \in Holding,
           \A v \in Workers, s \in Tasks : v # w \/ s # t \/ pc[v][s] \in Holding => got'[v][s] = got[v][s]
    PROVE  Holder' /\ Pooled'
<1>1. \A v \in Workers, s \in Tasks : pc[v][s] \in Holding <=> pc'[v][s] \in Holding
    BY DEF Others
<1>2. Holder'
    BY <1>1 DEF Holder
<1>3. \A v \in Workers : lock[v] # None => got'[v][lock[v]] = got[v][lock[v]]
  <2> SUFFICES ASSUME NEW v \in Workers, lock[v] # None
               PROVE  got'[v][lock[v]] = got[v][lock[v]]
      OBVIOUS
  <2>1. lock[v] \in Tasks
      BY DEF TypeOK
  <2> QED BY <2>1 DEF Holder
<1>4. Pooled'
    BY <1>3 DEF Pooled, Live
<1> QED BY <1>2, <1>4

\* A task of the store keeps the lock's owner and what is live.
LEMMA PoolOwners ==
    ASSUME IInv, NEW w \in Workers, NEW t \in Tasks, PoolStep(w, t)
    PROVE  Holder' /\ Pooled'
<1>1. Others(w, t) /\ UNCHANGED phase /\ pc' \in [Workers -> [Tasks -> Labels]] /\ Live(w)
    BY PoolMoves
<1>2. TypeOK /\ Holder /\ Pooled
    BY DEF IInv
<1>3. None \notin Tasks
    BY NoneIsNoTask
<1> USE <1>1, <1>2, <1>3 DEF Holding, Labels, store
<1>4. CASE Call(w, t)
  <2>1. pc[w][t] = "idle" /\ pc'[w][t] \in {"using", "lockWait"}
      BY <1>4, GotoEffect DEF Call, Ensure
  <2>2. /\ UNCHANGED <<pool, live, lock>>
        /\ \A v \in Workers, s \in Tasks : v # w \/ s # t => got'[v][s] = got[v][s]
      BY <1>4 DEF Call, Ensure, TypeOK
  <2> QED BY <2>1, <2>2, OwnersStay
<1>5. CASE Locked(w, t)
  <2>1. CASE IsOpen(w)
    <3>1. pc[w][t] = "lockWait" /\ pc'[w][t] = "using"
        BY <1>5, <2>1, GotoEffect DEF Locked
    <3>2. /\ UNCHANGED <<pool, live, lock>>
          /\ \A v \in Workers, s \in Tasks : v # w \/ s # t => got'[v][s] = got[v][s]
        BY <1>5, <2>1 DEF Locked, TypeOK
    <3> QED BY <3>1, <3>2, OwnersStay
  <2>2. CASE ~IsOpen(w)
    <3>1. pc[w][t] = "lockWait" /\ pc'[w][t] = "opening" /\ lock[w] = None /\ pool[w] = 0
        BY <1>5, <2>2, GotoEffect DEF Locked, IsOpen
    <3>2. /\ UNCHANGED pool /\ lock' = [lock EXCEPT ![w] = t]
          /\ live' = [live EXCEPT ![w] = @ \union {made[w] + 1}]
          /\ got' = [got EXCEPT ![w][t] = made[w] + 1]
        BY <1>5, <2>2 DEF Locked, TypeOK
    <3>3. Holder'
        BY <3>1, <3>2 DEF Holder, TypeOK, Others
    <3>4. live[w] = {} /\ made[w] + 1 # 0
        BY <3>1 DEF Pooled, TypeOK, Pools
    <3>5. Pooled'
        BY <3>1, <3>2, <3>4 DEF Pooled, TypeOK, Live
    <3> QED BY <3>3, <3>5
  <2> QED BY <2>1, <2>2
<1>6. CASE Opened(w, t)
  <2>1. /\ pc[w][t] = "opening" /\ pc'[w][t] = "using" /\ UNCHANGED <<live, got>>
        /\ pool' = [pool EXCEPT ![w] = got[w][t]] /\ lock' = [lock EXCEPT ![w] = None]
      BY <1>6, GotoEffect DEF Opened
  <2>2. lock[w] = t /\ pool[w] = 0
      BY <2>1 DEF Holder
  <2>3. Holder'
      BY <2>1, <2>2 DEF Holder, TypeOK, Others
  <2>4. Pooled'
      BY <2>1, <2>2 DEF Pooled, TypeOK, Live
  <2> QED BY <2>3, <2>4
<1>7. CASE OpenFails(w, t)
  <2>1. pc[w][t] = "opening" /\ pc'[w][t] = "undo" /\ UNCHANGED <<pool, live, lock, got>>
      BY <1>7, GotoEffect DEF OpenFails
  <2> QED BY <2>1, OwnersStay
<1>8. CASE Undone(w, t)
  <2>1. /\ pc[w][t] = "undo" /\ pc'[w][t] \in {"failed", "idle"} /\ UNCHANGED pool
        /\ live' = [live EXCEPT ![w] = @ \ {got[w][t]}] /\ lock' = [lock EXCEPT ![w] = None]
        /\ \A v \in Workers \ {w} : got'[v] = got[v]
      BY <1>8, GotoEffect DEF Undone, Raised, TypeOK
  <2>2. lock[w] = t /\ pool[w] = 0
      BY <2>1 DEF Holder
  <2>3. Holder'
      BY <2>1, <2>2 DEF Holder, TypeOK, Others
  <2>4. Pooled'
      BY <2>1, <2>2 DEF Pooled, TypeOK, Live
  <2> QED BY <2>3, <2>4
<1>9. CASE CallFails(w, t) \/ Used(w, t)
  <2>1. /\ pc[w][t] \in {"lockWait", "using"} /\ pc'[w][t] \in {"failed", "idle", "connect"}
        /\ UNCHANGED <<pool, live, lock>>
        /\ \A v \in Workers, s \in Tasks : v # w \/ s # t => got'[v][s] = got[v][s]
      BY <1>9, GotoEffect DEF CallFails, Used, Raised, TypeOK
  <2> QED BY <2>1, OwnersStay
<1> QED BY <1>4, <1>5, <1>6, <1>7, <1>8, <1>9 DEF PoolStep

\* What is at the indexes stays, whoever calls the store.
LEMMA PoolKeepsIndexes ==
    ASSUME IInv, NEW w \in Workers, NEW t \in Tasks, PoolStep(w, t)
    PROVE  Stages' /\ Locker' /\ Loop' /\ IndexedMeansValid'
<1>1. /\ UNCHANGED <<phase, starts, at, advisory, index, builder, indexed>>
      /\ pc' \in [Workers -> [Tasks -> Labels]] /\ Others(w, t)
      /\ pc[w][t] \in Calling /\ Live(w)
      /\ t # Setup => t \in Users[w] /\ pc'[w][t] \in Calling
      /\ t = Setup => phase[w] = "starting" /\ pc'[w][t] \in {"using", "opening", "undo", "connect", "failed"}
    BY PoolMoves
<1>2. Stages'
  <2>1. \A v \in Workers : v # w => \A s \in Tasks : pc'[v][s] = pc[v][s]
      BY <1>1 DEF Others
  <2>2. \A s \in Tasks : s # t => pc'[w][s] = pc[w][s]
      BY <1>1 DEF Others
  <2>3. Stages /\ pc'[w][t] \in Calling \union {"connect", "failed"}
      BY <1>1 DEF IInv, Calling, Holding
  <2> QED BY <1>1, <2>1, <2>2, <2>3, SetupIsATask DEF Stages, Live, Calling, Holding
<1>3. \A v \in Workers :
        \/ pc'[v][Setup] = pc[v][Setup]
        \/ pc[v][Setup] \notin Looping \union {"release", "abort"}
           /\ pc'[v][Setup] \notin Looping \union {"release", "abort"}
    BY <1>1, SetupIsATask DEF Others, Calling, Holding, Looping
<1>4. Locker'
    BY <1>1, <1>3 DEF IInv, Locker, Live, Looping, Self
<1>5. Loop' /\ IndexedMeansValid'
    BY <1>1, <1>3 DEF IInv, Loop, IndexedMeansValid, Looping
<1> QED BY <1>2, <1>4, <1>5

\* What is in the replica's memory stays, whatever setup does at the indexes.
LEMMA IndexKeepsPools ==
    ASSUME IInv, NEW w \in Workers, IndexStep(w)
    PROVE  Stages' /\ Holder' /\ Pooled'
<1>1. /\ UNCHANGED <<phase, starts, pool, made, live, lock, got>>
      /\ pc' \in [Workers -> [Tasks -> Labels]] /\ Others(w, Setup)
      /\ phase[w] = "starting"
      /\ pc[w][Setup] \in AtIndexes /\ pc'[w][Setup] \in AtIndexes \union {"done", "failed"}
    BY IndexMoves
<1>2. Stages'
  <2>1. \A v \in Workers, s \in Tasks : v # w \/ s # Setup => pc'[v][s] = pc[v][s]
      BY <1>1 DEF Others
  <2>2. Stages
      BY DEF IInv
  <2> QED BY <1>1, <2>1, <2>2, SetupIsATask DEF Stages, Live
<1>3. Holder' /\ Pooled'
    BY <1>1, SetupIsATask, OwnersStay DEF IInv, AtIndexes, Looping, Holding
<1> QED BY <1>2, <1>3

\* A live replica has a session of its own.
LEMMA Sessions ==
    ASSUME IInv, NEW w \in Workers, Live(w)
    PROVE  /\ Self(w) \in Session /\ Self(w) # NoSession
           /\ \A v \in Workers : Self(v) = Self(w) => v = w
<1>1. starts[w] \in 1 .. MaxStarts
    BY BoundsAssumption DEF IInv, TypeOK, Stages
<1> QED BY <1>1 DEF Self, Session, NoSession

\* Setup is at the indexes only while the replica starts.
LEMMA AtIndexesStarts ==
    ASSUME IInv, NEW w \in Workers, pc[w][Setup] \in AtIndexes
    PROVE  phase[w] = "starting" /\ Live(w)
    BY SetupIsATask DEF IInv, TypeOK, Stages, Live, AtIndexes, Looping

\* The loop goes on past an index that is valid.
LEMMA AdvanceKeeps ==
    ASSUME IInv, NEW w \in Workers, phase[w] = "starting", Advance(w), Others(w, Setup),
           UNCHANGED <<phase, starts, advisory, index, builder>>,
           pc[w][Setup] \in Looping, advisory = Self(w), index[at[w]] = "valid",
           \A i \in Indexes : builder[i] = NoSession
    PROVE  Locker' /\ Loop' /\ IndexedMeansValid'
<1>1. TypeOK /\ Locker /\ Loop /\ IndexedMeansValid /\ at[w] \in Indexes
    BY DEF IInv, TypeOK
<1>2. \A v \in Workers : v # w => pc[v][Setup] \notin Looping
  <2>1. Live(w)
      BY DEF Live
  <2> QED BY <1>1, <2>1, Sessions DEF Locker
<1>3. \A v \in Workers : v # w => pc'[v][Setup] = pc[v][Setup]
    BY SetupIsATask DEF Others
<1>4. \A v \in Workers : Self(v)' = Self(v) /\ Live(v)' = Live(v) /\ (Live(v) => Self(v) # NoSession)
    BY Sessions DEF Self, Live
<1>5. CASE at[w] < IndexCount
  <2>1. pc'[w][Setup] = "probe" /\ at'[w] = at[w] + 1 /\ UNCHANGED indexed
      BY <1>1, <1>5, SetupIsATask, GotoEffect DEF Advance, Labels, TypeOK
  <2>2. Locker'
      BY <1>1, <1>2, <1>3, <1>4, <2>1 DEF Locker, Looping
  <2>3. \A i \in Indexes : i < at'[w] => index[i] = "valid"
      BY <1>1, <2>1 DEF Loop, Indexes
  <2>4. Loop' /\ IndexedMeansValid'
      BY <1>1, <1>2, <1>3, <2>1, <2>3 DEF Loop, IndexedMeansValid, Looping
  <2> QED BY <2>2, <2>4
<1>6. CASE ~(at[w] < IndexCount)
  <2>1. pc'[w][Setup] = "release" /\ UNCHANGED at
      BY <1>1, <1>6, SetupIsATask, GotoEffect DEF Advance, Labels
  <2>2. Locker'
      BY <1>1, <1>2, <1>3, <1>4, <2>1 DEF Locker, Looping
  <2>3. \A i \in Indexes : index[i] = "valid"
      BY <1>1, <1>6, BoundsAssumption DEF Loop, Indexes
  <2>4. Loop' /\ IndexedMeansValid'
      BY <1>1, <1>2, <1>3, <2>1, <2>3 DEF Loop, IndexedMeansValid, Looping
  <2> QED BY <2>2, <2>4
<1> QED BY <1>5, <1>6

\* Setup alone moves in the database while it holds the advisory lock.
LEMMA IndexOwners ==
    ASSUME IInv, NEW w \in Workers, IndexStep(w)
    PROVE  Locker' /\ Loop' /\ IndexedMeansValid'
<1>1. /\ UNCHANGED <<phase, starts, pool, made, live, lock, got>>
      /\ pc' \in [Workers -> [Tasks -> Labels]] /\ Others(w, Setup)
      /\ phase[w] = "starting" /\ Live(w)
    BY IndexMoves DEF Live
<1>2. /\ Self(w) \in Session /\ Self(w) # NoSession /\ starts[w] \in Nat
      /\ \A v \in Workers : Self(v) = Self(w) => v = w
    BY <1>1, Sessions, BoundsAssumption DEF IInv, TypeOK
<1>3. TypeOK /\ Locker /\ Loop /\ IndexedMeansValid /\ at[w] \in Indexes
    BY DEF IInv, TypeOK
<1>4. /\ \A v \in Workers : Self(v)' = Self(v)
      /\ \A v \in Workers : Live(v)' = Live(v) /\ (Live(v) => Self(v) # NoSession)
      /\ \A v \in Workers \ {w} : pc'[v][Setup] = pc[v][Setup]
    BY <1>1, SetupIsATask, Sessions DEF Self, Live, Others
<1>5. CASE Connect(w)
  <2>1. pc[w][Setup] = "connect" /\ pc'[w][Setup] = "tryLock"
        /\ UNCHANGED <<at, advisory, index, builder, indexed>>
      BY <1>3, <1>5, SetupIsATask, GotoEffect DEF Connect, Labels, server
  <2> QED BY <1>1, <1>2, <1>3, <1>4, <2>1 DEF Locker, Loop, IndexedMeansValid, Looping
<1>6. CASE TryLock(w)
  <2>1. pc[w][Setup] = "tryLock" /\ UNCHANGED <<index, builder, indexed>>
        /\ at' = [at EXCEPT ![w] = 1]
      BY <1>6 DEF TryLock
  <2>2. CASE LockFree
    <3>1. pc'[w][Setup] = "probe" /\ advisory' = Self(w) /\ advisory = NoSession
        BY <1>3, <1>6, <2>2, SetupIsATask, GotoEffect DEF TryLock, Labels, LockFree
    <3>2. \A i \in Indexes : builder[i] = NoSession
        BY <1>3, <3>1 DEF Locker
    <3>3. \A v \in Workers : pc[v][Setup] \notin Looping
      <4> SUFFICES ASSUME NEW v \in Workers, pc[v][Setup] \in Looping PROVE FALSE
          OBVIOUS
      <4>1. advisory = Self(v) /\ Live(v)
          BY <1>3, AtIndexesStarts DEF Locker, AtIndexes
      <4> QED BY <3>1, <4>1, Sessions
    <3>4. Locker'
      <4>1. advisory'[2] <= starts'[advisory'[1]]
          BY <1>1, <1>2, <3>1 DEF Self
      <4>2. \A v \in Workers : advisory' = Self(v)' => v = w
          BY <1>2, <1>4, <3>1
      <4> QED BY <1>1, <1>2, <1>4, <2>1, <3>1, <3>2, <3>3, <4>1, <4>2 DEF Locker, Looping
    <3>5. Loop' /\ IndexedMeansValid'
        BY <1>1, <1>2, <1>3, <1>4, <2>1, <3>1, <3>2 DEF Loop, IndexedMeansValid, Looping, Indexes, TypeOK
    <3> QED BY <3>4, <3>5
  <2>3. CASE ~LockFree
    <3>1. pc'[w][Setup] = "release" /\ advisory' = advisory
        BY <1>3, <1>6, <2>3, SetupIsATask, GotoEffect DEF TryLock, Labels
    <3>2. \A v \in Workers : pc'[v][Setup] \in Looping => pc[v][Setup] = pc'[v][Setup] /\ at'[v] = at[v]
        BY <1>3, <1>4, <2>1, <3>1 DEF Looping, TypeOK
    <3>3. \A i \in Indexes : builder[i] # Self(w)
        BY <1>1, <1>3, <2>1 DEF Locker
    <3>4. Locker'
        BY <1>1, <1>2, <1>3, <1>4, <2>1, <3>1, <3>2, <3>3 DEF Locker, Looping, TypeOK
    <3> QED BY <1>3, <2>1, <3>2, <3>4 DEF Loop, IndexedMeansValid, Looping
  <2> QED BY <2>2, <2>3
<1>7. CASE Probe(w)
  <2>1. pc[w][Setup] = "probe" /\ UNCHANGED <<at, advisory, index, builder, indexed>>
        /\ pc'[w][Setup] = IF index[at[w]] = "invalid" THEN "drop" ELSE "create"
      BY <1>3, <1>7, SetupIsATask, GotoEffect DEF Probe, Leftover, Labels, server
  <2> QED BY <1>1, <1>2, <1>3, <1>4, <2>1 DEF Locker, Loop, IndexedMeansValid, Looping
<1>8. CASE Drop(w)
  <2>1. pc[w][Setup] = "drop" /\ UNCHANGED <<at, advisory, indexed>> /\ pc'[w][Setup] = "create"
        /\ index' = [index EXCEPT ![at[w]] = "absent"]
        /\ builder' = [builder EXCEPT ![at[w]] = NoSession]
      BY <1>3, <1>8, SetupIsATask, GotoEffect DEF Drop, Labels
  <2>2. advisory = Self(w) /\ index[at[w]] = "invalid"
      BY <1>3, <2>1 DEF Locker, Loop, Looping
  <2>3. \A v \in Workers \ {w} : pc[v][Setup] \notin Looping
      BY <1>2, <1>3, <2>2 DEF Locker
  <2>4. Locker'
      BY <1>1, <1>2, <1>3, <1>4, <2>1, <2>2, <2>3 DEF Locker, Looping, TypeOK
  <2>5. \A i \in Indexes : index'[i] = IF i = at[w] THEN "absent" ELSE index[i]
      BY <1>3, <2>1 DEF TypeOK
  <2>6. at[w] \in Nat /\ \A v \in Workers : pc'[v][Setup] \in Looping => v = w
      BY <1>3, <1>4, <2>3 DEF Indexes
  <2>7. Loop'
      BY <1>3, <2>1, <2>5, <2>6 DEF Loop, Looping
  <2>8. IndexedMeansValid'
      BY <1>3, <2>1, <2>2 DEF IndexedMeansValid
  <2> QED BY <2>4, <2>7, <2>8
<1>9. CASE Create(w)
  <2>1. pc[w][Setup] = "create" /\ UNCHANGED advisory
      BY <1>9 DEF Create
  <2>2. advisory = Self(w) /\ index[at[w]] # "invalid"
      BY <1>3, <2>1 DEF Locker, Loop, Looping
  <2>3. \A v \in Workers \ {w} : pc[v][Setup] \notin Looping
      BY <1>2, <1>3, <2>2 DEF Locker
  <2>4. \A i \in Indexes : builder[i] = NoSession
      BY <1>1, <1>2, <1>3, <2>1, <2>2 DEF Locker
  <2>5. CASE index[at[w]] = "absent"
    <3>1. /\ UNCHANGED <<at, indexed>> /\ pc'[w][Setup] = "building"
          /\ index' = [index EXCEPT ![at[w]] = "invalid"]
          /\ builder' = [builder EXCEPT ![at[w]] = Self(w)]
        BY <1>3, <1>9, <2>5, SetupIsATask, GotoEffect DEF Create, Labels
    <3>2. Locker'
        BY <1>1, <1>2, <1>3, <1>4, <2>1, <2>2, <2>3, <2>4, <3>1 DEF Locker, Looping, TypeOK
    <3>3. \A i \in Indexes : index'[i] = IF i = at[w] THEN "invalid" ELSE index[i]
        BY <1>3, <3>1 DEF TypeOK
    <3>4. at[w] \in Nat /\ \A v \in Workers : pc'[v][Setup] \in Looping => v = w
        BY <1>3, <1>4, <2>3 DEF Indexes
    <3>5. Loop'
        BY <1>3, <2>1, <3>1, <3>3, <3>4 DEF Loop, Looping
    <3>6. IndexedMeansValid'
        BY <1>3, <2>5, <3>1 DEF IndexedMeansValid
    <3> QED BY <3>2, <3>5, <3>6
  <2>6. CASE index[at[w]] # "absent"
    <3>1. UNCHANGED <<index, builder>> /\ Advance(w) /\ index[at[w]] = "valid"
        BY <1>3, <1>9, <2>2, <2>6 DEF Create, TypeOK
    <3> QED BY <1>1, <2>1, <2>2, <2>4, <3>1, AdvanceKeeps DEF Looping
  <2> QED BY <2>5, <2>6
<1>10. CASE Built(w)
  <2>1. pc[w][Setup] = "building" /\ UNCHANGED <<advisory, index, builder>> /\ builder[at[w]] # Self(w)
      BY <1>10 DEF Built, server
  <2>2. advisory = Self(w)
      BY <1>3, <2>1 DEF Locker, Looping
  <2>3. \A i \in Indexes : builder[i] = NoSession
      BY <1>1, <1>3, <2>1, <2>2 DEF Locker
  <2>4. CASE index[at[w]] = "valid"
    <3>1. Advance(w)
        BY <1>10, <2>4 DEF Built
    <3> QED BY <1>1, <2>1, <2>2, <2>3, <2>4, <3>1, AdvanceKeeps DEF Looping
  <2>5. CASE index[at[w]] # "valid"
    <3>1. pc'[w][Setup] = "abort" /\ UNCHANGED <<at, indexed>>
        BY <1>3, <1>10, <2>5, SetupIsATask, GotoEffect DEF Built, Labels
    <3>2. Locker'
        BY <1>1, <1>2, <1>3, <1>4, <2>1, <2>2, <2>3, <3>1 DEF Locker, Looping
    <3>3. Loop' /\ IndexedMeansValid'
        BY <1>3, <1>4, <2>1, <3>1 DEF Loop, IndexedMeansValid, Looping
    <3> QED BY <3>2, <3>3
  <2> QED BY <2>4, <2>5
<1>11. CASE StatementFails(w)
  <2>1. /\ UNCHANGED <<at, advisory, index, indexed>> /\ pc'[w][Setup] \in {"failed", "abort"}
        /\ pc[w][Setup] = "connect" \/ pc'[w][Setup] = "abort"
        /\ builder' = [i \in Indexes |-> IF builder[i] = Self(w) THEN NoSession ELSE builder[i]]
      BY <1>3, <1>11, SetupIsATask, GotoEffect DEF StatementFails, Labels
  <2>2. Locker'
      BY <1>1, <1>2, <1>3, <1>4, <2>1 DEF Locker, Looping
  <2>3. Loop' /\ IndexedMeansValid'
      BY <1>3, <1>4, <2>1 DEF Loop, IndexedMeansValid, Looping
  <2> QED BY <2>2, <2>3
<1>12. CASE Release(w)
  <2>1. /\ UNCHANGED <<at, index, builder, indexed>> /\ pc[w][Setup] \in {"release", "abort"}
        /\ pc'[w][Setup] \in {"done", "failed"}
        /\ advisory' = IF advisory = Self(w) THEN NoSession ELSE advisory
      BY <1>3, <1>12, SetupIsATask, GotoEffect DEF Release, Labels
  <2>2. \A i \in Indexes : builder[i] # Self(w)
      BY <1>1, <1>3, <2>1 DEF Locker
  <2>3. CASE advisory = Self(w)
    <3>2. \A i \in Indexes : builder[i] = NoSession
        BY <1>3, <2>2, <2>3 DEF Locker
    <3>3. \A v \in Workers : pc'[v][Setup] \notin Looping
        BY <1>2, <1>3, <1>4, <2>1, <2>3 DEF Locker, Looping
    <3> QED BY <1>3, <1>4, <2>1, <2>3, <3>2, <3>3 DEF Locker, Loop, IndexedMeansValid, Looping
  <2>4. CASE advisory # Self(w)
    <3>1. Locker'
        BY <1>1, <1>2, <1>3, <1>4, <2>1, <2>2, <2>4 DEF Locker, Looping
    <3> QED BY <1>3, <1>4, <2>1, <3>1 DEF Loop, IndexedMeansValid, Looping
  <2> QED BY <2>3, <2>4
<1> QED BY <1>5, <1>6, <1>7, <1>8, <1>9, <1>10, <1>11, <1>12 DEF IndexStep

\* Serving, unwinding and stopping change the phase only.
LEMMA PhaseKeeps ==
    ASSUME IInv, NEW w \in Workers, Serve(w) \/ SetupFailed(w) \/ Stop(w)
    PROVE  IInv'
<1>1. /\ UNCHANGED <<starts, store, pc, at, server, failures, indexed>>
      /\ \E p \in {"serving", "draining"} : phase' = [phase EXCEPT ![w] = p]
      /\ phase'[w] = "serving" => pc[w][Setup] = "done"
      /\ phase'[w] = "draining" => pc[w][Setup] \in {"done", "failed"}
      /\ Live(w)
  <2>1. TypeOK /\ (phase[w] = "serving" => pc[w][Setup] = "done")
      BY DEF IInv, Stages
  <2> QED BY <2>1 DEF Serve, SetupFailed, Stop, TypeOK, Live
<1>2. UNCHANGED <<pool, made, live, lock, got, advisory, index, builder>>
    BY <1>1 DEF store, server
<1>3. TypeOK'
    BY <1>1, <1>2 DEF IInv, TypeOK
<1>4. \A v \in Workers : /\ Live(v)' = Live(v) /\ Self(v)' = Self(v)
                         /\ v # w => phase'[v] = phase[v]
    BY <1>1 DEF IInv, TypeOK, Live, Self
<1>5. Stages'
    BY <1>1, <1>4 DEF IInv, Stages
<1>6. Holder' /\ Pooled'
    BY <1>1, <1>2, <1>4 DEF IInv, Holder, Pooled
<1>7. Locker' /\ Loop' /\ IndexedMeansValid'
    BY <1>1, <1>2, <1>4 DEF IInv, Locker, Loop, IndexedMeansValid
<1> QED BY <1>3, <1>5, <1>6, <1>7 DEF IInv

\* A start begins with nothing and a session that nobody has.
LEMMA BootKeeps ==
    ASSUME IInv, NEW w \in Workers, Boot(w)
    PROVE  IInv'
<1>1. /\ UNCHANGED <<live, lock, got, advisory, index, builder, at, failures, indexed>>
      /\ phase[w] \in {"down", "closed"} /\ starts[w] < MaxStarts
      /\ phase' = [phase EXCEPT ![w] = "starting"]
      /\ starts' = [starts EXCEPT ![w] = @ + 1]
      /\ pool' = [pool EXCEPT ![w] = 0] /\ made' = [made EXCEPT ![w] = 0]
    BY DEF Boot, server
<1>2. TypeOK /\ Stages /\ Holder /\ Pooled /\ Locker /\ Loop /\ IndexedMeansValid
    BY DEF IInv
<1>3. pc' \in [Workers -> [Tasks -> Labels]] /\ pc'[w][Setup] = "lockWait" /\ Others(w, Setup)
    BY <1>2, SetupIsATask, GotoEffect DEF Boot, Labels
<1>4. TypeOK'
    BY <1>1, <1>2, <1>3, BoundsAssumption DEF TypeOK, Labels, Pools
<1>5. /\ ~Live(w) /\ Live(w)' /\ starts[w] \in Nat /\ starts'[w] = starts[w] + 1
      /\ Self(w)' = <<w, starts[w] + 1>>
      /\ \A v \in Workers : v # w => /\ Self(v)' = Self(v) /\ Live(v)' = Live(v)
                                     /\ phase'[v] = phase[v] /\ starts'[v] = starts[v]
    BY <1>1, <1>2, BoundsAssumption DEF TypeOK, Live, Self
<1>6. \A v \in Workers, s \in Tasks : v # w \/ s # Setup => pc'[v][s] = pc[v][s]
    BY <1>3 DEF Others
<1>7. \A s \in Tasks : pc[w][s] = "idle"
    BY <1>2, <1>5 DEF Stages
<1>8. Stages'
  <2>1. phase'[w] = "starting"
      BY <1>1, <1>2 DEF TypeOK
  <2> QED BY <1>2, <1>3, <1>5, <1>6, <2>1, SetupIsATask DEF Stages
<1>9. lock[w] = None /\ live[w] = {}
  <2>1. lock[w] \in Tasks \cup {None}
      BY <1>2 DEF TypeOK
  <2>2. \A t \in Tasks : lock[w] # t
      BY <1>2, <1>7 DEF Holder, Holding
  <2>3. live[w] = {}
      BY <1>2, <1>5 DEF Pooled
  <2> QED BY <2>1, <2>2, <2>3
<1>10. Holder' /\ Pooled'
    BY <1>1, <1>2, <1>3, <1>5, <1>6, <1>7, <1>9, SetupIsATask
    DEF Holder, Pooled, Holding, TypeOK
<1>11. advisory # Self(w)' /\ NoSession # Self(w)'
    BY <1>2, <1>5 DEF Locker, NoSession
<1>12. advisory # NoSession => advisory[2] <= starts'[advisory[1]]
  <2> SUFFICES ASSUME advisory # NoSession
               PROVE  advisory[2] <= starts'[advisory[1]]
      OBVIOUS
  <2>1. advisory[1] \in Workers /\ advisory[2] \in Nat
      BY <1>2, BoundsAssumption DEF TypeOK, Session
  <2>2. \A v \in Workers : starts[v] \in Nat /\ starts'[v] \in Nat /\ starts[v] <= starts'[v]
      BY <1>2, <1>5, BoundsAssumption DEF TypeOK
  <2> QED BY <1>2, <2>1, <2>2 DEF Locker
<1>13. Locker'
  <2>1. \A i \in Indexes : builder[i] # Self(w)'
      BY <1>2, <1>11 DEF Locker
  <2> QED BY <1>1, <1>2, <1>3, <1>5, <1>6, <1>7, <1>11, <1>12, <2>1, SetupIsATask DEF Locker, Looping
<1>14. Loop' /\ IndexedMeansValid'
    BY <1>1, <1>2, <1>3, <1>6, SetupIsATask DEF Loop, IndexedMeansValid, Looping
<1> QED BY <1>4, <1>8, <1>10, <1>13, <1>14 DEF IInv

\* aclose finds the lock free, and setup is over.
LEMMA CloseKeeps ==
    ASSUME IInv, NEW w \in Workers, Close(w)
    PROVE  IInv'
<1>1. /\ UNCHANGED <<starts, made, lock, got, advisory, index, builder, at, failures, indexed>>
      /\ phase[w] = "draining" /\ Drained(w)
      /\ phase' = [phase EXCEPT ![w] = "closed"]
      /\ live' = [live EXCEPT ![w] = @ \ {pool[w]}]
      /\ pool' = [pool EXCEPT ![w] = 0]
    BY DEF Close, server
<1>2. TypeOK /\ Stages /\ Holder /\ Pooled /\ Locker /\ Loop /\ IndexedMeansValid
    BY DEF IInv
<1>3. pc' \in [Workers -> [Tasks -> Labels]] /\ pc'[w][Setup] = "idle" /\ Others(w, Setup)
    BY <1>2, SetupIsATask, GotoEffect DEF Close, Labels
<1>4. TypeOK'
    BY <1>1, <1>2, <1>3 DEF TypeOK, Labels, Pools
<1>5. /\ Live(w) /\ ~Live(w)' /\ \A v \in Workers : Self(v)' = Self(v)
      /\ \A v \in Workers : v # w => Live(v)' = Live(v) /\ phase'[v] = phase[v]
    BY <1>1, <1>2 DEF TypeOK, Live, Self
<1>6. \A v \in Workers, s \in Tasks : v # w \/ s # Setup => pc'[v][s] = pc[v][s]
    BY <1>3 DEF Others
<1>7. pc[w][Setup] \in {"done", "failed"} /\ \A s \in Tasks : s # Setup => pc[w][s] = "idle"
    BY <1>1, <1>2 DEF Stages, Drained
<1>8. Stages'
  <2>1. phase'[w] = "closed"
      BY <1>1, <1>2 DEF TypeOK
  <2> QED BY <1>1, <1>2, <1>3, <1>5, <1>6, <1>7, <2>1, SetupIsATask DEF Stages
<1>9. lock[w] = None /\ \A p \in live[w] : p = pool[w]
  <2>1. \A s \in Tasks : lock[w] # s
      BY <1>2, <1>7 DEF Holder, Holding
  <2>2. lock[w] = None
      BY <1>2, <2>1 DEF TypeOK
  <2> QED BY <1>2, <2>2 DEF Pooled
<1>10. Holder' /\ Pooled'
    BY <1>1, <1>2, <1>3, <1>5, <1>6, <1>7, <1>9, SetupIsATask
    DEF Holder, Pooled, Holding, TypeOK
<1>11. Locker'
    BY <1>1, <1>2, <1>3, <1>5, <1>6, <1>7, SetupIsATask DEF Locker, Looping
<1>12. Loop' /\ IndexedMeansValid'
    BY <1>1, <1>2, <1>3, <1>6, SetupIsATask DEF Loop, IndexedMeansValid, Looping
<1> QED BY <1>4, <1>8, <1>10, <1>11, <1>12 DEF IInv

\* A crash leaves its session to the server.
LEMMA CrashKeeps ==
    ASSUME IInv, NEW w \in Workers, Crash(w)
    PROVE  IInv'
<1>1. /\ UNCHANGED <<starts, made, advisory, index, builder, at, indexed>>
      /\ phase' = [phase EXCEPT ![w] = "down"] /\ pool' = [pool EXCEPT ![w] = 0]
      /\ live' = [live EXCEPT ![w] = {}] /\ lock' = [lock EXCEPT ![w] = None]
      /\ pc' = [pc EXCEPT ![w] = [t \in Tasks |-> "idle"]]
      /\ got' = [got EXCEPT ![w] = [t \in Tasks |-> 0]]
      /\ failures < MaxFailures /\ failures' = failures + 1
    BY DEF Crash, server, Fail
<1>2. TypeOK /\ Stages /\ Holder /\ Pooled /\ Locker /\ Loop /\ IndexedMeansValid
    BY DEF IInv
<1>3. TypeOK'
    BY <1>1, <1>2, BoundsAssumption DEF TypeOK, Pools
<1>4. /\ ~Live(w)' /\ phase'[w] = "down" /\ \A v \in Workers : Self(v)' = Self(v)
      /\ \A v \in Workers : v # w => Live(v)' = Live(v) /\ phase'[v] = phase[v]
      /\ \A s \in Tasks : pc'[w][s] = "idle"
      /\ \A v \in Workers : v # w => pc'[v] = pc[v]
    BY <1>1, <1>2 DEF TypeOK, Live, Self
<1>5. Stages'
    BY <1>1, <1>2, <1>4, SetupIsATask DEF Stages
<1>6. Holder' /\ Pooled'
    BY <1>1, <1>2, <1>4, NoneIsNoTask DEF Holder, Pooled, Holding, TypeOK
<1>7. Locker'
    BY <1>1, <1>2, <1>4, SetupIsATask DEF Locker, Looping
<1>8. Loop' /\ IndexedMeansValid'
    BY <1>1, <1>2, <1>4, SetupIsATask DEF Loop, IndexedMeansValid, Looping
<1> QED BY <1>3, <1>5, <1>6, <1>7, <1>8 DEF IInv

\* The server ends a build, or the session of a client that is gone.
LEMMA ServerKeeps ==
    ASSUME IInv, (\E i \in Indexes : BuildEnds(i)) \/ SessionEnds
    PROVE  IInv'
<1>1. TypeOK /\ Stages /\ Holder /\ Pooled /\ Locker /\ Loop /\ IndexedMeansValid
    BY DEF IInv
<1>2. UNCHANGED <<phase, starts, pool, made, live, lock, got, pc, at, indexed>>
    BY DEF BuildEnds, SessionEnds, store
<1>3. Stages' /\ Holder' /\ Pooled'
    BY <1>1, <1>2 DEF Stages, Holder, Pooled, Live
<1>4. \A v \in Workers : Self(v)' = Self(v) /\ Live(v)' = Live(v) /\ (Live(v) => Self(v) # NoSession)
    BY <1>2, Sessions DEF Self, Live
<1>5. ASSUME NEW i \in Indexes, BuildEnds(i)
      PROVE  TypeOK' /\ Locker' /\ Loop' /\ IndexedMeansValid'
  <2>1. /\ UNCHANGED advisory /\ builder[i] # NoSession
        /\ builder' = [builder EXCEPT ![i] = NoSession]
        /\ index' = [index EXCEPT ![i] = "valid"] \/ UNCHANGED index
        /\ failures' \in 0 .. MaxFailures
      BY <1>1, <1>5, BoundsAssumption DEF BuildEnds, Building, Fail, TypeOK
  <2>2. TypeOK'
      BY <1>1, <1>2, <2>1 DEF TypeOK
  <2>3. \A j \in Indexes : /\ builder'[j] = IF j = i THEN NoSession ELSE builder[j]
                           /\ index'[j] = index[j] \/ (j = i /\ index'[j] = "valid")
      BY <1>1, <2>1 DEF TypeOK
  <2>4. Locker'
      BY <1>1, <1>2, <1>4, <2>1, <2>3 DEF Locker
  <2>5. \A v \in Workers : pc[v][Setup] \in Looping => pc[v][Setup] = "building"
      BY <1>1, <2>1, AtIndexesStarts DEF Locker, AtIndexes
  <2>6. Loop' /\ IndexedMeansValid'
      BY <1>1, <1>2, <2>1, <2>3, <2>5 DEF Loop, IndexedMeansValid, TypeOK, Looping
  <2> QED BY <2>2, <2>4, <2>6
<1>6. CASE SessionEnds
  <2>1. /\ UNCHANGED <<index, failures>> /\ advisory # NoSession /\ advisory' = NoSession
        /\ builder' = [i \in Indexes |-> IF builder[i] = advisory THEN NoSession ELSE builder[i]]
        /\ phase[advisory[1]] \in {"down", "closed"} \/ starts[advisory[1]] # advisory[2]
      BY <1>6 DEF SessionEnds, Gone
  <2>2. TypeOK'
      BY <1>1, <1>2, <2>1 DEF TypeOK
  <2>3. \A i \in Indexes : builder'[i] = NoSession
      BY <1>1, <2>1 DEF Locker
  <2>4. \A v \in Workers : Live(v) => advisory # Self(v)
      BY <2>1 DEF Live, Self
  <2>5. \A v \in Workers : pc[v][Setup] \notin Looping
      BY <1>1, <2>4, AtIndexesStarts DEF Locker, AtIndexes
  <2>6. Locker'
      BY <1>1, <1>2, <1>4, <2>1, <2>3, <2>5 DEF Locker
  <2>7. Loop' /\ IndexedMeansValid'
      BY <1>1, <1>2, <2>1 DEF Loop, IndexedMeansValid
  <2> QED BY <1>3, <2>2, <2>6, <2>7 DEF IInv
<1> QED BY <1>3, <1>5, <1>6 DEF IInv

\* No pool yet, no lock taken, and only a crash left the indexes as they are.
LEMMA InitInv == Init => IInv
<1> SUFFICES ASSUME Init PROVE IInv
    OBVIOUS
<1>1. TypeOK
  <2>1. 1 \in Indexes /\ 0 \in 0 .. MaxStarts /\ 0 \in 0 .. MaxFailures
      BY BoundsAssumption DEF Indexes
  <2> QED BY <2>1 DEF Init, TypeOK, Pools
<1>2. Stages
    BY SetupIsATask DEF Init, Stages, Live
<1>3. Holder /\ Pooled
    BY NoneIsNoTask DEF Init, Holder, Pooled, Holding
<1>4. Locker /\ Loop /\ IndexedMeansValid
    BY SetupIsATask DEF Init, Locker, Loop, IndexedMeansValid, Looping, Live
<1> QED BY <1>1, <1>2, <1>3, <1>4 DEF IInv

\* The invariant is kept by every step.
LEMMA StepInv == IInv /\ [Next]_vars => IInv'
<1> SUFFICES ASSUME IInv, [Next]_vars PROVE IInv'
    OBVIOUS
<1>1. ASSUME NEW w \in Workers, NEW t \in Tasks, PoolStep(w, t) PROVE IInv'
    BY <1>1, PoolTypes, PoolOwners, PoolKeepsIndexes DEF IInv
<1>2. ASSUME NEW w \in Workers, IndexStep(w) PROVE IInv'
    BY <1>2, IndexTypes, IndexKeepsPools, IndexOwners DEF IInv
<1>3. ASSUME NEW w \in Workers, Serve(w) \/ SetupFailed(w) \/ Stop(w) PROVE IInv'
    BY <1>3, PhaseKeeps
<1>4. ASSUME NEW w \in Workers, Boot(w) \/ Close(w) \/ Crash(w) PROVE IInv'
    BY <1>4, BootKeeps, CloseKeeps, CrashKeeps
<1>5. CASE (\E i \in Indexes : BuildEnds(i)) \/ SessionEnds
    BY <1>5, ServerKeeps
<1>6. CASE UNCHANGED vars
  <2>1. UNCHANGED <<phase, starts, pool, made, live, lock, got, pc, at, advisory, index, builder, failures, indexed>>
      BY <1>6 DEF vars, store, server
  <2>2. TypeOK' /\ Stages' /\ Holder' /\ Pooled'
      BY <2>1 DEF IInv, TypeOK, Stages, Holder, Pooled, Live
  <2>3. Locker' /\ Loop' /\ IndexedMeansValid'
      BY <2>1 DEF IInv, Locker, Loop, IndexedMeansValid, Live, Self
  <2> QED BY <2>2, <2>3 DEF IInv
<1> QED BY <1>1, <1>2, <1>3, <1>4, <1>5, <1>6
        DEF Next, TaskStep, SetupStep, PoolStep, IndexStep

\* The invariant holds in every reachable state.
LEMMA Invariance == Spec => []IInv
    BY InitInv, StepInv, PTL DEF Spec

-----------------------------------------------------------------------------
\* Every variable keeps its type.
THEOREM SetupTypes == Spec => []TypeOK
<1>1. IInv => TypeOK
    BY DEF IInv
<1> QED BY <1>1, Invariance, PTL

\* Every pool with connections is the store's or the one that the holder of
\* _pool_lock is opening or closing, whatever concurrent first calls, failed
\* opens and failed starts do (metadata_store.py 198-232, app.py 197-203).
THEOREM PoolsAreClosed == Spec => []NoPoolLeaks
<1>1. IInv => NoPoolLeaks
  <2> SUFFICES ASSUME IInv, NEW w \in Workers, NEW p \in live[w]
               PROVE  /\ phase[w] \notin {"down", "closed"}
                      /\ \/ p = pool[w]
                         \/ /\ lock[w] \in Tasks /\ p = got[w][lock[w]]
                            /\ pc[w][lock[w]] \in {"opening", "undo"}
      BY DEF NoPoolLeaks
  <2>1. Live(w)
      BY DEF IInv, Pooled
  <2>2. CASE p = pool[w]
      BY <2>1, <2>2 DEF Live
  <2>3. CASE p # pool[w]
    <3>1. lock[w] \in Tasks /\ p = got[w][lock[w]]
        BY <2>3 DEF IInv, Pooled, TypeOK
    <3> QED BY <2>1, <3>1 DEF IInv, Holder, Holding, Live
  <2> QED BY <2>2, <2>3
<1> QED BY <1>1, Invariance, PTL

\* A setup drops an index only when nobody builds it: it holds the advisory
\* lock, and a build goes with the session that holds it, a dead one included
\* (metadata_store.py 112-132, 273-280).
THEOREM BuildsAreLeftAlone == Spec => NoBuildIsDropped
<1>1. ASSUME IInv, NEW w \in Workers, NEW i \in Indexes, Drop(w), at[w] = i
      PROVE  ~Building(i)
  <2>1. pc[w][Setup] = "drop"
      BY <1>1 DEF Drop
  <2>2. advisory = Self(w) /\ Live(w)
      BY <1>1, <2>1, AtIndexesStarts DEF IInv, Locker, Looping, AtIndexes
  <2> QED BY <1>1, <2>1, <2>2 DEF IInv, Locker, Building
<1>2. IInv /\ [Next]_vars => [\A w \in Workers, i \in Indexes : Drop(w) /\ at[w] = i => ~Building(i)]_vars
    BY <1>1
<1> QED BY <1>2, Invariance, PTL DEF Spec, NoBuildIsDropped

\* Once a setup ran its whole sequence every index is valid, and stays so
\* (metadata_store.py 110-112, 269-271).
THEOREM IndexesStayValid == Spec => []IndexedMeansValid
<1>1. IInv => IndexedMeansValid
    BY DEF IInv
<1> QED BY <1>1, Invariance, PTL
=============================================================================
