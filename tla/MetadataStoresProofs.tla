------------------------ MODULE MetadataStoresProofs ------------------------
(***************************************************************************)
(* Theorems about MetadataStores, for all four stores at once and any      *)
(* number of runs, processes, callers and interruptions.                   *)
(*                                                                         *)
(*   1. effects    what a statement does to the database, by its kind, and *)
(*                 what a write may write to a run and to the thread       *)
(*   2. scripts    what a call may have left to do: a script read from the *)
(*                 middle keeps its shape, so that the kind of a statement *)
(*                 tells what is still to follow it                        *)
(*   3. steps      every action of a call either begins it, executes one   *)
(*                 statement or ends it early; each is described in the    *)
(*                 terms of 1 and 2, and the actions are not expanded      *)
(*                 again.  Cells says what a step does to one row          *)
(*   4. Base       types, and scripts as in 2                              *)
(*   5. Locked     no two open transactions have written the same row      *)
(*   6. History    run ids are fresh, and a run that ended stays ended     *)
(*   7. Credits    RunsEndOnce: who may believe to have ended a run        *)
(*   8. Kept       NoRunIsOrphaned: a transaction sees the thread of every *)
(*                 run that it writes or reads                             *)
(*   9. Tidy       WhatCallersKnowStands: what a SQLite connection has     *)
(*                 written belongs to the call that holds it               *)
(*  10. Reported   SweepsReport: every claim is some sweep's to report     *)
(*  11. Agreed     CreatesAgreeAlways: what a create may believe           *)
(*                                                                         *)
(* The invariants build on one another in this order: each is inductive    *)
(* given the ones before it.  Where a lemma speaks of the state after a    *)
(* step with parameters that do not change in it, the primes are written   *)
(* out (StandsNext, ReportsNext, ...).                                     *)
(***************************************************************************)
EXTENDS MetadataStores, FiniteSetTheorems, SequenceTheorems, TLAPS

-----------------------------------------------------------------------------
(* What a statement does to the database.                                  *)

Commits(c) == rows' = View(c) /\ written' = [written EXCEPT ![Conn(c)] = Nothing]
Drops(c) == rows' = rows /\ written' = [written EXCEPT ![Conn(c)] = Nothing]
Quiet == rows' = rows /\ written' = written

\* The write of the rows ch.
Puts(c, ch) ==
    IF Transactional
    THEN rows' = rows /\ written' = [written EXCEPT ![Conn(c)] = Overlay(ch, @)]
    ELSE rows' = Overlay(ch, rows) /\ written' = written

Refused(c, s) == Conflicts(c, s, View(c)) \/ Dangles(c, s, View(c))
Opened(c) == IF backend = "sqlite" THEN open \cup {Conn(c)} ELSE open

\* Closing a connection.
LEMMA ClosedIs ==
    ASSUME NEW c, NEW r, NEW w, NEW o
    PROVE  Closed(c, [rows |-> r, written |-> w, open |-> o])
             = [rows |-> r, written |-> [w EXCEPT ![Conn(c)] = Nothing],
                open |-> o \ {Conn(c)}]
<1> DEFINE d == [rows |-> r, written |-> w, open |-> o]
           shut == [w EXCEPT ![Conn(c)] = Nothing]
<1>1. d.written = w /\ d.open = o
    OBVIOUS
<1>2. [d EXCEPT !.written[Conn(c)] = Nothing] = [d EXCEPT !.written = shut]
    BY <1>1
<1>3. [d EXCEPT !.written[Conn(c)] = Nothing] = [rows |-> r, written |-> shut, open |-> o]
    BY <1>2
<1>4. Closed(c, d) = [[d EXCEPT !.written[Conn(c)] = Nothing] EXCEPT !.open = o \ {Conn(c)}]
    BY <1>1 DEF Closed
<1> QED BY <1>3, <1>4

\* The commit.
LEMMA CommitEffect ==
    ASSUME NEW c \in Callers, NEW k
    PROVE  Effect(c, "commit", k)
             = [rows |-> View(c), written |-> [written EXCEPT ![Conn(c)] = Nothing],
                open |-> open \ {Conn(c)}]
<1>1. [Database EXCEPT !.rows = View(c)]
        = [rows |-> View(c), written |-> written, open |-> open]
    BY DEF Database
<1>2. "commit" # "rollback" /\ "commit" \notin Reads /\ "commit" \notin Writes
    BY DEF Reads, Writes
<1>3. Effect(c, "commit", k)
        = Closed(c, [rows |-> View(c), written |-> written, open |-> open])
    BY <1>1, <1>2 DEF Effect
<1> QED BY <1>3, ClosedIs

\* The rollback.
LEMMA RollbackEffect ==
    ASSUME NEW c \in Callers, NEW k
    PROVE  Effect(c, "rollback", k)
             = [rows |-> rows, written |-> [written EXCEPT ![Conn(c)] = Nothing],
                open |-> open \ {Conn(c)}]
<1>1. "commit" # "rollback" /\ "rollback" \notin Reads /\ "rollback" \notin Writes
    BY DEF Reads, Writes
<1>2. Effect(c, "rollback", k) = Closed(c, Database)
    BY <1>1 DEF Effect
<1> QED BY <1>2, ClosedIs DEF Database

\* A read.
LEMMA ReadEffect ==
    ASSUME NEW c \in Callers, NEW k, NEW s \in Reads
    PROVE  Effect(c, s, k) = Database
<1>1. s # "commit" /\ s # "rollback" /\ s \notin Writes
    BY DEF Reads, Writes
<1> QED BY <1>1 DEF Effect

\* A write that violates a constraint.
LEMMA RefusedEffect ==
    ASSUME NEW c \in Callers, NEW k, NEW s \in Writes, Refused(c, s)
    PROVE  Effect(c, s, k) = [rows |-> rows, written |-> written, open |-> Opened(c)]
<1>1. s # "commit" /\ s # "rollback" /\ s \notin Reads
    BY DEF Reads, Writes
<1>2. Effect(c, s, k) = [Database EXCEPT !.open = Opened(c)]
    BY <1>1 DEF Effect, Refused, Opened
<1> QED BY <1>2 DEF Database

\* A write.
LEMMA WriteEffect ==
    ASSUME NEW c \in Callers, NEW k, NEW s \in Writes, ~Refused(c, s)
    PROVE  LET ch == Change(c, s, View(c), k)
           IN  Effect(c, s, k) =
                 IF Transactional
                 THEN [rows |-> rows, open |-> Opened(c),
                       written |-> [written EXCEPT ![Conn(c)] = Overlay(ch, @)]]
                 ELSE [rows |-> Overlay(ch, rows), written |-> written, open |-> open]
<1> DEFINE ch == Change(c, s, View(c), k)
<1>1. s # "commit" /\ s # "rollback" /\ s \notin Reads
    BY DEF Reads, Writes
<1>2. Effect(c, s, k) =
         IF Transactional
         THEN [Database EXCEPT !.written[Conn(c)] = Overlay(ch, @), !.open = Opened(c)]
         ELSE [Database EXCEPT !.rows = Overlay(ch, @)]
    BY <1>1 DEF Effect, Refused, Opened
<1> QED BY <1>2 DEF Database

\* What a statement of c does to the rows, by its kind.
Does(c, s, k) ==
    /\ s = "commit" => Commits(c)
    /\ s = "rollback" => Drops(c)
    /\ s \in Reads => Quiet
    /\ s \in Writes => IF Refused(c, s) THEN Quiet ELSE Puts(c, Change(c, s, View(c), k))

\* It does so.
LEMMA StatementDoes ==
    ASSUME NEW c \in Callers, NEW k, NEW s \in Statements, Becomes(Effect(c, s, k))
    PROVE  Does(c, s, k)
<1>1. ASSUME s = "commit" PROVE Commits(c)
    BY <1>1, CommitEffect DEF Becomes, Commits
<1>2. ASSUME s = "rollback" PROVE Drops(c)
    BY <1>2, RollbackEffect DEF Becomes, Drops
<1>3. ASSUME s \in Reads PROVE Quiet
    BY <1>3, ReadEffect DEF Becomes, Quiet, Database
<1>4. ASSUME s \in Writes, Refused(c, s) PROVE Quiet
    BY <1>4, RefusedEffect DEF Becomes, Quiet
<1>5. ASSUME s \in Writes, ~Refused(c, s) PROVE Puts(c, Change(c, s, View(c), k))
    BY <1>5, WriteEffect DEF Becomes, Puts
<1> QED BY <1>1, <1>2, <1>3, <1>4, <1>5 DEF Does

\* Which connections have a transaction open after it.
LEMMA StatementOpens ==
    ASSUME NEW c \in Callers, NEW k, NEW s \in Statements, Becomes(Effect(c, s, k))
    PROVE  /\ s \in {"commit", "rollback"} => open' = open \ {Conn(c)}
           /\ s \in Reads => open' = open
           /\ s \in Writes => open' = IF Transactional \/ Refused(c, s) THEN Opened(c) ELSE open
<1>1. ASSUME s = "commit" PROVE open' = open \ {Conn(c)}
    BY <1>1, CommitEffect DEF Becomes
<1>2. ASSUME s = "rollback" PROVE open' = open \ {Conn(c)}
    BY <1>2, RollbackEffect DEF Becomes
<1>3. ASSUME s \in Reads PROVE open' = open
    BY <1>3, ReadEffect DEF Becomes, Database
<1>4. ASSUME s \in Writes, Refused(c, s) PROVE open' = Opened(c)
    BY <1>4, RefusedEffect DEF Becomes
<1>5. ASSUME s \in Writes, ~Refused(c, s)
      PROVE  open' = IF Transactional THEN Opened(c) ELSE open
    BY <1>5, WriteEffect DEF Becomes
<1> QED BY <1>1, <1>2, <1>3, <1>4, <1>5

\* A call that ends early and gives its connection back closed: the rows it
\* wrote are gone, unless the statement was the commit.
LEMMA StatementClosed ==
    ASSUME NEW c \in Callers, NEW k, NEW s \in Statements, Transactional,
           Becomes(Closed(c, Effect(c, s, k)))
    PROVE  /\ IF s = "commit" THEN Commits(c) ELSE Drops(c)
           /\ open' = open \ {Conn(c)}
<1> DEFINE shut == [written EXCEPT ![Conn(c)] = Nothing]
<1>1. ASSUME NEW r, NEW w, NEW o, Effect(c, s, k) = [rows |-> r, written |-> w, open |-> o],
             [w EXCEPT ![Conn(c)] = Nothing] = shut, o \ {Conn(c)} = open \ {Conn(c)}
      PROVE  rows' = r /\ written' = shut /\ open' = open \ {Conn(c)}
  <2>1. Closed(c, Effect(c, s, k)) = [rows |-> r, written |-> shut, open |-> open \ {Conn(c)}]
      BY <1>1, ClosedIs
  <2> HIDE DEF shut
  <2> QED BY <2>1 DEF Becomes
<1>2. [shut EXCEPT ![Conn(c)] = Nothing] = shut
    OBVIOUS
<1>3. (open \ {Conn(c)}) \ {Conn(c)} = open \ {Conn(c)}
    OBVIOUS
<1>4. CASE s = "commit"
    BY <1>1, <1>2, <1>3, <1>4, CommitEffect DEF Commits
<1>5. CASE s = "rollback"
    BY <1>1, <1>2, <1>3, <1>5, RollbackEffect DEF Drops
<1>6. CASE s \in Reads
  <2>1. Effect(c, s, k) = [rows |-> rows, written |-> written, open |-> open] /\ s # "commit"
      BY <1>6, ReadEffect DEF Database, Reads
  <2> QED BY <1>1, <2>1 DEF Drops
<1>7. CASE s \in Writes
  <2>1. Opened(c) \ {Conn(c)} = open \ {Conn(c)} /\ s # "commit"
      BY <1>7 DEF Opened, Writes
  <2>2. CASE Refused(c, s)
      BY <1>1, <1>7, <2>1, <2>2, RefusedEffect DEF Drops
  <2>3. CASE ~Refused(c, s)
    <3> DEFINE ch == Change(c, s, View(c), k)
               w == [written EXCEPT ![Conn(c)] = Overlay(ch, @)]
    <3>1. Effect(c, s, k) = [rows |-> rows, written |-> w, open |-> Opened(c)]
        BY <1>7, <2>3, WriteEffect
    <3>2. [w EXCEPT ![Conn(c)] = Nothing] = shut
        OBVIOUS
    <3> HIDE DEF w, shut
    <3>3. rows' = rows /\ written' = shut /\ open' = open \ {Conn(c)}
        BY <1>1, <2>1, <3>1, <3>2
    <3> QED BY <2>1, <3>3 DEF shut, Drops
  <2> QED BY <2>2, <2>3
<1> QED BY <1>4, <1>5, <1>6, <1>7 DEF Statements

-----------------------------------------------------------------------------
(* What a write changes, row by row.                                       *)

\* The lookup in changed rows.
LEMMA OverlayIs ==
    ASSUME NEW f, NEW g
    PROVE  /\ DOMAIN Overlay(f, g) = DOMAIN f \cup DOMAIN g
           /\ \A k \in DOMAIN f : Overlay(f, g)[k] = f[k]
           /\ \A k \in DOMAIN g : k \notin DOMAIN f => Overlay(f, g)[k] = g[k]
BY DEF Overlay

\* Nothing changes nothing.
LEMMA NothingIs ==
    ASSUME NEW f, NEW S, f = [k \in S |-> f[k]]
    PROVE  /\ DOMAIN Nothing = {}
           /\ Overlay(Nothing, f) = f
           /\ f = Nothing <=> S = {}
BY DEF Nothing, Overlay

\* The operation in whose scripts a statement occurs.
Belongs(name, s) ==
    /\ s = "insertThread" => name = "createThread"
    /\ s = "updateThread" => name = "updateThread"
    /\ s \in {"deleteRuns", "deleteThread"} => name = "deleteThread"
    /\ s = "insertRun" => name = "createRun"
    /\ s = "updateRun" => name = "updateRunStatus"
    /\ s = "readRun" <=> name = "fetchRun"
    /\ s = "readRuns" <=> name = "listRuns"
    /\ s \in {"scan", "claim", "failStale"} <=> name = "failStaleRuns" /\ s # "commit"
    /\ s = "deleteRun" => name = "deleteRun"
    /\ s = "touch" => name = "touchRuns"
    /\ s \in {"readThread", "fetchThread"} => name \in {"fetchThread", "createThread"}
    /\ s = "rollback" => name = "createThread"

Fits(c, s) == Belongs(op[c].name, s)

\* What c may write to run r, where it sees the rows v.
RunWrite(c, s, v, r, x) ==
    \/ x = Absent /\ s \in {"deleteRuns", "deleteThread", "deleteRun"}
    \/ x = Row("pending") /\ s = "insertRun" /\ op[c].name = "createRun" /\ r = op[c].run
    \/ /\ r \in Moving(v)
       /\ \/ x = Row(v[r].status) /\ s = "touch"
          \/ /\ x = Row(op[c].value) /\ s = "updateRun"
             /\ op[c].name = "updateRunStatus" /\ r = op[c].run
          \/ x = Row("error") /\ s \in {"claim", "failStale"} /\ op[c].name = "failStaleRuns"

\* What it may write to the row of the thread.
ThreadWrite(c, s, v, x) ==
    \/ x = Absent /\ s = "deleteThread"
    \/ x = Row("idle") /\ s = "insertThread"
    \/ /\ x = Row(op[c].value) /\ x # Absent /\ s = "updateThread" /\ v[Thread] # Absent
       /\ op[c].value \in {"idle", "busy"} \cup Ended

\* A statement writes to runs what it is meant to.
LEMMA RunWrites ==
    ASSUME NEW c \in Callers, NEW s \in Writes, Fits(c, s), NEW v, NEW k,
           op[c] \in Calls[c], NEW r \in DOMAIN Change(c, s, v, k), r # Thread
    PROVE  r \in Runs /\ RunWrite(c, s, v, r, Change(c, s, v, k)[r])
<1> USE DEF Change, RunWrite, Fits, Belongs
<1>1. CASE s = "insertThread"
    BY <1>1
<1>2. CASE s = "updateThread"
    BY <1>2 DEF Nothing
<1>3. CASE s = "deleteRuns"
    BY <1>3
<1>4. CASE s = "deleteThread"
    BY <1>4 DEF Keys
<1>5. CASE s = "insertRun"
    BY <1>5, CallsAssumption
<1>6. CASE s = "updateRun"
    BY <1>6 DEF UpdatedRun, Moving
<1>7. CASE s = "deleteRun"
    BY <1>7, CallsAssumption
<1>8. CASE s = "touch"
    BY <1>8 DEF Moving
<1>9. CASE s = "failStale"
    BY <1>9 DEF Stale, Moving
<1>10. CASE s = "claim"
    BY <1>10 DEF ClaimedRun, Stale, Moving
<1> QED BY <1>1, <1>2, <1>3, <1>4, <1>5, <1>6, <1>7, <1>8, <1>9, <1>10 DEF Writes

\* It writes to the thread what it is meant to.
LEMMA ThreadWrites ==
    ASSUME NEW c \in Callers, NEW s \in Writes, Fits(c, s), NEW v, NEW k,
           op[c] \in Calls[c],
           Thread \in DOMAIN Change(c, s, v, k)
    PROVE  ThreadWrite(c, s, v, Change(c, s, v, k)[Thread])
<1> USE KeysAssumption DEF Change, ThreadWrite, Fits, Belongs
<1>1. CASE s = "insertThread"
    BY <1>1
<1>2. CASE s = "updateThread"
  <2>1. op[c].value \in {"nothing", "idle", "busy"} \cup Ended
      BY <1>2, CallsAssumption
  <2>2. Row(op[c].value) # Absent
      BY <2>1 DEF Absent, Row, Ended
  <2>3. op[c].value # "nothing" /\ Thread \in {Thread} \cap Present(v)
      BY <1>2 DEF Nothing
  <2>4. Change(c, s, v, k)[Thread] = Row(op[c].value)
      BY <1>2, <2>3
  <2> QED BY <1>2, <2>1, <2>2, <2>3, <2>4 DEF Present
<1>3. CASE s = "deleteRuns"
    BY <1>3
<1>4. CASE s = "deleteThread"
    BY <1>4
<1>5. CASE s = "insertRun"
    BY <1>5, CallsAssumption
<1>6. CASE s = "updateRun"
    BY <1>6 DEF UpdatedRun, Moving
<1>7. CASE s = "deleteRun"
    BY <1>7, CallsAssumption
<1>8. CASE s = "touch"
    BY <1>8 DEF Moving
<1>9. CASE s = "failStale"
    BY <1>9 DEF Stale, Moving
<1>10. CASE s = "claim"
    BY <1>10 DEF ClaimedRun, Stale, Moving
<1> QED BY <1>1, <1>2, <1>3, <1>4, <1>5, <1>6, <1>7, <1>8, <1>9, <1>10 DEF Writes

-----------------------------------------------------------------------------
(* What a call may have left to do.                                        *)

Running(c) == at[c] = "running"

\* What is left of a script in the SQL stores, other than of a sweep's.
SqlRests(name) ==
    CASE name = "fetchThread" -> {<<"readThread">>}
      [] name = "createThread" ->
           {<<"insertThread", "commit">>, <<"commit">>, <<"rollback", "readThread">>,
            <<"rollback">>, <<"readThread">>}
      [] name = "updateThread" -> {<<"updateThread", "commit">>, <<"commit">>}
      [] name = "deleteThread" ->
           {<<"deleteRuns", "deleteThread", "commit">>, <<"deleteThread", "commit">>,
            <<"commit">>}
      [] name = "createRun" -> {<<"insertRun", "commit">>, <<"commit">>}
      [] name = "updateRunStatus" -> {<<"updateRun", "commit">>, <<"commit">>}
      [] name = "fetchRun" -> {<<"readRun">>}
      [] name = "listRuns" -> {<<"readRuns">>}
      [] name = "deleteRun" -> {<<"deleteRun", "commit">>, <<"commit">>}
      [] name = "touchRuns" -> {<<"touch", "commit">>, <<"commit">>}

MongoRests(name) ==
    CASE name = "fetchThread" -> {<<"readThread">>}
      [] name = "createThread" -> {<<"insertThread">>, <<"fetchThread">>}
      [] name = "updateThread" -> {<<"updateThread">>}
      [] name = "deleteThread" -> {<<"deleteRuns", "deleteThread">>, <<"deleteThread">>}
      [] name = "createRun" -> {<<"insertRun">>}
      [] name = "updateRunStatus" -> {<<"updateRun">>}
      [] name = "fetchRun" -> {<<"readRun">>}
      [] name = "listRuns" -> {<<"readRuns">>}
      [] name = "deleteRun" -> {<<"deleteRun">>}
      [] name = "touchRuns" -> {<<"touch">>}

\* A sweep that claims one row after the other, and in SQLite commits at last.
Claims(q) ==
    /\ q \in Seq({"claim", "commit"})
    /\ q # <<>>
    /\ \A i \in 1..Len(q) : q[i] = "commit" <=> Transactional /\ i = Len(q)

SweepRest(q) ==
    \/ backend = "sqlite" /\ q = <<"scan", "commit">>
    \/ backend = "mongo" /\ q = <<"scan">>
    \/ backend = "postgres" /\ q = <<"failStale", "commit">>
    \/ backend = "postgres" /\ q = <<"commit">>
    \/ backend # "postgres" /\ Claims(q)

Rest(c, q) ==
    IF op[c].name = "failStaleRuns" THEN SweepRest(q)
    ELSE q \in IF Transactional THEN SqlRests(op[c].name) ELSE MongoRests(op[c].name)

\* The statement s, when the statements t are to follow it.
Position(tx, s, t) ==
    /\ s \in Statements
    /\ s = "commit" => tx /\ t = <<>>
    /\ tx /\ s \in Writes \ {"claim"} => t \in {<<"commit">>, <<"deleteThread", "commit">>}
    /\ tx /\ t = <<>> => s \notin Writes \cup {"scan"}
    /\ tx => s # "fetchThread"
    /\ s \in Reads \ {"scan"} => t = <<>>
    /\ ~tx => s # "rollback"
    /\ ~tx /\ s = "deleteRuns" => t = <<"deleteThread">>
    /\ ~tx /\ s \notin {"deleteRuns", "scan", "claim"} => t = <<>>
    /\ t # <<>> => Head(t) \notin {"insertRun", "insertThread", "readRun", "readRuns", "deleteRuns"}

\* The first and the other elements of short tuples.
LEMMA One == \A a : Head(<<a>>) = a /\ Tail(<<a>>) = <<>> /\ <<a>> # <<>>
OBVIOUS

\* Of pairs,
LEMMA Two == \A a, b : Head(<<a, b>>) = a /\ Tail(<<a, b>>) = <<b>> /\ <<a, b>> # <<>>
OBVIOUS

\* and of triples.
LEMMA Three ==
    \A a, b, c : Head(<<a, b, c>>) = a /\ Tail(<<a, b, c>>) = <<b, c>> /\ <<a, b, c>> # <<>>
OBVIOUS

\* The scripts of the SQL stores, statement by statement.
LEMMA SqlPositions ==
    ASSUME NEW name \in Operations \ {"failStaleRuns"}, NEW q \in SqlRests(name)
    PROVE  /\ q # <<>>
           /\ Belongs(name, Head(q))
           /\ Position(TRUE, Head(q), Tail(q))
           /\ Tail(q) = <<>> \/ Tail(q) \in SqlRests(name)
<1> DEFINE Right(x) == /\ x # <<>>
                       /\ Belongs(name, Head(x))
                       /\ Position(TRUE, Head(x), Tail(x))
           Good == Right(q) /\ (Tail(q) = <<>> \/ Tail(q) \in SqlRests(name))
<1> SUFFICES Good
    OBVIOUS
<1>1. ASSUME NEW a, q = <<a>>, a \in (Reads \cup {"commit", "rollback"}) \ {"scan", "fetchThread"},
             Belongs(name, a)
      PROVE  Right(q) /\ Tail(q) = <<>>
    BY <1>1, One DEF Position, Statements, Reads, Writes
<1>2. ASSUME NEW a, q = <<a, "commit">>, a \in Writes \ {"claim"}, Belongs(name, a)
      PROVE  Right(q) /\ Tail(q) = <<"commit">>
    BY <1>2, One, Two DEF Position, Statements, Reads, Writes
<1> HIDE DEF Good, Right
<1>3. CASE name = "fetchThread"
    BY <1>1, <1>3 DEF SqlRests, Belongs, Reads, Good
<1>4. CASE name = "fetchRun"
    BY <1>1, <1>4 DEF SqlRests, Belongs, Reads, Good
<1>5. CASE name = "listRuns"
    BY <1>1, <1>5 DEF SqlRests, Belongs, Reads, Good
<1>6. ASSUME NEW w, name \notin {"createThread", "deleteThread"}, w \in Writes \ {"claim"},
             Belongs(name, w), Belongs(name, "commit"),
             SqlRests(name) = {<<w, "commit">>, <<"commit">>}
      PROVE  Good
  <2>1. q = <<w, "commit">> \/ q = <<"commit">>
      BY <1>6
  <2> QED BY <1>1, <1>2, <1>6, <2>1 DEF Good
<1>7. CASE name = "updateThread"
  <2>1. SqlRests(name) = {<<"updateThread", "commit">>, <<"commit">>}
      BY <1>7 DEF SqlRests
  <2>2. /\ Belongs(name, "updateThread") /\ Belongs(name, "commit")
        /\ "updateThread" \in Writes \ {"claim"}
      BY <1>7 DEF Belongs, Writes
  <2> QED BY <1>6, <1>7, <2>1, <2>2
<1>8. CASE name = "createRun"
  <2>1. SqlRests(name) = {<<"insertRun", "commit">>, <<"commit">>}
      BY <1>8 DEF SqlRests
  <2>2. /\ Belongs(name, "insertRun") /\ Belongs(name, "commit")
        /\ "insertRun" \in Writes \ {"claim"}
      BY <1>8 DEF Belongs, Writes
  <2> QED BY <1>6, <1>8, <2>1, <2>2
<1>9. CASE name = "updateRunStatus"
  <2>1. SqlRests(name) = {<<"updateRun", "commit">>, <<"commit">>}
      BY <1>9 DEF SqlRests
  <2>2. /\ Belongs(name, "updateRun") /\ Belongs(name, "commit")
        /\ "updateRun" \in Writes \ {"claim"}
      BY <1>9 DEF Belongs, Writes
  <2> QED BY <1>6, <1>9, <2>1, <2>2
<1>10. CASE name = "deleteRun"
  <2>1. SqlRests(name) = {<<"deleteRun", "commit">>, <<"commit">>}
      BY <1>10 DEF SqlRests
  <2>2. /\ Belongs(name, "deleteRun") /\ Belongs(name, "commit")
        /\ "deleteRun" \in Writes \ {"claim"}
      BY <1>10 DEF Belongs, Writes
  <2> QED BY <1>6, <1>10, <2>1, <2>2
<1>11. CASE name = "touchRuns"
  <2>1. SqlRests(name) = {<<"touch", "commit">>, <<"commit">>}
      BY <1>11 DEF SqlRests
  <2>2. /\ Belongs(name, "touch") /\ Belongs(name, "commit")
        /\ "touch" \in Writes \ {"claim"}
      BY <1>11 DEF Belongs, Writes
  <2> QED BY <1>6, <1>11, <2>1, <2>2
<1>12. CASE name = "createThread"
  <2>1. \A a \in {"insertThread", "commit", "rollback", "readThread"} : Belongs(name, a)
      BY <1>12 DEF Belongs
  <2>2. /\ SqlRests(name) = {<<"insertThread", "commit">>, <<"commit">>,
                             <<"rollback", "readThread">>, <<"rollback">>, <<"readThread">>}
      BY <1>12 DEF SqlRests
  <2>3. CASE q = <<"insertThread", "commit">>
      BY <1>2, <2>1, <2>2, <2>3 DEF Writes, Good
  <2>4. CASE q \in {<<"commit">>, <<"rollback">>, <<"readThread">>}
      BY <1>1, <2>1, <2>4 DEF Reads, Good
  <2>5. CASE q = <<"rollback", "readThread">>
    <3>1. Head(q) = "rollback" /\ Tail(q) = <<"readThread">> /\ q # <<>>
        BY <2>5, Two
    <3>2. Position(TRUE, "rollback", <<"readThread">>)
        BY One DEF Position, Statements, Reads, Writes
    <3> QED BY <2>1, <2>2, <3>1, <3>2 DEF Good, Right
  <2> QED BY <2>2, <2>3, <2>4, <2>5
<1>13. CASE name = "deleteThread"
  <2>1. \A a \in {"deleteRuns", "deleteThread", "commit"} : Belongs(name, a)
      BY <1>13 DEF Belongs
  <2>2. /\ SqlRests(name) = {<<"deleteRuns", "deleteThread", "commit">>,
                             <<"deleteThread", "commit">>, <<"commit">>}
      BY <1>13 DEF SqlRests
  <2>3. CASE q = <<"deleteThread", "commit">>
      BY <1>2, <2>1, <2>2, <2>3 DEF Writes, Good
  <2>4. CASE q = <<"commit">>
      BY <1>1, <2>1, <2>4 DEF Good
  <2>5. CASE q = <<"deleteRuns", "deleteThread", "commit">>
    <3>1. Head(q) = "deleteRuns" /\ Tail(q) = <<"deleteThread", "commit">> /\ q # <<>>
        BY <2>5, Three
    <3>2. Position(TRUE, "deleteRuns", <<"deleteThread", "commit">>)
        BY Two DEF Position, Statements, Reads, Writes
    <3> QED BY <2>1, <2>2, <3>1, <3>2 DEF Good, Right
  <2> QED BY <2>2, <2>3, <2>4, <2>5
<1> QED BY <1>1, <1>3, <1>4, <1>5, <1>7, <1>8, <1>9, <1>10, <1>11, <1>12, <1>13 DEF Operations

\* Those of Mongo's.
LEMMA MongoPositions ==
    ASSUME NEW name \in Operations \ {"failStaleRuns"}, NEW q \in MongoRests(name)
    PROVE  /\ q # <<>>
           /\ Belongs(name, Head(q))
           /\ Position(FALSE, Head(q), Tail(q))
           /\ Tail(q) = <<>> \/ Tail(q) \in MongoRests(name)
<1> DEFINE Right(x) == /\ x # <<>>
                       /\ Belongs(name, Head(x))
                       /\ Position(FALSE, Head(x), Tail(x))
           Good == Right(q) /\ (Tail(q) = <<>> \/ Tail(q) \in MongoRests(name))
<1> SUFFICES Good
    OBVIOUS
<1>1. ASSUME NEW a, q = <<a>>, a \in (Reads \cup Writes) \ {"deleteRuns"}, Belongs(name, a)
      PROVE  Right(q) /\ Tail(q) = <<>>
    BY <1>1, One DEF Position, Statements, Reads, Writes
<1> HIDE DEF Good, Right
<1>2. ASSUME NEW a, MongoRests(name) = {<<a>>}, a \in (Reads \cup Writes) \ {"deleteRuns"},
             Belongs(name, a)
      PROVE  Good
    BY <1>1, <1>2 DEF Good
<1>3. CASE name = "fetchThread"
  <2>1. MongoRests(name) = {<<"readThread">>}
      BY <1>3 DEF MongoRests
  <2>2. Belongs(name, "readThread") /\ "readThread" \in (Reads \cup Writes) \ {"deleteRuns"}
      BY <1>3 DEF Belongs, Reads, Writes
  <2> QED BY <1>2, <2>1, <2>2
<1>4. CASE name = "fetchRun"
  <2>1. MongoRests(name) = {<<"readRun">>}
      BY <1>4 DEF MongoRests
  <2>2. Belongs(name, "readRun") /\ "readRun" \in (Reads \cup Writes) \ {"deleteRuns"}
      BY <1>4 DEF Belongs, Reads, Writes
  <2> QED BY <1>2, <2>1, <2>2
<1>5. CASE name = "listRuns"
  <2>1. MongoRests(name) = {<<"readRuns">>}
      BY <1>5 DEF MongoRests
  <2>2. Belongs(name, "readRuns") /\ "readRuns" \in (Reads \cup Writes) \ {"deleteRuns"}
      BY <1>5 DEF Belongs, Reads, Writes
  <2> QED BY <1>2, <2>1, <2>2
<1>6. CASE name = "updateThread"
  <2>1. MongoRests(name) = {<<"updateThread">>}
      BY <1>6 DEF MongoRests
  <2>2. Belongs(name, "updateThread") /\ "updateThread" \in (Reads \cup Writes) \ {"deleteRuns"}
      BY <1>6 DEF Belongs, Reads, Writes
  <2> QED BY <1>2, <2>1, <2>2
<1>7. CASE name = "createRun"
  <2>1. MongoRests(name) = {<<"insertRun">>}
      BY <1>7 DEF MongoRests
  <2>2. Belongs(name, "insertRun") /\ "insertRun" \in (Reads \cup Writes) \ {"deleteRuns"}
      BY <1>7 DEF Belongs, Reads, Writes
  <2> QED BY <1>2, <2>1, <2>2
<1>8. CASE name = "updateRunStatus"
  <2>1. MongoRests(name) = {<<"updateRun">>}
      BY <1>8 DEF MongoRests
  <2>2. Belongs(name, "updateRun") /\ "updateRun" \in (Reads \cup Writes) \ {"deleteRuns"}
      BY <1>8 DEF Belongs, Reads, Writes
  <2> QED BY <1>2, <2>1, <2>2
<1>9. CASE name = "deleteRun"
  <2>1. MongoRests(name) = {<<"deleteRun">>}
      BY <1>9 DEF MongoRests
  <2>2. Belongs(name, "deleteRun") /\ "deleteRun" \in (Reads \cup Writes) \ {"deleteRuns"}
      BY <1>9 DEF Belongs, Reads, Writes
  <2> QED BY <1>2, <2>1, <2>2
<1>10. CASE name = "touchRuns"
  <2>1. MongoRests(name) = {<<"touch">>}
      BY <1>10 DEF MongoRests
  <2>2. Belongs(name, "touch") /\ "touch" \in (Reads \cup Writes) \ {"deleteRuns"}
      BY <1>10 DEF Belongs, Reads, Writes
  <2> QED BY <1>2, <2>1, <2>2
<1>11. CASE name = "createThread"
  <2>1. \A a \in {"insertThread", "fetchThread"} : Belongs(name, a)
      BY <1>11 DEF Belongs
  <2>2. q \in {<<"insertThread">>, <<"fetchThread">>}
      BY <1>11 DEF MongoRests
  <2> QED BY <1>1, <2>1, <2>2 DEF Reads, Writes, Good
<1>12. CASE name = "deleteThread"
  <2>1. \A a \in {"deleteRuns", "deleteThread"} : Belongs(name, a)
      BY <1>12 DEF Belongs
  <2>2. MongoRests(name) = {<<"deleteRuns", "deleteThread">>, <<"deleteThread">>}
      BY <1>12 DEF MongoRests
  <2>3. CASE q = <<"deleteThread">>
      BY <1>1, <2>1, <2>3 DEF Writes, Good
  <2>4. CASE q = <<"deleteRuns", "deleteThread">>
    <3>1. Head(q) = "deleteRuns" /\ Tail(q) = <<"deleteThread">> /\ q # <<>>
        BY <2>4, Two
    <3>2. Position(FALSE, "deleteRuns", <<"deleteThread">>)
        BY One DEF Position, Statements, Reads, Writes
    <3> QED BY <2>1, <2>2, <3>1, <3>2 DEF Good, Right
  <2> QED BY <2>2, <2>3, <2>4
<1> QED BY <1>3, <1>4, <1>5, <1>6, <1>7, <1>8, <1>9, <1>10, <1>11, <1>12 DEF Operations

\* Those of a sweep.
LEMMA SweepPositions ==
    ASSUME BackendsAssumption, backend \in Backends, backend # "memory", NEW q, SweepRest(q)
    PROVE  /\ q # <<>>
           /\ Belongs("failStaleRuns", Head(q))
           /\ Position(Transactional, Head(q), Tail(q))
           /\ Head(q) = "scan" => Tail(q) = IF Transactional THEN <<"commit">> ELSE <<>>
           /\ Head(q) # "scan" => Tail(q) = <<>> \/ SweepRest(Tail(q))
<1>0. \A a \in {"scan", "failStale", "claim", "commit"} : Belongs("failStaleRuns", a)
    BY DEF Belongs
<1>1. CASE q = <<"scan", "commit">> /\ backend = "sqlite"
  <2>1. Head(q) = "scan" /\ Tail(q) = <<"commit">> /\ q # <<>>
      BY <1>1, Two
  <2>2. Position(TRUE, "scan", <<"commit">>) /\ Transactional
      BY <1>1, One DEF Position, Transactional, Statements, Reads, Writes
  <2> QED BY <1>0, <2>1, <2>2
<1>2. CASE q = <<"scan">> /\ backend = "mongo"
  <2>1. Head(q) = "scan" /\ Tail(q) = <<>> /\ q # <<>>
      BY <1>2, One
  <2>2. Position(FALSE, "scan", <<>>) /\ Transactional = FALSE
      BY <1>2 DEF Position, Transactional, Statements, Reads, Writes
  <2> QED BY <1>0, <2>1, <2>2
<1>3. CASE q = <<"failStale", "commit">> /\ backend = "postgres"
  <2>1. Head(q) = "failStale" /\ Tail(q) = <<"commit">> /\ q # <<>> /\ SweepRest(Tail(q))
      BY <1>3, Two DEF SweepRest
  <2>2. Position(TRUE, "failStale", <<"commit">>) /\ Transactional
      BY <1>3, One DEF Position, Transactional, Statements, Reads, Writes
  <2> QED BY <1>0, <2>1, <2>2
<1>4. CASE q = <<"commit">> /\ backend = "postgres"
  <2>1. Head(q) = "commit" /\ Tail(q) = <<>> /\ q # <<>>
      BY <1>4, One
  <2>2. Position(TRUE, "commit", <<>>) /\ Transactional
      BY <1>4 DEF Position, Transactional, Statements, Reads, Writes
  <2> QED BY <1>0, <2>1, <2>2
<1>5. CASE Claims(q) /\ backend # "postgres"
  <2>1. /\ q \in Seq({"claim", "commit"}) /\ q # <<>>
        /\ \A i \in 1..Len(q) : q[i] = "commit" <=> Transactional /\ i = Len(q)
      BY <1>5 DEF Claims
  <2>2. /\ Len(q) \in Nat \ {0} /\ Head(q) = q[1] /\ q[1] \in {"claim", "commit"}
        /\ Tail(q) \in Seq({"claim", "commit"}) /\ Len(Tail(q)) = Len(q) - 1
        /\ \A i \in 1..Len(Tail(q)) : Tail(q)[i] = q[i + 1]
    <3>1. Len(q) \in Nat \ {0}
        BY <2>1, EmptySeq, LenProperties
    <3>2. Head(q) = q[1] /\ q[1] \in {"claim", "commit"}
        BY <2>1, <3>1
    <3> QED BY <2>1, <3>1, <3>2, HeadTailProperties
  <2>3. Head(q) = "commit" <=> Transactional /\ Len(q) = 1
    <3>1. 1 \in 1..Len(q)
        BY <2>2
    <3>2. q[1] = "commit" <=> Transactional /\ 1 = Len(q)
        BY <2>1, <3>1
    <3> QED BY <2>2, <3>2
  <2>4. Tail(q) = <<>> <=> Len(q) = 1
    <3>1. Tail(q) = <<>> <=> Len(Tail(q)) = 0
        BY <2>2, EmptySeq
    <3>2. Len(q) - 1 = 0 <=> Len(q) = 1
        BY <2>2
    <3> QED BY <2>2, <3>1, <3>2
  <2>5. Tail(q) # <<>> => Claims(Tail(q))
    <3> SUFFICES ASSUME Tail(q) # <<>>, NEW i \in 1..Len(Tail(q))
                 PROVE  Tail(q)[i] = "commit" <=> Transactional /\ i = Len(Tail(q))
        BY <2>2 DEF Claims
    <3>1. i + 1 \in 1..Len(q) /\ (i + 1 = Len(q) <=> i = Len(Tail(q)))
        BY <2>2
    <3> QED BY <2>1, <2>2, <3>1
  <2>6. Tail(q) # <<>> => Head(Tail(q)) \in {"claim", "commit"}
    <3> SUFFICES ASSUME Tail(q) # <<>> PROVE Head(Tail(q)) \in {"claim", "commit"}
        OBVIOUS
    <3> QED BY <2>2, HeadTailProperties
  <2>7. Position(Transactional, Head(q), Tail(q))
      BY <2>2, <2>3, <2>4, <2>6 DEF Position, Statements, Writes, Reads
  <2>8. Tail(q) = <<>> \/ SweepRest(Tail(q))
      BY <1>5, <2>5 DEF SweepRest
  <2>9. Belongs("failStaleRuns", Head(q)) /\ Head(q) # "scan"
      BY <1>0, <2>2
  <2> QED BY <2>1, <2>7, <2>8, <2>9
<1> QED BY <1>1, <1>2, <1>3, <1>4, <1>5 DEF SweepRest

\* What a call executes next, and that what then remains is again a rest.
LEMMA Positions ==
    ASSUME backend \in Backends, backend # "memory",
           NEW c \in Callers, op[c] \in Calls[c], NEW q, Rest(c, q)
    PROVE  /\ q # <<>>
           /\ Fits(c, Head(q))
           /\ Position(Transactional, Head(q), Tail(q))
           /\ Head(q) = "scan" => Tail(q) = IF Transactional THEN <<"commit">> ELSE <<>>
           /\ Head(q) # "scan" => Tail(q) = <<>> \/ Rest(c, Tail(q))
<1>1. CASE op[c].name = "failStaleRuns"
    BY <1>1, BackendsAssumption, SweepPositions DEF Rest, Fits
<1>2. CASE op[c].name # "failStaleRuns"
  <2>1. op[c].name \in Operations \ {"failStaleRuns"}
      BY <1>2, CallsAssumption
  <2>2. ASSUME Belongs(op[c].name, "scan") PROVE FALSE
      BY <1>2, <2>2 DEF Belongs
  <2>3. CASE Transactional
    <3>1. q \in SqlRests(op[c].name) /\ Transactional = TRUE
        BY <1>2, <2>3 DEF Rest, Transactional
    <3>2. /\ q # <<>> /\ Belongs(op[c].name, Head(q)) /\ Position(TRUE, Head(q), Tail(q))
          /\ Tail(q) = <<>> \/ Tail(q) \in SqlRests(op[c].name)
        BY <2>1, <3>1, SqlPositions
    <3> QED BY <1>2, <2>2, <2>3, <3>1, <3>2 DEF Rest, Fits
  <2>4. CASE ~Transactional
    <3>1. q \in MongoRests(op[c].name) /\ Transactional = FALSE
        BY <1>2, <2>4 DEF Rest, Transactional
    <3>2. /\ q # <<>> /\ Belongs(op[c].name, Head(q)) /\ Position(FALSE, Head(q), Tail(q))
          /\ Tail(q) = <<>> \/ Tail(q) \in MongoRests(op[c].name)
        BY <2>1, <3>1, MongoPositions
    <3> QED BY <1>2, <2>2, <2>4, <3>1, <3>2 DEF Rest, Fits
  <2> QED BY <2>3, <2>4
<1> QED BY <1>1, <1>2

\* The claims that follow a scan.
LEMMA AfterScan ==
    ASSUME NEW n \in Nat, NEW t, t = IF Transactional THEN <<"commit">> ELSE <<>>,
           NEW q, q = [i \in 1..n |-> "claim"] \o t
    PROVE  /\ q = <<>> \/ Claims(q)
           /\ Transactional => q # <<>>
<1> DEFINE p == [i \in 1..n |-> "claim"]
<1>1. p \in Seq({"claim", "commit"}) /\ Len(p) = n
    OBVIOUS
<1>2. t \in Seq({"claim", "commit"}) /\ Len(t) = IF Transactional THEN 1 ELSE 0
  <2>1. <<"commit">> \in Seq({"claim", "commit"}) /\ Len(<<"commit">>) = 1
      OBVIOUS
  <2>2. <<>> \in Seq({"claim", "commit"}) /\ Len(<<>>) = 0
      OBVIOUS
  <2>3. Transactional => t = <<"commit">>
      OBVIOUS
  <2>4. ~Transactional => t = <<>>
      OBVIOUS
  <2>5. t \in Seq({"claim", "commit"})
      BY <2>1, <2>2, <2>3, <2>4
  <2>6. Transactional => Len(t) = 1
      BY <2>1, <2>3
  <2>7. ~Transactional => Len(t) = 0
      BY <2>2, <2>4
  <2> QED BY <2>5, <2>6, <2>7
<1>3. /\ q \in Seq({"claim", "commit"}) /\ Len(q) = n + Len(t)
      /\ \A i \in 1..Len(q) : q[i] = IF i <= n THEN p[i] ELSE t[i - n]
    BY <1>1, <1>2, ConcatProperties
<1>4. ASSUME NEW i \in 1..Len(q) PROVE q[i] = "commit" <=> Transactional /\ i = Len(q)
  <2>1. CASE i <= n
      BY <1>2, <1>3, <2>1
  <2>2. CASE ~(i <= n)
    <3>1. Transactional /\ i = n + 1 /\ Len(q) = n + 1
        BY <1>2, <1>3, <2>2
    <3>2. q[i] = t[i - n] /\ i - n = 1
        BY <1>3, <2>2, <3>1
    <3> QED BY <3>1, <3>2
  <2> QED BY <2>1, <2>2
<1>5. Transactional => Len(q) # 0
    BY <1>2, <1>3
<1>6. Transactional => q # <<>>
    BY <1>3, <1>5, EmptySeq
<1> QED BY <1>3, <1>4, <1>6 DEF Claims

\* A call begins with a rest, if it has anything to do.
LEMMA FirstRest ==
    ASSUME backend \in Backends, backend # "memory", NEW c \in Callers, op[c] \in Calls[c]
    PROVE  \/ Script(op[c]) = <<>> /\ op[c].name = "updateThread"
           \/ Rest(c, Script(op[c]))
<1> DEFINE name == op[c].name
<1>0. name \in Operations
    BY CallsAssumption
<1>1. CASE backend = "sqlite"
  <2>1. Script(op[c]) = SqliteScript(op[c]) /\ Transactional
      BY <1>1 DEF Script, Transactional
  <2>2. name = "failStaleRuns" => SweepRest(SqliteScript(op[c]))
      BY <1>1 DEF SweepRest, SqliteScript, SqliteFailStaleRuns
  <2>3. ASSUME name # "failStaleRuns"
        PROVE  \/ SqliteScript(op[c]) = <<>> /\ name = "updateThread"
               \/ SqliteScript(op[c]) \in SqlRests(name)
    <3> USE DEF SqliteScript, SqlRests
    <3>1. CASE name = "updateThread"
        BY <3>1 DEF SqliteUpdateThread
    <3>2. CASE name \in {"fetchThread", "createThread"}
        BY <3>2 DEF SqliteFetchThread, SqliteCreateThread
    <3>3. CASE name \in {"deleteThread", "createRun"}
        BY <3>3 DEF SqliteDeleteThread, SqliteCreateRun
    <3>4. CASE name \in {"updateRunStatus", "fetchRun"}
        BY <3>4 DEF SqliteUpdateRunStatus, SqliteFetchRun
    <3>5. CASE name \in {"listRuns", "deleteRun", "touchRuns"}
        BY <3>5 DEF SqliteListRuns, SqliteDeleteRun, SqliteTouchRuns
    <3> QED BY <1>0, <2>3, <3>1, <3>2, <3>3, <3>4, <3>5 DEF Operations
  <2> QED BY <2>1, <2>2, <2>3 DEF Rest
<1>2. CASE backend = "postgres"
  <2>1. Script(op[c]) = PostgresScript(op[c]) /\ Transactional
      BY <1>2 DEF Script, Transactional
  <2>2. name = "failStaleRuns" => SweepRest(PostgresScript(op[c]))
      BY <1>2 DEF SweepRest, PostgresScript, PostgresFailStaleRuns
  <2>3. ASSUME name # "failStaleRuns"
        PROVE  \/ PostgresScript(op[c]) = <<>> /\ name = "updateThread"
               \/ PostgresScript(op[c]) \in SqlRests(name)
    <3> USE DEF PostgresScript, SqlRests
    <3>1. CASE name = "updateThread"
        BY <3>1 DEF PostgresUpdateThread
    <3>2. CASE name \in {"fetchThread", "createThread"}
        BY <3>2 DEF PostgresFetchThread, PostgresCreateThread
    <3>3. CASE name \in {"deleteThread", "createRun"}
        BY <3>3 DEF PostgresDeleteThread, PostgresCreateRun
    <3>4. CASE name \in {"updateRunStatus", "fetchRun"}
        BY <3>4 DEF PostgresUpdateRunStatus, PostgresFetchRun
    <3>5. CASE name \in {"listRuns", "deleteRun", "touchRuns"}
        BY <3>5 DEF PostgresListRuns, PostgresDeleteRun, PostgresTouchRuns
    <3> QED BY <1>0, <2>3, <3>1, <3>2, <3>3, <3>4, <3>5 DEF Operations
  <2> QED BY <2>1, <2>2, <2>3 DEF Rest
<1>3. CASE backend = "mongo"
  <2>1. Script(op[c]) = MongoScript(op[c]) /\ ~Transactional
      BY <1>3 DEF Script, Transactional
  <2>2. name = "failStaleRuns" => SweepRest(MongoScript(op[c]))
      BY <1>3 DEF SweepRest, MongoScript, MongoFailStaleRuns
  <2>3. ASSUME name # "failStaleRuns"
        PROVE  \/ MongoScript(op[c]) = <<>> /\ name = "updateThread"
               \/ MongoScript(op[c]) \in MongoRests(name)
    <3> USE DEF MongoScript, MongoRests
    <3>1. CASE name = "updateThread"
        BY <3>1 DEF MongoUpdateThread
    <3>2. CASE name \in {"fetchThread", "createThread"}
        BY <3>2 DEF MongoFetchThread, MongoCreateThread
    <3>3. CASE name \in {"deleteThread", "createRun"}
        BY <3>3 DEF MongoDeleteThread, MongoCreateRun
    <3>4. CASE name \in {"updateRunStatus", "fetchRun"}
        BY <3>4 DEF MongoUpdateRunStatus, MongoFetchRun
    <3>5. CASE name \in {"listRuns", "deleteRun", "touchRuns"}
        BY <3>5 DEF MongoListRuns, MongoDeleteRun, MongoTouchRuns
    <3> QED BY <1>0, <2>3, <3>1, <3>2, <3>3, <3>4, <3>5 DEF Operations
  <2> QED BY <2>1, <2>2, <2>3 DEF Rest
<1> QED BY <1>1, <1>2, <1>3, BackendsAssumption

\* A create that lost goes on with a rest, if with anything.
LEMMA ConflictRest ==
    ASSUME backend \in Backends, backend # "memory",
           NEW c \in Callers, op[c].name = "createThread"
    PROVE  LET q == OnConflict(op[c])
           IN  /\ q = <<>> \/ Rest(c, q)
               /\ Transactional => q # <<>>
               /\ q # <<>> => Head(q) \in {"rollback", "fetchThread"}
<1>1. CASE backend = "sqlite"
    BY <1>1, One, Two DEF OnConflict, SqliteConflict, Rest, SqlRests, Transactional
<1>2. CASE backend = "postgres"
    BY <1>2, One, Two DEF OnConflict, PostgresConflict, Rest, SqlRests, Transactional
<1>3. CASE backend = "mongo"
    BY <1>3, One DEF OnConflict, MongoConflict, Rest, MongoRests, Transactional
<1> QED BY <1>1, <1>2, <1>3, BackendsAssumption

-----------------------------------------------------------------------------
(* The state every step keeps: types, and scripts that are rests.          *)

Shape ==
    /\ backend \in Backends
    /\ rows \in [Keys -> RowType]
    /\ DOMAIN written = Conns
    /\ \A x \in Conns : \A k \in DOMAIN written[x] : k \in Keys /\ written[x][k] \in RowType
    /\ \A x \in Conns : written[x] = [k \in DOMAIN written[x] |-> written[x][k]]
    /\ open \subseteq Workers
    /\ \A c \in Callers : op[c] \in Calls[c]
    /\ at \in [Callers -> {"waiting", "running", "over"}]
    /\ DOMAIN script = Callers
    /\ seen \in [Callers -> SUBSET Runs]
    /\ found \in [Callers -> SUBSET Runs]
    /\ answer \in [Callers -> Answers]
    /\ troubles \in 0..MaxTroubles
    /\ doubtful \subseteq Callers
    /\ ~Transactional => \A x \in Conns : written[x] = Nothing

Scripted ==
    \A c \in Callers :
        /\ Running(c) => backend # "memory" /\ Rest(c, script[c])
        /\ ~Running(c) => script[c] = <<>>
        /\ at[c] = "waiting" => found[c] = {} /\ answer[c] = "none"
        /\ Running(c) /\ op[c].name \in {"fetchRun", "listRuns"} => found[c] = {}
        /\ Running(c) /\ op[c].name = "failStaleRuns" => answer[c] = "none"

Base == Shape /\ Scripted

\* Connections are connections.
LEMMA ConnIs == ASSUME NEW c \in Callers PROVE Conn(c) \in Conns
BY HomeAssumption DEF Conn, Conns

\* What a call sees has rows.
LEMMA ViewIs ==
    ASSUME Shape, NEW c \in Callers
    PROVE  /\ View(c) \in [Keys -> RowType]
           /\ \A k \in Keys :
                View(c)[k] = IF k \in DOMAIN written[Conn(c)] THEN written[Conn(c)][k] ELSE rows[k]
           /\ ~Transactional \/ written[Conn(c)] = Nothing => View(c) = rows
<1>1. Conn(c) \in Conns
    BY ConnIs
<1>2. DOMAIN written[Conn(c)] \subseteq Keys
    BY <1>1 DEF Shape
<1>3. DOMAIN View(c) = Keys
  <2>1. DOMAIN rows = Keys
      BY DEF Shape
  <2>2. DOMAIN View(c) = DOMAIN written[Conn(c)] \cup DOMAIN rows
      BY DEF View, Overlay
  <2> QED BY <1>2, <2>1, <2>2
<1>4. \A k \in Keys :
        View(c)[k] = IF k \in DOMAIN written[Conn(c)] THEN written[Conn(c)][k] ELSE rows[k]
    BY <1>2 DEF View, Overlay, Shape
<1>5. \A k \in Keys : View(c)[k] \in RowType
    BY <1>1, <1>4 DEF Shape
<1>6. View(c) = [k \in Keys |-> View(c)[k]]
    BY <1>3 DEF View, Overlay
<1>7. rows = [k \in Keys |-> rows[k]] /\ DOMAIN Nothing = {}
    BY DEF Shape, Nothing
<1>8. written[Conn(c)] = Nothing => View(c) = rows
    BY <1>4, <1>6, <1>7
<1>9. ~Transactional => written[Conn(c)] = Nothing
    BY <1>1 DEF Shape
<1> QED BY <1>4, <1>5, <1>6, <1>8, <1>9

\* Every row a write changes is a row.
LEMMA ChangeIs ==
    ASSUME Shape, NEW c \in Callers, NEW s \in Writes, Fits(c, s), NEW k,
           NEW r \in DOMAIN Change(c, s, View(c), k)
    PROVE  /\ r \in Keys
           /\ Change(c, s, View(c), k)[r] \in RowType
           /\ ~Change(c, s, View(c), k)[r].stale
<1> DEFINE x == Change(c, s, View(c), k)[r]
<1>1. op[c] \in Calls[c] /\ View(c) \in [Keys -> RowType]
    BY ViewIs DEF Shape
<1>2. ASSUME NEW status \in {"none", "idle", "busy"} \cup InFlight \cup Ended
      PROVE  Row(status) \in RowType /\ ~Row(status).stale
    BY DEF Row, RowType
<1>3. CASE r = Thread
  <2>1. ThreadWrite(c, s, View(c), x)
      BY <1>1, <1>3, ThreadWrites
  <2>2. \E status \in {"none", "idle", "busy"} \cup InFlight \cup Ended : x = Row(status)
      BY <2>1 DEF ThreadWrite, Absent
  <2> QED BY <1>2, <1>3, <2>2 DEF Keys
<1>4. CASE r # Thread
  <2>1. r \in Runs /\ RunWrite(c, s, View(c), r, x)
      BY <1>1, <1>4, RunWrites
  <2>2. View(c)[r].status \in {"none", "idle", "busy"} \cup InFlight \cup Ended
      BY <1>1, <2>1 DEF Keys, RowType
  <2>3. op[c].name = "updateRunStatus" => op[c].value \in InFlight \cup Ended
      BY <1>1, CallsAssumption
  <2>4. \E status \in {"none", "idle", "busy"} \cup InFlight \cup Ended : x = Row(status)
      BY <2>1, <2>2, <2>3 DEF RunWrite, Absent, InFlight, Ended
  <2> QED BY <1>2, <2>1, <2>4 DEF Keys
<1> QED BY <1>3, <1>4

-----------------------------------------------------------------------------
(* The steps, in the terms of the invariants.                              *)

\* The other calls are left alone.
Frame(c) ==
    /\ backend' = backend /\ op' = op
    /\ at' \in [Callers -> {"waiting", "running", "over"}]
    /\ DOMAIN script' = Callers
    /\ seen' \in [Callers -> SUBSET Runs]
    /\ found' \in [Callers -> SUBSET Runs]
    /\ answer' \in [Callers -> Answers]
    /\ troubles' \in 0..MaxTroubles
    /\ doubtful \subseteq doubtful' /\ doubtful' \subseteq Callers
    /\ \A d \in Callers \ {c} :
         /\ at'[d] = at[d] /\ script'[d] = script[d]
         /\ answer'[d] = answer[d] /\ found'[d] = found[d]
         /\ d \in doubtful' <=> d \in doubtful

\* The call goes on with the statements rest, or ends.
Turns(c, rest, ans) ==
    /\ at'[c] = IF rest = <<>> THEN "over" ELSE "running"
    /\ script'[c] = rest
    /\ answer'[c] = IF rest = <<>> /\ ans = "none" THEN "done" ELSE ans

Begins(c) ==
    /\ at[c] = "waiting" /\ backend # "memory"
    /\ Transactional => HasFreeConnection(Home[c])
    /\ Quiet /\ open' = open /\ found' = found
    /\ troubles' = troubles /\ doubtful' = doubtful
    /\ \E rest : /\ Turns(c, rest, "none")
                 /\ \/ rest = <<>> /\ op[c].name = "updateThread"
                    \/ Rest(c, rest) /\ rest = Script(op[c])

Opens(c, s) ==
    /\ s \in {"commit", "rollback"} => open' = open \ {Conn(c)}
    /\ s \in Reads => open' = open
    /\ s \in Writes => open' = IF Transactional \/ Refused(c, s) THEN Opened(c) ELSE open

\* A statement s is executed, with t to follow.
Acts(c, s, t, k) ==
    /\ \/ Running(c) /\ backend # "memory" /\ s = Head(script[c]) /\ t = Tail(script[c])
          /\ script[c] # <<>>
       \/ at[c] = "waiting" /\ backend = "memory" /\ s = Script(op[c])[1] /\ t = <<>>
    /\ Fits(c, s) /\ Position(Transactional, s, t)
    /\ ~Blocked(c, s)
    /\ Does(c, s, k) /\ Opens(c, s)

\* What it does to the call.
Leads(c, s, t, k, rest, ans) ==
    /\ Conflicts(c, s, View(c)) =>
         /\ ans \in {"exists", "existing"}
         /\ rest = <<>> \/ (Rest(c, rest) /\ Head(rest) \in {"rollback", "fetchThread"})
         /\ Transactional => rest # <<>>
    /\ Dangles(c, s, View(c)) => rest = <<>> /\ ans = "raised"
    /\ s = "scan" =>
         /\ ans = answer[c]
         /\ rest = <<>> \/ (SweepRest(rest) /\ Claims(rest))
         /\ Transactional => rest # <<>>
    /\ ~Refused(c, s) /\ s # "scan" => rest = t /\ ans = Answer(c, s, View(c), k)
    /\ rest = <<>> \/ (Rest(c, rest) /\ backend # "memory")

Executes(c) ==
    \E s, t, k, rest, ans :
        /\ Acts(c, s, t, k)
        /\ Leads(c, s, t, k, rest, ans)
        /\ Turns(c, rest, ans)
        /\ found'[c] = Learns(c, s, View(c), k)
        /\ troubles' = troubles /\ doubtful' = doubtful

\* The call ends early: it leaves the database as it is, rolls back, or does
\* not learn that its statement was executed.
Fails(c) ==
    /\ Running(c) /\ backend # "memory"
    /\ found' = found
    /\ \E ans : /\ Turns(c, <<>>, ans) /\ ans \in {"raised", "done"}
                /\ ans = "done" => backend = "mongo" /\ op[c].name = "failStaleRuns"
                /\ backend = "mongo" /\ op[c].name = "failStaleRuns" /\ found[c] # {}
                     /\ c \notin doubtful' => ans = "done"
    /\ \/ Quiet /\ open' = open /\ ~RollsBack(op[c])
       \/ Drops(c) /\ open' = open \ {Conn(c)} /\ RollsBack(op[c])
       \/ /\ Commits(c) /\ open' = open \ {Conn(c)} /\ RollsBack(op[c]) /\ c \in doubtful'
          /\ Head(script[c]) = "commit" /\ troubles' # 0
       \/ /\ ~RollsBack(op[c]) /\ c \in doubtful' /\ troubles' # 0
          /\ \E s, t, k : Acts(c, s, t, k)
    /\ \/ troubles' # 0
       \/ /\ backend = "sqlite" /\ Blocked(c, Head(script[c])) /\ troubles' = troubles
          /\ Head(script[c]) \in Writes

\* The part of Frame that control is about.
Turned(c) ==
    /\ at' \in [Callers -> {"waiting", "running", "over"}]
    /\ DOMAIN script' = Callers
    /\ answer' \in [Callers -> Answers]
    /\ \A d \in Callers \ {c} :
         at'[d] = at[d] /\ script'[d] = script[d] /\ answer'[d] = answer[d]

\* A call that returns.
LEMMA ReturnsIs ==
    ASSUME Shape, NEW c \in Callers, NEW ans \in Answers, Returns(c, ans)
    PROVE  Turns(c, <<>>, ans) /\ Turned(c)
BY DEF Shape, Returns, Turns, Turned, Answers

\* A call that goes on.
LEMMA GoesOnIs ==
    ASSUME Shape, NEW c \in Callers, Running(c), NEW rest, NEW ans \in Answers,
           GoesOn(c, rest, ans)
    PROVE  Turns(c, rest, ans) /\ Turned(c)
<1>1. CASE rest = <<>>
    BY <1>1, ReturnsIs DEF GoesOn
<1>2. CASE rest # <<>>
    BY <1>2 DEF Shape, GoesOn, Turns, Turned, Running
<1> QED BY <1>1, <1>2

\* A call gets its connection.
LEMMA StartBegins ==
    ASSUME Base, NEW c \in Callers, Start(c)
    PROVE  Begins(c) /\ Frame(c)
<1>1. op[c] \in Calls[c] /\ backend # "memory" /\ at[c] = "waiting" /\ Shape
      /\ (Transactional => HasFreeConnection(Home[c]))
    BY DEF Base, Shape, Start
<1>2. answer[c] = "none" /\ "done" \in Answers /\ "none" \in Answers
    BY <1>1 DEF Base, Scripted, Answers
<1>3. \/ Script(op[c]) = <<>> /\ op[c].name = "updateThread"
      \/ Rest(c, Script(op[c]))
    BY <1>1, FirstRest DEF Base, Shape
<1>4. Turns(c, Script(op[c]), "none") /\ Turned(c)
  <2>1. CASE Script(op[c]) = <<>>
    <3>1. Returns(c, "done")
        BY <2>1 DEF Start
    <3>2. Turns(c, <<>>, "done") /\ Turned(c)
        BY <1>1, <1>2, <3>1, ReturnsIs
    <3> QED BY <2>1, <3>2 DEF Turns
  <2>2. CASE Script(op[c]) # <<>>
    <3>1. /\ at' = [at EXCEPT ![c] = "running"]
          /\ script' = [script EXCEPT ![c] = Script(op[c])]
          /\ answer' = answer
        BY <2>2 DEF Start
    <3> QED BY <1>1, <1>2, <2>2, <3>1 DEF Shape, Turns, Turned
  <2> QED BY <2>1, <2>2
<1>5. UNCHANGED <<backend, rows, written, open, op, seen, found, troubles, doubtful>>
    BY DEF Start
<1>6. Frame(c)
    BY <1>1, <1>4, <1>5 DEF Frame, Turned, Shape
<1>7. \E rest : /\ Turns(c, rest, "none")
                /\ \/ rest = <<>> /\ op[c].name = "updateThread"
                   \/ Rest(c, rest) /\ rest = Script(op[c])
    BY <1>3, <1>4
<1> QED BY <1>1, <1>5, <1>6, <1>7 DEF Begins, Quiet

\* What a call learns are runs.
LEMMA LearnsIs ==
    ASSUME Shape, NEW c \in Callers, NEW s, NEW k, NEW v
    PROVE  Learns(c, s, v, k) \subseteq Runs
<1>1. s \in {"claim", "failStale"} => DOMAIN Change(c, s, v, k) \subseteq Runs
    BY DEF Change, ClaimedRun, Stale, Moving
<1> QED BY <1>1 DEF Learns, Shape

\* Answers are answers.
LEMMA AnswerIs ==
    ASSUME Shape, NEW c \in Callers, NEW s, NEW k, NEW v
    PROVE  Answer(c, s, v, k) \in Answers
BY DEF Answer, Answers, Shape

\* A statement of a call returns.
LEMMA ProceedExecutes ==
    ASSUME Base, NEW c \in Callers, Proceed(c)
    PROVE  Executes(c) /\ Frame(c)
<1> DEFINE s == Head(script[c])
           t == Tail(script[c])
           v == View(c)
<1>1. /\ Running(c) /\ backend # "memory" /\ Rest(c, script[c]) /\ op[c] \in Calls[c]
      /\ backend \in Backends /\ Shape
    BY DEF Base, Shape, Scripted, Proceed, Running
<1>2. /\ script[c] # <<>> /\ Fits(c, s) /\ Position(Transactional, s, t)
      /\ s = "scan" => t = IF Transactional THEN <<"commit">> ELSE <<>>
      /\ s # "scan" => t = <<>> \/ Rest(c, t)
    BY <1>1, Positions
<1>3. s \in Statements
    BY <1>2 DEF Position
<1>4. PICK k \in Tries(c, s) :
        /\ Becomes(Effect(c, s, k))
        /\ found' = [found EXCEPT ![c] = Learns(c, s, v, k)]
        /\ seen' = [seen EXCEPT ![c] = IF s = "scan" THEN Stale(v) \ {op[c].run} ELSE @ \ {k}]
        /\ CASE Conflicts(c, s, v) -> GoesOn(c, OnConflict(op[c]), "exists")
             [] Dangles(c, s, v) -> Returns(c, "raised")
             [] s = "scan" ->
                  GoesOn(c, [i \in 1..Cardinality(Stale(v) \ {op[c].run}) |-> "claim"] \o t,
                         answer[c])
             [] OTHER -> GoesOn(c, t, Answer(c, s, v, k))
    BY DEF Proceed
<1>5. ~Blocked(c, s) /\ UNCHANGED <<backend, op, troubles, doubtful>>
    BY DEF Proceed
<1>6. Acts(c, s, t, k)
  <2>1. Does(c, s, k)
      BY <1>3, <1>4, StatementDoes
  <2>2. Opens(c, s)
      BY <1>3, <1>4, StatementOpens DEF Opens
  <2> QED BY <1>1, <1>2, <1>5, <2>1, <2>2 DEF Acts
<1>7. \E rest, ans : Leads(c, s, t, k, rest, ans) /\ Turns(c, rest, ans) /\ Turned(c)
  <2>1. CASE Conflicts(c, s, v)
    <3> DEFINE q == OnConflict(op[c])
    <3>0. s = "insertThread"
        BY <2>1 DEF Conflicts
    <3>1. GoesOn(c, q, "exists")
        BY <1>4, <2>1, <3>0 DEF Dangles
    <3>2. "exists" \in Answers
        BY DEF Answers
    <3>3. Turns(c, q, "exists") /\ Turned(c)
        BY <1>1, <3>1, <3>2, GoesOnIs
    <3>4. op[c].name = "createThread"
        BY <1>2, <3>0 DEF Fits, Belongs
    <3>5. /\ q = <<>> \/ Rest(c, q)
          /\ Transactional => q # <<>>
          /\ q # <<>> => Head(q) \in {"rollback", "fetchThread"}
        BY <1>1, <3>4, ConflictRest
    <3> HIDE DEF q, s, t, v
    <3>6. Leads(c, s, t, k, q, "exists")
        BY <1>1, <2>1, <3>0, <3>5 DEF Leads, Dangles, Refused, v
    <3> QED BY <3>3, <3>6
  <2>2. CASE Dangles(c, s, v)
    <3>0. s = "insertRun"
        BY <2>2 DEF Dangles
    <3>1. Returns(c, "raised")
        BY <1>4, <2>2, <3>0 DEF Conflicts
    <3>2. "raised" \in Answers
        BY DEF Answers
    <3>3. Turns(c, <<>>, "raised") /\ Turned(c)
        BY <1>1, <3>1, <3>2, ReturnsIs
    <3> HIDE DEF s, t, v
    <3>4. Leads(c, s, t, k, <<>>, "raised")
        BY <2>2, <3>0 DEF Leads, Conflicts, Refused, v
    <3> QED BY <3>3, <3>4
  <2>3. CASE s = "scan"
    <3> DEFINE n == Cardinality(Stale(v) \ {op[c].run})
               q == [i \in 1..n |-> "claim"] \o t
    <3>1. GoesOn(c, q, answer[c])
        BY <1>4, <2>3 DEF Conflicts, Dangles
    <3>2. n \in Nat
      <4>1. Stale(v) \ {op[c].run} \subseteq Runs
          BY DEF Stale, Moving
      <4> QED BY <4>1, KeysAssumption, FS_Subset, FS_CardinalityType
    <3>3. q = <<>> \/ Claims(q)
        BY <1>2, <2>3, <3>2, AfterScan
    <3>4. op[c].name = "failStaleRuns" /\ backend # "postgres"
      <4>1. op[c].name = "failStaleRuns"
          BY <1>2, <2>3 DEF Fits, Belongs
      <4>2. backend = "postgres" => script[c] \in {<<"failStale", "commit">>, <<"commit">>}
          BY <1>1, <4>1 DEF Rest, SweepRest
      <4> QED BY <2>3, <4>1, <4>2, One, Two
    <3>5. Transactional => q # <<>>
        BY <1>2, <2>3, <3>2, AfterScan
    <3>6. q = <<>> \/ Rest(c, q)
        BY <3>3, <3>4 DEF Rest, SweepRest
    <3>7. answer[c] \in Answers
        BY <1>1 DEF Shape
    <3>8. Turns(c, q, answer[c]) /\ Turned(c)
        BY <1>1, <3>1, <3>7, GoesOnIs
    <3> HIDE DEF q, s, t, v
    <3>9. Leads(c, s, t, k, q, answer[c])
        BY <1>1, <2>3, <3>3, <3>4, <3>5, <3>6 DEF Leads, Conflicts, Dangles, SweepRest
    <3> QED BY <3>8, <3>9
  <2>4. CASE ~Conflicts(c, s, v) /\ ~Dangles(c, s, v) /\ s # "scan"
    <3>1. GoesOn(c, t, Answer(c, s, v, k))
        BY <1>4, <2>4
    <3>2. Turns(c, t, Answer(c, s, v, k)) /\ Turned(c)
        BY <1>1, <3>1, AnswerIs, GoesOnIs
    <3> HIDE DEF s, t
    <3>3. Leads(c, s, t, k, t, Answer(c, s, v, k))
        BY <1>1, <1>2, <2>4 DEF Leads
    <3> QED BY <3>2, <3>3
  <2> QED BY <2>1, <2>2, <2>3, <2>4
<1>8. found'[c] = Learns(c, s, v, k)
    BY <1>1, <1>4 DEF Shape
<1>9. found' \in [Callers -> SUBSET Runs] /\ \A d \in Callers \ {c} : found'[d] = found[d]
  <2>1. Learns(c, s, v, k) \in SUBSET Runs
      BY <1>1, LearnsIs
  <2> HIDE DEF s, t, v
  <2> QED BY <1>1, <1>4, <2>1 DEF Shape
<1>10. seen' \in [Callers -> SUBSET Runs]
  <2>1. Stale(v) \ {op[c].run} \in SUBSET Runs
      BY DEF Stale, Moving
  <2> HIDE DEF s, t, v
  <2> QED BY <1>1, <1>4, <2>1 DEF Shape
<1> HIDE DEF s, t, v
<1>11. Frame(c)
    BY <1>1, <1>5, <1>7, <1>9, <1>10 DEF Frame, Turned, Shape
<1> QED BY <1>5, <1>6, <1>7, <1>8, <1>11 DEF Executes, v

\* A call of the memory store is one statement.
LEMMA InMemoryExecutes ==
    ASSUME Base, NEW c \in Callers, InMemory(c)
    PROVE  Executes(c) /\ Frame(c)
<1> DEFINE s == Script(op[c])[1]
           k == op[c].run
           v == View(c)
           ans == IF Conflicts(c, s, v) /\ op[c].value = "do_nothing" THEN "existing"
                  ELSE Answer(c, s, v, k)
<1>1. /\ Shape /\ backend = "memory" /\ at[c] = "waiting" /\ op[c] \in Calls[c]
      /\ op[c].name \in Operations /\ ~Transactional
    BY CallsAssumption DEF Base, Shape, InMemory, Transactional
<1>2. v = rows
    BY <1>1, ViewIs
<1>3. /\ Becomes(Effect(c, s, k))
      /\ found' = [found EXCEPT ![c] = Learns(c, s, v, k)]
      /\ Returns(c, ans)
      /\ UNCHANGED <<backend, op, seen, troubles, doubtful>>
    BY <1>2 DEF InMemory
<1>4. s = IF op[c].name \in ThreadCalls THEN MemoryThreadCall(op[c]) ELSE MemoryRunCall(op[c])
    BY <1>1 DEF Script
<1>5. s \in (Reads \cup Writes) \ {"scan", "deleteRuns"} /\ Fits(c, s)
  <2>1. CASE op[c].name \in ThreadCalls
      BY <1>4, <2>1 DEF ThreadCalls, MemoryThreadCall, Reads, Writes, Fits, Belongs
  <2>2. CASE op[c].name \notin ThreadCalls
      BY <1>1, <1>4, <2>2
         DEF Operations, ThreadCalls, MemoryRunCall, Reads, Writes, Fits, Belongs
  <2> QED BY <2>1, <2>2
<1>6. ans \in Answers
    BY <1>1, AnswerIs DEF Answers
<1>7. Turns(c, <<>>, ans) /\ Turned(c)
    BY <1>1, <1>3, <1>6, ReturnsIs
<1> HIDE DEF s, ans
<1>8. Acts(c, s, <<>>, k)
  <2>1. s \in Statements
      BY <1>5 DEF Statements
  <2>2. Does(c, s, k) /\ Opens(c, s)
      BY <1>3, <2>1, StatementDoes, StatementOpens DEF Opens
  <2>3. Position(Transactional, s, <<>>)
      BY <1>1, <1>5 DEF Position, Statements, Reads, Writes
  <2>4. ~Blocked(c, s)
      BY <1>1 DEF Blocked
  <2> QED BY <1>1, <1>5, <2>2, <2>3, <2>4 DEF Acts, s
<1>9. Leads(c, s, <<>>, k, <<>>, ans)
  <2>1. ~Dangles(c, s, v)
      BY <1>1 DEF Dangles, ForeignKeys
  <2>2. Conflicts(c, s, v) => ans \in {"exists", "existing"}
      BY DEF ans, Conflicts, Answer
  <2>3. ~Conflicts(c, s, v) => ans = Answer(c, s, v, k)
      BY DEF ans
  <2> QED BY <1>1, <1>5, <2>1, <2>2, <2>3 DEF Leads, Refused
<1>10. found'[c] = Learns(c, s, v, k)
    BY <1>1, <1>3 DEF Shape
<1>11. found' \in [Callers -> SUBSET Runs] /\ \A d \in Callers \ {c} : found'[d] = found[d]
  <2>1. Learns(c, s, v, k) \in SUBSET Runs
      BY <1>1, LearnsIs
  <2> HIDE DEF k, v
  <2> QED BY <1>1, <1>3, <2>1 DEF Shape
<1>12. Frame(c)
    BY <1>1, <1>3, <1>7, <1>11 DEF Frame, Turned, Shape
<1> QED BY <1>3, <1>7, <1>8, <1>9, <1>10, <1>12 DEF Executes, v

\* A rollback outside of a script.
LEMMA ClosedDatabase ==
    ASSUME NEW c \in Callers, Becomes(Closed(c, Database))
    PROVE  Drops(c) /\ open' = open \ {Conn(c)}
<1>1. Closed(c, Database)
        = [rows |-> rows, written |-> [written EXCEPT ![Conn(c)] = Nothing],
           open |-> open \ {Conn(c)}]
    BY ClosedIs DEF Database
<1> QED BY <1>1 DEF Becomes, Drops

\* A call is interrupted or refused.
LEMMA TroubleFails ==
    ASSUME Base, NEW c \in Callers, Trouble(c)
    PROVE  Fails(c) /\ Frame(c)
<1> DEFINE s == Head(script[c])
           t == Tail(script[c])
<1>1. /\ Running(c) /\ backend # "memory" /\ Rest(c, script[c]) /\ op[c] \in Calls[c]
      /\ backend \in Backends /\ Shape /\ troubles < MaxTroubles /\ troubles' = troubles + 1
    BY DEF Base, Shape, Scripted, Trouble, Running
<1>2. script[c] # <<>> /\ Fits(c, s) /\ Position(Transactional, s, t)
    BY <1>1, Positions
<1>3. PICK tr \in Troubles, k \in Tries(c, s) :
        /\ tr[2] => ~Blocked(c, s)
        /\ Aborts(c, IF tr[2] THEN Effect(c, s, k) ELSE Database,
                  IF tr[1] # "cancelled" /\ backend = "mongo" /\ MongoReportsPartly(op[c], found[c])
                  THEN "done" ELSE "raised")
        /\ doubtful' = IF tr[1] = "fails" THEN doubtful ELSE doubtful \cup {c}
    BY DEF Trouble
<1>4. tr[2] \in BOOLEAN /\ (tr[2] => tr[1] # "fails")
      /\ tr[1] \in {"fails", "lost", "cancelled"}
  <2>1. CASE tr = <<"fails", FALSE>>
      BY <2>1
  <2>2. CASE tr = <<"lost", TRUE>>
      BY <2>2
  <2>3. CASE tr \in {"cancelled"} \X BOOLEAN
      BY <2>3
  <2> QED BY <2>1, <2>2, <2>3 DEF Troubles
<1> DEFINE ans == IF tr[1] # "cancelled" /\ backend = "mongo"
                     /\ MongoReportsPartly(op[c], found[c])
                  THEN "done" ELSE "raised"
<1>5. /\ Becomes(IF RollsBack(op[c]) THEN Closed(c, IF tr[2] THEN Effect(c, s, k) ELSE Database)
                 ELSE IF tr[2] THEN Effect(c, s, k) ELSE Database)
      /\ Returns(c, ans)
      /\ UNCHANGED <<backend, op, seen, found>>
    BY <1>3 DEF Aborts
<1>6. Turns(c, <<>>, ans) /\ Turned(c)
  <2>1. ans \in Answers
      BY DEF Answers
  <2> QED BY <1>1, <1>5, <2>1, ReturnsIs
<1>7. troubles' \in 0..MaxTroubles /\ troubles' # 0
  <2>1. troubles \in Nat /\ MaxTroubles \in Nat
      BY <1>1, PoolAssumption DEF Shape
  <2> QED BY <1>1, <2>1
<1>8. Frame(c)
  <2>1. /\ doubtful \subseteq doubtful' /\ doubtful' \subseteq Callers
        /\ \A d \in Callers \ {c} : d \in doubtful' <=> d \in doubtful
      BY <1>1, <1>3 DEF Shape
  <2> HIDE DEF ans
  <2> QED BY <1>1, <1>5, <1>6, <1>7, <2>1 DEF Frame, Turned, Shape
<1>9. /\ ans \in {"raised", "done"}
      /\ ans = "done" => backend = "mongo" /\ op[c].name = "failStaleRuns"
      /\ backend = "mongo" /\ op[c].name = "failStaleRuns" /\ found[c] # {}
           /\ c \notin doubtful' => ans = "done"
    BY <1>3, <1>4 DEF MongoReportsPartly
<1>10. tr[2] => c \in doubtful'
    BY <1>3, <1>4
<1>11. \/ Quiet /\ open' = open /\ ~RollsBack(op[c])
       \/ Drops(c) /\ open' = open \ {Conn(c)} /\ RollsBack(op[c])
       \/ /\ Commits(c) /\ open' = open \ {Conn(c)} /\ RollsBack(op[c]) /\ c \in doubtful'
          /\ s = "commit" /\ troubles' # 0
       \/ /\ ~RollsBack(op[c]) /\ c \in doubtful' /\ troubles' # 0
          /\ Acts(c, s, t, k)
  <2>0. s \in Statements
      BY <1>2 DEF Position
  <2> HIDE DEF ans, s, t
  <2>1. CASE RollsBack(op[c]) /\ tr[2]
    <3>1. Transactional
        BY <2>1 DEF RollsBack, Transactional
    <3>2. Becomes(Closed(c, Effect(c, s, k)))
        BY <1>5, <2>1
    <3>3. (IF s = "commit" THEN Commits(c) ELSE Drops(c)) /\ open' = open \ {Conn(c)}
        BY <2>0, <3>1, <3>2, StatementClosed
    <3> QED BY <1>7, <1>10, <2>1, <3>3
  <2>2. CASE RollsBack(op[c]) /\ ~tr[2]
    <3>1. Becomes(Closed(c, Database))
        BY <1>5, <2>2
    <3> QED BY <2>2, <3>1, ClosedDatabase
  <2>3. CASE ~RollsBack(op[c]) /\ tr[2]
    <3>1. Becomes(Effect(c, s, k))
        BY <1>5, <2>3
    <3>2. Does(c, s, k) /\ Opens(c, s)
        BY <2>0, <3>1, StatementDoes, StatementOpens DEF Opens
    <3>3. ~Blocked(c, s)
        BY <1>3, <2>3 DEF s
    <3>4. Acts(c, s, t, k)
        BY <1>1, <1>2, <3>2, <3>3 DEF Acts, s, t
    <3> QED BY <1>7, <1>10, <2>3, <3>4
  <2>4. CASE ~RollsBack(op[c]) /\ ~tr[2]
    <3>1. Becomes(Database)
        BY <1>5, <2>4
    <3> QED BY <2>4, <3>1 DEF Becomes, Database, Quiet
  <2> QED BY <2>1, <2>2, <2>3, <2>4
<1>12. \E a : /\ Turns(c, <<>>, a) /\ a \in {"raised", "done"}
              /\ a = "done" => backend = "mongo" /\ op[c].name = "failStaleRuns"
              /\ backend = "mongo" /\ op[c].name = "failStaleRuns" /\ found[c] # {}
                   /\ c \notin doubtful' => a = "done"
  <2> HIDE DEF ans
  <2> QED BY <1>6, <1>9
<1> HIDE DEF ans, s, t
<1>13. found' = found
    BY <1>5
<1>14. Fails(c)
    BY <1>1, <1>7, <1>11, <1>12, <1>13 DEF Fails, s
<1> QED BY <1>8, <1>14

\* SQLite gives up waiting.
LEMMA TimesOutFails ==
    ASSUME Base, NEW c \in Callers, TimesOut(c)
    PROVE  Fails(c) /\ Frame(c)
<1> DEFINE s == Head(script[c])
<1>1. /\ Running(c) /\ backend = "sqlite" /\ Rest(c, script[c]) /\ op[c] \in Calls[c]
      /\ backend \in Backends /\ Shape /\ Blocked(c, s) /\ Transactional
    BY DEF Base, Shape, Scripted, TimesOut, Running, Transactional
<1>2. Position(Transactional, s, Tail(script[c]))
    BY <1>1, Positions
<1>3. s \in Writes
    BY <1>1, <1>2 DEF Position, Blocked
<1>4. /\ Becomes(IF RollsBack(op[c]) THEN Closed(c, Database) ELSE Database)
      /\ Returns(c, "raised")
      /\ UNCHANGED <<backend, op, seen, found, troubles, doubtful>>
    BY DEF TimesOut, Aborts
<1>5. Turns(c, <<>>, "raised") /\ Turned(c)
  <2>1. "raised" \in Answers
      BY DEF Answers
  <2> QED BY <1>1, <1>4, <2>1, ReturnsIs
<1>6. Frame(c)
    BY <1>1, <1>4, <1>5 DEF Frame, Turned, Shape
<1>7. \/ Quiet /\ open' = open /\ ~RollsBack(op[c])
      \/ Drops(c) /\ open' = open \ {Conn(c)} /\ RollsBack(op[c])
  <2>1. CASE RollsBack(op[c])
      BY <1>4, <2>1, ClosedDatabase
  <2>2. CASE ~RollsBack(op[c])
      BY <1>4, <2>2 DEF Becomes, Database, Quiet
  <2> QED BY <2>1, <2>2
<1>8. \E a : /\ Turns(c, <<>>, a) /\ a \in {"raised", "done"}
             /\ a = "done" => backend = "mongo" /\ op[c].name = "failStaleRuns"
             /\ backend = "mongo" /\ op[c].name = "failStaleRuns" /\ found[c] # {}
                  /\ c \notin doubtful' => a = "done"
    BY <1>1, <1>5
<1> QED BY <1>1, <1>3, <1>4, <1>6, <1>7, <1>8 DEF Fails

\* Every step is one of these of some call.
LEMMA StepIs ==
    ASSUME Base, Next
    PROVE  \E c \in Callers : Frame(c) /\ (Begins(c) \/ Executes(c) \/ Fails(c))
BY StartBegins, ProceedExecutes, InMemoryExecutes, TroubleFails, TimesOutFails DEF Next

-----------------------------------------------------------------------------
(* What a step does to one row.                                            *)

\* A statement of c writes x to row k.
New(c, k, x) ==
    \E s, t, j :
        /\ Acts(c, s, t, j) /\ s \in Writes /\ ~Refused(c, s)
        /\ k \in DOMAIN Change(c, s, View(c), j) /\ x = Change(c, s, View(c), j)[k]

\* The committed row k is kept, written by c, or was written by it before.
\* What the connections have written to it is kept, forgotten or written by c.
CellStep(c, k) ==
    /\ \/ rows'[k] = rows[k]
       \/ /\ Transactional /\ k \in DOMAIN written[Conn(c)]
          /\ rows'[k] = written[Conn(c)][k]
          /\ Commits(c)
       \/ ~Transactional /\ New(c, k, rows'[k])
    /\ \A x \in Conns : k \in DOMAIN written'[x] =>
         \/ k \in DOMAIN written[x] /\ written'[x][k] = written[x][k]
         \/ Transactional /\ x = Conn(c) /\ New(c, k, written'[x][k]) /\ rows' = rows
    /\ \A x \in Conns \ {Conn(c)} : written'[x] = written[x]

\* What the database does in a step.
Data(c) ==
    \/ Quiet
    \/ Drops(c)
    \/ Commits(c) /\ Transactional
    \/ \E s, t, k : /\ Acts(c, s, t, k) /\ s \in Writes /\ ~Refused(c, s)
                    /\ Puts(c, Change(c, s, View(c), k))

\* A statement does one of these.
LEMMA ActsData ==
    ASSUME NEW c, NEW s, NEW t, NEW k, Acts(c, s, t, k)
    PROVE  Data(c)
<1>1. s \in Statements /\ (s = "commit" => Transactional) /\ Does(c, s, k)
    BY DEF Acts, Position
<1>2. CASE s = "commit"
    BY <1>1, <1>2 DEF Does, Data
<1>3. CASE s = "rollback"
    BY <1>1, <1>3 DEF Does, Data
<1>4. CASE s \in Reads
    BY <1>1, <1>4 DEF Does, Data
<1>5. CASE s \in Writes
    BY <1>1, <1>5 DEF Does, Data
<1> QED BY <1>1, <1>2, <1>3, <1>4, <1>5 DEF Statements

\* So does every step.
LEMMA StepData ==
    ASSUME NEW c, Begins(c) \/ Executes(c) \/ Fails(c)
    PROVE  Data(c)
<1>1. CASE Begins(c)
    BY <1>1 DEF Begins, Data
<1>2. CASE Executes(c)
    BY <1>2, ActsData DEF Executes
<1>3. CASE Fails(c)
  <2>1. Transactional \/ ~RollsBack(op[c])
      BY DEF RollsBack, Transactional
  <2> QED BY <1>3, <2>1, ActsData DEF Fails, Data
<1> QED BY <1>1, <1>2, <1>3

\* The transaction on its connection begins, ends or stays as it is.
OpenStep(c) == open' \in {open, open \ {Conn(c)}, Opened(c)}

\* Every step does one of these.
LEMMA StepOpens ==
    ASSUME NEW c, Begins(c) \/ Executes(c) \/ Fails(c)
    PROVE  OpenStep(c)
<1>1. ASSUME NEW s, NEW t, NEW k, Acts(c, s, t, k) PROVE OpenStep(c)
    BY <1>1 DEF Acts, Opens, OpenStep, Position, Statements
<1> QED BY <1>1 DEF Begins, Executes, Fails, OpenStep

\* Row by row.
LEMMA Cells ==
    ASSUME Shape, NEW c \in Callers, Data(c), NEW k \in Keys
    PROVE  CellStep(c, k)
<1>1. /\ Conn(c) \in Conns /\ DOMAIN written = Conns /\ DOMAIN Nothing = {}
      /\ DOMAIN rows = Keys
    BY ConnIs DEF Shape, Nothing
<1>2. CASE Quiet
    BY <1>1, <1>2 DEF Quiet, CellStep
<1>3. CASE Drops(c)
    BY <1>1, <1>3 DEF Drops, CellStep
<1>4. CASE Commits(c) /\ Transactional
  <2>1. rows'[k] = IF k \in DOMAIN written[Conn(c)] THEN written[Conn(c)][k] ELSE rows[k]
      BY <1>4, ViewIs DEF Commits
  <2> QED BY <1>1, <1>4, <2>1 DEF Commits, CellStep
<1>5. ASSUME NEW s, NEW t, NEW j, Acts(c, s, t, j), s \in Writes, ~Refused(c, s),
             Puts(c, Change(c, s, View(c), j))
      PROVE  CellStep(c, k)
  <2> DEFINE ch == Change(c, s, View(c), j)
             f == written[Conn(c)]
  <2>1. \A x : k \in DOMAIN ch /\ x = ch[k] => New(c, k, x)
      BY <1>5 DEF New
  <2> HIDE DEF ch
  <2>2. CASE Transactional
    <3>1. rows' = rows /\ written' = [written EXCEPT ![Conn(c)] = Overlay(ch, f)]
        BY <1>5, <2>2 DEF Puts, ch
    <3>2. /\ written'[Conn(c)] = Overlay(ch, f)
          /\ \A x \in Conns \ {Conn(c)} : written'[x] = written[x]
        BY <1>1, <3>1
    <3>3. ASSUME k \in DOMAIN written'[Conn(c)]
          PROVE  \/ k \in DOMAIN f /\ written'[Conn(c)][k] = f[k]
                 \/ New(c, k, written'[Conn(c)][k])
        BY <2>1, <3>2, <3>3 DEF Overlay
    <3> QED BY <2>2, <3>1, <3>2, <3>3 DEF CellStep
  <2>3. CASE ~Transactional
    <3>1. rows' = Overlay(ch, rows) /\ written' = written
        BY <1>5, <2>3 DEF Puts, ch
    <3>2. rows'[k] = rows[k] \/ New(c, k, rows'[k])
        BY <1>1, <2>1, <3>1 DEF Overlay
    <3> QED BY <2>3, <3>1, <3>2 DEF CellStep
  <2> QED BY <2>2, <2>3
<1> QED BY <1>2, <1>3, <1>4, <1>5 DEF Data

\* What a statement of c writes to a run.
NewRun(c, r, x) ==
    \E s, t, j :
        /\ Acts(c, s, t, j) /\ s \in Writes /\ ~Refused(c, s)
        /\ RunWrite(c, s, View(c), r, x)

\* What it writes to a run is one of these.
LEMMA NewRunIs ==
    ASSUME Shape, NEW c \in Callers, NEW r \in Runs, NEW x, New(c, r, x)
    PROVE  NewRun(c, r, x)
<1>1. r # Thread /\ op[c] \in Calls[c]
    BY KeysAssumption DEF Shape
<1>2. PICK s, t, j :
        /\ Acts(c, s, t, j) /\ s \in Writes /\ ~Refused(c, s)
        /\ r \in DOMAIN Change(c, s, View(c), j) /\ x = Change(c, s, View(c), j)[r]
    BY DEF New
<1>3. Fits(c, s)
    BY <1>2 DEF Acts
<1>4. RunWrite(c, s, View(c), r, x)
    BY <1>1, <1>2, <1>3, RunWrites
<1> QED BY <1>2, <1>4 DEF NewRun

\* The rows keep their types.
LEMMA ShapeStep ==
    ASSUME Shape, NEW c \in Callers, Frame(c), Data(c), OpenStep(c)
    PROVE  Shape'
<1>1. /\ DOMAIN written = Conns /\ DOMAIN rows = Keys /\ Conn(c) \in Conns
      /\ View(c) \in [Keys -> RowType]
    BY ConnIs, ViewIs DEF Shape
<1>2. ASSUME NEW k \in Keys, NEW x, New(c, k, x) PROVE x \in RowType
    BY <1>2, ChangeIs DEF New, Acts
<1> DEFINE Typed ==
      /\ DOMAIN written' = Conns
      /\ DOMAIN rows' = Keys /\ rows' = [k \in Keys |-> rows'[k]]
      /\ \A x \in Conns : DOMAIN written'[x] \subseteq Keys
      /\ \A x \in Conns : written'[x] = [k \in DOMAIN written'[x] |-> written'[x][k]]
      /\ ~Transactional => \A x \in Conns : written'[x] = Nothing
<1>3. Typed
  <2>1. DOMAIN Nothing \subseteq Keys /\ Nothing = [k \in DOMAIN Nothing |-> Nothing[k]]
      BY DEF Nothing
  <2>2. CASE Quiet
      BY <2>1, <2>2, <1>1 DEF Shape, Quiet
  <2>3. CASE Drops(c)
      BY <2>1, <2>3, <1>1 DEF Shape, Drops
  <2>4. CASE Commits(c) /\ Transactional
      BY <2>1, <2>4, <1>1 DEF Shape, Commits
  <2>5. ASSUME NEW s, NEW t, NEW j, Acts(c, s, t, j), s \in Writes, ~Refused(c, s),
               Puts(c, Change(c, s, View(c), j))
        PROVE  Typed
    <3> DEFINE ch == Change(c, s, View(c), j)
    <3>1. DOMAIN ch \subseteq Keys
        BY <2>5, ChangeIs DEF Acts
    <3> HIDE DEF ch
    <3>2. CASE Transactional
      <4>1. rows' = rows /\ written' = [written EXCEPT ![Conn(c)] = Overlay(ch, @)]
          BY <2>5, <3>2 DEF Puts, ch
      <4>2. DOMAIN Overlay(ch, written[Conn(c)]) \subseteq Keys
        <5>1. DOMAIN written[Conn(c)] \subseteq Keys
            BY <1>1 DEF Shape
        <5>2. DOMAIN Overlay(ch, written[Conn(c)]) = DOMAIN ch \cup DOMAIN written[Conn(c)]
            BY DEF Overlay
        <5> QED BY <3>1, <5>1, <5>2
      <4>3. Overlay(ch, written[Conn(c)]) =
              [k \in DOMAIN Overlay(ch, written[Conn(c)]) |-> Overlay(ch, written[Conn(c)])[k]]
          BY DEF Overlay
      <4> QED BY <1>1, <3>2, <4>1, <4>2, <4>3 DEF Shape
    <3>3. CASE ~Transactional
      <4>1. rows' = Overlay(ch, rows) /\ written' = written
          BY <2>5, <3>3 DEF Puts, ch
      <4>2. DOMAIN rows' = Keys
          BY <1>1, <3>1, <4>1, OverlayIs
      <4>3. rows' = [k \in DOMAIN rows' |-> rows'[k]]
          BY <4>1 DEF Overlay
      <4> QED BY <1>1, <3>3, <4>1, <4>2, <4>3 DEF Shape
    <3> QED BY <3>2, <3>3
  <2> QED BY <2>2, <2>3, <2>4, <2>5 DEF Data
<1>4. ASSUME NEW k \in Keys
      PROVE  /\ rows'[k] \in RowType
             /\ \A x \in Conns : k \in DOMAIN written'[x] => written'[x][k] \in RowType
  <2>1. CellStep(c, k)
      BY Cells
  <2> QED BY <1>1, <1>2, <2>1 DEF CellStep, Shape
<1>5. Transactional' = Transactional
    BY DEF Frame, Transactional
<1>6. open' \subseteq Workers
  <2>1. backend = "sqlite" => Conn(c) \in Workers
      BY HomeAssumption DEF Conn
  <2> QED BY <2>1 DEF OpenStep, Opened, Shape
<1> QED BY <1>3, <1>4, <1>5, <1>6 DEF Shape, Frame

\* Rests stay rests while nobody changes the backend or the calls.
LEMMA RestStays ==
    ASSUME backend' = backend, op' = op, NEW d
    PROVE  (Rest(d, script[d]))' <=> Rest(d, script'[d])
BY DEF Rest, SweepRest, Claims, Transactional

\* Scripts stay rests.
LEMMA ScriptedStep ==
    ASSUME Base, NEW c \in Callers, Frame(c), Begins(c) \/ Executes(c) \/ Fails(c)
    PROVE  Scripted'
<1> DEFINE Fine(d) ==
             /\ at[d] = "running" => backend # "memory" /\ Rest(d, script[d])
             /\ at[d] # "running" => script[d] = <<>>
             /\ at[d] = "waiting" => found[d] = {} /\ answer[d] = "none"
             /\ at[d] = "running" /\ op[d].name \in {"fetchRun", "listRuns"} => found[d] = {}
             /\ at[d] = "running" /\ op[d].name = "failStaleRuns" => answer[d] = "none"
           Next2(d) ==
             /\ at'[d] = "running" => backend # "memory" /\ Rest(d, script'[d])
             /\ at'[d] # "running" => script'[d] = <<>>
             /\ at'[d] = "waiting" => found'[d] = {} /\ answer'[d] = "none"
             /\ at'[d] = "running" /\ op[d].name \in {"fetchRun", "listRuns"} => found'[d] = {}
             /\ at'[d] = "running" /\ op[d].name = "failStaleRuns" => answer'[d] = "none"
<1>1. backend' = backend /\ op' = op
    BY DEF Frame
<1>2. \A d \in Callers : Fine(d)
    BY DEF Base, Scripted, Running
<1>3. \A d \in Callers \ {c} : Next2(d)
    BY <1>2 DEF Frame
<1>4. Next2(c)
  <2>1. CASE Begins(c)
    <3>1. PICK rest : /\ Turns(c, rest, "none")
                      /\ \/ rest = <<>> /\ op[c].name = "updateThread"
                         \/ Rest(c, rest) /\ rest = Script(op[c])
        BY <2>1 DEF Begins
    <3>2. found' = found /\ at[c] = "waiting" /\ backend # "memory"
        BY <2>1 DEF Begins
    <3> QED BY <1>2, <3>1, <3>2 DEF Turns
  <2>2. CASE Executes(c)
    <3>1. PICK s, t, k, rest, ans :
            /\ Acts(c, s, t, k)
            /\ Leads(c, s, t, k, rest, ans)
            /\ Turns(c, rest, ans)
            /\ found'[c] = Learns(c, s, View(c), k)
        BY <2>2 DEF Executes
    <3>2. /\ at'[c] # "waiting" /\ (at'[c] # "running" => script'[c] = <<>>)
          /\ at'[c] = "running" => rest # <<>> /\ script'[c] = rest /\ answer'[c] = ans
        BY <3>1 DEF Turns
    <3>3. ASSUME at'[c] = "running" PROVE backend # "memory" /\ Rest(c, rest) /\ Running(c)
        BY <3>1, <3>2, <3>3 DEF Leads, Acts
    <3>4. Fits(c, s) /\ Position(Transactional, s, t)
        BY <3>1 DEF Acts
    <3>5. ASSUME at'[c] = "running" PROVE op[c].name \notin {"fetchRun", "listRuns"}
      <4>1. op[c].name \in {"fetchRun", "listRuns"} => s \in {"readRun", "readRuns"}
          BY <3>4 DEF Fits, Belongs
      <4>2. s \in {"readRun", "readRuns"} => rest = <<>>
          BY <3>1, <3>4 DEF Leads, Position, Reads, Refused, Conflicts, Dangles
      <4> QED BY <3>2, <3>5, <4>1, <4>2
    <3>6. ASSUME at'[c] = "running", op[c].name = "failStaleRuns" PROVE answer'[c] = "none"
      <4>1. s \in {"scan", "claim", "failStale", "commit"}
          BY <3>4, <3>6 DEF Fits, Belongs
      <4>2. ans = answer[c]
          BY <3>1, <4>1 DEF Leads, Refused, Conflicts, Dangles, Answer
      <4> QED BY <1>2, <3>2, <3>3, <3>6, <4>2 DEF Running
    <3> QED BY <3>2, <3>3, <3>5, <3>6
  <2>3. CASE Fails(c)
      BY <2>3 DEF Fails, Turns
  <2> QED BY <2>1, <2>2, <2>3
<1>5. \A d \in Callers : Next2(d)
    BY <1>3, <1>4
<1>6. ASSUME NEW d \in Callers
      PROVE  /\ Running(d)' <=> at'[d] = "running"
             /\ Rest(d, script[d])' <=> Rest(d, script'[d])
             /\ op'[d] = op[d] /\ backend' = backend
    BY <1>1, RestStays DEF Running
<1> HIDE DEF Fine
<1> QED BY <1>5, <1>6 DEF Scripted

\* Types and scripts are right in the beginning.
LEMMA BaseInit == ASSUME Init PROVE Base
<1>1. rows \in FirstRows /\ rows \in [Keys -> RowType]
    BY FirstRowsAssumption DEF Init
<1>2. \A x \in Conns : written[x] = Nothing
    BY DEF Init
<1>3. DOMAIN Nothing = {} /\ Nothing = [k \in DOMAIN Nothing |-> Nothing[k]]
    BY DEF Nothing
<1>4. 0 \in 0..MaxTroubles
    BY PoolAssumption
<1>5. Shape
    BY <1>1, <1>2, <1>3, <1>4 DEF Init, Shape, Answers
<1>6. Scripted
    BY DEF Init, Scripted, Running
<1> QED BY <1>5, <1>6 DEF Base

\* Every step keeps them right.
LEMMA BaseStep == ASSUME Base, [Next]_vars PROVE Base'
<1>1. CASE Next
  <2>1. PICK c \in Callers : Frame(c) /\ (Begins(c) \/ Executes(c) \/ Fails(c))
      BY <1>1, StepIs
  <2>2. Data(c) /\ OpenStep(c)
      BY <2>1, StepData, StepOpens
  <2>3. Shape'
      BY <2>1, <2>2, ShapeStep DEF Base
  <2>4. Scripted'
      BY <2>1, ScriptedStep
  <2> QED BY <2>3, <2>4 DEF Base
<1>2. CASE UNCHANGED vars
    BY <1>2 DEF vars, callVars, Base, Shape, Scripted, Running, Rest, SweepRest, Claims,
       Transactional
<1> QED BY <1>1, <1>2

\* Types and scripts are always right.
LEMMA BaseInvariant == Spec => []Base
BY BaseInit, BaseStep, PTL DEF Spec

-----------------------------------------------------------------------------
(* Locks: a row that a transaction has written is no other's to write.     *)

Exclusive ==
    \A x, y \in Conns : \A k \in DOMAIN written[x] : k \in DOMAIN written[y] => x = y

SqliteLocked ==
    /\ \A x \in Conns : x \notin open => written[x] = Nothing
    /\ \A x, y \in open : x = y
    /\ \A c, d \in Callers : Running(c) /\ Running(d) /\ Home[c] = Home[d] => c = d

PostgresLocked ==
    /\ \A x \in Workers : written[x] = Nothing
    /\ \A c \in Callers : written[c] # Nothing =>
         Running(c) /\ script[c] \in {<<"commit">>, <<"deleteThread", "commit">>}

Locked ==
    /\ Exclusive
    /\ backend = "sqlite" => SqliteLocked
    /\ backend = "postgres" => PostgresLocked

\* The statement that a Postgres call executes knows its rows beforehand.
LEMMA LocksWhatItChanges ==
    ASSUME Base, PostgresLocked, backend = "postgres", NEW c \in Callers,
           NEW s \in Writes, NEW t, NEW j, Acts(c, s, t, j),
           NEW k \in DOMAIN Change(c, s, View(c), j)
    PROVE  k \in Locks(c, s)
<1>1. /\ Running(c) /\ s = Head(script[c]) /\ Rest(c, script[c]) /\ Fits(c, s)
      /\ Conn(c) = c /\ c \in Conns /\ Shape
    BY DEF Base, Scripted, Acts, Conn, Conns
<1>2. s # "claim"
  <2>1. op[c].name = "failStaleRuns" => script[c] \in {<<"failStale", "commit">>, <<"commit">>}
      BY <1>1 DEF Rest, SweepRest
  <2> QED BY <1>1, <2>1, One, Two DEF Fits, Belongs
<1>3. CASE written[c] # Nothing
  <2>1. s = "deleteThread"
      BY <1>1, <1>3, One, Two DEF PostgresLocked, Writes
  <2>2. k \in Keys
      BY <1>1, ChangeIs
  <2> QED BY <2>1, <2>2 DEF Locks
<1>4. CASE written[c] = Nothing
  <2>1. View(c) = rows
      BY <1>1, <1>4, ViewIs
  <2>2. Change(c, s, rows, j) = Change(c, s, rows, op[c].run)
      BY <1>2 DEF Change
  <2>3. k \in DOMAIN Change(c, s, rows, op[c].run)
      BY <2>1, <2>2
  <2>4. CASE s = "insertThread"
      BY <2>3, <2>4 DEF Locks, Change
  <2>5. CASE s = "insertRun"
      BY <2>3, <2>5 DEF Locks, Change
  <2>6. CASE s = "deleteThread"
      BY <1>1, <2>6, ChangeIs DEF Locks
  <2>7. CASE s \notin {"insertThread", "insertRun", "deleteThread"}
      BY <2>3, <2>7 DEF Locks
  <2> QED BY <2>4, <2>5, <2>6, <2>7
<1> QED BY <1>3, <1>4

Alone(c, k) == \A x \in Conns \ {Conn(c)} : k \notin DOMAIN written[x]

\* A statement that need not wait writes rows that no other transaction has
\* written.
LEMMA WritesAlone ==
    ASSUME Base, Locked, NEW c \in Callers, NEW k, NEW x, New(c, k, x)
    PROVE  Alone(c, k)
<1>1. PICK s, t, j :
        /\ Acts(c, s, t, j) /\ s \in Writes /\ ~Refused(c, s)
        /\ k \in DOMAIN Change(c, s, View(c), j) /\ x = Change(c, s, View(c), j)[k]
    BY DEF New
<1>2. ~Blocked(c, s) /\ DOMAIN Nothing = {} /\ backend \in Backends
    BY <1>1 DEF Acts, Nothing, Base, Shape
<1>3. CASE backend = "sqlite"
  <2>1. open \ {Home[c]} = {} /\ Conn(c) = Home[c]
      BY <1>1, <1>2, <1>3 DEF Blocked, Conn
  <2> QED BY <1>2, <1>3, <2>1 DEF Locked, SqliteLocked, Alone
<1>4. CASE backend = "postgres"
  <2>1. \A d \in Callers \ {c} : Locks(c, s) \cap DOMAIN written[d] = {}
      BY <1>1, <1>2, <1>4 DEF Blocked
  <2>2. k \in Locks(c, s)
      BY <1>1, <1>4, LocksWhatItChanges DEF Locked
  <2>3. Conn(c) = c
      BY <1>4 DEF Conn
  <2> QED BY <1>2, <1>4, <2>1, <2>2, <2>3 DEF Locked, PostgresLocked, Alone, Conns
<1>5. CASE ~Transactional
    BY <1>2, <1>5 DEF Base, Shape, Alone
<1> QED BY <1>3, <1>4, <1>5 DEF Transactional

\* No two transactions come to have written the same row.
LEMMA ExclusiveStep ==
    ASSUME Base, Locked, NEW c \in Callers, Data(c), Shape'
    PROVE  Exclusive'
<1> SUFFICES ASSUME NEW x \in Conns, NEW y \in Conns, NEW k \in DOMAIN written'[x],
                    k \in DOMAIN written'[y]
             PROVE  x = y
    BY DEF Exclusive
<1>1. k \in Keys
    BY DEF Shape
<1>2. CellStep(c, k)
    BY <1>1, Cells DEF Base
<1>3. ASSUME NEW z \in Conns, k \in DOMAIN written'[z]
      PROVE  k \in DOMAIN written[z] \/ (z = Conn(c) /\ Alone(c, k))
    BY <1>2, <1>3, WritesAlone DEF CellStep
<1>4. k \in DOMAIN written[x] \/ (x = Conn(c) /\ Alone(c, k))
    BY <1>3
<1>5. k \in DOMAIN written[y] \/ (y = Conn(c) /\ Alone(c, k))
    BY <1>3
<1> QED BY <1>4, <1>5 DEF Locked, Exclusive, Alone

\* What a connection that had written nothing has written afterwards.
LEMMA StillNothing ==
    ASSUME Shape, NEW c \in Callers, Data(c), NEW x \in Conns, written[x] = Nothing,
           \/ x # Conn(c)
           \/ Quiet
           \/ Drops(c)
           \/ Commits(c)
    PROVE  written'[x] = Nothing
<1>1. DOMAIN written = Conns /\ Conn(c) \in Conns
    BY ConnIs DEF Shape
<1>2. x # Conn(c) => written'[x] = written[x]
  <2>1. Thread \in Keys
      BY DEF Keys
  <2> QED BY <2>1, Cells DEF CellStep
<1> QED BY <1>1, <1>2 DEF Quiet, Drops, Commits

\* A connection closed.
LEMMA ClosedIsNothing ==
    ASSUME Shape, NEW c \in Callers, Drops(c) \/ Commits(c)
    PROVE  written'[Conn(c)] = Nothing
BY ConnIs DEF Shape, Drops, Commits

\* SQLite: the file has one writer, and a process lends its connection to one
\* call at a time.
LEMMA SqliteStep ==
    ASSUME Base, Locked, backend = "sqlite", NEW c \in Callers, Frame(c),
           Begins(c) \/ Executes(c) \/ Fails(c)
    PROVE  SqliteLocked'
<1>1. /\ SqliteLocked /\ Shape /\ Data(c) /\ Conn(c) = Home[c] /\ Conn(c) \in Conns
      /\ DOMAIN written = Conns /\ Transactional
    BY StepData, ConnIs DEF Locked, Base, Shape, Conn, Transactional
<1>2. \A x \in Conns \ {Conn(c)} : written'[x] = written[x]
  <2>1. Thread \in Keys
      BY DEF Keys
  <2> QED BY <1>1, <2>1, Cells DEF CellStep
<1> DEFINE Fine ==
             \/ open' = open /\ Quiet
             \/ open' = open \ {Conn(c)} /\ (Drops(c) \/ Commits(c))
             \/ open' = open \cup {Conn(c)} /\ open \ {Conn(c)} = {}
<1>3. ASSUME NEW s, NEW t, NEW j, Acts(c, s, t, j) PROVE Fine
  <2>1. s \in Statements /\ Does(c, s, j) /\ Opens(c, s) /\ ~Blocked(c, s)
      BY <1>3 DEF Acts, Position
  <2>2. CASE s \in Writes
      BY <1>1, <2>1, <2>2 DEF Opens, Opened, Blocked
  <2>3. CASE s \in Reads
      BY <2>1, <2>3 DEF Opens, Does
  <2>4. CASE s = "commit"
      BY <2>1, <2>4 DEF Opens, Does
  <2>5. CASE s = "rollback"
      BY <2>1, <2>5 DEF Opens, Does
  <2> QED BY <2>1, <2>2, <2>3, <2>4, <2>5 DEF Statements
<1>4. Fine
  <2>1. CASE Begins(c)
      BY <2>1 DEF Begins
  <2>2. CASE Executes(c)
      BY <1>3, <2>2 DEF Executes
  <2>3. CASE Fails(c)
      BY <1>3, <2>3 DEF Fails
  <2> QED BY <2>1, <2>2, <2>3
<1>5. \A x \in Conns : x \notin open' => written'[x] = Nothing
  <2> SUFFICES ASSUME NEW x \in Conns, x \notin open' PROVE written'[x] = Nothing
      OBVIOUS
  <2>1. CASE x # Conn(c)
    <3>1. x \notin open
        BY <1>4, <2>1
    <3> QED BY <1>1, <1>2, <2>1, <3>1 DEF SqliteLocked
  <2>2. CASE x = Conn(c)
    <3>1. CASE open' = open /\ Quiet
        BY <1>1, <3>1 DEF Quiet, SqliteLocked
    <3>2. CASE Drops(c) \/ Commits(c)
        BY <1>1, <2>2, <3>2, ClosedIsNothing
    <3> QED BY <1>4, <2>2, <3>1, <3>2
  <2> QED BY <2>1, <2>2
<1>6. \A x, y \in open' : x = y
    BY <1>1, <1>4 DEF SqliteLocked
<1>7. ASSUME NEW d \in Callers, NEW e \in Callers, at'[d] = "running", at'[e] = "running",
             Home[d] = Home[e]
      PROVE  d = e
  <2>1. ASSUME Begins(c), NEW b \in Callers, Running(b) PROVE Home[b] # Home[c]
    <3> DEFINE busy == {b2 \in Callers : Home[b2] = Home[c] /\ at[b2] = "running"}
    <3>1. Cardinality(busy) < 1
        BY <1>1, <2>1 DEF Begins, HasFreeConnection
    <3>2. IsFiniteSet(busy)
        BY HomeAssumption, FS_Subset
    <3>3. busy = {}
        BY <3>1, <3>2, FS_CardinalityType, FS_EmptySet
    <3> QED BY <2>1, <3>3 DEF Running
  <2>2. \A b \in Callers \ {c} : at'[b] = "running" => Running(b)
      BY DEF Frame, Running
  <2>3. CASE Begins(c)
      BY <1>1, <1>7, <2>1, <2>2, <2>3 DEF SqliteLocked
  <2>4. CASE Executes(c) \/ Fails(c)
    <3>1. Running(c)
        BY <2>4 DEF Executes, Fails, Acts
    <3> QED BY <1>1, <1>7, <2>2, <3>1 DEF SqliteLocked
  <2> QED BY <2>3, <2>4
<1> QED BY <1>5, <1>6, <1>7 DEF SqliteLocked, Running

\* Postgres: a call has written only when it has its last write or its commit
\* to do.
LEMMA PostgresStep ==
    ASSUME Base, Locked, backend = "postgres", NEW c \in Callers, Frame(c),
           Begins(c) \/ Executes(c) \/ Fails(c)
    PROVE  PostgresLocked'
<1>1. /\ PostgresLocked /\ Shape /\ Scripted /\ Data(c) /\ Conn(c) = c /\ c \in Conns
      /\ Transactional /\ c \notin Workers
    BY StepData, HomeAssumption DEF Locked, Base, Conn, Conns, Transactional
<1>2. \A x \in Conns \ {c} : written'[x] = written[x]
  <2>1. Thread \in Keys
      BY DEF Keys
  <2> QED BY <1>1, <2>1, Cells DEF CellStep
<1> DEFINE Late(q) == q \in {<<"commit">>, <<"deleteThread", "commit">>}
<1>3. written'[c] # Nothing => at'[c] = "running" /\ Late(script'[c])
  <2>1. CASE Begins(c)
    <3>1. written[c] = Nothing /\ Quiet
        BY <1>1, <2>1 DEF Begins, PostgresLocked, Running
    <3> QED BY <1>1, <3>1, StillNothing
  <2>2. CASE Executes(c)
    <3>1. PICK s, t, k, rest, ans :
            Acts(c, s, t, k) /\ Leads(c, s, t, k, rest, ans) /\ Turns(c, rest, ans)
        BY <2>2 DEF Executes
    <3>2. /\ Running(c) /\ s = Head(script[c]) /\ Fits(c, s) /\ Position(TRUE, s, t)
          /\ Does(c, s, k) /\ s \in Statements /\ Rest(c, script[c])
        BY <1>1, <3>1 DEF Acts, Position, Scripted
    <3>3. s \in Reads \cup {"insertThread", "insertRun"} => written[c] = Nothing
        BY <1>1, <3>2, One, Two DEF PostgresLocked, Reads
    <3>4. CASE s \in {"commit", "rollback"}
        BY <1>1, <3>2, <3>4, ClosedIsNothing DEF Does
    <3>5. CASE s \in Reads
        BY <1>1, <3>2, <3>3, <3>5, StillNothing DEF Does
    <3>6. CASE s \in Writes /\ Refused(c, s)
      <4>1. s \in {"insertThread", "insertRun"} /\ Quiet
          BY <3>2, <3>6 DEF Refused, Conflicts, Dangles, Does
      <4> QED BY <1>1, <3>3, <4>1, StillNothing
    <3>7. CASE s \in Writes /\ ~Refused(c, s)
      <4>1. s # "claim"
        <5>1. op[c].name = "failStaleRuns" =>
                script[c] \in {<<"failStale", "commit">>, <<"commit">>}
            BY <1>1, <3>2 DEF Rest, SweepRest
        <5> QED BY <3>2, <5>1, One, Two DEF Fits, Belongs
      <4>2. Late(t)
          BY <3>2, <3>7, <4>1 DEF Position
      <4>3. rest = t
          BY <3>1, <3>7 DEF Leads, Writes
      <4> QED BY <3>1, <4>2, <4>3, One, Two DEF Turns
    <3> QED BY <3>2, <3>4, <3>5, <3>6, <3>7 DEF Statements
  <2>3. CASE Fails(c)
    <3>1. RollsBack(op[c])
        BY DEF RollsBack, PostgresRollsBack
    <3>2. Drops(c) \/ Commits(c)
        BY <2>3, <3>1 DEF Fails
    <3> QED BY <1>1, <3>2, ClosedIsNothing
  <2> QED BY <2>1, <2>2, <2>3
<1>4. \A x \in Workers : written'[x] = Nothing
    BY <1>1, <1>2 DEF PostgresLocked, Conns
<1>5. ASSUME NEW d \in Callers, written'[d] # Nothing
      PROVE  at'[d] = "running" /\ Late(script'[d])
  <2>1. CASE d = c
      BY <1>3, <1>5, <2>1
  <2>2. CASE d # c
      BY <1>1, <1>2, <1>5, <2>2 DEF PostgresLocked, Frame, Conns, Running
  <2> QED BY <2>1, <2>2
<1> QED BY <1>4, <1>5 DEF PostgresLocked, Running

\* Locks are respected in the beginning.
LEMMA LockedInit == ASSUME Init PROVE Locked
<1>1. \A x \in Conns : written[x] = Nothing /\ DOMAIN written[x] = {}
    BY DEF Init, Nothing
<1>2. open = {} /\ \A c \in Callers : ~Running(c)
    BY DEF Init, Running
<1> QED BY <1>1, <1>2 DEF Locked, Exclusive, SqliteLocked, PostgresLocked, Conns

\* Every step respects them.
LEMMA LockedStep == ASSUME Base, Locked, [Next]_vars PROVE Locked'
<1>1. CASE Next
  <2>1. PICK c \in Callers : Frame(c) /\ (Begins(c) \/ Executes(c) \/ Fails(c))
      BY <1>1, StepIs
  <2>2. Data(c) /\ Shape' /\ backend' = backend
      BY <1>1, <2>1, StepData, BaseStep DEF Base, Frame
  <2>3. Exclusive'
      BY <2>2, ExclusiveStep
  <2>4. backend = "sqlite" => SqliteLocked'
      BY <2>1, SqliteStep
  <2>5. backend = "postgres" => PostgresLocked'
      BY <2>1, PostgresStep
  <2> QED BY <2>2, <2>3, <2>4, <2>5 DEF Locked
<1>2. CASE UNCHANGED vars
    BY <1>2 DEF vars, callVars, Locked, Exclusive, SqliteLocked, PostgresLocked, Running
<1> QED BY <1>1, <1>2

\* Locks are always respected.
LEMMA LockedInvariant == Spec => [](Base /\ Locked)
<1>1. Spec => []Base
    BY BaseInvariant
<1>2. Base /\ Locked /\ [Next]_vars => Locked'
    BY LockedStep
<1>3. Init => Locked
    BY LockedInit
<1> QED BY <1>1, <1>2, <1>3, PTL DEF Spec

-----------------------------------------------------------------------------
(* Types.                                                                  *)

\* A script has statements only.
LEMMA RestTyped ==
    ASSUME Base, NEW c \in Callers, NEW i \in DOMAIN script[c]
    PROVE  script[c][i] \in Statements
<1> DEFINE q == script[c]
<1>1. Running(c) /\ Rest(c, q) /\ op[c].name \in Operations
    BY CallsAssumption DEF Base, Scripted, Shape
<1>2. CASE op[c].name = "failStaleRuns"
  <2>1. CASE Claims(q)
      BY <2>1 DEF Claims, Statements, Writes
  <2>2. CASE q \in {<<"scan", "commit">>, <<"scan">>, <<"failStale", "commit">>, <<"commit">>}
      BY <2>2 DEF Statements, Writes, Reads
  <2> QED BY <1>1, <1>2, <2>1, <2>2 DEF Rest, SweepRest
<1>3. CASE op[c].name # "failStaleRuns"
  <2>1. CASE q \in SqlRests(op[c].name)
    <3>1. ASSUME NEW a \in Statements, q = <<a>> PROVE q[i] \in Statements
        BY <3>1
    <3>2. ASSUME NEW a \in Statements, NEW b \in Statements, q = <<a, b>>
          PROVE  q[i] \in Statements
        BY <3>2
    <3>3. ASSUME NEW a \in Statements, NEW b \in Statements, NEW d \in Statements,
                 q = <<a, b, d>>
          PROVE  q[i] \in Statements
        BY <3>3
    <3> QED BY <1>1, <1>3, <2>1, <3>1, <3>2, <3>3
           DEF SqlRests, Operations, Statements, Writes, Reads
  <2>2. CASE q \in MongoRests(op[c].name)
      BY <1>1, <1>3, <2>2 DEF MongoRests, Operations, Statements, Writes, Reads
  <2> QED BY <1>1, <1>3, <2>1, <2>2 DEF Rest
<1> QED BY <1>2, <1>3

\* The types are right; in particular a call that does not run has no
\* statement left and no open transaction of its own.
THEOREM TypesAreRight == Spec => []TypeOK
<1>1. Base /\ Locked => TypeOK
  <2> SUFFICES ASSUME Base, Locked PROVE TypeOK
      OBVIOUS
  <2>1. Shape /\ Scripted
      BY DEF Base
  <2>2. \A c \in Callers : \A i \in DOMAIN script[c] : script[c][i] \in Statements
      BY RestTyped
  <2>3. ASSUME NEW c \in Callers, at[c] # "running"
        PROVE  script[c] = <<>> /\ written[c] = Nothing
    <3>1. script[c] = <<>> /\ ~Running(c) /\ c \in Conns /\ c \notin Workers
        BY <2>1, <2>3, HomeAssumption DEF Scripted, Running, Conns
    <3>2. backend = "sqlite" => written[c] = Nothing
        BY <2>1, <3>1 DEF Locked, SqliteLocked, Shape
    <3>3. backend = "postgres" => written[c] = Nothing
        BY <3>1 DEF Locked, PostgresLocked
    <3>4. ~Transactional => written[c] = Nothing
        BY <2>1, <3>1 DEF Shape
    <3> QED BY <3>1, <3>2, <3>3, <3>4 DEF Transactional
  <2>4. \A k \in Conns : DOMAIN written[k] \subseteq Keys
      BY <2>1 DEF Shape
  <2> QED BY <2>1, <2>2, <2>3, <2>4 DEF Shape, TypeOK
<1> QED BY <1>1, LockedInvariant, PTL

-----------------------------------------------------------------------------
(* Runs: created once, and never back in flight once they ended.           *)

\* The create of run r is still to be executed.
Ahead(c, r) ==
    /\ op[c].name = "createRun" /\ op[c].run = r
    /\ at[c] = "waiting" \/ (Running(c) /\ Head(script[c]) = "insertRun")

\* Only runs in flight miss heartbeats.
Values ==
    /\ \A k \in Keys : rows[k].stale => k \in Runs /\ rows[k].status \in InFlight
    /\ \A x \in Conns : \A k \in DOMAIN written[x] : ~written[x][k].stale

Fresh ==
    /\ \A c, d \in Callers :
         op[c].name = "createRun" /\ op[d].name = "createRun" /\ op[c].run = op[d].run => c = d
    /\ \A c \in Callers, r \in Runs : Ahead(c, r) =>
         /\ rows[r] = Absent
         /\ \A x \in Conns : r \in DOMAIN written[x] => written[x][r] = Absent

\* What the transactions in progress may have done to a run that ended.
Follows ==
    \A r \in Runs : rows[r].status \in Ended =>
        \A x \in Conns : r \in DOMAIN written[x] => written[x][r] \in {rows[r], Absent}

History == Values /\ Fresh /\ Follows

\* Nobody comes to be about to create a run.
LEMMA AheadStep ==
    ASSUME Base, NEW c \in Callers, Frame(c), Begins(c) \/ Executes(c) \/ Fails(c),
           NEW d \in Callers, NEW r, Ahead(d, r)'
    PROVE  Ahead(d, r) /\ (d = c => Begins(c))
<1>1. op'[d] = op[d]
    BY DEF Frame
<1>2. CASE d # c
    BY <1>1, <1>2 DEF Ahead, Frame, Running
<1>3. CASE d = c
  <2>1. CASE Begins(c)
      BY <1>1, <1>3, <2>1 DEF Ahead, Begins
  <2>2. CASE Executes(c)
    <3>1. PICK s, t, k, rest, ans :
            Acts(c, s, t, k) /\ Leads(c, s, t, k, rest, ans) /\ Turns(c, rest, ans)
        BY <2>2 DEF Executes
    <3>2. op[c].name = "createRun" /\ rest # <<>> /\ Head(rest) = "insertRun"
        BY <1>1, <1>3, <3>1 DEF Ahead, Turns, Running
    <3>3. Fits(c, s) /\ Position(Transactional, s, t)
        BY <3>1 DEF Acts
    <3>4. s # "insertThread" /\ s # "scan"
        BY <3>2, <3>3 DEF Fits, Belongs
    <3>5. ~Dangles(c, s, View(c)) /\ ~Conflicts(c, s, View(c))
        BY <3>1, <3>2, <3>4 DEF Leads, Conflicts
    <3>6. rest = t
        BY <3>1, <3>4, <3>5 DEF Leads, Refused
    <3> QED BY <3>2, <3>3, <3>6 DEF Position
  <2>3. CASE Fails(c)
      BY <1>3, <2>3 DEF Ahead, Fails, Turns, Running
  <2> QED BY <2>1, <2>2, <2>3
<1> QED BY <1>2, <1>3

\* The caller of an insert was about to create the run.
LEMMA InsertIsAhead ==
    ASSUME Shape, NEW c \in Callers, NEW t, NEW k, Acts(c, "insertRun", t, k)
    PROVE  Ahead(c, op[c].run) /\ op[c].run \in Runs
<1>1. op[c].name = "createRun"
    BY DEF Acts, Fits, Belongs
<1> QED BY <1>1, CallsAssumption DEF Acts, Ahead, Running, Shape

\* What a statement writes to a run, as far as the run's history is concerned.
LEMMA NewRunHistory ==
    ASSUME Base, NEW c \in Callers, NEW r \in Runs, NEW x, New(c, r, x)
    PROVE  /\ x.stale = FALSE
           /\ x = Absent \/ Ahead(c, r) \/ r \in Moving(View(c))
<1>1. NewRun(c, r, x)
    BY NewRunIs DEF Base
<1>2. x.stale = FALSE
    BY <1>1 DEF NewRun, RunWrite, Row, Absent
<1>3. x = Absent \/ Ahead(c, r) \/ r \in Moving(View(c))
    BY <1>1, InsertIsAhead DEF NewRun, RunWrite, Base
<1> QED BY <1>2, <1>3

\* Fresh, step by step.
LEMMA FreshStep ==
    ASSUME Base, Locked, Fresh, NEW c \in Callers, Frame(c),
           Begins(c) \/ Executes(c) \/ Fails(c)
    PROVE  Fresh'
<1>1. Data(c) /\ op' = op /\ Conn(c) \in Conns
    BY StepData, ConnIs DEF Frame
<1>2. ASSUME NEW d \in Callers, NEW r \in Runs, Ahead(d, r)'
      PROVE  /\ rows'[r] = Absent
             /\ \A x \in Conns : r \in DOMAIN written'[x] => written'[x][r] = Absent
  <2>1. Ahead(d, r) /\ (d = c => Begins(c))
      BY <1>2, AheadStep
  <2>2. /\ rows[r] = Absent
        /\ \A x \in Conns : r \in DOMAIN written[x] => written[x][r] = Absent
      BY <2>1 DEF Fresh
  <2>3. CASE d = c
      BY <2>1, <2>2, <2>3 DEF Begins, Quiet
  <2>4. CASE d # c
    <3>1. ~Ahead(c, r)
        BY <2>1, <2>4 DEF Fresh, Ahead
    <3>2. r \in Keys /\ View(c)[r] = Absent
        BY <1>1, <2>2, ViewIs DEF Base, Keys
    <3>3. ASSUME NEW x, New(c, r, x) PROVE x = Absent
      <4>1. r \notin Moving(View(c))
          BY <3>2 DEF Moving, Absent, Row, InFlight
      <4> QED BY <3>1, <3>3, <4>1, NewRunHistory
    <3>4. CellStep(c, r)
        BY <1>1, <3>2, Cells DEF Base
    <3> QED BY <1>1, <2>2, <3>3, <3>4 DEF CellStep
  <2> QED BY <2>3, <2>4
<1> QED BY <1>1, <1>2 DEF Fresh

\* Values, step by step.
LEMMA ValuesStep ==
    ASSUME Base, Values, NEW c \in Callers, Data(c), Shape'
    PROVE  Values'
<1>1. Conn(c) \in Conns
    BY ConnIs
<1>2. ASSUME NEW k \in Keys, NEW x, New(c, k, x) PROVE ~x.stale
    BY <1>2, ChangeIs DEF New, Acts, Base
<1>3. ASSUME NEW k \in Keys
      PROVE  /\ rows'[k].stale => k \in Runs /\ rows'[k].status \in InFlight
             /\ \A x \in Conns : k \in DOMAIN written'[x] => ~written'[x][k].stale
  <2>1. CellStep(c, k)
      BY Cells DEF Base
  <2> QED BY <1>1, <1>2, <2>1 DEF CellStep, Values
<1> QED BY <1>3 DEF Values, Shape

\* Follows, step by step.
LEMMA FollowsStep ==
    ASSUME Base, Locked, History, NEW c \in Callers, Data(c), Shape'
    PROVE  Follows'
<1> SUFFICES ASSUME NEW r \in Runs, rows'[r].status \in Ended, NEW x \in Conns,
                    r \in DOMAIN written'[x]
             PROVE  written'[x][r] \in {rows'[r], Absent}
    BY DEF Follows
<1>1. CellStep(c, r) /\ r \in Keys /\ Conn(c) \in Conns
    BY Cells, ConnIs DEF Base, Keys
<1>2. CASE r \in DOMAIN written[x] /\ written'[x][r] = written[x][r]
  <2>1. CASE rows'[r] = rows[r]
      BY <1>2, <2>1 DEF History, Follows
  <2>2. CASE Transactional /\ r \in DOMAIN written[Conn(c)] /\ Commits(c)
    <3>1. x = Conn(c)
        BY <1>1, <1>2, <2>2 DEF Locked, Exclusive
    <3>2. written'[x] = Nothing
        BY <2>2, <3>1, ClosedIsNothing DEF Base
    <3> QED BY <3>2 DEF Nothing
  <2>3. CASE ~Transactional
      BY <1>2, <2>3 DEF Base, Shape, Nothing
  <2> QED BY <1>1, <2>1, <2>2, <2>3 DEF CellStep
<1>3. CASE Transactional /\ x = Conn(c) /\ New(c, r, written'[x][r]) /\ rows' = rows
  <2>1. View(c)[r] \in {rows[r], Absent}
      BY <1>1, <1>3, ViewIs DEF History, Follows, Base
  <2>2. r \notin Moving(View(c))
      BY <1>3, <2>1 DEF Moving, InFlight, Ended, Absent, Row
  <2>3. ~Ahead(c, r)
      BY <1>3 DEF History, Fresh, Absent, Row, Ended
  <2> QED BY <1>3, <2>2, <2>3, NewRunHistory
<1> QED BY <1>1, <1>2, <1>3 DEF CellStep

\* History in the beginning.
LEMMA HistoryInit == ASSUME Init PROVE History
<1>1. rows \in FirstRows /\ \A x \in Conns : DOMAIN written[x] = {}
    BY DEF Init, Nothing
<1>2. Values /\ Follows
    BY <1>1, FirstRowsAssumption DEF Values, Follows
<1>3. Fresh
    BY <1>1 DEF Init, Fresh, Ahead
<1> QED BY <1>2, <1>3 DEF History

\* History, step by step.
LEMMA HistoryStep == ASSUME Base, Locked, History, [Next]_vars PROVE History'
<1>1. CASE Next
  <2>1. PICK c \in Callers : Frame(c) /\ (Begins(c) \/ Executes(c) \/ Fails(c))
      BY <1>1, StepIs
  <2>2. Data(c) /\ Shape'
      BY <1>1, <2>1, StepData, BaseStep DEF Base
  <2> QED BY <2>1, <2>2, FreshStep, ValuesStep, FollowsStep DEF History
<1>2. CASE UNCHANGED vars
    BY <1>2 DEF vars, callVars, History, Values, Fresh, Follows, Ahead, Running
<1> QED BY <1>1, <1>2

\* A run's history is always one.
LEMMA HistoryInvariant == Spec => [](Base /\ Locked /\ History)
BY LockedInvariant, HistoryInit, HistoryStep, PTL DEF Spec

-----------------------------------------------------------------------------
(* A run is ended once.                                                    *)

\* The status v stands as run r's, whatever transactions are in progress:
\* they can only have deleted the run, and nobody will create it again.
Stands(r, v) ==
    /\ rows[r] \in {Row(v), Absent}
    /\ \A x \in Conns : r \in DOMAIN written[x] => written[x][r] \in {Row(v), Absent}
    /\ \A c \in Callers : ~Ahead(c, r)

StandsNext(r, v) ==
    /\ rows'[r] \in {Row(v), Absent}
    /\ \A x \in Conns : r \in DOMAIN written'[x] => written'[x][r] \in {Row(v), Absent}
    /\ \A c \in Callers : ~Ahead(c, r)'

\* The call has ended the run, as far as it knows.
Credited(c, r) ==
    \/ /\ op[c].name = "updateRunStatus" /\ op[c].run = r
       /\ op[c].value \in Ended /\ answer[c] = "updated"
    \/ /\ op[c].name = "failStaleRuns" /\ r \in found[c]
       /\ Running(c) \/ (at[c] = "over" /\ answer[c] = "done")

End(c) == IF op[c].name = "failStaleRuns" THEN "error" ELSE op[c].value

\* Its transaction has ended the run, or the end stands.
Credit(c, r) ==
    IF Running(c) /\ Transactional
    THEN r \in DOMAIN written[Conn(c)] /\ written[Conn(c)][r] = Row(End(c))
    ELSE Stands(r, End(c))

Credits ==
    \A r \in Runs, c \in Callers : Credited(c, r) =>
        /\ Credit(c, r)
        /\ \A d \in Callers : Credited(d, r) => c = d

\* The end of a run that was credited.
LEMMA EndIs ==
    ASSUME NEW c, NEW r, Credited(c, r)
    PROVE  End(c) \in Ended
BY DEF Credited, End, Ended

\* What stands, stands.
LEMMA StandsStep ==
    ASSUME Base, NEW c \in Callers, Frame(c), Begins(c) \/ Executes(c) \/ Fails(c),
           NEW r \in Runs, NEW v \in Ended, Stands(r, v)
    PROVE  StandsNext(r, v)
<1>1. Data(c) /\ r \in Keys /\ Conn(c) \in Conns /\ Shape
    BY StepData, ConnIs DEF Keys, Base
<1>2. \A d \in Callers : ~Ahead(d, r)'
    BY AheadStep DEF Stands
<1>3. r \notin Moving(View(c)) /\ ~Ahead(c, r)
  <2>1. View(c)[r] \in {Row(v), Absent}
      BY <1>1, ViewIs DEF Stands
  <2> QED BY <2>1 DEF Stands, Moving, Row, Absent, InFlight, Ended
<1>4. ASSUME NEW x, New(c, r, x) PROVE x = Absent
    BY <1>3, <1>4, NewRunHistory
<1>5. CellStep(c, r)
    BY <1>1, Cells
<1> QED BY <1>1, <1>2, <1>4, <1>5 DEF CellStep, Stands, StandsNext

\* A statement that ends run r: its transaction has ended it, or the end
\* stands.
LEMMA PutsEnd ==
    ASSUME Base, Locked, History, NEW c \in Callers, Frame(c),
           Begins(c) \/ Executes(c) \/ Fails(c),
           NEW s \in Writes, NEW t, NEW k, Acts(c, s, t, k), ~Refused(c, s),
           NEW r \in Runs, r \in DOMAIN Change(c, s, View(c), k), r \in Moving(View(c)),
           NEW v, Change(c, s, View(c), k)[r] = Row(v)
    PROVE  /\ Alone(c, r)
           /\ Transactional => r \in DOMAIN written'[Conn(c)] /\ written'[Conn(c)][r] = Row(v)
           /\ ~Transactional => StandsNext(r, v)
<1> DEFINE ch == Change(c, s, View(c), k)
<1>1. /\ Shape /\ r \in Keys /\ Conn(c) \in Conns /\ DOMAIN written = Conns
      /\ DOMAIN rows = Keys
    BY ConnIs DEF Base, Keys, Shape
<1>2. Alone(c, r)
    BY WritesAlone DEF New
<1>3. Puts(c, ch)
    BY DEF Acts, Does
<1> HIDE DEF ch
<1>4. r \in DOMAIN ch /\ ch[r] = Row(v)
    BY DEF ch
<1>5. ASSUME Transactional
      PROVE  r \in DOMAIN written'[Conn(c)] /\ written'[Conn(c)][r] = Row(v)
  <2>1. written'[Conn(c)] = Overlay(ch, written[Conn(c)])
      BY <1>1, <1>3, <1>5 DEF Puts
  <2> QED BY <1>4, <2>1 DEF Overlay
<1>6. ASSUME ~Transactional PROVE StandsNext(r, v)
  <2>1. rows'[r] = Row(v) /\ written' = written
      BY <1>3, <1>4, <1>6 DEF Puts, Overlay
  <2>2. \A x \in Conns : r \notin DOMAIN written'[x]
      BY <1>1, <1>6, <2>1 DEF Shape, Nothing
  <2>3. rows[r] # Absent
    <3>1. View(c) = rows
        BY <1>1, <1>6, ViewIs
    <3> QED BY <3>1 DEF Moving, Absent, Row, InFlight
  <2>4. \A d \in Callers : ~Ahead(d, r)'
      BY <2>3, AheadStep DEF History, Fresh
  <2> QED BY <2>1, <2>2, <2>4 DEF StandsNext
<1> QED BY <1>2, <1>5, <1>6

CreditNext(c, r) ==
    IF at'[c] = "running" /\ Transactional
    THEN r \in DOMAIN written'[Conn(c)] /\ written'[Conn(c)][r] = Row(End(c))
    ELSE StandsNext(r, End(c))

CreditedNext(c, r) ==
    \/ /\ op[c].name = "updateRunStatus" /\ op[c].run = r
       /\ op[c].value \in Ended /\ answer'[c] = "updated"
    \/ /\ op[c].name = "failStaleRuns" /\ r \in found'[c]
       /\ at'[c] = "running" \/ (at'[c] = "over" /\ answer'[c] = "done")

\* A call that is credited with the end of a run had the credit, or takes it
\* now, from a run in flight that no other transaction has written.
LEMMA ActorCredit ==
    ASSUME Base, Locked, History, Credits, NEW c \in Callers, Frame(c),
           Begins(c) \/ Executes(c) \/ Fails(c), NEW r \in Runs, CreditedNext(c, r)
    PROVE  /\ CreditNext(c, r)
           /\ Credited(c, r) \/ (r \in Moving(View(c)) /\ Alone(c, r))
<1>1. /\ Shape /\ Scripted /\ Conn(c) \in Conns /\ DOMAIN written = Conns
      /\ Data(c) /\ r \in Keys
    BY ConnIs, StepData DEF Base, Shape, Keys
<1>2. ASSUME Credited(c, r), Stands(r, End(c)) PROVE StandsNext(r, End(c))
    BY <1>2, EndIs, StandsStep
<1>3. Credited(c, r) => Credit(c, r)
    BY DEF Credits
<1>4. CASE Begins(c)
    BY <1>1, <1>4 DEF Begins, CreditedNext, Turns, Scripted
<1>5. CASE Fails(c)
  <2>1. /\ at'[c] = "over" /\ found'[c] = found[c] /\ answer'[c] \in {"raised", "done"}
        /\ answer'[c] = "done" => backend = "mongo"
        /\ Running(c)
      BY <1>5 DEF Fails, Turns
  <2>2. op[c].name = "failStaleRuns" /\ r \in found[c] /\ backend = "mongo"
      BY <2>1 DEF CreditedNext
  <2>3. Credited(c, r) /\ ~Transactional
      BY <2>1, <2>2 DEF Credited, Transactional
  <2> QED BY <1>2, <1>3, <2>1, <2>3 DEF Credit, CreditNext
<1>6. CASE Executes(c)
  <2>1. PICK s, t, k, rest, ans :
          /\ Acts(c, s, t, k)
          /\ Leads(c, s, t, k, rest, ans)
          /\ Turns(c, rest, ans)
          /\ found'[c] = Learns(c, s, View(c), k)
      BY <1>6 DEF Executes
  <2>2. /\ Fits(c, s) /\ Position(Transactional, s, t) /\ Does(c, s, k) /\ s \in Statements
        /\ Transactional => Running(c)
        /\ Running(c) \/ at[c] = "waiting"
      BY <2>1 DEF Acts, Position, Transactional
  <2>3. op[c].name \in {"updateRunStatus", "failStaleRuns"}
      BY DEF CreditedNext
  <2>4. s \notin {"insertThread", "insertRun"} /\ ~Refused(c, s)
      BY <2>2, <2>3 DEF Fits, Belongs, Refused, Conflicts, Dangles
  <2>5. /\ answer'[c] = "updated" => ans = "updated"
        /\ at'[c] = IF rest = <<>> THEN "over" ELSE "running"
      BY <2>1 DEF Turns
  <2>6. at[c] = "waiting" => found[c] = {} /\ answer[c] = "none"
      BY <1>1 DEF Scripted
  <2>7. CASE s = "commit"
    <3>1. /\ Transactional /\ rest = <<>> /\ ans = answer[c] /\ found'[c] = found[c]
          /\ Commits(c)
        BY <2>1, <2>2, <2>4, <2>7 DEF Position, Leads, Answer, Learns, Does, Conflicts
    <3>2. Credited(c, r) /\ Running(c)
        BY <2>2, <2>5, <3>1 DEF Credited, CreditedNext
    <3>3. r \in DOMAIN written[Conn(c)] /\ written[Conn(c)][r] = Row(End(c))
        BY <1>3, <3>1, <3>2 DEF Credit
    <3>4. rows'[r] = Row(End(c)) /\ written'[Conn(c)] = Nothing
        BY <1>1, <3>1, <3>3, ViewIs, ClosedIsNothing DEF Commits
    <3>5. \A x \in Conns : r \notin DOMAIN written'[x]
      <4>1. \A x \in Conns \ {Conn(c)} : written'[x] = written[x]
          BY <1>1, Cells DEF CellStep
      <4> QED BY <1>1, <3>3, <3>4, <4>1 DEF Locked, Exclusive, Nothing
    <3>6. \A d \in Callers : ~Ahead(d, r)'
      <4>1. Row(End(c)) # Absent
          BY <3>2, EndIs DEF Row, Absent, Ended
      <4>2. \A d \in Callers : ~Ahead(d, r)
          BY <1>1, <3>3, <4>1 DEF History, Fresh
      <4> QED BY <4>2, AheadStep
    <3> QED BY <2>5, <3>1, <3>2, <3>4, <3>5, <3>6 DEF CreditNext, StandsNext
  <2>8. CASE s = "scan"
    <3>1. /\ Quiet /\ ans = answer[c] /\ found'[c] = found[c]
          /\ Transactional => rest # <<>>
        BY <2>1, <2>2, <2>8 DEF Leads, Learns, Does, Reads
    <3>2. op[c].name = "failStaleRuns" /\ r \in found[c]
        BY <2>2, <2>8, <3>1 DEF CreditedNext, Fits, Belongs
    <3>3. Credited(c, r) /\ Running(c)
        BY <2>2, <2>6, <3>2 DEF Credited
    <3>4. CASE Transactional
        BY <1>3, <2>5, <3>1, <3>3, <3>4 DEF Credit, CreditNext, Quiet
    <3>5. CASE ~Transactional
        BY <1>2, <1>3, <3>3, <3>5 DEF Credit, CreditNext
    <3> QED BY <3>3, <3>4, <3>5
  <2>9. CASE s \in {"claim", "failStale", "updateRun"}
    <3> DEFINE ch == Change(c, s, View(c), k)
    <3>1. /\ s \in Writes /\ rest = t /\ ans = Answer(c, s, View(c), k)
          /\ Transactional => rest # <<>>
      <4>1. s \in Writes /\ s # "scan"
          BY <2>9 DEF Writes
      <4>2. rest = t /\ ans = Answer(c, s, View(c), k)
          BY <2>1, <2>4, <4>1 DEF Leads
      <4> QED BY <2>2, <4>1, <4>2 DEF Position
    <3>2. ASSUME r \in DOMAIN ch
          PROVE  r \in Moving(View(c)) /\ ch[r] = Row(End(c))
      <4>1. RunWrite(c, s, View(c), r, ch[r])
          BY <1>1, <2>2, <3>1, <3>2, KeysAssumption, RunWrites DEF Shape
      <4> QED BY <2>2, <2>9, <4>1 DEF RunWrite, End, Fits, Belongs
    <3>3. CASE r \in DOMAIN ch
      <4>1. /\ Alone(c, r)
            /\ Transactional =>
                 r \in DOMAIN written'[Conn(c)] /\ written'[Conn(c)][r] = Row(End(c))
            /\ ~Transactional => StandsNext(r, End(c))
          BY <2>1, <2>4, <3>1, <3>2, <3>3, PutsEnd
      <4> QED BY <2>5, <3>1, <3>2, <3>3, <4>1 DEF CreditNext
    <3>4. CASE r \notin DOMAIN ch
      <4>1. op[c].name = "failStaleRuns"
        <5>1. ASSUME s = "updateRun", op[c].name = "updateRunStatus" PROVE FALSE
          <6>1. ans = "updated" /\ op[c].run = r
              BY <2>5, <5>1 DEF CreditedNext
          <6>2. ch # Nothing
              BY <3>1, <5>1, <6>1 DEF Answer
          <6>3. ch = [x \in UpdatedRun(View(c), op[c]) |-> Row(op[c].value)]
              BY <5>1 DEF Change
          <6>4. UpdatedRun(View(c), op[c]) # {}
              BY <6>2, <6>3 DEF Nothing
          <6> QED BY <3>4, <6>1, <6>3, <6>4 DEF UpdatedRun
        <5> QED BY <2>2, <2>3, <2>9, <5>1 DEF Fits, Belongs
      <4>2. s \in {"claim", "failStale"} /\ found'[c] = found[c] \cup DOMAIN ch
          BY <2>1, <2>2, <2>9, <4>1 DEF Learns, Fits, Belongs
      <4>3. Credited(c, r) /\ Running(c)
          BY <2>2, <2>6, <3>4, <4>1, <4>2 DEF Credited, CreditedNext
      <4>4. CASE Transactional
        <5>1. r \in DOMAIN written[Conn(c)] /\ written[Conn(c)][r] = Row(End(c))
            BY <1>3, <4>3, <4>4 DEF Credit
        <5>2. Puts(c, ch)
            BY <2>2, <2>4, <3>1 DEF Does
        <5> HIDE DEF ch
        <5>3. written'[Conn(c)] = Overlay(ch, written[Conn(c)])
            BY <1>1, <4>4, <5>2 DEF Puts
        <5>4. r \in DOMAIN written'[Conn(c)] /\ written'[Conn(c)][r] = Row(End(c))
            BY <3>4, <5>1, <5>3 DEF Overlay
        <5> QED BY <2>5, <3>1, <4>3, <4>4, <5>4 DEF CreditNext
      <4>5. CASE ~Transactional
          BY <1>2, <1>3, <4>3, <4>5 DEF Credit, CreditNext
      <4> QED BY <4>3, <4>4, <4>5
    <3> QED BY <3>3, <3>4
  <2>10. s \in {"commit", "scan", "claim", "failStale", "updateRun"}
      BY <2>2, <2>3 DEF Fits, Belongs, Statements, Writes, Reads
  <2> QED BY <2>7, <2>8, <2>9, <2>10
<1> QED BY <1>4, <1>5, <1>6

\* Two calls that run have two connections.
LEMMA OwnConnection ==
    ASSUME Base, Locked, Transactional, NEW c \in Callers, NEW d \in Callers,
           Running(c), Running(d), Conn(c) = Conn(d)
    PROVE  c = d
BY DEF Locked, SqliteLocked, Transactional, Conn

\* In a step of c, what the transaction of another call that runs has written
\* stays as it is.
LEMMA OthersKeep ==
    ASSUME Base, Locked, Transactional, NEW c \in Callers,
           Begins(c) \/ Executes(c) \/ Fails(c), NEW d \in Callers \ {c}, Running(d)
    PROVE  written'[Conn(d)] = written[Conn(d)]
<1>1. CASE Begins(c)
    BY <1>1 DEF Begins, Quiet
<1>2. CASE Executes(c) \/ Fails(c)
  <2>1. Running(c)
      BY <1>2 DEF Executes, Fails, Acts, Transactional
  <2>2. Conn(d) # Conn(c) /\ Conn(d) \in Conns /\ Data(c) /\ Thread \in Keys
      BY <1>2, <2>1, OwnConnection, ConnIs, StepData DEF Keys
  <2> QED BY <2>2, Cells DEF CellStep, Base
<1> QED BY <1>1, <1>2

\* Credits, step by step.
LEMMA CreditsStep ==
    ASSUME Base, Locked, History, Credits, [Next]_vars
    PROVE  Credits'
<1>1. CASE UNCHANGED vars
    BY <1>1 DEF vars, callVars, Credits, Credited, Credit, End, Stands, Ahead, Running, Conn,
       Transactional
<1>2. ASSUME NEW c \in Callers, Frame(c), Begins(c) \/ Executes(c) \/ Fails(c)
      PROVE  Credits'
  <2>1. op' = op /\ backend' = backend
      BY <1>2 DEF Frame
  <2>2. ASSUME NEW r \in Runs, NEW d \in Callers \ {c}, CreditedNext(d, r)
        PROVE  Credited(d, r) /\ Credit(d, r) /\ CreditNext(d, r)
    <3>1. Credited(d, r) /\ (at'[d] = "running" <=> Running(d))
        BY <1>2, <2>2 DEF Frame, Credited, CreditedNext, Running
    <3>2. Credit(d, r)
        BY <3>1 DEF Credits
    <3>3. CASE Running(d) /\ Transactional
        BY <1>2, <3>1, <3>2, <3>3, OthersKeep DEF Credit, CreditNext
    <3>4. CASE ~(Running(d) /\ Transactional)
      <4>1. Stands(r, End(d)) /\ End(d) \in Ended
          BY <3>1, <3>2, <3>4, EndIs DEF Credit
      <4>2. StandsNext(r, End(d))
          BY <1>2, <4>1, StandsStep
      <4> QED BY <3>1, <3>2, <3>4, <4>2 DEF Credit, CreditNext
    <3> QED BY <3>1, <3>2, <3>3, <3>4
  <2>3. ASSUME NEW r \in Runs, NEW d \in Callers \ {c}, CreditedNext(d, r), CreditedNext(c, r)
        PROVE  FALSE
    <3>1. Credited(d, r) /\ Credit(d, r)
        BY <2>2, <2>3
    <3>2. ~Credited(c, r)
        BY <3>1 DEF Credits
    <3>3. r \in Moving(View(c)) /\ Alone(c, r)
        BY <1>2, <2>3, <3>2, ActorCredit
    <3>4. CASE Running(d) /\ Transactional
      <4>1. Running(c)
        <5>1. ~Begins(c)
          <6>1. Begins(c) => /\ answer'[c] \in {"none", "done"}
                             /\ found'[c] = found[c] /\ found[c] = {}
              BY DEF Begins, Turns, Base, Scripted
          <6> QED BY <2>3, <6>1 DEF CreditedNext
        <5> QED BY <1>2, <3>4, <5>1 DEF Executes, Fails, Acts, Transactional
      <4>2. Conn(d) # Conn(c) /\ Conn(d) \in Conns
          BY <3>4, <4>1, OwnConnection, ConnIs
      <4> QED BY <3>1, <3>3, <3>4, <4>2 DEF Credit, Alone
    <3>5. CASE ~(Running(d) /\ Transactional)
      <4>1. Stands(r, End(d)) /\ End(d) \in Ended
          BY <3>1, <3>5, EndIs DEF Credit
      <4>2. View(c)[r] \in {Row(End(d)), Absent}
          BY <4>1, ViewIs, ConnIs DEF Stands, Base, Keys
      <4> QED BY <3>3, <4>1, <4>2 DEF Moving, Row, Absent, InFlight, Ended
    <3> QED BY <3>4, <3>5
  <2>4. ASSUME NEW r \in Runs, NEW d \in Callers, CreditedNext(d, r)
        PROVE  /\ CreditNext(d, r)
               /\ \A e \in Callers : CreditedNext(e, r) => d = e
    <3>1. CASE d = c
      <4>1. CreditNext(d, r)
          BY <1>2, <2>4, <3>1, ActorCredit
      <4> QED BY <2>3, <2>4, <3>1, <4>1
    <3>2. CASE d # c
      <4>1. CreditNext(d, r)
          BY <2>2, <2>4, <3>2
      <4>2. \A e \in Callers : CreditedNext(e, r) => d = e
          BY <2>2, <2>3, <2>4, <3>2 DEF Credits
      <4> QED BY <4>1, <4>2
    <3> QED BY <3>1, <3>2
  <2>5. ASSUME NEW r \in Runs, NEW d \in Callers
        PROVE  /\ Credited(d, r)' <=> CreditedNext(d, r)
               /\ Credit(d, r)' <=> CreditNext(d, r)
      BY <2>1 DEF Credited, CreditedNext, Credit, CreditNext, Stands, StandsNext, End, Running,
         Conn, Transactional
  <2> QED BY <2>4, <2>5 DEF Credits
<1> QED BY <1>1, <1>2, StepIs

\* Nobody is credited in the beginning.
LEMMA CreditsInit == ASSUME Init PROVE Credits
BY DEF Init, Credits, Credited, Running

\* Credits are always in order.
LEMMA CreditsInvariant == Spec => [](Base /\ Locked /\ History /\ Credits)
BY HistoryInvariant, CreditsInit, CreditsStep, PTL DEF Spec

\* Those who were told that they ended a run are credited with it.
LEMMA WinnersAreCredited ==
    ASSUME NEW r, NEW c \in Winners(r)
    PROVE  c \in Callers /\ Credited(c, r)
BY DEF Winners, Over, Credited

\* Of all the writers that may end a run, in any process and in any of the
\* four stores, one at most is told that its write took effect: the run's own
\* outcome, a cancel and the sweeps never both settle it.
THEOREM RunsEndOnce == Spec => []EndedOnce
<1>1. Credits => EndedOnce
  <2> SUFFICES ASSUME Credits, NEW r \in Runs PROVE Cardinality(Winners(r)) <= 1
      BY DEF EndedOnce
  <2>1. \A c, d \in Winners(r) : c = d
      BY WinnersAreCredited DEF Credits
  <2>2. CASE Winners(r) = {}
      BY <2>2, FS_EmptySet
  <2>3. CASE Winners(r) # {}
    <3>1. PICK c : Winners(r) = {c}
        BY <2>1, <2>3
    <3>2. Cardinality({c}) = 1
        BY FS_Singleton
    <3> QED BY <3>1, <3>2
  <2> QED BY <2>2, <2>3
<1> QED BY <1>1, CreditsInvariant, PTL

-----------------------------------------------------------------------------
(* Runs keep their thread.                                                 *)

\* A transaction that has deleted the thread has deleted all its runs, and
\* has written no run since.
DeletesAll ==
    \A x \in Conns : Thread \in DOMAIN written[x] /\ written[x][Thread] = Absent =>
        \A k \in Keys : k \in DOMAIN written[x] /\ written[x][k] = Absent

\* A transaction that has written a run sees the run's thread.
WritesHoused ==
    \A x \in Conns : \A r \in Runs :
        r \in DOMAIN written[x] /\ written[x][r] # Absent =>
            IF Thread \in DOMAIN written[x] THEN written[x][Thread] # Absent
            ELSE rows[Thread] # Absent

Housed(v) == \A r \in Runs : v[r] # Absent => v[Thread] # Absent

Kept == DeletesAll /\ WritesHoused /\ (Transactional => Housed(rows))

\* What a connection sees has the thread of every run.
LEMMA ViewHoused ==
    ASSUME Base, Kept, Transactional, NEW c \in Callers
    PROVE  Housed(View(c))
<1> SUFFICES ASSUME NEW r \in Runs, View(c)[r] # Absent PROVE View(c)[Thread] # Absent
    BY DEF Housed
<1> DEFINE f == written[Conn(c)]
<1>1. Conn(c) \in Conns /\ r \in Keys /\ Thread \in Keys
    BY ConnIs DEF Keys
<1>2. \A k \in Keys : View(c)[k] = IF k \in DOMAIN f THEN f[k] ELSE rows[k]
    BY ViewIs DEF Base
<1>3. CASE r \in DOMAIN f
    BY <1>1, <1>2, <1>3 DEF Kept, WritesHoused
<1>4. CASE r \notin DOMAIN f
    BY <1>1, <1>2, <1>4 DEF Kept, DeletesAll, Housed
<1> QED BY <1>3, <1>4

\* What a write does to the rows it sees, where foreign keys are enforced.
LEMMA WriteKeeps ==
    ASSUME Base, Kept, Transactional, NEW c \in Callers, NEW s \in Writes, NEW t, NEW j,
           Acts(c, s, t, j), ~Refused(c, s)
    PROVE  LET ch == Change(c, s, View(c), j)
           IN  /\ \A r \in Runs : r \in DOMAIN ch /\ ch[r] # Absent => View(c)[Thread] # Absent
               /\ Thread \in DOMAIN ch /\ ch[Thread] = Absent =>
                    \A k \in Keys : k \in DOMAIN ch /\ ch[k] = Absent
<1> DEFINE ch == Change(c, s, View(c), j)
<1>1. Fits(c, s) /\ op[c] \in Calls[c]
    BY DEF Acts, Base, Shape
<1>2. ASSUME NEW r \in Runs, r \in DOMAIN ch, ch[r] # Absent
      PROVE  View(c)[Thread] # Absent
  <2>1. RunWrite(c, s, View(c), r, ch[r])
      BY <1>1, <1>2, KeysAssumption, RunWrites
  <2>2. CASE s = "insertRun"
      BY <2>2 DEF Refused, Dangles, ForeignKeys, Present, Keys
  <2>3. CASE r \in Moving(View(c))
    <3>1. View(c)[r] # Absent
        BY <2>3 DEF Moving, Absent, Row, InFlight
    <3> QED BY <3>1, ViewHoused DEF Housed
  <2> QED BY <1>2, <2>1, <2>2, <2>3 DEF RunWrite
<1>3. ASSUME Thread \in DOMAIN ch, ch[Thread] = Absent
      PROVE  \A k \in Keys : k \in DOMAIN ch /\ ch[k] = Absent
  <2>1. s = "deleteThread"
    <3>1. ThreadWrite(c, s, View(c), ch[Thread])
        BY <1>1, <1>3, ThreadWrites
    <3>2. Row("idle") # Absent
        BY DEF Row, Absent
    <3> QED BY <1>3, <3>1, <3>2 DEF ThreadWrite
  <2>2. backend # "mongo"
      BY DEF Transactional
  <2>3. ch = [k \in Keys |-> Absent]
      BY <2>1, <2>2 DEF Change
  <2> QED BY <2>3
<1> QED BY <1>2, <1>3

\* Kept, step by step.
LEMMA KeptStep ==
    ASSUME Base, Locked, Kept, NEW c \in Callers, Frame(c), Data(c)
    PROVE  Kept'
<1>1. /\ Shape /\ Conn(c) \in Conns /\ DOMAIN written = Conns /\ Thread \in Keys
      /\ Runs \subseteq Keys /\ DOMAIN Nothing = {} /\ backend' = backend
    BY ConnIs DEF Base, Shape, Keys, Nothing, Frame
<1> DEFINE Deleted(f) == Thread \in DOMAIN f /\ f[Thread] = Absent =>
                           \A k \in Keys : k \in DOMAIN f /\ f[k] = Absent
           Sees(f, v) == \A r \in Runs : r \in DOMAIN f /\ f[r] # Absent =>
                           IF Thread \in DOMAIN f THEN f[Thread] # Absent ELSE v[Thread] # Absent
           Fine == /\ \A x \in Conns : Deleted(written'[x]) /\ Sees(written'[x], rows')
                   /\ Transactional => Housed(rows')
<1>2. /\ \A x \in Conns : Deleted(written[x]) /\ Sees(written[x], rows)
      /\ Transactional => Housed(rows)
    BY DEF Kept, DeletesAll, WritesHoused
<1>3. ASSUME ~Transactional PROVE Fine
  <2>1. \A x \in Conns : DOMAIN written[x] = {}
      BY <1>1, <1>3 DEF Shape
  <2>2. \A x \in Conns : DOMAIN written'[x] = {}
      BY <1>1, <1>3, <2>1 DEF Data, Quiet, Drops, Puts
  <2> QED BY <1>1, <1>3, <2>2
<1>4. ASSUME Transactional PROVE Fine
  <2>1. CASE Quiet
      BY <1>2, <2>1 DEF Quiet
  <2>2. CASE Drops(c)
      BY <1>1, <1>2, <2>2 DEF Drops
  <2>3. CASE Commits(c)
    <3>1. Housed(rows')
        BY <1>4, <2>3, ViewHoused DEF Commits
    <3>2. ASSUME NEW x \in Conns PROVE Deleted(written'[x]) /\ Sees(written'[x], rows')
      <4>1. CASE x = Conn(c)
          BY <1>1, <2>3, <4>1 DEF Commits
      <4>2. CASE x # Conn(c)
        <5>1. written'[x] = written[x]
            BY <1>1, <2>3, <4>2 DEF Commits
        <5>2. ASSUME NEW r \in Runs, r \in DOMAIN written[x], written[x][r] # Absent,
                     Thread \notin DOMAIN written[x]
              PROVE  rows'[Thread] # Absent
          <6>1. rows[Thread] # Absent
              BY <1>2, <5>2
          <6>2. CASE Thread \notin DOMAIN written[Conn(c)]
              BY <1>1, <2>3, <6>1, <6>2, ViewIs DEF Commits
          <6>3. CASE Thread \in DOMAIN written[Conn(c)]
            <7>1. r \notin DOMAIN written[Conn(c)]
                BY <1>1, <4>2, <5>2 DEF Locked, Exclusive
            <7>2. written[Conn(c)][Thread] # Absent
                BY <1>1, <1>2, <6>3, <7>1
            <7> QED BY <1>1, <2>3, <6>3, <7>2, ViewIs DEF Commits
          <6> QED BY <6>2, <6>3
        <5> QED BY <1>2, <5>1, <5>2
      <4> QED BY <4>1, <4>2
    <3> QED BY <3>1, <3>2
  <2>4. ASSUME NEW s, NEW t, NEW j, Acts(c, s, t, j), s \in Writes, ~Refused(c, s),
               Puts(c, Change(c, s, View(c), j))
        PROVE  Fine
    <3> DEFINE ch == Change(c, s, View(c), j)
               f == written[Conn(c)]
    <3>1. /\ \A r \in Runs : r \in DOMAIN ch /\ ch[r] # Absent => View(c)[Thread] # Absent
          /\ Thread \in DOMAIN ch /\ ch[Thread] = Absent =>
               \A k \in Keys : k \in DOMAIN ch /\ ch[k] = Absent
        BY <1>4, <2>4, WriteKeeps
    <3>2. rows' = rows /\ written' = [written EXCEPT ![Conn(c)] = Overlay(ch, f)]
        BY <1>4, <2>4 DEF Puts
    <3>3. View(c)[Thread] = IF Thread \in DOMAIN f THEN f[Thread] ELSE rows[Thread]
        BY <1>1, ViewIs
    <3> HIDE DEF ch
    <3>4. /\ DOMAIN Overlay(ch, f) = DOMAIN ch \cup DOMAIN f
          /\ \A k \in DOMAIN ch : Overlay(ch, f)[k] = ch[k]
          /\ \A k \in DOMAIN f : k \notin DOMAIN ch => Overlay(ch, f)[k] = f[k]
        BY OverlayIs
    <3> HIDE DEF f
    <3>5. Deleted(f) /\ Sees(f, rows)
        BY <1>1, <1>2 DEF f
    <3>6. Sees(Overlay(ch, f), rows)
      <4> SUFFICES ASSUME NEW r \in Runs, r \in DOMAIN Overlay(ch, f),
                          Overlay(ch, f)[r] # Absent
                   PROVE  IF Thread \in DOMAIN Overlay(ch, f)
                          THEN Overlay(ch, f)[Thread] # Absent ELSE rows[Thread] # Absent
          OBVIOUS
      <4>1. View(c)[Thread] # Absent
        <5>1. CASE r \in DOMAIN ch
            BY <3>1, <3>4, <5>1
        <5>2. CASE r \notin DOMAIN ch
            BY <3>3, <3>4, <3>5, <5>2
        <5> QED BY <5>1, <5>2
      <4>2. CASE Thread \in DOMAIN ch
          BY <1>1, <3>1, <3>4, <4>2
      <4>3. CASE Thread \notin DOMAIN ch
          BY <3>3, <3>4, <4>1, <4>3
      <4> QED BY <4>2, <4>3
    <3>7. Deleted(Overlay(ch, f))
      <4> SUFFICES ASSUME Thread \in DOMAIN Overlay(ch, f), Overlay(ch, f)[Thread] = Absent,
                          NEW k \in Keys
                   PROVE  k \in DOMAIN Overlay(ch, f) /\ Overlay(ch, f)[k] = Absent
          OBVIOUS
      <4>1. CASE Thread \in DOMAIN ch
          BY <3>1, <3>4, <4>1
      <4>2. CASE Thread \notin DOMAIN ch
        <5>1. Thread \in DOMAIN f /\ f[Thread] = Absent
            BY <3>4, <4>2
        <5>2. k \in DOMAIN f /\ f[k] = Absent
            BY <3>5, <5>1
        <5>3. k \in DOMAIN ch => ch[k] = Absent
            BY <3>1, <3>3, <4>2, <5>1 DEF Keys
        <5> QED BY <3>4, <5>2, <5>3
      <4> QED BY <4>1, <4>2
    <3>8. \A x \in Conns : written'[x] = IF x = Conn(c) THEN Overlay(ch, f) ELSE written[x]
        BY <1>1, <3>2
    <3> HIDE DEF Deleted, Sees
    <3> QED BY <1>2, <3>2, <3>6, <3>7, <3>8
  <2> QED BY <2>1, <2>2, <2>3, <2>4 DEF Data
<1>5. Transactional' = Transactional
    BY <1>1 DEF Transactional
<1>6. Fine
    BY <1>3, <1>4
<1> HIDE DEF Deleted, Sees
<1>7. Kept' <=> Fine
    BY <1>5 DEF Kept, DeletesAll, WritesHoused, Housed, Deleted, Sees
<1> QED BY <1>6, <1>7

\* Without foreign keys: while no run is created, a Mongo delete that has the
\* thread's own row left to delete has deleted all the runs.
NoCreate == \A c \in Callers : op[c].name # "createRun"

RunsGo(c) == Running(c) /\ script[c] = <<"deleteThread">> => \A r \in Runs : rows[r] = Absent

Loose == ~Transactional /\ NoCreate => Housed(rows) /\ \A c \in Callers : RunsGo(c)

\* A statement that is no insert of a run brings no run back.
LEMMA StillGone ==
    ASSUME Base, ~Transactional, NoCreate, NEW c \in Callers, Data(c), NEW r \in Runs,
           rows[r] = Absent
    PROVE  rows'[r] = Absent
<1>1. Shape /\ r \in Keys /\ View(c) = rows
    BY ViewIs DEF Base, Keys
<1>2. ASSUME NEW x, New(c, r, x) PROVE x = Absent
  <2>1. r \notin Moving(View(c)) /\ ~Ahead(c, r)
      BY <1>1 DEF Moving, Absent, Row, InFlight, NoCreate, Ahead
  <2> QED BY <1>2, <2>1, NewRunHistory
<1>3. CellStep(c, r)
    BY <1>1, Cells
<1> QED BY <1>2, <1>3 DEF CellStep

\* What is left of a call when only the thread's own row is to be deleted.
LEMMA LastDelete ==
    ASSUME Base, ~Transactional, NEW c \in Callers, Begins(c) \/ Executes(c),
           at'[c] = "running", script'[c] = <<"deleteThread">>
    PROVE  \E k : /\ Does(c, "deleteRuns", k) /\ ~Refused(c, "deleteRuns")
<1>1. Head(<<"deleteThread">>) = "deleteThread" /\ <<"deleteThread">> # <<>>
    BY One
<1>2. backend \in Backends /\ op[c] \in Calls[c]
    BY DEF Base, Shape
<1>3. ASSUME Rest(c, <<"deleteThread">>), backend # "memory"
      PROVE  op[c].name = "deleteThread"
  <2>1. Fits(c, "deleteThread")
      BY <1>1, <1>2, <1>3, Positions
  <2> QED BY <2>1 DEF Fits, Belongs
<1>4. CASE Begins(c)
  <2>1. PICK rest : /\ Turns(c, rest, "none")
                    /\ \/ rest = <<>> /\ op[c].name = "updateThread"
                       \/ Rest(c, rest) /\ rest = Script(op[c])
      BY <1>4 DEF Begins
  <2>2. rest = <<"deleteThread">> /\ rest = Script(op[c]) /\ Rest(c, rest) /\ backend = "mongo"
    <3>1. rest = <<"deleteThread">> /\ backend # "memory"
        BY <1>4, <2>1 DEF Turns, Begins
    <3> QED BY <1>1, <1>2, <2>1, <3>1, BackendsAssumption DEF Transactional
  <2>3. op[c].name = "deleteThread"
      BY <1>3, <2>2
  <2>4. Script(op[c]) = <<"deleteRuns", "deleteThread">>
      BY <2>2, <2>3 DEF Script, MongoScript, MongoDeleteThread
  <2> QED BY <1>1, <2>2, <2>4, Two
<1>5. CASE Executes(c)
  <2>1. PICK s, t, k, rest, ans :
          Acts(c, s, t, k) /\ Leads(c, s, t, k, rest, ans) /\ Turns(c, rest, ans)
      BY <1>5 DEF Executes
  <2>2. rest = <<"deleteThread">> /\ Rest(c, rest) /\ backend # "memory"
      BY <1>1, <2>1 DEF Turns, Leads
  <2>3. op[c].name = "deleteThread"
      BY <1>3, <2>2
  <2>4. Fits(c, s) /\ Position(Transactional, s, t) /\ Does(c, s, k)
      BY <2>1 DEF Acts
  <2>5. s \notin {"insertThread", "insertRun", "scan", "claim"}
      BY <2>3, <2>4 DEF Fits, Belongs
  <2>6. ~Refused(c, s)
      BY <2>5 DEF Refused, Conflicts, Dangles
  <2>7. t = <<"deleteThread">>
      BY <2>1, <2>2, <2>5, <2>6 DEF Leads
  <2>8. s = "deleteRuns"
      BY <1>1, <2>4, <2>5, <2>7 DEF Position
  <2> QED BY <2>4, <2>6, <2>8
<1> QED BY <1>4, <1>5

\* Loose, step by step.
LEMMA LooseStep ==
    ASSUME Base, Loose, ~Transactional, NoCreate, NEW c \in Callers, Frame(c),
           Begins(c) \/ Executes(c) \/ Fails(c)
    PROVE  /\ \A r \in Runs : rows'[r] # Absent => rows'[Thread] # Absent
           /\ \A d \in Callers : at'[d] = "running" /\ script'[d] = <<"deleteThread">> =>
                \A r \in Runs : rows'[r] = Absent
<1>1. /\ Shape /\ Data(c) /\ Thread \in Keys /\ Runs \subseteq Keys /\ View(c) = rows
      /\ DOMAIN rows = Keys /\ backend \in Backends /\ op[c] \in Calls[c]
    BY StepData, ViewIs DEF Base, Shape, Keys
<1>2. ASSUME NEW s, NEW t, NEW k, Acts(c, s, t, k), s \in Writes, ~Refused(c, s),
             Thread \in DOMAIN Change(c, s, rows, k), Change(c, s, rows, k)[Thread] = Absent
      PROVE  \A r \in Runs : rows'[r] = Absent
  <2>1. Fits(c, s) /\ Does(c, s, k)
      BY <1>2 DEF Acts
  <2>2. s = "deleteThread"
    <3>1. ThreadWrite(c, s, rows, Absent)
        BY <1>1, <1>2, <2>1, ThreadWrites
    <3>2. Row("idle") # Absent
        BY DEF Row, Absent
    <3> QED BY <3>1, <3>2 DEF ThreadWrite
  <2>3. op[c].name = "deleteThread"
      BY <2>1, <2>2 DEF Fits, Belongs
  <2>4. CASE backend = "mongo"
    <3>1. Running(c) /\ Rest(c, script[c]) /\ Head(script[c]) = "deleteThread"
        BY <1>2, <2>2, <2>4 DEF Acts, Base, Scripted
    <3>2. script[c] = <<"deleteThread">>
      <4>1. script[c] \in {<<"deleteRuns", "deleteThread">>, <<"deleteThread">>}
          BY <2>3, <2>4, <3>1 DEF Rest, MongoRests, Transactional
      <4> QED BY <3>1, <4>1, Two
    <3>3. \A r \in Runs : rows[r] = Absent
        BY <3>1, <3>2 DEF Loose, RunsGo
    <3> QED BY <1>1, <3>3, StillGone
  <2>5. CASE backend = "memory"
    <3>1. Change(c, s, rows, k) = [r \in Keys |-> Absent]
        BY <2>2, <2>5 DEF Change
    <3>2. rows' = Overlay(Change(c, s, rows, k), rows)
        BY <1>1, <1>2, <2>1 DEF Does, Puts
    <3> QED BY <1>1, <3>1, <3>2 DEF Overlay
  <2> QED BY <1>1, <2>4, <2>5, BackendsAssumption DEF Transactional
<1>3. ASSUME NEW r \in Runs, rows'[r] # Absent PROVE rows'[Thread] # Absent
  <2>1. rows[r] # Absent
      BY <1>1, <1>3, StillGone
  <2>2. rows[Thread] # Absent
      BY <2>1 DEF Loose, Housed
  <2>3. ~New(c, Thread, Absent)
    <3> SUFFICES ASSUME NEW s, NEW t, NEW k, Acts(c, s, t, k), s \in Writes, ~Refused(c, s),
                        Thread \in DOMAIN Change(c, s, rows, k),
                        Change(c, s, rows, k)[Thread] = Absent
                 PROVE  FALSE
        BY <1>1 DEF New
    <3> QED BY <1>2, <1>3
  <2>4. CellStep(c, Thread)
      BY <1>1, Cells
  <2> QED BY <2>2, <2>3, <2>4 DEF CellStep
<1>4. ASSUME NEW d \in Callers, at'[d] = "running", script'[d] = <<"deleteThread">>,
             NEW r \in Runs
      PROVE  rows'[r] = Absent
  <2>1. CASE d # c
    <3>1. RunsGo(d) /\ Running(d) /\ script[d] = <<"deleteThread">>
        BY <1>4, <2>1 DEF Loose, Frame, Running
    <3> QED BY <1>1, <3>1, StillGone DEF RunsGo
  <2>2. CASE d = c
    <3>1. Begins(c) \/ Executes(c)
        BY <1>4, <2>2 DEF Fails, Turns
    <3>2. PICK k : Does(c, "deleteRuns", k) /\ ~Refused(c, "deleteRuns")
        BY <1>4, <2>2, <3>1, LastDelete
    <3>3. Change(c, "deleteRuns", rows, k) = [x \in Runs \cap Present(rows) |-> Absent]
        BY DEF Change
    <3>4. rows' = Overlay(Change(c, "deleteRuns", rows, k), rows)
        BY <1>1, <3>2 DEF Does, Puts, Writes
    <3>5. r \in Present(rows) \/ rows[r] = Absent
        BY <1>1 DEF Present
    <3> QED BY <1>1, <3>3, <3>4, <3>5 DEF Overlay
  <2> QED BY <2>1, <2>2
<1> QED BY <1>3, <1>4

\* Runs have their thread in the beginning.
LEMMA KeptInit == ASSUME Init PROVE Kept /\ Loose
<1>1. \A x \in Conns : DOMAIN written[x] = {}
    BY DEF Init, Nothing
<1>2. Housed(rows)
    BY FirstRowsAssumption DEF Init, Housed
<1>3. \A c \in Callers : ~Running(c)
    BY DEF Init, Running
<1>4. \A x \in Conns : Thread \notin DOMAIN written[x] /\ \A r \in Runs : r \notin DOMAIN written[x]
    BY <1>1
<1> QED BY <1>2, <1>3, <1>4 DEF Kept, DeletesAll, WritesHoused, Loose, RunsGo

\* Every step keeps a thread to every run.
LEMMA ThreadsKept ==
    ASSUME Base, Locked, Kept, Loose, [Next]_vars
    PROVE  Kept' /\ Loose'
<1>1. CASE Next
  <2>1. PICK c \in Callers : Frame(c) /\ (Begins(c) \/ Executes(c) \/ Fails(c))
      BY <1>1, StepIs
  <2>2. Data(c)
      BY <2>1, StepData
  <2>3. Kept'
      BY <2>1, <2>2, KeptStep
  <2>4. Transactional' = Transactional /\ NoCreate' = NoCreate
      BY <2>1 DEF Frame, Transactional, NoCreate
  <2>5. Loose'
      BY <2>1, <2>4, LooseStep DEF Loose, Housed, RunsGo, Running
  <2> QED BY <2>3, <2>5
<1>2. CASE UNCHANGED vars
    BY <1>2 DEF vars, callVars, Kept, DeletesAll, WritesHoused, Housed, Loose, NoCreate, RunsGo,
       Running, Transactional
<1> QED BY <1>1, <1>2

\* No run row is left without its thread in any of the stores: neither by two
\* deletes and a create that interleave, nor by a delete that is interrupted
\* between the runs and the thread.
THEOREM NoRunIsOrphaned == Spec => []RunsKeepTheirThread
<1>1. Base /\ Kept /\ Loose => RunsKeepTheirThread
  <2> SUFFICES ASSUME Base, Kept, Loose, Transactional \/ NoCreate, rows[Thread] = Absent
               PROVE  Present(rows) = {}
    <3>1. Thread \in Keys
        BY DEF Keys
    <3> QED BY <3>1 DEF RunsKeepTheirThread, ForeignKeys, NoCreate, Present
  <2>1. Housed(rows)
      BY DEF Kept, Loose
  <2> QED BY <2>1 DEF Housed, Present, Keys
<1>2. Spec => [](Kept /\ Loose)
    BY LockedInvariant, KeptInit, ThreadsKept, PTL DEF Spec
<1> QED BY <1>1, <1>2, BaseInvariant, PTL

-----------------------------------------------------------------------------
(* What a caller was told stands.                                          *)

\* While no call had trouble, what a SQLite connection has written belongs to
\* the call that holds the connection, and is about to be committed.
Tidy ==
    backend = "sqlite" /\ troubles = 0 =>
        \A x \in Conns : written[x] # Nothing =>
            \E c \in Callers :
                /\ Running(c) /\ Home[c] = x
                /\ \/ op[c].name = "failStaleRuns"
                   \/ script[c] \in {<<"commit">>, <<"deleteThread", "commit">>}

\* A call that reads, or that inserts a thread, sees what is committed.
LEMMA ReadsCommitted ==
    ASSUME Base, Locked, Tidy, NEW c \in Callers, NEW s \in Reads \cup {"insertThread"},
           NEW t, NEW k, Acts(c, s, t, k), s # "scan", backend = "sqlite" => troubles = 0
    PROVE  View(c) = rows
<1>1. Shape /\ backend \in Backends /\ Conn(c) \in Conns /\ Fits(c, s)
    BY ConnIs DEF Base, Shape, Acts
<1>2. ASSUME Transactional, written[Conn(c)] # Nothing PROVE FALSE
  <2>1. Running(c) /\ s = Head(script[c])
      BY <1>2 DEF Acts, Transactional
  <2>2. script[c] \notin {<<"commit">>, <<"deleteThread", "commit">>}
      BY <2>1, One, Two DEF Reads
  <2>3. op[c].name # "failStaleRuns"
      BY <1>1 DEF Fits, Belongs, Reads
  <2>4. CASE backend = "postgres"
      BY <1>2, <2>2, <2>4 DEF Locked, PostgresLocked, Conn
  <2>5. CASE backend = "sqlite"
    <3>1. PICK d \in Callers :
            /\ Running(d) /\ Home[d] = Home[c]
            /\ \/ op[d].name = "failStaleRuns"
               \/ script[d] \in {<<"commit">>, <<"deleteThread", "commit">>}
        BY <1>1, <1>2, <2>5 DEF Tidy, Conn
    <3>2. d = c
        BY <2>1, <2>5, <3>1 DEF Locked, SqliteLocked
    <3> QED BY <2>2, <2>3, <3>1, <3>2
  <2> QED BY <1>2, <2>4, <2>5 DEF Transactional
<1> QED BY <1>1, <1>2, ViewIs

\* Trouble is not forgotten.
LEMMA TroublesStay ==
    ASSUME NEW c, Begins(c) \/ Executes(c) \/ Fails(c), troubles' = 0
    PROVE  troubles = 0
BY DEF Begins, Executes, Fails

\* Tidy, step by step.
LEMMA TidyStep ==
    ASSUME Base, Locked, Tidy, NEW c \in Callers, Frame(c), Begins(c) \/ Executes(c) \/ Fails(c),
           backend = "sqlite", troubles' = 0, NEW x \in Conns, written'[x] # Nothing
    PROVE  \E d \in Callers :
              /\ at'[d] = "running" /\ Home[d] = x
              /\ \/ op[d].name = "failStaleRuns"
                 \/ script'[d] \in {<<"commit">>, <<"deleteThread", "commit">>}
<1> DEFINE Late(q) == q \in {<<"commit">>, <<"deleteThread", "commit">>}
<1>1. /\ Shape /\ Data(c) /\ Conn(c) = Home[c] /\ Conn(c) \in Conns /\ Thread \in Keys
      /\ Transactional /\ troubles = 0 /\ SqliteLocked
    BY StepData, ConnIs, TroublesStay DEF Base, Keys, Conn, Transactional, Locked
<1>2. ASSUME written[x] # Nothing
      PROVE  \E d \in Callers : /\ Running(d) /\ Home[d] = x
                                /\ op[d].name = "failStaleRuns" \/ Late(script[d])
    BY <1>1, <1>2 DEF Tidy
<1>3. CASE x # Conn(c)
  <2>1. written'[x] = written[x]
      BY <1>1, <1>3, Cells DEF CellStep
  <2> QED BY <1>1, <1>2, <1>3, <2>1 DEF Frame, Running
<1>4. CASE x = Conn(c)
  <2>1. CASE Begins(c)
    <3>1. written[x] # Nothing /\ ~Running(c)
        BY <2>1 DEF Begins, Quiet, Running
    <3> QED BY <1>2, <3>1 DEF Frame, Running
  <2>2. ASSUME Running(c), written[x] # Nothing
        PROVE  op[c].name = "failStaleRuns" \/ Late(script[c])
      BY <1>1, <1>2, <1>4, <2>2 DEF SqliteLocked
  <2>3. CASE Executes(c)
    <3>1. PICK s, t, k, rest, ans :
            Acts(c, s, t, k) /\ Leads(c, s, t, k, rest, ans) /\ Turns(c, rest, ans)
        BY <2>3 DEF Executes
    <3>2. /\ Running(c) /\ s = Head(script[c]) /\ Fits(c, s) /\ Position(TRUE, s, t)
          /\ Does(c, s, k) /\ s \in Statements
        BY <1>1, <3>1 DEF Acts, Position
    <3>3. s \notin {"commit", "rollback"}
        BY <1>1, <1>4, <3>2, ClosedIsNothing DEF Does
    <3>4. ASSUME Quiet PROVE s \notin {"insertThread", "insertRun"} /\ (s \in Reads => s = "scan")
      <4>1. written[x] # Nothing
          BY <3>4 DEF Quiet
      <4>2. op[c].name = "failStaleRuns" \/ s \in {"commit", "deleteThread"}
          BY <2>2, <3>2, <4>1, One, Two
      <4> QED BY <3>2, <4>2 DEF Fits, Belongs, Reads
    <3>5. CASE s \in Reads
      <4>1. s = "scan"
          BY <3>2, <3>4, <3>5 DEF Does
      <4> QED BY <1>1, <1>4, <3>1, <3>2, <4>1 DEF Leads, Turns, Fits, Belongs
    <3>6. CASE s \in Writes
      <4>1. ~Refused(c, s)
          BY <3>2, <3>4, <3>6 DEF Refused, Conflicts, Dangles, Does
      <4>2. rest = t /\ t # <<>>
          BY <3>1, <3>2, <3>6, <4>1 DEF Leads, Position, Writes
      <4>3. s = "claim" \/ Late(t)
          BY <3>2, <3>6 DEF Position
      <4> QED BY <1>1, <1>4, <3>1, <3>2, <4>2, <4>3 DEF Turns, Fits, Belongs
    <3> QED BY <3>2, <3>3, <3>5, <3>6 DEF Statements
  <2>4. CASE Fails(c)
    <3>1. Blocked(c, Head(script[c])) /\ Head(script[c]) \in Writes
        BY <2>4 DEF Fails
    <3>2. open \ {Home[c]} # {}
        BY <1>1, <3>1 DEF Blocked, Writes
    <3>3. written[x] = Nothing
        BY <1>1, <1>4, <3>2 DEF SqliteLocked
    <3>4. Quiet \/ Drops(c) \/ Commits(c)
        BY <2>4 DEF Fails
    <3> QED BY <1>1, <1>4, <3>3, <3>4, StillNothing
  <2> QED BY <2>1, <2>3, <2>4
<1> QED BY <1>3, <1>4

\* The end of a run that a read returned stands.
ReadsStand ==
    \A c \in Callers : \A r \in Runs :
        /\ at[c] = "over" /\ op[c].name \in {"fetchRun", "listRuns"}
        /\ r \in found[c] /\ op[c].value \in Ended
        /\ backend = "sqlite" => troubles = 0
        => Stands(r, op[c].value)

\* ReadsStand, step by step.
LEMMA ReadsStandStep ==
    ASSUME Base, Locked, History, Tidy, ReadsStand, NEW c \in Callers, Frame(c),
           Begins(c) \/ Executes(c) \/ Fails(c), NEW d \in Callers, NEW r \in Runs,
           at'[d] = "over", op[d].name \in {"fetchRun", "listRuns"}, r \in found'[d],
           op[d].value \in Ended, backend = "sqlite" => troubles' = 0
    PROVE  StandsNext(r, op[d].value)
<1>1. backend = "sqlite" => troubles = 0
    BY TroublesStay
<1>2. CASE d # c
  <2>1. Stands(r, op[d].value)
      BY <1>1, <1>2 DEF ReadsStand, Frame
  <2> QED BY <2>1, StandsStep
<1>3. CASE d = c
  <2>1. CASE Begins(c)
      BY <1>3, <2>1 DEF Begins, Turns, Base, Scripted
  <2>2. CASE Fails(c)
      BY <1>3, <2>2 DEF Fails, Base, Scripted
  <2>3. CASE Executes(c)
    <3>1. PICK s, t, k :
            Acts(c, s, t, k) /\ found'[c] = Learns(c, s, View(c), k)
        BY <2>3 DEF Executes
    <3>2. s \in {"readRun", "readRuns"} /\ s \in Reads /\ s # "scan"
        BY <1>3, <3>1 DEF Acts, Fits, Belongs, Reads
    <3>3. Quiet
        BY <3>1, <3>2 DEF Acts, Does
    <3>4. View(c) = rows
        BY <1>1, <3>1, <3>2, ReadsCommitted
    <3>5. rows[r].status = op[d].value
        BY <1>3, <3>1, <3>2, <3>4 DEF Learns
    <3>6. rows[r] = Row(op[d].value) /\ rows[r] # Absent
      <4>1. rows[r] \in RowType /\ r \in Keys
          BY DEF Base, Shape, Keys
      <4>2. rows[r].stale = FALSE
          BY <3>5, <4>1 DEF History, Values, InFlight, Ended, RowType
      <4>3. rows[r] = [status |-> rows[r].status, stale |-> rows[r].stale]
          BY <4>1 DEF RowType
      <4>4. rows[r] = Row(op[d].value)
          BY <3>5, <4>2, <4>3 DEF Row
      <4>5. Row(op[d].value) # Absent
          BY DEF Row, Absent, Ended
      <4> QED BY <4>4, <4>5
    <3>7. \A x \in Conns : r \in DOMAIN written[x] => written[x][r] \in {rows[r], Absent}
        BY <3>5 DEF History, Follows
    <3>8. \A e \in Callers : ~Ahead(e, r)'
      <4>1. \A e \in Callers : ~Ahead(e, r)
          BY <3>6 DEF History, Fresh
      <4> QED BY <4>1, AheadStep
    <3> QED BY <3>3, <3>6, <3>7, <3>8 DEF StandsNext, Quiet
  <2> QED BY <2>1, <2>2, <2>3
<1> QED BY <1>2, <1>3

\* Tidy and ReadsStand in the beginning.
LEMMA ToldInit == ASSUME Init PROVE Tidy /\ ReadsStand
BY DEF Init, Tidy, ReadsStand

\* They are kept.
LEMMA ToldStep ==
    ASSUME Base, Locked, History, Tidy, ReadsStand, [Next]_vars
    PROVE  Tidy' /\ ReadsStand'
<1>1. CASE Next
  <2>1. PICK c \in Callers : Frame(c) /\ (Begins(c) \/ Executes(c) \/ Fails(c))
      BY <1>1, StepIs
  <2>2. op' = op /\ backend' = backend
      BY <2>1 DEF Frame
  <2>3. Tidy'
      BY <2>1, <2>2, TidyStep DEF Tidy, Running
  <2>4. ASSUME NEW d \in Callers, NEW r \in Runs
        PROVE  Stands(r, op[d].value)' <=> StandsNext(r, op[d].value)
      BY <2>2 DEF Stands, StandsNext
  <2>5. ReadsStand'
      BY <2>1, <2>2, <2>4, ReadsStandStep DEF ReadsStand
  <2> QED BY <2>3, <2>5
<1>2. CASE UNCHANGED vars
    BY <1>2 DEF vars, callVars, Tidy, ReadsStand, Stands, Ahead, Running
<1> QED BY <1>1, <1>2

\* What a caller was told stands: the end of a run that a write was
\* acknowledged for or a read returned is never overwritten or lost.  Of
\* SQLite, whose readers share a connection with interrupted writers, the part
\* on reads is about calls without trouble.
THEOREM WhatCallersKnowStands == Spec => []EndsStand
<1>1. Credits /\ ReadsStand => EndsStand
  <2> SUFFICES ASSUME Credits, ReadsStand, NEW c \in Callers, NEW r \in Runs,
                      \/ Over(c, "updateRunStatus") /\ c \in Winners(r)
                      \/ /\ Over(c, "fetchRun") \/ Over(c, "listRuns")
                         /\ r \in found[c] /\ op[c].value \in Ended
                         /\ backend = "sqlite" => troubles = 0
               PROVE  rows[r] \in {Row(op[c].value), Absent}
      BY DEF EndsStand
  <2>1. CASE Over(c, "updateRunStatus") /\ c \in Winners(r)
    <3>1. Credited(c, r) /\ ~Running(c) /\ End(c) = op[c].value
        BY <2>1, WinnersAreCredited DEF Over, Running, End
    <3> QED BY <3>1 DEF Credits, Credit, Stands
  <2>2. CASE ~(Over(c, "updateRunStatus") /\ c \in Winners(r))
      BY <2>2 DEF ReadsStand, Over, Stands
  <2> QED BY <2>1, <2>2
<1>2. Spec => [](Tidy /\ ReadsStand)
    BY HistoryInvariant, ToldInit, ToldStep, PTL DEF Spec
<1> QED BY <1>1, <1>2, CreditsInvariant, PTL

-----------------------------------------------------------------------------
(* What a sweep claimed is reported.                                       *)

\* A run has the status error only where a sweep has claimed it.
OnlySweepsFail ==
    /\ \A c \in Callers : \A o \in Calls[c] : o.name = "updateRunStatus" => o.value # "error"
    /\ \A t \in FirstRows : \A r \in Runs : t[r].status # "error"

Sweeps(c) == op[c].name = "failStaleRuns"

\* The sweep c reports run r, or cannot know whether it claimed it.
Reports(c, r) ==
    /\ Sweeps(c)
    /\ \/ c \in doubtful
       \/ r \in found[c] /\ Running(c) /\ ~Transactional
       \/ r \in found[c] /\ at[c] = "over" /\ answer[c] = "done"

\* The sweep c has claimed run r on connection x, and has yet to commit.
Claiming(c, x, r) == Sweeps(c) /\ Running(c) /\ Conn(c) = x /\ r \in found[c]

Reported ==
    /\ \A r \in Runs : rows[r].status = "error" => \E c \in Callers : Reports(c, r)
    /\ \A x \in Conns : \A r \in Runs :
         r \in DOMAIN written[x] /\ written[x][r].status = "error" =>
             \E c \in Callers : Claiming(c, x, r)

ReportsNext(c, r) ==
    /\ Sweeps(c)
    /\ \/ c \in doubtful'
       \/ r \in found'[c] /\ at'[c] = "running" /\ ~Transactional
       \/ r \in found'[c] /\ at'[c] = "over" /\ answer'[c] = "done"

ClaimingNext(c, x, r) ==
    Sweeps(c) /\ at'[c] = "running" /\ Conn(c) = x /\ r \in found'[c]

\* Error is what a sweep writes, and it learns so.
LEMMA ErrorIsClaimed ==
    ASSUME OnlySweepsFail, Base, NEW c \in Callers, NEW s \in Writes, NEW t, NEW k,
           Acts(c, s, t, k), NEW r \in Runs, r \in DOMAIN Change(c, s, View(c), k),
           Change(c, s, View(c), k)[r].status = "error"
    PROVE  Sweeps(c) /\ s \in {"claim", "failStale"} /\ r \in Learns(c, s, View(c), k)
<1> DEFINE x == Change(c, s, View(c), k)[r]
<1>1. Fits(c, s) /\ op[c] \in Calls[c] /\ r # Thread
    BY KeysAssumption DEF Acts, Base, Shape
<1>2. RunWrite(c, s, View(c), r, x)
    BY <1>1, RunWrites
<1>3. s \in {"claim", "failStale"} /\ Sweeps(c)
  <2>1. Absent.status # "error" /\ Row("pending").status # "error"
      BY DEF Absent, Row
  <2>2. r \in Moving(View(c)) => Row(View(c)[r].status).status # "error"
      BY DEF Moving, Row, InFlight
  <2>3. op[c].name = "updateRunStatus" => Row(op[c].value).status # "error"
      BY <1>1 DEF OnlySweepsFail, Row
  <2> HIDE DEF x
  <2>4. x.status = "error"
      BY DEF x
  <2> QED BY <1>2, <2>1, <2>2, <2>3, <2>4 DEF RunWrite, Sweeps
<1> QED BY <1>3 DEF Learns

\* What a sweep knows after a statement.
LEMMA SweepLearns ==
    ASSUME Base, NEW c \in Callers, Sweeps(c), NEW s, NEW t, NEW k, NEW rest, NEW ans,
           Acts(c, s, t, k), Leads(c, s, t, k, rest, ans), Turns(c, rest, ans),
           found'[c] = Learns(c, s, View(c), k)
    PROVE  /\ found[c] \subseteq found'[c]
           /\ at'[c] \in {"running", "over"} /\ (at'[c] = "over" => answer'[c] = "done")
           /\ Transactional /\ s # "commit" => at'[c] = "running"
           /\ s \in {"scan", "claim", "failStale", "commit"} /\ ~Refused(c, s)
<1>1. Fits(c, s) /\ Position(Transactional, s, t) /\ s \in Statements
    BY DEF Acts, Position
<1>2. s \in {"scan", "claim", "failStale", "commit"}
    BY <1>1 DEF Fits, Belongs, Statements, Writes, Reads, Sweeps
<1>3. ~Refused(c, s)
    BY <1>2 DEF Refused, Conflicts, Dangles
<1>4. answer[c] = "none"
    BY DEF Base, Scripted, Acts, Sweeps
<1>5. ans = "none"
    BY <1>2, <1>3, <1>4 DEF Leads, Answer
<1>6. found[c] \subseteq found'[c]
    BY <1>2 DEF Learns
<1>7. Transactional /\ s # "commit" => rest # <<>>
    BY <1>1, <1>2, <1>3 DEF Leads, Position, Writes
<1> QED BY <1>2, <1>3, <1>5, <1>6, <1>7 DEF Turns

\* A report stays one.
LEMMA ReportStays ==
    ASSUME Base, NEW c \in Callers, Frame(c), Begins(c) \/ Executes(c) \/ Fails(c),
           NEW d \in Callers, NEW r \in Runs, Reports(d, r)
    PROVE  ReportsNext(d, r)
<1>1. CASE d \in doubtful
    BY <1>1 DEF Frame, Reports, ReportsNext
<1>2. CASE d # c
    BY <1>1, <1>2 DEF Frame, Reports, ReportsNext, Running
<1>3. CASE d = c /\ d \notin doubtful
  <2>1. Sweeps(c) /\ r \in found[c] /\ at[c] # "waiting"
      BY <1>3 DEF Reports, Running
  <2>2. Running(c) /\ ~Transactional
      BY <1>3, <2>1 DEF Reports, Begins, Executes, Fails, Acts, Running
  <2>3. CASE Executes(c)
    <3>1. PICK s, t, k, rest, ans :
            /\ Acts(c, s, t, k) /\ Leads(c, s, t, k, rest, ans) /\ Turns(c, rest, ans)
            /\ found'[c] = Learns(c, s, View(c), k)
        BY <2>3 DEF Executes
    <3>2. /\ found[c] \subseteq found'[c]
          /\ at'[c] \in {"running", "over"} /\ (at'[c] = "over" => answer'[c] = "done")
        BY <2>1, <3>1, SweepLearns
    <3> QED BY <1>3, <2>1, <2>2, <3>2 DEF ReportsNext
  <2>4. CASE Fails(c)
    <3>1. backend = "mongo"
        BY <2>2, <2>4, BackendsAssumption DEF Fails, Transactional, Base, Shape
    <3>2. c \in doubtful' \/ (at'[c] = "over" /\ answer'[c] = "done")
        BY <2>1, <2>4, <3>1 DEF Fails, Turns, Sweeps
    <3>3. found'[c] = found[c]
        BY <2>4 DEF Fails
    <3> QED BY <1>3, <2>1, <3>2, <3>3 DEF ReportsNext
  <2> QED BY <2>1, <2>3, <2>4 DEF Begins
<1> QED BY <1>1, <1>2, <1>3

\* The call whose transaction has written error is a sweep.
LEMMA ClaimsAreOwn ==
    ASSUME Base, Locked, Reported, Transactional, NEW c \in Callers, Running(c),
           NEW r \in Runs, r \in DOMAIN written[Conn(c)], written[Conn(c)][r].status = "error"
    PROVE  Sweeps(c) /\ r \in found[c]
<1>1. PICK d \in Callers : Claiming(d, Conn(c), r)
    BY ConnIs DEF Reported
<1>2. d = c
    BY <1>1, OwnConnection DEF Claiming
<1> QED BY <1>1, <1>2 DEF Claiming

\* How a statement can bring a run into the committed state error.
LEMMA ErrorCommitted ==
    ASSUME OnlySweepsFail, Base, Locked, Reported, NEW c \in Callers,
           NEW s, NEW t, NEW k, Acts(c, s, t, k), NEW r \in Runs,
           rows'[r].status = "error", rows'[r] # rows[r]
    PROVE  /\ Sweeps(c)
           /\ \/ Transactional /\ s = "commit" /\ r \in found[c]
              \/ ~Transactional /\ r \in Learns(c, s, View(c), k)
<1>1. /\ Shape /\ Does(c, s, k) /\ s \in Statements /\ (s = "commit" => Transactional)
      /\ Transactional => Running(c)
      /\ r \in Keys /\ DOMAIN rows = Keys
    BY DEF Acts, Position, Base, Shape, Keys, Transactional
<1>2. CASE s = "commit"
  <2>1. rows'[r] = IF r \in DOMAIN written[Conn(c)] THEN written[Conn(c)][r] ELSE rows[r]
      BY <1>1, <1>2, ViewIs DEF Does, Commits
  <2> QED BY <1>1, <1>2, <2>1, ClaimsAreOwn
<1>3. CASE s = "rollback"
    BY <1>1, <1>3 DEF Does, Drops
<1>4. CASE s \in Reads
    BY <1>1, <1>4 DEF Does, Quiet
<1>5. CASE s \in Writes
  <2> DEFINE ch == Change(c, s, View(c), k)
  <2>1. ~Transactional /\ rows' = Overlay(ch, rows)
      BY <1>1, <1>5 DEF Does, Quiet, Puts
  <2>2. r \in DOMAIN ch /\ rows'[r] = ch[r]
    <3> HIDE DEF ch
    <3> QED BY <1>1, <2>1 DEF Overlay
  <2>3. ch[r].status = "error"
    <3> HIDE DEF ch
    <3> QED BY <2>2
  <2> QED BY <1>5, <2>1, <2>2, <2>3, ErrorIsClaimed
<1> QED BY <1>1, <1>2, <1>3, <1>4, <1>5 DEF Statements

\* How a statement leaves error in a transaction.
LEMMA ErrorWritten ==
    ASSUME OnlySweepsFail, Base, Locked, Reported, NEW c \in Callers,
           NEW s, NEW t, NEW k, Acts(c, s, t, k), NEW r \in Runs,
           r \in DOMAIN written'[Conn(c)], written'[Conn(c)][r].status = "error"
    PROVE  /\ Sweeps(c) /\ Transactional /\ s # "commit"
           /\ r \in found[c] \/ r \in Learns(c, s, View(c), k)
<1>1. /\ Shape /\ Does(c, s, k) /\ s \in Statements /\ (s = "commit" => Transactional)
      /\ Transactional => Running(c)
      /\ r \in Keys /\ DOMAIN written = Conns /\ Conn(c) \in Conns /\ DOMAIN Nothing = {}
    BY ConnIs DEF Acts, Position, Base, Shape, Keys, Transactional, Nothing
<1>2. r \in DOMAIN written[Conn(c)] => Transactional
    BY <1>1 DEF Shape
<1>3. s \notin {"commit", "rollback"}
    BY <1>1, ClosedIsNothing DEF Does
<1>4. CASE Quiet
  <2>1. r \in DOMAIN written[Conn(c)] /\ written[Conn(c)][r].status = "error"
      BY <1>4 DEF Quiet
  <2> QED BY <1>1, <1>2, <1>3, <2>1, ClaimsAreOwn
<1>5. CASE ~Quiet
  <2> DEFINE ch == Change(c, s, View(c), k)
             f == written[Conn(c)]
  <2>1. s \in Writes /\ Puts(c, ch)
      BY <1>1, <1>3, <1>5 DEF Does, Statements
  <2>2. Transactional /\ written'[Conn(c)] = Overlay(ch, f)
    <3>1. ~Transactional => r \in DOMAIN f
        BY <2>1 DEF Puts
    <3> HIDE DEF ch
    <3> QED BY <1>1, <1>2, <2>1, <3>1 DEF Puts
  <2>3. CASE r \in DOMAIN ch
    <3>1. ch[r].status = "error"
      <4> HIDE DEF ch
      <4> QED BY <2>2, <2>3 DEF Overlay
    <3> QED BY <1>3, <2>1, <2>2, <2>3, <3>1, ErrorIsClaimed
  <2>4. CASE r \notin DOMAIN ch
    <3>1. r \in DOMAIN f /\ f[r].status = "error"
      <4> HIDE DEF ch, f
      <4> QED BY <2>2, <2>4 DEF Overlay
    <3> QED BY <1>1, <1>3, <2>2, <3>1, ClaimsAreOwn
  <2> QED BY <2>3, <2>4
<1> QED BY <1>4, <1>5

\* A run that is in error after a step has its report.
LEMMA ErrorReported ==
    ASSUME OnlySweepsFail, Base, Locked, Reported, NEW c \in Callers, Frame(c),
           Begins(c) \/ Executes(c) \/ Fails(c), NEW r \in Runs, rows'[r].status = "error"
    PROVE  \E d \in Callers : ReportsNext(d, r)
<1>1. CASE rows'[r] = rows[r]
  <2>1. PICK d \in Callers : Reports(d, r)
      BY <1>1 DEF Reported
  <2> QED BY <2>1, ReportStays
<1>2. CASE rows'[r] # rows[r]
  <2>1. CASE Begins(c)
      BY <1>2, <2>1 DEF Begins, Quiet
  <2>2. CASE Executes(c)
    <3>1. PICK s, t, k, rest, ans :
            /\ Acts(c, s, t, k) /\ Leads(c, s, t, k, rest, ans) /\ Turns(c, rest, ans)
            /\ found'[c] = Learns(c, s, View(c), k)
        BY <2>2 DEF Executes
    <3>2. /\ Sweeps(c)
          /\ \/ Transactional /\ s = "commit" /\ r \in found[c]
             \/ ~Transactional /\ r \in found'[c]
        BY <1>2, <3>1, ErrorCommitted
    <3>3. /\ found[c] \subseteq found'[c]
          /\ at'[c] \in {"running", "over"} /\ (at'[c] = "over" => answer'[c] = "done")
          /\ ~Refused(c, s)
        BY <3>1, <3>2, SweepLearns
    <3>4. s = "commit" => at'[c] = "over"
      <4>1. s = "commit" => t = <<>> /\ rest = t
          BY <3>1, <3>3 DEF Acts, Position, Leads
      <4> QED BY <3>1, <4>1 DEF Turns
    <3> QED BY <3>2, <3>3, <3>4 DEF ReportsNext
  <2>3. CASE Fails(c)
    <3>1. CASE Commits(c) /\ RollsBack(op[c]) /\ c \in doubtful'
      <4>1. Transactional /\ Running(c) /\ r \in Keys
          BY <2>3, <3>1 DEF RollsBack, Transactional, Fails, Keys
      <4>2. rows'[r] = IF r \in DOMAIN written[Conn(c)] THEN written[Conn(c)][r] ELSE rows[r]
          BY <3>1, <4>1, ViewIs DEF Commits, Base
      <4>3. Sweeps(c)
          BY <1>2, <4>1, <4>2, ClaimsAreOwn
      <4> QED BY <3>1, <4>3 DEF ReportsNext
    <3>2. ASSUME NEW s, NEW t, NEW k, Acts(c, s, t, k), c \in doubtful'
          PROVE  ReportsNext(c, r)
        BY <1>2, <3>2, ErrorCommitted DEF ReportsNext
    <3>3. rows' # rows
        BY <1>2
    <3> QED BY <2>3, <3>1, <3>2, <3>3 DEF Fails, Quiet, Drops
  <2> QED BY <2>1, <2>2, <2>3
<1> QED BY <1>1, <1>2

\* A run that a transaction has in error after a step is being claimed.
LEMMA ErrorClaiming ==
    ASSUME OnlySweepsFail, Base, Locked, Reported, NEW c \in Callers, Frame(c),
           Begins(c) \/ Executes(c) \/ Fails(c), NEW x \in Conns, NEW r \in Runs,
           r \in DOMAIN written'[x], written'[x][r].status = "error"
    PROVE  \E d \in Callers : ClaimingNext(d, x, r)
<1>1. /\ Shape /\ Data(c) /\ Conn(c) \in Conns /\ Thread \in Keys
      /\ DOMAIN Nothing = {}
    BY StepData, ConnIs DEF Base, Keys, Nothing
<1>2. CASE written'[x] = written[x] /\ (x # Conn(c) \/ ~Running(c))
  <2>1. PICK d \in Callers : Claiming(d, x, r)
      BY <1>2 DEF Reported
  <2> QED BY <1>2, <2>1 DEF Claiming, ClaimingNext, Frame, Running
<1>3. x # Conn(c) => written'[x] = written[x]
    BY <1>1, Cells DEF CellStep
<1>4. Begins(c) => written'[x] = written[x] /\ ~Running(c)
    BY DEF Begins, Quiet, Running
<1>5. CASE x = Conn(c) /\ Executes(c)
  <2>1. PICK s, t, k, rest, ans :
          /\ Acts(c, s, t, k) /\ Leads(c, s, t, k, rest, ans) /\ Turns(c, rest, ans)
          /\ found'[c] = Learns(c, s, View(c), k)
      BY <1>5 DEF Executes
  <2>2. Sweeps(c) /\ Transactional /\ s # "commit" /\ (r \in found[c] \/ r \in found'[c])
      BY <1>5, <2>1, ErrorWritten
  <2>3. found[c] \subseteq found'[c] /\ at'[c] = "running"
      BY <2>1, <2>2, SweepLearns
  <2> QED BY <1>5, <2>2, <2>3 DEF ClaimingNext
<1>6. CASE x = Conn(c) /\ Fails(c)
  <2>1. Sweeps(c) /\ Transactional => RollsBack(op[c])
      BY DEF Sweeps, Transactional, RollsBack, SqliteRollsBack, PostgresRollsBack
  <2>2. CASE Quiet /\ ~RollsBack(op[c])
    <3>1. r \in DOMAIN written[x] /\ written[x][r].status = "error"
        BY <2>2 DEF Quiet
    <3>2. Transactional
        BY <1>1, <3>1 DEF Shape
    <3>3. Running(c)
        BY <1>6 DEF Fails
    <3> QED BY <1>6, <2>1, <2>2, <3>1, <3>2, <3>3, ClaimsAreOwn
  <2>3. CASE Drops(c) \/ Commits(c)
      BY <1>1, <1>6, <2>3, ClosedIsNothing
  <2>4. ASSUME NEW s, NEW t, NEW k, Acts(c, s, t, k), ~RollsBack(op[c])
        PROVE  FALSE
      BY <1>6, <2>1, <2>4, ErrorWritten
  <2> QED BY <1>6, <2>2, <2>3, <2>4 DEF Fails
<1> QED BY <1>2, <1>3, <1>4, <1>5, <1>6

\* Nothing is in error in the beginning.
LEMMA ReportedInit == ASSUME OnlySweepsFail, Init PROVE Reported
<1>1. \A x \in Conns : DOMAIN written[x] = {}
    BY DEF Init, Nothing
<1> QED BY <1>1 DEF Init, OnlySweepsFail, Reported

\* Reported, step by step.
LEMMA ReportedStep ==
    ASSUME OnlySweepsFail, Base, Locked, Reported, [Next]_vars
    PROVE  Reported'
<1>1. CASE Next
  <2>1. PICK c \in Callers : Frame(c) /\ (Begins(c) \/ Executes(c) \/ Fails(c))
      BY <1>1, StepIs
  <2>2. op' = op /\ backend' = backend
      BY <2>1 DEF Frame
  <2>3. ASSUME NEW d \in Callers, NEW r \in Runs, NEW x \in Conns
        PROVE  /\ Reports(d, r)' <=> ReportsNext(d, r)
               /\ Claiming(d, x, r)' <=> ClaimingNext(d, x, r)
      BY <2>2 DEF Reports, ReportsNext, Claiming, ClaimingNext, Sweeps, Running, Conn,
         Transactional
  <2>4. \A r \in Runs : rows'[r].status = "error" => \E d \in Callers : ReportsNext(d, r)
      BY <2>1, ErrorReported
  <2>5. \A x \in Conns : \A r \in Runs :
          r \in DOMAIN written'[x] /\ written'[x][r].status = "error" =>
              \E d \in Callers : ClaimingNext(d, x, r)
      BY <2>1, ErrorClaiming
  <2>6. \A d \in Callers, r \in Runs : Reports(d, r)' <=> ReportsNext(d, r)
      BY <2>3, ConnIs
  <2>7. \A d \in Callers, r \in Runs, x \in Conns :
          Claiming(d, x, r)' <=> ClaimingNext(d, x, r)
      BY <2>3
  <2> QED BY <2>4, <2>5, <2>6, <2>7 DEF Reported
<1>2. CASE UNCHANGED vars
    BY <1>2 DEF vars, callVars, Reported, Reports, Claiming, Sweeps, Running, Conn,
       Transactional
<1> QED BY <1>1, <1>2

\* A run that a sweep failed is reported by the sweep, in any interleaving of
\* sweeps and other writers, also where the sweep itself is cut short, unless
\* the answer to its last statement was lost.
THEOREM SweepsReport ==
    ASSUME OnlySweepsFail
    PROVE  Spec => []ClaimsAreReported
<1>1. Reported => ClaimsAreReported
    BY DEF Reported, Reports, Sweeps, Running, ClaimsAreReported
<1>2. Spec => []Reported
    BY LockedInvariant, ReportedInit, ReportedStep, PTL DEF Spec
<1> QED BY <1>1, <1>2, PTL

-----------------------------------------------------------------------------
(* Creates agree.                                                          *)

NoDelete == \A c \in Callers : op[c].name # "deleteThread"

\* No transaction has deleted the thread.
NoneDeletes == \A x \in Conns : Thread \in DOMAIN written[x] => written[x][Thread] # Absent

\* A create knows of the thread: it made it, and has committed it or has yet
\* to, or found it there.
Knows(c) ==
    /\ answer[c] # "vanished"
    /\ answer[c] \in {"exists", "existing"} => rows[Thread] # Absent
    /\ answer[c] = "created" =>
         IF at[c] = "over" THEN rows[Thread] # Absent
         ELSE Transactional /\ Thread \in DOMAIN written[Conn(c)]
    /\ Running(c) /\ Head(script[c]) \in {"rollback", "readThread", "fetchThread"} =>
         answer[c] \in {"exists", "existing"}

Creates(c) == op[c].name = "createThread"

Orderly == NoDelete /\ (backend = "sqlite" => troubles = 0)

Agreed ==
    Orderly =>
        /\ NoneDeletes
        /\ \A c \in Callers : Creates(c) => Knows(c)
        /\ \A c, d \in Callers :
             Creates(c) /\ Creates(d) /\ answer[c] = "created" /\ answer[d] = "created" => c = d

KnowsNext(c) ==
    /\ answer'[c] # "vanished"
    /\ answer'[c] \in {"exists", "existing"} => rows'[Thread] # Absent
    /\ answer'[c] = "created" =>
         IF at'[c] = "over" THEN rows'[Thread] # Absent
         ELSE Transactional /\ Thread \in DOMAIN written'[Conn(c)]
    /\ at'[c] = "running" /\ Head(script'[c]) \in {"rollback", "readThread", "fetchThread"} =>
         answer'[c] \in {"exists", "existing"}

\* A thread that nobody deletes is there for good.
LEMMA ThreadStays ==
    ASSUME Base, NoDelete, NoneDeletes, NEW c \in Callers, Data(c)
    PROVE  /\ rows[Thread] # Absent => rows'[Thread] # Absent
           /\ \A x \in Conns : Thread \in DOMAIN written'[x] => written'[x][Thread] # Absent
<1>1. Thread \in Keys /\ Conn(c) \in Conns
    BY ConnIs DEF Keys
<1>2. ASSUME NEW x, New(c, Thread, x) PROVE x # Absent
  <2>1. PICK s, t, j :
          /\ Acts(c, s, t, j) /\ s \in Writes
          /\ Thread \in DOMAIN Change(c, s, View(c), j)
          /\ x = Change(c, s, View(c), j)[Thread]
      BY <1>2 DEF New
  <2>2. Fits(c, s) /\ op[c] \in Calls[c]
      BY <2>1 DEF Acts, Base, Shape
  <2>3. ThreadWrite(c, s, View(c), x)
      BY <2>1, <2>2, ThreadWrites
  <2>4. s # "deleteThread" /\ Row("idle") # Absent
      BY <2>2 DEF Fits, Belongs, NoDelete, Row, Absent
  <2> QED BY <2>3, <2>4 DEF ThreadWrite
<1>3. CellStep(c, Thread)
    BY <1>1, Cells DEF Base
<1> QED BY <1>1, <1>2, <1>3 DEF CellStep, NoneDeletes

\* What a call sees includes what is committed, and what it has written.
LEMMA ThreadSeen ==
    ASSUME Base, NoneDeletes, NEW c \in Callers
    PROVE  /\ rows[Thread] # Absent => View(c)[Thread] # Absent
           /\ Thread \in DOMAIN written[Conn(c)] => View(c)[Thread] # Absent
BY ConnIs, ViewIs DEF Base, Keys, NoneDeletes

\* A create's own step.
LEMMA OwnCreate ==
    ASSUME Base, Locked, Tidy, Orderly, NoneDeletes, NEW c \in Callers, Frame(c), Creates(c),
           Knows(c), Begins(c) \/ Executes(c) \/ Fails(c)
    PROVE  /\ KnowsNext(c)
           /\ answer'[c] = "created" =>
                answer[c] = "created" \/ (\E x : New(c, Thread, x) /\ View(c)[Thread] = Absent)
<1>1. /\ Shape /\ Data(c) /\ Thread \in Keys /\ Conn(c) \in Conns /\ DOMAIN written = Conns
      /\ DOMAIN rows = Keys /\ backend \in Backends /\ op[c] \in Calls[c] /\ NoDelete
    BY StepData, ConnIs DEF Base, Shape, Keys, Orderly
<1>2. rows[Thread] # Absent => rows'[Thread] # Absent
    BY <1>1, ThreadStays
<1>3. CASE Begins(c)
  <2>1. PICK rest : /\ Turns(c, rest, "none")
                    /\ \/ rest = <<>> /\ op[c].name = "updateThread"
                       \/ Rest(c, rest) /\ rest = Script(op[c])
      BY <1>3 DEF Begins
  <2>2. rest = Script(op[c]) /\ answer'[c] \in {"none", "done"} /\ script'[c] = rest
      BY <2>1 DEF Turns, Creates
  <2>3. Head(rest) = "insertThread"
    <3>1. CASE backend = "sqlite"
        BY <2>2, <3>1, Two DEF Script, SqliteScript, SqliteCreateThread, Creates
    <3>2. CASE backend = "postgres"
        BY <2>2, <3>2, Two DEF Script, PostgresScript, PostgresCreateThread, Creates
    <3>3. CASE backend = "mongo"
        BY <2>2, <3>3, One DEF Script, MongoScript, MongoCreateThread, Creates
    <3> QED BY <1>1, <1>3, <3>1, <3>2, <3>3, BackendsAssumption DEF Begins
  <2> QED BY <2>2, <2>3 DEF KnowsNext
<1>4. CASE Fails(c)
    BY <1>4 DEF Fails, Turns, KnowsNext
<1>5. CASE Executes(c)
  <2>1. PICK s, t, k, rest, ans :
          Acts(c, s, t, k) /\ Leads(c, s, t, k, rest, ans) /\ Turns(c, rest, ans)
      BY <1>5 DEF Executes
  <2>2. /\ Fits(c, s) /\ Position(Transactional, s, t) /\ s \in Statements /\ Does(c, s, k)
        /\ Running(c) => s = Head(script[c])
        /\ Running(c) \/ s = "insertThread"
    <3>1. ASSUME backend = "memory" PROVE Script(op[c])[1] = "insertThread"
        BY <3>1 DEF Script, ThreadCalls, MemoryThreadCall, Creates
    <3>2. (Running(c) /\ s = Head(script[c])) \/ s = "insertThread"
        BY <2>1, <3>1 DEF Acts
    <3>3. Running(c) => s = Head(script[c])
        BY <2>1 DEF Acts, Running
    <3> QED BY <2>1, <3>2, <3>3 DEF Acts, Position
  <2>3. s \in {"insertThread", "commit", "rollback", "readThread", "fetchThread"}
      BY <2>2 DEF Fits, Belongs, Creates, Statements, Writes, Reads
  <2>4. /\ at'[c] = IF rest = <<>> THEN "over" ELSE "running"
        /\ script'[c] = rest /\ (answer'[c] = ans \/ (ans = "none" /\ answer'[c] = "done"))
        /\ ans = "none" \/ answer'[c] = ans
      BY <2>1 DEF Turns
  <2>5. CASE s = "insertThread" /\ Refused(c, s)
    <3>1. Conflicts(c, s, View(c)) /\ Quiet
        BY <2>2, <2>5 DEF Refused, Dangles, Does, Writes
    <3>2. ans \in {"exists", "existing"} /\ answer'[c] = ans
        BY <2>1, <2>4, <3>1 DEF Leads
    <3>3. View(c) = rows
        BY <2>1, <2>5, ReadsCommitted DEF Orderly
    <3>4. rows'[Thread] # Absent
        BY <3>1, <3>3 DEF Conflicts, Present, Quiet
    <3> QED BY <3>2, <3>4 DEF KnowsNext
  <2>6. CASE s = "insertThread" /\ ~Refused(c, s)
    <3> DEFINE ch == Change(c, s, View(c), k)
    <3>1. /\ rest = t /\ ans = "created" /\ answer'[c] = "created"
          /\ View(c)[Thread] = Absent
        BY <1>1, <2>1, <2>4, <2>6 DEF Leads, Answer, Refused, Conflicts, Present
    <3>2. Thread \in DOMAIN ch /\ ch[Thread] = Row("idle") /\ Row("idle") # Absent
        BY <2>6 DEF Change, Row, Absent
    <3>3. \E x : New(c, Thread, x)
        BY <2>1, <2>6, <3>2 DEF New, Writes
    <3>4. Puts(c, ch)
        BY <2>2, <2>6 DEF Does, Writes
    <3> HIDE DEF ch
    <3>5. CASE Transactional
      <4>1. t \in {<<"commit">>, <<"deleteThread", "commit">>}
          BY <2>2, <2>6, <3>5 DEF Position, Writes
      <4>2. t # <<>> /\ Head(t) \in {"commit", "deleteThread"}
          BY <4>1, One, Two
      <4>3. Thread \in DOMAIN written'[Conn(c)]
        <5>1. written'[Conn(c)] = Overlay(ch, written[Conn(c)])
            BY <1>1, <3>4, <3>5 DEF Puts
        <5> QED BY <3>2, <5>1 DEF Overlay
      <4> QED BY <2>4, <3>1, <3>3, <3>5, <4>2, <4>3 DEF KnowsNext
    <3>6. CASE ~Transactional
      <4>1. t = <<>>
          BY <2>2, <2>6, <3>6 DEF Position
      <4>2. rows'[Thread] # Absent
        <5>1. rows' = Overlay(ch, rows)
            BY <3>4, <3>6 DEF Puts
        <5> QED BY <3>2, <5>1 DEF Overlay
      <4> QED BY <2>4, <3>1, <3>3, <4>1, <4>2 DEF KnowsNext
    <3> QED BY <3>5, <3>6
  <2>7. CASE s \in {"commit", "rollback"}
    <3>1. /\ rest = t /\ ans = answer[c] /\ Running(c) /\ Transactional
        BY <2>1, <2>2, <2>7 DEF Leads, Answer, Position, Refused, Conflicts, Dangles
    <3>2. CASE s = "rollback"
      <4>1. ans \in {"exists", "existing"}
          BY <2>2, <3>1, <3>2 DEF Knows
      <4> QED BY <1>2, <2>4, <3>1, <4>1 DEF KnowsNext, Knows
    <3>3. CASE s = "commit"
      <4>1. t = <<>> /\ Commits(c)
          BY <2>2, <3>3 DEF Position, Does
      <4>2. answer[c] = "created" => rows'[Thread] # Absent
        <5>1. answer[c] = "created" => Thread \in DOMAIN written[Conn(c)]
            BY <3>1 DEF Knows, Running
        <5> QED BY <4>1, <5>1, ThreadSeen DEF Commits
      <4> QED BY <1>2, <2>4, <3>1, <4>1, <4>2 DEF KnowsNext, Knows
    <3> QED BY <2>7, <3>2, <3>3
  <2>8. CASE s \in {"readThread", "fetchThread"}
    <3>1. Running(c)
        BY <2>2, <2>8
    <3>2. answer[c] \in {"exists", "existing"}
        BY <2>2, <2>8, <3>1 DEF Knows
    <3>3. View(c)[Thread] # Absent
        BY <3>2, ThreadSeen DEF Knows
    <3>4. ans = "existing"
        BY <1>1, <2>1, <2>8, <3>3
           DEF Leads, Answer, Refused, Conflicts, Dangles, Present, Creates
    <3> QED BY <1>2, <2>4, <3>2, <3>4 DEF KnowsNext, Knows
  <2> QED BY <2>3, <2>5, <2>6, <2>7, <2>8
<1> QED BY <1>3, <1>4, <1>5

\* What another create knows stays so.
LEMMA OtherCreate ==
    ASSUME Base, Locked, NoDelete, NoneDeletes, NEW c \in Callers, Frame(c),
           Begins(c) \/ Executes(c) \/ Fails(c), NEW d \in Callers \ {c}, Knows(d)
    PROVE  KnowsNext(d)
<1>1. Data(c) /\ (rows[Thread] # Absent => rows'[Thread] # Absent)
    BY StepData, ThreadStays
<1>2. /\ at'[d] = at[d] /\ script'[d] = script[d] /\ answer'[d] = answer[d]
    BY DEF Frame
<1>3. ASSUME answer[d] = "created", at[d] # "over"
      PROVE  Transactional /\ Thread \in DOMAIN written'[Conn(d)]
  <2>1. Running(d) /\ Transactional /\ Thread \in DOMAIN written[Conn(d)]
      BY <1>3 DEF Knows, Base, Shape, Scripted, Running
  <2> QED BY <2>1, OthersKeep
<1> QED BY <1>1, <1>2, <1>3 DEF Knows, KnowsNext, Running

\* A create that makes the thread is the only one.
LEMMA OnlyCreate ==
    ASSUME Base, Locked, NoneDeletes, NEW c \in Callers, Executes(c), NEW x, New(c, Thread, x),
           View(c)[Thread] = Absent, NEW d \in Callers \ {c}, Knows(d), answer[d] = "created"
    PROVE  FALSE
<1>1. rows[Thread] = Absent
    BY ThreadSeen
<1>2. Running(d) /\ Transactional /\ Thread \in DOMAIN written[Conn(d)]
    BY <1>1 DEF Knows, Base, Shape, Scripted, Running
<1>3. Running(c)
    BY <1>2 DEF Executes, Acts, Transactional
<1>4. Conn(d) # Conn(c) /\ Conn(d) \in Conns
    BY <1>2, <1>3, OwnConnection, ConnIs
<1>5. Alone(c, Thread)
    BY WritesAlone
<1> QED BY <1>2, <1>4, <1>5 DEF Alone

\* Agreed, step by step.
LEMMA AgreedStep ==
    ASSUME Base, Locked, Tidy, Agreed, [Next]_vars
    PROVE  Agreed'
<1>1. CASE Next
  <2>1. PICK c \in Callers : Frame(c) /\ (Begins(c) \/ Executes(c) \/ Fails(c))
      BY <1>1, StepIs
  <2>2. op' = op /\ backend' = backend /\ Data(c) /\ (troubles' = 0 => troubles = 0)
      BY <2>1, StepData, TroublesStay DEF Frame
  <2>3. Orderly' => Orderly
      BY <2>2 DEF Orderly, NoDelete
  <2>4. ASSUME Orderly
        PROVE  /\ NoneDeletes'
               /\ \A d \in Callers : Creates(d) => KnowsNext(d)
               /\ \A d, e \in Callers :
                    Creates(d) /\ Creates(e) /\ answer'[d] = "created" /\ answer'[e] = "created"
                        => d = e
    <3>1. NoneDeletes /\ NoDelete /\ \A d \in Callers : Creates(d) => Knows(d)
        BY <2>4 DEF Agreed, Orderly
    <3>2. NoneDeletes'
        BY <2>2, <3>1, ThreadStays DEF NoneDeletes
    <3>3. ASSUME NEW d \in Callers, Creates(d) PROVE KnowsNext(d)
      <4>1. CASE d = c
          BY <2>1, <2>4, <3>1, <3>3, <4>1, OwnCreate
      <4>2. CASE d # c
          BY <2>1, <3>1, <3>3, <4>2, OtherCreate
      <4> QED BY <4>1, <4>2
    <3>4. ASSUME Creates(c), answer'[c] = "created", NEW d \in Callers \ {c}, Creates(d),
                 answer'[d] = "created"
          PROVE  FALSE
      <4>1. answer[d] = "created" /\ answer[c] # "created" /\ Knows(d) /\ Knows(c)
          BY <2>1, <2>4, <3>1, <3>4 DEF Frame, Agreed
      <4>2. PICK x : New(c, Thread, x) /\ View(c)[Thread] = Absent
          BY <2>1, <2>4, <3>1, <3>4, <4>1, OwnCreate
      <4>3. Executes(c)
          BY <2>1, <3>4 DEF Begins, Fails, Turns
      <4> QED BY <3>1, <4>1, <4>2, <4>3, OnlyCreate
    <3>5. ASSUME NEW d \in Callers, NEW e \in Callers, Creates(d), Creates(e),
                 answer'[d] = "created", answer'[e] = "created"
          PROVE  d = e
      <4>1. CASE d = c \/ e = c
          BY <3>4, <3>5, <4>1
      <4>2. CASE d # c /\ e # c
          BY <2>1, <2>4, <3>5, <4>2 DEF Frame, Agreed
      <4> QED BY <4>1, <4>2
    <3> QED BY <3>2, <3>3, <3>5
  <2>5. \A d \in Callers : (Creates(d)' <=> Creates(d)) /\ (Knows(d)' <=> KnowsNext(d))
      BY <2>2 DEF Creates, Knows, KnowsNext, Running, Conn, Transactional
  <2> QED BY <2>3, <2>4, <2>5 DEF Agreed
<1>2. CASE UNCHANGED vars
    BY <1>2 DEF vars, callVars, Agreed, Orderly, NoDelete, NoneDeletes, Creates, Knows, Running,
       Conn, Transactional
<1> QED BY <1>1, <1>2

\* Creates agree in the beginning.
LEMMA AgreedInit == ASSUME Init PROVE Agreed
<1>1. \A x \in Conns : DOMAIN written[x] = {}
    BY DEF Init, Nothing
<1> QED BY <1>1 DEF Init, Agreed, NoneDeletes, Knows, Running

\* Concurrent creates of one thread agree on who made it: one at most is told
\* that it did, no create of a thread that nobody deletes finds it vanished,
\* and whoever was told that it exists can count on its row.
THEOREM CreatesAgreeAlways == Spec => []CreatesAgree
<1>1. Shape /\ Agreed => CreatesAgree
  <2> DEFINE made == {c \in Callers : Over(c, "createThread") /\ answer[c] = "created"}
  <2> SUFFICES ASSUME Shape, Agreed, NoDelete, ~(backend = "sqlite" /\ troubles > 0)
               PROVE  /\ Cardinality(made) <= 1
                      /\ \A c \in Callers : Over(c, "createThread") =>
                           /\ answer[c] # "vanished"
                           /\ answer[c] \in {"created", "exists", "existing"} =>
                                Thread \in Present(rows)
      BY DEF CreatesAgree, NoDelete
  <2>1. Orderly
    <3>1. troubles \in Nat
        BY PoolAssumption DEF Shape
    <3>2. ~(troubles > 0) => troubles = 0
        BY <3>1
    <3> QED BY <3>2 DEF Orderly
  <2>2. \A c, d \in made : c = d
      BY <2>1 DEF Agreed, Creates, Over
  <2>3. Cardinality(made) <= 1
    <3> HIDE DEF made
    <3>1. CASE made = {}
        BY <3>1, FS_EmptySet
    <3>2. CASE made # {}
      <4>1. PICK c : made = {c}
          BY <2>2, <3>2
      <4>2. Cardinality({c}) = 1
          BY FS_Singleton
      <4> QED BY <4>1, <4>2
    <3> QED BY <3>1, <3>2
  <2>4. \A c \in Callers : Over(c, "createThread") => Knows(c) /\ Creates(c)
      BY <2>1 DEF Agreed, Over, Creates
  <2> QED BY <2>3, <2>4 DEF Knows, Over, Present, Keys
<1>2. Spec => [](Tidy /\ Agreed)
    BY HistoryInvariant, ToldInit, ToldStep, AgreedInit, AgreedStep, PTL DEF Spec
<1> QED BY <1>1, <1>2, BaseInvariant, PTL DEF Base
=============================================================================
