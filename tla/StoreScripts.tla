---------------------------- MODULE StoreScripts ----------------------------
(***************************************************************************)
(* What each metadata store sends to its database for a call: the          *)
(* statements in the order in which it awaits them.  MetadataStores        *)
(* executes them.  An operation o is a record with                         *)
(*   o.name   the method of MetadataStoreProtocol,                         *)
(*   o.run    the run it is about (fail_stale_runs: the run it excludes),  *)
(*   o.value  the status it writes or looks for; create_thread's if_exists.*)
(*                                                                         *)
(* All rows are rows of one thread.                                        *)
(***************************************************************************)
EXTENDS Sequences

Operations ==
    {"createThread", "fetchThread", "updateThread", "deleteThread", "createRun",
     "updateRunStatus", "fetchRun", "listRuns", "deleteRun", "touchRuns",
     "failStaleRuns"}

\* The statements that write rows, and those that only read them.
Writes ==
    {"insertThread", "updateThread", "deleteRuns", "deleteThread", "insertRun",
     "updateRun", "deleteRun", "touch", "failStale", "claim"}
Reads == {"readThread", "fetchThread", "readRun", "readRuns", "scan"}
Statements == Writes \cup Reads \cup {"commit", "rollback"}

-----------------------------------------------------------------------------
(* SqliteMetadataStore: one connection, whose implicit transaction the     *)
(* first write opens and an explicit commit ends.  The connection's lock   *)
(* is held from the first statement to the last.                           *)

SqliteFetchThread == <<"readThread">>
SqliteCreateThread == <<"insertThread", "commit">>

\* except sqlite3.IntegrityError
SqliteConflict(o) ==
    IF o.value = "do_nothing" THEN <<"rollback", "readThread">> ELSE <<"rollback">>

\* Nothing to assign: the call returns at once.
SqliteUpdateThread(o) ==
    IF o.value = "nothing" THEN <<>> ELSE <<"updateThread", "commit">>

SqliteDeleteThread == <<"deleteRuns", "deleteThread", "commit">>
SqliteCreateRun == <<"insertRun", "commit">>

\* FAULTY: the write is not committed.
SqliteUpdateRunUncommitted == <<"updateRun">>

SqliteUpdateRunStatus == <<"updateRun", "commit">>
SqliteFetchRun == <<"readRun">>
SqliteListRuns == <<"readRuns">>
SqliteDeleteRun == <<"deleteRun", "commit">>
SqliteTouchRuns == <<"touch", "commit">>

\* The scan is followed by a claim of each stale row it found.
SqliteFailStaleRuns == <<"scan", "commit">>

\* FAULTY: a failed sweep leaves its claims in the open transaction.
SqliteNeverRollsBack(o) == FALSE

\* except BaseException: only the sweep rolls back what it had written.
SqliteRollsBack(o) == o.name = "failStaleRuns"

SqliteScript(o) ==
    CASE o.name = "fetchThread" -> SqliteFetchThread
      [] o.name = "createThread" -> SqliteCreateThread
      [] o.name = "updateThread" -> SqliteUpdateThread(o)
      [] o.name = "deleteThread" -> SqliteDeleteThread
      [] o.name = "createRun" -> SqliteCreateRun
      [] o.name = "updateRunStatus" -> SqliteUpdateRunStatus
      [] o.name = "fetchRun" -> SqliteFetchRun
      [] o.name = "listRuns" -> SqliteListRuns
      [] o.name = "deleteRun" -> SqliteDeleteRun
      [] o.name = "touchRuns" -> SqliteTouchRuns
      [] o.name = "failStaleRuns" -> SqliteFailStaleRuns

-----------------------------------------------------------------------------
(* MetadataStore (Postgres): a connection of the pool per call, and one    *)
(* transaction on it.                                                      *)

PostgresFetchThread == <<"readThread">>
PostgresCreateThread == <<"insertThread", "commit">>

\* FAULTY: the row is read again through the public method, on a second
\* connection.
PostgresConflictRefetches(o) ==
    IF o.value = "do_nothing" THEN <<"rollback", "fetchThread">> ELSE <<"rollback">>

\* except UniqueViolation: the row is read again on the same connection.
PostgresConflict(o) ==
    IF o.value = "do_nothing" THEN <<"rollback", "readThread">> ELSE <<"rollback">>

PostgresUpdateThread(o) ==
    IF o.value = "nothing" THEN <<>> ELSE <<"updateThread", "commit">>

PostgresDeleteThread == <<"deleteRuns", "deleteThread", "commit">>
PostgresCreateRun == <<"insertRun", "commit">>
PostgresUpdateRunStatus == <<"updateRun", "commit">>
PostgresFetchRun == <<"readRun">>
PostgresListRuns == <<"readRuns">>
PostgresDeleteRun == <<"deleteRun", "commit">>
PostgresTouchRuns == <<"touch", "commit">>
PostgresFailStaleRuns == <<"failStale", "commit">>

\* pool.connection() rolls back whatever ends its block early.
PostgresRollsBack(o) == TRUE

PostgresScript(o) ==
    CASE o.name = "fetchThread" -> PostgresFetchThread
      [] o.name = "createThread" -> PostgresCreateThread
      [] o.name = "updateThread" -> PostgresUpdateThread(o)
      [] o.name = "deleteThread" -> PostgresDeleteThread
      [] o.name = "createRun" -> PostgresCreateRun
      [] o.name = "updateRunStatus" -> PostgresUpdateRunStatus
      [] o.name = "fetchRun" -> PostgresFetchRun
      [] o.name = "listRuns" -> PostgresListRuns
      [] o.name = "deleteRun" -> PostgresDeleteRun
      [] o.name = "touchRuns" -> PostgresTouchRuns
      [] o.name = "failStaleRuns" -> PostgresFailStaleRuns

-----------------------------------------------------------------------------
(* MongoMetadataStore: every statement commits on its own.                 *)

MongoFetchThread == <<"readThread">>
MongoCreateThread == <<"insertThread">>

\* except DuplicateKeyError
MongoConflict(o) == IF o.value = "do_nothing" THEN <<"fetchThread">> ELSE <<>>

MongoUpdateThread(o) == IF o.value = "nothing" THEN <<>> ELSE <<"updateThread">>

\* FAULTY: the thread goes first.
MongoDeleteThreadFirst == <<"deleteThread", "deleteRuns">>

MongoDeleteThread == <<"deleteRuns", "deleteThread">>
MongoCreateRun == <<"insertRun">>
MongoUpdateRunStatus == <<"updateRun">>
MongoFetchRun == <<"readRun">>
MongoListRuns == <<"readRuns">>
MongoDeleteRun == <<"deleteRun">>
MongoTouchRuns == <<"touch">>
MongoFailStaleRuns == <<"scan">>

\* except Exception: what was claimed before the failure is still reported.
MongoReportsPartly(o, claimed) == o.name = "failStaleRuns" /\ claimed # {}

MongoScript(o) ==
    CASE o.name = "fetchThread" -> MongoFetchThread
      [] o.name = "createThread" -> MongoCreateThread
      [] o.name = "updateThread" -> MongoUpdateThread(o)
      [] o.name = "deleteThread" -> MongoDeleteThread
      [] o.name = "createRun" -> MongoCreateRun
      [] o.name = "updateRunStatus" -> MongoUpdateRunStatus
      [] o.name = "fetchRun" -> MongoFetchRun
      [] o.name = "listRuns" -> MongoListRuns
      [] o.name = "deleteRun" -> MongoDeleteRun
      [] o.name = "touchRuns" -> MongoTouchRuns
      [] o.name = "failStaleRuns" -> MongoFailStaleRuns
=============================================================================
