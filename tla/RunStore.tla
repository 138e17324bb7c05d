------------------------------ MODULE RunStore ------------------------------
(***************************************************************************)
(* The run rows of a metadata store, as every store of skeino implements   *)
(* them: the conditional status update, the insert and the delete.  A rows *)
(* function maps each run id to its row's status; a run that was never     *)
(* inserted is "absent", one whose row was removed is "deleted" (the store *)
(* cannot tell the two apart; the model keeps the difference so that a row *)
(* that comes back can be seen).                                           *)
(***************************************************************************)

\* IN_FLIGHT_RUN_STATUSES
InFlight == {"pending", "running"}

\* _TERMINAL_STATUSES: no code path writes "timeout"
Terminal == {"success", "error", "interrupted", "timeout"}

RowStates == InFlight \cup Terminal \cup {"absent", "deleted"}

-----------------------------------------------------------------------------
(* A store that forgot "WHERE status IN ('pending', 'running')".           *)
UpdateAnyStatus(rows, r, status) ==
    IF rows[r] \in {"absent", "deleted"} THEN rows ELSE [rows EXCEPT ![r] = status]

-----------------------------------------------------------------------------
(* update_run_status: only an in-flight row moves; the caller learns       *)
(* whether it did from rows[r] \in InFlight.                               *)
UpdateStatus(rows, r, status) ==
    IF rows[r] \in InFlight THEN [rows EXCEPT ![r] = status] ELSE rows

\* create_run
InsertRow(rows, r) == [rows EXCEPT ![r] = "pending"]

\* delete_run
DeleteRow(rows, r) ==
    IF rows[r] = "absent" THEN rows ELSE [rows EXCEPT ![r] = "deleted"]
=============================================================================
