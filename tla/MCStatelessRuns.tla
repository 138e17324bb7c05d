-------------------------- MODULE MCStatelessRuns ---------------------------
(***************************************************************************)
(* Every route; the client leaves and the process shuts down at any await, *)
(* and a store call may fail.                                              *)
(***************************************************************************)
EXTENDS StatelessRuns
=============================================================================
