---------------------------- MODULE MCJoinedRuns ----------------------------
(***************************************************************************)
(* Two runs of any kind, room for one retained stream, and a joiner of any *)
(* mode that asks for the first run: the runs are alike, so asking for the *)
(* second is the same by symmetry.                                         *)
(***************************************************************************)
EXTENDS JoinedRuns

CONSTANTS r1, r2, j1

AsksOne == [j \in {j1} |-> r1]
=============================================================================
