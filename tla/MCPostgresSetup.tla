-------------------------- MODULE MCPostgresSetup ---------------------------
(***************************************************************************)
(* Two replicas, the first with another caller of the store, that start    *)
(* over indexes in any state.                                              *)
(***************************************************************************)
EXTENDS PostgresSetup

CONSTANTS w1, w2, u1

Replicas == {w1, w2}

Callers == [w \in Replicas |-> IF w = w1 THEN {u1} ELSE {}]
=============================================================================
