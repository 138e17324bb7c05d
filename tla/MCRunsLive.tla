----------------------------- MODULE MCRunsLive -----------------------------
(* An instance of Runs for liveness: two enqueued runs, so that one queues  *)
(* for the execution lock behind the other, and one that rolls them back.   *)
EXTENDS Runs

CONSTANTS r1, r2, r3

Ask(kind, strategy) ==
    [kind |-> kind, strategy |-> strategy, onDisconnect |-> "continue"]

Asked ==
    (r1 :> Ask("background", "enqueue")) @@ (r2 :> Ask("background", "rollback"))
    @@ (r3 :> Ask("streaming", "enqueue"))

AskedRequests == {Asked[r] : r \in Runs}

WaitedCancel == {"interruptWait"}

\* Bound: a third request, a store call that raises and a cancel call, of
\* which a behaviour has at most one.
Complications ==
    (IF \A r \in Runs : creator[r] # "idle" THEN 1 ELSE 0)
    + faults
    + Cardinality({r \in Runs : api[r] # "idle"})

LiveSpec ==
    /\ Init /\ request = Asked
    /\ [][Next /\ Complications' <= 1]_vars
    /\ Fairness
=============================================================================
