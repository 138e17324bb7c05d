------------------------------- MODULE MCRuns -------------------------------
(* Small instances of Runs for TLC.                                        *)
EXTENDS Runs

Symmetry == Permutations(Runs)

Ask(kinds, strategies, leaving) ==
    [kind : kinds, strategy : strategies, onDisconnect : leaving]

\* Every kind and strategy; a background run has no client to lose.
EveryRequest ==
    Ask({"background"}, Strategies, {"continue"})
    \cup Ask({"streaming"}, Strategies, OnDisconnect)

\* Requests that queue behind a run or cut it short.
Superseding ==
    Ask(Kinds, {"interrupt", "enqueue"}, {"continue"})

Enqueued == Ask(Kinds, {"enqueue"}, {"continue"})

EveryCancel == {"interrupt", "interruptWait", "rollback"}
=============================================================================
