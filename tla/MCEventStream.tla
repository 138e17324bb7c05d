---------------------------- MODULE MCEventStream ----------------------------
(* Small instances of EventStream for TLC.                                 *)
EXTENDS EventStream

Name(base, size) == [base |-> base, subgraph |-> FALSE, size |-> size]

\* A full state and the smaller delta of a node.
Mixed == {Name("values", 2), Name("updates", 1)}

\* Everything, or the deltas only.
EachMode == {{}, {"updates"}}
=============================================================================
