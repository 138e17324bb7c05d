-------------------------- MODULE MCMetadataStores --------------------------
(* A small instance of MetadataStores for TLC.                             *)
EXTENDS MetadataStores, TLC

CONSTANTS r1, r2, c1, c2, c3, w1, w2, NoRun

\* Two calls in one process, one in another.
TwoProcesses == (c1 :> w1) @@ (c2 :> w1) @@ (c3 :> w2)

Call(name, run, value) == [name |-> name, run |-> run, value |-> value]

\* Calls that race: runs are ended by themselves (success) or by a sweep
\* (error).
Racing ==
    {Call("createThread", NoRun, "do_nothing"), Call("deleteThread", NoRun, "none"),
     Call("updateRunStatus", r1, "success"), Call("failStaleRuns", NoRun, "none")}

EveryCall ==
    Racing \cup
    {Call("createThread", NoRun, "raise"), Call("fetchThread", NoRun, "none"),
     Call("updateThread", NoRun, "busy"), Call("updateThread", NoRun, "nothing"),
     Call("createRun", r1, "none"), Call("updateRunStatus", r1, "running"),
     Call("fetchRun", r1, "success"), Call("listRuns", NoRun, "success"),
     Call("deleteRun", r1, "none"), Call("touchRuns", r1, "none"),
     Call("failStaleRuns", r1, "none")}

\* Anything against two racing calls, one in the same process; creates race
\* across processes too.
ThreeCalls ==
    (c1 :> EveryCall) @@ (c2 :> Racing)
        @@ (c3 :> {o \in Racing : o.name # "deleteThread"})

Late(status) == [status |-> status, stale |-> TRUE]

\* No thread; an idle one; a busy one whose runs missed heartbeats.
Tables ==
    {(Thread :> Absent) @@ (r1 :> Absent) @@ (r2 :> Absent),
     (Thread :> Row("idle")) @@ (r1 :> Absent) @@ (r2 :> Absent),
     (Thread :> Row("busy")) @@ (r1 :> Late("running")) @@ (r2 :> Late("pending"))}
=============================================================================
