----------------------------- MODULE RunStreams -----------------------------
(***************************************************************************)
(* The registry of event streams (run_streams.py 282-361): live streams,   *)
(* and the finished resumable ones it retains for a while.  A run has one  *)
(* stream under its own id, so a stream is named by its run; what a stream *)
(* carries is EventStream's subject.                                       *)
(***************************************************************************)
EXTENDS Integers, Sequences, FiniteSets

CONSTANTS
  Runs,          \* run ids
  Retention,     \* resumable_stream_ttl_seconds
  MaxRetained,   \* resumable_stream_max_retained_runs
  MaxTime        \* bound: the clock's last value

ASSUME RetentionAssumption == {Retention, MaxRetained, MaxTime} \subseteq Nat

Unopened == -2
Live     == -1

VARIABLES
  clock,     \* time.monotonic
  kind,      \* kind[r]: "job", "stream" or "resumable", the request's choice
  streams,   \* the keys of _streams
  closedAt,  \* closedAt[r]: when r's stream was closed, Live or Unopened
  expiry,    \* the deque _expiry
  swept,     \* history: the clock of the last sweep
  closes     \* history: retained streams in the order they were closed

streamVars == <<streams, closedAt, expiry, swept, closes>>

StreamsInit ==
  /\ clock = 0
  /\ kind \in [Runs -> {"job", "stream", "resumable"}]
  /\ streams = {}
  /\ closedAt = [r \in Runs |-> Unopened]
  /\ expiry = <<>>
  /\ swept = 0
  /\ closes = <<>>

InSeq(q) == {q[i] : i \in DOMAIN q}

Expired(r, at) == clock - at[r] >= Retention

\* _sweep: pop from the front while the front is expired
Swept(q, at) ==
  LET fresh == {i \in DOMAIN q : ~Expired(q[i], at)}
  IN  IF fresh = {} THEN <<>>
      ELSE SubSeq(q, CHOOSE i \in fresh : \A k \in fresh : i <= k, Len(q))

\* Mutant: over the cap, the newest stream goes.
CappedNewest(q) == SubSeq(q, 1, IF Len(q) > MaxRetained THEN MaxRetained ELSE Len(q))

\* the loop of close(): over the cap, the oldest goes
Capped(q) == SubSeq(q, IF Len(q) > MaxRetained THEN Len(q) - MaxRetained + 1 ELSE 1, Len(q))

\* the deque becomes q, and what left it leaves the map
Keep(before, q) ==
  /\ expiry' = q
  /\ streams' = before \ (InSeq(expiry) \ InSeq(q))
  /\ swept' = clock

\* every open, get and close sweeps
SweepStreams ==
  /\ Keep(streams, Swept(expiry, closedAt))
  /\ UNCHANGED <<closedAt, closes>>

OpenStream(r) ==
  /\ Keep(streams \union {r}, Swept(expiry, closedAt))
  /\ closedAt' = [closedAt EXCEPT ![r] = Live]
  /\ UNCHANGED closes

Retained(r) == kind[r] = "resumable" /\ Retention > 0

\* close(): a stream without history goes at once, the others when their
\* time is up or the cap is passed; closing twice changes nothing
CloseStream(r) ==
  LET at    == IF closedAt[r] = Live THEN [closedAt EXCEPT ![r] = clock] ELSE closedAt
      added == IF Retained(r) /\ closedAt[r] = Live THEN Append(expiry, r) ELSE expiry
      kept  == Capped(Swept(added, at))
  IN  /\ closedAt' = at
      /\ closes' = IF added = expiry THEN closes ELSE Append(closes, r)
      /\ expiry' = kept
      /\ streams' = (IF Retained(r) THEN streams ELSE streams \ {r}) \ (InSeq(added) \ InSeq(kept))
      /\ swept' = clock

Tick == clock < MaxTime /\ clock' = clock + 1

-----------------------------------------------------------------------------
\* A live stream is always there to attach to, and a finished one exactly as
\* long as promised: of the finished resumable streams, the latest MaxRetained,
\* and of those the ones whose time was not up when a caller last looked.
\* Expiry, the cap and the map hold the same streams (run_streams.py 338-361).
KeepsWhatItPromised ==
  LET live   == {r \in Runs : closedAt[r] = Live}
      latest == {closes[i] : i \in {k \in DOMAIN closes : k > Len(closes) - MaxRetained}}
  IN  /\ streams = live \union {r \in latest : swept - closedAt[r] < Retention}
      /\ InSeq(expiry) = streams \ live
=============================================================================
