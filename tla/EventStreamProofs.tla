--------------------------- MODULE EventStreamProofs ---------------------------
(***************************************************************************)
(* Proofs about EventStream, for any events, filters, subscribers, queue   *)
(* size and history limits: no event is lost or repeated, and the stream   *)
(* implements StreamContract.                                              *)
(*                                                                         *)
(* The argument is about what a subscriber is due: the events after its    *)
(* cursor that its modes accept.  While its queue has not overflowed they  *)
(* are in its replay and its queue (Held); once it has, more than a queue  *)
(* of them are in neither (Behind), until it catches up or is dropped.     *)
(***************************************************************************)
EXTENDS EventStream, FiniteSetTheorems, SequenceTheorems, TLAPS

Due(s) == Contract!Due(s)

\* The replay comes before everything else that is due.
Ordered(s) ==
    /\ replay[s] \subseteq Due(s)
    /\ \A i \in replay[s], j \in Due(s) \ replay[s] : i < j
    /\ ~resumable => replay[s] = {}

\* Everything that is due is in the replay or, in order, in the queue.
Held(s) ==
    /\ replay[s] \union Range(queue[s]) = Due(s)
    /\ \A k \in DOMAIN queue[s] :
         /\ \A i \in replay[s] : i < queue[s][k]
         /\ \A l \in 1..(k - 1) : queue[s][l] < queue[s][k]

\* More than a queue of what is due is in neither.
Behind(s) == Cardinality(Due(s) \ replay[s]) > QueueSize

\* Which subscribers are fanned out to, and what a marker says of the stream.
Fanned(s) ==
    /\ phase[s] = "attached" => attached[s] \/ closed \/ mark[s] = "overflow"
    /\ mark[s] = "overflow" => ~attached[s] /\ queue[s] = <<>>
    /\ mark[s] = "end" => closed

Reading(s) ==
    phase[s] = "attached" =>
        /\ Ordered(s)
        /\ mark[s] # "overflow" => Held(s)
        /\ mark[s] = "overflow" => Behind(s)

Readers == \A s \in Subscribers : Fanned(s) /\ Reading(s)

Retained ==
    /\ Len(log) <= MaxEvents
    /\ ~resumable => evicted = 0

IInv == TypeOK /\ Retained /\ Readers

-----------------------------------------------------------------------------
(***************************************************************************)
(* What is due, and when it stays so.                                      *)
(***************************************************************************)
\* The contract filters as the stream does.
LEMMA SameMatches == \A event, wanted : Contract!Matches(event, wanted) <=> Matches(event, wanted)
    BY DEF Matches, Lifecycle, MessagesFamily,
           Contract!Matches, Contract!Lifecycle, Contract!MessagesFamily

\* The contract counts as the stream does.
LEMMA SameCardinality == \A S : Contract!Cardinality(S) = Cardinality(S)
    BY DEF Cardinality, Contract!Cardinality

\* The events after the cursor that the modes accept.
LEMMA DueIs ==
  ASSUME TypeOK, NEW s \in Subscribers
  PROVE  /\ Cursor[s] \in 0..Len(log)
         /\ Due(s) = {i \in (Cursor[s] + 1)..Len(log) : Matches(log[i], modes[s])}
         /\ Due(s) \subseteq 1..Len(log)
         /\ IsFiniteSet(Due(s))
<1>1. Len(log) \in Nat
    BY DEF TypeOK
<1>2. Cursor[s] \in 0..Len(log)
    BY <1>1 DEF TypeOK, Cursor
<1>3. Due(s) = {i \in (Cursor[s] + 1)..Len(log) : Matches(log[i], modes[s])}
    BY SameMatches DEF Due, Contract!Due
<1>4. Due(s) \subseteq 1..Len(log)
    BY <1>1, <1>2, <1>3
<1>5. IsFiniteSet(1..Len(log))
    BY <1>1, FS_Interval
<1> QED BY <1>2, <1>3, <1>4, <1>5, FS_Subset

\* A step that leaves a subscriber and the stream alone keeps its reading.
LEMMA Undisturbed ==
  ASSUME NEW t \in Subscribers, Fanned(t), Reading(t),
         UNCHANGED <<resumable, log, closed>>,
         attached'[t] = attached[t], modes'[t] = modes[t], queue'[t] = queue[t],
         mark'[t] = mark[t], phase'[t] = phase[t], replay'[t] = replay[t],
         delivered'[t] = delivered[t], joined'[t] = joined[t]
  PROVE  Fanned(t)' /\ Reading(t)'
<1>1. Cursor'[t] = Cursor[t]
    BY DEF Cursor
<1>2. Due(t)' = Due(t)
    BY <1>1 DEF Due, Contract!Due
<1>3. Fanned(t)'
    BY DEF Fanned
<1>4. Ordered(t)' <=> Ordered(t)
    BY <1>2 DEF Ordered
<1>5. Held(t)' <=> Held(t)
    BY <1>2 DEF Held
<1>6. Behind(t)' <=> Behind(t)
    BY <1>2 DEF Behind
<1> QED BY <1>3, <1>4, <1>5, <1>6 DEF Reading

\* The invariant holds at first.
LEMMA InitInv == Init => IInv
<1> SUFFICES ASSUME Init
             PROVE  IInv
    OBVIOUS
<1>1. TypeOK
  <2>1. Len(log) = 0 /\ log \in Seq(Events)
      BY DEF Init
  <2>2. 0 \in 0..Len(log)
      BY <2>1
  <2>3. queue \in [Subscribers -> Seq(Ids)] /\ \A s \in Subscribers : Len(queue[s]) = 0
      BY DEF Init
  <2>4. delivered \in [Subscribers -> 0..Len(log)] /\ joined \in [Subscribers -> 0..Len(log)]
      BY <2>2 DEF Init
  <2>5. \A s \in Subscribers : Len(queue[s]) <= QueueSize
      BY <2>3, QueueSizeAssumption
  <2>6. evicted \in 0..Len(log)
      BY <2>2 DEF Init
  <2>7. /\ resumable \in BOOLEAN /\ closed \in BOOLEAN
        /\ attached \in [Subscribers -> BOOLEAN]
        /\ modes \in [Subscribers -> Filters \cup {{}}]
        /\ mark \in [Subscribers -> {"none", "end", "overflow"}]
        /\ phase \in [Subscribers -> Phases]
        /\ started \in [Subscribers -> BOOLEAN]
        /\ replay \in [Subscribers -> SUBSET Ids]
      BY DEF Init, Phases
  <2> QED BY <2>1, <2>3, <2>4, <2>5, <2>6, <2>7 DEF TypeOK
<1>2. Retained
    BY MaxEventsAssumption DEF Init, Retained
<1>3. Readers
    BY DEF Init, Readers, Fanned, Reading
<1> QED BY <1>1, <1>2, <1>3 DEF IInv

-----------------------------------------------------------------------------
(***************************************************************************)
(* Subscribing and catching up.                                            *)
(***************************************************************************)
\* Whoever attaches has everything that is due in its replay, if its cursor
\* has not expired; the events to come go to its queue or the stream is closed.
LEMMA AttachKeeps ==
  ASSUME IInv, TypeOK', NEW s \in Subscribers, NEW after \in 0..Len(log),
         Attach(s, ReplayAfter(after, modes'[s])),
         UNCHANGED streamVars, phase'[s] = "attached",
         Cursor'[s] = IF resumable THEN after ELSE Len(log),
         resumable => ~CursorExpired(after)
  PROVE  Fanned(s)' /\ Reading(s)'
<1>1. /\ replay'[s] = ReplayAfter(after, modes'[s])
      /\ queue'[s] = <<>>
      /\ mark'[s] = IF closed THEN "end" ELSE "none"
      /\ attached'[s] = ~closed
    BY DEF Attach, IInv, TypeOK
<1>2. /\ log' = log /\ closed' = closed /\ resumable' = resumable
      /\ Len(log) \in Nat /\ evicted \in 0..Len(log) /\ closed \in BOOLEAN
    BY DEF streamVars, IInv, TypeOK
<1>3. Due(s)' = {i \in (Cursor'[s] + 1)..Len(log) : Matches(log[i], modes'[s])}
    BY <1>2, SameMatches DEF Due, Contract!Due
<1>4. Due(s)' = replay'[s]
  <2>1. CASE resumable
    <3>1. evicted <= after \/ evicted = 0
        BY <2>1, <1>2 DEF CursorExpired
    <3>2. Due(s)' = {i \in (after + 1)..Len(log) : Matches(log[i], modes'[s])}
        BY <2>1, <1>3
    <3>3. replay'[s] = {i \in (evicted + 1)..Len(log) : i > after /\ Matches(log[i], modes'[s])}
        BY <2>1, <1>1 DEF ReplayAfter
    <3> QED BY <3>1, <3>2, <3>3, <1>2
  <2>2. CASE ~resumable
    <3>1. Due(s)' = {}
        BY <2>2, <1>2, <1>3
    <3>2. replay'[s] = {}
        BY <2>2, <1>1 DEF ReplayAfter
    <3> QED BY <3>1, <3>2
  <2> QED BY <2>1, <2>2
<1>5. Fanned(s)'
    BY <1>1, <1>2 DEF Fanned
<1>6. Ordered(s)'
  <2>1. ~resumable => replay'[s] = {}
      BY <1>1 DEF ReplayAfter
  <2> QED BY <2>1, <1>2, <1>4 DEF Ordered
<1>7. Held(s)'
  <2>1. Range(queue'[s]) = {} /\ DOMAIN queue'[s] = {}
      BY <1>1 DEF Range
  <2> QED BY <2>1, <1>4 DEF Held
<1>8. mark'[s] # "overflow"
    BY <1>1
<1> QED BY <1>5, <1>6, <1>7, <1>8 DEF Reading

\* A subscriber is where it asked to be, or at the live tail.
LEMMA SubscribeKeeps ==
  ASSUME IInv, NEW s \in Subscribers, NEW after \in 0..Len(log),
         NEW wanted \in Filters \union {{}}, NEW backlog,
         Subscribe(s, after, wanted, backlog), backlog = ReplayAfter(after, wanted),
         resumable => ~CursorExpired(after)
  PROVE  /\ IInv'
         /\ Cursor'[s] = IF resumable THEN after ELSE Len(log)
         /\ \A t \in Subscribers \ {s} : Cursor'[t] = Cursor[t]
<1>1. /\ modes'[s] = wanted /\ delivered'[s] = after /\ joined'[s] = Len(log)
      /\ phase'[s] = "attached"
      /\ UNCHANGED <<streamVars, started>>
    BY DEF Subscribe, IInv, TypeOK
<1>2. Len(log) \in Nat /\ Len(log) <= MaxEvents
    BY DEF IInv, TypeOK, Retained
<1>3. Cursor'[s] = IF resumable THEN after ELSE Len(log)
    BY <1>1, <1>2 DEF Cursor, streamVars
<1>4. TypeOK'
  <2>1. backlog \in SUBSET Ids
      BY <1>2, MaxEventsAssumption DEF ReplayAfter, Ids, IInv, TypeOK
  <2>2. modes' \in [Subscribers -> Filters \cup {{}}] /\ phase' \in [Subscribers -> Phases]
      BY DEF Subscribe, IInv, TypeOK, Phases
  <2>3. /\ delivered' \in [Subscribers -> 0..Len(log)]
        /\ joined' \in [Subscribers -> 0..Len(log)]
      BY <1>2 DEF Subscribe, IInv, TypeOK
  <2>4. /\ replay' \in [Subscribers -> SUBSET Ids]
        /\ mark' \in [Subscribers -> {"none", "end", "overflow"}]
        /\ attached' \in [Subscribers -> BOOLEAN]
      BY <2>1 DEF Subscribe, Attach, IInv, TypeOK
  <2>5. /\ queue' \in [Subscribers -> Seq(Ids)]
        /\ \A t \in Subscribers : Len(queue'[t]) <= QueueSize
    <3>1. <<>> \in Seq(Ids) /\ Len(<<>>) = 0 /\ 0 <= QueueSize
        BY QueueSizeAssumption
    <3>2. queue' = [queue EXCEPT ![s] = <<>>]
        BY DEF Subscribe, Attach
    <3> QED BY <3>1, <3>2 DEF IInv, TypeOK
  <2> QED BY <1>1, <2>2, <2>3, <2>4, <2>5 DEF IInv, TypeOK, streamVars
<1>5. Retained'
    BY <1>1 DEF IInv, Retained, streamVars
<1>6. ASSUME NEW t \in Subscribers \ {s}
      PROVE  /\ attached'[t] = attached[t] /\ modes'[t] = modes[t] /\ queue'[t] = queue[t]
             /\ mark'[t] = mark[t] /\ phase'[t] = phase[t] /\ replay'[t] = replay[t]
             /\ delivered'[t] = delivered[t] /\ joined'[t] = joined[t]
    BY DEF Subscribe, Attach, IInv, TypeOK
<1>7. Readers'
  <2>1. Fanned(s)' /\ Reading(s)'
      BY <1>1, <1>3, <1>4, AttachKeeps DEF Subscribe
  <2>2. ASSUME NEW t \in Subscribers \ {s}
        PROVE  Fanned(t)' /\ Reading(t)'
      BY <1>1, <1>6, Undisturbed DEF IInv, Readers, streamVars
  <2> QED BY <2>1, <2>2 DEF Readers
<1>8. \A t \in Subscribers \ {s} : Cursor'[t] = Cursor[t]
    BY <1>1, <1>6 DEF Cursor, streamVars
<1> QED BY <1>3, <1>4, <1>5, <1>7, <1>8 DEF IInv

\* Catching up attaches anew at the cursor.
LEMMA CatchUpKeeps ==
  ASSUME IInv, NEW s \in Subscribers, CatchUp(s)
  PROVE  IInv' /\ Cursor' = Cursor
<1>1. /\ UNCHANGED <<streamVars, modes, phase, started, delivered, joined>>
      /\ Attach(s, ReplayAfter(delivered[s], modes[s]))
      /\ resumable /\ ~CursorExpired(delivered[s]) /\ phase[s] = "attached"
    BY DEF CatchUp, Overflowed, Draining, Iterating
<1>2. Len(log) \in Nat /\ Len(log) <= MaxEvents /\ delivered[s] \in 0..Len(log)
    BY DEF IInv, TypeOK, Retained
<1>3. Cursor' = Cursor
    BY <1>1 DEF Cursor, streamVars
<1>4. Cursor'[s] = delivered[s]
    BY <1>1, <1>3 DEF Cursor
<1>5. TypeOK'
  <2>1. ReplayAfter(delivered[s], modes[s]) \in SUBSET Ids
      BY <1>2, MaxEventsAssumption DEF ReplayAfter, Ids, IInv, TypeOK
  <2>2. /\ replay' \in [Subscribers -> SUBSET Ids]
        /\ mark' \in [Subscribers -> {"none", "end", "overflow"}]
        /\ attached' \in [Subscribers -> BOOLEAN]
      BY <1>1, <2>1 DEF Attach, IInv, TypeOK
  <2>3. /\ queue' \in [Subscribers -> Seq(Ids)]
        /\ \A t \in Subscribers : Len(queue'[t]) <= QueueSize
    <3>1. <<>> \in Seq(Ids) /\ Len(<<>>) = 0 /\ 0 <= QueueSize
        BY QueueSizeAssumption
    <3>2. queue' = [queue EXCEPT ![s] = <<>>]
        BY <1>1 DEF Attach
    <3> QED BY <3>1, <3>2 DEF IInv, TypeOK
  <2> QED BY <1>1, <2>2, <2>3 DEF IInv, TypeOK, streamVars
<1>6. Retained'
    BY <1>1 DEF IInv, Retained, streamVars
<1>7. Readers'
  <2>1. Fanned(s)' /\ Reading(s)'
    <3>1. modes'[s] = modes[s] /\ phase'[s] = "attached" /\ UNCHANGED streamVars
        BY <1>1
    <3>2. Attach(s, ReplayAfter(delivered[s], modes'[s]))
        BY <1>1, <3>1
    <3> QED BY <1>1, <1>2, <1>4, <1>5, <3>1, <3>2, AttachKeeps
  <2>2. ASSUME NEW t \in Subscribers \ {s}
        PROVE  Fanned(t)' /\ Reading(t)'
    <3>1. /\ attached'[t] = attached[t] /\ queue'[t] = queue[t]
          /\ mark'[t] = mark[t] /\ replay'[t] = replay[t]
        BY <1>1 DEF Attach, IInv, TypeOK
    <3> QED BY <1>1, <3>1, Undisturbed DEF IInv, Readers, streamVars
  <2> QED BY <2>1, <2>2 DEF Readers
<1> QED BY <1>3, <1>5, <1>6, <1>7 DEF IInv

-----------------------------------------------------------------------------
(***************************************************************************)
(* Reading.                                                                *)
(***************************************************************************)
\* Once the least event that is due is delivered, the others still are.
LEMMA Delivering ==
  ASSUME TypeOK, NEW s \in Subscribers, NEW i \in Due(s), \A j \in Due(s) : i <= j,
         delivered' = [delivered EXCEPT ![s] = i],
         UNCHANGED <<streamVars, modes, joined>>
  PROVE  /\ Cursor' = [Cursor EXCEPT ![s] = i]
         /\ Due(s)' = Due(s) \ {i}
         /\ i \in 1..Len(log)
<1>1. /\ Cursor[s] \in 0..Len(log) /\ Len(log) \in Nat
      /\ Due(s) = {j \in (Cursor[s] + 1)..Len(log) : Matches(log[j], modes[s])}
      /\ i \in 1..Len(log)
    BY DueIs DEF TypeOK
<1>2. i > Cursor[s] /\ (resumable \/ i > joined[s])
    BY <1>1 DEF Cursor, TypeOK
<1>3. Cursor' = [Cursor EXCEPT ![s] = i]
    BY <1>2 DEF Cursor, streamVars, TypeOK
<1>4. Cursor'[s] = i
    BY <1>3 DEF Cursor
<1>5. Due(s)' = {j \in (i + 1)..Len(log) : Matches(log[j], modes[s])}
    BY <1>4, SameMatches DEF Due, Contract!Due, streamVars
<1> QED BY <1>1, <1>2, <1>3, <1>5

\* The replay is delivered in order.
LEMMA ReplayKeeps ==
  ASSUME IInv, NEW s \in Subscribers, Replay(s)
  PROVE  /\ IInv'
         /\ \E i \in Due(s) : /\ \A j \in Due(s) : i <= j
                              /\ Cursor' = [Cursor EXCEPT ![s] = i]
<1> PICK i \in replay[s] :
       /\ \A j \in replay[s] : i <= j
       /\ delivered' = [delivered EXCEPT ![s] = i]
       /\ replay' = [replay EXCEPT ![s] = @ \ {i}]
    BY DEF Replay
<1>1. /\ UNCHANGED <<streamVars, attached, modes, queue, mark, phase, started, joined>>
      /\ phase[s] = "attached"
    BY DEF Replay, Iterating
<1>2. TypeOK /\ Fanned(s) /\ Reading(s) /\ Ordered(s)
    BY <1>1 DEF IInv, Readers, Reading
<1>3. replay'[s] = replay[s] \ {i}
    BY DEF IInv, TypeOK
<1>4. i \in Due(s) /\ \A j \in Due(s) : i <= j
  <2>1. i \in Due(s) /\ Due(s) \subseteq Int
      BY <1>2, DueIs DEF Ordered, TypeOK
  <2>2. \A j \in Due(s) \ replay[s] : i < j
      BY <1>2 DEF Ordered
  <2> QED BY <2>1, <2>2
<1>5. /\ Cursor' = [Cursor EXCEPT ![s] = i]
      /\ Due(s)' = Due(s) \ {i}
      /\ i \in 1..Len(log)
    BY <1>1, <1>2, <1>4, Delivering
<1>6. TypeOK'
  <2>1. delivered' \in [Subscribers -> 0..Len(log)] /\ replay' \in [Subscribers -> SUBSET Ids]
      BY <1>5 DEF IInv, TypeOK
  <2> QED BY <1>1, <2>1 DEF IInv, TypeOK, streamVars
<1>7. Retained'
    BY <1>1 DEF IInv, Retained, streamVars
<1>8. Fanned(s)'
    BY <1>1, <1>2 DEF Fanned, streamVars
<1>9. Ordered(s)'
    BY <1>1, <1>2, <1>3, <1>5 DEF Ordered, streamVars
<1>10. Held(s) => Held(s)'
  <2> SUFFICES ASSUME Held(s)
               PROVE  Held(s)'
      OBVIOUS
  <2>1. i \notin Range(queue[s])
    <3>1. \A k \in DOMAIN queue[s] : i < queue[s][k]
        BY DEF Held
    <3>2. ~(i < i)
        BY <1>5 DEF IInv, TypeOK
    <3> QED BY <3>1, <3>2 DEF Range
  <2>2. queue'[s] = queue[s]
      BY <1>1
  <2>3. replay'[s] \union Range(queue'[s]) = Due(s)'
      BY <1>3, <1>5, <2>1, <2>2 DEF Held
  <2> QED BY <1>3, <2>2, <2>3 DEF Held
<1>11. Behind(s) => Behind(s)'
  <2>1. Due(s)' \ replay'[s] = Due(s) \ replay[s]
      BY <1>3, <1>5
  <2> QED BY <2>1 DEF Behind
<1>12. Reading(s)'
    BY <1>1, <1>2, <1>9, <1>10, <1>11 DEF Reading
<1>13. ASSUME NEW t \in Subscribers \ {s}
       PROVE  Fanned(t)' /\ Reading(t)'
  <2>1. replay'[t] = replay[t] /\ delivered'[t] = delivered[t]
      BY DEF IInv, TypeOK
  <2> QED BY <1>1, <2>1, Undisturbed DEF IInv, Readers, streamVars
<1> QED BY <1>4, <1>5, <1>6, <1>7, <1>8, <1>12, <1>13 DEF IInv, Readers

\* The queue is delivered from its head.
LEMMA LiveKeeps ==
  ASSUME IInv, NEW s \in Subscribers, Live(s)
  PROVE  /\ IInv'
         /\ \E i \in Due(s) : /\ \A j \in Due(s) : i <= j
                              /\ Cursor' = [Cursor EXCEPT ![s] = i]
<1> DEFINE q == queue[s]
           i == q[1]
<1>1. /\ UNCHANGED <<streamVars, attached, modes, mark, phase, started, replay, joined>>
      /\ phase[s] = "attached" /\ replay[s] = {} /\ q # <<>>
      /\ queue' = [queue EXCEPT ![s] = Tail(q)]
      /\ delivered' = [delivered EXCEPT ![s] = IF Head(q) > @ THEN Head(q) ELSE @]
    BY DEF Live, Draining, Iterating
<1>2. TypeOK /\ Fanned(s) /\ Ordered(s) /\ Held(s) /\ mark[s] # "overflow"
    BY <1>1 DEF IInv, Readers, Reading, Fanned
<1>3. q \in Seq(Ids) /\ Len(q) \in Nat /\ Len(q) <= QueueSize
    BY <1>2 DEF TypeOK
<1>4. /\ Head(q) = i /\ Len(q) > 0
      /\ Tail(q) \in Seq(Ids) /\ Len(Tail(q)) = Len(q) - 1
      /\ \A k \in 1..Len(Tail(q)) : Tail(q)[k] = q[k + 1]
    BY <1>1, <1>3
<1>5. queue'[s] = Tail(q)
    BY <1>1, <1>2 DEF TypeOK
<1>6. DOMAIN q = 1..Len(q) /\ DOMAIN Tail(q) = 1..(Len(q) - 1)
    BY <1>3, <1>4
<1>7. Range(q) = Due(s) /\ \A k \in 1..Len(q) : \A l \in 1..(k - 1) : q[l] < q[k]
    BY <1>1, <1>2, <1>6 DEF Held
<1>8. i \in Due(s) /\ \A j \in Due(s) : i <= j
  <2>1. i \in Range(q)
      BY <1>3, <1>4, <1>6 DEF Range
  <2>2. ASSUME NEW j \in Range(q)
        PROVE  i <= j
    <3>1. PICK k \in 1..Len(q) : j = q[k]
        BY <1>6 DEF Range
    <3>2. i \in Int
        BY <2>1, <1>2, <1>7, DueIs DEF TypeOK
    <3>3. k # 1 => 1 \in 1..(k - 1)
        BY <1>3
    <3>4. k # 1 => i < j
        BY <1>7, <3>1, <3>3
    <3>5. k = 1 => i = j
        BY <3>1
    <3>6. j \in Int
        BY <1>2, <1>7, DueIs DEF TypeOK
    <3> HIDE DEF i
    <3> QED BY <3>2, <3>4, <3>5, <3>6
  <2> QED BY <1>7, <2>1, <2>2
<1>9. delivered[s] < i
  <2>1. /\ Cursor[s] \in 0..Len(log) /\ Len(log) \in Nat
        /\ Due(s) = {j \in (Cursor[s] + 1)..Len(log) : Matches(log[j], modes[s])}
      BY <1>2, DueIs DEF TypeOK
  <2>2. i > Cursor[s] /\ i \in Nat
      BY <1>8, <2>1
  <2>3. Cursor[s] >= delivered[s] /\ delivered[s] \in Nat
      BY <1>2, <2>1 DEF Cursor, TypeOK
  <2> QED BY <2>1, <2>2, <2>3
<1>10. delivered' = [delivered EXCEPT ![s] = i]
  <2>1. i > delivered[s]
      BY <1>9
  <2> QED BY <1>1, <1>4, <2>1
<1>11. /\ Cursor' = [Cursor EXCEPT ![s] = i]
       /\ Due(s)' = Due(s) \ {i}
       /\ i \in 1..Len(log)
    BY <1>1, <1>2, <1>8, <1>10, Delivering
<1>12. TypeOK'
  <2>1. delivered' \in [Subscribers -> 0..Len(log)]
      BY <1>10, <1>11 DEF IInv, TypeOK
  <2>2. /\ queue' \in [Subscribers -> Seq(Ids)]
        /\ \A t \in Subscribers : Len(queue'[t]) <= QueueSize
    <3>1. Len(Tail(q)) <= QueueSize
        BY <1>3, <1>4, QueueSizeAssumption
    <3> QED BY <1>1, <1>2, <1>4, <3>1 DEF TypeOK
  <2> QED BY <1>1, <1>2, <2>1, <2>2 DEF TypeOK, streamVars
<1>13. Retained'
    BY <1>1 DEF IInv, Retained, streamVars
<1>14. Fanned(s)'
    BY <1>1, <1>2 DEF Fanned, streamVars
<1>15. Ordered(s)'
    BY <1>1, <1>2, <1>11 DEF Ordered, streamVars
<1>16. Held(s)'
  <2>1. Range(Tail(q)) = Due(s)'
    <3>1. ASSUME NEW j \in Range(Tail(q))
          PROVE  j \in Due(s)'
      <4>1. PICK k \in 1..(Len(q) - 1) : j = q[k + 1]
          BY <1>4, <1>6 DEF Range
      <4>2. k + 1 \in 1..Len(q) /\ 1 \in 1..((k + 1) - 1)
          BY <1>3
      <4>3. j \in Range(q)
          BY <1>6, <4>1, <4>2 DEF Range
      <4>4. i < j
          BY <1>7, <4>1, <4>2
      <4>5. j # i
          BY <4>4, <1>11
      <4> QED BY <1>7, <1>11, <4>3, <4>5
    <3>2. ASSUME NEW j \in Due(s)'
          PROVE  j \in Range(Tail(q))
      <4>1. PICK k \in 1..Len(q) : j = q[k]
          BY <1>6, <1>7, <1>11 DEF Range
      <4>2. k # 1
          BY <4>1, <1>11
      <4>3. k - 1 \in 1..(Len(q) - 1) /\ (k - 1) + 1 = k
          BY <1>3, <4>2
      <4>4. Tail(q)[k - 1] = j
          BY <1>4, <4>1, <4>3
      <4> QED BY <1>6, <4>3, <4>4 DEF Range
    <3> QED BY <3>1, <3>2
  <2>2. ASSUME NEW k \in DOMAIN Tail(q), NEW l \in 1..(k - 1)
        PROVE  Tail(q)[l] < Tail(q)[k]
    <3>1. k \in 1..(Len(q) - 1) /\ l \in 1..(Len(q) - 1)
        BY <1>3, <1>6
    <3>2. Tail(q)[l] = q[l + 1] /\ Tail(q)[k] = q[k + 1]
        BY <1>4, <3>1
    <3>3. k + 1 \in 1..Len(q) /\ l + 1 \in 1..((k + 1) - 1)
        BY <1>3, <3>1
    <3> QED BY <1>7, <3>2, <3>3
  <2>3. replay'[s] = {}
      BY <1>1
  <2> QED BY <1>5, <2>1, <2>2, <2>3 DEF Held
<1>17. Reading(s)'
    BY <1>1, <1>2, <1>15, <1>16 DEF Reading
<1>18. ASSUME NEW t \in Subscribers \ {s}
       PROVE  Fanned(t)' /\ Reading(t)'
  <2>1. queue'[t] = queue[t] /\ delivered'[t] = delivered[t]
      BY <1>1, <1>10 DEF IInv, TypeOK
  <2> QED BY <1>1, <2>1, Undisturbed DEF IInv, Readers, streamVars
<1> QED BY <1>8, <1>11, <1>12, <1>13, <1>14, <1>17, <1>18 DEF IInv, Readers

\* Nothing is due to a subscriber that is over, whether its queue is released
\* or stays behind.
LEMMA OverKeeps ==
  ASSUME IInv, NEW s \in Subscribers, NEW how \in {"done", "failed", "left"},
         Over(s, how), Release(s) \/ UNCHANGED <<attached, queue>>
  PROVE  IInv' /\ Cursor' = Cursor
<1>1. /\ UNCHANGED <<streamVars, modes, mark, delivered, joined>>
      /\ phase' = [phase EXCEPT ![s] = how]
      /\ replay' = [replay EXCEPT ![s] = {}]
      /\ started' = [started EXCEPT ![s] = FALSE]
    BY DEF Over
<1>2. Cursor' = Cursor
    BY <1>1 DEF Cursor, streamVars
<1>3. /\ attached' \in [Subscribers -> BOOLEAN] /\ queue' \in [Subscribers -> Seq(Ids)]
      /\ \A t \in Subscribers : Len(queue'[t]) <= QueueSize
      /\ \/ ~attached'[s] /\ queue'[s] = <<>>
         \/ attached'[s] = attached[s] /\ queue'[s] = queue[s]
      /\ \A t \in Subscribers \ {s} : attached'[t] = attached[t] /\ queue'[t] = queue[t]
  <2>1. CASE Release(s)
    <3>1. <<>> \in Seq(Ids) /\ Len(<<>>) = 0 /\ 0 <= QueueSize
        BY QueueSizeAssumption
    <3>2. attached' = [attached EXCEPT ![s] = FALSE] /\ queue' = [queue EXCEPT ![s] = <<>>]
        BY <2>1 DEF Release
    <3>3. attached \in [Subscribers -> BOOLEAN] /\ queue \in [Subscribers -> Seq(Ids)]
        BY DEF IInv, TypeOK
    <3>4. \A t \in Subscribers : Len(queue[t]) <= QueueSize
        BY DEF IInv, TypeOK
    <3>5. /\ ~attached'[s] /\ queue'[s] = <<>>
          /\ \A t \in Subscribers \ {s} : attached'[t] = attached[t] /\ queue'[t] = queue[t]
        BY <3>2, <3>3
    <3>6. attached' \in [Subscribers -> BOOLEAN] /\ queue' \in [Subscribers -> Seq(Ids)]
        BY <3>1, <3>2, <3>3
    <3>7. \A t \in Subscribers : Len(queue'[t]) <= QueueSize
        BY <3>1, <3>4, <3>5
    <3> QED BY <3>5, <3>6, <3>7
  <2>2. CASE UNCHANGED <<attached, queue>>
      BY <2>2 DEF IInv, TypeOK
  <2> QED BY <2>1, <2>2
<1>4. TypeOK'
  <2>1. /\ phase' \in [Subscribers -> Phases] /\ replay' \in [Subscribers -> SUBSET Ids]
        /\ started' \in [Subscribers -> BOOLEAN]
      BY <1>1 DEF IInv, TypeOK, Phases
  <2> QED BY <1>1, <1>3, <2>1 DEF IInv, TypeOK, streamVars
<1>5. Retained'
    BY <1>1 DEF IInv, Retained, streamVars
<1>6. Fanned(s)' /\ Reading(s)'
  <2>1. phase'[s] # "attached" /\ mark'[s] = mark[s] /\ closed' = closed
      BY <1>1 DEF IInv, TypeOK, streamVars
  <2>2. Fanned(s)
      BY DEF IInv, Readers
  <2> QED BY <1>3, <2>1, <2>2 DEF Fanned, Reading
<1>7. ASSUME NEW t \in Subscribers \ {s}
      PROVE  Fanned(t)' /\ Reading(t)'
  <2>1. phase'[t] = phase[t] /\ replay'[t] = replay[t]
      BY <1>1 DEF IInv, TypeOK
  <2> QED BY <1>1, <1>3, <2>1, Undisturbed DEF IInv, Readers, streamVars
<1> QED BY <1>2, <1>4, <1>5, <1>6, <1>7 DEF IInv, Readers

-----------------------------------------------------------------------------
(***************************************************************************)
(* Publishing and closing.                                                 *)
(***************************************************************************)
\* A full queue holds as many events as it has room for.
LEMMA FullQueue ==
  ASSUME TypeOK, NEW s \in Subscribers, Held(s), Full(s)
  PROVE  IsFiniteSet(Range(queue[s])) /\ Cardinality(Range(queue[s])) = QueueSize
<1> DEFINE q == queue[s]
<1>1. q \in Seq(Ids) /\ Len(q) = QueueSize /\ DOMAIN q = 1..QueueSize
    BY DEF Full, TypeOK
<1>2. \A k, l \in 1..QueueSize : q[k] = q[l] => k = l
  <2> SUFFICES ASSUME NEW k \in 1..QueueSize, NEW l \in 1..QueueSize, l < k
               PROVE  q[l] # q[k]
    <3>1. \A k, l \in 1..QueueSize : k = l \/ k < l \/ l < k
        BY QueueSizeAssumption
    <3> QED BY <3>1
  <2>1. l \in 1..(k - 1)
      BY QueueSizeAssumption
  <2>2. q[l] < q[k]
      BY <1>1, <2>1 DEF Held
  <2>3. q[k] \in Int
    <3>1. q[k] \in Ids
        BY <1>1, ElementOfSeq
    <3> QED BY <3>1, MaxEventsAssumption DEF Ids
  <2> QED BY <2>2, <2>3
<1>3. q \in Bijection(1..QueueSize, Range(q))
  <2>1. q \in [1..QueueSize -> Range(q)]
      BY <1>1 DEF Range
  <2>2. \A j \in Range(q) : \E k \in 1..QueueSize : q[k] = j
      BY <1>1 DEF Range
  <2>3. IsInjective(q)
      BY <1>1, <1>2 DEF IsInjective
  <2> QED BY <2>1, <2>2, <2>3 DEF Bijection, Injection, Surjection
<1>4. ExistsBijection(1..QueueSize, Range(q))
    BY <1>3 DEF ExistsBijection
<1>5. IsFiniteSet(1..QueueSize) /\ Cardinality(1..QueueSize) = QueueSize
    BY QueueSizeAssumption, FS_Interval
<1> QED BY <1>4, <1>5, FS_Bijection

\* What publishing an event does to one subscriber.
Fans(e, s) ==
    LET wants == attached[s] /\ Matches(e, modes[s])
    IN  /\ queue'[s] = IF wants THEN IF Full(s) THEN <<>> ELSE Append(queue[s], Len(log) + 1)
                       ELSE queue[s]
        /\ mark'[s] = IF wants /\ Full(s) THEN "overflow" ELSE mark[s]
        /\ attached'[s] = (attached[s] /\ ~(wants /\ Full(s)))

\* The event is due to whoever accepts it, after everything else.
LEMMA PublishDue ==
  ASSUME TypeOK, NEW s \in Subscribers, NEW e \in Events, log' = Append(log, e),
         Cursor' = Cursor, modes' = modes
  PROVE  /\ Due(s)' = Due(s) \union (IF Matches(e, modes[s]) THEN {Len(log) + 1} ELSE {})
         /\ \A i \in Due(s) : i < Len(log) + 1
<1>1. Len(log) \in Nat /\ log \in Seq(Events)
    BY DEF TypeOK
<1>2. /\ Len(log') = Len(log) + 1 /\ log'[Len(log) + 1] = e
      /\ \A i \in 1..Len(log) : log'[i] = log[i]
    BY <1>1
<1>3. /\ Cursor[s] \in 0..Len(log)
      /\ Due(s) = {i \in (Cursor[s] + 1)..Len(log) : Matches(log[i], modes[s])}
      /\ Due(s) \subseteq 1..Len(log)
    BY DueIs
<1>4. Due(s)' = {i \in (Cursor[s] + 1)..(Len(log) + 1) : Matches(log'[i], modes[s])}
    BY <1>2, SameMatches DEF Due, Contract!Due
<1>5. \A i \in (Cursor[s] + 1)..(Len(log) + 1) : i = Len(log) + 1 \/ i \in (Cursor[s] + 1)..Len(log)
    BY <1>1, <1>3
<1>6. /\ Len(log) + 1 \in (Cursor[s] + 1)..(Len(log) + 1)
      /\ (Cursor[s] + 1)..Len(log) \subseteq (Cursor[s] + 1)..(Len(log) + 1)
      /\ (Cursor[s] + 1)..Len(log) \subseteq 1..Len(log)
    BY <1>1, <1>3
<1>7. \A i \in Due(s) : i < Len(log) + 1
    BY <1>1, <1>3
<1>8. Due(s)' = Due(s) \union (IF Matches(e, modes[s]) THEN {Len(log) + 1} ELSE {})
    BY <1>2, <1>3, <1>4, <1>5, <1>6
<1> QED BY <1>7, <1>8

\* Each subscriber has the event in its queue, or is behind by more than a
\* queue, or does not want it.
LEMMA PublishReaches ==
  ASSUME IInv, NEW s \in Subscribers, NEW e \in Events, ~closed, Fans(e, s),
         log' = Append(log, e), Cursor' = Cursor,
         UNCHANGED <<resumable, closed, modes, phase, replay>>
  PROVE  Fanned(s)' /\ Reading(s)'
<1> DEFINE n == Len(log) + 1
<1>1. TypeOK /\ Fanned(s) /\ Reading(s) /\ Len(log) \in Nat
    BY DEF IInv, Readers, TypeOK
<1>2. /\ Due(s)' = Due(s) \union (IF Matches(e, modes[s]) THEN {n} ELSE {})
      /\ \A i \in Due(s) : i < n
      /\ Due(s) \subseteq 1..Len(log) /\ IsFiniteSet(Due(s))
    BY <1>1, PublishDue, DueIs
<1>3. /\ queue[s] \in Seq(Ids) /\ Len(queue[s]) \in Nat /\ attached[s] \in BOOLEAN
      /\ replay'[s] = replay[s] /\ phase'[s] = phase[s] /\ n \notin Due(s)
    BY <1>1, <1>2 DEF TypeOK
<1>4. CASE phase[s] # "attached"
    BY <1>1, <1>3, <1>4 DEF Fans, Fanned, Reading
<1>5. CASE phase[s] = "attached" /\ attached[s] /\ Matches(e, modes[s]) /\ Full(s)
  <2>1. queue'[s] = <<>> /\ mark'[s] = "overflow" /\ ~attached'[s]
      BY <1>5 DEF Fans
  <2>2. Ordered(s) /\ Held(s) /\ phase[s] = "attached"
      BY <1>1, <1>5 DEF Fanned, Reading
  <2>3. Due(s)' = Due(s) \union {n}
      BY <1>2, <1>5
  <2>4. Fanned(s)'
      BY <2>1 DEF Fanned
  <2>5. Ordered(s)'
      BY <1>2, <1>3, <2>2, <2>3 DEF Ordered
  <2>6. Due(s)' \ replay'[s] = Range(queue[s]) \union {n}
    <3>1. \A i \in Range(queue[s]) : i \in Due(s) /\ i \notin replay[s]
      <4>1. \A i \in Due(s) : ~(i < i)
          BY <1>1, <1>2
      <4> QED BY <2>2, <4>1 DEF Held, Range
    <3>2. \A i \in Due(s) : i \in replay[s] \/ i \in Range(queue[s])
        BY <2>2 DEF Held
    <3>3. n \notin replay[s]
        BY <1>3, <2>2 DEF Ordered
    <3> QED BY <1>3, <2>3, <3>1, <3>2, <3>3
  <2>7. Cardinality(Range(queue[s]) \union {n}) = QueueSize + 1
    <3>1. IsFiniteSet(Range(queue[s])) /\ Cardinality(Range(queue[s])) = QueueSize
        BY <1>1, <1>5, <2>2, FullQueue
    <3>2. n \notin Range(queue[s])
        BY <1>3, <2>2 DEF Held
    <3> QED BY <3>1, <3>2, FS_AddElement
  <2>8. Behind(s)'
    <3>1. Cardinality(Due(s)' \ replay'[s]) = QueueSize + 1
        BY <2>6, <2>7
    <3>2. QueueSize + 1 > QueueSize
        BY QueueSizeAssumption
    <3> QED BY <3>1, <3>2 DEF Behind
  <2> QED BY <2>1, <2>4, <2>5, <2>8 DEF Reading
<1>6. CASE phase[s] = "attached" /\ attached[s] /\ Matches(e, modes[s]) /\ ~Full(s)
  <2>1. /\ queue'[s] = Append(queue[s], n) /\ mark'[s] = mark[s]
        /\ attached'[s] /\ mark[s] # "overflow"
      BY <1>1, <1>6 DEF Fans, Fanned
  <2>2. Ordered(s) /\ Held(s) /\ phase[s] = "attached"
      BY <1>1, <1>6, <2>1 DEF Fanned, Reading
  <2>3. Due(s)' = Due(s) \union {n}
      BY <1>2, <1>6
  <2>4. Fanned(s)'
      BY <1>1, <1>3, <2>1, <2>2 DEF Fanned
  <2>5. Ordered(s)'
      BY <1>2, <1>3, <2>2, <2>3 DEF Ordered
  <2>6. /\ DOMAIN queue[s] = 1..Len(queue[s])
        /\ DOMAIN queue'[s] = 1..(Len(queue[s]) + 1)
        /\ queue'[s][Len(queue[s]) + 1] = n
        /\ \A k \in 1..Len(queue[s]) : queue'[s][k] = queue[s][k]
    <3>1. \A q \in Seq(Ids \union {n}), i \in {n} :
             /\ Append(q, i) \in Seq(Ids \union {n}) /\ Len(Append(q, i)) = Len(q) + 1
             /\ Append(q, i)[Len(q) + 1] = i
             /\ \A k \in 1..Len(q) : Append(q, i)[k] = q[k]
        BY AppendProperties
    <3>2. queue[s] \in Seq(Ids \union {n})
        BY <1>3, SeqMonotonic
    <3> QED BY <1>3, <2>1, <3>1, <3>2, LenProperties
  <2>7. Range(queue'[s]) = Range(queue[s]) \union {n}
    <3>1. ASSUME NEW i \in Range(queue'[s])
          PROVE  i \in Range(queue[s]) \/ i = n
      <4>1. PICK k \in 1..(Len(queue[s]) + 1) : i = queue'[s][k]
          BY <2>6 DEF Range
      <4>2. k = Len(queue[s]) + 1 \/ k \in 1..Len(queue[s])
          BY <1>3
      <4> QED BY <2>6, <4>1, <4>2 DEF Range
    <3>2. n \in Range(queue'[s])
      <4>1. Len(queue[s]) + 1 \in DOMAIN queue'[s]
          BY <1>3, <2>6
      <4> QED BY <2>6, <4>1 DEF Range
    <3>3. ASSUME NEW i \in Range(queue[s])
          PROVE  i \in Range(queue'[s])
      <4>1. PICK k \in 1..Len(queue[s]) : i = queue[s][k]
          BY <2>6 DEF Range
      <4>2. k \in DOMAIN queue'[s] /\ queue'[s][k] = i
          BY <1>3, <2>6, <4>1
      <4> QED BY <4>2 DEF Range
    <3> QED BY <3>1, <3>2, <3>3
  <2>8. \A i \in replay[s] : i < n
      BY <1>2, <2>2 DEF Ordered
  <2>9. \A k \in DOMAIN queue[s] : queue[s][k] < n
      BY <1>2, <2>2 DEF Held, Range
  <2>10. Held(s)'
    <3>1. replay'[s] \union Range(queue'[s]) = Due(s)'
        BY <1>3, <2>2, <2>3, <2>7 DEF Held
    <3>2. ASSUME NEW k \in DOMAIN queue'[s]
          PROVE  /\ \A i \in replay'[s] : i < queue'[s][k]
                 /\ \A l \in 1..(k - 1) : queue'[s][l] < queue'[s][k]
      <4>1. CASE k = Len(queue[s]) + 1
        <5>1. \A l \in 1..(k - 1) : l \in DOMAIN queue[s] /\ queue'[s][l] = queue[s][l]
            BY <1>3, <2>6, <4>1
        <5>2. queue'[s][k] = n
            BY <2>6, <4>1
        <5>3. \A l \in 1..(k - 1) : queue'[s][l] < n
            BY <2>9, <5>1
        <5> HIDE DEF n
        <5> QED BY <1>3, <2>8, <5>2, <5>3
      <4>2. CASE k \in 1..Len(queue[s])
        <5>1. \A l \in 1..(k - 1) : l \in 1..Len(queue[s])
            BY <1>3, <4>2
        <5>2. queue'[s][k] = queue[s][k] /\ k \in DOMAIN queue[s]
            BY <2>6, <4>2
        <5>3. \A l \in 1..(k - 1) : queue'[s][l] = queue[s][l]
            BY <2>6, <5>1
        <5>4. /\ \A i \in replay[s] : i < queue[s][k]
              /\ \A l \in 1..(k - 1) : queue[s][l] < queue[s][k]
            BY <2>2, <5>2 DEF Held
        <5> QED BY <1>3, <5>2, <5>3, <5>4
      <4>3. k = Len(queue[s]) + 1 \/ k \in 1..Len(queue[s])
          BY <1>3, <2>6
      <4> QED BY <4>1, <4>2, <4>3
    <3> QED BY <3>1, <3>2 DEF Held
  <2> QED BY <2>1, <2>4, <2>5, <2>10 DEF Reading
<1>7. CASE phase[s] = "attached" /\ ~(attached[s] /\ Matches(e, modes[s]))
  <2>1. queue'[s] = queue[s] /\ mark'[s] = mark[s] /\ attached'[s] = attached[s]
      BY <1>3, <1>7 DEF Fans
  <2>2. Fanned(s)'
      BY <1>1, <1>3, <2>1 DEF Fanned
  <2>3. CASE ~Matches(e, modes[s])
    <3>1. Due(s)' = Due(s)
        BY <1>2, <2>3
    <3>2. /\ Ordered(s)' <=> Ordered(s)
          /\ Held(s)' <=> Held(s)
          /\ Behind(s)' <=> Behind(s)
        BY <1>3, <2>1, <3>1 DEF Ordered, Held, Behind
    <3> QED BY <1>1, <1>3, <2>1, <2>2, <3>2 DEF Reading
  <2>4. CASE Matches(e, modes[s])
    <3>1. mark[s] = "overflow" /\ Ordered(s) /\ Behind(s)
        BY <1>1, <1>7, <2>4 DEF Fanned, Reading
    <3>2. Due(s)' = Due(s) \union {n}
        BY <1>2, <2>4
    <3>3. Ordered(s)'
        BY <1>2, <1>3, <3>1, <3>2 DEF Ordered
    <3>4. IsFiniteSet(Due(s)' \ replay'[s])
      <4>1. IsFiniteSet(Due(s)')
          BY <1>2, <3>2, FS_AddElement
      <4> QED BY <4>1, FS_Subset
    <3>5. Due(s) \ replay[s] \in SUBSET (Due(s)' \ replay'[s])
        BY <1>3, <3>2
    <3>6. Cardinality(Due(s) \ replay[s]) <= Cardinality(Due(s)' \ replay'[s])
        BY <3>4, <3>5, FS_Subset
    <3>7. IsFiniteSet(Due(s) \ replay[s])
        BY <3>4, <3>5, FS_Subset
    <3>8. Behind(s)'
        BY <3>1, <3>4, <3>6, <3>7, FS_CardinalityType, QueueSizeAssumption DEF Behind
    <3> QED BY <2>1, <2>2, <3>1, <3>3, <3>8 DEF Reading
  <2> QED BY <2>3, <2>4
<1> QED BY <1>4, <1>5, <1>6, <1>7

\* Publishing keeps every subscriber's reading, and evicts in range.
LEMMA PublishKeeps ==
  ASSUME IInv, Publish
  PROVE  /\ IInv'
         /\ Cursor' = Cursor
         /\ \E e \in Events : log' = Append(log, e)
         /\ evicted' \in evicted..Len(log')
         /\ ~resumable => evicted' = 0
<1> PICK e \in Events :
       LET wanting == {s \in Subscribers : attached[s] /\ Matches(e, modes[s])}
           full == {s \in wanting : Full(s)}
       IN  /\ log' = Append(log, e)
           /\ evicted' \in {k \in 0..Len(log') :
                             IF resumable THEN EvictTo(log', k) ELSE k = evicted}
           /\ queue' = [s \in Subscribers |->
                          IF s \in full THEN <<>>
                          ELSE IF s \in wanting THEN Append(queue[s], Len(log'))
                          ELSE queue[s]]
           /\ mark' = [s \in Subscribers |-> IF s \in full THEN "overflow" ELSE mark[s]]
           /\ attached' = [s \in Subscribers |-> attached[s] /\ s \notin full]
    BY DEF Publish
<1>1. ~closed /\ Len(log) < MaxEvents /\ UNCHANGED <<resumable, closed, modes, phase, started, replay, delivered, joined>>
    BY DEF Publish
<1>2. /\ Len(log) \in Nat /\ log' \in Seq(Events) /\ Len(log') = Len(log) + 1
      /\ evicted \in 0..Len(log) /\ TypeOK
    BY DEF IInv, TypeOK
<1>3. Cursor' = Cursor
    BY <1>1 DEF Cursor
<1>4. evicted' \in evicted..Len(log') /\ (~resumable => evicted' = 0)
  <2>1. resumable => evicted' \in evicted..Len(log')
      BY DEF EvictTo
  <2>2. ~resumable => evicted' = evicted
      OBVIOUS
  <2> QED BY <1>2, <2>1, <2>2 DEF IInv, Retained
<1>5. ASSUME NEW s \in Subscribers
      PROVE  Fans(e, s)
  <2>1. /\ queue'[s] = IF attached[s] /\ Matches(e, modes[s]) /\ Full(s) THEN <<>>
                       ELSE IF attached[s] /\ Matches(e, modes[s]) THEN Append(queue[s], Len(log'))
                       ELSE queue[s]
        /\ mark'[s] = IF attached[s] /\ Matches(e, modes[s]) /\ Full(s) THEN "overflow" ELSE mark[s]
        /\ attached'[s] = (attached[s] /\ ~(attached[s] /\ Matches(e, modes[s]) /\ Full(s)))
      OBVIOUS
  <2> QED BY <1>2, <2>1 DEF Fans
<1>6. TypeOK'
  <2>1. ASSUME NEW s \in Subscribers
        PROVE  /\ queue'[s] \in Seq(Ids) /\ Len(queue'[s]) <= QueueSize
               /\ mark'[s] \in {"none", "end", "overflow"}
               /\ attached'[s] \in BOOLEAN
               /\ replay'[s] \in SUBSET Ids
               /\ delivered'[s] \in 0..Len(log') /\ joined'[s] \in 0..Len(log')
    <3>1. queue[s] \in Seq(Ids) /\ Len(queue[s]) <= QueueSize
        BY <1>2 DEF TypeOK
    <3>2. Len(log) + 1 \in Ids
        BY <1>1, <1>2, MaxEventsAssumption DEF Ids
    <3>3. Append(queue[s], Len(log) + 1) \in Seq(Ids)
        BY <3>1, <3>2
    <3>4. ~Full(s) => Len(Append(queue[s], Len(log) + 1)) <= QueueSize
        BY <3>1, QueueSizeAssumption DEF Full
    <3>5. <<>> \in Seq(Ids) /\ Len(<<>>) <= QueueSize
        BY QueueSizeAssumption
    <3>6. queue'[s] \in Seq(Ids) /\ Len(queue'[s]) <= QueueSize
        BY <1>5, <3>1, <3>3, <3>4, <3>5 DEF Fans
    <3>7. mark'[s] \in {"none", "end", "overflow"}
        BY <1>2 DEF TypeOK
    <3>8. attached'[s] \in BOOLEAN
        OBVIOUS
    <3>9. delivered'[s] \in 0..Len(log') /\ joined'[s] \in 0..Len(log') /\ replay'[s] \in SUBSET Ids
        BY <1>1, <1>2 DEF TypeOK
    <3> QED BY <3>6, <3>7, <3>8, <3>9
  <2>2. /\ queue' \in [Subscribers -> Seq(Ids)]
        /\ \A s \in Subscribers : Len(queue'[s]) <= QueueSize
      BY <2>1
  <2>3. /\ mark' \in [Subscribers -> {"none", "end", "overflow"}]
        /\ attached' \in [Subscribers -> BOOLEAN]
      BY <2>1
  <2>4. /\ delivered' \in [Subscribers -> 0..Len(log')]
        /\ joined' \in [Subscribers -> 0..Len(log')]
      BY <1>1, <1>2, <2>1 DEF TypeOK
  <2>5. evicted' \in 0..Len(log')
      BY <1>2, <1>4
  <2> QED BY <1>1, <1>2, <2>2, <2>3, <2>4, <2>5 DEF TypeOK
<1>7. Retained'
    BY <1>1, <1>2, <1>4, MaxEventsAssumption DEF Retained
<1>8. Readers'
    BY <1>1, <1>3, <1>5, PublishReaches DEF Readers
<1> QED BY <1>3, <1>4, <1>6, <1>7, <1>8 DEF IInv

\* Closing leaves a marker where there is room for one.
LEMMA CloseKeeps ==
  ASSUME IInv, Close
  PROVE  IInv' /\ Cursor' = Cursor
<1>1. /\ ~closed /\ closed'
      /\ UNCHANGED <<resumable, log, evicted, attached, modes, queue, phase, started, replay,
                     delivered, joined>>
      /\ mark' = [s \in Subscribers |-> IF attached[s] /\ ~Full(s) THEN "end" ELSE mark[s]]
    BY DEF Close
<1>2. Cursor' = Cursor
    BY <1>1 DEF Cursor
<1>3. TypeOK'
  <2>1. mark' \in [Subscribers -> {"none", "end", "overflow"}]
      BY <1>1 DEF IInv, TypeOK
  <2>2. closed' \in BOOLEAN
      BY DEF Close
  <2> QED BY <1>1, <2>1, <2>2 DEF IInv, TypeOK
<1>4. Retained'
    BY <1>1 DEF IInv, Retained
<1>5. ASSUME NEW s \in Subscribers
      PROVE  Fanned(s)' /\ Reading(s)'
  <2>1. Fanned(s) /\ Reading(s)
      BY DEF IInv, Readers
  <2>2. mark'[s] = "overflow" <=> mark[s] = "overflow"
      BY <1>1, <2>1 DEF Fanned
  <2>3. Fanned(s)'
      BY <1>1, <2>1, <2>2 DEF Fanned
  <2>4. Due(s)' = Due(s)
      BY <1>1, <1>2 DEF Due, Contract!Due
  <2>5. (Ordered(s)' <=> Ordered(s)) /\ (Held(s)' <=> Held(s)) /\ (Behind(s)' <=> Behind(s))
      BY <1>1, <2>4 DEF Ordered, Held, Behind
  <2> QED BY <1>1, <2>1, <2>2, <2>3, <2>5 DEF Reading
<1> QED BY <1>2, <1>3, <1>4, <1>5 DEF IInv, Readers

-----------------------------------------------------------------------------
(***************************************************************************)
(* Each step keeps the invariant and is a step of the contract.            *)
(***************************************************************************)
\* The subscribers' steps.
LEMMA SubscriberStep ==
  ASSUME IInv, NEW s \in Subscribers,
         \/ SubscribeLive(s) \/ SubscribeAfter(s) \/ Drain(s)
         \/ Leave(s) \/ Detach(s) \/ Vanish(s)
  PROVE  IInv' /\ [Contract!Next]_(Contract!contractVars)
<1>0. /\ TypeOK /\ Fanned(s) /\ Reading(s) /\ Len(log) \in Nat /\ evicted \in 0..Len(log)
      /\ Cursor \in [Subscribers -> 0..Len(log)]
  <2>1. TypeOK /\ Fanned(s) /\ Reading(s) /\ Len(log) \in Nat /\ evicted \in 0..Len(log)
      BY DEF IInv, Readers, TypeOK
  <2> QED BY <2>1, DueIs DEF Cursor
<1>1. ASSUME NEW after \in 0..Len(log), NEW wanted \in Filters,
             Subscribe(s, after, wanted, ReplayAfter(after, wanted)),
             ~CursorExpired(after)
      PROVE  IInv' /\ Contract!Subscribe(s)
  <2>1. /\ IInv'
        /\ Cursor'[s] = IF resumable THEN after ELSE Len(log)
        /\ \A t \in Subscribers \ {s} : Cursor'[t] = Cursor[t]
      BY <1>1, SubscribeKeeps
  <2>2. /\ phase[s] = "away" /\ phase' = [phase EXCEPT ![s] = "attached"]
        /\ modes' = [modes EXCEPT ![s] = wanted]
        /\ UNCHANGED <<resumable, log, evicted, closed>>
      BY <1>1 DEF Subscribe, streamVars
  <2>3. Cursor' = [Cursor EXCEPT ![s] = Cursor'[s]]
      BY <2>1 DEF Cursor
  <2>4. Cursor'[s] \in evicted..Len(log) /\ (~resumable => Cursor'[s] = Len(log))
      BY <1>0, <1>1, <2>1 DEF CursorExpired
  <2> QED BY <2>1, <2>2, <2>3, <2>4 DEF Contract!Subscribe
<1>2. CASE SubscribeLive(s)
  <2>1. PICK wanted \in Filters : Subscribe(s, Len(log), wanted, {})
      BY <1>2 DEF SubscribeLive
  <2>2. ReplayAfter(Len(log), wanted) = {}
      BY <1>0 DEF ReplayAfter
  <2>3. Len(log) \in 0..Len(log) /\ ~CursorExpired(Len(log))
      BY <1>0 DEF CursorExpired
  <2>4. IInv' /\ Contract!Subscribe(s)
      BY <1>1, <2>1, <2>2, <2>3
  <2> QED BY <2>4 DEF Contract!Next
<1>3. CASE SubscribeAfter(s)
  <2>1. PICK after \in 0..Len(log), wanted \in Filters :
          ~CursorExpired(after) /\ Subscribe(s, after, wanted, ReplayAfter(after, wanted))
      BY <1>3 DEF SubscribeAfter
  <2>2. IInv' /\ Contract!Subscribe(s)
      BY <1>1, <2>1
  <2> QED BY <2>2 DEF Contract!Next
<1>4. ASSUME NEW i \in Due(s), \A j \in Due(s) : i <= j,
             Cursor' = [Cursor EXCEPT ![s] = i], phase[s] = "attached",
             UNCHANGED <<resumable, log, evicted, closed, phase, modes>>
      PROVE  Contract!Next
  <2>1. Contract!Deliver(s)
      BY <1>4 DEF Contract!Deliver, Due
  <2> QED BY <2>1 DEF Contract!Next
<1>5. CASE Replay(s)
  <2>1. PICK i \in Due(s) : /\ \A j \in Due(s) : i <= j
                            /\ Cursor' = [Cursor EXCEPT ![s] = i]
      BY <1>5, ReplayKeeps
  <2>2. phase[s] = "attached" /\ UNCHANGED <<resumable, log, evicted, closed, phase, modes>>
      BY <1>5 DEF Replay, Iterating, streamVars
  <2>3. IInv'
      BY <1>5, ReplayKeeps
  <2> QED BY <1>4, <2>1, <2>2, <2>3
<1>6. CASE Live(s)
  <2>1. PICK i \in Due(s) : /\ \A j \in Due(s) : i <= j
                            /\ Cursor' = [Cursor EXCEPT ![s] = i]
      BY <1>6, LiveKeeps
  <2>2. phase[s] = "attached" /\ UNCHANGED <<resumable, log, evicted, closed, phase, modes>>
      BY <1>6 DEF Live, Draining, Iterating, streamVars
  <2>3. IInv'
      BY <1>6, LiveKeeps
  <2> QED BY <1>4, <2>1, <2>2, <2>3
<1>7. ASSUME NEW how \in {"done", "failed", "left"}, Over(s, how), phase[s] = "attached",
             Release(s) \/ UNCHANGED <<attached, queue>>
      PROVE  IInv' /\ Contract!Over(s, how)
  <2>1. IInv' /\ Cursor' = Cursor
      BY <1>7, OverKeeps
  <2> QED BY <1>7, <2>1 DEF Over, Contract!Over, streamVars
<1>8. CASE Fail(s)
  <2>1. /\ Finish(s, "failed") /\ phase[s] = "attached" /\ replay[s] = {}
        /\ mark[s] = "overflow" /\ (~resumable \/ CursorExpired(delivered[s]))
      BY <1>8 DEF Fail, Overflowed, Draining, Iterating
  <2>2. IInv' /\ Contract!Over(s, "failed")
      BY <1>7, <2>1 DEF Finish
  <2>3. Cardinality(Due(s)) > QueueSize
    <3>1. Behind(s)
        BY <1>0, <2>1 DEF Reading
    <3>2. Due(s) \ replay[s] = Due(s)
        BY <2>1
    <3> QED BY <3>1, <3>2 DEF Behind
  <2>4. resumable => Cursor[s] < evicted
      BY <2>1 DEF Cursor, CursorExpired
  <2>5. Contract!Drop(s)
      BY <2>2, <2>3, <2>4, SameCardinality DEF Contract!Drop, Due
  <2> QED BY <2>2, <2>5 DEF Contract!Next
<1>9. CASE CatchUp(s)
  <2>1. IInv' /\ Cursor' = Cursor
      BY <1>9, CatchUpKeeps
  <2>2. UNCHANGED <<resumable, log, evicted, closed, phase, modes>>
      BY <1>9 DEF CatchUp, streamVars
  <2> QED BY <2>1, <2>2 DEF Contract!contractVars
<1>10. CASE End(s)
  <2>1. /\ Finish(s, "done") /\ phase[s] = "attached" /\ replay[s] = {}
        /\ queue[s] = <<>> /\ mark[s] # "overflow" /\ (mark[s] = "end" \/ closed)
      BY <1>10 DEF End, Draining, Iterating
  <2>2. IInv' /\ Contract!Over(s, "done")
      BY <1>7, <2>1 DEF Finish
  <2>3. closed
      BY <1>0, <2>1 DEF Fanned
  <2>4. Due(s) = {}
    <3>1. replay[s] \union Range(queue[s]) = Due(s)
        BY <1>0, <2>1 DEF Reading, Held
    <3> QED BY <2>1, <3>1 DEF Range
  <2>5. Contract!End(s)
      BY <2>2, <2>3, <2>4 DEF Contract!End, Due
  <2> QED BY <2>2, <2>5 DEF Contract!Next
<1>11. CASE Leave(s) \/ Detach(s) \/ Vanish(s)
  <2>1. /\ Over(s, "left") /\ phase[s] = "attached"
        /\ Release(s) \/ UNCHANGED <<attached, queue>>
      BY <1>11 DEF Leave, Iterating, Finish, Detach, Vanish
  <2>2. IInv' /\ Contract!Over(s, "left")
      BY <1>7, <2>1
  <2>3. Contract!Leave(s)
      BY <2>2 DEF Contract!Leave
  <2> QED BY <2>2, <2>3 DEF Contract!Next
<1>12. CASE Start(s)
  <2>1. /\ UNCHANGED <<resumable, log, evicted, closed, attached, modes, queue, mark, phase, replay,
                       delivered, joined>>
        /\ started' \in [Subscribers -> BOOLEAN]
      BY <1>0, <1>12 DEF Start, streamVars, TypeOK
  <2>2. Cursor' = Cursor
      BY <2>1 DEF Cursor
  <2>3. TypeOK' /\ Retained'
      BY <2>1 DEF IInv, TypeOK, Retained
  <2>4. Readers'
      BY <2>1, Undisturbed DEF IInv, Readers
  <2> QED BY <2>1, <2>2, <2>3, <2>4 DEF IInv, Contract!contractVars
<1> QED BY <1>2, <1>3, <1>5, <1>6, <1>8, <1>9, <1>10, <1>11, <1>12 DEF Drain

\* Every step.
LEMMA Step == IInv /\ [Next]_vars => IInv' /\ [Contract!Next]_(Contract!contractVars)
<1> SUFFICES ASSUME IInv, [Next]_vars
             PROVE  IInv' /\ [Contract!Next]_(Contract!contractVars)
    OBVIOUS
<1>1. CASE Publish
  <2>1. /\ IInv' /\ Cursor' = Cursor
        /\ \E e \in Events : log' = Append(log, e)
        /\ evicted' \in evicted..Len(log')
        /\ ~resumable => evicted' = 0
      BY <1>1, PublishKeeps
  <2>2. ~closed /\ UNCHANGED <<resumable, closed, modes, phase>>
      BY <1>1 DEF Publish
  <2>3. Contract!Publish
      BY <2>1, <2>2 DEF Contract!Publish
  <2> QED BY <2>1, <2>3 DEF Contract!Next
<1>2. CASE Close
  <2>1. IInv' /\ Cursor' = Cursor
      BY <1>2, CloseKeeps
  <2>2. Contract!Close
      BY <1>2, <2>1 DEF Close, Contract!Close
  <2> QED BY <2>1, <2>2 DEF Contract!Next
<1>3. CASE \E s \in Subscribers : \/ SubscribeLive(s) \/ SubscribeAfter(s) \/ Drain(s)
                                  \/ Leave(s) \/ Detach(s) \/ Vanish(s)
    BY <1>3, SubscriberStep
<1>4. CASE UNCHANGED vars
  <2>1. Cursor' = Cursor
      BY <1>4 DEF Cursor, vars, streamVars, subVars
  <2>2. TypeOK' /\ Retained'
      BY <1>4 DEF IInv, TypeOK, Retained, vars, streamVars, subVars
  <2>3. Readers'
    <3>1. UNCHANGED <<resumable, log, closed, attached, modes, queue, mark, phase, replay,
                      delivered, joined>>
        BY <1>4 DEF vars, streamVars, subVars
    <3> QED BY <3>1, Undisturbed DEF IInv, Readers
  <2> QED BY <1>4, <2>1, <2>2, <2>3
          DEF IInv, Contract!contractVars, vars, streamVars, subVars
<1> QED BY <1>1, <1>2, <1>3, <1>4 DEF Next

\* The invariant holds always.
LEMMA Invariance == Spec => []IInv
<1>1. IInv /\ [Next]_vars => IInv'
    BY Step
<1> QED BY <1>1, InitInv, PTL DEF Spec

-----------------------------------------------------------------------------
\* Every variable of a stream keeps its type.
THEOREM StreamTypes == Spec => []TypeOK
<1>1. IInv => TypeOK
    BY DEF IInv
<1> QED BY <1>1, Invariance, PTL

\* No event slips between the replay and the live queue, and none is there
\* twice (run_streams.py 126-157, 222-279).
THEOREM NoEventIsLost == Spec => []NothingIsLost
<1>1. IInv => NothingIsLost
    BY DEF IInv, Readers, Reading, Held, Due, NothingIsLost
<1> QED BY <1>1, Invariance, PTL

\* The stream implements its contract: what a subscriber receives, in which
\* order, when it is dropped and when it ends.
THEOREM StreamKeepsContract == Spec => KeepsContract
<1>1. Init => Contract!Init
    BY DEF Init, Contract!Init, Cursor
<1>2. IInv /\ [Next]_vars => [Contract!Next]_(Contract!contractVars)
    BY Step
<1> QED BY <1>1, <1>2, Invariance, PTL DEF Spec, KeepsContract, Contract!Spec
=============================================================================
