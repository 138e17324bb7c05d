----------------------------- MODULE StreamModes -----------------------------
(***************************************************************************)
(* Which events of a run's stream reach a subscriber that asked for some   *)
(* stream modes only.  An event's name is a base mode, with a namespace if *)
(* a subgraph emitted it: [base |-> "values", subgraph |-> TRUE] is        *)
(* "values|<namespace>".                                                   *)
(***************************************************************************)

\* _LIFECYCLE_EVENTS
Lifecycle == {"metadata", "error", "end"}

\* The event names that start with "messages".
MessagesFamily ==
    {"messages", "messages-tuple", "messages/partial", "messages/complete",
     "messages/metadata"}

\* stream_mode_matches: no modes means everything.
Matches(event, modes) ==
    \/ modes = {}
    \/ ~event.subgraph /\ event.base \in Lifecycle
    \/ event.base \in modes
    \/ event.base \in MessagesFamily /\ modes \cap {"messages", "messages-tuple"} # {}
=============================================================================
