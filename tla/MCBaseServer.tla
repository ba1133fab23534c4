---------------------------- MODULE MCBaseServer ----------------------------
(* TLC instances of BaseServer. *)
EXTENDS BaseServer, TLC

\* Silent clients are interchangeable.
Symmetry == Permutations(Conns)

\* Bounds.  A server without the heartbeat loop.
NoHeartbeat == ~heartbeat

\* The heartbeat, and clients that send or hang up, or a second Start.
OneComplication ==
  Cardinality({s \in Starts : sPc'[s] # "idle"}) > 1
    => ~heartbeat /\ unread' \cup hungUp' = {}
=============================================================================
