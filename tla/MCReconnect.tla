---------------------------- MODULE MCReconnect ----------------------------
(* TLC instances of Reconnect. *)
EXTENDS Reconnect, TLC

\* Bound.  Reset and Stop are called, or a second connection is made.
OneComplication ==
  Cardinality(made') > 1
    => called' = {} /\ \A p \in Stops : pc'[p] = "idle"
=============================================================================
