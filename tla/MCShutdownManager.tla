------------------------- MODULE MCShutdownManager -------------------------
(* TLC instances of ShutdownManager. *)
EXTENDS ShutdownManager, TLC

CONSTANT n1

\* All named hooks are registered under one name.
MCNameOf == [h \in Named |-> "hook"]

\* Bound.  A second named hook meets one plain hook and no Stop or
\* ForceShutdown; ForceShutdown of the application meets one plain hook; a
\* second Start finds no hooks.
OneComplication ==
  /\ hooks' > 1 \/ cancelled' => namedHooks' \subseteq {n1}
  /\ hooks' > 1 => "application" \notin forcing'
  /\ running' /\ chanClosed' => hooks' = 0 /\ namedHooks' = {}
=============================================================================
