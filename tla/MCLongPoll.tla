----------------------------- MODULE MCLongPoll -----------------------------
(* TLC instances of LongPoll. *)
EXTENDS LongPoll, TLC

CONSTANTS c1, e1, e2, e3, e4

\* One client holds every subscription.
MCClientOf == [s \in Subs |-> c1]

\* Bound.  Events differ in their IDs only: they are published in this order.
InOrder ==
  LET order == <<e1, e2, e3, e4>> IN
    \A k \in 2 .. 4 : pPc'[order[k]] # "new" => pPc'[order[k - 1]] # "new"
=============================================================================
