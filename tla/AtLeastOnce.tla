---------------------------- MODULE AtLeastOnce ----------------------------
(***************************************************************************)
(* What the message queue promises its users while clients only produce    *)
(* and consume: an accepted message stays available until it is settled,   *)
(* it is handed out at least once before that and at most 1 + MaxRetries   *)
(* times, and a settled message never comes back.                          *)
(***************************************************************************)
EXTENDS Naturals

CONSTANTS Messages, MaxRetries

VARIABLES
  stage,     \* "absent", then "live", then "settled"
  attempts   \* how often a message was handed to a worker

vars == <<stage, attempts>>

Init ==
  /\ stage = [m \in Messages |-> "absent"]
  /\ attempts = [m \in Messages |-> 0]

Accept(m) ==
  /\ stage[m] = "absent"
  /\ stage' = [stage EXCEPT ![m] = "live"]
  /\ UNCHANGED attempts

Deliver(m) ==
  /\ stage[m] = "live"
  /\ attempts[m] <= MaxRetries
  /\ attempts' = [attempts EXCEPT ![m] = @ + 1]
  /\ UNCHANGED stage

Settle(m) ==
  /\ stage[m] = "live" /\ attempts[m] > 0
  /\ stage' = [stage EXCEPT ![m] = "settled"]
  /\ UNCHANGED attempts

Next == \E m \in Messages : Accept(m) \/ Deliver(m) \/ Settle(m)

Spec == Init /\ [][Next]_vars
=============================================================================
