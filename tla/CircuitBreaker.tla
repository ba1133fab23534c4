--------------------------- MODULE CircuitBreaker ---------------------------
(***************************************************************************)
(* The breaker of pkg/middleware/circuitbreaker: callers of Execute (or    *)
(* ExecuteHTTP, which differs in wording only) and of Reset, ForceOpen and *)
(* ForceClose, over an atomic state word and counters behind stats.mu.     *)
(*                                                                         *)
(* The code loads the state, decides, and swaps it later; each load, each  *)
(* critical section and each swap is a step here.  generation is passed    *)
(* along but never compared, so it is left out.  Of the clock only one bit *)
(* is kept: whether SleepWindow has passed since lastFailTime.             *)
(***************************************************************************)
EXTENDS Integers, FiniteSets

CONSTANTS
  Callers,            \* goroutines that call Execute again and again
  Admin,              \* calls of Reset, ForceOpen and ForceClose
  Resets, Opens,      \* which of Admin are Reset, and ForceOpen
  MaxCalls,           \* bound: calls of Execute in a behaviour
  MinRequests, FailureThreshold, HalfOpenMax, SuccessThreshold,
  RatioNum, RatioDen  \* FailureRatio

ASSUME BreakerAssumption ==
  /\ Callers \cap Admin = {} /\ Resets \subseteq Admin /\ Opens \subseteq Admin
  /\ Resets \cap Opens = {}
  /\ MaxCalls \in Nat /\ MinRequests \in Nat /\ HalfOpenMax \in Nat \ {0}
  /\ FailureThreshold \in Nat \ {0} /\ SuccessThreshold \in Nat
  /\ RatioNum \in Nat \ {0} /\ RatioDen \in Nat /\ RatioNum <= RatioDen

States == {"closed", "open", "halfOpen"}
Everyone == Callers \cup Admin

VARIABLES
  state,       \* cb.state
  stats,       \* the fields of cb.stats that decide something
  slept,       \* now - lastFailTime >= SleepWindow; at first lastFailTime is 0
  pc,          \* where each caller is
  seen,        \* the state it loaded, then the one it is about to swap in
  calls,       \* calls of Execute so far
  (* what happened so far *)
  failedHere,  \* callers that counted a failure in the present half-open state
  alone        \* no two calls overlapped, and nobody called an Admin operation

vars == <<state, stats, slept, pc, seen, calls, failedHere, alone>>

Zero == [requests |-> 0, failures |-> 0, cFails |-> 0, cSuccs |-> 0]

Init ==
  /\ state = "closed" /\ stats = Zero /\ slept = TRUE
  /\ pc = [c \in Everyone |-> "idle"]
  /\ seen = [c \in Everyone |-> "closed"]
  /\ calls = 0 /\ failedHere = {} /\ alone = TRUE

Goto(c, where) == pc' = [pc EXCEPT ![c] = where]
AllIdle == \A c \in Everyone : pc[c] \in {"idle", "done"}

\* Load cb.state.
Load(c, next) ==
  /\ seen' = [seen EXCEPT ![c] = state]
  /\ Goto(c, next)

-----------------------------------------------------------------------------
(* Execute *)

Call(c) ==
  /\ pc[c] = "idle" /\ calls < MaxCalls
  /\ calls' = calls + 1
  /\ alone' = (alone /\ AllIdle)
  /\ Load(c, "allow")
  /\ UNCHANGED <<state, stats, slept, failedHere>>

\* allowRequest, with canEnterHalfOpen.
AllowsOneMore(s) ==
  \/ s = "closed"
  \/ s = "open" /\ slept
  \/ s = "halfOpen" /\ stats.requests <= HalfOpenMax
Allows(s) ==
  \/ s = "closed"
  \/ s = "open" /\ slept
  \/ s = "halfOpen" /\ stats.requests < HalfOpenMax

\* A refused call is recorded as a failure.
Allow(c) ==
  /\ pc[c] = "allow"
  /\ Goto(c, IF Allows(seen[c]) THEN "run" ELSE "failed")
  /\ UNCHANGED <<state, stats, slept, seen, calls, failedHere, alone>>

\* fn returns, or its deadline passes: `err' is written by the goroutine that
\* runs fn even then, so either answer may be recorded.  A handler that panics
\* leaves ExecuteHTTP without a record.
Run(c) ==
  /\ pc[c] = "run"
  /\ \E outcome \in {"succeeded", "failed", "idle"} : Goto(c, outcome)
  /\ UNCHANGED <<state, stats, slept, seen, calls, failedHere, alone>>

recordSuccess(c) ==
  /\ pc[c] = "succeeded"
  /\ stats' = [stats EXCEPT !.requests = @ + 1, !.cSuccs = @ + 1, !.cFails = 0]
  /\ Goto(c, "loadS")
  /\ UNCHANGED <<state, slept, seen, calls, failedHere, alone>>

recordFailure(c) ==
  /\ pc[c] = "failed"
  /\ stats' = [requests |-> stats.requests + 1, failures |-> stats.failures + 1,
               cFails |-> stats.cFails + 1, cSuccs |-> 0]
  /\ failedHere' = IF state = "halfOpen" THEN failedHere \cup {c} ELSE failedHere
  /\ Goto(c, "stamp")
  /\ UNCHANGED <<state, slept, seen, calls, alone>>

StampFailure(c) ==
  /\ pc[c] = "stamp"
  /\ slept' = FALSE
  /\ Goto(c, "loadF")
  /\ UNCHANGED <<state, stats, seen, calls, failedHere, alone>>

LoadAgain(c) ==
  /\ \/ pc[c] = "loadS" /\ Load(c, "judgeS")
     \/ pc[c] = "loadF" /\ Load(c, "judgeF")
  /\ UNCHANGED <<state, stats, slept, calls, failedHere, alone>>

\* Go on to swap in `new', or return.
SwapIf(c, wanted, new) ==
  /\ seen' = [seen EXCEPT ![c] = IF wanted THEN new ELSE @]
  /\ Goto(c, IF wanted THEN "swap" ELSE "idle")

JudgeSuccess(c) ==
  /\ pc[c] = "judgeS"
  /\ \/ seen[c] = "halfOpen"
          /\ SwapIf(c, stats.cSuccs >= SuccessThreshold, "closed")
     \/ seen[c] = "open" /\ SwapIf(c, TRUE, "halfOpen")
     \/ seen[c] = "closed" /\ SwapIf(c, FALSE, "closed")
  /\ UNCHANGED <<state, stats, slept, calls, failedHere, alone>>

shouldOpenOneLate ==
  /\ stats.requests >= MinRequests
  /\ \/ stats.cFails > FailureThreshold
     \/ stats.requests > 0 /\ stats.failures * RatioDen > RatioNum * stats.requests
shouldOpen ==
  /\ stats.requests >= MinRequests
  /\ \/ stats.cFails >= FailureThreshold
     \/ stats.requests > 0 /\ stats.failures * RatioDen >= RatioNum * stats.requests

FailureOpensOnThreshold(s) == s \in {"closed", "halfOpen"} /\ shouldOpen
FailureOpens(s) == s = "halfOpen" \/ (s = "closed" /\ shouldOpen)

JudgeFailure(c) ==
  /\ pc[c] = "judgeF"
  /\ SwapIf(c, FailureOpens(seen[c]), "open")
  /\ UNCHANGED <<state, stats, slept, calls, failedHere, alone>>

-----------------------------------------------------------------------------
(* setState, for everyone *)

Returned(c) == IF c \in Callers THEN "idle" ELSE "done"

\* What setState does after the swap, given whether it changed the state; a
\* change to open resets nothing.
AfterSwap(c, changed) ==
  IF changed /\ seen[c] = "closed" THEN "reset"
  ELSE IF c \in Resets THEN "resetLast" ELSE Returned(c)

Swap(c) ==
  /\ pc[c] = "swap"
  /\ state' = seen[c]
  /\ failedHere' = IF state = seen[c] THEN failedHere ELSE {}
  /\ Goto(c, AfterSwap(c, state # seen[c]))
  /\ UNCHANGED <<stats, slept, seen, calls, alone>>

\* Reset resets the counters once more, whatever the swap did.
resetStats(c) ==
  /\ pc[c] \in {"reset", "resetLast"}
  /\ stats' = Zero
  /\ Goto(c, IF pc[c] = "reset" /\ c \in Resets THEN "resetLast" ELSE Returned(c))
  /\ UNCHANGED <<state, slept, seen, calls, failedHere, alone>>

\* Reset, ForceOpen or ForceClose.
Operate(a) ==
  /\ pc[a] = "idle"
  /\ seen' = [seen EXCEPT ![a] = IF a \in Opens THEN "open" ELSE "closed"]
  /\ Goto(a, "swap")
  /\ alone' = FALSE
  /\ UNCHANGED <<state, stats, slept, calls, failedHere>>

SleepPasses ==
  /\ ~slept
  /\ slept' = TRUE
  /\ UNCHANGED <<state, stats, pc, seen, calls, failedHere, alone>>

-----------------------------------------------------------------------------
CallStep(c) ==
  \/ Call(c) \/ Allow(c) \/ Run(c) \/ recordSuccess(c) \/ recordFailure(c)
  \/ StampFailure(c) \/ LoadAgain(c) \/ JudgeSuccess(c) \/ JudgeFailure(c)

Next ==
  \/ \E c \in Callers : CallStep(c)
  \/ \E c \in Everyone : Swap(c) \/ resetStats(c)
  \/ \E a \in Admin : Operate(a)
  \/ SleepPasses

Spec == Init /\ [][Next]_vars

-----------------------------------------------------------------------------
(* Properties *)

\* Every variable has its type (circuitBreaker and Stats,
\* circuitbreaker.go:50-116).
TypeOK ==
  /\ state \in States
  /\ stats \in [requests : Nat, failures : Nat, cFails : Nat, cSuccs : Nat]
  /\ slept \in BOOLEAN /\ alone \in BOOLEAN
  /\ pc \in [Everyone -> {"idle", "allow", "run", "succeeded", "loadS", "judgeS",
                          "failed", "stamp", "loadF", "judgeF", "swap", "reset",
                          "resetLast", "done"}]
  /\ seen \in [Everyone -> States]
  /\ calls \in Nat
  /\ failedHere \subseteq Callers

\* Still on its way to open the breaker.
Opening(c) ==
  \/ pc[c] \in {"stamp", "loadF"}
  \/ pc[c] = "judgeF" /\ seen[c] = "halfOpen"
  \/ pc[c] = "swap" /\ seen[c] = "open"

\* A failure counted while the breaker is half open ends that half-open
\* state: whoever counted it opens the breaker before it returns, unless
\* somebody has moved the breaker in the meantime (recordFailure).
FailureReopens == state = "halfOpen" => \A c \in failedHere : Opening(c)

\* When nobody is inside the breaker and it is closed, it is not over its
\* threshold of consecutive failures: between the load, the check and the
\* swap of several callers no trip is lost (recordFailure, setState).
TripsOnFailures ==
  ~(/\ AllIdle /\ state = "closed"
    /\ stats.requests >= MinRequests /\ stats.cFails >= FailureThreshold)

Closes == state # "closed" /\ state' = "closed"

\* When calls do not overlap and nobody operates the breaker, it closes with
\* at most HalfOpenMax requests counted, which is the limit of trials
\* (circuitbreaker.go:264-269), and with more than MinRequests: nothing resets
\* Requests on the way to half open, so the limit also counts what opened the
\* breaker and what it refused since.
ClosesWithinTrials ==
  [][alone' /\ Closes => stats.requests \in MinRequests + 1 .. HalfOpenMax]_vars

\* README.md:99 promises that the breaker recovers by itself.  Calls that do
\* not overlap never close it again where HalfOpenMax <= MinRequests, as in
\* DefaultConfig with 3 and 10: every trial of the half-open state is refused
\* and counted as a failure.
NeverClosesAlone == [][alone' => ~Closes]_vars
=============================================================================
