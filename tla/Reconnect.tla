----------------------------- MODULE Reconnect -----------------------------
(***************************************************************************)
(* The reconnect manager of pkg/heartbeat/reconnect.go: the application's  *)
(* calls, the reconnect loops that Start and TriggerReconnect launch, and  *)
(* the goroutine in which each attempt calls the connection factory.       *)
(*                                                                         *)
(* An attempt is given up after config.Timeout or when the manager stops;  *)
(* its goroutine goes on (`late').  Intervals are left out: a timer ticks  *)
(* some time, and once.  The manager's context is made once, by            *)
(* NewReconnectManager.                                                    *)
(***************************************************************************)
EXTENDS Integers, FiniteSets

CONSTANTS
  Loops,         \* goroutines that run startReconnect, each once
  Conns,         \* what factory or application may connect, each once
  Starts, Stops, Triggers, Resets,  \* calls of the application
  MaxAttempts,   \* 0: without end
  ResetOnSuccess,
  Timers,        \* bound: one for each loop and one for r.timer are enough
  NoConn, NoTimer

ASSUME ReconnectAssumption ==
  /\ MaxAttempts \in Nat /\ ResetOnSuccess \in BOOLEAN
  /\ NoConn \notin Conns /\ NoTimer \notin Timers
  /\ IsFiniteSet(Timers) /\ Cardinality(Timers) > Cardinality(Loops)
  /\ IsFiniteSet(Loops) /\ IsFiniteSet(Conns)

VARIABLES
  running, cancelled,
  connection,
  isReconnecting, currentAttempt,   \* of r.stats
  lPc, hand,     \* each loop: where, the connection made
  timer,         \* r.timer, or NoTimer: none yet, or its tick is taken
  waits,         \* the timer whose tick each loop's select waits for
  late,          \* attempts given up whose goroutine is still in the factory
  called,        \* the calls of Reset that were made
  pc,            \* each Start, TriggerReconnect and Stop
  made, active,  \* connections made so far, and those still open
  (* what happened so far *)
  orderly        \* loops never overlapped, no attempt was given up, and
                 \* nobody replaced an open connection

runVars == <<running, cancelled>>
stats == <<isReconnecting, currentAttempt>>
loopVars == <<lPc, hand>>
timerVars == <<timer, waits>>
appVars == <<called, pc>>
netVars == <<connection, late, made, active>>
vars == <<runVars, stats, loopVars, timerVars, appVars, netVars, orderly>>

Fresh == Conns \ made
Looping == {l \in Loops : lPc[l] \notin {"none", "done"}}

Init ==
  /\ running = FALSE /\ cancelled = FALSE /\ connection = NoConn
  /\ isReconnecting = FALSE /\ currentAttempt = 0
  /\ lPc = [l \in Loops |-> "none"]
  /\ hand = [l \in Loops |-> NoConn]
  /\ timer = NoTimer /\ waits = [l \in Loops |-> NoTimer]
  /\ late = 0
  /\ called = {} /\ pc = [t \in Starts \cup Triggers \cup Stops |-> "idle"]
  /\ made = {} /\ active = {} /\ orderly = TRUE

LGoto(l, where) == lPc' = [lPc EXCEPT ![l] = where]

Goto(t, where) == pc' = [pc EXCEPT ![t] = where]

\* go r.startReconnect(), if `wanted'.
LaunchIf(wanted) ==
  /\ IF wanted
     THEN \E l \in Loops : lPc[l] = "none" /\ LGoto(l, "new")
     ELSE UNCHANGED lPc
  /\ orderly' =
       (orderly /\ (wanted => Looping = {} /\ connection \notin active))

-----------------------------------------------------------------------------
(* The application *)

Start(s) ==
  /\ pc[s] = "idle"
  /\ Goto(s, IF running THEN "done" ELSE "check")
  /\ running' = TRUE
  /\ UNCHANGED <<timerVars, stats, loopVars, netVars, cancelled, called,
                 orderly>>

StartLaunches(s) ==
  /\ pc[s] = "check"
  /\ Goto(s, "done")
  /\ LaunchIf(connection \notin active)
  /\ UNCHANGED <<timerVars, runVars, stats, netVars, hand, called>>

\* running is swapped, then the context is cancelled.
Stop(s) ==
  /\ pc[s] = "idle"
  /\ Goto(s, IF running THEN "cancel" ELSE "done")
  /\ running' = FALSE
  /\ UNCHANGED <<timerVars, stats, loopVars, netVars, cancelled, called,
                 orderly>>

StopCancels(s) ==
  /\ pc[s] = "cancel"
  /\ Goto(s, "done")
  /\ cancelled' = TRUE
  /\ UNCHANGED <<timerVars, stats, loopVars, netVars, running, called,
                 orderly>>

TriggerChecks(t) ==
  /\ pc[t] = "idle"
  /\ Goto(t, IF running THEN "lock" ELSE "done")
  /\ UNCHANGED <<timerVars, runVars, stats, loopVars, netVars, called,
                 orderly>>

TriggerReconnectAnyway(t) ==
  /\ pc[t] = "lock"
  /\ Goto(t, "done")
  /\ isReconnecting' = TRUE
  /\ LaunchIf(FALSE)
  /\ UNCHANGED <<timerVars, runVars, netVars, currentAttempt, hand, called>>
TriggerReconnect(t) ==
  /\ pc[t] = "lock"
  /\ Goto(t, "done")
  /\ isReconnecting' = TRUE
  /\ LaunchIf(~isReconnecting)
  /\ UNCHANGED <<timerVars, runVars, netVars, currentAttempt, hand, called>>

\* The application brings a connection of its own.
SetConnection(c) ==
  /\ c \in Fresh
  /\ made' = made \cup {c} /\ active' = active \cup {c}
  /\ connection' = c
  /\ isReconnecting' = FALSE
  /\ currentAttempt' = IF ResetOnSuccess THEN 0 ELSE currentAttempt
  /\ orderly' = (orderly /\ Looping = {} /\ connection \notin active)
  /\ UNCHANGED <<timerVars, runVars, loopVars, appVars, late>>

\* The same with nil, or with a connection that is no longer active.
SetNoConnection ==
  /\ connection' = NoConn
  /\ orderly' = (orderly /\ Looping = {} /\ connection \notin active)
  /\ UNCHANGED <<timerVars, runVars, stats, loopVars, appVars, late, made,
                 active>>

Reset(r) ==
  /\ r \notin called
  /\ called' = called \cup {r}
  /\ isReconnecting' = FALSE /\ currentAttempt' = 0
  /\ UNCHANGED <<timerVars, runVars, loopVars, netVars, pc, orderly>>

\* The peer or the network ends a connection.
ConnectionDies(c) ==
  /\ c \in active
  /\ active' = active \ {c}
  /\ UNCHANGED <<timerVars, runVars, stats, loopVars, appVars, connection,
                 late, made, orderly>>

-----------------------------------------------------------------------------
(* startReconnect *)

LoopBegins(l) ==
  /\ lPc[l] = "new"
  /\ isReconnecting' = TRUE
  /\ LGoto(l, "top")
  /\ UNCHANGED <<timerVars, runVars, netVars, appVars, currentAttempt, hand,
                 orderly>>

\* Leaving because of the context leaves IsReconnecting as it is.
LoopChecks(l) ==
  /\ lPc[l] = "top"
  /\ LGoto(l, IF cancelled THEN "done" ELSE "count")
  /\ UNCHANGED <<timerVars, runVars, stats, netVars, appVars, hand, orderly>>

LoopCounts(l) ==
  LET n == currentAttempt + 1 IN
    /\ lPc[l] = "count"
    /\ currentAttempt' = n
    /\ LGoto(l, IF MaxAttempts > 0 /\ n > MaxAttempts THEN "maxed"
                ELSE IF n > 1 THEN "wait" ELSE "try")
    /\ UNCHANGED <<timerVars, runVars, netVars, appVars, isReconnecting, hand,
                   orderly>>

\* r.timer = time.NewTimer(interval), without the lock.
LoopArms(l) ==
  LET free == Timers \ ({timer} \cup {waits[k] : k \in Loops}) IN
    /\ lPc[l] = "wait" /\ free # {}
    /\ timer' = CHOOSE t \in free : TRUE
    /\ LGoto(l, "select")
    /\ UNCHANGED <<runVars, stats, netVars, appVars, hand, waits, orderly>>

\* The select reads r.timer again, where another loop may have put its own.
LoopSelects(l) ==
  /\ lPc[l] = "select"
  /\ waits' = [waits EXCEPT ![l] = timer]
  /\ LGoto(l, "sleep")
  /\ UNCHANGED <<runVars, stats, netVars, appVars, hand, timer, orderly>>

\* A timer ticks once, and one of those that wait for it takes the tick.
LoopWakes(l) ==
  LET ticked(t) == IF t = waits[l] THEN NoTimer ELSE t IN
    /\ lPc[l] = "sleep" /\ waits[l] # NoTimer
    /\ timer' = ticked(timer)
    /\ waits' = [k \in Loops |-> ticked(waits[k])]
    /\ LGoto(l, "try")
    /\ UNCHANGED <<runVars, stats, netVars, appVars, hand, orderly>>

\* r.timer.Stop(), like that of Stop, comes when every loop is to leave.
LoopCancelled(l) ==
  /\ lPc[l] = "sleep" /\ cancelled
  /\ waits' = [waits EXCEPT ![l] = NoTimer]
  /\ LGoto(l, "done")
  /\ UNCHANGED <<runVars, stats, netVars, appVars, hand, timer, orderly>>

AttemptKeepsInvalid(l) ==
  /\ lPc[l] = "try"
  /\ \E c \in Fresh :
       /\ made' = made \cup {c} /\ active' = active \cup {c}
       /\ \/ hand' = [hand EXCEPT ![l] = c] /\ LGoto(l, "made")
          \/ UNCHANGED hand /\ LGoto(l, "failed")
  /\ UNCHANGED <<timerVars, runVars, stats, appVars, connection, late,
                 orderly>>
\* The factory answers in time: a connection that is valid, or an error
\* (what it made but could not validate it closes again).
AttemptAnswers(l) ==
  /\ lPc[l] = "try"
  /\ \/ \E c \in Fresh :
          /\ made' = made \cup {c} /\ active' = active \cup {c}
          /\ hand' = [hand EXCEPT ![l] = c]
          /\ LGoto(l, "made")
     \/ LGoto(l, "failed") /\ UNCHANGED <<made, active, hand>>
  /\ UNCHANGED <<timerVars, runVars, stats, appVars, connection, late,
                 orderly>>

\* ctx.Done() of attemptReconnect: the timeout, or Stop.
AttemptHangs(l) ==
  /\ lPc[l] = "try" /\ cancelled
  /\ late' = late + 1
  /\ LGoto(l, "failed")
  /\ orderly' = FALSE
  /\ UNCHANGED <<timerVars, runVars, stats, appVars, hand, connection, made,
                 active>>
AttemptGivenUp(l) ==
  /\ lPc[l] = "try"
  /\ late' = late + 1
  /\ LGoto(l, "failed")
  /\ orderly' = FALSE
  /\ UNCHANGED <<timerVars, runVars, stats, appVars, connection, hand, made,
                 active>>

\* What a late attempt makes stays in resultChan, which nobody reads.
LateAnswer ==
  /\ late > 0
  /\ late' = late - 1
  /\ \/ \E c \in Fresh : made' = made \cup {c} /\ active' = active \cup {c}
     \/ UNCHANGED <<made, active>>
  /\ UNCHANGED <<timerVars, runVars, stats, loopVars, appVars, connection,
                 orderly>>

LoopGoesOn(l) ==
  /\ lPc[l] = "failed"
  /\ LGoto(l, "top")
  /\ UNCHANGED <<timerVars, runVars, stats, netVars, appVars, hand, orderly>>

LoopSucceeds(l) ==
  /\ lPc[l] = "made"
  /\ connection' = hand[l]
  /\ hand' = [hand EXCEPT ![l] = NoConn]
  /\ isReconnecting' = FALSE
  /\ currentAttempt' = IF ResetOnSuccess THEN 0 ELSE currentAttempt
  /\ LGoto(l, "done")
  /\ UNCHANGED <<timerVars, runVars, appVars, late, made, active, orderly>>

onMaxAttemptsReached(l) ==
  /\ lPc[l] = "maxed"
  /\ isReconnecting' = FALSE
  /\ LGoto(l, "stop")
  /\ UNCHANGED <<timerVars, runVars, netVars, appVars, currentAttempt, hand,
                 orderly>>

\* Stop, called by the loop itself.
LoopStops(l) ==
  /\ \/ /\ lPc[l] = "stop"
        /\ running' = FALSE
        /\ LGoto(l, IF running THEN "cancel" ELSE "done")
        /\ UNCHANGED cancelled
     \/ /\ lPc[l] = "cancel"
        /\ cancelled' = TRUE
        /\ LGoto(l, "done")
        /\ UNCHANGED running
  /\ UNCHANGED <<timerVars, stats, netVars, appVars, hand, orderly>>

-----------------------------------------------------------------------------
LoopStep(l) ==
  \/ LoopBegins(l) \/ LoopChecks(l) \/ LoopCounts(l)
  \/ LoopArms(l) \/ LoopSelects(l) \/ LoopWakes(l) \/ LoopCancelled(l)
  \/ AttemptGivenUp(l) \/ LoopGoesOn(l) \/ LoopSucceeds(l)
  \/ onMaxAttemptsReached(l) \/ LoopStops(l)

Next ==
  \/ \E s \in Starts : Start(s) \/ StartLaunches(s)
  \/ \E s \in Stops : Stop(s) \/ StopCancels(s)
  \/ \E t \in Triggers : TriggerChecks(t) \/ TriggerReconnect(t)
  \/ \E c \in Conns : SetConnection(c) \/ ConnectionDies(c)
  \/ \E r \in Resets : Reset(r)
  \/ \E l \in Loops : LoopStep(l) \/ AttemptAnswers(l)
  \/ SetNoConnection \/ LateAnswer

Spec == Init /\ [][Next]_vars

\* Timers tick and goroutines run; a factory need not answer, but the timeout
\* of the attempt fires.  Nobody takes a tick for a loop: whose select gets it
\* is open.
Fairness == \A l \in Loops : WF_vars(LoopStep(l))

FairSpec == Spec /\ Fairness

-----------------------------------------------------------------------------
(* Properties *)

\* Every variable has its type (ReconnectManager and ReconnectStats,
\* reconnect.go:86-119, and its goroutines).
TypeOK ==
  /\ running \in BOOLEAN /\ cancelled \in BOOLEAN /\ isReconnecting \in BOOLEAN
  /\ orderly \in BOOLEAN
  /\ connection \in Conns \cup {NoConn}
  /\ currentAttempt \in Nat /\ late \in Nat
  /\ lPc \in [Loops -> {"none", "new", "top", "count", "wait", "select",
                        "sleep", "try", "made", "failed", "maxed", "stop",
                        "cancel", "done"}]
  /\ hand \in [Loops -> Conns \cup {NoConn}]
  /\ timer \in Timers \cup {NoTimer}
  /\ waits \in [Loops -> Timers \cup {NoTimer}]
  /\ called \subseteq Resets
  /\ pc \in [Starts \cup Triggers \cup Stops ->
             {"idle", "check", "lock", "cancel", "done"}]
  /\ made \subseteq Conns /\ active \subseteq made

\* Nobody closes a connection the manager lost sight of, so none may get
\* lost: an open one is the current one or about to become it.  It takes
\* two loops at a time, an attempt given up, or a connection replaced while
\* it was open to leak one.
NoStrayConnection ==
  orderly =>
    \A c \in active : c = connection \/ \E l \in Loops : hand[l] = c

\* IsReconnecting, which makes TriggerReconnect do nothing, is set only while
\* a loop is there to clear it, whatever Reset, SetConnection and other loops
\* did to it; a cancelled context leaves it set for good.
FlagHasLoop == isReconnecting => (Looping # {} \/ cancelled)

\* Two loops that armed their timers together wait for the one stored last,
\* which ticks once (reconnect.go:271-275).
Stranded(l) == lPc[l] = "sleep" /\ waits[l] = NoTimer /\ ~cancelled

\* With a limit of attempts, and application calls that come to an end,
\* reconnecting comes to an end with a connection or after MaxAttempts, even
\* when the factory hangs, and every loop leaves: but for one whose tick
\* another loop took, which stays until the manager is stopped.
ReconnectSettles ==
  MaxAttempts > 0 =>
    /\ isReconnecting ~> (~isReconnecting \/ cancelled)
    /\ \A l \in Loops :
         l \in Looping ~> (lPc[l] = "done" \/ []Stranded(l))
=============================================================================
