-------------------------- MODULE ReconnectProofs --------------------------
(* Proofs about Reconnect: its types, FlagHasLoop and NoStrayConnection, for *)
(* any number of loops, connections, calls and attempts.                     *)
EXTENDS Reconnect, TLAPS

\* The small operators every step is written with, and the groups of variables.
USE DEF Goto, LGoto, LaunchIf, Fresh, runVars, stats, loopVars, timerVars,
        appVars, netVars

\* The steps in which a loop waits for its next attempt.
Waits(l) == LoopArms(l) \/ LoopSelects(l) \/ LoopWakes(l) \/ LoopCancelled(l)

-----------------------------------------------------------------------------
(* Types *)

\* TypeOK in parts, which the provers take one at a time.
BooleansOK ==
  /\ running \in BOOLEAN /\ cancelled \in BOOLEAN /\ isReconnecting \in BOOLEAN
  /\ orderly \in BOOLEAN
CountersOK == currentAttempt \in Nat /\ late \in Nat
LoopsOK ==
  /\ lPc \in [Loops -> {"none", "new", "top", "count", "wait", "select",
                        "sleep", "try", "made", "failed", "maxed", "stop",
                        "cancel", "done"}]
  /\ hand \in [Loops -> Conns \cup {NoConn}]
TimersOK ==
  /\ timer \in Timers \cup {NoTimer}
  /\ waits \in [Loops -> Timers \cup {NoTimer}]
CallsOK ==
  /\ called \subseteq Resets
  /\ pc \in [Starts \cup Triggers \cup Stops ->
             {"idle", "check", "lock", "cancel", "done"}]
ConnsOK ==
  /\ connection \in Conns \cup {NoConn}
  /\ made \subseteq Conns /\ active \subseteq made

Types ==
  BooleansOK /\ CountersOK /\ LoopsOK /\ TimersOK /\ CallsOK /\ ConnsOK

\* The parts are the type invariant, and every step keeps them.
LEMMA TypeParts == TypeOK <=> Types
BY DEF TypeOK, Types, BooleansOK, CountersOK, LoopsOK, TimersOK, CallsOK,
       ConnsOK

\* The initial state has its types.
LEMMA InitType == Init => Types
<1>1. Init => BooleansOK
  BY DEF Init, BooleansOK
<1>2. Init => CountersOK
  BY DEF Init, CountersOK
<1>3. Init => LoopsOK
  BY DEF Init, LoopsOK
<1>4. Init => CallsOK
  BY DEF Init, CallsOK
<1>5. Init => ConnsOK
  BY DEF Init, ConnsOK
<1>6. Init => TimersOK
  BY DEF Init, TimersOK
<1> QED BY <1>1, <1>2, <1>3, <1>4, <1>5, <1>6 DEF Types

\* The application's calls keep the types.
LEMMA AppType ==
  ASSUME Types,
         \/ \E s \in Starts : Start(s) \/ StartLaunches(s)
         \/ \E s \in Stops : Stop(s) \/ StopCancels(s)
         \/ \E t \in Triggers : TriggerChecks(t) \/ TriggerReconnect(t)
         \/ \E c \in Conns : SetConnection(c) \/ ConnectionDies(c)
         \/ \E r \in Resets : Reset(r)
         \/ SetNoConnection \/ LateAnswer
  PROVE  Types'
<1>1. ASSUME NEW s \in Starts, Start(s) \/ StartLaunches(s) PROVE Types'
  <2>1. BooleansOK'
    BY <1>1 DEF Types, BooleansOK, Start, StartLaunches
  <2>2. CountersOK'
    BY <1>1 DEF Types, CountersOK, Start, StartLaunches
  <2>3. LoopsOK'
    BY <1>1 DEF Types, LoopsOK, Start, StartLaunches
  <2>4. CallsOK'
    BY <1>1 DEF Types, CallsOK, Start, StartLaunches
  <2>5. ConnsOK'
    BY <1>1 DEF Types, ConnsOK, Start, StartLaunches
  <2>6. TimersOK'
    BY <1>1 DEF Types, TimersOK, Start, StartLaunches
  <2> QED BY <2>1, <2>2, <2>3, <2>4, <2>5, <2>6 DEF Types
<1>2. ASSUME NEW s \in Stops, Stop(s) \/ StopCancels(s) PROVE Types'
  <2>1. BooleansOK'
    BY <1>2 DEF Types, BooleansOK, Stop, StopCancels
  <2>2. CountersOK'
    BY <1>2 DEF Types, CountersOK, Stop, StopCancels
  <2>3. LoopsOK'
    BY <1>2 DEF Types, LoopsOK, Stop, StopCancels
  <2>4. CallsOK'
    BY <1>2 DEF Types, CallsOK, Stop, StopCancels
  <2>5. ConnsOK'
    BY <1>2 DEF Types, ConnsOK, Stop, StopCancels
  <2>6. TimersOK'
    BY <1>2 DEF Types, TimersOK, Stop, StopCancels
  <2> QED BY <2>1, <2>2, <2>3, <2>4, <2>5, <2>6 DEF Types
<1>3. ASSUME NEW t \in Triggers, TriggerChecks(t) \/ TriggerReconnect(t)
      PROVE  Types'
  <2>1. BooleansOK'
    BY <1>3 DEF Types, BooleansOK, TriggerChecks, TriggerReconnect
  <2>2. CountersOK'
    BY <1>3 DEF Types, CountersOK, TriggerChecks, TriggerReconnect
  <2>3. LoopsOK'
    BY <1>3 DEF Types, LoopsOK, TriggerChecks, TriggerReconnect
  <2>4. CallsOK'
    BY <1>3 DEF Types, CallsOK, TriggerChecks, TriggerReconnect
  <2>5. ConnsOK'
    BY <1>3 DEF Types, ConnsOK, TriggerChecks, TriggerReconnect
  <2>6. TimersOK'
    BY <1>3 DEF Types, TimersOK, TriggerChecks, TriggerReconnect
  <2> QED BY <2>1, <2>2, <2>3, <2>4, <2>5, <2>6 DEF Types
<1>4. ASSUME NEW c \in Conns, SetConnection(c) \/ ConnectionDies(c) PROVE Types'
  <2>1. BooleansOK'
    BY <1>4 DEF Types, BooleansOK, SetConnection, ConnectionDies
  <2>2. CountersOK'
    BY <1>4 DEF Types, CountersOK, SetConnection, ConnectionDies
  <2>3. LoopsOK'
    BY <1>4 DEF Types, LoopsOK, SetConnection, ConnectionDies
  <2>4. CallsOK'
    BY <1>4 DEF Types, CallsOK, SetConnection, ConnectionDies
  <2>5. ConnsOK'
    BY <1>4 DEF Types, ConnsOK, SetConnection, ConnectionDies
  <2>6. TimersOK'
    BY <1>4 DEF Types, TimersOK, SetConnection, ConnectionDies
  <2> QED BY <2>1, <2>2, <2>3, <2>4, <2>5, <2>6 DEF Types
<1>5. ASSUME NEW r \in Resets, Reset(r) PROVE Types'
  <2>1. BooleansOK'
    BY <1>5 DEF Types, BooleansOK, Reset
  <2>2. CountersOK'
    BY <1>5 DEF Types, CountersOK, Reset
  <2>3. LoopsOK'
    BY <1>5 DEF Types, LoopsOK, Reset
  <2>4. CallsOK'
    BY <1>5 DEF Types, CallsOK, Reset
  <2>5. ConnsOK'
    BY <1>5 DEF Types, ConnsOK, Reset
  <2>6. TimersOK'
    BY <1>5 DEF Types, TimersOK, Reset
  <2> QED BY <2>1, <2>2, <2>3, <2>4, <2>5, <2>6 DEF Types
<1>6. CASE SetNoConnection \/ LateAnswer
  <2>1. BooleansOK'
    BY <1>6 DEF Types, BooleansOK, SetNoConnection, LateAnswer
  <2>2. CountersOK'
    BY <1>6 DEF Types, CountersOK, SetNoConnection, LateAnswer
  <2>3. LoopsOK'
    BY <1>6 DEF Types, LoopsOK, SetNoConnection, LateAnswer
  <2>4. CallsOK'
    BY <1>6 DEF Types, CallsOK, SetNoConnection, LateAnswer
  <2>5. ConnsOK'
    BY <1>6 DEF Types, ConnsOK, SetNoConnection, LateAnswer
  <2>6. TimersOK'
    BY <1>6 DEF Types, TimersOK, SetNoConnection, LateAnswer
  <2> QED BY <2>1, <2>2, <2>3, <2>4, <2>5, <2>6 DEF Types
<1> QED BY <1>1, <1>2, <1>3, <1>4, <1>5, <1>6

\* So do the steps of a loop.
LEMMA LoopType ==
  ASSUME Types, NEW l \in Loops, LoopStep(l) \/ AttemptAnswers(l)
  PROVE  Types'
<1>1. CASE LoopBegins(l) \/ LoopChecks(l) \/ LoopCounts(l) \/ Waits(l)
  <2>1. BooleansOK'
    BY <1>1 DEF Types, BooleansOK, LoopBegins, LoopChecks, LoopCounts, Waits,
       LoopArms, LoopSelects, LoopWakes, LoopCancelled
  <2>2. CountersOK'
    BY <1>1 DEF Types, CountersOK, LoopBegins, LoopChecks, LoopCounts, Waits,
       LoopArms, LoopSelects, LoopWakes, LoopCancelled
  <2>3. LoopsOK'
    BY <1>1 DEF Types, LoopsOK, LoopBegins, LoopChecks, LoopCounts, Waits,
       LoopArms, LoopSelects, LoopWakes, LoopCancelled
  <2>4. CallsOK'
    BY <1>1 DEF Types, CallsOK, LoopBegins, LoopChecks, LoopCounts, Waits,
       LoopArms, LoopSelects, LoopWakes, LoopCancelled
  <2>5. ConnsOK'
    BY <1>1 DEF Types, ConnsOK, LoopBegins, LoopChecks, LoopCounts, Waits,
       LoopArms, LoopSelects, LoopWakes, LoopCancelled
  <2>6. TimersOK'
    BY <1>1 DEF Types, TimersOK, LoopBegins, LoopChecks, LoopCounts, Waits,
       LoopArms, LoopSelects, LoopWakes, LoopCancelled
  <2> QED BY <2>1, <2>2, <2>3, <2>4, <2>5, <2>6 DEF Types
<1>2. CASE AttemptGivenUp(l) \/ LoopGoesOn(l) \/ AttemptAnswers(l)
  <2>1. BooleansOK'
    BY <1>2 DEF Types, BooleansOK, AttemptGivenUp, LoopGoesOn, AttemptAnswers
  <2>2. CountersOK'
    BY <1>2 DEF Types, CountersOK, AttemptGivenUp, LoopGoesOn, AttemptAnswers
  <2>3. LoopsOK'
    BY <1>2 DEF Types, LoopsOK, AttemptGivenUp, LoopGoesOn, AttemptAnswers
  <2>4. CallsOK'
    BY <1>2 DEF Types, CallsOK, AttemptGivenUp, LoopGoesOn, AttemptAnswers
  <2>5. ConnsOK'
    BY <1>2 DEF Types, ConnsOK, AttemptGivenUp, LoopGoesOn, AttemptAnswers
  <2>6. TimersOK'
    BY <1>2 DEF Types, TimersOK, AttemptGivenUp, LoopGoesOn, AttemptAnswers
  <2> QED BY <2>1, <2>2, <2>3, <2>4, <2>5, <2>6 DEF Types
<1>3. CASE LoopSucceeds(l) \/ onMaxAttemptsReached(l) \/ LoopStops(l)
  <2>1. BooleansOK'
    BY <1>3 DEF Types, BooleansOK, LoopSucceeds, onMaxAttemptsReached, LoopStops
  <2>2. CountersOK'
    BY <1>3 DEF Types, CountersOK, LoopSucceeds, onMaxAttemptsReached, LoopStops
  <2>3. LoopsOK'
    BY <1>3 DEF Types, LoopsOK, LoopSucceeds, onMaxAttemptsReached, LoopStops
  <2>4. CallsOK'
    BY <1>3 DEF Types, CallsOK, LoopSucceeds, onMaxAttemptsReached, LoopStops
  <2>5. ConnsOK'
    BY <1>3
    DEF Types, ConnsOK, LoopsOK, LoopSucceeds, onMaxAttemptsReached, LoopStops
  <2>6. TimersOK'
    BY <1>3 DEF Types, TimersOK, LoopSucceeds, onMaxAttemptsReached, LoopStops
  <2> QED BY <2>1, <2>2, <2>3, <2>4, <2>5, <2>6 DEF Types
<1> QED BY <1>1, <1>2, <1>3 DEF LoopStep, Waits

LEMMA NextType == Types /\ [Next]_vars => Types'
<1>1. Types /\ UNCHANGED vars => Types'
  BY DEF Types, BooleansOK, CountersOK, LoopsOK, TimersOK, CallsOK, ConnsOK,
         vars
<1> QED BY <1>1, AppType, LoopType DEF Next

\* Every variable has its type in every reachable state of the manager.
THEOREM TypeCorrect == Spec => []TypeOK
BY InitType, NextType, TypeParts, PTL DEF Spec

-----------------------------------------------------------------------------
(* IsReconnecting *)

\* A loop that still is to clear the flag: not one that has done so.
Clearing == {l \in Loops : lPc[l] \in {"new", "top", "count", "wait", "select",
                                       "sleep", "try", "made", "failed",
                                       "maxed"}}

\* FlagHasLoop is not inductive: a loop that has cleared the flag and is on its
\* way to Stop is there no longer when another call sets the flag again.
FlagInv == isReconnecting => (Clearing # {} \/ cancelled)

\* What the application does keeps the flag with a loop that will clear it.
LEMMA AppFlag ==
  ASSUME TypeOK, FlagInv,
         \/ \E s \in Starts : Start(s) \/ StartLaunches(s)
         \/ \E s \in Stops : Stop(s) \/ StopCancels(s)
         \/ \E t \in Triggers : TriggerChecks(t) \/ TriggerReconnect(t)
         \/ \E c \in Conns : SetConnection(c) \/ ConnectionDies(c)
         \/ \E r \in Resets : Reset(r)
         \/ SetNoConnection \/ LateAnswer
  PROVE  FlagInv'
<1> USE DEF TypeOK, FlagInv, Clearing
<1>1. ASSUME NEW s \in Starts, Start(s) \/ StartLaunches(s) PROVE FlagInv'
  BY <1>1 DEF Start, StartLaunches
<1>2. ASSUME NEW s \in Stops, Stop(s) \/ StopCancels(s) PROVE FlagInv'
  BY <1>2 DEF Stop, StopCancels
<1>3. ASSUME NEW t \in Triggers, TriggerChecks(t) \/ TriggerReconnect(t)
      PROVE  FlagInv'
  BY <1>3 DEF TriggerChecks, TriggerReconnect
<1>4. ASSUME NEW c \in Conns, SetConnection(c) \/ ConnectionDies(c)
      PROVE  FlagInv'
  BY <1>4 DEF SetConnection, ConnectionDies
<1>5. ASSUME NEW r \in Resets, Reset(r) PROVE FlagInv'
  BY <1>5 DEF Reset
<1>6. CASE SetNoConnection \/ LateAnswer
  BY <1>6 DEF SetNoConnection, LateAnswer
<1> QED BY <1>1, <1>2, <1>3, <1>4, <1>5, <1>6

\* So does every step of a loop.
LEMMA LoopFlag ==
  ASSUME TypeOK, FlagInv, NEW l \in Loops, LoopStep(l) \/ AttemptAnswers(l)
  PROVE  FlagInv'
<1> USE DEF TypeOK, FlagInv, Clearing
<1>1. CASE LoopBegins(l) \/ LoopChecks(l) \/ LoopCounts(l) \/ Waits(l)
  BY <1>1 DEF LoopBegins, LoopChecks, LoopCounts, Waits,
       LoopArms, LoopSelects, LoopWakes, LoopCancelled
<1>2. CASE AttemptGivenUp(l) \/ LoopGoesOn(l) \/ AttemptAnswers(l)
  BY <1>2 DEF AttemptGivenUp, LoopGoesOn, AttemptAnswers
<1>3. CASE LoopSucceeds(l) \/ onMaxAttemptsReached(l) \/ LoopStops(l)
  BY <1>3 DEF LoopSucceeds, onMaxAttemptsReached, LoopStops
<1> QED BY <1>1, <1>2, <1>3 DEF LoopStep, Waits

\* IsReconnecting is never left set without a loop to clear it, unless the
\* manager was stopped, whatever Reset, SetConnection and TriggerReconnect do.
THEOREM FlagCleared == Spec => []FlagHasLoop
<1>1. Init => FlagInv
  BY DEF Init, FlagInv
<1>2. TypeOK /\ FlagInv /\ [Next]_vars => FlagInv'
  <2>1. FlagInv /\ UNCHANGED vars => FlagInv'
    BY DEF FlagInv, Clearing, vars
  <2> QED BY <2>1, AppFlag, LoopFlag DEF Next
<1>3. FlagInv => FlagHasLoop
  BY DEF FlagInv, FlagHasLoop, Clearing, Looping
<1> QED BY <1>1, <1>2, <1>3, TypeCorrect, PTL DEF Spec

-----------------------------------------------------------------------------
(* Connections *)

\* While things are orderly no attempt is late and there is one loop at most;
\* it was launched over a connection that was gone, and it holds a connection
\* only to install it next.
InMade == connection \in made \cup {NoConn}
NoneLate == late = 0
OneLoop == \A l, k \in Loops : l \in Looping /\ k \in Looping => l = k
LoopNeeded == Looping # {} => connection \notin active
HandsMade ==
  \A l \in Loops : hand[l] # NoConn => lPc[l] = "made" /\ hand[l] \in made
AllKnown == \A c \in active : c = connection \/ \E l \in Loops : hand[l] = c
Sighted == InMade /\ NoneLate /\ OneLoop /\ LoopNeeded /\ HandsMade /\ AllKnown

StrayInv == orderly => Sighted

\* NoConn is no connection.
LEMMA NoConnIsNone == NoConn \notin Conns
BY ReconnectAssumption

\* A launch is orderly only when no loop runs and the connection is gone.
LEMMA LaunchKeeps ==
  ASSUME Types, OneLoop, LoopNeeded, NEW wanted, LaunchIf(wanted), orderly',
         UNCHANGED <<connection, active>>
  PROVE  OneLoop' /\ LoopNeeded'
<1> USE DEF Types, LoopsOK, OneLoop, LoopNeeded, Looping
<1>1. CASE wanted
  <2>1. PICK l \in Loops : lPc' = [lPc EXCEPT ![l] = "new"]
    BY <1>1 DEF LaunchIf
  <2>2. Looping = {} /\ connection \notin active
    BY <1>1 DEF LaunchIf
  <2> QED BY <2>1, <2>2
<1>2. CASE ~wanted
  BY <1>2 DEF LaunchIf
<1> QED BY <1>1, <1>2

\* In orderly use the application loses no connection.
LEMMA AppStray ==
  ASSUME Types, StrayInv,
         \/ \E s \in Starts : Start(s) \/ StartLaunches(s)
         \/ \E s \in Stops : Stop(s) \/ StopCancels(s)
         \/ \E t \in Triggers : TriggerChecks(t) \/ TriggerReconnect(t)
         \/ \E c \in Conns : SetConnection(c) \/ ConnectionDies(c)
         \/ \E r \in Resets : Reset(r)
         \/ SetNoConnection \/ LateAnswer
  PROVE  StrayInv'
<1> SUFFICES ASSUME orderly' PROVE StrayInv'
  BY DEF StrayInv
<1> USE DEF Types, LoopsOK, ConnsOK
<1>1. ASSUME NEW s \in Starts, Start(s) \/ StartLaunches(s)
      PROVE  StrayInv'
  <2>1. /\ orderly /\ InMade /\ NoneLate /\ OneLoop /\ LoopNeeded /\ HandsMade
        /\ AllKnown
    BY <1>1 DEF StrayInv, Sighted, Start, StartLaunches
  <2>2. InMade'
    BY <1>1, <2>1 DEF InMade, HandsMade, Start, StartLaunches
  <2>3. NoneLate'
    BY <1>1, <2>1 DEF NoneLate, Start, StartLaunches
  <2>4. HandsMade'
    BY <1>1, <2>1 DEF HandsMade, Start, StartLaunches
  <2>5. AllKnown'
    BY <1>1, <2>1 DEF AllKnown, HandsMade, Start, StartLaunches
  <2>6. OneLoop' /\ LoopNeeded'
    <3>1. CASE Start(s)
      BY <1>1, <2>1, <3>1 DEF OneLoop, LoopNeeded, Looping, Start
    <3>2. CASE StartLaunches(s)
      BY <2>1, <3>2, LaunchKeeps DEF StartLaunches
    <3> QED BY <1>1, <3>1, <3>2
  <2> QED BY <2>2, <2>3, <2>4, <2>5, <2>6 DEF StrayInv, Sighted
<1>2. ASSUME NEW s \in Stops, Stop(s) \/ StopCancels(s)
      PROVE  StrayInv'
  <2>1. /\ orderly /\ InMade /\ NoneLate /\ OneLoop /\ LoopNeeded /\ HandsMade
        /\ AllKnown
    BY <1>2 DEF StrayInv, Sighted, Stop, StopCancels
  <2>2. InMade'
    BY <1>2, <2>1 DEF InMade, HandsMade, Stop, StopCancels
  <2>3. NoneLate'
    BY <1>2, <2>1 DEF NoneLate, Stop, StopCancels
  <2>4. OneLoop'
    BY <1>2, <2>1 DEF OneLoop, Looping, Stop, StopCancels
  <2>5. LoopNeeded'
    BY <1>2, <2>1 DEF LoopNeeded, Looping, Stop, StopCancels
  <2>6. HandsMade'
    BY <1>2, <2>1 DEF HandsMade, Stop, StopCancels
  <2>7. AllKnown'
    BY <1>2, <2>1 DEF AllKnown, HandsMade, Stop, StopCancels
  <2> QED BY <2>2, <2>3, <2>4, <2>5, <2>6, <2>7 DEF StrayInv, Sighted
<1>3. ASSUME NEW t \in Triggers, TriggerChecks(t) \/ TriggerReconnect(t)
      PROVE  StrayInv'
  <2>1. /\ orderly /\ InMade /\ NoneLate /\ OneLoop /\ LoopNeeded /\ HandsMade
        /\ AllKnown
    BY <1>3 DEF StrayInv, Sighted, TriggerChecks, TriggerReconnect
  <2>2. InMade'
    BY <1>3, <2>1 DEF InMade, HandsMade, TriggerChecks, TriggerReconnect
  <2>3. NoneLate'
    BY <1>3, <2>1 DEF NoneLate, TriggerChecks, TriggerReconnect
  <2>4. HandsMade'
    BY <1>3, <2>1 DEF HandsMade, TriggerChecks, TriggerReconnect
  <2>5. AllKnown'
    BY <1>3, <2>1
    DEF AllKnown, HandsMade, TriggerChecks, TriggerReconnect
  <2>6. OneLoop' /\ LoopNeeded'
    <3>1. CASE TriggerChecks(t)
      BY <1>3, <2>1, <3>1 DEF OneLoop, LoopNeeded, Looping, TriggerChecks
    <3>2. CASE TriggerReconnect(t)
      BY <2>1, <3>2, LaunchKeeps DEF TriggerReconnect
    <3> QED BY <1>3, <3>1, <3>2
  <2> QED BY <2>2, <2>3, <2>4, <2>5, <2>6 DEF StrayInv, Sighted
<1>4. ASSUME NEW c \in Conns, SetConnection(c)
      PROVE  StrayInv'
  <2>1. /\ orderly /\ InMade /\ NoneLate /\ OneLoop /\ LoopNeeded /\ HandsMade
        /\ AllKnown
    BY <1>4 DEF StrayInv, Sighted, SetConnection
  <2>2. InMade'
    BY <1>4, <2>1 DEF InMade, HandsMade, SetConnection
  <2>3. NoneLate'
    BY <1>4, <2>1 DEF NoneLate, SetConnection
  <2>4. OneLoop'
    BY <1>4, <2>1 DEF OneLoop, Looping, SetConnection
  <2>5. LoopNeeded'
    BY <1>4, <2>1 DEF LoopNeeded, Looping, SetConnection
  <2>6. HandsMade'
    BY <1>4, <2>1 DEF HandsMade, Looping, SetConnection
  <2>7. AllKnown'
    BY <1>4, <2>1 DEF AllKnown, HandsMade, Looping, SetConnection
  <2> QED BY <2>2, <2>3, <2>4, <2>5, <2>6, <2>7 DEF StrayInv, Sighted
<1>5. ASSUME NEW c \in Conns, ConnectionDies(c)
      PROVE  StrayInv'
  <2>1. /\ orderly /\ InMade /\ NoneLate /\ OneLoop /\ LoopNeeded /\ HandsMade
        /\ AllKnown
    BY <1>5 DEF StrayInv, Sighted, ConnectionDies
  <2>2. InMade'
    BY <1>5, <2>1 DEF InMade, HandsMade, ConnectionDies
  <2>3. NoneLate'
    BY <1>5, <2>1 DEF NoneLate, ConnectionDies
  <2>4. OneLoop'
    BY <1>5, <2>1 DEF OneLoop, Looping, ConnectionDies
  <2>5. LoopNeeded'
    BY <1>5, <2>1 DEF LoopNeeded, Looping, ConnectionDies
  <2>6. HandsMade'
    BY <1>5, <2>1 DEF HandsMade, ConnectionDies
  <2>7. AllKnown'
    BY <1>5, <2>1 DEF AllKnown, HandsMade, ConnectionDies
  <2> QED BY <2>2, <2>3, <2>4, <2>5, <2>6, <2>7 DEF StrayInv, Sighted
<1>6. ASSUME NEW r \in Resets, Reset(r)
      PROVE  StrayInv'
  <2>1. /\ orderly /\ InMade /\ NoneLate /\ OneLoop /\ LoopNeeded /\ HandsMade
        /\ AllKnown
    BY <1>6 DEF StrayInv, Sighted, Reset
  <2>2. InMade'
    BY <1>6, <2>1 DEF InMade, HandsMade, Reset
  <2>3. NoneLate'
    BY <1>6, <2>1 DEF NoneLate, Reset
  <2>4. OneLoop'
    BY <1>6, <2>1 DEF OneLoop, Looping, Reset
  <2>5. LoopNeeded'
    BY <1>6, <2>1 DEF LoopNeeded, Looping, Reset
  <2>6. HandsMade'
    BY <1>6, <2>1 DEF HandsMade, Reset
  <2>7. AllKnown'
    BY <1>6, <2>1 DEF AllKnown, HandsMade, Reset
  <2> QED BY <2>2, <2>3, <2>4, <2>5, <2>6, <2>7 DEF StrayInv, Sighted
<1>7. CASE SetNoConnection
  <2>1. /\ orderly /\ InMade /\ NoneLate /\ OneLoop /\ LoopNeeded /\ HandsMade
        /\ AllKnown
    BY <1>7 DEF StrayInv, Sighted, SetNoConnection
  <2>2. InMade'
    BY <1>7, <2>1 DEF InMade, HandsMade, SetNoConnection
  <2>3. NoneLate'
    BY <1>7, <2>1 DEF NoneLate, SetNoConnection
  <2>4. OneLoop'
    BY <1>7, <2>1 DEF OneLoop, Looping, SetNoConnection
  <2>5. LoopNeeded'
    BY <1>7, <2>1 DEF LoopNeeded, Looping, SetNoConnection
  <2>6. HandsMade'
    BY <1>7, <2>1 DEF HandsMade, SetNoConnection
  <2>7. AllKnown'
    BY <1>7, <2>1
    DEF AllKnown, HandsMade, Looping, SetNoConnection
  <2> QED BY <2>2, <2>3, <2>4, <2>5, <2>6, <2>7 DEF StrayInv, Sighted
<1>8. CASE LateAnswer
  <2>1. late = 0 /\ late > 0
    BY <1>8 DEF StrayInv, Sighted, NoneLate, LateAnswer
  <2> QED BY <2>1
<1> QED BY <1>1, <1>2, <1>3, <1>4, <1>5, <1>6, <1>7, <1>8

\* Neither does a loop.
LEMMA LoopStray ==
  ASSUME Types, StrayInv, NEW l \in Loops, LoopStep(l) \/ AttemptAnswers(l)
  PROVE  StrayInv'
<1> SUFFICES ASSUME orderly' PROVE StrayInv'
  BY DEF StrayInv
<1> USE DEF Types, LoopsOK, ConnsOK
<1>1. CASE LoopBegins(l) \/ LoopChecks(l) \/ LoopCounts(l) \/ Waits(l)
  <2>1. /\ orderly /\ InMade /\ NoneLate /\ OneLoop /\ LoopNeeded /\ HandsMade
        /\ AllKnown
    BY <1>1 DEF StrayInv, Sighted, LoopBegins, LoopChecks, LoopCounts, Waits,
       LoopArms, LoopSelects, LoopWakes, LoopCancelled
  <2>2. InMade'
    BY <1>1, <2>1
    DEF InMade, HandsMade, LoopBegins, LoopChecks, LoopCounts, Waits,
       LoopArms, LoopSelects, LoopWakes, LoopCancelled
  <2>3. NoneLate'
    BY <1>1, <2>1
    DEF NoneLate, LoopBegins, LoopChecks, LoopCounts, Waits,
       LoopArms, LoopSelects, LoopWakes, LoopCancelled
  <2>4. OneLoop'
    BY <1>1, <2>1
    DEF OneLoop, Looping, LoopBegins, LoopChecks, LoopCounts, Waits,
       LoopArms, LoopSelects, LoopWakes, LoopCancelled
  <2>5. LoopNeeded'
    BY <1>1, <2>1
    DEF LoopNeeded, Looping, LoopBegins, LoopChecks, LoopCounts, Waits,
       LoopArms, LoopSelects, LoopWakes, LoopCancelled
  <2>6. HandsMade'
    BY <1>1, <2>1
    DEF HandsMade, LoopBegins, LoopChecks, LoopCounts, Waits,
       LoopArms, LoopSelects, LoopWakes, LoopCancelled
  <2>7. AllKnown'
    BY <1>1, <2>1
    DEF AllKnown, HandsMade, LoopBegins, LoopChecks, LoopCounts, Waits,
       LoopArms, LoopSelects, LoopWakes, LoopCancelled
  <2> QED BY <2>2, <2>3, <2>4, <2>5, <2>6, <2>7 DEF StrayInv, Sighted
<1>2. CASE AttemptGivenUp(l) \/ LoopGoesOn(l)
  <2>1. /\ orderly /\ InMade /\ NoneLate /\ OneLoop /\ LoopNeeded /\ HandsMade
        /\ AllKnown
    BY <1>2 DEF StrayInv, Sighted, AttemptGivenUp, LoopGoesOn
  <2>2. InMade'
    BY <1>2, <2>1 DEF InMade, HandsMade, AttemptGivenUp, LoopGoesOn
  <2>3. NoneLate'
    BY <1>2, <2>1 DEF NoneLate, AttemptGivenUp, LoopGoesOn
  <2>4. OneLoop'
    BY <1>2, <2>1 DEF OneLoop, Looping, AttemptGivenUp, LoopGoesOn
  <2>5. LoopNeeded'
    BY <1>2, <2>1
    DEF LoopNeeded, Looping, AttemptGivenUp, LoopGoesOn
  <2>6. HandsMade'
    BY <1>2, <2>1 DEF HandsMade, AttemptGivenUp, LoopGoesOn
  <2>7. AllKnown'
    BY <1>2, <2>1
    DEF AllKnown, HandsMade, AttemptGivenUp, LoopGoesOn
  <2> QED BY <2>2, <2>3, <2>4, <2>5, <2>6, <2>7 DEF StrayInv, Sighted
<1>3. CASE AttemptAnswers(l)
  <2>1. /\ orderly /\ InMade /\ NoneLate /\ OneLoop /\ LoopNeeded /\ HandsMade
        /\ AllKnown
    BY <1>3 DEF StrayInv, Sighted, AttemptAnswers
  <2>2. InMade'
    BY <1>3, <2>1 DEF InMade, HandsMade, AttemptAnswers
  <2>3. NoneLate'
    BY <1>3, <2>1 DEF NoneLate, AttemptAnswers
  <2>4. OneLoop'
    BY <1>3, <2>1 DEF OneLoop, Looping, AttemptAnswers
  <2>5. LoopNeeded'
    <3>1. connection \notin active /\ connection \notin Fresh
      BY <1>3, <2>1, NoConnIsNone
      DEF LoopNeeded, InMade, Looping, AttemptAnswers
    <3> QED BY <1>3, <3>1 DEF LoopNeeded, AttemptAnswers
  <2>6. HandsMade'
    BY <1>3, <2>1 DEF HandsMade, AttemptAnswers
  <2>7. AllKnown'
    BY <1>3, <2>1, NoConnIsNone DEF AllKnown, HandsMade, AttemptAnswers
  <2> QED BY <2>2, <2>3, <2>4, <2>5, <2>6, <2>7 DEF StrayInv, Sighted
<1>4. CASE LoopSucceeds(l)
  <2>1. /\ orderly /\ InMade /\ NoneLate /\ OneLoop /\ LoopNeeded /\ HandsMade
        /\ AllKnown
    BY <1>4 DEF StrayInv, Sighted, LoopSucceeds
  <2>2. InMade'
    BY <1>4, <2>1 DEF InMade, HandsMade, LoopSucceeds
  <2>3. NoneLate'
    BY <1>4, <2>1 DEF NoneLate, LoopSucceeds
  <2>4. OneLoop'
    BY <1>4, <2>1 DEF OneLoop, Looping, LoopSucceeds
  <2>5. LoopNeeded'
    <3>1. Looping' = {}
      BY <1>4, <2>1 DEF OneLoop, Looping, LoopSucceeds
    <3> QED BY <3>1 DEF LoopNeeded
  <2>6. HandsMade'
    BY <1>4, <2>1 DEF HandsMade, LoopSucceeds
  <2>7. AllKnown'
    <3>1. connection \notin active
      BY <1>4, <2>1 DEF LoopNeeded, Looping, LoopSucceeds
    <3>2. \A k \in Loops : hand[k] # NoConn => k = l
      BY <1>4, <2>1 DEF HandsMade, OneLoop, Looping, LoopSucceeds
    <3>3. \A c \in active : c = hand[l]
      BY <2>1, <3>1, <3>2, NoConnIsNone DEF AllKnown
    <3> QED BY <1>4, <3>3 DEF AllKnown, LoopSucceeds
  <2> QED BY <2>2, <2>3, <2>4, <2>5, <2>6, <2>7 DEF StrayInv, Sighted
<1>5. CASE onMaxAttemptsReached(l) \/ LoopStops(l)
  <2>1. /\ orderly /\ InMade /\ NoneLate /\ OneLoop /\ LoopNeeded /\ HandsMade
        /\ AllKnown
    BY <1>5 DEF StrayInv, Sighted, onMaxAttemptsReached, LoopStops
  <2>2. InMade'
    BY <1>5, <2>1 DEF InMade, HandsMade, onMaxAttemptsReached, LoopStops
  <2>3. NoneLate'
    BY <1>5, <2>1 DEF NoneLate, onMaxAttemptsReached, LoopStops
  <2>4. OneLoop'
    BY <1>5, <2>1
    DEF OneLoop, Looping, onMaxAttemptsReached, LoopStops
  <2>5. LoopNeeded'
    BY <1>5, <2>1
    DEF LoopNeeded, Looping, onMaxAttemptsReached, LoopStops
  <2>6. HandsMade'
    BY <1>5, <2>1 DEF HandsMade, onMaxAttemptsReached, LoopStops
  <2>7. AllKnown'
    BY <1>5, <2>1
    DEF AllKnown, HandsMade, onMaxAttemptsReached, LoopStops
  <2> QED BY <2>2, <2>3, <2>4, <2>5, <2>6, <2>7 DEF StrayInv, Sighted
<1> QED BY <1>1, <1>2, <1>3, <1>4, <1>5 DEF LoopStep, Waits

\* The manager loses sight of no open connection as long as loops do not
\* overlap, no attempt is given up and no open connection is replaced.
THEOREM NothingStrays == Spec => []NoStrayConnection
<1>1. Init => StrayInv
  BY DEF Init, StrayInv, Sighted, InMade, NoneLate, OneLoop, LoopNeeded,
         HandsMade, AllKnown, Looping
<1>2. Types /\ StrayInv /\ [Next]_vars => StrayInv'
  <2>1. StrayInv /\ UNCHANGED vars => StrayInv'
    BY DEF StrayInv, Sighted, InMade, NoneLate, OneLoop, LoopNeeded, HandsMade,
           AllKnown, Looping, vars
  <2> QED BY <2>1, AppStray, LoopStray DEF Next
<1>3. StrayInv => NoStrayConnection
  BY DEF StrayInv, Sighted, AllKnown, NoStrayConnection
<1> QED BY <1>1, <1>2, <1>3, InitType, NextType, PTL DEF Spec
=============================================================================
