----------------------- MODULE ShutdownManagerProofs -----------------------
(***************************************************************************)
(* What pkg/graceful/shutdown.go promises for any number of signals, hooks *)
(* and callers of Shutdown: signals force the process down only as a       *)
(* second signal, a hook that has run is not run again, the hooks run in   *)
(* order, and a Shutdown that was not timed out leaves none out.           *)
(***************************************************************************)
EXTENDS ShutdownManager, FiniteSetTheorems, TLAPS

\* Signals: those taken and the one waiting were raised, somebody waits for a
\* second one only after a first, and the forcing one is neither.
SignalInv ==
  /\ raised \in Nat /\ taken \in Nat /\ pending \in {0, 1}
  /\ taken + pending <= raised
  /\ gPc \in [Signals -> {"none", "wait", "done"}]
  /\ \A n \in Signals : gPc[n] = "wait" => taken >= 1
  /\ "signal" \in forcing =>
       taken >= 1 /\ (raised > taken + pending \/ chanClosed)

\* The steps that change none of what SignalInv speaks of.
LEMMA SignalUntouched ==
  ASSUME \/ Register \/ Start
         \/ \E n \in Signals : Exits(n)
         \/ ListenerEnds \/ ForceExit
         \/ \E c \in Callers : Shutdown(c) \/ ShutdownStep(c) \/ Timeout(c)
         \/ \E h \in Hooks : HookReturns(h)
         \/ UNCHANGED vars
  PROVE  UNCHANGED <<raised, taken, pending, gPc, forcing, chanClosed>>
  <1> USE DEF sigVars, flagVars
  <1>1. CASE Register \/ Start
    BY <1>1 DEF Register, AddHook, AddNamedHook, RemoveNamedHook, Start
  <1>2. CASE (\E n \in Signals : Exits(n)) \/ ListenerEnds \/ ForceExit
    BY <1>2 DEF Exits, ListenerEnds, ForceExit
  <1>3. ASSUME NEW c \in Callers, Shutdown(c) \/ ShutdownStep(c) \/ Timeout(c)
        PROVE  UNCHANGED <<raised, taken, pending, gPc, forcing, chanClosed>>
    BY <1>3 DEF Shutdown, ShutdownStep, Timeout, executeHooks, NextHook,
                AllHooks, Completed, TimesOut
  <1>4. CASE (\E h \in Hooks : HookReturns(h)) \/ UNCHANGED vars
    BY <1>4 DEF HookReturns, vars
  <1>5. QED
    BY <1>1, <1>2, <1>3, <1>4

\* Every step keeps the count of the signals.
LEMMA SignalStep ==
  ASSUME SignalInv, [Next]_vars
  PROVE  SignalInv'
  <1> USE DEF SignalInv
  <1>1. CASE UNCHANGED <<raised, taken, pending, gPc, forcing, chanClosed>>
    BY <1>1
  <1>2. CASE Stop
    BY <1>2 DEF Stop
  <1>3. CASE Raise
    BY <1>3 DEF Raise, flagVars
  <1>4. CASE ListenerTakes
    <2>1. /\ pending = 1 /\ pending' = 0 /\ taken' = taken + 1
          /\ gPc' = [gPc EXCEPT ![taken + 1] = "wait"]
          /\ UNCHANGED <<raised, forcing, chanClosed>>
      BY <1>4 DEF ListenerTakes, flagVars
    <2>2. gPc' \in [Signals -> {"none", "wait", "done"}]
      BY <2>1
    <2>3. taken' \in Nat /\ taken' >= 1 /\ taken' + pending' <= raised'
      BY <2>1
    <2>4. QED
      BY <2>1, <2>2, <2>3
  <1>5. ASSUME NEW n \in Signals, SecondSignal(n)
        PROVE  SignalInv'
    BY <1>5 DEF SecondSignal, ForceBy
  <1>6. ASSUME NEW n \in Signals, GraceOver(n)
        PROVE  SignalInv'
    BY <1>6 DEF GraceOver, flagVars
  <1>7. CASE ForceShutdown
    <2>1. /\ forcing' = forcing \cup {"application"}
          /\ UNCHANGED <<raised, taken, pending, gPc, chanClosed>>
      BY <1>7 DEF ForceShutdown, ForceBy, sigVars
    <2>2. "signal" \in forcing' => "signal" \in forcing
      BY <2>1
    <2>3. QED
      BY <2>1, <2>2
  <1>8. QED
    BY <1>1, <1>2, <1>3, <1>4, <1>5, <1>6, <1>7, SignalUntouched DEF Next

\* The listener and the goroutines that wait for a second signal share one
\* channel of size one (shutdown.go:219-259); whatever drops, overtakes or
\* is closed there, a single signal never forces the process down.
THEOREM OneSignalNeverForces == Spec => []ForcedBySecondSignal
  <1>1. Init => SignalInv
    BY DEF Init, SignalInv
  <1>2. SignalInv /\ [Next]_vars => SignalInv'
    BY SignalStep
  <1>3. SignalInv => ForcedBySecondSignal
    BY DEF SignalInv, ForcedBySecondSignal
  <1>4. QED
    BY <1>1, <1>2, <1>3, PTL DEF Spec

-----------------------------------------------------------------------------
\* The Shutdown calls that were let in.
LetIn == {c \in Callers : cPc[c] \in {"snapshot", "hooks", "returned"}}

\* One Shutdown at most was let in.  Until it has taken its copy of the hooks
\* none has begun, and no hook is twice in that copy or has begun before it
\* is taken from it.
HookInv ==
  /\ cPc \in [Callers -> {"none", "ready", "snapshot", "hooks", "returned",
                          "refused"}]
  /\ hPc \in [Hooks -> {"none", "runs", "ended"}]
  /\ hooks \in 0 .. MaxHooks /\ namedHooks \subseteq Named
  /\ todo \in Seq(1 .. MaxHooks) /\ todoNamed \subseteq Named
  /\ \A c, d \in LetIn : c = d
  /\ LetIn # {} => shuttingDown
  /\ (\A c \in LetIn : cPc[c] = "snapshot") =>
       todo = <<>> /\ todoNamed = {} /\ \A h \in Hooks : hPc[h] = "none"
  /\ \A i \in 1 .. Len(todo) : hPc[todo[i]] = "none"
  /\ \A i, j \in 1 .. Len(todo) : todo[i] = todo[j] => i = j
  /\ \A h \in todoNamed : hPc[h] = "none"

\* A signal the listener has not taken yet has no call of Shutdown.
Fresh == \A n \in Signals : n > taken => cPc[n] = "none"

\* A hook that ended stays ended.
Kept == \A h \in Hooks : hPc[h] = "ended" => hPc'[h] = hPc[h]

\* The rest of a list of hooks.
LEMMA TailShape ==
  ASSUME NEW S, NEW q \in Seq(S), q # <<>>
  PROVE  /\ Head(q) = q[1] /\ q[1] \in S
         /\ Len(q) \in Nat /\ Len(q) >= 1
         /\ Tail(q) \in Seq(S) /\ Len(Tail(q)) = Len(q) - 1
         /\ \A i \in 1 .. Len(q) - 1 : Tail(q)[i] = q[i + 1]
  OBVIOUS

LEMMA ElementOf ==
  ASSUME NEW S, NEW q \in Seq(S), NEW i \in 1 .. Len(q)
  PROVE  q[i] \in S
  OBVIOUS

\* The one call that is let in sets the flag before it looks at the hooks.
LEMMA HookShutdown ==
  ASSUME HookInv, NEW c \in Callers, Shutdown(c)
  PROVE  HookInv' /\ Kept
  <1> USE DEF HookInv, hookVars, regVars, Kept
  <1>1. UNCHANGED <<hPc, hooks, namedHooks, todo, todoNamed>>
        /\ shuttingDown' = TRUE /\ cPc[c] = "ready"
    BY DEF Shutdown
  <1>2. CASE shuttingDown
    <2>1. cPc' = [cPc EXCEPT ![c] = "refused"]
      BY <1>2 DEF Shutdown
    <2>2. LetIn' = LetIn /\ \A d \in LetIn : cPc'[d] = cPc[d]
      BY <2>1, <1>1 DEF LetIn
    <2>3. QED
      BY <1>1, <2>1, <2>2
  <1>3. CASE ~shuttingDown
    <2>1. cPc' = [cPc EXCEPT ![c] = "snapshot"] /\ LetIn = {}
      BY <1>3 DEF Shutdown
    <2>2. LetIn' = {c} /\ cPc'[c] = "snapshot"
      BY <2>1, <1>1 DEF LetIn
    <2>3. QED
      BY <1>1, <2>1, <2>2
  <1>4. QED
    BY <1>2, <1>3

\* Its copy holds every hook once.
LEMMA HookSnapshot ==
  ASSUME HookInv, NEW c \in Callers, executeHooks(c)
  PROVE  HookInv' /\ Kept
  <1> USE DEF HookInv, regVars, flagVars, Kept
  <1>1. /\ cPc[c] = "snapshot" /\ cPc' = [cPc EXCEPT ![c] = "hooks"]
        /\ todo' = [i \in 1 .. hooks |-> i] /\ todoNamed' = namedHooks
        /\ UNCHANGED <<hPc, hooks, namedHooks, shuttingDown>>
    BY DEF executeHooks
  <1>2. c \in LetIn /\ LetIn = {c} /\ LetIn' = {c} /\ cPc'[c] = "hooks"
    BY <1>1 DEF LetIn
  <1>3. \A h \in Hooks : hPc[h] = "none"
    BY <1>1, <1>2
  <1>4. todo' \in Seq(1 .. MaxHooks) /\ Len(todo') = hooks
        /\ \A i \in 1 .. hooks : todo'[i] = i /\ i \in Hooks
    BY <1>1, ShutdownAssumption DEF Hooks
  <1>5. QED
    BY <1>1, <1>2, <1>3, <1>4 DEF Hooks

\* A step of the Shutdown that runs hooks keeps the callers where they are.
LEMMA HookBegin ==
  ASSUME HookInv, NEW c \in Callers, NextHook(c) \/ AllHooks(c)
  PROVE  HookInv' /\ Kept
  <1> USE DEF HookInv, regVars, flagVars, Kept
  <1>1. cPc[c] = "hooks" /\ UNCHANGED <<cPc, hooks, namedHooks, shuttingDown>>
    BY DEF NextHook, AllHooks
  <1>2. LetIn' = LetIn /\ c \in LetIn
    BY <1>1 DEF LetIn
  <1>3. CASE NextHook(c) /\ todo # <<>>
    <2>1. hPc' = Begun({Head(todo)}) /\ todo' = Tail(todo)
          /\ todoNamed' = todoNamed
      BY <1>3 DEF NextHook
    <2>2. /\ Head(todo) = todo[1] /\ todo[1] \in 1 .. MaxHooks
          /\ Len(todo) \in Nat /\ Len(todo) >= 1
          /\ Tail(todo) \in Seq(1 .. MaxHooks)
          /\ Len(Tail(todo)) = Len(todo) - 1
          /\ \A i \in 1 .. Len(todo) - 1 : Tail(todo)[i] = todo[i + 1]
      BY <1>3, TailShape
    <2>3. hPc[todo[1]] = "none" /\ todo[1] \in Hooks /\ todo[1] \notin Named
      BY <2>2, ShutdownAssumption DEF Hooks
    <2>4. hPc' \in [Hooks -> {"none", "runs", "ended"}] /\ Kept
      BY <2>1, <2>2, <2>3 DEF Begun
    <2>5. \A i \in 1 .. Len(todo') : hPc'[todo'[i]] = "none"
      <3> SUFFICES ASSUME NEW i \in 1 .. Len(todo')
                   PROVE  hPc'[todo'[i]] = "none"
        OBVIOUS
      <3>1. i + 1 \in 1 .. Len(todo) /\ todo'[i] = todo[i + 1] /\ 1 \in 1 .. Len(todo)
        BY <2>1, <2>2
      <3>2. todo[i + 1] # todo[1] /\ hPc[todo[i + 1]] = "none"
        <4>1. i \in Nat /\ i + 1 # 1
          BY <2>1, <2>2
        <4>2. QED
          BY <3>1, <4>1
      <3>4. todo[i + 1] \in 1 .. MaxHooks
        BY <3>1, ElementOf
      <3>3. QED
        BY <2>1, <2>2, <3>1, <3>2, <3>4 DEF Begun, Hooks
    <2>6. \A i, j \in 1 .. Len(todo') : todo'[i] = todo'[j] => i = j
      BY <2>1, <2>2
    <2>7. \A h \in todoNamed' : hPc'[h] = "none"
      BY <2>1, <2>2, <2>3 DEF Begun, Hooks
    <2>8. QED
      BY <1>1, <1>2, <2>1, <2>2, <2>4, <2>5, <2>6, <2>7
  <1>4. CASE NextHook(c) /\ todo = <<>>
    <2>1. PICK h \in todoNamed :
            hPc' = Begun({h}) /\ todoNamed' = todoNamed \ {h}
      BY <1>4 DEF NextHook
    <2>2. todo' = todo
      BY <1>4 DEF NextHook
    <2>3. hPc' \in [Hooks -> {"none", "runs", "ended"}] /\ Kept
      BY <2>1 DEF Begun
    <2>4. \A g \in todoNamed' : hPc'[g] = "none"
      BY <2>1 DEF Begun, Hooks
    <2>5. /\ \A i \in 1 .. Len(todo') : hPc'[todo'[i]] = "none"
          /\ \A i, j \in 1 .. Len(todo') : todo'[i] = todo'[j] => i = j
      <3>1. Len(todo') = 0
        BY <1>4, <2>2
      <3>2. QED
        BY <3>1
    <2>6. ~(\A d \in LetIn' : cPc'[d] = "snapshot")
      BY <1>1, <1>2
    <2>7. /\ \A d, e \in LetIn' : d = e
          /\ LetIn' # {} => shuttingDown'
          /\ todoNamed' \subseteq Named
      BY <1>1, <1>2, <2>1
    <2>8. todo' \in Seq(1 .. MaxHooks)
      BY <2>2
    <2>9. QED
      BY <1>1, <2>3, <2>4, <2>5, <2>6, <2>7, <2>8
  <1>5. CASE AllHooks(c)
    <2> DEFINE B == {todo[i] : i \in DOMAIN todo} \cup todoNamed
    <2>1. hPc' = Begun(B) /\ todo' = <<>> /\ todoNamed' = {}
      BY <1>5 DEF AllHooks
    <2>2. \A h \in B : hPc[h] = "none"
      BY Z3 DEF Hooks
    <2>3. hPc' \in [Hooks -> {"none", "runs", "ended"}] /\ Kept
      BY <2>1, <2>2 DEF Begun
    <2>4. todo' \in Seq(1 .. MaxHooks) /\ Len(todo') = 0
      BY <2>1
    <2>5. ~(\A d \in LetIn' : cPc'[d] = "snapshot")
      BY <1>1, <1>2
    <2>6. /\ \A i \in 1 .. Len(todo') : hPc'[todo'[i]] = "none"
          /\ \A i, j \in 1 .. Len(todo') : todo'[i] = todo'[j] => i = j
          /\ \A h \in todoNamed' : hPc'[h] = "none"
      <3>1. Len(todo') = 0 /\ todoNamed' = {}
        BY <2>1, <2>4
      <3>2. QED
        BY <3>1
    <2>7. /\ \A d, e \in LetIn' : d = e
          /\ LetIn' # {} => shuttingDown'
          /\ todoNamed' \subseteq Named
      BY <1>1, <1>2, <2>1
    <2>8. QED
      BY <1>1, <2>3, <2>4, <2>5, <2>6, <2>7
  <1>6. QED
    BY <1>3, <1>4, <1>5

\* A hook that returns began once.
LEMMA HookReturned ==
  ASSUME HookInv, NEW h \in Hooks, HookReturns(h)
  PROVE  HookInv' /\ Kept
  <1> USE DEF HookInv, regVars, flagVars, Kept
  <1>1. /\ hPc[h] = "runs" /\ hPc' = [hPc EXCEPT ![h] = "ended"]
        /\ UNCHANGED <<cPc, hooks, namedHooks, todo, todoNamed, shuttingDown>>
    BY DEF HookReturns
  <1>2. LetIn' = LetIn
    BY <1>1 DEF LetIn
  <1>3. \A i \in 1 .. Len(todo) : todo[i] \in Hooks
    BY ElementOf DEF Hooks
  <1>4. QED
    BY <1>1, <1>2, <1>3 DEF Hooks

\* Shutdown returns to its caller.
LEMMA HookFinish ==
  ASSUME HookInv, NEW c \in Callers, Completed(c) \/ TimesOut(c)
  PROVE  HookInv' /\ Kept
  <1> USE DEF HookInv, hookVars, regVars, flagVars, Kept
  <1>1. /\ cPc[c] = "hooks" /\ cPc' = [cPc EXCEPT ![c] = "returned"]
        /\ UNCHANGED <<hPc, hooks, namedHooks, todo, todoNamed, shuttingDown>>
    BY DEF Completed, TimesOut
  <1>2. LetIn' = LetIn /\ c \in LetIn /\ cPc'[c] = "returned"
    BY <1>1 DEF LetIn
  <1>3. QED
    BY <1>1, <1>2

\* Registration, and the steps that leave hooks and Shutdown calls alone.
LEMMA HookOther ==
  ASSUME HookInv,
         \/ Register \/ Start \/ Stop \/ Raise \/ ListenerEnds
         \/ \E n \in Signals : SecondSignal(n) \/ GraceOver(n) \/ Exits(n)
         \/ ForceShutdown \/ ForceExit
         \/ \E c \in Callers : Timeout(c)
         \/ UNCHANGED vars
  PROVE  HookInv' /\ Kept
  <1> USE DEF hookVars, regVars, flagVars
  <1>1. UNCHANGED <<cPc, hPc, todo, todoNamed, shuttingDown>>
    BY DEF Register, AddHook, AddNamedHook, RemoveNamedHook, Start, Stop,
           Raise, ListenerEnds, SecondSignal, GraceOver, Exits, ForceShutdown,
           ForceExit, Timeout, vars
  <1>2. hooks' \in 0 .. MaxHooks /\ namedHooks' \subseteq Named
    <2>1. CASE Register
      BY <2>1, ShutdownAssumption
         DEF HookInv, Register, AddHook, AddNamedHook, RemoveNamedHook
    <2>2. CASE ~Register
      BY <2>2 DEF HookInv, Start, Stop, Raise, ListenerEnds, SecondSignal,
                  GraceOver, Exits, ForceShutdown, ForceExit, Timeout, vars
    <2>3. QED
      BY <2>1, <2>2
  <1>3. LetIn' = LetIn
    BY <1>1 DEF LetIn
  <1>4. Kept
    BY <1>1 DEF Kept
  <1>5. (\A c \in LetIn : cPc[c] = "snapshot")'
          = (\A c \in LetIn : cPc[c] = "snapshot")
    BY <1>1, <1>3
  <1>6. QED
    BY <1>1, <1>2, <1>3, <1>4, <1>5 DEF HookInv

\* The listener starts a call of Shutdown for a signal that had none.
LEMMA HookListener ==
  ASSUME HookInv, SignalInv, SignalInv', ListenerTakes,
         Fresh
  PROVE  HookInv' /\ Kept
  <1> USE DEF HookInv, hookVars, regVars, flagVars, Kept
  <1>1. /\ cPc' = [cPc EXCEPT ![taken + 1] = "ready"]
        /\ UNCHANGED <<hPc, hooks, namedHooks, todo, todoNamed, shuttingDown>>
    BY DEF ListenerTakes
  <1>2. taken + 1 \in Signals => cPc[taken + 1] = "none"
    BY DEF SignalInv, Signals, Fresh
  <1>3. LetIn' = LetIn /\ \A d \in LetIn : cPc'[d] = cPc[d]
    BY <1>1, <1>2, ShutdownAssumption DEF LetIn, Callers, Signals, SignalInv
  <1>4. cPc' \in [Callers -> {"none", "ready", "snapshot", "hooks", "returned",
                              "refused"}]
    BY <1>1
  <1>5. Kept
    BY <1>1
  <1>6. (\A c \in LetIn : cPc[c] = "snapshot")'
          = (\A c \in LetIn : cPc[c] = "snapshot")
    BY <1>3
  <1>7. QED
    BY <1>1, <1>3, <1>4, <1>5, <1>6

\* A signal not yet taken has no call.
LEMMA FreshStep ==
  ASSUME SignalInv, HookInv, Fresh, [Next]_vars
  PROVE  Fresh'
  <1> USE DEF Fresh, SignalInv, HookInv, hookVars, sigVars, regVars, flagVars
  <1>1. CASE ListenerTakes
    <2>1. taken' = taken + 1 /\ cPc' = [cPc EXCEPT ![taken + 1] = "ready"]
      BY <1>1 DEF ListenerTakes
    <2>2. QED
      BY <2>1 DEF Signals
  <1>2. ASSUME NEW c \in Callers, Shutdown(c) \/ ShutdownStep(c) \/ Timeout(c)
        PROVE  Fresh'
    <2>1. cPc[c] # "none" /\ taken' = taken
      BY <1>2 DEF Shutdown, ShutdownStep, Timeout, executeHooks, NextHook,
                  AllHooks, Completed, TimesOut
    <2>2. \A d \in Callers : d # c => cPc'[d] = cPc[d]
      BY <1>2 DEF Shutdown, ShutdownStep, Timeout, executeHooks, NextHook,
                  AllHooks, Completed, TimesOut
    <2>3. QED
      BY <2>1, <2>2 DEF Callers
  <1>3. CASE \/ Register \/ Start \/ Stop \/ Raise \/ ListenerEnds
             \/ \E n \in Signals : SecondSignal(n) \/ GraceOver(n) \/ Exits(n)
             \/ ForceShutdown \/ ForceExit
             \/ \E h \in Hooks : HookReturns(h)
             \/ UNCHANGED vars
    <2>1. UNCHANGED <<taken, cPc>>
      BY <1>3 DEF Register, AddHook, AddNamedHook, RemoveNamedHook, Start,
             Stop, Raise, ListenerEnds, SecondSignal, GraceOver, Exits,
             ForceShutdown, ForceExit, HookReturns, vars
    <2>2. QED
      BY <2>1
  <1>4. QED
    BY <1>1, <1>2, <1>3 DEF Next

\* Every step keeps the hooks apart, and none is run again.
LEMMA HookStep ==
  ASSUME SignalInv, HookInv, Fresh, [Next]_vars
  PROVE  HookInv' /\ Kept
  <1>1. CASE ListenerTakes
    BY <1>1, HookListener, SignalStep
  <1>2. ASSUME NEW c \in Callers, Shutdown(c) \/ ShutdownStep(c)
        PROVE  HookInv' /\ Kept
    BY <1>2, HookShutdown, HookSnapshot, HookBegin, HookFinish
       DEF ShutdownStep
  <1>3. ASSUME NEW h \in Hooks, HookReturns(h)
        PROVE  HookInv' /\ Kept
    BY <1>3, HookReturned
  <1>4. CASE \/ Register \/ Start \/ Stop \/ Raise \/ ListenerEnds
             \/ \E n \in Signals : SecondSignal(n) \/ GraceOver(n) \/ Exits(n)
             \/ ForceShutdown \/ ForceExit
             \/ \E c \in Callers : Timeout(c)
             \/ UNCHANGED vars
    BY <1>4, HookOther
  <1>5. QED
    BY <1>1, <1>2, <1>3, <1>4 DEF Next

\* At first.
LEMMA HookStart ==
  ASSUME Init
  PROVE  SignalInv /\ HookInv /\ Fresh
  <1> USE DEF Init
  <1>1. SignalInv
    BY DEF SignalInv
  <1>2. Fresh
    BY ShutdownAssumption DEF Fresh, Callers, Signals
  <1>3. LetIn = {}
    BY DEF LetIn
  <1>4. HookInv
    <2>1. todo = <<>> /\ Len(todo) = 0 /\ todo \in Seq(1 .. MaxHooks)
      OBVIOUS
    <2>2. hPc \in [Hooks -> {"none", "runs", "ended"}]
          /\ \A h \in Hooks : hPc[h] = "none"
      OBVIOUS
    <2>3. cPc \in [Callers -> {"none", "ready", "snapshot", "hooks",
                              "returned", "refused"}]
      OBVIOUS
    <2>4. hooks \in 0 .. MaxHooks /\ namedHooks \subseteq Named
          /\ todoNamed = {}
      BY ShutdownAssumption
    <2>5. \A i \in 1 .. Len(todo) : FALSE
      BY <2>1
    <2>6. QED
      BY <1>3, <2>1, <2>2, <2>3, <2>4, <2>5 DEF HookInv
  <1>5. QED
    BY <1>1, <1>2, <1>4

\* Whoever calls Shutdown, and however many signals start a call of their
\* own, the flag lets one of them in (shutdown.go:167-175), so that a hook
\* that has run is never run again.
THEOREM HooksRunOnce == Spec => HookOnce
  <1> DEFINE Inv == SignalInv /\ HookInv /\ Fresh
  <1>1. Init => Inv
    BY HookStart
  <1>2. Inv /\ [Next]_vars => Inv' /\ Kept
    BY SignalStep, FreshStep, HookStep
  <1>3. Inv /\ [Next]_vars =>
          [\A h \in Hooks : hPc[h] = "ended" => hPc'[h] = hPc[h]]_vars
    BY <1>2 DEF Kept
  <1>4. QED
    BY <1>1, <1>2, <1>3, PTL DEF Spec, HookOnce

-----------------------------------------------------------------------------
\* The steps that leave the hooks and what is left to start alone, apart from
\* those of a Shutdown call, and keep the callers that are let in.
Aside ==
  \/ Register \/ Start \/ Stop \/ Raise \/ ListenerTakes \/ ListenerEnds
  \/ \E n \in Signals : SecondSignal(n) \/ GraceOver(n) \/ Exits(n)
  \/ ForceShutdown \/ ForceExit
  \/ \E c \in Callers : Timeout(c)
  \/ UNCHANGED vars

\* What goes on beside the hooks leaves them and the call that runs them alone.
LEMMA AsideKeeps ==
  ASSUME SignalInv, SignalInv', HookInv, Fresh, Aside
  PROVE  /\ UNCHANGED <<parallel, hPc, todo, todoNamed, timedOut>>
         /\ \A c \in Callers :
              cPc'[c] \in {"snapshot", "hooks", "returned"} => cPc'[c] = cPc[c]
  <1> USE DEF hookVars, flagVars
  <1>1. CASE ListenerTakes
    <2>1. /\ cPc' = [cPc EXCEPT ![taken + 1] = "ready"]
          /\ UNCHANGED <<parallel, hPc, todo, todoNamed, timedOut>>
      BY <1>1 DEF ListenerTakes
    <2>2. \A c \in Callers :
            cPc'[c] \in {"snapshot", "hooks", "returned"} => cPc'[c] = cPc[c]
      BY <2>1 DEF HookInv
    <2>3. QED
      BY <2>1, <2>2
  <1>2. CASE Register \/ Start \/ Stop \/ Raise \/ ListenerEnds
    BY <1>2 DEF Register, AddHook, AddNamedHook, RemoveNamedHook, Start, Stop,
                Raise, ListenerEnds
  <1>3. CASE \/ \E n \in Signals : SecondSignal(n) \/ GraceOver(n) \/ Exits(n)
             \/ ForceShutdown \/ ForceExit
             \/ \E c \in Callers : Timeout(c)
             \/ UNCHANGED vars
    BY <1>3 DEF SecondSignal, GraceOver, Exits, ForceShutdown, ForceExit,
                Timeout, vars
  <1>4. QED
    BY <1>1, <1>2, <1>3 DEF Aside

\* A step is one of these, of a call, or of a hook.
LEMMA NextSplit ==
  ASSUME [Next]_vars
  PROVE  \/ Aside
         \/ \E c \in Callers : Shutdown(c) \/ ShutdownStep(c)
         \/ \E h \in Hooks : HookReturns(h)
  BY DEF Next, Aside

\* Without ParallelHooks: the hooks of AddHook end before the next begins, the
\* ones still to be started are the last of them, and one runs at a time.
EarlierEnded ==
  \A i, j \in 1 .. MaxHooks : i < j /\ hPc[j] # "none" => hPc[i] = "ended"
TodoConsecutive ==
  \A i \in 1 .. Len(todo) : todo[i] = todo[1] + i - 1
StartedBefore ==
  todo # <<>> => \A i \in 1 .. MaxHooks : i < todo[1] => hPc[i] # "none"
OneRuns ==
  \A g, h \in Hooks : hPc[g] = "runs" /\ hPc[h] = "runs" => g = h
OrderInv ==
  ~parallel => EarlierEnded /\ TodoConsecutive /\ StartedBefore /\ OneRuns

\* Calls that do not start a hook keep the order.
LEMMA OrderShutdown ==
  ASSUME OrderInv, NEW c \in Callers,
         Shutdown(c) \/ Completed(c) \/ TimesOut(c)
  PROVE  OrderInv'
  <1>1. UNCHANGED <<parallel, hPc, todo>>
    BY DEF Shutdown, Completed, TimesOut, hookVars, flagVars
  <1>2. QED
    BY <1>1 DEF OrderInv, EarlierEnded, TodoConsecutive, StartedBefore, OneRuns

\* The copy of the registered hooks is taken in their order.
LEMMA OrderSnapshot ==
  ASSUME HookInv, NEW c \in Callers, executeHooks(c)
  PROVE  OrderInv'
  <1>1. /\ cPc[c] = "snapshot" /\ hPc' = hPc
        /\ todo' = [i \in 1 .. hooks |-> i]
    BY DEF executeHooks
  <1>2. \A h \in Hooks : hPc'[h] = "none"
    BY <1>1 DEF HookInv, LetIn
  <1>3. hooks \in 0 .. MaxHooks /\ MaxHooks \in Nat
    BY ShutdownAssumption DEF HookInv
  <1>4. Len(todo') = hooks /\ \A i \in 1 .. hooks : todo'[i] = i
    BY <1>1, <1>3
  <1>5. EarlierEnded' /\ OneRuns'
    BY <1>2 DEF EarlierEnded, OneRuns, Hooks
  <1>6. TodoConsecutive'
    BY <1>3, <1>4 DEF TodoConsecutive
  <1>7. StartedBefore'
    <2>1. todo' # <<>> => todo'[1] = 1
      BY <1>1, <1>3, <1>4
    <2>2. QED
      BY <2>1, <1>3 DEF StartedBefore
  <1>8. QED
    BY <1>5, <1>6, <1>7 DEF OrderInv

\* Between two hooks those that have begun have ended, so the next one may.
LEMMA OrderNextPlain ==
  ASSUME HookInv, OrderInv, NEW c \in Callers, NextHook(c), todo # <<>>
  PROVE  OrderInv'
  <1> DEFINE k == todo[1]
  <1>1. /\ ~parallel /\ ~Busy /\ parallel' = parallel
        /\ hPc' = Begun({Head(todo)}) /\ todo' = Tail(todo)
    BY DEF NextHook, flagVars
  <1>2. /\ Head(todo) = k /\ k \in 1 .. MaxHooks
        /\ Len(todo) \in Nat /\ Len(todo) >= 1
        /\ Len(Tail(todo)) = Len(todo) - 1
        /\ \A i \in 1 .. Len(todo) - 1 : Tail(todo)[i] = todo[i + 1]
    BY TailShape DEF HookInv
  <1>3. EarlierEnded /\ TodoConsecutive /\ StartedBefore
    BY <1>1 DEF OrderInv
  <1>4. hPc[k] = "none" /\ k \in Hooks
    BY <1>2 DEF HookInv, Hooks
  <1>5. \A h \in Hooks : hPc[h] # "none" => hPc[h] = "ended"
    BY <1>1 DEF Busy, HookInv
  <1>6. \A h \in Hooks : hPc'[h] = IF h = k THEN "runs" ELSE hPc[h]
    BY <1>1, <1>2 DEF Begun
  <1>7. EarlierEnded'
    <2> SUFFICES ASSUME NEW i \in 1 .. MaxHooks, NEW j \in 1 .. MaxHooks,
                        i < j, hPc'[j] # "none"
                 PROVE  hPc'[i] = "ended"
      BY DEF EarlierEnded
    <2>1. CASE j = k
      <3>1. hPc[i] # "none"
        BY <2>1, <1>2, <1>3 DEF StartedBefore
      <3>2. QED
        BY <3>1, <2>1, <1>2, <1>5, <1>6 DEF Hooks
    <2>2. CASE j # k
      <3>1. hPc[i] = "ended"
        BY <2>2, <1>3, <1>6 DEF EarlierEnded, Hooks
      <3>2. QED
        BY <3>1, <1>4, <1>6 DEF Hooks
    <2>3. QED
      BY <2>1, <2>2
  <1>8. TodoConsecutive'
    <2> SUFFICES ASSUME NEW i \in 1 .. Len(todo')
                 PROVE  todo'[i] = todo'[1] + i - 1
      BY DEF TodoConsecutive
    <2>1. /\ i \in 1 .. Len(todo) - 1 /\ 1 \in 1 .. Len(todo) - 1
          /\ i + 1 \in 1 .. Len(todo) /\ 2 \in 1 .. Len(todo)
      BY <1>1, <1>2
    <2>2. todo'[i] = todo[i + 1] /\ todo'[1] = todo[2]
      BY <2>1, <1>1, <1>2
    <2>3. todo[i + 1] = k + (i + 1) - 1 /\ todo[2] = k + 2 - 1
      BY <2>1, <1>3 DEF TodoConsecutive
    <2>4. QED
      BY <2>1, <2>2, <2>3, <1>2
  <1>9. StartedBefore'
    <2> SUFFICES ASSUME todo' # <<>>, NEW i \in 1 .. MaxHooks, i < todo'[1]
                 PROVE  hPc'[i] # "none"
      BY DEF StartedBefore
    <2>1. Len(todo) > 1
      <3>1. Tail(todo) \in Seq(1 .. MaxHooks) /\ Tail(todo) # <<>>
        BY <1>1 DEF HookInv
      <3>2. Len(Tail(todo)) >= 1
        BY <3>1, TailShape
      <3>3. QED
        BY <3>2, <1>2
    <2>2. todo'[1] = todo[2] /\ todo[2] = k + 2 - 1
      BY <2>1, <1>1, <1>2, <1>3 DEF TodoConsecutive
    <2>3. i < k + 1
      BY <2>2, <1>2
    <2>4. CASE i = k
      BY <2>4, <1>4, <1>6
    <2>5. CASE i < k
      BY <2>5, <1>2, <1>3, <1>6 DEF StartedBefore, Hooks
    <2>6. QED
      BY <2>3, <2>4, <2>5, <1>2
  <1>10. OneRuns'
    BY <1>5, <1>6 DEF OneRuns
  <1>11. QED
    BY <1>7, <1>8, <1>9, <1>10 DEF OrderInv

\* Named hooks begin when the plain ones are through.
LEMMA OrderNextNamed ==
  ASSUME HookInv, OrderInv, NEW c \in Callers, NextHook(c), todo = <<>>
  PROVE  OrderInv'
  <1>1. ~parallel /\ ~Busy /\ parallel' = parallel /\ todo' = todo
    BY DEF NextHook, flagVars
  <1>2. PICK g \in todoNamed : hPc' = Begun({g})
    BY DEF NextHook
  <1>3. g \in Named /\ g \notin 1 .. MaxHooks
    BY ShutdownAssumption DEF HookInv
  <1>4. \A h \in 1 .. MaxHooks : hPc'[h] = hPc[h]
    BY <1>2, <1>3 DEF Begun, Hooks
  <1>5. \A h \in Hooks : hPc'[h] = "runs" => h = g
    BY <1>1, <1>2 DEF Begun, Busy, HookInv
  <1>6. EarlierEnded /\ Len(todo) = 0
    BY <1>1 DEF OrderInv
  <1>7. EarlierEnded' /\ OneRuns'
    BY <1>4, <1>5, <1>6 DEF EarlierEnded, OneRuns
  <1>8. TodoConsecutive' /\ StartedBefore'
    BY <1>1, <1>6 DEF TodoConsecutive, StartedBefore
  <1>9. QED
    BY <1>7, <1>8 DEF OrderInv

\* A hook that returns makes room for the next.
LEMMA OrderReturned ==
  ASSUME HookInv, OrderInv, NEW h \in Hooks, HookReturns(h)
  PROVE  OrderInv'
  <1>1. /\ hPc' = [hPc EXCEPT ![h] = "ended"] /\ hPc[h] = "runs"
        /\ UNCHANGED <<parallel, todo>>
    BY DEF HookReturns, flagVars
  <1>2. \A g \in Hooks : hPc'[g] = IF g = h THEN "ended" ELSE hPc[g]
    BY <1>1 DEF HookInv
  <1>3. ~parallel' => EarlierEnded' /\ OneRuns'
    BY <1>1, <1>2 DEF OrderInv, EarlierEnded, OneRuns, Hooks
  <1>4. ~parallel' => TodoConsecutive' /\ StartedBefore'
    BY <1>1, <1>2 DEF OrderInv, TodoConsecutive, StartedBefore, Hooks
  <1>5. QED
    BY <1>3, <1>4 DEF OrderInv

\* Every step keeps the order.
LEMMA OrderStep ==
  ASSUME SignalInv, SignalInv', HookInv, Fresh, OrderInv, [Next]_vars
  PROVE  OrderInv'
  <1>1. CASE Aside
    BY <1>1, AsideKeeps
       DEF OrderInv, EarlierEnded, TodoConsecutive, StartedBefore, OneRuns
  <1>2. ASSUME NEW c \in Callers, Shutdown(c) \/ ShutdownStep(c)
        PROVE  OrderInv'
    <2>1. CASE AllHooks(c)
      BY <2>1 DEF AllHooks, flagVars, OrderInv
    <2>2. CASE NextHook(c)
      BY <2>2, OrderNextPlain, OrderNextNamed
    <2>3. CASE \/ Shutdown(c) \/ executeHooks(c)
               \/ Completed(c) \/ TimesOut(c)
      BY <2>3, OrderShutdown, OrderSnapshot
    <2>4. QED
      BY <1>2, <2>1, <2>2, <2>3 DEF ShutdownStep
  <1>3. ASSUME NEW h \in Hooks, HookReturns(h)
        PROVE  OrderInv'
    BY <1>3, OrderReturned
  <1>4. QED
    BY <1>1, <1>2, <1>3, NextSplit

LEMMA OrderStart ==
  ASSUME Init
  PROVE  OrderInv
  <1>1. todo = <<>> /\ Len(todo) = 0 /\ \A h \in Hooks : hPc[h] = "none"
    BY DEF Init
  <1>2. QED
    BY <1>1 DEF OrderInv, EarlierEnded, TodoConsecutive, StartedBefore,
                OneRuns, Hooks

-----------------------------------------------------------------------------
\* What Shutdown owes: every hook that was registered when it began and not
\* removed since is still registered until the copy is taken, and then has
\* begun or is left in the copy; nothing is left, or runs, once it returned
\* without a timeout.
Covered(h) ==
  \/ hPc[h] # "none" \/ h \in todoNamed
  \/ \E i \in 1 .. Len(todo) : todo[i] = h
OwedInv ==
  /\ owed \subseteq Hooks
  /\ \A c \in Callers :
       /\ cPc[c] = "snapshot" => owed \subseteq Registered
       /\ cPc[c] \in {"hooks", "returned"} => \A h \in owed : Covered(h)
       /\ cPc[c] = "returned" /\ ~timedOut => HooksDone

\* What is registered is a hook.
LEMMA RegisteredAreHooks ==
  ASSUME HookInv
  PROVE  Registered \subseteq Hooks
  BY ShutdownAssumption DEF HookInv, Registered, Hooks

\* What is registered when the flag is set is owed a run, until it is in the copy,
\* has begun or was removed: the flag, a hook that returns, and the end of a call
\* keep that.
LEMMA OwedShutdown ==
  ASSUME HookInv, OwedInv, NEW c \in Callers, Shutdown(c)
  PROVE  OwedInv'
  <1>1. /\ UNCHANGED <<hPc, todo, todoNamed, timedOut, hooks, namedHooks>>
        /\ cPc[c] = "ready"
        /\ owed' = IF shuttingDown THEN owed ELSE Registered
        /\ cPc' = [cPc EXCEPT ![c] = IF shuttingDown THEN "refused"
                                                     ELSE "snapshot"]
    BY DEF Shutdown, hookVars, regVars
  <1>2. Registered' = Registered
    BY <1>1 DEF Registered
  <1>3. CASE shuttingDown
    <2>1. /\ owed' = owed
          /\ \A d \in Callers :
               cPc'[d] \in {"snapshot", "hooks", "returned"} => cPc'[d] = cPc[d]
      BY <1>1, <1>3 DEF HookInv
    <2>2. QED
      BY <1>1, <1>2, <2>1 DEF OwedInv, Covered, HooksDone, Busy
  <1>4. CASE ~shuttingDown
    <2>1. \A d \in Callers : cPc[d] \notin {"snapshot", "hooks", "returned"}
      BY <1>4 DEF HookInv, LetIn
    <2>2. \A d \in Callers : cPc'[d] \notin {"hooks", "returned"}
      BY <2>1, <1>1, <1>4 DEF HookInv
    <2>3. owed' = Registered' /\ owed' \subseteq Hooks
      BY <1>1, <1>2, <1>4, RegisteredAreHooks
    <2>4. QED
      BY <2>2, <2>3 DEF OwedInv
  <1>5. QED
    BY <1>3, <1>4

\* The copy holds everything that is registered.
LEMMA OwedSnapshot ==
  ASSUME HookInv, OwedInv, NEW c \in Callers, executeHooks(c)
  PROVE  OwedInv'
  <1>1. /\ cPc[c] = "snapshot" /\ cPc' = [cPc EXCEPT ![c] = "hooks"]
        /\ todo' = [i \in 1 .. hooks |-> i] /\ todoNamed' = namedHooks
        /\ UNCHANGED <<hPc, timedOut, hooks, namedHooks, owed>>
    BY DEF executeHooks, regVars, flagVars
  <1>2. \A d \in Callers : d # c => cPc[d] \notin {"snapshot", "hooks", "returned"}
    BY <1>1 DEF HookInv, LetIn
  <1>3. owed \subseteq Registered /\ hooks \in Nat
    BY <1>1 DEF OwedInv, HookInv
  <1>4. Len(todo') = hooks /\ \A i \in 1 .. hooks : todo'[i] = i
    BY <1>1, <1>3
  <1>5. \A h \in owed' : Covered(h)'
    BY <1>1, <1>3, <1>4 DEF Covered, Registered
  <1>6. \A d \in Callers : cPc'[d] \notin {"snapshot", "returned"}
    BY <1>1, <1>2 DEF HookInv
  <1>7. QED
    BY <1>1, <1>5, <1>6 DEF OwedInv

\* A hook taken from the copy has begun.
LEMMA OwedBegin ==
  ASSUME HookInv, OwedInv, NEW c \in Callers, NextHook(c) \/ AllHooks(c)
  PROVE  OwedInv'
  <1>1. cPc[c] = "hooks" /\ UNCHANGED <<cPc, timedOut, hooks, namedHooks, owed>>
    BY DEF NextHook, AllHooks, regVars, flagVars
  <1>2. \A d \in Callers : cPc'[d] \notin {"snapshot", "returned"}
    BY <1>1 DEF HookInv, LetIn
  <1>3. owed \subseteq Hooks /\ \A h \in owed : Covered(h)
    BY <1>1 DEF OwedInv
  <1>4. \A h \in owed : Covered(h)'
    <2> SUFFICES ASSUME NEW h \in owed
                 PROVE  Covered(h)'
      OBVIOUS
    <2>0. h \in Hooks /\ Covered(h)
      BY <1>3
    <2>1. CASE NextHook(c) /\ todo # <<>>
      <3>1. /\ hPc' = Begun({Head(todo)}) /\ todo' = Tail(todo)
            /\ todoNamed' = todoNamed
        BY <2>1 DEF NextHook
      <3>2. /\ Head(todo) = todo[1] /\ Len(todo) \in Nat /\ Len(todo) >= 1
            /\ Len(Tail(todo)) = Len(todo) - 1
            /\ \A i \in 1 .. Len(todo) - 1 : Tail(todo)[i] = todo[i + 1]
        BY <2>1, TailShape DEF HookInv
      <3>3. CASE hPc[h] # "none" \/ h = todo[1]
        BY <3>1, <3>2, <3>3, <2>0 DEF Covered, Begun
      <3>4. CASE h \in todoNamed
        BY <3>1, <3>4 DEF Covered
      <3>5. ASSUME NEW i \in 1 .. Len(todo), todo[i] = h, i # 1
            PROVE  Covered(h)'
        <4>1. i - 1 \in 1 .. Len(todo) - 1 /\ (i - 1) + 1 = i
          BY <3>5, <3>2
        <4>2. todo'[i - 1] = h /\ i - 1 \in 1 .. Len(todo')
          BY <4>1, <3>1, <3>2, <3>5
        <4>3. QED
          BY <4>2 DEF Covered
      <3>6. QED
        BY <2>0, <3>3, <3>4, <3>5 DEF Covered
    <2>2. CASE NextHook(c) /\ todo = <<>>
      <3>1. PICK g \in todoNamed :
              hPc' = Begun({g}) /\ todoNamed' = todoNamed \ {g}
        BY <2>2 DEF NextHook
      <3>2. todo' = todo
        BY <2>2 DEF NextHook
      <3>3. QED
        BY <2>0, <3>1, <3>2 DEF Covered, Begun
    <2>3. CASE AllHooks(c)
      <3>1. hPc' = Begun({todo[i] : i \in DOMAIN todo} \cup todoNamed)
        BY <2>3 DEF AllHooks
      <3>2. DOMAIN todo = 1 .. Len(todo)
        BY DEF HookInv
      <3>3. hPc'[h] # "none"
        BY <2>0, <3>1, <3>2 DEF Covered, Begun
      <3>4. QED
        BY <3>3 DEF Covered
    <2>4. QED
      BY <2>1, <2>2, <2>3
  <1>5. QED
    BY <1>1, <1>2, <1>3, <1>4 DEF OwedInv

LEMMA OwedReturned ==
  ASSUME HookInv, OwedInv, NEW h \in Hooks, HookReturns(h)
  PROVE  OwedInv'
  <1>1. /\ hPc' = [hPc EXCEPT ![h] = "ended"] /\ hPc[h] = "runs"
        /\ UNCHANGED <<cPc, todo, todoNamed, timedOut, hooks, namedHooks, owed>>
    BY DEF HookReturns, flagVars, regVars
  <1>2. \A g \in Hooks : hPc'[g] = IF g = h THEN "ended" ELSE hPc[g]
    BY <1>1 DEF HookInv
  <1>3. Registered' = Registered
    BY <1>1 DEF Registered
  <1>4. owed \subseteq Hooks
    BY DEF OwedInv
  <1>5. \A g \in owed : Covered(g) => Covered(g)'
    BY <1>1, <1>2, <1>4 DEF Covered
  <1>6. HooksDone => HooksDone'
    BY <1>1, <1>2 DEF HooksDone, Busy
  <1>7. QED
    BY <1>1, <1>3, <1>5, <1>6 DEF OwedInv

LEMMA OwedFinish ==
  ASSUME HookInv, OwedInv, NEW c \in Callers, Completed(c) \/ TimesOut(c)
  PROVE  OwedInv'
  <1>1. /\ cPc[c] = "hooks" /\ cPc' = [cPc EXCEPT ![c] = "returned"]
        /\ UNCHANGED <<hPc, todo, todoNamed, hooks, namedHooks, owed>>
        /\ HooksDone \/ timedOut' = TRUE
    BY DEF Completed, TimesOut, hookVars, regVars, flagVars
  <1>2. \A d \in Callers : d # c => cPc[d] \notin {"snapshot", "hooks", "returned"}
    BY <1>1 DEF HookInv, LetIn
  <1>3. \A d \in Callers : d # c => cPc'[d] \notin {"snapshot", "hooks", "returned"}
    BY <1>1, <1>2 DEF HookInv
  <1>4. cPc'[c] = "returned" /\ \A h \in owed : Covered(h)
    BY <1>1 DEF OwedInv, HookInv
  <1>5. QED
    BY <1>1, <1>3, <1>4 DEF OwedInv, Covered, HooksDone, Busy

\* Registering a hook, or removing one, while a Shutdown waits to copy them.
LEMMA OwedAside ==
  ASSUME SignalInv, SignalInv', HookInv, Fresh, OwedInv, Aside
  PROVE  OwedInv'
  <1>1. /\ UNCHANGED <<hPc, todo, todoNamed, timedOut>>
        /\ \A c \in Callers :
             cPc'[c] \in {"snapshot", "hooks", "returned"} => cPc'[c] = cPc[c]
    BY AsideKeeps
  <1>2. /\ owed' \subseteq owed
        /\ owed \subseteq Registered => owed' \subseteq Registered'
    <2>1. CASE AddHook
      BY <2>1 DEF AddHook, flagVars, Registered, HookInv
    <2>2. ASSUME NEW h \in Named, AddNamedHook(h) \/ RemoveNamedHook(h)
          PROVE  /\ owed' \subseteq owed
                 /\ owed \subseteq Registered => owed' \subseteq Registered'
      BY <2>2 DEF AddNamedHook, RemoveNamedHook, flagVars, Registered
    <2>3. CASE ~Register
      <3>1. UNCHANGED <<owed, hooks, namedHooks>>
        BY <2>3 DEF Aside, Start, Stop, Raise, ListenerTakes, ListenerEnds,
               SecondSignal, GraceOver, Exits, ForceShutdown, ForceExit,
               Timeout, vars, regVars, flagVars
      <3>2. QED
        BY <3>1 DEF Registered
    <2>4. QED
      BY <2>1, <2>2, <2>3 DEF Register
  <1>3. HooksDone' = HooksDone /\ \A h : Covered(h)' = Covered(h)
    BY <1>1 DEF HooksDone, Busy, Covered
  <1>4. QED
    BY <1>1, <1>2, <1>3 DEF OwedInv

\* So does every step.
LEMMA OwedStep ==
  ASSUME SignalInv, SignalInv', HookInv, Fresh, OwedInv, [Next]_vars
  PROVE  OwedInv'
  <1>1. ASSUME NEW c \in Callers, Shutdown(c) \/ ShutdownStep(c)
        PROVE  OwedInv'
    BY <1>1, OwedShutdown, OwedSnapshot, OwedBegin, OwedFinish DEF ShutdownStep
  <1>2. ASSUME NEW h \in Hooks, HookReturns(h)
        PROVE  OwedInv'
    BY <1>2, OwedReturned
  <1>3. QED
    BY <1>1, <1>2, OwedAside, NextSplit

-----------------------------------------------------------------------------
\* What the invariants above leave open of the types.
FlagInv ==
  /\ parallel \in BOOLEAN /\ running \in BOOLEAN /\ shuttingDown \in BOOLEAN
  /\ cancelled \in BOOLEAN /\ chanClosed \in BOOLEAN
  /\ deadline \in BOOLEAN /\ timedOut \in BOOLEAN
RestInv ==
  /\ raised <= MaxSignals
  /\ forcing \subseteq {"signal", "application"}
  /\ exited \in {"no", "zero", "one", "panic"} /\ listening \in Nat

\* The flags stay Booleans, and the rest keeps its types.
LEMMA FlagStep ==
  ASSUME FlagInv, [Next]_vars
  PROVE  FlagInv'
  <1> USE DEF FlagInv, sigVars, hookVars, flagVars
  <1>1. CASE Register \/ Start \/ Stop
    BY <1>1, Zenon DEF Register, AddHook, AddNamedHook, RemoveNamedHook, Start, Stop
  <1>2. CASE Raise \/ ListenerTakes \/ ListenerEnds
    BY <1>2, Zenon DEF Raise, ListenerTakes, ListenerEnds
  <1>3. ASSUME NEW n \in Signals, SecondSignal(n) \/ GraceOver(n) \/ Exits(n)
        PROVE  FlagInv'
    BY <1>3, Zenon DEF SecondSignal, GraceOver, Exits, ForceBy
  <1>4. CASE ForceShutdown \/ ForceExit
    BY <1>4, Zenon DEF ForceShutdown, ForceExit, ForceBy
  <1>5. ASSUME NEW c \in Callers, Shutdown(c) \/ ShutdownStep(c) \/ Timeout(c)
        PROVE  FlagInv'
    BY <1>5, Zenon DEF Shutdown, ShutdownStep, Timeout, executeHooks, NextHook,
                       AllHooks, Completed, TimesOut
  <1>6. CASE (\E h \in Hooks : HookReturns(h)) \/ UNCHANGED vars
    BY <1>6, Zenon DEF HookReturns, vars
  <1>7. QED
    BY <1>1, <1>2, <1>3, <1>4, <1>5, <1>6 DEF Next

LEMMA RestStep ==
  ASSUME SignalInv, RestInv, [Next]_vars
  PROVE  RestInv'
  <1> USE DEF RestInv, sigVars, hookVars, flagVars
  <1>1. CASE Register \/ Start \/ Stop
    <2>1. raised' = raised /\ forcing' = forcing
      BY <1>1, Zenon
         DEF Register, AddHook, AddNamedHook, RemoveNamedHook, Start, Stop
    <2>2. exited' \in {exited, "panic"}
      BY <1>1, Zenon
         DEF Register, AddHook, AddNamedHook, RemoveNamedHook, Start, Stop
    <2>3. listening' = listening \/ listening' = listening + 1
      BY <1>1, Zenon
         DEF Register, AddHook, AddNamedHook, RemoveNamedHook, Start, Stop
    <2>4. listening' \in Nat
      BY <2>3
    <2>5. QED
      BY <2>1, <2>2, <2>4
  <1>2. CASE Raise
    <2>1. MaxSignals \in Nat /\ raised \in Nat
      BY ShutdownAssumption DEF SignalInv
    <2>2. /\ raised < MaxSignals /\ raised' = raised + 1
          /\ exited' \in {exited, "panic"} /\ UNCHANGED <<forcing, listening>>
      BY <1>2 DEF Raise
    <2>3. QED
      BY <2>1, <2>2
  <1>3. CASE ListenerTakes \/ ListenerEnds
    <2>1. UNCHANGED <<raised, forcing, exited>>
      BY <1>3 DEF ListenerTakes, ListenerEnds
    <2>2. \/ listening' = listening
          \/ listening > 0 /\ listening' = listening - 1
      BY <1>3 DEF ListenerTakes, ListenerEnds
    <2>3. listening' \in Nat
      BY <2>2
    <2>4. QED
      BY <2>1, <2>3
  <1>4. ASSUME NEW n \in Signals, SecondSignal(n) \/ GraceOver(n) \/ Exits(n)
        PROVE  RestInv'
    BY <1>4 DEF SecondSignal, GraceOver, Exits, ForceBy
  <1>5. CASE ForceShutdown \/ ForceExit
    BY <1>5 DEF ForceShutdown, ForceExit, ForceBy
  <1>6. ASSUME NEW c \in Callers, Shutdown(c) \/ ShutdownStep(c) \/ Timeout(c)
        PROVE  RestInv'
    BY <1>6 DEF Shutdown, ShutdownStep, Timeout, executeHooks, NextHook,
                AllHooks, Completed, TimesOut
  <1>7. CASE (\E h \in Hooks : HookReturns(h)) \/ UNCHANGED vars
    BY <1>7 DEF HookReturns, vars
  <1>8. QED
    BY <1>1, <1>2, <1>3, <1>4, <1>5, <1>6, <1>7 DEF Next

-----------------------------------------------------------------------------
\* The inductive invariant of the manager.
ManagerInv ==
  /\ SignalInv /\ HookInv /\ Fresh /\ OrderInv /\ OwedInv
  /\ FlagInv /\ RestInv

\* The invariant holds at first and is kept.
LEMMA ManagerStart ==
  ASSUME Init
  PROVE  ManagerInv
  <1>1. OwedInv
    BY DEF Init, OwedInv
  <1>2. RestInv
    BY ShutdownAssumption DEF Init, RestInv
  <1>3. FlagInv
    BY Zenon DEF Init, FlagInv
  <1>4. QED
    BY <1>1, <1>2, <1>3, HookStart, OrderStart DEF ManagerInv

LEMMA ManagerStep ==
  ASSUME ManagerInv, [Next]_vars
  PROVE  ManagerInv'
  BY SignalStep, HookStep, FreshStep, OrderStep, OwedStep, FlagStep, RestStep
     DEF ManagerInv

\* Every variable of the manager keeps its type: signals taken were raised,
\* and only registered kinds of hooks are left to start.
THEOREM TypeCorrect == Spec => []TypeOK
  <1>1. ManagerInv => TypeOK
    <2> SUFFICES ASSUME ManagerInv
                 PROVE  TypeOK
      OBVIOUS
    <2>1. {running, shuttingDown, cancelled, chanClosed, deadline,
           timedOut} \subseteq BOOLEAN
      BY Zenon DEF ManagerInv, FlagInv
    <2>2. parallel \in BOOLEAN
      BY DEF ManagerInv, FlagInv
    <2>3. raised \in 0 .. MaxSignals /\ taken \in 0 .. raised
      BY ShutdownAssumption DEF ManagerInv, SignalInv, RestInv
    <2>4. QED
      BY <2>1, <2>2, <2>3
         DEF ManagerInv, SignalInv, HookInv, OwedInv, RestInv, TypeOK
  <1>2. QED
    BY <1>1, ManagerStart, ManagerStep, PTL DEF Spec

\* Without ParallelHooks one hook runs at a time and the hooks of AddHook run
\* in the order they were added (shutdown.go:262-288, 291-340), however many
\* are added while they run.
THEOREM HooksInOrder == Spec => []SequentialOrder
  <1>1. ManagerInv => SequentialOrder
    <2> SUFFICES ASSUME ManagerInv, ~parallel
                 PROVE  /\ Cardinality({h \in Hooks : hPc[h] = "runs"}) <= 1
                        /\ \A i, j \in 1 .. hooks :
                             i < j /\ hPc[j] # "none" => hPc[i] = "ended"
      BY DEF SequentialOrder
    <2> DEFINE R == {h \in Hooks : hPc[h] = "runs"}
    <2>1. EarlierEnded /\ OneRuns /\ hooks \in 0 .. MaxHooks
      BY DEF ManagerInv, OrderInv, HookInv
    <2>2. CASE R = {}
      BY <2>1, <2>2, FS_EmptySet, ShutdownAssumption DEF EarlierEnded
    <2>3. ASSUME NEW g \in R
          PROVE  Cardinality(R) = 1
      <3>1. R = {g}
        BY <2>1 DEF OneRuns
      <3>2. QED
        BY <3>1, FS_Singleton
    <2>4. QED
      BY <2>1, <2>2, <2>3, ShutdownAssumption DEF EarlierEnded
  <1>2. QED
    BY <1>1, ManagerStart, ManagerStep, PTL DEF Spec

\* A Shutdown that returned without a timeout has run to its end every hook
\* that was registered when the flag was set and not removed since, although
\* the hooks are copied later (shutdown.go:171, 263-277).
THEOREM AllHooksRun == Spec => []NoHookLeftOut
  <1>1. ManagerInv => NoHookLeftOut
    <2> SUFFICES ASSUME ManagerInv, NEW c \in Callers, cPc[c] = "returned",
                        ~timedOut, NEW h \in owed
                 PROVE  hPc[h] = "ended"
      BY DEF NoHookLeftOut
    <2>1. HooksDone /\ Covered(h) /\ h \in Hooks
      BY DEF ManagerInv, OwedInv
    <2>2. hPc[h] # "none"
      BY <2>1 DEF HooksDone, Covered
    <2>3. QED
      BY <2>1, <2>2 DEF HooksDone, Busy, ManagerInv, HookInv
  <1>2. QED
    BY <1>1, ManagerStart, ManagerStep, PTL DEF Spec
=============================================================================
