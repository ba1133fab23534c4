-------------------------- MODULE ShutdownManager --------------------------
(***************************************************************************)
(* The shutdown manager of pkg/graceful/shutdown.go: signals arrive, the   *)
(* listener starts a goroutine that runs the hooks and exits the process   *)
(* and another that waits for a second signal, and the application calls   *)
(* Shutdown, ForceShutdown, Stop and the functions that register hooks.    *)
(*                                                                         *)
(* ParallelHooks is chosen in the initial state.  A context with a timeout *)
(* is one that may be done at any moment after it was made; a hook may     *)
(* ignore it and takes as long as it likes.                                *)
(***************************************************************************)
EXTENDS Integers, Sequences, FiniteSets

CONSTANTS
  MaxHooks,     \* how many hooks are given to AddHook
  Named,        \* hooks given to AddNamedHook
  NameOf,       \* and the name of each
  Direct,       \* goroutines of the application that call Shutdown
  MaxSignals,   \* how many signals the process is sent
  MayStop,      \* the application may call Stop
  MayForce      \* the application may call ForceShutdown

ASSUME ShutdownAssumption ==
  /\ MaxHooks \in Nat /\ IsFiniteSet(Named) /\ Named \cap Nat = {}
  /\ MaxSignals \in Nat /\ MayStop \in BOOLEAN /\ MayForce \in BOOLEAN
  /\ Direct \cap Nat = {}

Signals == 1 .. MaxSignals
Callers == Direct \cup Signals
Hooks == 1 .. MaxHooks \cup Named

VARIABLES
  parallel,       \* config.ParallelHooks
  running, shuttingDown,
  cancelled,      \* s.ctx is done
  pending,        \* signals in s.signalChan, which holds one
  chanClosed,
  listening,      \* how many signalListeners run
  raised, taken,  \* signals sent to the process, and taken by the listener
  cPc,            \* Shutdown calls: of the application, of each signal taken
  gPc,            \* for each signal taken, who waits for the next one
  forcing,        \* who called ForceShutdown; the timer of each call runs
  hooks,          \* how many hooks AddHook registered: they are 1 .. hooks
  namedHooks,     \* the named hooks that are registered
  todo, todoNamed,     \* what executeHooks has yet to start
  hPc,            \* each hook
  deadline,       \* the context of the running Shutdown is done
  timedOut,       \* ShutdownStats.TimedOut
  exited,         \* the process ended: "no", by os.Exit, "zero" or "one", or "panic"
  owed            \* ghost: hooks registered when shutting down began

sigVars  == <<pending, chanClosed, listening, raised, taken, gPc>>
hookVars == <<todo, todoNamed, hPc, deadline, timedOut>>
regVars  == <<hooks, namedHooks>>
flagVars == <<parallel, running, shuttingDown, cancelled, forcing, exited, owed>>
vars == <<sigVars, hookVars, regVars, flagVars, cPc>>

Init ==
  /\ parallel \in BOOLEAN
  /\ running = FALSE /\ shuttingDown = FALSE /\ cancelled = FALSE
  /\ pending = 0 /\ chanClosed = FALSE /\ listening = 0
  /\ raised = 0 /\ taken = 0
  /\ cPc = [c \in Callers |-> IF c \in Direct THEN "ready" ELSE "none"]
  /\ gPc = [n \in Signals |-> "none"]
  /\ forcing = {} /\ owed = {}
  /\ hooks = 0 /\ namedHooks = {}
  /\ todo = <<>> /\ todoNamed = {}
  /\ hPc = [h \in Hooks |-> "none"]
  /\ deadline = FALSE /\ timedOut = FALSE
  /\ exited = "no"

Alive == exited = "no"

-----------------------------------------------------------------------------
(* Registration, Start, Stop *)

AddHook ==
  /\ Alive /\ hooks < MaxHooks
  /\ hooks' = hooks + 1
  /\ UNCHANGED <<sigVars, hookVars, namedHooks, flagVars, cPc>>

\* The hook that had the name is no longer registered.
AddNamedHook(h) ==
  LET replaced == {g \in Named : g # h /\ NameOf[g] = NameOf[h]} IN
    /\ Alive /\ h \in Named
    /\ namedHooks' = (namedHooks \ replaced) \cup {h}
    /\ owed' = owed \ replaced
    /\ UNCHANGED <<sigVars, hookVars, hooks, parallel, running, shuttingDown,
                   cancelled, forcing, exited, cPc>>

RemoveNamedHook(h) ==
  /\ Alive /\ h \in namedHooks
  /\ namedHooks' = namedHooks \ {h}
  /\ owed' = owed \ {h}
  /\ UNCHANGED <<sigVars, hookVars, hooks, parallel, running, shuttingDown,
                 cancelled, forcing, exited, cPc>>

Start ==
  /\ Alive /\ ~running
  /\ running' = TRUE /\ listening' = listening + 1
  /\ UNCHANGED <<parallel, shuttingDown, cancelled, forcing, exited, owed,
                 pending, chanClosed, raised, taken, gPc, hookVars, regVars,
                 cPc>>

\* After a second Start the channel is closed a second time: a panic.
Stop ==
  /\ Alive /\ MayStop /\ running
  /\ running' = FALSE /\ chanClosed' = TRUE
  /\ cancelled' = TRUE
  /\ exited' = IF chanClosed THEN "panic" ELSE exited
  /\ UNCHANGED <<parallel, shuttingDown, forcing, owed, pending,
                 listening, raised, taken, gPc, hookVars, regVars, cPc>>

-----------------------------------------------------------------------------
(* Signals *)

\* The runtime drops a signal the channel has no room for; on the channel that
\* Stop closed and a second Start registered again its send panics.
Raise ==
  /\ Alive /\ running /\ raised < MaxSignals
  /\ raised' = raised + 1
  /\ pending' = IF chanClosed THEN pending ELSE 1
  /\ exited' = IF chanClosed THEN "panic" ELSE exited
  /\ UNCHANGED <<parallel, running, shuttingDown, cancelled, forcing, owed,
                 chanClosed, listening, taken, gPc, hookVars, regVars, cPc>>

\* signalListener: one goroutine shuts down and exits, another waits.
ListenerTakesAny ==
  /\ Alive /\ listening > 0 /\ (pending = 1 \/ chanClosed)
  /\ pending' = 0
  /\ taken' = taken + 1
  /\ cPc' = [cPc EXCEPT ![taken'] = "ready"]
  /\ gPc' = [gPc EXCEPT ![taken'] = "wait"]
  /\ UNCHANGED <<chanClosed, listening, raised, hookVars, regVars, flagVars>>
ListenerTakes ==
  /\ Alive /\ listening > 0 /\ pending = 1
  /\ pending' = 0
  /\ taken' = taken + 1
  /\ cPc' = [cPc EXCEPT ![taken'] = "ready"]
  /\ gPc' = [gPc EXCEPT ![taken'] = "wait"]
  /\ UNCHANGED <<chanClosed, listening, raised, hookVars, regVars, flagVars>>

ListenerEnds ==
  /\ Alive /\ listening > 0
  /\ cancelled \/ (chanClosed /\ pending = 0)
  /\ listening' = listening - 1
  /\ UNCHANGED <<pending, chanClosed, raised, taken, gPc, hookVars, regVars,
                 flagVars, cPc>>

ForceBy(who) == cancelled' = TRUE /\ forcing' = forcing \cup {who}

\* A closed channel is received from like a second signal.
SecondSignal(n) ==
  /\ Alive /\ gPc[n] = "wait"
  /\ pending = 1 \/ chanClosed
  /\ pending' = 0
  /\ ForceBy("signal")
  /\ gPc' = [gPc EXCEPT ![n] = "done"]
  /\ UNCHANGED <<parallel, running, shuttingDown, exited, owed, chanClosed, listening,
                 raised, taken, hookVars, regVars, cPc>>

GraceForces(n) ==
  /\ Alive /\ gPc[n] = "wait"
  /\ ForceBy("signal")
  /\ gPc' = [gPc EXCEPT ![n] = "done"]
  /\ UNCHANGED <<parallel, running, shuttingDown, exited, owed, pending, chanClosed,
                 listening, raised, taken, hookVars, regVars, cPc>>
GraceOver(n) ==
  /\ Alive /\ gPc[n] = "wait"
  /\ gPc' = [gPc EXCEPT ![n] = "done"]
  /\ UNCHANGED <<pending, chanClosed, listening, raised, taken, hookVars,
                 regVars, flagVars, cPc>>

ForceShutdown ==
  /\ Alive /\ MayForce /\ "application" \notin forcing
  /\ ForceBy("application")
  /\ UNCHANGED <<parallel, running, shuttingDown, exited, owed, sigVars, hookVars,
                 regVars, cPc>>

ForceExit ==
  /\ Alive /\ forcing # {}
  /\ exited' = "one"
  /\ UNCHANGED <<parallel, running, shuttingDown, cancelled, forcing, owed,
                 sigVars, hookVars, regVars, cPc>>

-----------------------------------------------------------------------------
(* Shutdown *)

Registered == 1 .. hooks \cup namedHooks

ShutdownAgain(c) ==
  /\ Alive /\ cPc[c] = "ready"
  /\ cPc' = [cPc EXCEPT ![c] = "snapshot"]
  /\ shuttingDown' = TRUE
  /\ owed' = IF shuttingDown THEN owed ELSE Registered
  /\ UNCHANGED <<parallel, running, cancelled, forcing, exited, sigVars, hookVars,
                 regVars>>
Shutdown(c) ==
  /\ Alive /\ cPc[c] = "ready"
  /\ cPc' = [cPc EXCEPT ![c] = IF shuttingDown THEN "refused" ELSE "snapshot"]
  /\ shuttingDown' = TRUE
  /\ owed' = IF shuttingDown THEN owed ELSE Registered
  /\ UNCHANGED <<parallel, running, cancelled, forcing, exited, sigVars, hookVars,
                 regVars>>

\* executeHooks: the registered hooks, named ones last and in any order.
HooksLifo(c) ==
  /\ Alive /\ cPc[c] = "snapshot"
  /\ cPc' = [cPc EXCEPT ![c] = "hooks"]
  /\ todo' = [i \in 1 .. hooks |-> hooks - i + 1] /\ todoNamed' = namedHooks
  /\ UNCHANGED <<hPc, deadline, timedOut, sigVars, regVars, flagVars>>
executeHooks(c) ==
  /\ Alive /\ cPc[c] = "snapshot"
  /\ cPc' = [cPc EXCEPT ![c] = "hooks"]
  /\ todo' = [i \in 1 .. hooks |-> i] /\ todoNamed' = namedHooks
  /\ UNCHANGED <<hPc, deadline, timedOut, sigVars, regVars, flagVars>>

Timeout(c) ==
  /\ Alive /\ cPc[c] \in {"snapshot", "hooks"} /\ ~deadline
  /\ deadline' = TRUE
  /\ UNCHANGED <<todo, todoNamed, hPc, timedOut, sigVars, regVars, flagVars,
                 cPc>>

Busy == \E h \in Hooks : hPc[h] = "runs"
Begun(set) == [h \in Hooks |-> IF h \in set THEN "runs" ELSE hPc[h]]

\* executeHooksSequential: the context is looked at before each hook.
NextHook(c) ==
  /\ Alive /\ cPc[c] = "hooks" /\ ~parallel /\ ~Busy /\ ~deadline
  /\ \/ /\ todo # <<>>
        /\ hPc' = Begun({Head(todo)})
        /\ todo' = Tail(todo)
        /\ UNCHANGED todoNamed
     \/ /\ todo = <<>>
        /\ \E h \in todoNamed :
             hPc' = Begun({h}) /\ todoNamed' = todoNamed \ {h}
        /\ UNCHANGED todo
  /\ UNCHANGED <<deadline, timedOut, sigVars, regVars, flagVars, cPc>>

\* A hook returns, with an error or not, or panics and is recovered: either
\* way the next one runs, also without ContinueOnError, since the return that
\* guards leaves only the function literal around one hook.
HookReturns(h) ==
  /\ Alive /\ hPc[h] = "runs"
  /\ hPc' = [hPc EXCEPT ![h] = "ended"]
  /\ UNCHANGED <<todo, todoNamed, deadline, timedOut, sigVars, regVars,
                 flagVars, cPc>>

\* executeHooksParallel
AllHooks(c) ==
  /\ Alive /\ cPc[c] = "hooks" /\ parallel
  /\ todo # <<>> \/ todoNamed # {}
  /\ hPc' = Begun({todo[i] : i \in DOMAIN todo} \cup todoNamed)
  /\ todo' = <<>> /\ todoNamed' = {}
  /\ UNCHANGED <<deadline, timedOut, sigVars, regVars, flagVars, cPc>>

AnyHookDone == todo = <<>> /\ todoNamed = {}
HooksDone == todo = <<>> /\ todoNamed = {} /\ ~Busy

Completed(c) ==
  /\ Alive /\ cPc[c] = "hooks" /\ HooksDone
  /\ cPc' = [cPc EXCEPT ![c] = "returned"]
  /\ UNCHANGED <<sigVars, hookVars, regVars, flagVars>>

\* Sequential: before the next hook.  Parallel: in the select, even when the
\* last hook has just returned, unless there was no hook at all.
TimesOut(c) ==
  /\ Alive /\ cPc[c] = "hooks" /\ deadline
  /\ IF parallel
     THEN todo = <<>> /\ todoNamed = {} /\ \E h \in Hooks : hPc[h] # "none"
     ELSE ~Busy /\ (todo # <<>> \/ todoNamed # {})
  /\ timedOut' = TRUE
  /\ cPc' = [cPc EXCEPT ![c] = "returned"]
  /\ UNCHANGED <<todo, todoNamed, hPc, deadline, sigVars, regVars, flagVars>>

\* The goroutine of a signal exits whatever its Shutdown returned.
ExitsOnSuccess(n) ==
  /\ Alive /\ cPc[n] = "returned" /\ ~timedOut
  /\ exited' = "zero"
  /\ UNCHANGED <<parallel, running, shuttingDown, cancelled, forcing, owed,
                 sigVars, hookVars, regVars, cPc>>
Exits(n) ==
  /\ Alive /\ cPc[n] \in {"returned", "refused"}
  /\ exited' = "zero"
  /\ UNCHANGED <<parallel, running, shuttingDown, cancelled, forcing, owed,
                 sigVars, hookVars, regVars, cPc>>

-----------------------------------------------------------------------------
Register ==
  AddHook \/ \E h \in Named : AddNamedHook(h) \/ RemoveNamedHook(h)

ShutdownStep(c) ==
  \/ executeHooks(c) \/ NextHook(c) \/ AllHooks(c)
  \/ Completed(c) \/ TimesOut(c)

Next ==
  \/ Register \/ Start \/ Stop
  \/ Raise \/ ListenerTakes \/ ListenerEnds
  \/ \E n \in Signals : SecondSignal(n) \/ GraceOver(n) \/ Exits(n)
  \/ ForceShutdown \/ ForceExit
  \/ \E c \in Callers : Shutdown(c) \/ ShutdownStep(c) \/ Timeout(c)
  \/ \E h \in Hooks : HookReturns(h)

Spec == Init /\ [][Next]_vars

\* Goroutines that can run do run, timers fire and hooks return: as long as
\* one of these steps can be taken, one of them is.  Nobody has to send a
\* signal or call into the manager.
Progress ==
  \/ ForceExit
  \/ \E n \in Signals : Shutdown(n) \/ Exits(n)
  \/ \E c \in Callers : ShutdownStep(c)
  \/ \E h \in Hooks : HookReturns(h)

FairSpec == Spec /\ WF_vars(Progress)

-----------------------------------------------------------------------------
(* Properties *)

\* The type invariant.
TypeOK ==
  /\ parallel \in BOOLEAN
  /\ {running, shuttingDown, cancelled, chanClosed, deadline,
      timedOut} \subseteq BOOLEAN
  /\ listening \in Nat
  /\ pending \in {0, 1} /\ raised \in 0 .. MaxSignals /\ taken \in 0 .. raised
  /\ cPc \in [Callers -> {"none", "ready", "snapshot", "hooks", "returned",
                           "refused"}]
  /\ gPc \in [Signals -> {"none", "wait", "done"}]
  /\ forcing \subseteq {"signal", "application"}
  /\ hooks \in 0 .. MaxHooks /\ todo \in Seq(1 .. MaxHooks)
  /\ namedHooks \subseteq Named /\ todoNamed \subseteq Named
  /\ hPc \in [Hooks -> {"none", "runs", "ended"}]
  /\ exited \in {"no", "zero", "one", "panic"} /\ owed \subseteq Hooks

\* However many signals arrive and callers race, a hook that was run is never
\* run again (the shuttingDown flag, shutdown.go:167-175).
HookOnce ==
  [][\A h \in Hooks : hPc[h] = "ended" => hPc'[h] = hPc[h]]_vars

\* Without ParallelHooks the hooks of AddHook run one after the other in the
\* order they were added, whatever is added while they run.
SequentialOrder ==
  ~parallel =>
    /\ Cardinality({h \in Hooks : hPc[h] = "runs"}) <= 1
    /\ \A i, j \in 1 .. hooks :
         i < j /\ hPc[j] # "none" => hPc[i] = "ended"

\* A Shutdown that returned without a timeout ran every hook that was
\* registered when it was called and not removed since, to its end.
NoHookLeftOut ==
  (\E c \in Callers : cPc[c] = "returned") /\ ~timedOut
    => \A h \in owed : hPc[h] = "ended"

\* Signals force the process down only after the listener took one, and then
\* by another that it did not take, or because Stop closed the channel.
ForcedBySecondSignal ==
  "signal" \in forcing => taken >= 1 /\ (raised > taken \/ chanClosed)

\* Once the listener took a signal, or somebody forced the shutdown, the
\* process ends, whatever the hooks return and whoever else shuts down.
SignalExits == (taken >= 1 \/ forcing # {}) ~> (exited # "no")

\* The promise of "WaitForHooks: true" of the default configuration, that the
\* process exits 0 only after the hooks ended or the time was up.  It does
\* not hold: see the run shutdown_exit.
ExitWaitsForHooks ==
  exited = "zero" /\ ~timedOut => \A h \in owed : hPc[h] = "ended"
=============================================================================
