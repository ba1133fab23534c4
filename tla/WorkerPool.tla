----------------------------- MODULE WorkerPool -----------------------------
(***************************************************************************)
(* The goroutine pool of pkg/pool/goroutine.go: tasks submitted by as many *)
(* goroutines, a bounded channel, worker goroutines, the monitor that      *)
(* adjusts their number, and calls of Start and Stop.                      *)
(*                                                                         *)
(* p.mu is a sync.RWMutex, which does not nest.  Every critical section is *)
(* one step, but for the monitor's: adjustWorkers holds p.mu and calls     *)
(* addWorker, which locks p.mu, so from there on nobody gets the lock      *)
(* (`stuck').  How long a worker has been idle is left open.  A member of  *)
(* Starts (Stops) is one call of Start (Stop).                             *)
(***************************************************************************)
EXTENDS Integers, Sequences, FiniteSets

CONSTANTS
  Tasks,         \* what is submitted, each once
  Starts, Stops,
  MinWorkers, MaxWorkers, QueueSize,   \* WorkerPoolConfig
  NoTask

ASSUME PoolAssumption ==
  /\ MinWorkers \in Nat /\ MaxWorkers \in Nat
  /\ QueueSize \in Nat \ {0}
  /\ NoTask \notin Tasks
  /\ IsFiniteSet(Tasks) /\ IsFiniteSet(Starts)

VARIABLES
  running,      \* p.running
  cancelled,    \* p.ctx is done; NewWorkerPool makes it, once
  queue,        \* what is in p.taskQueue
  qClosed,      \* p.taskQueue is closed; NewWorkerPool makes it, once
  workers,      \* the keys of p.workers
  told,         \* workers whose stopped flag is set
  activeWorkers,
  wg,           \* the counter of p.wg
  sPc, toAdd,   \* each Start: where, and how many workers it has to add
  tPc,          \* each Stop
  mPc,          \* the monitor each Start launches
  wPc, task,    \* each worker goroutine, and the task it took
  subPc,        \* the Submit of each task
  crashed,      \* a send on the closed channel, or WaitGroup, panicked
  (* what happened so far *)
  executed,     \* how often each task was executed
  orderly       \* no Stop overtook a Start, and no Start followed a Stop

callVars == <<running, cancelled, sPc, toAdd>>
workVars == <<wPc, task, activeWorkers, told, executed>>
vars == <<callVars, workVars, queue, qClosed, workers, wg, tPc, mPc, subPc,
          crashed, orderly>>

\* p.workerID only grows; Start alone adds workers, see adjustWorkers.
Ids == 1 .. (MinWorkers * Cardinality(Starts))
Fresh == {i \in Ids : wPc[i] = "none"}

Init ==
  /\ running = FALSE /\ cancelled = FALSE
  /\ queue = <<>> /\ qClosed = FALSE
  /\ workers = {} /\ told = {} /\ activeWorkers = 0 /\ wg = 0
  /\ sPc = [s \in Starts |-> "idle"] /\ toAdd = [s \in Starts |-> 0]
  /\ tPc = [t \in Stops |-> "idle"]
  /\ mPc = [s \in Starts |-> "none"]
  /\ wPc = [i \in Ids |-> "none"] /\ task = [i \in Ids |-> NoTask]
  /\ subPc = [k \in Tasks |-> "new"]
  /\ crashed = FALSE
  /\ executed = [k \in Tasks |-> 0] /\ orderly = TRUE

StopLetIn(t) == tPc[t] \notin {"idle", "ignored"}

MuFree == ~crashed /\ \A s \in Starts : mPc[s] # "stuck"

WgDone ==
  /\ wg' = wg - 1
  /\ tPc' = [t \in Stops |->
               IF wg = 1 /\ tPc[t] = "blocked" THEN "woken" ELSE tPc[t]]

-----------------------------------------------------------------------------
(* Start and Stop *)

StartOneShort(s) ==
  /\ ~crashed /\ sPc[s] = "idle"
  /\ running' = TRUE
  /\ sPc' = [sPc EXCEPT ![s] = IF running THEN "ignored" ELSE "add"]
  /\ toAdd' = [toAdd EXCEPT ![s] = IF running THEN 0 ELSE MinWorkers - 1]
  /\ orderly' = (orderly /\ (~running => \A t \in Stops : ~StopLetIn(t)))
  /\ UNCHANGED <<cancelled, workVars, queue, qClosed, workers, wg, tPc, mPc,
                 subPc, crashed>>
Start(s) ==
  /\ ~crashed /\ sPc[s] = "idle"
  /\ running' = TRUE
  /\ sPc' = [sPc EXCEPT ![s] = IF running THEN "ignored" ELSE "add"]
  /\ toAdd' = [toAdd EXCEPT ![s] = IF running THEN 0 ELSE MinWorkers]
  /\ orderly' = (orderly /\ (~running => \A t \in Stops : ~StopLetIn(t)))
  /\ UNCHANGED <<cancelled, workVars, queue, qClosed, workers, wg, tPc, mPc,
                 subPc, crashed>>

addWorkerUncounted(s) ==
  /\ MuFree /\ sPc[s] = "add" /\ toAdd[s] > 0
  /\ toAdd' = [toAdd EXCEPT ![s] = @ - 1]
  /\ IF Cardinality(workers) < MaxWorkers
     THEN LET i == CHOOSE i \in Fresh : \A j \in Fresh : i <= j IN
            /\ workers' = workers \cup {i}
            /\ wPc' = [wPc EXCEPT ![i] = "loop"]
            /\ wg' = wg
     ELSE UNCHANGED <<workers, wPc, wg>>
  /\ UNCHANGED <<running, cancelled, sPc, task, activeWorkers, told,
                 executed, queue, qClosed, tPc, mPc, subPc, crashed,
                 orderly>>
addWorker(s) ==
  /\ MuFree /\ sPc[s] = "add" /\ toAdd[s] > 0
  /\ toAdd' = [toAdd EXCEPT ![s] = @ - 1]
  /\ IF Cardinality(workers) < MaxWorkers
     THEN LET i == CHOOSE i \in Fresh : \A j \in Fresh : i <= j IN
            /\ workers' = workers \cup {i}
            /\ wPc' = [wPc EXCEPT ![i] = "loop"]
            /\ wg' = wg + 1
     ELSE UNCHANGED <<workers, wPc, wg>>
  /\ UNCHANGED <<running, cancelled, sPc, task, activeWorkers, told,
                 executed, queue, qClosed, tPc, mPc, subPc, crashed,
                 orderly>>

StartMonitor(s) ==
  /\ ~crashed /\ sPc[s] = "add" /\ toAdd[s] = 0
  /\ sPc' = [sPc EXCEPT ![s] = "done"]
  /\ mPc' = [mPc EXCEPT ![s] = "wait"]
  /\ wg' = wg + 1
  /\ UNCHANGED <<running, cancelled, toAdd, workVars, queue, qClosed,
                 workers, tPc, subPc, crashed, orderly>>

Stop(t) ==
  /\ ~crashed /\ tPc[t] = "idle"
  /\ running' = FALSE
  /\ tPc' = [tPc EXCEPT ![t] = IF running THEN "cancel" ELSE "ignored"]
  /\ orderly' = (orderly /\ \A s \in Starts : sPc[s] # "add")
  /\ UNCHANGED <<cancelled, sPc, toAdd, workVars, queue, qClosed, workers,
                 wg, mPc, subPc, crashed>>

StopNoCancel(t) ==
  /\ ~crashed /\ tPc[t] = "cancel"
  /\ tPc' = [tPc EXCEPT ![t] = "close"]
  /\ UNCHANGED <<callVars, workVars, queue, qClosed, workers, wg,
                 mPc, subPc, crashed, orderly>>
StopCancel(t) ==
  /\ ~crashed /\ tPc[t] = "cancel"
  /\ cancelled' = TRUE
  /\ tPc' = [tPc EXCEPT ![t] = "close"]
  /\ UNCHANGED <<running, sPc, toAdd, workVars, queue, qClosed, workers, wg,
                 mPc, subPc, crashed, orderly>>

\* A second Stop, after a second Start, closes the channel again: a panic.
StopClose(t) ==
  /\ ~crashed /\ tPc[t] = "close"
  /\ crashed' = qClosed
  /\ qClosed' = TRUE
  /\ tPc' = [tPc EXCEPT ![t] = "wait"]
  /\ UNCHANGED <<orderly, callVars, workVars, queue, workers, wg, mPc,
                 subPc>>

StopNoWait(t) ==
  /\ ~crashed /\ tPc[t] = "wait"
  /\ tPc' = [tPc EXCEPT ![t] = "stopped"]
  /\ UNCHANGED <<callVars, workVars, queue, qClosed, workers, wg, mPc, subPc,
                 crashed, orderly>>
StopWait(t) ==
  /\ ~crashed /\ tPc[t] = "wait"
  /\ tPc' = [tPc EXCEPT ![t] = IF wg = 0 THEN "stopped" ELSE "blocked"]
  /\ UNCHANGED <<callVars, workVars, queue, qClosed, workers, wg, mPc, subPc,
                 crashed, orderly>>

StopReturn(t) ==
  /\ ~crashed /\ tPc[t] = "woken"
  /\ crashed' = (wg # 0)
  /\ tPc' = [tPc EXCEPT ![t] = "stopped"]
  /\ UNCHANGED <<orderly, callVars, workVars, queue, qClosed, workers, wg,
                 mPc, subPc>>

-----------------------------------------------------------------------------
(* Submit *)

SubmitCheck(k) ==
  /\ ~crashed /\ subPc[k] = "new"
  /\ subPc' = [subPc EXCEPT ![k] = IF running THEN "send" ELSE "refused"]
  /\ UNCHANGED <<callVars, workVars, queue, qClosed, workers, wg, tPc, mPc,
                 crashed, orderly>>

\* A select with a send on a closed channel panics; a full channel takes the
\* default.
SubmitSend(k) ==
  /\ ~crashed /\ subPc[k] = "send"
  /\ crashed' = qClosed
  /\ LET fits == ~qClosed /\ Len(queue) < QueueSize IN
       /\ queue' = IF fits THEN Append(queue, k) ELSE queue
       /\ subPc' = [subPc EXCEPT ![k] = IF fits THEN "accepted"
                                                ELSE "rejected"]
  /\ UNCHANGED <<orderly, callVars, workVars, qClosed, workers, wg, tPc,
                 mPc>>

-----------------------------------------------------------------------------
(* A worker *)

\* select picks at random when the context is done and a task is there.
WorkerQuits(i) ==
  /\ ~crashed /\ wPc[i] = "loop"
  /\ cancelled \/ (qClosed /\ queue = <<>>)
  /\ wPc' = [wPc EXCEPT ![i] = "remove"]
  /\ WgDone
  /\ UNCHANGED <<callVars, task, activeWorkers, told, executed, queue,
                 qClosed, workers, mPc, subPc, crashed, orderly>>

Take(i) ==
  /\ ~crashed /\ wPc[i] = "loop" /\ queue # <<>>
  /\ task' = [task EXCEPT ![i] = Head(queue)]
  /\ queue' = Tail(queue)
  /\ wPc' = [wPc EXCEPT ![i] = "took"]
  /\ UNCHANGED <<callVars, activeWorkers, told, executed, qClosed, workers,
                 wg, tPc, mPc, subPc, crashed, orderly>>

\* A worker told to stop finds out once it has taken a task, and drops it.
GoneWhenDone(i) == i \in told \/ cancelled
Gone(i) == i \in told

WorkerDecides(i) ==
  /\ ~crashed /\ wPc[i] = "took"
  /\ IF Gone(i)
     THEN /\ task' = [task EXCEPT ![i] = NoTask]
          /\ wPc' = [wPc EXCEPT ![i] = "remove"]
          /\ WgDone
          /\ UNCHANGED activeWorkers
     ELSE /\ activeWorkers' = activeWorkers + 1
          /\ wPc' = [wPc EXCEPT ![i] = "busy"]
          /\ UNCHANGED <<task, wg, tPc>>
  /\ UNCHANGED <<callVars, told, executed, queue, qClosed, workers, mPc,
                 subPc, crashed, orderly>>

Execute(i) ==
  /\ ~crashed /\ wPc[i] = "busy"
  /\ executed' = [executed EXCEPT ![task[i]] = @ + 1]
  /\ task' = [task EXCEPT ![i] = NoTask]
  /\ wPc' = [wPc EXCEPT ![i] = "ran"]
  /\ UNCHANGED <<callVars, activeWorkers, told, queue, qClosed, workers, wg,
                 tPc, mPc, subPc, crashed, orderly>>

WorkerRan(i) ==
  /\ ~crashed /\ wPc[i] = "ran"
  /\ activeWorkers' = activeWorkers - 1
  /\ wPc' = [wPc EXCEPT ![i] = "loop"]
  /\ UNCHANGED <<callVars, task, told, executed, queue, qClosed, workers, wg,
                 tPc, mPc, subPc, crashed, orderly>>

\* The deferred function has called wg.Done already.
removeWorker(i) ==
  /\ MuFree /\ wPc[i] = "remove"
  /\ workers' = workers \ {i}
  /\ wPc' = [wPc EXCEPT ![i] = "gone"]
  /\ UNCHANGED <<callVars, task, activeWorkers, told, executed, queue,
                 qClosed, wg, tPc, mPc, subPc, crashed, orderly>>

-----------------------------------------------------------------------------
(* monitor *)

Backlog == Len(queue) > QueueSize \div 2 /\ Cardinality(workers) < MaxWorkers

\* With a backlog adjustWorkers calls addWorker, which waits for the lock
\* its caller holds; otherwise it drops idle workers down to MinWorkers.
adjustWorkers(s) ==
  /\ MuFree /\ mPc[s] = "wait"
  /\ IF Backlog
     THEN mPc' = [mPc EXCEPT ![s] = "stuck"] /\ UNCHANGED <<workers, told>>
     ELSE \E gone \in SUBSET workers :
            /\ gone # {} => Cardinality(workers \ gone) >= MinWorkers
            /\ workers' = workers \ gone
            /\ told' = told \cup gone
            /\ UNCHANGED mPc
  /\ UNCHANGED <<callVars, wPc, task, activeWorkers, executed, queue,
                 qClosed, wg, tPc, subPc, crashed, orderly>>

MonitorQuits(s) ==
  /\ ~crashed /\ mPc[s] = "wait" /\ cancelled
  /\ mPc' = [mPc EXCEPT ![s] = "exit"]
  /\ WgDone
  /\ UNCHANGED <<callVars, workVars, queue, qClosed, workers, subPc, crashed,
                 orderly>>

-----------------------------------------------------------------------------
StartStep(s) == addWorker(s) \/ StartMonitor(s)
StopStep(t) == StopCancel(t) \/ StopClose(t) \/ StopWait(t) \/ StopReturn(t)
SubmitStep(k) == SubmitCheck(k) \/ SubmitSend(k)
WorkerStep(i) ==
  \/ WorkerQuits(i) \/ Take(i) \/ WorkerDecides(i) \/ Execute(i)
  \/ WorkerRan(i) \/ removeWorker(i)

Next ==
  \/ \E s \in Starts :
       Start(s) \/ StartStep(s) \/ adjustWorkers(s) \/ MonitorQuits(s)
  \/ \E t \in Stops : Stop(t) \/ StopStep(t)
  \/ \E k \in Tasks : SubmitStep(k)
  \/ \E i \in Ids : WorkerStep(i)

Spec == Init /\ [][Next]_vars

\* Goroutines that can run do run and tasks return; nobody has to call
\* Start, Stop or Submit, and the monitor's ticker may be slow.
Fairness ==
  /\ \A s \in Starts : WF_vars(StartStep(s)) /\ WF_vars(MonitorQuits(s))
  /\ \A t \in Stops : WF_vars(StopStep(t))
  /\ \A i \in Ids : WF_vars(WorkerStep(i))

FairSpec == Spec /\ Fairness

-----------------------------------------------------------------------------
(* Properties *)

Stuck == \E s \in Starts : mPc[s] = "stuck"
Occurs(k) ==
  Cardinality({n \in DOMAIN queue : queue[n] = k})
    + Cardinality({i \in Ids : task[i] = k}) + executed[k]

\* Every variable has its type (WorkerPool, goroutine.go:45-60, and the
\* goroutines that share it).
TypeOK ==
  /\ running \in BOOLEAN /\ cancelled \in BOOLEAN /\ qClosed \in BOOLEAN
  /\ crashed \in BOOLEAN
  /\ queue \in Seq(Tasks)
  /\ workers \subseteq Ids /\ told \subseteq Ids
  /\ activeWorkers \in Nat /\ wg \in Nat
  /\ sPc \in [Starts -> {"idle", "add", "done", "ignored"}]
  /\ toAdd \in [Starts -> Nat]
  /\ tPc \in [Stops -> {"idle", "cancel", "close", "wait", "blocked", "woken",
                        "stopped", "ignored"}]
  /\ mPc \in [Starts -> {"none", "wait", "stuck", "exit"}]
  /\ wPc \in [Ids -> {"none", "loop", "took", "busy", "ran", "remove", "gone"}]
  /\ task \in [Ids -> Tasks \cup {NoTask}]
  /\ subPc \in [Tasks -> {"new", "send", "accepted", "rejected", "refused"}]
  /\ executed \in [Tasks -> Nat]

\* A task Submit accepted is in the queue, in the hands of one worker, or
\* was executed once; Submit's error means it never runs.  Only a Start that
\* follows a Stop makes workers surplus, and one of those may drop a task.
TaskKept ==
  \A k \in Tasks :
    LET due == IF subPc[k] = "accepted" THEN 1 ELSE 0 IN
      Occurs(k) <= due /\ (orderly => Occurs(k) = due)

\* Once Stop has returned no task is being executed, provided Start had
\* returned when Stop was called and was not called again.
QuietAfterStop ==
  (orderly /\ \E t \in Stops : tPc[t] = "stopped") =>
    \A i \in Ids : wPc[i] \in {"none", "remove", "gone"}

\* Stop returns unless the monitor locked itself out.
StopReturns ==
  \A t \in Stops :
    tPc[t] = "cancel" ~> (tPc[t] = "stopped" \/ crashed \/ Stuck)

\* A task that was accepted is executed, unless Stop is called.
AcceptedRuns ==
  \A k \in Tasks :
    subPc[k] = "accepted" ~>
      (executed[k] > 0 \/ \E t \in Stops : StopLetIn(t))

\* Stop "waits for all goroutines to end" (goroutine.go:134), and returns.
StopEnds ==
  \A t \in Stops : tPc[t] = "cancel" ~> (tPc[t] = "stopped" \/ crashed)
=============================================================================
