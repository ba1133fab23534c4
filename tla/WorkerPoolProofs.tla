-------------------------- MODULE WorkerPoolProofs --------------------------
(* Proofs about WorkerPool: its types, TaskKept and QuietAfterStop, for any  *)
(* number of tasks, Starts, Stops and workers and any queue.                 *)
EXTENDS WorkerPool, FiniteSetTheorems, WellFoundedInduction, TLAPS

USE DEF callVars, workVars, WgDone, StopLetIn, MuFree

-----------------------------------------------------------------------------
(* Counting *)

\* Who is in one of the places S, according to f.
In(f, S) == {x \in DOMAIN f : f[x] \in S}

\* When one member moves, the number in S changes by at most that one.
LEMMA InMoves ==
  ASSUME NEW f, IsFiniteSet(DOMAIN f), NEW x \in DOMAIN f, NEW v, NEW S,
         NEW g, DOMAIN g = DOMAIN f, g[x] = v,
         \A y \in DOMAIN f : y # x => g[y] = f[y]
  PROVE  /\ Cardinality(In(f, S)) \in Nat /\ Cardinality(In(g, S)) \in Nat
         /\ Cardinality(In(g, S)) =
              Cardinality(In(f, S)) - (IF f[x] \in S THEN 1 ELSE 0)
                                    + (IF v \in S THEN 1 ELSE 0)
<1> DEFINE Rest == In(f, S) \ {x}
<1>1. IsFiniteSet(In(f, S))
  BY FS_Subset DEF In
<1>2. /\ IsFiniteSet(Rest)
      /\ Cardinality(Rest) = Cardinality(In(f, S)) - (IF f[x] \in S THEN 1 ELSE 0)
  <2>1. x \in In(f, S) <=> f[x] \in S
    BY DEF In
  <2> HIDE DEF In
  <2> QED BY <1>1, <2>1, FS_RemoveElement, FS_CardinalityType
<1>3. In(g, S) = IF v \in S THEN Rest \cup {x} ELSE Rest
  BY DEF In
<1>4. x \notin Rest
  OBVIOUS
<1> HIDE DEF Rest
<1> QED BY <1>1, <1>2, <1>3, <1>4, FS_AddElement, FS_CardinalityType

\* The identities of workers are finitely many naturals.
LEMMA IdsFinite ==
  /\ Ids \subseteq Nat /\ IsFiniteSet(Ids)
  /\ Cardinality(Ids) = MinWorkers * Cardinality(Starts)
<1>1. Cardinality(Starts) \in Nat
  BY PoolAssumption, FS_CardinalityType
<1>2. MinWorkers * Cardinality(Starts) \in Nat
  BY <1>1, PoolAssumption
<1> QED BY <1>2, FS_Interval DEF Ids

\* Every nonempty set of identities has a least one.
LEMMA LeastExists ==
  ASSUME NEW T \in SUBSET Nat, T # {}
  PROVE  \E x \in T : \A y \in T : x <= y
<1>1. PICK x \in T : \A y \in T : <<y, x>> \notin OpToRel(<, Nat)
  BY NatLessThanWellFounded, WFMin
<1>2. \A y \in T : ~(y < x)
  BY <1>1 DEF OpToRel
<1> QED BY <1>2

-----------------------------------------------------------------------------
(* Types *)

\* What Start still has to add, one pair for each worker; it fits in what is
\* left of the identities.
Due == {d \in Starts \X (1 .. MinWorkers) :
          sPc[d[1]] = "idle" \/ d[2] <= toAdd[d[1]]}
Working == In(wPc, {"loop", "took", "busy", "ran"})
Watching == In(mPc, {"wait", "stuck"})
Active == In(wPc, {"busy", "ran"})

FlagsOK ==
  /\ running \in BOOLEAN /\ cancelled \in BOOLEAN /\ qClosed \in BOOLEAN
  /\ crashed \in BOOLEAN /\ orderly \in BOOLEAN
CallsOK ==
  /\ sPc \in [Starts -> {"idle", "add", "done", "ignored"}]
  /\ toAdd \in [Starts -> 0 .. MinWorkers]
  /\ tPc \in [Stops -> {"idle", "cancel", "close", "wait", "blocked", "woken",
                        "stopped", "ignored"}]
MonitorsOK ==
  /\ mPc \in [Starts -> {"none", "wait", "stuck", "exit"}]
  /\ \A s \in Starts : mPc[s] # "none" => sPc[s] = "done"
TasksOK ==
  /\ queue \in Seq(Tasks)
  /\ subPc \in [Tasks -> {"new", "send", "accepted", "rejected", "refused"}]
  /\ executed \in [Tasks -> Nat]
WorkersOK ==
  /\ workers \subseteq Ids /\ told \subseteq Ids
  /\ wPc \in [Ids -> {"none", "loop", "took", "busy", "ran", "remove", "gone"}]
  /\ task \in [Ids -> Tasks \cup {NoTask}]
  /\ \A i \in Ids : wPc[i] \in {"took", "busy"} <=> task[i] \in Tasks
FreshOK == Cardinality(Due) <= Cardinality(Fresh)
CountOK ==
  /\ wg = Cardinality(Working) + Cardinality(Watching)
  /\ activeWorkers = Cardinality(Active)

Types ==
  FlagsOK /\ CallsOK /\ MonitorsOK /\ TasksOK /\ WorkersOK /\ FreshOK /\ CountOK

\* The initial state has its types.
LEMMA InitType == Init => Types
<1> SUFFICES ASSUME Init PROVE Types
  OBVIOUS
<1>1. FlagsOK /\ MonitorsOK
  BY DEF Init, FlagsOK, MonitorsOK
<1>5. CallsOK
  BY PoolAssumption DEF Init, CallsOK
<1>2. TasksOK /\ WorkersOK
  BY PoolAssumption DEF Init, TasksOK, WorkersOK
<1>3. FreshOK
  <2>1. Due = Starts \X (1 .. MinWorkers) /\ Fresh = Ids
    BY DEF Init, Due, Fresh
  <2>2. IsFiniteSet(1 .. MinWorkers) /\ Cardinality(1 .. MinWorkers) = MinWorkers
    BY PoolAssumption, FS_Interval
  <2>3. Cardinality(Due) = Cardinality(Starts) * MinWorkers
    BY <2>1, <2>2, PoolAssumption, FS_Product
  <2>4. Cardinality(Starts) \in Nat
    BY PoolAssumption, FS_CardinalityType
  <2> QED BY <2>1, <2>3, <2>4, IdsFinite, PoolAssumption DEF FreshOK
<1>4. CountOK
  <2>1. Working = {} /\ Watching = {} /\ Active = {}
    BY DEF Init, Working, Watching, Active, In
  <2> QED BY <2>1, FS_EmptySet DEF CountOK, Init
<1> QED BY <1>1, <1>2, <1>3, <1>4, <1>5 DEF Types

\* A Start that has to add a worker finds an identity for it.
LEMMA FreshFound ==
  ASSUME Types, NEW s \in Starts, toAdd[s] > 0
  PROVE  \E i \in Fresh : i = (CHOOSE j \in Fresh : \A h \in Fresh : j <= h)
<1>1. <<s, toAdd[s]>> \in Due
  BY PoolAssumption DEF Types, CallsOK, Due
<1>2. IsFiniteSet(Due)
  <2>1. IsFiniteSet(1 .. MinWorkers)
    BY PoolAssumption, FS_Interval
  <2>2. IsFiniteSet(Starts \X (1 .. MinWorkers))
    BY <2>1, PoolAssumption, FS_Product
  <2> QED BY <2>2, FS_Subset DEF Due
<1>3. Cardinality(Due) # 0 /\ Cardinality(Due) \in Nat
  BY <1>1, <1>2, FS_EmptySet, FS_CardinalityType
<1>4. Fresh # {}
  BY <1>3, FS_EmptySet DEF Types, FreshOK
<1>5. Fresh \in SUBSET Nat
  BY IdsFinite DEF Fresh
<1>6. \E j \in Fresh : \A h \in Fresh : j <= h
  <2> HIDE DEF Fresh
  <2> QED BY <1>4, <1>5, LeastExists
<1> QED BY <1>6

\* Every step keeps the types of the flags,
LEMMA FlagsStep == ASSUME Types, Next PROVE FlagsOK'
<1>1. ASSUME NEW s \in Starts,
             Start(s) \/ addWorker(s) \/ StartMonitor(s) \/ adjustWorkers(s)
             \/ MonitorQuits(s)
      PROVE  FlagsOK'
  BY <1>1
  DEF Types, FlagsOK, Start, addWorker, StartMonitor, adjustWorkers,
      MonitorQuits
<1>2. ASSUME NEW t \in Stops,
             Stop(t) \/ StopCancel(t) \/ StopClose(t) \/ StopWait(t) \/
             StopReturn(t)
      PROVE  FlagsOK'
  BY <1>2
  DEF Types, FlagsOK, Stop, StopCancel, StopClose, StopWait, StopReturn
<1>3. ASSUME NEW k \in Tasks,
             SubmitCheck(k) \/ SubmitSend(k)
      PROVE  FlagsOK'
  BY <1>3
  DEF Types, FlagsOK, SubmitCheck, SubmitSend
<1>4. ASSUME NEW i \in Ids,
             WorkerQuits(i) \/ Take(i) \/ WorkerDecides(i) \/ Execute(i) \/
             WorkerRan(i) \/ removeWorker(i)
      PROVE  FlagsOK'
  BY <1>4
  DEF Types, FlagsOK, WorkerQuits, Take, WorkerDecides, Execute, WorkerRan,
      removeWorker
<1> QED BY <1>1, <1>2, <1>3, <1>4 DEF Next, StartStep, StopStep, SubmitStep,
           WorkerStep

\* of the calls,
LEMMA CallsStep == ASSUME Types, Next PROVE CallsOK'
<1>1. ASSUME NEW s \in Starts,
             Start(s) \/ addWorker(s) \/ StartMonitor(s) \/ adjustWorkers(s)
             \/ MonitorQuits(s)
      PROVE  CallsOK'
  BY <1>1, PoolAssumption
  DEF Types, CallsOK, Start, addWorker, StartMonitor, adjustWorkers,
      MonitorQuits
<1>2. ASSUME NEW t \in Stops,
             Stop(t) \/ StopCancel(t) \/ StopClose(t) \/ StopWait(t) \/
             StopReturn(t)
      PROVE  CallsOK'
  BY <1>2, PoolAssumption
  DEF Types, CallsOK, Stop, StopCancel, StopClose, StopWait, StopReturn
<1>3. ASSUME NEW k \in Tasks,
             SubmitCheck(k) \/ SubmitSend(k)
      PROVE  CallsOK'
  BY <1>3, PoolAssumption
  DEF Types, CallsOK, SubmitCheck, SubmitSend
<1>4. ASSUME NEW i \in Ids,
             WorkerQuits(i) \/ Take(i) \/ WorkerDecides(i) \/ Execute(i) \/
             WorkerRan(i) \/ removeWorker(i)
      PROVE  CallsOK'
  BY <1>4, PoolAssumption
  DEF Types, CallsOK, WorkerQuits, Take, WorkerDecides, Execute, WorkerRan,
      removeWorker
<1> QED BY <1>1, <1>2, <1>3, <1>4 DEF Next, StartStep, StopStep, SubmitStep,
           WorkerStep

\* of the monitors,
LEMMA MonitorsStep == ASSUME Types, Next PROVE MonitorsOK'
<1>1. ASSUME NEW s \in Starts,
             Start(s) \/ addWorker(s) \/ StartMonitor(s) \/ adjustWorkers(s)
             \/ MonitorQuits(s)
      PROVE  MonitorsOK'
  BY <1>1
  DEF Types, CallsOK, MonitorsOK, Start, addWorker, StartMonitor,
      adjustWorkers, MonitorQuits
<1>2. ASSUME NEW t \in Stops,
             Stop(t) \/ StopCancel(t) \/ StopClose(t) \/ StopWait(t) \/
             StopReturn(t)
      PROVE  MonitorsOK'
  BY <1>2
  DEF Types, CallsOK, MonitorsOK, Stop, StopCancel, StopClose, StopWait,
      StopReturn
<1>3. ASSUME NEW k \in Tasks,
             SubmitCheck(k) \/ SubmitSend(k)
      PROVE  MonitorsOK'
  BY <1>3
  DEF Types, CallsOK, MonitorsOK, SubmitCheck, SubmitSend
<1>4. ASSUME NEW i \in Ids,
             WorkerQuits(i) \/ Take(i) \/ WorkerDecides(i) \/ Execute(i) \/
             WorkerRan(i) \/ removeWorker(i)
      PROVE  MonitorsOK'
  BY <1>4
  DEF Types, CallsOK, MonitorsOK, WorkerQuits, Take, WorkerDecides, Execute
      , WorkerRan, removeWorker
<1> QED BY <1>1, <1>2, <1>3, <1>4 DEF Next, StartStep, StopStep, SubmitStep,
           WorkerStep

\* of the tasks
LEMMA TasksStep == ASSUME Types, Next PROVE TasksOK'
<1>1. ASSUME NEW s \in Starts,
             Start(s) \/ addWorker(s) \/ StartMonitor(s) \/ adjustWorkers(s)
             \/ MonitorQuits(s)
      PROVE  TasksOK'
  BY <1>1
  DEF Types, TasksOK, WorkersOK, Start, addWorker, StartMonitor,
      adjustWorkers, MonitorQuits
<1>2. ASSUME NEW t \in Stops,
             Stop(t) \/ StopCancel(t) \/ StopClose(t) \/ StopWait(t) \/
             StopReturn(t)
      PROVE  TasksOK'
  BY <1>2
  DEF Types, TasksOK, WorkersOK, Stop, StopCancel, StopClose, StopWait,
      StopReturn
<1>3. ASSUME NEW k \in Tasks,
             SubmitCheck(k) \/ SubmitSend(k)
      PROVE  TasksOK'
  <2>1. CASE SubmitSend(k)
    <3>1. queue' \in Seq(Tasks)
      BY <2>1 DEF SubmitSend, Types, TasksOK
    <3>2. subPc' \in [Tasks -> {"new", "send", "accepted", "rejected", "refused"}]
      BY <2>1 DEF SubmitSend, Types, TasksOK
    <3> QED BY <2>1, <3>1, <3>2 DEF SubmitSend, Types, TasksOK
  <2>2. CASE SubmitCheck(k)
    BY <2>2 DEF Types, TasksOK, WorkersOK, SubmitCheck
  <2> QED BY <1>3, <2>1, <2>2
<1>4. ASSUME NEW i \in Ids,
             WorkerQuits(i) \/ Take(i) \/ WorkerDecides(i) \/ Execute(i) \/
             WorkerRan(i) \/ removeWorker(i)
      PROVE  TasksOK'
  <2>1. CASE Execute(i)
    BY <2>1 DEF Execute, Types, TasksOK, WorkersOK
  <2>2. CASE Take(i)
    <3>1. Tail(queue) \in Seq(Tasks)
      BY <2>2 DEF Take, Types, TasksOK
    <3> QED BY <2>2, <3>1 DEF Take, Types, TasksOK
  <2>3. CASE WorkerQuits(i) \/ WorkerDecides(i) \/ WorkerRan(i) \/
             removeWorker(i)
    BY <2>3
    DEF Types, TasksOK, WorkersOK, WorkerQuits, WorkerDecides, WorkerRan,
        removeWorker
  <2> QED BY <1>4, <2>1, <2>2, <2>3
<1> QED BY <1>1, <1>2, <1>3, <1>4 DEF Next, StartStep, StopStep, SubmitStep,
           WorkerStep

\* and of the workers.
LEMMA WorkersStep == ASSUME Types, Next PROVE WorkersOK'
<1>1. ASSUME NEW s \in Starts,
             Start(s) \/ addWorker(s) \/ StartMonitor(s) \/ adjustWorkers(s)
             \/ MonitorQuits(s)
      PROVE  WorkersOK'
  <2>1. CASE addWorker(s)
    <3> DEFINE i == CHOOSE i \in Fresh : \A j \in Fresh : i <= j
    <3>1. i \in Fresh /\ i \in Ids /\ wPc[i] = "none"
      BY <2>1, FreshFound DEF addWorker, Fresh
    <3>2. /\ workers' \subseteq workers \cup {i}
          /\ wPc' = wPc \/ wPc' = [wPc EXCEPT ![i] = "loop"]
          /\ UNCHANGED <<told, task>>
      BY <2>1 DEF addWorker
    <3> HIDE DEF i
    <3> QED BY <3>1, <3>2 DEF Types, WorkersOK
  <2>2. CASE adjustWorkers(s)
    BY <2>2 DEF adjustWorkers, Types, WorkersOK
  <2>3. CASE Start(s) \/ StartMonitor(s) \/ MonitorQuits(s)
    BY <2>3
    DEF Types, WorkersOK, Start, StartMonitor, MonitorQuits
  <2> QED BY <1>1, <2>1, <2>2, <2>3
<1>2. ASSUME NEW t \in Stops,
             Stop(t) \/ StopCancel(t) \/ StopClose(t) \/ StopWait(t) \/
             StopReturn(t)
      PROVE  WorkersOK'
  BY <1>2
  DEF Types, WorkersOK, Stop, StopCancel, StopClose, StopWait, StopReturn
<1>3. ASSUME NEW k \in Tasks,
             SubmitCheck(k) \/ SubmitSend(k)
      PROVE  WorkersOK'
  BY <1>3
  DEF Types, WorkersOK, SubmitCheck, SubmitSend
<1>4. ASSUME NEW i \in Ids,
             WorkerQuits(i) \/ Take(i) \/ WorkerDecides(i) \/ Execute(i) \/
             WorkerRan(i) \/ removeWorker(i)
      PROVE  WorkersOK'
  <2>1. CASE Take(i)
    <3>1. Head(queue) \in Tasks
      BY <2>1 DEF Take, Types, TasksOK
    <3> QED BY <2>1, <3>1 DEF Take, Types, WorkersOK
  <2>2. CASE WorkerDecides(i)
    BY <2>2, PoolAssumption DEF WorkerDecides, Types, WorkersOK
  <2>3. CASE Execute(i)
    BY <2>3, PoolAssumption DEF Execute, Types, WorkersOK
  <2>4. CASE WorkerQuits(i) \/ WorkerRan(i) \/ removeWorker(i)
    BY <2>4
    DEF Types, WorkersOK, WorkerQuits, WorkerRan, removeWorker
  <2> QED BY <1>4, <2>1, <2>2, <2>3, <2>4
<1> QED BY <1>1, <1>2, <1>3, <1>4 DEF Next, StartStep, StopStep, SubmitStep,
           WorkerStep

\* Due and Fresh are finite, and lose together.
LEMMA FiniteSets ==
  ASSUME Types
  PROVE  /\ IsFiniteSet(Due) /\ IsFiniteSet(Fresh)
         /\ Cardinality(Due) \in Nat /\ Cardinality(Fresh) \in Nat
<1>1. IsFiniteSet(1 .. MinWorkers)
  BY PoolAssumption, FS_Interval
<1>2. IsFiniteSet(Starts \X (1 .. MinWorkers))
  BY <1>1, PoolAssumption, FS_Product
<1>3. IsFiniteSet(Due)
  BY <1>2, FS_Subset DEF Due
<1>4. IsFiniteSet(Fresh)
  BY IdsFinite, FS_Subset DEF Fresh
<1> QED BY <1>3, <1>4, FS_CardinalityType

\* A worker that leaves a place other than "none" leaves Fresh as it is, and
\* only Start and addWorker change what is due.
LEMMA FreshStays ==
  ASSUME Types, UNCHANGED toAdd,
         \A s \in Starts : sPc'[s] = "idle" <=> sPc[s] = "idle",
         \/ UNCHANGED wPc
         \/ \E i \in Ids : /\ wPc[i] # "none" /\ wPc'[i] # "none"
                           /\ \A j \in Ids : j # i => wPc'[j] = wPc[j]
  PROVE  FreshOK'
<1>1. Due' = Due
  BY DEF Due
<1>2. Fresh' = Fresh
  BY DEF Fresh
<1> QED BY <1>1, <1>2 DEF Types, FreshOK

\* A Start under way finds an identity for each worker it still has to make.
LEMMA FreshStep == ASSUME Types, Next PROVE FreshOK'
<1>1. ASSUME NEW s \in Starts, Start(s) PROVE FreshOK'
  <2>1. Due' \subseteq Due
    BY <1>1, PoolAssumption DEF Start, Due, Types, CallsOK
  <2>2. Fresh' = Fresh
    BY <1>1 DEF Start, Fresh
  <2>3. Cardinality(Due') <= Cardinality(Due) /\ Cardinality(Due') \in Nat
    BY <2>1, FiniteSets, FS_Subset, FS_CardinalityType
  <2> QED BY <2>2, <2>3, FiniteSets DEF Types, FreshOK
<1>2. ASSUME NEW s \in Starts, addWorker(s) PROVE FreshOK'
  <2> DEFINE d == <<s, toAdd[s]>>
             i == CHOOSE i \in Fresh : \A j \in Fresh : i <= j
  <2>1. d \in Due /\ Due' = Due \ {d}
    <3>1. sPc' = sPc /\ sPc[s] = "add" /\ toAdd[s] \in 1 .. MinWorkers
      BY <1>2, PoolAssumption DEF addWorker, Types, CallsOK
    <3>2. toAdd'[s] = toAdd[s] - 1 /\ \A r \in Starts : r # s => toAdd'[r] = toAdd[r]
      BY <1>2 DEF addWorker, Types, CallsOK
    <3>3. d \in Due
      BY <3>1 DEF Due
    <3>4. ASSUME NEW e \in Starts \X (1 .. MinWorkers)
          PROVE  e \in Due' <=> e \in Due /\ e # d
      <4>1. CASE e[1] = s
        <5>1. e \in Due' <=> e[2] <= toAdd[s] - 1
          BY <3>1, <3>2, <4>1 DEF Due
        <5>2. e \in Due <=> e[2] <= toAdd[s]
          BY <3>1, <4>1 DEF Due
        <5>3. e = d <=> e[2] = toAdd[s]
          BY <4>1
        <5>4. e[2] \in Int /\ toAdd[s] \in Int
          BY <3>1
        <5> QED BY <5>1, <5>2, <5>3, <5>4
      <4>2. CASE e[1] # s
        BY <3>1, <3>2, <4>2 DEF Due
      <4> QED BY <4>1, <4>2
    <3>5. Due \subseteq Starts \X (1 .. MinWorkers) /\ Due' \subseteq Starts \X (1 .. MinWorkers)
      BY DEF Due
    <3> HIDE DEF d, Due
    <3> QED BY <3>3, <3>4, <3>5
  <2>2. i \in Fresh /\ Fresh \ {i} \subseteq Fresh'
    <3>1. i \in Fresh
      BY <1>2, FreshFound DEF addWorker
    <3>2. wPc' = wPc \/ wPc' = [wPc EXCEPT ![i] = "loop"]
      BY <1>2 DEF addWorker
    <3> HIDE DEF i
    <3> QED BY <3>1, <3>2 DEF Fresh, Types, WorkersOK
  <2> HIDE DEF d, i
  <2>3. Cardinality(Due') = Cardinality(Due) - 1
    BY <2>1, FiniteSets, FS_RemoveElement
  <2>4. Cardinality(Fresh \ {i}) = Cardinality(Fresh) - 1
    BY <2>2, FiniteSets, FS_RemoveElement
  <2>5. IsFiniteSet(Fresh')
    BY IdsFinite, FS_Subset DEF Fresh
  <2>6. Cardinality(Fresh \ {i}) <= Cardinality(Fresh') /\ Cardinality(Fresh') \in Nat
    BY <2>2, <2>5, FS_Subset, FS_CardinalityType
  <2> QED BY <2>3, <2>4, <2>6, FiniteSets DEF Types, FreshOK
<1>3. ASSUME NEW s \in Starts, StartMonitor(s) \/ adjustWorkers(s) \/ MonitorQuits(s)
      PROVE  FreshOK'
  <2>1. \A r \in Starts : sPc'[r] = "idle" <=> sPc[r] = "idle"
    BY <1>3 DEF StartMonitor, adjustWorkers, MonitorQuits, Types, CallsOK
  <2> QED BY <1>3, <2>1, FreshStays DEF StartMonitor, adjustWorkers, MonitorQuits
<1>4. ASSUME NEW t \in Stops, Stop(t) \/ StopStep(t) PROVE FreshOK'
  BY <1>4, FreshStays
  DEF Stop, StopStep, StopCancel, StopClose, StopWait, StopReturn
<1>5. ASSUME NEW k \in Tasks, SubmitStep(k) PROVE FreshOK'
  BY <1>5, FreshStays DEF SubmitStep, SubmitCheck, SubmitSend
<1>6. ASSUME NEW i \in Ids, WorkerStep(i) PROVE FreshOK'
  <2>1. wPc[i] # "none" /\ wPc'[i] # "none" /\ \A j \in Ids : j # i => wPc'[j] = wPc[j]
    BY <1>6 DEF WorkerStep, WorkerQuits, Take, WorkerDecides, Execute, WorkerRan,
                removeWorker, Types, WorkersOK
  <2>2. UNCHANGED <<sPc, toAdd>>
    BY <1>6 DEF WorkerStep, WorkerQuits, Take, WorkerDecides, Execute, WorkerRan,
                removeWorker
  <2> QED BY <2>1, <2>2, FreshStays
<1> QED BY <1>1, <1>2, <1>3, <1>4, <1>5, <1>6 DEF Next, StartStep

\* wg and activeWorkers follow one worker from place to place,
Live == {"loop", "took", "busy", "ran"}
Busy == {"busy", "ran"}
One(b) == IF b THEN 1 ELSE 0

\* A worker that moves takes its part of the two counters along.
LEMMA WorkerCounted ==
  ASSUME Types, WorkersOK', UNCHANGED mPc, NEW i \in Ids,
         \A j \in Ids : j # i => wPc'[j] = wPc[j],
         wg' = wg - One(wPc[i] \in Live) + One(wPc'[i] \in Live),
         activeWorkers' = activeWorkers - One(wPc[i] \in Busy) + One(wPc'[i] \in Busy)
  PROVE  CountOK'
<1>1. DOMAIN wPc = Ids /\ DOMAIN wPc' = Ids /\ IsFiniteSet(DOMAIN wPc)
  BY IdsFinite DEF Types, WorkersOK
<1>2. /\ Cardinality(In(wPc', Live)) =
           Cardinality(In(wPc, Live)) - One(wPc[i] \in Live) + One(wPc'[i] \in Live)
      /\ Cardinality(In(wPc, Live)) \in Nat
  BY <1>1, InMoves DEF One
<1>3. /\ Cardinality(In(wPc', Busy)) =
           Cardinality(In(wPc, Busy)) - One(wPc[i] \in Busy) + One(wPc'[i] \in Busy)
      /\ Cardinality(In(wPc, Busy)) \in Nat
  BY <1>1, InMoves DEF One
<1>4. /\ Working' = In(wPc', Live) /\ Active' = In(wPc', Busy) /\ Watching' = Watching
      /\ Working = In(wPc, Live) /\ Active = In(wPc, Busy)
  BY DEF Working, Active, Watching, Live, Busy
<1>5. Cardinality(Watching) \in Nat
  <2>1. IsFiniteSet(Watching)
    BY PoolAssumption, FS_Subset DEF Watching, In, Types, MonitorsOK
  <2> QED BY <2>1, FS_CardinalityType
<1>6. wg = Cardinality(Working) + Cardinality(Watching) /\ activeWorkers = Cardinality(Active)
  BY DEF Types, CountOK
<1>7. One(wPc[i] \in Live) \in Int /\ One(wPc'[i] \in Live) \in Int
  BY DEF One
<1>8. wg' = Cardinality(Working') + Cardinality(Watching')
  BY <1>2, <1>4, <1>5, <1>6, <1>7
<1>9. activeWorkers' = Cardinality(Active')
  BY <1>3, <1>4, <1>6
<1> QED BY <1>8, <1>9 DEF CountOK

\* and one monitor.
LEMMA MonitorCounted ==
  ASSUME Types, MonitorsOK', UNCHANGED <<wPc, activeWorkers>>, NEW s \in Starts,
         \A r \in Starts : r # s => mPc'[r] = mPc[r],
         wg' = wg - One(mPc[s] \in {"wait", "stuck"})
                  + One(mPc'[s] \in {"wait", "stuck"})
  PROVE  CountOK'
<1> DEFINE on == {"wait", "stuck"}
<1>1. DOMAIN mPc = Starts /\ DOMAIN mPc' = Starts /\ IsFiniteSet(DOMAIN mPc)
  BY PoolAssumption DEF Types, MonitorsOK
<1>2. /\ Cardinality(In(mPc', on)) =
           Cardinality(In(mPc, on)) - One(mPc[s] \in on) + One(mPc'[s] \in on)
      /\ Cardinality(In(mPc, on)) \in Nat
  <2> HIDE DEF on
  <2> QED BY <1>1, InMoves DEF One
<1>3. /\ Watching' = In(mPc', on) /\ Watching = In(mPc, on)
      /\ Working' = Working /\ Active' = Active
  BY DEF Working, Active, Watching
<1>4. Cardinality(Working) \in Nat
  <2>1. IsFiniteSet(Working)
    BY IdsFinite, FS_Subset DEF Working, In, Types, WorkersOK
  <2> QED BY <2>1, FS_CardinalityType
<1>5. wg = Cardinality(Working) + Cardinality(Watching) /\ activeWorkers = Cardinality(Active)
  BY DEF Types, CountOK
<1>6. One(mPc[s] \in on) \in Int /\ One(mPc'[s] \in on) \in Int
  BY DEF One
<1>7. wg' = Cardinality(Working') + Cardinality(Watching')
  <2> HIDE DEF on
  <2>1. wg' = wg - One(mPc[s] \in on) + One(mPc'[s] \in on)
    BY DEF on
  <2> QED BY <2>1, <1>2, <1>3, <1>4, <1>5, <1>6
<1> QED BY <1>3, <1>5, <1>7 DEF CountOK

\* Who moves no worker leaves them.
LEMMA CountStays ==
  ASSUME Types, UNCHANGED <<wPc, mPc, wg, activeWorkers>> PROVE CountOK'
BY DEF Types, CountOK, Working, Watching, Active

\* Every step keeps the count.
LEMMA CountStep == ASSUME Types, Next PROVE CountOK'
<1>0. wg \in Int /\ activeWorkers \in Int
  <2>1. IsFiniteSet(Working) /\ IsFiniteSet(Watching) /\ IsFiniteSet(Active)
    BY IdsFinite, PoolAssumption, FS_Subset
    DEF Working, Watching, Active, In, Types, WorkersOK, MonitorsOK
  <2> QED BY <2>1, FS_CardinalityType DEF Types, CountOK
<1>9. WorkersOK' /\ MonitorsOK'
  BY WorkersStep, MonitorsStep
<1> USE DEF One, Live, Busy
<1>1. ASSUME NEW s \in Starts, addWorker(s) PROVE CountOK'
  <2> DEFINE i == CHOOSE i \in Fresh : \A j \in Fresh : i <= j
  <2>1. i \in Ids /\ wPc[i] = "none"
    BY <1>1, FreshFound DEF addWorker, Fresh
  <2>2. \/ UNCHANGED <<wPc, wg>>
        \/ wPc' = [wPc EXCEPT ![i] = "loop"] /\ wg' = wg + 1
    BY <1>1 DEF addWorker
  <2>3. UNCHANGED <<mPc, activeWorkers>>
    BY <1>1 DEF addWorker
  <2> HIDE DEF i
  <2>4. CASE UNCHANGED <<wPc, wg>>
    BY <2>3, <2>4, CountStays
  <2>5. CASE wPc' = [wPc EXCEPT ![i] = "loop"] /\ wg' = wg + 1
    <3>1. wPc'[i] = "loop" /\ \A j \in Ids : j # i => wPc'[j] = wPc[j]
      BY <2>1, <2>5 DEF Types, WorkersOK
    <3> QED BY <1>0, <1>9, <2>1, <2>3, <2>5, <3>1, WorkerCounted
  <2> QED BY <2>2, <2>4, <2>5
<1>2. ASSUME NEW s \in Starts, StartMonitor(s) PROVE CountOK'
  <2>1. mPc[s] = "none"
    BY <1>2 DEF StartMonitor, Types, MonitorsOK
  <2>2. mPc'[s] = "wait" /\ \A r \in Starts : r # s => mPc'[r] = mPc[r]
    BY <1>2 DEF StartMonitor, Types, MonitorsOK
  <2> QED BY <1>0, <1>9, <1>2, <2>1, <2>2, MonitorCounted DEF StartMonitor
<1>3. ASSUME NEW s \in Starts, adjustWorkers(s) PROVE CountOK'
  <2>1. CASE mPc' = mPc
    BY <1>3, <2>1, CountStays DEF adjustWorkers
  <2>2. CASE mPc' = [mPc EXCEPT ![s] = "stuck"]
    <3>1. mPc'[s] = "stuck" /\ \A r \in Starts : r # s => mPc'[r] = mPc[r]
      BY <2>2 DEF Types, MonitorsOK
    <3> QED BY <1>0, <1>9, <1>3, <3>1, MonitorCounted DEF adjustWorkers
  <2> QED BY <1>3, <2>1, <2>2 DEF adjustWorkers
<1>4. ASSUME NEW s \in Starts, MonitorQuits(s) PROVE CountOK'
  <2>1. mPc'[s] = "exit" /\ \A r \in Starts : r # s => mPc'[r] = mPc[r]
    BY <1>4 DEF MonitorQuits, Types, MonitorsOK
  <2> QED BY <1>0, <1>9, <1>4, <2>1, MonitorCounted DEF MonitorQuits
<1>5. ASSUME NEW s \in Starts, Start(s) PROVE CountOK'
  BY <1>5, CountStays DEF Start
<1>6. ASSUME NEW t \in Stops, Stop(t) \/ StopStep(t) PROVE CountOK'
  BY <1>6, CountStays
  DEF Stop, StopStep, StopCancel, StopClose, StopWait, StopReturn
<1>7. ASSUME NEW k \in Tasks, SubmitStep(k) PROVE CountOK'
  BY <1>7, CountStays DEF SubmitStep, SubmitCheck, SubmitSend
<1>8. ASSUME NEW i \in Ids, WorkerStep(i) PROVE CountOK'
  <2>0. \A j \in Ids : j # i => wPc'[j] = wPc[j]
    BY <1>8 DEF WorkerStep, WorkerQuits, Take, WorkerDecides, Execute, WorkerRan,
                removeWorker, Types, WorkersOK
  <2>1. ASSUME wPc' = [wPc EXCEPT ![i] = "remove"], wPc[i] \in {"loop", "took"},
               wg' = wg - 1, UNCHANGED <<mPc, activeWorkers>>
        PROVE  CountOK'
    <3>1. wPc'[i] = "remove"
      BY <2>1 DEF Types, WorkersOK
    <3> QED BY <1>0, <1>9, <2>0, <2>1, <3>1, WorkerCounted
  <2>2. CASE WorkerQuits(i)
    BY <2>1, <2>2 DEF WorkerQuits
  <2>3. CASE Take(i)
    <3>1. wPc'[i] = "took"
      BY <2>3 DEF Take, Types, WorkersOK
    <3> QED BY <1>0, <1>9, <2>0, <2>3, <3>1, WorkerCounted DEF Take
  <2>4. CASE WorkerDecides(i)
    <3>1. CASE Gone(i)
      BY <2>1, <2>4, <3>1 DEF WorkerDecides
    <3>2. CASE ~Gone(i)
      <4>1. wPc'[i] = "busy"
        BY <2>4, <3>2 DEF WorkerDecides, Types, WorkersOK
      <4> QED BY <1>0, <1>9, <2>0, <2>4, <3>2, <4>1, WorkerCounted DEF WorkerDecides
    <3> QED BY <3>1, <3>2
  <2>5. CASE Execute(i)
    <3>1. wPc'[i] = "ran"
      BY <2>5 DEF Execute, Types, WorkersOK
    <3> QED BY <1>0, <1>9, <2>0, <2>5, <3>1, WorkerCounted DEF Execute
  <2>6. CASE WorkerRan(i)
    <3>1. wPc'[i] = "loop"
      BY <2>6 DEF WorkerRan, Types, WorkersOK
    <3> QED BY <1>0, <1>9, <2>0, <2>6, <3>1, WorkerCounted DEF WorkerRan
  <2>7. CASE removeWorker(i)
    <3>1. wPc'[i] = "gone"
      BY <2>7 DEF removeWorker, Types, WorkersOK
    <3> QED BY <1>0, <1>9, <2>0, <2>7, <3>1, WorkerCounted DEF removeWorker
  <2> QED BY <1>8, <2>2, <2>3, <2>4, <2>5, <2>6, <2>7 DEF WorkerStep
<1> QED BY <1>1, <1>2, <1>3, <1>4, <1>5, <1>6, <1>7, <1>8 DEF Next, StartStep

\* Every step keeps the types.
LEMMA NextType == Types /\ [Next]_vars => Types'
<1>1. ASSUME Types, Next PROVE Types'
  BY <1>1, FlagsStep, CallsStep, MonitorsStep, TasksStep, WorkersStep, FreshStep,
     CountStep
  DEF Types
<1>2. ASSUME Types, UNCHANGED vars PROVE Types'
  <2>1. FlagsOK' /\ CallsOK' /\ MonitorsOK' /\ TasksOK' /\ WorkersOK'
    BY <1>2 DEF vars, Types, FlagsOK, CallsOK, MonitorsOK, TasksOK, WorkersOK
  <2>2. FreshOK'
    BY <1>2, FreshStays DEF vars
  <2>3. CountOK'
    BY <1>2, CountStays DEF vars
  <2> QED BY <2>1, <2>2, <2>3 DEF Types
<1> QED BY <1>1, <1>2

\* The parts make up the type invariant.
LEMMA TypesImplyTypeOK == Types => TypeOK
<1> SUFFICES ASSUME Types PROVE TypeOK
  OBVIOUS
<1>1. IsFiniteSet(Working) /\ IsFiniteSet(Watching) /\ IsFiniteSet(Active)
  BY IdsFinite, PoolAssumption, FS_Subset
  DEF Working, Watching, Active, In, Types, WorkersOK, MonitorsOK
<1>2. wg \in Nat /\ activeWorkers \in Nat
  BY <1>1, FS_CardinalityType DEF Types, CountOK
<1>3. toAdd \in [Starts -> Nat]
  BY PoolAssumption DEF Types, CallsOK
<1> QED BY <1>2, <1>3
    DEF TypeOK, Types, FlagsOK, CallsOK, MonitorsOK, TasksOK, WorkersOK

\* Every variable of the pool has its type: in particular the identities of
\* workers suffice, and the WaitGroup never drops below zero (addWorker,
\* run, monitor).
THEOREM TypeCorrect == Spec => []TypeOK
BY InitType, NextType, TypesImplyTypeOK, PTL DEF Spec

-----------------------------------------------------------------------------
(* One Start, then one Stop *)

LetIn == {s \in Starts : sPc[s] \in {"add", "done"}}
AnyStop == \E t \in Stops : StopLetIn(t)

\* As long as no Stop overtook a Start and no Start followed a Stop, one Start
\* at most was let in, it returned before any Stop was, and only a Stop undid
\* what it did to running.
Calm ==
  /\ \A s, r \in LetIn : s = r
  /\ running => ~AnyStop
  /\ LetIn # {} => running \/ AnyStop
  /\ AnyStop => \A s \in Starts : sPc[s] # "add"
CalmInv == orderly => Calm

\* No worker is surplus then: there are as many as MinWorkers at most, so the
\* monitor tells none to stop.
Lean ==
  /\ told = {}
  /\ LetIn = {} => workers = {}
  /\ \A s \in LetIn : Cardinality(workers) + toAdd[s] <= MinWorkers
LeanInv == orderly => Lean

\* And a Stop that returned, or is about to, found the WaitGroup at zero,
\* where it stays.
JoinInv ==
  orderly => \A t \in Stops : tPc[t] \in {"woken", "stopped"} => wg = 0

\* In orderly use one Start at most is let in.
LEMMA CalmStep == ASSUME Types, CalmInv, Next PROVE CalmInv'
<1>1. ASSUME NEW s \in Starts, Start(s) PROVE CalmInv'
  <2> SUFFICES ASSUME orderly' PROVE Calm'
    BY DEF CalmInv
  <2>1. Calm /\ AnyStop' = AnyStop
    BY <1>1 DEF Start, CalmInv, AnyStop
  <2>2. CASE running
    <3>1. LetIn' = LetIn /\ \A r \in Starts : sPc'[r] = "add" => sPc[r] = "add"
      BY <1>1, <2>2 DEF Start, LetIn, Types, CallsOK
    <3> QED BY <1>1, <2>1, <2>2, <3>1 DEF Start, Calm
  <2>3. CASE ~running
    <3>1. ~AnyStop /\ LetIn = {}
      BY <1>1, <2>1, <2>3 DEF Start, Calm, AnyStop
    <3>2. LetIn' = {s}
      BY <1>1, <2>3, <3>1 DEF Start, LetIn, Types, CallsOK
    <3> QED BY <1>1, <2>1, <3>1, <3>2 DEF Start, Calm
  <2> QED BY <2>2, <2>3
<1>2. ASSUME NEW t \in Stops, Stop(t) PROVE CalmInv'
  <2> SUFFICES ASSUME orderly' PROVE Calm'
    BY DEF CalmInv
  <2>1. Calm /\ LetIn' = LetIn /\ \A s \in Starts : sPc'[s] # "add"
    BY <1>2 DEF Stop, CalmInv, LetIn
  <2>2. AnyStop' <=> running \/ AnyStop
    BY <1>2 DEF Stop, AnyStop, Types, CallsOK
  <2> QED BY <1>2, <2>1, <2>2 DEF Stop, Calm
<1>3. ASSUME orderly' => orderly, UNCHANGED running, AnyStop' = AnyStop, LetIn' = LetIn,
             \A s \in Starts : sPc'[s] = "add" => sPc[s] = "add"
      PROVE  CalmInv'
  BY <1>3 DEF CalmInv, Calm
<1>4. ASSUME NEW t \in Stops, StopStep(t) PROVE CalmInv'
  <2>1. AnyStop' = AnyStop
    BY <1>4 DEF StopStep, StopCancel, StopClose, StopWait, StopReturn, AnyStop,
                Types, CallsOK
  <2> QED BY <1>3, <1>4, <2>1
          DEF StopStep, StopCancel, StopClose, StopWait, StopReturn, LetIn
<1>5. ASSUME NEW s \in Starts,
             addWorker(s) \/ StartMonitor(s) \/ adjustWorkers(s) \/ MonitorQuits(s)
      PROVE  CalmInv'
  <2>1. AnyStop' = AnyStop
    BY <1>5 DEF addWorker, StartMonitor, adjustWorkers, MonitorQuits, AnyStop,
                Types, CallsOK
  <2>2. LetIn' = LetIn /\ \A r \in Starts : sPc'[r] = "add" => sPc[r] = "add"
    BY <1>5 DEF addWorker, StartMonitor, adjustWorkers, MonitorQuits, LetIn,
                Types, CallsOK
  <2> QED BY <1>3, <1>5, <2>1, <2>2
          DEF addWorker, StartMonitor, adjustWorkers, MonitorQuits
<1>6. ASSUME NEW k \in Tasks, SubmitStep(k) PROVE CalmInv'
  BY <1>3, <1>6 DEF SubmitStep, SubmitCheck, SubmitSend, AnyStop, LetIn
<1>7. ASSUME NEW i \in Ids, WorkerStep(i) PROVE CalmInv'
  <2>1. AnyStop' = AnyStop
    BY <1>7 DEF WorkerStep, WorkerQuits, Take, WorkerDecides, Execute, WorkerRan,
                removeWorker, AnyStop, Types, CallsOK
  <2> QED BY <1>3, <1>7, <2>1
          DEF WorkerStep, WorkerQuits, Take, WorkerDecides, Execute, WorkerRan,
              removeWorker, LetIn
<1> QED BY <1>1, <1>2, <1>4, <1>5, <1>6, <1>7 DEF Next, StartStep

\* Then nobody is told to stop.
LEMMA LeanStep == ASSUME Types, CalmInv, LeanInv, Next PROVE LeanInv'
<1>0. IsFiniteSet(workers) /\ Cardinality(workers) \in Nat
  BY IdsFinite, FS_Subset, FS_CardinalityType DEF Types, WorkersOK
<1>1. ASSUME NEW s \in Starts, Start(s) PROVE LeanInv'
  <2> SUFFICES ASSUME orderly' PROVE Lean'
    BY DEF LeanInv
  <2>1. Lean /\ Calm
    BY <1>1 DEF Start, LeanInv, CalmInv
  <2>2. CASE running
    <3>1. LetIn' = LetIn /\ \A r \in LetIn : toAdd'[r] = toAdd[r]
      BY <1>1, <2>2 DEF Start, LetIn, Types, CallsOK
    <3> QED BY <1>1, <2>1, <3>1 DEF Start, Lean
  <2>3. CASE ~running
    <3>1. LetIn = {}
      BY <1>1, <2>1, <2>3 DEF Start, Calm, AnyStop
    <3>2. LetIn' = {s} /\ toAdd'[s] = MinWorkers
      BY <1>1, <2>3, <3>1 DEF Start, LetIn, Types, CallsOK
    <3>3. Cardinality(workers') = 0
      BY <1>1, <2>1, <3>1, FS_EmptySet DEF Start, Lean
    <3> QED BY <1>1, <2>1, <3>2, <3>3, PoolAssumption DEF Start, Lean
  <2> QED BY <2>2, <2>3
<1>2. ASSUME NEW s \in Starts, addWorker(s) PROVE LeanInv'
  <2> SUFFICES ASSUME orderly' PROVE Lean'
    BY DEF LeanInv
  <2>1. Lean /\ Calm
    BY <1>2 DEF addWorker, LeanInv, CalmInv
  <2>2. s \in LetIn /\ LetIn' = LetIn /\ told' = told
    BY <1>2 DEF addWorker, LetIn
  <2>3. toAdd'[s] = toAdd[s] - 1 /\ toAdd[s] \in Nat
    BY <1>2, PoolAssumption DEF addWorker, Types, CallsOK
  <2>4. Cardinality(workers') <= Cardinality(workers) + 1 /\ Cardinality(workers') \in Nat
    <3> DEFINE i == CHOOSE i \in Fresh : \A j \in Fresh : i <= j
    <3>1. workers' = workers \/ workers' = workers \cup {i}
      BY <1>2 DEF addWorker
    <3> HIDE DEF i
    <3> QED BY <1>0, <3>1, FS_AddElement
  <2>5. Cardinality(workers') + toAdd'[s] <= MinWorkers
    <3>1. Cardinality(workers) + toAdd[s] <= MinWorkers
      BY <2>1, <2>2 DEF Lean
    <3> QED BY <1>0, <2>3, <2>4, <3>1, PoolAssumption
  <2> QED BY <2>1, <2>2, <2>5 DEF Lean, Calm
<1>3. ASSUME NEW s \in Starts, adjustWorkers(s) PROVE LeanInv'
  <2> SUFFICES ASSUME orderly' PROVE Lean'
    BY DEF LeanInv
  <2>1. Lean
    BY <1>3 DEF adjustWorkers, LeanInv
  <2>2. Cardinality(workers) <= MinWorkers
    <3>1. s \in LetIn /\ toAdd[s] \in Nat
      BY <1>3, PoolAssumption DEF adjustWorkers, LetIn, Types, MonitorsOK, CallsOK
    <3>2. Cardinality(workers) + toAdd[s] <= MinWorkers
      BY <2>1, <3>1 DEF Lean
    <3> QED BY <1>0, <3>1, <3>2, PoolAssumption
  <2>3. ASSUME NEW gone \in SUBSET workers,
               gone # {} => Cardinality(workers \ gone) >= MinWorkers
        PROVE  gone = {}
    <3>1. IsFiniteSet(workers \ gone)
          /\ Cardinality(workers \ gone) <= Cardinality(workers)
          /\ (Cardinality(workers) = Cardinality(workers \ gone) =>
                workers = workers \ gone)
      BY <1>0, FS_Subset
    <3>2. Cardinality(workers \ gone) \in Nat
      BY <3>1, FS_CardinalityType
    <3>3. gone # {} => Cardinality(workers) = Cardinality(workers \ gone)
      BY <1>0, <2>2, <2>3, <3>1, <3>2, PoolAssumption
    <3> QED BY <3>1, <3>3
  <2>4. UNCHANGED <<workers, told>>
    BY <1>3, <2>1, <2>3 DEF adjustWorkers, Lean
  <2>5. UNCHANGED <<LetIn, toAdd>>
    BY <1>3 DEF adjustWorkers, LetIn
  <2> QED BY <2>1, <2>4, <2>5 DEF Lean
<1>4. ASSUME orderly' => orderly, UNCHANGED <<told, toAdd, LetIn>>,
             workers' \subseteq workers
      PROVE  LeanInv'
  <2> SUFFICES ASSUME orderly' PROVE Lean'
    BY DEF LeanInv
  <2>1. Lean
    BY <1>4 DEF LeanInv
  <2>2. Cardinality(workers') <= Cardinality(workers) /\ Cardinality(workers') \in Nat
    BY <1>0, <1>4, FS_Subset, FS_CardinalityType
  <2>3. ASSUME NEW s \in LetIn PROVE Cardinality(workers') + toAdd[s] <= MinWorkers
    <3>1. toAdd[s] \in Nat
      BY PoolAssumption DEF LetIn, Types, CallsOK
    <3>2. Cardinality(workers) + toAdd[s] <= MinWorkers
      BY <2>1 DEF Lean
    <3> QED BY <1>0, <2>2, <3>1, <3>2, PoolAssumption
  <2> QED BY <1>4, <2>1, <2>3 DEF Lean
<1>5. ASSUME NEW s \in Starts, StartMonitor(s) \/ MonitorQuits(s) PROVE LeanInv'
  <2>1. LetIn' = LetIn
    BY <1>5 DEF StartMonitor, MonitorQuits, LetIn, Types, CallsOK
  <2> QED BY <1>4, <1>5, <2>1 DEF StartMonitor, MonitorQuits
<1>6. ASSUME NEW t \in Stops, Stop(t) \/ StopStep(t) PROVE LeanInv'
  BY <1>4, <1>6 DEF Stop, StopStep, StopCancel, StopClose, StopWait, StopReturn, LetIn
<1>7. ASSUME NEW k \in Tasks, SubmitStep(k) PROVE LeanInv'
  BY <1>4, <1>7 DEF SubmitStep, SubmitCheck, SubmitSend, LetIn
<1>8. ASSUME NEW i \in Ids, WorkerStep(i) PROVE LeanInv'
  BY <1>4, <1>8 DEF WorkerStep, WorkerQuits, Take, WorkerDecides, Execute,
                    WorkerRan, removeWorker, LetIn
<1> QED BY <1>1, <1>2, <1>3, <1>5, <1>6, <1>7, <1>8 DEF Next, StartStep

\* A Stop that woke up found the WaitGroup at zero for good.
LEMMA JoinStep ==
  ASSUME Types, Types', CalmInv, JoinInv, Next PROVE JoinInv'
<1>0. wg \in Nat /\ wg' \in Nat
  <2>1. wg \in Nat
    BY TypesImplyTypeOK DEF TypeOK
  <2>2. IsFiniteSet(Working') /\ IsFiniteSet(Watching')
    BY IdsFinite, PoolAssumption, FS_Subset
    DEF Working, Watching, In, Types, WorkersOK, MonitorsOK
  <2>3. Cardinality(Working') \in Nat /\ Cardinality(Watching') \in Nat
    BY <2>2, FS_CardinalityType
  <2>4. wg' = Cardinality(Working') + Cardinality(Watching')
    BY DEF Types, CountOK, Working, Watching, In
  <2> QED BY <2>1, <2>3, <2>4
<1>1. ASSUME NEW s \in Starts, addWorker(s) \/ StartMonitor(s) PROVE JoinInv'
  <2>1. sPc[s] = "add" /\ tPc' = tPc /\ orderly' = orderly
    BY <1>1 DEF addWorker, StartMonitor
  <2>2. orderly => \A t \in Stops : ~(tPc[t] \in {"woken", "stopped"})
    BY <2>1 DEF CalmInv, Calm, AnyStop
  <2> QED BY <2>1, <2>2 DEF JoinInv
<1>2. ASSUME orderly' => orderly, UNCHANGED <<tPc, wg>> PROVE JoinInv'
  BY <1>2 DEF JoinInv
<1>3. ASSUME orderly' => orderly, WgDone PROVE JoinInv'
  BY <1>0, <1>3 DEF JoinInv, Types, CallsOK
<1>4. ASSUME NEW s \in Starts, Start(s) \/ adjustWorkers(s) \/ MonitorQuits(s)
      PROVE  JoinInv'
  BY <1>2, <1>3, <1>4 DEF Start, adjustWorkers, MonitorQuits
<1>5. ASSUME NEW t \in Stops, Stop(t) \/ StopStep(t) PROVE JoinInv'
  BY <1>5 DEF Stop, StopStep, StopCancel, StopClose, StopWait, StopReturn, JoinInv,
              Types, CallsOK
<1>6. ASSUME NEW k \in Tasks, SubmitStep(k) PROVE JoinInv'
  BY <1>2, <1>6 DEF SubmitStep, SubmitCheck, SubmitSend
<1>7. ASSUME NEW i \in Ids, WorkerStep(i) PROVE JoinInv'
  BY <1>2, <1>3, <1>7 DEF WorkerStep, WorkerQuits, Take, WorkerDecides, Execute,
                          WorkerRan, removeWorker
<1> QED BY <1>1, <1>4, <1>5, <1>6, <1>7 DEF Next, StartStep

PoolInv == Types /\ CalmInv /\ LeanInv /\ JoinInv

\* All of it holds at first and is kept.
LEMMA InitPool == Init => PoolInv
<1>1. Init => CalmInv
  BY DEF Init, CalmInv, Calm, LetIn, AnyStop
<1>2. Init => LeanInv
  BY DEF Init, LeanInv, Lean, LetIn
<1>3. Init => JoinInv
  BY DEF Init, JoinInv
<1> QED BY <1>1, <1>2, <1>3, InitType DEF PoolInv

LEMMA NextPool == PoolInv /\ [Next]_vars => PoolInv'
<1>1. ASSUME PoolInv, Next PROVE PoolInv'
  <2>1. Types'
    BY <1>1, NextType DEF PoolInv
  <2> QED BY <1>1, <2>1, CalmStep, LeanStep, JoinStep DEF PoolInv
<1>2. ASSUME PoolInv, UNCHANGED vars PROVE PoolInv'
  <2>1. Types'
    BY <1>2, NextType DEF PoolInv
  <2>2. CalmInv' /\ LeanInv' /\ JoinInv'
    BY <1>2 DEF PoolInv, vars, CalmInv, Calm, LeanInv, Lean, JoinInv, LetIn, AnyStop
  <2> QED BY <2>1, <2>2 DEF PoolInv
<1> QED BY <1>1, <1>2

\* Once Stop has returned no task is being executed, for any number of
\* workers, tasks and calls, provided Start had returned before and was not
\* called again (Stop, worker, run).
THEOREM StoppedIsQuiet == Spec => []QuietAfterStop
<1>1. ASSUME PoolInv PROVE QuietAfterStop
  <2> SUFFICES ASSUME orderly, \E t \in Stops : tPc[t] = "stopped"
               PROVE  \A i \in Ids : wPc[i] \in {"none", "remove", "gone"}
    BY DEF QuietAfterStop
  <2>1. wg = 0
    BY <1>1 DEF PoolInv, JoinInv
  <2>2. IsFiniteSet(Working) /\ IsFiniteSet(Watching)
    BY <1>1, IdsFinite, PoolAssumption, FS_Subset
    DEF PoolInv, Working, Watching, In, Types, WorkersOK, MonitorsOK
  <2>3. Cardinality(Working) = 0
    <3>1. Cardinality(Working) \in Nat /\ Cardinality(Watching) \in Nat
      BY <2>2, FS_CardinalityType
    <3> QED BY <1>1, <2>1, <3>1 DEF PoolInv, Types, CountOK
  <2>4. Working = {}
    BY <2>2, <2>3, FS_EmptySet
  <2> QED BY <1>1, <2>4 DEF PoolInv, Types, WorkersOK, Working, In
<1> QED BY <1>1, InitPool, NextPool, PTL DEF Spec

-----------------------------------------------------------------------------
(* Tasks *)

InQueue(k) == \E n \in DOMAIN queue : queue[n] = k
Held(k) == \E i \in Ids : task[i] = k
Accepted == {k \in Tasks : subPc[k] = "accepted"}

\* A task is in one place: at one position of the queue, with one worker, or
\* executed; what is anywhere was accepted, and what was accepted is somewhere
\* as long as no worker is surplus.
QueueOnce ==
  /\ \A n \in DOMAIN queue : queue[n] \in Accepted
  /\ \A n, m \in DOMAIN queue : queue[n] = queue[m] => n = m
HandsOnce ==
  /\ \A i \in Ids : task[i] \in Tasks => task[i] \in Accepted
  /\ \A i, j \in Ids : task[i] \in Tasks /\ task[i] = task[j] => i = j
Apart == \A k \in Tasks : ~(InQueue(k) /\ Held(k))
RunOnce ==
  \A k \in Tasks :
    executed[k] = 0 \/ (executed[k] = 1 /\ k \in Accepted /\ ~InQueue(k) /\ ~Held(k))
NoneDropped ==
  orderly => \A k \in Accepted : InQueue(k) \/ Held(k) \/ executed[k] = 1
KeptInv == QueueOnce /\ HandsOnce /\ Apart /\ RunOnce /\ NoneDropped

\* What a step may do to tasks: nothing, accept one, take the head of the queue,
\* execute one, or drop one, and that only with surplus workers.
Still ==
  /\ UNCHANGED <<queue, task, executed>> /\ Accepted' = Accepted
  /\ orderly' => orderly
Accepts(k) ==
  /\ k \notin Accepted /\ Accepted' = Accepted \cup {k}
  /\ queue' = Append(queue, k) /\ UNCHANGED <<task, executed, orderly>>
Takes(i) ==
  /\ queue # <<>> /\ task[i] \notin Tasks
  /\ queue' = Tail(queue) /\ task' = [task EXCEPT ![i] = Head(queue)]
  /\ UNCHANGED <<executed, orderly>> /\ Accepted' = Accepted
Executes(i) ==
  /\ task[i] \in Tasks
  /\ executed' = [executed EXCEPT ![task[i]] = @ + 1]
  /\ task' = [task EXCEPT ![i] = NoTask]
  /\ UNCHANGED <<queue, orderly>> /\ Accepted' = Accepted
Drops(i) ==
  /\ ~orderly' /\ task' = [task EXCEPT ![i] = NoTask]
  /\ UNCHANGED <<queue, executed>> /\ Accepted' = Accepted

\* The five things a step can do to tasks keep each in one place: nothing,
\* accepting one, taking one, executing one, dropping one.
LEMMA StillKeeps == ASSUME KeptInv, Still PROVE KeptInv'
BY DEF KeptInv, QueueOnce, HandsOnce, Apart, RunOnce, NoneDropped, Still, InQueue, Held

LEMMA AcceptsKeeps ==
  ASSUME Types, KeptInv, NEW k \in Tasks, Accepts(k)
  PROVE  KeptInv'
<1>1. /\ DOMAIN queue' = 1 .. Len(queue) + 1 /\ DOMAIN queue = 1 .. Len(queue)
      /\ Len(queue) \in Nat /\ queue'[Len(queue) + 1] = k
      /\ \A n \in DOMAIN queue : queue'[n] = queue[n]
  BY DEF Accepts, Types, TasksOK
<1>2. \A h \in Tasks : InQueue(h)' <=> InQueue(h) \/ h = k
  BY <1>1 DEF InQueue
<1>3. \A h \in Tasks : Held(h)' <=> Held(h)
  BY DEF Accepts, Held
<1>4. ~InQueue(k) /\ ~Held(k) /\ executed[k] = 0
  BY DEF Accepts, KeptInv, QueueOnce, HandsOnce, RunOnce, InQueue, Held
<1>5. QueueOnce'
  BY <1>1, <1>4 DEF Accepts, KeptInv, QueueOnce, InQueue
<1>6. HandsOnce'
  BY DEF Accepts, KeptInv, HandsOnce
<1>7. Apart'
  BY <1>2, <1>3, <1>4 DEF KeptInv, Apart
<1>8. RunOnce'
  BY <1>2, <1>3, <1>4 DEF Accepts, KeptInv, RunOnce
<1>9. NoneDropped'
  BY <1>2, <1>3 DEF Accepts, KeptInv, NoneDropped, Accepted
<1> QED BY <1>5, <1>6, <1>7, <1>8, <1>9 DEF KeptInv

LEMMA TakesKeeps ==
  ASSUME Types, KeptInv, NEW i \in Ids, Takes(i)
  PROVE  KeptInv'
<1> DEFINE k == Head(queue)
<1>1. /\ DOMAIN queue' = 1 .. Len(queue) - 1 /\ DOMAIN queue = 1 .. Len(queue)
      /\ Len(queue) \in Nat \ {0} /\ queue[1] = k /\ k \in Tasks
      /\ \A n \in DOMAIN queue' : queue'[n] = queue[n + 1]
  BY DEF Takes, Types, TasksOK
<1>2. task'[i] = k /\ \A j \in Ids : j # i => task'[j] = task[j]
  BY DEF Takes, Types, WorkersOK
<1> HIDE DEF k
<1>3. InQueue(k) /\ ~Held(k) /\ k \in Accepted /\ executed[k] = 0
  BY <1>1 DEF KeptInv, QueueOnce, Apart, RunOnce, InQueue
<1>4. \A h \in Tasks : InQueue(h)' <=> InQueue(h) /\ h # k
  <2> SUFFICES ASSUME NEW h \in Tasks PROVE InQueue(h)' <=> InQueue(h) /\ h # k
    OBVIOUS
  <2>1. ASSUME InQueue(h)' PROVE InQueue(h) /\ h # k
    <3>1. PICK n \in DOMAIN queue' : queue'[n] = h
      BY <2>1 DEF InQueue
    <3>2. n + 1 \in DOMAIN queue /\ queue[n + 1] = h /\ n + 1 # 1 /\ 1 \in DOMAIN queue
      BY <1>1, <3>1
    <3> QED BY <1>1, <3>2 DEF InQueue, KeptInv, QueueOnce
  <2>2. ASSUME InQueue(h), h # k PROVE InQueue(h)'
    <3>1. PICK n \in DOMAIN queue : queue[n] = h
      BY <2>2 DEF InQueue
    <3>2. n # 1
      BY <1>1, <2>2, <3>1
    <3>3. n - 1 \in DOMAIN queue' /\ queue'[n - 1] = h
      BY <1>1, <3>1, <3>2
    <3> QED BY <3>3 DEF InQueue
  <2> QED BY <2>1, <2>2
<1>5. \A h \in Tasks : Held(h)' <=> Held(h) \/ h = k
  BY <1>2 DEF Takes, Held
<1>6. QueueOnce'
  <2>1. ASSUME NEW n \in DOMAIN queue' PROVE queue'[n] \in Accepted'
    BY <1>1, <2>1 DEF Takes, KeptInv, QueueOnce
  <2>2. ASSUME NEW n \in DOMAIN queue', NEW m \in DOMAIN queue', queue'[n] = queue'[m]
        PROVE  n = m
    <3>1. n + 1 \in DOMAIN queue /\ m + 1 \in DOMAIN queue
          /\ queue[n + 1] = queue[m + 1]
      BY <1>1, <2>2
    <3>2. n + 1 = m + 1 /\ n \in Int /\ m \in Int
      BY <1>1, <3>1 DEF KeptInv, QueueOnce
    <3> QED BY <3>2
  <2> QED BY <2>1, <2>2 DEF QueueOnce
<1>7. HandsOnce'
  BY <1>2, <1>3 DEF Takes, KeptInv, HandsOnce, Held
<1>8. Apart'
  BY <1>3, <1>4, <1>5 DEF KeptInv, Apart
<1>9. RunOnce'
  BY <1>3, <1>4, <1>5 DEF Takes, KeptInv, RunOnce
<1>10. NoneDropped'
  BY <1>3, <1>4, <1>5 DEF Takes, KeptInv, NoneDropped, Accepted
<1> QED BY <1>6, <1>7, <1>8, <1>9, <1>10 DEF KeptInv

\* A worker that lets go of its task, whether executed or not.
LEMMA LetsGo ==
  ASSUME Types, KeptInv, NEW i \in Ids, task' = [task EXCEPT ![i] = NoTask],
         UNCHANGED queue, Accepted' = Accepted
  PROVE  /\ QueueOnce' /\ HandsOnce' /\ Apart'
         /\ \A h \in Tasks : InQueue(h)' <=> InQueue(h)
         /\ \A h \in Tasks : Held(h)' <=> Held(h) /\ h # task[i]
<1>1. task'[i] = NoTask /\ \A j \in Ids : j # i => task'[j] = task[j]
  BY DEF Types, WorkersOK
<1>2. \A h \in Tasks : InQueue(h)' <=> InQueue(h)
  BY DEF InQueue
<1>3. \A h \in Tasks : Held(h)' <=> Held(h) /\ h # task[i]
  BY <1>1, PoolAssumption DEF Held, KeptInv, HandsOnce
<1>4. QueueOnce'
  BY DEF KeptInv, QueueOnce
<1>5. HandsOnce'
  BY <1>1, PoolAssumption DEF KeptInv, HandsOnce
<1>6. Apart'
  BY <1>2, <1>3 DEF KeptInv, Apart
<1> QED BY <1>2, <1>3, <1>4, <1>5, <1>6

LEMMA ExecutesKeeps ==
  ASSUME Types, KeptInv, NEW i \in Ids, Executes(i)
  PROVE  KeptInv'
<1> DEFINE k == task[i]
<1>1. k \in Accepted /\ k \in Tasks /\ Held(k) /\ ~InQueue(k) /\ executed[k] = 0
  BY DEF Executes, KeptInv, HandsOnce, Apart, RunOnce, Held
<1>2. executed'[k] = 1 /\ \A h \in Tasks : h # k => executed'[h] = executed[h]
  BY <1>1 DEF Executes, Types, TasksOK
<1>3. /\ QueueOnce' /\ HandsOnce' /\ Apart'
      /\ \A h \in Tasks : InQueue(h)' <=> InQueue(h)
      /\ \A h \in Tasks : Held(h)' <=> Held(h) /\ h # k
  BY LetsGo DEF Executes
<1> HIDE DEF k
<1>4. RunOnce'
  BY <1>1, <1>2, <1>3 DEF Executes, KeptInv, RunOnce
<1>5. NoneDropped'
  BY <1>1, <1>2, <1>3 DEF Executes, KeptInv, NoneDropped, Accepted
<1> QED BY <1>3, <1>4, <1>5 DEF KeptInv

LEMMA DropsKeeps ==
  ASSUME Types, KeptInv, NEW i \in Ids, Drops(i)
  PROVE  KeptInv'
<1>1. /\ QueueOnce' /\ HandsOnce' /\ Apart'
      /\ \A h \in Tasks : InQueue(h)' <=> InQueue(h)
      /\ \A h \in Tasks : Held(h)' <=> Held(h) /\ h # task[i]
  BY LetsGo DEF Drops
<1>2. RunOnce'
  BY <1>1 DEF Drops, KeptInv, RunOnce
<1>3. NoneDropped'
  BY DEF Drops, NoneDropped
<1> QED BY <1>1, <1>2, <1>3 DEF KeptInv

\* Every step does one of these.
Move ==
  \/ Still
  \/ \E k \in Tasks : Accepts(k)
  \/ \E i \in Ids : Takes(i) \/ Executes(i) \/ Drops(i)

\* Every step does one of the five.
LEMMA StepsMove == ASSUME PoolInv, Next PROVE Move
<1>0. Types /\ LeanInv
  BY DEF PoolInv
<1>1. ASSUME NEW s \in Starts,
             Start(s) \/ addWorker(s) \/ StartMonitor(s) \/ adjustWorkers(s)
               \/ MonitorQuits(s)
      PROVE  Move
  BY <1>1 DEF Start, addWorker, StartMonitor, adjustWorkers, MonitorQuits, Move,
              Still, Accepted
<1>2. ASSUME NEW t \in Stops, Stop(t) \/ StopStep(t) PROVE Move
  BY <1>2 DEF Stop, StopStep, StopCancel, StopClose, StopWait, StopReturn, Move,
              Still, Accepted
<1>3. ASSUME NEW k \in Tasks, SubmitStep(k) PROVE Move
  <2>1. CASE SubmitCheck(k)
    <3>1. Accepted' = Accepted
      BY <1>0, <2>1 DEF SubmitCheck, Accepted, Types, TasksOK
    <3> QED BY <2>1, <3>1 DEF SubmitCheck, Move, Still
  <2>2. CASE SubmitSend(k) /\ ~qClosed /\ Len(queue) < QueueSize
    <3>1. subPc'[k] = "accepted" /\ subPc[k] = "send"
          /\ \A h \in Tasks : h # k => subPc'[h] = subPc[h]
      BY <1>0, <2>2 DEF SubmitSend, Types, TasksOK
    <3>2. k \notin Accepted /\ Accepted' = Accepted \cup {k}
      BY <3>1 DEF Accepted
    <3> QED BY <2>2, <3>2 DEF SubmitSend, Move, Accepts
  <2>3. CASE SubmitSend(k) /\ ~(~qClosed /\ Len(queue) < QueueSize)
    <3>1. Accepted' = Accepted
      BY <1>0, <2>3 DEF SubmitSend, Accepted, Types, TasksOK
    <3> QED BY <2>3, <3>1 DEF SubmitSend, Move, Still
  <2> QED BY <1>3, <2>1, <2>2, <2>3 DEF SubmitStep
<1>4. ASSUME NEW i \in Ids, WorkerStep(i) PROVE Move
  <2>1. Accepted' = Accepted
    BY <1>4 DEF WorkerStep, WorkerQuits, Take, WorkerDecides, Execute, WorkerRan,
                removeWorker, Accepted
  <2>2. CASE WorkerQuits(i) \/ WorkerRan(i) \/ removeWorker(i)
    BY <2>1, <2>2 DEF WorkerQuits, WorkerRan, removeWorker, Move, Still
  <2>3. CASE Take(i)
    <3>1. task[i] \notin Tasks
      BY <1>0, <2>3 DEF Take, Types, WorkersOK
    <3> QED BY <2>1, <2>3, <3>1 DEF Take, Move, Takes
  <2>4. CASE WorkerDecides(i) /\ Gone(i)
    <3>1. ~orderly
      BY <1>0, <2>4 DEF Gone, LeanInv, Lean
    <3> QED BY <2>1, <2>4, <3>1 DEF WorkerDecides, Move, Drops
  <2>5. CASE WorkerDecides(i) /\ ~Gone(i)
    BY <2>1, <2>5 DEF WorkerDecides, Move, Still
  <2>6. CASE Execute(i)
    <3>1. task[i] \in Tasks
      BY <1>0, <2>6 DEF Execute, Types, WorkersOK
    <3> QED BY <2>1, <2>6, <3>1 DEF Execute, Move, Executes
  <2> QED BY <1>4, <2>2, <2>3, <2>4, <2>5, <2>6 DEF WorkerStep
<1> QED BY <1>1, <1>2, <1>3, <1>4 DEF Next, StartStep

\* A property of at most one member counts to one or zero.
LEMMA AtMostOne ==
  ASSUME NEW S, \A x, y \in S : x = y
  PROVE  Cardinality(S) = IF S = {} THEN 0 ELSE 1
<1>1. CASE S = {}
  BY <1>1, FS_EmptySet
<1>2. CASE S # {}
  <2>1. PICK x \in S : S = {x}
    BY <1>2
  <2> QED BY <1>2, <2>1, FS_Singleton
<1> QED BY <1>1, <1>2

\* Being in one place is what TaskKept says.
LEMMA PlacesCounted == ASSUME Types, KeptInv PROVE TaskKept
<1> SUFFICES ASSUME NEW k \in Tasks
             PROVE  LET due == IF subPc[k] = "accepted" THEN 1 ELSE 0 IN
                      Occurs(k) <= due /\ (orderly => Occurs(k) = due)
  BY DEF TaskKept
<1> DEFINE At == {n \in DOMAIN queue : queue[n] = k}
           By == {i \in Ids : task[i] = k}
<1>1. Cardinality(At) = IF InQueue(k) THEN 1 ELSE 0
  <2>1. \A n, m \in At : n = m
    BY DEF KeptInv, QueueOnce
  <2>2. At = {} <=> ~InQueue(k)
    BY DEF InQueue
  <2> HIDE DEF At
  <2> QED BY <2>1, <2>2, AtMostOne
<1>2. Cardinality(By) = IF Held(k) THEN 1 ELSE 0
  <2>1. \A i, j \in By : i = j
    BY DEF KeptInv, HandsOnce
  <2>2. By = {} <=> ~Held(k)
    BY DEF Held
  <2> HIDE DEF By
  <2> QED BY <2>1, <2>2, AtMostOne
<1>3. Occurs(k) = Cardinality(At) + Cardinality(By) + executed[k]
  BY DEF Occurs
<1> HIDE DEF At, By
<1>4. InQueue(k) \/ Held(k) \/ executed[k] = 1 => subPc[k] = "accepted"
  BY DEF KeptInv, QueueOnce, HandsOnce, RunOnce, InQueue, Held, Accepted
<1>5. ~(InQueue(k) /\ Held(k))
      /\ (executed[k] = 0 \/ (executed[k] = 1 /\ ~InQueue(k) /\ ~Held(k)))
  BY DEF KeptInv, Apart, RunOnce
<1>6. orderly /\ subPc[k] = "accepted" => InQueue(k) \/ Held(k) \/ executed[k] = 1
  BY DEF KeptInv, NoneDropped, Accepted
<1> QED BY <1>1, <1>2, <1>3, <1>4, <1>5, <1>6

\* What Submit accepted is in the queue, with one worker or was executed once,
\* and what it refused never runs, for any number of workers, submitters,
\* Starts and Stops; only surplus workers drop a task, and those take a Start
\* that follows a Stop (Submit, run, adjustWorkers).
THEOREM TasksKept == Spec => []TaskKept
<1>1. Init => KeptInv
  BY PoolAssumption DEF Init, KeptInv, QueueOnce, HandsOnce, Apart, RunOnce,
                        NoneDropped, InQueue, Held, Accepted
<1>2. PoolInv /\ KeptInv /\ [Next]_vars => KeptInv'
  <2>1. ASSUME PoolInv, KeptInv, UNCHANGED vars PROVE KeptInv'
    BY <2>1, StillKeeps DEF Still, vars, Accepted
  <2>2. ASSUME PoolInv, KeptInv, Next PROVE KeptInv'
    <3>1. Move /\ Types
      BY <2>2, StepsMove DEF PoolInv
    <3> QED BY <2>2, <3>1, StillKeeps, AcceptsKeeps, TakesKeeps, ExecutesKeeps,
               DropsKeeps
            DEF Move
  <2> QED BY <2>1, <2>2
<1>3. PoolInv /\ KeptInv => TaskKept
  BY PlacesCounted DEF PoolInv
<1> QED BY <1>1, <1>2, <1>3, InitPool, NextPool, PTL DEF Spec
=============================================================================
