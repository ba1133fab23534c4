-------------------------- MODULE BaseServerProofs --------------------------
(***************************************************************************)
(* For any number of clients and of calls of Start and Stop, and for any   *)
(* MaxConnections, of pkg/core/server.go: the limit on connections, the    *)
(* types, that ActiveConnections is exact, and that nothing runs once a    *)
(* Stop has returned.                                                      *)
(***************************************************************************)
EXTENDS BaseServer, FiniteSetTheorems, TLAPS

\* The part of the type invariant the limit depends on.
AcceptTypes ==
  /\ aPc \in [Starts -> {"none", "check", "accept", "limit", "store", "serve",
                         "exit"}]
  /\ sPc \in [Starts -> {"idle", "listen", "publish", "spawn", "returned",
                         "failed"}]
  /\ IsFiniteSet(connections)

\* An accept loop belongs to a Start that returned.
LoopsStarted == \A a \in Starts : aPc[a] # "none" => sPc[a] = "returned"

LimitInv == AcceptTypes /\ LoopsStarted /\ ConnectionLimit

\* What the invariant speaks of.
limitVars == <<aPc, sPc, connections>>

\* Every step of the server but these four kinds leaves the stored
\* connections and Storing alone, and starts no loop.
Harmless ==
  /\ connections' = connections
  /\ sPc' \in [Starts -> {"idle", "listen", "publish", "spawn", "returned",
                          "failed"}]
  /\ aPc' \in [Starts -> {"none", "check", "accept", "limit", "store", "serve",
                          "exit"}]
  /\ \A a \in Starts :
       /\ aPc'[a] = "store" <=> aPc[a] = "store"
       /\ aPc'[a] # "none" => aPc[a] # "none"
       /\ sPc'[a] = "returned" <=> sPc[a] = "returned"

-----------------------------------------------------------------------------
\* The sets that are counted are finite, and only loops of Starts that
\* returned are about to store.
LEMMA StoringStarted ==
  ASSUME AcceptTypes, LoopsStarted
  PROVE  /\ IsFiniteSet(Started) /\ IsFiniteSet(Storing)
         /\ Storing \subseteq Started
         /\ Cardinality(Started) \in Nat /\ Cardinality(Storing) \in Nat
         /\ Cardinality(connections) \in Nat
  <1>1. Storing \subseteq Started /\ Started \subseteq Starts
    BY DEF Storing, Started, LoopsStarted
  <1>2. IsFiniteSet(Started)
    BY <1>1, ServerAssumption, FS_Subset
  <1>3. IsFiniteSet(Storing)
    BY <1>1, <1>2, FS_Subset
  <1>4. QED
    BY <1>1, <1>2, <1>3, FS_CardinalityType DEF AcceptTypes

\* A harmless step keeps the limit.
LEMMA HarmlessStep ==
  ASSUME LimitInv, Harmless
  PROVE  LimitInv'
  <1>1. AcceptTypes' /\ LoopsStarted'
    BY DEF LimitInv, Harmless, AcceptTypes, LoopsStarted
  <1>2. Started' = Started /\ Storing' = Storing
    BY DEF Harmless, Started, Storing
  <1>3. ConnectionLimit'
    BY <1>2 DEF LimitInv, Harmless, ConnectionLimit
  <1>4. QED
    BY <1>1, <1>3 DEF LimitInv

\* CheckLimit: there is room for one, and every other loop may have found
\* the same room.
LEMMA CheckLimitStep ==
  ASSUME LimitInv, NEW a \in Starts, CheckLimit(a)
  PROVE  LimitInv'
  <1> USE DEF LimitInv
  <1>1. CASE AtLimit
    <2>1. Harmless
      BY <1>1 DEF CheckLimit, Harmless, AcceptTypes, startVars, stopVars
    <2>2. QED
      BY <2>1, HarmlessStep
  <1>2. CASE ~AtLimit
    <2>1. /\ aPc' = [aPc EXCEPT ![a] = "store"] /\ aPc[a] = "limit"
          /\ sPc' = sPc /\ connections' = connections
      BY <1>2 DEF CheckLimit, startVars, stopVars
    <2>2. AcceptTypes' /\ LoopsStarted'
      BY <2>1 DEF AcceptTypes, LoopsStarted
    <2>3. /\ Started' = Started /\ a \in Started
          /\ Storing' = Storing \cup {a} /\ a \notin Storing
      BY <2>1 DEF AcceptTypes, LoopsStarted, Started, Storing
    <2>4. /\ IsFiniteSet(Started) /\ IsFiniteSet(Storing)
          /\ Storing \subseteq Started
          /\ Cardinality(Started) \in Nat /\ Cardinality(Storing) \in Nat
          /\ Cardinality(connections) \in Nat
      BY StoringStarted
    <2>5. /\ Cardinality(Storing') = Cardinality(Storing) + 1
          /\ Storing' \subseteq Started
      BY <2>3, <2>4, FS_AddElement
    <2>6. Cardinality(Storing') <= Cardinality(Started)
      BY <2>4, <2>5, FS_Subset
    <2>7. Cardinality(connections) + 1 <= MaxConnections
      BY <1>2, <2>4, ServerAssumption DEF AtLimit
    <2>8. ConnectionLimit'
      BY <2>1, <2>3, <2>4, <2>5, <2>6, <2>7, ServerAssumption
         DEF ConnectionLimit
    <2>9. QED
      BY <2>2, <2>8
  <1>3. QED
    BY <1>1, <1>2

\* StoreConn: what was about to be stored is stored.
LEMMA StoreConnStep ==
  ASSUME LimitInv, NEW a \in Starts, StoreConn(a)
  PROVE  LimitInv'
  <1> USE DEF LimitInv
  <1>1. /\ aPc' = [aPc EXCEPT ![a] = "serve"] /\ aPc[a] = "store"
        /\ sPc' = sPc /\ connections' = connections \cup {aConn[a]}
    BY DEF StoreConn, startVars
  <1>2. /\ IsFiniteSet(Storing) /\ Cardinality(Storing) \in Nat
        /\ Cardinality(Started) \in Nat /\ Cardinality(connections) \in Nat
    BY StoringStarted
  <1>3. /\ IsFiniteSet(connections')
        /\ Cardinality(connections') \in Nat
        /\ Cardinality(connections') <= Cardinality(connections) + 1
    <2>1. IsFiniteSet(connections)
      BY DEF AcceptTypes
    <2>2. /\ IsFiniteSet(connections \cup {aConn[a]})
          /\ \/ Cardinality(connections \cup {aConn[a]})
                  = Cardinality(connections)
             \/ Cardinality(connections \cup {aConn[a]})
                  = Cardinality(connections) + 1
      BY <2>1, FS_AddElement
    <2>3. QED
      BY <1>1, <1>2, <2>2
  <1>4. AcceptTypes' /\ LoopsStarted'
    BY <1>1, <1>3 DEF AcceptTypes, LoopsStarted
  <1>5. Started' = Started /\ Storing' = Storing \ {a} /\ a \in Storing
    BY <1>1 DEF AcceptTypes, Started, Storing
  <1>6. Cardinality(Storing') = Cardinality(Storing) - 1
    BY <1>2, <1>5, FS_RemoveElement
  <1>7. ConnectionLimit'
    BY <1>2, <1>3, <1>5, <1>6, ServerAssumption DEF ConnectionLimit
  <1>8. QED
    BY <1>4, <1>7

\* SpawnLoops: one more Start has returned, so the bound may grow by one.
LEMMA SpawnLoopsStep ==
  ASSUME LimitInv, NEW s \in Starts, SpawnLoops(s)
  PROVE  LimitInv'
  <1> USE DEF LimitInv
  <1>1. /\ aPc' = [aPc EXCEPT ![s] = "check"]
        /\ sPc' = [sPc EXCEPT ![s] = "returned"] /\ sPc[s] = "spawn"
        /\ connections' = connections
    BY DEF SpawnLoops, connVars
  <1>2. aPc[s] = "none"
    BY <1>1 DEF LoopsStarted
  <1>3. AcceptTypes' /\ LoopsStarted'
    BY <1>1 DEF AcceptTypes, LoopsStarted
  <1>4. /\ Storing' = Storing
        /\ Started' = Started \cup {s} /\ s \notin Started
    BY <1>1, <1>2 DEF AcceptTypes, Started, Storing
  <1>5. /\ IsFiniteSet(Started)
        /\ Cardinality(Started) \in Nat /\ Cardinality(Storing) \in Nat
        /\ Cardinality(connections) \in Nat
    BY StoringStarted
  <1>6. Cardinality(Started') = Cardinality(Started) + 1
    BY <1>4, <1>5, FS_AddElement
  <1>7. Started = {} => Cardinality(Started) = 0
    BY FS_EmptySet
  <1>8. ConnectionLimit'
    BY <1>1, <1>4, <1>5, <1>6, <1>7, ServerAssumption DEF ConnectionLimit
  <1>9. QED
    BY <1>3, <1>8

\* Deregister: the bound is not reached more closely.
LEMMA DeregisterStep ==
  ASSUME LimitInv, NEW c \in Conns, Deregister(c)
  PROVE  LimitInv'
  <1> USE DEF LimitInv
  <1>1. /\ aPc' = aPc /\ sPc' = sPc /\ connections' = connections \ {c}
    BY DEF Deregister, startVars, loopVars
  <1>2. /\ Cardinality(Started) \in Nat /\ Cardinality(Storing) \in Nat
        /\ Cardinality(connections) \in Nat
    BY StoringStarted
  <1>3. /\ IsFiniteSet(connections') /\ Cardinality(connections') \in Nat
        /\ Cardinality(connections') <= Cardinality(connections)
    BY <1>1, FS_Subset, FS_CardinalityType DEF AcceptTypes
  <1>4. AcceptTypes' /\ LoopsStarted'
    BY <1>1, <1>3 DEF AcceptTypes, LoopsStarted
  <1>5. Started' = Started /\ Storing' = Storing
    BY <1>1 DEF Started, Storing
  <1>6. ConnectionLimit'
    BY <1>2, <1>3, <1>5, ServerAssumption DEF ConnectionLimit
  <1>7. QED
    BY <1>4, <1>6

-----------------------------------------------------------------------------
\* The steps of Start before it spawns its loops.
LEMMA StartHarmless ==
  ASSUME LimitInv, NEW s \in Starts,
         StartCall(s) \/ Listen(s) \/ ListenFails(s) \/ Publish(s)
  PROVE  Harmless
  BY DEF LimitInv, AcceptTypes, Harmless, StartCall, Listen, ListenFails,
         Publish, loopVars, connVars

\* A step of somebody who has no accept loop and stores nothing.
LEMMA UntouchedHarmless ==
  ASSUME LimitInv, UNCHANGED limitVars
  PROVE  Harmless
  BY DEF LimitInv, AcceptTypes, Harmless, limitVars

\* All an accept loop does but comparing and storing is harmless.
LEMMA AcceptHarmless ==
  ASSUME LimitInv, NEW a \in Starts,
         \/ AcceptCheck(a) \/ AcceptFails(a) \/ Serve(a)
         \/ \E c \in Conns : Accept(a, c)
  PROVE  Harmless
  BY DEF LimitInv, AcceptTypes, Harmless, AcceptCheck, AcceptFails, Serve,
         Accept, AcceptLoopEnds, startVars, connVars

\* A Stop leaves connections and loops alone as far as the limit counts them.
LEMMA StopUntouched ==
  ASSUME NEW t \in Stops, StopCall(t) \/ StopStep(t)
  PROVE  UNCHANGED limitVars
  BY DEF StopCall, StopStep, StopCancel, StopListener, StopRange, StopClose,
         StopWait, StopReturn, limitVars, startVars, loopVars, connVars

\* So do the heartbeat and statistics loops.
LEMMA HeartUntouched ==
  ASSUME NEW s \in Starts, HeartStep(s) \/ HeartLoopEnds(s) \/ StatsLoopEnds(s)
  PROVE  UNCHANGED limitVars
  BY DEF HeartStep, HeartLoopEnds, StatsLoopEnds, HeartTick, HeartCloses,
         HeartRested, HeartSkip, HeartFinds, limitVars, startVars, loopVars,
         connVars

\* So do the clients.
LEMMA ClientUntouched ==
  ASSUME NEW c \in Conns, ClientStep(c)
  PROVE  UNCHANGED limitVars
  BY DEF ClientStep, PeerSends, PeerHangsUp, IdleTimeout, AppSends, AppCloses,
         Dial, limitVars, startVars, loopVars, connVars

\* A handleConnection goroutine, until it leaves the map and after.
LEMMA ConnUntouched ==
  ASSUME NEW c \in Conns, ConnStep(c), ~Deregister(c)
  PROVE  UNCHANGED limitVars
  <1> USE DEF limitVars, startVars, loopVars, connVars
  <1>1. CASE OnConnect(c) \/ Connected(c) \/ LoopCheck(c) \/ MessageDone(c)
    BY <1>1 DEF OnConnect, Connected, LoopCheck, MessageDone, Moves
  <1>2. CASE ReadData(c) \/ ReadFails(c) \/ ReadTimesOut(c)
    BY <1>2 DEF ReadData, ReadFails, ReadTimesOut, Moves
  <1>3. CASE CountDown(c) \/ CloseOwn(c) \/ Disconnected(c)
    BY <1>3 DEF CountDown, CloseOwn, Disconnected
  <1>4. QED
    BY <1>1, <1>2, <1>3 DEF ConnStep

-----------------------------------------------------------------------------
\* However many clients connect and however often Start and Stop race, the
\* connections stored and about to be stored stay within MaxConnections, but
\* for one for each accept loop beyond the first (server.go:159-168).
THEOREM LimitHolds == Spec => []ConnectionLimit
  <1>1. Init => LimitInv
    <2> SUFFICES ASSUME Init PROVE LimitInv
      OBVIOUS
    <2>1. AcceptTypes /\ LoopsStarted
      BY FS_EmptySet DEF Init, AcceptTypes, LoopsStarted
    <2>2. Started = {} /\ Storing = {} /\ connections = {}
      BY DEF Init, Started, Storing
    <2>3. ConnectionLimit
      BY <2>2, FS_EmptySet, ServerAssumption DEF ConnectionLimit
    <2>4. QED
      BY <2>1, <2>3 DEF LimitInv
  <1>2. LimitInv /\ [Next]_vars => LimitInv'
    <2> SUFFICES ASSUME LimitInv, [Next]_vars PROVE LimitInv'
      OBVIOUS
    <2>1. ASSUME NEW s \in Starts, StartStep(s)
          PROVE  LimitInv'
      BY <2>1, StartHarmless, HarmlessStep, SpawnLoopsStep DEF StartStep
    <2>2. ASSUME NEW a \in Starts,
                 \/ AcceptStep(a) \/ AcceptFails(a)
                 \/ \E c \in Conns : Accept(a, c)
          PROVE  LimitInv'
      BY <2>2, AcceptHarmless, HarmlessStep, CheckLimitStep, StoreConnStep
         DEF AcceptStep
    <2>3. ASSUME NEW s \in Starts,
                 HeartStep(s) \/ HeartLoopEnds(s) \/ StatsLoopEnds(s)
          PROVE  LimitInv'
      BY <2>3, HeartUntouched, UntouchedHarmless, HarmlessStep
    <2>4. ASSUME NEW t \in Stops, StopCall(t) \/ StopStep(t)
          PROVE  LimitInv'
      BY <2>4, StopUntouched, UntouchedHarmless, HarmlessStep
    <2>5. ASSUME NEW c \in Conns, ConnStep(c) \/ ClientStep(c)
          PROVE  LimitInv'
      BY <2>5, ConnUntouched, ClientUntouched, DeregisterStep,
         UntouchedHarmless, HarmlessStep
    <2>6. CASE UNCHANGED vars
      BY <2>6, UntouchedHarmless, HarmlessStep
         DEF vars, limitVars, startVars, loopVars, connVars
    <2>7. QED
      BY <2>1, <2>2, <2>3, <2>4, <2>5, <2>6 DEF Next
  <1>3. LimitInv => ConnectionLimit
    BY DEF LimitInv
  <1>4. QED
    BY <1>1, <1>2, <1>3, PTL DEF Spec
-----------------------------------------------------------------------------
(***************************************************************************)
(* The counters and the rest after Stop.  An accept loop has a connection  *)
(* in hand from Accept until its goroutine is spawned, and a connection is *)
(* stored from StoreConn until it deregisters itself: with these the       *)
(* WaitGroup is the number of goroutines, so that Stop finds it at zero    *)
(* only when nothing is left.                                              *)
(***************************************************************************)
InHand(a) == aPc[a] \in {"limit", "store", "serve"}

\* The handlers that are still stored, and the loops Stop waits for.
Running    == Counted \ {"count"}
LoopAlive  == {"check", "accept", "limit", "store", "serve"}
HeartAlive == {"wait", "range", "close"}

Loops    == {a \in Starts : aPc[a] \in LoopAlive}
Hearts   == {s \in Starts : hPc[s] \in HeartAlive}
Handlers == {c \in Conns : stage[c] \in Served}
Tallied  == {c \in Conns : stage[c] \in Counted}
Leaving  == {c \in Conns : stage[c] = "count"}
Serving  == {a \in Starts : aPc[a] = "serve"}

Flags ==
  /\ heartbeat \in BOOLEAN /\ running \in BOOLEAN
  /\ cancelled \in BOOLEAN /\ crashed \in BOOLEAN

\* The type invariant without what a prover of its own is better at: the
\* flags, and that the counters are never negative.
StartTypes ==
  /\ listener \in Starts \cup {NoListener} /\ open \subseteq Starts
  /\ sPc \in [Starts -> {"idle", "listen", "publish", "spawn", "returned",
                         "failed"}]
StopTypes ==
  /\ tPc \in [Stops -> {"idle", "cancel", "unlisten", "range", "closing",
                        "blocked", "woken", "stopped", "refused"}]
  /\ visiting \in [Stops -> SUBSET Conns]
LoopTypes ==
  /\ aPc \in [Starts -> {"none", "check", "accept", "limit", "store", "serve",
                         "exit"}]
  /\ aOn \in [Starts -> Starts \cup {NoListener}]
  /\ aConn \in [Starts -> Conns \cup {NoConn}]
HeartTypes ==
  /\ statsLoops \subseteq Starts
  /\ hPc \in [Starts -> {"none", "wait", "range", "close", "exit"}]
  /\ hVisit \in [Starts -> SUBSET Conns]
  /\ hConn \in [Starts -> Conns \cup {NoConn}]
ConnTypes ==
  /\ connections \subseteq Conns
  /\ stage \in [Conns -> Stages]
  /\ dialled \in [Conns -> Starts \cup {NoListener}]
  /\ closed \subseteq Conns /\ hungUp \subseteq Conns
  /\ unread \subseteq Conns /\ idle \subseteq Conns
Types == StartTypes /\ StopTypes /\ LoopTypes /\ HeartTypes /\ ConnTypes

\* A loop has a connection in hand that nobody else has, and only such
\* connections are between Accept and their goroutine.
HandInv ==
  /\ \A a \in Starts :
       InHand(a) => aConn[a] \in Conns /\ stage[aConn[a]] = "got"
  /\ \A a, b \in Starts :
       InHand(a) /\ InHand(b) /\ aConn[a] = aConn[b] => a = b
  /\ \A c \in Conns :
       stage[c] = "got" => \E a \in Starts : InHand(a) /\ aConn[a] = c

\* What is stored is served, or about to be.
StoredInv ==
  /\ \A c \in Conns : stage[c] \in Running => c \in connections
  /\ \A c \in connections :
       \/ stage[c] \in Running
       \/ \E a \in Starts : aPc[a] = "serve" /\ aConn[a] = c
  /\ \A a \in Starts : aPc[a] = "serve" => aConn[a] \in connections

HeartInv == \A s \in Starts : hPc[s] = "close" => hConn[s] \in Conns

\* Nothing runs for a Start that has not spawned it.
SpawnInv ==
  \A s \in Starts :
    sPc[s] # "returned" => aPc[s] = "none" /\ hPc[s] = "none"
                             /\ s \notin statsLoops

CloseInv == \A c \in Conns : stage[c] \in {"bye", "done"} => c \in closed

\* The two counters count what they are there to count.
MatchInv ==
  active = Cardinality(connections) + Cardinality(Leaving)
             - Cardinality(Serving)
CountInv ==
  /\ active = Cardinality(Tallied)
  /\ wg = Cardinality(Loops) + Cardinality(statsLoops) + Cardinality(Hearts)
            + Cardinality(Handlers)

\* All that is left once Stop found the WaitGroup at zero.  It stays so:
\* a Start that spawns its loops late finds the context done.
AtRest ==
  /\ cancelled /\ connections = {}
  /\ \A a \in Starts : aPc[a] \in {"none", "check", "exit"}
  /\ \A c \in Conns : stage[c] \in {"out", "queued", "refused", "done"}

StopInv ==
  \A t \in Stops :
    /\ tPc[t] \in {"unlisten", "range", "closing", "blocked", "woken",
                   "stopped"} => cancelled
    /\ tPc[t] \in {"woken", "stopped"} => AtRest

BookInv == HandInv /\ StoredInv /\ CountInv /\ MatchInv

ServerInv == Types /\ BookInv /\ HeartInv /\ SpawnInv /\ CloseInv

\* A step that moves nothing across a line the counts and the connections
\* in hand depend on.
Steady ==
  /\ connections' = connections /\ aConn' = aConn
  /\ active' = active /\ wg' = wg /\ statsLoops' = statsLoops
  /\ \A a \in Starts :
       /\ InHand(a)' <=> InHand(a)
       /\ aPc'[a] = "serve" <=> aPc[a] = "serve"
       /\ aPc'[a] \in LoopAlive <=> aPc[a] \in LoopAlive
       /\ hPc'[a] \in HeartAlive <=> hPc[a] \in HeartAlive
  /\ \A c \in Conns :
       /\ stage'[c] = "got" <=> stage[c] = "got"
       /\ stage'[c] = "count" <=> stage[c] = "count"
       /\ stage'[c] \in Running <=> stage[c] \in Running
       /\ stage'[c] \in Counted <=> stage[c] \in Counted
       /\ stage'[c] \in Served <=> stage[c] \in Served

\* Counting one more, and one less.
LEMMA AddOne ==
  ASSUME NEW S, IsFiniteSet(S), NEW x, x \notin S
  PROVE  Cardinality(S \cup {x}) = Cardinality(S) + 1
  BY FS_AddElement

LEMMA RemoveOne ==
  ASSUME NEW S, IsFiniteSet(S), NEW x, x \in S
  PROVE  Cardinality(S \ {x}) = Cardinality(S) - 1
  BY FS_RemoveElement

\* What is counted is finite.
LEMMA CountsFinite ==
  ASSUME Types
  PROVE  /\ IsFiniteSet(connections) /\ Cardinality(connections) \in Nat
         /\ IsFiniteSet(Loops) /\ Cardinality(Loops) \in Nat
         /\ IsFiniteSet(statsLoops) /\ Cardinality(statsLoops) \in Nat
         /\ IsFiniteSet(Hearts) /\ Cardinality(Hearts) \in Nat
         /\ IsFiniteSet(Handlers) /\ Cardinality(Handlers) \in Nat
         /\ IsFiniteSet(Tallied) /\ Cardinality(Tallied) \in Nat
         /\ IsFiniteSet(Leaving) /\ Cardinality(Leaving) \in Nat
         /\ IsFiniteSet(Serving) /\ Cardinality(Serving) \in Nat
  <1>1. /\ Loops \subseteq Starts /\ Hearts \subseteq Starts
        /\ Serving \subseteq Starts /\ statsLoops \subseteq Starts
    BY DEF Loops, Hearts, Serving, Types, HeartTypes
  <1>2. /\ connections \subseteq Conns /\ Handlers \subseteq Conns
        /\ Tallied \subseteq Conns /\ Leaving \subseteq Conns
    BY DEF Handlers, Tallied, Leaving, Types, ConnTypes
  <1>3. /\ IsFiniteSet(Loops) /\ IsFiniteSet(Hearts) /\ IsFiniteSet(Serving)
        /\ IsFiniteSet(statsLoops)
    BY <1>1, ServerAssumption, FS_Subset
  <1>4. /\ IsFiniteSet(connections) /\ IsFiniteSet(Handlers)
        /\ IsFiniteSet(Tallied) /\ IsFiniteSet(Leaving)
    BY <1>2, ServerAssumption, FS_Subset
  <1>5. QED
    BY <1>3, <1>4, FS_CardinalityType

\* A steady step keeps the books.
LEMMA SteadyStep ==
  ASSUME Types, BookInv, Steady
  PROVE  BookInv'
  <1> USE DEF BookInv
  <1>1. HandInv'
    BY DEF HandInv, Steady
  <1>2. StoredInv'
    BY DEF StoredInv, Steady, Types, ConnTypes
  <1>3. /\ Loops' = Loops /\ Hearts' = Hearts /\ Handlers' = Handlers
        /\ Tallied' = Tallied /\ Leaving' = Leaving /\ Serving' = Serving
    BY DEF Steady, Loops, Hearts, Handlers, Tallied, Leaving, Serving
  <1>4. CountInv' /\ MatchInv'
    BY <1>3 DEF CountInv, MatchInv, Steady
  <1>5. QED
    BY <1>1, <1>2, <1>4

-----------------------------------------------------------------------------
\* Types, action by action.
LEMMA StartTyped ==
  ASSUME Types, NEW s \in Starts, StartStep(s)
  PROVE  Types'
  <1> USE DEF Types, StopTypes, LoopTypes, HeartTypes, ConnTypes, startVars,
              stopVars, loopVars, heartVars, netVars, doorVars, workVars,
              connVars
  <1>1. CASE StartCall(s)
    BY <1>1 DEF StartTypes, StartCall
  <1>2. CASE Listen(s) \/ ListenFails(s) \/ Publish(s)
    BY <1>2 DEF StartTypes, Listen, ListenFails, Publish
  <1>3. CASE SpawnLoops(s)
    BY <1>3 DEF StartTypes, SpawnLoops
  <1>4. QED
    BY <1>1, <1>2, <1>3 DEF StartStep

\* The types, by actor: Stop, the accept loops, the handlers, the heartbeat
\* and statistics loops, the clients.
LEMMA StopTyped ==
  ASSUME Types, NEW t \in Stops, StopCall(t) \/ StopStep(t)
  PROVE  Types'
  <1> USE DEF Types, StartTypes, StopTypes, LoopTypes, HeartTypes, ConnTypes,
              startVars, stopVars, loopVars, heartVars, netVars, doorVars,
              workVars, connVars
  <1>1. CASE StopCall(t) \/ StopCancel(t)
    BY <1>1 DEF StopCall, StopCancel
  <1>2. CASE StopListener(t)
    BY <1>2 DEF StopListener, Stages, Served, Counted
  <1>3. CASE StopRange(t)
    BY <1>3 DEF StopRange
  <1>4. CASE \E c \in Conns : StopClose(t, c)
    BY <1>4 DEF StopClose
  <1>5. CASE StopWait(t) \/ StopReturn(t)
    BY <1>5 DEF StopWait, StopReturn
  <1>6. QED
    BY <1>1, <1>2, <1>3, <1>4, <1>5 DEF StopStep

LEMMA AcceptTyped ==
  ASSUME Types, HandInv, NEW a \in Starts,
         AcceptStep(a) \/ AcceptFails(a) \/ \E c \in Conns : Accept(a, c)
  PROVE  Types'
  <1> USE DEF Types, StartTypes, StopTypes, LoopTypes, HeartTypes, ConnTypes,
              startVars, stopVars, loopVars, heartVars, netVars, doorVars,
              workVars, connVars
  <1>1. CASE AcceptCheck(a) \/ AcceptFails(a)
    BY <1>1 DEF AcceptCheck, AcceptFails, AcceptLoopEnds, WgDone
  <1>2. CASE \E c \in Conns : Accept(a, c)
    BY <1>2 DEF Accept, Stages, Served, Counted
  <1>3. CASE CheckLimit(a)
    BY <1>3 DEF CheckLimit, Stages, Served, Counted
  <1>4. CASE StoreConn(a)
    BY <1>4 DEF StoreConn, HandInv, InHand
  <1>5. CASE Serve(a)
    BY <1>5 DEF Serve, Stages, Served, Counted
  <1>6. QED
    BY <1>1, <1>2, <1>3, <1>4, <1>5 DEF AcceptStep

LEMMA ConnTyped ==
  ASSUME Types, NEW c \in Conns, ConnStep(c)
  PROVE  Types'
  <1> USE DEF Types, StartTypes, StopTypes, LoopTypes, HeartTypes, ConnTypes,
              startVars, stopVars, loopVars, heartVars, netVars, doorVars,
              workVars, connVars, Stages, Served, Counted
  <1>1. CASE OnConnect(c) \/ Connected(c) \/ LoopCheck(c) \/ MessageDone(c)
    BY <1>1 DEF OnConnect, Connected, LoopCheck, MessageDone, Moves
  <1>2. CASE ReadData(c) \/ ReadFails(c) \/ ReadTimesOut(c)
    BY <1>2 DEF ReadData, ReadFails, ReadTimesOut, Moves
  <1>3. CASE Deregister(c) \/ CountDown(c) \/ CloseOwn(c)
    BY <1>3 DEF Deregister, CountDown, CloseOwn
  <1>4. CASE Disconnected(c)
    BY <1>4 DEF Disconnected, WgDone
  <1>5. QED
    BY <1>1, <1>2, <1>3, <1>4 DEF ConnStep

LEMMA HeartTyped ==
  ASSUME Types, HeartInv, NEW s \in Starts,
         HeartStep(s) \/ HeartLoopEnds(s) \/ StatsLoopEnds(s)
  PROVE  Types'
  <1> USE DEF Types, StartTypes, StopTypes, LoopTypes, HeartTypes, ConnTypes,
              startVars, stopVars, loopVars, heartVars, netVars, doorVars,
              workVars, connVars
  <1>1. CASE HeartTick(s) \/ HeartRested(s)
    BY <1>1 DEF HeartTick, HeartRested
  <1>2. CASE HeartCloses(s)
    BY <1>2 DEF HeartCloses, HeartInv
  <1>3. CASE \E c \in Conns : HeartSkip(s, c) \/ HeartFinds(s, c)
    BY <1>3 DEF HeartSkip, HeartFinds
  <1>4. CASE HeartLoopEnds(s) \/ StatsLoopEnds(s)
    BY <1>4 DEF HeartLoopEnds, StatsLoopEnds, WgDone
  <1>5. QED
    BY <1>1, <1>2, <1>3, <1>4 DEF HeartStep

LEMMA ClientTyped ==
  ASSUME Types, NEW c \in Conns, ClientStep(c)
  PROVE  Types'
  <1> USE DEF Types, StartTypes, StopTypes, LoopTypes, HeartTypes, ConnTypes,
              startVars, stopVars, loopVars, heartVars, netVars, doorVars,
              workVars, connVars
  <1>1. CASE PeerSends(c) \/ PeerHangsUp(c) \/ IdleTimeout(c) \/ AppSends(c)
               \/ AppCloses(c)
    BY <1>1 DEF PeerSends, PeerHangsUp, IdleTimeout, AppSends, AppCloses
  <1>2. CASE \E s \in Starts : Dial(c, s)
    BY <1>2 DEF Dial, Stages, Served, Counted
  <1>3. QED
    BY <1>1, <1>2 DEF ClientStep

\* The flags: running, the context, and whether the WaitGroup panicked.
LEMMA FlagsStep ==
  ASSUME Flags, [Next]_vars
  PROVE  Flags'
  <1> USE DEF Flags, startVars, stopVars, loopVars, heartVars, netVars,
              doorVars, workVars, connVars
  <1>1. ASSUME NEW s \in Starts, StartStep(s)
        PROVE  Flags'
    BY <1>1, Zenon DEF StartStep, StartCall, Listen, ListenFails, Publish,
       SpawnLoops
  <1>2. ASSUME NEW t \in Stops, StopCall(t) \/ StopStep(t)
        PROVE  Flags'
    <2>1. CASE StopReturn(t)
      BY <2>1 DEF StopReturn
    <2>2. CASE StopCall(t) \/ StopCancel(t) \/ StopListener(t) \/ StopRange(t)
      BY <2>2, Zenon DEF StopCall, StopCancel, StopListener, StopRange
    <2>3. CASE (\E c \in Conns : StopClose(t, c)) \/ StopWait(t)
      BY <2>3, Zenon DEF StopClose, StopWait
    <2>4. QED
      BY <1>2, <2>1, <2>2, <2>3 DEF StopStep
  <1>3. ASSUME NEW a \in Starts,
               AcceptStep(a) \/ AcceptFails(a) \/ \E c \in Conns : Accept(a, c)
        PROVE  Flags'
    BY <1>3, Zenon DEF AcceptStep, AcceptFails, Accept, AcceptCheck, CheckLimit,
       StoreConn, Serve
  <1>4. ASSUME NEW c \in Conns, ConnStep(c)
        PROVE  Flags'
    <2>1. CASE OnConnect(c) \/ Connected(c) \/ LoopCheck(c) \/ MessageDone(c)
                 \/ ReadData(c) \/ ReadFails(c) \/ ReadTimesOut(c)
      <3>1. UNCHANGED <<heartbeat, running, cancelled, crashed>>
        BY <2>1 DEF OnConnect, Connected, LoopCheck, MessageDone, ReadData,
           ReadFails, ReadTimesOut, Moves
      <3>2. QED
        BY <3>1, Zenon
    <2>2. CASE Deregister(c) \/ CountDown(c) \/ CloseOwn(c) \/ Disconnected(c)
      BY <2>2, Zenon DEF Deregister, CountDown, CloseOwn, Disconnected
    <2>3. QED
      BY <1>4, <2>1, <2>2 DEF ConnStep
  <1>5. ASSUME NEW s \in Starts,
               HeartStep(s) \/ HeartLoopEnds(s) \/ StatsLoopEnds(s)
        PROVE  Flags'
    BY <1>5, Zenon DEF HeartStep, HeartLoopEnds, StatsLoopEnds, HeartTick,
       HeartCloses, HeartRested, HeartSkip, HeartFinds
  <1>6. ASSUME NEW c \in Conns, ClientStep(c)
        PROVE  Flags'
    BY <1>6, Zenon DEF ClientStep, PeerSends, PeerHangsUp, IdleTimeout,
       AppSends, AppCloses, Dial
  <1>7. CASE UNCHANGED vars
    BY <1>7, Zenon DEF vars
  <1>8. QED
    BY <1>1, <1>2, <1>3, <1>4, <1>5, <1>6, <1>7 DEF Next

-----------------------------------------------------------------------------
\* The steps that are steady.
LEMMA StartSteady ==
  ASSUME Types, NEW s \in Starts,
         StartCall(s) \/ Listen(s) \/ ListenFails(s) \/ Publish(s)
  PROVE  Steady
  BY DEF StartCall, Listen, ListenFails, Publish, Steady, InHand, loopVars,
         heartVars, workVars, connVars

\* Who is steady: Stop, the heartbeat loop, the clients, a stuttering step.
LEMMA StopSteady ==
  ASSUME Types, NEW t \in Stops, StopCall(t) \/ StopStep(t)
  PROVE  Steady
  <1> USE DEF Steady, InHand, loopVars, heartVars, workVars, connVars
  <1>1. CASE StopCall(t) \/ StopCancel(t) \/ StopRange(t)
    BY <1>1 DEF StopCall, StopCancel, StopRange
  <1>2. CASE StopListener(t)
    BY <1>2 DEF StopListener, Types, ConnTypes, Running, Counted, Served
  <1>3. CASE (\E c \in Conns : StopClose(t, c)) \/ StopWait(t) \/ StopReturn(t)
    BY <1>3 DEF StopClose, StopWait, StopReturn
  <1>4. QED
    BY <1>1, <1>2, <1>3 DEF StopStep

\* An accept loop between two connections, while the context is not done.
LEMMA AcceptSteady ==
  ASSUME Types, NEW a \in Starts, AcceptCheck(a) \/ AcceptFails(a), ~cancelled
  PROVE  Steady
  BY DEF AcceptCheck, AcceptFails, Steady, InHand, LoopAlive, heartVars,
         workVars, connVars, Types, LoopTypes

LEMMA HeartSteady ==
  ASSUME Types, NEW s \in Starts, HeartStep(s)
  PROVE  Steady
  <1> USE DEF Steady, InHand, HeartAlive, loopVars, workVars, connVars, Types,
              HeartTypes
  <1>1. CASE HeartTick(s) \/ HeartRested(s)
    BY <1>1 DEF HeartTick, HeartRested
  <1>2. CASE HeartCloses(s)
    BY <1>2 DEF HeartCloses
  <1>3. CASE \E c \in Conns : HeartSkip(s, c) \/ HeartFinds(s, c)
    BY <1>3 DEF HeartSkip, HeartFinds
  <1>4. QED
    BY <1>1, <1>2, <1>3 DEF HeartStep

LEMMA ClientSteady ==
  ASSUME Types, NEW c \in Conns, ClientStep(c)
  PROVE  Steady
  <1> USE DEF Steady, InHand, loopVars, heartVars, workVars, connVars
  <1>1. CASE PeerSends(c) \/ PeerHangsUp(c) \/ IdleTimeout(c) \/ AppSends(c)
               \/ AppCloses(c)
    BY <1>1 DEF PeerSends, PeerHangsUp, IdleTimeout, AppSends, AppCloses
  <1>2. CASE \E s \in Starts : Dial(c, s)
    BY <1>2 DEF Dial, Types, ConnTypes, Running, Counted, Served
  <1>3. QED
    BY <1>1, <1>2 DEF ClientStep

\* A handleConnection goroutine that stays stored, or has left already.
LEMMA ConnSteady ==
  ASSUME Types, NEW c \in Conns, ConnStep(c),
         ~Deregister(c), ~CountDown(c), ~Disconnected(c)
  PROVE  Steady
  <1> USE DEF Steady, InHand, loopVars, heartVars, workVars, Types, ConnTypes,
              Running, Counted, Served
  <1>1. CASE OnConnect(c) \/ Connected(c) \/ LoopCheck(c) \/ MessageDone(c)
    BY <1>1 DEF OnConnect, Connected, LoopCheck, MessageDone, Moves
  <1>2. CASE ReadData(c) \/ ReadFails(c) \/ ReadTimesOut(c)
    BY <1>2 DEF ReadData, ReadFails, ReadTimesOut, Moves
  <1>3. CASE CloseOwn(c)
    BY <1>3 DEF CloseOwn
  <1>4. QED
    BY <1>1, <1>2, <1>3 DEF ConnStep

LEMMA StutterSteady ==
  ASSUME UNCHANGED vars
  PROVE  Steady
  BY DEF vars, Steady, InHand, loopVars, heartVars, workVars, connVars

-----------------------------------------------------------------------------
\* The steps that are not.

\* SpawnLoops: two or three goroutines start, and the counter knew.
LEMMA SpawnBook ==
  ASSUME Types, BookInv, SpawnInv, NEW s \in Starts, SpawnLoops(s)
  PROVE  BookInv'
  <1> USE DEF BookInv
  <1>1. /\ sPc[s] = "spawn"
        /\ aPc' = [aPc EXCEPT ![s] = "check"]
        /\ statsLoops' = statsLoops \cup {s}
        /\ hPc' = [hPc EXCEPT ![s] = IF heartbeat THEN "wait" ELSE "none"]
        /\ wg' = wg + (IF heartbeat THEN 3 ELSE 2)
        /\ aConn' = aConn /\ connections' = connections
        /\ active' = active /\ stage' = stage
    BY DEF SpawnLoops, connVars
  <1>2. aPc[s] = "none" /\ hPc[s] = "none" /\ s \notin statsLoops
    BY <1>1 DEF SpawnInv
  <1>3. \A a \in Starts : /\ InHand(a)' <=> InHand(a)
                          /\ aPc'[a] = "serve" <=> aPc[a] = "serve"
    BY <1>1, <1>2 DEF InHand, Types, LoopTypes
  <1>4. HandInv'
    BY <1>1, <1>3 DEF HandInv
  <1>5. StoredInv'
    BY <1>1, <1>3 DEF StoredInv
  <1>6. /\ Loops' = Loops \cup {s} /\ s \notin Loops
        /\ Handlers' = Handlers /\ Tallied' = Tallied /\ Leaving' = Leaving
        /\ Serving' = Serving
    BY <1>1, <1>2 DEF Loops, LoopAlive, Handlers, Tallied, Leaving, Serving,
       Types, LoopTypes
  <1>7. /\ Hearts' = IF heartbeat THEN Hearts \cup {s} ELSE Hearts
        /\ s \notin Hearts
    BY <1>1, <1>2 DEF Hearts, HeartAlive, Types, HeartTypes
  <1>8. /\ Cardinality(Loops') = Cardinality(Loops) + 1
        /\ Cardinality(statsLoops') = Cardinality(statsLoops) + 1
        /\ Cardinality(Hearts \cup {s}) = Cardinality(Hearts) + 1
    BY <1>1, <1>2, <1>6, <1>7, CountsFinite, AddOne
  <1>9. Cardinality(Hearts')
          = IF heartbeat THEN Cardinality(Hearts) + 1 ELSE Cardinality(Hearts)
    BY <1>7, <1>8
  <1>10. /\ Cardinality(Loops) \in Nat /\ Cardinality(statsLoops) \in Nat
         /\ Cardinality(Hearts) \in Nat /\ Cardinality(Handlers) \in Nat
    BY CountsFinite
  <1>11. CountInv'
    BY <1>1, <1>6, <1>8, <1>9, <1>10 DEF CountInv
  <1>12. MatchInv'
    BY <1>1, <1>6 DEF MatchInv
  <1>13. QED
    BY <1>4, <1>5, <1>11, <1>12

\* A loop that ends.
LEMMA AcceptEndsBook ==
  ASSUME Types, BookInv, NEW a \in Starts, AcceptCheck(a) \/ AcceptFails(a),
         cancelled
  PROVE  BookInv'
  <1> USE DEF BookInv
  <1>1. /\ aPc[a] \in {"check", "accept"}
        /\ aPc' = [aPc EXCEPT ![a] = "exit"] /\ wg' = wg - 1
        /\ aConn' = aConn /\ hPc' = hPc /\ statsLoops' = statsLoops
        /\ connections' = connections /\ active' = active /\ stage' = stage
    BY DEF AcceptCheck, AcceptFails, AcceptLoopEnds, WgDone, heartVars,
       connVars
  <1>2. \A b \in Starts : /\ InHand(b)' <=> InHand(b)
                          /\ aPc'[b] = "serve" <=> aPc[b] = "serve"
    BY <1>1 DEF InHand, Types, LoopTypes
  <1>3. HandInv'
    BY <1>1, <1>2 DEF HandInv
  <1>4. StoredInv'
    BY <1>1, <1>2 DEF StoredInv
  <1>5. /\ Loops' = Loops \ {a} /\ a \in Loops
        /\ Hearts' = Hearts /\ Handlers' = Handlers /\ Tallied' = Tallied
        /\ Leaving' = Leaving /\ Serving' = Serving
    BY <1>1 DEF Loops, LoopAlive, Hearts, Handlers, Tallied, Leaving, Serving,
       Types, LoopTypes
  <1>6. Cardinality(Loops') = Cardinality(Loops) - 1
    BY <1>5, CountsFinite, RemoveOne
  <1>7. /\ Cardinality(Loops) \in Nat /\ Cardinality(statsLoops) \in Nat
        /\ Cardinality(Hearts) \in Nat /\ Cardinality(Handlers) \in Nat
    BY CountsFinite
  <1>8. CountInv'
    BY <1>1, <1>5, <1>6, <1>7 DEF CountInv
  <1>9. MatchInv'
    BY <1>1, <1>5 DEF MatchInv
  <1>10. QED
    BY <1>3, <1>4, <1>8, <1>9

\* A loop that ends gives back the one it had added to the WaitGroup.
LEMMA OtherLoopEndsBook ==
  ASSUME Types, BookInv, NEW s \in Starts, HeartLoopEnds(s) \/ StatsLoopEnds(s)
  PROVE  BookInv'
  <1> USE DEF BookInv
  <1>1. /\ wg' = wg - 1 /\ aPc' = aPc /\ aConn' = aConn
        /\ connections' = connections /\ active' = active /\ stage' = stage
    BY DEF HeartLoopEnds, StatsLoopEnds, WgDone, loopVars, connVars
  <1>2. HandInv' /\ StoredInv'
    BY <1>1 DEF HandInv, StoredInv, InHand
  <1>3. /\ Loops' = Loops /\ Handlers' = Handlers /\ Tallied' = Tallied
        /\ Leaving' = Leaving /\ Serving' = Serving
    BY <1>1 DEF Loops, Handlers, Tallied, Leaving, Serving
  <1>4. \/ /\ Hearts' = Hearts \ {s} /\ s \in Hearts
           /\ statsLoops' = statsLoops
        \/ /\ Hearts' = Hearts
           /\ statsLoops' = statsLoops \ {s} /\ s \in statsLoops
    BY DEF HeartLoopEnds, StatsLoopEnds, Hearts, HeartAlive, heartVars, Types,
       HeartTypes
  <1>5. Cardinality(Hearts') + Cardinality(statsLoops')
          = Cardinality(Hearts) + Cardinality(statsLoops) - 1
    BY <1>4, CountsFinite, RemoveOne
  <1>6. /\ Cardinality(Loops) \in Nat /\ Cardinality(statsLoops) \in Nat
        /\ Cardinality(Hearts) \in Nat /\ Cardinality(Handlers) \in Nat
    BY CountsFinite
  <1>7. /\ Cardinality(Hearts') \in Nat /\ Cardinality(statsLoops') \in Nat
    BY <1>4, CountsFinite, FS_RemoveElement, FS_CardinalityType
  <1>8. CountInv'
    BY <1>1, <1>3, <1>5, <1>6, <1>7 DEF CountInv
  <1>9. MatchInv'
    BY <1>1, <1>3 DEF MatchInv
  <1>10. QED
    BY <1>2, <1>8, <1>9

\* Accept: one loop takes a connection nobody has.
LEMMA AcceptBook ==
  ASSUME Types, BookInv, NEW a \in Starts, NEW c \in Conns, Accept(a, c)
  PROVE  BookInv'
  <1> USE DEF BookInv
  <1>1. /\ aPc[a] = "accept" /\ stage[c] = "queued"
        /\ stage' = [stage EXCEPT ![c] = "got"]
        /\ aConn' = [aConn EXCEPT ![a] = c]
        /\ aPc' = [aPc EXCEPT ![a] = "limit"]
        /\ hPc' = hPc /\ statsLoops' = statsLoops /\ wg' = wg
        /\ connections' = connections /\ active' = active
    BY DEF Accept, heartVars, workVars
  <1>2. ~InHand(a) /\ InHand(a)' /\ aConn'[a] = c /\ stage'[c] = "got"
    BY <1>1 DEF InHand, Types, LoopTypes, ConnTypes
  <1>3. \A b \in Starts \ {a} :
          /\ InHand(b)' <=> InHand(b)
          /\ aPc'[b] = "serve" <=> aPc[b] = "serve"
          /\ aConn'[b] = aConn[b]
    BY <1>1 DEF InHand, Types, LoopTypes
  <1>4. \A d \in Conns \ {c} : stage'[d] = stage[d]
    BY <1>1 DEF Types, ConnTypes
  <1>5. \A b \in Starts : InHand(b) => aConn[b] # c
    BY <1>1 DEF HandInv
  <1>6. HandInv'
    <2>1. ASSUME NEW b \in Starts, InHand(b)'
          PROVE  aConn'[b] \in Conns /\ stage'[aConn'[b]] = "got"
      BY <2>1, <1>2, <1>3, <1>4, <1>5 DEF HandInv
    <2>2. ASSUME NEW b \in Starts, NEW d \in Starts, InHand(b)', InHand(d)',
                 aConn'[b] = aConn'[d]
          PROVE  b = d
      BY <2>2, <1>2, <1>3, <1>5 DEF HandInv
    <2>3. ASSUME NEW d \in Conns, stage'[d] = "got"
          PROVE  \E b \in Starts : InHand(b)' /\ aConn'[b] = d
      <3>1. CASE d = c
        BY <3>1, <1>2
      <3>2. CASE d # c
        <4>1. PICK b \in Starts : InHand(b) /\ aConn[b] = d
          BY <3>2, <2>3, <1>4 DEF HandInv
        <4>2. QED
          BY <4>1, <1>2, <1>3
      <3>3. QED
        BY <3>1, <3>2
    <2>4. QED
      BY <2>1, <2>2, <2>3 DEF HandInv
  <1>7. c \notin connections
    BY <1>1, <1>5 DEF StoredInv, InHand, Running, Counted
  <1>8. StoredInv'
    <2>1. ASSUME NEW d \in Conns, stage'[d] \in Running
          PROVE  d \in connections'
      BY <2>1, <1>1, <1>2, <1>4 DEF StoredInv, Running, Counted
    <2>2. ASSUME NEW d \in connections'
          PROVE  \/ stage'[d] \in Running
                 \/ \E b \in Starts : aPc'[b] = "serve" /\ aConn'[b] = d
      <3>1. d \in Conns /\ d # c /\ stage'[d] = stage[d] /\ d \in connections
        BY <2>2, <1>1, <1>4, <1>7 DEF Types, ConnTypes
      <3>2. CASE stage[d] \in Running
        BY <3>1, <3>2
      <3>3. CASE \E b \in Starts : aPc[b] = "serve" /\ aConn[b] = d
        BY <3>3, <1>1, <1>3
      <3>4. QED
        BY <3>1, <3>2, <3>3 DEF StoredInv
    <2>3. \A b \in Starts : aPc'[b] = "serve" => aConn'[b] \in connections'
      BY <1>1, <1>2, <1>3 DEF StoredInv, InHand, Types, LoopTypes
    <2>4. QED
      BY <2>1, <2>2, <2>3 DEF StoredInv
  <1>9. /\ Loops' = Loops /\ Hearts' = Hearts /\ Serving' = Serving
        /\ Handlers' = Handlers /\ Tallied' = Tallied /\ Leaving' = Leaving
    BY <1>1 DEF Loops, LoopAlive, Hearts, Handlers, Tallied, Leaving, Serving,
       Counted, Served, Types, LoopTypes, ConnTypes
  <1>10. CountInv' /\ MatchInv'
    BY <1>1, <1>9 DEF CountInv, MatchInv
  <1>11. QED
    BY <1>6, <1>8, <1>10

\* CheckLimit: the connection goes on to be stored, or is let go.
LEMMA CheckLimitBook ==
  ASSUME Types, BookInv, NEW a \in Starts, CheckLimit(a)
  PROVE  BookInv'
  <1> USE DEF BookInv
  <1>1. CASE ~AtLimit
    <2>1. Steady
      BY <1>1 DEF CheckLimit, Steady, InHand, LoopAlive, heartVars, workVars,
         Types, LoopTypes
    <2>2. QED
      BY <2>1, SteadyStep
  <1>2. CASE AtLimit
    <2>1. /\ aPc[a] = "limit"
          /\ stage' = [stage EXCEPT ![aConn[a]] = "refused"]
          /\ aConn' = [aConn EXCEPT ![a] = NoConn]
          /\ aPc' = [aPc EXCEPT ![a] = "check"]
          /\ hPc' = hPc /\ statsLoops' = statsLoops /\ wg' = wg
          /\ connections' = connections /\ active' = active
      BY <1>2 DEF CheckLimit, heartVars, workVars
    <2>2. PICK c \in Conns : c = aConn[a] /\ stage[c] = "got"
      BY <2>1 DEF HandInv, InHand
    <2>3. ~InHand(a)' /\ aPc'[a] # "serve" /\ aPc[a] # "serve"
      BY <2>1 DEF InHand, Types, LoopTypes
    <2>4. \A b \in Starts \ {a} :
            /\ InHand(b)' <=> InHand(b)
            /\ aPc'[b] = "serve" <=> aPc[b] = "serve"
            /\ aConn'[b] = aConn[b]
            /\ InHand(b) => aConn[b] # c
      BY <2>1, <2>2 DEF InHand, Types, LoopTypes, HandInv
    <2>5. /\ stage'[c] = "refused"
          /\ \A d \in Conns \ {c} : stage'[d] = stage[d]
      BY <2>1, <2>2 DEF Types, ConnTypes
    <2>6. HandInv'
      <3>1. ASSUME NEW b \in Starts, InHand(b)'
            PROVE  aConn'[b] \in Conns /\ stage'[aConn'[b]] = "got"
        BY <3>1, <2>3, <2>4, <2>5 DEF HandInv
      <3>2. ASSUME NEW b \in Starts, NEW d \in Starts, InHand(b)', InHand(d)',
                   aConn'[b] = aConn'[d]
            PROVE  b = d
        BY <3>2, <2>3, <2>4 DEF HandInv
      <3>3. ASSUME NEW d \in Conns, stage'[d] = "got"
            PROVE  \E b \in Starts : InHand(b)' /\ aConn'[b] = d
        <4>1. d # c /\ stage[d] = "got"
          BY <3>3, <2>5
        <4>2. PICK b \in Starts : InHand(b) /\ aConn[b] = d
          BY <4>1 DEF HandInv
        <4>3. QED
          BY <4>1, <4>2, <2>2, <2>4
      <3>4. QED
        BY <3>1, <3>2, <3>3 DEF HandInv
    <2>7. StoredInv'
      <3>1. ASSUME NEW d \in Conns, stage'[d] \in Running
            PROVE  d \in connections'
        BY <3>1, <2>1, <2>5 DEF StoredInv, Running, Counted
      <3>2. ASSUME NEW d \in connections'
            PROVE  \/ stage'[d] \in Running
                   \/ \E b \in Starts : aPc'[b] = "serve" /\ aConn'[b] = d
        <4>1. d \in Conns /\ d \in connections
          BY <3>2, <2>1 DEF Types, ConnTypes
        <4>2. CASE stage[d] \in Running
          BY <4>1, <4>2, <2>2, <2>5 DEF Running, Counted
        <4>3. CASE \E b \in Starts : aPc[b] = "serve" /\ aConn[b] = d
          BY <4>3, <2>3, <2>4
        <4>4. QED
          BY <4>1, <4>2, <4>3 DEF StoredInv
      <3>3. \A b \in Starts : aPc'[b] = "serve" => aConn'[b] \in connections'
        BY <2>1, <2>3, <2>4 DEF StoredInv
      <3>4. QED
        BY <3>1, <3>2, <3>3 DEF StoredInv
    <2>8. /\ Loops' = Loops /\ Hearts' = Hearts /\ Serving' = Serving
      BY <2>1 DEF Loops, LoopAlive, Hearts, Serving, Types, LoopTypes
    <2>9. Handlers' = Handlers /\ Tallied' = Tallied /\ Leaving' = Leaving
      BY <2>2, <2>5 DEF Handlers, Tallied, Leaving, Counted, Served
    <2>10. CountInv' /\ MatchInv'
      BY <2>1, <2>8, <2>9 DEF CountInv, MatchInv
    <2>11. QED
      BY <2>6, <2>7, <2>10
  <1>3. QED
    BY <1>1, <1>2

\* StoreConn: what is stored was not, and its loop is about to count it.
LEMMA StoreConnBook ==
  ASSUME Types, BookInv, NEW a \in Starts, StoreConn(a)
  PROVE  BookInv'
  <1> USE DEF BookInv
  <1>1. /\ aPc[a] = "store" /\ aPc' = [aPc EXCEPT ![a] = "serve"]
        /\ connections' = connections \cup {aConn[a]}
        /\ aConn' = aConn /\ stage' = stage /\ active' = active
        /\ hPc' = hPc /\ statsLoops' = statsLoops /\ wg' = wg
    BY DEF StoreConn, heartVars, workVars
  <1>2. /\ aConn[a] \in Conns /\ stage[aConn[a]] = "got"
    BY <1>1 DEF HandInv, InHand
  <1>3. \A b \in Starts : InHand(b)' <=> InHand(b)
    BY <1>1 DEF InHand, Types, LoopTypes
  <1>4. HandInv'
    BY <1>1, <1>3 DEF HandInv
  <1>5. \A b \in Starts : aPc'[b] = "serve" <=> b = a \/ aPc[b] = "serve"
    BY <1>1 DEF Types, LoopTypes
  <1>6. StoredInv'
    BY <1>1, <1>5 DEF StoredInv
  <1>7. aConn[a] \notin connections
    <2>1. stage[aConn[a]] \notin Running
      BY <1>2 DEF Running, Counted
    <2>2. \A b \in Starts : aPc[b] = "serve" => aConn[b] # aConn[a]
      BY <1>1 DEF HandInv, InHand
    <2>3. QED
      BY <2>1, <2>2 DEF StoredInv
  <1>8. /\ Loops' = Loops /\ Hearts' = Hearts /\ Handlers' = Handlers
        /\ Tallied' = Tallied /\ Leaving' = Leaving
    BY <1>1 DEF Loops, LoopAlive, Hearts, Handlers, Tallied, Leaving,
       Types, LoopTypes
  <1>9. Serving' = Serving \cup {a} /\ a \notin Serving
    BY <1>1, <1>5 DEF Serving
  <1>10. /\ Cardinality(Serving') = Cardinality(Serving) + 1
         /\ Cardinality(connections') = Cardinality(connections) + 1
    BY <1>1, <1>7, <1>9, CountsFinite, AddOne
  <1>11. CountInv'
    BY <1>1, <1>8 DEF CountInv
  <1>12. MatchInv'
    <2>1. /\ Cardinality(connections) \in Nat /\ Cardinality(Leaving) \in Nat
          /\ Cardinality(Serving) \in Nat
      BY CountsFinite
    <2>2. QED
      BY <1>1, <1>8, <1>10, <2>1 DEF MatchInv
  <1>13. QED
    BY <1>4, <1>6, <1>11, <1>12

\* Serve: the goroutine starts, counted twice over.
LEMMA ServeBook ==
  ASSUME Types, BookInv, NEW a \in Starts, Serve(a)
  PROVE  BookInv'
  <1> USE DEF BookInv
  <1>1. /\ aPc[a] = "serve" /\ aPc' = [aPc EXCEPT ![a] = "check"]
        /\ active' = active + 1 /\ wg' = wg + 1
        /\ stage' = [stage EXCEPT ![aConn[a]] = "start"]
        /\ aConn' = [aConn EXCEPT ![a] = NoConn]
        /\ hPc' = hPc /\ statsLoops' = statsLoops
        /\ connections' = connections
    BY DEF Serve, heartVars
  <1>2. PICK c \in Conns : c = aConn[a] /\ stage[c] = "got"
    BY <1>1 DEF HandInv, InHand
  <1>3. ~InHand(a)' /\ aPc'[a] # "serve"
    BY <1>1 DEF InHand, Types, LoopTypes
  <1>4. \A b \in Starts \ {a} :
          /\ InHand(b)' <=> InHand(b)
          /\ aPc'[b] = "serve" <=> aPc[b] = "serve"
          /\ aConn'[b] = aConn[b]
          /\ InHand(b) => aConn[b] # c
    BY <1>1, <1>2 DEF InHand, Types, LoopTypes, HandInv
  <1>5. /\ stage'[c] = "start"
        /\ \A d \in Conns \ {c} : stage'[d] = stage[d]
    BY <1>1, <1>2 DEF Types, ConnTypes
  <1>6. HandInv'
    <2>1. ASSUME NEW b \in Starts, InHand(b)'
          PROVE  aConn'[b] \in Conns /\ stage'[aConn'[b]] = "got"
      BY <2>1, <1>3, <1>4, <1>5 DEF HandInv
    <2>2. ASSUME NEW b \in Starts, NEW d \in Starts, InHand(b)', InHand(d)',
                 aConn'[b] = aConn'[d]
          PROVE  b = d
      BY <2>2, <1>3, <1>4 DEF HandInv
    <2>3. ASSUME NEW d \in Conns, stage'[d] = "got"
          PROVE  \E b \in Starts : InHand(b)' /\ aConn'[b] = d
      <3>1. d # c /\ stage[d] = "got"
        BY <2>3, <1>5
      <3>2. PICK b \in Starts : InHand(b) /\ aConn[b] = d
        BY <3>1 DEF HandInv
      <3>3. QED
        BY <3>1, <3>2, <1>2, <1>4
    <2>4. QED
      BY <2>1, <2>2, <2>3 DEF HandInv
  <1>7. StoredInv'
    <2>1. ASSUME NEW d \in Conns, stage'[d] \in Running
          PROVE  d \in connections'
      BY <2>1, <1>1, <1>2, <1>5 DEF StoredInv
    <2>2. ASSUME NEW d \in connections'
          PROVE  \/ stage'[d] \in Running
                 \/ \E b \in Starts : aPc'[b] = "serve" /\ aConn'[b] = d
      <3>1. d \in Conns /\ d \in connections
        BY <2>2, <1>1 DEF Types, ConnTypes
      <3>2. CASE d = c
        BY <3>2, <1>5 DEF Running, Counted
      <3>3. CASE d # c
        BY <3>1, <3>3, <1>2, <1>4, <1>5 DEF StoredInv
      <3>4. QED
        BY <3>2, <3>3
    <2>3. \A b \in Starts : aPc'[b] = "serve" => aConn'[b] \in connections'
      BY <1>1, <1>3, <1>4 DEF StoredInv
    <2>4. QED
      BY <2>1, <2>2, <2>3 DEF StoredInv
  <1>8. /\ Loops' = Loops /\ Hearts' = Hearts /\ Leaving' = Leaving
        /\ Serving' = Serving \ {a} /\ a \in Serving
        /\ Handlers' = Handlers \cup {c} /\ c \notin Handlers
        /\ Tallied' = Tallied \cup {c} /\ c \notin Tallied
    <2>1. /\ Loops' = Loops /\ Hearts' = Hearts
          /\ Serving' = Serving \ {a} /\ a \in Serving
      BY <1>1 DEF Loops, LoopAlive, Hearts, Serving, Types, LoopTypes
    <2>2. /\ Handlers' = Handlers \cup {c} /\ c \notin Handlers
          /\ Tallied' = Tallied \cup {c} /\ c \notin Tallied
          /\ Leaving' = Leaving
      BY <1>2, <1>5 DEF Handlers, Tallied, Leaving, Counted, Served
    <2>3. QED
      BY <2>1, <2>2
  <1>9. /\ Cardinality(Serving') = Cardinality(Serving) - 1
        /\ Cardinality(Handlers') = Cardinality(Handlers) + 1
        /\ Cardinality(Tallied') = Cardinality(Tallied) + 1
    BY <1>8, CountsFinite, AddOne, RemoveOne
  <1>10. /\ Cardinality(connections) \in Nat /\ Cardinality(Leaving) \in Nat
         /\ Cardinality(Serving) \in Nat /\ Cardinality(Tallied) \in Nat
         /\ Cardinality(Loops) \in Nat /\ Cardinality(statsLoops) \in Nat
         /\ Cardinality(Hearts) \in Nat /\ Cardinality(Handlers) \in Nat
    BY CountsFinite
  <1>11. CountInv'
    BY <1>1, <1>8, <1>9, <1>10 DEF CountInv
  <1>12. MatchInv'
    BY <1>1, <1>8, <1>9, <1>10 DEF MatchInv
  <1>13. QED
    BY <1>6, <1>7, <1>11, <1>12

\* Deregister, CountDown and Disconnected: the goroutine leaves the map, the
\* statistic and the WaitGroup, one after the other.
LEMMA DeregisterBook ==
  ASSUME Types, BookInv, NEW c \in Conns, Deregister(c)
  PROVE  BookInv'
  <1> USE DEF BookInv
  <1>1. /\ stage[c] = "delete" /\ stage' = [stage EXCEPT ![c] = "count"]
        /\ connections' = connections \ {c}
        /\ aPc' = aPc /\ aConn' = aConn /\ active' = active /\ wg' = wg
        /\ hPc' = hPc /\ statsLoops' = statsLoops
    BY DEF Deregister, loopVars, heartVars, workVars
  <1>2. /\ stage'[c] = "count"
        /\ \A d \in Conns \ {c} : stage'[d] = stage[d]
        /\ \A a \in Starts : InHand(a) => aConn[a] # c
        /\ c \in connections
    BY <1>1 DEF Types, ConnTypes, HandInv, StoredInv, Running, Counted
  <1>3. \A a \in Starts : InHand(a)' <=> InHand(a)
    BY <1>1 DEF InHand
  <1>4. HandInv'
    BY <1>1, <1>2, <1>3 DEF HandInv
  <1>5. StoredInv'
    <2>1. ASSUME NEW d \in Conns, stage'[d] \in Running
          PROVE  d \in connections'
      BY <2>1, <1>1, <1>2 DEF StoredInv, Running
    <2>2. ASSUME NEW d \in connections'
          PROVE  \/ stage'[d] \in Running
                 \/ \E b \in Starts : aPc'[b] = "serve" /\ aConn'[b] = d
      BY <2>2, <1>1, <1>2 DEF StoredInv, Types, ConnTypes
    <2>3. \A b \in Starts : aPc'[b] = "serve" => aConn'[b] \in connections'
      BY <1>1, <1>2 DEF StoredInv, InHand
    <2>4. QED
      BY <2>1, <2>2, <2>3 DEF StoredInv
  <1>6. /\ Loops' = Loops /\ Hearts' = Hearts /\ Serving' = Serving
        /\ Handlers' = Handlers /\ Tallied' = Tallied
        /\ Leaving' = Leaving \cup {c} /\ c \notin Leaving
    BY <1>1, <1>2 DEF Loops, Hearts, Serving, Handlers, Tallied, Leaving,
       Counted, Served
  <1>7. /\ Cardinality(Leaving') = Cardinality(Leaving) + 1
        /\ Cardinality(connections') = Cardinality(connections) - 1
    BY <1>1, <1>2, <1>6, CountsFinite, AddOne, RemoveOne
  <1>8. CountInv'
    BY <1>1, <1>6 DEF CountInv
  <1>9. MatchInv'
    <2>1. /\ Cardinality(connections) \in Nat /\ Cardinality(Leaving) \in Nat
          /\ Cardinality(Serving) \in Nat
      BY CountsFinite
    <2>2. QED
      BY <1>1, <1>6, <1>7, <2>1 DEF MatchInv
  <1>10. QED
    BY <1>4, <1>5, <1>8, <1>9

\* The decrement of ActiveConnections ends the time a handler counts twice.
LEMMA CountDownBook ==
  ASSUME Types, BookInv, NEW c \in Conns, CountDown(c)
  PROVE  BookInv'
  <1> USE DEF BookInv
  <1>1. /\ stage[c] = "count" /\ stage' = [stage EXCEPT ![c] = "close"]
        /\ connections' = connections
        /\ aPc' = aPc /\ aConn' = aConn /\ active' = active - 1 /\ wg' = wg
        /\ hPc' = hPc /\ statsLoops' = statsLoops
    BY DEF CountDown, loopVars, heartVars, workVars
  <1>2. /\ stage'[c] = "close"
        /\ \A d \in Conns \ {c} : stage'[d] = stage[d]
    BY <1>1 DEF Types, ConnTypes
  <1>3. HandInv' /\ StoredInv'
    <2>1. \A d \in Conns : /\ stage'[d] = "got" <=> stage[d] = "got"
                           /\ stage'[d] \in Running <=> stage[d] \in Running
      BY <1>1, <1>2 DEF Running, Counted
    <2>2. \A a \in Starts : InHand(a)' <=> InHand(a)
      BY <1>1 DEF InHand
    <2>3. HandInv'
      BY <1>1, <2>1, <2>2 DEF HandInv
    <2>4. StoredInv'
      BY <1>1, <2>1 DEF StoredInv, Types, ConnTypes
    <2>5. QED
      BY <2>3, <2>4
  <1>4. /\ Loops' = Loops /\ Hearts' = Hearts /\ Serving' = Serving
        /\ Handlers' = Handlers
        /\ Tallied' = Tallied \ {c} /\ c \in Tallied
        /\ Leaving' = Leaving \ {c} /\ c \in Leaving
    BY <1>1, <1>2 DEF Loops, Hearts, Serving, Handlers, Tallied, Leaving,
       Counted, Served
  <1>5. /\ Cardinality(Leaving') = Cardinality(Leaving) - 1
        /\ Cardinality(Tallied') = Cardinality(Tallied) - 1
    BY <1>4, CountsFinite, RemoveOne
  <1>6. /\ Cardinality(connections) \in Nat /\ Cardinality(Leaving) \in Nat
        /\ Cardinality(Serving) \in Nat /\ Cardinality(Tallied) \in Nat
    BY CountsFinite
  <1>7. CountInv'
    BY <1>1, <1>4, <1>5, <1>6 DEF CountInv
  <1>8. MatchInv'
    BY <1>1, <1>4, <1>5, <1>6 DEF MatchInv
  <1>9. QED
    BY <1>3, <1>7, <1>8

\* A handler gives its one back when it has done everything else.
LEMMA DisconnectedBook ==
  ASSUME Types, BookInv, NEW c \in Conns, Disconnected(c)
  PROVE  BookInv'
  <1> USE DEF BookInv
  <1>1. /\ stage[c] = "bye" /\ stage' = [stage EXCEPT ![c] = "done"]
        /\ connections' = connections
        /\ aPc' = aPc /\ aConn' = aConn /\ active' = active /\ wg' = wg - 1
        /\ hPc' = hPc /\ statsLoops' = statsLoops
    BY DEF Disconnected, WgDone, loopVars, heartVars
  <1>2. /\ stage'[c] = "done"
        /\ \A d \in Conns \ {c} : stage'[d] = stage[d]
    BY <1>1 DEF Types, ConnTypes
  <1>3. HandInv' /\ StoredInv'
    <2>1. \A d \in Conns : /\ stage'[d] = "got" <=> stage[d] = "got"
                           /\ stage'[d] \in Running <=> stage[d] \in Running
      BY <1>1, <1>2 DEF Running, Counted
    <2>2. \A a \in Starts : InHand(a)' <=> InHand(a)
      BY <1>1 DEF InHand
    <2>3. HandInv'
      BY <1>1, <2>1, <2>2 DEF HandInv
    <2>4. StoredInv'
      BY <1>1, <2>1 DEF StoredInv, Types, ConnTypes
    <2>5. QED
      BY <2>3, <2>4
  <1>4. /\ Loops' = Loops /\ Hearts' = Hearts /\ Serving' = Serving
        /\ Handlers' = Handlers \ {c} /\ c \in Handlers
        /\ Tallied' = Tallied /\ Leaving' = Leaving
    BY <1>1, <1>2 DEF Loops, Hearts, Serving, Handlers, Tallied, Leaving,
       Counted, Served
  <1>5. Cardinality(Handlers') = Cardinality(Handlers) - 1
    BY <1>4, CountsFinite, RemoveOne
  <1>6. /\ Cardinality(Loops) \in Nat /\ Cardinality(statsLoops) \in Nat
        /\ Cardinality(Hearts) \in Nat /\ Cardinality(Handlers) \in Nat
    BY CountsFinite
  <1>7. CountInv'
    BY <1>1, <1>4, <1>5, <1>6 DEF CountInv
  <1>8. MatchInv'
    BY <1>1, <1>4 DEF MatchInv
  <1>9. QED
    BY <1>3, <1>7, <1>8

-----------------------------------------------------------------------------
\* The three small ones.
LEMMA HeartInvStep ==
  ASSUME Types, HeartInv, [Next]_vars
  PROVE  HeartInv'
  <1> USE DEF HeartInv, heartVars
  <1>1. ASSUME NEW s \in Starts, StartStep(s)
        PROVE  HeartInv'
    <2>1. CASE SpawnLoops(s)
      BY <2>1 DEF SpawnLoops, Types, HeartTypes
    <2>2. CASE StartCall(s) \/ Listen(s) \/ ListenFails(s) \/ Publish(s)
      BY <2>2 DEF StartCall, Listen, ListenFails, Publish
    <2>3. QED
      BY <1>1, <2>1, <2>2 DEF StartStep
  <1>2. ASSUME NEW t \in Stops, StopCall(t) \/ StopStep(t)
        PROVE  HeartInv'
    BY <1>2 DEF StopCall, StopStep, StopCancel, StopListener, StopRange,
       StopClose, StopWait, StopReturn
  <1>3. ASSUME NEW a \in Starts,
               AcceptStep(a) \/ AcceptFails(a) \/ \E c \in Conns : Accept(a, c)
        PROVE  HeartInv'
    BY <1>3 DEF AcceptStep, AcceptFails, Accept, AcceptCheck, CheckLimit,
       StoreConn, Serve
  <1>4. ASSUME NEW c \in Conns, ConnStep(c) \/ ClientStep(c)
        PROVE  HeartInv'
    <2>1. CASE ConnStep(c)
      BY <2>1 DEF ConnStep, OnConnect, Connected, LoopCheck, MessageDone,
         ReadData, ReadFails, ReadTimesOut, Moves, Deregister, CountDown,
         CloseOwn, Disconnected
    <2>2. CASE ClientStep(c)
      BY <2>2 DEF ClientStep, PeerSends, PeerHangsUp, IdleTimeout, AppSends,
         AppCloses, Dial
    <2>3. QED
      BY <1>4, <2>1, <2>2
  <1>5. ASSUME NEW s \in Starts,
               HeartStep(s) \/ HeartLoopEnds(s) \/ StatsLoopEnds(s)
        PROVE  HeartInv'
    <2> USE DEF Types, HeartTypes
    <2>1. CASE HeartTick(s) \/ HeartRested(s) \/ HeartCloses(s)
      BY <2>1 DEF HeartTick, HeartRested, HeartCloses
    <2>2. CASE \E c \in Conns : HeartSkip(s, c) \/ HeartFinds(s, c)
      BY <2>2 DEF HeartSkip, HeartFinds
    <2>3. CASE HeartLoopEnds(s) \/ StatsLoopEnds(s)
      BY <2>3 DEF HeartLoopEnds, StatsLoopEnds
    <2>4. QED
      BY <1>5, <2>1, <2>2, <2>3 DEF HeartStep
  <1>6. CASE UNCHANGED vars
    BY <1>6 DEF vars
  <1>7. QED
    BY <1>1, <1>2, <1>3, <1>4, <1>5, <1>6 DEF Next

\* Nothing starts before its Start spawns it.
LEMMA SpawnInvStep ==
  ASSUME Types, SpawnInv, [Next]_vars
  PROVE  SpawnInv'
  <1> USE DEF SpawnInv, startVars, loopVars, heartVars, workVars, Types,
              StartTypes, LoopTypes, HeartTypes
  <1>1. ASSUME NEW s \in Starts, StartStep(s)
        PROVE  SpawnInv'
    <2>1. CASE SpawnLoops(s)
      BY <2>1 DEF SpawnLoops
    <2>2. CASE StartCall(s) \/ Listen(s) \/ ListenFails(s) \/ Publish(s)
      BY <2>2 DEF StartCall, Listen, ListenFails, Publish
    <2>3. QED
      BY <1>1, <2>1, <2>2 DEF StartStep
  <1>2. ASSUME NEW t \in Stops, StopCall(t) \/ StopStep(t)
        PROVE  SpawnInv'
    BY <1>2 DEF StopCall, StopStep, StopCancel, StopListener, StopRange,
       StopClose, StopWait, StopReturn
  <1>3. ASSUME NEW a \in Starts,
               AcceptStep(a) \/ AcceptFails(a) \/ \E c \in Conns : Accept(a, c)
        PROVE  SpawnInv'
    <2>1. /\ sPc' = sPc /\ hPc' = hPc /\ statsLoops' = statsLoops
          /\ aPc[a] # "none"
          /\ \A b \in Starts : b # a => aPc'[b] = aPc[b]
      BY <1>3 DEF AcceptStep, AcceptFails, Accept, AcceptCheck, CheckLimit,
         StoreConn, Serve, AcceptLoopEnds
    <2>2. QED
      BY <2>1
  <1>4. ASSUME NEW c \in Conns, ConnStep(c) \/ ClientStep(c)
        PROVE  SpawnInv'
    <2>1. CASE ConnStep(c)
      BY <2>1 DEF ConnStep, OnConnect, Connected, LoopCheck, MessageDone,
         ReadData, ReadFails, ReadTimesOut, Moves, Deregister, CountDown,
         CloseOwn, Disconnected
    <2>2. CASE ClientStep(c)
      BY <2>2 DEF ClientStep, PeerSends, PeerHangsUp, IdleTimeout, AppSends,
         AppCloses, Dial
    <2>3. QED
      BY <1>4, <2>1, <2>2
  <1>5. ASSUME NEW s \in Starts,
               HeartStep(s) \/ HeartLoopEnds(s) \/ StatsLoopEnds(s)
        PROVE  SpawnInv'
    <2>1. CASE HeartTick(s) \/ HeartRested(s) \/ HeartCloses(s)
      BY <2>1 DEF HeartTick, HeartRested, HeartCloses
    <2>2. CASE \E c \in Conns : HeartSkip(s, c) \/ HeartFinds(s, c)
      BY <2>2 DEF HeartSkip, HeartFinds
    <2>3. CASE HeartLoopEnds(s) \/ StatsLoopEnds(s)
      BY <2>3 DEF HeartLoopEnds, StatsLoopEnds
    <2>4. QED
      BY <1>5, <2>1, <2>2, <2>3 DEF HeartStep
  <1>6. CASE UNCHANGED vars
    BY <1>6 DEF vars
  <1>7. QED
    BY <1>1, <1>2, <1>3, <1>4, <1>5, <1>6 DEF Next

\* Nothing reopens a connection, and the handler closes it before its end.
LEMMA CloseInvStep ==
  ASSUME Types, HandInv, CloseInv, [Next]_vars
  PROVE  CloseInv'
  <1> USE DEF CloseInv, connVars
  <1>1. ASSUME NEW s \in Starts, StartStep(s)
        PROVE  CloseInv'
    BY <1>1 DEF StartStep, StartCall, Listen, ListenFails, Publish, SpawnLoops
  <1>2. ASSUME NEW t \in Stops, StopCall(t) \/ StopStep(t)
        PROVE  CloseInv'
    BY <1>2 DEF StopCall, StopStep, StopCancel, StopListener, StopRange,
       StopClose, StopWait, StopReturn
  <1>3. ASSUME NEW a \in Starts,
               AcceptStep(a) \/ AcceptFails(a) \/ \E c \in Conns : Accept(a, c)
        PROVE  CloseInv'
    <2> USE DEF Types, ConnTypes
    <2>1. CASE AcceptCheck(a) \/ AcceptFails(a) \/ StoreConn(a)
      BY <2>1 DEF AcceptFails, AcceptCheck, StoreConn
    <2>2. CASE CheckLimit(a) \/ Serve(a)
      BY <2>2 DEF CheckLimit, Serve
    <2>3. CASE \E c \in Conns : Accept(a, c)
      BY <2>3 DEF Accept
    <2>4. QED
      BY <1>3, <2>1, <2>2, <2>3 DEF AcceptStep
  <1>4. ASSUME NEW c \in Conns, ConnStep(c)
        PROVE  CloseInv'
    <2> USE DEF Types, ConnTypes
    <2>1. CASE OnConnect(c) \/ Connected(c) \/ LoopCheck(c) \/ MessageDone(c)
                 \/ ReadData(c) \/ ReadFails(c) \/ ReadTimesOut(c)
      BY <2>1 DEF OnConnect, Connected, LoopCheck, MessageDone, ReadData,
         ReadFails, ReadTimesOut, Moves
    <2>2. CASE Deregister(c) \/ CountDown(c)
      BY <2>2 DEF Deregister, CountDown
    <2>3. CASE CloseOwn(c) \/ Disconnected(c)
      BY <2>3 DEF CloseOwn, Disconnected
    <2>4. QED
      BY <1>4, <2>1, <2>2, <2>3 DEF ConnStep
  <1>5. ASSUME NEW s \in Starts,
               HeartStep(s) \/ HeartLoopEnds(s) \/ StatsLoopEnds(s)
        PROVE  CloseInv'
    BY <1>5 DEF HeartStep, HeartLoopEnds, StatsLoopEnds, HeartTick,
       HeartCloses, HeartRested, HeartSkip, HeartFinds
  <1>6. ASSUME NEW c \in Conns, ClientStep(c)
        PROVE  CloseInv'
    BY <1>6 DEF ClientStep, PeerSends, PeerHangsUp, IdleTimeout, AppSends,
       AppCloses, Dial, Types, ConnTypes
  <1>7. CASE UNCHANGED vars
    BY <1>7 DEF vars
  <1>8. QED
    BY <1>1, <1>2, <1>3, <1>4, <1>5, <1>6, <1>7 DEF Next

-----------------------------------------------------------------------------
\* The invariant is kept by every step.
LEMMA ServerInvStep ==
  ASSUME ServerInv, [Next]_vars
  PROVE  ServerInv'
  <1> USE DEF ServerInv
  <1>1. HeartInv' /\ SpawnInv'
    BY HeartInvStep, SpawnInvStep
  <1>2. CloseInv'
    BY CloseInvStep DEF BookInv
  <1>3. ASSUME NEW s \in Starts, StartStep(s)
        PROVE  Types' /\ BookInv'
    BY <1>3, StartTyped, StartSteady, SteadyStep, SpawnBook DEF StartStep
  <1>4. ASSUME NEW t \in Stops, StopCall(t) \/ StopStep(t)
        PROVE  Types' /\ BookInv'
    BY <1>4, StopTyped, StopSteady, SteadyStep
  <1>5. ASSUME NEW a \in Starts,
               AcceptStep(a) \/ AcceptFails(a) \/ \E c \in Conns : Accept(a, c)
        PROVE  Types' /\ BookInv'
    <2>1. Types'
      BY <1>5, AcceptTyped DEF BookInv
    <2>2. CASE AcceptCheck(a) \/ AcceptFails(a)
      <3>1. CASE cancelled
        BY <2>1, <2>2, <3>1, AcceptEndsBook
      <3>2. CASE ~cancelled
        BY <2>1, <2>2, <3>2, AcceptSteady, SteadyStep
      <3>3. QED
        BY <3>1, <3>2
    <2>3. CASE CheckLimit(a) \/ StoreConn(a) \/ Serve(a)
      BY <2>1, <2>3, CheckLimitBook, StoreConnBook, ServeBook
    <2>4. CASE \E c \in Conns : Accept(a, c)
      BY <2>1, <2>4, AcceptBook
    <2>5. QED
      BY <1>5, <2>1, <2>2, <2>3, <2>4 DEF AcceptStep
  <1>6. ASSUME NEW c \in Conns, ConnStep(c)
        PROVE  Types' /\ BookInv'
    BY <1>6, ConnTyped, ConnSteady, SteadyStep, DeregisterBook, CountDownBook,
       DisconnectedBook
  <1>7. ASSUME NEW s \in Starts,
               HeartStep(s) \/ HeartLoopEnds(s) \/ StatsLoopEnds(s)
        PROVE  Types' /\ BookInv'
    BY <1>7, HeartTyped, HeartSteady, SteadyStep, OtherLoopEndsBook
  <1>8. ASSUME NEW c \in Conns, ClientStep(c)
        PROVE  Types' /\ BookInv'
    BY <1>8, ClientTyped, ClientSteady, SteadyStep
  <1>9. ASSUME UNCHANGED vars
        PROVE  Types' /\ BookInv'
    <2>1. Types'
      BY <1>9 DEF vars, startVars, stopVars, loopVars, heartVars, netVars,
         doorVars, workVars, connVars, Types, StartTypes, StopTypes, LoopTypes,
         HeartTypes, ConnTypes
    <2>2. QED
      BY <1>9, <2>1, StutterSteady, SteadyStep
  <1>10. Types' /\ BookInv'
    BY <1>3, <1>4, <1>5, <1>6, <1>7, <1>8, <1>9 DEF Next
  <1>11. QED
    BY <1>1, <1>2, <1>10

\* It holds at first.
LEMMA ServerInvInit ==
  ASSUME Init
  PROVE  ServerInv /\ Flags /\ StopInv
  <1>1. Types
    BY DEF Init, Types, StartTypes, StopTypes, LoopTypes, HeartTypes, ConnTypes,
       Stages
  <1>2. /\ Loops = {} /\ Hearts = {} /\ Handlers = {} /\ Tallied = {}
        /\ Leaving = {} /\ Serving = {} /\ statsLoops = {} /\ connections = {}
        /\ active = 0 /\ wg = 0
    BY DEF Init, Loops, LoopAlive, Hearts, HeartAlive, Handlers, Served,
       Tallied, Counted, Leaving, Serving
  <1>3. CountInv /\ MatchInv
    BY <1>2, FS_EmptySet DEF CountInv, MatchInv
  <1>4. HandInv /\ StoredInv
    BY DEF Init, HandInv, StoredInv, InHand, Running, Counted
  <1>5. HeartInv /\ SpawnInv /\ CloseInv /\ StopInv
    BY DEF Init, HeartInv, SpawnInv, CloseInv, StopInv
  <1>6. Flags
    BY Zenon DEF Init, Flags
  <1>7. QED
    BY <1>1, <1>3, <1>4, <1>5, <1>6 DEF ServerInv, BookInv


\* With nobody left in the WaitGroup and the context done, all is at rest.
LEMMA RestReached ==
  ASSUME Types', BookInv', wg' = 0, cancelled'
  PROVE  AtRest'
  <1> USE DEF BookInv
  <1>1. /\ Loops' \subseteq Starts /\ Hearts' \subseteq Starts
        /\ statsLoops' \subseteq Starts /\ Handlers' \subseteq Conns
    BY DEF Loops, Hearts, Handlers, Types, HeartTypes
  <1>2. /\ IsFiniteSet(Loops') /\ IsFiniteSet(Hearts')
        /\ IsFiniteSet(statsLoops') /\ IsFiniteSet(Handlers')
    BY <1>1, ServerAssumption, FS_Subset
  <1>3. /\ Cardinality(Loops') \in Nat /\ Cardinality(Hearts') \in Nat
        /\ Cardinality(statsLoops') \in Nat /\ Cardinality(Handlers') \in Nat
    BY <1>2, FS_CardinalityType
  <1>4. 0 = Cardinality(Loops') + Cardinality(statsLoops')
              + Cardinality(Hearts') + Cardinality(Handlers')
    BY DEF CountInv
  <1>5. Cardinality(Loops') = 0 /\ Cardinality(Handlers') = 0
    BY <1>3, <1>4
  <1>6. Loops' = {} /\ Handlers' = {}
    BY <1>2, <1>5, FS_EmptySet
  <1>7. \A a \in Starts : aPc'[a] \in {"none", "check", "exit"}
    BY <1>6 DEF Loops, LoopAlive, Types, LoopTypes
  <1>8. \A a \in Starts : ~InHand(a)' /\ aPc'[a] # "serve"
    BY <1>7 DEF InHand
  <1>9. \A c \in Conns : stage'[c] \notin Served \cup {"got"}
    BY <1>6, <1>8 DEF Handlers, HandInv
  <1>10. connections' = {}
    BY <1>8, <1>9 DEF StoredInv, Running, Counted, Served, Types, ConnTypes
  <1>11. \A c \in Conns : stage'[c] \in {"out", "queued", "refused", "done"}
    BY <1>9 DEF Types, ConnTypes, Stages
  <1>12. QED
    BY <1>7, <1>10, <1>11 DEF AtRest

\* What is at rest stays at rest: only a late Start still spawns loops, and
\* they find the context done.
LEMMA RestKept ==
  ASSUME Types, AtRest, [Next]_vars
  PROVE  AtRest'
  <1> USE DEF AtRest, startVars, stopVars, loopVars, heartVars, doorVars,
              connVars
  <1>1. ASSUME NEW s \in Starts, StartStep(s)
        PROVE  AtRest'
    <2>1. CASE SpawnLoops(s)
      BY <2>1 DEF SpawnLoops, Types, LoopTypes
    <2>2. CASE StartCall(s) \/ Listen(s) \/ ListenFails(s) \/ Publish(s)
      BY <2>2 DEF StartCall, Listen, ListenFails, Publish
    <2>3. QED
      BY <1>1, <2>1, <2>2 DEF StartStep
  <1>2. ASSUME NEW t \in Stops, StopCall(t) \/ StopStep(t)
        PROVE  AtRest'
    <2>1. CASE StopListener(t)
      BY <2>1 DEF StopListener
    <2>2. CASE StopCall(t) \/ StopCancel(t) \/ StopRange(t) \/ StopWait(t)
                 \/ StopReturn(t) \/ \E c \in Conns : StopClose(t, c)
      BY <2>2 DEF StopCall, StopCancel, StopRange, StopWait, StopReturn,
         StopClose
    <2>3. QED
      BY <1>2, <2>1, <2>2 DEF StopStep
  <1>3. ASSUME NEW a \in Starts,
               AcceptStep(a) \/ AcceptFails(a) \/ \E c \in Conns : Accept(a, c)
        PROVE  AtRest'
    <2>1. AcceptCheck(a)
      BY <1>3 DEF AcceptStep, AcceptFails, Accept, CheckLimit, StoreConn, Serve
    <2>2. QED
      BY <2>1 DEF AcceptCheck, AcceptLoopEnds, Types, LoopTypes
  <1>4. ASSUME NEW c \in Conns, ConnStep(c)
        PROVE  FALSE
    BY <1>4 DEF ConnStep, OnConnect, Connected, LoopCheck, MessageDone,
       ReadData, ReadFails, ReadTimesOut, Moves, Deregister, CountDown,
       CloseOwn, Disconnected
  <1>5. ASSUME NEW s \in Starts,
               HeartStep(s) \/ HeartLoopEnds(s) \/ StatsLoopEnds(s)
        PROVE  AtRest'
    BY <1>5 DEF HeartStep, HeartLoopEnds, StatsLoopEnds, HeartTick,
       HeartCloses, HeartRested, HeartSkip, HeartFinds
  <1>6. ASSUME NEW c \in Conns, ClientStep(c)
        PROVE  AtRest'
    BY <1>6 DEF ClientStep, PeerSends, PeerHangsUp, IdleTimeout, AppSends,
       AppCloses, Dial, Types, ConnTypes
  <1>7. CASE UNCHANGED vars
    BY <1>7 DEF vars
  <1>8. QED
    BY <1>1, <1>2, <1>3, <1>4, <1>5, <1>6, <1>7 DEF Next

\* How a Stop moves: it goes past its cancellation only by cancelling, and
\* past Wait only when the WaitGroup is at zero.
Cancels == {"unlisten", "range", "closing", "blocked", "woken", "stopped"}
StopMoves ==
  /\ cancelled => cancelled'
  /\ \A t \in Stops :
       /\ tPc'[t] \in Cancels => tPc[t] \in Cancels \/ cancelled'
       /\ tPc'[t] \in {"woken", "stopped"} =>
            \/ tPc[t] \in {"woken", "stopped"}
            \/ tPc[t] \in {"closing", "blocked"} /\ wg' = 0

\* How a step may move a Stop that waits: the last wg.Done wakes it.
LEMMA WgDoneMoves ==
  ASSUME Types, WgDone, cancelled' = cancelled
  PROVE  StopMoves
  BY DEF WgDone, StopMoves, Cancels, Types, StopTypes

\* A step of somebody else leaves it where it stands.
LEMMA StandsMoves ==
  ASSUME tPc' = tPc, cancelled' = cancelled
  PROVE  StopMoves
  BY DEF StopMoves

\* Every step moves the Stops in one of these ways.
LEMMA StopStepMoves ==
  ASSUME Types, [Next]_vars
  PROVE  StopMoves
  <1>1. ASSUME NEW s \in Starts, StartStep(s)
        PROVE  StopMoves
    <2>1. tPc' = tPc /\ cancelled' = cancelled
      BY <1>1 DEF StartStep, StartCall, Listen, ListenFails, Publish,
         SpawnLoops, stopVars, doorVars
    <2>2. QED
      BY <2>1, StandsMoves
  <1>2. ASSUME NEW t \in Stops, StopCall(t) \/ StopStep(t)
        PROVE  StopMoves
    <2> USE DEF StopMoves, Cancels, Types, StopTypes, doorVars, workVars
    <2>1. CASE StopCall(t)
      BY <2>1 DEF StopCall
    <2>2. CASE StopCancel(t)
      BY <2>2 DEF StopCancel
    <2>3. CASE StopListener(t)
      BY <2>3 DEF StopListener
    <2>4. CASE StopRange(t) \/ \E c \in Conns : StopClose(t, c)
      BY <2>4 DEF StopRange, StopClose
    <2>5. CASE StopWait(t) \/ StopReturn(t)
      BY <2>5 DEF StopWait, StopReturn
    <2>6. QED
      BY <1>2, <2>1, <2>2, <2>3, <2>4, <2>5 DEF StopStep
  <1>3. ASSUME NEW a \in Starts,
               AcceptStep(a) \/ AcceptFails(a) \/ \E c \in Conns : Accept(a, c)
        PROVE  StopMoves
    <2>1. /\ cancelled' = cancelled
          /\ WgDone \/ tPc' = tPc
      BY <1>3 DEF AcceptStep, AcceptFails, Accept, AcceptCheck, CheckLimit,
         StoreConn, Serve, AcceptLoopEnds, stopVars, doorVars
    <2>2. QED
      BY <2>1, WgDoneMoves, StandsMoves
  <1>4. ASSUME NEW c \in Conns, ConnStep(c)
        PROVE  StopMoves
    <2>1. /\ cancelled' = cancelled
          /\ WgDone \/ tPc' = tPc
      BY <1>4 DEF ConnStep, OnConnect, Connected, LoopCheck, MessageDone,
         ReadData, ReadFails, ReadTimesOut, Moves, Deregister, CountDown,
         CloseOwn, Disconnected, stopVars, doorVars
    <2>2. QED
      BY <2>1, WgDoneMoves, StandsMoves
  <1>5. ASSUME NEW s \in Starts,
               HeartStep(s) \/ HeartLoopEnds(s) \/ StatsLoopEnds(s)
        PROVE  StopMoves
    <2>1. /\ cancelled' = cancelled
          /\ WgDone \/ tPc' = tPc
      BY <1>5 DEF HeartStep, HeartLoopEnds, StatsLoopEnds, HeartTick,
         HeartCloses, HeartRested, HeartSkip, HeartFinds, stopVars, doorVars
    <2>2. QED
      BY <2>1, WgDoneMoves, StandsMoves
  <1>6. ASSUME NEW c \in Conns, ClientStep(c)
        PROVE  StopMoves
    <2>1. tPc' = tPc /\ cancelled' = cancelled
      BY <1>6 DEF ClientStep, PeerSends, PeerHangsUp, IdleTimeout, AppSends,
         AppCloses, Dial, stopVars, doorVars
    <2>2. QED
      BY <2>1, StandsMoves
  <1>7. CASE UNCHANGED vars
    BY <1>7, StandsMoves DEF vars, stopVars, doorVars
  <1>8. QED
    BY <1>1, <1>2, <1>3, <1>4, <1>5, <1>6, <1>7 DEF Next

\* A Stop that woke up finds the server at rest, and so it stays.
LEMMA StopInvStep ==
  ASSUME ServerInv, StopInv, [Next]_vars
  PROVE  StopInv'
  <1>1. StopMoves
    BY StopStepMoves DEF ServerInv
  <1>2. Types' /\ BookInv'
    BY ServerInvStep DEF ServerInv
  <1>3. ASSUME NEW t \in Stops, tPc'[t] \in Cancels
        PROVE  cancelled'
    BY <1>1, <1>3, Zenon DEF StopMoves, StopInv, Cancels
  <1>4. ASSUME NEW t \in Stops, tPc'[t] \in {"woken", "stopped"}
        PROVE  AtRest'
    <2>1. cancelled'
      BY <1>3, <1>4 DEF Cancels
    <2>2. CASE tPc[t] \in {"woken", "stopped"}
      BY <2>2, RestKept DEF StopInv, ServerInv
    <2>3. CASE wg' = 0
      BY <2>1, <2>3, <1>2, RestReached
    <2>4. QED
      BY <1>1, <1>4, <2>2, <2>3 DEF StopMoves
  <1>5. QED
    BY <1>3, <1>4 DEF StopInv, Cancels

-----------------------------------------------------------------------------
\* The inductive invariant of Start, Stop, the accept loops and the handlers
\* (server.go:48-245).
THEOREM ServerInvHolds == Spec => [](ServerInv /\ Flags /\ StopInv)
  <1>1. ServerInv /\ Flags /\ StopInv /\ [Next]_vars
          => (ServerInv /\ Flags /\ StopInv)'
    BY ServerInvStep, FlagsStep, StopInvStep
  <1>2. QED
    BY <1>1, ServerInvInit, PTL DEF Spec

\* Every variable keeps its type; in particular neither the WaitGroup nor
\* ActiveConnections ever falls below zero, whoever stops, hangs up or closes
\* (server.go:171-196).
THEOREM TypeCorrect == Spec => []TypeOK
  <1>1. ServerInv /\ Flags => TypeOK
    <2> SUFFICES ASSUME ServerInv, Flags PROVE TypeOK
      OBVIOUS
    <2>1. active \in Nat /\ wg \in Nat
      BY CountsFinite DEF ServerInv, BookInv, CountInv
    <2>2. heartbeat \in BOOLEAN /\ running \in BOOLEAN
          /\ cancelled \in BOOLEAN /\ crashed \in BOOLEAN
      BY Zenon DEF Flags
    <2>3. Types
      BY DEF ServerInv
    <2>4. QED
      BY <2>1, <2>2, <2>3, Zenon DEF Types, StartTypes, StopTypes, LoopTypes,
         HeartTypes, ConnTypes, TypeOK
  <1>2. QED
    BY <1>1, ServerInvHolds, PTL

\* The statistic ActiveConnections is the number of stored connections, but
\* for the one each accept loop is storing and those between their removal
\* and the decrement (server.go:168-186): no path decrements it twice.
THEOREM ActiveIsExact == Spec => []ActiveMatches
  <1>1. ServerInv => ActiveMatches
    BY DEF ServerInv, BookInv, MatchInv, Leaving, Serving, ActiveMatches
  <1>2. QED
    BY <1>1, ServerInvHolds, PTL

\* Once one Stop returned, no connection is stored, no handler or accept
\* loop has one, and all that were served are closed (server.go:80-106),
\* also when a Start raced it or connections arrived during it.
THEOREM StopIsQuiet == Spec => []QuietAfterStop
  <1>1. ServerInv /\ StopInv => QuietAfterStop
    <2> SUFFICES ASSUME ServerInv, StopInv, Stopped # {}
                 PROVE  /\ connections = {}
                        /\ \A c \in Conns :
                             /\ stage[c] \notin Served \cup {"got"}
                             /\ stage[c] = "done" => c \in closed
      BY DEF QuietAfterStop
    <2>1. PICK t \in Stops : tPc[t] = "stopped"
      BY DEF Stopped
    <2>2. AtRest
      BY <2>1 DEF StopInv
    <2>3. \A c \in Conns : stage[c] \notin Served \cup {"got"}
      BY <2>2 DEF AtRest, Served, Counted
    <2>4. QED
      BY <2>2, <2>3 DEF AtRest, ServerInv, CloseInv
  <1>2. QED
    BY <1>1, ServerInvHolds, PTL
=============================================================================
