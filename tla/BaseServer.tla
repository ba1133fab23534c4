----------------------------- MODULE BaseServer -----------------------------
(***************************************************************************)
(* The TCP server of pkg/core/server.go with the connections of            *)
(* pkg/core/connection.go: Start and Stop called from several goroutines,  *)
(* the accept loop, one goroutine per connection, the heartbeat loop that  *)
(* closes idle connections, and the clients.                               *)
(*                                                                         *)
(* A member of Starts is one call of Start, the listener it opens and the  *)
(* loops it starts; a member of Stops is one call of Stop.  A member of    *)
(* Conns is one client connection: stage follows it from the client's dial *)
(* through the accept loop to the end of its handleConnection goroutine.   *)
(* The user's callbacks last as long as the stages "connect", "message"    *)
(* and "bye"; which MessageHandler is installed is left out.               *)
(***************************************************************************)
EXTENDS Integers, FiniteSets

CONSTANTS
  Starts, Stops, Conns,
  MaxConnections,   \* ServerConfig.MaxConnections
  ReadTimeout,      \* ServerConfig.ReadTimeout > 0
  Talkers,          \* clients that send or hang up; the others stay silent
  NoListener, NoConn

ASSUME ServerAssumption ==
  /\ MaxConnections \in Nat \ {0}
  /\ ReadTimeout \in BOOLEAN
  /\ Talkers \subseteq Conns
  /\ NoListener \notin Starts /\ NoConn \notin Conns
  /\ IsFiniteSet(Starts) /\ IsFiniteSet(Conns)

VARIABLES
  heartbeat,     \* s.config.EnableHeartbeat; set once, before NewBaseServer
  running,       \* s.running
  cancelled,     \* s.ctx is done; it is made once, by NewBaseServer
  listener,      \* s.listener
  open,          \* the listeners that are open
  connections,   \* s.connections
  active,        \* s.stats.ActiveConnections
  wg,            \* the counter of s.wg
  sPc,           \* where each Start is
  tPc, visiting, \* where each Stop is, and what its Range has yet to visit
  aPc, aOn, aConn,  \* each accept loop: step, listener and connection in hand
  statsLoops,    \* the running statsUpdateLoops
  hPc, hVisit, hConn,  \* each heartbeat loop, and what its Range has yet
                 \* to visit or is about to close
  stage,         \* where each connection is
  dialled,       \* the listener each client dialled
  closed,        \* connections the server closed (BaseConnection.Close)
  hungUp,        \* connections the client closed
  unread,        \* connections with data to read
  idle,          \* connections whose lastActive is older than IdleTimeout
  crashed        \* WaitGroup panicked

startVars == <<running, sPc>>
stopVars  == <<tPc, visiting>>
loopVars  == <<aPc, aOn, aConn>>
heartVars == <<hPc, hVisit, hConn>>
netVars   == <<dialled, hungUp, unread>>
doorVars  == <<heartbeat, cancelled, listener, open>>
workVars  == <<wg, statsLoops, crashed>>
connVars  == <<connections, active, stage, closed, idle>>
vars == <<startVars, stopVars, loopVars, heartVars, netVars, doorVars,
          workVars, connVars>>

\* Counted in ActiveConnections, and served by a handleConnection goroutine.
Counted == {"start", "connect", "loop", "read", "message", "delete", "count"}
Served  == Counted \cup {"close", "bye"}
Stages  == Served \cup {"out", "queued", "got", "refused", "done"}

Init ==
  /\ heartbeat \in BOOLEAN
  /\ running = FALSE /\ cancelled = FALSE
  /\ listener = NoListener /\ open = {}
  /\ connections = {} /\ active = 0 /\ wg = 0
  /\ sPc = [s \in Starts |-> "idle"]
  /\ tPc = [t \in Stops |-> "idle"]
  /\ visiting = [t \in Stops |-> {}]
  /\ aPc = [s \in Starts |-> "none"]
  /\ aOn = [s \in Starts |-> NoListener]
  /\ aConn = [s \in Starts |-> NoConn]
  /\ statsLoops = {}
  /\ hPc = [s \in Starts |-> "none"]
  /\ hVisit = [s \in Starts |-> {}]
  /\ hConn = [s \in Starts |-> NoConn]
  /\ stage = [c \in Conns |-> "out"]
  /\ dialled = [c \in Conns |-> NoListener]
  /\ closed = {} /\ hungUp = {} /\ unread = {} /\ idle = {}
  /\ crashed = FALSE

\* Done on s.wg: the last one releases every Wait.
WgDone ==
  /\ wg' = wg - 1
  /\ tPc' = [t \in Stops |->
               IF wg = 1 /\ tPc[t] = "blocked" THEN "woken" ELSE tPc[t]]

-----------------------------------------------------------------------------
(* Start *)

StartCall(s) ==
  /\ ~crashed /\ sPc[s] = "idle"
  /\ running' = TRUE
  /\ sPc' = [sPc EXCEPT ![s] = IF running THEN "failed" ELSE "listen"]
  /\ UNCHANGED <<stopVars, loopVars, heartVars, netVars, doorVars, workVars,
                 connVars>>

Listen(s) ==
  /\ ~crashed /\ sPc[s] = "listen"
  /\ open' = open \cup {s}
  /\ sPc' = [sPc EXCEPT ![s] = "publish"]
  /\ UNCHANGED <<running, stopVars, loopVars, heartVars, netVars, heartbeat,
                 cancelled, listener, workVars, connVars>>

ListenFails(s) ==
  /\ ~crashed /\ sPc[s] = "listen"
  /\ running' = FALSE
  /\ sPc' = [sPc EXCEPT ![s] = "failed"]
  /\ UNCHANGED <<stopVars, loopVars, heartVars, netVars, doorVars, workVars,
                 connVars>>

Publish(s) ==
  /\ ~crashed /\ sPc[s] = "publish"
  /\ listener' = s
  /\ sPc' = [sPc EXCEPT ![s] = "spawn"]
  /\ UNCHANGED <<running, stopVars, loopVars, heartVars, netVars, heartbeat,
                 cancelled, open, workVars, connVars>>

SpawnLoops(s) ==
  /\ ~crashed /\ sPc[s] = "spawn"
  /\ sPc' = [sPc EXCEPT ![s] = "returned"]
  /\ aPc' = [aPc EXCEPT ![s] = "check"]
  /\ statsLoops' = statsLoops \cup {s}
  /\ hPc' = [hPc EXCEPT ![s] = IF heartbeat THEN "wait" ELSE "none"]
  /\ wg' = wg + (IF heartbeat THEN 3 ELSE 2)
  /\ UNCHANGED <<running, stopVars, aOn, aConn, hVisit, hConn, netVars,
                 doorVars, crashed, connVars>>

-----------------------------------------------------------------------------
(* Stop *)

StopCall(t) ==
  /\ ~crashed /\ tPc[t] = "idle"
  /\ running' = FALSE
  /\ tPc' = [tPc EXCEPT ![t] = IF running THEN "cancel" ELSE "refused"]
  /\ UNCHANGED <<sPc, visiting, loopVars, heartVars, netVars, doorVars,
                 workVars, connVars>>

StopCancel(t) ==
  /\ ~crashed /\ tPc[t] = "cancel"
  /\ cancelled' = TRUE
  /\ tPc' = [tPc EXCEPT ![t] = "unlisten"]
  /\ UNCHANGED <<startVars, visiting, loopVars, heartVars, netVars, heartbeat,
                 listener, open, workVars, connVars>>

\* Clients still in the backlog of a closed listener are reset.
StopListener(t) ==
  /\ ~crashed /\ tPc[t] = "unlisten"
  /\ open' = open \ {listener}
  /\ stage' = [c \in Conns |->
                 IF stage[c] = "queued" /\ dialled[c] = listener
                 THEN "refused" ELSE stage[c]]
  /\ tPc' = [tPc EXCEPT ![t] = "range"]
  /\ UNCHANGED <<startVars, visiting, loopVars, heartVars, netVars,
                 heartbeat, cancelled, listener, workVars, connections, active, closed,
                 idle>>

StopRange(t) ==
  /\ ~crashed /\ tPc[t] = "range"
  /\ visiting' = [visiting EXCEPT ![t] = connections]
  /\ tPc' = [tPc EXCEPT ![t] = "closing"]
  /\ UNCHANGED <<startVars, loopVars, heartVars, netVars, doorVars, workVars,
                 connVars>>

StopClose(t, c) ==
  /\ ~crashed /\ tPc[t] = "closing" /\ c \in visiting[t]
  /\ closed' = closed \cup {c}
  /\ visiting' = [visiting EXCEPT ![t] = @ \ {c}]
  /\ UNCHANGED <<startVars, tPc, loopVars, heartVars, netVars, doorVars,
                 workVars, connections, active, stage, idle>>

StopWait(t) ==
  /\ ~crashed /\ tPc[t] = "closing" /\ visiting[t] = {}
  /\ tPc' = [tPc EXCEPT ![t] = IF wg = 0 THEN "stopped" ELSE "blocked"]
  /\ UNCHANGED <<startVars, visiting, loopVars, heartVars, netVars, doorVars,
                 workVars, connVars>>

\* A WaitGroup whose counter grew again before Wait got to run panics.
StopReturn(t) ==
  /\ ~crashed /\ tPc[t] = "woken"
  /\ crashed' = (wg # 0)
  /\ tPc' = [tPc EXCEPT ![t] = "stopped"]
  /\ UNCHANGED <<startVars, visiting, loopVars, heartVars, netVars, doorVars,
                 wg, statsLoops, connVars>>
-----------------------------------------------------------------------------
(* acceptLoop *)

AcceptLoopEnds(a) == aPc' = [aPc EXCEPT ![a] = "exit"] /\ WgDone

\* The context is looked at before Accept is called, on s.listener as it is
\* now, and again after Accept failed.
AcceptCheck(a) ==
  /\ ~crashed /\ aPc[a] = "check"
  /\ IF cancelled
     THEN AcceptLoopEnds(a) /\ UNCHANGED aOn
     ELSE /\ aPc' = [aPc EXCEPT ![a] = "accept"]
          /\ aOn' = [aOn EXCEPT ![a] = listener]
          /\ UNCHANGED <<wg, tPc>>
  /\ UNCHANGED <<startVars, visiting, aConn, heartVars, netVars, doorVars,
                 statsLoops, crashed, connVars>>

Accept(a, c) ==
  /\ ~crashed /\ aPc[a] = "accept" /\ aOn[a] \in open
  /\ stage[c] = "queued" /\ dialled[c] = aOn[a]
  /\ stage' = [stage EXCEPT ![c] = "got"]
  /\ aConn' = [aConn EXCEPT ![a] = c]
  /\ aPc' = [aPc EXCEPT ![a] = "limit"]
  /\ UNCHANGED <<startVars, stopVars, aOn, heartVars, netVars, doorVars,
                 workVars, connections, active, closed, idle>>

\* Accept fails for good once the listener is closed, and now and then
\* while it is open (a connection aborted, no file descriptor left).
AcceptFails(a) ==
  /\ ~crashed /\ aPc[a] = "accept"
  /\ IF cancelled
     THEN AcceptLoopEnds(a)
     ELSE aPc' = [aPc EXCEPT ![a] = "check"] /\ UNCHANGED <<wg, tPc>>
  /\ UNCHANGED <<startVars, visiting, aOn, aConn, heartVars, netVars,
                 doorVars, statsLoops, crashed, connVars>>

AtLimitOffByOne == Cardinality(connections) > MaxConnections
AtLimit == Cardinality(connections) >= MaxConnections

CheckLimit(a) ==
  /\ ~crashed /\ aPc[a] = "limit"
  /\ IF AtLimit
     THEN /\ stage' = [stage EXCEPT ![aConn[a]] = "refused"]
          /\ aConn' = [aConn EXCEPT ![a] = NoConn]
          /\ aPc' = [aPc EXCEPT ![a] = "check"]
     ELSE aPc' = [aPc EXCEPT ![a] = "store"] /\ UNCHANGED <<stage, aConn>>
  /\ UNCHANGED <<startVars, stopVars, aOn, heartVars, netVars, doorVars,
                 workVars, connections, active, closed, idle>>

StoreConn(a) ==
  /\ ~crashed /\ aPc[a] = "store"
  /\ connections' = connections \cup {aConn[a]}
  /\ aPc' = [aPc EXCEPT ![a] = "serve"]
  /\ UNCHANGED <<startVars, stopVars, aOn, aConn, heartVars, netVars,
                 doorVars, workVars, active, stage, closed, idle>>

\* ActiveConnections and the WaitGroup grow before the goroutine starts.
ServeUncounted(a) ==
  /\ ~crashed /\ aPc[a] = "serve"
  /\ active' = active + 1
  /\ stage' = [stage EXCEPT ![aConn[a]] = "start"]
  /\ aConn' = [aConn EXCEPT ![a] = NoConn]
  /\ aPc' = [aPc EXCEPT ![a] = "check"]
  /\ UNCHANGED <<startVars, stopVars, aOn, heartVars, netVars, doorVars,
                 workVars, connections, closed, idle>>
Serve(a) ==
  /\ ~crashed /\ aPc[a] = "serve"
  /\ active' = active + 1
  /\ wg' = wg + 1
  /\ stage' = [stage EXCEPT ![aConn[a]] = "start"]
  /\ aConn' = [aConn EXCEPT ![a] = NoConn]
  /\ aPc' = [aPc EXCEPT ![a] = "check"]
  /\ UNCHANGED <<startVars, stopVars, aOn, heartVars, netVars, doorVars,
                 statsLoops, crashed, connections, closed, idle>>

-----------------------------------------------------------------------------
(* handleConnection *)

\* A step of the goroutine that moves it on and changes nothing else.
Moves(c, from, to) ==
  /\ ~crashed /\ stage[c] = from
  /\ stage' = [stage EXCEPT ![c] = to]
  /\ UNCHANGED <<startVars, stopVars, loopVars, heartVars, doorVars,
                 workVars, dialled, hungUp, connections, active, closed>>

OnConnect(c) == Moves(c, "start", "connect") /\ UNCHANGED <<unread, idle>>
Connected(c) == Moves(c, "connect", "loop") /\ UNCHANGED <<unread, idle>>

LoopCheck(c) ==
  /\ Moves(c, "loop", IF cancelled \/ c \in closed THEN "delete" ELSE "read")
  /\ UNCHANGED <<unread, idle>>

\* A Read returns data, fails once either side has closed, or times out.
ReadData(c) ==
  /\ c \in unread \ closed
  /\ Moves(c, "read", "message")
  /\ unread' = unread \ {c}
  /\ idle' = idle \ {c}

ReadFails(c) ==
  /\ c \in closed \cup (hungUp \ unread)
  /\ Moves(c, "read", "delete")
  /\ UNCHANGED <<unread, idle>>

ReadTimesOut(c) ==
  /\ ReadTimeout /\ c \notin closed
  /\ Moves(c, "read", "loop")
  /\ UNCHANGED <<unread, idle>>

MessageDone(c) == Moves(c, "message", "loop") /\ UNCHANGED <<unread, idle>>

\* The deferred cleanup.
Deregister(c) ==
  /\ ~crashed /\ stage[c] = "delete"
  /\ connections' = connections \ {c}
  /\ stage' = [stage EXCEPT ![c] = "count"]
  /\ UNCHANGED <<startVars, stopVars, loopVars, heartVars, netVars, doorVars,
                 workVars, active, closed, idle>>

CountDownOnce(c) ==
  /\ ~crashed /\ stage[c] = "count"
  /\ active' = active - (IF c \in closed THEN 0 ELSE 1)
  /\ stage' = [stage EXCEPT ![c] = "close"]
  /\ UNCHANGED <<startVars, stopVars, loopVars, heartVars, netVars, doorVars,
                 workVars, connections, closed, idle>>
CountDown(c) ==
  /\ ~crashed /\ stage[c] = "count"
  /\ active' = active - 1
  /\ stage' = [stage EXCEPT ![c] = "close"]
  /\ UNCHANGED <<startVars, stopVars, loopVars, heartVars, netVars, doorVars,
                 workVars, connections, closed, idle>>

CloseOwn(c) ==
  /\ ~crashed /\ stage[c] = "close"
  /\ closed' = closed \cup {c}
  /\ stage' = [stage EXCEPT ![c] = "bye"]
  /\ UNCHANGED <<startVars, stopVars, loopVars, heartVars, netVars, doorVars,
                 workVars, connections, active, idle>>

\* OnDisconnect returns, and the goroutine is done.
Disconnected(c) ==
  /\ ~crashed /\ stage[c] = "bye"
  /\ stage' = [stage EXCEPT ![c] = "done"]
  /\ WgDone
  /\ UNCHANGED <<startVars, visiting, loopVars, heartVars, netVars, doorVars,
                 statsLoops, crashed, connections, active, closed, idle>>

-----------------------------------------------------------------------------
(* statsUpdateLoop and heartbeatLoop *)

StatsLoopEnds(s) ==
  /\ ~crashed /\ s \in statsLoops /\ cancelled
  /\ statsLoops' = statsLoops \ {s}
  /\ WgDone
  /\ UNCHANGED <<startVars, visiting, loopVars, heartVars, netVars, doorVars,
                 crashed, connVars>>

\* The select may take a tick although the context is done.
HeartTick(s) ==
  /\ ~crashed /\ hPc[s] = "wait"
  /\ hPc' = [hPc EXCEPT ![s] = "range"]
  /\ hVisit' = [hVisit EXCEPT ![s] = connections]
  /\ UNCHANGED <<startVars, stopVars, loopVars, hConn, netVars, doorVars,
                 workVars, connVars>>

\* checkIdleConnections compares lastActive and then closes.
HeartSkip(s, c) ==
  /\ ~crashed /\ hPc[s] = "range" /\ c \in hVisit[s] \ idle
  /\ hVisit' = [hVisit EXCEPT ![s] = @ \ {c}]
  /\ UNCHANGED <<startVars, stopVars, loopVars, hPc, hConn, netVars,
                 doorVars, workVars, connVars>>

HeartOverlooks(s, c) ==
  /\ ~crashed /\ hPc[s] = "range" /\ c \in hVisit[s] \cap idle
  /\ hVisit' = [hVisit EXCEPT ![s] = @ \ {c}]
  /\ UNCHANGED <<startVars, stopVars, loopVars, hPc, hConn, netVars,
                 doorVars, workVars, connVars>>
HeartFinds(s, c) ==
  /\ ~crashed /\ hPc[s] = "range" /\ c \in hVisit[s] \cap idle
  /\ hVisit' = [hVisit EXCEPT ![s] = @ \ {c}]
  /\ hConn' = [hConn EXCEPT ![s] = c]
  /\ hPc' = [hPc EXCEPT ![s] = "close"]
  /\ UNCHANGED <<startVars, stopVars, loopVars, netVars, doorVars, workVars,
                 connVars>>

HeartCloses(s) ==
  /\ ~crashed /\ hPc[s] = "close"
  /\ closed' = closed \cup {hConn[s]}
  /\ hConn' = [hConn EXCEPT ![s] = NoConn]
  /\ hPc' = [hPc EXCEPT ![s] = "range"]
  /\ UNCHANGED <<startVars, stopVars, loopVars, hVisit, netVars, doorVars,
                 workVars, connections, active, stage, idle>>

HeartRested(s) ==
  /\ ~crashed /\ hPc[s] = "range" /\ hVisit[s] = {}
  /\ hPc' = [hPc EXCEPT ![s] = "wait"]
  /\ UNCHANGED <<startVars, stopVars, loopVars, hVisit, hConn, netVars,
                 doorVars, workVars, connVars>>

HeartLoopEnds(s) ==
  /\ ~crashed /\ hPc[s] = "wait" /\ cancelled
  /\ hPc' = [hPc EXCEPT ![s] = "exit"]
  /\ WgDone
  /\ UNCHANGED <<startVars, visiting, loopVars, hVisit, hConn, netVars,
                 doorVars, statsLoops, crashed, connVars>>

-----------------------------------------------------------------------------
(* Clients, time, and application code that holds a connection *)

Dial(c, s) ==
  /\ ~crashed /\ stage[c] = "out" /\ s \in open
  /\ stage' = [stage EXCEPT ![c] = "queued"]
  /\ dialled' = [dialled EXCEPT ![c] = s]
  /\ UNCHANGED <<startVars, stopVars, loopVars, heartVars, hungUp, unread,
                 doorVars, workVars, connections, active, closed, idle>>

PeerSends(c) ==
  /\ ~crashed /\ c \in Talkers /\ stage[c] \in Served \ {"bye"}
  /\ c \notin closed \cup hungUp \cup unread
  /\ unread' = unread \cup {c}
  /\ UNCHANGED <<startVars, stopVars, loopVars, heartVars, dialled, hungUp,
                 doorVars, workVars, connVars>>

PeerHangsUp(c) ==
  /\ ~crashed /\ c \in Talkers /\ stage[c] \in Served \ {"bye"}
  /\ c \notin closed \cup hungUp
  /\ hungUp' = hungUp \cup {c}
  /\ UNCHANGED <<startVars, stopVars, loopVars, heartVars, dialled, unread,
                 doorVars, workVars, connVars>>

\* Only the heartbeat loop looks at lastActive.
IdleTimeout(c) ==
  /\ ~crashed /\ heartbeat
  /\ stage[c] \in Counted \ {"delete", "count"} /\ c \notin idle
  /\ idle' = idle \cup {c}
  /\ UNCHANGED <<startVars, stopVars, loopVars, heartVars, netVars, doorVars,
                 workVars, connections, active, stage, closed>>

\* Send refreshes lastActive; Close is for good.
AppSends(c) ==
  /\ ~crashed /\ stage[c] \in Served \ {"start"} /\ c \in idle \ closed
  /\ idle' = idle \ {c}
  /\ UNCHANGED <<startVars, stopVars, loopVars, heartVars, netVars, doorVars,
                 workVars, connections, active, stage, closed>>

AppCloses(c) ==
  /\ ~crashed /\ stage[c] \in Served \ {"start"} /\ c \notin closed
  /\ closed' = closed \cup {c}
  /\ UNCHANGED <<startVars, stopVars, loopVars, heartVars, netVars, doorVars,
                 workVars, connections, active, stage, idle>>

-----------------------------------------------------------------------------
StartStep(s) ==
  \/ StartCall(s) \/ Listen(s) \/ ListenFails(s) \/ Publish(s)
  \/ SpawnLoops(s)

StopStep(t) ==
  \/ StopCancel(t) \/ StopListener(t) \/ StopRange(t)
  \/ (\E c \in Conns : StopClose(t, c))
  \/ StopWait(t) \/ StopReturn(t)

AcceptStep(a) ==
  \/ AcceptCheck(a) \/ CheckLimit(a) \/ StoreConn(a) \/ Serve(a)

ConnStep(c) ==
  \/ OnConnect(c) \/ Connected(c) \/ LoopCheck(c)
  \/ ReadData(c) \/ ReadFails(c) \/ ReadTimesOut(c) \/ MessageDone(c)
  \/ Deregister(c) \/ CountDown(c) \/ CloseOwn(c) \/ Disconnected(c)

HeartStep(s) ==
  \/ HeartTick(s) \/ HeartCloses(s) \/ HeartRested(s)
  \/ \E c \in Conns : HeartSkip(s, c) \/ HeartFinds(s, c)

ClientStep(c) ==
  \/ PeerSends(c) \/ PeerHangsUp(c) \/ IdleTimeout(c) \/ AppSends(c)
  \/ AppCloses(c)
  \/ \E s \in Starts : Dial(c, s)

Next ==
  \/ \E s \in Starts :
       \/ StartStep(s) \/ AcceptStep(s) \/ AcceptFails(s)
       \/ HeartStep(s) \/ HeartLoopEnds(s) \/ StatsLoopEnds(s)
       \/ \E c \in Conns : Accept(s, c)
  \/ \E t \in Stops : StopCall(t) \/ StopStep(t)
  \/ \E c \in Conns : ConnStep(c) \/ ClientStep(c)

Spec == Init /\ [][Next]_vars

\* Goroutines that can run do run; the user's callbacks return; a closed
\* listener fails Accept and an open one does not fail it for ever; select
\* picks among ready cases at random, so the heartbeat loop comes to see the
\* context is done.  Nobody has to call Start or Stop, and clients do
\* as they please.
Fairness ==
  /\ \A s \in Starts :
       /\ WF_vars(StartStep(s) /\ sPc[s] # "idle")
       /\ WF_vars(AcceptStep(s)) /\ WF_vars(HeartStep(s))
       /\ WF_vars(AcceptFails(s) /\ aOn[s] \notin open)
       /\ SF_vars(\E c \in Conns : Accept(s, c))
       /\ SF_vars(HeartLoopEnds(s)) /\ WF_vars(StatsLoopEnds(s))
  /\ \A t \in Stops : WF_vars(StopStep(t))
  /\ \A c \in Conns : WF_vars(ConnStep(c))

FairSpec == Spec /\ Fairness

-----------------------------------------------------------------------------
(* Properties *)

Started == {s \in Starts : sPc[s] = "returned"}
Storing == {a \in Starts : aPc[a] = "store"}
Stopped == {t \in Stops : tPc[t] = "stopped"}

\* Every variable has its type (BaseServer, server.go:19-31, and the
\* goroutines that share it).
TypeOK ==
  /\ heartbeat \in BOOLEAN /\ running \in BOOLEAN
  /\ cancelled \in BOOLEAN /\ crashed \in BOOLEAN
  /\ listener \in Starts \cup {NoListener} /\ open \subseteq Starts
  /\ connections \subseteq Conns /\ active \in Nat /\ wg \in Nat
  /\ sPc \in [Starts -> {"idle", "listen", "publish", "spawn", "returned",
                         "failed"}]
  /\ tPc \in [Stops -> {"idle", "cancel", "unlisten", "range", "closing",
                        "blocked", "woken", "stopped", "refused"}]
  /\ visiting \in [Stops -> SUBSET Conns]
  /\ aPc \in [Starts -> {"none", "check", "accept", "limit", "store", "serve",
                         "exit"}]
  /\ aOn \in [Starts -> Starts \cup {NoListener}]
  /\ aConn \in [Starts -> Conns \cup {NoConn}]
  /\ statsLoops \subseteq Starts
  /\ hPc \in [Starts -> {"none", "wait", "range", "close", "exit"}]
  /\ hVisit \in [Starts -> SUBSET Conns]
  /\ hConn \in [Starts -> Conns \cup {NoConn}]
  /\ stage \in [Conns -> Stages]
  /\ dialled \in [Conns -> Starts \cup {NoListener}]
  /\ closed \subseteq Conns /\ hungUp \subseteq Conns
  /\ unread \subseteq Conns /\ idle \subseteq Conns

\* One accept loop checks the limit, stores and only then accepts again, so
\* it never stores more than MaxConnections; each further Start that found
\* the server stopped while its predecessor still drains adds one.
ConnectionLimit ==
  Cardinality(connections) + Cardinality(Storing)
    <= MaxConnections
         + (IF Started = {} THEN 0 ELSE Cardinality(Started) - 1)

\* ActiveConnections counts the stored connections, up to the one being
\* stored and those between their removal and the decrement.
ActiveMatches ==
  active = Cardinality(connections)
             + Cardinality({c \in Conns : stage[c] = "count"})
             - Cardinality({a \in Starts : aPc[a] = "serve"})

\* Once Stop has returned no callback of the user is running or will run,
\* and every connection ever accepted is closed.
QuietAfterStop ==
  Stopped # {} =>
    /\ connections = {}
    /\ \A c \in Conns :
         /\ stage[c] \notin Served \cup {"got"}
         /\ stage[c] = "done" => c \in closed

\* Left in Accept on a listener that is no longer s.listener: Stop closes
\* the published listener only, so nobody but a client wakes this loop.
Stranded(a) == aPc[a] = "accept" /\ aOn[a] # listener

\* Stop returns, even for connections accepted while it runs and clients
\* that neither send nor hang up, and without any read timeout.  The
\* exceptions are the WaitGroup's panic, and a Start racing Stop: it puts its
\* listener in the place of another's, whose accept loop Stop then waits
\* for until some client happens to dial it.
StopReturns ==
  \A t \in Stops :
    tPc[t] = "cancel"
      ~> (tPc[t] = "stopped" \/ crashed \/ [](\E a \in Starts : Stranded(a)))

\* A connection silent for longer than IdleTimeout is closed.
IdleCloses ==
  \A c \in Conns :
    (heartbeat /\ c \in connections /\ c \in idle)
      ~> (c \notin idle \/ c \in closed)

\* "Start starts the server, listening on the address" (interfaces.go:13):
\* once it returned nil, a client that dialled the listener gets an answer,
\* unless the server is stopped.
StartServes ==
  \A s \in Starts : \A c \in Conns :
    (sPc[s] = "returned" /\ stage[c] = "queued" /\ dialled[c] = s)
      ~> (stage[c] # "queued" \/ ~running)
=============================================================================
