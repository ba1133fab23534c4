--------------------------- MODULE ConnectionPool ---------------------------
(***************************************************************************)
(* The TCP connection pool of pkg/pool/connection.go: users that Get, Put  *)
(* (AddConnection is Put) and remove connections, Start, Close, and the    *)
(* cleaner each Start launches, around the channel p.connections.          *)
(*                                                                         *)
(* Each channel operation is a step, with the check of the connection that *)
(* comes with it.  The time since lastUsed is one bit per connection, set  *)
(* when a pass of the cleaner begins and cleared when the connection is    *)
(* used.  Receiving nil from the closed channel, sending on it and closing *)
(* it again panic, as does a WaitGroup reused.  Stats is left out.         *)
(***************************************************************************)
EXTENDS Integers, Sequences, FiniteSets

CONSTANTS
  Users, Starts, Closes,  \* goroutines; each Start and Close is one call
  Conns,                  \* what can be dialled, each once
  MinSize, MaxSize

ASSUME PoolAssumption ==
  MinSize \in Nat /\ MaxSize \in Nat \ {0} /\ MinSize <= MaxSize

Cleaner(s) == <<"cleaner", s>>
Agents == Users \cup Starts \cup Closes \cup {Cleaner(s) : s \in Starts}

VARIABLES
  running, cancelled,
  connections, chClosed,   \* what the channel holds; it is made once
  pc, holds,     \* each goroutine: where, and the connections it has
  doomed,        \* of those, what the cleaner is going to close
  toDial,        \* how many connections each Start still has to make
  opened, closed, \* connections dialled, and those closed on our side
  broken,        \* connections the peer ended
  expired,       \* idle too long, for the cleaner
  crashed

flags == <<running, cancelled, chClosed>>
hands == <<holds, doomed>>
channel == <<connections, expired>>
conns == <<opened, closed, broken>>
vars == <<flags, pc, hands, channel, toDial, conns, crashed>>

Init ==
  /\ running = FALSE /\ cancelled = FALSE /\ chClosed = FALSE /\ crashed = FALSE
  /\ connections = <<>> /\ expired = {} /\ doomed = {}
  /\ pc = [a \in Agents |-> "idle"] /\ holds = [a \in Agents |-> {}]
  /\ toDial = [s \in Starts |-> MinSize]
  /\ opened = {} /\ closed = {} /\ broken = {}

Step(a, from, to) == pc[a] = from /\ pc' = [pc EXCEPT ![a] = to]
Gain(a, c) == holds' = [holds EXCEPT ![a] = @ \cup {c}]
Lose(a, gone) == holds' = [holds EXCEPT ![a] = @ \ gone]
Full == Len(connections) = MaxSize

CloseConnsNot(gone) == UNCHANGED closed
CloseConns(gone) == closed' = closed \cup gone

\* createConnection: DialContext gives up when p.ctx is done.
Dial(a, c) ==
  /\ ~cancelled /\ c \in Conns \ opened
  /\ opened' = opened \cup {c}
  /\ Gain(a, c)

\* A send on the closed channel panics.
Send(a, c) ==
  /\ crashed' = chClosed
  /\ IF chClosed THEN UNCHANGED <<channel, holds>>
     ELSE /\ connections' = Append(connections, c)
          /\ expired' = expired \ {c}
          /\ Lose(a, {c})

-----------------------------------------------------------------------------
(* Start *)

Start(s) ==
  /\ Step(s, "idle", IF running THEN "done" ELSE "fill")
  /\ running' = TRUE
  /\ UNCHANGED <<cancelled, chClosed, hands, channel, toDial, conns, crashed>>

\* An error leaves running set and no cleaner.
StartDials(s) ==
  /\ toDial[s] > 0
  /\ \/ Step(s, "fill", "send") /\ \E c \in Conns : Dial(s, c)
     \/ Step(s, "fill", "done") /\ UNCHANGED <<opened, holds>>
  /\ UNCHANGED <<flags, doomed, channel, toDial, closed, broken, crashed>>

\* The send waits while the channel is full.
StartSends(s) ==
  /\ Step(s, "send", "fill")
  /\ chClosed \/ ~Full
  /\ \E c \in holds[s] : Send(s, c)
  /\ toDial' = [toDial EXCEPT ![s] = @ - 1]
  /\ UNCHANGED <<flags, doomed, conns>>

StartLaunches(s) ==
  /\ toDial[s] = 0 /\ pc[s] = "fill"
  /\ pc' = [pc EXCEPT ![s] = "done", ![Cleaner(s)] = "wait"]
  /\ UNCHANGED <<flags, hands, channel, toDial, conns, crashed>>

-----------------------------------------------------------------------------
(* Users *)

\* The load of running that Get and Put begin with.
Begin(u) ==
  /\ running
  /\ Step(u, "idle", "get") \/ Step(u, "using", "put")
  /\ UNCHANGED <<flags, hands, channel, toDial, conns, crashed>>

\* An idle connection that is no longer valid is closed and replaced.
GetTakes(u) ==
  LET c == Head(connections) IN
    /\ connections # <<>>
    /\ connections' = Tail(connections) /\ expired' = expired \ {c}
    /\ \/ c \notin broken /\ Step(u, "get", "using") /\ Gain(u, c) /\ UNCHANGED closed
       \/ c \in broken /\ Step(u, "get", "dial") /\ CloseConns({c}) /\ UNCHANGED holds
    /\ UNCHANGED <<flags, doomed, toDial, opened, broken, crashed>>

GetFindsNone(u) ==
  /\ connections = <<>>
  /\ Step(u, "get", "dial")
  /\ crashed' = chClosed      \* a nil connection is used
  /\ UNCHANGED <<flags, hands, channel, toDial, conns>>

GetDials(u) ==
  /\ \/ Step(u, "dial", "using") /\ \E c \in Conns : Dial(u, c)
     \/ Step(u, "dial", "idle") /\ UNCHANGED <<opened, holds>>
  /\ UNCHANGED <<flags, doomed, channel, toDial, closed, broken, crashed>>

\* RemoveConnection, or Put when the pool is not running.
CloseOwn(u) ==
  /\ Step(u, "using", "idle")
  /\ CloseConns(holds[u]) /\ Lose(u, holds[u])
  /\ UNCHANGED <<flags, doomed, channel, toDial, opened, broken, crashed>>

\* The check, then the select, in which a full channel takes the default.
Put(u) ==
  /\ Step(u, "put", "idle")
  /\ \/ /\ holds[u] \cap broken = {} /\ (chClosed \/ ~Full)
        /\ \E c \in holds[u] : Send(u, c)
        /\ UNCHANGED closed
     \/ /\ holds[u] \cap broken # {} \/ (Full /\ ~chClosed)
        /\ CloseConns(holds[u]) /\ Lose(u, holds[u])
        /\ UNCHANGED <<channel, crashed>>
  /\ UNCHANGED <<flags, doomed, toDial, opened, broken>>

PeerCloses(c) ==
  /\ c \in opened \ broken
  /\ broken' = broken \cup {c}
  /\ UNCHANGED <<flags, pc, hands, channel, toDial, opened, closed, crashed>>

-----------------------------------------------------------------------------
(* The cleaner *)

CleanBegins(a) ==
  /\ Step(a, "wait", "clean")
  /\ expired' \in SUBSET {connections[n] : n \in DOMAIN connections}
  /\ UNCHANGED <<flags, hands, connections, toDial, conns, crashed>>

\* Only an empty channel ends the loop of cleanIdleConnections.
CleanTakes(a) ==
  LET c == Head(connections) IN
    /\ connections # <<>>
    /\ connections' = Tail(connections)
    /\ Gain(a, c)
    /\ \/ c \in expired /\ Step(a, "clean", "clean") /\ doomed' = doomed \cup {c}
       \/ c \notin expired /\ Step(a, "clean", "putBack") /\ UNCHANGED doomed
    /\ UNCHANGED <<flags, expired, toDial, conns, crashed>>

CleanPutsBack(a) ==
  /\ Step(a, "putBack", "clean")
  /\ \/ /\ chClosed \/ ~Full
        /\ \E c \in holds[a] \ doomed : Send(a, c)
        /\ UNCHANGED doomed
     \/ /\ ~chClosed /\ Full
        /\ doomed' = doomed \cup holds[a]
        /\ UNCHANGED <<channel, holds, crashed>>
  /\ UNCHANGED <<flags, toDial, conns>>

\* On the closed channel the cleaner, like Get, uses a nil connection.
CleanEnds(a) ==
  /\ connections = <<>>
  /\ Step(a, "clean", "wait")
  /\ crashed' = chClosed
  /\ IF chClosed THEN UNCHANGED <<hands, closed>>
     ELSE CloseConns(holds[a]) /\ Lose(a, holds[a]) /\ doomed' = doomed \ holds[a]
  /\ UNCHANGED <<flags, channel, toDial, opened, broken>>

\* p.wg counts the cleaners: the last one that leaves wakes who waits.
Cleaners == {Cleaner(s) : s \in Starts}
Cleaning == {a \in Cleaners : pc[a] \notin {"idle", "done"}}

CleanerQuits(a) ==
  /\ cancelled /\ pc[a] = "wait"
  /\ pc' = [b \in Agents |->
              IF b = a THEN "done"
              ELSE IF Cleaning = {a} /\ pc[b] = "asleep" THEN "woken" ELSE pc[b]]
  /\ UNCHANGED <<flags, hands, channel, toDial, conns, crashed>>

-----------------------------------------------------------------------------
(* Close *)

Close(x) ==
  /\ Step(x, "idle", IF running THEN "cancel" ELSE "done")
  /\ running' = FALSE
  /\ UNCHANGED <<cancelled, chClosed, hands, channel, toDial, conns, crashed>>

CancelNot == UNCHANGED cancelled
Cancel == cancelled' = TRUE

CloseCancels(x) ==
  /\ Step(x, "cancel", "close")
  /\ Cancel
  /\ UNCHANGED <<running, chClosed, hands, channel, toDial, conns, crashed>>

CloseCloses(x) ==
  /\ Step(x, "close", "drain")
  /\ crashed' = chClosed
  /\ chClosed' = TRUE
  /\ UNCHANGED <<running, cancelled, hands, channel, toDial, conns>>

CloseDrains(x) ==
  /\ \/ connections = <<>> /\ Step(x, "drain", "join") /\ UNCHANGED <<connections, closed>>
     \/ /\ connections # <<>> /\ Step(x, "drain", "drain")
        /\ connections' = Tail(connections)
        /\ CloseConns({Head(connections)})
  /\ UNCHANGED <<flags, hands, expired, toDial, opened, broken, crashed>>

CloseWaits(x) ==
  /\ Step(x, "join", IF Cleaning = {} THEN "done" ELSE "asleep")
  /\ UNCHANGED <<flags, hands, channel, toDial, conns, crashed>>

\* Wait, woken, panics when a cleaner was launched in the meantime.
CloseReturnsNow(x) ==
  /\ Step(x, "woken", "done")
  /\ crashed' = (Cleaning # {})
  /\ UNCHANGED <<flags, hands, channel, toDial, conns>>

-----------------------------------------------------------------------------
StartStep(s) == Start(s) \/ StartDials(s) \/ StartSends(s) \/ StartLaunches(s)
UserStep(u) ==
  \/ Begin(u) \/ GetTakes(u) \/ GetFindsNone(u) \/ GetDials(u)
  \/ CloseOwn(u) \/ Put(u)
CleanStep(a) == CleanTakes(a) \/ CleanPutsBack(a) \/ CleanEnds(a) \/ CleanerQuits(a)
CloseStep(x) ==
  \/ CloseCancels(x) \/ CloseCloses(x) \/ CloseDrains(x)
  \/ CloseWaits(x) \/ CloseReturnsNow(x)

Next ==
  /\ ~crashed
  /\ \/ \E s \in Starts :
          StartStep(s) \/ CleanBegins(Cleaner(s)) \/ CleanStep(Cleaner(s))
     \/ \E u \in Users : UserStep(u)
     \/ \E x \in Closes : Close(x) \/ CloseStep(x)
     \/ \E c \in Conns : PeerCloses(c)

Spec == Init /\ [][Next]_vars

\* Goroutines that can run do; users need not, and ticks may be far apart.
Fairness ==
  /\ \A x \in Closes : WF_vars(~crashed /\ CloseStep(x))
  /\ \A s \in Starts : WF_vars(~crashed /\ CleanStep(Cleaner(s)))

FairSpec == Spec /\ Fairness

-----------------------------------------------------------------------------
(* Properties *)

\* Every variable has its type (TCPConnectionPool, connection.go:35-48, and
\* the goroutines that share it).
TypeOK ==
  /\ running \in BOOLEAN /\ cancelled \in BOOLEAN /\ chClosed \in BOOLEAN
  /\ crashed \in BOOLEAN
  /\ connections \in Seq(Conns) /\ Len(connections) <= MaxSize
  /\ pc \in [Agents -> {"idle", "fill", "send", "get", "dial", "using", "put",
                        "wait", "clean", "putBack", "cancel", "close", "drain",
                        "join", "asleep", "woken", "done"}]
  /\ holds \in [Agents -> SUBSET Conns] /\ doomed \subseteq Conns
  /\ toDial \in [Starts -> Nat]
  /\ opened \subseteq Conns /\ closed \subseteq Conns /\ broken \subseteq Conns
  /\ expired \subseteq Conns

Places(c) ==
  Cardinality({n \in DOMAIN connections : connections[n] = c})
    + Cardinality({a \in Agents : c \in holds[a]})

\* A connection that is open is in one place: in the channel or with one
\* user, Start or cleaner, so nobody shares it and none is lost; one that
\* was closed is nowhere.  This is what keeps a pool that was closed, when
\* its users are done, from leaving connections open.
OneOwner ==
  \A c \in opened : Places(c) = (IF c \in closed THEN 0 ELSE 1)

\* Close returns, though the cleaner may be in a loop that only an empty
\* channel ends, or else brings the process down: closing the channel under
\* the cleaner, Get, Put or Start is a panic, and so is a Start that launches
\* its cleaner while Close is being woken.
CloseReturns ==
  \A x \in Closes : pc[x] = "cancel" ~> (pc[x] = "done" \/ crashed)
=============================================================================
