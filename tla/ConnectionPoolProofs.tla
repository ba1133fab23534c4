------------------------ MODULE ConnectionPoolProofs ------------------------
(* Proofs about ConnectionPool: its types, and that every open connection has *)
(* one owner, for any number of users, Starts, Closes and connections.        *)
EXTENDS ConnectionPool, FiniteSetTheorems, TLAPS

\* The small operators the actions are written with, and groups of variables.
USE DEF Step, Gain, Lose, CloseConns, flags, hands, channel, conns

-----------------------------------------------------------------------------
(* Types *)

\* TypeOK in parts, which the provers take one at a time; a Start that is
\* about to send still has to make that connection.
FlagsOK ==
  /\ running \in BOOLEAN /\ cancelled \in BOOLEAN /\ chClosed \in BOOLEAN
  /\ crashed \in BOOLEAN
ChannelOK == connections \in Seq(Conns) /\ Len(connections) <= MaxSize
PcOK ==
  pc \in [Agents -> {"idle", "fill", "send", "get", "dial", "using", "put",
                     "wait", "clean", "putBack", "cancel", "close", "drain",
                     "join", "asleep", "woken", "done"}]
HandsOK == holds \in [Agents -> SUBSET Conns]
DialsOK ==
  /\ toDial \in [Starts -> Nat]
  /\ \A s \in Starts : pc[s] = "send" => toDial[s] > 0
SetsOK ==
  /\ opened \subseteq Conns /\ closed \subseteq Conns /\ broken \subseteq Conns
  /\ expired \subseteq Conns /\ doomed \subseteq Conns

Types == FlagsOK /\ ChannelOK /\ PcOK /\ HandsOK /\ DialsOK /\ SetsOK

\* The parts make up the type invariant, and every step keeps them.
LEMMA TypeParts == Types => TypeOK
BY DEF TypeOK, Types, FlagsOK, ChannelOK, PcOK, HandsOK, DialsOK, SetsOK

\* Who may act.
LEMMA AgentKinds ==
  /\ \A u \in Users : u \in Agents
  /\ \A x \in Closes : x \in Agents
  /\ \A s \in Starts : s \in Agents /\ Cleaner(s) \in Agents
BY DEF Agents

\* The initial state has its types.
LEMMA InitType == Init => Types
<1>1. Init => FlagsOK
  BY DEF Init, FlagsOK
<1>2. Init => ChannelOK
  BY PoolAssumption DEF Init, ChannelOK
<1>3. Init => PcOK
  BY DEF Init, PcOK
<1>4. Init => HandsOK
  BY DEF Init, HandsOK
<1>5. Init => DialsOK
  BY PoolAssumption, AgentKinds DEF Init, DialsOK
<1>6. Init => SetsOK
  BY DEF Init, SetsOK
<1> QED BY <1>1, <1>2, <1>3, <1>4, <1>5, <1>6 DEF Types

\* A send leaves the channel within its capacity.
LEMMA SendChannel ==
  ASSUME Types, chClosed \/ ~Full, NEW a \in Agents, NEW c \in holds[a], Send(a, c)
  PROVE  ChannelOK'
<1>1. CASE chClosed
  BY <1>1 DEF Send, Types, ChannelOK
<1>2. CASE ~chClosed
  <2>1. c \in Conns
    BY DEF Types, HandsOK
  <2>2. connections' = Append(connections, c) /\ Len(connections) < MaxSize
    BY <1>2, PoolAssumption DEF Send, Full, Types, ChannelOK
  <2> QED BY <2>1, <2>2, PoolAssumption DEF Types, ChannelOK
<1> QED BY <1>1, <1>2

\* A receive takes the head.
LEMMA TakeType ==
  ASSUME Types, connections # <<>>
  PROVE  /\ Tail(connections) \in Seq(Conns) /\ Len(Tail(connections)) <= MaxSize
         /\ Head(connections) \in Conns
BY PoolAssumption DEF Types, ChannelOK

\* The steps of a Start keep the types.
LEMMA StartType ==
  ASSUME Types, NEW s \in Starts, StartStep(s)
  PROVE  Types'
<1>1. CASE Start(s)
  <2>1. FlagsOK'
    BY <1>1 DEF Types, FlagsOK, Start
  <2>2. ChannelOK'
    BY <1>1 DEF Types, ChannelOK, Start
  <2>3. PcOK'
    BY <1>1, AgentKinds DEF Types, PcOK, Start
  <2>4. HandsOK'
    BY <1>1, AgentKinds DEF Types, HandsOK, Start
  <2>5. DialsOK'
    BY <1>1, AgentKinds DEF Types, DialsOK, PcOK, Start
  <2>6. SetsOK'
    BY <1>1, AgentKinds DEF Types, SetsOK, HandsOK, Start
  <2> QED BY <2>1, <2>2, <2>3, <2>4, <2>5, <2>6 DEF Types
<1>2. CASE StartDials(s)
  <2>1. FlagsOK'
    BY <1>2 DEF Types, FlagsOK, StartDials
  <2>2. ChannelOK'
    BY <1>2 DEF Types, ChannelOK, StartDials
  <2>3. PcOK'
    BY <1>2, AgentKinds DEF Types, PcOK, StartDials
  <2>4. HandsOK'
    BY <1>2, AgentKinds DEF Types, HandsOK, Dial, StartDials
  <2>5. DialsOK'
    BY <1>2, AgentKinds DEF Types, DialsOK, PcOK, StartDials
  <2>6. SetsOK'
    BY <1>2, AgentKinds DEF Types, SetsOK, HandsOK, Dial, StartDials
  <2> QED BY <2>1, <2>2, <2>3, <2>4, <2>5, <2>6 DEF Types
<1>3. CASE StartSends(s)
  <2>1. FlagsOK'
    BY <1>3 DEF Types, FlagsOK, Send, StartSends
  <2>2. ChannelOK'
    BY <1>3, AgentKinds, SendChannel DEF Types, ChannelOK, StartSends
  <2>3. PcOK'
    BY <1>3, AgentKinds DEF Types, PcOK, StartSends
  <2>4. HandsOK'
    BY <1>3, AgentKinds DEF Types, HandsOK, Send, StartSends
  <2>5. DialsOK'
    BY <1>3, AgentKinds DEF Types, DialsOK, PcOK, StartSends
  <2>6. SetsOK'
    BY <1>3, AgentKinds DEF Types, SetsOK, HandsOK, Send, StartSends
  <2> QED BY <2>1, <2>2, <2>3, <2>4, <2>5, <2>6 DEF Types
<1>4. CASE StartLaunches(s)
  <2>1. FlagsOK'
    BY <1>4 DEF Types, FlagsOK, StartLaunches
  <2>2. ChannelOK'
    BY <1>4 DEF Types, ChannelOK, StartLaunches
  <2>3. PcOK'
    BY <1>4, AgentKinds DEF Types, PcOK, StartLaunches
  <2>4. HandsOK'
    BY <1>4, AgentKinds DEF Types, HandsOK, StartLaunches
  <2>5. DialsOK'
    BY <1>4, AgentKinds DEF Types, DialsOK, PcOK, StartLaunches
  <2>6. SetsOK'
    BY <1>4, AgentKinds DEF Types, SetsOK, HandsOK, StartLaunches
  <2> QED BY <2>1, <2>2, <2>3, <2>4, <2>5, <2>6 DEF Types
<1> QED BY <1>1, <1>2, <1>3, <1>4 DEF StartStep

\* So do those of a user.
LEMMA UserType ==
  ASSUME Types, NEW u \in Users, UserStep(u)
  PROVE  Types'
<1>1. CASE Begin(u)
  <2>1. FlagsOK'
    BY <1>1 DEF Types, FlagsOK, Begin
  <2>2. ChannelOK'
    BY <1>1 DEF Types, ChannelOK, Begin
  <2>3. PcOK'
    BY <1>1, AgentKinds DEF Types, PcOK, Begin
  <2>4. HandsOK'
    BY <1>1, AgentKinds DEF Types, HandsOK, Begin
  <2>5. DialsOK'
    BY <1>1, AgentKinds DEF Types, DialsOK, PcOK, Begin
  <2>6. SetsOK'
    BY <1>1, AgentKinds DEF Types, SetsOK, HandsOK, Begin
  <2> QED BY <2>1, <2>2, <2>3, <2>4, <2>5, <2>6 DEF Types
<1>2. CASE GetTakes(u)
  <2>1. FlagsOK'
    BY <1>2 DEF Types, FlagsOK, GetTakes
  <2>2. ChannelOK'
    BY <1>2, TakeType DEF Types, ChannelOK, GetTakes
  <2>3. PcOK'
    BY <1>2, AgentKinds DEF Types, PcOK, GetTakes
  <2>4. HandsOK'
    BY <1>2, AgentKinds, TakeType DEF Types, HandsOK, GetTakes
  <2>5. DialsOK'
    BY <1>2, AgentKinds DEF Types, DialsOK, PcOK, GetTakes
  <2>6. SetsOK'
    BY <1>2, AgentKinds, TakeType DEF Types, SetsOK, HandsOK, GetTakes
  <2> QED BY <2>1, <2>2, <2>3, <2>4, <2>5, <2>6 DEF Types
<1>3. CASE GetFindsNone(u)
  <2>1. FlagsOK'
    BY <1>3 DEF Types, FlagsOK, GetFindsNone
  <2>2. ChannelOK'
    BY <1>3 DEF Types, ChannelOK, GetFindsNone
  <2>3. PcOK'
    BY <1>3, AgentKinds DEF Types, PcOK, GetFindsNone
  <2>4. HandsOK'
    BY <1>3, AgentKinds DEF Types, HandsOK, GetFindsNone
  <2>5. DialsOK'
    BY <1>3, AgentKinds DEF Types, DialsOK, PcOK, GetFindsNone
  <2>6. SetsOK'
    BY <1>3, AgentKinds DEF Types, SetsOK, HandsOK, GetFindsNone
  <2> QED BY <2>1, <2>2, <2>3, <2>4, <2>5, <2>6 DEF Types
<1>4. CASE GetDials(u)
  <2>1. FlagsOK'
    BY <1>4 DEF Types, FlagsOK, GetDials
  <2>2. ChannelOK'
    BY <1>4 DEF Types, ChannelOK, GetDials
  <2>3. PcOK'
    BY <1>4, AgentKinds DEF Types, PcOK, GetDials
  <2>4. HandsOK'
    BY <1>4, AgentKinds DEF Types, HandsOK, Dial, GetDials
  <2>5. DialsOK'
    BY <1>4, AgentKinds DEF Types, DialsOK, PcOK, GetDials
  <2>6. SetsOK'
    BY <1>4, AgentKinds DEF Types, SetsOK, HandsOK, Dial, GetDials
  <2> QED BY <2>1, <2>2, <2>3, <2>4, <2>5, <2>6 DEF Types
<1>5. CASE CloseOwn(u)
  <2>1. FlagsOK'
    BY <1>5 DEF Types, FlagsOK, CloseOwn
  <2>2. ChannelOK'
    BY <1>5 DEF Types, ChannelOK, CloseOwn
  <2>3. PcOK'
    BY <1>5, AgentKinds DEF Types, PcOK, CloseOwn
  <2>4. HandsOK'
    BY <1>5, AgentKinds DEF Types, HandsOK, CloseOwn
  <2>5. DialsOK'
    BY <1>5, AgentKinds DEF Types, DialsOK, PcOK, CloseOwn
  <2>6. SetsOK'
    BY <1>5, AgentKinds DEF Types, SetsOK, HandsOK, CloseOwn
  <2> QED BY <2>1, <2>2, <2>3, <2>4, <2>5, <2>6 DEF Types
<1>6. CASE Put(u)
  <2>1. FlagsOK'
    BY <1>6 DEF Types, FlagsOK, Send, Put
  <2>2. ChannelOK'
    BY <1>6, AgentKinds, SendChannel DEF Types, ChannelOK, Put
  <2>3. PcOK'
    BY <1>6, AgentKinds DEF Types, PcOK, Put
  <2>4. HandsOK'
    BY <1>6, AgentKinds DEF Types, HandsOK, Send, Put
  <2>5. DialsOK'
    BY <1>6, AgentKinds DEF Types, DialsOK, PcOK, Put
  <2>6. SetsOK'
    <3>1. holds[u] \subseteq Conns
      BY AgentKinds DEF Types, HandsOK
    <3>2. expired' \subseteq expired
      BY <1>6 DEF Put, Send
    <3>3. closed' \subseteq closed \cup holds[u]
      BY <1>6 DEF Put
    <3> QED BY <1>6, <3>1, <3>2, <3>3 DEF Types, SetsOK, Put
  <2> QED BY <2>1, <2>2, <2>3, <2>4, <2>5, <2>6 DEF Types
<1> QED BY <1>1, <1>2, <1>3, <1>4, <1>5, <1>6 DEF UserStep

\* Those of a cleaner.
LEMMA CleanType ==
  ASSUME Types, NEW s \in Starts,
         CleanBegins(Cleaner(s)) \/ CleanStep(Cleaner(s))
  PROVE  Types'
<1>1. CASE CleanBegins(Cleaner(s))
  <2>1. FlagsOK'
    BY <1>1 DEF Types, FlagsOK, CleanBegins
  <2>2. ChannelOK'
    BY <1>1 DEF Types, ChannelOK, CleanBegins
  <2>3. PcOK'
    BY <1>1, AgentKinds DEF Types, PcOK, CleanBegins
  <2>4. HandsOK'
    BY <1>1, AgentKinds DEF Types, HandsOK, CleanBegins
  <2>5. DialsOK'
    BY <1>1, AgentKinds DEF Types, DialsOK, PcOK, CleanBegins
  <2>6. SetsOK'
    <3>1. \A n \in DOMAIN connections : connections[n] \in Conns
      BY DEF Types, ChannelOK
    <3>2. expired' \subseteq Conns
      BY <1>1, <3>1 DEF CleanBegins
    <3> QED BY <1>1, <3>2 DEF Types, SetsOK, CleanBegins
  <2> QED BY <2>1, <2>2, <2>3, <2>4, <2>5, <2>6 DEF Types
<1>2. CASE CleanTakes(Cleaner(s))
  <2>1. FlagsOK'
    BY <1>2 DEF Types, FlagsOK, CleanTakes
  <2>2. ChannelOK'
    BY <1>2, TakeType DEF Types, ChannelOK, CleanTakes
  <2>3. PcOK'
    BY <1>2, AgentKinds DEF Types, PcOK, CleanTakes
  <2>4. HandsOK'
    BY <1>2, AgentKinds, TakeType DEF Types, HandsOK, CleanTakes
  <2>5. DialsOK'
    BY <1>2, AgentKinds DEF Types, DialsOK, PcOK, CleanTakes
  <2>6. SetsOK'
    BY <1>2, AgentKinds, TakeType DEF Types, SetsOK, HandsOK, CleanTakes
  <2> QED BY <2>1, <2>2, <2>3, <2>4, <2>5, <2>6 DEF Types
<1>3. CASE CleanPutsBack(Cleaner(s))
  <2>1. FlagsOK'
    BY <1>3 DEF Types, FlagsOK, Send, CleanPutsBack
  <2>2. ChannelOK'
    BY <1>3, AgentKinds, SendChannel DEF Types, ChannelOK, CleanPutsBack
  <2>3. PcOK'
    BY <1>3, AgentKinds DEF Types, PcOK, CleanPutsBack
  <2>4. HandsOK'
    BY <1>3, AgentKinds DEF Types, HandsOK, Send, CleanPutsBack
  <2>5. DialsOK'
    BY <1>3, AgentKinds DEF Types, DialsOK, PcOK, CleanPutsBack
  <2>6. SetsOK'
    BY <1>3, AgentKinds DEF Types, SetsOK, HandsOK, Send, CleanPutsBack
  <2> QED BY <2>1, <2>2, <2>3, <2>4, <2>5, <2>6 DEF Types
<1>4. CASE CleanEnds(Cleaner(s))
  <2>1. FlagsOK'
    BY <1>4 DEF Types, FlagsOK, CleanEnds
  <2>2. ChannelOK'
    BY <1>4 DEF Types, ChannelOK, CleanEnds
  <2>3. PcOK'
    BY <1>4, AgentKinds DEF Types, PcOK, CleanEnds
  <2>4. HandsOK'
    BY <1>4, AgentKinds DEF Types, HandsOK, CleanEnds
  <2>5. DialsOK'
    BY <1>4, AgentKinds DEF Types, DialsOK, PcOK, CleanEnds
  <2>6. SetsOK'
    BY <1>4, AgentKinds DEF Types, SetsOK, HandsOK, CleanEnds
  <2> QED BY <2>1, <2>2, <2>3, <2>4, <2>5, <2>6 DEF Types
<1>5. CASE CleanerQuits(Cleaner(s))
  <2>1. FlagsOK'
    BY <1>5 DEF Types, FlagsOK, CleanerQuits
  <2>2. ChannelOK'
    BY <1>5 DEF Types, ChannelOK, CleanerQuits
  <2>3. PcOK'
    BY <1>5, AgentKinds DEF Types, PcOK, CleanerQuits
  <2>4. HandsOK'
    BY <1>5, AgentKinds DEF Types, HandsOK, CleanerQuits
  <2>5. DialsOK'
    BY <1>5, AgentKinds DEF Types, DialsOK, PcOK, CleanerQuits
  <2>6. SetsOK'
    BY <1>5, AgentKinds DEF Types, SetsOK, HandsOK, CleanerQuits
  <2> QED BY <2>1, <2>2, <2>3, <2>4, <2>5, <2>6 DEF Types
<1> QED BY <1>1, <1>2, <1>3, <1>4, <1>5 DEF CleanStep

\* And those of a Close.
LEMMA CloseType ==
  ASSUME Types, NEW x \in Closes, Close(x) \/ CloseStep(x)
  PROVE  Types'
<1>1. CASE Close(x)
  <2>1. FlagsOK'
    BY <1>1 DEF Types, FlagsOK, Close
  <2>2. ChannelOK'
    BY <1>1 DEF Types, ChannelOK, Close
  <2>3. PcOK'
    BY <1>1, AgentKinds DEF Types, PcOK, Close
  <2>4. HandsOK'
    BY <1>1, AgentKinds DEF Types, HandsOK, Close
  <2>5. DialsOK'
    BY <1>1, AgentKinds DEF Types, DialsOK, PcOK, Close
  <2>6. SetsOK'
    BY <1>1, AgentKinds DEF Types, SetsOK, HandsOK, Close
  <2> QED BY <2>1, <2>2, <2>3, <2>4, <2>5, <2>6 DEF Types
<1>2. CASE CloseCancels(x)
  <2>1. FlagsOK'
    BY <1>2 DEF Types, FlagsOK, CloseCancels, Cancel
  <2>2. ChannelOK'
    BY <1>2 DEF Types, ChannelOK, CloseCancels, Cancel
  <2>3. PcOK'
    BY <1>2, AgentKinds DEF Types, PcOK, CloseCancels, Cancel
  <2>4. HandsOK'
    BY <1>2, AgentKinds DEF Types, HandsOK, CloseCancels, Cancel
  <2>5. DialsOK'
    BY <1>2, AgentKinds DEF Types, DialsOK, PcOK, CloseCancels, Cancel
  <2>6. SetsOK'
    BY <1>2, AgentKinds DEF Types, SetsOK, HandsOK, CloseCancels, Cancel
  <2> QED BY <2>1, <2>2, <2>3, <2>4, <2>5, <2>6 DEF Types
<1>3. CASE CloseCloses(x)
  <2>1. FlagsOK'
    BY <1>3 DEF Types, FlagsOK, CloseCloses
  <2>2. ChannelOK'
    BY <1>3 DEF Types, ChannelOK, CloseCloses
  <2>3. PcOK'
    BY <1>3, AgentKinds DEF Types, PcOK, CloseCloses
  <2>4. HandsOK'
    BY <1>3, AgentKinds DEF Types, HandsOK, CloseCloses
  <2>5. DialsOK'
    BY <1>3, AgentKinds DEF Types, DialsOK, PcOK, CloseCloses
  <2>6. SetsOK'
    BY <1>3, AgentKinds DEF Types, SetsOK, HandsOK, CloseCloses
  <2> QED BY <2>1, <2>2, <2>3, <2>4, <2>5, <2>6 DEF Types
<1>4. CASE CloseDrains(x)
  <2>1. FlagsOK'
    BY <1>4 DEF Types, FlagsOK, CloseDrains
  <2>2. ChannelOK'
    BY <1>4, TakeType DEF Types, ChannelOK, CloseDrains
  <2>3. PcOK'
    BY <1>4, AgentKinds DEF Types, PcOK, CloseDrains
  <2>4. HandsOK'
    BY <1>4, AgentKinds, TakeType DEF Types, HandsOK, CloseDrains
  <2>5. DialsOK'
    BY <1>4, AgentKinds DEF Types, DialsOK, PcOK, CloseDrains
  <2>6. SetsOK'
    BY <1>4, AgentKinds, TakeType DEF Types, SetsOK, HandsOK, CloseDrains
  <2> QED BY <2>1, <2>2, <2>3, <2>4, <2>5, <2>6 DEF Types
<1>5. CASE CloseReturnsNow(x)
  <2>1. FlagsOK'
    BY <1>5 DEF Types, FlagsOK, CloseReturnsNow
  <2>2. ChannelOK'
    BY <1>5 DEF Types, ChannelOK, CloseReturnsNow
  <2>3. PcOK'
    BY <1>5, AgentKinds DEF Types, PcOK, CloseReturnsNow
  <2>4. HandsOK'
    BY <1>5, AgentKinds DEF Types, HandsOK, CloseReturnsNow
  <2>5. DialsOK'
    BY <1>5, AgentKinds DEF Types, DialsOK, PcOK, CloseReturnsNow
  <2>6. SetsOK'
    BY <1>5, AgentKinds DEF Types, SetsOK, HandsOK, CloseReturnsNow
  <2> QED BY <2>1, <2>2, <2>3, <2>4, <2>5, <2>6 DEF Types
<1>6. CASE CloseWaits(x)
  <2>1. FlagsOK'
    BY <1>6 DEF Types, FlagsOK, CloseWaits
  <2>2. ChannelOK'
    BY <1>6 DEF Types, ChannelOK, CloseWaits
  <2>3. PcOK'
    BY <1>6, AgentKinds DEF Types, PcOK, CloseWaits
  <2>4. HandsOK'
    BY <1>6, AgentKinds DEF Types, HandsOK, CloseWaits
  <2>5. DialsOK'
    BY <1>6, AgentKinds DEF Types, DialsOK, PcOK, CloseWaits
  <2>6. SetsOK'
    BY <1>6, AgentKinds DEF Types, SetsOK, HandsOK, CloseWaits
  <2> QED BY <2>1, <2>2, <2>3, <2>4, <2>5, <2>6 DEF Types
<1> QED BY <1>1, <1>2, <1>3, <1>4, <1>5, <1>6 DEF CloseStep

LEMMA NextType == Types /\ [Next]_vars => Types'
<1>1. Types /\ UNCHANGED vars => Types'
  BY DEF Types, FlagsOK, ChannelOK, PcOK, HandsOK, DialsOK, SetsOK, vars
<1>2. ASSUME Types, NEW c \in Conns, PeerCloses(c) PROVE Types'
  BY <1>2 DEF Types, FlagsOK, ChannelOK, PcOK, HandsOK, DialsOK, SetsOK, PeerCloses
<1> QED BY <1>1, <1>2, StartType, UserType, CleanType, CloseType DEF Next

\* Every variable has its type in every reachable state of the pool.
THEOREM TypeCorrect == Spec => []TypeOK
BY InitType, NextType, TypeParts, PTL DEF Spec

-----------------------------------------------------------------------------
(* Owners *)

Alive == opened \ closed

\* The channel holds nothing twice and only what is alive; so do the
\* goroutines, and neither shares with the other; what is alive is somewhere.
ChannelOwns ==
  /\ \A n \in DOMAIN connections : connections[n] \in Alive
  /\ \A n, m \in DOMAIN connections : connections[n] = connections[m] => n = m
HandsOwn ==
  /\ \A a \in Agents : holds[a] \subseteq Alive
  /\ \A a, b \in Agents : a # b => holds[a] \cap holds[b] = {}
Apart ==
  \A a \in Agents : \A n \in DOMAIN connections : connections[n] \notin holds[a]
NoneLost ==
  /\ closed \subseteq opened
  /\ \A c \in Alive : \/ \E n \in DOMAIN connections : connections[n] = c
                      \/ \E a \in Agents : c \in holds[a]
OwnInv == ChannelOwns /\ HandsOwn /\ Apart /\ NoneLost

\* What a step may do to connections: nothing, make one, move one from a hand
\* into the channel or back, or close what it holds or takes.
Still == UNCHANGED <<connections, holds, opened, closed>>
Makes(a) == (\E c \in Conns : Dial(a, c)) /\ UNCHANGED <<connections, closed>>
Moves(a) ==
  /\ \E c \in holds[a] : /\ connections' = Append(connections, c)
                         /\ Lose(a, {c})
  /\ UNCHANGED <<opened, closed>>
Takes(a) ==
  /\ connections # <<>> /\ connections' = Tail(connections)
  /\ \/ Gain(a, Head(connections)) /\ UNCHANGED closed
     \/ CloseConns({Head(connections)}) /\ UNCHANGED holds
  /\ UNCHANGED opened
Drops(a) ==
  CloseConns(holds[a]) /\ Lose(a, holds[a]) /\ UNCHANGED <<connections, opened>>

\* The five things a step can do to connections keep their owners apart:
\* nothing, making one, moving one, taking one, and closing what is held.
LEMMA StillOwns == ASSUME OwnInv, Still PROVE OwnInv'
BY DEF OwnInv, ChannelOwns, HandsOwn, Apart, NoneLost, Alive, Still

LEMMA MakesOwns ==
  ASSUME Types, OwnInv, NEW a \in Agents, Makes(a)
  PROVE  OwnInv'
<1>1. PICK c \in Conns \ opened : opened' = opened \cup {c} /\ Gain(a, c)
  BY DEF Makes, Dial
<1>2. connections' = connections /\ closed' = closed
  BY DEF Makes
<1>3. c \notin Alive /\ Alive' = Alive \cup {c}
  BY <1>1, <1>2 DEF Alive, OwnInv, NoneLost
<1>4. holds'[a] = holds[a] \cup {c} /\ \A b \in Agents : b # a => holds'[b] = holds[b]
  BY <1>1 DEF Types, HandsOK
<1>5. ChannelOwns'
  BY <1>2, <1>3 DEF OwnInv, ChannelOwns
<1>6. HandsOwn'
  BY <1>3, <1>4 DEF OwnInv, HandsOwn
<1>7. Apart'
  BY <1>2, <1>3, <1>4 DEF OwnInv, ChannelOwns, Apart
<1>8. NoneLost'
  BY <1>1, <1>2, <1>3, <1>4 DEF OwnInv, NoneLost
<1> QED BY <1>5, <1>6, <1>7, <1>8 DEF OwnInv

LEMMA MovesOwns ==
  ASSUME Types, OwnInv, NEW a \in Agents, Moves(a)
  PROVE  OwnInv'
<1>1. PICK c \in holds[a] : connections' = Append(connections, c) /\ Lose(a, {c})
  BY DEF Moves
<1>2. c \in Conns /\ c \in Alive /\ Alive' = Alive
  BY DEF Moves, OwnInv, HandsOwn, Alive, Types, HandsOK
<1>3. holds'[a] = holds[a] \ {c} /\ \A b \in Agents : b # a => holds'[b] = holds[b]
  BY <1>1 DEF Types, HandsOK
<1>4. /\ DOMAIN connections' = 1 .. Len(connections) + 1
      /\ connections'[Len(connections) + 1] = c
      /\ \A n \in DOMAIN connections : connections'[n] = connections[n]
      /\ DOMAIN connections = 1 .. Len(connections) /\ Len(connections) \in Nat
  BY <1>1, <1>2 DEF Types, ChannelOK
<1>5. \A n \in DOMAIN connections : connections[n] # c
  BY DEF OwnInv, Apart
<1>6. ChannelOwns'
  BY <1>2, <1>4, <1>5 DEF OwnInv, ChannelOwns
<1>7. HandsOwn'
  BY <1>2, <1>3 DEF OwnInv, HandsOwn
<1>8. Apart'
  BY <1>3, <1>4 DEF OwnInv, Apart, HandsOwn
<1>9. NoneLost'
  <2>1. closed' \subseteq opened'
    BY DEF Moves, OwnInv, NoneLost
  <2>2. ASSUME NEW d \in Alive
        PROVE  \/ \E n \in DOMAIN connections' : connections'[n] = d
               \/ \E b \in Agents : d \in holds'[b]
    <3>1. CASE d = c
      BY <1>4, <3>1
    <3>2. CASE d # c
      BY <1>3, <1>4, <3>2 DEF OwnInv, NoneLost
    <3> QED BY <3>1, <3>2
  <2> QED BY <1>2, <2>1, <2>2 DEF NoneLost
<1> QED BY <1>6, <1>7, <1>8, <1>9 DEF OwnInv

LEMMA TakesOwns ==
  ASSUME Types, OwnInv, NEW a \in Agents, Takes(a)
  PROVE  OwnInv'
<1> DEFINE h == Head(connections)
<1>1. /\ DOMAIN connections = 1 .. Len(connections) /\ Len(connections) \in Nat \ {0}
      /\ h = connections[1]
      /\ DOMAIN connections' = 1 .. Len(connections) - 1
      /\ \A n \in DOMAIN connections' : connections'[n] = connections[n + 1]
  BY DEF Takes, Types, ChannelOK
<1> HIDE DEF h
<1>2. h \in Alive /\ \A n \in DOMAIN connections' : connections'[n] # h
  BY <1>1 DEF OwnInv, ChannelOwns
<1>3. \A b \in Agents : h \notin holds[b]
  BY <1>1 DEF OwnInv, Apart
<1>4. \A n \in DOMAIN connections :
        connections[n] = h \/ \E m \in DOMAIN connections' : connections'[m] = connections[n]
  <2>1. ASSUME NEW n \in DOMAIN connections, n # 1
        PROVE  n - 1 \in DOMAIN connections' /\ connections'[n - 1] = connections[n]
    BY <1>1, <2>1
  <2> QED BY <1>1, <2>1
<1>5. CASE Gain(a, h) /\ closed' = closed
  <2>1. Alive' = Alive
    BY <1>5 DEF Alive, Takes
  <2>2. holds'[a] = holds[a] \cup {h} /\ \A b \in Agents : b # a => holds'[b] = holds[b]
    BY <1>5 DEF Types, HandsOK
  <2>3. ChannelOwns'
    BY <1>1, <2>1 DEF OwnInv, ChannelOwns
  <2>4. HandsOwn'
    BY <1>2, <1>3, <2>1, <2>2 DEF OwnInv, HandsOwn
  <2>5. Apart'
    BY <1>1, <1>2, <2>2 DEF OwnInv, Apart
  <2>6. NoneLost'
    BY <1>4, <1>5, <2>1, <2>2 DEF OwnInv, NoneLost, Takes
  <2> QED BY <2>3, <2>4, <2>5, <2>6 DEF OwnInv
<1>6. CASE CloseConns({h}) /\ holds' = holds
  <2>1. Alive' = Alive \ {h}
    BY <1>6 DEF Alive, Takes
  <2>2. ChannelOwns'
    BY <1>1, <1>2, <2>1 DEF OwnInv, ChannelOwns
  <2>3. HandsOwn'
    BY <1>3, <1>6, <2>1 DEF OwnInv, HandsOwn
  <2>4. Apart'
    BY <1>1, <1>6 DEF OwnInv, Apart
  <2>5. NoneLost'
    <3>1. closed' \subseteq opened'
      BY <1>2, <1>6 DEF Alive, Takes, OwnInv, NoneLost
    <3> QED BY <1>4, <1>6, <2>1, <3>1 DEF OwnInv, NoneLost
  <2> QED BY <2>2, <2>3, <2>4, <2>5 DEF OwnInv
<1> QED BY <1>5, <1>6 DEF Takes, h

LEMMA DropsOwns ==
  ASSUME Types, OwnInv, NEW a \in Agents, Drops(a)
  PROVE  OwnInv'
<1>1. connections' = connections /\ Alive' = Alive \ holds[a]
  BY DEF Drops, Alive
<1>2. holds'[a] = {} /\ \A b \in Agents : b # a => holds'[b] = holds[b]
  BY DEF Drops, Types, HandsOK
<1>3. ChannelOwns'
  BY <1>1 DEF OwnInv, ChannelOwns, Apart
<1>4. HandsOwn'
  BY <1>1, <1>2 DEF OwnInv, HandsOwn
<1>5. Apart'
  BY <1>1, <1>2 DEF OwnInv, Apart
<1>6. NoneLost'
  <2>1. closed' \subseteq opened'
    BY DEF Drops, OwnInv, NoneLost, HandsOwn, Alive
  <2> QED BY <1>1, <1>2, <2>1 DEF OwnInv, NoneLost
<1> QED BY <1>3, <1>4, <1>5, <1>6 DEF OwnInv

\* A send moves, or panics on the closed channel.
LEMMA SendMoves ==
  ASSUME NEW a \in Agents, NEW c \in holds[a], Send(a, c), UNCHANGED <<opened, closed>>
  PROVE  Moves(a) \/ Still
BY DEF Send, Moves, Still

\* Every step is one of these.
Move == Still \/ \E a \in Agents : Makes(a) \/ Moves(a) \/ Takes(a) \/ Drops(a)

\* Every step does one of the five.
LEMMA StepsMove ==
  ASSUME Next
  PROVE  Move
<1>1. ASSUME NEW s \in Starts, StartStep(s) PROVE Move
  <2>1. CASE Start(s) \/ StartLaunches(s)
    BY <2>1 DEF Start, StartLaunches, Move, Still
  <2>2. CASE StartDials(s)
    BY <2>2, AgentKinds DEF StartDials, Dial, Move, Still, Makes
  <2>3. CASE StartSends(s)
    BY <2>3, AgentKinds, SendMoves DEF StartSends, Move
  <2> QED BY <1>1, <2>1, <2>2, <2>3 DEF StartStep
<1>2. ASSUME NEW u \in Users, UserStep(u) PROVE Move
  <2>1. CASE Begin(u) \/ GetFindsNone(u)
    BY <2>1 DEF Begin, GetFindsNone, Move, Still
  <2>2. CASE GetTakes(u)
    BY <2>2, AgentKinds DEF GetTakes, Move, Takes
  <2>3. CASE GetDials(u)
    BY <2>3, AgentKinds DEF GetDials, Dial, Move, Still, Makes
  <2>4. CASE CloseOwn(u)
    BY <2>4, AgentKinds DEF CloseOwn, Move, Drops
  <2>5. CASE Put(u)
    BY <2>5, AgentKinds, SendMoves DEF Put, Move, Drops
  <2> QED BY <1>2, <2>1, <2>2, <2>3, <2>4, <2>5 DEF UserStep
<1>3. ASSUME NEW s \in Starts, CleanBegins(Cleaner(s)) \/ CleanStep(Cleaner(s))
      PROVE  Move
  <2> DEFINE a == Cleaner(s)
  <2>a. a \in Agents
    BY AgentKinds
  <2> HIDE DEF a
  <2>1. CASE CleanBegins(a) \/ CleanerQuits(a)
    BY <2>1 DEF CleanBegins, CleanerQuits, Move, Still
  <2>2. CASE CleanTakes(a)
    BY <2>2, <2>a DEF CleanTakes, Move, Takes
  <2>3. CASE CleanPutsBack(a)
    BY <2>3, <2>a, SendMoves DEF CleanPutsBack, Move, Still
  <2>4. CASE CleanEnds(a)
    BY <2>4, <2>a DEF CleanEnds, Move, Still, Drops
  <2> QED BY <1>3, <2>1, <2>2, <2>3, <2>4 DEF CleanStep, a
<1>4. ASSUME NEW x \in Closes, Close(x) \/ CloseStep(x) PROVE Move
  <2>1. CASE Close(x) \/ CloseCancels(x) \/ CloseCloses(x) \/ CloseWaits(x)
    BY <2>1 DEF Close, CloseCancels, CloseCloses, CloseWaits, Move, Still
  <2>3. CASE CloseReturnsNow(x)
    BY <2>3 DEF CloseReturnsNow, Move, Still
  <2>2. CASE CloseDrains(x)
    BY <2>2, AgentKinds DEF CloseDrains, Move, Still, Takes
  <2> QED BY <1>4, <2>1, <2>2, <2>3 DEF CloseStep
<1>5. ASSUME NEW c \in Conns, PeerCloses(c) PROVE Move
  BY <1>5 DEF PeerCloses, Move, Still
<1> QED BY <1>1, <1>2, <1>3, <1>4, <1>5 DEF Next

\* What OneOwner counts is then at most one.
LEMMA OwnersCounted == ASSUME OwnInv PROVE OneOwner
<1> DEFINE In(c) == {n \in DOMAIN connections : connections[n] = c}
           By(c) == {a \in Agents : c \in holds[a]}
<1>1. ASSUME NEW c \in closed PROVE Cardinality(In(c)) = 0 /\ Cardinality(By(c)) = 0
  <2>1. In(c) = {} /\ By(c) = {}
    BY <1>1 DEF OwnInv, ChannelOwns, HandsOwn, Alive
  <2> QED BY <2>1, FS_EmptySet
<1>2. ASSUME NEW c \in Alive
      PROVE  \/ Cardinality(In(c)) = 1 /\ Cardinality(By(c)) = 0
             \/ Cardinality(In(c)) = 0 /\ Cardinality(By(c)) = 1
  <2>1. CASE \E n \in DOMAIN connections : connections[n] = c
    <3>1. PICK n \in DOMAIN connections : connections[n] = c
      BY <2>1
    <3>2. In(c) = {n}
      BY <3>1 DEF OwnInv, ChannelOwns
    <3>3. By(c) = {}
      BY <3>1 DEF OwnInv, Apart
    <3> QED BY <3>2, <3>3, FS_EmptySet, FS_Singleton
  <2>2. CASE ~ \E n \in DOMAIN connections : connections[n] = c
    <3>1. PICK a \in Agents : c \in holds[a]
      BY <2>2 DEF OwnInv, NoneLost
    <3>2. By(c) = {a}
      BY <3>1 DEF OwnInv, HandsOwn
    <3>3. In(c) = {}
      BY <2>2
    <3> QED BY <3>2, <3>3, FS_EmptySet, FS_Singleton
  <2> QED BY <2>1, <2>2
<1>3. ASSUME NEW c \in opened
      PROVE  Places(c) = (IF c \in closed THEN 0 ELSE 1)
  <2>1. Places(c) = Cardinality(In(c)) + Cardinality(By(c))
    BY DEF Places
  <2> HIDE DEF In, By
  <2>2. CASE c \in closed
    BY <1>1, <2>1, <2>2
  <2>3. CASE c \notin closed
    BY <1>2, <2>1, <2>3 DEF Alive
  <2> QED BY <2>2, <2>3
<1> QED BY <1>3 DEF OneOwner

\* Every open connection is in the channel or with one goroutine, and a closed
\* one is nowhere, whatever users, Starts, cleaners, Closes and peers do.
THEOREM OwnedOnce == Spec => []OneOwner
<1>1. Init => OwnInv
  BY DEF Init, OwnInv, ChannelOwns, HandsOwn, Apart, NoneLost, Alive
<1>2. Types /\ OwnInv /\ [Next]_vars => OwnInv'
  <2>1. ASSUME Types, OwnInv, UNCHANGED vars PROVE OwnInv'
    BY <2>1, StillOwns DEF Still, vars
  <2>2. ASSUME Types, OwnInv, Next PROVE OwnInv'
    BY <2>2, StepsMove, StillOwns, MakesOwns, MovesOwns, TakesOwns, DropsOwns
    DEF Move
  <2> QED BY <2>1, <2>2
<1> QED BY <1>1, <1>2, OwnersCounted, InitType, NextType, PTL DEF Spec
=============================================================================
