----------------------------- MODULE CallProofs -----------------------------
(* Proofs about the two parts that calls to another service go through:      *)
(* CircuitBreaker, which lets them pass or not, and RPC, which carries them. *)
(* Of the breaker, FailureReopens, TripsOnFailures and ClosesWithinTrials,   *)
(* for any number of callers and any thresholds; of RPC, its types and       *)
(* OwnReply, for any number of calls, connections and retries.               *)
EXTENDS CircuitBreaker, RPC, FiniteSetTheorems, SequenceTheorems, TLAPS

-----------------------------------------------------------------------------
(* The breaker *)

\* The small operators every step is written with.
USE DEF Goto, Load, SwapIf, Everyone, States, Zero, Returned

-----------------------------------------------------------------------------
(* Types *)

\* The initial state has its types.
LEMMA InitType == Init => TypeOK
BY BreakerAssumption DEF Init, TypeOK

\* Every step of a call keeps the types.
LEMMA CallType == ASSUME TypeOK, NEW c \in Callers, CallStep(c) PROVE TypeOK'
<1> USE DEF TypeOK
<1>1. CASE Call(c)
  BY <1>1 DEF Call
<1>2. CASE Allow(c)
  BY <1>2 DEF Allow
<1>3. CASE Run(c)
  BY <1>3 DEF Run
<1>4. CASE recordSuccess(c)
  <2>1. stats' = [requests |-> stats.requests + 1, failures |-> stats.failures,
                  cFails |-> 0, cSuccs |-> stats.cSuccs + 1]
    BY <1>4 DEF recordSuccess
  <2>2. stats' \in [requests : Nat, failures : Nat, cFails : Nat, cSuccs : Nat]
    BY <2>1
  <2> QED BY <1>4, <2>2 DEF recordSuccess
<1>5. CASE recordFailure(c)
  BY <1>5 DEF recordFailure
<1>6. CASE StampFailure(c)
  BY <1>6 DEF StampFailure
<1>7. CASE LoadAgain(c)
  BY <1>7 DEF LoadAgain
<1>8. CASE JudgeSuccess(c)
  BY <1>8 DEF JudgeSuccess
<1>9. CASE JudgeFailure(c)
  BY <1>9 DEF JudgeFailure
<1> QED BY <1>1, <1>2, <1>3, <1>4, <1>5, <1>6, <1>7, <1>8, <1>9 DEF CallStep

\* So does every other step.
LEMMA NextType == TypeOK /\ [Next]_vars => TypeOK'
<1> SUFFICES ASSUME TypeOK, [Next]_vars PROVE TypeOK'
  OBVIOUS
<1>1. ASSUME NEW c \in Callers, CallStep(c) PROVE TypeOK'
  BY <1>1, CallType
<1>2. ASSUME NEW c \in Everyone, Swap(c) PROVE TypeOK'
  BY <1>2 DEF Swap, AfterSwap, TypeOK
<1>3. ASSUME NEW c \in Everyone, resetStats(c) PROVE TypeOK'
  BY <1>3 DEF resetStats, TypeOK
<1>4. ASSUME NEW a \in Admin, Operate(a) PROVE TypeOK'
  BY <1>4 DEF Operate, TypeOK
<1>5. CASE SleepPasses
  BY <1>5 DEF SleepPasses, TypeOK
<1>6. CASE UNCHANGED vars
  BY <1>6 DEF vars, TypeOK
<1> QED BY <1>1, <1>2, <1>3, <1>4, <1>5, <1>6 DEF Next

\* Every variable has its type in every reachable state of the breaker.
THEOREM TypeCorrect == Spec => []TypeOK
BY InitType, NextType, PTL DEF Spec

-----------------------------------------------------------------------------
(* Failures of the half-open state *)

\* FailureReopens is inductive as it stands: whoever counted a failure stays
\* on its way to open the breaker until its own swap.
LEMMA NextReopens ==
  TypeOK /\ FailureReopens /\ [Next]_vars => FailureReopens'
<1> SUFFICES ASSUME TypeOK, FailureReopens, [Next]_vars,
                    state' = "halfOpen", NEW f \in failedHere'
             PROVE  Opening(f)'
  BY DEF FailureReopens
<1> USE DEF TypeOK, FailureReopens, Opening
<1>1. ASSUME NEW c \in Callers, CallStep(c) PROVE Opening(f)'
  <2>1. CASE Call(c)
    BY <2>1 DEF Call
  <2>2. CASE Allow(c)
    BY <2>2 DEF Allow
  <2>3. CASE Run(c)
    BY <2>3 DEF Run
  <2>4. CASE recordSuccess(c)
    BY <2>4 DEF recordSuccess
  <2>5. CASE recordFailure(c)
    BY <2>5 DEF recordFailure
  <2>6. CASE StampFailure(c)
    BY <2>6 DEF StampFailure
  <2>7. CASE LoadAgain(c)
    BY <2>7 DEF LoadAgain
  <2>8. CASE JudgeSuccess(c)
    BY <2>8 DEF JudgeSuccess
  <2>9. CASE JudgeFailure(c)
    BY <2>9 DEF JudgeFailure, FailureOpens
  <2> QED BY <1>1, <2>1, <2>2, <2>3, <2>4, <2>5, <2>6, <2>7, <2>8, <2>9
          DEF CallStep
<1>2. ASSUME NEW c \in Everyone, Swap(c) PROVE Opening(f)'
  BY <1>2 DEF Swap
<1>3. ASSUME NEW c \in Everyone, resetStats(c) PROVE Opening(f)'
  BY <1>3 DEF resetStats
<1>4. ASSUME NEW a \in Admin, Operate(a) PROVE Opening(f)'
  BY <1>4 DEF Operate
<1>5. CASE SleepPasses
  BY <1>5 DEF SleepPasses
<1>6. CASE UNCHANGED vars
  BY <1>6 DEF vars
<1> QED BY <1>1, <1>2, <1>3, <1>4, <1>5, <1>6 DEF Next

\* A failure counted in the half-open state reopens the breaker, however
\* calls and management operations interleave.
THEOREM FailuresReopen == Spec => []FailureReopens
<1>1. Init => FailureReopens
  BY DEF Init, FailureReopens
<1> QED BY <1>1, InitType, NextType, NextReopens, PTL DEF Spec

-----------------------------------------------------------------------------
(* Trips *)

\* On its way to open the breaker, or to reset the counters.
Tripping(c) ==
  \/ pc[c] \in {"stamp", "loadF", "reset", "resetLast"}
  \/ pc[c] = "judgeF" /\ seen[c] \in {"closed", "halfOpen"}
  \/ pc[c] = "swap" /\ seen[c] = "open"

\* A closed breaker over its threshold has somebody who trips it.
TripInv ==
  (/\ state = "closed"
   /\ stats.requests >= MinRequests /\ stats.cFails >= FailureThreshold)
  => \E c \in Everyone : Tripping(c)

\* The one who trips hands over to nobody: until its own swap it stays on
\* its way, and a swap back to closed is followed by a reset.
LEMMA NextTrips == TypeOK /\ TripInv /\ [Next]_vars => TripInv'
<1> SUFFICES ASSUME TypeOK, TripInv, [Next]_vars,
                    state' = "closed", stats'.requests >= MinRequests,
                    stats'.cFails >= FailureThreshold
             PROVE  \E c \in Everyone : Tripping(c)'
  BY DEF TripInv
<1> USE DEF TypeOK, TripInv, Tripping
<1>1. ASSUME NEW c \in Callers, CallStep(c)
      PROVE  \E d \in Everyone : Tripping(d)'
  <2>1. CASE Call(c)
    BY <2>1 DEF Call
  <2>2. CASE Allow(c)
    BY <2>2 DEF Allow
  <2>3. CASE Run(c)
    BY <2>3 DEF Run
  <2>4. CASE recordSuccess(c)
    BY <2>4, BreakerAssumption DEF recordSuccess
  <2>5. CASE recordFailure(c)
    BY <2>5 DEF recordFailure
  <2>6. CASE StampFailure(c)
    BY <2>6 DEF StampFailure
  <2>7. CASE LoadAgain(c)
    BY <2>7 DEF LoadAgain
  <2>8. CASE JudgeSuccess(c)
    BY <2>8 DEF JudgeSuccess
  <2>9. CASE JudgeFailure(c)
    BY <2>9 DEF JudgeFailure, FailureOpens, shouldOpen
  <2> QED BY <1>1, <2>1, <2>2, <2>3, <2>4, <2>5, <2>6, <2>7, <2>8, <2>9
          DEF CallStep
<1>2. ASSUME NEW c \in Everyone, Swap(c)
      PROVE  \E d \in Everyone : Tripping(d)'
  BY <1>2 DEF Swap, AfterSwap
<1>3. ASSUME NEW c \in Everyone, resetStats(c)
      PROVE  \E d \in Everyone : Tripping(d)'
  BY <1>3, BreakerAssumption DEF resetStats
<1>4. ASSUME NEW a \in Admin, Operate(a)
      PROVE  \E d \in Everyone : Tripping(d)'
  BY <1>4 DEF Operate
<1>5. CASE SleepPasses
  BY <1>5 DEF SleepPasses
<1>6. CASE UNCHANGED vars
  BY <1>6 DEF vars
<1> QED BY <1>1, <1>2, <1>3, <1>4, <1>5, <1>6 DEF Next

\* No interleaving of loads, checks and swaps loses a trip: once everybody
\* has returned, a closed breaker is below its threshold.
THEOREM TripsHappen == Spec => []TripsOnFailures
<1>1. Init => TripInv
  BY BreakerAssumption DEF Init, TripInv
<1>2. TypeOK /\ TripInv => TripsOnFailures
  BY DEF TypeOK, TripInv, TripsOnFailures, AllIdle, Tripping
<1> QED BY <1>1, <1>2, InitType, NextType, NextTrips, PTL DEF Spec

-----------------------------------------------------------------------------
(* Calls that never overlap *)

\* The counts with which calls that do not overlap close a breaker.
Room == stats.requests \in MinRequests + 1 .. HalfOpenMax

\* With one call at a time what was loaded is the state, and a breaker that is
\* not closed has counted what opened it.  So a trial that was let into the
\* half-open state left room for itself, and whoever is about to close the
\* breaker counted more than MinRequests and at most HalfOpenMax requests.
AloneInv ==
  alone =>
    /\ \A c, d \in Everyone :
         pc[c] \notin {"idle", "done"} /\ pc[d] \notin {"idle", "done"} => c = d
    /\ \A a \in Admin : pc[a] = "idle"
    /\ state # "closed" => stats.requests >= MinRequests
    /\ \A c \in Callers :
         /\ pc[c] \in {"reset", "resetLast"} => state = "closed"
         /\ pc[c] \in {"allow", "run", "judgeS", "judgeF"} => seen[c] = state
         /\ pc[c] \in {"run", "succeeded"} /\ state = "halfOpen"
              => stats.requests < HalfOpenMax
         /\ pc[c] \in {"loadS", "judgeS"} /\ state = "halfOpen" => Room
         /\ pc[c] = "swap" /\ seen[c] = "closed" => state = "halfOpen" /\ Room
         /\ pc[c] = "swap" => stats.requests >= MinRequests

\* AloneInv is kept by every step.
LEMMA NextAlone == TypeOK /\ AloneInv /\ [Next]_vars => AloneInv'
<1> SUFFICES ASSUME TypeOK, AloneInv, [Next]_vars, alone' PROVE AloneInv'
  BY DEF AloneInv
<1> USE BreakerAssumption DEF TypeOK, AloneInv, Room
<1>1. ASSUME NEW c \in Callers, CallStep(c) PROVE AloneInv'
  <2>1. CASE Call(c)
    BY <2>1 DEF Call, AllIdle
  <2>2. CASE Allow(c)
    BY <2>2 DEF Allow, Allows
  <2>3. CASE Run(c)
    BY <2>3 DEF Run
  <2>4. CASE recordSuccess(c)
    BY <2>4 DEF recordSuccess
  <2>5. CASE recordFailure(c)
    BY <2>5 DEF recordFailure
  <2>6. CASE StampFailure(c)
    BY <2>6 DEF StampFailure
  <2>7. CASE LoadAgain(c)
    BY <2>7 DEF LoadAgain
  <2>8. CASE JudgeSuccess(c)
    BY <2>8 DEF JudgeSuccess
  <2>9. CASE JudgeFailure(c)
    BY <2>9 DEF JudgeFailure, FailureOpens, shouldOpen
  <2> QED BY <1>1, <2>1, <2>2, <2>3, <2>4, <2>5, <2>6, <2>7, <2>8, <2>9
          DEF CallStep
<1>2. ASSUME NEW c \in Everyone, Swap(c) PROVE AloneInv'
  BY <1>2 DEF Swap, AfterSwap
<1>3. ASSUME NEW c \in Everyone, resetStats(c) PROVE AloneInv'
  BY <1>3 DEF resetStats
<1>4. ASSUME NEW a \in Admin, Operate(a) PROVE AloneInv'
  BY <1>4 DEF Operate
<1>5. CASE SleepPasses
  BY <1>5 DEF SleepPasses
<1>6. CASE UNCHANGED vars
  BY <1>6 DEF vars
<1> QED BY <1>1, <1>2, <1>3, <1>4, <1>5, <1>6 DEF Next

\* AloneInv holds throughout.
LEMMA AloneHolds == Spec => [](TypeOK /\ AloneInv)
<1>1. Init => AloneInv
  BY BreakerAssumption DEF Init, AloneInv
<1> QED BY <1>1, InitType, NextType, NextAlone, PTL DEF Spec

\* Calls that do not overlap close a breaker only with more than MinRequests
\* and at most HalfOpenMax requests counted, for any thresholds (allowRequest
\* and recordSuccess).
THEOREM TrialsBoundClosing == Spec => ClosesWithinTrials
<1>1. ASSUME TypeOK, AloneInv, [Next]_vars
      PROVE  [alone' /\ Closes
                => stats.requests \in MinRequests + 1 .. HalfOpenMax]_vars
  <2> SUFFICES ASSUME alone', Closes, Next PROVE Room
    BY <1>1 DEF Room
  <2>1. PICK c \in Everyone : Swap(c)
    BY DEF Next, CallStep, Call, Allow, Run, recordSuccess, recordFailure,
           StampFailure, LoadAgain, JudgeSuccess, JudgeFailure, resetStats,
           Operate, SleepPasses, Closes
  <2> QED BY <1>1, <2>1 DEF Swap, Closes, AloneInv, TypeOK
<1> QED BY <1>1, AloneHolds, PTL DEF Spec, ClosesWithinTrials

\* Where HalfOpenMax <= MinRequests, as in DefaultConfig but not by any check
\* of NewCircuitBreaker, calls that do not overlap never close a breaker
\* again: it does not recover by itself.
THEOREM NeverRecovers ==
  ASSUME HalfOpenMax <= MinRequests PROVE Spec => NeverClosesAlone
<1>1. ASSUME TypeOK,
             [alone' /\ Closes
                => stats.requests \in MinRequests + 1 .. HalfOpenMax]_vars
      PROVE  [alone' => ~Closes]_vars
  BY <1>1, BreakerAssumption
<1>2. Spec => []TypeOK
  BY AloneHolds, PTL
<1> QED BY <1>1, <1>2, TrialsBoundClosing, PTL
        DEF ClosesWithinTrials, NeverClosesAlone

-----------------------------------------------------------------------------
(* The client and the server *)

\* A sequence of at most two elements, by its length.
LEMMA IsNone == ASSUME NEW S, NEW q \in Seq(S), Len(q) = 0
  PROVE q = <<>>
OBVIOUS

LEMMA IsOne == ASSUME NEW S, NEW q \in Seq(S), Len(q) = 1
  PROVE q = <<q[1]>>
OBVIOUS

LEMMA IsTwo == ASSUME NEW S, NEW q \in Seq(S), Len(q) = 2
  PROVE q = <<q[1], q[2]>>
OBVIOUS

\* What Append and a response do to a short sequence.
LEMMA Put == ASSUME NEW S, NEW a \in S, NEW b \in S
  PROVE  /\ Append(<<>>, a) = <<a>> /\ Append(<<a>>, b) = <<a, b>>
         /\ <<>> \o <<a, b>> = <<a, b>>
<1>1. Append(<<>>, a) = <<a>> /\ <<>> \o <<a, b>> = <<a, b>>
  OBVIOUS
<1>2. <<a>> \in Seq(S) /\ Len(<<a>>) = 1 /\ <<a>>[1] = a
  OBVIOUS
<1>3. \A p \in Seq(S) : /\ Append(p, b) \in Seq(S) /\ Len(Append(p, b)) = Len(p) + 1
        /\ Append(p, b)[Len(p) + 1] = b
        /\ \A n \in 1 .. Len(p) : Append(p, b)[n] = p[n]
  OBVIOUS
<1>4. /\ Append(<<a>>, b) \in Seq(S) /\ Len(Append(<<a>>, b)) = 2
      /\ Append(<<a>>, b)[1] = a /\ Append(<<a>>, b)[2] = b
  BY <1>2, <1>3
<1>5. Append(<<a>>, b) = <<a, b>>
  BY <1>4, IsTwo
<1> QED BY <1>1, <1>5

\* A beginning of a sequence.
LEMMA Prefix == ASSUME NEW S, NEW q \in Seq(S), NEW n \in 0 .. Len(q)
  PROVE  /\ SubSeq(q, 1, n) \in Seq(S) /\ Len(SubSeq(q, 1, n)) = n
         /\ \A m \in 1 .. n : SubSeq(q, 1, n)[m] = q[m]
  OBVIOUS

\* What a reset can leave of at most two pieces.
LEMMA PrefixUpToTwo ==
  ASSUME NEW S, NEW r \in Seq(S), NEW n \in 0 .. Len(r), Len(r) <= 2
  PROVE \/ SubSeq(r, 1, n) = <<>>
        \/ SubSeq(r, 1, n) = <<r[1]>> /\ Len(r) >= 1
        \/ SubSeq(r, 1, n) = r
<1> DEFINE q == SubSeq(r, 1, n)
<1>1. /\ q \in Seq(S) /\ Len(q) = n /\ \A m \in 1 .. n : q[m] = r[m]
  BY Prefix
<1>2. n = Len(r) => q = r
  BY SubSeqFull
<1>3. n = 0 => q = <<>>
  BY <1>1, IsNone
<1>4. n = 1 => q = <<r[1]>>
  <2> HAVE n = 1
  <2>1. q[1] = r[1]
    BY <1>1
  <2> QED BY <1>1, <2>1, IsOne
<1>5. Len(r) \in Nat /\ n \in Nat /\ (n = 0 \/ n = 1 \/ n = Len(r))
  OBVIOUS
<1> HIDE DEF q
<1> QED BY <1>2, <1>3, <1>4, <1>5 DEF q

\* Sequences of different pieces differ.
LEMMA Differ == \A a, b, c, d :
  /\ <<>> # <<a>> /\ <<>> # <<a, b>> /\ <<c>> # <<a, b>>
  /\ <<a, b>> = <<c, d>> => a = c /\ b = d
  /\ <<a>> = <<c>> => a = c
OBVIOUS

\* More than one piece is not one.
LEMMA NotJustOne == ASSUME NEW q, Len(q) > 1, NEW a PROVE q # <<a>>
<1> SUFFICES ASSUME q = <<a>> PROVE FALSE
  OBVIOUS
<1>1. Len(<<a>>) = 1
  OBVIOUS
<1>2. Len(q) = 1
  BY <1>1, Zenon
<1> QED BY <1>2

-----------------------------------------------------------------------------
(* What a connection can look like *)

Piece == [part : {"length", "data"}, of : Calls, error : BOOLEAN]
CallStages ==
  {"idle", "connect", "write", "data", "read", "body", "wait", "done"}
ServerStages == {"none", "read", "handle", "answer", "refuse", "closed"}

WireTypes ==
  /\ conn \in Conns \cup {NoConn} /\ localClosed \subseteq Conns
  /\ up \in [Conns -> Seq(Piece)] /\ down \in [Conns -> Seq(Piece)]
  /\ sPc \in [Conns -> ServerStages]
  /\ serving \in [Conns -> Calls \cup {NoCall}]
  /\ peerClosed \subseteq Conns
CallTypes ==
  /\ cPc \in [Calls \cup Closers -> CallStages]
  /\ i \in [Calls -> Nat] /\ mine \in [Calls -> Conns \cup {NoConn}]
  /\ result \in [Calls -> {"none", "ok", "error"}]
  /\ reply \in [Calls -> Calls \cup {NoCall}]
  /\ executions \in [Calls -> Nat]

Empty(k) == up[k] = <<>> /\ down[k] = <<>>
\* Not dialled yet.
Unused(k) == Empty(k) /\ sPc[k] = "none" /\ k # conn
\* Nothing of any attempt left.
Clean(k) == Empty(k) /\ sPc[k] \in {"read", "closed"}
\* Dropped by the server, with nothing left to read.
Lost(k) == Empty(k) /\ sPc[k] = "closed"
\* The length of c's request is out, its data is not.
Begun(c, k) ==
  sPc[k] = "read" /\ up[k] = <<Length(c)>> /\ down[k] = <<>>
\* From c's request to the reply: sent, with the method, answered, cut short.
Sent(c, k) ==
  sPc[k] = "read" /\ up[k] = <<Length(c), Data(c, FALSE)>> /\ down[k] = <<>>
Served(c, k) ==
  /\ Empty(k) /\ serving[k] = c
  /\ \/ sPc[k] \in {"handle", "refuse"}
     \/ sPc[k] = "answer" /\ executions[c] > 0
Replied(c, k) ==
  /\ up[k] = <<>> /\ sPc[k] \in {"read", "closed"}
  /\ \E e \in BOOLEAN : /\ down[k] = <<Length(c), Data(c, e)>>
                        /\ e = FALSE => executions[c] > 0
Cut(c, k) == up[k] = <<>> /\ sPc[k] = "closed" /\ down[k] = <<Length(c)>>
Halved(c, k) ==
  /\ up[k] = <<>> /\ sPc[k] \in {"read", "closed"}
  /\ \E e \in BOOLEAN : /\ down[k] = <<Data(c, e)>>
                        /\ e = FALSE => executions[c] > 0

\* What c can find when it has sent its request, and when it has read a length.
Await(c, k) ==
  Sent(c, k) \/ Served(c, k) \/ Replied(c, k) \/ Cut(c, k) \/ Lost(k)
Reads(c, k) == Halved(c, k) \/ Lost(k)

-----------------------------------------------------------------------------
(* Types, also where calls overlap *)

\* A length is no data, and both say whose they are.
LEMMA Pieces ==
  ASSUME NEW c \in Calls, NEW e \in BOOLEAN
  PROVE  /\ Length(c) \in Piece /\ Length(c).part = "length"
         /\ Length(c).of = c
         /\ Data(c, e) \in Piece /\ Data(c, e).part = "data"
         /\ Data(c, e).of = c /\ Data(c, e).error = e
  BY DEF Length, Data, Piece

\* A call that uses a connection has one, a call that waits has an attempt
\* left, and a server that handles a request knows whose it is.
LinkInv ==
  /\ \A c \in Calls :
       /\ cPc[c] \in {"write", "data", "read", "body"} => conn \in Conns
       /\ cPc[c] \in {"data", "body"} => mine[c] \in Conns
       /\ cPc[c] = "wait" => i[c] < retryCount
  /\ \A k \in Conns :
       sPc[k] \in {"handle", "answer", "refuse"} => serving[k] \in Calls
RestTypes ==
  /\ closed \in BOOLEAN /\ listening \in BOOLEAN /\ orderly \in BOOLEAN
  /\ \A c \in Calls : i[c] <= retryCount
TypeInv == WireTypes /\ CallTypes /\ RestTypes /\ LinkInv

\* A failed attempt ends the call, or leaves it one more.
LEMMA FailedType ==
  ASSUME RPCAssumption, TypeInv, NEW c \in Calls, Failed(c)
  PROVE  /\ cPc' \in [Calls \cup Closers -> CallStages]
         /\ result' \in [Calls -> {"none", "ok", "error"}]
         /\ cPc'[c] \in {"wait", "done"}
         /\ cPc'[c] = "wait" => i[c] < retryCount
         /\ \A d \in Calls \ {c} : cPc'[d] = cPc[d]
<1>1. /\ cPc \in [Calls \cup Closers -> CallStages] /\ i[c] \in Nat
      /\ result \in [Calls -> {"none", "ok", "error"}] /\ i[c] <= retryCount
  BY DEF TypeInv, CallTypes, RestTypes
<1>2. CASE i[c] = retryCount
  BY <1>1, <1>2 DEF Failed, Step, CallStages
<1>3. CASE i[c] # retryCount
  <2>1. i[c] < retryCount
    BY <1>1, <1>3 DEF RPCAssumption
  <2> QED BY <1>1, <1>3, <2>1 DEF Failed, Step, CallStages
<1> QED BY <1>2, <1>3

\* What arrives after a length and its data, or what is taken off the front.
LEMMA PieceTypes ==
  ASSUME NEW q \in Seq(Piece), q # <<>>
  PROVE  /\ Head(q) \in Piece /\ Tail(q) \in Seq(Piece)
         /\ SubSeq(q, 3, Len(q)) \in Seq(Piece)
         /\ <<Head(q)>> \o SubSeq(q, 3, Len(q)) \in Seq(Piece)
<1>1. Head(q) \in Piece /\ Tail(q) \in Seq(Piece)
  OBVIOUS
<1>2. SubSeq(q, 3, Len(q)) \in Seq(Piece)
  <2>1. \A n \in 3 .. Len(q) : q[n] \in Piece
    OBVIOUS
  <2> QED BY <2>1, SubSeqProperties
<1>3. <<Head(q)>> \in Seq(Piece)
  BY <1>1
<1> QED BY <1>1, <1>2, <1>3

\* The initial state has its types.
LEMMA InitTypeInv == ASSUME RPCAssumption, RPCInit PROVE TypeInv
<1> USE DEF RPCAssumption, RPCInit
<1>1. WireTypes
  BY DEF WireTypes, ServerStages
<1>2. CallTypes
  BY DEF CallTypes, CallStages
<1>3. RestTypes
  <2>1. 0 <= retryCount /\ \A c \in Calls : i[c] = 0
    OBVIOUS
  <2> QED BY <2>1 DEF RestTypes
<1>4. LinkInv
  BY DEF LinkInv
<1> QED BY <1>1, <1>2, <1>3, <1>4 DEF TypeInv

\* Calling, waiting, connecting and closing keep the types.
LEMMA ClientType ==
  ASSUME RPCAssumption, TypeInv, NEW c \in Calls
  PROVE  /\ CallWithMetadata(c) => TypeInv'
         /\ WaitRetries(c) => TypeInv'
         /\ Connect(c) => TypeInv'
<1> USE DEF TypeInv, WireTypes, CallTypes, RestTypes, clientVars, wireVars,
           serverVars, callVars
<1>1. ASSUME CallWithMetadata(c) PROVE TypeInv'
  BY <1>1 DEF CallWithMetadata, Step, LinkInv, CallStages
<1>2. ASSUME WaitRetries(c) PROVE TypeInv'
  <2>1. /\ i' \in [Calls -> Nat] /\ \A d \in Calls : i'[d] <= retryCount
        /\ \A d \in Calls \ {c} : i'[d] = i[d]
    <3>1. i[c] + 1 \in Nat /\ i[c] + 1 <= retryCount
      BY <1>2 DEF WaitRetries, LinkInv, RPCAssumption
    <3>2. i' = [i EXCEPT ![c] = i[c] + 1] \/ i' = i
      BY <1>2 DEF WaitRetries
    <3>3. CASE i' = [i EXCEPT ![c] = i[c] + 1]
      <4>1. i' \in [Calls -> Nat]
        BY <3>1, <3>3
      <4>2. i'[c] <= retryCount /\ \A d \in Calls \ {c} : i'[d] = i[d]
        BY <3>1, <3>3
      <4> QED BY <4>1, <4>2
    <3> QED BY <3>2, <3>3
  <2>2. /\ cPc' \in [Calls \cup Closers -> CallStages]
        /\ cPc'[c] \in {"connect", "done"}
        /\ \A d \in Calls \ {c} : cPc'[d] = cPc[d]
        /\ result' \in [Calls -> {"none", "ok", "error"}]
    BY <1>2 DEF WaitRetries, Step, CallStages
  <2> QED BY <1>2, <2>1, <2>2 DEF WaitRetries, LinkInv
<1>3. ASSUME Connect(c) PROVE TypeInv'
  <2>1. CASE Failed(c) /\ UNCHANGED <<conn, sPc>>
    <3>1. UNCHANGED <<clientVars, wireVars, serverVars, i, mine, reply, orderly>>
      BY <1>3, <2>1 DEF Connect
    <3> QED BY <2>1, <3>1, FailedType DEF LinkInv
  <2>2. CASE Step(c, "write") /\ UNCHANGED <<conn, sPc, result>> /\ conn # NoConn
    BY <1>3, <2>2 DEF Connect, Step, LinkInv, CallStages
  <2>3. CASE /\ Step(c, "write") /\ UNCHANGED result
             /\ \E k \in Conns : /\ sPc[k] = "none" /\ conn' = k
                                 /\ sPc' = [sPc EXCEPT ![k] = "read"]
    BY <1>3, <2>3 DEF Connect, Step, LinkInv, CallStages, ServerStages
  <2> QED BY <1>3, <2>1, <2>2, <2>3 DEF Connect
<1> QED BY <1>1, <1>2, <1>3

\* So does writing one piece.
LEMMA WriteType ==
  ASSUME RPCAssumption, TypeInv, NEW c \in Calls, WriteRequest(c)
  PROVE  TypeInv'
<1> USE DEF TypeInv, WireTypes, CallTypes, RestTypes, clientVars, wireVars,
           serverVars, callVars
<1> DEFINE k == IF cPc[c] = "write" THEN conn ELSE mine[c]
           piece == IF cPc[c] = "write" THEN Length(c) ELSE Data(c, FALSE)
           next == IF cPc[c] = "write" THEN "data" ELSE "read"
<1>1. /\ WritePiece(c, k, piece, next) /\ mine' \in [Calls -> Conns \cup {NoConn}]
      /\ cPc[c] \in {"write", "data"} /\ k \in Conns /\ mine'[c] = k
      /\ conn \in Conns
      /\ \A d \in Calls \ {c} : mine'[d] = mine[d]
  BY DEF WriteRequest, LinkInv
<1>2. piece \in Piece /\ next \in {"data", "read"}
  BY Pieces
<1> HIDE DEF k, piece, next
<1>3. up' \in [Conns -> Seq(Piece)]
  <2>1. up[k] \in Seq(Piece)
    BY <1>1
  <2>2. Append(up[k], piece) \in Seq(Piece)
    BY <1>2, <2>1
  <2> QED BY <1>1, <2>2 DEF WritePiece
<1>4. CASE Failed(c)
  BY <1>1, <1>3, <1>4, FailedType DEF WritePiece, LinkInv, CallStages
<1>5. CASE Step(c, next) /\ UNCHANGED result
  BY <1>1, <1>2, <1>3, <1>5 DEF WritePiece, LinkInv, Step, CallStages
<1> QED BY <1>1, <1>4, <1>5 DEF WritePiece

\* A call that read, or tried to, keeps the types when what is left on the
\* wire is made of pieces.
LEMMA ReadType ==
  ASSUME RPCAssumption, TypeInv, NEW c \in Calls,
         Failed(c) \/ (Step(c, "body") /\ UNCHANGED result),
         down' \in [Conns -> Seq(Piece)], orderly' \in BOOLEAN,
         mine' \in [Calls -> Conns \cup {NoConn}],
         \A d \in Calls \ {c} : mine'[d] = mine[d],
         conn \in Conns, mine'[c] \in Conns,
         UNCHANGED <<clientVars, up, serverVars, i, reply>>
  PROVE  TypeInv'
<1> USE DEF TypeInv, WireTypes, CallTypes, RestTypes, clientVars, wireVars,
           serverVars, callVars
<1>1. CASE Failed(c)
  BY <1>1, FailedType DEF LinkInv, CallStages, Piece
<1>2. CASE Step(c, "body") /\ UNCHANGED result
  BY <1>2 DEF LinkInv, Step, CallStages
<1> QED BY <1>1, <1>2

\* Reading a length.
LEMMA ReadLengthType ==
  ASSUME RPCAssumption, TypeInv, NEW c \in Calls, ReadLength(c)
  PROVE  TypeInv'
<1>1. /\ conn \in Conns /\ down \in [Conns -> Seq(Piece)] /\ orderly \in BOOLEAN
      /\ mine' \in [Calls -> Conns \cup {NoConn}] /\ mine'[c] \in Conns
      /\ \A d \in Calls \ {c} : mine'[d] = mine[d]
      /\ UNCHANGED <<clientVars, up, serverVars, i>>
  BY DEF ReadLength, TypeInv, WireTypes, CallTypes, RestTypes, LinkInv
<1>2. CASE ReadFails(c, conn)
  BY <1>1, <1>2, ReadType DEF ReadFails
<1>3. CASE down[conn] # <<>>
  <2>1. /\ Tail(down[conn]) \in Seq(Piece)
        /\ <<Head(down[conn])>> \o SubSeq(down[conn], 3, Len(down[conn]))
             \in Seq(Piece)
        /\ down[conn] \in Seq(Piece)
    BY <1>1, <1>3, PieceTypes
  <2>2. CASE /\ down' = [down EXCEPT ![conn] = Tail(@)]
             /\ Step(c, "body")
             /\ UNCHANGED <<result, reply, orderly>>
    BY <1>1, <2>1, <2>2, ReadType
  <2>3. CASE ReadsRemains(c, conn)
    <3>1. down' \in [Conns -> Seq(Piece)]
      BY <1>1, <2>1, <2>3 DEF ReadsRemains
    <3> QED BY <1>1, <2>3, <3>1, ReadType DEF ReadsRemains
  <2>4. CASE ReadsPart(c, conn)
    BY <1>1, <2>1, <2>4, ReadType DEF ReadsPart
  <2> QED BY <1>2, <1>3, <2>2, <2>3, <2>4 DEF ReadLength
<1> QED BY <1>2, <1>3 DEF ReadLength

\* Reading the data: the reply is of the call that the data is for.
LEMMA ReadBodyType ==
  ASSUME RPCAssumption, TypeInv, NEW c \in Calls, ReadBody(c)
  PROVE  TypeInv'
<1> DEFINE k == mine[c]
<1>1. /\ conn \in Conns /\ k \in Conns /\ down \in [Conns -> Seq(Piece)]
      /\ orderly \in BOOLEAN /\ mine \in [Calls -> Conns \cup {NoConn}]
      /\ UNCHANGED <<clientVars, up, serverVars, i, mine>>
  BY DEF ReadBody, TypeInv, WireTypes, CallTypes, RestTypes, LinkInv
<1>2. CASE ReadFails(c, k)
  BY <1>1, <1>2, ReadType DEF ReadFails
<1>3. CASE k \notin localClosed /\ down[k] # <<>>
  <2>1. Head(down[k]) \in Piece /\ Tail(down[k]) \in Seq(Piece)
    BY <1>1, <1>3, PieceTypes
  <2>2. CASE ReadsPart(c, k)
    BY <1>1, <2>1, <2>2, ReadType DEF ReadsPart
  <2>3. CASE /\ down' = [down EXCEPT ![k] = Tail(@)]
             /\ Failed(c) /\ UNCHANGED <<reply, orderly>>
    BY <1>1, <2>1, <2>3, ReadType
  <2>4. CASE /\ down' = [down EXCEPT ![k] = Tail(@)]
             /\ Step(c, "done") /\ result' = [result EXCEPT ![c] = "ok"]
             /\ reply' = [reply EXCEPT ![c] = Head(down[k]).of]
             /\ UNCHANGED orderly
    <3>1. Head(down[k]).of \in Calls /\ down' \in [Conns -> Seq(Piece)]
      BY <1>1, <2>1, <2>4 DEF Piece
    <3> HIDE DEF k
    <3> QED BY <1>1, <2>4, <3>1
            DEF TypeInv, WireTypes, CallTypes, RestTypes, LinkInv, Step, CallStages,
                clientVars, serverVars
  <2> QED BY <1>2, <1>3, <2>2, <2>3, <2>4 DEF ReadBody
<1> QED BY <1>2, <1>3 DEF ReadBody

\* A Close, and a server that stops.
LEMMA EndType ==
  ASSUME RPCAssumption, TypeInv
  PROVE  /\ \A x \in Closers : Close(x) => TypeInv'
         /\ ServerStops => TypeInv'
<1> USE DEF TypeInv, WireTypes, CallTypes, RestTypes, clientVars, wireVars,
           serverVars, callVars
<1>1. ASSUME NEW x \in Closers, Close(x) PROVE TypeInv'
  <2>1. conn' = conn /\ localClosed' \subseteq Conns /\ closed' \in BOOLEAN
    BY <1>1 DEF Close
  <2>2. /\ cPc' \in [Calls \cup Closers -> CallStages]
        /\ \A d \in Calls : cPc'[d] \in {cPc[d], "done"}
    BY <1>1 DEF Close, Step, CallStages
  <2> QED BY <1>1, <2>1, <2>2 DEF Close, LinkInv
<1>2. ASSUME ServerStops PROVE TypeInv'
  BY <1>2 DEF ServerStops, LinkInv
<1> QED BY <1>1, <1>2

\* A step that moves the server of one connection on to "read", "handle" or
\* "closed".
LEMMA Serves ==
  ASSUME TypeInv, NEW k \in Conns, NEW at \in {"read", "handle", "closed"},
         NEW c \in Calls \cup {NoCall}, at = "handle" => c \in Calls,
         sPc' = [sPc EXCEPT ![k] = at], serving' = [serving EXCEPT ![k] = c],
         up' \in [Conns -> Seq(Piece)], down' \in [Conns -> Seq(Piece)],
         peerClosed' \subseteq Conns,
         UNCHANGED <<clientVars, listening, executions, callVars, orderly>>
  PROVE  TypeInv'
<1>1. sPc' \in [Conns -> ServerStages]
  BY DEF TypeInv, WireTypes, ServerStages
<1> QED BY <1>1 DEF TypeInv, WireTypes, CallTypes, RestTypes, LinkInv,
                    clientVars, callVars

\* The server's steps on one connection.
LEMMA ServerType ==
  ASSUME RPCAssumption, TypeInv, NEW k \in Conns
  PROVE  /\ ReadRequest(k) => TypeInv'
         /\ handleRequest(k) => TypeInv'
         /\ WriteResponse(k) => TypeInv'
         /\ ServerDrops(k) => TypeInv'
<1> USE DEF TypeInv, WireTypes, CallTypes, RestTypes, clientVars, wireVars,
           serverVars, callVars
<1>1. up[k] \in Seq(Piece) /\ down[k] \in Seq(Piece)
  OBVIOUS
<1>2. ASSUME ReadRequest(k) PROVE TypeInv'
  <2>1. Len(up[k]) > 1 /\ up[k][1] \in Piece
    BY <1>1, <1>2 DEF ReadRequest
  <2>2. up[k] # <<>> /\ up[k][1].of \in Calls
    BY <2>1 DEF Piece
  <2>3. SubSeq(up[k], 3, Len(up[k])) \in Seq(Piece)
    BY <1>1, <2>2, PieceTypes
  <2>4. up' \in [Conns -> Seq(Piece)]
    BY <1>2, <2>3 DEF ReadRequest
  <2>5. /\ serving' = [serving EXCEPT ![k] = up[k][1].of]
        /\ sPc' = [sPc EXCEPT ![k] = "handle"]
        /\ UNCHANGED <<clientVars, down, listening, peerClosed, executions,
                       callVars, orderly>>
    BY <1>2 DEF ReadRequest
  <2> QED BY <2>2, <2>4, <2>5, Serves
<1>3. ASSUME handleRequest(k) PROVE TypeInv'
  <2>1. executions' \in [Calls -> Nat]
    <3>1. executions[serving[k]] + 1 \in Nat
      BY <1>3 DEF handleRequest, LinkInv
    <3> QED BY <1>3, <3>1 DEF handleRequest
  <2>2. /\ sPc' \in [Conns -> ServerStages] /\ sPc[k] = "handle"
        /\ \A j \in Conns \ {k} : sPc'[j] = sPc[j]
    BY <1>3 DEF handleRequest, ServerStages
  <2> QED BY <1>3, <2>1, <2>2 DEF handleRequest, LinkInv
<1>4. ASSUME WriteResponse(k) PROVE TypeInv'
  <2> DEFINE r == <<Length(serving[k]), Data(serving[k], sPc[k] = "refuse")>>
  <2>1. serving[k] \in Calls
    BY <1>4 DEF WriteResponse, LinkInv
  <2>2. (sPc[k] = "refuse") \in BOOLEAN
    OBVIOUS
  <2>3. Length(serving[k]) \in Piece /\ Data(serving[k], sPc[k] = "refuse") \in Piece
    BY <2>1, <2>2, Pieces
  <2>4. r \in Seq(Piece)
    BY <2>3
  <2>5. down' = [down EXCEPT ![k] = down[k] \o r]
    BY <1>4 DEF WriteResponse
  <2> HIDE DEF r
  <2>6. down' \in [Conns -> Seq(Piece)]
    BY <1>1, <2>4, <2>5
  <2>7. /\ serving' = [serving EXCEPT ![k] = NoCall]
        /\ sPc' = [sPc EXCEPT ![k] = "read"]
        /\ UNCHANGED <<clientVars, up, listening, peerClosed, executions,
                       callVars, orderly>>
    BY <1>4 DEF WriteResponse
  <2> QED BY <2>6, <2>7, Serves
<1>5. ASSUME ServerDrops(k) PROVE TypeInv'
  <2>1. PICK n \in 0 .. Len(down[k]) :
          down' = [down EXCEPT ![k] = SubSeq(@, 1, n)]
    BY <1>5 DEF ServerDrops
  <2>2. SubSeq(down[k], 1, n) \in Seq(Piece)
    BY <1>1, Prefix
  <2>3. down' \in [Conns -> Seq(Piece)] /\ up' \in [Conns -> Seq(Piece)]
    BY <1>5, <2>1, <2>2 DEF ServerDrops
  <2>4. /\ serving' = [serving EXCEPT ![k] = NoCall]
        /\ sPc' = [sPc EXCEPT ![k] = "closed"]
        /\ peerClosed' \subseteq Conns
        /\ UNCHANGED <<clientVars, listening, executions, callVars, orderly>>
    BY <1>5 DEF ServerDrops
  <2> QED BY <2>3, <2>4, Serves
<1> QED BY <1>2, <1>3, <1>4, <1>5

\* Every step keeps the types.
LEMMA NextTypeInv ==
  ASSUME RPCAssumption, TypeInv, [RPCNext]_rpcVars PROVE TypeInv'
<1>1. CASE UNCHANGED rpcVars
  BY <1>1 DEF TypeInv, WireTypes, CallTypes, RestTypes, LinkInv, rpcVars, clientVars, wireVars,
              serverVars, callVars
<1>2. CASE RPCNext
  BY <1>2, ClientType, WriteType, ReadLengthType, ReadBodyType, EndType,
     ServerType DEF RPCNext
<1> QED BY <1>1, <1>2

\* TypeOK of RPC, whatever overlaps and however little a Read takes: a reply
\* is one that some call waited for, and no call makes more than 1 + retryCount
\* attempts.
THEOREM WireCorrect == RPCSpec => []RPCTypeOK
<1>1. RPCInit => TypeInv
  BY RPCAssumption, InitTypeInv
<1>2. TypeInv /\ [RPCNext]_rpcVars => TypeInv'
  BY RPCAssumption, NextTypeInv
<1>3. TypeInv => RPCTypeOK
  <2> SUFFICES ASSUME TypeInv PROVE RPCTypeOK
    OBVIOUS
  <2>1. i \in [Calls -> 0 .. retryCount]
    BY RPCAssumption DEF RPCAssumption, TypeInv, CallTypes, RestTypes
  <2> QED BY <2>1 DEF TypeInv, WireTypes, CallTypes, RestTypes, RPCTypeOK, Piece,
                      CallStages, ServerStages
<1> QED BY <1>1, <1>2, <1>3, PTL DEF RPCSpec

-----------------------------------------------------------------------------
(* The invariant of orderly use *)

\* Every connection is in one of these shapes, about one call.
PipeInv ==
  \A k \in Conns :
    /\ sPc[k] = "closed" <=> k \in peerClosed
    /\ \/ Unused(k) \/ Clean(k)
       \/ \E c \in Calls : Begun(c, k) \/ Await(c, k) \/ Reads(c, k)

Live == {c \in Calls : cPc[c] \notin {"idle", "done"}}
Use == {"write", "data", "read", "body"}
InUse(c) == cPc[c] \in Use

\* The connection in use is where the call using it is.
At(c, k) ==
  /\ cPc[c] = "write" => Clean(k)
  /\ cPc[c] = "data" => Begun(c, k) \/ Lost(k)
  /\ cPc[c] = "read" => Await(c, k)
  /\ cPc[c] = "body" => Reads(c, k)
AlignInv ==
  \A c \in Calls : InUse(c) =>
    /\ conn \in Conns
    /\ cPc[c] \in {"data", "body"} => mine[c] = conn
    /\ conn \notin localClosed => At(c, conn)

\* Between two attempts nothing is left on it.
ReadyInv ==
  conn \in Conns \ localClosed /\ (\A c \in Calls : ~InUse(c)) => Clean(conn)
\* Calls follow one another.
LoneInv == \A c, d \in Live : c = d

\* Requests of c that may still run its method, and attempts it has sent.
Owed(c) ==
  {k \in Conns : Sent(c, k) \/ (sPc[k] = "handle" /\ serving[k] = c)}
Attempts(c) ==
  i[c] + (IF cPc[c] \in {"idle", "connect", "write", "data"} THEN 0 ELSE 1)
\* What ran and what may still run is at most what was attempted.
OwedInv ==
  \A c \in Calls : /\ IsFiniteSet(Owed(c))
                   /\ executions[c] + Cardinality(Owed(c)) <= Attempts(c)

\* A call that succeeded is over, with its own reply.
ReplyInv ==
  \A c \in Calls : result[c] = "ok" =>
    cPc[c] = "done" /\ reply[c] = c /\ executions[c] > 0

RPCInv == /\ WireTypes /\ CallTypes
          /\ PipeInv /\ AlignInv /\ ReadyInv /\ LoneInv /\ OwedInv /\ ReplyInv
OrderlyInv == orderly => RPCInv

-----------------------------------------------------------------------------
(* Pieces and shapes *)

\* A connection that a step does not touch keeps its shape, whatever ran
\* meanwhile.
LEMMA SameShape ==
  ASSUME NEW k \in Conns, executions \in [Calls -> Nat],
         executions' \in [Calls -> Nat],
         \A c \in Calls : executions'[c] >= executions[c],
         up'[k] = up[k], down'[k] = down[k], sPc'[k] = sPc[k],
         serving'[k] = serving[k]
  PROVE  /\ Clean(k) => Clean(k)'
         /\ Lost(k) => Lost(k)'
         /\ \A c \in Calls : /\ Begun(c, k) => Begun(c, k)'
                             /\ Await(c, k) => Await(c, k)'
                             /\ Reads(c, k) => Reads(c, k)'
<1>1. /\ Clean(k) => Clean(k)'
      /\ Lost(k) => Lost(k)'
  BY DEF Clean, Lost, Empty
<1>2. ASSUME NEW c \in Calls
      PROVE  /\ Begun(c, k) => Begun(c, k)'
             /\ Sent(c, k) => Sent(c, k)'
             /\ Cut(c, k) => Cut(c, k)'
  BY DEF Begun, Sent, Cut
<1>3. ASSUME NEW c \in Calls
      PROVE  executions[c] > 0 => executions'[c] > 0
  OBVIOUS
<1>4. ASSUME NEW c \in Calls
      PROVE  Served(c, k) => Served(c, k)'
  BY <1>3 DEF Served, Empty
<1>5. ASSUME NEW c \in Calls
      PROVE  /\ Replied(c, k) => Replied(c, k)'
             /\ Halved(c, k) => Halved(c, k)'
  BY <1>3 DEF Replied, Halved
<1> QED BY <1>1, <1>2, <1>4, <1>5 DEF Await, Reads

\* A step that touches the wires of one connection at most keeps PipeInv when
\* that connection keeps a shape.
LEMMA PipesKept ==
  ASSUME PipeInv, CallTypes, CallTypes', NEW k,
         \A c \in Calls : executions'[c] >= executions[c],
         \A j \in Conns \ {k} :
           /\ up'[j] = up[j] /\ down'[j] = down[j] /\ sPc'[j] = sPc[j]
           /\ serving'[j] = serving[j]
           /\ j \in peerClosed' <=> j \in peerClosed
           /\ j = conn' => j = conn,
         k \in Conns =>
           /\ sPc'[k] = "closed" <=> k \in peerClosed'
           /\ \/ Clean(k)'
              \/ \E c \in Calls : Begun(c, k)' \/ Await(c, k)' \/ Reads(c, k)'
  PROVE  PipeInv'
<1> SUFFICES ASSUME NEW j \in Conns
             PROVE  /\ sPc'[j] = "closed" <=> j \in peerClosed'
                    /\ \/ Unused(j)' \/ Clean(j)'
                       \/ \E c \in Calls :
                            Begun(c, j)' \/ Await(c, j)' \/ Reads(c, j)'
  BY DEF PipeInv
<1>1. CASE j = k
  BY <1>1
<1>2. CASE j # k
  <2>1. executions \in [Calls -> Nat] /\ executions' \in [Calls -> Nat]
    BY DEF CallTypes
  <2>2. /\ up'[j] = up[j] /\ down'[j] = down[j] /\ sPc'[j] = sPc[j]
        /\ serving'[j] = serving[j]
        /\ j \in peerClosed' <=> j \in peerClosed
        /\ j = conn' => j = conn
    BY <1>2
  <2>3. Unused(j) => Unused(j)'
    BY <2>2 DEF Unused, Empty
  <2>4. /\ Clean(j) => Clean(j)'
        /\ \A c \in Calls : /\ Begun(c, j) => Begun(c, j)'
                            /\ Await(c, j) => Await(c, j)'
                            /\ Reads(c, j) => Reads(c, j)'
    BY <2>1, <2>2, SameShape
  <2>5. /\ sPc[j] = "closed" <=> j \in peerClosed
        /\ \/ Unused(j) \/ Clean(j)
           \/ \E c \in Calls : Begun(c, j) \/ Await(c, j) \/ Reads(c, j)
    BY DEF PipeInv
  <2>6. sPc'[j] = "closed" <=> j \in peerClosed'
    BY <2>2, <2>5
  <2>7. \/ Unused(j)' \/ Clean(j)'
        \/ \E c \in Calls : Begun(c, j)' \/ Await(c, j)' \/ Reads(c, j)'
    BY <2>3, <2>4, <2>5
  <2> QED BY <2>6, <2>7
<1> QED BY <1>1, <1>2

\* Of what may still run, nothing was added: the count holds as long as no
\* attempt is taken back.
LEMMA NothingMoreOwed ==
  ASSUME OwedInv, CallTypes, CallTypes', executions' = executions,
         \A c \in Calls : Owed(c)' \subseteq Owed(c),
         \A c \in Calls : Attempts(c)' >= Attempts(c)
  PROVE  OwedInv'
<1> SUFFICES ASSUME NEW c \in Calls
             PROVE  /\ IsFiniteSet(Owed(c)')
                    /\ executions'[c] + Cardinality(Owed(c)') <= Attempts(c)'
  BY DEF OwedInv
<1>1. /\ IsFiniteSet(Owed(c))
      /\ executions[c] + Cardinality(Owed(c)) <= Attempts(c)
  BY DEF OwedInv
<1>2. /\ IsFiniteSet(Owed(c)') /\ Cardinality(Owed(c)) \in Nat
      /\ Cardinality(Owed(c)') \in Nat
      /\ Cardinality(Owed(c)') <= Cardinality(Owed(c))
  BY <1>1, FS_Subset, FS_CardinalityType
<1>3. executions[c] \in Nat /\ executions'[c] = executions[c]
  BY DEF CallTypes
<1>4. Attempts(c) \in Nat /\ Attempts(c)' \in Nat
  BY DEF CallTypes, Attempts
<1>5. Attempts(c)' >= Attempts(c)
  OBVIOUS
<1> HIDE DEF Owed, Attempts
<1> QED BY <1>1, <1>2, <1>3, <1>4, <1>5

\* In orderly use one call moves at a time, so what it finds and leaves on the
\* connection is all there is to show.
LEMMA CallerMoves ==
  ASSUME RPCInv, NEW c \in Calls, NEW where \in CallStages,
         \A d \in Live : d = c,
         cPc' = [cPc EXCEPT ![c] = where],
         where \in Use =>
           /\ conn' \in Conns
           /\ where \in {"data", "body"} => mine'[c] = conn'
           /\ conn' \notin localClosed' => At(c, conn)',
         where \notin Use /\ conn' \in Conns \ localClosed' => Clean(conn)'
  PROVE  AlignInv' /\ ReadyInv' /\ LoneInv'
<1>1. cPc'[c] = where /\ \A d \in Calls \ {c} : cPc'[d] \in {"idle", "done"}
  BY DEF RPCInv, CallTypes, Live
<1>2. LoneInv'
  BY <1>1 DEF LoneInv, Live
<1>3. AlignInv'
  <2> SUFFICES ASSUME NEW d \in Calls, InUse(d)'
               PROVE  /\ conn' \in Conns
                      /\ cPc'[d] \in {"data", "body"} => mine'[d] = conn'
                      /\ conn' \notin localClosed' => At(d, conn)'
    BY DEF AlignInv
  <2>1. d = c /\ where \in Use
    BY <1>1 DEF InUse, Use
  <2> QED BY <1>1, <2>1
<1>4. ReadyInv'
  <2> SUFFICES ASSUME conn' \in Conns \ localClosed',
                      \A d \in Calls : ~InUse(d)'
               PROVE  Clean(conn)'
    BY DEF ReadyInv
  <2> QED BY <1>1 DEF InUse
<1> QED BY <1>2, <1>3, <1>4

-----------------------------------------------------------------------------
(* The calls *)

\* While a call is under way there is no other.
LEMMA OnlyOne ==
  ASSUME LoneInv, NEW c \in Calls, cPc[c] \notin {"idle", "done"}
  PROVE  /\ \A d \in Live : d = c
         /\ \A d \in Calls : cPc[d] \notin {"idle", "done"} => d = c
BY DEF LoneInv, Live

\* The wires as they were.
LEMMA SameWires ==
  ASSUME UNCHANGED <<up, down, sPc, serving, peerClosed, executions, conn>>
  PROVE  /\ PipeInv => PipeInv'
         /\ \A c \in Calls : Owed(c)' = Owed(c)
         /\ Clean(conn) => Clean(conn)'
         /\ \A c \in Calls : /\ Begun(c, conn) => Begun(c, conn)'
                             /\ Await(c, conn) => Await(c, conn)'
                             /\ Reads(c, conn) => Reads(c, conn)'
<1>1. \A k : /\ Unused(k)' = Unused(k) /\ Clean(k)' = Clean(k)
             /\ Lost(k)' = Lost(k)
  BY DEF Unused, Clean, Lost, Empty
<1>2. \A c, k : /\ Begun(c, k)' = Begun(c, k) /\ Sent(c, k)' = Sent(c, k)
                /\ Cut(c, k)' = Cut(c, k) /\ Served(c, k)' = Served(c, k)
  BY DEF Begun, Sent, Cut, Served, Empty
<1>3. \A c, k : Replied(c, k)' = Replied(c, k) /\ Halved(c, k)' = Halved(c, k)
  BY DEF Replied, Halved
<1>4. \A c, k : Await(c, k)' = Await(c, k) /\ Reads(c, k)' = Reads(c, k)
  BY <1>1, <1>2, <1>3 DEF Await, Reads
<1>5. PipeInv => PipeInv'
  BY <1>1, <1>2, <1>4 DEF PipeInv
<1>6. \A c \in Calls : Owed(c)' = Owed(c)
  BY <1>2 DEF Owed
<1>7. /\ Clean(conn) => Clean(conn)'
      /\ \A c \in Calls : /\ Begun(c, conn) => Begun(c, conn)'
                          /\ Await(c, conn) => Await(c, conn)'
                          /\ Reads(c, conn) => Reads(c, conn)'
  BY <1>1, <1>2, <1>4 DEF Clean, Begun, Await, Reads, Sent, Served, Replied,
     Cut, Lost, Halved, Empty
<1> QED BY <1>5, <1>6, <1>7

\* A call that gives an attempt up, or ends, with nothing left behind on the
\* connection.
LEMMA GivesUp ==
  ASSUME RPCInv, NEW c \in Calls, cPc[c] \notin {"idle", "done"},
         UNCHANGED <<clientVars, wireVars, serverVars, i, reply>>,
         NEW where \in {"wait", "done"}, cPc' = [cPc EXCEPT ![c] = where],
         result' \in [Calls -> {"none", "ok", "error"}],
         \A d \in Calls : result'[d] = "ok" => result[d] = "ok",
         mine' \in [Calls -> Conns \cup {NoConn}],
         conn \in Conns \ localClosed => Clean(conn)
  PROVE  RPCInv'
<1> USE DEF RPCInv
<1>1. WireTypes' /\ CallTypes'
  BY DEF WireTypes, CallTypes, clientVars, wireVars, serverVars, CallStages
<1>2. UNCHANGED <<up, down, sPc, serving, peerClosed, executions, conn, localClosed>>
  BY DEF clientVars, wireVars, serverVars
<1>3. PipeInv'
  BY <1>2, SameWires
<1>4. Clean(conn) => Clean(conn)'
  BY <1>2, SameWires
<1>5. AlignInv' /\ ReadyInv' /\ LoneInv'
  <2>1. where \in CallStages /\ where \notin Use
    BY DEF CallStages, Use
  <2>2. conn' \in Conns \ localClosed' => Clean(conn)'
    BY <1>2, <1>4
  <2>3. \A d \in Live : d = c
    BY OnlyOne
  <2> QED BY <2>1, <2>2, <2>3, CallerMoves
<1>6. OwedInv'
  <2>1. \A d \in Calls : Owed(d)' \subseteq Owed(d)
    BY <1>2, SameWires
  <2>2. \A d \in Calls : Attempts(d)' >= Attempts(d)
    BY DEF Attempts, CallTypes
  <2> QED BY <1>1, <1>2, <2>1, <2>2, NothingMoreOwed
<1>7. ReplyInv'
  BY <1>2 DEF ReplyInv, CallTypes
<1> QED BY <1>1, <1>3, <1>5, <1>6, <1>7

\* What Failed does to the call.
LEMMA FailedEnds ==
  ASSUME CallTypes, NEW c \in Calls, Failed(c)
  PROVE  /\ \E where \in {"wait", "done"} : cPc' = [cPc EXCEPT ![c] = where]
         /\ result' \in [Calls -> {"none", "ok", "error"}]
         /\ \A d \in Calls : result'[d] = "ok" => result[d] = "ok"
<1>1. CASE i[c] = retryCount
  BY <1>1 DEF Failed, Step, CallTypes
<1>2. CASE i[c] # retryCount
  BY <1>2 DEF Failed, Step, CallTypes
<1> QED BY <1>1, <1>2

\* So an attempt that fails on a connection with nothing left behind is no
\* harm.
LEMMA FailsCleanly ==
  ASSUME RPCInv, NEW c \in Calls, cPc[c] \notin {"idle", "done"}, Failed(c),
         UNCHANGED <<clientVars, wireVars, serverVars, i, reply>>,
         mine' \in [Calls -> Conns \cup {NoConn}],
         conn \in Conns \ localClosed => Clean(conn)
  PROVE  RPCInv'
<1>1. PICK where \in {"wait", "done"} : cPc' = [cPc EXCEPT ![c] = where]
  BY FailedEnds DEF RPCInv
<1>2. /\ result' \in [Calls -> {"none", "ok", "error"}]
      /\ \A d \in Calls : result'[d] = "ok" => result[d] = "ok"
  BY FailedEnds DEF RPCInv
<1> QED BY <1>1, <1>2, GivesUp

\* A call begins when there is no other.
LEMMA CallBegins ==
  ASSUME RPCInv, NEW c \in Calls, CallWithMetadata(c), orderly'
  PROVE  RPCInv'
<1> USE DEF RPCInv
<1>1. /\ cPc[c] = "idle" /\ cPc' = [cPc EXCEPT ![c] = "connect"]
      /\ \A d \in Calls : cPc[d] \in {"idle", "done"}
      /\ UNCHANGED <<clientVars, wireVars, serverVars, i, mine, result, reply>>
  BY DEF CallWithMetadata, Step
<1>2. WireTypes' /\ CallTypes'
  BY <1>1 DEF WireTypes, CallTypes, clientVars, wireVars, serverVars, CallStages
<1>3. UNCHANGED <<up, down, sPc, serving, peerClosed, executions, conn, localClosed>>
  BY <1>1 DEF clientVars, wireVars, serverVars
<1>4. PipeInv' /\ (Clean(conn) => Clean(conn)')
  BY <1>3, SameWires
<1>5. AlignInv' /\ ReadyInv' /\ LoneInv'
  <2>1. "connect" \in CallStages /\ "connect" \notin Use /\ Live = {}
    BY <1>1 DEF CallStages, Use, Live
  <2>2. conn' \in Conns \ localClosed' => Clean(conn)'
    BY <1>1, <1>3, <1>4 DEF ReadyInv, InUse, Use
  <2> QED BY <1>1, <2>1, <2>2, CallerMoves
<1>6. OwedInv'
  <2>1. \A d \in Calls : Owed(d)' \subseteq Owed(d)
    BY <1>3, SameWires
  <2>2. \A d \in Calls : Attempts(d)' >= Attempts(d)
    BY <1>1 DEF Attempts, CallTypes
  <2> QED BY <1>2, <1>3, <2>1, <2>2, NothingMoreOwed
<1>7. ReplyInv'
  BY <1>1, <1>3 DEF ReplyInv, CallTypes
<1> QED BY <1>2, <1>4, <1>5, <1>6, <1>7

\* The next attempt, or ctx.Done().
LEMMA RetryWaits ==
  ASSUME RPCInv, NEW c \in Calls, WaitRetries(c)
  PROVE  RPCInv'
<1> USE DEF RPCInv
<1>1. /\ cPc[c] = "wait"
      /\ UNCHANGED <<clientVars, wireVars, serverVars, mine, reply>>
  BY DEF WaitRetries
<1>2. conn \in Conns \ localClosed => Clean(conn)
  <2>1. \A d \in Calls : cPc[d] \notin {"idle", "done"} => d = c
    BY <1>1, OnlyOne
  <2> QED BY <1>1, <2>1 DEF ReadyInv, InUse, Use
<1>3. CASE cPc' = [cPc EXCEPT ![c] = "done"] /\ UNCHANGED i
           /\ result' = [result EXCEPT ![c] = "error"]
  <2>1. /\ result' \in [Calls -> {"none", "ok", "error"}]
        /\ \A d \in Calls : result'[d] = "ok" => result[d] = "ok"
    BY <1>3 DEF CallTypes
  <2>2. mine' \in [Calls -> Conns \cup {NoConn}]
    BY <1>1 DEF CallTypes
  <2>3. "done" \in {"wait", "done"}
    OBVIOUS
  <2> QED BY <1>1, <1>2, <1>3, <2>1, <2>2, <2>3, GivesUp
<1>4. CASE cPc' = [cPc EXCEPT ![c] = "connect"] /\ UNCHANGED result
           /\ i' = [i EXCEPT ![c] = @ + 1]
  <2>1. WireTypes' /\ CallTypes'
    BY <1>1, <1>4 DEF WireTypes, CallTypes, clientVars, wireVars, serverVars, CallStages
  <2>2. UNCHANGED <<up, down, sPc, serving, peerClosed, executions, conn, localClosed>>
    BY <1>1 DEF clientVars, wireVars, serverVars
  <2>3. PipeInv' /\ (Clean(conn) => Clean(conn)')
    BY <2>2, SameWires
  <2>4. AlignInv' /\ ReadyInv' /\ LoneInv'
    <3>1. "connect" \in CallStages /\ "connect" \notin Use
      BY DEF CallStages, Use
    <3>2. conn' \in Conns \ localClosed' => Clean(conn)'
      BY <1>2, <2>2, <2>3
    <3>3. \A d \in Live : d = c
      BY <1>1, OnlyOne
    <3> QED BY <1>4, <3>1, <3>2, <3>3, CallerMoves
  <2>5. OwedInv'
    <3>1. \A d \in Calls : Owed(d)' \subseteq Owed(d)
      BY <2>2, SameWires
    <3>2. \A d \in Calls : Attempts(d)' >= Attempts(d)
      BY <1>1, <1>4 DEF Attempts, CallTypes
    <3> QED BY <2>1, <2>2, <3>1, <3>2, NothingMoreOwed
  <2>6. ReplyInv'
    BY <1>1, <1>4, <2>2 DEF ReplyInv, CallTypes
  <2> QED BY <2>1, <2>3, <2>4, <2>5, <2>6
<1> QED BY <1>3, <1>4 DEF WaitRetries, Step

\* Connect: the connection there is has nothing left on it, a new one neither.
LEMMA Connects ==
  ASSUME RPCInv, NoConn \notin Conns, NEW c \in Calls, Connect(c)
  PROVE  RPCInv'
<1> USE DEF RPCInv
<1>1. /\ cPc[c] = "connect"
      /\ UNCHANGED <<localClosed, wireVars, serving, peerClosed, executions,
                     i, mine, reply>>
  BY DEF Connect
<1>2. conn \in Conns \ localClosed => Clean(conn)
  <2>1. \A d \in Calls : cPc[d] \notin {"idle", "done"} => d = c
    BY <1>1, OnlyOne
  <2> QED BY <1>1, <2>1 DEF ReadyInv, InUse, Use
<1>3. CASE Failed(c) /\ UNCHANGED <<conn, sPc>>
  <2>1. UNCHANGED <<clientVars, wireVars, serverVars, i, reply>>
    BY <1>3 DEF Connect, clientVars, serverVars
  <2>2. mine' \in [Calls -> Conns \cup {NoConn}]
    BY <1>1 DEF CallTypes
  <2> QED BY <1>1, <1>2, <1>3, <2>1, <2>2, FailsCleanly
<1>4. ASSUME cPc' = [cPc EXCEPT ![c] = "write"], UNCHANGED result,
             WireTypes', PipeInv', conn' \in Conns,
             conn' \notin localClosed' => Clean(conn)',
             \A d \in Calls : Owed(d)' \subseteq Owed(d)
      PROVE  RPCInv'
  <2>1. CallTypes'
    BY <1>1, <1>4 DEF CallTypes, CallStages
  <2>2. AlignInv' /\ ReadyInv' /\ LoneInv'
    <3>1. "write" \in CallStages /\ "write" \in Use
      BY DEF CallStages, Use
    <3>2. cPc'[c] = "write"
      BY <1>4 DEF CallTypes
    <3>3. conn' \notin localClosed' => At(c, conn)'
      BY <1>4, <3>2 DEF At
    <3>4. \A d \in Live : d = c
      BY <1>1, OnlyOne
    <3> QED BY <1>4, <3>1, <3>3, <3>4, CallerMoves
  <2>3. OwedInv'
    <3>1. \A d \in Calls : Attempts(d)' >= Attempts(d)
      BY <1>1, <1>4 DEF Attempts, CallTypes
    <3> QED BY <1>1, <1>4, <2>1, <3>1, NothingMoreOwed
  <2>4. ReplyInv'
    BY <1>1, <1>4 DEF ReplyInv, CallTypes
  <2> QED BY <1>4, <2>1, <2>2, <2>3, <2>4
<1>5. CASE /\ conn # NoConn /\ conn \notin localClosed
           /\ cPc' = [cPc EXCEPT ![c] = "write"]
           /\ UNCHANGED <<conn, sPc, result>>
  <2>1. WireTypes'
    BY <1>1, <1>5 DEF WireTypes, wireVars
  <2>2. UNCHANGED <<up, down, sPc, serving, peerClosed, executions, conn>>
    BY <1>1, <1>5 DEF wireVars
  <2>3. /\ PipeInv' /\ (Clean(conn) => Clean(conn)')
        /\ \A d \in Calls : Owed(d)' \subseteq Owed(d)
    BY <2>2, SameWires
  <2>4. conn \in Conns
    BY <1>5 DEF WireTypes
  <2> QED BY <1>1, <1>2, <1>4, <1>5, <2>1, <2>3, <2>4
<1>6. CASE /\ \E k \in Conns : /\ sPc[k] = "none" /\ conn' = k
                               /\ sPc' = [sPc EXCEPT ![k] = "read"]
           /\ cPc' = [cPc EXCEPT ![c] = "write"]
           /\ UNCHANGED result
  <2>1. PICK k \in Conns : /\ sPc[k] = "none" /\ conn' = k
                           /\ sPc' = [sPc EXCEPT ![k] = "read"]
    BY <1>6
  <2>2. WireTypes'
    BY <1>1, <2>1 DEF WireTypes, wireVars, ServerStages
  <2>3. CallTypes'
    BY <1>1, <1>6 DEF CallTypes, CallStages
  <2>4. Unused(k) /\ k \notin peerClosed
    BY <2>1 DEF PipeInv, Clean, Begun, Await, Reads, Sent, Served, Replied, Cut,
       Halved, Lost
  <2>5. Clean(k)' /\ Clean(conn)'
    BY <1>1, <2>1, <2>4 DEF Unused, Clean, Empty, wireVars, WireTypes
  <2>6. PipeInv'
    <3>1. \A d \in Calls : executions'[d] >= executions[d]
      BY <1>1 DEF CallTypes
    <3>2. \A j \in Conns \ {k} :
            /\ up'[j] = up[j] /\ down'[j] = down[j] /\ sPc'[j] = sPc[j]
            /\ serving'[j] = serving[j]
            /\ j \in peerClosed' <=> j \in peerClosed
            /\ j = conn' => j = conn
      BY <1>1, <2>1 DEF wireVars, WireTypes
    <3>3. sPc'[k] = "closed" <=> k \in peerClosed'
      BY <1>1, <2>1, <2>4 DEF WireTypes
    <3> QED BY <2>3, <2>5, <3>1, <3>2, <3>3, PipesKept
  <2>7. \A d \in Calls : Owed(d)' \subseteq Owed(d)
    <3> SUFFICES ASSUME NEW d \in Calls, NEW j \in Conns,
                        Sent(d, j)' \/ (sPc'[j] = "handle" /\ serving'[j] = d)
                 PROVE  Sent(d, j) \/ (sPc[j] = "handle" /\ serving[j] = d)
      BY DEF Owed
    <3>1. CASE j = k
      <4>1. sPc'[k] = "read" /\ up'[k] = <<>>
        BY <2>1, <2>5 DEF Clean, Empty, WireTypes
      <4> QED BY <3>1, <4>1, Differ DEF Sent
    <3>2. CASE j # k
      BY <1>1, <2>1, <3>2 DEF Sent, wireVars, WireTypes
    <3> QED BY <3>1, <3>2
  <2> QED BY <1>4, <1>6, <2>1, <2>2, <2>5, <2>6, <2>7
<1> QED BY <1>3, <1>5, <1>6 DEF Connect, Step

\* A piece goes to a connection the server has not closed.
LEMMA PieceWritten ==
  ASSUME RPCInv, NEW c \in Calls, cPc[c] \in {"write", "data"},
         NEW next \in {"data", "read"}, NEW piece \in Piece,
         WritePiece(c, conn, piece, next),
         cPc[c] = "write" => next = "data" /\ piece = Length(c),
         cPc[c] = "data" => next = "read" /\ piece = Data(c, FALSE),
         mine' \in [Calls -> Conns \cup {NoConn}], mine'[c] = conn
  PROVE  RPCInv'
<1> USE DEF RPCInv
<1>1. /\ UNCHANGED <<clientVars, down, serverVars, i, reply>>
      /\ UNCHANGED <<conn, localClosed, sPc, serving, peerClosed, executions>>
  BY DEF WritePiece, clientVars, serverVars
<1>2. /\ conn \in Conns
      /\ conn \notin localClosed => At(c, conn)
  BY DEF AlignInv, InUse, Use
<1>3. \A d \in Live : d = c
  BY OnlyOne
<1>4. sPc[conn] = "closed" <=> conn \in peerClosed
  BY <1>2 DEF PipeInv
<1>5. CASE /\ conn \in localClosed \cup peerClosed
           /\ Failed(c) /\ UNCHANGED up
  <2>1. conn \notin localClosed => Clean(conn)
    BY <1>2, <1>4, <1>5 DEF At, Clean, Begun, Lost
  <2>2. UNCHANGED <<clientVars, wireVars, serverVars, i, reply>>
    BY <1>1, <1>5 DEF wireVars
  <2> QED BY <1>5, <2>1, <2>2, FailsCleanly
<1>6. ASSUME cPc' = [cPc EXCEPT ![c] = next], UNCHANGED result,
             WireTypes', PipeInv', OwedInv', At(c, conn)'
      PROVE  RPCInv'
  <2>1. CallTypes'
    BY <1>1, <1>6 DEF CallTypes, CallStages
  <2>2. AlignInv' /\ ReadyInv' /\ LoneInv'
    <3>1. next \in CallStages /\ next \in Use
      BY DEF CallStages, Use
    <3> QED BY <1>1, <1>2, <1>3, <1>6, <3>1, CallerMoves
  <2>3. ReplyInv'
    BY <1>1, <1>6 DEF ReplyInv, CallTypes
  <2> QED BY <1>6, <2>1, <2>2, <2>3
<1>7. CASE /\ conn \notin localClosed /\ conn \in peerClosed
           /\ cPc' = [cPc EXCEPT ![c] = next] /\ UNCHANGED <<result, up>>
  <2>1. Lost(conn)
    BY <1>2, <1>4, <1>7 DEF At, Clean, Begun, Lost
  <2>2. cPc'[c] = next
    BY <1>7 DEF CallTypes
  <2>3. At(c, conn)'
    <3>1. Lost(conn)'
      BY <1>1, <1>7, <2>1 DEF Lost, Empty
    <3> QED BY <2>2, <3>1 DEF At, Await
  <2>4. WireTypes' /\ CallTypes'
    BY <1>1, <1>7 DEF WireTypes, CallTypes, CallStages
  <2>5. PipeInv' /\ \A d \in Calls : Owed(d)' \subseteq Owed(d)
    BY <1>1, <1>7, SameWires
  <2>6. \A d \in Calls : Attempts(d)' >= Attempts(d)
    BY <1>1, <1>7 DEF Attempts, CallTypes
  <2>7. OwedInv'
    BY <1>1, <2>4, <2>5, <2>6, NothingMoreOwed
  <2> QED BY <1>6, <1>7, <2>3, <2>4, <2>5, <2>7
<1>8. CASE /\ conn \notin localClosed \cup peerClosed
           /\ cPc' = [cPc EXCEPT ![c] = next] /\ UNCHANGED result
           /\ up' = [up EXCEPT ![conn] = Append(@, piece)]
  <2>1. Length(c) \in Piece /\ Data(c, FALSE) \in Piece
    BY Pieces
  <2>2. WireTypes' /\ CallTypes'
    BY <1>1, <1>2, <1>8 DEF WireTypes, CallTypes, CallStages
  <2>3. cPc'[c] = next
    BY <1>8 DEF CallTypes
  <2>4. /\ up'[conn] = Append(up[conn], piece)
        /\ \A j \in Conns \ {conn} : up'[j] = up[j]
    BY <1>2, <1>8 DEF WireTypes
  <2>5. /\ cPc[c] = "write" => Begun(c, conn)'
        /\ cPc[c] = "data" => Sent(c, conn)' /\ ~Sent(c, conn)
    <3>1. CASE cPc[c] = "write"
      <4>1. up[conn] = <<>> /\ down[conn] = <<>> /\ sPc[conn] = "read"
        BY <1>2, <1>4, <1>8, <3>1 DEF At, Clean, Empty
      <4>2. up'[conn] = <<Length(c)>>
        BY <2>1, <2>4, <3>1, <4>1, Put
      <4> QED BY <1>1, <3>1, <4>1, <4>2 DEF Begun
    <3>2. CASE cPc[c] = "data"
      <4>1. up[conn] = <<Length(c)>> /\ down[conn] = <<>> /\ sPc[conn] = "read"
        BY <1>2, <1>4, <1>8, <3>2 DEF At, Lost, Begun
      <4>2. up'[conn] = <<Length(c), Data(c, FALSE)>>
        BY <2>1, <2>4, <3>2, <4>1, Put
      <4>3. Sent(c, conn)'
        BY <1>1, <4>1, <4>2 DEF Sent
      <4>4. ~Sent(c, conn)
        BY <2>1, <4>1 DEF Sent
      <4> QED BY <3>2, <4>3, <4>4
    <3> QED BY <3>1, <3>2
  <2>6. At(c, conn)'
    BY <2>3, <2>5 DEF At, Await
  <2>7. PipeInv'
    <3>1. \A d \in Calls : executions'[d] >= executions[d]
      BY <1>1 DEF CallTypes
    <3>2. \A j \in Conns \ {conn} :
            /\ up'[j] = up[j] /\ down'[j] = down[j] /\ sPc'[j] = sPc[j]
            /\ serving'[j] = serving[j]
            /\ j \in peerClosed' <=> j \in peerClosed
            /\ j = conn' => j = conn
      BY <1>1, <2>4
    <3>3. sPc'[conn] = "closed" <=> conn \in peerClosed'
      BY <1>1, <1>4
    <3>4. Begun(c, conn)' \/ Await(c, conn)'
      BY <2>5 DEF Await
    <3> QED BY <1>1, <2>2, <3>1, <3>2, <3>3, <3>4, PipesKept
  <2>8. \A d \in Calls, j \in Conns \ {conn} : Sent(d, j)' <=> Sent(d, j)
    BY <1>1, <2>4 DEF Sent
  <2>9. OwedInv'
    <3>1. CASE cPc[c] = "write"
      <4>1. \A d \in Calls : ~Sent(d, conn)'
        <5>1. up'[conn] = <<Length(c)>>
          BY <1>1, <2>5, <3>1 DEF Begun
        <5> QED BY <1>1, <5>1, Differ DEF Sent
      <4>2. \A d \in Calls : Owed(d)' \subseteq Owed(d)
        BY <1>1, <2>8, <4>1 DEF Owed
      <4>3. \A d \in Calls : Attempts(d)' >= Attempts(d)
        BY <1>1, <1>8, <2>3, <3>1 DEF Attempts, CallTypes
      <4> QED BY <1>1, <2>2, <4>2, <4>3, NothingMoreOwed
    <3>2. CASE cPc[c] = "data"
      <4>1. sPc[conn] = "read"
        BY <2>5, <3>2, <1>1 DEF Sent
      <4>2. ASSUME NEW d \in Calls, d # c PROVE Owed(d)' \subseteq Owed(d)
        <5>1. ~Sent(d, conn)'
          <6>1. up'[conn] = <<Length(c), Data(c, FALSE)>>
            BY <1>1, <2>5, <3>2 DEF Sent
          <6>2. Length(d).of = d /\ Length(c).of = c
            BY DEF Length
          <6>3. Length(d) # Length(c)
            BY <4>2, <6>2
          <6>4. up'[conn] # <<Length(d), Data(d, FALSE)>>
            <7>1. /\ <<Length(c), Data(c, FALSE)>>[1] = Length(c)
                  /\ <<Length(d), Data(d, FALSE)>>[1] = Length(d)
              OBVIOUS
            <7> QED BY <6>1, <6>3, <7>1
          <6> QED BY <1>1, <6>4 DEF Sent
        <5> QED BY <1>1, <2>8, <5>1 DEF Owed
      <4>3. Owed(c)' = Owed(c) \cup {conn}
        BY <1>1, <1>2, <2>5, <2>8, <3>2 DEF Owed
      <4>4. conn \notin Owed(c)
        BY <2>5, <3>2, <4>1 DEF Owed
      <4>5. IsFiniteSet(Owed(c)) /\ executions[c] + Cardinality(Owed(c)) <= Attempts(c)
        BY DEF OwedInv
      <4>6. /\ IsFiniteSet(Owed(c)')
            /\ Cardinality(Owed(c)') = Cardinality(Owed(c)) + 1
        BY <4>3, <4>4, <4>5, FS_AddElement
      <4>7. Attempts(c)' = Attempts(c) + 1 /\ Attempts(c) \in Nat
        BY <1>1, <1>8, <2>3, <3>2 DEF Attempts, CallTypes
      <4>8. Cardinality(Owed(c)) \in Nat /\ executions[c] \in Nat
        BY <4>5, FS_CardinalityType DEF CallTypes
      <4>9. executions'[c] + Cardinality(Owed(c)') <= Attempts(c)'
        <5> HIDE DEF Owed, Attempts
        <5> QED BY <1>1, <4>5, <4>6, <4>7, <4>8
      <4>10. ASSUME NEW d \in Calls, d # c
             PROVE  /\ IsFiniteSet(Owed(d)')
                    /\ executions'[d] + Cardinality(Owed(d)') <= Attempts(d)'
        <5>1. /\ IsFiniteSet(Owed(d))
              /\ executions[d] + Cardinality(Owed(d)) <= Attempts(d)
          BY DEF OwedInv
        <5>2. /\ IsFiniteSet(Owed(d)') /\ Cardinality(Owed(d)) \in Nat
              /\ Cardinality(Owed(d)') \in Nat
              /\ Cardinality(Owed(d)') <= Cardinality(Owed(d))
          BY <4>2, <4>10, <5>1, FS_Subset, FS_CardinalityType
        <5>3. Attempts(d)' = Attempts(d) /\ Attempts(d) \in Nat /\ executions[d] \in Nat
          BY <1>1, <1>8, <4>10 DEF Attempts, CallTypes
        <5> HIDE DEF Owed, Attempts
        <5> QED BY <1>1, <5>1, <5>2, <5>3
      <4> QED BY <4>6, <4>9, <4>10 DEF OwedInv
    <3> QED BY <3>1, <3>2
  <2> QED BY <1>6, <1>8, <2>2, <2>6, <2>7, <2>9
<1>9. \/ /\ conn \notin localClosed
         /\ cPc' = [cPc EXCEPT ![c] = next] /\ UNCHANGED result
         /\ up' = IF conn \in peerClosed THEN up
                  ELSE [up EXCEPT ![conn] = Append(@, piece)]
      \/ conn \in localClosed \cup peerClosed /\ Failed(c) /\ UNCHANGED up
  BY DEF WritePiece, Step
<1> QED BY <1>5, <1>7, <1>8, <1>9

\* A request, in two pieces.
LEMMA RequestWritten ==
  ASSUME RPCInv, NEW c \in Calls, WriteRequest(c)
  PROVE  RPCInv'
<1> USE DEF RPCInv
<1>1. Length(c) \in Piece /\ Data(c, FALSE) \in Piece
  BY Pieces
<1>2. CASE cPc[c] = "write" /\ mine' = [mine EXCEPT ![c] = conn]
           /\ WritePiece(c, conn, Length(c), "data")
  <2>1. mine' \in [Calls -> Conns \cup {NoConn}] /\ mine'[c] = conn
    BY <1>2 DEF WireTypes, CallTypes
  <2> QED BY <1>1, <1>2, <2>1, PieceWritten
<1>3. CASE cPc[c] = "data" /\ UNCHANGED mine
           /\ WritePiece(c, mine[c], Data(c, FALSE), "read")
  <2>1. mine[c] = conn
    BY <1>3 DEF AlignInv, InUse, Use
  <2>2. mine' \in [Calls -> Conns \cup {NoConn}] /\ mine'[c] = conn
    BY <1>3, <2>1 DEF CallTypes
  <2> QED BY <1>1, <1>3, <2>1, <2>2, PieceWritten
<1> QED BY <1>2, <1>3 DEF WriteRequest

\* A Read that takes the first piece of the connection in use.
LEMMA PieceRead ==
  ASSUME RPCInv, NEW c \in Calls, conn \in Conns, down[conn] # <<>>,
         down' = [down EXCEPT ![conn] = Tail(@)], CallTypes',
         UNCHANGED <<clientVars, up, serverVars>>,
         Clean(conn)' \/ \E d \in Calls : Reads(d, conn)',
         \A d \in Calls : Attempts(d)' >= Attempts(d)
  PROVE  WireTypes' /\ PipeInv' /\ OwedInv'
<1> USE DEF RPCInv
<1>1. UNCHANGED <<conn, localClosed, up, sPc, serving, peerClosed, executions>>
  BY DEF clientVars, serverVars
<1>2. /\ down'[conn] = Tail(down[conn])
      /\ \A j \in Conns \ {conn} : down'[j] = down[j]
  BY DEF WireTypes
<1>3. WireTypes'
  BY <1>1 DEF WireTypes
<1>4. PipeInv'
  <2>1. \A d \in Calls : executions'[d] >= executions[d]
    BY <1>1 DEF CallTypes
  <2>2. \A j \in Conns \ {conn} :
          /\ up'[j] = up[j] /\ down'[j] = down[j] /\ sPc'[j] = sPc[j]
          /\ serving'[j] = serving[j]
          /\ j \in peerClosed' <=> j \in peerClosed
          /\ j = conn' => j = conn
    BY <1>1, <1>2
  <2>3. sPc'[conn] = "closed" <=> conn \in peerClosed'
    BY <1>1 DEF PipeInv
  <2> QED BY <1>1, <2>1, <2>2, <2>3, PipesKept
<1>5. OwedInv'
  <2>1. \A d \in Calls : ~Sent(d, conn)'
    <3>1. Clean(conn)' => up'[conn] = <<>>
      BY <1>1 DEF Clean, Empty
    <3>2. \A d \in Calls : Reads(d, conn)' => up'[conn] = <<>>
      BY <1>1 DEF Reads, Halved, Lost, Empty
    <3>3. up'[conn] = <<>>
      BY <3>1, <3>2
    <3> QED BY <1>1, <3>3, Differ DEF Sent
  <2>2. \A d \in Calls, j \in Conns \ {conn} : Sent(d, j)' <=> Sent(d, j)
    BY <1>1, <1>2 DEF Sent
  <2>3. \A d \in Calls : Owed(d)' \subseteq Owed(d)
    BY <1>1, <2>1, <2>2 DEF Owed
  <2> QED BY <1>1, <2>3, NothingMoreOwed
<1> QED BY <1>3, <1>4, <1>5

\* The length of the call's own reply.
LEMMA LengthRead ==
  ASSUME RPCInv, NEW c \in Calls, ReadLength(c), orderly'
  PROVE  RPCInv'
<1> USE DEF RPCInv
<1>1. /\ cPc[c] = "read" /\ mine' = [mine EXCEPT ![c] = conn]
      /\ UNCHANGED <<clientVars, up, serverVars, i>>
      /\ UNCHANGED <<conn, localClosed, up, sPc, serving, peerClosed, executions>>
  BY DEF ReadLength, clientVars, serverVars
<1>2. conn \in Conns /\ (conn \notin localClosed => Await(c, conn))
  BY <1>1 DEF AlignInv, InUse, Use, At
<1>3. mine' \in [Calls -> Conns \cup {NoConn}] /\ mine'[c] = conn
  BY <1>1 DEF WireTypes, CallTypes
<1>4. CASE ReadFails(c, conn)
  <2>1. /\ Failed(c) /\ UNCHANGED <<clientVars, wireVars, serverVars, i, reply>>
    BY <1>1, <1>4 DEF ReadFails, wireVars
  <2>2. ASSUME conn \notin localClosed PROVE Clean(conn)
    <3>1. sPc[conn] = "closed" /\ down[conn] = <<>>
      BY <1>2, <1>4, <2>2 DEF ReadFails, PipeInv
    <3>2. ~Replied(c, conn) /\ ~Cut(c, conn) /\ ~Sent(c, conn) /\ ~Served(c, conn)
      BY <3>1, Differ DEF Replied, Cut, Sent, Served
    <3> QED BY <1>2, <2>2, <3>2 DEF Await, Lost, Clean
  <2> QED BY <1>1, <1>3, <2>1, <2>2, FailsCleanly
<1>5. ASSUME conn \notin localClosed, down[conn] # <<>>
      PROVE  Replied(c, conn) \/ Cut(c, conn)
  BY <1>2, <1>5 DEF Await, Sent, Served, Lost, Empty
<1>6. ASSUME conn \notin localClosed, down[conn] # <<>>
      PROVE  Head(down[conn]) = Length(c)
  <2>1. \E e \in BOOLEAN : down[conn] \in {<<Length(c)>>, <<Length(c), Data(c, e)>>}
    BY <1>5, <1>6 DEF Replied, Cut
  <2> QED BY <2>1
<1>7. CASE /\ conn \notin localClosed /\ down[conn] # <<>>
           /\ down' = [down EXCEPT ![conn] = Tail(@)]
           /\ Step(c, "body")
           /\ UNCHANGED <<result, reply, orderly>>
  <2>1. cPc' = [cPc EXCEPT ![c] = "body"] /\ UNCHANGED result
    BY <1>7 DEF Step
  <2>2. CallTypes' /\ cPc'[c] = "body"
    BY <1>1, <1>3, <1>7, <2>1 DEF CallTypes, CallStages
  <2>3. down'[conn] = Tail(down[conn])
    BY <1>2, <1>7 DEF WireTypes
  <2>4. Reads(c, conn)'
    <3>1. CASE Replied(c, conn)
      <4>1. PICK e \in BOOLEAN : /\ down[conn] = <<Length(c), Data(c, e)>>
                                 /\ e = FALSE => executions[c] > 0
        BY <3>1 DEF Replied
      <4>2. down'[conn] = <<Data(c, e)>>
        BY <2>3, <4>1
      <4>3. up'[conn] = <<>> /\ sPc'[conn] \in {"read", "closed"}
        BY <1>1, <3>1 DEF Replied
      <4> QED BY <1>1, <4>1, <4>2, <4>3 DEF Reads, Halved
    <3>2. CASE Cut(c, conn)
      <4>1. down'[conn] = <<>>
        BY <2>3, <3>2 DEF Cut
      <4> QED BY <1>1, <3>2, <4>1 DEF Reads, Cut, Lost, Empty
    <3> QED BY <1>5, <1>7, <3>1, <3>2
  <2>5. \A d \in Calls : Attempts(d)' >= Attempts(d)
    BY <1>1, <2>1 DEF Attempts, CallTypes
  <2>6. WireTypes' /\ PipeInv' /\ OwedInv'
    BY <1>1, <1>2, <1>7, <2>2, <2>4, <2>5, PieceRead
  <2>7. AlignInv' /\ ReadyInv' /\ LoneInv'
    <3>1. "body" \in CallStages /\ "body" \in Use
      BY DEF CallStages, Use
    <3>2. At(c, conn)'
      BY <2>2, <2>4 DEF At
    <3>3. \A d \in Live : d = c
      BY <1>1, OnlyOne
    <3> QED BY <1>1, <1>2, <1>3, <2>1, <3>1, <3>2, <3>3, CallerMoves
  <2>8. ReplyInv'
    BY <1>1, <1>7, <2>1 DEF ReplyInv, CallTypes
  <2> QED BY <2>2, <2>6, <2>7, <2>8
<1>8. CASE conn \notin localClosed /\ down[conn] # <<>> /\ ReadsRemains(c, conn)
  BY <1>6, <1>8, Pieces DEF ReadsRemains
<1>9. CASE ReadsPart(c, conn)
  BY <1>9 DEF ReadsPart
<1> QED BY <1>4, <1>7, <1>8, <1>9 DEF ReadLength

\* Its data: the call has its own reply, or the error in it.
LEMMA BodyRead ==
  ASSUME RPCInv, NEW c \in Calls, ReadBody(c), orderly'
  PROVE  RPCInv'
<1> USE DEF RPCInv
<1>1. /\ cPc[c] = "body" /\ mine[c] = conn
      /\ UNCHANGED <<clientVars, up, serverVars, i, mine>>
      /\ UNCHANGED <<conn, localClosed, up, sPc, serving, peerClosed, executions>>
  BY DEF ReadBody, clientVars, serverVars, AlignInv, InUse, Use
<1>2. conn \in Conns /\ (conn \notin localClosed => Reads(c, conn))
  BY <1>1 DEF AlignInv, InUse, Use, At
<1>3. \A d \in Live : d = c
  BY <1>1, OnlyOne
<1>4. CASE ReadFails(c, conn)
  <2>1. /\ Failed(c) /\ UNCHANGED <<clientVars, wireVars, serverVars, i, reply>>
    BY <1>1, <1>4 DEF ReadFails, wireVars
  <2>2. ASSUME conn \notin localClosed PROVE Clean(conn)
    <3>1. sPc[conn] = "closed" /\ down[conn] = <<>>
      BY <1>2, <1>4, <2>2 DEF ReadFails, PipeInv
    <3>2. ~Halved(c, conn)
      BY <3>1, Differ DEF Halved
    <3> QED BY <1>2, <2>2, <3>2 DEF Reads, Lost, Clean
  <2>3. mine' \in [Calls -> Conns \cup {NoConn}]
    BY <1>1 DEF CallTypes
  <2> QED BY <1>1, <2>1, <2>2, <2>3, FailsCleanly
<1>5. ASSUME conn \notin localClosed, down[conn] # <<>>,
             down' = [down EXCEPT ![conn] = Tail(@)],
             IF Head(down[conn]).error
             THEN Failed(c) /\ UNCHANGED reply
             ELSE /\ Step(c, "done")
                  /\ result' = [result EXCEPT ![c] = "ok"]
                  /\ reply' = [reply EXCEPT ![c] = Head(down[conn]).of]
      PROVE  RPCInv'
  <2>1. Halved(c, conn)
    BY <1>2, <1>5 DEF Reads, Lost, Empty
  <2>2. PICK e \in BOOLEAN : /\ down[conn] = <<Data(c, e)>>
                             /\ e = FALSE => executions[c] > 0
    BY <2>1 DEF Halved
  <2>3. Head(down[conn]) = Data(c, e)
    BY <2>2
  <2>4. Head(down[conn]).error = e /\ Head(down[conn]).of = c
    BY <2>3, Pieces
  <2>5. Clean(conn)'
    <3>1. down'[conn] = Tail(down[conn])
      BY <1>2, <1>5 DEF WireTypes
    <3>2. down'[conn] = <<>>
      BY <2>2, <3>1
    <3> QED BY <1>1, <2>1, <3>2 DEF Halved, Clean, Empty
  <2>6. ASSUME NEW where \in {"wait", "done"}, cPc' = [cPc EXCEPT ![c] = where],
               CallTypes', ReplyInv'
        PROVE  RPCInv'
    <3>1. \A d \in Calls : Attempts(d)' >= Attempts(d)
      BY <1>1, <2>6 DEF Attempts, CallTypes
    <3>2. WireTypes' /\ PipeInv' /\ OwedInv'
      BY <1>1, <1>2, <1>5, <2>5, <2>6, <3>1, PieceRead
    <3>3. where \in CallStages /\ where \notin Use
      BY DEF CallStages, Use
    <3>4. AlignInv' /\ ReadyInv' /\ LoneInv'
      BY <1>3, <2>5, <2>6, <3>3, CallerMoves
    <3> QED BY <2>6, <3>2, <3>4
  <2>7. CASE e = TRUE
    <3>1. Failed(c) /\ UNCHANGED reply
      BY <1>5, <2>4, <2>7
    <3>2. PICK where \in {"wait", "done"} : cPc' = [cPc EXCEPT ![c] = where]
      BY <3>1, FailedEnds
    <3>3. /\ result' \in [Calls -> {"none", "ok", "error"}]
          /\ \A d \in Calls : result'[d] = "ok" => result[d] = "ok"
      BY <3>1, FailedEnds
    <3>4. CallTypes'
      BY <1>1, <3>1, <3>2, <3>3 DEF CallTypes, CallStages
    <3>5. ReplyInv'
      BY <1>1, <3>1, <3>2, <3>3 DEF ReplyInv, CallTypes
    <3> QED BY <2>6, <3>2, <3>4, <3>5
  <2>8. CASE e = FALSE
    <3>1. /\ cPc' = [cPc EXCEPT ![c] = "done"]
          /\ result' = [result EXCEPT ![c] = "ok"]
          /\ reply' = [reply EXCEPT ![c] = c]
          /\ executions[c] > 0
      BY <1>5, <2>2, <2>4, <2>8 DEF Step
    <3>2. CallTypes'
      BY <1>1, <3>1 DEF CallTypes, CallStages
    <3>3. ReplyInv'
      BY <1>1, <3>1 DEF ReplyInv, CallTypes
    <3>4. "done" \in {"wait", "done"}
      OBVIOUS
    <3> QED BY <2>6, <3>1, <3>2, <3>3, <3>4
  <2> QED BY <2>7, <2>8
<1>6. CASE ReadsPart(c, conn)
  BY <1>6 DEF ReadsPart
<1>7. \/ ReadFails(c, conn)
      \/ ReadsPart(c, conn)
      \/ /\ conn \notin localClosed /\ down[conn] # <<>>
         /\ down' = [down EXCEPT ![conn] = Tail(@)]
         /\ IF Head(down[conn]).error
            THEN Failed(c) /\ UNCHANGED reply
            ELSE /\ Step(c, "done")
                 /\ result' = [result EXCEPT ![c] = "ok"]
                 /\ reply' = [reply EXCEPT ![c] = Head(down[conn]).of]
  BY <1>1 DEF ReadBody
<1> QED BY <1>4, <1>5, <1>6, <1>7

\* Close gives the connection up; whoever uses it fails.
LEMMA ClientCloses ==
  ASSUME RPCInv, NEW x \in Closers, Close(x)
  PROVE  RPCInv'
<1> USE DEF RPCInv
<1>1. /\ cPc[x] = "idle" /\ cPc' = [cPc EXCEPT ![x] = "done"]
      /\ localClosed \subseteq localClosed'
      /\ localClosed' \subseteq localClosed \cup ({conn} \ {NoConn})
      /\ UNCHANGED <<conn, wireVars, serverVars, i, mine, result, reply>>
  BY DEF Close, Step
<1>2. UNCHANGED <<up, down, sPc, serving, peerClosed, executions, conn>>
  BY <1>1 DEF wireVars, serverVars
<1>3. WireTypes' /\ CallTypes'
  BY <1>1, <1>2 DEF WireTypes, CallTypes, CallStages
<1>4. \A c \in Calls : cPc'[c] = cPc[c] \/ (cPc[c] = "idle" /\ cPc'[c] = "done")
  BY <1>1 DEF CallTypes
<1>5. PipeInv' /\ \A d \in Calls : Owed(d)' \subseteq Owed(d)
  BY <1>2, SameWires
<1>6. OwedInv'
  <2>1. \A d \in Calls : Attempts(d)' >= Attempts(d)
    BY <1>1, <1>4 DEF Attempts, CallTypes
  <2> QED BY <1>2, <1>3, <1>5, <2>1, NothingMoreOwed
<1>7. LoneInv'
  BY <1>4 DEF LoneInv, Live
<1>8. AlignInv'
  <2> SUFFICES ASSUME NEW c \in Calls, InUse(c)'
               PROVE  /\ conn' \in Conns
                      /\ cPc'[c] \in {"data", "body"} => mine'[c] = conn'
                      /\ conn' \notin localClosed' => At(c, conn)'
    BY DEF AlignInv
  <2>1. cPc'[c] = cPc[c] /\ InUse(c)
    BY <1>4 DEF InUse, Use
  <2>2. /\ conn \in Conns /\ (cPc[c] \in {"data", "body"} => mine[c] = conn)
        /\ conn \notin localClosed => At(c, conn)
    BY <2>1 DEF AlignInv
  <2>3. At(c, conn) => At(c, conn)'
    <3>1. Lost(conn) => Lost(conn)'
      BY <1>2 DEF Lost, Empty
    <3> QED BY <1>2, <2>1, <3>1, SameWires DEF At
  <2> QED BY <1>1, <2>1, <2>2, <2>3
<1>9. ReadyInv'
  <2> SUFFICES ASSUME conn' \in Conns \ localClosed',
                      \A c \in Calls : ~InUse(c)'
               PROVE  Clean(conn)'
    BY DEF ReadyInv
  <2>1. \A c \in Calls : ~InUse(c)
    BY <1>4 DEF InUse, Use
  <2> QED BY <1>1, <1>2, <2>1, SameWires DEF ReadyInv
<1>10. ReplyInv'
  BY <1>1, <1>2, <1>4 DEF ReplyInv
<1> QED BY <1>3, <1>5, <1>6, <1>7, <1>8, <1>9, <1>10

-----------------------------------------------------------------------------
(* The server *)

\* A step of the server on one connection: whatever a call may find there, it
\* still may find.
LEMMA ServerMoves ==
  ASSUME RPCInv, WireTypes', NEW k \in Conns, sPc[k] # "none",
         UNCHANGED <<clientVars, callVars>>,
         executions' \in [Calls -> Nat],
         \A c \in Calls : executions'[c] >= executions[c],
         \A j \in Conns \ {k} :
           /\ up'[j] = up[j] /\ down'[j] = down[j] /\ sPc'[j] = sPc[j]
           /\ serving'[j] = serving[j]
           /\ j \in peerClosed' <=> j \in peerClosed,
         sPc'[k] = "closed" <=> k \in peerClosed',
         Clean(k) => Clean(k)',
         Lost(k) => Lost(k)',
         \A c \in Calls : /\ Begun(c, k) => Begun(c, k)' \/ Lost(k)'
                          /\ Await(c, k) => Await(c, k)'
                          /\ Reads(c, k) => Reads(c, k)'
  PROVE  CallTypes' /\ PipeInv' /\ AlignInv' /\ ReadyInv' /\ LoneInv' /\ ReplyInv'
<1> USE DEF RPCInv
<1>1. UNCHANGED <<conn, localClosed, cPc, i, mine, result, reply>>
  BY DEF clientVars, callVars
<1>2. CallTypes'
  BY <1>1 DEF CallTypes
<1>3. PipeInv'
  <2>1. /\ \/ Unused(k) \/ Clean(k)
           \/ \E c \in Calls : Begun(c, k) \/ Await(c, k) \/ Reads(c, k)
    BY DEF PipeInv
  <2>2. ~Unused(k) /\ (Lost(k)' => Clean(k)')
    BY DEF Unused, Lost, Clean
  <2>3. \/ Clean(k)'
        \/ \E c \in Calls : Begun(c, k)' \/ Await(c, k)' \/ Reads(c, k)'
    BY <2>1, <2>2
  <2>4. \A j \in Conns \ {k} :
           /\ up'[j] = up[j] /\ down'[j] = down[j] /\ sPc'[j] = sPc[j]
           /\ serving'[j] = serving[j]
           /\ j \in peerClosed' <=> j \in peerClosed
           /\ j = conn' => j = conn
    BY <1>1
  <2> QED BY <1>2, <2>3, <2>4, PipesKept
<1>4. ASSUME conn \in Conns
      PROVE  /\ Clean(conn) => Clean(conn)'
             /\ Lost(conn) => Lost(conn)'
             /\ \A c \in Calls : /\ Begun(c, conn) => Begun(c, conn)' \/ Lost(conn)'
                                 /\ Await(c, conn) => Await(c, conn)'
                                 /\ Reads(c, conn) => Reads(c, conn)'
  <2>1. PICK j \in Conns : j = conn /\ j = conn'
    BY <1>1, <1>4
  <2>2. /\ Clean(j) => Clean(j)'
        /\ Lost(j) => Lost(j)'
        /\ \A c \in Calls : /\ Begun(c, j) => Begun(c, j)' \/ Lost(j)'
                            /\ Await(c, j) => Await(c, j)'
                            /\ Reads(c, j) => Reads(c, j)'
    <3>1. CASE j = k
      BY <3>1
    <3>2. CASE j # k
      <4>1. executions \in [Calls -> Nat]
        BY DEF CallTypes
      <4> QED BY <3>2, <4>1, SameShape
    <3> QED BY <3>1, <3>2
  <2>3. /\ Clean(j) = Clean(conn) /\ Clean(j)' = Clean(conn)'
        /\ Lost(j) = Lost(conn) /\ Lost(j)' = Lost(conn)'
    BY <2>1 DEF Clean, Lost, Empty
  <2>4. ASSUME NEW c \in Calls
        PROVE  /\ Begun(c, j) = Begun(c, conn) /\ Begun(c, j)' = Begun(c, conn)'
               /\ Sent(c, j) = Sent(c, conn) /\ Sent(c, j)' = Sent(c, conn)'
               /\ Cut(c, j) = Cut(c, conn) /\ Cut(c, j)' = Cut(c, conn)'
    BY <2>1 DEF Begun, Sent, Cut
  <2>5. ASSUME NEW c \in Calls
        PROVE  /\ Served(c, j) = Served(c, conn) /\ Served(c, j)' = Served(c, conn)'
               /\ Replied(c, j) = Replied(c, conn) /\ Replied(c, j)' = Replied(c, conn)'
               /\ Halved(c, j) = Halved(c, conn) /\ Halved(c, j)' = Halved(c, conn)'
    BY <2>1 DEF Served, Replied, Halved, Empty
  <2> QED BY <2>2, <2>3, <2>4, <2>5 DEF Await, Reads
<1>5. AlignInv'
  <2> SUFFICES ASSUME NEW c \in Calls, InUse(c)'
               PROVE  /\ conn' \in Conns
                      /\ cPc'[c] \in {"data", "body"} => mine'[c] = conn'
                      /\ conn' \notin localClosed' => At(c, conn)'
    BY DEF AlignInv
  <2>1. /\ conn \in Conns /\ (cPc[c] \in {"data", "body"} => mine[c] = conn)
        /\ conn \notin localClosed => At(c, conn)
    BY <1>1 DEF AlignInv, InUse
  <2> QED BY <1>1, <1>4, <2>1 DEF At
<1>6. ReadyInv'
  <2>1. \A c \in Calls : InUse(c)' <=> InUse(c)
    BY <1>1 DEF InUse
  <2> QED BY <1>1, <1>4, <2>1 DEF ReadyInv
<1>7. LoneInv'
  BY <1>1 DEF LoneInv, Live
<1>8. ReplyInv'
  <2> SUFFICES ASSUME NEW c \in Calls, result'[c] = "ok"
               PROVE  cPc'[c] = "done" /\ reply'[c] = c /\ executions'[c] > 0
    BY DEF ReplyInv
  <2>1. cPc[c] = "done" /\ reply[c] = c /\ executions[c] > 0
    BY <1>1 DEF ReplyInv
  <2>2. executions'[c] >= executions[c] /\ executions[c] \in Nat /\ executions'[c] \in Nat
    BY DEF CallTypes
  <2> QED BY <1>1, <2>1, <2>2
<1> QED BY <1>2, <1>3, <1>5, <1>6, <1>7, <1>8

\* The server takes up a request that is all there.
LEMMA RequestRead ==
  ASSUME RPCInv, NEW k \in Conns, ReadRequest(k)
  PROVE  RPCInv'
<1> USE DEF RPCInv
<1>1. /\ sPc[k] = "read" /\ Len(up[k]) > 1
      /\ serving' = [serving EXCEPT ![k] = up[k][1].of]
      /\ up' = [up EXCEPT ![k] = SubSeq(@, 3, Len(@))]
      /\ sPc' = [sPc EXCEPT ![k] = "handle"]
      /\ UNCHANGED <<clientVars, down, peerClosed, executions, callVars>>
  BY DEF ReadRequest
<1>2. UNCHANGED <<conn, localClosed>>
  BY <1>1 DEF clientVars
<1>3. \E c \in Calls : Sent(c, k)
  <2>1. up[k] # <<>>
    BY <1>1
  <2>2. ASSUME NEW c \in Calls PROVE up[k] # <<Length(c)>>
    BY <1>1, NotJustOne
  <2> QED BY <1>1, <2>1, <2>2
      DEF PipeInv, Unused, Clean, Begun, Await, Reads, Served, Replied, Cut,
          Halved, Lost, Empty
<1>4. PICK c \in Calls : Sent(c, k)
  BY <1>3
<1>5. /\ up[k] = <<Length(c), Data(c, FALSE)>> /\ down[k] = <<>>
      /\ up[k][1].of = c
  <2>1. up[k] = <<Length(c), Data(c, FALSE)>> /\ down[k] = <<>>
    BY <1>4 DEF Sent
  <2>2. up[k][1] = Length(c)
    BY <2>1
  <2> QED BY <2>1, <2>2 DEF Length
<1>6. up'[k] = <<>>
  <2>1. Length(c) \in Piece /\ Data(c, FALSE) \in Piece
    BY Pieces
  <2>2. SubSeq(<<Length(c), Data(c, FALSE)>>, 3,
               Len(<<Length(c), Data(c, FALSE)>>)) = <<>>
    BY <2>1
  <2> QED BY <1>1, <1>5, <2>2 DEF WireTypes
<1>7. /\ serving'[k] = c /\ sPc'[k] = "handle"
      /\ \A j \in Conns \ {k} :
           /\ up'[j] = up[j] /\ down'[j] = down[j] /\ sPc'[j] = sPc[j]
           /\ serving'[j] = serving[j]
           /\ j \in peerClosed' <=> j \in peerClosed
  BY <1>1, <1>5 DEF WireTypes
<1>8. WireTypes'
  <2>1. up' \in [Conns -> Seq(Piece)]
    <3>1. <<>> \in Seq(Piece)
      OBVIOUS
    <3>2. up' = [up EXCEPT ![k] = up'[k]]
      BY <1>1 DEF WireTypes
    <3> QED BY <1>6, <3>1, <3>2 DEF WireTypes
  <2> QED BY <1>1, <1>2, <1>5, <2>1 DEF WireTypes, ServerStages
<1>9. \A d \in Calls : Sent(d, k) => d = c
  <2> SUFFICES ASSUME NEW d \in Calls, Sent(d, k) PROVE d = c
    OBVIOUS
  <2>1. up[k] = <<Length(d), Data(d, FALSE)>>
    BY DEF Sent
  <2>2. up[k][1] = Length(d)
    BY <2>1
  <2> QED BY <1>5, <2>2 DEF Length
<1>10. Served(c, k)'
  BY <1>1, <1>5, <1>6, <1>7 DEF Served, Empty
<1>11. /\ ~Clean(k) /\ ~Lost(k)
       /\ \A d \in Calls : /\ ~Begun(d, k) /\ ~Reads(d, k)
                           /\ Await(d, k) => Sent(d, k)
  <2>1. up[k] # <<>>
    BY <1>1
  <2>2. ASSUME NEW d \in Calls PROVE up[k] # <<Length(d)>>
    BY <1>1, NotJustOne
  <2> QED BY <2>1, <2>2 DEF Clean, Begun, Await, Reads, Served, Replied, Cut,
                      Halved, Lost, Empty
<1>12. CallTypes' /\ PipeInv' /\ AlignInv' /\ ReadyInv' /\ LoneInv' /\ ReplyInv'
  <2>1. \A d \in Calls : executions'[d] >= executions[d]
    BY <1>1 DEF CallTypes
  <2>2. k \notin peerClosed'
    BY <1>1 DEF PipeInv
  <2>3. \A d \in Calls : Await(d, k) => Await(d, k)'
    BY <1>9, <1>10, <1>11 DEF Await
  <2>4. executions' \in [Calls -> Nat]
    BY <1>1 DEF CallTypes
  <2> QED BY <1>1, <1>7, <1>8, <1>11, <2>1, <2>2, <2>3, <2>4, ServerMoves
<1>13. OwedInv'
  <2>1. \A d \in Calls, j \in Conns \ {k} : Sent(d, j)' <=> Sent(d, j)
    BY <1>7 DEF Sent
  <2>2. \A d \in Calls : Owed(d)' \subseteq Owed(d)
    <3> SUFFICES ASSUME NEW d \in Calls, NEW j \in Conns,
                        Sent(d, j)' \/ (sPc'[j] = "handle" /\ serving'[j] = d)
                 PROVE  Sent(d, j) \/ (sPc[j] = "handle" /\ serving[j] = d)
      BY DEF Owed
    <3>1. CASE j = k
      <4>1. d = c
        BY <1>7, <3>1 DEF Sent
      <4> QED BY <1>4, <3>1, <4>1
    <3>2. CASE j # k
      BY <1>7, <2>1, <3>2
    <3> QED BY <3>1, <3>2
  <2>3. \A d \in Calls : Attempts(d)' >= Attempts(d)
    BY <1>1 DEF Attempts, CallTypes, callVars
  <2> QED BY <1>1, <1>12, <2>2, <2>3, NothingMoreOwed
<1> QED BY <1>8, <1>12, <1>13

\* It runs the method, for which an attempt has paid, or refuses.
LEMMA RequestHandled ==
  ASSUME RPCInv, NEW k \in Conns, handleRequest(k)
  PROVE  RPCInv'
<1> USE DEF RPCInv
<1>1. PICK run \in BOOLEAN, error \in BOOLEAN :
        /\ run \/ error
        /\ executions' = IF run THEN [executions EXCEPT ![serving[k]] = @ + 1]
                         ELSE executions
        /\ sPc' = [sPc EXCEPT ![k] = IF error THEN "refuse" ELSE "answer"]
  BY DEF handleRequest
<1>2. /\ sPc[k] = "handle"
      /\ UNCHANGED <<clientVars, wireVars, serving, peerClosed, callVars>>
      /\ UNCHANGED <<conn, localClosed, up, down>>
  BY DEF handleRequest, clientVars, wireVars
<1>3. \E c \in Calls : Served(c, k)
  BY <1>2 DEF PipeInv, Unused, Clean, Begun, Await, Reads, Sent, Replied, Cut,
              Halved, Lost
<1>4. PICK c \in Calls : Served(c, k)
  BY <1>3
<1>5. serving[k] = c /\ Empty(k)
  BY <1>4 DEF Served
<1>6. /\ sPc'[k] = IF error THEN "refuse" ELSE "answer"
      /\ sPc'[k] \in {"refuse", "answer"}
      /\ \A j \in Conns \ {k} :
           /\ up'[j] = up[j] /\ down'[j] = down[j] /\ sPc'[j] = sPc[j]
           /\ serving'[j] = serving[j]
           /\ j \in peerClosed' <=> j \in peerClosed
  BY <1>1, <1>2 DEF WireTypes
<1>7. WireTypes'
  BY <1>1, <1>2 DEF WireTypes, ServerStages
<1>8. /\ executions' \in [Calls -> Nat]
      /\ \A d \in Calls : executions'[d] >= executions[d]
      /\ executions'[c] <= executions[c] + 1
      /\ \A d \in Calls \ {c} : executions'[d] = executions[d]
      /\ sPc'[k] = "answer" => executions'[c] > 0
  BY <1>1, <1>5, <1>6 DEF CallTypes
<1>9. Served(c, k)'
  BY <1>2, <1>5, <1>6, <1>8 DEF Served, Empty
<1>10. /\ ~Clean(k) /\ ~Lost(k)
       /\ \A d \in Calls : /\ ~Begun(d, k) /\ ~Reads(d, k)
                           /\ Await(d, k) => d = c
  BY <1>2, <1>5 DEF Clean, Begun, Await, Reads, Sent, Served, Replied, Cut,
              Halved, Lost
<1>11. CallTypes' /\ PipeInv' /\ AlignInv' /\ ReadyInv' /\ LoneInv' /\ ReplyInv'
  <2>1. k \notin peerClosed'
    BY <1>2 DEF PipeInv
  <2>2. \A d \in Calls : Await(d, k) => Await(d, k)'
    BY <1>9, <1>10 DEF Await
  <2>3. sPc[k] # "none" /\ sPc'[k] # "closed"
    BY <1>2, <1>6
  <2> QED BY <1>2, <1>6, <1>7, <1>8, <1>10, <2>1, <2>2, <2>3, ServerMoves
<1>12. OwedInv'
  <2>1. \A d \in Calls, j \in Conns \ {k} : Sent(d, j)' <=> Sent(d, j)
    BY <1>6 DEF Sent
  <2>2. \A d \in Calls : ~Sent(d, k)'
    BY <1>6 DEF Sent
  <2>3. \A d \in Calls : Owed(d)' \subseteq Owed(d) \ {k}
    BY <1>6, <2>1, <2>2 DEF Owed
  <2>4. k \in Owed(c)
    BY <1>2, <1>5 DEF Owed
  <2>5. \A d \in Calls : Attempts(d)' = Attempts(d) /\ Attempts(d) \in Nat
    BY <1>2 DEF Attempts, CallTypes, callVars
  <2> SUFFICES ASSUME NEW d \in Calls
               PROVE  /\ IsFiniteSet(Owed(d)')
                      /\ executions'[d] + Cardinality(Owed(d)') <= Attempts(d)'
    BY DEF OwedInv
  <2>6. /\ IsFiniteSet(Owed(d))
        /\ executions[d] + Cardinality(Owed(d)) <= Attempts(d)
    BY DEF OwedInv
  <2>7. /\ IsFiniteSet(Owed(d)') /\ Cardinality(Owed(d)) \in Nat
        /\ Cardinality(Owed(d)') \in Nat
        /\ Cardinality(Owed(d)') <= Cardinality(Owed(d))
    BY <2>3, <2>6, FS_Subset, FS_CardinalityType
  <2>8. d = c => Cardinality(Owed(d)') <= Cardinality(Owed(d)) - 1
    <3> HAVE d = c
    <3>1. /\ IsFiniteSet(Owed(c) \ {k})
          /\ Cardinality(Owed(c) \ {k}) = Cardinality(Owed(c)) - 1
      BY <2>4, <2>6, FS_RemoveElement
    <3>2. Owed(c)' \subseteq Owed(c) \ {k}
      BY <2>3
    <3>3. Cardinality(Owed(c)') <= Cardinality(Owed(c) \ {k})
      BY <3>1, <3>2, FS_Subset
    <3> QED BY <3>1, <3>3
  <2>9. executions[d] \in Nat /\ executions'[d] \in Nat
    BY <1>8 DEF CallTypes
  <2>10. executions'[d] <= executions[d] + (IF d = c THEN 1 ELSE 0)
    BY <1>8, <2>9
  <2> HIDE DEF Owed, Attempts
  <2>11. executions'[d] + Cardinality(Owed(d)') <= Attempts(d)'
    <3>1. CASE d = c
      BY <2>5, <2>6, <2>7, <2>8, <2>9, <2>10, <3>1
    <3>2. CASE d # c
      BY <2>5, <2>6, <2>7, <2>9, <2>10, <3>2
    <3> QED BY <3>1, <3>2
  <2> QED BY <2>7, <2>11
<1> QED BY <1>7, <1>11, <1>12

\* Its answer goes to the call it served.
LEMMA ResponseWritten ==
  ASSUME RPCInv, NEW k \in Conns, WriteResponse(k)
  PROVE  RPCInv'
<1> USE DEF RPCInv
<1>1. /\ sPc[k] \in {"answer", "refuse"}
      /\ down' = [down EXCEPT ![k] = @ \o <<Length(serving[k]),
                             Data(serving[k], sPc[k] = "refuse")>>]
      /\ sPc' = [sPc EXCEPT ![k] = "read"]
      /\ serving' = [serving EXCEPT ![k] = NoCall]
      /\ UNCHANGED <<clientVars, up, peerClosed, executions, callVars>>
      /\ UNCHANGED <<conn, localClosed>>
  BY DEF WriteResponse, clientVars
<1>2. \E c \in Calls : Served(c, k)
  BY <1>1 DEF PipeInv, Unused, Clean, Begun, Await, Reads, Sent, Replied, Cut,
              Halved, Lost
<1>3. PICK c \in Calls : Served(c, k)
  BY <1>2
<1>4. PICK e \in BOOLEAN : e = (sPc[k] = "refuse")
  OBVIOUS
<1>5. /\ serving[k] = c /\ up[k] = <<>> /\ down[k] = <<>>
      /\ e = FALSE => executions[c] > 0
  BY <1>1, <1>3, <1>4 DEF Served, Empty
<1>6. Length(c) \in Piece /\ Data(c, e) \in Piece
  BY Pieces
<1>7. /\ sPc'[k] = "read" /\ serving'[k] = NoCall
      /\ \A j \in Conns \ {k} :
           /\ up'[j] = up[j] /\ down'[j] = down[j] /\ sPc'[j] = sPc[j]
           /\ serving'[j] = serving[j]
           /\ j \in peerClosed' <=> j \in peerClosed
  BY <1>1 DEF WireTypes
<1>8. down'[k] = <<Length(c), Data(c, e)>>
  <2>1. down'[k] = down[k] \o <<Length(c), Data(c, e)>>
    BY <1>1, <1>4, <1>5 DEF WireTypes
  <2> QED BY <1>5, <1>6, <2>1, Put
<1>9. WireTypes'
  <2>1. <<Length(c), Data(c, e)>> \in Seq(Piece)
    BY <1>6
  <2>2. down' = [down EXCEPT ![k] = down'[k]]
    BY <1>1 DEF WireTypes
  <2>3. down' \in [Conns -> Seq(Piece)]
    BY <1>8, <2>1, <2>2 DEF WireTypes
  <2> QED BY <1>1, <2>3 DEF WireTypes, ServerStages
<1>10. Replied(c, k)'
  BY <1>1, <1>5, <1>7, <1>8 DEF Replied
<1>11. /\ ~Clean(k) /\ ~Lost(k)
       /\ \A d \in Calls : /\ ~Begun(d, k) /\ ~Reads(d, k)
                           /\ Await(d, k) => d = c
  BY <1>1, <1>5 DEF Clean, Begun, Await, Reads, Sent, Served, Replied, Cut,
              Halved, Lost
<1>12. CallTypes' /\ PipeInv' /\ AlignInv' /\ ReadyInv' /\ LoneInv' /\ ReplyInv'
  <2>1. k \notin peerClosed'
    BY <1>1 DEF PipeInv
  <2>2. \A d \in Calls : Await(d, k) => Await(d, k)'
    BY <1>10, <1>11 DEF Await
  <2>3. /\ executions' \in [Calls -> Nat]
        /\ \A d \in Calls : executions'[d] >= executions[d]
    BY <1>1 DEF CallTypes
  <2>4. sPc[k] # "none" /\ sPc'[k] # "closed"
    BY <1>1, <1>7
  <2> QED BY <1>1, <1>7, <1>9, <1>11, <2>1, <2>2, <2>3, <2>4, ServerMoves
<1>13. OwedInv'
  <2>1. \A d \in Calls, j \in Conns \ {k} : Sent(d, j)' <=> Sent(d, j)
    BY <1>7 DEF Sent
  <2>2. \A d \in Calls : ~Sent(d, k)'
    BY <1>1, <1>5, Differ DEF Sent
  <2>3. \A d \in Calls : Owed(d)' \subseteq Owed(d)
    BY <1>7, <2>1, <2>2 DEF Owed
  <2>4. \A d \in Calls : Attempts(d)' >= Attempts(d)
    BY <1>1 DEF Attempts, CallTypes, callVars
  <2> QED BY <1>1, <1>12, <2>3, <2>4, NothingMoreOwed
<1> QED BY <1>9, <1>12, <1>13

\* A connection the server drops keeps what was already on its way back, or
\* the beginning of it.
LEMMA ConnectionDropped ==
  ASSUME RPCInv, NEW k \in Conns, ServerDrops(k)
  PROVE  RPCInv'
<1> USE DEF RPCInv
<1>1. /\ sPc[k] \notin {"none", "closed"}
      /\ sPc' = [sPc EXCEPT ![k] = "closed"]
      /\ serving' = [serving EXCEPT ![k] = NoCall]
      /\ peerClosed' = peerClosed \cup {k}
      /\ up' = [up EXCEPT ![k] = <<>>]
      /\ UNCHANGED <<clientVars, executions, callVars>>
      /\ UNCHANGED <<conn, localClosed>>
  BY DEF ServerDrops, clientVars
<1>2. PICK n \in 0 .. Len(down[k]) : down' = [down EXCEPT ![k] = SubSeq(@, 1, n)]
  BY DEF ServerDrops
<1>3. PICK q \in Seq(Piece) : q = down[k] /\ n \in 0 .. Len(q)
  BY <1>2 DEF WireTypes
<1>4. /\ sPc'[k] = "closed" /\ up'[k] = <<>> /\ down'[k] = SubSeq(q, 1, n)
      /\ \A j \in Conns \ {k} :
           /\ up'[j] = up[j] /\ down'[j] = down[j] /\ sPc'[j] = sPc[j]
           /\ serving'[j] = serving[j]
           /\ j \in peerClosed' <=> j \in peerClosed
  BY <1>1, <1>2, <1>3 DEF WireTypes
<1>5. WireTypes'
  <2>1. SubSeq(q, 1, n) \in Seq(Piece) /\ <<>> \in Seq(Piece)
    BY <1>3, Prefix
  <2> QED BY <1>1, <1>2, <1>3, <2>1 DEF WireTypes, ServerStages
<1>6. Len(q) <= 2 => \/ down'[k] = <<>>
                     \/ down'[k] = <<q[1]>> /\ Len(q) >= 1
                     \/ down'[k] = q
  BY <1>3, <1>4, PrefixUpToTwo
<1>7. down[k] = <<>> => Lost(k)'
  <2> HAVE down[k] = <<>>
  <2>1. Len(q) = 0
    BY <1>3
  <2>2. down'[k] = <<>>
    BY <1>3, <1>6, <2>1
  <2> QED BY <1>1, <1>4, <2>2 DEF Lost, Empty
<1>8. Clean(k) => Clean(k)'
  BY <1>7 DEF Clean, Lost, Empty
<1>9. ASSUME NEW c \in Calls, Begun(c, k) \/ Sent(c, k) \/ Served(c, k) \/ Lost(k)
      PROVE  Lost(k)'
  BY <1>7, <1>9 DEF Begun, Sent, Served, Lost, Empty
<1>10. ASSUME NEW c \in Calls, Replied(c, k)
       PROVE  Replied(c, k)' \/ Cut(c, k)' \/ Lost(k)'
  <2>1. PICK e \in BOOLEAN : /\ q = <<Length(c), Data(c, e)>>
                             /\ e = FALSE => executions[c] > 0
    BY <1>3, <1>10 DEF Replied
  <2>2. Len(q) = 2 /\ q[1] = Length(c)
    BY <2>1
  <2>3. \/ down'[k] = <<>> \/ down'[k] = <<Length(c)>>
        \/ down'[k] = <<Length(c), Data(c, e)>>
    BY <1>6, <2>1, <2>2
  <2> QED BY <1>1, <1>4, <2>1, <2>3 DEF Replied, Cut, Lost, Empty
<1>11. ASSUME NEW c \in Calls, Cut(c, k)
       PROVE  FALSE
  BY <1>1, <1>11 DEF Cut
<1>12. ASSUME NEW c \in Calls, Halved(c, k)
       PROVE  Halved(c, k)' \/ Lost(k)'
  <2>1. PICK e \in BOOLEAN : /\ q = <<Data(c, e)>>
                             /\ e = FALSE => executions[c] > 0
    BY <1>3, <1>12 DEF Halved
  <2>2. Len(q) = 1 /\ q[1] = Data(c, e)
    BY <2>1
  <2>3. down'[k] = <<>> \/ down'[k] = <<Data(c, e)>>
    BY <1>6, <2>1, <2>2
  <2> QED BY <1>1, <1>4, <2>1, <2>3 DEF Halved, Lost, Empty
<1>13. CallTypes' /\ PipeInv' /\ AlignInv' /\ ReadyInv' /\ LoneInv' /\ ReplyInv'
  <2>1. k \in peerClosed'
    BY <1>1
  <2>2. \A c \in Calls : /\ Begun(c, k) => Begun(c, k)' \/ Lost(k)'
                         /\ Await(c, k) => Await(c, k)'
                         /\ Reads(c, k) => Reads(c, k)'
    BY <1>9, <1>10, <1>11, <1>12 DEF Await, Reads
  <2>3. /\ executions' \in [Calls -> Nat]
        /\ \A d \in Calls : executions'[d] >= executions[d]
    BY <1>1 DEF CallTypes
  <2>4. Lost(k) => Lost(k)'
    BY <1>7 DEF Lost, Empty
  <2>5. sPc[k] # "none" /\ (sPc'[k] = "closed" <=> k \in peerClosed')
    BY <1>1, <1>4, <2>1
  <2> QED BY <1>1, <1>4, <1>5, <1>8, <2>2, <2>3, <2>4, <2>5, ServerMoves
<1>14. OwedInv'
  <2>1. \A d \in Calls, j \in Conns \ {k} : Sent(d, j)' <=> Sent(d, j)
    BY <1>4 DEF Sent
  <2>2. \A d \in Calls : ~Sent(d, k)'
    BY <1>4 DEF Sent
  <2>3. \A d \in Calls : Owed(d)' \subseteq Owed(d)
    BY <1>4, <2>1, <2>2 DEF Owed
  <2>4. \A d \in Calls : Attempts(d)' >= Attempts(d)
    BY <1>1 DEF Attempts, CallTypes, callVars
  <2> QED BY <1>1, <1>13, <2>3, <2>4, NothingMoreOwed
<1> QED BY <1>5, <1>13, <1>14

-----------------------------------------------------------------------------
(* The invariant and the theorem *)

\* It holds at first.
LEMMA InitOrderly ==
  ASSUME RPCAssumption, RPCInit PROVE OrderlyInv
<1>1. WireTypes /\ CallTypes
  <2>1. <<>> \in Seq(Piece)
    OBVIOUS
  <2> QED BY <2>1 DEF RPCInit, WireTypes, CallTypes, ServerStages, CallStages
<1>2. \A k \in Conns : Unused(k) /\ sPc[k] = "none"
  BY RPCAssumption DEF RPCInit, Unused, Empty, RPCAssumption
<1>3. PipeInv
  BY <1>2 DEF PipeInv, RPCInit
<1>4. \A c \in Calls : cPc[c] = "idle" /\ result[c] = "none" /\ i[c] = 0
                       /\ executions[c] = 0
  BY DEF RPCInit
<1>5. AlignInv /\ LoneInv /\ ReplyInv
  BY <1>4 DEF AlignInv, LoneInv, ReplyInv, Live, InUse, Use
<1>6. ReadyInv
  BY DEF ReadyInv, RPCInit, RPCAssumption
<1>7. OwedInv
  <2>1. \A c \in Calls : Owed(c) = {}
    BY <1>2 DEF Owed, Sent
  <2>2. \A c \in Calls : Attempts(c) = 0
    BY <1>4 DEF Attempts
  <2> HIDE DEF Owed, Attempts
  <2> QED BY <1>4, <2>1, <2>2, FS_EmptySet DEF OwedInv
<1> QED BY <1>1, <1>3, <1>5, <1>6, <1>7 DEF OrderlyInv, RPCInv

\* And after every step of orderly use.
LEMMA NextOrderly ==
  ASSUME RPCAssumption, OrderlyInv, [RPCNext]_rpcVars PROVE OrderlyInv'
<1> SUFFICES ASSUME orderly' PROVE RPCInv'
  BY DEF OrderlyInv
<1>1. ASSUME NEW c \in Calls, CallWithMetadata(c) PROVE RPCInv'
  BY <1>1, CallBegins DEF OrderlyInv, CallWithMetadata
<1>2. ASSUME NEW c \in Calls, WaitRetries(c) PROVE RPCInv'
  BY <1>2, RetryWaits DEF OrderlyInv, WaitRetries
<1>3. ASSUME NEW c \in Calls, Connect(c) PROVE RPCInv'
  BY <1>3, Connects DEF OrderlyInv, Connect, RPCAssumption
<1>4. ASSUME NEW c \in Calls, WriteRequest(c) PROVE RPCInv'
  <2>1. orderly
    BY <1>4 DEF WriteRequest, WritePiece
  <2> QED BY <1>4, <2>1, RequestWritten DEF OrderlyInv
<1>5. ASSUME NEW c \in Calls, ReadLength(c) PROVE RPCInv'
  <2>1. orderly
    BY <1>5 DEF ReadLength, ReadFails, ReadsRemains, ReadsPart
  <2> QED BY <1>5, <2>1, LengthRead DEF OrderlyInv
<1>6. ASSUME NEW c \in Calls, ReadBody(c) PROVE RPCInv'
  <2>1. orderly
    BY <1>6 DEF ReadBody, ReadFails, ReadsPart
  <2> QED BY <1>6, <2>1, BodyRead DEF OrderlyInv
<1>7. ASSUME NEW x \in Closers, Close(x) PROVE RPCInv'
  BY <1>7, ClientCloses DEF OrderlyInv, Close
<1>8. ASSUME NEW k \in Conns, ReadRequest(k) PROVE RPCInv'
  BY <1>8, RequestRead DEF OrderlyInv, ReadRequest
<1>9. ASSUME NEW k \in Conns, handleRequest(k) PROVE RPCInv'
  BY <1>9, RequestHandled DEF OrderlyInv, handleRequest
<1>10. ASSUME NEW k \in Conns, WriteResponse(k) PROVE RPCInv'
  BY <1>10, ResponseWritten DEF OrderlyInv, WriteResponse
<1>11. ASSUME NEW k \in Conns, ServerDrops(k) PROVE RPCInv'
  BY <1>11, ConnectionDropped DEF OrderlyInv, ServerDrops
<1>12. ASSUME UNCHANGED <<clientVars, wireVars, sPc, serving, peerClosed,
                         executions, callVars, orderly>>
       PROVE  RPCInv'
  <2>1. RPCInv
    BY <1>12 DEF OrderlyInv
  <2>2. UNCHANGED <<conn, localClosed, up, down, cPc, i, mine, result, reply>>
    BY <1>12 DEF clientVars, wireVars, callVars
  <2>3. PipeInv' /\ \A d \in Calls : Owed(d)' \subseteq Owed(d)
    BY <1>12, <2>1, <2>2, SameWires DEF RPCInv
  <2>4. WireTypes' /\ CallTypes'
    BY <1>12, <2>1, <2>2 DEF RPCInv, WireTypes, CallTypes
  <2>5. LoneInv' /\ ReplyInv'
    BY <1>12, <2>1, <2>2 DEF RPCInv, LoneInv, Live, ReplyInv
  <2>6. Lost(conn) => Lost(conn)'
    BY <1>12, <2>2 DEF Lost, Empty
  <2>7. \A c \in Calls : At(c, conn) => At(c, conn)'
    BY <1>12, <2>2, <2>6, SameWires DEF At
  <2>8. AlignInv' /\ ReadyInv'
    BY <1>12, <2>1, <2>2, <2>7, SameWires
        DEF RPCInv, AlignInv, ReadyInv, InUse
  <2>9. OwedInv'
    <3>1. \A d \in Calls : Attempts(d)' = Attempts(d)
      BY <2>2 DEF Attempts
    <3>2. \A d \in Calls : Attempts(d) \in Nat
      BY <2>1 DEF Attempts, RPCInv, CallTypes
    <3>3. \A d \in Calls : Attempts(d)' >= Attempts(d)
      BY <3>1, <3>2
    <3> QED BY <1>12, <2>1, <2>3, <2>4, <3>3, NothingMoreOwed DEF RPCInv
  <2> QED BY <2>3, <2>4, <2>5, <2>8, <2>9 DEF RPCInv
<1>13. CASE ServerStops
  BY <1>12, <1>13 DEF ServerStops
<1>14. CASE UNCHANGED rpcVars
  BY <1>12, <1>14 DEF rpcVars, serverVars
<1> QED BY <1>1, <1>2, <1>3, <1>4, <1>5, <1>6, <1>7, <1>8, <1>9, <1>10, <1>11,
           <1>13, <1>14 DEF RPCNext

\* A call that succeeded is over, so what ran for it was paid by its attempts.
LEMMA OrderlyOwn == ASSUME OrderlyInv PROVE OwnReply
<1> SUFFICES ASSUME orderly, NEW c \in Calls, result[c] = "ok"
             PROVE  reply[c] = c /\ executions[c] \in 1 .. (i[c] + 1)
  BY DEF OwnReply
<1>1. RPCInv
  BY DEF OrderlyInv
<1>2. cPc[c] = "done" /\ reply[c] = c /\ executions[c] > 0
  BY <1>1 DEF RPCInv, ReplyInv
<1>3. /\ IsFiniteSet(Owed(c))
      /\ executions[c] + Cardinality(Owed(c)) <= Attempts(c)
  BY <1>1 DEF RPCInv, OwedInv
<1>4. Cardinality(Owed(c)) \in Nat
  BY <1>3, FS_CardinalityType
<1>5. executions[c] \in Nat /\ i[c] \in Nat
  BY <1>1 DEF RPCInv, CallTypes
<1>6. Attempts(c) = i[c] + 1
  BY <1>2 DEF Attempts
<1> HIDE DEF Owed, Attempts
<1> QED BY <1>2, <1>3, <1>4, <1>5, <1>6

\* OwnReply: whatever retries, refusals, resets, timeouts and Close did before,
\* a call of a client whose calls follow one another takes its own reply, of a
\* method that ran for it at least once and at most once per attempt, for any
\* number of calls, closers, connections and retries.
THEOREM RepliesMatch == RPCSpec => []OwnReply
<1>1. RPCInit => OrderlyInv
  BY RPCAssumption, InitOrderly
<1>2. OrderlyInv /\ [RPCNext]_rpcVars => OrderlyInv'
  BY RPCAssumption, NextOrderly
<1>3. OrderlyInv => OwnReply
  BY OrderlyOwn
<1> QED BY <1>1, <1>2, <1>3, PTL DEF RPCSpec
=============================================================================
