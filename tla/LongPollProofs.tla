--------------------------- MODULE LongPollProofs ---------------------------
(* Proofs about LongPoll: its types, that no publisher sends on a closed     *)
(* channel, and that the history makes up for what a full channel drops, for *)
(* any number of events, subscriptions and clients.                          *)
EXTENDS LongPoll, TLAPS

USE DEF pubVars, subVars, pollVars

-----------------------------------------------------------------------------
(* Types *)

\* TypeOK in parts, which the provers take one at a time.
SubsOK ==
  /\ subscriptions \subseteq subscribed /\ subscribed \subseteq Subs
  /\ clientSubs \in [Clients -> SUBSET Subs] /\ closed \subseteq Subs
ChannelsOK ==
  /\ channel \in [Subs -> Seq(Events)]
  /\ \A s \in Subs : Len(channel[s]) <= Capacity
HistoryOK == eventHistory \in Seq(Events) /\ loaded \in [Events -> Seq(Events)]
PublishersOK ==
  /\ pPc \in [Events -> {"new", "store", "send", "done"}]
  /\ todo \in [Events -> SUBSET Subs]
  /\ due \in [Subs -> SUBSET Events] /\ orderly \in BOOLEAN
PollsOK ==
  /\ cPc \in [Subs -> {"idle", "found", "wait"}]
  /\ last \in [Subs -> Events \cup {NoEvent}]
  /\ seen \in [Subs -> SUBSET Events]
CrashOK == crashed \in {"no", "send", "nil"}

Types == SubsOK /\ ChannelsOK /\ HistoryOK /\ PublishersOK /\ PollsOK /\ CrashOK

\* The parts are the type invariant.
LEMMA TypeParts == TypeOK <=> Types
BY DEF TypeOK, Types, SubsOK, ChannelsOK, HistoryOK, PublishersOK, PollsOK,
       CrashOK

\* The initial state has its types.
LEMMA InitType == Init => Types
<1>1. Init => SubsOK
  BY DEF Init, SubsOK
<1>2. Init => ChannelsOK
  BY LongPollAssumption DEF Init, ChannelsOK
<1>3. Init => HistoryOK
  BY DEF Init, HistoryOK
<1>4. Init => PublishersOK
  BY DEF Init, PublishersOK
<1>5. Init => PollsOK
  BY DEF Init, PollsOK
<1>6. Init => CrashOK
  BY DEF Init, CrashOK
<1> QED BY <1>1, <1>2, <1>3, <1>4, <1>5, <1>6 DEF Types

\* What a poll finds in the history are events.
LEMMA HistoryEvents ==
  ASSUME HistoryOK, NEW id
  PROVE  /\ getHistoryAfter(id) \subseteq Events
         /\ getHistoryAfter(id) # {} => eventHistory[Len(eventHistory)] \in Events
BY DEF HistoryOK, getHistoryAfter

\* Subscribing and unsubscribing keep the types.
LEMMA SubscriptionType ==
  ASSUME Types,
         \/ \E s \in Subs : Subscribe(s)
         \/ \E gone \in SUBSET Subs : Forget(gone)
  PROVE  Types'
<1>1. ASSUME NEW s \in Subs, Subscribe(s) PROVE Types'
  BY <1>1, LongPollAssumption
  DEF Types, SubsOK, ChannelsOK, HistoryOK, PublishersOK, PollsOK, CrashOK, Subscribe
<1>2. ASSUME NEW gone \in SUBSET Subs, Forget(gone) PROVE Types'
  BY <1>2
  DEF Types, SubsOK, ChannelsOK, HistoryOK, PublishersOK, PollsOK, CrashOK, Forget
<1> QED BY <1>1, <1>2

\* Whatever ends subscriptions forgets and closes some of them, while nobody
\* publishes.
Ends ==
  \/ \E s \in Subs : Unsubscribe(s)
  \/ \E c \in Clients : UnsubscribeClient(c)
  \/ cleanup \/ Close

\* Whatever ends subscriptions takes them out of the maps and closes them
\* under the write lock.
LEMMA EndsForgets ==
  ASSUME Types, Ends
  PROVE  \E gone \in SUBSET Subs :
           /\ MuFree /\ Forget(gone)
           /\ gone \subseteq subscriptions \/ \E c \in Clients : gone = clientSubs[c]
<1> USE DEF Types, SubsOK
<1>1. CASE \E s \in Subs : Unsubscribe(s)
  <2>1. PICK s \in Subs : Unsubscribe(s)
    BY <1>1
  <2> WITNESS {s} \in SUBSET Subs
  <2> QED BY <2>1 DEF Unsubscribe
<1>2. CASE \E c \in Clients : UnsubscribeClient(c)
  <2>1. PICK c \in Clients : UnsubscribeClient(c)
    BY <1>2
  <2> WITNESS clientSubs[c] \in SUBSET Subs
  <2> QED BY <2>1 DEF UnsubscribeClient
<1>3. CASE cleanup
  BY <1>3 DEF cleanup
<1>4. CASE Close
  BY <1>4 DEF Close
<1> QED BY <1>1, <1>2, <1>3, <1>4 DEF Ends

\* Publishing keeps the types.
LEMMA PublishType ==
  ASSUME Types, NEW e \in Events,
         \/ Publish(e) \/ PublishStep(e)
         \/ \E c \in Clients : PublishToClient(e, c)
  PROVE  Types'
<1>1. CASE Publish(e)
  <2>1. SubsOK'
    BY <1>1 DEF Types, SubsOK, Publish
  <2>2. ChannelsOK'
    BY <1>1 DEF Types, ChannelsOK, Publish
  <2>3. HistoryOK'
    BY <1>1 DEF Types, HistoryOK, Publish
  <2>4. PublishersOK'
    BY <1>1 DEF Types, PublishersOK, SubsOK, Publish
  <2>5. PollsOK'
    BY <1>1 DEF Types, PollsOK, Publish
  <2>6. CrashOK'
    BY <1>1 DEF Types, CrashOK, Publish
  <2> QED BY <2>1, <2>2, <2>3, <2>4, <2>5, <2>6 DEF Types
<1>2. ASSUME NEW c \in Clients, PublishToClient(e, c) PROVE Types'
  <2>1. SubsOK'
    BY <1>2 DEF Types, SubsOK, PublishToClient
  <2>2. ChannelsOK'
    BY <1>2 DEF Types, ChannelsOK, PublishToClient
  <2>3. HistoryOK'
    BY <1>2 DEF Types, HistoryOK, PublishToClient
  <2>4. PublishersOK'
    BY <1>2 DEF Types, PublishersOK, SubsOK, PublishToClient
  <2>5. PollsOK'
    BY <1>2 DEF Types, PollsOK, PublishToClient
  <2>6. CrashOK'
    BY <1>2 DEF Types, CrashOK, PublishToClient
  <2> QED BY <2>1, <2>2, <2>3, <2>4, <2>5, <2>6 DEF Types
<1>3. CASE addToHistory(e)
  <2>1. SubsOK'
    BY <1>3 DEF Types, SubsOK, addToHistory
  <2>2. ChannelsOK'
    BY <1>3 DEF Types, ChannelsOK, addToHistory
  <2>3. HistoryOK'
    <3>1. loaded[e] \in Seq(Events)
      BY DEF Types, HistoryOK
    <3>2. Append(loaded[e], e) \in Seq(Events) /\ Append(loaded[e], e) # <<>>
      BY <3>1
    <3>3. Tail(Append(loaded[e], e)) \in Seq(Events)
      BY <3>2
    <3> QED BY <1>3, <3>2, <3>3 DEF Types, HistoryOK, addToHistory
  <2>4. PublishersOK'
    BY <1>3 DEF Types, PublishersOK, addToHistory
  <2>5. PollsOK'
    BY <1>3 DEF Types, PollsOK, addToHistory
  <2>6. CrashOK'
    BY <1>3 DEF Types, CrashOK, addToHistory
  <2> QED BY <2>1, <2>2, <2>3, <2>4, <2>5, <2>6 DEF Types
<1>4. ASSUME NEW s \in Subs, SendTo(e, s) PROVE Types'
  <2>1. SubsOK'
    BY <1>4 DEF Types, SubsOK, SendTo
  <2>2. ChannelsOK'
    <3>1. CASE channel' = channel
      BY <3>1 DEF Types, ChannelsOK
    <3>2. CASE /\ Len(channel[s]) < Capacity
               /\ channel' = [channel EXCEPT ![s] = Append(@, e)]
      <4>1. channel[s] \in Seq(Events)
        BY DEF Types, ChannelsOK
      <4>2. Append(channel[s], e) \in Seq(Events)
            /\ Len(Append(channel[s], e)) = Len(channel[s]) + 1
        BY <4>1
      <4>3. Len(Append(channel[s], e)) <= Capacity
        BY <3>2, <4>1, <4>2, LongPollAssumption
      <4> QED BY <3>2, <4>2, <4>3 DEF Types, ChannelsOK
    <3> QED BY <1>4, <3>1, <3>2 DEF SendTo
  <2>3. HistoryOK'
    BY <1>4 DEF Types, HistoryOK, SendTo
  <2>4. PublishersOK'
    BY <1>4 DEF Types, PublishersOK, SendTo
  <2>5. PollsOK'
    BY <1>4 DEF Types, PollsOK, SendTo
  <2>6. CrashOK'
    BY <1>4 DEF Types, CrashOK, SendTo
  <2> QED BY <2>1, <2>2, <2>3, <2>4, <2>5, <2>6 DEF Types
<1>5. CASE PublishReturns(e)
  <2>1. SubsOK'
    BY <1>5 DEF Types, SubsOK, PublishReturns
  <2>2. ChannelsOK'
    BY <1>5 DEF Types, ChannelsOK, PublishReturns
  <2>3. HistoryOK'
    BY <1>5 DEF Types, HistoryOK, PublishReturns
  <2>4. PublishersOK'
    BY <1>5 DEF Types, PublishersOK, PublishReturns
  <2>5. PollsOK'
    BY <1>5 DEF Types, PollsOK, PublishReturns
  <2>6. CrashOK'
    BY <1>5 DEF Types, CrashOK, PublishReturns
  <2> QED BY <2>1, <2>2, <2>3, <2>4, <2>5, <2>6 DEF Types
<1> QED BY <1>1, <1>2, <1>3, <1>4, <1>5 DEF PublishStep

\* So does polling.
LEMMA PollType ==
  ASSUME Types, NEW s \in Subs, PollStep(s) \/ PollTimesOut(s)
  PROVE  Types'
<1>1. CASE PollLooksUp(s)
  <2>1. SubsOK'
    BY <1>1 DEF Types, SubsOK, PollLooksUp
  <2>2. ChannelsOK'
    BY <1>1 DEF Types, ChannelsOK, PollLooksUp
  <2>3. HistoryOK'
    BY <1>1 DEF Types, HistoryOK, PollLooksUp
  <2>4. PublishersOK'
    BY <1>1 DEF Types, PublishersOK, PollLooksUp
  <2>5. PollsOK'
    BY <1>1 DEF Types, PollsOK, PollLooksUp
  <2>6. CrashOK'
    BY <1>1 DEF Types, CrashOK, PollLooksUp
  <2> QED BY <2>1, <2>2, <2>3, <2>4, <2>5, <2>6 DEF Types
<1>2. CASE PollReadsHistory(s)
  <2>1. SubsOK'
    BY <1>2 DEF Types, SubsOK, PollReadsHistory
  <2>2. ChannelsOK'
    BY <1>2 DEF Types, ChannelsOK, PollReadsHistory
  <2>3. HistoryOK'
    BY <1>2 DEF Types, HistoryOK, PollReadsHistory
  <2>4. PublishersOK'
    BY <1>2 DEF Types, PublishersOK, PollReadsHistory
  <2>5. PollsOK'
    BY <1>2, HistoryEvents DEF Types, PollsOK, HistoryOK, PollReadsHistory
  <2>6. CrashOK'
    BY <1>2 DEF Types, CrashOK, PollReadsHistory
  <2> QED BY <2>1, <2>2, <2>3, <2>4, <2>5, <2>6 DEF Types
<1>3. CASE PollReceives(s)
  <2>1. SubsOK'
    BY <1>3 DEF Types, SubsOK, PollReceives
  <2>2. ChannelsOK'
    BY <1>3, LongPollAssumption DEF Types, ChannelsOK, PollReceives
  <2>3. HistoryOK'
    BY <1>3 DEF Types, HistoryOK, PollReceives
  <2>4. PublishersOK'
    BY <1>3 DEF Types, PublishersOK, PollReceives
  <2>5. PollsOK'
    BY <1>3 DEF Types, PollsOK, ChannelsOK, PollReceives
  <2>6. CrashOK'
    BY <1>3 DEF Types, CrashOK, PollReceives
  <2> QED BY <2>1, <2>2, <2>3, <2>4, <2>5, <2>6 DEF Types
<1>4. CASE PollReceivesNil(s)
  <2>1. SubsOK'
    BY <1>4 DEF Types, SubsOK, PollReceivesNil
  <2>2. ChannelsOK'
    BY <1>4 DEF Types, ChannelsOK, PollReceivesNil
  <2>3. HistoryOK'
    BY <1>4 DEF Types, HistoryOK, PollReceivesNil
  <2>4. PublishersOK'
    BY <1>4 DEF Types, PublishersOK, PollReceivesNil
  <2>5. PollsOK'
    BY <1>4 DEF Types, PollsOK, PollReceivesNil
  <2>6. CrashOK'
    BY <1>4 DEF Types, CrashOK, PollReceivesNil
  <2> QED BY <2>1, <2>2, <2>3, <2>4, <2>5, <2>6 DEF Types
<1>5. CASE PollTimesOut(s)
  <2>1. SubsOK'
    BY <1>5 DEF Types, SubsOK, PollTimesOut
  <2>2. ChannelsOK'
    BY <1>5 DEF Types, ChannelsOK, PollTimesOut
  <2>3. HistoryOK'
    BY <1>5 DEF Types, HistoryOK, PollTimesOut
  <2>4. PublishersOK'
    BY <1>5 DEF Types, PublishersOK, PollTimesOut
  <2>5. PollsOK'
    BY <1>5 DEF Types, PollsOK, PollTimesOut
  <2>6. CrashOK'
    BY <1>5 DEF Types, CrashOK, PollTimesOut
  <2> QED BY <2>1, <2>2, <2>3, <2>4, <2>5, <2>6 DEF Types
<1> QED BY <1>1, <1>2, <1>3, <1>4, <1>5 DEF PollStep

\* Every step keeps the types.
LEMMA NextType == Types /\ [Next]_vars => Types'
<1>1. Types /\ UNCHANGED vars => Types'
  BY DEF Types, SubsOK, ChannelsOK, HistoryOK, PublishersOK, PollsOK, CrashOK, vars
<1>2. Types /\ Ends => Types'
  BY EndsForgets, SubscriptionType
<1> QED BY <1>1, <1>2, SubscriptionType, PublishType, PollType DEF Next, Ends

\* Every variable has its type in every reachable state of the manager.
THEOREM TypeCorrect == Spec => []TypeOK
BY InitType, NextType, TypeParts, PTL DEF Spec

-----------------------------------------------------------------------------
(* Closed channels *)

\* A subscription is closed in the critical section that takes it out of both
\* maps, and while nobody publishes: so what a running Publish has yet to visit
\* is open.
OpenInv ==
  /\ subscriptions \cap closed = {} /\ closed \subseteq subscribed
  /\ \A c \in Clients : /\ clientSubs[c] \cap closed = {}
                        /\ clientSubs[c] \subseteq subscribed
TodoInv == \A e \in Publishing : todo[e] \cap closed = {}
ClosedInv == OpenInv /\ TodoInv /\ NeverSendsOnClosed

\* Closing under the write lock, subscribing, publishing and polling each
\* leave open what a publisher may still send on.
LEMMA ForgetClosed ==
  ASSUME Types, ClosedInv, NEW gone \in SUBSET Subs, MuFree, Forget(gone),
         gone \subseteq subscriptions \/ \E c \in Clients : gone = clientSubs[c]
  PROVE  ClosedInv'
<1>1. gone \subseteq subscribed
  BY DEF Types, SubsOK, ClosedInv, OpenInv
<1>2. OpenInv'
  BY <1>1 DEF Types, SubsOK, ClosedInv, OpenInv, Forget
<1>3. TodoInv'
  BY DEF MuFree, TodoInv, Publishing, Forget
<1>4. NeverSendsOnClosed'
  BY DEF ClosedInv, NeverSendsOnClosed, Forget
<1> QED BY <1>2, <1>3, <1>4 DEF ClosedInv

LEMMA SubscribeClosed ==
  ASSUME Types, ClosedInv, NEW s \in Subs, Subscribe(s)
  PROVE  ClosedInv'
<1>1. OpenInv'
  BY DEF Types, SubsOK, ClosedInv, OpenInv, Subscribe
<1>2. TodoInv'
  BY DEF MuFree, TodoInv, Publishing, Subscribe
<1>3. NeverSendsOnClosed'
  BY DEF ClosedInv, NeverSendsOnClosed, Subscribe
<1> QED BY <1>1, <1>2, <1>3 DEF ClosedInv

LEMMA PublishClosed ==
  ASSUME Types, ClosedInv, NEW e \in Events,
         \/ Publish(e) \/ PublishStep(e)
         \/ \E c \in Clients : PublishToClient(e, c)
  PROVE  ClosedInv'
<1> USE DEF Types, PublishersOK, ClosedInv, TodoInv, Publishing, NeverSendsOnClosed
<1>1. OpenInv'
  BY DEF OpenInv, Publish, PublishToClient, PublishStep, addToHistory, SendTo,
         PublishReturns
<1>2. TodoInv' /\ NeverSendsOnClosed'
  <2>1. CASE Publish(e)
    BY <2>1 DEF OpenInv, Publish
  <2>2. CASE \E c \in Clients : PublishToClient(e, c)
    BY <2>2 DEF OpenInv, PublishToClient
  <2>3. CASE addToHistory(e)
    BY <2>3 DEF addToHistory
  <2>4. ASSUME NEW s \in Subs, SendTo(e, s) PROVE TodoInv' /\ NeverSendsOnClosed'
    <3>1. s \notin closed
      BY <2>4 DEF SendTo
    <3> QED BY <2>4, <3>1 DEF SendTo
  <2>5. CASE PublishReturns(e)
    BY <2>5 DEF PublishReturns
  <2> QED BY <2>1, <2>2, <2>3, <2>4, <2>5 DEF PublishStep
<1> QED BY <1>1, <1>2

LEMMA PollClosed ==
  ASSUME ClosedInv, NEW s \in Subs, PollStep(s) \/ PollTimesOut(s)
  PROVE  ClosedInv'
BY DEF ClosedInv, OpenInv, TodoInv, Publishing, NeverSendsOnClosed, PollStep,
       PollLooksUp, PollReadsHistory, PollReceives, PollReceivesNil, PollTimesOut

\* So does every step.
LEMMA ClosedStep ==
  ASSUME Types, ClosedInv, [Next]_vars
  PROVE  ClosedInv'
<1>1. ClosedInv /\ UNCHANGED vars => ClosedInv'
  BY DEF ClosedInv, OpenInv, TodoInv, Publishing, NeverSendsOnClosed, vars
<1>2. Types /\ ClosedInv /\ Ends => ClosedInv'
  BY EndsForgets, ForgetClosed
<1> QED BY <1>1, <1>2, SubscribeClosed, PublishClosed, PollClosed DEF Next, Ends

\* No publisher sends on a closed channel, whatever ends subscriptions.
THEOREM SendsOnOpen == Spec => []NeverSendsOnClosed
<1>1. Init => ClosedInv
  BY DEF Init, ClosedInv, OpenInv, TodoInv, Publishing, NeverSendsOnClosed
<1>2. Types /\ ClosedInv /\ [Next]_vars => ClosedInv'
  BY ClosedStep
<1>3. ClosedInv => NeverSendsOnClosed
  BY DEF ClosedInv
<1> QED BY <1>1, <1>2, <1>3, InitType, NextType, PTL DEF Spec

-----------------------------------------------------------------------------
(* What a full channel drops, the history has *)

\* a stands before b in the history h.
InOrder(h, a, b) ==
  \E k, n \in DOMAIN h : k < n /\ h[k] = a /\ h[n] = b

\* The loop of e's Publish has been at s, or had no business there.
Reached(e, s) == pPc[e] \in {"send", "done"} /\ s \notin todo[e]

\* The client of s was given e, or is sure to find it with its next event.
Covered(e, s) ==
  \/ e \in seen[s] \cup ToSet(channel[s])
  \/ channel[s] # <<>> /\ InOrder(eventHistory, Head(channel[s]), e)

\* While all is orderly.  One event at a time is published; what it loaded
\* is the history still, which then ends in it.
OneAtATime == \A d, e \in Publishing : d = e
StoreInv ==
  \A e \in Events :
    pPc[e] = "store" => loaded[e] = eventHistory /\ subscriptions \subseteq todo[e]
SendInv ==
  \A e \in Events :
    pPc[e] = "send" =>
      eventHistory # <<>> /\ eventHistory[Len(eventHistory)] = e
\* What a channel holds was stored before, by a loop that is past it.
HeldInv ==
  \A s \in Subs : \A x \in ToSet(channel[s]) :
    x \in ToSet(eventHistory) /\ Reached(x, s)
\* An event whose turn has come is covered, or after last_event_id; and
\* while the client waits, having found nothing after it, the former.
CoverInv ==
  \A s \in subscriptions : \A e \in due[s] :
    Reached(e, s) => Covered(e, s) \/ InOrder(eventHistory, last[s], e)
WaitInv ==
  \A s \in subscriptions : \A e \in due[s] :
    Reached(e, s) /\ cPc[s] = "wait" => Covered(e, s)

Order == OneAtATime /\ StoreInv /\ SendInv /\ HeldInv /\ CoverInv /\ WaitInv

\* Whether orderly or not: nothing is due before there is a subscription, and
\* a Publish that returned has been everywhere.
DueInv == \A s \in Subs \ subscribed : due[s] = {}
DoneInv == \A e \in Events : pPc[e] = "done" => todo[e] = {}

OrderInv == DueInv /\ DoneInv /\ (orderly => Order)

\* getHistoryAfter, by order.
LEMMA AfterInOrder ==
  ASSUME NEW id, NEW e
  PROVE  e \in getHistoryAfter(id) <=> InOrder(eventHistory, id, e)
BY DEF getHistoryAfter, InOrder

\* Sequences that grow at the end and shrink at the front.
LEMMA AppendElements ==
  ASSUME NEW S, NEW q \in Seq(S), NEW e \in S
  PROVE  ToSet(Append(q, e)) = ToSet(q) \cup {e}
<1>1. ASSUME NEW x \in ToSet(Append(q, e)) PROVE x \in ToSet(q) \cup {e}
  BY DEF ToSet
<1>2. ASSUME NEW x \in ToSet(q) PROVE x \in ToSet(Append(q, e))
  <2>1. PICK n \in 1 .. Len(q) : q[n] = x
    BY DEF ToSet
  <2>2. n \in 1 .. Len(Append(q, e)) /\ Append(q, e)[n] = x
    BY <2>1
  <2> QED BY <2>2 DEF ToSet
<1>3. e \in ToSet(Append(q, e))
  <2>1. /\ Append(q, e) \in Seq(S)
        /\ Len(q) + 1 \in 1 .. Len(Append(q, e))
        /\ Append(q, e)[Len(q) + 1] = e
    OBVIOUS
  <2> QED BY <2>1 DEF ToSet
<1> QED BY <1>1, <1>2, <1>3

\* The elements of a sequence are its head and those of its tail.
LEMMA HeadAndTail ==
  ASSUME NEW S, NEW q \in Seq(S), q # <<>>
  PROVE  ToSet(q) = {Head(q)} \cup ToSet(Tail(q))
<1>1. /\ Tail(q) \in Seq(S) /\ Len(Tail(q)) = Len(q) - 1 /\ Len(q) \in Nat \ {0}
      /\ \A n \in 1 .. Len(Tail(q)) : Tail(q)[n] = q[n + 1]
  OBVIOUS
<1>2. ASSUME NEW x \in ToSet(q) PROVE x \in {Head(q)} \cup ToSet(Tail(q))
  <2>1. PICK n \in 1 .. Len(q) : q[n] = x
    BY DEF ToSet
  <2>2. CASE n = 1
    BY <2>1, <2>2
  <2>3. CASE n # 1
    <3>1. n - 1 \in 1 .. Len(Tail(q)) /\ Tail(q)[n - 1] = x
      BY <1>1, <2>1, <2>3
    <3>2. n - 1 \in DOMAIN Tail(q)
      BY <1>1, <3>1
    <3>3. x \in ToSet(Tail(q))
      BY <3>1, <3>2 DEF ToSet
    <3> QED BY <3>3
  <2> QED BY <2>2, <2>3
<1>3. ASSUME NEW x \in ToSet(Tail(q)) PROVE x \in ToSet(q)
  <2>1. PICK n \in 1 .. Len(Tail(q)) : Tail(q)[n] = x
    BY <1>1 DEF ToSet
  <2>2. n + 1 \in 1 .. Len(q) /\ q[n + 1] = x
    BY <1>1, <2>1
  <2> QED BY <2>2 DEF ToSet
<1>4. Head(q) \in ToSet(q)
  BY <1>1 DEF ToSet
<1> QED BY <1>2, <1>3, <1>4

\* The order of what is stored does not change when an event is added, and
\* the added event comes after all others.
LEMMA AppendInOrder ==
  ASSUME NEW S, NEW h \in Seq(S), NEW e \in S, NEW a, NEW b
  PROVE  /\ InOrder(h, a, b) => InOrder(Append(h, e), a, b)
         /\ b # e /\ InOrder(Append(h, e), a, b) => InOrder(h, a, b)
<1>1. /\ Append(h, e) \in Seq(S) /\ Len(Append(h, e)) = Len(h) + 1
      /\ Len(h) \in Nat /\ DOMAIN h = 1 .. Len(h)
      /\ DOMAIN Append(h, e) = 1 .. Len(h) + 1
      /\ \A n \in 1 .. Len(h) : Append(h, e)[n] = h[n]
      /\ Append(h, e)[Len(h) + 1] = e
  OBVIOUS
<1>2. InOrder(h, a, b) => InOrder(Append(h, e), a, b)
  <2> SUFFICES ASSUME InOrder(h, a, b) PROVE InOrder(Append(h, e), a, b)
    OBVIOUS
  <2>1. PICK k \in DOMAIN h, n \in DOMAIN h : k < n /\ h[k] = a /\ h[n] = b
    BY DEF InOrder
  <2>2. /\ k \in DOMAIN Append(h, e) /\ n \in DOMAIN Append(h, e)
        /\ Append(h, e)[k] = a /\ Append(h, e)[n] = b
    BY <1>1, <2>1
  <2> QED BY <2>1, <2>2 DEF InOrder
<1>3. ASSUME b # e, InOrder(Append(h, e), a, b) PROVE InOrder(h, a, b)
  <2>1. PICK k \in DOMAIN Append(h, e), n \in DOMAIN Append(h, e) :
          k < n /\ Append(h, e)[k] = a /\ Append(h, e)[n] = b
    BY <1>3 DEF InOrder
  <2>2. n # Len(h) + 1
    BY <1>1, <1>3, <2>1
  <2>3. k \in DOMAIN h /\ n \in DOMAIN h /\ h[k] = a /\ h[n] = b
    BY <1>1, <2>1, <2>2
  <2> QED BY <2>1, <2>3 DEF InOrder
<1> QED BY <1>2, <1>3

\* Everything else comes before the last element.
LEMMA LastInOrder ==
  ASSUME NEW S, NEW h \in Seq(S), h # <<>>, NEW a \in ToSet(h), a # h[Len(h)]
  PROVE  InOrder(h, a, h[Len(h)])
<1>1. PICK k \in 1 .. Len(h) : h[k] = a
  BY DEF ToSet
<1>2. k < Len(h) /\ Len(h) \in DOMAIN h /\ k \in DOMAIN h
  BY <1>1
<1> QED BY <1>1, <1>2 DEF InOrder

\* An event that is reached stays so, and a step that leaves the channels,
\* what was seen, and the history alone covers what was covered.
LEMMA SubscriptionOrder ==
  ASSUME Types, ClosedInv, OrderInv, orderly', NEW gone \in SUBSET Subs,
         \/ \E s \in Subs : Subscribe(s)
         \/ MuFree /\ Forget(gone)
  PROVE  OrderInv'
<1>1. /\ UNCHANGED <<eventHistory, pPc, loaded, todo, due, orderly, cPc, last,
                     seen, channel>>
      /\ Publishing = {} /\ subscribed \subseteq subscribed'
  BY DEF Subscribe, Forget, MuFree
<1>2. DueInv' /\ DoneInv'
  BY <1>1 DEF OrderInv, DueInv, DoneInv
<1>3. orderly /\ Order
  BY <1>1 DEF OrderInv
<1>4. OneAtATime' /\ StoreInv' /\ SendInv'
  BY <1>1, <1>3 DEF Order, OneAtATime, SendInv, StoreInv, Publishing
<1>5. HeldInv'
  BY <1>1, <1>3 DEF Order, HeldInv, Reached
<1>6. \A s \in Subs : s \in subscriptions' => s \in subscriptions \/ due[s] = {}
  <2>1. CASE \E s \in Subs : Subscribe(s)
    BY <2>1 DEF OrderInv, DueInv, Subscribe
  <2>2. CASE Forget(gone)
    BY <2>2 DEF Forget
  <2> QED BY <2>1, <2>2
<1>7. subscriptions' \subseteq Subs
  BY DEF Types, SubsOK, Subscribe, Forget
<1>8. CoverInv' /\ WaitInv'
  BY <1>1, <1>3, <1>6, <1>7
  DEF Order, CoverInv, WaitInv, Reached, Covered
<1> QED BY <1>2, <1>4, <1>5, <1>8 DEF OrderInv, Order

\* Publish loads the history; the event is due, and its turn will come.
LEMMA PublishOrder ==
  ASSUME Types, OrderInv, NEW e \in Events, Publish(e), orderly'
  PROVE  OrderInv'
<1>1. /\ pPc[e] = "new" /\ Publishing = {} /\ orderly
      /\ pPc' = [pPc EXCEPT ![e] = "store"]
      /\ loaded' = [loaded EXCEPT ![e] = eventHistory]
      /\ todo' = [todo EXCEPT ![e] = subscriptions]
      /\ due' = [s \in Subs |-> IF s \in subscriptions THEN due[s] \cup {e} ELSE due[s]]
      /\ UNCHANGED <<eventHistory, subscriptions, subscribed, cPc, last, seen, channel>>
  BY DEF Publish
<1>2. Order
  BY <1>1 DEF OrderInv
<1>3. DueInv' /\ DoneInv'
  BY <1>1 DEF OrderInv, DueInv, DoneInv, Types, SubsOK, PublishersOK
<1>4. \A d \in Events : /\ d # e => pPc'[d] = pPc[d] /\ todo'[d] = todo[d]
                                    /\ loaded'[d] = loaded[d]
                        /\ pPc'[e] = "store" /\ loaded'[e] = eventHistory
                        /\ todo'[e] = subscriptions
  BY <1>1 DEF Types, PublishersOK, HistoryOK
<1>5. \A d \in Events, s \in Subs : Reached(d, s)' <=> Reached(d, s)
  BY <1>1, <1>4 DEF Reached
<1>6. OneAtATime' /\ StoreInv' /\ SendInv'
  BY <1>1, <1>2, <1>4 DEF Order, OneAtATime, StoreInv, SendInv, Publishing
<1>7. HeldInv'
  BY <1>1, <1>2, <1>5 DEF Order, HeldInv, Reached
<1>8. CoverInv' /\ WaitInv'
  BY <1>1, <1>2, <1>5
  DEF Order, CoverInv, WaitInv, Covered, Reached, Types, SubsOK, PublishersOK
<1> QED BY <1>3, <1>6, <1>7, <1>8 DEF OrderInv, Order

\* addToHistory, when the history is long enough.
LEMMA HistoryOrder ==
  ASSUME Types, OrderInv, NEW e \in Events, addToHistory(e), orderly'
  PROVE  OrderInv'
<1>1. /\ pPc[e] = "store" /\ orderly
      /\ pPc' = [pPc EXCEPT ![e] = "send"]
      /\ eventHistory' = Append(loaded[e], e)
      /\ UNCHANGED <<loaded, todo, due, subscriptions, subscribed, cPc, last,
                     seen, channel>>
  BY DEF addToHistory
<1>2. Order
  BY <1>1 DEF OrderInv
<1>3. DueInv' /\ DoneInv'
  BY <1>1 DEF OrderInv, DueInv, DoneInv, Types, PublishersOK
<1>4. /\ eventHistory' = Append(eventHistory, e)
      /\ subscriptions \subseteq todo[e]
      /\ eventHistory \in Seq(Events)
  BY <1>1, <1>2 DEF Order, StoreInv, Types, HistoryOK
<1>5. \A d \in Events : d # e => pPc[d] \notin {"store", "send"} /\ pPc'[d] = pPc[d]
  BY <1>1, <1>2 DEF Order, OneAtATime, Publishing, Types, PublishersOK
<1>6. pPc'[e] = "send"
  BY <1>1 DEF Types, PublishersOK
<1>7. \A d \in Events, s \in Subs :
        /\ Reached(d, s) => Reached(d, s)'
        /\ Reached(d, s)' => Reached(d, s) \/ (d = e /\ s \notin todo[e])
  BY <1>1, <1>5, <1>6 DEF Reached
<1>8. OneAtATime' /\ StoreInv'
  BY <1>5, <1>6 DEF OneAtATime, StoreInv, Publishing
<1>9. SendInv'
  BY <1>4, <1>5 DEF SendInv
<1>10. HeldInv'
  <2>1. ToSet(eventHistory') = ToSet(eventHistory) \cup {e}
    BY <1>4, AppendElements
  <2>2. ASSUME NEW s \in Subs, NEW x \in ToSet(channel[s])
        PROVE  x \in ToSet(eventHistory)' /\ Reached(x, s)'
    <3>1. x \in Events
      BY <2>2 DEF Types, ChannelsOK, ToSet
    <3>2. x \in ToSet(eventHistory) /\ Reached(x, s)
      BY <1>2 DEF Order, HeldInv
    <3> QED BY <2>1, <3>1, <3>2, <1>7
  <2> QED BY <1>1, <2>2 DEF HeldInv
<1>11. \A a, b : InOrder(eventHistory, a, b) => InOrder(eventHistory', a, b)
  BY <1>4, AppendInOrder
<1>12. ASSUME NEW s \in subscriptions, NEW d \in due[s], Reached(d, s)'
       PROVE  /\ Reached(d, s)
              /\ Covered(d, s) => Covered(d, s)'
              /\ InOrder(eventHistory, last[s], d)
                   => InOrder(eventHistory', last'[s], d)
  <2>1. d \in Events /\ s \in Subs
    BY DEF Types, SubsOK, PublishersOK
  <2>2. Reached(d, s)
    BY <2>1, <1>4, <1>7, <1>12
  <2>3. Covered(d, s) => Covered(d, s)'
    BY <1>1, <1>11 DEF Covered
  <2> QED BY <2>2, <2>3, <1>1, <1>11
<1>13. CoverInv' /\ WaitInv'
  BY <1>1, <1>2, <1>12 DEF Order, CoverInv, WaitInv
<1> QED BY <1>3, <1>8, <1>9, <1>10, <1>13 DEF OrderInv, Order

\* SendTo: the event goes into the channel, or the channel is full of
\* events that come before it.
LEMMA SendOrder ==
  ASSUME Types, ClosedInv, OrderInv, NEW e \in Events, NEW s \in Subs,
         SendTo(e, s), orderly'
  PROVE  OrderInv'
<1>1. /\ pPc[e] = "send" /\ s \in todo[e] /\ orderly
      /\ todo' = [todo EXCEPT ![e] = @ \ {s}]
      /\ UNCHANGED <<eventHistory, pPc, loaded, due, subscriptions, subscribed,
                     cPc, last, seen>>
  BY DEF SendTo
<1>2. Order
  BY <1>1 DEF OrderInv
<1>3. s \notin closed
  BY <1>1 DEF ClosedInv, TodoInv, Publishing
<1>4. channel' = IF Len(channel[s]) < Capacity
                 THEN [channel EXCEPT ![s] = Append(@, e)] ELSE channel
  BY <1>3 DEF SendTo
<1>5. /\ todo'[e] = todo[e] \ {s}
      /\ \A d \in Events : d # e => todo'[d] = todo[d]
  BY <1>1 DEF Types, PublishersOK
<1>6. DueInv' /\ DoneInv'
  BY <1>1, <1>5 DEF OrderInv, DueInv, DoneInv
<1>7. OneAtATime' /\ StoreInv' /\ SendInv'
  BY <1>1, <1>2, <1>5 DEF Order, OneAtATime, StoreInv, SendInv, Publishing
<1>8. \A d \in Events, r \in Subs :
        /\ Reached(d, r) => Reached(d, r)'
        /\ Reached(d, r)' => Reached(d, r) \/ (d = e /\ r = s)
        /\ Reached(e, s)' /\ ~Reached(e, s)
  BY <1>1, <1>5 DEF Reached
<1>9. /\ channel[s] \in Seq(Events) /\ eventHistory \in Seq(Events)
      /\ eventHistory # <<>> /\ eventHistory[Len(eventHistory)] = e
  BY <1>1, <1>2 DEF Types, ChannelsOK, HistoryOK, Order, SendInv
<1>10. \A r \in Subs : r # s => channel'[r] = channel[r]
  BY <1>4 DEF Types, ChannelsOK
<1>11. \/ channel'[s] = channel[s] /\ Len(channel[s]) >= Capacity
       \/ channel'[s] = Append(channel[s], e)
  BY <1>4, <1>9, LongPollAssumption DEF Types, ChannelsOK
<1>12. ToSet(Append(channel[s], e)) = ToSet(channel[s]) \cup {e}
  BY <1>9, AppendElements
<1>13. e \in ToSet(eventHistory)
  BY <1>9 DEF ToSet
<1>14. HeldInv'
  <2> SUFFICES ASSUME NEW r \in Subs, NEW x \in ToSet(channel'[r])
               PROVE  x \in ToSet(eventHistory) /\ Reached(x, r)'
    BY <1>1 DEF HeldInv
  <2>1. CASE x \in ToSet(channel[r])
    <3>1. x \in Events
      BY <2>1 DEF Types, ChannelsOK, ToSet
    <3>2. x \in ToSet(eventHistory) /\ Reached(x, r)
      BY <1>2, <2>1 DEF Order, HeldInv
    <3> QED BY <3>1, <3>2, <1>8
  <2>2. CASE x \notin ToSet(channel[r])
    <3>1. r = s /\ x = e
      BY <1>10, <1>11, <1>12, <2>2
    <3> QED BY <3>1, <1>8, <1>13
  <2> QED BY <2>1, <2>2
<1>15. ASSUME NEW r \in Subs, NEW d, Covered(d, r) PROVE Covered(d, r)'
  <2>1. CASE channel'[r] = channel[r]
    BY <1>1, <1>15, <2>1 DEF Covered
  <2>2. CASE r = s /\ channel'[s] = Append(channel[s], e)
    <3>1. channel[s] # <<>> => /\ channel'[s] # <<>>
                               /\ Head(channel'[s]) = Head(channel[s])
      BY <1>9, <2>2
    <3> QED BY <1>1, <1>12, <1>15, <2>2, <3>1 DEF Covered
  <2> QED BY <1>10, <1>11, <2>1, <2>2
<1>16. Covered(e, s)'
  <2>1. CASE channel'[s] = Append(channel[s], e)
    BY <1>12, <2>1 DEF Covered
  <2>2. CASE channel'[s] = channel[s] /\ Len(channel[s]) >= Capacity
    <3>1. channel[s] # <<>>
      BY <2>2, <1>9, LongPollAssumption
    <3>2. Head(channel[s]) \in ToSet(channel[s])
      BY <3>1, <1>9, HeadAndTail
    <3>3. /\ Head(channel[s]) \in ToSet(eventHistory)
          /\ Reached(Head(channel[s]), s)
      BY <3>2, <1>2 DEF Order, HeldInv
    <3>4. Head(channel[s]) # e
      BY <3>3, <1>8
    <3>5. InOrder(eventHistory, Head(channel[s]), e)
      BY <3>3, <3>4, <1>9, LastInOrder
    <3> QED BY <2>2, <3>1, <3>5, <1>1 DEF Covered
  <2> QED BY <1>11, <2>1, <2>2
<1>17. ASSUME NEW r \in subscriptions, NEW d \in due[r], Reached(d, r)'
       PROVE  Reached(d, r) \/ Covered(d, r)'
  <2>1. d \in Events /\ r \in Subs
    BY DEF Types, SubsOK, PublishersOK
  <2> QED BY <2>1, <1>8, <1>16, <1>17
<1>18. \A r \in subscriptions : r \in Subs
  BY DEF Types, SubsOK
<1>19. CoverInv'
  BY <1>1, <1>2, <1>15, <1>17, <1>18 DEF Order, CoverInv
<1>20. WaitInv'
  BY <1>1, <1>2, <1>15, <1>17, <1>18 DEF Order, WaitInv
<1> QED BY <1>6, <1>7, <1>14, <1>19, <1>20 DEF OrderInv, Order

\* PublishReturns: the loop has been everywhere.
LEMMA ReturnOrder ==
  ASSUME Types, OrderInv, NEW e \in Events, PublishReturns(e), orderly'
  PROVE  OrderInv'
<1>1. /\ pPc[e] = "send" /\ todo[e] = {} /\ orderly
      /\ pPc' = [pPc EXCEPT ![e] = "done"]
      /\ UNCHANGED <<eventHistory, loaded, todo, due, subscriptions, subscribed,
                     cPc, last, seen, channel>>
  BY DEF PublishReturns
<1>2. Order
  BY <1>1 DEF OrderInv
<1>3. DueInv' /\ DoneInv'
  BY <1>1 DEF OrderInv, DueInv, DoneInv, Types, PublishersOK
<1>4. \A d, r : d \in Events => (Reached(d, r)' <=> Reached(d, r))
  BY <1>1 DEF Reached, Types, PublishersOK
<1>5. OneAtATime' /\ StoreInv' /\ SendInv'
  BY <1>1, <1>2
  DEF Order, OneAtATime, StoreInv, SendInv, Publishing, Types, PublishersOK
<1>6. HeldInv'
  BY <1>1, <1>2, <1>4 DEF Order, HeldInv, Types, ChannelsOK, ToSet
<1>7. CoverInv' /\ WaitInv'
  BY <1>1, <1>2, <1>4
  DEF Order, CoverInv, WaitInv, Covered, Types, SubsOK, PublishersOK
<1> QED BY <1>3, <1>5, <1>6, <1>7 DEF OrderInv, Order

\* What polling leaves alone.
PollFrame ==
  UNCHANGED <<eventHistory, pPc, loaded, todo, due, orderly, subscriptions,
              subscribed>>

\* A step of a poll leaves what publishers rely on.
LEMMA PollFrameOrder ==
  ASSUME OrderInv, PollFrame
  PROVE  /\ DueInv' /\ DoneInv'
         /\ Order => OneAtATime' /\ StoreInv' /\ SendInv'
         /\ \A d, r : Reached(d, r)' <=> Reached(d, r)
BY DEF PollFrame, OrderInv, DueInv, DoneInv, Order, OneAtATime, StoreInv,
       SendInv, Publishing, Reached

\* A poll that finds something after its last_event_id is given all of it;
\* one that finds nothing waits for what it is sure of.
LEMMA ReadHistoryOrder ==
  ASSUME Types, OrderInv, NEW s \in Subs, PollReadsHistory(s), orderly'
  PROVE  OrderInv'
<1> DEFINE missed == getHistoryAfter(last[s])
<1>1. /\ PollFrame /\ orderly /\ channel' = channel
      /\ cPc' = [cPc EXCEPT ![s] = IF missed = {} THEN "wait" ELSE "idle"]
      /\ seen' = [seen EXCEPT ![s] = @ \cup missed]
      /\ last' = [last EXCEPT ![s] =
                    IF missed = {} THEN @ ELSE eventHistory[Len(eventHistory)]]
  BY DEF PollReadsHistory, PollFrame
<1>2. Order
  BY <1>1 DEF OrderInv
<1>3. \A d : d \in missed <=> InOrder(eventHistory, last[s], d)
  BY AfterInOrder
<1> HIDE DEF missed
<1>4. /\ \A r \in Subs : r # s => /\ seen'[r] = seen[r] /\ last'[r] = last[r]
                                  /\ cPc'[r] = cPc[r]
      /\ seen'[s] = seen[s] \cup missed
      /\ missed = {} => last'[s] = last[s]
      /\ cPc'[s] = "wait" => missed = {}
  BY <1>1 DEF Types, PollsOK
<1>5. HeldInv'
  BY <1>1, <1>2, PollFrameOrder DEF Order, HeldInv, PollFrame
<1>6. ASSUME NEW r \in Subs, NEW d
      PROVE  /\ Covered(d, r) => Covered(d, r)'
             /\ InOrder(eventHistory, last[r], d)
                  => InOrder(eventHistory, last'[r], d) \/ Covered(d, r)'
             /\ cPc'[s] = "wait" => ~InOrder(eventHistory, last[s], d)
  <2>1. Covered(d, r) => Covered(d, r)'
    BY <1>1, <1>4 DEF Covered, PollFrame
  <2>2. d \in missed => Covered(d, s)'
    BY <1>4 DEF Covered
  <2> QED BY <2>1, <2>2, <1>3, <1>4
<1>7. \A r \in subscriptions : r \in Subs
  BY DEF Types, SubsOK
<1>8. CoverInv'
  BY <1>1, <1>2, <1>6, <1>7, PollFrameOrder DEF Order, CoverInv, PollFrame
<1>9. WaitInv'
  <2> SUFFICES ASSUME NEW r \in subscriptions, NEW d \in due[r], Reached(d, r),
                      cPc'[r] = "wait"
               PROVE  Covered(d, r)'
    BY <1>1, PollFrameOrder DEF WaitInv, PollFrame
  <2>1. CASE r = s
    BY <2>1, <1>2, <1>6 DEF Order, CoverInv
  <2>2. CASE r # s
    BY <2>2, <1>2, <1>4, <1>6, <1>7 DEF Order, WaitInv
  <2> QED BY <2>1, <2>2
<1> QED BY <1>1, <1>2, <1>5, <1>8, <1>9, PollFrameOrder DEF OrderInv, Order

\* Receiving takes the head: what was covered by it is now after
\* last_event_id.
LEMMA ReceiveOrder ==
  ASSUME Types, OrderInv, NEW s \in Subs, PollReceives(s), orderly'
  PROVE  OrderInv'
<1>1. /\ PollFrame /\ orderly /\ cPc[s] = "wait" /\ channel[s] # <<>>
      /\ channel' = [channel EXCEPT ![s] = Tail(@)]
      /\ last' = [last EXCEPT ![s] = Head(channel[s])]
      /\ seen' = [seen EXCEPT ![s] = @ \cup {Head(channel[s])}]
      /\ cPc' = [cPc EXCEPT ![s] = "idle"]
  BY DEF PollReceives, PollFrame
<1>2. Order
  BY <1>1 DEF OrderInv
<1>3. /\ \A r \in Subs : r # s => /\ seen'[r] = seen[r] /\ last'[r] = last[r]
                                  /\ cPc'[r] = cPc[r]
                                  /\ channel'[r] = channel[r]
      /\ seen'[s] = seen[s] \cup {Head(channel[s])}
      /\ last'[s] = Head(channel[s]) /\ cPc'[s] = "idle"
      /\ channel'[s] = Tail(channel[s])
  BY <1>1 DEF Types, PollsOK, ChannelsOK
<1>4. ToSet(channel[s]) = {Head(channel[s])} \cup ToSet(channel'[s])
  BY <1>1, <1>3, HeadAndTail DEF Types, ChannelsOK
<1>5. HeldInv'
  BY <1>1, <1>2, <1>3, <1>4, PollFrameOrder DEF Order, HeldInv, PollFrame
<1>6. \A d : Covered(d, s)
               => Covered(d, s)' \/ InOrder(eventHistory, last'[s], d)
  BY <1>3, <1>4 DEF Covered
<1>7. \A r \in Subs : \A d : r # s => (Covered(d, r) => Covered(d, r)')
  BY <1>1, <1>3 DEF Covered, PollFrame
<1>8. \A r \in subscriptions : r \in Subs
  BY DEF Types, SubsOK
<1>9. CoverInv'
  <2> SUFFICES ASSUME NEW r \in subscriptions, NEW d \in due[r], Reached(d, r)
               PROVE  Covered(d, r)' \/ InOrder(eventHistory, last'[r], d)
    BY <1>1, PollFrameOrder DEF CoverInv, PollFrame
  <2>1. CASE r = s
    BY <2>1, <1>1, <1>2, <1>6 DEF Order, WaitInv
  <2>2. CASE r # s
    BY <2>2, <1>2, <1>3, <1>7, <1>8 DEF Order, CoverInv
  <2> QED BY <2>1, <2>2
<1>10. WaitInv'
  BY <1>1, <1>2, <1>3, <1>7, <1>8, PollFrameOrder DEF Order, WaitInv, PollFrame
<1> QED BY <1>1, <1>2, <1>5, <1>9, <1>10, PollFrameOrder DEF OrderInv, Order

\* The steps of a poll that hand out nothing.
LEMMA IdlePollOrder ==
  ASSUME Types, OrderInv, NEW s \in Subs, orderly',
         PollLooksUp(s) \/ PollReceivesNil(s) \/ PollTimesOut(s)
  PROVE  OrderInv'
<1>1. /\ PollFrame /\ orderly /\ channel' = channel
      /\ last' = last /\ seen' = seen
      /\ \A r \in Subs : cPc'[r] = "wait" => cPc[r] = "wait"
  BY DEF PollLooksUp, PollReceivesNil, PollTimesOut, PollFrame, Types, PollsOK
<1>2. Order
  BY <1>1 DEF OrderInv
<1>3. HeldInv'
  BY <1>1, <1>2, PollFrameOrder DEF Order, HeldInv, PollFrame
<1>4. \A d, r : Covered(d, r)' <=> Covered(d, r)
  BY <1>1 DEF Covered, PollFrame
<1>5. \A r \in subscriptions : r \in Subs
  BY DEF Types, SubsOK
<1>6. CoverInv' /\ WaitInv'
  BY <1>1, <1>2, <1>4, <1>5, PollFrameOrder
  DEF Order, CoverInv, WaitInv, PollFrame
<1> QED BY <1>1, <1>2, <1>3, <1>6, PollFrameOrder DEF OrderInv, Order

\* A stuttering step keeps the invariant.
LEMMA StutterOrder ==
  ASSUME OrderInv, UNCHANGED vars
  PROVE  OrderInv'
BY DEF vars, OrderInv, DueInv, DoneInv, Order, OneAtATime, StoreInv, SendInv,
       HeldInv, CoverInv, WaitInv, Publishing, Reached, Covered

\* What holds of due and todo in any order.
LEMMA DueDoneStep ==
  ASSUME Types, ClosedInv, DueInv, DoneInv, [Next]_vars
  PROVE  DueInv' /\ DoneInv'
<1> USE DEF DueInv, DoneInv, Types, SubsOK, PublishersOK
<1>1. ASSUME NEW e \in Events, Publish(e) PROVE DueInv' /\ DoneInv'
  BY <1>1 DEF Publish
<1>2. ASSUME NEW e \in Events, NEW c \in Clients, PublishToClient(e, c)
      PROVE  DueInv' /\ DoneInv'
  <2>1. clientSubs[c] \subseteq subscribed
    BY DEF ClosedInv, OpenInv
  <2> QED BY <1>2, <2>1 DEF PublishToClient
<1>3. ASSUME NEW e \in Events, PublishStep(e) PROVE DueInv' /\ DoneInv'
  <2>1. CASE addToHistory(e)
    BY <2>1 DEF addToHistory
  <2>2. CASE PublishReturns(e)
    BY <2>2 DEF PublishReturns
  <2>3. CASE \E s \in Subs : SendTo(e, s)
    BY <2>3 DEF SendTo
  <2> QED BY <1>3, <2>1, <2>2, <2>3 DEF PublishStep
<1>4. ASSUME NEW s \in Subs, Subscribe(s) PROVE DueInv' /\ DoneInv'
  BY <1>4 DEF Subscribe
<1>5. CASE Ends
  BY <1>5, EndsForgets DEF Forget
<1>6. ASSUME NEW s \in Subs, PollStep(s) \/ PollTimesOut(s)
      PROVE  DueInv' /\ DoneInv'
  BY <1>6 DEF PollStep, PollLooksUp, PollReadsHistory, PollReceives,
       PollReceivesNil, PollTimesOut
<1>7. CASE UNCHANGED vars
  BY <1>7 DEF vars
<1> QED BY <1>1, <1>2, <1>3, <1>4, <1>5, <1>6, <1>7 DEF Next, Ends

\* So does every other.
LEMMA OrderStep ==
  ASSUME Types, ClosedInv, OrderInv, [Next]_vars
  PROVE  OrderInv'
<1>1. CASE ~orderly'
  BY <1>1, DueDoneStep DEF OrderInv
<1>2. CASE orderly'
  <2>1. ASSUME NEW e \in Events, Publish(e) \/ PublishStep(e) PROVE OrderInv'
    BY <1>2, <2>1, PublishOrder, HistoryOrder, SendOrder, ReturnOrder
    DEF PublishStep
  <2>2. ASSUME NEW e \in Events, NEW c \in Clients, PublishToClient(e, c)
        PROVE  OrderInv'
    BY <1>2, <2>2 DEF PublishToClient
  <2>3. ASSUME NEW s \in Subs, Subscribe(s) PROVE OrderInv'
    BY <1>2, <2>3, SubscriptionOrder
  <2>4. CASE Ends
    BY <1>2, <2>4, EndsForgets, SubscriptionOrder
  <2>5. ASSUME NEW s \in Subs, PollStep(s) \/ PollTimesOut(s) PROVE OrderInv'
    BY <1>2, <2>5, ReadHistoryOrder, ReceiveOrder, IdlePollOrder DEF PollStep
  <2>6. CASE UNCHANGED vars
    BY <2>6, StutterOrder
  <2> QED BY <2>1, <2>2, <2>3, <2>4, <2>5, <2>6 DEF Next, Ends
<1> QED BY <1>1, <1>2

\* As long as publishes follow one another, all go to the history, and it
\* forgets nothing, no event published since a subscription was made is lost
\* to its client, whatever the full channel dropped and however polls time
\* out (manager.go:306-341, 371-411).
THEOREM HistoryCovers == Spec => []HistoryCoversOverflow
<1>1. Init => ClosedInv
  BY DEF Init, ClosedInv, OpenInv, TodoInv, Publishing, NeverSendsOnClosed
<1>2. Init => OrderInv
  BY DEF Init, OrderInv, DueInv, DoneInv, Order, OneAtATime, StoreInv, SendInv,
         HeldInv, CoverInv, WaitInv, Publishing, ToSet
<1>3. Types /\ ClosedInv /\ OrderInv /\ [Next]_vars
        => ClosedInv' /\ OrderInv'
  BY ClosedStep, OrderStep
<1>4. Types /\ OrderInv => HistoryCoversOverflow
  <2> SUFFICES ASSUME Types, OrderInv, orderly, NEW s \in subscriptions,
                      NEW e \in due[s], pPc[e] = "done"
               PROVE  \/ e \in seen[s] \cup ToSet(channel[s])
                                \cup getHistoryAfter(last[s])
                      \/ /\ channel[s] # <<>>
                         /\ e \in getHistoryAfter(Head(channel[s]))
    BY DEF HistoryCoversOverflow
  <2>1. e \in Events /\ s \in Subs
    BY DEF Types, SubsOK, PublishersOK
  <2>2. Reached(e, s)
    BY <2>1 DEF OrderInv, DoneInv, Reached
  <2>3. Covered(e, s) \/ InOrder(eventHistory, last[s], e)
    BY <2>2 DEF OrderInv, Order, CoverInv
  <2> QED BY <2>3, AfterInOrder DEF Covered
<1> QED BY <1>1, <1>2, <1>3, <1>4, InitType, NextType, PTL DEF Spec
=============================================================================
