------------------------------ MODULE LongPoll ------------------------------
(***************************************************************************)
(* The long-poll manager of pkg/longpoll: publishers, one polling client   *)
(* per subscription (handleEvents passes its last_event_id on to GetEvents *)
(* and answers with a new one), and the calls and the cleanup goroutine    *)
(* that end subscriptions.                                                 *)
(*                                                                         *)
(* Publishers hold m.mutex as readers: they exclude whoever subscribes or  *)
(* unsubscribes, not each other, and the append to m.eventHistory is a     *)
(* load and a store.  Every event matches every subscription; how long a   *)
(* subscription was inactive is left open.                                 *)
(***************************************************************************)
EXTENDS Integers, Sequences, FiniteSets, SequencesExt

CONSTANTS
  Events,        \* what is published, each once, with an ID of its own
  Subs,          \* what Subscribe returns, each once
  Clients, ClientOf,
  Capacity,      \* of Subscription.Channel; 100 in NewSubscription
  MaxHistory,
  NoEvent

ASSUME LongPollAssumption ==
  /\ ClientOf \in [Subs -> Clients]
  /\ Capacity \in Nat \ {0} /\ MaxHistory \in Nat
  /\ NoEvent \notin Events

VARIABLES
  subscriptions,  \* the keys of m.subscriptions
  clientSubs,     \* m.clientSubs: the subscriptions of each client
  subscribed,     \* made so far
  channel,        \* what each Subscription.Channel holds
  closed,         \* subscriptions whose channel and context are closed
  eventHistory,
  pPc,            \* the Publish of each event
  loaded,         \* the history it loaded
  todo,           \* the subscriptions its loop has not reached
  cPc, last,      \* each client: where, and its last_event_id
  crashed,        \* "send": on a closed channel; "nil": event.ID of nil
  (* what happened so far *)
  due,            \* events published since a subscription was made
  seen,           \* events its client was given
  orderly         \* publishes never overlapped, all went to the history, and
                  \* the history forgot nothing

pubVars == <<eventHistory, pPc, loaded, todo, due, orderly>>
subVars == <<subscriptions, clientSubs, subscribed, closed>>
pollVars == <<cPc, last, seen>>
vars == <<pubVars, subVars, pollVars, channel, crashed>>

Init ==
  /\ subscriptions = {} /\ clientSubs = [c \in Clients |-> {}] /\ subscribed = {}
  /\ channel = [s \in Subs |-> <<>>] /\ closed = {}
  /\ eventHistory = <<>>
  /\ pPc = [e \in Events |-> "new"]
  /\ loaded = [e \in Events |-> <<>>] /\ todo = [e \in Events |-> {}]
  /\ cPc = [s \in Subs |-> "idle"] /\ last = [s \in Subs |-> NoEvent]
  /\ crashed = "no"
  /\ due = [s \in Subs |-> {}] /\ seen = [s \in Subs |-> {}]
  /\ orderly = TRUE

Publishing == {e \in Events : pPc[e] \in {"store", "send"}}

\* m.mutex can be locked for writing.
MuFree == crashed = "no" /\ Publishing = {}

-----------------------------------------------------------------------------
(* Subscriptions *)

Subscribe(s) ==
  /\ MuFree /\ s \notin subscribed
  /\ subscribed' = subscribed \cup {s}
  /\ subscriptions' = subscriptions \cup {s}
  /\ clientSubs' = [clientSubs EXCEPT ![ClientOf[s]] = @ \cup {s}]
  /\ UNCHANGED <<closed, pubVars, pollVars, channel, crashed>>

\* Take the subscriptions out of the maps and close them.
Forget(gone) ==
  /\ subscriptions' = subscriptions \ gone
  /\ clientSubs' = [c \in Clients |-> clientSubs[c] \ gone]
  /\ closed' = closed \cup gone
  /\ UNCHANGED <<subscribed, pubVars, pollVars, channel, crashed>>

Unsubscribe(s) == MuFree /\ s \in subscriptions /\ Forget({s})

UnsubscribeClientKeepsEntry(c) ==
  /\ MuFree
  /\ clientSubs[c] # {}
  /\ clientSubs' = [clientSubs EXCEPT ![c] = {}]
  /\ closed' = closed \cup clientSubs[c]
  /\ UNCHANGED <<subscriptions, subscribed, pubVars, pollVars, channel, crashed>>
UnsubscribeClient(c) == MuFree /\ clientSubs[c] # {} /\ Forget(clientSubs[c])

\* LastActive is refreshed by a delivery, never by a poll.
cleanup == \E expired \in SUBSET subscriptions \ {{}} : MuFree /\ Forget(expired)

Close == MuFree /\ subscriptions # {} /\ Forget(subscriptions)

-----------------------------------------------------------------------------
(* Publish and PublishToClient *)

Publish(e) ==
  /\ crashed = "no" /\ pPc[e] = "new"
  /\ pPc' = [pPc EXCEPT ![e] = "store"]
  /\ loaded' = [loaded EXCEPT ![e] = eventHistory]
  /\ todo' = [todo EXCEPT ![e] = subscriptions]
  /\ due' = [s \in Subs |-> IF s \in subscriptions THEN due[s] \cup {e} ELSE due[s]]
  /\ orderly' = (orderly /\ Publishing = {})
  /\ UNCHANGED <<eventHistory, subVars, pollVars, channel, crashed>>

\* A targeted event does not enter the history.
PublishToClient(e, c) ==
  /\ crashed = "no" /\ pPc[e] = "new"
  /\ pPc' = [pPc EXCEPT ![e] = "send"]
  /\ todo' = [todo EXCEPT ![e] = clientSubs[c]]
  /\ due' = [s \in Subs |-> IF s \in clientSubs[c] THEN due[s] \cup {e} ELSE due[s]]
  /\ orderly' = FALSE
  /\ UNCHANGED <<eventHistory, loaded, subVars, pollVars, channel, crashed>>

addToHistory(e) ==
  LET longer == Append(loaded[e], e)
      full == Len(longer) > MaxHistory IN
    /\ crashed = "no" /\ pPc[e] = "store"
    /\ eventHistory' = IF full THEN Tail(longer) ELSE longer
    /\ orderly' = (orderly /\ ~full)
    /\ pPc' = [pPc EXCEPT ![e] = "send"]
    /\ UNCHANGED <<loaded, todo, due, subVars, pollVars, channel, crashed>>

\* The select of the loop: a full channel takes the default.
SendTo(e, s) ==
  /\ crashed = "no" /\ pPc[e] = "send" /\ s \in todo[e]
  /\ todo' = [todo EXCEPT ![e] = @ \ {s}]
  /\ \/ s \in closed /\ crashed' = "send" /\ UNCHANGED channel
     \/ s \in closed /\ UNCHANGED <<crashed, channel>>   \* sub.Context.Done()
     \/ /\ s \notin closed
        /\ channel' = IF Len(channel[s]) < Capacity
                      THEN [channel EXCEPT ![s] = Append(@, e)] ELSE channel
        /\ UNCHANGED crashed
  /\ UNCHANGED <<eventHistory, pPc, loaded, due, orderly, subVars, pollVars>>

PublishReturns(e) ==
  /\ crashed = "no" /\ pPc[e] = "send" /\ todo[e] = {}
  /\ pPc' = [pPc EXCEPT ![e] = "done"]
  /\ UNCHANGED <<eventHistory, loaded, todo, due, orderly, subVars, pollVars,
                 channel, crashed>>

-----------------------------------------------------------------------------
(* GetEvents, called again and again by a client that keeps last_event_id *)

getHistoryAfterSkipsOne(id) ==
  {eventHistory[n] : n \in {n \in DOMAIN eventHistory :
     \E k \in DOMAIN eventHistory : k + 1 < n /\ eventHistory[k] = id}}
getHistoryFrom(id) ==
  {eventHistory[n] : n \in {n \in DOMAIN eventHistory :
     \E k \in DOMAIN eventHistory : k <= n /\ eventHistory[k] = id}}
\* The events after the first one with this ID; none when it is not there.
getHistoryAfter(id) ==
  {eventHistory[n] : n \in {n \in DOMAIN eventHistory :
     \E k \in DOMAIN eventHistory : k < n /\ eventHistory[k] = id}}

PollLooksUp(s) ==
  /\ crashed = "no" /\ cPc[s] = "idle"
  /\ s \in subscriptions
  /\ cPc' = [cPc EXCEPT ![s] = "found"]
  /\ UNCHANGED <<last, seen, pubVars, subVars, channel, crashed>>

\* An answer from the history leaves the channel as it is.
PollReadsHistory(s) ==
  LET missed == getHistoryAfter(last[s]) IN
    /\ crashed = "no" /\ cPc[s] = "found"
    /\ cPc' = [cPc EXCEPT ![s] = IF missed = {} THEN "wait" ELSE "idle"]
    /\ last' = [last EXCEPT ![s] =
                  IF missed = {} THEN @ ELSE eventHistory[Len(eventHistory)]]
    /\ seen' = [seen EXCEPT ![s] = @ \cup missed]
    /\ UNCHANGED <<pubVars, subVars, channel, crashed>>

PollReceives(s) ==
  /\ crashed = "no" /\ cPc[s] = "wait"
  /\ channel[s] # <<>>
  /\ channel' = [channel EXCEPT ![s] = Tail(@)]
  /\ last' = [last EXCEPT ![s] = Head(channel[s])]
  /\ seen' = [seen EXCEPT ![s] = @ \cup {Head(channel[s])}]
  /\ cPc' = [cPc EXCEPT ![s] = "idle"]
  /\ UNCHANGED <<pubVars, subVars, crashed>>

\* A closed channel yields nil, whose ID is read.
PollReceivesNil(s) ==
  /\ crashed = "no" /\ cPc[s] = "wait"
  /\ channel[s] = <<>> /\ s \in closed
  /\ crashed' = "nil"
  /\ UNCHANGED <<pubVars, subVars, pollVars, channel>>

\* The timeout, or sub.Cancel.
PollTimesOut(s) ==
  /\ crashed = "no" /\ cPc[s] = "wait"
  /\ cPc' = [cPc EXCEPT ![s] = "idle"]
  /\ UNCHANGED <<last, seen, pubVars, subVars, channel, crashed>>

-----------------------------------------------------------------------------
PublishStep(e) ==
  addToHistory(e) \/ PublishReturns(e) \/ \E s \in Subs : SendTo(e, s)
PollStep(s) ==
  PollLooksUp(s) \/ PollReadsHistory(s) \/ PollReceives(s) \/ PollReceivesNil(s)

Next ==
  \/ \E e \in Events : Publish(e) \/ PublishStep(e)
  \/ \E e \in Events, c \in Clients : PublishToClient(e, c)
  \/ \E s \in Subs : Subscribe(s) \/ Unsubscribe(s) \/ PollStep(s) \/ PollTimesOut(s)
  \/ \E c \in Clients : UnsubscribeClient(c)
  \/ cleanup \/ Close

Spec == Init /\ [][Next]_vars

\* Publishers go on, clients poll again and again, and a poll that finds an
\* event each time it waits does not lose every race with its own timeout.
\* The events are the constant Events: where that is finite, publishing ends,
\* so what holds under FairSpec is worded for when it has ended.
Fairness ==
  /\ \A e \in Events : WF_vars(PublishStep(e))
  /\ \A s \in Subs : WF_vars(PollLooksUp(s) \/ PollReadsHistory(s))
                     /\ SF_vars(PollReceives(s) \/ PollReceivesNil(s))

FairSpec == Spec /\ Fairness

-----------------------------------------------------------------------------
(* Properties *)

\* Every variable has its type (Subscription and LongPollManager,
\* manager.go:62-136).
TypeOK ==
  /\ subscriptions \subseteq subscribed /\ subscribed \subseteq Subs
  /\ clientSubs \in [Clients -> SUBSET Subs] /\ closed \subseteq Subs
  /\ channel \in [Subs -> Seq(Events)] /\ eventHistory \in Seq(Events)
  /\ \A s \in Subs : Len(channel[s]) <= Capacity
  /\ pPc \in [Events -> {"new", "store", "send", "done"}]
  /\ loaded \in [Events -> Seq(Events)] /\ todo \in [Events -> SUBSET Subs]
  /\ cPc \in [Subs -> {"idle", "found", "wait"}]
  /\ last \in [Subs -> Events \cup {NoEvent}]
  /\ crashed \in {"no", "send", "nil"}
  /\ due \in [Subs -> SUBSET Events] /\ seen \in [Subs -> SUBSET Events]
  /\ orderly \in BOOLEAN

\* No publisher sends on a closed channel, whoever ends subscriptions while
\* it runs: closing and leaving both maps is one critical section.
NeverSendsOnClosed == crashed # "send"

\* What a full channel drops the history makes up for: an event published
\* since the subscription was made was given to its client, or is in the
\* channel, or is in the history after the ID the client will pass next.
\* Three things void this: publishes that overlap (their order, or one of
\* them, is lost), targeted events, and a history that is too short.
HistoryCoversOverflow ==
  orderly =>
    \A s \in subscriptions : \A e \in due[s] :
      pPc[e] = "done" =>
        \/ e \in seen[s] \cup ToSet(channel[s]) \cup getHistoryAfter(last[s])
        \/ channel[s] # <<>> /\ e \in getHistoryAfter(Head(channel[s]))

\* Once publishing has stopped, the client that keeps polling takes everything
\* its channel holds, unless the subscription ends: every answer from the
\* history comes first, and an event taken from the channel may set
\* last_event_id back to before events that were given already, but it comes
\* to an end.  While publishing goes on each poll may be answered from the
\* history (manager.go:381-386), and the channel, where alone a targeted event
\* is, is never read.
ChannelDrains ==
  \A s \in Subs :
    [](Publishing = {})
      ~> (channel[s] = <<>> \/ s \notin subscriptions \/ crashed # "no")
=============================================================================
