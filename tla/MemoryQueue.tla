---------------------------- MODULE MemoryQueue ----------------------------
(***************************************************************************)
(* The in-memory message queue of pkg/queue/memory.go, with the producers  *)
(* that call Enqueue and the consumer workers of pkg/queue/producer.go     *)
(* that dequeue, handle and settle messages.                               *)
(*                                                                         *)
(* One topic is modelled: topics share only q.mutex, the MaxSize total and *)
(* the statistics.  topic.mutex is `lock', because dequeueMessage and the  *)
(* visibility sweep hold it over several steps; every other critical       *)
(* section is one action guarded by the lock being free.  q.mutex is taken *)
(* for writing by Delete and never given back (`wedged').                  *)
(*                                                                         *)
(* A message is a member of Messages; what the properties tell apart is    *)
(* its Priority, its RetryCount, whether its Timeout has passed (expired)  *)
(* and whether its ScheduledAt is still ahead (delayed).  Each message is  *)
(* handed to Enqueue once.                                                 *)
(***************************************************************************)
EXTENDS Integers, Sequences, FiniteSets, SequencesExt

CONSTANTS
  Messages,      \* the messages producers send
  Priority,      \* Message.Priority, per message
  Producers,     \* goroutines that call Enqueue
  Workers,       \* the worker goroutines of one MemoryConsumer
  MaxSize,       \* QueueConfig.MaxSize; 0 is "no limit"
  MaxRetries,    \* Message.MaxRetries, after Enqueue filled in the default
  BatchSize,     \* QueueConfig.BatchSize
  Expirable,     \* messages whose Timeout may pass
  Delayable,     \* messages sent with a ScheduledAt
  Overdueable,   \* messages whose handling may outlast VisibilityTimeout
  AdminOps,      \* the management calls clients make
  NoMsg,         \* nil
  Cleaner,       \* the goroutine that runs cleanup()
  Free           \* no holder of topic.mutex

ASSUME ParamsAssumption ==
  /\ Priority \in [Messages -> Nat]
  /\ MaxSize \in Nat
  /\ MaxRetries \in Nat
  /\ BatchSize \in Nat \ {0}
  /\ Expirable \subseteq Messages
  /\ Delayable \subseteq Messages
  /\ Overdueable \subseteq Messages
  /\ AdminOps \subseteq {"purge", "delete", "deleteMessage", "cleanIdle"}
  /\ NoMsg \notin Messages

ASSUME FinitenessAssumption ==
  IsFiniteSet(Messages) /\ IsFiniteSet(Producers) /\ IsFiniteSet(Workers)

ASSUME HolderAssumption ==
  Cleaner \notin Workers /\ Free \notin Workers \cup {Cleaner}

VARIABLES
  messages,      \* topic.messages
  processing,    \* the keys of topic.processing
  deadLetter,    \* topic.deadLetter
  topicExists,   \* the topic is in q.topics
  lock,          \* holder of topic.mutex across steps, or Free
  scan,          \* the range loop of dequeueMessage: index, length, last
  sweep,         \* the processing entries performCleanup has yet to visit
  condemned,     \* performCleanup found the topic idle and will delete it
  wedged,        \* Delete holds q.mutex and waits for it
  crashed,       \* a goroutine panicked: the process is gone
  stats,         \* the counters of QueueStats
  owed,          \* decrements that calls of DeleteMessage have still to make
  retryCount,    \* Message.RetryCount
  expired,       \* messages for which IsExpired() is true
  delayed,       \* messages whose ScheduledAt is ahead
  unsent,        \* messages not handed to Enqueue yet
  pPc, pMsg,     \* producers: where in Enqueue, and with which message
  wPc, batch,    \* workers: where in processMessages, and what they hold
  (* what happened so far *)
  accepted,      \* messages in the order Enqueue inserted them
  completed,     \* messages acknowledged
  removed,       \* messages taken away by Purge or DeleteMessage
  reclaimed,     \* messages a visibility sweep took back from a worker
  late,          \* how many Acks and Nacks found their message gone from
                 \*   topic.processing, and settled it all the same
  deliveries     \* how many times a message was handed to a worker

topicVars  == <<messages, processing, deadLetter, retryCount>>
lockVars   == <<lock, scan, sweep, condemned>>
statVars   == <<stats, owed>>
stopVars   == <<topicExists, wedged, crashed>>
timeVars   == <<expired, delayed>>
prodVars   == <<unsent, pPc, pMsg, accepted>>
workVars   == <<wPc, batch, deliveries>>
ghostVars  == <<completed, removed, reclaimed, late>>
vars == <<topicVars, lockVars, statVars, stopVars, timeVars, prodVars,
          workVars, ghostVars>>

Holders == Workers \cup {Cleaner, Free}
Counters == {"total", "pending", "processing", "completed", "failed", "dead"}
Settlements == {"ack", "nack"}
Parts == {"pending", "processing", "dead"}
NoScan == [idx |-> 1, n |-> 0, last |-> NoMsg]

Init ==
  /\ messages = <<>> /\ processing = {} /\ deadLetter = <<>>
  /\ retryCount = [m \in Messages |-> 0]
  /\ topicExists = FALSE /\ wedged = FALSE /\ crashed = FALSE
  /\ lock = Free /\ scan = NoScan /\ sweep = {} /\ condemned = FALSE
  /\ stats = [c \in Counters |-> 0] /\ owed = [c \in Parts |-> 0]
  /\ expired = {} /\ delayed = Delayable
  /\ unsent = Messages /\ accepted = <<>>
  /\ pPc = [p \in Producers |-> "idle"]
  /\ pMsg = [p \in Producers |-> NoMsg]
  /\ wPc = [w \in Workers |-> "poll"]
  /\ batch = [w \in Workers |-> <<>>]
  /\ deliveries = [m \in Messages |-> 0]
  /\ completed = {} /\ removed = {} /\ reclaimed = {}
  /\ late = [call \in Settlements |-> 0]

-----------------------------------------------------------------------------
(* Helpers, each after the faulty variants the checks are tried against    *)

\* updateStats: the counters in `up' grow by one, those in `down' shrink.
BumpOnlyUp(up, down) ==
  stats' = [c \in Counters |-> stats[c] + (IF c \in up THEN 1 ELSE 0)]
Bump(up, down) ==
  stats' = [c \in Counters |->
              stats[c] + (IF c \in up THEN 1 ELSE 0)
                       - (IF c \in down THEN 1 ELSE 0)]

\* A reader of q.mutex gets through unless Delete keeps it; a writer also
\* waits for the readers that hold it over several steps.
QReadable == ~crashed /\ ~wedged
QWritable == QReadable /\ lock # Cleaner /\ \A c \in Parts : owed[c] = 0

TopicUnlocked == ~crashed
TopicFree == ~crashed /\ lock = Free

\* The first index whose message m outranks, or the end.
InsertLast(q, m) == Len(q) + 1
InsertBeforeEqual(q, m) ==
  CHOOSE i \in 1 .. Len(q) + 1 :
    /\ \A j \in 1 .. i - 1 : Priority[m] < Priority[q[j]]
    /\ i <= Len(q) => Priority[m] >= Priority[q[i]]
InsertPos(q, m) ==
  CHOOSE i \in 1 .. Len(q) + 1 :
    /\ \A j \in 1 .. i - 1 : Priority[m] <= Priority[q[j]]
    /\ i <= Len(q) => Priority[m] > Priority[q[i]]

insertByPriority(q, m) == InsertAt(q, InsertPos(q, m), m)

\* append(q[:i], q[i+1:]...)
TakeLast(q, i) == Front(q)
TakeOut(q, i) == RemoveAt(q, i)

RetryOnceMore(m) == retryCount[m] <= MaxRetries
ShouldRetry(m) == retryCount[m] < MaxRetries

PendingSize == Len(messages) + Len(deadLetter)
getTotalSize == Len(messages) + Cardinality(processing) + Len(deadLetter)

\* Nack and the sweep give a message back to the topic the same way.
RequeueCountingDown(m) ==
  /\ retryCount' = [retryCount EXCEPT ![m] = @ - 1]
  /\ messages' = insertByPriority(messages, m)
  /\ UNCHANGED deadLetter
Requeue(m) ==
  /\ retryCount' = [retryCount EXCEPT ![m] = @ + 1]
  /\ messages' = insertByPriority(messages, m)
  /\ UNCHANGED deadLetter

DropDead(m) == UNCHANGED <<messages, deadLetter, retryCount>>
DeadLetter(m) ==
  /\ deadLetter' = Append(deadLetter, m)
  /\ UNCHANGED <<messages, retryCount>>

-----------------------------------------------------------------------------
(* Enqueue, by a producer *)

EnqueueCheck(p, m) ==
  /\ QReadable /\ TopicFree
  /\ pPc[p] = "idle" /\ m \in unsent
  /\ unsent' = unsent \ {m}
  /\ IF MaxSize > 0 /\ getTotalSize >= MaxSize
     THEN UNCHANGED <<pPc, pMsg>>              \* "queue is full"
     ELSE /\ pPc' = [pPc EXCEPT ![p] = "create"]
          /\ pMsg' = [pMsg EXCEPT ![p] = m]
  /\ UNCHANGED <<topicVars, lockVars, statVars, stopVars, timeVars, accepted,
                 workVars, ghostVars>>

getOrCreateTopic(p) ==
  /\ QWritable
  /\ pPc[p] = "create"
  /\ pPc' = [pPc EXCEPT ![p] = "insert"]
  /\ topicExists' = TRUE
  /\ UNCHANGED <<topicVars, lockVars, statVars, wedged, crashed, timeVars,
                 unsent, pMsg, accepted, workVars, ghostVars>>

EnqueueInsert(p) ==
  /\ TopicFree
  /\ pPc[p] = "insert"
  /\ messages' = insertByPriority(messages, pMsg[p])
  /\ accepted' = Append(accepted, pMsg[p])
  /\ Bump({"total", "pending"}, {})
  /\ pPc' = [pPc EXCEPT ![p] = "idle"]
  /\ pMsg' = [pMsg EXCEPT ![p] = NoMsg]
  /\ UNCHANGED <<processing, deadLetter, retryCount, lockVars, owed,
                 stopVars, timeVars, unsent, workVars, ghostVars>>

-----------------------------------------------------------------------------
(* dequeueMessage, by a worker filling its batch.  `for i, msg := range    *)
(* topic.messages' fixes the length n when it starts; a removal shifts the *)
(* same backing array, so an index past the shortened slice reads the old  *)
(* last message, and slicing there panics.                                 *)

StartScan(w) ==
  /\ QReadable /\ TopicFree /\ topicExists
  /\ wPc[w] = "poll"
  /\ lock' = w
  /\ scan' = [idx |-> 1, n |-> Len(messages),
              last |-> IF messages = <<>> THEN NoMsg ELSE Last(messages)]
  /\ wPc' = [wPc EXCEPT ![w] = "scan"]
  /\ UNCHANGED <<topicVars, sweep, condemned, statVars, stopVars, timeVars,
                 prodVars, batch, deliveries, ghostVars>>

Scanning(w) == ~crashed /\ wPc[w] = "scan" /\ scan.idx <= scan.n
Stale == scan.idx > Len(messages)
Scanned == IF Stale THEN scan.last ELSE messages[scan.idx]

ScanExpired(w) ==
  /\ Scanning(w)
  /\ Scanned \in expired
  /\ deadLetter' = Append(deadLetter, Scanned)
  /\ IF Stale
     THEN crashed' = TRUE /\ UNCHANGED <<messages, scan>>
     ELSE /\ messages' = TakeOut(messages, scan.idx)
          /\ scan' = [scan EXCEPT !.idx = @ + 1]
          /\ UNCHANGED crashed
  /\ UNCHANGED <<processing, retryCount, lock, sweep, condemned, statVars,
                 topicExists, wedged, timeVars, prodVars, workVars,
                 ghostVars>>

ScanDelayed(w) ==
  /\ Scanning(w)
  /\ Scanned \in delayed \ expired
  /\ scan' = [scan EXCEPT !.idx = @ + 1]
  /\ UNCHANGED <<topicVars, lock, sweep, condemned, statVars, stopVars,
                 timeVars, prodVars, workVars, ghostVars>>

ScanDeliver(w) ==
  /\ Scanning(w)
  /\ Scanned \notin delayed \cup expired
  /\ processing' = processing \cup {Scanned}
  /\ IF Stale
     THEN /\ crashed' = TRUE
          /\ UNCHANGED <<messages, lock, scan, stats, wPc, batch, deliveries>>
     ELSE /\ messages' = TakeOut(messages, scan.idx)
          /\ Bump({"processing"}, {"pending"})
          /\ deliveries' = [deliveries EXCEPT ![Scanned] = @ + 1]
          /\ batch' = [batch EXCEPT ![w] = Append(@, Scanned)]
          /\ wPc' = [wPc EXCEPT ![w] =
                       IF Len(batch'[w]) = BatchSize THEN "handle" ELSE "poll"]
          /\ lock' = Free /\ scan' = NoScan
          /\ UNCHANGED crashed
  /\ UNCHANGED <<deadLetter, retryCount, sweep, condemned, owed, topicExists,
                 wedged, timeVars, prodVars, ghostVars>>

\* The loop ends without a message: the batch is what was collected so far.
ScanNothing(w) ==
  /\ ~crashed /\ wPc[w] = "scan" /\ scan.idx > scan.n
  /\ lock' = Free /\ scan' = NoScan
  /\ wPc' = [wPc EXCEPT ![w] = IF batch[w] = <<>> THEN "poll" ELSE "handle"]
  /\ UNCHANGED <<topicVars, sweep, condemned, statVars, stopVars, timeVars,
                 prodVars, batch, deliveries, ghostVars>>

-----------------------------------------------------------------------------
(* processMessage: the handler runs, then Ack or Nack under c.mutex.       *)

Late(w) == IF Head(batch[w]) \in processing THEN 0 ELSE 1
CountLate(call, w) == late' = [late EXCEPT ![call] = @ + Late(w)]

ConsumerLocked == \E v \in Workers : wPc[v] \in {"ack", "nack"}

\* The next message of the batch, or back to the poll ticker.
DropBatch(w) ==
  /\ batch' = [batch EXCEPT ![w] = <<>>]
  /\ wPc' = [wPc EXCEPT ![w] = "poll"]
NextInBatch(w) ==
  /\ batch' = [batch EXCEPT ![w] = Tail(@)]
  /\ wPc' = [wPc EXCEPT ![w] =
               IF Len(batch[w]) = 1 THEN "poll" ELSE "handle"]

\* The handler has returned; findProcessingMessage looks the message up and
\* releases every lock of the queue.  Nack's argument msg.ShouldRetry() is
\* implied by the second ShouldRetry() in Nack: RetryCount never shrinks.
FindProcessing(w, outcome) ==
  /\ wPc[w] = "handle" /\ ~ConsumerLocked
  /\ QReadable /\ TopicFree
  /\ IF Head(batch[w]) \in processing
     THEN wPc' = [wPc EXCEPT ![w] = outcome] /\ UNCHANGED batch
     ELSE NextInBatch(w)                       \* "message not found"
  /\ UNCHANGED <<topicVars, lockVars, statVars, stopVars, timeVars, prodVars,
                 deliveries, ghostVars>>

Ack(w) ==
  /\ wPc[w] = "ack" /\ TopicFree
  /\ processing' = processing \ {Head(batch[w])}
  /\ completed' = completed \cup {Head(batch[w])}
  /\ Bump({"completed"}, {"processing"})
  /\ CountLate("ack", w)
  /\ NextInBatch(w)
  /\ UNCHANGED <<messages, deadLetter, retryCount, lockVars, owed, stopVars,
                 timeVars, prodVars, deliveries, removed, reclaimed>>

Nack(w) ==
  /\ wPc[w] = "nack" /\ TopicFree
  /\ LET m == Head(batch[w]) IN
       /\ processing' = processing \ {m}
       /\ IF ShouldRetry(m)
          THEN Requeue(m) /\ Bump({"pending"}, {"processing"})
          ELSE DeadLetter(m) /\ Bump({"failed", "dead"}, {"processing"})
  /\ CountLate("nack", w)
  /\ NextInBatch(w)
  /\ UNCHANGED <<lockVars, owed, stopVars, timeVars, prodVars, deliveries,
                 completed, removed, reclaimed>>

-----------------------------------------------------------------------------
(* performCleanup, once a minute *)

\* Its last part takes the topic lock and visits the processing entries.
StartSweep ==
  /\ QReadable /\ TopicFree /\ topicExists /\ ~condemned
  /\ processing \cap Overdueable # {}
  /\ lock' = Cleaner /\ sweep' = processing
  /\ UNCHANGED <<topicVars, scan, condemned, statVars, stopVars, timeVars,
                 prodVars, workVars, ghostVars>>

\* An entry older than VisibilityTimeout goes back to the queue or to the
\* dead letters; neither the statistics nor a waiting consumer hear of it.
Reclaim(m) ==
  /\ lock = Cleaner /\ m \in sweep \cap Overdueable
  /\ processing' = processing \ {m}
  /\ IF ShouldRetry(m) THEN Requeue(m) ELSE DeadLetter(m)
  /\ reclaimed' = reclaimed \cup {m}
  /\ sweep' = sweep \ {m}
  /\ UNCHANGED <<lock, scan, condemned, statVars, stopVars, timeVars,
                 prodVars, workVars, completed, removed, late>>

EndSweep ==
  /\ lock = Cleaner
  /\ lock' = Free /\ sweep' = {}
  /\ UNCHANGED <<topicVars, scan, condemned, statVars, stopVars, timeVars,
                 prodVars, workVars, ghostVars>>

\* Its first part looks for a topic not accessed for an hour that holds no
\* message to process, and then deletes it.
FindIdle ==
  /\ "cleanIdle" \in AdminOps
  /\ QReadable /\ TopicFree /\ topicExists /\ ~condemned
  /\ messages = <<>> /\ processing = {}
  /\ condemned' = TRUE
  /\ UNCHANGED <<topicVars, lock, scan, sweep, statVars, stopVars, timeVars,
                 prodVars, workVars, ghostVars>>

-----------------------------------------------------------------------------
(* Management calls *)

Purge ==
  /\ "purge" \in AdminOps
  /\ QWritable /\ TopicFree /\ topicExists
  /\ removed' = removed \cup ToSet(messages) \cup processing
                        \cup ToSet(deadLetter)
  /\ stats' = [stats EXCEPT !["pending"] = @ - Len(messages),
                            !["processing"] = @ - Cardinality(processing),
                            !["dead"] = @ - Len(deadLetter)]
  /\ messages' = <<>> /\ processing' = {} /\ deadLetter' = <<>>
  /\ UNCHANGED <<retryCount, lockVars, owed, stopVars, timeVars, prodVars,
                 workVars, completed, reclaimed, late>>

\* Delete takes q.mutex and calls Purge, which takes q.mutex.
Delete ==
  /\ "delete" \in AdminOps \/ condemned
  /\ QWritable /\ topicExists
  /\ wedged' = TRUE
  /\ UNCHANGED <<topicVars, lockVars, statVars, topicExists, crashed,
                 timeVars, prodVars, workVars, ghostVars>>

\* The first place that holds the message loses it; the counter follows
\* after topic.mutex is released.  The callers share q.mutex as readers, so
\* any number of them may be between the two.
OwesIn(c) == owed' = [owed EXCEPT ![c] = @ + 1]
DeleteMessage(m) ==
  /\ "deleteMessage" \in AdminOps
  /\ QReadable /\ TopicFree
  /\ \/ /\ m \in ToSet(messages)
        /\ messages' = RemoveFirst(messages, m)
        /\ OwesIn("pending")
        /\ UNCHANGED <<processing, deadLetter>>
     \/ /\ m \in processing \ ToSet(messages)
        /\ processing' = processing \ {m}
        /\ OwesIn("processing")
        /\ UNCHANGED <<messages, deadLetter>>
     \/ /\ m \in ToSet(deadLetter) \ (processing \cup ToSet(messages))
        /\ deadLetter' = RemoveFirst(deadLetter, m)
        /\ OwesIn("dead")
        /\ UNCHANGED <<messages, processing>>
  /\ removed' = removed \cup {m}
  /\ UNCHANGED <<retryCount, lockVars, stats, stopVars, timeVars, prodVars,
                 workVars, completed, reclaimed, late>>

DeleteMessageStats(c) ==
  /\ ~crashed /\ owed[c] > 0
  /\ Bump({}, {c}) /\ owed' = [owed EXCEPT ![c] = @ - 1]
  /\ UNCHANGED <<topicVars, lockVars, stopVars, timeVars, prodVars, workVars,
                 ghostVars>>

-----------------------------------------------------------------------------
(* Time passes *)

Expire(m) ==
  /\ ~crashed /\ m \in Expirable \ expired
  /\ expired' = expired \cup {m}
  /\ UNCHANGED <<topicVars, lockVars, statVars, stopVars, delayed, prodVars,
                 workVars, ghostVars>>

BecomeDue(m) ==
  /\ ~crashed /\ m \in delayed
  /\ delayed' = delayed \ {m}
  /\ UNCHANGED <<topicVars, lockVars, statVars, stopVars, expired, prodVars,
                 workVars, ghostVars>>

-----------------------------------------------------------------------------
EnqueueStep(p) ==
  \/ \E m \in Messages : EnqueueCheck(p, m)
  \/ getOrCreateTopic(p)
  \/ EnqueueInsert(p)

Handled(w) == \E outcome \in {"ack", "nack"} : FindProcessing(w, outcome)

WorkerStep(w) ==
  \/ StartScan(w) \/ ScanExpired(w) \/ ScanDelayed(w) \/ ScanDeliver(w)
  \/ ScanNothing(w) \/ Handled(w) \/ Ack(w) \/ Nack(w)

CleanupStep ==
  \/ StartSweep \/ EndSweep \/ FindIdle
  \/ \E m \in Messages : Reclaim(m)

AdminStep ==
  \/ Purge \/ Delete \/ \E c \in Parts : DeleteMessageStats(c)
  \/ \E m \in Messages : DeleteMessage(m)

TimeStep == \E m \in Messages : Expire(m) \/ BecomeDue(m)

Next ==
  \/ \E p \in Producers : EnqueueStep(p)
  \/ \E w \in Workers : WorkerStep(w)
  \/ CleanupStep
  \/ AdminStep
  \/ TimeStep

Spec == Init /\ [][Next]_vars

\* A goroutine that waits for a mutex gets it in the end (sync.Mutex turns
\* to hand-over when a waiter starves), tickers tick, handlers return, and
\* time reaches every ScheduledAt.  Nothing is asked of a handler's outcome
\* or of a producer that has not called Enqueue.
Fairness ==
  /\ \A w \in Workers : SF_vars(WorkerStep(w))
  /\ \A p \in Producers : SF_vars(getOrCreateTopic(p) \/ EnqueueInsert(p))
  /\ WF_vars(EndSweep)
  /\ \A m \in Messages : WF_vars(BecomeDue(m))

FairSpec == Spec /\ Fairness

-----------------------------------------------------------------------------
(* Properties *)

Accepted == ToSet(accepted)
Live == ToSet(messages) \cup processing \cup ToSet(deadLetter)
InFlight == {p \in Producers : pPc[p] \in {"create", "insert"}}
SettlingWorkers == {w \in Workers : wPc[w] \in {"ack", "nack"}}
Copies(q, m) == Cardinality({i \in DOMAIN q : q[i] = m})

ScanRecords == [idx : Nat \ {0}, n : Nat, last : Messages \cup {NoMsg}]

\* Every variable has its type (the state of MemoryQueue and topicQueue,
\* memory.go:16-34, and of the goroutines using it).
TypeOK ==
  /\ messages \in Seq(Messages)
  /\ processing \subseteq Messages
  /\ deadLetter \in Seq(Messages)
  /\ retryCount \in [Messages -> Nat]
  /\ lock \in Holders
  /\ scan \in ScanRecords
  /\ sweep \subseteq Messages
  /\ condemned \in BOOLEAN /\ topicExists \in BOOLEAN
  /\ wedged \in BOOLEAN /\ crashed \in BOOLEAN
  /\ stats \in [Counters -> Int]
  /\ owed \in [Parts -> Nat]
  /\ expired \subseteq Messages /\ delayed \subseteq Messages
  /\ unsent \subseteq Messages
  /\ pPc \in [Producers -> {"idle", "create", "insert"}]
  /\ pMsg \in [Producers -> Messages \cup {NoMsg}]
  /\ wPc \in [Workers -> {"poll", "scan", "handle", "ack", "nack"}]
  /\ batch \in [Workers -> Seq(Messages)]
  /\ accepted \in Seq(Messages)
  /\ completed \subseteq Messages /\ removed \subseteq Messages
  /\ reclaimed \subseteq Messages
  /\ late \in [Settlements -> Nat]
  /\ deliveries \in [Messages -> Nat]

\* An accepted message is never lost: until it is acknowledged or taken away
\* by Purge or DeleteMessage it is pending, being processed or a dead letter,
\* whatever acks, nacks, sweeps and expiries race for it.
NothingLost == Accepted \subseteq Live \cup completed \cup removed

\* A message no sweep has taken back, and nobody removed, is in exactly one
\* of: pending, processing, dead letters, completed.
OnePlace ==
  ~crashed =>
    \A m \in Accepted \ (reclaimed \cup removed) :
      Copies(messages, m) + Copies(deadLetter, m)
        + (IF m \in processing THEN 1 ELSE 0)
        + (IF m \in completed THEN 1 ELSE 0) = 1

\* Requeued, reclaimed and new messages are all kept in priority order.
PriorityOrder ==
  \A i, j \in 1 .. Len(messages) :
    i < j => Priority[messages[i]] >= Priority[messages[j]]

\* Messages of one priority that were never retried wait in the order in
\* which Enqueue accepted them.
FifoAmongFresh ==
  \A i, j \in 1 .. Len(messages) :
    (/\ i < j
     /\ Priority[messages[i]] = Priority[messages[j]]
     /\ retryCount[messages[i]] = 0 /\ retryCount[messages[j]] = 0)
    => \E a, b \in 1 .. Len(accepted) :
         a < b /\ accepted[a] = messages[i] /\ accepted[b] = messages[j]

\* Deliveries and copies still waiting are paid for by the first insertion
\* and by retries, so no message is handed out more than 1 + MaxRetries
\* times, sweeps racing nacks included.
DeliveryBound ==
  \A m \in Messages :
    /\ deliveries[m] + Copies(messages, m)
         <= (IF m \in Accepted THEN 1 ELSE 0) + retryCount[m]
    /\ retryCount[m] <= MaxRetries

\* Enqueue checks MaxSize before it takes the topic lock.  The total it
\* compares with, which counts copies, stays within MaxSize but for the
\* producers that passed the same check and the copies that late Nacks put
\* back; a Nack is late only after a sweep or a removal overtook it.
CapacityOvershoot ==
  /\ (MaxSize > 0 /\ ~crashed) =>
       getTotalSize + Cardinality(InFlight)
         <= MaxSize + Cardinality(Producers) - 1 + late["nack"]
  /\ reclaimed = {} /\ removed = {} => late["nack"] = 0

\* Only a sweep can give a message to a second worker while the first one
\* still holds it.
ExclusiveUntilReclaimed ==
  \A v, w \in Workers : \A m \in Messages \ reclaimed :
    (m \in ToSet(batch[v]) /\ m \in ToSet(batch[w])) => v = w

\* The statistics follow the topic, though every call updates them in a step
\* of its own and deletions overlap.  Expiry moves a message to the dead
\* letters without counting, so there only the sum of pending and dead is
\* kept, and pending errs upwards.  A sweep moves messages without counting:
\* the sum of all three then falls behind the topic by late settlements only.
StatsMatch ==
  LET InTopic == getTotalSize + owed["pending"] + owed["processing"] + owed["dead"]
      InQueues == Len(messages) + Len(deadLetter) + owed["pending"] + owed["dead"]
  IN  ~crashed =>
        /\ stats["total"] = Len(accepted)
        /\ stats["pending"] + stats["processing"] + stats["dead"]
             + late["ack"] + late["nack"] >= InTopic
        /\ reclaimed = {} =>
             /\ stats["pending"] + stats["dead"] = InQueues
             /\ stats["pending"] >= Len(messages) + owed["pending"]
             /\ expired = {} => stats["pending"] = Len(messages) + owed["pending"]
             /\ stats["completed"] = Cardinality(completed)
             /\ removed = {} => stats["processing"] = Cardinality(processing)

\* A message acknowledged and never swept is not handed out again.
CompletedIsFinal ==
  [][\A m \in completed \ reclaimed : deliveries'[m] = deliveries[m]]_vars

\* dequeueMessage skips an expired message and goes on ("skip expired
\* messages", memory.go:174); it does not bring the process down.
ScanSkipsExpired == ~crashed

\* Every accepted message is in the end acknowledged or a dead letter, with
\* no copy of it waiting or in the hands of a worker any more.
AllSettle ==
  \A m \in Messages :
    m \in Accepted ~> m \notin ToSet(messages) \cup processing

\* A message is live while a copy of it can still reach a worker.
Stage ==
  [m \in Messages |->
     IF m \notin Accepted THEN "absent"
     ELSE IF m \in ToSet(messages) \cup processing THEN "live" ELSE "settled"]

Promise == INSTANCE AtLeastOnce WITH stage <- Stage, attempts <- deliveries

\* With no expiry and no management calls the queue of memory.go delivers
\* at least once, at most 1 + MaxRetries times, and settles for good.
ImplementsAtLeastOnce == Promise!Spec
=============================================================================
