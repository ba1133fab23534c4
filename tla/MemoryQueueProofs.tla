------------------------- MODULE MemoryQueueProofs -------------------------
(***************************************************************************)
(* Theorems about MemoryQueue, for every set of messages, producers and    *)
(* workers and every configuration.  First what each state guarantees:     *)
(* types, no accepted message lost, priority order, the delivery budget.   *)
(* Then who holds a message (Custody), from which follow that it is in one *)
(* place, held by one worker, final once acknowledged and counted rightly; *)
(* what the topic lock protects (LockInv), from which the bound on the     *)
(* capacity follows; the order among fresh messages; and last the step by  *)
(* step refinement of AtLeastOnce.                                         *)
(***************************************************************************)
EXTENDS MemoryQueue, NaturalsInduction, WellFoundedInduction,
        FiniteSetTheorems, SequenceTheorems, TLAPS

-----------------------------------------------------------------------------
(* The sequence operations of the topic *)

\* Inserting at index i moves the elements from i on up by one.
LEMMA InsertAtShape ==
  ASSUME NEW S, NEW q \in Seq(S), NEW e \in S, NEW i \in 1 .. Len(q) + 1
  PROVE  /\ InsertAt(q, i, e) \in Seq(S)
         /\ Len(InsertAt(q, i, e)) = Len(q) + 1
         /\ \A k \in 1 .. i - 1 : InsertAt(q, i, e)[k] = q[k]
         /\ InsertAt(q, i, e)[i] = e
         /\ \A k \in i + 1 .. Len(q) + 1 : InsertAt(q, i, e)[k] = q[k - 1]
  <1> DEFINE a == SubSeq(q, 1, i - 1)
             b == SubSeq(q, i, Len(q))
             r == (a \o <<e>>) \o b
  <1>1. a \in Seq(S) /\ Len(a) = i - 1 /\ \A k \in 1 .. i - 1 : a[k] = q[k]
    OBVIOUS
  <1>2. b \in Seq(S) /\ Len(b) = Len(q) - i + 1
        /\ \A k \in 1 .. Len(q) - i + 1 : b[k] = q[i + k - 1]
    OBVIOUS
  <1> HIDE DEF a, b
  <1>3. a \o <<e>> \in Seq(S) /\ Len(a \o <<e>>) = i
        /\ (\A k \in 1 .. i - 1 : (a \o <<e>>)[k] = q[k])
        /\ (a \o <<e>>)[i] = e
    <2>1. <<e>> \in Seq(S) /\ Len(<<e>>) = 1 /\ <<e>>[1] = e
      OBVIOUS
    <2> QED  BY <1>1, <2>1
  <1>4. r \in Seq(S) /\ Len(r) = Len(q) + 1
    BY <1>2, <1>3
  <1>5. \A k \in 1 .. i : r[k] = (a \o <<e>>)[k]
    BY <1>2, <1>3
  <1>6. \A k \in i + 1 .. Len(q) + 1 : r[k] = b[k - i]
    BY <1>2, <1>3
  <1>7. \A k \in i + 1 .. Len(q) + 1 : b[k - i] = q[k - 1]
    BY <1>2
  <1>8. InsertAt(q, i, e) = r
    BY DEF InsertAt, a, b
  <1> HIDE DEF r
  <1> QED  BY <1>3, <1>4, <1>5, <1>6, <1>7, <1>8

\* Taking out index i moves the elements after i down by one.
LEMMA TakeOutShape ==
  ASSUME NEW S, NEW q \in Seq(S), NEW i \in 1 .. Len(q)
  PROVE  /\ TakeOut(q, i) \in Seq(S)
         /\ Len(TakeOut(q, i)) = Len(q) - 1
         /\ \A k \in 1 .. i - 1 : TakeOut(q, i)[k] = q[k]
         /\ \A k \in i .. Len(q) - 1 : TakeOut(q, i)[k] = q[k + 1]
  <1> DEFINE a == SubSeq(q, 1, i - 1)
             b == SubSeq(q, i + 1, Len(q))
             r == a \o b
  <1>1. a \in Seq(S) /\ Len(a) = i - 1 /\ \A k \in 1 .. i - 1 : a[k] = q[k]
    OBVIOUS
  <1>2. b \in Seq(S) /\ Len(b) = Len(q) - i
        /\ \A k \in 1 .. Len(q) - i : b[k] = q[i + k]
    OBVIOUS
  <1> HIDE DEF a, b
  <1>3. r \in Seq(S) /\ Len(r) = Len(q) - 1
    <2>1. a \in Seq(S) /\ b \in Seq(S) /\ Len(a) + Len(b) = Len(q) - 1
      BY <1>1, <1>2
    <2> QED  BY <2>1
  <1>6. \A k \in 1 .. i - 1 : r[k] = a[k]
    BY <1>1, <1>2
  <1>7. \A k \in i .. Len(q) - 1 : r[k] = b[k - i + 1]
    BY <1>1, <1>2
  <1>4. \A k \in i .. Len(q) - 1 : b[k - i + 1] = q[k + 1]
    <2> SUFFICES ASSUME NEW k \in i .. Len(q) - 1
                 PROVE  b[k - i + 1] = q[k + 1]
      OBVIOUS
    <2>1. k - i + 1 \in 1 .. Len(q) - i /\ i + (k - i + 1) = k + 1
      OBVIOUS
    <2> QED  BY <1>2, <2>1
  <1>5. TakeOut(q, i) = r
    BY DEF TakeOut, RemoveAt, a, b
  <1> HIDE DEF r
  <1> QED  BY <1>1, <1>3, <1>4, <1>5, <1>6, <1>7

\* Every nonempty set of naturals has a least element.
LEMMA LeastExists ==
  ASSUME NEW T \in SUBSET Nat, T # {}
  PROVE  \E x \in T : \A y \in T : x <= y
  <1>1. IsWellFoundedOn(OpToRel(<, Nat), Nat)
    BY NatLessThanWellFounded
  <1>2. PICK x \in T : \A y \in T : ~ (<<y, x>> \in OpToRel(<, Nat))
    BY <1>1, WFMin
  <1>3. \A y \in T : ~ (y < x)
    BY <1>2 DEF OpToRel
  <1> QED  BY <1>3

\* RemoveFirst takes out one index that holds e, or nothing.
LEMMA RemoveFirstShape ==
  ASSUME NEW S, NEW q \in Seq(S), NEW e
  PROVE  \/ RemoveFirst(q, e) = q
         \/ \E i \in 1 .. Len(q) : q[i] = e /\ RemoveFirst(q, e) = TakeOut(q, i)
  <1> DEFINE I == {i \in 1 .. Len(q) : q[i] = e}
  <1>1. CASE I = {}
    BY <1>1 DEF RemoveFirst
  <1>2. CASE I # {}
    <2>0. I \in SUBSET Nat
      OBVIOUS
    <2>1. \E x \in I : \A y \in I : x =< y
      <3> HIDE DEF I
      <3> QED  BY <1>2, <2>0, LeastExists
    <2>2. Min(I) \in I
      BY <2>1 DEF Min
    <2>3. RemoveFirst(q, e) = TakeOut(q, Min(I))
      BY <1>2 DEF RemoveFirst, SelectInSeq, TakeOut
    <2> QED  BY <2>2, <2>3
  <1> QED  BY <1>1, <1>2

\* insertByPriority finds its place: behind everything m does not outrank
\* and directly before the first message it outranks.
LEMMA InsertPosSpec ==
  ASSUME NEW q \in Seq(Messages), NEW m \in Messages
  PROVE  /\ InsertPos(q, m) \in 1 .. Len(q) + 1
         /\ \A j \in 1 .. InsertPos(q, m) - 1 : Priority[m] <= Priority[q[j]]
         /\ InsertPos(q, m) <= Len(q) =>
              Priority[m] > Priority[q[InsertPos(q, m)]]
  <1> DEFINE T == {i \in 1 .. Len(q) + 1 :
                     i <= Len(q) => Priority[m] > Priority[q[i]]}
  <1>1. Len(q) + 1 \in T /\ T \subseteq Nat
    OBVIOUS
  <1>2. PICK x \in T : \A y \in T : x <= y
    BY <1>1, LeastExists
  <1>3. \A j \in 1 .. x - 1 : Priority[m] <= Priority[q[j]]
    <2> SUFFICES ASSUME NEW j \in 1 .. x - 1
                 PROVE  Priority[m] <= Priority[q[j]]
      OBVIOUS
    <2>1. j \in 1 .. Len(q) /\ j \notin T
      BY <1>2
    <2>2. q[j] \in Messages /\ Priority[m] \in Nat /\ Priority[q[j]] \in Nat
      BY <2>1, ParamsAssumption
    <2> QED  BY <2>1, <2>2
  <1>4. x \in 1 .. Len(q) + 1
        /\ (x <= Len(q) => Priority[m] > Priority[q[x]])
    BY <1>2
  <1> HIDE DEF T
  <1> QED  BY <1>3, <1>4 DEF InsertPos

-----------------------------------------------------------------------------
(* Type correctness *)

\* A worker that handles or settles holds a message.
WorkInHand ==
  \A w \in Workers : wPc[w] \in {"handle", "ack", "nack"} => batch[w] # <<>>

\* A producer inside Enqueue carries a message.
SendsMessage ==
  \A p \in Producers : pPc[p] \in {"create", "insert"} => pMsg[p] \in Messages

\* A scan of a topic that was not empty remembers its last message.
ScanHasLast == scan.n > 0 => scan.last \in Messages

TypeInv == TypeOK /\ WorkInHand /\ SendsMessage /\ ScanHasLast

\* What insertByPriority returns: m at some index x, behind everything it
\* does not outrank, with the rest of q around it.
LEMMA InsertShape ==
  ASSUME NEW q \in Seq(Messages), NEW m \in Messages
  PROVE  \E x \in 1 .. Len(q) + 1 :
           /\ \A j \in 1 .. x - 1 : Priority[m] <= Priority[q[j]]
           /\ x <= Len(q) => Priority[m] > Priority[q[x]]
           /\ insertByPriority(q, m) \in Seq(Messages)
           /\ Len(insertByPriority(q, m)) = Len(q) + 1
           /\ insertByPriority(q, m)[x] = m
           /\ \A k \in 1 .. x - 1 : insertByPriority(q, m)[k] = q[k]
           /\ \A k \in x + 1 .. Len(q) + 1 :
                insertByPriority(q, m)[k] = q[k - 1]
  <1> DEFINE x == InsertPos(q, m)
  <1>1. /\ x \in 1 .. Len(q) + 1
        /\ \A j \in 1 .. x - 1 : Priority[m] <= Priority[q[j]]
        /\ x <= Len(q) => Priority[m] > Priority[q[x]]
    BY InsertPosSpec
  <1>2. insertByPriority(q, m) = InsertAt(q, x, m)
    BY DEF insertByPriority
  <1> HIDE DEF x
  <1>3. /\ InsertAt(q, x, m) \in Seq(Messages)
        /\ Len(InsertAt(q, x, m)) = Len(q) + 1
        /\ \A k \in 1 .. x - 1 : InsertAt(q, x, m)[k] = q[k]
        /\ InsertAt(q, x, m)[x] = m
        /\ \A k \in x + 1 .. Len(q) + 1 : InsertAt(q, x, m)[k] = q[k - 1]
    <2>1. ASSUME NEW S, NEW r \in Seq(S), NEW e \in S, NEW i \in 1 .. Len(r) + 1
          PROVE  /\ InsertAt(r, i, e) \in Seq(S)
                 /\ Len(InsertAt(r, i, e)) = Len(r) + 1
                 /\ \A k \in 1 .. i - 1 : InsertAt(r, i, e)[k] = r[k]
                 /\ InsertAt(r, i, e)[i] = e
                 /\ \A k \in i + 1 .. Len(r) + 1 :
                      InsertAt(r, i, e)[k] = r[k - 1]
      BY InsertAtShape
    <2>2. x \in 1 .. Len(q) + 1
      BY <1>1
    <2> QED  BY <2>1, <2>2, SMTT(30)
  <1> QED  BY <1>1, <1>2, <1>3

\* Requeue and new messages keep the topic a sequence of messages.
LEMMA InsertByPriorityType ==
  ASSUME NEW q \in Seq(Messages), NEW m \in Messages
  PROVE  insertByPriority(q, m) \in Seq(Messages)
  BY InsertShape

\* Removing and appending give sequences of messages.
LEMMA RemoveFirstType ==
  ASSUME NEW q \in Seq(Messages), NEW m
  PROVE  RemoveFirst(q, m) \in Seq(Messages)
  BY RemoveFirstShape, TakeOutShape

\* The message under the scan is a message.
LEMMA ScannedType ==
  ASSUME TypeInv, scan.idx <= scan.n
  PROVE  Scanned \in Messages
  <1>1. scan.idx \in Nat \ {0} /\ scan.n \in Nat /\ messages \in Seq(Messages)
    BY DEF TypeInv, TypeOK, ScanRecords
  <1>2. CASE scan.idx > Len(messages)
    BY <1>1, <1>2 DEF Scanned, Stale, TypeInv, ScanHasLast
  <1>3. CASE scan.idx <= Len(messages)
    BY <1>1, <1>3 DEF Scanned, Stale
  <1> QED  BY <1>1, <1>2, <1>3

\* The head and the tail of a batch.
LEMMA HeadTail ==
  ASSUME NEW q \in Seq(Messages), q # <<>>
  PROVE  /\ Head(q) \in Messages /\ Tail(q) \in Seq(Messages)
         /\ Len(q) # 1 => Tail(q) # <<>>
  <1>1. Len(q) \in Nat \ {0} /\ Tail(q) \in Seq(Messages)
        /\ Head(q) = q[1] /\ Len(Tail(q)) = Len(q) - 1
    OBVIOUS
  <1>2. q[1] \in Messages
    BY <1>1
  <1>3. Len(q) # 1 => Len(Tail(q)) # 0
    BY <1>1
  <1>4. Len(<<>>) = 0
    OBVIOUS
  <1>5. Len(q) # 1 => Tail(q) # <<>>
    BY <1>3, <1>4, Zenon
  <1> QED  BY <1>1, <1>2, <1>5

LEMMA AppendType ==
  ASSUME NEW q \in Seq(Messages), NEW m \in Messages
  PROVE  Append(q, m) \in Seq(Messages) /\ Append(q, m) # <<>>
  <1>1. Append(q, m) \in Seq(Messages) /\ Len(Append(q, m)) = Len(q) + 1
    OBVIOUS
  <1>2. Len(q) + 1 # 0 /\ Len(<<>>) = 0
    OBVIOUS
  <1> QED  BY <1>1, <1>2, Zenon

\* The loop index moves on.
LEMMA ScanAdvance ==
  ASSUME scan \in ScanRecords, scan' = [scan EXCEPT !.idx = @ + 1]
  PROVE  scan' \in ScanRecords /\ scan'.n = scan.n /\ scan'.last = scan.last
  BY DEF ScanRecords

\* Taking out the scanned message leaves a sequence of messages.
LEMMA ScanTakeOut ==
  ASSUME TypeInv, ~Stale
  PROVE  /\ scan.idx \in 1 .. Len(messages)
         /\ TakeOut(messages, scan.idx) \in Seq(Messages)
         /\ Scanned = messages[scan.idx]
  <1>1. messages \in Seq(Messages) /\ scan.idx \in Nat \ {0}
    BY DEF TypeInv, TypeOK, ScanRecords
  <1>2. scan.idx \in 1 .. Len(messages)
    BY <1>1 DEF Stale
  <1> QED  BY <1>1, <1>2, TakeOutShape DEF Scanned

\* Requeue and DeadLetter keep the topic's types.
LEMMA GiveBackType ==
  ASSUME TypeInv, NEW m \in Messages, Requeue(m) \/ DeadLetter(m)
  PROVE  /\ messages' \in Seq(Messages) /\ deadLetter' \in Seq(Messages)
         /\ retryCount' \in [Messages -> Nat]
  <1> USE DEF TypeInv, TypeOK
  <1>1. CASE Requeue(m)
    <2>1. messages' = insertByPriority(messages, m) /\ deadLetter' = deadLetter
      BY <1>1 DEF Requeue
    <2>2. retryCount' \in [Messages -> Nat]
      BY <1>1 DEF Requeue
    <2> QED  BY <2>1, <2>2, InsertByPriorityType
  <1>2. CASE DeadLetter(m)
    BY <1>2, AppendType DEF DeadLetter
  <1> QED  BY <1>1, <1>2

\* The initial state has its types.
LEMMA TypeInit == Init => TypeInv
  <1> SUFFICES ASSUME Init PROVE TypeInv
    OBVIOUS
  <1>1. TypeOK
    <2>1. scan \in ScanRecords
      BY DEF Init, NoScan, ScanRecords
    <2>2. lock \in Holders /\ Delayable \subseteq Messages
      BY ParamsAssumption DEF Init, Holders
    <2>3. /\ messages \in Seq(Messages) /\ deadLetter \in Seq(Messages)
          /\ accepted \in Seq(Messages) /\ batch \in [Workers -> Seq(Messages)]
      BY DEF Init
    <2>4. /\ stats \in [Counters -> Int] /\ retryCount \in [Messages -> Nat]
          /\ deliveries \in [Messages -> Nat]
      BY DEF Init
    <2> QED  BY <2>1, <2>2, <2>3, <2>4 DEF Init, TypeOK
  <1>2. WorkInHand /\ SendsMessage /\ ScanHasLast
    BY DEF Init, WorkInHand, SendsMessage, ScanHasLast, NoScan
  <1> QED  BY <1>1, <1>2 DEF TypeInv

\* No enqueue step leaves the types.
LEMMA TypeEnqueue ==
  ASSUME TypeInv, NEW p \in Producers, EnqueueStep(p)
  PROVE  TypeInv'
  <1> USE DEF TypeInv, TypeOK, WorkInHand, SendsMessage, ScanHasLast,
          topicVars, lockVars, statVars, stopVars, timeVars, prodVars,
          workVars, ghostVars
  <1>1. CASE \E m \in Messages : EnqueueCheck(p, m)
    BY <1>1 DEF EnqueueCheck
  <1>2. CASE getOrCreateTopic(p)
    BY <1>2 DEF getOrCreateTopic
  <1>3. CASE EnqueueInsert(p)
    <2>1. pMsg[p] \in Messages
      BY <1>3 DEF EnqueueInsert
    <2>2. messages' \in Seq(Messages) /\ accepted' \in Seq(Messages)
      BY <1>3, <2>1, InsertByPriorityType DEF EnqueueInsert
    <2>3. stats' \in [Counters -> Int]
      BY <1>3 DEF EnqueueInsert, Bump
    <2> QED  BY <1>3, <2>2, <2>3 DEF EnqueueInsert
  <1> QED  BY <1>1, <1>2, <1>3 DEF EnqueueStep
\* What the rest of a batch looks like after its head has been settled.
LEMMA NextInBatchType ==
  ASSUME TypeInv, NEW w \in Workers,
         wPc[w] \in {"handle", "ack", "nack"}, NextInBatch(w)
  PROVE  /\ batch' \in [Workers -> Seq(Messages)]
         /\ wPc' \in [Workers -> {"poll", "scan", "handle", "ack", "nack"}]
         /\ WorkInHand'
         /\ Head(batch[w]) \in Messages
  <1> USE DEF TypeInv, TypeOK, WorkInHand, NextInBatch
  <1>1. batch[w] \in Seq(Messages) /\ batch[w] # <<>>
    OBVIOUS
  <1>2. /\ Tail(batch[w]) \in Seq(Messages) /\ Head(batch[w]) \in Messages
        /\ Len(batch[w]) # 1 => Tail(batch[w]) # <<>>
    BY <1>1, HeadTail
  <1> QED  BY <1>2

\* No worker step leaves the types.
LEMMA TypeWorker ==
  ASSUME TypeInv, NEW w \in Workers, WorkerStep(w)
  PROVE  TypeInv'
  <1> USE DEF TypeInv, TypeOK, WorkInHand, SendsMessage, ScanHasLast,
          topicVars, lockVars, statVars, stopVars, timeVars, prodVars,
          workVars, ghostVars
  <1>1. CASE StartScan(w)
    <2>1. /\ scan' \in ScanRecords
          /\ scan'.n > 0 => scan'.last \in Messages
      <3>1. messages # <<>> => Last(messages) \in Messages
        BY DEF Last
      <3>2. messages = <<>> => Len(messages) = 0
        OBVIOUS
      <3> QED  BY <1>1, <3>1, <3>2 DEF StartScan, ScanRecords
    <2> QED  BY <1>1, <2>1 DEF StartScan, Holders
  <1>2. CASE ScanExpired(w)
    <2>1. Scanned \in Messages /\ scan.idx \in Nat \ {0}
      BY <1>2, ScannedType DEF ScanExpired, Scanning, ScanRecords
    <2>2. deadLetter' \in Seq(Messages)
      BY <1>2, <2>1 DEF ScanExpired
    <2>3. messages' \in Seq(Messages)
      BY <1>2, ScanTakeOut DEF ScanExpired
    <2>4. scan' \in ScanRecords /\ scan'.n = scan.n /\ scan'.last = scan.last
      BY <1>2, ScanAdvance DEF ScanExpired
    <2> QED  BY <1>2, <2>2, <2>3, <2>4 DEF ScanExpired
  <1>3. CASE ScanDelayed(w)
    <2>1. scan' \in ScanRecords /\ scan'.n = scan.n /\ scan'.last = scan.last
      BY <1>3, ScanAdvance DEF ScanDelayed
    <2> QED  BY <1>3, <2>1 DEF ScanDelayed
  <1>4. CASE ScanDeliver(w)
    <2>1. Scanned \in Messages /\ scan.idx \in Nat \ {0}
      BY <1>4, ScannedType DEF ScanDeliver, Scanning, ScanRecords
    <2>2. processing' \subseteq Messages
      BY <1>4, <2>1 DEF ScanDeliver
    <2>3. CASE Stale
      BY <1>4, <2>2, <2>3 DEF ScanDeliver
    <2>4. CASE ~Stale
      <3>1. messages' \in Seq(Messages)
        BY <1>4, <2>4, ScanTakeOut DEF ScanDeliver
      <3>2. /\ batch' \in [Workers -> Seq(Messages)]
            /\ batch'[w] # <<>>
            /\ \A v \in Workers \ {w} : batch'[v] = batch[v]
        <4>1. /\ Append(batch[w], Scanned) \in Seq(Messages)
              /\ Append(batch[w], Scanned) # <<>>
          BY <2>1, AppendType
        <4> QED  BY <1>4, <2>4, <4>1 DEF ScanDeliver
      <3>3. wPc' \in [Workers -> {"poll", "scan", "handle", "ack", "nack"}]
            /\ \A v \in Workers \ {w} : wPc'[v] = wPc[v]
        BY <1>4, <2>4 DEF ScanDeliver
      <3>4. stats' \in [Counters -> Int]
            /\ deliveries' \in [Messages -> Nat]
        <4>1. stats' \in [Counters -> Int]
          BY <1>4, <2>4 DEF ScanDeliver, Bump
        <4>2. deliveries' \in [Messages -> Nat]
          <5>1. /\ deliveries \in [Messages -> Nat] /\ Scanned \in Messages
                /\ deliveries' = [deliveries EXCEPT ![Scanned] = @ + 1]
            BY <1>4, <2>1, <2>4 DEF ScanDeliver
          <5> HIDE DEF TypeInv, TypeOK
          <5> QED  BY <5>1
        <4> QED  BY <4>1, <4>2
      <3>5. lock' \in Holders /\ scan' \in ScanRecords /\ ScanHasLast'
        BY <1>4, <2>4 DEF ScanDeliver, Holders, NoScan, ScanRecords
      <3>6. UNCHANGED <<deadLetter, retryCount, sweep, condemned, owed,
                        topicExists, wedged, crashed, expired, delayed,
                        unsent, pPc, pMsg, accepted, completed, removed,
                        reclaimed, late>>
        BY <1>4, <2>4 DEF ScanDeliver
      <3>7. WorkInHand'
        BY <3>2, <3>3
      <3> QED  BY <2>2, <3>1, <3>2, <3>3, <3>4, <3>5, <3>6, <3>7
    <2> QED  BY <2>3, <2>4
  <1>5. CASE ScanNothing(w)
    <2>1. scan' \in ScanRecords /\ lock' \in Holders /\ ScanHasLast'
      BY <1>5 DEF ScanNothing, NoScan, ScanRecords, Holders
    <2> QED  BY <1>5, <2>1 DEF ScanNothing
  <1>6. CASE Handled(w)
    <2>1. PICK outcome \in {"ack", "nack"} : FindProcessing(w, outcome)
      BY <1>6 DEF Handled
    <2>2. CASE NextInBatch(w)
      BY <2>1, <2>2, NextInBatchType DEF FindProcessing
    <2>3. CASE wPc' = [wPc EXCEPT ![w] = outcome] /\ UNCHANGED batch
      BY <2>1, <2>3 DEF FindProcessing
    <2> QED  BY <2>1, <2>2, <2>3 DEF FindProcessing
  <1>7. CASE Ack(w)
    <2>1. /\ batch' \in [Workers -> Seq(Messages)]
          /\ wPc' \in [Workers -> {"poll", "scan", "handle", "ack", "nack"}]
          /\ WorkInHand' /\ Head(batch[w]) \in Messages
      BY <1>7, NextInBatchType DEF Ack
    <2>2. stats' \in [Counters -> Int] /\ late' \in [Settlements -> Nat]
      <3>1. stats' \in [Counters -> Int]
        BY <1>7 DEF Ack, Bump
      <3>2. late' \in [Settlements -> Nat]
        <4>1. late \in [Settlements -> Nat] /\ CountLate("ack", w)
          BY <1>7 DEF Ack
        <4> HIDE DEF TypeInv, TypeOK
        <4>2. Late(w) \in Nat
          BY DEF Late
        <4>3. late["ack"] + Late(w) \in Nat /\ "ack" \in Settlements
          BY <4>1, <4>2 DEF Settlements
        <4> QED  BY <4>1, <4>3 DEF CountLate
      <3> QED  BY <3>1, <3>2
    <2> QED  BY <1>7, <2>1, <2>2 DEF Ack
  <1>8. CASE Nack(w)
    <2>1. /\ batch' \in [Workers -> Seq(Messages)]
          /\ wPc' \in [Workers -> {"poll", "scan", "handle", "ack", "nack"}]
          /\ WorkInHand' /\ Head(batch[w]) \in Messages
      BY <1>8, NextInBatchType DEF Nack
    <2>2. stats' \in [Counters -> Int] /\ late' \in [Settlements -> Nat]
      <3>1. stats' \in [Counters -> Int]
        BY <1>8 DEF Nack, Bump
      <3>2. late' \in [Settlements -> Nat]
        <4>1. late \in [Settlements -> Nat] /\ CountLate("nack", w)
          BY <1>8 DEF Nack
        <4> HIDE DEF TypeInv, TypeOK
        <4>2. Late(w) \in Nat
          BY DEF Late
        <4>3. late["nack"] + Late(w) \in Nat /\ "nack" \in Settlements
          BY <4>1, <4>2 DEF Settlements
        <4> QED  BY <4>1, <4>3 DEF CountLate
      <3> QED  BY <3>1, <3>2
    <2>3. /\ messages' \in Seq(Messages) /\ deadLetter' \in Seq(Messages)
          /\ retryCount' \in [Messages -> Nat]
      BY <1>8, <2>1, GiveBackType DEF Nack
    <2> QED  BY <1>8, <2>1, <2>2, <2>3 DEF Nack
  <1> QED
    BY <1>1, <1>2, <1>3, <1>4, <1>5, <1>6, <1>7, <1>8 DEF WorkerStep

\* Neither the cleanup goroutine nor management calls nor time do.
LEMMA TypeOther ==
  ASSUME TypeInv, CleanupStep \/ AdminStep \/ TimeStep
  PROVE  TypeInv'
  <1> USE DEF TypeInv, TypeOK, WorkInHand, SendsMessage, ScanHasLast,
          topicVars, lockVars, statVars, stopVars, timeVars, prodVars,
          workVars, ghostVars
  <1>1. CASE StartSweep
    BY <1>1 DEF StartSweep, Holders
  <1>2. CASE EndSweep
    BY <1>2 DEF EndSweep, Holders
  <1>3. CASE FindIdle
    BY <1>3 DEF FindIdle
  <1>4. ASSUME NEW m \in Messages, Reclaim(m)
        PROVE  TypeInv'
    <2>1. /\ messages' \in Seq(Messages) /\ deadLetter' \in Seq(Messages)
          /\ retryCount' \in [Messages -> Nat]
      BY <1>4, GiveBackType DEF Reclaim
    <2> QED  BY <1>4, <2>1 DEF Reclaim
  <1>5. CASE Purge
    <2>1. /\ ToSet(messages) \subseteq Messages
          /\ ToSet(deadLetter) \subseteq Messages
      BY DEF ToSet
    <2>2. stats' \in [Counters -> Int]
      <3>1. IsFiniteSet(processing)
        BY FinitenessAssumption, FS_Subset
      <3>2. Cardinality(processing) \in Nat
        BY <3>1, FS_CardinalityType
      <3>3. Len(messages) \in Nat /\ Len(deadLetter) \in Nat
        OBVIOUS
      <3>4. \A c \in Counters : stats'[c] \in Int
        BY <1>5, <3>2, <3>3 DEF Purge, Counters
      <3>5. stats' = [c \in Counters |-> stats'[c]]
        BY <1>5 DEF Purge
      <3> QED  BY <3>4, <3>5
    <2>3. messages' \in Seq(Messages) /\ deadLetter' \in Seq(Messages)
      BY <1>5 DEF Purge
    <2>4. processing' \subseteq Messages /\ removed' \subseteq Messages
      BY <1>5, <2>1 DEF Purge
    <2> QED  BY <1>5, <2>2, <2>3, <2>4 DEF Purge
  <1>6. CASE Delete
    BY <1>6 DEF Delete
  <1>7. ASSUME NEW c \in Parts, DeleteMessageStats(c)
        PROVE  TypeInv'
    <2>1. stats' \in [Counters -> Int] /\ owed' \in [Parts -> Nat]
      BY <1>7 DEF DeleteMessageStats, Bump
    <2> QED  BY <1>7, <2>1 DEF DeleteMessageStats
  <1>8. ASSUME NEW m \in Messages, DeleteMessage(m)
        PROVE  TypeInv'
    <2>1. messages' \in Seq(Messages) /\ deadLetter' \in Seq(Messages)
      BY <1>8, RemoveFirstType DEF DeleteMessage
    <2>2. processing' \subseteq Messages
      BY <1>8 DEF DeleteMessage
    <2>3. \A c \in Parts : OwesIn(c) => owed' \in [Parts -> Nat]
      BY DEF OwesIn
    <2>4. owed' \in [Parts -> Nat]
      BY <1>8, <2>3 DEF DeleteMessage, Parts
    <2> QED  BY <1>8, <2>1, <2>2, <2>4 DEF DeleteMessage
  <1>9. ASSUME NEW m \in Messages, Expire(m) \/ BecomeDue(m)
        PROVE  TypeInv'
    BY <1>9 DEF Expire, BecomeDue
  <1> QED
    BY <1>1, <1>2, <1>3, <1>4, <1>5, <1>6, <1>7, <1>8, <1>9
    DEF CleanupStep, AdminStep, TimeStep

\* A stuttering step keeps them.
LEMMA TypeStutter ==
  ASSUME TypeInv, UNCHANGED vars
  PROVE  TypeInv'
  BY DEF TypeInv, TypeOK, WorkInHand, SendsMessage, ScanHasLast, vars,
     topicVars, lockVars, statVars, stopVars, timeVars, prodVars, workVars,
     ghostVars

\* Type correctness of the queue and of everything that uses it.
THEOREM TypeCorrect == Spec => []TypeOK
  <1>1. Init => TypeInv
    BY TypeInit
  <1>2. TypeInv /\ [Next]_vars => TypeInv'
    BY TypeEnqueue, TypeWorker, TypeOther, TypeStutter DEF Next
  <1>3. TypeInv => TypeOK
    BY DEF TypeInv
  <1> QED  BY <1>1, <1>2, <1>3, PTL DEF Spec

-----------------------------------------------------------------------------
(* No accepted message is lost *)

\* Inserting keeps every message and adds the new one.
LEMMA InsertKeeps ==
  ASSUME NEW q \in Seq(Messages), NEW m \in Messages
  PROVE  ToSet(q) \cup {m} \subseteq ToSet(insertByPriority(q, m))
  <1> DEFINE r == insertByPriority(q, m)
  <1>1. PICK i \in 1 .. Len(q) + 1 :
          /\ r \in Seq(Messages) /\ Len(r) = Len(q) + 1 /\ r[i] = m
          /\ \A k \in 1 .. i - 1 : r[k] = q[k]
          /\ \A k \in i + 1 .. Len(q) + 1 : r[k] = q[k - 1]
    BY InsertShape
  <1>2. /\ r \in Seq(Messages) /\ Len(r) = Len(q) + 1 /\ r[i] = m
        /\ \A k \in 1 .. i - 1 : r[k] = q[k]
        /\ \A k \in i + 1 .. Len(q) + 1 : r[k] = q[k - 1]
    BY <1>1
  <1> HIDE DEF r
  <1>3. m \in ToSet(r)
    BY <1>1, <1>2 DEF ToSet
  <1>4. ASSUME NEW k \in 1 .. Len(q)
        PROVE  q[k] \in ToSet(r)
    <2>1. CASE k < i
      BY <1>1, <1>2, <2>1 DEF ToSet
    <2>2. CASE k >= i
      <3>1. k + 1 \in i + 1 .. Len(q) + 1 /\ k + 1 \in DOMAIN r
        BY <1>1, <1>2, <2>2
      <3>2. r[k + 1] = q[(k + 1) - 1] /\ (k + 1) - 1 = k
        BY <1>2, <3>1
      <3> QED  BY <3>1, <3>2 DEF ToSet
    <2> QED  BY <1>1, <2>1, <2>2
  <1>5. ToSet(q) \subseteq ToSet(r)
    BY <1>4 DEF ToSet
  <1> QED  BY <1>3, <1>5 DEF r

\* Taking out an index loses at most the message that was there.
LEMMA TakeOutKeeps ==
  ASSUME NEW q \in Seq(Messages), NEW i \in 1 .. Len(q)
  PROVE  ToSet(q) \subseteq ToSet(TakeOut(q, i)) \cup {q[i]}
  <1> DEFINE r == TakeOut(q, i)
  <1>1. /\ r \in Seq(Messages) /\ Len(r) = Len(q) - 1
        /\ \A k \in 1 .. i - 1 : r[k] = q[k]
        /\ \A k \in i .. Len(q) - 1 : r[k] = q[k + 1]
    BY TakeOutShape
  <1> HIDE DEF r
  <1>2. ASSUME NEW k \in 1 .. Len(q), k # i
        PROVE  q[k] \in ToSet(r)
    <2>1. CASE k < i
      BY <1>1, <2>1 DEF ToSet
    <2>2. CASE k > i
      <3>1. k - 1 \in i .. Len(q) - 1 /\ k - 1 \in DOMAIN r
        BY <1>1, <2>2
      <3>2. r[k - 1] = q[(k - 1) + 1] /\ (k - 1) + 1 = k
        BY <1>1, <3>1
      <3> QED  BY <3>1, <3>2 DEF ToSet
    <2> QED  BY <1>2, <2>1, <2>2
  <1> QED  BY <1>2 DEF ToSet, r

\* Appending adds one element.
LEMMA AppendKeeps ==
  ASSUME NEW q \in Seq(Messages), NEW m \in Messages
  PROVE  ToSet(Append(q, m)) = ToSet(q) \cup {m}
  <1> DEFINE r == Append(q, m)
  <1>1. /\ r \in Seq(Messages) /\ Len(r) = Len(q) + 1 /\ r[Len(q) + 1] = m
        /\ \A k \in 1 .. Len(q) : r[k] = q[k]
    OBVIOUS
  <1> HIDE DEF r
  <1>2. DOMAIN r = DOMAIN q \cup {Len(q) + 1}
    BY <1>1
  <1>3. ToSet(r) \subseteq ToSet(q) \cup {m}
    BY <1>1, <1>2 DEF ToSet
  <1>4. ToSet(q) \cup {m} \subseteq ToSet(r)
    BY <1>1, <1>2 DEF ToSet
  <1> QED  BY <1>3, <1>4 DEF r

\* A message given back is in the queue or among the dead letters, and
\* nothing else leaves either.
LEMMA GiveBackKeeps ==
  ASSUME TypeInv, NEW m \in Messages, Requeue(m) \/ DeadLetter(m)
  PROVE  ToSet(messages) \cup ToSet(deadLetter) \cup {m}
           \subseteq ToSet(messages') \cup ToSet(deadLetter')
  <1> USE DEF TypeInv, TypeOK
  <1>1. CASE Requeue(m)
    BY <1>1, InsertKeeps DEF Requeue
  <1>2. CASE DeadLetter(m)
    BY <1>2, AppendKeeps DEF DeadLetter
  <1> QED  BY <1>1, <1>2

\* Producers lose nothing, and neither do workers, the cleanup, management
\* calls and time.
LEMMA NothingLostEnqueue ==
  ASSUME TypeInv, NothingLost, NEW p \in Producers, EnqueueStep(p)
  PROVE  NothingLost'
  <1> USE DEF NothingLost, Live, Accepted, topicVars, prodVars, ghostVars
  <1>1. CASE \E m \in Messages : EnqueueCheck(p, m)
    BY <1>1 DEF EnqueueCheck
  <1>2. CASE getOrCreateTopic(p)
    BY <1>2 DEF getOrCreateTopic
  <1>3. CASE EnqueueInsert(p)
    <2>1. pMsg[p] \in Messages
      BY <1>3 DEF EnqueueInsert, TypeInv, SendsMessage
    <2>2. ToSet(messages) \cup {pMsg[p]} \subseteq ToSet(messages')
      BY <1>3, <2>1, InsertKeeps DEF EnqueueInsert, TypeInv, TypeOK
    <2>3. ToSet(accepted') = ToSet(accepted) \cup {pMsg[p]}
      BY <1>3, <2>1, AppendKeeps DEF EnqueueInsert, TypeInv, TypeOK
    <2> QED  BY <1>3, <2>2, <2>3 DEF EnqueueInsert
  <1> QED  BY <1>1, <1>2, <1>3 DEF EnqueueStep

LEMMA NothingLostWorker ==
  ASSUME TypeInv, NothingLost, NEW w \in Workers, WorkerStep(w)
  PROVE  NothingLost'
  <1> USE DEF NothingLost, Live, Accepted, topicVars, prodVars, ghostVars
  <1>1. CASE StartScan(w)
    BY <1>1 DEF StartScan
  <1>2. CASE ScanExpired(w)
    <2>1. Scanned \in Messages
      BY <1>2, ScannedType DEF ScanExpired, Scanning
    <2>2. ToSet(deadLetter') = ToSet(deadLetter) \cup {Scanned}
      BY <1>2, <2>1, AppendKeeps DEF ScanExpired, TypeInv, TypeOK
    <2>3. ToSet(messages) \subseteq ToSet(messages') \cup {Scanned}
      <3>1. CASE Stale
        BY <1>2, <3>1 DEF ScanExpired
      <3>2. CASE ~Stale
        BY <1>2, <3>2, ScanTakeOut, TakeOutKeeps
        DEF ScanExpired, TypeInv, TypeOK
      <3> QED  BY <3>1, <3>2
    <2> QED  BY <1>2, <2>2, <2>3 DEF ScanExpired
  <1>3. CASE ScanDelayed(w)
    BY <1>3 DEF ScanDelayed
  <1>4. CASE ScanDeliver(w)
    <2>1. ToSet(messages) \subseteq ToSet(messages') \cup {Scanned}
      <3>1. CASE Stale
        BY <1>4, <3>1 DEF ScanDeliver
      <3>2. CASE ~Stale
        BY <1>4, <3>2, ScanTakeOut, TakeOutKeeps
        DEF ScanDeliver, TypeInv, TypeOK
      <3> QED  BY <3>1, <3>2
    <2> QED  BY <1>4, <2>1 DEF ScanDeliver
  <1>5. CASE ScanNothing(w)
    BY <1>5 DEF ScanNothing
  <1>6. CASE Handled(w)
    BY <1>6 DEF Handled, FindProcessing
  <1>7. CASE Ack(w)
    BY <1>7 DEF Ack
  <1>8. CASE Nack(w)
    <2> DEFINE m == Head(batch[w])
    <2>1. m \in Messages
      BY <1>8, NextInBatchType DEF Nack
    <2>2. /\ processing' = processing \ {m}
          /\ Requeue(m) \/ DeadLetter(m)
      BY <1>8 DEF Nack
    <2> HIDE DEF m
    <2>3. ToSet(messages) \cup ToSet(deadLetter) \cup {m}
            \subseteq ToSet(messages') \cup ToSet(deadLetter')
      BY <2>1, <2>2, GiveBackKeeps
    <2> QED  BY <1>8, <2>2, <2>3 DEF Nack
  <1> QED
    BY <1>1, <1>2, <1>3, <1>4, <1>5, <1>6, <1>7, <1>8 DEF WorkerStep

LEMMA NothingLostOther ==
  ASSUME TypeInv, NothingLost, CleanupStep \/ AdminStep \/ TimeStep
  PROVE  NothingLost'
  <1> USE DEF NothingLost, Live, Accepted, topicVars, prodVars, ghostVars
  <1>1. CASE StartSweep \/ EndSweep \/ FindIdle
    BY <1>1 DEF StartSweep, EndSweep, FindIdle
  <1>2. ASSUME NEW m \in Messages, Reclaim(m)
        PROVE  NothingLost'
    <2>1. ToSet(messages) \cup ToSet(deadLetter) \cup {m}
            \subseteq ToSet(messages') \cup ToSet(deadLetter')
      BY <1>2, GiveBackKeeps DEF Reclaim
    <2> QED  BY <1>2, <2>1 DEF Reclaim
  <1>3. CASE Purge
    BY <1>3 DEF Purge
  <1>4. CASE Delete \/ \E c \in Parts : DeleteMessageStats(c)
    BY <1>4 DEF Delete, DeleteMessageStats
  <1>5. ASSUME NEW m \in Messages, DeleteMessage(m)
        PROVE  NothingLost'
    <2>1. ASSUME NEW q \in Seq(Messages)
          PROVE  ToSet(q) \subseteq ToSet(RemoveFirst(q, m)) \cup {m}
      BY RemoveFirstShape, TakeOutKeeps
    <2>2. /\ ToSet(messages) \subseteq ToSet(messages') \cup {m}
          /\ ToSet(deadLetter) \subseteq ToSet(deadLetter') \cup {m}
          /\ processing \subseteq processing' \cup {m}
      BY <1>5, <2>1 DEF DeleteMessage, TypeInv, TypeOK
    <2> QED  BY <1>5, <2>2 DEF DeleteMessage
  <1>6. ASSUME NEW m \in Messages, Expire(m) \/ BecomeDue(m)
        PROVE  NothingLost'
    BY <1>6 DEF Expire, BecomeDue
  <1> QED
    BY <1>1, <1>2, <1>3, <1>4, <1>5, <1>6
    DEF CleanupStep, AdminStep, TimeStep

\* No accepted message is lost, whatever acks, nacks, sweeps, expiries,
\* purges and the crash of a scan interleave.
THEOREM MessagesKept == Spec => []NothingLost
  <1>1. Init => TypeInv /\ NothingLost
    BY TypeInit DEF Init, NothingLost, Accepted, ToSet
  <1>2. TypeInv /\ NothingLost /\ [Next]_vars => (TypeInv /\ NothingLost)'
    <2>1. TypeInv /\ [Next]_vars => TypeInv'
      BY TypeEnqueue, TypeWorker, TypeOther, TypeStutter DEF Next
    <2>2. TypeInv /\ NothingLost /\ Next => NothingLost'
      BY NothingLostEnqueue, NothingLostWorker, NothingLostOther DEF Next
    <2>3. NothingLost /\ UNCHANGED vars => NothingLost'
      BY DEF vars, topicVars, prodVars, ghostVars, NothingLost, Live, Accepted
    <2> QED  BY <2>1, <2>2, <2>3
  <1> QED  BY <1>1, <1>2, PTL DEF Spec

-----------------------------------------------------------------------------
(* The topic stays in priority order *)

Ordered(q) ==
  \A i, j \in 1 .. Len(q) : i < j => Priority[q[i]] >= Priority[q[j]]

\* insertByPriority keeps an ordered topic ordered.
LEMMA InsertOrdered ==
  ASSUME NEW q \in Seq(Messages), NEW m \in Messages, Ordered(q)
  PROVE  Ordered(insertByPriority(q, m))
  <1> DEFINE r == insertByPriority(q, m)
  <1>0. PICK x \in 1 .. Len(q) + 1 :
          /\ \A j \in 1 .. x - 1 : Priority[m] <= Priority[q[j]]
          /\ x <= Len(q) => Priority[m] > Priority[q[x]]
          /\ r \in Seq(Messages) /\ Len(r) = Len(q) + 1 /\ r[x] = m
          /\ \A k \in 1 .. x - 1 : r[k] = q[k]
          /\ \A k \in x + 1 .. Len(q) + 1 : r[k] = q[k - 1]
    BY InsertShape
  <1>1. /\ x \in 1 .. Len(q) + 1
        /\ \A j \in 1 .. x - 1 : Priority[m] <= Priority[q[j]]
        /\ x <= Len(q) => Priority[m] > Priority[q[x]]
    BY <1>0
  <1>2. /\ r \in Seq(Messages) /\ Len(r) = Len(q) + 1 /\ r[x] = m
        /\ \A k \in 1 .. x - 1 : r[k] = q[k]
        /\ \A k \in x + 1 .. Len(q) + 1 : r[k] = q[k - 1]
    BY <1>0
  <1> HIDE DEF r
  <1>3. \A k \in 1 .. Len(q) : Priority[q[k]] \in Nat
    BY ParamsAssumption
  <1>4. Priority[m] \in Nat
    BY ParamsAssumption
  <1>5. \A k \in x .. Len(q) : Priority[m] >= Priority[q[k]]
    <2> SUFFICES ASSUME NEW k \in x .. Len(q)
                 PROVE  Priority[m] >= Priority[q[k]]
      OBVIOUS
    <2>1. x \in 1 .. Len(q) /\ k \in 1 .. Len(q)
      BY <1>1
    <2>2. Priority[q[x]] >= Priority[q[k]]
      BY <1>3, <2>1 DEF Ordered
    <2> QED  BY <1>1, <1>3, <1>4, <2>1, <2>2
  <1>6. ASSUME NEW i \in 1 .. Len(r), NEW j \in 1 .. Len(r), i < j
        PROVE  Priority[r[i]] >= Priority[r[j]]
    <2>1. CASE j < x
      <3>1. i \in 1 .. x - 1 /\ j \in 1 .. x - 1
            /\ i \in 1 .. Len(q) /\ j \in 1 .. Len(q)
        BY <1>1, <1>2, <1>6, <2>1
      <3> QED  BY <1>2, <1>6, <3>1 DEF Ordered
    <2>2. CASE j = x
      <3>1. i \in 1 .. x - 1
        BY <1>1, <1>2, <1>6, <2>2
      <3>2. i \in 1 .. Len(q)
        BY <1>1, <3>1
      <3> QED  BY <1>1, <1>2, <1>3, <1>4, <2>2, <3>1, <3>2
    <2>3. CASE i = x
      <3>1. j \in x + 1 .. Len(q) + 1 /\ j - 1 \in x .. Len(q)
        BY <1>1, <1>2, <1>6, <2>3
      <3> QED  BY <1>2, <1>5, <2>3, <3>1
    <2>4. CASE i < x /\ x < j
      <3>1. /\ i \in 1 .. x - 1 /\ i \in 1 .. Len(q)
            /\ j \in x + 1 .. Len(q) + 1
            /\ j - 1 \in 1 .. Len(q) /\ j - 1 \in x .. Len(q)
        BY <1>1, <1>2, <1>6, <2>4
      <3>2. Priority[q[i]] >= Priority[m] /\ Priority[m] >= Priority[q[j - 1]]
        BY <1>1, <1>3, <1>4, <1>5, <3>1
      <3>3. Priority[q[i]] >= Priority[q[j - 1]]
        BY <1>3, <1>4, <3>1, <3>2
      <3> QED  BY <1>2, <3>1, <3>3
    <2>5. CASE x < i
      <3>1. /\ i \in x + 1 .. Len(q) + 1 /\ j \in x + 1 .. Len(q) + 1
            /\ i - 1 \in 1 .. Len(q) /\ j - 1 \in 1 .. Len(q)
            /\ i - 1 < j - 1
        BY <1>1, <1>2, <1>6, <2>5
      <3>2. Priority[q[i - 1]] >= Priority[q[j - 1]]
        BY <3>1 DEF Ordered
      <3> QED  BY <1>2, <3>1, <3>2
    <2> QED  BY <1>1, <1>2, <1>6, <2>1, <2>2, <2>3, <2>4, <2>5
  <1> QED  BY <1>6 DEF Ordered, r

\* Removals keep an ordered topic ordered.
LEMMA TakeOutOrdered ==
  ASSUME NEW q \in Seq(Messages), NEW x \in 1 .. Len(q), Ordered(q)
  PROVE  Ordered(TakeOut(q, x))
  <1> DEFINE r == TakeOut(q, x)
  <1>1. /\ r \in Seq(Messages) /\ Len(r) = Len(q) - 1
        /\ \A k \in 1 .. x - 1 : r[k] = q[k]
        /\ \A k \in x .. Len(q) - 1 : r[k] = q[k + 1]
    BY TakeOutShape
  <1> HIDE DEF r
  <1> DEFINE f(k) == IF k < x THEN k ELSE k + 1
  <1>2. \A k \in 1 .. Len(r) : f(k) \in 1 .. Len(q) /\ r[k] = q[f(k)]
    BY <1>1
  <1>3. \A i, j \in 1 .. Len(r) : i < j => f(i) < f(j)
    BY <1>1
  <1> HIDE DEF f
  <1>4. Ordered(r)
    BY <1>2, <1>3 DEF Ordered
  <1> QED  BY <1>4 DEF r

LEMMA RemoveFirstOrdered ==
  ASSUME NEW q \in Seq(Messages), NEW m, Ordered(q)
  PROVE  Ordered(RemoveFirst(q, m))
  BY RemoveFirstShape, TakeOutOrdered

\* Every step keeps the topic ordered.
LEMMA OrderStep ==
  ASSUME TypeInv, Ordered(messages), Next
  PROVE  Ordered(messages')
  <1> USE DEF topicVars
  <1>1. messages \in Seq(Messages)
    BY DEF TypeInv, TypeOK
  <1>2. ASSUME NEW m \in Messages, Requeue(m) \/ DeadLetter(m)
        PROVE  Ordered(messages')
    BY <1>1, <1>2, InsertOrdered DEF Requeue, DeadLetter
  <1>3. ASSUME NEW p \in Producers, EnqueueStep(p)
        PROVE  Ordered(messages')
    <2>1. CASE EnqueueInsert(p)
      <3>1. pMsg[p] \in Messages
        BY <2>1 DEF EnqueueInsert, TypeInv, SendsMessage
      <3> QED  BY <1>1, <2>1, <3>1, InsertOrdered DEF EnqueueInsert
    <2>2. CASE ~ EnqueueInsert(p)
      BY <1>3, <2>2 DEF EnqueueStep, EnqueueCheck, getOrCreateTopic
    <2> QED  BY <2>1, <2>2
  <1>4. ASSUME NEW w \in Workers, WorkerStep(w)
        PROVE  Ordered(messages')
    <2>1. CASE ScanExpired(w) \/ ScanDeliver(w)
      <3>1. CASE Stale
        BY <2>1, <3>1 DEF ScanExpired, ScanDeliver
      <3>2. CASE ~Stale
        BY <1>1, <2>1, <3>2, ScanTakeOut, TakeOutOrdered
        DEF ScanExpired, ScanDeliver
      <3> QED  BY <3>1, <3>2
    <2>2. CASE Nack(w)
      <3> DEFINE m == Head(batch[w])
      <3>1. m \in Messages
        BY <2>2, NextInBatchType DEF Nack
      <3>2. Requeue(m) \/ DeadLetter(m)
        BY <2>2 DEF Nack
      <3> HIDE DEF m
      <3> QED  BY <1>2, <3>1, <3>2
    <2>3. CASE StartScan(w) \/ ScanDelayed(w) \/ ScanNothing(w)
                 \/ Handled(w) \/ Ack(w)
      BY <2>3 DEF StartScan, ScanDelayed, ScanNothing, Handled,
                  FindProcessing, Ack
    <2> QED  BY <1>4, <2>1, <2>2, <2>3 DEF WorkerStep
  <1>5. CASE CleanupStep
    <2>1. ASSUME NEW m \in Messages, Reclaim(m)
          PROVE  Ordered(messages')
      BY <1>2, <2>1 DEF Reclaim
    <2>2. CASE StartSweep \/ EndSweep \/ FindIdle
      BY <2>2 DEF StartSweep, EndSweep, FindIdle
    <2> QED  BY <1>5, <2>1, <2>2 DEF CleanupStep
  <1>6. CASE AdminStep
    <2>1. CASE Purge
      BY <2>1 DEF Purge, Ordered
    <2>2. ASSUME NEW m \in Messages, DeleteMessage(m)
          PROVE  Ordered(messages')
      BY <1>1, <2>2, RemoveFirstOrdered DEF DeleteMessage
    <2>3. CASE Delete \/ \E c \in Parts : DeleteMessageStats(c)
      BY <2>3 DEF Delete, DeleteMessageStats
    <2> QED  BY <1>6, <2>1, <2>2, <2>3 DEF AdminStep
  <1>7. CASE TimeStep
    BY <1>7 DEF TimeStep, Expire, BecomeDue
  <1> QED  BY <1>3, <1>4, <1>5, <1>6, <1>7 DEF Next

\* The topic is in priority order in every reachable state.
THEOREM OrderKept == Spec => []PriorityOrder
  <1>1. Init => TypeInv /\ Ordered(messages)
    BY TypeInit DEF Init, Ordered
  <1>2. TypeInv /\ Ordered(messages) /\ [Next]_vars
          => TypeInv' /\ Ordered(messages')
    <2>1. TypeInv /\ [Next]_vars => TypeInv'
      BY TypeEnqueue, TypeWorker, TypeOther, TypeStutter DEF Next
    <2>2. Ordered(messages) /\ UNCHANGED vars => Ordered(messages')
      BY DEF vars, topicVars
    <2> QED  BY <2>1, <2>2, OrderStep
  <1>3. Ordered(messages) => PriorityOrder
    BY DEF Ordered, PriorityOrder
  <1>4. Ordered(messages') <=> Ordered(messages)'
    BY DEF Ordered
  <1> QED  BY <1>1, <1>2, <1>3, <1>4, PTL DEF Spec

-----------------------------------------------------------------------------
(* No message is handed out more than 1 + MaxRetries times *)

Places(q, m) == {k \in DOMAIN q : q[k] = m}

\* The copies of a message in a queue can be counted.
LEMMA CopiesType ==
  ASSUME NEW q \in Seq(Messages), NEW m
  PROVE  IsFiniteSet(Places(q, m)) /\ Copies(q, m) \in Nat
  <1>1. IsFiniteSet(1 .. Len(q))
    BY FS_Interval
  <1>2. Places(q, m) \in SUBSET (1 .. Len(q))
    BY DEF Places
  <1>3. IsFiniteSet(Places(q, m))
    BY <1>1, <1>2, FS_Subset
  <1> QED  BY <1>3, FS_CardinalityType DEF Copies, Places

\* Taking out an index takes away one copy of the message that was there.
LEMMA CopiesTakeOut ==
  ASSUME NEW q \in Seq(Messages), NEW x \in 1 .. Len(q), NEW m
  PROVE  Copies(TakeOut(q, x), m)
           = Copies(q, m) - (IF q[x] = m THEN 1 ELSE 0)
  <1> DEFINE r == TakeOut(q, x)
             S == Places(q, m) \ {x}
             T == Places(r, m)
             f == [k \in S |-> IF k < x THEN k ELSE k - 1]
  <1>1. /\ r \in Seq(Messages) /\ Len(r) = Len(q) - 1
        /\ \A k \in 1 .. x - 1 : r[k] = q[k]
        /\ \A k \in x .. Len(q) - 1 : r[k] = q[k + 1]
    BY TakeOutShape
  <1> HIDE DEF r
  <1>2. f \in Bijection(S, T)
    <2>1. ASSUME NEW k \in S
          PROVE  f[k] \in T
      <3>1. k \in 1 .. Len(q) /\ k # x /\ q[k] = m
        BY DEF Places
      <3>2. CASE k < x
        <4>1. f[k] = k /\ k \in 1 .. x - 1 /\ k \in 1 .. Len(r)
          BY <1>1, <3>1, <3>2
        <4> QED  BY <1>1, <3>1, <4>1 DEF Places
      <3>3. CASE k > x
        <4>1. f[k] = k - 1 /\ k - 1 \in x .. Len(q) - 1 /\ k - 1 \in 1 .. Len(r)
          BY <1>1, <3>1, <3>3
        <4>2. r[k - 1] = q[(k - 1) + 1] /\ (k - 1) + 1 = k
          <5>1. r[k - 1] = q[(k - 1) + 1]
            BY <1>1, <4>1
          <5>2. (k - 1) + 1 = k
            BY <3>1
          <5> QED  BY <5>1, <5>2
        <4> QED  BY <1>1, <3>1, <4>1, <4>2 DEF Places
      <3> QED  BY <3>1, <3>2, <3>3
    <2>2. \A j, k \in S : f[j] = f[k] => j = k
      <3>1. S \subseteq (1 .. Len(q)) \ {x}
        BY DEF Places
      <3> HIDE DEF S
      <3> QED  BY <3>1
    <2>3. ASSUME NEW t \in T
          PROVE  \E k \in S : f[k] = t
      <3>1. t \in 1 .. Len(q) - 1 /\ r[t] = m
        BY <1>1 DEF Places
      <3>2. CASE t < x
        <4>1. t \in S
          BY <1>1, <3>1, <3>2 DEF Places
        <4> QED  BY <3>2, <4>1
      <3>3. CASE t >= x
        <4>1. t + 1 \in 1 .. Len(q) /\ q[t + 1] = m /\ t + 1 # x
          BY <1>1, <3>1, <3>3
        <4>2. t + 1 \in S /\ f[t + 1] = t
          BY <3>1, <3>3, <4>1 DEF Places
        <4> QED  BY <4>2
      <3> QED  BY <3>1, <3>2, <3>3
    <2> HIDE DEF S, T
    <2>4. f \in [S -> T]
      <3>1. \A k \in S : f[k] \in T
        BY <2>1
      <3> QED  BY <3>1
    <2> HIDE DEF f
    <2> QED
      BY <2>2, <2>3, <2>4, Zenon DEF Bijection, Injection, Surjection, IsInjective
  <1>3. IsFiniteSet(S)
        /\ Cardinality(S) = IF x \in Places(q, m)
                            THEN Cardinality(Places(q, m)) - 1
                            ELSE Cardinality(Places(q, m))
    BY CopiesType, FS_RemoveElement
  <1>4. Cardinality(T) = Cardinality(S)
    <2> HIDE DEF S, T, f
    <2>1. ExistsBijection(S, T)
      BY <1>2 DEF ExistsBijection
    <2> QED  BY <1>3, <2>1, FS_Bijection
  <1>5. x \in Places(q, m) <=> q[x] = m
    BY DEF Places
  <1>6. /\ Copies(r, m) = Cardinality(T)
        /\ Copies(q, m) = Cardinality(Places(q, m))
    BY DEF Copies, Places
  <1> HIDE DEF S, T
  <1>7. Copies(q, m) \in Nat
    BY CopiesType
  <1> QED  BY <1>3, <1>4, <1>5, <1>6, <1>7 DEF r

\* Inserting adds one copy of the inserted message.
LEMMA CopiesInsert ==
  ASSUME NEW q \in Seq(Messages), NEW e \in Messages, NEW m
  PROVE  Copies(insertByPriority(q, e), m)
           = Copies(q, m) + (IF e = m THEN 1 ELSE 0)
  <1> DEFINE r == insertByPriority(q, e)
  <1>1. PICK x \in 1 .. Len(q) + 1 :
          /\ r \in Seq(Messages) /\ Len(r) = Len(q) + 1 /\ r[x] = e
          /\ \A k \in 1 .. x - 1 : r[k] = q[k]
          /\ \A k \in x + 1 .. Len(q) + 1 : r[k] = q[k - 1]
    BY InsertShape
  <1>2. /\ r \in Seq(Messages) /\ Len(r) = Len(q) + 1 /\ r[x] = e
        /\ \A k \in 1 .. x - 1 : r[k] = q[k]
        /\ \A k \in x + 1 .. Len(q) + 1 : r[k] = q[k - 1]
    BY <1>1
  <1> HIDE DEF r
  <1>3. x \in 1 .. Len(r)
    BY <1>1, <1>2
  <1>4. TakeOut(r, x) = q
    <2> DEFINE t == TakeOut(r, x)
    <2>1. /\ t \in Seq(Messages) /\ Len(t) = Len(q)
          /\ \A k \in 1 .. x - 1 : t[k] = r[k]
          /\ \A k \in x .. Len(q) : t[k] = r[k + 1]
      <3>1. /\ t \in Seq(Messages) /\ Len(t) = Len(r) - 1
            /\ \A k \in 1 .. x - 1 : t[k] = r[k]
            /\ \A k \in x .. Len(r) - 1 : t[k] = r[k + 1]
        BY <1>2, <1>3, TakeOutShape
      <3>2. Len(r) - 1 = Len(q)
        BY <1>2
      <3> QED  BY <3>1, <3>2
    <2> HIDE DEF t
    <2>2. ASSUME NEW k \in 1 .. Len(q)
          PROVE  t[k] = q[k]
      <3>1. CASE k < x
        <4>1. k \in 1 .. x - 1
          BY <1>1, <3>1
        <4>2. t[k] = r[k] /\ r[k] = q[k]
          BY <1>2, <2>1, <4>1
        <4> QED  BY <4>2
      <3>2. CASE k >= x
        <4>1. k \in x .. Len(q) /\ k + 1 \in x + 1 .. Len(q) + 1
          BY <1>1, <3>2
        <4>2. t[k] = r[k + 1]
          BY <2>1, <4>1
        <4>3. r[k + 1] = q[(k + 1) - 1]
          BY <1>2, <4>1
        <4>4. (k + 1) - 1 = k
          OBVIOUS
        <4> QED  BY <4>2, <4>3, <4>4
      <3>3. k < x \/ k >= x
        BY <1>1
      <3> QED  BY <3>1, <3>2, <3>3
    <2>3. t = q
      BY <2>1, <2>2, SeqEqual
    <2> QED  BY <2>3 DEF t
  <1>5. Copies(q, m) = Copies(r, m) - (IF e = m THEN 1 ELSE 0)
    BY <1>2, <1>3, <1>4, CopiesTakeOut
  <1>6. Copies(r, m) \in Nat /\ Copies(q, m) \in Nat
    BY <1>2, CopiesType
  <1> QED  BY <1>5, <1>6 DEF r

\* Each message goes through Enqueue once: it is unsent, in the hands of
\* one producer, accepted, or was turned away.
SentOnce ==
  /\ Accepted \cap unsent = {}
  /\ \A p \in InFlight : pMsg[p] \notin Accepted \cup unsent
  /\ \A p, r \in InFlight : pMsg[p] = pMsg[r] => p = r

\* A message is with one producer or accepted, and never both.
LEMMA SentOnceStep ==
  ASSUME TypeInv, SentOnce, [Next]_vars
  PROVE  SentOnce'
  <1> USE DEF SentOnce, InFlight, Accepted, prodVars
  <1>1. ASSUME NEW p \in Producers, EnqueueStep(p)
        PROVE  SentOnce'
    <2>1. ASSUME NEW m \in Messages, EnqueueCheck(p, m)
          PROVE  SentOnce'
      <3>1. unsent' = unsent \ {m} /\ m \in unsent /\ accepted' = accepted
        BY <2>1 DEF EnqueueCheck
      <3>2. \/ pPc' = pPc /\ pMsg' = pMsg
            \/ /\ pPc' = [pPc EXCEPT ![p] = "create"]
               /\ pMsg' = [pMsg EXCEPT ![p] = m]
        BY <2>1 DEF EnqueueCheck
      <3>3. CASE pPc' = pPc /\ pMsg' = pMsg
        BY <3>1, <3>3
      <3>4. CASE /\ pPc' = [pPc EXCEPT ![p] = "create"]
                 /\ pMsg' = [pMsg EXCEPT ![p] = m]
        <4>1. pMsg'[p] = m /\ p \notin InFlight
          BY <2>1, <3>4 DEF EnqueueCheck, TypeInv, TypeOK
        <4>2. \A r \in InFlight' : r # p => r \in InFlight /\ pMsg'[r] = pMsg[r]
          BY <3>4 DEF TypeInv, TypeOK
        <4> QED  BY <3>1, <4>1, <4>2
      <3> QED  BY <3>2, <3>3, <3>4
    <2>2. CASE getOrCreateTopic(p)
      BY <2>2 DEF getOrCreateTopic, TypeInv, TypeOK
    <2>3. CASE EnqueueInsert(p)
      <3>1. pMsg[p] \in Messages /\ p \in InFlight
        BY <2>3 DEF EnqueueInsert, TypeInv, SendsMessage
      <3>2. ToSet(accepted') = ToSet(accepted) \cup {pMsg[p]}
        BY <2>3, <3>1, AppendKeeps DEF EnqueueInsert, TypeInv, TypeOK
      <3>3. \A r \in InFlight' : r # p /\ r \in InFlight /\ pMsg'[r] = pMsg[r]
        BY <2>3 DEF EnqueueInsert, TypeInv, TypeOK
      <3>4. unsent' = unsent
        BY <2>3 DEF EnqueueInsert
      <3>5. Accepted' \cap unsent' = {}
        BY <3>1, <3>2, <3>4
      <3>6. ASSUME NEW r \in InFlight'
            PROVE  pMsg'[r] \notin Accepted' \cup unsent'
        <4>1. r # p /\ r \in InFlight /\ pMsg'[r] = pMsg[r]
          BY <3>3
        <4>2. pMsg[r] # pMsg[p] /\ pMsg[r] \notin Accepted \cup unsent
          BY <3>1, <4>1
        <4> QED  BY <3>2, <3>4, <4>1, <4>2
      <3>7. \A r, t \in InFlight' : pMsg'[r] = pMsg'[t] => r = t
        BY <3>3
      <3> QED  BY <3>5, <3>6, <3>7
    <2> QED  BY <1>1, <2>1, <2>2, <2>3 DEF EnqueueStep
  <1>2. ASSUME UNCHANGED prodVars
        PROVE  SentOnce'
    BY <1>2
  <1>3. ASSUME NEW w \in Workers, WorkerStep(w)
        PROVE  UNCHANGED prodVars
    BY <1>3 DEF WorkerStep, StartScan, ScanExpired, ScanDelayed, ScanDeliver,
       ScanNothing, Handled, FindProcessing, Ack, Nack
  <1>4. ASSUME CleanupStep \/ AdminStep \/ TimeStep
        PROVE  UNCHANGED prodVars
    BY <1>4 DEF CleanupStep, StartSweep, EndSweep, FindIdle, Reclaim,
       AdminStep, Purge, Delete, DeleteMessageStats, DeleteMessage,
       TimeStep, Expire, BecomeDue
  <1>5. CASE UNCHANGED vars
    BY <1>5 DEF vars
  <1> QED  BY <1>1, <1>2, <1>3, <1>4, <1>5 DEF Next

\* A requeued message costs one retry and gains one copy, a dead letter
\* neither.
LEMMA GiveBackCopies ==
  ASSUME TypeInv, DeliveryBound, NEW e \in Messages,
         (ShouldRetry(e) /\ Requeue(e)) \/ DeadLetter(e)
  PROVE  \A m \in Messages :
           /\ Copies(messages', m) - retryCount'[m]
                = Copies(messages, m) - retryCount[m]
           /\ retryCount'[m] <= MaxRetries
  <1> SUFFICES ASSUME NEW m \in Messages
               PROVE  /\ Copies(messages', m) - retryCount'[m]
                           = Copies(messages, m) - retryCount[m]
                      /\ retryCount'[m] <= MaxRetries
    OBVIOUS
  <1>1. /\ messages \in Seq(Messages) /\ Copies(messages, m) \in Nat
        /\ retryCount \in [Messages -> Nat] /\ MaxRetries \in Nat
    BY CopiesType, ParamsAssumption DEF TypeInv, TypeOK
  <1>2. retryCount[m] <= MaxRetries
    BY DEF DeliveryBound
  <1>3. CASE DeadLetter(e)
    BY <1>1, <1>2, <1>3 DEF DeadLetter
  <1>4. CASE ShouldRetry(e) /\ Requeue(e)
    <2>1. Copies(messages', m) = Copies(messages, m) + (IF e = m THEN 1 ELSE 0)
      BY <1>1, <1>4, CopiesInsert DEF Requeue
    <2>2. retryCount'[m] = retryCount[m] + (IF e = m THEN 1 ELSE 0)
      BY <1>1, <1>4 DEF Requeue
    <2>3. e = m => retryCount[m] < MaxRetries
      BY <1>4 DEF ShouldRetry
    <2> DEFINE c == Copies(messages, m)
               d == Copies(messages', m)
    <2>4. c \in Nat /\ d = c + (IF e = m THEN 1 ELSE 0)
      BY <1>1, <2>1
    <2> HIDE DEF c, d
    <2>5. d - retryCount'[m] = c - retryCount[m] /\ retryCount'[m] <= MaxRetries
      BY <1>1, <1>2, <2>2, <2>3, <2>4
    <2> QED  BY <2>5 DEF c, d
  <1> QED  BY <1>3, <1>4

\* Removing the first copy of a message adds no copy of any.
LEMMA CopiesRemoveFirst ==
  ASSUME NEW q \in Seq(Messages), NEW e, NEW m
  PROVE  Copies(RemoveFirst(q, e), m) <= Copies(q, m)
  <1>1. Copies(q, m) \in Nat
    BY CopiesType
  <1>2. CASE RemoveFirst(q, e) = q
    BY <1>1, <1>2
  <1>3. ASSUME NEW i \in 1 .. Len(q), RemoveFirst(q, e) = TakeOut(q, i)
        PROVE  Copies(RemoveFirst(q, e), m) <= Copies(q, m)
    BY <1>1, <1>3, CopiesTakeOut
  <1> QED  BY <1>2, <1>3, RemoveFirstShape

\* What a step must not do to the budget of a message: hand it out, or copy
\* it, without an insertion or a retry that pays for it.
LEMMA BudgetKept ==
  ASSUME TypeInv, DeliveryBound,
         \A m \in Messages : Copies(messages', m) \in Nat,
         \A m \in Messages : deliveries'[m] \in Nat /\ retryCount'[m] \in Nat,
         Accepted \subseteq Accepted',
         \A m \in Messages :
           /\ deliveries'[m] + Copies(messages', m) - retryCount'[m]
                <= deliveries[m] + Copies(messages, m) - retryCount[m]
           /\ retryCount'[m] <= MaxRetries
  PROVE  DeliveryBound'
  <1>1. SUFFICES ASSUME NEW m \in Messages
                 PROVE  deliveries'[m] + Copies(messages', m)
                          <= (IF m \in Accepted' THEN 1 ELSE 0) + retryCount'[m]
    BY DEF DeliveryBound
  <1>2. /\ deliveries[m] \in Nat /\ Copies(messages, m) \in Nat
        /\ retryCount[m] \in Nat
    BY CopiesType DEF TypeInv, TypeOK
  <1>3. deliveries[m] + Copies(messages, m)
          <= (IF m \in Accepted THEN 1 ELSE 0) + retryCount[m]
    BY DEF DeliveryBound
  <1> QED  BY <1>2, <1>3

\* An insertion pays for one delivery; every later one is paid for by a retry.
LEMMA DeliveryEnqueue ==
  ASSUME TypeInv, TypeInv', SentOnce, DeliveryBound,
         NEW p \in Producers, EnqueueStep(p)
  PROVE  DeliveryBound'
  <1>1. CASE (\E m \in Messages : EnqueueCheck(p, m)) \/ getOrCreateTopic(p)
    BY <1>1 DEF EnqueueCheck, getOrCreateTopic, DeliveryBound, Accepted,
                topicVars, workVars
  <1>2. CASE EnqueueInsert(p)
    <2> DEFINE e == pMsg[p]
    <2>1. e \in Messages /\ e \notin Accepted
      BY <1>2 DEF EnqueueInsert, TypeInv, SendsMessage, SentOnce, InFlight
    <2>2. Accepted' = Accepted \cup {e}
      BY <1>2, <2>1, AppendKeeps DEF EnqueueInsert, TypeInv, TypeOK, Accepted
    <2>3. /\ messages' = insertByPriority(messages, e)
          /\ deliveries' = deliveries /\ retryCount' = retryCount
      BY <1>2 DEF EnqueueInsert, workVars
    <2> HIDE DEF e
    <2> SUFFICES ASSUME NEW m \in Messages
                 PROVE  /\ deliveries[m] + Copies(messages', m)
                             <= (IF m \in Accepted' THEN 1 ELSE 0) + retryCount[m]
                        /\ retryCount[m] <= MaxRetries
      BY <2>3 DEF DeliveryBound
    <2>4. /\ deliveries[m] + Copies(messages, m)
               <= (IF m \in Accepted THEN 1 ELSE 0) + retryCount[m]
          /\ retryCount[m] <= MaxRetries
      BY DEF DeliveryBound
    <2>5. Copies(messages', m) = Copies(messages, m) + (IF e = m THEN 1 ELSE 0)
      BY <2>1, <2>3, CopiesInsert DEF TypeInv, TypeOK
    <2>6. /\ deliveries[m] \in Nat /\ Copies(messages, m) \in Nat
          /\ retryCount[m] \in Nat
      BY CopiesType DEF TypeInv, TypeOK
    <2>7. CASE e = m
      BY <2>1, <2>2, <2>4, <2>5, <2>6, <2>7
    <2>8. CASE e # m
      BY <2>2, <2>4, <2>5, <2>6, <2>8
    <2> QED  BY <2>7, <2>8
  <1> QED  BY <1>1, <1>2 DEF EnqueueStep

LEMMA DeliveryOther ==
  ASSUME TypeInv, TypeInv', DeliveryBound,
         \/ \E w \in Workers : WorkerStep(w)
         \/ CleanupStep \/ AdminStep \/ TimeStep
  PROVE  DeliveryBound'
  <1>1. messages \in Seq(Messages)
        /\ \A m \in Messages : /\ deliveries[m] \in Nat /\ retryCount[m] \in Nat
                               /\ Copies(messages, m) \in Nat
                               /\ retryCount[m] <= MaxRetries
    BY CopiesType DEF TypeInv, TypeOK, DeliveryBound
  <1>2. \A m \in Messages : /\ deliveries'[m] \in Nat /\ retryCount'[m] \in Nat
                            /\ Copies(messages', m) \in Nat
    BY CopiesType DEF TypeInv, TypeOK
  <1>3. ASSUME NEW e \in Messages, deliveries' = deliveries, accepted' = accepted,
               (ShouldRetry(e) /\ Requeue(e)) \/ DeadLetter(e)
        PROVE  DeliveryBound'
    <2>1. \A m \in Messages :
            deliveries'[m] + Copies(messages', m) - retryCount'[m]
              <= deliveries[m] + Copies(messages, m) - retryCount[m]
      <3> TAKE m \in Messages
      <3>1. Copies(messages', m) - retryCount'[m]
              = Copies(messages, m) - retryCount[m]
        BY <1>3, GiveBackCopies
      <3> QED  BY <1>1, <1>2, <1>3, <3>1
    <2>2. \A m \in Messages : retryCount'[m] <= MaxRetries
      BY <1>3, GiveBackCopies
    <2>3. Accepted \subseteq Accepted'
      BY <1>3 DEF Accepted
    <2> QED  BY <1>2, <2>1, <2>2, <2>3, BudgetKept
  <1>4. ASSUME accepted' = accepted, retryCount' = retryCount,
               \A m \in Messages :
                 deliveries'[m] + Copies(messages', m)
                   <= deliveries[m] + Copies(messages, m)
        PROVE  DeliveryBound'
    <2>1. \A m \in Messages :
            deliveries'[m] + Copies(messages', m) - retryCount'[m]
              <= deliveries[m] + Copies(messages, m) - retryCount[m]
      BY <1>1, <1>2, <1>4
    <2>2. \A m \in Messages : retryCount'[m] <= MaxRetries
      BY <1>1, <1>4
    <2>3. Accepted \subseteq Accepted'
      BY <1>4 DEF Accepted
    <2> QED  BY <1>2, <2>1, <2>2, <2>3, BudgetKept
  <1>5. ASSUME accepted' = accepted, retryCount' = retryCount,
               messages' = messages, deliveries' = deliveries
        PROVE  DeliveryBound'
    BY <1>5 DEF DeliveryBound, Accepted
  <1> USE DEF topicVars, prodVars, workVars
  <1>6. ASSUME NEW w \in Workers, WorkerStep(w)
        PROVE  DeliveryBound'
    <2>1. CASE ScanExpired(w)
      <3>1. CASE Stale
        BY <1>5, <2>1, <3>1 DEF ScanExpired
      <3>2. CASE ~Stale
        <4>1. \A m \in Messages : Copies(messages', m) <= Copies(messages, m)
          <5> TAKE m \in Messages
          <5>1. /\ scan.idx \in 1 .. Len(messages)
                /\ messages' = TakeOut(messages, scan.idx)
            BY <2>1, <3>2, ScanTakeOut DEF ScanExpired
          <5>2. Copies(messages', m) = Copies(messages, m)
                  - (IF messages[scan.idx] = m THEN 1 ELSE 0)
            BY <1>1, <5>1, CopiesTakeOut
          <5> QED  BY <1>1, <5>2
        <4>2. \A m \in Messages :
                deliveries[m] + Copies(messages', m)
                  <= deliveries[m] + Copies(messages, m)
          BY <1>1, <1>2, <4>1
        <4> QED  BY <1>4, <2>1, <4>2 DEF ScanExpired
      <3> QED  BY <3>1, <3>2
    <2>2. CASE ScanDeliver(w)
      <3>1. CASE Stale
        BY <1>5, <2>2, <3>1 DEF ScanDeliver
      <3>2. CASE ~Stale
        <4>1. ASSUME NEW m \in Messages
              PROVE  deliveries'[m] + Copies(messages', m)
                       <= deliveries[m] + Copies(messages, m)
          <5>1. deliveries'[m] = deliveries[m] + (IF Scanned = m THEN 1 ELSE 0)
            <6>1. /\ deliveries \in [Messages -> Nat]
                  /\ deliveries' = [deliveries EXCEPT ![Scanned] = @ + 1]
              BY <2>2, <3>2 DEF ScanDeliver, TypeInv, TypeOK
            <6>2. deliveries[m] \in Nat
              BY <6>1
            <6> QED  BY <6>1, <6>2
          <5>2. Copies(messages', m)
                  = Copies(messages, m) - (IF Scanned = m THEN 1 ELSE 0)
            BY <1>1, <2>2, <3>2, ScanTakeOut, CopiesTakeOut DEF ScanDeliver
          <5> QED  BY <1>1, <5>1, <5>2
        <4> QED  BY <1>4, <2>2, <3>2, <4>1 DEF ScanDeliver
      <3> QED  BY <3>1, <3>2
    <2>3. CASE Nack(w)
      <3> DEFINE e == Head(batch[w])
      <3>1. e \in Messages
        BY <2>3, NextInBatchType DEF Nack
      <3>2. (ShouldRetry(e) /\ Requeue(e)) \/ DeadLetter(e)
        BY <2>3 DEF Nack
      <3> HIDE DEF e
      <3>3. deliveries' = deliveries /\ accepted' = accepted
        BY <2>3 DEF Nack
      <3> QED  BY <1>3, <3>1, <3>2, <3>3
    <2>4. CASE StartScan(w) \/ ScanDelayed(w) \/ ScanNothing(w)
                 \/ Handled(w) \/ Ack(w)
      BY <1>5, <2>4 DEF StartScan, ScanDelayed, ScanNothing, Handled,
                        FindProcessing, Ack
    <2> QED  BY <1>6, <2>1, <2>2, <2>3, <2>4 DEF WorkerStep
  <1>7. CASE CleanupStep
    <2>1. ASSUME NEW m \in Messages, Reclaim(m)
          PROVE  DeliveryBound'
      BY <1>3, <2>1 DEF Reclaim
    <2>2. CASE StartSweep \/ EndSweep \/ FindIdle
      BY <1>5, <2>2 DEF StartSweep, EndSweep, FindIdle
    <2> QED  BY <1>7, <2>1, <2>2 DEF CleanupStep
  <1>8. CASE AdminStep
    <2>1. CASE Purge
      <3>1. \A m \in Messages : Copies(messages', m) = 0
        BY <2>1, FS_EmptySet DEF Purge, Copies
      <3>2. \A m \in Messages :
              deliveries[m] + Copies(messages', m)
                <= deliveries[m] + Copies(messages, m)
        BY <1>1, <3>1
      <3> QED  BY <1>4, <2>1, <3>2 DEF Purge
    <2>2. ASSUME NEW e \in Messages, DeleteMessage(e)
          PROVE  DeliveryBound'
      <3>1. \A m \in Messages : Copies(messages', m) <= Copies(messages, m)
        BY <1>1, <2>2, CopiesRemoveFirst DEF DeleteMessage
      <3>2. \A m \in Messages :
              deliveries[m] + Copies(messages', m)
                <= deliveries[m] + Copies(messages, m)
        BY <1>1, <1>2, <3>1
      <3> QED  BY <1>4, <2>2, <3>2 DEF DeleteMessage
    <2>3. CASE Delete \/ \E c \in Parts : DeleteMessageStats(c)
      BY <1>5, <2>3 DEF Delete, DeleteMessageStats
    <2> QED  BY <1>8, <2>1, <2>2, <2>3 DEF AdminStep
  <1>9. CASE TimeStep
    BY <1>5, <1>9 DEF TimeStep, Expire, BecomeDue
  <1> QED  BY <1>6, <1>7, <1>8, <1>9

\* Every hand-out is paid for by the insertion or by a retry, and retries
\* stay within MaxRetries: at most 1 + MaxRetries hand-outs per message.
THEOREM DeliveriesBounded == Spec => []DeliveryBound
  <1> DEFINE IInv == TypeInv /\ SentOnce /\ DeliveryBound
  <1>1. Init => IInv
    <2> SUFFICES ASSUME Init PROVE SentOnce /\ DeliveryBound
      BY TypeInit
    <2>1. SentOnce
      BY DEF Init, SentOnce, Accepted, InFlight, ToSet
    <2>2. \A m \in Messages : Copies(messages, m) = 0
      BY FS_EmptySet DEF Init, Copies
    <2> QED  BY <2>1, <2>2, ParamsAssumption DEF Init, DeliveryBound
  <1>2. IInv /\ [Next]_vars => IInv'
    <2>1. TypeInv /\ [Next]_vars => TypeInv'
      BY TypeEnqueue, TypeWorker, TypeOther, TypeStutter DEF Next
    <2>2. TypeInv /\ SentOnce /\ [Next]_vars => SentOnce'
      BY SentOnceStep
    <2>3. IInv /\ TypeInv' /\ Next => DeliveryBound'
      BY DeliveryEnqueue, DeliveryOther DEF Next
    <2>4. DeliveryBound /\ UNCHANGED vars => DeliveryBound'
      BY DEF vars, topicVars, prodVars, workVars, DeliveryBound, Accepted
    <2> QED  BY <2>1, <2>2, <2>3, <2>4
  <1>3. IInv => DeliveryBound
    OBVIOUS
  <1> HIDE DEF IInv
  <1> QED  BY <1>1, <1>2, <1>3, PTL DEF Spec

-----------------------------------------------------------------------------
(* More about the sequences a message can be in *)

\* A message is in a sequence exactly when it has a copy there.
LEMMA CopiesMember ==
  ASSUME NEW q \in Seq(Messages), NEW m
  PROVE  m \in ToSet(q) <=> Copies(q, m) >= 1
  <1>1. IsFiniteSet(Places(q, m)) /\ Copies(q, m) = Cardinality(Places(q, m))
    BY CopiesType DEF Copies, Places
  <1>2. Places(q, m) = {} <=> Copies(q, m) = 0
    BY <1>1, FS_EmptySet
  <1>3. Places(q, m) # {} <=> m \in ToSet(q)
    BY DEF Places, ToSet
  <1>4. Copies(q, m) \in Nat
    BY CopiesType
  <1> QED  BY <1>2, <1>3, <1>4

\* There is none in an empty queue.
LEMMA CopiesEmpty ==
  ASSUME NEW m
  PROVE  Copies(<<>>, m) = 0
  BY FS_EmptySet DEF Copies

\* Appending adds one copy of what is appended.
LEMMA CopiesAppend ==
  ASSUME NEW q \in Seq(Messages), NEW e \in Messages, NEW m
  PROVE  Copies(Append(q, e), m) = Copies(q, m) + (IF e = m THEN 1 ELSE 0)
  <1> DEFINE r == Append(q, e)
             n == Len(q)
             t == TakeOut(r, n + 1)
  <1>1. /\ n \in Nat /\ r \in Seq(Messages) /\ Len(r) = n + 1 /\ r[n + 1] = e
        /\ \A k \in 1 .. n : r[k] = q[k]
    OBVIOUS
  <1> HIDE DEF r
  <1>2. n + 1 \in 1 .. Len(r)
    BY <1>1
  <1>3. /\ t \in Seq(Messages) /\ Len(t) = Len(r) - 1
        /\ \A k \in 1 .. (n + 1) - 1 : t[k] = r[k]
    BY <1>1, <1>2, TakeOutShape
  <1>4. t = q
    <2> HIDE DEF t
    <2>1. Len(t) = Len(q) /\ \A k \in 1 .. Len(q) : t[k] = q[k]
      BY <1>1, <1>3
    <2> QED  BY <1>3, <2>1, SeqEqual
  <1>5. Copies(q, m) = Copies(r, m) - (IF e = m THEN 1 ELSE 0)
    BY <1>1, <1>2, <1>4, CopiesTakeOut
  <1>6. Copies(r, m) \in Nat /\ Copies(q, m) \in Nat
    BY <1>1, CopiesType
  <1> QED  BY <1>5, <1>6 DEF r

\* Going on to the rest of a batch takes away one copy of its head.
LEMMA CopiesTail ==
  ASSUME NEW q \in Seq(Messages), q # <<>>, NEW m
  PROVE  Copies(Tail(q), m) = Copies(q, m) - (IF Head(q) = m THEN 1 ELSE 0)
  <1> DEFINE t == TakeOut(q, 1)
             r == Tail(q)
  <1>1. /\ Len(q) \in Nat /\ 1 \in 1 .. Len(q) /\ Head(q) = q[1]
        /\ r \in Seq(Messages) /\ Len(r) = Len(q) - 1
        /\ \A k \in 1 .. Len(q) - 1 : r[k] = q[k + 1]
    OBVIOUS
  <1> HIDE DEF r
  <1>2. /\ t \in Seq(Messages) /\ Len(t) = Len(q) - 1
        /\ \A k \in 1 .. Len(q) - 1 : t[k] = q[k + 1]
    BY <1>1, TakeOutShape
  <1>3. t = r
    <2> HIDE DEF t
    <2>1. Len(t) = Len(r) /\ \A k \in 1 .. Len(r) : t[k] = r[k]
      BY <1>1, <1>2
    <2> QED  BY <1>1, <1>2, <2>1, SeqEqual
  <1>4. Copies(TakeOut(q, 1), m) = Copies(q, m) - (IF q[1] = m THEN 1 ELSE 0)
    BY <1>1, CopiesTakeOut
  <1> HIDE DEF t
  <1>5. Copies(t, m) = Copies(q, m) - (IF Head(q) = m THEN 1 ELSE 0)
    BY <1>1, <1>4 DEF t
  <1> QED  BY <1>3, <1>5 DEF r

\* insertByPriority adds the inserted message and nothing else.
LEMMA InsertToSet ==
  ASSUME NEW q \in Seq(Messages), NEW e \in Messages
  PROVE  ToSet(insertByPriority(q, e)) = ToSet(q) \cup {e}
  <1> DEFINE r == insertByPriority(q, e)
  <1>1. r \in Seq(Messages)
    BY InsertByPriorityType
  <1>2. \A m : Copies(r, m) = Copies(q, m) + (IF e = m THEN 1 ELSE 0)
    BY CopiesInsert
  <1>3. \A m : Copies(q, m) \in Nat
    BY CopiesType
  <1> HIDE DEF r
  <1>4. \A m : m \in ToSet(r) <=> m \in ToSet(q) \cup {e}
    <2> TAKE m
    <2>1. m \in ToSet(r) <=> Copies(r, m) >= 1
      BY <1>1, CopiesMember
    <2>2. m \in ToSet(q) <=> Copies(q, m) >= 1
      BY CopiesMember
    <2> QED  BY <1>2, <1>3, <2>1, <2>2
  <1> QED  BY <1>4 DEF r

\* Taking out an index adds nothing and loses at most what was there.
LEMMA TakeOutToSet ==
  ASSUME NEW q \in Seq(Messages), NEW x \in 1 .. Len(q)
  PROVE  /\ ToSet(TakeOut(q, x)) \subseteq ToSet(q)
         /\ ToSet(q) \subseteq ToSet(TakeOut(q, x)) \cup {q[x]}
         /\ q[x] \in ToSet(q)
  <1> DEFINE r == TakeOut(q, x)
  <1>1. r \in Seq(Messages)
    BY TakeOutShape
  <1>2. \A m : Copies(r, m) = Copies(q, m) - (IF q[x] = m THEN 1 ELSE 0)
    BY CopiesTakeOut
  <1>3. \A m : Copies(q, m) \in Nat
    BY CopiesType
  <1> HIDE DEF r
  <1>4. ASSUME NEW m \in ToSet(r)
        PROVE  m \in ToSet(q)
    <2>1. Copies(r, m) >= 1
      BY <1>1, <1>4, CopiesMember
    <2>2. m \in ToSet(q) <=> Copies(q, m) >= 1
      BY CopiesMember
    <2> QED  BY <1>2, <1>3, <2>1, <2>2
  <1>5. q[x] \in ToSet(q)
    BY DEF ToSet
  <1> QED  BY <1>4, <1>5, TakeOutKeeps DEF r

\* What DeleteMessage takes from a sequence that holds the message: one copy.
LEMMA RemoveFirstTakes ==
  ASSUME NEW q \in Seq(Messages), NEW e \in ToSet(q)
  PROVE  \E x \in 1 .. Len(q) : q[x] = e /\ RemoveFirst(q, e) = TakeOut(q, x)
  <1> DEFINE I == {i \in 1 .. Len(q) : q[i] = e}
  <1>1. I # {} /\ I \in SUBSET Nat
    BY DEF ToSet
  <1>2. Min(I) \in I
    <2>1. \E x \in I : \A y \in I : x =< y
      <3> HIDE DEF I
      <3> QED  BY <1>1, LeastExists
    <2> QED  BY <2>1 DEF Min
  <1>3. RemoveFirst(q, e) = TakeOut(q, Min(I))
    BY <1>1 DEF RemoveFirst, SelectInSeq, TakeOut
  <1> QED  BY <1>2, <1>3

-----------------------------------------------------------------------------
(* Who holds a message *)

InTopic(m) == Copies(messages, m)
InDead(m) == Copies(deadLetter, m)
InDone(m) == IF m \in completed THEN 1 ELSE 0
InHand(w, m) == Copies(batch[w], m)

\* A message waits once, is held once by one worker, or is acknowledged.
Held(m) ==
  /\ InTopic(m) + InDone(m) <= 1
  /\ \A w \in Workers : InHand(w, m) + InTopic(m) + InDone(m) <= 1
  /\ \A v, w \in Workers : v # w => InHand(v, m) + InHand(w, m) <= 1

\* With the dead letters: it is nowhere until it was accepted, then always
\* somewhere unless it was removed, and in processing while a worker holds it.
Placed(m) ==
  /\ InTopic(m) + InDead(m) + InDone(m) <= 1
  /\ \A w \in Workers : InHand(w, m) + InDead(m) <= 1
  /\ m \in Accepted \ removed =>
       \/ InTopic(m) + InDead(m) + InDone(m) = 1
       \/ \E w \in Workers : InHand(w, m) = 1
  /\ m \notin Accepted =>
       /\ InTopic(m) + InDead(m) + InDone(m) = 0
       /\ \A w \in Workers : InHand(w, m) = 0
  /\ m \in processing => \E w \in Workers : InHand(w, m) = 1
  /\ m \notin removed =>
       \A w \in Workers : InHand(w, m) = 1 => m \in processing

\* As long as no sweep took the message back.
CustodyOf(m) == m \notin reclaimed => Held(m) /\ (~crashed => Placed(m))
Custody == \A m \in Messages : CustodyOf(m)

\* The places of a message can be counted.
LEMMA PlaceCounts ==
  ASSUME TypeInv
  PROVE  \A m \in Messages :
           /\ InTopic(m) \in Nat /\ InDead(m) \in Nat /\ InDone(m) \in {0, 1}
           /\ \A w \in Workers : InHand(w, m) \in Nat
  BY CopiesType DEF TypeInv, TypeOK, InTopic, InDead, InDone, InHand

\* Nothing about m has changed, but that a sweep may have taken it back.
Same(m) ==
  /\ InTopic(m)' = InTopic(m) /\ InDead(m)' = InDead(m)
  /\ InDone(m)' = InDone(m)
  /\ \A w \in Workers : InHand(w, m)' = InHand(w, m)
  /\ m \in processing' <=> m \in processing
  /\ m \in Accepted' <=> m \in Accepted
  /\ m \in removed' <=> m \in removed
  /\ m \in reclaimed => m \in reclaimed'
  /\ crashed => crashed'

\* What did not move keeps its place.
LEMMA SameKeeps ==
  ASSUME NEW m, CustodyOf(m), Same(m)
  PROVE  CustodyOf(m)'
  <1>1. Held(m) => Held(m)'
    BY DEF Same, Held
  <1>2. Placed(m) => Placed(m)'
    BY DEF Same, Placed
  <1>3. /\ m \in reclaimed => m \in reclaimed'
        /\ crashed => crashed'
    BY DEF Same
  <1> QED  BY <1>1, <1>2, <1>3, Zenon DEF CustodyOf

\* The steps that move no message.
Quiet == UNCHANGED <<messages, deadLetter, completed, batch, processing, accepted,
                     removed, reclaimed>>
LEMMA QuietKeeps ==
  ASSUME Custody, Quiet, crashed => crashed'
  PROVE  Custody'
  <1>1. \A m : Same(m)
    BY DEF Quiet, Same, InTopic, InDead, InDone, InHand, Accepted
  <1> QED  BY <1>1, SameKeeps DEF Custody

\* A worker goes on to the next message of its batch.
LEMMA BatchAdvance ==
  ASSUME TypeInv, NEW w \in Workers,
         wPc[w] \in {"handle", "ack", "nack"}, NextInBatch(w)
  PROVE  /\ Head(batch[w]) \in Messages /\ InHand(w, Head(batch[w])) >= 1
         /\ \A m \in Messages :
              /\ InHand(w, m)' = InHand(w, m)
                                   - (IF Head(batch[w]) = m THEN 1 ELSE 0)
              /\ \A v \in Workers \ {w} : InHand(v, m)' = InHand(v, m)
  <1>1. batch[w] \in Seq(Messages) /\ batch[w] # <<>>
        /\ batch \in [Workers -> Seq(Messages)]
    BY DEF TypeInv, TypeOK, WorkInHand
  <1>2. batch' = [batch EXCEPT ![w] = Tail(batch[w])]
    BY DEF NextInBatch
  <1>3. Head(batch[w]) \in ToSet(batch[w])
    BY <1>1 DEF ToSet
  <1>4. InHand(w, Head(batch[w])) >= 1
    BY <1>1, <1>3, CopiesMember DEF InHand
  <1>5. batch'[w] = Tail(batch[w]) /\ \A v \in Workers \ {w} : batch'[v] = batch[v]
    BY <1>1, <1>2
  <1>6. ASSUME NEW m \in Messages
        PROVE  InHand(w, m)' = InHand(w, m) - (IF Head(batch[w]) = m THEN 1 ELSE 0)
    BY <1>1, <1>5, CopiesTail DEF InHand
  <1>7. \A m \in Messages : \A v \in Workers \ {w} : InHand(v, m)' = InHand(v, m)
    BY <1>5 DEF InHand
  <1> QED  BY <1>1, <1>4, <1>6, <1>7, HeadTail

\* An insertion puts a message where none was.
LEMMA CustodyEnqueue ==
  ASSUME TypeInv, TypeInv', SentOnce, Custody,
         NEW p \in Producers, EnqueueInsert(p)
  PROVE  Custody'
  <1>1. PICK e \in Messages :
        /\ e \notin Accepted
        /\ messages' = insertByPriority(messages, e)
        /\ accepted' = Append(accepted, e)
        /\ UNCHANGED <<deadLetter, completed, batch, processing, removed,
                       reclaimed, crashed>>
        /\ ~crashed
    BY DEF EnqueueInsert, workVars, ghostVars, stopVars, TypeInv, SendsMessage,
           SentOnce, InFlight, TopicFree
  <1>2. Accepted' = Accepted \cup {e}
    BY <1>1, AppendKeeps DEF TypeInv, TypeOK, Accepted
  <1>3. \A m \in Messages :
          /\ InTopic(m)' = InTopic(m) + (IF e = m THEN 1 ELSE 0)
          /\ InDead(m)' = InDead(m) /\ InDone(m)' = InDone(m)
          /\ \A w \in Workers : InHand(w, m)' = InHand(w, m)
    BY <1>1, CopiesInsert
       DEF InTopic, InDead, InDone, InHand, TypeInv, TypeOK
  <1>4. ASSUME NEW m \in Messages, m # e
        PROVE  CustodyOf(m)'
    <2>1. Same(m)
      BY <1>1, <1>2, <1>3, <1>4, PlaceCounts DEF Same
    <2> QED  BY <2>1, SameKeeps DEF Custody
  <1>5. ASSUME e \notin reclaimed
        PROVE  Held(e)' /\ Placed(e)'
    <2>1. Held(e) /\ Placed(e)
      BY <1>1, <1>5 DEF Custody, CustodyOf
    <2>2. /\ InTopic(e) \in Nat /\ InDead(e) \in Nat /\ InDone(e) \in {0, 1}
          /\ \A w \in Workers : InHand(w, e) \in Nat
      BY <1>1, PlaceCounts
    <2>3. /\ InTopic(e) = 0 /\ InDead(e) = 0 /\ InDone(e) = 0
          /\ \A w \in Workers : InHand(w, e) = 0
      BY <1>1, <2>1, <2>2 DEF Placed
    <2>4. /\ InTopic(e)' = 1 /\ InDead(e)' = 0 /\ InDone(e)' = 0
          /\ \A w \in Workers : InHand(w, e)' = 0
      BY <1>1, <1>3, <2>3
    <2>5. e \notin processing' /\ e \in Accepted'
      BY <1>1, <1>2, <2>1, <2>3 DEF Placed
    <2>6. Held(e)'
      BY <2>4 DEF Held
    <2>7. Placed(e)'
      BY <2>4, <2>5 DEF Placed
    <2> QED  BY <2>6, <2>7
  <1>6. CustodyOf(e)'
    BY <1>1, <1>5 DEF CustodyOf
  <1> QED  BY <1>4, <1>6 DEF Custody

\* A scan takes one copy of the message it looks at out of the topic.
LEMMA ScanCounts ==
  ASSUME TypeInv, ~Stale, messages' = TakeOut(messages, scan.idx)
  PROVE  /\ InTopic(Scanned) >= 1
         /\ \A m \in Messages :
              InTopic(m)' = InTopic(m) - (IF Scanned = m THEN 1 ELSE 0)
  <1>1. messages \in Seq(Messages)
    BY DEF TypeInv, TypeOK
  <1>2. scan.idx \in 1 .. Len(messages) /\ messages[scan.idx] = Scanned
    BY ScanTakeOut
  <1>3. Scanned \in ToSet(messages)
    BY <1>1, <1>2, TakeOutToSet
  <1>4. InTopic(Scanned) >= 1
    BY <1>1, <1>3, CopiesMember DEF InTopic
  <1>5. ASSUME NEW m \in Messages
        PROVE  InTopic(m)' = InTopic(m) - (IF Scanned = m THEN 1 ELSE 0)
    BY <1>1, <1>2, CopiesTakeOut DEF InTopic
  <1> QED  BY <1>4, <1>5

\* An expired message leaves the topic for the dead letters.
LEMMA CustodyExpired ==
  ASSUME TypeInv, TypeInv', Custody, NEW w \in Workers, ScanExpired(w)
  PROVE  Custody'
  <1>0. Scanned \in Messages
    BY ScannedType DEF ScanExpired, Scanning
  <1>1. PICK e \in Messages : e = Scanned
    BY <1>0
  <1>2. /\ deadLetter' = Append(deadLetter, e)
        /\ UNCHANGED <<completed, batch, processing, accepted, removed, reclaimed>>
    BY <1>1 DEF ScanExpired, workVars, ghostVars, prodVars
  <1>3. \A m \in Messages :
          /\ InDone(m)' = InDone(m)
          /\ \A v \in Workers : InHand(v, m)' = InHand(v, m)
          /\ InDead(m)' = InDead(m) + (IF e = m THEN 1 ELSE 0)
    BY <1>2, CopiesAppend DEF InDead, InDone, InHand, TypeInv, TypeOK
  <1>4. CASE Stale
    <2>1. crashed' /\ messages' = messages
      BY <1>4 DEF ScanExpired
    <2>2. \A m \in Messages : InTopic(m)' = InTopic(m)
      BY <2>1 DEF InTopic
    <2>3. ASSUME NEW m \in Messages, m \notin reclaimed'
          PROVE  Held(m)'
      <3>1. Held(m)
        BY <1>2, <2>3 DEF Custody, CustodyOf
      <3> QED  BY <1>3, <2>2, <3>1 DEF Held
    <2> QED  BY <2>1, <2>3 DEF Custody, CustodyOf
  <1>5. CASE ~Stale
    <2>1. messages' = TakeOut(messages, scan.idx) /\ crashed' = crashed
      BY <1>5 DEF ScanExpired
    <2>2. /\ InTopic(e) >= 1
          /\ \A m \in Messages :
               InTopic(m)' = InTopic(m) - (IF e = m THEN 1 ELSE 0)
      BY <1>1, <1>5, <2>1, ScanCounts
    <2>3. ASSUME NEW m \in Messages, m # e
          PROVE  CustodyOf(m)'
      <3>1. Same(m)
        BY <1>2, <1>3, <2>1, <2>2, <2>3, PlaceCounts DEF Same, Accepted
      <3> QED  BY <3>1, SameKeeps DEF Custody
    <2>4. ASSUME e \notin reclaimed, ~crashed
          PROVE  Held(e)' /\ Placed(e)'
      <3>1. Held(e) /\ Placed(e)
        BY <2>4 DEF Custody, CustodyOf
      <3>2. /\ InTopic(e) \in Nat /\ InDead(e) \in Nat /\ InDone(e) \in {0, 1}
            /\ \A v \in Workers : InHand(v, e) \in Nat
        BY PlaceCounts
      <3>3. /\ InTopic(e) = 1 /\ InDead(e) = 0 /\ InDone(e) = 0
            /\ \A v \in Workers : InHand(v, e) = 0
        BY <2>2, <3>1, <3>2 DEF Held, Placed
      <3>4. /\ InTopic(e)' = 0 /\ InDead(e)' = 1 /\ InDone(e)' = 0
            /\ \A v \in Workers : InHand(v, e)' = 0
        BY <1>3, <2>2, <3>3
      <3>5. e \notin processing' /\ e \in Accepted'
        BY <1>2, <3>1, <3>3 DEF Placed, Accepted
      <3>6. Held(e)'
        BY <3>4 DEF Held
      <3>7. Placed(e)'
        BY <3>4, <3>5 DEF Placed
      <3> QED  BY <3>6, <3>7
    <2>5. CustodyOf(e)'
      BY <1>2, <2>1, <2>4 DEF CustodyOf, ScanExpired, Scanning
    <2> QED  BY <2>3, <2>5 DEF Custody
  <1> QED  BY <1>4, <1>5

\* A hand-out moves it from the topic into one pair of hands.
LEMMA CustodyDeliver ==
  ASSUME TypeInv, TypeInv', Custody, NEW w \in Workers, ScanDeliver(w)
  PROVE  Custody'
  <1>0. Scanned \in Messages
    BY ScannedType DEF ScanDeliver, Scanning
  <1>1. PICK e \in Messages : e = Scanned
    BY <1>0
  <1>2. /\ processing' = processing \cup {e}
        /\ UNCHANGED <<deadLetter, completed, accepted, removed, reclaimed>>
        /\ ~crashed
    BY <1>1 DEF ScanDeliver, Scanning, ghostVars, prodVars
  <1>3. \A m \in Messages : InDone(m)' = InDone(m) /\ InDead(m)' = InDead(m)
    BY <1>2 DEF InDead, InDone
  <1>4. CASE Stale
    <2>1. crashed' /\ messages' = messages /\ batch' = batch
      BY <1>4 DEF ScanDeliver
    <2>2. \A m \in Messages : /\ InTopic(m)' = InTopic(m)
                              /\ \A v \in Workers : InHand(v, m)' = InHand(v, m)
      BY <2>1 DEF InTopic, InHand
    <2>3. ASSUME NEW m \in Messages, m \notin reclaimed'
          PROVE  Held(m)'
      <3>1. Held(m)
        BY <1>2, <2>3 DEF Custody, CustodyOf
      <3> QED  BY <1>3, <2>2, <3>1 DEF Held
    <2> QED  BY <2>1, <2>3 DEF Custody, CustodyOf
  <1>5. CASE ~Stale
    <2>1. /\ messages' = TakeOut(messages, scan.idx) /\ crashed' = crashed
          /\ batch' = [batch EXCEPT ![w] = Append(batch[w], e)]
      BY <1>1, <1>5 DEF ScanDeliver
    <2>2. /\ InTopic(e) >= 1
          /\ \A m \in Messages :
               InTopic(m)' = InTopic(m) - (IF e = m THEN 1 ELSE 0)
      BY <1>1, <1>5, <2>1, ScanCounts
    <2>3. /\ batch'[w] = Append(batch[w], e) /\ batch[w] \in Seq(Messages)
          /\ \A v \in Workers \ {w} : batch'[v] = batch[v]
      BY <2>1 DEF TypeInv, TypeOK
    <2>4. \A m \in Messages :
            /\ InHand(w, m)' = InHand(w, m) + (IF e = m THEN 1 ELSE 0)
            /\ \A v \in Workers \ {w} : InHand(v, m)' = InHand(v, m)
      BY <2>3, CopiesAppend DEF InHand
    <2>5. ASSUME NEW m \in Messages, m # e
          PROVE  CustodyOf(m)'
      <3>1. Same(m)
        BY <1>2, <1>3, <2>1, <2>2, <2>4, <2>5, PlaceCounts DEF Same, Accepted
      <3> QED  BY <3>1, SameKeeps DEF Custody
    <2>6. ASSUME e \notin reclaimed
          PROVE  Held(e)' /\ Placed(e)'
      <3>1. Held(e) /\ Placed(e)
        BY <1>2, <2>6 DEF Custody, CustodyOf
      <3>2. /\ InTopic(e) \in Nat /\ InDead(e) \in Nat /\ InDone(e) \in {0, 1}
            /\ \A v \in Workers : InHand(v, e) \in Nat
        BY PlaceCounts
      <3>3. /\ InTopic(e) = 1 /\ InDead(e) = 0 /\ InDone(e) = 0
            /\ \A v \in Workers : InHand(v, e) = 0
        BY <2>2, <3>1, <3>2 DEF Held, Placed
      <3>4. /\ InTopic(e)' = 0 /\ InDead(e)' = 0 /\ InDone(e)' = 0
            /\ InHand(w, e)' = 1
            /\ \A v \in Workers \ {w} : InHand(v, e)' = 0
        BY <1>3, <2>2, <2>4, <3>3
      <3>5. e \in processing' /\ e \in Accepted'
        BY <1>2, <3>1, <3>3 DEF Placed, Accepted
      <3>6. Held(e)'
        BY <3>4 DEF Held
      <3>7. Placed(e)'
        BY <3>4, <3>5 DEF Placed
      <3> QED  BY <3>6, <3>7
    <2>7. CustodyOf(e)'
      BY <1>2, <2>6 DEF CustodyOf
    <2> QED  BY <2>5, <2>7 DEF Custody
  <1> QED  BY <1>4, <1>5

\* A consumer whose message is not in processing any more drops it.
LEMMA CustodyHandled ==
  ASSUME TypeInv, Custody, NEW w \in Workers, Handled(w)
  PROVE  Custody'
  <1>1. PICK outcome \in {"ack", "nack"} : FindProcessing(w, outcome)
    BY DEF Handled
  <1>2. /\ UNCHANGED <<messages, deadLetter, completed, processing, accepted,
                       removed, reclaimed, crashed>>
        /\ wPc[w] = "handle"
    BY <1>1 DEF FindProcessing, topicVars, ghostVars, stopVars, prodVars
  <1>3. CASE Head(batch[w]) \in processing
    BY <1>1, <1>2, <1>3, QuietKeeps DEF FindProcessing, Quiet
  <1>4. CASE Head(batch[w]) \notin processing
    <2>1. NextInBatch(w)
      BY <1>1, <1>4 DEF FindProcessing
    <2>2. PICK e \in Messages : e = Head(batch[w])
      BY <1>2, <2>1, BatchAdvance
    <2>3. /\ InHand(w, e) >= 1
          /\ \A m \in Messages :
               /\ InHand(w, m)' = InHand(w, m) - (IF e = m THEN 1 ELSE 0)
               /\ \A v \in Workers \ {w} : InHand(v, m)' = InHand(v, m)
      BY <1>2, <2>1, <2>2, BatchAdvance
    <2>4. \A m \in Messages : /\ InTopic(m)' = InTopic(m)
                              /\ InDead(m)' = InDead(m) /\ InDone(m)' = InDone(m)
      BY <1>2 DEF InTopic, InDead, InDone
    <2>5. ASSUME NEW m \in Messages, m # e
          PROVE  CustodyOf(m)'
      <3>1. Same(m)
        BY <1>2, <2>3, <2>4, <2>5, PlaceCounts DEF Same, Accepted
      <3> QED  BY <3>1, SameKeeps DEF Custody
    <2>6. ASSUME e \notin reclaimed, ~crashed
          PROVE  Held(e)' /\ Placed(e)'
      <3>1. Held(e) /\ Placed(e)
        BY <2>6 DEF Custody, CustodyOf
      <3>2. /\ InTopic(e) \in Nat /\ InDead(e) \in Nat /\ InDone(e) \in {0, 1}
            /\ \A v \in Workers : InHand(v, e) \in Nat
        BY PlaceCounts
      <3>3. /\ InTopic(e) = 0 /\ InDead(e) = 0 /\ InDone(e) = 0
            /\ InHand(w, e) = 1
            /\ \A v \in Workers \ {w} : InHand(v, e) = 0
        <4>1. /\ InHand(w, e) + InTopic(e) + InDone(e) <= 1
              /\ InHand(w, e) + InDead(e) <= 1
              /\ \A v \in Workers \ {w} : InHand(v, e) + InHand(w, e) <= 1
          BY <3>1 DEF Held, Placed
        <4>2. InHand(w, e) >= 1
          BY <2>3
        <4> QED  BY <3>2, <4>1, <4>2
      <3>4. /\ InTopic(e)' = 0 /\ InDead(e)' = 0 /\ InDone(e)' = 0
            /\ \A v \in Workers : InHand(v, e)' = 0
        BY <2>3, <2>4, <3>3
      <3>5. e \in removed' /\ e \notin processing'
        BY <1>2, <1>4, <2>2, <3>1, <3>3 DEF Placed
      <3>6. Held(e)'
        BY <3>4 DEF Held
      <3>7. Placed(e)'
        BY <3>4, <3>5 DEF Placed
      <3> QED  BY <3>6, <3>7
    <2>7. CustodyOf(e)'
      BY <1>1, <1>2, <2>6 DEF CustodyOf, FindProcessing, TopicFree
    <2> QED  BY <2>5, <2>7 DEF Custody
  <1> QED  BY <1>3, <1>4

\* Ack and Nack take the message from the one worker that held it.
LEMMA CustodySettle ==
  ASSUME TypeInv, Custody, NEW w \in Workers, Ack(w) \/ Nack(w)
  PROVE  Custody'
  <1>1. /\ NextInBatch(w) /\ wPc[w] \in {"handle", "ack", "nack"} /\ ~crashed
        /\ UNCHANGED <<accepted, removed, reclaimed, crashed>>
        /\ processing' = processing \ {Head(batch[w])}
    BY DEF Ack, Nack, TopicFree, ghostVars, stopVars, prodVars
  <1>2. PICK e \in Messages : e = Head(batch[w])
    BY <1>1, BatchAdvance
  <1>3. /\ InHand(w, e) >= 1
        /\ \A m \in Messages :
             /\ InHand(w, m)' = InHand(w, m) - (IF e = m THEN 1 ELSE 0)
             /\ \A v \in Workers \ {w} : InHand(v, m)' = InHand(v, m)
    BY <1>1, <1>2, BatchAdvance
  <1>4. /\ \A m \in Messages \ {e} :
             /\ InTopic(m)' = InTopic(m)
             /\ InDead(m)' = InDead(m) /\ InDone(m)' = InDone(m)
        /\ \/ /\ InTopic(e)' = InTopic(e) /\ InDead(e)' = InDead(e)
              /\ InDone(e)' = 1
           \/ /\ InTopic(e)' = InTopic(e) + 1 /\ InDead(e)' = InDead(e)
              /\ InDone(e)' = InDone(e)
           \/ /\ InTopic(e)' = InTopic(e) /\ InDead(e)' = InDead(e) + 1
              /\ InDone(e)' = InDone(e)
    <2>1. CASE Ack(w)
      <3>1. /\ UNCHANGED <<messages, deadLetter>>
            /\ completed' = completed \cup {e}
        BY <1>2, <2>1 DEF Ack
      <3> QED  BY <3>1 DEF InTopic, InDead, InDone
    <2>2. CASE Nack(w)
      <3>1. /\ completed' = completed
            /\ Requeue(e) \/ DeadLetter(e)
        BY <1>2, <2>2 DEF Nack, ghostVars
      <3>2. messages \in Seq(Messages) /\ deadLetter \in Seq(Messages)
        BY DEF TypeInv, TypeOK
      <3>3. CASE Requeue(e)
        <4>1. messages' = insertByPriority(messages, e) /\ deadLetter' = deadLetter
          BY <3>3 DEF Requeue
        <4>2. \A m \in Messages :
                InTopic(m)' = InTopic(m) + (IF e = m THEN 1 ELSE 0)
          BY <3>2, <4>1, CopiesInsert DEF InTopic
        <4>3. \A m : InDead(m)' = InDead(m) /\ InDone(m)' = InDone(m)
          BY <3>1, <4>1 DEF InDead, InDone
        <4>4. InTopic(e)' = InTopic(e) + 1
          BY <4>2
        <4>5. \A m \in Messages \ {e} : InTopic(m)' = InTopic(m)
          BY <4>2, PlaceCounts
        <4> QED  BY <4>3, <4>4, <4>5
      <3>4. CASE DeadLetter(e)
        <4>1. messages' = messages /\ deadLetter' = Append(deadLetter, e)
          BY <3>4 DEF DeadLetter
        <4>2. \A m \in Messages :
                InDead(m)' = InDead(m) + (IF e = m THEN 1 ELSE 0)
          BY <3>2, <4>1, CopiesAppend DEF InDead
        <4>3. \A m : InTopic(m)' = InTopic(m) /\ InDone(m)' = InDone(m)
          BY <3>1, <4>1 DEF InTopic, InDone
        <4>4. InDead(e)' = InDead(e) + 1
          BY <4>2
        <4>5. \A m \in Messages \ {e} : InDead(m)' = InDead(m)
          BY <4>2, PlaceCounts
        <4> QED  BY <4>3, <4>4, <4>5
      <3> QED  BY <3>1, <3>3, <3>4
    <2> QED  BY <2>1, <2>2
  <1>5. ASSUME NEW m \in Messages, m # e
        PROVE  CustodyOf(m)'
    <2>1. Same(m)
      BY <1>1, <1>2, <1>3, <1>4, <1>5, PlaceCounts DEF Same, Accepted
    <2> QED  BY <2>1, SameKeeps DEF Custody
  <1>6. ASSUME e \notin reclaimed
        PROVE  Held(e)' /\ Placed(e)'
    <2>1. Held(e) /\ Placed(e)
      BY <1>1, <1>6 DEF Custody, CustodyOf
    <2>2. /\ InTopic(e) \in Nat /\ InDead(e) \in Nat /\ InDone(e) \in {0, 1}
          /\ \A v \in Workers : InHand(v, e) \in Nat
      BY PlaceCounts
    <2>3. /\ InTopic(e) = 0 /\ InDead(e) = 0 /\ InDone(e) = 0
          /\ InHand(w, e) = 1
          /\ \A v \in Workers \ {w} : InHand(v, e) = 0
      BY <1>3, <2>1, <2>2 DEF Held, Placed
    <2>4. \A v \in Workers : InHand(v, e)' = 0
      BY <1>3, <2>3
    <2>5. /\ InTopic(e)' \in {0, 1} /\ InDead(e)' \in {0, 1}
          /\ InDone(e)' \in {0, 1}
          /\ InTopic(e)' + InDead(e)' + InDone(e)' = 1
          /\ InTopic(e)' + InDone(e)' <= 1
      BY <1>4, <2>3
    <2>6. e \notin processing' /\ e \in Accepted'
      BY <1>1, <1>2, <2>1, <2>3 DEF Placed, Accepted
    <2>7. Held(e)'
      BY <2>4, <2>5 DEF Held
    <2>8. Placed(e)'
      BY <2>4, <2>5, <2>6 DEF Placed
    <2> QED  BY <2>7, <2>8
  <1>7. CustodyOf(e)'
    BY <1>1, <1>6 DEF CustodyOf
  <1> QED  BY <1>5, <1>7 DEF Custody

\* A sweep takes the message out of scope, a management call removes it.
LEMMA CustodyOther ==
  ASSUME TypeInv, TypeInv', Custody, CleanupStep \/ AdminStep \/ TimeStep
  PROVE  Custody'
  <1> USE DEF topicVars, prodVars, workVars, ghostVars, stopVars
  <1>1. CASE StartSweep \/ EndSweep \/ FindIdle \/ Delete
                 \/ \E c \in Parts : DeleteMessageStats(c)
    <2>1. CASE StartSweep \/ EndSweep \/ FindIdle
      BY <2>1, QuietKeeps DEF Quiet, StartSweep, EndSweep, FindIdle
    <2>2. CASE Delete
      BY <2>2, QuietKeeps DEF Quiet, Delete
    <2>3. ASSUME NEW c \in Parts, DeleteMessageStats(c)
          PROVE  Custody'
      BY <2>3, QuietKeeps DEF Quiet, DeleteMessageStats
    <2> QED  BY <1>1, <2>1, <2>2, <2>3
  <1>2. ASSUME NEW m \in Messages, Expire(m) \/ BecomeDue(m)
        PROVE  Custody'
    BY <1>2, QuietKeeps DEF Quiet, Expire, BecomeDue
  <1>3. ASSUME NEW e \in Messages, Reclaim(e)
        PROVE  Custody'
    <2>1. /\ processing' = processing \ {e} /\ reclaimed' = reclaimed \cup {e}
          /\ Requeue(e) \/ DeadLetter(e)
          /\ UNCHANGED <<batch, completed, removed, accepted, crashed>>
      BY <1>3 DEF Reclaim
    <2>2. messages \in Seq(Messages) /\ deadLetter \in Seq(Messages)
      BY DEF TypeInv, TypeOK
    <2>3. ASSUME NEW m \in Messages, m # e
          PROVE  CustodyOf(m)'
      <3>1. InTopic(m)' = InTopic(m)
        BY <2>1, <2>2, <2>3, CopiesInsert, PlaceCounts
           DEF InTopic, Requeue, DeadLetter
      <3>2. InDead(m)' = InDead(m)
        <4>1. CASE deadLetter' = deadLetter
          BY <4>1 DEF InDead
        <4>2. CASE deadLetter' = Append(deadLetter, e)
          <5>1. InDead(m)' = InDead(m) + (IF e = m THEN 1 ELSE 0)
            BY <2>2, <4>2, CopiesAppend DEF InDead
          <5> QED  BY <2>3, <5>1, PlaceCounts
        <4> QED  BY <2>1, <4>1, <4>2 DEF Requeue, DeadLetter
      <3>3. Same(m)
        BY <2>1, <2>3, <3>1, <3>2 DEF Same, InDone, InHand, Accepted
      <3> QED  BY <3>3, SameKeeps DEF Custody
    <2>4. CustodyOf(e)'
      BY <2>1 DEF CustodyOf
    <2> QED  BY <2>3, <2>4 DEF Custody
  <1>4. CASE Purge
    <2>1. /\ messages' = <<>> /\ deadLetter' = <<>> /\ processing' = {}
          /\ removed' = removed \cup ToSet(messages) \cup processing
                                \cup ToSet(deadLetter)
          /\ UNCHANGED <<batch, completed, reclaimed, accepted, crashed>>
          /\ ~crashed
      BY <1>4 DEF Purge, TopicFree
    <2>2. messages \in Seq(Messages) /\ deadLetter \in Seq(Messages)
      BY DEF TypeInv, TypeOK
    <2>3. ASSUME NEW m \in Messages, m \notin reclaimed
          PROVE  Held(m)' /\ Placed(m)'
      <3>1. Held(m) /\ Placed(m)
        BY <2>1, <2>3 DEF Custody, CustodyOf
      <3>2. /\ InTopic(m) \in Nat /\ InDead(m) \in Nat /\ InDone(m) \in {0, 1}
            /\ \A v \in Workers : InHand(v, m) \in Nat
        BY PlaceCounts
      <3>3. /\ InTopic(m)' = 0 /\ InDead(m)' = 0 /\ InDone(m)' = InDone(m)
            /\ \A w \in Workers : InHand(w, m)' = InHand(w, m)
        BY <2>1, CopiesEmpty DEF InTopic, InDead, InDone, InHand
      <3>4. m \notin removed' =>
              /\ InTopic(m) = 0 /\ InDead(m) = 0 /\ m \notin processing
              /\ m \notin removed
        <4>1. /\ m \in ToSet(messages) <=> InTopic(m) >= 1
              /\ m \in ToSet(deadLetter) <=> InDead(m) >= 1
          BY <2>2, CopiesMember DEF InTopic, InDead
        <4> QED  BY <2>1, <3>2, <4>1
      <3>5. Held(m)'
        BY <3>1, <3>2, <3>3 DEF Held
      <3>6. Placed(m)'
        <4>1. /\ InTopic(m)' + InDead(m)' + InDone(m)' <= 1
              /\ \A w \in Workers : InHand(w, m)' + InDead(m)' <= 1
          BY <3>1, <3>2, <3>3 DEF Placed
        <4>2. m \in Accepted' \ removed' =>
               \/ InTopic(m)' + InDead(m)' + InDone(m)' = 1
               \/ \E w \in Workers : InHand(w, m)' = 1
          BY <2>1, <3>1, <3>2, <3>3, <3>4 DEF Placed, Accepted
        <4>3. m \notin Accepted' =>
               /\ InTopic(m)' + InDead(m)' + InDone(m)' = 0
               /\ \A w \in Workers : InHand(w, m)' = 0
          BY <2>1, <3>1, <3>2, <3>3 DEF Placed, Accepted
        <4>4. m \notin removed' => \A w \in Workers : InHand(w, m)' # 1
          BY <3>1, <3>3, <3>4 DEF Placed
        <4> QED  BY <2>1, <4>1, <4>2, <4>3, <4>4 DEF Placed
      <3> QED  BY <3>5, <3>6
    <2> QED  BY <2>1, <2>3 DEF Custody, CustodyOf
  <1>5. ASSUME NEW e \in Messages, DeleteMessage(e)
        PROVE  Custody'
    <2>1. /\ removed' = removed \cup {e} /\ ~crashed
          /\ UNCHANGED <<batch, completed, reclaimed, accepted, crashed>>
          /\ processing' \in {processing, processing \ {e}}
          /\ messages' \in {messages, RemoveFirst(messages, e)}
          /\ deadLetter' \in {deadLetter, RemoveFirst(deadLetter, e)}
      BY <1>5 DEF DeleteMessage, TopicFree
    <2>2. messages \in Seq(Messages) /\ deadLetter \in Seq(Messages)
      BY DEF TypeInv, TypeOK
    <2>3. ASSUME NEW q \in Seq(Messages), NEW m \in Messages
          PROVE  /\ Copies(RemoveFirst(q, e), m) <= Copies(q, m)
                 /\ m # e => Copies(RemoveFirst(q, e), m) = Copies(q, m)
      <3>1. Copies(q, m) \in Nat
        BY CopiesType
      <3>2. CASE RemoveFirst(q, e) = q
        BY <3>1, <3>2
      <3>3. ASSUME NEW i \in 1 .. Len(q), q[i] = e,
                   RemoveFirst(q, e) = TakeOut(q, i)
            PROVE  /\ Copies(RemoveFirst(q, e), m) <= Copies(q, m)
                   /\ m # e => Copies(RemoveFirst(q, e), m) = Copies(q, m)
        BY <3>1, <3>3, CopiesTakeOut
      <3> QED  BY <3>2, <3>3, RemoveFirstShape
    <2>4. \A m \in Messages :
            /\ InTopic(m)' <= InTopic(m) /\ InDead(m)' <= InDead(m)
            /\ m # e => InTopic(m)' = InTopic(m) /\ InDead(m)' = InDead(m)
            /\ InDone(m)' = InDone(m)
            /\ \A w \in Workers : InHand(w, m)' = InHand(w, m)
      <3> TAKE m \in Messages
      <3>1. InTopic(m) \in Nat /\ InDead(m) \in Nat
        BY PlaceCounts
      <3>2. InTopic(m)' <= InTopic(m) /\ (m # e => InTopic(m)' = InTopic(m))
        BY <2>1, <2>2, <2>3, <3>1 DEF InTopic
      <3>3. InDead(m)' <= InDead(m) /\ (m # e => InDead(m)' = InDead(m))
        BY <2>1, <2>2, <2>3, <3>1 DEF InDead
      <3> QED  BY <2>1, <3>2, <3>3 DEF InDone, InHand
    <2>5. ASSUME NEW m \in Messages, m # e
          PROVE  CustodyOf(m)'
      <3>1. Same(m)
        BY <2>1, <2>4, <2>5 DEF Same, Accepted
      <3> QED  BY <3>1, SameKeeps DEF Custody
    <2>6. ASSUME e \notin reclaimed
          PROVE  Held(e)' /\ Placed(e)'
      <3>1. Held(e) /\ Placed(e)
        BY <2>1, <2>6 DEF Custody, CustodyOf
      <3>2. /\ InTopic(e) \in Nat /\ InDead(e) \in Nat /\ InDone(e) \in {0, 1}
            /\ \A v \in Workers : InHand(v, e) \in Nat
        BY PlaceCounts
      <3>3. InTopic(e)' \in Nat /\ InDead(e)' \in Nat
        <4>1. messages' \in Seq(Messages) /\ deadLetter' \in Seq(Messages)
          BY DEF TypeInv, TypeOK
        <4> QED  BY <4>1, CopiesType DEF InTopic, InDead
      <3>4. /\ InTopic(e)' <= InTopic(e) /\ InDead(e)' <= InDead(e)
            /\ InDone(e)' = InDone(e)
            /\ \A w \in Workers : InHand(w, e)' = InHand(w, e)
        BY <2>4
      <3>5. Held(e)'
        BY <3>1, <3>2, <3>3, <3>4 DEF Held
      <3>6. e \in removed' /\ Accepted' = Accepted
            /\ (e \in processing' => e \in processing)
        BY <2>1 DEF Accepted
      <3>7. Placed(e)'
        <4>1. /\ InTopic(e)' + InDead(e)' + InDone(e)' <= 1
              /\ \A w \in Workers : InHand(w, e)' + InDead(e)' <= 1
          BY <3>1, <3>2, <3>3, <3>4 DEF Placed
        <4>2. e \notin Accepted' =>
               /\ InTopic(e)' + InDead(e)' + InDone(e)' = 0
               /\ \A w \in Workers : InHand(w, e)' = 0
          BY <3>1, <3>2, <3>3, <3>4, <3>6 DEF Placed
        <4>3. e \in processing' => \E w \in Workers : InHand(w, e)' = 1
          BY <3>1, <3>4, <3>6 DEF Placed
        <4> QED  BY <3>6, <4>1, <4>2, <4>3 DEF Placed
      <3> QED  BY <3>5, <3>7
    <2>7. CustodyOf(e)'
      BY <2>1, <2>6 DEF CustodyOf
    <2> QED  BY <2>5, <2>7 DEF Custody
  <1> QED
    BY <1>1, <1>2, <1>3, <1>4, <1>5 DEF CleanupStep, AdminStep, TimeStep

\* Every step keeps the custody of every message, and so it holds throughout.
LEMMA CustodyStep ==
  ASSUME TypeInv, TypeInv', SentOnce, Custody, [Next]_vars
  PROVE  Custody'
  <1> USE DEF topicVars, prodVars, workVars, ghostVars, stopVars
  <1>1. ASSUME NEW p \in Producers, EnqueueStep(p)
        PROVE  Custody'
    <2>1. CASE EnqueueInsert(p)
      BY <2>1, CustodyEnqueue
    <2>2. CASE ~EnqueueInsert(p)
      BY <1>1, <2>2, QuietKeeps
         DEF Quiet, EnqueueStep, EnqueueCheck, getOrCreateTopic
    <2> QED  BY <2>1, <2>2
  <1>2. ASSUME NEW w \in Workers, WorkerStep(w)
        PROVE  Custody'
    <2>1. CASE StartScan(w) \/ ScanDelayed(w) \/ ScanNothing(w)
      BY <2>1, QuietKeeps DEF Quiet, StartScan, ScanDelayed, ScanNothing
    <2> QED
      BY <1>2, <2>1, CustodyExpired, CustodyDeliver, CustodyHandled,
         CustodySettle DEF WorkerStep
  <1>3. CASE UNCHANGED vars
    BY <1>3, QuietKeeps DEF Quiet, vars
  <1> QED  BY <1>1, <1>2, <1>3, CustodyOther DEF Next

LEMMA CustodyInit ==
  ASSUME Init
  PROVE  Custody
  <1>1. \A m \in Messages : /\ InTopic(m) = 0 /\ InDead(m) = 0 /\ InDone(m) = 0
                            /\ \A w \in Workers : InHand(w, m) = 0
    BY CopiesEmpty DEF Init, InTopic, InDead, InDone, InHand
  <1>2. Accepted = {} /\ processing = {}
    BY DEF Init, Accepted, ToSet
  <1>3. \A m \in Messages : Held(m)
    BY <1>1 DEF Held
  <1>4. \A m \in Messages : Placed(m)
    BY <1>1, <1>2 DEF Placed
  <1> QED  BY <1>3, <1>4 DEF Custody, CustodyOf

LEMMA CustodyHolds == Spec => [](TypeInv /\ SentOnce /\ Custody)
  <1>1. Init => TypeInv /\ SentOnce /\ Custody
    <2>1. Init => SentOnce
      BY DEF Init, SentOnce, Accepted, InFlight, ToSet
    <2> QED  BY <2>1, TypeInit, CustodyInit
  <1>2. TypeInv /\ SentOnce /\ Custody /\ [Next]_vars
          => (TypeInv /\ SentOnce /\ Custody)'
    BY TypeEnqueue, TypeWorker, TypeOther, TypeStutter, SentOnceStep,
       CustodyStep DEF Next
  <1> QED  BY <1>1, <1>2, PTL DEF Spec

\* An accepted message that no sweep took back and nobody removed is in
\* exactly one of the places the queue keeps messages in, whatever producers,
\* workers, expiries and management calls interleave.
THEOREM InOnePlace == Spec => []OnePlace
  <1>1. TypeInv /\ Custody => OnePlace
    <2> SUFFICES ASSUME TypeInv, Custody, ~crashed,
                        NEW m \in Accepted \ (reclaimed \cup removed)
                 PROVE  Copies(messages, m) + Copies(deadLetter, m)
                          + (IF m \in processing THEN 1 ELSE 0)
                          + (IF m \in completed THEN 1 ELSE 0) = 1
      BY DEF OnePlace
    <2>1. m \in Messages
      BY DEF TypeInv, TypeOK, Accepted, ToSet
    <2>2. Held(m) /\ Placed(m)
      BY <2>1 DEF Custody, CustodyOf
    <2>3. /\ InTopic(m) \in Nat /\ InDead(m) \in Nat /\ InDone(m) \in {0, 1}
          /\ \A v \in Workers : InHand(v, m) \in Nat
      BY <2>1, PlaceCounts
    <2>4. InTopic(m) + InDead(m) + (IF m \in processing THEN 1 ELSE 0)
            + InDone(m) = 1
      <3>1. CASE \E w \in Workers : InHand(w, m) = 1
        <4>1. PICK w \in Workers : InHand(w, m) = 1
          BY <3>1
        <4>2. InTopic(m) = 0 /\ InDead(m) = 0 /\ InDone(m) = 0
          BY <2>2, <2>3, <4>1 DEF Held, Placed
        <4>3. m \in processing
          BY <2>2, <4>1 DEF Placed
        <4> QED  BY <4>2, <4>3
      <3>2. CASE ~ \E w \in Workers : InHand(w, m) = 1
        <4>1. InTopic(m) + InDead(m) + InDone(m) = 1 /\ m \notin processing
          BY <2>2, <3>2 DEF Placed
        <4> QED  BY <2>3, <4>1
      <3> QED  BY <3>1, <3>2
    <2> QED  BY <2>4 DEF InTopic, InDead, InDone
  <1> QED  BY <1>1, CustodyHolds, PTL

\* Two workers hold the same message only after a visibility sweep took it
\* back from the first (memory.go:678-697); expiry, nacks and management
\* calls never bring that about.
THEOREM HeldByOne == Spec => []ExclusiveUntilReclaimed
  <1>1. TypeInv /\ Custody => ExclusiveUntilReclaimed
    <2> SUFFICES ASSUME TypeInv, Custody, NEW v \in Workers, NEW w \in Workers,
                        NEW m \in Messages \ reclaimed,
                        m \in ToSet(batch[v]), m \in ToSet(batch[w]), v # w
                 PROVE  FALSE
      BY DEF ExclusiveUntilReclaimed
    <2>1. InHand(v, m) + InHand(w, m) <= 1
      BY DEF Custody, CustodyOf, Held
    <2>2. InHand(v, m) >= 1 /\ InHand(w, m) >= 1
      BY CopiesMember DEF InHand, TypeInv, TypeOK
    <2>3. InHand(v, m) \in Nat /\ InHand(w, m) \in Nat
      BY PlaceCounts
    <2> QED  BY <2>1, <2>2, <2>3
  <1> QED  BY <1>1, CustodyHolds, PTL

-----------------------------------------------------------------------------
(* What the holder of the topic lock may count on *)

\* A scan runs under the topic lock; a sweep visits entries that are in
\* processing; c.mutex lets one worker settle at a time.
ScanLocked == \A w \in Workers : wPc[w] = "scan" => lock = w
SweepIn == lock = Cleaner => sweep \subseteq processing
OneSettles == \A v, w \in SettlingWorkers : v = w
LockInv == ScanLocked /\ SweepIn /\ OneSettles

\* Who touches neither lock, sweep nor workers keeps the invariant.
LEMMA LockFrame ==
  ASSUME LockInv, UNCHANGED <<lock, sweep, wPc>>,
         lock = Free \/ processing' = processing
  PROVE  LockInv'
  <1>1. Free # Cleaner
    BY HolderAssumption
  <1> QED
    BY <1>1 DEF LockInv, ScanLocked, SweepIn, OneSettles, SettlingWorkers

\* A scan neither starts nor ends a settlement.
LEMMA LockScan ==
  ASSUME TypeInv, LockInv, NEW w \in Workers,
         StartScan(w) \/ ScanExpired(w) \/ ScanDelayed(w) \/ ScanDeliver(w)
           \/ ScanNothing(w)
  PROVE  LockInv' /\ SettlingWorkers' = SettlingWorkers
         /\ \A v \in SettlingWorkers : batch'[v] = batch[v]
  <1> USE DEF topicVars, workVars
  <1>1. /\ wPc[w] \in {"poll", "scan"} /\ wPc'[w] \in {"poll", "scan", "handle"}
        /\ \A v \in Workers \ {w} : wPc'[v] = wPc[v] /\ batch'[v] = batch[v]
    BY DEF StartScan, ScanExpired, ScanDelayed, ScanDeliver, ScanNothing,
           Scanning, TypeInv, TypeOK
  <1>2. SettlingWorkers' = SettlingWorkers
    BY <1>1 DEF SettlingWorkers
  <1>3. \A v \in SettlingWorkers : v # w /\ batch'[v] = batch[v]
    BY <1>1 DEF SettlingWorkers
  <1>4. OneSettles'
    BY <1>2 DEF LockInv, OneSettles
  <1>5. \A v \in Workers : v # Cleaner /\ v # Free
    BY HolderAssumption
  <1>6. ScanLocked'
    <2> SUFFICES ASSUME NEW v \in Workers, wPc'[v] = "scan"
                 PROVE  lock' = v
      BY DEF ScanLocked
    <2>1. CASE v = w
      BY <1>1, <2>1 DEF StartScan, ScanExpired, ScanDelayed, ScanDeliver,
             ScanNothing, Scanning, LockInv, ScanLocked, TypeInv, TypeOK
    <2>2. CASE v # w
      <3>1. lock = v
        BY <1>1, <2>2 DEF LockInv, ScanLocked
      <3>2. ~StartScan(w)
        BY <1>5, <3>1 DEF StartScan, TopicFree
      <3>3. lock = w
        BY <3>2 DEF ScanExpired, ScanDelayed, ScanDeliver, ScanNothing,
                    Scanning, LockInv, ScanLocked
      <3> QED  BY <2>2, <3>1, <3>3
    <2> QED  BY <2>1, <2>2
  <1>7. SweepIn'
    <2>1. lock' # Cleaner
      BY <1>5, HolderAssumption
         DEF StartScan, ScanExpired, ScanDelayed, ScanDeliver, ScanNothing,
             Scanning, LockInv, ScanLocked
    <2> QED  BY <2>1 DEF SweepIn
  <1> QED  BY <1>2, <1>3, <1>4, <1>6, <1>7 DEF LockInv

\* A worker starts settling only when nobody is.
LEMMA LockSettle ==
  ASSUME TypeInv, LockInv, NEW w \in Workers, Handled(w) \/ Ack(w) \/ Nack(w)
  PROVE  LockInv'
  <1>1. Free \notin Workers /\ Free # Cleaner
    BY HolderAssumption
  <1>2. /\ lock = Free /\ lock' = lock /\ sweep' = sweep
        /\ wPc[w] \in {"handle", "ack", "nack"}
    BY DEF Handled, FindProcessing, Ack, Nack, TopicFree, lockVars
  <1>3. /\ wPc'[w] # "scan"
        /\ \A v \in Workers \ {w} : wPc'[v] = wPc[v]
    BY DEF Handled, FindProcessing, Ack, Nack, NextInBatch, TypeInv, TypeOK
  <1>4. ScanLocked'
    BY <1>1, <1>2, <1>3 DEF LockInv, ScanLocked
  <1>5. SweepIn'
    BY <1>1, <1>2 DEF SweepIn
  <1>6. OneSettles'
    <2>1. CASE Handled(w)
      <3>1. SettlingWorkers = {}
        BY <2>1 DEF Handled, FindProcessing, ConsumerLocked, SettlingWorkers
      <3>2. SettlingWorkers' \subseteq {w}
        BY <1>3, <3>1 DEF SettlingWorkers
      <3> QED  BY <3>2 DEF OneSettles
    <2>2. CASE Ack(w) \/ Nack(w)
      <3>1. NextInBatch(w) /\ wPc[w] \in {"ack", "nack"}
        BY <2>2 DEF Ack, Nack
      <3>2. SettlingWorkers = {w} /\ wPc'[w] \in {"poll", "handle"}
        BY <3>1 DEF LockInv, OneSettles, SettlingWorkers, NextInBatch,
                    TypeInv, TypeOK
      <3>3. SettlingWorkers' = {}
        BY <1>3, <3>2 DEF SettlingWorkers
      <3> QED  BY <3>3 DEF OneSettles
    <2> QED  BY <2>1, <2>2
  <1> QED  BY <1>4, <1>5, <1>6 DEF LockInv

LEMMA LockOther ==
  ASSUME TypeInv, LockInv, CleanupStep \/ AdminStep \/ TimeStep
  PROVE  LockInv'
  <1>1. Free \notin Workers /\ Free # Cleaner /\ Cleaner \notin Workers
    BY HolderAssumption
  <1>2. wPc' = wPc
    BY DEF CleanupStep, StartSweep, EndSweep, FindIdle, Reclaim, AdminStep,
           Purge, Delete, DeleteMessageStats, DeleteMessage, TimeStep, Expire,
           BecomeDue, workVars
  <1>3. CASE StartSweep \/ EndSweep
    <2>1. /\ lock \in {Free, Cleaner} /\ lock' \in {Free, Cleaner}
          /\ lock' = Cleaner => sweep' = processing
          /\ processing' = processing
      BY <1>1, <1>3 DEF StartSweep, EndSweep, TopicFree, topicVars
    <2> QED
      BY <1>1, <1>2, <2>1
         DEF LockInv, ScanLocked, SweepIn, OneSettles, SettlingWorkers
  <1>4. ASSUME NEW e \in Messages, Reclaim(e)
        PROVE  LockInv'
    <2>1. /\ lock = Cleaner /\ lock' = lock /\ e \in sweep
          /\ sweep' = sweep \ {e} /\ processing' = processing \ {e}
      BY <1>4 DEF Reclaim
    <2> QED
      BY <1>1, <1>2, <2>1
         DEF LockInv, ScanLocked, SweepIn, OneSettles, SettlingWorkers
  <1>5. CASE ~ StartSweep /\ ~ EndSweep /\ ~ \E e \in Messages : Reclaim(e)
    <2>1. /\ UNCHANGED <<lock, sweep>>
          /\ lock = Free \/ processing' = processing
      BY <1>5 DEF CleanupStep, FindIdle, AdminStep, Purge, Delete,
           DeleteMessageStats, DeleteMessage, TimeStep, Expire, BecomeDue,
           TopicFree, lockVars, topicVars
    <2> QED  BY <1>2, <2>1, LockFrame
  <1> QED  BY <1>3, <1>4, <1>5

LEMMA LockStep ==
  ASSUME TypeInv, LockInv, [Next]_vars
  PROVE  LockInv'
  <1>1. ASSUME NEW p \in Producers, EnqueueStep(p)
        PROVE  LockInv'
    <2>1. UNCHANGED <<lock, sweep, wPc, processing>>
      BY <1>1 DEF EnqueueStep, EnqueueCheck, getOrCreateTopic, EnqueueInsert,
                  lockVars, workVars, topicVars
    <2> QED  BY <2>1, LockFrame
  <1>2. ASSUME NEW w \in Workers, WorkerStep(w)
        PROVE  LockInv'
    BY <1>2, LockSettle, LockScan DEF WorkerStep
  <1>3. CASE UNCHANGED vars
    <2>1. UNCHANGED <<lock, sweep, wPc, processing>>
      BY <1>3 DEF vars, topicVars, lockVars, workVars
    <2> QED  BY <2>1, LockFrame
  <1> QED  BY <1>1, <1>2, <1>3, LockOther DEF Next

-----------------------------------------------------------------------------
(* How many copies each step moves *)

\* All the numbers the properties speak of are integers.
LEMMA Numbers ==
  ASSUME TypeInv
  PROVE  /\ \A c \in Counters : stats[c] \in Int
         /\ \A c \in Parts : owed[c] \in Nat
         /\ Len(accepted) \in Nat /\ Len(messages) \in Nat
         /\ Len(deadLetter) \in Nat
         /\ IsFiniteSet(completed) /\ Cardinality(completed) \in Nat
         /\ IsFiniteSet(processing) /\ Cardinality(processing) \in Nat
         /\ late["ack"] \in Nat /\ late["nack"] \in Nat
  BY FinitenessAssumption, FS_Subset, FS_CardinalityType
     DEF TypeInv, TypeOK, Settlements

\* One entry more or less in processing.
LEMMA ProcessingMoves ==
  ASSUME TypeInv, NEW e
  PROVE  /\ Cardinality(processing \ {e})
              = Cardinality(processing) - (IF e \in processing THEN 1 ELSE 0)
         /\ Cardinality(processing \cup {e})
              = Cardinality(processing) + (IF e \in processing THEN 0 ELSE 1)
  <1>1. IsFiniteSet(processing) /\ Cardinality(processing) \in Nat
    BY Numbers
  <1>2. CASE e \in processing
    <2>1. Cardinality(processing \cup {e}) = Cardinality(processing)
      <3>1. processing \cup {e} = processing
        BY <1>2
      <3> QED  BY <3>1
    <2>2. Cardinality(processing \ {e}) = Cardinality(processing) - 1
      BY <1>1, <1>2, FS_RemoveElement
    <2> QED  BY <1>1, <1>2, <2>1, <2>2
  <1>3. CASE e \notin processing
    <2>1. Cardinality(processing \ {e}) = Cardinality(processing)
      <3>1. processing \ {e} = processing
        BY <1>3
      <3> QED  BY <3>1
    <2>2. Cardinality(processing \cup {e}) = Cardinality(processing) + 1
      BY <1>1, <1>3, FS_AddElement
    <2> QED  BY <1>1, <1>3, <2>1, <2>2
  <1> QED  BY <1>2, <1>3

\* How giving a message back changes the lengths.
LEMMA GiveBackLengths ==
  ASSUME TypeInv, NEW e \in Messages
  PROVE  /\ Requeue(e) => /\ Len(messages') = Len(messages) + 1
                          /\ deadLetter' = deadLetter
         /\ DeadLetter(e) => /\ Len(deadLetter') = Len(deadLetter) + 1
                             /\ messages' = messages
  <1>1. messages \in Seq(Messages) /\ deadLetter \in Seq(Messages)
    BY DEF TypeInv, TypeOK
  <1>2. Len(insertByPriority(messages, e)) = Len(messages) + 1
    BY <1>1, InsertShape
  <1>3. Len(Append(deadLetter, e)) = Len(deadLetter) + 1
    BY <1>1
  <1> QED  BY <1>2, <1>3 DEF Requeue, DeadLetter

\* An insertion adds a copy.
LEMMA InsertMoves ==
  ASSUME TypeInv, NEW p \in Producers, EnqueueInsert(p)
  PROVE  /\ Len(messages') = Len(messages) + 1
         /\ Len(accepted') = Len(accepted) + 1
         /\ UNCHANGED <<processing, deadLetter, late>>
  <1>1. /\ pMsg[p] \in Messages /\ messages \in Seq(Messages)
        /\ accepted \in Seq(Messages)
        /\ messages' = insertByPriority(messages, pMsg[p])
        /\ accepted' = Append(accepted, pMsg[p])
    BY DEF EnqueueInsert, TypeInv, TypeOK, SendsMessage, InFlight
  <1> QED  BY <1>1, InsertShape DEF EnqueueInsert, ghostVars

\* Expiry moves a copy to the dead letters.
LEMMA ExpiredMoves ==
  ASSUME TypeInv, NEW w \in Workers, ScanExpired(w), ~crashed'
  PROVE  /\ Len(messages') = Len(messages) - 1
         /\ Len(deadLetter') = Len(deadLetter) + 1
         /\ expired # {}
         /\ UNCHANGED <<processing, late>>
  <1>1. /\ ~Stale /\ Scanning(w) /\ expired # {}
        /\ deadLetter' = Append(deadLetter, Scanned)
        /\ messages' = TakeOut(messages, scan.idx)
        /\ UNCHANGED <<processing, late>>
    BY DEF ScanExpired, ghostVars
  <1>2. messages \in Seq(Messages) /\ deadLetter \in Seq(Messages)
    BY DEF TypeInv, TypeOK
  <1>3. Len(messages') = Len(messages) - 1
    BY <1>1, <1>2, ScanTakeOut, TakeOutShape
  <1> QED  BY <1>1, <1>2, <1>3

\* A hand-out moves a copy to processing, where it may meet another one.
LEMMA DeliverMoves ==
  ASSUME TypeInv, NEW w \in Workers, ScanDeliver(w), ~crashed'
  PROVE  /\ Len(messages') = Len(messages) - 1
         /\ Cardinality(processing')
              = Cardinality(processing) + (IF Scanned \in processing THEN 0 ELSE 1)
         /\ Bump({"processing"}, {"pending"})
         /\ UNCHANGED <<deadLetter, late>>
  <1>1. /\ ~Stale /\ processing' = processing \cup {Scanned}
        /\ messages' = TakeOut(messages, scan.idx)
        /\ Bump({"processing"}, {"pending"})
        /\ UNCHANGED <<deadLetter, late>>
    BY DEF ScanDeliver, ghostVars
  <1>2. messages \in Seq(Messages)
    BY DEF TypeInv, TypeOK
  <1>3. Len(messages') = Len(messages) - 1
    BY <1>1, <1>2, ScanTakeOut, TakeOutShape
  <1>4. Cardinality(processing \cup {Scanned})
          = Cardinality(processing) + (IF Scanned \in processing THEN 0 ELSE 1)
    BY ProcessingMoves
  <1> QED  BY <1>1, <1>3, <1>4

\* A settlement takes the entry out of processing, unless it is late.
LEMMA SettleMoves ==
  ASSUME TypeInv, NEW w \in Workers, Ack(w) \/ Nack(w)
  PROVE  /\ Head(batch[w]) \in Messages /\ Late(w) \in {0, 1}
         /\ Cardinality(processing') = Cardinality(processing) - 1 + Late(w)
         /\ Ack(w) => /\ late'["ack"] = late["ack"] + Late(w)
                      /\ late'["nack"] = late["nack"]
                      /\ UNCHANGED <<messages, deadLetter>>
         /\ Nack(w) => /\ late'["nack"] = late["nack"] + Late(w)
                       /\ late'["ack"] = late["ack"]
                       /\ UNCHANGED completed
  <1>1. /\ NextInBatch(w) /\ wPc[w] \in {"handle", "ack", "nack"}
        /\ processing' = processing \ {Head(batch[w])}
    BY DEF Ack, Nack
  <1>2. Head(batch[w]) \in Messages
    BY <1>1, BatchAdvance
  <1>3. Cardinality(processing \ {Head(batch[w])})
          = Cardinality(processing)
              - (IF Head(batch[w]) \in processing THEN 1 ELSE 0)
    BY ProcessingMoves
  <1>4. Late(w) = IF Head(batch[w]) \in processing THEN 0 ELSE 1
    BY DEF Late
  <1>5. Cardinality(processing) \in Nat
    BY Numbers
  <1>6. Cardinality(processing') = Cardinality(processing) - 1 + Late(w)
    BY <1>1, <1>3, <1>4, <1>5
  <1>7. \A call \in Settlements :
          CountLate(call, w) =>
            /\ late'[call] = late[call] + Late(w)
            /\ \A c \in Settlements \ {call} : late'[c] = late[c]
    BY DEF CountLate, TypeInv, TypeOK
  <1>8. Ack(w) => /\ late'["ack"] = late["ack"] + Late(w)
                  /\ late'["nack"] = late["nack"]
    BY <1>7 DEF Ack, Settlements
  <1>9. Nack(w) => /\ late'["nack"] = late["nack"] + Late(w)
                   /\ late'["ack"] = late["ack"]
    BY <1>7 DEF Nack, Settlements
  <1>10. Late(w) \in {0, 1}
    BY <1>4
  <1> QED  BY <1>2, <1>6, <1>8, <1>9, <1>10 DEF Ack, Nack

\* The sweep moves a copy.
LEMMA ReclaimMoves ==
  ASSUME TypeInv, LockInv, NEW e \in Messages, Reclaim(e)
  PROVE  /\ \/ Len(messages') = Len(messages) + 1 /\ deadLetter' = deadLetter
            \/ Len(deadLetter') = Len(deadLetter) + 1 /\ messages' = messages
         /\ Cardinality(processing') = Cardinality(processing) - 1
         /\ UNCHANGED late
  <1>1. /\ e \in processing /\ processing' = processing \ {e}
        /\ Requeue(e) \/ DeadLetter(e)
        /\ UNCHANGED late
    BY DEF Reclaim, LockInv, SweepIn
  <1>2. Cardinality(processing') = Cardinality(processing) - 1
    BY <1>1, ProcessingMoves
  <1>3. \/ Len(messages') = Len(messages) + 1 /\ deadLetter' = deadLetter
        \/ Len(deadLetter') = Len(deadLetter) + 1 /\ messages' = messages
    BY <1>1, GiveBackLengths
  <1> QED  BY <1>1, <1>2, <1>3

\* DeleteMessage takes one copy away and owes the statistics one decrement.
LEMMA DeleteMoves ==
  ASSUME TypeInv, NEW m \in Messages, DeleteMessage(m)
  PROVE  /\ \/ /\ Len(messages') = Len(messages) - 1
               /\ OwesIn("pending") /\ UNCHANGED <<processing, deadLetter>>
            \/ /\ Cardinality(processing') = Cardinality(processing) - 1
               /\ OwesIn("processing") /\ UNCHANGED <<messages, deadLetter>>
            \/ /\ Len(deadLetter') = Len(deadLetter) - 1
               /\ OwesIn("dead") /\ UNCHANGED <<messages, processing>>
         /\ removed' # {}
         /\ UNCHANGED late
  <1>1. messages \in Seq(Messages) /\ deadLetter \in Seq(Messages)
    BY DEF TypeInv, TypeOK
  <1>2. ASSUME NEW q \in Seq(Messages), m \in ToSet(q)
        PROVE  Len(RemoveFirst(q, m)) = Len(q) - 1
    <2>1. PICK x \in 1 .. Len(q) : RemoveFirst(q, m) = TakeOut(q, x)
      BY <1>2, RemoveFirstTakes
    <2> QED  BY <2>1, TakeOutShape
  <1>3. m \in processing => Cardinality(processing \ {m}) = Cardinality(processing) - 1
    BY ProcessingMoves
  <1> QED  BY <1>1, <1>2, <1>3 DEF DeleteMessage

\* Purge leaves nothing.
LEMMA PurgeMoves ==
  ASSUME Purge
  PROVE  /\ Len(messages') = 0 /\ Len(deadLetter') = 0
         /\ Cardinality(processing') = 0
         /\ UNCHANGED late
  BY FS_EmptySet DEF Purge

\* Everybody else moves nothing.
Mover ==
  \/ \E p \in Producers : EnqueueInsert(p)
  \/ \E w \in Workers : ScanExpired(w) \/ ScanDeliver(w) \/ Ack(w) \/ Nack(w)
  \/ \E e \in Messages : Reclaim(e) \/ DeleteMessage(e)
  \/ Purge
LEMMA OthersMoveNothing ==
  ASSUME [Next]_vars, ~Mover
  PROVE  /\ UNCHANGED <<messages, deadLetter, processing, late,
                        accepted, completed, removed, reclaimed, crashed>>
         /\ expired \subseteq expired'
         /\ UNCHANGED <<stats, owed>> \/ \E c \in Parts : DeleteMessageStats(c)
  <1> USE DEF topicVars, statVars, stopVars, timeVars, prodVars, ghostVars
  <1>1. ASSUME NEW p \in Producers, EnqueueStep(p)
        PROVE  /\ UNCHANGED <<messages, deadLetter, processing, late,
                        accepted, completed, removed, reclaimed, crashed>>
               /\ expired \subseteq expired' /\ UNCHANGED <<stats, owed>>
    BY <1>1 DEF Mover, EnqueueStep, EnqueueCheck, getOrCreateTopic
  <1>2. ASSUME NEW w \in Workers, WorkerStep(w)
        PROVE  /\ UNCHANGED <<messages, deadLetter, processing, late,
                        accepted, completed, removed, reclaimed, crashed>>
               /\ expired \subseteq expired' /\ UNCHANGED <<stats, owed>>
    BY <1>2 DEF Mover, WorkerStep, StartScan, ScanDelayed, ScanNothing, Handled,
                FindProcessing
  <1>3. CASE CleanupStep \/ TimeStep
    BY <1>3 DEF Mover, CleanupStep, StartSweep, EndSweep, FindIdle, TimeStep,
                Expire, BecomeDue
  <1>4. CASE AdminStep
    BY <1>4 DEF Mover, AdminStep, Delete, DeleteMessageStats
  <1>5. CASE UNCHANGED vars
    BY <1>5 DEF vars
  <1> QED  BY <1>1, <1>2, <1>3, <1>4, <1>5 DEF Next

\* While no sweep took a message back, a worker settles what it holds: the
\* message was not acknowledged before and, unless something was removed, is
\* still in processing.
LEMMA SettlesItsOwn ==
  ASSUME TypeInv, Custody, NEW w \in Workers, Ack(w) \/ Nack(w), reclaimed = {}
  PROVE  /\ Head(batch[w]) \notin completed
         /\ removed = {} => Late(w) = 0
  <1>1. NextInBatch(w) /\ wPc[w] \in {"handle", "ack", "nack"} /\ ~crashed
    BY DEF Ack, Nack, TopicFree
  <1>2. PICK e \in Messages : e = Head(batch[w])
    BY <1>1, BatchAdvance
  <1>3. InHand(w, e) >= 1
    BY <1>1, <1>2, BatchAdvance
  <1>4. Held(e) /\ Placed(e)
    BY <1>1 DEF Custody, CustodyOf
  <1>5. /\ InTopic(e) \in Nat /\ InDone(e) \in {0, 1}
        /\ \A v \in Workers : InHand(v, e) \in Nat
    BY PlaceCounts
  <1>6. InHand(w, e) = 1 /\ InDone(e) = 0
    BY <1>3, <1>4, <1>5 DEF Held
  <1>7. removed = {} => e \in processing
    BY <1>4, <1>6 DEF Placed
  <1> QED  BY <1>2, <1>6, <1>7 DEF InDone, Late

-----------------------------------------------------------------------------
(* CapacityOvershoot *)

\* Apart from an insertion, only a late Nack makes the total grow.
LEMMA TotalStep ==
  ASSUME TypeInv, TypeInv', LockInv, [Next]_vars, ~crashed'
  PROVE  \/ \E p \in Producers :
              /\ EnqueueInsert(p) /\ late'["nack"] = late["nack"]
              /\ getTotalSize' = getTotalSize + 1
         \/ getTotalSize' - late'["nack"] <= getTotalSize - late["nack"]
  <1> DEFINE m == Len(messages)
             m1 == Len(messages')
             d == Len(deadLetter)
             d1 == Len(deadLetter')
             c == Cardinality(processing)
             c1 == Cardinality(processing')
             l == late["nack"]
             l1 == late'["nack"]
             total == m + c + d
             total1 == m1 + c1 + d1
             Falls == total1 - l1 <= total - l
  <1>1. m \in Nat /\ d \in Nat /\ c \in Nat /\ l \in Nat
    BY Numbers
  <1>2. m1 \in Nat /\ d1 \in Nat /\ c1 \in Nat /\ l1 \in Nat
    BY FinitenessAssumption, FS_Subset, FS_CardinalityType
       DEF TypeInv, TypeOK, Settlements
  <1>3. getTotalSize = m + c + d /\ getTotalSize' = m1 + c1 + d1
    BY DEF getTotalSize
  <1>4. ASSUME NEW p \in Producers, EnqueueInsert(p)
        PROVE  l1 = l /\ m1 + c1 + d1 = m + c + d + 1
    <2>1. m1 = m + 1 /\ c1 = c /\ d1 = d /\ l1 = l
      BY <1>4, InsertMoves
    <2> HIDE DEF m, m1, c, c1, d, d1, l, l1
    <2> QED  BY <1>1, <2>1
  <1>5. ASSUME NEW w \in Workers, ScanExpired(w)
        PROVE  Falls
    <2>1. m1 = m - 1 /\ c1 = c /\ d1 = d + 1 /\ l1 = l
      BY <1>5, ExpiredMoves
    <2> HIDE DEF m, m1, c, c1, d, d1, l, l1
    <2> QED  BY <1>1, <2>1
  <1>6. ASSUME NEW w \in Workers, ScanDeliver(w)
        PROVE  Falls
    <2>1. m1 = m - 1 /\ (c1 = c \/ c1 = c + 1) /\ d1 = d /\ l1 = l
      <3>1. /\ m1 = m - 1 /\ c1 = c + (IF Scanned \in processing THEN 0 ELSE 1)
            /\ d1 = d /\ l1 = l
        BY <1>6, DeliverMoves
      <3> HIDE DEF m, m1, c, c1, d, d1, l, l1
      <3> QED  BY <1>1, <3>1
    <2> HIDE DEF m, m1, c, c1, d, d1, l, l1
    <2> QED  BY <1>1, <2>1
  <1>7. ASSUME NEW w \in Workers, Ack(w) \/ Nack(w)
        PROVE  Falls
    <2>1. Late(w) \in {0, 1} /\ c1 = c - 1 + Late(w)
      BY <1>7, SettleMoves
    <2>2. CASE Ack(w)
      <3>1. m1 = m /\ d1 = d /\ l1 = l
        BY <2>2, SettleMoves
      <3> HIDE DEF m, m1, c, c1, d, d1, l, l1
      <3> QED  BY <1>1, <2>1, <3>1
    <2>3. CASE Nack(w)
      <3>1. l1 = l + Late(w) /\ Head(batch[w]) \in Messages
        BY <2>3, SettleMoves
      <3>2. (m1 = m + 1 /\ d1 = d) \/ (m1 = m /\ d1 = d + 1)
        BY <2>3, <3>1, GiveBackLengths DEF Nack
      <3> HIDE DEF m, m1, c, c1, d, d1, l, l1
      <3> QED  BY <1>1, <2>1, <3>1, <3>2
    <2> QED  BY <1>7, <2>2, <2>3
  <1>8. ASSUME NEW e \in Messages, Reclaim(e)
        PROVE  Falls
    <2>1. /\ (m1 = m + 1 /\ d1 = d) \/ (m1 = m /\ d1 = d + 1)
          /\ c1 = c - 1 /\ l1 = l
      BY <1>8, ReclaimMoves
    <2> HIDE DEF m, m1, c, c1, d, d1, l, l1
    <2> QED  BY <1>1, <2>1
  <1>9. ASSUME NEW e \in Messages, DeleteMessage(e)
        PROVE  Falls
    <2>1. /\ \/ m1 = m - 1 /\ c1 = c /\ d1 = d
             \/ m1 = m /\ c1 = c - 1 /\ d1 = d
             \/ m1 = m /\ c1 = c /\ d1 = d - 1
          /\ l1 = l
      BY <1>9, DeleteMoves
    <2> HIDE DEF m, m1, c, c1, d, d1, l, l1
    <2> QED  BY <1>1, <2>1
  <1>10. ASSUME Purge
        PROVE  Falls
    <2>1. m1 = 0 /\ c1 = 0 /\ d1 = 0 /\ l1 = l
      BY <1>10, PurgeMoves
    <2> HIDE DEF m, m1, c, c1, d, d1, l, l1
    <2>2. m1 + c1 + d1 = 0 /\ 0 <= m + c + d
      BY <1>1, <2>1
    <2> QED  BY <1>1, <2>1, <2>2
  <1>11. ASSUME ~Mover
        PROVE  Falls
    <2>1. m1 = m /\ c1 = c /\ d1 = d /\ l1 = l
      BY <1>11, OthersMoveNothing
    <2> HIDE DEF m, m1, c, c1, d, d1, l, l1
    <2>2. total1 - l1 = total - l /\ total - l \in Int
      BY <1>1, <2>1
    <2> HIDE DEF total, total1
    <2> QED  BY <2>2
  <1>12. \/ \E p \in Producers : EnqueueInsert(p) /\ l1 = l /\ m1 + c1 + d1 = m + c + d + 1
         \/ Falls
    BY <1>4, <1>5, <1>6, <1>7, <1>8, <1>9, <1>10, <1>11 DEF Mover
  <1>13. CASE Falls
    <2>1. total = getTotalSize /\ total1 = getTotalSize'
      BY <1>3
    <2> HIDE DEF total, total1
    <2> QED  BY <1>13, <2>1, Zenon
  <1>14. ASSUME NEW p \in Producers, EnqueueInsert(p), l1 = l,
                m1 + c1 + d1 = m + c + d + 1
         PROVE  late'["nack"] = late["nack"] /\ getTotalSize' = getTotalSize + 1
    BY <1>3, <1>14
  <1> QED  BY <1>12, <1>13, <1>14

\* Producers past the check can be counted.
LEMMA InFlightFinite ==
  /\ IsFiniteSet(InFlight) /\ Cardinality(InFlight) \in Nat
  /\ Cardinality(InFlight) <= Cardinality(Producers)
  /\ Cardinality(Producers) \in Nat
  <1>1. InFlight \subseteq Producers
    BY DEF InFlight
  <1> QED  BY <1>1, FinitenessAssumption, FS_Subset, FS_CardinalityType

\* A producer gets past the check only with room for its message, and leaves
\* when it inserts it.
LEMMA InFlightStep ==
  ASSUME TypeInv, [Next]_vars
  PROVE  /\ \/ InFlight' \subseteq InFlight
            \/ \E p \in Producers, m \in Messages : EnqueueCheck(p, m)
         /\ \A p \in Producers :
              EnqueueInsert(p) => p \in InFlight /\ InFlight' = InFlight \ {p}
  <1>1. \A p \in Producers :
          EnqueueInsert(p) => p \in InFlight /\ InFlight' = InFlight \ {p}
    BY DEF EnqueueInsert, InFlight, TypeInv, TypeOK
  <1>2. ASSUME NEW p \in Producers, getOrCreateTopic(p)
        PROVE  InFlight' \subseteq InFlight
    BY <1>2 DEF getOrCreateTopic, InFlight, TypeInv, TypeOK
  <1>3. UNCHANGED pPc \/ \E p \in Producers : EnqueueStep(p)
    <2> USE DEF prodVars
    <2>1. ASSUME NEW w \in Workers, WorkerStep(w)
          PROVE  UNCHANGED pPc
      BY <2>1 DEF WorkerStep, StartScan, ScanExpired, ScanDelayed,
           ScanDeliver, ScanNothing, Handled, FindProcessing, Ack, Nack
    <2>2. CASE CleanupStep \/ AdminStep \/ TimeStep
      BY <2>2 DEF CleanupStep, StartSweep, EndSweep, FindIdle, Reclaim,
           AdminStep, Purge, Delete, DeleteMessageStats, DeleteMessage,
           TimeStep, Expire, BecomeDue
    <2>3. CASE UNCHANGED vars
      BY <2>3 DEF vars
    <2> QED  BY <2>1, <2>2, <2>3 DEF Next
  <1>4. CASE UNCHANGED pPc
    BY <1>1, <1>4 DEF InFlight
  <1> QED  BY <1>1, <1>2, <1>3, <1>4 DEF EnqueueStep

\* So the bound is kept.
LEMMA CapacityStep ==
  ASSUME TypeInv, TypeInv', LockInv, Custody, CapacityOvershoot, [Next]_vars
  PROVE  CapacityOvershoot'
  <1> DEFINE total == getTotalSize'
  <1>1. /\ late["nack"] \in Nat /\ late'["nack"] \in Nat /\ MaxSize \in Nat
        /\ getTotalSize \in Nat /\ total \in Nat
    <2>1. \A q \in Seq(Messages) : Len(q) \in Nat
      OBVIOUS
    <2>2. Cardinality(processing) \in Nat /\ Cardinality(processing') \in Nat
      BY FinitenessAssumption, FS_Subset, FS_CardinalityType DEF TypeInv, TypeOK
    <2> QED  BY <2>1, <2>2, ParamsAssumption
             DEF TypeInv, TypeOK, Settlements, getTotalSize
  <1>2. /\ IsFiniteSet(InFlight) /\ Cardinality(InFlight) \in Nat
        /\ Cardinality(InFlight) <= Cardinality(Producers)
        /\ Cardinality(Producers) \in Nat
    BY InFlightFinite
  <1>3. /\ Cardinality(InFlight') \in Nat
        /\ Cardinality(InFlight') <= Cardinality(Producers)
    <2>1. InFlight' \subseteq Producers
      BY DEF InFlight
    <2> QED  BY <2>1, FinitenessAssumption, FS_Subset, FS_CardinalityType
  <1> DEFINE Bounded == total + Cardinality(InFlight')
                          <= MaxSize + Cardinality(Producers) - 1 + late'["nack"]
  <1> HIDE DEF total
  <1>4. ASSUME MaxSize > 0, ~crashed'
        PROVE  Bounded
    <2>1. ~crashed
      <3>1. crashed => crashed'
        BY DEF Next, EnqueueStep, EnqueueCheck, getOrCreateTopic, EnqueueInsert,
          WorkerStep, StartScan, ScanExpired, ScanDelayed, ScanDeliver,
          ScanNothing, Handled, FindProcessing, Ack, Nack, CleanupStep,
          StartSweep, EndSweep, FindIdle, Reclaim, AdminStep, Purge, Delete,
          DeleteMessageStats, DeleteMessage, TimeStep, Expire, BecomeDue,
          vars, stopVars
      <3> QED  BY <1>4, <3>1
    <2>2. getTotalSize + Cardinality(InFlight)
            <= MaxSize + Cardinality(Producers) - 1 + late["nack"]
      BY <1>4, <2>1 DEF CapacityOvershoot
    <2>3. ASSUME NEW p \in Producers, EnqueueInsert(p), late'["nack"] = late["nack"],
                 total = getTotalSize + 1
          PROVE  Bounded
      <3>1. Cardinality(InFlight') = Cardinality(InFlight) - 1
        BY <1>2, <2>3, InFlightStep, FS_RemoveElement
      <3> QED  BY <1>1, <1>2, <2>2, <2>3, <3>1
    <2>4. ASSUME NEW p \in Producers, NEW m \in Messages, EnqueueCheck(p, m)
          PROVE  Bounded
      <3>1. UNCHANGED <<messages, deadLetter, processing, late>>
        BY <2>4 DEF EnqueueCheck, topicVars, ghostVars
      <3>2. total = getTotalSize
        BY <3>1 DEF getTotalSize, total
      <3>3. CASE getTotalSize >= MaxSize
        <4>1. InFlight' = InFlight
          BY <1>4, <2>4, <3>3 DEF EnqueueCheck, InFlight
        <4> QED  BY <2>2, <3>1, <3>2, <4>1
      <3>4. CASE ~(getTotalSize >= MaxSize)
        BY <1>1, <1>2, <1>3, <3>1, <3>2, <3>4
      <3> QED  BY <3>3, <3>4
    <2>5. ASSUME InFlight' \subseteq InFlight,
                 total - late'["nack"] <= getTotalSize - late["nack"]
          PROVE  Bounded
      <3>1. Cardinality(InFlight') <= Cardinality(InFlight)
        BY <1>2, <2>5, FS_Subset
      <3>2. total <= getTotalSize - late["nack"] + late'["nack"]
        BY <1>1, <2>5
      <3>3. total + Cardinality(InFlight')
              <= getTotalSize + Cardinality(InFlight) - late["nack"] + late'["nack"]
        BY <1>1, <1>2, <1>3, <3>1, <3>2
      <3> QED  BY <1>1, <1>2, <1>3, <2>2, <3>3
    <2> QED  BY <1>4, <2>3, <2>4, <2>5, TotalStep, InFlightStep DEF total
  <1>5. ASSUME reclaimed' = {}, removed' = {}
        PROVE  late'["nack"] = 0
    <2>1. reclaimed = {} /\ removed = {}
      <3>1. reclaimed \subseteq reclaimed' /\ removed \subseteq removed'
        BY DEF Next, EnqueueStep, EnqueueCheck, getOrCreateTopic, EnqueueInsert,
          WorkerStep, StartScan, ScanExpired, ScanDelayed, ScanDeliver,
          ScanNothing, Handled, FindProcessing, Ack, Nack, CleanupStep,
          StartSweep, EndSweep, FindIdle, Reclaim, AdminStep, Purge, Delete,
          DeleteMessageStats, DeleteMessage, TimeStep, Expire, BecomeDue,
          vars, ghostVars
      <3> QED  BY <1>5, <3>1
    <2>2. late["nack"] = 0
      BY <2>1 DEF CapacityOvershoot
    <2>3. ASSUME NEW w \in Workers, Nack(w)
          PROVE  late'["nack"] = 0
      <3>1. Late(w) = 0
        BY <2>1, <2>3, SettlesItsOwn
      <3>2. late'["nack"] = late["nack"] + Late(w)
        BY <2>3, SettleMoves
      <3> QED  BY <2>2, <3>1, <3>2
    <2>4. ASSUME NEW w \in Workers, Ack(w)
          PROVE  late'["nack"] = 0
      BY <2>2, <2>4, SettleMoves
    <2>5. CASE ~ \E w \in Workers : Ack(w) \/ Nack(w)
      <3>1. UNCHANGED late
        BY <2>5 DEF Next, EnqueueStep, EnqueueCheck, getOrCreateTopic,
          EnqueueInsert, WorkerStep, StartScan, ScanExpired, ScanDelayed,
          ScanDeliver, ScanNothing, Handled, FindProcessing, CleanupStep,
          StartSweep, EndSweep, FindIdle, Reclaim, AdminStep, Purge, Delete,
          DeleteMessageStats, DeleteMessage, TimeStep, Expire, BecomeDue,
          vars, ghostVars
      <3> QED  BY <2>2, <3>1
    <2> QED  BY <2>3, <2>4, <2>5
  <1> QED  BY <1>4, <1>5 DEF CapacityOvershoot, total

\* Enqueue compares MaxSize with getTotalSize before it takes the topic lock
\* (memory.go:88-108, 606-618), so the total can outgrow MaxSize: by at most
\* one message per producer, and by the copies that Nacks put back after a
\* sweep or a removal had taken the message from them; for any number of
\* producers and workers.
THEOREM CapacityHolds == Spec => []CapacityOvershoot
  <1>1. Init => LockInv /\ CapacityOvershoot
    <2> SUFFICES ASSUME Init
                 PROVE  LockInv /\ CapacityOvershoot
      OBVIOUS
    <2>1. SettlingWorkers = {} /\ InFlight = {} /\ processing = {}
          /\ Len(messages) = 0 /\ Len(deadLetter) = 0 /\ late["nack"] = 0
      BY DEF Init, SettlingWorkers, InFlight, Settlements
    <2>2. LockInv
      BY <2>1, HolderAssumption DEF Init, LockInv, ScanLocked, SweepIn, OneSettles
    <2>3. Cardinality(InFlight) = 0 /\ getTotalSize = 0
      BY <2>1, FS_EmptySet DEF getTotalSize
    <2>4. Cardinality(Producers) \in Nat /\ MaxSize \in Nat
      BY FinitenessAssumption, FS_CardinalityType, ParamsAssumption
    <2> QED  BY <2>1, <2>2, <2>3, <2>4 DEF CapacityOvershoot
  <1>2. TypeInv /\ TypeInv' /\ Custody /\ LockInv /\ CapacityOvershoot /\ [Next]_vars
          => LockInv' /\ CapacityOvershoot'
    BY LockStep, CapacityStep
  <1> QED  BY <1>1, <1>2, CustodyHolds, PTL DEF Spec

-----------------------------------------------------------------------------
(* StatsMatch *)

\* Lengths and counters as plain numbers, so that a step is arithmetic.
Size(q) == Len(q)
At(f, k) == f[k]

\* The ledger of the three counters, kept whatever happens, and the accounts
\* that are exact until a sweep takes a message back.
Owing == At(owed, "pending") + At(owed, "processing") + At(owed, "dead")
Counted ==
  At(stats, "pending") + At(stats, "processing") + At(stats, "dead")
Ledger ==
  /\ At(stats, "total") = Size(accepted)
  /\ Counted + At(late, "ack") + At(late, "nack")
       >= Size(messages) + Cardinality(processing) + Size(deadLetter) + Owing
Exact ==
  /\ At(stats, "pending") + At(stats, "dead")
       = Size(messages) + Size(deadLetter) + At(owed, "pending") + At(owed, "dead")
  /\ At(stats, "pending") >= Size(messages) + At(owed, "pending")
  /\ expired = {} => At(stats, "pending") = Size(messages) + At(owed, "pending")
  /\ At(stats, "completed") = Cardinality(completed)
  /\ removed = {} => At(stats, "processing") = Cardinality(processing)
\* DeleteMessage owes a decrement only after it removed something.
OwedRemoved == (\E c \in Parts : owed[c] > 0) => removed # {}
StatsInv ==
  OwedRemoved /\ (~crashed => Ledger /\ (reclaimed = {} => Exact))

LEMMA Amounts ==
  ASSUME TypeInv
  PROVE  /\ At(stats, "total") \in Int /\ At(stats, "pending") \in Int
         /\ At(stats, "processing") \in Int /\ At(stats, "dead") \in Int
         /\ At(stats, "completed") \in Int
         /\ At(owed, "pending") \in Nat /\ At(owed, "processing") \in Nat
         /\ At(owed, "dead") \in Nat
         /\ Size(accepted) \in Nat /\ Size(messages) \in Nat
         /\ Size(deadLetter) \in Nat
         /\ Cardinality(completed) \in Nat /\ Cardinality(processing) \in Nat
         /\ At(late, "ack") \in Nat /\ At(late, "nack") \in Nat
  BY Numbers DEF At, Size, Counters, Parts

\* What Bump does to each counter.
LEMMA BumpEffect ==
  ASSUME TypeInv, NEW up, NEW down, Bump(up, down), NEW c \in Counters
  PROVE  /\ c \in up /\ c \notin down => At(stats', c) = At(stats, c) + 1
         /\ c \notin up /\ c \in down => At(stats', c) = At(stats, c) - 1
         /\ c \notin up /\ c \notin down => At(stats', c) = At(stats, c)
  <1>1. stats[c] \in Int
    BY Numbers
  <1>2. stats'[c] = stats[c] + (IF c \in up THEN 1 ELSE 0)
                             - (IF c \in down THEN 1 ELSE 0)
    BY DEF Bump
  <1> QED  BY <1>1, <1>2 DEF At

\* And for the bumps that are made.
LEMMA BumpNumbers ==
  ASSUME TypeInv
  PROVE  /\ Bump({"total", "pending"}, {}) =>
              /\ At(stats', "total") = At(stats, "total") + 1
              /\ At(stats', "pending") = At(stats, "pending") + 1
              /\ At(stats', "processing") = At(stats, "processing")
              /\ At(stats', "dead") = At(stats, "dead")
              /\ At(stats', "completed") = At(stats, "completed")
         /\ Bump({"processing"}, {"pending"}) =>
              /\ At(stats', "total") = At(stats, "total")
              /\ At(stats', "pending") = At(stats, "pending") - 1
              /\ At(stats', "processing") = At(stats, "processing") + 1
              /\ At(stats', "dead") = At(stats, "dead")
              /\ At(stats', "completed") = At(stats, "completed")
         /\ Bump({"completed"}, {"processing"}) =>
              /\ At(stats', "total") = At(stats, "total")
              /\ At(stats', "pending") = At(stats, "pending")
              /\ At(stats', "processing") = At(stats, "processing") - 1
              /\ At(stats', "dead") = At(stats, "dead")
              /\ At(stats', "completed") = At(stats, "completed") + 1
         /\ Bump({"pending"}, {"processing"}) =>
              /\ At(stats', "total") = At(stats, "total")
              /\ At(stats', "pending") = At(stats, "pending") + 1
              /\ At(stats', "processing") = At(stats, "processing") - 1
              /\ At(stats', "dead") = At(stats, "dead")
              /\ At(stats', "completed") = At(stats, "completed")
         /\ Bump({"failed", "dead"}, {"processing"}) =>
              /\ At(stats', "total") = At(stats, "total")
              /\ At(stats', "pending") = At(stats, "pending")
              /\ At(stats', "processing") = At(stats, "processing") - 1
              /\ At(stats', "dead") = At(stats, "dead") + 1
              /\ At(stats', "completed") = At(stats, "completed")
  <1> DEFINE Moved(up, down) ==
        \A c \in Counters :
          /\ c \in up /\ c \notin down => At(stats', c) = At(stats, c) + 1
          /\ c \notin up /\ c \in down => At(stats', c) = At(stats, c) - 1
          /\ c \notin up /\ c \notin down => At(stats', c) = At(stats, c)
  <1>1. \A up, down : Bump(up, down) => Moved(up, down)
    BY BumpEffect
  <1> HIDE DEF Moved
  <1>2. Bump({"total", "pending"}, {}) => Moved({"total", "pending"}, {})
    BY <1>1
  <1>3. Bump({"processing"}, {"pending"}) => Moved({"processing"}, {"pending"})
    BY <1>1
  <1>4. Bump({"completed"}, {"processing"}) => Moved({"completed"}, {"processing"})
    BY <1>1
  <1>5. Bump({"pending"}, {"processing"}) => Moved({"pending"}, {"processing"})
    BY <1>1
  <1>6. Bump({"failed", "dead"}, {"processing"})
          => Moved({"failed", "dead"}, {"processing"})
    BY <1>1
  <1> QED  BY <1>2, <1>3, <1>4, <1>5, <1>6 DEF Moved, Counters

\* Enqueue, hand-out, Ack and Nack, Purge, and the two steps of DeleteMessage
\* each update the counters by what they moved.
LEMMA StatsEnqueue ==
  ASSUME TypeInv, StatsInv, NEW p \in Producers, EnqueueInsert(p)
  PROVE  StatsInv'
  <1>1. /\ UNCHANGED <<owed, removed, completed, reclaimed, expired, crashed>>
        /\ Bump({"total", "pending"}, {})
    BY DEF EnqueueInsert, stopVars, timeVars, ghostVars
  <1>2. /\ Size(messages') = Size(messages) + 1
        /\ Size(accepted') = Size(accepted) + 1
        /\ UNCHANGED <<processing, deadLetter, late>>
    BY InsertMoves DEF Size
  <1>3. /\ At(stats', "total") = At(stats, "total") + 1
        /\ At(stats', "pending") = At(stats, "pending") + 1
        /\ At(stats', "processing") = At(stats, "processing")
        /\ At(stats', "dead") = At(stats, "dead")
        /\ At(stats', "completed") = At(stats, "completed")
    BY <1>1, BumpNumbers
  <1>4. Ledger => Ledger'
    BY <1>1, <1>2, <1>3, Amounts DEF Ledger, Owing, Counted
  <1>5. Exact => Exact'
    BY <1>1, <1>2, <1>3, Amounts DEF Exact
  <1> QED  BY <1>1, <1>4, <1>5 DEF StatsInv, OwedRemoved

\* Expiry moves a message without counting.
LEMMA StatsExpired ==
  ASSUME TypeInv, StatsInv, NEW w \in Workers, ScanExpired(w)
  PROVE  StatsInv'
  <1>1. /\ UNCHANGED <<stats, owed, removed, completed, accepted, reclaimed,
                       expired>>
        /\ ~crashed
    BY DEF ScanExpired, Scanning, statVars, prodVars, timeVars, ghostVars
  <1>2. ASSUME ~crashed'
        PROVE  (Ledger => Ledger') /\ (Exact => Exact')
    <2>1. /\ Size(messages') = Size(messages) - 1
          /\ Size(deadLetter') = Size(deadLetter) + 1
          /\ expired # {}
          /\ UNCHANGED <<processing, late>>
      BY <1>2, ExpiredMoves DEF Size
    <2>2. Ledger => Ledger'
      BY <1>1, <2>1, Amounts DEF Ledger, Owing, Counted
    <2>3. Exact => Exact'
      BY <1>1, <2>1, Amounts DEF Exact
    <2> QED  BY <2>2, <2>3
  <1> QED  BY <1>1, <1>2 DEF StatsInv, OwedRemoved

LEMMA StatsDeliver ==
  ASSUME TypeInv, Custody, StatsInv, NEW w \in Workers, ScanDeliver(w)
  PROVE  StatsInv'
  <1>1. UNCHANGED <<owed, removed, completed, accepted, reclaimed, expired>>
        /\ ~crashed
    BY DEF ScanDeliver, Scanning, prodVars, timeVars, ghostVars
  <1>2. ASSUME ~crashed'
        PROVE  (Ledger => Ledger') /\ (reclaimed = {} /\ Exact => Exact')
    <2>1. /\ Size(messages') = Size(messages) - 1
          /\ Cardinality(processing')
               = Cardinality(processing) + (IF Scanned \in processing THEN 0 ELSE 1)
          /\ Bump({"processing"}, {"pending"})
          /\ UNCHANGED <<deadLetter, late>>
      BY <1>2, DeliverMoves DEF Size
    <2>2. /\ At(stats', "total") = At(stats, "total")
          /\ At(stats', "pending") = At(stats, "pending") - 1
          /\ At(stats', "processing") = At(stats, "processing") + 1
          /\ At(stats', "dead") = At(stats, "dead")
          /\ At(stats', "completed") = At(stats, "completed")
      BY <2>1, BumpNumbers
    <2>3. reclaimed = {} => Scanned \notin processing
      <3> SUFFICES ASSUME reclaimed = {}
                   PROVE  Scanned \notin processing
        OBVIOUS
      <3>1. ~Stale /\ messages' = TakeOut(messages, scan.idx)
        BY <1>2 DEF ScanDeliver
      <3>2. PICK e \in Messages : e = Scanned
        BY ScannedType DEF ScanDeliver, Scanning
      <3>3. Held(e) /\ Placed(e)
        BY <1>1 DEF Custody, CustodyOf
      <3>4. InTopic(e) >= 1
        BY <3>1, <3>2, ScanCounts
      <3>5. InTopic(e) \in Nat /\ InDone(e) \in {0, 1}
            /\ \A v \in Workers : InHand(v, e) \in Nat
        BY PlaceCounts
      <3>6. \A v \in Workers : InHand(v, e) # 1
        BY <3>3, <3>4, <3>5 DEF Held
      <3> QED  BY <3>2, <3>3, <3>6 DEF Placed
    <2>4. Ledger => Ledger'
      BY <1>1, <2>1, <2>2, Amounts DEF Ledger, Owing, Counted
    <2>5. reclaimed = {} /\ Exact => Exact'
      BY <1>1, <2>1, <2>2, <2>3, Amounts DEF Exact
    <2> QED  BY <2>4, <2>5
  <1> QED  BY <1>1, <1>2 DEF StatsInv, OwedRemoved

LEMMA StatsSettle ==
  ASSUME TypeInv, Custody, StatsInv, NEW w \in Workers, Ack(w) \/ Nack(w)
  PROVE  StatsInv'
  <1>1. UNCHANGED <<owed, accepted, removed, reclaimed, crashed, expired>>
        /\ ~crashed
    BY DEF Ack, Nack, TopicFree, stopVars, prodVars, timeVars
  <1>2. /\ Head(batch[w]) \in Messages /\ Late(w) \in {0, 1}
        /\ Cardinality(processing') = Cardinality(processing) - 1 + Late(w)
    BY SettleMoves
  <1>3. reclaimed = {} =>
          Head(batch[w]) \notin completed /\ (removed = {} => Late(w) = 0)
    BY SettlesItsOwn
  <1>4. CASE Ack(w)
    <2>1. /\ At(late', "ack") = At(late, "ack") + Late(w)
          /\ At(late', "nack") = At(late, "nack")
          /\ UNCHANGED <<messages, deadLetter>>
      BY <1>4, SettleMoves DEF At
    <2>2. /\ At(stats', "total") = At(stats, "total")
          /\ At(stats', "pending") = At(stats, "pending")
          /\ At(stats', "processing") = At(stats, "processing") - 1
          /\ At(stats', "dead") = At(stats, "dead")
          /\ At(stats', "completed") = At(stats, "completed") + 1
      BY <1>4, BumpNumbers DEF Ack
    <2>3. reclaimed = {} => Cardinality(completed') = Cardinality(completed) + 1
      BY <1>3, <1>4, Numbers, FS_AddElement DEF Ack
    <2>4. Ledger => Ledger'
      BY <1>1, <1>2, <2>1, <2>2, Amounts DEF Ledger, Owing, Counted
    <2>5. reclaimed = {} /\ Exact => Exact'
      BY <1>1, <1>2, <1>3, <2>1, <2>2, <2>3, Amounts DEF Exact
    <2> QED  BY <1>1, <2>4, <2>5 DEF StatsInv, OwedRemoved
  <1>5. CASE Nack(w)
    <2>1. /\ At(late', "nack") = At(late, "nack") + Late(w)
          /\ At(late', "ack") = At(late, "ack")
          /\ UNCHANGED completed
      BY <1>5, SettleMoves DEF At
    <2>2. \/ /\ Size(messages') = Size(messages) + 1 /\ deadLetter' = deadLetter
             /\ Bump({"pending"}, {"processing"})
          \/ /\ Size(deadLetter') = Size(deadLetter) + 1 /\ messages' = messages
             /\ Bump({"failed", "dead"}, {"processing"})
      BY <1>2, <1>5, GiveBackLengths DEF Nack, Size
    <2>3. /\ At(stats', "total") = At(stats, "total")
          /\ At(stats', "processing") = At(stats, "processing") - 1
          /\ At(stats', "completed") = At(stats, "completed")
          /\ \/ /\ Size(messages') = Size(messages) + 1 /\ deadLetter' = deadLetter
                /\ At(stats', "pending") = At(stats, "pending") + 1
                /\ At(stats', "dead") = At(stats, "dead")
             \/ /\ Size(deadLetter') = Size(deadLetter) + 1 /\ messages' = messages
                /\ At(stats', "pending") = At(stats, "pending")
                /\ At(stats', "dead") = At(stats, "dead") + 1
      BY <2>2, BumpNumbers
    <2>4. Ledger => Ledger'
      BY <1>1, <1>2, <2>1, <2>3, Amounts DEF Ledger, Owing, Counted
    <2>5. reclaimed = {} /\ Exact => Exact'
      BY <1>1, <1>2, <1>3, <2>1, <2>3, Amounts DEF Exact
    <2> QED  BY <1>1, <2>4, <2>5 DEF StatsInv, OwedRemoved
  <1> QED  BY <1>4, <1>5

\* The sweep moves a message without counting.
LEMMA StatsReclaim ==
  ASSUME TypeInv, LockInv, StatsInv, NEW e \in Messages, Reclaim(e)
  PROVE  StatsInv'
  <1>1. /\ UNCHANGED <<stats, owed, accepted, removed, crashed>>
        /\ reclaimed' # {}
    BY DEF Reclaim, statVars, stopVars, prodVars
  <1>2. /\ \/ Size(messages') = Size(messages) + 1 /\ deadLetter' = deadLetter
           \/ Size(deadLetter') = Size(deadLetter) + 1 /\ messages' = messages
        /\ Cardinality(processing') = Cardinality(processing) - 1
        /\ UNCHANGED late
    BY ReclaimMoves DEF Size
  <1>3. Ledger => Ledger'
    BY <1>1, <1>2, Amounts DEF Ledger, Owing, Counted
  <1> QED  BY <1>1, <1>3 DEF StatsInv, OwedRemoved

LEMMA StatsPurge ==
  ASSUME TypeInv, StatsInv, Purge
  PROVE  StatsInv'
  <1>1. /\ \A c \in Parts : owed[c] = 0
        /\ UNCHANGED <<owed, accepted, completed, reclaimed, expired, crashed>>
        /\ removed' = {} => removed = {}
        /\ stats' = [stats EXCEPT !["pending"] = @ - Len(messages),
                                  !["processing"] = @ - Cardinality(processing),
                                  !["dead"] = @ - Len(deadLetter)]
    BY DEF Purge, QWritable, stopVars, timeVars, prodVars
  <1>2. /\ At(stats', "total") = At(stats, "total")
        /\ At(stats', "pending") = At(stats, "pending") - Size(messages)
        /\ At(stats', "dead") = At(stats, "dead") - Size(deadLetter)
        /\ At(stats', "completed") = At(stats, "completed")
        /\ At(stats', "processing")
             = At(stats, "processing") - Cardinality(processing)
    BY <1>1 DEF TypeInv, TypeOK, Counters, At, Size
  <1>3. /\ Size(messages') = 0 /\ Size(deadLetter') = 0
        /\ Cardinality(processing') = 0 /\ UNCHANGED late
    BY PurgeMoves DEF Size
  <1>4. At(owed, "pending") = 0 /\ At(owed, "processing") = 0 /\ At(owed, "dead") = 0
    BY <1>1 DEF At, Parts
  <1>5. Ledger => Ledger'
    <2>1. Owing' = 0 /\ Owing = 0
      BY <1>1, <1>4 DEF Owing
    <2>2. Counted' = Counted - Size(messages) - Cardinality(processing)
                       - Size(deadLetter)
      BY <1>2, Amounts DEF Counted
    <2>3. Counted \in Int
      BY Amounts DEF Counted
    <2> SUFFICES ASSUME Ledger
                 PROVE  Ledger'
      OBVIOUS
    <2>4. At(stats', "total") = Size(accepted')
      BY <1>1, <1>2 DEF Ledger
    <2>5. Counted' + At(late', "ack") + At(late', "nack") >= 0
      <3>1. Counted + At(late, "ack") + At(late, "nack")
              >= Size(messages) + Cardinality(processing) + Size(deadLetter)
        BY <2>1, Amounts DEF Ledger
      <3> DEFINE n == Counted'
      <3>2. n = Counted - Size(messages) - Cardinality(processing) - Size(deadLetter)
        BY <2>2
      <3> HIDE DEF n
      <3>3. n + At(late, "ack") + At(late, "nack") >= 0
        BY <2>3, <3>1, <3>2, Amounts
      <3> QED  BY <1>3, <3>3 DEF n
    <2>6. Size(messages') + Cardinality(processing') + Size(deadLetter') + Owing' = 0
      BY <1>3, <2>1
    <2> QED  BY <2>4, <2>5, <2>6 DEF Ledger
  <1>6. Exact => Exact'
    BY <1>1, <1>2, <1>3, <1>4, Amounts DEF Exact
  <1> QED  BY <1>1, <1>5, <1>6 DEF StatsInv, OwedRemoved

LEMMA StatsDelete ==
  ASSUME TypeInv, StatsInv, NEW m \in Messages, DeleteMessage(m)
  PROVE  StatsInv'
  <1>1. UNCHANGED <<stats, accepted, completed, reclaimed, expired, crashed, late>>
    BY DeleteMoves DEF DeleteMessage, stopVars, timeVars, prodVars
  <1>2. ASSUME NEW c \in Parts, OwesIn(c)
        PROVE  /\ At(owed', c) = At(owed, c) + 1
               /\ \A d \in Parts \ {c} : At(owed', d) = At(owed, d)
    BY <1>2 DEF OwesIn, TypeInv, TypeOK, At
  <1>3. (Ledger => Ledger') /\ (Exact => Exact') /\ removed' # {}
    <2>1. CASE /\ Len(messages') = Len(messages) - 1 /\ OwesIn("pending")
               /\ UNCHANGED <<processing, deadLetter>> /\ removed' # {}
      <3>1. /\ Size(messages') = Size(messages) - 1
            /\ At(owed', "pending") = At(owed, "pending") + 1
            /\ At(owed', "processing") = At(owed, "processing")
            /\ At(owed', "dead") = At(owed, "dead")
            /\ UNCHANGED <<processing, deadLetter>> /\ removed' # {}
        BY <1>2, <2>1 DEF Size, Parts
      <3>2. Ledger => Ledger'
        BY <1>1, <3>1, Amounts DEF Ledger, Owing, Counted
      <3>3. Size(messages') + At(owed', "pending") = Size(messages) + At(owed, "pending")
        BY <3>1, Amounts
      <3>4. Exact => At(stats', "pending") + At(stats', "dead")
              = Size(messages') + Size(deadLetter') + At(owed', "pending") + At(owed', "dead")
        BY <1>1, <3>1, Amounts DEF Exact
      <3>5. Exact => Exact'
        BY <1>1, <3>1, <3>3, <3>4 DEF Exact
      <3> QED  BY <3>1, <3>2, <3>5
    <2>2. CASE /\ Cardinality(processing') = Cardinality(processing) - 1
               /\ OwesIn("processing") /\ UNCHANGED <<messages, deadLetter>>
               /\ removed' # {}
      <3>1. /\ At(owed', "pending") = At(owed, "pending")
            /\ At(owed', "processing") = At(owed, "processing") + 1
            /\ At(owed', "dead") = At(owed, "dead")
        BY <1>2, <2>2 DEF Parts
      <3>2. Ledger => Ledger'
        BY <1>1, <2>2, <3>1, Amounts DEF Ledger, Owing, Counted
      <3>3. Exact => Exact'
        BY <1>1, <2>2, <3>1, Amounts DEF Exact
      <3> QED  BY <2>2, <3>2, <3>3
    <2>3. CASE /\ Len(deadLetter') = Len(deadLetter) - 1 /\ OwesIn("dead")
               /\ UNCHANGED <<messages, processing>> /\ removed' # {}
      <3>1. /\ Size(deadLetter') = Size(deadLetter) - 1
            /\ At(owed', "pending") = At(owed, "pending")
            /\ At(owed', "processing") = At(owed, "processing")
            /\ At(owed', "dead") = At(owed, "dead") + 1
            /\ UNCHANGED <<messages, processing>> /\ removed' # {}
        BY <1>2, <2>3 DEF Size, Parts
      <3>2. Ledger => Ledger'
        BY <1>1, <3>1, Amounts DEF Ledger, Owing, Counted
      <3>3. Exact => Exact'
        BY <1>1, <3>1, Amounts DEF Exact
      <3> QED  BY <3>1, <3>2, <3>3
    <2> QED  BY <2>1, <2>2, <2>3, DeleteMoves
  <1> QED  BY <1>1, <1>3 DEF StatsInv, OwedRemoved

LEMMA StatsDecrement ==
  ASSUME TypeInv, StatsInv, NEW c \in Parts, DeleteMessageStats(c)
  PROVE  StatsInv'
  <1>1. /\ owed[c] > 0 /\ owed' = [owed EXCEPT ![c] = @ - 1] /\ Bump({}, {c})
        /\ UNCHANGED <<messages, deadLetter, processing, accepted, completed,
                       removed, reclaimed, expired, crashed, late>>
    BY DEF DeleteMessageStats, topicVars, stopVars, timeVars, prodVars, ghostVars
  <1>2. removed # {}
    BY <1>1 DEF StatsInv, OwedRemoved
  <1>3. /\ At(owed', c) = At(owed, c) - 1
        /\ \A d \in Parts \ {c} : At(owed', d) = At(owed, d)
    BY <1>1 DEF TypeInv, TypeOK, At
  <1>4. \A d \in Counters :
          /\ d = c => At(stats', d) = At(stats, d) - 1
          /\ d # c => At(stats', d) = At(stats, d)
    BY <1>1, BumpEffect
  <1>5. At(stats', "total") = At(stats, "total")
        /\ At(stats', "completed") = At(stats, "completed")
    BY <1>4 DEF Counters, Parts
  <1>6. (Ledger => Ledger') /\ (Exact => Exact')
    <2>1. CASE c = "pending"
      <3>1. /\ At(owed', "pending") = At(owed, "pending") - 1
            /\ At(owed', "processing") = At(owed, "processing")
            /\ At(owed', "dead") = At(owed, "dead")
            /\ At(stats', "pending") = At(stats, "pending") - 1
            /\ At(stats', "processing") = At(stats, "processing")
            /\ At(stats', "dead") = At(stats, "dead")
        BY <1>3, <1>4, <2>1 DEF Parts, Counters
      <3>2. Ledger => Ledger'
        BY <1>1, <1>5, <3>1, Amounts DEF Ledger, Owing, Counted
      <3>3. Exact => Exact'
        BY <1>1, <1>2, <1>5, <3>1, Amounts DEF Exact
      <3> QED  BY <3>2, <3>3
    <2>2. CASE c = "processing"
      <3>1. /\ At(owed', "pending") = At(owed, "pending")
            /\ At(owed', "processing") = At(owed, "processing") - 1
            /\ At(owed', "dead") = At(owed, "dead")
            /\ At(stats', "pending") = At(stats, "pending")
            /\ At(stats', "processing") = At(stats, "processing") - 1
            /\ At(stats', "dead") = At(stats, "dead")
        BY <1>3, <1>4, <2>2 DEF Parts, Counters
      <3>2. Ledger => Ledger'
        BY <1>1, <1>5, <3>1, Amounts DEF Ledger, Owing, Counted
      <3>3. Exact => Exact'
        BY <1>1, <1>2, <1>5, <3>1, Amounts DEF Exact
      <3> QED  BY <3>2, <3>3
    <2>3. CASE c = "dead"
      <3>1. /\ At(owed', "pending") = At(owed, "pending")
            /\ At(owed', "processing") = At(owed, "processing")
            /\ At(owed', "dead") = At(owed, "dead") - 1
            /\ At(stats', "pending") = At(stats, "pending")
            /\ At(stats', "processing") = At(stats, "processing")
            /\ At(stats', "dead") = At(stats, "dead") - 1
        BY <1>3, <1>4, <2>3 DEF Parts, Counters
      <3>2. Ledger => Ledger'
        BY <1>1, <1>5, <3>1, Amounts DEF Ledger, Owing, Counted
      <3>3. Exact => Exact'
        BY <1>1, <1>2, <1>5, <3>1, Amounts DEF Exact
      <3> QED  BY <3>2, <3>3
    <2> QED  BY <2>1, <2>2, <2>3 DEF Parts
  <1>7. OwedRemoved'
    BY <1>1, <1>2 DEF OwedRemoved
  <1> QED  BY <1>1, <1>6, <1>7 DEF StatsInv

LEMMA StatsStep ==
  ASSUME TypeInv, LockInv, Custody, StatsInv, [Next]_vars
  PROVE  StatsInv'
  <1>1. CASE Mover
    BY <1>1, StatsEnqueue, StatsExpired, StatsDeliver, StatsSettle,
       StatsReclaim, StatsPurge, StatsDelete DEF Mover
  <1>2. ASSUME NEW c \in Parts, DeleteMessageStats(c)
        PROVE  StatsInv'
    BY <1>2, StatsDecrement
  <1>3. CASE ~Mover /\ UNCHANGED <<stats, owed>>
    <2>1. /\ UNCHANGED <<messages, deadLetter, processing, late, accepted,
                         completed, removed, reclaimed, crashed>>
          /\ expired \subseteq expired'
      BY <1>3, OthersMoveNothing
    <2>2. Ledger' = Ledger
      BY <1>3, <2>1 DEF Ledger, Owing, Counted
    <2>3. Exact => Exact'
      BY <1>3, <2>1 DEF Exact
    <2> QED  BY <1>3, <2>1, <2>2, <2>3 DEF StatsInv, OwedRemoved
  <1> QED  BY <1>1, <1>2, <1>3, OthersMoveNothing

\* The counters of QueueStats follow the topic though every call updates them
\* in a step of its own and any number of DeleteMessage calls are between the
\* topic and the counters (memory.go:441-483).  They are exact until a message
\* expires or is swept, which the code does not count (173-180 and 678-697);
\* what remains true then is proved as well.
THEOREM StatsAgree == Spec => []StatsMatch
  <1>1. Init => LockInv /\ StatsInv
    <2> SUFFICES ASSUME Init
                 PROVE  LockInv /\ StatsInv
      OBVIOUS
    <2>1. LockInv
      BY HolderAssumption
         DEF Init, LockInv, ScanLocked, SweepIn, OneSettles, SettlingWorkers
    <2>2. /\ Len(accepted) = 0 /\ Len(messages) = 0 /\ Len(deadLetter) = 0
          /\ Cardinality(processing) = 0 /\ Cardinality(completed) = 0
          /\ \A c \in Counters : stats[c] = 0
          /\ \A c \in Parts : owed[c] = 0
          /\ late["ack"] = 0 /\ late["nack"] = 0
      BY FS_EmptySet DEF Init, Settlements
    <2>3. Ledger /\ Exact
      BY <2>2 DEF Ledger, Exact, Owing, Counted, At, Size, Counters, Parts
    <2>4. OwedRemoved
      BY <2>2 DEF OwedRemoved
    <2> QED  BY <2>1, <2>3, <2>4 DEF StatsInv
  <1>2. TypeInv /\ Custody /\ LockInv /\ StatsInv /\ [Next]_vars
          => LockInv' /\ StatsInv'
    BY LockStep, StatsStep
  <1>3. TypeInv /\ StatsInv => StatsMatch
    <2> SUFFICES ASSUME TypeInv, StatsInv, ~crashed
                 PROVE  StatsMatch
      BY DEF StatsMatch
    <2>1. At(stats, "pending") + At(stats, "processing") + At(stats, "dead")
            + At(late, "ack") + At(late, "nack")
            >= Size(messages) + Cardinality(processing) + Size(deadLetter)
                 + At(owed, "pending") + At(owed, "processing") + At(owed, "dead")
      BY Amounts DEF StatsInv, Ledger, Owing, Counted
    <2>2. At(stats, "total") = Size(accepted) /\ (reclaimed = {} => Exact)
      BY DEF StatsInv, Ledger
    <2> QED  BY <2>1, <2>2 DEF StatsMatch, Exact, getTotalSize, At, Size
  <1> QED  BY <1>1, <1>2, <1>3, CustodyHolds, PTL DEF Spec

-----------------------------------------------------------------------------
(* FifoAmongFresh *)

\* The messages of q that rc calls fresh appear in acc, in the order of q
\* when their priorities are equal.
Sent(q, rc, acc) ==
  \A i \in 1 .. Len(q) :
    rc[q[i]] = 0 => \E a \in 1 .. Len(acc) : acc[a] = q[i]
InSendingOrder(q, rc, acc) ==
  \A i, j \in 1 .. Len(q) :
    i < j /\ Priority[q[i]] = Priority[q[j]] /\ rc[q[i]] = 0 /\ rc[q[j]] = 0
    => \E a, b \in 1 .. Len(acc) : a < b /\ acc[a] = q[i] /\ acc[b] = q[j]
Fifo(q, rc, acc) == Sent(q, rc, acc) /\ InSendingOrder(q, rc, acc)

\* Taking a message out keeps the order of the others.
LEMMA TakeOutFifo ==
  ASSUME NEW q \in Seq(Messages), NEW x \in 1 .. Len(q), NEW rc, NEW acc,
         Fifo(q, rc, acc)
  PROVE  Fifo(TakeOut(q, x), rc, acc)
  <1> DEFINE r == TakeOut(q, x)
  <1>1. /\ r \in Seq(Messages) /\ Len(r) = Len(q) - 1
        /\ \A k \in 1 .. x - 1 : r[k] = q[k]
        /\ \A k \in x .. Len(q) - 1 : r[k] = q[k + 1]
    BY TakeOutShape
  <1> HIDE DEF r
  <1> DEFINE f(k) == IF k < x THEN k ELSE k + 1
  <1>2. \A k \in 1 .. Len(r) : f(k) \in 1 .. Len(q) /\ r[k] = q[f(k)]
    BY <1>1
  <1>3. \A i, j \in 1 .. Len(r) : i < j => f(i) < f(j)
    BY <1>1
  <1> HIDE DEF f
  <1>4. Sent(r, rc, acc)
    BY <1>2 DEF Fifo, Sent
  <1>5. InSendingOrder(r, rc, acc)
    <2> SUFFICES ASSUME NEW i \in 1 .. Len(r), NEW j \in 1 .. Len(r), i < j,
                        Priority[r[i]] = Priority[r[j]],
                        rc[r[i]] = 0, rc[r[j]] = 0
                 PROVE  \E a, b \in 1 .. Len(acc) :
                          a < b /\ acc[a] = r[i] /\ acc[b] = r[j]
      BY DEF InSendingOrder
    <2>1. /\ f(i) \in 1 .. Len(q) /\ r[i] = q[f(i)]
          /\ f(j) \in 1 .. Len(q) /\ r[j] = q[f(j)] /\ f(i) < f(j)
      BY <1>2, <1>3
    <2> QED  BY <2>1 DEF Fifo, InSendingOrder
  <1> QED  BY <1>4, <1>5 DEF r, Fifo

\* A message given back counts as retried; the fresh ones keep their order
\* around it.
LEMMA RetriedFifo ==
  ASSUME NEW q \in Seq(Messages), NEW e \in Messages, NEW acc,
         NEW rc, NEW rd, rd[e] # 0, \A m \in Messages \ {e} : rd[m] = rc[m],
         Fifo(q, rc, acc)
  PROVE  Fifo(insertByPriority(q, e), rd, acc)
  <1> DEFINE r == insertByPriority(q, e)
  <1>0. PICK x \in 1 .. Len(q) + 1 :
          /\ r \in Seq(Messages) /\ Len(r) = Len(q) + 1 /\ r[x] = e
          /\ \A k \in 1 .. x - 1 : r[k] = q[k]
          /\ \A k \in x + 1 .. Len(q) + 1 : r[k] = q[k - 1]
    BY InsertShape
  <1> HIDE DEF r
  <1> DEFINE f(k) == IF k < x THEN k ELSE k - 1
  <1>1. \A k \in 1 .. Len(r) : k # x => f(k) \in 1 .. Len(q) /\ r[k] = q[f(k)]
    <2> SUFFICES ASSUME NEW k \in 1 .. Len(r), k # x
                 PROVE  f(k) \in 1 .. Len(q) /\ r[k] = q[f(k)]
      OBVIOUS
    <2>1. CASE k < x
      <3>1. k \in 1 .. x - 1 /\ k \in 1 .. Len(q)
        BY <1>0, <2>1
      <3> QED  BY <1>0, <2>1, <3>1
    <2>2. CASE k > x
      <3>1. k \in x + 1 .. Len(q) + 1 /\ k - 1 \in 1 .. Len(q)
        BY <1>0, <2>2
      <3> QED  BY <1>0, <2>2, <3>1
    <2> QED  BY <1>0, <2>1, <2>2
  <1>2. \A i, j \in 1 .. Len(r) : i < j /\ i # x /\ j # x => f(i) < f(j)
    BY <1>0
  <1>3. \A k \in 1 .. Len(r) :
          rd[r[k]] = 0 => k # x /\ r[k] \in Messages /\ rc[r[k]] = 0
    BY <1>0
  <1> HIDE DEF f
  <1>4. Sent(r, rd, acc)
    <2> SUFFICES ASSUME NEW k \in 1 .. Len(r), rd[r[k]] = 0
                 PROVE  \E a \in 1 .. Len(acc) : acc[a] = r[k]
      BY DEF Sent
    <2>1. k # x /\ rc[r[k]] = 0
      BY <1>3
    <2>2. f(k) \in 1 .. Len(q) /\ r[k] = q[f(k)]
      BY <1>1, <2>1
    <2> QED  BY <2>1, <2>2 DEF Fifo, Sent
  <1>5. InSendingOrder(r, rd, acc)
    <2> SUFFICES ASSUME NEW i \in 1 .. Len(r), NEW j \in 1 .. Len(r), i < j,
                        Priority[r[i]] = Priority[r[j]],
                        rd[r[i]] = 0, rd[r[j]] = 0
                 PROVE  \E a, b \in 1 .. Len(acc) :
                          a < b /\ acc[a] = r[i] /\ acc[b] = r[j]
      BY DEF InSendingOrder
    <2>1. i # x /\ j # x /\ rc[r[i]] = 0 /\ rc[r[j]] = 0
      BY <1>3
    <2>2. /\ f(i) \in 1 .. Len(q) /\ r[i] = q[f(i)]
          /\ f(j) \in 1 .. Len(q) /\ r[j] = q[f(j)] /\ f(i) < f(j)
      BY <1>1, <1>2, <2>1
    <2> QED  BY <2>1, <2>2 DEF Fifo, InSendingOrder
  <1> QED  BY <1>4, <1>5 DEF r, Fifo

\* A new message goes behind all waiting messages of its priority, and is the
\* last to have been accepted.
LEMMA AcceptedFifo ==
  ASSUME NEW q \in Seq(Messages), NEW e \in Messages,
         NEW acc \in Seq(Messages), NEW rc, Ordered(q), Fifo(q, rc, acc)
  PROVE  Fifo(insertByPriority(q, e), rc, Append(acc, e))
  <1> DEFINE r == insertByPriority(q, e)
             more == Append(acc, e)
  <1>0. PICK x \in 1 .. Len(q) + 1 :
          /\ \A j \in 1 .. x - 1 : Priority[e] <= Priority[q[j]]
          /\ x <= Len(q) => Priority[e] > Priority[q[x]]
          /\ r \in Seq(Messages) /\ Len(r) = Len(q) + 1 /\ r[x] = e
          /\ \A k \in 1 .. x - 1 : r[k] = q[k]
          /\ \A k \in x + 1 .. Len(q) + 1 : r[k] = q[k - 1]
    BY InsertShape
  <1>1. /\ Len(more) = Len(acc) + 1 /\ more[Len(acc) + 1] = e
        /\ \A k \in 1 .. Len(acc) : more[k] = acc[k]
        /\ Len(acc) \in Nat
    OBVIOUS
  <1> HIDE DEF r, more
  <1> DEFINE f(k) == IF k < x THEN k ELSE k - 1
  <1>2. \A k \in 1 .. Len(r) : k # x => f(k) \in 1 .. Len(q) /\ r[k] = q[f(k)]
    <2> SUFFICES ASSUME NEW k \in 1 .. Len(r), k # x
                 PROVE  f(k) \in 1 .. Len(q) /\ r[k] = q[f(k)]
      OBVIOUS
    <2>1. CASE k < x
      <3>1. k \in 1 .. x - 1 /\ k \in 1 .. Len(q)
        BY <1>0, <2>1
      <3> QED  BY <1>0, <2>1, <3>1
    <2>2. CASE k > x
      <3>1. k \in x + 1 .. Len(q) + 1 /\ k - 1 \in 1 .. Len(q)
        BY <1>0, <2>2
      <3> QED  BY <1>0, <2>2, <3>1
    <2> QED  BY <1>0, <2>1, <2>2
  <1>3. \A i, j \in 1 .. Len(r) : i < j /\ i # x /\ j # x => f(i) < f(j)
    BY <1>0
  <1>4. \A j \in 1 .. Len(r) : x < j => Priority[r[j]] < Priority[e]
    <2> SUFFICES ASSUME NEW j \in 1 .. Len(r), x < j
                 PROVE  Priority[r[j]] < Priority[e]
      OBVIOUS
    <2>1. /\ x \in 1 .. Len(q) /\ j - 1 \in 1 .. Len(q) /\ x <= j - 1
          /\ r[j] = q[j - 1]
      BY <1>0
    <2>2. Priority[q[x]] >= Priority[q[j - 1]]
      <3>1. Priority[q[x]] \in Nat
        BY <2>1, ParamsAssumption
      <3> QED  BY <2>1, <3>1 DEF Ordered
    <2>3. Priority[e] > Priority[q[x]]
      BY <1>0, <2>1
    <2>4. Priority[e] \in Nat /\ Priority[q[x]] \in Nat /\ Priority[q[j - 1]] \in Nat
      BY <2>1, ParamsAssumption
    <2> QED  BY <2>1, <2>2, <2>3, <2>4
  <1>5. Sent(r, rc, more)
    <2> SUFFICES ASSUME NEW k \in 1 .. Len(r), rc[r[k]] = 0
                 PROVE  \E a \in 1 .. Len(more) : more[a] = r[k]
      BY DEF Sent
    <2>1. CASE k = x
      BY <1>0, <1>1, <2>1
    <2>2. CASE k # x
      <3>1. f(k) \in 1 .. Len(q) /\ r[k] = q[f(k)]
        BY <1>2, <2>2
      <3>2. PICK a \in 1 .. Len(acc) : acc[a] = r[k]
        <4> HIDE DEF f
        <4> QED  BY <3>1 DEF Fifo, Sent
      <3>3. a \in 1 .. Len(more) /\ more[a] = r[k]
        BY <1>1, <3>2
      <3> QED  BY <3>3
    <2> QED  BY <2>1, <2>2
  <1> HIDE DEF f
  <1>6. InSendingOrder(r, rc, more)
    <2> SUFFICES ASSUME NEW i \in 1 .. Len(r), NEW j \in 1 .. Len(r), i < j,
                        Priority[r[i]] = Priority[r[j]],
                        rc[r[i]] = 0, rc[r[j]] = 0
                 PROVE  \E a, b \in 1 .. Len(more) :
                          a < b /\ more[a] = r[i] /\ more[b] = r[j]
      BY DEF InSendingOrder
    <2>1. CASE j = x
      <3>1. f(i) \in 1 .. Len(q) /\ r[i] = q[f(i)]
        BY <1>2, <2>1
      <3>2. PICK a \in 1 .. Len(acc) : acc[a] = r[i]
        BY <3>1 DEF Fifo, Sent
      <3>3. /\ a \in 1 .. Len(more) /\ Len(acc) + 1 \in 1 .. Len(more)
            /\ a < Len(acc) + 1 /\ more[a] = r[i] /\ more[Len(acc) + 1] = r[j]
        BY <1>0, <1>1, <2>1, <3>2
      <3> QED  BY <3>3
    <2>2. CASE i = x
      <3>1. Priority[r[j]] < Priority[e] /\ Priority[r[i]] = Priority[e]
        BY <1>0, <1>4, <2>2
      <3>2. Priority[e] \in Nat
        BY ParamsAssumption
      <3> QED  BY <3>1, <3>2
    <2>3. CASE i # x /\ j # x
      <3>1. /\ f(i) \in 1 .. Len(q) /\ r[i] = q[f(i)]
            /\ f(j) \in 1 .. Len(q) /\ r[j] = q[f(j)] /\ f(i) < f(j)
        BY <1>2, <1>3, <2>3
      <3>2. PICK a \in 1 .. Len(acc), b \in 1 .. Len(acc) :
              a < b /\ acc[a] = r[i] /\ acc[b] = r[j]
        BY <3>1 DEF Fifo, InSendingOrder
      <3>3. /\ a \in 1 .. Len(more) /\ b \in 1 .. Len(more)
            /\ more[a] = r[i] /\ more[b] = r[j]
        BY <1>1, <3>2
      <3> QED  BY <3>2, <3>3
    <2> QED  BY <2>1, <2>2, <2>3
  <1> QED  BY <1>5, <1>6 DEF r, more, Fifo

\* Every step keeps messages of one priority that were never retried in the
\* order of their acceptance.
LEMMA FifoStep ==
  ASSUME TypeInv, TypeInv', Ordered(messages),
         Fifo(messages, retryCount, accepted), [Next]_vars
  PROVE  Fifo(messages', retryCount', accepted')
  <1> USE DEF topicVars, prodVars
  <1>1. messages \in Seq(Messages) /\ accepted \in Seq(Messages)
        /\ retryCount \in [Messages -> Nat]
    BY DEF TypeInv, TypeOK
  <1>2. ASSUME NEW e \in Messages, Requeue(e) \/ DeadLetter(e),
               accepted' = accepted
        PROVE  Fifo(messages', retryCount', accepted')
    <2>1. CASE DeadLetter(e)
      BY <1>2, <2>1 DEF DeadLetter
    <2>2. CASE Requeue(e)
      <3>1. /\ retryCount'[e] # 0
            /\ \A m \in Messages \ {e} : retryCount'[m] = retryCount[m]
        BY <1>1, <2>2 DEF Requeue
      <3>2. messages' = insertByPriority(messages, e)
        BY <2>2 DEF Requeue
      <3> QED  BY <1>1, <1>2, <3>1, <3>2, RetriedFifo
    <2> QED  BY <1>2, <2>1, <2>2
  <1>3. ASSUME NEW p \in Producers, EnqueueStep(p)
        PROVE  Fifo(messages', retryCount', accepted')
    <2>1. CASE EnqueueInsert(p)
      <3>1. PICK e \in Messages : e = pMsg[p]
        BY <2>1 DEF EnqueueInsert, TypeInv, SendsMessage
      <3>2. /\ messages' = insertByPriority(messages, e)
            /\ accepted' = Append(accepted, e) /\ retryCount' = retryCount
        BY <2>1, <3>1 DEF EnqueueInsert
      <3> QED  BY <1>1, <3>2, AcceptedFifo
    <2>2. CASE ~ EnqueueInsert(p)
      BY <1>3, <2>2 DEF EnqueueStep, EnqueueCheck, getOrCreateTopic
    <2> QED  BY <2>1, <2>2
  <1>4. ASSUME NEW w \in Workers, WorkerStep(w)
        PROVE  Fifo(messages', retryCount', accepted')
    <2>0. accepted' = accepted
      BY <1>4 DEF WorkerStep, StartScan, ScanExpired, ScanDelayed, ScanDeliver,
                  ScanNothing, Handled, FindProcessing, Ack, Nack
    <2>1. CASE ScanExpired(w) \/ ScanDeliver(w)
      <3>0. retryCount' = retryCount
        BY <2>1 DEF ScanExpired, ScanDeliver
      <3>1. CASE Stale
        BY <2>0, <2>1, <3>0, <3>1 DEF ScanExpired, ScanDeliver
      <3>2. CASE ~Stale
        <4>1. messages' = TakeOut(messages, scan.idx)
          BY <2>1, <3>2 DEF ScanExpired, ScanDeliver
        <4>2. scan.idx \in 1 .. Len(messages)
          BY <3>2, ScanTakeOut
        <4> QED  BY <1>1, <2>0, <3>0, <4>1, <4>2, TakeOutFifo
      <3> QED  BY <3>1, <3>2
    <2>2. CASE Nack(w)
      <3>1. PICK e \in Messages : e = Head(batch[w])
        BY <2>2, NextInBatchType DEF Nack
      <3>2. Requeue(e) \/ DeadLetter(e)
        BY <2>2, <3>1 DEF Nack
      <3> QED  BY <1>2, <2>0, <3>2
    <2>3. CASE StartScan(w) \/ ScanDelayed(w) \/ ScanNothing(w)
                 \/ Handled(w) \/ Ack(w)
      BY <2>3 DEF StartScan, ScanDelayed, ScanNothing, Handled,
                  FindProcessing, Ack
    <2> QED  BY <1>4, <2>1, <2>2, <2>3 DEF WorkerStep
  <1>5. CASE CleanupStep
    <2>1. ASSUME NEW m \in Messages, Reclaim(m)
          PROVE  Fifo(messages', retryCount', accepted')
      <3>1. (Requeue(m) \/ DeadLetter(m)) /\ accepted' = accepted
        BY <2>1 DEF Reclaim
      <3> QED  BY <1>2, <3>1
    <2>2. CASE StartSweep \/ EndSweep \/ FindIdle
      BY <2>2 DEF StartSweep, EndSweep, FindIdle
    <2> QED  BY <1>5, <2>1, <2>2 DEF CleanupStep
  <1>6. CASE AdminStep
    <2>1. CASE Purge
      BY <2>1 DEF Purge, Fifo, Sent, InSendingOrder
    <2>2. ASSUME NEW m \in Messages, DeleteMessage(m)
          PROVE  Fifo(messages', retryCount', accepted')
      <3>1. /\ messages' \in {messages, RemoveFirst(messages, m)}
            /\ UNCHANGED <<retryCount, accepted>>
        BY <2>2 DEF DeleteMessage
      <3> QED  BY <1>1, <3>1, RemoveFirstShape, TakeOutFifo
    <2>3. CASE Delete \/ \E c \in Parts : DeleteMessageStats(c)
      BY <2>3 DEF Delete, DeleteMessageStats
    <2> QED  BY <1>6, <2>1, <2>2, <2>3 DEF AdminStep
  <1>7. CASE TimeStep \/ UNCHANGED vars
    BY <1>7 DEF TimeStep, Expire, BecomeDue, vars
  <1> QED  BY <1>3, <1>4, <1>5, <1>6, <1>7 DEF Next

\* Messages of one priority that were never retried are handed out in the
\* order in which Enqueue accepted them, however retries and sweeps insert
\* others between them (insertByPriority, memory.go:569-583).
THEOREM FifoKept == Spec => []FifoAmongFresh
  <1> DEFINE F == Fifo(messages, retryCount, accepted)
             O == Ordered(messages)
  <1>1. Init => TypeInv /\ O /\ F
    BY TypeInit DEF Init, Ordered, Fifo, Sent, InSendingOrder
  <1>2. TypeInv /\ O /\ F /\ [Next]_vars => (TypeInv /\ O /\ F)'
    <2>1. TypeInv /\ [Next]_vars => TypeInv'
      BY TypeEnqueue, TypeWorker, TypeOther, TypeStutter DEF Next
    <2>2. TypeInv /\ O /\ [Next]_vars => O'
      <3>1. TypeInv /\ O /\ Next => Ordered(messages')
        BY OrderStep
      <3>2. O /\ UNCHANGED vars => Ordered(messages')
        BY DEF vars, topicVars
      <3> QED  BY <3>1, <3>2 DEF Ordered
    <2>3. TypeInv /\ TypeInv' /\ O /\ F /\ [Next]_vars
            => Fifo(messages', retryCount', accepted')
      BY FifoStep
    <2>4. Fifo(messages', retryCount', accepted') => F'
      BY DEF Fifo, Sent, InSendingOrder
    <2> QED  BY <2>1, <2>2, <2>3, <2>4
  <1>3. F => FifoAmongFresh
    BY DEF Fifo, InSendingOrder, FifoAmongFresh
  <1> QED  BY <1>1, <1>2, <1>3, PTL DEF Spec

-----------------------------------------------------------------------------
(* With no expiry and no management calls: at-least-once delivery *)

Waiting == ToSet(messages) \cup processing

\* A scan finds the topic as long as it was when it started.
ScanWhole == lock \in Workers => scan.n = Len(messages)
\* What waits was accepted, and what is processed was delivered.
WaitsAccepted == Waiting \subseteq Accepted
ProcessedDelivered == \A m \in processing : deliveries[m] > 0
\* The message a worker settles still waits, or will not be retried: a late
\* Nack brings nothing back that was settled.
NackHarmless ==
  \A w \in SettlingWorkers :
    Head(batch[w]) \in Waiting \/ ~ShouldRetry(Head(batch[w]))
PlainInv ==
  expired = {} /\ ScanWhole /\ WaitsAccepted /\ ProcessedDelivered /\ NackHarmless

Kept == PlainInv' /\ [Promise!Next]_(Promise!vars)

\* A step that leaves what waits, was accepted and was delivered alone is a
\* stuttering step of the promise.
LEMMA StutterPromise ==
  ASSUME Waiting' = Waiting, Accepted' = Accepted, deliveries' = deliveries
  PROVE  [Promise!Next]_(Promise!vars)
  <1>1. Stage' = Stage
    BY DEF Stage, Waiting
  <1> QED  BY <1>1 DEF Promise!vars

\* An enqueue is a step of the promise or a stutter; a scan hands out at most one
\* message; settling and giving back are promised; the rest stutters.
LEMMA PlainEnqueue ==
  ASSUME TypeInv, SentOnce, PlainInv, NEW p \in Producers, EnqueueStep(p)
  PROVE  Kept
  <1>1. UNCHANGED <<lock, scan, wPc, batch, processing, retryCount, expired,
                    deliveries>>
    BY DEF EnqueueStep, EnqueueCheck, getOrCreateTopic, EnqueueInsert,
           lockVars, workVars, topicVars, timeVars
  <1>2. SettlingWorkers' = SettlingWorkers
    BY <1>1 DEF SettlingWorkers
  <1>3. CASE EnqueueInsert(p)
    <2>1. PICK e \in Messages : e = pMsg[p]
      BY <1>3 DEF EnqueueInsert, TypeInv, SendsMessage
    <2>2. /\ messages' = insertByPriority(messages, e) /\ lock = Free
          /\ accepted' = Append(accepted, e) /\ e \notin Accepted
      BY <1>3, <2>1 DEF EnqueueInsert, TopicFree, SentOnce, InFlight
    <2>3. Waiting' = Waiting \cup {e} /\ Accepted' = Accepted \cup {e}
      BY <1>1, <2>2, InsertToSet, AppendKeeps
         DEF Waiting, Accepted, TypeInv, TypeOK
    <2>4. PlainInv'
      <3>1. ScanWhole'
        BY <1>1, <2>2, HolderAssumption DEF ScanWhole
      <3>2. WaitsAccepted' /\ ProcessedDelivered'
        BY <1>1, <2>3 DEF PlainInv, WaitsAccepted, ProcessedDelivered
      <3>3. NackHarmless'
        BY <1>1, <1>2, <2>3 DEF PlainInv, NackHarmless, ShouldRetry
      <3> QED  BY <1>1, <3>1, <3>2, <3>3 DEF PlainInv
    <2>5. Promise!Accept(e)
      <3>1. Stage[e] = "absent"
        BY <2>2 DEF Stage
      <3>2. Stage' = [Stage EXCEPT ![e] = "live"]
        <4>1. \A m \in Messages : m # e => Stage'[m] = Stage[m]
          BY <2>3 DEF Stage, Waiting
        <4>2. Stage'[e] = "live"
          BY <2>3 DEF Stage, Waiting
        <4>3. Stage = [m \in Messages |-> Stage[m]]
              /\ Stage' = [m \in Messages |-> Stage'[m]]
          BY DEF Stage
        <4> HIDE DEF Stage
        <4> QED  BY <4>1, <4>2, <4>3
      <3> QED  BY <1>1, <3>1, <3>2 DEF Promise!Accept
    <2> QED  BY <2>4, <2>5 DEF Kept, Promise!Next
  <1>4. CASE ~EnqueueInsert(p)
    <2>1. messages' = messages /\ accepted' = accepted
      BY <1>4 DEF EnqueueStep, EnqueueCheck, getOrCreateTopic, topicVars
    <2>2. Waiting' = Waiting /\ Accepted' = Accepted
      BY <1>1, <2>1 DEF Waiting, Accepted
    <2>3. PlainInv'
      BY <1>1, <1>2, <2>1, <2>2
         DEF PlainInv, ScanWhole, WaitsAccepted, ProcessedDelivered,
             NackHarmless, ShouldRetry
    <2> QED  BY <1>1, <2>2, <2>3, StutterPromise DEF Kept
  <1> QED  BY <1>3, <1>4

LEMMA PlainScan ==
  ASSUME TypeInv, LockInv, DeliveryBound, PlainInv, NEW w \in Workers,
         StartScan(w) \/ ScanExpired(w) \/ ScanDelayed(w) \/ ScanDeliver(w)
           \/ ScanNothing(w)
  PROVE  Kept
  <1>1. /\ SettlingWorkers' = SettlingWorkers
        /\ \A v \in SettlingWorkers : batch'[v] = batch[v]
    BY LockScan
  <1>2. accepted' = accepted /\ retryCount' = retryCount /\ expired' = expired
    BY DEF StartScan, ScanExpired, ScanDelayed, ScanDeliver, ScanNothing,
           prodVars, topicVars, timeVars
  <1>3. ~ScanExpired(w)
    BY DEF ScanExpired, PlainInv
  <1>4. CASE StartScan(w) \/ ScanDelayed(w) \/ ScanNothing(w)
    <2>1. UNCHANGED <<messages, processing, deliveries>>
      BY <1>4 DEF StartScan, ScanDelayed, ScanNothing, topicVars, workVars
    <2>2. Waiting' = Waiting /\ Accepted' = Accepted
      BY <1>2, <2>1 DEF Waiting, Accepted
    <2>3. ScanWhole'
      <3>1. CASE StartScan(w)
        BY <2>1, <3>1 DEF StartScan, ScanWhole
      <3>2. CASE ScanDelayed(w)
        <4>1. lock' = lock /\ scan'.n = scan.n
          BY <3>2, ScanAdvance DEF ScanDelayed, TypeInv, TypeOK
        <4> QED  BY <2>1, <4>1 DEF PlainInv, ScanWhole
      <3>3. CASE ScanNothing(w)
        BY <3>3, HolderAssumption DEF ScanNothing, ScanWhole
      <3> QED  BY <1>4, <3>1, <3>2, <3>3
    <2>4. PlainInv'
      BY <1>1, <1>2, <2>1, <2>2, <2>3
         DEF PlainInv, WaitsAccepted, ProcessedDelivered, NackHarmless, ShouldRetry
    <2> QED  BY <2>1, <2>2, <2>4, StutterPromise DEF Kept
  <1>5. CASE ScanDeliver(w)
    <2>1. lock = w /\ scan.idx <= scan.n
      BY <1>5 DEF ScanDeliver, Scanning, LockInv, ScanLocked
    <2>2. ~Stale
      <3>1. scan.n = Len(messages)
        BY <2>1 DEF PlainInv, ScanWhole
      <3>2. scan.idx \in Nat /\ scan.n \in Nat
        BY DEF TypeInv, TypeOK, ScanRecords
      <3> QED  BY <2>1, <3>1, <3>2 DEF Stale
    <2>3. PICK e \in Messages : e = Scanned
      BY <2>1, ScannedType
    <2>4. /\ messages' = TakeOut(messages, scan.idx)
          /\ processing' = processing \cup {e} /\ lock' = Free
          /\ deliveries' = [deliveries EXCEPT ![e] = @ + 1]
      BY <1>5, <2>2, <2>3 DEF ScanDeliver
    <2>5. scan.idx \in 1 .. Len(messages) /\ messages[scan.idx] = e
          /\ messages \in Seq(Messages)
      BY <2>2, <2>3, ScanTakeOut DEF TypeInv, TypeOK
    <2>6. /\ ToSet(messages') \subseteq ToSet(messages) /\ e \in ToSet(messages)
          /\ ToSet(messages) \subseteq ToSet(messages') \cup {e}
      BY <2>4, <2>5, TakeOutToSet
    <2>7. Waiting' = Waiting /\ Accepted' = Accepted /\ e \in Waiting
      BY <1>2, <2>4, <2>6 DEF Waiting, Accepted
    <2>8. deliveries \in [Messages -> Nat]
      BY DEF TypeInv, TypeOK
    <2>9. PlainInv'
      <3>1. ScanWhole'
        BY <2>4, HolderAssumption DEF ScanWhole
      <3>2. WaitsAccepted'
        BY <2>7 DEF PlainInv, WaitsAccepted
      <3>3. ProcessedDelivered'
        <4> SUFFICES ASSUME NEW m \in processing'
                     PROVE  deliveries'[m] > 0
          BY DEF ProcessedDelivered
        <4>1. m \in Messages /\ (m # e => deliveries[m] > 0)
          BY <2>4 DEF PlainInv, ProcessedDelivered, TypeInv, TypeOK
        <4> QED  BY <2>4, <2>8, <4>1
      <3>4. NackHarmless'
        BY <1>1, <1>2, <2>7 DEF PlainInv, NackHarmless, ShouldRetry
      <3> QED  BY <1>2, <3>1, <3>2, <3>3, <3>4 DEF PlainInv
    <2>10. Promise!Deliver(e)
      <3>1. Stage[e] = "live"
        BY <2>7 DEF Stage, Waiting, PlainInv, WaitsAccepted
      <3>2. deliveries[e] <= MaxRetries
        <4>1. Copies(messages, e) \in Nat /\ Copies(messages, e) >= 1
          BY <2>5, <2>6, CopiesType, CopiesMember
        <4>2. /\ deliveries[e] + Copies(messages, e)
                   <= (IF e \in Accepted THEN 1 ELSE 0) + retryCount[e]
              /\ retryCount[e] <= MaxRetries
          BY DEF DeliveryBound
        <4>3. retryCount[e] \in Nat /\ deliveries[e] \in Nat /\ MaxRetries \in Nat
          BY <2>8, ParamsAssumption DEF TypeInv, TypeOK
        <4> QED  BY <4>1, <4>2, <4>3
      <3>3. Stage' = Stage
        BY <2>7 DEF Stage, Waiting
      <3> QED  BY <2>4, <3>1, <3>2, <3>3 DEF Promise!Deliver
    <2> QED  BY <2>9, <2>10 DEF Kept, Promise!Next
  <1> QED  BY <1>3, <1>4, <1>5

\* A message that stops waiting is settled, provided it was delivered.
LEMMA SettlePromise ==
  ASSUME TypeInv, PlainInv, NEW e \in processing,
         Waiting' = Waiting \ {e}, Accepted' = Accepted,
         deliveries' = deliveries
  PROVE  [Promise!Next]_(Promise!vars)
  <1>1. e \in Messages /\ e \in Waiting /\ e \in Accepted
    BY DEF TypeInv, TypeOK, Waiting, PlainInv, WaitsAccepted
  <1>2. Stage[e] = "live"
    BY <1>1 DEF Stage, Waiting
  <1>3. deliveries[e] > 0
    BY DEF PlainInv, ProcessedDelivered
  <1>4. Stage' = [Stage EXCEPT ![e] = "settled"]
    <2>1. \A m \in Messages : m # e => Stage'[m] = Stage[m]
      BY DEF Stage, Waiting
    <2>2. Stage'[e] = "settled"
      BY <1>1 DEF Stage, Waiting
    <2>3. Stage = [m \in Messages |-> Stage[m]]
          /\ Stage' = [m \in Messages |-> Stage'[m]]
      BY DEF Stage
    <2> HIDE DEF Stage
    <2> QED  BY <2>1, <2>2, <2>3
  <1>5. Promise!Settle(e)
    BY <1>2, <1>3, <1>4 DEF Promise!Settle
  <1> QED  BY <1>1, <1>5 DEF Promise!Next

\* Taking e out of processing: it waits on, or it is settled.
LEMMA ReleasePromise ==
  ASSUME TypeInv, PlainInv, NEW e \in Messages,
         processing' = processing \ {e},
         accepted' = accepted, deliveries' = deliveries,
         \/ ToSet(messages') = ToSet(messages)
         \/ ToSet(messages') = ToSet(messages) \cup {e} /\ e \in Waiting
  PROVE  [Promise!Next]_(Promise!vars) /\ WaitsAccepted' /\ ProcessedDelivered'
         /\ Waiting' \subseteq Waiting /\ Waiting \subseteq Waiting' \cup {e}
  <1>1. Accepted' = Accepted
    BY DEF Accepted
  <1>2. Waiting' = Waiting \/ (Waiting' = Waiting \ {e} /\ e \in processing)
    BY DEF Waiting
  <1>3. WaitsAccepted' /\ ProcessedDelivered'
    BY <1>1, <1>2 DEF PlainInv, WaitsAccepted, ProcessedDelivered
  <1>4. [Promise!Next]_(Promise!vars)
    BY <1>1, <1>2, StutterPromise, SettlePromise
  <1> QED  BY <1>2, <1>3, <1>4

LEMMA PlainSettle ==
  ASSUME TypeInv, LockInv, PlainInv, NEW w \in Workers,
         Handled(w) \/ Ack(w) \/ Nack(w)
  PROVE  Kept
  <1>1. /\ lock = Free /\ lock' = lock /\ expired' = expired
        /\ accepted' = accepted /\ deliveries' = deliveries
        /\ wPc[w] \in {"handle", "ack", "nack"}
    BY DEF Handled, FindProcessing, Ack, Nack, TopicFree, lockVars, timeVars,
           prodVars
  <1>2. \A v \in Workers \ {w} : wPc'[v] = wPc[v] /\ batch'[v] = batch[v]
    BY DEF Handled, FindProcessing, Ack, Nack, NextInBatch, TypeInv, TypeOK
  <1>3. ScanWhole'
    BY <1>1, HolderAssumption DEF ScanWhole
  <1>4. CASE Handled(w)
    <2>1. PICK outcome \in {"ack", "nack"} : FindProcessing(w, outcome)
      BY <1>4 DEF Handled
    <2>2. UNCHANGED <<messages, processing, retryCount>>
      BY <2>1 DEF FindProcessing, topicVars
    <2>3. Waiting' = Waiting /\ Accepted' = Accepted
      BY <1>1, <2>2 DEF Waiting, Accepted
    <2>4. SettlingWorkers = {}
      BY <2>1 DEF FindProcessing, ConsumerLocked, SettlingWorkers
    <2>5. SettlingWorkers' \subseteq {w}
      BY <1>2, <2>4 DEF SettlingWorkers
    <2>6. NackHarmless'
      <3>1. CASE Head(batch[w]) \in processing
        <4>1. batch' = batch
          BY <2>1, <3>1 DEF FindProcessing
        <4> QED  BY <2>3, <2>5, <3>1, <4>1 DEF NackHarmless, Waiting
      <3>2. CASE Head(batch[w]) \notin processing
        <4>1. wPc'[w] \in {"poll", "handle"}
          BY <2>1, <3>2 DEF FindProcessing, NextInBatch, TypeInv, TypeOK
        <4> QED  BY <2>5, <4>1 DEF NackHarmless, SettlingWorkers
      <3> QED  BY <3>1, <3>2
    <2>7. PlainInv'
      BY <1>1, <1>3, <2>2, <2>3, <2>6
         DEF PlainInv, WaitsAccepted, ProcessedDelivered
    <2> QED  BY <1>1, <2>3, <2>7, StutterPromise DEF Kept
  <1>5. CASE Ack(w) \/ Nack(w)
    <2>1. /\ NextInBatch(w) /\ wPc[w] \in {"ack", "nack"}
          /\ processing' = processing \ {Head(batch[w])}
          /\ \/ UNCHANGED <<messages, deadLetter>>
             \/ Requeue(Head(batch[w])) /\ ShouldRetry(Head(batch[w]))
             \/ DeadLetter(Head(batch[w]))
      BY <1>5 DEF Ack, Nack
    <2>2. PICK e \in Messages : e = Head(batch[w])
      BY <2>1, BatchAdvance
    <2>3. SettlingWorkers = {w}
      BY <2>1 DEF LockInv, OneSettles, SettlingWorkers
    <2>4. wPc'[w] \in {"poll", "handle"}
      BY <2>1 DEF NextInBatch, TypeInv, TypeOK
    <2>5. SettlingWorkers' = {}
      BY <1>2, <2>3, <2>4 DEF SettlingWorkers
    <2>6. \/ ToSet(messages') = ToSet(messages)
          \/ ToSet(messages') = ToSet(messages) \cup {e} /\ e \in Waiting
      <3>1. CASE UNCHANGED <<messages, deadLetter>> \/ DeadLetter(e)
        BY <3>1 DEF DeadLetter
      <3>2. CASE Requeue(e) /\ ShouldRetry(e)
        <4>1. e \in Waiting
          BY <2>2, <2>3, <3>2 DEF PlainInv, NackHarmless
        <4>2. ToSet(messages') = ToSet(messages) \cup {e}
          BY <3>2, InsertToSet DEF Requeue, TypeInv, TypeOK
        <4> QED  BY <4>1, <4>2
      <3> QED  BY <2>1, <2>2, <3>1, <3>2
    <2>7. [Promise!Next]_(Promise!vars) /\ WaitsAccepted' /\ ProcessedDelivered'
      BY <1>1, <2>1, <2>2, <2>6, ReleasePromise
    <2>8. NackHarmless'
      BY <2>5 DEF NackHarmless
    <2> QED  BY <1>1, <1>3, <2>7, <2>8 DEF Kept, PlainInv
  <1> QED  BY <1>4, <1>5

LEMMA PlainOther ==
  ASSUME TypeInv, LockInv, PlainInv, Expirable = {}, AdminOps = {},
         CleanupStep \/ AdminStep \/ TimeStep \/ UNCHANGED vars
  PROVE  Kept
  <1> USE DEF topicVars, lockVars, statVars, stopVars, timeVars, prodVars,
              workVars, ghostVars
  <1>1. /\ UNCHANGED <<wPc, batch, accepted, deliveries>>
        /\ expired' = expired
    BY DEF CleanupStep, StartSweep, EndSweep, FindIdle, Reclaim, AdminStep,
           Purge, Delete, DeleteMessageStats, DeleteMessage, TimeStep, Expire,
           BecomeDue, vars
  <1>2. SettlingWorkers' = SettlingWorkers
    BY <1>1 DEF SettlingWorkers
  <1>3. ASSUME NEW e \in Messages, Reclaim(e)
        PROVE  Kept
    <2>1. /\ lock = Cleaner /\ lock' = lock /\ e \in processing
          /\ processing' = processing \ {e}
          /\ \/ ShouldRetry(e) /\ Requeue(e)
             \/ ~ShouldRetry(e) /\ DeadLetter(e)
      BY <1>3 DEF Reclaim, LockInv, SweepIn
    <2>2. ScanWhole'
      BY <2>1, HolderAssumption DEF ScanWhole
    <2>3. e \in Waiting
      BY <2>1 DEF Waiting
    <2>4. CASE Requeue(e)
      <3>1. ToSet(messages') = ToSet(messages) \cup {e}
        BY <2>4, InsertToSet DEF Requeue, TypeInv, TypeOK
      <3>2. [Promise!Next]_(Promise!vars) /\ WaitsAccepted' /\ ProcessedDelivered'
            /\ Waiting \subseteq Waiting' \cup {e}
        BY <1>1, <2>1, <2>3, <3>1, ReleasePromise
      <3>3. e \in Waiting'
        BY <3>1 DEF Waiting
      <3>4. \A m \in Messages : ~ShouldRetry(m) => ~ShouldRetry(m)'
        <4>1. retryCount \in [Messages -> Nat] /\ MaxRetries \in Nat
              /\ retryCount' = [retryCount EXCEPT ![e] = @ + 1]
          BY <2>4, ParamsAssumption DEF TypeInv, TypeOK, Requeue
        <4> QED  BY <4>1 DEF ShouldRetry
      <3>5. NackHarmless'
        <4> SUFFICES ASSUME NEW v \in SettlingWorkers'
                     PROVE  Head(batch'[v]) \in Waiting' \/ ~ShouldRetry(Head(batch[v]))'
          BY DEF NackHarmless
        <4>1. Head(batch[v]) \in Waiting \/ ~ShouldRetry(Head(batch[v]))
          BY <1>2 DEF PlainInv, NackHarmless
        <4>2. Head(batch[v]) \in Messages
          <5>1. batch[v] \in Seq(Messages) /\ batch[v] # <<>>
            BY <1>2 DEF TypeInv, TypeOK, WorkInHand, SettlingWorkers
          <5> QED  BY <5>1, HeadTail
        <4>3. PICK m \in Messages : m = Head(batch[v])
          BY <4>2
        <4>4. batch'[v] = batch[v]
          BY <1>1
        <4>5. CASE m \in Waiting
          BY <3>2, <3>3, <4>3, <4>4, <4>5
        <4>6. CASE ~ShouldRetry(m)
          <5>1. ~ShouldRetry(m)'
            BY <3>4, <4>6
          <5> QED  BY <4>3, <4>4, <5>1 DEF ShouldRetry
        <4> QED  BY <4>1, <4>3, <4>5, <4>6
      <3> QED  BY <1>1, <2>2, <3>2, <3>5 DEF Kept, PlainInv
    <2>5. CASE DeadLetter(e) /\ ~ShouldRetry(e)
      <3>1. messages' = messages /\ retryCount' = retryCount
        BY <2>5 DEF DeadLetter
      <3>2. [Promise!Next]_(Promise!vars) /\ WaitsAccepted' /\ ProcessedDelivered'
            /\ Waiting \subseteq Waiting' \cup {e}
        BY <1>1, <2>1, <3>1, ReleasePromise
      <3>3. NackHarmless'
        BY <1>1, <1>2, <2>5, <3>1, <3>2 DEF PlainInv, NackHarmless, ShouldRetry
      <3> QED  BY <1>1, <2>2, <3>2, <3>3 DEF Kept, PlainInv
    <2> QED  BY <2>1, <2>4, <2>5
  <1>4. CASE ~ \E m \in Messages : Reclaim(m)
    <2>1. UNCHANGED <<messages, processing, retryCount>>
      BY <1>4 DEF CleanupStep, StartSweep, EndSweep, FindIdle, AdminStep,
           Purge, Delete, DeleteMessageStats, DeleteMessage, TimeStep, Expire,
           BecomeDue, vars
    <2>2. lock' \in Workers => lock' = lock /\ scan' = scan
      BY <1>4, HolderAssumption
         DEF CleanupStep, StartSweep, EndSweep, FindIdle, AdminStep,
           Purge, Delete, DeleteMessageStats, DeleteMessage, TimeStep, Expire,
           BecomeDue, vars
    <2>3. Waiting' = Waiting /\ Accepted' = Accepted
      BY <1>1, <2>1 DEF Waiting, Accepted
    <2>4. PlainInv'
      BY <1>1, <1>2, <2>1, <2>2, <2>3
         DEF PlainInv, ScanWhole, WaitsAccepted, ProcessedDelivered,
             NackHarmless, ShouldRetry
    <2> QED  BY <1>1, <2>3, <2>4, StutterPromise DEF Kept
  <1> QED  BY <1>3, <1>4

\* As long as messages do not expire and nobody purges or deletes, the queue
\* of memory.go is an at-least-once queue: every accepted message stays
\* available until it is settled, is handed out at most 1 + MaxRetries times,
\* and never comes back, although sweeps race with acks and nacks.
THEOREM PromiseKept ==
  ASSUME Expirable = {}, AdminOps = {}
  PROVE  Spec => ImplementsAtLeastOnce
  <1> DEFINE Inv == TypeInv /\ SentOnce /\ LockInv
                      /\ DeliveryBound /\ PlainInv
  <1>1. Init => Inv
    <2> SUFFICES ASSUME Init
                 PROVE  Inv
      OBVIOUS
    <2>1. TypeInv
      BY TypeInit
    <2>2. SettlingWorkers = {} /\ Waiting = {} /\ Accepted = {}
          /\ processing = {}
      BY DEF Init, SettlingWorkers, Waiting, Accepted, ToSet
    <2>3. LockInv
      BY <2>2, HolderAssumption DEF Init, LockInv, ScanLocked, SweepIn, OneSettles
    <2>4. SentOnce
      BY DEF Init, SentOnce, Accepted, InFlight, ToSet
    <2>5. DeliveryBound
      BY <2>2, CopiesEmpty, ParamsAssumption DEF Init, DeliveryBound
    <2>6. PlainInv
      BY <2>2, HolderAssumption
         DEF Init, PlainInv, ScanWhole, WaitsAccepted, ProcessedDelivered, NackHarmless
    <2> QED  BY <2>1, <2>3, <2>4, <2>5, <2>6
  <1>2. Init => Promise!Init
    <2> SUFFICES ASSUME Init
                 PROVE  Promise!Init
      OBVIOUS
    <2>1. Accepted = {}
      BY DEF Init, Accepted, ToSet
    <2> QED  BY <2>1 DEF Init, Promise!Init, Stage
  <1>3. Inv /\ [Next]_vars => Inv' /\ [Promise!Next]_(Promise!vars)
    <2> SUFFICES ASSUME Inv, [Next]_vars
                 PROVE  Inv' /\ [Promise!Next]_(Promise!vars)
      OBVIOUS
    <2>1. TypeInv'
      BY TypeEnqueue, TypeWorker, TypeOther, TypeStutter DEF Next
    <2>2. SentOnce' /\ LockInv'
      BY SentOnceStep, LockStep
    <2>3. DeliveryBound'
      <3>1. CASE UNCHANGED vars
        BY <3>1 DEF vars, topicVars, workVars, prodVars, DeliveryBound,
                    Copies, Accepted
      <3> QED  BY <2>1, <3>1, DeliveryEnqueue, DeliveryOther DEF Next
    <2>4. Kept
      <3>1. ASSUME NEW w \in Workers, WorkerStep(w)
            PROVE  Kept
        BY <3>1, PlainScan, PlainSettle DEF WorkerStep
      <3> QED  BY <3>1, PlainEnqueue, PlainOther DEF Next
    <2> QED  BY <2>1, <2>2, <2>3, <2>4 DEF Kept
  <1> QED  BY <1>1, <1>2, <1>3, PTL DEF Spec, ImplementsAtLeastOnce, Promise!Spec

\* A message that was acknowledged, and that no sweep had taken back from its
\* worker, is never handed out again.
THEOREM CompletedStaysDone == Spec => CompletedIsFinal
  <1> DEFINE Final == \A m \in completed \ reclaimed : deliveries'[m] = deliveries[m]
  <1>1. TypeInv /\ Custody /\ [Next]_vars => [Final]_vars
    <2> SUFFICES ASSUME TypeInv, Custody, Next
                 PROVE  Final
      OBVIOUS
    <2>1. ASSUME NEW w \in Workers, ScanDeliver(w), ~Stale
          PROVE  Final
      <3>1. /\ messages' = TakeOut(messages, scan.idx)
            /\ deliveries' = [deliveries EXCEPT ![Scanned] = @ + 1]
        BY <2>1 DEF ScanDeliver
      <3>2. PICK e \in Messages : e = Scanned
        BY <2>1, ScannedType DEF ScanDeliver, Scanning
      <3>3. InTopic(e) >= 1 /\ InTopic(e) \in Nat
        BY <2>1, <3>1, <3>2, ScanCounts, PlaceCounts
      <3>4. e \notin completed \ reclaimed
        BY <3>3 DEF Custody, CustodyOf, Held, InDone
      <3>5. deliveries \in [Messages -> Nat] /\ completed \subseteq Messages
        BY DEF TypeInv, TypeOK
      <3> QED  BY <3>1, <3>2, <3>4, <3>5
    <2>2. CASE deliveries' = deliveries
      BY <2>2
    <2>3. deliveries' = deliveries
            \/ \E w \in Workers : ScanDeliver(w) /\ ~Stale
      <3> USE DEF workVars
      <3>1. ASSUME NEW w \in Workers, WorkerStep(w)
            PROVE  deliveries' = deliveries \/ (ScanDeliver(w) /\ ~Stale)
        BY <3>1 DEF WorkerStep, StartScan, ScanExpired, ScanDelayed,
             ScanDeliver, ScanNothing, Handled, FindProcessing, Ack, Nack
      <3>2. ASSUME NEW p \in Producers, EnqueueStep(p)
            PROVE  deliveries' = deliveries
        BY <3>2 DEF EnqueueStep, EnqueueCheck, getOrCreateTopic, EnqueueInsert
      <3>3. CASE CleanupStep \/ AdminStep \/ TimeStep
        BY <3>3 DEF CleanupStep, StartSweep, EndSweep, FindIdle, Reclaim,
             AdminStep, Purge, Delete, DeleteMessageStats, DeleteMessage,
             TimeStep, Expire, BecomeDue
      <3> QED  BY <3>1, <3>2, <3>3 DEF Next
    <2> QED  BY <2>1, <2>2, <2>3
  <1> QED  BY <1>1, CustodyHolds, PTL DEF Spec, CompletedIsFinal
=============================================================================
