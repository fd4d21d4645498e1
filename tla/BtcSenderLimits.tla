--------------------------- MODULE BtcSenderLimits ---------------------------
(***************************************************************************)
(* What the limits of the configuration guarantee, for every value of      *)
(* them: with max_aggregated_proofs_to_commit at most one the aggregator   *)
(* never panics, and there are never more than max_txs_in_flight           *)
(* inscriptions in flight.                                                 *)
(***************************************************************************)
EXTENDS BtcSenderProofs

-----------------------------------------------------------------------------
(* The aggregator never panics *)

\* The batches that are ready for their commit are consecutive: commitments and
\* inclusion data come in batch order, and so do the commit requests.
LEMMA CommitsAreSequential ==
    ASSUME SenderInv
    PROVE  Sequential(ReadyList("commit"))
<1> DEFINE R == ReadyForCommitL1Batches
           L == Limit(R, Limits["commit"])
<1>1. R \subseteq 0 .. MaxBatch /\ MaxBatch \in Nat /\ Limits["commit"] \in Nat
  BY MaxBatchAssumption, SenderAssumption
  DEF SenderInv, SenderTypeOK, DbTypeOK, ReadyForCommitL1Batches, Limits
<1>2. ASSUME NEW a \in R, NEW b \in R, NEW c \in Nat, a <= c, c <= b
      PROVE  c \in R
  <2>1. /\ a \in 1 .. commitments /\ b \in 1 .. commitments
        /\ CommitId(a) = Null /\ Included("batch", b) /\ Included("batch", a)
        /\ CommitId(b) = Null
    BY <1>2 DEF ReadyForCommitL1Batches
  <2>2. /\ commitments \in Nat
        /\ a \in Nat /\ b \in Nat
        /\ c \in 1 .. commitments
        /\ 1 .. commitments \subseteq Batch
    BY <1>2, <2>1, MaxBatchAssumption, SMTT(30) DEF SenderInv, SenderTypeOK, DbTypeOK, Batch
  <2>3. CASE c = a \/ c = b
    BY <1>2, <2>3
  <2>4. CASE a < c /\ c < b
    <3>1. a \in 1 .. c - 1 /\ c \in 1 .. b - 1
      BY <2>1, <2>2, <2>4
    <3>2. Included("batch", c)
      BY <2>1, <2>2, <3>1, Zenon DEF SenderInv, InclusionInv
    <3>3. CommitId(c) = Null
      BY <2>1, <2>2, <3>1, Zenon DEF SenderInv, CommitInv
    <3>. QED
      BY <2>2, <3>2, <3>3 DEF ReadyForCommitL1Batches
  <2>. QED
    BY <1>2, <2>2, <2>3, <2>4
<1>3. L \subseteq R /\ \A b \in L, c \in R : c <= b => c \in L
  BY <1>1, LimitIsPrefix
<1>4. Sequential(L)
  <2>. HIDE DEF R, L
  <2>1. L \in SUBSET (0 .. MaxBatch)
    BY <1>1, <1>3, Zenon
  <2>2. \A a, b \in L : \A c \in Nat : a <= c /\ c <= b => c \in L
    BY <1>2, <1>3, Zenon
  <2>. QED
    BY <1>1, <2>1, <2>2, ConvexIsSequential
<1>. QED
  BY <1>4 DEF ReadyList

\* A list of at most one proof is sequential, whichever proofs are there.
LEMMA OneProofIsSequential ==
    ASSUME SenderInv, MaxAggregatedProofsToCommit <= 1
    PROVE  Sequential(ReadyList("proof"))
<1> DEFINE R == ReadyForCommitProofL1Batches
           L == Limit(R, Limits["proof"])
<1>1. /\ R \subseteq 0 .. MaxBatch /\ MaxBatch \in Nat
      /\ Limits["proof"] \in Nat /\ Limits["proof"] <= 1
  BY MaxBatchAssumption, SenderAssumption DEF ReadyForCommitProofL1Batches, Limits, Batch
<1>2. L \subseteq 0 .. MaxBatch /\ IsFiniteSet(L) /\ Cardinality(L) <= Limits["proof"]
  <2>. HIDE DEF R
  <2>1. L \subseteq R
    BY <1>1, LimitIsPrefix
  <2>2. IsFiniteSet(L) /\ Cardinality(L) <= Limits["proof"]
    BY <1>1, LimitBounds
  <2>. QED
    BY <1>1, <2>1, <2>2
<1>. HIDE DEF R, L
<1>3. Cardinality(L) \in Nat /\ Cardinality(L) <= 1
  BY <1>1, <1>2, FS_CardinalityType
<1>4. ASSUME NEW a \in L, NEW b \in L PROVE a = b
  <2>1. IsFiniteSet({a, b}) /\ (a # b => Cardinality({a, b}) = 2)
    <3>1. IsFiniteSet({a}) /\ Cardinality({a}) = 1 /\ {a, b} = {a} \union {b}
      BY FS_Singleton
    <3>2. /\ IsFiniteSet({a} \union {b})
          /\ Cardinality({a} \union {b}) =
               IF b \in {a} THEN Cardinality({a}) ELSE Cardinality({a}) + 1
      BY <3>1, FS_AddElement
    <3>. QED
      BY <3>1, <3>2
  <2>2. Cardinality({a, b}) <= Cardinality(L)
    BY <1>2, FS_Subset
  <2>. QED
    BY <1>3, <2>1, <2>2
<1>5. Sequential(L)
  <2>1. \A a, b \in L : \A c \in Nat : a <= c /\ c <= b => c \in L
    <3>. SUFFICES ASSUME NEW a \in L, NEW b \in L, NEW c \in Nat, a <= c, c <= b
                  PROVE  c \in L
      OBVIOUS
    <3>1. a = b /\ a \in Int
      BY <1>1, <1>2, <1>4
    <3>2. c = a
      BY <3>1
    <3>. QED
      BY <3>2
  <2>. QED
    BY <1>1, <1>2, <2>1, ConvexIsSequential
<1>. QED
  BY <1>5 DEF ReadyList, R, L

\* validate_l1_batch_sequence never panics as long as at most one proof is taken at
\* a time, whatever the limit for commits and whichever proofs come first.
THEOREM AggregatorNeverPanics ==
    ASSUME MaxAggregatedProofsToCommit <= 1
    PROVE  BtcSpec => []NeverPanics
<1>1. BtcInit => NeverPanics
  BY DEF BtcInit, SenderInit, IdleAggregator, NeverPanics
<1>2. SenderInv /\ NeverPanics /\ [BtcNext]_btcVars => NeverPanics'
  <2>. SUFFICES ASSUME SenderInv, NeverPanics, [BtcNext]_btcVars PROVE NeverPanics'
    OBVIOUS
  <2>. USE DEF NeverPanics
  <2>1. ASSUME NEW type \in RequestType, NEW otherwise \in {"idle", "commits"},
               ReadOperation(type, otherwise)
        PROVE  NeverPanics'
    <3>1. Sequential(ReadyList(type))
      BY CommitsAreSequential, OneProofIsSequential DEF RequestType
    <3>. QED
      BY <2>1, <3>1 DEF ReadOperation, Operation, IdleAggregator
  <2>2. CASE AggregatorStep
    BY <2>1, <2>2 DEF AggregatorStep, GetCommitProofOperation, GetCommitL1BatchOperation,
                      SaveOperation, AggregatorError, IdleAggregator, RequestType
  <2>3. CASE SenderRestart
    BY <2>3 DEF SenderRestart, IdleAggregator
  <2>4. CASE ManagerStep
    BY <2>4 DEF ManagerStep, GetInflight, CheckTxConfirmation, CheckUnknownTx,
                ConfirmInscription, CheckAge, UpdateDone, ListNewInscriptionRequest, SendNext,
                FetchBlockHeight, Inscribe, InsertInscriptionRequestHistory, ManagerError,
                InsertHistoryError, ManagerRest
  <2>5. CASE (\E type \in RequestType : Age(type)) \/ BitcoinStep
    BY <2>5 DEF Age, BitcoinStep, MineBlock, Reorg, Evict
  <2>6. CASE DaStep \/ UNCHANGED btcVars
    BY <2>6 DEF DaStep, btcVars, senderVars
  <2>. QED
    BY <2>2, <2>3, <2>4, <2>5, <2>6 DEF BtcNext, SenderStep
<1>. QED
  BY <1>1, <1>2, SenderInvariant, PTL DEF BtcSpec

-----------------------------------------------------------------------------
(* The inscriptions in flight *)

\* The new requests that the running iteration is going to send.
Pending ==
    {r \in 1 .. Len(requests) :
        InSendLoop /\ (r \in manager.todo \/ (Sends /\ r = manager.request))}

\* The free slots are counted once, before the sends; meanwhile nothing else may
\* take them.  A request that is re-sent has its slot already.
InflightInv ==
    /\ Sends /\ manager.resume = "update" => manager.request \in InflightInscriptions
    /\ Cardinality(InflightInscriptions \union Pending) <= MaxTxsInFlight

\* The sets are finite, and the bound carries over to what they contain.
LEMMA SlotsAreFinite ==
    ASSUME SenderTypeOK
    PROVE  /\ IsFiniteSet(InflightInscriptions) /\ IsFiniteSet(Pending)
           /\ IsFiniteSet(InflightInscriptions \union Pending)
           /\ Cardinality(InflightInscriptions) \in Nat
           /\ Cardinality(InflightInscriptions \union Pending) \in Nat
           /\ InflightInscriptions \subseteq 0 .. Len(requests)
<1>1. Len(requests) \in Nat
  BY Rows
<1>2. IsFiniteSet(1 .. Len(requests))
  BY <1>1, FS_Interval
<1>3. /\ InflightInscriptions \in SUBSET (1 .. Len(requests))
      /\ Pending \in SUBSET (1 .. Len(requests))
      /\ InflightInscriptions \union Pending \in SUBSET (1 .. Len(requests))
  BY DEF InflightInscriptions, Pending
<1>4. 1 .. Len(requests) \subseteq 0 .. Len(requests)
  BY <1>1
<1>. QED
  BY <1>2, <1>3, <1>4, FS_Subset, FS_CardinalityType

\* Steps that take no further slot.
LEMMA NoNewSlot ==
    ASSUME SenderTypeOK, InflightInv,
           (InflightInscriptions \union Pending)' \subseteq InflightInscriptions \union Pending,
           (Sends /\ manager.resume = "update" => manager.request \in InflightInscriptions)'
    PROVE  InflightInv'
<1> DEFINE S == InflightInscriptions \union Pending
           T == (InflightInscriptions \union Pending)'
<1>1. IsFiniteSet(S) /\ Cardinality(S) \in Nat /\ Cardinality(S) <= MaxTxsInFlight
  BY SlotsAreFinite DEF InflightInv
<1>2. T \in SUBSET S
  OBVIOUS
<1>3. IsFiniteSet(T) /\ Cardinality(T) <= Cardinality(S)
  <2>. HIDE DEF S, T
  <2>. QED
    BY <1>1, <1>2, FS_Subset
<1>4. Cardinality(T) \in Nat
  BY <1>3, FS_CardinalityType
<1>5. Cardinality(T) <= MaxTxsInFlight
  <2>. HIDE DEF S, T
  <2>. QED
    BY <1>1, <1>3, <1>4, SenderAssumption
<1>. QED
  BY <1>5 DEF InflightInv

\* Requests keep their slots while the tables and the manager stay the same.
LEMMA SameSlots ==
    ASSUME SenderTypeOK, InflightInv, UNCHANGED <<requests, history>>,
           manager'.pc = manager.pc, manager'.todo = manager.todo,
           manager'.request = manager.request, manager'.resume = manager.resume
    PROVE  InflightInv'
<1>1. InflightInscriptions' = InflightInscriptions /\ Pending' = Pending
  BY DEF InflightInscriptions, HistoryOf, Pending, InSendLoop, Sends
<1>. QED
  BY <1>1 DEF InflightInv, Sends

\* An iteration that ends gives its slots back.
LEMMA IterationEnds ==
    ASSUME SenderTypeOK, InflightInv, UNCHANGED <<requests, history>>, manager' = IdleManager
    PROVE  InflightInv'
<1>1. InflightInscriptions' = InflightInscriptions /\ Pending' = {} /\ ~Sends'
  BY DEF InflightInscriptions, HistoryOf, Pending, InSendLoop, Sends, IdleManager
<1>. QED
  BY <1>1, NoNewSlot

\* The manager's steps outside its two loops' writes.
LEMMA LoopSteps ==
    ASSUME SenderInv, InflightInv,
           \/ GetInflight \/ CheckTxConfirmation \/ CheckAge \/ UpdateDone
           \/ SendNext \/ FetchBlockHeight \/ Inscribe
    PROVE  InflightInv'
<1>0. SenderTypeOK /\ manager \in ManagerState
  BY DEF SenderInv, SenderTypeOK
<1>1. UNCHANGED <<requests, history>>
  BY DEF GetInflight, CheckTxConfirmation, CheckAge, UpdateDone, SendNext, FetchBlockHeight,
         Inscribe
<1>2. InflightInscriptions' = InflightInscriptions
  BY <1>1 DEF InflightInscriptions, HistoryOf
<1>3. CASE GetInflight \/ CheckTxConfirmation \/ UpdateDone
  <2>1. manager'.pc \in {"update", "confirm", "age", "new"}
    BY <1>0, <1>3 DEF GetInflight, CheckTxConfirmation, UpdateDone, IdleManager, ManagerState
  <2>2. Pending' = {} /\ ~Sends'
    BY <2>1 DEF Pending, InSendLoop, Sends
  <2>. QED
    BY <1>0, <1>2, <2>2, NoNewSlot
<1>4. CASE CheckAge
  <2>1. manager.request \in InflightInscriptions
    BY <1>4 DEF CheckAge, SenderInv, RequestInv, IsLastHistory, InflightInscriptions, HistoryOf
  <2>2. manager'.pc = "update" \/ (manager'.resume = "update" /\ manager'.request = manager.request
                                  /\ manager'.pc = "fetch")
    BY <1>0, <1>4 DEF CheckAge, IdleManager, ManagerState
  <2>3. Pending' = {}
    BY <2>2 DEF Pending, InSendLoop, Sends
  <2>4. (Sends /\ manager.resume = "update" => manager.request \in InflightInscriptions)'
    BY <1>2, <2>1, <2>2 DEF Sends
  <2>. QED
    BY <1>0, <1>2, <2>3, <2>4, NoNewSlot
<1>5. CASE SendNext
  <2>1. CASE manager.todo = {}
    BY <1>0, <1>1, <1>5, <2>1, IterationEnds DEF SendNext
  <2>2. CASE manager.todo # {}
    <3>0. manager.pc = "sendnew" /\ manager.todo \subseteq Nat
      BY <1>0, <1>5 DEF SendNext, ManagerState
    <3>1. Min(manager.todo) \in manager.todo
      BY <2>2, <3>0, MinOfNats
    <3>2. /\ manager'.pc = "fetch" /\ manager'.resume = "sendnew"
          /\ manager'.request \in manager.todo /\ manager'.todo \subseteq manager.todo
      BY <1>0, <1>5, <2>2, <3>1 DEF SendNext, ManagerState
    <3>3. Pending' \subseteq Pending
      BY <1>1, <3>0, <3>2 DEF Pending, InSendLoop, Sends
    <3>. QED
      BY <1>0, <1>2, <3>2, <3>3, NoNewSlot
  <2>. QED
    BY <2>1, <2>2
<1>6. CASE FetchBlockHeight \/ Inscribe
  <2>1. /\ Sends /\ Sends' /\ manager.pc # "sendnew" /\ manager'.pc # "sendnew"
        /\ manager'.resume = manager.resume /\ manager'.request = manager.request
        /\ manager'.todo = manager.todo
    BY <1>0, <1>6 DEF FetchBlockHeight, Inscribe, Sends, ManagerState
  <2>2. Pending' = Pending
    BY <1>1, <2>1 DEF Pending, InSendLoop
  <2>. QED
    BY <1>2, <2>1, <2>2 DEF InflightInv
<1>. QED
  BY <1>3, <1>4, <1>5, <1>6

\* The slots of the new requests are free when they are listed.
LEMMA ListNewSlots ==
    ASSUME SenderInv, InflightInv, ListNewInscriptionRequest
    PROVE  InflightInv'
<1> DEFINE I == InflightInscriptions
           n == MaxTxsInFlight - Cardinality(I)
           new == NewInscriptionRequests
           todo == Limit(new, n)
<1>0. SenderTypeOK
  BY DEF SenderInv
<1>1. /\ manager' = [IdleManager EXCEPT !.pc = "sendnew", !.todo = todo]
      /\ UNCHANGED <<requests, history>>
  BY DEF ListNewInscriptionRequest
<1>2. I' = I /\ ~Sends' /\ Pending' \subseteq todo
  BY <1>1 DEF InflightInscriptions, HistoryOf, Pending, InSendLoop, Sends, IdleManager
<1>3. IsFiniteSet(I) /\ Cardinality(I) \in Nat /\ Cardinality(I) <= MaxTxsInFlight
  <2>1. I \in SUBSET (I \union Pending)
    OBVIOUS
  <2>2. /\ IsFiniteSet(I \union Pending) /\ Cardinality(I \union Pending) \in Nat
        /\ IsFiniteSet(I) /\ Cardinality(I) \in Nat
    BY <1>0, SlotsAreFinite
  <2>3. Cardinality(I \union Pending) <= MaxTxsInFlight
    BY DEF InflightInv
  <2>4. Cardinality(I) <= Cardinality(I \union Pending)
    BY <2>1, <2>2, FS_Subset
  <2>. HIDE DEF I
  <2>. QED
    BY <2>2, <2>3, <2>4, SenderAssumption
<1>4. n \in Nat
  <2>. HIDE DEF I
  <2>. QED
    BY <1>3, SenderAssumption
<1>5. Len(requests) \in Nat /\ new \subseteq 0 .. Len(requests)
  BY <1>0, Rows DEF NewInscriptionRequests
<1>6. IsFiniteSet(todo) /\ Cardinality(todo) \in Nat /\ Cardinality(todo) <= n
  <2>. HIDE DEF n, new
  <2>1. IsFiniteSet(todo) /\ Cardinality(todo) <= n
    BY <1>4, <1>5, LimitBounds
  <2>. QED
    BY <2>1, FS_CardinalityType
<1>7. /\ IsFiniteSet(I \union todo)
      /\ Cardinality(I \union todo) \in Nat
      /\ Cardinality(I \union todo) <= MaxTxsInFlight
  <2>. HIDE DEF I, todo
  <2>1. /\ IsFiniteSet(I \union todo) /\ Cardinality(I \union todo) \in Nat
        /\ Cardinality(I \union todo) =
             Cardinality(I) + Cardinality(todo) - Cardinality(I \intersect todo)
    BY <1>3, <1>6, FS_Union, FS_CardinalityType
  <2>2. Cardinality(I \intersect todo) \in Nat
    <3>1. I \intersect todo \in SUBSET I
      OBVIOUS
    <3>. QED
      BY <1>3, <3>1, FS_Subset, FS_CardinalityType
  <2>. QED
    BY <1>3, <1>6, <2>1, <2>2, SenderAssumption
<1>8. (I \union Pending)' \in SUBSET (I \union todo)
  BY <1>2
<1>9. Cardinality((I \union Pending)') <= MaxTxsInFlight
  <2> DEFINE T == (I \union Pending)'
             U == I \union todo
  <2>1. T \in SUBSET U /\ IsFiniteSet(U) /\ Cardinality(U) \in Nat
        /\ Cardinality(U) <= MaxTxsInFlight
    BY <1>7, <1>8
  <2>. HIDE DEF T, U
  <2>2. IsFiniteSet(T) /\ Cardinality(T) <= Cardinality(U)
    BY <2>1, FS_Subset
  <2>3. Cardinality(T) \in Nat
    BY <2>2, FS_CardinalityType
  <2>4. Cardinality(T) <= MaxTxsInFlight
    BY <2>1, <2>2, <2>3, SenderAssumption
  <2>. QED
    BY <2>4 DEF T
<1>. QED
  BY <1>2, <1>9 DEF InflightInv

\* A history row makes a pending request one in flight; a confirmation frees a slot.
LEMMA WriteSlots ==
    ASSUME SenderInv, InflightInv, InsertInscriptionRequestHistory \/ ConfirmInscription
    PROVE  InflightInv'
<1>0. SenderTypeOK /\ manager \in ManagerState /\ Len(history) \in Nat
      /\ history \in Seq(History) /\ requests \in Seq(Request)
  BY Rows DEF SenderInv, SenderTypeOK, DbTypeOK
<1>1. CASE InsertInscriptionRequestHistory
  <2> DEFINE row == [request |-> manager.request, reveal_tx_id |-> manager.reveal,
                     age |-> manager.age]
  <2>1. /\ manager.pc = "record" /\ Sends
        /\ history' = Append(history, row) /\ requests' = requests
        /\ manager' = [IdleManager EXCEPT !.pc = manager.resume, !.todo = manager.todo]
        /\ manager.resume \in {"update", "sendnew"}
        /\ manager.request \in 1 .. Len(requests)
    BY <1>1 DEF InsertInscriptionRequestHistory, SenderInv, RequestInv, Sends
  <2>2. /\ Len(history') = Len(history) + 1
        /\ \A h \in 1 .. Len(history) : history'[h] = history[h]
        /\ history'[Len(history) + 1].request = manager.request
    <3>1. row.request = manager.request /\ row \in History
      BY <1>0, <2>1, SenderAssumption DEF ManagerState, History
    <3>. HIDE DEF row
    <3>. QED
      BY <1>0, <2>1, <3>1, AppendProperties
  <2>3. \A r : HistoryOf(r)' # {} => HistoryOf(r) # {} \/ r = manager.request
    BY <1>0, <2>2 DEF HistoryOf
  <2>4. InflightInscriptions' \subseteq InflightInscriptions \union {manager.request}
    BY <2>1, <2>3 DEF InflightInscriptions
  <2>5. manager.request \in InflightInscriptions \union Pending
    BY <2>1 DEF InflightInv, Pending, InSendLoop
  <2>6. Pending' \subseteq Pending /\ ~Sends'
    BY <2>1 DEF Pending, InSendLoop, Sends, IdleManager
  <2>. QED
    BY <1>0, <2>4, <2>5, <2>6, NoNewSlot
<1>2. CASE ConfirmInscription
  <2>1. /\ requests' = [requests EXCEPT ![manager.request].confirmed = manager.history]
        /\ history' = history /\ manager'.pc = "update"
        /\ manager.request \in 1 .. Len(requests)
    BY <1>2 DEF ConfirmInscription, IdleManager, SenderInv, RequestInv
  <2>2. /\ Len(requests') = Len(requests)
        /\ \A r \in 1 .. Len(requests) : r # manager.request => requests'[r] = requests[r]
    BY <1>0, <2>1
  <2>3. requests[manager.request].confirmed = Null
    BY <1>2 DEF ConfirmInscription, SenderInv, RequestInv
  <2>4. InflightInscriptions' \subseteq InflightInscriptions
    BY <2>1, <2>2, <2>3 DEF InflightInscriptions, HistoryOf
  <2>5. Pending' = {} /\ ~Sends'
    BY <2>1 DEF Pending, InSendLoop, Sends
  <2>. QED
    BY <1>0, <2>4, <2>5, NoNewSlot
<1>. QED
  BY <1>1, <1>2

\* New requests, and new blocks, take no slot.
LEMMA OtherSlots ==
    ASSUME SenderInv, InflightInv, SaveOperation \/ \E S \in SUBSET Mempool : MineBlock(S)
    PROVE  InflightInv'
<1>0. SenderTypeOK /\ manager \in ManagerState /\ Len(history) \in Nat
      /\ Len(requests) \in Nat
  BY Rows DEF SenderInv, SenderTypeOK
<1>1. CASE SaveOperation
  <2>1. history' = history /\ manager' = manager
    BY <1>1 DEF SaveOperation
  <2>2. \A r \in 1 .. Len(requests) : requests'[r] = requests[r] /\ r \in 1 .. Len(requests')
    BY <1>0, <1>1, AppendedRequests
  <2>3. \A r : HistoryOf(r) # {} => r \in 1 .. Len(requests)
    BY DEF SenderInv, HistoryInv, HistoryOf
  <2>4. InflightInscriptions' = InflightInscriptions
    BY <2>1, <2>2, <2>3 DEF InflightInscriptions, HistoryOf
  <2>5. InSendLoop => /\ manager.todo \subseteq 1 .. Len(requests)
                      /\ Sends => manager.request \in 1 .. Len(requests)
    BY DEF SenderInv, TodoInv, RequestInv, IsNew, Sends
  <2>6. Pending' = Pending
    BY <2>1, <2>2, <2>5 DEF Pending, InSendLoop, Sends
  <2>. QED
    BY <2>1, <2>4, <2>6 DEF InflightInv, Sends
<1>2. CASE \E S \in SUBSET Mempool : MineBlock(S)
  <2>1. PICK S \in SUBSET Mempool : MineBlock(S)
    BY <1>2
  <2>2. /\ manager'.pc = manager.pc /\ manager'.todo = manager.todo
        /\ manager'.request = manager.request /\ manager'.resume = manager.resume
        /\ requests' = requests
    BY <1>0, <2>1 DEF MineBlock, ManagerState
  <2>3. /\ DOMAIN history' = 1 .. Len(history)
        /\ \A h \in 1 .. Len(history) : history'[h].request = history[h].request
    <3>1. history' = [h \in 1 .. Len(history) |->
                       [history[h] EXCEPT !.age = AddUpTo(@, BlockResend)]]
      BY <2>1 DEF MineBlock
    <3>. QED
      BY <1>0, <3>1, Rows DEF History
  <2>4. history' \in Seq(History)
    BY <2>1, MineBlockStep DEF SenderInv, SenderTypeOK, DbTypeOK
  <2>5. DOMAIN history' = 1 .. Len(history')
    BY <2>4, LenProperties
  <2>6. \A r : HistoryOf(r)' = HistoryOf(r)
    BY <2>3, <2>5 DEF HistoryOf
  <2>7. InflightInscriptions' = InflightInscriptions /\ Pending' = Pending
    BY <2>2, <2>6 DEF InflightInscriptions, Pending, InSendLoop, Sends
  <2>. QED
    BY <2>2, <2>7 DEF InflightInv, Sends
<1>. QED
  BY <1>1, <1>2

\* send_new_inscription_txs leaves at most max_txs_in_flight requests waiting for
\* their confirmation, although it counts the free slots only once per iteration.
THEOREM InflightIsBounded == BtcSpec => []InflightBounded
<1>1. BtcInit => InflightInv
  <2>. SUFFICES ASSUME BtcInit PROVE InflightInv
    OBVIOUS
  <2>1. InflightInscriptions \union Pending = {} /\ ~Sends
    BY DEF BtcInit, DbInit, SenderInit, InflightInscriptions, Pending, Sends, IdleManager
  <2>2. Cardinality({}) = 0
    BY FS_EmptySet
  <2>. QED
    BY <2>1, <2>2, SenderAssumption DEF InflightInv
<1>2. SenderInv /\ InflightInv /\ [BtcNext]_btcVars => InflightInv'
  <2>. SUFFICES ASSUME SenderInv, InflightInv, [BtcNext]_btcVars PROVE InflightInv'
    OBVIOUS
  <2>0. SenderTypeOK
    BY DEF SenderInv
  <2>1. CASE UNCHANGED <<requests, history, manager>>
    BY <2>0, <2>1, SameSlots
  <2>2. CASE AggregatorStep
    BY <2>1, <2>2, OtherSlots
    DEF AggregatorStep, GetCommitProofOperation, GetCommitL1BatchOperation, AggregatorError,
        dbVars
  <2>3. CASE CheckUnknownTx \/ ManagerError \/ InsertHistoryError \/ SenderRestart
    BY <2>0, <2>3, IterationEnds
    DEF CheckUnknownTx, ManagerError, InsertHistoryError, SenderRestart, dbVars
  <2>4. CASE ManagerStep
    BY <2>3, <2>4, LoopSteps, ListNewSlots, WriteSlots DEF ManagerStep
  <2>5. CASE (\E type \in RequestType : Age(type)) \/ BitcoinStep
    BY <2>1, <2>5, OtherSlots DEF Age, BitcoinStep, Reorg, Evict, dbVars
  <2>6. CASE DaStep \/ UNCHANGED btcVars
    BY <2>1, <2>6 DEF DaStep, btcVars, dbVars, senderVars
  <2>. QED
    BY <2>2, <2>3, <2>4, <2>5, <2>6 DEF BtcNext, SenderStep
<1>3. SenderInv /\ InflightInv => InflightBounded
  <2>. SUFFICES ASSUME SenderTypeOK, InflightInv PROVE InflightBounded
    BY DEF SenderInv
  <2> DEFINE I == InflightInscriptions
             S == I \union Pending
  <2>1. /\ I \in SUBSET S /\ IsFiniteSet(S) /\ Cardinality(S) \in Nat
        /\ Cardinality(I) \in Nat /\ Cardinality(S) <= MaxTxsInFlight
    BY SlotsAreFinite DEF InflightInv
  <2>. HIDE DEF I, S
  <2>2. Cardinality(I) <= Cardinality(S)
    BY <2>1, FS_Subset
  <2>3. Cardinality(I) <= MaxTxsInFlight
    BY <2>1, <2>2, SenderAssumption
  <2>. QED
    BY <2>3 DEF I, InflightBounded
<1>. QED
  BY <1>1, <1>2, <1>3, SenderInvariant, PTL DEF BtcSpec

=============================================================================
