--------------------------- MODULE BtcSenderProofs ---------------------------
(***************************************************************************)
(* Proofs, for every value of the constants, of the type invariant and the *)
(* safety properties of BtcSender.  None of them is inductive by itself:   *)
(* SenderInv adds what the two tasks know at each of their steps.          *)
(***************************************************************************)
EXTENDS BtcSender, QueryLemmas, SequenceTheorems

\* A history row belongs to a request and names a transaction that carries it.
HistoryInv ==
    \A h \in 1 .. Len(history) :
        /\ history[h].request \in 1 .. Len(requests)
        /\ history[h].reveal_tx_id \in 1 .. Len(bitcoin)
        /\ bitcoin[history[h].reveal_tx_id].request = history[h].request

\* h is the last transaction sent for r.
IsLastHistory(r, h) ==
    /\ h \in 1 .. Len(history)
    /\ history[h].request = r
    /\ \A g \in 1 .. Len(history) : history[g].request = r => g <= h

OnChain(h) == bitcoin[history[h].reveal_tx_id].depth = BlockConfirmations

\* A request is confirmed by the last transaction sent for it, which is on the chain.
ConfirmedInv ==
    \A r \in 1 .. Len(requests) : requests[r].confirmed # Null =>
        IsLastHistory(r, requests[r].confirmed) /\ OnChain(requests[r].confirmed)

\* r is in flight / has never been sent.
InFlight(r) ==
    /\ r \in 1 .. Len(requests)
    /\ requests[r].confirmed = Null
    /\ \E h \in 1 .. Len(history) : history[h].request = r
IsNew(r) ==
    /\ r \in 1 .. Len(requests)
    /\ requests[r].confirmed = Null
    /\ \A h \in 1 .. Len(history) : history[h].request # r

\* The manager is in the loop over the requests in flight / over the new ones.
Sends == manager.pc \in {"fetch", "send", "record"}
InUpdateLoop ==
    manager.pc \in {"update", "confirm", "age"} \/ (Sends /\ manager.resume = "update")
InSendLoop ==
    manager.pc = "sendnew" \/ (Sends /\ manager.resume = "sendnew")

\* What the manager knows of the requests it still has to visit.
TodoInv ==
    /\ InUpdateLoop => \A r \in manager.todo : InFlight(r)
    /\ InSendLoop => \A r \in manager.todo : IsNew(r)

\* What the manager knows of the request it is dealing with.
RequestInv ==
    /\ manager.pc \in {"confirm", "age", "fetch", "send", "record"} =>
         /\ manager.request \in 1 .. Len(requests)
         /\ requests[manager.request].confirmed = Null
         /\ manager.request \notin manager.todo
    /\ manager.pc \in {"confirm", "age"} => IsLastHistory(manager.request, manager.history)
    /\ manager.pc = "confirm" => OnChain(manager.history)
    /\ Sends => manager.resume \in {"update", "sendnew"}
    /\ manager.pc = "record" =>
         /\ manager.reveal \in 1 .. Len(bitcoin)
         /\ bitcoin[manager.reveal].request = manager.request

\* The inclusion data of batches is stored in order, after their blob ids.
InclusionInv ==
    \A b \in Batch : Included("batch", b) =>
        /\ Blob("batch", b) # Null
        /\ \A c \in 1 .. b - 1 : Included("batch", c)

\* The commit requests are those of a prefix of the batches, in order.
CommitInv ==
    \A b \in Batch : CommitId(b) # Null =>
        /\ CommitId(b) \in 1 .. Len(requests)
        /\ requests[CommitId(b)].type = "commit"
        /\ requests[CommitId(b)].batch = b
        /\ requests[CommitId(b)].blob_id = Blob("batch", b)
        /\ Blob("batch", b) # Null
        /\ \A c \in 1 .. b - 1 : CommitId(c) # Null /\ CommitId(c) < CommitId(b)

\* A proof request is queued after the commit of its batch is confirmed.
ProofInv ==
    \A b \in Batch : ProofId(b) # Null =>
        /\ CommitId(b) # Null
        /\ requests[CommitId(b)].confirmed # Null
        /\ ProofId(b) \in 1 .. Len(requests)
        /\ requests[ProofId(b)].type = "proof"
        /\ requests[ProofId(b)].reveal_tx_id = ConfirmedReveal(CommitId(b))

\* What the aggregator read is still true when it writes.
AggregatorInv ==
    aggregator.pc = "write" =>
        /\ aggregator.first \in Batch /\ aggregator.last \in Batch
        /\ aggregator.first <= aggregator.last
        /\ aggregator.type = "commit" =>
             /\ \A b \in aggregator.first .. aggregator.last :
                  /\ CommitId(b) = Null
                  /\ Blob("batch", b) # Null
                  /\ aggregator.details[b].blob_id = Blob("batch", b)
             /\ \A c \in 1 .. aggregator.first - 1 : CommitId(c) # Null
        /\ aggregator.type = "proof" =>
             \A b \in aggregator.first .. aggregator.last :
                  /\ CommitId(b) # Null
                  /\ ProofId(b) = Null
                  /\ requests[CommitId(b)].confirmed # Null
                  /\ aggregator.details[b].reveal_tx_id = ConfirmedReveal(CommitId(b))

SenderInv ==
    /\ SenderTypeOK
    /\ HistoryInv
    /\ ConfirmedInv
    /\ TodoInv
    /\ RequestInv
    /\ InclusionInv
    /\ CommitInv
    /\ ProofInv
    /\ AggregatorInv

-----------------------------------------------------------------------------
(* Rows and local states *)

\* The rows of the tables, and the transactions, have their types.
LEMMA Rows ==
    ASSUME SenderTypeOK
    PROVE  /\ Len(history) \in Nat /\ Len(requests) \in Nat /\ Len(bitcoin) \in Nat
           /\ \A h \in 1 .. Len(history) : history[h] \in History
           /\ \A r \in 1 .. Len(requests) : requests[r] \in Request
           /\ \A t \in 1 .. Len(bitcoin) :
                bitcoin[t] \in [request : Nat, depth : Gone .. BlockConfirmations]
BY ElementOfSeq, LenProperties DEF SenderTypeOK, DbTypeOK

\* The invariants of the tables hold while the tables and Bitcoin stay the same.
LEMMA StableTables ==
    ASSUME SenderInv, UNCHANGED <<dbVars, bitcoin>>
    PROVE  HistoryInv' /\ ConfirmedInv' /\ InclusionInv' /\ CommitInv' /\ ProofInv'
<1>. USE DEF SenderInv, dbVars
<1>1. HistoryInv'
  BY DEF HistoryInv
<1>2. ConfirmedInv'
  BY DEF ConfirmedInv, IsLastHistory, OnChain
<1>3. InclusionInv'
  BY DEF InclusionInv, Included, Blob
<1>4. CommitInv'
  BY DEF CommitInv, CommitId, Blob
<1>5. ProofInv'
  BY DEF ProofInv, ProofId, CommitId, ConfirmedReveal
<1>. QED
  BY <1>1, <1>2, <1>3, <1>4, <1>5

\* So do those of the aggregator and of the manager, if these stay the same too.
LEMMA StableAggregator ==
    ASSUME SenderInv, UNCHANGED <<dbVars, aggregator>>
    PROVE  AggregatorInv'
BY DEF SenderInv, AggregatorInv, dbVars, CommitId, ProofId, Blob, ConfirmedReveal

\* The manager's knowledge survives steps that change neither it nor what it read.
LEMMA StableManager ==
    ASSUME SenderInv, UNCHANGED <<dbVars, bitcoin, manager>>
    PROVE  TodoInv' /\ RequestInv'
BY DEF SenderInv, TodoInv, RequestInv, InUpdateLoop, InSendLoop, Sends, InFlight, IsNew,
       IsLastHistory, OnChain, dbVars

\* The states in which the tasks start an iteration.
LEMMA IdleStates ==
    /\ IdleAggregator \in AggregatorState
    /\ IdleAggregator.first .. IdleAggregator.last \subseteq Batch
    /\ IdleManager \in ManagerState
<1>1. [b \in Batch |-> NoDetail] \in [Batch -> Detail]
  BY DEF NoDetail, Detail, Null
<1>2. 0 \in 0 .. BlockResend
  BY SenderAssumption
<1>. QED
  BY <1>1, <1>2 DEF IdleAggregator, AggregatorState, IdleManager, ManagerState, RequestType, Null

\* LastHistory returns the last history row of a request that has one.
LEMMA LastHistoryIsLast ==
    ASSUME SenderTypeOK, NEW r, NEW h \in 1 .. Len(history), history[h].request = r
    PROVE  IsLastHistory(r, LastHistory(r))
<1>1. Len(history) \in Nat
  BY DEF SenderTypeOK, DbTypeOK
<1>2. HistoryOf(r) \subseteq 0 .. Len(history) /\ HistoryOf(r) # {}
  BY <1>1 DEF HistoryOf
<1>3. LastHistory(r) \in HistoryOf(r) /\ \A g \in HistoryOf(r) : g <= LastHistory(r)
  BY <1>1, <1>2, MaxOfNats DEF LastHistory
<1>. QED
  BY <1>3 DEF HistoryOf, IsLastHistory

\* There is only one last history row.
LEMMA LastHistoryIsUnique ==
    ASSUME SenderTypeOK, NEW r, NEW h, IsLastHistory(r, h)
    PROVE  LastHistory(r) = h
<1>1. IsLastHistory(r, LastHistory(r))
  BY LastHistoryIsLast DEF IsLastHistory
<1>2. Len(history) \in Nat
  BY DEF SenderTypeOK, DbTypeOK
<1>3. h \in Int /\ LastHistory(r) \in Int /\ h <= LastHistory(r) /\ LastHistory(r) <= h
  BY <1>1, <1>2 DEF IsLastHistory
<1>. QED
  BY <1>3

-----------------------------------------------------------------------------
(* The aggregator *)

\* The rows behind ReadyList.
ReadyBatches(type) ==
    IF type = "commit" THEN ReadyForCommitL1Batches ELSE ReadyForCommitProofL1Batches

\* The batches of an operation are consecutive ready batches, and there is no
\* ready batch before them.
LEMMA OperationRange ==
    ASSUME SenderInv, NEW type \in RequestType
    PROVE  /\ ReadyBatches(type) \subseteq Batch
           /\ Subrange(type) \subseteq ReadyBatches(type)
           /\ Sequential(ReadyList(type)) /\ Subrange(type) # {} =>
                /\ Min(Subrange(type)) \in Batch
                /\ Max(Subrange(type)) \in Batch
                /\ Min(Subrange(type)) <= Max(Subrange(type))
                /\ Min(Subrange(type)) .. Max(Subrange(type)) = Subrange(type)
                /\ \A c \in ReadyBatches(type) : c >= Min(Subrange(type))
<1> DEFINE R == ReadyBatches(type)
           L == ReadyList(type)
           S == Subrange(type)
<1>1. R \subseteq Batch
  <2>1. 1 .. commitments \subseteq Batch
    BY MaxBatchAssumption DEF SenderInv, SenderTypeOK, DbTypeOK, Batch
  <2>2. ReadyForCommitL1Batches \subseteq Batch
    BY <2>1, Zenon DEF ReadyForCommitL1Batches
  <2>3. ReadyForCommitProofL1Batches \subseteq Batch
    BY Zenon DEF ReadyForCommitProofL1Batches
  <2>. QED
    BY <2>2, <2>3 DEF ReadyBatches
<1>2. R \subseteq 0 .. MaxBatch /\ MaxBatch \in Nat /\ Limits[type] \in Nat
  BY <1>1, MaxBatchAssumption, SenderAssumption DEF Batch, Limits, RequestType
<1>3. L = Limit(R, Limits[type])
  BY DEF ReadyList, ReadyBatches
<1>4. L \subseteq R /\ \A b \in L, c \in R : c <= b => c \in L
  <2>. HIDE DEF R, L
  <2>. QED
    BY <1>2, <1>3, LimitIsPrefix
<1>5. S \subseteq L /\ \A b \in S, c \in L : c <= b => c \in S
  <2>1. L \subseteq 0 .. MaxBatch
    BY <1>2, <1>4, Zenon
  <2>2. S = ExtractReadySubrange(L, Limits[type], 1 .. aged[type])
    BY DEF Subrange
  <2>. HIDE DEF R, L, S
  <2>. QED
    BY <1>2, <2>1, <2>2, ExtractIsPrefix
<1>6. S \subseteq R
  BY <1>4, <1>5, Zenon
<1>7. ASSUME Sequential(L), S # {}
      PROVE  /\ Min(S) \in Batch
             /\ Max(S) \in Batch
             /\ Min(S) <= Max(S)
             /\ Min(S) .. Max(S) = S
             /\ \A c \in R : c >= Min(S)
  <2>. HIDE DEF R, L, S
  <2>1. S \subseteq 0 .. MaxBatch /\ L \subseteq 0 .. MaxBatch /\ S \subseteq Batch
    BY <1>1, <1>2, <1>4, <1>6, Zenon
  <2>2. S \subseteq Nat
    BY <2>1, <1>2
  <2>3. /\ Min(S) \in S /\ Max(S) \in S
        /\ \A y \in S : Min(S) <= y /\ y <= Max(S)
    BY <1>2, <1>7, <2>1, <2>2, MinOfNats, MaxOfNats
  <2>4. Min(S) \in Nat /\ Max(S) \in Nat
    BY <2>2, <2>3, Zenon
  <2>5. L # {} /\ L = Min(L) .. Max(L)
    BY <1>5, <1>7 DEF Sequential
  <2>6. L \subseteq Nat
    BY <2>1, <1>2
  <2>7. Min(L) \in Nat /\ Max(L) \in Nat
    BY <1>2, <2>1, <2>5, <2>6, MinOfNats, MaxOfNats
  <2>8. Min(S) .. Max(S) = S
    <3>1. ASSUME NEW y \in Min(S) .. Max(S) PROVE y \in S
      <4>1. Min(S) \in Min(L) .. Max(L) /\ Max(S) \in Min(L) .. Max(L)
        BY <1>5, <2>3, <2>5, Zenon
      <4>2. y \in Min(L) .. Max(L) /\ y <= Max(S)
        BY <2>4, <2>7, <4>1
      <4>. QED
        BY <1>5, <2>3, <2>5, <4>2, Zenon
    <3>2. ASSUME NEW y \in S PROVE y \in Min(S) .. Max(S)
      BY <2>2, <2>3, <2>4
    <3>. QED
      BY <3>1, <3>2
  <2>9. ASSUME NEW c \in R PROVE c >= Min(S)
    <3>1. c \in Int
      BY <1>2
    <3>2. CASE c <= Min(S)
      <4>1. c \in S
        BY <1>4, <1>5, <2>3, <3>2, Zenon
      <4>. QED
        BY <2>3, <2>4, <3>1, <4>1
    <3>. QED
      BY <2>4, <3>1, <3>2
  <2>. QED
    BY <2>1, <2>3, <2>8, <2>9
<1>. QED
  BY <1>1, <1>6, <1>7

\* The row of a batch whose commit is confirmed names the confirmed transaction.
LEMMA ProofDetail ==
    ASSUME SenderInv, NEW b \in ReadyForCommitProofL1Batches
    PROVE  /\ CommitId(b) \in 1 .. Len(requests)
           /\ DetailOf("proof", b) \in Detail
           /\ DetailOf("proof", b).reveal_tx_id = ConfirmedReveal(CommitId(b))
<1>1. /\ b \in Batch /\ CommitId(b) # Null
      /\ requests[CommitId(b)].confirmed # Null
  BY DEF ReadyForCommitProofL1Batches
<1>2. CommitId(b) \in 1 .. Len(requests)
  BY <1>1 DEF SenderInv, CommitInv
<1>3. IsLastHistory(CommitId(b), requests[CommitId(b)].confirmed)
  BY <1>1, <1>2 DEF SenderInv, ConfirmedInv
<1>4. LastHistory(CommitId(b)) = requests[CommitId(b)].confirmed
  BY <1>3, LastHistoryIsUnique DEF SenderInv
<1>5. ConfirmedReveal(CommitId(b)) \in Nat
  BY <1>3, Rows DEF IsLastHistory, ConfirmedReveal, SenderInv, History
<1>6. Blob("proof", b) \in Nat
  BY <1>1 DEF Blob, SenderInv, SenderTypeOK, DbTypeOK, Kind, DaRow
<1>. QED
  BY <1>2, <1>4, <1>5, <1>6 DEF DetailOf, Detail, ConfirmedReveal

\* get_commit_proof_operation and get_commit_l1_batch_operation: what the aggregator
\* read fits the tables it will write to.
LEMMA ReadOperationStep ==
    ASSUME SenderInv, NEW type \in RequestType, NEW otherwise \in {"idle", "commits"},
           ReadOperation(type, otherwise),
           UNCHANGED <<dbVars, aged, manager, bitcoin, budget>>
    PROVE  SenderInv'
<1>1. CASE aggregator' \in {[IdleAggregator EXCEPT !.pc = "panicked"],
                           [IdleAggregator EXCEPT !.pc = otherwise]}
  <2>1. /\ aggregator' \in AggregatorState
        /\ aggregator'.first .. aggregator'.last \subseteq Batch
        /\ aggregator'.pc # "write"
    BY <1>1, IdleStates DEF AggregatorState, IdleAggregator
  <2>2. SenderTypeOK'
    BY <2>1 DEF SenderInv, SenderTypeOK, DbTypeOK, dbVars
  <2>3. AggregatorInv'
    BY <2>1 DEF AggregatorInv
  <2>. QED
    BY <2>2, <2>3, StableTables, StableManager DEF SenderInv
<1>2. CASE /\ Sequential(ReadyList(type)) /\ Subrange(type) # {}
           /\ aggregator' = Operation(type)
  <2> DEFINE S == Subrange(type)
  <2>1. /\ Min(S) \in Batch /\ Max(S) \in Batch
        /\ Min(S) <= Max(S) /\ Min(S) .. Max(S) = S
        /\ S \subseteq ReadyBatches(type) /\ S \subseteq Batch
        /\ \A c \in ReadyBatches(type) : c >= Min(S)
    BY <1>2, OperationRange
  <2>2. /\ aggregator'.pc = "write" /\ aggregator'.type = type
        /\ aggregator'.first = Min(S) /\ aggregator'.last = Max(S)
        /\ \A b \in S : aggregator'.details[b] = DetailOf(type, b)
    BY <1>2, <2>1 DEF Operation
  <2>3. \A b \in S : DetailOf(type, b) \in Detail
    <3>1. CASE type = "commit"
      <4>1. \A b \in Batch : Blob("batch", b) \in Nat
        BY DEF Blob, SenderInv, SenderTypeOK, DbTypeOK, Kind, DaRow
      <4>. QED
        BY <2>1, <3>1, <4>1 DEF DetailOf, Detail, Null
    <3>2. CASE type = "proof"
      BY <2>1, <3>2, ProofDetail DEF ReadyBatches
    <3>. QED
      BY <3>1, <3>2 DEF RequestType
  <2>4. SenderTypeOK'
    <3>1. aggregator'.details \in [Batch -> Detail]
      BY <1>2, <2>3 DEF Operation, NoDetail, Detail, Null
    <3>2. aggregator' \in AggregatorState
      BY <1>2, <2>1, <3>1 DEF Operation, AggregatorState, Batch
    <3>. QED
      BY <2>1, <2>2, <3>2 DEF SenderInv, SenderTypeOK, DbTypeOK, dbVars
  <2>5. AggregatorInv'
    <3>1. CASE type = "commit"
      <4>1. \A b \in S : /\ CommitId(b) = Null /\ Blob("batch", b) # Null
                         /\ aggregator'.details[b].blob_id = Blob("batch", b)
        <5>. TAKE b \in S
        <5>1. b \in Batch /\ CommitId(b) = Null /\ Included("batch", b)
          BY <2>1, <3>1 DEF ReadyBatches, ReadyForCommitL1Batches
        <5>2. Blob("batch", b) # Null
          BY <5>1 DEF SenderInv, InclusionInv
        <5>3. DetailOf(type, b).blob_id = Blob("batch", b)
          BY <3>1 DEF DetailOf
        <5>. QED
          BY <2>2, <5>1, <5>2, <5>3
      <4>2. \A c \in 1 .. Min(S) - 1 : CommitId(c) # Null
        <5>. SUFFICES ASSUME NEW c \in 1 .. Min(S) - 1, CommitId(c) = Null PROVE FALSE
          OBVIOUS
        <5>1. Min(S) \in S
          BY <1>2, <2>1, MinOfNats DEF Batch
        <5>2. Min(S) \in 1 .. commitments /\ Included("batch", Min(S))
          BY <2>1, <3>1, <5>1 DEF ReadyBatches, ReadyForCommitL1Batches
        <5>3. Included("batch", c)
          BY <2>1, <5>2 DEF SenderInv, InclusionInv
        <5>4. c \in ReadyBatches(type) /\ c < Min(S)
          BY <3>1, <5>2, <5>3
          DEF ReadyBatches, ReadyForCommitL1Batches, SenderInv, SenderTypeOK, DbTypeOK
        <5>. QED
          BY <2>1, <5>4 DEF Batch
      <4>. QED
        BY <2>1, <2>2, <3>1, <4>1, <4>2 DEF AggregatorInv, CommitId, Blob, dbVars
    <3>2. CASE type = "proof"
      <4>1. \A b \in S :
              /\ CommitId(b) # Null /\ ProofId(b) = Null
              /\ requests[CommitId(b)].confirmed # Null
              /\ aggregator'.details[b].reveal_tx_id = ConfirmedReveal(CommitId(b))
        BY <2>1, <2>2, <3>2, ProofDetail DEF ReadyBatches, ReadyForCommitProofL1Batches
      <4>. QED
        BY <2>1, <2>2, <3>2, <4>1
        DEF AggregatorInv, CommitId, ProofId, ConfirmedReveal, dbVars
    <3>. QED
      BY <3>1, <3>2 DEF RequestType
  <2>. QED
    BY <2>4, <2>5, StableTables, StableManager DEF SenderInv
<1>. QED
  BY <1>1, <1>2 DEF ReadOperation

\* What SaveOperation appends.
LEMMA AppendedRequests ==
    ASSUME SenderInv, SaveOperation
    PROVE  LET n == aggregator.last - aggregator.first + 1
           IN /\ n \in Nat
              /\ requests' \in Seq(Request)
              /\ Len(requests') = Len(requests) + n
              /\ \A r \in 1 .. Len(requests) : requests'[r] = requests[r]
              /\ \A i \in 1 .. n :
                   requests'[Len(requests) + i] = InscriptionMessage(aggregator.first + i - 1)
<1> DEFINE n == aggregator.last - aggregator.first + 1
           msgs == [i \in 1 .. n |-> InscriptionMessage(aggregator.first + i - 1)]
<1>1. /\ aggregator.first \in Batch /\ aggregator.last \in Batch
      /\ aggregator.first <= aggregator.last
  BY DEF SaveOperation, SenderInv, AggregatorInv
<1>2. n \in Nat
  BY <1>1 DEF Batch
<1>3. \A b \in Batch : InscriptionMessage(b) \in Request
  <2>. TAKE b \in Batch
  <2>1. aggregator.type \in RequestType /\ aggregator.details[b] \in Detail
    BY DEF SenderInv, SenderTypeOK, AggregatorState
  <2>. QED
    BY <2>1 DEF InscriptionMessage, Request, Detail, Batch, Null
<1>4. \A i \in 1 .. n : msgs[i] \in Request
  <2>1. \A i \in 1 .. n : aggregator.first + i - 1 \in Batch
    BY <1>1, MaxBatchAssumption DEF Batch
  <2>. QED
    BY <1>3, <2>1
<1>5. msgs \in Seq(Request) /\ Len(msgs) = n
  <2>. HIDE DEF n
  <2>1. msgs \in [1 .. n -> Request]
    BY <1>4
  <2>. QED
    BY <1>2, <2>1
<1>6. requests \in Seq(Request) /\ requests' = requests \o msgs
  BY DEF SaveOperation, SenderInv, SenderTypeOK, DbTypeOK
<1>7. /\ requests' \in Seq(Request) /\ Len(requests') = Len(requests) + n
      /\ \A i \in 1 .. Len(requests) + n :
            requests'[i] = IF i <= Len(requests) THEN requests[i] ELSE msgs[i - Len(requests)]
  <2>. HIDE DEF msgs, n
  <2>. QED
    BY <1>5, <1>6, ConcatProperties
<1>8. \A r \in 1 .. Len(requests) : requests'[r] = requests[r]
  <2>. HIDE DEF msgs, n
  <2>. QED
    BY <1>2, <1>6, <1>7, LenProperties
<1>9. \A i \in 1 .. n : requests'[Len(requests) + i] = msgs[i]
  <2>. HIDE DEF msgs, n
  <2>. QED
    BY <1>2, <1>6, <1>7, LenProperties
<1>. QED
  BY <1>2, <1>7, <1>8, <1>9

\* The aggregator's transaction: new rows extend the order of the commits and leave
\* the rows before them alone.
LEMMA SaveOperationStep ==
    ASSUME SenderInv, SaveOperation
    PROVE  SenderInv'
<1> DEFINE first == aggregator.first
           last == aggregator.last
           N == Len(requests)
           id(b) == N + (b - first) + 1
<1>1. /\ first \in Batch /\ last \in Batch /\ first <= last
      /\ first \in Nat /\ last \in Nat /\ N \in Nat
      /\ first .. last \subseteq Batch
  <2>1. first \in Batch /\ last \in Batch /\ first <= last /\ first .. last \subseteq Batch
    BY DEF SaveOperation, SenderInv, AggregatorInv, SenderTypeOK
  <2>. QED
    BY <2>1, Rows DEF Batch, SenderInv
<1>2. /\ requests' \in Seq(Request) /\ Len(requests') >= N /\ Len(requests') \in Nat
      /\ \A r \in 1 .. N : requests'[r] = requests[r] /\ r \in 1 .. Len(requests')
      /\ \A r \in 1 .. Len(requests') : r \notin 1 .. N => requests'[r].confirmed = Null
      /\ \A b \in first .. last :
            /\ id(b) \in Nat /\ id(b) > N /\ id(b) <= Len(requests')
            /\ requests'[id(b)] = InscriptionMessage(b)
  <2> DEFINE n == last - first + 1
  <2>1. /\ n \in Nat /\ requests' \in Seq(Request) /\ Len(requests') = N + n
        /\ \A r \in 1 .. N : requests'[r] = requests[r]
        /\ \A i \in 1 .. n : requests'[N + i] = InscriptionMessage(first + i - 1)
    BY AppendedRequests
  <2>2. Len(requests') \in Nat /\ Len(requests') >= N
    BY <1>1, <2>1
  <2>3. ASSUME NEW r \in 1 .. Len(requests'), r \notin 1 .. N
        PROVE  requests'[r].confirmed = Null
    <3>1. r - N \in 1 .. n /\ r = N + (r - N)
      BY <1>1, <2>1, <2>3
    <3>2. requests'[r] = InscriptionMessage(first + (r - N) - 1)
      BY <2>1, <3>1
    <3>. QED
      BY <3>2 DEF InscriptionMessage
  <2>4. ASSUME NEW b \in first .. last
        PROVE  /\ id(b) \in Nat /\ id(b) > N /\ id(b) <= Len(requests')
               /\ requests'[id(b)] = InscriptionMessage(b)
    <3>0. b \in Int /\ first <= b /\ b <= last
      BY <1>1
    <3>1. /\ (b - first) + 1 \in 1 .. n /\ b = first + ((b - first) + 1) - 1
          /\ id(b) = N + ((b - first) + 1)
      <4>. HIDE DEF first, last, N
      <4>. QED
        BY <1>1, <3>0
    <3>2. requests'[N + ((b - first) + 1)] = InscriptionMessage(b)
      BY <2>1, <3>1
    <3>3. id(b) \in Nat /\ id(b) > N /\ id(b) <= N + n
      <4>. HIDE DEF first, last, N
      <4>. QED
        BY <1>1, <3>0
    <3>. QED
      BY <2>1, <3>1, <3>2, <3>3
  <2>5. \A r \in 1 .. N : r \in 1 .. Len(requests')
    <3>. HIDE DEF N
    <3>. QED
      BY <1>1, <2>2
  <2>. HIDE DEF id, N
  <2>. QED
    BY <2>1, <2>2, <2>3, <2>4, <2>5
<1>3. /\ UNCHANGED <<upstreamVars, via_data_availability, history, aged, manager, bitcoin, budget>>
      /\ aggregator' = IdleAggregator
      /\ inscription_request' = [b \in Batch |-> IF b \in first .. last
                                   THEN Linked(b) ELSE inscription_request[b]]
      /\ \A b \in first .. last : Linkable(b)
  BY DEF SaveOperation
<1>4. \A b \in first .. last : Linked(b) = IF aggregator.type = "commit"
                                           THEN [commit_id |-> id(b), proof_id |-> Null]
                                           ELSE [commit_id |-> CommitId(b), proof_id |-> id(b)]
  BY DEF Linked
<1>. HIDE DEF id, N
<1>5. SenderTypeOK'
  <2>1. \A b \in first .. last : Linked(b) \in [commit_id : Nat, proof_id : Nat]
    <3>. TAKE b \in first .. last
    <3>1. CommitId(b) \in Nat /\ id(b) \in Nat /\ Null \in Nat
      BY <1>1, <1>2 DEF CommitId, SenderInv, SenderTypeOK, DbTypeOK, Null
    <3>. QED
      BY <1>4, <3>1
  <2>2. inscription_request' \in [Batch -> [commit_id : Nat, proof_id : Nat]]
    BY <1>3, <2>1 DEF SenderInv, SenderTypeOK, DbTypeOK
  <2>. QED
    BY <1>2, <1>3, <2>2, IdleStates DEF SenderInv, SenderTypeOK, DbTypeOK, upstreamVars
<1>6. HistoryInv'
  BY <1>2, <1>3 DEF SenderInv, HistoryInv, N
<1>7. ConfirmedInv'
  BY <1>2, <1>3 DEF SenderInv, ConfirmedInv, IsLastHistory, OnChain, N
<1>8. TodoInv'
  BY <1>2, <1>3
  DEF SenderInv, TodoInv, InUpdateLoop, InSendLoop, Sends, InFlight, IsNew, N
<1>9. RequestInv'
  BY <1>2, <1>3 DEF SenderInv, RequestInv, Sends, IsLastHistory, OnChain, N
<1>10. InclusionInv'
  BY <1>3 DEF SenderInv, InclusionInv, Included, Blob
<1>11. ASSUME NEW b \in Batch
       PROVE  /\ CommitId(b) \in Nat /\ CommitId(b)' \in Nat /\ ProofId(b) \in Nat
              /\ CommitId(b) # Null => CommitId(b) \in 1 .. N
              /\ Blob("batch", b)' = Blob("batch", b)
              /\ b \notin first .. last =>
                   CommitId(b)' = CommitId(b) /\ ProofId(b)' = ProofId(b)
              /\ b \in first .. last /\ aggregator.type = "commit" =>
                   CommitId(b)' = id(b) /\ ProofId(b)' = Null
              /\ b \in first .. last /\ aggregator.type # "commit" =>
                   CommitId(b)' = CommitId(b) /\ ProofId(b)' = id(b)
  <2>1. CommitId(b) \in Nat /\ ProofId(b) \in Nat
    BY DEF CommitId, ProofId, SenderInv, SenderTypeOK, DbTypeOK
  <2>2. CommitId(b)' \in Nat
    BY <1>5 DEF CommitId, SenderTypeOK, DbTypeOK
  <2>3. CommitId(b) # Null => CommitId(b) \in 1 .. N
    BY DEF SenderInv, CommitInv, N
  <2>4. inscription_request'[b] = IF b \in first .. last THEN Linked(b)
                                                         ELSE inscription_request[b]
    BY <1>3
  <2>5. Blob("batch", b)' = Blob("batch", b)
    BY <1>3 DEF Blob
  <2>6. b \notin first .. last => CommitId(b)' = CommitId(b) /\ ProofId(b)' = ProofId(b)
    BY <2>4 DEF CommitId, ProofId
  <2>7. b \in first .. last /\ aggregator.type = "commit" =>
           CommitId(b)' = id(b) /\ ProofId(b)' = Null
    BY <1>4, <2>4 DEF CommitId, ProofId
  <2>8. b \in first .. last /\ aggregator.type # "commit" =>
           CommitId(b)' = CommitId(b) /\ ProofId(b)' = id(b)
    BY <1>4, <2>4 DEF CommitId, ProofId
  <2>. QED
    BY <2>1, <2>2, <2>3, <2>5, <2>6, <2>7, <2>8
<1>12. CommitInv'
  <2>. SUFFICES ASSUME NEW b \in Batch', CommitId(b)' # Null
                PROVE  /\ CommitId(b)' \in 1 .. Len(requests')
                       /\ requests'[CommitId(b)'].type = "commit"
                       /\ requests'[CommitId(b)'].batch = b
                       /\ requests'[CommitId(b)'].blob_id = Blob("batch", b)'
                       /\ Blob("batch", b)' # Null
                       /\ \A c \in 1 .. b - 1 : CommitId(c)' # Null /\ CommitId(c)' < CommitId(b)'
    BY DEF CommitInv, Null
  <2>0. b \in Batch /\ b \in Nat /\ \A c \in 1 .. b - 1 : c \in Batch /\ c \in Nat
    BY MaxBatchAssumption DEF Batch
  <2>1. CASE b \in first .. last /\ aggregator.type = "commit"
    <3>1. /\ CommitId(b)' = id(b)
          /\ requests'[id(b)] = InscriptionMessage(b)
          /\ id(b) \in 1 .. Len(requests')
      BY <1>1, <1>2, <1>11, <2>1
    <3>2. Blob("batch", b) # Null /\ aggregator.details[b].blob_id = Blob("batch", b)
      BY <2>1 DEF SaveOperation, SenderInv, AggregatorInv
    <3>3. ASSUME NEW c \in 1 .. b - 1
          PROVE  CommitId(c)' # Null /\ CommitId(c)' < CommitId(b)'
      <4>1. CASE c \in first .. last
        <5>1. CommitId(c)' = id(c)
          BY <1>11, <2>0, <2>1, <4>1
        <5>2. id(c) < id(b) /\ id(c) > 0
          <6>. HIDE DEF first, last
          <6>. QED
            BY <1>1, <2>0, <4>1 DEF id
        <5>. QED
          BY <3>1, <5>1, <5>2 DEF Null
      <4>2. CASE c \notin first .. last
        <5>1. c \in 1 .. first - 1
          BY <1>1, <2>0, <2>1, <4>2
        <5>2. CommitId(c) # Null
          BY <2>1, <5>1 DEF SaveOperation, SenderInv, AggregatorInv
        <5>3. CommitId(c)' = CommitId(c) /\ CommitId(c) \in 1 .. N
          BY <1>11, <2>0, <4>2, <5>2
        <5>. QED
          BY <1>1, <1>2, <2>1, <3>1, <5>2, <5>3
      <4>. QED
        BY <4>1, <4>2
    <3>. QED
      BY <1>11, <2>0, <2>1, <3>1, <3>2, <3>3, SMTT(30) DEF InscriptionMessage
  <2>2. CASE ~(b \in first .. last /\ aggregator.type = "commit")
    <3>1. CommitId(b)' = CommitId(b) /\ CommitId(b) # Null
      BY <1>11, <2>0, <2>2
    <3>2. /\ CommitId(b) \in 1 .. N
          /\ requests[CommitId(b)].type = "commit" /\ requests[CommitId(b)].batch = b
          /\ requests[CommitId(b)].blob_id = Blob("batch", b) /\ Blob("batch", b) # Null
          /\ \A c \in 1 .. b - 1 : CommitId(c) # Null /\ CommitId(c) < CommitId(b)
      BY <2>0, <3>1 DEF SenderInv, CommitInv, N
    <3>3. ASSUME NEW c \in 1 .. b - 1
          PROVE  CommitId(c)' = CommitId(c)
      <4>1. CASE aggregator.type = "commit"
        <5>1. c \notin first .. last
          BY <3>2, <4>1 DEF SaveOperation, SenderInv, AggregatorInv
        <5>. QED
          BY <1>11, <2>0, <5>1
      <4>2. CASE aggregator.type # "commit"
        BY <1>11, <2>0, <4>2
      <4>. QED
        BY <4>1, <4>2
    <3>. QED
      BY <1>2, <1>11, <2>0, <3>1, <3>2, <3>3
  <2>. QED
    BY <2>1, <2>2
<1>13. ProofInv'
  <2>. SUFFICES ASSUME NEW b \in Batch', ProofId(b)' # Null
                PROVE  /\ CommitId(b)' # Null
                       /\ requests'[CommitId(b)'].confirmed # Null
                       /\ ProofId(b)' \in 1 .. Len(requests')
                       /\ requests'[ProofId(b)'].type = "proof"
                       /\ requests'[ProofId(b)'].reveal_tx_id = ConfirmedReveal(CommitId(b))'
    BY DEF ProofInv, Null
  <2>0. b \in Batch
    BY DEF Batch
  <2>1. CASE b \in first .. last
    <3>1. aggregator.type = "proof" /\ aggregator.type # "commit"
      <4>1. aggregator.type \in RequestType
        BY DEF SenderInv, SenderTypeOK, AggregatorState
      <4>. QED
        BY <1>11, <2>0, <2>1, <4>1 DEF RequestType
    <3>2. CommitId(b)' = CommitId(b) /\ ProofId(b)' = id(b)
      BY <1>11, <2>0, <2>1, <3>1
    <3>3. /\ CommitId(b) # Null /\ requests[CommitId(b)].confirmed # Null
          /\ aggregator.details[b].reveal_tx_id = ConfirmedReveal(CommitId(b))
      BY <2>1, <3>1 DEF SaveOperation, SenderInv, AggregatorInv
    <3>4. requests'[CommitId(b)] = requests[CommitId(b)]
      BY <1>2, <1>11, <2>0, <3>3
    <3>5. ConfirmedReveal(CommitId(b))' = ConfirmedReveal(CommitId(b))
      BY <1>3, <3>2, <3>4 DEF ConfirmedReveal
    <3>6. requests'[id(b)] = InscriptionMessage(b) /\ id(b) \in 1 .. Len(requests')
      BY <1>1, <1>2, <2>1
    <3>7. /\ requests'[id(b)].type = "proof"
          /\ requests'[id(b)].reveal_tx_id = aggregator.details[b].reveal_tx_id
      BY <3>1, <3>6 DEF InscriptionMessage
    <3>. QED
      BY <3>2, <3>3, <3>4, <3>5, <3>6, <3>7
  <2>2. CASE b \notin first .. last
    <3>1. CommitId(b)' = CommitId(b) /\ ProofId(b)' = ProofId(b)
      BY <1>11, <2>0, <2>2
    <3>2. /\ CommitId(b) # Null /\ requests[CommitId(b)].confirmed # Null
          /\ ProofId(b) \in 1 .. N /\ requests[ProofId(b)].type = "proof"
          /\ requests[ProofId(b)].reveal_tx_id = ConfirmedReveal(CommitId(b))
      BY <2>0, <3>1 DEF SenderInv, ProofInv, N
    <3>3. /\ requests'[CommitId(b)] = requests[CommitId(b)]
          /\ requests'[ProofId(b)] = requests[ProofId(b)]
          /\ ProofId(b) \in 1 .. Len(requests')
      BY <1>2, <1>11, <2>0, <3>2
    <3>4. ConfirmedReveal(CommitId(b))' = ConfirmedReveal(CommitId(b))
      BY <1>3, <3>1, <3>3 DEF ConfirmedReveal
    <3>. QED
      BY <3>1, <3>2, <3>3, <3>4
  <2>. QED
    BY <2>1, <2>2
<1>14. AggregatorInv'
  BY <1>3 DEF AggregatorInv, IdleAggregator
<1>. QED
  BY <1>5, <1>6, <1>7, <1>8, <1>9, <1>10, <1>12, <1>13, <1>14 DEF SenderInv

\* Every step of the inscription aggregator.
LEMMA AggregatorStepInv ==
    ASSUME SenderInv, AggregatorStep
    PROVE  SenderInv'
<1>1. CASE GetCommitProofOperation
  BY <1>1, ReadOperationStep DEF GetCommitProofOperation, RequestType
<1>2. CASE GetCommitL1BatchOperation
  BY <1>2, ReadOperationStep DEF GetCommitL1BatchOperation, RequestType
<1>3. CASE SaveOperation
  BY <1>3, SaveOperationStep
<1>4. CASE AggregatorError
  <2>1. UNCHANGED <<dbVars, aged, manager, bitcoin, budget>> /\ aggregator' = IdleAggregator
    BY <1>4 DEF AggregatorError
  <2>2. SenderTypeOK'
    BY <2>1, IdleStates DEF SenderInv, SenderTypeOK, DbTypeOK, dbVars
  <2>3. AggregatorInv'
    BY <2>1 DEF AggregatorInv, IdleAggregator
  <2>. QED
    BY <2>1, <2>2, <2>3, StableTables, StableManager DEF SenderInv
<1>. QED
  BY <1>1, <1>2, <1>3, <1>4 DEF AggregatorStep

-----------------------------------------------------------------------------
(* The manager *)

\* Steps that change nothing but the manager's local state.
LEMMA ManagerOnly ==
    ASSUME SenderInv, UNCHANGED <<requests, history, bitcoin, ManagerRest>>,
           manager' \in ManagerState, TodoInv', RequestInv'
    PROVE  SenderInv'
<1>1. UNCHANGED <<dbVars, aged, aggregator, bitcoin, budget>>
  BY DEF ManagerRest, dbVars, upstreamVars
<1>2. SenderTypeOK'
  BY <1>1 DEF SenderInv, SenderTypeOK, DbTypeOK, dbVars
<1>. QED
  BY <1>1, <1>2, StableTables, StableAggregator DEF SenderInv

\* An iteration that ends, normally or not.
LEMMA ManagerIdle ==
    ASSUME SenderInv, manager' = IdleManager
    PROVE  manager' \in ManagerState /\ TodoInv' /\ RequestInv'
BY IdleStates DEF TodoInv, RequestInv, InUpdateLoop, InSendLoop, Sends, IdleManager

\* get_inflight_inscriptions returns requests in flight.
LEMMA GetInflightStep ==
    ASSUME SenderInv, GetInflight
    PROVE  SenderInv'
<1>1. /\ UNCHANGED <<requests, history, bitcoin, ManagerRest>>
      /\ manager' = [IdleManager EXCEPT !.pc = "update", !.todo = InflightInscriptions]
  BY DEF GetInflight
<1>2. InflightInscriptions \subseteq Nat
  BY Rows DEF InflightInscriptions, SenderInv
<1>3. manager' \in ManagerState
  BY <1>1, <1>2, IdleStates DEF ManagerState, IdleManager
<1>4. TodoInv'
  <2>1. \A r \in InflightInscriptions : InFlight(r)
    BY DEF InflightInscriptions, InFlight, HistoryOf
  <2>. QED
    BY <1>1, <2>1 DEF TodoInv, InUpdateLoop, InSendLoop, Sends, InFlight, IdleManager
<1>5. RequestInv'
  BY <1>1 DEF RequestInv, Sends, IdleManager
<1>. QED
  BY <1>1, <1>3, <1>4, <1>5, ManagerOnly

\* check_tx_confirmation says that the last transaction is on the chain.
LEMMA CheckTxConfirmationStep ==
    ASSUME SenderInv, CheckTxConfirmation
    PROVE  SenderInv'
<1> DEFINE r == Min(manager.todo)
           h == LastHistory(r)
           depth == bitcoin[history[h].reveal_tx_id].depth
<1>1. /\ UNCHANGED <<requests, history, bitcoin, ManagerRest>>
      /\ manager.pc = "update" /\ manager.todo # {}
      /\ manager' = [manager EXCEPT
            !.pc = IF depth >= BlockConfirmations THEN "confirm" ELSE "age",
            !.request = r, !.history = h, !.todo = @ \ {r}]
  BY DEF CheckTxConfirmation
<1>2. manager \in ManagerState /\ manager.todo \subseteq Nat
  BY DEF SenderInv, SenderTypeOK, ManagerState
<1>3. r \in manager.todo
  BY <1>1, <1>2, MinOfNats
<1>4. InFlight(r) /\ \A q \in manager.todo : InFlight(q)
  BY <1>1, <1>3 DEF SenderInv, TodoInv, InUpdateLoop
<1>5. IsLastHistory(r, h)
  BY <1>4, LastHistoryIsLast DEF SenderInv, InFlight
<1>6. depth >= BlockConfirmations => OnChain(h)
  <2>1. history[h].reveal_tx_id \in 1 .. Len(bitcoin)
    BY <1>5 DEF IsLastHistory, SenderInv, HistoryInv
  <2>2. depth \in Gone .. BlockConfirmations
    BY <2>1, Rows DEF SenderInv
  <2>3. \A d \in Gone .. BlockConfirmations : d >= BlockConfirmations => d = BlockConfirmations
    BY SenderAssumption DEF Gone
  <2>. QED
    BY <2>2, <2>3 DEF OnChain
<1>7. /\ manager'.pc \in {"confirm", "age"} /\ manager'.pc = "confirm" => OnChain(h)
      /\ manager'.request = r /\ manager'.history = h /\ manager'.todo = manager.todo \ {r}
      /\ manager'.resume = manager.resume
  BY <1>1, <1>2, <1>6 DEF ManagerState
<1>8. r \in Nat /\ h \in Nat
  BY <1>2, <1>3, <1>5, Rows DEF IsLastHistory, SenderInv
<1>. HIDE DEF r, h, depth
<1>9. manager' \in ManagerState
  BY <1>1, <1>2, <1>8 DEF ManagerState
<1>10. TodoInv'
  BY <1>1, <1>4, <1>7 DEF TodoInv, InUpdateLoop, InSendLoop, Sends, InFlight
<1>11. RequestInv'
  BY <1>1, <1>4, <1>5, <1>7 DEF RequestInv, Sends, InFlight, IsLastHistory, OnChain
<1>. QED
  BY <1>1, <1>9, <1>10, <1>11, ManagerOnly

\* The test for BLOCK_RESEND, before a request is sent again.
LEMMA CheckAgeStep ==
    ASSUME SenderInv, CheckAge
    PROVE  SenderInv'
<1>1. /\ UNCHANGED <<requests, history, bitcoin, ManagerRest>>
      /\ manager.pc = "age"
  BY DEF CheckAge
<1>2. manager \in ManagerState
  BY DEF SenderInv, SenderTypeOK
<1>3. \A r \in manager.todo : InFlight(r)
  BY <1>1 DEF SenderInv, TodoInv, InUpdateLoop
<1>4. CASE manager' = [IdleManager EXCEPT !.pc = "update", !.todo = manager.todo]
  <2>1. manager' \in ManagerState
    BY <1>2, <1>4, IdleStates DEF ManagerState, IdleManager
  <2>2. TodoInv'
    BY <1>1, <1>3, <1>4 DEF TodoInv, InUpdateLoop, InSendLoop, Sends, InFlight, IdleManager
  <2>3. RequestInv'
    BY <1>4 DEF RequestInv, Sends, IdleManager
  <2>. QED
    BY <1>1, <2>1, <2>2, <2>3, ManagerOnly
<1>5. CASE manager' = [manager EXCEPT !.pc = "fetch", !.resume = "update"]
  <2>0. /\ manager'.pc = "fetch" /\ manager'.resume = "update"
        /\ manager'.todo = manager.todo /\ manager'.request = manager.request
    BY <1>2, <1>5 DEF ManagerState
  <2>1. manager' \in ManagerState
    BY <1>2, <1>5 DEF ManagerState
  <2>2. TodoInv'
    BY <1>1, <1>3, <2>0 DEF TodoInv, InUpdateLoop, InSendLoop, Sends, InFlight
  <2>3. RequestInv'
    BY <1>1, <2>0 DEF SenderInv, RequestInv, Sends
  <2>. QED
    BY <1>1, <2>1, <2>2, <2>3, ManagerOnly
<1>. QED
  BY <1>4, <1>5 DEF CheckAge

\* list_new_inscription_request returns requests that were never sent.
LEMMA ListNewInscriptionRequestStep ==
    ASSUME SenderInv, UpdateDone \/ ListNewInscriptionRequest
    PROVE  SenderInv'
<1>1. CASE UpdateDone
  <2>1. /\ UNCHANGED <<requests, history, bitcoin, ManagerRest>>
        /\ manager' = [IdleManager EXCEPT !.pc = "new"]
    BY <1>1 DEF UpdateDone
  <2>2. manager' \in ManagerState
    BY <2>1, IdleStates DEF ManagerState, IdleManager
  <2>3. TodoInv' /\ RequestInv'
    BY <2>1 DEF TodoInv, RequestInv, InUpdateLoop, InSendLoop, Sends, IdleManager
  <2>. QED
    BY <2>1, <2>2, <2>3, ManagerOnly
<1>2. CASE ListNewInscriptionRequest
  <2> DEFINE free == MaxTxsInFlight - Cardinality(InflightInscriptions)
             rows == Limit(NewInscriptionRequests, free)
  <2>1. /\ UNCHANGED <<requests, history, bitcoin, ManagerRest>>
        /\ manager' = [IdleManager EXCEPT !.pc = "sendnew", !.todo = rows]
    BY <1>2 DEF ListNewInscriptionRequest
  <2>2. rows \subseteq NewInscriptionRequests
    BY DEF Limit
  <2>3. \A r \in rows : IsNew(r)
    <3>. SUFFICES ASSUME NEW r \in NewInscriptionRequests PROVE IsNew(r)
      BY <2>2
    <3>1. /\ r \in 1 .. Len(requests)
          /\ \A h \in 1 .. Len(history) : history[h].request # r
      BY DEF NewInscriptionRequests, HistoryOf
    <3>2. requests[r].confirmed = Null
      BY <3>1 DEF SenderInv, ConfirmedInv, IsLastHistory
    <3>. QED
      BY <3>1, <3>2 DEF IsNew
  <2>4. rows \subseteq Nat
    <3>1. NewInscriptionRequests \subseteq Nat
      BY Rows DEF NewInscriptionRequests, SenderInv
    <3>. QED
      BY <2>2, <3>1, Zenon
  <2>. HIDE DEF rows
  <2>5. manager' \in ManagerState
    BY <2>1, <2>4, IdleStates DEF ManagerState, IdleManager
  <2>6. TodoInv'
    BY <2>1, <2>3 DEF TodoInv, InUpdateLoop, InSendLoop, Sends, IsNew, IdleManager
  <2>7. RequestInv'
    BY <2>1 DEF RequestInv, Sends, IdleManager
  <2>. QED
    BY <2>1, <2>5, <2>6, <2>7, ManagerOnly
<1>. QED
  BY <1>1, <1>2

\* The loop of send_new_inscription_txs.
LEMMA SendNextStep ==
    ASSUME SenderInv, SendNext
    PROVE  SenderInv'
<1>1. /\ UNCHANGED <<requests, history, bitcoin, ManagerRest>>
      /\ manager.pc = "sendnew"
  BY DEF SendNext
<1>2. manager \in ManagerState /\ manager.todo \subseteq Nat
  BY DEF SenderInv, SenderTypeOK, ManagerState
<1>3. \A r \in manager.todo : IsNew(r)
  BY <1>1 DEF SenderInv, TodoInv, InSendLoop
<1>4. CASE manager' = IdleManager
  BY <1>1, <1>4, ManagerIdle, ManagerOnly
<1>5. CASE /\ manager.todo # {}
           /\ manager' = [manager EXCEPT !.pc = "fetch", !.request = Min(manager.todo),
                            !.resume = "sendnew", !.todo = @ \ {Min(manager.todo)}]
  <2> DEFINE r == Min(manager.todo)
  <2>1. r \in manager.todo /\ r \in Nat /\ IsNew(r)
    BY <1>2, <1>3, <1>5, MinOfNats
  <2>2. /\ manager'.pc = "fetch" /\ manager'.resume = "sendnew"
        /\ manager'.request = r /\ manager'.todo = manager.todo \ {r}
    BY <1>2, <1>5 DEF ManagerState
  <2>3. manager' \in ManagerState
    BY <1>2, <1>5, <2>1 DEF ManagerState
  <2>. HIDE DEF r
  <2>4. TodoInv'
    BY <1>1, <1>3, <2>2 DEF TodoInv, InUpdateLoop, InSendLoop, Sends, IsNew
  <2>5. RequestInv'
    BY <1>1, <2>1, <2>2 DEF RequestInv, Sends, IsNew
  <2>. QED
    BY <1>1, <2>3, <2>4, <2>5, ManagerOnly
<1>. QED
  BY <1>4, <1>5 DEF SendNext

\* send_inscription_tx reads the block height.
LEMMA FetchBlockHeightStep ==
    ASSUME SenderInv, FetchBlockHeight
    PROVE  SenderInv'
<1>1. /\ UNCHANGED <<requests, history, bitcoin, ManagerRest>>
      /\ manager.pc = "fetch" /\ manager' = [manager EXCEPT !.pc = "send", !.age = 0]
  BY DEF FetchBlockHeight
<1>2. manager \in ManagerState /\ 0 \in 0 .. BlockResend
  BY SenderAssumption DEF SenderInv, SenderTypeOK
<1>3. /\ manager'.pc = "send" /\ manager'.resume = manager.resume
      /\ manager'.request = manager.request /\ manager'.todo = manager.todo
  BY <1>1, <1>2 DEF ManagerState
<1>4. manager' \in ManagerState
  BY <1>1, <1>2 DEF ManagerState
<1>5. TodoInv'
  BY <1>1, <1>3 DEF SenderInv, TodoInv, InUpdateLoop, InSendLoop, Sends, InFlight, IsNew
<1>6. RequestInv'
  BY <1>1, <1>3 DEF SenderInv, RequestInv, Sends
<1>. QED
  BY <1>1, <1>4, <1>5, <1>6, ManagerOnly

\* confirm_inscription: nothing was sent for the request since it was checked.
LEMMA ConfirmInscriptionStep ==
    ASSUME SenderInv, ConfirmInscription
    PROVE  SenderInv'
<1> DEFINE q == manager.request
           h == manager.history
<1>1. /\ manager.pc = "confirm"
      /\ requests' = [requests EXCEPT ![q].confirmed = h]
      /\ manager' = [IdleManager EXCEPT !.pc = "update", !.todo = manager.todo]
      /\ UNCHANGED <<history, bitcoin, upstreamVars, via_data_availability,
                     inscription_request, aged, aggregator, budget>>
  BY DEF ConfirmInscription, ManagerRest
<1>2. /\ q \in 1 .. Len(requests) /\ requests[q].confirmed = Null /\ q \notin manager.todo
      /\ IsLastHistory(q, h) /\ OnChain(h) /\ h \in Nat
  BY <1>1, Rows DEF SenderInv, RequestInv, IsLastHistory
<1>3. manager \in ManagerState /\ requests \in Seq(Request) /\ requests[q] \in Request
  BY <1>2, Rows DEF SenderInv, SenderTypeOK, DbTypeOK
<1>4. /\ requests' \in Seq(Request) /\ Len(requests') = Len(requests)
      /\ requests'[q] = [requests[q] EXCEPT !.confirmed = h]
      /\ \A r \in 1 .. Len(requests) : r # q => requests'[r] = requests[r]
  <2>1. [requests[q] EXCEPT !.confirmed = h] \in Request
    BY <1>2, <1>3 DEF Request
  <2>2. requests' = [requests EXCEPT ![q] = [requests[q] EXCEPT !.confirmed = h]]
    BY <1>1
  <2>. QED
    BY <1>2, <1>3, <2>1, <2>2, ExceptSeq
<1>5. requests'[q].confirmed = h /\ requests'[q].type = requests[q].type
      /\ requests'[q].batch = requests[q].batch /\ requests'[q].blob_id = requests[q].blob_id
      /\ requests'[q].reveal_tx_id = requests[q].reveal_tx_id
  BY <1>3, <1>4 DEF Request
<1>. HIDE DEF q, h
<1>6. SenderTypeOK'
  <2>1. manager' \in ManagerState
    BY <1>1, <1>3, IdleStates DEF ManagerState, IdleManager
  <2>. QED
    BY <1>1, <1>4, <2>1 DEF SenderInv, SenderTypeOK, DbTypeOK, upstreamVars
<1>7. HistoryInv'
  BY <1>1, <1>4 DEF SenderInv, HistoryInv
<1>8. ConfirmedInv'
  <2>. SUFFICES ASSUME NEW r \in 1 .. Len(requests), requests'[r].confirmed # Null
                PROVE  IsLastHistory(r, requests[r].confirmed)'
                       /\ OnChain(requests[r].confirmed)'
    BY <1>4 DEF ConfirmedInv, Null
  <2>1. CASE r = q
    BY <1>1, <1>2, <1>5, <2>1 DEF IsLastHistory, OnChain
  <2>2. CASE r # q
    <3>1. IsLastHistory(r, requests[r].confirmed) /\ OnChain(requests[r].confirmed)
      BY <1>4, <2>2 DEF SenderInv, ConfirmedInv
    <3>. QED
      BY <1>1, <1>4, <2>2, <3>1 DEF IsLastHistory, OnChain
  <2>. QED
    BY <2>1, <2>2
<1>9. TodoInv'
  <2>1. \A r \in manager.todo : InFlight(r) /\ r # q
    BY <1>1, <1>2 DEF SenderInv, TodoInv, InUpdateLoop
  <2>2. \A r \in manager.todo : InFlight(r)'
    BY <1>1, <1>4, <2>1 DEF InFlight
  <2>. QED
    BY <1>1, <2>2 DEF TodoInv, InUpdateLoop, InSendLoop, Sends, IdleManager
<1>10. RequestInv'
  BY <1>1 DEF RequestInv, Sends, IdleManager
<1>11. InclusionInv'
  BY <1>1 DEF SenderInv, InclusionInv, Included, Blob
<1>12. CommitInv'
  <2>1. \A r \in 1 .. Len(requests) :
          /\ requests'[r].type = requests[r].type /\ requests'[r].batch = requests[r].batch
          /\ requests'[r].blob_id = requests[r].blob_id
    BY <1>4, <1>5
  <2>2. \A b : CommitId(b)' = CommitId(b) /\ Blob("batch", b)' = Blob("batch", b)
    BY <1>1 DEF CommitId, Blob
  <2>. QED
    BY <1>4, <2>1, <2>2 DEF SenderInv, CommitInv
<1>13. ASSUME NEW b \in Batch, CommitId(b) # Null, requests[CommitId(b)].confirmed # Null
       PROVE  /\ requests'[CommitId(b)] = requests[CommitId(b)]
              /\ ConfirmedReveal(CommitId(b))' = ConfirmedReveal(CommitId(b))
  <2>1. CommitId(b) \in 1 .. Len(requests) /\ CommitId(b) # q
    BY <1>2, <1>13 DEF SenderInv, CommitInv
  <2>2. requests'[CommitId(b)] = requests[CommitId(b)]
    BY <1>4, <2>1
  <2>. QED
    BY <1>1, <2>2 DEF ConfirmedReveal, CommitId
<1>14. ProofInv'
  <2>. SUFFICES ASSUME NEW b \in Batch, ProofId(b) # Null
                PROVE  /\ requests'[CommitId(b)].confirmed # Null
                       /\ ProofId(b) \in 1 .. Len(requests')
                       /\ requests'[ProofId(b)].type = "proof"
                       /\ requests'[ProofId(b)].reveal_tx_id = ConfirmedReveal(CommitId(b))'
                       /\ CommitId(b) # Null
    BY <1>1 DEF ProofInv, ProofId, CommitId, Null, Batch
  <2>1. /\ CommitId(b) # Null /\ requests[CommitId(b)].confirmed # Null
        /\ ProofId(b) \in 1 .. Len(requests) /\ requests[ProofId(b)].type = "proof"
        /\ requests[ProofId(b)].reveal_tx_id = ConfirmedReveal(CommitId(b))
    BY DEF SenderInv, ProofInv
  <2>2. /\ requests'[ProofId(b)].type = requests[ProofId(b)].type
        /\ requests'[ProofId(b)].reveal_tx_id = requests[ProofId(b)].reveal_tx_id
    BY <1>4, <1>5, <2>1
  <2>. QED
    BY <1>4, <1>13, <2>1, <2>2
<1>15. AggregatorInv'
  <2>. SUFFICES ASSUME aggregator.pc = "write"
                PROVE  AggregatorInv'
    BY <1>1 DEF AggregatorInv
  <2>1. \A b : CommitId(b)' = CommitId(b) /\ ProofId(b)' = ProofId(b)
               /\ Blob("batch", b)' = Blob("batch", b)
    BY <1>1 DEF CommitId, ProofId, Blob
  <2>2. aggregator.first .. aggregator.last \subseteq Batch
    BY DEF SenderInv, SenderTypeOK
  <2>3. aggregator.type = "proof" => \A b \in aggregator.first .. aggregator.last :
            /\ requests'[CommitId(b)].confirmed # Null
            /\ aggregator.details[b].reveal_tx_id = ConfirmedReveal(CommitId(b))'
    BY <1>13, <2>2 DEF SenderInv, AggregatorInv
  <2>. QED
    BY <1>1, <2>1, <2>3 DEF SenderInv, AggregatorInv
<1>. QED
  BY <1>6, <1>7, <1>8, <1>9, <1>10, <1>11, <1>12, <1>14, <1>15 DEF SenderInv

\* The broadcast, of a request that is not confirmed.
LEMMA InscribeStep ==
    ASSUME SenderInv, Inscribe
    PROVE  SenderInv'
<1> DEFINE tx == [request |-> manager.request, depth |-> 0]
<1>1. /\ manager.pc = "send"
      /\ bitcoin' = Append(bitcoin, tx)
      /\ manager' = [manager EXCEPT !.pc = "record", !.reveal = Len(bitcoin) + 1]
      /\ UNCHANGED <<dbVars, aged, aggregator, budget>>
  BY DEF Inscribe, ManagerRest, dbVars, upstreamVars
<1>2. /\ manager \in ManagerState /\ Len(bitcoin) \in Nat
      /\ bitcoin \in Seq([request : Nat, depth : Gone .. BlockConfirmations])
      /\ tx \in [request : Nat, depth : Gone .. BlockConfirmations]
  BY Rows, SenderAssumption, SMTT(30) DEF SenderInv, SenderTypeOK, ManagerState, Gone
<1>3. /\ bitcoin' \in Seq([request : Nat, depth : Gone .. BlockConfirmations])
      /\ Len(bitcoin') = Len(bitcoin) + 1
      /\ \A t \in 1 .. Len(bitcoin) : bitcoin'[t] = bitcoin[t]
      /\ bitcoin'[Len(bitcoin) + 1].request = manager.request
  BY <1>1, <1>2, AppendProperties
<1>4. /\ manager'.pc = "record" /\ manager'.resume = manager.resume
      /\ manager'.request = manager.request /\ manager'.todo = manager.todo
      /\ manager'.reveal = Len(bitcoin) + 1
  BY <1>1, <1>2 DEF ManagerState
<1>5. SenderTypeOK'
  <2>0. Len(bitcoin) + 1 \in Nat
    BY <1>2
  <2>1. manager' \in ManagerState
    BY <1>1, <1>2, <2>0 DEF ManagerState
  <2>. QED
    BY <1>1, <1>3, <2>1 DEF SenderInv, SenderTypeOK, DbTypeOK, dbVars
<1>6. HistoryInv'
  BY <1>1, <1>2, <1>3 DEF SenderInv, HistoryInv, dbVars
<1>7. ConfirmedInv'
  <2>1. \A r \in 1 .. Len(requests) : requests[r].confirmed # Null =>
          /\ IsLastHistory(r, requests[r].confirmed) /\ OnChain(requests[r].confirmed)
          /\ history[requests[r].confirmed].reveal_tx_id \in 1 .. Len(bitcoin)
    BY DEF SenderInv, ConfirmedInv, IsLastHistory, HistoryInv
  <2>. QED
    BY <1>1, <1>3, <2>1 DEF ConfirmedInv, IsLastHistory, OnChain, dbVars
<1>8. TodoInv'
  BY <1>1, <1>4
  DEF SenderInv, TodoInv, InUpdateLoop, InSendLoop, Sends, InFlight, IsNew, dbVars
<1>9. RequestInv'
  BY <1>1, <1>2, <1>3, <1>4 DEF SenderInv, RequestInv, Sends, dbVars
<1>10. InclusionInv' /\ CommitInv' /\ ProofInv'
  BY <1>1 DEF SenderInv, InclusionInv, CommitInv, ProofInv, Included, Blob, CommitId, ProofId,
              ConfirmedReveal, dbVars
<1>11. AggregatorInv'
  BY <1>1, StableAggregator
<1>. QED
  BY <1>5, <1>6, <1>7, <1>8, <1>9, <1>10, <1>11 DEF SenderInv

\* insert_inscription_request_history: the new row is the last one of its request,
\* which no other row or task takes for confirmed.
LEMMA InsertInscriptionRequestHistoryStep ==
    ASSUME SenderInv, InsertInscriptionRequestHistory
    PROVE  SenderInv'
<1> DEFINE q == manager.request
           row == [request |-> q, reveal_tx_id |-> manager.reveal, age |-> manager.age]
           H == Len(history)
<1>1. /\ manager.pc = "record"
      /\ history' = Append(history, row)
      /\ manager' = [IdleManager EXCEPT !.pc = manager.resume, !.todo = manager.todo]
      /\ UNCHANGED <<requests, bitcoin, upstreamVars, via_data_availability,
                     inscription_request, aged, aggregator, budget>>
  BY DEF InsertInscriptionRequestHistory, ManagerRest
<1>2. /\ manager \in ManagerState /\ H \in Nat /\ history \in Seq(History)
      /\ manager.resume \in {"update", "sendnew"}
      /\ q \in 1 .. Len(requests) /\ requests[q].confirmed = Null /\ q \notin manager.todo
      /\ manager.reveal \in 1 .. Len(bitcoin) /\ bitcoin[manager.reveal].request = q
  BY <1>1, Rows DEF SenderInv, SenderTypeOK, DbTypeOK, RequestInv, Sends
<1>3. row \in History
  BY <1>2, SenderAssumption DEF ManagerState, History
<1>4. /\ history' \in Seq(History) /\ Len(history') = H + 1
      /\ \A h \in 1 .. H : history'[h] = history[h]
      /\ history'[H + 1] = row
  <2>. HIDE DEF row
  <2>. QED
    BY <1>1, <1>2, <1>3, AppendProperties
<1>5. /\ history'[H + 1].request = q /\ history'[H + 1].reveal_tx_id = manager.reveal
      /\ \A h \in 1 .. Len(history') : h \in 1 .. H \/ h = H + 1
      /\ \A h \in 1 .. H : h \in 1 .. Len(history')
      /\ H + 1 \in 1 .. Len(history')
  BY <1>2, <1>4
<1>. HIDE DEF q, row, H
<1>6. SenderTypeOK'
  <2>0. manager.todo \in SUBSET Nat
    BY <1>2 DEF ManagerState
  <2>1. manager' \in ManagerState
    <3>1. CASE manager.resume = "update"
      BY <1>1, <2>0, <3>1, IdleStates DEF ManagerState, IdleManager
    <3>2. CASE manager.resume = "sendnew"
      BY <1>1, <2>0, <3>2, IdleStates DEF ManagerState, IdleManager
    <3>. QED
      BY <1>2, <3>1, <3>2
  <2>. QED
    BY <1>1, <1>4, <2>1 DEF SenderInv, SenderTypeOK, DbTypeOK, upstreamVars
<1>7. HistoryInv'
  <2>1. \A h \in 1 .. H :
          /\ history[h].request \in 1 .. Len(requests)
          /\ history[h].reveal_tx_id \in 1 .. Len(bitcoin)
          /\ bitcoin[history[h].reveal_tx_id].request = history[h].request
    BY DEF SenderInv, HistoryInv, H
  <2>. QED
    BY <1>1, <1>2, <1>4, <1>5, <2>1, SMTT(30) DEF HistoryInv
<1>8. ASSUME NEW r \in 1 .. Len(requests), requests[r].confirmed # Null
      PROVE  /\ IsLastHistory(r, requests[r].confirmed)' /\ OnChain(requests[r].confirmed)'
             /\ requests[r].confirmed \in 1 .. H
  <2>1. r # q
    BY <1>2, <1>8
  <2>2. IsLastHistory(r, requests[r].confirmed) /\ OnChain(requests[r].confirmed)
    BY <1>8 DEF SenderInv, ConfirmedInv
  <2>3. requests[r].confirmed \in 1 .. H
    BY <2>2 DEF IsLastHistory, H
  <2>4. IsLastHistory(r, requests[r].confirmed)'
    BY <1>1, <1>4, <1>5, <2>1, <2>2, <2>3 DEF IsLastHistory, H
  <2>5. OnChain(requests[r].confirmed)'
    BY <1>1, <1>4, <2>2, <2>3 DEF OnChain
  <2>. QED
    BY <2>3, <2>4, <2>5
<1>9. ConfirmedInv'
  BY <1>1, <1>8 DEF ConfirmedInv
<1>10. TodoInv'
  <2>1. CASE manager.resume = "update"
    <3>1. \A r \in manager.todo : InFlight(r)
      BY <1>1, <2>1 DEF SenderInv, TodoInv, InUpdateLoop, Sends
    <3>2. \A r \in manager.todo : InFlight(r)'
      BY <1>1, <1>4, <1>5, <3>1 DEF InFlight, H
    <3>. QED
      BY <1>1, <2>1, <3>2 DEF TodoInv, InUpdateLoop, InSendLoop, Sends, IdleManager
  <2>2. CASE manager.resume = "sendnew"
    <3>1. \A r \in manager.todo : IsNew(r) /\ r # q
      BY <1>1, <1>2, <2>2 DEF SenderInv, TodoInv, InSendLoop, Sends
    <3>2. \A r \in manager.todo : IsNew(r)'
      BY <1>1, <1>4, <1>5, <3>1 DEF IsNew, H
    <3>. QED
      BY <1>1, <2>2, <3>2 DEF TodoInv, InUpdateLoop, InSendLoop, Sends, IdleManager
  <2>. QED
    BY <1>2, <2>1, <2>2
<1>11. RequestInv'
  BY <1>1, <1>2 DEF RequestInv, Sends, IdleManager
<1>12. InclusionInv' /\ CommitInv'
  BY <1>1 DEF SenderInv, InclusionInv, CommitInv, Included, Blob, CommitId
<1>13. ASSUME NEW b \in Batch, CommitId(b) # Null, requests[CommitId(b)].confirmed # Null
       PROVE  ConfirmedReveal(CommitId(b))' = ConfirmedReveal(CommitId(b))
  <2>1. requests[CommitId(b)].confirmed \in 1 .. H
    BY <1>8, <1>13 DEF SenderInv, CommitInv
  <2>. QED
    BY <1>1, <1>4, <2>1 DEF ConfirmedReveal, CommitId
<1>14. ProofInv'
  BY <1>1, <1>13 DEF SenderInv, ProofInv, ProofId, CommitId
<1>15. AggregatorInv'
  <2>1. aggregator.first .. aggregator.last \subseteq Batch
    BY DEF SenderInv, SenderTypeOK
  <2>. QED
    BY <1>1, <1>13, <2>1 DEF SenderInv, AggregatorInv, CommitId, ProofId, Blob
<1>. QED
  BY <1>6, <1>7, <1>9, <1>10, <1>11, <1>12, <1>14, <1>15 DEF SenderInv

\* A step after which the manager is idle and the tables are unchanged.
LEMMA ManagerResetStep ==
    ASSUME SenderInv, UNCHANGED <<dbVars, aged, bitcoin>>, manager' = IdleManager,
           aggregator' \in {aggregator, IdleAggregator},
           budget' \in [evictions : 0 .. MaxEvictions, reorgs : 0 .. MaxReorgs,
                       crashes : 0 .. MaxCrashes]
    PROVE  SenderInv'
<1>1. manager' \in ManagerState /\ TodoInv' /\ RequestInv'
  BY ManagerIdle
<1>2. SenderTypeOK'
  BY <1>1, IdleStates DEF SenderInv, SenderTypeOK, DbTypeOK, dbVars
<1>3. AggregatorInv'
  <2>1. CASE aggregator' = aggregator
    BY <2>1, StableAggregator
  <2>2. CASE aggregator' = IdleAggregator
    BY <2>2 DEF AggregatorInv, IdleAggregator
  <2>. QED
    BY <2>1, <2>2
<1>. QED
  BY <1>1, <1>2, <1>3, StableTables DEF SenderInv

\* What a crash or a failed write leaves of the bound on faults.
LEMMA CrashBudget ==
    ASSUME SenderTypeOK, CrashFault
    PROVE  budget' \in [evictions : 0 .. MaxEvictions, reorgs : 0 .. MaxReorgs,
                       crashes : 0 .. MaxCrashes]
<1>1. budget \in [evictions : 0 .. MaxEvictions, reorgs : 0 .. MaxReorgs,
                 crashes : 0 .. MaxCrashes]
  BY DEF SenderTypeOK
<1>2. budget.crashes - 1 \in 0 .. MaxCrashes
  BY <1>1, SenderAssumption DEF CrashFault
<1>. QED
  BY <1>1, <1>2 DEF CrashFault

\* Every step of the inscription manager.
LEMMA ManagerStepInv ==
    ASSUME SenderInv, ManagerStep
    PROVE  SenderInv'
<1>1. CASE ManagerError \/ CheckUnknownTx
  BY <1>1, ManagerIdle, ManagerOnly DEF ManagerError, CheckUnknownTx
<1>2. CASE InsertHistoryError
  BY <1>2, CrashBudget, ManagerResetStep DEF InsertHistoryError, SenderInv
<1>. QED
  BY <1>1, <1>2, GetInflightStep, CheckTxConfirmationStep, ConfirmInscriptionStep,
     CheckAgeStep, ListNewInscriptionRequestStep, SendNextStep, FetchBlockHeightStep,
     InscribeStep, InsertInscriptionRequestHistoryStep
  DEF ManagerStep

-----------------------------------------------------------------------------
(* The process, time and Bitcoin *)

\* A crash of the process.
LEMMA SenderRestartStep ==
    ASSUME SenderInv, SenderRestart
    PROVE  SenderInv'
BY CrashBudget, ManagerResetStep DEF SenderRestart, SenderInv

\* A batch passes its deadline.
LEMMA AgeStep ==
    ASSUME SenderInv, NEW type \in RequestType, Age(type)
    PROVE  SenderInv'
<1>1. UNCHANGED <<dbVars, aggregator, manager, bitcoin, budget>>
  BY DEF Age
<1>2. aged' \in [RequestType -> 0 .. MaxBatch]
  <2>1. /\ aged \in [RequestType -> 0 .. MaxBatch] /\ sealed \in 0 .. MaxBatch
        /\ aged["commit"] \in 0 .. MaxBatch /\ aged[type] \in 0 .. MaxBatch
    BY DEF SenderInv, SenderTypeOK, DbTypeOK, RequestType
  <2>2. aged[type] + 1 \in 0 .. MaxBatch
    BY <2>1, MaxBatchAssumption DEF Age
  <2>. QED
    BY <2>1, <2>2 DEF Age
<1>3. SenderTypeOK'
  BY <1>1, <1>2 DEF SenderInv, SenderTypeOK, DbTypeOK, dbVars
<1>. QED
  BY <1>1, <1>3, StableTables, StableAggregator, StableManager DEF SenderInv

\* Whatever happens on Bitcoin: the transactions carry what they carried, and one
\* that is deep enough stays so.
LEMMA ChainStep ==
    ASSUME SenderInv, SenderTypeOK',
           UNCHANGED <<upstreamVars, via_data_availability, inscription_request, requests,
                       aggregator>>,
           Len(bitcoin') = Len(bitcoin), Len(history') = Len(history),
           \A t \in 1 .. Len(bitcoin) :
             /\ bitcoin'[t].request = bitcoin[t].request
             /\ bitcoin[t].depth = BlockConfirmations => bitcoin'[t].depth = BlockConfirmations,
           \A h \in 1 .. Len(history) :
             /\ history'[h].request = history[h].request
             /\ history'[h].reveal_tx_id = history[h].reveal_tx_id,
           manager'.pc = manager.pc, manager'.todo = manager.todo,
           manager'.request = manager.request, manager'.history = manager.history,
           manager'.resume = manager.resume, manager'.reveal = manager.reveal
    PROVE  SenderInv'
<1>1. HistoryInv'
  <2>. SUFFICES ASSUME NEW h \in 1 .. Len(history)
                PROVE  /\ history'[h].request \in 1 .. Len(requests)
                       /\ history'[h].reveal_tx_id \in 1 .. Len(bitcoin)
                       /\ bitcoin'[history'[h].reveal_tx_id].request = history'[h].request
    BY DEF HistoryInv
  <2>1. /\ history[h].request \in 1 .. Len(requests)
        /\ history[h].reveal_tx_id \in 1 .. Len(bitcoin)
        /\ bitcoin[history[h].reveal_tx_id].request = history[h].request
    BY DEF SenderInv, HistoryInv
  <2>2. history'[h].request = history[h].request /\ history'[h].reveal_tx_id = history[h].reveal_tx_id
    OBVIOUS
  <2>. QED
    BY <2>1, <2>2, Zenon
<1>3. ASSUME NEW h \in 1 .. Len(history), OnChain(h)
      PROVE  OnChain(h)'
  <2>1. history[h].reveal_tx_id \in 1 .. Len(bitcoin)
    BY DEF SenderInv, HistoryInv
  <2>2. history'[h].reveal_tx_id = history[h].reveal_tx_id
    OBVIOUS
  <2>3. bitcoin[history[h].reveal_tx_id].depth = BlockConfirmations
    BY <1>3 DEF OnChain
  <2>4. bitcoin'[history[h].reveal_tx_id].depth = BlockConfirmations
    BY <2>1, <2>3
  <2>. QED
    BY <2>2, <2>4, Zenon DEF OnChain
<1>4. ConfirmedInv'
  <2>. SUFFICES ASSUME NEW r \in 1 .. Len(requests), requests[r].confirmed # Null
                PROVE  /\ IsLastHistory(r, requests[r].confirmed)'
                       /\ OnChain(requests[r].confirmed)'
    BY DEF ConfirmedInv, Null
  <2>1. IsLastHistory(r, requests[r].confirmed) /\ OnChain(requests[r].confirmed)
    BY DEF SenderInv, ConfirmedInv
  <2>2. requests[r].confirmed \in 1 .. Len(history)
    BY <2>1 DEF IsLastHistory
  <2>3. IsLastHistory(r, requests[r].confirmed)'
    BY <2>1 DEF IsLastHistory
  <2>4. OnChain(requests[r].confirmed)'
    <3>1. bitcoin'[history'[requests[r].confirmed].reveal_tx_id].depth = BlockConfirmations
      BY <1>3, <2>1, <2>2 DEF OnChain
    <3>. QED
      BY <3>1 DEF OnChain
  <2>. QED
    BY <2>3, <2>4
<1>5. TodoInv'
  <2>1. \A r : (InFlight(r) => InFlight(r)') /\ (IsNew(r) => IsNew(r)')
    BY DEF InFlight, IsNew
  <2>. QED
    BY <2>1 DEF SenderInv, TodoInv, InUpdateLoop, InSendLoop, Sends
<1>6. RequestInv'
  <2>1. manager.pc \in {"confirm", "age"} => IsLastHistory(manager.request, manager.history)'
    BY DEF SenderInv, RequestInv, IsLastHistory
  <2>2. manager.pc = "confirm" => OnChain(manager.history)'
    <3>. SUFFICES ASSUME manager.pc = "confirm"
                  PROVE  OnChain(manager.history)'
      OBVIOUS
    <3>1. manager.history \in 1 .. Len(history) /\ OnChain(manager.history)
      BY DEF SenderInv, RequestInv, IsLastHistory
    <3>2. bitcoin'[history'[manager.history].reveal_tx_id].depth = BlockConfirmations
      BY <1>3, <3>1 DEF OnChain
    <3>. QED
      BY <3>2, Zenon DEF OnChain
  <2>. QED
    BY <2>1, <2>2 DEF SenderInv, RequestInv, Sends
<1>7. InclusionInv' /\ CommitInv'
  BY DEF SenderInv, InclusionInv, CommitInv, Included, Blob, CommitId
<1>8. ASSUME NEW b \in Batch, CommitId(b) # Null, requests[CommitId(b)].confirmed # Null
      PROVE  ConfirmedReveal(CommitId(b))' = ConfirmedReveal(CommitId(b))
  <2>1. IsLastHistory(CommitId(b), requests[CommitId(b)].confirmed)
    BY <1>8 DEF SenderInv, CommitInv, ConfirmedInv
  <2>. QED
    BY <2>1 DEF ConfirmedReveal, CommitId, IsLastHistory
<1>9. ProofInv'
  BY <1>8 DEF SenderInv, ProofInv, ProofId, CommitId
<1>10. AggregatorInv'
  <2>1. aggregator.first .. aggregator.last \subseteq Batch
    BY DEF SenderInv, SenderTypeOK
  <2>. QED
    BY <1>8, <2>1 DEF SenderInv, AggregatorInv, CommitId, ProofId, Blob
<1>. QED
  BY <1>1, <1>4, <1>5, <1>6, <1>7, <1>9, <1>10 DEF SenderInv

\* A new depth for every transaction.
LEMMA DepthStep ==
    ASSUME SenderTypeOK, NEW D \in [1 .. Len(bitcoin) -> Gone .. BlockConfirmations],
           bitcoin' = [t \in 1 .. Len(bitcoin) |-> [bitcoin[t] EXCEPT !.depth = D[t]]]
    PROVE  /\ bitcoin' \in Seq([request : Nat, depth : Gone .. BlockConfirmations])
           /\ Len(bitcoin') = Len(bitcoin)
           /\ \A t \in 1 .. Len(bitcoin) :
                bitcoin'[t].request = bitcoin[t].request /\ bitcoin'[t].depth = D[t]
<1>1. Len(bitcoin) \in Nat
  BY Rows
<1>2. \A t \in 1 .. Len(bitcoin) :
        /\ bitcoin[t] \in [request : Nat, depth : Gone .. BlockConfirmations]
        /\ [bitcoin[t] EXCEPT !.depth = D[t]] \in
             [request : Nat, depth : Gone .. BlockConfirmations]
  BY Rows
<1>3. bitcoin' \in [1 .. Len(bitcoin) -> [request : Nat, depth : Gone .. BlockConfirmations]]
  BY <1>2
<1>4. /\ bitcoin' \in Seq([request : Nat, depth : Gone .. BlockConfirmations])
      /\ Len(bitcoin') = Len(bitcoin)
  BY <1>1, <1>3, IsASeq, LenProperties
<1>. QED
  BY <1>2, <1>4

\* A new block.
LEMMA MineBlockStep ==
    ASSUME SenderInv, NEW S \in SUBSET Mempool, MineBlock(S)
    PROVE  SenderInv'
<1> DEFINE D == [t \in 1 .. Len(bitcoin) |->
                  IF t \in S \/ bitcoin[t].depth > 0
                    THEN AddUpTo(bitcoin[t].depth, BlockConfirmations)
                    ELSE bitcoin[t].depth]
           A(h) == AddUpTo(history[h].age, BlockResend)
<1>1. SenderTypeOK
  BY DEF SenderInv
<1>2. D \in [1 .. Len(bitcoin) -> Gone .. BlockConfirmations]
  <2>1. \A t \in 1 .. Len(bitcoin) : bitcoin[t].depth \in Gone .. BlockConfirmations
    BY <1>1, Rows
  <2>2. \A t \in 1 .. Len(bitcoin) :
          AddUpTo(bitcoin[t].depth, BlockConfirmations) \in Gone .. BlockConfirmations
    BY <2>1, SenderAssumption DEF Gone, AddUpTo
  <2>. QED
    BY <2>1, <2>2
<1>3. bitcoin' = [t \in 1 .. Len(bitcoin) |-> [bitcoin[t] EXCEPT !.depth = D[t]]]
  BY DEF MineBlock
<1>4. \A t \in 1 .. Len(bitcoin) :
        bitcoin[t].depth = BlockConfirmations => D[t] = BlockConfirmations
  <2>. SUFFICES ASSUME NEW t \in 1 .. Len(bitcoin), bitcoin[t].depth = BlockConfirmations
                PROVE  D[t] = BlockConfirmations
    OBVIOUS
  <2>1. AddUpTo(BlockConfirmations, BlockConfirmations) = BlockConfirmations
    BY SenderAssumption DEF AddUpTo
  <2>2. D[t] = AddUpTo(bitcoin[t].depth, BlockConfirmations) \/ D[t] = bitcoin[t].depth
    OBVIOUS
  <2>. HIDE DEF D
  <2>. QED
    BY <2>1, <2>2
<1>5. /\ bitcoin' \in Seq([request : Nat, depth : Gone .. BlockConfirmations])
      /\ Len(bitcoin') = Len(bitcoin)
      /\ \A t \in 1 .. Len(bitcoin) :
           bitcoin'[t].request = bitcoin[t].request /\ bitcoin'[t].depth = D[t]
  <2>. HIDE DEF D
  <2>. QED
    BY <1>1, <1>2, <1>3, DepthStep
<1>6. /\ history' \in Seq(History)
      /\ Len(history') = Len(history)
      /\ \A h \in 1 .. Len(history) :
           /\ history'[h].request = history[h].request
           /\ history'[h].reveal_tx_id = history[h].reveal_tx_id
  <2>1. \A h \in 1 .. Len(history) : history[h] \in History /\ A(h) \in Nat
    BY <1>1, Rows, SenderAssumption DEF History, AddUpTo
  <2>2. history' = [h \in 1 .. Len(history) |-> [history[h] EXCEPT !.age = A(h)]]
    BY DEF MineBlock
  <2>. HIDE DEF A
  <2>3. history' \in [1 .. Len(history) -> History]
    BY <2>1, <2>2 DEF History
  <2>4. history' \in Seq(History) /\ Len(history') = Len(history)
    BY <1>1, <2>3, Rows, IsASeq, LenProperties
  <2>. QED
    BY <2>1, <2>2, <2>4 DEF History
<1>7. /\ manager' \in ManagerState
      /\ manager'.pc = manager.pc /\ manager'.todo = manager.todo
      /\ manager'.request = manager.request /\ manager'.history = manager.history
      /\ manager'.resume = manager.resume /\ manager'.reveal = manager.reveal
  <2>1. manager \in ManagerState /\ manager.age \in 0 .. BlockResend
    BY <1>1 DEF SenderTypeOK, ManagerState
  <2>2. AddUpTo(manager.age, BlockResend) \in 0 .. BlockResend
    BY <2>1, SenderAssumption DEF AddUpTo
  <2>3. PICK a \in 0 .. BlockResend : manager' = [manager EXCEPT !.age = a]
    BY <2>1, <2>2 DEF MineBlock
  <2>. QED
    BY <2>1, <2>3 DEF ManagerState
<1>8. UNCHANGED <<upstreamVars, via_data_availability, inscription_request, requests,
                  aged, aggregator, budget>>
  BY DEF MineBlock
<1>9. SenderTypeOK'
  BY <1>1, <1>5, <1>6, <1>7, <1>8 DEF SenderTypeOK, DbTypeOK, upstreamVars
<1>. QED
  <2>. HIDE DEF D
  <2>. QED
    BY <1>4, <1>5, <1>6, <1>7, <1>8, <1>9, ChainStep

\* A reorganisation shallower than block_confirmations.
LEMMA ReorgStep ==
    ASSUME SenderInv, NEW d \in 1 .. BlockConfirmations - 1, Reorg(d)
    PROVE  SenderInv'
<1> DEFINE D == [t \in 1 .. Len(bitcoin) |->
                  IF bitcoin[t].depth \in 1 .. d THEN 0 ELSE bitcoin[t].depth]
<1>1. SenderTypeOK
  BY DEF SenderInv
<1>2. D \in [1 .. Len(bitcoin) -> Gone .. BlockConfirmations]
  BY <1>1, Rows, SenderAssumption DEF Gone
<1>3. bitcoin' = [t \in 1 .. Len(bitcoin) |-> [bitcoin[t] EXCEPT !.depth = D[t]]]
  BY DEF Reorg
<1>4. \A t \in 1 .. Len(bitcoin) :
        bitcoin[t].depth = BlockConfirmations => D[t] = BlockConfirmations
  BY SenderAssumption
<1>5. /\ bitcoin' \in Seq([request : Nat, depth : Gone .. BlockConfirmations])
      /\ Len(bitcoin') = Len(bitcoin)
      /\ \A t \in 1 .. Len(bitcoin) :
           bitcoin'[t].request = bitcoin[t].request /\ bitcoin'[t].depth = D[t]
  <2>. HIDE DEF D
  <2>. QED
    BY <1>1, <1>2, <1>3, DepthStep
<1>6. budget' \in [evictions : 0 .. MaxEvictions, reorgs : 0 .. MaxReorgs,
                  crashes : 0 .. MaxCrashes]
  <2>1. budget \in [evictions : 0 .. MaxEvictions, reorgs : 0 .. MaxReorgs,
                   crashes : 0 .. MaxCrashes]
    BY <1>1 DEF SenderTypeOK
  <2>2. budget.reorgs > 0
    BY DEF Reorg
  <2>3. budget.reorgs - 1 \in 0 .. MaxReorgs
    BY <2>1, <2>2, SenderAssumption
  <2>. QED
    BY <2>1, <2>3 DEF Reorg
<1>7. UNCHANGED <<dbVars, aged, aggregator, manager>>
  BY DEF Reorg
<1>8. SenderTypeOK'
  BY <1>1, <1>5, <1>6, <1>7 DEF SenderTypeOK, DbTypeOK, dbVars
<1>. QED
  <2>. HIDE DEF D
  <2>. QED
    BY <1>4, <1>5, <1>7, <1>8, ChainStep DEF dbVars, upstreamVars

\* A transaction that leaves the mempool was not confirmed.
LEMMA EvictStep ==
    ASSUME SenderInv, NEW t \in 1 .. Len(bitcoin), Evict(t)
    PROVE  SenderInv'
<1> DEFINE D == [u \in 1 .. Len(bitcoin) |-> IF u = t THEN Gone ELSE bitcoin[u].depth]
<1>1. SenderTypeOK
  BY DEF SenderInv
<1>2. D \in [1 .. Len(bitcoin) -> Gone .. BlockConfirmations]
  BY <1>1, Rows, SenderAssumption DEF Gone
<1>3. bitcoin' = [u \in 1 .. Len(bitcoin) |-> [bitcoin[u] EXCEPT !.depth = D[u]]]
  <2>1. \A u \in 1 .. Len(bitcoin) :
          bitcoin[u] \in [request : Nat, depth : Gone .. BlockConfirmations]
    BY <1>1, Rows
  <2>2. bitcoin = [u \in 1 .. Len(bitcoin) |-> bitcoin[u]]
    BY <1>1, LenProperties DEF SenderTypeOK
  <2>. QED
    BY <2>1, <2>2 DEF Evict
<1>4. \A u \in 1 .. Len(bitcoin) :
        bitcoin[u].depth = BlockConfirmations => D[u] = BlockConfirmations
  BY SenderAssumption DEF Evict, Mempool
<1>5. /\ bitcoin' \in Seq([request : Nat, depth : Gone .. BlockConfirmations])
      /\ Len(bitcoin') = Len(bitcoin)
      /\ \A u \in 1 .. Len(bitcoin) :
           bitcoin'[u].request = bitcoin[u].request /\ bitcoin'[u].depth = D[u]
  <2>. HIDE DEF D
  <2>. QED
    BY <1>1, <1>2, <1>3, DepthStep
<1>6. budget' \in [evictions : 0 .. MaxEvictions, reorgs : 0 .. MaxReorgs,
                  crashes : 0 .. MaxCrashes]
  <2>1. budget \in [evictions : 0 .. MaxEvictions, reorgs : 0 .. MaxReorgs,
                   crashes : 0 .. MaxCrashes]
    BY <1>1 DEF SenderTypeOK
  <2>2. budget.evictions - 1 \in 0 .. MaxEvictions
    BY <2>1, SenderAssumption, SMTT(30) DEF Evict
  <2>. QED
    BY <2>1, <2>2 DEF Evict
<1>7. UNCHANGED <<dbVars, aged, aggregator, manager>>
  BY DEF Evict
<1>8. SenderTypeOK'
  BY <1>1, <1>5, <1>6, <1>7 DEF SenderTypeOK, DbTypeOK, dbVars
<1>. QED
  <2>. HIDE DEF D
  <2>. QED
    BY <1>4, <1>5, <1>7, <1>8, ChainStep DEF dbVars, upstreamVars

\* Whatever the other tasks write: a blob id that is stored stays.
LEMMA DaTablesStep ==
    ASSUME SenderInv, DbTypeOK', InclusionInv',
           UNCHANGED <<inscription_request, requests, history, senderVars>>,
           \A b \in Batch : Blob("batch", b) # Null => Blob("batch", b)' = Blob("batch", b)
    PROVE  SenderInv'
<1>1. SenderTypeOK'
  BY DEF SenderInv, SenderTypeOK, senderVars
<1>2. HistoryInv' /\ ConfirmedInv'
  BY DEF SenderInv, HistoryInv, ConfirmedInv, IsLastHistory, OnChain, senderVars
<1>3. TodoInv' /\ RequestInv'
  BY DEF SenderInv, TodoInv, RequestInv, InUpdateLoop, InSendLoop, Sends, InFlight, IsNew,
         IsLastHistory, OnChain, senderVars
<1>4. CommitInv'
  BY DEF SenderInv, CommitInv, CommitId
<1>5. ProofInv'
  BY DEF SenderInv, ProofInv, ProofId, CommitId, ConfirmedReveal
<1>6. AggregatorInv'
  <2>1. aggregator.first .. aggregator.last \subseteq Batch
    BY DEF SenderInv, SenderTypeOK
  <2>. QED
    BY <2>1 DEF SenderInv, AggregatorInv, CommitId, ProofId, ConfirmedReveal, senderVars
<1>. QED
  BY <1>1, <1>2, <1>3, <1>4, <1>5, <1>6 DEF SenderInv

\* Every step of the tasks that fill the DA tables.
LEMMA DaStepInv ==
    ASSUME SenderInv, DaStep
    PROVE  SenderInv'
<1>1. /\ DbTypeOK /\ InclusionInv
      /\ UNCHANGED <<inscription_request, requests, history, senderVars>>
  BY DEF SenderInv, SenderTypeOK, DaStep
<1>2. CASE SealL1Batch \/ SaveL1BatchCommitmentArtifacts
  <2>1. UNCHANGED via_data_availability
    BY <1>2 DEF SealL1Batch, SaveL1BatchCommitmentArtifacts
  <2>2. sealed' \in 0 .. MaxBatch /\ commitments' \in 0 .. sealed' /\ generated' = generated
    BY <1>1, <1>2, MaxBatchAssumption
    DEF SealL1Batch, SaveL1BatchCommitmentArtifacts, DbTypeOK
  <2>3. DbTypeOK'
    BY <1>1, <2>1, <2>2 DEF DbTypeOK
  <2>4. InclusionInv' /\ \A b \in Batch : Blob("batch", b)' = Blob("batch", b)
    BY <1>1, <2>1 DEF InclusionInv, Included, Blob
  <2>. QED
    BY <1>1, <2>3, <2>4, DaTablesStep
<1>3. ASSUME NEW b \in Batch, NEW k \in Kind, NEW id \in Nat, Blob(k, b) = Null,
             InsertDa(k, b, id), UNCHANGED upstreamVars
      PROVE  SenderInv'
  <2>1. /\ via_data_availability \in [Kind -> [Batch -> DaRow]]
        /\ via_data_availability' = [via_data_availability EXCEPT ![k][b].blob_id = id]
    BY <1>1, <1>3 DEF InsertDa, Blob, DbTypeOK, DaRow, Null
  <2>2. via_data_availability' \in [Kind -> [Batch -> DaRow]]
    BY <2>1 DEF DaRow
  <2>3. DbTypeOK'
    BY <1>1, <1>3, <2>2 DEF DbTypeOK, upstreamVars
  <2>4. \A c \in Batch : /\ Included("batch", c)' = Included("batch", c)
                         /\ Blob("batch", c) # Null => Blob("batch", c)' = Blob("batch", c)
    BY <1>3, <2>1 DEF Included, Blob, Kind, DaRow
  <2>5. InclusionInv'
    <3>1. \A c \in Batch : 1 .. c - 1 \subseteq Batch
      BY MaxBatchAssumption DEF Batch
    <3>. QED
      BY <1>1, <2>4, <3>1 DEF InclusionInv
  <2>. QED
    BY <1>1, <2>3, <2>4, <2>5, DaTablesStep
<1>4. CASE \E b \in Batch : PublishBatch(b) \/ PublishProof(b)
  BY <1>3, <1>4, PromiseAssumption DEF PublishBatch, PublishProof, Kind, upstreamVars
<1>5. ASSUME NEW b \in Batch, IncludeBatch(b)
      PROVE  SenderInv'
  <2>1. PICK data \in InclusionProof : SaveInclusionData("batch", b, data)
    BY <1>5 DEF IncludeBatch
  <2>2. /\ via_data_availability \in [Kind -> [Batch -> DaRow]]
        /\ data \in InclusionData /\ data # "null"
        /\ via_data_availability' =
             [via_data_availability EXCEPT !["batch"][b].inclusion_data = data]
    BY <1>1, <1>5, <2>1, PromiseAssumption
    DEF IncludeBatch, SaveInclusionData, Included, DbTypeOK
  <2>3. via_data_availability' \in [Kind -> [Batch -> DaRow]]
    <3>1. "batch" \in Kind /\ via_data_availability["batch"][b] \in DaRow
      BY <2>2 DEF Kind
    <3>2. [via_data_availability["batch"][b] EXCEPT !.inclusion_data = data] \in DaRow
      BY <2>2, <3>1 DEF DaRow
    <3>. QED
      BY <2>2, <3>1, <3>2
  <2>4. DbTypeOK'
    BY <1>1, <1>5, <2>3 DEF DbTypeOK, IncludeBatch
  <2>5. \A c \in Batch : /\ Included("batch", c)' <=> (c = b \/ Included("batch", c))
                         /\ Blob("batch", c)' = Blob("batch", c)
    BY <2>2 DEF Included, Blob, Kind, DaRow
  <2>6. InclusionInv'
    <3>1. \A c \in Batch : 1 .. c - 1 \subseteq Batch
      BY MaxBatchAssumption DEF Batch
    <3>2. Blob("batch", b) # Null /\ \A c \in 1 .. b - 1 : Included("batch", c)
      BY <1>5 DEF IncludeBatch
    <3>. QED
      BY <1>1, <2>5, <3>1, <3>2 DEF InclusionInv
  <2>. QED
    BY <1>1, <2>4, <2>5, <2>6, DaTablesStep
<1>. QED
  BY <1>2, <1>4, <1>5 DEF DaStep

-----------------------------------------------------------------------------
(* The invariant *)

\* The empty tables satisfy the invariant.
LEMMA SenderInitInv ==
    BtcInit => SenderInv
<1>. SUFFICES ASSUME BtcInit PROVE SenderInv
  OBVIOUS
<1>. USE DEF BtcInit, DbInit, SenderInit
<1>1. 1 .. Len(requests) = {} /\ 1 .. Len(history) = {}
  OBVIOUS
<1>2. DbTypeOK
  <2>1. via_data_availability \in [Kind -> [Batch -> DaRow]]
    BY DEF DaRow, InclusionData, Null
  <2>2. inscription_request \in [Batch -> [commit_id : Nat, proof_id : Nat]]
    BY DEF Null
  <2>3. /\ sealed \in 0 .. MaxBatch /\ commitments \in 0 .. sealed /\ generated \in SUBSET Batch
        /\ requests \in Seq(Request) /\ history \in Seq(History)
    <3>1. /\ sealed = 0 /\ commitments = 0 /\ generated = {}
          /\ requests = << >> /\ history = << >>
      OBVIOUS
    <3>. HIDE DEF BtcInit, DbInit, SenderInit
    <3>. QED
      BY <3>1, MaxBatchAssumption
  <2>. HIDE DEF BtcInit, DbInit, SenderInit
  <2>. QED
    BY <2>1, <2>2, <2>3 DEF DbTypeOK
<1>3. SenderTypeOK
  <2>0. /\ aged = [t \in RequestType |-> 0] /\ bitcoin = << >>
        /\ aggregator = IdleAggregator /\ manager = IdleManager
        /\ budget = [evictions |-> MaxEvictions, reorgs |-> MaxReorgs, crashes |-> MaxCrashes]
    OBVIOUS
  <2>. HIDE DEF BtcInit, DbInit, SenderInit
  <2>1. aged \in [RequestType -> 0 .. MaxBatch]
    BY <2>0, MaxBatchAssumption
  <2>2. /\ aggregator \in AggregatorState /\ manager \in ManagerState
        /\ aggregator.first .. aggregator.last \subseteq Batch
    BY <2>0, IdleStates
  <2>3. bitcoin \in Seq([request : Nat, depth : Gone .. BlockConfirmations])
    BY <2>0
  <2>4. budget \in [evictions : 0 .. MaxEvictions, reorgs : 0 .. MaxReorgs,
                    crashes : 0 .. MaxCrashes]
    BY <2>0, SenderAssumption
  <2>. QED
    BY <1>2, <2>1, <2>2, <2>3, <2>4 DEF SenderTypeOK
<1>4. HistoryInv /\ ConfirmedInv
  BY <1>1, Zenon DEF HistoryInv, ConfirmedInv
<1>5. TodoInv /\ RequestInv /\ AggregatorInv
  BY DEF TodoInv, RequestInv, AggregatorInv, InUpdateLoop, InSendLoop, Sends,
         IdleManager, IdleAggregator
<1>6. InclusionInv /\ CommitInv /\ ProofInv
  BY DEF InclusionInv, CommitInv, ProofInv, Included, CommitId, ProofId, Kind
<1>. QED
  BY <1>3, <1>4, <1>5, <1>6 DEF SenderInv

\* The invariant is inductive.
LEMMA SenderNextInv ==
    SenderInv /\ [BtcNext]_btcVars => SenderInv'
<1>. SUFFICES ASSUME SenderInv, [BtcNext]_btcVars PROVE SenderInv'
  OBVIOUS
<1>1. CASE UNCHANGED btcVars
  <2>1. SenderTypeOK'
    BY <1>1 DEF SenderInv, SenderTypeOK, DbTypeOK, btcVars, dbVars, senderVars
  <2>. QED
    BY <1>1, <2>1, StableTables, StableAggregator, StableManager
    DEF SenderInv, btcVars, senderVars
<1>2. CASE BitcoinStep
  BY <1>2, MineBlockStep, ReorgStep, EvictStep DEF BitcoinStep
<1>3. CASE SenderStep
  BY <1>2, <1>3, AggregatorStepInv, ManagerStepInv, SenderRestartStep, AgeStep DEF SenderStep
<1>. QED
  BY <1>1, <1>3, DaStepInv DEF BtcNext

\* Every reachable state of the two tasks, the tables and Bitcoin satisfies SenderInv.
THEOREM SenderInvariant == BtcSpec => []SenderInv
<1>. QED
  BY SenderInitInv, SenderNextInv, PTL DEF BtcSpec

\* The state of the aggregator, the manager and the tables they share is always
\* well-formed; in particular an operation never has a batch that does not exist.
THEOREM SenderTypeCorrect == BtcSpec => []SenderTypeOK
<1>1. SenderInv => SenderTypeOK
  BY DEF SenderInv
<1>. QED
  BY <1>1, SenderInvariant, PTL

\* loop_iteration of the inscription aggregator queues the commit requests in batch
\* order without a gap, for any limits and any interleaving, failure or crash.
THEOREM CommitsAreInOrder == BtcSpec => []CommitRequestsInOrder
<1>1. SenderInv => CommitRequestsInOrder
  <2>. SUFFICES ASSUME SenderInv PROVE CommitRequestsInOrder
    OBVIOUS
  <2>1. CommitInv /\ Len(requests) \in Nat
    BY Rows DEF SenderInv
  <2>2. \A r \in 1 .. Len(requests) : r <= Len(requests)
    BY <2>1
  <2>. QED
    BY <2>1, <2>2, Zenon DEF CommitInv, CommitRequestsInOrder
<1>. QED
  BY <1>1, SenderInvariant, PTL

\* A proof message built by construct_inscription_message names the transaction that
\* confirmed the commit of its batch.
THEOREM ProofsReferenceConfirmedCommits == BtcSpec => []ProofReferencesConfirmedCommit
<1>1. SenderInv => ProofReferencesConfirmedCommit
  BY DEF SenderInv, ProofInv, ProofReferencesConfirmedCommit
<1>. QED
  BY <1>1, SenderInvariant, PTL

\* What update_inscription_status_or_resend confirms is, and stays, on the chain.
THEOREM ConfirmedRequestsAreOnChain == BtcSpec => []ConfirmedIsOnChain
<1>1. SenderInv => ConfirmedIsOnChain
  BY DEF SenderInv, ConfirmedInv, HistoryInv, IsLastHistory, OnChain, ConfirmedReveal,
         ConfirmedIsOnChain
<1>. QED
  BY <1>1, SenderInvariant, PTL

-----------------------------------------------------------------------------
(* Action properties *)

\* Only Inscribe adds a transaction to Bitcoin.
LEMMA OnlyInscribeBroadcasts ==
    ASSUME SenderInv, [BtcNext]_btcVars, ~Inscribe
    PROVE  \A t \in 1 .. Len(bitcoin') : ~(t > Len(bitcoin))
<1>1. bitcoin \in Seq([request : Nat, depth : Gone .. BlockConfirmations])
      /\ bitcoin' \in Seq([request : Nat, depth : Gone .. BlockConfirmations])
  BY SenderNextInv DEF SenderInv, SenderTypeOK
<1>2. /\ Len(bitcoin) \in Nat /\ DOMAIN bitcoin = 1 .. Len(bitcoin)
      /\ Len(bitcoin') \in Nat /\ DOMAIN bitcoin' = 1 .. Len(bitcoin')
  BY <1>1, LenProperties
<1>3. UNCHANGED bitcoin \/ DOMAIN bitcoin' = 1 .. Len(bitcoin)
  <2>1. CASE BitcoinStep
    <3>1. CASE \E S \in SUBSET Mempool : MineBlock(S)
      BY <3>1 DEF MineBlock
    <3>2. CASE \E d \in 1 .. BlockConfirmations - 1 : Reorg(d)
      BY <3>2 DEF Reorg
    <3>3. CASE \E t \in 1 .. Len(bitcoin) : Evict(t)
      BY <1>2, <3>3 DEF Evict
    <3>. QED
      BY <2>1, <3>1, <3>2, <3>3 DEF BitcoinStep
  <2>2. CASE AggregatorStep \/ SenderRestart \/ \E type \in RequestType : Age(type)
    BY <2>2 DEF AggregatorStep, GetCommitProofOperation, GetCommitL1BatchOperation,
                SaveOperation, AggregatorError, SenderRestart, Age
  <2>3. CASE ManagerStep
    BY <2>3 DEF ManagerStep, GetInflight, CheckTxConfirmation, CheckUnknownTx,
                ConfirmInscription, CheckAge, UpdateDone, ListNewInscriptionRequest, SendNext,
                FetchBlockHeight, InsertInscriptionRequestHistory, ManagerError,
                InsertHistoryError
  <2>4. CASE DaStep \/ UNCHANGED btcVars
    BY <2>4 DEF DaStep, btcVars, senderVars
  <2>. QED
    BY <2>1, <2>2, <2>3, <2>4 DEF BtcNext, SenderStep
<1>. QED
  <2>1. CASE UNCHANGED bitcoin
    BY <1>2, <2>1
  <2>2. CASE DOMAIN bitcoin' = 1 .. Len(bitcoin)
    BY <1>2, <2>2
  <2>. QED
    BY <1>3, <2>1, <2>2

\* send_inscription_tx never broadcasts a request that is already confirmed.
THEOREM ConfirmedRequestsAreNotResent == BtcSpec => ConfirmedIsNotResent
<1> DEFINE NotResent == \A t \in 1 .. Len(bitcoin') : t > Len(bitcoin) =>
                          requests[bitcoin'[t].request].confirmed = Null
<1>1. SenderInv /\ [BtcNext]_btcVars => NotResent
  <2>. SUFFICES ASSUME SenderInv, [BtcNext]_btcVars,
                       NEW t \in 1 .. Len(bitcoin'), t > Len(bitcoin)
                PROVE  requests[bitcoin'[t].request].confirmed = Null
    OBVIOUS
  <2>1. Inscribe
    BY OnlyInscribeBroadcasts
  <2>2. /\ Len(bitcoin') = Len(bitcoin) + 1 /\ Len(bitcoin) \in Nat
        /\ bitcoin'[Len(bitcoin) + 1].request = manager.request
    BY <2>1, AppendProperties, Rows DEF Inscribe, SenderInv, SenderTypeOK
  <2>3. requests[manager.request].confirmed = Null
    BY <2>1 DEF Inscribe, SenderInv, RequestInv
  <2>. QED
    BY <2>2, <2>3
<1>. HIDE DEF NotResent
<1>2. SenderInv /\ [BtcNext]_btcVars => [NotResent]_btcVars
  BY <1>1
<1>3. BtcSpec => [][NotResent]_btcVars
  BY <1>2, SenderInvariant, PTL DEF BtcSpec
<1>. QED
  BY <1>3 DEF NotResent, ConfirmedIsNotResent

=============================================================================
