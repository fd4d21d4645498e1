----------------------------- MODULE BtcSender -----------------------------
(***************************************************************************)
(* The two tasks that put L1 batches on Bitcoin (via_btc_sender):          *)
(*   - the inscription aggregator reads the batches that are ready, proof  *)
(*     messages before commit messages, and queues one inscription request *)
(*     per batch in one database transaction;                              *)
(*   - the inscription manager confirms or re-sends what is in flight and  *)
(*     then sends new requests, at most max_txs_in_flight at a time.       *)
(* Each step between two awaits is an action; both tasks run concurrently, *)
(* any call may fail and the process may crash: an iteration then ends and *)
(* what was not stored is lost.                                            *)
(*                                                                         *)
(* Bitcoin is external: bitcoin[t] is the reveal transaction t with its    *)
(* depth - Gone when the node does not know it (any more), 0 in the        *)
(* mempool, otherwise its number of confirmations, counted up to           *)
(* BlockConfirmations.  Likewise history[h].age is the number of blocks    *)
(* since sent_at_block, counted up to BlockResend.  The DA tables are      *)
(* filled as DaPromise says.                                               *)
(***************************************************************************)
EXTENDS DaPromise, PublishCriteria

CONSTANTS
    MaxAggregatedBlocksToCommit,   \* max_aggregated_blocks_to_commit
    MaxAggregatedProofsToCommit,   \* max_aggregated_proofs_to_commit
    MaxTxsInFlight,                \* max_txs_in_flight
    BlockConfirmations,            \* block_confirmations; 0 acts like 1, since
                                   \* no confirmations at all are never enough
    BlockResend,                   \* BLOCK_RESEND
    PromptMining,                  \* a block takes the whole mempool, and at most one
                                   \* is found between two calls of the manager
    MaxEvictions,                  \* bound: transactions dropped by the mempool
    MaxReorgs,                     \* bound: chain reorganisations
    MaxTxs,                        \* bound: broadcast transactions
    MaxCrashes                     \* bound: crashes and failed writes

ASSUME SenderAssumption ==
    /\ MaxAggregatedBlocksToCommit \in Nat
    /\ MaxAggregatedProofsToCommit \in Nat
    /\ MaxTxsInFlight \in Nat
    /\ BlockConfirmations \in Nat \ {0}
    /\ BlockResend \in Nat
    /\ PromptMining \in BOOLEAN
    /\ MaxEvictions \in Nat /\ MaxReorgs \in Nat
    /\ MaxTxs \in Nat /\ MaxCrashes \in Nat

VARIABLES
    aged,         \* [RequestType -> Nat]: batches 1 .. aged[t] are past the deadline
    aggregator,   \* local state of the inscription aggregator
    manager,      \* local state of the inscription manager
    bitcoin,      \* reveal transactions broadcast so far
    budget        \* what is left of the bounds on faults

senderVars == <<aged, aggregator, manager, bitcoin, budget>>
btcVars == <<dbVars, senderVars>>

Gone == -1

\* What an operation knows of its batches: the blob id and, for a proof, the
\* reveal transaction of the batch's commit inscription.
Detail == [blob_id : Nat, reveal_tx_id : Nat]
NoDetail == [blob_id |-> Null, reveal_tx_id |-> Null]

IdleAggregator == [pc |-> "idle", type |-> "commit", first |-> 1, last |-> 0,
                   details |-> [b \in Batch |-> NoDetail]]
\* age is the number of blocks since the call whose answer is to be used next:
\* check_tx_confirmation at "age", sent_at_block at "send" and "record".
IdleManager == [pc |-> "idle", todo |-> {}, request |-> Null, history |-> Null,
                resume |-> "idle", reveal |-> Null, age |-> 0]

AggregatorState ==
    [pc : {"idle", "commits", "write", "panicked"}, type : RequestType,
     first : Nat, last : Nat, details : [Batch -> Detail]]
ManagerState ==
    [pc : {"idle", "update", "confirm", "age", "fetch", "send", "record", "new", "sendnew"},
     todo : SUBSET Nat, request : Nat, history : Nat,
     resume : {"idle", "update", "sendnew"}, reveal : Nat, age : 0 .. BlockResend]

SenderTypeOK ==
    /\ DbTypeOK
    /\ aged \in [RequestType -> 0 .. MaxBatch]
    /\ aggregator \in AggregatorState
    /\ aggregator.first .. aggregator.last \subseteq Batch
    /\ manager \in ManagerState
    /\ bitcoin \in Seq([request : Nat, depth : Gone .. BlockConfirmations])
    /\ budget \in [evictions : 0 .. MaxEvictions, reorgs : 0 .. MaxReorgs,
                   crashes : 0 .. MaxCrashes]

SenderInit ==
    /\ aged = [t \in RequestType |-> 0]
    /\ aggregator = IdleAggregator
    /\ manager = IdleManager
    /\ bitcoin = << >>
    /\ budget = [evictions |-> MaxEvictions, reorgs |-> MaxReorgs, crashes |-> MaxCrashes]

CrashFault == budget.crashes > 0 /\ budget' = [budget EXCEPT !.crashes = @ - 1]

-----------------------------------------------------------------------------
(* The inscription aggregator *)

Limits == [commit |-> MaxAggregatedBlocksToCommit, proof |-> MaxAggregatedProofsToCommit]

\* The rows of the query that get_commit_..._operation makes.
ReadyList(type) ==
    Limit(IF type = "commit" THEN ReadyForCommitL1Batches ELSE ReadyForCommitProofL1Batches,
          Limits[type])

Subrange(type) == ExtractReadySubrange(ReadyList(type), Limits[type], 1 .. aged[type])

\* The first transaction sent for the commit, not the last.
BugDetailOf(type, b) ==
    IF type = "commit"
      THEN [blob_id |-> Blob("batch", b), reveal_tx_id |-> Null]
      ELSE [blob_id |-> Blob("proof", b),
            reveal_tx_id |-> history[Min(HistoryOf(CommitId(b)))].reveal_tx_id]

\* The columns of a row that the message is made of.
DetailOf(type, b) ==
    IF type = "commit"
      THEN [blob_id |-> Blob("batch", b), reveal_tx_id |-> Null]
      ELSE [blob_id |-> Blob("proof", b),
            reveal_tx_id |-> history[LastHistory(CommitId(b))].reveal_tx_id]

\* The operation for the extracted rows, which are consecutive.
Operation(type) ==
    [pc |-> "write", type |-> type,
     first |-> Min(Subrange(type)), last |-> Max(Subrange(type)),
     details |-> [b \in Batch |-> IF b \in Subrange(type) THEN DetailOf(type, b) ELSE NoDetail]]

\* One query of get_next_ready_operation; otherwise is where it goes on when
\* there is nothing to publish.
ReadOperation(type, otherwise) ==
    aggregator' = IF ~Sequential(ReadyList(type))
                    THEN [IdleAggregator EXCEPT !.pc = "panicked"]
                    ELSE IF Subrange(type) = {}
                           THEN [IdleAggregator EXCEPT !.pc = otherwise]
                           ELSE Operation(type)

GetCommitProofOperation ==
    /\ aggregator.pc = "idle"
    /\ ReadOperation("proof", "commits")
    /\ UNCHANGED <<dbVars, aged, manager, bitcoin, budget>>

GetCommitL1BatchOperation ==
    /\ aggregator.pc = "commits"
    /\ ReadOperation("commit", "idle")
    /\ UNCHANGED <<dbVars, aged, manager, bitcoin, budget>>

\* construct_inscription_message: a commit message carries the batch and its
\* blob, a proof message the commit's reveal transaction and the proof blob.
InscriptionMessage(b) ==
    [type |-> aggregator.type,
     batch |-> IF aggregator.type = "commit" THEN b ELSE Null,
     blob_id |-> aggregator.details[b].blob_id,
     reveal_tx_id |-> aggregator.details[b].reveal_tx_id,
     confirmed |-> Null]

\* insert_l1_batch_inscription_request_id affects no row when this is false.
Linkable(b) ==
    IF aggregator.type = "commit"
      THEN CommitId(b) = Null
      ELSE CommitId(b) # Null /\ ProofId(b) = Null

\* All batches of the operation are linked to its first request.
BugLinked(b) ==
    IF aggregator.type = "commit"
      THEN [commit_id |-> Len(requests) + 1, proof_id |-> Null]
      ELSE [commit_id |-> CommitId(b), proof_id |-> Len(requests) + 1]

\* The ids of batch b after its new request has been linked.
Linked(b) ==
    LET id == Len(requests) + (b - aggregator.first) + 1
    IN IF aggregator.type = "commit"
         THEN [commit_id |-> id, proof_id |-> Null]
         ELSE [commit_id |-> CommitId(b), proof_id |-> id]

\* The link is written after the loop, for the last batch only.
BugSaveOperation ==
    /\ aggregator.pc = "write"
    /\ \A b \in aggregator.first .. aggregator.last : Linkable(b)
    /\ requests' = requests \o
         [i \in 1 .. (aggregator.last - aggregator.first + 1) |->
             InscriptionMessage(aggregator.first + i - 1)]
    /\ inscription_request' = [inscription_request EXCEPT ![aggregator.last] = Linked(aggregator.last)]
    /\ aggregator' = IdleAggregator
    /\ UNCHANGED <<upstreamVars, via_data_availability, history, aged, manager,
                   bitcoin, budget>>

\* The transaction: a request and a link for each batch of the operation.
SaveOperation ==
    /\ aggregator.pc = "write"
    /\ \A b \in aggregator.first .. aggregator.last : Linkable(b)
    /\ requests' = requests \o
         [i \in 1 .. (aggregator.last - aggregator.first + 1) |->
             InscriptionMessage(aggregator.first + i - 1)]
    /\ inscription_request' =
         [b \in Batch |-> IF b \in aggregator.first .. aggregator.last
                            THEN Linked(b) ELSE inscription_request[b]]
    /\ aggregator' = IdleAggregator
    /\ UNCHANGED <<upstreamVars, via_data_availability, history, aged, manager,
                   bitcoin, budget>>

\* A query, the fee estimate or the transaction failed: nothing is written.  (A
\* failed query makes no difference when there was nothing to find.)
AggregatorError ==
    /\ \/ aggregator.pc = "write"
       \/ aggregator.pc = "commits" /\ Subrange("commit") # {}
    /\ aggregator' = IdleAggregator
    /\ UNCHANGED <<dbVars, aged, manager, bitcoin, budget>>

AggregatorStep ==
    GetCommitProofOperation \/ GetCommitL1BatchOperation \/ SaveOperation \/ AggregatorError

-----------------------------------------------------------------------------
(* The inscription manager *)

ManagerRest == <<upstreamVars, via_data_availability, inscription_request, aged,
                 aggregator, budget>>

\* update_inscription_status_or_resend reads what is in flight.
GetInflight ==
    /\ manager.pc = "idle"
    /\ manager' = [IdleManager EXCEPT !.pc = "update", !.todo = InflightInscriptions]
    /\ UNCHANGED <<requests, history, bitcoin, ManagerRest>>

\* One confirmation is taken for enough.
BugCheckTxConfirmation ==
    /\ manager.pc = "update"
    /\ manager.todo # {}
    /\ LET r == Min(manager.todo)
           h == LastHistory(r)
           depth == bitcoin[history[h].reveal_tx_id].depth
       IN /\ depth # Gone
          /\ manager' = [manager EXCEPT
                !.pc = IF depth > 0 THEN "confirm" ELSE "age",
                !.request = r, !.history = h, !.todo = @ \ {r}]
    /\ UNCHANGED <<requests, history, bitcoin, ManagerRest>>

\* check_tx_confirmation of the last transaction sent for the request.
CheckTxConfirmation ==
    /\ manager.pc = "update"
    /\ manager.todo # {}
    /\ LET r == Min(manager.todo)
           h == LastHistory(r)
           depth == bitcoin[history[h].reveal_tx_id].depth
       IN /\ depth # Gone
          /\ manager' = [manager EXCEPT
                !.pc = IF depth >= BlockConfirmations THEN "confirm" ELSE "age",
                !.request = r, !.history = h, !.todo = @ \ {r}]
    /\ UNCHANGED <<requests, history, bitcoin, ManagerRest>>

\* The call fails when the node does not know the transaction; the iteration ends.
UnknownTx ==
    /\ manager.pc = "update"
    /\ manager.todo # {}
    /\ bitcoin[history[LastHistory(Min(manager.todo))].reveal_tx_id].depth = Gone

CheckUnknownTx ==
    /\ UnknownTx
    /\ manager' = IdleManager
    /\ UNCHANGED <<requests, history, bitcoin, ManagerRest>>

ConfirmInscription ==
    /\ manager.pc = "confirm"
    /\ requests' = [requests EXCEPT ![manager.request].confirmed = manager.history]
    /\ manager' = [IdleManager EXCEPT !.pc = "update", !.todo = manager.todo]
    /\ UNCHANGED <<history, bitcoin, ManagerRest>>

\* The block of the broadcast counts as well.
BugCheckAge ==
    /\ manager.pc = "age"
    /\ manager' = IF history[manager.history].age + 1 < BlockResend
                    THEN [IdleManager EXCEPT !.pc = "update", !.todo = manager.todo]
                    ELSE [manager EXCEPT !.pc = "fetch", !.resume = "update"]
    /\ UNCHANGED <<requests, history, bitcoin, ManagerRest>>

\* Not confirmed: leave it alone until BLOCK_RESEND blocks have passed.
CheckAge ==
    /\ manager.pc = "age"
    /\ manager' = IF history[manager.history].age < BlockResend
                    THEN [IdleManager EXCEPT !.pc = "update", !.todo = manager.todo]
                    ELSE [manager EXCEPT !.pc = "fetch", !.resume = "update"]
    /\ UNCHANGED <<requests, history, bitcoin, ManagerRest>>

UpdateDone ==
    /\ manager.pc = "update"
    /\ manager.todo = {}
    /\ manager' = [IdleManager EXCEPT !.pc = "new"]
    /\ UNCHANGED <<requests, history, bitcoin, ManagerRest>>

\* The slots in use are not subtracted.
BugListNewInscriptionRequestAll ==
    /\ manager.pc = "new"
    /\ manager' = [IdleManager EXCEPT !.pc = "sendnew",
                     !.todo = Limit(NewInscriptionRequests, MaxTxsInFlight)]
    /\ UNCHANGED <<requests, history, bitcoin, ManagerRest>>

\* send_new_inscription_txs: as many new requests as there are free slots.
ListNewInscriptionRequest ==
    /\ manager.pc = "new"
    /\ manager' = [IdleManager EXCEPT !.pc = "sendnew",
                     !.todo = Limit(NewInscriptionRequests,
                                    MaxTxsInFlight - Cardinality(InflightInscriptions))]
    /\ UNCHANGED <<requests, history, bitcoin, ManagerRest>>

SendNext ==
    /\ manager.pc = "sendnew"
    /\ manager' = IF manager.todo = {}
                    THEN IdleManager
                    ELSE [manager EXCEPT !.pc = "fetch", !.request = Min(manager.todo),
                                         !.resume = "sendnew", !.todo = @ \ {Min(manager.todo)}]
    /\ UNCHANGED <<requests, history, bitcoin, ManagerRest>>

\* send_inscription_tx: sent_at_block, then the broadcast, then the history row.
FetchBlockHeight ==
    /\ manager.pc = "fetch"
    /\ manager' = [manager EXCEPT !.pc = "send", !.age = 0]
    /\ UNCHANGED <<requests, history, bitcoin, ManagerRest>>

Inscribe ==
    /\ manager.pc = "send"
    /\ Len(bitcoin) < MaxTxs
    /\ bitcoin' = Append(bitcoin, [request |-> manager.request, depth |-> 0])
    /\ manager' = [manager EXCEPT !.pc = "record", !.reveal = Len(bitcoin) + 1]
    /\ UNCHANGED <<requests, history, ManagerRest>>

InsertInscriptionRequestHistory ==
    /\ manager.pc = "record"
    /\ history' = Append(history, [request |-> manager.request,
                                   reveal_tx_id |-> manager.reveal, age |-> manager.age])
    /\ manager' = [IdleManager EXCEPT !.pc = manager.resume, !.todo = manager.todo]
    /\ UNCHANGED <<requests, bitcoin, ManagerRest>>

\* Any call but the last may fail: the iteration ends.  (A loop over an empty
\* list makes no call.)
ManagerError ==
    /\ manager.pc \notin {"idle", "record"}
    /\ manager.pc \in {"update", "sendnew"} => manager.todo # {}
    /\ ~UnknownTx
    /\ manager' = IdleManager
    /\ UNCHANGED <<requests, history, bitcoin, ManagerRest>>

\* The history row of a transaction that is already broadcast is not written.
InsertHistoryError ==
    /\ manager.pc = "record"
    /\ CrashFault
    /\ manager' = IdleManager
    /\ UNCHANGED <<dbVars, aged, aggregator, bitcoin>>

ManagerStep ==
    \/ GetInflight
    \/ CheckTxConfirmation
    \/ CheckUnknownTx
    \/ ConfirmInscription
    \/ CheckAge
    \/ UpdateDone
    \/ ListNewInscriptionRequest
    \/ SendNext
    \/ FetchBlockHeight
    \/ Inscribe
    \/ InsertInscriptionRequestHistory
    \/ ManagerError
    \/ InsertHistoryError

-----------------------------------------------------------------------------
(* The process, time and Bitcoin *)

\* A crash ends both tasks; their local state starts afresh.
SenderRestart ==
    /\ CrashFault
    /\ aggregator' = IdleAggregator
    /\ manager' = IdleManager
    /\ UNCHANGED <<dbVars, aged, bitcoin>>

\* Batches pass BLOCK_TIME_TO_COMMIT and, later, BLOCK_TIME_TO_PROOF; with a
\* limit of one the deadlines never matter.
Age(type) ==
    /\ Limits[type] > 1
    /\ aged[type] < (IF type = "commit" THEN sealed ELSE aged["commit"])
    /\ aged' = [aged EXCEPT ![type] = @ + 1]
    /\ UNCHANGED <<dbVars, aggregator, manager, bitcoin, budget>>

Mempool == {t \in 1 .. Len(bitcoin) : bitcoin[t].depth = 0}

AddUpTo(n, bound) == IF n < bound THEN n + 1 ELSE n

\* A block with the transactions of S; everything sent gets one block older.
MineBlock(S) ==
    /\ PromptMining => S = Mempool /\ (manager.pc \in {"age", "send"} => manager.age = 0)
    /\ bitcoin' = [t \in 1 .. Len(bitcoin) |->
         [bitcoin[t] EXCEPT !.depth =
            IF t \in S \/ @ > 0 THEN AddUpTo(@, BlockConfirmations) ELSE @]]
    /\ history' = [h \in 1 .. Len(history) |->
         [history[h] EXCEPT !.age = AddUpTo(@, BlockResend)]]
    /\ manager' = [manager EXCEPT !.age =
         IF manager.pc \in {"age", "send", "record"} THEN AddUpTo(@, BlockResend) ELSE @]
    /\ UNCHANGED <<upstreamVars, via_data_availability, inscription_request, requests,
                   aged, aggregator, budget>>

\* The last d blocks, fewer than block_confirmations, are replaced by others;
\* their transactions return to the mempool.
Reorg(d) ==
    /\ budget.reorgs > 0
    /\ \E t \in 1 .. Len(bitcoin) : bitcoin[t].depth \in 1 .. d
    /\ bitcoin' = [t \in 1 .. Len(bitcoin) |->
         [bitcoin[t] EXCEPT !.depth = IF @ \in 1 .. d THEN 0 ELSE @]]
    /\ budget' = [budget EXCEPT !.reorgs = @ - 1]
    /\ UNCHANGED <<dbVars, aged, aggregator, manager>>

\* The mempool drops or replaces a transaction.
Evict(t) ==
    /\ budget.evictions > 0
    /\ t \in Mempool
    /\ bitcoin' = [bitcoin EXCEPT ![t].depth = Gone]
    /\ budget' = [budget EXCEPT !.evictions = @ - 1]
    /\ UNCHANGED <<dbVars, aged, aggregator, manager>>

BitcoinStep ==
    \/ \E S \in SUBSET Mempool : MineBlock(S)
    \/ \E d \in 1 .. BlockConfirmations - 1 : Reorg(d)
    \/ \E t \in 1 .. Len(bitcoin) : Evict(t)

SenderStep ==
    \/ AggregatorStep
    \/ ManagerStep
    \/ SenderRestart
    \/ \E type \in RequestType : Age(type)
    \/ BitcoinStep

BtcInit == DbInit /\ SenderInit

\* The tables of the other tasks change as DaPromise says.  What the sender does
\* not read stays as it is: generated proofs and the inclusion data of proofs.
DaStep ==
    /\ \/ SealL1Batch
       \/ SaveL1BatchCommitmentArtifacts
       \/ \E b \in Batch : PublishBatch(b) \/ IncludeBatch(b) \/ PublishProof(b)
    /\ UNCHANGED <<inscription_request, requests, history, senderVars>>

BtcNext == SenderStep \/ DaStep

BtcSpec == BtcInit /\ [][BtcNext]_btcVars

\* Both tasks poll for ever (weak fairness of their steps), calls to the node and
\* the database do not fail for ever, time passes and blocks are found.
BtcFairSpec ==
    /\ BtcSpec
    /\ WF_btcVars(AggregatorStep)
    /\ WF_btcVars(ManagerStep)
    /\ \A type \in RequestType : WF_btcVars(Age(type))
    /\ <>[][~AggregatorError /\ ~ManagerError]_btcVars
    /\ SF_btcVars(MineBlock(Mempool))

-----------------------------------------------------------------------------
(* Properties *)

\* The transaction a batch is settled by, once its request is confirmed.
ConfirmedReveal(r) == history[requests[r].confirmed].reveal_tx_id

\* Commit requests are queued in batch order without a gap, each for the batch
\* it is linked to and with the blob stored for it - also when several batches
\* go into one operation and operations fail or are lost half-way.
CommitRequestsInOrder ==
    \A b \in Batch : CommitId(b) # Null =>
        /\ CommitId(b) <= Len(requests)
        /\ requests[CommitId(b)].type = "commit"
        /\ requests[CommitId(b)].batch = b
        /\ requests[CommitId(b)].blob_id = Blob("batch", b)
        /\ \A c \in 1 .. b - 1 : CommitId(c) # Null /\ CommitId(c) < CommitId(b)

\* Every queued request belongs to exactly one batch: none is queued twice for
\* the same batch and kind, none is left without its link.
EachRequestOfOneBatch ==
    \A r \in 1 .. Len(requests) :
        Cardinality({b \in Batch : CommitId(b) = r}) + Cardinality({b \in Batch : ProofId(b) = r}) = 1

\* A proof message points at the transaction by which the batch's commit request
\* was confirmed, not at an older or a later attempt, although the aggregator
\* takes the latest history row and the manager may re-send at the same time.
ProofReferencesConfirmedCommit ==
    \A b \in Batch : ProofId(b) # Null =>
        /\ requests[CommitId(b)].confirmed # Null
        /\ requests[ProofId(b)].type = "proof"
        /\ requests[ProofId(b)].reveal_tx_id = ConfirmedReveal(CommitId(b))

\* A confirmed request is on the chain with block_confirmations confirmations, by
\* a transaction that carries it, and stays there in spite of reorganisations
\* shallower than that.
ConfirmedIsOnChain ==
    \A r \in 1 .. Len(requests) : requests[r].confirmed # Null =>
        /\ bitcoin[ConfirmedReveal(r)].request = r
        /\ bitcoin[ConfirmedReveal(r)].depth = BlockConfirmations

\* No more than max_txs_in_flight requests wait for their confirmation.
InflightBounded == Cardinality(InflightInscriptions) <= MaxTxsInFlight

\* A request is never broadcast again once it is confirmed.
ConfirmedIsNotResent ==
    [][\A t \in 1 .. Len(bitcoin') : t > Len(bitcoin) =>
          requests[bitcoin'[t].request].confirmed = Null]_btcVars

\* BLOCK_RESEND is fixed and block_confirmations is configured.  An inscription that
\* the next block takes is never sent a second time (it would be paid for twice) if
\* the former exceeds the latter by two: one block may be found between sent_at_block
\* and the broadcast, and one between check_tx_confirmation and the height that the
\* age test reads.  The exception is a crash or a failed write that lost the trace of
\* the first.
InscribedOnce ==
    PromptMining /\ BlockConfirmations + 2 <= BlockResend /\ budget.crashes = MaxCrashes =>
        \A t, u \in 1 .. Len(bitcoin) : t # u => bitcoin[t].request # bitcoin[u].request

\* validate_l1_batch_sequence never panics.
NeverPanics == aggregator.pc # "panicked"

\* A batch that is included and has a proof blob ends up with a confirmed commit
\* and a confirmed proof inscription.
ReadyBatchIsSettled ==
    \A b \in Batch :
        (b <= commitments /\ Included("batch", b) /\ Blob("proof", b) # Null)
            ~> (ProofId(b) # Null /\ requests[ProofId(b)].confirmed # Null)

\* An inscription that is still not confirmed BLOCK_RESEND blocks after it was
\* sent is sent again, or confirmed ("stuck ... retry sending").
StuckIsResent ==
    \A r \in 1 .. 2 * MaxBatch, n \in 1 .. MaxTxs :
        (/\ r \in InflightInscriptions
         /\ n = LastHistory(r)
         /\ history[n].age = BlockResend)
            ~> (\/ \E h \in HistoryOf(r) : h > n
                \/ r <= Len(requests) /\ requests[r].confirmed # Null)

=============================================================================
