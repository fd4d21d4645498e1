---------------------------- MODULE DaDispatcher ----------------------------
(***************************************************************************)
(* The data-availability dispatcher (via_da_dispatcher): in every round    *)
(* three sub-tasks run concurrently - dispatch sends pubdata blobs,        *)
(* dispatch_proofs sends proofs, poll_for_inclusion asks for the inclusion *)
(* data of the oldest blob of each kind - and the next round starts when   *)
(* all three have returned.  Every step between two awaits is an action.   *)
(* The process may stop or crash at any point: what was read from the      *)
(* database or received from the DA layer and not saved is then lost.      *)
(*                                                                         *)
(* The DA layer (Celestia) is external: a blob that reached it is an       *)
(* element of celestia, its index is its blob id; a submission that        *)
(* reports an error may have reached it all the same.                      *)
(***************************************************************************)
EXTENDS ViaDb

CONSTANTS
    MaxRowsToDispatch,       \* max_rows_to_dispatch
    MaxRetries,              \* max_retries
    UseDummyInclusionData,   \* use_dummy_inclusion_data
    DispatchRealProof,       \* dispatch_real_proof
    MaxFaults,               \* bound: crashes, failed writes, lost answers
    MaxBlobs                 \* bound: blobs on the DA layer

ASSUME DispatcherAssumption ==
    /\ MaxRowsToDispatch \in Nat
    /\ MaxRetries \in Nat
    /\ UseDummyInclusionData \in BOOLEAN
    /\ DispatchRealProof \in BOOLEAN
    /\ MaxFaults \in Nat
    /\ MaxBlobs \in Nat

VARIABLES
    sending,    \* [Kind -> local state of dispatch / dispatch_proofs]
    poll,       \* local state of poll_for_inclusion
    celestia,   \* blobs on the DA layer
    faults      \* faults so far

dispatcherVars == <<sending, poll, celestia, faults>>
senderTables == <<inscription_request, requests, history>>
daVars == <<dbVars, dispatcherVars>>

IdleSending == [pc |-> "start", queue |-> {}, batch |-> Null, blob_id |-> Null, retries |-> 1]
IdlePoll == [pc |-> "batch", kind |-> "batch", batch |-> Null, blob_id |-> Null, data |-> "null"]

\* The sub-task has returned; its locals are gone.
DoneSending == [IdleSending EXCEPT !.pc = "done"]
PollAt(pc) == [IdlePoll EXCEPT !.pc = pc]

Sending == [pc : {"start", "load", "send", "save", "done"}, queue : SUBSET Batch,
            batch : Batch \union {Null}, blob_id : Nat, retries : 1 .. MaxRetries + 1]
Poll == [pc : {"batch", "proof", "ask", "save", "done"}, kind : Kind,
         batch : Batch \union {Null}, blob_id : Nat, data : InclusionData]

DaTypeOK ==
    /\ DbTypeOK
    /\ sending \in [Kind -> Sending]
    /\ poll \in Poll
    /\ celestia \in Seq([batch : Batch, kind : Kind, available : BOOLEAN])
    /\ faults \in 0 .. MaxFaults

DispatcherInit ==
    /\ sending = [k \in Kind |-> IdleSending]
    /\ poll = IdlePoll
    /\ celestia = << >>
    /\ faults = 0

Fault == faults < MaxFaults /\ faults' = faults + 1

-----------------------------------------------------------------------------
(* dispatch and dispatch_proofs *)

ReadyRows(k) ==
    CASE k = "batch" -> ReadyForDaDispatchL1Batches
      [] k = "proof" /\ DispatchRealProof -> ReadyForDaDispatchProofs
      [] k = "proof" /\ ~DispatchRealProof -> ReadyForDummyProofDispatch

\* The query for dummy proofs has a LIMIT and no ORDER BY.
Unordered(k) == k = "proof" /\ ~DispatchRealProof

QueryResult(k, S) ==
    IF Unordered(k)
      THEN /\ S \subseteq ReadyRows(k)
           /\ Cardinality(S) = Min({MaxRowsToDispatch, Cardinality(ReadyRows(k))})
      ELSE S = Limit(ReadyRows(k), MaxRowsToDispatch)

\* Row b is one the loop may take next.
NextRow(k, b) == b \in sending[k].queue /\ (Unordered(k) \/ b = Min(sending[k].queue))

\* The query at the head of the sub-task.
DispatchStart(k) ==
    /\ sending[k].pc = "start"
    /\ \E S \in SUBSET Batch :
         /\ QueryResult(k, S)
         /\ sending' = [sending EXCEPT ![k].pc = "load", ![k].queue = S]
    /\ UNCHANGED <<dbVars, poll, celestia, faults>>

\* The loop over the rows takes one; a proof is loaded or prepared first.
DispatchLoad(k, b) ==
    /\ sending[k].pc = "load"
    /\ NextRow(k, b)
    /\ sending' = [sending EXCEPT ![k].pc = "send", ![k].batch = b, ![k].retries = 1,
                                  ![k].queue = @ \ {b}]
    /\ UNCHANGED <<dbVars, poll, celestia, faults>>

\* A real proof that cannot be loaded is skipped; a dummy proof that cannot be
\* prepared ends the sub-task.
ProofLoadError(b) ==
    /\ sending["proof"].pc = "load"
    /\ NextRow("proof", b)
    /\ sending' = IF DispatchRealProof
                    THEN [sending EXCEPT !["proof"].queue = @ \ {b}]
                    ELSE [sending EXCEPT !["proof"] = DoneSending]
    /\ UNCHANGED <<dbVars, poll, celestia, faults>>

DispatchFinish(k) ==
    /\ sending[k].pc = "load"
    /\ sending[k].queue = {}
    /\ sending' = [sending EXCEPT ![k] = DoneSending]
    /\ UNCHANGED <<dbVars, poll, celestia, faults>>

SubmitBlob(k) ==
    /\ Len(celestia) < MaxBlobs
    /\ celestia' = Append(celestia, [batch |-> sending[k].batch, kind |-> k, available |-> FALSE])

\* dispatch_blob returns a blob id.
DispatchBlobOk(k) ==
    /\ sending[k].pc = "send"
    /\ SubmitBlob(k)
    /\ sending' = [sending EXCEPT ![k].pc = "save", ![k].blob_id = Len(celestia) + 1]
    /\ UNCHANGED <<dbVars, poll, faults>>

\* The loop goes on with the next row after the last attempt.
BugAfterErrorSkip(k, retriable) ==
    IF ~retriable \/ sending[k].retries > MaxRetries
      THEN [IdleSending EXCEPT !.pc = "load", !.queue = sending[k].queue]
      ELSE [sending[k] EXCEPT !.retries = @ + 1]

\* retry: a retriable error is tried again until retries exceeds max_retries;
\* the last one, or one that is not retriable, ends the sub-task.
AfterError(k, retriable) ==
    IF ~retriable \/ sending[k].retries > MaxRetries
      THEN DoneSending
      ELSE [sending[k] EXCEPT !.retries = @ + 1]

DispatchBlobError(k, retriable) ==
    /\ sending[k].pc = "send"
    /\ sending' = [sending EXCEPT ![k] = AfterError(k, retriable)]
    /\ UNCHANGED <<dbVars, poll, celestia, faults>>

\* The blob is on the DA layer but the caller sees a (retriable) error.
DispatchBlobLostAnswer(k) ==
    /\ sending[k].pc = "send"
    /\ Fault
    /\ SubmitBlob(k)
    /\ sending' = [sending EXCEPT ![k] = AfterError(k, TRUE)]
    /\ UNCHANGED <<dbVars, poll>>

\* The blob id is stored, unless another one is there already.
DispatchSave(k) ==
    /\ sending[k].pc = "save"
    /\ IF InsertDaConflict(k, sending[k].batch, sending[k].blob_id)
         THEN /\ sending' = [sending EXCEPT ![k] = DoneSending]
              /\ UNCHANGED via_data_availability
         ELSE /\ sending' = [sending EXCEPT ![k] = [IdleSending EXCEPT
                               !.pc = "load", !.queue = sending[k].queue]]
              /\ InsertDa(k, sending[k].batch, sending[k].blob_id)
    /\ UNCHANGED <<upstreamVars, senderTables, poll, celestia, faults>>

\* The query or the insertion fails: the sub-task ends.
DispatchDbError(k) ==
    /\ sending[k].pc \in {"start", "save"}
    /\ Fault
    /\ sending' = [sending EXCEPT ![k] = DoneSending]
    /\ UNCHANGED <<dbVars, poll, celestia>>

-----------------------------------------------------------------------------
(* poll_for_inclusion: the pubdata blob first, then the proof blob *)

\* The proof blob is not polled.
BugAfterPoll(k) == "done"

AfterPoll(k) == IF k = "batch" THEN "proof" ELSE "done"

\* The oldest blob of the kind without inclusion data, if there is one.
PollRead ==
    /\ poll.pc \in Kind
    /\ poll' = IF AwaitingInclusion(poll.pc) = {}
                 THEN PollAt(AfterPoll(poll.pc))
                 ELSE LET b == Min(AwaitingInclusion(poll.pc))
                      IN [poll EXCEPT !.pc = "ask", !.kind = poll.pc, !.batch = b,
                                      !.blob_id = Blob(poll.pc, b)]
    /\ UNCHANGED <<dbVars, sending, celestia, faults>>

\* The data to save: what the client returned when use_dummy_inclusion_data is
\* set, and the empty vector when it is not.
PollAsk ==
    /\ poll.pc = "ask"
    /\ UseDummyInclusionData => celestia[poll.blob_id].available
    /\ poll' = [poll EXCEPT !.pc = "save",
                            !.data = IF UseDummyInclusionData THEN "client" ELSE "empty"]
    /\ UNCHANGED <<dbVars, sending, celestia, faults>>

\* The client knows no inclusion data yet; the next kind is polled.
PollNone ==
    /\ poll.pc = "ask"
    /\ UseDummyInclusionData
    /\ ~celestia[poll.blob_id].available
    /\ poll' = PollAt(AfterPoll(poll.kind))
    /\ UNCHANGED <<dbVars, sending, celestia, faults>>

\* An error of the client ends the whole sub-task.
PollError ==
    /\ poll.pc = "ask"
    /\ UseDummyInclusionData
    /\ poll' = PollAt("done")
    /\ UNCHANGED <<dbVars, sending, celestia, faults>>

\* The data is stored; other data that is there already is an error.
PollSave ==
    /\ poll.pc = "save"
    /\ SaveInclusionData(poll.kind, poll.batch, poll.data)
    /\ poll' = IF InclusionConflict(poll.kind, poll.batch, poll.data)
                 THEN PollAt("done")
                 ELSE PollAt(AfterPoll(poll.kind))
    /\ UNCHANGED <<upstreamVars, senderTables, sending, celestia, faults>>

PollDbError ==
    /\ poll.pc \in Kind \union {"save"}
    /\ Fault
    /\ poll' = PollAt("done")
    /\ UNCHANGED <<dbVars, sending, celestia>>

-----------------------------------------------------------------------------
(* run: join3 and the polling interval; stop or crash; the DA layer *)

NextRound ==
    /\ \A k \in Kind : sending[k].pc = "done"
    /\ poll.pc = "done"
    /\ sending' = [k \in Kind |-> IdleSending]
    /\ poll' = IdlePoll
    /\ UNCHANGED <<dbVars, celestia, faults>>

ForgetDispatcher ==
    /\ sending' = [k \in Kind |-> IdleSending]
    /\ poll' = IdlePoll

DispatcherRestart ==
    /\ Fault
    /\ ForgetDispatcher
    /\ UNCHANGED <<dbVars, celestia>>

\* A submitted blob becomes available on the DA layer (external).
BlobAvailable(i) ==
    /\ ~celestia[i].available
    /\ celestia' = [celestia EXCEPT ![i].available = TRUE]
    /\ UNCHANGED <<dbVars, sending, poll, faults>>

SendingStep(k) ==
    \/ DispatchStart(k)
    \/ \E b \in Batch : DispatchLoad(k, b)
    \/ DispatchFinish(k)
    \/ DispatchBlobOk(k)
    \/ \E retriable \in BOOLEAN : DispatchBlobError(k, retriable)
    \/ DispatchBlobLostAnswer(k)
    \/ DispatchSave(k)
    \/ DispatchDbError(k)

PollStep == PollRead \/ PollAsk \/ PollNone \/ PollError \/ PollSave \/ PollDbError

DispatcherStep ==
    \/ \E k \in Kind : SendingStep(k)
    \/ \E b \in Batch : ProofLoadError(b)
    \/ PollStep
    \/ NextRound
    \/ DispatcherRestart
    \/ \E i \in 1 .. Len(celestia) : BlobAvailable(i)

\* The inscription aggregator queues commit requests for included batches.
CommitRequested(b) ==
    /\ b \in ReadyForCommitL1Batches
    /\ inscription_request' = [inscription_request EXCEPT ![b].commit_id = b]
    /\ UNCHANGED <<upstreamVars, via_data_availability, requests, history, dispatcherVars>>

DaInit == DbInit /\ DispatcherInit

\* Without real proofs no prover runs.
DaUpstream ==
    \/ SealL1Batch
    \/ SaveL1BatchCommitmentArtifacts
    \/ DispatchRealProof /\ \E b \in Batch : SaveProofArtifacts(b)

DaNext ==
    \/ DispatcherStep
    \/ DaUpstream /\ UNCHANGED dispatcherVars
    \/ \E b \in Batch : CommitRequested(b)

DaSpec == DaInit /\ [][DaNext]_daVars

\* The runtime polls every ready sub-task (weak fairness of each step); a call
\* to the DA layer or the proof store that is repeated for ever succeeds in the
\* end, and a submitted blob becomes available (strong fairness of the calls).
DaFairness ==
    /\ \A k \in Kind :
         /\ WF_daVars(DispatchStart(k))
         /\ SF_daVars(\E b \in Batch : DispatchLoad(k, b))
         /\ WF_daVars(DispatchFinish(k))
         /\ SF_daVars(DispatchBlobOk(k))
         /\ WF_daVars(DispatchSave(k))
    /\ WF_daVars(PollRead)
    /\ SF_daVars(PollAsk)
    /\ WF_daVars(PollSave)
    /\ WF_daVars(NextRound)
    /\ \A i \in 1 .. MaxBlobs :
         WF_daVars(i \in 1 .. Len(celestia) /\ BlobAvailable(i))

DaFairSpec == DaSpec /\ DaFairness

-----------------------------------------------------------------------------
(* Properties *)

\* A stored blob id is that of a blob which carries the pubdata (or the proof)
\* of that very batch: no answer of the DA layer is stored for another row,
\* across retries, lost answers, orphaned blobs and restarts.
StoredBlobIsOwn ==
    \A k \in Kind, b \in Batch : Blob(k, b) # Null =>
        /\ Blob(k, b) <= Len(celestia)
        /\ celestia[Blob(k, b)].batch = b
        /\ celestia[Blob(k, b)].kind = k

\* Inclusion data from the client is only stored for a row whose stored blob is
\* available on the DA layer, although poll_for_inclusion saves it by batch
\* number, some awaits after it read the blob id.
InclusionIsOfStoredBlob ==
    \A k \in Kind, b \in Batch :
        via_data_availability[k][b].inclusion_data = "client" =>
            Blob(k, b) # Null /\ celestia[Blob(k, b)].available

\* What reaches the DA layer beyond one blob per row is due to a fault, and a
\* fault leaves at most one orphaned blob per sending sub-task: the two loops
\* never pay for the same row twice by themselves, round after round.
NoUnexplainedBlob ==
    Len(celestia) <= Cardinality({kb \in Kind \X Batch : Blob(kb[1], kb[2]) # Null})
                     + Cardinality({k \in Kind : sending[k].pc = "save"}) + 2 * faults

\* The dispatcher implements the promise the inscription sender relies on.
Promise == INSTANCE DaPromise WITH BlobId <- 1 .. MaxBlobs,
                                   InclusionProof <- {"empty", "client"}
ImplementsPromise == Promise!PromiseSpec

\* What is to be published: the pubdata of a sealed batch, and its proof once there
\* is one (generated by the prover, or a dummy as soon as there is a commitment).
Due(k, b) ==
    CASE k = "batch" -> b <= sealed
      [] k = "proof" /\ DispatchRealProof -> b \in generated
      [] k = "proof" /\ ~DispatchRealProof -> b <= commitments

\* Everything that is to be published is dispatched and gets its inclusion data,
\* although one sub-task's round waits for the others and errors end rounds early.
BlobsAreIncluded ==
    \A k \in Kind, b \in Batch : Due(k, b) ~> Included(k, b)

=============================================================================
