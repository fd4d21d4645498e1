------------------------------- MODULE ViaDb -------------------------------
(***************************************************************************)
(* The Postgres tables through which the settlement tasks of via_server    *)
(* talk to each other, and the queries of their data-access layer:         *)
(*   l1_batches                       sealed, commitments                  *)
(*   proof_generation_details         generated                            *)
(*   via_data_availability            via_data_availability                *)
(*   via_l1_batch_inscription_request inscription_request                  *)
(*   via_btc_inscriptions_request     requests                             *)
(*   ..._request_history              history                              *)
(*                                                                         *)
(* A row id is a positive integer handed out by a sequence, so a table     *)
(* with a BIGSERIAL key is a TLA+ sequence and 0 stands for SQL NULL.      *)
(* A query result ordered by batch number or id is the set of its rows:    *)
(* the consumers walk it from its least element.  created_at follows the   *)
(* order of the ids.  The protocol-version and contract-hash filters are   *)
(* left out: the aggregator passes the same hard-coded values every time.  *)
(***************************************************************************)
EXTENDS Integers, Sequences, FiniteSets, FiniteSetsExt

CONSTANT MaxBatch   \* bound: L1 batches 1 .. MaxBatch (0 is genesis)

ASSUME MaxBatchAssumption == MaxBatch \in Nat \ {0}

VARIABLES
    sealed,                 \* batches 1 .. sealed are in l1_batches, with pubdata
    commitments,            \* batches 1 .. commitments have commitment artifacts
    generated,              \* batches whose FRI proof is 'generated' and has a URL
    via_data_availability,  \* [Kind -> [Batch -> row]], key (number, is_proof)
    inscription_request,    \* [Batch -> ids of its commit and proof request]
    requests,               \* inscription messages queued for Bitcoin
    history                 \* the transactions sent for each request

upstreamVars == <<sealed, commitments, generated>>
dbVars == <<sealed, commitments, generated, via_data_availability,
            inscription_request, requests, history>>

Null == 0
Batch == 1 .. MaxBatch
Kind == {"batch", "proof"}          \* is_proof = FALSE, TRUE
RequestType == {"commit", "proof"}

\* inclusion_data: NULL, the empty vector, or what the DA client returned
InclusionData == {"null", "empty", "client"}

DaRow == [blob_id : Nat, inclusion_data : InclusionData]
Request == [type : RequestType, batch : Nat, blob_id : Nat,
            reveal_tx_id : Nat, confirmed : Nat]
History == [request : Nat, reveal_tx_id : Nat, age : Nat]

DbTypeOK ==
    /\ sealed \in 0 .. MaxBatch
    /\ commitments \in 0 .. sealed
    /\ generated \in SUBSET Batch
    /\ via_data_availability \in [Kind -> [Batch -> DaRow]]
    /\ inscription_request \in [Batch -> [commit_id : Nat, proof_id : Nat]]
    /\ requests \in Seq(Request)
    /\ history \in Seq(History)

DbInit ==
    /\ sealed = 0
    /\ commitments = 0
    /\ generated = {}
    /\ via_data_availability =
         [k \in Kind |-> [b \in Batch |-> [blob_id |-> Null, inclusion_data |-> "null"]]]
    /\ inscription_request = [b \in Batch |-> [commit_id |-> Null, proof_id |-> Null]]
    /\ requests = << >>
    /\ history = << >>

-----------------------------------------------------------------------------
(* A definition named Bug... is the definition after it with a plausible   *)
(* mistake: the checks are repeated with each of them in its place.        *)

\* ORDER BY ... LIMIT n over a set of numbers.
Limit(S, n) == {b \in S : Cardinality({c \in S : c < b}) < n}

Blob(k, b) == via_data_availability[k][b].blob_id
Included(k, b) == via_data_availability[k][b].inclusion_data # "null"
CommitId(b) == inscription_request[b].commit_id
ProofId(b) == inscription_request[b].proof_id

(* via_data_availability_dal *)

\* blob_id IS NULL is forgotten.
BugReadyForDaDispatchL1Batches == {b \in 1 .. sealed : CommitId(b) = Null}

\* Sealed batches that are not on the DA layer yet.
ReadyForDaDispatchL1Batches ==
    {b \in 1 .. sealed : CommitId(b) = Null /\ Blob("batch", b) = Null}

\* Batches with a generated proof, a pubdata blob and no proof blob.
ReadyForDaDispatchProofs ==
    {b \in generated : Blob("batch", b) # Null /\ Blob("proof", b) = Null}

\* Batches with a commitment, a pubdata blob and no proof blob.
ReadyForDummyProofDispatch ==
    {b \in 1 .. commitments : Blob("batch", b) # Null /\ Blob("proof", b) = Null}

\* The oldest batch whose blob waits for its inclusion data is the least of these.
AwaitingInclusion(k) ==
    {b \in Batch : Blob(k, b) # Null /\ ~Included(k, b)}

\* is_proof is forgotten.
BugInsertDa(k, b, id) ==
    via_data_availability' =
        [kind \in Kind |-> [via_data_availability[kind] EXCEPT ![b].blob_id = id]]

\* INSERT ... ON CONFLICT DO NOTHING.
InsertDa(k, b, id) ==
    via_data_availability' =
        [via_data_availability EXCEPT ![k][b].blob_id = IF @ = Null THEN id ELSE @]

\* insert_l1_batch_da reports a stored blob id that is not the new one.
InsertDaConflict(k, b, id) ==
    k = "batch" /\ Blob(k, b) \notin {Null, id}

\* is_proof is forgotten.
BugSaveInclusionData(k, b, data) ==
    via_data_availability' =
        [kind \in Kind |-> [via_data_availability[kind] EXCEPT ![b].inclusion_data = data]]

\* UPDATE ... WHERE inclusion_data IS NULL.
SaveInclusionData(k, b, data) ==
    via_data_availability' =
        [via_data_availability EXCEPT ![k][b].inclusion_data = IF @ = "null" THEN data ELSE @]

\* save_..._inclusion_data reports stored data that is not the new data.
InclusionConflict(k, b, data) ==
    via_data_availability[k][b].inclusion_data \notin {"null", data}

(* via_blocks_dal *)

ReadyForCommitL1Batches ==
    {b \in 1 .. commitments : CommitId(b) = Null /\ Included("batch", b)}

\* The commit inscription is confirmed and a proof blob exists; the inclusion
\* data of the proof blob is not asked for.
ReadyForCommitProofL1Batches ==
    {b \in Batch : /\ CommitId(b) # Null
                   /\ ProofId(b) = Null
                   /\ requests[CommitId(b)].confirmed # Null
                   /\ Blob("proof", b) # Null}

(* btc_sender_dal *)

HistoryOf(r) == {h \in 1 .. Len(history) : history[h].request = r}
LastHistory(r) == Max(HistoryOf(r))

InflightInscriptions ==
    {r \in 1 .. Len(requests) : requests[r].confirmed = Null /\ HistoryOf(r) # {}}

\* Confirmed requests are not left out.
BugNewInscriptionRequests ==
    {r \in 1 .. Len(requests) : r \notin InflightInscriptions}

NewInscriptionRequests ==
    {r \in 1 .. Len(requests) : HistoryOf(r) = {}}

-----------------------------------------------------------------------------
(* The upstream producers of the tables: the state keeper seals batches in *)
(* order, the commitment generator saves artifacts in order, and the proof *)
(* data handler stores proofs in any order.                                *)

SealL1Batch ==
    /\ sealed < MaxBatch
    /\ sealed' = sealed + 1
    /\ UNCHANGED <<commitments, generated, via_data_availability,
                   inscription_request, requests, history>>

SaveL1BatchCommitmentArtifacts ==
    /\ commitments < sealed
    /\ commitments' = commitments + 1
    /\ UNCHANGED <<sealed, generated, via_data_availability,
                   inscription_request, requests, history>>

SaveProofArtifacts(b) ==
    /\ b \in (1 .. commitments) \ generated
    /\ generated' = generated \union {b}
    /\ UNCHANGED <<sealed, commitments, via_data_availability,
                   inscription_request, requests, history>>

Upstream ==
    \/ SealL1Batch
    \/ SaveL1BatchCommitmentArtifacts
    \/ \E b \in Batch : SaveProofArtifacts(b)

=============================================================================
