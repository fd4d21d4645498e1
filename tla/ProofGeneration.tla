--------------------------- MODULE ProofGeneration ---------------------------
(***************************************************************************)
(* The way of a batch to its proof: the row of proof_generation_details,   *)
(* which the Merkle tree and the basic witness input producer fill in, the *)
(* proof data handler of the node, the gateway of the prover, which asks   *)
(* it for batches and submits proofs, and the prover subsystem             *)
(* (ProverJobs).  A batch is locked while it is proven; a lock that is     *)
(* older than the time-out is given away again.                            *)
(***************************************************************************)
EXTENDS ProverJobs

VARIABLES
    details,     \* the row of proof_generation_details
    committed,   \* the batch has its hash and its commitment (l1_batches)
    fetcher,     \* ProofGenDataFetcher and the handler that answers it
    submitter,   \* ProofSubmitter and the handler that answers it
    expired      \* history: a lock has expired while the batch was proven

gatewayVars == <<details, committed, fetcher, submitter, expired>>
provingVars == <<proverVars, gatewayVars>>

ProvingTypeOK ==
    /\ ProverTypeOK
    /\ details \in [status : {"none", "unpicked", "picked_by_prover", "generated"},
                    vm_run : BOOLEAN, merkle_paths : BOOLEAN, proof : BOOLEAN]
    /\ committed \in BOOLEAN
    /\ fetcher \in {"idle", "locked", "answered"}
    /\ submitter \in {"idle", "sent", "answered"}
    /\ expired \in BOOLEAN

ProvingInit ==
    /\ ProverInit
    /\ details = [status |-> "none", vm_run |-> FALSE, merkle_paths |-> FALSE, proof |-> FALSE]
    /\ committed = FALSE
    /\ fetcher = "idle"
    /\ submitter = "idle"
    /\ expired = FALSE

-----------------------------------------------------------------------------
(* The row: each writer inserts it unless it is there, and writes its column; after
   a restart it does so again. *)

\* The row of a finished batch is made anew.
BugInsertProofGenerationDetails(row) ==
    [row EXCEPT !.status = IF @ \in {"none", "generated"} THEN "unpicked" ELSE @]

InsertProofGenerationDetails(row) ==
    [row EXCEPT !.status = IF @ = "none" THEN "unpicked" ELSE @]

\* The Merkle tree (MetadataCalculator).
SaveMerklePaths ==
    /\ details' = [InsertProofGenerationDetails(details) EXCEPT !.merkle_paths = TRUE]
    /\ UNCHANGED <<proverVars, committed, fetcher, submitter, expired>>

\* handle_l1_batch of the basic witness input producer, a VM runner.
SaveVmRunnerArtifacts ==
    /\ details' = [InsertProofGenerationDetails(details) EXCEPT !.vm_run = TRUE]
    /\ UNCHANGED <<proverVars, committed, fetcher, submitter, expired>>

\* The commitment generator, after the tree has saved the hash.
SaveCommitment ==
    /\ ~committed
    /\ committed' = TRUE
    /\ UNCHANGED <<proverVars, details, fetcher, submitter, expired>>

-----------------------------------------------------------------------------
(* get_proof_generation_data, and the gateway's loop around it *)

HasData == details.vm_run /\ details.merkle_paths /\ committed

\* lock_batch_for_proving
LockBatchForProving ==
    /\ fetcher = "idle"
    /\ details.status = "unpicked" /\ HasData
    /\ details' = [details EXCEPT !.status = "picked_by_prover"]
    /\ fetcher' = "locked"
    /\ UNCHANGED <<proverVars, committed, submitter, expired>>

\* The same when the lock has expired: in the end, when nobody proves the batch, and
\* within the bound while it is proven.
LockExpiredBatch ==
    /\ fetcher = "idle"
    /\ details.status = "picked_by_prover"
    /\ \/ jobs[BasicJob].status = "none" /\ UNCHANGED <<faults, expired>>
       \/ Fault /\ expired' = TRUE
    /\ fetcher' = "locked"
    /\ UNCHANGED <<jobs, workers, details, committed, submitter>>

\* The data is there and the answer is sent.
SendData ==
    /\ fetcher = "locked"
    /\ fetcher' = "answered"
    /\ UNCHANGED <<proverVars, details, committed, submitter, expired>>

\* The data could not be fetched: unlock_batch, whatever the status is by now.
UnlockBatch ==
    /\ fetcher = "locked"
    /\ Fault
    /\ details' = [details EXCEPT !.status = "unpicked"]
    /\ fetcher' = "idle"
    /\ UNCHANGED <<jobs, workers, committed, submitter, expired>>

\* The connection breaks or the gateway stops: the lock stays.
LoseData ==
    /\ fetcher # "idle"
    /\ Fault
    /\ fetcher' = "idle"
    /\ UNCHANGED <<jobs, workers, details, committed, submitter, expired>>

\* save_proof_gen_data
SaveProofGenData ==
    /\ fetcher = "answered"
    /\ jobs' = Inserted({BasicJob}, "queued")
    /\ fetcher' = "idle"
    /\ UNCHANGED <<workers, faults, details, committed, submitter, expired>>

-----------------------------------------------------------------------------
(* submit_proof, and the gateway's loop around it *)

\* next_submit_proof_request
SendProof ==
    /\ submitter = "idle"
    /\ jobs[Compression].status = "successful"
    /\ submitter' = "sent"
    /\ UNCHANGED <<proverVars, details, committed, fetcher, expired>>

\* save_proof_artifacts_metadata
SubmitProof ==
    /\ submitter = "sent"
    /\ details' = [details EXCEPT !.status = "generated", !.proof = TRUE]
    /\ submitter' = "answered"
    /\ UNCHANGED <<proverVars, committed, fetcher, expired>>

LoseProof ==
    /\ submitter # "idle"
    /\ Fault
    /\ submitter' = "idle"
    /\ UNCHANGED <<jobs, workers, details, committed, fetcher, expired>>

\* An error is handled like an answer.
BugMarkProofSent ==
    /\ submitter # "idle"
    /\ jobs' = [jobs EXCEPT ![Compression].status = "sent_to_server"]
    /\ submitter' = "idle"
    /\ UNCHANGED <<workers, faults, details, committed, fetcher, expired>>

\* handle_response
MarkProofSent ==
    /\ submitter = "answered"
    /\ jobs' = [jobs EXCEPT ![Compression].status = "sent_to_server"]
    /\ submitter' = "idle"
    /\ UNCHANGED <<workers, faults, details, committed, fetcher, expired>>

-----------------------------------------------------------------------------

Fetch == LockBatchForProving \/ LockExpiredBatch \/ SendData \/ SaveProofGenData

Submit == SendProof \/ SubmitProof \/ MarkProofSent

Progress == Fetch \/ Submit \/ (ProverProgress /\ UNCHANGED gatewayVars)

ProvingNext ==
    \/ SaveMerklePaths \/ SaveVmRunnerArtifacts \/ SaveCommitment
    \/ Progress
    \/ UnlockBatch \/ LoseData \/ LoseProof
    \/ (\E j \in Job : ProverFault(j)) /\ UNCHANGED gatewayVars

\* The pollers, the job monitor and the workers do not all stand still while one of
\* them can go on.
ProvingSpec == ProvingInit /\ [][ProvingNext]_provingVars /\ WF_provingVars(Progress)

-----------------------------------------------------------------------------
(* Properties *)

\* The proof the node stores was made from a proof of every circuit of the batch,
\* although no worker looks at more than the round before its own.
ProofIsOfAllCircuits ==
    details.proof => \A p \in ProverJob : jobs[p].status = "successful"

\* The gateway forgets a proof only when the node has stored it.
SentIsStored == jobs[Compression].status = "sent_to_server" => details.proof

\* A batch with a proof is not given out again, whoever repeats a step of its way -
\* as long as no lock expires while the batch is proven.  (A lock that does leads to
\* a second fetch, and when that one fails, unlock_batch undoes what submit_proof
\* wrote meanwhile.)
GeneratedIsKept ==
    details.proof /\ ~expired => details.status = "generated"

\* A batch with all its data gets its proof, in spite of crashes, failures, slow
\* workers, lost answers and expired locks.
BatchIsProven == []<>(HasData => details.proof)
=============================================================================
