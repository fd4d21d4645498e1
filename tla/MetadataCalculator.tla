------------------------- MODULE MetadataCalculator -------------------------
(***************************************************************************)
(* From a sealed batch to its commitment: the protective reads writer      *)
(* (VmRunner), the Merkle tree (metadata_calculator), which reads what the *)
(* former wrote, and the commitment generator, which reads what the tree   *)
(* wrote.  The tree handles several batches in memory, writes the root     *)
(* hash and the Merkle paths of each to Postgres, and only then saves      *)
(* itself to RocksDB: after a stop it repeats the batches it had not saved.*)
(***************************************************************************)
EXTENDS VmRunner

CONSTANT MaxL1BatchesPerIter   \* max_l1_batches_per_iter

ASSUME MetadataAssumption == MaxL1BatchesPerIter \in Nat \ {0}

VARIABLES
    tree,          \* local state of the updater
    saved,         \* the tree in RocksDB has the batches 1 .. saved
    hashed,        \* batches 1 .. hashed have tree data in l1_batches
    merkle_paths,  \* the witness inputs in the object store: which reads they know of
    details,       \* rows of proof_generation_details with Merkle paths
    commitments    \* batches 1 .. commitments have commitment artifacts

treeVars == <<tree, saved, hashed, merkle_paths, details, commitments>>
metadataVars == <<runnerVars, treeVars>>

\* complete: the data loaded for the next batch has all its protective reads.
TreeState == [pc : {"idle", "process", "hash", "details", "save"},
              next : 1 .. MaxBatch + 1, last : 0 .. MaxBatch, complete : BOOLEAN]

MetadataTypeOK ==
    /\ RunnerTypeOK
    /\ tree \in TreeState
    /\ saved \in 0 .. MaxBatch /\ hashed \in 0 .. MaxBatch
    /\ merkle_paths \in [Batch -> {"none", "partial", "complete"}]
    /\ details \in SUBSET Batch
    /\ commitments \in 0 .. MaxBatch

MetadataInit ==
    /\ RunnerInit
    /\ tree = [pc |-> "idle", next |-> 1, last |-> 0, complete |-> TRUE]
    /\ saved = 0
    /\ hashed = 0
    /\ merkle_paths = [b \in Batch |-> "none"]
    /\ details = {}
    /\ commitments = 0

-----------------------------------------------------------------------------
(* TreeUpdater *)

\* The tree does not wait for the protective reads.
BugLastWithProtectiveReads == sealed

\* get_protective_reads_latest_processed_batch, of a full tree for which the state
\* keeper does not write the protective reads.
LastWithProtectiveReads == LatestProcessed

\* L1BatchWithLogs::new: whether the data of the batch has all protective reads.
HasReads(b) == b \in outputs

\* step: the range of batches of this iteration; the data of the first is loaded.
Step ==
    /\ tree.pc = "idle"
    /\ tree.next <= LastWithProtectiveReads
    /\ tree' = [tree EXCEPT !.pc = "process", !.complete = HasReads(tree.next),
                  !.last = Min({tree.next + MaxL1BatchesPerIter - 1, LastWithProtectiveReads})]
    /\ UNCHANGED <<runnerVars, saved, hashed, merkle_paths, details, commitments>>

\* The tree is saved with every batch.
BugProcessL1Batch ==
    /\ tree.pc = "process"
    /\ merkle_paths' = [merkle_paths EXCEPT ![tree.next] =
                          IF tree.complete THEN "complete" ELSE "partial"]
    /\ saved' = tree.next
    /\ tree' = [tree EXCEPT !.pc = "hash",
                  !.complete = tree.next < tree.last => HasReads(tree.next + 1)]
    /\ UNCHANGED <<runnerVars, hashed, details, commitments>>

\* process_l1_batch applies the loaded data and puts the Merkle paths in the object
\* store; the data of the next batch is loaded at the same time.
ProcessL1Batch ==
    /\ tree.pc = "process"
    /\ merkle_paths' = [merkle_paths EXCEPT ![tree.next] =
                          IF tree.complete THEN "complete" ELSE "partial"]
    /\ tree' = [tree EXCEPT !.pc = "hash",
                  !.complete = tree.next < tree.last => HasReads(tree.next + 1)]
    /\ UNCHANGED <<runnerVars, saved, hashed, details, commitments>>

\* save_l1_batch_tree_data: a batch that has its hash is only compared.
SaveL1BatchTreeData ==
    /\ tree.pc = "hash"
    /\ hashed' = Max({hashed, tree.next})
    /\ tree' = [tree EXCEPT !.pc = "details"]
    /\ UNCHANGED <<runnerVars, saved, merkle_paths, details, commitments>>

\* insert_proof_generation_details and save_merkle_paths_artifacts_metadata; the
\* tree is saved after the last batch of the range.
SaveMerklePaths ==
    /\ tree.pc = "details"
    /\ details' = details \cup {tree.next}
    /\ tree' = [tree EXCEPT !.pc = IF tree.next = tree.last THEN "save" ELSE "process",
                            !.next = @ + 1]
    /\ UNCHANGED <<runnerVars, saved, hashed, merkle_paths, commitments>>

SaveTree ==
    /\ tree.pc = "save"
    /\ saved' = tree.last
    /\ tree' = [tree EXCEPT !.pc = "idle"]
    /\ UNCHANGED <<runnerVars, hashed, merkle_paths, details, commitments>>

TreeStep == Step \/ ProcessL1Batch \/ SaveL1BatchTreeData \/ SaveMerklePaths \/ SaveTree

-----------------------------------------------------------------------------

\* The commitment generator: next_batch_range and step save the artifacts of the
\* batches with tree data in order; nobody else does.
SaveL1BatchCommitmentArtifacts ==
    /\ commitments < hashed
    /\ commitments' = commitments + 1
    /\ UNCHANGED <<runnerVars, tree, saved, hashed, merkle_paths, details>>

\* The batch after the last one with tree data.
BugFirstBatch(inTree) == hashed + 1

\* next_l1_batch_number of the tree that was loaded
FirstBatch(inTree) == inTree + 1

\* The node stops and starts: ensure_consistency cuts a tree that is ahead of
\* Postgres back.  Below that the hashes agree, so that no divergence is found.
Restart ==
    /\ Stop
    /\ saved' = Min({saved, hashed})
    /\ tree' = [pc |-> "idle", next |-> FirstBatch(saved'), last |-> 0, complete |-> TRUE]
    /\ UNCHANGED <<hashed, merkle_paths, details, commitments>>

MetadataNext ==
    \/ RunnerWork /\ UNCHANGED treeVars
    \/ TreeStep \/ SaveL1BatchCommitmentArtifacts \/ Restart

MetadataSpec ==
    /\ MetadataInit /\ [][MetadataNext]_metadataVars
    /\ RunnerFairness
    /\ WF_metadataVars(TreeStep) /\ WF_metadataVars(SaveL1BatchCommitmentArtifacts)

-----------------------------------------------------------------------------
(* Properties *)

\* The Merkle paths of a batch are computed when all its protective reads are
\* written: the tree looks only at the number of the latest processed batch, and
\* the outputs are written in any order.
MerklePathsAreComplete == \A b \in Batch : merkle_paths[b] # "partial"

\* The saved tree is never ahead of Postgres, whenever the node stops, and what it
\* contains has its row for the prover: a batch is never left out by the restart.
SavedIsRecorded == saved <= hashed /\ 1 .. saved \subseteq details

\* Whatever is sealed gets its commitment and its row for the prover: the three
\* components catch up again and again, also after a stop.
SealedIsCommitted == []<>(commitments = sealed /\ 1 .. sealed \subseteq details)
=============================================================================
