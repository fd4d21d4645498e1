--------------------------- MODULE MetadataProofs ---------------------------
(***************************************************************************)
(* The way of a batch from the protective reads over the Merkle tree to    *)
(* its commitment, for any number of batches, any window, any size of the  *)
(* tree's iterations and any number of stops.                              *)
(***************************************************************************)
EXTENDS MetadataCalculator, VmRunnerProofs

\* The tree works on batches whose protective reads are written, and everything
\* before the batch it works on is in Postgres.
TreeInv ==
    /\ tree.pc \in {"process", "hash", "details"} => tree.next <= tree.last
    /\ tree.pc = "save" => tree.next = tree.last + 1
    /\ tree.pc # "idle" => tree.last <= factory.latest
    /\ tree.pc = "process" => tree.complete
    /\ tree.pc \in {"hash", "details"} /\ tree.next < tree.last => tree.complete
    /\ tree.next <= hashed + 1 /\ (tree.pc = "details" => tree.next <= hashed)
    /\ 1 .. tree.next - 1 \subseteq details
    /\ commitments <= hashed

MetadataInv ==
    /\ RunnerInv /\ MetadataTypeOK /\ TreeInv
    /\ MerklePathsAreComplete /\ SavedIsRecorded

-----------------------------------------------------------------------------
(* The composed system runs the VM runner *)

\* The tree and the commitment generator leave the VM runner alone.
LEMMA StepsOfRunner == [MetadataNext]_metadataVars => [RunnerNext]_runnerVars
<1>. SUFFICES ASSUME [MetadataNext]_metadataVars PROVE [RunnerNext]_runnerVars
  OBVIOUS
<1>1. CASE TreeStep
  BY <1>1 DEF TreeStep, Step, ProcessL1Batch, SaveL1BatchTreeData, SaveMerklePaths, SaveTree
<1>2. CASE SaveL1BatchCommitmentArtifacts
  BY <1>2 DEF SaveL1BatchCommitmentArtifacts
<1>3. CASE Restart
  BY <1>3 DEF Restart, RunnerNext
<1>4. CASE RunnerWork
  BY <1>4 DEF RunnerNext
<1>5. CASE UNCHANGED metadataVars
  BY <1>5 DEF metadataVars
<1>. QED
  BY <1>1, <1>2, <1>3, <1>4, <1>5 DEF MetadataNext

\* The latest processed batch does not go back, not even with a stop.
LEMMA LatestGrows ==
    ASSUME RunnerInv, [RunnerNext]_runnerVars
    PROVE  factory.latest <= factory'.latest
<1>0. factory.latest \in Int
  BY DEF RunnerInv, RunnerTypeOK
<1>1. CASE Stop
  BY <1>0, <1>1, LatestProcessedIs DEF Stop, Started, RunnerInv
<1>2. CASE FactoryStep
  BY <1>0, <1>2 DEF FactoryStep, TakeHandler, MarkAsCompleted, RunnerInv, RunnerTypeOK
<1>3. CASE LoaderStep
  BY <1>0, <1>3
  DEF LoaderStep, ApplyBatch, CaughtUp, ReadLatest, Retain, LoadDiff, loaderRest
<1>4. CASE RunnerStep
  BY <1>0, <1>4 DEF RunnerStep, LoadBatch, CreateHandler, MarkAsProcessing
<1>5. CASE Seal \/ UNCHANGED runnerVars
  BY <1>0, <1>5 DEF Seal, runnerVars, memoryVars
<1>6. ASSUME NEW b \in Batch, TaskStep(b) PROVE factory' = factory
  BY <1>6 DEF TaskStep, ProcessBatch, HandleL1Batch
<1>. QED
  BY <1>0, <1>1, <1>2, <1>3, <1>4, <1>5, <1>6 DEF RunnerNext, RunnerWork

-----------------------------------------------------------------------------
(* The inductive invariant *)

\* The invariant holds initially.
LEMMA MetadataInitInv == MetadataInit => MetadataInv
<1>. SUFFICES ASSUME MetadataInit PROVE MetadataInv
  OBVIOUS
<1>1. RunnerInv
  BY InitInv DEF MetadataInit
<1>. QED
  BY <1>1, RunnerAssumption
  DEF MetadataInit, MetadataInv, MetadataTypeOK, TreeState, RunnerInv, TreeInv, MerklePathsAreComplete,
      SavedIsRecorded, Batch

\* The types of the variables the tree writes.
LEMMA TreeTypes ==
    ASSUME MetadataInv
    PROVE  /\ tree.next \in 1 .. MaxBatch + 1 /\ tree.last \in 0 .. MaxBatch
           /\ tree.complete \in BOOLEAN /\ hashed \in 0 .. MaxBatch /\ saved \in 0 .. MaxBatch
           /\ commitments \in 0 .. MaxBatch /\ factory.latest \in 0 .. MaxBatch
           /\ MaxBatch \in Nat /\ MaxL1BatchesPerIter \in Nat \ {0}
<1>. QED
  BY RunnerAssumption, MetadataAssumption
  DEF MetadataInv, MetadataTypeOK, TreeState, RunnerInv, RunnerTypeOK

\* A batch that is processed has its protective reads.
LEMMA ProcessedHasReads ==
    ASSUME MetadataInv, NEW b \in 1 .. factory.latest
    PROVE  HasReads(b)
<1>. QED
  BY TreeTypes DEF MetadataInv, RunnerInv, ProcessedInv, HasReads, Batch

\* Max of two numbers.
LEMMA MaxOfTwo ==
    ASSUME NEW m \in Int, NEW n \in Int
    PROVE  Max({m, n}) = IF n > m THEN n ELSE m
<1>1. CASE n > m
  BY <1>1, MaxIs
<1>2. CASE ~(n > m)
  BY <1>2, MaxIs
<1>. QED
  BY <1>1, <1>2

\* step takes the batches whose protective reads are there, up to the limit.
LEMMA StepInv ==
    ASSUME MetadataInv, RunnerInv', Step
    PROVE  MetadataInv'
<1> DEFINE to == Min({tree.next + MaxL1BatchesPerIter - 1, LatestProcessed})
<1>0. UNCHANGED <<factory, saved, hashed, merkle_paths, details, commitments>>
  BY DEF Step, runnerVars, memoryVars
<1>1. LatestProcessed = factory.latest /\ tree.next <= factory.latest
  BY LatestProcessedIs DEF Step, LastWithProtectiveReads, MetadataInv, RunnerInv
<1>2. to \in tree.next .. factory.latest
  BY <1>1, TreeTypes, MinOfTwo
<1>3. HasReads(tree.next)
  BY <1>1, TreeTypes, ProcessedHasReads
<1>4. tree' = [tree EXCEPT !.pc = "process", !.complete = TRUE, !.last = to]
  BY <1>3 DEF Step, LastWithProtectiveReads, HasReads
<1> HIDE DEF to
<1>5. /\ tree'.pc = "process" /\ tree'.complete = TRUE /\ tree'.last = to
      /\ tree'.next = tree.next
  BY <1>4 DEF MetadataInv, MetadataTypeOK
<1>6. tree' \in TreeState
  <2>1. to \in 0 .. MaxBatch
    BY <1>2, TreeTypes
  <2>. QED
    BY <1>4, <2>1 DEF MetadataInv, MetadataTypeOK, TreeState
<1>7. MetadataTypeOK'
  BY <1>0, <1>6 DEF MetadataInv, MetadataTypeOK, RunnerInv
<1>8. TreeInv'
  BY <1>0, <1>2, <1>5, TreeTypes DEF MetadataInv, TreeInv
<1>. QED
  BY <1>0, <1>7, <1>8 DEF MetadataInv, MerklePathsAreComplete, SavedIsRecorded

\* process_l1_batch extends the tree and stores the Merkle paths.
LEMMA ProcessL1BatchInv ==
    ASSUME MetadataInv, RunnerInv', ProcessL1Batch
    PROVE  MetadataInv'
<1>0. UNCHANGED <<factory, saved, hashed, details, commitments>>
  BY DEF ProcessL1Batch, runnerVars, memoryVars
<1>1. tree.next <= tree.last /\ tree.last <= factory.latest /\ tree.complete /\ tree.pc = "process"
  BY DEF ProcessL1Batch, MetadataInv, TreeInv
<1>2. merkle_paths' = [merkle_paths EXCEPT ![tree.next] = "complete"]
  BY <1>1 DEF ProcessL1Batch
<1>3. tree.next < tree.last => HasReads(tree.next + 1)
  BY <1>1, TreeTypes, ProcessedHasReads
<1>4. tree' = [tree EXCEPT !.pc = "hash", !.complete = TRUE]
  BY <1>3 DEF ProcessL1Batch, HasReads
<1>5. /\ tree'.pc = "hash" /\ tree'.complete = TRUE /\ tree'.last = tree.last
      /\ tree'.next = tree.next /\ tree' \in TreeState
  BY <1>4 DEF MetadataInv, MetadataTypeOK, TreeState
<1>6. MetadataTypeOK'
  BY <1>0, <1>2, <1>5 DEF MetadataInv, MetadataTypeOK, RunnerInv
<1>7. TreeInv'
  BY <1>0, <1>1, <1>5, TreeTypes DEF MetadataInv, TreeInv
<1>8. MerklePathsAreComplete'
  BY <1>2 DEF MetadataInv, MetadataTypeOK, MerklePathsAreComplete
<1>. QED
  BY <1>0, <1>6, <1>7, <1>8 DEF MetadataInv, SavedIsRecorded

\* save_l1_batch_tree_data: the hash of the batch goes to Postgres.
LEMMA SaveL1BatchTreeDataInv ==
    ASSUME MetadataInv, RunnerInv', SaveL1BatchTreeData
    PROVE  MetadataInv'
<1>0. UNCHANGED <<factory, saved, merkle_paths, details, commitments>>
  BY DEF SaveL1BatchTreeData, runnerVars, memoryVars
<1>1. tree.next <= tree.last /\ tree.last <= factory.latest /\ tree.pc = "hash"
  BY DEF SaveL1BatchTreeData, MetadataInv, TreeInv
<1>2. hashed' = IF tree.next > hashed THEN tree.next ELSE hashed
  BY TreeTypes, MaxOfTwo DEF SaveL1BatchTreeData
<1>3. hashed' \in 0 .. MaxBatch /\ hashed <= hashed' /\ tree.next <= hashed'
  BY <1>1, <1>2, TreeTypes
<1>4. /\ tree'.pc = "details" /\ tree'.complete = tree.complete /\ tree'.last = tree.last
      /\ tree'.next = tree.next /\ tree' \in TreeState
  BY DEF SaveL1BatchTreeData, MetadataInv, MetadataTypeOK, TreeState
<1>5. MetadataTypeOK'
  BY <1>0, <1>3, <1>4 DEF MetadataInv, MetadataTypeOK, RunnerInv
<1>6. TreeInv'
  BY <1>0, <1>1, <1>3, <1>4, TreeTypes DEF MetadataInv, TreeInv
<1>7. SavedIsRecorded'
  BY <1>0, <1>3, TreeTypes DEF MetadataInv, SavedIsRecorded
<1>. QED
  BY <1>0, <1>5, <1>6, <1>7 DEF MetadataInv, MerklePathsAreComplete

\* The row of proof_generation_details is inserted; the next batch of the range.
LEMMA SaveMerklePathsInv ==
    ASSUME MetadataInv, RunnerInv', SaveMerklePaths
    PROVE  MetadataInv'
<1>0. UNCHANGED <<factory, saved, hashed, merkle_paths, commitments>>
  BY DEF SaveMerklePaths, runnerVars, memoryVars
<1>1. /\ tree.next <= tree.last /\ tree.last <= factory.latest /\ tree.pc = "details"
      /\ tree.next <= hashed /\ (tree.next < tree.last => tree.complete)
  BY DEF SaveMerklePaths, MetadataInv, TreeInv
<1>2. /\ tree'.pc = IF tree.next = tree.last THEN "save" ELSE "process"
      /\ tree'.complete = tree.complete /\ tree'.last = tree.last
      /\ tree'.next = tree.next + 1
  BY DEF SaveMerklePaths, MetadataInv, MetadataTypeOK, TreeState
<1>3. tree' \in TreeState
  <2>1. tree.next + 1 \in 1 .. MaxBatch + 1
    BY <1>1, TreeTypes
  <2>. QED
    BY <2>1 DEF SaveMerklePaths, MetadataInv, MetadataTypeOK, TreeState
<1>4. details' = details \cup {tree.next} /\ details' \in SUBSET Batch
  BY <1>1, TreeTypes DEF SaveMerklePaths, MetadataInv, MetadataTypeOK, Batch
<1>5. MetadataTypeOK'
  BY <1>0, <1>3, <1>4 DEF MetadataInv, MetadataTypeOK, RunnerInv
<1>6. TreeInv'
  <2>1. 1 .. tree'.next - 1 \subseteq details'
    BY <1>2, <1>4, TreeTypes DEF MetadataInv, TreeInv
  <2>2. tree'.pc = "process" => tree.next < tree.last /\ tree'.complete
    BY <1>1, <1>2, TreeTypes
  <2>. QED
    BY <1>0, <1>1, <1>2, <2>1, <2>2, TreeTypes DEF MetadataInv, TreeInv
<1>7. SavedIsRecorded'
  BY <1>0, <1>4 DEF MetadataInv, SavedIsRecorded
<1>. QED
  BY <1>0, <1>5, <1>6, <1>7 DEF MetadataInv, MerklePathsAreComplete

\* The tree is saved after the last batch of the range.
LEMMA SaveTreeInv ==
    ASSUME MetadataInv, RunnerInv', SaveTree
    PROVE  MetadataInv'
<1>0. UNCHANGED <<factory, hashed, merkle_paths, details, commitments>>
  BY DEF SaveTree, runnerVars, memoryVars
<1>1. tree.next = tree.last + 1 /\ tree.last <= factory.latest /\ saved' = tree.last
  BY DEF SaveTree, MetadataInv, TreeInv
<1>2. /\ tree'.pc = "idle" /\ tree'.complete = tree.complete /\ tree'.last = tree.last
      /\ tree'.next = tree.next /\ tree' \in TreeState
  BY DEF SaveTree, MetadataInv, MetadataTypeOK, TreeState
<1>3. MetadataTypeOK'
  BY <1>0, <1>1, <1>2, TreeTypes DEF MetadataInv, MetadataTypeOK, RunnerInv
<1>4. TreeInv'
  BY <1>0, <1>1, <1>2, TreeTypes DEF MetadataInv, TreeInv
<1>5. SavedIsRecorded'
  BY <1>0, <1>1, TreeTypes DEF MetadataInv, TreeInv, SavedIsRecorded
<1>. QED
  BY <1>0, <1>3, <1>4, <1>5 DEF MetadataInv, MerklePathsAreComplete

\* A restart of the node, of the VM runner and of the tree.
LEMMA RestartInv ==
    ASSUME MetadataInv, RunnerInv', Restart
    PROVE  MetadataInv'
<1>0. UNCHANGED <<hashed, merkle_paths, details, commitments>>
  BY DEF Restart
<1>1. saved' = saved
  BY TreeTypes, MinOfTwo DEF Restart, MetadataInv, SavedIsRecorded
<1>2. tree' = [pc |-> "idle", next |-> saved + 1, last |-> 0, complete |-> TRUE]
  BY <1>1 DEF Restart, FirstBatch
<1>3. MetadataTypeOK'
  BY <1>0, <1>1, <1>2, TreeTypes DEF MetadataInv, MetadataTypeOK, RunnerInv, TreeState
<1>4. TreeInv'
  BY <1>0, <1>1, <1>2, TreeTypes DEF MetadataInv, TreeInv, SavedIsRecorded
<1>. QED
  BY <1>0, <1>1, <1>3, <1>4 DEF MetadataInv, MerklePathsAreComplete, SavedIsRecorded

\* Every step of the composed system preserves the invariant.
LEMMA MetadataNextInv ==
    ASSUME MetadataInv, [MetadataNext]_metadataVars
    PROVE  MetadataInv'
<1>0. RunnerInv' /\ factory.latest <= factory'.latest
  BY NextInv, StepsOfRunner, LatestGrows DEF MetadataInv
<1>1. CASE UNCHANGED treeVars
  <2>1. UNCHANGED <<tree, saved, hashed, merkle_paths, details, commitments>>
    BY <1>1 DEF treeVars
  <2>2. MetadataTypeOK'
    BY <1>0, <2>1 DEF MetadataInv, MetadataTypeOK, RunnerInv
  <2>3. factory'.latest \in 0 .. MaxBatch
    BY <1>0 DEF RunnerInv, RunnerTypeOK
  <2>4. TreeInv'
    BY <1>0, <2>1, <2>3, TreeTypes DEF MetadataInv, TreeInv
  <2>. QED
    BY <1>0, <2>1, <2>2, <2>4 DEF MetadataInv, MerklePathsAreComplete, SavedIsRecorded
<1>2. CASE SaveL1BatchCommitmentArtifacts
  <2>1. /\ UNCHANGED <<factory, tree, saved, hashed, merkle_paths, details>>
        /\ commitments' = commitments + 1 /\ commitments < hashed
    BY <1>2 DEF SaveL1BatchCommitmentArtifacts, runnerVars, memoryVars
  <2>2. MetadataTypeOK'
    BY <1>0, <2>1, TreeTypes DEF MetadataInv, MetadataTypeOK, RunnerInv
  <2>3. TreeInv'
    BY <2>1, TreeTypes DEF MetadataInv, TreeInv
  <2>. QED
    BY <1>0, <2>1, <2>2, <2>3 DEF MetadataInv, MerklePathsAreComplete, SavedIsRecorded
<1>. QED
  BY <1>0, <1>1, <1>2, StepInv, ProcessL1BatchInv, SaveL1BatchTreeDataInv,
     SaveMerklePathsInv, SaveTreeInv, RestartInv
  DEF MetadataNext, TreeStep, metadataVars

\* The invariant of the tree and the VM runner.
LEMMA MetadataInvariant == MetadataSpec => []MetadataInv
<1>. QED
  BY MetadataInitInv, MetadataNextInv, PTL DEF MetadataSpec

\* The Merkle paths of a batch are computed from all its protective reads, although
\* the tree looks only at the number of the latest processed batch.
THEOREM TreeHasAllReads == MetadataSpec => []MerklePathsAreComplete
<1>1. MetadataInv => MerklePathsAreComplete
  BY DEF MetadataInv
<1>. QED
  BY <1>1, MetadataInvariant, PTL

\* What the tree has saved is in Postgres, so that the restart leaves out no batch.
THEOREM TreeIsBehindPostgres == MetadataSpec => []SavedIsRecorded
<1>1. MetadataInv => SavedIsRecorded
  BY DEF MetadataInv
<1>. QED
  BY <1>1, MetadataInvariant, PTL

\* The types, and with them that no index leaves the range of the batches.
THEOREM MetadataTypes == MetadataSpec => []MetadataTypeOK
<1>1. MetadataInv => MetadataTypeOK
  BY DEF MetadataInv
<1>. QED
  BY <1>1, MetadataInvariant, PTL

\* The composed system is a VM runner: what is proved of RunnerSpec holds of it, with
\* the fairness.
THEOREM MetadataImplementsRunner == MetadataSpec => RunnerSpec
<1>1. MetadataInit => RunnerInit
  BY DEF MetadataInit
<1>. QED
  BY <1>1, StepsOfRunner, PTL DEF MetadataSpec, RunnerSpec
=============================================================================
