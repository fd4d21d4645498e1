# A TLA+ verification of the Via sequencer

Via is a layer 2 on Bitcoin, a fork of zkSync Era.  One process, `via_server`, runs the
sequencer as a set of tasks that do not call each other: they communicate through PostgreSQL
tables, each task polling for the rows another one left there.  The code that Via adds to its
upstream project, and that this project verifies, connects that process to two networks which
fail, forget and answer late: Celestia, where the data of batches and proofs is published, and
Bitcoin, where batches are settled by inscriptions and deposits arrive.  The project also follows
a batch through the parts that come from upstream and lie between its sealing and its settlement:
the second execution that finds its protective reads, the Merkle tree, the commitment, and the
prover with its own database.

```
                         Bitcoin ---- deposits ----> BTC watch --> transactions --> mempool
                            ^                                                          |
      inscriptions          |                                                     state keeper
   inscription manager -----+                                                          |
            ^                                                                       batches
            | requests                                                                 |
   inscription aggregator <-- blob ids, inclusion data -- DA dispatcher          VM runners
                                                            |      ^                   |
                                                            v      |           protective reads
                                                        Celestia   |                   |
                                                                   |              Merkle tree
                              prover <--> proof data handler --> proofs,               |
                                                   ^            commitments <----------+
                                                   +--- Merkle paths, VM data ---------+
```

## 1. Inventory

| component | state | operations | talks to |
|---|---|---|---|
| DA dispatcher (`core/node/via_da_dispatcher`) | table `via_data_availability`; position in its three loops | `dispatch` (pubdata), `dispatch_proofs` (real or dummy), `poll_for_inclusion`, joined once per round; `retry` | Celestia client; batches and proofs in the database |
| inscription aggregator (`core/node/via_btc_sender`) | tables `via_l1_batch_inscription_request`, `via_btc_inscriptions_request`; the operation it has read | `get_commit_proof_operation`, `get_commit_l1_batch_operation`, publish criteria, one transaction that queues requests and links | database only |
| inscription manager (same crate) | table `via_btc_inscriptions_request_history`; the inscriber's context | confirm or re-send what is in flight, then send new requests | Bitcoin node, database |
| BTC watch (`core/node/via_btc_watch`) | L1 rows of `transactions`; position in the chain and next priority id, in memory | start, poll, read blocks, check, insert, start over after an error | Bitcoin node, database |
| indexer and parser (`core/lib/via_btc_client/src/indexer`) | bootstrap state (bridge, verifiers, proposal, votes) | bootstrap, `process_blocks` | Bitcoin node |
| inscriber (`core/lib/via_btc_client/src/inscriber`) | queue of unconfirmed inscriptions, in memory | `prepare_inscribe`, `inscribe`, `sync_context_with_blockchain` | Bitcoin node |
| VM runner (`core/node/vm_runner`) | table `vm_runner_protective_reads`; RocksDB; diffs in memory; an executor and an output handler per batch | load, execute, write the output, record as completed in order, move the cache | database, RocksDB |
| metadata calculator (`core/node/metadata_calculator`) | the tree in RocksDB; columns of `l1_batches` | per iteration: process some batches, write their hashes and Merkle paths, save the tree | database, object store |
| prover (`prover/crates`) | job tables of six rounds | take, finish, fail a job; queue what is complete, queue again what is stuck | its own database, the gateway |
| prover gateway | two pollers | fetch a batch to prove, submit its proof | proof data handler, over HTTP |
| mempool (`core/lib/mempool`, `mempool_actor.rs`) | pending L1 and L2 transactions, priority queue, next priority id | `insert`, `next_transaction`, `rollback`, `gc`; the fetcher's loop with `sync_mempool` | shared by fetcher and state keeper; database |
| state keeper (`core/node/via_state_keeper`) | open batch and L2 block | take, execute, include, exclude or reject a transaction; seal blocks and batches; restore after a restart | mempool, VM, database |
| commitment generator, proof data handler | columns of `l1_batches`, `proof_generation_details` | write commitments in order; lock, unlock and answer for a batch to prove, store its proof | database, gateway |

What is hard about them, and the property that makes each one correct:

- **Interleaving.**  The three loops of the dispatcher share a table and a barrier; aggregator
  and manager work on the same requests; every task reads, awaits a network and then writes.
  Correct means: what is written belongs to the row it is written to (`StoredBlobIsOwn`,
  `InclusionIsOfStoredBlob`, `CommitRequestsInOrder`, `ProofReferencesConfirmedCommit`).  The
  fetcher and the state keeper share the mempool behind a lock that is taken per call, while a
  third task writes blocks (`StoreIsConsistent`, `NonceIsExact`).
  The executors of the VM runner read a cache that another task moves under them
  (`ReadsStateBeforeBatch`), and a prover that was too slow reports beside the one that
  replaced it (`AggregatesAllProofs`, `ProofIsOfAllCircuits`).
- **Failure half-way.**  A blob is paid for before its id is stored; an inscription is broadcast
  before its history row is written; ids are given out before deposits are stored.  Correct
  means: after a crash or a failed call nothing is lost, doubled or confused
  (`NoUnexplainedBlob`, `ConfirmedIsNotResent`, `CreditedOnce`, `NothingIsSkipped`,
  `PriorityOpsInOrder`, `ExecutedIsRecorded`, `OldestIsNotReplaced`, `SavedIsRecorded`,
  `SentIsStored`, `GeneratedIsKept`).
- **Ordering.**  The aggregator panics on a list with a hole, although no query forbids one:
  what keeps the list whole is the order in which four other tasks fill the tables
  (`ImplementsPromise`, the theorem `AggregatorNeverPanics`).  The tree trusts the number of
  the latest processed batch of a runner whose batches finish in any order (`KeepsPromise`,
  `MerklePathsAreComplete`).
- **A chain that moves.**  Transactions get stuck, leave the mempool, and are reorganised away
  (`ConfirmedIsOnChain`, `CreditedIsOnChain`, `InscribedOnce`).
- **Something that must happen.**  Every batch has to be committed to, proven and settled, every
  deposit credited (`SealedIsCommitted`, `BatchIsProven`, `BlobsAreIncluded`,
  `ReadyBatchIsSettled`, `InscribeSucceeds`, `LaterDepositIsCredited`,
  `NextIsExecuted`).

`PROJECT.json` lists every component, also those that are not modelled, and under `hazards`
each place in the code where one of these difficulties bites.

## 2. Modules

| module | models | built on |
|---|---|---|
| `ViaDb` | the Via tables with their queries, and the writers upstream of them | |
| `DaPromise` | what the DA dispatcher promises to the readers of `via_data_availability` | `ViaDb` |
| `DaDispatcher` | `da_dispatcher.rs` and the Celestia client as it sees it | `ViaDb`; implements `DaPromise` |
| `PublishCriteria` | `publish_criterion.rs`, `extract_ready_subrange`, the sequence check | |
| `BtcSender` | inscription aggregator and inscription manager, with Bitcoin | `DaPromise`, `PublishCriteria` |
| `Inscriber` | the inscriber with its queue, and Bitcoin's mempool as it sees it | |
| `Indexer` | the bootstrap state of the indexer: proposals, votes, majority | |
| `BtcWatch` | BTC watch with the chain it reads and the rows it writes | `Indexer` |
| `MCBtcWatch` | the bootstrap lists of the instance | `BtcWatch` |
| `VmRunnerPromise` | what a VM runner promises to the readers of its table | |
| `VmRunner` | the VM runner of the protective reads: loader, loop, executors, output handlers | implements `VmRunnerPromise` |
| `MetadataCalculator` | VM runner, Merkle tree updater and commitment generator, composed | `VmRunner` |
| `ProverJobs` | the job tables of the prover, its workers and its job monitor | |
| `ProofGeneration` | `proof_generation_details`, proof data handler, gateway and prover, composed | `ProverJobs` |
| `MCProofGeneration` | the circuits of the instance | `ProofGeneration` |
| `MempoolStore` | the mempool as a data structure: each method an operator on stores | |
| `Mempool` | fetcher, state keeper and L2 block sealer around one store and the table `transactions` | `MempoolStore` |
| `MCMempool` | the transactions of the instances | `Mempool` |
| `QueryLemmas`, `BtcSenderProofs`, `BtcSenderLimits` | proofs | `BtcSender` |
| `DaDispatcherProofs` | proofs | `DaDispatcher` |
| `VmRunnerProofs`, `MetadataProofs` | proofs | `VmRunner`, `MetadataCalculator` |
| `ProofGenerationProofs` | proofs | `ProofGeneration` |

**ViaDb.**  Batches are numbers `1 .. MaxBatch`.  `sealed`, `commitments` and `generated` say
which batches exist, have a commitment and have a proof; `via_data_availability[kind][batch]` is
a row of that table; `requests`, `history` and `inscription_request` are the three tables of
the BTC sender, with serial ids as positions.  Each query is a set of batch numbers, and
`Limit(rows, n)` is `ORDER BY ... LIMIT n`.

**DaDispatcher.**  `sending["batch"]` and `sending["proof"]` are the two loops that submit blobs,
`polling` is the inclusion loop, and a step of each lies between two awaits.  `celestia` is the
sequence of blobs the DA layer has accepted.  A call may fail, may succeed while its answer is
lost, a write may fail and the process may be restarted.  `retry` makes `MaxRetries + 1` calls.

**DaPromise** is the interface between the two halves: blobs and inclusion data of batches appear
in batch order, a proof blob after its batch's blob, and nothing stored changes.  `BtcSender`
takes its environment from here, so that the two tasks are checked, and proved, against
anything a dispatcher of this kind may do and not against one schedule of it.

**BtcSender.**  `aggregator.pc` goes through `idle` (ask for proofs), `commits` (ask for
commits) and `write`; `manager.pc` through the loops of `update_inscription_status_or_resend` and
`send_new_inscription_txs`, with `fetch`, `send` and `record` for `send_inscription_tx`.
`bitcoin[t].depth` counts the confirmations of transaction `t` up to `BlockConfirmations`, and
`history[h].age` the blocks since it was sent, up to `BlockResend`: the code compares them with
nothing else.  A `BlockConfirmations` of zero acts like one, since a transaction without a
confirmation is never taken for confirmed; `SenderAssumption` names it so.  Blocks are found
between any two steps; `manager.age` counts those that come between the height a call has read and
the step that uses it.  `AggregatorError`, `ManagerError` and `InsertHistoryError` are the `?` of each call.

`Age` is the passing of time for the deadline criterion.

**Inscriber** looks into the call that is one step (`Inscribe`) in `BtcSender`.  Inscription `k` has
the transactions `<<"commit", k>>` and `<<"reveal", k>>`, and the pair also names the change
output.  `status` is what the Bitcoin node knows of each: its mempool replaces
transactions that spend the same output, with their descendants, and a block takes any transaction
whose parents are confirmed.  `inscriber.pc` stands before the next call to the node:
`sync` (one turn of `sync_context_with_blockchain`), `fetch`, `commit`, `reveal`.  On regtest
`fetch_utxos` scans the chain, elsewhere it asks the node's wallet, which knows what the mempool
spends; both are explored.

**Indexer and BtcWatch.**  A start reads the configured bootstrap transactions one by one
(`ReadBootstrapTx`) until the bootstrap state is complete, or the node does not start.  `Elected` is
the reference definition, stated on the list as a whole and without the state the code keeps: for one
proposal, a majority of the verifiers whose last attestation that refers to it is in favour.
`chain[n]` is the sequence of deposits in block `n`.  One iteration reads the
height (`FetchBlockHeight`), the blocks (`ProcessBlocks`), asks for each message whether it is
known (`CheckMessage`), inserts the new ones (`InsertOp`) and moves on (`BlocksProcessed`).  A
`DatabaseError`, after which the row may be there or not, computes the position again and keeps
the next id, as the code does; any other error ends the task, the node shuts down (`Stop`) and
is started again (`Start`).

**MempoolStore and Mempool.**  A transaction is a position in `Submitted`, the order of the received
times; its record says whether it is an L1 transaction, its account, its nonce (or priority id) and
the fee it pays.  The store is a record with the fields of `mempool_store.rs`; a pointer of the
priority queue is the transaction it points at, so that "dangling" means not being at the nonce of its
account.  `rows[t]` has the columns that queries look at (`in_mempool`, `error`, block or not),
`ledger` the transactions of L2 blocks with a header (deposits in their order), `unbatched` whether
some of these blocks are in no sealed batch.  The fetcher's iteration has a step per statement; the keeper's `pc` follows
`process_l1_batch`, with a step for each time it takes the lock, so that `reinsert` is the second half
of `io.rollback` and `reject` the database half of `io.reject`.  A submitted L2 block is written in two
steps, rows and header.  The VM is external: it accepts an L2 transaction only at its
account's nonce, and may reject it, or run out of batch, for other reasons at any time.  `Panic` is a
failing `expect` of the store, after which the lock is poisoned and the node restarts; `Restart` may
come at any time, with `remove_stuck_txs` (for rows up to any age) before or after the reset of a
half-written block.  L1 transactions are always executable, and restored blocks execute as before.

**VmRunner.**  `rows` is the table `vm_runner_protective_reads`, `rocksdb` the batch whose state the
cache is at, `storage` the diffs held in memory; `loader`, `runner` and `factory` are the three loops,
`tasks[b]` what was spawned for batch `b` with the diffs it was given.  `update_from_postgres`
applies one batch per step (`ApplyBatch`), during which executors go on reading.  A failed check of
the code is the pc `failed`.  `Stop` ends the node at any point and starts it from Postgres and RocksDB.

**MetadataCalculator** adds the tree: `tree.pc` goes through `process`, `hash` (`save_l1_batch_tree_data`),
`details` (the Merkle paths and their row) for each batch of an iteration, then `save` (RocksDB).
Merkle paths are `complete` if the protective reads were all there when the data of the batch was
loaded, which is one batch ahead, as in `process_multiple_batches`.  The commitment generator
takes the next batch that has a hash.  The consistency check of a start is part of `Restart`; in the model
the hashes of tree and Postgres agree, so that what it does is to cut the tree back to the batches
Postgres knows.  The tree is a full one that waits for the VM runner; the other branch of `step`, which
goes up to the last sealed batch (a lightweight tree, or `sealed_batches_have_protective_reads`), is left
out.

**ProverJobs and ProofGeneration** follow one batch.  A job is a record of its table, round, circuit,
depth and sequence number; `jobs[j]` is its row (status and attempts), `workers[j]` how many processes
work on it: more than one if it was queued again while a slow worker went on.  Prover jobs are taken
in one order, the highest round first (`get_next_job`): within a round by circuit, depth and number
instead of the id of the row.  The query of provers that belong to a group
(`get_next_job_for_circuit_id_round`) is left out.  Which jobs there are
follows from the number of basic circuits and the arity (`Aggregated`, `FinalDepth`).  Writes of
one transaction are one step.  `details` is the row of `proof_generation_details`; `fetcher` and
`submitter` are a poller of the gateway together with the handler that answers it, so that an
answer can be lost after it had its effect.  `expired` remembers whether a lock expired while the batch
was proven.

What the models leave out: bytes of messages, scripts, signatures, fees, metrics and logging;
protocol versions and contract hashes (all batches have the same); messages other than deposits
in the blocks the watch reads; a deposit transaction with more than one message.  Of the state keeper:
protocol upgrade transactions, the fictive block, timestamps, a synchronous sealer
(`l2_block_seal_queue_capacity` zero), and what re-execution does with rows a purge has deleted.  Of the
mempool: submitting the same transaction again, equal received times, and the gas per pubdata, which
is part of the fee.

## 3. Runs

`tlc -config <run>.cfg <module>`.  All of them finish in minutes.

| run | module | shows |
|---|---|---|
| `DaSafety` | `DaDispatcher` | two batches, real proofs generated in any order, one fault: blobs and inclusion data are stored where they belong, no blob is paid for twice without a fault, and the dispatcher implements `DaPromise` |
| `DaLive` | `DaDispatcher` | one batch with a dummy proof, one fault: pubdata and proof end up included |
| `BtcMulti` | `BtcSender` | two batches that may share an operation, deadlines, a crash: requests in order, one per batch and kind, nothing inscribed twice while nothing fails and blocks come one at a time, at most `max_txs_in_flight` in flight, both batches settled in the end |
| `BtcResend` | `BtcSender` | one batch, re-sends, an eviction, a reorganisation, a crash: what is confirmed is on the chain, is not sent again, and is what the proof points at |
| `Inscriber` | `Inscriber` | three inscriptions, sent however many are unconfirmed, a failed call or crash, a reorganisation: the oldest of the queue is not driven out by a later one, each is sent in the end |
| `MempoolSafety` | `MCMempool` | any four of five transactions, of two accounts and with two deposits, two prices, a capacity of two, a restart: pointers and size of the store are right, deposits are executed in order and once |
| `MempoolReplace` | `MCMempool` | a transaction replaced at any point, a restart, removal of stuck rows: nonces are exact, executed transactions are recorded, the next transaction is executed or rejected in the end |
| `WatchSafety` | `MCBtcWatch` | bootstrap lists in several orders, of which some elect a sequencer, three deposits, a reorganisation, a database error, a crash: the sequencer is an elected one; credited deposits are on the chain, once, and with none left out; each one from the first credited block on is credited in the end; crashes leave no gap in the priority ids |
| `Metadata` | `MetadataCalculator` | three batches, a window of two, two per iteration of the tree, a stop: executors read the state before their batch, no check of the runner fails, it implements `VmRunnerPromise`, Merkle paths are complete, the saved tree is behind Postgres, every sealed batch gets its commitment and its row for the prover |
| `Proving` | `MCProofGeneration` | five circuits of one kind and one of another, two provers, two faults: jobs have the proofs they aggregate, the stored proof is of all circuits, no proof is forgotten or undone, the batch is proven |

Two runs show a disagreement between the code and what it says of itself; `PROJECT.json` quotes
the line of each under `findings`:

| run | disagreement |
|---|---|
| `BtcStuck` | an inscription that left Bitcoin's mempool is never sent again: asking for it fails and ends every iteration, also for all later requests |
| `MempoolStash` | an account that is stashed while a transaction of it is in the open L2 block comes back with a nonce that does not count it, against the comment on that nonce |

Limits of the passing runs that are limits of the code:

- `ExecutedIsRecorded` needs a mempool below its capacity, because the fetcher deletes the rows of purged
  accounts, those of executing transactions included.  At the capacity `gc` also drops an account whose only
  transaction is being executed, and a rollback then panics ("account is not available in mempool",
  `mempool_store.rs` 196): `MempoolSafety` passes through this panic, and no property forbids it.
- `NonceIsExact` needs prices at which no account is stashed (`MempoolStash`).
- `NextIsExecuted` leaves out transactions that replace one another, of which one may wait for a restart.
- `InscribedOnce` needs `block_confirmations + 2 <= BLOCK_RESEND` (0 and 6 in the repository), blocks that take
  the inscription as soon as it is there, and at most one block between two calls of the manager.  One block
  may be found after `sent_at_block` was read and before the broadcast, another between
  `check_tx_confirmation` and the age test.  With a difference of one, or with several blocks at once, an
  inscription is sent again although nothing failed.
- `OldestIsNotReplaced` is about the oldest inscription of the queue.  The coin that `prepare_commit_tx_input`
  adds is the change of the *first* inscription, which is spent once there is a second one; a third commit
  then drives out the second.  `max_txs_in_flight` does not prevent it: it limits new requests, and
  a re-send calls `inscribe` whatever is queued.
- `SequencerIsElected` excludes a proposal that is replaced after a vote on it: the vote stays and counts for
  the next proposal.  So do the votes when a second `system_bootstrapping` comes, which the lists do
  not have.
- `IdsHaveNoGap` is about crashes; a database error leaves a gap, because ids are given out before
  the rows are written.  `NothingIsSkipped` begins with the first stored deposit; before it a start moves on
  to the current height.
- `GeneratedIsKept` needs that no lock expires while the batch is proven, because `unlock_batch` writes
  `unpicked` whatever the status is by then, so that a second fetch which fails takes the status
  `generated` back.
- `BatchIsProven` needs fewer faults than attempts.

Without a run of their own: `use_dummy_inclusion_data` acts the other way round than documented
(`da_dispatcher.rs` 576, 640: without the flag the empty vector is stored and the client is not asked; both
runs of the dispatcher set the flag, so that the client is asked, and the proofs hold for both values).  Two
comments are inexact: a batch past its deadline publishes the expired batches, not "all the available" ones
(`publish_criterion.rs` 52), and the least of the criteria's answers wins; and `btc_blocks_lag` is a start
position, not a number of blocks to wait (`via_btc_watch.rs`).

**Bounds.**  Two batches are enough for every order of two rows and for one row overtaking another;
three are used where one can be completed, one running and one loaded (`Metadata`).  One
fault of each kind is enough for a fault at every point of an iteration; the code keeps no
count of them except in `retry`, whose limit is one so that both the retry and its end happen.
In `BtcMulti` one confirmation and a re-send age of three are the least for which `InscribedOnce` holds.
In `BtcResend` two confirmations and a re-send age of two give a state strictly between sent and confirmed, in
which the interesting races are.  `MaxTxs`, `MaxBlobs` and `MaxHeight` bound what Bitcoin and
Celestia hold and are chosen so that every fault can be repaired below them.
`WatchSafety` has room for a reorganised block, a deposit mined again and
two later blocks, with two deposits in one block where the order within a block matters.
The mempool runs have four transactions (`MaxSubmitted`): two accounts are needed to stash one in favour of
the other, two nonces for a successor's pointer.  In `MempoolSafety` they are any four of five, so that
two deposits meet two transactions of one account, or one of each.  A capacity of two makes `gc` act; a batch size of two makes the fetcher leave rows behind.
`Inscriber` has three inscriptions, so that a commit can be made with none, one or two in the
queue; a coin more than the change output makes commits with and without a choice.  In `Proving`
five basic circuits at an arity of two need two node aggregations, one circuit needs the least there
is; two faults let a slow worker meet a failure, a crash or a lost answer, below three attempts.
Deadlock is checked for the dispatcher and the sender, which always have a step.  It is not
checked for the other runs, whose systems stop, or wait for a restart that is not
to come, when no batch, block, transaction or request comes any more.

**Fairness.**  The tasks are loops which the runtime keeps polling: weak fairness of their steps.
Networks and database may fail any number of times, but not for ever: strong fairness of the
calls in `DaFairSpec`, and `<>[]` without failed calls in `BtcFairSpec`.  Blocks are found for ever in
`BtcFairSpec`, and time passes; in `BtcMulti` each takes everything in the mempool, and at most one comes
between two calls of the manager (`PromptMining`).  In
`InscriberSpec` the caller tries again after an error and miners take what is in the mempool; nobody has
to pay the address.  In `RunnerFairness` each loop and each spawned task is fair by itself, in
`MetadataSpec` the tree and the commitment generator as well; sealing may stop.  In `ProvingSpec` fairness
is of the subsystem as a whole (it does not stand still while any worker, poller or the monitor can go
on), which is weaker than fairness of each of them.  In `WatchSpec` only the task is fair:
nobody has to find blocks.  In `MempoolFairSpec` the three tasks are fair, each as a whole: nothing
makes the VM accept a transaction, or anyone submit one.

The type invariants (`...TypeOK`) say what the variables range over.  Those of the modules with proofs are
proved; no run spends a property on them.

Each property has a mutant: a definition named `Bug...`, beside the one it replaces, that
changes the model the way a plausible slip in the code would, and under which TLC finds the
property violated.

## 4. Proofs

The theorems hold for every value of the constants that satisfies the named assumptions of the modules:
every number of batches, every limit, window, number of confirmations, re-send age, arity, number of
circuits, workers, attempts and faults (`SenderAssumption`, `PromiseAssumption`, `MaxBatchAssumption`,
`DispatcherAssumption`, `RunnerAssumption`, `MetadataAssumption`, `ProverAssumption`: natural numbers, some of
them positive).

| theorem | states |
|---|---|
| `SenderInvariant` | `BtcSpec => []SenderInv`, the inductive invariant |
| `SenderTypeCorrect` | `[]SenderTypeOK` |
| `CommitsAreInOrder` | `[]CommitRequestsInOrder` |
| `ProofsReferenceConfirmedCommits` | `[]ProofReferencesConfirmedCommit` |
| `ConfirmedRequestsAreOnChain` | `[]ConfirmedIsOnChain` |
| `ConfirmedRequestsAreNotResent` | the action property `ConfirmedIsNotResent` |
| `AggregatorNeverPanics` | `[]NeverPanics` if `MaxAggregatedProofsToCommit <= 1` |
| `InflightIsBounded` | `[]InflightBounded` |
| `DispatcherTypes`, `StoredBlobs`, `InclusionIsOfBlob` | `[]DaTypeOK`, `[]StoredBlobIsOwn`, `[]InclusionIsOfStoredBlob` |
| `DispatcherKeepsPromise` | `DaSpec => ImplementsPromise`: every step of the dispatcher is one of `DaPromise` |
| `ExecutorsReadTheRightState`, `RunnerNeverFails` | `[]ReadsStateBeforeBatch`, `[]NoCheckFails` |
| `RunnerKeepsPromise` | the VM runner implements `VmRunnerPromise`, all but its fairness |
| `TreeHasAllReads`, `TreeIsBehindPostgres`, `MetadataTypes` | `[]MerklePathsAreComplete`, `[]SavedIsRecorded`, `[]MetadataTypeOK` |
| `MetadataImplementsRunner` | `MetadataSpec => RunnerSpec`: what is proved of the runner holds in the composition |
| `ProvingTypes`, `JobsHaveTheirProofs` | `[]ProvingTypeOK`, `[]AggregatesAllProofs` |
| `StoredProofIsComplete` | `[]ProofIsOfAllCircuits` |
| `SentProofIsStored`, `GeneratedStays` | `[]SentIsStored`, `[]GeneratedIsKept` |

*The invariant of the BTC sender.*  None of the properties is inductive, because each depends on what a task has
read and not yet used.  `SenderInv` states that knowledge:

- `HistoryInv`, `ConfirmedInv`: a history row names a transaction that carries its request, and a
  request is confirmed by the *last* transaction sent for it, which is deep enough to stay.
- `TodoInv`, `RequestInv`: the requests a loop of the manager still has to visit are in flight
  (first loop) or were never sent (second loop), and the one it is dealing with is unconfirmed.
  This is why a stale list does no harm: only the manager itself changes these facts, and
  it visits a request once.
- `AggregatorInv`: the rows of an operation are still uncommitted (or confirmed and without a proof)
  when the transaction is written, and the reveal transaction it copied is still the last one.
  This needs that a confirmed request is never sent again.
- `CommitInv`, `ProofInv`, `InclusionInv`: the tables themselves; commit requests belong to a prefix
  of the batches.

`BtcSenderProofs` has a lemma for each action.  `QueryLemmas` has the facts about the queries: `Limit`
returns the first rows, the chosen subrange is a prefix of the list, a convex set of numbers
passes the sequence check.

*No panic.*  `CommitsAreSequential`: uncommitted batches with inclusion data lie between two prefixes
of the batches, that of the commit requests and that of the inclusion data, and are therefore
consecutive whatever the limit.  Nothing of the kind holds for proofs, where only the limit of
one helps.

*Slots.*  `InflightInv` counts, besides the requests in flight, those which the manager has listed and
not yet sent; the list is cut to the free slots when it is made, and afterwards every step
moves a request from one part of the sum to the other.

*The dispatcher.*  `DaInv` states what each loop knows of what it read: `SlotInv` says that the batches a
loop still has to send have predecessors which are stored or in the same list, before it, and that the
blob id to be saved is that of a blob of this batch and kind; `PollInv` that the row being polled still
has the blob id that was read, and that all rows before it are included.  `Grows` lists what other tasks
may do to the tables meanwhile, and one lemma shows that this preserves the knowledge; each action of a
loop is then dealt with alone.  With `SenderInvariant`, which assumes only `DaPromise`, the two halves
of the pipeline are connected by proof.

*The VM runner and the tree.*  `ProcessedInv`: exactly the batches up to `factory.latest` are completed,
and they have outputs.  `TasksInv`: what is executing lies after the latest completed batch and within the
window.  `CacheInv`: the cache never overtakes the latest completed batch, and the diffs in memory cover
everything between the cache and `loader.next`.  That is why an executor's view is right although the
cache moves while it runs: the cache stays below the batch, and what it passes is also among the diffs the
executor was given.  `TreeInv` relates the tree's position to what is in Postgres.

*The prover.*  `CountersInv` bounds the workers of a job by its attempts.  `TablesInv`: prover jobs exist
only when their witness job was successful.  `GatewayInv`: what the pollers know.  `JobStep` lists what
a step may do to the status of a job; that no success is ever undone is what keeps `AggregatesAllProofs`.
`ProofIsOfAllCircuits` follows backwards from the compressed proof: to the scheduler, the recursion tip,
the final node of each circuit, then from depth to depth (`NodesBack`, by the least depth at which it
would fail) to the leaves and the basic circuits (`CompressedIsOfAll`).  That the aggregation ends with one proof
(`AggregationAssumption`) is a fact about a recursive function, which needs induction over data; TLC
evaluates it for the circuits of the instance.

Only model-checked: all liveness (out of the prover's reach); `EachRequestOfOneBatch` and
`InscribedOnce` of the sender; `NoUnexplainedBlob`, which counts blobs; the inscriber, whose chain of
descendants is a closure; BTC watch, whose properties concatenate blocks and would need induction over
sequences; the mempool.

## 5. Not modelled

The upstream code base is much larger than what a batch, a deposit or a transaction passes on its way through the
Via server, and the project follows these ways.  What is left out, and why:

- **Code that computes and keeps no protocol state**: the VM and its executor, the Merkle tree's nodes and
  hashes, commitments, circuits and proofs, witness generation itself, compression; byte formats (the
  inscription parser, pubdata, blob ids, the protobuf and JSON conversions); types, configuration and
  contracts.  A model would restate the functions.
- **Request handling**: the API server, its caches and subscriptions; it reaches the rest through the
  table `transactions`, whose inserts are actions of `Mempool`.
- **What the Via server does not start**: the Ethereum sender and watch, the upstream state keeper and fee
  model, the proof data handler (its configuration is `None` in `via_server/src/config.rs` 63; it is modelled,
  because nothing else writes the proofs that the DA dispatcher sends), the external node with snapshots, pruning and consensus, the handler for trusted execution environments.
- **Operator tools**: block reverter, prover and server command lines, which run while the tasks are stopped.
- **Parts of modelled components**: upgrade transactions, timestamps, the fictive block and re-execution in the
  state keeper; recovery and pruning of the tree; the queues of GPU provers and several batches in
  the prover at once, which share workers and nothing else; more than one message in a Bitcoin transaction.

Two compositions would come next: BTC watch and the L1 half of the mempool over one table (what a gap in
the priority ids does to the deposits behind it), and an abstract ledger that `Mempool` refines.
