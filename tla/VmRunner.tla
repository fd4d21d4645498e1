------------------------------ MODULE VmRunner ------------------------------
(***************************************************************************)
(* A VM runner (vm_runner): it executes sealed batches a second time and   *)
(* hands the result to an output handler; the one modelled here is the     *)
(* protective reads writer, on which the Merkle tree waits.  Three tasks   *)
(* share its memory:                                                       *)
(*   - VmRunner::run loads one batch after the other, as far as the window *)
(*     reaches, and spawns a task for each, which executes it and then     *)
(*     writes its output;                                                  *)
(*   - ConcurrentOutputHandlerFactoryTask waits for the outputs in batch   *)
(*     order and marks the batches as completed;                           *)
(*   - StorageSyncTask moves a RocksDB cache to the latest completed batch *)
(*     and keeps the state diffs of the batches after it in memory.        *)
(* Any error ends the node; it starts again from Postgres and RocksDB.     *)
(*                                                                         *)
(* An executor reads the shared cache through the diffs it was given.      *)
(* Whether it sees the state before its batch depends on all three tasks.  *)
(***************************************************************************)
EXTENDS Integers, FiniteSetsExt

CONSTANTS
    MaxBatch,     \* bound: L1 batches 1 .. MaxBatch (0 is genesis)
    WindowSize,   \* window_size
    MaxStops      \* bound: crashes and errors

ASSUME RunnerAssumption ==
    MaxBatch \in Nat \ {0} /\ WindowSize \in Nat \ {0} /\ MaxStops \in Nat

VARIABLES
    sealed,       \* l1_batches
    rows,         \* vm_runner_protective_reads, by batch
    outputs,      \* batches whose protective reads are written
    rocksdb,      \* the cache is at the state after this batch
    storage,      \* State of VmRunnerStorage
    loader,       \* local state of StorageSyncTask
    runner,       \* local state of VmRunner::run
    tasks,        \* what was spawned for each batch
    handlers,     \* state of ConcurrentOutputHandlerFactory: receivers
    factory,      \* local state of ConcurrentOutputHandlerFactoryTask
    stops         \* what is left of the bound on faults

memoryVars == <<storage, loader, runner, tasks, handlers, factory>>
runnerVars == <<sealed, rows, outputs, rocksdb, memoryVars, stops>>

Batch == 1 .. MaxBatch

\* postgres: a connection to Postgres at the batch before.
NoTask == [stage |-> "none", postgres |-> TRUE, diffs |-> {}]
Task == [stage : {"none", "loaded", "executing", "handling", "handled"},
         postgres : BOOLEAN, diffs : SUBSET Batch]

RunnerTypeOK ==
    /\ sealed \in 0 .. MaxBatch
    /\ rows \in [Batch -> {"none", "processing", "completed"}]
    /\ outputs \in SUBSET Batch
    /\ rocksdb \in 0 .. MaxBatch
    /\ storage \in [rocksdb : BOOLEAN, batches : SUBSET Batch]
    /\ loader \in [pc : {"catchup", "check", "sync", "load", "failed"},
                   latest : 0 .. MaxBatch, next : 1 .. MaxBatch + 1, desired : 0 .. MaxBatch]
    /\ runner \in [pc : {"load", "create", "mark", "failed"}, next : 1 .. MaxBatch + 1]
    /\ tasks \in [Batch -> Task]
    /\ handlers \in SUBSET Batch
    /\ factory \in [pc : {"take", "wait", "failed"}, latest : 0 .. MaxBatch]
    /\ stops \in 0 .. MaxStops

-----------------------------------------------------------------------------
(* vm_runner_dal; 0 is first_processed_batch *)

LatestProcessed == Max({0} \cup {b \in Batch : rows[b] = "completed"})

LastReady == Min({sealed, LatestProcessed + WindowSize})

\* INSERT ... ON CONFLICT leaves time_taken alone.
MarkProcessing(b) == rows' = [rows EXCEPT ![b] = IF @ = "none" THEN "processing" ELSE @]

MarkCompleted(b) == rows' = [rows EXCEPT ![b] = "completed"]

-----------------------------------------------------------------------------
(* The node *)

\* The memory after a start; each task asks for the latest processed batch.
Started(store, load, run, spawned, receivers, fact) ==
    /\ store = [rocksdb |-> FALSE, batches |-> {}]
    /\ load = [pc |-> "catchup", latest |-> LatestProcessed, next |-> 1, desired |-> 0]
    /\ run = [pc |-> "load", next |-> LatestProcessed + 1]
    /\ spawned = [b \in Batch |-> NoTask]
    /\ receivers = {}
    /\ fact = [pc |-> "take", latest |-> LatestProcessed]

RunnerInit ==
    /\ sealed = 0
    /\ rows = [b \in Batch |-> "none"]
    /\ outputs = {}
    /\ rocksdb = 0
    /\ stops = MaxStops
    /\ Started(storage, loader, runner, tasks, handlers, factory)

Seal ==
    /\ sealed < MaxBatch
    /\ sealed' = sealed + 1
    /\ UNCHANGED <<rows, outputs, rocksdb, memoryVars, stops>>

\* A crash, or an error that ended one of the tasks, and the next start.
Stop ==
    /\ stops > 0
    /\ stops' = stops - 1
    /\ UNCHANGED <<sealed, rows, outputs, rocksdb>>
    /\ Started(storage', loader', runner', tasks', handlers', factory')

-----------------------------------------------------------------------------
(* VmRunner::run *)

\* The diff of the batch before is forgotten.
BugDiffsBefore(b) == {c \in storage.batches : c < b - 1}

DiffsBefore(b) == {c \in storage.batches : c < b}

\* One turn of the loop up to load_batch.  The batch stays ready once it is, so
\* that the question and the answer are one step.
LoadBatch ==
    /\ runner.pc = "load"
    /\ runner.next <= LastReady
    /\ storage.rocksdb => runner.next \in storage.batches
    /\ tasks' = [tasks EXCEPT ![runner.next] =
         [stage |-> "loaded", postgres |-> ~storage.rocksdb,
          diffs |-> IF storage.rocksdb THEN DiffsBefore(runner.next) ELSE {}]]
    /\ runner' = [runner EXCEPT !.pc = "create"]
    /\ UNCHANGED <<sealed, rows, outputs, rocksdb, storage, loader, handlers, factory, stops>>

\* create_handler with its two checks.
CreateHandler ==
    /\ runner.pc = "create"
    /\ IF runner.next \in LatestProcessed + 1 .. LastReady
         THEN /\ handlers' = handlers \cup {runner.next}
              /\ runner' = [runner EXCEPT !.pc = "mark"]
         ELSE /\ runner' = [runner EXCEPT !.pc = "failed"]
              /\ UNCHANGED handlers
    /\ UNCHANGED <<sealed, rows, outputs, rocksdb, storage, loader, tasks, factory, stops>>

\* mark_l1_batch_as_processing, then the task is spawned.
MarkAsProcessing ==
    /\ runner.pc = "mark"
    /\ MarkProcessing(runner.next)
    /\ tasks' = [tasks EXCEPT ![runner.next].stage = "executing"]
    /\ runner' = [pc |-> "load", next |-> runner.next + 1]
    /\ UNCHANGED <<sealed, outputs, rocksdb, storage, loader, handlers, factory, stops>>

\* process_batch: the executor is done; its last read is before this step.
ProcessBatch(b) ==
    /\ tasks[b].stage = "executing"
    /\ tasks' = [tasks EXCEPT ![b].stage = "handling"]
    /\ UNCHANGED <<sealed, rows, outputs, rocksdb, storage, loader, runner, handlers, factory, stops>>

\* handle_l1_batch of the protective reads writer: what is there already is only
\* compared.
HandleL1Batch(b) ==
    /\ tasks[b].stage = "handling"
    /\ outputs' = outputs \cup {b}
    /\ tasks' = [tasks EXCEPT ![b] = [NoTask EXCEPT !.stage = "handled"]]
    /\ UNCHANGED <<sealed, rows, rocksdb, storage, loader, runner, handlers, factory, stops>>

-----------------------------------------------------------------------------
(* ConcurrentOutputHandlerFactoryTask::run *)

\* Any handler will do: its number is the latest one.
BugTakeHandler ==
    /\ factory.pc = "take"
    /\ \E b \in handlers :
          /\ handlers' = handlers \ {b}
          /\ factory' = [pc |-> "wait", latest |-> b - 1]
    /\ UNCHANGED <<sealed, rows, outputs, rocksdb, storage, loader, runner, tasks, stops>>

\* The handler of the next batch, once it has been created.
TakeHandler ==
    /\ factory.pc = "take"
    /\ factory.latest + 1 \in handlers
    /\ handlers' = handlers \ {factory.latest + 1}
    /\ factory' = [factory EXCEPT !.pc = "wait"]
    /\ UNCHANGED <<sealed, rows, outputs, rocksdb, storage, loader, runner, tasks, stops>>

\* The handle resolves, and the row is updated; it must be there.
MarkAsCompleted ==
    /\ factory.pc = "wait"
    /\ LET b == factory.latest + 1
       IN /\ tasks[b].stage = "handled"
          /\ IF rows[b] = "none"
               THEN factory' = [factory EXCEPT !.pc = "failed"] /\ UNCHANGED rows
               ELSE factory' = [pc |-> "take", latest |-> b] /\ MarkCompleted(b)
    /\ UNCHANGED <<sealed, outputs, rocksdb, storage, loader, runner, tasks, handlers, stops>>

-----------------------------------------------------------------------------
(* StorageSyncTask::run *)

loaderRest == <<sealed, rows, outputs, runner, tasks, handlers, factory, stops>>

\* update_from_postgres applies one batch after the other, up to loader.latest.
ApplyBatch ==
    /\ loader.pc \in {"catchup", "sync"}
    /\ rocksdb < loader.latest
    /\ rocksdb' = rocksdb + 1
    /\ UNCHANGED <<storage, loader, loaderRest>>

\* The cache refuses to go back.
CaughtUp ==
    /\ loader.pc = "catchup"
    /\ rocksdb >= loader.latest
    /\ loader' = [loader EXCEPT !.pc = IF rocksdb = loader.latest THEN "check" ELSE "failed"]
    /\ UNCHANGED <<rocksdb, storage, loaderRest>>

\* The loop goes to sleep when the cache and the diffs are up to date.
NothingToLoad ==
    /\ rocksdb = LatestProcessed
    /\ LastReady = LatestProcessed \/ LastReady \in storage.batches

\* The cache is moved to what is ready, not to what is processed.
BugReadLatest ==
    /\ loader.pc = "check"
    /\ ~NothingToLoad
    /\ loader' = [loader EXCEPT !.pc = "sync", !.latest = LastReady]
    /\ UNCHANGED <<rocksdb, storage, loaderRest>>

ReadLatest ==
    /\ loader.pc = "check"
    /\ ~NothingToLoad
    /\ loader' = [loader EXCEPT !.pc = "sync", !.latest = LatestProcessed]
    /\ UNCHANGED <<rocksdb, storage, loaderRest>>

\* The cache is there, and the diffs it contains are dropped.
Retain ==
    /\ loader.pc = "sync"
    /\ rocksdb >= loader.latest
    /\ LET kept == {b \in storage.batches : b > loader.latest}
       IN IF rocksdb = loader.latest
            THEN /\ storage' = [rocksdb |-> TRUE, batches |-> kept]
                 /\ loader' = [loader EXCEPT !.pc = "load", !.desired = LastReady,
                                             !.next = Max(kept \cup {loader.latest}) + 1]
            ELSE loader' = [loader EXCEPT !.pc = "failed"] /\ UNCHANGED storage
    /\ UNCHANGED <<rocksdb, loaderRest>>

\* One turn of the loop that loads diffs.
LoadDiff ==
    /\ loader.pc = "load"
    /\ IF loader.next <= loader.desired
         THEN /\ storage' = [storage EXCEPT !.batches = @ \cup {loader.next}]
              /\ loader' = [loader EXCEPT !.next = @ + 1]
         ELSE /\ loader' = [loader EXCEPT !.pc = "check"]
              /\ UNCHANGED storage
    /\ UNCHANGED <<rocksdb, loaderRest>>

LoaderStep == ApplyBatch \/ CaughtUp \/ ReadLatest \/ Retain \/ LoadDiff

RunnerStep == LoadBatch \/ CreateHandler \/ MarkAsProcessing

FactoryStep == TakeHandler \/ MarkAsCompleted

TaskStep(b) == ProcessBatch(b) \/ HandleL1Batch(b)

RunnerWork == Seal \/ LoaderStep \/ RunnerStep \/ FactoryStep \/ \E b \in Batch : TaskStep(b)

RunnerNext == RunnerWork \/ Stop

\* Every task goes on; nobody has to seal batches.
RunnerFairness ==
    /\ WF_runnerVars(LoaderStep) /\ WF_runnerVars(RunnerStep) /\ WF_runnerVars(FactoryStep)
    /\ \A b \in Batch : WF_runnerVars(TaskStep(b))

RunnerSpec == RunnerInit /\ [][RunnerNext]_runnerVars /\ RunnerFairness

-----------------------------------------------------------------------------
(* Properties *)

\* What an executor reads is the state before its batch, at any time until it is
\* done: the shared cache has not moved past it, and what the cache lacks is in the
\* diffs.  StorageSyncTask only assumes this ("we rely on the assumption that no
\* one is holding storage access").
ReadsStateBeforeBatch ==
    \A b \in Batch :
        tasks[b].stage \in {"loaded", "executing"} /\ ~tasks[b].postgres =>
            rocksdb < b /\ rocksdb + 1 .. b - 1 \subseteq tasks[b].diffs

\* No check of the three tasks fails: no handler is created for a processed batch,
\* no batch is completed that is not being processed, and the cache is never ahead
\* of the latest processed batch - also after a stop between any two writes.
NoCheckFails ==
    runner.pc # "failed" /\ factory.pc # "failed" /\ loader.pc # "failed"

\* The table keeps the promise other tasks rely on, although batches are executed
\* at the same time and repeated after a stop.
Promise == INSTANCE VmRunnerPromise WITH processed <- LatestProcessed
KeepsPromise == Promise!PromiseSpec

=============================================================================
