--------------------------- MODULE VmRunnerProofs ---------------------------
(***************************************************************************)
(* The VM runner for any number of batches, any window and any number of   *)
(* stops: an executor reads the state before its batch, no check of the    *)
(* tasks fails, and the table keeps its promise.                           *)
(*                                                                         *)
(* The argument rests on the number of the latest completed batch, which   *)
(* the factory task also keeps in memory: it separates what RocksDB may    *)
(* contain (nothing after it) from what may still be executed (nothing up  *)
(* to it).                                                                 *)
(***************************************************************************)
EXTENDS VmRunner, TLAPS

\* The rows up to factory.latest are completed, the later ones are not, and the
\* outputs of the former are written.
ProcessedInv ==
    \A b \in Batch :
        /\ rows[b] = "completed" <=> b <= factory.latest
        /\ rows[b] = "completed" => b \in outputs

\* What has been spawned is before runner.next and has its row; what is not yet
\* handled is not completed.
TasksInv ==
    /\ factory.latest < runner.next
    /\ runner.pc # "load" =>
          /\ runner.next <= sealed /\ runner.next <= factory.latest + WindowSize
          /\ tasks[runner.next].stage = "loaded"
    /\ \A b \in Batch :
          /\ tasks[b].stage = "loaded" => b = runner.next /\ runner.pc # "load"
          /\ tasks[b].stage \in {"executing", "handling", "handled"} =>
                b < runner.next /\ rows[b] # "none" /\ b <= sealed
                /\ b <= factory.latest + WindowSize
          /\ tasks[b].stage \in {"loaded", "executing", "handling"} => factory.latest < b
          /\ tasks[b].stage = "handled" => b \in outputs
    /\ factory.pc = "wait" => factory.latest < MaxBatch

\* The cache is at most where the loader wants it, which is at most at the latest
\* completed batch; the diffs are those after the cache and before loader.next.
CacheInv ==
    /\ rocksdb <= loader.latest /\ loader.latest <= factory.latest
    /\ \A b \in storage.batches : b < loader.next
    /\ ~storage.rocksdb => storage.batches = {} /\ loader.pc # "load"
    /\ storage.rocksdb => loader.pc # "catchup"
    /\ storage.rocksdb =>
          \A b \in Batch : rocksdb < b /\ b < loader.next => b \in storage.batches
    /\ loader.pc = "load" => rocksdb = loader.latest /\ loader.latest < loader.next

RunnerInv ==
    /\ RunnerTypeOK /\ ProcessedInv /\ TasksInv /\ CacheInv
    /\ ReadsStateBeforeBatch /\ NoCheckFails

-----------------------------------------------------------------------------
(* What the queries return *)

\* Max of a set whose greatest element is known (get_..._latest_processed_batch and
\* the upper end of the loaded diffs).
LEMMA MaxIs ==
    ASSUME NEW S \in SUBSET Int, NEW m \in S, \A x \in S : x <= m
    PROVE  Max(S) = m
<1>1. \A x \in S : (\A y \in S : x >= y) => x = m
  OBVIOUS
<1>2. \A y \in S : m >= y
  OBVIOUS
<1>. QED
  BY <1>1, <1>2 DEF Max

\* Min of two numbers (LEAST in get_..._last_ready_batch).
LEMMA MinOfTwo ==
    ASSUME NEW m \in Int, NEW n \in Int
    PROVE  Min({m, n}) = IF m <= n THEN m ELSE n
<1>1. CASE m <= n
  BY <1>1 DEF Min
<1>2. CASE ~(m <= n)
  BY <1>2 DEF Min
<1>. QED
  BY <1>1, <1>2

\* The greatest completed row, when the completed ones have no gap.
LEMMA GreatestCompleted ==
    ASSUME NEW row, NEW last \in 0 .. MaxBatch,
           \A b \in Batch : row[b] = "completed" <=> b <= last
    PROVE  Max({0} \cup {b \in Batch : row[b] = "completed"}) = last
<1> DEFINE S == {0} \cup {b \in Batch : row[b] = "completed"}
<1>1. S \in SUBSET Int /\ \A x \in S : x <= last
  BY DEF Batch
<1>2. last \in S
  BY RunnerAssumption DEF Batch
<1>. QED
  BY <1>1, <1>2, MaxIs

\* The latest processed batch of the table is the one the factory task keeps in
\* memory.
LEMMA LatestProcessedIs ==
    ASSUME RunnerTypeOK, ProcessedInv
    PROVE  LatestProcessed = factory.latest
<1>. QED
  BY GreatestCompleted DEF LatestProcessed, RunnerTypeOK, ProcessedInv

\* The same after a step.
LEMMA LatestProcessedIsPrimed ==
    ASSUME RunnerTypeOK', ProcessedInv'
    PROVE  LatestProcessed' = factory'.latest
<1>. QED
  BY GreatestCompleted DEF LatestProcessed, RunnerTypeOK, ProcessedInv

\* What is ready is sealed and within the window.
LEMMA LastReadyIs ==
    ASSUME RunnerTypeOK, ProcessedInv
    PROVE  /\ LastReady \in 0 .. MaxBatch
           /\ \A b \in Int : b <= LastReady <=>
                 b <= sealed /\ b <= factory.latest + WindowSize
<1>1. sealed \in 0 .. MaxBatch /\ factory.latest \in 0 .. MaxBatch /\ WindowSize \in Nat
  BY RunnerAssumption DEF RunnerTypeOK
<1>2. LastReady = IF sealed <= factory.latest + WindowSize
                    THEN sealed ELSE factory.latest + WindowSize
  BY <1>1, LatestProcessedIs, MinOfTwo DEF LastReady
<1>. QED
  BY <1>1, <1>2, RunnerAssumption

-----------------------------------------------------------------------------
(* The inductive invariant *)

\* A start of the node leaves the invariant true: all memory is computed from
\* the table.
LEMMA StartedInv ==
    ASSUME RunnerTypeOK, ProcessedInv, rocksdb <= factory.latest,
           stops' \in 0 .. MaxStops, UNCHANGED <<sealed, rows, outputs, rocksdb>>,
           Started(storage', loader', runner', tasks', handlers', factory')
    PROVE  RunnerInv'
<1>1. LatestProcessed = factory.latest /\ factory.latest \in 0 .. MaxBatch
  BY LatestProcessedIs DEF RunnerTypeOK
<1>2. RunnerTypeOK'
  BY <1>1, RunnerAssumption DEF RunnerTypeOK, Started, Task, NoTask
<1>3. ProcessedInv'
  BY <1>1 DEF ProcessedInv, Started
<1>4. TasksInv'
  BY <1>1 DEF TasksInv, Started, NoTask
<1>5. CacheInv'
  BY <1>1 DEF CacheInv, Started, RunnerTypeOK
<1>6. ReadsStateBeforeBatch' /\ NoCheckFails'
  BY DEF ReadsStateBeforeBatch, NoCheckFails, Started, NoTask
<1>. QED
  BY <1>2, <1>3, <1>4, <1>5, <1>6 DEF RunnerInv

\* The invariant holds initially.
LEMMA InitInv == RunnerInit => RunnerInv
<1>. SUFFICES ASSUME RunnerInit PROVE RunnerInv
  OBVIOUS
<1>1. LatestProcessed = 0
  <2>1. {0} \cup {b \in Batch : rows[b] = "completed"} = {0}
    BY DEF RunnerInit, Batch
  <2>. QED
    BY <2>1, MaxIs DEF LatestProcessed
<1>. QED
  BY <1>1, RunnerAssumption
  DEF RunnerInit, Started, RunnerInv, RunnerTypeOK, ProcessedInv, TasksInv, CacheInv,
      ReadsStateBeforeBatch, NoCheckFails, Batch, Task, NoTask

\* Seal keeps the invariant.
LEMMA SealInv ==
    ASSUME RunnerInv, Seal
    PROVE  RunnerInv'
<1>1. RunnerTypeOK'
  BY RunnerAssumption DEF Seal, memoryVars, RunnerInv, RunnerTypeOK
<1>2. ProcessedInv'
  BY DEF Seal, memoryVars, RunnerInv, ProcessedInv
<1>3. TasksInv'
  BY DEF Seal, memoryVars, RunnerInv, RunnerTypeOK, TasksInv, Batch
<1>4. CacheInv'
  BY DEF Seal, memoryVars, RunnerInv, CacheInv
<1>5. ReadsStateBeforeBatch'
  BY DEF Seal, memoryVars, RunnerInv, ReadsStateBeforeBatch
<1>6. NoCheckFails'
  BY DEF Seal, memoryVars, RunnerInv, NoCheckFails
<1>. QED
  BY <1>1, <1>2, <1>3, <1>4, <1>5, <1>6 DEF RunnerInv

\* LoadBatch keeps the invariant.
LEMMA LoadBatchInv ==
    ASSUME RunnerInv, LoadBatch
    PROVE  RunnerInv'
<1>0. /\ LatestProcessed = factory.latest
      /\ LastReady \in 0 .. MaxBatch
      /\ \A c \in Int : c <= LastReady <=> c <= sealed /\ c <= factory.latest + WindowSize
  BY LatestProcessedIs, LastReadyIs DEF RunnerInv
<1>1. RunnerTypeOK'
  BY DEF LoadBatch, DiffsBefore, RunnerInv, RunnerTypeOK, Task
<1>2. ProcessedInv'
  BY DEF LoadBatch, RunnerInv, ProcessedInv
<1>3. TasksInv'
  BY <1>0, RunnerAssumption DEF LoadBatch, RunnerInv, RunnerTypeOK, TasksInv, Batch
<1>4. CacheInv'
  BY DEF LoadBatch, RunnerInv, CacheInv
<1>5. ReadsStateBeforeBatch'
  <2>. SUFFICES ASSUME NEW b \in Batch,
                       tasks'[b].stage \in {"loaded", "executing"}, ~tasks'[b].postgres
                PROVE  rocksdb' < b /\ rocksdb' + 1 .. b - 1 \subseteq tasks'[b].diffs
    BY DEF ReadsStateBeforeBatch
  <2>0. rocksdb' = rocksdb /\ rocksdb \in Int /\ b \in Int
    BY DEF LoadBatch, RunnerInv, RunnerTypeOK, Batch
  <2>1. CASE b # runner.next
    <3>1. tasks'[b] = tasks[b]
      BY <2>1 DEF LoadBatch, RunnerInv, RunnerTypeOK
    <3>. QED
      BY <2>0, <3>1 DEF RunnerInv, ReadsStateBeforeBatch
  <2>2. CASE b = runner.next
    <3>1. tasks'[b] = [stage |-> "loaded", postgres |-> ~storage.rocksdb,
                       diffs |-> IF storage.rocksdb THEN DiffsBefore(b) ELSE {}]
      BY <2>2 DEF LoadBatch, RunnerInv, RunnerTypeOK
    <3>2. storage.rocksdb /\ b \in storage.batches
      <4>1. tasks'[b].postgres = ~storage.rocksdb
        BY <3>1
      <4>2. storage.rocksdb
        BY <4>1, Zenon
      <4>. QED
        BY <2>2, <4>2 DEF LoadBatch
    <3>3. rocksdb < b
      BY <2>2 DEF RunnerInv, RunnerTypeOK, TasksInv, CacheInv
    <3>4. ASSUME NEW c \in rocksdb + 1 .. b - 1 PROVE c \in DiffsBefore(b)
      <4>1. c \in Batch /\ c < b /\ rocksdb < c
        BY <2>0, RunnerAssumption DEF RunnerInv, RunnerTypeOK, Batch
      <4>2. c < loader.next
        BY <3>2, <4>1 DEF RunnerInv, RunnerTypeOK, CacheInv, Batch
      <4>. QED
        BY <3>2, <4>1, <4>2 DEF DiffsBefore, RunnerInv, CacheInv
    <3>. QED
      BY <2>0, <3>1, <3>2, <3>3, <3>4
  <2>. QED
    BY <2>1, <2>2
<1>6. NoCheckFails'
  BY DEF LoadBatch, RunnerInv, NoCheckFails
<1>. QED
  BY <1>1, <1>2, <1>3, <1>4, <1>5, <1>6 DEF RunnerInv

\* CreateHandler keeps the invariant.
LEMMA CreateHandlerInv ==
    ASSUME RunnerInv, CreateHandler
    PROVE  RunnerInv'
<1>0. /\ LatestProcessed = factory.latest
      /\ LastReady \in 0 .. MaxBatch
      /\ \A c \in Int : c <= LastReady <=> c <= sealed /\ c <= factory.latest + WindowSize
  BY LatestProcessedIs, LastReadyIs DEF RunnerInv
<1>a. /\ runner' = [runner EXCEPT !.pc = "mark"]
      /\ handlers' = handlers \cup {runner.next} /\ runner.next \in Batch
  BY <1>0, RunnerAssumption DEF CreateHandler, RunnerInv, RunnerTypeOK, TasksInv, Batch
<1>1. RunnerTypeOK'
  BY <1>0, RunnerAssumption
  DEF CreateHandler, RunnerInv, RunnerTypeOK, TasksInv, CacheInv, Batch, Task
<1>2. ProcessedInv'
  BY DEF CreateHandler, RunnerInv, ProcessedInv
<1>3. TasksInv'
  BY <1>a DEF CreateHandler, RunnerInv, RunnerTypeOK, TasksInv
<1>4. CacheInv'
  BY DEF CreateHandler, RunnerInv, CacheInv
<1>5. ReadsStateBeforeBatch'
  BY DEF CreateHandler, RunnerInv, ReadsStateBeforeBatch
<1>6. NoCheckFails'
  BY <1>0 DEF CreateHandler, RunnerInv, RunnerTypeOK, TasksInv, NoCheckFails
<1>. QED
  BY <1>1, <1>2, <1>3, <1>4, <1>5, <1>6 DEF RunnerInv

\* MarkAsProcessing keeps the invariant.
LEMMA MarkAsProcessingInv ==
    ASSUME RunnerInv, MarkAsProcessing
    PROVE  RunnerInv'
<1>0. /\ LatestProcessed = factory.latest
      /\ LastReady \in 0 .. MaxBatch
      /\ \A c \in Int : c <= LastReady <=> c <= sealed /\ c <= factory.latest + WindowSize
  BY LatestProcessedIs, LastReadyIs DEF RunnerInv
<1>a. runner.next \in Batch /\ tasks[runner.next] \in Task
  BY RunnerAssumption DEF MarkAsProcessing, RunnerInv, RunnerTypeOK, TasksInv, Batch
<1>b. [tasks[runner.next] EXCEPT !.stage = "executing"] \in Task
  BY <1>a DEF Task
<1>1. RunnerTypeOK'
  <2>1. tasks' \in [Batch -> Task]
    BY <1>a, <1>b DEF MarkAsProcessing, RunnerInv, RunnerTypeOK
  <2>2. rows' \in [Batch -> {"none", "processing", "completed"}]
    BY <1>a DEF MarkAsProcessing, MarkProcessing, RunnerInv, RunnerTypeOK
  <2>3. runner' \in [pc : {"load", "create", "mark", "failed"}, next : 1 .. MaxBatch + 1]
    BY <1>a, RunnerAssumption DEF MarkAsProcessing, Batch
  <2>. QED
    BY <2>1, <2>2, <2>3 DEF MarkAsProcessing, RunnerInv, RunnerTypeOK
<1>2. ProcessedInv'
  BY <1>1 DEF MarkAsProcessing, MarkProcessing, RunnerInv, ProcessedInv
<1>3. TasksInv'
  BY <1>0, <1>1
  DEF MarkAsProcessing, MarkProcessing, RunnerInv, RunnerTypeOK, TasksInv, Batch
<1>4. CacheInv'
  BY DEF MarkAsProcessing, RunnerInv, CacheInv
<1>5. ReadsStateBeforeBatch'
  <2>. SUFFICES ASSUME NEW b \in Batch,
                       tasks'[b].stage \in {"loaded", "executing"}, ~tasks'[b].postgres
                PROVE  rocksdb' < b /\ rocksdb' + 1 .. b - 1 \subseteq tasks'[b].diffs
    BY DEF ReadsStateBeforeBatch
  <2>1. CASE b = runner.next
    <3>1. /\ tasks'[b].postgres = tasks[b].postgres /\ tasks'[b].diffs = tasks[b].diffs
          /\ tasks[b].stage = "loaded" /\ rocksdb' = rocksdb
      BY <2>1, <1>a DEF MarkAsProcessing, RunnerInv, RunnerTypeOK, TasksInv, Task
    <3>. QED
      BY <3>1 DEF RunnerInv, ReadsStateBeforeBatch
  <2>2. CASE b # runner.next
    <3>1. tasks'[b] = tasks[b] /\ rocksdb' = rocksdb
      BY <2>2 DEF MarkAsProcessing, RunnerInv, RunnerTypeOK
    <3>. QED
      BY <3>1 DEF RunnerInv, ReadsStateBeforeBatch
  <2>. QED
    BY <2>1, <2>2
<1>6. NoCheckFails'
  BY DEF MarkAsProcessing, RunnerInv, NoCheckFails
<1>. QED
  BY <1>1, <1>2, <1>3, <1>4, <1>5, <1>6 DEF RunnerInv

\* ProcessBatch keeps the invariant.
LEMMA ProcessBatchInv ==
    ASSUME RunnerInv, NEW b \in Batch, ProcessBatch(b)
    PROVE  RunnerInv'
<1>b. [tasks[b] EXCEPT !.stage = "handling"] \in Task
  BY DEF RunnerInv, RunnerTypeOK, Task
<1>1. RunnerTypeOK'
  BY <1>b DEF ProcessBatch, RunnerInv, RunnerTypeOK
<1>2. ProcessedInv'
  BY DEF ProcessBatch, RunnerInv, ProcessedInv
<1>3. TasksInv'
  BY DEF ProcessBatch, RunnerInv, TasksInv
<1>4. CacheInv'
  BY DEF ProcessBatch, RunnerInv, CacheInv
<1>5. ReadsStateBeforeBatch'
  <2>1. \A c \in Batch : c # b => tasks'[c] = tasks[c]
    BY DEF ProcessBatch, RunnerInv, RunnerTypeOK
  <2>2. tasks'[b].stage = "handling" /\ rocksdb' = rocksdb
    BY DEF ProcessBatch, RunnerInv, RunnerTypeOK, Task
  <2>. QED
    BY <2>1, <2>2 DEF RunnerInv, ReadsStateBeforeBatch
<1>6. NoCheckFails'
  BY DEF ProcessBatch, RunnerInv, NoCheckFails
<1>. QED
  BY <1>1, <1>2, <1>3, <1>4, <1>5, <1>6 DEF RunnerInv

\* HandleL1Batch keeps the invariant.
LEMMA HandleL1BatchInv ==
    ASSUME RunnerInv, NEW b \in Batch, HandleL1Batch(b)
    PROVE  RunnerInv'
<1>1. RunnerTypeOK'
  BY DEF HandleL1Batch, RunnerInv, RunnerTypeOK, Task, NoTask
<1>2. ProcessedInv'
  BY DEF HandleL1Batch, RunnerInv, ProcessedInv
<1>3. TasksInv'
  BY DEF HandleL1Batch, RunnerInv, TasksInv
<1>4. CacheInv'
  BY DEF HandleL1Batch, RunnerInv, CacheInv
<1>5. ReadsStateBeforeBatch'
  <2>1. \A c \in Batch : c # b => tasks'[c] = tasks[c]
    BY DEF HandleL1Batch, RunnerInv, RunnerTypeOK
  <2>2. tasks'[b].stage = "handled" /\ rocksdb' = rocksdb
    BY DEF HandleL1Batch, RunnerInv, RunnerTypeOK, NoTask
  <2>. QED
    BY <2>1, <2>2 DEF RunnerInv, ReadsStateBeforeBatch
<1>6. NoCheckFails'
  BY DEF HandleL1Batch, RunnerInv, NoCheckFails
<1>. QED
  BY <1>1, <1>2, <1>3, <1>4, <1>5, <1>6 DEF RunnerInv

\* TakeHandler keeps the invariant.
LEMMA TakeHandlerInv ==
    ASSUME RunnerInv, TakeHandler
    PROVE  RunnerInv'
<1>1. RunnerTypeOK'
  BY DEF TakeHandler, RunnerInv, RunnerTypeOK
<1>2. ProcessedInv'
  BY DEF TakeHandler, RunnerInv, ProcessedInv
<1>3. TasksInv'
  BY RunnerAssumption DEF TakeHandler, RunnerInv, RunnerTypeOK, TasksInv, Batch
<1>4. CacheInv'
  BY DEF TakeHandler, RunnerInv, CacheInv
<1>5. ReadsStateBeforeBatch'
  BY DEF TakeHandler, RunnerInv, ReadsStateBeforeBatch
<1>6. NoCheckFails'
  BY DEF TakeHandler, RunnerInv, NoCheckFails
<1>. QED
  BY <1>1, <1>2, <1>3, <1>4, <1>5, <1>6 DEF RunnerInv

\* MarkAsCompleted keeps the invariant.
LEMMA MarkAsCompletedInv ==
    ASSUME RunnerInv, MarkAsCompleted
    PROVE  RunnerInv'
<1>a. factory.latest + 1 \in Batch
  BY RunnerAssumption DEF MarkAsCompleted, RunnerInv, RunnerTypeOK, TasksInv, Batch
<1>b. /\ factory' = [pc |-> "take", latest |-> factory.latest + 1]
      /\ rows' = [rows EXCEPT ![factory.latest + 1] = "completed"]
      /\ tasks[factory.latest + 1].stage = "handled"
      /\ factory.latest + 1 < runner.next
      /\ factory.latest + 1 \in outputs
  BY <1>a DEF MarkAsCompleted, MarkCompleted, RunnerInv, TasksInv
<1>1. RunnerTypeOK'
  BY <1>b DEF MarkAsCompleted, RunnerInv, RunnerTypeOK, Batch
<1>2. ProcessedInv'
  BY <1>b DEF MarkAsCompleted, RunnerInv, RunnerTypeOK, ProcessedInv, Batch
<1>3. TasksInv'
  <2>1. /\ factory'.latest < runner'.next /\ factory'.pc # "wait"
        /\ runner'.pc # "load" =>
              /\ runner'.next <= sealed' /\ runner'.next <= factory'.latest + WindowSize
              /\ tasks'[runner'.next].stage = "loaded"
    BY <1>a, <1>b, RunnerAssumption DEF MarkAsCompleted, RunnerInv, RunnerTypeOK, TasksInv
  <2>2. ASSUME NEW b \in Batch
        PROVE  /\ tasks'[b].stage = "loaded" => b = runner'.next /\ runner'.pc # "load"
               /\ tasks'[b].stage \in {"executing", "handling", "handled"} =>
                     b < runner'.next /\ rows'[b] # "none" /\ b <= sealed'
                     /\ b <= factory'.latest + WindowSize
               /\ tasks'[b].stage \in {"loaded", "executing", "handling"} =>
                     factory'.latest < b
               /\ tasks'[b].stage = "handled" => b \in outputs'
    <3>1. tasks'[b] = tasks[b] /\ b \in Int /\ (rows[b] # "none" => rows'[b] # "none")
      BY <1>b DEF MarkAsCompleted, RunnerInv, RunnerTypeOK, Batch
    <3>2. factory.latest \in Int /\ factory'.latest = factory.latest + 1
      BY <1>b DEF RunnerInv, RunnerTypeOK
    <3>3. tasks[b].stage \in {"loaded", "executing", "handling"} => b # factory.latest + 1
      BY <1>b
    <3>4. /\ runner' = runner /\ sealed' = sealed /\ outputs' = outputs
      BY DEF MarkAsCompleted
    <3>. QED
      BY <3>1, <3>2, <3>3, <3>4, RunnerAssumption DEF RunnerInv, TasksInv
  <2>. QED
    BY <2>1, <2>2 DEF TasksInv
<1>4. CacheInv'
  BY DEF MarkAsCompleted, RunnerInv, RunnerTypeOK, CacheInv
<1>5. ReadsStateBeforeBatch'
  BY DEF MarkAsCompleted, RunnerInv, ReadsStateBeforeBatch
<1>6. NoCheckFails'
  BY RunnerAssumption
  DEF MarkAsCompleted, RunnerInv, RunnerTypeOK, TasksInv, NoCheckFails, Batch
<1>. QED
  BY <1>1, <1>2, <1>3, <1>4, <1>5, <1>6 DEF RunnerInv

\* ApplyBatch keeps the invariant.
LEMMA ApplyBatchInv ==
    ASSUME RunnerInv, ApplyBatch
    PROVE  RunnerInv'
<1>1. RunnerTypeOK'
  BY RunnerAssumption DEF loaderRest, ApplyBatch, RunnerInv, RunnerTypeOK
<1>2. ProcessedInv'
  BY DEF loaderRest, ApplyBatch, RunnerInv, ProcessedInv
<1>3. TasksInv'
  BY DEF loaderRest, ApplyBatch, RunnerInv, TasksInv
<1>4. CacheInv'
  BY DEF loaderRest, ApplyBatch, RunnerInv, RunnerTypeOK, CacheInv, Batch
<1>5. ReadsStateBeforeBatch'
  BY
  DEF loaderRest, ApplyBatch, RunnerInv, RunnerTypeOK, TasksInv, CacheInv, ReadsStateBeforeBatch, Batch
<1>6. NoCheckFails'
  BY DEF loaderRest, ApplyBatch, RunnerInv, NoCheckFails
<1>. QED
  BY <1>1, <1>2, <1>3, <1>4, <1>5, <1>6 DEF RunnerInv

\* CaughtUp keeps the invariant.
LEMMA CaughtUpInv ==
    ASSUME RunnerInv, CaughtUp
    PROVE  RunnerInv'
<1>1. RunnerTypeOK'
  BY DEF loaderRest, CaughtUp, RunnerInv, RunnerTypeOK
<1>2. ProcessedInv'
  BY DEF loaderRest, CaughtUp, RunnerInv, ProcessedInv
<1>3. TasksInv'
  BY DEF loaderRest, CaughtUp, RunnerInv, TasksInv
<1>4. CacheInv'
  BY DEF loaderRest, CaughtUp, RunnerInv, CacheInv
<1>5. ReadsStateBeforeBatch'
  BY DEF loaderRest, CaughtUp, RunnerInv, ReadsStateBeforeBatch
<1>6. NoCheckFails'
  BY DEF loaderRest, CaughtUp, RunnerInv, RunnerTypeOK, CacheInv, NoCheckFails
<1>. QED
  BY <1>1, <1>2, <1>3, <1>4, <1>5, <1>6 DEF RunnerInv

\* ReadLatest keeps the invariant.
LEMMA ReadLatestInv ==
    ASSUME RunnerInv, ReadLatest
    PROVE  RunnerInv'
<1>0. /\ LatestProcessed = factory.latest
      /\ LastReady \in 0 .. MaxBatch
      /\ \A c \in Int : c <= LastReady <=> c <= sealed /\ c <= factory.latest + WindowSize
  BY LatestProcessedIs, LastReadyIs DEF RunnerInv
<1>1. RunnerTypeOK'
  BY <1>0 DEF loaderRest, ReadLatest, RunnerInv, RunnerTypeOK
<1>2. ProcessedInv'
  BY DEF loaderRest, ReadLatest, RunnerInv, ProcessedInv
<1>3. TasksInv'
  BY DEF loaderRest, ReadLatest, RunnerInv, TasksInv
<1>4. CacheInv'
  BY <1>0 DEF loaderRest, ReadLatest, RunnerInv, RunnerTypeOK, CacheInv
<1>5. ReadsStateBeforeBatch'
  BY DEF loaderRest, ReadLatest, RunnerInv, ReadsStateBeforeBatch
<1>6. NoCheckFails'
  BY DEF loaderRest, ReadLatest, RunnerInv, NoCheckFails
<1>. QED
  BY <1>1, <1>2, <1>3, <1>4, <1>5, <1>6 DEF RunnerInv

\* Retain keeps the invariant.
LEMMA RetainInv ==
    ASSUME RunnerInv, Retain
    PROVE  RunnerInv'
<1>0. /\ LatestProcessed = factory.latest
      /\ LastReady \in 0 .. MaxBatch
      /\ \A c \in Int : c <= LastReady <=> c <= sealed /\ c <= factory.latest + WindowSize
  BY LatestProcessedIs, LastReadyIs DEF RunnerInv
<1>a. /\ rocksdb = loader.latest /\ rocksdb \in 0 .. MaxBatch /\ loader.latest \in 0 .. MaxBatch
      /\ loader.next \in 1 .. MaxBatch + 1 /\ storage.batches \in SUBSET Batch
  BY DEF Retain, RunnerInv, RunnerTypeOK, CacheInv
<1> DEFINE kept == {b \in storage.batches : b > loader.latest}
           top == IF loader.next - 1 > loader.latest /\ storage.rocksdb
                    THEN loader.next - 1 ELSE loader.latest
<1>b. Max(kept \cup {loader.latest}) = top
  <2>1. \A b \in kept \cup {loader.latest} : b \in Int /\ b <= top
    BY <1>a DEF RunnerInv, CacheInv, Batch
  <2>2. top \in kept \cup {loader.latest}
    BY <1>a, RunnerAssumption DEF RunnerInv, CacheInv, Batch
  <2>. QED
    BY <2>1, <2>2, MaxIs
<1>c. /\ storage' = [rocksdb |-> TRUE, batches |-> kept]
      /\ loader' = [loader EXCEPT !.pc = "load", !.desired = LastReady, !.next = top + 1]
  BY <1>a, <1>b DEF Retain
<1>e. top \in 0 .. MaxBatch
  BY <1>a, RunnerAssumption
<1>d. UNCHANGED <<rocksdb, sealed, rows, outputs, runner, tasks, handlers, factory, stops>>
  BY DEF Retain, loaderRest
<1> HIDE DEF top
<1>1. RunnerTypeOK'
  <2>1. storage' \in [rocksdb : BOOLEAN, batches : SUBSET Batch]
    BY <1>a, <1>c
  <2>2. loader' \in [pc : {"catchup", "check", "sync", "load", "failed"},
                     latest : 0 .. MaxBatch, next : 1 .. MaxBatch + 1, desired : 0 .. MaxBatch]
    <3>1. top + 1 \in 1 .. MaxBatch + 1 /\ LastReady \in 0 .. MaxBatch
      BY <1>0, <1>e, RunnerAssumption
    <3>2. loader \in [pc : {"catchup", "check", "sync", "load", "failed"},
                      latest : 0 .. MaxBatch, next : 1 .. MaxBatch + 1, desired : 0 .. MaxBatch]
      BY DEF RunnerInv, RunnerTypeOK
    <3>. QED
      BY <1>c, <3>1, <3>2
  <2>. QED
    BY <1>d, <2>1, <2>2 DEF RunnerInv, RunnerTypeOK
<1>2. ProcessedInv'
  BY <1>d DEF RunnerInv, ProcessedInv
<1>3. TasksInv'
  BY <1>d DEF RunnerInv, TasksInv
<1>4. CacheInv'
  <2>1. \A b \in kept : b < top + 1
    BY <1>a DEF RunnerInv, CacheInv, Batch, top
  <2>2. \A b \in Batch : rocksdb < b /\ b < top + 1 => b \in kept
    BY <1>a DEF RunnerInv, CacheInv, Batch, top
  <2>3. loader'.latest = loader.latest /\ loader'.next = top + 1 /\ loader'.pc = "load"
    BY <1>c DEF RunnerInv, RunnerTypeOK
  <2>4. loader.latest < top + 1
    BY <1>a DEF top
  <2>. QED
    BY <1>a, <1>c, <1>d, <2>1, <2>2, <2>3, <2>4 DEF RunnerInv, CacheInv
<1>5. ReadsStateBeforeBatch'
  BY <1>d DEF RunnerInv, ReadsStateBeforeBatch
<1>6. NoCheckFails'
  BY <1>c, <1>d DEF RunnerInv, NoCheckFails
<1>. QED
  BY <1>1, <1>2, <1>3, <1>4, <1>5, <1>6 DEF RunnerInv

\* LoadDiff keeps the invariant.
LEMMA LoadDiffInv ==
    ASSUME RunnerInv, LoadDiff
    PROVE  RunnerInv'
<1>a. /\ loader.next \in 1 .. MaxBatch + 1 /\ loader.desired \in 0 .. MaxBatch
      /\ loader.next <= loader.desired => loader.next \in Batch
  BY RunnerAssumption DEF RunnerInv, RunnerTypeOK, Batch
<1>b. UNCHANGED <<rocksdb, sealed, rows, outputs, runner, tasks, handlers, factory, stops>>
  BY DEF LoadDiff, loaderRest
<1>c. CASE loader.next <= loader.desired
  <2>1. /\ storage' = [storage EXCEPT !.batches = @ \cup {loader.next}]
        /\ loader' = [loader EXCEPT !.next = @ + 1]
    BY <1>c DEF LoadDiff
  <2>2. RunnerTypeOK'
    BY <1>a, <1>b, <1>c, <2>1, RunnerAssumption DEF RunnerInv, RunnerTypeOK
  <2>3. CacheInv'
    BY <1>a, <1>b, <1>c, <2>1 DEF LoadDiff, RunnerInv, RunnerTypeOK, CacheInv, Batch
  <2>. QED
    BY <1>b, <2>1, <2>2, <2>3
    DEF RunnerInv, RunnerTypeOK, ProcessedInv, TasksInv, ReadsStateBeforeBatch, NoCheckFails, LoadDiff
<1>d. CASE ~(loader.next <= loader.desired)
  <2>1. storage' = storage /\ loader' = [loader EXCEPT !.pc = "check"]
    BY <1>d DEF LoadDiff
  <2>2. RunnerTypeOK' /\ CacheInv'
    BY <1>b, <2>1 DEF RunnerInv, RunnerTypeOK, CacheInv
  <2>. QED
    BY <1>b, <2>1, <2>2
    DEF RunnerInv, RunnerTypeOK, ProcessedInv, TasksInv, ReadsStateBeforeBatch, NoCheckFails
<1>. QED
  BY <1>c, <1>d

\* Every step of the runner preserves the invariant.
LEMMA NextInv == RunnerInv /\ [RunnerNext]_runnerVars => RunnerInv'
<1>. SUFFICES ASSUME RunnerInv, [RunnerNext]_runnerVars PROVE RunnerInv'
  OBVIOUS
<1>1. CASE Stop
  <2>1. rocksdb <= factory.latest /\ RunnerTypeOK /\ ProcessedInv /\ stops' \in 0 .. MaxStops
    BY <1>1, RunnerAssumption DEF Stop, RunnerInv, RunnerTypeOK, CacheInv
  <2>. QED
    BY <1>1, <2>1, StartedInv DEF Stop
<1>2. CASE UNCHANGED runnerVars
  BY <1>2
  DEF runnerVars, memoryVars, RunnerInv, RunnerTypeOK, ProcessedInv, TasksInv, CacheInv,
      ReadsStateBeforeBatch, NoCheckFails
<1>. QED
  BY <1>1, <1>2, SealInv, LoadBatchInv, CreateHandlerInv, MarkAsProcessingInv,
     ProcessBatchInv, HandleL1BatchInv, TakeHandlerInv, MarkAsCompletedInv, ApplyBatchInv,
     CaughtUpInv, ReadLatestInv, RetainInv, LoadDiffInv
  DEF RunnerNext, RunnerWork, LoaderStep, RunnerStep, FactoryStep, TaskStep

\* The invariant of the VM runner.
LEMMA RunnerInvariant == RunnerSpec => []RunnerInv
<1>. QED
  BY InitInv, NextInv, PTL DEF RunnerSpec

\* Whatever the three tasks do at the same time, and whenever the node stops, an
\* executor reads the state before its batch (StorageSyncTask only assumes that nobody
\* needs what it overwrites).
THEOREM ExecutorsReadTheRightState == RunnerSpec => []ReadsStateBeforeBatch
<1>1. RunnerInv => ReadsStateBeforeBatch
  BY DEF RunnerInv
<1>. QED
  BY <1>1, RunnerInvariant, PTL

\* No check in create_handler, mark_protective_reads_batch_as_completed or
\* update_from_postgres fails.
THEOREM RunnerNeverFails == RunnerSpec => []NoCheckFails
<1>1. RunnerInv => NoCheckFails
  BY DEF RunnerInv
<1>. QED
  BY <1>1, RunnerInvariant, PTL

-----------------------------------------------------------------------------
(* The promise *)

\* The runner starts as its promise does.
LEMMA PromiseInitially == RunnerInit => Promise!PromiseInit
<1>. SUFFICES ASSUME RunnerInit PROVE Promise!PromiseInit
  OBVIOUS
<1>1. LatestProcessed = 0
  BY GreatestCompleted, RunnerAssumption DEF LatestProcessed, RunnerInit, Batch
<1>. QED
  BY <1>1 DEF RunnerInit, Promise!PromiseInit

\* A step seals a batch, writes an output within the window, completes the next batch,
\* or changes nothing the promise is about.
LEMMA PromiseStep ==
    RunnerInv /\ RunnerInv' /\ [RunnerNext]_runnerVars
        => [Promise!PromiseNext]_(Promise!promiseVars)
<1>. SUFFICES ASSUME RunnerInv, RunnerInv', [RunnerNext]_runnerVars
              PROVE  [Promise!PromiseNext]_(Promise!promiseVars)
  OBVIOUS
<1>0. LatestProcessed = factory.latest /\ LatestProcessed' = factory'.latest
  BY LatestProcessedIs, LatestProcessedIsPrimed DEF RunnerInv
<1>1. CASE Seal
  BY <1>0, <1>1 DEF Seal, memoryVars, Promise!PromiseNext, Promise!SealBatch
<1>2. ASSUME NEW b \in Batch, HandleL1Batch(b) PROVE Promise!PromiseNext
  <2>1. b \in LatestProcessed + 1 .. LastReady
    <3>1. factory.latest < b /\ b <= sealed /\ b <= factory.latest + WindowSize
      BY <1>2 DEF HandleL1Batch, RunnerInv, TasksInv
    <3>2. b \in Int /\ factory.latest \in Nat
      BY RunnerAssumption DEF RunnerInv, RunnerTypeOK, Batch
    <3>3. LastReady \in Int /\ b <= LastReady
      BY <3>1, <3>2, LastReadyIs, RunnerAssumption DEF RunnerInv
    <3>. QED
      BY <1>0, <3>1, <3>2, <3>3
  <2>2. b \in LatestProcessed + 1 .. Promise!LastReady
    BY <2>1 DEF LastReady, Min, Promise!LastReady, Promise!Min
  <2>. QED
    BY <1>0, <1>2, <2>2
    DEF HandleL1Batch, Promise!PromiseNext, Promise!WriteOutput, Promise!Batch, Batch
<1>3. CASE MarkAsCompleted
  <2>1. /\ factory.latest + 1 \in Batch /\ tasks[factory.latest + 1].stage = "handled"
        /\ UNCHANGED <<sealed, outputs>>
    BY <1>3, RunnerAssumption DEF MarkAsCompleted, RunnerInv, RunnerTypeOK, TasksInv, Batch
  <2>2. factory.latest + 1 \in outputs /\ factory'.latest = factory.latest + 1
    BY <1>3, <2>1 DEF MarkAsCompleted, RunnerInv, TasksInv
  <2>. QED
    BY <1>0, <2>1, <2>2 DEF Promise!PromiseNext, Promise!Complete
<1>4. ASSUME UNCHANGED <<sealed, outputs>>, factory'.latest = factory.latest
      PROVE  UNCHANGED (Promise!promiseVars)
  BY <1>0, <1>4 DEF Promise!promiseVars
<1>5. CASE LoaderStep
  BY <1>4, <1>5
  DEF LoaderStep, ApplyBatch, CaughtUp, ReadLatest, Retain, LoadDiff, loaderRest
<1>6. CASE RunnerStep
  BY <1>4, <1>6 DEF RunnerStep, LoadBatch, CreateHandler, MarkAsProcessing
<1>7. CASE TakeHandler
  BY <1>4, <1>7 DEF TakeHandler, RunnerInv, RunnerTypeOK
<1>8. ASSUME NEW b \in Batch, ProcessBatch(b) PROVE UNCHANGED (Promise!promiseVars)
  BY <1>4, <1>8 DEF ProcessBatch
<1>9. CASE Stop
  BY <1>0, <1>4, <1>9 DEF Stop, Started
<1>10. CASE UNCHANGED runnerVars
  BY <1>4, <1>10 DEF runnerVars, memoryVars
<1>. QED
  BY <1>1, <1>2, <1>3, <1>5, <1>6, <1>7, <1>8, <1>9, <1>10
  DEF RunnerNext, RunnerWork, FactoryStep, TaskStep

\* The table of the VM runner keeps the promise of VmRunnerPromise (all of it but the
\* fairness): batches are completed one by one and only with their output written.
THEOREM RunnerKeepsPromise ==
    RunnerSpec => Promise!PromiseInit /\ [][Promise!PromiseNext]_(Promise!promiseVars)
<1>. QED
  BY PromiseInitially, PromiseStep, RunnerInvariant, PTL DEF RunnerSpec
=============================================================================
