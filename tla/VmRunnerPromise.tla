-------------------------- MODULE VmRunnerPromise --------------------------
(***************************************************************************)
(* What a VM runner promises to the tasks that read its table: the number  *)
(* of the latest processed batch grows one by one, and the output of every *)
(* batch up to it has been written.  Outputs may be written in any order   *)
(* within the window, and more than once.                                  *)
(***************************************************************************)
EXTENDS Integers, FiniteSetsExt

CONSTANTS
    MaxBatch,     \* bound: L1 batches 1 .. MaxBatch (0 is genesis)
    WindowSize    \* window_size

VARIABLES
    sealed,       \* batches 1 .. sealed are in l1_batches
    processed,    \* latest_processed_batch
    outputs       \* batches whose output has been written

promiseVars == <<sealed, processed, outputs>>

Batch == 1 .. MaxBatch

PromiseInit == sealed = 0 /\ processed = 0 /\ outputs = {}

SealBatch ==
    /\ sealed < MaxBatch
    /\ sealed' = sealed + 1
    /\ UNCHANGED <<processed, outputs>>

\* last_ready_to_be_loaded_batch
LastReady == Min({sealed, processed + WindowSize})

WriteOutput(b) ==
    /\ b \in processed + 1 .. LastReady
    /\ outputs' = outputs \cup {b}
    /\ UNCHANGED <<sealed, processed>>

Complete ==
    /\ processed + 1 \in outputs
    /\ processed' = processed + 1
    /\ UNCHANGED <<sealed, outputs>>

PromiseNext == SealBatch \/ Complete \/ \E b \in Batch : WriteOutput(b)

\* What is ready is processed in the end.
PromiseSpec ==
    /\ PromiseInit /\ [][PromiseNext]_promiseVars
    /\ WF_promiseVars(Complete \/ WriteOutput(processed + 1))
=============================================================================
