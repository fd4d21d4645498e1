----------------------------- MODULE ProverJobs -----------------------------
(***************************************************************************)
(* The prover subsystem, for one batch.  Its workers only meet in the      *)
(* tables of the prover's database (prover_dal): a witness generator takes *)
(* a queued witness job and inserts the prover jobs of its round, a prover *)
(* takes a queued prover job and stores a proof, and the job monitor       *)
(*   - queues a witness job when all the proofs it aggregates are there,   *)
(*   - queues failed jobs, and jobs that take too long, again.             *)
(* A worker that was too slow goes on and reports after another one has    *)
(* taken its job.                                                          *)
(*                                                                         *)
(* The rounds are basic circuits (0), leaf aggregation (1), node           *)
(* aggregation (2, repeated with growing depth until one proof per circuit *)
(* is left), recursion tip (3), scheduler (4), then the compression.       *)
(***************************************************************************)
EXTENDS Integers, FiniteSets, FiniteSetsExt

CONSTANTS
    BasicCircuits,     \* number of basic circuits, by circuit id
    RecursionArity,    \* RECURSION_ARITY, and the size of a leaf's queue
    MaxAttempts,       \* max_attempts
    Provers,           \* bound: provers at work at the same time
    MaxFaults          \* bound: crashes, failures, slow workers, lost messages

ASSUME ProverAssumption ==
    /\ RecursionArity \in Nat \ {0, 1}
    /\ \A c \in DOMAIN BasicCircuits : BasicCircuits[c] \in Nat \ {0}
    /\ MaxAttempts \in Nat \ {0} /\ Provers \in Nat \ {0} /\ MaxFaults \in Nat

VARIABLES
    jobs,     \* the tables: [status, attempts] of every job
    workers,  \* the number of workers that process a job
    faults    \* what is left of the bound on faults

proverVars == <<jobs, workers, faults>>

Circuit == DOMAIN BasicCircuits

-----------------------------------------------------------------------------
(* The jobs of a batch *)

Chunks(n) == (n + RecursionArity - 1) \div RecursionArity

\* Proofs of a circuit after the leaf aggregation (0) and the node aggregations.
Aggregated(c) ==
    LET count[d \in 0 .. BasicCircuits[c]] ==
            IF d = 0 THEN Chunks(BasicCircuits[c]) ELSE Chunks(count[d - 1])
    IN count

\* The node aggregation that leaves one proof.
FinalDepth(c) == Min({d \in 1 .. BasicCircuits[c] : Aggregated(c)[d] = 1})

\* Every aggregation leaves a proof, and the last one leaves one.
ASSUME AggregationAssumption ==
    \A c \in Circuit :
        /\ FinalDepth(c) \in 1 .. BasicCircuits[c] /\ Aggregated(c)[FinalDepth(c)] = 1
        /\ \A d \in 0 .. FinalDepth(c) : Aggregated(c)[d] \in Nat \ {0}

Witness(round, c, depth) ==
    [type |-> "witness", round |-> round, circuit |-> c, depth |-> depth, seq |-> 0]
Proof(round, c, depth, k) ==
    [type |-> "proof", round |-> round, circuit |-> c, depth |-> depth, seq |-> k]
Compression == [type |-> "compression", round |-> 5, circuit |-> 0, depth |-> 0, seq |-> 0]

\* Keys of leaf and node jobs: the depth is that of the proofs they aggregate.
LeafJobs == {Witness(1, c, 0) : c \in Circuit}
NodeJobs == UNION {{Witness(2, c, d) : d \in 0 .. FinalDepth(c) - 1} : c \in Circuit}
BasicJob == Witness(0, 0, 0)
RecursionTipJob == Witness(3, 0, 0)
SchedulerJob == Witness(4, 0, 0)

\* insert_prover_jobs: the prover jobs a witness job leads to.
ProverJobsOf(w) ==
    CASE w.round = 0 -> UNION {{Proof(0, c, 0, k) : k \in 1 .. BasicCircuits[c]} : c \in Circuit}
      [] w.round = 1 -> {Proof(1, w.circuit, 0, k) : k \in 1 .. Aggregated(w.circuit)[0]}
      [] w.round = 2 -> {Proof(2, w.circuit, w.depth + 1, k) :
                            k \in 1 .. Aggregated(w.circuit)[w.depth + 1]}
      [] w.round \in {3, 4} -> {Proof(w.round, 0, 0, 1)}

WitnessJob == {BasicJob, RecursionTipJob, SchedulerJob} \cup LeafJobs \cup NodeJobs
ProverJob == UNION {ProverJobsOf(w) : w \in WitnessJob}
Job == WitnessJob \cup ProverJob \cup {Compression}

\* create_aggregation_jobs, and the next node job while several proofs are left.
WitnessJobsOf(w) ==
    CASE w.round = 0 -> LeafJobs \cup {Witness(2, c, 0) : c \in Circuit}
                          \cup {RecursionTipJob, SchedulerJob}
      [] w.round = 2 /\ Aggregated(w.circuit)[w.depth + 1] > 1 ->
            {Witness(2, w.circuit, w.depth + 1)}
      [] OTHER -> {}

\* The proofs a job aggregates.
Aggregates(j) ==
    CASE j.type = "witness" /\ j.round = 1 -> {p \in ProverJobsOf(BasicJob) : p.circuit = j.circuit}
      [] j.type = "witness" /\ j.round = 2 /\ j.depth = 0 -> ProverJobsOf(Witness(1, j.circuit, 0))
      [] j.type = "witness" /\ j.round = 2 /\ j.depth > 0 ->
            ProverJobsOf(Witness(2, j.circuit, j.depth - 1))
      [] j.type = "witness" /\ j.round = 3 ->
            UNION {ProverJobsOf(Witness(2, c, FinalDepth(c) - 1)) : c \in Circuit}
      [] j.type = "witness" /\ j.round = 4 -> ProverJobsOf(RecursionTipJob)
      [] j.type = "compression" -> ProverJobsOf(SchedulerJob)
      [] OTHER -> {}

-----------------------------------------------------------------------------
(* State *)

Status == {"none", "waiting_for_proofs", "queued", "in_progress", "failed",
           "successful", "sent_to_server"}

ProverTypeOK ==
    /\ jobs \in [Job -> [status : Status, attempts : 0 .. MaxAttempts]]
    /\ workers \in [Job -> 0 .. MaxAttempts]
    /\ faults \in 0 .. MaxFaults

NoJob == [status |-> "none", attempts |-> 0]

ProverInit ==
    /\ jobs = [j \in Job |-> NoJob]
    /\ workers = [j \in Job |-> 0]
    /\ faults = MaxFaults

Fault == faults > 0 /\ faults' = faults - 1

WithStatus(s) == {j \in Job : jobs[j].status = s}

\* Rows that are inserted unless they are there.
Inserted(js, status) ==
    [j \in Job |-> IF j \in js /\ jobs[j].status = "none"
                     THEN [status |-> status, attempts |-> 0] ELSE jobs[j]]

-----------------------------------------------------------------------------
(* Workers *)

\* get_next_job takes the highest round, then the first id, here the order of the
\* jobs themselves; other tables have one kind of job.  (Provers of a group, which
\* ask for its circuits only, are left out.)
FirstProverJob ==
    CHOOSE p \in WithStatus("queued") \cap ProverJob :
        \A q \in WithStatus("queued") \cap ProverJob :
            \/ p.round > q.round
            \/ /\ p.round = q.round
               /\ \/ p.circuit < q.circuit
                  \/ p.circuit = q.circuit /\ p.depth < q.depth
                  \/ p.circuit = q.circuit /\ p.depth = q.depth /\ p.seq <= q.seq

AtWork == SumFunctionOnSet(workers, ProverJob)

GetNextJob(j) ==
    /\ jobs[j].status = "queued"
    /\ j \in ProverJob => j = FirstProverJob /\ AtWork < Provers
    /\ jobs' = [jobs EXCEPT ![j] = [status |-> "in_progress", attempts |-> @.attempts + 1]]
    /\ workers' = [workers EXCEPT ![j] = @ + 1]
    /\ UNCHANGED faults

Leaves(j) == workers' = [workers EXCEPT ![j] = @ - 1]

\* The attempts of a successful job are not used again.
Successful == [status |-> "successful", attempts |-> 0]

\* update_database of a witness generator, one transaction.
SaveWitness(w) ==
    /\ w \in WitnessJob /\ workers[w] > 0
    /\ jobs' = [j \in Job |->
                  CASE j = w -> Successful
                    [] j \in ProverJobsOf(w) -> Inserted(ProverJobsOf(w), "queued")[j]
                    [] OTHER -> Inserted(WitnessJobsOf(w), "waiting_for_proofs")[j]]
    /\ Leaves(w)
    /\ UNCHANGED faults

\* save_proof of a prover; the proof of the scheduler queues the compression.
SaveProof(p) ==
    /\ p \in ProverJob /\ workers[p] > 0
    /\ jobs' = [j \in Job |->
                  CASE j = p -> Successful
                    [] OTHER -> Inserted(IF p.round = 4 THEN {Compression} ELSE {}, "queued")[j]]
    /\ Leaves(p)
    /\ UNCHANGED faults

\* save_result of the compressor.
SaveCompressed ==
    /\ workers[Compression] > 0
    /\ jobs' = [jobs EXCEPT ![Compression] = Successful]
    /\ Leaves(Compression)
    /\ UNCHANGED faults

\* A late failure undoes a success.
BugSaveFailure(j) ==
    /\ workers[j] > 0
    /\ Fault
    /\ jobs' = [jobs EXCEPT ![j].status = "failed"]
    /\ Leaves(j)

\* save_failure; a job that was successful stays so.
SaveFailure(j) ==
    /\ workers[j] > 0
    /\ Fault
    /\ jobs' = [jobs EXCEPT ![j].status =
                  IF @ \in {"successful", "sent_to_server"} THEN @ ELSE "failed"]
    /\ Leaves(j)

\* The worker dies; so it does when it cannot load what its job refers to.
WorkerCrash(j) ==
    /\ workers[j] > 0
    /\ Fault
    /\ Leaves(j)
    /\ UNCHANGED jobs

-----------------------------------------------------------------------------
(* prover_job_monitor *)

\* Only failed jobs are taken.
BugStuck(j) ==
    /\ jobs[j].attempts < MaxAttempts
    /\ jobs[j].status = "failed"

\* What requeue_stuck_jobs takes; a job whose worker is gone has timed out.
Stuck(j) ==
    /\ jobs[j].attempts < MaxAttempts
    /\ \/ jobs[j].status = "failed"
       \/ jobs[j].status = "in_progress" /\ workers[j] = 0

RequeueStuckJobs ==
    /\ \E j \in Job : Stuck(j)
    /\ jobs' = [j \in Job |-> IF Stuck(j) THEN [jobs[j] EXCEPT !.status = "queued"] ELSE jobs[j]]
    /\ UNCHANGED <<workers, faults>>

\* The job of a slow worker has timed out.
RequeueSlowJob(j) ==
    /\ jobs[j].status = "in_progress" /\ workers[j] > 0
    /\ jobs[j].attempts < MaxAttempts
    /\ Fault
    /\ jobs' = [jobs EXCEPT ![j].status = "queued"]
    /\ UNCHANGED workers

\* The recursion tip is content with one final node proof.
BugReady(w) ==
    /\ jobs[w].status = "waiting_for_proofs"
    /\ LET found == Aggregates(w) \cap WithStatus("successful")
       IN IF w = RecursionTipJob THEN found # {} ELSE found = Aggregates(w)

\* COUNT of successful proofs = the number in the row of the witness job.
Ready(w) ==
    /\ jobs[w].status = "waiting_for_proofs"
    /\ Aggregates(w) \subseteq WithStatus("successful")

\* WitnessJobQueuer: one statement for each kind of job.
MoveFromWaitingToQueued(kind) ==
    /\ \E w \in kind : Ready(w)
    /\ jobs' = [j \in Job |-> IF j \in kind /\ Ready(j)
                                THEN [jobs[j] EXCEPT !.status = "queued"] ELSE jobs[j]]
    /\ UNCHANGED <<workers, faults>>

QueueWitnessJobs ==
    \/ MoveFromWaitingToQueued(LeafJobs)
    \/ MoveFromWaitingToQueued({w \in NodeJobs : w.depth = 0})
    \/ MoveFromWaitingToQueued({w \in NodeJobs : w.depth > 0})
    \/ MoveFromWaitingToQueued({RecursionTipJob})
    \/ MoveFromWaitingToQueued({SchedulerJob})

-----------------------------------------------------------------------------

Finish(j) == SaveWitness(j) \/ SaveProof(j) \/ (j = Compression /\ SaveCompressed)

ProverFault(j) == SaveFailure(j) \/ WorkerCrash(j) \/ RequeueSlowJob(j)

ProverProgress ==
    \/ \E j \in Job : GetNextJob(j) \/ Finish(j)
    \/ RequeueStuckJobs \/ QueueWitnessJobs

\* A witness job starts when every proof it aggregates is stored, and they stay
\* stored until it is done and after: the counts are taken when the job is queued,
\* the proofs are read later (the assertion of the recursion tip generator).
AggregatesAllProofs ==
    \A j \in Job :
        jobs[j].status \in {"queued", "in_progress", "failed", "successful", "sent_to_server"} =>
            \A p \in Aggregates(j) : jobs[p].status = "successful"
=============================================================================
