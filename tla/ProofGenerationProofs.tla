------------------------ MODULE ProofGenerationProofs ------------------------
(***************************************************************************)
(* The way of a batch to its proof, for any circuits, any arity of the     *)
(* recursion, any number of workers, attempts and faults.                  *)
(*                                                                         *)
(* The prover's tables are related by two facts that every writer keeps:   *)
(* a job that was ever queued has all the proofs it aggregates, and a      *)
(* proof job exists only after its witness job succeeded.  From the        *)
(* compressed proof they lead back, round by round, to every circuit.      *)
(***************************************************************************)
EXTENDS ProofGeneration, WellFoundedInduction, TLAPS

Active == {"queued", "in_progress", "failed"}
Final == {"successful", "sent_to_server"}

CountersInv ==
    \A j \in Job :
        /\ jobs[j].status = "queued" => jobs[j].attempts < MaxAttempts
        /\ jobs[j].status = "waiting_for_proofs" => jobs[j].attempts = 0
        /\ jobs[j].status \in {"none", "waiting_for_proofs"} => workers[j] = 0
        /\ jobs[j].status \notin Final => workers[j] <= jobs[j].attempts

TablesInv ==
    /\ \A j \in Job : /\ jobs[j].status = "sent_to_server" => j = Compression
                      /\ jobs[BasicJob].status = "none" => jobs[j].status = "none"
    /\ \A w \in WitnessJob : \A p \in ProverJobsOf(w) :
          jobs[p].status # "none" => jobs[w].status = "successful"

GatewayInv ==
    /\ submitter # "idle" \/ details.proof => jobs[Compression].status \in Final
    /\ submitter = "answered" => details.proof
    /\ ~expired /\ fetcher # "idle" =>
          jobs[BasicJob].status = "none" /\ details.status = "picked_by_prover"
    /\ ~expired /\ details.status \in {"none", "unpicked"} => jobs[BasicJob].status = "none"

ProvingInv ==
    /\ ProvingTypeOK /\ CountersInv /\ TablesInv /\ AggregatesAllProofs
    /\ GatewayInv /\ SentIsStored /\ GeneratedIsKept

\* What a step may do to the status of a job.
JobStep(j) ==
    \/ jobs'[j].status = jobs[j].status
    \/ jobs[j].status \in Active /\ jobs'[j].status \in Active \cup {"successful"}
    \/ jobs[j].status \in Final /\ jobs'[j].status = "successful"
    \/ j = Compression /\ jobs[j].status \in Final /\ jobs'[j].status \in Final
    \/ Ready(j) /\ jobs'[j].status = "queued"
    \/ /\ jobs[j].status = "none" /\ jobs'[j].status = "waiting_for_proofs"
       /\ j \in WitnessJob /\ jobs'[BasicJob].status # "none"
    \/ /\ jobs[j].status = "none" /\ jobs'[j].status = "queued"
       /\ jobs'[BasicJob].status # "none"
       /\ \A p \in Aggregates(j) : jobs'[p].status = "successful"
       /\ \A w \in WitnessJob : j \in ProverJobsOf(w) => jobs'[w].status = "successful"

-----------------------------------------------------------------------------
(* The jobs of a batch *)

\* The witness jobs, one by one.
LEMMA WitnessJobs ==
    ASSUME NEW w \in WitnessJob
    PROVE  /\ w.type = "witness"
           /\ \/ w = BasicJob \/ w = RecursionTipJob \/ w = SchedulerJob
              \/ \E c \in Circuit : w = Witness(1, c, 0)
              \/ \E c \in Circuit : \E d \in 0 .. FinalDepth(c) - 1 : w = Witness(2, c, d)
<1>1. \/ w = BasicJob \/ w = RecursionTipJob \/ w = SchedulerJob
      \/ \E c \in Circuit : w = Witness(1, c, 0)
      \/ \E c \in Circuit : \E d \in 0 .. FinalDepth(c) - 1 : w = Witness(2, c, d)
  BY Zenon DEF WitnessJob, LeafJobs, NodeJobs
<1>2. \A r, c, d : Witness(r, c, d).type = "witness"
  BY DEF Witness
<1>. QED
  BY <1>1, <1>2 DEF BasicJob, RecursionTipJob, SchedulerJob

\* The members of WitnessJob that the other definitions refer to.
LEMMA WitnessJobMembers ==
    /\ BasicJob \in WitnessJob /\ RecursionTipJob \in WitnessJob /\ SchedulerJob \in WitnessJob
    /\ \A c \in Circuit : Witness(1, c, 0) \in WitnessJob
    /\ \A c \in Circuit : \A d \in 0 .. FinalDepth(c) - 1 : Witness(2, c, d) \in WitnessJob
<1>1. ASSUME NEW c \in Circuit PROVE Witness(1, c, 0) \in LeafJobs
  BY Zenon DEF LeafJobs
<1>2. ASSUME NEW c \in Circuit, NEW d \in 0 .. FinalDepth(c) - 1
      PROVE  Witness(2, c, d) \in NodeJobs
  <2>1. Witness(2, c, d) \in {Witness(2, c, e) : e \in 0 .. FinalDepth(c) - 1}
    OBVIOUS
  <2>. QED
    BY <2>1 DEF NodeJobs
<1>. QED
  BY <1>1, <1>2, Zenon DEF WitnessJob

\* The fields of a witness job.
LEMMA WitnessFields ==
    \A r, c, d : /\ Witness(r, c, d).type = "witness" /\ Witness(r, c, d).round = r
                 /\ Witness(r, c, d).circuit = c /\ Witness(r, c, d).depth = d
BY DEF Witness

\* The prover jobs of each witness job.
LEMMA ProverJobsAre ==
    /\ ProverJobsOf(BasicJob) =
         UNION {{Proof(0, c, 0, k) : k \in 1 .. BasicCircuits[c]} : c \in Circuit}
    /\ ProverJobsOf(RecursionTipJob) = {Proof(3, 0, 0, 1)}
    /\ ProverJobsOf(SchedulerJob) = {Proof(4, 0, 0, 1)}
    /\ \A c : ProverJobsOf(Witness(1, c, 0)) = {Proof(1, c, 0, k) : k \in 1 .. Aggregated(c)[0]}
    /\ \A c, d : ProverJobsOf(Witness(2, c, d)) =
         {Proof(2, c, d + 1, k) : k \in 1 .. Aggregated(c)[d + 1]}
BY WitnessFields DEF ProverJobsOf, BasicJob, RecursionTipJob, SchedulerJob

\* A prover job has the type and the round of its table.
LEMMA ProverJobFields ==
    ASSUME NEW w \in WitnessJob, NEW p \in ProverJobsOf(w)
    PROVE  p.type = "proof" /\ p.round = w.round
<1>1. \A r, c, d, k : Proof(r, c, d, k).type = "proof" /\ Proof(r, c, d, k).round = r
  BY DEF Proof
<1>2. CASE w = BasicJob
  <2>1. p \in UNION {{Proof(0, c, 0, k) : k \in 1 .. BasicCircuits[c]} : c \in Circuit}
    BY <1>2, ProverJobsAre
  <2>2. PICK c \in Circuit : \E k \in 1 .. BasicCircuits[c] : p = Proof(0, c, 0, k)
    BY <2>1, Zenon
  <2>. QED
    BY <1>1, <1>2, <2>2, WitnessFields DEF BasicJob
<1>3. CASE w = RecursionTipJob \/ w = SchedulerJob
  BY <1>1, <1>3, ProverJobsAre, WitnessFields DEF RecursionTipJob, SchedulerJob
<1>4. ASSUME NEW c \in Circuit, w = Witness(1, c, 0)
      PROVE  p.type = "proof" /\ p.round = w.round
  <2>1. p \in {Proof(1, c, 0, k) : k \in 1 .. Aggregated(c)[0]}
    BY <1>4, ProverJobsAre
  <2>2. \E k : p = Proof(1, c, 0, k)
    BY <2>1, Zenon
  <2>. QED
    BY <1>1, <1>4, <2>2, WitnessFields
<1>5. ASSUME NEW c \in Circuit, NEW d \in 0 .. FinalDepth(c) - 1, w = Witness(2, c, d)
      PROVE  p.type = "proof" /\ p.round = w.round
  <2>1. p \in {Proof(2, c, d + 1, k) : k \in 1 .. Aggregated(c)[d + 1]}
    BY <1>5, ProverJobsAre
  <2>2. \E k : p = Proof(2, c, d + 1, k)
    BY <2>1, Zenon
  <2>. QED
    BY <1>1, <1>5, <2>2, WitnessFields
<1>. QED
  BY <1>2, <1>3, <1>4, <1>5, WitnessJobs

\* The tables hold different jobs.
LEMMA TablesAreDisjoint ==
    /\ \A w \in WitnessJob : w.type = "witness" /\ w \in Job
    /\ \A p \in ProverJob : p.type = "proof" /\ p \in Job
    /\ \A w \in WitnessJob : ProverJobsOf(w) \subseteq ProverJob
    /\ Compression.type = "compression" /\ Compression \in Job
    /\ \A p \in ProverJob : p.round = 4 => p \in ProverJobsOf(SchedulerJob)
<1>1. \A p \in ProverJob : \E w \in WitnessJob : p \in ProverJobsOf(w)
  BY Zenon DEF ProverJob
<1>2. ASSUME NEW p \in ProverJob, p.round = 4
      PROVE  p \in ProverJobsOf(SchedulerJob)
  <2>1. PICK w \in WitnessJob : p \in ProverJobsOf(w)
    BY <1>1
  <2>2. w.round = 4
    BY <1>2, <2>1, ProverJobFields
  <2>3. w = SchedulerJob
    BY <2>2, WitnessJobs, WitnessFields DEF BasicJob, RecursionTipJob
  <2>. QED
    BY <2>1, <2>3
<1>. QED
  BY <1>1, <1>2, WitnessJobs, ProverJobFields DEF Job, ProverJob, Compression

\* What a job aggregates are prover jobs.
LEMMA AggregatesProofs ==
    /\ \A j \in Job : Aggregates(j) \subseteq ProverJob
    /\ \A j \in ProverJob \cup {BasicJob} : Aggregates(j) = {}
    /\ Aggregates(Compression) = ProverJobsOf(SchedulerJob)
    /\ Aggregates(SchedulerJob) = ProverJobsOf(RecursionTipJob)
    /\ Aggregates(RecursionTipJob) =
         UNION {ProverJobsOf(Witness(2, c, FinalDepth(c) - 1)) : c \in Circuit}
    /\ \A c \in Circuit :
          /\ Aggregates(Witness(2, c, 0)) = ProverJobsOf(Witness(1, c, 0))
          /\ Aggregates(Witness(1, c, 0)) = {p \in ProverJobsOf(BasicJob) : p.circuit = c}
          /\ \A d \in 1 .. FinalDepth(c) - 1 :
                Aggregates(Witness(2, c, d)) = ProverJobsOf(Witness(2, c, d - 1))
<1>1. \A j \in ProverJob \cup {BasicJob} : Aggregates(j) = {}
  BY TablesAreDisjoint, WitnessFields DEF Aggregates, BasicJob
<1>2. /\ Aggregates(Compression) = ProverJobsOf(SchedulerJob)
      /\ Aggregates(SchedulerJob) = ProverJobsOf(RecursionTipJob)
      /\ Aggregates(RecursionTipJob) =
           UNION {ProverJobsOf(Witness(2, c, FinalDepth(c) - 1)) : c \in Circuit}
  BY TablesAreDisjoint, WitnessFields DEF Aggregates, SchedulerJob, RecursionTipJob
<1>3. ASSUME NEW c \in Circuit
      PROVE  /\ Aggregates(Witness(2, c, 0)) = ProverJobsOf(Witness(1, c, 0))
             /\ Aggregates(Witness(1, c, 0)) = {p \in ProverJobsOf(BasicJob) : p.circuit = c}
             /\ \A d \in 1 .. FinalDepth(c) - 1 :
                   Aggregates(Witness(2, c, d)) = ProverJobsOf(Witness(2, c, d - 1))
  BY WitnessFields, AggregationAssumption DEF Aggregates
<1>4. ASSUME NEW j \in Job PROVE Aggregates(j) \subseteq ProverJob
  <2>1. CASE j \in ProverJob \cup {BasicJob, Compression, SchedulerJob}
    BY <1>1, <1>2, <2>1, TablesAreDisjoint, WitnessJobMembers
  <2>2. CASE j = RecursionTipJob
    <3>1. \A c \in Circuit : ProverJobsOf(Witness(2, c, FinalDepth(c) - 1)) \subseteq ProverJob
      <4>1. \A c \in Circuit : FinalDepth(c) - 1 \in 0 .. FinalDepth(c) - 1
        BY AggregationAssumption
      <4>. QED
        BY <4>1, TablesAreDisjoint, WitnessJobMembers
    <3>. QED
      BY <1>2, <2>2, <3>1, Zenon
  <2>3. ASSUME NEW c \in Circuit, j = Witness(1, c, 0) PROVE Aggregates(j) \subseteq ProverJob
    BY <1>3, <2>3, TablesAreDisjoint, WitnessJobMembers
  <2>4. ASSUME NEW c \in Circuit, NEW d \in 0 .. FinalDepth(c) - 1, j = Witness(2, c, d)
        PROVE  Aggregates(j) \subseteq ProverJob
    <3>1. CASE d = 0
      BY <1>3, <2>4, <3>1, TablesAreDisjoint, WitnessJobMembers
    <3>2. CASE d # 0
      <4>1. d \in 1 .. FinalDepth(c) - 1 /\ d - 1 \in 0 .. FinalDepth(c) - 1
        BY <3>2, AggregationAssumption
      <4>. QED
        BY <1>3, <2>4, <4>1, TablesAreDisjoint, WitnessJobMembers
    <3>. QED
      BY <3>1, <3>2
  <2>. QED
    BY <2>1, <2>2, <2>3, <2>4, WitnessJobs DEF Job
<1>. QED
  BY <1>1, <1>2, <1>3, <1>4

\* A prover job belongs to one witness job.
LEMMA OneWitnessJob ==
    ASSUME NEW v \in WitnessJob, NEW w \in WitnessJob,
           NEW p \in ProverJobsOf(v), p \in ProverJobsOf(w)
    PROVE  v = w
<1>1. v.round = w.round
  BY ProverJobFields
<1>2. \A r, c, d, k : Proof(r, c, d, k).circuit = c /\ Proof(r, c, d, k).depth = d
  BY DEF Proof
<1>3. ASSUME NEW c \in Circuit, v = Witness(1, c, 0), NEW e \in Circuit, w = Witness(1, e, 0)
      PROVE  v = w
  <2>1. /\ p \in {Proof(1, c, 0, k) : k \in 1 .. Aggregated(c)[0]}
        /\ p \in {Proof(1, e, 0, k) : k \in 1 .. Aggregated(e)[0]}
    BY <1>3, ProverJobsAre
  <2>2. (\E k : p = Proof(1, c, 0, k)) /\ \E k : p = Proof(1, e, 0, k)
    BY <2>1, Zenon
  <2>. QED
    BY <1>2, <1>3, <2>2
<1>4. ASSUME NEW c \in Circuit, NEW d \in 0 .. FinalDepth(c) - 1, v = Witness(2, c, d),
             NEW e \in Circuit, NEW f \in 0 .. FinalDepth(e) - 1, w = Witness(2, e, f)
      PROVE  v = w
  <2>1. /\ p \in {Proof(2, c, d + 1, k) : k \in 1 .. Aggregated(c)[d + 1]}
        /\ p \in {Proof(2, e, f + 1, k) : k \in 1 .. Aggregated(e)[f + 1]}
    BY <1>4, ProverJobsAre
  <2>2. (\E k : p = Proof(2, c, d + 1, k)) /\ \E k : p = Proof(2, e, f + 1, k)
    BY <2>1, Zenon
  <2>3. c = e /\ d + 1 = f + 1
    BY <1>2, <2>2
  <2>4. d = f
    BY <2>3
  <2>. QED
    BY <1>4, <2>3, <2>4
<1>. QED
  BY <1>1, <1>3, <1>4, WitnessJobs, WitnessFields DEF BasicJob, RecursionTipJob, SchedulerJob

-----------------------------------------------------------------------------
(* The tables of the prover *)

\* Steps of this kind keep what relates the tables to each other.
LEMMA TablesStep ==
    ASSUME jobs \in [Job -> [status : Status, attempts : 0 .. MaxAttempts]],
           TablesInv, AggregatesAllProofs, \A j \in Job : JobStep(j)
    PROVE  TablesInv' /\ AggregatesAllProofs'
<1>1. \A w \in WitnessJob \cup ProverJob : w \in Job /\ w # Compression
  BY TablesAreDisjoint
<1>2. ASSUME NEW j \in WitnessJob \cup ProverJob, jobs[j].status = "successful"
      PROVE  jobs'[j].status = "successful"
  BY <1>1, <1>2 DEF JobStep, Active, Final, Ready
<1>3. BasicJob \in Job
  BY <1>1, WitnessJobMembers
<1>4. ASSUME NEW j \in Job, jobs'[j].status = "sent_to_server" PROVE j = Compression
  BY <1>4 DEF JobStep, TablesInv, Active, Final
<1>5. ASSUME NEW j \in Job, jobs'[BasicJob].status = "none" PROVE jobs'[j].status = "none"
  <2>1. jobs[BasicJob].status = "none"
    BY <1>3, <1>5 DEF JobStep, Active, Final
  <2>2. jobs[j].status = "none"
    BY <2>1 DEF TablesInv
  <2>. QED
    BY <1>5, <2>2 DEF JobStep, Active, Final, Ready
<1>6. ASSUME NEW w \in WitnessJob, NEW p \in ProverJobsOf(w), jobs'[p].status # "none"
      PROVE  jobs'[w].status = "successful"
  <2>0. p \in Job
    BY <1>1, TablesAreDisjoint
  <2>1. CASE jobs[p].status # "none"
    BY <1>2, <2>1 DEF TablesInv
  <2>2. CASE jobs[p].status = "none"
    <3>1. p \notin WitnessJob /\ p # Compression
      BY TablesAreDisjoint
    <3>. QED
      BY <1>6, <2>0, <2>2, <3>1 DEF JobStep, Active, Final, Ready
  <2>. QED
    BY <2>1, <2>2
<1>7. TablesInv'
  BY <1>4, <1>5, <1>6 DEF TablesInv
<1>8. ASSUME NEW j \in Job, jobs'[j].status \in Active \cup Final, NEW p \in Aggregates(j)
      PROVE  jobs'[p].status = "successful"
  <2>1. p \in ProverJob
    BY AggregatesProofs
  <2>2. CASE jobs[j].status \in Active \cup Final
    <3>1. jobs[p].status = "successful"
      BY <2>2 DEF AggregatesAllProofs, Active, Final
    <3>. QED
      BY <1>2, <2>1, <3>1
  <2>3. CASE Ready(j)
    <3>1. jobs[p].status = "successful"
      BY <2>3 DEF Ready, WithStatus
    <3>. QED
      BY <1>2, <2>1, <3>1
  <2>4. CASE jobs[j].status \notin Active \cup Final /\ ~Ready(j)
    BY <1>8, <2>4 DEF JobStep, Active, Final
  <2>. QED
    BY <2>2, <2>3, <2>4
<1>9. AggregatesAllProofs'
  BY <1>8 DEF AggregatesAllProofs, Active, Final
<1>. QED
  BY <1>7, <1>9

\* A step of the prover, which the gateway does not see.
LEMMA ProverStepInv ==
    ASSUME ProvingInv, UNCHANGED gatewayVars, ProverTypeOK', CountersInv',
           \A j \in Job : JobStep(j), jobs[BasicJob].status # "none",
           jobs'[Compression].status = "sent_to_server" =>
               jobs[Compression].status = "sent_to_server"
    PROVE  ProvingInv'
<1>1. TablesInv' /\ AggregatesAllProofs'
  BY TablesStep DEF ProvingInv, ProvingTypeOK, ProverTypeOK
<1>2. BasicJob \in Job /\ Compression \in Job
  BY TablesAreDisjoint, WitnessJobMembers
<1>3. jobs[Compression].status \in Final => jobs'[Compression].status \in Final
  BY <1>2 DEF JobStep, Active, Final, Ready
<1>4. GatewayInv'
  BY <1>3 DEF ProvingInv, GatewayInv, gatewayVars
<1>5. ProvingTypeOK' /\ SentIsStored' /\ GeneratedIsKept'
  BY DEF ProvingInv, ProvingTypeOK, SentIsStored, GeneratedIsKept, gatewayVars
<1>. QED
  BY <1>1, <1>4, <1>5 DEF ProvingInv

\* Nobody works, and no table but the first has a row, before the batch arrives.
LEMMA BatchIsThere ==
    ASSUME ProvingInv, NEW j \in Job, jobs[j].status # "none" \/ workers[j] > 0
    PROVE  jobs[BasicJob].status # "none" /\ jobs[j].status # "none"
<1>1. jobs[j].status # "none"
  BY DEF ProvingInv, CountersInv
<1>. QED
  BY <1>1 DEF ProvingInv, TablesInv

\* The bounds that hold of a job in the tables.
LEMMA JobTypes ==
    ASSUME ProvingInv
    PROVE  /\ jobs \in [Job -> [status : Status, attempts : 0 .. MaxAttempts]]
           /\ workers \in [Job -> 0 .. MaxAttempts]
           /\ faults \in 0 .. MaxFaults
           /\ CountersInv /\ TablesInv /\ AggregatesAllProofs
BY DEF ProvingInv, ProvingTypeOK, ProverTypeOK

\* get_next_job: a queued job is taken by a worker.
LEMMA GetNextJobInv ==
    ASSUME ProvingInv, NEW j \in Job, GetNextJob(j), UNCHANGED gatewayVars
    PROVE  ProvingInv'
<1> DEFINE row == [status |-> "in_progress", attempts |-> jobs[j].attempts + 1]
<1>1. /\ jobs' = [jobs EXCEPT ![j] = row] /\ workers' = [workers EXCEPT ![j] = @ + 1]
      /\ jobs[j].status = "queued" /\ UNCHANGED faults
  BY DEF GetNextJob
<1>2. /\ jobs[j].attempts + 1 \in 0 .. MaxAttempts /\ workers[j] + 1 \in 0 .. MaxAttempts
      /\ workers[j] + 1 <= jobs[j].attempts + 1
  BY <1>1, JobTypes, ProverAssumption DEF CountersInv, Final
<1>3. ProverTypeOK'
  BY <1>1, <1>2, JobTypes DEF ProverTypeOK, Status
<1>4. CountersInv'
  BY <1>1, <1>2, JobTypes DEF CountersInv, Final
<1>5. \A i \in Job : JobStep(i)
  BY <1>1, JobTypes DEF JobStep, Active
<1>6. jobs'[Compression].status = "sent_to_server" => jobs[Compression].status = "sent_to_server"
  BY <1>1, JobTypes, TablesAreDisjoint
<1>. QED
  BY <1>1, <1>3, <1>4, <1>5, <1>6, BatchIsThere, ProverStepInv

\* A worker that leaves its job.
LEMMA LeavesTypes ==
    ASSUME ProvingInv, NEW j \in Job, workers[j] > 0, Leaves(j)
    PROVE  /\ workers' \in [Job -> 0 .. MaxAttempts]
           /\ workers'[j] = workers[j] - 1
           /\ \A i \in Job \ {j} : workers'[i] = workers[i]
           /\ \A i \in Job : workers'[i] <= workers[i]
BY JobTypes, ProverAssumption DEF Leaves

\* update_database of a witness generator: the jobs of the next step are there
\* with the success of this one.
LEMMA SaveWitnessInv ==
    ASSUME ProvingInv, NEW w \in WitnessJob, SaveWitness(w), UNCHANGED gatewayVars
    PROVE  ProvingInv'
<1>1. /\ workers[w] > 0 /\ Leaves(w) /\ UNCHANGED faults /\ w \in Job /\ w \notin ProverJob
      /\ w # Compression
  BY TablesAreDisjoint DEF SaveWitness
<1>2. /\ ProverJobsOf(w) \subseteq ProverJob /\ WitnessJobsOf(w) \subseteq WitnessJob
      /\ ProverJob \subseteq Job /\ WitnessJob \subseteq Job
  <2>1. WitnessJobsOf(w) \subseteq WitnessJob
    <3>1. CASE w.round = 0
      <4>1. \A c \in Circuit : Witness(2, c, 0) \in WitnessJob
        BY WitnessJobMembers, AggregationAssumption
      <4>2. LeafJobs \subseteq WitnessJob
        BY DEF WitnessJob
      <4>. QED
        BY <3>1, <4>1, <4>2, WitnessJobMembers DEF WitnessJobsOf
    <3>2. CASE w.round # 0 /\ ~(w.round = 2 /\ Aggregated(w.circuit)[w.depth + 1] > 1)
      BY <3>2 DEF WitnessJobsOf
    <3>3. CASE w.round = 2 /\ Aggregated(w.circuit)[w.depth + 1] > 1
      <4>1. PICK c \in Circuit : \E d \in 0 .. FinalDepth(c) - 1 : w = Witness(2, c, d)
        BY <3>3, WitnessJobs, WitnessFields DEF BasicJob, RecursionTipJob, SchedulerJob
      <4>2. PICK d \in 0 .. FinalDepth(c) - 1 : w = Witness(2, c, d)
        BY <4>1
      <4>3. w.circuit = c /\ w.depth = d
        BY <4>2, WitnessFields
      <4>4. d + 1 # FinalDepth(c)
        BY <3>3, <4>3, AggregationAssumption
      <4>5. d + 1 \in 0 .. FinalDepth(c) - 1
        BY <4>2, <4>4, AggregationAssumption
      <4>6. WitnessJobsOf(w) = {Witness(2, c, d + 1)}
        BY <3>3, <4>3 DEF WitnessJobsOf
      <4>. QED
        BY <4>5, <4>6, WitnessJobMembers
    <3>. QED
      BY <3>1, <3>2, <3>3
  <2>. QED
    BY <2>1, TablesAreDisjoint
<1>3. /\ \A j \in Job : j # w /\ jobs'[j] # jobs[j] =>
            /\ jobs[j].status = "none" /\ jobs'[j].attempts = 0
            /\ \/ j \in ProverJobsOf(w) /\ jobs'[j].status = "queued"
               \/ j \in WitnessJob /\ jobs'[j].status = "waiting_for_proofs"
      /\ jobs'[w] = Successful
      /\ jobs' \in [Job -> [status : Status, attempts : 0 .. MaxAttempts]]
  <2>1. ASSUME NEW j \in Job, j # w, j \in ProverJobsOf(w)
        PROVE  jobs'[j] = IF jobs[j].status = "none" THEN [status |-> "queued", attempts |-> 0]
                          ELSE jobs[j]
    BY <2>1 DEF SaveWitness, Inserted
  <2>2. ASSUME NEW j \in Job, j # w, j \notin ProverJobsOf(w)
        PROVE  jobs'[j] = IF j \in WitnessJobsOf(w) /\ jobs[j].status = "none"
                            THEN [status |-> "waiting_for_proofs", attempts |-> 0]
                          ELSE jobs[j]
    BY <2>2 DEF SaveWitness, Inserted
  <2>3. jobs'[w] = Successful /\ jobs' = [j \in Job |-> jobs'[j]]
    <3>1. jobs'[w] = Successful
      BY <1>1, <1>2 DEF SaveWitness
    <3> DEFINE row(j) == CASE j = w -> Successful
                           [] j \in ProverJobsOf(w) -> Inserted(ProverJobsOf(w), "queued")[j]
                           [] OTHER -> Inserted(WitnessJobsOf(w), "waiting_for_proofs")[j]
    <3>2. jobs' = [j \in Job |-> row(j)]
      BY DEF SaveWitness
    <3>. HIDE DEF row
    <3>. QED
      BY <3>1, <3>2
  <2>4. /\ Successful \in [status : Status, attempts : 0 .. MaxAttempts]
        /\ [status |-> "queued", attempts |-> 0] \in [status : Status, attempts : 0 .. MaxAttempts]
        /\ [status |-> "waiting_for_proofs", attempts |-> 0]
              \in [status : Status, attempts : 0 .. MaxAttempts]
    BY ProverAssumption DEF Successful, Status
  <2>5. \A j \in Job : jobs'[j] \in [status : Status, attempts : 0 .. MaxAttempts]
    BY <1>1, <2>1, <2>2, <2>3, <2>4, JobTypes
  <2>6. jobs' \in [Job -> [status : Status, attempts : 0 .. MaxAttempts]]
    BY <2>3, <2>5
  <2>7. ASSUME NEW j \in Job, j # w, jobs'[j] # jobs[j]
        PROVE  /\ jobs[j].status = "none" /\ jobs'[j].attempts = 0
               /\ \/ j \in ProverJobsOf(w) /\ jobs'[j].status = "queued"
                  \/ j \in WitnessJob /\ jobs'[j].status = "waiting_for_proofs"
    BY <1>2, <2>1, <2>2, <2>7
  <2>. QED
    BY <2>3, <2>6, <2>7
<1>4. jobs[w].status \in Active \cup Final /\ jobs'[w].status = "successful"
  <2>1. jobs[w].status \in Status /\ jobs[w].status \notin {"none", "waiting_for_proofs"}
    BY <1>1, JobTypes DEF CountersInv
  <2>. QED
    BY <1>3, <2>1 DEF Status, Active, Final, Successful
<1>5. ProverTypeOK'
  BY <1>1, <1>3, JobTypes, LeavesTypes DEF ProverTypeOK
<1>6. CountersInv'
  BY <1>1, <1>3, <1>4, JobTypes, LeavesTypes, ProverAssumption DEF CountersInv, Final
<1>7. jobs[BasicJob].status # "none" /\ jobs'[BasicJob].status # "none"
  <2>1. jobs[BasicJob].status # "none"
    BY <1>1, BatchIsThere
  <2>. QED
    BY <1>2, <1>3, <1>4, <2>1, WitnessJobMembers
<1>8. \A j \in Job : JobStep(j)
  <2>. SUFFICES ASSUME NEW j \in Job PROVE JobStep(j)
    OBVIOUS
  <2>1. CASE j = w
    BY <1>4, <2>1 DEF JobStep
  <2>2. CASE j # w /\ j \in ProverJobsOf(w)
    <3>1. Aggregates(j) = {} /\ j \notin WitnessJob
      BY <1>2, <2>2, AggregatesProofs, TablesAreDisjoint
    <3>2. \A v \in WitnessJob : j \in ProverJobsOf(v) => jobs'[v].status = "successful"
      BY <1>4, <2>2, OneWitnessJob
    <3>. QED
      BY <1>3, <1>7, <2>2, <3>1, <3>2 DEF JobStep
  <2>3. CASE j # w /\ j \notin ProverJobsOf(w)
    BY <1>3, <1>7, <2>3 DEF JobStep
  <2>. QED
    BY <2>1, <2>2, <2>3
<1>9. jobs'[Compression].status = "sent_to_server" => jobs[Compression].status = "sent_to_server"
  BY <1>1, <1>3, TablesAreDisjoint
<1>. QED
  BY <1>5, <1>6, <1>7, <1>8, <1>9, ProverStepInv

\* A worker is only at a job that was queued once.
LEMMA WorkerHasJob ==
    ASSUME ProvingInv, NEW j \in Job, workers[j] > 0
    PROVE  jobs[j].status \in Active \cup Final
<1>1. jobs[j].status \in Status /\ jobs[j].status \notin {"none", "waiting_for_proofs"}
  BY JobTypes DEF CountersInv
<1>. QED
  BY <1>1 DEF Status, Active, Final

\* save_proof: the proof of the scheduler queues the compression.
LEMMA SaveProofInv ==
    ASSUME ProvingInv, NEW p \in ProverJob, SaveProof(p), UNCHANGED gatewayVars
    PROVE  ProvingInv'
<1>1. /\ workers[p] > 0 /\ Leaves(p) /\ UNCHANGED faults /\ p \in Job /\ p \notin WitnessJob
      /\ p # Compression
  BY TablesAreDisjoint DEF SaveProof
<1>2. /\ jobs'[p] = Successful
      /\ \A j \in Job \ {p, Compression} : jobs'[j] = jobs[j]
      /\ jobs'[Compression] = IF p.round = 4 /\ jobs[Compression].status = "none"
                                THEN [status |-> "queued", attempts |-> 0]
                                ELSE jobs[Compression]
      /\ jobs' \in [Job -> [status : Status, attempts : 0 .. MaxAttempts]]
  <2> DEFINE row(j) == CASE j = p -> Successful
                         [] OTHER -> Inserted(IF p.round = 4 THEN {Compression} ELSE {}, "queued")[j]
  <2>1. jobs' = [j \in Job |-> row(j)]
    BY DEF SaveProof
  <2>2. row(p) = Successful
    OBVIOUS
  <2>3. \A j \in Job \ {p, Compression} : row(j) = jobs[j]
    BY DEF Inserted
  <2>4. row(Compression) = IF p.round = 4 /\ jobs[Compression].status = "none"
                             THEN [status |-> "queued", attempts |-> 0] ELSE jobs[Compression]
    BY <1>1, TablesAreDisjoint DEF Inserted
  <2>5. /\ Successful \in [status : Status, attempts : 0 .. MaxAttempts]
        /\ [status |-> "queued", attempts |-> 0] \in [status : Status, attempts : 0 .. MaxAttempts]
    BY ProverAssumption DEF Successful, Status
  <2>. HIDE DEF row
  <2>. QED
    BY <1>1, <2>1, <2>2, <2>3, <2>4, <2>5, JobTypes, TablesAreDisjoint
<1>3. jobs[p].status \in Active \cup Final /\ jobs'[p].status = "successful"
  BY <1>1, <1>2, WorkerHasJob DEF Successful
<1>4. ProverTypeOK'
  BY <1>1, <1>2, JobTypes, LeavesTypes DEF ProverTypeOK
<1>5. CountersInv'
  BY <1>1, <1>2, <1>3, JobTypes, LeavesTypes, ProverAssumption DEF CountersInv, Final
<1>6. jobs[BasicJob].status # "none" /\ jobs'[BasicJob].status # "none"
  BY <1>1, <1>2, BatchIsThere, WitnessJobMembers, TablesAreDisjoint
<1>7. \A j \in Job : JobStep(j)
  <2>. SUFFICES ASSUME NEW j \in Job PROVE JobStep(j)
    OBVIOUS
  <2>1. CASE j = p
    BY <1>3, <2>1 DEF JobStep
  <2>2. CASE j = Compression
    <3>1. p.round = 4 => Aggregates(j) = {p}
      BY <2>2, AggregatesProofs, TablesAreDisjoint, ProverJobsAre
    <3>2. \A w \in WitnessJob : j \notin ProverJobsOf(w)
      BY <2>2, TablesAreDisjoint
    <3>. QED
      BY <1>2, <1>3, <1>6, <2>2, <3>1, <3>2 DEF JobStep
  <2>3. CASE j \notin {p, Compression}
    BY <1>2, <2>3 DEF JobStep
  <2>. QED
    BY <2>1, <2>2, <2>3
<1>8. jobs'[Compression].status = "sent_to_server" => jobs[Compression].status = "sent_to_server"
  BY <1>2
<1>. QED
  BY <1>4, <1>5, <1>6, <1>7, <1>8, ProverStepInv

\* The compressor, a failure and a crash change at most the status of the job.
LEMMA WorkerEndInv ==
    ASSUME ProvingInv, UNCHANGED gatewayVars,
           NEW j \in Job,
           \/ j = Compression /\ SaveCompressed
           \/ SaveFailure(j)
           \/ WorkerCrash(j)
    PROVE  ProvingInv'
<1>1. workers[j] > 0 /\ Leaves(j)
  BY DEF SaveCompressed, SaveFailure, WorkerCrash
<1>2. faults' \in 0 .. MaxFaults
  BY JobTypes, ProverAssumption DEF SaveCompressed, SaveFailure, WorkerCrash, Fault
<1>3. jobs[j].status \in Active \cup Final
  BY <1>1, WorkerHasJob
<1>4. /\ \A i \in Job \ {j} : jobs'[i] = jobs[i]
      /\ jobs' \in [Job -> [status : Status, attempts : 0 .. MaxAttempts]]
      /\ \/ jobs'[j] = jobs[j]
         \/ jobs[j].status \in Active /\ jobs'[j].status = "failed"
                                      /\ jobs'[j].attempts = jobs[j].attempts
         \/ j = Compression /\ jobs'[j] = Successful
  <2>1. CASE SaveCompressed /\ j = Compression
    <3>1. Successful \in [status : Status, attempts : 0 .. MaxAttempts]
      BY ProverAssumption DEF Successful, Status
    <3>. QED
      BY <2>1, <3>1, JobTypes DEF SaveCompressed
  <2>2. CASE WorkerCrash(j)
    BY <2>2, JobTypes DEF WorkerCrash
  <2>3. CASE SaveFailure(j) /\ jobs[j].status \in Final
    <3>1. jobs' = [jobs EXCEPT ![j].status = jobs[j].status]
      BY <2>3 DEF SaveFailure, Final
    <3>2. [jobs[j] EXCEPT !.status = jobs[j].status] = jobs[j]
      BY JobTypes
    <3>. QED
      BY <3>1, <3>2, JobTypes
  <2>4. CASE SaveFailure(j) /\ jobs[j].status \notin Final
    <3>1. jobs' = [jobs EXCEPT ![j].status = "failed"]
      BY <2>4 DEF SaveFailure, Final
    <3>2. [jobs[j] EXCEPT !.status = "failed"] \in [status : Status, attempts : 0 .. MaxAttempts]
      BY JobTypes DEF Status
    <3>. QED
      BY <1>3, <2>4, <3>1, <3>2, JobTypes
  <2>. QED
    BY <2>1, <2>2, <2>3, <2>4
<1>5. ProverTypeOK'
  BY <1>1, <1>2, <1>4, LeavesTypes DEF ProverTypeOK
<1>6. CountersInv'
  <2>. SUFFICES ASSUME NEW i \in Job
                PROVE  /\ jobs'[i].status = "queued" => jobs'[i].attempts < MaxAttempts
                       /\ jobs'[i].status = "waiting_for_proofs" => jobs'[i].attempts = 0
                       /\ jobs'[i].status \in {"none", "waiting_for_proofs"} => workers'[i] = 0
                       /\ jobs'[i].status \notin Final => workers'[i] <= jobs'[i].attempts
    BY DEF CountersInv
  <2>1. CASE i # j
    BY <1>1, <1>4, <2>1, JobTypes, LeavesTypes DEF CountersInv
  <2>2. CASE i = j
    <3>1. workers'[j] <= workers[j] /\ workers[j] \in Int /\ workers'[j] \in Int
          /\ jobs[j].attempts \in Int
      BY <1>1, JobTypes, LeavesTypes
    <3>2. jobs[j].status \notin Final => workers[j] <= jobs[j].attempts
      BY JobTypes DEF CountersInv
    <3>3. jobs[j].status = "queued" => jobs[j].attempts < MaxAttempts
      BY JobTypes DEF CountersInv
    <3>. QED
      BY <1>3, <1>4, <2>2, <3>1, <3>2, <3>3 DEF Active, Final, Successful
  <2>. QED
    BY <2>1, <2>2
<1>7. \A i \in Job : JobStep(i)
  BY <1>3, <1>4 DEF JobStep, Active, Final, Successful
<1>8. jobs'[Compression].status = "sent_to_server" => jobs[Compression].status = "sent_to_server"
  BY <1>4, TablesAreDisjoint DEF Successful
<1>. QED
  BY <1>1, <1>5, <1>6, <1>7, <1>8, BatchIsThere, ProverStepInv

\* The job monitor queues jobs: those of the set S, which it may queue.
LEMMA QueueInv ==
    ASSUME ProvingInv, UNCHANGED gatewayVars, UNCHANGED workers, faults' \in 0 .. MaxFaults,
           NEW S \in SUBSET Job, S # {},
           \A j \in S : \/ Ready(j)
                        \/ jobs[j].status \in Active /\ jobs[j].attempts < MaxAttempts,
           jobs' = [j \in Job |-> IF j \in S THEN [jobs[j] EXCEPT !.status = "queued"] ELSE jobs[j]]
    PROVE  ProvingInv'
<1>1. \A j \in Job : /\ jobs[j] \in [status : Status, attempts : 0 .. MaxAttempts]
                     /\ [jobs[j] EXCEPT !.status = "queued"]
                           \in [status : Status, attempts : 0 .. MaxAttempts]
                     /\ [jobs[j] EXCEPT !.status = "queued"].status = "queued"
                     /\ [jobs[j] EXCEPT !.status = "queued"].attempts = jobs[j].attempts
  BY JobTypes DEF Status
<1>2. ProverTypeOK'
  BY <1>1, JobTypes DEF ProverTypeOK
<1>3. /\ \A j \in Job \ S : jobs'[j] = jobs[j]
      /\ \A j \in S : jobs'[j].status = "queued" /\ jobs'[j].attempts = jobs[j].attempts
  BY <1>1
<1>4. \A j \in S : /\ jobs[j].status \notin Final /\ jobs[j].status # "none"
                   /\ jobs[j].attempts < MaxAttempts
  BY JobTypes, ProverAssumption DEF Ready, CountersInv, Active, Final
<1>5. CountersInv'
  BY <1>3, <1>4, JobTypes DEF CountersInv
<1>6. \A j \in Job : JobStep(j)
  BY <1>3 DEF JobStep, Active
<1>7. jobs'[Compression].status = "sent_to_server" => jobs[Compression].status = "sent_to_server"
  BY <1>3, TablesAreDisjoint
<1>8. jobs[BasicJob].status # "none"
  BY <1>4, BatchIsThere
<1>. QED
  BY <1>2, <1>5, <1>6, <1>7, <1>8, ProverStepInv

\* Every step of the workers and of the job monitor.
LEMMA ProverInv ==
    ASSUME ProvingInv, ProverProgress \/ (\E j \in Job : ProverFault(j)), UNCHANGED gatewayVars
    PROVE  ProvingInv'
<1>1. CASE RequeueStuckJobs
  <2> DEFINE S == {j \in Job : Stuck(j)}
  <2>1. /\ S # {} /\ UNCHANGED <<workers, faults>>
        /\ jobs' = [j \in Job |-> IF j \in S THEN [jobs[j] EXCEPT !.status = "queued"] ELSE jobs[j]]
    BY <1>1 DEF RequeueStuckJobs
  <2>2. \A j \in S : jobs[j].status \in Active /\ jobs[j].attempts < MaxAttempts
    BY DEF Stuck, Active
  <2>. HIDE DEF S
  <2>3. S \subseteq Job /\ faults' \in 0 .. MaxFaults
    BY <2>1, JobTypes DEF S
  <2>. QED
    BY <2>1, <2>2, <2>3, QueueInv
<1>2. ASSUME NEW j \in Job, RequeueSlowJob(j) PROVE ProvingInv'
  <2>1. /\ jobs[j].status \in Active /\ jobs[j].attempts < MaxAttempts /\ UNCHANGED workers
        /\ jobs' = [jobs EXCEPT ![j].status = "queued"]
    BY <1>2 DEF RequeueSlowJob, Active
  <2>2. jobs' = [i \in Job |-> IF i \in {j} THEN [jobs[i] EXCEPT !.status = "queued"] ELSE jobs[i]]
    BY <2>1, JobTypes
  <2>3. faults' \in 0 .. MaxFaults
    BY <1>2, JobTypes, ProverAssumption DEF RequeueSlowJob, Fault
  <2>. QED
    BY <2>1, <2>2, <2>3, QueueInv
<1>3. ASSUME NEW kind \in SUBSET WitnessJob, MoveFromWaitingToQueued(kind) PROVE ProvingInv'
  <2> DEFINE S == {j \in Job : j \in kind /\ Ready(j)}
  <2>1. /\ UNCHANGED <<workers, faults>>
        /\ jobs' = [j \in Job |-> IF j \in S THEN [jobs[j] EXCEPT !.status = "queued"] ELSE jobs[j]]
    BY <1>3 DEF MoveFromWaitingToQueued
  <2>2. S # {}
    BY <1>3, TablesAreDisjoint DEF MoveFromWaitingToQueued
  <2>3. \A j \in S : Ready(j)
    OBVIOUS
  <2>4. S \subseteq Job
    OBVIOUS
  <2>5. faults' \in 0 .. MaxFaults
    BY <2>1, JobTypes
  <2>. HIDE DEF S
  <2>. QED
    BY <2>1, <2>2, <2>3, <2>4, <2>5, QueueInv
<1>4. CASE QueueWitnessJobs
  <2>1. /\ LeafJobs \subseteq WitnessJob /\ NodeJobs \subseteq WitnessJob
        /\ {RecursionTipJob} \subseteq WitnessJob /\ {SchedulerJob} \subseteq WitnessJob
    BY DEF WitnessJob
  <2>2. \E kind \in SUBSET WitnessJob : MoveFromWaitingToQueued(kind)
    BY <1>4, <2>1 DEF QueueWitnessJobs
  <2>. QED
    BY <1>3, <2>2
<1>5. ASSUME NEW j \in Job, Finish(j) PROVE ProvingInv'
  BY <1>5, SaveWitnessInv, SaveProofInv, WorkerEndInv DEF Finish, SaveWitness, SaveProof
<1>6. ASSUME NEW j \in Job, ProverFault(j) PROVE ProvingInv'
  BY <1>2, <1>6, WorkerEndInv DEF ProverFault
<1>. QED
  BY <1>1, <1>4, <1>5, <1>6, GetNextJobInv DEF ProverProgress

-----------------------------------------------------------------------------
(* The gateway and the node *)

\* The initial state.
LEMMA ProvingInitInv == ProvingInit => ProvingInv
<1>. SUFFICES ASSUME ProvingInit PROVE ProvingInv
  OBVIOUS
<1>1. /\ \A j \in Job : jobs[j].status = "none" /\ jobs[j].attempts = 0 /\ workers[j] = 0
      /\ jobs \in [Job -> [status : Status, attempts : 0 .. MaxAttempts]]
      /\ workers \in [Job -> 0 .. MaxAttempts] /\ faults \in 0 .. MaxFaults
  BY ProverAssumption DEF ProvingInit, ProverInit, NoJob, Status
<1>2. BasicJob \in Job /\ Compression \in Job /\ ProverJob \subseteq Job /\ WitnessJob \subseteq Job
      /\ \A w \in WitnessJob : ProverJobsOf(w) \subseteq Job
  BY TablesAreDisjoint, WitnessJobMembers
<1>3. ProvingTypeOK
  BY <1>1 DEF ProvingTypeOK, ProverTypeOK, ProvingInit
<1>4. CountersInv /\ TablesInv /\ AggregatesAllProofs
  BY <1>1, <1>2, ProverAssumption DEF CountersInv, TablesInv, AggregatesAllProofs
<1>5. GatewayInv /\ SentIsStored /\ GeneratedIsKept
  BY <1>1, <1>2 DEF GatewayInv, SentIsStored, GeneratedIsKept, ProvingInit
<1>. QED
  BY <1>3, <1>4, <1>5 DEF ProvingInv

\* A step that leaves the tables of the prover alone.
LEMMA GatewayStep ==
    ASSUME ProvingInv, UNCHANGED <<jobs, workers>>, faults' \in 0 .. MaxFaults,
           ProvingTypeOK => ProvingTypeOK', GatewayInv', SentIsStored', GeneratedIsKept'
    PROVE  ProvingInv'
<1>1. CountersInv' /\ TablesInv' /\ AggregatesAllProofs'
  BY JobTypes DEF CountersInv, TablesInv, AggregatesAllProofs
<1>. QED
  BY <1>1 DEF ProvingInv

\* The writers of the row: the tree, the witness input producer, the commitment
\* generator.
LEMMA RowInv ==
    ASSUME ProvingInv, SaveMerklePaths \/ SaveVmRunnerArtifacts \/ SaveCommitment
    PROVE  ProvingInv'
<1>1. /\ UNCHANGED <<jobs, workers, faults, fetcher, submitter, expired>> /\ faults' \in 0 .. MaxFaults
      /\ committed' \in BOOLEAN
  BY JobTypes DEF SaveMerklePaths, SaveVmRunnerArtifacts, SaveCommitment, proverVars,
                  ProvingInv, ProvingTypeOK
<1>2. /\ details' \in [status : {"none", "unpicked", "picked_by_prover", "generated"},
                       vm_run : BOOLEAN, merkle_paths : BOOLEAN, proof : BOOLEAN]
      /\ details'.proof = details.proof
      /\ \/ details'.status = details.status
         \/ details.status = "none" /\ details'.status = "unpicked"
  BY DEF SaveMerklePaths, SaveVmRunnerArtifacts, SaveCommitment, InsertProofGenerationDetails,
         ProvingInv, ProvingTypeOK
<1>3. ProvingTypeOK'
  BY <1>1, <1>2 DEF ProvingInv, ProvingTypeOK, ProverTypeOK
<1>4. GatewayInv'
  BY <1>1, <1>2 DEF ProvingInv, GatewayInv
<1>5. SentIsStored' /\ GeneratedIsKept'
  BY <1>1, <1>2 DEF ProvingInv, SentIsStored, GeneratedIsKept
<1>. QED
  BY <1>1, <1>3, <1>4, <1>5, GatewayStep

\* A batch whose proof is on its way or stored is in the tables of the prover.
LEMMA ProofNeedsBatch ==
    ASSUME ProvingInv, submitter # "idle" \/ details.proof
    PROVE  jobs[BasicJob].status # "none"
BY BatchIsThere, TablesAreDisjoint DEF ProvingInv, GatewayInv, Final

\* Locking, unlocking and answering: get_proof_generation_data.
LEMMA FetchInv ==
    ASSUME ProvingInv, \/ LockBatchForProving \/ LockExpiredBatch \/ SendData
                       \/ UnlockBatch \/ LoseData
    PROVE  ProvingInv'
<1>1. UNCHANGED <<jobs, workers, committed, submitter>>
  BY DEF LockBatchForProving, LockExpiredBatch, SendData, UnlockBatch, LoseData, proverVars
<1>2. faults' \in 0 .. MaxFaults
  BY JobTypes, ProverAssumption
  DEF LockBatchForProving, LockExpiredBatch, SendData, UnlockBatch, LoseData, proverVars, Fault
<1>3. /\ details' \in [status : {"none", "unpicked", "picked_by_prover", "generated"},
                       vm_run : BOOLEAN, merkle_paths : BOOLEAN, proof : BOOLEAN]
      /\ details'.proof = details.proof
  BY DEF LockBatchForProving, LockExpiredBatch, SendData, UnlockBatch, LoseData,
         ProvingInv, ProvingTypeOK
<1>4. fetcher' \in {"idle", "locked", "answered"} /\ expired' \in BOOLEAN
  BY DEF LockBatchForProving, LockExpiredBatch, SendData, UnlockBatch, LoseData,
         ProvingInv, ProvingTypeOK
<1>5. ProvingTypeOK'
  BY <1>1, <1>2, <1>3, <1>4 DEF ProvingInv, ProvingTypeOK, ProverTypeOK
<1>6. SentIsStored'
  BY <1>1, <1>3 DEF ProvingInv, SentIsStored
<1>7. /\ ~expired' => ~expired
      /\ ~expired' /\ fetcher' # "idle" =>
            jobs[BasicJob].status = "none" /\ details'.status = "picked_by_prover"
      /\ ~expired' /\ details'.status \in {"none", "unpicked"} => jobs[BasicJob].status = "none"
  <2>1. CASE LockBatchForProving
    BY <2>1 DEF LockBatchForProving, ProvingInv, ProvingTypeOK, GatewayInv
  <2>2. CASE LockExpiredBatch
    BY <2>2 DEF LockExpiredBatch, ProvingInv, ProvingTypeOK, GatewayInv
  <2>3. CASE SendData \/ LoseData
    BY <2>3 DEF SendData, LoseData, ProvingInv, ProvingTypeOK, GatewayInv
  <2>4. CASE UnlockBatch
    BY <2>4 DEF UnlockBatch, ProvingInv, ProvingTypeOK, GatewayInv
  <2>. QED
    BY <2>1, <2>2, <2>3, <2>4
<1>8. GatewayInv'
  BY <1>1, <1>3, <1>7 DEF ProvingInv, GatewayInv
<1>9. GeneratedIsKept'
  <2>. SUFFICES ASSUME details'.proof, ~expired' PROVE details'.status = "generated"
    BY DEF GeneratedIsKept
  <2>1. jobs[BasicJob].status # "none" /\ details.status = "generated" /\ ~expired
    BY <1>3, <1>7, ProofNeedsBatch DEF ProvingInv, GeneratedIsKept
  <2>2. fetcher = "idle"
    BY <2>1 DEF ProvingInv, GatewayInv
  <2>. QED
    BY <2>1, <2>2 DEF LockBatchForProving, LockExpiredBatch, SendData, UnlockBatch, LoseData
<1>. QED
  BY <1>1, <1>2, <1>5, <1>6, <1>8, <1>9, GatewayStep

\* save_proof_gen_data: the batch enters the tables of the prover.
LEMMA SaveProofGenDataInv ==
    ASSUME ProvingInv, SaveProofGenData
    PROVE  ProvingInv'
<1>1. /\ UNCHANGED <<workers, faults, details, committed, submitter, expired>>
      /\ fetcher = "answered" /\ fetcher' = "idle" /\ jobs' = Inserted({BasicJob}, "queued")
      /\ BasicJob \in Job /\ BasicJob # Compression /\ Compression \in Job
  BY TablesAreDisjoint, WitnessJobMembers DEF SaveProofGenData
<1>2. /\ \A j \in Job \ {BasicJob} : jobs'[j] = jobs[j]
      /\ jobs'[BasicJob] = IF jobs[BasicJob].status = "none"
                             THEN [status |-> "queued", attempts |-> 0] ELSE jobs[BasicJob]
      /\ jobs' \in [Job -> [status : Status, attempts : 0 .. MaxAttempts]]
  <2>1. [status |-> "queued", attempts |-> 0] \in [status : Status, attempts : 0 .. MaxAttempts]
    BY ProverAssumption DEF Status
  <2>. QED
    BY <1>1, <2>1, JobTypes DEF Inserted
<1>3. \A j \in Job : JobStep(j)
  <2>1. Aggregates(BasicJob) = {}
    BY AggregatesProofs
  <2>2. \A w \in WitnessJob : BasicJob \notin ProverJobsOf(w)
    BY TablesAreDisjoint, WitnessJobMembers
  <2>3. JobStep(BasicJob)
    <3>1. CASE jobs[BasicJob].status = "none"
      BY <1>2, <2>1, <2>2, <3>1 DEF JobStep
    <3>2. CASE jobs[BasicJob].status # "none"
      BY <1>2, <3>2 DEF JobStep
    <3>. QED
      BY <3>1, <3>2
  <2>4. \A j \in Job \ {BasicJob} : JobStep(j)
    BY <1>2 DEF JobStep
  <2>. QED
    BY <2>3, <2>4
<1>4. TablesInv' /\ AggregatesAllProofs'
  BY <1>3, JobTypes, TablesStep
<1>5. ProvingTypeOK'
  BY <1>1, <1>2 DEF ProvingInv, ProvingTypeOK, ProverTypeOK
<1>6. CountersInv'
  <2>1. jobs[BasicJob].status = "none" => workers[BasicJob] = 0
    BY <1>1, JobTypes DEF CountersInv
  <2>2. CASE jobs[BasicJob].status = "none"
    <3>1. /\ jobs'[BasicJob].status = "queued" /\ jobs'[BasicJob].attempts = 0
          /\ workers'[BasicJob] = 0 /\ 0 < MaxAttempts
      BY <1>1, <1>2, <2>1, <2>2, ProverAssumption
    <3>2. \A j \in Job \ {BasicJob} : jobs'[j] = jobs[j] /\ workers'[j] = workers[j]
      BY <1>1, <1>2
    <3>. QED
      BY <3>1, <3>2, JobTypes DEF CountersInv, Final
  <2>3. CASE jobs[BasicJob].status # "none"
    <3>1. \A j \in Job : jobs'[j] = jobs[j] /\ workers'[j] = workers[j]
      BY <1>1, <1>2, <2>3
    <3>. QED
      BY <3>1, JobTypes DEF CountersInv
  <2>. QED
    BY <2>2, <2>3
<1>7. GatewayInv' /\ SentIsStored' /\ GeneratedIsKept'
  BY <1>1, <1>2 DEF ProvingInv, GatewayInv, SentIsStored, GeneratedIsKept
<1>. QED
  BY <1>4, <1>5, <1>6, <1>7 DEF ProvingInv

\* submit_proof and the lost answer.
LEMMA SubmitInv ==
    ASSUME ProvingInv, SendProof \/ SubmitProof \/ LoseProof
    PROVE  ProvingInv'
<1>1. UNCHANGED <<jobs, workers, committed, fetcher, expired>>
  BY DEF SendProof, SubmitProof, LoseProof, proverVars
<1>2. faults' \in 0 .. MaxFaults
  BY JobTypes, ProverAssumption DEF SendProof, SubmitProof, LoseProof, proverVars, Fault
<1>3. submitter' \in {"idle", "sent", "answered"}
  BY DEF SendProof, SubmitProof, LoseProof, ProvingInv, ProvingTypeOK
<1>4. CASE SendProof \/ LoseProof
  <2>1. details' = details
    BY <1>4 DEF SendProof, LoseProof
  <2>2. ProvingTypeOK'
    BY <1>1, <1>2, <1>3, <2>1 DEF ProvingInv, ProvingTypeOK, ProverTypeOK
  <2>3. GatewayInv'
    BY <1>1, <1>4, <2>1 DEF ProvingInv, GatewayInv, SendProof, LoseProof, Final
  <2>4. SentIsStored' /\ GeneratedIsKept'
    BY <1>1, <2>1 DEF ProvingInv, SentIsStored, GeneratedIsKept
  <2>. QED
    BY <1>1, <1>2, <2>2, <2>3, <2>4, GatewayStep
<1>5. CASE SubmitProof
  <2>1. submitter = "sent" /\ jobs[BasicJob].status # "none"
    BY <1>5, ProofNeedsBatch DEF SubmitProof
  <2>2. details' \in [status : {"none", "unpicked", "picked_by_prover", "generated"},
                      vm_run : BOOLEAN, merkle_paths : BOOLEAN, proof : BOOLEAN]
    BY <1>5 DEF SubmitProof, ProvingInv, ProvingTypeOK
  <2>3. details'.status = "generated" /\ details'.proof
    <3>1. details \in [status : {"none", "unpicked", "picked_by_prover", "generated"},
                       vm_run : BOOLEAN, merkle_paths : BOOLEAN, proof : BOOLEAN]
      BY DEF ProvingInv, ProvingTypeOK
    <3>. QED
      BY <1>5, <3>1 DEF SubmitProof
  <2>4. ProvingTypeOK'
    BY <1>1, <1>2, <1>3, <2>2 DEF ProvingInv, ProvingTypeOK, ProverTypeOK
  <2>5. GatewayInv'
    BY <1>1, <2>1, <2>3 DEF ProvingInv, GatewayInv
  <2>6. SentIsStored' /\ GeneratedIsKept'
    BY <2>3 DEF SentIsStored, GeneratedIsKept
  <2>. QED
    BY <1>1, <1>2, <2>4, <2>5, <2>6, GatewayStep
<1>. QED
  BY <1>4, <1>5

\* handle_response: the gateway forgets the proof.
LEMMA MarkProofSentInv ==
    ASSUME ProvingInv, MarkProofSent
    PROVE  ProvingInv'
<1>1. /\ UNCHANGED <<workers, faults, details, committed, fetcher, expired>>
      /\ submitter = "answered" /\ submitter' = "idle" /\ Compression \in Job
      /\ jobs' = [jobs EXCEPT ![Compression].status = "sent_to_server"]
      /\ BasicJob \in Job /\ BasicJob # Compression
  BY TablesAreDisjoint, WitnessJobMembers DEF MarkProofSent
<1>2. details.proof /\ jobs[Compression].status \in Final
  BY <1>1 DEF ProvingInv, GatewayInv
<1>3. /\ \A j \in Job \ {Compression} : jobs'[j] = jobs[j]
      /\ jobs'[Compression].status = "sent_to_server"
      /\ jobs' \in [Job -> [status : Status, attempts : 0 .. MaxAttempts]]
  <2>1. /\ [jobs[Compression] EXCEPT !.status = "sent_to_server"]
              \in [status : Status, attempts : 0 .. MaxAttempts]
        /\ [jobs[Compression] EXCEPT !.status = "sent_to_server"].status = "sent_to_server"
    BY <1>1, JobTypes DEF Status
  <2>. QED
    BY <1>1, <2>1, JobTypes
<1>4. \A j \in Job : JobStep(j)
  BY <1>2, <1>3 DEF JobStep, Final
<1>5. TablesInv' /\ AggregatesAllProofs'
  BY <1>4, JobTypes, TablesStep
<1>6. ProvingTypeOK'
  BY <1>1, <1>3 DEF ProvingInv, ProvingTypeOK, ProverTypeOK
<1>7. CountersInv'
  BY <1>1, <1>3, JobTypes DEF CountersInv, Final
<1>8. GatewayInv' /\ SentIsStored' /\ GeneratedIsKept'
  BY <1>1, <1>2, <1>3 DEF ProvingInv, GatewayInv, SentIsStored, GeneratedIsKept, Final
<1>. QED
  BY <1>5, <1>6, <1>7, <1>8 DEF ProvingInv

\* Every step.
LEMMA ProvingNextInv == ProvingInv /\ [ProvingNext]_provingVars => ProvingInv'
<1>. SUFFICES ASSUME ProvingInv, [ProvingNext]_provingVars PROVE ProvingInv'
  OBVIOUS
<1>1. CASE UNCHANGED provingVars
  BY <1>1 DEF provingVars, proverVars, gatewayVars, ProvingInv, ProvingTypeOK, ProverTypeOK,
              CountersInv, TablesInv, AggregatesAllProofs, GatewayInv, SentIsStored,
              GeneratedIsKept
<1>. QED
  BY <1>1, RowInv, FetchInv, SaveProofGenDataInv, SubmitInv, MarkProofSentInv, ProverInv
  DEF ProvingNext, Progress, Fetch, Submit

\* The invariant of the prover, the gateway and the node.
LEMMA ProvingInvariant == ProvingSpec => []ProvingInv
BY ProvingInitInv, ProvingNextInv, PTL DEF ProvingSpec

-----------------------------------------------------------------------------
(* From the compressed proof back to the circuits *)

\* A successful witness job of a node aggregation has the proofs of the
\* aggregation before it, and so their witness job has succeeded.
LEMMA NodesBack ==
    ASSUME ProvingInv, NEW c \in Circuit,
           jobs[Witness(2, c, FinalDepth(c) - 1)].status = "successful"
    PROVE  \A d \in 0 .. FinalDepth(c) - 1 : jobs[Witness(2, c, d)].status = "successful"
<1> DEFINE T == {e \in 0 .. FinalDepth(c) - 1 :
                   jobs[Witness(2, c, FinalDepth(c) - 1 - e)].status # "successful"}
<1>0. FinalDepth(c) \in Nat \ {0}
  BY AggregationAssumption, ProverAssumption DEF Circuit
<1>. SUFFICES ASSUME T # {} PROVE FALSE
  <2>1. ASSUME NEW d \in 0 .. FinalDepth(c) - 1, T = {} PROVE jobs[Witness(2, c, d)].status = "successful"
    <3>1. FinalDepth(c) - 1 - d \in 0 .. FinalDepth(c) - 1
          /\ FinalDepth(c) - 1 - (FinalDepth(c) - 1 - d) = d
      BY <1>0, <2>1
    <3>. QED
      BY <2>1, <3>1
  <2>. QED
    BY <2>1
<1>1. PICK e \in T : \A f \in T : ~(<<f, e>> \in OpToRel(<, Nat))
  <2>1. T \subseteq Nat
    BY <1>0
  <2>. QED
    BY <2>1, NatLessThanWellFounded, WFMin
<1>2. \A f \in T : ~(f < e)
  <2>1. \A f \in T : f \in Nat
    BY <1>0
  <2>2. \A f \in T : f < e => <<f, e>> \in OpToRel(<, Nat)
    <3>. HIDE DEF T
    <3>. QED
      BY <2>1, Zenon DEF OpToRel
  <2>. QED
    BY <1>1, <2>2, Zenon
<1> DEFINE d == FinalDepth(c) - 1 - e
<1>3. e # 0 /\ e \in 1 .. FinalDepth(c) - 1 /\ d \in 0 .. FinalDepth(c) - 2
  BY <1>0
<1>4. e - 1 \notin T
  BY <1>0, <1>2, <1>3
<1>5. jobs[Witness(2, c, d + 1)].status = "successful"
  <2>1. e - 1 \in 0 .. FinalDepth(c) - 1 /\ FinalDepth(c) - 1 - (e - 1) = d + 1
    BY <1>0, <1>3
  <2>. QED
    BY <1>4, <2>1
<1>6. d + 1 \in 1 .. FinalDepth(c) - 1 /\ d \in 0 .. FinalDepth(c) - 1 /\ (d + 1) - 1 = d
  BY <1>0, <1>3
<1>7. jobs[Witness(2, c, d)].status # "successful"
  OBVIOUS
<1>. HIDE DEF d, T
<1>8. /\ Witness(2, c, d) \in WitnessJob /\ Witness(2, c, d + 1) \in Job
      /\ Aggregates(Witness(2, c, d + 1)) = ProverJobsOf(Witness(2, c, d))
  BY <1>6, WitnessJobMembers, AggregatesProofs, TablesAreDisjoint
<1>9. Proof(2, c, d + 1, 1) \in ProverJobsOf(Witness(2, c, d))
  <2>1. 1 \in 1 .. Aggregated(c)[d + 1]
    BY <1>0, <1>6, AggregationAssumption
  <2>. QED
    BY <2>1, ProverJobsAre
<1>10. jobs[Proof(2, c, d + 1, 1)].status = "successful"
  BY <1>5, <1>8, <1>9 DEF ProvingInv, AggregatesAllProofs
<1>11. jobs[Witness(2, c, d)].status = "successful"
  BY <1>8, <1>9, <1>10 DEF ProvingInv, TablesInv
<1>. QED
  BY <1>7, <1>11

\* A compressed proof stands for the proofs of all the circuits.
LEMMA CompressedIsOfAll ==
    ASSUME ProvingInv, jobs[Compression].status \in Final
    PROVE  \A p \in ProverJob : jobs[p].status = "successful"
<1>0. \A j \in Job : \A p \in Aggregates(j) :
         jobs[j].status \in Final => jobs[p].status = "successful"
  BY DEF ProvingInv, AggregatesAllProofs, Final
<1>1. \A w \in WitnessJob : \A p \in ProverJobsOf(w) :
         jobs[p].status = "successful" => jobs[w].status = "successful"
  BY DEF ProvingInv, TablesInv
<1>2. /\ \A p \in ProverJobsOf(SchedulerJob) : jobs[p].status = "successful"
      /\ jobs[SchedulerJob].status = "successful"
  BY <1>0, <1>1, AggregatesProofs, ProverJobsAre, TablesAreDisjoint, WitnessJobMembers
<1>3. /\ \A p \in ProverJobsOf(RecursionTipJob) : jobs[p].status = "successful"
      /\ jobs[RecursionTipJob].status = "successful"
  <2>1. SchedulerJob \in Job /\ RecursionTipJob \in WitnessJob
    BY TablesAreDisjoint, WitnessJobMembers
  <2>2. \A p \in ProverJobsOf(RecursionTipJob) : jobs[p].status = "successful"
    <3>1. ProverJobsOf(RecursionTipJob) = Aggregates(SchedulerJob)
      BY AggregatesProofs
    <3>. QED
      BY <1>0, <1>2, <2>1, <3>1 DEF Final
  <2>3. Proof(3, 0, 0, 1) \in ProverJobsOf(RecursionTipJob)
    BY ProverJobsAre
  <2>. QED
    BY <1>1, <2>1, <2>2, <2>3
<1>4. ASSUME NEW c \in Circuit
      PROVE  /\ jobs[Witness(2, c, FinalDepth(c) - 1)].status = "successful"
             /\ \A p \in ProverJobsOf(Witness(2, c, FinalDepth(c) - 1)) :
                   jobs[p].status = "successful"
  <2>1. /\ FinalDepth(c) \in Nat \ {0} /\ FinalDepth(c) - 1 \in 0 .. FinalDepth(c) - 1
        /\ (FinalDepth(c) - 1) + 1 = FinalDepth(c)
    BY AggregationAssumption
  <2>2. ASSUME NEW p \in ProverJobsOf(Witness(2, c, FinalDepth(c) - 1))
        PROVE  jobs[p].status = "successful"
    <3>1. p \in Aggregates(RecursionTipJob)
      BY AggregatesProofs
    <3>. QED
      BY <1>0, <1>3, <3>1, TablesAreDisjoint, WitnessJobMembers DEF Final
  <2>3. Proof(2, c, FinalDepth(c), 1) \in ProverJobsOf(Witness(2, c, FinalDepth(c) - 1))
    <3>1. 1 \in 1 .. Aggregated(c)[FinalDepth(c)]
      BY AggregationAssumption
    <3>. QED
      BY <2>1, <3>1, ProverJobsAre
  <2>. QED
    BY <1>1, <2>1, <2>2, <2>3, WitnessJobMembers
<1>5. ASSUME NEW c \in Circuit, NEW d \in 0 .. FinalDepth(c) - 1
      PROVE  \A p \in ProverJobsOf(Witness(2, c, d)) : jobs[p].status = "successful"
  <2>1. CASE d = FinalDepth(c) - 1
    BY <1>4, <2>1
  <2>2. CASE d # FinalDepth(c) - 1
    <3>1. d + 1 \in 0 .. FinalDepth(c) - 1 /\ d + 1 \in 1 .. FinalDepth(c) - 1 /\ (d + 1) - 1 = d
      BY <2>2, AggregationAssumption
    <3>2. jobs[Witness(2, c, d + 1)].status = "successful"
      BY <1>4, <3>1, NodesBack
    <3>3. /\ Aggregates(Witness(2, c, d + 1)) = ProverJobsOf(Witness(2, c, d))
          /\ Witness(2, c, d + 1) \in Job
      BY <3>1, AggregatesProofs, TablesAreDisjoint, WitnessJobMembers
    <3>. QED
      BY <1>0, <3>2, <3>3 DEF Final
  <2>. QED
    BY <2>1, <2>2
<1>6. ASSUME NEW c \in Circuit
      PROVE  /\ \A p \in ProverJobsOf(Witness(1, c, 0)) : jobs[p].status = "successful"
             /\ jobs[Witness(1, c, 0)].status = "successful"
  <2>1. 0 \in 0 .. FinalDepth(c) - 1 /\ 0 \in 0 .. FinalDepth(c)
    BY AggregationAssumption
  <2>2. jobs[Witness(2, c, 0)].status = "successful"
    BY <1>4, <2>1, NodesBack
  <2>3. \A p \in ProverJobsOf(Witness(1, c, 0)) : jobs[p].status = "successful"
    BY <1>0, <2>1, <2>2, AggregatesProofs, TablesAreDisjoint, WitnessJobMembers DEF Final
  <2>4. Proof(1, c, 0, 1) \in ProverJobsOf(Witness(1, c, 0))
    <3>1. 1 \in 1 .. Aggregated(c)[0]
      BY <2>1, AggregationAssumption
    <3>. QED
      BY <3>1, ProverJobsAre
  <2>. QED
    BY <1>1, <2>3, <2>4, WitnessJobMembers
<1>7. ASSUME NEW p \in ProverJobsOf(BasicJob) PROVE jobs[p].status = "successful"
  <2>1. PICK c \in Circuit : p.circuit = c
    <3>1. p \in UNION {{Proof(0, c, 0, k) : k \in 1 .. BasicCircuits[c]} : c \in Circuit}
      BY ProverJobsAre
    <3>2. PICK c \in Circuit : \E k \in 1 .. BasicCircuits[c] : p = Proof(0, c, 0, k)
      BY <3>1, Zenon
    <3>3. \A k : Proof(0, c, 0, k).circuit = c
      BY DEF Proof
    <3>. QED
      BY <3>2, <3>3
  <2>2. p \in Aggregates(Witness(1, c, 0))
    BY <2>1, AggregatesProofs
  <2>. QED
    BY <1>0, <1>6, <2>2, TablesAreDisjoint, WitnessJobMembers DEF Final
<1>8. \A w \in WitnessJob : \A p \in ProverJobsOf(w) : jobs[p].status = "successful"
  BY <1>2, <1>3, <1>5, <1>6, <1>7, WitnessJobs
<1>. QED
  BY <1>8, Zenon DEF ProverJob

-----------------------------------------------------------------------------

\* Type correctness; in particular no job is taken more than max_attempts times.
THEOREM ProvingTypes == ProvingSpec => []ProvingTypeOK
<1>1. ProvingInv => ProvingTypeOK
  BY DEF ProvingInv
<1>. QED
  BY <1>1, ProvingInvariant, PTL

\* A witness job that was ever queued has all the proofs it aggregates, and
\* keeps them, whatever late or repeated workers report.
THEOREM JobsHaveTheirProofs == ProvingSpec => []AggregatesAllProofs
<1>1. ProvingInv => AggregatesAllProofs
  BY DEF ProvingInv
<1>. QED
  BY <1>1, ProvingInvariant, PTL

\* The proof the node stores was made from a proof of every circuit.
THEOREM StoredProofIsComplete == ProvingSpec => []ProofIsOfAllCircuits
<1>1. ProvingInv => ProofIsOfAllCircuits
  <2>. SUFFICES ASSUME ProvingInv, details.proof PROVE \A p \in ProverJob : jobs[p].status = "successful"
    BY DEF ProofIsOfAllCircuits
  <2>1. jobs[Compression].status \in Final
    BY DEF ProvingInv, GatewayInv
  <2>. QED
    BY <2>1, CompressedIsOfAll
<1>. QED
  BY <1>1, ProvingInvariant, PTL

\* The gateway marks a proof as sent only when the node has stored it, although
\* the answer to submit_proof may be lost.
THEOREM SentProofIsStored == ProvingSpec => []SentIsStored
<1>1. ProvingInv => SentIsStored
  BY DEF ProvingInv
<1>. QED
  BY <1>1, ProvingInvariant, PTL

\* A batch with a proof is not given out for proving again, as long as no lock
\* expires while the batch is proven.
THEOREM GeneratedStays == ProvingSpec => []GeneratedIsKept
<1>1. ProvingInv => GeneratedIsKept
  BY DEF ProvingInv
<1>. QED
  BY <1>1, ProvingInvariant, PTL

=============================================================================
