------------------------------- MODULE Integrity -------------------------------
(***************************************************************************)
(* What becomes of an accepted circuit: it is planned, run and merged, the *)
(* result is post-processed and given its provenance, a proof is made of   *)
(* the artifacts (src/qontos/integrity) and they are stored and read back. *)
(* The repository has no caller of these stages: they come in any order.   *)
(*                                                                         *)
(* The plan is any that Partitioner may return (PlanPartitionsQubits), the *)
(* merged counts any.  A dictionary is a sequence of its items.  A SHA-256 *)
(* of a JSON dump is what was dumped, an object's keys in any order and a  *)
(* sorted list of distinct qubits being a set.                             *)
(***************************************************************************)
EXTENDS Ingestion

CONSTANTS
    Followed,       \* bound: texts whose jobs are followed beyond ingestion
    Strategies,     \* names of partition strategies
    MaxPartitions,  \* bound: partitions of a plan
    MergedCounts,   \* what a merge may return: sequences of [bits, count]
    Providers,      \* who may execute a partition
    Thresholds,     \* arguments of filter_noise, as fractions [num, den]
    TopKs,          \* arguments of top_k_states
    MaxStages       \* bound: stages after the merge

ASSUME MergedOK ==
    \A c \in MergedCounts :
        /\ DOMAIN c = 1..Len(c) /\ Len(c) \in Nat
        /\ \A i \in DOMAIN c : c[i].count \in Nat \ {0}
        /\ \A i, j \in DOMAIN c : i # j => c[i].bits # c[j].bits

ASSUME StagesOK ==
    /\ MaxStages \in Nat /\ TopKs \subseteq Nat
    /\ \A t \in Thresholds : t.num \in Int /\ t.den \in Nat \ {0}

VARIABLES
    manifest, plan, result,     \* the artifacts of the run, as they are kept
    proof,                      \* its ExecutionProof
    audit,                      \* audit entries built, to be attached
    merged,                     \* history: the counts as merged
    proved,                     \* history: the artifacts the proof was made of
    stages                      \* how many stages came after the merge

stageVars == <<manifest, plan, result, proof, audit, merged, proved, stages>>

-------------------------------------------------------------------------------
(* ExecutionHasher and ProofGenerator *)
hash_manifest(m) ==
    [job_id |-> m.job_id, input_type |-> m.input_type, circuit_hash |-> m.circuit_hash,
     num_qubits |-> m.num_qubits, shots |-> m.shots,
     optimization_level |-> m.optimization_level]

SetOf(list) == {list[i] : i \in DOMAIN list}

\* mutant: the qubits as they are listed
hash_plan_unsorted(p) ==
    [job_id |-> p.job_id, strategy |-> p.strategy,
     partitions |-> [i \in DOMAIN p.partitions |->
                        [id |-> p.partitions[i].partition_id,
                         qubits |-> p.partitions[i].qubit_indices,
                         gates |-> p.partitions[i].gate_count]],
     dependencies |-> p.dependencies]
hash_partition_plan(p) ==
    [job_id |-> p.job_id, strategy |-> p.strategy,
     partitions |-> [i \in DOMAIN p.partitions |->
                        [id |-> p.partitions[i].partition_id,
                         qubits |-> SetOf(p.partitions[i].qubit_indices),
                         gates |-> p.partitions[i].gate_count]],
     dependencies |-> p.dependencies]

\* mutant: the counts in the order of the dictionary
hash_result_unsorted(r) ==
    [job_id |-> r.job_id, counts |-> r.final_counts, total_shots |-> r.total_shots,
     aggregation_method |-> r.aggregation_method]
hash_result(r) ==
    [job_id |-> r.job_id, counts |-> SetOf(r.final_counts), total_shots |-> r.total_shots,
     aggregation_method |-> r.aggregation_method]

compute_proof_hash(m, p, r) ==
    [input_digest |-> hash_manifest(m), execution_digest |-> hash_partition_plan(p),
     output_digest |-> hash_result(r)]

generate(m, p, r) ==
    [job_id |-> m.job_id, proof_hash |-> compute_proof_hash(m, p, r),
     circuit_hash |-> m.circuit_hash, result_hash |-> hash_result(r),
     manifest_hash |-> hash_manifest(m), input_digest |-> hash_manifest(m),
     execution_digest |-> hash_partition_plan(p), output_digest |-> hash_result(r)]

-------------------------------------------------------------------------------
(* ResultPostProcessor *)
Total(counts) == LET upTo[i \in 0..Len(counts)] ==
                         IF i = 0 THEN 0 ELSE upTo[i - 1] + counts[i].count
                 IN  upTo[Len(counts)]

filter_noise(counts, t) ==
    IF Total(counts) = 0 THEN counts
    ELSE Selected(counts, {i \in DOMAIN counts :
                             counts[i].count * t.den >= t.num * Total(counts)})

\* a stable sort by count: what comes before i
\* mutant: without reverse=True
BeforeAscending(counts, i) ==
    {j \in DOMAIN counts : counts[j].count < counts[i].count
                           \/ (counts[j].count = counts[i].count /\ j < i)}
Before(counts, i) ==
    {j \in DOMAIN counts : counts[j].count > counts[i].count
                           \/ (counts[j].count = counts[i].count /\ j < i)}
Sorted(counts) ==
    [p \in DOMAIN counts |->
        counts[CHOOSE i \in DOMAIN counts : Cardinality(Before(counts, i)) = p - 1]]
Smaller(a, b) == IF a < b THEN a ELSE b
top_k_states(counts, k) == SubSeq(Sorted(counts), 1, Smaller(k, Len(counts)))

-------------------------------------------------------------------------------
(* Plans and results *)
Operates(g, part) == \E j \in DOMAIN g.qubits : g.qubits[j] \in part
Listings(S) == {l \in [1..Cardinality(S) -> S] : SetOf(l) = S}

\* parts of the circuit's qubits, none empty
Divisions(c, k) ==
    {[p \in 1..k |-> {q \in 0..c.num_qubits - 1 : f[q] = p}] :
        f \in {g \in [0..c.num_qubits - 1 -> 1..k] :
                  \A p \in 1..k : \E q \in 0..c.num_qubits - 1 : g[q] = p}}

Plan(c, job, strategy, parts, deps) ==
    [job_id |-> job, strategy |-> strategy,
     partitions |-> [p \in DOMAIN parts |->
                        [partition_id |-> <<job, p>>,
                         qubit_indices |-> Ascending(parts[p]),
                         gate_count |-> Cardinality({i \in DOMAIN c.gates :
                                                        \/ Operates(c.gates[i], parts[p])
                                                        \/ Len(parts) = 1})]],
     dependencies |-> deps]

Edges(c, job, parts) ==
    {[from_partition |-> <<job, e[1]>>, to_partition |-> <<job, e[2]>>] :
        e \in {d \in (DOMAIN parts) \X (DOMAIN parts) :
                  /\ d[1] < d[2]
                  /\ \E i \in DOMAIN c.gates : /\ Operates(c.gates[i], parts[d[1]])
                                               /\ Operates(c.gates[i], parts[d[2]])}}

PlansOf(c, job) ==
    UNION {{Plan(c, job, s, parts, deps) :
               s \in Strategies, deps \in Listings(Edges(c, job, parts))} :
              parts \in UNION {Divisions(c, k) : k \in 1..MaxPartitions}}

MethodOf(p) == IF Len(p.partitions) = 1 THEN "passthrough"
               ELSE IF p.dependencies = <<>> THEN "tensor_product"
               ELSE "marginal_reconstruction"

RunResult(p, counts, executed) ==
    [job_id |-> p.job_id, final_counts |-> counts, total_shots |-> manifest.shots,
     aggregation_method |-> MethodOf(p), partition_results |-> executed,
     proof_hash |-> "", provenance |-> None]

-------------------------------------------------------------------------------
StageInit == /\ manifest = None /\ plan = None /\ result = None /\ proof = None
             /\ audit = None /\ merged = <<>> /\ proved = None /\ stages = 0

\* An accepted circuit is planned ...
MakePlan == /\ manifest = None
            /\ \A e \in catalog : e.manifest # None /\ e.call.text \in Followed
            /\ \E e \in catalog :
                  /\ manifest' = e.manifest
                  /\ plan' \in PlansOf(e.ir, e.manifest.job_id)
            /\ UNCHANGED <<result, proof, audit, merged, proved, stages>>

\* ... executed, and merged
Merge == /\ plan # None /\ result = None
         /\ \E counts \in MergedCounts, executed \in [DOMAIN plan.partitions -> Providers] :
               /\ result' = RunResult(plan, counts, executed)
               /\ merged' = counts
         /\ UNCHANGED <<manifest, plan, proof, audit, proved, stages>>

Stage == result # None /\ stages < MaxStages /\ stages' = stages + 1
Recount(counts) == /\ result' = [result EXCEPT !.final_counts = counts]
                   /\ UNCHANGED <<manifest, plan, proof, audit, merged, proved>>

PostProcess == /\ Stage
               /\ \/ \E t \in Thresholds : Recount(filter_noise(result.final_counts, t))
                  \/ \E k \in TopKs : Recount(top_k_states(result.final_counts, k))

\* the last proof is the one that is kept
Prove == /\ Stage
         /\ proof' = generate(manifest, plan, result)
         /\ proved' = [manifest |-> manifest, plan |-> plan, result |-> result]
         /\ UNCHANGED <<manifest, plan, result, audit, merged>>

StampProof == /\ Stage /\ proof # None
              /\ result' = [result EXCEPT !.proof_hash = proof.proof_hash]
              /\ UNCHANGED <<manifest, plan, proof, audit, merged, proved>>

\* build_provenance
Entry(event, data) == [job_id |-> result.job_id, event |-> event, data |-> data]
BuildProvenance ==
    /\ Stage
    /\ audit' = <<Entry("result_aggregated", [method |-> result.aggregation_method,
                                              states |-> Len(result.final_counts)])>>
                \o [p \in DOMAIN result.partition_results |->
                       Entry("partition_executed", [partition |-> p,
                                                    provider |-> result.partition_results[p]])]
    /\ UNCHANGED <<manifest, plan, result, proof, merged, proved>>

AttachProvenance == /\ Stage /\ audit # None
                    /\ result' = [result EXCEPT !.provenance = audit]
                    /\ UNCHANGED <<manifest, plan, proof, audit, merged, proved>>

\* A store hands the artifacts back with lists of qubits and keys in another order
Reordered(counts) == {[i \in DOMAIN counts |-> counts[f[i]]] :
                         f \in {g \in [DOMAIN counts -> DOMAIN counts] : SetOf(g) = DOMAIN counts}}
Store == /\ Stage
         /\ \E counts \in Reordered(result.final_counts) :
               result' = [result EXCEPT !.final_counts = counts]
         /\ \E p \in DOMAIN plan.partitions :
               \E l \in Reordered(plan.partitions[p].qubit_indices) :
                  plan' = [plan EXCEPT !.partitions[p].qubit_indices = l]
         /\ UNCHANGED <<manifest, proof, audit, merged, proved>>

\* or with another artifact in the place of one of them
OtherManifest == {e.manifest : e \in {f \in catalog : f.manifest # None}}
                 \cup {[manifest EXCEPT !.shots = @ + 1]}
OtherPlan == UNION {PlansOf(e.ir, plan.job_id) : e \in {f \in catalog : f.manifest = manifest}}
Mistake == /\ Stage
           /\ \/ manifest' \in OtherManifest /\ UNCHANGED <<plan, result, merged>>
              \/ plan' \in OtherPlan /\ UNCHANGED <<manifest, result, merged>>
              \/ /\ merged' \in MergedCounts
                 /\ result' = [result EXCEPT !.final_counts = merged']
                 /\ UNCHANGED <<manifest, plan>>
           /\ UNCHANGED <<proof, audit, proved>>

StageNext == \/ MakePlan \/ Merge \/ PostProcess
             \/ Prove \/ StampProof \/ BuildProvenance \/ AttachProvenance
             \/ Store \/ Mistake

\* circuits are ingested first
Init == IngestInit /\ StageInit
Next == \/ manifest = None /\ IngestNext /\ UNCHANGED stageVars
        \/ pc = "idle" /\ StageNext /\ UNCHANGED ingestVars

vars == <<ingestVars, stageVars>>
Spec == Init /\ [][Next]_vars

-------------------------------------------------------------------------------
TypeOK ==
    /\ calls \in 0..MaxCalls /\ pc \in Locations /\ at \in Nat \ {0}
    /\ pc # "idle" => call.entry \in Entries /\ call.input_type \in InputTypes
    /\ ir.num_qubits \in Nat
    /\ \A i \in DOMAIN ir.gates : ir.gates[i].qubits \in Seq(Int)
    /\ \A e \in catalog : e.manifest # None => e.manifest.num_qubits \in 1..MaxQubits
    /\ stages \in 0..MaxStages
    /\ (plan = None) = (manifest = None)
    /\ result # None => plan # None
    /\ (proof = None) = (proved = None)

\* the fields of two runs that their proofs are about: dictionaries and lists of
\* qubits are the same in any order
SameManifest(a, b) ==
    \A field \in {"job_id", "input_type", "circuit_hash", "num_qubits", "shots",
                   "optimization_level"} : a[field] = b[field]
SamePlan(a, b) ==
    /\ a.job_id = b.job_id /\ a.strategy = b.strategy /\ a.dependencies = b.dependencies
    /\ DOMAIN a.partitions = DOMAIN b.partitions
    /\ \A p \in DOMAIN a.partitions :
          LET x == a.partitions[p]
              y == b.partitions[p]
          IN  /\ x.partition_id = y.partition_id /\ x.gate_count = y.gate_count
              /\ SetOf(x.qubit_indices) = SetOf(y.qubit_indices)
SameResult(a, b) ==
    /\ a.job_id = b.job_id /\ a.total_shots = b.total_shots
    /\ a.aggregation_method = b.aggregation_method
    /\ SetOf(a.final_counts) = SetOf(b.final_counts)

Verifies == compute_proof_hash(manifest, plan, result) = proof.proof_hash

\* Computed again from the artifacts, in whatever order the stages, the stores and
\* the mistakes came, the proof hash is the proof's exactly if the artifacts still
\* are, field by field, those it was made of: being given the proof or provenance,
\* stored and read back does not break a proof, and no other job's manifest, other
\* plan or other counts pass for what was proved.
ProofBinds ==
    proof # None =>
        (Verifies <=> /\ SameManifest(manifest, proved.manifest)
                      /\ SamePlan(plan, proved.plan)
                      /\ SameResult(result, proved.result))

\* However often noise is filtered and states are cut off, and in whatever order,
\* no outcome appears, no count changes, and none that was removed is more frequent
\* than one that is left.
MostFrequentKept ==
    result # None =>
        LET left == SetOf(result.final_counts)
        IN  /\ left \subseteq SetOf(merged)
            /\ Len(result.final_counts) = Cardinality(left)
            /\ \A x \in left, y \in SetOf(merged) \ left : y.count <= x.count
===============================================================================
