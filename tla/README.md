# TLA+ models of QONTOS

This directory models the QONTOS SDK in TLA+, model-checks it with TLC on small
instances, and proves its main safety properties with TLAPS for every instance.
`PROJECT.json` lists the runs, the definition-to-code map, mutated definitions
that show each property can fail, the divergences found, the hazards and the
theorems. Paths below are relative to `src/src/qontos/`.

## The system

QONTOS is a client library and the pieces of a pipeline that runs a quantum
circuit on several backends. The package holds the library; the API server, the
workers, the executors and the backends are outside it.

    text ----normalizer--> CircuitIR --Partitioner--> PartitionPlan --Scheduler--> ScheduledTasks
                                                                                        |
                                                                        (executors, external)
                                                                                        |
    RunResult + proof <--hashing-- RunResult <--ResultAggregator-- PartitionResults <---+
    job: JobOutcomeReport, enriched by the stages and read by every consumer
    user: QontosClient / AsyncQontosClient --HTTP--> API server (external)

| component | code | state | operations | what is hard |
|---|---|---|---|---|
| job outcome contract | `models/job_outcome.py` | one report per holder, a private frozen flag | construct, `enrich`, `freeze`, JSON round trip | stages in any order, partial knowledge, copies that lose the flag |
| request loop | `client.py`, `async_client.py`, `exceptions.py` | attempt number, last exception, the shared httpx client | `_request`, `close`, task cancellation | lost and late answers, retries of what was done, several threads or tasks |
| waiting for a job | `client.py`, `async_client.py`, `sdk_models.py` | deadline, last response | `wait_for_job`, `cancel_job`, `get_job`, `get_job_outcome` | status and report out of step, cancellation racing completion, a clock that is set |
| partitioner | `partitioning/` | seeds, assigned qubits, groups, plan under construction | `run` and its strategies, cost model, plan assembly | ties, dense and empty graphs, limits, two ways of counting the same gates |
| result aggregation | `results/aggregate.py`, `models/result.py` | the list of results | `aggregate` | results reordered, missing, repeated; placing bits; rounding |
| scheduler | `scheduling/`, `models/scheduling.py`, `models/backend.py` | the best backend so far, the tasks so far | `schedule` | ties, preferences that exclude, the choice for one partition leaking into the next |
| circuit ingestion | `circuit/` | the circuit under construction | `normalize`, `normalize_to_manifest`, the validator, both translators | wires of a tape that nobody checked, names and gates a translator loses |
| integrity | `integrity/`, `models/proof.py` | the proof of a run | digests, `ProofGenerator` | what a digest covers, artifacts stored in another order or mistaken for others |
| post-processing, provenance | `results/postprocess.py`, `results/provenance.py` | the counts of a result, its audit trail | `filter_noise`, `top_k_states`, audit entries | stages in any order, also after the proof |
| enumerations | `models/enums.py` | none | none | declarations that no code branches on |

The library is sequential except for the clients, which threads and tasks share.
The order in which stages, results and responses arrive is not fixed anywhere,
and those orders are what the models explore.

## The modules

Every module quotes the code's names. A name in `PROJECT.json` under `map` points
to the lines it translates. A definition marked `mutant` is a plausible bug; it
is used only to show that a property can fail.

**JobOutcome** models `JobOutcomeReport`. The state is the report each holder
(worker, API, replay...) has. `Construct` is the pydantic constructor with
`_derive_and_check_invariants`, which clamps the derived `completed_partitions`
at zero and only logs a violated invariant; `Enrich` is `enrich()` for all three
stages, with `verify_disjoint()` raising; `Freeze` and `Transport` are `freeze()`
and `from_dict(to_dict())`. Id lists are sets of numbered occurrences, since the
code never looks at their order but does count duplicates. The repository has no
caller of `enrich()`, so stages come in any order with any lists.

**ClientRequest** models `_request`: one action per place where the loop can be
interrupted. `Send`, `Receive`, `ReadTimeout`, `ConnectError`, `RawTimeout`
(connect and pool timeouts that no `except` catches), `TransportError`, `Wake`
(the sleep ends), `Exhausted` (`raise last_exc`), `Close`, `CancelTask`. The
server performs or refuses a request when it likes, also after its caller gave
up. `seen` is a history variable. **RemoteCall** is the abstract promise of an
API call (at most `max_retries` effects, a returned value had one), and
`ImplementsRemoteCall` is the refinement.

**JobWait** models `wait_for_job` of both clients against a platform (external)
that runs the job, ends it, and honours or refuses `cancel_job`. How the job ended
is `verdict`. A response shows a status, and in two more keys it may say how the
job ended: a nested `outcome_report` and a top-level `outcome`. Each comes with the
status, later or never, and until then may go on saying what it said of the running
job (`OldOutcomes`); and a platform whose statuses know no partial failure shows a
degraded job as "completed" (`Shown`). The `Job` that the SDK parses has the status
and the nested report; `FromApiResponse` reads all three. A poll is two steps,
because the answer is read after it was written. After its wait a synchronous
caller may ask `get_job_outcome()`; the asynchronous client has no such method.
`SetClock` moves `time.time()`, which the deadline is on.

**Partitioner** models `Partitioner.run`: `_resolve_partition_count` with the
division by zero, `_select_strategy`, `GreedyPartitioner` (the two seed loops,
placement, growth one qubit at a time by the best score), `SpectralPartitioner`
(every bisection, with an arbitrary split for the Fiedler vector),
`ManualPartitioner`, the cost model, and the loops of `_build_plan`, one gate of
one partition per step. Equal degrees may come in any order.

**ResultAggregation** models `ResultAggregator.aggregate`: results arrive in any
order, repeated or not at all, then one call merges the list, with or without the
plan: passthrough, tensor product, fallback, and marginal reconstruction with
exact enumeration or the mode and its one-bit flips. Python's `zip` and stable
sort, and `round()` with ties to even, are modelled; floats are exact fractions.
Which end of a bitstring is which qubit is a convention of the executors. The code
reads position 0 as the lowest qubit of a partition, and writes position 0 for
qubit 0; the properties with `LowestFirst` in their name are about that reading,
and `FaithfulMsbFirst` about the one a comment documents.
Its `Plans` are what Partitioner guarantees (`PlanPartitionsQubits`).

**Scheduler** models `Scheduler.schedule` and `_pick_best`: the candidates, then
for every partition one backend of the list per step, with the strict comparison
that gives ties to the earlier one. A score is any number up to `MaxScore`, since
only its order is looked at and `BackendScorer.score` is pure (`Scores`); fleets and jobs are
lists of sizes and depths, and any status but available is "down".

**Ingestion** models `CircuitNormalizer`, `CircuitValidator`, the metadata and the
translators, one instruction per step. A text is what its parser finds in it.
`Submit` is a caller of `normalize` or `normalize_to_manifest` with a text, or one
that exports a circuit it got as a tape (`circuit_ir_to_pennylane_json`) and
submits that, or rebuilds its `qasm_string` in Qiskit (`circuit_ir_to_qiskit`) and
reads it back (`qiskit_to_circuit_ir`). `Instruction` appends a gate and its edge;
`Build` puts a tape's gates into a QuantumCircuit. `Unreadable`, `NotANumber`,
`Unbuildable`, `NoQasmMethod` and `Refuse` raise. Qiskit is external: the gates it
has a method for are `GateMethods`, and `QuantumCircuit.qasm()`, which a tape needs,
is there before 1.0 and gone after (`NoQasmMethod`). The model allows both, so that
what becomes of tapes is checked too; with the `qiskit>=1.0` of `pyproject.toml`'s
extras every tape raises. Two things Qiskit does are left out: a method that adds
an instruction of another name (`i` adds `id`) counts as a gate Qiskit lacks, and
otherwise a program is read back as it was built. An operation on no wires is
accepted, unless its name is another attribute of QuantumCircuit, such as `clear`
(`WiresOK`): called without qubits that might do anything. The validator lets such
a gate pass, but Partitioner does not have it: the code copies it into every
subcircuit and counts it in none.

**Integrity** extends Ingestion to the run of an accepted circuit: `MakePlan` takes
any plan that Partitioner may return, `Merge` any counts, and then the stages come
in any order, since the repository has no caller of them: `PostProcess`, `Prove`,
`StampProof`, `BuildProvenance` and `AttachProvenance`, `Store` (lists of qubits and
dictionaries come back in another order) and `Mistake` (another job's manifest,
another plan or other counts come back). A SHA-256 of a JSON dump is what was
dumped. `merged` and `proved` are history variables.

`MC*.tla` and `*.cfg` hold the instances. `*Proofs.tla` hold the proofs.

## What the runs check

| run | instance | shows |
|---|---|---|
| `outcome` | 2 ids, each up to twice in a list of up to 3; totals up to 3; one holder | the four invariants of the contract after any enrichment; "completed" means all, "failed" means nothing; the aggregate stage can always repair; JSON keeps the canonical fields |
| `request` | two calls, `max_retries` 0 to 2 | a value was executed; transient errors only when exhausted; an operation is repeated only after a lost answer or a 5xx; RemoteCall is implemented; every call returns |
| `wait` | one synchronous and one asynchronous wait, timeouts 0 and 2, clock to 2, one clock change; keys that say "running" of a finished job | a returned status is final and common to all; success is real, unless the platform shows a degraded job as completed and sends no report; `get_job_outcome()` never makes an outcome better than the returned job's; the synchronous client times out only on an unfinished job; every wait ends |
| `partition` | up to 2 qubits with any two gates, 4 qubits with any two gates of 2 to 4 qubits; 16 constraints; `SpectralFrom` 3 | the plan partitions the qubits, nothing is empty, no gate is lost, cost model and assembly agree, boundaries match the edges, uncoupled qubits spread evenly, the heuristics are never stuck, `run` ends |
| `aggregate` | 8 plans of 2 or 3 qubits, results of up to 2 shots, up to 3 of them; `ExactUpTo` 2 | arrival order is irrelevant; with strings read lowest qubit first, certain outcomes are reconstructed exactly and no bit is invented; no bitstring has more than all shots |
| `schedule` | 4 fleets of up to 3 backends, 3 jobs of up to 2 partitions, every status, preference and score of 3 levels | a schedule is complete and gives each partition the first of the best backends; the call raises only with a reason |
| `pipeline` | 16 programs and tapes, up to 3 qubits and 2 gates, 2 calls of ingestion; the jobs of two programs, up to 2 partitions, 2 merged counts, 3 stages | what ingestion accepts is what the partitioner takes; the translators keep the circuit; a proof holds for exactly the artifacts it was made of; post-processing keeps the most frequent outcomes |

The bounds are small but reach the cases that matter. Two ids are needed and
enough for a failed one that is also missing, and twice the same id for the
counting of duplicates. Two attempts give a late answer of the first and a retry,
and two calls share `close()`. Four qubits with `SpectralFrom` 3 give AUTO both
strategies, three or four groups, dense graphs (a 4-qubit gate) and edgeless
ones. Three deliveries are one missing, one repeated or all out of order, and
`ExactUpTo` 2 sends the 3-qubit plans to the sampling. `MaxNow` stops the clock
where every deadline has passed. Three scores and three backends are all orders
with ties, and two partitions show what one choice leaves for the next. Two calls
of ingestion are a circuit and its export or rebuild, or the circuits of two jobs
that are mistaken for each other; the tapes have wires out of range, negative,
repeated and missing, and a gate that Qiskit lacks; of the programs two are over a limit. Three
stages are a proof, a change, and another: `Followed` bounds the jobs that go on,
since the stages look at no text.

Deadlock checking is off: a report may be frozen with nothing left to ask, and
the calls, waits, plans, schedules and merges end. (`outcome` never
stops, so there it is on.)

### Divergences found

| run | the code | the text |
|---|---|---|
| `plain_completed` | the constructor keeps outcome "completed" with failed or missing partitions, and logs | `models/job_outcome.py:11`, "No degraded run may ever be surfaced as plain "completed"" |
| `wait_async` | the asynchronous `wait_for_job` does not know `completed_with_failures`, and polls such a job until it times out | `async_client.py:3`, "Provides the same interface as QontosClient" |
| `capacity` | `max_qubits_per_partition` sets the number of partitions, never their size: greedy puts three of four qubits together where two are allowed | `src/README.md:104` |
| `places` | the tensor product concatenates partitions in index order, so bits land on other qubits when partitions interleave | `results/aggregate.py:129`, valid whenever there is no entanglement |
| `msb_first` | the first bit of a partition's string is taken for its lowest qubit; read highest first, two qubits of a partition change places | `results/aggregate.py:247`, "bitstring is MSB-first: bit 0 of string = highest qubit index" |

Also met while reading, without a run of their own:

- `freeze()` marks a copy with a private attribute that `to_dict()` does not dump: a
  final report that went through JSON is enriched like any other, where
  `models/job_outcome.py:106` has it prevent "post-finalize mutation of the canonical
  report" and line 329 calls frozen reports immutable.
- `enrich()` by the finalize stage replaces the lists it is given
  (`models/job_outcome.py:337`), where line 26 has finalize never overwrite the
  partition data of aggregate.
- `Job` has no field for the `outcome` key of a response: with status "completed" and
  outcome "completed_with_failures" it is "completed", where `from_api_response`
  reads the same response as degraded (`sdk_models.py:155`); line 196 says that
  `Job.outcome` never hides degradation.
- The circuit hash does not cover classical bits: measuring qubit 0 into bit 0 or
  into bit 1 is the same circuit (`circuit/normalizer.py:144`), where
  `models/execution.py:50` calls it a "deterministic hash for dedup and integrity".
- `httpx.ConnectTimeout` and `PoolTimeout` are neither retried nor mapped to
  `TimeoutError` (`client.py:203`, `exceptions.py:82`).
- `Job.is_degraded` is false without an outcome report (`sdk_models.py:206`), and
  `from_api_response` makes up a report for a running job, where `client.py:304`
  says None, or of a finished one from an `outcome` key that still says "running"
  (`sdk_models.py:155`).
- `wait_for_job` with a timeout of 0 never polls, and times out on a job that has
  ended (`client.py:339`).
- `cancel_job` whose answer is lost is sent again to a cancelled job; when the
  platform refuses that, it raises although the job was cancelled (`client.py:327`).
- The default constraints split a two-qubit circuit, where
  `src/tests/test_partitioner.py:121` says it stays whole.
- `inter_module_gates` counts cut pairs, not gates (`partitioning/cost_model.py:63`),
  and a dependency edge charges each gate once from either side
  (`partitioning/partition.py:262`).
- With a partition's result missing or repeated, `zip` pairs entries with the
  counts of other partitions and the run is still "completed"
  (`results/aggregate.py:231`); a single result of several is passed through with
  fidelity 1.0.
- If any preferred backend is available the others are discarded, so the call
  raises when the preferred ones are too small and another would do
  (`scheduling/scheduler.py:61`).
- `max_cost_usd` only lowers a score and `required_fidelity` is never read; several
  partitions may get the same one (`scheduling/scheduler.py:77`).
- `src/README.md:119` calls `schedule(plan, available_backends)`; the method takes
  a job id, partitions, backends and constraints.
- The counts of a merge are rounded one by one and need not add up to `total_shots`:
  an even distribution over more bitstrings than shots gives none
  (`results/aggregate.py:291`).
- With Qiskit 1.0, which the extras require, every PennyLane submission raises
  (`circuit/normalizer.py:124`, `qc.qasm()`), where
  `src/tests/test_circuit_normalizer.py:150` expects a circuit.
- OpenQASM 3 is accepted, but `circuit_ir_to_qiskit` reads only OpenQASM 2
  (`circuit/translators/qiskit.py:12`).
- A PennyLane gate that Qiskit has no method for is left out of `qasm_string` and
  kept in the gates and the hash, where `models/circuit.py:22` has all executors
  consume the same circuit.
- A partition's QASM measures with `measure q[i];`, without a target
  (`partitioning/partition.py:101`).
- An unknown gate of a tape with one wire twice becomes an edge from a qubit to
  itself. The validator runs in `normalize_to_manifest` only.
- `execution_digest` covers no scheduling decision, which `models/proof.py:22` says
  it does, and no digest covers the partition results.
- `filter_noise` may remove every outcome (`results/postprocess.py`).
- `src/README.md:131` calls `ExecutionHasher.compute_proof`, which does not exist.

## Fairness

`ClientRequest!FairSpec` has weak fairness of each call's own steps: its thread or
event loop runs, sleeps end, and httpx's timeout ends every wait. Nothing is
assumed of the server. `JobWait!FairSpec` has weak fairness of each wait and of
time; `get_job()` ends because `EveryCallReturns` does. The platform may leave a
job running for ever. `Partitioner!FairSpec` has weak fairness of `Next`: it is
one synchronous call. The other modules claim no liveness.

## What is proved

`JobOutcomeProofs`, for any ids, holders and bounds: all six properties of its
run. The inductive invariant `IInv` adds to `TypeOK` that
`completed_partitions` is always the derived number, and that an enriched report
verifies and carries the verdict of its own numbers: without the latter neither
"completed" nor "failed" follows, since a round trip or freeze copies the outcome
instead of computing it. It rests on `IdsFinite` and `BoundsNat` (list lengths
are natural numbers) and `NotGivenIsNone`.

`ClientRequestProofs`, for any number of calls and retries: the type invariant,
`ValueWasExecuted`, `TransientOnlyWhenExhausted`, `RepeatedOnlyIfUnanswered`, and
that the loop implements RemoteCall. `CallInv` says, per call, that requests and
effects have numbers up to its attempt; that an answer on its way is to the
current attempt, and an "ok" among them was executed; that each earlier attempt
ended transiently, and how; and that `last_exc` is the ending of the latest one.
The refinement maps each action to `Begin`, `TakeEffect`, `Succeed`, `Fail` or a
stutter.

`JobWaitProofs`, for any number of waiters of both clients, any timeouts and any
number of clock changes: the type invariant, `ReturnedIsFinal`, `SuccessIsReal`,
`OutcomeNeverImproves`, `TimeoutOnlyIfUnfinished`. A waiter holds an old answer;
`Inv` says what an old answer still tells: a final status is for ever, and so is
what a final report says, while a key that is old or missing may still become final.
It rests on `TimesNat`, on `OldOK` (what is old is not final) and on how the platform
is modelled: a final key says how the job ended, and only a degraded job is shown
under another status.

`SchedulerProofs`, for any fleets, jobs and scores: all three properties. The
invariant says what the loops have done: the partitions before `p` have the first
of their best backends, and `best` is the first of the best before `i`, or none
of those will do. `BestAssigned` speaks of the end only and is not inductive
without it. It rests on `ScoresNat` (scores are at least 0, so that any beats the
initial -1), `FleetsOK`, `JobsOK` and `NoBackendIsNone`.

`PartitionerProofs`, for any circuits, constraints and ties: the type invariant,
`PlanPartitionsQubits`, `NoEmptyPartition`, `HeuristicsNeverStuck`. The invariant
`Loops` says what each loop hands to the next: seeds are distinct, and with the
candidates that are left they cover the qubits, so that `k` of them are found;
what is placed is what is assigned; groups are disjoint and never empty, so that
fewer groups than qubits leave one that can be split (the pigeonhole principle).
It rests on `NoneOK`, `CircuitsOK` and `RequestsOK`, as does the next.

`PlanProofs`: `GatesAccounted`, `BoundariesAreShared` and `CountsAgree`. The loops
of `_build_plan` visit one gate of one partition at a time, and the three speak of
the end. `PlanInv` says what the entries and the dependency map are after the
visits made so far: each counter counts a set of visited gates, and an edge exists
if a gate across it was visited from either side, and shares the qubits of those.
For `CountsAgree` the pairs the cost model counts are mapped one to one to visits
from the two sides, two disjoint sets of them.

The fourth property there is `EvenWithoutCoupling`. A score without couplings is the
room that is left, so each greedy step fills a smallest group and sizes stay within
one; and the residue classes of the manual strategy differ by at most one.

`ResultAggregationProofs`, for any plans, counts and number of results: all four
properties of its run. The invariant is plain, since `aggregate` is one call: the
results fit the plan, and the run is `Aggregated` of them. The work is in what the
folds compute, over the results, the outcomes and their products. A fold over a
finite set satisfies its step equation, and what holds of every smaller set or
length holds of the next: each induction is the choice of a smallest set or a least
number for which it fails, which the library's well-foundedness of strict subsets
gives. On these rest: the rank of an outcome in a stable sort; `round()` within its
bounds; a weight of the tensor product as the product of its segments' weights, one
segment per partition; the place of each qubit in a merged bitstring; and that a
certain result leaves one outcome of weight 1, which rounding and the one-bit flips
do not disturb. It rests on `BoundsNat`, `NoPlanOK` and `PlansOK`; that the partitions
of a plan share out its qubits is what `PlanPartitionsQubits` says of Partitioner.

`IntegrityProofs`, for any texts, names, limits, counts and stages: all five
properties of its run.

- `AcceptedFitsPartitioner`, by an invariant that follows the circuit through the
  loop: its connectivity is at every instruction the coupling graph of the gates
  read so far.
- `ProofBinds`, by the invariant that a proof's hash is that of the artifacts it was
  made of. Equal hashes mean equal dumps here, so this is a theorem about what the
  digests cover and not about SHA-256.
- `MostFrequentKept`. `LeftInv` says that what is left differs pairwise and that
  nothing removed is more frequent, and `Cut` that such cuts compose. `Ranked`, on
  any total order of a finite set, gives the positions of the sort and of a filter;
  that the threshold cuts by frequency needs the total to be a number
  (`TotalNatural`, by the least length at which it would not be).
- `TypeOK`, where the texts in flight have types because a tape and the QASM of a
  circuit have: the catalog feeds the next call.
- `TranslatorsKeepCircuit`. `RoundInv` says of the call in flight that the gates are
  the first operations translated, that the connectivity is linked to them step by
  step (`Links`, of which there is only one: `OneConnectivity`), and that the built
  instructions are those of the first gates that Qiskit has methods for; of an
  accepted circuit that connectivity, hash and QASM are all of its gates (`Sound`).
  Placing a negative wire changes the gate, so that `Sound` needs the validator: the
  property is false of circuits that were not validated. `NamesReturn` is that the
  two tables undo each other.

They rest on `TextsOK`, `LimitsOK`, `MergedOK` and `StagesOK`.

Only model-checked:

- Liveness (`EveryCallReturns`, `EveryWaitEnds`, `RunEnds`), which is out of the
  prover's reach.

Every other property that a passing run checks is a theorem, for every value of the
constants. The divergences above are counterexamples, which TLC finds.

## Not modelled

- The endpoint wrappers and the parsing of other responses: each is one
  `_request` and a constructor, without control of its own.
- `validate_completeness` and `strict_verify`, which read the invariants of a
  report and change nothing; `compute_expectation_value` and `estimate_fidelity`,
  which return a float of one result; `transpile_for_backend`, one call of Qiskit.
- Numbers that no property depends on: costs, latencies, balance scores, the
  arithmetic of `BackendScorer`, fidelity estimates; text, logging, timestamps;
  the text of OpenQASM.
- Parsing of circuits, done by Qiskit and PennyLane.
- `models/enums.py` and the package surface: declarations. What the SDK compares
  are strings.
- The chain anchor of a proof, which nothing sets.

## Plan

1. A `Pipeline` in which the aggregator gets the plans that Partitioner itself
   assembled, where today the two meet in `PlanPartitionsQubits`.
2. Results that are missing or repeated (`results/aggregate.py:231`): which of the
   merges could notice, as a property of the aggregator.
3. The aggregator's assumption `PlansOK` as a theorem of that composition, from
   `QubitsPartitioned`.
