--------------------------- MODULE ResultAggregation ---------------------------
(***************************************************************************)
(* ResultAggregator.aggregate, src/qontos/results/aggregate.py: the        *)
(* partitions' executors deliver their counts, in any order, more than     *)
(* once or never, and somebody aggregates whatever has arrived, with or    *)
(* without the partition plan.                                             *)
(*                                                                         *)
(* A bitstring is a sequence of bits; counts map bitstrings to shots.      *)
(* Probabilities are exact fractions where the code has floats; round()    *)
(* is Python's.  Abstracted: costs, times, warnings; an executor reports   *)
(* as shots_completed the sum of its counts.  The plans are those of       *)
(* Partitioner: every qubit is in one partition (PlanPartitionsQubits),    *)
(* whose qubit_mapping numbers its qubits in ascending order.              *)
(***************************************************************************)
EXTENDS Integers, Sequences, FiniteSets, SequencesExt, FiniteSetsExt, Functions

CONSTANTS
    Plans,          \* [n, parts, cuts]: qubits, the partitions' qubit sets, cut gates
    ExactUpTo,      \* qubits up to which every bitstring is scored (20 in the code)
    MaxShots,       \* bound: shots of one result
    MaxDelivered,   \* bound: results that arrive
    NoPlan          \* the plan is not passed to aggregate()

Bits == {0, 1}
Strings(len) == [1..len -> Bits]

ASSUME BoundsNat == ExactUpTo \in Nat /\ MaxShots \in Nat /\ MaxDelivered \in Nat

ASSUME NoPlanOK == NoPlan \notin Plans

ASSUME PlansOK ==
    \A p \in Plans :
        /\ p.n \in Nat /\ p.cuts \in Nat /\ p.parts \in Seq(SUBSET Nat) /\ p.parts # <<>>
        /\ UNION {p.parts[i] : i \in DOMAIN p.parts} = 0..p.n - 1
        /\ \A i, j \in DOMAIN p.parts : i # j => p.parts[i] \cap p.parts[j] = {}

VARIABLES
    plan,       \* the job's plan
    inbox,      \* the PartitionResults that arrived: [index, counts]
    withPlan,   \* whether aggregate() was given the plan
    run         \* the RunResult

vars == <<plan, inbox, withPlan, run>>

-------------------------------------------------------------------------------
(* Fractions and counts *)
Total(counts) == MapThenSumSet(LAMBDA s : counts[s], DOMAIN counts)
Product(f) == FoldFunction(LAMBDA a, b : a * b, 1, f)

\* round(): to the nearest integer, ties to the even one
Round(a, b) == LET d == a \div b
                   rest == 2 * (a % b)
               IN  IF rest > b \/ (rest = b /\ d % 2 = 1) THEN d + 1 ELSE d

\* only counts above zero are kept (a bitstring mapped to 0 is not in the dict)
Kept(counts) == Restrict(counts, {s \in DOMAIN counts : counts[s] > 0})

Totals(rs) == {Total(rs[i].counts) : i \in DOMAIN rs}
\* mutant: the shots are added up
ShotsSummed(rs) == MapThenSumSet(LAMBDA i : Total(rs[i].counts), DOMAIN rs)
MinShots(rs) == Min(Totals(rs))

\* sorted(results, key=lambda r: r.partition_index), a stable sort
Indices(rs) == {rs[i].index : i \in DOMAIN rs}
\* mutant: they stay as they arrived
Unsorted(rs) == rs
Before(rs, i) == {j \in DOMAIN rs : \/ rs[j].index < rs[i].index
                                    \/ rs[j].index = rs[i].index /\ j < i}
Sorted(rs) == LET rank == [i \in DOMAIN rs |-> Cardinality(Before(rs, i)) + 1]
              IN  [p \in DOMAIN rs |-> rs[CHOOSE i \in DOMAIN rs : rank[i] = p]]

-------------------------------------------------------------------------------
(* _independent_merge, and _fallback_entangled_merge without a plan: the      *)
(* product of the distributions, over the concatenated bitstrings.            *)
Joined(a, b) ==
    LET width == Len(CHOOSE x \in DOMAIN a : TRUE)
    IN  [s \in {x \o y : x \in DOMAIN a, y \in DOMAIN b} |->
            a[SubSeq(s, 1, width)] * b[SubSeq(s, width + 1, Len(s))]]
TensorProduct(rs) ==
    LET weights == FoldLeft(Joined, [s \in {<<>>} |-> 1], [i \in DOMAIN rs |-> rs[i].counts])
        all == Product([i \in DOMAIN rs |-> Total(rs[i].counts)])
    IN  IF all = 0 THEN <<>>
        ELSE Kept([s \in DOMAIN weights |-> Round(weights[s] * MinShots(rs), all)])

-------------------------------------------------------------------------------
(* _entangled_merge: zip() pairs the entries of the plan with the sorted      *)
(* results one by one, and drops what is left over on either side.            *)
\* mutant: the last pair is left out
PairedShort(p, rs) == 1..Min({Len(p.parts), Len(rs)}) - 1
Paired(p, rs) == 1..Min({Len(p.parts), Len(rs)})

\* the place of global qubit q in a bitstring of the partition with qubits S
\* mutant: qubit_mapping is ignored, the place is the global index
PlaceUnmapped(q, S) == q + 1
Place(q, S) == Cardinality({r \in S : r < q}) + 1

\* shots of counts in which the bit at a place has a value
Seen(counts, place, bit) ==
    Total(Restrict(counts, {s \in DOMAIN counts : place <= Len(s) /\ s[place] = bit}))

Covering(p, rs, q) == {i \in Paired(p, rs) : q \in p.parts[i] /\ Total(rs[i].counts) > 0}

\* the marginal of q, as shots with either value out of a number of shots; a
\* qubit that no result covers is uniform
Marginal(p, rs, q) ==
    IF Covering(p, rs, q) = {} THEN [bit |-> [b \in Bits |-> 1], of |-> 2]
    ELSE LET i == CHOOSE j \in Covering(p, rs, q) : TRUE
         IN  [bit |-> [b \in Bits |-> Seen(rs[i].counts, Place(q, p.parts[i]), b)],
              of  |-> Total(rs[i].counts)]

Marginals(p, rs) == [q \in 0..p.n - 1 |-> Marginal(p, rs, q)]
Score(m, s) == Product([q \in DOMAIN m |-> m[q].bit[s[q + 1]]])
Scale(m) == Product([q \in DOMAIN m |-> m[q].of])

Exact(m, len, shots) ==
    Kept([s \in Strings(len) |-> Round(Score(m, s) * shots, Scale(m))])

\* _sample_from_marginals: the most probable bitstring and its one-bit flips
Mode(m, len) == [i \in 1..len |-> IF m[i - 1].bit[0] >= m[i - 1].bit[1] THEN 0 ELSE 1]
Flip(s, i) == [s EXCEPT ![i] = 1 - @]
Sampled(m, len, shots) ==
    LET mode == Mode(m, len)
        candidates == {mode} \cup {Flip(mode, i) : i \in 1..len}
        all == Total([s \in candidates |-> Score(m, s)])
    IN  IF all = 0 THEN <<>>
        ELSE Kept([s \in candidates |-> Round(Score(m, s) * shots, all)])

Reconstruct(p, rs) ==
    IF p.n <= ExactUpTo THEN Exact(Marginals(p, rs), p.n, MinShots(rs))
    ELSE Sampled(Marginals(p, rs), p.n, MinShots(rs))

-------------------------------------------------------------------------------
(* aggregate() *)
NotRun == [status |-> "none"]
Failed == [status |-> "failed", counts |-> <<>>, shots |-> 0, method |-> "passthrough"]
Completed(counts, shots, method) ==
    [status |-> "completed", counts |-> counts, shots |-> shots, method |-> method]

Aggregated(p, rs) ==
    IF rs = <<>> THEN Failed
    ELSE IF Len(rs) = 1
    THEN Completed(Kept(rs[1].counts), Total(rs[1].counts), "passthrough")
    ELSE IF p = NoPlan
    THEN Completed(TensorProduct(Sorted(rs)), MinShots(rs), "marginal_reconstruction_fallback")
    ELSE IF p.cuts > 0
    THEN Completed(Reconstruct(p, Sorted(rs)), MinShots(rs), "marginal_reconstruction")
    ELSE Completed(TensorProduct(Sorted(rs)), MinShots(rs), "tensor_product")

Counts(len) == {c \in [Strings(len) -> 0..MaxShots] : Total(c) <= MaxShots}
Width(i) == Cardinality(plan.parts[i])

Init == /\ plan \in Plans
        /\ inbox = <<>>
        /\ withPlan = FALSE
        /\ run = NotRun

\* an executor's result arrives; an index may come again, from a retry or a
\* delivery that is repeated, and one may never come
Deliver(i) == /\ run = NotRun
              /\ Len(inbox) < MaxDelivered
              /\ \E counts \in Counts(Width(i)) :
                    inbox' = Append(inbox, [index |-> i, counts |-> counts])
              /\ UNCHANGED <<plan, withPlan, run>>

Aggregate(given) == /\ run = NotRun
                    /\ withPlan' = given
                    /\ run' = Aggregated(IF given THEN plan ELSE NoPlan, inbox)
                    /\ UNCHANGED <<plan, inbox>>

Next == \/ \E i \in DOMAIN plan.parts : Deliver(i)
        \/ \E given \in BOOLEAN : Aggregate(given)

Spec == Init /\ [][Next]_vars

-------------------------------------------------------------------------------
RunMethods == {"passthrough", "tensor_product", "marginal_reconstruction",
               "marginal_reconstruction_fallback"}
Done == run # NotRun
Merged == Done /\ run.status = "completed"

TypeOK ==
    /\ plan \in Plans
    /\ withPlan \in BOOLEAN
    /\ Len(inbox) <= MaxDelivered
    /\ \A i \in DOMAIN inbox : /\ inbox[i].index \in DOMAIN plan.parts
                               /\ inbox[i].counts \in [Strings(Width(inbox[i].index)) -> Nat]
                               /\ Total(inbox[i].counts) <= MaxShots
    /\ Done =>
        /\ run.method \in RunMethods
        /\ run.shots \in 0..MaxShots
        /\ \A s \in DOMAIN run.counts : s \in Seq(Bits) /\ run.counts[s] \in 1..run.shots

\* exactly one result of every partition, and the plan
Complete == /\ Merged /\ withPlan
            /\ Indices(inbox) = DOMAIN plan.parts
            /\ Len(inbox) = Len(plan.parts)
CountsOf(i) == inbox[CHOOSE j \in DOMAIN inbox : inbox[j].index = i].counts
PartOf(q) == CHOOSE i \in DOMAIN plan.parts : q \in plan.parts[i]
Ascending(S) == CHOOSE l \in [1..Cardinality(S) -> S] :
                    \A i, j \in DOMAIN l : i < j => l[i] < l[j]
\* q's partition measured bit on qubit q, its strings listing the given qubits
BitIn(qubits, q, bit) ==
    LET counts == CountsOf(PartOf(q))
    IN  \E s \in DOMAIN counts, i \in DOMAIN qubits :
            counts[s] > 0 /\ qubits[i] = q /\ s[i] = bit
\* read as the code does: the partition's lowest qubit first
BitSeen(q, bit) == BitIn(Ascending(plan.parts[PartOf(q)]), q, bit)
\* read as the comment at aggregate.py:247 says: the highest qubit first
BitSeenMsb(q, bit) == BitIn(Reverse(Ascending(plan.parts[PartOf(q)])), q, bit)
OneOutcomeEach == \A i \in DOMAIN plan.parts : Cardinality(DOMAIN Kept(CountsOf(i))) = 1
Contiguous == \A i, j \in DOMAIN plan.parts :
                 i < j => \A q \in plan.parts[i], r \in plan.parts[j] : q < r

\* The order in which the results of distinct partitions arrive never shows in
\* the RunResult: every permutation of the list aggregates to the same.
ArrivalOrderIrrelevant ==
    Done /\ Cardinality(Indices(inbox)) = Len(inbox) =>
        \A f \in {g \in [DOMAIN inbox -> DOMAIN inbox] : IsInjective(g)} :
            Aggregated(IF withPlan THEN plan ELSE NoPlan,
                       [i \in DOMAIN inbox |-> inbox[f[i]]]) = run

\* The two ends of the reconstruction agree on one reading, the lowest qubit
\* first: when every partition gave one certain bitstring, the outcome is the
\* one global bitstring that has each qubit's bit at that qubit's place, with
\* the fewest shots of any partition.  Without cut gates this needs the
\* partitions to be intervals of qubits (IndependentKeepsPlaces); that the
\* comments promise the other reading is FaithfulMsbFirst.
JointIsExact(counts, shots) ==
    OneOutcomeEach =>
        counts = [s \in {[q \in 1..plan.n |-> IF BitSeen(q - 1, 1) THEN 1 ELSE 0]} |-> shots]
FaithfulLowestFirst ==
    Complete /\ (plan.cuts > 0 \/ Contiguous) => JointIsExact(run.counts, run.shots)

\* No bit is made up, with strings on both ends read lowest qubit first: a
\* merged bitstring is as long as the circuit is wide, and each of its bits
\* was measured on that very qubit.
MeasuredLowestFirst ==
    Complete /\ (plan.cuts > 0 \/ Contiguous) =>
        \A s \in DOMAIN run.counts :
            s \in Strings(plan.n) /\ \A q \in 0..plan.n - 1 : BitSeen(q, s[q + 1])

-------------------------------------------------------------------------------
\* aggregate.py:129, the tensor product is "valid when partitions share no
\* entanglement".  Violated: it concatenates in the order of the partitions,
\* whichever qubits they hold.
IndependentKeepsPlaces ==
    Complete /\ plan.cuts = 0 => JointIsExact(run.counts, run.shots)

\* aggregate.py:247, "bitstring is MSB-first: bit 0 of string = highest qubit
\* index": when every partition's certain bitstring is so read, the
\* reconstruction is the global string with each qubit's bit at its place,
\* whichever end that string starts from.  Violated: local_to_global takes the
\* first bit of a string for the lowest qubit of the partition.
FaithfulMsbFirst ==
    Complete /\ plan.cuts > 0 /\ OneOutcomeEach =>
        LET lowestFirst == [q \in 1..plan.n |-> IF BitSeenMsb(q - 1, 1) THEN 1 ELSE 0]
        IN  run.counts \in {[s \in {g} |-> run.shots] : g \in {lowestFirst, Reverse(lowestFirst)}}
===============================================================================
