------------------------------ MODULE Partitioner ------------------------------
(***************************************************************************)
(* Partitioner.run in src/qontos/partitioning: how many partitions, which  *)
(* strategy, the loops of the greedy, spectral and manual heuristics, the  *)
(* cost model, and the loops that assemble the PartitionPlan.              *)
(*                                                                         *)
(* Abstracted: gate names, parameters and the OpenQASM text (a subcircuit  *)
(* is the set of gates in it); the Fiedler vector (any split into two      *)
(* nonempty halves); ratios and microseconds (counts of operations).  The  *)
(* order of numpy's argsort among equal degrees is any order.              *)
(* Python's 0-based lists of sets are functions on 0..len-1.               *)
(***************************************************************************)
EXTENDS Integers, FiniteSets, Sequences

CONSTANTS
    Circuits,       \* circuits [num_qubits, gates] that may be submitted
    Requests,       \* constraints that may come with them
    SpectralFrom,   \* qubits from which AUTO is spectral (20 in the code)
    None            \* an optional constraint that is not given

Strategies == {"greedy", "spectral", "manual"}

ASSUME NoneOK == None \notin Nat
ASSUME CircuitsOK ==
    \A c \in Circuits :
        /\ c.num_qubits \in Nat
        /\ c.gates \in Seq((SUBSET (0..c.num_qubits - 1)) \ {{}})
ASSUME RequestsOK ==
    \A r \in Requests :
        /\ r.target \in Int \cup {None} /\ r.max_qubits \in Nat \cup {None}
        /\ r.min \in Nat /\ r.max \in Nat \cup {None}
        /\ r.strategy \in Strategies \cup {"auto"}

VARIABLES
    circuit, request,   \* the arguments of run()
    pc,
    k,                  \* the number of sets the heuristic makes
    order,              \* candidates of the current seed loop, highest degree first
    refill,             \* the candidates of the second seed loop
    seeds,
    assigned,           \* keys of the greedy dictionary (its values are never read)
    parts,              \* the list of qubit sets
    cost,               \* weight of the cut edges, and of all edges
    cursor,             \* the <<partition, gate>> the assembling loops look at
    entries,            \* local_gates, inter_module and boundary of each partition
    deps                \* dependency_map: shared qubits and operations of each edge

vars == <<circuit, request, pc, k, order, refill, seeds, assigned, parts,
          cost, cursor, entries, deps>>
arguments == <<circuit, request>>
seedVars == <<order, refill, seeds>>
planVars == <<cost, cursor, entries, deps>>

-------------------------------------------------------------------------------
n == circuit.num_qubits
Qubits == 0..n - 1
Gates == DOMAIN circuit.gates
Gate(g) == circuit.gates[g]

(* CircuitGraph: one unit of weight for every pair of qubits of every gate. *)
Adj(a, b) == Cardinality({g \in Gates : {a, b} \subseteq Gate(g)})
Coupling(q, S) == Cardinality({e \in Gates \X S : {q, e[2]} \subseteq Gate(e[1])})
Degree(q) == Coupling(q, Qubits \ {q})

\* _resolve_partition_count; -(-n // m) is the ceiling of n / m
AtLeast(a, b) == IF a < b THEN b ELSE a
\* mutant: the bound is ignored
AtMostUnbounded(a, b) == a
AtMost(a, b) == IF b # None /\ a > b THEN b ELSE a
PartitionCount(r) ==
    IF r.target # None THEN AtLeast(1, r.target)
    ELSE IF r.max_qubits # None THEN AtLeast(r.min, -((-n) \div r.max_qubits))
    ELSE AtMost(AtLeast(AtLeast(2, n \div 10), r.min), r.max)

DividesByZero(r) == r.target = None /\ r.max_qubits = 0

SelectStrategy(r) ==
    IF r.strategy # "auto" THEN r.strategy
    ELSE IF n >= SpectralFrom THEN "spectral" ELSE "greedy"

\* np.argsort(-degrees)
Orders == {o \in [1..n -> Qubits] :
              /\ \A i, j \in 1..n : i # j => o[i] # o[j]
              /\ \A i, j \in 1..n : i < j => Degree(o[i]) >= Degree(o[j])}

-------------------------------------------------------------------------------
NoPlan == [local |-> 0, inter |-> 0, boundary |-> {}]

Init == /\ circuit \in Circuits /\ request \in Requests
        /\ pc = "resolve" /\ k = 0
        /\ order = <<>> /\ refill = <<>> /\ seeds = <<>>
        /\ assigned = {} /\ parts = <<>>
        /\ cost = [cut |-> 0, total |-> 0]
        /\ cursor = <<0, 1>> /\ entries = <<>> /\ deps = <<>>

DivideByZero == /\ pc = "resolve"
                /\ DividesByZero(request)
                /\ pc' = "raised"
                /\ UNCHANGED <<arguments, k, seedVars, assigned, parts, planVars>>

Resolved == pc = "resolve" /\ ~DividesByZero(request)
Splits == PartitionCount(request) > 1 /\ n >= 2

\* _single_partition_plan
SinglePartition ==
    /\ Resolved /\ ~Splits
    /\ pc' = "done" /\ k' = 1
    /\ parts' = [p \in {0} |-> Qubits]
    /\ entries' = [p \in {0} |-> [NoPlan EXCEPT !.local = Len(circuit.gates)]]
    /\ UNCHANGED <<arguments, seedVars, assigned, cost, cursor, deps>>

Partition(strategy) == /\ Resolved /\ Splits
                       /\ SelectStrategy(request) = strategy
                       /\ k' = AtMost(PartitionCount(request), n)

-------------------------------------------------------------------------------
(* GreedyPartitioner *)
Greedy == /\ Partition("greedy")
          /\ pc' = "spread"
          /\ \E o \in Orders : /\ seeds' = <<o[1]>>
                               /\ order' = Tail(o)
                               /\ refill' = o
          /\ UNCHANGED <<arguments, assigned, parts, planVars>>

Chosen == {seeds[i] : i \in DOMAIN seeds}
\* mutant: the candidate is looked at for ever
TakeSame(accept) == UNCHANGED order /\ seeds' = IF accept THEN Append(seeds, Head(order)) ELSE seeds

TakeNext(accept) == /\ order' = Tail(order)
                    /\ seeds' = IF accept THEN Append(seeds, Head(order)) ELSE seeds
SeedsLeft == order # <<>> /\ Len(seeds) < k

\* accept a candidate not connected to every seed
Spread == /\ pc = "spread" /\ SeedsLeft
          /\ TakeNext(\E s \in Chosen : Adj(Head(order), s) = 0)
          /\ UNCHANGED <<arguments, pc, k, refill, assigned, parts, planVars>>

\* mutant: no second pass over the candidates
EndSpreadShort == /\ pc = "spread" /\ ~SeedsLeft
                  /\ pc' = "fill" /\ order' = <<>>
                  /\ UNCHANGED <<arguments, k, refill, seeds, assigned, parts, planVars>>

EndSpread == /\ pc = "spread" /\ ~SeedsLeft
             /\ pc' = "fill" /\ order' = refill
             /\ UNCHANGED <<arguments, k, refill, seeds, assigned, parts, planVars>>

\* a dense graph: just take the next highest
Fill == /\ pc = "fill" /\ SeedsLeft
        /\ TakeNext(Head(order) \notin Chosen)
        /\ UNCHANGED <<arguments, pc, k, refill, assigned, parts, planVars>>

PlaceSeeds == /\ pc = "fill" /\ ~SeedsLeft
              /\ pc' = "grow"
              /\ parts' = [p \in 0..k - 1 |-> IF p < Len(seeds) THEN {seeds[p + 1]} ELSE {}]
              /\ assigned' = Chosen
              /\ UNCHANGED <<arguments, k, seedVars, planVars>>

Size(p) == Cardinality(parts[p])
\* mutants: the size is subtracted, not compared with n; sizes do not count
ScoreNegative(q, p) == Coupling(q, parts[p]) * n - Size(p)
ScoreUnbalanced(q, p) == Coupling(q, parts[p]) * n

Score(q, p) == Coupling(q, parts[p]) * n + (n - Size(p))

\* the strict > of the two nested loops keeps the first of the best pairs
Best(q, p) ==
    /\ Score(q, p) > -1
    /\ \A r \in Qubits \ assigned, s \in 0..k - 1 :
          \/ Score(r, s) < Score(q, p)
          \/ Score(r, s) = Score(q, p) /\ (q < r \/ (q = r /\ p <= s))

Put(q, p) == parts' = [parts EXCEPT ![p] = @ \cup {q}]

Grow == /\ pc = "grow"
        /\ \E q \in Qubits \ assigned, p \in 0..k - 1 :
              /\ Best(q, p)
              /\ Put(q, p)
              /\ assigned' = assigned \cup {q}
        /\ UNCHANGED <<arguments, pc, k, seedVars, planVars>>

\* The loop's break, which "should not happen", and the loop that gives what it
\* leaves to the smallest set are unreachable (HeuristicsNeverStuck).
EndGreedy == /\ pc = "grow" /\ assigned = Qubits
             /\ pc' = "evaluate"
             /\ UNCHANGED <<arguments, k, seedVars, assigned, parts, planVars>>

-------------------------------------------------------------------------------
(* SpectralPartitioner and ManualPartitioner *)
Spectral == /\ Partition("spectral")
            /\ pc' = "bisect"
            /\ parts' = [p \in {0} |-> Qubits]
            /\ UNCHANGED <<arguments, seedVars, assigned, planVars>>

Groups == Cardinality(DOMAIN parts)
Largest(i) == \A j \in DOMAIN parts : Size(j) <= Size(i) /\ (Size(j) = Size(i) => i <= j)

\* mutant: the last group is dropped instead of the popped one
BisectUnshifted ==
    /\ pc = "bisect" /\ Groups < k
    /\ \E i \in DOMAIN parts :
          /\ Largest(i) /\ Size(i) >= 2
          /\ \E a \in (SUBSET parts[i]) \ {{}, parts[i]} :
                parts' = [j \in 0..Groups |->
                             IF j = Groups THEN parts[i] \ a
                             ELSE IF j = Groups - 1 THEN a
                             ELSE parts[j]]
    /\ UNCHANGED <<arguments, pc, k, seedVars, assigned, planVars>>

\* pop the first of the largest groups, append its halves; a popped group is
\* never too small to be split (HeuristicsNeverStuck)
Bisect == /\ pc = "bisect" /\ Groups < k
          /\ \E i \in DOMAIN parts :
                /\ Largest(i) /\ Size(i) >= 2
                /\ \E a \in (SUBSET parts[i]) \ {{}, parts[i]} :
                      parts' = [j \in 0..Groups |->
                                   IF j = Groups THEN parts[i] \ a
                                   ELSE IF j = Groups - 1 THEN a
                                   ELSE IF j < i THEN parts[j] ELSE parts[j + 1]]
          /\ UNCHANGED <<arguments, pc, k, seedVars, assigned, planVars>>

EndSpectral == /\ pc = "bisect" /\ Groups >= k
               /\ pc' = "evaluate"
               /\ UNCHANGED <<arguments, k, seedVars, assigned, parts, planVars>>

Manual == /\ Partition("manual")
          /\ pc' = "evaluate"
          /\ parts' = [p \in 0..k' - 1 |-> {q \in Qubits : q % k' = p}]
          /\ UNCHANGED <<arguments, seedVars, assigned, planVars>>

-------------------------------------------------------------------------------
(* The cost model and _build_plan *)
Lookup(q) == CHOOSE p \in DOMAIN parts : q \in parts[p]
Touched(g) == {Lookup(q) : q \in Gate(g)}
\* mutant: a gate with any qubit in the partition
SubcircuitAny(p) == {g \in Gates : Gate(g) \cap parts[p] # {}}
Subcircuit(p) == {g \in Gates : Gate(g) \subseteq parts[p]}
\* mutant: every pair in both orders
PairsTwice(g) == {e \in Gate(g) \X Gate(g) : e[1] # e[2]}
Pairs(g) == {e \in Gate(g) \X Gate(g) : e[1] < e[2]}

Evaluate ==
    /\ pc = "evaluate"
    /\ cost' = [cut |-> Cardinality({e \in Gates \X (Qubits \X Qubits) :
                            e[2] \in Pairs(e[1]) /\ Lookup(e[2][1]) # Lookup(e[2][2])}),
                total |-> Cardinality({e \in Gates \X (Qubits \X Qubits) : e[2] \in Pairs(e[1])})]
    /\ pc' = "assemble" /\ cursor' = <<0, 1>>
    /\ entries' = [p \in DOMAIN parts |-> NoPlan]
    /\ UNCHANGED <<arguments, k, seedVars, assigned, parts, deps>>

\* the edge of p and other records the gate: its qubits in either partition if
\* the edge is new, all its qubits if it is not
Key(p, other) == IF p < other THEN <<p, other>> ELSE <<other, p>>
\* mutant: a known edge only counts the gate, and does not note its qubits
RecordedOnce(p, g) ==
    LET keys == {Key(p, other) : other \in Touched(g) \ {p}}
    IN  [e \in DOMAIN deps \cup keys |->
            IF e \notin keys THEN deps[e]
            ELSE IF e \in DOMAIN deps THEN [deps[e] EXCEPT !.ops = @ + 1]
            ELSE [shared |-> Gate(g) \cap (parts[e[1]] \cup parts[e[2]]), ops |-> 1]]
Recorded(p, g) ==
    LET keys == {Key(p, other) : other \in Touched(g) \ {p}}
    IN  [e \in DOMAIN deps \cup keys |->
            IF e \notin keys THEN deps[e]
            ELSE IF e \in DOMAIN deps
            THEN [shared |-> deps[e].shared \cup Gate(g), ops |-> deps[e].ops + 1]
            ELSE [shared |-> Gate(g) \cap (parts[e[1]] \cup parts[e[2]]), ops |-> 1]]

Visit ==
    LET p == cursor[1]
        g == cursor[2]
    IN  /\ pc = "assemble" /\ p \in DOMAIN parts /\ g \in Gates
        /\ cursor' = <<p, g + 1>>
        /\ IF p \notin Touched(g) THEN UNCHANGED <<entries, deps>>
           ELSE IF Touched(g) = {p}
           THEN /\ entries' = [entries EXCEPT ![p].local = @ + 1]
                /\ UNCHANGED deps
           ELSE /\ entries' = [entries EXCEPT ![p].inter = @ + 1,
                                              ![p].boundary = @ \cup (Gate(g) \cap parts[p])]
                /\ deps' = Recorded(p, g)
        /\ UNCHANGED <<arguments, pc, k, seedVars, assigned, parts, cost>>

NextPartition == /\ pc = "assemble" /\ cursor[1] \in DOMAIN parts /\ cursor[2] \notin Gates
                 /\ cursor' = <<cursor[1] + 1, 1>>
                 /\ UNCHANGED <<arguments, pc, k, seedVars, assigned, parts, cost, entries, deps>>

Finish == /\ pc = "assemble" /\ cursor[1] \notin DOMAIN parts
          /\ pc' = "done"
          /\ UNCHANGED <<arguments, k, seedVars, assigned, parts, planVars>>

GreedyStep == \/ Greedy \/ Spread \/ EndSpread \/ Fill \/ PlaceSeeds
              \/ Grow \/ EndGreedy
SpectralStep == Spectral \/ Bisect \/ EndSpectral
PlanStep == Evaluate \/ Visit \/ NextPartition \/ Finish

Next == \/ DivideByZero \/ SinglePartition
        \/ GreedyStep \/ SpectralStep \/ Manual
        \/ PlanStep

Spec == Init /\ [][Next]_vars

\* run() is one synchronous call: it goes on as long as it can.
FairSpec == Spec /\ WF_vars(Next)

-------------------------------------------------------------------------------
Locations == {"resolve", "spread", "fill", "grow", "bisect",
              "evaluate", "assemble", "done", "raised"}
Placed == UNION {parts[p] : p \in DOMAIN parts}
PartsDisjoint == \A p, r \in DOMAIN parts : p # r => parts[p] \cap parts[r] = {}

TypeOK ==
    /\ circuit \in Circuits /\ request \in Requests
    /\ pc \in Locations
    /\ k \in 0..AtLeast(1, n)
    /\ order \in Seq(Qubits) /\ refill \in Seq(Qubits) /\ seeds \in Seq(Qubits)
    /\ assigned \subseteq Qubits
    /\ \E m \in 0..AtLeast(1, n) : parts \in [0..m - 1 -> SUBSET Qubits]
    /\ cost \in [cut : Nat, total : Nat]
    /\ cursor \in (0..AtLeast(1, n)) \X Nat

\* Whatever the strategy and however its ties fall, the sets it returns, and the
\* plan made of them, lose no qubit and hold none twice.
PlanPartitionsQubits ==
    pc \in {"evaluate", "assemble", "done"} => PartsDisjoint /\ Placed = Qubits

\* A finished plan has as many partitions as was resolved, never more than
\* qubits, and none is empty unless the circuit is: the seed loops find k
\* distinct seeds on the densest graph, and a bisection never fails.
NoEmptyPartition ==
    pc = "done" /\ n > 0 =>
        /\ DOMAIN parts = 0..k - 1
        /\ k = IF PartitionCount(request) > 1 THEN AtMost(PartitionCount(request), n) ELSE 1
        /\ \A p \in DOMAIN parts : parts[p] # {}

\* The heuristics always find a next step: the greedy loop a qubit to place, so
\* that its break that "should not happen" (heuristics.py:86) does not, and the
\* bisection a group of two qubits or more (heuristics.py:164).
HeuristicsNeverStuck ==
    /\ pc = "grow" /\ assigned # Qubits =>
          \E q \in Qubits \ assigned, p \in 0..k - 1 : Score(q, p) > -1
    /\ pc = "bisect" /\ Groups < k => \E i \in DOMAIN parts : Size(i) >= 2

\* No gate is lost between the partitions: each is in the subcircuit of exactly
\* one of them, or is counted by each partition it touches and recorded on the
\* edge between any two of them.
GatesAccounted ==
    pc = "done" /\ k > 1 =>
        /\ \A p \in DOMAIN parts :
              /\ entries[p].local = Cardinality(Subcircuit(p))
              /\ entries[p].inter = Cardinality({g \in Gates : p \in Touched(g)} \ Subcircuit(p))
        /\ \A g \in Gates :
              IF Cardinality(Touched(g)) = 1 THEN \E p \in DOMAIN parts : g \in Subcircuit(p)
              ELSE \A p, r \in Touched(g) : p < r => <<p, r>> \in DOMAIN deps

\* The plan's edges and the partitions' boundaries agree: the boundary qubits
\* of a partition are exactly those of its qubits that some edge of it shares.
BoundariesAreShared ==
    pc = "done" =>
        \A p \in DOMAIN parts :
            entries[p].boundary =
                parts[p] \cap UNION {deps[e].shared : e \in {f \in DOMAIN deps : p \in {f[1], f[2]}}}

\* On a circuit of one- and two-qubit gates the cost model, which walks the
\* edges of the graph, and the assembly, which walks the gates, count the same
\* inter-module gates, each once for either side.
CountsAgree ==
    pc = "done" /\ (\A g \in Gates : Cardinality(Gate(g)) <= 2) =>
        2 * cost.cut = Cardinality({e \in (DOMAIN parts) \X Gates :
                                       /\ e[1] \in Touched(e[2])
                                       /\ Cardinality(Touched(e[2])) > 1})

\* Qubits without couplings, and any qubits under the manual strategy, are
\* spread evenly: the tie-break on size keeps the sizes within one.
EvenWithoutCoupling ==
    /\ pc = "done" /\ k > 1
    /\ \/ request.strategy = "manual"
       \/ /\ SelectStrategy(request) = "greedy"
          /\ \A q \in Qubits : Degree(q) = 0
    => \A p, r \in DOMAIN parts : Size(p) <= Size(r) + 1

\* Every call of run() ends, with a plan or by raising.
RunEnds == <>(pc \in {"done", "raised"})

-------------------------------------------------------------------------------
\* README.md:104 asks for at most two qubits in a partition and prints a plan
\* that has them; max_qubits_per_partition is a constraint (models.py:19).
\* Violated: it only sets how many partitions there are.
CapacityRespected ==
    pc = "done" /\ request.max_qubits # None /\ request.target = None =>
        \A p \in DOMAIN parts : Size(p) <= request.max_qubits
===============================================================================
