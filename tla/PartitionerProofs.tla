--------------------------- MODULE PartitionerProofs ---------------------------
(***************************************************************************)
(* Proofs about Partitioner, for all circuits, constraints and ties.       *)
(*                                                                         *)
(* The properties speak of finished plans or of one loop.  The invariant   *)
(* says of each loop what it hands to the next: the seeds are distinct and *)
(* with the candidates that are left cover the qubits, so that k are       *)
(* found; the groups are disjoint and never empty, so that fewer groups    *)
(* than qubits have one that can be split.                                 *)
(***************************************************************************)
EXTENDS Partitioner, FiniteSetTheorems, FunctionTheorems, TLAPS

Working == {"spread", "fill", "grow", "bisect", "evaluate", "assemble"}

\* what is resolved before any loop starts
Resolution == /\ n >= 2 /\ k \in 2..n
              /\ PartitionCount(request) > 1
              /\ k = AtMost(PartitionCount(request), n)

Candidates(list) == {list[i] : i \in DOMAIN list}
Distinct(list) == \A i, j \in DOMAIN list : list[i] = list[j] => i = j

\* some of the k seeds are found, all different
SeedsFound == Len(seeds) \in 1..k /\ Distinct(seeds)

\* the sets are lists 0..m - 1 of disjoint sets, none empty
Sets(m) == DOMAIN parts = 0..m - 1 /\ PartsDisjoint /\ \A p \in DOMAIN parts : parts[p] # {}

Loops ==
    /\ pc \in Working => Resolution
    /\ pc = "spread" => /\ SeedsFound /\ Distinct(order)
                        /\ Candidates(order) \cap Chosen = {}
                        /\ Qubits \subseteq Candidates(refill)
    /\ pc = "fill" => SeedsFound /\ Qubits \subseteq Chosen \cup Candidates(order)
    /\ pc = "grow" => Sets(k) /\ Placed = assigned
    /\ pc = "bisect" => Placed = Qubits /\ \E m \in 1..k : Sets(m)
    /\ pc \in {"evaluate", "assemble"} => Sets(k) /\ Placed = Qubits
    /\ pc = "done" => PartsDisjoint /\ Placed = Qubits /\ NoEmptyPartition

Inv == TypeOK /\ Loops

-------------------------------------------------------------------------------
\* A circuit has finitely many qubits and gates, and a gate acts on some qubit.
LEMMA CircuitFacts ==
    ASSUME circuit \in Circuits
    PROVE  /\ n \in Nat /\ IsFiniteSet(Qubits) /\ Cardinality(Qubits) = n
           /\ Gates = 1..Len(circuit.gates) /\ Len(circuit.gates) \in Nat /\ IsFiniteSet(Gates)
           /\ \A g \in Gates : Gate(g) \in SUBSET Qubits /\ Gate(g) # {}
<1>1. /\ n \in Nat /\ circuit.gates \in Seq((SUBSET Qubits) \ {{}})
  BY CircuitsOK DEF n, Qubits
<1>2. Gates = 1..Len(circuit.gates) /\ Len(circuit.gates) \in Nat
  BY <1>1 DEF Gates
<1>3. IsFiniteSet(Gates)
  BY <1>2, FS_Interval
<1>4. IsFiniteSet(Qubits) /\ Cardinality(Qubits) = n
  BY <1>1, FS_Interval DEF Qubits
<1>5. \A g \in Gates : Gate(g) \in SUBSET Qubits /\ Gate(g) # {}
  <2>1. \A g \in Gates : circuit.gates[g] \in (SUBSET Qubits) \ {{}}
    BY <1>1, <1>2
  <2> QED
    BY <2>1 DEF Gate
<1> QED
  BY <1>1, <1>2, <1>3, <1>4, <1>5

\* The resolved number of partitions is an integer unless the code divides by 0.
LEMMA CountInt ==
    ASSUME circuit \in Circuits, request \in Requests, ~DividesByZero(request)
    PROVE  PartitionCount(request) \in Int
<1>1. n \in Nat
  BY CircuitFacts
<1>2. /\ request.target \in Int \cup {None} /\ request.max_qubits \in Nat \cup {None}
      /\ request.min \in Nat /\ request.max \in Nat \cup {None}
  BY RequestsOK
<1>3. CASE request.target # None
  BY <1>2, <1>3 DEF PartitionCount, AtLeast
<1>4. CASE request.target = None /\ request.max_qubits # None
  <2>1. request.max_qubits \in Nat \ {0}
    BY <1>2, <1>4 DEF DividesByZero
  <2>2. -((-n) \div request.max_qubits) \in Int
    BY <1>1, <2>1
  <2> QED
    BY <1>2, <1>4, <2>2 DEF PartitionCount, AtLeast
<1>5. CASE request.target = None /\ request.max_qubits = None
  <2>1. n \div 10 \in Int
    BY <1>1
  <2> QED
    BY <1>2, <1>5, <2>1 DEF PartitionCount, AtLeast, AtMost
<1> QED
  BY <1>3, <1>4, <1>5

\* A heuristic is asked for at least two sets and at most one for every qubit.
LEMMA CountInRange ==
    ASSUME circuit \in Circuits, request \in Requests, ~DividesByZero(request), Splits
    PROVE  /\ n >= 2 /\ PartitionCount(request) > 1
           /\ AtMost(PartitionCount(request), n) \in 2..n
<1>1. n \in Nat /\ n # None /\ PartitionCount(request) \in Int
  BY CircuitFacts, CountInt, NoneOK
<1> QED
  BY <1>1 DEF Splits, AtMost

\* What distinct seeds there are, at most n, and n of them if they cover the qubits.
LEMMA SeedsCover ==
    ASSUME circuit \in Circuits, seeds \in Seq(Qubits), Qubits \subseteq Chosen
    PROVE  n <= Len(seeds)
<1>1. n \in Nat /\ IsFiniteSet(Qubits) /\ Cardinality(Qubits) = n
  BY CircuitFacts
<1>2. Len(seeds) \in Nat /\ DOMAIN seeds = 1..Len(seeds) /\ seeds \in [1..Len(seeds) -> Qubits]
  OBVIOUS
<1>3. seeds \in Surjection(1..Len(seeds), Qubits)
  BY <1>2 DEF Surjection, Chosen
<1>4. IsFiniteSet(1..Len(seeds)) /\ Cardinality(1..Len(seeds)) = Len(seeds)
  BY <1>2, FS_Interval
<1>5. Cardinality(Qubits) <= Cardinality(1..Len(seeds))
  BY <1>3, <1>4, FS_Surjection
<1> QED
  BY <1>1, <1>4, <1>5

\* An order lists every qubit, each once.
LEMMA OrderCovers ==
    ASSUME circuit \in Circuits, NEW o \in Orders
    PROVE  /\ o \in Seq(Qubits) /\ Len(o) = n /\ Distinct(o)
           /\ Qubits = Candidates(o)
<1>1. n \in Nat /\ IsFiniteSet(Qubits) /\ Cardinality(Qubits) = n
  BY CircuitFacts
<1>2. o \in [1..n -> Qubits] /\ \A i, j \in 1..n : i # j => o[i] # o[j]
  BY DEF Orders
<1>3. o \in Injection(1..n, Qubits)
  BY <1>2 DEF Injection, IsInjective
<1>4. IsFiniteSet(1..n) /\ Cardinality(1..n) = n
  BY <1>1, FS_Interval
<1>5. o \in Surjection(1..n, Qubits)
  BY <1>1, <1>3, <1>4, FS_Injection
<1>6. Qubits = Candidates(o)
  BY <1>2, <1>5 DEF Surjection, Candidates
<1>7. o \in Seq(Qubits) /\ Len(o) = n
  BY <1>1, <1>2
<1> QED
  BY <1>2, <1>6, <1>7 DEF Distinct

\* Looking at the next candidate: what is left, and the seeds if it is taken.
LEMMA Taking ==
    ASSUME order \in Seq(Qubits), seeds \in Seq(Qubits), order # <<>>,
           NEW accept \in BOOLEAN, TakeNext(accept)
    PROVE  /\ order' \in Seq(Qubits) /\ seeds' \in Seq(Qubits)
           /\ Candidates(order) = Candidates(order') \cup {Head(order)}
           /\ Chosen' = IF accept THEN Chosen \cup {Head(order)} ELSE Chosen
           /\ Len(seeds') = IF accept THEN Len(seeds) + 1 ELSE Len(seeds)
           /\ Distinct(order) => Distinct(order') /\ Head(order) \notin Candidates(order')
           /\ Distinct(seeds) /\ (accept => Head(order) \notin Chosen) => Distinct(seeds')
<1>1. /\ order' = Tail(order)
      /\ seeds' = IF accept THEN Append(seeds, Head(order)) ELSE seeds
  BY DEF TakeNext
<1>2. /\ Len(order) \in Nat \ {0} /\ DOMAIN order = 1..Len(order) /\ Head(order) = order[1]
      /\ Head(order) \in Qubits
      /\ DOMAIN order' = 1..Len(order) - 1
      /\ \A i \in DOMAIN order' : order'[i] = order[i + 1]
      /\ order' \in Seq(Qubits)
  BY <1>1
<1>3. Candidates(order) = Candidates(order') \cup {Head(order)}
  <2>1. \A i \in DOMAIN order : i = 1 \/ i - 1 \in DOMAIN order'
    BY <1>2
  <2>2. \A i \in DOMAIN order : i = 1 \/ order[i] = order'[i - 1]
    BY <1>2
  <2>3. \A i \in DOMAIN order' : i + 1 \in DOMAIN order
    BY <1>2
  <2>4. 1 \in DOMAIN order
    BY <1>2
  <2>5. Candidates(order) \subseteq Candidates(order') \cup {Head(order)}
    BY <1>2, <2>1, <2>2 DEF Candidates
  <2>6. Candidates(order') \cup {Head(order)} \subseteq Candidates(order)
    BY <1>2, <2>3, <2>4 DEF Candidates
  <2> QED
    BY <2>5, <2>6
<1>4. Distinct(order) => Distinct(order') /\ Head(order) \notin Candidates(order')
  <2>1. \A i \in DOMAIN order' : i + 1 \in DOMAIN order /\ i + 1 # 1
    BY <1>2
  <2>2. 1 \in DOMAIN order
    BY <1>2
  <2>3. \A i, j \in DOMAIN order' : i + 1 = j + 1 => i = j
    BY <1>2
  <2>4. Distinct(order) => Distinct(order')
    BY <1>2, <2>1, <2>3 DEF Distinct
  <2>5. Distinct(order) => Head(order) \notin Candidates(order')
    BY <1>2, <2>1, <2>2 DEF Distinct, Candidates
  <2> QED
    BY <2>4, <2>5
<1>5. CASE accept
  <2>1. /\ Len(seeds) \in Nat /\ DOMAIN seeds = 1..Len(seeds)
        /\ seeds' = Append(seeds, Head(order))
        /\ seeds' \in Seq(Qubits) /\ Len(seeds') = Len(seeds) + 1
        /\ DOMAIN seeds' = 1..Len(seeds) + 1
        /\ seeds'[Len(seeds) + 1] = Head(order)
        /\ \A i \in DOMAIN seeds : seeds'[i] = seeds[i]
    BY <1>1, <1>2, <1>5
  <2>2. Chosen' = Chosen \cup {Head(order)}
    <3>1. \A i \in DOMAIN seeds' : i \in DOMAIN seeds \/ i = Len(seeds) + 1
      BY <2>1
    <3>2. Len(seeds) + 1 \in DOMAIN seeds' /\ DOMAIN seeds \subseteq DOMAIN seeds'
      BY <2>1
    <3> QED
      BY <2>1, <3>1, <3>2 DEF Chosen
  <2>3. Distinct(seeds) /\ Head(order) \notin Chosen => Distinct(seeds')
    BY <2>1 DEF Distinct, Chosen
  <2> QED
    BY <1>2, <1>3, <1>4, <1>5, <2>1, <2>2, <2>3
<1>6. CASE ~accept
  <2>1. seeds' = seeds
    BY <1>1, <1>6
  <2>2. Chosen' = Chosen
    BY <2>1 DEF Chosen
  <2> QED
    BY <1>2, <1>3, <1>4, <1>6, <2>1, <2>2
<1> QED
  BY <1>5, <1>6

-------------------------------------------------------------------------------
(* The steps *)
\* The arguments do not change, so neither do the qubits nor what is resolved.
LEMMA Frame ==
    ASSUME UNCHANGED arguments
    PROVE  /\ circuit' = circuit /\ request' = request
           /\ n' = n /\ Qubits' = Qubits /\ Gates' = Gates
           /\ PartitionCount(request)' = PartitionCount(request)
           /\ k' = k /\ Resolution => Resolution'
<1>1. circuit' = circuit /\ request' = request
  BY DEF arguments
<1>2. n' = n /\ Qubits' = Qubits /\ Gates' = Gates
  BY <1>1 DEF n, Qubits, Gates
<1>3. PartitionCount(request)' = PartitionCount(request)
  BY <1>1, <1>2 DEF PartitionCount
<1>4. k' = k /\ Resolution => Resolution'
  BY <1>1, <1>2, <1>3 DEF Resolution
<1> QED
  BY <1>1, <1>2, <1>3, <1>4

LEMMA InitInv == Init => Inv
<1> SUFFICES ASSUME Init PROVE Inv
  OBVIOUS
<1>1. n \in Nat
  BY CircuitFacts DEF Init
<1>2. parts \in [0..0 - 1 -> SUBSET Qubits]
  BY DEF Init
<1>3. TypeOK
  BY <1>1, <1>2 DEF Init, TypeOK, Locations, AtLeast
<1>4. Loops
  BY DEF Init, Loops, Working
<1> QED
  BY <1>3, <1>4 DEF Inv

\* The seed loops
LEMMA GreedyStarts == ASSUME Inv, Greedy PROVE Inv'
<1>1. /\ circuit' = circuit /\ request' = request /\ n' = n /\ Qubits' = Qubits
      /\ PartitionCount(request)' = PartitionCount(request)
  BY Frame DEF Greedy
<1>2. /\ circuit \in Circuits /\ request \in Requests /\ n \in Nat
      /\ n >= 2 /\ PartitionCount(request) > 1 /\ k' = AtMost(PartitionCount(request), n)
      /\ k' \in 2..n
  BY CircuitFacts, CountInRange DEF Inv, TypeOK, Greedy, Partition, Resolved
<1>3. PICK o \in Orders : seeds' = <<o[1]>> /\ order' = Tail(o) /\ refill' = o
  BY DEF Greedy
<1>4. o \in Seq(Qubits) /\ Len(o) = n /\ Distinct(o) /\ Qubits = Candidates(o)
  BY <1>2, OrderCovers
<1>5. /\ DOMAIN o = 1..n /\ o # <<>> /\ o[1] \in Qubits
      /\ order' \in Seq(Qubits) /\ DOMAIN order' = 1..n - 1
      /\ \A i \in 1..n - 1 : order'[i] = o[i + 1]
      /\ seeds' \in Seq(Qubits) /\ Len(seeds') = 1 /\ DOMAIN seeds' = {1} /\ seeds'[1] = o[1]
  BY <1>2, <1>3, <1>4
<1>6. Chosen' = {o[1]} /\ Distinct(seeds')
  BY <1>5 DEF Chosen, Distinct
<1>7. Distinct(order') /\ o[1] \notin Candidates(order')
  <2>1. \A i \in DOMAIN order' : i + 1 \in DOMAIN o /\ i + 1 # 1 /\ order'[i] = o[i + 1]
    BY <1>2, <1>5
  <2>2. \A i, j \in DOMAIN order' : i + 1 = j + 1 => i = j
    BY <1>5
  <2>3. 1 \in DOMAIN o
    BY <1>2, <1>5
  <2> QED
    BY <1>4, <2>1, <2>2, <2>3 DEF Distinct, Candidates
<1>8. TypeOK'
  <2>1. k' \in 0..AtLeast(1, n')
    BY <1>1, <1>2 DEF AtLeast
  <2>2. /\ pc' \in Locations /\ UNCHANGED <<assigned, parts, cost, cursor>>
    BY DEF Greedy, Locations, planVars
  <2> QED
    BY <1>1, <1>2, <1>3, <1>4, <1>5, <2>1, <2>2 DEF Inv, TypeOK
<1>9. Resolution'
  BY <1>1, <1>2 DEF Resolution
<1>10. Loops'
  BY <1>1, <1>2, <1>3, <1>4, <1>5, <1>6, <1>7, <1>9 DEF Loops, SeedsFound, Greedy
<1> QED
  BY <1>8, <1>10 DEF Inv

LEMMA SpreadKeeps == ASSUME Inv, Spread PROVE Inv'
<1> DEFINE accept == \E s \in Chosen : Adj(Head(order), s) = 0
<1>1. /\ circuit' = circuit /\ request' = request /\ n' = n /\ Qubits' = Qubits
      /\ (Resolution => Resolution')
  BY Frame DEF Spread
<1>2. /\ order \in Seq(Qubits) /\ seeds \in Seq(Qubits) /\ order # <<>> /\ accept \in BOOLEAN
      /\ TakeNext(accept)
  BY DEF Inv, TypeOK, Spread, SeedsLeft
<1> HIDE DEF accept
<1>3. /\ order' \in Seq(Qubits) /\ seeds' \in Seq(Qubits)
      /\ Candidates(order) = Candidates(order') \cup {Head(order)}
      /\ Chosen' = IF accept THEN Chosen \cup {Head(order)} ELSE Chosen
      /\ Len(seeds') = IF accept THEN Len(seeds) + 1 ELSE Len(seeds)
      /\ Distinct(order) => Distinct(order') /\ Head(order) \notin Candidates(order')
      /\ Distinct(seeds) /\ (accept => Head(order) \notin Chosen) => Distinct(seeds')
  BY <1>2, Taking
<1>4. /\ pc = "spread" /\ pc' = "spread" /\ k' = k /\ refill' = refill
      /\ assigned' = assigned /\ parts' = parts /\ UNCHANGED planVars
      /\ Len(seeds) < k
  BY DEF Spread, SeedsLeft
<1>5. /\ Resolution /\ SeedsFound /\ Distinct(order) /\ Candidates(order) \cap Chosen = {}
      /\ Qubits \subseteq Candidates(refill)
  BY <1>4 DEF Inv, Loops, Working
<1>6. TypeOK'
  BY <1>1, <1>3, <1>4 DEF Inv, TypeOK, planVars
<1>7. SeedsFound'
  BY <1>3, <1>4, <1>5 DEF SeedsFound, Resolution
<1>8. Candidates(order') \cap Chosen' = {}
  BY <1>3, <1>5
<1>9. Loops'
  BY <1>1, <1>3, <1>4, <1>5, <1>7, <1>8 DEF Loops
<1> QED
  BY <1>6, <1>9 DEF Inv

LEMMA SpreadEnds == ASSUME Inv, EndSpread PROVE Inv'
<1>1. /\ circuit' = circuit /\ request' = request /\ n' = n /\ Qubits' = Qubits
      /\ (k' = k /\ Resolution => Resolution')
  BY Frame DEF EndSpread
<1>2. /\ pc = "spread" /\ pc' = "fill" /\ order' = refill /\ k' = k /\ refill' = refill
      /\ seeds' = seeds /\ assigned' = assigned /\ parts' = parts /\ UNCHANGED planVars
  BY DEF EndSpread
<1>3. Resolution /\ SeedsFound /\ Qubits \subseteq Candidates(refill)
  BY <1>2 DEF Inv, Loops, Working
<1>4. TypeOK'
  BY <1>1, <1>2 DEF Inv, TypeOK, planVars, Locations
<1>5. SeedsFound'
  BY <1>2, <1>3 DEF SeedsFound
<1>6. Loops'
  BY <1>1, <1>2, <1>3, <1>5 DEF Loops
<1> QED
  BY <1>4, <1>6 DEF Inv

LEMMA FillKeeps == ASSUME Inv, Fill PROVE Inv'
<1> DEFINE accept == Head(order) \notin Chosen
<1>1. /\ circuit' = circuit /\ request' = request /\ n' = n /\ Qubits' = Qubits
      /\ (k' = k /\ Resolution => Resolution')
  BY Frame DEF Fill
<1>2. /\ order \in Seq(Qubits) /\ seeds \in Seq(Qubits) /\ order # <<>> /\ accept \in BOOLEAN
      /\ TakeNext(accept)
  BY DEF Inv, TypeOK, Fill, SeedsLeft
<1>3. /\ order' \in Seq(Qubits) /\ seeds' \in Seq(Qubits)
      /\ Candidates(order) = Candidates(order') \cup {Head(order)}
      /\ Chosen' = IF accept THEN Chosen \cup {Head(order)} ELSE Chosen
      /\ Len(seeds') = IF accept THEN Len(seeds) + 1 ELSE Len(seeds)
      /\ Distinct(seeds) => Distinct(seeds')
  BY <1>2, Taking
<1>4. /\ pc = "fill" /\ pc' = "fill" /\ k' = k /\ refill' = refill
      /\ assigned' = assigned /\ parts' = parts /\ UNCHANGED planVars
      /\ Len(seeds) < k
  BY DEF Fill, SeedsLeft
<1>5. Resolution /\ SeedsFound /\ Qubits \subseteq Chosen \cup Candidates(order)
  BY <1>4 DEF Inv, Loops, Working
<1>6. TypeOK'
  BY <1>1, <1>3, <1>4 DEF Inv, TypeOK, planVars
<1>7. SeedsFound'
  BY <1>3, <1>4, <1>5 DEF SeedsFound, Resolution
<1>8. Qubits \subseteq Chosen' \cup Candidates(order')
  BY <1>3, <1>5
<1>9. Loops'
  BY <1>1, <1>4, <1>5, <1>7, <1>8 DEF Loops
<1> QED
  BY <1>6, <1>9 DEF Inv

\* When the seed loops end, there are k seeds: if the candidates ran out, every
\* qubit is a seed, and there are at least as many as k.
LEMMA SeedsPlaced == ASSUME Inv, PlaceSeeds PROVE Inv'
<1>1. /\ circuit' = circuit /\ request' = request /\ n' = n /\ Qubits' = Qubits
      /\ (k' = k /\ Resolution => Resolution')
  BY Frame DEF PlaceSeeds
<1>2. /\ pc = "fill" /\ pc' = "grow" /\ k' = k /\ assigned' = Chosen
      /\ order' = order /\ refill' = refill /\ seeds' = seeds /\ UNCHANGED planVars
      /\ parts' = [p \in 0..k - 1 |-> IF p < Len(seeds) THEN {seeds[p + 1]} ELSE {}]
      /\ ~SeedsLeft
  BY DEF PlaceSeeds, seedVars
<1>3. /\ Resolution /\ SeedsFound /\ Qubits \subseteq Chosen \cup Candidates(order)
      /\ order \in Seq(Qubits) /\ seeds \in Seq(Qubits) /\ circuit \in Circuits
  BY <1>2 DEF Inv, Loops, Working, TypeOK
<1>4. Len(seeds) = k
  <2>1. CASE order = <<>>
    <3>1. Candidates(order) = {}
      BY <2>1 DEF Candidates
    <3>2. n <= Len(seeds)
      BY <1>3, <3>1, SeedsCover
    <3> QED
      BY <1>3, <3>2, CircuitFacts DEF SeedsFound, Resolution
  <2>2. CASE order # <<>>
    BY <1>2, <1>3, <2>2 DEF SeedsFound, SeedsLeft, Resolution
  <2> QED
    BY <2>1, <2>2
<1>5. /\ k \in 2..n /\ n \in Nat /\ DOMAIN seeds = 1..k /\ Distinct(seeds)
      /\ \A i \in 1..k : seeds[i] \in Qubits
  BY <1>3, <1>4, CircuitFacts DEF SeedsFound, Resolution
<1>6. parts' = [p \in 0..k - 1 |-> {seeds[p + 1]}]
  BY <1>2, <1>4, <1>5
<1>7. /\ DOMAIN parts' = 0..k' - 1
      /\ \A p \in DOMAIN parts' : p + 1 \in 1..k /\ parts'[p] = {seeds[p + 1]}
  BY <1>2, <1>5, <1>6
<1>8. Sets(k)'
  <2>1. \A p, r \in DOMAIN parts' : p + 1 = r + 1 => p = r
    BY <1>5, <1>7, <1>2
  <2>2. PartsDisjoint'
    BY <1>5, <1>7, <2>1 DEF PartsDisjoint, Distinct
  <2> QED
    BY <1>7, <2>2 DEF Sets
<1>9. Placed' = assigned'
  <2>1. \A i \in 1..k : i - 1 \in DOMAIN parts' /\ parts'[i - 1] = {seeds[i]}
    BY <1>2, <1>5, <1>6
  <2>2. Placed' \subseteq Chosen
    BY <1>5, <1>7 DEF Placed, Chosen
  <2>3. Chosen \subseteq Placed'
    BY <1>5, <2>1 DEF Placed, Chosen
  <2> QED
    BY <1>2, <2>2, <2>3
<1>10. TypeOK'
  <2>1. parts' \in [0..k - 1 -> SUBSET Qubits]
    BY <1>5, <1>6, <1>7, <1>2
  <2>2. k \in 0..AtLeast(1, n)
    BY <1>5 DEF AtLeast
  <2>3. Chosen \subseteq Qubits
    BY <1>5 DEF Chosen
  <2> QED
    BY <1>1, <1>2, <2>1, <2>2, <2>3 DEF Inv, TypeOK, planVars, Locations
<1>11. Loops'
  BY <1>1, <1>2, <1>3, <1>8, <1>9 DEF Loops
<1> QED
  BY <1>10, <1>11 DEF Inv

\* The greedy growth
LEMMA GrowKeeps == ASSUME Inv, Grow PROVE Inv'
<1>1. /\ circuit' = circuit /\ request' = request /\ n' = n /\ Qubits' = Qubits
      /\ (k' = k /\ Resolution => Resolution')
  BY Frame DEF Grow
<1>2. /\ pc = "grow" /\ pc' = "grow" /\ k' = k
      /\ order' = order /\ refill' = refill /\ seeds' = seeds /\ UNCHANGED planVars
  BY DEF Grow, seedVars
<1>3. PICK q \in Qubits \ assigned, p \in 0..k - 1 :
          parts' = [parts EXCEPT ![p] = @ \cup {q}] /\ assigned' = assigned \cup {q}
  BY DEF Grow, Put
<1>4. Resolution /\ Sets(k) /\ Placed = assigned /\ circuit \in Circuits
  BY <1>2 DEF Inv, Loops, Working, TypeOK
<1>5. /\ DOMAIN parts = 0..k - 1 /\ DOMAIN parts' = 0..k - 1
      /\ parts'[p] = parts[p] \cup {q}
      /\ \A r \in 0..k - 1 : r # p => parts'[r] = parts[r]
      /\ \A r \in 0..k - 1 : q \notin parts[r] /\ parts[r] \subseteq Qubits
  <2>1. \A r \in DOMAIN parts : parts[r] \subseteq Qubits
    BY DEF Inv, TypeOK
  <2> QED
    BY <1>3, <1>4, <2>1 DEF Sets, Placed
<1>6. Sets(k)'
  BY <1>2, <1>3, <1>4, <1>5 DEF Sets, PartsDisjoint
<1>7. Placed' = assigned'
  <2>1. Placed' \subseteq Placed \cup {q}
    BY <1>3, <1>5 DEF Placed
  <2>2. Placed \cup {q} \subseteq Placed'
    BY <1>3, <1>5 DEF Placed
  <2> QED
    BY <1>3, <1>4, <2>1, <2>2
<1>8. TypeOK'
  <2>1. parts' \in [0..k - 1 -> SUBSET Qubits]
    <3>1. parts \in [0..k - 1 -> SUBSET Qubits]
      BY <1>5 DEF Inv, TypeOK
    <3> QED
      BY <1>3, <3>1
  <2>2. k \in 0..AtLeast(1, n)
    BY DEF Inv, TypeOK
  <2> QED
    BY <1>1, <1>2, <1>3, <2>1, <2>2 DEF Inv, TypeOK, planVars
<1>9. Loops'
  BY <1>1, <1>2, <1>4, <1>6, <1>7 DEF Loops
<1> QED
  BY <1>8, <1>9 DEF Inv

LEMMA GreedyEnds == ASSUME Inv, EndGreedy PROVE Inv'
<1>1. /\ circuit' = circuit /\ request' = request /\ n' = n /\ Qubits' = Qubits
      /\ (k' = k /\ Resolution => Resolution')
  BY Frame DEF EndGreedy
<1>2. /\ pc = "grow" /\ assigned = Qubits /\ pc' = "evaluate" /\ k' = k
      /\ order' = order /\ refill' = refill /\ seeds' = seeds
      /\ assigned' = assigned /\ parts' = parts /\ UNCHANGED planVars
  BY DEF EndGreedy, seedVars
<1>3. Resolution /\ Sets(k) /\ Placed = Qubits
  BY <1>2 DEF Inv, Loops, Working
<1>4. Sets(k)' /\ Placed' = Placed
  BY <1>2, <1>3 DEF Sets, PartsDisjoint, Placed
<1>5. TypeOK'
  BY <1>1, <1>2 DEF Inv, TypeOK, planVars, Locations
<1>6. Loops'
  BY <1>1, <1>2, <1>3, <1>4 DEF Loops
<1> QED
  BY <1>5, <1>6 DEF Inv

-------------------------------------------------------------------------------
(* The other strategies *)
LEMMA SpectralStarts == ASSUME Inv, Spectral PROVE Inv'
<1>1. /\ circuit' = circuit /\ request' = request /\ n' = n /\ Qubits' = Qubits
      /\ PartitionCount(request)' = PartitionCount(request)
  BY Frame DEF Spectral
<1>2. /\ circuit \in Circuits /\ request \in Requests /\ n \in Nat
      /\ n >= 2 /\ PartitionCount(request) > 1 /\ k' = AtMost(PartitionCount(request), n)
      /\ k' \in 2..n
  BY CircuitFacts, CountInRange DEF Inv, TypeOK, Spectral, Partition, Resolved
<1>3. /\ pc' = "bisect" /\ parts' = [p \in {0} |-> Qubits]
      /\ UNCHANGED <<seedVars, assigned, planVars>>
  BY DEF Spectral
<1>4. {0} = 0..1 - 1 /\ 1 \in 1..k' /\ 0 \in Qubits
  BY <1>2 DEF Qubits
<1>5. Sets(1)' /\ Placed' = Qubits'
  BY <1>1, <1>3, <1>4 DEF Sets, PartsDisjoint, Placed
<1>6. TypeOK'
  <2>1. parts' \in [0..1 - 1 -> SUBSET Qubits]
    BY <1>3, <1>4
  <2>2. k' \in 0..AtLeast(1, n) /\ 1 \in 0..AtLeast(1, n)
    BY <1>2 DEF AtLeast
  <2> QED
    BY <1>1, <1>3, <2>1, <2>2 DEF Inv, TypeOK, seedVars, planVars, Locations
<1>7. Resolution'
  BY <1>1, <1>2 DEF Resolution
<1>8. \E m \in 1..k' : Sets(m)'
  BY <1>4, <1>5
<1>9. Loops'
  BY <1>3, <1>5, <1>7, <1>8 DEF Loops
<1> QED
  BY <1>6, <1>9 DEF Inv

\* A list 0..m - 1 has m groups.
LEMMA GroupCount ==
    ASSUME NEW m \in Nat, DOMAIN parts = 0..m - 1
    PROVE  Groups = m
<1>1. Cardinality(0..m - 1) = m
  BY FS_Interval
<1> QED
  BY <1>1 DEF Groups

LEMMA BisectKeeps == ASSUME Inv, Bisect PROVE Inv'
<1>1. /\ circuit' = circuit /\ request' = request /\ n' = n /\ Qubits' = Qubits
      /\ (k' = k /\ Resolution => Resolution')
  BY Frame DEF Bisect
<1>2. /\ pc = "bisect" /\ pc' = "bisect" /\ k' = k
      /\ order' = order /\ refill' = refill /\ seeds' = seeds /\ assigned' = assigned
      /\ UNCHANGED planVars
  BY DEF Bisect, seedVars
<1>3. /\ Resolution /\ Placed = Qubits /\ circuit \in Circuits
      /\ \E m \in 1..k : Sets(m)
  BY <1>2 DEF Inv, Loops, Working, TypeOK
<1>4. PICK m \in 1..k : Sets(m)
  BY <1>3
<1>5. k \in 2..n /\ n \in Nat /\ DOMAIN parts = 0..m - 1
  BY <1>3, <1>4, CircuitFacts DEF Resolution, Sets
<1>6. Groups = m
  BY <1>5, GroupCount
<1>7. PICK i \in DOMAIN parts : \E a \in (SUBSET parts[i]) \ {{}, parts[i]} :
          /\ parts' = [j \in 0..Groups |->
                         IF j = Groups THEN parts[i] \ a
                         ELSE IF j = Groups - 1 THEN a
                         ELSE IF j < i THEN parts[j] ELSE parts[j + 1]]
          /\ Groups < k
  BY DEF Bisect
<1>8. PICK a \in (SUBSET parts[i]) \ {{}, parts[i]} :
          /\ parts' = [j \in 0..m |->
                         IF j = m THEN parts[i] \ a
                         ELSE IF j = m - 1 THEN a
                         ELSE IF j < i THEN parts[j] ELSE parts[j + 1]]
          /\ m < k
  BY <1>6, <1>7
<1>9. /\ DOMAIN parts' = 0..(m + 1) - 1 /\ m + 1 \in 1..k /\ m \in 1..k
      /\ parts'[m] = parts[i] \ a /\ parts'[m - 1] = a
      /\ \A j \in 0..m - 2 : j < i => parts'[j] = parts[j] /\ j \in DOMAIN parts /\ j # i
      /\ \A j \in 0..m - 2 : j >= i => parts'[j] = parts[j + 1] /\ j + 1 \in DOMAIN parts /\ j + 1 # i
  BY <1>5, <1>8
<1>10. /\ m \in Nat /\ m >= 1 /\ i \in 0..m - 1
       /\ \A j \in DOMAIN parts' : j = m \/ j = m - 1 \/ j \in 0..m - 2
  <2>1. m \in Nat /\ m >= 1 /\ i \in 0..m - 1
    BY <1>5, <1>7
  <2>2. \A j \in 0..(m + 1) - 1 : j = m \/ j = m - 1 \/ j \in 0..m - 2
    BY <2>1
  <2> QED
    BY <1>9, <2>1, <2>2
\* where the sets of the new list come from
<1> DEFINE from[j \in 0..m - 2] == IF j < i THEN j ELSE j + 1
<1>11. \A j \in 0..m - 2 : /\ from[j] \in DOMAIN parts /\ from[j] # i
                           /\ parts'[j] = parts[from[j]]
  BY <1>9, <1>10
<1>12. \A j, l \in 0..m - 2 : j # l => from[j] # from[l]
  BY <1>10
<1>13. \A r \in DOMAIN parts : r = i \/ \E j \in 0..m - 2 : from[j] = r
  <2> SUFFICES ASSUME NEW r \in DOMAIN parts, r # i
               PROVE  \E j \in 0..m - 2 : from[j] = r
    OBVIOUS
  <2>1. CASE r < i
    BY <1>5, <1>10, <2>1
  <2>2. CASE r > i
    <3>1. r - 1 \in 0..m - 2 /\ from[r - 1] = r
      BY <1>5, <1>10, <2>2
    <3> QED
      BY <3>1
  <2> QED
    BY <1>5, <1>10, <2>1, <2>2
<1> HIDE DEF from
<1>14. /\ a # {} /\ parts[i] \ a # {} /\ a \subseteq parts[i]
       /\ \A p \in DOMAIN parts : parts[p] # {}
       /\ \A p, r \in DOMAIN parts : p # r => parts[p] \cap parts[r] = {}
  BY <1>4, <1>8 DEF Sets, PartsDisjoint
<1>15. Sets(m + 1)'
  <2>1. \A p \in DOMAIN parts' : parts'[p] # {}
    BY <1>9, <1>10, <1>11, <1>14
  <2>2. \A p, r \in 0..m - 2 : p # r => parts'[p] \cap parts'[r] = {}
    BY <1>11, <1>12, <1>14
  <2>3. \A p \in 0..m - 2 : parts'[p] \cap parts[i] = {}
    BY <1>7, <1>11, <1>14
  <2>4. PartsDisjoint'
    BY <1>9, <1>10, <1>14, <2>2, <2>3 DEF PartsDisjoint
  <2> QED
    BY <1>9, <2>1, <2>4 DEF Sets
<1>16. Placed' = Qubits'
  <2>1. Placed' \subseteq Placed
    <3>1. \A j \in DOMAIN parts' : \E r \in DOMAIN parts : parts'[j] \subseteq parts[r]
      <4>1. parts'[m] \subseteq parts[i] /\ parts'[m - 1] \subseteq parts[i]
        BY <1>9, <1>14
      <4>2. \A j \in 0..m - 2 : \E r \in DOMAIN parts : parts'[j] \subseteq parts[r]
        BY <1>11
      <4> QED
        BY <1>7, <1>10, <4>1, <4>2
    <3> QED
      BY <3>1 DEF Placed
  <2>2. Placed \subseteq Placed'
    <3>1. m \in DOMAIN parts' /\ m - 1 \in DOMAIN parts' /\ 0..m - 2 \subseteq DOMAIN parts'
      BY <1>9, <1>10
    <3>2. \A r \in DOMAIN parts : r # i => \E j \in DOMAIN parts' : parts'[j] = parts[r]
      BY <1>11, <1>13, <3>1
    <3>3. parts[i] = parts'[m] \cup parts'[m - 1]
      BY <1>9, <1>14
    <3> QED
      BY <3>1, <3>2, <3>3 DEF Placed
  <2> QED
    BY <1>1, <1>3, <2>1, <2>2
<1>17. TypeOK'
  <2>1. \A j \in DOMAIN parts' : parts'[j] \in SUBSET Qubits
    BY <1>1, <1>16 DEF Placed
  <2>2. parts' \in [0..(m + 1) - 1 -> SUBSET Qubits]
    BY <1>8, <1>9, <2>1
  <2>3. k \in 0..AtLeast(1, n) /\ m + 1 \in 0..AtLeast(1, n)
    BY <1>5, <1>8, <1>10 DEF AtLeast
  <2> QED
    BY <1>1, <1>2, <2>2, <2>3 DEF Inv, TypeOK, planVars
<1>18. \E l \in 1..k' : Sets(l)'
  BY <1>2, <1>9, <1>15
<1>19. Loops'
  BY <1>1, <1>2, <1>3, <1>16, <1>18 DEF Loops
<1> QED
  BY <1>17, <1>19 DEF Inv

LEMMA SpectralEnds == ASSUME Inv, EndSpectral PROVE Inv'
<1>1. /\ circuit' = circuit /\ request' = request /\ n' = n /\ Qubits' = Qubits
      /\ (k' = k /\ Resolution => Resolution')
  BY Frame DEF EndSpectral
<1>2. /\ pc = "bisect" /\ Groups >= k /\ pc' = "evaluate" /\ k' = k
      /\ order' = order /\ refill' = refill /\ seeds' = seeds
      /\ assigned' = assigned /\ parts' = parts /\ UNCHANGED planVars
  BY DEF EndSpectral, seedVars
<1>3. Resolution /\ Placed = Qubits /\ circuit \in Circuits /\ \E m \in 1..k : Sets(m)
  BY <1>2 DEF Inv, Loops, Working, TypeOK
<1>4. PICK m \in 1..k : Sets(m)
  BY <1>3
<1>5. k \in Nat
  BY <1>3, CircuitFacts DEF Resolution
<1>6. Groups = m
  BY <1>4, <1>5, GroupCount DEF Sets
<1>7. m = k
  BY <1>2, <1>5, <1>6
<1>8. Sets(k)' /\ Placed' = Placed
  BY <1>2, <1>4, <1>7 DEF Sets, PartsDisjoint, Placed
<1>9. TypeOK'
  BY <1>1, <1>2 DEF Inv, TypeOK, planVars, Locations
<1>10. Loops'
  BY <1>1, <1>2, <1>3, <1>8 DEF Loops
<1> QED
  BY <1>9, <1>10 DEF Inv

LEMMA ManualSplits == ASSUME Inv, Manual PROVE Inv'
<1>1. /\ circuit' = circuit /\ request' = request /\ n' = n /\ Qubits' = Qubits
      /\ PartitionCount(request)' = PartitionCount(request)
  BY Frame DEF Manual
<1>2. /\ circuit \in Circuits /\ request \in Requests /\ n \in Nat
      /\ n >= 2 /\ PartitionCount(request) > 1 /\ k' = AtMost(PartitionCount(request), n)
      /\ k' \in 2..n
  BY CircuitFacts, CountInRange DEF Inv, TypeOK, Manual, Partition, Resolved
<1>3. /\ pc' = "evaluate" /\ parts' = [p \in 0..k' - 1 |-> {q \in Qubits : q % k' = p}]
      /\ UNCHANGED <<seedVars, assigned, planVars>>
  BY DEF Manual
<1>4. \A p \in 0..k' - 1 : p \in Qubits /\ p % k' = p
  BY <1>2 DEF Qubits
<1>5. \A q \in Qubits : q % k' \in 0..k' - 1
  BY <1>2 DEF Qubits
<1>6. Sets(k)'
  BY <1>3, <1>4 DEF Sets, PartsDisjoint
<1>7. Placed' = Qubits'
  BY <1>1, <1>3, <1>5 DEF Placed
<1>8. TypeOK'
  <2>1. parts' \in [0..k' - 1 -> SUBSET Qubits]
    BY <1>3
  <2>2. k' \in 0..AtLeast(1, n)
    BY <1>2 DEF AtLeast
  <2> QED
    BY <1>1, <1>3, <2>1, <2>2 DEF Inv, TypeOK, seedVars, planVars, Locations
<1>9. Resolution'
  BY <1>1, <1>2 DEF Resolution
<1>10. Loops'
  BY <1>3, <1>6, <1>7, <1>9 DEF Loops
<1> QED
  BY <1>8, <1>10 DEF Inv

LEMMA DivisionRaises == ASSUME Inv, DivideByZero PROVE Inv'
<1>1. circuit' = circuit /\ request' = request /\ n' = n /\ Qubits' = Qubits
  BY Frame DEF DivideByZero
<1>2. /\ pc' = "raised" /\ k' = k
      /\ UNCHANGED <<order, refill, seeds, assigned, parts, cost, cursor>>
  BY DEF DivideByZero, seedVars, planVars
<1>3. TypeOK'
  BY <1>1, <1>2 DEF Inv, TypeOK, Locations
<1>4. Loops'
  BY <1>2 DEF Loops, Working
<1> QED
  BY <1>3, <1>4 DEF Inv

LEMMA SingleSplits == ASSUME Inv, SinglePartition PROVE Inv'
<1>1. /\ circuit' = circuit /\ request' = request /\ n' = n /\ Qubits' = Qubits
      /\ PartitionCount(request)' = PartitionCount(request)
  BY Frame DEF SinglePartition
<1>2. /\ circuit \in Circuits /\ request \in Requests /\ n \in Nat /\ n # None
      /\ PartitionCount(request) \in Int /\ ~Splits
  BY CircuitFacts, CountInt, NoneOK DEF Inv, TypeOK, SinglePartition, Resolved
<1>3. /\ pc' = "done" /\ k' = 1 /\ parts' = [p \in {0} |-> Qubits]
      /\ UNCHANGED <<order, refill, seeds, assigned, cost, cursor>>
  BY DEF SinglePartition, seedVars
<1>4. {0} = 0..1 - 1
  OBVIOUS
<1>5. PartsDisjoint' /\ Placed' = Qubits'
  BY <1>1, <1>3 DEF PartsDisjoint, Placed
<1>6. NoEmptyPartition'
  <2>1. n > 0 => Qubits # {}
    BY <1>2 DEF Qubits
  <2>2. n > 0 /\ PartitionCount(request) > 1 => AtMost(PartitionCount(request), n) = 1
    BY <1>2 DEF Splits, AtMost
  <2> QED
    BY <1>1, <1>3, <1>4, <2>1, <2>2 DEF NoEmptyPartition
<1>7. TypeOK'
  <2>1. parts' \in [0..1 - 1 -> SUBSET Qubits]
    BY <1>3, <1>4
  <2>2. 1 \in 0..AtLeast(1, n)
    BY <1>2 DEF AtLeast
  <2> QED
    BY <1>1, <1>3, <2>1, <2>2 DEF Inv, TypeOK, Locations
<1>8. Loops'
  BY <1>3, <1>5, <1>6 DEF Loops, Working
<1> QED
  BY <1>7, <1>8 DEF Inv

-------------------------------------------------------------------------------
(* The cost model and the plan *)
LEMMA Evaluated == ASSUME Inv, Evaluate PROVE Inv'
<1>1. /\ circuit' = circuit /\ request' = request /\ n' = n /\ Qubits' = Qubits
      /\ (k' = k /\ Resolution => Resolution')
  BY Frame DEF Evaluate
<1>2. /\ pc = "evaluate" /\ pc' = "assemble" /\ k' = k /\ cursor' = <<0, 1>>
      /\ UNCHANGED <<order, refill, seeds, assigned, parts>>
  BY DEF Evaluate, seedVars
<1>3. Resolution /\ Sets(k) /\ Placed = Qubits /\ circuit \in Circuits
  BY <1>2 DEF Inv, Loops, Working, TypeOK
<1>4. n \in Nat /\ IsFiniteSet(Gates) /\ IsFiniteSet(Qubits)
  BY <1>3, CircuitFacts
<1> DEFINE walked == Gates \X (Qubits \X Qubits)
           total == {e \in walked : e[2] \in Pairs(e[1])}
           cut == {e \in walked : e[2] \in Pairs(e[1]) /\ Lookup(e[2][1]) # Lookup(e[2][2])}
<1>5. IsFiniteSet(walked)
  BY <1>4, FS_Product
<1>6. Cardinality(total) \in Nat
  <2>1. total \in SUBSET walked
    OBVIOUS
  <2> HIDE DEF total, walked
  <2>2. IsFiniteSet(total)
    BY <1>5, <2>1, FS_Subset
  <2> QED
    BY <2>2, FS_CardinalityType
<1>7. Cardinality(cut) \in Nat
  <2>1. cut \in SUBSET walked
    OBVIOUS
  <2> HIDE DEF cut, walked
  <2>2. IsFiniteSet(cut)
    BY <1>5, <2>1, FS_Subset
  <2> QED
    BY <2>2, FS_CardinalityType
<1>8. cost' = [cut |-> Cardinality(cut), total |-> Cardinality(total)]
  BY DEF Evaluate
<1>9. TypeOK'
  <2>1. cost' \in [cut : Nat, total : Nat]
    BY <1>6, <1>7, <1>8
  <2>2. cursor' \in (0..AtLeast(1, n)) \X Nat
    BY <1>2, <1>4 DEF AtLeast
  <2> QED
    BY <1>1, <1>2, <2>1, <2>2 DEF Inv, TypeOK, Locations
<1>10. Sets(k)' /\ Placed' = Placed
  BY <1>2, <1>3 DEF Sets, PartsDisjoint, Placed
<1>11. Loops'
  BY <1>1, <1>2, <1>3, <1>10 DEF Loops
<1> QED
  BY <1>9, <1>11 DEF Inv

LEMMA VisitKeeps == ASSUME Inv, Visit PROVE Inv'
<1>1. /\ circuit' = circuit /\ request' = request /\ n' = n /\ Qubits' = Qubits
      /\ (k' = k /\ Resolution => Resolution')
  BY Frame DEF Visit
<1>2. /\ pc = "assemble" /\ pc' = "assemble" /\ k' = k
      /\ cursor' = <<cursor[1], cursor[2] + 1>>
      /\ UNCHANGED <<order, refill, seeds, assigned, parts, cost>>
  BY DEF Visit, seedVars
<1>3. Resolution /\ Sets(k) /\ Placed = Qubits
  BY <1>2 DEF Inv, Loops, Working
<1>4. TypeOK'
  BY <1>1, <1>2 DEF Inv, TypeOK
<1>5. Sets(k)' /\ Placed' = Placed
  BY <1>2, <1>3 DEF Sets, PartsDisjoint, Placed
<1>6. Loops'
  BY <1>1, <1>2, <1>3, <1>5 DEF Loops
<1> QED
  BY <1>4, <1>6 DEF Inv

LEMMA NextKeeps == ASSUME Inv, NextPartition PROVE Inv'
<1>1. /\ circuit' = circuit /\ request' = request /\ n' = n /\ Qubits' = Qubits
      /\ (k' = k /\ Resolution => Resolution')
  BY Frame DEF NextPartition
<1>2. /\ pc = "assemble" /\ pc' = "assemble" /\ k' = k /\ cursor[1] \in DOMAIN parts
      /\ cursor' = <<cursor[1] + 1, 1>>
      /\ UNCHANGED <<order, refill, seeds, assigned, parts, cost>>
  BY DEF NextPartition, seedVars
<1>3. Resolution /\ Sets(k) /\ Placed = Qubits /\ n \in Nat
  BY <1>2, CircuitFacts DEF Inv, Loops, Working, TypeOK
<1>4. TypeOK'
  <2>1. cursor[1] + 1 \in 0..AtLeast(1, n)
    BY <1>2, <1>3 DEF Resolution, Sets, AtLeast
  <2> QED
    BY <1>1, <1>2, <2>1 DEF Inv, TypeOK
<1>5. Sets(k)' /\ Placed' = Placed
  BY <1>2, <1>3 DEF Sets, PartsDisjoint, Placed
<1>6. Loops'
  BY <1>1, <1>2, <1>3, <1>5 DEF Loops
<1> QED
  BY <1>4, <1>6 DEF Inv

LEMMA Finishes == ASSUME Inv, Finish PROVE Inv'
<1>1. /\ circuit' = circuit /\ request' = request /\ n' = n /\ Qubits' = Qubits
      /\ PartitionCount(request)' = PartitionCount(request)
  BY Frame DEF Finish
<1>2. /\ pc = "assemble" /\ pc' = "done" /\ k' = k
      /\ UNCHANGED <<order, refill, seeds, assigned, parts, cost, cursor>>
  BY DEF Finish, seedVars, planVars
<1>3. Resolution /\ Sets(k) /\ Placed = Qubits
  BY <1>2 DEF Inv, Loops, Working
<1>4. TypeOK'
  BY <1>1, <1>2 DEF Inv, TypeOK, Locations
<1>5. PartsDisjoint' /\ Placed' = Placed /\ NoEmptyPartition'
  BY <1>1, <1>2, <1>3 DEF Sets, PartsDisjoint, Placed, NoEmptyPartition, Resolution, AtMost
<1>6. Loops'
  BY <1>1, <1>2, <1>3, <1>5 DEF Loops, Working
<1> QED
  BY <1>4, <1>6 DEF Inv

LEMMA StutterKeeps == ASSUME Inv, UNCHANGED vars PROVE Inv'
<1>1. /\ circuit' = circuit /\ request' = request /\ n' = n /\ Qubits' = Qubits
      /\ PartitionCount(request)' = PartitionCount(request)
      /\ (k' = k /\ Resolution => Resolution')
  <2>1. UNCHANGED arguments
    BY DEF vars, arguments
  <2> QED
    BY <2>1, Frame
<1>2. /\ pc' = pc /\ k' = k /\ order' = order /\ refill' = refill /\ seeds' = seeds
      /\ assigned' = assigned /\ parts' = parts /\ cost' = cost /\ cursor' = cursor
  BY DEF vars, arguments, seedVars
<1>3. TypeOK'
  BY <1>1, <1>2 DEF Inv, TypeOK
<1>4. /\ Chosen' = Chosen /\ Placed' = Placed /\ PartsDisjoint' = PartsDisjoint
      /\ SeedsFound' = SeedsFound /\ \A m : Sets(m)' = Sets(m)
  BY <1>2 DEF Chosen, Placed, PartsDisjoint, SeedsFound, Sets
<1>5. NoEmptyPartition' = NoEmptyPartition
  BY <1>1, <1>2 DEF NoEmptyPartition, AtMost
<1>6. Loops'
  BY <1>1, <1>2, <1>4, <1>5 DEF Inv, Loops
<1> QED
  BY <1>3, <1>6 DEF Inv

LEMMA Inductive == Inv /\ [Next]_vars => Inv'
<1> SUFFICES ASSUME Inv, [Next]_vars PROVE Inv'
  OBVIOUS
<1>1. CASE GreedyStep
  BY <1>1, GreedyStarts, SpreadKeeps, SpreadEnds, FillKeeps, SeedsPlaced, GrowKeeps, GreedyEnds
     DEF GreedyStep
<1>2. CASE SpectralStep
  BY <1>2, SpectralStarts, BisectKeeps, SpectralEnds DEF SpectralStep
<1>3. CASE PlanStep
  BY <1>3, Evaluated, VisitKeeps, NextKeeps, Finishes DEF PlanStep
<1>4. CASE DivideByZero \/ SinglePartition \/ Manual
  BY <1>4, DivisionRaises, SingleSplits, ManualSplits
<1>5. CASE UNCHANGED vars
  BY <1>5, StutterKeeps
<1> QED
  BY <1>1, <1>2, <1>3, <1>4, <1>5 DEF Next

LEMMA AlwaysInv == Spec => []Inv
BY InitInv, Inductive, PTL DEF Spec

-------------------------------------------------------------------------------
(* The properties *)
\* run() keeps its counters, lists and sets within the qubits of the circuit, for
\* any circuits, constraints and strategies.
THEOREM TypeCorrect == Spec => []TypeOK
<1>1. Inv => TypeOK
  BY DEF Inv
<1> QED
  BY <1>1, AlwaysInv, PTL

\* The sets of every strategy, and every finished plan, hold each qubit once.
THEOREM QubitsPartitioned == Spec => []PlanPartitionsQubits
<1>1. Inv => PlanPartitionsQubits
  BY DEF Inv, Loops, Sets, PlanPartitionsQubits
<1> QED
  BY <1>1, AlwaysInv, PTL

\* A finished plan has the resolved number of partitions, none of them empty.
THEOREM NoneEmpty == Spec => []NoEmptyPartition
<1>1. Inv => NoEmptyPartition
  BY DEF Inv, Loops, NoEmptyPartition
<1> QED
  BY <1>1, AlwaysInv, PTL

\* Scores are never negative, so that any pair beats the initial -1.
LEMMA ScoreAtLeast0 ==
    ASSUME circuit \in Circuits, NEW q, NEW p, parts[p] \in SUBSET Qubits
    PROVE  Score(q, p) > -1
<1>1. n \in Nat /\ IsFiniteSet(Qubits) /\ Cardinality(Qubits) = n /\ IsFiniteSet(Gates)
  BY CircuitFacts
<1>2. IsFiniteSet(parts[p]) /\ Cardinality(parts[p]) <= n
  BY <1>1, FS_Subset
<1>3. Size(p) \in Nat /\ Size(p) <= n
  BY <1>2, FS_CardinalityType DEF Size
<1> DEFINE coupled == {e \in Gates \X parts[p] : {q, e[2]} \subseteq Gate(e[1])}
<1>4. IsFiniteSet(Gates \X parts[p])
  BY <1>1, <1>2, FS_Product
<1>5. Cardinality(coupled) \in Nat
  <2>1. coupled \in SUBSET (Gates \X parts[p])
    OBVIOUS
  <2> HIDE DEF coupled
  <2>2. IsFiniteSet(coupled)
    BY <1>4, <2>1, FS_Subset
  <2> QED
    BY <2>2, FS_CardinalityType
<1>6. Coupling(q, parts[p]) \in Nat
  BY <1>5 DEF Coupling
<1>7. Coupling(q, parts[p]) * n \in Nat
  BY <1>1, <1>6
<1> QED
  BY <1>1, <1>3, <1>7 DEF Score

\* Fewer disjoint groups than qubits have one with two qubits.
LEMMA SomeGroupSplits ==
    ASSUME circuit \in Circuits, NEW m \in Nat, m < n, Sets(m), Placed = Qubits
    PROVE  \E i \in DOMAIN parts : Size(i) >= 2
<1>1. n \in Nat /\ IsFiniteSet(Qubits) /\ Cardinality(Qubits) = n
  BY CircuitFacts
<1>2. IsFiniteSet(0..m - 1) /\ Cardinality(0..m - 1) = m
  BY FS_Interval
<1>3. DOMAIN parts = 0..m - 1
  BY DEF Sets
<1> DEFINE group == [q \in Qubits |-> CHOOSE i \in 0..m - 1 : q \in parts[i]]
<1>4. \A q \in Qubits : \E i \in 0..m - 1 : q \in parts[i]
  BY <1>3 DEF Placed
<1>5. /\ group \in [Qubits -> 0..m - 1]
      /\ \A q \in Qubits : q \in parts[group[q]]
  BY <1>4
<1> HIDE DEF group
<1>6. \E x, y \in Qubits : x # y /\ group[x] = group[y]
  BY <1>1, <1>2, <1>5, FS_PigeonHole
<1>7. PICK x \in Qubits, y \in Qubits : x # y /\ group[x] = group[y]
  BY <1>6
<1> DEFINE i == group[x]
<1>8. i \in DOMAIN parts /\ {x, y} \subseteq parts[i] /\ parts[i] \subseteq Qubits
  BY <1>3, <1>5, <1>7 DEF Placed
<1>9. Cardinality({x, y}) = 2
  <2>1. IsFiniteSet({x}) /\ Cardinality({x}) = 1
    BY FS_Singleton
  <2>2. Cardinality({x} \cup {y}) = 2
    BY <1>7, <2>1, FS_AddElement
  <2>3. {x} \cup {y} = {x, y}
    OBVIOUS
  <2> QED
    BY <2>2, <2>3
<1>10. IsFiniteSet(parts[i])
  BY <1>1, <1>8, FS_Subset
<1>11. Cardinality({x, y}) <= Cardinality(parts[i]) /\ Cardinality(parts[i]) \in Nat
  BY <1>8, <1>10, FS_Subset, FS_CardinalityType
<1>12. Size(i) >= 2
  BY <1>9, <1>11 DEF Size
<1> QED
  BY <1>8, <1>12

\* The greedy loop always finds a qubit to place, and the bisection a group.
THEOREM NeverStuck == Spec => []HeuristicsNeverStuck
<1>1. Inv => HeuristicsNeverStuck
  <2> SUFFICES ASSUME Inv PROVE HeuristicsNeverStuck
    OBVIOUS
  <2>1. circuit \in Circuits /\ assigned \subseteq Qubits /\ n \in Nat
    BY CircuitFacts DEF Inv, TypeOK
  <2>2. ASSUME pc = "grow", assigned # Qubits
        PROVE  \E q \in Qubits \ assigned, p \in 0..k - 1 : Score(q, p) > -1
    <3>1. Resolution /\ Sets(k)
      BY <2>2 DEF Inv, Loops, Working
    <3>2. 0 \in 0..k - 1 /\ 0 \in DOMAIN parts
      BY <2>1, <3>1 DEF Resolution, Sets
    <3>3. parts[0] \in SUBSET Qubits
      BY <3>2 DEF Inv, TypeOK
    <3>4. PICK q \in Qubits \ assigned : TRUE
      BY <2>1, <2>2
    <3>5. Score(q, 0) > -1
      BY <2>1, <3>3, ScoreAtLeast0
    <3> QED
      BY <3>2, <3>4, <3>5
  <2>3. ASSUME pc = "bisect", Groups < k
        PROVE  \E i \in DOMAIN parts : Size(i) >= 2
    <3>1. Resolution /\ Placed = Qubits /\ \E m \in 1..k : Sets(m)
      BY <2>3 DEF Inv, Loops, Working
    <3>2. PICK m \in 1..k : Sets(m)
      BY <3>1
    <3>3. m \in Nat /\ k <= n /\ k \in Nat
      BY <2>1, <3>1, <3>2 DEF Resolution
    <3>4. Groups = m
      BY <3>2, <3>3, GroupCount DEF Sets
    <3> QED
      BY <2>1, <2>3, <3>1, <3>2, <3>3, <3>4, SomeGroupSplits
  <2> QED
    BY <2>2, <2>3 DEF HeuristicsNeverStuck
<1> QED
  BY <1>1, AlwaysInv, PTL
===============================================================================
