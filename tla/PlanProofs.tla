------------------------------ MODULE PlanProofs ------------------------------
(***************************************************************************)
(* Proofs about the plan that Partitioner assembles, for all circuits.     *)
(*                                                                         *)
(* The loops of _build_plan look at one gate of one partition per step, so *)
(* the invariant says what the entries and the dependency map are after    *)
(* the visits made so far: each counter counts a set of visited gates, and *)
(* each edge is there if a gate across it was visited from either side,    *)
(* and shares the qubits of those gates.  The last part is about where the *)
(* qubits went: sizes within one of each other.                            *)
(***************************************************************************)
EXTENDS PartitionerProofs

\* the loops have looked at gate g of partition p
Visited(p, g) == p < cursor[1] \/ (p = cursor[1] /\ g < cursor[2])

LocalSeen(p) == {g \in Gates : Visited(p, g) /\ Touched(g) = {p}}
InterSeen(p) == {g \in Gates : Visited(p, g) /\ p \in Touched(g) /\ Touched(g) # {p}}

\* the edges there may be, and the gates across one that were visited
Keys == {e \in (DOMAIN parts) \X (DOMAIN parts) : e[1] < e[2]}
Across(e) == {g \in Gates : e[1] \in Touched(g) /\ e[2] \in Touched(g)}
SeenAcross(e) == {g \in Across(e) : Visited(e[1], g) \/ Visited(e[2], g)}

Operands(S) == UNION {Gate(g) : g \in S}
Either(e) == parts[e[1]] \cup parts[e[2]]

EntriesSoFar ==
    /\ DOMAIN entries = DOMAIN parts
    /\ \A p \in DOMAIN parts :
          entries[p] = [local |-> Cardinality(LocalSeen(p)), inter |-> Cardinality(InterSeen(p)),
                        boundary |-> parts[p] \cap Operands(InterSeen(p))]

DepsSoFar ==
    /\ DOMAIN deps = {e \in Keys : SeenAcross(e) # {}}
    /\ \A e \in DOMAIN deps :
          deps[e].shared \cap Either(e) = Operands(SeenAcross(e)) \cap Either(e)

Divided == Sets(k) /\ Placed = Qubits /\ circuit \in Circuits
AllVisited == \A p \in DOMAIN parts, g \in Gates : Visited(p, g)

\* the pairs of qubits that the cost model finds cut
CutPairs == {e \in Gates \X (Qubits \X Qubits) :
                e[2] \in Pairs(e[1]) /\ Lookup(e[2][1]) # Lookup(e[2][2])}

Undivided == /\ parts = [p \in {0} |-> Qubits] /\ deps = <<>> /\ circuit \in Circuits
             /\ entries[0].boundary = {} /\ cost.cut = 0

PlanInv ==
    /\ pc \notin {"assemble", "done"} => deps = <<>> /\ cost = [cut |-> 0, total |-> 0]
    /\ pc = "assemble" => /\ cursor[2] > 0 /\ EntriesSoFar /\ DepsSoFar
                          /\ cost.cut = Cardinality(CutPairs)
    /\ pc = "done" => IF k = 1 THEN Undivided
                      ELSE /\ Divided /\ AllVisited /\ EntriesSoFar /\ DepsSoFar
                           /\ cost.cut = Cardinality(CutPairs)

-------------------------------------------------------------------------------
\* Every qubit is looked up in the one set that has it, so that a gate touches
\* the sets it has operands in, at least one.
LEMMA LookedUp ==
    ASSUME Divided
    PROVE  /\ \A q \in Qubits : Lookup(q) \in DOMAIN parts /\ q \in parts[Lookup(q)]
           /\ \A p \in DOMAIN parts : \A q \in parts[p] : Lookup(q) = p
           /\ \A g \in Gates : /\ Touched(g) = {p \in DOMAIN parts : Gate(g) \cap parts[p] # {}}
                               /\ Touched(g) # {}
<1>1. \A q \in Qubits : \E p \in DOMAIN parts : q \in parts[p]
  BY DEF Divided, Placed
<1>2. \A q \in Qubits : Lookup(q) \in DOMAIN parts /\ q \in parts[Lookup(q)]
  BY <1>1 DEF Lookup
<1>3. \A p \in DOMAIN parts : \A q \in parts[p] : q \in Qubits
  BY DEF Divided, Placed
<1>4. \A p \in DOMAIN parts : \A q \in parts[p] : Lookup(q) = p
  BY <1>2, <1>3 DEF Divided, Sets, PartsDisjoint
<1>5. \A g \in Gates : Gate(g) \subseteq Qubits /\ Gate(g) # {}
  BY CircuitFacts DEF Divided
<1>6. \A g \in Gates : /\ Touched(g) = {p \in DOMAIN parts : Gate(g) \cap parts[p] # {}}
                       /\ Touched(g) # {}
  <2> SUFFICES ASSUME NEW g \in Gates
               PROVE  /\ Touched(g) = {p \in DOMAIN parts : Gate(g) \cap parts[p] # {}}
                      /\ Touched(g) # {}
    OBVIOUS
  <2>1. Touched(g) \subseteq {p \in DOMAIN parts : Gate(g) \cap parts[p] # {}}
    BY <1>2, <1>5 DEF Touched
  <2>2. {p \in DOMAIN parts : Gate(g) \cap parts[p] # {}} \subseteq Touched(g)
    BY <1>4 DEF Touched
  <2>3. Touched(g) # {}
    BY <1>5 DEF Touched
  <2> QED
    BY <2>1, <2>2, <2>3
<1> QED
  BY <1>2, <1>4, <1>6

\* While the sets and the circuit stay, so does what a gate touches.
LEMMA SameSets ==
    ASSUME circuit' = circuit, parts' = parts
    PROVE  /\ Gates' = Gates /\ Keys' = Keys /\ Qubits' = Qubits /\ Placed' = Placed
           /\ \A g : Gate(g)' = Gate(g) /\ Touched(g)' = Touched(g)
           /\ \A q : Lookup(q)' = Lookup(q)
           /\ \A e : Across(e)' = Across(e) /\ Either(e)' = Either(e)
           /\ CutPairs' = CutPairs
           /\ (k' = k /\ Divided => Divided')
<1>1. /\ Gates' = Gates /\ Qubits' = Qubits /\ Placed' = Placed /\ Keys' = Keys
      /\ \A g : Gate(g)' = Gate(g)
      /\ \A q : Lookup(q)' = Lookup(q)
      /\ \A e : Either(e)' = Either(e)
  BY DEF Gates, Gate, Keys, Qubits, n, Placed, Lookup, Either
<1>2. \A g : Touched(g)' = Touched(g)
  BY <1>1 DEF Touched
<1>3. \A e : Across(e)' = Across(e)
  BY <1>1, <1>2 DEF Across
<1>4. CutPairs' = CutPairs
  BY <1>1 DEF CutPairs, Pairs
<1>5. k' = k /\ Divided => Divided'
  BY <1>1 DEF Divided, Sets, PartsDisjoint
<1> QED
  BY <1>1, <1>2, <1>3, <1>4, <1>5

\* If no visit changes, neither does what the invariant says.
LEMMA SameVisits ==
    ASSUME circuit' = circuit, parts' = parts, entries' = entries, deps' = deps,
           EntriesSoFar, DepsSoFar,
           \A p \in DOMAIN parts, g \in Gates : Visited(p, g)' <=> Visited(p, g)
    PROVE  EntriesSoFar' /\ DepsSoFar'
<1>1. /\ Gates' = Gates /\ Keys' = Keys
      /\ \A g : Gate(g)' = Gate(g) /\ Touched(g)' = Touched(g)
      /\ \A e : Across(e)' = Across(e) /\ Either(e)' = Either(e)
  BY SameSets
<1>2. \A p \in DOMAIN parts : LocalSeen(p)' = LocalSeen(p) /\ InterSeen(p)' = InterSeen(p)
  BY <1>1 DEF LocalSeen, InterSeen
<1>3. \A e \in Keys : SeenAcross(e)' = SeenAcross(e)
  BY <1>1 DEF SeenAcross, Keys, Across
<1>4. \A S : Operands(S)' = UNION {Gate(g) : g \in S}
  BY <1>1 DEF Operands
<1>5. \A p \in DOMAIN parts : Operands(InterSeen(p))' = Operands(InterSeen(p))
  BY <1>1, <1>2 DEF Operands
<1>6. \A e \in Keys : Operands(SeenAcross(e))' = Operands(SeenAcross(e))
  BY <1>1, <1>3 DEF Operands
<1>7. EntriesSoFar'
  BY <1>2, <1>5 DEF EntriesSoFar
<1>8. DepsSoFar'
  BY <1>1, <1>3, <1>6 DEF DepsSoFar
<1> QED
  BY <1>7, <1>8

-------------------------------------------------------------------------------
(* One visit *)
\* A visit to gate g of partition p adds g to what was seen of p, as a gate of
\* its own or as one shared with others, and to the gates seen across the edges
\* of p that g crosses.
LEMMA VisitSees ==
    ASSUME NEW p, NEW g, cursor = <<p, g>>, Divided, p \in DOMAIN parts, g \in Gates,
           k \in Nat, circuit' = circuit, parts' = parts, cursor' = <<p, g + 1>>
    PROVE  /\ \A r \in DOMAIN parts : r # p =>
                 LocalSeen(r)' = LocalSeen(r) /\ InterSeen(r)' = InterSeen(r)
           /\ g \notin LocalSeen(p) /\ g \notin InterSeen(p)
           /\ LocalSeen(p)' = LocalSeen(p) \cup (IF Touched(g) = {p} THEN {g} ELSE {})
           /\ InterSeen(p)' = InterSeen(p) \cup
                 (IF p \in Touched(g) /\ Touched(g) # {p} THEN {g} ELSE {})
           /\ \A e \in Keys : SeenAcross(e)' = SeenAcross(e) \cup
                 (IF p \in {e[1], e[2]} /\ g \in Across(e) THEN {g} ELSE {})
<1>1. /\ Gates' = Gates
      /\ \A h : Touched(h)' = Touched(h)
      /\ \A e : Across(e)' = Across(e)
  BY SameSets
<1>2. Gates \subseteq Nat /\ DOMAIN parts \subseteq Int
  BY CircuitFacts DEF Divided, Sets
<1>3. /\ \A r \in DOMAIN parts : \A h \in Gates :
            Visited(r, h)' <=> Visited(r, h) \/ (r = p /\ h = g)
      /\ ~Visited(p, g)
  BY <1>2 DEF Visited
<1>4. \A r \in DOMAIN parts :
         /\ LocalSeen(r)' = {h \in Gates : Visited(r, h)' /\ Touched(h) = {r}}
         /\ InterSeen(r)' = {h \in Gates : Visited(r, h)' /\ r \in Touched(h) /\ Touched(h) # {r}}
  BY <1>1 DEF LocalSeen, InterSeen
<1>5. \A r \in DOMAIN parts : r # p => LocalSeen(r)' = LocalSeen(r) /\ InterSeen(r)' = InterSeen(r)
  BY <1>3, <1>4 DEF LocalSeen, InterSeen
<1>6. g \notin LocalSeen(p) /\ g \notin InterSeen(p)
  BY <1>3 DEF LocalSeen, InterSeen
<1>7. LocalSeen(p)' = LocalSeen(p) \cup (IF Touched(g) = {p} THEN {g} ELSE {})
  BY <1>3, <1>4 DEF LocalSeen
<1>8. InterSeen(p)' = InterSeen(p) \cup
         (IF p \in Touched(g) /\ Touched(g) # {p} THEN {g} ELSE {})
  BY <1>3, <1>4 DEF InterSeen
<1>9. ASSUME NEW e \in Keys
      PROVE  SeenAcross(e)' = SeenAcross(e) \cup
                (IF p \in {e[1], e[2]} /\ g \in Across(e) THEN {g} ELSE {})
  <2>1. e[1] \in DOMAIN parts /\ e[2] \in DOMAIN parts
    BY DEF Keys
  <2>2. Across(e) \subseteq Gates
    BY DEF Across
  <2>3. SeenAcross(e)' = {h \in Across(e) : Visited(e[1], h)' \/ Visited(e[2], h)'}
    BY <1>1 DEF SeenAcross
  <2> QED
    BY <1>3, <2>1, <2>2, <2>3 DEF SeenAcross
<1> QED
  BY <1>5, <1>6, <1>7, <1>8, <1>9

\* The visited gates are gates of the circuit: there are finitely many.
LEMMA SeenFinite ==
    ASSUME circuit \in Circuits
    PROVE  \A p : /\ IsFiniteSet(LocalSeen(p)) /\ Cardinality(LocalSeen(p)) \in Nat
                  /\ IsFiniteSet(InterSeen(p)) /\ Cardinality(InterSeen(p)) \in Nat
<1> SUFFICES ASSUME NEW p
             PROVE  /\ IsFiniteSet(LocalSeen(p)) /\ Cardinality(LocalSeen(p)) \in Nat
                    /\ IsFiniteSet(InterSeen(p)) /\ Cardinality(InterSeen(p)) \in Nat
  OBVIOUS
<1>1. IsFiniteSet(Gates)
  BY CircuitFacts
<1>2. LocalSeen(p) \in SUBSET Gates /\ InterSeen(p) \in SUBSET Gates
  BY DEF LocalSeen, InterSeen
<1>3. IsFiniteSet(LocalSeen(p)) /\ IsFiniteSet(InterSeen(p))
  BY <1>1, <1>2, FS_Subset
<1> QED
  BY <1>3, FS_CardinalityType

\* The edges a gate records are those of p to the other sets it touches.
LEMMA RecordedKeys ==
    ASSUME Divided, k \in Nat, NEW p \in DOMAIN parts, NEW g \in Gates, p \in Touched(g)
    PROVE  {Key(p, other) : other \in Touched(g) \ {p}} =
               {e \in Keys : p \in {e[1], e[2]} /\ g \in Across(e)}
<1>1. Touched(g) \subseteq DOMAIN parts /\ DOMAIN parts \subseteq Int
  BY LookedUp DEF Divided, Sets
<1>2. ASSUME NEW other \in Touched(g) \ {p}
      PROVE  LET e == Key(p, other)
             IN  e \in Keys /\ p \in {e[1], e[2]} /\ g \in Across(e)
  <2>1. CASE p < other
    BY <1>1, <2>1 DEF Key, Keys, Across
  <2>2. CASE ~(p < other)
    <3>1. other < p
      BY <1>1, <2>2
    <3> QED
      BY <1>1, <2>2, <3>1 DEF Key, Keys, Across
  <2> QED
    BY <2>1, <2>2
<1>3. ASSUME NEW e \in Keys, p \in {e[1], e[2]}, g \in Across(e)
      PROVE  \E other \in Touched(g) \ {p} : e = Key(p, other)
  <2>1. /\ e = <<e[1], e[2]>> /\ e[1] < e[2] /\ e[1] \in Touched(g) /\ e[2] \in Touched(g)
        /\ e[1] \in Int /\ e[2] \in Int
    BY <1>1, <1>3 DEF Keys, Across
  <2>2. CASE p = e[1]
    BY <2>1, <2>2 DEF Key
  <2>3. CASE p = e[2]
    BY <2>1, <2>3 DEF Key
  <2> QED
    BY <1>3, <2>2, <2>3
<1> QED
  BY <1>2, <1>3

\* A visit keeps the counters and boundaries true to what was seen.
LEMMA VisitEntries ==
    ASSUME Divided, k \in Nat, cursor \in Int \X Nat, Visit, EntriesSoFar
    PROVE  EntriesSoFar'
<1>1. PICK p \in DOMAIN parts, g \in Gates :
         /\ cursor = <<p, g>> /\ cursor' = <<p, g + 1>>
         /\ circuit' = circuit /\ parts' = parts
  BY DEF Visit, arguments
<1> DEFINE own == Touched(g) = {p}
           shared == p \in Touched(g) /\ Touched(g) # {p}
<1>2. /\ \A r \in DOMAIN parts : r # p =>
            LocalSeen(r)' = LocalSeen(r) /\ InterSeen(r)' = InterSeen(r)
      /\ g \notin LocalSeen(p) /\ g \notin InterSeen(p)
      /\ LocalSeen(p)' = LocalSeen(p) \cup (IF own THEN {g} ELSE {})
      /\ InterSeen(p)' = InterSeen(p) \cup (IF shared THEN {g} ELSE {})
  BY <1>1, VisitSees
<1>3. /\ \A r \in DOMAIN parts :
            Operands(InterSeen(r))' = UNION {Gate(h) : h \in InterSeen(r)'}
  <2>1. \A h : Gate(h)' = Gate(h)
    BY <1>1, SameSets
  <2> QED
    BY <2>1 DEF Operands
<1>4. \A r \in DOMAIN parts :
         entries[r] = [local |-> Cardinality(LocalSeen(r)), inter |-> Cardinality(InterSeen(r)),
                       boundary |-> parts[r] \cap Operands(InterSeen(r))]
  BY DEF EntriesSoFar
<1>5. /\ IsFiniteSet(LocalSeen(p)) /\ Cardinality(LocalSeen(p)) \in Nat
      /\ IsFiniteSet(InterSeen(p)) /\ Cardinality(InterSeen(p)) \in Nat
  BY SeenFinite DEF Divided
<1>6. /\ Cardinality(LocalSeen(p))' = Cardinality(LocalSeen(p)) + (IF own THEN 1 ELSE 0)
      /\ Cardinality(InterSeen(p))' = Cardinality(InterSeen(p)) + (IF shared THEN 1 ELSE 0)
  <2>1. Cardinality(LocalSeen(p) \cup {g}) = Cardinality(LocalSeen(p)) + 1
    BY <1>2, <1>5, FS_AddElement
  <2>2. Cardinality(InterSeen(p) \cup {g}) = Cardinality(InterSeen(p)) + 1
    BY <1>2, <1>5, FS_AddElement
  <2>3. /\ Cardinality(LocalSeen(p))' = Cardinality(LocalSeen(p)')
        /\ Cardinality(InterSeen(p))' = Cardinality(InterSeen(p)')
    OBVIOUS
  <2>4. /\ own => LocalSeen(p)' = LocalSeen(p) \cup {g}
        /\ ~own => LocalSeen(p)' = LocalSeen(p)
        /\ shared => InterSeen(p)' = InterSeen(p) \cup {g}
        /\ ~shared => InterSeen(p)' = InterSeen(p)
    BY <1>2
  <2> QED
    BY <1>5, <2>1, <2>2, <2>3, <2>4
<1>7. /\ shared => parts[p] \cap Operands(InterSeen(p))' =
                      (parts[p] \cap Operands(InterSeen(p))) \cup (Gate(g) \cap parts[p])
      /\ ~shared => parts[p] \cap Operands(InterSeen(p))' = parts[p] \cap Operands(InterSeen(p))
  BY <1>1, <1>2, <1>3 DEF Operands
<1>8. \A r \in DOMAIN parts : r # p =>
         /\ Cardinality(LocalSeen(r))' = Cardinality(LocalSeen(r))
         /\ Cardinality(InterSeen(r))' = Cardinality(InterSeen(r))
         /\ Operands(InterSeen(r))' = Operands(InterSeen(r))
  BY <1>2, <1>3 DEF Operands
<1>9. /\ DOMAIN entries = DOMAIN parts /\ DOMAIN entries' = DOMAIN parts
      /\ \A r \in DOMAIN parts : r # p => entries'[r] = entries[r]
      /\ p \notin Touched(g) => entries'[p] = entries[p]
      /\ own => entries'[p] = [entries[p] EXCEPT !.local = @ + 1]
      /\ shared => entries'[p] = [entries[p] EXCEPT !.inter = @ + 1,
                                                    !.boundary = @ \cup (Gate(g) \cap parts[p])]
  <2>1. DOMAIN entries = DOMAIN parts
    BY DEF EntriesSoFar
  <2>2. CASE p \notin Touched(g)
    BY <1>1, <2>1, <2>2 DEF Visit
  <2>3. CASE own
    BY <1>1, <2>1, <2>3 DEF Visit
  <2>4. CASE shared
    BY <1>1, <2>1, <2>4 DEF Visit
  <2> QED
    BY <2>1, <2>2, <2>3, <2>4
<1> DEFINE entry(r) ==
       [local |-> Cardinality(LocalSeen(r))', inter |-> Cardinality(InterSeen(r))',
        boundary |-> parts[r] \cap Operands(InterSeen(r))']
<1>10. \A r \in DOMAIN parts : r # p => entries'[r] = entry(r)
  BY <1>4, <1>8, <1>9
<1> DEFINE local == Cardinality(LocalSeen(p))
           inter == Cardinality(InterSeen(p))
           boundary == parts[p] \cap Operands(InterSeen(p))
<1>11. entries'[p] = [local |-> local', inter |-> inter',
                      boundary |-> parts[p] \cap Operands(InterSeen(p))']
  <2>1. entries[p] = [local |-> local, inter |-> inter, boundary |-> boundary]
    BY <1>4
  <2>2. CASE p \notin Touched(g)
    <3>1. ~own /\ ~shared
      BY <2>2
    <3>2. /\ local' = local /\ inter' = inter
          /\ parts[p] \cap Operands(InterSeen(p))' = boundary
      BY <1>5, <1>6, <1>7, <3>1
    <3> QED
      BY <1>9, <2>1, <2>2, <3>2
  <2>3. CASE own
    <3>1. ~shared
      BY <2>3
    <3>2. /\ local' = local + 1 /\ inter' = inter
          /\ parts[p] \cap Operands(InterSeen(p))' = boundary
      BY <1>5, <1>6, <1>7, <2>3, <3>1
    <3>3. entries'[p] = [[local |-> local, inter |-> inter, boundary |-> boundary]
                            EXCEPT !.local = @ + 1]
      BY <1>9, <2>1, <2>3
    <3>4. entries'[p] = [local |-> local + 1, inter |-> inter, boundary |-> boundary]
      BY <3>3
    <3> QED
      BY <3>2, <3>4
  <2>4. CASE shared
    <3>1. ~own
      BY <2>4
    <3>2. /\ local' = local /\ inter' = inter + 1
          /\ parts[p] \cap Operands(InterSeen(p))' = boundary \cup (Gate(g) \cap parts[p])
      BY <1>5, <1>6, <1>7, <2>4, <3>1
    <3>3. entries'[p] = [[local |-> local, inter |-> inter, boundary |-> boundary]
                            EXCEPT !.inter = @ + 1,
                                   !.boundary = @ \cup (Gate(g) \cap parts[p])]
      BY <1>9, <2>1, <2>4
    <3>4. entries'[p] = [local |-> local, inter |-> inter + 1,
                         boundary |-> boundary \cup (Gate(g) \cap parts[p])]
      BY <3>3
    <3> QED
      BY <3>2, <3>4
  <2> QED
    BY <2>2, <2>3, <2>4
<1> QED
  BY <1>1, <1>9, <1>10, <1>11 DEF EntriesSoFar

\* A visit keeps the edges true to what was seen.
LEMMA VisitDeps ==
    ASSUME Divided, k \in Nat, cursor \in Int \X Nat, Visit, DepsSoFar
    PROVE  DepsSoFar'
<1>1. PICK p \in DOMAIN parts, g \in Gates :
         /\ cursor = <<p, g>> /\ cursor' = <<p, g + 1>>
         /\ circuit' = circuit /\ parts' = parts
  BY DEF Visit, arguments
<1> DEFINE shared == p \in Touched(g) /\ Touched(g) # {p}
           crossed == {e \in Keys : p \in {e[1], e[2]} /\ g \in Across(e)}
<1>2. \A e \in Keys : SeenAcross(e)' = SeenAcross(e) \cup (IF e \in crossed THEN {g} ELSE {})
  BY <1>1, VisitSees
<1>3. /\ Keys' = Keys
      /\ \A e : Either(e)' = Either(e)
      /\ \A e : Operands(SeenAcross(e))' = UNION {Gate(h) : h \in SeenAcross(e)'}
  <2>1. Keys' = Keys /\ (\A h : Gate(h)' = Gate(h)) /\ \A e : Either(e)' = Either(e)
    BY <1>1, SameSets
  <2> QED
    BY <2>1 DEF Operands
<1>4. /\ DOMAIN deps = {e \in Keys : SeenAcross(e) # {}}
      /\ \A e \in DOMAIN deps :
            deps[e].shared \cap Either(e) = Operands(SeenAcross(e)) \cap Either(e)
  BY DEF DepsSoFar
<1>5. /\ \A e \in Keys \ crossed : Operands(SeenAcross(e))' = Operands(SeenAcross(e))
      /\ \A e \in crossed : Operands(SeenAcross(e))' = Operands(SeenAcross(e)) \cup Gate(g)
  BY <1>2, <1>3 DEF Operands
<1>6. CASE ~shared
  <2>1. crossed = {}
    <3>1. \A e \in Keys : e[1] \in DOMAIN parts /\ e[2] \in DOMAIN parts /\ e[1] < e[2]
      BY DEF Keys
    <3>2. DOMAIN parts \subseteq Int
      BY DEF Divided, Sets
    <3>3. \A e \in Keys : e[1] # e[2]
      BY <3>1, <3>2
    <3> QED
      BY <1>6, <3>3 DEF Across
  <2>2. deps' = deps
    BY <1>1, <1>6 DEF Visit
  <2> HIDE DEF crossed
  <2>3. \A e \in Keys : SeenAcross(e)' = SeenAcross(e)
    BY <1>2, <2>1
  <2>4. \A e \in Keys : Operands(SeenAcross(e))' = Operands(SeenAcross(e))
    BY <1>5, <2>1
  <2> QED
    BY <1>3, <1>4, <2>2, <2>3, <2>4 DEF DepsSoFar
<1>7. CASE shared
  <2>1. deps' = Recorded(p, g)
    BY <1>1, <1>7 DEF Visit
  <2>2. crossed = {Key(p, other) : other \in Touched(g) \ {p}}
    BY <1>1, <1>7, RecordedKeys
  <2> HIDE DEF crossed
  <2>3. deps' = [e \in DOMAIN deps \cup crossed |->
                    IF e \notin crossed THEN deps[e]
                    ELSE IF e \in DOMAIN deps
                    THEN [shared |-> deps[e].shared \cup Gate(g), ops |-> deps[e].ops + 1]
                    ELSE [shared |-> Gate(g) \cap (parts[e[1]] \cup parts[e[2]]), ops |-> 1]]
    BY <2>1, <2>2 DEF Recorded
  <2>4. crossed \subseteq Keys
    BY DEF crossed
  <2>5. DOMAIN deps' = {e \in Keys : SeenAcross(e)' # {}}
    BY <1>2, <1>4, <2>3, <2>4
  <2>6. ASSUME NEW e \in DOMAIN deps'
        PROVE  deps'[e].shared \cap Either(e) = Operands(SeenAcross(e))' \cap Either(e)
    <3>1. CASE e \notin crossed
      BY <1>4, <1>5, <2>3, <2>6, <3>1
    <3>2. CASE e \in crossed /\ e \in DOMAIN deps
      BY <1>4, <1>5, <2>3, <3>2
    <3>3. CASE e \in crossed /\ e \notin DOMAIN deps
      <4>1. SeenAcross(e) = {}
        BY <1>4, <2>4, <3>3
      <4>2. Operands(SeenAcross(e))' = Gate(g)
        BY <1>5, <3>3, <4>1 DEF Operands
      <4>3. deps'[e].shared = Gate(g) \cap Either(e)
        BY <2>3, <3>3 DEF Either
      <4> QED
        BY <4>2, <4>3
    <3> QED
      BY <3>1, <3>2, <3>3
  <2> QED
    BY <1>3, <2>5, <2>6 DEF DepsSoFar
<1> QED
  BY <1>6, <1>7

-------------------------------------------------------------------------------
(* The steps *)
LEMMA InitPlan == Init => PlanInv
BY DEF Init, PlanInv

\* Before the assembly nothing of the plan changes.
LEMMA BeforePlan ==
    ASSUME PlanInv, pc \notin {"assemble", "done"}, pc' \notin {"assemble", "done"},
           deps' = deps, cost' = cost
    PROVE  PlanInv'
BY DEF PlanInv

\* The heuristics and the error leave the plan alone.
LEMMA HeuristicsPlan ==
    ASSUME PlanInv, GreedyStep \/ SpectralStep \/ Manual \/ DivideByZero
    PROVE  PlanInv'
<1>1. CASE GreedyStep
  <2>1. /\ pc \notin {"assemble", "done"} /\ pc' \notin {"assemble", "done"}
        /\ UNCHANGED planVars
    BY <1>1 DEF GreedyStep, Greedy, Spread, EndSpread, Fill, PlaceSeeds, Grow, EndGreedy,
                Partition, Resolved
  <2> QED
    BY <2>1, BeforePlan DEF planVars
<1>2. CASE SpectralStep
  <2>1. /\ pc \notin {"assemble", "done"} /\ pc' \notin {"assemble", "done"}
        /\ UNCHANGED planVars
    BY <1>2 DEF SpectralStep, Spectral, Bisect, EndSpectral, Partition, Resolved
  <2> QED
    BY <2>1, BeforePlan DEF planVars
<1>3. CASE Manual \/ DivideByZero
  <2>1. /\ pc \notin {"assemble", "done"} /\ pc' \notin {"assemble", "done"}
        /\ UNCHANGED planVars
    BY <1>3 DEF Manual, DivideByZero, Partition, Resolved
  <2> QED
    BY <2>1, BeforePlan DEF planVars
<1> QED
  BY <1>1, <1>2, <1>3

LEMMA SinglePlan == ASSUME Inv, PlanInv, SinglePartition PROVE PlanInv'
<1>1. /\ circuit' = circuit /\ Qubits' = Qubits /\ circuit \in Circuits
  BY Frame DEF SinglePartition, Inv, TypeOK
<1>2. pc' = "done" /\ k' = 1 /\ deps' = <<>> /\ cost'.cut = 0
  BY DEF SinglePartition, Resolved, PlanInv
<1>3. /\ parts' = [p \in {0} |-> Qubits]
      /\ entries'[0].boundary = {}
  BY DEF SinglePartition, NoPlan
<1>4. Undivided'
  BY <1>1, <1>2, <1>3 DEF Undivided
<1> QED
  BY <1>2, <1>4 DEF PlanInv

\* The assembly starts with nothing visited.
LEMMA EvaluatePlan == ASSUME Inv, PlanInv, Evaluate PROVE PlanInv'
<1>1. /\ circuit' = circuit /\ parts' = parts /\ k' = k
      /\ pc = "evaluate" /\ pc' = "assemble" /\ cursor' = <<0, 1>>
      /\ entries' = [p \in DOMAIN parts |-> NoPlan]
      /\ deps' = deps /\ cost'.cut = Cardinality(CutPairs)
  BY DEF Evaluate, arguments, CutPairs
<1>2. /\ Sets(k) /\ circuit \in Circuits /\ k \in Nat /\ deps = <<>>
  BY <1>1, CircuitFacts DEF Inv, Loops, TypeOK, PlanInv, AtLeast
<1>3. /\ Gates' = Gates /\ Keys' = Keys /\ CutPairs' = CutPairs
      /\ \A e : Across(e)' = Across(e)
  BY <1>1, SameSets
<1>4. \A p \in DOMAIN parts, g \in Gates : ~Visited(p, g)'
  <2>1. DOMAIN parts = 0..k - 1 /\ Gates = 1..Len(circuit.gates) /\ Len(circuit.gates) \in Nat
    BY <1>2, CircuitFacts DEF Sets
  <2> QED
    BY <1>1, <1>2, <2>1 DEF Visited
<1>5. \A p \in DOMAIN parts : LocalSeen(p)' = {} /\ InterSeen(p)' = {}
  BY <1>3, <1>4 DEF LocalSeen, InterSeen
<1>6. \A e \in Keys : SeenAcross(e)' = {}
  <2>1. ASSUME NEW e \in Keys PROVE SeenAcross(e)' = {}
    <3>1. e[1] \in DOMAIN parts /\ e[2] \in DOMAIN parts
      BY DEF Keys
    <3>2. Across(e) \subseteq Gates
      BY DEF Across
    <3> QED
      BY <1>3, <1>4, <3>1, <3>2 DEF SeenAcross
  <2> QED
    BY <2>1
<1>7. EntriesSoFar'
  <2>1. \A p \in DOMAIN parts : /\ Cardinality(LocalSeen(p))' = 0
                                /\ Cardinality(InterSeen(p))' = 0
                                /\ (parts[p] \cap Operands(InterSeen(p)))' = {}
    BY <1>1, <1>5, FS_EmptySet DEF Operands
  <2> QED
    BY <1>1, <2>1 DEF EntriesSoFar, NoPlan
<1>8. DepsSoFar'
  BY <1>1, <1>2, <1>3, <1>6 DEF DepsSoFar
<1> QED
  BY <1>1, <1>3, <1>7, <1>8 DEF PlanInv

\* What holds while the plan is assembled.
LEMMA Assembling ==
    ASSUME Inv, PlanInv, pc = "assemble"
    PROVE  /\ Divided /\ EntriesSoFar /\ DepsSoFar
           /\ k \in Nat /\ k >= 2 /\ DOMAIN parts = 0..k - 1
           /\ cursor \in Nat \X Nat /\ cursor[2] > 0
           /\ cost.cut = Cardinality(CutPairs)
<1>1. circuit \in Circuits /\ n \in Nat
  BY CircuitFacts DEF Inv, TypeOK
<1>2. Resolution /\ Sets(k) /\ Placed = Qubits
  BY DEF Inv, Loops, Working
<1>3. cursor \in (0..AtLeast(1, n)) \X Nat /\ AtLeast(1, n) \in Nat
  BY <1>1 DEF Inv, TypeOK, AtLeast
<1> QED
  BY <1>1, <1>2, <1>3 DEF PlanInv, Divided, Resolution, Sets

LEMMA VisitPlan == ASSUME Inv, PlanInv, Visit PROVE PlanInv'
<1>1. /\ circuit' = circuit /\ parts' = parts
      /\ pc = "assemble" /\ pc' = "assemble" /\ cost' = cost
      /\ cursor' = <<cursor[1], cursor[2] + 1>>
  BY DEF Visit, arguments
<1>2. /\ Divided /\ EntriesSoFar /\ DepsSoFar /\ k \in Nat
      /\ cursor \in Nat \X Nat /\ cursor[2] > 0
      /\ cost.cut = Cardinality(CutPairs)
  BY <1>1, Assembling
<1>3. EntriesSoFar' /\ DepsSoFar'
  BY <1>2, VisitEntries, VisitDeps
<1>4. cost'.cut = Cardinality(CutPairs)'
  BY <1>1, <1>2, SameSets
<1>5. cursor'[2] > 0
  BY <1>1, <1>2
<1> QED
  BY <1>1, <1>3, <1>4, <1>5 DEF PlanInv

LEMMA NextPlan == ASSUME Inv, PlanInv, NextPartition PROVE PlanInv'
<1>1. /\ circuit' = circuit /\ parts' = parts /\ entries' = entries /\ deps' = deps
      /\ pc = "assemble" /\ pc' = "assemble" /\ cost' = cost
      /\ cursor' = <<cursor[1] + 1, 1>> /\ cursor[2] \notin Gates
  BY DEF NextPartition, arguments
<1>2. /\ Divided /\ EntriesSoFar /\ DepsSoFar /\ k \in Nat /\ DOMAIN parts = 0..k - 1
      /\ cursor \in Nat \X Nat /\ cursor[2] > 0
      /\ cost.cut = Cardinality(CutPairs)
  BY <1>1, Assembling
<1>3. Gates = 1..Len(circuit.gates) /\ Len(circuit.gates) \in Nat
  BY <1>2, CircuitFacts DEF Divided
<1>4. \A p \in DOMAIN parts, g \in Gates : Visited(p, g)' <=> Visited(p, g)
  BY <1>1, <1>2, <1>3 DEF Visited
<1>5. EntriesSoFar' /\ DepsSoFar'
  BY <1>1, <1>2, <1>4, SameVisits
<1>6. cost'.cut = Cardinality(CutPairs)'
  BY <1>1, <1>2, SameSets
<1> QED
  BY <1>1, <1>5, <1>6 DEF PlanInv

LEMMA FinishPlan == ASSUME Inv, PlanInv, Finish PROVE PlanInv'
<1>1. /\ circuit' = circuit /\ parts' = parts /\ entries' = entries /\ deps' = deps
      /\ pc = "assemble" /\ pc' = "done" /\ cost' = cost /\ k' = k
      /\ cursor' = cursor /\ cursor[1] \notin DOMAIN parts
  BY DEF Finish, arguments, planVars
<1>2. /\ Divided /\ EntriesSoFar /\ DepsSoFar
      /\ k \in Nat /\ k >= 2 /\ DOMAIN parts = 0..k - 1
      /\ cursor \in Nat \X Nat
      /\ cost.cut = Cardinality(CutPairs)
  BY <1>1, Assembling
<1>3. \A p \in DOMAIN parts, g \in Gates : Visited(p, g)' <=> Visited(p, g)
  BY <1>1 DEF Visited
<1>4. EntriesSoFar' /\ DepsSoFar'
  BY <1>1, <1>2, <1>3, SameVisits
<1>5. /\ cost'.cut = Cardinality(CutPairs)' /\ Divided' /\ Gates' = Gates
  BY <1>1, <1>2, SameSets
<1>6. AllVisited'
  BY <1>1, <1>2, <1>5 DEF AllVisited, Visited
<1> QED
  BY <1>1, <1>2, <1>4, <1>5, <1>6 DEF PlanInv

LEMMA StutterPlan == ASSUME PlanInv, UNCHANGED vars PROVE PlanInv'
<1>1. /\ circuit' = circuit /\ parts' = parts /\ entries' = entries /\ deps' = deps
      /\ pc' = pc /\ cost' = cost /\ k' = k /\ cursor' = cursor
  BY DEF vars, arguments, planVars
<1>2. \A p \in DOMAIN parts, g \in Gates : Visited(p, g)' <=> Visited(p, g)
  BY <1>1 DEF Visited
<1>3. EntriesSoFar /\ DepsSoFar => EntriesSoFar' /\ DepsSoFar'
  BY <1>1, <1>2, SameVisits
<1>4. /\ CutPairs' = CutPairs /\ Gates' = Gates /\ Qubits' = Qubits /\ (Divided => Divided')
  BY <1>1, SameSets
<1>5. (AllVisited => AllVisited') /\ (Undivided => Undivided')
  BY <1>1, <1>2, <1>4 DEF AllVisited, Undivided
<1> QED
  BY <1>1, <1>3, <1>4, <1>5 DEF PlanInv

LEMMA PlanInductive == Inv /\ PlanInv /\ [Next]_vars => PlanInv'
<1> SUFFICES ASSUME Inv, PlanInv, [Next]_vars PROVE PlanInv'
  OBVIOUS
<1>1. CASE GreedyStep \/ SpectralStep \/ Manual \/ DivideByZero
  BY <1>1, HeuristicsPlan
<1>2. CASE PlanStep
  BY <1>2, EvaluatePlan, VisitPlan, NextPlan, FinishPlan DEF PlanStep
<1>3. CASE SinglePartition
  BY <1>3, SinglePlan
<1>4. CASE UNCHANGED vars
  BY <1>4, StutterPlan
<1> QED
  BY <1>1, <1>2, <1>3, <1>4 DEF Next

LEMMA AlwaysPlan == Spec => []PlanInv
BY AlwaysInv, InitPlan, PlanInductive, PTL DEF Spec

-------------------------------------------------------------------------------
(* The properties *)
\* After all visits, the gates seen in a partition alone are its subcircuit, and
\* the others seen there are those that it shares.
LEMMA AllSeen ==
    ASSUME Divided, AllVisited
    PROVE  /\ \A p \in DOMAIN parts :
                 /\ LocalSeen(p) = Subcircuit(p)
                 /\ InterSeen(p) = {g \in Gates : p \in Touched(g)} \ Subcircuit(p)
           /\ \A e \in Keys : SeenAcross(e) = Across(e)
<1>1. \A p \in DOMAIN parts : \A g \in Gates : Touched(g) = {p} <=> Gate(g) \subseteq parts[p]
  <2> SUFFICES ASSUME NEW p \in DOMAIN parts, NEW g \in Gates
               PROVE  Touched(g) = {p} <=> Gate(g) \subseteq parts[p]
    OBVIOUS
  <2>1. /\ Gate(g) \subseteq Qubits /\ Gate(g) # {}
        /\ \A q \in Gate(g) : q \in parts[Lookup(q)]
        /\ \A q \in parts[p] : Lookup(q) = p
    BY CircuitFacts, LookedUp DEF Divided
  <2>2. Touched(g) = {p} => Gate(g) \subseteq parts[p]
    BY <2>1 DEF Touched
  <2>3. Gate(g) \subseteq parts[p] => Touched(g) = {p}
    BY <2>1 DEF Touched
  <2> QED
    BY <2>2, <2>3
<1>2. \A p \in DOMAIN parts : LocalSeen(p) = Subcircuit(p)
  BY <1>1 DEF LocalSeen, Subcircuit, AllVisited
<1>3. \A p \in DOMAIN parts :
         InterSeen(p) = {g \in Gates : p \in Touched(g)} \ Subcircuit(p)
  BY <1>1 DEF InterSeen, Subcircuit, AllVisited
<1>4. \A e \in Keys : SeenAcross(e) = Across(e)
  BY DEF SeenAcross, Across, Keys, AllVisited
<1> QED
  BY <1>2, <1>3, <1>4

\* Each gate is in one subcircuit or on the edges between all sets it touches.
THEOREM AllGatesAccounted == Spec => []GatesAccounted
<1>1. Inv /\ PlanInv => GatesAccounted
  <2> SUFFICES ASSUME Inv, PlanInv, pc = "done", k > 1 PROVE GatesAccounted
    BY DEF GatesAccounted
  <2>1. Divided /\ AllVisited /\ EntriesSoFar /\ DepsSoFar
    BY DEF PlanInv
  <2>2. \A p \in DOMAIN parts :
           /\ entries[p].local = Cardinality(Subcircuit(p))
           /\ entries[p].inter = Cardinality({g \in Gates : p \in Touched(g)} \ Subcircuit(p))
    <3>1. \A p \in DOMAIN parts : /\ entries[p].local = Cardinality(LocalSeen(p))
                                  /\ entries[p].inter = Cardinality(InterSeen(p))
      BY <2>1 DEF EntriesSoFar
    <3> QED
      BY <2>1, <3>1, AllSeen
  <2>3. ASSUME NEW g \in Gates, Cardinality(Touched(g)) = 1
        PROVE  \E p \in DOMAIN parts : g \in Subcircuit(p)
    <3>1. Touched(g) \subseteq DOMAIN parts /\ Touched(g) # {}
      BY <2>1, LookedUp
    <3>2. IsFiniteSet(Touched(g))
      <4>1. IsFiniteSet(0..k - 1)
        BY FS_Interval, CircuitFacts DEF Inv, TypeOK, AtLeast
      <4> QED
        BY <2>1, <3>1, <4>1, FS_Subset DEF Divided, Sets
    <3>3. PICK p : Touched(g) = {p}
      BY <2>3, <3>2, FS_Singleton
    <3>4. p \in DOMAIN parts /\ g \in LocalSeen(p)
      BY <2>1, <3>1, <3>3 DEF LocalSeen, AllVisited
    <3> QED
      BY <2>1, <3>4, AllSeen
  <2>4. ASSUME NEW g \in Gates, NEW p \in Touched(g), NEW r \in Touched(g), p < r
        PROVE  <<p, r>> \in DOMAIN deps
    <3>1. Touched(g) \subseteq DOMAIN parts
      BY <2>1, LookedUp
    <3>2. <<p, r>> \in Keys /\ g \in Across(<<p, r>>)
      BY <2>4, <3>1 DEF Keys, Across
    <3>3. SeenAcross(<<p, r>>) # {}
      BY <2>1, <3>2, AllSeen
    <3> QED
      BY <2>1, <3>2, <3>3 DEF DepsSoFar
  <2> QED
    BY <2>2, <2>3, <2>4 DEF GatesAccounted
<1> QED
  BY <1>1, AlwaysInv, AlwaysPlan, PTL

\* The boundary of a partition is what its edges share of it.
THEOREM BoundariesShared == Spec => []BoundariesAreShared
<1>1. Inv /\ PlanInv => BoundariesAreShared
  <2> SUFFICES ASSUME Inv, PlanInv, pc = "done", NEW p \in DOMAIN parts
               PROVE  entries[p].boundary = parts[p] \cap
                         UNION {deps[e].shared : e \in {f \in DOMAIN deps : p \in {f[1], f[2]}}}
    BY DEF BoundariesAreShared
  <2> DEFINE edges == {f \in DOMAIN deps : p \in {f[1], f[2]}}
  <2>1. CASE k = 1
    <3>1. Undivided
      BY <2>1 DEF PlanInv
    <3>2. p = 0 /\ edges = {} /\ entries[p].boundary = {}
      BY <3>1 DEF Undivided
    <3> QED
      BY <3>2
  <2>2. CASE k # 1
    <3>1. Divided /\ AllVisited /\ EntriesSoFar /\ DepsSoFar
      BY <2>2 DEF PlanInv
    <3>2. entries[p].boundary = parts[p] \cap Operands(InterSeen(p))
      BY <3>1 DEF EntriesSoFar
    <3>3. /\ \A e \in edges : deps[e].shared \cap Either(e) = Operands(Across(e)) \cap Either(e)
          /\ edges = {e \in Keys : Across(e) # {} /\ p \in {e[1], e[2]}}
      BY <3>1, AllSeen DEF DepsSoFar
    <3>4. \A e \in edges : parts[p] \cap deps[e].shared = parts[p] \cap Operands(Across(e))
      <4>1. \A e \in edges : parts[p] \subseteq Either(e)
        BY DEF Either
      <4> QED
        BY <3>3, <4>1
    <3>5. ASSUME NEW e \in edges PROVE Across(e) \subseteq InterSeen(p)
      <4>1. /\ e[1] # e[2]
            /\ \A g \in Across(e) : g \in Gates /\ e[1] \in Touched(g) /\ e[2] \in Touched(g)
        <5>1. e[1] \in Int /\ e[2] \in Int /\ e[1] < e[2]
          BY <3>1, <3>3 DEF Keys, Divided, Sets
        <5> QED
          BY <5>1 DEF Across
      <4> QED
        BY <3>1, <4>1 DEF InterSeen, AllVisited
    <3>6. ASSUME NEW g \in InterSeen(p) PROVE \E e \in edges : g \in Across(e)
      <4>1. g \in Gates /\ p \in Touched(g) /\ Touched(g) # {p}
        BY DEF InterSeen
      <4>2. PICK r \in Touched(g) : r # p
        BY <4>1
      <4>3. Touched(g) \subseteq DOMAIN parts /\ DOMAIN parts \subseteq Int
        BY <3>1, <4>1, LookedUp DEF Divided, Sets
      <4>4. CASE p < r
        <5>1. <<p, r>> \in Keys /\ g \in Across(<<p, r>>)
          BY <4>1, <4>2, <4>3, <4>4 DEF Keys, Across
        <5> QED
          BY <3>3, <5>1
      <4>5. CASE r < p
        <5>1. <<r, p>> \in Keys /\ g \in Across(<<r, p>>)
          BY <4>1, <4>2, <4>3, <4>5 DEF Keys, Across
        <5> QED
          BY <3>3, <5>1
      <4> QED
        BY <4>2, <4>3, <4>4, <4>5
    <3>7. parts[p] \cap Operands(InterSeen(p)) =
             parts[p] \cap UNION {deps[e].shared : e \in edges}
      <4> HIDE DEF edges
      <4>1. ASSUME NEW q \in parts[p], q \in Operands(InterSeen(p))
            PROVE  q \in UNION {deps[e].shared : e \in edges}
        <5>1. PICK g \in InterSeen(p) : q \in Gate(g)
          BY <4>1 DEF Operands
        <5>2. PICK e \in edges : g \in Across(e)
          BY <3>6
        <5>3. q \in deps[e].shared
          BY <3>4, <5>1, <5>2 DEF Operands
        <5> QED
          BY <5>3
      <4>2. ASSUME NEW q \in parts[p], q \in UNION {deps[e].shared : e \in edges}
            PROVE  q \in Operands(InterSeen(p))
        <5>1. PICK e \in edges : q \in deps[e].shared
          BY <4>2
        <5>2. q \in Operands(Across(e))
          BY <3>4, <5>1
        <5> QED
          BY <3>5, <5>2 DEF Operands
      <4> QED
        BY <4>1, <4>2
    <3> QED
      BY <3>2, <3>7
  <2> QED
    BY <2>1, <2>2
<1> QED
  BY <1>1, AlwaysInv, AlwaysPlan, PTL

-------------------------------------------------------------------------------
(* Counting the inter-module gates *)
\* A finite set with two different elements has more than one, and is these two
\* if it has no more than two.
LEMMA TwoElements ==
    ASSUME NEW S, IsFiniteSet(S), NEW a \in S, NEW b \in S, a # b
    PROVE  /\ Cardinality(S) > 1
           /\ Cardinality(S) <= 2 => S = {a, b}
<1>1. IsFiniteSet({a}) /\ Cardinality({a}) = 1
  BY FS_Singleton
<1>2. IsFiniteSet({a} \cup {b}) /\ Cardinality({a} \cup {b}) = 2
  <2> DEFINE A == {a}
  <2>1. b \notin A /\ IsFiniteSet(A) /\ Cardinality(A) = 1
    BY <1>1
  <2> HIDE DEF A
  <2>2. IsFiniteSet(A \cup {b}) /\ Cardinality(A \cup {b}) = Cardinality(A) + 1
    BY ONLY <2>1, FS_AddElement
  <2> QED BY <2>1, <2>2 DEF A
<1>3. {a} \cup {b} = {a, b} /\ {a, b} \in SUBSET S
  OBVIOUS
<1>4. IsFiniteSet({a, b}) /\ Cardinality({a, b}) = 2
  BY <1>2, <1>3
<1>5. /\ Cardinality({a, b}) <= Cardinality(S)
      /\ Cardinality({a, b}) = Cardinality(S) => S = {a, b}
  BY <1>3, FS_Subset
<1>6. Cardinality(S) \in Nat
  BY FS_CardinalityType
<1> QED
  BY <1>4, <1>5, <1>6

\* The pairs of a partition and a gate it shares with others.
Shares == {e \in (DOMAIN parts) \X Gates :
              e[1] \in Touched(e[2]) /\ Cardinality(Touched(e[2])) > 1}

\* The gates and the sets a gate touches are finitely many.
LEMMA FinitelyMany ==
    ASSUME Divided, k \in Nat
    PROVE  /\ IsFiniteSet(CutPairs)
           /\ \A g \in Gates : IsFiniteSet(Gate(g)) /\ IsFiniteSet(Touched(g))
<1>1. IsFiniteSet(Qubits) /\ IsFiniteSet(Gates) /\ \A g \in Gates : Gate(g) \in SUBSET Qubits
  BY CircuitFacts DEF Divided
<1>2. IsFiniteSet(Qubits \X Qubits)
  BY <1>1, FS_Product
<1>3. IsFiniteSet(Gates \X (Qubits \X Qubits))
  BY <1>1, <1>2, FS_Product
<1>4. CutPairs \in SUBSET (Gates \X (Qubits \X Qubits))
  BY DEF CutPairs
<1>5. IsFiniteSet(CutPairs)
  BY <1>3, <1>4, FS_Subset
<1>6. IsFiniteSet(DOMAIN parts)
  BY FS_Interval DEF Divided, Sets
<1>7. \A g \in Gates : Touched(g) \in SUBSET DOMAIN parts
  BY LookedUp
<1>8. \A g \in Gates : IsFiniteSet(Gate(g)) /\ IsFiniteSet(Touched(g))
  BY <1>1, <1>6, <1>7, FS_Subset
<1> QED
  BY <1>5, <1>8

\* A cut pair of qubits is all that its gate acts on, and the gate touches the
\* two sets that hold them.
LEMMA CutPair ==
    ASSUME Divided, k \in Nat, \A g \in Gates : Cardinality(Gate(g)) <= 2,
           NEW e \in CutPairs
    PROVE  LET g == e[1]
               a == e[2][1]
               b == e[2][2]
           IN  /\ g \in Gates /\ a \in Qubits /\ b \in Qubits /\ a < b
               /\ e = <<g, <<a, b>>>> /\ Gate(g) = {a, b}
               /\ Lookup(a) # Lookup(b)
               /\ <<Lookup(a), g>> \in Shares /\ <<Lookup(b), g>> \in Shares
<1> DEFINE g == e[1]
           a == e[2][1]
           b == e[2][2]
<1>1. /\ g \in Gates /\ a \in Qubits /\ b \in Qubits /\ e = <<g, <<a, b>>>>
      /\ a \in Gate(g) /\ b \in Gate(g) /\ a < b /\ Lookup(a) # Lookup(b)
  BY DEF CutPairs, Pairs
<1>2. a # b
  BY <1>1, CircuitFacts DEF Divided, Qubits
<1>3. Gate(g) = {a, b}
  BY <1>1, <1>2, FinitelyMany, TwoElements
<1>4. /\ Lookup(a) \in Touched(g) /\ Lookup(b) \in Touched(g)
      /\ Lookup(a) \in DOMAIN parts /\ Lookup(b) \in DOMAIN parts
  BY <1>1, LookedUp DEF Touched
<1>5. Cardinality(Touched(g)) > 1
  BY <1>1, <1>4, FinitelyMany, TwoElements
<1> QED
  BY <1>1, <1>3, <1>4, <1>5 DEF Shares

\* If no gate has more than two qubits, each cut pair is shared by two sets.
LEMMA SharedTwice ==
    ASSUME Divided, k \in Nat, \A g \in Gates : Cardinality(Gate(g)) <= 2
    PROVE  Cardinality(Shares) = 2 * Cardinality(CutPairs)
<1> DEFINE first == [e \in CutPairs |-> <<Lookup(e[2][1]), e[1]>>]
           second == [e \in CutPairs |-> <<Lookup(e[2][2]), e[1]>>]
           firsts == {first[e] : e \in CutPairs}
           seconds == {second[e] : e \in CutPairs}
<1>1. \A d, e \in CutPairs : d[1] = e[1] => d = e
  <2> SUFFICES ASSUME NEW d \in CutPairs, NEW e \in CutPairs, d[1] = e[1] PROVE d = e
    OBVIOUS
  <2>1. /\ d = <<d[1], <<d[2][1], d[2][2]>>>> /\ Gate(d[1]) = {d[2][1], d[2][2]}
        /\ d[2][1] < d[2][2] /\ d[2][1] \in Qubits /\ d[2][2] \in Qubits
    BY CutPair
  <2>2. /\ e = <<e[1], <<e[2][1], e[2][2]>>>> /\ Gate(e[1]) = {e[2][1], e[2][2]}
        /\ e[2][1] < e[2][2] /\ e[2][1] \in Qubits /\ e[2][2] \in Qubits
    BY CutPair
  <2>3. d[2][1] \in Int /\ d[2][2] \in Int /\ e[2][1] \in Int /\ e[2][2] \in Int
    BY <2>1, <2>2, CircuitFacts DEF Divided, Qubits
  <2>4. {d[2][1], d[2][2]} = {e[2][1], e[2][2]}
    BY <2>1, <2>2
  <2>5. d[2][1] = e[2][1] /\ d[2][2] = e[2][2]
    BY <2>1, <2>2, <2>3, <2>4
  <2> QED
    BY <2>1, <2>2, <2>5
<1>2. first \in Injection(CutPairs, firsts) /\ second \in Injection(CutPairs, seconds)
  BY <1>1 DEF Injection, IsInjective
<1>3. first \in Surjection(CutPairs, firsts) /\ second \in Surjection(CutPairs, seconds)
  BY DEF Surjection
<1>4. IsFiniteSet(CutPairs)
  BY FinitelyMany
<1>5. firsts \cap seconds = {}
  <2> SUFFICES ASSUME NEW d \in CutPairs, NEW e \in CutPairs, first[d] = second[e]
               PROVE  FALSE
    OBVIOUS
  <2>1. d[1] = e[1] /\ Lookup(d[2][1]) = Lookup(e[2][2])
    OBVIOUS
  <2>2. d = e
    BY <1>1, <2>1
  <2> QED
    BY <2>1, <2>2, CutPair
<1>6. firsts \cup seconds \subseteq Shares
  BY CutPair
<1>7. Shares \subseteq firsts \cup seconds
  <2> SUFFICES ASSUME NEW s \in Shares PROVE s \in firsts \cup seconds
    OBVIOUS
  <2>1. PICK p \in DOMAIN parts, g \in Gates : s = <<p, g>>
    BY DEF Shares
  <2>2. p \in Touched(g) /\ Cardinality(Touched(g)) > 1
    BY <2>1 DEF Shares
  <2>3. PICK r \in Touched(g) : r # p
    <3>1. Cardinality({p}) = 1
      BY FS_Singleton
    <3>2. Touched(g) # {p}
      BY <2>2, <3>1
    <3> QED
      BY <2>2, <3>2
  <2>4. PICK x \in Gate(g), y \in Gate(g) : Lookup(x) = p /\ Lookup(y) = r
    BY <2>2, <2>3 DEF Touched
  <2>5. x \in Qubits /\ y \in Qubits /\ x # y
    BY <2>3, <2>4, CircuitFacts DEF Divided
  <2>6. x \in Int /\ y \in Int
    BY <2>5, CircuitFacts DEF Divided, Qubits
  <2>7. CASE x < y
    <3>1. <<g, <<x, y>>>> \in CutPairs
      BY <2>3, <2>4, <2>5, <2>7 DEF CutPairs, Pairs
    <3>2. first[<<g, <<x, y>>>>] = s
      BY <2>1, <2>4, <3>1
    <3> QED
      BY <3>1, <3>2
  <2>8. CASE y < x
    <3>1. <<g, <<y, x>>>> \in CutPairs
      BY <2>3, <2>4, <2>5, <2>8 DEF CutPairs, Pairs
    <3>2. second[<<g, <<y, x>>>>] = s
      BY <2>1, <2>4, <3>1
    <3> QED
      BY <3>1, <3>2
  <2> QED
    BY <2>5, <2>6, <2>7, <2>8
<1> HIDE DEF first, second, firsts, seconds
<1>8. /\ IsFiniteSet(firsts) /\ Cardinality(firsts) = Cardinality(CutPairs)
      /\ IsFiniteSet(seconds) /\ Cardinality(seconds) = Cardinality(CutPairs)
  BY <1>2, <1>3, <1>4, FS_Surjection
<1>9. /\ Cardinality(firsts \cup seconds) =
            Cardinality(firsts) + Cardinality(seconds) - Cardinality(firsts \cap seconds)
      /\ Cardinality(firsts \cap seconds) = 0
      /\ Cardinality(CutPairs) \in Nat
  BY <1>4, <1>5, <1>8, FS_Union, FS_EmptySet, FS_CardinalityType
<1>10. Shares = firsts \cup seconds
  BY <1>6, <1>7
<1> QED
  BY <1>8, <1>9, <1>10

\* The cost model and the assembly count the same inter-module gates.
THEOREM CountsAlwaysAgree == Spec => []CountsAgree
<1>1. Inv /\ PlanInv => CountsAgree
  <2> SUFFICES ASSUME Inv, PlanInv, pc = "done", \A g \in Gates : Cardinality(Gate(g)) <= 2
               PROVE  2 * cost.cut = Cardinality(Shares)
    BY DEF CountsAgree, Shares
  <2>1. CASE k = 1
    <3>1. Undivided
      BY <2>1 DEF PlanInv
    <3>2. DOMAIN parts = {0} /\ circuit \in Circuits
      BY <3>1 DEF Undivided
    <3>3. \A g \in Gates : Gate(g) \subseteq Qubits
      BY <3>2, CircuitFacts
    <3>4. \A q \in Qubits : Lookup(q) = 0
      BY <3>1, <3>2 DEF Lookup, Undivided
    <3>5. \A g \in Gates : Touched(g) \in SUBSET {0}
      BY <3>3, <3>4 DEF Touched
    <3>6. \A g \in Gates : ~(Cardinality(Touched(g)) > 1)
      <4>1. IsFiniteSet({0}) /\ Cardinality({0}) = 1
        BY FS_Singleton
      <4> QED
        BY <3>5, <4>1, FS_Subset, FS_CardinalityType
    <3>7. Shares = {}
      BY <3>6 DEF Shares
    <3> QED
      BY <3>1, <3>7, FS_EmptySet DEF Undivided
  <2>2. CASE k # 1
    <3>1. Divided /\ cost.cut = Cardinality(CutPairs) /\ k \in Nat
      BY <2>2, CircuitFacts DEF PlanInv, Inv, TypeOK, AtLeast
    <3> QED
      BY <3>1, SharedTwice
  <2> QED
    BY <2>1, <2>2
<1> QED
  BY <1>1, AlwaysInv, AlwaysPlan, PTL

-------------------------------------------------------------------------------
(* Qubits are spread evenly where nothing couples them, or the manual strategy *)
(* does not look: a greedy step puts a qubit without couplings in a smallest   *)
(* set, so that the sizes stay within one, and the residue classes of the      *)
(* manual strategy differ by at most one.                                      *)
Strategy == SelectStrategy(request)
Uncoupled == \A q \in Qubits : Degree(q) = 0
Even == \A p, r \in DOMAIN parts : Size(p) <= Size(r) + 1

BalanceInv ==
    /\ pc \in {"spread", "fill", "grow"} => Strategy = "greedy"
    /\ pc = "bisect" => Strategy = "spectral"
    /\ pc = "grow" /\ Uncoupled => Even
    /\ pc \in {"evaluate", "assemble", "done"} /\ k > 1 =>
          (request.strategy = "manual" \/ (Strategy = "greedy" /\ Uncoupled) => Even)

-------------------------------------------------------------------------------
(* Residues *)
LEMMA Division ==
    ASSUME NEW b \in Nat, b > 0, NEW x \in Int
    PROVE  /\ x \div b \in Int /\ x % b \in 0..b - 1
           /\ x = (b * (x \div b)) + (x % b)
OBVIOUS

LEMMA Multiples ==
    ASSUME NEW b \in Nat, NEW s \in Int, NEW t \in Int, s < t
    PROVE  b * s \in Int /\ b * t \in Int /\ b * s + b <= b * t
OBVIOUS

\* Quotient and remainder are unique.
LEMMA Remainders ==
    ASSUME NEW b \in Nat, b > 0, NEW t \in Int, NEW u \in Int,
           NEW r \in 0..b - 1, NEW s \in 0..b - 1, b * t + r = b * u + s
    PROVE  t = u /\ r = s
<1>1. ~(t < u)
  <2> SUFFICES ASSUME t < u PROVE FALSE
    OBVIOUS
  <2>1. b * t \in Int /\ b * u \in Int /\ b * t + b <= b * u
    BY Multiples
  <2> QED
    BY <2>1
<1>2. ~(u < t)
  <2> SUFFICES ASSUME u < t PROVE FALSE
    OBVIOUS
  <2>1. b * t \in Int /\ b * u \in Int /\ b * u + b <= b * t
    BY Multiples
  <2> QED
    BY <2>1
<1>3. t = u /\ b * t \in Int
  BY <1>1, <1>2
<1> QED
  BY <1>3

\* The numbers below m with one remainder are at most one more than those with
\* another: each but the first has one of the others below it.
LEMMA ResidueClasses ==
    ASSUME NEW m \in Nat, NEW b \in Nat, b > 0, NEW p \in 0..b - 1, NEW r \in 0..b - 1
    PROVE  Cardinality({q \in 0..m - 1 : q % b = p}) <=
               Cardinality({q \in 0..m - 1 : q % b = r}) + 1
<1> DEFINE P == {q \in 0..m - 1 : q % b = p}
           R == {q \in 0..m - 1 : q % b = r}
           below == [q \in P \ {p} |-> q - p + r - b]
<1>1. IsFiniteSet(0..m - 1)
  BY FS_Interval
<1>2. P \in SUBSET (0..m - 1) /\ R \in SUBSET (0..m - 1)
  OBVIOUS
<1>3. IsFiniteSet(P) /\ IsFiniteSet(R) /\ Cardinality(P) \in Nat /\ Cardinality(R) \in Nat
  <2> HIDE DEF P, R
  <2> QED
    BY <1>1, <1>2, FS_Subset, FS_CardinalityType
<1>4. ASSUME NEW q \in P \ {p} PROVE q - p + r - b \in R
  <2>1. q \in Nat /\ q <= m - 1 /\ q % b = p /\ q # p
    OBVIOUS
  <2>2. q \div b \in Int /\ q = (b * (q \div b)) + p
    BY <2>1, Division
  <2> DEFINE t == (q \div b) - 1
  <2>3. t \in Int /\ t + 1 = q \div b
    BY <2>2
  <2> HIDE DEF t
  <2>4. b * (t + 1) = b * t + b /\ b * t \in Int
    BY <2>3
  <2>5. q = b * t + b + p
    BY <2>2, <2>3, <2>4
  <2>6. t >= 0
    <3> SUFFICES ASSUME t < 0 PROVE FALSE
      BY <2>3
    <3>1. t = -1 \/ t < -1
      BY <2>3
    <3>2. CASE t = -1
      <4>1. b * t = -b
        BY <3>2
      <4> QED
        BY <2>1, <2>5, <4>1
    <3>3. CASE t < -1
      <4>1. b * t + b <= b * (-1)
        BY <2>3, <3>3, Multiples
      <4>2. b * (-1) = -b
        OBVIOUS
      <4> QED
        BY <2>1, <2>4, <2>5, <4>1, <4>2
    <3> QED
      BY <3>1, <3>2, <3>3
  <2>7. b * t >= 0
    BY <2>3, <2>6
  <2> DEFINE x == b * t + r
  <2>8. x = q - p + r - b /\ x \in 0..m - 1
    <3> DEFINE y == b * t
    <3>1. y \in Int /\ q = y + b + p /\ y >= 0
      BY <2>4, <2>5, <2>7
    <3> HIDE DEF y
    <3>2. y + r = q - p + r - b /\ y + r \in 0..m - 1
      BY <2>1, <3>1
    <3> QED
      BY <3>2 DEF y
  <2>9. x % b = r
    <3>1. x \in Int /\ x \div b \in Int /\ x % b \in 0..b - 1 /\ x = (b * (x \div b)) + (x % b)
      BY <2>4, Division
    <3>2. b * t + r = b * (x \div b) + (x % b)
      BY <3>1
    <3> HIDE DEF x
    <3> QED
      BY <2>3, <3>1, <3>2, Remainders
  <2> QED
    BY <2>8, <2>9
<1>5. below \in Injection(P \ {p}, R)
  <2>1. below \in [P \ {p} -> R]
    BY <1>4
  <2>2. \A x, y \in P \ {p} : below[x] = below[y] => x = y
    OBVIOUS
  <2> QED
    BY <2>1, <2>2 DEF Injection, IsInjective
<1> HIDE DEF P, R, below
<1>6. Cardinality(P \ {p}) <= Cardinality(R)
  BY <1>3, <1>5, FS_Injection
<1>7. Cardinality(P \ {p}) = IF p \in P THEN Cardinality(P) - 1 ELSE Cardinality(P)
  BY <1>3, FS_RemoveElement
<1>8. Cardinality(P) <= Cardinality(R) + 1
  BY <1>3, <1>6, <1>7
<1> QED
  BY <1>8 DEF P, R

-------------------------------------------------------------------------------
(* The greedy step *)
\* Without couplings a score is the room that is left.
LEMMA ScoreIsRoom ==
    ASSUME circuit \in Circuits, NEW q \in Qubits, Degree(q) = 0,
           NEW p, parts[p] \in SUBSET (Qubits \ {q})
    PROVE  /\ Size(p) \in Nat /\ IsFiniteSet(parts[p])
           /\ Score(q, p) = n - Size(p)
<1>1. n \in Nat /\ IsFiniteSet(Qubits) /\ IsFiniteSet(Gates)
  BY CircuitFacts
<1>2. IsFiniteSet(Qubits \ {q})
  BY <1>1, FS_Difference
<1>3. IsFiniteSet(parts[p]) /\ Size(p) \in Nat
  BY <1>2, FS_Subset, FS_CardinalityType DEF Size
<1> DEFINE coupled(S) == {e \in Gates \X S : {q, e[2]} \subseteq Gate(e[1])}
           others == Qubits \ {q}
<1>4. coupled(others) = {}
  <2>1. IsFiniteSet(Gates \X others)
    BY <1>1, <1>2, FS_Product
  <2>2. coupled(others) \in SUBSET (Gates \X others)
    OBVIOUS
  <2>3. Cardinality(coupled(others)) = 0
    BY DEF Degree, Coupling
  <2> HIDE DEF coupled, others
  <2>4. IsFiniteSet(coupled(others))
    BY <2>1, <2>2, FS_Subset
  <2> QED
    BY <2>3, <2>4, FS_EmptySet
<1>5. coupled(parts[p]) = {}
  BY <1>4
<1>6. Coupling(q, parts[p]) = 0
  BY <1>5, FS_EmptySet DEF Coupling
<1> QED
  BY <1>1, <1>3, <1>6 DEF Score

\* A qubit without couplings goes to a smallest set.
LEMMA GrowEven ==
    ASSUME Inv, Grow, Uncoupled, Even
    PROVE  Even'
<1>1. /\ circuit \in Circuits /\ n \in Nat /\ k \in Nat /\ pc = "grow"
      /\ DOMAIN parts = 0..k - 1 /\ Placed = assigned /\ assigned \subseteq Qubits
  BY CircuitFacts DEF Inv, TypeOK, Loops, Grow, Sets, AtLeast
<1>2. PICK q \in Qubits \ assigned, p \in 0..k - 1 : Best(q, p) /\ Put(q, p)
  BY DEF Grow
<1>3. \A s \in 0..k - 1 : parts[s] \in SUBSET (Qubits \ {q}) /\ q \notin parts[s]
  BY <1>1, <1>2 DEF Placed
<1>4. \A s \in 0..k - 1 : /\ Size(s) \in Nat /\ IsFiniteSet(parts[s])
                          /\ Score(q, s) = n - Size(s)
  BY <1>1, <1>2, <1>3, ScoreIsRoom DEF Uncoupled
<1>5. \A s \in 0..k - 1 : Size(p) <= Size(s)
  <2>1. \A s \in 0..k - 1 : Score(q, s) <= Score(q, p)
    <3> SUFFICES ASSUME NEW s \in 0..k - 1 PROVE Score(q, s) <= Score(q, p)
      OBVIOUS
    <3>1. Score(q, s) \in Int /\ Score(q, p) \in Int
      BY <1>1, <1>2, <1>4
    <3>2. Score(q, s) < Score(q, p) \/ Score(q, s) = Score(q, p)
      BY <1>2 DEF Best
    <3> QED
      BY <3>1, <3>2
  <2> QED
    BY <1>1, <1>2, <1>4, <2>1
<1>6. /\ DOMAIN parts' = 0..k - 1
      /\ parts'[p] = parts[p] \cup {q}
      /\ \A s \in 0..k - 1 : s # p => parts'[s] = parts[s]
  BY <1>1, <1>2 DEF Put
<1>7. /\ Size(p)' = Size(p) + 1
      /\ \A s \in 0..k - 1 : s # p => Size(s)' = Size(s)
  <2>1. Cardinality(parts[p] \cup {q}) = Cardinality(parts[p]) + 1
    BY <1>2, <1>3, <1>4, FS_AddElement
  <2> QED
    BY <1>6, <2>1 DEF Size
<1>8. \A s, r \in 0..k - 1 : Size(s) <= Size(r) + 1
  BY <1>1 DEF Even
<1>9. \A s, r \in 0..k - 1 : Size(s)' <= Size(r)' + 1
  <2> SUFFICES ASSUME NEW s \in 0..k - 1, NEW r \in 0..k - 1
               PROVE  Size(s)' <= Size(r)' + 1
    OBVIOUS
  <2>1. CASE s = p /\ r = p
    BY <1>2, <1>4, <1>7, <2>1
  <2>2. CASE s = p /\ r # p
    BY <1>2, <1>4, <1>5, <1>7, <2>2
  <2>3. CASE s # p /\ r = p
    BY <1>2, <1>4, <1>7, <1>8, <2>3
  <2>4. CASE s # p /\ r # p
    BY <1>7, <1>8, <2>4
  <2> QED
    BY <2>1, <2>2, <2>3, <2>4
<1> QED
  BY <1>6, <1>9 DEF Even

-------------------------------------------------------------------------------
(* The steps *)
\* What the arguments say does not change.
LEMMA Same ==
    ASSUME UNCHANGED arguments
    PROVE  /\ Strategy' = Strategy /\ Uncoupled' = Uncoupled /\ request' = request
           /\ (parts' = parts => Even' = Even)
<1>1. circuit' = circuit /\ request' = request /\ n' = n /\ Qubits' = Qubits /\ Gates' = Gates
  BY Frame
<1>2. Strategy' = Strategy
  BY <1>1 DEF Strategy, SelectStrategy
<1>3. \A q : Degree(q)' = Degree(q)
  BY <1>1 DEF Degree, Coupling, Gate
<1>4. Uncoupled' = Uncoupled
  BY <1>1, <1>3 DEF Uncoupled
<1>5. parts' = parts => Even' = Even
  BY DEF Even, Size
<1> QED
  BY <1>1, <1>2, <1>4, <1>5

LEMMA InitBalance == Init => BalanceInv
BY DEF Init, BalanceInv

LEMMA GreedyBalance ==
    ASSUME Inv, Inv', BalanceInv, GreedyStep
    PROVE  BalanceInv'
<1>1. CASE Greedy
  <2>1. pc' = "spread" /\ Strategy = "greedy" /\ UNCHANGED arguments
    BY <1>1 DEF Greedy, Partition, Strategy
  <2> QED
    BY <2>1, Same DEF BalanceInv
<1>2. CASE Spread \/ EndSpread \/ Fill
  <2>1. pc \in {"spread", "fill"} /\ pc' \in {"spread", "fill"} /\ UNCHANGED arguments
    BY <1>2 DEF Spread, EndSpread, Fill
  <2> QED
    BY <2>1, Same DEF BalanceInv
<1>3. CASE PlaceSeeds
  <2>1. /\ pc = "fill" /\ pc' = "grow" /\ UNCHANGED arguments
        /\ parts' = [p \in 0..k - 1 |-> IF p < Len(seeds) THEN {seeds[p + 1]} ELSE {}]
    BY <1>3 DEF PlaceSeeds
  <2>2. \A p \in DOMAIN parts' : parts'[p] # {}
    BY <2>1 DEF Inv, Loops, Sets
  <2>3. \A p \in DOMAIN parts' : parts'[p] = {seeds[p + 1]}
    BY <2>1, <2>2
  <2>4. \A p \in DOMAIN parts' : Size(p)' = 1
    <3>1. \A x : Cardinality({x}) = 1
      BY FS_Singleton
    <3>2. \A p \in DOMAIN parts' : Size(p)' = Cardinality(parts'[p])
      BY DEF Size
    <3> QED
      BY <2>3, <3>1, <3>2
  <2>5. Even'
    BY <2>4 DEF Even
  <2> QED
    BY <2>1, <2>5, Same DEF BalanceInv
<1>4. CASE Grow
  <2>1. pc = "grow" /\ pc' = "grow" /\ UNCHANGED arguments
    BY <1>4 DEF Grow
  <2>2. Uncoupled => Even'
    BY <1>4, <2>1, GrowEven DEF BalanceInv
  <2> QED
    BY <2>1, <2>2, Same DEF BalanceInv
<1>5. CASE EndGreedy
  <2>1. pc = "grow" /\ pc' = "evaluate" /\ UNCHANGED arguments /\ parts' = parts
    BY <1>5 DEF EndGreedy
  <2>2. request.strategy = "manual" => Strategy # "greedy"
    BY DEF Strategy, SelectStrategy
  <2> QED
    BY <2>1, <2>2, Same DEF BalanceInv
<1> QED
  BY <1>1, <1>2, <1>3, <1>4, <1>5 DEF GreedyStep

LEMMA SpectralBalance ==
    ASSUME BalanceInv, SpectralStep
    PROVE  BalanceInv'
<1>1. CASE Spectral
  <2>1. pc' = "bisect" /\ Strategy = "spectral" /\ UNCHANGED arguments
    BY <1>1 DEF Spectral, Partition, Strategy
  <2> QED
    BY <2>1, Same DEF BalanceInv
<1>2. CASE Bisect
  <2>1. pc = "bisect" /\ pc' = "bisect" /\ UNCHANGED arguments
    BY <1>2 DEF Bisect
  <2> QED
    BY <2>1, Same DEF BalanceInv
<1>3. CASE EndSpectral
  <2>1. pc = "bisect" /\ pc' = "evaluate" /\ UNCHANGED arguments
    BY <1>3 DEF EndSpectral
  <2>2. Strategy = "spectral" /\ request.strategy # "manual"
    BY <2>1 DEF BalanceInv, Strategy, SelectStrategy
  <2> QED
    BY <2>1, <2>2, Same DEF BalanceInv
<1> QED
  BY <1>1, <1>2, <1>3 DEF SpectralStep

LEMMA ManualBalance == ASSUME Inv, Inv', Manual PROVE BalanceInv'
<1>1. /\ pc' = "evaluate" /\ UNCHANGED arguments
      /\ parts' = [p \in 0..k' - 1 |-> {q \in Qubits : q % k' = p}]
  BY DEF Manual
<1>2. /\ n \in Nat /\ k' \in Nat /\ k' > 0
  <2>1. n \in Nat /\ n' = n
    BY <1>1, CircuitFacts, Frame DEF Inv, TypeOK
  <2>2. Resolution'
    BY <1>1 DEF Inv, Loops, Working
  <2> QED
    BY <2>1, <2>2 DEF Resolution
<1>3. \A p, r \in 0..k' - 1 : Cardinality({q \in 0..n - 1 : q % k' = p}) <=
                                 Cardinality({q \in 0..n - 1 : q % k' = r}) + 1
  BY <1>2, ResidueClasses
<1>4. \A p \in 0..k' - 1 : Size(p)' = Cardinality({q \in 0..n - 1 : q % k' = p})
  BY <1>1 DEF Size, Qubits
<1>5. Even'
  BY <1>1, <1>3, <1>4 DEF Even
<1> QED
  BY <1>1, <1>5 DEF BalanceInv

LEMMA OtherBalance ==
    ASSUME BalanceInv, DivideByZero \/ SinglePartition \/ PlanStep \/ UNCHANGED vars
    PROVE  BalanceInv'
<1>1. CASE DivideByZero
  BY <1>1 DEF DivideByZero, BalanceInv
<1>2. CASE SinglePartition
  BY <1>2 DEF SinglePartition, BalanceInv
<1>3. CASE PlanStep
  <2>1. /\ pc \in {"evaluate", "assemble"} /\ pc' \in {"assemble", "done"}
        /\ UNCHANGED arguments /\ parts' = parts /\ k' = k
    BY <1>3 DEF PlanStep, Evaluate, Visit, NextPartition, Finish
  <2> QED
    BY <2>1, Same DEF BalanceInv
<1>4. CASE UNCHANGED vars
  <2>1. pc' = pc /\ k' = k /\ parts' = parts /\ UNCHANGED arguments
    BY <1>4 DEF vars, arguments
  <2> QED
    BY <2>1, Same DEF BalanceInv
<1> QED
  BY <1>1, <1>2, <1>3, <1>4

LEMMA BalanceInductive == Inv /\ Inv' /\ BalanceInv /\ [Next]_vars => BalanceInv'
<1> SUFFICES ASSUME Inv, Inv', BalanceInv, [Next]_vars PROVE BalanceInv'
  OBVIOUS
<1> QED
  BY GreedyBalance, SpectralBalance, ManualBalance, OtherBalance DEF Next

\* Qubits without couplings, and any under the manual strategy, are spread evenly.
THEOREM SpreadEvenly == Spec => []EvenWithoutCoupling
<1>1. BalanceInv => EvenWithoutCoupling
  BY DEF BalanceInv, EvenWithoutCoupling, Even, Strategy, Uncoupled
<1> QED
  BY <1>1, AlwaysInv, InitBalance, BalanceInductive, PTL DEF Spec
===============================================================================
