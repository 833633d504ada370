---------------------------- MODULE IntegrityProofs ----------------------------
(***************************************************************************)
(* Proofs about Ingestion and Integrity, for all texts, limits and stages. *)
(*                                                                         *)
(* What normalize_to_manifest accepts is looked at once it is returned.    *)
(* The invariant follows the circuit through the loop that builds it: at   *)
(* every instruction its connectivity is the coupling graph of the gates   *)
(* read so far.  For the proof hash it remembers what it was made of.      *)
(***************************************************************************)
EXTENDS Integrity, FiniteSetTheorems, WellFoundedInduction, TLAPS

\* a sequence, whatever of
IsList(s) == s \in Seq({s[i] : i \in DOMAIN s})

\* the circuit under construction
Formed(c) == /\ c.num_qubits \in Nat /\ IsList(c.gates) /\ IsList(c.connectivity)
             /\ \A i \in DOMAIN c.gates : c.gates[i].qubits \in Seq(Int)

\* what AcceptedFitsPartitioner says of the connectivity
Covered(c) ==
    \A i \in DOMAIN c.gates : Len(c.gates[i].qubits) = 2 =>
        \E m \in DOMAIN c.connectivity : Joins(c.connectivity[m], c.gates[i].qubits)
Caused(c) ==
    \A m \in DOMAIN c.connectivity :
        /\ c.connectivity[m][1] <= c.connectivity[m][2]
        /\ \E i \in DOMAIN c.gates : /\ Len(c.gates[i].qubits) = 2
                                     /\ Joins(c.connectivity[m], c.gates[i].qubits)
Once(c) ==
    \A l, m \in DOMAIN c.connectivity : l # m => c.connectivity[l] # c.connectivity[m]
Coupling(c) == Covered(c) /\ Caused(c) /\ Once(c)

\* of the calls only normalize_to_manifest validates, and nobody sends it a tape
\* of the catalog or a program from one
IngestInv ==
    /\ at \in Nat \ {0} /\ pc \in Locations
    /\ pc # "idle" /\ call.entry = "normalize_to_manifest" =>
          /\ call.text \in Texts
          /\ pc # "read" => Formed(ir) /\ Coupling(ir)
    /\ AcceptedFitsPartitioner

\* the proof is that of the artifacts it was made of
ProofInv ==
    proof # None =>
        proof.proof_hash = compute_proof_hash(proved.manifest, proved.plan, proved.result)

-------------------------------------------------------------------------------
\* Appending to a list.
LEMMA Appended ==
    ASSUME NEW s, IsList(s), NEW x
    PROVE  LET t == Append(s, x)
           IN  /\ IsList(t) /\ Len(s) \in Nat /\ DOMAIN s = 1..Len(s)
               /\ DOMAIN t = DOMAIN s \cup {Len(s) + 1} /\ Len(s) + 1 \notin DOMAIN s
               /\ t[Len(s) + 1] = x
               /\ \A i \in DOMAIN s : t[i] = s[i]
<1> DEFINE S == {s[i] : i \in DOMAIN s}
           t == Append(s, x)
<1>1. s \in Seq(S \cup {x})
  <2>1. s \in Seq(S)
    BY DEF IsList
  <2> QED
    BY <2>1
<1> HIDE DEF S
<1>2. /\ Len(s) \in Nat /\ DOMAIN s = 1..Len(s)
      /\ t \in Seq(S \cup {x}) /\ Len(t) = Len(s) + 1 /\ DOMAIN t = 1..Len(s) + 1
      /\ t[Len(s) + 1] = x
      /\ \A i \in DOMAIN s : t[i] = s[i]
  BY <1>1
<1>3. t \in Seq({t[i] : i \in DOMAIN t})
  BY <1>2
<1>4. DOMAIN t = DOMAIN s \cup {Len(s) + 1} /\ Len(s) + 1 \notin DOMAIN s
  BY <1>2
<1> QED
  BY <1>2, <1>3, <1>4 DEF IsList

\* The edge of a pair of operands joins them, the lower one first, and any edge
\* that joins them in that order is it.
LEMMA EdgeJoins ==
    ASSUME NEW q \in Seq(Int), Len(q) = 2
    PROVE  Edge(q)[1] <= Edge(q)[2] /\ Joins(Edge(q), q)
<1>1. q[1] \in Int /\ q[2] \in Int
  OBVIOUS
<1> QED
  BY <1>1 DEF Edge, Joins

\* Reading an instruction keeps the connectivity the coupling graph of the gates.
LEMMA CouplingGrows ==
    ASSUME NEW c, Formed(c), Coupling(c), NEW g, g.qubits \in Seq(Int),
           NEW d, d.num_qubits = c.num_qubits, d.gates = Append(c.gates, g),
           d.connectivity = Connected(c.connectivity, g.qubits)
    PROVE  Formed(d) /\ Coupling(d)
<1> DEFINE last == Len(c.gates) + 1
           new == Len(g.qubits) = 2 /\ \A i \in DOMAIN c.connectivity : c.connectivity[i] # Edge(g.qubits)
<1>1. /\ IsList(d.gates) /\ DOMAIN d.gates = DOMAIN c.gates \cup {last}
      /\ d.gates[last] = g
      /\ \A i \in DOMAIN c.gates : d.gates[i] = c.gates[i]
  BY Appended DEF Formed
<1>2. \A i \in DOMAIN d.gates : d.gates[i].qubits \in Seq(Int)
  BY <1>1 DEF Formed
<1> HIDE DEF last
<1>3. CASE new
  <2> DEFINE edge == Len(c.connectivity) + 1
  <2>1. d.connectivity = Append(c.connectivity, Edge(g.qubits))
    BY <1>3 DEF Connected
  <2>2. /\ IsList(d.connectivity) /\ DOMAIN d.connectivity = DOMAIN c.connectivity \cup {edge}
        /\ edge \notin DOMAIN c.connectivity
        /\ d.connectivity[edge] = Edge(g.qubits)
        /\ \A m \in DOMAIN c.connectivity : d.connectivity[m] = c.connectivity[m]
    BY <2>1, Appended DEF Formed
  <2> HIDE DEF edge
  <2>3. Edge(g.qubits)[1] <= Edge(g.qubits)[2] /\ Joins(Edge(g.qubits), g.qubits)
    BY <1>3, EdgeJoins
  <2>4. Covered(d)
    BY <1>1, <2>2, <2>3 DEF Covered, Coupling
  <2>5. Caused(d)
    <3>1. ASSUME NEW m \in DOMAIN d.connectivity
          PROVE  /\ d.connectivity[m][1] <= d.connectivity[m][2]
                 /\ \E i \in DOMAIN d.gates : /\ Len(d.gates[i].qubits) = 2
                                              /\ Joins(d.connectivity[m], d.gates[i].qubits)
      <4>1. CASE m = edge
        BY <1>1, <1>3, <2>2, <2>3, <4>1
      <4>2. CASE m # edge
        BY <1>1, <2>2, <4>2 DEF Caused, Coupling
      <4> QED
        BY <4>1, <4>2
    <3> QED
      BY <3>1 DEF Caused
  <2>6. Once(d)
    BY <1>3, <2>2 DEF Once, Coupling
  <2> QED
    BY <1>1, <1>2, <2>2, <2>4, <2>5, <2>6 DEF Formed, Coupling
<1>4. CASE ~new
  <2>1. d.connectivity = c.connectivity
    BY <1>4 DEF Connected
  <2>2. Covered(d)
    <3>1. ASSUME NEW i \in DOMAIN d.gates, Len(d.gates[i].qubits) = 2
          PROVE  \E m \in DOMAIN c.connectivity : Joins(c.connectivity[m], d.gates[i].qubits)
      <4>1. CASE i \in DOMAIN c.gates
        BY <1>1, <3>1, <4>1 DEF Covered, Coupling
      <4>2. CASE i = last
        <5>1. Len(g.qubits) = 2 /\ Joins(Edge(g.qubits), g.qubits)
          BY <1>1, <3>1, <4>2, EdgeJoins
        <5>2. PICK m \in DOMAIN c.connectivity : c.connectivity[m] = Edge(g.qubits)
          BY <1>4, <5>1
        <5> QED
          BY <1>1, <4>2, <5>1, <5>2
      <4> QED
        BY <1>1, <4>1, <4>2
    <3> QED
      BY <2>1, <3>1 DEF Covered
  <2>3. Caused(d)
    BY <1>1, <2>1 DEF Caused, Coupling
  <2>4. Once(d)
    BY <2>1 DEF Once, Coupling
  <2> QED
    BY <1>1, <1>2, <2>1, <2>2, <2>3, <2>4 DEF Formed, Coupling
<1> QED
  BY <1>3, <1>4

\* Every gate that has operands is counted once by the metadata.
LEMMA GatesCounted ==
    ASSUME NEW c, Formed(c)
    PROVE  LET m == Metadata(c)
           IN  m.single_qubit_gates + m.two_qubit_gates + m.multi_qubit_gates =
                 Cardinality({i \in DOMAIN c.gates : c.gates[i].qubits # <<>>})
<1> DEFINE some == {i \in DOMAIN c.gates : c.gates[i].qubits # <<>>}
           one == {i \in DOMAIN c.gates : Operands(c, i) = 1}
           two == {i \in DOMAIN c.gates : Operands(c, i) = 2}
           more == {i \in DOMAIN c.gates : Operands(c, i) > 2}
<1>1. /\ Len(c.gates) \in Nat /\ DOMAIN c.gates = 1..Len(c.gates)
      /\ IsFiniteSet(DOMAIN c.gates) /\ Cardinality(DOMAIN c.gates) = Len(c.gates)
  <2>1. Len(c.gates) \in Nat /\ DOMAIN c.gates = 1..Len(c.gates)
    BY DEF Formed, IsList
  <2> QED
    BY <2>1, FS_Interval
<1>2. \A i \in DOMAIN c.gates :
        Operands(c, i) \in Nat /\ (Operands(c, i) = 0 <=> c.gates[i].qubits = <<>>)
  <2>1. \A q \in Seq(Int) : Len(q) \in Nat /\ (Len(q) = 0 <=> q = <<>>)
    OBVIOUS
  <2> QED
    BY <2>1 DEF Formed, Operands
<1>3. /\ one \cup two \cup more = some
      /\ one \cap two = {} /\ (one \cup two) \cap more = {}
  BY <1>2
<1>4. one \in SUBSET DOMAIN c.gates /\ two \in SUBSET DOMAIN c.gates /\ more \in SUBSET DOMAIN c.gates
  OBVIOUS
<1>5. /\ Metadata(c).single_qubit_gates = Cardinality(one)
      /\ Metadata(c).two_qubit_gates = Cardinality(two)
      /\ Metadata(c).multi_qubit_gates = Cardinality(more)
  BY DEF Metadata, TwoQubit
<1> HIDE DEF one, two, more
<1>6. IsFiniteSet(one) /\ IsFiniteSet(two) /\ IsFiniteSet(more)
  BY <1>1, <1>4, FS_Subset
<1>7. /\ Cardinality(one) \in Nat /\ Cardinality(two) \in Nat /\ Cardinality(more) \in Nat
      /\ Cardinality({}) = 0
  BY <1>6, FS_CardinalityType, FS_EmptySet
<1>8. IsFiniteSet(one \cup two) /\ Cardinality(one \cup two) = Cardinality(one) + Cardinality(two)
  <2>1. /\ IsFiniteSet(one \cup two)
        /\ Cardinality(one \cup two) = Cardinality(one) + Cardinality(two) - Cardinality(one \cap two)
    BY <1>6, FS_Union
  <2>2. Cardinality(one \cap two) = 0
    BY <1>3, <1>7
  <2> QED
    BY <1>7, <2>1, <2>2
<1>9. Cardinality((one \cup two) \cup more) = Cardinality(one) + Cardinality(two) + Cardinality(more)
  <2>1. Cardinality((one \cup two) \cup more) =
           Cardinality(one \cup two) + Cardinality(more) - Cardinality((one \cup two) \cap more)
    BY <1>6, <1>8, FS_Union
  <2>2. Cardinality((one \cup two) \cap more) = 0
    BY <1>3, <1>7
  <2> QED
    BY <1>7, <1>8, <2>1, <2>2
<1> QED
  BY <1>1, <1>3, <1>5, <1>9

-------------------------------------------------------------------------------
(* Ingestion *)
LEMMA InitIngest == IngestInit => IngestInv
BY DEF IngestInit, IngestInv, AcceptedFitsPartitioner, Locations

\* Returning without a manifest leaves what was accepted as it is.
LEMMA Unaccepted ==
    ASSUME IngestInv, Return,
           \/ catalog' = catalog
           \/ \E e : catalog' = catalog \cup {e} /\ e.manifest = None
    PROVE  IngestInv'
<1>1. AcceptedFitsPartitioner'
  BY DEF IngestInv, AcceptedFitsPartitioner
<1> QED
  BY <1>1 DEF IngestInv, Return, Locations

LEMMA SubmitKeeps == ASSUME IngestInv, Submit PROVE IngestInv'
<1>1. /\ call' \in Submissions \cup Exports \cup Rebuilds
      /\ pc' = "read" /\ at' = at /\ ir' = ir /\ catalog' = catalog
  BY DEF Submit
<1>2. call'.entry = "normalize_to_manifest" => call'.text \in Texts
  BY <1>1 DEF Submissions, Exports, Rebuilds, NewCall
<1>3. AcceptedFitsPartitioner'
  BY <1>1 DEF IngestInv, AcceptedFitsPartitioner
<1> QED
  BY <1>1, <1>2, <1>3 DEF IngestInv, Locations

LEMMA ReadKeeps == ASSUME IngestInv, Read PROVE IngestInv'
<1>1. /\ pc = "read" /\ pc' = "translate" /\ call' = call /\ at' = at /\ catalog' = catalog
      /\ ir' = [num_qubits |-> call.text.num_qubits, gates |-> <<>>, connectivity |-> <<>>]
  BY DEF Read, NoCircuit
<1>2. ASSUME call.entry = "normalize_to_manifest" PROVE Formed(ir') /\ Coupling(ir')
  <2>1. call.text \in Texts
    BY <1>1, <1>2 DEF IngestInv
  <2>2. call.text.num_qubits \in Nat
    BY <2>1, TextsOK
  <2> QED
    BY <1>1, <2>2 DEF Formed, IsList, Coupling, Covered, Caused, Once
<1>3. AcceptedFitsPartitioner'
  BY <1>1 DEF IngestInv, AcceptedFitsPartitioner
<1> QED
  BY <1>1, <1>2, <1>3 DEF IngestInv, Locations

LEMMA InstructionKeeps == ASSUME IngestInv, Instruction PROVE IngestInv'
<1> DEFINE g == [name |-> GateName(Ops[at]), qubits |-> Ops[at].qubits]
<1>1. /\ pc = "translate" /\ pc' = pc /\ call' = call /\ at' = at + 1 /\ catalog' = catalog
      /\ at <= Len(Ops)
      /\ ir' = [ir EXCEPT !.gates = Append(@, g), !.connectivity = Connected(@, Ops[at].qubits)]
  BY DEF Instruction
<1>2. ASSUME call.entry = "normalize_to_manifest" PROVE Formed(ir') /\ Coupling(ir')
  <2>1. call.text \in Texts /\ Formed(ir) /\ Coupling(ir) /\ at \in Nat \ {0}
    BY <1>1, <1>2 DEF IngestInv
  <2>2. at \in DOMAIN Ops
    BY <1>1, <2>1, TextsOK DEF Ops
  <2>3. g.qubits \in Seq(Int)
    BY <2>1, <2>2, TextsOK DEF Ops
  <2>4. /\ ir'.num_qubits = ir.num_qubits /\ ir'.gates = Append(ir.gates, g)
        /\ ir'.connectivity = Connected(ir.connectivity, g.qubits)
    BY <1>1
  <2> QED
    BY <2>1, <2>3, <2>4, CouplingGrows
<1>3. AcceptedFitsPartitioner'
  BY <1>1 DEF IngestInv, AcceptedFitsPartitioner
<1> QED
  BY <1>1, <1>2, <1>3 DEF IngestInv, Locations

\* The loops that do not touch the CircuitIR.
LEMMA LoopKeeps ==
    ASSUME IngestInv, EndOfText \/ Build \/ EndOfBuild
    PROVE  IngestInv'
<1>1. /\ pc \in {"translate", "build"} /\ pc' \in {"build", "construct"}
      /\ call' = call /\ ir' = ir /\ catalog' = catalog
      /\ at' \in {1, at + 1}
  BY DEF EndOfText, Build, EndOfBuild
<1>2. AcceptedFitsPartitioner'
  BY <1>1 DEF IngestInv, AcceptedFitsPartitioner
<1>3. at' \in Nat \ {0}
  BY <1>1 DEF IngestInv
<1> QED
  BY <1>1, <1>2, <1>3 DEF IngestInv, Locations

\* Exceptions, and calls that do not validate.
LEMMA ReturnKeeps ==
    ASSUME IngestInv,
           \/ Unreadable \/ NotANumber \/ Unbuildable \/ NoQasmMethod \/ Refuse
           \/ ReturnCircuit \/ ReturnGates
    PROVE  IngestInv'
<1>1. CASE Unreadable \/ NotANumber \/ Unbuildable \/ NoQasmMethod \/ Refuse
  <2>1. Return /\ catalog' = catalog
    BY <1>1 DEF Unreadable, NotANumber, Unbuildable, NoQasmMethod, Refuse, Raise
  <2> QED
    BY <2>1, Unaccepted
<1>2. CASE ReturnCircuit \/ ReturnGates
  <2> DEFINE e(c) == [call |-> call, ir |-> c, manifest |-> None, metadata |-> None]
  <2>1. Return
    BY <1>2 DEF ReturnCircuit, ReturnGates
  <2>2. catalog' = catalog \cup {e(CircuitIR)} \/ catalog' = catalog \cup {e(ir)}
    BY <1>2 DEF ReturnCircuit, ReturnGates, Catalogued
  <2>3. \A c : e(c).manifest = None
    OBVIOUS
  <2> HIDE DEF e
  <2> QED
    BY <2>1, <2>2, <2>3, Unaccepted
<1> QED
  BY <1>1, <1>2

\* What passes validation fits.
LEMMA AcceptKeeps == ASSUME IngestInv, Accept PROVE IngestInv'
<1> DEFINE c == CircuitIR
           accepted == [call |-> call, ir |-> c, manifest |-> Manifest(c), metadata |-> Metadata(c)]
<1>1. /\ pc = "construct" /\ call.entry = "normalize_to_manifest"
      /\ ~Invalid(c) /\ Return /\ catalog' = catalog \cup {accepted}
  BY DEF Accept, Catalogued
<1>2. Formed(ir) /\ Coupling(ir)
  BY <1>1 DEF IngestInv
<1>3. /\ c.num_qubits = ir.num_qubits /\ c.gates = ir.gates
      /\ c.connectivity = ir.connectivity
  BY DEF CircuitIR
<1> HIDE DEF c
<1>4. Formed(c) /\ Covered(c) /\ Caused(c) /\ Once(c)
  BY <1>2, <1>3 DEF Formed, Coupling, Covered, Caused, Once
<1>5. c.num_qubits > 0
  BY <1>1, <1>4 DEF Invalid, Formed
<1>6. \A i \in DOMAIN c.gates : \A j \in DOMAIN c.gates[i].qubits :
         c.gates[i].qubits[j] \in 0..c.num_qubits - 1
  <2>1. ASSUME NEW i \in DOMAIN c.gates, NEW j \in DOMAIN c.gates[i].qubits
        PROVE  c.gates[i].qubits[j] \in 0..c.num_qubits - 1
    <3>1. c.gates[i].qubits \in Seq(Int)
      BY <1>4 DEF Formed
    <3>2. c.gates[i].qubits[j] \in Int
      BY <3>1
    <3>3. ~(c.gates[i].qubits[j] < 0) /\ ~(c.gates[i].qubits[j] >= c.num_qubits)
      BY <1>1 DEF Invalid
    <3> QED
      BY <1>4, <3>2, <3>3 DEF Formed
  <2> QED
    BY <2>1
<1>7. LET m == accepted.metadata
      IN  m.single_qubit_gates + m.two_qubit_gates + m.multi_qubit_gates =
             Cardinality({i \in DOMAIN c.gates : c.gates[i].qubits # <<>>})
  BY <1>4, GatesCounted
<1>8. AcceptedFitsPartitioner'
  <2> SUFFICES ASSUME NEW e \in catalog', e.manifest # None
               PROVE  /\ e.ir.num_qubits > 0
                      /\ \A i \in DOMAIN e.ir.gates : \A j \in DOMAIN e.ir.gates[i].qubits :
                            e.ir.gates[i].qubits[j] \in 0..e.ir.num_qubits - 1
                      /\ Covered(e.ir) /\ Caused(e.ir) /\ Once(e.ir)
                      /\ e.metadata.single_qubit_gates + e.metadata.two_qubit_gates
                             + e.metadata.multi_qubit_gates =
                                Cardinality({i \in DOMAIN e.ir.gates : e.ir.gates[i].qubits # <<>>})
    BY DEF AcceptedFitsPartitioner, Covered, Caused, Once
  <2>1. CASE e \in catalog
    BY <2>1 DEF IngestInv, AcceptedFitsPartitioner, Covered, Caused, Once
  <2>2. CASE e = accepted
    <3>1. e.ir = c /\ e.metadata = accepted.metadata
      BY <2>2
    <3> QED
      BY <1>4, <1>5, <1>6, <1>7, <3>1
  <2> QED
    BY <1>1, <2>1, <2>2
<1> QED
  BY <1>1, <1>8 DEF IngestInv, Return, Locations

LEMMA IngestKeeps == IngestInv /\ [IngestNext]_ingestVars => IngestInv'
<1> SUFFICES ASSUME IngestInv, [IngestNext]_ingestVars PROVE IngestInv'
  OBVIOUS
<1>1. CASE Submit \/ Translation \/ ReturnCircuit \/ ReturnGates \/ Refuse
  BY <1>1, SubmitKeeps, ReadKeeps, InstructionKeeps, LoopKeeps, ReturnKeeps DEF Translation
<1>2. CASE Accept
  BY <1>2, AcceptKeeps
<1>3. CASE UNCHANGED ingestVars
  BY <1>3 DEF ingestVars, IngestInv, AcceptedFitsPartitioner
<1> QED
  BY <1>1, <1>2, <1>3 DEF IngestNext

\* Every circuit that normalize_to_manifest accepts fits the partitioner, in
\* whatever calls come before and whatever is done with its job afterwards.
THEOREM AcceptedFits == Spec => []AcceptedFitsPartitioner
<1>1. Init => IngestInv
  BY InitIngest DEF Init
<1>2. IngestInv /\ [Next]_vars => IngestInv'
  BY IngestKeeps DEF Next, vars
<1>3. IngestInv => AcceptedFitsPartitioner
  BY DEF IngestInv
<1> QED
  BY <1>1, <1>2, <1>3, PTL DEF Spec

-------------------------------------------------------------------------------
(* Integrity *)
LEMMA ProofInit == Init => ProofInv
BY DEF Init, StageInit, ProofInv

LEMMA ProofKeeps == ProofInv /\ [Next]_vars => ProofInv'
<1> SUFFICES ASSUME ProofInv, [Next]_vars PROVE ProofInv'
  OBVIOUS
<1>1. CASE StageNext
  <2>1. CASE Prove
    BY <2>1 DEF Prove, generate, ProofInv
  <2>2. CASE MakePlan \/ Merge \/ PostProcess \/ StampProof \/ BuildProvenance
             \/ AttachProvenance \/ Store \/ Mistake
    <3>1. proof' = proof /\ proved' = proved
      BY <2>2 DEF MakePlan, Merge, PostProcess, Recount, StampProof, BuildProvenance,
                  AttachProvenance, Store, Mistake
    <3> QED
      BY <3>1 DEF ProofInv, compute_proof_hash, hash_manifest, hash_partition_plan, hash_result,
                  SetOf
  <2> QED
    BY <1>1, <2>1, <2>2 DEF StageNext
<1>2. CASE UNCHANGED stageVars
  <2>1. proof' = proof /\ proved' = proved
    BY <1>2 DEF stageVars
  <2> QED
    BY <2>1 DEF ProofInv, compute_proof_hash, hash_manifest, hash_partition_plan, hash_result,
                SetOf
<1> QED
  BY <1>1, <1>2 DEF Next, vars

\* The digests are equal exactly if the fields they are made of are.
LEMMA ManifestDigest ==
    ASSUME NEW a, NEW b
    PROVE  hash_manifest(a) = hash_manifest(b) <=> SameManifest(a, b)
BY DEF hash_manifest, SameManifest

LEMMA PlanDigest ==
    ASSUME NEW a, NEW b
    PROVE  hash_partition_plan(a) = hash_partition_plan(b) <=> SamePlan(a, b)
<1> DEFINE digest(p) == [i \in DOMAIN p.partitions |->
                            [id |-> p.partitions[i].partition_id,
                             qubits |-> SetOf(p.partitions[i].qubit_indices),
                             gates |-> p.partitions[i].gate_count]]
<1>1. hash_partition_plan(a) = hash_partition_plan(b) <=>
         /\ a.job_id = b.job_id /\ a.strategy = b.strategy /\ a.dependencies = b.dependencies
         /\ digest(a) = digest(b)
  <2> HIDE DEF digest
  <2>1. \A p : hash_partition_plan(p) = [job_id |-> p.job_id, strategy |-> p.strategy,
                                         partitions |-> digest(p),
                                         dependencies |-> p.dependencies]
    BY DEF hash_partition_plan, digest
  <2> QED
    BY <2>1
<1>2. ASSUME digest(a) = digest(b)
      PROVE  /\ DOMAIN a.partitions = DOMAIN b.partitions
             /\ \A p \in DOMAIN a.partitions :
                   LET x == a.partitions[p]
                       y == b.partitions[p]
                   IN  /\ x.partition_id = y.partition_id /\ x.gate_count = y.gate_count
                       /\ SetOf(x.qubit_indices) = SetOf(y.qubit_indices)
  <2>1. DOMAIN digest(a) = DOMAIN digest(b)
    BY <1>2
  <2>2. DOMAIN a.partitions = DOMAIN b.partitions
    BY <2>1
  <2>3. \A p \in DOMAIN a.partitions : digest(a)[p] = digest(b)[p]
    BY <1>2
  <2> QED
    BY <2>2, <2>3
<1>3. ASSUME SamePlan(a, b) PROVE digest(a) = digest(b)
  BY <1>3 DEF SamePlan
<1> QED
  BY <1>1, <1>2, <1>3 DEF SamePlan

LEMMA ResultDigest ==
    ASSUME NEW a, NEW b
    PROVE  hash_result(a) = hash_result(b) <=> SameResult(a, b)
BY DEF hash_result, SameResult

\* The proof hash binds the run to exactly the fields it digests, whatever stages,
\* stores and mistakes come before and after it is made.
THEOREM ProofAlwaysBinds == Spec => []ProofBinds
<1>1. ProofInv => ProofBinds
  <2> SUFFICES ASSUME ProofInv, proof # None
               PROVE  Verifies <=> /\ SameManifest(manifest, proved.manifest)
                                   /\ SamePlan(plan, proved.plan)
                                   /\ SameResult(result, proved.result)
    BY DEF ProofBinds
  <2>1. Verifies <=> compute_proof_hash(manifest, plan, result) =
                        compute_proof_hash(proved.manifest, proved.plan, proved.result)
    BY DEF ProofInv, Verifies
  <2>2. Verifies <=>
           /\ hash_manifest(manifest) = hash_manifest(proved.manifest)
           /\ hash_partition_plan(plan) = hash_partition_plan(proved.plan)
           /\ hash_result(result) = hash_result(proved.result)
    BY <2>1 DEF compute_proof_hash
  <2> QED
    BY <2>2, ManifestDigest, PlanDigest, ResultDigest
<1> QED
  BY <1>1, ProofInit, ProofKeeps, PTL DEF Spec

-------------------------------------------------------------------------------
(* What holds of something holds of a smallest one: induction over numbers *)
Family(T, S) == T \subseteq SUBSET S /\ T # {}
Smallest(x, T) == x \in T /\ \A y \in T : y \subseteq x => y = x

LEMMA SmallestSubset ==
    ASSUME NEW S, IsFiniteSet(S), NEW T, Family(T, S)
    PROVE  \E x : Smallest(x, T)
<1>1. T \subseteq FiniteSubsetsOf(S)
  BY FS_Subset DEF FiniteSubsetsOf, Family
<1>2. \E x \in T : \A y \in T : <<y, x>> \notin StrictSubsetOrdering(S)
  BY <1>1, FS_StrictSubsetOrderingWellFounded, WFMin DEF Family
<1> QED BY <1>2 DEF StrictSubsetOrdering, Smallest, Family

LEMMA LeastNumber ==
    ASSUME NEW T, T \subseteq Nat, T # {}
    PROVE  \E x \in T : \A y \in T : x <= y
<1>1. PICK m \in T : TRUE
  OBVIOUS
<1> DEFINE Below == {0..x : x \in {y \in T : y <= m}}
<1>2. IsFiniteSet(0..m)
  BY FS_Interval, <1>1
<1>3. Family(Below, 0..m)
  BY <1>1 DEF Family
<1>4. PICK b : Smallest(b, Below)
  <2> HIDE DEF Below
  <2> QED BY <1>2, <1>3, SmallestSubset
<1>5. PICK x \in T : x <= m /\ b = 0..x
  BY <1>4 DEF Smallest
<1>6. ASSUME NEW y \in T, y < x
      PROVE  FALSE
  <2>1. 0..y \in Below /\ 0..y \subseteq 0..x /\ x \in 0..x /\ x \notin 0..y
    BY <1>5, <1>6
  <2> QED BY <2>1, <1>4, <1>5 DEF Smallest
<1> QED BY <1>5, <1>6

-------------------------------------------------------------------------------
(* Lists in order *)
\* B[x] are the elements of S before x, in an order of all of S
Orders(B, S) ==
    /\ IsFiniteSet(S) /\ B \in [S -> SUBSET S]
    /\ \A x \in S : x \notin B[x]
    /\ \A x, y \in S : x \in B[y] => B[x] \subseteq B[y]
    /\ \A x, y \in S : x # y => x \in B[y] \/ y \in B[x]

\* How many are before an element tells which one it is, and is every number
\* below the number of elements.
LEMMA Ranked ==
    ASSUME NEW S, NEW B, Orders(B, S)
    PROVE  /\ Cardinality(S) \in Nat
           /\ \A x \in S : Cardinality(B[x]) \in 0..Cardinality(S) - 1
           /\ \A x, y \in S : x \in B[y] => Cardinality(B[x]) < Cardinality(B[y])
           /\ \A x, y \in S : Cardinality(B[x]) = Cardinality(B[y]) => x = y
           /\ \A r \in 0..Cardinality(S) - 1 : \E x \in S : Cardinality(B[x]) = r
<1> DEFINE N == Cardinality(S)
           D == 0..N - 1
<1>1. IsFiniteSet(S) /\ N \in Nat
  BY FS_CardinalityType DEF Orders
<1>2. ASSUME NEW x \in S
      PROVE  IsFiniteSet(B[x]) /\ Cardinality(B[x]) \in D
  <2> DEFINE R == S \ {x}
             C == B[x]
  <2>1. IsFiniteSet(R) /\ Cardinality(R) = N - 1
    BY <1>1, FS_RemoveElement
  <2>2. C \in SUBSET R
    BY DEF Orders
  <2> HIDE DEF C, R
  <2>3. IsFiniteSet(C) /\ Cardinality(C) <= Cardinality(R)
    BY <2>1, <2>2, FS_Subset
  <2>4. Cardinality(C) \in Nat
    BY <2>3, FS_CardinalityType
  <2> QED BY <1>1, <2>1, <2>3, <2>4 DEF C
<1>3. ASSUME NEW x \in S, NEW y \in S, x \in B[y]
      PROVE  Cardinality(B[x]) < Cardinality(B[y])
  <2> DEFINE C == B[x]
             E == B[y]
  <2>1. C \in SUBSET E /\ C # E
    BY <1>3 DEF Orders
  <2>2. IsFiniteSet(E) /\ Cardinality(C) \in D /\ Cardinality(E) \in D
    BY <1>2
  <2> HIDE DEF C, E
  <2>3. Cardinality(C) <= Cardinality(E) /\ Cardinality(C) # Cardinality(E)
    BY <2>1, <2>2, FS_Subset
  <2>4. Cardinality(C) < Cardinality(E)
    BY <1>1, <2>2, <2>3
  <2> QED BY <2>4 DEF C, E
<1>4. ASSUME NEW x \in S, NEW y \in S, x # y
      PROVE  Cardinality(B[x]) # Cardinality(B[y])
  <2>1. Cardinality(B[x]) < Cardinality(B[y]) \/ Cardinality(B[y]) < Cardinality(B[x])
    BY <1>3, <1>4 DEF Orders
  <2>2. Cardinality(B[x]) \in D /\ Cardinality(B[y]) \in D
    BY <1>2
  <2> QED BY <1>1, <2>1, <2>2
<1>5. ASSUME NEW r \in D
      PROVE  \E x \in S : Cardinality(B[x]) = r
  <2> DEFINE f == [x \in S |-> Cardinality(B[x])]
  <2>1. f \in Injection(S, D)
    BY <1>2, <1>4 DEF Injection, IsInjective
  <2>2. IsFiniteSet(D) /\ Cardinality(D) = N
    <3>1. 0 \in Int /\ N - 1 \in Int
      BY <1>1
    <3>2. IsFiniteSet(D) /\ Cardinality(D) = IF 0 > N - 1 THEN 0 ELSE (N - 1) - 0 + 1
      BY <3>1, FS_Interval
    <3> QED BY <1>1, <3>2
  <2>3. f \in Surjection(S, D)
    <3> HIDE DEF f, D
    <3> QED BY <1>1, <2>1, <2>2, FS_Injection
  <2> QED BY <2>3 DEF Surjection
<1> QED BY <1>1, <1>2, <1>3, <1>4, <1>5

\* A set of numbers in its order.
LEMMA AscendingList ==
    ASSUME NEW S, S \in SUBSET Nat, IsFiniteSet(S), NEW N, N = Cardinality(S)
    PROVE  /\ N \in Nat /\ DOMAIN Ascending(S) = 1..N /\ Ascending(S) \in [1..N -> S]
           /\ \A q \in S : \E i \in 1..N : Ascending(S)[i] = q
           /\ \A i, j \in 1..N : i < j => Ascending(S)[i] < Ascending(S)[j]
           /\ \A i \in 1..N : \A q \in S :
                 Ascending(S)[i] = q <=> Cardinality({r \in S : r < q}) = i - 1
<1> DEFINE B == [q \in S |-> {r \in S : r < q}]
           place(i) == CHOOSE q \in S : Cardinality({r \in S : r < q}) = i - 1
<1>0. \A q \in S : q \in Nat
  OBVIOUS
<1>2. \A q \in S : B[q] = {r \in S : r < q}
  OBVIOUS
<1>1. Orders(B, S)
  <2>1. B \in [S -> SUBSET S]
    OBVIOUS
  <2> HIDE DEF B
  <2>2. \A q \in S : q \notin B[q]
    BY <1>0, <1>2
  <2>3. ASSUME NEW q \in S, NEW r \in S, q \in B[r], NEW p \in B[q]
        PROVE  p \in B[r]
    <3>1. p \in S /\ p < q /\ q < r
      BY <1>2, <2>3
    <3>2. p < r
      BY <1>0, <3>1
    <3> QED BY <1>2, <3>1, <3>2
  <2>4. \A q, r \in S : q # r => q \in B[r] \/ r \in B[q]
    BY <1>0, <1>2
  <2> QED BY <2>1, <2>2, <2>3, <2>4 DEF Orders
<1>3. Ascending(S) = [i \in 1..N |-> place(i)]
  BY DEF Ascending
<1> HIDE DEF B
<1>4. /\ N \in Nat
      /\ \A q \in S : Cardinality(B[q]) \in 0..N - 1
      /\ \A q, r \in S : q \in B[r] => Cardinality(B[q]) < Cardinality(B[r])
      /\ \A q, r \in S : Cardinality(B[q]) = Cardinality(B[r]) => q = r
      /\ \A i \in 0..N - 1 : \E q \in S : Cardinality(B[q]) = i
  <2>1. /\ Cardinality(S) \in Nat
        /\ \A q \in S : Cardinality(B[q]) \in 0..Cardinality(S) - 1
        /\ \A q, r \in S : q \in B[r] => Cardinality(B[q]) < Cardinality(B[r])
        /\ \A q, r \in S : Cardinality(B[q]) = Cardinality(B[r]) => q = r
        /\ \A i \in 0..Cardinality(S) - 1 : \E q \in S : Cardinality(B[q]) = i
    BY ONLY <1>1, Ranked
  <2> QED BY ONLY <2>1, N = Cardinality(S), Zenon
<1>5. ASSUME NEW i \in 1..N
      PROVE  place(i) \in S /\ Cardinality(B[place(i)]) = i - 1
  <2>1. i - 1 \in 0..N - 1
    BY <1>4
  <2>2. \E q \in S : Cardinality({r \in S : r < q}) = i - 1
    BY <1>2, <1>4, <2>1
  <2>3. place(i) \in S /\ Cardinality({r \in S : r < place(i)}) = i - 1
    BY <2>2
  <2> QED BY <1>2, <2>3
<1> HIDE DEF place
<1>6. ASSUME NEW q \in S
      PROVE  \E i \in 1..N : place(i) = q
  <2> DEFINE i == Cardinality(B[q]) + 1
  <2>1. i \in 1..N /\ i - 1 = Cardinality(B[q])
    BY <1>4
  <2> HIDE DEF i
  <2>2. place(i) = q
    BY <1>4, <1>5, <2>1
  <2> QED BY <2>1, <2>2
<1>7. ASSUME NEW i \in 1..N, NEW j \in 1..N, i < j
      PROVE  place(i) < place(j)
  <2>1. place(i) \in S /\ place(j) \in S /\ Cardinality(B[place(i)]) < Cardinality(B[place(j)])
    BY <1>4, <1>5, <1>7
  <2>2. ~(place(j) < place(i)) /\ place(i) # place(j)
    <3>1. place(j) < place(i) => place(j) \in B[place(i)]
      BY <1>2, <2>1
    <3>2. place(j) \in B[place(i)] => Cardinality(B[place(j)]) < Cardinality(B[place(i)])
      BY <1>4, <2>1
    <3>3. Cardinality(B[place(i)]) = i - 1 /\ Cardinality(B[place(j)]) = j - 1
      BY <1>5
    <3> QED BY <1>4, <1>7, <2>1, <3>1, <3>2, <3>3
  <2>3. place(i) \in Nat /\ place(j) \in Nat
    BY <1>0, <2>1
  <2> QED BY <2>2, <2>3
<1>8. ASSUME NEW i \in 1..N, NEW q \in S
      PROVE  place(i) = q <=> Cardinality({r \in S : r < q}) = i - 1
  <2>1. place(i) \in S /\ Cardinality(B[place(i)]) = i - 1 /\ B[q] = {r \in S : r < q}
    BY <1>2, <1>5
  <2>2. Cardinality(B[place(i)]) = Cardinality(B[q]) => place(i) = q
    BY <1>4, <2>1
  <2> QED BY <2>1, <2>2
<1> QED BY <1>3, <1>4, <1>5, <1>6, <1>7, <1>8

-------------------------------------------------------------------------------
(* Post-processing *)
\* a merge's counts, or what is left of them: outcomes that differ
IsCounts(c) ==
    /\ DOMAIN c = 1..Len(c) /\ Len(c) \in Nat
    /\ \A i \in DOMAIN c : c[i].count \in Nat \ {0}
    /\ \A i, j \in DOMAIN c : i # j => c[i] # c[j]

\* what is left of a set of outcomes, the most frequent ones
TopOf(left, all) ==
    left \subseteq all /\ \A x \in left, y \in all \ left : y.count <= x.count

Frequent(c, m) == IsCounts(c) /\ IsCounts(m) /\ TopOf(SetOf(c), SetOf(m))

\* a list of some places, each once
Places(f, n, S) == f \in [1..n -> S] /\ \A p, q \in 1..n : p # q => f[p] # f[q]

\* what is listed there
At(d, c, f, n) == d = [p \in 1..n |-> c[f[p]]]

LEMMA MergedCount ==
    ASSUME NEW c \in MergedCounts
    PROVE  Frequent(c, c)
<1>1. IsCounts(c)
  BY MergedOK DEF IsCounts
<1> QED BY <1>1 DEF Frequent, TopOf

LEMMA UpTo ==
    ASSUME NEW n \in Nat
    PROVE  IsFiniteSet(1..n) /\ Cardinality(1..n) = n
<1>1. 1 \in Int /\ n \in Int
  OBVIOUS
<1> QED BY <1>1, FS_Interval

LEMMA LengthOfCounts ==
    ASSUME NEW c, IsCounts(c)
    PROVE  Len(c) = Cardinality(SetOf(c))
<1> DEFINE f == [i \in DOMAIN c |-> c[i]]
<1>1. f \in Bijection(1..Len(c), SetOf(c))
  BY DEF IsCounts, SetOf, Bijection, Injection, Surjection, IsInjective
<1> HIDE DEF f
<1>2. IsFiniteSet(1..Len(c)) /\ Cardinality(1..Len(c)) = Len(c)
  BY UpTo DEF IsCounts
<1> QED BY <1>1, <1>2, FS_Bijection DEF ExistsBijection

\* Some places of the counts, each once, are counts.
LEMMA Sublist ==
    ASSUME NEW c, IsCounts(c), NEW n \in Nat, NEW f, Places(f, n, DOMAIN c),
           NEW d, At(d, c, f, n)
    PROVE  IsCounts(d) /\ SetOf(d) = {c[f[p]] : p \in 1..n}
<1>1. DOMAIN d = 1..n /\ Len(d) = n /\ \A p \in 1..n : d[p] = c[f[p]] /\ f[p] \in DOMAIN c
  BY DEF Places, At
<1> QED BY <1>1 DEF IsCounts, SetOf, Places

LEMMA Cut ==
    ASSUME NEW c, NEW m, Frequent(c, m), NEW d, IsCounts(d), TopOf(SetOf(d), SetOf(c))
    PROVE  Frequent(d, m)
BY DEF Frequent, TopOf

\* The sum of the counts is a number: were it not, there would be a least length
\* up to which it is none.
LEMMA TotalNatural ==
    ASSUME NEW c, IsCounts(c)
    PROVE  Total(c) \in Nat
<1> DEFINE N == Len(c)
           step(f, n) == [i \in 0..n |-> IF i = 0 THEN 0 ELSE f[i - 1] + c[i].count]
           upTo == CHOOSE f : f = step(f, N)
           none == {n \in 0..N : ~\E f : f = step(f, n)}
           odd == {n \in 0..N : upTo[n] \notin Nat}
<1>1. N \in Nat /\ \A i \in 1..N : c[i].count \in Nat
  BY DEF IsCounts
<1>2. none = {}
  <2> SUFFICES ASSUME none # {} PROVE FALSE
    OBVIOUS
  <2>1. PICK n \in none : \A k \in none : n <= k
    <3>1. none \subseteq Nat
      BY <1>1
    <3> HIDE DEF none
    <3> QED BY <3>1, LeastNumber
  <2>2. n # 0
    <3> DEFINE zero == [i \in 0..0 |-> 0]
    <3>1. zero = step(zero, 0)
      OBVIOUS
    <3>2. \E f : f = step(f, 0)
      <4> HIDE DEF zero, step
      <4> QED BY <3>1
    <3>3. ~\E f : f = step(f, n)
      BY <2>1
    <3> HIDE DEF step
    <3> QED BY <3>2, <3>3
  <2>3. n \in 1..N /\ n - 1 \in 0..N /\ n - 1 \notin none
    <3>1. n \in 0..N
      BY <2>1
    <3> HIDE DEF none
    <3>2. n \in 1..N /\ n - 1 \in 0..N /\ ~(n <= n - 1)
      BY <1>1, <2>2, <3>1
    <3> QED BY <2>1, <3>2
  <2>4. PICK f : f = step(f, n - 1)
    BY <2>3
  <2> DEFINE g == [i \in 0..n |-> IF i = n THEN f[n - 1] + c[n].count ELSE f[i]]
  <2>5. g = step(g, n)
    <3>1. ASSUME NEW i \in 0..n
          PROVE  g[i] = IF i = 0 THEN 0 ELSE g[i - 1] + c[i].count
      <4>1. CASE i = n
        BY <1>1, <2>3, <4>1
      <4>2. CASE i # n
        <5>1. i \in 0..n - 1 /\ f[i] = IF i = 0 THEN 0 ELSE f[i - 1] + c[i].count
          BY <1>1, <2>3, <2>4, <4>2
        <5>2. g[i] = f[i] /\ (i # 0 => g[i - 1] = f[i - 1])
          BY <1>1, <2>3, <4>2
        <5> QED BY <5>1, <5>2
      <4> QED BY <4>1, <4>2
    <3>2. g = [i \in 0..n |-> g[i]]
      OBVIOUS
    <3> HIDE DEF g
    <3> QED BY <3>1, <3>2
  <2> HIDE DEF g
  <2> QED BY <2>1, <2>5
<1>3. upTo = step(upTo, N)
  <2>1. \E f : f = step(f, N)
    BY <1>1, <1>2
  <2> QED BY <2>1
<1> HIDE DEF upTo
<1>4. odd = {}
  <2> SUFFICES ASSUME odd # {} PROVE FALSE
    OBVIOUS
  <2>1. PICK n \in odd : \A k \in odd : n <= k
    <3>1. odd \subseteq Nat
      BY <1>1
    <3> HIDE DEF odd
    <3> QED BY <3>1, LeastNumber
  <2>2. upTo[n] = IF n = 0 THEN 0 ELSE upTo[n - 1] + c[n].count
    BY <1>1, <1>3, <2>1
  <2>3. n # 0
    BY <2>1, <2>2
  <2>4. n \in 1..N /\ n - 1 \in 0..N /\ n - 1 \notin odd
    BY <1>1, <2>1, <2>3
  <2>5. upTo[n - 1] \in Nat
    BY <2>4
  <2> QED BY <1>1, <2>1, <2>2, <2>4, <2>5
<1>5. Total(c) = upTo[N]
  BY DEF Total, upTo
<1> QED BY <1>1, <1>4, <1>5

\* Below the threshold is less than at or above it.
LEMMA FilterKeeps ==
    ASSUME NEW c, NEW m, Frequent(c, m), NEW t, t.num \in Int, t.den \in Nat \ {0}
    PROVE  Frequent(filter_noise(c, t), m)
<1> DEFINE d == filter_noise(c, t)
           enough(i) == c[i].count * t.den >= t.num * Total(c)
           left == {i \in DOMAIN c : enough(i)}
           f == Ascending(left)
           n == Cardinality(left)
<1>0. IsCounts(c)
  BY DEF Frequent
<1>1. CASE Total(c) = 0
  BY <1>1 DEF filter_noise
<1>2. CASE Total(c) # 0
  <2>1. d = Selected(c, left)
    BY <1>2 DEF filter_noise
  <2>2. left \in SUBSET Nat /\ IsFiniteSet(left)
    <3>1. IsFiniteSet(DOMAIN c) /\ DOMAIN c \subseteq Nat /\ left \in SUBSET DOMAIN c
      BY <1>0, UpTo DEF IsCounts
    <3> HIDE DEF left
    <3> QED BY <3>1, FS_Subset
  <2>3. /\ n \in Nat /\ DOMAIN f = 1..n /\ f \in [1..n -> left]
        /\ \A q \in left : \E i \in 1..n : f[i] = q
        /\ \A i, j \in 1..n : i < j => f[i] < f[j]
    <3> HIDE DEF left
    <3> QED BY <2>2, AscendingList
  <2>4. d = [p \in 1..n |-> c[f[p]]]
    BY <2>1, <2>3 DEF Selected
  <2>5. Places(f, n, DOMAIN c)
    <3>1. \A p \in 1..n : f[p] \in left
      BY <2>3
    <3> HIDE DEF f, n
    <3>2. \A p \in 1..n : f[p] \in Nat
      BY <2>2, <3>1
    <3>3. \A p, q \in 1..n : p # q => f[p] # f[q]
      BY <2>3, <3>2
    <3> QED BY <2>3, <3>3 DEF Places
  <2> HIDE DEF d, f, n
  <2>6. IsCounts(d) /\ SetOf(d) = {c[f[p]] : p \in 1..n}
    BY <1>0, <2>3, <2>4, <2>5, Sublist DEF At
  <2>7. SetOf(d) = {c[i] : i \in left}
    BY <2>3, <2>6
  <2>8. ASSUME NEW i \in left, NEW j \in DOMAIN c \ left
        PROVE  c[j].count <= c[i].count
    <3> DEFINE least == t.num * Total(c)
    <3>1. c[i].count * t.den >= least /\ ~(c[j].count * t.den >= least)
      BY <2>8
    <3>2. c[i].count \in Nat /\ c[j].count \in Nat /\ least \in Int
      <4>1. i \in DOMAIN c /\ j \in DOMAIN c
        BY <2>8
      <4>2. Total(c) \in Nat
        BY <1>0, TotalNatural
      <4> QED BY <1>0, <4>1, <4>2 DEF IsCounts
    <3> HIDE DEF least
    <3>3. c[j].count * t.den < c[i].count * t.den
      BY <3>1, <3>2
    <3>4. c[j].count > c[i].count => c[j].count * t.den >= c[i].count * t.den
      BY <3>2
    <3> QED BY <3>2, <3>3, <3>4
  <2>9. TopOf(SetOf(d), SetOf(c))
    <3> HIDE DEF left
    <3>1. left \subseteq DOMAIN c
      BY DEF left
    <3> QED BY <2>7, <2>8, <3>1 DEF TopOf, SetOf
  <2> QED BY <2>6, <2>9, Cut DEF d
<1> QED BY <1>1, <1>2

\* The sort puts every place once, the most frequent outcomes first.
LEMMA TopKeeps ==
    ASSUME NEW c, NEW m, Frequent(c, m), NEW k \in Nat
    PROVE  Frequent(top_k_states(c, k), m)
<1> DEFINE N == Len(c)
           B == [i \in DOMAIN c |-> Before(c, i)]
           pos(p) == CHOOSE i \in DOMAIN c : Cardinality(Before(c, i)) = p - 1
           n == Smaller(k, N)
           f == [p \in 1..n |-> pos(p)]
           d == top_k_states(c, k)
<1>1. /\ IsCounts(c) /\ DOMAIN c = 1..N /\ N \in Nat
      /\ \A i \in DOMAIN c : i \in Nat /\ c[i].count \in Nat
  BY DEF Frequent, IsCounts
<1>2. \A i \in DOMAIN c : B[i] = {j \in DOMAIN c : c[j].count > c[i].count
                                      \/ (c[j].count = c[i].count /\ j < i)}
  BY DEF Before
<1>3. Orders(B, DOMAIN c)
  <2>1. B \in [DOMAIN c -> SUBSET DOMAIN c]
    BY DEF Before
  <2>2. IsFiniteSet(DOMAIN c)
    BY <1>1, FS_Interval
  <2> HIDE DEF B
  <2>3. \A i \in DOMAIN c : i \notin B[i]
    BY <1>1, <1>2
  <2>4. ASSUME NEW i \in DOMAIN c, NEW j \in DOMAIN c, i \in B[j], NEW l \in B[i]
        PROVE  l \in B[j]
    <3>1. /\ l \in DOMAIN c
          /\ c[l].count > c[i].count \/ (c[l].count = c[i].count /\ l < i)
          /\ c[i].count > c[j].count \/ (c[i].count = c[j].count /\ i < j)
      BY <1>2, <2>4
    <3>2. c[l].count > c[j].count \/ (c[l].count = c[j].count /\ l < j)
      BY <1>1, <3>1
    <3> QED BY <1>2, <3>1, <3>2
  <2>5. \A i, j \in DOMAIN c : i # j => i \in B[j] \/ j \in B[i]
    BY <1>1, <1>2
  <2> QED BY <2>1, <2>2, <2>3, <2>4, <2>5 DEF Orders
<1>4. \A i \in DOMAIN c : B[i] = Before(c, i)
  OBVIOUS
<1> HIDE DEF B
<1>5. /\ \A i \in DOMAIN c : Cardinality(B[i]) \in 0..N - 1
      /\ \A i, j \in DOMAIN c : i \in B[j] => Cardinality(B[i]) < Cardinality(B[j])
      /\ \A i, j \in DOMAIN c : Cardinality(B[i]) = Cardinality(B[j]) => i = j
      /\ \A r \in 0..N - 1 : \E i \in DOMAIN c : Cardinality(B[i]) = r
  <2>1. Cardinality(DOMAIN c) = N
    BY <1>1, FS_Interval
  <2> QED BY <1>3, <2>1, Ranked
<1>6. ASSUME NEW p \in 1..N
      PROVE  pos(p) \in DOMAIN c /\ Cardinality(B[pos(p)]) = p - 1
  <2>1. p - 1 \in 0..N - 1
    BY <1>1
  <2>2. \E i \in DOMAIN c : Cardinality(Before(c, i)) = p - 1
    BY <1>4, <1>5, <2>1
  <2>3. pos(p) \in DOMAIN c /\ Cardinality(Before(c, pos(p))) = p - 1
    BY <2>2
  <2> QED BY <1>4, <2>3
<1>7. Sorted(c) = [p \in 1..N |-> c[pos(p)]]
  BY <1>1 DEF Sorted
<1> HIDE DEF pos
<1>8. n \in Nat /\ n <= N
  BY <1>1 DEF Smaller
<1>9. d = [p \in 1..n |-> c[f[p]]]
  <2> DEFINE s == Sorted(c)
  <2>1. s \in Seq({c[pos(p)] : p \in 1..N}) /\ Len(s) = N
    BY <1>1, <1>7
  <2>2. d = SubSeq(s, 1, n)
    BY DEF top_k_states
  <2> HIDE DEF s, n
  <2>3. d = [p \in 1..n |-> s[p]]
    BY <1>1, <1>8, <2>1, <2>2
  <2> QED BY <1>1, <1>7, <1>8, <2>3 DEF s
<1> HIDE DEF n, d
<1>10. Places(f, n, DOMAIN c)
  <2>1. \A p \in 1..n : p \in 1..N
    BY <1>1, <1>8
  <2>2. ASSUME NEW p \in 1..n, NEW q \in 1..n, pos(p) = pos(q)
        PROVE  p = q
    <3>1. Cardinality(B[pos(p)]) = p - 1 /\ Cardinality(B[pos(q)]) = q - 1
      BY <1>6, <2>1
    <3>2. p - 1 = q - 1
      BY <2>2, <3>1
    <3> QED BY <3>2
  <2> QED BY <1>6, <2>1, <2>2 DEF Places
<1> HIDE DEF f
<1>11. IsCounts(d) /\ SetOf(d) = {c[f[p]] : p \in 1..n}
  <2>1. At(d, c, f, n)
    BY <1>9 DEF At
  <2> QED BY <1>1, <1>8, <1>10, <2>1, Sublist
<1>12. ASSUME NEW p \in 1..n, NEW i \in DOMAIN c, \A q \in 1..n : f[q] # i
       PROVE  c[i].count <= c[f[p]].count
  <2> DEFINE q == Cardinality(B[i]) + 1
  <2>1. q \in 1..N /\ q - 1 = Cardinality(B[i])
    BY <1>1, <1>5
  <2> HIDE DEF q
  <2>2. pos(q) = i
    BY <1>5, <1>6, <2>1
  <2>3. q \notin 1..n
    BY <1>12, <2>2 DEF f
  <2>4. p \in 1..N /\ f[p] = pos(p) /\ f[p] \in DOMAIN c /\ Cardinality(B[f[p]]) = p - 1
    <3>1. p \in 1..N /\ f[p] = pos(p)
      BY <1>1, <1>8 DEF f
    <3> QED BY <1>6, <3>1
  <2>5. i \notin B[f[p]]
    <3>1. i \in B[f[p]] => q - 1 < p - 1
      BY <1>5, <2>1, <2>4
    <3> QED BY <1>1, <1>8, <2>1, <2>3, <2>4, <3>1
  <2> QED BY <1>1, <1>2, <2>4, <2>5
<1>13. TopOf(SetOf(d), SetOf(c))
  <2>1. \A p \in 1..n : f[p] \in DOMAIN c
    BY <1>10 DEF Places
  <2>2. ASSUME NEW x \in SetOf(d), NEW y \in SetOf(c) \ SetOf(d)
        PROVE  y.count <= x.count
    <3>1. PICK p \in 1..n : x = c[f[p]]
      BY <1>11
    <3>2. PICK i \in DOMAIN c : y = c[i]
      BY DEF SetOf
    <3>3. \A q \in 1..n : f[q] # i
      BY <1>11, <3>2
    <3> QED BY <1>12, <3>1, <3>2, <3>3
  <2> QED BY <1>11, <2>1, <2>2 DEF TopOf, SetOf
<1> QED BY <1>11, <1>13, Cut DEF d

LEMMA ReorderKeeps ==
    ASSUME NEW c, NEW m, Frequent(c, m), NEW d \in Reordered(c)
    PROVE  Frequent(d, m)
<1>1. IsCounts(c) /\ DOMAIN c = 1..Len(c) /\ Len(c) \in Nat
  BY DEF Frequent, IsCounts
<1>2. PICK f \in [DOMAIN c -> DOMAIN c] : SetOf(f) = DOMAIN c /\ d = [i \in DOMAIN c |-> c[f[i]]]
  BY DEF Reordered
<1>3. f \in Surjection(DOMAIN c, DOMAIN c)
  BY <1>2 DEF Surjection, SetOf
<1>4. IsFiniteSet(DOMAIN c)
  BY <1>1, FS_Interval
<1>5. f \in Injection(DOMAIN c, DOMAIN c)
  BY <1>3, <1>4, FS_SurjSameCardinalityImpliesInj
<1>6. Places(f, Len(c), DOMAIN c)
  BY <1>1, <1>5 DEF Places, Injection, IsInjective
<1>7. IsCounts(d) /\ SetOf(d) = {c[f[p]] : p \in DOMAIN c}
  <2>1. At(d, c, f, Len(c))
    BY <1>1, <1>2 DEF At
  <2>2. IsCounts(d) /\ SetOf(d) = {c[f[p]] : p \in 1..Len(c)}
    BY <1>1, <1>6, <2>1, Sublist
  <2> QED BY <1>1, <2>2
<1>8. SetOf(d) = SetOf(c)
  BY <1>2, <1>3, <1>7 DEF SetOf, Surjection
<1>9. TopOf(SetOf(d), SetOf(c))
  BY <1>8 DEF TopOf
<1> QED BY <1>7, <1>9, Cut

\* what is left of the merged counts
LeftInv ==
    result # None => "final_counts" \in DOMAIN result /\ Frequent(result.final_counts, merged)

LEMMA LeftInit == Init => LeftInv
BY DEF Init, StageInit, LeftInv

\* The counts are replaced.
LEMMA Recounted ==
    ASSUME LeftInv, result # None, NEW counts, NEW m, Frequent(counts, m),
           result' = [result EXCEPT !.final_counts = counts], merged' = m
    PROVE  LeftInv'
<1>1. "final_counts" \in DOMAIN result
  BY DEF LeftInv
<1>2. "final_counts" \in DOMAIN result' /\ result'.final_counts = counts
  BY <1>1
<1> QED BY <1>2 DEF LeftInv

LEMMA StageLeft == ASSUME LeftInv, StageNext PROVE LeftInv'
<1>1. CASE MakePlan \/ Prove \/ BuildProvenance
  BY <1>1 DEF MakePlan, Prove, BuildProvenance, LeftInv
<1>2. CASE Merge
  <2>1. PICK counts \in MergedCounts, executed \in [DOMAIN plan.partitions -> Providers] :
           result' = RunResult(plan, counts, executed) /\ merged' = counts
    BY <1>2 DEF Merge
  <2>2. "final_counts" \in DOMAIN result' /\ result'.final_counts = counts
    BY <2>1 DEF RunResult
  <2> QED BY <2>1, <2>2, MergedCount DEF LeftInv
<1>3. CASE PostProcess
  <2>1. result # None /\ Frequent(result.final_counts, merged)
    BY <1>3 DEF PostProcess, Stage, LeftInv
  <2>2. CASE \E t \in Thresholds : Recount(filter_noise(result.final_counts, t))
    <3>1. PICK t \in Thresholds : Recount(filter_noise(result.final_counts, t))
      BY <2>2
    <3>2. Frequent(filter_noise(result.final_counts, t), merged)
      BY <2>1, FilterKeeps, StagesOK
    <3> QED BY <2>1, <3>1, <3>2, Recounted DEF Recount
  <2>3. CASE \E k \in TopKs : Recount(top_k_states(result.final_counts, k))
    <3>1. PICK k \in TopKs : Recount(top_k_states(result.final_counts, k))
      BY <2>3
    <3>2. Frequent(top_k_states(result.final_counts, k), merged)
      BY <2>1, TopKeeps, StagesOK
    <3> QED BY <2>1, <3>1, <3>2, Recounted DEF Recount
  <2> QED BY <1>3, <2>2, <2>3 DEF PostProcess
<1>4. CASE StampProof
  BY <1>4 DEF StampProof, Stage, LeftInv
<1>5. CASE AttachProvenance
  BY <1>5 DEF AttachProvenance, Stage, LeftInv
<1>6. CASE Store
  <2>1. PICK counts \in Reordered(result.final_counts) :
           result' = [result EXCEPT !.final_counts = counts]
    BY <1>6 DEF Store
  <2>2. result # None /\ Frequent(result.final_counts, merged) /\ merged' = merged
    BY <1>6 DEF Store, Stage, LeftInv
  <2> QED BY <2>1, <2>2, ReorderKeeps, Recounted
<1>7. CASE Mistake
  <2>1. CASE UNCHANGED <<result, merged>>
    BY <2>1 DEF LeftInv
  <2>2. CASE merged' \in MergedCounts /\ result' = [result EXCEPT !.final_counts = merged']
    <3>1. result # None
      BY <1>7 DEF Mistake, Stage
    <3>2. Frequent(merged', merged')
      BY <2>2, MergedCount
    <3> QED BY <2>2, <3>1, <3>2, Recounted
  <2> QED BY <1>7, <2>1, <2>2 DEF Mistake
<1> QED BY <1>1, <1>2, <1>3, <1>4, <1>5, <1>6, <1>7 DEF StageNext

\* Whatever is filtered, cut off, stored and mistaken, what is left of the merged
\* counts are its most frequent outcomes, with the counts they were merged with.
THEOREM KeepsMostFrequent == Spec => []MostFrequentKept
<1>1. LeftInv /\ [Next]_vars => LeftInv'
  <2>1. LeftInv /\ UNCHANGED stageVars => LeftInv'
    BY DEF LeftInv, stageVars
  <2> QED BY <2>1, StageLeft DEF Next, vars
<1>2. LeftInv => MostFrequentKept
  BY LengthOfCounts DEF LeftInv, MostFrequentKept, Frequent, TopOf
<1> QED BY <1>1, <1>2, LeftInit, PTL DEF Spec
-------------------------------------------------------------------------------
(* Types *)
TypedList(gates) == IsList(gates) /\ \A i \in DOMAIN gates : gates[i].qubits \in Seq(Int)
TypedText(t) ==
    /\ t.num_qubits \in Nat /\ DOMAIN t.ops = 1..Len(t.ops) /\ Len(t.ops) \in Nat
    /\ \A i \in DOMAIN t.ops : t.ops[i].qubits \in Seq(Int)
TypedCircuit(c) == c.num_qubits \in Nat /\ TypedList(c.gates)

\* Circuits of the catalog may be sent on: those that a text was submitted for.
TypedEntry(e) ==
    /\ "call" \in DOMAIN e /\ TypedCircuit(e.ir)
    /\ e.call.origin = None => TypedText(e.ir.qasm_string)
    /\ e.manifest # None => /\ e.manifest.num_qubits \in 1..MaxQubits
                            /\ "shots" \in DOMAIN e.manifest
TypedCall(c) ==
    /\ c.entry \in Entries /\ c.input_type \in InputTypes /\ TypedText(c.text)
    /\ c.origin = None => c.entry # "qiskit_to_circuit_ir"

IngestType ==
    /\ calls \in 0..MaxCalls /\ pc \in Locations /\ at \in Nat \ {0}
    /\ pc # "idle" => TypedCall(call)
    /\ TypedCircuit(ir) /\ TypedList(built)
    /\ \A e \in catalog : TypedEntry(e)

StageType ==
    /\ stages \in 0..MaxStages
    /\ manifest # None => "shots" \in DOMAIN manifest
    /\ plan # None => "job_id" \in DOMAIN plan
    /\ (plan = None) = (manifest = None)
    /\ result # None => plan # None
    /\ (proof = None) = (proved = None)

\* A record is not None.
LEMMA NotNone ==
    ASSUME NEW r, NEW field, field \in DOMAIN r
    PROVE  r # None
BY DEF None

LEMMA TypedAppended ==
    ASSUME NEW s, TypedList(s), NEW g, g.qubits \in Seq(Int)
    PROVE  TypedList(Append(s, g))
<1> DEFINE last == Len(s) + 1
           t == Append(s, g)
<1>1. /\ IsList(t) /\ DOMAIN t = DOMAIN s \cup {last} /\ t[last] = g
      /\ \A i \in DOMAIN s : t[i] = s[i] /\ s[i].qubits \in Seq(Int)
  <2>1. IsList(s) /\ \A i \in DOMAIN s : s[i].qubits \in Seq(Int)
    BY DEF TypedList
  <2> QED BY <2>1, Appended
<1> HIDE DEF last, t
<1>2. \A i \in DOMAIN t : t[i].qubits \in Seq(Int)
  BY <1>1
<1> QED BY <1>1, <1>2 DEF TypedList, t

LEMMA TypedNothing == TypedList(<<>>) /\ TypedCircuit(NoCircuit)
BY DEF TypedList, TypedCircuit, NoCircuit, IsList

LEMMA IngestTypeInit == IngestInit => IngestType
BY LimitsOK, TypedNothing DEF IngestInit, IngestType, Locations

\* Return, with one more circuit of the right type or none.
LEMMA TypedReturn ==
    ASSUME IngestType, Return,
           \/ catalog' = catalog
           \/ \E e : catalog' = catalog \cup {e} /\ TypedEntry(e)
    PROVE  IngestType'
<1>1. \A e \in catalog' : TypedEntry(e)
  BY DEF IngestType
<1>2. TypedCircuit(ir)' /\ TypedList(built)'
  <2>1. ir' = NoCircuit /\ built' = <<>>
    BY DEF Return
  <2> QED BY <2>1, TypedNothing DEF TypedCircuit, TypedList, IsList
<1>3. pc' = "idle" /\ at' = 1 /\ calls' = calls
  BY DEF Return
<1> QED BY <1>1, <1>2, <1>3 DEF IngestType, Locations

LEMMA TypedTape ==
    ASSUME NEW c, TypedCircuit(c)
    PROVE  TypedText(Tape(c))
<1> DEFINE t == Tape(c)
<1>1. /\ t.num_qubits \in Nat
      /\ t.ops = [i \in DOMAIN c.gates |-> [name |-> PLName(c.gates[i].name),
                                            qubits |-> c.gates[i].qubits]]
  BY DEF Tape, TypedCircuit
<1>2. DOMAIN c.gates = 1..Len(c.gates) /\ Len(c.gates) \in Nat
  BY DEF TypedCircuit, TypedList, IsList
<1>3. \A i \in DOMAIN c.gates : t.ops[i].qubits \in Seq(Int)
  BY <1>1 DEF TypedCircuit, TypedList
<1> HIDE DEF t
<1>4. DOMAIN t.ops = 1..Len(c.gates) /\ Len(t.ops) = Len(c.gates)
  BY <1>1, <1>2
<1> QED BY <1>1, <1>2, <1>3, <1>4 DEF TypedText, t

LEMMA TypedSubmit == ASSUME IngestType, Submit PROVE IngestType'
<1>1. /\ call' \in Submissions \cup Exports \cup Rebuilds
      /\ pc' = "read" /\ at' = at /\ ir' = ir /\ built' = built /\ catalog' = catalog
      /\ calls' = calls + 1 /\ calls < MaxCalls
  BY DEF Submit
<1>2. TypedCall(call)'
  <2>1. CASE call' \in Submissions
    <3>1. PICK e \in {"normalize", "normalize_to_manifest"}, it \in InputTypes, t \in Texts :
             call' = NewCall(e, it, t, None)
      BY <2>1 DEF Submissions
    <3>2. TypedText(t)
      BY TextsOK DEF TypedText
    <3>3. call'.entry = e /\ call'.input_type = it /\ call'.text = t
      BY <3>1 DEF NewCall
    <3> QED BY <3>2, <3>3 DEF TypedCall, TypedText, Entries
  <2>2. CASE call' \in Exports
    <3>1. PICK e \in catalog : call' = NewCall("normalize", "pennylane", Tape(e.ir), e)
      BY <2>2 DEF Exports
    <3>2. TypedText(Tape(e.ir))
      BY TypedTape DEF IngestType, TypedEntry
    <3>3. call'.entry = "normalize" /\ call'.input_type = "pennylane" /\ call'.text = Tape(e.ir)
      BY <3>1 DEF NewCall
    <3> QED BY <3>2, <3>3 DEF TypedCall, TypedText, Entries, InputTypes
  <2>3. CASE call' \in Rebuilds
    <3>1. PICK e \in catalog :
             /\ e.call.origin = None
             /\ call' = NewCall("qiskit_to_circuit_ir", "qiskit", e.ir.qasm_string, e)
      BY <2>3 DEF Rebuilds
    <3>2. TypedText(e.ir.qasm_string) /\ e # None
      BY <3>1, NotNone DEF IngestType, TypedEntry
    <3>3. /\ call'.entry = "qiskit_to_circuit_ir" /\ call'.input_type = "qiskit"
          /\ call'.text = e.ir.qasm_string /\ call'.origin = e
      BY <3>1 DEF NewCall
    <3> QED BY <3>2, <3>3 DEF TypedCall, TypedText, Entries, InputTypes
  <2> QED BY <1>1, <2>1, <2>2, <2>3
<1>3. calls' \in 0..MaxCalls
  BY <1>1, LimitsOK DEF IngestType
<1> QED BY <1>1, <1>2, <1>3
       DEF IngestType, Locations, TypedEntry, TypedCircuit, TypedText, TypedList, IsList

LEMMA TypedWork ==
    ASSUME IngestType, Read \/ Instruction \/ EndOfText \/ Build \/ EndOfBuild
    PROVE  IngestType'
<1>1. /\ pc # "idle" /\ call' = call /\ calls' = calls /\ catalog' = catalog
      /\ pc' \in Locations /\ at' \in {1, at, at + 1}
  BY DEF Read, Instruction, EndOfText, Build, EndOfBuild, Locations
<1>2. at' \in Nat \ {0}
  BY <1>1 DEF IngestType
<1>3. TypedCircuit(ir)'
  <2>1. CASE Read
    <3>1. ir' = [num_qubits |-> call.text.num_qubits, gates |-> <<>>, connectivity |-> <<>>]
      BY <2>1 DEF Read, NoCircuit
    <3>2. call.text.num_qubits \in Nat
      BY <1>1 DEF IngestType, TypedCall, TypedText
    <3> QED BY <3>1, <3>2, TypedNothing DEF TypedCircuit, TypedList, IsList
  <2>2. CASE Instruction
    <3> DEFINE g == [name |-> GateName(Ops[at]), qubits |-> Ops[at].qubits]
               gates == Append(ir.gates, g)
    <3>1. /\ at <= Len(Ops)
          /\ ir' = [ir EXCEPT !.gates = gates, !.connectivity = Connected(@, Ops[at].qubits)]
      BY <2>2 DEF Instruction
    <3>2. at \in DOMAIN Ops /\ g.qubits \in Seq(Int)
      BY <1>1, <3>1 DEF IngestType, TypedCall, TypedText, Ops
    <3>3. TypedList(gates)
      BY <3>2, TypedAppended DEF IngestType, TypedCircuit
    <3> HIDE DEF gates
    <3>4. ir'.num_qubits = ir.num_qubits /\ ir'.gates = gates
      BY <3>1
    <3> QED BY <3>3, <3>4 DEF TypedCircuit, TypedList, IngestType, IsList
  <2>3. CASE EndOfText \/ Build \/ EndOfBuild
    BY <2>3 DEF EndOfText, Build, EndOfBuild, IngestType, TypedCircuit, TypedList, IsList
  <2> QED BY <2>1, <2>2, <2>3
<1>4. TypedList(built)'
  <2>1. CASE built' = built
    BY <2>1 DEF IngestType, TypedList, IsList
  <2>2. CASE Build /\ built' # built
    <3> DEFINE g == ir.gates[at]
               q == [j \in DOMAIN g.qubits |-> Wire(g.qubits[j])]
               w == [g EXCEPT !.qubits = q]
    <3>1. built' = Append(built, w) /\ at <= Len(ir.gates)
      BY <2>2 DEF Build
    <3>2. at \in DOMAIN ir.gates /\ g.qubits \in Seq(Int) /\ ir.num_qubits \in Int
      BY <3>1 DEF IngestType, TypedCircuit, TypedList, IsList
    <3>3. q \in Seq(Int)
      <4>1. \A j \in DOMAIN g.qubits : Wire(g.qubits[j]) \in Int
        BY <3>2 DEF Wire
      <4> QED BY <3>2, <4>1
    <3> HIDE DEF q
    <3>4. w.qubits = q
      BY DEF q
    <3> HIDE DEF w
    <3>5. TypedList(Append(built, w))
      BY <3>3, <3>4, TypedAppended DEF IngestType
    <3> QED BY <3>1, <3>5 DEF TypedList, IsList
  <2>3. CASE ~Build
    BY <2>3 DEF Read, Instruction, EndOfText, EndOfBuild, IngestType, TypedList, IsList
  <2> QED BY <2>1, <2>2, <2>3
<1> QED BY <1>1, <1>2, <1>3, <1>4 DEF IngestType, TypedEntry, TypedCall, TypedText, TypedCircuit, TypedList, IsList

LEMMA TypedBack ==
    ASSUME IngestType,
           \/ Unreadable \/ NotANumber \/ Unbuildable \/ NoQasmMethod \/ Refuse
           \/ ReturnCircuit \/ ReturnGates \/ Accept
    PROVE  IngestType'
<1>1. CASE Unreadable \/ NotANumber \/ Unbuildable \/ NoQasmMethod \/ Refuse
  BY <1>1, TypedReturn DEF Unreadable, NotANumber, Unbuildable, NoQasmMethod, Refuse, Raise
<1>2. TypedCircuit(ir) /\ TypedCircuit(CircuitIR)
  BY DEF IngestType, TypedCircuit, CircuitIR
<1>3. ASSUME pc # "idle" PROVE TypedText(CircuitIR.qasm_string)
  <2> DEFINE t == [language |-> "qasm2", num_qubits |-> ir.num_qubits, ops |-> built]
  <2>1. TypedText(t)
    BY DEF IngestType, TypedCircuit, TypedText, TypedList, IsList
  <2>2. CircuitIR.qasm_string \in {t, call.text}
    BY DEF CircuitIR, QasmString
  <2> QED BY <1>3, <2>1, <2>2 DEF IngestType, TypedCall
<1>4. CASE ReturnCircuit \/ Accept
  <2>1. /\ pc # "idle" /\ Return
        /\ \E x, y : /\ catalog' = catalog \cup {[call |-> call, ir |-> CircuitIR,
                                                  manifest |-> x, metadata |-> y]}
                     /\ x # None => ~Invalid(CircuitIR) /\ x = Manifest(CircuitIR)
    BY <1>4 DEF ReturnCircuit, Accept, Catalogued
  <2>2. PICK x, y : /\ catalog' = catalog \cup {[call |-> call, ir |-> CircuitIR,
                                                 manifest |-> x, metadata |-> y]}
                    /\ x # None => ~Invalid(CircuitIR) /\ x = Manifest(CircuitIR)
    BY <2>1
  <2>3. x # None => x.num_qubits \in 1..MaxQubits /\ "shots" \in DOMAIN x
    <3>1. ASSUME x # None
          PROVE  x.num_qubits = CircuitIR.num_qubits /\ "shots" \in DOMAIN x
      BY <2>2, <3>1 DEF Manifest
    <3>2. CircuitIR.num_qubits \in Nat
      BY <1>2 DEF TypedCircuit
    <3>3. x # None => ~(CircuitIR.num_qubits < 1) /\ ~(CircuitIR.num_qubits > MaxQubits)
      BY <2>2 DEF Invalid
    <3> QED BY <3>1, <3>2, <3>3, LimitsOK
  <2>4. TypedEntry([call |-> call, ir |-> CircuitIR, manifest |-> x, metadata |-> y])
    BY <1>2, <1>3, <2>1, <2>3 DEF TypedEntry
  <2> QED BY <2>1, <2>2, <2>4, TypedReturn
<1>5. CASE ReturnGates
  <2>1. /\ pc # "idle" /\ Return /\ call.entry = "qiskit_to_circuit_ir"
        /\ catalog' = catalog \cup {[call |-> call, ir |-> ir, manifest |-> None, metadata |-> None]}
    BY <1>5 DEF ReturnGates, Catalogued
  <2>2. call.origin # None
    BY <2>1 DEF IngestType, TypedCall
  <2>3. TypedEntry([call |-> call, ir |-> ir, manifest |-> None, metadata |-> None])
    BY <1>2, <2>2 DEF TypedEntry
  <2> QED BY <2>1, <2>3, TypedReturn
<1> QED BY <1>1, <1>4, <1>5

LEMMA IngestTypeKeeps == IngestType /\ [IngestNext]_ingestVars => IngestType'
<1>1. IngestType /\ IngestNext => IngestType'
  BY TypedSubmit, TypedWork, TypedBack DEF IngestNext, Translation
<1>2. IngestType /\ UNCHANGED ingestVars => IngestType'
  BY DEF ingestVars, IngestType, TypedEntry, TypedCall, TypedText, TypedCircuit, TypedList, IsList
<1> QED BY <1>1, <1>2

\* Every plan is a record.
LEMMA PlanRecord ==
    ASSUME NEW c, NEW job, NEW p \in PlansOf(c, job)
    PROVE  "job_id" \in DOMAIN p
BY DEF PlansOf, Plan

LEMMA StageTypeKeeps ==
    ASSUME IngestType, StageType, StageNext
    PROVE  StageType'
<1>1. stages' \in 0..MaxStages
  BY StagesOK DEF StageNext, MakePlan, Merge, PostProcess, Prove, StampProof, BuildProvenance,
                  AttachProvenance, Store, Mistake, Stage, StageType
<1>2. CASE MakePlan
  <2>1. PICK e \in catalog : /\ manifest' = e.manifest /\ e.manifest # None
                             /\ plan' \in PlansOf(e.ir, e.manifest.job_id)
    BY <1>2 DEF MakePlan
  <2>2. "shots" \in DOMAIN manifest' /\ "job_id" \in DOMAIN plan'
    BY <2>1, PlanRecord DEF IngestType, TypedEntry
  <2>3. manifest' # None /\ plan' # None
    BY <2>2, NotNone
  <2> QED BY <1>1, <1>2, <2>2, <2>3 DEF MakePlan, StageType
<1>3. CASE Merge
  BY <1>1, <1>3 DEF Merge, StageType
<1>4. CASE PostProcess \/ StampProof \/ BuildProvenance \/ AttachProvenance
  BY <1>1, <1>4 DEF PostProcess, Recount, StampProof, BuildProvenance, AttachProvenance,
                    Stage, StageType
<1>5. CASE Prove
  <2>1. "job_id" \in DOMAIN proof' /\ "plan" \in DOMAIN proved'
    BY <1>5 DEF Prove, generate
  <2>2. proof' # None /\ proved' # None
    BY <2>1, NotNone
  <2> QED BY <1>1, <1>5, <2>2 DEF Prove, StageType
<1>6. CASE Store
  <2>1. plan # None /\ "job_id" \in DOMAIN plan
    BY <1>6 DEF Store, Stage, StageType
  <2>2. PICK p \in DOMAIN plan.partitions :
           \E l : plan' = [plan EXCEPT !.partitions[p].qubit_indices = l]
    BY <1>6 DEF Store
  <2>3. "job_id" \in DOMAIN plan'
    BY <2>1, <2>2
  <2>4. plan' # None
    BY <2>3, NotNone
  <2> QED BY <1>1, <1>6, <2>1, <2>3, <2>4 DEF Store, StageType
<1>7. CASE Mistake
  <2>1. /\ plan # None /\ "job_id" \in DOMAIN plan /\ manifest # None
        /\ "shots" \in DOMAIN manifest
    BY <1>7 DEF Mistake, Stage, StageType
  <2>2. CASE manifest' \in OtherManifest /\ UNCHANGED <<plan, result, merged>>
    <3>1. "shots" \in DOMAIN manifest'
      <4>1. CASE manifest' = [manifest EXCEPT !.shots = @ + 1]
        BY <2>1, <4>1
      <4>2. CASE manifest' # [manifest EXCEPT !.shots = @ + 1]
        <5>1. PICK e \in catalog : e.manifest # None /\ manifest' = e.manifest
          BY <2>2, <4>2 DEF OtherManifest
        <5> QED BY <5>1 DEF IngestType, TypedEntry
      <4> QED BY <4>1, <4>2
    <3>2. manifest' # None
      BY <3>1, NotNone
    <3> QED BY <1>1, <1>7, <2>1, <2>2, <3>1, <3>2 DEF Mistake, StageType
  <2>3. CASE plan' \in OtherPlan /\ UNCHANGED <<manifest, result, merged>>
    <3>1. "job_id" \in DOMAIN plan'
      BY <2>3, PlanRecord DEF OtherPlan
    <3>2. plan' # None
      BY <3>1, NotNone
    <3> QED BY <1>1, <1>7, <2>1, <2>3, <3>1, <3>2 DEF Mistake, StageType
  <2>4. CASE UNCHANGED <<manifest, plan>>
    BY <1>1, <1>7, <2>1, <2>4 DEF Mistake, StageType
  <2> QED BY <1>7, <2>2, <2>3, <2>4 DEF Mistake
<1> QED BY <1>2, <1>3, <1>4, <1>5, <1>6, <1>7 DEF StageNext

LEMMA TypesKept == IngestType /\ StageType /\ [Next]_vars => IngestType' /\ StageType'
<1>1. IngestType /\ UNCHANGED ingestVars => IngestType'
  BY IngestTypeKeeps
<1>2. StageType /\ UNCHANGED stageVars => StageType'
  BY DEF StageType, stageVars
<1> QED BY <1>1, <1>2, IngestTypeKeeps, StageTypeKeeps DEF Next, vars

LEMMA TypesInit == Init => IngestType /\ StageType
<1>1. StageInit => StageType
  BY StagesOK DEF StageInit, StageType
<1> QED BY <1>1, IngestTypeInit DEF Init

\* The variables keep their types: calls, circuits and stages stay within their
\* bounds, an accepted circuit within the validator's, and the artifacts of a run
\* come together.
THEOREM TypeCorrect == Spec => []TypeOK
<1>1. IngestType /\ StageType => TypeOK
  BY DEF TypeOK, IngestType, StageType, TypedCall, TypedCircuit, TypedList, TypedEntry
<1> QED BY <1>1, TypesInit, TypesKept, PTL DEF Spec
-------------------------------------------------------------------------------
(* There and back *)
LEMMA AppendedIs ==
    ASSUME NEW T, NEW s \in Seq(T), NEW x \in T
    PROVE  Append(s, x) = [i \in 1..Len(s) + 1 |-> IF i = Len(s) + 1 THEN x ELSE s[i]]
<1> DEFINE t == Append(s, x)
           N == Len(s)
           u == [i \in 1..N + 1 |-> IF i = N + 1 THEN x ELSE s[i]]
<1>1. N \in Nat /\ t \in Seq(T) /\ Len(t) = N + 1 /\ t[N + 1] = x
  OBVIOUS
<1>2. \A i \in 1..N : t[i] = s[i]
  OBVIOUS
<1> HIDE DEF t, N
<1>4. t = [i \in 1..N + 1 |-> t[i]]
  BY <1>1
<1>5. \A i \in 1..N + 1 : t[i] = u[i]
  BY <1>1, <1>2
<1>6. t = u
  BY <1>4, <1>5
<1> QED BY <1>6 DEF t, N

\* A greater number comes last.
LEMMA AscendingAppended ==
    ASSUME NEW S, S \in SUBSET Nat, IsFiniteSet(S), NEW n \in Nat, \A q \in S : q < n
    PROVE  Ascending(S \cup {n}) = Append(Ascending(S), n)
<1> DEFINE T == S \cup {n}
           N == Cardinality(S)
           s == Ascending(S)
           t == Ascending(T)
<1>1. /\ n \notin S /\ T \in SUBSET Nat /\ IsFiniteSet(T) /\ Cardinality(T) = N + 1 /\ N \in Nat
      /\ S \subseteq T /\ n \in T
  <2>1. n \notin S /\ T \in SUBSET Nat
    OBVIOUS
  <2>2. IsFiniteSet(T) /\ Cardinality(T) = N + 1 /\ N \in Nat
    BY <2>1, FS_AddElement, FS_CardinalityType
  <2> QED BY <2>1, <2>2
<1>2. \A q \in S : {r \in T : r < q} = {r \in S : r < q}
  <2>1. \A q \in S : q \in Nat /\ ~(n < q)
    OBVIOUS
  <2> QED BY <2>1
<1>3. {r \in T : r < n} = S
  <2>1. ~(n < n) /\ \A q \in S : q < n
    OBVIOUS
  <2> QED BY <2>1
<1> HIDE DEF T, N
<1>4. /\ s \in [1..N -> S] /\ \A i \in 1..N : s[i] \in S
      /\ \A i \in 1..N : Cardinality({r \in S : r < s[i]}) = i - 1
  <2>1. /\ s \in [1..N -> S]
        /\ \A i \in 1..N : \A q \in S : s[i] = q <=> Cardinality({r \in S : r < q}) = i - 1
    BY AscendingList DEF N
  <2>2. \A i \in 1..N : s[i] \in S
    BY <2>1
  <2> QED BY <2>1, <2>2, Zenon
<1>5. /\ t \in [1..N + 1 -> T]
      /\ \A i \in 1..N + 1 : \A q \in T : t[i] = q <=> Cardinality({r \in T : r < q}) = i - 1
  BY <1>1, AscendingList
<1> HIDE DEF s, t
<1>6. ASSUME NEW i \in 1..N PROVE t[i] = s[i]
  <2>1. s[i] \in S /\ s[i] \in T /\ i \in 1..N + 1
    <3>1. N \in Nat /\ S \subseteq T
      BY <1>1
    <3>2. s[i] \in S
      BY <1>4
    <3>3. i \in 1..N + 1
      BY ONLY <3>1, i \in 1..N
    <3>4. s[i] \in T
      BY ONLY <3>1, <3>2
    <3> QED BY <3>2, <3>3, <3>4
  <2>2. Cardinality({r \in T : r < s[i]}) = i - 1
    BY <1>2, <1>4, <2>1
  <2> QED BY <1>5, <2>1, <2>2
<1>7. t[N + 1] = n
  <2>1. N + 1 \in 1..N + 1 /\ Cardinality({r \in T : r < n}) = (N + 1) - 1
    BY <1>1, <1>3 DEF N
  <2> QED BY <1>1, <1>5, <2>1
<1>8. s \in Seq(S) /\ Len(s) = N
  BY <1>1, <1>4
<1>9. Append(s, n) = [i \in 1..N + 1 |-> IF i = N + 1 THEN n ELSE s[i]]
  <2>1. s \in Seq(T) /\ n \in T
    <3>1. N \in Nat /\ S \subseteq T /\ n \in T
      BY <1>1
    <3>2. s \in [1..N -> T]
      BY <1>4, <3>1
    <3> QED BY <3>1, <3>2
  <2>2. N \in Nat /\ Len(s) = N
    BY <1>1, <1>8
  <2>3. Append(s, n) = [i \in 1..Len(s) + 1 |-> IF i = Len(s) + 1 THEN n ELSE s[i]]
    BY <2>1, AppendedIs
  <2> QED BY <2>2, <2>3
<1>10. \A i \in 1..N + 1 : t[i] = IF i = N + 1 THEN n ELSE s[i]
  BY <1>1, <1>6, <1>7
<1>11. t = [i \in 1..N + 1 |-> t[i]]
  BY <1>5
<1>12. t = Append(s, n)
  BY <1>9, <1>10, <1>11
<1> QED BY <1>12 DEF s, t, T

LEMMA SelectedAppended ==
    ASSUME NEW list, NEW S, S \in SUBSET Nat, IsFiniteSet(S), NEW n \in Nat, \A q \in S : q < n
    PROVE  Selected(list, S \cup {n}) = Append(Selected(list, S), list[n])
<1> DEFINE N == Cardinality(S)
           s == Ascending(S)
           t == Ascending(S \cup {n})
           a == Selected(list, S)
           b == Selected(list, S \cup {n})
<1>1. N \in Nat /\ s \in [1..N -> S] /\ t = Append(s, n)
  BY AscendingList, AscendingAppended
<1>2. a = [p \in DOMAIN s |-> list[s[p]]] /\ b = [p \in DOMAIN t |-> list[t[p]]]
  BY DEF Selected
<1> HIDE DEF N, s, t, a, b
<1>3. s \in Seq(S \cup {n}) /\ Len(s) = N
  <2>1. s \in [1..N -> S \cup {n}]
    BY <1>1
  <2> QED BY <1>1, <2>1
<1>4. /\ DOMAIN t = 1..N + 1 /\ t[N + 1] = n
      /\ \A p \in 1..N : t[p] = s[p]
  BY <1>1, <1>3
<1>5. a \in Seq({list[s[p]] : p \in 1..N} \cup {list[n]}) /\ Len(a) = N
      /\ \A p \in 1..N : a[p] = list[s[p]]
  <2>1. a = [p \in 1..N |-> list[s[p]]]
    BY <1>1, <1>2
  <2> QED BY <1>1, <2>1
<1>6. Append(a, list[n]) = [p \in 1..N + 1 |-> IF p = N + 1 THEN list[n] ELSE a[p]]
  BY <1>1, <1>5
<1>7. b = [p \in 1..N + 1 |-> list[t[p]]]
  BY <1>2, <1>4
<1>8. \A p \in 1..N + 1 : list[t[p]] = IF p = N + 1 THEN list[n] ELSE a[p]
  <2>1. \A p \in 1..N + 1 : p = N + 1 \/ p \in 1..N
    BY <1>1
  <2> QED BY <1>4, <1>5, <2>1
<1>9. b = Append(a, list[n])
  BY <1>6, <1>7, <1>8
<1> QED BY <1>9 DEF a, b

\* the connectivity after each of the first n gates
Chain(h, gates, n) ==
    h[0] = <<>> /\ \A i \in 1..n : h[i] = Connected(h[i - 1], gates[i].qubits)
Links(gates, n, edges) == \E h : Chain(h, gates, n) /\ h[n] = edges

\* The gates determine it.
LEMMA OneConnectivity ==
    ASSUME NEW gates, NEW n \in Nat, NEW c, NEW d, Links(gates, n, c), Links(gates, n, d)
    PROVE  c = d
<1>1. PICK h : Chain(h, gates, n) /\ h[n] = c
  BY DEF Links
<1>2. PICK k : Chain(k, gates, n) /\ k[n] = d
  BY DEF Links
<1> DEFINE odd == {i \in 0..n : h[i] # k[i]}
<1>3. odd = {}
  <2> SUFFICES ASSUME odd # {} PROVE FALSE
    OBVIOUS
  <2>1. PICK m \in odd : \A i \in odd : m <= i
    <3>1. odd \subseteq Nat
      OBVIOUS
    <3> HIDE DEF odd
    <3> QED BY <3>1, LeastNumber
  <2>2. m \in 0..n /\ h[m] # k[m]
    BY <2>1
  <2>3. m # 0
    BY <1>1, <1>2, <2>2 DEF Chain
  <2>4. m \in 1..n /\ m - 1 \in 0..n /\ ~(m <= m - 1)
    BY <2>2, <2>3
  <2>5. h[m - 1] = k[m - 1]
    BY <2>1, <2>4
  <2> QED BY <1>1, <1>2, <2>2, <2>4, <2>5 DEF Chain
<1> QED BY <1>1, <1>2, <1>3

LEMMA LinksGrow ==
    ASSUME NEW n \in Nat, NEW a, NEW c, Links(a, n, c),
           NEW b, \A i \in 1..n : b[i] = a[i]
    PROVE  Links(b, n + 1, Connected(c, b[n + 1].qubits))
<1>1. PICK h : Chain(h, a, n) /\ h[n] = c
  BY DEF Links
<1> DEFINE k == [i \in 0..n + 1 |-> IF i = n + 1 THEN Connected(c, b[n + 1].qubits) ELSE h[i]]
<1>2. k[0] = h[0] /\ k[n] = c /\ k[n + 1] = Connected(c, b[n + 1].qubits)
  BY <1>1
<1>3. ASSUME NEW i \in 1..n PROVE k[i] = Connected(k[i - 1], b[i].qubits)
  <2>1. k[i] = h[i] /\ k[i - 1] = h[i - 1]
    OBVIOUS
  <2> HIDE DEF k
  <2> QED BY <1>1, <2>1 DEF Chain
<1> HIDE DEF k
<1>4. Chain(k, b, n + 1)
  <2>1. \A i \in 1..n + 1 : i = n + 1 \/ i \in 1..n
    OBVIOUS
  <2>2. (n + 1) - 1 = n
    OBVIOUS
  <2> QED BY <1>1, <1>2, <1>3, <2>1, <2>2 DEF Chain
<1> QED BY <1>2, <1>4 DEF Links

\* The tables of the two translators undo each other.
LEMMA NamesReturn ==
    ASSUME NEW name, Returns(name)
    PROVE  QiskitName(PLName(name)) = name
<1>1. CASE name \in DOMAIN QISKIT_TO_PL
  <2>1. \A p, q \in DOMAIN QISKIT_TO_PL : QISKIT_TO_PL[p] = QISKIT_TO_PL[q] => p = q
    BY DEF QISKIT_TO_PL
  <2> QED BY <1>1, <2>1, Zenon DEF PLName, QiskitName
<1>2. CASE name \notin DOMAIN QISKIT_TO_PL
  BY <1>2, Zenon DEF PLName, QiskitName, Returns
<1> QED BY <1>1, <1>2
\* what a program says, and what normalize makes of the first n operations
Program(ops) == [i \in DOMAIN ops |-> [name |-> ops[i].name, qubits |-> ops[i].qubits]]
NameIn(c, op) == IF c.input_type = "pennylane" THEN QiskitName(op.name) ELSE op.name
Translated(c, n) ==
    [i \in 1..n |-> [name |-> NameIn(c, c.text.ops[i]), qubits |-> c.text.ops[i].qubits]]

\* the gates as Qiskit would place them, and those it has a method for
Wired(c) ==
    [i \in DOMAIN c.gates |->
        [c.gates[i] EXCEPT !.qubits = [j \in DOMAIN c.gates[i].qubits |->
                                          IF c.gates[i].qubits[j] < 0
                                          THEN c.gates[i].qubits[j] + c.num_qubits
                                          ELSE c.gates[i].qubits[j]]]]
Methods(gates, n) == {i \in 1..n : gates[i].name \in GateMethods}

\* n operations are translated, n gates are built
Reading(c, n, x) ==
    /\ n \in 0..Len(c.text.ops) /\ x.gates = Translated(c, n)
    /\ x.num_qubits = c.text.num_qubits
    /\ Links(x.gates, n, x.connectivity)
Building(n, x, b) == n \in 0..Len(x.gates) /\ b = Selected(Wired(x), Methods(x.gates, n))

Progress ==
    /\ pc \in {"idle", "read"} => at = 1
    /\ pc \in {"idle", "read", "translate"} => built = <<>>
    /\ pc = "translate" => Reading(call, at - 1, ir)
    /\ pc \in {"build", "construct"} => Reading(call, Len(Ops), ir)
    /\ pc = "build" => Building(at - 1, ir, built)
    /\ pc = "construct" /\ FromTape => Building(Len(Ops), ir, built)

\* An accepted circuit, its connectivity, hash and QASM all being of its gates.
Sound(c) ==
    /\ c.gates = Program(c.gates)
    /\ Links(c.gates, Len(c.gates), c.connectivity)
    /\ c.circuit_hash = <<c.num_qubits, c.gates>>
    /\ Program(c.qasm_string.ops) = IF c.source_type = "pennylane"
                                    THEN Buildable(c.gates) ELSE c.gates

\* the calls that an accepted circuit is sent on with
Came(c) ==
    c.origin # None /\ c.origin.manifest # None =>
        /\ TypedCircuit(c.origin.ir) /\ Sound(c.origin.ir)
        /\ \/ c.entry = "normalize" /\ c.input_type = "pennylane" /\ c.text = Tape(c.origin.ir)
           \/ /\ c.entry = "qiskit_to_circuit_ir" /\ c.input_type = "qiskit"
              /\ c.text = c.origin.ir.qasm_string

\* what TranslatorsKeepCircuit says of one circuit
Survives(e) ==
    e.call.origin # None /\ e.call.origin.manifest # None =>
        LET from == e.call.origin.ir
            rebuilt == e.call.entry = "qiskit_to_circuit_ir"
            expected == IF rebuilt /\ from.source_type = "pennylane"
                        THEN Buildable(from.gates) ELSE from.gates
        IN  rebuilt \/ Unchanged(from.gates) =>
               /\ e.ir.gates = expected
               /\ expected = from.gates => e.ir.connectivity = from.connectivity
               /\ ~rebuilt => e.ir.circuit_hash = from.circuit_hash
Lasting(e) == (e.manifest # None => Sound(e.ir)) /\ Survives(e)

RoundInv == Progress /\ (pc # "idle" => Came(call)) /\ \A e \in catalog : Lasting(e)

LEMMA NothingSelected ==
    ASSUME NEW list
    PROVE  Selected(list, {}) = <<>>
<1>1. Cardinality({}) = 0 /\ IsFiniteSet({})
  BY FS_EmptySet
<1>2. Ascending({}) \in [1..0 -> {}]
  BY <1>1, AscendingList
<1> QED BY <1>2 DEF Selected

LEMMA NothingRead ==
    ASSUME NEW c, c.text.num_qubits \in Nat, Len(c.text.ops) \in Nat
    PROVE  Reading(c, 0, [NoCircuit EXCEPT !.num_qubits = c.text.num_qubits])
<1> DEFINE x == [NoCircuit EXCEPT !.num_qubits = c.text.num_qubits]
<1>1. x.gates = <<>> /\ x.connectivity = <<>> /\ x.num_qubits = c.text.num_qubits
  BY DEF NoCircuit
<1> HIDE DEF x
<1>2. Translated(c, 0) = <<>>
  BY DEF Translated
<1>3. Links(x.gates, 0, <<>>)
  <2>1. Chain([i \in 0..0 |-> <<>>], x.gates, 0)
    BY DEF Chain
  <2> QED BY <2>1 DEF Links
<1> QED BY <1>1, <1>2, <1>3 DEF Reading, x

\* One more operation.
LEMMA OneMoreRead ==
    ASSUME NEW c, NEW n \in Nat, n + 1 <= Len(c.text.ops), Len(c.text.ops) \in Nat,
           NEW x, Reading(c, n, x), NEW g,
           g = [name |-> NameIn(c, c.text.ops[n + 1]), qubits |-> c.text.ops[n + 1].qubits],
           NEW y, y.num_qubits = x.num_qubits, y.gates = Append(x.gates, g),
           y.connectivity = Connected(x.connectivity, g.qubits)
    PROVE  Reading(c, n + 1, y)
<1> DEFINE G(i) == [name |-> NameIn(c, c.text.ops[i]), qubits |-> c.text.ops[i].qubits]
<1>1. Translated(c, n) = [i \in 1..n |-> G(i)] /\ Translated(c, n + 1) = [i \in 1..n + 1 |-> G(i)]
  BY DEF Translated
<1>2. x.gates = [i \in 1..n |-> G(i)] /\ g = G(n + 1)
  BY <1>1 DEF Reading
<1> HIDE DEF G
<1> DEFINE R == {G(i) : i \in 1..n + 1}
<1>3. x.gates \in Seq(R) /\ Len(x.gates) = n /\ g \in R
  <2>1. g \in R /\ \A i \in 1..n : G(i) \in R
    <3>1. n + 1 \in 1..n + 1 /\ \A i \in 1..n : i \in 1..n + 1
      OBVIOUS
    <3> QED BY <1>2, <3>1
  <2> HIDE DEF R
  <2>2. x.gates \in [1..n -> R]
    BY <1>2, <2>1
  <2> DEFINE h == x.gates
  <2>3. h \in [1..n -> R]
    BY <2>2
  <2> HIDE DEF h
  <2>4. h \in Seq(R) /\ Len(h) = n
    BY ONLY <2>3, n \in Nat
  <2> QED BY <2>1, <2>4 DEF h
<1>4. y.gates = [i \in 1..n + 1 |-> IF i = n + 1 THEN g ELSE x.gates[i]]
  <2>1. y.gates = [i \in 1..Len(x.gates) + 1 |-> IF i = Len(x.gates) + 1 THEN g ELSE x.gates[i]]
    BY <1>3, AppendedIs
  <2> QED BY <1>3, <2>1
<1>5. \A i \in 1..n + 1 : y.gates[i] = G(i)
  BY <1>2, <1>4
<1>6. y.gates = Translated(c, n + 1)
  BY <1>1, <1>4, <1>5
<1>7. Links(y.gates, n + 1, y.connectivity)
  <2>1. \A i \in 1..n : y.gates[i] = x.gates[i]
    BY <1>4
  <2>2. y.gates[n + 1] = g
    BY <1>4
  <2>3. Links(x.gates, n, x.connectivity)
    BY DEF Reading
  <2>4. Links(y.gates, n + 1, Connected(x.connectivity, y.gates[n + 1].qubits))
    BY <2>1, <2>3, LinksGrow
  <2> QED BY <2>2, <2>4
<1> QED BY <1>6, <1>7 DEF Reading

\* One more gate, of those Qiskit has a method for or of the others.
LEMMA OneMoreBuilt ==
    ASSUME NEW x, TypedCircuit(x), NEW n \in Nat, n + 1 <= Len(x.gates), NEW b, Building(n, x, b)
    PROVE  IF x.gates[n + 1].name \in GateMethods
           THEN Building(n + 1, x, Append(b, Wired(x)[n + 1]))
           ELSE Building(n + 1, x, b)
<1> DEFINE S == Methods(x.gates, n)
           T == Methods(x.gates, n + 1)
<1>1. S \in SUBSET Nat /\ IsFiniteSet(S) /\ \A q \in S : q < n + 1
  <2>1. S \in SUBSET (1..n)
    BY DEF Methods
  <2>2. IsFiniteSet(S)
    BY <2>1, UpTo, FS_Subset
  <2> QED BY <2>1, <2>2
<1>2. n + 1 \in 0..Len(x.gates)
  BY DEF TypedCircuit, TypedList, IsList
<1>3. \A i \in 1..n + 1 : i = n + 1 \/ i \in 1..n
  OBVIOUS
<1>4. n + 1 \in 1..n + 1 /\ \A i \in 1..n : i \in 1..n + 1
  OBVIOUS
<1>5. T = IF x.gates[n + 1].name \in GateMethods THEN S \cup {n + 1} ELSE S
  BY <1>3, <1>4 DEF Methods
<1>6. Selected(Wired(x), S \cup {n + 1}) = Append(Selected(Wired(x), S), Wired(x)[n + 1])
  <2>1. n + 1 \in Nat
    OBVIOUS
  <2> HIDE DEF S
  <2> QED BY <1>1, <2>1, SelectedAppended
<1> QED BY <1>2, <1>5, <1>6 DEF Building
\* Translating a program keeps it; a translation is a program.
LEMMA TranslatedProgram ==
    ASSUME NEW c, DOMAIN c.text.ops = 1..Len(c.text.ops), Len(c.text.ops) \in Nat,
           NEW gates, gates = Translated(c, Len(c.text.ops))
    PROVE  /\ gates = Program(gates) /\ Len(gates) = Len(c.text.ops)
           /\ c.input_type # "pennylane" => Program(c.text.ops) = gates
<1> DEFINE n == Len(c.text.ops)
<1>1. gates = [i \in 1..n |-> [name |-> NameIn(c, c.text.ops[i]), qubits |-> c.text.ops[i].qubits]]
  BY DEF Translated
<1>2. DOMAIN gates = 1..n /\ Len(gates) = n
  BY <1>1
<1>3. \A i \in 1..n : gates[i] = [name |-> gates[i].name, qubits |-> gates[i].qubits]
  BY <1>1
<1>4. gates = [i \in 1..n |-> gates[i]]
  BY <1>1
<1>5. gates = Program(gates)
  BY <1>2, <1>3, <1>4 DEF Program
<1>6. ASSUME c.input_type # "pennylane" PROVE Program(c.text.ops) = gates
  <2>1. \A i \in 1..n : NameIn(c, c.text.ops[i]) = c.text.ops[i].name
    BY <1>6 DEF NameIn
  <2> QED BY <1>1, <2>1 DEF Program
<1> QED BY <1>2, <1>5, <1>6

\* What passes validation is placed where it says.
LEMMA WiredAsWritten ==
    ASSUME NEW c, TypedCircuit(c), c.gates = Program(c.gates), ~Invalid(c)
    PROVE  Wired(c) = c.gates
<1> DEFINE w(i) == [c.gates[i] EXCEPT !.qubits = [j \in DOMAIN c.gates[i].qubits |->
                                          IF c.gates[i].qubits[j] < 0
                                          THEN c.gates[i].qubits[j] + c.num_qubits
                                          ELSE c.gates[i].qubits[j]]]
<1>1. ASSUME NEW i \in DOMAIN c.gates PROVE w(i) = c.gates[i]
  <2> DEFINE g == c.gates[i]
             q == g.qubits
  <2>1. g = [name |-> g.name, qubits |-> q]
    BY DEF Program
  <2>2. q \in Seq(Int)
    BY DEF TypedCircuit, TypedList
  <2>3. \A j \in DOMAIN q : ~(q[j] < 0)
    BY DEF Invalid
  <2> HIDE DEF q
  <2>4. [j \in DOMAIN q |-> IF q[j] < 0 THEN q[j] + c.num_qubits ELSE q[j]] = q
    <3>1. [j \in DOMAIN q |-> IF q[j] < 0 THEN q[j] + c.num_qubits ELSE q[j]] = [j \in DOMAIN q |-> q[j]]
      BY <2>3
    <3>2. q = [j \in DOMAIN q |-> q[j]]
      BY <2>2
    <3> QED BY <3>1, <3>2
  <2>5. w(i) = [g EXCEPT !.qubits = q]
    BY <2>4 DEF q
  <2> HIDE DEF g, w
  <2>6. [g EXCEPT !.qubits = q] = g
    BY <2>1
  <2> QED BY <2>5, <2>6 DEF g
<1>2. Wired(c) = [i \in DOMAIN c.gates |-> w(i)]
  BY DEF Wired
<1> HIDE DEF w
<1>3. Wired(c) = [i \in DOMAIN c.gates |-> c.gates[i]]
  BY <1>1, <1>2
<1>4. c.gates = [i \in DOMAIN c.gates |-> c.gates[i]]
  BY DEF Program
<1> QED BY <1>3, <1>4

\* Gates at some places are gates.
LEMMA SelectedProgram ==
    ASSUME NEW gates, gates = Program(gates), NEW S, S \subseteq DOMAIN gates,
           S \in SUBSET Nat, IsFiniteSet(S)
    PROVE  Program(Selected(gates, S)) = Selected(gates, S)
<1> DEFINE s == Ascending(S)
           N == Cardinality(S)
           a == Selected(gates, S)
<1>1. s \in [1..N -> S]
  BY AscendingList
<1>2. a = [p \in DOMAIN s |-> gates[s[p]]]
  BY DEF Selected
<1> HIDE DEF s, a, N
<1>3. ASSUME NEW p \in DOMAIN a PROVE a[p] = [name |-> a[p].name, qubits |-> a[p].qubits]
  <2>1. s[p] \in DOMAIN gates /\ a[p] = gates[s[p]]
    BY <1>1, <1>2
  <2> DEFINE i == s[p]
  <2>2. gates[i] = [name |-> gates[i].name, qubits |-> gates[i].qubits]
    BY <2>1 DEF Program
  <2> QED BY <2>1, <2>2
<1>4. a = [p \in DOMAIN a |-> a[p]]
  BY <1>2
<1>5. Program(a) = a
  BY <1>3, <1>4 DEF Program
<1> QED BY <1>5 DEF a

\* All gates of an accepted tape are built, as written, that Qiskit has a method for.
LEMMA BuiltAsWritten ==
    ASSUME NEW c, TypedCircuit(c), c.gates = Program(c.gates), ~Invalid(c),
           NEW b, Building(Len(c.gates), c, b)
    PROVE  b = Buildable(c.gates) /\ Program(b) = Buildable(c.gates)
<1> DEFINE S == {i \in DOMAIN c.gates : c.gates[i].name \in GateMethods}
<1>1. DOMAIN c.gates = 1..Len(c.gates) /\ Len(c.gates) \in Nat
  BY DEF TypedCircuit, TypedList, IsList
<1>2. Methods(c.gates, Len(c.gates)) = S
  BY <1>1 DEF Methods
<1>3. b = Selected(c.gates, S)
  BY <1>2, WiredAsWritten DEF Building
<1>4. S \subseteq DOMAIN c.gates /\ S \in SUBSET Nat /\ IsFiniteSet(S)
  <2>1. S \in SUBSET (1..Len(c.gates))
    BY <1>1
  <2> HIDE DEF S
  <2>2. IsFiniteSet(S)
    BY <1>1, <2>1, UpTo, FS_Subset
  <2> QED BY <1>1, <2>1, <2>2
<1>5. Buildable(c.gates) = Selected(c.gates, S)
  BY DEF Buildable
<1> HIDE DEF S
<1>6. Program(Selected(c.gates, S)) = Selected(c.gates, S)
  BY <1>4, SelectedProgram
<1> QED BY <1>3, <1>5, <1>6

\* The tape of a circuit, read again, is the circuit.
LEMMA TapeReturns ==
    ASSUME NEW c, c.text = Tape(c.origin.ir), c.input_type = "pennylane",
           TypedCircuit(c.origin.ir), Sound(c.origin.ir), Unchanged(c.origin.ir.gates),
           NEW x, Reading(c, Len(c.text.ops), x)
    PROVE  /\ x.gates = c.origin.ir.gates /\ x.num_qubits = c.origin.ir.num_qubits
           /\ x.connectivity = c.origin.ir.connectivity
<1> DEFINE from == c.origin.ir
           n == Len(from.gates)
<1>1. DOMAIN from.gates = 1..n /\ n \in Nat
  BY DEF TypedCircuit, TypedList, IsList
<1>2. /\ c.text.ops = [i \in 1..n |-> [name |-> PLName(from.gates[i].name),
                                       qubits |-> from.gates[i].qubits]]
      /\ c.text.num_qubits = from.num_qubits
  BY <1>1 DEF Tape
<1>3. Len(c.text.ops) = n
  BY <1>1, <1>2
<1>4. ASSUME NEW i \in 1..n
      PROVE  [name |-> NameIn(c, c.text.ops[i]), qubits |-> c.text.ops[i].qubits] = from.gates[i]
  <2>1. c.text.ops[i].name = PLName(from.gates[i].name) /\ c.text.ops[i].qubits = from.gates[i].qubits
    BY <1>2
  <2>2. QiskitName(PLName(from.gates[i].name)) = from.gates[i].name
    BY <1>1, NamesReturn DEF Unchanged
  <2>3. from.gates[i] = [name |-> from.gates[i].name, qubits |-> from.gates[i].qubits]
    BY <1>1 DEF Sound, Program
  <2> HIDE DEF from
  <2> QED BY <2>1, <2>2, <2>3 DEF NameIn
<1>5. Translated(c, n) = [i \in 1..n |-> from.gates[i]]
  BY <1>4 DEF Translated
<1>6. from.gates = [i \in 1..n |-> from.gates[i]]
  BY <1>1 DEF Sound, Program
<1>7. x.gates = from.gates
  BY <1>3, <1>5, <1>6 DEF Reading
<1>8. Links(from.gates, n, x.connectivity) /\ Links(from.gates, n, from.connectivity)
  BY <1>3, <1>7 DEF Reading, Sound
<1>9. x.connectivity = from.connectivity
  BY <1>1, <1>8, OneConnectivity
<1>10. x.num_qubits = from.num_qubits
  BY <1>2 DEF Reading
<1> QED BY <1>7, <1>9, <1>10

\* The QASM of a circuit, read again, is what was built of it.
LEMMA ProgramReturns ==
    ASSUME NEW c, c.text = c.origin.ir.qasm_string, c.input_type = "qiskit", TypedText(c.text),
           TypedCircuit(c.origin.ir), Sound(c.origin.ir),
           NEW x, Reading(c, Len(c.text.ops), x),
           NEW expected, expected = IF c.origin.ir.source_type = "pennylane"
                                    THEN Buildable(c.origin.ir.gates) ELSE c.origin.ir.gates
    PROVE  /\ x.gates = expected
           /\ expected = c.origin.ir.gates => x.connectivity = c.origin.ir.connectivity
<1> DEFINE from == c.origin.ir
<1>1. x.gates = Translated(c, Len(c.text.ops))
  BY DEF Reading
<1>2. Program(c.text.ops) = x.gates /\ Len(x.gates) = Len(c.text.ops)
  BY <1>1, TranslatedProgram DEF TypedText
<1>3. x.gates = expected
  BY <1>2 DEF Sound
<1>4. ASSUME expected = from.gates PROVE x.connectivity = from.connectivity
  <2> DEFINE n == Len(from.gates)
  <2>1. n \in Nat
    BY DEF TypedCircuit, TypedList, IsList
  <2>2. Links(from.gates, n, x.connectivity) /\ Links(from.gates, n, from.connectivity)
    BY <1>2, <1>3, <1>4 DEF Reading, Sound
  <2> QED BY <2>1, <2>2, OneConnectivity
<1> QED BY <1>3, <1>4

-------------------------------------------------------------------------------
LEMMA RoundInit == IngestInit => RoundInv
BY DEF IngestInit, RoundInv, Progress

\* Return, with one more circuit that lasts or none.
LEMMA RoundReturn ==
    ASSUME RoundInv, Return,
           \/ catalog' = catalog
           \/ \E e : catalog' = catalog \cup {e} /\ Lasting(e)
    PROVE  RoundInv'
<1>1. \A e \in catalog' : Lasting(e)
  BY DEF RoundInv
<1>2. pc' = "idle" /\ at' = 1 /\ built' = <<>>
  BY DEF Return
<1> QED BY <1>1, <1>2 DEF RoundInv, Progress

LEMMA RoundSubmit == ASSUME IngestType, RoundInv, Submit PROVE RoundInv'
<1>1. /\ call' \in Submissions \cup Exports \cup Rebuilds /\ pc = "idle"
      /\ pc' = "read" /\ at' = at /\ ir' = ir /\ built' = built /\ catalog' = catalog
  BY DEF Submit
<1>2. Came(call')
  <2>1. CASE call' \in Submissions
    BY <2>1 DEF Submissions, NewCall, Came
  <2>2. CASE call' \in Exports
    <3>1. PICK e \in catalog : call' = NewCall("normalize", "pennylane", Tape(e.ir), e)
      BY <2>2 DEF Exports
    <3>2. /\ call'.entry = "normalize" /\ call'.input_type = "pennylane"
          /\ call'.text = Tape(e.ir) /\ call'.origin = e
      BY <3>1 DEF NewCall
    <3>3. e.manifest # None => Sound(e.ir) /\ TypedCircuit(e.ir)
      BY DEF RoundInv, Lasting, IngestType, TypedEntry
    <3> QED BY <3>2, <3>3 DEF Came
  <2>3. CASE call' \in Rebuilds
    <3>1. PICK e \in catalog :
             call' = NewCall("qiskit_to_circuit_ir", "qiskit", e.ir.qasm_string, e)
      BY <2>3 DEF Rebuilds
    <3>2. /\ call'.entry = "qiskit_to_circuit_ir" /\ call'.input_type = "qiskit"
          /\ call'.text = e.ir.qasm_string /\ call'.origin = e
      BY <3>1 DEF NewCall
    <3>3. e.manifest # None => Sound(e.ir) /\ TypedCircuit(e.ir)
      BY DEF RoundInv, Lasting, IngestType, TypedEntry
    <3> QED BY <3>2, <3>3 DEF Came
  <2> QED BY <1>1, <2>1, <2>2, <2>3
<1>3. \A e \in catalog' : Lasting(e)
  BY <1>1 DEF RoundInv
<1>4. Progress'
  BY <1>1 DEF RoundInv, Progress
<1> QED BY <1>2, <1>3, <1>4 DEF RoundInv

\* The steps of a call: it stays the same.
LEMMA RoundStays ==
    ASSUME RoundInv, pc # "idle", call' = call, catalog' = catalog, Progress'
    PROVE  RoundInv'
<1>1. Came(call') /\ \A e \in catalog' : Lasting(e)
  BY DEF RoundInv
<1> QED BY <1>1 DEF RoundInv

LEMMA RoundRead == ASSUME IngestType, RoundInv, Read PROVE RoundInv'
<1>1. /\ pc = "read" /\ pc' = "translate" /\ call' = call /\ at' = at /\ built' = built
      /\ catalog' = catalog /\ ir' = [NoCircuit EXCEPT !.num_qubits = call.text.num_qubits]
  BY DEF Read
<1>2. call.text.num_qubits \in Nat /\ Len(call.text.ops) \in Nat
  BY <1>1 DEF IngestType, TypedCall, TypedText
<1>3. Reading(call', 0, ir')
  BY <1>1, <1>2, NothingRead
<1>4. at' = 1 /\ built' = <<>> /\ at' - 1 = 0
  BY <1>1 DEF RoundInv, Progress
<1>5. Progress'
  BY <1>1, <1>3, <1>4 DEF Progress
<1> QED BY <1>1, <1>5, RoundStays

LEMMA RoundInstruction == ASSUME IngestType, RoundInv, Instruction PROVE RoundInv'
<1> DEFINE n == at - 1
           g == [name |-> GateName(Ops[at]), qubits |-> Ops[at].qubits]
<1>1. /\ pc = "translate" /\ at <= Len(Ops) /\ pc' = "translate" /\ call' = call
      /\ at' = at + 1 /\ built' = built /\ catalog' = catalog
      /\ ir' = [ir EXCEPT !.gates = Append(@, g), !.connectivity = Connected(@, Ops[at].qubits)]
  BY DEF Instruction
<1>2. n \in Nat /\ n + 1 = at /\ at' - 1 = n + 1
  BY <1>1 DEF IngestType
<1>3. Len(call.text.ops) \in Nat /\ n + 1 <= Len(call.text.ops)
  BY <1>1, <1>2 DEF IngestType, TypedCall, TypedText, Ops
<1>4. Reading(call, n, ir)
  BY <1>1 DEF RoundInv, Progress
<1>5. g = [name |-> NameIn(call, call.text.ops[n + 1]), qubits |-> call.text.ops[n + 1].qubits]
  BY <1>2 DEF GateName, NameIn, FromTape, Ops
<1>6. /\ ir'.num_qubits = ir.num_qubits /\ ir'.gates = Append(ir.gates, g)
      /\ ir'.connectivity = Connected(ir.connectivity, g.qubits)
  BY <1>1
<1> HIDE DEF n, g
<1>7. Reading(call', n + 1, ir')
  BY <1>1, <1>2, <1>3, <1>4, <1>5, <1>6, OneMoreRead
<1>8. built' = <<>>
  BY <1>1 DEF RoundInv, Progress
<1>9. Progress'
  BY <1>1, <1>2, <1>7, <1>8 DEF Progress
<1> QED BY <1>1, <1>9, RoundStays

LEMMA RoundEndOfText == ASSUME IngestType, RoundInv, EndOfText PROVE RoundInv'
<1>1. /\ pc = "translate" /\ at > Len(Ops) /\ pc' = IF FromTape THEN "build" ELSE "construct"
      /\ at' = 1 /\ call' = call /\ ir' = ir /\ built' = built /\ catalog' = catalog
  BY DEF EndOfText
<1>2. Reading(call, at - 1, ir) /\ built = <<>> /\ at \in Nat \ {0} /\ Len(Ops) \in Nat
  BY <1>1 DEF RoundInv, Progress, IngestType, TypedCall, TypedText, Ops
<1>3. at - 1 = Len(Ops)
  BY <1>1, <1>2 DEF Reading, Ops
<1>4. Building(0, ir, built)
  <2>1. Methods(ir.gates, 0) = {}
    BY DEF Methods
  <2>2. Len(ir.gates) \in Nat
    BY DEF IngestType, TypedCircuit, TypedList, IsList
  <2> QED BY <1>2, <2>1, <2>2, NothingSelected DEF Building
<1>5. Reading(call', Len(call'.text.ops), ir') /\ Building(at' - 1, ir', built')
  BY <1>1, <1>2, <1>3, <1>4 DEF Ops
<1>6. ~(pc' = "construct" /\ call'.input_type = "pennylane")
  BY <1>1 DEF FromTape
<1>7. Progress'
  BY <1>1, <1>5, <1>6 DEF Progress, FromTape, Ops
<1> QED BY <1>1, <1>7, RoundStays

LEMMA RoundBuild == ASSUME IngestType, RoundInv, Build PROVE RoundInv'
<1> DEFINE n == at - 1
           g == ir.gates[at]
           w == [g EXCEPT !.qubits = [j \in DOMAIN g.qubits |-> Wire(g.qubits[j])]]
<1>1. /\ pc = "build" /\ at <= Len(ir.gates) /\ pc' = "build" /\ at' = at + 1
      /\ call' = call /\ ir' = ir /\ catalog' = catalog
      /\ \/ g.name \in GateMethods /\ built' = Append(built, w)
         \/ g.name \notin GateMethods /\ built' = built
  BY DEF Build
<1>2. n \in Nat /\ n + 1 = at /\ at' - 1 = n + 1 /\ n + 1 <= Len(ir.gates) /\ TypedCircuit(ir)
  BY <1>1 DEF IngestType
<1>3. Building(n, ir, built) /\ Reading(call, Len(Ops), ir)
  BY <1>1 DEF RoundInv, Progress
<1>4. w = Wired(ir)[at]
  <2>1. at \in DOMAIN ir.gates
    BY <1>2 DEF TypedCircuit, TypedList, IsList
  <2> QED BY <2>1 DEF Wired, Wire
<1> HIDE DEF w, n
<1>5. IF g.name \in GateMethods THEN Building(n + 1, ir, Append(built, w))
      ELSE Building(n + 1, ir, built)
  BY <1>2, <1>3, <1>4, OneMoreBuilt
<1>6. Building(n + 1, ir', built')
  BY <1>1, <1>5
<1>7. Reading(call', Len(call'.text.ops), ir')
  BY <1>1, <1>3 DEF Ops
<1>8. Progress'
  BY <1>1, <1>2, <1>6, <1>7 DEF Progress, Ops
<1> QED BY <1>1, <1>8, RoundStays

LEMMA RoundEndOfBuild == ASSUME IngestType, RoundInv, EndOfBuild PROVE RoundInv'
<1>1. /\ pc = "build" /\ at > Len(ir.gates) /\ pc' = "construct" /\ at' = 1
      /\ call' = call /\ ir' = ir /\ built' = built /\ catalog' = catalog
  BY DEF EndOfBuild
<1>2. Building(at - 1, ir, built) /\ Reading(call, Len(Ops), ir) /\ at \in Nat \ {0}
  BY <1>1 DEF RoundInv, Progress, IngestType
<1>3. Len(ir.gates) = Len(Ops) /\ Len(Ops) \in Nat
  BY <1>1, <1>2, TranslatedProgram DEF IngestType, TypedCall, TypedText, Ops, Reading
<1>4. at - 1 = Len(Ops)
  BY <1>1, <1>2, <1>3 DEF Building
<1>5. Reading(call', Len(call'.text.ops), ir') /\ Building(Len(call'.text.ops), ir', built')
  BY <1>1, <1>2, <1>4 DEF Ops
<1>6. Progress'
  BY <1>1, <1>5 DEF Progress, Ops
<1> QED BY <1>1, <1>6, RoundStays

\* What is returned lasts.
LEMMA RoundBack ==
    ASSUME IngestType, RoundInv,
           \/ Unreadable \/ NotANumber \/ Unbuildable \/ NoQasmMethod \/ Refuse
           \/ ReturnCircuit \/ ReturnGates \/ Accept
    PROVE  RoundInv'
<1> DEFINE entry(c, m, d) == [call |-> call, ir |-> c, manifest |-> m, metadata |-> d]
<1>1. CASE Unreadable \/ NotANumber \/ Unbuildable \/ NoQasmMethod \/ Refuse
  BY <1>1, RoundReturn DEF Unreadable, NotANumber, Unbuildable, NoQasmMethod, Refuse, Raise
<1>2. ASSUME pc = "construct"
      PROVE  /\ Reading(call, Len(call.text.ops), ir) /\ TypedText(call.text) /\ TypedCircuit(ir)
             /\ ir.gates = Program(ir.gates) /\ Len(ir.gates) = Len(call.text.ops)
             /\ call.input_type # "pennylane" => Program(call.text.ops) = ir.gates
             /\ Came(call)
  <2>1. /\ Reading(call, Len(call.text.ops), ir) /\ TypedText(call.text) /\ TypedCircuit(ir)
        /\ Came(call)
    BY <1>2 DEF RoundInv, Progress, Ops, IngestType, TypedCall
  <2>2. ir.gates = Translated(call, Len(call.text.ops))
    BY <2>1 DEF Reading
  <2>3. /\ ir.gates = Program(ir.gates) /\ Len(ir.gates) = Len(call.text.ops)
        /\ call.input_type # "pennylane" => Program(call.text.ops) = ir.gates
    BY <2>1, <2>2, TranslatedProgram DEF TypedText
  <2> QED BY <2>1, <2>3
<1>3. /\ CircuitIR.num_qubits = ir.num_qubits /\ CircuitIR.gates = ir.gates
      /\ CircuitIR.connectivity = ir.connectivity
      /\ CircuitIR.circuit_hash = <<ir.num_qubits, ir.gates>>
      /\ FromTape => CircuitIR.source_type = "pennylane" /\ CircuitIR.qasm_string.ops = built
      /\ ~FromTape => CircuitIR.source_type = "openqasm" /\ CircuitIR.qasm_string = call.text
  BY DEF CircuitIR, CircuitHash, QasmString
<1>4. CASE Accept
  <2>1. /\ pc = "construct" /\ call.entry = "normalize_to_manifest" /\ ~Invalid(CircuitIR)
        /\ Return
        /\ catalog' = catalog \cup {entry(CircuitIR, Manifest(CircuitIR), Metadata(CircuitIR))}
    BY <1>4 DEF Accept, Catalogued
  <2>2. Survives(entry(CircuitIR, Manifest(CircuitIR), Metadata(CircuitIR)))
    BY <1>2, <2>1 DEF Came, Survives
  <2>3. ~Invalid(ir)
    BY <1>3, <2>1 DEF Invalid
  <2>4. Program(CircuitIR.qasm_string.ops) = IF CircuitIR.source_type = "pennylane"
                                             THEN Buildable(ir.gates) ELSE ir.gates
    <3>1. CASE FromTape
      <4>1. Building(Len(ir.gates), ir, built)
        BY <1>2, <2>1, <3>1 DEF RoundInv, Progress, Ops
      <4>2. Program(built) = Buildable(ir.gates)
        BY <1>2, <2>1, <2>3, <4>1, BuiltAsWritten
      <4> QED BY <1>3, <3>1, <4>2
    <3>2. CASE ~FromTape
      BY <1>2, <1>3, <2>1, <3>2 DEF FromTape
    <3> QED BY <3>1, <3>2
  <2>5. Links(ir.gates, Len(ir.gates), ir.connectivity) /\ ir.gates = Program(ir.gates)
    BY <1>2, <2>1 DEF Reading
  <2>6. Sound(CircuitIR)
    BY <1>3, <2>4, <2>5 DEF Sound
  <2>7. Lasting(entry(CircuitIR, Manifest(CircuitIR), Metadata(CircuitIR)))
    BY <2>2, <2>6 DEF Lasting
  <2> QED BY <2>1, <2>7, RoundReturn
<1>5. CASE ReturnCircuit
  <2>1. /\ pc = "construct" /\ call.entry = "normalize" /\ Return
        /\ catalog' = catalog \cup {entry(CircuitIR, None, None)}
    BY <1>5 DEF ReturnCircuit, Catalogued
  <2>2. ASSUME call.origin # None, call.origin.manifest # None, Unchanged(call.origin.ir.gates)
        PROVE  /\ CircuitIR.gates = call.origin.ir.gates
               /\ CircuitIR.connectivity = call.origin.ir.connectivity
               /\ CircuitIR.circuit_hash = call.origin.ir.circuit_hash
    <3>1. /\ TypedCircuit(call.origin.ir) /\ Sound(call.origin.ir)
          /\ call.input_type = "pennylane" /\ call.text = Tape(call.origin.ir)
          /\ Reading(call, Len(call.text.ops), ir)
      BY <1>2, <2>1, <2>2 DEF Came
    <3>2. /\ ir.gates = call.origin.ir.gates /\ ir.num_qubits = call.origin.ir.num_qubits
          /\ ir.connectivity = call.origin.ir.connectivity
      BY <2>2, <3>1, TapeReturns
    <3>3. call.origin.ir.circuit_hash = <<call.origin.ir.num_qubits, call.origin.ir.gates>>
      BY <3>1 DEF Sound
    <3> QED BY <1>3, <3>2, <3>3
  <2>3. Lasting(entry(CircuitIR, None, None))
    BY <2>1, <2>2 DEF Lasting, Survives
  <2> QED BY <2>1, <2>3, RoundReturn
<1>6. CASE ReturnGates
  <2>1. /\ pc = "construct" /\ call.entry = "qiskit_to_circuit_ir" /\ Return
        /\ catalog' = catalog \cup {entry(ir, None, None)}
    BY <1>6 DEF ReturnGates, Catalogued
  <2> DEFINE from == call.origin.ir
             expected == IF from.source_type = "pennylane" THEN Buildable(from.gates) ELSE from.gates
  <2>2. ASSUME call.origin # None, call.origin.manifest # None
        PROVE  /\ ir.gates = expected
               /\ expected = from.gates => ir.connectivity = from.connectivity
    <3>1. /\ TypedCircuit(call.origin.ir) /\ Sound(call.origin.ir)
          /\ call.input_type = "qiskit" /\ call.text = call.origin.ir.qasm_string
          /\ TypedText(call.text) /\ Reading(call, Len(call.text.ops), ir)
      BY <1>2, <2>1, <2>2 DEF Came
    <3> QED BY <3>1, ProgramReturns
  <2>3. Lasting(entry(ir, None, None))
    BY <2>1, <2>2 DEF Lasting, Survives
  <2> QED BY <2>1, <2>3, RoundReturn
<1> QED BY <1>1, <1>4, <1>5, <1>6

LEMMA RoundKeeps == IngestType /\ RoundInv /\ [IngestNext]_ingestVars => RoundInv'
<1>1. IngestType /\ RoundInv /\ IngestNext => RoundInv'
  BY RoundSubmit, RoundRead, RoundInstruction, RoundEndOfText, RoundBuild, RoundEndOfBuild,
     RoundBack DEF IngestNext, Translation
<1>2. RoundInv /\ UNCHANGED ingestVars => RoundInv'
  BY DEF ingestVars, RoundInv, Progress, FromTape, Ops
<1> QED BY <1>1, <1>2

\* A circuit that passed validation survives both translators, whatever texts are
\* submitted and whatever gates Qiskit has methods for.
THEOREM CircuitKept == Spec => []TranslatorsKeepCircuit
<1>1. RoundInv => TranslatorsKeepCircuit
  BY DEF RoundInv, Lasting, Survives, TranslatorsKeepCircuit
<1>2. Init => RoundInv
  BY RoundInit DEF Init
<1>3. IngestType /\ RoundInv /\ [Next]_vars => RoundInv'
  <2>1. IngestType /\ RoundInv /\ UNCHANGED ingestVars => RoundInv'
    BY RoundKeeps
  <2> QED BY <2>1, RoundKeeps DEF Next, vars
<1> QED BY <1>1, <1>2, <1>3, TypesInit, TypesKept, PTL DEF Spec
===============================================================================
