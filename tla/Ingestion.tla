------------------------------- MODULE Ingestion -------------------------------
(***************************************************************************)
(* CircuitNormalizer, the validator, the metadata and the two translators  *)
(* of src/qontos/circuit: a submitted text becomes a CircuitIR and a       *)
(* manifest, and a CircuitIR is exported as a PennyLane tape or rebuilt in *)
(* Qiskit and read back.  One call at a time, one instruction per step.    *)
(*                                                                         *)
(* Abstracted: a text is what its parser (Qiskit's, json's) finds in it; a *)
(* name stands for a name with its parameters; depth, costs, warnings and  *)
(* timestamps; a SHA-256 of a JSON dump is what was dumped.  An operation  *)
(* that has operands has those its gate takes.                             *)
(***************************************************************************)
EXTENDS Integers, FiniteSets, Sequences

CONSTANTS
    Texts,              \* texts that may be submitted: [language, num_qubits, ops], of
                        \* operations [name, qubits], in a program also [clbits]
    Lower,              \* str.lower(), on the names that it changes
    GateMethods,        \* gates that QuantumCircuit has a method for, of their own name:
                        \* a method that adds a gate of another (i adds id) is not among them
    OtherAttributes,    \* its other attributes: called with qubits only, they raise
    ControlFlow,        \* operations whose parameters float() does not take
    Shots,              \* shots asked for (4096 by default)
    MaxQubits, MaxGates,    \* limits of the validator (10000 and 1000000 in the code)
    MaxCalls            \* bound: calls made

\* Python's None: the empty function, which is no record
None == <<>>

Languages == {"qasm2", "qasm3", "tape", "malformed"}
InputTypes == {"qiskit", "openqasm", "pennylane", "cirq"}
Entries == {"normalize", "normalize_to_manifest", "qiskit_to_circuit_ir"}

ASSUME LimitsOK == MaxQubits \in Nat /\ MaxGates \in Nat /\ MaxCalls \in Nat

\* Qiskit gives the qubits of a program as distinct indices, at least one; a tape
\* has any wires, or none
ASSUME TextsOK ==
    \A t \in Texts :
        /\ t.language \in Languages /\ t.num_qubits \in Nat
        /\ DOMAIN t.ops = 1..Len(t.ops) /\ Len(t.ops) \in Nat
        /\ \A i \in DOMAIN t.ops :
              /\ t.ops[i].qubits \in Seq(Int)
              /\ t.language \in {"qasm2", "qasm3"} =>
                    /\ t.ops[i].qubits # <<>>
                    /\ \A j \in DOMAIN t.ops[i].qubits : t.ops[i].qubits[j] \in 0..t.num_qubits - 1
                    /\ \A j, m \in DOMAIN t.ops[i].qubits :
                          j # m => t.ops[i].qubits[j] # t.ops[i].qubits[m]

VARIABLES
    calls,      \* how many calls were made
    call,       \* the arguments of the current one
    pc,
    at,         \* the instruction the current loop looks at
    ir,         \* the CircuitIR under construction
    built,      \* the instructions of the QuantumCircuit built from a tape
    catalog     \* the circuits returned, with the call that did and the manifest

ingestVars == <<calls, call, pc, at, ir, built, catalog>>

-------------------------------------------------------------------------------
\* a set of numbers in their order, and the elements of a list at some places
Ascending(S) == [i \in 1..Cardinality(S) |->
                    CHOOSE q \in S : Cardinality({r \in S : r < q}) = i - 1]
Selected(list, places) == LET chosen == Ascending(places)
                          IN  [p \in DOMAIN chosen |-> list[chosen[p]]]

(* Names, the translators' tables *)
QISKIT_TO_PL == [h |-> "Hadamard", x |-> "PauliX", y |-> "PauliY", z |-> "PauliZ",
                 cx |-> "CNOT", cz |-> "CZ", swap |-> "SWAP",
                 rx |-> "RX", ry |-> "RY", rz |-> "RZ",
                 t |-> "T", s |-> "S", ccx |-> "Toffoli"]

PLName(name) == IF name \in DOMAIN QISKIT_TO_PL THEN QISKIT_TO_PL[name] ELSE name

Lowered(name) == IF name \in DOMAIN Lower THEN Lower[name] ELSE name
\* mutant: the table is not looked up
LoweredOnly(name) == Lowered(name)
QiskitName(name) ==
    IF \E q \in DOMAIN QISKIT_TO_PL : QISKIT_TO_PL[q] = name
    THEN CHOOSE q \in DOMAIN QISKIT_TO_PL : QISKIT_TO_PL[q] = name
    ELSE Lowered(name)

\* an attribute called on no qubits at all might do anything to the circuit being
\* built, such as clear(): no tape does that
ASSUME WiresOK ==
    \A t \in Texts : \A i \in DOMAIN t.ops :
        t.language = "tape" /\ t.ops[i].qubits = <<>> =>
            QiskitName(t.ops[i].name) \notin OtherAttributes

-------------------------------------------------------------------------------
(* Calls *)
NoCircuit == [num_qubits |-> 0, gates |-> <<>>, connectivity |-> <<>>]
NoCall == [entry |-> "none"]

NewCall(entry, input_type, text, origin) ==
    [entry |-> entry, input_type |-> input_type, text |-> text, origin |-> origin]

\* circuit_ir_to_pennylane_json
Tape(c) == [language |-> "tape", num_qubits |-> c.num_qubits,
            ops |-> [i \in DOMAIN c.gates |-> [name |-> PLName(c.gates[i].name),
                                                qubits |-> c.gates[i].qubits]]]

Submissions == {NewCall(e, it, t, None) :
                   e \in {"normalize", "normalize_to_manifest"}, it \in InputTypes, t \in Texts}
\* a circuit of the catalog is sent on as a tape, or rebuilt from its qasm_string
Exports == {NewCall("normalize", "pennylane", Tape(e.ir), e) :
               e \in {f \in catalog : f.call.origin = None}}
Rebuilds == {NewCall("qiskit_to_circuit_ir", "qiskit", e.ir.qasm_string, e) :
                e \in {f \in catalog : f.call.origin = None}}

\* what normalize() dispatches to, or circuit_ir_to_qiskit, can read; the latter
\* only OpenQASM 2
Readable(c) ==
    CASE c.entry = "qiskit_to_circuit_ir" -> c.text.language = "qasm2"
      [] c.input_type \in {"qiskit", "openqasm"} -> c.text.language \in {"qasm2", "qasm3"}
      [] c.input_type = "pennylane" -> c.text.language = "tape"
      [] OTHER -> FALSE

FromTape == call.input_type = "pennylane"
Ops == call.text.ops

IngestInit == /\ calls = 0 /\ call = NoCall /\ pc = "idle" /\ at = 1
              /\ ir = NoCircuit /\ built = <<>> /\ catalog = {}

Submit == /\ pc = "idle" /\ calls < MaxCalls
          /\ call' \in Submissions \cup Exports \cup Rebuilds
          /\ calls' = calls + 1
          /\ pc' = "read"
          /\ UNCHANGED <<at, ir, built, catalog>>

\* back to the caller, with an exception or with a circuit
Return == /\ pc' = "idle" /\ call' = NoCall /\ at' = 1 /\ ir' = NoCircuit /\ built' = <<>>
          /\ UNCHANGED calls
Raise == Return /\ UNCHANGED catalog

-------------------------------------------------------------------------------
(* normalize *)
Unreadable == /\ pc = "read" /\ ~Readable(call)
              /\ Raise

Read == /\ pc = "read" /\ Readable(call)
        /\ pc' = "translate"
        /\ ir' = [NoCircuit EXCEPT !.num_qubits = call.text.num_qubits]
        /\ UNCHANGED <<calls, call, at, built, catalog>>

GateName(op) == IF FromTape THEN QiskitName(op.name) ELSE op.name

\* tuple(sorted(qubits))
\* mutant: not sorted
EdgeUnsorted(qubits) == qubits
Edge(qubits) == IF qubits[1] <= qubits[2] THEN qubits ELSE <<qubits[2], qubits[1]>>

\* mutant: without looking whether the edge is there
ConnectedTwice(edges, qubits) ==
    IF Len(qubits) = 2 THEN Append(edges, Edge(qubits)) ELSE edges
Connected(edges, qubits) ==
    IF Len(qubits) = 2 /\ \A i \in DOMAIN edges : edges[i] # Edge(qubits)
    THEN Append(edges, Edge(qubits))
    ELSE edges

Instruction ==
    LET op == Ops[at]
    IN  /\ pc = "translate" /\ at <= Len(Ops)
        /\ FromTape \/ op.name \notin ControlFlow
        /\ ir' = [ir EXCEPT !.gates = Append(@, [name |-> GateName(op), qubits |-> op.qubits]),
                            !.connectivity = Connected(@, op.qubits)]
        /\ at' = at + 1
        /\ UNCHANGED <<calls, call, pc, built, catalog>>

\* float(p) of a control-flow operation's blocks
NotANumber == /\ pc = "translate" /\ at <= Len(Ops)
              /\ ~FromTape /\ Ops[at].name \in ControlFlow
              /\ Raise

EndOfText == /\ pc = "translate" /\ at > Len(Ops)
             /\ pc' = IF FromTape THEN "build" ELSE "construct"
             /\ at' = 1
             /\ UNCHANGED <<calls, call, ir, built, catalog>>

(* The circuit built from a tape, for its QASM: Qiskit takes a negative index  *)
(* from the end, and neither one out of range nor a qubit twice; a gate's     *)
(* method takes at least one.                                                 *)
Wire(q) == IF q < 0 THEN q + ir.num_qubits ELSE q
Placeable(qubits) ==
    /\ qubits # <<>>
    /\ \A j \in DOMAIN qubits : qubits[j] \in -ir.num_qubits..ir.num_qubits - 1
    /\ \A j, m \in DOMAIN qubits : j # m => Wire(qubits[j]) # Wire(qubits[m])

Build == LET g == ir.gates[at]
         IN  /\ pc = "build" /\ at <= Len(ir.gates)
             /\ \/ /\ g.name \in GateMethods /\ Placeable(g.qubits)
                   /\ built' = Append(built, [g EXCEPT !.qubits =
                                                [j \in DOMAIN g.qubits |-> Wire(g.qubits[j])]])
                \/ /\ g.name \notin GateMethods \cup OtherAttributes
                   /\ UNCHANGED built
             /\ at' = at + 1
             /\ UNCHANGED <<calls, call, pc, ir, catalog>>

Unbuildable == LET g == ir.gates[at]
               IN  /\ pc = "build" /\ at <= Len(ir.gates)
                   /\ \/ g.name \in GateMethods /\ ~Placeable(g.qubits)
                      \/ g.name \in OtherAttributes \ GateMethods
                   /\ Raise

EndOfBuild == /\ pc = "build" /\ at > Len(ir.gates)
              /\ pc' = "construct" /\ at' = 1
              /\ UNCHANGED <<calls, call, ir, built, catalog>>

\* QuantumCircuit.qasm() is gone in Qiskit 1.0; with an earlier one the call goes on
NoQasmMethod == /\ pc = "construct" /\ FromTape
                /\ Raise

-------------------------------------------------------------------------------
(* The CircuitIR, validation, and the manifest *)
QasmString == IF FromTape
              THEN [language |-> "qasm2", num_qubits |-> ir.num_qubits, ops |-> built]
              ELSE call.text

\* mutant: the hash of the gates alone
HashGates(c) == c.gates
CircuitHash(c) == <<c.num_qubits, c.gates>>

CircuitIR == [num_qubits |-> ir.num_qubits, gates |-> ir.gates,
              connectivity |-> ir.connectivity,
              source_type |-> IF FromTape THEN "pennylane" ELSE "openqasm",
              circuit_hash |-> CircuitHash(ir), qasm_string |-> QasmString]

\* mutant: only the upper end is looked at
InvalidAbove(c) ==
    \/ c.num_qubits < 1 \/ c.num_qubits > MaxQubits
    \/ Len(c.gates) > MaxGates
    \/ \E i \in DOMAIN c.gates : \E j \in DOMAIN c.gates[i].qubits :
          c.gates[i].qubits[j] >= c.num_qubits
\* mutant: the limits are not looked at
InvalidUnlimited(c) ==
    \/ c.num_qubits < 1
    \/ \E i \in DOMAIN c.gates : \E j \in DOMAIN c.gates[i].qubits :
          c.gates[i].qubits[j] \notin 0..c.num_qubits - 1
Invalid(c) ==
    \/ c.num_qubits < 1 \/ c.num_qubits > MaxQubits
    \/ Len(c.gates) > MaxGates
    \/ \E i \in DOMAIN c.gates : \E j \in DOMAIN c.gates[i].qubits :
          \/ c.gates[i].qubits[j] < 0
          \/ c.gates[i].qubits[j] >= c.num_qubits

Manifest(c) == [job_id |-> calls, input_type |-> call.input_type,
                circuit_hash |-> c.circuit_hash, num_qubits |-> c.num_qubits,
                gate_count |-> Len(c.gates), shots |-> Shots,
                optimization_level |-> 1, circuit_inline |-> call.text]

Operands(c, i) == Len(c.gates[i].qubits)
\* mutant: more than one operand counts as two
TwoOrMore(c) == {i \in DOMAIN c.gates : Operands(c, i) >= 2}
TwoQubit(c) == {i \in DOMAIN c.gates : Operands(c, i) = 2}
Metadata(c) == [single_qubit_gates |-> Cardinality({i \in DOMAIN c.gates : Operands(c, i) = 1}),
                two_qubit_gates |-> Cardinality(TwoQubit(c)),
                multi_qubit_gates |-> Cardinality({i \in DOMAIN c.gates : Operands(c, i) > 2}),
                connectivity_edges |-> Len(c.connectivity),
                has_measurements |-> \E i \in DOMAIN c.gates : c.gates[i].name = "measure"]

Catalogued(circuit, manifest, metadata) ==
    catalog' = catalog \cup {[call |-> call, ir |-> circuit, manifest |-> manifest,
                              metadata |-> metadata]}

ReturnCircuit == /\ pc = "construct" /\ call.entry = "normalize"
                 /\ Return /\ Catalogued(CircuitIR, None, None)

\* the dictionary of qiskit_to_circuit_ir
ReturnGates == /\ pc = "construct" /\ call.entry = "qiskit_to_circuit_ir"
               /\ Return /\ Catalogued(ir, None, None)

Refuse == /\ pc = "construct" /\ call.entry = "normalize_to_manifest"
          /\ Invalid(CircuitIR)
          /\ Raise

Accept == /\ pc = "construct" /\ call.entry = "normalize_to_manifest"
          /\ ~Invalid(CircuitIR)
          /\ Return /\ Catalogued(CircuitIR, Manifest(CircuitIR), Metadata(CircuitIR))

Translation == \/ Unreadable \/ Read
               \/ Instruction \/ NotANumber \/ EndOfText
               \/ Build \/ Unbuildable \/ EndOfBuild \/ NoQasmMethod

IngestNext == \/ Submit \/ Translation
              \/ ReturnCircuit \/ ReturnGates \/ Refuse \/ Accept

IngestSpec == IngestInit /\ [][IngestNext]_ingestVars

-------------------------------------------------------------------------------
Locations == {"idle", "read", "translate", "build", "construct"}

Joins(edge, qubits) == {edge[1], edge[2]} = {qubits[1], qubits[2]}

\* What normalize_to_manifest returns is what Partitioner takes, but for gates on
\* no qubits at all: every operand is a qubit of the circuit, and the connectivity
\* is the coupling graph of its two-qubit gates, each edge once; and the metadata
\* accounts for every gate that has operands.
AcceptedFitsPartitioner ==
    \A e \in catalog : e.manifest # None =>
        LET c == e.ir
        IN  /\ c.num_qubits > 0
            /\ \A i \in DOMAIN c.gates : \A j \in DOMAIN c.gates[i].qubits :
                  c.gates[i].qubits[j] \in 0..c.num_qubits - 1
            /\ \A i \in DOMAIN c.gates : Len(c.gates[i].qubits) = 2 =>
                  \E m \in DOMAIN c.connectivity : Joins(c.connectivity[m], c.gates[i].qubits)
            /\ \A m \in DOMAIN c.connectivity :
                  /\ c.connectivity[m][1] <= c.connectivity[m][2]
                  /\ \E i \in DOMAIN c.gates : /\ Len(c.gates[i].qubits) = 2
                                               /\ Joins(c.connectivity[m], c.gates[i].qubits)
                  /\ \A l \in DOMAIN c.connectivity :
                        l # m => c.connectivity[l] # c.connectivity[m]
            /\ e.metadata.single_qubit_gates + e.metadata.two_qubit_gates
                   + e.metadata.multi_qubit_gates
               = Cardinality({i \in DOMAIN c.gates : c.gates[i].qubits # <<>>})

\* names that come back from a tape: those of the table, and others in lower case
Returns(name) == \/ name \in DOMAIN QISKIT_TO_PL
                 \/ Lowered(name) = name /\ \A q \in DOMAIN QISKIT_TO_PL : QISKIT_TO_PL[q] # name
Unchanged(gates) == \A i \in DOMAIN gates : Returns(gates[i].name)
Buildable(gates) == Selected(gates, {i \in DOMAIN gates : gates[i].name \in GateMethods})

\* A circuit that passed validation survives the translators: sent on as a tape it
\* comes back with the same gates and edges, so with the same hash, whatever its
\* first format; and what an executor rebuilds in Qiskit has the gates the
\* partitioner planned for, but for those of a tape that Qiskit has no method for.
TranslatorsKeepCircuit ==
    \A e \in catalog : e.call.origin # None /\ e.call.origin.manifest # None =>
        LET from == e.call.origin.ir
            rebuilt == e.call.entry = "qiskit_to_circuit_ir"
            expected == IF rebuilt /\ from.source_type = "pennylane"
                        THEN Buildable(from.gates) ELSE from.gates
        IN  rebuilt \/ Unchanged(from.gates) =>
               /\ e.ir.gates = expected
               /\ expected = from.gates => e.ir.connectivity = from.connectivity
               /\ ~rebuilt => e.ir.circuit_hash = from.circuit_hash
===============================================================================
