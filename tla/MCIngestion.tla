------------------------------ MODULE MCIngestion ------------------------------
(* Programs and tapes for TLC. *)
EXTENDS Ingestion, TLC

Op(name, qubits) == [name |-> name, qubits |-> qubits]
Measure(q, c) == [name |-> "measure", qubits |-> <<q>>, clbits |-> <<c>>]
Text(language, num_qubits, ops) ==
    [language |-> language, num_qubits |-> num_qubits, ops |-> ops]

Programs == {
    Text("qasm2", 2, <<Op("cx", <<1, 0>>), Measure(0, 0)>>),
    Text("qasm2", 2, <<Op("cx", <<1, 0>>), Measure(0, 1)>>),
    Text("qasm2", 2, <<Op("cx", <<0, 1>>), Op("cz", <<1, 0>>)>>),
    Text("qasm2", 3, <<Op("ccx", <<0, 2, 1>>), Op("myGate", <<1>>)>>),
    Text("qasm3", 1, <<Op("if_else", <<0>>)>>),
    Text("qasm3", 2, <<Op("h", <<1>>)>>),
    Text("qasm2", 0, <<>>), Text("qasm2", 4, <<>>),
    Text("malformed", 0, <<>>) }

\* known gates, a gate Qiskit does not have; wires out of range, negative, repeated
\* or missing
PennyLaneTapes == {
    Text("tape", 2, <<Op("Hadamard", <<1>>), Op("CNOT", <<1, 0>>)>>),
    Text("tape", 2, <<Op("FooGate", <<0, 1>>), Op("PauliX", <<0>>)>>),
    Text("tape", 2, <<Op("PauliX", <<-1>>)>>),
    Text("tape", 2, <<Op("FooGate", <<2>>)>>),
    Text("tape", 2, <<Op("CZ", <<1, -1>>)>>),
    Text("tape", 2, <<Op("FooGate", <<>>), Op("PauliX", <<1>>)>>),
    Text("tape", 1, <<Op("PauliX", <<>>)>>) }

MCTexts == Programs \cup PennyLaneTapes
MCLower == ("FooGate" :> "foogate") @@ ("myGate" :> "mygate")
MCMethods == {"h", "x", "cx", "cz", "ccx"}
===============================================================================
