----------------------------- MODULE MCPartitioner -----------------------------
(* Small instances of Partitioner for TLC. *)
EXTENDS Partitioner

CONSTANTS Small, Wide   \* qubits of the circuits: up to Small with any gates, and Wide

GateLists(qubits, sizes, len) ==
    UNION {[1..l -> {g \in SUBSET (0..qubits - 1) : Cardinality(g) \in sizes}] : l \in 0..len}
CircuitsOf(qubits, sizes, len) ==
    {[num_qubits |-> qubits, gates |-> gs] : gs \in GateLists(qubits, sizes, len)}

MCCircuits == (UNION {CircuitsOf(q, 1..3, 2) : q \in 0..Small}) \cup CircuitsOf(Wide, {2, 3, 4}, 2)

Constraint(target, max_qubits, min, max, strategy) ==
    [target |-> target, max_qubits |-> max_qubits, min |-> min, max |-> max,
     strategy |-> strategy]

\* every branch of the resolution, and every strategy on few and many partitions
MCRequests ==
    {Constraint(c[1], c[2], c[3], c[4], "auto") :
        c \in {<<None, None, 1, None>>, <<0, None, 1, None>>, <<None, 0, 1, None>>,
               <<None, 1, 1, None>>, <<None, 2, 1, 1>>, <<None, 2, 3, None>>,
               <<None, None, 3, 2>>}}
    \cup {Constraint(t, 2, 1, 1, s) : t \in {2, 3, 5}, s \in Strategies}
===============================================================================
