-------------------------- MODULE MCResultAggregation --------------------------
(* Small plans for TLC. *)
EXTENDS ResultAggregation

Plan(n, parts, cuts) == [n |-> n, parts |-> parts, cuts |-> cuts]

\* one partition; intervals and interleaved qubits, cut or not; three
\* partitions; a circuit too wide for the exact enumeration
MCPlans == {Plan(2, <<{0, 1}>>, 0),
            Plan(2, <<{0}, {1}>>, 0), Plan(2, <<{1}, {0}>>, 1),
            Plan(3, <<{0, 1}, {2}>>, 0), Plan(3, <<{0, 2}, {1}>>, 0),
            Plan(3, <<{0, 2}, {1}>>, 1), Plan(3, <<{0}, {1, 2}>>, 1),
            Plan(3, <<{0}, {1}, {2}>>, 2)}
===============================================================================
