------------------------------ MODULE MCScheduler ------------------------------
(* Small fleets and jobs for TLC. *)
EXTENDS Scheduler

Machine(qubits, depth) == [qubits |-> qubits, depth |-> depth]

\* a large, a small and a shallow backend, two alike, one, none
MCFleets == {<<Machine(2, Unlimited), Machine(1, Unlimited), Machine(2, 1)>>,
             <<Machine(2, 1), Machine(2, 1)>>, <<Machine(1, Unlimited)>>, <<>>}
\* two partitions, one that fits few backends, none at all
MCJobs == {<<Machine(1, 1), Machine(2, 1)>>, <<Machine(2, 2)>>, <<>>}
===============================================================================
