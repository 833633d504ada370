----------------------------- MODULE MCJobOutcome -----------------------------
(* Partition ids and holders of a job's reports for TLC. *)
EXTENDS JobOutcome, TLC

CONSTANTS p1, p2, worker

TwoIds == {p1, p2}
OneHolder == {worker}
Symmetric == Permutations(Ids) \cup Permutations(Holders)
===============================================================================
