------------------------------ MODULE MCJobWait -------------------------------
(* Waits on one job for TLC. *)
EXTENDS JobWait

CONSTANTS s1, a1

NoWaiters == {}
OneSync == {s1}
OneAsync == {a1}
MCTimeouts == {0, 2}
===============================================================================
