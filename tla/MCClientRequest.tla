--------------------------- MODULE MCClientRequest ----------------------------
(* One or two calls of a shared client for TLC. *)
EXTENDS ClientRequest, TLC

CONSTANTS c1, c2

OneCall == {c1}
TwoCalls == {c1, c2}
Symmetric == Permutations(Calls)
===============================================================================
