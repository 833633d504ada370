------------------------------ MODULE RemoteCall ------------------------------
(***************************************************************************)
(* What a caller of the SDK may rely on: a call that returns a value took  *)
(* effect at the server; a call that raises may have taken effect or not,  *)
(* even later; and a call never takes effect more often than its budget.   *)
(***************************************************************************)
EXTENDS Integers

CONSTANT Calls

VARIABLES
    status,     \* status[c]: idle, open, succeeded (returned) or failed (raised)
    effects,    \* the times each call took effect, <<c, k>> for the k-th try
    budget      \* how often a call may be tried

vars == <<status, effects, budget>>

Init == /\ status = [c \in Calls |-> "idle"]
        /\ effects = {}
        /\ budget \in Nat

Begin(c) == /\ status[c] = "idle"
            /\ status' = [status EXCEPT ![c] = "open"]
            /\ UNCHANGED <<effects, budget>>

\* also after the call failed or succeeded: an earlier try may still be on its way
TakeEffect(c) == /\ status[c] # "idle"
                 /\ \E k \in 1..budget : <<c, k>> \notin effects /\ effects' = effects \cup {<<c, k>>}
                 /\ UNCHANGED <<status, budget>>

Succeed(c) == /\ status[c] = "open"
              /\ \E k \in 1..budget : <<c, k>> \in effects
              /\ status' = [status EXCEPT ![c] = "succeeded"]
              /\ UNCHANGED <<effects, budget>>

Fail(c) == /\ status[c] = "open"
           /\ status' = [status EXCEPT ![c] = "failed"]
           /\ UNCHANGED <<effects, budget>>

Next == \E c \in Calls : Begin(c) \/ TakeEffect(c) \/ Succeed(c) \/ Fail(c)

Spec == Init /\ [][Next]_vars
===============================================================================
