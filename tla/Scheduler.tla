------------------------------- MODULE Scheduler -------------------------------
(***************************************************************************)
(* Scheduler.schedule, src/qontos/scheduling/scheduler.py: every partition *)
(* of a job gets the backend that scores best among the candidates.        *)
(*                                                                         *)
(* BackendScorer.score is a sum of products of decaying exponentials and   *)
(* ratios, rounded to four digits: here any score of a backend for a       *)
(* partition.  Abstracted: the names, shots and reasons a task carries.    *)
(* A backend is its place in the list that schedule() is given.            *)
(***************************************************************************)
EXTENDS Integers, Sequences, FiniteSets

CONSTANTS
    Fleets,     \* lists of backends [qubits, depth]
    Jobs,       \* lists of partitions [qubits, depth]
    MaxScore,   \* bound: scores are 0..MaxScore
    NoBackend,  \* best_backend is None
    Unlimited   \* max_circuit_depth is None

ASSUME ScoresNat == MaxScore \in Nat
ASSUME FleetsOK ==
    \A f \in Fleets : f \in Seq([qubits : Nat, depth : Nat \cup {Unlimited}])
ASSUME JobsOK == \A j \in Jobs : j \in Seq([qubits : Nat, depth : Nat])
ASSUME NoBackendIsNone == \A f \in Fleets : NoBackend \notin DOMAIN f

VARIABLES
    fleet, job, preferred,  \* the arguments of schedule()
    status,                 \* the status each backend of the fleet had
    score,                  \* what the scorer says of a backend and a partition
    pc,
    available,              \* the candidates
    p, i,                   \* the partition and the backend the loops look at
    best,                   \* best_backend
    tasks                   \* the backend of each partition so far

arguments == <<fleet, job, preferred, status, score>>
vars == <<arguments, pc, available, p, i, best, tasks>>

-------------------------------------------------------------------------------
Backends == DOMAIN fleet
Partitions == DOMAIN job
\* "down" is any of busy, offline, maintenance and simulated
Statuses == {"available", "down"}
Available == {b \in Backends : status[b] = "available"}

\* mutant: the candidates are the preferred ones, available or not
CandidatesDown == IF preferred # {} THEN preferred ELSE Available

\* the preferred backends, if any of them is available
Candidates == IF Available \cap preferred # {} THEN Available \cap preferred ELSE Available

\* enough qubits, and depth
Fits(b, q) == /\ fleet[b].qubits >= job[q].qubits
              /\ fleet[b].depth = Unlimited \/ job[q].depth <= fleet[b].depth

\* BackendScorer.score: pure, so one score for every backend and partition
Scores == [Backends \X Partitions -> 0..MaxScore]

\* mutant: a score of 0 does not beat the initial best_score
BestScoreZero == IF best = NoBackend THEN 0 ELSE score[<<best, p>>]
BestScore == IF best = NoBackend THEN -1 ELSE score[<<best, p>>]

Init == /\ fleet \in Fleets /\ job \in Jobs
        /\ preferred \in SUBSET Backends
        /\ status \in [Backends -> Statuses]
        /\ score \in Scores
        /\ pc = "start" /\ available = {}
        /\ p = 1 /\ i = 1
        /\ best = NoBackend /\ tasks = <<>>

NoneAvailable == /\ pc = "start" /\ Available = {}
                 /\ pc' = "raised"
                 /\ UNCHANGED <<arguments, available, p, i, best, tasks>>

Start == /\ pc = "start" /\ Available # {}
         /\ available' = Candidates
         /\ pc' = "pick"
         /\ UNCHANGED <<arguments, p, i, best, tasks>>

\* _pick_best, one backend of the list at a time; strictly better wins
Look == /\ pc = "pick" /\ p \in Partitions /\ i \in Backends
        /\ i' = i + 1
        /\ best' = IF i \in available /\ Fits(i, p) /\ score[<<i, p>>] > BestScore
                   THEN i ELSE best
        /\ UNCHANGED <<arguments, pc, available, p, tasks>>

\* mutant: the best backend of the partition before stays
AssignKeeping == /\ pc = "pick" /\ p \in Partitions /\ i \notin Backends
                 /\ best # NoBackend
                 /\ tasks' = Append(tasks, best)
                 /\ p' = p + 1 /\ i' = 1 /\ UNCHANGED best
                 /\ UNCHANGED <<arguments, pc, available>>

Assign == /\ pc = "pick" /\ p \in Partitions /\ i \notin Backends
          /\ best # NoBackend
          /\ tasks' = Append(tasks, best)
          /\ p' = p + 1 /\ i' = 1 /\ best' = NoBackend
          /\ UNCHANGED <<arguments, pc, available>>

\* the tasks made so far are lost with the exception
NoCompatible == /\ pc = "pick" /\ p \in Partitions /\ i \notin Backends
                /\ best = NoBackend
                /\ pc' = "raised" /\ tasks' = <<>>
                /\ UNCHANGED <<arguments, available, p, i, best>>

Return == /\ pc = "pick" /\ p \notin Partitions
          /\ pc' = "done"
          /\ UNCHANGED <<arguments, available, p, i, best, tasks>>

Next == NoneAvailable \/ Start \/ Look \/ Assign \/ NoCompatible \/ Return

Spec == Init /\ [][Next]_vars

-------------------------------------------------------------------------------
TypeOK ==
    /\ fleet \in Fleets /\ job \in Jobs
    /\ preferred \subseteq Backends
    /\ status \in [Backends -> Statuses]
    /\ score \in Scores
    /\ pc \in {"start", "pick", "done", "raised"}
    /\ available \subseteq Available
    /\ p \in 1..Len(job) + 1 /\ i \in 1..Len(fleet) + 1
    /\ best \in Backends \cup {NoBackend}
    /\ tasks \in Seq(Backends)

\* a backend the call may choose for a partition
Eligible(b, q) == /\ b \in Available /\ Fits(b, q)
                  /\ Available \cap preferred # {} => b \in preferred

\* b is the first of the best for q among the first n backends
FirstOfBest(b, q, n) ==
    /\ Eligible(b, q)
    /\ \A c \in Backends : c <= n /\ Eligible(c, q) =>
          \/ score[<<c, q>>] < score[<<b, q>>]
          \/ score[<<c, q>>] = score[<<b, q>>] /\ b <= c

\* A schedule is complete and the best there was: every partition has exactly
\* one backend, in order; that backend is available, preferred if any
\* available one is, large and deep enough, and no other such backend scores
\* higher, nor as high and comes earlier (scheduler.py:77-107, 120-137).
BestAssigned ==
    pc = "done" => /\ Len(tasks) = Len(job)
                   /\ \A q \in Partitions : FirstOfBest(tasks[q], q, Len(fleet))

\* The call raises only with a reason: no backend is available, or some
\* partition fits none of the candidates, whatever their scores; and it never
\* hands out part of a schedule (scheduler.py:64, 81).
RaisesOnlyWhenStuck ==
    pc = "raised" =>
        /\ tasks = <<>>
        /\ Available = {} \/ \E q \in Partitions : \A b \in Backends : ~Eligible(b, q)

===============================================================================
