---------------------------- MODULE SchedulerProofs ----------------------------
(***************************************************************************)
(* Proofs about Scheduler, for every fleet, job, preference and score.     *)
(*                                                                         *)
(* BestAssigned speaks of the end of the call.  The invariant that carries *)
(* it there says what the two loops have done so far: the partitions       *)
(* before p have the first of their best backends, and best is the first   *)
(* of the best that _pick_best has looked at, if any of those will do.     *)
(***************************************************************************)
EXTENDS Scheduler, TLAPS

\* What the inner loop has done: it knows the best of the backends before i.
Picked == IF best = NoBackend
          THEN \A b \in Backends : b < i => ~Eligible(b, p)
          ELSE best < i /\ FirstOfBest(best, p, i - 1)

\* What the outer loop has done: it has assigned the partitions before p.
Assigned == /\ Len(tasks) = p - 1
            /\ \A q \in 1..p - 1 : FirstOfBest(tasks[q], q, Len(fleet))

Inv == /\ TypeOK
       /\ pc = "start" => p = 1 /\ i = 1 /\ best = NoBackend /\ tasks = <<>>
       /\ pc = "pick" => /\ available = Candidates
                         /\ p \in Partitions => Picked
                         /\ p \notin Partitions => best = NoBackend
                         /\ Assigned
       /\ BestAssigned
       /\ RaisesOnlyWhenStuck

\* The candidates are the backends that are eligible, but for their size.
LEMMA CandidatesEligible ==
    ASSUME NEW b \in Backends, NEW q
    PROVE  (b \in Candidates /\ Fits(b, q)) <=> Eligible(b, q)
BY DEF Candidates, Eligible

\* The backends and the partitions are the places of their lists.
LEMMA Places ==
    ASSUME TypeOK
    PROVE  /\ Backends = 1..Len(fleet) /\ Len(fleet) \in Nat
           /\ Partitions = 1..Len(job) /\ Len(job) \in Nat
           /\ NoBackend \notin Backends
           /\ \A b \in Backends, q \in Partitions : score[<<b, q>>] \in 0..MaxScore
<1>1. fleet \in Seq([qubits : Nat, depth : Nat \cup {Unlimited}])
  BY FleetsOK DEF TypeOK
<1>2. job \in Seq([qubits : Nat, depth : Nat])
  BY JobsOK DEF TypeOK
<1>3. NoBackend \notin Backends
  BY NoBackendIsNone DEF TypeOK, Backends
<1>4. \A b \in Backends, q \in Partitions : score[<<b, q>>] \in 0..MaxScore
  BY DEF TypeOK, Scores
<1> QED
  BY <1>1, <1>2, <1>3, <1>4 DEF Backends, Partitions

LEMMA InitInv == Init => Inv
<1> SUFFICES ASSUME Init PROVE Inv
  OBVIOUS
<1>1. fleet \in Seq([qubits : Nat, depth : Nat \cup {Unlimited}])
  BY FleetsOK DEF Init
<1>2. job \in Seq([qubits : Nat, depth : Nat])
  BY JobsOK DEF Init
<1>3. TypeOK
  BY <1>1, <1>2 DEF Init, TypeOK
<1> QED
  BY <1>3 DEF Init, Inv, BestAssigned, RaisesOnlyWhenStuck

\* A look at backend i: the first of the best before it gives way only to a
\* better one.
LEMMA LookPicks ==
    ASSUME Inv, Look
    PROVE  Picked'
<1> DEFINE good == i \in available /\ Fits(i, p) /\ score[<<i, p>>] > BestScore
           Now(b) == IF b = NoBackend
                     THEN \A c \in Backends : c <= i => ~Eligible(c, p)
                     ELSE b <= i /\ FirstOfBest(b, p, i)
<1>1. /\ TypeOK /\ p \in Partitions /\ i \in Backends /\ Picked
      /\ available = Candidates
  BY DEF Inv, Look
<1>2. /\ Backends = 1..Len(fleet) /\ Len(fleet) \in Nat /\ NoBackend \notin Backends
      /\ \A b \in Backends : score[<<b, p>>] \in 0..MaxScore
  BY <1>1, Places
<1>3. MaxScore \in Nat /\ i \in Nat /\ \A b \in Backends : b \in Nat
  BY <1>1, <1>2, ScoresNat
<1>4. (i \in available /\ Fits(i, p)) <=> Eligible(i, p)
  BY <1>1, CandidatesEligible
<1>5. Now(best')
  <2>1. CASE good /\ best = NoBackend
    <3>1. \A b \in Backends : b <= i /\ Eligible(b, p) => b = i
      BY <1>1, <1>2, <1>3, <2>1 DEF Picked
    <3>2. Now(i)
      BY <3>1, <1>1, <1>2, <1>3, <1>4, <2>1 DEF FirstOfBest
    <3> QED
      BY <3>2, <2>1 DEF Look
  <2>2. CASE good /\ best # NoBackend
    <3>1. /\ best \in Backends /\ score[<<i, p>>] > score[<<best, p>>]
          /\ FirstOfBest(best, p, i - 1)
      BY <1>1, <2>2 DEF Picked, BestScore, TypeOK
    <3>2. \A b \in Backends : b < i /\ Eligible(b, p) => score[<<b, p>>] < score[<<i, p>>]
      BY <3>1, <1>1, <1>2, <1>3 DEF FirstOfBest
    <3>3. Now(i)
      BY <3>2, <1>1, <1>2, <1>3, <1>4, <2>2 DEF FirstOfBest
    <3> QED
      BY <3>3, <2>2 DEF Look
  <2>3. CASE ~good /\ best = NoBackend
    <3>1. ~Eligible(i, p)
      BY <1>1, <1>2, <1>3, <1>4, <2>3 DEF BestScore
    <3>2. Now(NoBackend)
      BY <3>1, <1>1, <1>3, <2>3 DEF Picked
    <3> QED
      BY <3>2, <2>3 DEF Look
  <2>4. CASE ~good /\ best # NoBackend
    <3>1. best \in Backends /\ best < i /\ FirstOfBest(best, p, i - 1)
      BY <1>1, <2>4 DEF Picked, TypeOK
    <3>2. Eligible(i, p) => score[<<i, p>>] <= score[<<best, p>>]
      BY <3>1, <1>1, <1>2, <1>3, <1>4, <2>4 DEF BestScore
    <3>3. Now(best)
      BY <3>1, <3>2, <1>1, <1>2, <1>3, <2>4 DEF FirstOfBest
    <3> QED
      BY <3>3, <2>4 DEF Look
  <2> QED
    BY <2>1, <2>2, <2>3, <2>4
<1>6. /\ fleet' = fleet /\ job' = job /\ preferred' = preferred /\ status' = status
      /\ score' = score /\ p' = p /\ i' = i + 1
  BY DEF Look, arguments
<1> QED
  BY <1>5, <1>6, <1>3
     DEF Picked, FirstOfBest, Eligible, Fits, Available, Backends

\* A step of the call keeps the types of what it changes.
LEMMA TypeStep ==
    ASSUME Inv, Next
    PROVE  TypeOK'
<1>1. /\ TypeOK
      /\ Backends = 1..Len(fleet) /\ Len(fleet) \in Nat
      /\ Partitions = 1..Len(job) /\ Len(job) \in Nat
  BY Places DEF Inv
<1>2. Candidates \subseteq Available
  BY DEF Candidates
<1>3. CASE NoneAvailable
  BY <1>1, <1>3 DEF NoneAvailable, TypeOK, arguments, Scores, Available, Backends, Partitions
<1>4. CASE Start
  BY <1>1, <1>2, <1>4 DEF Start, TypeOK, arguments, Scores, Available, Backends, Partitions
<1>5. CASE Look
  BY <1>1, <1>5 DEF Look, TypeOK, arguments, Scores, Available, Backends, Partitions
<1>6. CASE Assign
  <2>1. tasks' \in Seq(Backends)
    BY <1>1, <1>6 DEF Assign, TypeOK
  <2>2. p' \in 1..Len(job) + 1 /\ i' \in 1..Len(fleet) + 1
    BY <1>1, <1>6 DEF Assign, TypeOK
  <2> QED
    BY <1>1, <1>6, <2>1, <2>2
       DEF Assign, TypeOK, arguments, Scores, Available, Backends, Partitions
<1>7. CASE NoCompatible
  BY <1>1, <1>7 DEF NoCompatible, TypeOK, arguments, Scores, Available, Backends, Partitions
<1>8. CASE Return
  BY <1>1, <1>8 DEF Return, TypeOK, arguments, Scores, Available, Backends, Partitions
<1> QED
  BY <1>3, <1>4, <1>5, <1>6, <1>7, <1>8 DEF Next

\* When the inner loop is over, what it knows holds of the whole fleet.
LEMMA LoopOver ==
    ASSUME Inv, pc = "pick", p \in Partitions, i \notin Backends
    PROVE  IF best = NoBackend THEN \A b \in Backends : ~Eligible(b, p)
                               ELSE FirstOfBest(best, p, Len(fleet))
<1>1. /\ TypeOK /\ Picked
      /\ Backends = 1..Len(fleet) /\ Len(fleet) \in Nat
  BY Places DEF Inv
<1>2. i = Len(fleet) + 1
  BY <1>1 DEF TypeOK
<1> QED
  BY <1>1, <1>2 DEF Picked

\* After the assignment of partition p, those before p + 1 are assigned.
LEMMA AssignAssigns ==
    ASSUME Inv, Assign
    PROVE  Assigned'
<1>1. /\ TypeOK /\ Assigned
      /\ Backends = 1..Len(fleet) /\ Len(fleet) \in Nat
      /\ Partitions = 1..Len(job) /\ Len(job) \in Nat
  BY Places DEF Inv, Assign
<1>2. FirstOfBest(best, p, Len(fleet))
  BY LoopOver DEF Assign
<1>3. tasks \in Seq(Backends) /\ best \in Backends /\ p \in Nat
  BY <1>1 DEF TypeOK, Assign
<1>4. /\ tasks' = Append(tasks, best) /\ p' = p + 1
      /\ fleet' = fleet /\ job' = job /\ preferred' = preferred
      /\ status' = status /\ score' = score
  BY DEF Assign, arguments
<1>5. /\ Len(tasks') = p /\ tasks'[p] = best
      /\ \A q \in 1..p - 1 : tasks'[q] = tasks[q]
  BY <1>1, <1>3, <1>4 DEF Assigned
<1>6. \A q \in 1..p : FirstOfBest(tasks'[q], q, Len(fleet))
  <2> SUFFICES ASSUME NEW q \in 1..p PROVE FirstOfBest(tasks'[q], q, Len(fleet))
    OBVIOUS
  <2>1. CASE q = p
    BY <2>1, <1>2, <1>5
  <2>2. CASE q # p
    BY <2>2, <1>1, <1>3, <1>5 DEF Assigned
  <2> QED
    BY <2>1, <2>2
<1> QED
  BY <1>3, <1>4, <1>5, <1>6
     DEF Assigned, FirstOfBest, Eligible, Fits, Available, Backends

LEMMA StepInv == Inv /\ [Next]_vars => Inv'
<1> SUFFICES ASSUME Inv, [Next]_vars PROVE Inv'
  OBVIOUS
<1>1. CASE UNCHANGED vars
  <2>1. TypeOK' /\ pc' = pc /\ (available' = Candidates' <=> available = Candidates)
    BY <1>1 DEF vars, arguments, Inv, TypeOK, Scores, Candidates, Available, Backends, Partitions
  <2>2. (Picked' <=> Picked) /\ (Assigned' <=> Assigned)
    BY <1>1 DEF vars, arguments, Assigned, Picked, FirstOfBest, Eligible, Fits,
                Available, Backends
  <2>3. BestAssigned' /\ RaisesOnlyWhenStuck'
    BY <1>1 DEF Inv, vars, arguments, BestAssigned, RaisesOnlyWhenStuck, FirstOfBest,
                Eligible, Fits, Available, Backends, Partitions
  <2> QED
    BY <1>1, <2>1, <2>2, <2>3 DEF Inv, vars, arguments, Partitions
<1>2. ASSUME Next PROVE TypeOK'
  BY <1>2, TypeStep
<1>3. CASE NoneAvailable
  <2>1. tasks' = <<>> /\ Available' = {} /\ pc' = "raised"
    BY <1>3 DEF NoneAvailable, Inv, arguments, Available, Backends
  <2> QED
    BY <2>1, <1>2, <1>3 DEF Inv, BestAssigned, RaisesOnlyWhenStuck, Next
<1>4. CASE Start
  <2>1. pc = "start" /\ p = 1 /\ i = 1 /\ best = NoBackend /\ tasks = <<>> /\ TypeOK
    BY <1>4 DEF Start, Inv
  <2>2. /\ pc' = "pick" /\ p' = 1 /\ i' = 1 /\ best' = NoBackend /\ tasks' = <<>>
        /\ available' = Candidates'
    BY <2>1, <1>4 DEF Start, arguments, Candidates, Available, Backends
  <2>3. Backends' = Backends /\ \A b \in Backends : b \in Nat /\ b >= 1
    BY <2>1, <1>4, Places DEF Start, arguments, Backends
  <2>4. Picked' /\ Assigned'
    BY <2>2, <2>3 DEF Picked, Assigned
  <2> QED
    BY <2>2, <2>4, <1>2, <1>4 DEF Inv, BestAssigned, RaisesOnlyWhenStuck, Next
<1>5. CASE Look
  <2>1. /\ pc = "pick" /\ p \in Partitions /\ available = Candidates /\ Assigned
    BY <1>5 DEF Look, Inv
  <2>2. /\ pc' = "pick" /\ p' \in Partitions' /\ available' = Candidates' /\ Assigned'
    BY <2>1, <1>5 DEF Look, arguments, Candidates, Available, Backends, Partitions,
                      Assigned, FirstOfBest, Eligible, Fits
  <2>3. Picked'
    BY <1>5, LookPicks
  <2> QED
    BY <2>2, <2>3, <1>2, <1>5 DEF Inv, BestAssigned, RaisesOnlyWhenStuck, Next
<1>6. CASE Assign
  <2>1. pc = "pick" /\ available = Candidates /\ TypeOK
    BY <1>6 DEF Assign, Inv
  <2>2. pc' = "pick" /\ available' = Candidates' /\ i' = 1 /\ best' = NoBackend
    BY <2>1, <1>6 DEF Assign, arguments, Candidates, Available, Backends
  <2>3. Backends' = Backends /\ \A b \in Backends : b \in Nat /\ b >= 1
    BY <2>1, <1>6, Places DEF Assign, arguments, Backends
  <2>4. Picked'
    BY <2>2, <2>3 DEF Picked
  <2>5. Assigned'
    BY <1>6, AssignAssigns
  <2> QED
    BY <2>2, <2>4, <2>5, <1>2, <1>6 DEF Inv, BestAssigned, RaisesOnlyWhenStuck, Next
<1>7. CASE NoCompatible
  <2>1. \A b \in Backends : ~Eligible(b, p)
    BY <1>7, LoopOver DEF NoCompatible
  <2>2. RaisesOnlyWhenStuck'
    BY <2>1, <1>7 DEF NoCompatible, RaisesOnlyWhenStuck, arguments, Eligible, Fits,
                      Available, Backends, Partitions
  <2> QED
    BY <2>2, <1>2, <1>7 DEF Inv, NoCompatible, BestAssigned, Next
<1>8. CASE Return
  <2>1. /\ TypeOK /\ Assigned /\ p \notin Partitions
        /\ Partitions = 1..Len(job) /\ Len(job) \in Nat
    BY <1>8, Places DEF Return, Inv
  <2>2. p = Len(job) + 1
    BY <2>1 DEF TypeOK
  <2>3. /\ Len(tasks) = Len(job)
        /\ \A q \in Partitions : FirstOfBest(tasks[q], q, Len(fleet))
    BY <2>1, <2>2 DEF Assigned
  <2>4. BestAssigned'
    BY <2>3, <1>8 DEF Return, BestAssigned, arguments, FirstOfBest, Eligible, Fits,
                      Available, Backends, Partitions
  <2> QED
    BY <2>4, <1>2, <1>8 DEF Inv, Return, RaisesOnlyWhenStuck, Next
<1> QED
  BY <1>1, <1>3, <1>4, <1>5, <1>6, <1>7, <1>8 DEF Next

-------------------------------------------------------------------------------
\* The state keeps its types; in particular the candidates are available.
THEOREM TypeCorrect == Spec => []TypeOK
<1>1. Inv => TypeOK
  BY DEF Inv
<1> QED
  BY <1>1, InitInv, StepInv, PTL DEF Spec

\* Every schedule returned is complete, and gives each partition the first of
\* the best backends that may run it.
THEOREM SchedulesTheBest == Spec => []BestAssigned
<1>1. Inv => BestAssigned
  BY DEF Inv
<1> QED
  BY <1>1, InitInv, StepInv, PTL DEF Spec

\* The call raises only when nothing is available or a partition fits no
\* candidate.
THEOREM RaisesWithReason == Spec => []RaisesOnlyWhenStuck
<1>1. Inv => RaisesOnlyWhenStuck
  BY DEF Inv
<1> QED
  BY <1>1, InitInv, StepInv, PTL DEF Spec
===============================================================================
