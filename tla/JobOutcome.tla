------------------------------ MODULE JobOutcome ------------------------------
(***************************************************************************)
(* The canonical job outcome report, src/qontos/models/job_outcome.py.     *)
(*                                                                         *)
(* A report counts the partitions of one job as completed, failed or       *)
(* missing and carries the verdict every consumer shows.  Reports are      *)
(* values: the code that holds one (worker, API, replay) rebinds its own   *)
(* name to the report returned by enrich(), freeze() or from_dict().  The  *)
(* repository has no caller of these methods, so any holder may make any   *)
(* call, with any arguments, in any order.                                 *)
(*                                                                         *)
(* Abstracted: degradation_reason, enriched_at and all log and error       *)
(* text.  A Python list of partition ids is the set of its occurrences     *)
(* <<id, k>>, the k-th copy of id: the code never looks at the order.      *)
(***************************************************************************)
EXTENDS Integers, FiniteSets

CONSTANTS
    Ids,        \* partition ids
    MaxCopies,  \* bound: copies of one id in a list
    MaxListed,  \* bound: length of a list a caller passes
    MaxTotal,   \* bound: total_partitions and failed_partitions of a constructor call
    Holders,    \* places that keep a report
    NoReport,   \* what a holder has before its first report
    NotGiven    \* an optional argument of enrich() left at None

ASSUME IdsFinite == IsFiniteSet(Ids)
ASSUME BoundsNat == MaxCopies \in Nat /\ MaxListed \in Nat /\ MaxTotal \in Nat

VARIABLE reports    \* the report each holder has

-------------------------------------------------------------------------------
Outcomes == {"completed", "completed_with_failures", "failed",
             "cancelled", "pending", "running"}
Stages == {"dispatch", "aggregate", "finalize"}
NotEnriched == "none"

Occurrences == Ids \X (1..MaxCopies)
Size(L) == Cardinality(L)
Lists == {L \in SUBSET Occurrences :
             /\ Size(L) <= MaxListed
             /\ \A e \in L : e[2] > 1 => <<e[1], e[2] - 1>> \in L}
Members(L) == {e[1] : e \in L}
\* mutant: missing ids already listed as failed are kept
WithoutDedup(L, P) == L
Without(L, P) == {e \in L : e[1] \notin P}

ASSUME NotGivenIsNone == \A L \in Lists : L # NotGiven

Reports == [outcome : Outcomes, total : Nat, completed : Nat, failed : Nat,
            failedIds : SUBSET Occurrences, missingIds : SUBSET Occurrences,
            stage : Stages \cup {NotEnriched}, frozen : BOOLEAN]

\* mutant: max(0, ...) dropped
Unclamped(n) == n
AtLeast0(n) == IF n < 0 THEN 0 ELSE n
Derived(total, failed, missingIds) == total - failed - Size(missingIds)

-------------------------------------------------------------------------------
(* verify_disjoint(): the four invariants of a report *)
Disjoint(r) == Members(r.failedIds) \cap Members(r.missingIds) = {}
Accounted(r) == r.total > 0 => r.completed + r.failed + Size(r.missingIds) = r.total
\* mutant: the third invariant is not checked
FailedUncounted(r) == TRUE
FailedCounted(r) == r.failed = Size(r.failedIds)
VerdictFits(r) ==
    /\ r.outcome = "completed" => r.failed = 0 /\ Size(r.missingIds) = 0
    /\ r.outcome = "completed_with_failures" => r.failed > 0 \/ Size(r.missingIds) > 0
VerifyDisjoint(r) == Disjoint(r) /\ Accounted(r) /\ FailedCounted(r) /\ VerdictFits(r)

\* completed_partitions is derived, never taken from the caller
Report(outcome, total, failed, failedIds, missingIds, stage) ==
    [outcome |-> outcome, total |-> total, failed |-> failed,
     completed |-> AtLeast0(Derived(total, failed, missingIds)),
     failedIds |-> failedIds, missingIds |-> missingIds,
     stage |-> stage, frozen |-> FALSE]

\* mutant: the caller's completed_partitions is kept
NewTrusting(outcome, total, failed, failedIds, missingIds) ==
    [Report(outcome, total, failed, failedIds, missingIds, NotEnriched)
        EXCEPT !.completed = total]

\* JobOutcomeReport(...): a violated invariant is only logged
New(outcome, total, failed, failedIds, missingIds) ==
    Report(outcome, total, failed, failedIds, missingIds, NotEnriched)

\* mutant: < for <= in the first test
VerdictStrict(total, failed, missing) ==
    IF total - failed - missing < 0 /\ total > 0 THEN "failed"
    ELSE IF failed > 0 \/ missing > 0 THEN "completed_with_failures"
    ELSE "completed"

Verdict(total, failed, missing) ==
    IF total - failed - missing <= 0 /\ total > 0 THEN "failed"
    ELSE IF failed > 0 \/ missing > 0 THEN "completed_with_failures"
    ELSE "completed"

\* the copy enrich() builds of an unfrozen report, before it is verified
Enriched(r, missing, failed, stage) ==
    LET failedIds == IF failed = NotGiven THEN r.failedIds ELSE failed
        count == IF failed = NotGiven THEN r.failed ELSE Size(failed)
        given == IF missing = NotGiven THEN r.missingIds ELSE missing
        missingIds == Without(given, Members(failedIds))
    IN  Report(Verdict(r.total, count, Size(missingIds)),
               r.total, count, failedIds, missingIds, stage)

Frozen(r) == [r EXCEPT !.frozen = TRUE]

\* from_dict(to_dict()): the private _frozen is not dumped, the validator
\* derives completed_partitions again
RoundTrip(r) == Report(r.outcome, r.total, r.failed, r.failedIds, r.missingIds, r.stage)

CanonicalDict(r) == <<r.outcome, r.total, r.completed, r.failed, r.failedIds, r.missingIds>>

-------------------------------------------------------------------------------
Init == reports = [h \in Holders |-> NoReport]

Holds(h) == reports[h] # NoReport

Bind(h, r) == reports' = [reports EXCEPT ![h] = r]

\* the first report of the job; the others descend from it
Construct(h, outcome, total, failed, failedIds, missingIds) ==
    /\ \A g \in Holders : ~Holds(g)
    /\ Bind(h, New(outcome, total, failed, failedIds, missingIds))

\* mutant: the copy is not verified
EnrichUnverified(h, missing, failed, stage) ==
    /\ Holds(h)
    /\ ~reports[h].frozen
    /\ Bind(h, Enriched(reports[h], missing, failed, stage))

\* Raises, and so changes nothing, on a frozen report and when the copy
\* violates an invariant.
Enrich(h, missing, failed, stage) ==
    /\ Holds(h)
    /\ ~reports[h].frozen
    /\ VerifyDisjoint(Enriched(reports[h], missing, failed, stage))
    /\ Bind(h, Enriched(reports[h], missing, failed, stage))

\* h = g rebinds the holder's own name; otherwise h keeps its unfrozen report
Freeze(h, g) == Holds(h) /\ Bind(g, Frozen(reports[h]))

Transport(h, g) == Holds(h) /\ Bind(g, RoundTrip(reports[h]))

Next ==
    \E h \in Holders :
        \/ \E outcome \in Outcomes, total, failed \in 0..MaxTotal, f, m \in Lists :
              Construct(h, outcome, total, failed, f, m)
        \/ \E m, f \in Lists \cup {NotGiven}, s \in Stages : Enrich(h, m, f, s)
        \/ \E g \in Holders : Freeze(h, g) \/ Transport(h, g)

Spec == Init /\ [][Next]_reports

-------------------------------------------------------------------------------
TypeOK == reports \in [Holders -> Reports \cup {NoReport}]

IsEnriched(h) == Holds(h) /\ reports[h].stage # NotEnriched

\* A report that went through enrich() satisfies the four invariants of the
\* contract, whatever the constructor was given, whichever stages ran in
\* whichever order, and after any freeze or JSON transport (job_outcome.py:17).
EnrichedHonoursContract == \A h \in Holders : IsEnriched(h) => VerifyDisjoint(reports[h])

\* After any enrichment "completed" means that every partition of the job is
\* counted as completed and none is listed as failed or missing: a degraded
\* run is never surfaced as completed (job_outcome.py:11).
CompletedMeansAll ==
    \A h \in Holders :
        IsEnriched(h) /\ reports[h].outcome = "completed" =>
            /\ reports[h].completed = reports[h].total
            /\ reports[h].failedIds = {} /\ reports[h].missingIds = {}

\* The verdict of an enriched report says which work there is to show for it:
\* it is "failed" exactly when a job with partitions has no completed one.
FailedMeansNothing ==
    \A h \in Holders :
        IsEnriched(h) => (reports[h].outcome = "failed"
                            <=> reports[h].total > 0 /\ reports[h].completed = 0)

\* JSON transport never changes the canonical surface: the derivation that
\* from_dict() repeats agrees with the one made by enrich() or the constructor.
TransportKeepsCanonical ==
    \A h \in Holders : Holds(h) => CanonicalDict(RoundTrip(reports[h])) = CanonicalDict(reports[h])

\* Whatever a best-effort dispatch report said, an enrichment that gives both
\* lists with no more entries than the job has partitions is accepted: the
\* aggregate stage can always repair an unfrozen report.
AggregateRepairs ==
    \A h \in Holders : Holds(h) /\ ~reports[h].frozen =>
        \A f, m \in Lists :
            Size(f) + Size(Without(m, Members(f))) <= reports[h].total =>
                VerifyDisjoint(Enriched(reports[h], m, f, "aggregate"))

-------------------------------------------------------------------------------
\* job_outcome.py:11, no degraded run is ever surfaced as plain
\* "completed".  Violated: the constructor only logs it.
NeverPlainCompleted ==
    \A h \in Holders : Holds(h) /\ reports[h].outcome = "completed" =>
        reports[h].completed = reports[h].total
===============================================================================
