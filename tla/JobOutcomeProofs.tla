--------------------------- MODULE JobOutcomeProofs ---------------------------
(* Proofs about the job outcome report, for every number of partition ids,   *)
(* holders and list lengths.                                                 *)
EXTENDS JobOutcome, FiniteSetTheorems, TLAPS

\* What every report satisfies at any time: completed_partitions is the derived
\* number, and one that was enriched has the verdict of its own numbers.
WellFormed(r) ==
    /\ r \in Reports
    /\ r.completed = AtLeast0(Derived(r.total, r.failed, r.missingIds))
    /\ r.stage # NotEnriched =>
          /\ VerifyDisjoint(r)
          /\ r.outcome = Verdict(r.total, r.failed, Size(r.missingIds))

IInv == /\ TypeOK
        /\ \A h \in Holders : Holds(h) => WellFormed(reports[h])

-------------------------------------------------------------------------------
\* The length of a list of partition ids is a natural number, zero only for the
\* empty list.
LEMMA SizeNat ==
    ASSUME NEW L \in SUBSET Occurrences
    PROVE  Size(L) \in Nat /\ (Size(L) = 0 <=> L = {})
<1>1. IsFiniteSet(1..MaxCopies)
  BY FS_Interval, BoundsNat
<1>2. IsFiniteSet(Occurrences)
  BY <1>1, IdsFinite, FS_Product DEF Occurrences
<1>3. IsFiniteSet(L)
  BY <1>2, FS_Subset
<1> QED
  BY <1>3, FS_CardinalityType, FS_EmptySet DEF Size

\* enrich() removes the failed ids from the missing list, which makes the two
\* categories disjoint.
LEMMA WithoutDisjoint ==
    ASSUME NEW L, NEW P
    PROVE  P \cap Members(Without(L, P)) = {}
BY DEF Members, Without

\* Report() returns a report with the derived number of completed partitions.
LEMMA ReportTyped ==
    ASSUME NEW outcome \in Outcomes, NEW total \in Nat, NEW failed \in Nat,
           NEW f \in SUBSET Occurrences, NEW m \in SUBSET Occurrences,
           NEW s \in Stages \cup {NotEnriched}
    PROVE  LET r == Report(outcome, total, failed, f, m, s)
           IN  /\ r \in Reports
               /\ r.completed = AtLeast0(Derived(r.total, r.failed, r.missingIds))
               /\ r.outcome = outcome /\ r.total = total /\ r.failed = failed
               /\ r.failedIds = f /\ r.missingIds = m /\ r.stage = s
<1>1. Size(m) \in Nat
  BY SizeNat
<1>2. AtLeast0(Derived(total, failed, m)) \in Nat
  BY <1>1 DEF AtLeast0, Derived
<1> QED
  BY <1>2 DEF Report, Reports

\* A constructed report is well formed.
LEMMA NewWellFormed ==
    ASSUME NEW outcome \in Outcomes, NEW total \in Nat, NEW failed \in Nat,
           NEW f \in Lists, NEW m \in Lists
    PROVE  WellFormed(New(outcome, total, failed, f, m))
<1>1. f \in SUBSET Occurrences /\ m \in SUBSET Occurrences
  BY DEF Lists
<1> QED
  BY <1>1, ReportTyped DEF WellFormed, New

\* The report enrich() builds from a well-formed one is typed and has the
\* verdict of its own numbers.
LEMMA EnrichedTyped ==
    ASSUME NEW r \in Reports,
           NEW m \in Lists \cup {NotGiven}, NEW f \in Lists \cup {NotGiven},
           NEW s \in Stages
    PROVE  LET e == Enriched(r, m, f, s)
           IN  /\ e \in Reports
               /\ e.completed = AtLeast0(Derived(e.total, e.failed, e.missingIds))
               /\ e.outcome = Verdict(e.total, e.failed, Size(e.missingIds))
               /\ e.total = r.total
<1> DEFINE failedIds == IF f = NotGiven THEN r.failedIds ELSE f
           count == IF f = NotGiven THEN r.failed ELSE Size(f)
           given == IF m = NotGiven THEN r.missingIds ELSE m
           missingIds == Without(given, Members(failedIds))
           verdict == Verdict(r.total, count, Size(missingIds))
<1>1. failedIds \in SUBSET Occurrences /\ given \in SUBSET Occurrences
  BY DEF Reports, Lists
<1>2. missingIds \in SUBSET Occurrences
  BY <1>1 DEF Without
<1>3. count \in Nat
  <2>1. CASE f = NotGiven
    BY <2>1 DEF Reports
  <2>2. CASE f # NotGiven
    <3>1. f \in SUBSET Occurrences
      BY <2>2 DEF Lists
    <3> QED BY <2>2, <3>1, SizeNat
  <2> QED BY <2>1, <2>2
<1>4. r.total \in Nat
  BY DEF Reports
<1>5. verdict \in Outcomes
  BY DEF Verdict, Outcomes
<1>6. Enriched(r, m, f, s) = Report(verdict, r.total, count, failedIds, missingIds, s)
  BY DEF Enriched
<1> HIDE DEF failedIds, count, given, missingIds
<1> QED
  BY <1>1, <1>2, <1>3, <1>4, <1>5, <1>6, ReportTyped

\* It is well formed as soon as verify_disjoint() accepts it.
LEMMA EnrichedWellFormed ==
    ASSUME NEW r \in Reports,
           NEW m \in Lists \cup {NotGiven}, NEW f \in Lists \cup {NotGiven},
           NEW s \in Stages, VerifyDisjoint(Enriched(r, m, f, s))
    PROVE  WellFormed(Enriched(r, m, f, s))
BY EnrichedTyped DEF WellFormed

\* Two reports that differ in the frozen flag only.
SameFields(r, c) ==
    /\ c.outcome = r.outcome /\ c.total = r.total /\ c.completed = r.completed
    /\ c.failed = r.failed /\ c.failedIds = r.failedIds
    /\ c.missingIds = r.missingIds /\ c.stage = r.stage

\* freeze() and the JSON transport change the frozen flag of a well-formed
\* report and nothing else.
LEMMA CopiesSame ==
    ASSUME NEW r, WellFormed(r)
    PROVE  /\ Frozen(r) \in Reports /\ SameFields(r, Frozen(r)) /\ Frozen(r).frozen
           /\ RoundTrip(r) \in Reports /\ SameFields(r, RoundTrip(r))
<1>1. r \in Reports
  BY DEF WellFormed
<1>2. Frozen(r) \in Reports /\ SameFields(r, Frozen(r)) /\ Frozen(r).frozen
  BY <1>1 DEF Reports, Frozen, SameFields
<1>3. /\ r.outcome \in Outcomes /\ r.total \in Nat /\ r.failed \in Nat
      /\ r.failedIds \in SUBSET Occurrences /\ r.missingIds \in SUBSET Occurrences
      /\ r.stage \in Stages \cup {NotEnriched}
  BY <1>1 DEF Reports
<1>4. RoundTrip(r) \in Reports /\ SameFields(r, RoundTrip(r))
  BY <1>3, ReportTyped DEF RoundTrip, WellFormed, SameFields
<1> QED
  BY <1>2, <1>4

\* So they keep it well formed.
LEMMA CopiesWellFormed ==
    ASSUME NEW r, WellFormed(r)
    PROVE  WellFormed(Frozen(r)) /\ WellFormed(RoundTrip(r))
<1>1. ASSUME NEW c \in Reports, SameFields(r, c)
      PROVE  WellFormed(c)
  BY <1>1 DEF SameFields, WellFormed, VerifyDisjoint, Disjoint, Accounted, FailedCounted, VerdictFits
<1> QED
  BY <1>1, CopiesSame

-------------------------------------------------------------------------------
\* Binding a holder's name to a well-formed report keeps the invariant.
LEMMA BindPreserves ==
    ASSUME IInv, NEW h \in Holders, NEW r, WellFormed(r), Bind(h, r)
    PROVE  IInv'
<1>1. r \in Reports
  BY DEF WellFormed
<1>2. TypeOK'
  BY <1>1 DEF IInv, TypeOK, Bind
<1>3. ASSUME NEW g \in Holders, Holds(g)'
      PROVE  WellFormed(reports'[g])
  BY <1>3 DEF IInv, TypeOK, Bind, Holds
<1> QED
  BY <1>2, <1>3 DEF IInv, WellFormed, VerifyDisjoint, Disjoint, Accounted, FailedCounted, VerdictFits

\* The invariant holds initially.
LEMMA InitIInv == Init => IInv
BY DEF Init, IInv, TypeOK, Holds

\* Every call preserves the invariant.
LEMMA NextIInv == IInv /\ [Next]_reports => IInv'
<1> SUFFICES ASSUME IInv, [Next]_reports PROVE IInv'
  OBVIOUS
<1>1. ASSUME NEW h \in Holders, NEW outcome \in Outcomes, NEW total \in 0..MaxTotal,
             NEW failed \in 0..MaxTotal, NEW f \in Lists, NEW m \in Lists,
             Construct(h, outcome, total, failed, f, m)
      PROVE  IInv'
  <2>1. total \in Nat /\ failed \in Nat
    BY BoundsNat
  <2> QED
    BY <1>1, <2>1, NewWellFormed, BindPreserves DEF Construct
<1>2. ASSUME NEW h \in Holders, NEW m \in Lists \cup {NotGiven},
             NEW f \in Lists \cup {NotGiven}, NEW s \in Stages, Enrich(h, m, f, s)
      PROVE  IInv'
  <2>1. reports[h] \in Reports
    BY <1>2 DEF Enrich, IInv, WellFormed
  <2> QED
    BY <1>2, <2>1, EnrichedWellFormed, BindPreserves DEF Enrich
<1>3. ASSUME NEW h \in Holders, NEW g \in Holders, Freeze(h, g)
      PROVE  IInv'
  <2>1. WellFormed(reports[h])
    BY <1>3 DEF Freeze, IInv
  <2> QED
    BY <1>3, <2>1, CopiesWellFormed, BindPreserves DEF Freeze
<1>4. ASSUME NEW h \in Holders, NEW g \in Holders, Transport(h, g)
      PROVE  IInv'
  <2>1. WellFormed(reports[h])
    BY <1>4 DEF Transport, IInv
  <2> QED
    BY <1>4, <2>1, CopiesWellFormed, BindPreserves DEF Transport
<1>5. CASE UNCHANGED reports
  BY <1>5 DEF IInv, TypeOK, Holds
<1> QED
  BY <1>1, <1>2, <1>3, <1>4, <1>5 DEF Next

\* The inductive invariant holds in every reachable state.
LEMMA Inductive == Spec => []IInv
BY InitIInv, NextIInv, PTL DEF Spec

-------------------------------------------------------------------------------
\* Type correctness of the holders' reports.
THEOREM TypeCorrect == Spec => []TypeOK
<1>1. IInv => TypeOK
  BY DEF IInv
<1> QED
  BY <1>1, Inductive, PTL

\* A report that went through enrich() honours the four invariants of the
\* contract, for all ids, lists and numbers of partitions.
THEOREM ContractHonoured == Spec => []EnrichedHonoursContract
<1>1. IInv => EnrichedHonoursContract
  BY DEF IInv, EnrichedHonoursContract, IsEnriched, WellFormed
<1> QED
  BY <1>1, Inductive, PTL

\* An enriched report that says "completed" counts every partition as completed
\* and lists none as failed or missing.
THEOREM CompletedIsAll == Spec => []CompletedMeansAll
<1>1. ASSUME IInv, NEW h \in Holders, IsEnriched(h), reports[h].outcome = "completed"
      PROVE  /\ reports[h].completed = reports[h].total
             /\ reports[h].failedIds = {} /\ reports[h].missingIds = {}
  <2> DEFINE r == reports[h]
  <2>1. WellFormed(r) /\ r \in Reports /\ VerifyDisjoint(r)
    BY <1>1 DEF IInv, IsEnriched, WellFormed
  <2>2. r.failedIds \in SUBSET Occurrences /\ r.missingIds \in SUBSET Occurrences
    BY <2>1 DEF Reports
  <2>3. r.failed = 0 /\ Size(r.missingIds) = 0 /\ Size(r.failedIds) = 0
    BY <1>1, <2>1 DEF VerifyDisjoint, VerdictFits, FailedCounted
  <2>4. r.failedIds = {} /\ r.missingIds = {}
    BY <2>2, <2>3, SizeNat
  <2>5. r.total \in Nat
    BY <2>1 DEF Reports
  <2>6. r.completed = r.total
    BY <2>1, <2>3, <2>5 DEF WellFormed, AtLeast0, Derived
  <2> QED BY <2>4, <2>6
<1>2. IInv => CompletedMeansAll
  BY <1>1 DEF CompletedMeansAll
<1> QED
  BY <1>2, Inductive, PTL

\* An enriched report is "failed" exactly when a job that has partitions has no
\* completed one.
THEOREM FailedIsNothing == Spec => []FailedMeansNothing
<1>1. ASSUME IInv, NEW h \in Holders, IsEnriched(h)
      PROVE  reports[h].outcome = "failed" <=> reports[h].total > 0 /\ reports[h].completed = 0
  <2> DEFINE r == reports[h]
  <2>1. WellFormed(r) /\ r \in Reports /\ r.stage # NotEnriched
    BY <1>1 DEF IInv, IsEnriched, WellFormed
  <2>2. r.missingIds \in SUBSET Occurrences /\ r.total \in Nat /\ r.failed \in Nat
    BY <2>1 DEF Reports
  <2>3. Size(r.missingIds) \in Nat
    BY <2>2, SizeNat
  <2> QED
    BY <2>1, <2>2, <2>3 DEF WellFormed, Verdict, AtLeast0, Derived
<1>2. IInv => FailedMeansNothing
  BY <1>1 DEF FailedMeansNothing
<1> QED
  BY <1>2, Inductive, PTL

\* JSON transport leaves the canonical fields of every report as they are.
THEOREM CanonicalSurvivesTransport == Spec => []TransportKeepsCanonical
<1>1. ASSUME IInv, NEW h \in Holders, Holds(h)
      PROVE  CanonicalDict(RoundTrip(reports[h])) = CanonicalDict(reports[h])
  BY <1>1, CopiesSame DEF IInv, SameFields, CanonicalDict
<1>2. IInv => TransportKeepsCanonical
  BY <1>1 DEF TransportKeepsCanonical
<1> QED
  BY <1>2, Inductive, PTL

\* The aggregate stage can repair any unfrozen report: two lists with no more
\* entries than the job has partitions are always accepted.
THEOREM RepairAlwaysPossible == Spec => []AggregateRepairs
<1>1. ASSUME IInv, NEW h \in Holders, Holds(h), NEW f \in Lists, NEW m \in Lists,
             Size(f) + Size(Without(m, Members(f))) <= reports[h].total
      PROVE  VerifyDisjoint(Enriched(reports[h], m, f, "aggregate"))
  <2> DEFINE r == reports[h]
             n == Without(m, Members(f))
             e == Enriched(r, m, f, "aggregate")
  <2>1. r \in Reports /\ r.total \in Nat
    BY <1>1 DEF IInv, WellFormed, Reports
  <2>2. "aggregate" \in Stages
    BY DEF Stages
  <2>3. f \in SUBSET Occurrences /\ n \in SUBSET Occurrences
    BY DEF Lists, Without
  <2>4. Size(f) \in Nat /\ Size(n) \in Nat
    BY <2>3, SizeNat
  <2>5. e = Report(Verdict(r.total, Size(f), Size(n)), r.total, Size(f), f, n, "aggregate")
    BY NotGivenIsNone DEF Enriched
  <2>6. /\ e.total = r.total /\ e.failed = Size(f)
        /\ e.failedIds = f /\ e.missingIds = n
        /\ e.completed = AtLeast0(Derived(r.total, Size(f), n))
        /\ e.outcome = Verdict(r.total, Size(f), Size(n))
    BY <2>5 DEF Report
  <2> HIDE DEF e, n, r
  <2>7. Disjoint(e)
    BY <2>6, WithoutDisjoint DEF Disjoint, n
  <2>8. Accounted(e)
    BY <1>1, <2>1, <2>4, <2>6 DEF Accounted, AtLeast0, Derived, n, r
  <2>9. FailedCounted(e) /\ VerdictFits(e)
    BY <2>1, <2>4, <2>6 DEF FailedCounted, VerdictFits, Verdict
  <2> QED
    BY <2>7, <2>8, <2>9 DEF VerifyDisjoint, e, r
<1>2. IInv => AggregateRepairs
  BY <1>1 DEF AggregateRepairs
<1> QED
  BY <1>2, Inductive, PTL

===============================================================================
