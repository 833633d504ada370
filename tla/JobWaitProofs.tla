----------------------------- MODULE JobWaitProofs -----------------------------
(***************************************************************************)
(* Proofs about JobWait, for any number of waiters of both clients, any    *)
(* timeouts and poll interval, and a clock set any number of times.        *)
(*                                                                         *)
(* A waiter holds an old answer of the platform.  The invariant says what  *)
(* an old answer still tells: a final status is for ever, and so is what a *)
(* final report says, while a missing or old one may still become final.   *)
(***************************************************************************)
EXTENDS JobWait, TLAPS

Unfinished == verdict = NotEnded

\* What a response, of now or earlier, says of the job: its keys are of the time
\* before the end, or the verdict; and a final status shows the verdict.
Tells(j) ==
    /\ j.outcome \in Stale \cup {verdict} /\ j.report \in Stale \cup {verdict}
    /\ j.status \in TerminalStatuses => ~Unfinished /\ j.status \in Shown(verdict)

\* What the answer of a poll says of the job now.
StillTrue(w) ==
    response[w].status \in TerminalStatuses =>
        /\ response[w].status = job.status
        /\ response[w].report = verdict => job.report = verdict

\* The caller asked after its wait returned.
Told(w) ==
    told[w] # NotAsked =>
        /\ pc[w] = "returned"
        /\ told[w] \in Stale \cup {verdict, job.status}
        /\ response[w].report = verdict => told[w] = verdict

Inv == /\ TypeOK
       /\ Tells(job)
       /\ ~Unfinished => job.status \in Shown(verdict)
       /\ cancel = "true" => verdict = "cancelled"
       /\ \A w \in Waiters :
             /\ Tells(response[w])
             /\ StillTrue(w)
             /\ pc[w] = "returned" => response[w].status \in TerminalStatuses
       /\ \A w \in SyncWaiters :
             /\ Told(w)
             /\ pc[w] \in {"idle", "check", "polling", "sleeping", "timed_out"} =>
                   response[w].status \notin TerminalStatuses

\* What is old is not final, and a status that shows a verdict is final.
LEMMA Kinds ==
    /\ NoReport \notin TerminalStatuses /\ NotEnded \notin TerminalStatuses
    /\ Stale \cap TerminalStatuses = {} /\ NotEnded \notin Stale
    /\ \A v \in TerminalStatuses : v \in Shown(v) /\ Shown(v) \subseteq TerminalStatuses
BY OldOK DEF NoReport, NotEnded, Stale, TerminalStatuses, Shown

LEMMA InitInv == Init => Inv
<1> SUFFICES ASSUME Init PROVE Inv
  OBVIOUS
<1>1. TypeOK
  <2>1. Nothing \in Jobs
    BY DEF Nothing, Jobs, Statuses, Reports, Stale
  <2>2. 0 \in 0..MaxNow /\ 0 \in 0..ClockSteps /\ 0 \in 0..PollInterval
    BY TimesNat
  <2> QED
    BY <2>1, <2>2 DEF Init, TypeOK
<1>2. Tells(job) /\ job.status \notin TerminalStatuses /\ Unfinished
  BY DEF Init, Nothing, Tells, TerminalStatuses, Stale, Unfinished
<1>3. \A w \in Waiters : response[w] = job /\ pc[w] = "idle"
  BY DEF Init
<1>4. \A w \in SyncWaiters : w \in Waiters /\ told[w] = NotAsked
  BY DEF Init, Waiters
<1>5. cancel = "idle"
  BY DEF Init
<1> QED
  BY <1>1, <1>2, <1>3, <1>4, <1>5 DEF Inv, StillTrue, Told, Tells

\* Types are kept by what a wait does.
LEMMA WaitTypes ==
    ASSUME TypeOK, NEW w \in Waiters,
           (\E t \in Timeouts : WaitForJob(w, t)) \/ Proceed(w) \/ GetJobOutcome(w)
    PROVE  TypeOK'
<1> USE DEF TypeOK, platformVars, clockVars, waitVars, Goto
<1>1. CASE \E t \in Timeouts : WaitForJob(w, t)
  <2>1. PICK t \in Timeouts : WaitForJob(w, t)
    BY <1>1
  <2>2. now + t \in 0..MaxNow
    BY <2>1, TimesNat DEF WaitForJob
  <2> QED
    BY <2>1, <2>2 DEF WaitForJob
<1>2. CASE Poll(w) \/ GiveUp(w) \/ GetJobRaises(w) \/ WakeUp(w)
  BY <1>2 DEF Poll, GiveUp, GetJobRaises, WakeUp
<1>3. CASE Serve(w)
  BY <1>3 DEF Serve
<1>4. CASE Examine(w)
  <2>1. PollInterval \in 0..PollInterval
    BY TimesNat
  <2> QED
    BY <1>4, <2>1 DEF Examine
<1>5. CASE GetJobOutcome(w)
  <2>1. job.report \in Reported \cup {NoReport}
    BY OldOK DEF Jobs, Reports, Stale, Reported
  <2>2. FromApiResponse(job) \in Reported \cup {NoReport, NotAsked}
    BY <2>1 DEF FromApiResponse, Synthesized
  <2> QED
    BY <1>5, <2>2 DEF GetJobOutcome
<1> QED
  BY <1>1, <1>2, <1>3, <1>4, <1>5 DEF Proceed

\* Types are kept by the platform, the user and time.
LEMMA OutsideTypes ==
    ASSUME TypeOK,
           \/ Start \/ (\E v \in TerminalStatuses : Finish(v)) \/ AttachReport
           \/ CancelJob \/ Cancelled \/ CancelRefused \/ Tick \/ SetClock
    PROVE  TypeOK'
<1> USE DEF TypeOK, platformVars, clockVars, waitVars, Jobs
<1>1. CASE Start
  BY <1>1 DEF Start, Nothing, Statuses, Reports, Stale
<1>2. ASSUME NEW v \in TerminalStatuses, End(v)
      PROVE  job' \in Jobs /\ verdict' \in TerminalStatuses
  <2>1. Shown(v) \subseteq Statuses
    BY <1>2 DEF Shown, Statuses, TerminalStatuses
  <2> QED
    BY <1>2, <2>1 DEF End, Reports
<1>3. CASE AttachReport
  <2>1. verdict \in Reports
    BY <1>3 DEF AttachReport, Finished, Reports
  <2> QED
    BY <1>3, <2>1 DEF AttachReport
<1>4. CASE CancelJob \/ CancelRefused
  BY <1>4 DEF CancelJob, CancelRefused
<1>5. CASE Cancelled
  <2>1. "cancelled" \in TerminalStatuses
    BY DEF TerminalStatuses
  <2> QED
    BY <1>5, <1>2, <2>1 DEF Cancelled
<1>6. CASE Tick
  <2>1. now' \in 0..MaxNow
    BY <1>6, TimesNat DEF Tick
  <2>2. left' \in [Waiters -> 0..PollInterval]
    BY <1>6, TimesNat DEF Tick
  <2> QED
    BY <1>6, <2>1, <2>2 DEF Tick
<1>7. CASE SetClock
  BY <1>7, TimesNat DEF SetClock
<1>8. CASE \E v \in TerminalStatuses : Finish(v)
  BY <1>8, <1>2 DEF Finish
<1> QED
  BY <1>1, <1>3, <1>4, <1>5, <1>6, <1>7, <1>8

\* What the platform does to a job keeps every answer it gave true.
LEMMA JobKept ==
    ASSUME Inv, TypeOK', UNCHANGED waitVars, Tells(job)',
           verdict # verdict' => Unfinished,
           (~Unfinished)' => job'.status \in Shown(verdict'),
           cancel' = "true" => verdict' = "cancelled",
           ~Unfinished => /\ job'.status = job.status
                          /\ job.report = verdict => job'.report = verdict
    PROVE  Inv'
<1>1. response' = response /\ pc' = pc /\ told' = told
  BY DEF waitVars
<1>2. ASSUME NEW w \in Waiters PROVE Tells(response[w])' /\ StillTrue(w)'
  <2>1. /\ Tells(response[w]) /\ StillTrue(w)
        /\ response[w].outcome \in Reports /\ response[w].report \in Reports
    BY <1>2 DEF Inv, TypeOK, Jobs
  <2>2. CASE Unfinished
    <3>1. /\ response[w].status \notin TerminalStatuses
          /\ response[w].outcome \in Stale /\ response[w].report \in Stale
      BY <2>1, <2>2, Kinds DEF Tells, Reports, Unfinished
    <3> QED
      BY <3>1, <1>1 DEF Tells, StillTrue
  <2>3. CASE ~Unfinished
    BY <2>1, <2>3, <1>1 DEF Tells, StillTrue, Unfinished
  <2> QED
    BY <2>2, <2>3
<1>3. ASSUME NEW w \in SyncWaiters PROVE Told(w)'
  <2>1. /\ w \in Waiters /\ Told(w) /\ Tells(response[w])
        /\ pc[w] = "returned" => response[w].status \in TerminalStatuses
    BY <1>3 DEF Inv, Waiters
  <2>2. told[w] # NotAsked => ~Unfinished /\ verdict' = verdict /\ job'.status = job.status
    BY <2>1 DEF Told, Tells
  <2> QED
    BY <2>1, <2>2, <1>1 DEF Told
<1> QED
  BY <1>1, <1>2, <1>3 DEF Inv

\* The end of a job is told by its response at once, in the status.
LEMMA EndTells ==
    ASSUME Inv, NEW v \in TerminalStatuses, End(v)
    PROVE  /\ Tells(job)' /\ Unfinished /\ verdict' = v
           /\ job'.status \in Shown(verdict') /\ cancel # "true"
<1>1. Unfinished /\ verdict' = v /\ (~Unfinished)'
  BY Kinds DEF End, Finished, Unfinished
<1>2. /\ job'.status \in Shown(v)
      /\ job'.outcome \in Stale \cup {v} /\ job'.report \in Stale \cup {v}
  BY DEF End
<1>3. cancel # "true"
  BY <1>1 DEF Inv, Unfinished, NotEnded
<1> QED
  BY <1>1, <1>2, <1>3 DEF Tells

LEMMA OutsideStep ==
    ASSUME Inv,
           \/ Start \/ (\E v \in TerminalStatuses : Finish(v)) \/ AttachReport
           \/ CancelJob \/ Cancelled \/ CancelRefused \/ Tick \/ SetClock
    PROVE  Inv'
<1>1. TypeOK' /\ TypeOK
  BY OutsideTypes DEF Inv
<1>2. /\ Tells(job)
      /\ ~Unfinished => job.status \in Shown(verdict)
      /\ cancel = "true" => verdict = "cancelled"
      /\ verdict \in TerminalStatuses \cup {NotEnded} /\ job \in Jobs
  BY <1>1 DEF Inv, TypeOK
<1>3. CASE Start
  <2>1. job.status \notin TerminalStatuses /\ verdict' = verdict /\ cancel' = cancel
    BY <1>3 DEF Start, TerminalStatuses
  <2>2. Unfinished
    BY <2>1, <1>2, Kinds DEF Unfinished
  <2>3. /\ job'.status = "running" /\ job'.outcome = NoReport /\ job'.report = NoReport
    BY <1>3 DEF Start, Nothing
  <2>4. Tells(job)'
    BY <2>3 DEF Tells, Stale, TerminalStatuses
  <2> QED
    BY <2>1, <2>2, <2>4, <1>1, <1>2, <1>3, JobKept DEF Start, Unfinished
<1>5. CASE \E v \in TerminalStatuses : Finish(v)
  <2>1. PICK v \in TerminalStatuses : Finish(v)
    BY <1>5
  <2>2. End(v) /\ cancel' = cancel /\ UNCHANGED waitVars
    BY <2>1 DEF Finish
  <2> QED
    BY <2>2, <1>1, EndTells, JobKept
<1>6. CASE AttachReport
  <2>1. ~Unfinished /\ verdict' = verdict /\ cancel' = cancel /\ UNCHANGED waitVars
    BY <1>6 DEF AttachReport, Finished, Unfinished
  <2>2. /\ job'.status = job.status
        /\ job'.outcome \in {job.outcome, verdict} /\ job'.report \in {job.report, verdict}
    BY <1>2, <1>6 DEF AttachReport, Jobs
  <2>3. Tells(job)'
    BY <2>1, <2>2, <1>2 DEF Tells, Unfinished
  <2> QED
    BY <2>1, <2>2, <2>3, <1>1, <1>2, JobKept
<1>7. CASE CancelJob \/ CancelRefused
  <2>1. UNCHANGED <<job, verdict, waitVars>> /\ cancel' \in {"sent", "raised"}
    BY <1>7 DEF CancelJob, CancelRefused
  <2>2. Tells(job)' /\ Unfinished' = Unfinished
    BY <2>1, <1>2 DEF Tells, Unfinished
  <2> QED
    BY <2>1, <2>2, <1>1, <1>2, JobKept
<1>8. CASE Cancelled
  <2>1. "cancelled" \in TerminalStatuses /\ End("cancelled") /\ UNCHANGED waitVars
    BY <1>8 DEF Cancelled, TerminalStatuses
  <2> QED
    BY <2>1, <1>1, EndTells, JobKept
<1>9. CASE Tick \/ SetClock
  <2>1. UNCHANGED <<job, verdict, cancel, waitVars>>
    BY <1>9 DEF Tick, SetClock, platformVars
  <2>2. Tells(job)' /\ Unfinished' = Unfinished
    BY <2>1, <1>2 DEF Tells, Unfinished
  <2> QED
    BY <2>1, <2>2, <1>1, <1>2, JobKept
<1> QED
  BY <1>3, <1>5, <1>6, <1>7, <1>8, <1>9

\* A step of one wait leaves the others alone: what changes is the place of
\* waiter w, and its answer only in Serve.
LEMMA WaitStep ==
    ASSUME Inv, NEW w \in Waiters,
           (\E t \in Timeouts : WaitForJob(w, t)) \/ Proceed(w) \/ GetJobOutcome(w)
    PROVE  Inv'
<1>1. TypeOK' /\ TypeOK
  BY WaitTypes DEF Inv
<1>2. SyncWaiters \subseteq Waiters
  BY DEF Waiters
<1>3. \A x \in SyncWaiters : told[x] # NotAsked => pc[x] = "returned"
  BY DEF Inv, Told
<1>4. ASSUME UNCHANGED <<platformVars, response, told>>,
             NEW label, pc' = [pc EXCEPT ![w] = label], pc[w] # "returned",
             label = "returned" => response[w].status \in TerminalStatuses,
             w \in SyncWaiters
                 /\ label \in {"idle", "check", "polling", "sleeping", "timed_out"} =>
                 response[w].status \notin TerminalStatuses
      PROVE  Inv'
  <2>1. \A x \in Waiters : pc'[x] = IF x = w THEN label ELSE pc[x]
    BY <1>1, <1>4 DEF TypeOK
  <2>2. /\ job' = job /\ verdict' = verdict /\ cancel' = cancel
        /\ response' = response /\ told' = told
    BY <1>4 DEF platformVars
  <2>3. \A x \in SyncWaiters : Told(x)'
    BY <2>1, <2>2, <1>2, <1>3, <1>4 DEF Inv, Told
  <2> QED
    BY <2>1, <2>2, <2>3, <1>1, <1>2, <1>4 DEF Inv, StillTrue, Tells, Unfinished
<1> USE DEF Goto
<1>5. CASE \E t \in Timeouts : WaitForJob(w, t)
  BY <1>4, <1>5 DEF WaitForJob, Inv
<1>6. CASE Poll(w)
  BY <1>4, <1>6 DEF Poll, Inv
<1>7. CASE GiveUp(w)
  BY <1>4, <1>7 DEF GiveUp, Inv
<1>8. CASE GetJobRaises(w)
  BY <1>4, <1>8 DEF GetJobRaises, Inv
<1>9. CASE WakeUp(w)
  BY <1>4, <1>9 DEF WakeUp, Inv
<1>10. CASE Examine(w)
  <2>1. Compared(w) \subseteq TerminalStatuses
    BY DEF Compared, SyncTerminal, AsyncTerminal, TerminalStatuses
  <2>2. w \in SyncWaiters => Compared(w) = TerminalStatuses
    BY DEF Compared, SyncTerminal, TerminalStatuses
  <2>3. CASE response[w].status \in Compared(w)
    BY <2>1, <2>3, <1>4, <1>10 DEF Examine
  <2>4. CASE response[w].status \notin Compared(w)
    BY <2>2, <2>4, <1>4, <1>10 DEF Examine
  <2> QED
    BY <2>3, <2>4
<1>11. CASE Serve(w)
  <2>1. /\ \A x \in Waiters : /\ response'[x] = IF x = w THEN job ELSE response[x]
                              /\ pc'[x] = IF x = w THEN "answered" ELSE pc[x]
        /\ job' = job /\ verdict' = verdict /\ cancel' = cancel
        /\ told' = told /\ pc[w] = "polling"
    BY <1>1, <1>11 DEF Serve, platformVars, TypeOK
  <2>2. \A x \in Waiters : Tells(response[x])' /\ StillTrue(x)'
    BY <2>1 DEF Inv, Tells, StillTrue, Unfinished
  <2>3. \A x \in SyncWaiters : Told(x)'
    BY <2>1, <1>2, <1>3 DEF Inv, Told
  <2> QED
    BY <2>1, <2>2, <2>3, <1>1, <1>2 DEF Inv, Tells, Unfinished
<1>12. CASE GetJobOutcome(w)
  <2>1. /\ \A x \in SyncWaiters : told'[x] = IF x = w THEN FromApiResponse(job) ELSE told[x]
        /\ pc[w] = "returned" /\ w \in SyncWaiters
        /\ job' = job /\ verdict' = verdict /\ cancel' = cancel
        /\ pc' = pc /\ response' = response
    BY <1>1, <1>12 DEF GetJobOutcome, platformVars, TypeOK
  <2>2. /\ response[w].status \in TerminalStatuses
        /\ StillTrue(w) /\ Tells(response[w]) /\ Tells(job)
    BY <2>1 DEF Inv
  <2>3. ~Unfinished /\ verdict \in TerminalStatuses
    BY <2>2, <1>1 DEF Tells, Unfinished, TypeOK
  <2>4. FromApiResponse(job) \in Stale \cup {verdict, job.status}
    BY <2>2 DEF FromApiResponse, Synthesized, Flat, Tells, Stale
  <2>5. response[w].report = verdict => FromApiResponse(job) = verdict
    BY <2>2, <2>3, Kinds DEF StillTrue, FromApiResponse
  <2>6. \A x \in SyncWaiters : Told(x)'
    BY <2>1, <2>4, <2>5 DEF Inv, Told
  <2> QED
    BY <2>1, <2>6, <1>1 DEF Inv, Tells, StillTrue, Unfinished
<1> QED
  BY <1>5, <1>6, <1>7, <1>8, <1>9, <1>10, <1>11, <1>12 DEF Proceed

LEMMA StepInv == Inv /\ [Next]_vars => Inv'
<1> SUFFICES ASSUME Inv, [Next]_vars PROVE Inv'
  OBVIOUS
<1>1. CASE \E w \in Waiters :
              (\E t \in Timeouts : WaitForJob(w, t)) \/ Proceed(w) \/ GetJobOutcome(w)
  BY <1>1, WaitStep
<1>2. CASE \/ Start \/ (\E v \in TerminalStatuses : Finish(v)) \/ AttachReport
           \/ CancelJob \/ Cancelled \/ CancelRefused \/ Tick \/ SetClock
  BY <1>2, OutsideStep
<1>3. CASE UNCHANGED vars
  BY <1>3 DEF vars, platformVars, clockVars, waitVars, Inv, TypeOK,
              Tells, Unfinished, StillTrue, Told
<1> QED
  BY <1>1, <1>2, <1>3 DEF Next

LEMMA SpecInv == Spec => []Inv
BY InitInv, StepInv, PTL DEF Spec

-------------------------------------------------------------------------------
\* The state keeps its types: no deadline or sleep is longer than asked for.
THEOREM TypeCorrect == Spec => []TypeOK
<1>1. Inv => TypeOK
  BY DEF Inv
<1> QED
  BY <1>1, SpecInv, PTL

\* No waiter ever returns a status that changes afterwards, or that another
\* waiter sees differently, or other than "cancelled" after cancel_job()
\* returned True.
THEOREM ReturnsFinal == Spec => []ReturnedIsFinal
<1>1. Inv => ReturnedIsFinal
  <2> SUFFICES ASSUME Inv, NEW w \in Waiters, pc[w] = "returned"
               PROVE  /\ response[w].status \in TerminalStatuses
                      /\ response[w].status = job.status
                      /\ cancel = "true" => response[w].status = "cancelled"
    BY DEF ReturnedIsFinal
  <2>1. /\ response[w].status \in TerminalStatuses /\ response[w].status = job.status
        /\ response[w].status \in Shown(verdict)
        /\ cancel = "true" => verdict = "cancelled"
    BY DEF Inv, StillTrue, Tells
  <2> QED
    BY <2>1 DEF Shown
<1> QED
  BY <1>1, SpecInv, PTL

\* A returned job says that it is a success only if no partition failed, or if the
\* platform showed it as completed and sent no report along.
THEOREM SuccessReal == Spec => []SuccessIsReal
<1>1. Inv => SuccessIsReal
  <2> SUFFICES ASSUME Inv, NEW w \in Waiters,
                      pc[w] = "returned", IsSuccess(response[w]), verdict # "completed"
               PROVE  job.status # verdict /\ response[w].report = NoReport
    BY DEF SuccessIsReal
  <2>1. /\ response[w].status \in TerminalStatuses
        /\ Tells(response[w]) /\ StillTrue(w)
    BY DEF Inv
  <2>2. "completed" \notin Stale
    BY Kinds DEF TerminalStatuses
  <2>3. response[w].report = NoReport /\ response[w].status = "completed"
    BY <2>1, <2>2 DEF Tells, IsSuccess
  <2> QED
    BY <2>1, <2>3 DEF StillTrue
<1> QED
  BY <1>1, SpecInv, PTL

\* get_job_outcome() repeats the final report of the job that wait_for_job()
\* returned, and otherwise never gives it a better outcome than it had.
THEOREM OutcomeStands == Spec => []OutcomeNeverImproves
<1>1. Inv => OutcomeNeverImproves
  <2> SUFFICES ASSUME Inv, NEW w \in SyncWaiters, told[w] # NotAsked
               PROVE  /\ response[w].report \in TerminalStatuses => told[w] = response[w].report
                      /\ {told[w], Outcome(response[w])} \subseteq TerminalStatuses =>
                            \/ told[w] = Outcome(response[w])
                            \/ /\ told[w] = "completed_with_failures"
                               /\ Outcome(response[w]) = "completed"
    BY DEF OutcomeNeverImproves
  <2>1. /\ Told(w) /\ Tells(response[w]) /\ StillTrue(w)
        /\ response[w].status \in TerminalStatuses
    BY DEF Inv, Told, Waiters
  <2>2. response[w].status = job.status /\ job.status \in Shown(verdict)
    BY <2>1 DEF Tells, StillTrue
  <2>3. response[w].report \in TerminalStatuses =>
            response[w].report = verdict /\ told[w] = verdict
    BY <2>1, Kinds DEF Tells, Told
  <2>4. ASSUME told[w] \in TerminalStatuses, Outcome(response[w]) \in TerminalStatuses,
               response[w].report \notin TerminalStatuses
        PROVE  \/ told[w] = Outcome(response[w])
               \/ told[w] = "completed_with_failures" /\ Outcome(response[w]) = "completed"
    <3>1. Outcome(response[w]) = job.status
      BY <2>2, <2>4 DEF Outcome
    <3>2. told[w] \in {verdict, job.status}
      BY <2>1, <2>4, Kinds DEF Told
    <3> QED
      BY <3>1, <3>2, <2>2 DEF Shown
  <2>5. response[w].report \in TerminalStatuses => Outcome(response[w]) = response[w].report
    BY Kinds DEF Outcome
  <2> QED
    BY <2>3, <2>4, <2>5
<1> QED
  BY <1>1, SpecInv, PTL

\* The synchronous client times out only on a job that had not ended when it
\* last looked.
THEOREM SyncTimeout == Spec => []TimeoutOnlyIfUnfinished
<1>1. Inv => TimeoutOnlyIfUnfinished
  BY DEF Inv, TimeoutOnlyIfUnfinished
<1> QED
  BY <1>1, SpecInv, PTL
===============================================================================
