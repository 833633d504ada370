------------------------------- MODULE JobWait --------------------------------
(***************************************************************************)
(* Waiting for a job: wait_for_job of QontosClient (client.py) and of      *)
(* AsyncQontosClient (async_client.py), any number of them on one job,     *)
(* while the platform runs the job and a user cancels it; and what the Job *)
(* and the outcome report they parse say of it (sdk_models.py).            *)
(*                                                                         *)
(* The platform is external.  Its response has a status and may have an    *)
(* outcome report, nested, and an outcome as a key of its own; either may  *)
(* be older than the status, and a platform whose statuses know no partial *)
(* failure shows a degraded job as "completed" and tells in the other two. *)
(* A get_job() call is ClientRequest's: it ends, with a job or by raising. *)
(***************************************************************************)
EXTENDS Integers, FiniteSets

CONSTANTS
    SyncWaiters, AsyncWaiters,  \* calls of wait_for_job, by client
    Timeouts,                   \* bound: values of the timeout argument
    PollInterval,
    OldOutcomes,                \* what the keys may say that are older than the status
    MaxNow,                     \* bound: the wall clock
    ClockSteps                  \* bound: how often the wall clock is set

Waiters == SyncWaiters \cup AsyncWaiters

ASSUME TimesNat == /\ Timeouts \subseteq Nat
                   /\ PollInterval \in Nat \ {0}
                   /\ MaxNow \in Nat /\ ClockSteps \in Nat
ASSUME OldOK == OldOutcomes \subseteq {"pending", "running"}
ASSUME KindsDiffer == SyncWaiters \cap AsyncWaiters = {}

VARIABLES
    job,        \* the platform's response on the job
    verdict,    \* how the job ended
    cancel,     \* the user's cancel_job call
    now,        \* time.time()
    steps,      \* how often the clock was set
    pc,         \* where each wait is
    deadline,   \* its deadline
    left,       \* what is left of its sleep
    response,   \* the job its last get_job() returned
    told        \* what get_job_outcome() answered the one who waited, last

platformVars == <<job, verdict, cancel>>
clockVars == <<now, steps, left>>
waitVars == <<pc, deadline, response, told>>
vars == <<platformVars, clockVars, waitVars>>

-------------------------------------------------------------------------------
\* JobOutcomeReport.is_terminal of the SDK
TerminalStatuses == {"completed", "completed_with_failures", "failed", "cancelled"}
\* what the clients compare job.status with
\* mutants: "running" among them; the tuple of the asynchronous client
SyncTerminalRunning == {"completed", "completed_with_failures", "failed", "cancelled", "running"}
SyncTerminalShort == {"completed", "failed", "cancelled"}
SyncTerminal == {"completed", "completed_with_failures", "failed", "cancelled"}
AsyncTerminal == {"completed", "failed", "cancelled"}
Compared(w) == IF w \in SyncWaiters THEN SyncTerminal ELSE AsyncTerminal

Statuses == {"queued", "running"} \cup TerminalStatuses
NoReport == "none"
Stale == OldOutcomes \cup {NoReport}
Reports == Stale \cup TerminalStatuses
Jobs == [status : Statuses, outcome : Reports, report : Reports]
Nothing == [status |-> "queued", outcome |-> NoReport, report |-> NoReport]
NotEnded == "not ended"

(* What a parsed Job says of itself, with and without an outcome report; it    *)
(* has no field for the outcome key.                                          *)
\* mutant: a degraded report is a success
IsSuccessDegraded(j) ==
    IF j.report # NoReport THEN j.report \in {"completed", "completed_with_failures"}
    ELSE j.status = "completed"
IsSuccess(j) == IF j.report # NoReport THEN j.report = "completed" ELSE j.status = "completed"

Outcome(j) == IF j.report # NoReport THEN j.report ELSE j.status

(* What from_api_response makes of the response itself. *)
NotAsked == "not asked"
Reported == TerminalStatuses \cup {"pending", "running"}
Synthesized(outcome) == IF outcome \in Reported THEN outcome ELSE NoReport
Flat(j) == IF j.outcome # NoReport THEN j.outcome ELSE j.status
\* mutant: the flat form is preferred
FromApiResponseFlat(j) == IF j.outcome # NoReport \/ j.report = NoReport THEN Synthesized(Flat(j))
                          ELSE j.report
FromApiResponse(j) == IF j.report # NoReport THEN j.report ELSE Synthesized(Flat(j))

-------------------------------------------------------------------------------
Init == /\ job = Nothing
        /\ verdict = NotEnded
        /\ cancel = "idle"
        /\ now = 0 /\ steps = 0
        /\ pc = [w \in Waiters |-> "idle"]
        /\ deadline = [w \in Waiters |-> 0]
        /\ left = [w \in Waiters |-> 0]
        /\ response = [w \in Waiters |-> Nothing]
        /\ told = [w \in SyncWaiters |-> NotAsked]

Goto(w, label) == pc' = [pc EXCEPT ![w] = label]

WaitForJob(w, t) == /\ pc[w] = "idle"
                    /\ now + t <= MaxNow
                    /\ deadline' = [deadline EXCEPT ![w] = now + t]
                    /\ Goto(w, "check")
                    /\ UNCHANGED <<platformVars, clockVars, response, told>>

Poll(w) == /\ pc[w] = "check"
           /\ now < deadline[w]
           /\ Goto(w, "polling")
           /\ UNCHANGED <<platformVars, clockVars, deadline, response, told>>

GiveUp(w) == /\ pc[w] = "check"
             /\ now >= deadline[w]
             /\ Goto(w, "timed_out")
             /\ UNCHANGED <<platformVars, clockVars, deadline, response, told>>

\* the platform answers a GET, the client reads the answer later
Serve(w) == /\ pc[w] = "polling"
            /\ response' = [response EXCEPT ![w] = job]
            /\ Goto(w, "answered")
            /\ UNCHANGED <<platformVars, clockVars, deadline, told>>

GetJobRaises(w) == /\ pc[w] = "polling"
                   /\ Goto(w, "raised")
                   /\ UNCHANGED <<platformVars, clockVars, deadline, response, told>>

\* mutant: a sleep longer than the poll interval
ExamineAdding(w) ==
    /\ pc[w] = "answered"
    /\ \/ response[w].status \in Compared(w) /\ Goto(w, "returned") /\ UNCHANGED left
       \/ /\ response[w].status \notin Compared(w)
          /\ Goto(w, "sleeping")
          /\ left' = [left EXCEPT ![w] = @ + PollInterval + 1]
    /\ UNCHANGED <<platformVars, now, steps, deadline, response, told>>

Examine(w) == /\ pc[w] = "answered"
              /\ \/ /\ response[w].status \in Compared(w)
                    /\ Goto(w, "returned")
                    /\ UNCHANGED left
                 \/ /\ response[w].status \notin Compared(w)
                    /\ Goto(w, "sleeping")
                    /\ left' = [left EXCEPT ![w] = PollInterval]
              /\ UNCHANGED <<platformVars, now, steps, deadline, response, told>>

\* mutant: the sleep ends with another poll, not at the head of the loop
WakeUpPolling(w) == /\ pc[w] = "sleeping"
                    /\ left[w] = 0
                    /\ Goto(w, "polling")
                    /\ UNCHANGED <<platformVars, clockVars, deadline, response, told>>

WakeUp(w) == /\ pc[w] = "sleeping"
             /\ left[w] = 0
             /\ Goto(w, "check")
             /\ UNCHANGED <<platformVars, clockVars, deadline, response, told>>

\* after its wait the caller may ask for the outcome, again and again; the
\* asynchronous client has no get_job_outcome
GetJobOutcome(w) == /\ pc[w] = "returned" /\ w \in SyncWaiters
                    /\ told' = [told EXCEPT ![w] = FromApiResponse(job)]
                    /\ UNCHANGED <<platformVars, clockVars, pc, deadline, response>>

Over(w) == pc[w] \in {"returned", "timed_out", "raised"}

-------------------------------------------------------------------------------
(* The platform and the user, external. *)
Finished == verdict # NotEnded

Start == /\ job.status = "queued"
         /\ job' = [Nothing EXCEPT !.status = "running"]
         /\ UNCHANGED <<verdict, cancel, clockVars, waitVars>>

\* the statuses that a platform may show a job under that ended in v
Shown(v) == IF v = "completed_with_failures" THEN {v, "completed"} ELSE {v}

\* Nobody reads what the keys say of a running job; they may go on saying it, and
\* the outcome may follow later, or never.
End(v) == /\ ~Finished
          /\ verdict' = v
          /\ job' \in [status : Shown(v), outcome : Stale \cup {v}, report : Stale \cup {v}]

Finish(v) == /\ End(v)
             /\ UNCHANGED <<cancel, clockVars, waitVars>>

AttachReport == /\ Finished
                /\ \/ job' = [job EXCEPT !.outcome = verdict]
                   \/ job' = [job EXCEPT !.report = verdict]
                /\ UNCHANGED <<verdict, cancel, clockVars, waitVars>>

CancelJob == /\ cancel = "idle"
             /\ cancel' = "sent"
             /\ UNCHANGED <<job, verdict, clockVars, waitVars>>

\* when the answer is lost, the retry of the request finds the job cancelled
Cancelled == /\ cancel = "sent"
             /\ End("cancelled")
             /\ cancel' \in {"true", "sent", "raised"}
             /\ UNCHANGED <<clockVars, waitVars>>

CancelRefused == /\ cancel = "sent" /\ Finished
                 /\ cancel' = "raised"
                 /\ UNCHANGED <<job, verdict, clockVars, waitVars>>

\* the clock stops at its bound, where every deadline has passed; sleeps still end
Tick == /\ now < MaxNow \/ \E w \in Waiters : left[w] > 0
        /\ now' = IF now < MaxNow THEN now + 1 ELSE now
        /\ left' = [w \in Waiters |-> IF left[w] > 0 THEN left[w] - 1 ELSE 0]
        /\ UNCHANGED <<platformVars, steps, waitVars>>

\* time.time() is the wall clock, which NTP or an administrator may set
SetClock == /\ steps < ClockSteps
            /\ steps' = steps + 1
            /\ now' \in {now - 1, now + 1} \cap 0..MaxNow
            /\ UNCHANGED <<platformVars, left, waitVars>>

Proceed(w) == \/ Poll(w) \/ GiveUp(w) \/ Serve(w) \/ GetJobRaises(w)
              \/ Examine(w) \/ WakeUp(w)

Next == \/ \E w \in Waiters : (\E t \in Timeouts : WaitForJob(w, t)) \/ Proceed(w) \/ GetJobOutcome(w)
        \/ Start \/ (\E v \in TerminalStatuses \ {"cancelled"} : Finish(v)) \/ AttachReport
        \/ CancelJob \/ Cancelled \/ CancelRefused
        \/ Tick \/ SetClock

Spec == Init /\ [][Next]_vars

\* The waiter's thread or task runs, get_job() ends (ClientRequest) and time
\* passes; the platform owes nothing.
Fairness == WF_vars(Tick) /\ \A w \in Waiters : WF_vars(Proceed(w))
FairSpec == Spec /\ Fairness

-------------------------------------------------------------------------------
TypeOK ==
    /\ job \in Jobs /\ verdict \in TerminalStatuses \cup {NotEnded}
    /\ cancel \in {"idle", "sent", "true", "raised"}
    /\ now \in 0..MaxNow /\ steps \in 0..ClockSteps
    /\ pc \in [Waiters -> {"idle", "check", "polling", "answered", "sleeping",
                           "returned", "timed_out", "raised"}]
    /\ deadline \in [Waiters -> 0..MaxNow]
    /\ left \in [Waiters -> 0..PollInterval]
    /\ response \in [Waiters -> Jobs]
    /\ told \in [SyncWaiters -> Reported \cup {NoReport, NotAsked}]

\* A wait returns only the job's final status: whatever was in flight when the
\* job ended or was cancelled, no waiter returns a status that later changes,
\* two waiters never return different ones, and after cancel_job() returned
\* True none returns anything but "cancelled".
ReturnedIsFinal ==
    \A w \in Waiters : pc[w] = "returned" =>
        /\ response[w].status \in TerminalStatuses
        /\ response[w].status = job.status
        /\ cancel = "true" => response[w].status = "cancelled"

\* A returned job is a success for its holder only if no partition failed, however
\* its status and its report were out of step: a late report is not a success, and
\* an old response stays true.  The one exception is a platform that shows the
\* job as "completed" and sent no report along.
SuccessIsReal ==
    \A w \in Waiters : pc[w] = "returned" /\ IsSuccess(response[w]) =>
        verdict = "completed" \/ (job.status # verdict /\ response[w].report = NoReport)

\* get_job_outcome() after a wait: it repeats the final report of the returned job,
\* whatever is in the other keys; and where it gives a final outcome at all, nested
\* or made up from a key (sdk_models.py:155), that is the returned job's, or takes
\* back a success that the status feigned.  It never makes an outcome better.
OutcomeNeverImproves ==
    \A w \in SyncWaiters : told[w] # NotAsked =>
        /\ response[w].report \in TerminalStatuses => told[w] = response[w].report
        /\ {told[w], Outcome(response[w])} \subseteq TerminalStatuses =>
              \/ told[w] = Outcome(response[w])
              \/ told[w] = "completed_with_failures" /\ Outcome(response[w]) = "completed"

\* A wait blocks until the job reaches a terminal state (client.py:337) or the
\* time is up: the synchronous one times out only on a job that had not ended
\* when it was last polled.
TimeoutOnlyIfUnfinished ==
    \A w \in SyncWaiters : pc[w] = "timed_out" => response[w].status \notin TerminalStatuses

\* Every wait ends, even on a job that never does and over a clock that is set.
EveryWaitEnds == \A w \in Waiters : pc[w] = "check" ~> Over(w)

-------------------------------------------------------------------------------
\* async_client.py:3, the asynchronous client "provides the same interface": it
\* too times out only on a job that had not ended.  Violated: it does not look
\* for a job completed with failures, and goes on polling it.
AsyncTimeoutOnlyIfUnfinished ==
    \A w \in AsyncWaiters : pc[w] = "timed_out" => response[w].status \notin TerminalStatuses
===============================================================================
