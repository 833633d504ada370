-------------------------- MODULE ClientRequestProofs --------------------------
(* Proofs about the request loop, for every number of calls and retries. *)
EXTENDS ClientRequest, TLAPS

\* Only attempts that call c has made are on the network or were performed.
SentInRange(c) ==
    \A a \in Attempts : <<c, a>> \in requests \/ <<c, a>> \in executed =>
        pc[c] # "idle" /\ a <= attempt[c]

\* A request is gone once the server performed it.
ExecutedOnce(c) ==
    \A a \in Attempts : <<c, a>> \in executed => <<c, a>> \notin requests

\* An answer is for the attempt its caller waits for, the request it answers is
\* gone, "ok" follows the operation and a rate limit precludes it.
RepliesAwaited(c) ==
    \A a \in Attempts, answer \in Answers : <<c, a, answer>> \in replies =>
        /\ pc[c] = "waiting" /\ a = attempt[c]
        /\ <<c, a>> \notin requests
        /\ answer = "ok" => <<c, a>> \in executed
        /\ answer = "rate_limited" => <<c, a>> \notin executed

\* The attempts whose except clause has run.
Over(c, a) == a < attempt[c] \/ (a = attempt[c] /\ pc[c] \in {"loop", "backoff"})

Unanswered(c, a) == <<c, a, "timeout">> \in seen \/ <<c, a, "server_error">> \in seen

\* An attempt that is over failed transiently; it can have been performed, or
\* can still be, only if it ended without an answer or with a 5xx.
Progress(c) ==
    \A a \in Attempts : Over(c, a) =>
        /\ \E e \in Transient : <<c, a, e>> \in seen
        /\ <<c, a>> \in requests \/ <<c, a>> \in executed => Unanswered(c, a)

\* Where a call is in its loop, and the error it has kept there.
Located(c) ==
    /\ pc[c] = "done" <=> result[c] # Pending
    /\ pc[c] = "idle" => attempt[c] = 0
    /\ pc[c] \in {"waiting", "backoff"} => attempt[c] > 0
    /\ pc[c] \in {"idle", "loop"} /\ attempt[c] = 0 => last_exc[c] = NoException
    /\ pc[c] \in {"loop", "backoff"} /\ attempt[c] > 0 =>
          last_exc[c] \in Transient /\ <<c, attempt[c], last_exc[c]>> \in seen

\* What a call returns or raises.
ResultsRight(c) ==
    /\ result[c] = "value" => attempt[c] > 0 /\ <<c, attempt[c]>> \in executed
    /\ result[c] \in Transient =>
          attempt[c] = max_retries /\ max_retries > 0 /\ <<c, max_retries, result[c]>> \in seen

CallInv(c) == /\ SentInRange(c) /\ ExecutedOnce(c) /\ RepliesAwaited(c)
              /\ Progress(c) /\ Located(c) /\ ResultsRight(c)

IInv == TypeOK /\ \A c \in Calls : CallInv(c)

-------------------------------------------------------------------------------
\* A step leaves everything that concerns call d as it was.
Same(d) ==
    /\ pc'[d] = pc[d] /\ attempt'[d] = attempt[d]
    /\ last_exc'[d] = last_exc[d] /\ result'[d] = result[d]
    /\ \A a : /\ <<d, a>> \in requests' <=> <<d, a>> \in requests
              /\ <<d, a>> \in executed' <=> <<d, a>> \in executed
    /\ \A a, e : /\ <<d, a, e>> \in replies' <=> <<d, a, e>> \in replies
                 /\ <<d, a, e>> \in seen' <=> <<d, a, e>> \in seen

\* What the type invariant says of call c.
InRange(c) ==
    /\ max_retries \in Nat /\ attempt[c] \in Nat
    /\ max_retries <= MaxRetries /\ attempt[c] <= max_retries
    /\ \A a \in Attempts : a \in Nat /\ a > 0
    /\ pc[c] \in Locations /\ result[c] \in Results \cup {Pending}
    /\ last_exc[c] \in Transient \cup {NoException}

LEMMA AtCall ==
    ASSUME IInv, NEW c \in Calls
    PROVE  InRange(c) /\ CallInv(c)
BY RetriesNat DEF IInv, TypeOK, InRange, Attempts

\* Such a step keeps the invariant of call d.
LEMMA Frame ==
    ASSUME NEW d \in Calls, CallInv(d), Same(d), max_retries' = max_retries
    PROVE  CallInv(d)'
<1>1. SentInRange(d)' /\ ExecutedOnce(d)' /\ RepliesAwaited(d)'
  BY DEF CallInv, Same, SentInRange, ExecutedOnce, RepliesAwaited
<1>2. Progress(d)'
  BY DEF CallInv, Same, Progress, Over, Unanswered
<1>3. Located(d)'
  BY DEF CallInv, Same, Located
<1>4. ResultsRight(d)'
  BY DEF CallInv, Same, ResultsRight
<1> QED
  BY <1>1, <1>2, <1>3, <1>4 DEF CallInv

\* The invariant holds initially.
LEMMA InitIInv == Init => IInv
<1> SUFFICES ASSUME Init PROVE IInv
  OBVIOUS
<1>1. TypeOK
  <2>1. max_retries \in 0..MaxRetries /\ 0 \in 0..max_retries
    BY RetriesNat DEF Init
  <2>2. /\ "idle" \in Locations /\ NoException \in Transient \cup {NoException}
        /\ Pending \in Results \cup {Pending}
    BY DEF Locations
  <2>3. requests = {} /\ replies = {} /\ executed = {} /\ seen = {} /\ closed = FALSE
    BY DEF Init
  <2>4. /\ pc \in [Calls -> Locations] /\ attempt \in [Calls -> 0..max_retries]
        /\ last_exc \in [Calls -> Transient \cup {NoException}]
        /\ result \in [Calls -> Results \cup {Pending}]
    BY <2>1, <2>2 DEF Init
  <2> QED
    BY <2>1, <2>3, <2>4 DEF TypeOK
<1>2. ASSUME NEW c \in Calls PROVE CallInv(c)
  BY RetriesNat DEF Init, CallInv, SentInRange, ExecutedOnce, RepliesAwaited, Progress,
     Located, ResultsRight, Over, Attempts, Transient, Pending, NoException
<1> QED
  BY <1>1, <1>2 DEF IInv

\* Call preserves the invariant.
LEMMA CallStep ==
    ASSUME IInv, NEW c \in Calls, Call(c)
    PROVE  IInv'
<1>0. InRange(c) /\ CallInv(c)
  BY AtCall
<1>1. /\ max_retries' = max_retries
      /\ pc[c] = "idle" /\ pc'[c] = "loop"
      /\ attempt'[c] = attempt[c] /\ last_exc'[c] = last_exc[c] /\ result'[c] = result[c]
      /\ requests' = requests /\ executed' = executed /\ replies' = replies /\ seen' = seen
  BY DEF IInv, TypeOK, Call, Goto, netVars, callerVars
<1>2. TypeOK'
  BY RetriesNat DEF IInv, TypeOK, Call, Goto, netVars,
     Attempts, Locations, Answers, Transient, NoException, Results, Pending
<1>3. ASSUME NEW d \in Calls, d # c PROVE Same(d)
  BY <1>3 DEF IInv, TypeOK, Same, Call, Goto, netVars
<1>4. SentInRange(c)' /\ ExecutedOnce(c)'
  BY <1>0, <1>1 DEF InRange, CallInv, SentInRange, ExecutedOnce
<1>5. RepliesAwaited(c)'
  BY <1>0, <1>1 DEF InRange, CallInv, RepliesAwaited, SentInRange, ExecutedOnce
<1>6. Progress(c)'
  BY <1>0, <1>1 DEF InRange, CallInv, Progress, Over, Unanswered, RepliesAwaited, SentInRange, Located, Transient, Answers
<1>7. Located(c)'
  BY <1>0, <1>1 DEF InRange, CallInv, Located, Transient, Results, Pending, NoException, Locations
<1>8. ResultsRight(c)'
  BY <1>0, <1>1 DEF InRange, CallInv, ResultsRight, Located, RepliesAwaited, Transient, Pending, Attempts, Answers
<1> QED
  BY <1>1, <1>2, <1>3, <1>4, <1>5, <1>6, <1>7, <1>8, Frame DEF IInv, CallInv

\* Send preserves the invariant.
LEMMA SendStep ==
    ASSUME IInv, NEW c \in Calls, Send(c)
    PROVE  IInv'
<1>0. InRange(c) /\ CallInv(c)
  BY AtCall
<1>1. /\ max_retries' = max_retries
      /\ pc[c] = "loop" /\ attempt[c] < max_retries
      /\ attempt'[c] = attempt[c] + 1
      /\ pc'[c] = "waiting"
      /\ last_exc'[c] = last_exc[c] /\ result'[c] = result[c]
      /\ executed' = executed /\ replies' = replies /\ seen' = seen
      /\ requests' = requests \cup {<<c, attempt[c] + 1>>}
  BY DEF IInv, TypeOK, Send, Advance, Goto, netVars, callerVars
<1>2. TypeOK'
  BY RetriesNat DEF IInv, TypeOK, Send, Advance, Goto, netVars,
     Attempts, Locations, Answers, Transient, NoException, Results, Pending
<1>3. ASSUME NEW d \in Calls, d # c PROVE Same(d)
  BY <1>3 DEF IInv, TypeOK, Same, Send, Advance, Goto, netVars
<1>4. SentInRange(c)' /\ ExecutedOnce(c)'
  BY <1>0, <1>1 DEF InRange, CallInv, SentInRange, ExecutedOnce
<1>5. RepliesAwaited(c)'
  BY <1>0, <1>1 DEF InRange, CallInv, RepliesAwaited, SentInRange, ExecutedOnce
<1>6. Progress(c)'
  \* sending ends no attempt; the new request is of an attempt that is not over
  <2> SUFFICES ASSUME NEW a \in Attempts, Over(c, a)'
               PROVE  /\ \E e \in Transient : <<c, a, e>> \in seen
                      /\ <<c, a>> \in requests' \/ <<c, a>> \in executed => Unanswered(c, a)
    BY <1>1 DEF Progress, Unanswered
  <2>1. a < attempt[c] + 1 /\ a \in Nat /\ attempt[c] \in Nat
    BY <1>0, <1>1 DEF Over, InRange
  <2>2. Over(c, a)
    BY <2>1, <1>1 DEF Over
  <2>3. <<c, a>> \in requests' => <<c, a>> \in requests
    BY <2>1, <1>1
  <2> QED
    BY <2>2, <2>3, <1>0 DEF CallInv, Progress
<1>7. Located(c)'
  BY <1>0, <1>1 DEF InRange, CallInv, Located, Transient, Results, Pending, NoException, Locations
<1>8. ResultsRight(c)'
  BY <1>0, <1>1 DEF InRange, CallInv, ResultsRight, Located, RepliesAwaited, Transient, Pending, Attempts, Answers
<1> QED
  BY <1>1, <1>2, <1>3, <1>4, <1>5, <1>6, <1>7, <1>8, Frame DEF IInv, CallInv

\* SendOnClosed preserves the invariant.
LEMMA SendOnClosedStep ==
    ASSUME IInv, NEW c \in Calls, SendOnClosed(c)
    PROVE  IInv'
<1>0. InRange(c) /\ CallInv(c)
  BY AtCall
<1>1. /\ max_retries' = max_retries
      /\ pc[c] = "loop" /\ attempt[c] < max_retries
      /\ attempt'[c] = attempt[c] + 1
      /\ pc'[c] = "done" /\ result'[c] = "closed_client"
      /\ last_exc'[c] = last_exc[c]
      /\ requests' = requests /\ executed' = executed /\ replies' = replies /\ seen' = seen
  BY DEF IInv, TypeOK, SendOnClosed, Advance, Return, Goto, netVars, callerVars
<1>2. TypeOK'
  BY RetriesNat DEF IInv, TypeOK, SendOnClosed, Advance, Return, Goto, netVars,
     Attempts, Locations, Answers, Transient, NoException, Results, Pending
<1>3. ASSUME NEW d \in Calls, d # c PROVE Same(d)
  BY <1>3 DEF IInv, TypeOK, Same, SendOnClosed, Advance, Return, Goto, netVars
<1>4. SentInRange(c)' /\ ExecutedOnce(c)'
  BY <1>0, <1>1 DEF InRange, CallInv, SentInRange, ExecutedOnce
<1>5. RepliesAwaited(c)'
  BY <1>0, <1>1 DEF InRange, CallInv, RepliesAwaited, SentInRange, ExecutedOnce
<1>6. Progress(c)'
  BY <1>0, <1>1 DEF InRange, CallInv, Progress, Over, Unanswered, RepliesAwaited, SentInRange, Located, Transient, Answers
<1>7. Located(c)'
  BY <1>0, <1>1 DEF InRange, CallInv, Located, Transient, Results, Pending, NoException, Locations
<1>8. ResultsRight(c)'
  BY <1>0, <1>1 DEF InRange, CallInv, ResultsRight, Located, RepliesAwaited, Transient, Pending, Attempts, Answers
<1> QED
  BY <1>1, <1>2, <1>3, <1>4, <1>5, <1>6, <1>7, <1>8, Frame DEF IInv, CallInv

\* ConnectError preserves the invariant.
LEMMA ConnectErrorStep ==
    ASSUME IInv, NEW c \in Calls, ConnectError(c)
    PROVE  IInv'
<1>0. InRange(c) /\ CallInv(c)
  BY AtCall
<1>1. /\ max_retries' = max_retries
      /\ pc[c] = "loop" /\ attempt[c] < max_retries
      /\ attempt'[c] = attempt[c] + 1
      /\ last_exc'[c] = "timeout"
      /\ seen' = seen \cup {<<c, attempt[c] + 1, "timeout">>}
      /\ IF attempt[c] + 1 < max_retries
         THEN pc'[c] = "backoff" /\ result'[c] = result[c]
         ELSE pc'[c] = "done" /\ result'[c] = "timeout"
      /\ requests' = requests /\ executed' = executed /\ replies' = replies
  BY DEF IInv, TypeOK, ConnectError, Advance, Retry, Ended, Return, Goto, netVars, callerVars
<1>2. TypeOK'
  BY RetriesNat DEF IInv, TypeOK, ConnectError, Advance, Retry, Ended, Return, Goto, netVars,
     Attempts, Locations, Answers, Transient, NoException, Results, Pending
<1>3. ASSUME NEW d \in Calls, d # c PROVE Same(d)
  BY <1>3 DEF IInv, TypeOK, Same, ConnectError, Advance, Retry, Ended, Return, Goto, netVars
<1>4. SentInRange(c)' /\ ExecutedOnce(c)'
  BY <1>0, <1>1 DEF InRange, CallInv, SentInRange, ExecutedOnce
<1>5. RepliesAwaited(c)'
  BY <1>0, <1>1 DEF InRange, CallInv, RepliesAwaited, SentInRange, ExecutedOnce
<1>6. Progress(c)'
  <2> SUFFICES ASSUME NEW a \in Attempts, Over(c, a)'
               PROVE  /\ \E e \in Transient : <<c, a, e>> \in seen'
                      /\ <<c, a>> \in requests \/ <<c, a>> \in executed => Unanswered(c, a)'
    BY <1>1 DEF Progress
  <2>1. CASE a <= attempt[c]
    <3>1. Over(c, a)
      BY <2>1, <1>0, <1>1 DEF InRange, Over
    <3> QED
      BY <3>1, <1>0, <1>1 DEF CallInv, Progress, Unanswered
  <2>2. CASE a > attempt[c]
    <3>1. a = attempt[c] + 1
      BY <2>2, <1>0, <1>1 DEF InRange, Over
    <3> QED
      BY <3>1, <1>1 DEF Unanswered, Transient
  <2> QED
    BY <2>1, <2>2, <1>0 DEF InRange
<1>7. Located(c)'
  BY <1>0, <1>1 DEF InRange, CallInv, Located, Transient, Results, Pending, NoException, Locations
<1>8. ResultsRight(c)'
  <2>1. CASE attempt[c] + 1 < max_retries
    BY <2>1, <1>0, <1>1 DEF InRange, CallInv, ResultsRight, Located, Transient, Pending
  <2>2. CASE ~(attempt[c] + 1 < max_retries)
    BY <2>2, <1>0, <1>1 DEF InRange, CallInv, ResultsRight, Located, Transient, Pending
  <2> QED
    BY <2>1, <2>2
<1> QED
  BY <1>1, <1>2, <1>3, <1>4, <1>5, <1>6, <1>7, <1>8, Frame DEF IInv, CallInv

\* RawTimeout preserves the invariant.
LEMMA RawTimeoutStep ==
    ASSUME IInv, NEW c \in Calls, RawTimeout(c)
    PROVE  IInv'
<1>0. InRange(c) /\ CallInv(c)
  BY AtCall
<1>1. /\ max_retries' = max_retries
      /\ pc[c] = "loop" /\ attempt[c] < max_retries
      /\ attempt'[c] = attempt[c] + 1
      /\ pc'[c] = "done" /\ result'[c] = "raw_timeout"
      /\ last_exc'[c] = last_exc[c]
      /\ requests' = requests /\ executed' = executed /\ replies' = replies /\ seen' = seen
  BY DEF IInv, TypeOK, RawTimeout, Advance, Return, Goto, netVars, callerVars
<1>2. TypeOK'
  BY RetriesNat DEF IInv, TypeOK, RawTimeout, Advance, Return, Goto, netVars,
     Attempts, Locations, Answers, Transient, NoException, Results, Pending
<1>3. ASSUME NEW d \in Calls, d # c PROVE Same(d)
  BY <1>3 DEF IInv, TypeOK, Same, RawTimeout, Advance, Return, Goto, netVars
<1>4. SentInRange(c)' /\ ExecutedOnce(c)'
  BY <1>0, <1>1 DEF InRange, CallInv, SentInRange, ExecutedOnce
<1>5. RepliesAwaited(c)'
  BY <1>0, <1>1 DEF InRange, CallInv, RepliesAwaited, SentInRange, ExecutedOnce
<1>6. Progress(c)'
  BY <1>0, <1>1 DEF InRange, CallInv, Progress, Over, Unanswered, RepliesAwaited, SentInRange, Located, Transient, Answers
<1>7. Located(c)'
  BY <1>0, <1>1 DEF InRange, CallInv, Located, Transient, Results, Pending, NoException, Locations
<1>8. ResultsRight(c)'
  BY <1>0, <1>1 DEF InRange, CallInv, ResultsRight, Located, RepliesAwaited, Transient, Pending, Attempts, Answers
<1> QED
  BY <1>1, <1>2, <1>3, <1>4, <1>5, <1>6, <1>7, <1>8, Frame DEF IInv, CallInv

\* Exhausted preserves the invariant.
LEMMA ExhaustedStep ==
    ASSUME IInv, NEW c \in Calls, Exhausted(c)
    PROVE  IInv'
<1>0. InRange(c) /\ CallInv(c)
  BY AtCall
<1>1. /\ max_retries' = max_retries
      /\ pc[c] = "loop" /\ attempt[c] = max_retries
      /\ attempt'[c] = attempt[c] /\ last_exc'[c] = last_exc[c]
      /\ pc'[c] = "done" /\ result'[c] = IF last_exc[c] = NoException THEN "unraisable" ELSE last_exc[c]
      /\ requests' = requests /\ executed' = executed /\ replies' = replies /\ seen' = seen
  BY DEF IInv, TypeOK, Exhausted, Return, Goto, netVars, callerVars
<1>2. TypeOK'
  BY RetriesNat DEF IInv, TypeOK, Exhausted, Return, Goto, netVars,
     Attempts, Locations, Answers, Transient, NoException, Results, Pending
<1>3. ASSUME NEW d \in Calls, d # c PROVE Same(d)
  BY <1>3 DEF IInv, TypeOK, Same, Exhausted, Return, Goto, netVars
<1>4. SentInRange(c)' /\ ExecutedOnce(c)'
  BY <1>0, <1>1 DEF InRange, CallInv, SentInRange, ExecutedOnce
<1>5. RepliesAwaited(c)'
  BY <1>0, <1>1 DEF InRange, CallInv, RepliesAwaited, SentInRange, ExecutedOnce
<1>6. Progress(c)'
  BY <1>0, <1>1 DEF InRange, CallInv, Progress, Over, Unanswered, RepliesAwaited, SentInRange, Located, Transient, Answers
<1>7. Located(c)'
  BY <1>0, <1>1 DEF InRange, CallInv, Located, Transient, Results, Pending, NoException, Locations
<1>8. ResultsRight(c)'
  BY <1>0, <1>1 DEF InRange, CallInv, ResultsRight, Located, RepliesAwaited, Transient, Pending, Attempts, Answers
<1> QED
  BY <1>1, <1>2, <1>3, <1>4, <1>5, <1>6, <1>7, <1>8, Frame DEF IInv, CallInv

\* Receive preserves the invariant.
LEMMA ReceiveStep ==
    ASSUME IInv, NEW c \in Calls, NEW answer \in Answers, Receive(c, answer)
    PROVE  IInv'
<1>0. InRange(c) /\ CallInv(c)
  BY AtCall
<1>1. /\ max_retries' = max_retries
      /\ pc[c] = "waiting" /\ <<c, attempt[c], answer>> \in replies
      /\ attempt'[c] = attempt[c]
      /\ IF answer \in Transient
          THEN /\ last_exc'[c] = answer
               /\ seen' = seen \cup {<<c, attempt[c], answer>>}
               /\ IF attempt[c] < max_retries \/ answer = "rate_limited"
                  THEN pc'[c] = "backoff" /\ result'[c] = result[c]
                  ELSE pc'[c] = "done" /\ result'[c] = answer
          ELSE /\ last_exc'[c] = last_exc[c]
               /\ seen' = seen \cup {<<c, attempt[c], answer>>}
               /\ pc'[c] = "done"
               /\ result'[c] = (IF answer = "ok" THEN "value" ELSE answer)
      /\ requests' = requests /\ executed' = executed
      /\ \A a, e : <<c, a, e>> \notin replies'
  BY DEF IInv, TypeOK, Receive, Retry, Ended, Return, Goto, Hangup, netVars, callerVars
<1>2. TypeOK'
  BY RetriesNat DEF IInv, TypeOK, Receive, Retry, Ended, Return, Goto, Hangup, netVars,
     Attempts, Locations, Answers, Transient, NoException, Results, Pending
<1>3. ASSUME NEW d \in Calls, d # c PROVE Same(d)
  BY <1>3 DEF IInv, TypeOK, Same, Receive, Retry, Ended, Return, Goto, Hangup, netVars
<1>4. SentInRange(c)' /\ ExecutedOnce(c)'
  BY <1>0, <1>1 DEF InRange, CallInv, SentInRange, ExecutedOnce
<1>5. RepliesAwaited(c)'
  BY <1>0, <1>1 DEF InRange, CallInv, RepliesAwaited, SentInRange, ExecutedOnce
<1>6. Progress(c)'
  BY <1>0, <1>1 DEF InRange, CallInv, Progress, Over, Unanswered, RepliesAwaited, SentInRange, Located, Transient, Answers
<1>7. Located(c)'
  <2>1. attempt[c] > 0
    BY <1>0, <1>1 DEF CallInv, Located
  <2>2. CASE answer \in Transient
    BY <2>1, <2>2, <1>0, <1>1 DEF InRange, CallInv, Located, Transient, Pending
  <2>3. CASE answer \notin Transient
    BY <2>1, <2>3, <1>0, <1>1 DEF InRange, CallInv, Located, Answers, Pending
  <2> QED
    BY <2>2, <2>3
<1>8. ResultsRight(c)'
  <2>1. attempt[c] > 0 /\ attempt[c] \in Attempts
    BY <1>0, <1>1, RetriesNat DEF InRange, CallInv, Located, Attempts
  <2>2. CASE answer \in Transient /\ (attempt[c] < max_retries \/ answer = "rate_limited")
    BY <2>2, <1>0, <1>1 DEF CallInv, Located, ResultsRight, Transient, Pending
  <2>3. CASE answer \in Transient /\ ~(attempt[c] < max_retries \/ answer = "rate_limited")
    <3>1. attempt[c] = max_retries /\ max_retries > 0
      BY <2>1, <2>3, <1>0 DEF InRange
    <3>2. result'[c] = answer /\ answer # "value" /\ <<c, attempt[c], answer>> \in seen'
      BY <2>3, <1>1 DEF Transient
    <3> QED
      BY <3>1, <3>2, <1>1 DEF ResultsRight
  <2>4. CASE answer \notin Transient
    <3>1. answer = "ok" => <<c, attempt[c]>> \in executed
      BY <2>1, <1>0, <1>1 DEF CallInv, RepliesAwaited
    <3>2. result'[c] = (IF answer = "ok" THEN "value" ELSE answer)
      BY <2>4, <1>1
    <3>3. result'[c] \notin Transient /\ (result'[c] = "value" => answer = "ok")
      BY <2>4, <3>2 DEF Transient, Answers
    <3> QED
      BY <2>1, <3>1, <3>3, <1>1 DEF ResultsRight
  <2> QED
    BY <2>2, <2>3, <2>4
<1> QED
  BY <1>1, <1>2, <1>3, <1>4, <1>5, <1>6, <1>7, <1>8, Frame DEF IInv, CallInv

\* ReadTimeout preserves the invariant.
LEMMA ReadTimeoutStep ==
    ASSUME IInv, NEW c \in Calls, ReadTimeout(c)
    PROVE  IInv'
<1>0. InRange(c) /\ CallInv(c)
  BY AtCall
<1>1. /\ max_retries' = max_retries
      /\ pc[c] = "waiting"
      /\ attempt'[c] = attempt[c]
      /\ last_exc'[c] = "timeout"
      /\ seen' = seen \cup {<<c, attempt[c], "timeout">>}
      /\ IF attempt[c] < max_retries
         THEN pc'[c] = "backoff" /\ result'[c] = result[c]
         ELSE pc'[c] = "done" /\ result'[c] = "timeout"
      /\ requests' = requests /\ executed' = executed
      /\ \A a, e : <<c, a, e>> \notin replies'
  BY DEF IInv, TypeOK, ReadTimeout, Retry, Ended, Return, Goto, Hangup, netVars, callerVars
<1>2. TypeOK'
  <2>1. attempt[c] \in 1..max_retries
    BY <1>0, <1>1 DEF InRange, CallInv, Located
  <2> QED
    BY <2>1, RetriesNat DEF IInv, TypeOK, ReadTimeout, Retry, Ended, Return, Goto, Hangup, netVars,
     Attempts, Locations, Answers, Transient, NoException, Results, Pending
<1>3. ASSUME NEW d \in Calls, d # c PROVE Same(d)
  BY <1>3 DEF IInv, TypeOK, Same, ReadTimeout, Retry, Ended, Return, Goto, Hangup, netVars
<1>4. SentInRange(c)' /\ ExecutedOnce(c)'
  BY <1>0, <1>1 DEF InRange, CallInv, SentInRange, ExecutedOnce
<1>5. RepliesAwaited(c)'
  BY <1>0, <1>1 DEF InRange, CallInv, RepliesAwaited, SentInRange, ExecutedOnce
<1>6. Progress(c)'
  BY <1>0, <1>1 DEF InRange, CallInv, Progress, Over, Unanswered, RepliesAwaited, SentInRange, Located, Transient, Answers
<1>7. Located(c)'
  BY <1>0, <1>1 DEF InRange, CallInv, Located, Transient, Results, Pending, NoException, Locations
<1>8. ResultsRight(c)'
  <2>1. CASE attempt[c] < max_retries
    BY <2>1, <1>0, <1>1 DEF InRange, CallInv, ResultsRight, Located, Transient
  <2>2. CASE ~(attempt[c] < max_retries)
    BY <2>2, <1>0, <1>1 DEF InRange, CallInv, ResultsRight, Located, Transient
  <2> QED
    BY <2>1, <2>2
<1> QED
  BY <1>1, <1>2, <1>3, <1>4, <1>5, <1>6, <1>7, <1>8, Frame DEF IInv, CallInv

\* TransportError preserves the invariant.
LEMMA TransportErrorStep ==
    ASSUME IInv, NEW c \in Calls, TransportError(c)
    PROVE  IInv'
<1>0. InRange(c) /\ CallInv(c)
  BY AtCall
<1>1. /\ max_retries' = max_retries
      /\ pc[c] = "waiting"
      /\ attempt'[c] = attempt[c] /\ last_exc'[c] = last_exc[c]
      /\ pc'[c] = "done" /\ result'[c] = "transport_error"
      /\ seen' = seen \cup {<<c, attempt[c], "transport_error">>}
      /\ requests' = requests /\ executed' = executed
      /\ \A a, e : <<c, a, e>> \notin replies'
  BY DEF IInv, TypeOK, TransportError, Ended, Return, Goto, Hangup, netVars, callerVars
<1>2. TypeOK'
  <2>1. attempt[c] \in 1..max_retries
    BY <1>0, <1>1 DEF InRange, CallInv, Located
  <2> QED
    BY <2>1, RetriesNat DEF IInv, TypeOK, TransportError, Ended, Return, Goto, Hangup, netVars,
     Attempts, Locations, Answers, Transient, NoException, Results, Pending
<1>3. ASSUME NEW d \in Calls, d # c PROVE Same(d)
  BY <1>3 DEF IInv, TypeOK, Same, TransportError, Ended, Return, Goto, Hangup, netVars
<1>4. SentInRange(c)' /\ ExecutedOnce(c)'
  BY <1>0, <1>1 DEF InRange, CallInv, SentInRange, ExecutedOnce
<1>5. RepliesAwaited(c)'
  BY <1>0, <1>1 DEF InRange, CallInv, RepliesAwaited, SentInRange, ExecutedOnce
<1>6. Progress(c)'
  BY <1>0, <1>1 DEF InRange, CallInv, Progress, Over, Unanswered, RepliesAwaited, SentInRange, Located, Transient, Answers
<1>7. Located(c)'
  BY <1>0, <1>1 DEF InRange, CallInv, Located, Transient, Results, Pending, NoException, Locations
<1>8. ResultsRight(c)'
  BY <1>0, <1>1 DEF InRange, CallInv, ResultsRight, Located, RepliesAwaited, Transient, Pending, Attempts, Answers
<1> QED
  BY <1>1, <1>2, <1>3, <1>4, <1>5, <1>6, <1>7, <1>8, Frame DEF IInv, CallInv

\* Wake preserves the invariant.
LEMMA WakeStep ==
    ASSUME IInv, NEW c \in Calls, Wake(c)
    PROVE  IInv'
<1>0. InRange(c) /\ CallInv(c)
  BY AtCall
<1>1. /\ max_retries' = max_retries
      /\ pc[c] = "backoff" /\ pc'[c] = "loop"
      /\ attempt'[c] = attempt[c] /\ last_exc'[c] = last_exc[c] /\ result'[c] = result[c]
      /\ requests' = requests /\ executed' = executed /\ replies' = replies /\ seen' = seen
  BY DEF IInv, TypeOK, Wake, Goto, netVars, callerVars
<1>2. TypeOK'
  BY RetriesNat DEF IInv, TypeOK, Wake, Goto, netVars,
     Attempts, Locations, Answers, Transient, NoException, Results, Pending
<1>3. ASSUME NEW d \in Calls, d # c PROVE Same(d)
  BY <1>3 DEF IInv, TypeOK, Same, Wake, Goto, netVars
<1>4. SentInRange(c)' /\ ExecutedOnce(c)'
  BY <1>0, <1>1 DEF InRange, CallInv, SentInRange, ExecutedOnce
<1>5. RepliesAwaited(c)'
  BY <1>0, <1>1 DEF InRange, CallInv, RepliesAwaited, SentInRange, ExecutedOnce
<1>6. Progress(c)'
  BY <1>0, <1>1 DEF InRange, CallInv, Progress, Over, Unanswered, RepliesAwaited, SentInRange, Located, Transient, Answers
<1>7. Located(c)'
  BY <1>0, <1>1 DEF InRange, CallInv, Located, Transient, Results, Pending, NoException, Locations
<1>8. ResultsRight(c)'
  BY <1>0, <1>1 DEF InRange, CallInv, ResultsRight, Located, RepliesAwaited, Transient, Pending, Attempts, Answers
<1> QED
  BY <1>1, <1>2, <1>3, <1>4, <1>5, <1>6, <1>7, <1>8, Frame DEF IInv, CallInv

\* CancelTask preserves the invariant.
LEMMA CancelTaskStep ==
    ASSUME IInv, NEW c \in Calls, CancelTask(c)
    PROVE  IInv'
<1>0. InRange(c) /\ CallInv(c)
  BY AtCall
<1>1. /\ max_retries' = max_retries
      /\ pc[c] \in {"waiting", "backoff"}
      /\ attempt'[c] = attempt[c] /\ last_exc'[c] = last_exc[c]
      /\ pc'[c] = "done" /\ result'[c] = "cancelled"
      /\ requests' = requests /\ executed' = executed /\ seen' = seen
      /\ \A a, e : <<c, a, e>> \notin replies'
  BY DEF IInv, TypeOK, CancelTask, Return, Goto, Hangup, netVars, callerVars
<1>2. TypeOK'
  BY RetriesNat DEF IInv, TypeOK, CancelTask, Return, Goto, Hangup, netVars,
     Attempts, Locations, Answers, Transient, NoException, Results, Pending
<1>3. ASSUME NEW d \in Calls, d # c PROVE Same(d)
  BY <1>3 DEF IInv, TypeOK, Same, CancelTask, Return, Goto, Hangup, netVars
<1>4. SentInRange(c)' /\ ExecutedOnce(c)'
  BY <1>0, <1>1 DEF InRange, CallInv, SentInRange, ExecutedOnce
<1>5. RepliesAwaited(c)'
  BY <1>0, <1>1 DEF InRange, CallInv, RepliesAwaited, SentInRange, ExecutedOnce
<1>6. Progress(c)'
  BY <1>0, <1>1 DEF InRange, CallInv, Progress, Over, Unanswered, RepliesAwaited, SentInRange, Located, Transient, Answers
<1>7. Located(c)'
  BY <1>0, <1>1 DEF InRange, CallInv, Located, Transient, Results, Pending, NoException, Locations
<1>8. ResultsRight(c)'
  BY <1>0, <1>1 DEF InRange, CallInv, ResultsRight, Located, RepliesAwaited, Transient, Pending, Attempts, Answers
<1> QED
  BY <1>1, <1>2, <1>3, <1>4, <1>5, <1>6, <1>7, <1>8, Frame DEF IInv, CallInv

\* Execute preserves the invariant.
LEMMA ExecuteStep ==
    ASSUME IInv, NEW c \in Calls, NEW a \in Attempts,
           NEW answer \in {"ok", "server_error", "garbled"}, Execute(c, a, answer)
    PROVE  IInv'
<1>0. InRange(c) /\ CallInv(c)
  BY AtCall
<1>1. /\ max_retries' = max_retries
      /\ <<c, a>> \in requests
      /\ pc'[c] = pc[c] /\ attempt'[c] = attempt[c] /\ last_exc'[c] = last_exc[c] /\ result'[c] = result[c]
      /\ seen' = seen
      /\ requests' = requests \ {<<c, a>>} /\ executed' = executed \cup {<<c, a>>}
      /\ replies' = IF pc[c] = "waiting" /\ attempt[c] = a
                 THEN replies \cup {<<c, a, answer>>} ELSE replies
  BY DEF IInv, TypeOK, Execute, Answer, callerVars, netVars, callerVars
<1>2. TypeOK'
  BY RetriesNat DEF IInv, TypeOK, Execute, Answer, callerVars, netVars,
     Attempts, Locations, Answers, Transient, NoException, Results, Pending
<1>3. ASSUME NEW d \in Calls, d # c PROVE Same(d)
  BY <1>3 DEF IInv, TypeOK, Same, Execute, Answer, callerVars, netVars
<1>4. SentInRange(c)' /\ ExecutedOnce(c)'
  BY <1>0, <1>1 DEF InRange, CallInv, SentInRange, ExecutedOnce
<1>5. RepliesAwaited(c)'
  BY <1>0, <1>1 DEF InRange, CallInv, RepliesAwaited, SentInRange, ExecutedOnce
<1>6. Progress(c)'
  BY <1>0, <1>1 DEF InRange, CallInv, Progress, Over, Unanswered, RepliesAwaited, SentInRange, Located, Transient, Answers
<1>7. Located(c)'
  BY <1>0, <1>1 DEF InRange, CallInv, Located, Transient, Results, Pending, NoException, Locations
<1>8. ResultsRight(c)'
  BY <1>0, <1>1 DEF InRange, CallInv, ResultsRight, Located, RepliesAwaited, Transient, Pending, Attempts, Answers
<1> QED
  BY <1>1, <1>2, <1>3, <1>4, <1>5, <1>6, <1>7, <1>8, Frame DEF IInv, CallInv

\* Refuse preserves the invariant.
LEMMA RefuseStep ==
    ASSUME IInv, NEW c \in Calls, NEW a \in Attempts, NEW answer \in Answers \ {"ok"}, Refuse(c, a, answer)
    PROVE  IInv'
<1>0. InRange(c) /\ CallInv(c)
  BY AtCall
<1>1. /\ max_retries' = max_retries
      /\ <<c, a>> \in requests
      /\ pc'[c] = pc[c] /\ attempt'[c] = attempt[c] /\ last_exc'[c] = last_exc[c] /\ result'[c] = result[c]
      /\ seen' = seen
      /\ requests' = requests \ {<<c, a>>} /\ executed' = executed
      /\ replies' = IF pc[c] = "waiting" /\ attempt[c] = a
                 THEN replies \cup {<<c, a, answer>>} ELSE replies
  BY DEF IInv, TypeOK, Refuse, Answer, callerVars, netVars, callerVars
<1>2. TypeOK'
  BY RetriesNat DEF IInv, TypeOK, Refuse, Answer, callerVars, netVars,
     Attempts, Locations, Answers, Transient, NoException, Results, Pending
<1>3. ASSUME NEW d \in Calls, d # c PROVE Same(d)
  BY <1>3 DEF IInv, TypeOK, Same, Refuse, Answer, callerVars, netVars
<1>4. SentInRange(c)' /\ ExecutedOnce(c)'
  BY <1>0, <1>1 DEF InRange, CallInv, SentInRange, ExecutedOnce
<1>5. RepliesAwaited(c)'
  BY <1>0, <1>1 DEF InRange, CallInv, RepliesAwaited, SentInRange, ExecutedOnce
<1>6. Progress(c)'
  BY <1>0, <1>1 DEF InRange, CallInv, Progress, Over, Unanswered, RepliesAwaited, SentInRange, Located, Transient, Answers
<1>7. Located(c)'
  BY <1>0, <1>1 DEF InRange, CallInv, Located, Transient, Results, Pending, NoException, Locations
<1>8. ResultsRight(c)'
  BY <1>0, <1>1 DEF InRange, CallInv, ResultsRight, Located, RepliesAwaited, Transient, Pending, Attempts, Answers
<1> QED
  BY <1>1, <1>2, <1>3, <1>4, <1>5, <1>6, <1>7, <1>8, Frame DEF IInv, CallInv

\* Close concerns no call.
LEMMA CloseStep == ASSUME IInv, Close PROVE IInv'
<1>1. TypeOK'
  BY DEF IInv, TypeOK, Close, callerVars, netVars
<1>2. ASSUME NEW d \in Calls PROVE CallInv(d)'
  BY Frame DEF IInv, Same, Close, callerVars, netVars
<1> QED
  BY <1>1, <1>2 DEF IInv

\* Every step preserves the invariant.
LEMMA NextIInv == IInv /\ [Next]_vars => IInv'
<1> SUFFICES ASSUME IInv, [Next]_vars PROVE IInv'
  OBVIOUS
<1>1. ASSUME NEW c \in Calls, Call(c) \/ Client(c) \/ CancelTask(c)
      PROVE  IInv'
  BY <1>1, CallStep, SendStep, SendOnClosedStep, ConnectErrorStep, RawTimeoutStep,
     ExhaustedStep, ReceiveStep, ReadTimeoutStep, TransportErrorStep, WakeStep,
     CancelTaskStep DEF Client
<1>2. CASE Close
  BY <1>2, CloseStep
<1>3. CASE Server
  BY <1>3, ExecuteStep, RefuseStep DEF Server
<1>4. CASE UNCHANGED vars
  <2>1. TypeOK'
    BY <1>4 DEF IInv, TypeOK, vars, callerVars, netVars
  <2>2. ASSUME NEW d \in Calls PROVE CallInv(d)'
    BY <1>4, Frame DEF IInv, Same, vars, callerVars, netVars
  <2> QED
    BY <2>1, <2>2 DEF IInv
<1> QED
  BY <1>1, <1>2, <1>3, <1>4 DEF Next

\* The inductive invariant holds in every reachable state.
LEMMA Inductive == Spec => []IInv
BY InitIInv, NextIInv, PTL DEF Spec

-------------------------------------------------------------------------------
\* Type correctness of the request loop, its network and its server.
THEOREM TypeCorrect == Spec => []TypeOK
<1>1. IInv => TypeOK
  BY DEF IInv
<1> QED
  BY <1>1, Inductive, PTL

\* A call returns a value only if the server performed the attempt answered.
THEOREM ValueExecuted == Spec => []ValueWasExecuted
<1>1. IInv => ValueWasExecuted
  BY DEF IInv, CallInv, ResultsRight, ValueWasExecuted
<1> QED
  BY <1>1, Inductive, PTL

\* A call raises a transient error only after all its attempts failed
\* transiently, and raises that of the last.
THEOREM TransientExhausted == Spec => []TransientOnlyWhenExhausted
<1>1. ASSUME IInv, NEW c \in Calls, result[c] \in Transient
      PROVE  /\ attempt[c] = max_retries
             /\ \A a \in 1..max_retries : \E e \in Transient : <<c, a, e>> \in seen
             /\ <<c, max_retries, result[c]>> \in seen
  <2>1. InRange(c) /\ CallInv(c)
    BY <1>1, AtCall
  <2>2. /\ attempt[c] = max_retries
        /\ <<c, max_retries, result[c]>> \in seen
    BY <1>1, <2>1 DEF CallInv, ResultsRight
  <2>3. ASSUME NEW a \in 1..max_retries
        PROVE  \E e \in Transient : <<c, a, e>> \in seen
    <3>1. CASE a = max_retries
      BY <1>1, <2>2, <3>1
    <3>2. CASE a < max_retries
      <4>1. a \in Attempts /\ Over(c, a)
        BY <2>1, <2>2, <3>2, RetriesNat DEF InRange, Over, Attempts
      <4> QED
        BY <2>1, <4>1 DEF CallInv, Progress
    <3> QED
      BY <3>1, <3>2, <2>1 DEF InRange
  <2> QED
    BY <2>2, <2>3
<1>2. IInv => TransientOnlyWhenExhausted
  BY <1>1 DEF TransientOnlyWhenExhausted
<1> QED
  BY <1>2, Inductive, PTL

\* An operation is performed a second time for one call only if the answer to
\* the earlier try was lost or was a 5xx.
THEOREM RepeatedUnanswered == Spec => []RepeatedOnlyIfUnanswered
<1>1. ASSUME IInv, NEW c \in Calls, NEW a \in Attempts, NEW b \in Attempts,
             a < b, <<c, a>> \in executed, <<c, b>> \in executed
      PROVE  Unanswered(c, a)
  <2>1. InRange(c) /\ CallInv(c)
    BY <1>1, AtCall
  <2>2. Over(c, a)
    BY <1>1, <2>1 DEF InRange, CallInv, SentInRange, Over
  <2> QED
    BY <1>1, <2>1, <2>2 DEF CallInv, Progress
<1>2. IInv => RepeatedOnlyIfUnanswered
  BY <1>1 DEF RepeatedOnlyIfUnanswered, Unanswered
<1> QED
  BY <1>2, Inductive, PTL

-------------------------------------------------------------------------------
(* The request loop implements RemoteCall. *)

\* The step of an open call changes no other call and performs nothing.
OpenStep(c) ==
    /\ pc[c] \in {"loop", "waiting", "backoff"} /\ pc'[c] # "idle"
    /\ \A d \in Calls \ {c} : pc'[d] = pc[d] /\ result'[d] = result[d]
    /\ executed' = executed /\ max_retries' = max_retries

\* Every step of the loop after the call began is such a step.
LEMMA ClientIsOpenStep ==
    ASSUME IInv, NEW c \in Calls, Client(c) \/ CancelTask(c)
    PROVE  OpenStep(c)
<1>1. CASE Send(c)
  BY <1>1 DEF IInv, TypeOK, OpenStep, Send, Advance, Goto
<1>2. CASE SendOnClosed(c)
  BY <1>2 DEF IInv, TypeOK, OpenStep, SendOnClosed, Advance, Return, Goto, netVars
<1>3. CASE ConnectError(c)
  BY <1>3 DEF IInv, TypeOK, OpenStep, ConnectError, Advance, Retry, Return, Goto, netVars
<1>4. CASE RawTimeout(c)
  BY <1>4 DEF IInv, TypeOK, OpenStep, RawTimeout, Advance, Return, Goto, netVars
<1>5. CASE Exhausted(c)
  BY <1>5 DEF IInv, TypeOK, OpenStep, Exhausted, Return, Goto, netVars
<1>6. ASSUME NEW answer \in Answers, Receive(c, answer) PROVE OpenStep(c)
  BY <1>6 DEF IInv, TypeOK, OpenStep, Receive, Retry, Return, Goto
<1>7. CASE ReadTimeout(c)
  BY <1>7 DEF IInv, TypeOK, OpenStep, ReadTimeout, Retry, Return, Goto
<1>8. CASE TransportError(c)
  BY <1>8 DEF IInv, TypeOK, OpenStep, TransportError, Return, Goto
<1>9. CASE Wake(c)
  BY <1>9 DEF IInv, TypeOK, OpenStep, Wake, Goto, netVars
<1>10. CASE CancelTask(c)
  BY <1>10 DEF IInv, TypeOK, OpenStep, CancelTask, Return, Goto
<1> QED
  BY <1>1, <1>2, <1>3, <1>4, <1>5, <1>6, <1>7, <1>8, <1>9, <1>10 DEF Client

\* A step that changes the status of call c alone updates the status function.
LEMMA StatusUpdate ==
    ASSUME NEW c \in Calls,
           \A d \in Calls \ {c} : pc'[d] = pc[d] /\ result'[d] = result[d]
    PROVE  Status' = [Status EXCEPT ![c] = StatusOf(c)']
BY DEF Status, StatusOf

\* An open step leaves the abstract call open or ends it.
LEMMA OpenStepRefines ==
    ASSUME IInv, IInv', NEW c \in Calls, OpenStep(c)
    PROVE  [Promise!Next]_Promise!vars
<1>1. Status[c] = "open"
  BY DEF OpenStep, Status, StatusOf
<1>2. Status' = [Status EXCEPT ![c] = StatusOf(c)']
  BY StatusUpdate DEF OpenStep
<1>3. executed' = executed /\ max_retries' = max_retries
  BY DEF OpenStep
<1>4. CASE pc'[c] # "done"
  <2>1. StatusOf(c)' = "open"
    BY <1>4 DEF OpenStep, StatusOf
  <2>2. Status' = Status
    BY <1>1, <1>2, <2>1 DEF Status
  <2> QED
    BY <1>3, <2>2 DEF Promise!vars
<1>5. CASE pc'[c] = "done" /\ result'[c] = "value"
  <2>1. StatusOf(c)' = "succeeded"
    BY <1>5 DEF StatusOf
  <2>2. attempt'[c] \in 1..max_retries /\ <<c, attempt'[c]>> \in executed
    <3>1. ResultsRight(c)' /\ TypeOK'
      BY DEF IInv, CallInv
    <3>2. attempt'[c] \in 0..max_retries' /\ max_retries' \in Nat
      BY <3>1, RetriesNat DEF TypeOK
    <3>3. attempt'[c] > 0 /\ <<c, attempt'[c]>> \in executed'
      BY <1>5, <3>1 DEF ResultsRight
    <3> QED
      BY <1>3, <3>2, <3>3
  <2>3. Promise!Succeed(c)
    BY <1>1, <1>2, <1>3, <2>1, <2>2 DEF Promise!Succeed
  <2> QED
    BY <2>3 DEF Promise!Next
<1>6. CASE pc'[c] = "done" /\ result'[c] # "value"
  <2>1. StatusOf(c)' = "failed"
    BY <1>6 DEF StatusOf
  <2>2. Promise!Fail(c)
    BY <1>1, <1>2, <1>3, <2>1 DEF Promise!Fail
  <2> QED
    BY <2>2 DEF Promise!Next
<1> QED
  BY <1>4, <1>5, <1>6

\* Every step of the request loop is a step of RemoteCall or leaves it alone.
LEMMA StepRefines == IInv /\ IInv' /\ [Next]_vars => [Promise!Next]_Promise!vars
<1> SUFFICES ASSUME IInv, IInv', [Next]_vars PROVE [Promise!Next]_Promise!vars
  OBVIOUS
<1>1. ASSUME NEW c \in Calls, Call(c) PROVE [Promise!Next]_Promise!vars
  <2>1. /\ pc[c] = "idle" /\ pc'[c] = "loop"
        /\ \A d \in Calls \ {c} : pc'[d] = pc[d] /\ result'[d] = result[d]
        /\ executed' = executed /\ max_retries' = max_retries
    BY <1>1 DEF IInv, TypeOK, Call, Goto, netVars
  <2>2. Status[c] = "idle" /\ StatusOf(c)' = "open"
    BY <2>1 DEF Status, StatusOf
  <2>3. Status' = [Status EXCEPT ![c] = "open"]
    BY <2>1, <2>2, StatusUpdate
  <2>4. Promise!Begin(c)
    BY <2>1, <2>2, <2>3 DEF Promise!Begin
  <2> QED
    BY <2>4 DEF Promise!Next
<1>2. ASSUME NEW c \in Calls, Client(c) \/ CancelTask(c)
      PROVE  [Promise!Next]_Promise!vars
  BY <1>2, ClientIsOpenStep, OpenStepRefines
<1>3. CASE Close
  BY <1>3 DEF Close, callerVars, netVars, Promise!vars, Status, StatusOf
<1>4. ASSUME NEW c \in Calls, NEW a \in Attempts, NEW answer \in Answers, Execute(c, a, answer)
      PROVE  [Promise!Next]_Promise!vars
  <2>1. /\ <<c, a>> \in requests /\ executed' = executed \cup {<<c, a>>}
        /\ pc' = pc /\ result' = result /\ max_retries' = max_retries
    BY <1>4 DEF Execute, Answer, callerVars
  <2>2. Status' = Status
    BY <2>1 DEF Status, StatusOf
  <2>3. a \in 1..max_retries /\ <<c, a>> \notin executed /\ pc[c] # "idle"
    BY <2>1 DEF IInv, TypeOK, CallInv, ExecutedOnce, SentInRange
  <2>4. Status[c] # "idle"
    BY <2>3 DEF Status, StatusOf
  <2>5. Promise!TakeEffect(c)
    BY <2>1, <2>2, <2>3, <2>4 DEF Promise!TakeEffect
  <2> QED
    BY <2>5 DEF Promise!Next
<1>5. ASSUME NEW c \in Calls, NEW a \in Attempts, NEW answer \in Answers, Refuse(c, a, answer)
      PROVE  [Promise!Next]_Promise!vars
  BY <1>5 DEF Refuse, Answer, callerVars, Promise!vars, Status, StatusOf
<1>6. CASE UNCHANGED vars
  BY <1>6 DEF vars, callerVars, netVars, Promise!vars, Status, StatusOf
<1>7. CASE Server
  BY <1>4, <1>5, <1>7 DEF Server, Answers
<1> QED
  BY <1>1, <1>2, <1>3, <1>6, <1>7 DEF Next

\* The request loop implements the call RemoteCall promises: a value only after
\* an effect, and never more effects than attempts, at any time.
THEOREM LoopImplementsRemoteCall == Spec => ImplementsRemoteCall
<1>1. Init => Promise!Init
  BY RetriesNat DEF Init, Promise!Init, Status, StatusOf
<1>2. IInv /\ IInv' /\ [Next]_vars => [Promise!Next]_Promise!vars
  BY StepRefines
<1> QED
  BY <1>1, <1>2, Inductive, PTL DEF Spec, ImplementsRemoteCall, Promise!Spec
===============================================================================
