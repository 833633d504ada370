---------------------------- MODULE ClientRequest -----------------------------
(***************************************************************************)
(* The request loop of the SDK, QontosClient._request in                   *)
(* src/qontos/client.py (AsyncQontosClient._request in async_client.py is  *)
(* the same loop with awaits), run by several threads or tasks that share  *)
(* one client, over a network that loses and delays, against a server      *)
(* that may act on a request whose caller has given up.                    *)
(*                                                                         *)
(* Abstracted: urls, bodies, headers, and the length of every sleep.  The  *)
(* server and httpx are external and modelled from how the loop uses them. *)
(***************************************************************************)
EXTENDS Integers, FiniteSets

CONSTANTS
    Calls,          \* calls of _request made on one client
    MaxRetries      \* bound: largest max_retries a client is configured with

ASSUME RetriesNat == MaxRetries \in Nat

VARIABLES
    max_retries,    \* QontosConfig.max_retries of the client
    closed,         \* close() was called
    pc,             \* where each call is in its loop
    attempt,        \* the loop variable
    last_exc,       \* the last transient error of the call
    result,         \* what the call returned or raised
    requests,       \* requests <<c, a>> the server has not looked at
    replies,        \* answers <<c, a, answer>> on their way to a waiting call
    executed,       \* requests whose operation the server performed
    seen            \* history: how each attempt <<c, a, ending>> ended for its caller

callerVars == <<pc, attempt, last_exc, result, seen>>
netVars == <<requests, replies, executed>>
vars == <<max_retries, closed, callerVars, netVars>>

-------------------------------------------------------------------------------
Attempts == 1..MaxRetries
Locations == {"idle", "loop", "waiting", "backoff", "done"}
\* 2xx, a status below 500 other than 429, 429, 5xx, and an answer whose body
\* or Retry-After header _raise_for_status or resp.json() cannot parse
Answers == {"ok", "rejected", "rate_limited", "server_error", "garbled"}
\* mutant: an unreadable answer is retried like a 5xx
TransientOrGarbled == {"rate_limited", "server_error", "timeout", "garbled"}
\* what the except clauses retry; ConnectError and ReadTimeout become TimeoutError
Transient == {"rate_limited", "server_error", "timeout"}
NoException == "none"
\* "unraisable": raise None when max_retries is 0; "raw_timeout": an httpx timeout
\* other than ReadTimeout; "transport_error": any other httpx error; "cancelled":
\* the task was cancelled at an await
Results == {"value", "rejected", "garbled", "transport_error", "closed_client",
            "raw_timeout", "cancelled", "unraisable"} \cup Transient
Pending == "pending"

Init == /\ max_retries \in 0..MaxRetries
        /\ closed = FALSE
        /\ pc = [c \in Calls |-> "idle"]
        /\ attempt = [c \in Calls |-> 0]
        /\ last_exc = [c \in Calls |-> NoException]
        /\ result = [c \in Calls |-> Pending]
        /\ requests = {} /\ replies = {} /\ executed = {} /\ seen = {}

Goto(c, label) == pc' = [pc EXCEPT ![c] = label]

Return(c, res) == /\ Goto(c, "done")
                  /\ result' = [result EXCEPT ![c] = res]

\* the replies of an attempt nobody waits for any more are discarded
Hangup(c) == replies' = {m \in replies : m[1] # c}

Ended(c, a, ending) == seen' = seen \cup {<<c, a, ending>>}

\* mutant: gives up one attempt early
RetryLess(c, a, exc) ==
    /\ last_exc' = [last_exc EXCEPT ![c] = exc]
    /\ Ended(c, a, exc)
    /\ IF a < max_retries - 1 \/ exc = "rate_limited"
       THEN Goto(c, "backoff") /\ UNCHANGED result
       ELSE Return(c, exc)

\* the except clauses: sleep, then the loop goes on; only a RateLimitError
\* sleeps after the last attempt too
Retry(c, a, exc) ==
    /\ last_exc' = [last_exc EXCEPT ![c] = exc]
    /\ Ended(c, a, exc)
    /\ IF a < max_retries \/ exc = "rate_limited"
       THEN Goto(c, "backoff") /\ UNCHANGED result
       ELSE Return(c, exc)

-------------------------------------------------------------------------------
Call(c) == /\ pc[c] = "idle"
           /\ Goto(c, "loop")
           /\ UNCHANGED <<max_retries, closed, attempt, last_exc, result, seen, netVars>>

\* mutants: one attempt too many; the same attempt for ever
AdvanceTooFar(c) == /\ pc[c] = "loop"
                    /\ attempt[c] <= max_retries
                    /\ attempt' = [attempt EXCEPT ![c] = @ + 1]

AdvanceNowhere(c) == /\ pc[c] = "loop"
                     /\ attempt[c] < max_retries
                     /\ UNCHANGED attempt

Advance(c) == /\ pc[c] = "loop"
              /\ attempt[c] < max_retries
              /\ attempt' = [attempt EXCEPT ![c] = @ + 1]

Send(c) == /\ Advance(c)
           /\ ~closed
           /\ requests' = requests \cup {<<c, attempt[c] + 1>>}
           /\ Goto(c, "waiting")
           /\ UNCHANGED <<max_retries, closed, last_exc, result, seen, replies, executed>>

\* httpx raises RuntimeError on a closed client, which _request does not catch
SendOnClosed(c) == /\ Advance(c)
                   /\ closed
                   /\ Return(c, "closed_client")
                   /\ UNCHANGED <<max_retries, closed, last_exc, seen, netVars>>

\* httpx.ConnectError: the request never left
ConnectError(c) == /\ Advance(c)
                   /\ ~closed
                   /\ Retry(c, attempt[c] + 1, "timeout")
                   /\ UNCHANGED <<max_retries, closed, netVars>>

\* httpx.ConnectTimeout or PoolTimeout: neither is a ConnectError, and neither
\* is caught
RawTimeout(c) == /\ Advance(c)
                 /\ ~closed
                 /\ Return(c, "raw_timeout")
                 /\ UNCHANGED <<max_retries, closed, last_exc, seen, netVars>>

\* raise last_exc after the loop
Exhausted(c) == /\ pc[c] = "loop"
                /\ attempt[c] = max_retries
                /\ Return(c, IF last_exc[c] = NoException THEN "unraisable" ELSE last_exc[c])
                /\ UNCHANGED <<max_retries, closed, attempt, last_exc, seen, netVars>>

\* mutant: an unreadable answer is returned as a value
ReceiveAnything(c, answer) ==
    /\ pc[c] = "waiting"
    /\ <<c, attempt[c], answer>> \in replies
    /\ \/ /\ answer \in Transient
          /\ Retry(c, attempt[c], answer)
       \/ /\ answer \notin Transient
          /\ Return(c, IF answer \in {"ok", "garbled"} THEN "value" ELSE answer)
          /\ Ended(c, attempt[c], answer)
          /\ UNCHANGED last_exc
    /\ Hangup(c)
    /\ UNCHANGED <<max_retries, closed, attempt, requests, executed>>

Receive(c, answer) ==
    /\ pc[c] = "waiting"
    /\ <<c, attempt[c], answer>> \in replies
    /\ \/ /\ answer \in Transient
          /\ Retry(c, attempt[c], answer)
       \/ /\ answer \notin Transient
          /\ Return(c, IF answer = "ok" THEN "value" ELSE answer)
          /\ Ended(c, attempt[c], answer)
          /\ UNCHANGED last_exc
    /\ Hangup(c)
    /\ UNCHANGED <<max_retries, closed, attempt, requests, executed>>

\* httpx.ReadTimeout: the server may still act on the request
ReadTimeout(c) == /\ pc[c] = "waiting"
                  /\ Retry(c, attempt[c], "timeout")
                  /\ Hangup(c)
                  /\ UNCHANGED <<max_retries, closed, attempt, requests, executed>>

\* any other httpx error (ReadError, RemoteProtocolError, the pool closed under it)
TransportError(c) == /\ pc[c] = "waiting"
                     /\ Return(c, "transport_error")
                     /\ Ended(c, attempt[c], "transport_error")
                     /\ Hangup(c)
                     /\ UNCHANGED <<max_retries, closed, attempt, last_exc, requests, executed>>

Wake(c) == /\ pc[c] = "backoff"
           /\ Goto(c, "loop")
           /\ UNCHANGED <<max_retries, closed, attempt, last_exc, result, seen, netVars>>

\* cancellation of an asyncio task is raised at either await
CancelTask(c) == /\ pc[c] \in {"waiting", "backoff"}
                 /\ Return(c, "cancelled")
                 /\ Hangup(c)
                 /\ UNCHANGED <<max_retries, closed, attempt, last_exc, seen, requests, executed>>

Close == /\ ~closed
         /\ closed' = TRUE
         /\ UNCHANGED <<max_retries, callerVars, netVars>>

-------------------------------------------------------------------------------
(* The server, external. *)
Answer(c, a, answer) ==
    /\ requests' = requests \ {<<c, a>>}
    /\ replies' = IF pc[c] = "waiting" /\ attempt[c] = a
                  THEN replies \cup {<<c, a, answer>>} ELSE replies
    /\ UNCHANGED <<max_retries, closed, callerVars>>

\* a 5xx or an unreadable answer may follow an operation that was performed
Execute(c, a, answer) == /\ <<c, a>> \in requests
                         /\ executed' = executed \cup {<<c, a>>}
                         /\ Answer(c, a, answer)

Refuse(c, a, answer) == /\ <<c, a>> \in requests
                        /\ Answer(c, a, answer)
                        /\ UNCHANGED executed

Server == \E c \in Calls, a \in Attempts :
             \/ \E answer \in {"ok", "server_error", "garbled"} : Execute(c, a, answer)
             \/ \E answer \in Answers \ {"ok"} : Refuse(c, a, answer)

Client(c) == \/ Send(c) \/ SendOnClosed(c) \/ ConnectError(c) \/ RawTimeout(c)
             \/ Exhausted(c)
             \/ (\E answer \in Answers : Receive(c, answer))
             \/ ReadTimeout(c) \/ TransportError(c) \/ Wake(c)

Next == \/ \E c \in Calls : Call(c) \/ Client(c) \/ CancelTask(c)
        \/ Close
        \/ Server

Spec == Init /\ [][Next]_vars

\* A call that can go on does: the thread or the event loop runs it, every sleep
\* ends, and httpx ends every wait with an answer or a timeout.  Nothing is
\* assumed of the server.
Fairness == \A c \in Calls : WF_vars(Client(c))
FairSpec == Spec /\ Fairness

-------------------------------------------------------------------------------
TypeOK ==
    /\ max_retries \in 0..MaxRetries
    /\ closed \in BOOLEAN
    /\ pc \in [Calls -> Locations]
    /\ attempt \in [Calls -> 0..max_retries]
    /\ last_exc \in [Calls -> Transient \cup {NoException}]
    /\ result \in [Calls -> Results \cup {Pending}]
    /\ requests \subseteq Calls \X (1..max_retries)
    /\ executed \subseteq Calls \X (1..max_retries)
    /\ replies \subseteq Calls \X (1..max_retries) \X Answers
    /\ seen \subseteq Calls \X (1..max_retries) \X (Answers \cup Transient \cup {"transport_error"})

\* A call returns a value only if the server performed the very attempt whose
\* answer it returns, however many earlier attempts were lost or are still under way.
ValueWasExecuted ==
    \A c \in Calls : result[c] = "value" => <<c, attempt[c]>> \in executed

\* The retries never give up early and never report the wrong error: when a
\* call ends in a transient error, every attempt allowed was made and failed
\* transiently, and the error is that of the last one.
TransientOnlyWhenExhausted ==
    \A c \in Calls : result[c] \in Transient =>
        /\ attempt[c] = max_retries
        /\ \A a \in 1..max_retries : \E e \in Transient : <<c, a, e>> \in seen
        /\ <<c, max_retries, result[c]>> \in seen

\* An operation is performed twice for one call (a job submitted twice, say)
\* only if the answer to the earlier try was lost or was a 5xx; never after a
\* refusal, a rate limit or a success.
RepeatedOnlyIfUnanswered ==
    \A c \in Calls, a, b \in Attempts :
        a < b /\ <<c, a>> \in executed /\ <<c, b>> \in executed =>
            <<c, a, "timeout">> \in seen \/ <<c, a, "server_error">> \in seen

\* Every call ends, whatever the server and the network do.
EveryCallReturns == \A c \in Calls : pc[c] = "loop" ~> pc[c] = "done"

\* The loop implements the call that RemoteCall promises.
StatusOf(c) == IF pc[c] = "idle" THEN "idle"
               ELSE IF pc[c] # "done" THEN "open"
               ELSE IF result[c] = "value" THEN "succeeded" ELSE "failed"
Status == [c \in Calls |-> StatusOf(c)]
Promise == INSTANCE RemoteCall WITH status <- Status, effects <- executed, budget <- max_retries
ImplementsRemoteCall == Promise!Spec
===============================================================================
