------------------------------ MODULE Endpoint ------------------------------
(***************************************************************************)
(* service/connections/endpoint.py: Endpoint.call() with a circuit breaker *)
(* and a retry configuration.  The breaker is outermost, retry_with_backoff *)
(* runs inside it, and _call_aiohttp retries once more inside that.  A     *)
(* call that was admitted goes on trying while the circuit opens, closes   *)
(* and is probed by others.                                                *)
(***************************************************************************)
EXTENDS CircuitBreaker

CONSTANTS
  MaxTries,      \* config.max_retries: the tries of _call_aiohttp, 0 for no end
  BackedOff,     \* the kinds its backoff handler does not give up on
  MaxRetries,    \* max_retries of the RetryConfig
  Retried,       \* retry_exceptions
  NotRetried,    \* exclude_exceptions
  MaxTried       \* bound: tries stays here when it gets here

ASSUME EndpointAssumption ==
  /\ MaxTries \in Nat
  /\ MaxTried \in Nat
  /\ MaxTried > MaxTries
  /\ MaxRetries \in Nat
  /\ BackedOff \in SUBSET Kind
  /\ Retried \in SUBSET Kind
  /\ NotRetried \in SUBSET Kind

VARIABLES
  stage,    \* where a call is: "none", "sending", "backoff" or "sleeping"
  tries,    \* the tries of this _call_aiohttp
  retries,  \* the retries of this retry_with_backoff
  sent,     \* history: the requests this call has sent, up to MaxRequests + 1
  recovered \* the service behind the endpoint is well, and no request raises any more

MaxRequests == (MaxRetries + 1) * MaxTries

callVars == <<stage, tries, retries, sent>>
allVars == <<vars, callVars, recovered>>

EInit ==
  /\ Init
  /\ stage = [c \in Caller |-> "none"]
  /\ tries = [c \in Caller |-> 0]
  /\ retries = [c \in Caller |-> 0]
  /\ sent = [c \in Caller |-> 0]
  /\ recovered = FALSE

Stage(c, s, t, r, n) ==
  /\ stage' = [stage EXCEPT ![c] = s]
  /\ tries' = [tries EXCEPT ![c] = t]
  /\ retries' = [retries EXCEPT ![c] = r]
  /\ sent' = [sent EXCEPT ![c] = n]

SentAgain(c) == IF sent[c] <= MaxRequests THEN sent[c] + 1 ELSE sent[c]

Done(c) == Stage(c, "none", 0, 0, 0)

\* execute() checks the circuit; an admitted call sends its first request.
Request(c) ==
  /\ at[c] = "out"
  /\ \/ Reject /\ UNCHANGED callVars
     \/ Admit(c) /\ Stage(c, "sending", 1, 0, 1)
  /\ UNCHANGED recovered

\* backoff gives up when tries == max_tries, which 0 never is.
TriesAgain(c, k) == k \in BackedOff /\ tries[c] # MaxTries
Tried(c) == IF tries[c] < MaxTried THEN tries[c] + 1 ELSE tries[c]

RetriesOnce(c, k) ==  \* mutant: <= for <
  k \in Retried \ NotRetried /\ retries[c] <= MaxRetries
RetriesAgain(c, k) == k \in Retried \ NotRetried /\ retries[c] < MaxRetries

RetriedOnce(c) == retries[c] + 1

\* A request raised k: the inner handler backs off, or the outer one starts the
\* tries anew after a sleep, or the exception reaches the circuit breaker.
Problem(c, k) ==
  IF TriesAgain(c, k)
    THEN Stage(c, "backoff", tries[c], retries[c], sent[c]) /\ UNCHANGED vars
  ELSE IF RetriesAgain(c, k)
    THEN Stage(c, "sleeping", 0, RetriedOnce(c), sent[c]) /\ UNCHANGED vars
  ELSE Raise(c, k) /\ Done(c)

Resend(c) ==
  /\ stage[c] \in {"backoff", "sleeping"}
  /\ Stage(c, "sending", Tried(c), retries[c], SentAgain(c))
  /\ UNCHANGED <<vars, recovered>>

Response(c) ==
  /\ stage[c] = "sending"
  /\ \/ Succeed(c) /\ Done(c)
     \/ ~recovered /\ \E k \in Kind : Problem(c, k)
  /\ UNCHANGED recovered

Abandon(c) == at[c] = "in" /\ Cancel(c) /\ Done(c) /\ UNCHANGED recovered

\* The service recovers, or never does.
Recover == recovered' = TRUE /\ UNCHANGED <<vars, callVars>>

ENext ==
  \/ Elapse /\ UNCHANGED <<callVars, recovered>>
  \/ Recover
  \/ \E c \in Caller : Request(c) \/ Resend(c) \/ Response(c) \/ Abandon(c)

ESpec == EInit /\ [][ENext]_allVars

(***************************************************************************)
(* Time passes, sleeps end, a request ends (at the latest by its timeout), *)
(* and the endpoint goes on being called.                                  *)
(***************************************************************************)
EFairness ==
  /\ WF_allVars(Elapse /\ UNCHANGED <<callVars, recovered>>)
  /\ \A c \in Caller : WF_allVars(Request(c)) /\ WF_allVars(Resend(c) \/ Response(c))

EFairSpec == ESpec /\ EFairness

-----------------------------------------------------------------------------
ETypeOK ==
  /\ TypeOK
  /\ stage \in [Caller -> {"none", "sending", "backoff", "sleeping"}]
  /\ tries \in [Caller -> 0..MaxTried]
  /\ retries \in [Caller -> 0..MaxRetries]
  /\ sent \in [Caller -> 0..MaxRequests + 1]
  /\ recovered \in BOOLEAN

\* The two retry loops multiply, and do no worse: a call sends at most
\* max_tries requests for each of its max_retries + 1 rounds, unless max_tries
\* is 0, with which a round only ends by an answer.
RequestsBounded == MaxTries > 0 => \A c \in Caller : sent[c] <= MaxRequests

\* A service that has recovered is found out, also by calls that retry: if no
\* request raises any more, the circuit ends up closed for good, unless every
\* probe of a half-open circuit was cancelled or raised excluded exceptions.
EndpointRecovers ==
  <>recovered => <>[](state = "closed") \/ <>[](silent = HalfOpenMaxCalls)
=============================================================================
