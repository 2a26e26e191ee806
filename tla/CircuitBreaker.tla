--------------------------- MODULE CircuitBreaker ---------------------------
(***************************************************************************)
(* service/resilience.py: the circuit breaker that the calls of one        *)
(* endpoint share.  The lock is never held across an await that suspends,  *)
(* so each critical section is one step: the check before the call, the    *)
(* recording after it.  A caller calls again and again.                    *)
(***************************************************************************)
EXTENDS Integers, FiniteSets

CONSTANTS
  Caller,            \* the asyncio tasks that use the breaker
  FailureThreshold,  \* failure_threshold
  HalfOpenMaxCalls,  \* half_open_max_calls
  Kind,              \* the kinds of exceptions a call may raise
  Excluded,          \* excluded_exceptions
  Cancellable,       \* TRUE: a call may be cancelled by its caller
  MaxCount           \* bound: failure_count stays here when it gets here

ASSUME BreakerAssumption ==
  /\ FailureThreshold \in Nat \ {0}
  /\ HalfOpenMaxCalls \in Nat
  /\ Excluded \in SUBSET Kind
  /\ Cancellable \in BOOLEAN
  /\ MaxCount \in Nat
  /\ MaxCount >= FailureThreshold

VARIABLES
  state,            \* CircuitState
  failure_count,
  half_open_calls,  \* _half_open_calls
  elapsed,          \* recovery_time has passed since last_failure_time
  at,               \* is the caller out of execute(), or in a call?
  fresh,            \* history: calls in flight that were admitted in this state
  silent,           \* history: such calls of a half-open circuit that ended unnoticed
  streak            \* history: failures since the last success

breakerVars == <<state, failure_count, half_open_calls, elapsed>>
vars == <<breakerVars, at, fresh, silent, streak>>

\* Past the threshold the exact count decides nothing: it is only compared
\* with failure_threshold, and reset when the circuit closes.
Incremented(n) == IF n < MaxCount THEN n + 1 ELSE n

Init ==
  /\ state = "closed"
  /\ failure_count = 0
  /\ half_open_calls = 0
  /\ elapsed = TRUE  \* last_failure_time is 0
  /\ at = [c \in Caller |-> "out"]
  /\ fresh = {}
  /\ silent = 0
  /\ streak = 0

(***************************************************************************)
(* _check_state(): an open circuit becomes half-open once the recovery     *)
(* time is over, and a half-open one lets half_open_max_calls calls in.    *)
(***************************************************************************)
Checked == IF state = "open" /\ elapsed THEN "half_open" ELSE state

KeptProbes == half_open_calls  \* mutant: the count outlives the state
Probes == IF Checked # state THEN 0 ELSE half_open_calls

OneTooMany == Checked = "half_open" /\ Probes > HalfOpenMaxCalls  \* mutant: > for >=
AtCapacity == Checked = "half_open" /\ Probes >= HalfOpenMaxCalls

\* The two histories are about the present state of the circuit.
Kept(calls) == IF state' = state THEN calls ELSE {}
KeptCount == silent' = IF state' = state THEN silent ELSE 0

Reject ==
  /\ Checked = "open" \/ AtCapacity
  /\ state' = Checked
  /\ half_open_calls' = Probes
  /\ fresh' = Kept(fresh)
  /\ KeptCount
  /\ UNCHANGED <<failure_count, elapsed, at, streak>>

Admit(c) ==
  /\ Checked # "open" /\ ~AtCapacity
  /\ state' = Checked
  /\ half_open_calls' = IF Checked = "half_open" THEN Probes + 1 ELSE Probes
  /\ at' = [at EXCEPT ![c] = "in"]
  /\ fresh' = Kept(fresh) \union {c}
  /\ KeptCount
  /\ UNCHANGED <<failure_count, elapsed, streak>>

Call(c) == at[c] = "out" /\ (Reject \/ Admit(c))

(***************************************************************************)
(* The end of a call.  execute() looks at the state the circuit has now,   *)
(* not at the one the call was admitted in.                                *)
(***************************************************************************)
Leave(c) ==
  /\ at' = [at EXCEPT ![c] = "out"]
  /\ fresh' = Kept(fresh) \ {c}

CloseQuietly == state' = "closed" /\ UNCHANGED failure_count  \* mutant: no reset
CloseCircuit == state' = "closed" /\ failure_count' = 0

Succeed(c) ==
  /\ IF state = "half_open" THEN CloseCircuit ELSE UNCHANGED <<state, failure_count>>
  /\ streak' = 0
  /\ Leave(c) /\ KeptCount
  /\ UNCHANGED <<half_open_calls, elapsed>>

Trips(n) ==
  \/ state = "closed" /\ n >= FailureThreshold
  \/ state = "half_open"

Fail(c) ==
  /\ failure_count' = Incremented(failure_count)
  /\ elapsed' = FALSE
  /\ state' = IF Trips(failure_count') THEN "open" ELSE state
  /\ streak' = Incremented(streak)
  /\ Leave(c) /\ KeptCount
  /\ UNCHANGED half_open_calls

\* An excluded exception and a cancellation (which is no Exception) pass
\* through execute() without a trace.
PassThrough(c) ==
  /\ UNCHANGED <<breakerVars, streak>>
  /\ Leave(c)
  /\ silent' = IF state = "half_open" /\ c \in fresh THEN silent + 1 ELSE silent

Raise(c, k) == IF k \in Excluded THEN PassThrough(c) ELSE Fail(c)
Cancel(c) == Cancellable /\ PassThrough(c)

\* time.time() - last_failure_time reaches recovery_time.
Elapse ==
  /\ ~elapsed
  /\ elapsed' = TRUE
  /\ UNCHANGED <<state, failure_count, half_open_calls, at, fresh, silent, streak>>

End(c) ==
  /\ at[c] = "in"
  /\ \/ Succeed(c)
     \/ \E k \in Kind : Raise(c, k)
     \/ Cancel(c)

Next == Elapse \/ \E c \in Caller : Call(c) \/ End(c)

Spec == Init /\ [][Next]_vars

(***************************************************************************)
(* Time passes, a call ends, and the service goes on being called.         *)
(***************************************************************************)
Fairness ==
  /\ WF_vars(Elapse)
  /\ \A c \in Caller : WF_vars(Call(c)) /\ WF_vars(End(c))

FairSpec == Spec /\ Fairness

-----------------------------------------------------------------------------
TypeOK ==
  /\ state \in {"closed", "open", "half_open"}
  /\ failure_count \in 0..MaxCount
  /\ half_open_calls \in Nat
  /\ elapsed \in BOOLEAN
  /\ at \in [Caller -> {"out", "in"}]
  /\ fresh \in SUBSET Caller
  /\ silent \in Nat
  /\ streak \in 0..MaxCount

\* A closed circuit has not used up its failures: whatever late answers of
\* earlier calls did to the count meanwhile, closing the circuit forgets it.
ClosedIsHealthy == state = "closed" => failure_count < FailureThreshold

\* However often the circuit opened before, no more than half_open_max_calls
\* of the calls in flight were let in by the half-open circuit of now.
ProbesBounded == state = "half_open" => Cardinality(fresh) <= HalfOpenMaxCalls

\* A half-open circuit comes to a decision, as long as calls go on being made:
\* success closes it, failure reopens it.
HalfOpenResolves == state = "half_open" ~> state # "half_open"

\* The circuit opens after failure_threshold consecutive failures.
OpensOnStreak ==
  [][state = "closed" /\ state' = "open" => streak' >= FailureThreshold]_vars
=============================================================================
