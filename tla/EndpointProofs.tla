--------------------------- MODULE EndpointProofs ---------------------------
(***************************************************************************)
(* Proofs about CircuitBreaker, for every number of callers, threshold and *)
(* limit of probes, and about Endpoint: to the circuit breaker its calls   *)
(* look like any calls, and the two retry loops inside it send a bounded   *)
(* number of requests if max_tries is not 0.                               *)
(***************************************************************************)
EXTENDS Endpoint, FiniteSetTheorems, TLAPS

-----------------------------------------------------------------------------
(* The circuit breaker alone.                                              *)

\* Every slot of the half-open circuit is held by a call in flight, or was lost
\* by one that ended without a trace.
SlotsAccounted ==
  state = "half_open" =>
    /\ half_open_calls = Cardinality(fresh) + silent
    /\ half_open_calls <= HalfOpenMaxCalls

FreshInFlight == IsFiniteSet(fresh) /\ \A c \in fresh : at[c] = "in"

\* The inductive invariant: what ProbesBounded needs is that the slots handed
\* out in this half-open period are accounted for.
IInv == TypeOK /\ ClosedIsHealthy /\ FreshInFlight /\ SlotsAccounted

\* What the circuit checks for a call, as one of three cases.
LEMMA CheckedCases ==
  ASSUME TypeOK
  PROVE  \/ Checked = state /\ Probes = half_open_calls
         \/ state = "open" /\ Checked = "half_open" /\ Probes = 0
BY DEF TypeOK, Checked, Probes

LEMMA IncrementedType ==
  ASSUME NEW n \in 0..MaxCount
  PROVE  Incremented(n) \in 0..MaxCount
BY BreakerAssumption DEF Incremented

LEMMA InitIInv == Init => IInv
<1> SUFFICES ASSUME Init PROVE IInv
  OBVIOUS
<1>1. TypeOK
  BY BreakerAssumption DEF Init, TypeOK
<1>2. ClosedIsHealthy /\ SlotsAccounted
  BY BreakerAssumption DEF Init, ClosedIsHealthy, SlotsAccounted
<1>3. FreshInFlight
  BY FS_EmptySet DEF Init, FreshInFlight
<1> QED
  BY <1>1, <1>2, <1>3 DEF IInv

LEMMA RejectStep == IInv /\ Reject => IInv'
<1> SUFFICES ASSUME IInv, Reject PROVE IInv'
  OBVIOUS
<1> USE DEF IInv
<1>1. TypeOK'
  BY CheckedCases DEF TypeOK, Reject, Kept, KeptCount
<1>2. ClosedIsHealthy'
  BY CheckedCases DEF TypeOK, Reject, ClosedIsHealthy
<1>3. FreshInFlight'
  BY FS_EmptySet DEF FreshInFlight, Reject, Kept
<1>4. SlotsAccounted'
  BY CheckedCases, FS_EmptySet, BreakerAssumption
  DEF TypeOK, SlotsAccounted, Reject, Kept, KeptCount
<1> QED
  BY <1>1, <1>2, <1>3, <1>4

LEMMA AdmitStep ==
  ASSUME IInv, NEW c \in Caller, at[c] = "out", Admit(c)
  PROVE  IInv'
<1> USE DEF IInv
<1>1. TypeOK'
  BY CheckedCases DEF TypeOK, Admit, Kept, KeptCount
<1>2. ClosedIsHealthy'
  BY CheckedCases DEF TypeOK, Admit, ClosedIsHealthy
<1>3. IsFiniteSet(Kept(fresh)) /\ c \notin Kept(fresh)
  BY FS_EmptySet DEF FreshInFlight, Kept
<1>4. IsFiniteSet(fresh') /\ Cardinality(fresh') = Cardinality(Kept(fresh)) + 1
  BY <1>3, FS_AddElement DEF Admit
<1>5. FreshInFlight'
  BY <1>4 DEF FreshInFlight, Admit, Kept, TypeOK
<1>6. SlotsAccounted'
  BY <1>3, <1>4, CheckedCases, FS_EmptySet, FS_CardinalityType, BreakerAssumption
  DEF TypeOK, SlotsAccounted, Admit, Kept, KeptCount, AtCapacity
<1> QED
  BY <1>1, <1>2, <1>5, <1>6

\* A call that ends: the histories are about the circuit's state after it.
LEMMA LeaveFresh ==
  ASSUME IInv, NEW c \in Caller, at[c] = "in", Leave(c)
  PROVE  /\ at' \in [Caller -> {"out", "in"}]
         /\ fresh' \in SUBSET Caller
         /\ FreshInFlight'
<1>1. IsFiniteSet(Kept(fresh) \ {c})
  BY FS_EmptySet, FS_Difference DEF IInv, FreshInFlight, Kept
<1> QED
  BY <1>1 DEF IInv, TypeOK, FreshInFlight, Leave, Kept

LEMMA SucceedStep ==
  ASSUME IInv, NEW c \in Caller, at[c] = "in", Succeed(c)
  PROVE  IInv'
<1>0. Leave(c) /\ KeptCount
  BY DEF Succeed
<1>1. TypeOK'
  BY <1>0, LeaveFresh, BreakerAssumption
  DEF IInv, TypeOK, Succeed, CloseCircuit, KeptCount
<1>2. ClosedIsHealthy'
  BY BreakerAssumption DEF IInv, TypeOK, ClosedIsHealthy, Succeed, CloseCircuit
<1>3. SlotsAccounted'
  BY DEF IInv, TypeOK, SlotsAccounted, Succeed, CloseCircuit
<1> QED
  BY <1>0, <1>1, <1>2, <1>3, LeaveFresh DEF IInv

LEMMA FailStep ==
  ASSUME IInv, NEW c \in Caller, at[c] = "in", Fail(c)
  PROVE  IInv'
<1>1. Leave(c) /\ KeptCount
  BY DEF Fail
<1>2. failure_count' \in 0..MaxCount /\ streak' \in 0..MaxCount
  BY IncrementedType DEF IInv, TypeOK, Fail
<1>3. at' \in [Caller -> {"out", "in"}] /\ fresh' \in SUBSET Caller
  BY <1>1, LeaveFresh
<1>4. state' \in {"closed", "open", "half_open"} /\ silent' \in Nat
  BY <1>1 DEF IInv, TypeOK, Fail, KeptCount
<1>5. TypeOK'
  BY <1>2, <1>3, <1>4 DEF IInv, TypeOK, Fail
<1>6. ClosedIsHealthy'
  BY <1>5, BreakerAssumption DEF IInv, TypeOK, ClosedIsHealthy, Fail, Trips
<1>7. SlotsAccounted'
  BY DEF IInv, TypeOK, SlotsAccounted, Fail, Trips
<1> QED
  BY <1>1, <1>5, <1>6, <1>7, LeaveFresh DEF IInv

LEMMA PassThroughStep ==
  ASSUME IInv, NEW c \in Caller, at[c] = "in", PassThrough(c)
  PROVE  IInv'
<1>0. Leave(c) /\ state' = state /\ fresh' = fresh \ {c}
  BY DEF PassThrough, breakerVars, Leave, Kept
<1>1. TypeOK'
  BY <1>0, LeaveFresh DEF IInv, TypeOK, PassThrough, breakerVars
<1>2. ClosedIsHealthy'
  BY DEF IInv, ClosedIsHealthy, PassThrough, breakerVars
<1>3. Cardinality(fresh') = IF c \in fresh THEN Cardinality(fresh) - 1 ELSE Cardinality(fresh)
  BY <1>0, FS_RemoveElement DEF IInv, FreshInFlight
<1>4. SlotsAccounted'
  BY <1>0, <1>3, FS_CardinalityType
  DEF IInv, TypeOK, FreshInFlight, SlotsAccounted, PassThrough, breakerVars
<1> QED
  BY <1>0, <1>1, <1>2, <1>4, LeaveFresh DEF IInv

LEMMA NextIInv == IInv /\ [Next]_vars => IInv'
<1> SUFFICES ASSUME IInv, [Next]_vars PROVE IInv'
  OBVIOUS
<1>1. CASE Elapse
  BY <1>1 DEF Elapse, IInv, TypeOK, ClosedIsHealthy, FreshInFlight, SlotsAccounted
<1>2. ASSUME NEW c \in Caller, Call(c) PROVE IInv'
  BY <1>2, RejectStep, AdmitStep DEF Call
<1>3. ASSUME NEW c \in Caller, End(c) PROVE IInv'
  <2>1. CASE Succeed(c)
    BY <1>3, <2>1, SucceedStep DEF End
  <2>2. ASSUME NEW k \in Kind, Raise(c, k) PROVE IInv'
    BY <1>3, <2>2, FailStep, PassThroughStep DEF End, Raise
  <2>3. CASE Cancel(c)
    BY <1>3, <2>3, PassThroughStep DEF End, Cancel
  <2> QED
    BY <1>3, <2>1, <2>2, <2>3 DEF End
<1>4. CASE UNCHANGED vars
  BY <1>4 DEF vars, breakerVars, IInv, TypeOK, ClosedIsHealthy, FreshInFlight,
    SlotsAccounted
<1> QED
  BY <1>1, <1>2, <1>3, <1>4 DEF Next

LEMMA Invariance == Spec => []IInv
BY InitIInv, NextIInv, PTL DEF Spec

\* The variables of the breaker keep their types.
THEOREM TypeCorrect == Spec => []TypeOK
<1>1. IInv => TypeOK
  BY DEF IInv
<1> QED
  BY <1>1, Invariance, PTL

\* A closed circuit never carries failure_threshold failures: whichever calls,
\* admitted in whichever state, end while it is closed, it opens in time, and
\* closing it forgets what late answers added to the count.
THEOREM ClosedStaysHealthy == Spec => []ClosedIsHealthy
<1>1. IInv => ClosedIsHealthy
  BY DEF IInv
<1> QED
  BY <1>1, Invariance, PTL

\* Of the calls in flight, no more than half_open_max_calls were let in by the
\* half-open circuit of now, however often it opened and half-opened before.
THEOREM ProbesStayBounded == Spec => []ProbesBounded
<1>1. IInv => ProbesBounded
  BY FS_CardinalityType, BreakerAssumption
  DEF IInv, TypeOK, FreshInFlight, SlotsAccounted, ProbesBounded
<1> QED
  BY <1>1, Invariance, PTL

-----------------------------------------------------------------------------
(* The endpoint implements it.                                             *)

\* A call has a stage exactly while the breaker counts it as in flight.
StageOf(c) ==
  /\ stage[c] \in {"none", "sending", "backoff", "sleeping"}
  /\ at[c] \in {"out", "in"}
  /\ (stage[c] = "none") = (at[c] = "out")

StagesMatch == \A c \in Caller : StageOf(c)

Functions == DOMAIN at = Caller /\ DOMAIN stage = Caller

LEMMA StageSet ==
  ASSUME NEW c \in Caller, NEW s, NEW t, NEW r, NEW n, Stage(c, s, t, r, n),
         DOMAIN stage = Caller
  PROVE  /\ DOMAIN stage' = Caller /\ stage'[c] = s
         /\ \A d \in Caller \ {c} : stage'[d] = stage[d]
BY DEF Stage

LEMMA EInitStages == EInit => Functions /\ StagesMatch
BY DEF EInit, Init, Functions, StagesMatch, StageOf

\* Every step of the endpoint is a step of the breaker or leaves it alone, and
\* keeps the stages in line with it.
LEMMA EndpointStep ==
  ASSUME Functions, StagesMatch, [ENext]_allVars
  PROVE  [Next]_vars /\ Functions' /\ StagesMatch'
<1> USE DEF Functions, StagesMatch, StageOf
<1>1. CASE Elapse /\ UNCHANGED callVars
  BY <1>1 DEF Elapse, callVars, Next
<1>8. CASE Recover
  BY <1>8 DEF Recover, vars, callVars
<1>2. ASSUME NEW c \in Caller, Request(c)
      PROVE  [Next]_vars /\ Functions' /\ StagesMatch'
  <2>1. CASE Reject /\ UNCHANGED callVars
    BY <1>2, <2>1 DEF Request, Reject, callVars, Next, Call
  <2>2. CASE Admit(c) /\ Stage(c, "sending", 1, 0, 1)
    <3>1. at' = [at EXCEPT ![c] = "in"]
      BY <2>2 DEF Admit
    <3>2. Functions' /\ StagesMatch'
      BY <2>2, <3>1, StageSet
    <3> QED
      BY <1>2, <2>2, <3>2 DEF Request, Next, Call
  <2> QED
    BY <1>2, <2>1, <2>2 DEF Request
<1>3. ASSUME NEW c \in Caller, Resend(c)
      PROVE  [Next]_vars /\ Functions' /\ StagesMatch'
  <2>1. at' = at /\ UNCHANGED vars
    BY <1>3 DEF Resend, vars
  <2>2. Functions' /\ StagesMatch'
    BY <1>3, <2>1, StageSet DEF Resend
  <2> QED
    BY <2>1, <2>2
<1>4. ASSUME NEW c \in Caller, Done(c), at' = [at EXCEPT ![c] = "out"]
      PROVE  Functions' /\ StagesMatch'
  BY <1>4, StageSet DEF Done
<1>5. ASSUME NEW c \in Caller, Response(c)
      PROVE  [Next]_vars /\ Functions' /\ StagesMatch'
  <2>1. stage[c] = "sending" /\ at[c] = "in"
    BY <1>5 DEF Response
  <2>2. CASE Succeed(c) /\ Done(c)
    BY <2>1, <2>2, <1>4 DEF Succeed, Leave, End, Next
  <2>3. ASSUME NEW k \in Kind, Problem(c, k)
        PROVE  [Next]_vars /\ Functions' /\ StagesMatch'
    <3>1. CASE /\ UNCHANGED vars
               /\ \E s \in {"backoff", "sleeping"} : \E t, r, n : Stage(c, s, t, r, n)
      <4>1. at' = at
        BY <3>1 DEF vars
      <4>2. PICK s \in {"backoff", "sleeping"} : \E t, r, n : Stage(c, s, t, r, n)
        BY <3>1
      <4> QED
        BY <2>1, <3>1, <4>1, <4>2, StageSet
    <3>2. CASE Raise(c, k) /\ Done(c)
      <4>1. at' = [at EXCEPT ![c] = "out"]
        BY <3>2 DEF Raise, Fail, PassThrough, Leave
      <4> QED
        BY <2>1, <3>2, <4>1, <1>4 DEF End, Next
    <3> QED
      BY <2>3, <3>1, <3>2 DEF Problem
  <2> QED
    BY <1>5, <2>2, <2>3 DEF Response
<1>6. ASSUME NEW c \in Caller, Abandon(c)
      PROVE  [Next]_vars /\ Functions' /\ StagesMatch'
  BY <1>6, <1>4 DEF Abandon, Cancel, PassThrough, Leave, End, Next
<1>7. CASE UNCHANGED allVars
  BY <1>7 DEF allVars, vars, callVars
<1> QED
  BY <1>1, <1>2, <1>3, <1>5, <1>6, <1>7, <1>8 DEF ENext

\* Endpoint.call() implements the protocol of the circuit breaker: nothing that
\* the retry loops do in between is visible to it.
THEOREM EndpointImplementsBreaker == ESpec => Spec
<1>1. EInit => Init /\ Functions /\ StagesMatch
  BY EInitStages DEF EInit
<1>2. (Functions /\ StagesMatch) /\ [ENext]_allVars
        => [Next]_vars /\ (Functions /\ StagesMatch)'
  BY EndpointStep
<1> QED
  BY <1>1, <1>2, PTL DEF ESpec, Spec

\* So the breaker's own guarantees hold under retries too.
THEOREM EndpointKeepsBreakerSafe == ESpec => [](ClosedIsHealthy /\ ProbesBounded)
BY EndpointImplementsBreaker, ClosedStaysHealthy, ProbesStayBounded, PTL

-----------------------------------------------------------------------------
(* The requests of a call.                                                 *)

Counts ==
  /\ stage \in [Caller -> {"none", "sending", "backoff", "sleeping"}]
  /\ tries \in [Caller -> 0..MaxTried]
  /\ retries \in [Caller -> 0..MaxRetries]
  /\ sent \in [Caller -> 0..MaxRequests + 1]
  /\ recovered \in BOOLEAN

\* A call in its r-th retry that has tried t times has sent at most MaxTries
\* requests in each earlier round, and one for each try of this one; only a try
\* that is not the last of its round is followed by a backoff.
Within(s, t, r, n) ==
  MaxTries > 0 =>
    /\ t <= MaxTries
    /\ n <= r * MaxTries + t
    /\ s \in {"backoff", "sleeping"} => t < MaxTries

RInv == Counts /\ \A c \in Caller : Within(stage[c], tries[c], retries[c], sent[c])

LEMMA NextRound ==
  ASSUME NEW r \in Nat, NEW m \in Nat
  PROVE  (r + 1) * m = r * m + m
OBVIOUS

LEMMA FewerRounds ==
  ASSUME NEW q \in Nat, NEW r \in 0..q, NEW m \in Nat
  PROVE  r * m <= q * m /\ r * m \in Nat /\ q * m \in Nat
OBVIOUS

LEMMA MaxRequestsNat == MaxRequests \in Nat /\ MaxRequests = MaxRetries * MaxTries + MaxTries
BY EndpointAssumption, NextRound, FewerRounds DEF MaxRequests

LEMMA StageKeeps ==
  ASSUME RInv, NEW c \in Caller,
         NEW s \in {"none", "sending", "backoff", "sleeping"},
         NEW t \in 0..MaxTried, NEW r \in 0..MaxRetries, NEW n \in 0..MaxRequests + 1,
         Within(s, t, r, n), Stage(c, s, t, r, n), recovered' \in BOOLEAN
  PROVE  RInv'
BY DEF RInv, Counts, Stage

LEMMA DoneKeeps ==
  ASSUME RInv, NEW c \in Caller, Done(c), recovered' \in BOOLEAN
  PROVE  RInv'
<1>1. Within("none", 0, 0, 0)
  BY EndpointAssumption DEF Within
<1> QED
  BY <1>1, StageKeeps, EndpointAssumption, MaxRequestsNat DEF Done

LEMMA RequestStep ==
  ASSUME RInv, [ENext]_allVars
  PROVE  RInv'
<1> USE EndpointAssumption, MaxRequestsNat
<1>0. recovered' \in BOOLEAN
  BY DEF RInv, Counts, ENext, Request, Resend, Response, Abandon, Recover, allVars
<1>1. CASE UNCHANGED callVars
  BY <1>0, <1>1 DEF callVars, RInv, Counts
<1>2. ASSUME NEW c \in Caller, Stage(c, "sending", 1, 0, 1)
      PROVE  RInv'
  <2>1. Within("sending", 1, 0, 1)
    BY DEF Within
  <2> QED
    BY <1>0, <1>2, <2>1, StageKeeps
<1>3. ASSUME NEW c \in Caller, Resend(c)
      PROVE  RInv'
  <2>1. /\ tries[c] \in 0..MaxTried /\ retries[c] \in 0..MaxRetries
        /\ sent[c] \in 0..MaxRequests + 1 /\ Within(stage[c], tries[c], retries[c], sent[c])
        /\ stage[c] \in {"backoff", "sleeping"}
    BY <1>3 DEF RInv, Counts, Resend
  <2>2. Tried(c) \in 0..MaxTried /\ (tries[c] < MaxTries => Tried(c) = tries[c] + 1)
    BY <2>1 DEF Tried
  <2>3. SentAgain(c) \in 0..MaxRequests + 1 /\ SentAgain(c) <= sent[c] + 1
    BY <2>1 DEF SentAgain
  <2>4. retries[c] * MaxTries \in Nat
    BY <2>1, FewerRounds
  <2>5. Within("sending", Tried(c), retries[c], SentAgain(c))
    BY <2>1, <2>2, <2>3, <2>4 DEF Within
  <2> QED
    BY <1>0, <1>3, <2>1, <2>2, <2>3, <2>5, StageKeeps DEF Resend
<1>4. ASSUME NEW c \in Caller, NEW k \in Kind, stage[c] = "sending", Problem(c, k)
      PROVE  RInv'
  <2>1. /\ tries[c] \in 0..MaxTried /\ retries[c] \in 0..MaxRetries
        /\ sent[c] \in 0..MaxRequests + 1 /\ Within("sending", tries[c], retries[c], sent[c])
    BY <1>4 DEF RInv, Counts
  <2>2. CASE TriesAgain(c, k)
    <3>1. Within("backoff", tries[c], retries[c], sent[c])
      BY <2>1, <2>2 DEF Within, TriesAgain
    <3> QED
      BY <1>0, <1>4, <2>1, <2>2, <3>1, StageKeeps DEF Problem
  <2>3. CASE ~TriesAgain(c, k) /\ RetriesAgain(c, k)
    <3>1. RetriedOnce(c) \in 0..MaxRetries /\ RetriedOnce(c) = retries[c] + 1
      BY <2>1, <2>3 DEF RetriesAgain, RetriedOnce
    <3>2. RetriedOnce(c) * MaxTries = retries[c] * MaxTries + MaxTries /\ retries[c] * MaxTries \in Nat
      BY <2>1, <3>1, NextRound, FewerRounds
    <3>3. Within("sleeping", 0, RetriedOnce(c), sent[c])
      BY <2>1, <3>2 DEF Within
    <3> QED
      BY <1>0, <1>4, <2>1, <2>3, <3>1, <3>3, StageKeeps DEF Problem
  <2>4. CASE ~TriesAgain(c, k) /\ ~RetriesAgain(c, k)
    BY <1>0, <1>4, <2>4, DoneKeeps DEF Problem
  <2> QED
    BY <2>2, <2>3, <2>4
<1>5. ASSUME NEW c \in Caller, Request(c) \/ Response(c) \/ Abandon(c)
      PROVE  RInv'
  BY <1>0, <1>1, <1>2, <1>4, <1>5, DoneKeeps DEF Request, Response, Abandon
<1> QED
  BY <1>1, <1>3, <1>5 DEF ENext, Recover, allVars

LEMMA RInvHolds == ESpec => []RInv
<1>1. EInit => RInv
  <2> SUFFICES ASSUME EInit PROVE RInv
    OBVIOUS
  <2>1. Counts
    <3>1. 0 \in 0..MaxTried /\ 0 \in 0..MaxRetries /\ 0 \in 0..MaxRequests + 1
      BY EndpointAssumption, MaxRequestsNat
    <3>2. /\ stage = [c \in Caller |-> "none"] /\ tries = [c \in Caller |-> 0]
          /\ retries = [c \in Caller |-> 0] /\ sent = [c \in Caller |-> 0]
          /\ recovered = FALSE
      BY DEF EInit
    <3> QED
      BY <3>1, <3>2 DEF Counts
  <2>2. \A c \in Caller : tries[c] = 0 /\ retries[c] = 0 /\ sent[c] = 0 /\ stage[c] = "none"
    BY DEF EInit
  <2>3. Within("none", 0, 0, 0)
    BY EndpointAssumption DEF Within
  <2> QED
    BY <2>1, <2>2, <2>3 DEF RInv
<1>2. RInv /\ [ENext]_allVars => RInv'
  BY RequestStep
<1> QED
  BY <1>1, <1>2, PTL DEF ESpec

\* A call of an endpoint never sends more than (max_retries + 1) * max_tries
\* requests, however the two loops of retry_with_backoff() and _call_aiohttp()
\* take turns, unless max_tries is 0: for every max_retries and every max_tries
\* at which there is a bound at all.
THEOREM RequestsStayBounded == ESpec => []RequestsBounded
<1>1. RInv => RequestsBounded
  <2> SUFFICES ASSUME RInv, MaxTries > 0, NEW c \in Caller PROVE sent[c] <= MaxRequests
    BY DEF RequestsBounded
  <2>1. retries[c] * MaxTries <= MaxRetries * MaxTries
    BY EndpointAssumption, FewerRounds DEF RInv, Counts
  <2> QED
    BY <2>1, EndpointAssumption, MaxRequestsNat, FewerRounds DEF RInv, Counts, Within
<1> QED
  BY <1>1, RInvHolds, PTL

\* The type invariant of the endpoint, the breaker's included.
THEOREM EndpointTypeCorrect == ESpec => []ETypeOK
<1>1. RInv /\ TypeOK => ETypeOK
  BY DEF RInv, Counts, ETypeOK
<1> QED
  BY <1>1, RInvHolds, EndpointImplementsBreaker, TypeCorrect, PTL
=============================================================================
