---------------------------- MODULE IModelProofs ----------------------------
(***************************************************************************)
(* Proofs about IModel, for any number of events and callers, any queue    *)
(* capacity and limits, hooked events, cancelled calls, abandoned streams  *)
(* and close(): batches and streams conserve the slots of the semaphore,   *)
(* the final pop() of a call finds the event it created, and no wake-up is *)
(* lost.  While the iModel is uncrowded the pile keeps the events of calls *)
(* that failed and of no others; until a call is cancelled each event is   *)
(* run once, by its own call's batch, and its result is final.             *)
(***************************************************************************)
EXTENDS IModel, ProcessorProofs

Active == {w \in Worker : at[w] # "out"}

Place == {"out", "batch", "wait", "queued", "stream", "chunk", "last", "thrown"}

\* A semaphore slot is free, in a task of a batch, or in a stream.
SlotsShared == IsFiniteSet(running) /\ SlotsConserved

\* Each call in progress has an event, which is its own if it created it.
OwnEvents ==
  /\ \A w \in Active : mine[w] \in Event
  /\ \A v, w \in Active : v # w /\ mine[v] \notin Given => mine[v] # mine[w]

\* A caller that waits has created the completion event, and misses no status.
Signalled ==
  \A w \in Worker : at[w] = "wait" =>
    /\ signal[mine[w]] # "none"
    /\ status[mine[w]] \in Terminal => signal[mine[w]] = "set"

\* What the calls in progress are sure of.
CallsRight == OwnEvents /\ PopFinds /\ Signalled

\* The inductive invariant.
JInv == ITypeOK /\ HandsFull /\ TasksDistinct /\ SlotsShared /\ CallsRight

Counted == given \in 0..MaxGiven /\ cancels \in 0..MaxCancels /\ closes \in 0..MaxCloses

\* The types of what the calls keep, and of the limiters.
CallTypes ==
  /\ total \in Nat
  /\ borrowers \in SUBSET Worker
  /\ passed \in SUBSET Worker
  /\ pile \in SUBSET Event
  /\ pending \in Seq(Event)
  /\ at \in [Worker -> Place]
  /\ mine \in [Worker -> Event \union {NoEvent}]
  /\ outcome \in [Event -> {"none", "error"} \union Status]
  /\ Counted

LEMMA TypesSplit == (ITypeOK <=> TypeOK /\ CallTypes) /\ (ITypeOK' <=> TypeOK' /\ CallTypes')
BY DEF ITypeOK, CallTypes, Counted, Place

LEMMA InitJInv == IInit => JInv
<1> SUFFICES ASSUME IInit PROVE JInv
  OBVIOUS
<1>1. TypeOK /\ HandsFull /\ TasksDistinct
  BY InitIInv DEF IInit, IInv
<1>2. CallTypes
  BY RateLimitAssumption, IModelAssumption DEF IInit, LimitInit, CallInit, CallTypes, Counted, Place
<1>3. SlotsShared
  <2>1. running = {} /\ Streaming = {} /\ sem = Limit
    BY DEF IInit, Init, CallInit, Streaming
  <2> QED
    BY <2>1, FS_EmptySet, ProcessorAssumption DEF SlotsShared, SlotsConserved
<1>4. CallsRight
  BY DEF IInit, CallInit, CallsRight, OwnEvents, Active, PopFinds, Signalled
<1> QED
  BY <1>1, <1>2, <1>3, <1>4, TypesSplit DEF JInv

-----------------------------------------------------------------------------
(* Steps of batches that no call and no slot is concerned with.            *)

LEMMA QuietStep ==
  ASSUME JInv, UNCHANGED <<sem, running, status, signal, pile, pending, at, mine, outcome>>,
         TypeOK', HandsFull', TasksDistinct',
         total' \in Nat, borrowers' \in SUBSET Worker, passed' \in SUBSET Worker,
         Counted'
  PROVE  JInv'
<1>1. CallTypes'
  BY TypesSplit DEF JInv, CallTypes
<1>2. SlotsShared' /\ CallsRight'
  BY DEF JInv, SlotsShared, SlotsConserved, Streaming, CallsRight, OwnEvents, Active, PopFinds,
         Signalled
<1> QED
  BY <1>1, <1>2, TypesSplit DEF JInv

LEMMA WakeQuiet ==
  ASSUME JInv, NEW w \in Worker, Wake(w), UNCHANGED <<limitVars, callVars>>
  PROVE  JInv'
<1> USE DEF JInv, taskVars, loopVars, histVars, limitVars, callVars, bounds, Counted
<1>1. TypeOK /\ CallTypes
  BY TypesSplit
<1>2. /\ pc[w] = "sleeping" /\ pc'[w] = "asking"
      /\ pc' \in [Worker -> {"idle", "asking", "sleeping", "joining"}]
      /\ \A v \in Worker \ {w} : pc'[v] = pc[v]
  BY <1>1 DEF Wake, TypeOK
<1>3. TypeOK' /\ HandsFull' /\ TasksDistinct'
  BY <1>1, <1>2 DEF Wake, TypeOK, HandsFull, InHandOrAsleep, TasksDistinct
<1> QED
  BY <1>1, <1>3, QuietStep DEF Wake, CallTypes

LEMMA AnswerQuiet ==
  ASSUME JInv, NEW w \in Worker, NEW permitted \in BOOLEAN, Answer(w, permitted),
         total' = total, borrowers' = borrowers, passed' \in SUBSET Worker, UNCHANGED callVars
  PROVE  JInv'
<1>1. TypeOK /\ CallTypes /\ HandsFull /\ TasksDistinct
  BY TypesSplit DEF JInv
<1>2. TypeOK' /\ HandsFull' /\ TasksDistinct'
  BY <1>1, AnswerKeeps
<1>3. UNCHANGED <<sem, running, status, signal>>
  BY <1>1, AnswerFrame
<1> QED
  BY <1>1, <1>2, <1>3, QuietStep DEF CallTypes, callVars, bounds, Counted

\* acquire() raises: the worker leaves process() with its event.
LEMMA ReborrowQuiet ==
  ASSUME JInv, NEW w \in Worker, Reborrow(w), UNCHANGED callVars
  PROVE  JInv'
<1> USE DEF taskVars, loopVars, limitVars, callVars, bounds, Counted
<1>1. TypeOK /\ CallTypes /\ HandsFull /\ TasksDistinct
  BY TypesSplit DEF JInv
<1>2. /\ next[w] \in Event /\ disturbed' = TRUE
      /\ pc' = [pc EXCEPT ![w] = "joining"] /\ next' = [next EXCEPT ![w] = NoEvent]
      /\ abort' = [abort EXCEPT ![w] = TRUE]
      /\ UNCHANGED <<queue, capacity, prev, admitted, taskVars, loopVars, admits, enqueued,
                     limitVars>>
  BY <1>1 DEF Reborrow, Asking, HandsFull, InHandOrAsleep
<1>3. TypeOK'
  BY <1>1, <1>2 DEF TypeOK
<1>4. HandsFull' /\ TasksDistinct'
  BY <1>1, <1>2 DEF HandsFull, InHandOrAsleep, TasksDistinct, TypeOK
<1> QED
  BY <1>1, <1>2, <1>3, <1>4, QuietStep DEF CallTypes

\* A cancelled task leaves the loop of process(), and gives its token back.
LEMMA CancelAskQuiet ==
  ASSUME JInv, NEW w \in Worker, CancelAsk(w), UNCHANGED callVars
  PROVE  JInv'
<1> USE DEF taskVars, loopVars, histVars, limitVars, callVars, bounds, Counted
<1>1. TypeOK /\ CallTypes /\ HandsFull /\ TasksDistinct
  BY TypesSplit DEF JInv
<1>2. /\ pc' = [pc EXCEPT ![w] = "joining"] /\ next' = [next EXCEPT ![w] = NoEvent]
      /\ UNCHANGED <<queue, capacity, prev, admitted, abort, taskVars, loopVars, histVars>>
      /\ passed' = passed \ {w} /\ borrowers' \subseteq borrowers /\ total' = total
  BY DEF CancelAsk, CancelBody
<1>3. TypeOK'
  BY <1>1, <1>2 DEF TypeOK
<1>4. HandsFull' /\ TasksDistinct'
  BY <1>1, <1>2 DEF HandsFull, InHandOrAsleep, TasksDistinct, TypeOK
<1>5. total' \in Nat /\ borrowers' \in SUBSET Worker /\ passed' \in SUBSET Worker /\ Counted'
  BY <1>1, <1>2 DEF CallTypes
<1> QED
  BY <1>2, <1>3, <1>4, <1>5, QuietStep

LEMMA ProcessStepKeeps ==
  ASSUME JInv, NEW w \in Worker, ProcessStep(w), UNCHANGED callVars
  PROVE  JInv'
<1>1. CallTypes
  BY TypesSplit DEF JInv
<1>2. CASE Wake(w) /\ UNCHANGED limitVars
  BY <1>2, WakeQuiet
<1>3. CASE AnswerByQueue(w)
  <2>1. (Len(queue) < QueueCapacity) \in BOOLEAN
    OBVIOUS
  <2> QED
    BY <1>1, <1>3, <2>1, AnswerQuiet DEF AnswerByQueue, limitVars, CallTypes
<1>4. CASE AnswerByBudget(w)
  <2>1. (~OverBudget(next[w])) \in BOOLEAN
    OBVIOUS
  <2> QED
    BY <1>1, <1>4, <2>1, AnswerQuiet DEF AnswerByBudget, limitVars, CallTypes
<1>5. CASE Borrow(w)
  <2>1. UNCHANGED vars /\ total' \in Nat /\ borrowers' \in SUBSET Worker /\ passed' \in SUBSET Worker
    BY <1>1, <1>5 DEF Borrow, CallTypes
  <2>2. TypeOK' /\ HandsFull' /\ TasksDistinct'
    BY <2>1, TypesSplit DEF JInv, TypeOK, HandsFull, InHandOrAsleep, TasksDistinct, vars, procVars,
       taskVars, loopVars, histVars
  <2> QED
    BY <1>1, <2>1, <2>2, QuietStep DEF vars, taskVars, callVars, bounds, Counted, CallTypes
<1>6. CASE Pass(w)
  BY <1>1, <1>6, AnswerQuiet DEF Pass, CallTypes
<1>7. CASE Reborrow(w)
  BY <1>7, ReborrowQuiet
<1>8. CASE CancelAsk(w)
  BY <1>8, CancelAskQuiet
<1> QED
  BY <1>2, <1>3, <1>4, <1>5, <1>6, <1>7, <1>8 DEF ProcessStep, Permission
-----------------------------------------------------------------------------
(* The tasks of a batch.                                                   *)

\* A call that waits sees the new status of its event, whoever set it.
StillSignalled ==
  \A w \in Worker : at[w] = "wait" =>
    /\ signal'[mine[w]] # "none"
    /\ status'[mine[w]] \in Terminal => signal'[mine[w]] = "set"

LEMMA SignalledKept ==
  ASSUME TypeOK, OwnEvents, Signalled, NEW e \in Event, NEW s \in Status, SetStatus(e, s)
  PROVE  StillSignalled
<1> SUFFICES ASSUME NEW w \in Worker, at[w] = "wait"
             PROVE  /\ signal'[mine[w]] # "none"
                    /\ status'[mine[w]] \in Terminal => signal'[mine[w]] = "set"
  BY DEF StillSignalled
<1>1. /\ mine[w] \in Event /\ signal[mine[w]] \in {"clear", "set"}
      /\ status[mine[w]] \in Terminal => signal[mine[w]] = "set"
  BY DEF TypeOK, OwnEvents, Active, Signalled
<1>2. CASE mine[w] = e
  BY <1>1, <1>2 DEF SetStatus, TypeOK
<1>3. CASE mine[w] # e
  BY <1>1, <1>3 DEF SetStatus, TypeOK
<1> QED
  BY <1>2, <1>3

LEMMA StreamingFinite == Cardinality(Streaming) \in Nat /\ IsFiniteSet(Streaming)
BY FS_Subset, FS_CardinalityType, ProcessorAssumption DEF Streaming

LEMMA SlotGivenBack ==
  ASSUME JInv, NEW t \in running, LeaveSlot(t), at' = at
  PROVE  sem' \in Nat /\ SlotsShared' /\ running' \subseteq running
<1>1. /\ IsFiniteSet(running \ {t}) /\ Cardinality(running \ {t}) = Cardinality(running) - 1
      /\ Cardinality(running) \in Nat
  BY FS_RemoveElement, FS_CardinalityType DEF JInv, SlotsShared
<1>2. sem \in Nat /\ sem + Cardinality(running) + Cardinality(Streaming) = Limit
  BY DEF JInv, ITypeOK, TypeOK, SlotsShared, SlotsConserved
<1>3. sem' \in Nat /\ sem' + Cardinality(running') + Cardinality(Streaming) = Limit
  BY <1>1, <1>2, StreamingFinite, ProcessorAssumption DEF LeaveSlot
<1>4. Streaming' = Streaming
  BY DEF Streaming
<1> QED
  BY <1>1, <1>3, <1>4 DEF SlotsShared, SlotsConserved, LeaveSlot

\* A task ends or is cancelled; with a new status, if the event gets one.
LEMMA TaskOver ==
  ASSUME JInv, TaskFrame, UNCHANGED <<callVars, limitVars>>,
         NEW t \in running, LeaveSlot(t), ready' = ready, abort' \in [Worker -> BOOLEAN],
         disturbed' \in BOOLEAN, NEW s \in Status, SetStatus(t[2], s)
  PROVE  JInv'
<1> USE DEF callVars, bounds, limitVars, loopVars
<1>1. TypeOK /\ CallTypes /\ HandsFull /\ TasksDistinct /\ CallsRight
  BY TypesSplit DEF JInv
<1>2. t[2] \in Event
  BY <1>1 DEF TypeOK, Task
<1>3. sem' \in Nat /\ SlotsShared' /\ running' \subseteq running
  BY SlotGivenBack
<1>4. status' \in [Event -> Status] /\ signal' \in [Event -> {"none", "clear", "set"}]
  BY <1>1, <1>2, StatusSet
<1>5. TypeOK'
  BY <1>1, <1>3, <1>4 DEF TypeOK, TaskFrame
<1>6. CallTypes'
  BY <1>1 DEF CallTypes, Counted
<1>7. HandsFull' /\ TasksDistinct'
  BY <1>1, <1>3 DEF HandsFull, InHandOrAsleep, TasksDistinct, TaskFrame
<1>8. CallsRight'
  <2>1. Signalled'
    BY <1>1, <1>2, SignalledKept DEF CallsRight, StillSignalled, Signalled
  <2> QED
    BY <1>1, <2>1 DEF CallsRight, OwnEvents, Active, PopFinds
<1> QED
  BY <1>3, <1>5, <1>6, <1>7, <1>8, TypesSplit DEF JInv

LEMMA FinishKeeps ==
  ASSUME JInv, NEW t \in running, NEW s \in Outcomes, Finish(t, s),
         UNCHANGED <<callVars, limitVars>>
  PROVE  JInv'
<1>1. s \in Status
  BY DEF Outcomes, Status, Terminal
<1>2. abort' \in [Worker -> BOOLEAN]
  <2>1. abort' = [abort EXCEPT ![t[1]] = abort[t[1]] \/ (~Hooked /\ s = "failed")]
    BY DEF Finish
  <2>2. abort \in [Worker -> BOOLEAN] /\ t[1] \in Worker
    BY DEF JInv, ITypeOK, TypeOK, Task
  <2>3. (abort[t[1]] \/ (~Hooked /\ s = "failed")) \in BOOLEAN
    BY <2>2
  <2> QED
    BY <2>1, <2>2, <2>3
<1>3. LeaveSlot(t) /\ SetStatus(t[2], s) /\ ready' = ready /\ TaskFrame
  BY DEF Finish, TaskFrame
<1>4. disturbed' \in BOOLEAN
  BY DEF Finish, JInv, ITypeOK, TypeOK
<1> QED
  BY <1>1, <1>2, <1>3, <1>4, TaskOver

LEMMA CancelRunningKeeps ==
  ASSUME JInv, NEW t \in running, CancelRunning(t), UNCHANGED <<callVars, limitVars>>
  PROVE  JInv'
<1>1. "cancelled" \in Status
  BY DEF Status, Terminal
<1>2. LeaveSlot(t) /\ SetStatus(t[2], "cancelled") /\ ready' = ready /\ TaskFrame /\ abort' = abort
  BY RateLimitAssumption DEF CancelRunning, TaskFrame, procVars, histVars
<1>3. abort' \in [Worker -> BOOLEAN] /\ disturbed' \in BOOLEAN
  BY <1>2 DEF CancelRunning, histVars, JInv, ITypeOK, TypeOK
<1> QED
  BY <1>1, <1>2, <1>3, TaskOver

LEMMA CancelReadyKeeps ==
  ASSUME JInv, NEW t \in ready, CancelReady(t), UNCHANGED <<callVars, limitVars>>
  PROVE  JInv'
<1> USE DEF callVars, bounds, Counted, limitVars, loopVars, histVars, procVars
<1>1. TypeOK /\ CallTypes /\ HandsFull /\ TasksDistinct
  BY TypesSplit DEF JInv
<1>2. TypeOK' /\ HandsFull' /\ TasksDistinct'
  BY <1>1 DEF CancelReady, TypeOK, HandsFull, InHandOrAsleep, TasksDistinct
<1> QED
  BY <1>1, <1>2, QuietStep DEF CancelReady, CallTypes

\* A task takes a slot: no event is skipped, for all of them have hooks.
LEMMA BeginKeeps ==
  ASSUME JInv, NEW t \in ready, Begin(t), UNCHANGED <<callVars, limitVars>>
  PROVE  JInv'
<1> USE DEF callVars, bounds, Counted, limitVars, loopVars, histVars, procVars
<1>1. TypeOK /\ CallTypes /\ HandsFull /\ TasksDistinct /\ SlotsShared /\ CallsRight
  BY TypesSplit DEF JInv
<1>2. /\ t \in Task /\ t[2] \in Event /\ sem > 0 /\ ready' = ready \ {t}
      /\ sem' = sem - 1 /\ running' = running \union {t}
      /\ status' = [status EXCEPT ![t[2]] = "processing"] /\ signal' = signal
      /\ UNCHANGED <<procVars, loopVars, histVars>>
  BY <1>1, RateLimitAssumption DEF Begin, Skips, SlotFree, TypeOK, Task
<1>3. TypeOK'
  BY <1>1, <1>2 DEF TypeOK, Status
<1>4. CallTypes'
  BY <1>1 DEF CallTypes
<1>5. HandsFull' /\ TasksDistinct'
  BY <1>1, <1>2 DEF HandsFull, InHandOrAsleep, TasksDistinct
<1>6. SlotsShared'
  <2>1. t \notin running
    BY <1>1 DEF TasksDistinct
  <2>2. /\ IsFiniteSet(running') /\ Cardinality(running') = Cardinality(running) + 1
        /\ Cardinality(running) \in Nat
    BY <1>1, <1>2, <2>1, FS_AddElement, FS_CardinalityType DEF SlotsShared
  <2>3. Streaming' = Streaming
    BY DEF Streaming
  <2> QED
    BY <1>1, <1>2, <2>2, <2>3, StreamingFinite DEF SlotsShared, SlotsConserved, TypeOK
<1>7. CallsRight'
  <2>1. "processing" \notin Terminal
    BY DEF Terminal
  <2>2. Signalled'
    BY <1>1, <1>2, <2>1 DEF CallsRight, OwnEvents, Active, Signalled, TypeOK
  <2> QED
    BY <1>1, <2>2 DEF CallsRight, OwnEvents, Active, PopFinds
<1> QED
  BY <1>3, <1>4, <1>5, <1>6, <1>7, TypesSplit DEF JInv
-----------------------------------------------------------------------------
(* What a call does to the rights of the calls.                            *)

\* A call begins: its event is given, or it is new and goes into the pile.
LEMMA CallBegins ==
  ASSUME CallTypes, CallsRight, NEW w \in Worker, NEW e \in Event, at[w] = "out",
         e \in Given \/ (Fresh(e) /\ e \in pile'), pile \subseteq pile',
         NEW place \in {"batch", "queued"}, at' = [at EXCEPT ![w] = place],
         mine' = [mine EXCEPT ![w] = e], UNCHANGED <<status, signal>>
  PROVE  CallsRight'
<1>1. /\ \A v \in Worker \ {w} : at'[v] = at[v] /\ mine'[v] = mine[v]
      /\ at'[w] = place /\ mine'[w] = e
  BY DEF CallTypes
<1>2. OwnEvents'
  BY <1>1 DEF CallsRight, OwnEvents, Active, Fresh
<1>3. PopFinds'
  BY <1>1 DEF CallsRight, PopFinds
<1>4. Signalled'
  BY <1>1 DEF CallsRight, Signalled
<1> QED
  BY <1>2, <1>3, <1>4 DEF CallsRight

\* A call returns: the pile keeps what is not its event.
LEMMA CallReturns ==
  ASSUME CallTypes, CallsRight, NEW w \in Worker, at'[w] = "out",
         \A v \in Worker \ {w} : at'[v] = at[v] /\ mine'[v] = mine[v],
         \A e \in pile : e \in pile' \/ (at[w] # "out" /\ e = mine[w]),
         UNCHANGED <<status, signal>>
  PROVE  CallsRight'
<1>1. OwnEvents'
  BY DEF CallsRight, OwnEvents, Active
<1>2. PopFinds'
  BY DEF CallsRight, PopFinds, OwnEvents, Active
<1>3. Signalled'
  BY DEF CallsRight, Signalled
<1> QED
  BY <1>1, <1>2, <1>3 DEF CallsRight

\* Steps that take no slot and give none back.
LEMMA SlotsStay ==
  ASSUME SlotsShared, UNCHANGED <<sem, running>>, Streaming' = Streaming
  PROVE  SlotsShared'
BY DEF SlotsShared, SlotsConserved

\* The types of the variables of a call that returns.
LEMMA ReturnTypes ==
  ASSUME CallTypes, NEW w \in Worker, NEW e \in Event,
         NEW result \in {"none", "error"} \union Status, Return(w, e, result)
  PROVE  /\ at' \in [Worker -> Place]
         /\ mine' \in [Worker -> Event \union {NoEvent}]
         /\ outcome' \in [Event -> {"none", "error"} \union Status]
         /\ at'[w] = "out"
         /\ \A v \in Worker \ {w} : at'[v] = at[v] /\ mine'[v] = mine[v]
BY DEF CallTypes, Return, Place

-----------------------------------------------------------------------------
(* invoke().                                                               *)

\* What forward() takes off the pending list, and what it leaves there.
LEMMA ForwardTypes ==
  ASSUME NEW all \in Seq(Event), NEW n \in 0..Len(all), queue \in Seq(Event)
  PROVE  /\ queue \o SubSeq(all, 1, n) \in Seq(Event)
         /\ SubSeq(all, n + 2, Len(all)) \in Seq(Event)
         /\ {SubSeq(all, 1, n)[i] : i \in 1..n} \subseteq Event
<1>1. SubSeq(all, 1, n) \in Seq(Event) /\ Len(SubSeq(all, 1, n)) = n
  BY SubSeqProperties
<1>2. SubSeq(all, n + 2, Len(all)) \in Seq(Event)
  BY SubSeqProperties
<1> QED
  BY <1>1, <1>2, ConcatProperties

LEMMA InvokeKeeps ==
  ASSUME JInv, NEW w \in Worker, NEW e \in Event, Invoke(w, e)
  PROVE  JInv'
<1> USE DEF limitVars, taskVars, Counted
<1>1. TypeOK /\ CallTypes /\ HandsFull /\ TasksDistinct /\ SlotsShared /\ CallsRight
  BY TypesSplit DEF JInv
<1> DEFINE all == Appended(e)
<1>2. all \in Seq(Event) /\ Len(all) \in Nat
  BY <1>1, AppendProperties, LenProperties DEF CallTypes, Appended
<1>3. PICK n \in 0..Len(all) : Forward(w, e, all, n)
  BY <1>2 DEF Invoke
<1> DEFINE q == queue \o SubSeq(all, 1, n)
<1>4. /\ q \in Seq(Event)
      /\ SubSeq(all, n + 2, Len(all)) \in Seq(Event)
      /\ {SubSeq(all, 1, n)[i] : i \in 1..n} \subseteq Event
  BY <1>1, <1>2, ForwardTypes DEF TypeOK
<1>5. /\ at[w] = "out" /\ (e \in Given \/ Fresh(e)) /\ stopped' = FALSE
      /\ pile' = pile \union {e}
      /\ UNCHANGED <<cancels, closes, loop, taskVars, admits, disturbed, limitVars>>
      /\ enqueued' = enqueued \union {SubSeq(all, 1, n)[i] : i \in 1..n}
  BY <1>3 DEF Invoke, Forward, IsGiven, Creates
<1>8. Counted'
  BY <1>1, <1>5, IModelAssumption DEF Invoke, IsGiven, Creates, CallTypes
<1>6. CASE n = Len(all)
  <2>1. /\ pending' = <<>> /\ StartBatch(w, q) /\ outcome' = outcome
        /\ at' = [at EXCEPT ![w] = "batch"] /\ mine' = [mine EXCEPT ![w] = e]
    BY <1>3, <1>6 DEF Forward
  <2>2. /\ capacity \in Int /\ NoEvent \in Event \union {NoEvent}
        /\ Turn(w, q, capacity, NoEvent) /\ UNCHANGED <<capacity, abort>>
        /\ prev' = [prev EXCEPT ![w] = NoEvent] /\ admitted' = [admitted EXCEPT ![w] = FALSE]
    BY <1>1, <2>1 DEF TypeOK, StartBatch
  <2>3. /\ queue' \in Seq(Event)
        /\ pc' \in [Worker -> {"idle", "asking", "sleeping", "joining"}]
        /\ next' \in [Worker -> Event \union {NoEvent}]
        /\ pc'[w] \in {"asking", "sleeping"} => next'[w] \in Event
        /\ \A v \in Worker \ {w} : pc'[v] = pc[v] /\ next'[v] = next[v]
    BY <1>1, <1>4, <2>2, TurnFrame
  <2>4. TypeOK'
    BY <1>1, <1>4, <1>5, <2>2, <2>3 DEF TypeOK
  <2>5. CallTypes'
    <3>1. pending' \in Seq(Event)
      BY <2>1, EmptySeq
    <3> QED
      BY <1>1, <1>5, <1>8, <2>1, <3>1 DEF CallTypes, Place
  <2>6. HandsFull' /\ TasksDistinct'
    BY <1>1, <1>5, <2>3 DEF HandsFull, InHandOrAsleep, TasksDistinct
  <2>7. SlotsShared'
    <3>1. Streaming' = Streaming
      BY <1>1, <1>5, <2>1 DEF Streaming, CallTypes
    <3> QED
      BY <1>1, <1>5, <3>1, SlotsStay
  <2>8. CallsRight'
    BY <1>1, <1>5, <2>1, CallBegins
  <2> QED
    BY <2>4, <2>5, <2>6, <2>7, <2>8, TypesSplit DEF JInv
<1>7. CASE n # Len(all)
  <2>1. /\ pending' = SubSeq(all, n + 2, Len(all)) /\ queue' = q /\ Return(w, e, "error")
        /\ UNCHANGED <<pc, next, prev, admitted, capacity, abort>>
    BY <1>3, <1>7 DEF Forward
  <2>2. TypeOK'
    BY <1>1, <1>4, <1>5, <2>1 DEF TypeOK
  <2>3. /\ at' \in [Worker -> Place]
        /\ mine' \in [Worker -> Event \union {NoEvent}]
        /\ outcome' \in [Event -> {"none", "error"} \union Status]
        /\ at'[w] = "out"
        /\ \A v \in Worker \ {w} : at'[v] = at[v] /\ mine'[v] = mine[v]
    BY <1>1, <2>1, ReturnTypes
  <2>4. CallTypes'
    BY <1>1, <1>4, <1>5, <1>8, <2>1, <2>3 DEF CallTypes
  <2>5. HandsFull' /\ TasksDistinct'
    BY <1>1, <1>5, <2>1 DEF HandsFull, InHandOrAsleep, TasksDistinct
  <2>6. SlotsShared'
    <3>1. Streaming' = Streaming
      BY <1>5, <2>3 DEF Streaming
    <3> QED
      BY <1>1, <1>5, <3>1, SlotsStay
  <2>7. CallsRight'
    BY <1>1, <1>5, <2>3, CallReturns
  <2> QED
    BY <2>2, <2>4, <2>5, <2>6, <2>7, TypesSplit DEF JInv
<1> QED
  BY <1>6, <1>7
\* The call's event is popped and the call returns it.
LEMMA PopTypes ==
  ASSUME JInv, NEW w \in Worker, at[w] # "out", PopAndReturn(w)
  PROVE  /\ mine[w] \in Event /\ pile' \in SUBSET Event
         /\ at' \in [Worker -> Place]
         /\ mine' \in [Worker -> Event \union {NoEvent}]
         /\ outcome' \in [Event -> {"none", "error"} \union Status]
         /\ at'[w] = "out"
         /\ \A v \in Worker \ {w} : at'[v] = at[v] /\ mine'[v] = mine[v]
<1>1. TypeOK /\ CallTypes
  BY TypesSplit DEF JInv
<1>2. mine[w] \in Event
  BY DEF JInv, CallsRight, OwnEvents, Active
<1>3. PICK result \in {"none", "error"} \union Status : Return(w, mine[w], result)
  BY <1>1, <1>2 DEF PopAndReturn, TypeOK
<1>4. pile' \in SUBSET Event
  BY <1>1 DEF PopAndReturn, CallTypes
<1> QED
  BY <1>1, <1>2, <1>3, <1>4, ReturnTypes

LEMMA EndBatchKeeps ==
  ASSUME JInv, NEW w \in Worker, EndBatch(w)
  PROVE  JInv'
<1> USE DEF limitVars, loopVars, histVars, bounds, Counted
<1>1. TypeOK /\ CallTypes /\ HandsFull /\ TasksDistinct /\ SlotsShared /\ CallsRight
  BY TypesSplit DEF JInv
<1>2. /\ at[w] = "batch" /\ mine[w] \in Event
      /\ pc' = [pc EXCEPT ![w] = "idle"] /\ prev' = [prev EXCEPT ![w] = NoEvent]
      /\ abort' = [abort EXCEPT ![w] = FALSE] /\ capacity' \in {capacity, QueueCapacity}
      /\ UNCHANGED <<queue, next, admitted, pending, bounds, sem, ready, running, status,
                     loopVars, histVars, limitVars>>
  BY <1>1 DEF EndBatch, JoinBatch, Refilled, CallsRight, OwnEvents, Active
<1>3. signal' \in [Event -> {"none", "clear", "set"}]
  BY <1>1, <1>2 DEF EndBatch, TypeOK
<1>4. TypeOK'
  BY <1>1, <1>2, <1>3, ProcessorAssumption DEF TypeOK
<1>5. HandsFull' /\ TasksDistinct'
  BY <1>1, <1>2 DEF HandsFull, InHandOrAsleep, TasksDistinct, TypeOK
<1>6. CASE at'[w] = "out"
  <2>1. /\ signal' = signal
        /\ (Return(w, mine[w], "error") /\ pile' = pile) \/ PopAndReturn(w)
    BY <1>1, <1>2, <1>6 DEF EndBatch, CallTypes
  <2>2. /\ pile' \in SUBSET Event
        /\ at' \in [Worker -> Place]
        /\ mine' \in [Worker -> Event \union {NoEvent}]
        /\ outcome' \in [Event -> {"none", "error"} \union Status]
        /\ \A v \in Worker \ {w} : at'[v] = at[v] /\ mine'[v] = mine[v]
    <3>1. CASE Return(w, mine[w], "error") /\ pile' = pile
      BY <1>1, <1>2, <3>1, ReturnTypes DEF CallTypes
    <3>2. CASE PopAndReturn(w)
      BY <1>2, <3>2, PopTypes
    <3> QED
      BY <2>1, <3>1, <3>2
  <2>3. CallTypes'
    BY <1>1, <1>2, <2>2 DEF CallTypes
  <2>4. SlotsShared'
    <3>1. Streaming' = Streaming
      BY <1>2, <1>6, <2>2 DEF Streaming
    <3> QED
      BY <1>1, <1>2, <3>1, SlotsStay
  <2>5. CallsRight'
    <3>1. \A e \in pile : e \in pile' \/ e = mine[w]
      BY <2>1 DEF PopAndReturn
    <3> QED
      BY <1>1, <1>2, <1>6, <2>1, <2>2, <3>1, CallReturns
  <2> QED
    BY <1>4, <1>5, <2>3, <2>4, <2>5, TypesSplit DEF JInv
<1>7. CASE at'[w] # "out"
  <2>1. /\ status[mine[w]] \notin Terminal /\ at' = [at EXCEPT ![w] = "wait"]
        /\ signal' = [signal EXCEPT ![mine[w]] = IF @ = "none" THEN "clear" ELSE @]
        /\ UNCHANGED <<pile, mine, outcome>>
    BY <1>1, <1>7 DEF EndBatch, PopAndReturn, Return, CallTypes
  <2>2. CallTypes'
    BY <1>1, <1>2, <2>1 DEF CallTypes, Place
  <2>3. SlotsShared'
    <3>1. Streaming' = Streaming
      BY <1>1, <1>2, <2>1 DEF Streaming, CallTypes
    <3> QED
      BY <1>1, <1>2, <3>1, SlotsStay
  <2>4. Active' = Active
    BY <1>1, <1>2, <2>1 DEF Active, CallTypes
  <2>5. OwnEvents' /\ PopFinds'
    BY <1>1, <1>2, <2>1, <2>4 DEF CallsRight, OwnEvents, PopFinds, CallTypes
  <2>6. Signalled'
    <3> SUFFICES ASSUME NEW v \in Worker, at'[v] = "wait"
                 PROVE  /\ signal'[mine[v]] # "none"
                        /\ status[mine[v]] \in Terminal => signal'[mine[v]] = "set"
      BY <1>2, <2>1 DEF Signalled
    <3>1. CASE v = w
      BY <1>1, <1>2, <2>1, <3>1 DEF TypeOK
    <3>2. CASE v # w
      <4>1. at[v] = "wait" /\ mine[v] \in Event /\ signal[mine[v]] # "none"
        BY <1>1, <1>2, <2>1, <3>2 DEF CallTypes, CallsRight, OwnEvents, Active, Signalled
      <4> QED
        BY <1>1, <2>1, <4>1 DEF TypeOK, CallsRight, Signalled
    <3> QED
      BY <3>1, <3>2
  <2> QED
    BY <1>4, <1>5, <2>2, <2>3, <2>5, <2>6, TypesSplit DEF JInv, CallsRight
<1> QED
  BY <1>6, <1>7

\* A call that waits, for its event or for a slot, returns or raises.
LEMMA WaitEnds ==
  ASSUME JInv, NEW w \in Worker, at[w] \in {"wait", "queued"},
         \/ PopAndReturn(w)
         \/ Return(w, mine[w], "error") /\ pile' = pile,
         UNCHANGED <<pending, vars, limitVars>>, Counted'
  PROVE  JInv'
<1> USE DEF vars, procVars, taskVars, loopVars, histVars, limitVars
<1>1. TypeOK /\ CallTypes /\ HandsFull /\ TasksDistinct /\ SlotsShared /\ CallsRight
  BY TypesSplit DEF JInv
<1>2. /\ pile' \in SUBSET Event
      /\ at' \in [Worker -> Place]
      /\ mine' \in [Worker -> Event \union {NoEvent}]
      /\ outcome' \in [Event -> {"none", "error"} \union Status]
      /\ at'[w] = "out"
      /\ \A v \in Worker \ {w} : at'[v] = at[v] /\ mine'[v] = mine[v]
  <2>1. CASE PopAndReturn(w)
    BY <2>1, PopTypes
  <2>2. CASE Return(w, mine[w], "error") /\ pile' = pile
    <3>1. mine[w] \in Event
      BY <1>1 DEF CallsRight, OwnEvents, Active
    <3> QED
      BY <1>1, <2>2, <3>1, ReturnTypes DEF CallTypes
  <2> QED
    BY <2>1, <2>2
<1>3. TypeOK' /\ HandsFull' /\ TasksDistinct'
  BY <1>1 DEF TypeOK, HandsFull, InHandOrAsleep, TasksDistinct
<1>4. CallTypes'
  BY <1>1, <1>2 DEF CallTypes
<1>5. SlotsShared'
  <2>1. Streaming' = Streaming
    BY <1>2 DEF Streaming
  <2> QED
    BY <1>1, <2>1, SlotsStay
<1>6. CallsRight'
  <2>1. \A e \in pile : e \in pile' \/ e = mine[w]
    BY DEF PopAndReturn
  <2> QED
    BY <1>1, <1>2, <2>1, CallReturns
<1> QED
  BY <1>3, <1>4, <1>5, <1>6, TypesSplit DEF JInv

\* The caller is cancelled, in its batch or waiting.
LEMMA CancelCallKeeps ==
  ASSUME JInv, NEW w \in Worker, CancelCall(w)
  PROVE  JInv'
<1>1. TypeOK /\ CallTypes /\ HandsFull /\ TasksDistinct
  BY TypesSplit DEF JInv
<1>2. Counted'
  BY <1>1, IModelAssumption DEF CancelCall, CallTypes, Counted
<1>3. CASE at[w] = "batch" /\ Cancel(w) /\ UNCHANGED <<at, mine, outcome>>
  <2> USE DEF CancelCall, taskVars, loopVars, limitVars
  <2>1. abort' = [abort EXCEPT ![w] = TRUE] /\ disturbed' = TRUE
        /\ UNCHANGED <<queue, capacity, pc, prev, next, admitted, taskVars, loopVars, admits,
                       enqueued>>
    BY <1>3 DEF Cancel
  <2>2. TypeOK' /\ HandsFull' /\ TasksDistinct'
    BY <1>1, <2>1 DEF TypeOK, HandsFull, InHandOrAsleep, TasksDistinct
  <2> QED
    BY <1>1, <1>2, <1>3, <2>1, <2>2, QuietStep DEF CallTypes
<1>4. CASE at[w] \in {"wait", "queued"} /\ Return(w, mine[w], "error") /\ UNCHANGED vars
  BY <1>2, <1>4, WaitEnds DEF CancelCall
<1> QED
  BY <1>3, <1>4 DEF CancelCall

-----------------------------------------------------------------------------
(* stream().                                                               *)

LEMMA StreamKeeps ==
  ASSUME JInv, NEW w \in Worker, NEW e \in Event, Stream(w, e)
  PROVE  JInv'
<1> USE DEF procVars, taskVars, histVars, limitVars
<1>1. TypeOK /\ CallTypes /\ HandsFull /\ TasksDistinct /\ SlotsShared /\ CallsRight
  BY TypesSplit DEF JInv
<1>2. /\ at[w] = "out" /\ stopped' = FALSE
      /\ at' = [at EXCEPT ![w] = "queued"] /\ mine' = [mine EXCEPT ![w] = e]
      /\ UNCHANGED <<outcome, cancels, closes, loop, procVars, taskVars, histVars, limitVars>>
  BY DEF Stream
<1>3. /\ e \in Given \/ (Fresh(e) /\ e \in pile')
      /\ pile' \in {pile, pile \union {e}} /\ pending' \in {pending, Append(pending, e)}
  BY DEF Stream, IsGiven, Creates
<1>4. TypeOK' /\ HandsFull' /\ TasksDistinct'
  BY <1>1, <1>2 DEF TypeOK, HandsFull, InHandOrAsleep, TasksDistinct
<1>5. CallTypes'
  <2>1. pending' \in Seq(Event)
    BY <1>1, <1>3, AppendProperties DEF CallTypes
  <2>2. Counted'
    BY <1>1, <1>2, IModelAssumption DEF Stream, IsGiven, Creates, CallTypes, Counted
  <2> QED
    BY <1>1, <1>2, <1>3, <2>1, <2>2 DEF CallTypes, Place
<1>6. SlotsShared'
  <2>1. Streaming' = Streaming
    BY <1>1, <1>2 DEF Streaming, CallTypes
  <2> QED
    BY <1>1, <1>2, <2>1, SlotsStay
<1>7. CallsRight'
  <2>1. pile \subseteq pile'
    BY <1>3
  <2> QED
    BY <1>1, <1>2, <1>3, <2>1, CallBegins
<1> QED
  BY <1>4, <1>5, <1>6, <1>7, TypesSplit DEF JInv

\* The stream takes the slot: one more call is streaming.
LEMMA StreamBeginKeeps ==
  ASSUME JInv, NEW w \in Worker, StreamBegin(w)
  PROVE  JInv'
<1> USE DEF procVars, loopVars, limitVars, bounds, Counted
<1>1. TypeOK /\ CallTypes /\ HandsFull /\ TasksDistinct /\ SlotsShared /\ CallsRight
  BY TypesSplit DEF JInv
<1>2. /\ at[w] = "queued" /\ mine[w] \in Event /\ sem > 0 /\ sem' = sem - 1
      /\ status' = [status EXCEPT ![mine[w]] = "processing"]
      /\ admits' = [admits EXCEPT ![mine[w]] = @ + 1]
      /\ at' = [at EXCEPT ![w] = "stream"]
      /\ UNCHANGED <<pile, pending, mine, outcome, bounds, ready, running, signal,
                     enqueued, disturbed, procVars, loopVars, limitVars>>
  BY <1>1 DEF StreamBegin, CallsRight, OwnEvents, Active
<1>3. admits' \in [Event -> Nat] /\ \A e \in Event : admits'[e] >= admits[e]
  BY <1>1, <1>2 DEF TypeOK
<1>4. status' \in [Event -> Status] /\ sem' \in Nat
  BY <1>1, <1>2 DEF TypeOK, Status
<1>5. TypeOK'
  BY <1>1, <1>2, <1>3, <1>4 DEF TypeOK
<1>6. CallTypes'
  BY <1>1, <1>2 DEF CallTypes, Place
<1>7. HandsFull'
  BY <1>1, <1>2 DEF HandsFull, InHandOrAsleep
<1>8. TasksDistinct'
  BY <1>1, <1>2, <1>3 DEF TasksDistinct, TypeOK, Task
<1>9. SlotsShared'
  <2>1. Streaming' = Streaming \union {w} /\ w \notin Streaming
    BY <1>1, <1>2 DEF Streaming, CallTypes
  <2>2. Cardinality(Streaming') = Cardinality(Streaming) + 1
    BY <2>1, StreamingFinite, FS_AddElement
  <2>3. Cardinality(running) \in Nat
    BY <1>1, FS_CardinalityType DEF SlotsShared
  <2>4. sem + Cardinality(running) + Cardinality(Streaming) = Limit /\ sem \in Nat
    BY <1>1 DEF SlotsShared, SlotsConserved, TypeOK
  <2>5. sem' + Cardinality(running) + Cardinality(Streaming') = Limit
    BY <1>2, <2>2, <2>3, <2>4, StreamingFinite
  <2> QED
    BY <1>1, <1>2, <2>5 DEF SlotsShared, SlotsConserved
<1>10. CallsRight'
  <2>1. Active' = Active
    BY <1>1, <1>2 DEF Active, CallTypes
  <2>2. OwnEvents' /\ PopFinds'
    BY <1>1, <1>2, <2>1 DEF CallsRight, OwnEvents, PopFinds, CallTypes
  <2>3. "processing" \notin Terminal
    BY DEF Terminal
  <2>4. Signalled'
    BY <1>1, <1>2, <2>3 DEF CallsRight, OwnEvents, Active, Signalled, TypeOK, CallTypes
  <2> QED
    BY <2>2, <2>4 DEF CallsRight
<1> QED
  BY <1>5, <1>6, <1>7, <1>8, <1>9, <1>10, TypesSplit DEF JInv

\* An item is asked for, or given: the slot is kept.
LEMMA StreamItemKeeps ==
  ASSUME JInv, NEW w \in Worker, NEW from \in {"stream", "chunk"}, NEW to \in {"stream", "chunk"},
         StreamItem(w, from, to)
  PROVE  JInv'
<1> USE DEF vars, procVars, taskVars, loopVars, histVars, limitVars, bounds, Counted
<1>1. TypeOK /\ CallTypes /\ HandsFull /\ TasksDistinct /\ SlotsShared /\ CallsRight
  BY TypesSplit DEF JInv
<1>2. /\ at[w] = from /\ at' = [at EXCEPT ![w] = to]
      /\ UNCHANGED <<pile, pending, mine, outcome, bounds, vars, limitVars>>
  BY DEF StreamItem
<1>3. TypeOK' /\ HandsFull' /\ TasksDistinct'
  BY <1>1, <1>2 DEF TypeOK, HandsFull, InHandOrAsleep, TasksDistinct
<1>4. CallTypes'
  BY <1>1, <1>2 DEF CallTypes, Place
<1>5. Streaming' = Streaming /\ Active' = Active
  BY <1>1, <1>2 DEF Streaming, Active, CallTypes
<1>6. SlotsShared'
  BY <1>1, <1>2, <1>5, SlotsStay
<1>7. CallsRight'
  BY <1>1, <1>2, <1>5 DEF CallsRight, OwnEvents, PopFinds, Signalled, CallTypes
<1> QED
  BY <1>3, <1>4, <1>6, <1>7, TypesSplit DEF JInv

\* A generator that ends frees the slot it had.
LEMMA SlotFreed ==
  ASSUME SlotsShared, sem \in Nat, NEW w \in Streaming, FreeSlot, running' = running,
         at'[w] = "out", \A v \in Worker \ {w} : at'[v] = at[v]
  PROVE  sem' \in Nat /\ SlotsShared'
<1>1. Streaming' = Streaming \ {w}
  BY DEF Streaming
<1>2. Cardinality(Streaming') = Cardinality(Streaming) - 1
  BY <1>1, StreamingFinite, FS_RemoveElement
<1>3. Cardinality(running) \in Nat
  BY FS_CardinalityType DEF SlotsShared
<1>4. sem + Cardinality(running) + Cardinality(Streaming) = Limit
  BY DEF SlotsShared, SlotsConserved
<1>5. sem' + Cardinality(running) + Cardinality(Streaming') = Limit
  BY <1>2, <1>3, <1>4, StreamingFinite DEF FreeSlot
<1> QED
  BY <1>5 DEF SlotsShared, SlotsConserved, FreeSlot

\* The finally clause: the event leaves the pile and the slot is kept, or the
\* pile does not have it and the generator ends.
LEMMA LastItemKeeps ==
  ASSUME JInv, NEW w \in Worker, at[w] \in {"stream", "chunk"}, NEW to \in {"last", "thrown"},
         LastItem(w, to), StillSignalled,
         status' \in [Event -> Status], signal' \in [Event -> {"none", "clear", "set"}]
  PROVE  JInv'
<1> USE DEF procVars, loopVars, histVars, limitVars, bounds, Counted
<1>1. TypeOK /\ CallTypes /\ HandsFull /\ TasksDistinct /\ SlotsShared /\ CallsRight
  BY TypesSplit DEF JInv
<1>2. /\ mine[w] \in Event /\ pile' = pile \ {mine[w]}
      /\ UNCHANGED <<pending, bounds, ready, running, procVars, loopVars, histVars, limitVars>>
  BY <1>1 DEF LastItem, CallsRight, OwnEvents, Active
<1>3. HandsFull' /\ TasksDistinct'
  BY <1>1, <1>2 DEF HandsFull, InHandOrAsleep, TasksDistinct
<1>4. CASE mine[w] \in pile
  <2>1. at' = [at EXCEPT ![w] = to] /\ UNCHANGED <<mine, outcome, sem>>
    BY <1>4 DEF LastItem
  <2>2. TypeOK' /\ CallTypes'
    BY <1>1, <1>2, <2>1 DEF TypeOK, CallTypes, Place
  <2>3. Streaming' = Streaming /\ Active' = Active
    BY <1>1, <2>1 DEF Streaming, Active, CallTypes
  <2>4. SlotsShared'
    BY <1>1, <1>2, <2>1, <2>3, SlotsStay
  <2>5. OwnEvents'
    BY <1>1, <2>1, <2>3 DEF CallsRight, OwnEvents
  <2>6. PopFinds'
    BY <1>1, <1>2, <2>1 DEF CallsRight, OwnEvents, Active, PopFinds, CallTypes
  <2>7. Signalled'
    BY <1>1, <2>1 DEF StillSignalled, Signalled, CallTypes
  <2> QED
    BY <1>3, <2>2, <2>4, <2>5, <2>6, <2>7, TypesSplit DEF JInv, CallsRight
<1>5. CASE mine[w] \notin pile
  <2>1. FreeSlot /\ Return(w, mine[w], "error")
    BY <1>5 DEF LastItem
  <2>2. /\ at' \in [Worker -> Place]
        /\ mine' \in [Worker -> Event \union {NoEvent}]
        /\ outcome' \in [Event -> {"none", "error"} \union Status]
        /\ at'[w] = "out"
        /\ \A v \in Worker \ {w} : at'[v] = at[v] /\ mine'[v] = mine[v]
    BY <1>1, <1>2, <2>1, ReturnTypes
  <2>3. sem' \in Nat /\ SlotsShared'
    BY <1>1, <1>2, <2>1, <2>2, SlotFreed DEF Streaming, TypeOK
  <2>4. TypeOK' /\ CallTypes'
    BY <1>1, <1>2, <2>2, <2>3 DEF TypeOK, CallTypes
  <2>5. OwnEvents' /\ PopFinds'
    BY <1>1, <1>2, <1>5, <2>2 DEF CallsRight, OwnEvents, Active, PopFinds
  <2>6. Signalled'
    BY <2>2 DEF StillSignalled, Signalled
  <2> QED
    BY <1>3, <2>3, <2>4, <2>5, <2>6, TypesSplit DEF JInv, CallsRight
<1> QED
  BY <1>4, <1>5

LEMMA StreamEndKeeps ==
  ASSUME JInv, NEW w \in Worker, StreamEnd(w) \/ StreamThrow(w)
  PROVE  JInv'
<1>1. TypeOK /\ OwnEvents /\ Signalled
  BY TypesSplit DEF JInv, CallsRight
<1>2. /\ at[w] \in {"stream", "chunk"} /\ mine[w] \in Event
      /\ LastItem(w, "last") \/ LastItem(w, "thrown")
  BY <1>1 DEF StreamEnd, StreamThrow, OwnEvents, Active
<1>3. /\ StillSignalled /\ status' \in [Event -> Status]
      /\ signal' \in [Event -> {"none", "clear", "set"}]
  <2>1. CASE UNCHANGED <<status, signal>>
    BY <1>1, <2>1 DEF StillSignalled, Signalled, TypeOK
  <2>2. ASSUME NEW s \in Terminal, SetStatus(mine[w], s)
        PROVE  /\ StillSignalled /\ status' \in [Event -> Status]
               /\ signal' \in [Event -> {"none", "clear", "set"}]
    <3>1. s \in Status
      BY DEF Status
    <3> QED
      BY <1>1, <1>2, <2>2, <3>1, SignalledKept, StatusSet
  <2> QED
    BY <2>1, <2>2 DEF StreamEnd, StreamThrow
<1> QED
  BY <1>2, <1>3, LastItemKeeps

\* The generator ends and frees the slot.
LEMMA StreamExitKeeps ==
  ASSUME JInv, NEW w \in Worker, StreamExit(w)
  PROVE  JInv'
<1> USE DEF procVars, loopVars, histVars, limitVars, bounds, Counted
<1>1. TypeOK /\ CallTypes /\ HandsFull /\ TasksDistinct /\ SlotsShared /\ CallsRight
  BY TypesSplit DEF JInv
<1>2. /\ at[w] \in {"last", "thrown"} /\ mine[w] \in Event /\ status[mine[w]] \in Status
      /\ FreeSlot /\ Return(w, mine[w], status[mine[w]])
      /\ UNCHANGED <<pile, pending, bounds, ready, running, status, signal,
                     procVars, loopVars, histVars, limitVars>>
  BY <1>1 DEF StreamExit, CallsRight, OwnEvents, Active, TypeOK
<1>3. /\ at' \in [Worker -> Place]
      /\ mine' \in [Worker -> Event \union {NoEvent}]
      /\ outcome' \in [Event -> {"none", "error"} \union Status]
      /\ at'[w] = "out"
      /\ \A v \in Worker \ {w} : at'[v] = at[v] /\ mine'[v] = mine[v]
  BY <1>1, <1>2, ReturnTypes
<1>4. sem' \in Nat /\ SlotsShared'
  BY <1>1, <1>2, <1>3, SlotFreed DEF Streaming, TypeOK
<1>5. TypeOK' /\ HandsFull' /\ TasksDistinct'
  BY <1>1, <1>2, <1>4 DEF TypeOK, HandsFull, InHandOrAsleep, TasksDistinct
<1>6. CallTypes'
  BY <1>1, <1>2, <1>3 DEF CallTypes
<1>7. CallsRight'
  BY <1>1, <1>2, <1>3, CallReturns
<1> QED
  BY <1>4, <1>5, <1>6, <1>7, TypesSplit DEF JInv

-----------------------------------------------------------------------------
(* close(), the replenisher, and all steps together.                       *)

LEMMA ServiceKeeps ==
  ASSUME JInv, Close \/ (Replenish /\ UNCHANGED callVars) \/ UNCHANGED allVars
  PROVE  JInv'
<1> USE DEF vars, procVars, taskVars, loopVars, histVars, limitVars, callVars, bounds, Counted
<1>1. TypeOK /\ CallTypes /\ HandsFull /\ TasksDistinct
  BY TypesSplit DEF JInv
<1>2. /\ UNCHANGED <<sem, running, status, signal, pile, pending, at, mine, outcome>>
      /\ TypeOK' /\ HandsFull' /\ TasksDistinct'
  BY <1>1 DEF Close, Stop, Replenish, allVars, TypeOK, HandsFull, InHandOrAsleep, TasksDistinct
<1>3. total' \in Nat /\ borrowers' \in SUBSET Worker /\ passed' \in SUBSET Worker
  BY <1>1, RateLimitAssumption DEF Close, Replenish, allVars, CallTypes
<1>4. Counted'
  BY <1>1, IModelAssumption DEF Close, Replenish, allVars, CallTypes
<1> QED
  BY <1>2, <1>3, <1>4, QuietStep

LEMMA NextJInv == JInv /\ [INext]_allVars => JInv'
<1> SUFFICES ASSUME JInv, [INext]_allVars PROVE JInv'
  OBVIOUS
<1>1. ASSUME NEW w \in Worker, NEW e \in Event, Invoke(w, e) \/ Stream(w, e) PROVE JInv'
  BY <1>1, InvokeKeeps, StreamKeeps
<1>2. ASSUME NEW w \in Worker, CallStep(w) \/ CancelCall(w) PROVE JInv'
  <2>1. CASE EndBatch(w)
    BY <2>1, EndBatchKeeps
  <2>2. CASE Woken(w) \/ TimedOut(w)
    <3>1. Counted'
      BY <2>2, TypesSplit DEF JInv, CallTypes, Counted, Woken, TimedOut, bounds
    <3> QED
      BY <2>2, <3>1, WaitEnds DEF Woken, TimedOut
  <2>3. CASE StreamBegin(w)
    BY <2>3, StreamBeginKeeps
  <2>4. CASE CancelCall(w)
    BY <2>4, CancelCallKeeps
  <2> QED
    BY <1>2, <2>1, <2>2, <2>3, <2>4 DEF CallStep
<1>7. ASSUME NEW w \in Worker, StreamStep(w) PROVE JInv'
  BY <1>7, StreamItemKeeps, StreamEndKeeps, StreamExitKeeps DEF StreamStep
<1>3. ASSUME NEW w \in Worker, ProcessStep(w), UNCHANGED callVars PROVE JInv'
  BY <1>3, ProcessStepKeeps
<1>4. CASE BeginTask /\ UNCHANGED <<callVars, limitVars>>
  BY <1>4, BeginKeeps, CancelReadyKeeps DEF BeginTask
<1>5. CASE FinishTask /\ UNCHANGED <<callVars, limitVars>>
  BY <1>5, FinishKeeps, CancelRunningKeeps DEF FinishTask
<1>6. CASE Close \/ (Replenish /\ UNCHANGED callVars) \/ UNCHANGED allVars
  BY <1>6, ServiceKeeps
<1> QED
  BY <1>1, <1>2, <1>3, <1>4, <1>5, <1>6, <1>7 DEF INext

LEMMA CallInvariance == ISpec => []JInv
BY InitJInv, NextJInv, PTL DEF ISpec

\* The variables of the calls, the limiters and the processor keep their types.
THEOREM CallTypeCorrect == ISpec => []ITypeOK
<1>1. JInv => ITypeOK
  BY DEF JInv
<1> QED
  BY <1>1, CallInvariance, PTL

\* Batches and streams share the semaphore of the processor: no slot is counted
\* twice, and none is lost but to a generator that has not ended, however the
\* events, the streams and the batches end, and whoever is cancelled.
THEOREM SlotsAreConserved == ISpec => []SlotsConserved
<1>1. JInv => SlotsConserved
  BY DEF JInv, SlotsShared
<1> QED
  BY <1>1, CallInvariance, PTL

\* The event that a call in progress created is in the executor's pile: the pop()
\* with which invoke() and stream() end finds it, whatever other calls popped.
THEOREM FinalPopFinds == ISpec => []PopFinds
<1>1. JInv => PopFinds
  BY DEF JInv, CallsRight
<1> QED
  BY <1>1, CallInvariance, PTL

\* The completion event that invoke() creates when its own batch left the event
\* unfinished misses no terminal status, whichever task sets it.
THEOREM NoWakeupIsLost == ISpec => []NoLostWakeup
<1>1. JInv => NoLostWakeup
  BY DEF JInv, CallsRight, Signalled, NoLostWakeup
<1> QED
  BY <1>1, CallInvariance, PTL

\* With streams beside the batches, too, at most concurrency_limit events are run at once.
THEOREM StreamsKeepTheLimit == ISpec => []ConcurrencyBound
<1>1. JInv => ConcurrencyBound
  BY StreamingFinite, FS_CardinalityType, ProcessorAssumption
     DEF JInv, ITypeOK, TypeOK, SlotsShared, SlotsConserved, ConcurrencyBound
<1> QED
  BY <1>1, CallInvariance, PTL

-----------------------------------------------------------------------------
(* Uncrowded: each call runs its own event, once, in its own batch, until  *)
(* a call is cancelled.  What the pile keeps does not depend on that.      *)

\* The pile holds the events of the calls in progress and of those that failed.
PileKept ==
  /\ pile = {mine[w] : w \in Active} \union {e \in Event : outcome[e] = "error"}
  /\ pending = <<>>
  /\ \A w \in Worker : at[w] \in {"out", "batch", "wait"}

\* Nothing is left over between two calls.
NothingLeft ==
  /\ queue = <<>> /\ pending = <<>>
  /\ passed = {}
  /\ pile = {mine[w] : w \in Active}
  /\ \A w \in Worker : ~abort[w]

\* A call asks for its event, which is new, or waits for the task that runs it.
OwnBatch(w) ==
  /\ at[w] \in {"out", "batch"}
  /\ at[w] = "out" => pc[w] = "idle"
  /\ at[w] = "batch" => /\ pc[w] \in {"asking", "joining"}
                        /\ outcome[mine[w]] = "none"
  /\ pc[w] = "asking" => next[w] = mine[w] /\ admits[mine[w]] = 0
  /\ pc[w] = "joining" => admitted[w] /\ (TasksOf(w) = {} => status[mine[w]] \in Terminal)

\* Tasks run the events of calls in progress.
OwnTasks == \A t \in ready \union running : at[t[1]] = "batch" /\ t[2] = mine[t[1]]
                                            /\ pc[t[1]] = "joining"

\* An event that no call has had was not started.
NewUntouched ==
  \A e \in Event : outcome[e] = "none" /\ (\A w \in Active : mine[w] # e) => admits[e] = 0

\* The batches that have started their event are all that the capacity lacks.
Joining == {w \in Worker : pc[w] = "joining"}
CapacityLeft == capacity + Cardinality(Joining) >= QueueCapacity

OnceEach == \A e \in Event : admits[e] <= 1

UInv ==
  /\ NothingLeft
  /\ \A w \in Worker : OwnBatch(w)
  /\ OwnTasks
  /\ NewUntouched
  /\ CapacityLeft
  /\ OnceEach

LEMMA InitUInv == IInit => UInv
<1> SUFFICES ASSUME IInit PROVE UInv
  OBVIOUS
<1> USE DEF IInit, Init, LimitInit, CallInit
<1>1. Active = {} /\ Joining = {}
  BY DEF Active, Joining
<1>2. NothingLeft
  BY <1>1 DEF NothingLeft
<1>3. (\A w \in Worker : OwnBatch(w)) /\ OwnTasks
  BY DEF OwnBatch, OwnTasks
<1>4. NewUntouched /\ OnceEach
  BY DEF NewUntouched, OnceEach
<1>5. CapacityLeft
  BY <1>1, FS_EmptySet, ProcessorAssumption DEF CapacityLeft
<1> QED
  BY <1>2, <1>3, <1>4, <1>5 DEF UInv

\* What follows from being uncrowded: nobody suspends while asking, all events are
\* invoked, and no borrowed token lets a permission fail.
LEMMA UncrowdedFacts ==
  ASSUME Uncrowded
  PROVE  /\ ~AskSuspends /\ Streamed = {} /\ Given = {} /\ Hooked /\ LimitRequests = 0 /\ LimitTokens = 0
         /\ IsFiniteSet(Worker) /\ Cardinality(Worker) \in Nat
         /\ Cardinality(Worker) <= QueueCapacity /\ QueueCapacity \in Nat
BY ProcessorAssumption, RateLimitAssumption, FS_CardinalityType DEF Uncrowded, NoLimits

LEMMA JoiningFinite == IsFiniteSet(Joining) /\ Cardinality(Joining) \in Nat
BY FS_Subset, FS_CardinalityType, ProcessorAssumption DEF Joining

\* A worker that is in no batch finds capacity left.
LEMMA CapacityForOne ==
  ASSUME Uncrowded, TypeOK, CapacityLeft, NEW w \in Worker, w \notin Joining
  PROVE  capacity > 0
<1>1. Joining \subseteq Worker \ {w}
  BY DEF Joining
<1>2. IsFiniteSet(Worker \ {w}) /\ Cardinality(Worker \ {w}) = Cardinality(Worker) - 1
  BY FS_RemoveElement, UncrowdedFacts
<1>3. Cardinality(Joining) <= Cardinality(Worker) - 1
  BY <1>1, <1>2, FS_Subset
<1> QED
  BY <1>3, UncrowdedFacts, JoiningFinite DEF CapacityLeft, TypeOK

\* One event is forwarded, and taken by the worker that forwarded it.
LEMMA OneForwarded ==
  ASSUME NEW e \in Event, NEW n \in Nat, Forwarded(<<e>>, e, n), n <= 1
  PROVE  n = 1 /\ <<>> \o SubSeq(<<e>>, 1, n) = <<e>>
<1>1. n = 1
  BY DEF Forwarded
<1>2. SubSeq(<<e>>, 1, 1) = <<e>>
  <2>1. <<e>> \in Seq(Event) /\ Len(<<e>>) = 1
    OBVIOUS
  <2> QED
    BY <2>1, SubSeqFull
<1> QED
  BY <1>1, <1>2

LEMMA InvokeUncrowded ==
  ASSUME Uncrowded, JInv, UInv, NEW w \in Worker, NEW e \in Event, Invoke(w, e)
  PROVE  UInv'
<1> USE DEF taskVars
<1>1. TypeOK /\ CallTypes /\ OwnEvents
  BY TypesSplit DEF JInv, CallsRight
<1>2. /\ at[w] = "out" /\ pc[w] = "idle" /\ w \notin Joining
      /\ \A v \in Worker : pc[v] # "asking"
      /\ outcome[e] = "none" /\ \A v \in Worker : mine[v] # e
  BY UncrowdedFacts DEF UInv, OwnBatch, Joining, Invoke, Idle, IsGiven, Creates, Fresh
<1>3. Appended(e) = <<e>> /\ Len(<<e>>) = 1 /\ queue = <<>>
  BY DEF UInv, NothingLeft, Appended
<1>4. PICK n \in 0..1 : Forwarded(<<e>>, e, n) /\ Forward(w, e, <<e>>, n)
  BY <1>3 DEF Invoke
<1>5. n = 1 /\ <<>> \o SubSeq(<<e>>, 1, n) = <<e>>
  BY <1>4, OneForwarded
<1>6. /\ pending' = <<>> /\ StartBatch(w, <<e>>)
      /\ at' = [at EXCEPT ![w] = "batch"] /\ mine' = [mine EXCEPT ![w] = e]
      /\ outcome' = outcome
  BY <1>3, <1>4, <1>5 DEF Forward
<1>7. /\ pc' = [pc EXCEPT ![w] = "asking"] /\ next' = [next EXCEPT ![w] = e]
      /\ queue' = <<>> /\ capacity' = capacity /\ abort' = abort
      /\ admitted' = [admitted EXCEPT ![w] = FALSE]
  <2>1. capacity > 0
    BY <1>1, <1>2, CapacityForOne DEF UInv
  <2>2. Head(<<e>>) = e /\ Tail(<<e>>) = <<>> /\ <<e>> # <<>>
    OBVIOUS
  <2>3. Take(w, <<e>>)
    BY <1>1, <1>6, <2>1, <2>2 DEF StartBatch, Turn, Exhausted, StillPending, TypeOK
  <2> QED
    BY <1>6, <2>2, <2>3 DEF StartBatch, Take, Suspend
<1>8. /\ pile' = pile \union {e} /\ UNCHANGED <<taskVars, admits, passed>>
  BY DEF Invoke, limitVars
<1>9. Active' = Active \union {w} /\ w \notin Active
  BY <1>1, <1>2, <1>6 DEF Active, CallTypes
<1>10. NothingLeft'
  <2>1. pile' = {mine'[v] : v \in Active'}
    BY <1>1, <1>6, <1>8, <1>9 DEF UInv, NothingLeft, CallTypes, Active
  <2> QED
    BY <1>6, <1>7, <1>8, <2>1 DEF UInv, NothingLeft
<1>11. admits[e] = 0
  BY <1>2 DEF UInv, NewUntouched, Active
<1>12. ASSUME NEW v \in Worker PROVE OwnBatch(v)'
  <2>1. CASE v = w
    BY <1>1, <1>2, <1>6, <1>7, <1>8, <1>11, <2>1 DEF OwnBatch, TypeOK, CallTypes
  <2>2. CASE v # w
    <3>1. at'[v] = at[v] /\ mine'[v] = mine[v] /\ pc'[v] = pc[v] /\ next'[v] = next[v]
          /\ admitted'[v] = admitted[v]
      BY <1>1, <1>6, <1>7, <2>2 DEF TypeOK, CallTypes
    <3>2. OwnBatch(v) /\ TasksOf(v)' = TasksOf(v)
      BY <1>8 DEF UInv, TasksOf
    <3> QED
      BY <1>6, <1>8, <3>1, <3>2 DEF OwnBatch
  <2> QED
    BY <2>1, <2>2
<1>13. OwnTasks'
  <2> SUFFICES ASSUME NEW t \in ready \union running
               PROVE  at'[t[1]] = "batch" /\ t[2] = mine'[t[1]] /\ pc'[t[1]] = "joining"
    BY <1>8 DEF OwnTasks
  <2>1. at[t[1]] = "batch" /\ t[2] = mine[t[1]] /\ pc[t[1]] = "joining" /\ t[1] \in Worker
    BY <1>1 DEF UInv, OwnTasks, TypeOK, Task
  <2>2. t[1] # w
    BY <1>2, <2>1
  <2> QED
    BY <1>1, <1>6, <1>7, <2>1, <2>2 DEF TypeOK, CallTypes
<1>14. NewUntouched' /\ OnceEach'
  BY <1>1, <1>6, <1>8, <1>9 DEF UInv, NewUntouched, OnceEach, CallTypes, Active
<1>15. CapacityLeft'
  <2>1. Joining' = Joining
    BY <1>1, <1>2, <1>7 DEF Joining, TypeOK
  <2> QED
    BY <1>7, <2>1 DEF UInv, CapacityLeft
<1> QED
  BY <1>10, <1>12, <1>13, <1>14, <1>15 DEF UInv

\* A worker that asks is permitted, since nothing is queued: its task is started.
LEMMA AnswerUncrowded ==
  ASSUME Uncrowded, JInv, UInv, NEW w \in Worker, AnswerByQueue(w), UNCHANGED callVars
  PROVE  UInv'
<1> DEFINE e == mine[w]
           t == <<w, e, admits[e] + 1>>
<1>1. TypeOK /\ CallTypes /\ OwnEvents /\ HandsFull
  BY TypesSplit DEF JInv, CallsRight
<1>2. Answer(w, TRUE) /\ pc[w] = "asking" /\ queue = <<>> /\ UNCHANGED <<limitVars, callVars>>
  <2>1. queue = <<>> /\ (Len(queue) < QueueCapacity) = TRUE
    BY ProcessorAssumption DEF UInv, NothingLeft
  <2>2. Answer(w, Len(queue) < QueueCapacity) /\ UNCHANGED <<limitVars, callVars>>
    BY DEF AnswerByQueue
  <2>3. pc[w] = "asking"
    BY <2>2 DEF Answer
  <2> QED
    BY <2>1, <2>2, <2>3
<1>3. /\ next[w] = e /\ admits[e] = 0 /\ at[w] = "batch" /\ e \in Event /\ w \notin Joining
      /\ outcome[e] = "none"
  BY <1>1, <1>2 DEF UInv, OwnBatch, Joining, OwnEvents, Active
<1>4. /\ ready' = ready \union {t} /\ running' = running /\ status' = status
      /\ admits' = [admits EXCEPT ![e] = @ + 1]
      /\ admitted' = [admitted EXCEPT ![w] = TRUE]
      /\ abort' = abort /\ capacity' = capacity - 1
      /\ pc' = [pc EXCEPT ![w] = "joining"] /\ queue' = <<>>
  <2>1. Grant(w) /\ Advance(w)
    BY <1>2 DEF Answer
  <2>2. Leave(w, <<>>)
    BY <1>2, <2>1 DEF Advance, Turn, Exhausted
  <2> QED
    BY <1>2, <1>3, <2>1, <2>2 DEF Grant, Advance, Leave, Suspend
<1>5. UNCHANGED <<at, mine, outcome, pile, pending, passed>> /\ Active' = Active
  BY <1>2 DEF limitVars, callVars, Active
<1>6. NothingLeft'
  BY <1>4, <1>5 DEF UInv, NothingLeft
<1>7. ASSUME NEW v \in Worker PROVE OwnBatch(v)'
  <2>1. CASE v = w
    <3>1. pc'[w] = "joining" /\ admitted'[w]
      BY <1>1, <1>4 DEF TypeOK
    <3>2. t \in TasksOf(w)'
      BY <1>4 DEF TasksOf
    <3> QED
      BY <1>3, <1>5, <2>1, <3>1, <3>2 DEF OwnBatch
  <2>2. CASE v # w
    <3>1. OwnBatch(v) /\ TasksOf(v)' = TasksOf(v)
      BY <1>4, <2>2 DEF UInv, TasksOf
    <3>2. pc'[v] = pc[v] /\ next'[v] = next[v] /\ admitted'[v] = admitted[v]
      <4>1. next' = [next EXCEPT ![w] = NoEvent]
        BY <1>2 DEF Answer, Advance, Turn, Exhausted, Leave, Suspend
      <4> QED
        BY <1>1, <1>4, <2>2, <4>1 DEF TypeOK
    <3>3. pc[v] = "asking" => mine[v] \in Event /\ mine[v] # e
      BY <1>3, <2>2, <1>1, <3>1, UncrowdedFacts DEF OwnBatch, OwnEvents, Active
    <3> QED
      BY <1>1, <1>4, <1>5, <3>1, <3>2, <3>3 DEF OwnBatch, TypeOK
  <2> QED
    BY <2>1, <2>2
<1>8. OwnTasks'
  <2>1. \A u \in ready' \union running' : u = t \/ u \in ready \union running
    BY <1>4
  <2>2. pc'[w] = "joining" /\ t[1] = w /\ t[2] = mine[w]
    BY <1>1, <1>4 DEF TypeOK
  <2>3. \A u \in ready \union running : pc'[u[1]] = "joining"
    BY <1>1, <1>2, <1>4 DEF UInv, OwnTasks, TypeOK, Task
  <2> QED
    BY <1>3, <1>5, <2>1, <2>2, <2>3 DEF UInv, OwnTasks
<1>9. NewUntouched' /\ OnceEach'
  BY <1>1, <1>3, <1>4, <1>5 DEF UInv, NewUntouched, OnceEach, TypeOK, Active
<1>10. CapacityLeft'
  <2>1. Joining' = Joining \union {w}
    BY <1>1, <1>4 DEF Joining, TypeOK
  <2>2. Cardinality(Joining') = Cardinality(Joining) + 1
    BY <1>3, <2>1, JoiningFinite, FS_AddElement
  <2> QED
    BY <1>1, <1>4, <2>2, JoiningFinite, UncrowdedFacts DEF UInv, CapacityLeft, TypeOK
<1> QED
  BY <1>6, <1>7, <1>8, <1>9, <1>10 DEF UInv

\* Nobody sleeps, borrows or has borrowed.
LEMMA OthersNeverAsk ==
  ASSUME Uncrowded, UInv, NEW w \in Worker, ProcessStep(w)
  PROVE  AnswerByQueue(w)
<1>1. ~Wake(w)
  BY DEF UInv, OwnBatch, Wake
<1>2. ~AnswerByBudget(w)
  BY DEF AnswerByBudget, Uncrowded
<1>3. ~Borrow(w) /\ ~Reborrow(w)
  BY UncrowdedFacts DEF Borrow, Reborrow
<1>4. ~Pass(w) /\ ~CancelAsk(w)
  BY DEF Pass, CancelAsk, CancelBody, UInv, NothingLeft
<1> QED
  BY <1>1, <1>2, <1>3, <1>4 DEF ProcessStep, Permission

\* Steps of tasks leave what concerns the calls, but for the status of events
\* whose tasks are over.
LEMMA TasksUncrowded ==
  ASSUME Uncrowded, UInv, TypeOK,
         UNCHANGED <<queue, capacity, pc, next, admitted, abort, admits, callVars, limitVars>>,
         NEW t \in ready \union running,
         ready' \union running' \subseteq ready \union running,
         (ready \union running) \ {t} \subseteq ready' \union running',
         t \in ready' \union running' \/ status'[t[2]] \in Terminal,
         \A e \in Event \ {t[2]} : status'[e] = status[e],
         OwnEvents
  PROVE  UInv'
<1> USE DEF callVars, limitVars
<1>1. NothingLeft' /\ NewUntouched' /\ CapacityLeft' /\ OnceEach'
  BY DEF UInv, NothingLeft, NewUntouched, CapacityLeft, OnceEach, Active, Joining
<1>2. OwnTasks'
  BY DEF UInv, OwnTasks
<1>3. ASSUME NEW w \in Worker PROVE OwnBatch(w)'
  <2>1. at[t[1]] = "batch" /\ t[2] = mine[t[1]] /\ t[1] \in Worker
    BY DEF UInv, OwnTasks, TypeOK, Task
  <2>2. ASSUME pc[w] = "joining", TasksOf(w)' = {} PROVE status'[mine[w]] \in Terminal
    <3>1. CASE w = t[1]
      BY <2>1, <2>2, <3>1 DEF TasksOf
    <3>2. CASE w # t[1]
      <4>1. TasksOf(w) = {}
        BY <2>2, <3>2 DEF TasksOf
      <4>2. at[w] = "batch" /\ status[mine[w]] \in Terminal
        BY <2>2, <4>1 DEF UInv, OwnBatch
      <4>3. mine[w] \in Event /\ mine[w] # t[2]
        BY <2>1, <3>2, <4>2, UncrowdedFacts DEF OwnEvents, Active
      <4> QED
        BY <4>2, <4>3
    <3> QED
      BY <3>1, <3>2
  <2>3. OwnBatch(w)
    BY DEF UInv
  <2> QED
    BY <2>2, <2>3 DEF OwnBatch
<1> QED
  BY <1>1, <1>2, <1>3 DEF UInv

LEMMA BeginUncrowded ==
  ASSUME Uncrowded, JInv, UInv, NEW t \in ready, Begin(t), UNCHANGED <<callVars, limitVars>>
  PROVE  UInv'
<1>1. TypeOK /\ OwnEvents /\ TasksDistinct
  BY TypesSplit DEF JInv, CallsRight
<1>2. /\ ready' = ready \ {t} /\ running' = running \union {t}
      /\ status' = [status EXCEPT ![t[2]] = "processing"]
      /\ UNCHANGED <<queue, capacity, pc, next, admitted, abort, admits>>
  BY RateLimitAssumption DEF Begin, Skips, procVars, histVars
<1> QED
  BY <1>1, <1>2, TasksUncrowded DEF TypeOK

LEMMA FinishUncrowded ==
  ASSUME Uncrowded, JInv, UInv, NEW t \in running, NEW s \in Outcomes, Finish(t, s),
         UNCHANGED <<callVars, limitVars>>
  PROVE  UInv'
<1>1. TypeOK /\ OwnEvents /\ TasksDistinct
  BY TypesSplit DEF JInv, CallsRight
<1>2. /\ ready' = ready /\ running' = running \ {t}
      /\ status' = [status EXCEPT ![t[2]] = s] /\ s \in Terminal
      /\ UNCHANGED <<queue, capacity, pc, next, admitted, admits>>
  BY RateLimitAssumption DEF Finish, LeaveSlot, SetStatus, Outcomes
<1>3. abort' = abort
  <2>1. abort' = [abort EXCEPT ![t[1]] = abort[t[1]] \/ (~Hooked /\ s = "failed")]
    BY DEF Finish
  <2>2. abort \in [Worker -> BOOLEAN] /\ t[1] \in Worker /\ Hooked
    BY <1>1, RateLimitAssumption DEF TypeOK, Task
  <2>3. (abort[t[1]] \/ (~Hooked /\ s = "failed")) = abort[t[1]]
    BY <2>2
  <2> QED
    BY <2>1, <2>2, <2>3
<1>4. t[2] \in Event
  BY <1>1 DEF TypeOK, Task
<1> QED
  BY <1>1, <1>2, <1>3, <1>4, TasksUncrowded DEF TypeOK

\* No batch is cancelled.
LEMMA NoneCancelled ==
  ASSUME UInv, TypeOK, NEW t \in ready \union running
  PROVE  ~CancelReady(t) /\ ~CancelRunning(t)
<1>1. t[1] \in Worker
  BY DEF TypeOK, Task
<1> QED
  BY <1>1 DEF UInv, NothingLeft, CancelReady, CancelRunning

\* The batch is over: its task has run the event, and the call returns it.
LEMMA EndUncrowded ==
  ASSUME Uncrowded, JInv, UInv, NEW w \in Worker, EndBatch(w)
  PROVE  UInv'
<1>1. TypeOK /\ CallTypes /\ OwnEvents
  BY TypesSplit DEF JInv, CallsRight
<1>2. /\ at[w] = "batch" /\ pc[w] = "joining" /\ TasksOf(w) = {} /\ admitted[w] /\ ~abort[w]
      /\ status[mine[w]] \in Terminal /\ mine[w] \in Event /\ mine[w] \in pile
      /\ outcome[mine[w]] = "none"
  BY <1>1, UncrowdedFacts
     DEF EndBatch, JoinBatch, BatchOver, UInv, OwnBatch, NothingLeft, OwnEvents, Active
<1>3. /\ pile' = pile \ {mine[w]}
      /\ at' = [at EXCEPT ![w] = "out"] /\ mine' = [mine EXCEPT ![w] = NoEvent]
      /\ outcome' = [outcome EXCEPT ![mine[w]] = status[mine[w]]]
      /\ pc' = [pc EXCEPT ![w] = "idle"] /\ capacity' = QueueCapacity
      /\ abort' = [abort EXCEPT ![w] = FALSE]
      /\ UNCHANGED <<queue, next, admitted, pending, ready, running, status, admits, passed>>
  BY <1>2 DEF EndBatch, JoinBatch, Refilled, PopAndReturn, Return, histVars, limitVars
<1>4. Active' = Active \ {w}
  BY <1>1, <1>3 DEF Active, CallTypes
<1>5. NothingLeft'
  <2>1. pile' = {mine'[v] : v \in Active'}
    BY <1>1, <1>2, <1>3, <1>4, UncrowdedFacts
       DEF UInv, NothingLeft, OwnEvents, Active, CallTypes
  <2> QED
    BY <1>1, <1>3, <2>1 DEF UInv, NothingLeft, TypeOK
<1>6. ASSUME NEW v \in Worker PROVE OwnBatch(v)'
  <2>1. CASE v = w
    BY <1>1, <1>3, <2>1 DEF OwnBatch, TypeOK, CallTypes
  <2>2. CASE v # w
    <3>1. at'[v] = at[v] /\ mine'[v] = mine[v] /\ pc'[v] = pc[v]
      BY <1>1, <1>3, <2>2 DEF TypeOK, CallTypes
    <3>2. OwnBatch(v) /\ TasksOf(v)' = TasksOf(v)
      BY <1>3 DEF UInv, TasksOf
    <3>3. at[v] = "batch" => mine[v] \in Event /\ mine[v] # mine[w]
      BY <1>1, <1>2, <2>2, UncrowdedFacts DEF OwnEvents, Active
    <3> QED
      BY <1>1, <1>3, <3>1, <3>2, <3>3 DEF OwnBatch, CallTypes
  <2> QED
    BY <2>1, <2>2
<1>7. OwnTasks'
  <2> SUFFICES ASSUME NEW t \in ready \union running
               PROVE  at'[t[1]] = "batch" /\ t[2] = mine'[t[1]] /\ pc'[t[1]] = "joining"
    BY <1>3 DEF OwnTasks
  <2>1. at[t[1]] = "batch" /\ t[2] = mine[t[1]] /\ pc[t[1]] = "joining" /\ t[1] \in Worker
    BY <1>1 DEF UInv, OwnTasks, TypeOK, Task
  <2>2. t[1] # w
    BY <1>2 DEF TasksOf
  <2> QED
    BY <1>1, <1>3, <2>1, <2>2 DEF TypeOK, CallTypes
<1>8. NewUntouched' /\ OnceEach'
  <2>1. \A e \in Event : outcome'[e] = "none" => outcome[e] = "none" /\ e # mine[w]
    BY <1>1, <1>2, <1>3 DEF CallTypes, Terminal
  <2>2. \A e \in Event : (\A v \in Active' : mine'[v] # e) /\ e # mine[w] => \A v \in Active : mine[v] # e
    BY <1>1, <1>3, <1>4 DEF CallTypes, Active
  <2> QED
    BY <1>3, <2>1, <2>2 DEF UInv, NewUntouched, OnceEach
<1>9. CapacityLeft'
  <2>1. IsFiniteSet(Joining') /\ Cardinality(Joining') \in Nat
    BY FS_Subset, FS_CardinalityType, ProcessorAssumption DEF Joining
  <2> QED
    BY <1>3, <2>1, UncrowdedFacts DEF CapacityLeft
<1> QED
  BY <1>5, <1>6, <1>7, <1>8, <1>9 DEF UInv

LEMMA NextUInv == Uncrowded /\ JInv /\ UInv /\ [INext]_allVars /\ cancels' = 0 => UInv'
<1> SUFFICES ASSUME Uncrowded, JInv, UInv, [INext]_allVars, cancels' = 0 PROVE UInv'
  OBVIOUS
<1>1. TypeOK /\ cancels \in Nat
  BY TypesSplit DEF JInv, CallTypes, Counted
<1>2. ASSUME NEW w \in Worker, NEW e \in Event, Invoke(w, e) \/ Stream(w, e) PROVE UInv'
  BY <1>2, InvokeUncrowded, UncrowdedFacts DEF Stream, IsGiven
<1>3. ASSUME NEW w \in Worker, CallStep(w) \/ StreamStep(w) PROVE UInv'
  <2>1. at[w] \in {"out", "batch"}
    BY DEF UInv, OwnBatch
  <2>2. EndBatch(w)
    BY <1>3, <2>1 DEF CallStep, StreamStep, TimedOut, Woken, StreamBegin, StreamItem, StreamEnd,
       StreamThrow, StreamExit
  <2> QED
    BY <2>2, EndUncrowded
<1>4. ASSUME NEW w \in Worker, ProcessStep(w), UNCHANGED callVars PROVE UInv'
  BY <1>4, OthersNeverAsk, AnswerUncrowded
<1>5. CASE BeginTask /\ UNCHANGED <<callVars, limitVars>>
  BY <1>1, <1>5, BeginUncrowded, NoneCancelled DEF BeginTask
<1>6. CASE FinishTask /\ UNCHANGED <<callVars, limitVars>>
  BY <1>1, <1>6, FinishUncrowded, NoneCancelled DEF FinishTask
<1>7. CASE Close \/ (Replenish /\ UNCHANGED callVars) \/ UNCHANGED allVars
  <2>1. /\ UNCHANGED <<vars, callVars, limitVars>> \/ Close
    BY <1>7, UncrowdedFacts DEF Replenish, allVars
  <2>2. /\ UNCHANGED <<procVars, taskVars, histVars, limitVars>>
        /\ UNCHANGED <<pile, pending, at, mine, outcome>>
    BY <2>1 DEF Close, Stop, vars, callVars
  <2>3. NothingLeft' /\ OwnTasks' /\ NewUntouched' /\ CapacityLeft' /\ OnceEach'
    BY <2>2 DEF UInv, NothingLeft, OwnTasks, NewUntouched, CapacityLeft, OnceEach, Active, Joining,
       procVars, taskVars, histVars, limitVars
  <2>4. \A w \in Worker : OwnBatch(w)'
    BY <2>2 DEF UInv, OwnBatch, TasksOf, procVars, taskVars, histVars
  <2> QED
    BY <2>3, <2>4 DEF UInv
<1>8. ASSUME NEW w \in Worker, CancelCall(w) PROVE FALSE
  BY <1>1, <1>8 DEF CancelCall
<1> QED
  BY <1>2, <1>3, <1>4, <1>5, <1>6, <1>7, <1>8 DEF INext

\* What the calls that return, raise or are cancelled leave in the pile.
LEMMA NextPileKept == Uncrowded /\ JInv /\ PileKept /\ [INext]_allVars => PileKept'
<1> SUFFICES ASSUME Uncrowded, JInv, PileKept, [INext]_allVars PROVE PileKept'
  OBVIOUS
<1>1. TypeOK /\ CallTypes /\ OwnEvents /\ PopFinds
  BY TypesSplit DEF JInv, CallsRight
<1>2. ASSUME NEW w \in Worker, NEW e \in Event, Invoke(w, e) PROVE PileKept'
  <2>1. at[w] = "out" /\ outcome[e] = "none" /\ \A v \in Worker : mine[v] # e
    BY <1>2, UncrowdedFacts DEF Invoke, IsGiven, Creates, Fresh
  <2>2. Appended(e) = <<e>> /\ Len(<<e>>) = 1
    BY DEF PileKept, Appended
  <2>3. PICK n \in 0..1 : Forwarded(<<e>>, e, n) /\ Forward(w, e, <<e>>, n)
    BY <1>2, <2>2 DEF Invoke
  <2>4. n = 1
    BY <2>3, OneForwarded
  <2>5. /\ pending' = <<>> /\ at' = [at EXCEPT ![w] = "batch"]
        /\ mine' = [mine EXCEPT ![w] = e] /\ outcome' = outcome /\ pile' = pile \union {e}
    BY <1>2, <2>2, <2>3, <2>4 DEF Forward, Invoke
  <2>6. Active' = Active \union {w} /\ w \notin Active
    BY <1>1, <2>1, <2>5 DEF Active, CallTypes
  <2> QED
    BY <1>1, <2>1, <2>5, <2>6 DEF PileKept, CallTypes, Active
<1>3. ASSUME NEW w \in Worker, at[w] # "out", pending' = pending,
             PopAndReturn(w) \/ (Return(w, mine[w], "error") /\ pile' = pile)
      PROVE  PileKept'
  <2>1. mine[w] \in pile /\ mine[w] \in Event
    BY <1>1, <1>3, UncrowdedFacts DEF OwnEvents, Active, PileKept
  <2>2. PICK result \in Status \union {"error"} :
          /\ at' = [at EXCEPT ![w] = "out"] /\ mine' = [mine EXCEPT ![w] = NoEvent]
          /\ outcome' = [outcome EXCEPT ![mine[w]] = result]
          /\ \/ result = "error" /\ pile' = pile
             \/ result # "error" /\ pile' = pile \ {mine[w]}
    BY <1>1, <1>3, <2>1 DEF PopAndReturn, Return, TypeOK, Status, Terminal
  <2>3. Active' = Active \ {w} /\ w \in Active
    BY <1>1, <1>3, <2>2 DEF Active, CallTypes
  <2>4. \A v \in Active' : mine'[v] = mine[v] /\ mine[v] # mine[w]
    BY <1>1, <2>2, <2>3, UncrowdedFacts DEF OwnEvents, CallTypes, Active
  <2>5. \A e \in Event : outcome'[e] = "error" <=>
                          IF e = mine[w] THEN result = "error" ELSE outcome[e] = "error"
    BY <1>1, <2>2 DEF CallTypes
  <2>6. pile = {mine[v] : v \in Active'} \union {mine[w]} \union {e \in Event : outcome[e] = "error"}
    BY <2>3 DEF PileKept
  <2>7. {mine'[v] : v \in Active'} = {mine[v] : v \in Active'}
    BY <2>4
  <2>8. pile' = {mine'[v] : v \in Active'} \union {e \in Event : outcome'[e] = "error"}
    BY <2>1, <2>2, <2>4, <2>5, <2>6, <2>7
  <2> QED
    BY <1>1, <1>3, <2>2, <2>8 DEF PileKept, CallTypes
<1>4. ASSUME UNCHANGED <<pile, pending, mine, outcome>>,
             at' = at \/ \E w \in Worker : at[w] = "batch" /\ at' = [at EXCEPT ![w] = "wait"]
      PROVE  PileKept'
  <2>1. Active' = Active /\ \A w \in Worker : at'[w] \in {"out", "batch", "wait"}
    BY <1>1, <1>4 DEF Active, CallTypes, PileKept
  <2> QED
    BY <1>4, <2>1 DEF PileKept
<1>5. ASSUME NEW w \in Worker, CallStep(w) \/ CancelCall(w) \/ StreamStep(w) PROVE PileKept'
  <2>1. CASE /\ PopAndReturn(w) \/ (Return(w, mine[w], "error") /\ pile' = pile)
             /\ at[w] # "out" /\ pending' = pending
    BY <1>3, <2>1
  <2>2. CASE EndBatch(w)
    BY <1>4, <2>1, <2>2 DEF EndBatch
  <2>3. CASE Woken(w) \/ TimedOut(w)
    BY <2>1, <2>3 DEF Woken, TimedOut
  <2>4. CASE CancelCall(w)
    BY <1>4, <2>1, <2>4 DEF CancelCall
  <2>5. at[w] \in {"out", "batch", "wait"}
    BY DEF PileKept
  <2>6. ~StreamBegin(w) /\ ~StreamStep(w)
    BY <2>5 DEF StreamBegin, StreamStep, StreamItem, StreamEnd, StreamThrow, StreamExit
  <2> QED
    BY <1>5, <2>2, <2>3, <2>4, <2>6 DEF CallStep
<1>6. ASSUME NEW w \in Worker, NEW e \in Event PROVE ~Stream(w, e)
  BY UncrowdedFacts DEF Stream, IsGiven
<1>7. CASE UNCHANGED <<pile, pending, at, mine, outcome>>
  BY <1>4, <1>7
<1> QED
  BY <1>2, <1>5, <1>6, <1>7 DEF INext, Close, Replenish, callVars, allVars

\* Until a call is cancelled, all of it holds; afterwards what the pile keeps.
CInv == PileKept /\ (cancels = 0 => UInv)

LEMMA InitCInv == IInit => CInv
<1> SUFFICES ASSUME IInit PROVE CInv
  OBVIOUS
<1>1. PileKept
  BY DEF IInit, CallInit, PileKept, Active
<1> QED
  BY <1>1, InitUInv DEF CInv

LEMMA NextCInv == Uncrowded /\ JInv /\ CInv /\ [INext]_allVars => CInv'
<1> SUFFICES ASSUME Uncrowded, JInv, CInv, [INext]_allVars PROVE CInv'
  OBVIOUS
<1>1. cancels' = 0 => cancels = 0
  <2>1. cancels \in Nat
    BY TypesSplit DEF JInv, CallTypes, Counted
  <2>2. cancels' = cancels \/ cancels' = cancels + 1
    BY DEF INext, Invoke, Stream, CallStep, StreamStep, CancelCall, Close, EndBatch, Woken, TimedOut,
       StreamBegin, StreamItem, StreamEnd, StreamThrow, LastItem, StreamExit, callVars, allVars, bounds
  <2> QED
    BY <2>1, <2>2
<1> QED
  BY <1>1, NextUInv, NextPileKept DEF CInv

LEMMA UncrowdedInvariance == Uncrowded => (ISpec => []CInv)
<1> SUFFICES ASSUME Uncrowded PROVE ISpec => []CInv
  OBVIOUS
<1>1. JInv /\ CInv /\ [INext]_allVars => CInv'
  BY NextCInv
<1> QED
  BY <1>1, InitCInv, CallInvariance, PTL DEF ISpec

\* With no more callers than queue_capacity, and until one is cancelled, no event
\* is handed to the endpoint twice.
THEOREM EventsRunOnce == Uncrowded => (ISpec => []AtMostOnce)
<1> SUFFICES ASSUME Uncrowded PROVE ISpec => []AtMostOnce
  OBVIOUS
<1>1. CInv => AtMostOnce
  BY DEF CInv, UInv, OnceEach, AtMostOnce
<1> QED
  BY <1>1, UncrowdedInvariance, PTL

\* Then a call's own batch also runs its event to the end: nobody waits for the
\* completion event, or for ten seconds in vain.
THEOREM OwnBatchIsEnough == Uncrowded => (ISpec => []OwnBatchSuffices)
<1> SUFFICES ASSUME Uncrowded PROVE ISpec => []OwnBatchSuffices
  OBVIOUS
<1>1. CInv => OwnBatchSuffices
  BY DEF CInv, UInv, OwnBatch, OwnBatchSuffices
<1> QED
  BY <1>1, UncrowdedInvariance, PTL

\* Of the calls that are over, the pile keeps the events of those that failed or
\* were cancelled, and of no others; nothing stays pending, and nothing is left
\* on the queue unless a call was cancelled.
THEOREM NothingElseIsLeft == Uncrowded => (ISpec => []NoResidue)
<1> SUFFICES ASSUME Uncrowded PROVE ISpec => []NoResidue
  OBVIOUS
<1>1. CInv => NoResidue
  BY DEF CInv, PileKept, UInv, NothingLeft, NoResidue, Active
<1> QED
  BY <1>1, UncrowdedInvariance, PTL

\* The status of an event changes only while the call that it belongs to is running.
LEMMA StatusOfOthers ==
  ASSUME Uncrowded, JInv, UInv, [INext]_allVars, NEW e \in Event, outcome[e] # "none"
  PROVE  status'[e] = status[e]
<1>1. TypeOK
  BY TypesSplit DEF JInv
<1>2. ASSUME NEW t \in ready \union running PROVE t[2] # e
  <2>1. t[1] \in Worker
    BY <1>1 DEF TypeOK, Task
  <2> QED
    BY <2>1 DEF UInv, OwnTasks, OwnBatch
<1>3. ASSUME NEW t \in ready, Begin(t) PROVE status'[e] = status[e]
  BY <1>1, <1>2, <1>3 DEF Begin, TypeOK
<1>4. ASSUME NEW t \in running, NEW s \in Outcomes, Finish(t, s) PROVE status'[e] = status[e]
  BY <1>1, <1>2, <1>4 DEF Finish, SetStatus, TypeOK
<1>5. ASSUME NEW w \in Worker, CallStep(w) \/ StreamStep(w) PROVE status' = status
  <2>1. at[w] \in {"out", "batch"}
    BY DEF UInv, OwnBatch
  <2>2. EndBatch(w)
    BY <1>5, <2>1 DEF CallStep, StreamStep, TimedOut, Woken, StreamBegin, StreamItem, StreamEnd,
       StreamThrow, StreamExit
  <2> QED
    BY <2>2 DEF EndBatch
<1>6. ASSUME NEW w \in Worker, ProcessStep(w) PROVE status' = status
  <2>1. AnswerByQueue(w)
    BY <1>6, OthersNeverAsk
  <2> QED
    BY <2>1 DEF AnswerByQueue, Answer, Advance
<1>7. ASSUME NEW w \in Worker, NEW x \in Event, Invoke(w, x) \/ Stream(w, x) PROVE status' = status
  BY <1>7 DEF Invoke, Stream, taskVars
<1>8. CASE Close \/ (Replenish /\ UNCHANGED callVars) \/ UNCHANGED allVars
  BY <1>8 DEF Close, Stop, Replenish, allVars, vars, taskVars
<1>9. ASSUME NEW w \in Worker, CancelCall(w) PROVE status' = status
  BY <1>9 DEF CancelCall, Cancel, vars, taskVars
<1> QED
  BY <1>1, <1>3, <1>4, <1>5, <1>6, <1>7, <1>8, <1>9, NoneCancelled DEF INext, BeginTask, FinishTask

\* Until a call is cancelled, what invoke() returned is final: no later batch
\* touches the event again.
THEOREM ResultsAreFinal == Uncrowded => (ISpec => ResultsFinal)
<1> SUFFICES ASSUME Uncrowded PROVE ISpec => ResultsFinal
  OBVIOUS
<1>1. JInv /\ CInv /\ [INext]_allVars =>
        [cancels = 0 => \A e \in Event : outcome[e] # "none" => status'[e] = status[e]]_allVars
  BY StatusOfOthers DEF CInv
<1> QED
  BY <1>1, CallInvariance, UncrowdedInvariance, PTL DEF ISpec, ResultsFinal
=============================================================================
