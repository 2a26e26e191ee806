------------------------------- MODULE IModel -------------------------------
(***************************************************************************)
(* service/imodel.py over protocols/generic/processor.py (Executor): the   *)
(* asyncio tasks (Worker) that call invoke() or stream() on one iModel.    *)
(* Each call appends its event to the executor's pile and pending list;    *)
(* invoke() forwards everything pending to the queue and runs a batch in   *)
(* its own task; stream() runs its event itself, under the same semaphore. *)
(* A call may be cancelled at every await, and the consumer of a stream    *)
(* may stop asking for items, or close the generator, at every item.       *)
(***************************************************************************)
EXTENDS RateLimitedProcessor

CONSTANTS
  Streamed,   \* the events that calls of stream() may create
  Given,      \* the events passed as api_call, to calls of both and repeatedly
  MaxGiven,   \* bound: how many calls are given an api_call
  MaxCancels, \* bound: how many calls are cancelled
  MaxCloses   \* bound: how often close() is called

ASSUME IModelAssumption ==
  /\ Streamed \in SUBSET Event
  /\ Given \in SUBSET Event
  /\ MaxGiven \in Nat
  /\ MaxCancels \in Nat
  /\ MaxCloses \in Nat

VARIABLES
  pile,     \* ids in executor.pile
  pending,  \* executor.pending, in order
  at,       \* where each worker is: "out"; "batch" or "wait" inside invoke();
            \* inside stream(): "queued" for a slot, "stream" in the endpoint,
            \* suspended at a "chunk" or at the "last" item, or "thrown": closed
            \* at a chunk, and suspended at the last item all the same
  mine,     \* the event each worker's call is about
  outcome,  \* history: the status each call returned with, or "error"
  given,    \* how many calls were given an api_call
  cancels,  \* how many calls were cancelled
  closes    \* how often close() was called

bounds == <<given, cancels, closes>>
callVars == <<pile, pending, at, mine, outcome, bounds>>
allVars == <<vars, limitVars, callVars>>

CallInit ==
  /\ pile = {}
  /\ pending = <<>>
  /\ at = [w \in Worker |-> "out"]
  /\ mine = [w \in Worker |-> NoEvent]
  /\ outcome = [e \in Event |-> "none"]
  /\ given = 0
  /\ cancels = 0
  /\ closes = 0

IInit == Init /\ LimitInit /\ CallInit

\* create_event() makes an event that no call has had before; an api_call may
\* have been in other calls, and may still be.
FreshOnce(e) == outcome[e] = "none"  \* mutant: two calls may share an event
Fresh(e) == outcome[e] = "none" /\ \A w \in Worker : mine[w] # e

Creates(e) == e \notin Given /\ Fresh(e) /\ UNCHANGED given
IsGiven(e) == e \in Given /\ given < MaxGiven /\ given' = given + 1

Return(w, e, result) ==
  /\ at' = [at EXCEPT ![w] = "out"]
  /\ mine' = [mine EXCEPT ![w] = NoEvent]
  /\ outcome' = [outcome EXCEPT ![e] = result]

(***************************************************************************)
(* invoke(): create_event, executor.start() if stopped, append, forward.   *)
(* Neither pile nor pending takes an event twice.                          *)
(* forward() drains pending into the queue and enters process() without    *)
(* an await that suspends.  An id that is no longer in the pile makes it   *)
(* raise, after the n ids before it were enqueued.                         *)
(***************************************************************************)
Appended(e) == IF \E i \in DOMAIN pending : pending[i] = e
                 THEN pending ELSE Append(pending, e)

Forwarded(all, e, n) ==
  /\ \A i \in 1..n : all[i] \in pile \union {e}
  /\ n < Len(all) => all[n + 1] \notin pile \union {e}

Forward(w, e, all, n) ==
  LET taken == SubSeq(all, 1, n) IN
  /\ enqueued' = enqueued \union {taken[i] : i \in 1..n}
  /\ IF n = Len(all)
       THEN /\ pending' = <<>>
            /\ StartBatch(w, queue \o taken)
            /\ at' = [at EXCEPT ![w] = "batch"]
            /\ mine' = [mine EXCEPT ![w] = e]
            /\ UNCHANGED outcome
       ELSE /\ pending' = SubSeq(all, n + 2, Len(all))
            /\ queue' = queue \o taken
            /\ Return(w, e, "error")
            /\ UNCHANGED <<pc, next, prev, admitted, capacity, abort>>

Invoke(w, e) ==
  /\ Idle
  /\ at[w] = "out"
  /\ \/ IsGiven(e)
     \/ Creates(e)
  /\ stopped' = FALSE
  /\ pile' = pile \union {e}
  /\ \E n \in 0..Len(Appended(e)) :
       /\ Forwarded(Appended(e), e, n)
       /\ Forward(w, e, Appended(e), n)
  /\ UNCHANGED <<cancels, closes, loop, taskVars, admits, disturbed, limitVars>>

\* The event leaves the pile and the call returns it with the status it has.
\* If another call has popped it, pile.pop() raises.
ReturnOnly(w) ==  \* mutant: the event stays in the pile
  Return(w, mine[w], status[mine[w]]) /\ UNCHANGED pile

PopAndReturn(w) ==
  /\ pile' = pile \ {mine[w]}
  /\ Return(w, mine[w], IF mine[w] \in pile THEN status[mine[w]] ELSE "error")

\* The batch is over: return the event if it is over too, else wait for it on
\* its completion event, which is created here unless an earlier call did.  An
\* exception out of process(), CancelledError among them, leaves the event in
\* the pile, and the capacity as it is.
EndBatch(w) ==
  LET e == mine[w] IN
  /\ at[w] = "batch"
  /\ JoinBatch(w)
  /\ IF abort[w]
       THEN Return(w, e, "error") /\ UNCHANGED <<pile, signal>>
       ELSE IF status[e] \in Terminal
         THEN PopAndReturn(w) /\ UNCHANGED signal
         ELSE /\ at' = [at EXCEPT ![w] = "wait"]
              /\ signal' = [signal EXCEPT ![e] = IF @ = "none" THEN "clear" ELSE @]
              /\ UNCHANGED <<pile, mine, outcome>>
  /\ UNCHANGED <<pending, bounds, sem, ready, running, status, loopVars,
                 histVars, limitVars>>

Woken(w) ==
  /\ Idle
  /\ at[w] = "wait"
  /\ signal[mine[w]] = "set"
  /\ PopAndReturn(w)
  /\ UNCHANGED <<pending, bounds, vars, limitVars>>

\* wait_for(..., timeout=10.0): the timeout is swallowed.
TimedOut(w) ==
  /\ Idle
  /\ at[w] = "wait"
  /\ PopAndReturn(w)
  /\ UNCHANGED <<pending, bounds, vars, limitVars>>

\* The task is cancelled in its batch, or waiting for the completion event or for
\* a slot: `except Exception` lets CancelledError pass, and the event stays.
CancelCall(w) ==
  /\ cancels < MaxCancels
  /\ cancels' = cancels + 1
  /\ \/ at[w] = "batch" /\ Cancel(w) /\ UNCHANGED <<at, mine, outcome>>
     \/ /\ at[w] \in {"wait", "queued"}
        /\ Idle
        /\ Return(w, mine[w], "error")
        /\ UNCHANGED vars
  /\ UNCHANGED <<pile, pending, given, closes, limitVars>>

-----------------------------------------------------------------------------
(* stream(): append without forward, then run the event directly.          *)

\* Only an event that stream() has created is appended.
Stream(w, e) ==
  /\ Idle
  /\ at[w] = "out"
  /\ \/ IsGiven(e) /\ UNCHANGED <<pile, pending>>
     \/ /\ e \in Streamed
        /\ Creates(e)
        /\ pile' = pile \union {e}
        /\ pending' = Append(pending, e)
  /\ stopped' = FALSE
  /\ at' = [at EXCEPT ![w] = "queued"]
  /\ mine' = [mine EXCEPT ![w] = e]
  /\ UNCHANGED <<outcome, cancels, closes, loop, procVars, taskVars, histVars,
                 limitVars>>

StreamBegin(w) ==
  /\ Idle
  /\ at[w] = "queued"
  /\ sem > 0
  /\ sem' = sem - 1
  /\ status' = [status EXCEPT ![mine[w]] = "processing"]
  /\ admits' = [admits EXCEPT ![mine[w]] = @ + 1]
  /\ at' = [at EXCEPT ![w] = "stream"]
  /\ UNCHANGED <<pile, pending, mine, outcome, bounds, ready, running, signal,
                 enqueued, disturbed, procVars, loopVars, limitVars>>

\* An item goes to the consumer, who may ask for the next one.
StreamItem(w, from, to) ==
  /\ Idle
  /\ at[w] = from
  /\ at' = [at EXCEPT ![w] = to]
  /\ UNCHANGED <<pile, pending, mine, outcome, bounds, vars, limitVars>>

KeepSlot == UNCHANGED sem  \* mutant: the semaphore is not released
FreeSlot == sem' = sem + 1

\* The finally clause: the event is popped and yielded as the last item, while
\* the slot is still held.  If the pile does not have it, pop() raises, and the
\* generator ends.
LastItem(w, to) ==
  /\ IF mine[w] \in pile
       THEN /\ at' = [at EXCEPT ![w] = to]
            /\ UNCHANGED <<mine, outcome, sem>>
       ELSE FreeSlot /\ Return(w, mine[w], "error")
  /\ pile' = pile \ {mine[w]}
  /\ UNCHANGED <<pending, bounds, ready, running, procVars, loopVars, histVars,
                 limitVars>>

\* The event's stream ends, or process_chunk() raises and it is left as it is.
StreamEnd(w) ==
  /\ Idle
  /\ at[w] = "stream"
  /\ \/ \E s \in Terminal : SetStatus(mine[w], s)
     \/ UNCHANGED <<status, signal>>
  /\ LastItem(w, "last")

\* The generator is closed at a chunk, by its consumer or by the event loop when
\* nobody refers to it: GeneratorExit runs the finally clause, whose yield makes
\* aclose() raise RuntimeError and leaves the generator suspended in the block.
StreamThrow(w) ==
  /\ Idle
  /\ at[w] = "chunk"
  /\ UNCHANGED <<status, signal>>
  /\ LastItem(w, "thrown")

\* The consumer asks for the item after the last, or the suspended generator is
\* finalized: it ends and frees the slot.
StreamExit(w) ==
  /\ Idle
  /\ at[w] \in {"last", "thrown"}
  /\ FreeSlot
  /\ Return(w, mine[w], status[mine[w]])
  /\ UNCHANGED <<pile, pending, bounds, ready, running, status, signal,
                 procVars, loopVars, histVars, limitVars>>

Close ==
  /\ closes < MaxCloses
  /\ closes' = closes + 1
  /\ Stop
  /\ UNCHANGED <<pile, pending, at, mine, outcome, given, cancels, limitVars>>

-----------------------------------------------------------------------------
CallStep(w) ==
  \/ EndBatch(w)
  \/ Woken(w)
  \/ TimedOut(w)
  \/ StreamBegin(w)

\* The steps that the endpoint and the consumer of a stream decide on.
StreamStep(w) ==
  \/ StreamItem(w, "stream", "chunk")
  \/ StreamItem(w, "chunk", "stream")
  \/ StreamEnd(w)
  \/ StreamThrow(w)
  \/ StreamExit(w)

ProcessStep(w) ==
  \/ (Wake(w) /\ UNCHANGED limitVars)
  \/ Permission(w)
  \/ CancelAsk(w)

\* A batch whose body was cancelled, or raised (Reborrow), cancels its tasks.
BeginTask == \E t \in ready : Begin(t) \/ CancelReady(t)
FinishTask == \E t \in running : CancelRunning(t) \/ \E s \in Outcomes : Finish(t, s)

INext ==
  \/ \E w \in Worker, e \in Event : Invoke(w, e) \/ Stream(w, e)
  \/ \E w \in Worker : CallStep(w) \/ CancelCall(w) \/ StreamStep(w)
  \/ \E w \in Worker : ProcessStep(w) /\ UNCHANGED callVars
  \/ (BeginTask \/ FinishTask) /\ UNCHANGED <<callVars, limitVars>>
  \/ Close
  \/ closes = 0 /\ Replenish /\ UNCHANGED callVars

ISpec == IInit /\ [][INext]_allVars

\* Nobody has to go on with a stream: there is no fairness for StreamStep.
IFairness ==
  /\ \A w \in Worker : WF_allVars(CallStep(w))
  /\ \A w \in Worker : WF_allVars(ProcessStep(w) /\ UNCHANGED callVars)
  /\ WF_allVars(BeginTask /\ UNCHANGED <<callVars, limitVars>>)
  /\ WF_allVars(FinishTask /\ UNCHANGED <<callVars, limitVars>>)
  /\ WF_allVars(closes = 0 /\ Replenish /\ UNCHANGED callVars)

IFairSpec == ISpec /\ IFairness

-----------------------------------------------------------------------------
(* What holds whatever the calls are.                                      *)

ITypeOK ==
  /\ TypeOK
  /\ total \in Nat
  /\ borrowers \in SUBSET Worker
  /\ passed \in SUBSET Worker
  /\ pile \in SUBSET Event
  /\ pending \in Seq(Event)
  /\ at \in [Worker -> {"out", "batch", "wait", "queued", "stream", "chunk",
                        "last", "thrown"}]
  /\ mine \in [Worker -> Event \union {NoEvent}]
  /\ outcome \in [Event -> {"none", "error"} \union Status]
  /\ given \in 0..MaxGiven
  /\ cancels \in 0..MaxCancels
  /\ closes \in 0..MaxCloses

Streaming == {w \in Worker : at[w] \in {"stream", "chunk", "last", "thrown"}}

\* Batches and streams share one semaphore: whichever way the events and the
\* streams end, and whoever is cancelled, every slot is free, used by a task, or
\* kept by a generator that has not ended, abandoned ones among them.
SlotsConserved ==
  sem + Cardinality(running) + Cardinality(Streaming) = Limit

\* The event that a call has created is in the pile as long as the call goes on,
\* so that its final pile.pop() finds it.  (An api_call that the caller passed
\* may have been popped by another call, and stream() never adds it.)
PopFinds ==
  \A w \in Worker :
    at[w] \notin {"out", "last", "thrown"} /\ mine[w] \notin Given => mine[w] \in pile

\* A caller waiting on the completion event of an event that is over is woken:
\* the lazily created asyncio.Event misses no terminal status.
NoLostWakeup ==
  \A w \in Worker :
    at[w] = "wait" /\ status[mine[w]] \in Terminal => signal[mine[w]] = "set"

\* A rate limit is a limit per cycle: once it is used up, a later round of the
\* replenisher makes a request token available again.
LimitIsPerCycle ==
  LimitRequests > 0 /\ Available < 1 ~> Available >= 1

\* Every stream that has a slot is gone on with until its generator ends.
StreamsEnd == \A w \in Worker : []<>(w \notin Streaming)

\* If the consumers of all streams go on to the end, every call ends: no batch,
\* semaphore or limiter holds its task for ever, whoever is refused, raises or
\* is cancelled.
EveryCallReturns ==
  StreamsEnd => \A w \in Worker : (at[w] # "out" ~> at[w] = "out")

-----------------------------------------------------------------------------
(* What holds when no more tasks call invoke() than queue_capacity allows, *)
(* each with an event of its own, nothing is streamed and no rate limit is *)
(* set.  The first three need that no call has been cancelled: a cancelled *)
(* batch does not give back its capacity, and leaves events on the queue.  *)

Uncrowded ==
  /\ NoLimits
  /\ Streamed = {}
  /\ Given = {}
  /\ Cardinality(Worker) <= QueueCapacity

\* As long as no call is cancelled, no event is handed to the endpoint twice,
\* although process() submits an event again when it finds it still pending.
AtMostOnce == cancels = 0 => \A e \in Event : admits[e] <= 1

\* As long as no call is cancelled, a call's own batch has run its event to a
\* terminal status: nobody depends on another task's batch, or on the wait.
OwnBatchSuffices == cancels = 0 => \A w \in Worker : at[w] # "wait"

\* As long as no call is cancelled, what invoke() returned is final: the event
\* is not touched afterwards.
ResultsFinal ==
  [][cancels = 0 =>
       \A e \in Event : outcome[e] # "none" => status'[e] = status[e]]_allVars

\* Of the calls that are over, the pile keeps the events of those that raised or
\* were cancelled, for ever, and no others; pending keeps none, and the queue
\* none unless a call was cancelled.
NoResidue ==
  /\ pile = {mine[w] : w \in {v \in Worker : at[v] # "out"}}
             \union {e \in Event : outcome[e] = "error"}
  /\ pending = <<>>
  /\ cancels = 0 /\ (\A w \in Worker : at[w] = "out") => queue = <<>>
=============================================================================
