----------------------------- MODULE Processor -----------------------------
(***************************************************************************)
(* protocols/generic/processor.py: the batch processor.  Several asyncio   *)
(* tasks (Worker) may be inside Processor.process() of one processor at a  *)
(* time: every Executor.forward() runs it, and so does the execute() loop  *)
(* of the task Runner.  They share the queue, the capacity counter and the *)
(* concurrency semaphore.                                                  *)
(*                                                                         *)
(* asyncio is cooperative, so one action here is the code between two      *)
(* awaits that may suspend.  A task <<w, e, k>> is the k-th coroutine      *)
(* started for event e, by the task group of worker w.                     *)
(***************************************************************************)
EXTENDS Integers, Sequences, FiniteSets

CONSTANTS
  Event,          \* the events (Event or HookedEvent objects)
  Worker,         \* the asyncio tasks that call process()
  Runner,         \* the worker that runs the execute() loop
  NoEvent,        \* Python's None, where an event is expected
  QueueCapacity,  \* queue_capacity
  MaxQueue,       \* max_queue_size, 0 for an unbounded queue
  Limit,          \* concurrency_limit
  Hooked,         \* TRUE: events are HookedEvents, which swallow exceptions
  AskSuspends     \* TRUE: request_permission may suspend the worker

ASSUME ProcessorAssumption ==
  /\ NoEvent \notin Event
  /\ Runner \in Worker
  /\ IsFiniteSet(Worker)
  /\ QueueCapacity \in Nat \ {0}
  /\ MaxQueue \in Nat
  /\ Limit \in Nat \ {0}
  /\ Hooked \in BOOLEAN
  /\ AskSuspends \in BOOLEAN

VARIABLES
  queue,     \* asyncio.Queue
  capacity,  \* _available_capacity
  stopped,   \* _stop_event.is_set()
  loop,      \* the execute() coroutine: "off", "on", or "crashed" by an exception
  sem,       \* free slots of _concurrency_sem
  pc,        \* where each worker is suspended inside process()
  prev,      \* its prev_event
  next,      \* its next_event
  admitted,  \* its events_processed > 0
  abort,     \* its task group is cancelled, an exception is on its way out
  ready,     \* tasks started with start_soon that have not got a slot yet
  running,   \* tasks inside event.invoke() or event.stream()
  status,    \* event.execution.status
  signal,    \* event._completion_event: "none", "clear" or "set"
  admits,    \* history: how often each event was started
  enqueued,  \* history: the events ever put on the queue
  disturbed  \* history: permission was refused once, or a batch was cancelled
             \* or raised

procVars == <<queue, capacity, pc, prev, next, admitted, abort>>
taskVars == <<sem, ready, running, status, signal>>
loopVars == <<stopped, loop>>
histVars == <<admits, enqueued, disturbed>>
vars == <<procVars, taskVars, loopVars, histVars>>

Terminal == {"completed", "failed", "cancelled"}
Status == {"pending", "processing"} \union Terminal
Task == Worker \X Event \X (Nat \ {0})
TasksOf(w) == {t \in ready \union running : t[1] = w}

Init ==
  /\ queue = <<>>
  /\ capacity = QueueCapacity
  /\ stopped = FALSE
  /\ loop = "off"
  /\ sem = Limit
  /\ pc = [w \in Worker |-> "idle"]
  /\ prev = [w \in Worker |-> NoEvent]
  /\ next = [w \in Worker |-> NoEvent]
  /\ admitted = [w \in Worker |-> FALSE]
  /\ abort = [w \in Worker |-> FALSE]
  /\ ready = {}
  /\ running = {}
  /\ status = [e \in Event |-> "pending"]
  /\ signal = [e \in Event |-> "none"]
  /\ admits = [e \in Event |-> 0]
  /\ enqueued = {}
  /\ disturbed = FALSE

\* A permission check that does not suspend runs on to the next await.
Scheduled(w) == AskSuspends \/ \A v \in Worker \ {w} : pc[v] # "asking"
Idle == AskSuspends \/ \A v \in Worker : pc[v] # "asking"

(***************************************************************************)
(* The head of the while loop, for the queue q, the capacity c and the     *)
(* previous event p that worker w sees: leave the loop, sleep on a         *)
(* previous event that has not started yet, or take the next event.        *)
(***************************************************************************)
ExhaustedLate(c, q) == c < 0 \/ q = <<>>  \* mutant: one event too many
Exhausted(c, q) == c <= 0 \/ q = <<>>

StillPending(p) == p # NoEvent /\ status[p] = "pending"

Suspend(w, where, e) ==
  /\ pc' = [pc EXCEPT ![w] = where]
  /\ next' = [next EXCEPT ![w] = e]

Leave(w, q) == Suspend(w, "joining", NoEvent) /\ queue' = q
Recheck(w, q, p) == Suspend(w, "sleeping", p) /\ queue' = q

\* mutant: the event is looked at and stays on the queue
TakeUnremoved(w, q) == Suspend(w, "asking", Head(q)) /\ queue' = q
Take(w, q) == Suspend(w, "asking", Head(q)) /\ queue' = Tail(q)

\* mutant: the pending event is waited for even when nothing follows it
TurnWaitsFirst(w, q, c, p) ==
  IF StillPending(p) THEN Recheck(w, q, p)
  ELSE IF Exhausted(c, q) THEN Leave(w, q) ELSE Take(w, q)

Turn(w, q, c, p) ==
  IF Exhausted(c, q) THEN Leave(w, q)
  ELSE IF StillPending(p) THEN Recheck(w, q, p) ELSE Take(w, q)

\* process() is called by worker w while the queue is q.
StartBatch(w, q) ==
  /\ pc[w] = "idle"
  /\ prev' = [prev EXCEPT ![w] = NoEvent]
  /\ admitted' = [admitted EXCEPT ![w] = FALSE]
  /\ Turn(w, q, capacity, NoEvent)
  /\ UNCHANGED <<capacity, abort>>

Process(w) ==
  /\ Idle
  /\ w # Runner
  /\ StartBatch(w, queue)
  /\ UNCHANGED <<taskVars, loopVars, histVars>>

\* The sleep for capacity_refresh_time is over: the same event is asked for again.
Wake(w) ==
  /\ Idle
  /\ pc[w] = "sleeping"
  /\ pc' = [pc EXCEPT ![w] = "asking"]
  /\ UNCHANGED <<queue, capacity, prev, next, admitted, abort,
                 taskVars, loopVars, histVars>>

\* request_permission returned: start the event or drop it, then take a turn.
Grant(w) ==
  LET e == next[w] IN
  /\ ready' = ready \union {<<w, e, admits[e] + 1>>}
  /\ admits' = [admits EXCEPT ![e] = @ + 1]
  /\ admitted' = [admitted EXCEPT ![w] = TRUE]
  /\ UNCHANGED disturbed

\* The event was taken off the queue, and nothing keeps it.
Refuse(w) ==
  /\ disturbed' = TRUE
  /\ UNCHANGED <<ready, admits, admitted>>

Advance(w) ==
  /\ prev' = [prev EXCEPT ![w] = next[w]]
  /\ capacity' = capacity - 1
  /\ Turn(w, queue, capacity - 1, next[w])
  /\ UNCHANGED <<abort, sem, running, status, signal, enqueued, loopVars>>

Answer(w, permitted) ==
  /\ Scheduled(w)
  /\ pc[w] = "asking"
  /\ IF permitted THEN Grant(w) ELSE Refuse(w)
  /\ Advance(w)

\* `async with tg` ends when all tasks are over.
BatchOverEarly(w) == TRUE  \* mutant: the tasks are not waited for
BatchOver(w) == TasksOf(w) = {}

\* Only a batch that started an event, and did not raise, resets the capacity.
NotRefilled(w) == capacity  \* mutant: the reset is forgotten
Refilled(w) == IF admitted[w] /\ ~abort[w] THEN QueueCapacity ELSE capacity

JoinBatch(w) ==
  /\ Idle
  /\ pc[w] = "joining"
  /\ BatchOver(w)
  /\ pc' = [pc EXCEPT ![w] = "idle"]
  /\ prev' = [prev EXCEPT ![w] = NoEvent]
  /\ abort' = [abort EXCEPT ![w] = FALSE]
  /\ capacity' = Refilled(w)
  /\ UNCHANGED <<queue, next, admitted>>

\* An exception out of process() also ends the execute() loop, if w runs it.
Join(w) ==
  /\ JoinBatch(w)
  /\ loop' = IF w = Runner /\ abort[w] THEN "crashed" ELSE loop
  /\ UNCHANGED <<stopped, taskVars, histVars>>

-----------------------------------------------------------------------------
(* The tasks of a batch, and what event.invoke() does to the event.        *)

\* The setter Event.status: a terminal status wakes whoever waits for it.
SetQuietly(e, s) ==  \* mutant: the completion event is forgotten
  /\ status' = [status EXCEPT ![e] = s]
  /\ UNCHANGED signal

SetStatus(e, s) ==
  /\ status' = [status EXCEPT ![e] = s]
  /\ signal' = IF s \in Terminal /\ signal[e] = "clear"
                 THEN [signal EXCEPT ![e] = "set"]
                 ELSE signal

\* A slot is acquired.  Event.invoke() returns at once for a COMPLETED or
\* FAILED event, HookedEvent.invoke() has no such check.
Skips(e) == ~Hooked /\ status[e] \in {"completed", "failed"}

SlotIgnored == TRUE  \* mutant: the semaphore is not used
SlotFree == sem > 0

Begin(t) ==
  /\ Idle
  /\ t \in ready
  /\ SlotFree
  /\ ready' = ready \ {t}
  /\ IF Skips(t[2])
       THEN UNCHANGED <<sem, running, status>>
       ELSE /\ sem' = sem - 1
            /\ running' = running \union {t}
            /\ status' = [status EXCEPT ![t[2]] = "processing"]
  /\ UNCHANGED <<signal, procVars, loopVars, histVars>>

LeakSlot(t) == running' = running \ {t} /\ UNCHANGED sem  \* mutant: no release
LeaveSlot(t) == running' = running \ {t} /\ sem' = sem + 1

\* invoke() ends.  Only Event.invoke() lets the exception out, which cancels
\* the task group; a HookedEvent also ends cancelled when its hook was.
Outcomes == IF Hooked THEN Terminal ELSE {"completed", "failed"}

Finish(t, s) ==
  /\ Idle
  /\ t \in running
  /\ LeaveSlot(t)
  /\ SetStatus(t[2], s)
  /\ abort' = [abort EXCEPT ![t[1]] = @ \/ (~Hooked /\ s = "failed")]
  /\ disturbed' = (disturbed \/ (~Hooked /\ s = "failed"))
  /\ UNCHANGED <<queue, capacity, pc, prev, next, admitted, ready,
                 loopVars, admits, enqueued>>

\* The asyncio task w is cancelled inside process().
Cancel(w) ==
  /\ Idle
  /\ pc[w] # "idle"
  /\ abort' = [abort EXCEPT ![w] = TRUE]
  /\ disturbed' = TRUE
  /\ UNCHANGED <<queue, capacity, pc, prev, next, admitted, taskVars, loopVars,
                 admits, enqueued>>

\* Cancellation of a task group reaches its tasks and the body of process(),
\* where the event in hand is lost.
CancelReady(t) ==
  /\ Idle
  /\ t \in ready
  /\ abort[t[1]]
  /\ ready' = ready \ {t}
  /\ UNCHANGED <<sem, running, status, signal, procVars, loopVars, histVars>>

CancelRunning(t) ==
  /\ Idle
  /\ t \in running
  /\ abort[t[1]]
  /\ LeaveSlot(t)
  /\ IF Hooked THEN SetStatus(t[2], "cancelled") ELSE UNCHANGED <<status, signal>>
  /\ UNCHANGED <<ready, procVars, loopVars, histVars>>

CancelBody(w) ==
  /\ abort[w]
  /\ pc[w] \in {"asking", "sleeping"}
  /\ pc' = [pc EXCEPT ![w] = "joining"]
  /\ next' = [next EXCEPT ![w] = NoEvent]
  /\ UNCHANGED <<queue, capacity, prev, admitted, abort,
                 taskVars, loopVars, histVars>>

-----------------------------------------------------------------------------
(* Queueing, the execute() loop, start() and stop().                       *)

\* enqueue() waits while the queue is full, try_enqueue() gives up.
QueueFull == MaxQueue > 0 /\ Len(queue) >= MaxQueue

Enqueue(e) ==
  /\ Idle
  /\ ~QueueFull
  /\ e \notin enqueued
  /\ queue' = Append(queue, e)
  /\ enqueued' = enqueued \union {e}
  /\ UNCHANGED <<capacity, pc, prev, next, admitted, abort, taskVars, loopVars,
                 admits, disturbed>>

\* execute() clears the stop signal before its first batch.
Execute ==
  /\ Idle
  /\ loop # "on"
  /\ loop' = "on"
  /\ stopped' = FALSE
  /\ StartBatch(Runner, queue)
  /\ UNCHANGED <<taskVars, histVars>>

\* The sleep between two batches is over.
StopUnheeded == FALSE  \* mutant: the stop signal is not looked at
StopHeeded == stopped

Continue ==
  /\ Idle
  /\ loop = "on"
  /\ IF StopHeeded
       THEN /\ pc[Runner] = "idle"
            /\ loop' = "off"
            /\ UNCHANGED procVars
       ELSE StartBatch(Runner, queue) /\ UNCHANGED loop
  /\ UNCHANGED <<stopped, taskVars, histVars>>

Stop ==
  /\ Idle
  /\ stopped' = TRUE
  /\ UNCHANGED <<loop, procVars, taskVars, histVars>>

\* The task that runs execute() is cancelled while it sleeps between two batches.
CancelLoop ==
  /\ Idle
  /\ loop = "on"
  /\ pc[Runner] = "idle"
  /\ loop' = "crashed"
  /\ UNCHANGED <<stopped, procVars, taskVars, histVars>>

Start ==
  /\ Idle
  /\ stopped' = FALSE
  /\ UNCHANGED <<loop, procVars, taskVars, histVars>>

-----------------------------------------------------------------------------
BatchStep(w) ==
  \/ Wake(w)
  \/ \E permitted \in BOOLEAN : Answer(w, permitted)
  \/ Join(w)
  \/ CancelBody(w)

TaskStep(t) ==
  \/ Begin(t)
  \/ \E s \in Outcomes : Finish(t, s)
  \/ CancelReady(t)
  \/ CancelRunning(t)

LoopStep == Execute \/ Continue \/ Stop \/ Start \/ CancelLoop

Next ==
  \/ \E e \in Event : Enqueue(e)
  \/ \E w \in Worker : Process(w) \/ BatchStep(w) \/ Cancel(w)
  \/ \E t \in ready \union running : TaskStep(t)
  \/ LoopStep

Spec == Init /\ [][Next]_vars

(***************************************************************************)
(* asyncio runs every resumable task: sleeps and permission checks end,    *)
(* free slots are handed on, cancellation is delivered and the loop goes   *)
(* on.  That invoke() ends is what the endpoint's timeout is for.          *)
(***************************************************************************)
Fairness ==
  /\ \A w \in Worker : WF_vars(BatchStep(w))
  /\ WF_vars(\E t \in ready : Begin(t) \/ CancelReady(t))
  /\ WF_vars(\E t \in running : \E s \in Outcomes : Finish(t, s))
  /\ WF_vars(Continue)

FairSpec == Spec /\ Fairness

-----------------------------------------------------------------------------
(* What process() promises.                                                *)

TypeOK ==
  /\ queue \in Seq(Event)
  /\ capacity \in Int
  /\ stopped \in BOOLEAN
  /\ loop \in {"off", "on", "crashed"}
  /\ sem \in Nat
  /\ pc \in [Worker -> {"idle", "asking", "sleeping", "joining"}]
  /\ prev \in [Worker -> Event \union {NoEvent}]
  /\ next \in [Worker -> Event \union {NoEvent}]
  /\ admitted \in [Worker -> BOOLEAN]
  /\ abort \in [Worker -> BOOLEAN]
  /\ ready \in SUBSET Task
  /\ running \in SUBSET Task
  /\ status \in [Event -> Status]
  /\ signal \in [Event -> {"none", "clear", "set"}]
  /\ admits \in [Event -> Nat]
  /\ enqueued \in SUBSET Event
  /\ disturbed \in BOOLEAN

\* However many batches run at once, and whether their tasks complete, fail or
\* are cancelled, at most concurrency_limit of them are inside an event.
ConcurrencyBound == Cardinality(running) <= Limit

\* Event e is in the hands of worker w, or of a task that w has started.
Holds(w, e) ==
  \/ pc[w] \in {"asking", "sleeping"} /\ next[w] = e
  \/ \E t \in TasksOf(w) : t[2] = e

\* An event that was enqueued once belongs to the one batch that took it off
\* the queue: however batches interleave, sleep and submit an event again, no
\* two of them hold it, and none holds an event that is still queued.
OneBatchEach ==
  /\ \A e \in Event, v \in Worker, w \in Worker : Holds(v, e) /\ Holds(w, e) => v = w
  /\ \A i \in DOMAIN queue, w \in Worker : ~Holds(w, queue[i])
  /\ \A i \in DOMAIN queue, j \in DOMAIN queue : queue[i] = queue[j] => i = j

\* The capacity is checked before the permission is awaited and charged after
\* it: concurrent batches overdraw it, by at most one event each.
OverdrawBound ==
  capacity + Cardinality(Worker)
    > Cardinality({w \in Worker : pc[w] \in {"asking", "sleeping"}})

\* While the execute() loop goes on, every event on the queue gets started:
\* concurrent batches give back the capacity they use.  Only a refused
\* permission, a cancellation or an exception may change that for ever.
QueueDrains ==
  \A e \in Event :
    loop = "on" /\ (\E i \in DOMAIN queue : queue[i] = e)
      ~> admits[e] > 0 \/ loop # "on" \/ stopped \/ disturbed

\* stop() ends a running execute() loop, unless start() takes it back.
StopEnds == stopped /\ loop = "on" ~> loop # "on" \/ ~stopped
=============================================================================
