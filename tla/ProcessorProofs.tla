--------------------------- MODULE ProcessorProofs ---------------------------
(***************************************************************************)
(* Proofs about Processor, for any number of events and workers and any    *)
(* capacity, queue size and concurrency limit.                             *)
(***************************************************************************)
EXTENDS Processor, FiniteSetTheorems, SequenceTheorems, TLAPS

InHandOrAsleep == {w \in Worker : pc[w] \in {"asking", "sleeping"}}

\* A worker that asks or sleeps has an event in its hands.
HandsFull == \A w \in InHandOrAsleep : next[w] \in Event

\* The free slots and the tasks inside an event are all the slots there are.
SlotsHeld == IsFiniteSet(running) /\ sem + Cardinality(running) = Limit

\* The tasks are told apart: k is no more than the times its event was started.
TasksDistinct ==
  /\ ready \intersect running = {}
  /\ \A t \in ready \union running : t[3] <= admits[t[2]]

\* What is queued or held by a batch was enqueued, and is in one place.
Custody ==
  /\ OneBatchEach
  /\ \A i \in DOMAIN queue : queue[i] \in enqueued
  /\ \A e \in Event, w \in Worker : Holds(w, e) => e \in enqueued

\* The inductive invariant.  ConcurrencyBound needs SlotsHeld, which needs that
\* no task is counted twice: TasksDistinct.
IInv ==
  /\ TypeOK
  /\ HandsFull
  /\ SlotsHeld
  /\ TasksDistinct
  /\ Custody
  /\ OverdrawBound

-----------------------------------------------------------------------------
(* Sequences and sets.                                                     *)

LEMMA TailShifts ==
  ASSUME NEW q \in Seq(Event), q # <<>>
  PROVE  /\ 1 \in DOMAIN q /\ Head(q) = q[1]
         /\ \A i \in DOMAIN Tail(q) : i \in Nat \ {0} /\ i + 1 \in DOMAIN q /\ Tail(q)[i] = q[i + 1]
BY LenProperties, HeadTailProperties

LEMMA MoveToHand ==
  ASSUME NEW A, NEW B, IsFiniteSet(Worker), A \subseteq Worker, B \subseteq Worker
  PROVE  /\ Cardinality(A) \in Nat
         /\ Cardinality(A) <= Cardinality(Worker)
         /\ A \subseteq B => Cardinality(A) <= Cardinality(B)
         /\ \A w \in A : B = A \ {w} => Cardinality(B) = Cardinality(A) - 1
<1>1. IsFiniteSet(A) /\ IsFiniteSet(B)
  BY FS_Subset
<1> QED
  BY <1>1, FS_Subset, FS_CardinalityType, FS_RemoveElement

-----------------------------------------------------------------------------
(* One turn of the loop of process(), for whatever queue, capacity and     *)
(* previous event the worker sees.                                         *)

LEMMA SuspendFrame ==
  ASSUME TypeOK, NEW w \in Worker, NEW place \in {"asking", "sleeping", "joining"},
         NEW e \in Event \union {NoEvent}, Suspend(w, place, e)
  PROVE  /\ pc' \in [Worker -> {"idle", "asking", "sleeping", "joining"}]
         /\ next' \in [Worker -> Event \union {NoEvent}]
         /\ pc'[w] = place /\ next'[w] = e
         /\ \A v \in Worker \ {w} : pc'[v] = pc[v] /\ next'[v] = next[v]
BY DEF TypeOK, Suspend

LEMMA TurnFrame ==
  ASSUME TypeOK, NEW w \in Worker, NEW q \in Seq(Event), NEW c \in Int,
         NEW p \in Event \union {NoEvent}, Turn(w, q, c, p)
  PROVE  /\ queue' \in Seq(Event)
         /\ pc' \in [Worker -> {"idle", "asking", "sleeping", "joining"}]
         /\ next' \in [Worker -> Event \union {NoEvent}]
         /\ pc'[w] \in {"asking", "sleeping", "joining"}
         /\ pc'[w] \in {"asking", "sleeping"} => next'[w] \in Event /\ c > 0
         /\ \A v \in Worker \ {w} : pc'[v] = pc[v] /\ next'[v] = next[v]
<1>1. CASE Leave(w, q)
  BY <1>1, SuspendFrame DEF Leave
<1>2. CASE q # <<>> /\ c > 0 /\ Recheck(w, q, p) /\ p \in Event
  BY <1>2, SuspendFrame DEF Recheck
<1>3. CASE q # <<>> /\ c > 0 /\ Take(w, q)
  <2>1. Head(q) \in Event /\ Tail(q) \in Seq(Event)
    BY <1>3, HeadTailProperties
  <2> QED
    BY <1>3, <2>1, SuspendFrame DEF Take
<1> QED
  BY <1>1, <1>2, <1>3 DEF Turn, Exhausted, StillPending

\* A turn leaves the queue or takes its head into the hands of w, or w keeps
\* the event it had in its hands.
LEMMA TurnTakes ==
  ASSUME TypeOK, NEW w \in Worker, NEW q \in Seq(Event), NEW c \in Int,
         NEW p \in Event \union {NoEvent}, Turn(w, q, c, p)
  PROVE  \/ queue' = q /\ (pc'[w] \in {"asking", "sleeping"} => next'[w] = p)
         \/ q # <<>> /\ queue' = Tail(q) /\ next'[w] = Head(q)
BY DEF TypeOK, Suspend, Turn, Leave, Recheck, Take, Exhausted

\* A step in which at most w takes something, namely the head of the queue.
LEMMA CustodyKept ==
  ASSUME TypeOK, Custody, NEW w \in Worker, enqueued' = enqueued,
         queue' = queue \/ (queue # <<>> /\ queue' = Tail(queue)),
         \A v \in Worker, e \in Event :
           Holds(v, e)' => \/ Holds(v, e)
                           \/ v = w /\ queue # <<>> /\ queue' = Tail(queue) /\ e = Head(queue)
  PROVE  Custody'
<1>1. queue \in Seq(Event) /\ \A i \in DOMAIN queue : queue[i] \in Event
  BY DEF TypeOK
<1>2. /\ \A e \in Event, u \in Worker, v \in Worker : Holds(u, e) /\ Holds(v, e) => u = v
      /\ \A i \in DOMAIN queue, v \in Worker : ~Holds(v, queue[i])
      /\ \A i \in DOMAIN queue, j \in DOMAIN queue : queue[i] = queue[j] => i = j
      /\ \A i \in DOMAIN queue : queue[i] \in enqueued
      /\ \A e \in Event, v \in Worker : Holds(v, e) => e \in enqueued
  BY DEF Custody, OneBatchEach
<1>3. CASE queue' = queue /\ \A v \in Worker, e \in Event : Holds(v, e)' => Holds(v, e)
  BY <1>1, <1>2, <1>3 DEF Custody, OneBatchEach
<1>4. CASE queue # <<>> /\ queue' = Tail(queue)
  <2>1. /\ 1 \in DOMAIN queue /\ Head(queue) = queue[1]
        /\ \A i \in DOMAIN queue' : i \in Nat \ {0} /\ i + 1 \in DOMAIN queue /\ queue'[i] = queue[i + 1]
    BY <1>1, <1>4, TailShifts
  <2>2. \A i \in DOMAIN queue' : queue'[i] # Head(queue)
    <3> SUFFICES ASSUME NEW i \in DOMAIN queue' PROVE queue'[i] # Head(queue)
      OBVIOUS
    <3>1. i + 1 # 1 /\ i + 1 \in DOMAIN queue /\ queue'[i] = queue[i + 1]
      BY <2>1
    <3> QED
      BY <1>2, <2>1, <3>1
  <2>3. \A e \in Event, u \in Worker, v \in Worker : Holds(u, e)' /\ Holds(v, e)' => u = v
    BY <1>2, <2>1
  <2>4. ASSUME NEW i \in DOMAIN queue', NEW v \in Worker, NEW e \in Event, queue'[i] = e
        PROVE  ~Holds(v, e)'
    <3>1. i + 1 \in DOMAIN queue /\ e = queue[i + 1] /\ e # Head(queue)
      BY <2>1, <2>2, <2>4
    <3>2. ~Holds(v, e)
      BY <1>2, <3>1
    <3> QED
      BY <3>1, <3>2
  <2>7. \A i \in DOMAIN queue' : queue'[i] \in Event
    BY <1>1, <2>1
  <2>8. (\A i \in DOMAIN queue, v \in Worker : ~Holds(v, queue[i]))'
    BY <2>4, <2>7
  <2>5. \A i \in DOMAIN queue', j \in DOMAIN queue' : queue'[i] = queue'[j] => i = j
    <3> SUFFICES ASSUME NEW i \in DOMAIN queue', NEW j \in DOMAIN queue', queue'[i] = queue'[j]
                 PROVE  i = j
      OBVIOUS
    <3>1. i + 1 = j + 1 /\ i \in Nat /\ j \in Nat
      BY <1>2, <2>1
    <3> QED
      BY <3>1
  <2>6. /\ \A i \in DOMAIN queue' : queue'[i] \in enqueued'
        /\ \A e \in Event, v \in Worker : Holds(v, e)' => e \in enqueued'
    BY <1>2, <2>1
  <2> QED
    BY <2>3, <2>8, <2>5, <2>6 DEF Custody, OneBatchEach
<1>5. CASE queue' = queue /\ ~\A v \in Worker, e \in Event : Holds(v, e)' => Holds(v, e)
  <2>1. Len(queue) \in Nat /\ Len(Tail(queue)) = Len(queue) - 1 /\ queue # <<>> /\ queue' = Tail(queue)
    BY <1>1, <1>5, LenProperties, HeadTailProperties
  <2> QED
    BY <1>5, <2>1
<1> QED
  BY <1>3, <1>4, <1>5

\* A step that hands nothing to anybody.
LEMMA CustodyIdle ==
  ASSUME TypeOK, Custody, UNCHANGED <<queue, enqueued>>,
         \A v \in Worker, e \in Event : Holds(v, e)' => Holds(v, e)
  PROVE  Custody'
BY CustodyKept, ProcessorAssumption

LEMMA InitIInv == Init => IInv
<1> SUFFICES ASSUME Init PROVE IInv
  OBVIOUS
<1>1. queue \in Seq(Event)
  BY EmptySeq DEF Init
<1>2. /\ status \in [Event -> Status]
      /\ signal \in [Event -> {"none", "clear", "set"}]
      /\ admits \in [Event -> Nat]
  BY DEF Init, Status, Terminal
<1>3. TypeOK
  <2>1. capacity \in Int /\ sem \in Nat
    BY ProcessorAssumption DEF Init
  <2>2. /\ pc \in [Worker -> {"idle", "asking", "sleeping", "joining"}]
        /\ prev \in [Worker -> Event \union {NoEvent}]
        /\ next \in [Worker -> Event \union {NoEvent}]
        /\ admitted \in [Worker -> BOOLEAN]
        /\ abort \in [Worker -> BOOLEAN]
    BY DEF Init
  <2>3. /\ stopped \in BOOLEAN /\ loop \in {"off", "on", "crashed"}
        /\ ready \in SUBSET Task /\ running \in SUBSET Task
        /\ enqueued \in SUBSET Event /\ disturbed \in BOOLEAN
    BY DEF Init
  <2> QED
    BY <1>1, <1>2, <2>1, <2>2, <2>3 DEF TypeOK
<1>4. HandsFull /\ TasksDistinct
  BY DEF Init, HandsFull, InHandOrAsleep, TasksDistinct
<1>7. Custody
  BY DEF Init, Custody, OneBatchEach, Holds, TasksOf
<1>5. SlotsHeld
  BY FS_EmptySet, ProcessorAssumption DEF Init, SlotsHeld
<1>6. OverdrawBound
  <2>1. InHandOrAsleep = {}
    BY DEF Init, InHandOrAsleep
  <2>2. Cardinality(InHandOrAsleep) = 0 /\ Cardinality(Worker) \in Nat
    BY <2>1, FS_EmptySet, FS_CardinalityType, ProcessorAssumption
  <2> QED
    BY <2>2, ProcessorAssumption DEF Init, OverdrawBound, InHandOrAsleep
<1> QED
  BY <1>3, <1>4, <1>5, <1>6, <1>7 DEF IInv

-----------------------------------------------------------------------------
(* The overdraft, for any step that moves one worker.                      *)

\* A worker that was not in the set may enter it only while capacity is left.
LEMMA OverdrawEnter ==
  ASSUME TypeOK, OverdrawBound, NEW w \in Worker,
         pc'[w] \in {"asking", "sleeping"} => capacity > 0,
         \A v \in Worker \ {w} : pc'[v] = pc[v],
         capacity' = capacity
  PROVE  OverdrawBound'
<1> DEFINE A == InHandOrAsleep
           B == {v \in Worker : pc'[v] \in {"asking", "sleeping"}}
<1>1. /\ Cardinality(A) \in Nat /\ Cardinality(B) \in Nat /\ Cardinality(Worker) \in Nat
      /\ Cardinality(B) <= Cardinality(Worker)
      /\ B \subseteq A => Cardinality(B) <= Cardinality(A)
  BY MoveToHand, FS_CardinalityType, ProcessorAssumption DEF InHandOrAsleep
<1>2. capacity + Cardinality(Worker) > Cardinality(A) /\ capacity \in Int
  BY DEF OverdrawBound, InHandOrAsleep, TypeOK
<1>3. capacity + Cardinality(Worker) > Cardinality(B)
  <2>1. CASE capacity > 0
    BY <2>1, <1>1, <1>2
  <2>2. CASE ~(capacity > 0)
    <3>1. B \subseteq A
      BY <2>2 DEF InHandOrAsleep
    <3> QED
      BY <3>1, <1>1, <1>2
  <2> QED
    BY <2>1, <2>2
<1> QED
  BY <1>3 DEF OverdrawBound

\* A worker that was in it pays one unit, and stays only if some is left.
LEMMA OverdrawPay ==
  ASSUME TypeOK, OverdrawBound, NEW w \in Worker, pc[w] \in {"asking", "sleeping"},
         pc'[w] \in {"asking", "sleeping"} => capacity - 1 > 0,
         \A v \in Worker \ {w} : pc'[v] = pc[v],
         capacity' = capacity - 1
  PROVE  OverdrawBound'
<1> DEFINE A == InHandOrAsleep
           B == {v \in Worker : pc'[v] \in {"asking", "sleeping"}}
<1>1. /\ Cardinality(A) \in Nat /\ Cardinality(B) \in Nat /\ Cardinality(Worker) \in Nat
      /\ Cardinality(B) <= Cardinality(Worker)
      /\ w \in A /\ (B = A \ {w} => Cardinality(B) = Cardinality(A) - 1)
  BY MoveToHand, FS_CardinalityType, ProcessorAssumption DEF InHandOrAsleep
<1>2. capacity + Cardinality(Worker) > Cardinality(A) /\ capacity \in Int
  BY DEF OverdrawBound, InHandOrAsleep, TypeOK
<1>3. capacity - 1 + Cardinality(Worker) > Cardinality(B)
  <2>1. CASE capacity - 1 > 0
    BY <2>1, <1>1, <1>2
  <2>2. CASE ~(capacity - 1 > 0)
    <3>1. B = A \ {w}
      BY <2>2 DEF InHandOrAsleep
    <3> QED
      BY <3>1, <1>1, <1>2
  <2> QED
    BY <2>1, <2>2
<1> QED
  BY <1>3 DEF OverdrawBound

-----------------------------------------------------------------------------
(* The steps inside process().                                             *)

\* A batch begins, in process() or in the execute() loop.
LEMMA StartBatchStep ==
  ASSUME IInv, NEW w \in Worker, StartBatch(w, queue), UNCHANGED <<taskVars, histVars>>,
         stopped' \in BOOLEAN, loop' \in {"off", "on", "crashed"}
  PROVE  IInv'
<1> USE DEF IInv, taskVars, histVars
<1>1. /\ queue \in Seq(Event) /\ capacity \in Int /\ NoEvent \in Event \union {NoEvent}
      /\ Turn(w, queue, capacity, NoEvent) /\ capacity' = capacity /\ pc[w] = "idle"
  BY DEF TypeOK, StartBatch
<1>2. /\ queue' \in Seq(Event)
      /\ pc' \in [Worker -> {"idle", "asking", "sleeping", "joining"}]
      /\ next' \in [Worker -> Event \union {NoEvent}]
      /\ pc'[w] \in {"asking", "sleeping", "joining"}
      /\ pc'[w] \in {"asking", "sleeping"} => next'[w] \in Event /\ capacity > 0
      /\ \A v \in Worker \ {w} : pc'[v] = pc[v] /\ next'[v] = next[v]
  BY <1>1, TurnFrame
<1>3. TypeOK'
  BY <1>1, <1>2 DEF TypeOK, StartBatch
<1>4. HandsFull'
  BY <1>2 DEF HandsFull, InHandOrAsleep
<1>5. SlotsHeld' /\ TasksDistinct'
  BY DEF SlotsHeld, TasksDistinct
<1>6. OverdrawBound'
  BY <1>1, <1>2, OverdrawEnter
<1>7. Custody'
  <2>1. \/ queue' = queue /\ (pc'[w] \in {"asking", "sleeping"} => next'[w] = NoEvent)
        \/ queue # <<>> /\ queue' = Tail(queue) /\ next'[w] = Head(queue)
    BY <1>1, TurnTakes
  <2>2. pc'[w] \in {"asking", "sleeping"} => next'[w] # NoEvent
    BY <1>2, ProcessorAssumption
  <2>3. TasksOf(w)' = TasksOf(w) /\ \A v \in Worker : TasksOf(v)' = TasksOf(v)
    BY DEF TasksOf
  <2>4. \A v \in Worker, e \in Event :
          Holds(v, e)' => \/ Holds(v, e)
                          \/ v = w /\ queue # <<>> /\ queue' = Tail(queue) /\ e = Head(queue)
    BY <1>2, <2>1, <2>2, <2>3 DEF Holds
  <2> QED
    BY <2>1, <2>4, CustodyKept
<1> QED
  BY <1>3, <1>4, <1>5, <1>6, <1>7

\* The sleep is over: the worker has the same event in its hands.
LEMMA WakeStep ==
  ASSUME IInv, NEW w \in Worker, Wake(w)
  PROVE  IInv'
<1> USE DEF IInv, taskVars, loopVars, histVars
<1>1. /\ pc[w] = "sleeping" /\ pc'[w] = "asking"
      /\ pc' \in [Worker -> {"idle", "asking", "sleeping", "joining"}]
      /\ \A v \in Worker \ {w} : pc'[v] = pc[v]
  BY DEF Wake, TypeOK
<1>2. TypeOK'
  BY <1>1 DEF Wake, TypeOK
<1>3. InHandOrAsleep' = InHandOrAsleep
  BY <1>1 DEF InHandOrAsleep, Wake
<1>4. HandsFull' /\ SlotsHeld' /\ TasksDistinct'
  BY <1>3 DEF HandsFull, SlotsHeld, TasksDistinct, Wake
<1>5. Custody'
  <2>1. \A v \in Worker, e \in Event : Holds(v, e)' => Holds(v, e)
    BY <1>1 DEF Holds, TasksOf, Wake
  <2> QED
    BY <2>1, CustodyIdle DEF Wake
<1>6. OverdrawBound'
  BY <1>3 DEF OverdrawBound, InHandOrAsleep, Wake
<1> QED
  BY <1>2, <1>4, <1>5, <1>6

\* Permission was answered: the event is started or dropped, and paid for.
LEMMA AnswerFrame ==
  ASSUME TypeOK, HandsFull, NEW w \in Worker, NEW permitted \in BOOLEAN, Answer(w, permitted)
  PROVE  /\ pc[w] = "asking" /\ next[w] \in Event /\ w \in InHandOrAsleep
         /\ capacity' = capacity - 1 /\ capacity - 1 \in Int /\ queue \in Seq(Event)
         /\ Turn(w, queue, capacity - 1, next[w])
         /\ UNCHANGED <<abort, sem, running, status, signal, enqueued, stopped, loop>>
         /\ prev' = [prev EXCEPT ![w] = next[w]]
         /\ \/ /\ ready' = ready \union {<<w, next[w], admits[next[w]] + 1>>}
               /\ admits' = [admits EXCEPT ![next[w]] = @ + 1]
               /\ admitted' = [admitted EXCEPT ![w] = TRUE]
               /\ disturbed' = disturbed
            \/ /\ disturbed' = TRUE
               /\ UNCHANGED <<ready, admits, admitted>>
BY DEF Answer, Advance, Grant, Refuse, HandsFull, InHandOrAsleep, TypeOK, loopVars

LEMMA AnswerKeeps ==
  ASSUME TypeOK, HandsFull, TasksDistinct,
         NEW w \in Worker, NEW permitted \in BOOLEAN, Answer(w, permitted)
  PROVE  /\ TypeOK' /\ HandsFull' /\ TasksDistinct'
         /\ \A e \in Event : admits'[e] >= admits[e]
<1>1. /\ next[w] \in Event
      /\ capacity' = capacity - 1 /\ capacity - 1 \in Int /\ queue \in Seq(Event)
      /\ Turn(w, queue, capacity - 1, next[w])
      /\ UNCHANGED <<abort, sem, running, status, signal, enqueued, stopped, loop>>
      /\ prev' = [prev EXCEPT ![w] = next[w]]
  BY AnswerFrame
<1>2. /\ queue' \in Seq(Event)
      /\ pc' \in [Worker -> {"idle", "asking", "sleeping", "joining"}]
      /\ next' \in [Worker -> Event \union {NoEvent}]
      /\ pc'[w] \in {"asking", "sleeping"} => next'[w] \in Event
      /\ \A v \in Worker \ {w} : pc'[v] = pc[v] /\ next'[v] = next[v]
  BY <1>1, TurnFrame
<1>3. \/ /\ ready' = ready \union {<<w, next[w], admits[next[w]] + 1>>}
         /\ admits' = [admits EXCEPT ![next[w]] = @ + 1]
         /\ admitted' = [admitted EXCEPT ![w] = TRUE]
         /\ disturbed' = disturbed
      \/ /\ disturbed' = TRUE
         /\ UNCHANGED <<ready, admits, admitted>>
  BY AnswerFrame
<1>4. /\ ready' \in SUBSET Task /\ admits' \in [Event -> Nat]
      /\ admitted' \in [Worker -> BOOLEAN] /\ disturbed' \in BOOLEAN
      /\ \A e \in Event : admits'[e] >= admits[e]
  <2>1. admits \in [Event -> Nat] /\ ready \in SUBSET Task /\ next[w] \in Event
        /\ admitted \in [Worker -> BOOLEAN] /\ disturbed \in BOOLEAN
    BY <1>1 DEF TypeOK
  <2>2. admits[next[w]] + 1 \in Nat \ {0}
    BY <2>1
  <2>3. <<w, next[w], admits[next[w]] + 1>> \in Task
    BY <2>1, <2>2 DEF Task
  <2>4. admits' \in [Event -> Nat] /\ \A e \in Event : admits'[e] >= admits[e]
    BY <1>3, <2>1
  <2> QED
    BY <1>3, <2>1, <2>3, <2>4
<1>5. TypeOK'
  BY <1>1, <1>2, <1>4 DEF TypeOK
<1>6. HandsFull'
  BY <1>2 DEF HandsFull, InHandOrAsleep
<1>7. TasksDistinct'
  <2>1. CASE ready' = ready
    BY <1>1, <1>3, <1>4, <2>1 DEF TasksDistinct, TypeOK, Task
  <2>2. CASE /\ ready' = ready \union {<<w, next[w], admits[next[w]] + 1>>}
             /\ admits' = [admits EXCEPT ![next[w]] = @ + 1]
    <3> DEFINE t == <<w, next[w], admits[next[w]] + 1>>
    <3>1. t[2] = next[w] /\ t[3] = admits[next[w]] + 1 /\ admits[next[w]] \in Nat
      BY <1>1 DEF TypeOK
    <3>2. t \notin running
      BY <3>1 DEF TasksDistinct
    <3>3. \A u \in ready \union running : u[2] \in Event /\ u[3] \in Nat
      BY DEF TypeOK, Task
    <3>4. \A u \in ready \union running : u[3] <= admits'[u[2]]
      BY <1>4, <3>3 DEF TasksDistinct, TypeOK
    <3>5. t[3] <= admits'[t[2]]
      BY <1>1, <2>2, <3>1 DEF TypeOK
    <3> QED
      BY <1>1, <2>2, <3>2, <3>4, <3>5 DEF TasksDistinct
  <2> QED
    BY <1>3, <2>1, <2>2
<1> QED
  BY <1>4, <1>5, <1>6, <1>7

LEMMA AnswerStep ==
  ASSUME IInv, NEW w \in Worker, NEW permitted \in BOOLEAN, Answer(w, permitted)
  PROVE  IInv'
<1> USE DEF IInv
<1>1. /\ pc[w] = "asking" /\ next[w] \in Event /\ w \in InHandOrAsleep
      /\ capacity' = capacity - 1 /\ capacity - 1 \in Int /\ queue \in Seq(Event)
      /\ Turn(w, queue, capacity - 1, next[w])
      /\ UNCHANGED <<abort, sem, running, status, signal, enqueued, stopped, loop>>
      /\ prev' = [prev EXCEPT ![w] = next[w]]
  BY AnswerFrame
<1>2. /\ queue' \in Seq(Event)
      /\ pc' \in [Worker -> {"idle", "asking", "sleeping", "joining"}]
      /\ next' \in [Worker -> Event \union {NoEvent}]
      /\ pc'[w] \in {"asking", "sleeping", "joining"}
      /\ pc'[w] \in {"asking", "sleeping"} => next'[w] \in Event /\ capacity - 1 > 0
      /\ \A v \in Worker \ {w} : pc'[v] = pc[v] /\ next'[v] = next[v]
  BY <1>1, TurnFrame
<1>3. \/ /\ ready' = ready \union {<<w, next[w], admits[next[w]] + 1>>}
         /\ admits' = [admits EXCEPT ![next[w]] = @ + 1]
         /\ admitted' = [admitted EXCEPT ![w] = TRUE]
         /\ disturbed' = disturbed
      \/ /\ disturbed' = TRUE
         /\ UNCHANGED <<ready, admits, admitted>>
  BY AnswerFrame
<1>4. TypeOK' /\ HandsFull' /\ TasksDistinct' /\ \A e \in Event : admits'[e] >= admits[e]
  BY AnswerKeeps
<1>5. SlotsHeld'
  BY <1>1 DEF SlotsHeld
<1>6. OverdrawBound'
  BY <1>1, <1>2, OverdrawPay
<1>7. Custody'
  <2>1. \/ queue' = queue /\ (pc'[w] \in {"asking", "sleeping"} => next'[w] = next[w])
        \/ queue # <<>> /\ queue' = Tail(queue) /\ next'[w] = Head(queue)
    BY <1>1, TurnTakes
  <2>2. Holds(w, next[w])
    BY <1>1 DEF Holds
  <2>3. \A v \in Worker, e \in Event :
          (\E t \in TasksOf(v)' : t[2] = e) =>
            (\E t \in TasksOf(v) : t[2] = e) \/ (v = w /\ e = next[w])
    BY <1>1, <1>3 DEF TasksOf
  <2>4. \A v \in Worker, e \in Event :
          Holds(v, e)' => \/ Holds(v, e)
                          \/ v = w /\ queue # <<>> /\ queue' = Tail(queue) /\ e = Head(queue)
    BY <1>2, <2>1, <2>2, <2>3 DEF Holds
  <2> QED
    BY <1>1, <2>1, <2>4, CustodyKept
<1> QED
  BY <1>4, <1>5, <1>6, <1>7

\* The batch is over: its worker has no task left and returns.
LEMMA JoinStep ==
  ASSUME IInv, NEW w \in Worker, Join(w)
  PROVE  IInv'
<1> USE DEF IInv, taskVars, histVars
<1>1. /\ pc[w] = "joining" /\ TasksOf(w) = {}
      /\ pc' = [pc EXCEPT ![w] = "idle"]
      /\ prev' = [prev EXCEPT ![w] = NoEvent]
      /\ abort' = [abort EXCEPT ![w] = FALSE]
      /\ capacity' = Refilled(w)
      /\ UNCHANGED <<queue, next, admitted, stopped>>
      /\ UNCHANGED <<taskVars, histVars>>
      /\ loop' \in {loop, "crashed"}
  BY DEF Join, JoinBatch, BatchOver
<1>2. capacity' = capacity \/ capacity' = QueueCapacity
  BY <1>1 DEF Refilled
<1>3. TypeOK'
  BY <1>1, <1>2, ProcessorAssumption DEF TypeOK
<1>4. InHandOrAsleep' = InHandOrAsleep
  BY <1>1 DEF InHandOrAsleep, TypeOK
<1>5. HandsFull' /\ SlotsHeld' /\ TasksDistinct'
  BY <1>1, <1>4 DEF HandsFull, SlotsHeld, TasksDistinct
<1>6. Custody'
  <2>1. \A v \in Worker, e \in Event : Holds(v, e)' => Holds(v, e)
    BY <1>1 DEF Holds, TasksOf, TypeOK
  <2> QED
    BY <1>1, <2>1, CustodyIdle
<1>7. OverdrawBound'
  <2>1. /\ Cardinality(InHandOrAsleep) \in Nat /\ Cardinality(Worker) \in Nat
        /\ Cardinality(InHandOrAsleep) <= Cardinality(Worker)
    BY MoveToHand, FS_CardinalityType, ProcessorAssumption DEF InHandOrAsleep
  <2>2. capacity + Cardinality(Worker) > Cardinality(InHandOrAsleep)
    BY DEF OverdrawBound, InHandOrAsleep
  <2>3. capacity' + Cardinality(Worker) > Cardinality(InHandOrAsleep)
    BY <1>2, <2>1, <2>2, ProcessorAssumption
  <2> QED
    BY <1>4, <2>3 DEF OverdrawBound, InHandOrAsleep
<1> QED
  BY <1>3, <1>5, <1>6, <1>7

-----------------------------------------------------------------------------
(* The tasks of a batch.                                                   *)

\* What a step of a task leaves alone.
TaskFrame == UNCHANGED <<queue, capacity, pc, prev, next, admitted, loopVars, admits, enqueued>>

\* A task that ends or is cancelled gives up its slot, or never had one.
LEMMA EndTask ==
  ASSUME IInv, TaskFrame, ready' \subseteq ready, running' \subseteq running,
         sem' \in Nat, SlotsHeld', abort' \in [Worker -> BOOLEAN],
         status' \in [Event -> Status], signal' \in [Event -> {"none", "clear", "set"}],
         disturbed' \in BOOLEAN
  PROVE  IInv'
<1> USE DEF IInv, TaskFrame, loopVars
<1>1. TypeOK'
  BY DEF TypeOK
<1>2. HandsFull' /\ TasksDistinct' /\ OverdrawBound'
  BY DEF HandsFull, InHandOrAsleep, TasksDistinct, OverdrawBound
<1>3. Custody'
  <2>1. \A v \in Worker, e \in Event : Holds(v, e)' => Holds(v, e)
    BY DEF Holds, TasksOf
  <2> QED
    BY <2>1, CustodyIdle
<1> QED
  BY <1>1, <1>2, <1>3

LEMMA SlotLeft ==
  ASSUME IInv, NEW t \in running, LeaveSlot(t)
  PROVE  sem' \in Nat /\ SlotsHeld' /\ running' \subseteq running
<1>1. /\ IsFiniteSet(running \ {t}) /\ Cardinality(running \ {t}) = Cardinality(running) - 1
      /\ Cardinality(running) \in Nat
  BY FS_RemoveElement, FS_CardinalityType DEF IInv, SlotsHeld
<1> QED
  BY <1>1, ProcessorAssumption DEF IInv, SlotsHeld, LeaveSlot, TypeOK

LEMMA StatusSet ==
  ASSUME TypeOK, NEW e \in Event, NEW s \in Status, SetStatus(e, s)
  PROVE  status' \in [Event -> Status] /\ signal' \in [Event -> {"none", "clear", "set"}]
BY DEF TypeOK, SetStatus

LEMMA BeginStep ==
  ASSUME IInv, NEW t, Begin(t)
  PROVE  IInv'
<1>1. /\ t \in ready /\ t \in Task /\ t[2] \in Event /\ sem > 0
      /\ ready' = ready \ {t} /\ UNCHANGED <<signal, procVars, loopVars, histVars>>
  BY DEF Begin, SlotFree, IInv, TypeOK, Task
<1>2. CASE Skips(t[2])
  <2>1. UNCHANGED <<sem, running, status>>
    BY <1>2 DEF Begin
  <2>2. SlotsHeld'
    BY <2>1 DEF IInv, SlotsHeld
  <2> QED
    BY <1>1, <2>1, <2>2, EndTask DEF IInv, TypeOK, TaskFrame, procVars, histVars
<1>3. CASE ~Skips(t[2])
  <2> USE DEF IInv, procVars, loopVars, histVars
  <2>1. /\ sem' = sem - 1 /\ running' = running \union {t}
        /\ status' = [status EXCEPT ![t[2]] = "processing"]
    BY <1>3 DEF Begin
  <2>2. TypeOK'
    BY <1>1, <2>1 DEF TypeOK, Status
  <2>3. t \notin running
    BY <1>1 DEF TasksDistinct
  <2>4. /\ IsFiniteSet(running') /\ Cardinality(running') = Cardinality(running) + 1
        /\ Cardinality(running) \in Nat
    BY <2>1, <2>3, FS_AddElement, FS_CardinalityType DEF SlotsHeld
  <2>5. SlotsHeld'
    BY <2>1, <2>4, ProcessorAssumption DEF SlotsHeld, TypeOK
  <2>6. ready' \union running' = ready \union running
    BY <1>1, <2>1
  <2>7. TasksDistinct'
    BY <1>1, <2>1, <2>3, <2>6 DEF TasksDistinct
  <2>8. HandsFull' /\ OverdrawBound'
    BY <1>1 DEF HandsFull, InHandOrAsleep, OverdrawBound
  <2>9. Custody'
    <3>1. \A v \in Worker, e \in Event : Holds(v, e)' => Holds(v, e)
      BY <1>1, <2>6 DEF Holds, TasksOf
    <3> QED
      BY <1>1, <3>1, CustodyIdle
  <2> QED
    BY <2>2, <2>5, <2>7, <2>8, <2>9
<1> QED
  BY <1>2, <1>3

LEMMA FinishStep ==
  ASSUME IInv, NEW t, NEW s \in Outcomes, Finish(t, s)
  PROVE  IInv'
<1>1. /\ t \in running /\ t[1] \in Worker /\ t[2] \in Event /\ LeaveSlot(t)
      /\ SetStatus(t[2], s) /\ ready' = ready /\ TaskFrame
  BY DEF Finish, IInv, TypeOK, Task, TaskFrame
<1>2. s \in Status
  BY DEF Outcomes, Status, Terminal
<1>3. abort' \in [Worker -> BOOLEAN] /\ disturbed' \in BOOLEAN
  <2>1. abort' = [abort EXCEPT ![t[1]] = abort[t[1]] \/ (~Hooked /\ s = "failed")]
    BY DEF Finish
  <2>2. abort \in [Worker -> BOOLEAN]
    BY DEF IInv, TypeOK
  <2>4. disturbed' \in BOOLEAN
    BY DEF Finish, IInv, TypeOK
  <2>3. (abort[t[1]] \/ (~Hooked /\ s = "failed")) \in BOOLEAN
    BY <1>1
  <2> QED
    BY <1>1, <2>1, <2>2, <2>3, <2>4
<1>4. status' \in [Event -> Status] /\ signal' \in [Event -> {"none", "clear", "set"}]
  BY <1>1, <1>2, StatusSet DEF IInv
<1> QED
  BY <1>1, <1>3, <1>4, SlotLeft, EndTask

LEMMA CancelReadyStep ==
  ASSUME IInv, NEW t, CancelReady(t)
  PROVE  IInv'
<1>1. /\ ready' = ready \ {t} /\ UNCHANGED <<sem, running, status, signal, abort, disturbed>>
      /\ TaskFrame
  BY DEF CancelReady, TaskFrame, procVars, histVars
<1>2. SlotsHeld'
  BY <1>1 DEF IInv, SlotsHeld
<1> QED
  BY <1>1, <1>2, EndTask DEF IInv, TypeOK

LEMMA CancelRunningStep ==
  ASSUME IInv, NEW t, CancelRunning(t)
  PROVE  IInv'
<1>1. /\ t \in running /\ t[2] \in Event /\ LeaveSlot(t)
      /\ UNCHANGED <<ready, abort, disturbed>> /\ TaskFrame
  BY DEF CancelRunning, IInv, TypeOK, Task, TaskFrame, procVars, histVars
<1>2. status' \in [Event -> Status] /\ signal' \in [Event -> {"none", "clear", "set"}]
  <2>1. "cancelled" \in Status
    BY DEF Status, Terminal
  <2> QED
    BY <1>1, <2>1, StatusSet DEF CancelRunning, IInv, TypeOK
<1> QED
  BY <1>1, <1>2, SlotLeft, EndTask DEF IInv, TypeOK

LEMMA CancelBodyStep ==
  ASSUME IInv, NEW w \in Worker, CancelBody(w)
  PROVE  IInv'
<1> USE DEF IInv, taskVars, loopVars, histVars
<1>1. /\ pc[w] \in {"asking", "sleeping"} /\ next[w] \in Event /\ pc'[w] = "joining"
      /\ pc' \in [Worker -> {"idle", "asking", "sleeping", "joining"}]
      /\ next' \in [Worker -> Event \union {NoEvent}]
      /\ \A v \in Worker \ {w} : pc'[v] = pc[v] /\ next'[v] = next[v]
      /\ UNCHANGED <<queue, capacity, ready, running, histVars>>
  BY DEF CancelBody, TypeOK, HandsFull, InHandOrAsleep
<1>2. TypeOK'
  BY <1>1 DEF CancelBody, TypeOK
<1>3. HandsFull' /\ SlotsHeld' /\ TasksDistinct'
  BY <1>1 DEF HandsFull, InHandOrAsleep, SlotsHeld, TasksDistinct, CancelBody
<1>4. Custody'
  <2>1. \A v \in Worker, e \in Event : Holds(v, e)' => Holds(v, e)
    BY <1>1 DEF Holds, TasksOf
  <2> QED
    BY <1>1, <2>1, CustodyIdle
<1>5. OverdrawBound'
  BY <1>1, OverdrawEnter
<1> QED
  BY <1>2, <1>3, <1>4, <1>5

LEMMA EnqueueStep ==
  ASSUME IInv, NEW e \in Event, Enqueue(e)
  PROVE  IInv'
<1> USE DEF IInv, taskVars, loopVars
<1>1. /\ queue' = Append(queue, e) /\ enqueued' = enqueued \union {e}
      /\ UNCHANGED <<capacity, pc, prev, next, admitted, abort, taskVars, loopVars,
                     admits, disturbed>>
      /\ e \notin enqueued
  BY DEF Enqueue
<1>2. /\ queue' \in Seq(Event) /\ DOMAIN queue = 1..Len(queue) /\ Len(queue) \in Nat
      /\ DOMAIN queue' = 1..(Len(queue) + 1)
      /\ \A i \in DOMAIN queue : queue'[i] = queue[i]
      /\ queue'[Len(queue) + 1] = e
  BY <1>1, AppendProperties, LenProperties DEF TypeOK
<1>3. TypeOK'
  BY <1>1, <1>2 DEF TypeOK
<1>4. HandsFull' /\ SlotsHeld' /\ TasksDistinct' /\ OverdrawBound'
  BY <1>1 DEF HandsFull, InHandOrAsleep, SlotsHeld, TasksDistinct, OverdrawBound
<1>5. Custody'
  <2> DEFINE n == Len(queue)
  <2>1. \A v \in Worker, f \in Event : Holds(v, f)' <=> Holds(v, f)
    BY <1>1 DEF Holds, TasksOf
  <2>2. /\ \A f \in Event, u \in Worker, v \in Worker : Holds(u, f) /\ Holds(v, f) => u = v
        /\ \A i \in DOMAIN queue, v \in Worker : ~Holds(v, queue[i])
        /\ \A i \in DOMAIN queue, j \in DOMAIN queue : queue[i] = queue[j] => i = j
        /\ \A i \in DOMAIN queue : queue[i] \in enqueued
        /\ \A f \in Event, v \in Worker : Holds(v, f) => f \in enqueued
    BY DEF Custody, OneBatchEach
  <2>3. \A i \in DOMAIN queue' : \/ i \in DOMAIN queue /\ queue'[i] = queue[i] /\ queue'[i] \in Event
                                 \/ i = n + 1 /\ queue'[i] = e
    BY <1>2 DEF TypeOK
  <2>4. \A f \in Event, i \in DOMAIN queue', v \in Worker : queue'[i] = f => ~Holds(v, f)'
    BY <1>1, <2>1, <2>2, <2>3
  <2>8. (\A i \in DOMAIN queue, v \in Worker : ~Holds(v, queue[i]))'
    BY <1>1, <2>3, <2>4
  <2>5. \A i \in DOMAIN queue', j \in DOMAIN queue' : queue'[i] = queue'[j] => i = j
    BY <1>1, <2>2, <2>3
  <2>6. /\ \A i \in DOMAIN queue' : queue'[i] \in enqueued'
        /\ \A f \in Event, v \in Worker : Holds(v, f)' => f \in enqueued'
    BY <1>1, <2>1, <2>2, <2>3
  <2>7. \A f \in Event, u \in Worker, v \in Worker : Holds(u, f)' /\ Holds(v, f)' => u = v
    BY <2>1, <2>2
  <2> QED
    BY <2>8, <2>5, <2>6, <2>7 DEF Custody, OneBatchEach
<1> QED
  BY <1>3, <1>4, <1>5

\* The task of a worker is cancelled inside process().
LEMMA CancelStep ==
  ASSUME IInv, NEW w \in Worker, Cancel(w)
  PROVE  IInv'
<1> USE DEF IInv, taskVars, loopVars
<1>1. TypeOK'
  BY DEF Cancel, TypeOK
<1>2. HandsFull' /\ SlotsHeld' /\ TasksDistinct' /\ OverdrawBound'
  BY DEF Cancel, HandsFull, InHandOrAsleep, SlotsHeld, TasksDistinct, OverdrawBound
<1>3. Custody'
  <2>1. \A v \in Worker, e \in Event : Holds(v, e)' => Holds(v, e)
    BY DEF Cancel, Holds, TasksOf
  <2> QED
    BY <2>1, CustodyIdle DEF Cancel
<1> QED
  BY <1>1, <1>2, <1>3

-----------------------------------------------------------------------------
(* The execute() loop, and all steps together.                             *)

\* Steps that only touch the stop signal and the loop.
LEMMA LoopOnlyStep ==
  ASSUME IInv, UNCHANGED <<procVars, taskVars, histVars>>,
         stopped' \in BOOLEAN, loop' \in {"off", "on", "crashed"}
  PROVE  IInv'
<1> USE DEF IInv, procVars, taskVars, histVars
<1>1. TypeOK'
  BY DEF TypeOK
<1>2. HandsFull' /\ SlotsHeld' /\ TasksDistinct' /\ OverdrawBound'
  BY DEF HandsFull, InHandOrAsleep, SlotsHeld, TasksDistinct, OverdrawBound
<1>3. Custody'
  <2>1. \A v \in Worker, e \in Event : Holds(v, e)' => Holds(v, e)
    BY DEF Holds, TasksOf
  <2> QED
    BY <2>1, CustodyIdle
<1> QED
  BY <1>1, <1>2, <1>3

LEMMA ContinueStep == IInv /\ Continue => IInv'
<1> SUFFICES ASSUME IInv, Continue PROVE IInv'
  OBVIOUS
<1>1. loop' \in {"off", "on", "crashed"} /\ stopped' \in BOOLEAN
  BY DEF Continue, IInv, TypeOK
<1>2. CASE StartBatch(Runner, queue)
  BY <1>1, <1>2, StartBatchStep, ProcessorAssumption DEF Continue
<1>3. CASE UNCHANGED procVars
  BY <1>1, <1>3, LoopOnlyStep DEF Continue
<1> QED
  BY <1>2, <1>3 DEF Continue

LEMMA NextIInv == IInv /\ [Next]_vars => IInv'
<1> SUFFICES ASSUME IInv, [Next]_vars PROVE IInv'
  OBVIOUS
<1>1. ASSUME NEW e \in Event, Enqueue(e) PROVE IInv'
  BY <1>1, EnqueueStep
<1>2. ASSUME NEW w \in Worker, Process(w) PROVE IInv'
  <2>1. loop' \in {"off", "on", "crashed"} /\ stopped' \in BOOLEAN
    BY <1>2 DEF Process, loopVars, IInv, TypeOK
  <2> QED
    BY <1>2, <2>1, StartBatchStep DEF Process
<1>3. ASSUME NEW w \in Worker, BatchStep(w) PROVE IInv'
  BY <1>3, WakeStep, AnswerStep, JoinStep, CancelBodyStep DEF BatchStep
<1>7. ASSUME NEW w \in Worker, Cancel(w) PROVE IInv'
  BY <1>7, CancelStep
<1>4. ASSUME NEW t \in ready \union running, TaskStep(t) PROVE IInv'
  BY <1>4, BeginStep, FinishStep, CancelReadyStep, CancelRunningStep DEF TaskStep
<1>5. CASE LoopStep
  <2>1. CASE Execute
    <3>1. loop' \in {"off", "on", "crashed"} /\ stopped' \in BOOLEAN
      BY <2>1 DEF Execute
    <3> QED
      BY <2>1, <3>1, StartBatchStep, ProcessorAssumption DEF Execute
  <2>2. CASE Continue
    BY <2>2, ContinueStep
  <2>3. CASE Stop \/ Start \/ CancelLoop
    BY <2>3, LoopOnlyStep DEF Stop, Start, CancelLoop, IInv, TypeOK
  <2> QED
    BY <1>5, <2>1, <2>2, <2>3 DEF LoopStep
<1>6. CASE UNCHANGED vars
  BY <1>6, LoopOnlyStep DEF vars, loopVars, IInv, TypeOK
<1> QED
  BY <1>1, <1>2, <1>3, <1>4, <1>5, <1>6, <1>7 DEF Next

LEMMA Invariance == Spec => []IInv
BY InitIInv, NextIInv, PTL DEF Spec

\* The variables of the processor keep their types, sem >= 0 among them.
THEOREM TypeCorrect == Spec => []TypeOK
<1>1. IInv => TypeOK
  BY DEF IInv
<1> QED
  BY <1>1, Invariance, PTL

\* At most concurrency_limit tasks are inside an event, whatever the number of
\* batches, and however their tasks end or are cancelled.
THEOREM ConcurrencyBounded == Spec => []ConcurrencyBound
<1>1. IInv => ConcurrencyBound
  BY FS_CardinalityType, ProcessorAssumption DEF IInv, TypeOK, SlotsHeld, ConcurrencyBound
<1> QED
  BY <1>1, Invariance, PTL

\* No two batches ever hold one event, whether in hand or in tasks, and none
\* holds an event that is still queued.
THEOREM EachEventHasOneBatch == Spec => []OneBatchEach
<1>1. IInv => OneBatchEach
  BY DEF IInv, Custody
<1> QED
  BY <1>1, Invariance, PTL

\* Concurrent batches overdraw the capacity by less than one event each.
THEOREM OverdraftBounded == Spec => []OverdrawBound
<1>1. IInv => OverdrawBound
  BY DEF IInv
<1> QED
  BY <1>1, Invariance, PTL
=============================================================================
