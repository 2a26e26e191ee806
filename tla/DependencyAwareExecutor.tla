----------------------- MODULE DependencyAwareExecutor -----------------------
(***************************************************************************)
(* operations/flow.py: one run of DependencyAwareExecutor.execute() over   *)
(* an acyclic operation graph.  alcall starts a task per operation, in the *)
(* order of the nodes; the tasks wait for each other on completion events, *)
(* share the results, the set of skipped operations and a capacity         *)
(* limiter, and pass messages on through the branches allocated up front.  *)
(***************************************************************************)
EXTENDS Integers, Sequences, FiniteSets

CONSTANTS
  Nodes,          \* the operations, in the order of graph.internal_nodes
  Edges,          \* the edges <<head, tail>>, in the order of internal_edges
  Conditional,    \* the edges that have a condition
  Given,          \* the operations that are COMPLETED already
  Heir,           \* the operations whose metadata say inherit_context
  Primary,        \* primary_dependency of each heir
  Sources,        \* aggregation_sources of each operation, none if it is no aggregation
  Branches,       \* the branches of the session before the flow
  Placed,         \* the operations with a branch_id: one was given, or they ran before
  Place,          \* that branch, the default one if the session does not have it
  MaxConcurrent,  \* max_concurrent of the flow, 0 for None
  Slots,          \* max_concurrent of alcall_params, 0 for None
  Timeouts,       \* TRUE: alcall_params has a retry_timeout
  Attempts        \* retry_attempts of alcall_params

Op == {Nodes[i] : i \in DOMAIN Nodes}
Path == {Edges[i] : i \in DOMAIN Edges}
Default == "default"

ASSUME FlowAssumption ==
  /\ \A i, j \in DOMAIN Nodes : Nodes[i] = Nodes[j] => i = j
  /\ Path \subseteq Op \X Op
  /\ Conditional \subseteq Path
  /\ Given \subseteq Op
  /\ Primary \in [Heir -> Op] /\ Heir \subseteq Op
  /\ Sources \in [Op -> SUBSET Op]
  /\ Default \in Branches /\ Branches \intersect Op = {}
  /\ Place \in [Placed -> Branches] /\ Placed \subseteq Op
  /\ MaxConcurrent \in Nat /\ Slots \in Nat /\ Attempts \in Nat
  /\ Timeouts \in BOOLEAN

VARIABLES
  at,       \* where each task is
  looked,   \* the incoming edges its operation has looked at in vain
  tries,    \* how often its attempt timed out
  status,   \* operation.execution.status
  done,     \* the operations whose completion event is set
  results,  \* "none" stands for the None of an operation that raised
  skipped,  \* skipped_operations
  msgs,     \* whose messages each branch holds
  pending,  \* the heirs that have not inherited
  outcome,  \* how execute() ended
  lenient   \* alcall_params has a retry_default or return_exceptions

vars == <<at, looked, tries, status, done, results, skipped, msgs, pending, outcome, lenient>>

\* The branch of an operation: the one it was given, or else a clone of its own if it
\* has predecessors or inherits.
Incoming(o) == {i \in DOMAIN Edges : Edges[i][2] = o}
Heads(o) == {Edges[i][1] : i \in Incoming(o)}
Branch(o) ==
  CASE o \in Placed -> Place[o]
    [] o \notin Placed /\ (Incoming(o) # {} \/ o \in Heir) -> o
    [] OTHER -> Default

\* The operations whose messages a branch holds before the flow.  A COMPLETED operation
\* has run in an earlier flow, and its method may have raised there.
Before(b) == {o \in Given \intersect Placed : Place[o] = b /\ results[o] = "value"}

Init ==
  /\ at = [o \in Op |-> "new"]
  /\ looked = [o \in Op |-> {}]
  /\ tries = [o \in Op |-> 0]
  /\ status = [o \in Op |-> IF o \in Given THEN "completed" ELSE "pending"]
  /\ done = Given
  /\ results \in [Op -> {"absent", "value", "none"}]
  /\ \A o \in Op : results[o] = "absent" <=> o \notin Given
  /\ skipped = {}
  /\ msgs = [b \in Op \union Branches |-> Before(b)]
  /\ pending = Heir
  /\ outcome = "running"
  /\ lenient \in BOOLEAN

Move(o, place) == at' = [at EXCEPT ![o] = place]
SetStatus(o, s) == status' = [status EXCEPT ![o] = s]
Store(o, r) == results' = [results EXCEPT ![o] = r]

\* The finally clause: the task is over, its waiters are woken.
Over(o) == Move(o, "over") /\ done' = done \union {o}

-----------------------------------------------------------------------------
(* alcall: the semaphore is taken in the order of the nodes and held to    *)
(* the end of the task, through waits and retries.                         *)

Inside == {o \in Op : at[o] \notin {"new", "over", "lapsed", "cancelled"}}
SlotFree == Slots = 0 \/ Cardinality(Inside) < Slots
IsNext(o) == \E i \in DOMAIN Nodes :
  Nodes[i] = o /\ \A j \in 1..(i - 1) : at[Nodes[j]] # "new"

FirstWait(o) ==
  CASE Incoming(o) # {} -> "edges"
    [] Incoming(o) = {} /\ Sources[o] # {} -> "deps"
    [] OTHER -> "limiter"

\* _execute_operation, up to its first await.
Begin(o) ==
  /\ at[o] = "again" \/ (at[o] = "new" /\ IsNext(o) /\ SlotFree)
  /\ IF status[o] = "completed"
       THEN Over(o) /\ UNCHANGED looked
       ELSE /\ Move(o, FirstWait(o))
            /\ looked' = [looked EXCEPT ![o] = {}]
            /\ UNCHANGED done
  /\ UNCHANGED <<tries, status, results, skipped, msgs, pending, outcome, lenient>>

(***************************************************************************)
(* _check_edge_conditions: edge by edge, wait for the head; a path is      *)
(* valid if the head was not skipped and the condition, if any, holds.     *)
(***************************************************************************)
Failed(o) ==
  /\ SetStatus(o, "failed")
  /\ Store(o, "error")
  /\ Over(o)
  /\ UNCHANGED <<looked, skipped>>

SkippedUnsaid(o) ==  \* mutant: the waiters are not woken
  /\ SetStatus(o, "skipped")
  /\ skipped' = skipped \union {o}
  /\ Move(o, "over")
  /\ UNCHANGED <<looked, done, results>>

Skipped(o) ==
  /\ SetStatus(o, "skipped")
  /\ skipped' = skipped \union {o}
  /\ Over(o)
  /\ UNCHANGED <<looked, results>>

Blocked(o, i) ==
  IF Incoming(o) = looked[o] \union {i} THEN Skipped(o)
  ELSE /\ looked' = [looked EXCEPT ![o] = @ \union {i}]
       /\ UNCHANGED <<at, done, status, results, skipped>>

Unblocked(o) ==
  /\ Move(o, "deps")
  /\ UNCHANGED <<looked, done, status, results, skipped>>

\* The condition raises, or to_dict() cannot convert the result it is to see.
MayRaise(i) == Edges[i] \in Conditional \/ results[Edges[i][1]] = "value"

CheckEdge(o) ==
  /\ at[o] = "edges"
  /\ \E i \in Incoming(o) \ looked[o] :
       /\ \A j \in Incoming(o) \ looked[o] : i <= j
       /\ Edges[i][1] \in done
       /\ \/ Edges[i][1] \in skipped /\ Blocked(o, i)
          \/ Edges[i][1] \notin skipped /\ Unblocked(o)
          \/ Edges[i][1] \notin skipped /\ Edges[i] \in Conditional /\ Blocked(o, i)
          \/ Edges[i][1] \notin skipped /\ MayRaise(i) /\ Failed(o)
  /\ UNCHANGED <<tries, msgs, pending, outcome, lenient>>

\* _wait_for_dependencies: all sources of an aggregation and all predecessors, not
\* only the one with the path.
SomeReady(o) == \E h \in Heads(o) : h \in done  \* mutant: one is enough
AllReady(o) == Sources[o] \union Heads(o) \subseteq done

WaitForDependencies(o) ==
  /\ at[o] = "deps"
  /\ AllReady(o)
  /\ Move(o, "limiter")
  /\ UNCHANGED <<looked, tries, status, done, results, skipped, msgs, pending, outcome, lenient>>

(***************************************************************************)
(* Inside the limiter: _prepare_operation hands on the messages of the     *)
(* primary dependency, if that has a result, unless the operation has a    *)
(* branch_id: then no branch waits for them.  Then the operation runs.     *)
(***************************************************************************)
LimiterFree ==
  MaxConcurrent = 0 \/ Cardinality({o \in Op : at[o] = "invoking"}) < MaxConcurrent

Inherits(o) == o \in pending \ Placed /\ results[Primary[o]] # "absent"

NotInherited(o) == msgs  \* mutant: the pending inheritance is forgotten
Inherited(o) ==
  IF Inherits(o) THEN [msgs EXCEPT ![o] = msgs[Branch(Primary[o])]] ELSE msgs

Enter(o) ==
  /\ at[o] = "limiter"
  /\ LimiterFree
  /\ msgs' = Inherited(o)
  /\ pending' = IF Inherits(o) THEN pending \ {o} ELSE pending
  /\ SetStatus(o, "processing")
  /\ Move(o, "invoking")
  /\ UNCHANGED <<looked, tries, done, results, skipped, outcome, lenient>>

\* to_dict() cannot convert the result of a predecessor.
Unprepared(o) ==
  /\ at[o] = "limiter"
  /\ LimiterFree
  /\ \E h \in Heads(o) \ skipped : results[h] = "value"
  /\ Failed(o)
  /\ UNCHANGED <<tries, msgs, pending, outcome, lenient>>

\* operation.invoke() swallows what the method raises and leaves no response;
\* the executor stores that None and marks the operation COMPLETED.
Respond(o) ==
  /\ \/ Store(o, "value") /\ msgs' = [msgs EXCEPT ![Branch(o)] = @ \union {o}]
     \/ Store(o, "none") /\ UNCHANGED msgs
  /\ SetStatus(o, "completed")
  /\ Over(o)
  /\ UNCHANGED <<looked, skipped>>

\* No such operation: the exception is the executor's to handle.
Unsupported(o) == Failed(o) /\ UNCHANGED msgs

Invoked(o) ==
  /\ at[o] = "invoking"
  /\ Respond(o) \/ Unsupported(o)
  /\ UNCHANGED <<tries, pending, outcome, lenient>>

(***************************************************************************)
(* retry_timeout cancels an attempt wherever it is, in a wait too, and the *)
(* finally clause sets the completion event all the same.  After the last  *)
(* attempt alcall cancels the other tasks and execute() raises; but with a *)
(* retry_default or return_exceptions the task just ends, without a result,*)
(* and the others go on.                                                   *)
(***************************************************************************)
Cancelled(o) == IF at[o] = "invoking" THEN "cancelled" ELSE status[o]

AttemptsLeft(o) == tries[o] < Attempts

Retry(o) ==
  /\ AttemptsLeft(o)
  /\ Move(o, "again")
  /\ SetStatus(o, Cancelled(o))
  /\ done' = done \union {o}
  /\ UNCHANGED outcome

LetGo(o) ==
  /\ ~AttemptsLeft(o) /\ lenient
  /\ Move(o, "lapsed")
  /\ SetStatus(o, Cancelled(o))
  /\ done' = done \union {o}
  /\ UNCHANGED outcome

GiveUp(o) ==
  /\ ~AttemptsLeft(o) /\ ~lenient
  /\ at' = [p \in Op |-> IF at[p] = "over" THEN "over" ELSE "cancelled"]
  /\ status' = [p \in Op |-> Cancelled(p)]
  /\ done' = done \union Inside
  /\ outcome' = "raised"

Timeout(o) ==
  /\ Timeouts
  /\ at[o] \in {"edges", "deps", "limiter", "invoking"}
  /\ tries' = [tries EXCEPT ![o] = @ + 1]
  /\ Retry(o) \/ LetGo(o) \/ GiveUp(o)
  /\ UNCHANGED <<looked, results, skipped, msgs, pending, lenient>>

\* All tasks are over: execute() returns its report.
Return ==
  /\ outcome = "running"
  /\ \A o \in Op : at[o] \in {"over", "lapsed"}
  /\ outcome' = "returned"
  /\ UNCHANGED <<at, looked, tries, status, done, results, skipped, msgs, pending, lenient>>

CompletedOperations == {o \in Op : results[o] # "absent"} \ skipped

-----------------------------------------------------------------------------
Step(o) ==
  \/ Begin(o)
  \/ CheckEdge(o)
  \/ WaitForDependencies(o)
  \/ Enter(o)
  \/ Unprepared(o)
  \/ Invoked(o)

Next == Return \/ \E o \in Op : Step(o) \/ Timeout(o)

Spec == Init /\ [][Next]_vars

\* asyncio runs every resumable task, and the methods of the branch return.
Fairness == WF_vars(Return) /\ \A o \in Op : WF_vars(Step(o))

FairSpec == Spec /\ Fairness

-----------------------------------------------------------------------------
TypeOK ==
  /\ at \in [Op -> {"new", "edges", "deps", "limiter", "invoking", "again",
                    "over", "lapsed", "cancelled"}]
  /\ looked \in [Op -> SUBSET DOMAIN Edges]
  /\ tries \in [Op -> 0..(Attempts + 1)]
  /\ status \in [Op -> {"pending", "processing", "completed", "failed",
                        "cancelled", "skipped"}]
  /\ done \in SUBSET Op
  /\ results \in [Op -> {"absent", "value", "none", "error"}]
  /\ skipped \in SUBSET Op
  /\ msgs \in [Op \union Branches -> SUBSET Op]
  /\ pending \in SUBSET Heir
  /\ outcome \in {"running", "returned", "raised"}
  /\ lenient \in BOOLEAN

Expired == {o \in Op : tries[o] > 0}

Phase(o) ==
  IF o \in Given THEN "ran"
  ELSE CASE at[o] = "invoking" -> "running"
         [] at[o] \in {"lapsed", "cancelled"} -> "stopped"
         [] at[o] = "over" -> IF o \in skipped THEN "skipped" ELSE "ran"
         [] OTHER -> "waiting"

\* The tasks, events and limiters implement the order of the graph: an operation
\* runs after all its predecessors and if a path is left, else it is skipped.
Graph == INSTANCE Dependencies WITH phase <- [o \in Op |-> Phase(o)], expired <- Expired
FollowsTheGraph == Graph!Spec

\* A flow that returns has a result for every operation that it did not skip, its
\* status says which, and nobody can still be waiting for it.  Only an operation whose
\* attempts have all timed out has neither, and only if alcall_params tolerate that.
AllAccountedFor ==
  outcome = "returned" =>
    /\ done = Op
    /\ \A o \in Op :
         /\ status[o] = "skipped" <=> o \in skipped
         /\ o \in skipped => results[o] = "absent"
         /\ results[o] = "absent" /\ o \notin skipped => tries[o] > Attempts /\ lenient

\* An operation that inherits context and was given no branch runs on a branch that has
\* the messages of its primary dependency, if that has returned a value, in this flow
\* or on a known branch in an earlier one.
ContextInherited ==
  \A o \in Heir \ Placed :
    LET p == Primary[o] IN
    at[o] = "invoking" /\ results[p] = "value" /\ p \notin Expired \union (Given \ Placed)
      => p \in msgs[o]

Ordered ==
  \A i, j \in DOMAIN Nodes : <<Nodes[i], Nodes[j]>> \in Path => i < j

\* The flow ends, whatever is skipped, raises or times out: no completion event
\* is forgotten, and tasks that wait inside the semaphore of alcall do not shut
\* out the ones they wait for, as long as the nodes are in topological order and the
\* sources of an aggregation are among its predecessors, as the builder links them.
Linked == \A o \in Op : Sources[o] \subseteq Heads(o)
FlowEnds == Linked /\ (Slots = 0 \/ Ordered) => <>(outcome # "running")

\* The report only includes actually completed operations: their method returned.
OnlyCompleted ==
  outcome = "returned" => \A o \in CompletedOperations : results[o] = "value"

\* An operation with inherit_context inherits, from the previous one with chain_context.
ChainInherits == \A o \in Heir : at[o] = "invoking" => o \notin pending
=============================================================================
