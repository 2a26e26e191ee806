# A TLA+ model of the vynix runtime

vynix (imported as `lionagi`) is an asyncio framework for orchestrating language-model
calls.  This directory models the part of it in which tasks meet: the batch processor that
all model calls go through, the circuit breaker and the retry loops around an endpoint, the
graph of operations, its builder and the flow that runs it, the branches that hold the
conversations and the session that holds the branches, the pool of connections to tool
servers, and the ordered collection in which all of them keep their elements.  Sources are
named relative to `src/vynix/`.

## 1. Inventory

asyncio is cooperative: code between two awaits that suspend is atomic, and everything that
is hard happens at those awaits.  The lists below say, per component, the state, the
operations, whom it interacts with, what is hard, and what makes it correct.

| component | state | operations | interacts with | hard | correct if |
|---|---|---|---|---|---|
| **Processor** `protocols/generic/processor.py` | queue, available capacity, semaphore, stop event | `enqueue`, `process`, `execute`, `start`, `stop` | is run by several tasks at once; runs `event.invoke()` in a task group | capacity read before an await and charged after; one event's exception, or a cancellation, ends its batch; `stop` racing `execute` | slots are bounded and returned, an event has one batch, a loop that goes on drains the queue, a stopped loop ends |
| **Executor** (same file) | pile of events, pending order | `append`, `forward`, `start`, `stop` | iModel appends, the caller's task forwards and runs the batch | a caller's event may run in another caller's batch | a call finds its event at the end |
| **Rate-limited processor** `service/rate_limited_processor.py` | request and token limiters, replenisher task | `request_permission`, `start_replenishing`, `stop`, `create` | consulted by `process` | limiter tokens belong to the task that borrowed them | the limit is per cycle |
| **Event / HookedEvent** `protocols/generic/event.py`, `service/hooks/` | status, response, error, lazily created completion event | `invoke`, `stream`, status setter | processor tasks write, callers wait | some writes bypass the setter that signals | terminal status wakes the waiters, and is final |
| **iModel** `service/imodel.py` | endpoint, executor, hooks | `invoke`, `stream`, `close`, `copy` | everything above | ten-second wait, concurrent and cancelled callers, abandoned streams, shared events, `close` under calls | each call runs its event once and returns it finished |
| **CircuitBreaker, retry** `service/resilience.py` | circuit state, failure count, half-open calls, last failure time | `execute`, `_check_state`, `_change_state`; `retry_with_backoff` | shared by all calls of an endpoint | calls end in another state than they were admitted in; cancellation | opens on failures, probes, recovers |
| **Endpoint** `service/connections/endpoint.py` | config, breaker, retry config | `call`, `stream` | nests backoff in retry in breaker | attempts multiply, go on while the circuit opens | bounded number of requests; recovery is found out |
| **Flow** `operations/flow.py`, `operations/node.py`, `ln/_async_call.py` | results, completion events, skipped set, branches | `execute` | task per operation through `alcall`, waits on events, branches hold messages | skips and conditions, timeouts with retry, two limiters, shared branches | order of the graph, everything accounted for, context inherited, it ends |
| **Graph builder** `operations/builder.py` | graph, current heads | `add_operation`, `expand_from_result`, `add_aggregation` | feeds the flow | calls that raise half-way; order and context of expanded operations | no unknown node, no cycle |
| **Graph** `protocols/graph/` | nodes, edges, adjacency | add/remove, queries, acyclicity, paths | builder, flow | several maps in step; `find_path` awaits conditions while the graph changes | adjacency mirrors edges, a path that is found is there |
| **Pile, Progression, Flow container** `protocols/generic/` | dict and order, locks | include, pop, insert, update, move ... | used everywhere | exceptions half-way; a lock created lazily, changes and reads without it | order and dict hold the same ids |
| **MessageManager** `protocols/messages/` | pile of messages, system message | `add_message`, `set_system`, `clear`, `to_chat_msgs` | branches | system message at the head; requests and responses tied; messages used again | exchanges whole, the prompt shows all of them |
| **Action manager, act** `protocols/action/`, `operations/act/` | registry of tools | `register`, `invoke`, `act` | branch, message manager | concurrent actions log into one conversation | each request gets its response |
| **Session, Branch** `session/` | branches, default branch | `new_branch`, `split`, `remove_branch`, `flow` | flow, messages | removal of the default branch | the default is a member |
| **DataLogger** `protocols/generic/log.py` | log pile | `log`, `dump`, `save_at_exit` | hooks, branches | dump and clear between tasks | nothing is lost or written twice |
| **Broadcaster** `service/broadcaster.py` | weak subscriber list | `subscribe`, `unsubscribe`, `broadcast` | hooks | changes during a broadcast | live subscribers get the event once |
| **MCP pool** `service/connections/mcp/wrapper.py` | clients, lock | `get_client`, `cleanup` | tools | connect and disconnect across awaits, under the lock; lost connections, disconnections that raise, cancellation | no open connection outside the pool |
| **Concurrency patterns** `ln/concurrency/` | task groups, streams | `gather`, `race`, `bounded_map`, `CompletionStream`, `retry` | utilities | cancellation, early exit | order, first result, limit |
| Message types, models, schema/file/validation libraries, providers, adapters, data helpers | - | conversions, I/O | - | - | not state machines; see `PROJECT.json` for the reasons |

`PROJECT.json` repeats the list with a status for each component, and names every hazard at
its line with the properties that cover it, or the reason why none does.

## 2. Modules

| module | models | composes |
|---|---|---|
| `Processor` | `Processor`: workers inside `process()`, the tasks of their batches, the `execute()` loop | |
| `RateLimitedProcessor` | `request_permission()`, the replenisher | extends `Processor` |
| `IModel` | `Executor.append/forward` and `iModel.invoke/stream/close` | extends `RateLimitedProcessor` |
| `MCIModel` | definitions for TLC's instances of `IModel` | |
| `CircuitBreaker` | `CircuitBreaker.execute()` | |
| `Endpoint` | `Endpoint.call()`: backoff inside retry inside the breaker | extends and refines `CircuitBreaker` |
| `Dependencies` | abstract: what order a flow promises its operations | |
| `DependencyAwareExecutor` | `operations/flow.py`, with `alcall` and `Operation.invoke` | refines `Dependencies` |
| `MCFlow` | TLC's graphs: a diamond, and what the builder makes of a chain | |
| `Graph` | `protocols/graph/graph.py`: nodes, edges, adjacency, `find_path()` | |
| `GraphAlgorithms` | `is_acyclic()`, `topological_sort()`, against the definition of a cycle | extends `Graph` |
| `OperationGraphBuilder` | `operations/builder.py` | extends `Graph` |
| `MessageManager` | the messages of a branch, and the prompt `chat()` makes of them, as operators | |
| `Branch` | `communicate`, `operate`, `act`, `clear_messages`, `set_system` by several tasks | extends `MessageManager` |
| `Session` | `session/session.py`, and what a flow does to the branches | extends `Branch` |
| `MCPConnectionPool` | `service/connections/mcp/wrapper.py` | |
| `Progression` | the methods of `Progression` that a pile uses, as operators | |
| `OrderedSet` | abstract: what a pile promises its callers | |
| `Pile` | `Pile`: calls of several threads, the lock, the dict and the order | extends `Progression`, refines `OrderedSet` |
| `MCPile` | TLC's calls on a pile | |
| `ProcessorProofs`, `IModelProofs`, `EndpointProofs`, `FlowProofs`, `GraphProofs`, `SessionProofs`, `MCPConnectionPoolProofs`, `PileProofs` | theorems | |

### Processor, RateLimitedProcessor, IModel

One action is the code between two awaits that may suspend.  A worker is an asyncio task
that calls `process()`; `pc` says which await it is at: `asking` (`request_permission`),
`sleeping` (`capacity_refresh_time`), `joining` (leaving the task group), `idle` (not in
`process()`).  `prev`, `next`, `admitted` are its locals.  A batch task `<<w, e, k>>` is the
k-th start of event `e`, in the task group of worker `w`; it is in `ready` until it has a slot
of `_concurrency_sem` and in `running` inside `invoke()`.  `abort[w]` says that the task group
of `w` is being cancelled, because an event raised (`Finish`) or because the task that calls
`process()` was cancelled from outside (`Cancel`): `CancelReady`, `CancelRunning` and
`CancelBody` deliver it.  An event that is refused permission, or that a cancelled batch has in
hand, is gone: it was taken off the queue, and nothing keeps it.
`signal` is the lazily created completion event.  `Turn` is the head of the while loop; it
runs in the same step as what precedes it.

When no limiter is configured `request_permission()` does not await, so nothing else runs
while a worker is `asking` (constant `AskSuspends`, operators `Scheduled`, `Idle`).  In
`RateLimitedProcessor`, `borrowers` are the tasks holding a token of the request limiter, as
anyio counts them; the token limiter is never acquired from, so it is a constant.

`IModel` adds the pile and the pending order of the executor and the callers: `at` says
whether a caller is in its batch (`batch`), in the ten-second wait (`wait`), or in which part of
`stream()`: waiting for a slot, in the endpoint, or suspended at one of its yields.  `Invoke` is
everything up to the first suspension: `create_event`, `start`, `append`, `forward` and the head
of `process()`.  A call may create its event, or be given one as `api_call` that other calls have
had or have (`Given`); `stream()` does not append such an event to the pile.  `CancelCall` cancels
a caller wherever it is suspended: `except Exception` does not see it, the event stays in the pile,
and a cancelled batch leaves the capacity as it is.  A consumer goes on with its stream, leaves it
alone, or closes it at a chunk (`StreamThrow`): the finally clause then yields, `aclose()` raises
RuntimeError, and the generator stays suspended with its slot, at `thrown`, until it is
finalized.  The history variables `admits`, `enqueued`, `disturbed` and `outcome` serve properties
only.

### CircuitBreaker, Endpoint

The breaker's lock is never held across an await that suspends, so each critical section is
one step: `Call` is `_check_state()`, `Succeed` and `Fail` are the two recordings,
`PassThrough` the exits that record nothing (excluded exceptions, cancellation).  Time is the
flag `elapsed`: a failure clears it, `Elapse` sets it.  `fresh` and `silent` are histories of
the current circuit state: its own calls in flight, and those that left it unnoticed.
`Endpoint` replaces a call's body by its requests: `stage` is `sending`, in the inner
`backoff`, or `sleeping` between retries.  `max_retries` of the endpoint is `MaxTries`, of which 0
stands for no end, as `backoff` has it (a negative number does the same).  `recovered` is the
service's: from some step on no request raises.  `cache_control` is off.

### Dependencies, DependencyAwareExecutor

`at[o]` is the await the task of operation `o` is at: waiting for the head of an incoming
edge (`edges`), for all its predecessors (`deps`), for the limiter, in the branch's method
(`invoking`), or in the pause before another attempt (`again`).  `done` is the set of
completion events that are set.  The value of an edge condition is nondeterministic, and so
is whether the method returns, raises or times out.  `msgs` keeps, for each branch, whose
messages are in it; that is all that context inheritance tells apart.  An operation that has a
`branch_id`, because it was given a branch or ran in an earlier flow, is `Placed`: it gets no
branch of its own and inherits nothing.  `Sources` are what an aggregation waits for beside its
predecessors.  `lenient` says that `alcall_params` have a `retry_default` or `return_exceptions`:
an operation whose attempts are used up then just ends (`LetGo`), while otherwise the flow is
cancelled (`GiveUp`).  What cannot be converted for a condition or for the context makes an
operation fail (`MayRaise`, `Unprepared`).  `Dependencies` knows
no tasks and no events: an operation waits, runs, and has run or was skipped, and its
attempts may expire.  The refinement mapping is `Phase`, and `expired` is `tries > 0`.

### Graph, GraphAlgorithms, OperationGraphBuilder

Nodes and edges are numbered in the order in which they are made, so that a Python dict of
edge ids is iterated in the order of the numbers, and an edge that was removed keeps its
number.  The methods that change a graph are synchronous and hold its lock: each is one step,
and `AddAll` is a sequence of `add_node()` and `add_edge()` that all succeed.  `find_path()`
awaits the condition of every edge it follows.  A suspended search holds an iterator of the
dict of edges that leave `cur`: `todo` are the keys that iterator has still to yield, `drift`
by how much the dict has grown or shrunk since, which makes the next step of the iterator
raise; a node that was removed takes its dict along.  `calm` is a history: nothing has changed
since the search began.  Synchronous runs of the search, over edges to nodes already seen,
are one step (`Stops`, `NextNode`).

`visit()` of `is_acyclic()` is a function of the depth to which calls may be nested, and the
sort one of the number of rounds; both bounds are the number of nodes, and section 6 says why
they are never met.  A cycle is an edge whose tail `Reaches` its head: no set of nodes that has
the one, and that no edge leaves, is without the other.

A builder's call adds its operation, registers it, and then adds edges one by one; `Build`
lets it raise at the first edge that names a node that its owner has taken out of the graph,
and leaves what was done until then.  `MCFlow` checks the flow on a graph that the builder
makes of a chain.

### MessageManager, Branch, Session

A message is known by its kind and by what it belongs to: `<<e, 0>>` is exchange `e` with the
model, `<<e, k>>` its k-th tool call.  The context of an instruction is the set of tool outputs
it shows.  A response and an output also name what they answer, which is something else than their
own exchange when the caller passed an `Instruction` or an `ActionRequest` that the branch holds:
such a message keeps its place.  `Prompt` is what `chat()` sends: outputs go into the context of the instruction that
follows them, consecutive responses are merged, consecutive instructions too, and the
exchange's own instruction comes last.  `Merged` is written back to the branch because the
copies that `chat()` makes share their lists with the stored instructions.

A task is suspended while the model answers (`at` is `chat`) and while tools run (`act`).
`Ask` is everything up to the call of the model, with a new instruction (`AskNew`) or one used
again (`AskAgain`), whose context `chat()` extends in place (`Shown`); `Answered` adds instruction and response and
makes the tool calls; `ActNew` and `ActAgain` are `Branch.act()` by itself; and `ToolEnds` is `_act()` from where the tool is done: it has an output,
or it failed or returned a false value, or it was unknown.  `Interrupted` is a failed or
cancelled model call, and the cancellation of tools.  Any task uses any branch, removed ones
included, and `ClearMessages` and `SetSystem` come at any time.

`Session` adds the branches, the default branch, and `operable`, the branches that got the
session's operation manager.  A flow is `FlowBegins`, up to the lock that the allocation
waits for, `FlowAllocates`, which clones the default branch as it is then, and
`FlowInherits`, which may take any branch for that of the primary dependency: more than the
code does, which is on the safe side for the properties here; what context is inherited is the
matter of `DependencyAwareExecutor`.

### MCPConnectionPool

A client is known by its key: the name of a server of `.mcp.json`, or the identity of an inline
configuration.  `pc[t]` is the await a task is at: the pool's lock, `__aenter__` of a client
(`connecting`), the loop of `cleanup()` with the keys it has still to disconnect in `left`
(`cleaning`), or a tool call (`using`).  `Turn` is the whole code from acquiring the lock to
the next await.  Every await may be cancelled (`ConnectFails`, `CleanupCancelled`, `Leave`), a
connection attempt may fail, and an open connection may be lost (`Lose`).  An `__aexit__()` that
raises is logged and its client forgotten, which leaves the connection open (`refused`).  The
order in which `cleanup()` visits the clients is left open.

### Progression, OrderedSet, Pile

A progression is the record of its order and of the cached set of its members; its
operators keep Python's indices, `deque.insert`'s clamping, and the order in which several
elements are inserted.  A pile is called by threads: `at[t]` is where a thread is, `check` in
the look that `remove` and `exclude` take before they call `pop`, `lock`, `make` and `read`
inside the property `lock`, `take` waiting for the lock, and then `look`, `order` and `dict`,
the three parts of a method's body: what it reads, its change of the progression, and its
change of the dict (`clear` changes the dict first).  `seen[t]` is what it read, `mine[t]` the
lock object it uses.  The reads that take no lock of the pile, `values`, `items`, `filter`,
`pile[i]` and the iterators, take their view of the order at `copy` and look up one element
after the other at `scan`; between two of an iterator's elements its caller lets others go on,
under an owner's lock too.  `values` and `items` read the deque of the order itself; that Python
refuses to go on with a deque that has changed, or goes on with one that was replaced, is
abstracted to: they may stop as soon as the order is not what it was.
`mode` says how the pile is used: whether an owner makes every call
under a lock of its own, as the `Flow` container does (and, which comes to the same, as the
tasks of one event loop do), whether its lock has yet to be created, and which calls are
made.  `spoiled` is a history of the pops that cannot be done as asked: a slice, or a list in which an
id is missing or repeated.  `OrderedSet` is one sequence: an element is in it when both the order
and the dict have it, so that an insertion takes effect with the dict and a removal with the order.
What the pile keeps beside the id of an element is not modelled: `update` of an element that
is there changes nothing.

## 3. Runs

| run | instance | shows |
|---|---|---|
| `processor` | 2 workers, one of them the `execute()` loop, 2 plain events, queue of 2, capacity 2, one slot | slots and capacity stay bounded and every event has one batch under failing events, cancelled tasks, refusals, `stop()` and `start()`; a loop that goes on drains the queue, a stopped one ends |
| `imodel` | 2 callers, 3 events, capacity 2, one slot, no rate limits, 1 cancellation | while callers do not outnumber the capacity, and until one is cancelled: each event once, by its own batch, and final; what the pile keeps of calls that are over |
| `imodel_busy` | 2 callers, 2 events, one of them passed as `api_call`, capacity 1, request limit 2, streams, 1 cancellation, one `close()` | what is left when they do: no slot lost but to a stream that has not ended, no wake-up lost, no `pop` of a created event that fails, every call returns |
| `endpoint` | 3 calls, threshold 2, one probe, 2 tries, 1 retry, three kinds of exceptions | the breaker under late answers, cancellation and nested retries; the circuit closes for good after the service has recovered |
| `flow` | diamond with conditions and an aggregation, one operation of an earlier flow, one with a given branch, limiter 1, 2 `alcall` slots, 1 retry, tolerant or not | the flow refines `Dependencies`, inherits context and ends |
| `pile` | 2 threads, 3 elements, 4 calls; calls of every kind under an owner's lock, calls that reorder under it, locked methods and unlocked reads without an owner, and pops of slices and of bad lists in both | the dict and the order agree whenever no method runs, and differ in one direction after a bad pop; which reads may be torn; the pile refines `OrderedSet` until then |
| `graph` | 3 nodes, 3 edges, 1 search | the adjacency mirrors the edges; both acyclicity tests and the order agree with the definitions; an undisturbed search finds a shortest path; a path found while the graph changes is there |
| `builder` | 4 nodes, 4 edges, no search | whatever raises half-way, every node is known to the builder and no edge leads backwards |
| `branch` | 2 tasks, 1 branch, 2 exchanges, 2 tool calls each, new messages and used ones | exchanges stay whole, the system message first, the next prompt shows every exchange and every output |
| `session` | a default branch and two that are made, split or allocated; 1 task with 1 exchange | the default branch stays a member, the system message first in clones and heirs |
| `mcp` | 2 tasks, 2 servers, 1 inline configuration, 3 connections | no open connection escapes the pool, and `cleanup()` leaves none, but those that could not be disconnected; nobody waits for the lock for ever while servers answer |
| `session_ops` | no tasks, 3 branches | a documented promise the code does not keep (section 5) |

Bounds.  Two workers are what every pairwise race of batches needs; two events and one
slot make one of them wait, and the third event of `imodel` is the one that is queued while
the first two are in hand.  Capacity and slots are at or below the number of workers so that
both run out.  `MaxCancels` is 1 because what a second cancelled call leaves behind is what the
first does; `MaxGiven` is 2, for two calls that share an event, at once or one after the other.  Three calls of the breaker are an old one, a
probe and one that is turned away; `MaxCount` stops a counter that is only compared with the
threshold.  The diamond has every combination of a conditional and an unconditional edge, a
join with three heads and one operation that is completed beforehand; one retry is enough
for a successor to overtake an expired operation.  The request limit of
`imodel_busy` is used up by two callers, so that later permissions are refused.  `MaxCloses` bounds `close()`.

Three edges make a loop, two parallel edges, a cycle of two and one of three, and a detour; a
removed edge or node uses up its number, so that removals are bounded with the rest.  Four
nodes and edges let the builder fail at a second edge after linking a first.  Two exchanges
with two tool calls each, by two tasks, put every kind of message between any two others that
the code lets it come between.  Three branches of a session are a default, a clone and a clone of the clone.
The pool's three connections are one that is lost, its replacement and another one.

Four calls of `pile` are enough to fill it, take something out of the middle, put something
else there and read; three elements have a middle.  No two threads change a pile without an
owner by methods that hold no lock (`include`, `update`, `__setitem__`), nor make its lock
together, and an index is assigned one element: with several the code leaves half of the
work done.  A third exchange of a branch, in which an instruction is used for the third time, is
`tlc -config MCAgain.cfg Branch`, which holds too.

Deadlock is checked in the runs of specifications that go on for ever (`processor`,
`endpoint`, `mcp`).  The others stop when every event or number has been used, or the flow has
ended.

## 4. Fairness

asyncio's loop runs every task that can run, so each worker's and task's step has weak
fairness; semaphores and limiters are FIFO in the code, which the models weaken to fairness
of handing on a free slot to somebody.  Fairness of `Finish`, `Response` and `Invoked` says
that a model call ends, which client timeouts are for.  No fairness is assumed of callers
(`Process`, `Enqueue`, `Invoke`), of `stop()`, of cancellation or of any particular outcome, and
none of the consumer of a stream: `EveryCallReturns` has as its hypothesis that every stream that
holds a slot is gone on with (`StreamsEnd`), since nothing in the code makes a consumer do so.
`EndpointRecovers` also needs the endpoint to be called again, which the comment of its fairness
says; its hypothesis is only that from some step on no request raises.  In `IModel` the
ten-second wait is an action `TimedOut` that competes with `Woken`.

In the pool, `Turn` has strong fairness: `asyncio.Lock` is first come, first served, so a task
that waits while the lock is freed again and again gets its turn.  Nothing is assumed of the
servers, whose answers the code awaits without a timeout: that every attempt to connect or to
disconnect ends is the hypothesis `ServersAnswer` of `EveryCallGetsThrough`.

Runs without liveness properties (`imodel`, `pile`, `graph`, `builder`, `branch`, `session`)
state no fairness.

## 5. Where code and documentation disagree

`session_ops` is the one disagreement with a run and an entry under "findings": operations
registered in a session are said to be available to every branch in it; the branches that a
flow allocates are put into the session past `include_branches()`, and an operation of a flow
that has a predecessor finds none of them.

Eight more disagreements and weaknesses have a configuration of their own, to be run by hand in this directory; TLC finds the
property violated.

| command | what the code does |
|---|---|
| `tlc -config MCRateCycle.cfg MCIModel` | request tokens are borrowed by tasks and never released; `limit_requests` is a limit for the life of the processor, not per cycle |
| `tlc -config MCHalfOpen.cfg CircuitBreaker` | a probe that is cancelled keeps its slot, and with `half_open_max_calls` such probes the circuit rejects calls for good |
| `tlc -config MCStreak.cfg CircuitBreaker` | failures need not be consecutive to open the circuit |
| `tlc -config MCFailed.cfg MCFlow` | operations whose method raised are reported as completed |
| `tlc -config MCChain.cfg MCFlow` | chained operations are not ordered after the operation they inherit from |
| `tlc -config MCSlice.cfg MCPile` | `pop` of a slice takes the elements out of the dict and leaves their ids in the order, where every later iteration stumbles over them |
| `tlc -config MCLazy.cfg MCPile` | the pile's lock is created on first use without a lock: two threads may each make and hold one, and the order then lists an element twice |
| `tlc -config MCHang.cfg MCPConnectionPool` | a server that never answers, while it is connected or disconnected under the lock of the pool, stops the tasks that want other servers |

The runs show what else a pile loses: a list with a missing or repeated id makes `pop` raise
half-way, after all its ids have left the order, and so does `exclude` of two elements, one of
which another thread pops after the look and before the lock; the elements behind it stay in
the dict (`LossIsOneSided`).

What else was noticed while modelling, without a property of its own:

* Processor: an event that is refused permission is dropped (processor.py lines 189-191), where
  docs/advanced/performance.md lines 144-145 say that requests queue until capacity is available.
  The capacity is given back by the end of a batch that has started an event, not by time, as
  the docstring says (processor.py line 48), and not by a batch that raises or is cancelled
  (lines 223-224).  A `stop()` before `execute()` has begun is taken back by the `start()` in it
  (line 246).
* iModel: a caller that is cancelled leaves its event in the pile and, if its batch had not come to
  it, on the queue, from which a later batch runs it for nobody.  `stream(api_call=...)` pops
  an event that it has not added to the pile, so that its last item is an exception unless
  another call has added it.  A stream that is closed before its end raises RuntimeError and keeps
  its slot until the generator is finalized.
* Endpoint: `max_retries=0`, which `EndpointConfig` allows, is not "no retries": `backoff` compares
  the number of tries with it, and never stops.
* Flow: an operation that was given a branch inherits nothing (flow.py lines 127-135), though
  `add_operation(branch=..., inherit_context=True)` accepts both and its docstring makes no
  exception.  An operation that inherits from one completed in an earlier flow whose branch the
  session no longer has inherits the messages of the default branch.  With `return_exceptions` or
  `retry_default` a flow returns although an operation has neither a result nor was skipped.
* Builder: `expand_from_result` of no items with a strategy that moves the heads leaves no
  heads, so that the next operation is linked to nothing; an unknown id in `depends_on` is
  passed over in silence, while one in `source_node_ids` raises.
* Session: `flow(default_branch=B)` still allocates clones of `session.default_branch`, not of
  B.  If the last branch is removed between the call of `flow()` and its lock, the allocation
  raises (`FlowAllocates` has the case).
* Messages: a clone has two system messages, its own first and a clone of its parent's;
  `chat()` changes the stored instructions through the lists that its copies share with them;
  a tool that fails, or returns a false value, leaves a request without a response.
* Pool: `load_config()` says that its caller holds the lock, which it does not yet;
  `max_connections_per_server` is read by nothing; a stale client that is dropped is not
  disconnected; a client whose `__aexit__()` raises is forgotten, open or not; and the key of an inline configuration is the `id()` of a dict, so that equal
  configurations do not share a client, and a new dict at an old address is given the client
  of another configuration.

## 6. Proofs

TLAPS checks these for all values of the constants that the named assumptions allow.

* `ProcessorProofs`: `TypeCorrect`, `ConcurrencyBounded`, `EachEventHasOneBatch` and
  `OverdraftBounded`, from one inductive invariant `IInv`.  The concurrency
  bound is not inductive: it needs `SlotsHeld` (free slots and running tasks add up to the
  limit), which needs the finiteness of `running` and that a start number is never used twice
  (`TasksDistinct`).  `OverdrawBound` and `OneBatchEach` need `HandsFull`: a worker at an
  await inside the loop has an event in its hands; and the latter `Custody`:
  only events that were enqueued are queued or held by a batch, so that none is enqueued a second time.
* `IModelProofs`: `SlotsAreConserved`, `FinalPopFinds`, `NoWakeupIsLost` and `CallTypeCorrect`,
  for any callers, streams, limits, cancellations, shared events and calls of `close()`.  They rest on the lemmas of
  `ProcessorProofs`, not on its invariant: streams take slots too, so that `SlotsHeld` becomes
  `SlotsShared`.  A pop takes nobody else's event because a call in progress that has created its event
  shares it with no other (`OwnEvents`), while calls that were given one may; a call that waits finds
  the completion event created, by itself or by another (`Signalled`), so that whoever ends the event
  finds it there.
  `StreamsKeepTheLimit` follows from the shared slots.
* `IModelProofs`, of an iModel that is not crowded: `EventsRunOnce`, `OwnBatchIsEnough`,
  `NothingElseIsLeft` and the action property `ResultsAreFinal`, under the hypothesis `Uncrowded`: no
  more tasks than `queue_capacity`, no rate limits, nothing streamed and no `api_call`; `close()` may
  come at any time.  All but `NothingElseIsLeft` speak of the time until a call is cancelled, and
  the properties say so: a cancelled batch keeps the capacity that it has used, after which
  a batch may leave its loop before it has come to its own event.  `process()` submits an event again that it finds pending; that no event runs twice
  rests on there always being capacity for one more (`CapacityLeft`), so that a call takes its own
  event off the queue, and nobody else's, in the same step in which it put it there
  (`OwnBatch`, `NothingLeft`).
* `EndpointProofs`, of the breaker: `TypeCorrect`, `ClosedStaysHealthy`, `ProbesStayBounded`.  The
  bound on probes needs `SlotsAccounted`: every fresh call and every silent exit of the half-open
  circuit has used up one slot; and `FreshInFlight`: fresh calls are in flight.
* `EndpointProofs`, of the endpoint: `EndpointImplementsBreaker`, every step of the endpoint is a step of the
  breaker or leaves it unchanged, hence `EndpointKeepsBreakerSafe`; and
  `RequestsStayBounded` with `EndpointTypeCorrect`, for every number of tries (with 0 tries the
  bound is not claimed), from `RInv`: a call in its r-th retry has sent
  at most `MaxTries` requests per earlier round plus one per try of this round.
* `FlowProofs`: `FlowFollowsTheGraph`, the refinement of `Dependencies`, `EveryOperationAccountedFor`
  and `FlowTypeCorrect`, for any graph, limiter, slots, timeouts and attempts.  Their invariant
  `FInv` says what the place of a task tells of its operation (`Right`): an operation that
  looks at its edges found no way through those it `looked` at, one that waits for the limiter
  has a usable edge and only settled predecessors, and a completion event is set only by
  an operation that is settled.  A step then maps to `Run`, `Skip`, `Break`, `End`, `Expire`, `Lapse` or `Abort` of the
  operation, or to a stutter (`Becomes`).  `ContextIsInherited` assumes `HeirsFollow`: every heir has
  an edge from its primary dependency, or that one is completed beforehand, as the
  source of an expansion is.  The graphs of a chained expansion break just that assumption, which is the violation of `MCChain`.
* `GraphProofs`: `AdjacencyIsRight` for any numbers of nodes, edges and searches, and, for the
  builder, `GraphIsKnown` and `EdgesLeadForward`.  Their invariant adds that heads and
  operations were made before (`made` bounds them): a new operation is therefore newer than
  anything it is linked to, even by a call that raises half-way.
* `GraphProofs`, of the searches: `PathIsAlwaysThere`, an action property, and
  `CalmSearchIsAlwaysRight`.  The invariant `SInv` says that the parents of a search are a tree whose
  edges hold and lead up to the start, so that the way back from the end is a walk, even when some of its
  edges have meanwhile left the graph: `Arrived` looks them up again.  Of a search during which nothing has
  changed it says more: the nodes come off the queue in the order of their depths, which differ by
  one at most along it; what is behind the current edge has only neighbours that were visited; and no
  walk to a node is shorter than the tree's.  So an exhausted queue is a closed set
  without the end, and the first path is a shortest one.
* `GraphProofs`, of the algorithms: `AlgorithmsAlwaysAgree`, for graphs of any size, and
  `BuiltGraphsAreAcyclic`, so that `flow()` never refuses what a builder made.  The argument for
  `is_acyclic()`: the successors of a visited node are visited and no edge of it is in a cycle
  (`Sound`), while every node that is being visited leads to the next one (`Trail`), so that
  meeting one again closes a cycle; and a call of `visit()` is never nested deeper than there
  are unvisited nodes (`Explores`).  For `topological_sort()`: the degree of a node is the number
  of edges from nodes that are not sorted yet, and those without such edges are sorted or
  queued, each once (`Sorting`).  So the queue is empty after as many rounds as there are nodes
  (`KahnIs`); a complete sort is an order (`CompleteIs`), and what is left over by any other has
  a cycle, since each of its nodes has an edge from another of them (`StuckIs`).
* `SessionProofs`: `ExchangesStayWhole`, `SystemStaysFirst` and `DefaultStaysMember`, for the
  composition of the session with the tasks on its branches.  Whole exchanges are not
  inductive: `add_message()` keeps a message where it is if it is there already, so that what is
  added next to it might be separated from it.  `ConvsRight` therefore says of every branch that it
  is `Fine`: whole, the system message first, and without any message of what a task has yet to
  add (`Seen`), though branches are cloned and inherited meanwhile; what a task uses again is
  something that was seen (`AsksRight`), which the branch may hold or may have cleared since.  `TasksRight` says that
  no two tasks are in the same exchange.
* `SessionProofs`, of the prompts: `PromptsStayFaithful` and `OutputsReachTheModel`.  `chat()` merges
  what does not alternate, and would drop an instruction that follows another one, with the
  outputs in it.  `Fine` says why that never happens: every instruction has its first response right after it
  (`AllAnswered`), as every response to a new instruction has that right before it; the
  response to an instruction used again is joined to the response before it.  `ChatIs` shows by
  induction over the messages that the prompt of such a branch is all its instructions and
  responses, in turn; and an output is in the context of the first instruction after it, or of
  the prompt's last.
* `MCPConnectionPoolProofs`: `ConnectionsStayPooled` and `CleanupClosesTheRest`.  Both need that the
  lock is held by whoever is connecting or cleaning (`LockHeld`), that a key is free while
  its client is being connected (`Making`), and that what a clean-up has still to disconnect are the
  open connections but the `refused` ones (`Cleaning`).
* `PileProofs`: `OrderListsTheDict`, `LossStaysOneSided`, `ReadsAreWhole` and the refinement of
  `OrderedSet`, `PileIsOrderedSet`, under the hypothesis `UsedWithCare`: no pile without an owner is
  first locked by racing threads (`LockIsSafe`), `include` and `insert` get distinct elements, an index
  is assigned one element, and without an owner whatever changes the pile is a method
  that takes its lock (`CarefulCall`).  All pops are careful calls, of slices and of any lists;
  what they spoil is in the properties, not in the hypothesis.  The modes of `MCPile` satisfy it.
  There is only one lock object in use (`LocksMatch`), which needs that whoever creates one
  is alone (`OwnerAlone`, `OneLock`); so the methods' bodies never overlap.  The invariant
  `PInv` says of every thread what it can rely on where it is (`Ready`): inside a method's body the
  order and the dict agree (`Coherent`, in the direction that earlier pops have not spoiled) but
  for what this method has changed already.  `RInv` adds what a read has yet to look up.  `OnlyIs` and
  `InsertedIs` say what the loops of `Progression` do to an order of any length.

Loops over data are recursive functions in `Progression`, `MessageManager`, `Graph` and
`GraphAlgorithms`.  What they compute is proved by induction, but with a set in place of the
induction predicate, which the library's theorems would take as an operator: a non-empty set of
naturals has a least member, since the finite subsets of a set are well-founded under inclusion
(`LeastOf`, `SmallestIs`); hence induction up to a bound (`UpTo`), and the existence of the
functions (`Recursion`).

Only model-checked: the liveness properties `QueueDrains`, `StopEnds`, `EveryCallReturns`, `EndpointRecovers`,
`FlowEnds` and `EveryCallGetsThrough`, since fairness and ENABLED are beyond the prover.  Every
other property of a passing run is a theorem.  Those of `IModel` and `Pile` under hypotheses need them: the busy instance of `IModel`
and the run of `MCLazy` violate the properties without.

## 7. Not modelled, and the plan

Not modelled, with the reasons, are the components marked so in `PROJECT.json`: conversions,
schemas, files, request formats and providers, which keep no state that evolves, and the
notebooks and cookbooks, which are examples.  Most of the repository's lines are of these kinds.

Of the components that are modelled, these paths are left out:

* Flow: the cancellation of `execute()` from outside; a branch left with
  `pending_context_inheritance` by an earlier flow; errors half-way in the cloning or inheriting of messages.
* Graph: the recursion limit of Python, which `is_acyclic()` meets on a path of about a thousand nodes; and edge
  conditions that raise, which end `find_path()` at that await without a change.
* Pile: threads without an owner that call `include`, `update` or `__setitem__`, which take no lock; assignment by
  id or slice.
* Branch: one `Instruction` or `ActionRequest` object passed to several branches: what is used again is held
  by the branch it is used on.  The context of an instruction that is used again, and cleared
  meanwhile, is the one it had at the question.
* Processor: `concurrency_limit=None`, and `forward()` into a bounded queue.

Next, in this order:

1. `CompletionStream` and the other patterns of `ln/concurrency`: results in the order of completion
   through a stream whose early exit cancels the rest.
2. The `Flow` container (named progressions over one pile), and the rest of `Progression`.
3. `DataLogger` (dump and clear between tasks) and `Broadcaster` (changes during a broadcast).
4. `ReAct` as a sequence of exchanges on a branch, and the composition of `Branch` with the flow
   of `DependencyAwareExecutor`.
5. Theorems: the processor's `OneBatchEach` under the calls of `IModel`.
