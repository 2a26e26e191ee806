------------------------ MODULE RateLimitedProcessor ------------------------
(***************************************************************************)
(* service/rate_limited_processor.py: the processor of an iModel.  It is a *)
(* Processor whose request_permission consults a request limiter and a     *)
(* token limiter (anyio CapacityLimiters, which know their borrowers: the  *)
(* asyncio tasks that acquired and did not release).                       *)
(***************************************************************************)
EXTENDS Processor

CONSTANTS
  LimitRequests,  \* limit_requests, 0 for None
  LimitTokens,    \* limit_tokens, 0 for None
  Required        \* the required_tokens of each event, 0 for None

NoLimits == LimitRequests = 0 /\ LimitTokens = 0

ASSUME RateLimitAssumption ==
  /\ LimitRequests \in Nat
  /\ LimitTokens \in Nat
  /\ Required \in [Event -> Nat]
  /\ AskSuspends = ~NoLimits  \* without limits, request_permission never awaits
  /\ MaxQueue = 0             \* __init__ passes no max_queue_size on
  /\ Hooked                   \* event_type is APICalling, a HookedEvent

VARIABLES
  total,      \* _request_limiter.total_tokens
  borrowers,  \* the tasks that hold a token of _request_limiter
  passed      \* workers suspended inside acquire() with the token taken

limitVars == <<total, borrowers, passed>>

LimitInit ==
  /\ total = LimitRequests
  /\ borrowers = {}
  /\ passed = {}

Available == total - Cardinality(borrowers)

\* Both budgets are looked at; no statement ever acquires from _token_limiter,
\* so its available_tokens stay at limit_tokens.
OverBudget(e) ==
  \/ LimitRequests > 0 /\ Available < 1
  \/ LimitTokens > 0 /\ Required[e] > LimitTokens

Asking(w) == pc[w] = "asking" /\ w \notin passed

\* No limiter: only the queue length counts.
AnswerByQueue(w) ==
  /\ NoLimits
  /\ Answer(w, Len(queue) < QueueCapacity)
  /\ UNCHANGED limitVars

\* A budget is short, or there are only tokens to count.
AnswerByBudget(w) ==
  /\ ~NoLimits
  /\ Asking(w)
  /\ OverBudget(next[w]) \/ LimitRequests = 0
  /\ Answer(w, ~OverBudget(next[w]))
  /\ UNCHANGED limitVars

\* Check and acquisition happen without an await between them; acquire() then
\* yields once before it returns.
Borrow(w) ==
  /\ LimitRequests > 0
  /\ Asking(w)
  /\ ~OverBudget(next[w])
  /\ w \notin borrowers
  /\ borrowers' = borrowers \union {w}
  /\ passed' = passed \union {w}
  /\ UNCHANGED <<total, vars>>

Pass(w) ==
  /\ w \in passed
  /\ passed' = passed \ {w}
  /\ Answer(w, TRUE)
  /\ UNCHANGED <<total, borrowers>>

\* The task is cancelled while it asks or sleeps: acquire() takes back the token
\* it has not handed over yet.
CancelAsk(w) ==
  /\ CancelBody(w)
  /\ passed' = passed \ {w}
  /\ borrowers' = IF w \in passed THEN borrowers \ {w} ELSE borrowers
  /\ UNCHANGED total

\* A task that already holds a token gets a RuntimeError from acquire(): it
\* leaves process() and cancels the batch.
Reborrow(w) ==
  /\ LimitRequests > 0
  /\ Asking(w)
  /\ ~OverBudget(next[w])
  /\ w \in borrowers
  /\ abort' = [abort EXCEPT ![w] = TRUE]
  /\ pc' = [pc EXCEPT ![w] = "joining"]
  /\ next' = [next EXCEPT ![w] = NoEvent]
  /\ disturbed' = TRUE
  /\ UNCHANGED <<queue, capacity, prev, admitted, taskVars, loopVars,
                 admits, enqueued, limitVars>>

Permission(w) ==
  \/ AnswerByQueue(w)
  \/ AnswerByBudget(w)
  \/ Borrow(w)
  \/ Pass(w)
  \/ Reborrow(w)

\* One round of start_replenishing(): the total is written back, the tokens
\* borrowed stay borrowed (nothing calls release()).
Replenish ==
  /\ LimitRequests > 0
  /\ Idle
  /\ ~stopped
  /\ total' = IF Cardinality(borrowers) < LimitRequests THEN LimitRequests ELSE total
  /\ UNCHANGED <<borrowers, passed, vars>>
=============================================================================
