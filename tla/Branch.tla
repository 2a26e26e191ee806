------------------------------- MODULE Branch -------------------------------
(***************************************************************************)
(* Tasks that talk to the model on branches they share (operations/operate, *)
(* communicate, chat and act): operations of a flow without predecessors    *)
(* all use its default branch.  A task is suspended while the model answers *)
(* and while tools run; between two suspensions its step is atomic.         *)
(***************************************************************************)
EXTENDS MessageManager, Integers

CONSTANTS
    Tasks,
    MaxBranches,  \* bound on the branches made
    MaxExchanges, \* bound on the exchanges begun
    MaxCalls      \* bound on the tool calls of an exchange

ASSUME BranchAssumption ==
    MaxBranches \in Nat \ {0} /\ MaxExchanges \in Nat /\ MaxCalls \in Nat

VARIABLES
    made,      \* the number of branches made
    convs,     \* per branch, its messages
    exchanges, \* the number of exchanges begun
    tasks      \* per task, where it is

branchVars == <<made, convs, exchanges, tasks>>

Branches == 1..made

\* What a task `asks` with: a new message, or what the one it was given belongs to.
New == <<0, 0>>

Idle == [at |-> "idle", branch |-> 0, exchange |-> 0, asks |-> New, context |-> {},
         calls |-> {}, concurrent |-> FALSE]

BranchInit ==
    /\ made = 1
    /\ convs = [b \in 1..MaxBranches |-> NoMessages]
    /\ exchanges = 0
    /\ tasks = [t \in Tasks |-> Idle]

\* The messages of a kind that a branch holds, which a call may be given again.
Held(b, kind) == {m \in ToSet(convs[b].order) : m.kind = kind}

\* What the instruction, or the k-th request, of a task's exchange belongs to.
Asked(task, k) == IF task.asks = New THEN <<task.exchange, k>> ELSE task.asks

\* Mutant of Opened: the instruction is added before the model is asked.
OpenedEarly(conv, of, outputs) == Added(conv, Instruction(of, outputs))

\* What chat() leaves in the messages before it waits for the model.
Opened(conv, of, outputs) == WithOrder(conv, Shown(conv.order, of, outputs))

\* communicate() up to the call of the model; operate() begins with it.  The
\* instruction is a new one, or one that the branch holds, with the context it has.
Ask(t, b, clear, asks, context) ==
    LET e == exchanges + 1
        task == [Idle EXCEPT !.at = "chat", !.branch = b, !.exchange = e, !.asks = asks]
        conv == IF clear THEN Cleared(convs[b]) ELSE convs[b]
        outputs == Waiting(conv.order, Len(conv.order) + 1)
    IN  /\ tasks[t].at = "idle"
        /\ e <= MaxExchanges
        /\ exchanges' = e
        /\ convs' = [convs EXCEPT
                ![b] = Opened(WithOrder(conv, Merged(conv.order)), Asked(task, 0), outputs)]
        /\ tasks' = [tasks EXCEPT
                ![t] = IF PromptRaises(conv, e) THEN Idle
                       ELSE [task EXCEPT !.context = context \cup outputs]]
        /\ UNCHANGED made

AskNew(t, b, clear) == Ask(t, b, clear, New, {})
AskAgain(t, b, clear) ==
    \E m \in Held(b, "instruction") : Ask(t, b, clear, m.of, m.context)

\* The model has answered: the exchange is kept, and its tool calls are made.
Answered(t, count, concurrent) ==
    LET task == tasks[t]
        e == task.exchange
        of == Asked(task, 0)
    IN  /\ task.at = "chat"
        /\ convs' = [convs EXCEPT
                ![task.branch] = Added(Added(@, Instruction(of, task.context)),
                                       Response(<<e, 0>>, of))]
        /\ tasks' = [tasks EXCEPT
                ![t] = IF count = 0 THEN Idle
                       ELSE [task EXCEPT !.at = "act", !.asks = New, !.context = {},
                                         !.calls = 1..count, !.concurrent = concurrent]]
        /\ UNCHANGED <<made, exchanges>>

\* Branch.act() by itself: new requests, or one that the branch holds.
Act(t, b, asks, count, concurrent) ==
    /\ tasks[t].at = "idle"
    /\ exchanges < MaxExchanges
    /\ exchanges' = exchanges + 1
    /\ tasks' = [tasks EXCEPT
            ![t] = [Idle EXCEPT !.at = "act", !.branch = b, !.exchange = exchanges + 1,
                                !.asks = asks, !.calls = 1..count,
                                !.concurrent = concurrent]]
    /\ UNCHANGED <<made, convs>>

ActNew(t, b, count, concurrent) == Act(t, b, New, count, concurrent)
ActAgain(t, b) == \E m \in Held(b, "request") : Act(t, b, m.of, 1, FALSE)

\* Mutant of CallAdded: the output is added before its request.
CallAddedReversed(conv, request, output, how) ==
    CASE how = "output" -> Added(Added(conv, output), request)
      [] how = "nothing" -> Added(conv, request)
      [] how = "unknown" -> conv

\* A tool that fails, or returns something false, leaves a request without an
\* output: add_message() takes it for the same request.  An unknown tool leaves
\* nothing.  A request that the branch holds keeps its place.
CallAdded(conv, request, output, how) ==
    CASE how = "output" -> Added(Added(conv, request), output)
      [] how = "nothing" -> Added(conv, request)
      [] how = "unknown" -> conv

\* _act() from where the tool is done.
ToolEnds(t, k, how) ==
    LET task == tasks[t]
        of == Asked(task, k)
        left == task.calls \ {k}
    IN  /\ k \in task.calls
        /\ task.concurrent \/ \A j \in task.calls : k <= j
        /\ convs' = [convs EXCEPT
                ![task.branch] =
                    CallAdded(@, Request(of), Output(<<task.exchange, k>>, of), how)]
        /\ tasks' = [tasks EXCEPT
                ![t] = IF left = {} THEN Idle ELSE [task EXCEPT !.calls = left]]
        /\ UNCHANGED <<made, exchanges>>

\* The call of the model fails, or the task is cancelled.
Interrupted(t) ==
    /\ tasks[t].at # "idle"
    /\ tasks' = [tasks EXCEPT ![t] = Idle]
    /\ UNCHANGED <<made, convs, exchanges>>

Change(b, conv) ==
    /\ convs' = [convs EXCEPT ![b] = conv]
    /\ UNCHANGED <<made, exchanges, tasks>>

SetSystem(b) == Change(b, WithSystem(convs[b]))
ClearMessages(b) == Change(b, Cleared(convs[b]))

BranchNext ==
    \/ \E t \in Tasks, b \in Branches, clear \in BOOLEAN :
            AskNew(t, b, clear) \/ AskAgain(t, b, clear)
    \/ \E t \in Tasks, b \in Branches :
            \/ \E count \in 1..MaxCalls, concurrent \in BOOLEAN :
                    ActNew(t, b, count, concurrent)
            \/ ActAgain(t, b)
    \/ \E t \in Tasks, count \in 0..MaxCalls, concurrent \in BOOLEAN :
            Answered(t, count, concurrent)
    \/ \E t \in Tasks : \E k \in tasks[t].calls, how \in {"output", "nothing", "unknown"} :
            ToolEnds(t, k, how)
    \/ \E t \in Tasks : Interrupted(t)
    \/ \E b \in Branches : SetSystem(b) \/ ClearMessages(b)

BranchSpec == BranchInit /\ [][BranchNext]_branchVars

-----------------------------------------------------------------------------
(* Properties *)

\* What a response or an output answers.
Asker(m) == Message(IF m.kind = "response" THEN "instruction" ELSE "request", m.to)

\* Whatever tasks share a branch, clear it or are cancelled in it: a response comes
\* after the instruction it answers, and a tool's output after its request; directly
\* after it, if that was a new message (communicate.py lines 138-139 and act.py lines
\* 90-96 add both after the await; a message used again keeps its place).
ExchangesWhole ==
    \A b \in Branches : LET order == convs[b].order IN
        \A i \in 1..Len(order) :
            order[i].kind \in {"response", "output"} =>
                /\ \E j \in 1..i - 1 : Same(order[j], Asker(order[i]))
                /\ order[i].to = order[i].of => Same(order[i - 1], Asker(order[i]))

\* A branch's system message is the first of its messages, and there once
\* (manager.py line 54: "system message must be the first message").
SystemFirst ==
    \A b \in Branches : LET order == convs[b].order IN
        \A i \in 1..Len(order) : Same(order[i], System) => i = 1

\* What the next chat on a branch sends: an instruction, a response, and so on up to
\* its own instruction, with every exchange that the branch holds (the response to an
\* instruction used again is joined to the response before it); so that
\* chat() never finds "First message in progression must be an Instruction" broken.
PromptFaithful ==
    \A b \in Branches :
        LET prompt == Prompt(convs[b].order, 0)
            order == convs[b].order
        IN  /\ \A i \in 1..Len(prompt) :
                    prompt[i].kind = IF i % 2 = 1 THEN "instruction" ELSE "response"
            /\ Last(prompt).of = <<0, 0>>
            /\ \A i \in 1..Len(order) :
                    order[i].kind = "response" /\ order[i].to = order[i].of =>
                        \E j \in 1..Len(prompt) : prompt[j] = order[i]

\* No tool output that a branch holds is kept from the model: the next prompt
\* shows it in the context of some instruction (chat.py lines 42-99).
OutputsIntegrated ==
    \A b \in Branches :
        LET prompt == Prompt(convs[b].order, 0)
            order == convs[b].order
        IN  \A i \in 1..Len(order) : order[i].kind = "output" =>
                \E j \in 1..Len(prompt) : order[i].of \in prompt[j].context
=============================================================================
