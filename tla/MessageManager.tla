--------------------------- MODULE MessageManager ---------------------------
(***************************************************************************)
(* protocols/messages/manager.py: the messages of a branch and its system  *)
(* message; and what operations/chat/chat.py makes of them for the model.  *)
(*                                                                         *)
(* A message is known by its kind and by what it belongs to: <<e, 0>> is   *)
(* exchange e with the model, <<e, k>> its k-th tool call.  A response and *)
(* an output name what the message they answer belongs to, which differs   *)
(* when the caller passed a message that was used before.  The context of  *)
(* an instruction is the set of tool outputs it shows the model.           *)
(***************************************************************************)
EXTENDS SequencesExt

Message(kind, of) == [kind |-> kind, of |-> of, to |-> of, context |-> {}]
Instruction(of, outputs) == [Message("instruction", of) EXCEPT !.context = outputs]
Request(of) == Message("request", of)
Response(of, to) == [Message("response", of) EXCEPT !.to = to]
Output(of, to) == [Message("output", of) EXCEPT !.to = to]

\* The branch's own system message, and a clone of one of another branch.
System == Message("system", <<0, 0>>)
Clone(m) == IF m.kind = "system" THEN Message("system", <<0, 1>>) ELSE m

Same(m, n) == m.kind = n.kind /\ m.of = n.of

\* The order of messages, and whether self.system is set.
NoMessages == [order |-> <<>>, system |-> FALSE]

WithOrder(conv, order) == [conv EXCEPT !.order = order]

\* messages.exclude(): what is not there is passed over.
Excluded(order, m) ==
    IF \E i \in DOMAIN order : Same(order[i], m)
    THEN RemoveAt(order, CHOOSE i \in DOMAIN order : Same(order[i], m))
    ELSE order

\* Mutant of WithSystem: the new system message goes where messages are added.
WithSystemLast(conv) ==
    [order |-> Excluded(conv.order, System) \o <<System>>, system |-> TRUE]

\* set_system(): the new one is put first, and the old one taken out.
WithSystem(conv) ==
    [order |-> <<System>> \o Excluded(conv.order, System), system |-> TRUE]

\* add_message(): a message that is there already keeps its place.
Added(conv, m) ==
    IF \E i \in DOMAIN conv.order : Same(conv.order[i], m)
    THEN conv ELSE WithOrder(conv, conv.order \o <<m>>)

\* clear_messages().
Cleared(conv) == WithOrder(conv, IF conv.system THEN <<System>> ELSE <<>>)

Clones(order) == [i \in 1..Len(order) |-> Clone(order[i])]

\* The messages of Branch.clone(): clones of all, and then a system message of its own.
Cloned(conv) ==
    LET copy == [order |-> Clones(conv.order), system |-> FALSE]
    IN  IF conv.system THEN WithSystem(copy) ELSE copy

\* _resolve_branch_for_operation(): the pile is cleared, the system message with it.
Inherited(conv, primary) == WithOrder(conv, Clones(primary.order))

-----------------------------------------------------------------------------
(* What chat() makes of the messages *)

\* Mutant of Waiting: only outputs directly before the instruction are counted.
WaitingLast(order, i) ==
    {order[j].of : j \in {j \in 1..i - 1 : j = i - 1 /\ order[j].kind = "output"}}

\* The outputs before the i-th message that no instruction has followed yet.
Waiting(order, i) ==
    {order[j].of : j \in {j \in 1..i - 1 :
        /\ order[j].kind = "output"
        /\ \A l \in j..i - 1 : order[l].kind # "instruction"}}

\* Outputs go into the context of the next instruction.  The copies that chat()
\* makes share their context with the stored instructions: what it puts there
\* is in the messages from then on.
Merged(order) ==
    [i \in 1..Len(order) |->
        IF order[i].kind = "instruction"
        THEN [order[i] EXCEPT !.context = @ \cup Waiting(order, i)]
        ELSE order[i]]

\* An instruction that is asked with again: its context, too, is shared with the copy
\* that gets the outputs.
Shown(order, of, outputs) ==
    [i \in 1..Len(order) |->
        IF Same(order[i], Message("instruction", of))
        THEN [order[i] EXCEPT !.context = @ \cup outputs] ELSE order[i]]

\* Responses in a row become one; of instructions in a row the first stays.
Alternate(used, m) ==
    IF used # <<>> /\ Last(used).kind = m.kind THEN used ELSE Append(used, m)

\* The instructions and responses among the messages, merged from the first one on.
Chat(messages) ==
    LET chat[n \in 0..Len(messages)] ==
            IF n = 0 THEN <<>>
            ELSE IF messages[n].kind \in {"instruction", "response"}
                 THEN Alternate(chat[n - 1], messages[n]) ELSE chat[n - 1]
    IN  chat[Len(messages)]

\* The exchange's own instruction comes last, with the outputs that still wait: it
\* shares its context with the copy that gets them, so that it has them, too, when
\* chat() sends it in place of that copy.
Prompt(order, e) ==
    Append(Chat(Merged(order)), Instruction(<<e, 0>>, Waiting(order, Len(order) + 1)))

\* With a system message, the prompt has to start with an instruction that it is put into.
PromptRaises(conv, e) == conv.system /\ Head(Prompt(conv.order, e)).kind # "instruction"
=============================================================================
