--------------------------- MODULE SessionProofs ---------------------------
(***************************************************************************)
(* The conversations of a session stay whole, whatever its tasks and flows *)
(* do, and it keeps a default branch: for every number of tasks, branches, *)
(* exchanges and tool calls.                                               *)
(***************************************************************************)
EXTENDS Session, SequenceTheorems, FiniteSetTheorems, WellFoundedInduction, TLAPS

-----------------------------------------------------------------------------
(* Lemmas about the messages of one branch *)

Ref == Nat \X Nat
Kinds == {"system", "instruction", "response", "request", "output"}
Msg == [kind : Kinds, of : Ref, to : Ref, context : SUBSET Ref]
Conv == [order : Seq(Msg), system : BOOLEAN]

Replies == {"response", "output"}

\* A reply comes after what it answers, and right after it if both belong together.
Answers(order, i) ==
    /\ \E j \in 1..i - 1 : Same(order[j], Asker(order[i]))
    /\ order[i].to = order[i].of => Same(order[i - 1], Asker(order[i]))

Whole(order) == \A i \in 1..Len(order) : order[i].kind \in Replies => Answers(order, i)

\* What makes the prompt alternate: every instruction has its response right after it.
AllAnswered(order) ==
    \A i \in 1..Len(order) :
        order[i].kind = "instruction" => i < Len(order) /\ order[i + 1].kind = "response"

First(order) == \A i \in 1..Len(order) : Same(order[i], System) => i = 1

\* A conversation in order that holds messages of the things in X only.
Fine(conv, X) ==
    /\ conv \in Conv
    /\ Whole(conv.order)
    /\ AllAnswered(conv.order)
    /\ First(conv.order)
    /\ \A i \in 1..Len(conv.order) : conv.order[i].of \in X

\* What is in order stays in order when more may be in it.
LEMMA FineMore ==
    ASSUME NEW conv, NEW X, NEW Y, Fine(conv, X), X \subseteq Y
    PROVE  Fine(conv, Y)
BY DEF Fine

\* A conversation without messages is in order.
LEMMA NoMessagesFine == \A X : Fine(NoMessages, X)
BY EmptySeq DEF Fine, NoMessages, Conv, Whole, AllAnswered, First

LEMMA MessageIsMsg ==
    /\ \A kind \in Kinds, of \in Ref : Message(kind, of) \in Msg
    /\ \A of \in Ref, outputs \in SUBSET Ref : Instruction(of, outputs) \in Msg
    /\ \A of, to \in Ref : Response(of, to) \in Msg /\ Output(of, to) \in Msg
    /\ System \in Msg
<1>1. \A kind \in Kinds, of, to \in Ref, context \in SUBSET Ref :
            [kind |-> kind, of |-> of, to |-> to, context |-> context] \in Msg
  BY DEF Msg
<1>2. {} \in SUBSET Ref /\ Replies \cup {"instruction", "system"} \in SUBSET Kinds
      /\ <<0, 0>> \in Ref
  BY DEF Kinds, Replies, Ref
<1> HIDE DEF Ref, Msg, Kinds
<1>3. \A kind \in Kinds, of \in Ref : Message(kind, of) \in Msg
  BY <1>1, <1>2 DEF Message
<1>4. ASSUME NEW of \in Ref, NEW outputs \in SUBSET Ref PROVE Instruction(of, outputs) \in Msg
  <2>1. Instruction(of, outputs) =
            [kind |-> "instruction", of |-> of, to |-> of, context |-> outputs]
    BY DEF Instruction, Message
  <2> QED
    BY <1>1, <1>2, <2>1
<1>5. ASSUME NEW of \in Ref, NEW to \in Ref
      PROVE  Response(of, to) \in Msg /\ Output(of, to) \in Msg
  <2>1. /\ Response(of, to) = [kind |-> "response", of |-> of, to |-> to, context |-> {}]
        /\ Output(of, to) = [kind |-> "output", of |-> of, to |-> to, context |-> {}]
    BY DEF Response, Output, Message
  <2> QED
    BY <1>1, <1>2, <2>1 DEF Replies
<1>6. System \in Msg
  BY <1>2, <1>3 DEF System
<1> QED
  BY <1>3, <1>4, <1>5, <1>6

\* What is asked is an instruction or a request.
LEMMA AskerIs ==
    \A m : /\ Asker(m).kind = IF m.kind = "response" THEN "instruction" ELSE "request"
           /\ Asker(m).of = m.to
BY DEF Asker, Message

\* Messages that stay beside each other stay whole, c places further to the front.
LEMMA WholeMoves ==
    ASSUME NEW order, NEW new, Len(order) \in Nat, Len(new) \in Nat, Whole(order),
           NEW c \in Int,
           \A i \in 1..Len(new) : new[i].kind \in Replies =>
                /\ i + c \in 1..Len(order)
                /\ Same(new[i], order[i + c]) /\ new[i].to = order[i + c].to,
           \A k \in 1..Len(order) : order[k].kind \in {"instruction", "request"} =>
                k - c \in 1..Len(new) /\ Same(new[k - c], order[k])
    PROVE  Whole(new)
<1> SUFFICES ASSUME NEW i \in 1..Len(new), new[i].kind \in Replies PROVE Answers(new, i)
  BY DEF Whole
<1>1. PICK k : k = i + c
  OBVIOUS
<1>2. /\ k \in 1..Len(order) /\ order[k].kind = new[i].kind
      /\ order[k].of = new[i].of /\ order[k].to = new[i].to
  BY <1>1 DEF Same
<1>3. Answers(order, k)
  BY <1>2 DEF Whole
<1>4. Asker(new[i]) = Asker(order[k])
  BY <1>2 DEF Asker
<1>5. ASSUME NEW j \in 1..k - 1, Same(order[j], Asker(order[k]))
      PROVE  j - c \in 1..i - 1 /\ Same(new[j - c], Asker(new[i]))
  <2>1. order[j].kind \in {"instruction", "request"} /\ j \in 1..Len(order)
    BY <1>2, <1>5, AskerIs DEF Same
  <2>2. j - c \in 1..Len(new) /\ Same(new[j - c], order[j])
    BY <2>1
  <2>3. Same(new[j - c], Asker(order[k]))
    BY <1>5, <2>2 DEF Same
  <2>4. j - c < i
    BY <1>1, <1>2, <2>1
  <2> QED
    BY <1>4, <2>2, <2>3, <2>4
<1>6. \E j \in 1..i - 1 : Same(new[j], Asker(new[i]))
  BY <1>3, <1>5 DEF Answers
<1>7. ASSUME new[i].to = new[i].of PROVE Same(new[i - 1], Asker(new[i]))
  <2>1. Same(order[k - 1], Asker(order[k])) /\ k - 1 \in 1..k - 1
    <3>1. PICK j \in 1..k - 1 : Same(order[j], Asker(order[k]))
      BY <1>3 DEF Answers
    <3> QED
      BY <1>2, <1>3, <1>7, <3>1 DEF Answers
  <2>2. Same(new[(k - 1) - c], Asker(new[i]))
    BY <1>5, <2>1
  <2>3. (k - 1) - c = i - 1
    BY <1>1, <1>2
  <2> QED
    BY <2>2, <2>3
<1> QED
  BY <1>6, <1>7 DEF Answers

\* Messages stay whole when messages are added that are whole where they are.
LEMMA WholeGrows ==
    ASSUME NEW order, NEW new, Len(order) \in Nat, Len(new) \in Nat, Whole(order),
           \A i \in 1..Len(order) : new[i] = order[i],
           \A i \in 1..Len(new) : i > Len(order) /\ new[i].kind \in Replies => Answers(new, i)
    PROVE  Whole(new)
<1> SUFFICES ASSUME NEW i \in 1..Len(new), new[i].kind \in Replies, i <= Len(order)
             PROVE  Answers(new, i)
  BY DEF Whole
<1>1. i \in 1..Len(order) /\ new[i] = order[i]
  OBVIOUS
<1>2. Answers(order, i)
  BY <1>1 DEF Whole
<1>3. \A j \in 1..i - 1 : j \in 1..Len(order) /\ new[j] = order[j]
  BY <1>1
<1>4. i - 1 \in 1..i - 1
  BY <1>1, <1>2 DEF Answers
<1> QED
  BY <1>1, <1>2, <1>3, <1>4 DEF Answers

\* A message and what answers it are added one after the other; or only the answer,
\* if the branch has the message.
LEMMA AddedTogether ==
    ASSUME NEW conv, NEW X, Fine(conv, X),
           NEW m \in Msg, NEW n \in Msg, n.of \notin X, n.to = m.of,
           \/ m.kind = "instruction" /\ n.kind = "response"
           \/ m.kind = "request" /\ n.kind = "output"
    PROVE  Fine(Added(Added(conv, m), n), X \cup {m.of, n.of})
<1> DEFINE order == conv.order
           one == Added(conv, m).order
           new == Added(Added(conv, m), n).order
<1>1. order \in Seq(Msg) /\ conv \in Conv /\ Len(order) \in Nat
      /\ DOMAIN order = 1..Len(order)
  BY LenProperties DEF Fine, Conv
<1>2. Same(m, Asker(n)) /\ ~Same(m, n) /\ \A i \in 1..Len(order) : ~Same(order[i], n)
  BY AskerIs DEF Same, Fine
\* What the first message leaves.
<1>3. /\ Added(conv, m) \in Conv /\ one \in Seq(Msg) /\ Len(one) \in Nat
      /\ DOMAIN one = 1..Len(one) /\ Len(order) <= Len(one)
      /\ \A i \in 1..Len(order) : one[i] = order[i]
      /\ \/ /\ Len(one) = Len(order)
            /\ \E j \in 1..Len(order) : Same(order[j], m)
         \/ Len(one) = Len(order) + 1 /\ one[Len(one)] = m
  <2>1. CASE \E i \in DOMAIN order : Same(order[i], m)
    <3>1. Added(conv, m) = conv
      BY <2>1 DEF Added
    <3> QED
      BY <1>1, <2>1, <3>1
  <2>2. CASE ~\E i \in DOMAIN order : Same(order[i], m)
    <3>1. Added(conv, m) = WithOrder(conv, order \o <<m>>)
      BY <2>2 DEF Added
    <3>2. PICK s : s = order \o <<m>>
      OBVIOUS
    <3>3. /\ s \in Seq(Msg) /\ Len(s) = Len(order) + 1
          /\ s[Len(order) + 1] = m /\ \A i \in 1..Len(order) : s[i] = order[i]
      BY <1>1, <3>2
    <3>4. Added(conv, m) \in Conv /\ one = s
      BY <1>1, <3>1, <3>2, <3>3 DEF WithOrder, Conv
    <3>5. DOMAIN s = 1..Len(s) /\ Len(s) \in Nat
      BY <3>3, LenProperties
    <3>6. Len(one) = Len(order) + 1 /\ one[Len(one)] = m /\ Len(order) \in Nat
      <4> HIDE DEF one, order
      <4> QED
        BY <1>1, <3>3, <3>4
    <3> HIDE DEF one, order
    <3> QED
      BY <3>3, <3>4, <3>5, <3>6
  <2> QED
    BY <2>1, <2>2
\* And the second.
<1>4. /\ Added(Added(conv, m), n) \in Conv
      /\ new \in Seq(Msg) /\ Len(new) = Len(one) + 1 /\ new[Len(new)] = n
      /\ \A i \in 1..Len(one) : new[i] = one[i]
  <2>1. \A i \in 1..Len(one) : ~Same(one[i], n)
    <3> SUFFICES ASSUME NEW i \in 1..Len(one) PROVE ~Same(one[i], n)
      OBVIOUS
    <3>1. i \in 1..Len(order) \/ (i = Len(one) /\ one[i] = m)
      BY <1>1, <1>3
    <3> HIDE DEF one, order
    <3> QED
      BY <1>2, <1>3, <3>1
  <2>2. Added(Added(conv, m), n) = WithOrder(Added(conv, m), one \o <<n>>)
    BY <1>3, <2>1 DEF Added
  <2>3. PICK s : s = one \o <<n>>
    OBVIOUS
  <2>4. /\ s \in Seq(Msg) /\ Len(s) = Len(one) + 1
        /\ s[Len(one) + 1] = n /\ \A i \in 1..Len(one) : s[i] = one[i]
    BY <1>3, <2>3
  <2>5. Added(Added(conv, m), n) \in Conv /\ new = s
    BY <1>3, <2>2, <2>3, <2>4 DEF WithOrder, Conv
  <2> HIDE DEF one, new
  <2> QED
    BY <2>4, <2>5
<1> HIDE DEF order, one, new
<1>5. /\ Len(new) \in Nat /\ \A i \in 1..Len(order) : new[i] = order[i]
      /\ Len(order) < Len(new)
      /\ \A i \in 1..Len(new) : i > Len(order) =>
            \/ i = Len(new) /\ new[i] = n
            \/ i = Len(order) + 1 /\ Len(new) = Len(order) + 2 /\ new[i] = m
  <2>1. CASE Len(one) = Len(order)
    <3>1. Len(order) \in Nat /\ Len(new) = Len(order) + 1 /\ new[Len(new)] = n
      BY <1>1, <1>4, <2>1
    <3>2. \A i \in 1..Len(order) : new[i] = order[i]
      BY <1>3, <1>4, <2>1
    <3> QED
      BY <3>1, <3>2
  <2>2. CASE Len(one) = Len(order) + 1 /\ one[Len(one)] = m
    <3>1. Len(order) + 1 \in 1..Len(one) /\ new[Len(order) + 1] = m
      BY <1>1, <1>3, <1>4, <2>2
    <3>2. \A i \in 1..Len(order) : i \in 1..Len(one)
      BY <1>1, <2>2
    <3> QED
      BY <1>1, <1>3, <1>4, <2>2, <3>1, <3>2
  <2> QED
    BY <1>3, <2>1, <2>2
<1>6. /\ m.kind \notin Replies /\ Asker(n).kind = m.kind /\ Asker(n).of = m.of
      /\ ~Same(m, System) /\ ~Same(n, System)
  <2>1. m.kind \notin Replies /\ m.kind # "system" /\ n.kind # "system"
    BY DEF Replies
  <2>2. Asker(n).kind = m.kind /\ Asker(n).of = m.of
    BY AskerIs
  <2>3. System.kind = "system"
    BY DEF System, Message
  <2> QED
    BY <2>1, <2>2, <2>3 DEF Same
<1>7. Answers(new, Len(new))
  <2>1. CASE Len(one) = Len(order) + 1 /\ one[Len(one)] = m
    <3>1. PICK k : k = Len(one)
      OBVIOUS
    <3>2. k \in Nat /\ k \in 1..k
      BY <1>1, <2>1, <3>1
    <3>3. Len(new) = k + 1 /\ new[k] = one[k] /\ new[Len(new)] = n
      BY <1>4, <3>1, <3>2
    <3>4. k = Len(new) - 1 /\ new[k] = m
      BY <2>1, <3>1, <3>2, <3>3
    <3> QED
      BY <1>2, <3>2, <3>3, <3>4 DEF Answers
  <2>2. CASE Len(one) = Len(order) /\ \E j \in 1..Len(order) : Same(order[j], m)
    <3>1. PICK j \in 1..Len(order) : Same(order[j], m)
      BY <2>2
    <3>2. j \in 1..Len(new) - 1 /\ Same(new[j], Asker(n))
      <4>1. new[j] = order[j] /\ Len(new) - 1 = Len(order)
        BY <1>1, <1>4, <1>5, <2>2
      <4> QED
        BY <1>6, <3>1, <4>1 DEF Same
    <3>3. n.to # n.of
      BY <3>1 DEF Fine, Same, order
    <3> QED
      BY <1>4, <3>2, <3>3 DEF Answers
  <2> QED
    BY <1>3, <2>1, <2>2
<1>8. Whole(new)
  <2>1. Whole(order)
    BY DEF Fine, order
  <2>2. ASSUME NEW i \in 1..Len(new), i > Len(order), new[i].kind \in Replies
        PROVE  Answers(new, i)
    BY <1>5, <1>6, <1>7, <2>2
  <2> QED
    BY <1>1, <1>5, <2>1, <2>2, WholeGrows
<1>9. First(new)
  <2> SUFFICES ASSUME NEW i \in 1..Len(new), Same(new[i], System) PROVE i = 1
    BY DEF First
  <2>1. i \in 1..Len(order) /\ new[i] = order[i]
    BY <1>1, <1>5, <1>6
  <2> QED
    BY <2>1 DEF Fine, First, order
<1>10. \A i \in 1..Len(new) : new[i].of \in X \cup {m.of, n.of}
  <2> SUFFICES ASSUME NEW i \in 1..Len(new) PROVE new[i].of \in X \cup {m.of, n.of}
    OBVIOUS
  <2>1. CASE i \in 1..Len(order)
    BY <1>5, <2>1 DEF Fine, order
  <2>2. CASE i > Len(order)
    BY <1>5, <2>2
  <2> QED
    BY <1>1, <2>1, <2>2
<1>11. AllAnswered(new)
  <2> SUFFICES ASSUME NEW i \in 1..Len(new), new[i].kind = "instruction"
               PROVE  i < Len(new) /\ new[i + 1].kind = "response"
    BY DEF AllAnswered
  <2>1. CASE i \in 1..Len(order)
    <3>1. order[i].kind = "instruction"
      BY <1>5, <2>1
    <3>2. i < Len(order) /\ order[i + 1].kind = "response"
      BY <2>1, <3>1 DEF Fine, AllAnswered, order
    <3>3. i + 1 \in 1..Len(order)
      BY <1>1, <2>1, <3>2
    <3> QED
      BY <1>1, <1>5, <3>2, <3>3
  <2>2. CASE i > Len(order)
    <3>1. i = Len(order) + 1 /\ Len(new) = Len(order) + 2 /\ new[i] = m
      BY <1>5, <2>2
    <3> QED
      BY <1>1, <1>4, <3>1
  <2> QED
    BY <1>1, <2>1, <2>2
<1> QED
  BY <1>4, <1>8, <1>9, <1>10, <1>11 DEF Fine, new

\* A request is added alone, if the branch does not have it.
LEMMA AddedAlone ==
    ASSUME NEW conv, NEW X, Fine(conv, X), NEW m \in Msg, m.kind = "request"
    PROVE  Fine(Added(conv, m), X \cup {m.of})
<1> DEFINE order == conv.order
           one == order \o <<m>>
<1>1. order \in Seq(Msg) /\ conv \in Conv /\ Len(order) \in Nat
  BY LenProperties DEF Fine, Conv
<1>2. SUFFICES ASSUME ~\E i \in DOMAIN order : Same(order[i], m)
               PROVE  Fine(Added(conv, m), X \cup {m.of})
  <2>1. CASE \E i \in DOMAIN order : Same(order[i], m)
    <3>1. Added(conv, m) = conv
      BY <2>1 DEF Added
    <3> QED
      BY <3>1, FineMore
  <2> QED
    BY <2>1
<1>3. /\ one \in Seq(Msg) /\ Len(one) = Len(order) + 1
      /\ one[Len(order) + 1] = m
      /\ \A i \in 1..Len(order) : one[i] = order[i]
  BY <1>1
<1>4. Added(conv, m) \in Conv /\ Added(conv, m).order = one
  BY <1>1, <1>2, <1>3 DEF Added, WithOrder, Conv
<1> HIDE DEF one
<1>5. ASSUME NEW i \in 1..Len(one)
      PROVE  /\ Same(one[i], System) => i = 1
             /\ one[i].of \in X \cup {m.of}
  <2>1. CASE i \in 1..Len(order)
    BY <1>3, <2>1 DEF Fine, First
  <2>2. CASE i = Len(order) + 1
    BY <1>3, <2>2 DEF Same, System, Message
  <2> QED
    BY <1>1, <1>3, <2>1, <2>2
<1>6. AllAnswered(one)
  <2> SUFFICES ASSUME NEW i \in 1..Len(one), one[i].kind = "instruction"
               PROVE  i < Len(one) /\ one[i + 1].kind = "response"
    BY DEF AllAnswered
  <2>1. i \in 1..Len(order)
    BY <1>1, <1>3
  <2>2. i < Len(order) /\ order[i + 1].kind = "response"
    BY <1>3, <2>1 DEF Fine, AllAnswered
  <2>3. i + 1 \in 1..Len(order)
    BY <1>1, <2>1, <2>2
  <2> QED
    BY <1>1, <1>3, <2>2, <2>3
<1>7. Whole(one)
  <2>1. \A i \in 1..Len(one) : i > Len(order) => one[i].kind \notin Replies
    BY <1>1, <1>3 DEF Replies
  <2>2. Whole(order) /\ Len(one) \in Nat
    BY <1>1, <1>3 DEF Fine
  <2> HIDE DEF order
  <2> QED
    BY <1>1, <1>3, <2>1, <2>2, WholeGrows
<1> QED
  BY <1>4, <1>5, <1>6, <1>7 DEF Fine, First

\* Contexts are written, and nothing is moved.
LEMMA ContextsFine ==
    ASSUME NEW conv, NEW X, Fine(conv, X), NEW new \in Seq(Msg), Len(new) = Len(conv.order),
           \A i \in 1..Len(new) : Same(new[i], conv.order[i]) /\ new[i].to = conv.order[i].to
    PROVE  Fine(WithOrder(conv, new), X) /\ WithOrder(conv, new).order = new
<1>1. PICK order : order = conv.order
  OBVIOUS
<1>2. order \in Seq(Msg) /\ conv \in Conv /\ Len(order) \in Nat
  BY <1>1, LenProperties DEF Fine, Conv
<1>3. WithOrder(conv, new) \in Conv /\ WithOrder(conv, new).order = new
  BY <1>2 DEF WithOrder, Conv
<1>4. /\ Len(new) = Len(order)
      /\ \A i \in 1..Len(new) : Same(new[i], order[i]) /\ new[i].to = order[i].to
  BY <1>1
<1>5. Whole(new)
  <2>1. Whole(order)
    BY <1>1 DEF Fine
  <2>2. ASSUME NEW i \in 1..Len(new)
        PROVE  /\ i + 0 \in 1..Len(order)
               /\ Same(new[i], order[i + 0]) /\ new[i].to = order[i + 0].to
    BY <1>2, <1>4
  <2>3. ASSUME NEW k \in 1..Len(order)
        PROVE  k - 0 \in 1..Len(new) /\ Same(new[k - 0], order[k])
    BY <1>2, <1>4
  <2>4. 0 \in Int /\ Len(new) \in Nat
    BY <1>2, <1>4
  <2> QED
    BY <1>2, <2>1, <2>2, <2>3, <2>4, WholeMoves
<1>6. First(new) /\ \A i \in 1..Len(new) : new[i].of \in X
  BY <1>1, <1>4 DEF Same, Fine, First
<1>7. AllAnswered(new)
  <2> SUFFICES ASSUME NEW i \in 1..Len(order), new[i].kind = "instruction"
               PROVE  i < Len(new) /\ new[i + 1].kind = "response"
    BY <1>4 DEF AllAnswered
  <2>1. order[i].kind = "instruction"
    BY <1>4 DEF Same
  <2>2. i < Len(order) /\ order[i + 1].kind = "response"
    BY <1>1, <2>1 DEF Fine, AllAnswered
  <2>3. i + 1 \in 1..Len(order)
    BY <1>2, <2>2
  <2> QED
    BY <1>4, <2>2, <2>3 DEF Same
<1> QED
  BY <1>3, <1>5, <1>6, <1>7 DEF Fine

\* chat() writes contexts, and moves nothing.
LEMMA MergedFine ==
    ASSUME NEW conv, NEW X, Fine(conv, X)
    PROVE  /\ Fine(WithOrder(conv, Merged(conv.order)), X)
           /\ \A i : Waiting(conv.order, i) \in SUBSET {conv.order[j].of : j \in 1..i - 1}
<1> DEFINE order == conv.order
           new == Merged(order)
<1>1. order \in Seq(Msg) /\ conv \in Conv /\ Len(order) \in Nat
  BY LenProperties DEF Fine, Conv
<1>2. \A i : Waiting(order, i) \in SUBSET {order[j].of : j \in 1..i - 1}
  BY DEF Waiting
<1>3. \A i \in 1..Len(order) : order[i] \in Msg
  BY <1>1, ElementOfSeq
<1>4. \A i \in 1..Len(order) : Waiting(order, i) \in SUBSET Ref
  <2> SUFFICES ASSUME NEW i \in 1..Len(order), NEW j \in 1..i - 1
               PROVE  order[j].of \in Ref
    BY <1>2
  <2>1. j \in 1..Len(order)
    BY <1>1
  <2> HIDE DEF order
  <2> QED
    BY <2>1, <1>3 DEF Msg
<1>5. Len(new) = Len(order) /\ new \in Seq(Msg)
      /\ \A i \in 1..Len(order) : Same(new[i], order[i]) /\ new[i].to = order[i].to
  <2>1. \A i \in 1..Len(order) : /\ new[i] \in Msg /\ Same(new[i], order[i])
                                 /\ new[i].to = order[i].to
    <3> SUFFICES ASSUME NEW i \in 1..Len(order)
                 PROVE  new[i] \in Msg /\ Same(new[i], order[i]) /\ new[i].to = order[i].to
      OBVIOUS
    <3>1. order[i].context \cup Waiting(order, i) \in SUBSET Ref
      BY <1>3, <1>4 DEF Msg
    <3>2. new[i] = IF order[i].kind = "instruction"
                   THEN [order[i] EXCEPT !.context = @ \cup Waiting(order, i)]
                   ELSE order[i]
      BY DEF Merged
    <3> HIDE DEF new, order, Ref
    <3> QED
      BY <1>3, <3>1, <3>2 DEF Msg, Same
  <2>2. new = [i \in 1..Len(order) |-> new[i]]
    BY DEF Merged
  <2> HIDE DEF new, order
  <2> QED
    BY <2>1, <2>2, <1>1
<1> HIDE DEF new
<1>6. Fine(WithOrder(conv, new), X)
  BY <1>5, ContextsFine
<1> QED
  BY <1>2, <1>6 DEF new

\* So it does when it asks with an instruction that the branch holds.
LEMMA ShownFine ==
    ASSUME NEW conv, NEW X, Fine(conv, X), NEW of, NEW outputs \in SUBSET Ref
    PROVE  Fine(WithOrder(conv, Shown(conv.order, of, outputs)), X)
<1> DEFINE order == conv.order
           new == Shown(order, of, outputs)
<1>1. order \in Seq(Msg) /\ Len(order) \in Nat /\ \A i \in 1..Len(order) : order[i] \in Msg
  BY LenProperties, ElementOfSeq DEF Fine, Conv
<1>2. new = [i \in 1..Len(order) |-> new[i]]
  BY DEF Shown
<1>3. \A i \in 1..Len(order) : new[i] = order[i]
            \/ new[i] = [order[i] EXCEPT !.context = @ \cup outputs]
  BY DEF Shown
<1> HIDE DEF new, order
<1>4. ASSUME NEW i \in 1..Len(order)
      PROVE  new[i] \in Msg /\ Same(new[i], order[i]) /\ new[i].to = order[i].to
  <2>1. order[i].context \cup outputs \in SUBSET Ref
    BY <1>1 DEF Msg
  <2> HIDE DEF Ref
  <2> QED
    BY <1>1, <1>3, <2>1 DEF Msg, Same
<1>5. new \in Seq(Msg) /\ Len(new) = Len(order)
  BY <1>1, <1>2, <1>4
<1> QED
  BY <1>4, <1>5, ContextsFine DEF new, order

\* The system message comes first, and the one before it goes.
LEMMA WithSystemFine ==
    ASSUME NEW conv, NEW X, Fine(conv, X), <<0, 0>> \in X
    PROVE  Fine(WithSystem(conv), X)
<1> DEFINE order == conv.order
           rest == Excluded(order, System)
           new == <<System>> \o rest
<1>1. order \in Seq(Msg) /\ conv \in Conv /\ Len(order) \in Nat
  BY LenProperties DEF Fine, Conv
<1>2. System \in Msg
  BY MessageIsMsg
\* What is left of the order is its end, without a system message of its own.
<1>3. /\ rest \in Seq(Msg) /\ Len(rest) \in Nat
      /\ \E d \in {0, 1} :
            /\ Len(rest) = Len(order) - d
            /\ d = 1 => Same(order[1], System)
            /\ \A i \in 1..Len(rest) : rest[i] = order[i + d] /\ ~Same(rest[i], System)
  <2>1. CASE \E i \in DOMAIN order : Same(order[i], System)
    <3>1. (CHOOSE i \in DOMAIN order : Same(order[i], System)) = 1
          /\ Same(order[1], System) /\ Len(order) >= 1
      BY <1>1, <2>1 DEF Fine, First
    <3>2. rest = SubSeq(order, 1, 0) \o SubSeq(order, 2, Len(order))
      <4> DEFINE c == CHOOSE i \in DOMAIN order : Same(order[i], System)
      <4>1. rest = RemoveAt(order, c)
        BY <2>1 DEF Excluded
      <4>2. c = 1
        BY <3>1
      <4> HIDE DEF c, rest
      <4>3. RemoveAt(order, 1) = SubSeq(order, 1, 0) \o SubSeq(order, 2, Len(order))
        BY DEF RemoveAt
      <4> QED
        BY <4>1, <4>2, <4>3
    <3>3. SubSeq(order, 1, 0) = <<>>
      BY <1>1
    <3>4. rest = SubSeq(order, 2, Len(order))
      BY <1>1, <3>1, <3>2, <3>3
    <3>5. rest \in Seq(Msg) /\ Len(rest) = Len(order) - 1
          /\ \A i \in 1..Len(rest) : rest[i] = order[i + 1]
      BY <1>1, <3>1, <3>4
    <3>6. \A i \in 1..Len(rest) : ~Same(rest[i], System)
      <4> HIDE DEF rest
      <4> SUFFICES ASSUME NEW i \in 1..Len(rest) PROVE ~Same(rest[i], System)
        OBVIOUS
      <4>1. i + 1 \in 1..Len(order) /\ i + 1 # 1
        BY <1>1, <3>5
      <4> QED
        BY <3>5, <4>1 DEF Fine, First
    <3> HIDE DEF rest, order
    <3>7. Len(rest) \in Nat
      BY <1>1, <3>1, <3>5
    <3>8. \E d \in {0, 1} :
            /\ Len(rest) = Len(order) - d
            /\ d = 1 => Same(order[1], System)
            /\ \A i \in 1..Len(rest) : rest[i] = order[i + d] /\ ~Same(rest[i], System)
      <4> WITNESS 1 \in {0, 1}
      <4> QED
        BY <3>1, <3>5, <3>6
    <3> QED
      BY <3>5, <3>7, <3>8
  <2>2. CASE ~\E i \in DOMAIN order : Same(order[i], System)
    <3>1. rest = order
      BY <2>2 DEF Excluded
    <3> HIDE DEF rest
    <3> QED
      BY <1>1, <2>2, <3>1
  <2> QED
    BY <2>1, <2>2
<1>4. PICK d \in {0, 1} :
            /\ Len(rest) = Len(order) - d
            /\ d = 1 => Same(order[1], System)
            /\ \A i \in 1..Len(rest) : rest[i] = order[i + d] /\ ~Same(rest[i], System)
  BY <1>3
<1> HIDE DEF rest
<1>5. /\ new \in Seq(Msg) /\ Len(new) = Len(rest) + 1
      /\ new[1] = System
      /\ \A i \in 2..Len(rest) + 1 : new[i] = rest[i - 1]
  BY <1>2, <1>3
<1>11. ASSUME NEW i \in 1..Len(rest) + 1, i # 1
       PROVE  i \in 2..Len(rest) + 1 /\ i - 1 \in 1..Len(rest) /\ new[i] = rest[i - 1]
  <2>1. i \in 2..Len(rest) + 1 /\ i - 1 \in 1..Len(rest)
    BY <1>3, <1>11
  <2> QED
    BY <2>1, <1>5
<1>6. WithSystem(conv) = [order |-> new, system |-> TRUE]
  BY DEF WithSystem, rest
<1> HIDE DEF new
<1>7. WithSystem(conv) \in Conv /\ WithSystem(conv).order = new
  BY <1>5, <1>6 DEF Conv
<1>8. Whole(new)
  <2> DEFINE c == d - 1
  <2>1. Len(order) = Len(rest) + d /\ c \in Int /\ Len(new) \in Nat /\ d = c + 1
    BY <1>1, <1>3, <1>4, <1>5
  <2>2. ASSUME NEW i \in 1..Len(new), i # 1
        PROVE  i + c \in 1..Len(order) /\ new[i] = order[i + c]
    <3>1. i - 1 \in 1..Len(rest) /\ new[i] = rest[i - 1]
      BY <1>5, <1>11, <2>2
    <3>2. (i - 1) + d = i + c /\ i + c \in 1..Len(order)
      <4>1. i \in Int /\ (i - 1) + d = i + c
        BY <2>1
      <4>2. (i - 1) + d \in 1..Len(rest) + d
        BY <1>3, <3>1
      <4> QED
        BY <2>1, <4>1, <4>2
    <3>3. rest[i - 1] = order[(i - 1) + d]
      BY <1>4, <3>1
    <3> HIDE DEF c, order
    <3> QED
      BY <3>1, <3>2, <3>3
  <2>3. ASSUME NEW i \in 1..Len(new), new[i].kind \in Replies
        PROVE  /\ i + c \in 1..Len(order)
               /\ Same(new[i], order[i + c]) /\ new[i].to = order[i + c].to
    <3>1. i # 1
      BY <1>5, <2>3 DEF System, Message, Replies
    <3> QED
      BY <2>2, <3>1 DEF Same
  <2>4. ASSUME NEW k \in 1..Len(order), order[k].kind \in {"instruction", "request"}
        PROVE  k - c \in 1..Len(new) /\ Same(new[k - c], order[k])
    <3>1. ~(d = 1 /\ k = 1)
      BY <1>4, <2>4 DEF Same, System, Message
    <3>2. k - c \in 1..Len(new) /\ k - c # 1 /\ (k - c) + c = k
      BY <1>1, <1>3, <1>4, <1>5, <2>1, <3>1
    <3> QED
      BY <2>2, <3>2 DEF Same
  <2>5. Whole(order)
    BY DEF Fine
  <2> HIDE DEF c, order
  <2> QED
    BY <1>1, <2>1, <2>3, <2>4, <2>5, WholeMoves
<1>9. First(new)
  <2> SUFFICES ASSUME NEW i \in 1..Len(rest) + 1, i # 1 PROVE ~Same(new[i], System)
    BY <1>5 DEF First
  <2>1. i - 1 \in 1..Len(rest) /\ new[i] = rest[i - 1]
    BY <1>11
  <2> QED
    BY <2>1, <1>4
<1>10. \A i \in 1..Len(new) : new[i].of \in X
  <2> SUFFICES ASSUME NEW i \in 1..Len(rest) + 1 PROVE new[i].of \in X
    BY <1>5
  <2>1. CASE i = 1
    <3>1. System.of = <<0, 0>>
      BY DEF System, Message
    <3> QED
      BY <1>5, <2>1, <3>1
  <2>2. CASE i > 1
    <3>1. i - 1 \in 1..Len(rest) /\ new[i] = rest[i - 1]
      BY <1>3, <1>11, <2>2
    <3>2. i - 1 + d \in 1..Len(order)
      BY <1>1, <1>3, <1>4, <3>1
    <3> QED
      BY <1>4, <3>1, <3>2 DEF Fine
  <2> QED
    BY <1>3, <2>1, <2>2
<1>12. AllAnswered(new)
  <2> SUFFICES ASSUME NEW i \in 1..Len(rest) + 1, new[i].kind = "instruction"
               PROVE  i < Len(rest) + 1 /\ new[i + 1].kind = "response"
    BY <1>5 DEF AllAnswered
  <2>1. i # 1
    BY <1>5 DEF System, Message
  <2>2. i - 1 \in 1..Len(rest) /\ new[i] = order[i - 1 + d]
    BY <1>4, <1>11, <2>1
  <2> DEFINE k == i - 1 + d
  <2>3. k \in 1..Len(order)
    BY <1>1, <1>3, <1>4, <2>2
  <2>4. k < Len(order) /\ order[k + 1].kind = "response"
    BY <2>2, <2>3 DEF Fine, AllAnswered
  <2>5. i \in 1..Len(rest) /\ i + 1 \in 2..Len(rest) + 1 /\ (i + 1) - 1 = i /\ i + d = k + 1
    BY <1>1, <1>3, <1>4, <2>2, <2>4
  <2>6. rest[i] = order[i + d]
    BY <1>4, <2>5
  <2>7. new[i + 1] = rest[i]
    <3>1. new[i + 1] = rest[(i + 1) - 1]
      BY <1>5, <2>5
    <3> QED
      BY <2>5, <3>1
  <2> QED
    BY <1>3, <2>4, <2>5, <2>6, <2>7
<1> QED
  BY <1>7, <1>8, <1>9, <1>10, <1>12 DEF Fine

\* Clones are in order as the messages are, and none is the copy's system message.
LEMMA ClonesFine ==
    ASSUME NEW order \in Seq(Msg), NEW X, NEW system \in BOOLEAN,
           Whole(order), AllAnswered(order),
           \A i \in 1..Len(order) : order[i].of \in X, <<0, 1>> \in X
    PROVE  Fine([order |-> Clones(order), system |-> system], X)
<1> DEFINE new == Clones(order)
<1>1. Len(order) \in Nat /\ \A i \in 1..Len(order) : order[i] \in Msg
  BY LenProperties, ElementOfSeq
<1>2. Message("system", <<0, 1>>) \in Msg
  <2>1. <<0, 1>> \in Ref
    BY DEF Ref
  <2>2. "system" \in Kinds
    BY DEF Kinds
  <2> QED
    BY <2>1, <2>2, MessageIsMsg
<1>3. \A i \in 1..Len(order) : new[i] = Clone(order[i]) /\ new[i] \in Msg
  BY <1>1, <1>2 DEF Clones, Clone
<1>4. Len(new) = Len(order) /\ new \in Seq(Msg)
  <2>1. new = [i \in 1..Len(order) |-> new[i]]
    BY DEF Clones
  <2> HIDE DEF new
  <2> QED
    BY <2>1, <1>1, <1>3
<1> HIDE DEF new
<1>5. \A i \in 1..Len(order) :
        /\ order[i].kind # "system" => new[i] = order[i]
        /\ order[i].kind = "system" => new[i].kind = "system" /\ new[i].of = <<0, 1>>
  BY <1>3 DEF Clone, Message
<1>6. Whole(new)
  <2>1. ASSUME NEW i \in 1..Len(new), new[i].kind \in Replies
        PROVE  /\ i + 0 \in 1..Len(order)
               /\ Same(new[i], order[i + 0]) /\ new[i].to = order[i + 0].to
    BY <1>1, <1>4, <1>5, <2>1 DEF Same, Replies
  <2>2. ASSUME NEW k \in 1..Len(order), order[k].kind \in {"instruction", "request"}
        PROVE  k - 0 \in 1..Len(new) /\ Same(new[k - 0], order[k])
    BY <1>1, <1>4, <1>5, <2>2 DEF Same
  <2>3. 0 \in Int /\ Len(new) \in Nat
    BY <1>1, <1>4
  <2> QED
    BY <1>1, <2>1, <2>2, <2>3, WholeMoves
<1>7. First(new)
  <2> SUFFICES ASSUME NEW i \in 1..Len(order) PROVE ~Same(new[i], System)
    BY <1>4 DEF First
  <2>1. <<0, 1>> # <<0, 0>>
    OBVIOUS
  <2>2. System.kind = "system" /\ System.of = <<0, 0>>
    BY DEF System, Message
  <2> QED
    BY <1>5, <2>1, <2>2 DEF Same
<1>8. \A i \in 1..Len(new) : new[i].of \in X
  BY <1>4, <1>5
<1>9. [order |-> new, system |-> system] \in Conv
  BY <1>4 DEF Conv
<1>11. AllAnswered(new)
  <2> SUFFICES ASSUME NEW i \in 1..Len(order), new[i].kind = "instruction"
               PROVE  i < Len(order) /\ new[i + 1].kind = "response"
    BY <1>4 DEF AllAnswered
  <2>1. order[i].kind = "instruction"
    BY <1>5
  <2>2. i < Len(order) /\ order[i + 1].kind = "response"
    BY <2>1 DEF AllAnswered
  <2>3. i + 1 \in 1..Len(order)
    BY <1>1, <2>2
  <2> QED
    BY <1>5, <2>2, <2>3
<1>10. Fine([order |-> new, system |-> system], X)
  BY <1>6, <1>7, <1>8, <1>9, <1>11 DEF Fine
<1> QED
  BY <1>10 DEF new

SystemRefs == {<<0, 0>>, <<0, 1>>}

LEMMA ClonedFine ==
    ASSUME NEW conv, NEW X, Fine(conv, X), SystemRefs \subseteq X
    PROVE  Fine(Cloned(conv), X)
<1> DEFINE copy == [order |-> Clones(conv.order), system |-> FALSE]
<1>1. Fine(copy, X)
  BY ClonesFine DEF Fine, Conv, SystemRefs
<1>2. Fine(WithSystem(copy), X)
  BY <1>1, WithSystemFine DEF SystemRefs
<1>3. Cloned(conv) = IF conv.system THEN WithSystem(copy) ELSE copy
  BY DEF Cloned
<1> HIDE DEF copy
<1> QED
  BY <1>1, <1>2, <1>3

LEMMA InheritedFine ==
    ASSUME NEW conv, NEW primary, NEW X, Fine(conv, X), Fine(primary, X), SystemRefs \subseteq X
    PROVE  Fine(Inherited(conv, primary), X)
<1>1. conv.system \in BOOLEAN /\ conv = [order |-> conv.order, system |-> conv.system]
  BY DEF Fine, Conv
<1>2. Fine([order |-> Clones(primary.order), system |-> conv.system], X)
  BY <1>1, ClonesFine DEF Fine, Conv, SystemRefs
<1>3. Inherited(conv, primary) = [order |-> Clones(primary.order), system |-> conv.system]
  BY <1>1 DEF Inherited, WithOrder, Fine, Conv
<1> QED
  BY <1>2, <1>3

LEMMA ClearedFine ==
    ASSUME NEW conv, NEW X, Fine(conv, X), SystemRefs \subseteq X
    PROVE  Fine(Cleared(conv), X)
<1>1. CASE conv.system
  <2>1. Cleared(conv) \in Conv /\ Cleared(conv).order = <<System>>
    <3>1. <<System>> \in Seq(Msg)
      BY MessageIsMsg
    <3> HIDE DEF Msg
    <3> QED
      BY <1>1, <3>1 DEF Cleared, WithOrder, Fine, Conv
  <2>2. System.kind = "system" /\ System.of = <<0, 0>>
    BY DEF System, Message
  <2> QED
    BY <2>1, <2>2 DEF Fine, Whole, AllAnswered, First, SystemRefs, Replies
<1>2. CASE ~conv.system
  <2>1. Cleared(conv) \in Conv /\ Cleared(conv).order = <<>>
    BY <1>2, EmptySeq DEF Cleared, WithOrder, Fine, Conv
  <2> QED
    BY <2>1 DEF Fine, Whole, AllAnswered, First
<1> QED
  BY <1>1, <1>2

-----------------------------------------------------------------------------
(* Induction over the naturals, with sets in place of predicates *)

\* A set of naturals that is not empty has a least member.
LEMMA LeastOf ==
    ASSUME NEW S \in SUBSET Nat, S # {}
    PROVE  \E x \in S : \A y \in S : x <= y
<1> DEFINE T == {1..n : n \in S}
<1>1. T \subseteq FiniteSubsetsOf(Nat) /\ T # {}
  <2>1. ASSUME NEW n \in S PROVE 1..n \in SUBSET Nat /\ IsFiniteSet(1..n)
    BY FS_Interval
  <2> QED
    BY <2>1 DEF FiniteSubsetsOf
<1>2. PICK I \in T : \A J \in T : <<J, I>> \notin StrictSubsetOrdering(Nat)
  <2> HIDE DEF T
  <2> QED
    BY <1>1, FS_StrictSubsetOrderingWellFounded, WFMin
<1>3. PICK x \in S : I = 1..x
  OBVIOUS
<1>4. ASSUME NEW y \in S, y < x PROVE FALSE
  <2>1. 1..y \in SUBSET Nat /\ 1..x \in SUBSET Nat /\ 1..y \subseteq 1..x /\ 1..y # 1..x
    <3>1. x \in 1..x /\ x \notin 1..y
      BY <1>4
    <3> QED
      BY <1>4, <3>1
  <2>2. <<1..y, 1..x>> \in StrictSubsetOrdering(Nat)
    BY <2>1 DEF StrictSubsetOrdering
  <2> QED
    BY <1>2, <1>3, <2>2
<1> QED
  BY <1>4

\* Induction up to a bound, for a set in place of a predicate.
LEMMA UpTo ==
    ASSUME NEW n \in Nat, NEW Good, 0 \in Good,
           \A k \in 1..n : k - 1 \in Good => k \in Good
    PROVE  0..n \subseteq Good
<1> DEFINE Bad == {k \in 0..n : k \notin Good}
<1>1. CASE Bad # {}
  <2>1. PICK x \in Bad : \A y \in Bad : x <= y
    <3> HIDE DEF Bad
    <3>1. Bad \in SUBSET Nat
      BY DEF Bad
    <3> QED
      BY <1>1, <3>1, LeastOf
  <2>2. x \in 1..n /\ x - 1 \in 0..n
    BY <2>1
  <2>3. x - 1 \in Good
    BY <2>1, <2>2
  <2> QED
    BY <2>1, <2>2, <2>3
<1> QED
  BY <1>1

\* The first values of a recursion whose steps are functions.
Solution(f, n, S, s0, step) ==
  f \in [0..n -> S] /\ f[0] = s0 /\ \A k \in 1..n : f[k] = step[k][f[k - 1]]

\* Such a recursion has a solution.
LEMMA Recursion ==
    ASSUME NEW n \in Nat, NEW S, NEW s0 \in S, NEW step \in [1..n -> [S -> S]]
    PROVE  \E f : Solution(f, n, S, s0, step)
<1> DEFINE Sols(m) == {f \in [0..m -> S] : f[0] = s0 /\ \A k \in 1..m : f[k] = step[k][f[k - 1]]}
           Good == {m \in 0..n : Sols(m) # {}}
<1>1. 0 \in Good
  <2>1. [k \in 0..0 |-> s0] \in Sols(0)
    OBVIOUS
  <2> QED
    BY <2>1
<1>2. ASSUME NEW m \in 1..n, m - 1 \in Good PROVE m \in Good
  <2>1. PICK f : f \in Sols(m - 1)
    BY <1>2
  <2> DEFINE g == [k \in 0..m |-> IF k = m THEN step[m][f[m - 1]] ELSE f[k]]
  <2>2. f[m - 1] \in S /\ step[m][f[m - 1]] \in S
    BY <2>1
  <2>3. g \in [0..m -> S]
    BY <2>1, <2>2
  <2>4. g[0] = s0
    BY <2>1
  <2>5. ASSUME NEW k \in 1..m PROVE g[k] = step[k][g[k - 1]]
    <3>1. g[k - 1] = f[k - 1]
      OBVIOUS
    <3>2. CASE k = m
      BY <3>1, <3>2
    <3>3. CASE k # m
      <4>1. k \in 1..(m - 1) /\ g[k] = f[k]
        BY <3>3
      <4>2. f[k] = step[k][f[k - 1]]
        BY <4>1, <2>1
      <4> QED
        BY <4>1, <4>2, <3>1
    <3> QED
      BY <3>2, <3>3
  <2>6. g \in Sols(m)
    <3> HIDE DEF g
    <3> QED
      BY <2>3, <2>4, <2>5
  <2> HIDE DEF Sols
  <2> QED
    BY <2>6
<1>3. 0..n \subseteq Good
  <2> HIDE DEF Good
  <2> QED
    BY <1>1, <1>2, UpTo
<1>4. Sols(n) # {}
  BY <1>3
<1> QED
  BY <1>4 DEF Solution

-----------------------------------------------------------------------------
(* What chat() sends *)

Spoken == {"instruction", "response"}

\* What there is of the chat after the first messages.
Chats(chat, s) ==
    /\ chat[0] = <<>>
    /\ \A k \in 1..Len(s) :
        chat[k] = IF s[k].kind \in Spoken THEN Alternate(chat[k - 1], s[k]) ELSE chat[k - 1]

LEMMA ChatUnfolds ==
    ASSUME NEW s \in Seq(Msg)
    PROVE  \E chat : Chats(chat, s) /\ Chat(s) = chat[Len(s)]
<1> DEFINE n == Len(s)
           body(f) == [k \in 0..n |->
                         IF k = 0 THEN <<>>
                         ELSE IF s[k].kind \in Spoken THEN Alternate(f[k - 1], s[k])
                              ELSE f[k - 1]]
           chat == CHOOSE f : f = body(f)
           step == [k \in 1..n |-> [x \in Seq(Msg) |->
                         IF s[k].kind \in Spoken THEN Alternate(x, s[k]) ELSE x]]
<1> HIDE DEF chat, step, body
<1>1. n \in Nat /\ DOMAIN s = 1..n /\ \A k \in 1..n : s[k] \in Msg
  BY LenProperties, ElementOfSeq
<1> HIDE DEF n
<1>2. chat = body(chat)
  <2>1. PICK S : S = Seq(Msg)
    OBVIOUS
  <2>2. step \in [1..n -> [S -> S]]
    <3>1. ASSUME NEW x \in S, NEW m \in Msg PROVE Alternate(x, m) \in S
      BY <2>1, AppendProperties DEF Alternate
    <3> QED
      BY <1>1, <2>1, <3>1 DEF step
  <2>3. <<>> \in S
    BY <2>1, EmptySeq
  <2>4. PICK f \in [0..n -> S] : f[0] = <<>> /\ \A k \in 1..n : f[k] = step[k][f[k - 1]]
    <3>1. \E f : Solution(f, n, S, <<>>, step)
      BY <1>1, <2>2, <2>3, Recursion
    <3> QED
      BY <3>1 DEF Solution
  <2>5. ASSUME NEW k \in 1..n
        PROVE  f[k] = IF s[k].kind \in Spoken THEN Alternate(f[k - 1], s[k]) ELSE f[k - 1]
    <3>1. f[k - 1] \in S
      BY <1>1
    <3> QED
      BY <1>1, <2>1, <2>4, <3>1 DEF step
  <2>6. ASSUME NEW k \in 0..n
        PROVE  f[k] = IF k = 0 THEN <<>>
                      ELSE IF s[k].kind \in Spoken THEN Alternate(f[k - 1], s[k]) ELSE f[k - 1]
    <3>1. CASE k = 0
      BY <2>4, <3>1
    <3>2. CASE k # 0
      <4>1. k \in 1..n
        BY <1>1, <3>2
      <4> QED
        BY <2>5, <3>2, <4>1
    <3> QED
      BY <3>1, <3>2
  <2>7. f = body(f)
    BY <2>6, Zenon DEF body
  <2> QED
    BY <2>7 DEF chat
<1>3. /\ chat[0] = <<>>
      /\ \A k \in 1..n : chat[k] = IF s[k].kind \in Spoken
                                   THEN Alternate(chat[k - 1], s[k]) ELSE chat[k - 1]
  <2>1. PICK f : f = body(f) /\ f = chat
    BY <1>2
  <2>2. \A k \in 0..n : f[k] = IF k = 0 THEN <<>>
                      ELSE IF s[k].kind \in Spoken THEN Alternate(f[k - 1], s[k]) ELSE f[k - 1]
    BY <2>1, Zenon DEF body
  <2>3. \A k \in 1..n : k \in 0..n /\ k # 0
    BY <1>1
  <2>4. 0 \in 0..n
    BY <1>1
  <2> QED
    BY <2>1, <2>2, <2>3, <2>4
<1>4. Chat(s) = chat[n]
  BY DEF Chat, chat, body, n, Spoken
<1> QED
  BY <1>3, <1>4 DEF Chats, n

\* An instruction, a response, and so on.
Alternates(chat) ==
    \A i \in 1..Len(chat) : chat[i].kind = IF i % 2 = 1 THEN "instruction" ELSE "response"

LEMMA Parity ==
    \A k \in Nat : k % 2 \in {0, 1} /\ (k + 1) % 2 = 1 - (k % 2)
OBVIOUS

\* A message that alternates with the last one is added to the chat.
LEMMA AlternatesOn ==
    ASSUME NEW chat \in Seq(Msg), Alternates(chat), NEW m \in Msg,
           m.kind = IF Len(chat) % 2 = 0 THEN "instruction" ELSE "response"
    PROVE  /\ Alternate(chat, m) = Append(chat, m)
           /\ Append(chat, m) \in Seq(Msg) /\ Alternates(Append(chat, m))
           /\ Len(Append(chat, m)) = Len(chat) + 1
           /\ Append(chat, m)[Len(chat) + 1] = m
           /\ \A i \in 1..Len(chat) : Append(chat, m)[i] = chat[i]
<1> DEFINE new == Append(chat, m)
<1>1. /\ new \in Seq(Msg) /\ Len(new) = Len(chat) + 1 /\ Len(chat) \in Nat
      /\ new[Len(chat) + 1] = m /\ \A i \in 1..Len(chat) : new[i] = chat[i]
  BY AppendProperties, LenProperties
<1> HIDE DEF new
<1>2. Alternates(new)
  <2> SUFFICES ASSUME NEW i \in 1..Len(chat) + 1
               PROVE  new[i].kind = IF i % 2 = 1 THEN "instruction" ELSE "response"
    BY <1>1 DEF Alternates
  <2>1. CASE i \in 1..Len(chat)
    BY <1>1, <2>1 DEF Alternates
  <2>2. CASE i = Len(chat) + 1
    BY <1>1, <2>2, Parity
  <2> QED
    BY <1>1, <2>1, <2>2
<1>3. Alternate(chat, m) = new
  <2>1. CASE chat = <<>>
    BY <2>1 DEF Alternate, new
  <2>2. CASE chat # <<>>
    <3>1. Len(chat) \in 1..Len(chat) /\ Last(chat) = chat[Len(chat)]
      BY <1>1, <2>2, EmptySeq DEF Last
    <3>2. Last(chat).kind # m.kind
      BY <1>1, <3>1, Parity DEF Alternates
    <3> QED
      BY <3>2 DEF Alternate, new
  <2> QED
    BY <2>1, <2>2
<1> QED
  BY <1>1, <1>2, <1>3 DEF new

\* What stays in the chat as it is.
Kept(m) == m.kind = "instruction" \/ (m.kind = "response" /\ m.to = m.of)

\* The chat of whole and answered exchanges alternates, ends with a response, and
\* leaves no instruction out, nor a response that comes with its own instruction.
LEMMA ChatIs ==
    ASSUME NEW s \in Seq(Msg), Whole(s), AllAnswered(s)
    PROVE  /\ Chat(s) \in Seq(Msg) /\ Alternates(Chat(s)) /\ Len(Chat(s)) % 2 = 0
           /\ \A i \in 1..Len(s) : Kept(s[i]) =>
                    \E j \in 1..Len(Chat(s)) : Chat(s)[j] = s[i]
<1>1. PICK chat : Chats(chat, s) /\ Chat(s) = chat[Len(s)]
  BY ChatUnfolds
<1> DEFINE n == Len(s)
           Holds(c, k) == \A i \in 1..k : Kept(s[i]) =>
                                \E j \in 1..Len(c) : c[j] = s[i]
           Odd(k) == k > 0 /\ s[k].kind = "instruction"
           Right(c, k) == /\ c \in Seq(Msg) /\ Alternates(c)
                          /\ Odd(k) => Len(c) % 2 = 1
                          /\ ~Odd(k) => Len(c) % 2 = 0
                          /\ Holds(c, k)
           Good == {k \in 0..n : Right(chat[k], k)}
<1>2. n \in Nat /\ \A k \in 1..n : s[k] \in Msg
  BY LenProperties, ElementOfSeq
<1> HIDE DEF n
<1>3. Right(chat[0], 0)
  <2>1. chat[0] = <<>> /\ Len(<<>>) = 0 /\ <<>> \in Seq(Msg)
    BY <1>1, EmptySeq DEF Chats
  <2>2. 0 % 2 = 0 /\ 1..0 = {}
    OBVIOUS
  <2> QED
    BY <2>1, <2>2 DEF Alternates
<1>4. ASSUME NEW k \in 1..n, Right(chat[k - 1], k - 1) PROVE Right(chat[k], k)
  <2>1. PICK old, new : old = chat[k - 1] /\ new = chat[k]
    OBVIOUS
  <2>2. /\ old \in Seq(Msg) /\ Alternates(old) /\ Holds(old, k - 1) /\ Len(old) \in Nat
        /\ Odd(k - 1) => Len(old) % 2 = 1
        /\ ~Odd(k - 1) => Len(old) % 2 = 0
    BY <1>4, <2>1, LenProperties
  <2>3. new = IF s[k].kind \in Spoken THEN Alternate(old, s[k]) ELSE old
    BY <1>1, <2>1 DEF Chats, n
  <2>4. Odd(k - 1) => s[k].kind = "response"
    <3> SUFFICES ASSUME k - 1 > 0, s[k - 1].kind = "instruction" PROVE s[k].kind = "response"
      OBVIOUS
    <3>1. k - 1 \in 1..Len(s) /\ (k - 1) + 1 = k
      BY <1>2 DEF n
    <3> QED
      BY <3>1 DEF AllAnswered
  <2>5. ASSUME s[k].kind = "response"
        PROVE  /\ \E j \in 1..Len(old) : TRUE
               /\ s[k].to = s[k].of => Odd(k - 1)
    <3>1. Answers(s, k)
      BY <2>5 DEF Whole, n, Replies
    <3>2. PICK j \in 1..k - 1 : Same(s[j], Asker(s[k]))
      BY <3>1 DEF Answers
    <3>3. s[j].kind = "instruction"
      BY <2>5, <3>2, AskerIs DEF Same
    <3>4. \E l \in 1..Len(old) : old[l] = s[j]
      BY <2>2, <3>3 DEF Kept
    <3>5. s[k].to = s[k].of => s[k - 1].kind = "instruction"
      BY <2>5, <3>1, AskerIs DEF Answers, Same
    <3> QED
      BY <1>2, <3>2, <3>4, <3>5
  <2>6. Odd(k) = (s[k].kind = "instruction")
    BY <1>2
  <2>7. CASE s[k].kind = IF Len(old) % 2 = 0 THEN "instruction" ELSE "response"
    <3>1. s[k].kind \in Spoken
      BY <2>7 DEF Spoken
    <3>2. /\ new \in Seq(Msg) /\ Alternates(new)
          /\ Len(new) = Len(old) + 1 /\ new[Len(old) + 1] = s[k]
          /\ \A i \in 1..Len(old) : new[i] = old[i]
      <4>1. PICK m \in Msg : m = s[k]
        BY <1>2
      <4>2. new = Alternate(old, m)
        BY <2>3, <3>1, <4>1
      <4>3. m.kind = IF Len(old) % 2 = 0 THEN "instruction" ELSE "response"
        BY <2>7, <4>1
      <4>4. Alternates(old) /\ old \in Seq(Msg)
        BY <2>2
      <4>5. /\ Alternate(old, m) = Append(old, m)
            /\ Append(old, m) \in Seq(Msg) /\ Alternates(Append(old, m))
            /\ Len(Append(old, m)) = Len(old) + 1
            /\ Append(old, m)[Len(old) + 1] = m
            /\ \A i \in 1..Len(old) : Append(old, m)[i] = old[i]
        BY <4>3, <4>4, AlternatesOn, Zenon
      <4> QED
        BY <4>1, <4>2, <4>5
    <3>3. Len(new) % 2 = 1 - (Len(old) % 2)
      BY <2>2, <3>2, Parity
    <3>4. (Odd(k) => Len(new) % 2 = 1) /\ (~Odd(k) => Len(new) % 2 = 0)
      BY <2>2, <2>6, <2>7, <3>3, Parity
    <3>5. Holds(new, k)
      <4> SUFFICES ASSUME NEW i \in 1..k, Kept(s[i])
                   PROVE  \E j \in 1..Len(new) : new[j] = s[i]
        OBVIOUS
      <4>1. CASE i = k
        <5>1. Len(old) + 1 \in 1..Len(new)
          BY <2>2, <3>2
        <5> QED
          BY <3>2, <4>1, <5>1
      <4>2. CASE i # k
        <5>1. i \in 1..k - 1
          BY <4>2
        <5>2. PICK j \in 1..Len(old) : old[j] = s[i]
          BY <2>2, <5>1
        <5>3. j \in 1..Len(new) /\ new[j] = s[i]
          BY <2>2, <3>2, <5>2
        <5> QED
          BY <5>3
      <4> QED
        BY <4>1, <4>2
    <3> QED
      BY <2>1, <3>2, <3>4, <3>5
  <2>8. CASE s[k].kind \notin Spoken
    <3>1. new = old /\ ~Odd(k) /\ ~Odd(k - 1)
      BY <2>3, <2>4, <2>8 DEF Spoken
    <3>2. Holds(new, k)
      <4>2. ~Kept(s[k])
        BY <2>8 DEF Kept, Spoken
      <4> SUFFICES ASSUME NEW i \in 1..k, Kept(s[i])
                   PROVE  \E j \in 1..Len(new) : new[j] = s[i]
        OBVIOUS
      <4>1. i \in 1..k - 1
        BY <4>2
      <4> QED
        BY <2>2, <3>1, <4>1
    <3> QED
      BY <2>1, <2>2, <3>1, <3>2
\* A response after a response is joined to it.
  <2>9. CASE s[k].kind = "response" /\ Len(old) % 2 = 0
    <3>1. Len(old) \in 1..Len(old) /\ old # <<>> /\ Last(old) = old[Len(old)]
      BY <2>2, <2>5, <2>9, EmptySeq DEF Last
    <3>2. Last(old).kind = "response"
      BY <2>2, <2>9, <3>1 DEF Alternates
    <3>3. new = old
      BY <2>3, <2>9, <3>1, <3>2 DEF Alternate, Spoken
    <3>4. ~Kept(s[k]) /\ ~Odd(k)
      BY <2>2, <2>5, <2>6, <2>9 DEF Kept
    <3>5. Holds(new, k)
      <4> SUFFICES ASSUME NEW i \in 1..k, Kept(s[i])
                   PROVE  \E j \in 1..Len(new) : new[j] = s[i]
        OBVIOUS
      <4>1. i \in 1..k - 1
        BY <3>4
      <4> QED
        BY <2>2, <3>3, <4>1
    <3> QED
      BY <2>1, <2>2, <2>9, <3>3, <3>4, <3>5
  <2>10. CASE s[k].kind = "instruction" /\ Len(old) % 2 = 1
    BY <2>2, <2>4, <2>10
  <2> QED
    BY <2>2, <2>7, <2>8, <2>9, <2>10, Parity DEF Spoken
<1>5. Right(chat[n], n)
  <2> HIDE DEF Right
  <2>1. 0 \in Good
    BY <1>2, <1>3
  <2>2. ASSUME NEW k \in 1..n, k - 1 \in Good PROVE k \in Good
    BY <1>2, <1>4, <2>2
  <2> HIDE DEF Good
  <2>3. 0..n \subseteq Good
    BY <1>2, <2>1, <2>2, UpTo
  <2>4. n \in Good
    BY <1>2, <2>3
  <2> QED
    BY <2>4 DEF Good
<1>6. ~Odd(n)
  <2> SUFFICES ASSUME n > 0, s[n].kind = "instruction" PROVE FALSE
    OBVIOUS
  <2>1. n \in 1..Len(s)
    BY <1>2 DEF n
  <2> QED
    BY <2>1 DEF AllAnswered, n
<1> QED
  BY <1>1, <1>5, <1>6 DEF n

\* What the prompt of a conversation in order is.
PromptOf(order, chat, prompt, e) ==
    /\ prompt \in Seq(Msg) /\ Alternates(prompt)
    /\ Len(prompt) = Len(chat) + 1 /\ Len(chat) \in Nat
    /\ prompt[Len(chat) + 1] = Instruction(<<e, 0>>, Waiting(order, Len(order) + 1))
    /\ \A i \in 1..Len(order) : Kept(order[i]) =>
            \E j \in 1..Len(chat) : prompt[j] = Merged(order)[i]

LEMMA PromptIs ==
    ASSUME NEW conv, NEW X, Fine(conv, X), NEW e \in Nat
    PROVE  PromptOf(conv.order, Chat(Merged(conv.order)), Prompt(conv.order, e), e)
<1> DEFINE order == conv.order
           merged == Merged(order)
           own == Instruction(<<e, 0>>, Waiting(order, Len(order) + 1))
           prompt == Prompt(order, e)
<1>1. /\ order \in Seq(Msg) /\ Len(order) \in Nat
      /\ \A i \in 1..Len(order) : order[i] \in Msg
  BY LenProperties, ElementOfSeq DEF Fine, Conv
<1>2. Fine(WithOrder(conv, merged), X) /\ WithOrder(conv, merged).order = merged
  <2>1. conv = [order |-> conv.order, system |-> conv.system]
    BY DEF Fine, Conv
  <2> HIDE DEF merged
  <2>2. WithOrder(conv, merged).order = merged
    BY <2>1 DEF WithOrder
  <2> QED
    BY <2>2, MergedFine DEF merged
<1>3. merged \in Seq(Msg) /\ Whole(merged) /\ AllAnswered(merged)
  <2> HIDE DEF merged
  <2> QED
    BY <1>2 DEF Fine, Conv
<1>4. Len(merged) = Len(order) /\ \A i \in 1..Len(order) : Kept(merged[i]) = Kept(order[i])
  <2>1. merged = [i \in 1..Len(order) |-> merged[i]]
    BY DEF Merged
  <2>2. \A i \in 1..Len(order) : Kept(merged[i]) = Kept(order[i])
    <3> SUFFICES ASSUME NEW i \in 1..Len(order) PROVE Kept(merged[i]) = Kept(order[i])
      OBVIOUS
    <3>1. merged[i] = IF order[i].kind = "instruction"
                      THEN [order[i] EXCEPT !.context = @ \cup Waiting(order, i)]
                      ELSE order[i]
      BY DEF Merged
    <3> HIDE DEF merged, order
    <3> QED
      BY <1>1, <3>1 DEF Msg, Kept
  <2> HIDE DEF merged
  <2>3. DOMAIN merged = 1..Len(merged) /\ Len(merged) \in Nat
    BY <1>3, LenProperties
  <2>4. DOMAIN merged = 1..Len(order)
    BY <2>1
  <2>5. Len(merged) = Len(order)
    BY <1>1, <2>3, <2>4
  <2> QED
    BY <2>2, <2>5
<1>5. Waiting(order, Len(order) + 1) \in SUBSET Ref
  <2> SUFFICES ASSUME NEW r \in Waiting(order, Len(order) + 1) PROVE r \in Ref
    OBVIOUS
  <2>1. PICK j \in 1..Len(order) + 1 - 1 : r = order[j].of
    BY DEF Waiting
  <2>2. order[j] \in Msg
    BY <1>1
  <2> QED
    BY <2>1, <2>2 DEF Msg
<1>6. own \in Msg /\ own.kind = "instruction"
  <2>1. <<e, 0>> \in Ref
    BY DEF Ref
  <2>2. own \in Msg
    BY <1>5, <2>1, MessageIsMsg
  <2>3. own.kind = "instruction"
    BY DEF Instruction, Message
  <2> QED
    BY <2>2, <2>3
<1> HIDE DEF merged, own
<1>7. PICK chat : chat = Chat(merged)
  OBVIOUS
<1>8. /\ chat \in Seq(Msg) /\ Alternates(chat) /\ Len(chat) % 2 = 0 /\ Len(chat) \in Nat
      /\ \A i \in 1..Len(order) : Kept(order[i]) =>
                    \E j \in 1..Len(chat) : chat[j] = merged[i]
  BY <1>3, <1>4, <1>7, ChatIs, LenProperties
<1>9. prompt = Append(chat, own)
  BY <1>7 DEF Prompt, merged, own
<1> HIDE DEF prompt
<1>10. /\ prompt \in Seq(Msg) /\ Alternates(prompt) /\ Len(prompt) = Len(chat) + 1
       /\ prompt[Len(chat) + 1] = own /\ \A i \in 1..Len(chat) : prompt[i] = chat[i]
  BY <1>6, <1>8, <1>9, AlternatesOn
<1> QED
  BY <1>7, <1>8, <1>10 DEF PromptOf, prompt, own, merged

\* The prompt is what the model expects, and holds every response.
LEMMA PromptIsFaithful ==
    ASSUME NEW conv, NEW X, Fine(conv, X)
    PROVE  LET order == conv.order
               prompt == Prompt(order, 0)
           IN  /\ \A i \in 1..Len(prompt) :
                    prompt[i].kind = IF i % 2 = 1 THEN "instruction" ELSE "response"
               /\ Last(prompt).of = <<0, 0>>
               /\ \A i \in 1..Len(order) :
                    order[i].kind = "response" /\ order[i].to = order[i].of =>
                        \E j \in 1..Len(prompt) : prompt[j] = order[i]
<1>1. PICK order, prompt, chat : order = conv.order /\ prompt = Prompt(order, 0)
                                 /\ chat = Chat(Merged(order))
  OBVIOUS
<1>2. /\ Alternates(prompt) /\ Len(prompt) = Len(chat) + 1 /\ Len(chat) \in Nat
      /\ prompt[Len(chat) + 1] = Instruction(<<0, 0>>, Waiting(order, Len(order) + 1))
      /\ \A i \in 1..Len(order) : Kept(order[i]) =>
            \E j \in 1..Len(chat) : prompt[j] = Merged(order)[i]
  <2>1. PromptOf(order, chat, prompt, 0)
    BY <1>1, PromptIs
  <2> QED
    BY <2>1 DEF PromptOf
<1>3. Last(prompt).of = <<0, 0>>
  BY <1>2 DEF Last, Instruction, Message
<1>4. ASSUME NEW i \in 1..Len(order), order[i].kind = "response", order[i].to = order[i].of
      PROVE  \E j \in 1..Len(prompt) : prompt[j] = order[i]
  <2>1. PICK j \in 1..Len(chat) : prompt[j] = Merged(order)[i]
    BY <1>2, <1>4 DEF Kept
  <2>2. Merged(order)[i] = order[i]
    BY <1>4 DEF Merged
  <2>3. j \in 1..Len(prompt)
    BY <1>2
  <2> QED
    BY <2>1, <2>2, <2>3
<1> QED
  BY <1>1, <1>2, <1>3, <1>4 DEF Alternates

\* The prompt shows every output: in the first instruction after it, or in its last.
LEMMA PromptShowsOutputs ==
    ASSUME NEW conv, NEW X, Fine(conv, X), NEW i \in 1..Len(conv.order),
           conv.order[i].kind = "output"
    PROVE  \E j \in 1..Len(Prompt(conv.order, 0)) :
                conv.order[i].of \in Prompt(conv.order, 0)[j].context
<1>1. PICK order, prompt, chat : order = conv.order /\ prompt = Prompt(order, 0)
                                 /\ chat = Chat(Merged(order))
  OBVIOUS
<1>2. /\ Len(prompt) = Len(chat) + 1 /\ Len(chat) \in Nat
      /\ prompt[Len(chat) + 1] = Instruction(<<0, 0>>, Waiting(order, Len(order) + 1))
      /\ \A k \in 1..Len(order) : Kept(order[k]) =>
            \E j \in 1..Len(chat) : prompt[j] = Merged(order)[k]
  <2>1. PromptOf(order, chat, prompt, 0)
    BY <1>1, PromptIs
  <2> QED
    BY <2>1 DEF PromptOf
<1>3. order \in Seq(Msg) /\ Len(order) \in Nat /\ \A k \in 1..Len(order) : order[k] \in Msg
  BY <1>1, LenProperties, ElementOfSeq DEF Fine, Conv
<1>4. i \in 1..Len(order) /\ order[i].kind = "output"
  BY <1>1
<1> DEFINE later == {k \in i..Len(order) : order[k].kind = "instruction"}
<1>5. CASE later = {}
  <2>1. order[i].of \in Waiting(order, Len(order) + 1)
    BY <1>3, <1>4, <1>5 DEF Waiting
  <2>2. order[i].of \in prompt[Len(chat) + 1].context
    BY <1>2, <2>1 DEF Instruction, Message
  <2>3. Len(chat) + 1 \in 1..Len(prompt)
    BY <1>2
  <2> QED
    BY <1>1, <2>2, <2>3
<1>6. CASE later # {}
  <2>1. PICK k \in later : \A l \in later : k <= l
    <3>1. later \in SUBSET Nat
      BY <1>3, <1>4
    <3> HIDE DEF later
    <3> QED
      BY <1>6, <3>1, LeastOf
  <2>2. k \in 1..Len(order) /\ order[k].kind = "instruction" /\ i \in 1..k - 1
    BY <1>3, <1>4, <2>1
  <2>3. order[i].of \in Waiting(order, k)
    <3>1. ASSUME NEW l \in i..k - 1 PROVE order[l].kind # "instruction"
      BY <1>3, <2>1, <2>2
    <3> QED
      BY <1>4, <2>2, <3>1 DEF Waiting
  <2>4. order[i].of \in Merged(order)[k].context
    <3>1. Merged(order)[k] = [order[k] EXCEPT !.context = @ \cup Waiting(order, k)]
      BY <2>2 DEF Merged
    <3>2. order[k] \in Msg
      BY <1>3, <2>2
    <3> QED
      BY <2>3, <3>1, <3>2 DEF Msg
  <2>5. PICK j \in 1..Len(chat) : prompt[j] = Merged(order)[k]
    BY <1>2, <2>2 DEF Kept
  <2>6. j \in 1..Len(prompt)
    BY <1>2
  <2> QED
    BY <1>1, <2>4, <2>5, <2>6
<1> QED
  BY <1>5, <1>6

-----------------------------------------------------------------------------
(* The invariant of the conversations *)

Task == [at : {"idle", "chat", "act"}, branch : Nat, exchange : Nat, asks : Ref,
         context : SUBSET Ref, calls : SUBSET Nat, concurrent : BOOLEAN]

\* The task is going to add the messages of r.
Awaits(t, r) ==
    r[1] = tasks[t].exchange /\ (tasks[t].at = "chat" \/ r[2] \in tasks[t].calls)

\* What a branch may hold: nothing that a task has yet to add.
Seen == {r \in Ref : r[1] <= exchanges /\ \A t \in Tasks : ~Awaits(t, r)}

TasksRight ==
    /\ tasks \in [Tasks -> Task]
    /\ \A t \in Tasks :
        /\ tasks[t].at # "act" => tasks[t].calls = {}
        /\ tasks[t].at # "idle" => /\ tasks[t].branch \in 1..MaxBranches
                                  /\ tasks[t].exchange \in 1..exchanges
        /\ 0 \notin tasks[t].calls
    /\ \A t, u \in Tasks :
        tasks[t].at # "idle" /\ tasks[u].at # "idle" /\ t # u
            => tasks[t].exchange # tasks[u].exchange

ConvsRight ==
    /\ convs = [b \in 1..MaxBranches |-> convs[b]]
    /\ \A b \in 1..MaxBranches : Fine(convs[b], Seen)

\* What a task was given again is no message that a task has yet to add.
AsksRight == \A t \in Tasks : tasks[t].asks \in Seen

BranchInv ==
    /\ made \in 0..MaxBranches
    /\ exchanges \in Nat
    /\ TasksRight
    /\ AsksRight
    /\ ConvsRight

\* The system message is never what a task adds.
LEMMA SystemIsSeen ==
    ASSUME BranchInv
    PROVE  SystemRefs \subseteq Seen
<1> SUFFICES ASSUME NEW k \in {0, 1} PROVE <<0, k>> \in Seen
  BY DEF SystemRefs
<1>1. <<0, k>> \in Ref /\ <<0, k>>[1] = 0 /\ <<0, k>>[2] = k
  BY DEF Ref
<1>2. ASSUME NEW t \in Tasks PROVE ~Awaits(t, <<0, k>>)
  BY <1>1 DEF Awaits, BranchInv, TasksRight
<1> QED
  BY <1>1, <1>2 DEF Seen, BranchInv

\* A conversation is replaced by one in order.
LEMMA ConvChanges ==
    ASSUME BranchInv, NEW b \in 1..MaxBranches, NEW conv,
           Seen \subseteq Seen', Fine(conv, Seen'), convs' = [convs EXCEPT ![b] = conv]
    PROVE  ConvsRight'
<1>1. \A c \in 1..MaxBranches : convs'[c] = IF c = b THEN conv ELSE convs[c]
  BY DEF BranchInv, ConvsRight
<1>2. \A c \in 1..MaxBranches : Fine(convs'[c], Seen')
  BY <1>1, FineMore DEF BranchInv, ConvsRight
<1>3. convs' = [c \in 1..MaxBranches |-> convs'[c]]
  BY DEF BranchInv, ConvsRight
<1> QED
  BY <1>2, <1>3 DEF ConvsRight

\* What tasks do does not matter to conversations that stay as they are.
LEMMA ConvsStay ==
    ASSUME BranchInv, Seen \subseteq Seen', UNCHANGED convs
    PROVE  ConvsRight'
<1>1. \A c \in 1..MaxBranches : Fine(convs[c], Seen')
  BY FineMore DEF BranchInv, ConvsRight
<1> QED
  BY <1>1 DEF BranchInv, ConvsRight

LEMMA IdleIsTask ==
    Idle \in Task /\ Idle.at = "idle" /\ Idle.calls = {} /\ Idle.asks = New
<1>1. <<0, 0>> \in Ref /\ {} \in SUBSET Ref
  BY DEF Ref
<1> HIDE DEF Ref
<1> QED
  BY <1>1 DEF Idle, Task, New

\* A new message is none that a task has yet to add.
LEMMA NewIsSeen ==
    ASSUME BranchInv
    PROVE  New \in Seen
BY SystemIsSeen DEF SystemRefs, New

\* A task that changes asks with what was seen.
LEMMA AsksChange ==
    ASSUME BranchInv, Seen \subseteq Seen', NEW t \in Tasks, NEW task, task.asks \in Seen,
           tasks' = [tasks EXCEPT ![t] = task]
    PROVE  AsksRight'
<1>1. \A u \in Tasks : tasks'[u] = IF u = t THEN task ELSE tasks[u]
  BY DEF BranchInv, TasksRight
<1> QED
  BY <1>1 DEF BranchInv, AsksRight

\* A task begins an exchange; or does not get further than that.
LEMMA TaskBegins ==
    ASSUME BranchInv, NEW t \in Tasks, NEW task \in Task,
           tasks' = [tasks EXCEPT ![t] = task], exchanges' = exchanges + 1,
           \/ task = Idle
           \/ task.branch \in 1..MaxBranches /\ task.exchange = exchanges + 1,
           task.at # "act" => task.calls = {}, 0 \notin task.calls, task.asks \in Seen
    PROVE  TasksRight' /\ AsksRight' /\ Seen \subseteq Seen'
<1>1. \A u \in Tasks : tasks'[u] = IF u = t THEN task ELSE tasks[u]
  BY DEF BranchInv, TasksRight
<1>2. exchanges \in Nat /\ exchanges' \in Nat
  BY DEF BranchInv
<1>3. TasksRight'
  <2>1. tasks' \in [Tasks -> Task]
    BY DEF BranchInv, TasksRight
  <2>2. ASSUME NEW u \in Tasks
        PROVE /\ tasks'[u].at # "act" => tasks'[u].calls = {}
              /\ tasks'[u].at # "idle" => /\ tasks'[u].branch \in 1..MaxBranches
                                         /\ tasks'[u].exchange \in 1..exchanges'
              /\ 0 \notin tasks'[u].calls
    BY <1>1, <1>2, IdleIsTask DEF BranchInv, TasksRight
  <2>3. ASSUME NEW u \in Tasks, NEW v \in Tasks, u # v,
               tasks'[u].at # "idle", tasks'[v].at # "idle"
        PROVE  tasks'[u].exchange # tasks'[v].exchange
    BY <1>1, <1>2, <2>3, IdleIsTask DEF BranchInv, TasksRight
  <2> QED
    BY <2>1, <2>2, <2>3 DEF TasksRight
<1>4. Seen \subseteq Seen'
  <2> SUFFICES ASSUME NEW r \in Seen, NEW u \in Tasks
               PROVE  r \in Ref /\ r[1] <= exchanges' /\ ~Awaits(u, r)'
    BY DEF Seen
  <2>1. r \in Ref /\ r[1] \in Nat /\ r[1] <= exchanges /\ ~Awaits(u, r)
    BY DEF Seen, Ref
  <2>2. r[1] # exchanges + 1 /\ r[1] <= exchanges'
    BY <1>2, <2>1
  <2> QED
    BY <1>1, <2>1, <2>2, IdleIsTask DEF Awaits
<1> QED
  BY <1>3, <1>4, AsksChange

LEMMA AskRight ==
    ASSUME BranchInv, NEW t \in Tasks, NEW b \in Branches, NEW clear \in BOOLEAN,
           NEW asks \in Seen, NEW context \in SUBSET Ref, Ask(t, b, clear, asks, context)
    PROVE  BranchInv'
<1> DEFINE e == exchanges + 1
           conv == IF clear THEN Cleared(convs[b]) ELSE convs[b]
           outputs == Waiting(conv.order, Len(conv.order) + 1)
           begun == [Idle EXCEPT !.at = "chat", !.branch = b, !.exchange = e, !.asks = asks]
           asking == [begun EXCEPT !.context = context \cup outputs]
           merged == WithOrder(conv, Merged(conv.order))
           opened == WithOrder(merged, Shown(merged.order, Asked(begun, 0), outputs))
<1>1. b \in 1..MaxBranches /\ e \in Nat /\ exchanges' = e /\ made' = made
  <2>1. exchanges' = e /\ made' = made /\ exchanges \in Nat
    BY DEF Ask, BranchInv
  <2> QED
    BY <2>1, BranchAssumption DEF BranchInv, Branches
<1>2. Fine(conv, Seen)
  BY <1>1, ClearedFine, SystemIsSeen DEF BranchInv, ConvsRight
<1>3. Fine(merged, Seen) /\ outputs \in SUBSET Ref
  <2>1. /\ Fine(merged, Seen)
        /\ outputs \in SUBSET {conv.order[j].of : j \in 1..(Len(conv.order) + 1) - 1}
    BY <1>2, MergedFine
  <2>2. Len(conv.order) \in Nat /\ \A j \in 1..Len(conv.order) : conv.order[j].of \in Ref
    BY <1>2, LenProperties DEF Fine, Conv, Seen
  <2>3. (Len(conv.order) + 1) - 1 = Len(conv.order)
    BY <2>2
  <2> HIDE DEF conv, outputs, merged
  <2> QED
    BY <2>1, <2>2, <2>3
<1>4. Fine(opened, Seen)
  <2> HIDE DEF merged, outputs, begun
  <2> QED
    BY <1>3, ShownFine
<1>5. /\ convs' = [convs EXCEPT ![b] = opened]
      /\ tasks' = [tasks EXCEPT ![t] = Idle] \/ tasks' = [tasks EXCEPT ![t] = asking]
  BY DEF Ask, Opened
<1>6. /\ asking \in Task /\ asking.at = "chat" /\ asking.calls = {}
      /\ asking.branch = b /\ asking.exchange = e /\ asking.asks = asks
  <2>1. context \cup outputs \in SUBSET Ref /\ b \in Nat /\ asks \in Ref
    BY <1>1, <1>3 DEF Seen
  <2>2. /\ begun \in Task /\ begun.at = "chat" /\ begun.calls = {}
        /\ begun.branch = b /\ begun.exchange = e /\ begun.asks = asks
    <3> HIDE DEF Ref
    <3> QED
      BY <1>1, <2>1, IdleIsTask DEF Task
  <2> HIDE DEF outputs, conv, Ref, begun
  <2> QED
    BY <2>1, <2>2 DEF Task
<1> HIDE DEF asking, opened
<1>7. TasksRight' /\ AsksRight' /\ Seen \subseteq Seen'
  <2>1. CASE tasks' = [tasks EXCEPT ![t] = Idle]
    BY <1>1, <2>1, IdleIsTask, NewIsSeen, TaskBegins
  <2>2. CASE tasks' = [tasks EXCEPT ![t] = asking]
    BY <1>1, <1>6, <2>2, TaskBegins
  <2> QED
    BY <1>5, <2>1, <2>2
<1>8. ConvsRight'
  BY <1>1, <1>4, <1>5, <1>7, ConvChanges, FineMore
<1> QED
  BY <1>1, <1>7, <1>8 DEF BranchInv

\* What a branch holds was seen.
LEMMA HeldIsSeen ==
    ASSUME BranchInv, NEW b \in Branches, NEW kind, NEW m \in Held(b, kind)
    PROVE  m.of \in Seen /\ m.context \in SUBSET Ref
<1>1. b \in 1..MaxBranches
  BY BranchAssumption DEF BranchInv, Branches
<1>2. PICK order : order = convs[b].order
  OBVIOUS
<1>3. /\ order \in Seq(Msg) /\ DOMAIN order = 1..Len(order)
      /\ \A i \in 1..Len(order) : order[i] \in Msg /\ order[i].of \in Seen
  BY <1>1, <1>2, LenProperties, ElementOfSeq DEF BranchInv, ConvsRight, Fine, Conv
<1>4. PICK i \in DOMAIN order : m = order[i]
  BY <1>2 DEF Held, ToSet
<1> QED
  BY <1>3, <1>4 DEF Msg

LEMMA ActRight ==
    ASSUME BranchInv, NEW t \in Tasks, NEW b \in Branches, NEW asks \in Seen,
           NEW count \in Nat, NEW concurrent \in BOOLEAN, Act(t, b, asks, count, concurrent)
    PROVE  BranchInv'
<1> DEFINE e == exchanges + 1
           acting == [Idle EXCEPT !.at = "act", !.branch = b, !.exchange = e,
                                  !.asks = asks, !.calls = 1..count,
                                  !.concurrent = concurrent]
<1>1. /\ exchanges' = e /\ UNCHANGED <<made, convs>>
      /\ tasks' = [tasks EXCEPT ![t] = acting]
  BY DEF Act
<1>2. b \in 1..MaxBranches /\ e \in Nat /\ asks \in Ref
  BY BranchAssumption DEF BranchInv, Branches, Seen
<1>3. /\ acting \in Task /\ acting.at = "act" /\ acting.calls = 1..count
      /\ acting.branch = b /\ acting.exchange = e /\ acting.asks = asks
  <2>1. 1..count \in SUBSET Nat /\ b \in Nat
    BY <1>2
  <2> HIDE DEF Ref
  <2> QED
    BY <1>2, <2>1, IdleIsTask DEF Task
<1> HIDE DEF acting
<1>6. (acting.at # "act" => acting.calls = {}) /\ 0 \notin acting.calls
  BY <1>3
<1>4. TasksRight' /\ AsksRight' /\ Seen \subseteq Seen'
  BY <1>1, <1>2, <1>3, <1>6, TaskBegins
<1>5. ConvsRight'
  BY <1>1, <1>4, ConvsStay
<1> QED
  BY <1>1, <1>4, <1>5 DEF BranchInv

\* The task goes on or ends.
LEMMA TaskGoesOn ==
    ASSUME BranchInv, NEW t \in Tasks, NEW task \in Task,
           tasks' = [tasks EXCEPT ![t] = task], exchanges' = exchanges,
           tasks[t].at # "idle",
           \/ task = Idle
           \/ /\ task.at = "act" /\ task.branch = tasks[t].branch
              /\ task.exchange = tasks[t].exchange
              /\ 0 \notin task.calls
              /\ tasks[t].at = "chat" \/ task.calls \subseteq tasks[t].calls
              /\ task.asks \in Seen
    PROVE  TasksRight' /\ AsksRight' /\ Seen \subseteq Seen'
<1>1. \A u \in Tasks : tasks'[u] = IF u = t THEN task ELSE tasks[u]
  BY DEF BranchInv, TasksRight
<1>2. TasksRight'
  <2>1. tasks' \in [Tasks -> Task]
    BY DEF BranchInv, TasksRight
  <2>2. ASSUME NEW u \in Tasks
        PROVE /\ tasks'[u].at # "act" => tasks'[u].calls = {}
              /\ tasks'[u].at # "idle" => /\ tasks'[u].branch \in 1..MaxBranches
                                         /\ tasks'[u].exchange \in 1..exchanges'
              /\ 0 \notin tasks'[u].calls
    BY <1>1, IdleIsTask DEF BranchInv, TasksRight
  <2>3. ASSUME NEW u \in Tasks, NEW v \in Tasks, u # v,
               tasks'[u].at # "idle", tasks'[v].at # "idle"
        PROVE  tasks'[u].exchange # tasks'[v].exchange
    BY <1>1, <2>3, IdleIsTask DEF BranchInv, TasksRight
  <2> QED
    BY <2>1, <2>2, <2>3 DEF TasksRight
<1>3. Seen \subseteq Seen'
  <2> SUFFICES ASSUME NEW r \in Seen, NEW u \in Tasks
               PROVE  r \in Ref /\ r[1] <= exchanges' /\ ~Awaits(u, r)'
    BY DEF Seen
  <2>1. r \in Ref /\ r[1] <= exchanges /\ ~Awaits(u, r) /\ ~Awaits(t, r)
    BY DEF Seen
  <2> QED
    BY <1>1, <2>1, IdleIsTask DEF Awaits
<1>4. task.asks \in Seen
  BY IdleIsTask, NewIsSeen
<1> QED
  BY <1>2, <1>3, <1>4, AsksChange

\* No other task awaits what this one adds.
LEMMA NowSeen ==
    ASSUME BranchInv, NEW t \in Tasks, NEW k \in Nat, NEW e, e = tasks[t].exchange,
           exchanges' = exchanges, tasks[t].at # "idle",
           \A u \in Tasks \ {t} : tasks'[u] = tasks[u],
           tasks'[t].at # "chat", k \notin tasks'[t].calls
    PROVE  <<e, k>> \in Seen'
<1> DEFINE r == <<e, k>>
<1>1. e \in 1..exchanges /\ exchanges \in Nat
  BY DEF BranchInv, TasksRight
<1>2. r \in Ref /\ r[1] = e /\ r[2] = k
  BY <1>1 DEF Ref
<1> HIDE DEF r
<1>3. ASSUME NEW u \in Tasks PROVE ~Awaits(u, r)'
  <2>1. CASE u = t
    BY <1>2, <2>1 DEF Awaits
  <2>2. CASE u # t
    BY <1>2, <2>2 DEF Awaits, BranchInv, TasksRight
  <2> QED
    BY <2>1, <2>2
<1>4. r \in Seen'
  BY <1>1, <1>2, <1>3 DEF Seen
<1> QED
  BY <1>4 DEF r

\* What a task asks with: messages of its exchange, or one that was seen.
LEMMA AskedIs ==
    ASSUME BranchInv, NEW t \in Tasks, NEW k \in Nat
    PROVE  /\ Asked(tasks[t], k) \in Seen \cup {<<tasks[t].exchange, k>>}
           /\ Asked(tasks[t], k) \in Ref /\ <<tasks[t].exchange, k>> \in Ref
<1>1. tasks[t].asks \in Seen /\ tasks[t].exchange \in Nat
  BY DEF BranchInv, AsksRight, TasksRight, Task
<1> QED
  BY <1>1 DEF Asked, Seen, Ref

LEMMA AnsweredRight ==
    ASSUME BranchInv, NEW t \in Tasks, NEW count \in 0..MaxCalls, NEW concurrent \in BOOLEAN,
           Answered(t, count, concurrent)
    PROVE  BranchInv'
<1> DEFINE e == tasks[t].exchange
           b == tasks[t].branch
           conv == convs[b]
           of == Asked(tasks[t], 0)
           m == Instruction(of, tasks[t].context)
           n == Response(<<e, 0>>, of)
           next == IF count = 0 THEN Idle
                   ELSE [tasks[t] EXCEPT !.at = "act", !.asks = New, !.context = {},
                                         !.calls = 1..count, !.concurrent = concurrent]
<1>1. /\ tasks[t].at = "chat" /\ made' = made /\ exchanges' = exchanges
      /\ convs' = [convs EXCEPT ![b] = Added(Added(@, m), n)]
      /\ tasks' = [tasks EXCEPT ![t] = next]
  BY DEF Answered
<1>2. /\ b \in 1..MaxBranches /\ e \in 1..exchanges /\ exchanges \in Nat
      /\ tasks[t] \in Task /\ Fine(conv, Seen)
  BY <1>1 DEF BranchInv, TasksRight, ConvsRight
<1>3. /\ next \in Task
      /\ \/ next = Idle
         \/ /\ next.at = "act" /\ next.branch = b /\ next.asks = New
            /\ next.exchange = e /\ next.calls = 1..count
  <2>1. 1..count \in SUBSET Nat /\ {} \in SUBSET Ref /\ New \in Ref
    BY BranchAssumption DEF New, Ref
  <2> HIDE DEF Ref
  <2> QED
    BY <1>2, <2>1, IdleIsTask DEF Task
<1> HIDE DEF next
<1>4. TasksRight' /\ AsksRight' /\ Seen \subseteq Seen'
  <2>1. 0 \notin 1..count
    BY BranchAssumption
  <2> QED
    BY <1>1, <1>3, <2>1, NewIsSeen, TaskGoesOn
<1>5. <<e, 0>> \notin Seen
  <2>1. <<e, 0>>[1] = e
    OBVIOUS
  <2> QED
    BY <1>1, <2>1 DEF Seen, Awaits
<1>6. <<e, 0>> \in Seen'
  <2>1. /\ \A u \in Tasks \ {t} : tasks'[u] = tasks[u]
        /\ tasks'[t] = next
    BY <1>1 DEF BranchInv, TasksRight
  <2>2. next.at # "chat" /\ 0 \notin next.calls
    BY <1>3, BranchAssumption, IdleIsTask
  <2> HIDE DEF e
  <2>3. e = tasks[t].exchange
    BY DEF e
  <2> QED
    BY <1>1, <2>1, <2>2, <2>3, NowSeen
<1>7. /\ m \in Msg /\ n \in Msg /\ m.of = of /\ n.of = <<e, 0>> /\ n.to = of
      /\ m.kind = "instruction" /\ n.kind = "response"
  <2>1. tasks[t].context \in SUBSET Ref /\ of \in Ref /\ <<e, 0>> \in Ref
    BY <1>2, AskedIs DEF Task
  <2>2. m \in Msg /\ n \in Msg
    BY <2>1, MessageIsMsg
  <2> HIDE DEF of
  <2> QED
    BY <2>2 DEF Instruction, Response, Message
<1>8. of \in Seen'
  BY <1>4, <1>6, AskedIs
<1> HIDE DEF m, n, e, conv, b, of
<1>9. Fine(Added(Added(conv, m), n), Seen \cup {m.of, n.of})
  BY <1>2, <1>5, <1>7, AddedTogether
<1>10. Fine(Added(Added(conv, m), n), Seen')
  BY <1>4, <1>6, <1>7, <1>8, <1>9, FineMore
<1>11. convs' = [convs EXCEPT ![b] = Added(Added(conv, m), n)]
  BY <1>1 DEF conv
<1>12. ConvsRight'
  BY <1>2, <1>4, <1>10, <1>11, ConvChanges
<1> QED
  BY <1>1, <1>4, <1>12 DEF BranchInv

LEMMA ToolEndsRight ==
    ASSUME BranchInv, NEW t \in Tasks, NEW k \in tasks[t].calls,
           NEW how \in {"output", "nothing", "unknown"}, ToolEnds(t, k, how)
    PROVE  BranchInv'
<1> DEFINE e == tasks[t].exchange
           b == tasks[t].branch
           conv == convs[b]
           of == Asked(tasks[t], k)
           m == Request(of)
           n == Output(<<e, k>>, of)
           left == tasks[t].calls \ {k}
           next == IF left = {} THEN Idle ELSE [tasks[t] EXCEPT !.calls = left]
<1>1. /\ made' = made /\ exchanges' = exchanges
      /\ convs' = [convs EXCEPT ![b] = CallAdded(@, m, n, how)]
      /\ tasks' = [tasks EXCEPT ![t] = next]
  BY DEF ToolEnds
<1>2. /\ tasks[t].at = "act" /\ b \in 1..MaxBranches /\ e \in 1..exchanges /\ exchanges \in Nat
      /\ tasks[t] \in Task /\ Fine(conv, Seen) /\ k \in Nat /\ 0 \notin tasks[t].calls
  <2>1. tasks[t].at = "act" /\ tasks[t] \in Task /\ 0 \notin tasks[t].calls
    BY DEF BranchInv, TasksRight
  <2>2. k \in Nat
    BY <2>1 DEF Task
  <2> QED
    BY <2>1, <2>2 DEF BranchInv, TasksRight, ConvsRight
<1>3. /\ next \in Task
      /\ \/ next = Idle
         \/ /\ next.at = "act" /\ next.branch = b /\ next.asks = tasks[t].asks
            /\ next.exchange = e /\ next.calls = left
  <2>1. left \in SUBSET Nat
    BY <1>2 DEF Task
  <2> HIDE DEF left
  <2> QED
    BY <1>2, <2>1, IdleIsTask DEF Task
<1> HIDE DEF next
<1>4. TasksRight' /\ AsksRight' /\ Seen \subseteq Seen'
  <2>1. tasks[t].asks \in Seen
    BY DEF BranchInv, AsksRight
  <2> QED
    BY <1>1, <1>2, <1>3, <2>1, TaskGoesOn
<1>5. <<e, k>> \notin Seen
  <2>1. <<e, k>>[1] = e /\ <<e, k>>[2] = k
    OBVIOUS
  <2> QED
    BY <2>1 DEF Seen, Awaits
<1>6. <<e, k>> \in Seen'
  <2>1. /\ \A u \in Tasks \ {t} : tasks'[u] = tasks[u]
        /\ tasks'[t] = next
    BY <1>1 DEF BranchInv, TasksRight
  <2>2. next.at # "chat" /\ k \notin next.calls
    BY <1>3, IdleIsTask
  <2> HIDE DEF e
  <2>3. e = tasks[t].exchange
    BY DEF e
  <2> QED
    BY <1>1, <1>2, <2>1, <2>2, <2>3, NowSeen
<1>7. /\ m \in Msg /\ n \in Msg /\ m.of = of /\ n.of = <<e, k>> /\ n.to = of
      /\ m.kind = "request" /\ n.kind = "output"
  <2>1. of \in Ref /\ <<e, k>> \in Ref /\ "request" \in Kinds
    BY <1>2, AskedIs DEF Kinds
  <2> HIDE DEF of
  <2>2. m \in Msg /\ n \in Msg
    BY <2>1, MessageIsMsg DEF Request
  <2> QED
    BY <2>2 DEF Request, Output, Message
<1>8. of \in Seen'
  BY <1>2, <1>4, <1>6, AskedIs
<1>9. CallAdded(conv, m, n, how) =
        CASE how = "output" -> Added(Added(conv, m), n)
          [] how = "nothing" -> Added(conv, m)
          [] how = "unknown" -> conv
  BY DEF CallAdded
<1>10. convs' = [convs EXCEPT ![b] = CallAdded(conv, m, n, how)]
  BY <1>1
<1> HIDE DEF m, n, e, conv, b, of
<1>11. Fine(CallAdded(conv, m, n, how), Seen')
  <2>1. CASE how = "output"
    <3>1. Fine(Added(Added(conv, m), n), Seen \cup {m.of, n.of})
      BY <1>2, <1>5, <1>7, AddedTogether
    <3> QED
      BY <1>4, <1>6, <1>7, <1>8, <1>9, <2>1, <3>1, FineMore
  <2>2. CASE how = "nothing"
    <3>1. Fine(Added(conv, m), Seen \cup {m.of})
      BY <1>2, <1>7, AddedAlone
    <3> QED
      BY <1>4, <1>7, <1>8, <1>9, <2>2, <3>1, FineMore
  <2>3. CASE how = "unknown"
    BY <1>2, <1>4, <1>9, <2>3, FineMore
  <2> QED
    BY <2>1, <2>2, <2>3
<1>12. ConvsRight'
  BY <1>2, <1>4, <1>10, <1>11, ConvChanges
<1> QED
  BY <1>1, <1>4, <1>12 DEF BranchInv

\* Every step of a task or of a branch's owner keeps the conversations right.
LEMMA BranchStep ==
    ASSUME BranchInv, BranchNext
    PROVE  BranchInv'
<1>1. ASSUME NEW t \in Tasks, NEW b \in Branches, NEW clear \in BOOLEAN,
             AskNew(t, b, clear) \/ AskAgain(t, b, clear)
      PROVE  BranchInv'
  <2>1. CASE AskNew(t, b, clear)
    <3>1. Ask(t, b, clear, New, {}) /\ New \in Seen /\ {} \in SUBSET Ref
      BY <2>1, NewIsSeen DEF AskNew
    <3> QED
      BY <3>1, AskRight
  <2>2. CASE AskAgain(t, b, clear)
    <3>1. PICK m \in Held(b, "instruction") : Ask(t, b, clear, m.of, m.context)
      BY <2>2 DEF AskAgain
    <3>2. m.of \in Seen /\ m.context \in SUBSET Ref
      BY HeldIsSeen
    <3> QED
      BY <3>1, <3>2, AskRight
  <2> QED
    BY <1>1, <2>1, <2>2
<1>6. ASSUME NEW t \in Tasks, NEW b \in Branches,
             \/ \E count \in 1..MaxCalls, concurrent \in BOOLEAN :
                    ActNew(t, b, count, concurrent)
             \/ ActAgain(t, b)
      PROVE  BranchInv'
  <2>1. PICK asks \in Seen, count \in Nat, concurrent \in BOOLEAN :
            Act(t, b, asks, count, concurrent)
    <3>1. CASE \E count \in 1..MaxCalls, concurrent \in BOOLEAN :
                    ActNew(t, b, count, concurrent)
      BY <3>1, NewIsSeen, BranchAssumption DEF ActNew
    <3>2. CASE ActAgain(t, b)
      BY <3>2, HeldIsSeen DEF ActAgain
    <3> QED
      BY <1>6, <3>1, <3>2
  <2> QED
    BY <2>1, ActRight
<1>2. CASE \E t \in Tasks, count \in 0..MaxCalls, concurrent \in BOOLEAN :
                Answered(t, count, concurrent)
  BY <1>2, AnsweredRight
<1>3. CASE \E t \in Tasks : \E k \in tasks[t].calls, how \in {"output", "nothing", "unknown"} :
                ToolEnds(t, k, how)
  BY <1>3, ToolEndsRight
<1>4. ASSUME NEW t \in Tasks, Interrupted(t) PROVE BranchInv'
  <2>1. /\ tasks[t].at # "idle" /\ tasks' = [tasks EXCEPT ![t] = Idle]
        /\ UNCHANGED <<made, convs, exchanges>>
    BY <1>4 DEF Interrupted
  <2>2. TasksRight' /\ AsksRight' /\ Seen \subseteq Seen'
    BY <2>1, IdleIsTask, TaskGoesOn
  <2> QED
    BY <2>1, <2>2, ConvsStay DEF BranchInv
<1>5. ASSUME NEW b \in Branches, SetSystem(b) \/ ClearMessages(b) PROVE BranchInv'
  <2>1. b \in 1..MaxBranches
    BY BranchAssumption DEF BranchInv, Branches
  <2>2. Fine(WithSystem(convs[b]), Seen) /\ Fine(Cleared(convs[b]), Seen)
    BY <2>1, SystemIsSeen, WithSystemFine, ClearedFine DEF BranchInv, ConvsRight, SystemRefs
  <2>3. PICK conv : Fine(conv, Seen) /\ convs' = [convs EXCEPT ![b] = conv]
                    /\ UNCHANGED <<made, exchanges, tasks>>
    BY <1>5, <2>2 DEF SetSystem, ClearMessages, Change
  <2>4. Seen' = Seen
    BY <2>3 DEF Seen, Awaits
  <2>5. ConvsRight'
    BY <2>1, <2>3, <2>4, ConvChanges
  <2> QED
    BY <2>3, <2>4, <2>5 DEF BranchInv, TasksRight, AsksRight
<1> QED
  BY <1>1, <1>2, <1>3, <1>4, <1>5, <1>6 DEF BranchNext

-----------------------------------------------------------------------------
(* The branches of the session *)

DefaultInv ==
    /\ branches \in Seq(1..MaxBranches)
    /\ DefaultIsMember

Inv == BranchInv /\ DefaultInv

LEMMA InitRight == Init => Inv
<1> SUFFICES ASSUME Init PROVE Inv
  OBVIOUS
<1>1. /\ made = 1 /\ exchanges = 0 /\ tasks = [t \in Tasks |-> Idle]
      /\ convs = [b \in 1..MaxBranches |-> NoMessages]
      /\ branches = <<1>> /\ default = 1
  BY DEF Init, BranchInit
<1>2. TasksRight
  <2>1. tasks \in [Tasks -> Task]
    BY <1>1, IdleIsTask
  <2>2. \A t \in Tasks : tasks[t] = Idle
    BY <1>1
  <2> QED
    BY <2>1, <2>2, IdleIsTask DEF TasksRight
<1>5. AsksRight
  <2>1. \A t \in Tasks : tasks[t].asks = New /\ ~Awaits(t, New)
    BY <1>1, IdleIsTask DEF Awaits
  <2>2. New \in Ref /\ New[1] = 0
    BY DEF New, Ref
  <2> QED
    BY <1>1, <2>1, <2>2 DEF AsksRight, Seen
<1>3. ConvsRight
  BY <1>1, NoMessagesFine DEF ConvsRight
<1>4. branches \in Seq(1..MaxBranches) /\ default \in Members /\ branches # <<>>
  BY <1>1, BranchAssumption DEF Members, ToSet
<1> QED
  BY <1>1, <1>2, <1>3, <1>4, <1>5, BranchAssumption DEF Inv, BranchInv, DefaultInv, DefaultIsMember

\* A new branch with a conversation in order.
LEMMA MakeRight ==
    ASSUME BranchInv, NEW conv, Fine(conv, Seen), Make(conv)
    PROVE  BranchInv' /\ made + 1 \in 1..MaxBranches
<1>1. made + 1 \in 1..MaxBranches /\ made' = made + 1
  BY BranchAssumption DEF BranchInv, Make
<1>2. convs' = [convs EXCEPT ![made + 1] = conv] /\ UNCHANGED <<exchanges, tasks>>
  BY DEF Make
<1>3. Seen' = Seen
  BY <1>2 DEF Seen, Awaits
<1>4. ConvsRight'
  BY <1>1, <1>2, <1>3, ConvChanges
<1> QED
  BY <1>1, <1>2, <1>3, <1>4 DEF BranchInv, TasksRight, AsksRight

LEMMA IncludedRight ==
    ASSUME DefaultInv, NEW b \in 1..MaxBranches, NEW chosen, Included(b, chosen),
           chosen = default \/ chosen = b
    PROVE  DefaultInv'
<1>1. PICK new : /\ branches' = new
                 /\ new = IF b \in Members THEN branches ELSE Append(branches, b)
  BY DEF Included
<1>2. new \in Seq(1..MaxBranches) /\ Members \cup {b} \subseteq ToSet(new) /\ new # <<>>
  <2>1. CASE b \in Members
    BY <1>1, <2>1 DEF Members, ToSet, DefaultInv
  <2>2. CASE b \notin Members
    <3>1. new = Append(branches, b)
      BY <1>1, <2>2
    <3>2. /\ new \in Seq(1..MaxBranches) /\ Len(new) = Len(branches) + 1
          /\ new[Len(branches) + 1] = b
          /\ \A i \in 1..Len(branches) : new[i] = branches[i]
          /\ DOMAIN new = 1..Len(branches) + 1 /\ DOMAIN branches = 1..Len(branches)
          /\ Len(branches) \in Nat
      BY <3>1, AppendProperties, LenProperties DEF DefaultInv
    <3> QED
      BY <3>2 DEF Members, ToSet
  <2> QED
    BY <2>1, <2>2
<1>3. default' = IF default = NoBranch THEN b ELSE chosen
  BY DEF Included
<1>4. default' \in Members \cup {b}
  BY <1>3 DEF DefaultInv, DefaultIsMember, Members, ToSet
<1> QED
  BY <1>1, <1>2, <1>4 DEF DefaultInv, DefaultIsMember, Members

LEMMA RemoveRight ==
    ASSUME DefaultInv, NEW b, RemoveBranch(b)
    PROVE  DefaultInv'
<1>1. PICK i \in 1..Len(branches) :
        /\ branches[i] = b
        /\ branches' = RemoveAt(branches, i)
        /\ default' = NewDefault(b, RemoveAt(branches, i))
  BY DEF RemoveBranch
<1> DEFINE left == RemoveAt(branches, i)
           before == SubSeq(branches, 1, i - 1)
           after == SubSeq(branches, i + 1, Len(branches))
<1>2. left = before \o after
  BY DEF RemoveAt
<1>3. branches \in Seq(1..MaxBranches) /\ Len(branches) \in Nat
      /\ DOMAIN branches = 1..Len(branches)
      /\ \A j \in 1..Len(branches) : branches[j] \in 1..MaxBranches
  BY LenProperties, ElementOfSeq DEF DefaultInv
<1>4. /\ before \in Seq(1..MaxBranches) /\ Len(before) = i - 1
      /\ \A j \in 1..i - 1 : before[j] = branches[j]
  <2>1. /\ 1 \in Int /\ i - 1 \in Int
        /\ \A j \in 1..i - 1 : branches[j] \in 1..MaxBranches /\ 1 + j - 1 = j
        /\ (i - 1) - 1 + 1 = i - 1
        /\ (IF 1 <= i - 1 THEN (i - 1) - 1 + 1 ELSE 0) = i - 1
    BY <1>3
  <2> QED
    BY <2>1, SubSeqProperties
<1>5. /\ after \in Seq(1..MaxBranches) /\ Len(after) = Len(branches) - i
      /\ \A j \in 1..Len(branches) - i : after[j] = branches[i + j]
  <2> DEFINE n == Len(branches)
  <2>3. n \in Nat /\ i \in 1..n /\ \A j \in 1..n : branches[j] \in 1..MaxBranches
    BY <1>3
  <2> HIDE DEF n
  <2>4. \A j \in i + 1..n : branches[j] \in 1..MaxBranches
    BY <2>3
  <2>1. /\ i + 1 \in Int /\ n \in Int
        /\ \A j \in 1..n - i : i + 1 + j - 1 = i + j
        /\ n - (i + 1) + 1 = n - i
        /\ (IF i + 1 <= n THEN n - (i + 1) + 1 ELSE 0) = n - i
    BY <2>3
  <2>2. /\ SubSeq(branches, i + 1, n) \in Seq(1..MaxBranches)
        /\ Len(SubSeq(branches, i + 1, n)) = n - i
        /\ \A j \in 1..n - i : SubSeq(branches, i + 1, n)[j] = branches[i + j]
    BY <2>1, <2>4, SubSeqProperties
  <2> QED
    BY <2>2 DEF n
<1> HIDE DEF left, before, after
<1>6. /\ left \in Seq(1..MaxBranches) /\ Len(left) = Len(branches) - 1
      /\ \A j \in 1..i - 1 : left[j] = before[j]
      /\ \A j \in i..Len(branches) - 1 : left[j] = after[j - (i - 1)]
      /\ DOMAIN left = 1..Len(branches) - 1
  <2>1. /\ left \in Seq(1..MaxBranches) /\ Len(left) = Len(before) + Len(after)
        /\ \A j \in 1..Len(before) + Len(after) :
                left[j] = IF j <= Len(before) THEN before[j] ELSE after[j - Len(before)]
    BY <1>2, <1>4, <1>5, ConcatProperties
  <2>2. Len(before) + Len(after) = Len(branches) - 1
    BY <1>3, <1>4, <1>5
  <2>3. DOMAIN left = 1..Len(branches) - 1
    BY <2>1, <2>2, LenProperties
  <2>4. ASSUME NEW j \in 1..i - 1 PROVE left[j] = before[j]
    <3>1. j \in 1..Len(before) + Len(after) /\ j <= Len(before)
      BY <1>3, <1>4, <2>2
    <3> QED
      BY <2>1, <3>1
  <2>5. \A j \in i..Len(branches) - 1 : left[j] = after[j - (i - 1)]
    BY <1>3, <1>4, <2>1, <2>2
  <2> QED
    BY <2>1, <2>2, <2>3, <2>4, <2>5
<1>7. ASSUME NEW k \in 1..Len(branches), k # i PROVE branches[k] \in ToSet(left)
  <2>1. CASE k < i
    <3>1. k \in 1..i - 1 /\ k \in DOMAIN left
      BY <1>3, <1>6, <2>1
    <3> QED
      BY <3>1, <1>4, <1>6 DEF ToSet
  <2>2. CASE k > i
    <3>1. k - 1 \in i..Len(branches) - 1 /\ k - i \in 1..Len(branches) - i
          /\ (k - 1) - (i - 1) = k - i /\ i + (k - i) = k /\ k - 1 \in DOMAIN left
      BY <1>3, <1>6, <2>2
    <3>2. left[k - 1] = after[k - i] /\ after[k - i] = branches[k]
      BY <3>1, <1>5, <1>6
    <3> QED
      BY <3>1, <3>2 DEF ToSet
  <2> QED
    BY <1>7, <2>1, <2>2
<1>8. branches' = left /\ default' = NewDefault(b, left)
  BY <1>1 DEF left
<1>9. branches # <<>> /\ default \in Members
  BY <1>1, <1>3 DEF DefaultInv, DefaultIsMember
<1>10. CASE default # b
  <2>1. PICK k \in 1..Len(branches) : branches[k] = default
    BY <1>3, <1>9 DEF Members, ToSet
  <2>2. default \in ToSet(left)
    BY <1>1, <1>7, <1>10, <2>1
  <2>3. left # <<>>
    BY <2>2 DEF ToSet
  <2> QED
    BY <1>6, <1>8, <1>10, <2>2, <2>3 DEF NewDefault, DefaultInv, DefaultIsMember, Members
<1>11. CASE default = b /\ left = <<>>
  BY <1>6, <1>8, <1>11 DEF NewDefault, DefaultInv, DefaultIsMember
<1>12. CASE default = b /\ left # <<>>
  <2>1. 1 \in DOMAIN left
    BY <1>3, <1>6, <1>12, EmptySeq
  <2>2. left[1] \in ToSet(left)
    BY <2>1 DEF ToSet
  <2> QED
    BY <1>6, <1>8, <1>12, <2>2 DEF NewDefault, DefaultInv, DefaultIsMember, Members
<1> QED
  BY <1>10, <1>11, <1>12

-----------------------------------------------------------------------------
(* The steps of the session *)

\* Every step keeps the conversations right and the default branch a member.
LEMMA NextRight == Inv /\ [Next]_vars => Inv'
<1> SUFFICES ASSUME Inv, [Next]_vars PROVE Inv'
  OBVIOUS
<1>1. BranchInv /\ DefaultInv
  BY DEF Inv
<1>2. ASSUME UNCHANGED branchVars PROVE BranchInv'
  <2>1. UNCHANGED <<made, convs, exchanges, tasks>>
    BY <1>2 DEF branchVars
  <2>2. Seen' = Seen
    BY <2>1 DEF Seen, Awaits
  <2> QED
    BY <1>1, <2>1, <2>2 DEF BranchInv, TasksRight, AsksRight, ConvsRight
<1>3. ASSUME UNCHANGED <<branches, default>> PROVE DefaultInv'
  BY <1>1, <1>3 DEF DefaultInv, DefaultIsMember, Members
<1>4. Branches \subseteq 1..MaxBranches
  BY <1>1, BranchAssumption DEF BranchInv, Branches
<1>5. Members \subseteq 1..MaxBranches
  <2>1. branches \in Seq(1..MaxBranches) /\ DOMAIN branches = 1..Len(branches)
    BY <1>1, LenProperties DEF DefaultInv
  <2>2. \A i \in 1..Len(branches) : branches[i] \in 1..MaxBranches
    BY <2>1, ElementOfSeq
  <2> QED
    BY <2>1, <2>2 DEF Members, ToSet
<1>6. ASSUME NEW system \in BOOLEAN, NEW asDefault \in BOOLEAN, NewBranch(system, asDefault)
      PROVE  Inv'
  <2> DEFINE conv == IF system THEN WithSystem(NoMessages) ELSE NoMessages
             chosen == IF asDefault THEN made + 1 ELSE default
  <2>1. Make(conv) /\ Included(made + 1, chosen)
    BY <1>6 DEF NewBranch
  <2>2. Fine(conv, Seen)
    BY <1>1, NoMessagesFine, WithSystemFine, SystemIsSeen DEF SystemRefs
  <2> HIDE DEF conv
  <2>3. BranchInv' /\ made + 1 \in 1..MaxBranches
    BY <1>1, <2>1, <2>2, MakeRight
  <2> QED
    BY <1>1, <2>1, <2>3, IncludedRight DEF Inv
<1>7. ASSUME NEW b \in Branches, IncludeBranches(b) PROVE Inv'
  BY <1>1, <1>2, <1>4, <1>7, IncludedRight DEF IncludeBranches, Inv
<1>8. ASSUME NEW b \in Branches, Split(b) PROVE Inv'
  <2>1. Make(Cloned(convs[b])) /\ Included(made + 1, default)
    BY <1>8 DEF Split
  <2>2. Fine(Cloned(convs[b]), Seen)
    BY <1>1, <1>4, ClonedFine, SystemIsSeen DEF BranchInv, ConvsRight
  <2>3. BranchInv' /\ made + 1 \in 1..MaxBranches
    BY <1>1, <2>1, <2>2, MakeRight
  <2> QED
    BY <1>1, <2>1, <2>3, IncludedRight DEF Inv
<1>9. ASSUME NEW b \in Branches, RemoveBranch(b) PROVE Inv'
  <2>1. UNCHANGED branchVars
    BY <1>9 DEF RemoveBranch
  <2> QED
    BY <1>1, <1>2, <1>9, <2>1, RemoveRight DEF Inv
<1>10. ASSUME NEW b \in Branches, ChangeDefaultBranch(b) PROVE Inv'
  <2>1. UNCHANGED branchVars /\ UNCHANGED branches /\ default' = b /\ b \in Members
    BY <1>10 DEF ChangeDefaultBranch
  <2>2. branches # <<>>
    BY <2>1 DEF Members, ToSet
  <2> QED
    BY <1>1, <1>2, <2>1, <2>2 DEF Inv, DefaultInv, DefaultIsMember, Members
<1>11. ASSUME NEW count \in 1..2, NEW inherits \in SUBSET (1..count),
              FlowAllocates(count, inherits)
       PROVE  Inv'
  <2>1. UNCHANGED default
    BY <1>11 DEF FlowAllocates
  <2>2. CASE default = NoBranch
    BY <1>2, <1>3, <1>11, <2>1, <2>2 DEF FlowAllocates, Inv
  <2>3. CASE default # NoBranch
    <3> DEFINE new == made + 1..made + count
               more == [i \in 1..count |-> made + i]
    <3>1. /\ made + count <= MaxBranches /\ made' = made + count
          /\ convs' = [b \in DOMAIN convs |->
                         IF b \in new THEN Cloned(convs[default]) ELSE convs[b]]
          /\ branches' = branches \o more
          /\ UNCHANGED <<exchanges, tasks>>
      BY <1>11, <2>3 DEF FlowAllocates
    <3>2. default \in Members /\ default \in 1..MaxBranches /\ branches # <<>>
      BY <1>1, <1>5, <2>3 DEF DefaultInv, DefaultIsMember
    <3>3. Seen' = Seen
      BY <3>1 DEF Seen, Awaits
    <3>4. Fine(Cloned(convs[default]), Seen)
      BY <1>1, <3>2, ClonedFine, SystemIsSeen DEF BranchInv, ConvsRight
    <3>5. ConvsRight'
      <4>1. DOMAIN convs = 1..MaxBranches
        BY <1>1 DEF BranchInv, ConvsRight
      <4>2. \A b \in 1..MaxBranches :
                convs'[b] = IF b \in new THEN Cloned(convs[default]) ELSE convs[b]
        BY <3>1, <4>1
      <4>3. \A b \in 1..MaxBranches : Fine(convs'[b], Seen')
        BY <1>1, <3>3, <3>4, <4>2 DEF BranchInv, ConvsRight
      <4>4. convs' = [b \in 1..MaxBranches |-> convs'[b]]
        BY <3>1, <4>1
      <4> QED
        BY <4>3, <4>4 DEF ConvsRight
    <3>6. made' \in 0..MaxBranches /\ count \in Nat /\ made \in Nat
      BY <1>1, <3>1, BranchAssumption DEF BranchInv
    <3>7. more \in Seq(1..MaxBranches)
      <4>1. \A i \in 1..count : made + i \in 1..MaxBranches
        BY <3>1, <3>6, BranchAssumption
      <4> QED
        BY <3>6, <4>1
    <3>8. /\ branches' \in Seq(1..MaxBranches) /\ branches' # <<>>
          /\ default \in ToSet(branches')
      <4> HIDE DEF more
      <4>1. /\ branches \o more \in Seq(1..MaxBranches)
            /\ Len(branches \o more) = Len(branches) + Len(more)
            /\ \A i \in 1..Len(branches) + Len(more) : (branches \o more)[i] =
                    IF i <= Len(branches) THEN branches[i] ELSE more[i - Len(branches)]
        BY <1>1, <3>7, ConcatProperties DEF DefaultInv
      <4>2. Len(branches) \in Nat /\ Len(more) \in Nat
            /\ DOMAIN branches = 1..Len(branches)
            /\ DOMAIN (branches \o more) = 1..Len(branches) + Len(more)
        BY <1>1, <3>7, <4>1, LenProperties DEF DefaultInv
      <4>3. PICK i \in 1..Len(branches) : branches[i] = default
        BY <3>2, <4>2 DEF Members, ToSet
      <4>4. i \in DOMAIN (branches \o more) /\ (branches \o more)[i] = default
        BY <4>1, <4>2, <4>3
      <4>5. default \in ToSet(branches \o more)
        BY <4>4 DEF ToSet
      <4>6. branches \o more # <<>>
        BY <4>5 DEF ToSet
      <4> QED
        BY <3>1, <4>1, <4>5, <4>6
    <3>9. BranchInv'
      BY <1>1, <3>1, <3>3, <3>5, <3>6 DEF BranchInv, TasksRight, AsksRight
    <3> QED
      BY <2>1, <3>8, <3>9 DEF Inv, DefaultInv, DefaultIsMember, Members
  <2> QED
    BY <2>2, <2>3
<1>12. ASSUME NEW b \in Branches, NEW primary \in Branches, FlowInherits(b, primary) PROVE Inv'
  <2>1. convs' = [convs EXCEPT ![b] = Inherited(convs[b], convs[primary])]
        /\ UNCHANGED <<made, exchanges, tasks, branches, default>>
    BY <1>12 DEF FlowInherits
  <2>2. Fine(Inherited(convs[b], convs[primary]), Seen)
    BY <1>1, <1>4, InheritedFine, SystemIsSeen DEF BranchInv, ConvsRight
  <2>3. Seen' = Seen
    BY <2>1 DEF Seen, Awaits
  <2>4. ConvsRight'
    BY <1>1, <1>4, <2>1, <2>2, <2>3, ConvChanges
  <2> QED
    BY <1>1, <1>3, <2>1, <2>3, <2>4 DEF Inv, BranchInv, TasksRight, AsksRight
<1>13. CASE FlowBegins \/ FlowEnds
  BY <1>2, <1>3, <1>13 DEF FlowBegins, FlowEnds, Inv
<1>14. CASE BranchNext /\ UNCHANGED sessionVars
  BY <1>1, <1>3, <1>14, BranchStep DEF sessionVars, Inv
<1>15. CASE UNCHANGED vars
  BY <1>2, <1>3, <1>15 DEF vars, sessionVars, Inv
<1> QED
  BY <1>6, <1>7, <1>8, <1>9, <1>10, <1>11, <1>12, <1>13, <1>14, <1>15
     DEF Next, SessionNext, FlowNext

\* All of it always holds.
LEMMA AlwaysInv == Spec => []Inv
BY InitRight, NextRight, PTL DEF Spec

\* A response follows its instruction, and an output its request, directly unless
\* what they answer was used before, however many tasks share the branches, clear and
\* copy them.
THEOREM ExchangesStayWhole == Spec => []ExchangesWhole
<1>1. Inv => ExchangesWhole
  <2> SUFFICES ASSUME Inv, NEW b \in Branches PROVE Whole(convs[b].order)
    BY DEF Whole, Answers, Replies, ExchangesWhole
  <2> QED
    BY BranchAssumption DEF Inv, BranchInv, ConvsRight, Fine, Branches
<1> QED
  BY <1>1, AlwaysInv, PTL

\* The system message of a branch is the first of its messages.
THEOREM SystemStaysFirst == Spec => []SystemFirst
<1>1. Inv => SystemFirst
  BY BranchAssumption DEF Inv, BranchInv, ConvsRight, Fine, First, SystemFirst, Branches
<1> QED
  BY <1>1, AlwaysInv, PTL

\* The default branch of a session is one of its branches.
THEOREM DefaultStaysMember == Spec => []DefaultIsMember
<1>1. Inv => DefaultIsMember
  BY DEF Inv, DefaultInv
<1> QED
  BY <1>1, AlwaysInv, PTL

\* The next chat of any branch sends instructions and responses in turn, every
\* exchange among them, whatever tasks, clones and flows have left in it.
THEOREM PromptsStayFaithful == Spec => []PromptFaithful
<1>1. Inv => PromptFaithful
  <2> SUFFICES ASSUME Inv, NEW b \in Branches PROVE Fine(convs[b], Seen)
    BY PromptIsFaithful DEF PromptFaithful
  <2> QED
    BY BranchAssumption DEF Inv, BranchInv, ConvsRight, Branches
<1> QED
  BY AlwaysInv, <1>1, PTL

\* And it shows the model every tool output that the branch holds.
THEOREM OutputsReachTheModel == Spec => []OutputsIntegrated
<1>1. Inv => OutputsIntegrated
  <2> SUFFICES ASSUME Inv, NEW b \in Branches PROVE Fine(convs[b], Seen)
    BY PromptShowsOutputs DEF OutputsIntegrated
  <2> QED
    BY BranchAssumption DEF Inv, BranchInv, ConvsRight, Branches
<1> QED
  BY AlwaysInv, <1>1, PTL
=============================================================================
