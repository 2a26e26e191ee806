--------------------------- MODULE GraphAlgorithms ---------------------------
(***************************************************************************)
(* is_acyclic() and topological_sort() of protocols/graph/graph.py on the  *)
(* graphs that the builder and its owner make, compared with what a cycle  *)
(* and an order are.                                                       *)
(***************************************************************************)
EXTENDS Graph, SequencesExt

\* A dict of edges, and the pile of nodes, in the order of insertion.
InOrder(ids) ==
    CHOOSE s \in [1..Cardinality(ids) -> ids] : \A i, j \in DOMAIN s : i < j => s[i] < s[j]

Tails(es) == [i \in DOMAIN es |-> ends[es[i]].tail]

-----------------------------------------------------------------------------
(* is_acyclic() *)

\* Marks: 0 unvisited, 1 visiting, 2 visited.
Marks == [nodes -> 0..2]

\* What visit() returns, and the marks it leaves.
Clear(marks) == [ok |-> TRUE, marks |-> marks]
Cycle(marks) == [ok |-> FALSE, marks |-> marks]

\* Mutant of Cleared: a node is not known to be clear when its visit ends.
ClearedNever(marks, n) == marks

Cleared(marks, n) == [marks EXCEPT ![n] = 2]

\* A loop that visits nodes until a visit meets a cycle.
VisitAll(visit, ns, marks) ==
    LET after[i \in 0..Len(ns)] ==
            IF i = 0 THEN Clear(marks)
            ELSE LET last == after[i - 1]
                 IN  IF last.ok THEN visit[ns[i]][last.marks] ELSE last
    IN  after[Len(ns)]

\* visit(n), where `depth` nodes are unvisited at most: no more calls are nested.
Visit ==
    LET visit[depth \in 0..Cardinality(nodes)] ==
            [n \in nodes |-> [marks \in Marks |->
                IF marks[n] = 2 THEN Clear(marks)
                ELSE IF marks[n] = 1 \/ depth = 0 THEN Cycle(marks)
                ELSE LET below == VisitAll(visit[depth - 1], Tails(InOrder(out[n])),
                                           [marks EXCEPT ![n] = 1])
                     IN  IF below.ok THEN Clear(Cleared(below.marks, n)) ELSE below]]
    IN  visit[Cardinality(nodes)]

\* The nodes are popped from the right.
IsAcyclic == VisitAll(Visit, Reverse(InOrder(nodes)), [n \in nodes |-> 0]).ok

-----------------------------------------------------------------------------
(* topological_sort() *)

InDegrees == [n \in mapped |-> Cardinality(in[n])]

\* The edges of n at which the degree of a node falls to zero.
Freeing(n, lowered) ==
    {e \in out[n] : /\ lowered[ends[e].tail] = 0
                    /\ \A f \in out[n] : ends[f].tail = ends[e].tail => f <= e}

\* The round of the first node of the queue: its edges lower the degrees of their tails.
Round(sort) ==
    LET n == Head(sort.queue)
        lowered == [m \in mapped |->
                        sort.degree[m] - Cardinality({e \in out[n] : ends[e].tail = m})]
    IN  [queue |-> Tail(sort.queue) \o Tails(InOrder(Freeing(n, lowered))),
         degree |-> lowered,
         result |-> Append(sort.result, n)]

\* Rounds, as long as there is a queue; no node comes into it twice.
Kahn ==
    LET sort[k \in 0..Cardinality(mapped)] ==
            IF k = 0 THEN [queue |-> InOrder(GetHeads), degree |-> InDegrees, result |-> <<>>]
            ELSE LET last == sort[k - 1]
                 IN  IF last.queue = <<>> THEN last ELSE Round(last)
    IN  sort[Cardinality(mapped)]

\* The sorted nodes, or <<>> when the sort raises; of no nodes too.
Sorted ==
    LET result == Kahn.result
    IN  IF Len(result) = Cardinality(mapped) THEN result ELSE <<>>

-----------------------------------------------------------------------------
(* Properties *)

\* Every set of nodes that has `from`, and that no edge leaves, has `to`.
Reaches(from, to) ==
    \A set \in SUBSET nodes :
        from \in set /\ (\A e \in edges : ends[e].head \in set => ends[e].tail \in set)
            => to \in set

Cyclic == \E e \in edges : Reaches(ends[e].tail, ends[e].head)

\* is_acyclic(), which colours nodes and walks edges back from the last node,
\* and topological_sort(), which counts degrees, agree with each other and with
\* the definition of a cycle on every graph that calls can make, self-loops and
\* parallel edges included; and the order respects every edge (lines 315-381).
\* A search changes no graph: it is enough to ask where none has been made.
AlgorithmsAgree ==
    (\A s \in Searches : search[s] = Idle) =>
    /\ IsAcyclic <=> ~Cyclic
    /\ (Sorted # <<>>) <=> (~Cyclic /\ nodes # {})
    /\ Sorted # <<>> =>
            /\ IsInjective(Sorted) /\ Range(Sorted) = nodes
            /\ \A i, j \in DOMAIN Sorted : \A e \in edges :
                    ends[e].head = Sorted[i] /\ ends[e].tail = Sorted[j] => i < j
==============================================================================
