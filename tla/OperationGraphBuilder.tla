----------------------- MODULE OperationGraphBuilder -----------------------
(***************************************************************************)
(* operations/builder.py: a graph of operations that is built one call at  *)
(* a time, while its owner also changes the graph and looks for paths.     *)
(*                                                                         *)
(* A call first adds the operation and then its edges, one by one.  It     *)
(* raises at the first edge that names a node that is not in the graph any *)
(* more, and leaves behind what it has done until then.  What no method reads *)
(* again, the metadata of operations and last_operation_id, is left out.   *)
(***************************************************************************)
EXTENDS Graph, SequencesExt

VARIABLES
    operations, \* the keys of _operations
    heads       \* _current_heads

builderVars == <<operations, heads>>
vars == <<graphVars, builderVars>>

Init ==
    /\ GraphInit
    /\ operations = {}
    /\ heads = <<>>

\* Mutant of Registered: an operation is registered once it is linked.
RegisteredWhenLinked(new, linked) == IF linked THEN operations \cup new ELSE operations

\* The operations are registered before they are linked.
Registered(new, linked) == operations \cup new

\* Adds `count` operations and the edges from hs[i] to ts[i], as far as the
\* k-th; the next one, if any, raises.  Only a call that gets through sets the
\* heads.
Build(count, hs, ts, newHeads) ==
    \E k \in 0..Len(hs) :
        LET linked == k = Len(hs)
            present == nodes \cup made + 1..made + count
            added == IF linked THEN count ELSE ts[k + 1] - made
        IN  /\ \A i \in 1..k : hs[i] \in present
            /\ ~linked => hs[k + 1] \notin present
            /\ made + count <= MaxNodes
            /\ Len(ends) + k <= MaxEdges
            /\ AddAll(added, SubSeq(hs, 1, k), SubSeq(ts, 1, k), TRUE)
            /\ operations' = Registered(made + 1..made + added, linked)
            /\ heads' = IF linked THEN newHeads ELSE heads

Fresh == made + 1

\* One operation that depends on each of hs.
AddOne(hs) == Build(1, hs, [i \in 1..Len(hs) |-> Fresh], <<Fresh>>)

\* Mutant of AutoLinked: the new operation is made the head before it is linked.
AutoLinkedLate == <<Fresh>>

\* What an operation without depends_on is linked to.
AutoLinked == heads

\* add_operation(): of the dependencies it is given it passes over the unknown ones.
AddOperation(given, known) == AddOne(IF given THEN known ELSE AutoLinked)

\* add_aggregation(source_node_ids = sources).
AddAggregation(sources) ==
    LET hs == IF sources # <<>> THEN sources ELSE heads
    IN  hs # <<>> /\ AddOne(hs)

\* expand_from_result() of `count` items; `moves` tells the strategies that move the heads.
ExpandFromResult(count, source, moves) ==
    LET new == [i \in 1..count |-> made + i]
    IN  /\ source \in operations
        /\ Build(count, [i \in 1..count |-> source], new, IF moves THEN new ELSE heads)

\* add_conditional_branch(): the check, and one operation or two that depend on it.
AddConditionalBranch(ways) ==
    LET branches == [i \in 1..ways |-> Fresh + i]
    IN  Build(ways + 1,
              heads \o [i \in 1..ways |-> Fresh],
              [i \in 1..Len(heads) |-> Fresh] \o branches,
              branches)

Refs == 0..made

BuilderCall ==
    \/ \E known \in BoundedSeq(operations, 2), given \in BOOLEAN : AddOperation(given, known)
    \/ \E sources \in BoundedSeq(Refs, 2) : AddAggregation(sources)
    \/ \E count \in 0..2, source \in Refs, moves \in BOOLEAN :
            ExpandFromResult(count, source, moves)
    \/ \E ways \in 1..2 : AddConditionalBranch(ways)

\* What the owner of the builder takes out of its graph.
OwnerCall ==
    \/ \E n \in nodes : RemoveNode(n)
    \/ \E e \in edges : RemoveEdge(e)

Next ==
    \/ BuilderCall
    \/ OwnerCall /\ UNCHANGED builderVars

Spec == Init /\ [][Next]_vars

-----------------------------------------------------------------------------
(* Properties *)

\* A call that raises half-way leaves no node in the graph that the builder
\* does not know: whatever the graph holds can be expanded, depended upon and
\* found by its reference (builder.py lines 105-106: the node is added, then
\* registered, and only then linked to heads that may be gone).
NodesAreOperations == nodes \subseteq operations

\* Every edge leads from an older operation to a newer one, so that the graph
\* can always be run: DependencyAwareExecutor.execute() refuses a cyclic graph
\* (flow.py line 84), and the builder itself never looks for a cycle.
OlderFirst == \A e \in edges : ends[e].head < ends[e].tail
=============================================================================
