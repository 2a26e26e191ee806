------------------------------- MODULE Graph -------------------------------
(***************************************************************************)
(* protocols/graph/graph.py: a directed graph of nodes and edges with an   *)
(* adjacency mapping, and the tasks that look for a path in it.            *)
(*                                                                         *)
(* The methods that change the graph hold its lock and do not await, so    *)
(* each is one step.  find_path() holds no lock and awaits the condition   *)
(* of every edge it follows: the graph may change under it.                *)
(*                                                                         *)
(* Nodes and edges are numbered in the order in which they are created, so *)
(* that a dict of edge ids is iterated in the order of the numbers.        *)
(***************************************************************************)
EXTENDS Integers, Sequences, FiniteSets

CONSTANTS
    MaxNodes,   \* how many nodes are created in all
    MaxEdges,   \* how many edges are created in all
    Searches    \* the tasks that call find_path()

ASSUME GraphConstants == MaxNodes \in Nat /\ MaxEdges \in Nat

VARIABLES
    ends,       \* the Edge objects created so far: head, tail, and whether the condition holds
    made,       \* how many nodes were created so far
    nodes,      \* the ids in internal_nodes
    edges,      \* the ids in internal_edges
    mapped,     \* the keys of node_edge_mapping
    in,         \* node_edge_mapping[n]["in"], the ids of the edges
    out,        \* node_edge_mapping[n]["out"]
    search      \* the call of find_path() of each task

graphVars == <<ends, made, nodes, edges, mapped, in, out, search>>

NodeIds == 1..MaxNodes
Nobody == 0

Idle == [at |-> "idle"]

GraphInit ==
    /\ ends = <<>>
    /\ made = 0
    /\ nodes = {}
    /\ edges = {}
    /\ mapped = {}
    /\ in = [n \in NodeIds |-> {}]
    /\ out = [n \in NodeIds |-> {}]
    /\ search = [s \in Searches |-> Idle]

-----------------------------------------------------------------------------
(* A suspended call of find_path() holds an iterator of the dict out[cur]. *)
(* `todo` are the keys it has yet to yield, `drift` by how much the dict   *)
(* has grown since.  Nobody else reaches the dict of a node that was       *)
(* removed.  `calm` records that the graph has not changed since the call. *)

Follow(call, was, is, gone) ==
    [call EXCEPT !.cur = IF @ \in gone THEN Nobody ELSE @,
                 !.todo = (@ \ (was \ is)) \cup (is \ was),
                 !.drift = @ + Cardinality(is \ was) - Cardinality(was \ is),
                 !.calm = FALSE]

\* The calls after a change that leaves now[n] of the dict of node n; a call
\* that is over is forgotten.
IteratorsFollow(now, gone) ==
    search' = [s \in Searches |->
        IF search[s].at # "check" THEN Idle
        ELSE IF search[s].cur = Nobody THEN search[s]
        ELSE Follow(search[s], out[search[s].cur], now[search[s].cur], gone)]

-----------------------------------------------------------------------------
(* Changes *)

\* add_node() of `count` new nodes and add_edge() from hs[i] to ts[i], all of which succeed.
AddAll(count, hs, ts, holds) ==
    LET first == Len(ends)
        new == made + 1..made + count
        ids == first + 1..first + Len(hs)
        grown == [n \in NodeIds |-> out[n] \cup {e \in ids : hs[e - first] = n}]
    IN  /\ ends' = ends \o [i \in 1..Len(hs) |-> [head |-> hs[i], tail |-> ts[i], holds |-> holds]]
        /\ made' = made + count
        /\ nodes' = nodes \cup new
        /\ mapped' = mapped \cup new
        /\ edges' = edges \cup ids
        /\ out' = grown
        /\ in' = [n \in NodeIds |-> in[n] \cup {e \in ids : ts[e - first] = n}]
        /\ IteratorsFollow(grown, {})

AddNode ==
    /\ made < MaxNodes
    /\ AddAll(1, <<>>, <<>>, TRUE)

AddEdge(h, t, holds) ==
    /\ Len(ends) < MaxEdges
    /\ h \in nodes /\ t \in nodes
    /\ AddAll(0, <<h>>, <<t>>, holds)

\* Mutant of EdgesOf: the edges that enter the node stay.
EdgesLeaving(n) == out[n]

EdgesOf(n) == in[n] \cup out[n]

RemoveNode(n) ==
    /\ n \in nodes
    /\ nodes' = nodes \ {n}
    /\ mapped' = mapped \ {n}
    /\ edges' = edges \ EdgesOf(n)
    /\ out' = [m \in NodeIds |-> IF m = n THEN {} ELSE out[m] \ in[n]]
    /\ in' = [m \in NodeIds |-> IF m = n THEN {} ELSE in[m] \ out[n]]
    /\ IteratorsFollow([m \in NodeIds |-> out[m] \ in[n]], {n})
    /\ UNCHANGED <<ends, made>>

RemoveEdge(e) ==
    /\ e \in edges
    /\ edges' = edges \ {e}
    /\ out' = [out EXCEPT ![ends[e].head] = @ \ {e}]
    /\ in' = [in EXCEPT ![ends[e].tail] = @ \ {e}]
    /\ IteratorsFollow([m \in NodeIds |-> out[m] \ {e}], {})
    /\ UNCHANGED <<ends, made, nodes, mapped>>

-----------------------------------------------------------------------------
(* find_path(check_conditions=True) *)

Smallest(ids) == CHOOSE e \in ids : \A f \in ids : e <= f

Ended(call, how, path) ==
    [at |-> how, from |-> call.from, to |-> call.to, path |-> path, calm |-> call.calm]

\* The keys of a dict at which the loop stops: an edge that is gone, whose
\* lookup raises, and one whose tail was not visited yet, which is checked.
Stops(ids, parent) == {e \in ids : e \notin edges \/ ends[e].tail \notin DOMAIN parent}

\* The iterator yields the next of them.
Yield(call, ids) ==
    LET e == Smallest(Stops(ids, call.parent))
    IN  IF e \notin edges THEN Ended(call, "error", <<>>)
        ELSE [call EXCEPT !.edge = e, !.todo = {f \in ids : f > e}]

\* The iterator is exhausted: take nodes off the queue until one has such a key.
NextNode(call) ==
    LET open == {i \in DOMAIN call.queue : \/ call.queue[i] \notin mapped
                                           \/ Stops(out[call.queue[i]], call.parent) # {}}
        i == Smallest(open)
        n == call.queue[i]
    IN  IF open = {} THEN Ended(call, "none", <<>>)
        ELSE IF n \notin mapped THEN Ended(call, "error", <<>>)
        ELSE Yield([call EXCEPT !.cur = n, !.drift = 0, !.queue = SubSeq(@, i + 1, Len(@))], out[n])

\* A dict whose size has changed raises when it is asked for the next key.
Continue(call) ==
    IF call.drift # 0 THEN Ended(call, "error", <<>>)
    ELSE IF Stops(call.todo, call.parent) # {} THEN Yield(call, call.todo)
    ELSE NextNode(call)

\* parent[n] = e
Visited(parent, n, e) == [m \in DOMAIN parent \cup {n} |-> IF m = n THEN e ELSE parent[m]]

Found(call, e) ==
    [call EXCEPT !.parent = Visited(@, ends[e].tail, e), !.queue = Append(@, ends[e].tail)]

\* Mutant of PassedOver: the node was visited all the same.
PassedOverForGood(call, e) == [call EXCEPT !.parent = Visited(@, ends[e].tail, e)]

\* The condition does not hold: other edges may still lead to the node.
PassedOver(call, e) == call

PathTo(parent, n) ==
    LET up[m \in DOMAIN parent] ==
            IF parent[m] = Nobody THEN <<>> ELSE Append(up[ends[parent[m]].head], parent[m])
    IN  up[n]

\* Mutant of Arrived: the edges of the path are not looked up.
ArrivedUnseen(call) == Ended(call, "path", PathTo(call.parent, call.to))

\* The edges of the path are looked up again.
Arrived(call) ==
    LET path == PathTo(call.parent, call.to)
    IN  IF \A i \in DOMAIN path : path[i] \in edges THEN Ended(call, "path", path)
        ELSE Ended(call, "error", <<>>)

FindPath(s, from, to) ==
    /\ search[s].at # "check"
    /\ from \in nodes /\ to \in nodes /\ from # to
    /\ search' = [search EXCEPT ![s] =
            NextNode([at |-> "check", from |-> from, to |-> to, cur |-> from, edge |-> Nobody,
                      todo |-> {}, drift |-> 0, queue |-> <<from>>,
                      parent |-> [n \in {from} |-> Nobody], calm |-> TRUE])]
    /\ UNCHANGED <<ends, made, nodes, edges, mapped, in, out>>

\* The condition of an edge has been evaluated.
Checked(s) ==
    LET call == search[s]
        e == call.edge
        found == Found(call, e)
    IN  /\ call.at = "check"
        /\ search' = [search EXCEPT ![s] =
                IF ~ends[e].holds THEN Continue(PassedOver(call, e))
                ELSE IF ends[e].tail = call.to THEN Arrived(found)
                ELSE Continue(found)]
        /\ UNCHANGED <<ends, made, nodes, edges, mapped, in, out>>

-----------------------------------------------------------------------------
(* Queries *)

GetHeads == {n \in mapped : in[n] = {}}

Change ==
    \/ AddNode
    \/ \E h, t \in nodes, holds \in BOOLEAN : AddEdge(h, t, holds)
    \/ \E n \in nodes : RemoveNode(n)
    \/ \E e \in edges : RemoveEdge(e)

Search ==
    \/ \E s \in Searches, from, to \in nodes : FindPath(s, from, to)
    \/ \E s \in Searches : Checked(s)

GraphSpec == GraphInit /\ [][Change \/ Search]_graphVars

-----------------------------------------------------------------------------
(* Properties *)

GraphTypeOK ==
    /\ made \in 0..MaxNodes
    /\ ends \in Seq([head : NodeIds, tail : NodeIds, holds : BOOLEAN])
    /\ nodes \in SUBSET (1..made) /\ mapped \in SUBSET (1..made)
    /\ edges \in SUBSET DOMAIN ends
    /\ in \in [NodeIds -> SUBSET DOMAIN ends]
    /\ out \in [NodeIds -> SUBSET DOMAIN ends]

\* The mapping has the nodes of the graph as its keys and, under each, exactly
\* the edges of the graph that enter and leave the node; no edge dangles.
\* graph.py lines 96-147 change the pile of nodes, the pile of edges and two
\* dicts of two nodes in turn.
AdjacencyMirrorsEdges ==
    /\ mapped = nodes
    /\ \A e \in edges : ends[e].head \in nodes /\ ends[e].tail \in nodes
    /\ \A n \in NodeIds : /\ out[n] = {e \in edges : ends[e].head = n}
                          /\ in[n] = {e \in edges : ends[e].tail = n}

IsWalk(path, from, to) ==
    /\ path # <<>>
    /\ ends[path[1]].head = from /\ ends[path[Len(path)]].tail = to
    /\ \A i \in 1..Len(path) - 1 : ends[path[i]].tail = ends[path[i + 1]].head

\* When find_path() returns a path, it is a walk from the start to the end
\* over edges that are in the graph at that moment, whatever was added and
\* removed while conditions were awaited (graph.py lines 415-440).
PathIsThere ==
    [][\A s \in Searches :
        search'[s].at = "path" /\ search[s].at # "path" =>
            /\ IsWalk(search'[s].path, search'[s].from, search'[s].to)
            /\ \A i \in DOMAIN search'[s].path :
                  search'[s].path[i] \in edges /\ ends[search'[s].path[i]].holds]_graphVars

Live == {e \in edges : ends[e].holds}

\* No edge whose condition holds leaves the nodes of the set.
Closed(set) == \A e \in Live : ends[e].head \in set => ends[e].tail \in set

CanReach(from, to) == \A set \in SUBSET nodes : from \in set /\ Closed(set) => to \in set

Shortest(path, from, to) ==
    \A n \in 1..Len(path) - 1 : ~\E p \in [1..n -> Live] : IsWalk(p, from, to)

\* As long as nothing changes the graph, find_path() finds a path exactly when
\* one leads over edges whose conditions hold, never raises, and no path is
\* shorter (lines 383-441).
CalmSearchIsRight ==
    \A s \in Searches :
        LET call == search[s]
        IN  call.at \in {"path", "none", "error"} /\ call.calm =>
                /\ call.at # "error"
                /\ (call.at = "path") <=> CanReach(call.from, call.to)
                /\ call.at = "path" => Shortest(call.path, call.from, call.to)
=============================================================================
