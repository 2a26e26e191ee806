----------------------------- MODULE GraphProofs -----------------------------
(***************************************************************************)
(* The adjacency mapping of a graph mirrors its edges, for any number of   *)
(* nodes, edges and searches, a builder's graph can always be run,         *)
(* find_path() returns what is there, and the best of it while nothing     *)
(* changes the graph, and is_acyclic() and topological_sort() are right.   *)
(***************************************************************************)
EXTENDS OperationGraphBuilder, GraphAlgorithms,
        SequenceTheorems, FiniteSetTheorems, WellFoundedInduction, TLAPS

GInv == GraphTypeOK /\ AdjacencyMirrorsEdges

Records == [head : NodeIds, tail : NodeIds, holds : BOOLEAN]

\* Adding new nodes, and edges between nodes that are then in the graph, keeps
\* the mapping in step (graph.py lines 91-117).
LEMMA AddAllKeeps ==
    ASSUME GInv, NEW count \in Nat, made + count <= MaxNodes,
           NEW hs \in Seq(nodes \cup made + 1..made + count),
           NEW ts \in Seq(nodes \cup made + 1..made + count),
           Len(ts) = Len(hs), NEW holds \in BOOLEAN,
           AddAll(count, hs, ts, holds)
    PROVE  GInv'
<1> DEFINE new == made + 1..made + count
           first == Len(ends)
           ids == first + 1..first + Len(hs)
           added == [i \in 1..Len(hs) |-> [head |-> hs[i], tail |-> ts[i], holds |-> holds]]
<1> USE DEF GInv, GraphTypeOK, NodeIds
<1>1. /\ ends \in Seq(Records) /\ first \in Nat /\ DOMAIN ends = 1..first
      /\ made \in Nat /\ MaxNodes \in Nat
  BY GraphConstants DEF Records
<1>2. nodes \cup new \subseteq NodeIds /\ nodes \cup new \subseteq 1..made + count
  BY <1>1
<1>3. \A i \in 1..Len(hs) : hs[i] \in nodes \cup new /\ ts[i] \in nodes \cup new
  OBVIOUS
<1>4. added \in Seq(Records) /\ Len(added) = Len(hs)
  <2>1. \A i \in 1..Len(hs) : added[i] \in Records
    BY <1>2, <1>3 DEF Records
  <2>2. Len(hs) \in Nat
    OBVIOUS
  <2> QED
    BY <2>1, <2>2
<1>5. /\ ends' = ends \o added
      /\ made' = made + count
      /\ nodes' = nodes \cup new /\ mapped' = mapped \cup new
      /\ edges' = edges \cup ids
      /\ out' = [n \in NodeIds |-> out[n] \cup {e \in ids : hs[e - first] = n}]
      /\ in' = [n \in NodeIds |-> in[n] \cup {e \in ids : ts[e - first] = n}]
  BY DEF AddAll
<1>6. /\ ends' \in Seq(Records) /\ Len(ends') = first + Len(hs)
      /\ \A e \in 1..first : ends'[e] = ends[e]
      /\ \A e \in ids : ends'[e] = added[e - first]
  BY <1>1, <1>4, <1>5
<1>7. DOMAIN ends' = 1..first + Len(hs) /\ ids \subseteq DOMAIN ends' /\ 1..first \subseteq DOMAIN ends'
  BY <1>1, <1>6
<1>8. GraphTypeOK'
  <2>1. ends' \in Seq([head : NodeIds, tail : NodeIds, holds : BOOLEAN])
    BY <1>6 DEF Records
  <2>2. made' \in 0..MaxNodes /\ nodes' \in SUBSET (1..made') /\ mapped' \in SUBSET (1..made')
    BY <1>1, <1>2, <1>5
  <2>3. edges' \in SUBSET DOMAIN ends'
    BY <1>1, <1>5, <1>7
  <2>4. in' \in [NodeIds -> SUBSET DOMAIN ends'] /\ out' \in [NodeIds -> SUBSET DOMAIN ends']
    BY <1>1, <1>5, <1>7
  <2> QED
    BY <2>1, <2>2, <2>3, <2>4
<1>9. \A e \in ids : /\ ends'[e].head = hs[e - first] /\ ends'[e].tail = ts[e - first]
                     /\ e - first \in 1..Len(hs)
  <2>1. ASSUME NEW e \in ids PROVE e - first \in 1..Len(hs)
    BY <1>1
  <2>2. ASSUME NEW i \in 1..Len(hs) PROVE added[i].head = hs[i] /\ added[i].tail = ts[i]
    OBVIOUS
  <2> HIDE DEF added, ids
  <2> QED
    BY <1>6, <2>1, <2>2
<1>10. edges \subseteq 1..first
  BY <1>1
<1>11. AdjacencyMirrorsEdges'
  <2>1. mapped' = nodes'
    BY <1>5 DEF AdjacencyMirrorsEdges
  <2>2. \A e \in edges' : ends'[e].head \in nodes' /\ ends'[e].tail \in nodes'
    BY <1>3, <1>5, <1>6, <1>9, <1>10 DEF AdjacencyMirrorsEdges
  <2>3. ASSUME NEW n \in NodeIds
        PROVE  /\ out'[n] = {e \in edges' : ends'[e].head = n}
               /\ in'[n] = {e \in edges' : ends'[e].tail = n}
    <3>1. out[n] = {e \in edges : ends[e].head = n} /\ in[n] = {e \in edges : ends[e].tail = n}
      BY DEF AdjacencyMirrorsEdges
    <3>2. /\ out'[n] = out[n] \cup {e \in ids : hs[e - first] = n}
          /\ in'[n] = in[n] \cup {e \in ids : ts[e - first] = n}
      BY <1>5
    <3>3. edges' = edges \cup ids
      BY <1>5
    <3>4. /\ \A e \in edges : ends'[e].head = ends[e].head /\ ends'[e].tail = ends[e].tail
          /\ \A e \in ids : ends'[e].head = hs[e - first] /\ ends'[e].tail = ts[e - first]
      BY <1>6, <1>9, <1>10
    <3> HIDE DEF ids, first, added, new, GInv, GraphTypeOK
    <3> QED
      BY <3>1, <3>2, <3>3, <3>4
  <2> QED
    BY <2>1, <2>2, <2>3 DEF AdjacencyMirrorsEdges
<1> QED
  BY <1>8, <1>11

\* So does removing a node with all its edges (lines 119-147).
LEMMA RemoveNodeKeeps ==
    ASSUME GInv, NEW n \in nodes, RemoveNode(n)
    PROVE  GInv'
<1> USE DEF GInv, GraphTypeOK, NodeIds
<1>1. n \in NodeIds
  BY GraphConstants
<1>2. /\ ends' = ends /\ made' = made
      /\ nodes' = nodes \ {n} /\ mapped' = mapped \ {n}
      /\ edges' = edges \ (in[n] \cup out[n])
      /\ out' = [m \in NodeIds |-> IF m = n THEN {} ELSE out[m] \ in[n]]
      /\ in' = [m \in NodeIds |-> IF m = n THEN {} ELSE in[m] \ out[n]]
  BY DEF RemoveNode, EdgesOf
<1>3. GraphTypeOK'
  <2>1. /\ made' \in 0..MaxNodes /\ nodes' \in SUBSET (1..made') /\ mapped' \in SUBSET (1..made')
        /\ edges' \in SUBSET DOMAIN ends'
        /\ ends' \in Seq([head : NodeIds, tail : NodeIds, holds : BOOLEAN])
    BY <1>2
  <2>2. in' \in [NodeIds -> SUBSET DOMAIN ends'] /\ out' \in [NodeIds -> SUBSET DOMAIN ends']
    BY <1>1, <1>2
  <2> QED
    BY <2>1, <2>2
<1>4. /\ out[n] = {e \in edges : ends[e].head = n}
      /\ in[n] = {e \in edges : ends[e].tail = n}
  BY <1>1 DEF AdjacencyMirrorsEdges
<1>5. AdjacencyMirrorsEdges'
  <2>1. mapped' = nodes'
    BY <1>2 DEF AdjacencyMirrorsEdges
  <2>2. \A e \in edges' : ends'[e].head \in nodes' /\ ends'[e].tail \in nodes'
    BY <1>2, <1>4 DEF AdjacencyMirrorsEdges
  <2>3. ASSUME NEW m \in NodeIds
        PROVE  /\ out'[m] = {e \in edges' : ends'[e].head = m}
               /\ in'[m] = {e \in edges' : ends'[e].tail = m}
    <3>1. out[m] = {e \in edges : ends[e].head = m} /\ in[m] = {e \in edges : ends[e].tail = m}
      BY DEF AdjacencyMirrorsEdges
    <3>2. /\ out'[m] = IF m = n THEN {} ELSE out[m] \ in[n]
          /\ in'[m] = IF m = n THEN {} ELSE in[m] \ out[n]
      BY <1>2
    <3> QED
      BY <1>2, <1>4, <3>1, <3>2
  <2> QED
    BY <2>1, <2>2, <2>3 DEF AdjacencyMirrorsEdges
<1> QED
  BY <1>3, <1>5

\* So does removing an edge (lines 149-168).
LEMMA RemoveEdgeKeeps ==
    ASSUME GInv, NEW e \in edges, RemoveEdge(e)
    PROVE  GInv'
<1> USE DEF GInv, GraphTypeOK, NodeIds
<1>1. ends[e].head \in NodeIds /\ ends[e].tail \in NodeIds
  <2>1. e \in 1..Len(ends) /\ ends \in Seq(Records)
    BY DEF Records
  <2>2. ends[e] \in Records
    BY <2>1
  <2> QED
    BY <2>2 DEF Records
<1>2. /\ ends' = ends /\ made' = made /\ nodes' = nodes /\ mapped' = mapped
      /\ edges' = edges \ {e}
      /\ out' = [out EXCEPT ![ends[e].head] = @ \ {e}]
      /\ in' = [in EXCEPT ![ends[e].tail] = @ \ {e}]
  BY DEF RemoveEdge
<1>3. \A m \in NodeIds : /\ out'[m] = out[m] \ {e}
                         /\ in'[m] = in[m] \ {e}
  BY <1>1, <1>2 DEF AdjacencyMirrorsEdges
<1>4. GraphTypeOK'
  BY <1>1, <1>2
<1>5. AdjacencyMirrorsEdges'
  BY <1>2, <1>3 DEF AdjacencyMirrorsEdges
<1> QED
  BY <1>4, <1>5

LEMMA EmptyGraph == ASSUME GraphInit PROVE GInv
  BY GraphConstants DEF GraphInit, GInv, GraphTypeOK, AdjacencyMirrorsEdges, NodeIds

LEMMA StutterKeeps ==
    ASSUME GInv, UNCHANGED <<ends, made, nodes, edges, mapped, in, out>>
    PROVE  GInv'
  BY DEF GInv, GraphTypeOK, AdjacencyMirrorsEdges

LEMMA GraphStep ==
    ASSUME GInv, [Change \/ Search]_graphVars
    PROVE  GInv'
<1>1. CASE AddNode
  <2>1. made + 1 <= MaxNodes
    BY <1>1, GraphConstants DEF AddNode, GInv, GraphTypeOK
  <2>2. <<>> \in Seq(nodes \cup made + 1..made + 1) /\ Len(<<>>) = 0
    OBVIOUS
  <2> QED
    BY <1>1, <2>1, <2>2, AddAllKeeps DEF AddNode
<1>2. ASSUME NEW h \in nodes, NEW t \in nodes, NEW holds \in BOOLEAN, AddEdge(h, t, holds)
      PROVE  GInv'
  <2>1. made + 0 <= MaxNodes
    BY GraphConstants DEF GInv, GraphTypeOK
  <2>2. /\ <<h>> \in Seq(nodes \cup made + 1..made + 0)
        /\ <<t>> \in Seq(nodes \cup made + 1..made + 0)
        /\ Len(<<h>>) = Len(<<t>>)
    OBVIOUS
  <2> QED
    BY <1>2, <2>1, <2>2, AddAllKeeps DEF AddEdge
<1>3. ASSUME NEW n \in nodes, RemoveNode(n) PROVE GInv'
  BY <1>3, RemoveNodeKeeps
<1>4. ASSUME NEW e \in edges, RemoveEdge(e) PROVE GInv'
  BY <1>4, RemoveEdgeKeeps
<1>5. CASE Search
  BY <1>5, StutterKeeps DEF Search, FindPath, Checked
<1>6. CASE UNCHANGED graphVars
  BY <1>6, StutterKeeps DEF graphVars
<1> QED
  BY <1>1, <1>2, <1>3, <1>4, <1>5, <1>6 DEF Change

\* Whatever is added and removed, in any order, the mapping has exactly the
\* nodes of the graph and under each exactly its edges: no edge dangles and no
\* entry is left behind (graph.py lines 91-168).
THEOREM AdjacencyIsRight == GraphSpec => []AdjacencyMirrorsEdges
<1>1. GraphInit => GInv
  BY EmptyGraph
<1>2. GInv /\ [Change \/ Search]_graphVars => GInv'
  BY GraphStep
<1>3. GInv => AdjacencyMirrorsEdges
  BY DEF GInv
<1> QED
  BY <1>1, <1>2, <1>3, PTL DEF GraphSpec

-----------------------------------------------------------------------------
(* The builder *)

BInv ==
    /\ GInv
    /\ NodesAreOperations
    /\ OlderFirst
    /\ operations \in SUBSET (1..made)
    /\ heads \in Seq(1..made)

\* The edges of a call: each enters an operation of the call, from an older
\* node, in the order of the operations.
LinksForward(count, hs, ts) ==
    /\ hs \in Seq(Nat)
    /\ ts \in Seq(made + 1..made + count)
    /\ Len(ts) = Len(hs)
    /\ \A i \in 1..Len(hs) : hs[i] < ts[i]
    /\ \A i, j \in 1..Len(hs) : i <= j => ts[i] <= ts[j]

\* Whether it gets through or raises half-way, a call of the builder keeps its
\* invariant (builder.py lines 74-138, 140-232, 234-297, 325-385).
LEMMA BuildKeeps ==
    ASSUME BInv, NEW count \in Nat, NEW hs, NEW ts, LinksForward(count, hs, ts),
           NEW newHeads \in Seq(1..made + count), Build(count, hs, ts, newHeads)
    PROVE  BInv'
<1> DEFINE linked(k) == k = Len(hs)
           added(k) == IF linked(k) THEN count ELSE ts[k + 1] - made
<1>0. /\ hs \in Seq(Nat) /\ ts \in Seq(made + 1..made + count)
      /\ Len(hs) \in Nat /\ Len(ts) = Len(hs)
      /\ \A i \in 1..Len(hs) : hs[i] \in Nat /\ ts[i] \in made + 1..made + count /\ hs[i] < ts[i]
      /\ \A i, j \in 1..Len(hs) : i <= j => ts[i] <= ts[j]
  <2>1. hs \in Seq(Nat) /\ ts \in Seq(made + 1..made + count) /\ Len(ts) = Len(hs)
    BY DEF LinksForward
  <2>2. ASSUME NEW i \in 1..Len(hs) PROVE hs[i] \in Nat /\ ts[i] \in made + 1..made + count
    BY <2>1, ElementOfSeq
  <2> QED
    BY <2>1, <2>2 DEF LinksForward
<1>1. PICK k \in 0..Len(hs) :
        /\ \A i \in 1..k : hs[i] \in nodes \cup made + 1..made + count
        /\ made + count <= MaxNodes
        /\ AddAll(added(k), SubSeq(hs, 1, k), SubSeq(ts, 1, k), TRUE)
        /\ operations' = Registered(made + 1..made + added(k), linked(k))
        /\ heads' = IF linked(k) THEN newHeads ELSE heads
  BY DEF Build
<1>2. /\ made \in Nat /\ MaxNodes \in Nat /\ nodes \subseteq 1..made
      /\ ends \in Seq(Records) /\ edges \subseteq 1..Len(ends)
  BY GraphConstants DEF BInv, GInv, GraphTypeOK, Records
<1>3. /\ added(k) \in 0..count
      /\ \A i \in 1..k : ts[i] \in made + 1..made + added(k)
  <2>1. CASE linked(k)
    BY <1>0, <1>2, <2>1
  <2>2. CASE ~linked(k)
    <3>1. k + 1 \in 1..Len(hs)
      BY <2>2
    <3>2. ts[k + 1] \in made + 1..made + count
      BY <1>0, <3>1
    <3>3. \A i \in 1..k : ts[i] \in made + 1..made + count /\ ts[i] <= ts[k + 1]
      BY <1>0, <3>1
    <3>4. added(k) = ts[k + 1] - made
      BY <2>2
    <3> HIDE DEF added
    <3> QED
      BY <1>2, <3>2, <3>3, <3>4
  <2> QED
    BY <2>1, <2>2
<1>4. \A i \in 1..k : hs[i] \in nodes \cup made + 1..made + added(k) /\ hs[i] < ts[i]
  <2> TAKE i \in 1..k
  <2>1. hs[i] < ts[i] /\ hs[i] \in nodes \cup made + 1..made + count /\ hs[i] \in Nat
    BY <1>0, <1>1
  <2>2. ts[i] \in made + 1..made + added(k) /\ added(k) \in 0..count
    BY <1>3
  <2> HIDE DEF added
  <2> QED
    BY <1>2, <2>1, <2>2
<1> DEFINE hk == SubSeq(hs, 1, k)
           tk == SubSeq(ts, 1, k)
<1>5. /\ Len(hk) = k /\ Len(tk) = k
      /\ \A i \in 1..k : hk[i] = hs[i] /\ tk[i] = ts[i]
      /\ hk \in Seq(nodes \cup made + 1..made + added(k))
      /\ tk \in Seq(nodes \cup made + 1..made + added(k))
  <2> HIDE DEF added
  <2> QED
    BY <1>0, <1>3, <1>4
<1> HIDE DEF added, hk, tk
<1>6. AddAll(added(k), hk, tk, TRUE)
  BY <1>1 DEF hk, tk
<1>7. made + added(k) <= MaxNodes /\ added(k) \in Nat
  BY <1>1, <1>2, <1>3
<1>8. GInv'
  BY <1>5, <1>6, <1>7, AddAllKeeps DEF BInv
<1>9. /\ ends' = ends \o [i \in 1..k |-> [head |-> hk[i], tail |-> tk[i], holds |-> TRUE]]
      /\ made' = made + added(k)
      /\ nodes' = nodes \cup made + 1..made + added(k)
      /\ edges' = edges \cup Len(ends) + 1..Len(ends) + k
  BY <1>5, <1>6 DEF AddAll
<1>10. NodesAreOperations' /\ operations' \in SUBSET (1..made')
  <2>1. operations' = operations \cup made + 1..made + added(k)
    BY <1>1 DEF Registered
  <2>2. nodes \subseteq operations /\ operations \subseteq 1..made
    BY DEF BInv, NodesAreOperations
  <2>3. made' = made + added(k) /\ nodes' = nodes \cup made + 1..made + added(k)
    BY <1>9
  <2>4. 1..made \subseteq 1..made' /\ made + 1..made + added(k) \subseteq 1..made'
    BY <1>2, <1>7, <2>3
  <2>5. nodes' \subseteq operations'
    BY <2>1, <2>2, <2>3
  <2> QED
    BY <2>1, <2>2, <2>4, <2>5 DEF NodesAreOperations
<1>11. heads' \in Seq(1..made')
  <2>1. CASE linked(k)
    <3>1. made' = made + count /\ heads' = newHeads
      BY <1>1, <1>9, <2>1 DEF added
    <3> QED
      BY <3>1, <1>2
  <2>2. CASE ~linked(k)
    <3>1. heads' = heads /\ heads \in Seq(1..made) /\ 1..made \subseteq 1..made'
      BY <1>1, <1>2, <1>7, <1>9, <2>2 DEF BInv
    <3> QED
      BY <3>1, SeqMonotonic
  <2> QED
    BY <2>1, <2>2
<1>12. OlderFirst'
  <2> DEFINE more == [i \in 1..k |-> [head |-> hk[i], tail |-> tk[i], holds |-> TRUE]]
  <2>1. \A i \in 1..k : more[i].head < more[i].tail
    BY <1>4, <1>5
  <2>2. \A e \in edges : ends[e].head < ends[e].tail
    BY DEF BInv, OlderFirst
  <2>3. ASSUME NEW e \in edges' PROVE ends'[e].head < ends'[e].tail
    <3>1. CASE e \in edges
      <4>1. ends'[e] = ends[e]
        BY <1>2, <1>9, <3>1
      <4> QED
        BY <2>2, <3>1, <4>1
    <3>2. CASE e \in Len(ends) + 1..Len(ends) + k
      <4>1. e - Len(ends) \in 1..k
        BY <1>2, <3>2
      <4>2. ends'[e] = more[e - Len(ends)]
        <5>1. Len(more) = k /\ more \in Seq({more[i] : i \in 1..k}) /\ k \in Nat
          <6>1. k \in Nat
            BY <1>0
          <6>2. more \in [1..k -> {more[i] : i \in 1..k}]
            OBVIOUS
          <6>3. Len(more) = k
            BY <6>1
          <6> HIDE DEF more
          <6> QED
            BY <6>1, <6>2, <6>3, SeqDef
        <5>2. ends' = ends \o more
          BY <1>9
        <5> HIDE DEF more
        <5> QED
          BY <1>2, <3>2, <4>1, <5>1, <5>2
      <4> HIDE DEF more
      <4> QED
        BY <2>1, <4>1, <4>2
    <3> QED
      BY <1>9, <3>1, <3>2
  <2> QED
    BY <2>3 DEF OlderFirst
<1> QED
  BY <1>8, <1>10, <1>11, <1>12 DEF BInv

\* One new operation may be linked from any older nodes.
LEMMA AddOneKeeps ==
    ASSUME BInv, NEW hs \in Seq(0..made), AddOne(hs)
    PROVE  BInv'
<1> DEFINE ts == [i \in 1..Len(hs) |-> Fresh]
<1>1. made \in Nat
  BY GraphConstants DEF BInv, GInv, GraphTypeOK
<1>2. LinksForward(1, hs, ts)
  <2>1. hs \in Seq(Nat) /\ Len(ts) = Len(hs)
    BY <1>1
  <2>2. ts \in Seq(made + 1..made + 1)
    BY <1>1, <2>1 DEF Fresh
  <2>3. ASSUME NEW i \in 1..Len(hs) PROVE hs[i] \in 0..made
    BY ElementOfSeq
  <2>4. \A i \in 1..Len(hs) : ts[i] = made + 1
    BY DEF Fresh
  <2> HIDE DEF ts
  <2> QED
    BY <1>1, <2>1, <2>2, <2>3, <2>4 DEF LinksForward
<1>3. <<Fresh>> \in Seq(1..made + 1)
  BY <1>1 DEF Fresh
<1>4. Build(1, hs, ts, <<Fresh>>)
  BY DEF AddOne
<1> HIDE DEF ts
<1> QED
  BY <1>2, <1>3, <1>4, BuildKeeps

LEMMA RemovalKeeps ==
    ASSUME BInv, OwnerCall, UNCHANGED builderVars
    PROVE  BInv'
<1>1. GInv' /\ ends' = ends /\ made' = made /\ nodes' \subseteq nodes /\ edges' \subseteq edges
  BY RemoveNodeKeeps, RemoveEdgeKeeps DEF BInv, OwnerCall, RemoveNode, RemoveEdge
<1> QED
  BY <1>1 DEF BInv, NodesAreOperations, OlderFirst, builderVars

LEMMA CallKeeps ==
    ASSUME BInv, BuilderCall
    PROVE  BInv'
<1>1. /\ made \in Nat /\ operations \subseteq 0..made /\ 1..made \subseteq 0..made
      /\ heads \in Seq(1..made) /\ heads \in Seq(0..made)
  <2>1. made \in Nat /\ operations \subseteq 1..made /\ heads \in Seq(1..made)
    BY GraphConstants DEF BInv, GInv, GraphTypeOK
  <2>2. 1..made \subseteq 0..made
    BY <2>1
  <2> QED
    BY <2>1, <2>2, SeqMonotonic
<1>2. ASSUME NEW S, S \subseteq 0..made, NEW s \in BoundedSeq(S, 2) PROVE s \in Seq(0..made)
  <2>1. PICK m \in 0..2 : s \in [1..m -> S]
    BY <1>2 DEF BoundedSeq, SeqOf
  <2>2. s \in Seq(S)
    BY <2>1, SeqDef
  <2> QED
    BY <1>2, <2>2, SeqMonotonic
<1>3. ASSUME NEW known \in BoundedSeq(operations, 2), NEW given \in BOOLEAN,
             AddOperation(given, known)
      PROVE  BInv'
  BY <1>1, <1>2, <1>3, AddOneKeeps DEF AddOperation, AutoLinked
<1>4. ASSUME NEW sources \in BoundedSeq(Refs, 2), AddAggregation(sources)
      PROVE  BInv'
  BY <1>1, <1>2, <1>4, AddOneKeeps DEF AddAggregation, Refs
<1>5. ASSUME NEW count \in 0..2, NEW source \in Refs, NEW moves \in BOOLEAN,
             ExpandFromResult(count, source, moves)
      PROVE  BInv'
  <2> DEFINE hs == [i \in 1..count |-> source]
             new == [i \in 1..count |-> made + i]
  <2>1. hs \in [1..count -> Nat] /\ new \in [1..count -> made + 1..made + count]
    BY <1>1 DEF Refs
  <2>2. Len(hs) = count /\ Len(new) = count
    OBVIOUS
  <2>3. \A i \in 1..count : hs[i] = source /\ new[i] = made + i
    OBVIOUS
  <2> HIDE DEF hs, new
  <2>4. hs \in Seq(Nat) /\ new \in Seq(made + 1..made + count) /\ new \in Seq(1..made + count)
    <3>1. made + 1..made + count \subseteq 1..made + count
      BY <1>1
    <3>2. hs \in Seq(Nat)
      BY <2>1, SeqDef, count \in Nat
    <3>3. new \in Seq(made + 1..made + count)
      BY <2>1, SeqDef, count \in Nat
    <3>4. new \in Seq(1..made + count)
      <4> DEFINE S == made + 1..made + count
                 T == 1..made + count
      <4>1. new \in Seq(S) /\ S \subseteq T
        BY <3>1, <3>3
      <4> HIDE DEF S, T
      <4>2. new \in Seq(T)
        BY <4>1, SeqMonotonic
      <4> QED
        BY <4>2 DEF T
    <3> QED
      BY <3>2, <3>3, <3>4
  <2>5. LinksForward(count, hs, new)
    BY <1>1, <2>2, <2>3, <2>4 DEF LinksForward, Refs
  <2>6. heads \in Seq(1..made + count)
    <3>1. 1..made \subseteq 1..made + count
      BY <1>1
    <3> QED
      BY <1>1, <3>1, SeqMonotonic
  <2>7. Build(count, hs, new, IF moves THEN new ELSE heads)
    BY <1>5 DEF ExpandFromResult, hs, new
  <2> QED
    BY <2>4, <2>5, <2>6, <2>7, BuildKeeps
<1>6. ASSUME NEW ways \in 1..2, AddConditionalBranch(ways)
      PROVE  BInv'
  <2> DEFINE branches == [i \in 1..ways |-> Fresh + i]
             checks == [i \in 1..Len(heads) |-> Fresh]
             again == [i \in 1..ways |-> Fresh]
             hs == heads \o again
             ts == checks \o branches
             new == made + 1..made + (ways + 1)
  <2>1. Len(heads) \in Nat /\ Fresh \in new /\ Fresh \in Nat /\ new \subseteq Nat
    BY <1>1 DEF Fresh
  <2>2. /\ Len(branches) = ways /\ Len(checks) = Len(heads) /\ Len(again) = ways
        /\ \A i \in 1..ways : branches[i] = made + 1 + i /\ again[i] = made + 1
        /\ \A i \in 1..Len(heads) : checks[i] = made + 1
    BY <2>1 DEF Fresh
  <2>3. branches \in Seq(new) /\ checks \in Seq(new) /\ again \in Seq(Nat)
    <3>1. \A i \in 1..ways : Fresh + i \in new
      BY <1>1 DEF Fresh
    <3>2. /\ branches \in [1..ways -> new] /\ checks \in [1..Len(heads) -> new]
          /\ again \in [1..ways -> Nat]
      BY <2>1, <3>1
    <3> HIDE DEF branches, checks, again, new
    <3> QED
      BY <2>1, <3>2, SeqDef
  <2>4. heads \in Seq(Nat) /\ \A i \in 1..Len(heads) : heads[i] \in 1..made
    <3>1. 1..made \subseteq Nat
      OBVIOUS
    <3> QED
      BY <1>1, <3>1, SeqMonotonic, ElementOfSeq
  <2> HIDE DEF branches, checks, again, new
  <2>5. /\ hs \in Seq(Nat) /\ Len(hs) = Len(heads) + ways
        /\ \A i \in 1..Len(heads) + ways :
              hs[i] = IF i <= Len(heads) THEN heads[i] ELSE again[i - Len(heads)]
    BY <2>2, <2>3, <2>4, ConcatProperties
  <2>6. /\ ts \in Seq(new) /\ Len(ts) = Len(heads) + ways
        /\ \A i \in 1..Len(heads) + ways :
              ts[i] = IF i <= Len(heads) THEN checks[i] ELSE branches[i - Len(heads)]
    BY <2>2, <2>3, ConcatProperties
  <2> HIDE DEF hs, ts
  <2>7. \A i \in 1..Len(hs) :
            IF i <= Len(heads) THEN ts[i] = made + 1 /\ hs[i] \in 1..made
            ELSE ts[i] = made + 1 + (i - Len(heads)) /\ hs[i] = made + 1
    <3> TAKE i \in 1..Len(hs)
    <3>0. i \in 1..Len(heads) + ways /\ i \in Nat
      BY <2>1, <2>5
    <3>1. CASE i <= Len(heads)
      <4>1. i \in 1..Len(heads)
        BY <2>1, <3>0, <3>1
      <4>2. ts[i] = checks[i] /\ hs[i] = heads[i]
        BY <2>5, <2>6, <3>0, <3>1
      <4> QED
        BY <2>2, <2>4, <3>1, <4>1, <4>2
    <3>2. CASE ~(i <= Len(heads))
      <4>1. i - Len(heads) \in 1..ways
        BY <2>1, <3>0, <3>2
      <4>2. ts[i] = branches[i - Len(heads)] /\ hs[i] = again[i - Len(heads)]
        BY <2>5, <2>6, <3>0, <3>2
      <4> QED
        BY <2>2, <3>2, <4>1, <4>2
    <3> QED
      BY <3>1, <3>2
  <2>8. LinksForward(ways + 1, hs, ts)
    <3>1. \A i \in 1..Len(hs) : hs[i] < ts[i]
      BY <1>1, <2>1, <2>5, <2>7
    <3>2. ASSUME NEW i \in 1..Len(hs), NEW j \in 1..Len(hs), i <= j PROVE ts[i] <= ts[j]
      <4>1. i \in Nat /\ j \in Nat /\ Len(heads) \in Nat /\ made \in Nat
        BY <1>1, <2>1, <2>5
      <4>2. CASE j <= Len(heads)
        BY <2>7, <3>2, <4>1, <4>2
      <4>3. CASE ~(j <= Len(heads)) /\ i <= Len(heads)
        BY <2>7, <4>1, <4>3
      <4>4. CASE ~(i <= Len(heads))
        BY <2>7, <3>2, <4>1, <4>4
      <4> QED
        BY <3>2, <4>1, <4>2, <4>3, <4>4
    <3> QED
      BY <2>5, <2>6, <3>1, <3>2 DEF LinksForward, new
  <2>9. branches \in Seq(1..made + (ways + 1))
    <3>1. new \subseteq 1..made + (ways + 1)
      BY <1>1 DEF new
    <3> QED
      BY <2>3, <3>1, SeqMonotonic
  <2>10. Build(ways + 1, hs, ts, branches)
    BY <1>6 DEF AddConditionalBranch, hs, ts, branches, checks, again
  <2> QED
    BY <2>8, <2>9, <2>10, BuildKeeps
<1> QED
  BY <1>3, <1>4, <1>5, <1>6 DEF BuilderCall

LEMMA BuilderInvariant == Spec => []BInv
<1>1. Init => BInv
  <2> SUFFICES ASSUME Init PROVE BInv
    OBVIOUS
  <2>1. GInv
    BY EmptyGraph DEF Init
  <2> QED
    BY <2>1, EmptySeq DEF Init, GraphInit, BInv, NodesAreOperations, OlderFirst
<1>2. BInv /\ [Next]_vars => BInv'
  <2> SUFFICES ASSUME BInv, [Next]_vars PROVE BInv'
    OBVIOUS
  <2>1. CASE BuilderCall
    BY <2>1, CallKeeps
  <2>2. CASE OwnerCall /\ UNCHANGED builderVars
    BY <2>2, RemovalKeeps
  <2>3. CASE UNCHANGED vars
    <3>1. GInv'
      BY <2>3, StutterKeeps DEF vars, graphVars, BInv
    <3> QED
      BY <2>3, <3>1 DEF vars, graphVars, builderVars, BInv, NodesAreOperations, OlderFirst
  <2> QED
    BY <2>1, <2>2, <2>3 DEF Next
<1> QED
  BY <1>1, <1>2, PTL DEF Spec

\* The builder knows every node of its graph, after any calls and any failures
\* half-way.
THEOREM GraphIsKnown == Spec => []NodesAreOperations
<1>1. BInv => NodesAreOperations
  BY DEF BInv
<1> QED
  BY <1>1, BuilderInvariant, PTL

\* The graph of a builder can be run: its edges lead from older to newer
\* operations, so there is no cycle.
THEOREM EdgesLeadForward == Spec => []OlderFirst
<1>1. BInv => OlderFirst
  BY DEF BInv
<1> QED
  BY <1>1, BuilderInvariant, PTL

-----------------------------------------------------------------------------
(* Numbers *)

\* A set of numbers that is not empty has a smallest one.
LEMMA SmallestIs ==
    ASSUME NEW S \in SUBSET Nat, S # {}
    PROVE  Smallest(S) \in S /\ \A f \in S : Smallest(S) <= f
<1> DEFINE T == {1..n : n \in S}
<1>1. T \subseteq FiniteSubsetsOf(Nat) /\ T # {}
  <2>1. ASSUME NEW n \in S PROVE 1..n \in SUBSET Nat /\ IsFiniteSet(1..n)
    BY FS_Interval
  <2> QED
    BY <2>1 DEF FiniteSubsetsOf
<1>2. PICK I \in T : \A J \in T : <<J, I>> \notin StrictSubsetOrdering(Nat)
  <2> HIDE DEF T
  <2> QED
    BY <1>1, FS_StrictSubsetOrderingWellFounded, WFMin
<1>3. PICK x \in S : I = 1..x
  OBVIOUS
<1>4. ASSUME NEW y \in S, y < x PROVE FALSE
  <2>1. 1..y \in SUBSET Nat /\ 1..x \in SUBSET Nat /\ 1..y \subseteq 1..x /\ 1..y # 1..x
    <3>1. x \in 1..x /\ x \notin 1..y
      BY <1>4
    <3> QED
      BY <1>4, <3>1
  <2>2. <<1..y, 1..x>> \in StrictSubsetOrdering(Nat)
    BY <2>1 DEF StrictSubsetOrdering
  <2> QED
    BY <1>2, <1>3, <2>2
<1>5. \A y \in S : x <= y
  BY <1>4
<1> QED
  BY <1>5 DEF Smallest

-----------------------------------------------------------------------------
(* find_path(): what its calls remember leads back to the start *)

\* up[m] is the way back from m that `parent` tells, for every node visited.
Solves(up, parent) ==
    up = [m \in DOMAIN parent |->
            IF parent[m] = Nobody THEN <<>> ELSE Append(up[ends[parent[m]].head], parent[m])]

\* The edges whose condition holds, whether or not they are still in the graph.
Held == {e \in DOMAIN ends : ends[e].holds}

WalkOver(es, path, from, to) == path \in Seq(es) /\ IsWalk(path, from, to)

Leads(up, parent, from, es) ==
    \A m \in DOMAIN parent : IF m = from THEN up[m] = <<>> ELSE WalkOver(es, up[m], from, m)

\* The nodes visited: each but the first by one of the edges `es`, which comes
\* from another of them, without a circle.
TreeOK(parent, from, es) ==
    /\ DOMAIN parent \subseteq NodeIds
    /\ from \in DOMAIN parent /\ parent[from] = Nobody
    /\ \A m \in DOMAIN parent \ {from} :
          /\ parent[m] \in es
          /\ ends[parent[m]].tail = m
          /\ ends[parent[m]].head \in DOMAIN parent
    /\ \E up : Solves(up, parent)
    /\ \A up : Solves(up, parent) => Leads(up, parent, from, es)

\* The edges that a call may have followed.
Followed(call) == IF call.calm THEN Live ELSE Held

Fields == {"at", "from", "to", "cur", "edge", "todo", "drift", "queue", "parent", "calm"}

\* What a call has between two edges.
VisitOK(call) ==
    /\ DOMAIN call = Fields /\ call.at = "check"
    /\ call.calm \in BOOLEAN
    /\ call.queue \in Seq(DOMAIN call.parent)
    /\ call.to \notin DOMAIN call.parent
    /\ TreeOK(call.parent, call.from, Followed(call))

\* The keys that the iterator has yet to yield, the new ones too, leave `n`,
\* which was visited; it is the current node unless that has been removed.
IterationOK(call, n) ==
    /\ n \in DOMAIN call.parent
    /\ call.cur = n \/ (call.cur = Nobody /\ ~call.calm)
    /\ call.todo \subseteq DOMAIN ends
    /\ \A e \in call.todo : ends[e].head = n

\* While it awaits the condition of an edge.
CallOK(call) ==
    /\ VisitOK(call)
    /\ call.edge \in DOMAIN ends /\ (call.calm => call.edge \in edges)
    /\ IterationOK(call, ends[call.edge].head)
    /\ ends[call.edge].tail \notin DOMAIN call.parent

SearchesOK ==
    /\ DOMAIN search = Searches
    /\ \A s \in Searches : search[s].at = "check" => CallOK(search[s])

LEMMA EdgesAreNumbers ==
    ASSUME GInv
    PROVE  /\ DOMAIN ends \subseteq Nat \ {Nobody}
           /\ \A e \in DOMAIN ends : ends[e] \in Records
<1>1. ends \in Seq(Records)
  BY DEF GInv, GraphTypeOK, Records
<1> QED
  BY <1>1 DEF Nobody

\* The way back of the nodes visited before is the same when one more is.
LEMMA WaysStay ==
    ASSUME GInv, NEW es \in SUBSET DOMAIN ends, NEW parent, NEW from,
           TreeOK(parent, from, es), NEW e \in es,
           ends[e].head \in DOMAIN parent, ends[e].tail \notin DOMAIN parent,
           NEW up, Solves(up, Visited(parent, ends[e].tail, e))
    PROVE  /\ Solves([m \in DOMAIN parent |-> up[m]], parent)
           /\ up[ends[e].tail] = Append(up[ends[e].head], e)
<1> DEFINE t == ends[e].tail
           h == ends[e].head
           grown == Visited(parent, t, e)
           D == DOMAIN parent
           low == [m \in D |-> up[m]]
<1>1. e # Nobody
  BY EdgesAreNumbers
<1>2. /\ DOMAIN grown = D \cup {t} /\ grown[t] = e
      /\ \A m \in D : grown[m] = parent[m] /\ m # t
  BY DEF Visited
<1> HIDE DEF grown
<1>3. \A m \in D : \/ m = from /\ parent[m] = Nobody
                   \/ m # from /\ ends[parent[m]].head \in D
  BY DEF TreeOK
<1>4. \A m \in D \cup {t} :
          up[m] = IF grown[m] = Nobody THEN <<>> ELSE Append(up[ends[grown[m]].head], grown[m])
  <2>1. \A m \in DOMAIN grown :
          up[m] = IF grown[m] = Nobody THEN <<>> ELSE Append(up[ends[grown[m]].head], grown[m])
    BY DEF Solves, grown
  <2> QED
    BY <1>2, <2>1
<1>5. \A m \in D :
          low[m] = IF parent[m] = Nobody THEN <<>> ELSE Append(low[ends[parent[m]].head], parent[m])
  BY <1>2, <1>3, <1>4
<1>6. Solves(low, parent)
  BY <1>5 DEF Solves
<1>7. up[t] = Append(up[h], e)
  BY <1>1, <1>2, <1>4
<1> QED
  BY <1>6, <1>7

\* A node found by an edge that holds extends the tree (lines 424-427).
LEMMA TreeGrows ==
    ASSUME GInv, NEW es \in SUBSET DOMAIN ends, NEW parent, NEW from,
           TreeOK(parent, from, es), NEW e \in es,
           ends[e].head \in DOMAIN parent, ends[e].tail \notin DOMAIN parent
    PROVE  TreeOK(Visited(parent, ends[e].tail, e), from, es)
<1> DEFINE t == ends[e].tail
           h == ends[e].head
           grown == Visited(parent, t, e)
           D == DOMAIN parent
<1>1. /\ ends \in Seq(Records) /\ e \in Nat \ {Nobody} /\ t \in NodeIds
      /\ DOMAIN ends \subseteq Nat \ {Nobody}
  <2>1. ends \in Seq(Records) /\ e \in 1..Len(ends)
    BY DEF GInv, GraphTypeOK, Records
  <2>2. ends[e] \in Records
    BY <2>1
  <2> QED
    BY <2>1, <2>2 DEF Records, Nobody
<1>2. /\ DOMAIN grown = D \cup {t} /\ grown[t] = e
      /\ \A m \in D : grown[m] = parent[m] /\ m # t
  BY DEF Visited
<1> HIDE DEF grown
<1>3. \A m \in D : \/ m = from /\ parent[m] = Nobody
                   \/ /\ m # from /\ parent[m] \in es /\ parent[m] # Nobody
                      /\ ends[parent[m]].tail = m
                      /\ ends[parent[m]].head \in D
  BY <1>1 DEF TreeOK
<1>4. ASSUME NEW up, Solves(up, grown)
      PROVE  Leads(up, grown, from, es)
  <2> DEFINE low == [m \in D |-> up[m]]
  <2>3. Solves(low, parent) /\ up[t] = Append(up[h], e)
    BY <1>4, WaysStay DEF grown
  <2>4. Leads(low, parent, from, es)
    BY <2>3 DEF TreeOK
  <2>5. up[h] = low[h] /\ (h = from => up[h] = <<>>) /\ (h # from => WalkOver(es, up[h], from, h))
    BY <2>4 DEF Leads
  <2>6. up[t] = Append(up[h], e)
    BY <2>3
  <2>7. WalkOver(es, up[t], from, t)
    <3>1. CASE h = from
      <4>1. up[t] = <<e>>
        <5>1. up[h] = <<>>
          BY <2>5, <3>1
        <5>2. Append(<<>>, e) = <<e>>
          OBVIOUS
        <5> QED
          BY <2>6, <5>1, <5>2
      <4> QED
        BY <3>1, <4>1 DEF WalkOver, IsWalk
    <3>2. CASE h # from
      <4> DEFINE w == up[h]
      <4>1. /\ w \in Seq(es) /\ w # <<>>
            /\ ends[w[1]].head = from /\ ends[w[Len(w)]].tail = h
            /\ \A i \in 1..Len(w) - 1 : ends[w[i]].tail = ends[w[i + 1]].head
        BY <2>5, <3>2 DEF WalkOver, IsWalk
      <4>2. Len(w) \in Nat \ {0}
        BY <4>1
      <4> HIDE DEF w
      <4> DEFINE p == Append(w, e)
      <4>3. /\ p \in Seq(es) /\ Len(p) = Len(w) + 1
            /\ p[Len(w) + 1] = e /\ \A i \in 1..Len(w) : p[i] = w[i]
        BY <4>1
      <4> HIDE DEF p
      <4>4. p # <<>> /\ ends[p[1]].head = from /\ ends[p[Len(p)]].tail = t
        BY <4>1, <4>2, <4>3
      <4>5. \A i \in 1..Len(p) - 1 : ends[p[i]].tail = ends[p[i + 1]].head
        <5> TAKE i \in 1..Len(p) - 1
        <5>1. CASE i = Len(w)
          BY <4>1, <4>2, <4>3, <5>1
        <5>2. CASE i # Len(w)
          BY <4>1, <4>2, <4>3, <5>2
        <5> QED
          BY <5>1, <5>2
      <4>7. up[t] = p
        BY <2>6 DEF p, w
      <4> QED
        BY <4>3, <4>4, <4>5, <4>7 DEF WalkOver, IsWalk
    <3> QED
      BY <3>1, <3>2
  <2>8. t # from
    BY DEF TreeOK
  <2>9. \A m \in D : IF m = from THEN up[m] = <<>> ELSE WalkOver(es, up[m], from, m)
    BY <2>4 DEF Leads
  <2> QED
    BY <1>2, <2>7, <2>8, <2>9 DEF Leads
<1>5. \E up : Solves(up, grown)
  <2>1. PICK low : Solves(low, parent)
    BY DEF TreeOK
  <2> DEFINE up == [m \in D \cup {t} |-> IF m = t THEN Append(low[h], e) ELSE low[m]]
  <2>2. \A m \in D :
            low[m] = IF parent[m] = Nobody THEN <<>> ELSE Append(low[ends[parent[m]].head], parent[m])
    BY <2>1 DEF Solves
  <2>3. \A m \in D : up[m] = low[m]
    BY <1>2
  <2>4. up[t] = Append(up[h], e)
    BY <2>3
  <2> HIDE DEF up
  <2>5. \A m \in D \cup {t} :
            up[m] = IF grown[m] = Nobody THEN <<>> ELSE Append(up[ends[grown[m]].head], grown[m])
    <3>1. grown[t] = e /\ e # Nobody /\ ends[e].head = h
      BY <1>1, <1>2
    <3>2. up[t] = IF grown[t] = Nobody THEN <<>> ELSE Append(up[ends[grown[t]].head], grown[t])
      BY <2>4, <3>1
    <3>3. ASSUME NEW m \in D
          PROVE  up[m] = IF grown[m] = Nobody THEN <<>> ELSE Append(up[ends[grown[m]].head], grown[m])
      <4>1. grown[m] = parent[m] /\ up[m] = low[m]
        BY <1>2, <2>3
      <4>2. parent[m] = Nobody \/ low[ends[parent[m]].head] = up[ends[parent[m]].head]
        BY <1>3, <2>3
      <4> QED
        BY <2>2, <4>1, <4>2
    <3> QED
      BY <3>2, <3>3
  <2>6. up = [m \in D \cup {t} |-> up[m]]
    BY DEF up
  <2>7. Solves(up, grown)
    BY <1>2, <2>5, <2>6 DEF Solves
  <2> QED
    BY <2>7
<1>6. t # from
  BY DEF TreeOK
<1>7. /\ DOMAIN grown \subseteq NodeIds
      /\ from \in DOMAIN grown /\ grown[from] = Nobody
      /\ \A m \in DOMAIN grown \ {from} :
          /\ grown[m] \in es
          /\ ends[grown[m]].tail = m
          /\ ends[grown[m]].head \in DOMAIN grown
  BY <1>1, <1>2, <1>3, <1>6 DEF TreeOK
<1>8. TreeOK(grown, from, es)
  BY <1>4, <1>5, <1>7 DEF TreeOK
<1> QED
  BY <1>8 DEF grown

\* A call that looks for its next edge goes on as it should, or ends without a path.
GoesOn(call) == IF call.at = "check" THEN CallOK(call) ELSE call.at \in {"none", "error"}

\* The iterator yields a key (lines 420-423).
LEMMA YieldOK ==
    ASSUME GInv, NEW call, VisitOK(call), NEW ids \in SUBSET DOMAIN ends,
           NEW n \in DOMAIN call.parent, call.cur = n \/ (call.cur = Nobody /\ ~call.calm),
           \A e \in ids : ends[e].head = n, Stops(ids, call.parent) # {}
    PROVE  GoesOn(Yield(call, ids))
<1> DEFINE e == Smallest(Stops(ids, call.parent))
           next == [call EXCEPT !.edge = e, !.todo = {f \in ids : f > e}]
<1>1. Stops(ids, call.parent) \in SUBSET Nat /\ Stops(ids, call.parent) \subseteq ids
  BY EdgesAreNumbers DEF Stops
<1>2. e \in Stops(ids, call.parent)
  BY <1>1, SmallestIs
<1> HIDE DEF e
<1>3. CASE e \notin edges
  <2>1. Yield(call, ids) = Ended(call, "error", <<>>)
    BY <1>3 DEF Yield, e
  <2> QED
    BY <2>1 DEF Ended, GoesOn
<1>4. CASE e \in edges
  <2>1. Yield(call, ids) = next
    BY <1>4 DEF Yield, e
  <2>2. /\ DOMAIN next = Fields /\ next.edge = e /\ next.todo = {f \in ids : f > e}
        /\ \A f \in Fields \ {"edge", "todo"} : next[f] = call[f]
    BY DEF VisitOK, Fields
  <2>3. e \in ids /\ ends[e].tail \notin DOMAIN call.parent
    BY <1>1, <1>2, <1>4 DEF Stops
  <2> HIDE DEF next
  <2>4. /\ VisitOK(next) /\ next.at = "check" /\ next.cur = call.cur /\ next.parent = call.parent
        /\ next.calm = call.calm
    BY <2>2 DEF VisitOK, Followed, Fields
  <2>5. CallOK(next)
    BY <1>4, <2>2, <2>3, <2>4 DEF CallOK, IterationOK
  <2> QED
    BY <2>1, <2>4, <2>5 DEF GoesOn
<1> QED
  BY <1>3, <1>4

\* The next nodes of the queue (lines 415-420).
LEMMA NextNodeOK ==
    ASSUME GInv, NEW call, VisitOK(call)
    PROVE  GoesOn(NextNode(call))
<1> DEFINE open == {i \in DOMAIN call.queue : \/ call.queue[i] \notin mapped
                                              \/ Stops(out[call.queue[i]], call.parent) # {}}
           i == Smallest(open)
           n == call.queue[i]
           next == [call EXCEPT !.cur = n, !.drift = 0,
                                !.queue = SubSeq(@, i + 1, Len(@))]
<1>1. CASE open = {}
  <2>1. NextNode(call) = Ended(call, "none", <<>>)
    BY <1>1 DEF NextNode
  <2> QED
    BY <2>1 DEF Ended, GoesOn
<1>2. CASE open # {}
  <2>1. i \in open /\ i \in 1..Len(call.queue) /\ n \in DOMAIN call.parent
    <3>1. open \in SUBSET Nat /\ open \subseteq 1..Len(call.queue)
      BY DEF VisitOK
    <3>2. i \in open
      <4> HIDE DEF open
      <4> QED
        BY <1>2, <3>1, SmallestIs
    <3>3. call.queue \in Seq(DOMAIN call.parent)
      BY DEF VisitOK
    <3> HIDE DEF open, i
    <3> QED
      BY <3>1, <3>2, <3>3
  <2>2. CASE n \notin mapped
    <3>1. NextNode(call) = Ended(call, "error", <<>>)
      BY <1>2, <2>2 DEF NextNode
    <3> QED
      BY <3>1 DEF Ended, GoesOn
  <2>3. CASE n \in mapped
    <3>1. NextNode(call) = Yield(next, out[n])
      BY <1>2, <2>3 DEF NextNode
    <3>2. Stops(out[n], call.parent) # {}
      BY <2>1, <2>3
    <3> HIDE DEF open, i, n
    <3>3. /\ DOMAIN next = Fields /\ next.cur = n
          /\ next.queue = SubSeq(call.queue, i + 1, Len(call.queue))
          /\ \A f \in Fields \ {"cur", "drift", "queue"} : next[f] = call[f]
      BY DEF VisitOK, Fields
    <3> HIDE DEF next
    <3>4. SubSeq(call.queue, i + 1, Len(call.queue)) \in Seq(DOMAIN call.parent)
      <4>1. call.queue \in Seq(DOMAIN call.parent) /\ i \in 1..Len(call.queue)
        BY <2>1 DEF VisitOK
      <4>2. ASSUME NEW S, NEW q \in Seq(S), NEW k \in 1..Len(q)
            PROVE  SubSeq(q, k + 1, Len(q)) \in Seq(S)
        OBVIOUS
      <4> QED
        BY <4>1, <4>2
    <3>5. VisitOK(next)
      BY <3>3, <3>4 DEF VisitOK, Followed, Fields
    <3>6. n \in NodeIds /\ out[n] \in SUBSET DOMAIN ends /\ \A e \in out[n] : ends[e].head = n
      BY <2>1 DEF VisitOK, TreeOK, GInv, GraphTypeOK, AdjacencyMirrorsEdges
    <3>7. next.cur = n /\ next.parent = call.parent
      BY <3>3 DEF Fields
    <3> QED
      BY <2>1, <3>1, <3>2, <3>5, <3>6, <3>7, YieldOK
  <2> QED
    BY <2>2, <2>3
<1> QED
  BY <1>1, <1>2

\* The next key, or the next nodes (line 420).
LEMMA ContinueOK ==
    ASSUME GInv, NEW call, VisitOK(call), NEW n, IterationOK(call, n)
    PROVE  GoesOn(Continue(call))
<1>1. CASE call.drift # 0
  BY <1>1 DEF Continue, Ended, GoesOn
<1>2. CASE call.drift = 0 /\ Stops(call.todo, call.parent) # {}
  <2>1. Continue(call) = Yield(call, call.todo)
    BY <1>2 DEF Continue
  <2> QED
    BY <1>2, <2>1, YieldOK DEF IterationOK
<1>3. CASE call.drift = 0 /\ Stops(call.todo, call.parent) = {}
  <2>1. Continue(call) = NextNode(call)
    BY <1>3 DEF Continue
  <2> QED
    BY <2>1, NextNodeOK
<1> QED
  BY <1>1, <1>2, <1>3

\* A new call has visited where it starts (lines 402-414).
LEMMA StartOK ==
    ASSUME NEW from \in NodeIds, NEW es
    PROVE  TreeOK([n \in {from} |-> Nobody], from, es)
<1> DEFINE parent == [n \in {from} |-> Nobody]
<1>1. ASSUME NEW up, Solves(up, parent) PROVE Leads(up, parent, from, es)
  BY <1>1 DEF Solves, Leads
<1>2. Solves([m \in {from} |-> <<>>], parent)
  BY DEF Solves
<1> QED
  BY <1>1, <1>2 DEF TreeOK

LEMMA FoundOK ==
    ASSUME GInv, NEW call, CallOK(call), ends[call.edge].holds
    PROVE  LET found == Found(call, call.edge)
               t == ends[call.edge].tail
           IN  /\ TreeOK(found.parent, call.from, Followed(call))
               /\ found.parent = Visited(call.parent, t, call.edge)
               /\ DOMAIN found.parent = DOMAIN call.parent \cup {t}
               /\ DOMAIN found = Fields /\ found.queue = Append(call.queue, t)
               /\ \A f \in Fields \ {"parent", "queue"} : found[f] = call[f]
<1> DEFINE e == call.edge
           t == ends[e].tail
           found == Found(call, e)
<1>1. /\ DOMAIN found = Fields /\ found.parent = Visited(call.parent, t, e)
      /\ found.queue = Append(call.queue, t)
      /\ \A f \in Fields \ {"parent", "queue"} : found[f] = call[f]
  BY DEF Found, CallOK, VisitOK, Fields
<1>2. e \in Followed(call) /\ Followed(call) \in SUBSET DOMAIN ends
  BY DEF CallOK, Followed, Live, Held, GInv, GraphTypeOK
<1>3. TreeOK(found.parent, call.from, Followed(call))
  BY <1>1, <1>2, TreeGrows DEF CallOK, VisitOK, IterationOK
<1>4. DOMAIN found.parent = DOMAIN call.parent \cup {t}
  BY <1>1 DEF Visited
<1> QED
  BY <1>1, <1>3, <1>4

\* What the way back is when the end is found (lines 428-439).
LEMMA WayBack ==
    ASSUME NEW parent, NEW from, NEW es, TreeOK(parent, from, es),
           NEW to \in DOMAIN parent \ {from}
    PROVE  WalkOver(es, PathTo(parent, to), from, to)
<1>1. PICK up : Solves(up, parent)
  BY DEF TreeOK
<1> DEFINE way == CHOOSE up1 : up1 = [m \in DOMAIN parent |->
                    IF parent[m] = Nobody THEN <<>> ELSE Append(up1[ends[parent[m]].head], parent[m])]
<1>2. Solves(way, parent)
  BY <1>1 DEF Solves
<1>3. PathTo(parent, to) = way[to]
  BY DEF PathTo
<1> HIDE DEF way
<1>4. Leads(way, parent, from, es)
  BY <1>2 DEF TreeOK
<1> QED
  BY <1>3, <1>4 DEF Leads

\* A change makes no way back longer or shorter, and leaves no calm.
LEMMA TreeStays ==
    ASSUME GInv, NEW parent, NEW from, NEW es \in SUBSET Held, TreeOK(parent, from, es),
           \A e \in DOMAIN ends : e \in DOMAIN ends' /\ ends'[e] = ends[e]
    PROVE  TreeOK(parent, from, Held)'
<1>1. \A m \in DOMAIN parent : parent[m] # Nobody => parent[m] \in DOMAIN ends
  BY DEF TreeOK, Held
<1>2. ASSUME NEW up
      PROVE  Solves(up, parent) <=> Solves(up, parent)'
  <2>1. \A m \in DOMAIN parent :
            (IF parent[m] = Nobody THEN <<>> ELSE Append(up[ends[parent[m]].head], parent[m]))
            = (IF parent[m] = Nobody THEN <<>> ELSE Append(up[ends'[parent[m]].head], parent[m]))
    BY <1>1
  <2>2. [m \in DOMAIN parent |->
            IF parent[m] = Nobody THEN <<>> ELSE Append(up[ends[parent[m]].head], parent[m])]
        = [m \in DOMAIN parent |->
            IF parent[m] = Nobody THEN <<>> ELSE Append(up[ends'[parent[m]].head], parent[m])]
    BY <2>1
  <2> QED
    BY <2>2 DEF Solves
<1>3. es \subseteq Held'
  BY DEF Held
<1>4. ASSUME NEW path, NEW m, WalkOver(es, path, from, m)
      PROVE  WalkOver(Held, path, from, m)'
  <2>1. /\ path \in Seq(es) /\ path # <<>>
        /\ ends[path[1]].head = from /\ ends[path[Len(path)]].tail = m
        /\ \A i \in 1..Len(path) - 1 : ends[path[i]].tail = ends[path[i + 1]].head
    BY <1>4 DEF WalkOver, IsWalk
  <2>2. Len(path) \in Nat \ {0} /\ \A i \in 1..Len(path) : path[i] \in es
    BY <2>1
  <2>3. \A i \in 1..Len(path) : ends'[path[i]] = ends[path[i]]
    BY <2>2 DEF Held
  <2>4. path \in Seq(Held')
    BY <1>3, <2>1
  <2>5. /\ ends'[path[1]].head = from /\ ends'[path[Len(path)]].tail = m
        /\ \A i \in 1..Len(path) - 1 : ends'[path[i]].tail = ends'[path[i + 1]].head
    BY <2>1, <2>2, <2>3
  <2> QED
    BY <2>1, <2>4, <2>5 DEF WalkOver, IsWalk
<1>5. \A up : Solves(up, parent)' => Leads(up, parent, from, Held)'
  BY <1>2, <1>4 DEF TreeOK, Leads
<1>6. \E up : Solves(up, parent)'
  BY <1>2 DEF TreeOK
<1>7. /\ DOMAIN parent \subseteq NodeIds
      /\ from \in DOMAIN parent /\ parent[from] = Nobody
      /\ \A m \in DOMAIN parent \ {from} :
          /\ parent[m] \in Held'
          /\ ends'[parent[m]].tail = m
          /\ ends'[parent[m]].head \in DOMAIN parent
  BY <1>1, <1>3 DEF TreeOK, Held
<1> QED
  BY <1>5, <1>6, <1>7 DEF TreeOK, NodeIds

LEMMA FollowOK ==
    ASSUME GInv, NEW call, call.at = "check", CallOK(call), NEW now, NEW gone,
           \A e \in DOMAIN ends : e \in DOMAIN ends' /\ ends'[e] = ends[e],
           \A n \in NodeIds : \A e \in now[n] : e \in DOMAIN ends' /\ ends'[e].head = n,
           NEW next, next = IF call.cur = Nobody THEN call
                            ELSE Follow(call, out[call.cur], now[call.cur], gone)
    PROVE  next.at = "check" /\ CallOK(next)'
<1> DEFINE h == ends[call.edge].head
<1>1. /\ VisitOK(call) /\ call.edge \in DOMAIN ends /\ IterationOK(call, h)
      /\ ends[call.edge].tail \notin DOMAIN call.parent
      /\ call.edge \in DOMAIN ends' /\ ends'[call.edge] = ends[call.edge]
  BY DEF CallOK
<1>2. TreeOK(call.parent, call.from, Held)'
  <2>1. PICK es : es = Followed(call)
    OBVIOUS
  <2>2. es \in SUBSET Held
    BY <2>1 DEF Followed, Live, Held, GInv, GraphTypeOK
  <2>3. PICK parent, from : parent = call.parent /\ from = call.from
    OBVIOUS
  <2>4. TreeOK(parent, from, es)
    BY <1>1, <2>1, <2>3 DEF VisitOK
  <2>5. TreeOK(parent, from, Held)'
    BY <2>2, <2>4, TreeStays
  <2> QED
    BY <2>3, <2>5
<1>3. CASE call.cur = Nobody
  <2>1. next = call /\ ~call.calm
    BY <1>1, <1>3 DEF IterationOK, TreeOK, VisitOK, NodeIds, Nobody
  <2>2. Followed(next)' = Held'
    BY <2>1 DEF Followed
  <2>3. VisitOK(next)'
    BY <1>1, <1>2, <2>1, <2>2 DEF VisitOK, Fields
  <2>4. \A e \in call.todo : ends'[e].head = ends'[call.edge].head /\ e \in DOMAIN ends'
    BY <1>1 DEF IterationOK
  <2>5. IterationOK(next, ends[next.edge].head)'
    BY <1>1, <2>1, <2>4 DEF IterationOK
  <2> QED
    BY <1>1, <2>1, <2>3, <2>5 DEF CallOK
<1>4. CASE call.cur # Nobody
  <2> DEFINE was == out[call.cur]
             is == now[call.cur]
  <2>1. next = Follow(call, was, is, gone)
    BY <1>4
  <2>2. call.cur = h /\ h \in NodeIds
    BY <1>1, <1>4 DEF IterationOK, VisitOK, TreeOK
  <2>3. /\ DOMAIN next = Fields
        /\ next.cur = (IF call.cur \in gone THEN Nobody ELSE call.cur)
        /\ next.todo = (call.todo \ (was \ is)) \cup (is \ was)
        /\ next.calm = FALSE
        /\ next.at = call.at /\ next.queue = call.queue /\ next.parent = call.parent
        /\ next.to = call.to /\ next.from = call.from /\ next.edge = call.edge
    <3> HIDE DEF was, is
    <3> QED
      BY <1>1, <2>1 DEF Follow, VisitOK, Fields
  <2>4. Followed(next)' = Held'
    BY <2>3 DEF Followed
  <2>5. VisitOK(next)'
    BY <1>1, <1>2, <2>3, <2>4 DEF VisitOK
  <2>6. ASSUME NEW e \in next.todo PROVE e \in DOMAIN ends' /\ ends'[e].head = h
    <3>1. CASE e \in call.todo
      BY <1>1, <3>1 DEF IterationOK
    <3>2. CASE e \in is
      BY <2>2, <3>2
    <3> QED
      BY <2>3, <3>1, <3>2
  <2>7. IterationOK(next, ends[next.edge].head)'
    BY <1>1, <2>2, <2>3, <2>6 DEF IterationOK
  <2> QED
    BY <1>1, <2>3, <2>5, <2>7 DEF CallOK
<1> QED
  BY <1>3, <1>4

LEMMA IteratorsFollowOK ==
    ASSUME GInv, SearchesOK, NEW now, NEW gone, IteratorsFollow(now, gone),
           \A e \in DOMAIN ends : e \in DOMAIN ends' /\ ends'[e] = ends[e],
           \A n \in NodeIds : \A e \in now[n] : e \in DOMAIN ends' /\ ends'[e].head = n
    PROVE  SearchesOK' /\ \A s \in Searches : search'[s].at \in {"idle", "check"}
<1>1. /\ DOMAIN search' = Searches
      /\ \A s \in Searches : search'[s] =
            IF search[s].at # "check" THEN Idle
            ELSE IF search[s].cur = Nobody THEN search[s]
            ELSE Follow(search[s], out[search[s].cur], now[search[s].cur], gone)
  BY DEF IteratorsFollow
<1>2. ASSUME NEW s \in Searches
      PROVE  (search'[s].at = "check" => CallOK(search[s])') /\ search'[s].at \in {"idle", "check"}
  <2>1. CASE search[s].at # "check"
    BY <1>1, <2>1 DEF Idle
  <2>2. CASE search[s].at = "check"
    <3>1. PICK call, next : call = search[s] /\ next = search'[s]
      OBVIOUS
    <3>2. CallOK(call) /\ call.at = "check"
      BY <2>2, <3>1 DEF SearchesOK
    <3>3. next = IF call.cur = Nobody THEN call
                 ELSE Follow(call, out[call.cur], now[call.cur], gone)
      BY <1>1, <2>2, <3>1
    <3>4. next.at = "check" /\ CallOK(next)'
      BY <3>2, <3>3, FollowOK
    <3> QED
      BY <3>1, <3>4
  <2> QED
    BY <2>1, <2>2
<1> QED
  BY <1>1, <1>2 DEF SearchesOK

\* A path that is returned: a walk over edges that hold and are in the graph.
PathOK(call) ==
    /\ IsWalk(call.path, call.from, call.to)
    /\ \A i \in DOMAIN call.path : call.path[i] \in edges /\ ends[call.path[i]].holds

\* After the condition of an edge the call goes on, raises, or returns a path
\* (lines 424-440).
LEMMA CheckedOK ==
    ASSUME GInv, NEW call, call.at = "check", CallOK(call),
           NEW next, next = LET found == Found(call, call.edge)
                            IN  IF ~ends[call.edge].holds THEN Continue(PassedOver(call, call.edge))
                                ELSE IF ends[call.edge].tail = call.to THEN Arrived(found)
                                ELSE Continue(found)
    PROVE  GoesOn(next) \/ (next.at = "path" /\ PathOK(next))
<1> DEFINE e == call.edge
           t == ends[e].tail
           h == ends[e].head
           found == Found(call, e)
<1>1. VisitOK(call) /\ IterationOK(call, h) /\ t \notin DOMAIN call.parent
  BY DEF CallOK
<1>2. CASE ~ends[e].holds
  <2>1. next = Continue(call)
    BY <1>2 DEF PassedOver
  <2> QED
    BY <1>1, <2>1, ContinueOK
<1>3. CASE ends[e].holds /\ t # call.to
  <2>1. next = Continue(found)
    BY <1>3
  <2>2. /\ TreeOK(found.parent, call.from, Followed(call))
        /\ DOMAIN found.parent = DOMAIN call.parent \cup {t}
        /\ DOMAIN found = Fields /\ found.queue = Append(call.queue, t)
        /\ \A f \in Fields \ {"parent", "queue"} : found[f] = call[f]
    BY <1>3, FoundOK
  <2> HIDE DEF found
  <2>3. /\ found.at = call.at /\ found.from = call.from /\ found.to = call.to
        /\ found.cur = call.cur /\ found.todo = call.todo /\ found.calm = call.calm
    BY <2>2 DEF Fields
  <2>4. found.queue \in Seq(DOMAIN found.parent)
    <3>1. call.queue \in Seq(DOMAIN found.parent) /\ t \in DOMAIN found.parent
      BY <1>1, <2>2 DEF VisitOK
    <3> QED
      BY <2>2, <3>1
  <2>5. VisitOK(found)
    BY <1>1, <1>3, <2>2, <2>3, <2>4 DEF VisitOK, Followed
  <2>6. IterationOK(found, h)
    BY <1>1, <2>2, <2>3 DEF IterationOK
  <2> QED
    BY <2>1, <2>5, <2>6, ContinueOK
<1>4. CASE ends[e].holds /\ t = call.to
  <2> DEFINE path == PathTo(found.parent, found.to)
  <2>1. next = Arrived(found)
    BY <1>4
  <2>2. /\ TreeOK(found.parent, call.from, Followed(call))
        /\ DOMAIN found.parent = DOMAIN call.parent \cup {t}
        /\ DOMAIN found = Fields
        /\ found.from = call.from /\ found.to = call.to
    BY <1>4, FoundOK DEF Fields
  <2>3. call.to \in DOMAIN found.parent \ {call.from}
    BY <1>1, <1>4, <2>2 DEF VisitOK, TreeOK
  <2> HIDE DEF found
  <2>4. WalkOver(Followed(call), path, call.from, call.to)
    BY <2>2, <2>3, WayBack
  <2>5. CASE \A i \in DOMAIN path : path[i] \in edges
    <3>1. next = Ended(found, "path", path)
      BY <2>1, <2>5 DEF Arrived
    <3>2. next.at = "path" /\ next.path = path /\ next.from = call.from /\ next.to = call.to
      BY <2>2, <3>1 DEF Ended
    <3> HIDE DEF path
    <3>3. path \in Seq(Held) /\ IsWalk(path, call.from, call.to)
      BY <2>4 DEF WalkOver, Followed, Live, Held, GInv, GraphTypeOK
    <3>4. \A i \in DOMAIN path : path[i] \in Held
      BY <3>3
    <3> QED
      BY <2>5, <3>2, <3>3, <3>4 DEF PathOK, Held
  <2>6. CASE ~\A i \in DOMAIN path : path[i] \in edges
    <3>1. next = Ended(found, "error", <<>>)
      BY <2>1, <2>6 DEF Arrived
    <3> QED
      BY <3>1 DEF Ended, GoesOn
  <2> QED
    BY <2>5, <2>6
<1> QED
  BY <1>2, <1>3, <1>4

\* A call that starts goes on too (lines 395-420).
LEMMA FindPathOK ==
    ASSUME GInv, NEW from \in nodes, NEW to \in nodes, from # to
    PROVE  GoesOn(NextNode([at |-> "check", from |-> from, to |-> to, cur |-> from,
                            edge |-> Nobody, todo |-> {}, drift |-> 0, queue |-> <<from>>,
                            parent |-> [n \in {from} |-> Nobody], calm |-> TRUE]))
<1> DEFINE call == [at |-> "check", from |-> from, to |-> to, cur |-> from,
                    edge |-> Nobody, todo |-> {}, drift |-> 0, queue |-> <<from>>,
                    parent |-> [n \in {from} |-> Nobody], calm |-> TRUE]
<1>1. /\ DOMAIN call = Fields /\ call.at = "check" /\ call.from = from /\ call.to = to
      /\ call.queue = <<from>> /\ call.calm = TRUE
      /\ call.parent = [n \in {from} |-> Nobody]
  BY DEF Fields
<1>2. from \in NodeIds
  BY GraphConstants DEF GInv, GraphTypeOK, NodeIds
<1>3. TreeOK(call.parent, call.from, Followed(call))
  BY <1>1, <1>2, StartOK
<1> HIDE DEF call
<1>4. VisitOK(call)
  <2>1. DOMAIN call.parent = {from} /\ <<from>> \in Seq({from})
    BY <1>1
  <2>2. call.queue \in Seq(DOMAIN call.parent)
    BY <1>1, <2>1
  <2>3. call.to \notin DOMAIN call.parent /\ call.calm \in BOOLEAN
    BY <1>1, <2>1
  <2> QED
    BY <1>1, <1>3, <2>2, <2>3 DEF VisitOK
<1>5. GoesOn(NextNode(call))
  BY <1>4, NextNodeOK
<1> QED
  BY <1>5 DEF call

GraphUnchanged == UNCHANGED <<ends, made, nodes, edges, mapped, in, out>>

LEMMA SameGraph ==
    ASSUME GraphUnchanged, NEW call, CallOK(call)
    PROVE  CallOK(call)'
<1>1. Live' = Live /\ Held' = Held /\ NodeIds' = NodeIds
  BY DEF GraphUnchanged, Live, Held, NodeIds
<1>2. Followed(call)' = Followed(call)
  BY <1>1 DEF Followed
<1>3. ASSUME NEW up PROVE Solves(up, call.parent)' <=> Solves(up, call.parent)
  BY DEF GraphUnchanged, Solves
<1>4. ASSUME NEW es, NEW up
      PROVE  Leads(up, call.parent, call.from, es)' <=> Leads(up, call.parent, call.from, es)
  BY DEF GraphUnchanged, Leads, WalkOver, IsWalk
<1>5. ASSUME NEW es, TreeOK(call.parent, call.from, es)
      PROVE  TreeOK(call.parent, call.from, es)'
  BY <1>1, <1>3, <1>4, <1>5 DEF GraphUnchanged, TreeOK
<1>6. VisitOK(call)'
  <2>1. PICK es : es = Followed(call)
    OBVIOUS
  <2>2. TreeOK(call.parent, call.from, es)'
    BY <1>5, <2>1 DEF CallOK, VisitOK
  <2>3. TreeOK(call.parent, call.from, Followed(call))'
    BY <1>2, <2>1, <2>2
  <2> QED
    BY <2>3 DEF CallOK, VisitOK
<1> QED
  BY <1>6 DEF GraphUnchanged, CallOK, IterationOK

\* What every change leaves of the edges and of the dicts (lines 91-168).
LEMMA ChangeOK ==
    ASSUME GInv, GInv', SearchesOK, Change
    PROVE  SearchesOK' /\ \A s \in Searches : search'[s].at \in {"idle", "check"}
<1>1. \A n \in NodeIds : /\ out[n] \subseteq DOMAIN ends /\ \A e \in out[n] : ends[e].head = n
                         /\ out'[n] \subseteq DOMAIN ends' /\ \A e \in out'[n] : ends'[e].head = n
  BY DEF GInv, GraphTypeOK, AdjacencyMirrorsEdges, NodeIds
<1>2. ASSUME NEW count, NEW hs, NEW ts, Len(hs) \in Nat, NEW holds, AddAll(count, hs, ts, holds)
      PROVE  SearchesOK' /\ \A s \in Searches : search'[s].at \in {"idle", "check"}
  <2>1. IteratorsFollow(out', {})
    BY <1>2 DEF AddAll
  <2> DEFINE added == [i \in 1..Len(hs) |-> [head |-> hs[i], tail |-> ts[i], holds |-> holds]]
  <2>2. ends' = ends \o added /\ Len(added) = Len(hs) /\ ends \in Seq(Records)
    BY <1>2 DEF AddAll, GInv, GraphTypeOK, Records
  <2>3. \A e \in DOMAIN ends : e \in DOMAIN ends' /\ ends'[e] = ends[e]
    <3> HIDE DEF added
    <3> QED
      BY <1>2, <2>2
  <2>4. PICK now : now = out'
    OBVIOUS
  <2> QED
    BY <1>1, <2>1, <2>3, <2>4, IteratorsFollowOK
<1>3. CASE AddNode
  BY <1>2, <1>3 DEF AddNode
<1>4. ASSUME NEW h \in nodes, NEW t \in nodes, NEW holds \in BOOLEAN, AddEdge(h, t, holds)
      PROVE  SearchesOK' /\ \A s \in Searches : search'[s].at \in {"idle", "check"}
  BY <1>2, <1>4 DEF AddEdge
<1>5. ASSUME NEW n \in nodes, RemoveNode(n)
      PROVE  SearchesOK' /\ \A s \in Searches : search'[s].at \in {"idle", "check"}
  <2> DEFINE now == [m \in NodeIds |-> out[m] \ in[n]]
  <2>1. IteratorsFollow(now, {n}) /\ ends' = ends
    BY <1>5 DEF RemoveNode
  <2>2. \A m \in NodeIds : \A e \in now[m] : e \in DOMAIN ends' /\ ends'[e].head = m
    BY <1>1, <2>1
  <2> HIDE DEF now
  <2> QED
    BY <2>1, <2>2, IteratorsFollowOK
<1>6. ASSUME NEW f \in edges, RemoveEdge(f)
      PROVE  SearchesOK' /\ \A s \in Searches : search'[s].at \in {"idle", "check"}
  <2> DEFINE now == [m \in NodeIds |-> out[m] \ {f}]
  <2>1. IteratorsFollow(now, {}) /\ ends' = ends
    BY <1>6 DEF RemoveEdge
  <2>2. \A m \in NodeIds : \A e \in now[m] : e \in DOMAIN ends' /\ ends'[e].head = m
    BY <1>1, <2>1
  <2> HIDE DEF now
  <2> QED
    BY <2>1, <2>2, IteratorsFollowOK
<1> QED
  BY <1>3, <1>4, <1>5, <1>6 DEF Change

LEMMA SearchOK ==
    ASSUME GInv, SearchesOK, Search
    PROVE  /\ SearchesOK' /\ GraphUnchanged
           /\ \A s \in Searches : search'[s].at = "path" /\ search[s].at # "path" => PathOK(search'[s])
<1>1. ASSUME GraphUnchanged, NEW s \in Searches, NEW next, search' = [search EXCEPT ![s] = next],
             GoesOn(next) \/ (next.at = "path" /\ PathOK(next))
      PROVE  /\ SearchesOK'
             /\ \A r \in Searches : search'[r].at = "path" /\ search[r].at # "path" => PathOK(search'[r])
  <2>1. DOMAIN search' = Searches /\ \A r \in Searches : search'[r] = IF r = s THEN next ELSE search[r]
    BY <1>1 DEF SearchesOK
  <2>2. ASSUME NEW r \in Searches, search'[r].at = "check"
        PROVE  CallOK(search[r])'
    <3>1. PICK call : call = search'[r]
      OBVIOUS
    <3>2. CallOK(call)
      BY <1>1, <2>1, <2>2, <3>1 DEF GoesOn, SearchesOK
    <3>3. CallOK(call)'
      BY <1>1, <3>2, SameGraph
    <3> QED
      BY <3>1, <3>3
  <2>3. ASSUME NEW r \in Searches, search'[r].at = "path", search[r].at # "path"
        PROVE  PathOK(search'[r])
    <3>1. r = s
      BY <2>1, <2>3
    <3>2. search'[r] = next
      BY <2>1, <3>1
    <3>3. ~GoesOn(next)
      BY <2>3, <3>2 DEF GoesOn
    <3> QED
      BY <1>1, <3>2, <3>3
  <2> QED
    BY <2>1, <2>2, <2>3 DEF SearchesOK
<1>2. ASSUME NEW s \in Searches, NEW from \in nodes, NEW to \in nodes, FindPath(s, from, to)
      PROVE  /\ SearchesOK' /\ GraphUnchanged
             /\ \A r \in Searches : search'[r].at = "path" /\ search[r].at # "path" => PathOK(search'[r])
  <2> DEFINE next == NextNode([at |-> "check", from |-> from, to |-> to, cur |-> from,
                               edge |-> Nobody, todo |-> {}, drift |-> 0, queue |-> <<from>>,
                               parent |-> [n \in {from} |-> Nobody], calm |-> TRUE])
  <2>1. search' = [search EXCEPT ![s] = next] /\ from # to /\ GraphUnchanged
    BY <1>2 DEF FindPath, GraphUnchanged
  <2>2. GoesOn(next)
    BY <2>1, FindPathOK
  <2> HIDE DEF next
  <2>3. PICK nx : nx = next
    OBVIOUS
  <2> QED
    BY <1>1, <2>1, <2>2, <2>3
<1>3. ASSUME NEW s \in Searches, Checked(s)
      PROVE  /\ SearchesOK' /\ GraphUnchanged
             /\ \A r \in Searches : search'[r].at = "path" /\ search[r].at # "path" => PathOK(search'[r])
  <2>1. PICK call : call = search[s]
    OBVIOUS
  <2> DEFINE nx == LET found == Found(call, call.edge)
                   IN  IF ~ends[call.edge].holds THEN Continue(PassedOver(call, call.edge))
                       ELSE IF ends[call.edge].tail = call.to THEN Arrived(found)
                       ELSE Continue(found)
  <2>2. GraphUnchanged /\ call.at = "check" /\ search' = [search EXCEPT ![s] = nx]
    BY <1>3, <2>1 DEF Checked, GraphUnchanged
  <2>3. CallOK(call)
    BY <2>1, <2>2 DEF SearchesOK
  <2>4. PICK next : next = nx
    OBVIOUS
  <2>5. GoesOn(next) \/ (next.at = "path" /\ PathOK(next))
    BY <2>2, <2>3, <2>4, CheckedOK
  <2> HIDE DEF nx
  <2> QED
    BY <1>1, <2>2, <2>4, <2>5
<1> QED
  BY <1>2, <1>3 DEF Search

-----------------------------------------------------------------------------
(* find_path() while nothing changes the graph *)

\* Every set that the start cannot leave has all the nodes visited.
Within(call) ==
    /\ call.calm /\ call.from \in nodes
    /\ DOMAIN call.parent \subseteq nodes
    /\ \A set \in SUBSET nodes : call.from \in set /\ Closed(set) => DOMAIN call.parent \subseteq set

NearestFirst(queue, up) ==
    \A i, j \in DOMAIN queue : i <= j => Len(up[queue[i]]) <= Len(up[queue[j]])

\* The edges but those of `ids` that leave a node visited, and no longer queued,
\* lead to nodes that are visited too, and are at most one edge further away.
Expanded(call, up, ids) ==
    \A e \in Live \ ids :
        /\ ends[e].head \in DOMAIN call.parent
        /\ \A i \in DOMAIN call.queue : call.queue[i] # ends[e].head
        => /\ ends[e].tail \in DOMAIN call.parent
           /\ Len(up[ends[e].tail]) <= Len(up[ends[e].head]) + 1

\* Between two nodes.
CalmVisit(call) ==
    /\ Within(call)
    /\ \A up : Solves(up, call.parent) =>
          /\ NearestFirst(call.queue, up)
          /\ \A m \in DOMAIN call.parent, i \in DOMAIN call.queue :
                Len(up[m]) <= Len(up[call.queue[i]]) + 1
          /\ Expanded(call, up, {})

\* While the edges `ids` of the node `n` are to be looked at.
CalmIteration(call, n, ids) ==
    /\ Within(call)
    /\ call.cur = n /\ call.drift = 0
    /\ ids \subseteq edges
    /\ \A e \in ids : ends[e].head = n
    /\ \A up : Solves(up, call.parent) =>
          /\ NearestFirst(call.queue, up)
          /\ \A i \in DOMAIN call.queue : Len(up[n]) <= Len(up[call.queue[i]])
          /\ \A m \in DOMAIN call.parent : Len(up[m]) <= Len(up[n]) + 1
          /\ Expanded(call, up, ids)

CalmCall(call) ==
    /\ call.edge \in edges
    /\ CalmIteration(call, ends[call.edge].head, call.todo \cup {call.edge})

RightAnswer(call) ==
    /\ call.at # "error"
    /\ (call.at = "path") <=> CanReach(call.from, call.to)
    /\ call.at = "path" => Shortest(call.path, call.from, call.to)

\* A calm call that looks for its next edge stays calm, or is right that there is no path.
GoesOnCalm(call) ==
    IF call.at = "check" THEN CalmCall(call) ELSE call.at = "none" /\ RightAnswer(call)

LEMMA DepthsAreNumbers ==
    ASSUME NEW parent, NEW from, NEW es, TreeOK(parent, from, es), NEW up, Solves(up, parent)
    PROVE  \A m \in DOMAIN parent : Len(up[m]) \in Nat
<1>1. Leads(up, parent, from, es)
  BY DEF TreeOK
<1>2. \A m \in DOMAIN parent : up[m] = <<>> \/ up[m] \in Seq(es)
  BY <1>1 DEF Leads, WalkOver
<1> QED
  BY <1>2

LEMMA CalmYield ==
    ASSUME GInv, NEW call, VisitOK(call), NEW n \in DOMAIN call.parent, NEW ids,
           CalmIteration(call, n, ids), Stops(ids, call.parent) # {}
    PROVE  GoesOnCalm(Yield(call, ids))
<1> DEFINE e == Smallest(Stops(ids, call.parent))
           next == [call EXCEPT !.edge = e, !.todo = {f \in ids : f > e}]
<1>1. /\ Stops(ids, call.parent) \in SUBSET Nat /\ Stops(ids, call.parent) \subseteq ids
      /\ ids \subseteq edges /\ edges \subseteq DOMAIN ends
      /\ DOMAIN ends \subseteq Nat
  BY EdgesAreNumbers DEF Stops, CalmIteration, GInv, GraphTypeOK
<1>2. e \in Stops(ids, call.parent) /\ \A f \in Stops(ids, call.parent) : e <= f
  BY <1>1, SmallestIs
<1> HIDE DEF e
<1>3. Yield(call, ids) = next
  BY <1>1, <1>2 DEF Yield, e
<1>4. /\ DOMAIN next = Fields /\ next.edge = e /\ next.todo = {f \in ids : f > e}
      /\ \A f \in Fields \ {"edge", "todo"} : next[f] = call[f]
  BY DEF VisitOK, Fields
<1> HIDE DEF next
<1>5. /\ next.at = "check" /\ next.from = call.from /\ next.cur = call.cur
      /\ next.drift = call.drift /\ next.queue = call.queue /\ next.parent = call.parent
      /\ next.calm = call.calm
  BY <1>4 DEF VisitOK, Fields
<1> DEFINE left == next.todo \cup {e}
<1>6. left \subseteq ids /\ e \in ids /\ ends[e].head = n
  BY <1>1, <1>2, <1>4 DEF CalmIteration
<1>7. ASSUME NEW f \in Live \ left, f \in ids
      PROVE  ends[f].tail \in DOMAIN call.parent /\ ends[f].head = n
  <2>1. f < e
    BY <1>1, <1>4, <1>6, <1>7
  <2>2. f \notin Stops(ids, call.parent)
    BY <1>1, <1>2, <1>6, <1>7, <2>1
  <2> QED
    BY <1>1, <1>7, <2>2 DEF Stops, CalmIteration
<1>8. ASSUME NEW up, Solves(up, call.parent) PROVE Expanded(next, up, left)
  <2>1. Expanded(call, up, ids) /\ \A m \in DOMAIN call.parent : Len(up[m]) <= Len(up[n]) + 1
    BY <1>8 DEF CalmIteration
  <2> HIDE DEF left
  <2> QED
    BY <1>5, <1>7, <2>1 DEF Expanded
<1>9. Within(next)
  BY <1>5 DEF CalmIteration, Within
<1>10. CalmIteration(next, n, left)
  BY <1>1, <1>5, <1>6, <1>8, <1>9 DEF CalmIteration
<1>11. CalmCall(next)
  BY <1>1, <1>4, <1>6, <1>10 DEF CalmCall
<1> QED
  BY <1>3, <1>5, <1>11 DEF GoesOnCalm

\* A search whose queue leads nowhere new has visited all that can be reached.
LEMMA NothingNewIsRight ==
    ASSUME GInv, NEW call, VisitOK(call), CalmVisit(call),
           \A i \in DOMAIN call.queue : Stops(out[call.queue[i]], call.parent) = {}
    PROVE  ~CanReach(call.from, call.to)
<1> DEFINE D == DOMAIN call.parent
<1>1. PICK up : Solves(up, call.parent)
  BY DEF VisitOK, TreeOK
<1>2. Expanded(call, up, {})
  BY <1>1 DEF CalmVisit
<1>3. Closed(D)
  <2> SUFFICES ASSUME NEW e \in Live, ends[e].head \in D PROVE ends[e].tail \in D
    BY DEF Closed
  <2>1. CASE \A i \in DOMAIN call.queue : call.queue[i] # ends[e].head
    BY <1>2, <2>1 DEF Expanded
  <2>2. ASSUME NEW i \in DOMAIN call.queue, call.queue[i] = ends[e].head PROVE ends[e].tail \in D
    <3>1. e \in out[ends[e].head]
      BY DEF VisitOK, TreeOK, GInv, AdjacencyMirrorsEdges, Live
    <3>2. e \notin Stops(out[ends[e].head], call.parent)
      BY <2>2
    <3> QED
      BY <3>1, <3>2 DEF Stops, Live
  <2> QED
    BY <2>1, <2>2
<1>4. D \in SUBSET nodes /\ call.from \in D /\ call.to \notin D
  BY DEF CalmVisit, Within, VisitOK, TreeOK
<1> QED
  BY <1>3, <1>4 DEF CanReach

LEMMA CalmNextNode ==
    ASSUME GInv, NEW call, VisitOK(call), CalmVisit(call)
    PROVE  GoesOnCalm(NextNode(call))
<1> DEFINE open == {i \in DOMAIN call.queue : \/ call.queue[i] \notin mapped
                                              \/ Stops(out[call.queue[i]], call.parent) # {}}
           i == Smallest(open)
           n == call.queue[i]
           next == [call EXCEPT !.cur = n, !.drift = 0,
                                !.queue = SubSeq(@, i + 1, Len(@))]
           D == DOMAIN call.parent
<1>1. /\ call.queue \in Seq(D) /\ DOMAIN call.queue = 1..Len(call.queue)
      /\ Len(call.queue) \in Nat /\ \A j \in 1..Len(call.queue) : call.queue[j] \in D
  BY DEF VisitOK
<1>2. D \subseteq nodes /\ mapped = nodes /\ nodes \subseteq NodeIds
  BY GraphConstants DEF CalmVisit, Within, GInv, GraphTypeOK, AdjacencyMirrorsEdges, NodeIds
<1>3. CASE open = {}
  <2>1. NextNode(call) = Ended(call, "none", <<>>)
    BY <1>3 DEF NextNode
  <2>2. ~CanReach(call.from, call.to)
    BY <1>3, NothingNewIsRight
  <2> QED
    BY <2>1, <2>2 DEF Ended, GoesOnCalm, RightAnswer
<1>4. CASE open # {}
  <2>1. /\ open \in SUBSET Nat /\ open \subseteq 1..Len(call.queue)
        /\ i \in open /\ \A j \in open : i <= j
    <3>1. open \in SUBSET Nat /\ open \subseteq 1..Len(call.queue)
      BY <1>1
    <3> HIDE DEF open
    <3> QED
      BY <1>4, <3>1, SmallestIs
  <2>2. i \in 1..Len(call.queue) /\ n \in D
    <3> HIDE DEF open, i
    <3> QED
      BY <1>1, <2>1
  <2>3. NextNode(call) = Yield(next, out[n])
    BY <1>2, <1>4, <2>2 DEF NextNode
  <2>4. Stops(out[n], call.parent) # {}
    BY <1>2, <2>1, <2>2
  <2>5. \A j \in 1..Len(call.queue) : j < i => Stops(out[call.queue[j]], call.parent) = {}
    <3> SUFFICES ASSUME NEW j \in 1..Len(call.queue), j < i PROVE j \notin open
      BY <1>1
    <3> HIDE DEF open, i
    <3> QED
      BY <2>1, <2>2
  <2> HIDE DEF open, i, n
  <2>6. /\ DOMAIN next = Fields /\ next.cur = n /\ next.drift = 0
        /\ next.queue = SubSeq(call.queue, i + 1, Len(call.queue))
        /\ \A f \in Fields \ {"cur", "drift", "queue"} : next[f] = call[f]
    BY DEF VisitOK, Fields
  <2> HIDE DEF next
  <2>7. /\ next.at = "check" /\ next.from = call.from /\ next.to = call.to
        /\ next.parent = call.parent /\ next.calm = call.calm
    BY <2>6 DEF VisitOK, Fields
  <2>8. /\ next.queue \in Seq(D) /\ DOMAIN next.queue = 1..Len(call.queue) - i
        /\ \A j \in 1..Len(call.queue) - i : next.queue[j] = call.queue[i + j]
    <3>1. ASSUME NEW S, NEW q \in Seq(S), NEW k \in 1..Len(q)
          PROVE  /\ SubSeq(q, k + 1, Len(q)) \in Seq(S)
                 /\ DOMAIN SubSeq(q, k + 1, Len(q)) = 1..Len(q) - k
                 /\ \A j \in 1..Len(q) - k : SubSeq(q, k + 1, Len(q))[j] = q[k + j]
      OBVIOUS
    <3>2. call.queue \in Seq(D) /\ i \in 1..Len(call.queue)
      BY <1>1, <2>2
    <3> HIDE DEF D
    <3> QED
      BY <2>6, <3>1, <3>2
  <2>9. VisitOK(next)
    BY <2>6, <2>7, <2>8 DEF VisitOK, Followed
  <2>10. out[n] \subseteq edges /\ \A e \in Live : e \in out[n] <=> ends[e].head = n
    BY <1>2, <2>2 DEF GInv, AdjacencyMirrorsEdges, Live
  <2>11. \A e \in out[n] : ends[e].head = n
    BY <1>2, <2>2 DEF GInv, AdjacencyMirrorsEdges
  <2>12. ASSUME NEW up, Solves(up, next.parent)
         PROVE  /\ NearestFirst(next.queue, up)
                /\ \A j \in DOMAIN next.queue : Len(up[n]) <= Len(up[next.queue[j]])
                /\ \A m \in DOMAIN next.parent : Len(up[m]) <= Len(up[n]) + 1
                /\ Expanded(next, up, out[n])
    <3>1. /\ NearestFirst(call.queue, up)
          /\ \A m \in D, j \in DOMAIN call.queue : Len(up[m]) <= Len(up[call.queue[j]]) + 1
          /\ Expanded(call, up, {})
      BY <2>7, <2>12 DEF CalmVisit
    <3>2. n = call.queue[i]
      BY DEF n
    <3>3. \A j \in 1..Len(call.queue) - i : i + j \in 1..Len(call.queue)
      BY <1>1, <2>2
    <3>4. \A j, k \in 1..Len(call.queue) :
              j <= k => Len(up[call.queue[j]]) <= Len(up[call.queue[k]])
      BY <1>1, <3>1 DEF NearestFirst
    <3>5. /\ NearestFirst(next.queue, up)
          /\ \A j \in DOMAIN next.queue : Len(up[n]) <= Len(up[next.queue[j]])
      <4>1. ASSUME NEW j \in DOMAIN next.queue, NEW k \in DOMAIN next.queue, j <= k
            PROVE  Len(up[next.queue[j]]) <= Len(up[next.queue[k]])
        <5>1. i + j \in 1..Len(call.queue) /\ i + k \in 1..Len(call.queue) /\ i + j <= i + k
          BY <1>1, <2>2, <2>8, <4>1
        <5>2. next.queue[j] = call.queue[i + j] /\ next.queue[k] = call.queue[i + k]
          BY <2>8
        <5> QED
          BY <3>4, <5>1, <5>2
      <4>2. ASSUME NEW j \in DOMAIN next.queue
            PROVE  Len(up[n]) <= Len(up[next.queue[j]])
        <5>1. i + j \in 1..Len(call.queue) /\ i <= i + j
          BY <1>1, <2>2, <2>8
        <5>2. next.queue[j] = call.queue[i + j]
          BY <2>8
        <5> QED
          BY <2>2, <3>2, <3>4, <5>1, <5>2
      <4> QED
        BY <4>1, <4>2 DEF NearestFirst
    <3>6. \A m \in DOMAIN next.parent : Len(up[m]) <= Len(up[n]) + 1
      BY <1>1, <2>2, <2>7, <3>1, <3>2
    <3>7. Expanded(next, up, out[n])
      <4> SUFFICES ASSUME NEW e \in Live \ out[n], ends[e].head \in D,
                          \A j \in DOMAIN next.queue : next.queue[j] # ends[e].head
                   PROVE  /\ ends[e].tail \in D
                          /\ Len(up[ends[e].tail]) <= Len(up[ends[e].head]) + 1
        BY <2>7 DEF Expanded
      <4>1. CASE \A j \in DOMAIN call.queue : call.queue[j] # ends[e].head
        BY <3>1, <4>1 DEF Expanded
      <4>2. ASSUME NEW j \in 1..Len(call.queue), call.queue[j] = ends[e].head
            PROVE  /\ ends[e].tail \in D
                   /\ Len(up[ends[e].tail]) <= Len(up[ends[e].head]) + 1
        <5>1. j # i
          BY <2>10, <3>2, <4>2
        <5>2. ~(j > i)
          <6> SUFFICES ASSUME j > i PROVE FALSE
            OBVIOUS
          <6>1. j - i \in 1..Len(call.queue) - i /\ i + (j - i) = j
            BY <1>1, <2>2
          <6> QED
            BY <2>8, <4>2, <6>1
        <5>3. Stops(out[call.queue[j]], call.parent) = {}
          <6>1. j < i
            <7>1. j \in Int /\ i \in Int
              BY <1>1, <2>2
            <7> QED
              BY <5>1, <5>2, <7>1
          <6> QED
            BY <2>5, <6>1
        <5>4. e \in out[ends[e].head]
          BY <1>2 DEF GInv, AdjacencyMirrorsEdges, Live
        <5>5. ends[e].tail \in D
          BY <4>2, <5>3, <5>4 DEF Stops
        <5> QED
          BY <1>1, <3>1, <4>2, <5>5
      <4> QED
        BY <1>1, <4>1, <4>2
    <3> QED
      BY <3>5, <3>6, <3>7
  <2>13. Within(next)
    BY <2>7 DEF CalmVisit, Within
  <2>14. CalmIteration(next, n, out[n])
    BY <2>6, <2>10, <2>11, <2>12, <2>13 DEF CalmIteration
  <2> QED
    BY <2>2, <2>3, <2>4, <2>7, <2>9, <2>14, CalmYield
<1> QED
  BY <1>3, <1>4

LEMMA CalmContinue ==
    ASSUME GInv, NEW call, VisitOK(call), NEW n \in DOMAIN call.parent,
           CalmIteration(call, n, call.todo)
    PROVE  GoesOnCalm(Continue(call))
<1>1. call.drift = 0
  BY DEF CalmIteration
<1>2. CASE Stops(call.todo, call.parent) # {}
  <2>1. Continue(call) = Yield(call, call.todo)
    BY <1>1, <1>2 DEF Continue
  <2> QED
    BY <1>2, <2>1, CalmYield
<1>3. CASE Stops(call.todo, call.parent) = {}
  <2>1. Continue(call) = NextNode(call)
    BY <1>1, <1>3 DEF Continue
  <2>2. ASSUME NEW up, Solves(up, call.parent)
        PROVE  /\ \A m \in DOMAIN call.parent, i \in DOMAIN call.queue :
                     Len(up[m]) <= Len(up[call.queue[i]]) + 1
               /\ Expanded(call, up, {})
    <3>1. /\ \A i \in DOMAIN call.queue : Len(up[n]) <= Len(up[call.queue[i]])
          /\ \A m \in DOMAIN call.parent : Len(up[m]) <= Len(up[n]) + 1
          /\ Expanded(call, up, call.todo)
      BY <2>2 DEF CalmIteration
    <3>2. \A m \in DOMAIN call.parent : Len(up[m]) \in Nat
      BY <2>2, DepthsAreNumbers DEF VisitOK
    <3>3. \A i \in DOMAIN call.queue : call.queue[i] \in DOMAIN call.parent
      BY DEF VisitOK
    <3>4. \A e \in call.todo : ends[e].tail \in DOMAIN call.parent /\ ends[e].head = n
      BY <1>3 DEF CalmIteration, Stops
    <3>5. Expanded(call, up, {})
      BY <3>1, <3>4 DEF Expanded
    <3>6. ASSUME NEW m \in DOMAIN call.parent, NEW i \in DOMAIN call.queue
          PROVE  Len(up[m]) <= Len(up[call.queue[i]]) + 1
      <4>1. Len(up[m]) \in Nat /\ Len(up[n]) \in Nat /\ Len(up[call.queue[i]]) \in Nat
        BY <3>2, <3>3
      <4> QED
        BY <3>1, <4>1
    <3> QED
      BY <3>5, <3>6
  <2>3. CalmVisit(call)
    BY <2>2 DEF CalmVisit, CalmIteration
  <2> QED
    BY <2>1, <2>3, CalmNextNode
<1> QED
  BY <1>2, <1>3

LEMMA CalmStart ==
    ASSUME GInv, NEW call, call.calm, call.from \in nodes, call.queue = <<call.from>>,
           call.parent = [n \in {call.from} |-> Nobody]
    PROVE  CalmVisit(call)
<1>1. DOMAIN call.parent = {call.from} /\ DOMAIN call.queue = {1} /\ call.queue[1] = call.from
  OBVIOUS
<1>2. ASSUME NEW up, Solves(up, call.parent) PROVE Len(up[call.from]) = 0
  <2>1. up[call.from] = <<>>
    BY <1>2 DEF Solves
  <2> QED
    BY <2>1
<1>3. Within(call)
  BY <1>1 DEF Within
<1>4. ASSUME NEW up, Solves(up, call.parent)
      PROVE  /\ NearestFirst(call.queue, up)
             /\ \A m \in DOMAIN call.parent, i \in DOMAIN call.queue :
                   Len(up[m]) <= Len(up[call.queue[i]]) + 1
             /\ Expanded(call, up, {})
  BY <1>1, <1>2, <1>4 DEF NearestFirst, Expanded
<1> QED
  BY <1>3, <1>4 DEF CalmVisit

\* The edge held: its tail is queued last, as far away as any node visited.
LEMMA CalmFound ==
    ASSUME GInv, NEW call, CallOK(call), CalmCall(call), ends[call.edge].holds,
           NEW found, found = Found(call, call.edge)
    PROVE  CalmIteration(found, ends[call.edge].head, call.todo)
<1> DEFINE e == call.edge
           t == ends[e].tail
           h == ends[e].head
           D == DOMAIN call.parent
<1>1. /\ TreeOK(found.parent, call.from, Followed(call))
      /\ found.parent = Visited(call.parent, t, e)
      /\ DOMAIN found.parent = D \cup {t}
      /\ found.queue = Append(call.queue, t)
      /\ found.from = call.from /\ found.cur = call.cur /\ found.drift = call.drift
      /\ found.calm = call.calm
  BY FoundOK DEF Fields
<1>2. /\ VisitOK(call) /\ h \in D /\ t \notin D /\ call.calm
      /\ TreeOK(call.parent, call.from, Live) /\ Followed(call) = Live
      /\ e \in Live /\ e \in edges /\ t \in nodes
      /\ CalmIteration(call, h, call.todo \cup {e}) /\ Within(call)
  BY DEF CallOK, VisitOK, IterationOK, CalmCall, CalmIteration, Within, Followed, Live,
         GInv, AdjacencyMirrorsEdges
<1>3. Within(found)
  BY <1>1, <1>2 DEF Within, Closed
<1>4. /\ call.queue \in Seq(D) /\ Len(call.queue) \in Nat
      /\ DOMAIN call.queue = 1..Len(call.queue)
      /\ \A i \in 1..Len(call.queue) : call.queue[i] \in D
  BY <1>2 DEF VisitOK
<1>5. /\ DOMAIN found.queue = 1..Len(call.queue) + 1
      /\ found.queue[Len(call.queue) + 1] = t
      /\ \A i \in 1..Len(call.queue) : found.queue[i] = call.queue[i]
  <2> HIDE DEF t, D
  <2> QED
    BY <1>1, <1>4
<1>6. ASSUME NEW up, Solves(up, found.parent)
      PROVE  /\ NearestFirst(found.queue, up)
             /\ \A i \in DOMAIN found.queue : Len(up[h]) <= Len(up[found.queue[i]])
             /\ \A m \in DOMAIN found.parent : Len(up[m]) <= Len(up[h]) + 1
             /\ Expanded(found, up, call.todo)
  <2>1. PICK low : low = [m \in D |-> up[m]]
    OBVIOUS
  <2>2. Solves(low, call.parent) /\ up[t] = Append(up[h], e)
    <3>1. Live \in SUBSET DOMAIN ends
      BY DEF Live, GInv, GraphTypeOK
    <3>2. Solves(low, call.parent) /\ up[t] = Append(up[h], e)
      <4>1. Solves(up, Visited(call.parent, ends[e].tail, e))
        BY <1>1, <1>6
      <4>2. /\ TreeOK(call.parent, call.from, Live) /\ e \in Live
            /\ ends[e].head \in DOMAIN call.parent /\ ends[e].tail \notin DOMAIN call.parent
        BY <1>2
      <4>3. /\ Solves([m \in DOMAIN call.parent |-> up[m]], call.parent)
            /\ up[ends[e].tail] = Append(up[ends[e].head], e)
        <5>1. PICK parent, from, f, es :
                parent = call.parent /\ from = call.from /\ f = e /\ es = Live
          OBVIOUS
        <5>2. /\ es \in SUBSET DOMAIN ends /\ TreeOK(parent, from, es) /\ f \in es
              /\ ends[f].head \in DOMAIN parent /\ ends[f].tail \notin DOMAIN parent
              /\ Solves(up, Visited(parent, ends[f].tail, f))
          BY <3>1, <4>1, <4>2, <5>1
        <5>3. /\ Solves([m \in DOMAIN parent |-> up[m]], parent)
              /\ up[ends[f].tail] = Append(up[ends[f].head], f)
          BY <5>2, WaysStay
        <5> QED
          BY <5>1, <5>3
      <4> QED
        BY <2>1, <4>3
    <3> QED
      BY <3>2
  <2>3. \A m \in D : low[m] = up[m] /\ Len(up[m]) \in Nat
    BY <1>2, <2>1, <2>2, DepthsAreNumbers
  <2>4. Len(up[t]) = Len(up[h]) + 1
    <3>1. up[h] \in Seq(Live)
      <4>1. Leads(low, call.parent, call.from, Live)
        BY <1>2, <2>2 DEF TreeOK
      <4>2. low[h] = <<>> \/ low[h] \in Seq(Live)
        BY <1>2, <4>1 DEF Leads, WalkOver
      <4>3. <<>> \in Seq(Live)
        OBVIOUS
      <4>4. low[h] = up[h]
        BY <1>2, <2>3
      <4> QED
        BY <4>2, <4>3, <4>4
    <3> QED
      BY <2>2, <3>1
  <2>5. /\ NearestFirst(call.queue, low)
        /\ \A i \in DOMAIN call.queue : Len(low[h]) <= Len(low[call.queue[i]])
        /\ \A m \in D : Len(low[m]) <= Len(low[h]) + 1
        /\ Expanded(call, low, call.todo \cup {e})
    BY <1>2, <2>2 DEF CalmIteration
  <2>6. \A m \in DOMAIN found.parent : Len(up[m]) <= Len(up[h]) + 1
    BY <1>1, <1>2, <2>3, <2>4, <2>5
  <2>7. \A i \in DOMAIN found.queue : Len(up[h]) <= Len(up[found.queue[i]])
    <3> TAKE i \in DOMAIN found.queue
    <3>1. CASE i = Len(call.queue) + 1
      BY <1>2, <1>5, <2>3, <2>4, <3>1
    <3>2. CASE i \in 1..Len(call.queue)
      BY <1>2, <1>4, <1>5, <2>3, <2>5, <3>2
    <3> QED
      BY <1>4, <1>5, <3>1, <3>2
  <2>8. NearestFirst(found.queue, up)
    <3> SUFFICES ASSUME NEW i \in DOMAIN found.queue, NEW j \in DOMAIN found.queue, i <= j
                 PROVE  Len(up[found.queue[i]]) <= Len(up[found.queue[j]])
      BY DEF NearestFirst
    <3>1. CASE j = Len(call.queue) + 1
      <4>1. found.queue[i] \in DOMAIN found.parent
        <5>1. CASE i = Len(call.queue) + 1
          BY <1>1, <1>5, <5>1
        <5>2. CASE i \in 1..Len(call.queue)
          BY <1>1, <1>4, <1>5, <5>2
        <5> QED
          BY <1>4, <1>5, <5>1, <5>2
      <4> QED
        BY <1>5, <2>4, <2>6, <3>1, <4>1
    <3>2. CASE j \in 1..Len(call.queue)
      <4>1. i \in 1..Len(call.queue)
        BY <1>4, <1>5, <3>2
      <4>2. Len(low[call.queue[i]]) <= Len(low[call.queue[j]])
        BY <1>4, <2>5, <3>2, <4>1 DEF NearestFirst
      <4> QED
        BY <1>4, <1>5, <2>3, <3>2, <4>1, <4>2
    <3> QED
      BY <1>4, <1>5, <3>1, <3>2
  <2>9. Expanded(found, up, call.todo)
    <3> SUFFICES ASSUME NEW f \in Live \ call.todo, ends[f].head \in DOMAIN found.parent,
                        \A i \in DOMAIN found.queue : found.queue[i] # ends[f].head
                 PROVE  /\ ends[f].tail \in DOMAIN found.parent
                        /\ Len(up[ends[f].tail]) <= Len(up[ends[f].head]) + 1
      BY DEF Expanded
    <3>1. CASE f = e
      BY <1>1, <1>2, <2>3, <2>4, <3>1
    <3>2. CASE f # e
      <4>1. ends[f].head # t
        <5>1. Len(call.queue) + 1 \in DOMAIN found.queue
          BY <1>4, <1>5
        <5> QED
          BY <1>5, <5>1
      <4>2. ends[f].head \in D
        BY <1>1, <4>1
      <4>3. \A i \in DOMAIN call.queue : call.queue[i] # ends[f].head
        BY <1>4, <1>5
      <4>4. /\ ends[f].tail \in D
            /\ Len(low[ends[f].tail]) <= Len(low[ends[f].head]) + 1
        BY <2>5, <3>2, <4>2, <4>3 DEF Expanded
      <4> QED
        BY <1>1, <2>3, <4>2, <4>4
    <3> QED
      BY <3>1, <3>2
  <2> QED
    BY <2>6, <2>7, <2>8, <2>9
<1>7. /\ found.cur = h /\ found.drift = 0 /\ call.todo \subseteq edges
      /\ \A f \in call.todo : ends[f].head = h
  BY <1>1, <1>2 DEF CalmIteration
<1> QED
  BY <1>3, <1>6, <1>7 DEF CalmIteration

\* The edge did not hold: its tail may be reached in another way.
LEMMA CalmPassedOver ==
    ASSUME NEW call, CalmCall(call), ~ends[call.edge].holds
    PROVE  CalmIteration(call, ends[call.edge].head, call.todo)
<1>1. CalmIteration(call, ends[call.edge].head, call.todo \cup {call.edge})
  BY DEF CalmCall
<1>2. call.edge \notin Live
  BY DEF Live
<1>3. ASSUME NEW up, Expanded(call, up, call.todo \cup {call.edge})
      PROVE  Expanded(call, up, call.todo)
  BY <1>2, <1>3 DEF Expanded
<1> QED
  BY <1>1, <1>3 DEF CalmIteration

\* No walk to the node that is about to be found is shorter than the way back
\* from it: the first of its nodes that is further away than its place in the
\* walk would have been reached from the one before.
LEMMA NoShorterWalk ==
    ASSUME GInv, NEW call, CallOK(call), CalmCall(call), ends[call.edge].holds,
           ends[call.edge].tail = call.to,
           NEW low, Solves(low, call.parent),
           NEW n \in 1..Len(low[ends[call.edge].head]), NEW p \in [1..n -> Live],
           IsWalk(p, call.from, call.to)
    PROVE  FALSE
<1> DEFINE e == call.edge
           h == ends[e].head
           D == DOMAIN call.parent
<1>1. /\ VisitOK(call) /\ h \in D /\ call.to \notin D /\ call.calm
      /\ TreeOK(call.parent, call.from, Live)
      /\ CalmIteration(call, h, call.todo \cup {e})
  BY DEF CallOK, VisitOK, IterationOK, CalmCall, CalmIteration, Within, Followed
<1>2. \A m \in D : Len(low[m]) \in Nat
  BY <1>1, DepthsAreNumbers
<1>3. /\ \A i \in DOMAIN call.queue : Len(low[h]) <= Len(low[call.queue[i]])
      /\ Expanded(call, low, call.todo \cup {e})
      /\ \A f \in call.todo \cup {e} : ends[f].head = h
  BY <1>1 DEF CalmIteration
<1>4. Len(low[h]) \in Nat /\ n \in Nat \ {0} /\ n <= Len(low[h])
  BY <1>1, <1>2
<1>5. p \in Seq(Live) /\ Len(p) = n /\ \A i \in 1..n : p[i] \in Live
  BY <1>4
<1>6. /\ ends[p[1]].head = call.from /\ ends[p[n]].tail = call.to
      /\ \A i \in 1..n - 1 : ends[p[i]].tail = ends[p[i + 1]].head
  BY <1>5 DEF IsWalk
<1> DEFINE near(i) == ends[p[i]].tail \in D /\ Len(low[ends[p[i]].tail]) <= i
           far == {i \in 1..n : ~near(i)}
<1>7. ASSUME far # {} PROVE FALSE
  <2>1. far \in SUBSET Nat
    BY <1>4
  <2>2. PICK i \in far : \A j \in far : i <= j
    <3> HIDE DEF far
    <3> QED
      BY <1>7, <2>1, SmallestIs
  <2>3. i \in 1..n /\ ~near(i) /\ \A j \in 1..n : j < i => near(j)
    <3>1. i \in 1..n /\ ~near(i)
      OBVIOUS
    <3>2. ASSUME NEW j \in 1..n, j < i PROVE near(j)
      <4>1. j \notin far
        <5> HIDE DEF far
        <5> QED
          BY <2>2, <3>1, <3>2
      <4> QED
        BY <4>1
    <3> QED
      BY <3>1, <3>2
  <2> DEFINE v == ends[p[i]].head
  <2>4. v \in D /\ Len(low[v]) <= i - 1
    <3>1. CASE i = 1
      <4>1. v = call.from
        BY <1>6, <3>1
      <4>2. low[call.from] = <<>> /\ call.from \in D
        BY <1>1 DEF TreeOK, Leads
      <4>3. Len(<<>>) = 0
        OBVIOUS
      <4> QED
        BY <3>1, <4>1, <4>2, <4>3
    <3>2. CASE i # 1
      <4>1. i - 1 \in 1..n /\ i - 1 < i /\ i - 1 \in 1..n - 1 /\ (i - 1) + 1 = i
        BY <1>4, <2>3, <3>2
      <4>2. near(i - 1)
        BY <2>3, <4>1
      <4>3. ends[p[i - 1]].tail = v
        BY <1>6, <4>1
      <4> QED
        BY <4>2, <4>3
    <3> QED
      BY <3>1, <3>2
  <2>5. Len(low[v]) \in Nat /\ Len(low[v]) < Len(low[h])
    BY <1>2, <1>4, <2>3, <2>4
  <2>6. v # h /\ \A j \in DOMAIN call.queue : call.queue[j] # v
    <3>1. v # h
      BY <1>4, <2>5
    <3>2. ASSUME NEW j \in DOMAIN call.queue, call.queue[j] = v PROVE FALSE
      BY <1>3, <1>4, <2>5, <3>2
    <3> QED
      BY <3>1, <3>2
  <2>7. p[i] \in Live \ (call.todo \cup {e})
    BY <1>3, <1>5, <2>3, <2>6
  <2>8. /\ ends[p[i]].tail \in D
        /\ Len(low[ends[p[i]].tail]) <= Len(low[v]) + 1
    BY <1>3, <2>4, <2>6, <2>7 DEF Expanded
  <2>9. Len(low[ends[p[i]].tail]) <= i
    <3>1. Len(low[ends[p[i]].tail]) \in Nat /\ i \in Nat
      BY <1>2, <2>3, <2>8
    <3> QED
      BY <2>4, <2>5, <2>8, <3>1
  <2> QED
    BY <2>3, <2>8, <2>9
<1>8. near(n)
  <2>1. n \in 1..n
    BY <1>4
  <2> QED
    BY <1>7, <2>1
<1> QED
  BY <1>1, <1>6, <1>8

\* The end is found: the path is returned, and it is a shortest one (lines 428-439).
LEMMA CalmArrived ==
    ASSUME GInv, NEW call, CallOK(call), CalmCall(call), ends[call.edge].holds,
           ends[call.edge].tail = call.to
    PROVE  LET next == Arrived(Found(call, call.edge))
           IN  next.at = "path" /\ RightAnswer(next)
<1> DEFINE e == call.edge
           t == ends[e].tail
           h == ends[e].head
           D == DOMAIN call.parent
           found == Found(call, e)
           next == Arrived(found)
           path == PathTo(found.parent, found.to)
<1>1. /\ TreeOK(found.parent, call.from, Live)
      /\ found.parent = Visited(call.parent, t, e)
      /\ DOMAIN found.parent = D \cup {t}
      /\ found.from = call.from /\ found.to = call.to
  BY FoundOK DEF Fields, CalmCall, CalmIteration, Within, Followed
<1>2. /\ h \in D /\ t \notin D /\ e \in Live /\ call.from \in D
      /\ TreeOK(call.parent, call.from, Live) /\ Within(call)
      /\ Live \in SUBSET edges /\ Live \in SUBSET DOMAIN ends
  BY DEF CallOK, VisitOK, IterationOK, TreeOK, CalmCall, CalmIteration, Within, Followed, Live,
         GInv, GraphTypeOK
<1> HIDE DEF found
<1>3. PICK parent : parent = found.parent
  OBVIOUS
<1>4. PICK up : /\ Solves(up, parent) /\ path = up[call.to]
  <2> DEFINE way == CHOOSE up1 : up1 = [m \in DOMAIN parent |->
                      IF parent[m] = Nobody THEN <<>> ELSE Append(up1[ends[parent[m]].head], parent[m])]
  <2>1. Solves(way, parent)
    <3>1. PICK up : Solves(up, parent)
      BY <1>1, <1>3 DEF TreeOK
    <3> QED
      BY <3>1 DEF Solves
  <2>2. PathTo(parent, call.to) = way[call.to]
    BY DEF PathTo
  <2> HIDE DEF way
  <2> QED
    BY <1>1, <1>3, <2>1, <2>2
<1> HIDE DEF path
<1>5. path \in Seq(Live) /\ IsWalk(path, call.from, call.to)
  <2>1. Leads(up, parent, call.from, Live) /\ call.to \in DOMAIN parent /\ call.to # call.from
    BY <1>1, <1>2, <1>3, <1>4 DEF TreeOK
  <2> QED
    BY <1>4, <2>1 DEF Leads, WalkOver
<1>6. \A i \in DOMAIN path : path[i] \in edges
  BY <1>2, <1>5
<1>7. next = Ended(found, "path", path)
  BY <1>6 DEF Arrived, path
<1>8. next.at = "path" /\ next.path = path /\ next.from = call.from /\ next.to = call.to
  BY <1>1, <1>7 DEF Ended
<1>9. CanReach(call.from, call.to)
  <2> SUFFICES ASSUME NEW set \in SUBSET nodes, call.from \in set, Closed(set)
               PROVE  call.to \in set
    BY DEF CanReach
  <2>1. h \in set
    BY <1>2 DEF Within
  <2> QED
    BY <1>2, <2>1 DEF Closed
<1>10. PICK low : low = [m \in D |-> up[m]]
  OBVIOUS
<1>11. Solves(low, call.parent) /\ up[t] = Append(up[h], e) /\ low[h] = up[h]
  <2>1. PICK par, from, f, es : par = call.parent /\ from = call.from /\ f = e /\ es = Live
    OBVIOUS
  <2>2. /\ es \in SUBSET DOMAIN ends /\ TreeOK(par, from, es) /\ f \in es
        /\ ends[f].head \in DOMAIN par /\ ends[f].tail \notin DOMAIN par
        /\ Solves(up, Visited(par, ends[f].tail, f))
    BY <1>1, <1>2, <1>3, <1>4, <2>1
  <2>3. /\ Solves([m \in DOMAIN par |-> up[m]], par)
        /\ up[ends[f].tail] = Append(up[ends[f].head], f)
    BY <2>2, WaysStay
  <2> QED
    BY <1>2, <1>10, <2>1, <2>3
<1>12. Len(path) = Len(low[h]) + 1
  <2>1. low[h] \in Seq(Live)
    <3>1. Leads(low, call.parent, call.from, Live)
      BY <1>2, <1>11 DEF TreeOK
    <3>2. low[h] = <<>> \/ low[h] \in Seq(Live)
      BY <1>2, <3>1 DEF Leads, WalkOver
    <3>3. <<>> \in Seq(Live)
      OBVIOUS
    <3> QED
      BY <3>2, <3>3
  <2>2. path = Append(low[h], e)
    BY <1>4, <1>11
  <2> QED
    BY <2>1, <2>2
<1>13. Shortest(path, call.from, call.to)
  <2> SUFFICES ASSUME NEW n \in 1..Len(path) - 1, NEW p \in [1..n -> Live],
                      IsWalk(p, call.from, call.to)
               PROVE  FALSE
    BY DEF Shortest
  <2>1. Len(low[h]) \in Nat
    BY <1>2, <1>11, DepthsAreNumbers
  <2>2. n \in 1..Len(low[h])
    BY <1>12, <2>1
  <2> QED
    BY <1>11, <2>2, NoShorterWalk
<1>14. next.at = "path" /\ RightAnswer(next)
  BY <1>8, <1>9, <1>13 DEF RightAnswer
<1> QED
  BY <1>14 DEF found

\* What is known of a call that is calm, or was when it ended.
CalmOK(call) ==
    /\ call.at = "check" /\ call.calm => CalmCall(call)
    /\ call.at \in {"path", "none", "error"} /\ call.calm => RightAnswer(call)

LEMMA CalmChecked ==
    ASSUME GInv, NEW call, call.at = "check", CallOK(call), CalmOK(call),
           NEW next, next = LET found == Found(call, call.edge)
                            IN  IF ~ends[call.edge].holds THEN Continue(PassedOver(call, call.edge))
                                ELSE IF ends[call.edge].tail = call.to THEN Arrived(found)
                                ELSE Continue(found)
    PROVE  call.calm => GoesOnCalm(next) \/ (next.at = "path" /\ RightAnswer(next))
<1> SUFFICES ASSUME call.calm
             PROVE  GoesOnCalm(next) \/ (next.at = "path" /\ RightAnswer(next))
  OBVIOUS
<1> DEFINE e == call.edge
           t == ends[e].tail
           h == ends[e].head
           found == Found(call, e)
<1>1. CalmCall(call) /\ VisitOK(call) /\ h \in DOMAIN call.parent /\ t \notin DOMAIN call.parent
  BY DEF CalmOK, CallOK, IterationOK
<1>2. CASE ~ends[e].holds
  <2>1. next = Continue(call)
    BY <1>2 DEF PassedOver
  <2>2. CalmIteration(call, h, call.todo)
    BY <1>1, <1>2, CalmPassedOver
  <2> QED
    BY <1>1, <2>1, <2>2, CalmContinue
<1>3. CASE ends[e].holds /\ t = call.to
  <2>1. next = Arrived(found)
    BY <1>3
  <2> QED
    BY <1>1, <1>3, <2>1, CalmArrived
<1>4. CASE ends[e].holds /\ t # call.to
  <2>1. next = Continue(found)
    BY <1>4
  <2>2. CalmIteration(found, h, call.todo)
    BY <1>1, <1>4, CalmFound
  <2>3. /\ TreeOK(found.parent, call.from, Followed(call))
        /\ DOMAIN found.parent = DOMAIN call.parent \cup {t}
        /\ DOMAIN found = Fields /\ found.queue = Append(call.queue, t)
        /\ \A f \in Fields \ {"parent", "queue"} : found[f] = call[f]
    BY <1>4, FoundOK
  <2> HIDE DEF found
  <2>4. /\ found.at = call.at /\ found.from = call.from /\ found.to = call.to
        /\ found.todo = call.todo /\ found.calm = call.calm
    BY <2>3 DEF Fields
  <2>5. found.queue \in Seq(DOMAIN found.parent)
    <3>1. call.queue \in Seq(DOMAIN found.parent) /\ t \in DOMAIN found.parent
      BY <1>1, <2>3 DEF VisitOK
    <3> QED
      BY <2>3, <3>1
  <2>6. VisitOK(found)
    BY <1>1, <1>4, <2>3, <2>4, <2>5 DEF VisitOK, Followed
  <2>7. h \in DOMAIN found.parent /\ CalmIteration(found, h, found.todo)
    BY <1>1, <2>2, <2>3, <2>4
  <2> QED
    BY <2>1, <2>6, <2>7, CalmContinue
<1> QED
  BY <1>2, <1>3, <1>4

LEMMA CalmFindPath ==
    ASSUME GInv, NEW from \in nodes, NEW to \in nodes, from # to
    PROVE  GoesOnCalm(NextNode([at |-> "check", from |-> from, to |-> to, cur |-> from,
                            edge |-> Nobody, todo |-> {}, drift |-> 0, queue |-> <<from>>,
                            parent |-> [n \in {from} |-> Nobody], calm |-> TRUE]))
<1> DEFINE call == [at |-> "check", from |-> from, to |-> to, cur |-> from,
                    edge |-> Nobody, todo |-> {}, drift |-> 0, queue |-> <<from>>,
                    parent |-> [n \in {from} |-> Nobody], calm |-> TRUE]
<1>1. /\ DOMAIN call = Fields /\ call.at = "check" /\ call.from = from /\ call.to = to
      /\ call.queue = <<from>> /\ call.calm = TRUE
      /\ call.parent = [n \in {from} |-> Nobody]
  BY DEF Fields
<1>2. from \in NodeIds
  BY GraphConstants DEF GInv, GraphTypeOK, NodeIds
<1>3. TreeOK(call.parent, call.from, Followed(call))
  BY <1>1, <1>2, StartOK
<1> HIDE DEF call
<1>4. VisitOK(call)
  <2>1. DOMAIN call.parent = {from} /\ <<from>> \in Seq({from})
    BY <1>1
  <2>2. call.queue \in Seq(DOMAIN call.parent)
    BY <1>1, <2>1
  <2>3. call.to \notin DOMAIN call.parent /\ call.calm \in BOOLEAN
    BY <1>1, <2>1
  <2> QED
    BY <1>1, <1>3, <2>2, <2>3 DEF VisitOK
<1>5. CalmVisit(call)
  BY <1>1, CalmStart
<1>6. GoesOnCalm(NextNode(call))
  BY <1>4, <1>5, CalmNextNode
<1> QED
  BY <1>6 DEF call

LEMMA SameCalm ==
    ASSUME GraphUnchanged, NEW call, CalmOK(call)
    PROVE  CalmOK(call)'
<1>1. Live' = Live /\ nodes' = nodes /\ edges' = edges /\ ends' = ends
  BY DEF GraphUnchanged, Live
<1>2. \A set : Closed(set)' <=> Closed(set)
  BY <1>1 DEF Closed
<1>3. ASSUME NEW from, NEW to PROVE CanReach(from, to)' <=> CanReach(from, to)
  BY <1>1, <1>2 DEF CanReach
<1>4. ASSUME NEW path, NEW from, NEW to PROVE Shortest(path, from, to)' <=> Shortest(path, from, to)
  BY <1>1 DEF Shortest, IsWalk
<1>5. RightAnswer(call)' <=> RightAnswer(call)
  BY <1>3, <1>4 DEF RightAnswer
<1>6. ASSUME NEW up PROVE Solves(up, call.parent)' <=> Solves(up, call.parent)
  BY <1>1 DEF Solves
<1>7. ASSUME NEW up, NEW ids PROVE Expanded(call, up, ids)' <=> Expanded(call, up, ids)
  BY <1>1 DEF Expanded
<1>8. Within(call)' <=> Within(call)
  BY <1>1, <1>2 DEF Within
<1>9. ASSUME NEW n, NEW ids PROVE CalmIteration(call, n, ids)' <=> CalmIteration(call, n, ids)
  BY <1>1, <1>6, <1>7, <1>8 DEF CalmIteration, NearestFirst
<1>10. CalmCall(call)' <=> CalmCall(call)
  BY <1>1, <1>9 DEF CalmCall
<1> QED
  BY <1>5, <1>10 DEF CalmOK

\* Looking for an edge changes no graph: a call is as calm as before.
LEMMA AsCalm ==
    ASSUME NEW call, DOMAIN call = Fields
    PROVE  Continue(call).calm = call.calm /\ Arrived(call).calm = call.calm
<1>1. ASSUME NEW c, DOMAIN c = Fields, NEW ids PROVE Yield(c, ids).calm = c.calm
  <2> DEFINE e == Smallest(Stops(ids, c.parent))
             td == {f \in ids : f > e}
  <2> HIDE DEF e, td
  <2>1. [c EXCEPT !.edge = e, !.todo = td].calm = c.calm
    BY <1>1 DEF Fields
  <2>2. Ended(c, "error", <<>>).calm = c.calm
    BY DEF Ended
  <2> QED
    BY <2>1, <2>2 DEF Yield, e, td
<1>2. NextNode(call).calm = call.calm
  <2> DEFINE open == {i \in DOMAIN call.queue : \/ call.queue[i] \notin mapped
                                                \/ Stops(out[call.queue[i]], call.parent) # {}}
             i == Smallest(open)
             n == call.queue[i]
             rest == SubSeq(call.queue, i + 1, Len(call.queue))
             next == [call EXCEPT !.cur = n, !.drift = 0, !.queue = rest]
  <2>1. \/ NextNode(call) = Ended(call, "none", <<>>)
        \/ NextNode(call) = Ended(call, "error", <<>>)
        \/ NextNode(call) = Yield(next, out[n])
    BY DEF NextNode
  <2> HIDE DEF open, i, n, rest
  <2>2. DOMAIN next = Fields /\ next.calm = call.calm
    BY DEF Fields
  <2> HIDE DEF next
  <2> QED
    BY <1>1, <2>1, <2>2 DEF Ended
<1>3. Continue(call).calm = call.calm
  BY <1>1, <1>2 DEF Continue, Ended
<1>4. Arrived(call).calm = call.calm
  BY DEF Arrived, Ended
<1> QED
  BY <1>3, <1>4

\* The inductive invariant of find_path().
SInv ==
    /\ GInv
    /\ SearchesOK
    /\ \A s \in Searches : CalmOK(search[s])

LEMMA SearchKeepsCalm ==
    ASSUME SInv, Search
    PROVE  \A s \in Searches : CalmOK(search[s])'
<1>1. ASSUME GraphUnchanged, NEW s \in Searches, NEW next, search' = [search EXCEPT ![s] = next],
             CalmOK(next)
      PROVE  \A r \in Searches : CalmOK(search[r])'
  <2> TAKE r \in Searches
  <2>1. search'[r] = IF r = s THEN next ELSE search[r]
    BY <1>1 DEF SInv, SearchesOK
  <2>2. PICK call : call = search'[r]
    OBVIOUS
  <2>3. CalmOK(call)
    BY <1>1, <2>1, <2>2 DEF SInv
  <2>4. CalmOK(call)'
    BY <1>1, <2>3, SameCalm
  <2> QED
    BY <2>2, <2>4
<1>2. ASSUME NEW s \in Searches, NEW from \in nodes, NEW to \in nodes, FindPath(s, from, to)
      PROVE  \A r \in Searches : CalmOK(search[r])'
  <2> DEFINE nx == NextNode([at |-> "check", from |-> from, to |-> to, cur |-> from,
                             edge |-> Nobody, todo |-> {}, drift |-> 0, queue |-> <<from>>,
                             parent |-> [n \in {from} |-> Nobody], calm |-> TRUE])
  <2>1. search' = [search EXCEPT ![s] = nx] /\ from # to /\ GraphUnchanged
    BY <1>2 DEF FindPath, GraphUnchanged
  <2>2. GoesOnCalm(nx)
    BY <2>1, CalmFindPath DEF SInv
  <2> HIDE DEF nx
  <2>3. PICK next : next = nx
    OBVIOUS
  <2>4. CalmOK(next)
    BY <2>2, <2>3 DEF GoesOnCalm, CalmOK
  <2> QED
    BY <1>1, <2>1, <2>3, <2>4
<1>3. ASSUME NEW s \in Searches, Checked(s)
      PROVE  \A r \in Searches : CalmOK(search[r])'
  <2>1. PICK call : call = search[s]
    OBVIOUS
  <2> DEFINE nx == LET found == Found(call, call.edge)
                   IN  IF ~ends[call.edge].holds THEN Continue(PassedOver(call, call.edge))
                       ELSE IF ends[call.edge].tail = call.to THEN Arrived(found)
                       ELSE Continue(found)
  <2>2. GraphUnchanged /\ call.at = "check" /\ search' = [search EXCEPT ![s] = nx]
    BY <1>3, <2>1 DEF Checked, GraphUnchanged
  <2>3. CallOK(call) /\ CalmOK(call)
    BY <2>1, <2>2 DEF SInv, SearchesOK
  <2>4. PICK next : next = nx
    OBVIOUS
  <2>5. /\ call.calm => GoesOnCalm(next) \/ (next.at = "path" /\ RightAnswer(next))
    BY <2>2, <2>3, <2>4, CalmChecked DEF SInv
  <2>6. next.calm = call.calm
    <3>1. DOMAIN call = Fields
      BY <2>3 DEF CallOK, VisitOK
    <3>2. CASE ~ends[call.edge].holds
      BY <2>4, <3>1, <3>2, AsCalm DEF PassedOver
    <3>3. CASE ends[call.edge].holds
      <4> DEFINE found == Found(call, call.edge)
      <4>1. DOMAIN found = Fields /\ found.calm = call.calm
        BY <2>3, <3>3, FoundOK DEF SInv, Fields
      <4>2. next = Arrived(found) \/ next = Continue(found)
        BY <2>4, <3>3
      <4> HIDE DEF found
      <4> QED
        BY <4>1, <4>2, AsCalm
    <3> QED
      BY <3>2, <3>3
  <2>7. CalmOK(next)
    BY <2>5, <2>6 DEF GoesOnCalm, CalmOK
  <2> HIDE DEF nx
  <2> QED
    BY <1>1, <2>2, <2>4, <2>7
<1> QED
  BY <1>2, <1>3 DEF Search

\* A change forgets the calls that ended, and leaves no call calm (lines 91-168).
LEMMA ChangeKeepsCalm ==
    ASSUME SInv, Change
    PROVE  \A s \in Searches : CalmOK(search[s])'
<1>1. ASSUME NEW now, NEW gone, IteratorsFollow(now, gone)
      PROVE  \A s \in Searches : CalmOK(search[s])'
  <2> TAKE s \in Searches
  <2>1. search'[s] = IF search[s].at # "check" THEN Idle
                     ELSE IF search[s].cur = Nobody THEN search[s]
                     ELSE Follow(search[s], out[search[s].cur], now[search[s].cur], gone)
    BY <1>1 DEF IteratorsFollow
  <2>2. CASE search[s].at # "check"
    BY <2>1, <2>2 DEF Idle, CalmOK
  <2>3. CASE search[s].at = "check"
    <3>1. CallOK(search[s]) /\ DOMAIN search[s] = Fields
      BY <2>3 DEF SInv, SearchesOK, CallOK, VisitOK
    <3>2. CASE search[s].cur = Nobody
      <4>1. ~search[s].calm /\ search'[s] = search[s]
        BY <2>1, <2>3, <3>1, <3>2 DEF CallOK, IterationOK, TreeOK, VisitOK, NodeIds, Nobody
      <4> QED
        BY <2>3, <4>1 DEF CalmOK
    <3>3. CASE search[s].cur # Nobody
      <4> DEFINE was == out[search[s].cur]
                 is == now[search[s].cur]
      <4>1. search'[s] = Follow(search[s], was, is, gone)
        BY <2>1, <2>3, <3>3
      <4> HIDE DEF was, is
      <4>2. search'[s].calm = FALSE
        BY <3>1, <4>1 DEF Follow, Fields
      <4> QED
        BY <4>2 DEF CalmOK
    <3> QED
      BY <3>2, <3>3
  <2> QED
    BY <2>2, <2>3
<1>2. \E now, gone : IteratorsFollow(now, gone)
  BY DEF Change, AddNode, AddEdge, AddAll, RemoveNode, RemoveEdge
<1>3. PICK now, gone : IteratorsFollow(now, gone)
  BY <1>2
<1> QED
  BY <1>1, <1>3

LEMMA SearchStep ==
    ASSUME SInv, [Change \/ Search]_graphVars
    PROVE  SInv'
<1>1. GInv'
  BY GraphStep DEF SInv
<1>2. CASE Change
  BY <1>1, <1>2, ChangeOK, ChangeKeepsCalm DEF SInv
<1>3. CASE Search
  BY <1>1, <1>3, SearchOK, SearchKeepsCalm DEF SInv
<1>4. CASE UNCHANGED graphVars
  <2>1. GraphUnchanged /\ search' = search
    BY <1>4 DEF graphVars, GraphUnchanged
  <2>2. ASSUME NEW s \in Searches
        PROVE  (search'[s].at = "check" => CallOK(search[s])') /\ CalmOK(search[s])'
    <3>1. PICK call : call = search[s] /\ call = search'[s]
      BY <2>1
    <3>2. (call.at = "check" => CallOK(call)) /\ CalmOK(call)
      BY <3>1 DEF SInv, SearchesOK
    <3>3. (call.at = "check" => CallOK(call)') /\ CalmOK(call)'
      BY <2>1, <3>2, SameGraph, SameCalm
    <3> QED
      BY <3>1, <3>3
  <2>3. DOMAIN search' = Searches
    BY <2>1 DEF SInv, SearchesOK
  <2> QED
    BY <1>1, <2>2, <2>3 DEF SInv, SearchesOK
<1> QED
  BY <1>2, <1>3, <1>4

LEMMA SearchStart == ASSUME GraphInit PROVE SInv
<1>1. GInv
  BY EmptyGraph
<1> QED
  BY <1>1 DEF GraphInit, SInv, SearchesOK, CalmOK, Idle

\* A path that find_path() returns is a walk from the start to the end over
\* edges that are in the graph at that moment and hold, whatever was added and
\* removed while it awaited their conditions (lines 383-441).
THEOREM PathIsAlwaysThere == GraphSpec => PathIsThere
<1>1. ASSUME SInv, Change \/ Search, NEW s \in Searches,
             search'[s].at = "path", search[s].at # "path"
      PROVE  PathOK(search'[s])
  <2>1. CASE Change
    <3>1. GInv'
      BY GraphStep, <1>1 DEF SInv
    <3>2. search'[s].at \in {"idle", "check"}
      BY <1>1, <2>1, <3>1, ChangeOK DEF SInv
    <3> QED
      BY <1>1, <3>2
  <2>2. CASE Search
    BY <1>1, <2>2, SearchOK DEF SInv
  <2> QED
    BY <1>1, <2>1, <2>2
<1> DEFINE There == \A s \in Searches :
                       search'[s].at = "path" /\ search[s].at # "path" => PathOK(search'[s])
<1>2. SInv /\ [Change \/ Search]_graphVars => [There]_graphVars
  BY <1>1
<1>3. SInv /\ [Change \/ Search]_graphVars => SInv'
  BY SearchStep
<1>4. GraphInit => SInv
  BY SearchStart
<1> QED
  BY <1>2, <1>3, <1>4, PTL DEF GraphSpec, PathIsThere, PathOK

\* As long as nothing changes the graph, find_path() finds a path exactly when
\* there is one over edges that hold, never raises, and finds a shortest one
\* (lines 383-441).
THEOREM CalmSearchIsAlwaysRight == GraphSpec => []CalmSearchIsRight
<1>1. SInv => CalmSearchIsRight
  BY DEF SInv, CalmOK, RightAnswer, CalmSearchIsRight
<1> QED
  BY <1>1, SearchStart, SearchStep, PTL DEF GraphSpec
-----------------------------------------------------------------------------
(* Recursion *)

\* Induction up to a bound, for a set in place of a predicate.
LEMMA UpTo ==
    ASSUME NEW n \in Nat, NEW Good, 0 \in Good,
           \A k \in 1..n : k - 1 \in Good => k \in Good
    PROVE  0..n \subseteq Good
<1> DEFINE Bad == {k \in 0..n : k \notin Good}
<1>1. CASE Bad # {}
  <2>1. PICK x \in Bad : \A y \in Bad : x <= y
    <3> HIDE DEF Bad
    <3>1. Bad \in SUBSET Nat
      BY DEF Bad
    <3> QED
      BY <1>1, <3>1, SmallestIs
  <2>2. x \in 1..n /\ x - 1 \in 0..n
    BY <2>1
  <2>3. x - 1 \in Good
    BY <2>1, <2>2
  <2> QED
    BY <2>1, <2>2, <2>3
<1> QED
  BY <1>1

\* The first values of a recursion whose steps are functions.
Solution(f, n, S, s0, step) ==
  f \in [0..n -> S] /\ f[0] = s0 /\ \A k \in 1..n : f[k] = step[k][f[k - 1]]

\* Such a recursion has a solution.
LEMMA Recursion ==
    ASSUME NEW n \in Nat, NEW S, NEW s0 \in S, NEW step \in [1..n -> [S -> S]]
    PROVE  \E f : Solution(f, n, S, s0, step)
<1> DEFINE Sols(m) == {f \in [0..m -> S] : f[0] = s0 /\ \A k \in 1..m : f[k] = step[k][f[k - 1]]}
           Good == {m \in 0..n : Sols(m) # {}}
<1>1. 0 \in Good
  <2>1. [k \in 0..0 |-> s0] \in Sols(0)
    OBVIOUS
  <2> QED
    BY <2>1
<1>2. ASSUME NEW m \in 1..n, m - 1 \in Good PROVE m \in Good
  <2>1. PICK f : f \in Sols(m - 1)
    BY <1>2
  <2> DEFINE g == [k \in 0..m |-> IF k = m THEN step[m][f[m - 1]] ELSE f[k]]
  <2>2. f[m - 1] \in S /\ step[m][f[m - 1]] \in S
    BY <2>1
  <2>3. g \in [0..m -> S]
    BY <2>1, <2>2
  <2>4. g[0] = s0
    BY <2>1
  <2>5. ASSUME NEW k \in 1..m PROVE g[k] = step[k][g[k - 1]]
    <3>1. g[k - 1] = f[k - 1]
      OBVIOUS
    <3>2. CASE k = m
      BY <3>1, <3>2
    <3>3. CASE k # m
      <4>1. k \in 1..(m - 1) /\ g[k] = f[k]
        BY <3>3
      <4>2. f[k] = step[k][f[k - 1]]
        BY <4>1, <2>1
      <4> QED
        BY <4>1, <4>2, <3>1
    <3> QED
      BY <3>2, <3>3
  <2>6. g \in Sols(m)
    <3> HIDE DEF g
    <3> QED
      BY <2>3, <2>4, <2>5
  <2> HIDE DEF Sols
  <2> QED
    BY <2>6
<1>3. 0..n \subseteq Good
  <2> HIDE DEF Good
  <2> QED
    BY <1>1, <1>2, UpTo
<1>4. Sols(n) # {}
  BY <1>3
<1> QED
  BY <1>4 DEF Solution

-----------------------------------------------------------------------------
(* The algorithms: nodes and edges in order *)

\* What the algorithms need to know of a graph.
LEMMA GraphFacts ==
    ASSUME GInv
    PROVE  /\ mapped = nodes /\ nodes \in SUBSET Nat
           /\ IsFiniteSet(nodes) /\ Cardinality(nodes) \in Nat
           /\ edges \in SUBSET Nat
           /\ \A e \in edges : ends[e].head \in nodes /\ ends[e].tail \in nodes
           /\ \A n \in nodes : /\ out[n] = {e \in edges : ends[e].head = n}
                               /\ in[n] = {e \in edges : ends[e].tail = n}
           /\ \A es \in SUBSET edges : IsFiniteSet(es) /\ es \in SUBSET Nat
<1>1. /\ made \in Nat /\ MaxNodes \in Nat /\ made <= MaxNodes
      /\ nodes \in SUBSET (1..made) /\ edges \in SUBSET DOMAIN ends
      /\ ends \in Seq([head : NodeIds, tail : NodeIds, holds : BOOLEAN])
  BY GraphConstants DEF GInv, GraphTypeOK
<1>2. DOMAIN ends = 1..Len(ends) /\ Len(ends) \in Nat
  BY <1>1, LenProperties
<1>3. IsFiniteSet(nodes) /\ Cardinality(nodes) \in Nat
  <2>1. IsFiniteSet(1..made)
    BY <1>1, FS_Interval
  <2>2. IsFiniteSet(nodes)
    BY <1>1, <2>1, FS_Subset, Zenon
  <2> QED
    BY <2>2, FS_CardinalityType
<1>4. ASSUME NEW es \in SUBSET edges PROVE IsFiniteSet(es) /\ es \in SUBSET Nat
  <2>1. es \in SUBSET (1..Len(ends))
    BY <1>1, <1>2
  <2>2. IsFiniteSet(1..Len(ends))
    BY <1>2, FS_Interval
  <2>3. IsFiniteSet(es)
    BY <2>1, <2>2, FS_Subset, Zenon
  <2> QED
    BY <1>2, <2>1, <2>3
<1>5. nodes \in SUBSET Nat /\ edges \in SUBSET Nat /\ \A n \in nodes : n \in NodeIds
  BY <1>1, <1>2 DEF NodeIds
<1>6. /\ mapped = nodes
      /\ \A e \in edges : ends[e].head \in nodes /\ ends[e].tail \in nodes
      /\ \A n \in NodeIds : /\ out[n] = {e \in edges : ends[e].head = n}
                            /\ in[n] = {e \in edges : ends[e].tail = n}
  BY DEF GInv, AdjacencyMirrorsEdges
<1> QED
  BY <1>3, <1>4, <1>5, <1>6

Sorts(s, ids) ==
    /\ s \in [1..Cardinality(ids) -> ids]
    /\ \A i, j \in DOMAIN s : i < j => s[i] < s[j]

\* Every finite set of numbers can be sorted.
LEMMA CanSort ==
    ASSUME NEW ids \in SUBSET Nat, IsFiniteSet(ids)
    PROVE  \E s : Sorts(s, ids)
<1> DEFINE Bad == {T \in FiniteSubsetsOf(Nat) : ~\E s : Sorts(s, T)}
<1>1. SUFFICES ASSUME Bad # {} PROVE FALSE
  BY DEF FiniteSubsetsOf
<1>2. PICK T \in Bad : \A U \in Bad : <<U, T>> \notin StrictSubsetOrdering(Nat)
  <2>1. Bad \subseteq FiniteSubsetsOf(Nat)
    OBVIOUS
  <2> HIDE DEF Bad
  <2> QED
    BY <1>1, <2>1, FS_StrictSubsetOrderingWellFounded, WFMin
<1>3. T \in SUBSET Nat /\ IsFiniteSet(T) /\ ~\E s : Sorts(s, T)
  BY <1>2 DEF FiniteSubsetsOf
<1>4. T # {}
  <2>1. SUFFICES ASSUME T = {} PROVE FALSE
    OBVIOUS
  <2>2. Cardinality(T) = 0
    BY <2>1, FS_EmptySet
  <2>3. Sorts([i \in 1..0 |-> 0], T)
    BY <2>1, <2>2 DEF Sorts
  <2> QED
    BY <1>3, <2>3
<1> DEFINE x == Smallest(T)
           U == T \ {x}
           n == Cardinality(U)
<1>5. x \in T /\ \A y \in T : x <= y
  BY <1>3, <1>4, SmallestIs
<1> HIDE DEF x
<1>6. IsFiniteSet(U) /\ n \in Nat /\ Cardinality(T) = n + 1
  <2>1. IsFiniteSet(U) /\ n = Cardinality(T) - 1
    BY <1>3, <1>5, FS_RemoveElement
  <2>2. n \in Nat /\ Cardinality(T) \in Nat
    BY <1>3, <2>1, FS_CardinalityType
  <2> QED
    BY <2>1, <2>2
<1>7. PICK s : Sorts(s, U)
  <2>1. <<U, T>> \in StrictSubsetOrdering(Nat)
    BY <1>3, <1>5 DEF StrictSubsetOrdering
  <2>2. U \notin Bad
    BY <1>2, <2>1
  <2> QED
    BY <1>3, <1>6, <2>2 DEF FiniteSubsetsOf
<1> HIDE DEF n
<1> DEFINE new == [i \in 1..n + 1 |-> IF i = 1 THEN x ELSE s[i - 1]]
<1>8. /\ DOMAIN s = 1..n /\ \A i \in 1..n : s[i] \in U
      /\ \A i, j \in 1..n : i < j => s[i] < s[j]
  BY <1>7 DEF Sorts, n
<1>9. \A i \in 1..n + 1 : i # 1 => i - 1 \in 1..n /\ new[i] = s[i - 1] /\ new[i] \in U
  BY <1>6, <1>8
<1>10. new \in [1..n + 1 -> T]
  <2>1. \A i \in 1..n + 1 : new[i] \in T
    BY <1>5, <1>9
  <2> QED
    BY <2>1
<1>11. ASSUME NEW i \in 1..n + 1, NEW j \in 1..n + 1, i < j PROVE new[i] < new[j]
  <2>1. j # 1
    BY <1>6, <1>11
  <2>2. CASE i = 1
    <3>1. new[i] = x /\ new[j] \in T /\ new[j] # x
      BY <1>9, <2>1, <2>2
    <3> HIDE DEF new
    <3>2. x \in Nat /\ new[j] \in Nat /\ x <= new[j]
      BY <1>3, <1>5, <3>1
    <3> QED
      BY <3>1, <3>2
  <2>3. CASE i # 1
    <3>1. i - 1 < j - 1
      BY <1>6, <1>11
    <3> QED
      BY <1>8, <1>9, <2>1, <2>3, <3>1
  <2> QED
    BY <2>2, <2>3
<1>12. Sorts(new, T)
  <2> HIDE DEF new
  <2> QED
    BY <1>6, <1>10, <1>11 DEF Sorts
<1> QED
  BY <1>3, <1>12

\* InOrder lists a finite set of numbers, each once.
LEMMA InOrderIs ==
    ASSUME NEW ids \in SUBSET Nat, IsFiniteSet(ids)
    PROVE  LET s == InOrder(ids)
           IN  /\ s \in Seq(ids) /\ Len(s) = Cardinality(ids) /\ Cardinality(ids) \in Nat
               /\ \A i, j \in 1..Len(s) : i < j => s[i] < s[j]
               /\ \A x \in ids : \E i \in 1..Len(s) : s[i] = x
<1> DEFINE s == InOrder(ids)
           n == Cardinality(ids)
<1>1. n \in Nat
  BY FS_CardinalityType
<1>2. Sorts(s, ids)
  BY CanSort DEF Sorts, InOrder
<1> HIDE DEF s, n
<1>3. s \in [1..n -> ids] /\ \A i, j \in 1..n : i < j => s[i] < s[j]
  BY <1>2 DEF Sorts, n
<1>4. s \in Seq(ids) /\ Len(s) = n
  BY <1>1, <1>3
<1>5. ASSUME NEW x \in ids, \A i \in 1..n : s[i] # x PROVE FALSE
  <2>1. s \in [1..n -> ids \ {x}]
    BY <1>3, <1>5
  <2>2. IsFiniteSet(ids \ {x}) /\ Cardinality(ids \ {x}) = n - 1
    BY FS_RemoveElement DEF n
  <2>3. IsFiniteSet(1..n) /\ Cardinality(1..n) = n
    BY <1>1, FS_Interval
  <2>4. Cardinality(ids \ {x}) < Cardinality(1..n)
    BY <1>1, <2>2, <2>3
  <2>5. PICK i, j \in 1..n : i # j /\ s[i] = s[j]
    <3> DEFINE S == 1..n
               T == ids \ {x}
    <3>1. IsFiniteSet(S) /\ IsFiniteSet(T) /\ Cardinality(T) < Cardinality(S) /\ s \in [S -> T]
      BY <2>1, <2>2, <2>3, <2>4
    <3> HIDE DEF S, T
    <3>2. \E i, j \in S : i # j /\ s[i] = s[j]
      BY <3>1, FS_PigeonHole
    <3> QED
      BY <3>2 DEF S
  <2>6. s[i] \in Nat /\ s[j] \in Nat
    BY <1>3
  <2> QED
    BY <1>3, <2>5, <2>6
<1> QED
  BY <1>1, <1>3, <1>4, <1>5 DEF s, n

\* The tails of edges in order.
LEMMA TailsAre ==
    ASSUME GInv, NEW es \in SUBSET edges
    PROVE  /\ Tails(InOrder(es)) \in Seq(nodes)
           /\ Range(Tails(InOrder(es))) = {ends[e].tail : e \in es}
           /\ (\A e, f \in es : ends[e].tail = ends[f].tail => e = f)
                => IsInjective(Tails(InOrder(es)))
<1> DEFINE s == InOrder(es)
           t == Tails(s)
<1>1. /\ s \in Seq(es) /\ \A i, j \in 1..Len(s) : i < j => s[i] < s[j]
      /\ \A x \in es : \E i \in 1..Len(s) : s[i] = x
  BY GraphFacts, InOrderIs
<1> HIDE DEF s
<1>2. /\ DOMAIN s = 1..Len(s) /\ Len(s) \in Nat /\ \A i \in 1..Len(s) : s[i] \in es
  BY <1>1, LenProperties, ElementOfSeq
<1>3. t = [i \in 1..Len(s) |-> ends[s[i]].tail]
  BY <1>2 DEF Tails
<1>4. DOMAIN t = 1..Len(s) /\ \A i \in 1..Len(s) : t[i] = ends[s[i]].tail /\ t[i] \in nodes
  BY <1>2, <1>3, GraphFacts
<1>5. t \in Seq(nodes)
  <2> HIDE DEF t
  <2>1. t = [i \in 1..Len(s) |-> t[i]]
    BY <1>3, <1>4
  <2> QED
    BY <1>2, <1>4, <2>1
<1> HIDE DEF t
<1>6. Range(t) = {ends[e].tail : e \in es}
  <2>1. \A x \in Range(t) : x \in {ends[e].tail : e \in es}
    BY <1>2, <1>4 DEF Range
  <2>2. ASSUME NEW e \in es PROVE ends[e].tail \in Range(t)
    <3>1. PICK i \in 1..Len(s) : s[i] = e
      BY <1>1
    <3> QED
      BY <1>4, <3>1 DEF Range
  <2> QED
    BY <2>1, <2>2
<1>7. ASSUME \A e, f \in es : ends[e].tail = ends[f].tail => e = f,
             NEW i \in 1..Len(s), NEW j \in 1..Len(s), t[i] = t[j]
      PROVE  i = j
  <2>1. s[i] = s[j] /\ s[i] \in Nat
    BY <1>2, <1>4, <1>7, GraphFacts
  <2>2. ~(i < j) /\ ~(j < i)
    BY <1>1, <2>1
  <2> QED
    BY <2>2
<1> QED
  BY <1>4, <1>5, <1>6, <1>7 DEF t, s, IsInjective


-----------------------------------------------------------------------------
(* is_acyclic() *)

Outcomes == [ok : BOOLEAN, marks : Marks]

\* What there is after each of the visits of a loop.
Visits(after, visit, ns, marks) ==
    /\ after \in [0..Len(ns) -> Outcomes] /\ after[0] = Clear(marks)
    /\ \A i \in 1..Len(ns) :
        after[i] = IF after[i - 1].ok THEN visit[ns[i]][after[i - 1].marks] ELSE after[i - 1]

LEMMA VisitAllUnfolds ==
    ASSUME NEW visit \in [nodes -> [Marks -> Outcomes]],
           NEW ns \in Seq(nodes), NEW marks \in Marks
    PROVE  \E after : /\ Visits(after, visit, ns, marks)
                      /\ VisitAll(visit, ns, marks) = after[Len(ns)]
<1> DEFINE n == Len(ns)
           next(i, r) == IF r.ok THEN visit[ns[i]][r.marks] ELSE r
           body(f) == [i \in 0..n |-> IF i = 0 THEN Clear(marks)
                                      ELSE IF f[i - 1].ok THEN visit[ns[i]][f[i - 1].marks]
                                           ELSE f[i - 1]]
           after == CHOOSE f : f = body(f)
           step == [i \in 1..n |-> [r \in Outcomes |-> next(i, r)]]
<1>1. n \in Nat /\ \A i \in 1..n : ns[i] \in nodes
  BY LenProperties, ElementOfSeq
<1>2. Clear(marks) \in Outcomes
  BY DEF Clear, Outcomes
<1>3. \A i \in 1..n, r \in Outcomes : next(i, r) \in Outcomes
  <2>1. \A r \in Outcomes : r.marks \in Marks
    BY DEF Outcomes
  <2> QED
    BY <1>1, <2>1
<1> HIDE DEF n, body
<1>4. step \in [1..n -> [Outcomes -> Outcomes]]
  <2> HIDE DEF next
  <2> QED
    BY <1>3
<1>5. PICK f : Solution(f, n, Outcomes, Clear(marks), step)
  <2> HIDE DEF step
  <2> QED
    BY <1>1, <1>2, <1>4, Recursion
<1>6. /\ f \in [0..n -> Outcomes] /\ f[0] = Clear(marks)
      /\ \A i \in 1..n : f[i] = next(i, f[i - 1])
  <2>1. /\ f \in [0..n -> Outcomes] /\ f[0] = Clear(marks)
        /\ \A i \in 1..n : f[i] = step[i][f[i - 1]]
    BY <1>5 DEF Solution
  <2>2. ASSUME NEW i \in 1..n PROVE f[i] = next(i, f[i - 1])
    <3> HIDE DEF next
    <3>1. f[i - 1] \in Outcomes
      BY <1>1, <2>1
    <3> QED
      BY <2>1, <3>1
  <2> QED
    BY <2>1, <2>2
<1>7. f = body(f)
  <2>1. ASSUME NEW i \in 0..n
        PROVE  f[i] = IF i = 0 THEN Clear(marks) ELSE next(i, f[i - 1])
    <3>1. CASE i = 0
      BY <1>6, <3>1
    <3>2. CASE i # 0
      <4>1. i \in 1..n
        BY <1>1, <3>2
      <4> QED
        BY <1>6, <3>2, <4>1
    <3> QED
      BY <3>1, <3>2
  <2> QED
    BY <1>6, <2>1, Zenon DEF body
<1>8. after = body(after)
  BY <1>7
<1> HIDE DEF after
<1>9. \A i \in 0..n : after[i] = IF i = 0 THEN Clear(marks) ELSE next(i, after[i - 1])
  <2>1. PICK g : g = body(g) /\ g = after
    BY <1>8
  <2> QED
    BY <2>1, Zenon DEF body
<1>10. after[0] = Clear(marks) /\ \A i \in 1..n : after[i] = next(i, after[i - 1])
  <2>1. 0 \in 0..n /\ \A i \in 1..n : i \in 0..n /\ i # 0
    BY <1>1
  <2> HIDE DEF next
  <2> QED
    BY <1>9, <2>1
<1>11. after \in [0..n -> Outcomes]
  <2> DEFINE Good == {i \in 0..n : after[i] \in Outcomes}
  <2>1. 0 \in Good
    BY <1>1, <1>2, <1>10
  <2>2. ASSUME NEW i \in 1..n, i - 1 \in Good PROVE i \in Good
    <3> HIDE DEF next
    <3> QED
      BY <1>1, <1>3, <1>10, <2>2
  <2>3. 0..n \subseteq Good
    <3> HIDE DEF Good
    <3> QED
      BY <1>1, <2>1, <2>2, UpTo
  <2>4. \A i \in 0..n : after[i] \in Outcomes
    BY <2>3
  <2>5. PICK g : g = body(g) /\ g = after
    BY <1>8
  <2>6. DOMAIN after = 0..n /\ after = [i \in 0..n |-> after[i]]
    <3>1. g = [i \in 0..n |-> g[i]]
      BY <2>5 DEF body
    <3> QED
      BY <2>5, <3>1
  <2> QED
    BY <2>4, <2>6
<1>12. VisitAll(visit, ns, marks) = after[n]
  BY DEF VisitAll, after, body, n
<1> QED
  BY <1>10, <1>11, <1>12 DEF Visits, n

\* What is known of the visited nodes: so are their successors, and no edge of
\* theirs is in a cycle.
Sound(marks) ==
    \A e \in edges : marks[ends[e].head] = 2 =>
        marks[ends[e].tail] = 2 /\ ~Reaches(ends[e].tail, ends[e].head)

\* The nodes being visited lead to the node that is visited next.
Trail(marks, n) ==
    /\ \A m \in nodes : marks[m] = 1 => Reaches(m, n)
    /\ marks[n] = 1 => Cyclic

\* Visits start no node that they do not end.
Keeps(old, new) ==
    \A m \in nodes : /\ old[m] # 0 => new[m] = old[m]
                     /\ new[m] = 1 => old[m] = 1

\* A visit of the nodes of a set does what it should.
Right(r, marks, ns) ==
    /\ r \in Outcomes
    /\ ~r.ok => Cyclic
    /\ r.ok => Sound(r.marks) /\ Keeps(marks, r.marks) /\ \A n \in ns : r.marks[n] = 2

Unvisited(marks) == {m \in nodes : marks[m] = 0}

\* The visits of a depth do.
Explores(visit, depth) ==
    /\ visit \in [nodes -> [Marks -> Outcomes]]
    /\ \A n \in nodes, marks \in Marks :
        Sound(marks) /\ Trail(marks, n) /\ Cardinality(Unvisited(marks)) <= depth
            => Right(visit[n][marks], marks, {n})

\* With fewer nodes to visit, no deeper visits are needed.
LEMMA FewerUnvisited ==
    ASSUME GInv, NEW old \in Marks, NEW new \in Marks, Keeps(old, new)
    PROVE  /\ IsFiniteSet(Unvisited(old)) /\ Cardinality(Unvisited(old)) \in Nat
           /\ Cardinality(Unvisited(new)) \in Nat
           /\ Cardinality(Unvisited(new)) <= Cardinality(Unvisited(old))
<1>1. IsFiniteSet(nodes)
  BY GraphFacts
<1>2. Unvisited(old) \in SUBSET nodes /\ Unvisited(new) \in SUBSET Unvisited(old)
  BY DEF Unvisited, Keeps, Marks
<1>3. IsFiniteSet(Unvisited(old))
  BY <1>1, <1>2, FS_Subset, Zenon
<1>4. IsFiniteSet(Unvisited(new)) /\ Cardinality(Unvisited(new)) <= Cardinality(Unvisited(old))
  BY <1>2, <1>3, FS_Subset, Zenon
<1> QED
  BY <1>3, <1>4, FS_CardinalityType

LEMMA KeepsMore ==
    ASSUME NEW a \in Marks, NEW b \in Marks, NEW c \in Marks, Keeps(a, b), Keeps(b, c)
    PROVE  Keeps(a, c)
<1> SUFFICES ASSUME NEW m \in nodes PROVE (a[m] # 0 => c[m] = a[m]) /\ (c[m] = 1 => a[m] = 1)
  BY DEF Keeps
<1>1. /\ a[m] # 0 => b[m] = a[m]
      /\ b[m] = 1 => a[m] = 1
      /\ b[m] # 0 => c[m] = b[m]
      /\ c[m] = 1 => b[m] = 1
  BY DEF Keeps
<1> QED
  BY <1>1

\* A loop of visits does what its visits do.
LEMMA VisitAllIs ==
    ASSUME GInv, NEW visit, NEW depth \in Nat, Explores(visit, depth),
           NEW ns \in Seq(nodes), NEW marks \in Marks, Sound(marks),
           \A i \in 1..Len(ns) : Trail(marks, ns[i]),
           Cardinality(Unvisited(marks)) <= depth
    PROVE  Right(VisitAll(visit, ns, marks), marks, {ns[i] : i \in 1..Len(ns)})
<1>1. PICK after : Visits(after, visit, ns, marks) /\ VisitAll(visit, ns, marks) = after[Len(ns)]
  BY VisitAllUnfolds DEF Explores
<1> DEFINE n == Len(ns)
           Good == {k \in 0..n : Right(after[k], marks, {ns[i] : i \in 1..k})}
<1>2. /\ n \in Nat /\ \A i \in 1..n : ns[i] \in nodes
      /\ after \in [0..n -> Outcomes] /\ after[0] = Clear(marks)
      /\ \A i \in 1..n :
            after[i] = IF after[i - 1].ok THEN visit[ns[i]][after[i - 1].marks] ELSE after[i - 1]
  BY <1>1, LenProperties, ElementOfSeq DEF Visits
<1> HIDE DEF n
<1>3. Right(after[0], marks, {ns[i] : i \in 1..0})
  <2>1. after[0].ok = TRUE /\ after[0].marks = marks /\ after[0] \in Outcomes
    <3>1. PICK r : r = after[0] /\ r = Clear(marks)
      BY <1>2
    <3>2. r \in Outcomes /\ r.ok = TRUE /\ r.marks = marks
      BY <3>1 DEF Clear, Outcomes
    <3> QED
      BY <3>1, <3>2
  <2>2. {ns[i] : i \in 1..0} = {}
    OBVIOUS
  <2> QED
    BY <2>1, <2>2 DEF Right, Keeps
<1>4. ASSUME NEW k \in 1..n, Right(after[k - 1], marks, {ns[i] : i \in 1..k - 1})
      PROVE  Right(after[k], marks, {ns[i] : i \in 1..k})
  <2>1. PICK last, r : last = after[k - 1] /\ r = after[k]
    OBVIOUS
  <2>2. k - 1 \in 0..n /\ last \in Outcomes /\ last.marks \in Marks /\ last.ok \in BOOLEAN
    BY <1>2, <2>1 DEF Outcomes
  <2>3. CASE ~last.ok
    <3>1. r = last
      BY <1>2, <2>1, <2>3
    <3> QED
      BY <1>4, <2>1, <2>2, <2>3, <3>1 DEF Right
  <2>4. CASE last.ok
    <3>1. /\ Sound(last.marks) /\ Keeps(marks, last.marks)
          /\ \A i \in 1..k - 1 : last.marks[ns[i]] = 2
      BY <1>4, <2>1, <2>4 DEF Right
    <3>2. r = visit[ns[k]][last.marks] /\ ns[k] \in nodes
      BY <1>2, <2>1, <2>4
    <3>3. Trail(last.marks, ns[k])
      <4>1. Trail(marks, ns[k])
        BY DEF n
      <4> QED
        BY <3>1, <3>2, <4>1 DEF Trail, Keeps
    <3>4. Cardinality(Unvisited(last.marks)) <= depth
      BY <2>2, <3>1, FewerUnvisited
    <3>5. Right(r, last.marks, {ns[k]})
      BY <2>2, <3>1, <3>2, <3>3, <3>4 DEF Explores
    <3>6. CASE ~r.ok
      BY <2>1, <3>5, <3>6 DEF Right
    <3>7. CASE r.ok
      <4>1. /\ r \in Outcomes /\ r.marks \in Marks /\ Sound(r.marks)
            /\ Keeps(last.marks, r.marks) /\ r.marks[ns[k]] = 2
        BY <3>5, <3>7 DEF Right, Outcomes
      <4>2. Keeps(marks, r.marks)
        BY <2>2, <3>1, <4>1, KeepsMore
      <4>3. ASSUME NEW i \in 1..k PROVE r.marks[ns[i]] = 2
        <5>1. CASE i = k
          BY <4>1, <5>1
        <5>2. CASE i # k
          <6>1. i \in 1..k - 1 /\ ns[i] \in nodes
            BY <1>2, <5>2
          <6>2. last.marks[ns[i]] = 2
            BY <3>1, <6>1
          <6> QED
            BY <4>1, <6>1, <6>2 DEF Keeps
        <5> QED
          BY <5>1, <5>2
      <4> QED
        BY <2>1, <3>7, <4>1, <4>2, <4>3 DEF Right
    <3> QED
      BY <3>6, <3>7
  <2> QED
    BY <2>3, <2>4
<1>5. 0..n \subseteq Good
  <2>1. 0 \in Good
    BY <1>2, <1>3
  <2>2. ASSUME NEW k \in 1..n, k - 1 \in Good PROVE k \in Good
    <3>1. k \in 0..n
      BY <1>2
    <3> QED
      BY <1>4, <2>2, <3>1
  <2> HIDE DEF Good
  <2> QED
    BY <1>2, <2>1, <2>2, UpTo
<1>6. Right(after[n], marks, {ns[i] : i \in 1..n})
  <2>1. n \in 0..n
    BY <1>2
  <2> QED
    BY <1>5, <2>1
<1> QED
  BY <1>1, <1>6 DEF n

Visitors == [nodes -> [Marks -> Outcomes]]

\* A visit whose calls are those of another function.
Enter(visit, n, marks) ==
    IF marks[n] = 2 THEN Clear(marks)
    ELSE IF marks[n] = 1 THEN Cycle(marks)
    ELSE LET below == VisitAll(visit, Tails(InOrder(out[n])), [marks EXCEPT ![n] = 1])
         IN  IF below.ok THEN Clear(Cleared(below.marks, n)) ELSE below

LEMMA VisitAllType ==
    ASSUME NEW visit \in Visitors, NEW ns \in Seq(nodes), NEW marks \in Marks
    PROVE  VisitAll(visit, ns, marks) \in Outcomes
<1>1. PICK after : Visits(after, visit, ns, marks) /\ VisitAll(visit, ns, marks) = after[Len(ns)]
  BY VisitAllUnfolds DEF Visitors
<1>2. Len(ns) \in 0..Len(ns)
  BY LenProperties
<1> QED
  BY <1>1, <1>2 DEF Visits

\* The successors of a node, in the order of the edges.
LEMMA SuccessorsAre ==
    ASSUME GInv, NEW n \in nodes
    PROVE  LET ns == Tails(InOrder(out[n]))
           IN  /\ ns \in Seq(nodes)
               /\ {ns[i] : i \in 1..Len(ns)}
                    = {ends[e].tail : e \in {f \in edges : ends[f].head = n}}
<1> DEFINE es == {f \in edges : ends[f].head = n}
           ns == Tails(InOrder(out[n]))
<1>1. out[n] = es /\ es \in SUBSET edges
  BY GraphFacts
<1>2. ns \in Seq(nodes) /\ Range(ns) = {ends[e].tail : e \in es}
  BY <1>1, TailsAre
<1>3. Range(ns) = {ns[i] : i \in 1..Len(ns)}
  <2> HIDE DEF ns
  <2> QED
    BY <1>2, RangeEquality
<1> QED
  BY <1>2, <1>3

LEMMA EnterType ==
    ASSUME GInv, NEW visit \in Visitors, NEW n \in nodes, NEW marks \in Marks
    PROVE  Enter(visit, n, marks) \in Outcomes
<1>1. Clear(marks) \in Outcomes /\ Cycle(marks) \in Outcomes
  BY DEF Clear, Cycle, Outcomes
<1>2. [marks EXCEPT ![n] = 1] \in Marks
  BY DEF Marks
<1>3. PICK below : below = VisitAll(visit, Tails(InOrder(out[n])), [marks EXCEPT ![n] = 1])
  OBVIOUS
<1>4. below \in Outcomes /\ below.marks \in Marks
  <2>1. Tails(InOrder(out[n])) \in Seq(nodes)
    BY SuccessorsAre
  <2>2. below \in Outcomes
    BY <1>2, <1>3, <2>1, VisitAllType
  <2> QED
    BY <2>2 DEF Outcomes
<1>5. Clear(Cleared(below.marks, n)) \in Outcomes
  BY <1>4 DEF Clear, Cleared, Outcomes, Marks
<1> QED
  BY <1>1, <1>3, <1>4, <1>5 DEF Enter

\* The visits of each depth are made of those of the depth below.
Levels(visit) ==
    LET N == Cardinality(nodes)
    IN  /\ visit \in [0..N -> Visitors]
        /\ visit[0] = [n \in nodes |-> [marks \in Marks |->
                            IF marks[n] = 2 THEN Clear(marks) ELSE Cycle(marks)]]
        /\ \A d \in 1..N : visit[d] = [n \in nodes |-> [marks \in Marks |->
                                            Enter(visit[d - 1], n, marks)]]

LEMMA VisitUnfolds ==
    ASSUME GInv
    PROVE  \E visit : Levels(visit) /\ Visit = visit[Cardinality(nodes)]
<1> DEFINE N == Cardinality(nodes)
           bottom == [n \in nodes |-> [marks \in Marks |->
                        IF marks[n] = 2 THEN Clear(marks) ELSE Cycle(marks)]]
           level(v) == [n \in nodes |-> [marks \in Marks |-> Enter(v, n, marks)]]
           body(f) == [d \in 0..N |-> [n \in nodes |-> [marks \in Marks |->
                IF marks[n] = 2 THEN Clear(marks)
                ELSE IF marks[n] = 1 \/ d = 0 THEN Cycle(marks)
                ELSE LET below == VisitAll(f[d - 1], Tails(InOrder(out[n])),
                                           [marks EXCEPT ![n] = 1])
                     IN  IF below.ok THEN Clear(Cleared(below.marks, n)) ELSE below]]]
           visit == CHOOSE f : f = body(f)
           step == [d \in 1..N |-> [v \in Visitors |-> level(v)]]
<1>1. N \in Nat
  BY GraphFacts
<1>2. bottom \in Visitors
  BY DEF Visitors, Clear, Cycle, Outcomes
<1>3. \A v \in Visitors : level(v) \in Visitors
  <2>1. \A v \in Visitors, n \in nodes, marks \in Marks : Enter(v, n, marks) \in Outcomes
    BY EnterType
  <2> QED
    BY <2>1 DEF Visitors
<1>4. ASSUME NEW f PROVE body(f) = [d \in 0..N |-> IF d = 0 THEN bottom ELSE level(f[d - 1])]
  <2> DEFINE entry(d, n, marks) ==
                IF marks[n] = 2 THEN Clear(marks)
                ELSE IF marks[n] = 1 \/ d = 0 THEN Cycle(marks)
                ELSE LET below == VisitAll(f[d - 1], Tails(InOrder(out[n])),
                                           [marks EXCEPT ![n] = 1])
                     IN  IF below.ok THEN Clear(Cleared(below.marks, n)) ELSE below
  <2>1. ASSUME NEW d \in 0..N, NEW n \in nodes, NEW marks \in Marks
        PROVE  /\ d # 0 => entry(d, n, marks) = Enter(f[d - 1], n, marks)
               /\ d = 0 => entry(d, n, marks) =
                                IF marks[n] = 2 THEN Clear(marks) ELSE Cycle(marks)
    <3>1. CASE d = 0
      BY <3>1
    <3>2. CASE d # 0
      BY <3>2, Zenon DEF Enter
    <3> QED
      BY <3>1, <3>2
  <2> HIDE DEF entry
  <2>2. ASSUME NEW d \in 0..N
        PROVE  [n \in nodes |-> [marks \in Marks |-> entry(d, n, marks)]]
               = IF d = 0 THEN bottom ELSE level(f[d - 1])
    <3>1. CASE d = 0
      BY <2>1, <3>1
    <3>2. CASE d # 0
      BY <2>1, <3>2
    <3> QED
      BY <3>1, <3>2
  <2>3. [d \in 0..N |-> [n \in nodes |-> [marks \in Marks |-> entry(d, n, marks)]]]
        = [d \in 0..N |-> IF d = 0 THEN bottom ELSE level(f[d - 1])]
    <3> HIDE DEF bottom, level
    <3> QED
      BY <2>2
  <2> QED
    BY <2>3, Zenon DEF entry
<1> HIDE DEF N, body, level, bottom
<1>5. PICK f : Solution(f, N, Visitors, bottom, step)
  <2>1. step \in [1..N -> [Visitors -> Visitors]]
    BY <1>3
  <2> HIDE DEF step
  <2> QED
    BY <1>1, <1>2, <2>1, Recursion
<1>6. /\ f \in [0..N -> Visitors] /\ f[0] = bottom
      /\ \A d \in 1..N : f[d] = level(f[d - 1])
  <2>1. /\ f \in [0..N -> Visitors] /\ f[0] = bottom
        /\ \A d \in 1..N : f[d] = step[d][f[d - 1]]
    BY <1>5 DEF Solution
  <2>2. ASSUME NEW d \in 1..N PROVE f[d] = level(f[d - 1])
    <3>1. f[d - 1] \in Visitors
      BY <1>1, <2>1
    <3> QED
      BY <2>1, <3>1
  <2> QED
    BY <2>1, <2>2
<1>7. f = body(f)
  <2>1. ASSUME NEW d \in 0..N PROVE f[d] = IF d = 0 THEN bottom ELSE level(f[d - 1])
    <3>1. CASE d = 0
      BY <1>6, <3>1
    <3>2. CASE d # 0
      <4>1. d \in 1..N
        BY <1>1, <3>2
      <4> QED
        BY <1>6, <3>2, <4>1
    <3> QED
      BY <3>1, <3>2
  <2>2. f = [d \in 0..N |-> IF d = 0 THEN bottom ELSE level(f[d - 1])]
    BY <1>6, <2>1
  <2> QED
    BY <1>4, <2>2
<1>8. visit = body(visit)
  BY <1>7
<1> HIDE DEF visit
<1>9. /\ DOMAIN visit = 0..N
      /\ \A d \in 0..N : visit[d] = IF d = 0 THEN bottom ELSE level(visit[d - 1])
  <2>1. PICK g : g = body(g) /\ g = visit
    BY <1>8
  <2>2. g = [d \in 0..N |-> IF d = 0 THEN bottom ELSE level(g[d - 1])]
    BY <1>4, <2>1
  <2>3. DOMAIN g = 0..N /\ \A d \in 0..N : g[d] = IF d = 0 THEN bottom ELSE level(g[d - 1])
    BY <2>2, Zenon
  <2> QED
    BY <2>1, <2>3
<1>10. visit[0] = bottom /\ \A d \in 1..N : visit[d] = level(visit[d - 1])
  <2>1. 0 \in 0..N /\ \A d \in 1..N : d \in 0..N /\ d # 0
    BY <1>1
  <2> QED
    BY <1>9, <2>1
<1>11. visit \in [0..N -> Visitors]
  <2> DEFINE Good == {d \in 0..N : visit[d] \in Visitors}
  <2>1. 0 \in Good
    BY <1>1, <1>2, <1>10
  <2>2. ASSUME NEW d \in 1..N, d - 1 \in Good PROVE d \in Good
    BY <1>1, <1>3, <1>10, <2>2
  <2>3. 0..N \subseteq Good
    <3> HIDE DEF Good
    <3> QED
      BY <1>1, <2>1, <2>2, UpTo
  <2>4. \A d \in 0..N : visit[d] \in Visitors
    BY <2>3
  <2>5. visit = [d \in 0..N |-> visit[d]]
    <3>1. PICK g : g = body(g) /\ g = visit
      BY <1>8
    <3>2. g = [d \in 0..N |-> g[d]]
      BY <3>1, <1>4
    <3> QED
      BY <3>1, <3>2
  <2> QED
    BY <2>4, <2>5
<1>12. Visit = visit[N]
  BY DEF Visit, visit, body, N
<1> QED
  BY <1>10, <1>11, <1>12 DEF Levels, N, level, bottom

\* A visit of a node that was visited before ends at once.
LEMMA EnterEnds ==
    ASSUME GInv, NEW visit, NEW n \in nodes, NEW marks \in Marks,
           Sound(marks), Trail(marks, n), marks[n] # 0
    PROVE  Right(Enter(visit, n, marks), marks, {n})
<1>1. CASE marks[n] = 2
  <2>1. PICK r : r = Enter(visit, n, marks) /\ r = Clear(marks)
    BY <1>1 DEF Enter
  <2>2. r \in Outcomes /\ r.ok = TRUE /\ r.marks = marks
    BY <2>1 DEF Clear, Outcomes
  <2>3. Right(r, marks, {n})
    BY <1>1, <2>2 DEF Right, Keeps
  <2> QED
    BY <2>1, <2>3
<1>2. CASE marks[n] = 1
  <2>1. PICK r : r = Enter(visit, n, marks) /\ r = Cycle(marks)
    BY <1>2 DEF Enter
  <2>2. r \in Outcomes /\ r.ok = FALSE
    BY <2>1 DEF Cycle, Outcomes
  <2>3. Cyclic
    BY <1>2 DEF Trail
  <2>4. Right(r, marks, {n})
    BY <2>2, <2>3 DEF Right
  <2> QED
    BY <2>1, <2>4
<1> QED
  BY <1>1, <1>2 DEF Marks

\* A visit whose calls do what they should does so too.
LEMMA EnterIs ==
    ASSUME GInv, NEW visit, NEW depth \in Nat, Explores(visit, depth),
           NEW n \in nodes, NEW marks \in Marks, Sound(marks), Trail(marks, n),
           Cardinality(Unvisited(marks)) <= depth + 1
    PROVE  Right(Enter(visit, n, marks), marks, {n})
<1>1. CASE marks[n] # 0
  BY <1>1, EnterEnds
<1>2. CASE marks[n] = 0
  <2> DEFINE entered == [marks EXCEPT ![n] = 1]
             ns == Tails(InOrder(out[n]))
  <2>1. PICK below, r : below = VisitAll(visit, ns, entered) /\ r = Enter(visit, n, marks)
    OBVIOUS
  <2>2. r = IF below.ok THEN Clear(Cleared(below.marks, n)) ELSE below
    BY <1>2, <2>1 DEF Enter
  <2>3. /\ entered \in Marks /\ entered[n] = 1
        /\ \A m \in nodes : m # n => entered[m] = marks[m]
    BY DEF Marks
  <2>4. /\ ns \in Seq(nodes)
        /\ \A i \in 1..Len(ns) : \E e \in edges : ends[e].head = n /\ ends[e].tail = ns[i]
        /\ \A e \in edges : ends[e].head = n => \E i \in 1..Len(ns) : ends[e].tail = ns[i]
    <3>1. PICK s : s = ns
      OBVIOUS
    <3>2. /\ s \in Seq(nodes)
          /\ {s[i] : i \in 1..Len(s)} = {ends[e].tail : e \in {f \in edges : ends[f].head = n}}
      BY <3>1, SuccessorsAre
    <3>3. ASSUME NEW i \in 1..Len(s)
          PROVE  \E e \in edges : ends[e].head = n /\ ends[e].tail = s[i]
      BY <3>2
    <3>4. ASSUME NEW e \in edges, ends[e].head = n PROVE \E i \in 1..Len(s) : ends[e].tail = s[i]
      BY <3>2, <3>4
    <3> QED
      BY <3>1, <3>2, <3>3, <3>4
  <2> HIDE DEF entered, ns
  <2>5. \A e \in edges : ends[e].head \in nodes /\ ends[e].tail \in nodes
    BY GraphFacts
  <2>6. Sound(entered)
    <3> SUFFICES ASSUME NEW e \in edges, entered[ends[e].head] = 2
                 PROVE  entered[ends[e].tail] = 2 /\ ~Reaches(ends[e].tail, ends[e].head)
      BY DEF Sound
    <3>1. ends[e].head # n /\ marks[ends[e].head] = 2
      BY <2>3, <2>5
    <3>2. marks[ends[e].tail] = 2 /\ ~Reaches(ends[e].tail, ends[e].head)
      BY <3>1 DEF Sound
    <3> QED
      BY <1>2, <2>3, <2>5, <3>2
  <2>7. ASSUME NEW i \in 1..Len(ns) PROVE Trail(entered, ns[i])
    <3>1. PICK e \in edges : ends[e].head = n /\ ends[e].tail = ns[i]
      BY <2>4
    <3>2. ASSUME NEW m \in nodes, entered[m] = 1 PROVE Reaches(m, ns[i])
      <4>1. Reaches(m, n)
        BY <2>3, <3>2 DEF Trail, Reaches
      <4> QED
        BY <3>1, <4>1 DEF Reaches
    <3>3. ASSUME entered[ns[i]] = 1 PROVE Cyclic
      <4>1. Reaches(ns[i], n)
        BY <2>3, <2>5, <3>1, <3>3 DEF Trail, Reaches
      <4> QED
        BY <3>1, <4>1 DEF Cyclic
    <3> QED
      BY <3>2, <3>3 DEF Trail
  <2>8. Cardinality(Unvisited(entered)) <= depth
    <3>1. Unvisited(entered) = Unvisited(marks) \ {n} /\ n \in Unvisited(marks)
      BY <1>2, <2>3 DEF Unvisited
    <3>2. IsFiniteSet(Unvisited(marks)) /\ Cardinality(Unvisited(marks)) \in Nat
      <4>1. Keeps(marks, marks)
        BY DEF Keeps
      <4> QED
        BY <4>1, FewerUnvisited
    <3>3. Cardinality(Unvisited(entered)) = Cardinality(Unvisited(marks)) - 1
      BY <3>1, <3>2, FS_RemoveElement
    <3> QED
      BY <3>2, <3>3
  <2>9. Right(below, entered, {ns[i] : i \in 1..Len(ns)})
    BY <2>1, <2>3, <2>4, <2>6, <2>7, <2>8, VisitAllIs
  <2>10. CASE ~below.ok
    BY <2>1, <2>2, <2>9, <2>10 DEF Right
  <2>11. CASE below.ok
    <3>1. /\ below.marks \in Marks /\ Sound(below.marks) /\ Keeps(entered, below.marks)
          /\ \A i \in 1..Len(ns) : below.marks[ns[i]] = 2
      BY <2>9, <2>11 DEF Right, Outcomes
    <3>2. PICK new : new = Cleared(below.marks, n)
      OBVIOUS
    <3>3. /\ new \in Marks /\ new[n] = 2 /\ \A m \in nodes : m # n => new[m] = below.marks[m]
      BY <3>1, <3>2 DEF Cleared, Marks
    <3>4. r.ok = TRUE /\ r.marks = new /\ r \in Outcomes
      BY <2>2, <2>11, <3>2, <3>3 DEF Clear, Outcomes
    <3>5. Sound(new)
      <4> SUFFICES ASSUME NEW e \in edges, new[ends[e].head] = 2
                   PROVE  new[ends[e].tail] = 2 /\ ~Reaches(ends[e].tail, ends[e].head)
        BY DEF Sound
      <4>1. CASE ends[e].head = n
        <5>1. below.marks[ends[e].tail] = 2
          BY <2>4, <3>1, <4>1
        <5>2. below.marks[n] = 1
          BY <2>3, <3>1 DEF Keeps
        <5>3. ~Reaches(ends[e].tail, n)
          <6> DEFINE set == {m \in nodes : below.marks[m] = 2}
          <6>1. set \in SUBSET nodes /\ ends[e].tail \in set /\ n \notin set
            BY <2>5, <5>1, <5>2
          <6>2. \A f \in edges : ends[f].head \in set => ends[f].tail \in set
            BY <2>5, <3>1 DEF Sound
          <6> HIDE DEF set
          <6> QED
            BY <6>1, <6>2 DEF Reaches
        <5>4. ends[e].tail # n
          BY <5>1, <5>2
        <5> QED
          BY <2>5, <3>3, <4>1, <5>1, <5>3, <5>4
      <4>2. CASE ends[e].head # n
        <5>1. below.marks[ends[e].head] = 2
          BY <2>5, <3>3, <4>2
        <5>2. below.marks[ends[e].tail] = 2 /\ ~Reaches(ends[e].tail, ends[e].head)
          BY <3>1, <5>1 DEF Sound
        <5> QED
          BY <2>5, <3>3, <5>2
      <4> QED
        BY <4>1, <4>2
    <3>6. Keeps(marks, new)
      <4> SUFFICES ASSUME NEW m \in nodes
                   PROVE  (marks[m] # 0 => new[m] = marks[m]) /\ (new[m] = 1 => marks[m] = 1)
        BY DEF Keeps
      <4>1. CASE m = n
        BY <1>2, <3>3, <4>1
      <4>2. CASE m # n
        <5>1. entered[m] = marks[m] /\ new[m] = below.marks[m]
          BY <2>3, <3>3, <4>2
        <5>2. /\ entered[m] # 0 => below.marks[m] = entered[m]
              /\ below.marks[m] = 1 => entered[m] = 1
          BY <3>1 DEF Keeps
        <5> QED
          BY <5>1, <5>2
      <4> QED
        BY <4>1, <4>2
    <3> QED
      BY <2>1, <3>3, <3>4, <3>5, <3>6 DEF Right
  <2> QED
    BY <2>10, <2>11
<1> QED
  BY <1>1, <1>2

\* No more calls of visit() are ever nested than there are nodes.
LEMMA VisitIs ==
    ASSUME GInv
    PROVE  Explores(Visit, Cardinality(nodes))
<1>1. PICK visit : Levels(visit) /\ Visit = visit[Cardinality(nodes)]
  BY VisitUnfolds
<1> DEFINE N == Cardinality(nodes)
           Good == {d \in 0..N : Explores(visit[d], d)}
<1>2. /\ N \in Nat /\ visit \in [0..N -> Visitors]
      /\ \A d \in 1..N : visit[d] = [n \in nodes |-> [marks \in Marks |->
                                            Enter(visit[d - 1], n, marks)]]
  BY <1>1, GraphFacts DEF Levels
<1>3. visit[0] = [n \in nodes |-> [marks \in Marks |->
                    IF marks[n] = 2 THEN Clear(marks) ELSE Cycle(marks)]]
  BY <1>1 DEF Levels
<1> HIDE DEF N
<1>4. Explores(visit[0], 0)
  <2>1. visit[0] \in Visitors
    BY <1>2
  <2> SUFFICES ASSUME NEW n \in nodes, NEW marks \in Marks, Sound(marks), Trail(marks, n),
                      Cardinality(Unvisited(marks)) <= 0
               PROVE  Right(visit[0][n][marks], marks, {n})
    BY <2>1 DEF Explores, Visitors
  <2>2. marks[n] # 0
    <3>1. Keeps(marks, marks)
      BY DEF Keeps
    <3>2. /\ IsFiniteSet(Unvisited(marks)) /\ Cardinality(Unvisited(marks)) \in Nat
      BY <3>1, FewerUnvisited
    <3>3. Unvisited(marks) = {}
      BY <3>2, FS_EmptySet
    <3> QED
      BY <3>3 DEF Unvisited
  <2>3. visit[0][n] = [m \in Marks |-> IF m[n] = 2 THEN Clear(m) ELSE Cycle(m)]
    BY <1>3
  <2>4. visit[0][n][marks] = IF marks[n] = 2 THEN Clear(marks) ELSE Cycle(marks)
    BY <2>3
  <2>5. visit[0][n][marks] = Enter(Visit, n, marks)
    <3>1. marks[n] \in 0..2
      BY DEF Marks
    <3>2. CASE marks[n] = 2
      BY <2>4, <3>2 DEF Enter
    <3>3. CASE marks[n] = 1
      BY <2>4, <3>3 DEF Enter
    <3> QED
      BY <2>2, <3>1, <3>2, <3>3
  <2> QED
    BY <2>2, <2>5, EnterEnds
<1>5. ASSUME NEW d \in 1..N, Explores(visit[d - 1], d - 1) PROVE Explores(visit[d], d)
  <2>1. visit[d] \in Visitors
    BY <1>2
  <2> SUFFICES ASSUME NEW n \in nodes, NEW marks \in Marks, Sound(marks), Trail(marks, n),
                      Cardinality(Unvisited(marks)) <= d
               PROVE  Right(visit[d][n][marks], marks, {n})
    BY <2>1 DEF Explores, Visitors
  <2>2. visit[d][n][marks] = Enter(visit[d - 1], n, marks)
    <3>1. visit[d] = [m \in nodes |-> [ms \in Marks |-> Enter(visit[d - 1], m, ms)]]
      BY <1>2
    <3>2. visit[d][n] = [ms \in Marks |-> Enter(visit[d - 1], n, ms)]
      BY <3>1
    <3> QED
      BY <3>2
  <2>3. d - 1 \in Nat /\ (d - 1) + 1 = d
    BY <1>2
  <2> QED
    BY <1>5, <2>2, <2>3, EnterIs
<1>6. 0..N \subseteq Good
  <2>1. 0 \in Good
    BY <1>2, <1>4
  <2>2. ASSUME NEW d \in 1..N, d - 1 \in Good PROVE d \in Good
    <3>1. d \in 0..N
      BY <1>2
    <3> QED
      BY <1>5, <2>2, <3>1
  <2> HIDE DEF Good
  <2> QED
    BY <1>2, <2>1, <2>2, UpTo
<1>7. N \in 0..N
  BY <1>2
<1>8. Explores(visit[N], N)
  BY <1>6, <1>7
<1> QED
  BY <1>1, <1>8 DEF N

\* is_acyclic() is right.
LEMMA IsAcyclicIs ==
    ASSUME GInv
    PROVE  IsAcyclic <=> ~Cyclic
<1> DEFINE unmarked == [n \in nodes |-> 0]
           ns == Reverse(InOrder(nodes))
<1>1. PICK r : r = VisitAll(Visit, ns, unmarked)
  OBVIOUS
<1>2. unmarked \in Marks /\ \A n \in nodes : unmarked[n] = 0
  BY DEF Marks
<1>3. ns \in Seq(nodes) /\ {ns[i] : i \in 1..Len(ns)} = nodes
  <2>1. PICK s : s = InOrder(nodes)
    OBVIOUS
  <2>2. /\ s \in Seq(nodes) /\ Len(s) \in Nat
        /\ \A x \in nodes : \E i \in 1..Len(s) : s[i] = x
    BY <2>1, GraphFacts, InOrderIs
  <2>3. \A i \in 1..Len(s) : s[i] \in nodes
    BY <2>2, ElementOfSeq
  <2>4. PICK t : t = ns
    OBVIOUS
  <2>5. t = [i \in 1..Len(s) |-> s[(Len(s) - i) + 1]]
    BY <2>1, <2>4 DEF Reverse
  <2>6. t \in [1..Len(s) -> nodes]
    <3>1. \A i \in 1..Len(s) : (Len(s) - i) + 1 \in 1..Len(s)
      BY <2>2
    <3> QED
      BY <2>3, <2>5, <3>1
  <2>7. t \in Seq(nodes) /\ Len(t) = Len(s)
    BY <2>2, <2>6
  <2>8. \A i \in 1..Len(t) : t[i] \in nodes
    BY <2>6, <2>7
  <2>9. ASSUME NEW x \in nodes PROVE \E i \in 1..Len(t) : t[i] = x
    <3>1. PICK i \in 1..Len(s) : s[i] = x
      BY <2>2
    <3>2. (Len(s) - i) + 1 \in 1..Len(s) /\ (Len(s) - ((Len(s) - i) + 1)) + 1 = i
      BY <2>2
    <3>3. t[(Len(s) - i) + 1] = x
      BY <2>5, <3>1, <3>2
    <3> QED
      BY <2>7, <3>2, <3>3
  <2>10. {t[i] : i \in 1..Len(t)} = nodes
    BY <2>8, <2>9
  <2> QED
    BY <2>4, <2>7, <2>10
<1> HIDE DEF unmarked, ns
<1>4. \A e \in edges : ends[e].head \in nodes /\ ends[e].tail \in nodes
  BY GraphFacts
<1>5. Sound(unmarked)
  BY <1>2, <1>4 DEF Sound
<1>6. \A i \in 1..Len(ns) : Trail(unmarked, ns[i])
  <2>1. \A i \in 1..Len(ns) : ns[i] \in nodes
    BY <1>3
  <2> QED
    BY <1>2, <2>1 DEF Trail
<1>7. Cardinality(Unvisited(unmarked)) <= Cardinality(nodes) /\ Cardinality(nodes) \in Nat
  <2>1. Unvisited(unmarked) = nodes
    BY <1>2 DEF Unvisited
  <2> QED
    BY <2>1, GraphFacts
<1>8. Right(r, unmarked, nodes)
  BY <1>1, <1>2, <1>3, <1>5, <1>6, <1>7, VisitIs, VisitAllIs
<1>9. ASSUME r.ok PROVE ~Cyclic
  BY <1>4, <1>8, <1>9 DEF Right, Sound, Cyclic
<1>10. IsAcyclic = r.ok
  BY <1>1 DEF IsAcyclic, ns, unmarked
<1> QED
  BY <1>8, <1>9, <1>10 DEF Right

-----------------------------------------------------------------------------
(* topological_sort() *)

LEMMA ConcatInjective ==
    ASSUME NEW S, NEW a \in Seq(S), NEW b \in Seq(S), IsInjective(a), IsInjective(b),
           Range(a) \cap Range(b) = {}
    PROVE  IsInjective(a \o b)
<1>1. PICK c : c = a \o b
  OBVIOUS
<1>2. /\ Len(a) \in Nat /\ Len(b) \in Nat /\ DOMAIN a = 1..Len(a) /\ DOMAIN b = 1..Len(b)
      /\ c \in Seq(S) /\ DOMAIN c = 1..Len(a) + Len(b)
      /\ \A i \in DOMAIN c : c[i] = IF i <= Len(a) THEN a[i] ELSE b[i - Len(a)]
  BY <1>1, LenProperties, ConcatProperties
<1>3. \A i \in DOMAIN a, j \in DOMAIN b : a[i] # b[j]
  BY DEF Range
<1> SUFFICES ASSUME NEW i \in DOMAIN c, NEW j \in DOMAIN c, c[i] = c[j] PROVE i = j
  BY <1>1 DEF IsInjective
<1>4. CASE i <= Len(a) /\ j <= Len(a)
  <2>1. i \in DOMAIN a /\ j \in DOMAIN a /\ a[i] = a[j]
    BY <1>2, <1>4
  <2> QED
    BY <2>1 DEF IsInjective
<1>5. CASE i > Len(a) /\ j > Len(a)
  <2>1. i - Len(a) \in DOMAIN b /\ j - Len(a) \in DOMAIN b /\ b[i - Len(a)] = b[j - Len(a)]
    BY <1>2, <1>5
  <2>2. i - Len(a) = j - Len(a)
    BY <2>1 DEF IsInjective
  <2> QED
    BY <1>2, <2>2
<1>6. CASE i <= Len(a) /\ j > Len(a)
  BY <1>2, <1>3, <1>6
<1>7. CASE i > Len(a) /\ j <= Len(a)
  BY <1>2, <1>3, <1>7
<1> QED
  BY <1>2, <1>4, <1>5, <1>6, <1>7

LEMMA Regroup ==
    \A S : \A s, t, u \in Seq(S) : (s \o t) \o u = s \o (t \o u)
  BY ConcatAssociative

\* The first of a queue moves to the end of a list, and others join the queue.
LEMMA MoveFirst ==
    ASSUME NEW S, NEW a \in Seq(S), NEW q \in Seq(S), q # <<>>, NEW b \in Seq(S)
    PROVE  Append(a, Head(q)) \o (Tail(q) \o b) = (a \o q) \o b
<1> DEFINE x == Head(q)
           t == Tail(q)
<1>1. x \in S /\ t \in Seq(S) /\ <<x>> \in Seq(S)
  BY HeadTailProperties
<1>2. q = <<x>> \o t
  <2>1. Len(q) \in Nat /\ Len(q) # 0
    BY EmptySeq
  <2>2. /\ Len(<<x>> \o t) = Len(q) /\ <<x>> \o t \in Seq(S)
        /\ \A i \in 1..Len(q) : (<<x>> \o t)[i] = IF i = 1 THEN x ELSE t[i - 1]
    BY <1>1, <2>1, HeadTailProperties, ConcatProperties
  <2>3. x = q[1] /\ \A i \in 1..Len(q) : i # 1 => t[i - 1] = q[i]
    BY <2>1, HeadTailProperties
  <2>4. \A i \in 1..Len(q) : q[i] = (<<x>> \o t)[i]
    <3> HIDE DEF x, t
    <3> QED
      BY <2>2, <2>3
  <2> QED
    BY <2>2, <2>4, SeqEqual
<1>3. Append(a, x) = a \o <<x>>
  BY <1>1, AppendIsConcat
<1> HIDE DEF x, t
<1>4. t \o b \in Seq(S)
  BY <1>1, ConcatProperties
<1>5. Append(a, x) \o (t \o b) = a \o (<<x>> \o (t \o b))
  BY <1>1, <1>3, <1>4, Regroup
<1>6. <<x>> \o (t \o b) = q \o b
  BY <1>1, <1>2, Regroup
<1>7. a \o (q \o b) = (a \o q) \o b
  BY Regroup
<1>8. Append(a, x) \o (t \o b) = (a \o q) \o b
  BY <1>5, <1>6, <1>7
<1> QED
  BY <1>8 DEF x, t

SortStates == [queue : Seq(nodes), degree : [mapped -> Int], result : Seq(nodes)]

\* The edges to a node from nodes that are not sorted yet.
Open(m, result) == {e \in edges : ends[e].tail = m /\ ends[e].head \notin Range(result)}

\* The sort so far: the nodes without such edges are sorted or in the queue,
\* each once, and those that are sorted come after all that lead to them.
Sorting(sort) ==
    /\ sort \in SortStates
    /\ IsInjective(sort.result \o sort.queue)
    /\ Range(sort.result \o sort.queue) = {m \in nodes : Open(m, sort.result) = {}}
    /\ \A m \in nodes : sort.degree[m] = Cardinality(Open(m, sort.result))
    /\ \A j \in 1..Len(sort.result) : \A e \in edges :
        ends[e].tail = sort.result[j] => \E i \in 1..j - 1 : sort.result[i] = ends[e].head

Start == [queue |-> InOrder(GetHeads), degree |-> InDegrees, result |-> <<>>]

LEMMA StartIs ==
    ASSUME GInv
    PROVE  Sorting(Start)
<1>1. /\ mapped = nodes /\ nodes \in SUBSET Nat /\ IsFiniteSet(nodes)
      /\ \A n \in nodes : in[n] = {e \in edges : ends[e].tail = n}
      /\ \A es \in SUBSET edges : IsFiniteSet(es)
  BY GraphFacts
<1>2. GetHeads = {m \in nodes : Open(m, <<>>) = {}} /\ \A m \in nodes : Open(m, <<>>) = in[m]
  BY <1>1 DEF GetHeads, Open, Range
<1>3. GetHeads \in SUBSET nodes /\ GetHeads \in SUBSET Nat /\ IsFiniteSet(GetHeads)
  <2>1. GetHeads \in SUBSET nodes
    BY <1>2
  <2>2. IsFiniteSet(GetHeads)
    BY <1>1, <2>1, FS_Subset, Zenon
  <2> QED
    BY <1>1, <2>1, <2>2
<1>4. PICK q : q = InOrder(GetHeads)
  OBVIOUS
<1>5. /\ q \in Seq(GetHeads) /\ Len(q) \in Nat
      /\ \A i, j \in 1..Len(q) : i < j => q[i] < q[j]
      /\ \A x \in GetHeads : \E i \in 1..Len(q) : q[i] = x
  BY <1>3, <1>4, InOrderIs
<1>6. q \in Seq(nodes) /\ DOMAIN q = 1..Len(q) /\ \A i \in 1..Len(q) : q[i] \in GetHeads
  BY <1>3, <1>5, LenProperties, ElementOfSeq, SeqMonotonic
<1>7. IsInjective(q)
  <2> SUFFICES ASSUME NEW i \in 1..Len(q), NEW j \in 1..Len(q), q[i] = q[j] PROVE i = j
    BY <1>6 DEF IsInjective
  <2>1. q[i] \in Nat /\ q[j] \in Nat
    BY <1>3, <1>6
  <2>2. ~(i < j) /\ ~(j < i)
    BY <1>5, <2>1
  <2> QED
    BY <2>2
<1>8. Range(q) = GetHeads
  BY <1>5, <1>6 DEF Range
<1>9. InDegrees \in [mapped -> Int] /\ \A m \in nodes : InDegrees[m] = Cardinality(Open(m, <<>>))
  <2>1. \A m \in nodes : in[m] \in SUBSET edges
    BY <1>1
  <2>2. \A m \in nodes : Cardinality(in[m]) \in Nat
    BY <1>1, <2>1, FS_CardinalityType
  <2> QED
    BY <1>1, <1>2, <2>2 DEF InDegrees
<1>10. <<>> \o q = q /\ <<>> \in Seq(nodes) /\ Len(<<>>) = 0
  BY <1>6, ConcatEmptySeq, EmptySeq
<1>11. Start \in SortStates /\ Start.queue = q /\ Start.result = <<>> /\ Start.degree = InDegrees
  BY <1>4, <1>6, <1>9, <1>10 DEF Start, SortStates
<1> QED
  BY <1>2, <1>7, <1>8, <1>9, <1>10, <1>11 DEF Sorting

\* A finite set of numbers that is not empty has a greatest one.
LEMMA GreatestIs ==
    ASSUME NEW S \in SUBSET Nat, IsFiniteSet(S), S # {}
    PROVE  \E x \in S : \A y \in S : y <= x
<1> DEFINE s == InOrder(S)
           n == Len(s)
<1>1. /\ s \in Seq(S) /\ n = Cardinality(S) /\ Cardinality(S) \in Nat
      /\ \A i, j \in 1..n : i < j => s[i] < s[j]
      /\ \A x \in S : \E i \in 1..n : s[i] = x
  BY InOrderIs
<1> HIDE DEF s
<1>2. \A i \in 1..n : s[i] \in S
  BY <1>1, ElementOfSeq
<1> HIDE DEF n
<1>3. n \in 1..n
  <2>1. Cardinality(S) # 0
    BY FS_EmptySet
  <2> QED
    BY <1>1, <2>1
<1>4. s[n] \in S
  BY <1>2, <1>3
<1>5. ASSUME NEW y \in S PROVE y <= s[n]
  <2>1. PICK i \in 1..n : s[i] = y
    BY <1>1
  <2>2. CASE i = n
    BY <1>4, <2>1, <2>2
  <2>3. CASE i # n
    <3>1. i < n
      BY <1>3, <2>3
    <3>2. s[i] < s[n]
      BY <1>1, <1>3, <3>1
    <3>3. y \in Nat /\ s[n] \in Nat
      BY <1>4
    <3> QED
      BY <2>1, <3>2, <3>3
  <2> QED
    BY <2>2, <2>3
<1> QED
  BY <1>4, <1>5

\* The degrees after the round of a node.
Lowered(sort, n) ==
    [m \in mapped |-> sort.degree[m] - Cardinality({e \in out[n] : ends[e].tail = m})]

\* The nodes that a round frees.
LEMMA FreedAre ==
    ASSUME GInv, NEW n \in nodes, NEW lowered
    PROVE  LET freed == Tails(InOrder(Freeing(n, lowered)))
           IN  /\ freed \in Seq(nodes) /\ IsInjective(freed)
               /\ Range(freed) =
                    {m \in nodes : /\ lowered[m] = 0
                                   /\ \E e \in edges : ends[e].head = n /\ ends[e].tail = m}
<1> DEFINE es == Freeing(n, lowered)
           free == {m \in nodes : /\ lowered[m] = 0
                                  /\ \E e \in edges : ends[e].head = n /\ ends[e].tail = m}
<1>1. /\ out[n] = {e \in edges : ends[e].head = n} /\ edges \in SUBSET Nat
      /\ \A e \in edges : ends[e].head \in nodes /\ ends[e].tail \in nodes
      /\ \A s \in SUBSET edges : IsFiniteSet(s) /\ s \in SUBSET Nat
  BY GraphFacts
<1>2. es \in SUBSET edges
  BY <1>1 DEF Freeing
<1>3. ASSUME NEW e \in es, NEW f \in es, ends[e].tail = ends[f].tail PROVE e = f
  <2>1. e \in out[n] /\ f \in out[n] /\ e \in Nat /\ f \in Nat
    BY <1>1 DEF Freeing
  <2>2. f <= e /\ e <= f
    BY <1>3, <2>1 DEF Freeing
  <2> QED
    BY <2>1, <2>2
<1>4. {ends[e].tail : e \in es} = free
  <2>1. ASSUME NEW e \in es PROVE ends[e].tail \in free
    BY <1>1, <1>2 DEF Freeing
  <2>2. ASSUME NEW m \in free PROVE \E e \in es : ends[e].tail = m
    <3> DEFINE S == {e \in out[n] : ends[e].tail = m}
    <3>1. S \in SUBSET edges /\ S # {}
      BY <1>1
    <3>2. PICK x \in S : \A y \in S : y <= x
      <4> HIDE DEF S
      <4> QED
        BY <1>1, <3>1, GreatestIs
    <3>3. x \in es
      BY <3>2 DEF Freeing
    <3> QED
      BY <3>2, <3>3
  <2> QED
    BY <2>1, <2>2
<1> HIDE DEF es, free
<1>5. /\ Tails(InOrder(es)) \in Seq(nodes) /\ IsInjective(Tails(InOrder(es)))
      /\ Range(Tails(InOrder(es))) = free
  BY <1>2, <1>3, <1>4, TailsAre
<1> QED
  BY <1>5 DEF es, free

LEMMA RoundType ==
    ASSUME GInv, NEW sort \in SortStates, sort.queue # <<>>
    PROVE  LET n == Head(sort.queue)
           IN  /\ n \in nodes
               /\ Round(sort) =
                    [queue |-> Tail(sort.queue) \o Tails(InOrder(Freeing(n, Lowered(sort, n)))),
                     degree |-> Lowered(sort, n),
                     result |-> Append(sort.result, n)]
               /\ Round(sort) \in SortStates
<1> DEFINE n == Head(sort.queue)
           freed == Tails(InOrder(Freeing(n, Lowered(sort, n))))
<1>1. /\ sort.queue \in Seq(nodes) /\ sort.result \in Seq(nodes)
      /\ sort.degree \in [mapped -> Int]
  BY DEF SortStates
<1>2. n \in nodes /\ Tail(sort.queue) \in Seq(nodes)
  BY <1>1, HeadTailProperties
<1> HIDE DEF n
<1>3. Lowered(sort, n) \in [mapped -> Int]
  <2>1. \A m \in mapped : {e \in out[n] : ends[e].tail = m} \in SUBSET edges
    BY <1>2, GraphFacts
  <2>2. ASSUME NEW es \in SUBSET edges PROVE Cardinality(es) \in Nat
    BY GraphFacts, FS_CardinalityType
  <2>3. \A m \in mapped : Cardinality({e \in out[n] : ends[e].tail = m}) \in Nat
    BY <2>1, <2>2
  <2> QED
    BY <1>1, <2>3 DEF Lowered
<1>4. freed \in Seq(nodes)
  BY <1>2, FreedAre
<1> HIDE DEF freed
<1>5. Tail(sort.queue) \o freed \in Seq(nodes) /\ Append(sort.result, n) \in Seq(nodes)
  BY <1>1, <1>2, <1>4, ConcatProperties, AppendProperties
<1>6. Round(sort) = [queue |-> Tail(sort.queue) \o freed, degree |-> Lowered(sort, n),
                     result |-> Append(sort.result, n)]
  BY DEF Round, Lowered, n, freed
<1> QED
  BY <1>2, <1>3, <1>5, <1>6 DEF n, freed, SortStates

\* A round keeps what is known of the sort, and sorts one node more.
LEMMA RoundIs ==
    ASSUME GInv, NEW sort, Sorting(sort), sort.queue # <<>>
    PROVE  Sorting(Round(sort)) /\ Len(Round(sort).result) = Len(sort.result) + 1
<1>1. PICK q, r, new : q = sort.queue /\ r = sort.result /\ new = Round(sort)
  OBVIOUS
<1> DEFINE n == Head(q)
           lowered == Lowered(sort, n)
           freed == Tails(InOrder(Freeing(n, lowered)))
           all == r \o q
<1>2. /\ new.queue = Tail(q) \o freed /\ new.degree = lowered
      /\ new.result = Append(r, n) /\ new \in SortStates /\ n \in nodes
  <2>1. sort \in SortStates
    BY DEF Sorting
  <2>2. /\ n \in nodes /\ new \in SortStates
        /\ new = [queue |-> Tail(q) \o freed, degree |-> lowered, result |-> Append(r, n)]
    BY <1>1, <2>1, RoundType, Zenon
  <2> HIDE DEF n, lowered, freed
  <2> QED
    BY <2>2
<1>3. /\ freed \in Seq(nodes) /\ IsInjective(freed)
      /\ Range(freed) = {m \in nodes : /\ lowered[m] = 0
                                       /\ \E e \in edges : ends[e].head = n /\ ends[e].tail = m}
  BY <1>2, FreedAre
<1>4. /\ q \in Seq(nodes) /\ r \in Seq(nodes) /\ all \in Seq(nodes) /\ q # <<>>
      /\ IsInjective(all) /\ Range(all) = {m \in nodes : Open(m, r) = {}}
      /\ \A m \in nodes : sort.degree[m] = Cardinality(Open(m, r))
  <2>1. q \in Seq(nodes) /\ r \in Seq(nodes)
    BY <1>1 DEF Sorting, SortStates
  <2>2. all \in Seq(nodes)
    BY <2>1, ConcatProperties
  <2> QED
    BY <1>1, <2>1, <2>2 DEF Sorting
<1>5. /\ n = q[1] /\ Len(r) \in Nat /\ Len(q) \in Nat /\ Len(q) # 0
      /\ DOMAIN r = 1..Len(r) /\ DOMAIN all = 1..Len(r) + Len(q)
      /\ \A i \in DOMAIN all : all[i] = IF i <= Len(r) THEN r[i] ELSE q[i - Len(r)]
  <2>1. Len(r) \in Nat /\ Len(q) \in Nat /\ Len(q) # 0 /\ DOMAIN r = 1..Len(r)
    BY <1>4, LenProperties, EmptySeq
  <2>2. /\ Len(all) = Len(r) + Len(q)
        /\ \A i \in 1..Len(r) + Len(q) : all[i] = IF i <= Len(r) THEN r[i] ELSE q[i - Len(r)]
    BY <1>4, ConcatProperties
  <2>3. DOMAIN all = 1..Len(all)
    <3> HIDE DEF all
    <3> QED
      BY <1>4, LenProperties
  <2>4. n = q[1]
    BY <1>4, HeadTailProperties
  <2> HIDE DEF all, n
  <2> QED
    BY <2>1, <2>2, <2>3, <2>4
<1>6. new.result \o new.queue = all \o freed
  <2>1. Append(r, n) \o (Tail(q) \o freed) = all \o freed
    <3> HIDE DEF freed
    <3> QED
      BY <1>3, <1>4, MoveFirst
  <2> HIDE DEF freed, n, all
  <2> QED
    BY <1>2, <2>1
<1> HIDE DEF all, freed, n, lowered
<1>7. n \notin Range(r) /\ n \in Range(all)
  <2>1. Len(r) + 1 \in DOMAIN all /\ all[Len(r) + 1] = n
    BY <1>5
  <2>2. ASSUME NEW i \in DOMAIN r, r[i] = n PROVE FALSE
    <3>1. i \in DOMAIN all /\ all[i] = n /\ i # Len(r) + 1
      BY <1>5, <2>2
    <3> QED
      BY <1>4, <2>1, <3>1 DEF IsInjective
  <2> QED
    BY <2>1, <2>2 DEF Range
<1>8. Range(new.result) = Range(r) \cup {n} /\ Len(new.result) = Len(r) + 1
  <2>1. PICK t : t = new.result
    OBVIOUS
  <2>2. r \in Seq(nodes) /\ t = Append(r, n)
    BY <1>2, <1>4, <2>1
  <2>3. /\ Len(r) \in Nat /\ DOMAIN r = 1..Len(r)
        /\ Len(t) = Len(r) + 1 /\ DOMAIN t = 1..Len(r) + 1
        /\ t[Len(r) + 1] = n /\ \A i \in 1..Len(r) : t[i] = r[i]
    BY <1>2, <2>2, LenProperties, AppendProperties
  <2>4. ASSUME NEW x \in Range(t) PROVE x \in Range(r) \cup {n}
    <3>1. PICK i \in 1..Len(r) + 1 : t[i] = x
      BY <2>3 DEF Range
    <3>2. CASE i = Len(r) + 1
      BY <2>3, <3>1, <3>2
    <3>3. CASE i # Len(r) + 1
      <4>1. i \in 1..Len(r)
        BY <2>3, <3>3
      <4> QED
        BY <2>3, <3>1, <4>1 DEF Range
    <3> QED
      BY <3>2, <3>3
  <2>5. ASSUME NEW x \in Range(r) \cup {n} PROVE x \in Range(t)
    <3>1. CASE x = n
      <4>1. Len(r) + 1 \in DOMAIN t
        BY <2>3
      <4> QED
        BY <2>3, <3>1, <4>1 DEF Range
    <3>2. CASE x \in Range(r)
      <4>1. PICK i \in 1..Len(r) : r[i] = x
        BY <2>3, <3>2 DEF Range
      <4>2. i \in DOMAIN t /\ t[i] = x
        BY <2>3, <4>1
      <4> QED
        BY <4>2 DEF Range
    <3> QED
      BY <3>1, <3>2
  <2> QED
    BY <2>1, <2>3, <2>4, <2>5
<1>9. ASSUME NEW m \in nodes
      PROVE  /\ Open(m, new.result) = {e \in Open(m, r) : ends[e].head # n}
             /\ lowered[m] = Cardinality(Open(m, new.result))
             /\ Open(m, new.result) \in SUBSET Open(m, r)
  <2> DEFINE old == Open(m, r)
             gone == {e \in out[n] : ends[e].tail = m}
  <2>1. Open(m, new.result) = {e \in old : ends[e].head # n}
    BY <1>8 DEF Open
  <2>2. gone \subseteq old /\ Open(m, new.result) = old \ gone
    <3>1. out[n] = {e \in edges : ends[e].head = n}
      BY <1>2, GraphFacts
    <3> QED
      BY <1>7, <2>1, <3>1 DEF Open
  <2>3. IsFiniteSet(old)
    <3>1. old \in SUBSET edges
      BY DEF Open
    <3> QED
      BY <3>1, GraphFacts
  <2>4. lowered[m] = Cardinality(old) - Cardinality(gone)
    <3>1. mapped = nodes
      BY GraphFacts
    <3> QED
      BY <1>4, <3>1 DEF lowered, Lowered
  <2>5. Cardinality(old \ gone) = Cardinality(old) - Cardinality(gone)
    <3>1. old \cap gone = gone
      BY <2>2
    <3> HIDE DEF old, gone
    <3> QED
      BY <2>3, <3>1, FS_Difference
  <2> QED
    BY <2>1, <2>2, <2>4, <2>5
<1>10. \A m \in nodes : lowered[m] = 0 <=> Open(m, new.result) = {}
  <2> SUFFICES ASSUME NEW m \in nodes PROVE lowered[m] = 0 <=> Open(m, new.result) = {}
    OBVIOUS
  <2>1. IsFiniteSet(Open(m, new.result))
    <3>1. Open(m, new.result) \in SUBSET edges
      BY DEF Open
    <3> QED
      BY <3>1, GraphFacts
  <2> QED
    BY <1>9, <2>1, FS_EmptySet
<1>11. Range(all) \cap Range(freed) = {}
  <2> SUFFICES ASSUME NEW m \in nodes, m \in Range(all), m \in Range(freed) PROVE FALSE
    BY <1>3
  <2>1. PICK e \in edges : ends[e].head = n /\ ends[e].tail = m
    BY <1>3
  <2>2. e \in Open(m, r)
    BY <1>7, <2>1 DEF Open
  <2> QED
    BY <1>4, <2>2
<1>12. IsInjective(all \o freed) /\ Range(all \o freed) = Range(all) \cup Range(freed)
  BY <1>3, <1>4, <1>11, ConcatInjective, RangeConcatenation
<1>13. Range(all) \cup Range(freed) = {m \in nodes : Open(m, new.result) = {}}
  <2>1. ASSUME NEW m \in Range(all) \cup Range(freed)
        PROVE  m \in nodes /\ Open(m, new.result) = {}
    <3>1. CASE m \in Range(all)
      BY <1>4, <1>9, <3>1
    <3>2. CASE m \in Range(freed)
      BY <1>3, <1>10, <3>2
    <3> QED
      BY <2>1, <3>1, <3>2
  <2>2. ASSUME NEW m \in nodes, Open(m, new.result) = {} PROVE m \in Range(all) \cup Range(freed)
    <3>1. CASE Open(m, r) = {}
      BY <1>4, <3>1
    <3>2. CASE Open(m, r) # {}
      <4>1. PICK e \in Open(m, r) : ends[e].head = n
        BY <1>9, <2>2, <3>2
      <4>2. e \in edges /\ ends[e].tail = m
        BY DEF Open
      <4> QED
        BY <1>3, <1>10, <2>2, <4>1, <4>2
    <3> QED
      BY <3>1, <3>2
  <2> QED
    BY <2>1, <2>2
<1>14. ASSUME NEW j \in 1..Len(new.result), NEW e \in edges, ends[e].tail = new.result[j]
       PROVE  \E i \in 1..j - 1 : new.result[i] = ends[e].head
  <2>1. PICK t : t = new.result
    OBVIOUS
  <2>2. /\ Len(r) \in Nat /\ DOMAIN r = 1..Len(r) /\ Len(t) = Len(r) + 1
        /\ t[Len(r) + 1] = n /\ \A i \in 1..Len(r) : t[i] = r[i]
    BY <1>2, <1>4, <2>1, LenProperties, AppendProperties
  <2>3. CASE j = Len(r) + 1
    <3>1. ends[e].tail = n
      BY <1>14, <2>1, <2>2, <2>3
    <3>2. Open(n, r) = {}
      BY <1>4, <1>7, <2>1
    <3>3. ends[e].head \in Range(r)
      BY <3>1, <3>2 DEF Open
    <3>4. PICK i \in 1..Len(r) : r[i] = ends[e].head
      BY <2>2, <3>3 DEF Range
    <3> QED
      BY <2>1, <2>2, <2>3, <3>4
  <2>4. CASE j # Len(r) + 1
    <3>1. j \in 1..Len(r) /\ ends[e].tail = r[j]
      BY <1>14, <2>1, <2>2, <2>4
    <3>2. PICK i \in 1..j - 1 : r[i] = ends[e].head
      BY <1>1, <3>1 DEF Sorting
    <3>3. i \in 1..Len(r)
      BY <2>2, <3>1
    <3> QED
      BY <2>1, <2>2, <3>2, <3>3
  <2> QED
    BY <2>3, <2>4
<1>15. Sorting(new)
  BY <1>2, <1>6, <1>9, <1>12, <1>13, <1>14 DEF Sorting
<1> QED
  BY <1>1, <1>8, <1>15

\* The sort after each round.
Rounds(sort) ==
    /\ sort[0] = Start
    /\ \A k \in 1..Cardinality(nodes) :
        sort[k] = IF sort[k - 1].queue = <<>> THEN sort[k - 1] ELSE Round(sort[k - 1])

LEMMA KahnUnfolds ==
    ASSUME GInv
    PROVE  \E sort : Rounds(sort) /\ Kahn = sort[Cardinality(nodes)]
<1> DEFINE N == Cardinality(mapped)
           next(r) == IF r.queue = <<>> THEN r ELSE Round(r)
           body(f) == [k \in 0..N |->
                IF k = 0 THEN [queue |-> InOrder(GetHeads), degree |-> InDegrees, result |-> <<>>]
                ELSE IF f[k - 1].queue = <<>> THEN f[k - 1] ELSE Round(f[k - 1])]
           sort == CHOOSE f : f = body(f)
           step == [k \in 1..N |-> [r \in SortStates |-> next(r)]]
<1>1. N \in Nat /\ N = Cardinality(nodes)
  BY GraphFacts
<1>2. Start \in SortStates
  BY StartIs DEF Sorting
<1>3. \A r \in SortStates : next(r) \in SortStates
  BY RoundType
<1>4. ASSUME NEW f PROVE body(f) = [k \in 0..N |-> IF k = 0 THEN Start ELSE next(f[k - 1])]
  BY DEF Start
<1> HIDE DEF N, body, next
<1>5. PICK f : Solution(f, N, SortStates, Start, step)
  <2>1. step \in [1..N -> [SortStates -> SortStates]]
    BY <1>3
  <2> HIDE DEF step
  <2> QED
    BY <1>1, <1>2, <2>1, Recursion
<1>6. /\ f \in [0..N -> SortStates] /\ f[0] = Start
      /\ \A k \in 1..N : f[k] = next(f[k - 1])
  <2>1. /\ f \in [0..N -> SortStates] /\ f[0] = Start
        /\ \A k \in 1..N : f[k] = step[k][f[k - 1]]
    BY <1>5 DEF Solution
  <2>2. ASSUME NEW k \in 1..N PROVE f[k] = next(f[k - 1])
    <3>1. f[k - 1] \in SortStates
      BY <1>1, <2>1
    <3> QED
      BY <2>1, <3>1
  <2> QED
    BY <2>1, <2>2
<1>7. f = body(f)
  <2>1. ASSUME NEW k \in 0..N PROVE f[k] = IF k = 0 THEN Start ELSE next(f[k - 1])
    <3>1. CASE k = 0
      BY <1>6, <3>1
    <3>2. CASE k # 0
      <4>1. k \in 1..N
        BY <1>1, <3>2
      <4> QED
        BY <1>6, <3>2, <4>1
    <3> QED
      BY <3>1, <3>2
  <2>2. f = [k \in 0..N |-> IF k = 0 THEN Start ELSE next(f[k - 1])]
    BY <1>6, <2>1
  <2> QED
    BY <1>4, <2>2
<1>8. sort = body(sort)
  BY <1>7
<1> HIDE DEF sort
<1>9. \A k \in 0..N : sort[k] = IF k = 0 THEN Start ELSE next(sort[k - 1])
  <2>1. PICK g : g = body(g) /\ g = sort
    BY <1>8
  <2>2. g = [k \in 0..N |-> IF k = 0 THEN Start ELSE next(g[k - 1])]
    BY <1>4, <2>1
  <2>3. \A k \in 0..N : g[k] = IF k = 0 THEN Start ELSE next(g[k - 1])
    BY <2>2, Zenon
  <2> QED
    BY <2>1, <2>3
<1>10. sort[0] = Start /\ \A k \in 1..N : sort[k] = next(sort[k - 1])
  <2>1. 0 \in 0..N /\ \A k \in 1..N : k \in 0..N /\ k # 0
    BY <1>1
  <2> QED
    BY <1>9, <2>1
<1>11. Kahn = sort[N]
  BY DEF Kahn, sort, body, N
<1> QED
  BY <1>1, <1>10, <1>11 DEF Rounds, next

\* After as many rounds as there are nodes the queue is empty: the loop ends.
LEMMA KahnIs ==
    ASSUME GInv
    PROVE  Sorting(Kahn) /\ Kahn.queue = <<>>
<1>1. PICK sort : Rounds(sort) /\ Kahn = sort[Cardinality(nodes)]
  BY KahnUnfolds
<1> DEFINE N == Cardinality(nodes)
           Good == {k \in 0..N : /\ Sorting(sort[k])
                                 /\ sort[k].queue = <<>> \/ Len(sort[k].result) = k}
<1>2. N \in Nat /\ IsFiniteSet(nodes)
  BY GraphFacts
<1>3. 0 \in Good
  <2>1. Start.result = <<>>
    BY DEF Start
  <2> QED
    BY <1>1, <1>2, <2>1, StartIs, EmptySeq DEF Rounds
<1>4. ASSUME NEW k \in 1..N, k - 1 \in Good PROVE k \in Good
  <2>1. PICK old, new : old = sort[k - 1] /\ new = sort[k]
    OBVIOUS
  <2>2. /\ Sorting(old) /\ (old.queue = <<>> \/ Len(old.result) = k - 1)
        /\ new = IF old.queue = <<>> THEN old ELSE Round(old)
    BY <1>1, <1>4, <2>1 DEF Rounds
  <2>3. Sorting(new) /\ (new.queue = <<>> \/ Len(new.result) = k)
    <3>1. CASE old.queue = <<>>
      BY <2>2, <3>1
    <3>2. CASE old.queue # <<>>
      <4>1. Sorting(Round(old)) /\ Len(Round(old).result) = (k - 1) + 1
        BY <2>2, <3>2, RoundIs
      <4> QED
        BY <2>2, <3>2, <4>1
    <3> QED
      BY <3>1, <3>2
  <2>4. k \in 0..N
    BY <1>2
  <2> QED
    BY <2>1, <2>3, <2>4
<1>5. N \in Good
  <2> HIDE DEF Good
  <2>1. 0..N \subseteq Good
    <3> HIDE DEF N
    <3> QED
      BY <1>2, <1>3, <1>4, UpTo
  <2> QED
    BY <1>2, <2>1
<1>6. PICK q, r : q = Kahn.queue /\ r = Kahn.result
  OBVIOUS
<1>7. Sorting(Kahn) /\ (q = <<>> \/ Len(r) = N)
  BY <1>1, <1>5, <1>6
<1>8. ASSUME q # <<>>, Len(r) = N PROVE FALSE
  <2>1. q \in Seq(nodes) /\ r \in Seq(nodes) /\ IsInjective(r \o q)
    BY <1>6, <1>7 DEF Sorting, SortStates
  <2>2. PICK all : all = r \o q
    OBVIOUS
  <2>3. all \in Seq(nodes) /\ Len(all) = N + Len(q) /\ Len(q) \in Nat /\ Len(q) # 0
    BY <1>8, <2>1, <2>2, ConcatProperties, EmptySeq
  <2>4. IsInjective(all) /\ DOMAIN all = 1..N + Len(q) /\ all \in [1..N + Len(q) -> nodes]
    BY <2>1, <2>2, <2>3, LenProperties
  <2>5. IsFiniteSet(1..N + Len(q)) /\ Cardinality(1..N + Len(q)) = N + Len(q)
    <3> HIDE DEF N
    <3> QED
      BY <1>2, <2>3, FS_Interval
  <2>6. PICK i, j \in 1..N + Len(q) : i # j /\ all[i] = all[j]
    <3> DEFINE S == 1..N + Len(q)
    <3>1. IsFiniteSet(S) /\ Cardinality(nodes) < Cardinality(S) /\ all \in [S -> nodes]
      BY <1>2, <2>3, <2>4, <2>5
    <3> HIDE DEF S
    <3>2. \E i, j \in S : i # j /\ all[i] = all[j]
      BY <1>2, <3>1, FS_PigeonHole
    <3> QED
      BY <3>2 DEF S
  <2> QED
    BY <2>4, <2>6 DEF IsInjective
<1> QED
  BY <1>6, <1>7, <1>8

\* A complete sort respects the edges, which then make no cycle.
LEMMA CompleteIs ==
    ASSUME GInv, NEW r \in Seq(nodes), IsInjective(r), Range(r) = nodes,
           \A j \in 1..Len(r) : \A e \in edges :
                ends[e].tail = r[j] => \E i \in 1..j - 1 : r[i] = ends[e].head
    PROVE  /\ ~Cyclic
           /\ \A i, j \in DOMAIN r : \A e \in edges :
                    ends[e].head = r[i] /\ ends[e].tail = r[j] => i < j
<1>1. DOMAIN r = 1..Len(r) /\ Len(r) \in Nat
  BY LenProperties
<1>2. ASSUME NEW i \in DOMAIN r, NEW j \in DOMAIN r, NEW e \in edges,
             ends[e].head = r[i], ends[e].tail = r[j]
      PROVE  i < j
  <2>1. PICK k \in 1..j - 1 : r[k] = ends[e].head
    BY <1>1, <1>2
  <2>2. k \in DOMAIN r /\ r[k] = r[i]
    BY <1>1, <1>2, <2>1
  <2>3. k = i
    BY <2>2 DEF IsInjective
  <2> QED
    BY <1>1, <2>3
<1>3. ASSUME NEW e \in edges, Reaches(ends[e].tail, ends[e].head) PROVE FALSE
  <2>1. \A f \in edges : ends[f].head \in nodes /\ ends[f].tail \in nodes
    BY GraphFacts
  <2>2. \A n \in nodes : \E i \in DOMAIN r : r[i] = n
    BY DEF Range
  <2>3. PICK i \in DOMAIN r, j \in DOMAIN r : r[i] = ends[e].head /\ r[j] = ends[e].tail
    BY <2>1, <2>2
  <2> DEFINE set == {r[k] : k \in j..Len(r)}
  <2>4. set \in SUBSET nodes /\ ends[e].tail \in set
    <3>1. \A k \in j..Len(r) : r[k] \in nodes
      BY <1>1
    <3> QED
      BY <1>1, <2>3, <3>1
  <2>5. ASSUME NEW f \in edges, ends[f].head \in set PROVE ends[f].tail \in set
    <3>1. PICK k \in j..Len(r) : r[k] = ends[f].head
      BY <2>5
    <3>2. PICK m \in DOMAIN r : r[m] = ends[f].tail
      BY <2>1, <2>2
    <3>3. k \in DOMAIN r
      BY <1>1
    <3>4. k < m
      BY <1>2, <3>1, <3>2, <3>3
    <3>5. m \in j..Len(r)
      BY <1>1, <3>4
    <3> QED
      BY <3>2, <3>5
  <2>6. ends[e].head \in set
    <3> HIDE DEF set
    <3> QED
      BY <1>3, <2>4, <2>5 DEF Reaches
  <2>7. PICK k \in j..Len(r) : r[k] = ends[e].head
    BY <2>6
  <2>8. k \in DOMAIN r /\ r[k] = r[i]
    BY <1>1, <2>3, <2>7
  <2>9. k = i /\ i < j
    BY <1>2, <2>3, <2>8 DEF IsInjective
  <2> QED
    BY <1>1, <2>9
<1> QED
  BY <1>2, <1>3 DEF Cyclic

\* Nodes that all have an edge from one of them are in a cycle, or after one.
LEMMA StuckIs ==
    ASSUME GInv, NEW left \in SUBSET nodes, left # {},
           \A m \in left : \E e \in edges : ends[e].tail = m /\ ends[e].head \in left
    PROVE  Cyclic
<1> DEFINE Up(m) == {h \in nodes : Reaches(h, m)}
           Ups == {Up(m) : m \in left}
<1>1. IsFiniteSet(nodes)
  BY GraphFacts
<1>2. Ups \subseteq FiniteSubsetsOf(nodes) /\ Ups # {}
  <2>1. ASSUME NEW m \in left PROVE Up(m) \in SUBSET nodes /\ IsFiniteSet(Up(m))
    <3>1. Up(m) \in SUBSET nodes
      OBVIOUS
    <3> HIDE DEF Up
    <3> QED
      BY <1>1, <3>1, FS_Subset, Zenon
  <2> HIDE DEF Up
  <2> QED
    BY <2>1 DEF FiniteSubsetsOf
<1>3. PICK I \in Ups : \A J \in Ups : <<J, I>> \notin StrictSubsetOrdering(nodes)
  <2> HIDE DEF Ups
  <2> QED
    BY <1>2, FS_StrictSubsetOrderingWellFounded, WFMin
<1>4. PICK m \in left : I = Up(m)
  BY <1>3
<1>5. PICK e \in edges : ends[e].tail = m /\ ends[e].head \in left
  OBVIOUS
<1>6. SUFFICES ASSUME ~Reaches(m, ends[e].head) PROVE FALSE
  BY <1>5 DEF Cyclic
<1>7. Up(ends[e].head) \subseteq Up(m)
  BY <1>5 DEF Reaches
<1>8. m \in Up(m) /\ m \notin Up(ends[e].head)
  BY <1>6 DEF Reaches
<1>9. <<Up(ends[e].head), Up(m)>> \in StrictSubsetOrdering(nodes)
  <2>1. Up(ends[e].head) \in SUBSET nodes /\ Up(m) \in SUBSET nodes
    OBVIOUS
  <2> HIDE DEF Up
  <2> QED
    BY <1>7, <1>8, <2>1 DEF StrictSubsetOrdering
<1> QED
  BY <1>3, <1>4, <1>5, <1>9

\* topological_sort() is right.
LEMMA SortedIs ==
    ASSUME GInv
    PROVE  /\ (Sorted # <<>>) <=> (~Cyclic /\ nodes # {})
           /\ Sorted # <<>> =>
                /\ IsInjective(Sorted) /\ Range(Sorted) = nodes
                /\ \A i, j \in DOMAIN Sorted : \A e \in edges :
                        ends[e].head = Sorted[i] /\ ends[e].tail = Sorted[j] => i < j
<1>1. PICK r : r = Kahn.result
  OBVIOUS
<1> DEFINE N == Cardinality(nodes)
<1>2. N \in Nat /\ IsFiniteSet(nodes) /\ mapped = nodes
  BY GraphFacts
<1>3. /\ r \in Seq(nodes) /\ IsInjective(r) /\ Range(r) = {m \in nodes : Open(m, r) = {}}
      /\ \A j \in 1..Len(r) : \A e \in edges :
            ends[e].tail = r[j] => \E i \in 1..j - 1 : r[i] = ends[e].head
  <2>1. Kahn.queue = <<>> /\ Sorting(Kahn)
    BY KahnIs
  <2>2. r \in Seq(nodes)
    BY <1>1, <2>1 DEF Sorting, SortStates
  <2>3. r \o <<>> = r
    BY <2>2, ConcatEmptySeq
  <2> QED
    BY <1>1, <2>1, <2>2, <2>3 DEF Sorting
<1>4. Sorted = IF Len(r) = N THEN r ELSE <<>>
  BY <1>1, <1>2 DEF Sorted
<1>5. /\ DOMAIN r = 1..Len(r) /\ Len(r) \in Nat
      /\ Cardinality(1..Len(r)) = Len(r) /\ IsFiniteSet(1..Len(r))
  <2>1. DOMAIN r = 1..Len(r) /\ Len(r) \in Nat
    BY <1>3, LenProperties
  <2>2. PICK k \in Nat : k = Len(r)
    BY <2>1
  <2>3. Cardinality(1..k) = k /\ IsFiniteSet(1..k)
    BY FS_Interval
  <2> QED
    BY <2>1, <2>2, <2>3
<1>6. Len(r) = N <=> Range(r) = nodes
  <2>1. r \in Surjection(1..Len(r), Range(r)) /\ r \in Injection(1..Len(r), Range(r))
    BY <1>3, <1>5 DEF Range, Surjection, Injection, IsInjective
  <2>2. IsFiniteSet(Range(r)) /\ Cardinality(Range(r)) = Len(r)
    BY <1>5, <2>1, FS_Surjection
  <2>3. Range(r) \in SUBSET nodes
    BY <1>3
  <2>4. N = Cardinality(Range(r)) => nodes = Range(r)
    BY <1>2, <2>3, FS_Subset
  <2> QED
    BY <2>2, <2>4
<1>7. r = <<>> <=> Len(r) = 0
  BY <1>3, EmptySeq
<1>8. N = 0 <=> nodes = {}
  BY <1>2, FS_EmptySet
<1>9. CASE Len(r) = N
  <2>1. Range(r) = nodes
    BY <1>6, <1>9
  <2>2. /\ ~Cyclic
        /\ \A i, j \in DOMAIN r : \A e \in edges :
                ends[e].head = r[i] /\ ends[e].tail = r[j] => i < j
    BY <1>3, <2>1, CompleteIs
  <2> QED
    BY <1>3, <1>4, <1>7, <1>8, <1>9, <2>1, <2>2
<1>10. CASE Len(r) # N
  <2> DEFINE left == nodes \ Range(r)
  <2>1. left # {} /\ left \in SUBSET nodes
    BY <1>3, <1>6, <1>10
  <2>2. ASSUME NEW m \in left PROVE \E e \in edges : ends[e].tail = m /\ ends[e].head \in left
    <3>1. PICK e \in Open(m, r) : TRUE
      BY <1>3
    <3>2. ends[e].head \in nodes
      BY <3>1, GraphFacts DEF Open
    <3> QED
      BY <3>1, <3>2 DEF Open
  <2>3. Cyclic
    <3> HIDE DEF left
    <3> QED
      BY <2>1, <2>2, StuckIs
  <2> QED
    BY <1>4, <1>10, <2>3
<1> QED
  BY <1>9, <1>10

\* is_acyclic() and topological_sort() agree with each other and with what a
\* cycle is, and the order respects every edge, on every graph that calls can
\* make (graph.py lines 315-381).
THEOREM AlgorithmsAlwaysAgree == GraphSpec => []AlgorithmsAgree
<1>1. GInv => AlgorithmsAgree
  BY IsAcyclicIs, SortedIs DEF AlgorithmsAgree
<1>2. GraphInit => GInv
  BY EmptyGraph
<1>3. GInv /\ [Change \/ Search]_graphVars => GInv'
  BY GraphStep
<1> QED
  BY <1>1, <1>2, <1>3, PTL DEF GraphSpec

\* is_acyclic() never refuses the graph of a builder, after any calls and any
\* failures half-way.
THEOREM BuiltGraphsAreAcyclic == Spec => []IsAcyclic
<1>1. ASSUME BInv, NEW e \in edges, Reaches(ends[e].tail, ends[e].head) PROVE FALSE
  <2>1. /\ GInv /\ nodes \in SUBSET Nat
        /\ \A f \in edges : ends[f].head \in nodes /\ ends[f].tail \in nodes
    BY <1>1, GraphFacts DEF BInv
  <2>2. \A f \in edges : ends[f].head < ends[f].tail
    BY <1>1 DEF BInv, OlderFirst
  <2> DEFINE set == {n \in nodes : n >= ends[e].tail}
  <2>3. set \in SUBSET nodes /\ ends[e].tail \in set /\ ends[e].head \notin set
    <3>1. ends[e].tail \in Nat /\ ends[e].head \in Nat /\ ends[e].head < ends[e].tail
      BY <2>1, <2>2
    <3> QED
      BY <2>1, <3>1
  <2>4. ASSUME NEW f \in edges, ends[f].head \in set PROVE ends[f].tail \in set
    <3>1. /\ ends[f].head \in Nat /\ ends[f].tail \in nodes /\ ends[f].tail \in Nat
          /\ ends[e].tail \in Nat /\ ends[f].head >= ends[e].tail
      BY <2>1, <2>4
    <3> QED
      BY <2>2, <3>1
  <2> HIDE DEF set
  <2> QED
    BY <1>1, <2>3, <2>4 DEF Reaches
<1>2. BInv => IsAcyclic
  BY <1>1, IsAcyclicIs DEF BInv, Cyclic
<1> QED
  BY <1>2, BuilderInvariant, PTL
==============================================================================
