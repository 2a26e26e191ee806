----------------------- MODULE MCPConnectionPoolProofs -----------------------
(***************************************************************************)
(* No connection escapes the pool, and cleanup() disconnects all it can,   *)
(* for any tasks, servers and configurations.  Both need that whoever      *)
(* awaits a connection or its end has the lock (LockHeld): then no client  *)
(* is put where another one is (Making), and what is still open during a   *)
(* clean-up is what it has still to disconnect, or could not (Cleaning).   *)
(***************************************************************************)
EXTENDS MCPConnectionPool, TLAPS

\* The awaits of another task's connection happen under the lock.
LockHeld == \A t \in Task : pc[t] \in {"connecting", "cleaning"} => holder = t

\* A client is made for a key that has none.
Making == \A t \in Task : pc[t] = "connecting" => key[t] \in Key /\ clients[key[t]] = NoClient

\* The clean-up in progress has to come only to clients that are in the pool, and has
\* closed all others that let it.
Cleaning ==
    \A t \in Task : pc[t] = "cleaning" =>
        /\ left \subseteq Pooled
        /\ \A k \in Pooled \ left : link[clients[k]] = "open" => clients[k] \in refused

Inv == TypeOK /\ ConnectionsPooled /\ LockHeld /\ Making /\ Cleaning

\* The pool begins empty, with its lock free.
LEMMA InitInv == Init => Inv
  BY DEF Init, Inv, TypeOK, ConnectionsPooled, LockHeld, Making, Cleaning, Pooled, Key

\* What waits for the lock, or gives up what it waits for, touches no connection.
LEMMA WaitingInv ==
    ASSUME Inv, NEW t \in Task,
           \/ \E k \in Key, file \in SUBSET Server : GetClient(t, k, file)
           \/ Cleanup(t)
           \/ Leave(t)
    PROVE  Inv'
<1> USE DEF Inv
<1>1. TypeOK'
  BY PoolAssumption DEF TypeOK, GetClient, Cleanup, Leave, WaitForLock, Idle, taskVars
<1>2. /\ UNCHANGED <<clients, link, refused, holder, left>>
      /\ \A u \in Task : pc'[u] \in {"connecting", "cleaning"}
            => pc'[u] = pc[u] /\ key'[u] = key[u]
  BY DEF TypeOK, GetClient, Cleanup, Leave, WaitForLock, Idle, taskVars
<1>3. ConnectionsPooled' /\ LockHeld'
  BY <1>2 DEF ConnectionsPooled, LockHeld
<1>4. Making' /\ Cleaning'
  BY <1>2 DEF Making, Cleaning, Pooled
<1> QED
  BY <1>1, <1>3, <1>4

\* Whoever gets the lock finds nobody awaiting a connection under it.
LEMMA TurnInv ==
    ASSUME Inv, NEW t \in Task, Turn(t)
    PROVE  Inv'
<1> USE DEF Inv
<1>1. TypeOK'
  BY PoolAssumption DEF TypeOK, Turn, Pooled, HeldBy, Hit
<1>2. \A u \in Task : pc[u] \notin {"connecting", "cleaning"}
  BY PoolAssumption DEF LockHeld, Turn
<1>3. \A u \in Task \ {t} : pc'[u] = pc[u]
  BY DEF TypeOK, Turn
<1>4. ConnectionsPooled'
  BY DEF ConnectionsPooled, Turn, Hit, Pooled, TypeOK
<1>5. LockHeld'
  BY <1>2, <1>3 DEF LockHeld, Turn, HeldBy, TypeOK
<1>6. Making'
  BY <1>2, <1>3 DEF Making, Turn, TypeOK
<1>7. Cleaning'
  BY <1>2, <1>3 DEF Cleaning, Turn, TypeOK, Pooled
<1> QED
  BY <1>1, <1>4, <1>5, <1>6, <1>7

\* A new client takes a place that was empty; an attempt that fails leaves it so.
LEMMA ConnectInv ==
    ASSUME Inv, NEW t \in Task, ConnectEnds(t)
    PROVE  Inv'
<1> USE DEF Inv
<1>1. pc[t] = "connecting" /\ holder = t
  BY DEF LockHeld, ConnectEnds, ConnectFails, Connected
<1>2. \A u \in Task \ {t} : pc[u] \notin {"connecting", "cleaning"}
  BY <1>1 DEF LockHeld
<1>3. key[t] \in Key /\ clients[key[t]] = NoClient
  BY <1>1 DEF Making
<1>4. TypeOK'
  BY <1>3, PoolAssumption DEF TypeOK, ConnectEnds, ConnectFails, Connected, Idle, FreedBy
<1>5. \A u \in Task : pc'[u] \notin {"connecting", "cleaning"}
  BY <1>2 DEF TypeOK, ConnectEnds, ConnectFails, Connected, Idle
<1>6. LockHeld' /\ Making' /\ Cleaning'
  BY <1>5 DEF LockHeld, Making, Cleaning
<1>7. ConnectionsPooled'
  <2>1. CASE ConnectFails(t)
    BY <2>1 DEF ConnectionsPooled, ConnectFails
  <2>2. ASSUME NEW c \in Client, Connected(t, c)
        PROVE  ConnectionsPooled'
    <3>1. clients' = [clients EXCEPT ![key[t]] = c] /\ link' = [link EXCEPT ![c] = "open"]
      BY <2>2 DEF Connected
    <3>2. ASSUME NEW d \in Client, link'[d] = "open", d \notin refused', d # c
          PROVE  \E k \in Key : clients'[k] = d
      <4>1. link[d] = "open" /\ d \notin refused
        BY <2>2, <3>1, <3>2 DEF TypeOK, Connected
      <4>2. PICK k \in Key : clients[k] = d
        BY <4>1 DEF ConnectionsPooled
      <4>3. k # key[t]
        BY <4>2, <1>3, PoolAssumption
      <4> QED
        BY <4>2, <4>3, <3>1 DEF TypeOK
    <3>3. clients'[key[t]] = c
      BY <3>1, <1>3 DEF TypeOK
    <3> QED
      BY <3>2, <3>3, <1>3 DEF ConnectionsPooled
  <2> QED
    BY <2>1, <2>2 DEF ConnectEnds
<1> QED
  BY <1>4, <1>6, <1>7

\* A clean-up disconnects one client after the other, and forgets them when none is left.
LEMMA CleanupInv ==
    ASSUME Inv, NEW t \in Task, CleanupGoesOn(t) \/ CleanupCancelled(t)
    PROVE  Inv'
<1> USE DEF Inv
<1>1. pc[t] = "cleaning" /\ holder = t
  BY DEF LockHeld, CleanupGoesOn, CleanupCancelled, CleanupEnds, Disconnect
<1>2. \A u \in Task \ {t} : pc[u] \notin {"connecting", "cleaning"}
  BY <1>1 DEF LockHeld
<1>3. /\ left \subseteq Pooled
      /\ \A k \in Pooled \ left : link[clients[k]] = "open" => clients[k] \in refused
  BY <1>1 DEF Cleaning
<1>4. CASE CleanupEnds(t)
  <2>1. \A c \in Client : link[c] = "open" => c \in refused
    BY <1>3, <1>4, PoolAssumption DEF CleanupEnds, ConnectionsPooled, Pooled
  <2>2. \A u \in Task : pc'[u] \notin {"connecting", "cleaning"}
    BY <1>2, <1>4 DEF CleanupEnds, Idle, TypeOK
  <2>3. TypeOK'
    BY <1>4 DEF TypeOK, CleanupEnds, Idle
  <2> QED
    BY <2>1, <2>2, <2>3, <1>4
    DEF CleanupEnds, ConnectionsPooled, LockHeld, Making, Cleaning
<1>5. CASE CleanupCancelled(t)
  <2>1. \A u \in Task : pc'[u] \notin {"connecting", "cleaning"}
    BY <1>2, <1>5 DEF CleanupCancelled, Idle, TypeOK
  <2>2. TypeOK'
    BY <1>5 DEF TypeOK, CleanupCancelled, Idle
  <2> QED
    BY <2>1, <2>2, <1>5
    DEF CleanupCancelled, ConnectionsPooled, LockHeld, Making, Cleaning
<1>6. ASSUME NEW k \in Key, Disconnect(t, k)
      PROVE  Inv'
  <2>1. /\ k \in left /\ left' = left \ {k} /\ refused \subseteq refused'
        /\ \/ link' = [link EXCEPT ![clients[k]] = "closed"] /\ refused' = refused
           \/ link' = link /\ refused' = refused \cup {clients[k]}
        /\ UNCHANGED <<clients, holder, pc, key>>
    BY <1>6 DEF Disconnect, taskVars
  <2>2. clients[k] \in Client
    BY <2>1, <1>3 DEF Pooled, TypeOK
  <2>3. TypeOK'
    BY <1>6, <2>2 DEF TypeOK, Disconnect, taskVars
  <2>4. \A c \in Client : link'[c] = "open" => link[c] = "open"
    BY <2>1, <2>2 DEF TypeOK
  <2>5. ConnectionsPooled' /\ LockHeld' /\ Making'
    BY <2>1, <2>4 DEF ConnectionsPooled, LockHeld, Making
  <2>6. link'[clients[k]] = "open" => clients[k] \in refused'
    BY <2>1, <2>2 DEF TypeOK
  <2>7. ASSUME NEW j \in Pooled \ left', link'[clients[j]] = "open"
        PROVE  clients[j] \in refused'
    <3>1. clients[j] \in Client
      BY <2>7 DEF Pooled, TypeOK
    <3> QED
      BY <3>1, <2>1, <2>4, <2>6, <2>7, <1>3
  <2>8. Cleaning'
    BY <2>1, <2>7, <1>3 DEF Cleaning, Pooled
  <2> QED
    BY <2>3, <2>5, <2>8
<1> QED
  BY <1>4, <1>5, <1>6 DEF CleanupGoesOn

\* A connection that is lost is not open.
LEMMA LoseInv ==
    ASSUME Inv, NEW c \in Client, Lose(c)
    PROVE  Inv'
<1> USE DEF Inv
<1>1. /\ link' = [link EXCEPT ![c] = "lost"]
      /\ UNCHANGED <<clients, refused, holder, left, pc, key>>
  BY DEF Lose, taskVars
<1>2. TypeOK'
  BY DEF Lose, TypeOK, taskVars
<1>3. \A d \in Client : link'[d] = "open" => link[d] = "open"
  BY <1>1 DEF TypeOK
<1>4. ConnectionsPooled' /\ LockHeld' /\ Making'
  BY <1>1, <1>3 DEF ConnectionsPooled, LockHeld, Making
<1>5. Cleaning'
  BY <1>1, <1>3 DEF Cleaning, Pooled, TypeOK
<1> QED
  BY <1>2, <1>4, <1>5

\* Every step of the pool preserves the invariant.
LEMMA NextInv == Inv /\ [Next]_vars => Inv'
<1> SUFFICES ASSUME Inv, [Next]_vars PROVE Inv'
  OBVIOUS
<1>1. CASE UNCHANGED vars
  BY <1>1 DEF Inv, vars, TypeOK, ConnectionsPooled, LockHeld, Making, Cleaning, Pooled
<1>2. CASE Next
  BY <1>2, WaitingInv, TurnInv, ConnectInv, CleanupInv, LoseInv DEF Next
<1> QED
  BY <1>1, <1>2

\* Inv is an invariant of the pool.
LEMMA AlwaysInv == Spec => []Inv
  BY InitInv, NextInv, PTL DEF Spec

\* Every open connection is the pool's, unless cleanup() could not disconnect it, for any
\* number of tasks and keys: two callers of one server never make two clients of which
\* one is forgotten (wrapper.py lines 242-255, 344-354).
THEOREM ConnectionsStayPooled == Spec => []ConnectionsPooled
  BY AlwaysInv, PTL DEF Inv

\* When cleanup() gives the lock back after its loop, the only connections that are open
\* are those whose __aexit__() raised (wrapper.py lines 344-354).
THEOREM CleanupClosesTheRest == Spec => CleanupCloses
<1> DEFINE Closes ==
      \A t \in Task : pc[t] = "cleaning" /\ left = {} /\ holder' = NoTask
          => \A c \in Client : link'[c] = "open" => c \in refused'
<1>1. ASSUME Inv, Next PROVE Closes
  <2> SUFFICES ASSUME NEW t \in Task, pc[t] = "cleaning", left = {}, holder' = NoTask,
                      NEW c \in Client, link'[c] = "open", c \notin refused'
               PROVE  FALSE
    OBVIOUS
  <2>1. holder = t /\ \A d \in Client : link[d] = "open" => d \in refused
    BY <1>1, PoolAssumption DEF Inv, LockHeld, Cleaning, ConnectionsPooled, Pooled
  <2>3. c \notin refused
    BY <1>1 DEF Next, vars, taskVars, GetClient, Cleanup, Turn, ConnectEnds, ConnectFails,
       CleanupGoesOn, CleanupEnds, Disconnect, CleanupCancelled, Leave, Lose, WaitForLock,
       Connected
  <2>2. \E u \in Task : Connected(u, c)
    BY <1>1, <2>1, <2>3 DEF Next, Inv, TypeOK, vars, taskVars, GetClient, Cleanup, Turn,
       ConnectEnds, ConnectFails, CleanupGoesOn, CleanupEnds, Disconnect, CleanupCancelled,
       Leave, Lose, WaitForLock, Connected, Key
  <2> QED
    BY <1>1, <2>1, <2>2 DEF Inv, LockHeld, Connected
<1>2. Inv /\ [Next]_vars => [Closes]_vars
  BY <1>1
<1> QED
  BY <1>2, AlwaysInv, PTL DEF Spec, CleanupCloses
=============================================================================
