-------------------------- MODULE MCPConnectionPool --------------------------
(***************************************************************************)
(* service/connections/mcp/wrapper.py: the clients of MCP servers that all *)
(* tools of a process share.  A client is known by its key: the name of a  *)
(* server of .mcp.json, or the identity of a configuration passed inline.  *)
(* Connecting and disconnecting await the server while the pool's lock is  *)
(* held; a connection may be lost at any time.                             *)
(***************************************************************************)
EXTENDS Naturals, FiniteSets

CONSTANTS
    Task,       \* the tasks that use the pool
    Server,     \* keys: the servers that .mcp.json may name
    Inline,     \* keys: the inline configurations
    NoTask, NoKey, NoClient,
    MaxClients  \* bound: how many connections are ever made

Key == Server \cup Inline
Client == 1..MaxClients

ASSUME PoolAssumption ==
    /\ MaxClients \in Nat
    /\ NoTask \notin Task
    /\ NoKey \notin Key
    /\ NoClient \notin Client

VARIABLES
    configs, \* _configs: the servers that were loaded
    clients, \* _clients
    link,    \* what became of each client's connection
    refused, \* history: the clients whose __aexit__() raised and left them connected
    holder,  \* the task with the lock
    left,    \* the keys that the cleanup in progress has still to disconnect
    pc,      \* the await that each task is at
    key,     \* what it waits for: a client's key, NoKey for cleanup()
    mine     \* the client it was given

vars == <<configs, clients, link, refused, holder, left, pc, key, mine>>
taskVars == <<pc, key, mine>>

TypeOK ==
    /\ configs \subseteq Server
    /\ clients \in [Key -> Client \cup {NoClient}]
    /\ link \in [Client -> {"new", "open", "lost", "closed"}]
    /\ refused \subseteq Client
    /\ holder \in Task \cup {NoTask}
    /\ left \subseteq Key
    /\ pc \in [Task -> {"idle", "lock", "connecting", "cleaning", "using"}]
    /\ key \in [Task -> Key \cup {NoKey}]
    /\ mine \in [Task -> Client \cup {NoClient}]

Pooled == {k \in Key : clients[k] # NoClient}

Init ==
    /\ configs = {}
    /\ clients = [k \in Key |-> NoClient]
    /\ link = [c \in Client |-> "new"]
    /\ refused = {}
    /\ holder = NoTask
    /\ left = {}
    /\ pc = [t \in Task |-> "idle"]
    /\ key = [t \in Task |-> NoKey]
    /\ mine = [t \in Task |-> NoClient]

Idle(t) ==
    /\ pc' = [pc EXCEPT ![t] = "idle"]
    /\ key' = [key EXCEPT ![t] = NoKey]
    /\ mine' = [mine EXCEPT ![t] = NoClient]

WaitForLock(t, k) ==
    /\ pc' = [pc EXCEPT ![t] = "lock"]
    /\ key' = [key EXCEPT ![t] = k]
    /\ UNCHANGED <<clients, link, refused, holder, left, mine>>

\* get_client() up to the lock.  A server that is not known yet is looked up in the
\* file, which has the servers `file` now; if it is not there either this raises.
GetClient(t, k, file) ==
    /\ pc[t] = "idle"
    /\ k \in Server \ configs \/ file = {}
    /\ configs' = configs \cup file
    /\ IF k \in Server \ configs'
       THEN UNCHANGED <<clients, link, refused, holder, left, taskVars>>
       ELSE WaitForLock(t, k)

Cleanup(t) ==
    /\ pc[t] = "idle"
    /\ WaitForLock(t, NoKey)
    /\ UNCHANGED configs

\* Is there a client for the key, and is it connected?
Hit(k) == k \in Pooled /\ link[clients[k]] = "open"

\* Mutant of HeldBy: the lock is given up while a client connects.
HeldByNobody(t) == NoTask

\* Who has the lock while t awaits a connection.
HeldBy(t) == t

\* The lock is free and t has it.  It looks into the pool and returns the client, or
\* drops a stale one and begins to connect; or it begins to disconnect all clients.
Turn(t) ==
    /\ pc[t] = "lock"
    /\ holder = NoTask
    /\ \/ /\ key[t] # NoKey
          /\ Hit(key[t])
          /\ pc' = [pc EXCEPT ![t] = "using"]
          /\ mine' = [mine EXCEPT ![t] = clients[key[t]]]
          /\ UNCHANGED <<clients, holder, left>>
       \/ /\ key[t] # NoKey
          /\ ~Hit(key[t])
          /\ clients' = [clients EXCEPT ![key[t]] = NoClient]
          /\ pc' = [pc EXCEPT ![t] = "connecting"]
          /\ holder' = HeldBy(t)
          /\ UNCHANGED <<left, mine>>
       \/ /\ key[t] = NoKey
          /\ left' = Pooled
          /\ pc' = [pc EXCEPT ![t] = "cleaning"]
          /\ holder' = t
          /\ UNCHANGED <<clients, mine>>
    /\ UNCHANGED <<configs, link, refused, key>>

\* __aenter__() of the new client returns.
Connected(t, c) ==
    /\ pc[t] = "connecting"
    /\ link[c] = "new"
    /\ link' = [link EXCEPT ![c] = "open"]
    /\ clients' = [clients EXCEPT ![key[t]] = c]
    /\ mine' = [mine EXCEPT ![t] = c]
    /\ pc' = [pc EXCEPT ![t] = "using"]
    /\ holder' = NoTask
    /\ UNCHANGED <<configs, refused, left, key>>

\* Mutant of FreedBy: only a call that succeeds gives the lock back.
FreedByNobody(t) == holder

\* Who has the lock when t leaves it by an exception: `async with` gives it back.
FreedBy(t) == NoTask

\* It raises, or the configuration is refused, or the task is cancelled.
ConnectFails(t) ==
    /\ pc[t] = "connecting"
    /\ Idle(t)
    /\ holder' = FreedBy(t)
    /\ UNCHANGED <<configs, clients, link, refused, left>>

\* One turn of cleanup()'s loop: __aexit__() returns, and the connection is closed; or it
\* raises, which is logged, and leaves it open.
Disconnect(t, k) ==
    /\ pc[t] = "cleaning"
    /\ k \in left
    /\ left' = left \ {k}
    /\ \/ /\ link' = [link EXCEPT ![clients[k]] = "closed"]
          /\ UNCHANGED refused
       \/ /\ link[clients[k]] = "open"
          /\ refused' = refused \cup {clients[k]}
          /\ UNCHANGED link
    /\ UNCHANGED <<configs, clients, holder, taskVars>>

\* The pool forgets all clients, the ones too that it could not disconnect.
CleanupEnds(t) ==
    /\ pc[t] = "cleaning"
    /\ left = {}
    /\ clients' = [k \in Key |-> NoClient]
    /\ holder' = NoTask
    /\ Idle(t)
    /\ UNCHANGED <<configs, link, refused, left>>

\* Cancelled in the loop: what was disconnected stays in the pool.
CleanupCancelled(t) ==
    /\ pc[t] = "cleaning"
    /\ left' = {}
    /\ holder' = NoTask
    /\ Idle(t)
    /\ UNCHANGED <<configs, clients, link, refused>>

\* Cancelled while it waits for the lock; or the call of the tool is over, one way or
\* another: another task's cleanup() may have disconnected the client under it.
Leave(t) ==
    /\ pc[t] \in {"lock", "using"}
    /\ Idle(t)
    /\ UNCHANGED <<configs, clients, link, refused, holder, left>>

\* The server goes away.
Lose(c) ==
    /\ link[c] = "open"
    /\ link' = [link EXCEPT ![c] = "lost"]
    /\ UNCHANGED <<configs, clients, refused, holder, left, taskVars>>

ConnectEnds(t) == ConnectFails(t) \/ \E c \in Client : Connected(t, c)
CleanupGoesOn(t) == CleanupEnds(t) \/ \E k \in Key : Disconnect(t, k)

Next ==
    \/ \E t \in Task : \/ \E k \in Key, file \in SUBSET Server : GetClient(t, k, file)
                       \/ Cleanup(t)
                       \/ Turn(t)
                       \/ ConnectEnds(t)
                       \/ CleanupGoesOn(t)
                       \/ CleanupCancelled(t)
                       \/ Leave(t)
    \/ \E c \in Client : Lose(c)

Spec == Init /\ [][Next]_vars

\* The lock is first come, first served, and a task that awaits nothing goes on.  The
\* awaits of a server have no timeout: nothing is assumed of them.
Fairness ==
    \A t \in Task : SF_vars(Turn(t)) /\ WF_vars(CleanupEnds(t))

FairSpec == Spec /\ Fairness

-----------------------------------------------------------------------------
(* Properties *)

\* Every connection that is open is in the pool under one key, whatever tasks ask for
\* the same client at once and whichever way their attempts and clean-ups end (wrapper.py
\* lines 242-255): otherwise nobody could ever disconnect it.  The exception is one that
\* cleanup() has tried to disconnect and then forgets (lines 349-353).
ConnectionsPooled ==
    \A c \in Client : link[c] = "open" /\ c \notin refused => \E k \in Key : clients[k] = c

\* cleanup() leaves no connection open (wrapper.py lines 344-354) but those whose
\* __aexit__() raised, though other tasks were about to connect when it was called and
\* though some of the connections before them in its loop could not be closed.
CleanupCloses ==
    [][\A t \in Task : pc[t] = "cleaning" /\ left = {} /\ holder' = NoTask
          => \A c \in Client : link'[c] = "open" => c \in refused']_vars

\* Every attempt to connect, and every attempt to disconnect, ends, one way or another.
ServersAnswer ==
    \A t \in Task :
        /\ []<>(pc[t] # "connecting")
        /\ \A k \in Key : []<>~(pc[t] = "cleaning" /\ k \in left)

\* A task that waits for the lock gets past it, if the connects and disconnects that
\* others await while they hold it (wrapper.py lines 340 and 349) end: however they end,
\* and however many tasks come after it.
EveryCallGetsThrough ==
    ServersAnswer => \A t \in Task : pc[t] = "lock" ~> pc[t] # "lock"

\* The same of any servers, which the code does not promise: one that never answers
\* stops the tasks that want the others.
NoServerStopsAll == \A t \in Task : pc[t] = "lock" ~> pc[t] # "lock"
=============================================================================
