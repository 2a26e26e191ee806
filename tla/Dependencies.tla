---------------------------- MODULE Dependencies ----------------------------
(***************************************************************************)
(* What the flow of an operation graph promises about the order of its     *)
(* operations, without tasks, events or limiters.  An operation runs only  *)
(* when all its predecessors are over, and only if a path to it is left;   *)
(* it is skipped only when no path is left; an aggregation waits for its   *)
(* sources too.  An operation whose attempt timed out counts as over from  *)
(* then on, although it is tried again.                                    *)
(***************************************************************************)
CONSTANTS
  Op,           \* the operations
  Path,         \* the edges of the graph, as pairs <<head, tail>>
  Sources,      \* the operations that each operation aggregates
  Conditional,  \* the edges that have a condition
  Given         \* the operations that are completed before the flow starts

VARIABLES
  phase,   \* "waiting", "running", "ran", "skipped" or "stopped"
  expired  \* operations with an attempt that timed out

vars == <<phase, expired>>

Heads(o) == {e[1] : e \in {p \in Path : p[2] = o}}
Awaited(o) == Heads(o) \union Sources[o]
Over(o) == phase[o] \in {"ran", "skipped"} \/ o \in expired
Open(o) == phase[o] # "skipped" \/ o \in expired

Init ==
  /\ phase = [o \in Op |-> IF o \in Given THEN "ran" ELSE "waiting"]
  /\ expired = {}

Become(o, p) ==
  /\ phase' = [phase EXCEPT ![o] = p]
  /\ UNCHANGED expired

Run(o) ==
  /\ phase[o] = "waiting"
  /\ \A h \in Awaited(o) : Over(h)
  /\ Heads(o) # {} => \E h \in Heads(o) : Open(h)
  /\ Become(o, "running")

Skip(o) ==
  /\ phase[o] = "waiting"
  /\ Heads(o) # {}
  /\ \A h \in Heads(o) : Over(h) /\ (<<h, o>> \in Conditional \/ phase[h] = "skipped")
  /\ Become(o, "skipped")

\* What a predecessor left cannot be used: a condition raises or no context can be built.
Break(o) ==
  /\ phase[o] = "waiting"
  /\ \E h \in Heads(o) : Over(h)
  /\ Become(o, "ran")

End(o) == phase[o] = "running" /\ Become(o, "ran")

Expire(o) ==
  /\ phase[o] \in {"waiting", "running"}
  /\ phase' = [phase EXCEPT ![o] = "waiting"]
  /\ expired' = expired \union {o}

\* The last attempt of an operation timed out: the operation is given up, or the flow.
Lapse(o) ==
  /\ phase[o] \in {"waiting", "running"}
  /\ phase' = [phase EXCEPT ![o] = "stopped"]
  /\ expired' = expired \union {o}

Abort(o) ==
  /\ phase[o] \in {"waiting", "running"}
  /\ phase' = [p \in Op |->
                 IF phase[p] \in {"waiting", "running"} THEN "stopped" ELSE phase[p]]
  /\ expired' = expired \union {o}

Next ==
  \E o \in Op :
    Run(o) \/ Skip(o) \/ Break(o) \/ End(o) \/ Expire(o) \/ Lapse(o) \/ Abort(o)

Spec == Init /\ [][Next]_vars
=============================================================================
