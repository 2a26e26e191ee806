------------------------------- MODULE MCFlow -------------------------------
(* TLC instances of DependencyAwareExecutor. *)
EXTENDS DependencyAwareExecutor, TLC

CONSTANTS a, b, c, d, z, old

\* The source z has run in an earlier flow, on a branch that b was given too.  A
\* diamond: the expansion c depends on z and a, b on a, and d aggregates b and c.
MCNodes == <<z, a, b, c, d>>
MCEdges == <<<<a, b>>, <<a, c>>, <<b, d>>, <<c, d>>, <<z, c>>>>
MCConditional == {<<a, b>>, <<b, d>>}
MCPrimary == (b :> a) @@ (c :> z) @@ (d :> b)
MCSources == [o \in Op |-> IF o = d THEN {b, c} ELSE {}]
MCPlace == (z :> old) @@ (b :> old)

\* expand_from_result with the SEQUENTIAL strategy and chain_context: every new
\* operation depends on the source a only, the second inherits from the first.
ChainNodes == <<a, b, c>>
ChainEdges == <<<<a, b>>, <<a, c>>>>
ChainPrimary == (b :> a) @@ (c :> b)
NoSources == [o \in Op |-> {}]
NoPlace == [o \in {} |-> Default]
=============================================================================
