------------------------------ MODULE Session ------------------------------
(***************************************************************************)
(* session/session.py: the branches of a session, its default branch, and  *)
(* who has its registered operations; with what a flow of the session does *)
(* to the branches (operations/flow.py).  The branches are used by tasks   *)
(* all the while, those that were removed too.                             *)
(***************************************************************************)
EXTENDS Branch

CONSTANT NoBranch

ASSUME SessionAssumption == NoBranch \notin 1..MaxBranches

VARIABLES
    branches, \* the branches of the session, in order
    default,  \* default_branch
    operable, \* the branches with the session's operation manager
    flow,     \* where the flow is
    pending   \* the branches with pending_context_inheritance

sessionVars == <<branches, default, operable, flow, pending>>
vars == <<branchVars, sessionVars>>

Members == ToSet(branches)

\* A session made without branches makes its default branch.
Init ==
    /\ BranchInit
    /\ branches = <<1>>
    /\ default = 1
    /\ operable = {1}
    /\ flow = "idle"
    /\ pending = {}

\* include_branches(), and what the caller makes the default then.
Included(b, chosen) ==
    /\ branches' = IF b \in Members THEN branches ELSE Append(branches, b)
    /\ operable' = operable \cup {b}
    /\ default' = IF default = NoBranch THEN b ELSE chosen

Make(conv) ==
    /\ made < MaxBranches
    /\ made' = made + 1
    /\ convs' = [convs EXCEPT ![made + 1] = conv]
    /\ UNCHANGED <<exchanges, tasks>>

NewBranch(system, asDefault) ==
    /\ Make(IF system THEN WithSystem(NoMessages) ELSE NoMessages)
    /\ Included(made + 1, IF asDefault THEN made + 1 ELSE default)
    /\ UNCHANGED <<flow, pending>>

IncludeBranches(b) ==
    /\ Included(b, default)
    /\ UNCHANGED <<branchVars, flow, pending>>

Split(b) ==
    /\ b \in Members
    /\ Make(Cloned(convs[b]))
    /\ Included(made + 1, default)
    /\ UNCHANGED <<flow, pending>>

\* Mutant of NewDefault: the default branch is changed while others are left only.
NewDefaultKept(b, left) == IF default # b \/ left = <<>> THEN default ELSE left[1]

\* The default branch once b is removed and `left` are left.
NewDefault(b, left) ==
    IF default # b THEN default ELSE IF left = <<>> THEN NoBranch ELSE left[1]

RemoveBranch(b) ==
    /\ \E i \in 1..Len(branches) :
        LET left == RemoveAt(branches, i)
        IN  /\ branches[i] = b
            /\ branches' = left
            /\ default' = NewDefault(b, left)
    /\ UNCHANGED <<branchVars, operable, flow, pending>>

ChangeDefaultBranch(b) ==
    /\ b \in Members
    /\ default' = b
    /\ UNCHANGED <<branchVars, branches, operable, flow, pending>>

\* Session.flow() up to the lock that _preallocate_all_branches() waits for.
FlowBegins ==
    /\ flow = "idle"
    /\ flow' = "allocate"
    /\ UNCHANGED <<branchVars, branches, default, operable, pending>>

\* A clone of the default branch for each of `count` operations; those in `inherits`
\* will take over the messages of another one.  The clones go to the pile of branches,
\* past include_branches().  Without a default branch this raises.
FlowAllocates(count, inherits) ==
    LET new == made + 1..made + count
    IN  /\ flow = "allocate"
        /\ IF default = NoBranch
           THEN flow' = "idle" /\ UNCHANGED <<branchVars, branches, pending>>
           ELSE /\ made + count <= MaxBranches
                /\ made' = made + count
                /\ convs' = [b \in DOMAIN convs |->
                                IF b \in new THEN Cloned(convs[default]) ELSE convs[b]]
                /\ branches' = branches \o [i \in 1..count |-> made + i]
                /\ pending' = {made + i : i \in inherits}
                /\ flow' = "run"
                /\ UNCHANGED <<exchanges, tasks>>
        /\ UNCHANGED <<default, operable>>

\* An operation whose primary dependency has ended gets the messages of its branch.
FlowInherits(b, primary) ==
    /\ flow = "run"
    /\ b \in pending
    /\ convs' = [convs EXCEPT ![b] = Inherited(@, convs[primary])]
    /\ pending' = pending \ {b}
    /\ UNCHANGED <<made, exchanges, tasks, branches, default, operable, flow>>

\* The flow ends; a branch whose primary dependency never ended keeps what it has.
FlowEnds ==
    /\ flow = "run"
    /\ flow' = "idle"
    /\ pending' = {}
    /\ UNCHANGED <<branchVars, branches, default, operable>>

FlowNext ==
    \/ FlowBegins
    \/ \E count \in 1..2 : \E inherits \in SUBSET (1..count) : FlowAllocates(count, inherits)
    \/ \E b, primary \in Branches : FlowInherits(b, primary)
    \/ FlowEnds

SessionNext ==
    \/ \E system, asDefault \in BOOLEAN : NewBranch(system, asDefault)
    \/ \E b \in Branches : \/ IncludeBranches(b)
                           \/ Split(b)
                           \/ RemoveBranch(b)
                           \/ ChangeDefaultBranch(b)
    \/ FlowNext

Next == SessionNext \/ (BranchNext /\ UNCHANGED sessionVars)

Spec == Init /\ [][Next]_vars

-----------------------------------------------------------------------------
(* Properties *)

\* The session has a default branch as long as it has branches, and it is one of
\* them (session.py lines 179-183): what flow() and new flows' clones start from.
DefaultIsMember == IF branches = <<>> THEN default = NoBranch ELSE default \in Members

\* "Registered operations become available to every Branch in the session"
\* (docs/advanced/custom-operations.md lines 30-31).  The branches that a flow
\* allocates are in the session without its operation manager.
OperationsAvailable == Members \subseteq operable
=============================================================================
