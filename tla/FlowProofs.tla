----------------------------- MODULE FlowProofs -----------------------------
(***************************************************************************)
(* Proofs about DependencyAwareExecutor, for any graph, limiter, slots,    *)
(* timeouts and attempts: the flow implements the order of the graph, a    *)
(* flow that returns accounts for every operation, and context is handed   *)
(* on to the heirs that are ordered after their primary dependency.        *)
(***************************************************************************)
EXTENDS DependencyAwareExecutor, TLAPS

\* Nobody waits for the operation any more.
Settled(o) == o \in Given \/ at[o] = "over" \/ o \in Expired

\* The operation leaves a path to its successors.
Usable(o) == o \in Given \/ (at[o] = "over" /\ o \notin skipped) \/ o \in Expired

WayLeft(o) == \E i \in Incoming(o) : Usable(Edges[i][1])

\* Nothing moves after the end of execute(), and every wait has ended rightly.
EndIsEnd ==
  /\ outcome = "returned" => \A o \in Op : at[o] \in {"over", "lapsed"}
  /\ outcome = "raised" => \A o \in Op : at[o] \in {"over", "lapsed", "cancelled"}
DoneAreSettled == outcome = "running" => \A o \in done : Settled(o)

\* What the place of a task says of its operation.
GivenStays(o) ==
  o \in Given => /\ at[o] \in {"new", "over", "cancelled"}
                 /\ status[o] = "completed" /\ results[o] # "absent"

StillOpen(o) ==
  at[o] \notin {"over", "lapsed", "cancelled"} =>
    /\ tries[o] <= Attempts
    /\ o \notin Given => status[o] \notin {"completed", "skipped"} /\ results[o] = "absent"

OverIsFinal(o) ==
  /\ o \in skipped => at[o] = "over"
  /\ at[o] = "over" => /\ o \in done
                       /\ results[o] = "absent" <=> o \in skipped
                       /\ status[o] = "skipped" <=> o \in skipped

LapsedRightly(o) ==
  at[o] = "lapsed" => /\ lenient /\ tries[o] > Attempts /\ o \in done /\ o \notin Given
                      /\ o \notin skipped /\ status[o] # "skipped"

LookedInVain(o) ==
  at[o] = "edges" => \A i \in looked[o] :
    /\ i \in Incoming(o) /\ Edges[i][1] \in done
    /\ Edges[i][1] \in skipped \/ Edges[i] \in Conditional

WayIsLeft(o) ==
  /\ at[o] \in {"deps", "limiter", "invoking"} => (Incoming(o) # {} => WayLeft(o))
  /\ at[o] \in {"limiter", "invoking"} => Sources[o] \union Heads(o) \subseteq done

Right(o) ==
  /\ GivenStays(o) /\ StillOpen(o) /\ OverIsFinal(o) /\ LapsedRightly(o)
  /\ LookedInVain(o) /\ WayIsLeft(o)

\* The inductive invariant.
FInv == TypeOK /\ EndIsEnd /\ DoneAreSettled /\ \A o \in Op : Right(o)

LEMMA EdgeFacts ==
  /\ \A i \in DOMAIN Edges : Edges[i][1] \in Op /\ Edges[i][2] \in Op
  /\ \A o \in Op : Heads(o) \subseteq Op
  /\ Given \subseteq Op /\ Heir \subseteq Op /\ Primary \in [Heir -> Op]
  /\ \A o \in Op : Branch(o) \in Op \union Branches
                    /\ (Branch(o) = o \/ Branch(o) \in Branches) /\ o \notin Branches
BY FlowAssumption DEF Path, Heads, Incoming, Branch

LEMMA InitFInv == Init => FInv
<1> SUFFICES ASSUME Init PROVE FInv
  OBVIOUS
<1>1. TypeOK
  <2>1. \A b \in Op \union Branches : Before(b) \in SUBSET Op
    BY FlowAssumption DEF Before
  <2>2. msgs \in [Op \union Branches -> SUBSET Op]
    BY <2>1 DEF Init
  <2>3. results \in [Op -> {"absent", "value", "none", "error"}] /\ tries \in [Op -> 0..(Attempts + 1)]
    BY FlowAssumption DEF Init
  <2> QED
    BY <2>2, <2>3, FlowAssumption DEF Init, TypeOK
<1>2. EndIsEnd /\ DoneAreSettled
  BY DEF Init, EndIsEnd, DoneAreSettled, Settled
<1>3. \A o \in Op : Right(o)
  BY FlowAssumption DEF Init, Right, GivenStays, StillOpen, OverIsFinal, LapsedRightly, LookedInVain, WayIsLeft
<1> QED
  BY <1>1, <1>2, <1>3 DEF FInv

-----------------------------------------------------------------------------
(* One task moves.                                                         *)

\* What a step of o leaves of the other operations, and what it never undoes.
Moves(o) ==
  /\ at[o] \notin {"over", "lapsed", "cancelled"}
  /\ done \subseteq done' /\ skipped \subseteq skipped'
  /\ tries'[o] \in Nat /\ tries'[o] >= tries[o]
  /\ \A p \in Op \ {o} :
       /\ at'[p] = at[p] /\ looked'[p] = looked[p] /\ status'[p] = status[p]
       /\ results'[p] = results[p] /\ tries'[p] = tries[p]
       /\ p \in done' => p \in done
       /\ p \in skipped' => p \in skipped
  /\ o \in done' => o \in done \/ at'[o] = "over" \/ tries'[o] > 0
  /\ lenient' = lenient

LEMMA StillRunning ==
  ASSUME FInv, NEW o \in Op, at[o] \notin {"over", "lapsed", "cancelled"}
  PROVE  outcome = "running" /\ o \notin skipped
BY DEF FInv, TypeOK, EndIsEnd, Right, OverIsFinal

LEMMA UsableStays ==
  ASSUME FInv, NEW o \in Op, Moves(o), NEW p \in Op
  PROVE  /\ Usable(p) => Usable(p)'
         /\ Settled(p) => Settled(p)'
<1>1. tries[o] \in Nat /\ tries'[o] \in Nat /\ tries'[o] >= tries[o]
  BY FlowAssumption DEF Moves, FInv, TypeOK
<1>2. p \in Expired => p \in Expired'
  BY <1>1 DEF Moves, Expired
<1>3. at[p] = "over" => at'[p] = "over" /\ (p \in skipped' => p \in skipped)
  BY DEF Moves
<1> QED
  BY <1>2, <1>3 DEF Usable, Settled

LEMMA OthersStayRight ==
  ASSUME FInv, NEW o \in Op, Moves(o), NEW p \in Op \ {o}
  PROVE  Right(p)'
<1>1. Right(p)
  BY DEF FInv
<1>2. /\ at'[p] = at[p] /\ looked'[p] = looked[p] /\ status'[p] = status[p]
      /\ results'[p] = results[p]
      /\ p \in done' <=> p \in done
      /\ p \in skipped' <=> p \in skipped
  BY DEF Moves
<1>3. GivenStays(p)' /\ StillOpen(p)' /\ OverIsFinal(p)' /\ LapsedRightly(p)'
  BY <1>1, <1>2 DEF Right, GivenStays, StillOpen, OverIsFinal, LapsedRightly, Moves
<1>4. LookedInVain(p)'
  BY <1>1, <1>2 DEF Right, LookedInVain, Moves, Incoming
<1>5. WayLeft(p) => WayLeft(p)'
  BY UsableStays, EdgeFacts DEF WayLeft, Incoming
<1>6. WayIsLeft(p)'
  BY <1>1, <1>2, <1>5 DEF Right, WayIsLeft, Moves, Heads, Incoming
<1> QED
  BY <1>3, <1>4, <1>6 DEF Right

LEMMA MoveKeeps ==
  ASSUME FInv, NEW o \in Op, Moves(o), TypeOK', Right(o)', UNCHANGED <<outcome, lenient>>
  PROVE  FInv'
<1>1. outcome = "running"
  BY StillRunning DEF Moves
<1>2. EndIsEnd'
  BY <1>1 DEF EndIsEnd
<1>3. DoneAreSettled'
  <2> SUFFICES ASSUME NEW p \in done' PROVE Settled(p)'
    BY DEF DoneAreSettled
  <2>1. p \in Op
    BY DEF TypeOK
  <2>2. CASE p \in done
    BY <1>1, <2>1, <2>2, UsableStays DEF FInv, DoneAreSettled
  <2>3. CASE p \notin done
    BY <2>1, <2>3 DEF Moves, Settled, Expired
  <2> QED
    BY <2>2, <2>3
<1> QED
  BY <1>2, <1>3, OthersStayRight DEF FInv
-----------------------------------------------------------------------------
(* The steps of a task.                                                    *)

\* A task ends: with a result, with an error, or because no path is left.
LEMMA EndsRight ==
  ASSUME FInv, NEW o \in Op, o \notin Given, at[o] \notin {"over", "lapsed", "cancelled"},
         at' = [at EXCEPT ![o] = "over"], done' = done \union {o},
         results'[o] # "absent" <=> o \notin skipped', status'[o] = "skipped" <=> o \in skipped'
  PROVE  Right(o)'
<1>1. at'[o] = "over" /\ o \in done'
  BY DEF FInv, TypeOK
<1> QED
  BY <1>1 DEF Right, GivenStays, StillOpen, OverIsFinal, LapsedRightly, LookedInVain, WayIsLeft

LEMMA BeginKeepsF ==
  ASSUME FInv, NEW o \in Op, Begin(o)
  PROVE  FInv' /\ (status[o] = "completed" => o \in Given)
<1>1. /\ TypeOK /\ Right(o) /\ at[o] \in {"again", "new"} /\ o \notin skipped
      /\ UNCHANGED <<tries, status, results, skipped, msgs, pending, outcome, lenient>>
  BY StillRunning DEF Begin, FInv
<1>2. status[o] = "completed" => o \in Given /\ results[o] # "absent"
  BY <1>1 DEF Right, StillOpen, GivenStays
<1>3. CASE status[o] = "completed"
  <2>1. /\ at' = [at EXCEPT ![o] = "over"] /\ done' = done \union {o} /\ looked' = looked
    BY <1>3 DEF Begin, Over, Move
  <2>2. TypeOK'
    BY <1>1, <2>1 DEF TypeOK
  <2>3. Moves(o)
    BY <1>1, <2>1 DEF Moves, TypeOK
  <2>4. at'[o] = "over" /\ o \in done'
    BY <1>1, <2>1 DEF TypeOK
  <2>5. Right(o)'
    BY <1>1, <1>2, <1>3, <2>4
       DEF Right, GivenStays, StillOpen, OverIsFinal, LapsedRightly, LookedInVain, WayIsLeft
  <2> QED
    BY <1>1, <1>2, <2>2, <2>3, <2>5, MoveKeeps
<1>4. CASE status[o] # "completed"
  <2>1. /\ at' = [at EXCEPT ![o] = FirstWait(o)]
        /\ looked' = [looked EXCEPT ![o] = {}] /\ done' = done
    BY <1>4 DEF Begin, Move
  <2>2. TypeOK'
    BY <1>1, <2>1 DEF TypeOK, FirstWait
  <2>3. Moves(o)
    BY <1>1, <2>1 DEF Moves, TypeOK
  <2>4. /\ at'[o] = FirstWait(o)
        /\ looked'[o] = {}
    BY <1>1, <2>1 DEF TypeOK
  <2>5. Right(o)'
    BY <1>1, <1>4, <2>4
       DEF Right, GivenStays, StillOpen, OverIsFinal, LapsedRightly, LookedInVain, WayIsLeft,
           Heads, Incoming, FirstWait
  <2> QED
    BY <1>1, <1>4, <2>2, <2>3, <2>5, MoveKeeps
<1> QED
  BY <1>3, <1>4

\* What an edge that leads to a finished head shows.
LEMMA HeadIsSettled ==
  ASSUME FInv, NEW h \in done, outcome = "running"
  PROVE  Settled(h) /\ h \in Op /\ (h \notin skipped => Usable(h))
BY DEF FInv, TypeOK, DoneAreSettled, Settled, Usable

LEMMA CheckEdgeKeeps ==
  ASSUME FInv, NEW o \in Op, CheckEdge(o)
  PROVE  FInv'
<1>1. /\ TypeOK /\ Right(o) /\ at[o] = "edges" /\ o \notin skipped /\ o \notin Given
      /\ results[o] = "absent" /\ status[o] # "skipped" /\ outcome = "running"
      /\ UNCHANGED <<tries, msgs, pending, outcome, lenient>>
  BY StillRunning DEF CheckEdge, FInv, Right, GivenStays, StillOpen
<1>2. PICK i \in Incoming(o) \ looked[o] :
        /\ Edges[i][1] \in done
        /\ \/ Edges[i][1] \in skipped /\ Blocked(o, i)
           \/ Edges[i][1] \notin skipped /\ Unblocked(o)
           \/ Edges[i][1] \notin skipped /\ Edges[i] \in Conditional /\ Blocked(o, i)
           \/ Failed(o)
  BY DEF CheckEdge
<1>3. CASE Skipped(o)
  <2>1. /\ status' = [status EXCEPT ![o] = "skipped"] /\ skipped' = skipped \union {o}
        /\ at' = [at EXCEPT ![o] = "over"] /\ done' = done \union {o}
        /\ UNCHANGED <<looked, results>>
    BY <1>3 DEF Skipped, Over, Move, SetStatus
  <2>2. TypeOK'
    BY <1>1, <2>1 DEF TypeOK
  <2>3. at'[o] = "over" /\ status'[o] = "skipped" /\ Moves(o)
    BY <1>1, <2>1 DEF Moves, TypeOK
  <2>4. Right(o)'
    BY <1>1, <2>1, <2>3, EndsRight
  <2> QED
    BY <1>1, <2>2, <2>3, <2>4, MoveKeeps
<1>4. CASE Failed(o)
  <2>1. /\ status' = [status EXCEPT ![o] = "failed"] /\ results' = [results EXCEPT ![o] = "error"]
        /\ at' = [at EXCEPT ![o] = "over"] /\ done' = done \union {o}
        /\ UNCHANGED <<looked, skipped>>
    BY <1>4 DEF Failed, Over, Move, SetStatus, Store
  <2>2. TypeOK'
    BY <1>1, <2>1 DEF TypeOK
  <2>3. at'[o] = "over" /\ status'[o] = "failed" /\ results'[o] = "error" /\ Moves(o)
    BY <1>1, <2>1 DEF Moves, TypeOK
  <2>4. Right(o)'
    BY <1>1, <2>1, <2>3, EndsRight
  <2> QED
    BY <1>1, <2>2, <2>3, <2>4, MoveKeeps
<1>5. CASE Edges[i][1] \notin skipped /\ Unblocked(o)
  <2>1. at' = [at EXCEPT ![o] = "deps"] /\ UNCHANGED <<looked, done, status, results, skipped>>
    BY <1>5 DEF Unblocked, Move
  <2>2. TypeOK'
    BY <1>1, <2>1 DEF TypeOK
  <2>3. at'[o] = "deps" /\ Moves(o)
    BY <1>1, <2>1 DEF Moves, TypeOK
  <2>4. Usable(Edges[i][1])'
    BY <1>1, <1>2, <1>5, <2>3, HeadIsSettled, UsableStays
  <2>5. WayLeft(o)'
    BY <1>2, <2>4 DEF WayLeft, Incoming
  <2>6. Right(o)'
    BY <1>1, <2>1, <2>3, <2>5 DEF Right, GivenStays, StillOpen, OverIsFinal, LapsedRightly, LookedInVain, WayIsLeft
  <2> QED
    BY <1>1, <2>2, <2>3, <2>6, MoveKeeps
<1>6. CASE /\ looked' = [looked EXCEPT ![o] = @ \union {i}]
           /\ UNCHANGED <<at, done, status, results, skipped>>
           /\ Edges[i][1] \in skipped \/ Edges[i] \in Conditional
  <2>1. i \in DOMAIN Edges /\ looked[o] \in SUBSET DOMAIN Edges
    BY <1>1, <1>2 DEF Incoming, TypeOK
  <2>2. looked'[o] = looked[o] \union {i} /\ looked' \in [Op -> SUBSET DOMAIN Edges]
    BY <1>1, <1>6, <2>1 DEF TypeOK
  <2>3. TypeOK'
    BY <1>1, <1>6, <2>2 DEF TypeOK
  <2>4. Moves(o)
    BY <1>1, <1>6 DEF Moves, TypeOK
  <2>5. LookedInVain(o)'
    BY <1>1, <1>2, <1>6, <2>2 DEF Right, LookedInVain, Incoming
  <2>6. Right(o)'
    BY <1>1, <1>6, <2>5 DEF Right, GivenStays, StillOpen, OverIsFinal, LapsedRightly, WayIsLeft
  <2> QED
    BY <1>1, <2>3, <2>4, <2>6, MoveKeeps
<1> QED
  BY <1>2, <1>3, <1>4, <1>5, <1>6 DEF Blocked
LEMMA WaitKeeps ==
  ASSUME FInv, NEW o \in Op, WaitForDependencies(o)
  PROVE  FInv'
<1>1. /\ TypeOK /\ Right(o) /\ at[o] = "deps" /\ Sources[o] \union Heads(o) \subseteq done
      /\ at' = [at EXCEPT ![o] = "limiter"]
      /\ UNCHANGED <<looked, tries, status, done, results, skipped, msgs, pending, outcome, lenient>>
  BY DEF WaitForDependencies, AllReady, Move, FInv
<1>2. TypeOK'
  BY <1>1 DEF TypeOK
<1>3. at'[o] = "limiter" /\ Moves(o)
  BY <1>1 DEF Moves, TypeOK
<1>4. Incoming(o) # {} => WayLeft(o)'
  BY <1>1, <1>3, UsableStays, EdgeFacts DEF Right, WayIsLeft, WayLeft, Incoming
<1>5. Right(o)'
  BY <1>1, <1>3, <1>4
     DEF Right, GivenStays, StillOpen, OverIsFinal, LapsedRightly, LookedInVain, WayIsLeft, Heads, Incoming
<1> QED
  BY <1>1, <1>2, <1>3, <1>5, MoveKeeps

LEMMA EnterKeeps ==
  ASSUME FInv, NEW o \in Op, Enter(o)
  PROVE  FInv'
<1>1. /\ TypeOK /\ Right(o) /\ at[o] = "limiter" /\ at' = [at EXCEPT ![o] = "invoking"]
      /\ status' = [status EXCEPT ![o] = "processing"]
      /\ UNCHANGED <<looked, tries, done, results, skipped, outcome, lenient>>
  BY DEF Enter, SetStatus, Move, FInv
<1>2. msgs' \in [Op \union Branches -> SUBSET Op] /\ pending' \in SUBSET Heir
  <2>1. Branch(Primary[o]) \in Op \union Branches \/ o \notin Heir
    BY EdgeFacts, FlowAssumption DEF Branch
  <2>2. pending' \in SUBSET Heir
    BY <1>1 DEF Enter, TypeOK
  <2>3. msgs' \in [Op \union Branches -> SUBSET Op]
    BY <1>1, <2>1 DEF Enter, Inherited, Inherits, TypeOK
  <2> QED
    BY <2>2, <2>3
<1>3. TypeOK'
  BY <1>1, <1>2 DEF TypeOK
<1>4. at'[o] = "invoking" /\ status'[o] = "processing" /\ Moves(o)
  BY <1>1 DEF Moves, TypeOK
<1>5. WayLeft(o) => WayLeft(o)'
  BY <1>4, UsableStays, EdgeFacts DEF WayLeft, Incoming
<1>6. Right(o)'
  BY <1>1, <1>4, <1>5
     DEF Right, GivenStays, StillOpen, OverIsFinal, LapsedRightly, LookedInVain, WayIsLeft, Heads, Incoming
<1> QED
  BY <1>1, <1>3, <1>4, <1>6, MoveKeeps

LEMMA InvokedKeeps ==
  ASSUME FInv, NEW o \in Op, Invoked(o)
  PROVE  FInv'
<1>1. /\ TypeOK /\ Right(o) /\ at[o] = "invoking" /\ o \notin skipped /\ o \notin Given
      /\ at' = [at EXCEPT ![o] = "over"] /\ done' = done \union {o}
      /\ UNCHANGED <<looked, skipped, tries, pending, outcome, lenient>>
  BY StillRunning DEF Invoked, Respond, Unsupported, Failed, Over, Move, FInv, Right, GivenStays
<1>2. PICK r \in {"value", "none", "error"}, t \in {"completed", "failed"} :
        results' = [results EXCEPT ![o] = r] /\ status' = [status EXCEPT ![o] = t]
  BY DEF Invoked, Respond, Unsupported, Failed, Store, SetStatus
<1>3. msgs' = [msgs EXCEPT ![Branch(o)] = @ \union {o}] \/ msgs' = msgs
  BY DEF Invoked, Respond, Unsupported
<1>4. Branch(o) \in Op \union Branches
  BY EdgeFacts
<1>5. msgs' \in [Op \union Branches -> SUBSET Op]
  BY <1>1, <1>3, <1>4 DEF TypeOK
<1>6. TypeOK'
  BY <1>1, <1>2, <1>5 DEF TypeOK
<1>7. at'[o] = "over" /\ status'[o] = t /\ results'[o] = r /\ Moves(o)
  BY <1>1, <1>2 DEF Moves, TypeOK
<1>8. Right(o)'
  BY <1>1, <1>2, <1>7, EndsRight
<1> QED
  BY <1>1, <1>6, <1>7, <1>8, MoveKeeps

LEMMA RetryKeeps ==
  ASSUME FInv, NEW o \in Op, Timeout(o), Retry(o)
  PROVE  FInv'
<1>1. /\ TypeOK /\ Right(o) /\ at[o] \in {"edges", "deps", "limiter", "invoking"}
      /\ o \notin Given /\ tries[o] \in Nat /\ tries[o] < Attempts
      /\ tries' = [tries EXCEPT ![o] = @ + 1] /\ at' = [at EXCEPT ![o] = "again"]
      /\ done' = done \union {o}
      /\ UNCHANGED <<looked, results, skipped, msgs, pending, outcome, lenient>>
  BY FlowAssumption DEF Timeout, Retry, AttemptsLeft, Move, FInv, Right, GivenStays, TypeOK
<1>2. PICK t \in {"cancelled", status[o]} : status' = [status EXCEPT ![o] = t]
  BY DEF Retry, SetStatus, Cancelled
<1>3. tries[o] + 1 \in 0..(Attempts + 1)
  BY <1>1, FlowAssumption
<1>4. TypeOK'
  BY <1>1, <1>2, <1>3 DEF TypeOK
<1>5. at'[o] = "again" /\ status'[o] = t /\ tries'[o] = tries[o] + 1
  BY <1>1, <1>2 DEF TypeOK
<1>6. Moves(o)
  BY <1>1, <1>2, <1>5 DEF Moves, TypeOK
<1>7. o \notin skipped
  BY <1>1, StillRunning
<1>8. Right(o)'
  BY <1>1, <1>2, <1>5, <1>7, FlowAssumption
     DEF Right, GivenStays, StillOpen, OverIsFinal, LapsedRightly, LookedInVain, WayIsLeft
<1> QED
  BY <1>1, <1>4, <1>6, <1>8, MoveKeeps

LEMMA LetGoKeeps ==
  ASSUME FInv, NEW o \in Op, Timeout(o), LetGo(o)
  PROVE  FInv'
<1>1. /\ TypeOK /\ Right(o) /\ at[o] \in {"edges", "deps", "limiter", "invoking"} /\ lenient
      /\ o \notin Given /\ tries[o] \in Nat /\ tries[o] = Attempts /\ status[o] # "skipped"
      /\ tries' = [tries EXCEPT ![o] = @ + 1] /\ at' = [at EXCEPT ![o] = "lapsed"]
      /\ done' = done \union {o}
      /\ UNCHANGED <<looked, results, skipped, msgs, pending, outcome, lenient>>
  BY FlowAssumption
     DEF Timeout, LetGo, AttemptsLeft, Move, FInv, Right, GivenStays, StillOpen, TypeOK
<1>2. PICK t \in {"cancelled", status[o]} : status' = [status EXCEPT ![o] = t]
  BY DEF LetGo, SetStatus, Cancelled
<1>3. tries[o] + 1 \in 0..(Attempts + 1) /\ tries[o] + 1 > Attempts
  BY <1>1, FlowAssumption
<1>4. TypeOK'
  BY <1>1, <1>2, <1>3 DEF TypeOK
<1>5. at'[o] = "lapsed" /\ status'[o] = t /\ tries'[o] = tries[o] + 1
  BY <1>1, <1>2 DEF TypeOK
<1>6. Moves(o)
  BY <1>1, <1>2, <1>5 DEF Moves, TypeOK
<1>7. o \notin skipped
  BY <1>1, StillRunning
<1>8. Right(o)'
  BY <1>1, <1>2, <1>3, <1>5, <1>7
     DEF Right, GivenStays, StillOpen, OverIsFinal, LapsedRightly, LookedInVain, WayIsLeft
<1> QED
  BY <1>1, <1>4, <1>6, <1>8, MoveKeeps

LEMMA UnpreparedKeeps ==
  ASSUME FInv, NEW o \in Op, Unprepared(o)
  PROVE  FInv'
<1>1. /\ TypeOK /\ Right(o) /\ at[o] = "limiter" /\ o \notin skipped /\ o \notin Given
      /\ status' = [status EXCEPT ![o] = "failed"] /\ results' = [results EXCEPT ![o] = "error"]
      /\ at' = [at EXCEPT ![o] = "over"] /\ done' = done \union {o}
      /\ UNCHANGED <<looked, skipped, tries, msgs, pending, outcome, lenient>>
  BY StillRunning
     DEF Unprepared, Failed, Over, Move, SetStatus, Store, FInv, Right, GivenStays
<1>2. TypeOK'
  BY <1>1 DEF TypeOK
<1>3. at'[o] = "over" /\ status'[o] = "failed" /\ results'[o] = "error" /\ Moves(o)
  BY <1>1 DEF Moves, TypeOK
<1>4. Right(o)'
  BY <1>1, <1>3, EndsRight
<1> QED
  BY <1>1, <1>2, <1>3, <1>4, MoveKeeps

\* The flow is given up: every task that is not over is cancelled.
LEMMA GiveUpKeeps ==
  ASSUME FInv, NEW o \in Op, Timeout(o), GiveUp(o)
  PROVE  FInv'
<1>1. /\ TypeOK /\ Right(o) /\ at[o] \in {"edges", "deps", "limiter", "invoking"}
      /\ tries' = [tries EXCEPT ![o] = @ + 1]
      /\ at' = [p \in Op |-> IF at[p] = "over" THEN "over" ELSE "cancelled"]
      /\ status' = [p \in Op |-> Cancelled(p)]
      /\ done' = done \union Inside /\ outcome' = "raised" /\ ~lenient
      /\ UNCHANGED <<looked, results, skipped, msgs, pending, lenient>>
  BY DEF Timeout, GiveUp, FInv
<1>2. tries[o] + 1 \in 0..(Attempts + 1)
  BY <1>1, FlowAssumption DEF Right, StillOpen, TypeOK
<1>3. /\ tries' \in [Op -> 0..(Attempts + 1)]
      /\ status' \in [Op -> {"pending", "processing", "completed", "failed", "cancelled", "skipped"}]
      /\ done' \in SUBSET Op
      /\ at' \in [Op -> {"new", "edges", "deps", "limiter", "invoking", "again", "over",
                          "lapsed", "cancelled"}]
  <2>1. done' \in SUBSET Op
    BY <1>1 DEF TypeOK, Inside
  <2>2. \A p \in Op : Cancelled(p) \in {"cancelled", status[p]}
    BY DEF Cancelled
  <2> QED
    BY <1>1, <1>2, <2>1, <2>2 DEF TypeOK
<1>4. TypeOK'
  BY <1>1, <1>3 DEF TypeOK
<1>5. EndIsEnd' /\ DoneAreSettled'
  BY <1>1 DEF EndIsEnd, DoneAreSettled
<1>6. ASSUME NEW p \in Op PROVE Right(p)'
  <2>1. /\ Right(p) /\ at'[p] = IF at[p] = "over" THEN "over" ELSE "cancelled"
        /\ status'[p] = Cancelled(p)
    BY <1>1 DEF FInv
  <2>2. GivenStays(p)'
    BY <1>1, <2>1 DEF Right, GivenStays, Cancelled
  <2>3. OverIsFinal(p)'
    BY <1>1, <2>1 DEF Right, OverIsFinal, Cancelled
  <2> QED
    BY <2>1, <2>2, <2>3 DEF Right, StillOpen, LapsedRightly, LookedInVain, WayIsLeft
<1> QED
  BY <1>4, <1>5, <1>6 DEF FInv

LEMMA ReturnKeeps ==
  ASSUME FInv, Return \/ UNCHANGED vars
  PROVE  FInv'
<1>1. UNCHANGED <<at, looked, tries, status, done, results, skipped, msgs, pending, lenient>>
  BY DEF Return, vars
<1>2. TypeOK'
  BY <1>1 DEF FInv, TypeOK, Return, vars
<1>3. EndIsEnd' /\ DoneAreSettled'
  BY <1>1 DEF FInv, EndIsEnd, DoneAreSettled, Settled, Expired, Return, vars
<1>4. \A o \in Op : Right(o)'
  BY <1>1 DEF FInv, Right, GivenStays, StillOpen, OverIsFinal, LapsedRightly, LookedInVain, WayIsLeft, WayLeft,
              Usable, Expired, Heads, Incoming
<1> QED
  BY <1>2, <1>3, <1>4 DEF FInv

LEMMA NextFInv == FInv /\ [Next]_vars => FInv'
<1> SUFFICES ASSUME FInv, [Next]_vars PROVE FInv'
  OBVIOUS
<1>1. ASSUME NEW o \in Op, Step(o) PROVE FInv'
  BY <1>1, BeginKeepsF, CheckEdgeKeeps, WaitKeeps, EnterKeeps, UnpreparedKeeps, InvokedKeeps
     DEF Step
<1>2. ASSUME NEW o \in Op, Timeout(o) PROVE FInv'
  BY <1>2, RetryKeeps, LetGoKeeps, GiveUpKeeps DEF Timeout
<1>3. CASE Return \/ UNCHANGED vars
  BY <1>3, ReturnKeeps
<1> QED
  BY <1>1, <1>2, <1>3 DEF Next

LEMMA FlowInvariance == Spec => []FInv
BY InitFInv, NextFInv, PTL DEF Spec
-----------------------------------------------------------------------------
(* The flow implements the order of its graph.                             *)

\* The task of o alone moves, as far as Dependencies can tell.
OnlyPhaseOf(o) ==
  /\ \A p \in Op \ {o} : at'[p] = at[p] /\ (p \in skipped' <=> p \in skipped)
  /\ Expired' = Expired

LEMMA Becomes ==
  ASSUME NEW o \in Op, OnlyPhaseOf(o)
  PROVE  /\ Phase(o)' = Phase(o) => UNCHANGED Graph!vars
         /\ \A p : Phase(o)' = p => Graph!Become(o, p)
<1>1. \A p \in Op \ {o} : Phase(p)' = Phase(p)
  BY DEF OnlyPhaseOf, Phase
<1>2. Phase(o)' = Phase(o) => [p \in Op |-> Phase(p)]' = [p \in Op |-> Phase(p)]
  BY <1>1
<1>3. \A q : Phase(o)' = q
        => [p \in Op |-> Phase(p)]' = [[p \in Op |-> Phase(p)] EXCEPT ![o] = q]
  BY <1>1
<1> QED
  BY <1>2, <1>3 DEF Graph!vars, Graph!Become, OnlyPhaseOf

\* The predecessors of an operation are the same in both.
LEMMA SameHeads ==
  ASSUME NEW o \in Op
  PROVE  /\ Graph!Heads(o) = Heads(o) /\ Heads(o) \subseteq Op
         /\ \A i \in Incoming(o) : Edges[i][1] \in Heads(o) /\ Edges[i] = <<Edges[i][1], o>>
         /\ \A h \in Heads(o) : \E i \in Incoming(o) : Edges[i] = <<h, o>>
<1>1. \A i \in DOMAIN Edges : Edges[i] \in Op \X Op
  BY FlowAssumption DEF Path
<1>2. \A i \in DOMAIN Edges : Edges[i] = <<Edges[i][1], Edges[i][2]>>
  BY <1>1
<1> QED
  BY <1>1, <1>2 DEF Graph!Heads, Heads, Incoming, Path

LEMMA SettledIsOver ==
  ASSUME FInv, NEW h \in Op
  PROVE  /\ Settled(h) => Graph!Over(h)
         /\ Usable(h) => Graph!Open(h)
         /\ h \in skipped => Phase(h) = "skipped"
<1>1. h \in skipped => at[h] = "over" /\ h \notin Given
  BY DEF FInv, Right, GivenStays, OverIsFinal
<1> QED
  BY <1>1 DEF Settled, Usable, Graph!Over, Graph!Open, Phase

LEMMA BeginFollows ==
  ASSUME FInv, NEW o \in Op, Begin(o)
  PROVE  UNCHANGED Graph!vars
<1>1. TypeOK /\ (status[o] = "completed" => o \in Given)
  BY BeginKeepsF DEF FInv
<1>2. at[o] \in {"again", "new"} /\ UNCHANGED <<tries, skipped>>
      /\ \A p \in Op \ {o} : at'[p] = at[p]
  BY <1>1 DEF Begin, Over, Move, TypeOK
<1>3. o \in Given \/ at'[o] \in {"limiter", "deps", "edges"}
  BY <1>1 DEF Begin, FirstWait, Move, TypeOK
<1>4. Phase(o)' = Phase(o)
  BY <1>2, <1>3 DEF Phase
<1> QED
  BY <1>2, <1>4, Becomes DEF OnlyPhaseOf, Expired

LEMMA CheckEdgeFollows ==
  ASSUME FInv, NEW o \in Op, CheckEdge(o)
  PROVE  Graph!Next \/ UNCHANGED Graph!vars
<1>1. /\ TypeOK /\ Right(o) /\ at[o] = "edges" /\ o \notin skipped /\ o \notin Given
      /\ outcome = "running" /\ tries' = tries /\ Expired' = Expired /\ Phase(o) = "waiting"
  BY StillRunning DEF CheckEdge, FInv, Right, GivenStays, Expired, Phase
<1>2. PICK i \in Incoming(o) \ looked[o] :
        /\ Edges[i][1] \in done
        /\ \/ Edges[i][1] \in skipped /\ Blocked(o, i)
           \/ Edges[i][1] \notin skipped /\ Unblocked(o)
           \/ Edges[i][1] \notin skipped /\ Edges[i] \in Conditional /\ Blocked(o, i)
           \/ Failed(o)
  BY DEF CheckEdge
<1>3. CASE Skipped(o) /\ Incoming(o) = looked[o] \union {i}
           /\ (Edges[i][1] \in skipped \/ Edges[i] \in Conditional)
  <2>1. at'[o] = "over" /\ o \in skipped' /\ OnlyPhaseOf(o)
    BY <1>1, <1>3 DEF Skipped, Over, Move, OnlyPhaseOf, TypeOK
  <2>2. Graph!Become(o, "skipped")
    BY <1>1, <2>1, Becomes DEF Phase
  <2>3. Graph!Heads(o) # {}
    BY <1>2, SameHeads
  <2>4. ASSUME NEW h \in Graph!Heads(o)
        PROVE  Graph!Over(h) /\ (<<h, o>> \in Conditional \/ Phase(h) = "skipped") /\ h \in Op
    <3>1. PICK j \in Incoming(o) : Edges[j] = <<h, o>>
      BY <2>4, SameHeads
    <3>2. h \in done /\ (h \in skipped \/ <<h, o>> \in Conditional)
      BY <1>1, <1>2, <1>3, <3>1 DEF Right, LookedInVain
    <3> QED
      BY <1>1, <3>2, HeadIsSettled, SettledIsOver
  <2>5. Graph!Skip(o)
    BY <1>1, <2>2, <2>3, <2>4 DEF Graph!Skip
  <2> QED
    BY <2>5 DEF Graph!Next
<1>4. CASE Failed(o)
  <2>1. at'[o] = "over" /\ o \notin skipped' /\ OnlyPhaseOf(o)
    BY <1>1, <1>4 DEF Failed, Over, Move, OnlyPhaseOf, TypeOK
  <2>2. Graph!Become(o, "ran")
    BY <1>1, <2>1, Becomes DEF Phase
  <2>3. Graph!Over(Edges[i][1]) /\ Edges[i][1] \in Graph!Heads(o)
    BY <1>1, <1>2, HeadIsSettled, SettledIsOver, SameHeads
  <2>4. Graph!Break(o)
    BY <1>1, <1>4, <2>2, <2>3 DEF Graph!Break
  <2> QED
    BY <2>4 DEF Graph!Next
<1>5. CASE Unblocked(o) \/ UNCHANGED <<at, skipped>>
  <2>1. at'[o] \in {"deps", "edges"} /\ o \notin skipped' /\ OnlyPhaseOf(o)
    BY <1>1, <1>5 DEF Unblocked, Move, OnlyPhaseOf, TypeOK
  <2>2. Phase(o)' = "waiting"
    BY <1>1, <2>1 DEF Phase
  <2> QED
    BY <1>1, <2>1, <2>2, Becomes
<1> QED
  BY <1>2, <1>3, <1>4, <1>5 DEF Blocked

LEMMA EnterFollows ==
  ASSUME FInv, NEW o \in Op, Enter(o)
  PROVE  Graph!Next
<1>1. /\ TypeOK /\ Right(o) /\ at[o] = "limiter" /\ o \notin skipped /\ o \notin Given
      /\ outcome = "running" /\ UNCHANGED <<tries, skipped>> /\ Expired' = Expired
      /\ at' = [at EXCEPT ![o] = "invoking"] /\ Phase(o) = "waiting"
  BY StillRunning DEF Enter, Move, FInv, Right, GivenStays, Expired, Phase
<1>2. Graph!Become(o, "running")
  BY <1>1, Becomes DEF OnlyPhaseOf, Phase, TypeOK
<1>3. \A h \in Graph!Awaited(o) : Graph!Over(h)
  BY <1>1, SameHeads, HeadIsSettled, SettledIsOver DEF Right, WayIsLeft, Graph!Awaited
<1>4. Graph!Heads(o) # {} => \E h \in Graph!Heads(o) : Graph!Open(h)
  <2>1. Graph!Heads(o) # {} => WayLeft(o)
    BY <1>1, SameHeads DEF Right, WayIsLeft
  <2> QED
    BY <2>1, SameHeads, SettledIsOver DEF WayLeft
<1>5. Graph!Run(o)
  BY <1>1, <1>2, <1>3, <1>4 DEF Graph!Run
<1> QED
  BY <1>5 DEF Graph!Next

LEMMA UnpreparedFollows ==
  ASSUME FInv, NEW o \in Op, Unprepared(o)
  PROVE  Graph!Next
<1>1. /\ TypeOK /\ Right(o) /\ at[o] = "limiter" /\ o \notin skipped /\ o \notin Given
      /\ outcome = "running" /\ UNCHANGED <<tries, skipped>> /\ Expired' = Expired
      /\ at' = [at EXCEPT ![o] = "over"] /\ Phase(o) = "waiting"
  BY StillRunning DEF Unprepared, Failed, Over, Move, FInv, Right, GivenStays, Expired, Phase
<1>2. Graph!Become(o, "ran")
  BY <1>1, Becomes DEF OnlyPhaseOf, Phase, TypeOK
<1>3. PICK h \in Heads(o) : h \in done
  BY <1>1 DEF Unprepared, Right, WayIsLeft
<1>4. h \in Graph!Heads(o) /\ Graph!Over(h)
  BY <1>1, <1>3, SameHeads, HeadIsSettled, SettledIsOver
<1>5. Graph!Break(o)
  BY <1>1, <1>2, <1>4 DEF Graph!Break
<1> QED
  BY <1>5 DEF Graph!Next

LEMMA InvokedFollows ==
  ASSUME FInv, NEW o \in Op, Invoked(o)
  PROVE  Graph!Next
<1>1. /\ TypeOK /\ at[o] = "invoking" /\ o \notin skipped /\ o \notin Given
      /\ UNCHANGED <<tries, skipped>> /\ Expired' = Expired /\ at' = [at EXCEPT ![o] = "over"]
      /\ Phase(o) = "running"
  BY StillRunning
     DEF Invoked, Respond, Unsupported, Failed, Over, Move, FInv, Right, GivenStays, Expired, Phase
<1>2. Graph!Become(o, "ran")
  BY <1>1, Becomes DEF OnlyPhaseOf, Phase, TypeOK
<1>3. Graph!End(o)
  BY <1>1, <1>2 DEF Graph!End
<1> QED
  BY <1>3 DEF Graph!Next

LEMMA TimeoutFollows ==
  ASSUME FInv, NEW o \in Op, Timeout(o)
  PROVE  Graph!Next
<1>1. /\ TypeOK /\ at[o] \in {"edges", "deps", "limiter", "invoking"} /\ o \notin Given
      /\ tries' = [tries EXCEPT ![o] = @ + 1] /\ skipped' = skipped
      /\ Phase(o) \in {"waiting", "running"}
  BY DEF Timeout, FInv, Right, GivenStays, Phase
<1>2. Expired' = Expired \union {o}
  <2>1. tries[o] \in Nat
    BY <1>1, FlowAssumption DEF TypeOK
  <2>2. tries'[o] > 0 /\ \A p \in Op \ {o} : tries'[p] = tries[p]
    BY <1>1, <2>1 DEF TypeOK
  <2> QED
    BY <2>2 DEF Expired
<1>3. CASE Retry(o)
  <2>1. at' = [at EXCEPT ![o] = "again"]
    BY <1>3 DEF Retry, Move
  <2>2. Phase(o)' = "waiting" /\ \A p \in Op \ {o} : Phase(p)' = Phase(p)
    BY <1>1, <2>1 DEF Phase, TypeOK
  <2>3. [p \in Op |-> Phase(p)]' = [[p \in Op |-> Phase(p)] EXCEPT ![o] = "waiting"]
    BY <2>2
  <2>4. Graph!Expire(o)
    BY <1>1, <1>2, <2>3 DEF Graph!Expire
  <2> QED
    BY <2>4 DEF Graph!Next
<1>4. CASE LetGo(o)
  <2>1. at' = [at EXCEPT ![o] = "lapsed"]
    BY <1>4 DEF LetGo, Move
  <2>2. Phase(o)' = "stopped" /\ \A p \in Op \ {o} : Phase(p)' = Phase(p)
    BY <1>1, <2>1 DEF Phase, TypeOK
  <2>3. [p \in Op |-> Phase(p)]' = [[p \in Op |-> Phase(p)] EXCEPT ![o] = "stopped"]
    BY <2>2
  <2>4. Graph!Lapse(o)
    BY <1>1, <1>2, <2>3 DEF Graph!Lapse
  <2> QED
    BY <2>4 DEF Graph!Next
<1>5. CASE GiveUp(o)
  <2>1. /\ at' = [p \in Op |-> IF at[p] = "over" THEN "over" ELSE "cancelled"]
        /\ \A p \in Op : at[p] # "lapsed"
    BY <1>5 DEF GiveUp, FInv, Right, LapsedRightly
  <2>2. \A p \in Op : Phase(p)' = IF Phase(p) \in {"waiting", "running"} THEN "stopped" ELSE Phase(p)
    BY <1>1, <2>1 DEF Phase, TypeOK
  <2>3. [p \in Op |-> Phase(p)]'
          = [p \in Op |-> IF [q \in Op |-> Phase(q)][p] \in {"waiting", "running"}
                            THEN "stopped" ELSE [q \in Op |-> Phase(q)][p]]
    BY <2>2
  <2>4. Graph!Abort(o)
    BY <1>1, <1>2, <2>3 DEF Graph!Abort
  <2> QED
    BY <2>4 DEF Graph!Next
<1> QED
  BY <1>3, <1>4, <1>5 DEF Timeout

LEMMA StepFollows == FInv /\ [Next]_vars => [Graph!Next]_(Graph!vars)
<1> SUFFICES ASSUME FInv, [Next]_vars PROVE Graph!Next \/ UNCHANGED Graph!vars
  OBVIOUS
<1>1. ASSUME NEW o \in Op, Step(o) PROVE Graph!Next \/ UNCHANGED Graph!vars
  <2>1. CASE WaitForDependencies(o)
    <3>1. /\ TypeOK /\ at[o] = "deps" /\ at' = [at EXCEPT ![o] = "limiter"]
          /\ UNCHANGED <<tries, skipped>>
      BY <2>1 DEF WaitForDependencies, Move, FInv
    <3>2. Phase(o)' = Phase(o) /\ OnlyPhaseOf(o)
      BY <3>1 DEF Phase, OnlyPhaseOf, Expired, TypeOK
    <3> QED
      BY <3>2, Becomes
  <2> QED
    BY <1>1, <2>1, BeginFollows, CheckEdgeFollows, EnterFollows, UnpreparedFollows,
       InvokedFollows DEF Step
<1>2. ASSUME NEW o \in Op, Timeout(o) PROVE Graph!Next
  BY <1>2, TimeoutFollows
<1>3. CASE Return \/ UNCHANGED vars
  BY <1>3 DEF Return, vars, Graph!vars, Phase, Expired
<1> QED
  BY <1>1, <1>2, <1>3 DEF Next

LEMMA InitFollows == Init => Graph!Init
<1> SUFFICES ASSUME Init PROVE Graph!Init
  OBVIOUS
<1>1. Expired = {}
  BY DEF Init, Expired
<1>2. \A o \in Op : Phase(o) = IF o \in Given THEN "ran" ELSE "waiting"
  BY DEF Init, Phase
<1> QED
  BY <1>1, <1>2 DEF Graph!Init

\* The tasks, completion events, limiters and retries of a flow implement the order of
\* its graph: an operation runs when all its predecessors are over and a path is left.
THEOREM FlowFollowsTheGraph == Spec => FollowsTheGraph
<1> QED
  BY InitFollows, StepFollows, FlowInvariance, PTL DEF Spec, FollowsTheGraph, Graph!Spec
\* The variables of the flow keep their types; no attempt is made after the last.
THEOREM FlowTypeCorrect == Spec => []TypeOK
<1>1. FInv => TypeOK
  BY DEF FInv
<1> QED
  BY <1>1, FlowInvariance, PTL

\* When execute() returns, every operation is over and has a result, or was skipped, or
\* was let go after its last attempt because alcall_params tolerate that.
THEOREM EveryOperationAccountedFor == Spec => []AllAccountedFor
<1>1. FInv => AllAccountedFor
  BY DEF FInv, TypeOK, EndIsEnd, Right, OverIsFinal, LapsedRightly, AllAccountedFor
<1> QED
  BY <1>1, FlowInvariance, PTL

-----------------------------------------------------------------------------
(* Context is handed on.                                                   *)

\* The graph orders every heir after its primary dependency, or that is completed
\* before the flow starts.
HeirsFollow == \A o \in Heir : Primary[o] \in Heads(o) \union Given

\* The operations whose branch the flow knows.
Traced == Op \ (Given \ Placed)

\* An heir without a branch of its own has not inherited before its primary dependency
\* has a result; if that is a value, it has the messages, and inherits before it runs.
HandedOn(o) ==
  LET p == Primary[o] IN
  /\ o \notin pending => results[p] # "absent"
  /\ results[p] = "value" /\ p \in Traced \ Expired =>
       /\ o \notin pending => p \in msgs[o]
       /\ at[o] = "invoking" => o \notin pending

\* Whoever returned a value has left its messages in its branch.
CInv ==
  /\ \A p \in Traced : results[p] = "value" => p \in msgs[Branch(p)]
  /\ \A o \in Heir \ Placed : HandedOn(o)

LEMMA InitCInv == Init => CInv
<1> SUFFICES ASSUME Init PROVE CInv
  OBVIOUS
<1>1. ASSUME NEW p \in Traced, results[p] = "value" PROVE p \in msgs[Branch(p)]
  <2>1. p \in Given \intersect Placed /\ Branch(p) = Place[p] /\ Place[p] \in Branches
    BY <1>1, FlowAssumption DEF Init, Traced, Branch
  <2>2. msgs[Branch(p)] = Before(Place[p])
    BY <2>1 DEF Init
  <2> QED
    BY <1>1, <2>1, <2>2 DEF Before
<1>2. ASSUME NEW o \in Heir \ Placed PROVE HandedOn(o)
  BY FlowAssumption DEF Init, HandedOn
<1> QED
  BY <1>1, <1>2 DEF CInv

\* Steps that neither run an operation nor make a branch inherit.
LEMMA ContextStays ==
  ASSUME CInv, HeirsFollow, UNCHANGED <<msgs, pending>>, Expired \subseteq Expired',
         \A p \in Op : /\ results'[p] \in {results[p], "error"}
                       /\ at'[p] = "invoking" => at[p] = "invoking"
  PROVE  CInv'
<1>1. \A o \in Heir : Primary[o] \in Op /\ o \in Op
  BY FlowAssumption
<1>2. \A p \in Op : /\ results'[p] = results[p] \/ results'[p] = "error"
                    /\ results'[p] = "value" => results[p] = "value"
                    /\ results[p] # "absent" => results'[p] # "absent"
  OBVIOUS
<1>3. ASSUME NEW p \in Traced', results'[p] = "value" PROVE p \in msgs'[Branch(p)']
  <2>1. Branch(p)' = Branch(p) /\ p \in Traced /\ p \in Op
    BY DEF Branch, Incoming, Traced
  <2> QED
    BY <1>2, <1>3, <2>1 DEF CInv
<1>4. ASSUME NEW h \in Heir \ Placed PROVE HandedOn(h)'
  <2>1. /\ Primary[h] \in Op /\ (at'[h] = "invoking" => at[h] = "invoking")
        /\ Primary[h] \in Traced' \ Expired' => Primary[h] \in Traced \ Expired
    BY <1>1 DEF Traced
  <2>2. HandedOn(h)
    BY DEF CInv
  <2> QED
    BY <1>2, <2>1, <2>2 DEF HandedOn
<1> QED
  BY <1>3, <1>4 DEF CInv

LEMMA EnterHandsOn ==
  ASSUME FInv, CInv, HeirsFollow, NEW o \in Op, Enter(o)
  PROVE  CInv'
<1>1. /\ TypeOK /\ Right(o) /\ at[o] = "limiter" /\ o \notin Given /\ results[o] = "absent"
      /\ outcome = "running" /\ UNCHANGED <<results, tries>> /\ Expired' = Expired
      /\ at' = [at EXCEPT ![o] = "invoking"] /\ msgs' = Inherited(o)
      /\ pending' = IF Inherits(o) THEN pending \ {o} ELSE pending
  BY StillRunning DEF Enter, Move, FInv, Right, GivenStays, StillOpen, Expired
<1>2. /\ \A b \in (Op \union Branches) \ {o} : msgs'[b] = msgs[b]
      /\ Inherits(o) => msgs'[o] = msgs[Branch(Primary[o])]
      /\ ~Inherits(o) => msgs' = msgs
  BY <1>1 DEF Inherited, TypeOK
<1>3. ASSUME NEW p \in Traced', results'[p] = "value" PROVE p \in msgs'[Branch(p)']
  <2>1. p \in Traced /\ p \in Op /\ p # o /\ Branch(p)' = Branch(p)
    BY <1>1, <1>3 DEF Branch, Incoming, Traced
  <2>2. Branch(p) \in (Op \union Branches) \ {o}
    BY <2>1, EdgeFacts
  <2> QED
    BY <1>1, <1>2, <1>3, <2>1, <2>2 DEF CInv
<1>4. ASSUME NEW h \in Heir \ Placed, h # o PROVE HandedOn(h)'
  <2>1. h \in Op /\ msgs'[h] = msgs[h] /\ at'[h] = at[h] /\ (h \in pending' <=> h \in pending)
    BY <1>1, <1>2, <1>4, EdgeFacts DEF TypeOK
  <2>2. HandedOn(h)
    BY DEF CInv
  <2> QED
    BY <1>1, <2>1, <2>2 DEF HandedOn, Traced
<1>5. ASSUME o \in Heir \ Placed PROVE HandedOn(o)'
  <2> DEFINE p == Primary[o]
  <2>1. p \in Op /\ (o \notin pending => results[p] # "absent")
    BY <1>5, EdgeFacts DEF CInv, HandedOn
  <2>2. CASE Inherits(o)
    <3>1. o \notin pending' /\ results[p] # "absent" /\ msgs'[o] = msgs[Branch(p)]
      BY <1>1, <1>2, <2>2 DEF Inherits
    <3>2. results[p] = "value" /\ p \in Traced => p \in msgs[Branch(p)]
      BY DEF CInv
    <3> QED
      BY <1>1, <3>1, <3>2 DEF HandedOn, Traced
  <2>3. CASE ~Inherits(o)
    <3>1. pending' = pending /\ msgs' = msgs
      BY <1>1, <1>2, <2>3
    <3>2. results[p] = "value" => o \notin pending
      BY <1>5, <2>3 DEF Inherits
    <3>3. HandedOn(o)
      BY <1>5 DEF CInv
    <3> QED
      BY <1>1, <3>1, <3>2, <3>3 DEF HandedOn, Traced
  <2> QED
    BY <2>2, <2>3
<1> QED
  BY <1>3, <1>4, <1>5 DEF CInv

LEMMA InvokedHandsOn ==
  ASSUME FInv, CInv, HeirsFollow, NEW o \in Op, Invoked(o)
  PROVE  CInv'
<1>1. /\ TypeOK /\ at[o] = "invoking" /\ o \notin Given /\ results[o] = "absent"
      /\ outcome = "running" /\ UNCHANGED <<tries, pending>> /\ Expired' = Expired
      /\ at' = [at EXCEPT ![o] = "over"]
  BY StillRunning
     DEF Invoked, Respond, Unsupported, Failed, Over, Move, FInv, Right, GivenStays, StillOpen,
         Expired
<1>2. \/ /\ results' = [results EXCEPT ![o] = "value"]
         /\ msgs' = [msgs EXCEPT ![Branch(o)] = @ \union {o}]
      \/ /\ results' = [results EXCEPT ![o] = "none"] \/ results' = [results EXCEPT ![o] = "error"]
         /\ msgs' = msgs
  BY DEF Invoked, Respond, Unsupported, Failed, Store
<1>3. /\ Branch(o) \in Op \union Branches
      /\ \A p \in Op : Branch(p)' = Branch(p) /\ Branch(p) \in Op \union Branches
  BY EdgeFacts DEF Branch, Incoming
<1>4. /\ \A b \in Op \union Branches : msgs[b] \subseteq msgs'[b]
      /\ results'[o] = "value" => o \in msgs'[Branch(o)]
      /\ results'[o] # "absent"
      /\ \A p \in Op \ {o} : results'[p] = results[p] /\ at'[p] = at[p]
  BY <1>1, <1>2, <1>3 DEF TypeOK
<1>5. ASSUME NEW p \in Traced', results'[p] = "value" PROVE p \in msgs'[Branch(p)']
  BY <1>3, <1>4, <1>5 DEF CInv, Traced
<1>6. ASSUME NEW h \in Heir \ Placed PROVE HandedOn(h)'
  <2> DEFINE p == Primary[h]
  <2>1. h \in Op /\ p \in Op /\ p \in Heads(h) \union Given /\ HandedOn(h)
    BY EdgeFacts DEF HeirsFollow, CInv
  <2>2. CASE p # o
    <3>1. results'[p] = results[p] /\ (at'[h] = "invoking" => at[h] = "invoking")
      BY <1>1, <1>4, <2>1, <2>2 DEF TypeOK
    <3> QED
      BY <1>1, <1>4, <2>1, <3>1, EdgeFacts DEF HandedOn, Traced
  <2>3. CASE p = o
    <3>1. h \in pending /\ p \in Heads(h)
      BY <1>1, <2>1, <2>3 DEF HandedOn
    <3>2. p \notin Expired => at[h] # "invoking"
      <4>1. at[h] = "invoking" => p \in done
        BY <2>1, <3>1 DEF FInv, Right, WayIsLeft
      <4> QED
        BY <1>1, <2>1, <2>3, <4>1, HeadIsSettled DEF Settled
    <3>3. at'[h] = "invoking" => at[h] = "invoking"
      BY <1>1, <2>1 DEF TypeOK
    <3> QED
      BY <1>1, <1>4, <2>3, <3>1, <3>2, <3>3 DEF HandedOn
  <2> QED
    BY <2>2, <2>3
<1> QED
  BY <1>5, <1>6 DEF CInv

LEMMA NextCInv == HeirsFollow /\ FInv /\ CInv /\ [Next]_vars => CInv'
<1> SUFFICES ASSUME HeirsFollow, FInv, CInv, [Next]_vars PROVE CInv'
  OBVIOUS
<1>1. TypeOK
  BY DEF FInv
<1>2. ASSUME NEW o \in Op, Begin(o) \/ WaitForDependencies(o) PROVE CInv'
  <2>1. /\ UNCHANGED <<msgs, pending, tries, results>>
        /\ \A p \in Op : at'[p] = "invoking" => at[p] = "invoking"
    BY <1>1, <1>2 DEF Begin, FirstWait, WaitForDependencies, Over, Move, TypeOK
  <2> QED
    BY <2>1, ContextStays DEF Expired
<1>3. ASSUME NEW o \in Op, CheckEdge(o) PROVE CInv'
  <2>1. UNCHANGED <<tries, msgs, pending>>
    BY <1>3 DEF CheckEdge
  <2>2. /\ results' = results \/ results' = [results EXCEPT ![o] = "error"]
        /\ at' \in {at, [at EXCEPT ![o] = "over"], [at EXCEPT ![o] = "deps"]}
    BY <1>3 DEF CheckEdge, Blocked, Unblocked, Failed, Skipped, Over, Move, Store
  <2>3. \A p \in Op : /\ results'[p] \in {results[p], "error"}
                      /\ at'[p] = "invoking" => at[p] = "invoking"
    BY <1>1, <2>2 DEF TypeOK
  <2> QED
    BY <2>1, <2>3, ContextStays DEF Expired
<1>4. ASSUME NEW o \in Op, Timeout(o) PROVE CInv'
  <2>1. UNCHANGED <<results, msgs, pending>> /\ Expired \subseteq Expired'
    <3>1. tries[o] \in Nat
      BY <1>1, FlowAssumption DEF TypeOK
    <3> QED
      BY <1>1, <1>4, <3>1 DEF Timeout, Expired, TypeOK
  <2>2. \A p \in Op : at'[p] = "invoking" => at[p] = "invoking"
    BY <1>1, <1>4 DEF Timeout, Retry, LetGo, GiveUp, Move, TypeOK
  <2> QED
    BY <2>1, <2>2, ContextStays
<1>5. ASSUME NEW o \in Op, Unprepared(o) PROVE CInv'
  <2>1. /\ UNCHANGED <<msgs, pending, tries>> /\ results' = [results EXCEPT ![o] = "error"]
        /\ at' = [at EXCEPT ![o] = "over"]
    BY <1>5 DEF Unprepared, Failed, Over, Move, Store
  <2>2. \A p \in Op : /\ results'[p] \in {results[p], "error"}
                      /\ at'[p] = "invoking" => at[p] = "invoking"
    BY <1>1, <2>1 DEF TypeOK
  <2> QED
    BY <2>1, <2>2, ContextStays DEF Expired
<1>6. CASE Return \/ UNCHANGED vars
  <2>1. UNCHANGED <<msgs, pending, tries, results, at>>
    BY <1>6 DEF Return, vars
  <2> QED
    BY <2>1, ContextStays DEF Expired
<1> QED
  BY <1>2, <1>3, <1>4, <1>5, <1>6, EnterHandsOn, InvokedHandsOn DEF Next, Step

\* An heir that was given no branch, and whose primary dependency is one of its
\* predecessors or completed before, runs on a branch that has the messages of that
\* dependency, whatever is retried, skipped, let go or inherited meanwhile.
THEOREM ContextIsInherited == HeirsFollow => (Spec => []ContextInherited)
<1> SUFFICES ASSUME HeirsFollow PROVE Spec => []ContextInherited
  OBVIOUS
<1>1. Init => CInv
  BY InitCInv
<1>2. FInv /\ CInv /\ [Next]_vars => CInv'
  BY NextCInv
<1>3. CInv => ContextInherited
  BY FlowAssumption DEF CInv, HandedOn, Traced, ContextInherited
<1> QED
  BY <1>1, <1>2, <1>3, FlowInvariance, PTL DEF Spec
=============================================================================
