-------------------------------- MODULE Pile --------------------------------
(***************************************************************************)
(* protocols/generic/pile.py: a dict of elements and the progression that  *)
(* orders them, changed one after the other by threads.  The methods       *)
(* decorated with @synchronized hold the pile's lock, which its property   *)
(* creates when it is first asked for; include, update, __setitem__ and    *)
(* the checks of remove and exclude hold no lock of the pile.  A pile may  *)
(* have an owner (generic/flow.py) that makes every call under a lock of   *)
(* its own.  Elements are told apart by their ids only.                    *)
(***************************************************************************)
EXTENDS Progression, FiniteSets

CONSTANTS
  Id,         \* the ids of the elements
  Thread,     \* the threads that use the pile
  NoLock,     \* a lock that has not been created, or is not held
  NoThread,   \* nobody holds the lock
  Modes,      \* ways the pile is used: by which calls, under which locks
  MaxCalls    \* bound on the number of calls

\* A call: its method, its index or slice, and the ids of its elements.
Op == {"include", "update", "append", "insert", "pop_at", "pop_slice", "pop", "remove",
       "exclude", "clear", "set_at", "get_at", "move", "swap", "reverse",
       "values", "filter", "item_at", "iterate"}

\* Mutant of Synchronized: get is not decorated.
SynchronizedWrites ==
  {"append", "insert", "pop_at", "pop_slice", "pop", "clear"}

\* The methods that hold the pile's lock for all of their work.
Synchronized == {"append", "insert", "pop_at", "pop_slice", "pop", "clear", "get_at"}

\* The methods that look up what is there, then call pop.
Checked == {"remove", "exclude"}

\* The reads that hold no lock of the pile: values and items, filter, pile[i], and the
\* iterators, which give control to their caller between two elements.
Unlocked == {"values", "filter", "item_at", "iterate"}

\* The methods of pile.progression that only change the order.
Reorders == {"move", "swap", "reverse"}

Call == [op : Op, at : Int, to : Int, refs : Seq(Id)]
NoCall == [op |-> "values", at |-> 0, to |-> 0, refs |-> <<>>]

\* A lock object is named by the thread that creates it; owner: every call but an
\* iteration is made under the lock of the pile's owner, or by the tasks of one event
\* loop; lazy: no locked call has been made before.
ASSUME PileAssumption ==
  /\ NoLock \notin Thread /\ NoThread \notin Thread
  /\ Modes \subseteq [owner : BOOLEAN, lazy : BOOLEAN, calls : SUBSET Call]
  /\ MaxCalls \in Nat

VARIABLES
  mode,         \* how this pile is used
  collections,  \* the ids in the dict
  progression,  \* the order and its cached members
  lock,         \* self._lock
  holder,       \* per lock object, the thread inside it
  outer,        \* the thread that holds the owner's lock
  at,           \* per thread, where it is
  call,         \* per thread, its call
  mine,         \* per thread, the lock object it uses
  seen,         \* per thread, the ids its method has read
  result,       \* per thread, how its last call ended
  spoiled,      \* history: how pops that cannot be done as asked have spoiled the pile
  count         \* the number of calls made

shared == <<collections, progression>>
locks == <<lock, holder, outer>>
vars == <<mode, collections, progression, lock, holder, outer, at, call, mine, seen,
          result, spoiled, count>>

Places == {"idle", "check", "lock", "make", "read", "take", "look", "order", "dict",
           "copy", "scan"}
Results == {"none", "ok", "exists", "missing", "torn"}

Init ==
  /\ mode \in Modes
  /\ collections = {}
  /\ progression = Cleared
  /\ lock \in (IF mode.lazy THEN {NoLock} ELSE Thread)
  /\ holder = [t \in Thread |-> NoThread]
  /\ outer = NoThread
  /\ at = [t \in Thread |-> "idle"]
  /\ call = [t \in Thread |-> NoCall]
  /\ mine = [t \in Thread |-> NoLock]
  /\ seen = [t \in Thread |-> <<>>]
  /\ result = [t \in Thread |-> "none"]
  /\ spoiled = {}
  /\ count = 0

-----------------------------------------------------------------------------
(* How a call goes on, and how it ends *)

Goto(t, place, ids) ==
  /\ at' = [at EXCEPT ![t] = place]
  /\ seen' = [seen EXCEPT ![t] = ids]
  /\ UNCHANGED <<mode, call, mine, result, count, locks>>

\* The call returns or raises, and lets go of its locks.
End(t, how) ==
  /\ at' = [at EXCEPT ![t] = "idle"]
  /\ result' = [result EXCEPT ![t] = how]
  /\ seen' = [seen EXCEPT ![t] = <<>>]
  /\ call' = [call EXCEPT ![t] = NoCall]
  /\ mine' = [mine EXCEPT ![t] = NoLock]
  /\ holder' = IF mine[t] = NoLock THEN holder ELSE [holder EXCEPT ![mine[t]] = NoThread]
  /\ outer' = IF outer = t THEN NoThread ELSE outer
  /\ UNCHANGED <<mode, lock, count>>

\* A method is called, under the owner's lock if the pile has an owner; an iteration
\* is not held under it, as its caller goes on between the elements.
Begin(t, c) ==
  /\ at[t] = "idle"
  /\ count < MaxCalls
  /\ IF mode.owner /\ c.op # "iterate"
     THEN outer = NoThread /\ outer' = t
     ELSE UNCHANGED outer
  /\ call' = [call EXCEPT ![t] = c]
  /\ at' = [at EXCEPT ![t] = CASE c.op \in Synchronized -> "lock"
                               [] c.op \in Checked -> "check"
                               [] c.op \in Unlocked -> "copy"
                               [] OTHER -> "look"]
  /\ result' = [result EXCEPT ![t] = "none"]
  /\ count' = count + 1
  /\ UNCHANGED <<mode, shared, lock, holder, mine, seen>>

\* remove and exclude: the ids that are there now go to pop.
Check(t) ==
  LET refs    == call[t].refs
      present == Only(refs, progression.members)
  IN /\ at[t] = "check"
     /\ UNCHANGED shared
     /\ \/ /\ present = <<>>
           /\ End(t, IF call[t].op = "remove" THEN "missing" ELSE "ok")
        \/ /\ present # <<>>
           /\ at' = [at EXCEPT ![t] = "lock"]
           /\ call' = [call EXCEPT ![t].op = "pop", ![t].refs = present]
           /\ UNCHANGED <<mode, locks, mine, seen, result, count>>

-----------------------------------------------------------------------------
(* The lock *)

\* Mutant of CheckLock: a new lock for every call.
CheckLockNever(t) ==
  /\ at[t] = "lock"
  /\ Goto(t, "make", seen[t])
  /\ UNCHANGED shared

\* The lock property: is there a lock yet?
CheckLock(t) ==
  /\ at[t] = "lock"
  /\ Goto(t, IF lock = NoLock THEN "make" ELSE "read", seen[t])
  /\ UNCHANGED shared

MakeLock(t) ==
  /\ at[t] = "make"
  /\ lock' = t
  /\ at' = [at EXCEPT ![t] = "read"]
  /\ UNCHANGED <<mode, shared, holder, outer, call, mine, seen, result, count>>

ReadLock(t) ==
  /\ at[t] = "read"
  /\ mine' = [mine EXCEPT ![t] = lock]
  /\ at' = [at EXCEPT ![t] = "take"]
  /\ UNCHANGED <<mode, shared, locks, call, seen, result, count>>

Take(t) ==
  /\ at[t] = "take"
  /\ holder[mine[t]] = NoThread
  /\ holder' = [holder EXCEPT ![mine[t]] = t]
  /\ at' = [at EXCEPT ![t] = "look"]
  /\ UNCHANGED <<mode, shared, lock, outer, call, mine, seen, result, count>>

-----------------------------------------------------------------------------
(* What a method reads before it changes anything *)

\* _insert and _setitem refuse elements that are there.
Present(t) == \E k \in DOMAIN call[t].refs : call[t].refs[k] \in progression.members

Valid(i) == IsIndex(i, Len(progression.order))
IdAt(i) == progression.order[Normal(i, Len(progression.order)) + 1]

\* The ids of a slice; its bounds are brought inside the order.
Slice(i, j) ==
  LET n == Len(progression.order)
  IN SubSeq(progression.order, Clamped(i, n) + 1, Clamped(j, n))

\* Mutant of LookInclude: no look at what is there.
LookIncludeAll(t) ==
  /\ call[t].op = "include"
  /\ Goto(t, "order", call[t].refs)
  /\ UNCHANGED shared

LookInclude(t) ==
  /\ call[t].op = "include"
  /\ Goto(t, "order", Only(call[t].refs, Range(call[t].refs) \ progression.members))
  /\ UNCHANGED shared

\* update goes through its elements one by one: one that is in the dict is replaced,
\* another is included.
LookUpdate(t) ==
  LET r == Head(call[t].refs)
  IN /\ call[t].op \in {"update", "append"}
     /\ UNCHANGED shared
     /\ \/ /\ call[t].refs = <<>>
           /\ End(t, "ok")
        \/ /\ call[t].refs # <<>> /\ r \in collections
           /\ call' = [call EXCEPT ![t].refs = Tail(@)]
           /\ UNCHANGED <<mode, locks, at, mine, seen, result, count>>
        \/ /\ call[t].refs # <<>> /\ r \notin collections
           /\ Goto(t, "order", IF r \in progression.members THEN <<>> ELSE <<r>>)

LookInsert(t) ==
  /\ call[t].op = "insert"
  /\ IF Present(t) THEN End(t, "exists") ELSE Goto(t, "order", <<>>)
  /\ UNCHANGED shared

\* The ids behind the key of a pop; none if the index or slice finds nothing.
Popped(c) ==
  CASE c.op = "pop_at" -> IF Valid(c.at) THEN <<IdAt(c.at)>> ELSE <<>>
    [] c.op = "pop_slice" -> Slice(c.at, c.to)
    [] OTHER -> c.refs

\* A list that can be popped one id after the other: none is missing or repeated.
Poppable(ids) == Len(ids) <= 1 \/ (IsInjective(ids) /\ Range(ids) \subseteq collections)

\* What a pop is about to spoil: a slice stays in the order, a list whose pop stops
\* half-way stays in the dict.
Spoils(c) ==
  CASE c.op = "pop_slice" /\ Popped(c) # <<>> -> {"slice"}
    [] c.op = "pop" /\ ~Poppable(Popped(c)) -> {"list"}
    [] OTHER -> {}

LookPop(t) ==
  /\ call[t].op \in {"pop_at", "pop_slice", "pop"}
  /\ IF Popped(call[t]) = <<>>
     THEN End(t, "missing")
     ELSE Goto(t, "order", Popped(call[t]))
  /\ UNCHANGED shared

\* __setitem__ with an index: the id that is to be replaced.
LookSet(t) ==
  /\ call[t].op = "set_at"
  /\ IF Present(t) THEN End(t, "exists")
     ELSE IF Valid(call[t].at) THEN Goto(t, "order", <<IdAt(call[t].at)>>)
     ELSE End(t, "missing")
  /\ UNCHANGED shared

\* get with an index: the id to be read.
LookRead(t) ==
  /\ call[t].op = "get_at"
  /\ IF Valid(call[t].at) THEN Goto(t, "dict", <<IdAt(call[t].at)>>) ELSE End(t, "missing")
  /\ UNCHANGED shared

\* clear() empties the dict first.
LookClear(t) ==
  /\ call[t].op = "clear"
  /\ Goto(t, "dict", <<>>)
  /\ UNCHANGED shared

\* move, swap and reverse of the progression are done in one go.
LookReorder(t) ==
  LET c  == call[t]
      n  == Len(progression.order)
      ok == CASE c.op = "move" -> IsIndex(c.at, n) /\ -n <= c.to /\ c.to <= n
              [] c.op = "swap" -> IsIndex(c.at, n) /\ IsIndex(c.to, n)
              [] OTHER -> TRUE
  IN /\ c.op \in Reorders
     /\ progression' = IF ~ok THEN progression
                       ELSE CASE c.op = "move" -> Moved(progression, c.at, c.to)
                              [] c.op = "swap" -> Swapped(progression, c.at, c.to)
                              [] OTHER -> Reversed(progression)
     /\ End(t, IF ok THEN "ok" ELSE "missing")
     /\ UNCHANGED collections

Look(t) ==
  /\ at[t] = "look"
  /\ spoiled' = spoiled \cup Spoils(call[t])
  /\ \/ LookInclude(t) \/ LookUpdate(t) \/ LookInsert(t) \/ LookPop(t)
     \/ LookSet(t) \/ LookRead(t) \/ LookClear(t) \/ LookReorder(t)

-----------------------------------------------------------------------------
(* The change of the order, and the change of the dict *)

\* The progression after a method has changed it.  validate_order takes the
\* Progression that a slice is for an element with an id of its own, so that
\* pop of a slice excludes nothing.
NewOrder(t) ==
  LET c == call[t]
  IN CASE c.op \in {"include", "update", "append"} -> Appended(progression, seen[t])
       [] c.op = "insert" -> Inserted(progression, c.at, c.refs)
       [] c.op \in {"pop_at", "pop"} -> Excluded(progression, Range(seen[t]))
       [] c.op = "pop_slice" -> Excluded(progression, {})
       [] c.op = "set_at" -> Assigned(progression, c.at, c.refs)
       [] OTHER -> Cleared

ChangeOrder(t) ==
  /\ at[t] = "order"
  /\ progression' = NewOrder(t)
  /\ IF call[t].op = "clear" THEN End(t, "ok") ELSE Goto(t, "dict", seen[t])
  /\ UNCHANGED collections

\* include, insert: collections.update.
DictAdd(t) ==
  /\ call[t].op \in {"include", "insert"}
  /\ collections' = collections \cup Range(call[t].refs)
  /\ End(t, "ok")

DictUpdate(t) ==
  /\ call[t].op \in {"update", "append"}
  /\ collections' = collections \cup {Head(call[t].refs)}
  /\ at' = [at EXCEPT ![t] = "look"]
  /\ call' = [call EXCEPT ![t].refs = Tail(@)]
  /\ seen' = [seen EXCEPT ![t] = <<>>]
  /\ UNCHANGED <<mode, locks, mine, result, count>>

\* The ids that collections.pop takes out one after the other, up to the first
\* that is not there.
Taken(ids) ==
  LET gone(k) == ids[k] \notin collections \/ \E j \in 1..(k - 1) : ids[j] = ids[k]
  IN {ids[k] : k \in {k \in DOMAIN ids : \A j \in 1..k : ~gone(j)}}

\* pop raises at the id that is not there; a slice of several ids ends in a Pile
\* that cannot be built, after all the pops.
PopRaises(t) ==
  \/ Cardinality(Taken(seen[t])) < Len(seen[t])
  \/ call[t].op = "pop_slice" /\ Len(seen[t]) > 1

DictPop(t) ==
  /\ call[t].op \in {"pop_at", "pop_slice", "pop"}
  /\ collections' = collections \ Taken(seen[t])
  /\ End(t, IF PopRaises(t) THEN "missing" ELSE "ok")

DictSet(t) ==
  LET old == Range(seen[t])
  IN /\ call[t].op = "set_at"
     /\ IF old \subseteq collections
        THEN collections' = (collections \ old) \cup Range(call[t].refs) /\ End(t, "ok")
        ELSE UNCHANGED collections /\ End(t, "missing")

\* A read whose id is in the order and not in the dict raises.
DictRead(t) ==
  /\ call[t].op = "get_at"
  /\ End(t, IF Range(seen[t]) \subseteq collections THEN "ok" ELSE "torn")
  /\ UNCHANGED collections

DictClear(t) ==
  /\ call[t].op = "clear"
  /\ collections' = {}
  /\ Goto(t, "order", <<>>)

ChangeDict(t) ==
  /\ at[t] = "dict"
  /\ \/ DictAdd(t) \/ DictUpdate(t) \/ DictPop(t) \/ DictSet(t) \/ DictRead(t) \/ DictClear(t)
  /\ UNCHANGED progression

-----------------------------------------------------------------------------
(* The reads that hold no lock of the pile *)

\* Nobody else is under the owner's lock, or there is none.
Turn(t) == mode.owner => outer \in {t, NoThread}

\* The order as it is now: its deque, from which values() and items() go on to read,
\* a list of it, or the id at an index of it.
Copy(t) ==
  LET c   == call[t]
      ids == IF c.op = "item_at" THEN <<IdAt(c.at)>> ELSE progression.order
  IN /\ at[t] = "copy"
     /\ Turn(t)
     /\ UNCHANGED shared
     /\ \/ /\ c.op = "item_at" /\ ~Valid(c.at)
           /\ End(t, "missing")
        \/ /\ c.op = "item_at" => Valid(c.at)
           /\ call' = [call EXCEPT ![t].refs = progression.order]
           /\ at' = [at EXCEPT ![t] = "scan"]
           /\ seen' = [seen EXCEPT ![t] = ids]
           /\ UNCHANGED <<mode, locks, mine, result, count>>

\* One element after the other is looked up in the dict.  If the order has changed
\* since, values() and items() may also find their deque changed under them, or go
\* on with one that has been replaced.
Scan(t) ==
  /\ at[t] = "scan"
  /\ Turn(t)
  /\ UNCHANGED shared
  /\ \/ seen[t] = <<>> /\ End(t, "ok")
     \/ seen[t] # <<>> /\ Head(seen[t]) \in collections /\ Goto(t, "scan", Tail(seen[t]))
     \/ seen[t] # <<>> /\ Head(seen[t]) \notin collections /\ End(t, "torn")
     \/ call[t].op = "values" /\ progression.order # call[t].refs /\ End(t, "torn")

Step(t) ==
  \/ Look(t)
  \/ /\ \/ Check(t) \/ CheckLock(t) \/ MakeLock(t) \/ ReadLock(t) \/ Take(t)
        \/ ChangeOrder(t) \/ ChangeDict(t) \/ Copy(t) \/ Scan(t)
     /\ UNCHANGED spoiled

Next == \E t \in Thread : Step(t) \/ \E c \in mode.calls : Begin(t, c) /\ UNCHANGED spoiled

Spec == Init /\ [][Next]_vars

-----------------------------------------------------------------------------
(* Properties *)

\* The values of the variables.
TypeOK ==
  /\ mode \in Modes
  /\ collections \subseteq Id
  /\ progression.order \in Seq(Id) /\ progression.members \subseteq Id
  /\ lock \in Thread \cup {NoLock}
  /\ holder \in [Thread -> Thread \cup {NoThread}]
  /\ outer \in Thread \cup {NoThread}
  /\ at \in [Thread -> Places]
  /\ call \in [Thread -> Call]
  /\ mine \in [Thread -> Thread \cup {NoLock}]
  /\ seen \in [Thread -> Seq(Id)]
  /\ result \in [Thread -> Results]
  /\ spoiled \subseteq {"slice", "list"}
  /\ count \in 0..MaxCalls

\* A thread in the body of a method.
Inside(t) == at[t] \in {"look", "order", "dict"}

Quiescent == \A t \in Thread : ~Inside(t)

\* Whenever no method that changes the pile is running, the progression lists the ids
\* of the dict, each of them once, unless a slice has been popped or a list with an id
\* that is missing or repeated (_pop); and its cached members, which every membership
\* test asks, are always those of its order.
DictAndOrder ==
  /\ progression.members = Range(progression.order)
  /\ Quiescent /\ spoiled = {} =>
        /\ Range(progression.order) = collections
        /\ Len(progression.order) = Cardinality(collections)

\* What such a pop leaves behind (_pop: the order is changed first, then the dict): no id
\* is ever listed twice; a slice can only leave ids in the order that have no element, and
\* a list only elements that are not in the order, whatever is called afterwards.
LossIsOneSided ==
  /\ IsInjective(progression.order)
  /\ Quiescent /\ "slice" \notin spoiled => Range(progression.order) \subseteq collections
  /\ Quiescent /\ "list" \notin spoiled => collections \subseteq Range(progression.order)

\* A read finds an id without its element, or the order changed under it, only if it is
\* an iteration, whose caller lets others go on, or is made without the pile's lock
\* beside other threads (values, items, filter, pile[i]), or if a slice has been popped.
NoTornRead ==
  [][\A t \in Thread :
       result[t] # "torn" /\ result'[t] = "torn" =>
         \/ call[t].op = "iterate"
         \/ ~mode.owner /\ call[t].op \in Unlocked
         \/ "slice" \in spoiled]_vars

\* A pile is an ordered set, until a pop has spoiled it: an element is there when both
\* the order and the dict have it; elements come and go at one step each, and the
\* others keep their order.
Abstract == INSTANCE OrderedSet WITH
  items <- IF spoiled = {} THEN Only(progression.order, collections) ELSE <<>>,
  permuting <- \E t \in Thread : at[t] = "look" /\ call[t].op \in Reorders

IsOrderedSet == Abstract!Spec
=============================================================================
