------------------------------- MODULE MCPile -------------------------------
EXTENDS Pile

CONSTANTS x1, x2, x3

MCCall(op, at_, to, refs) == [op |-> op, at |-> at_, to |-> to, refs |-> refs]

\* Calls made under the lock of an owner, or by the tasks of one event loop: lists of
\* distinct elements, indices from both ends and outside the order.
MCOwned ==
  {MCCall("include", 0, 0, <<x1, x2>>), MCCall("include", 0, 0, <<x2, x3>>),
   MCCall("update", 0, 0, <<x2, x1>>), MCCall("insert", 1, 0, <<x3>>),
   MCCall("insert", -1, 0, <<x1, x3>>), MCCall("pop_at", 0, 0, <<>>),
   MCCall("pop_at", -2, 0, <<>>), MCCall("remove", 0, 0, <<x2>>),
   MCCall("exclude", 0, 0, <<x1, x3>>), MCCall("set_at", 1, 0, <<x3>>),
   MCCall("set_at", -3, 0, <<x1>>), MCCall("values", 0, 0, <<>>),
   MCCall("iterate", 0, 0, <<>>)}

\* The same with the methods that only change the order.
MCReordered ==
  {MCCall("include", 0, 0, <<x1, x2, x3>>), MCCall("move", 0, 3, <<>>),
   MCCall("move", -1, 0, <<>>), MCCall("swap", 0, -1, <<>>), MCCall("reverse", 0, 0, <<>>),
   MCCall("pop_at", 1, 0, <<>>), MCCall("clear", 0, 0, <<>>)}

\* Methods that hold the pile's lock, called from threads without an owner.
MCShared ==
  {MCCall("append", 0, 0, <<x1, x2>>), MCCall("insert", 0, 0, <<x1>>),
   MCCall("insert", 1, 0, <<x3>>), MCCall("pop_at", -1, 0, <<>>), MCCall("pop", 0, 0, <<x1>>),
   MCCall("remove", 0, 0, <<x2>>), MCCall("exclude", 0, 0, <<x3>>),
   MCCall("clear", 0, 0, <<>>), MCCall("get_at", 0, 0, <<>>), MCCall("values", 0, 0, <<>>),
   MCCall("item_at", 0, 0, <<>>), MCCall("iterate", 0, 0, <<>>)}

\* The same with pops that cannot be done as asked, and an exclusion of two elements.
MCSpoiled ==
  {MCCall("append", 0, 0, <<x1, x2>>), MCCall("insert", 0, 0, <<x1>>),
   MCCall("pop_slice", 0, 2, <<>>), MCCall("pop_slice", 1, 2, <<>>),
   MCCall("pop", 0, 0, <<x1, x3>>), MCCall("pop", 0, 0, <<x2, x2>>),
   MCCall("pop", 0, 0, <<x2, x1>>), MCCall("exclude", 0, 0, <<x1, x2>>),
   MCCall("get_at", 0, 0, <<>>), MCCall("clear", 0, 0, <<>>)}

\* Under an owner's lock.
MCSpoiledOwned ==
  {MCCall("include", 0, 0, <<x1, x2>>), MCCall("include", 0, 0, <<x2, x3>>),
   MCCall("update", 0, 0, <<x2, x1>>), MCCall("insert", 1, 0, <<x1>>),
   MCCall("pop_slice", 0, 2, <<>>), MCCall("pop", 0, 0, <<x1, x3>>),
   MCCall("exclude", 0, 0, <<x1, x1>>), MCCall("remove", 0, 0, <<x2>>),
   MCCall("set_at", 0, 0, <<x3>>), MCCall("pop_at", 0, 0, <<>>),
   MCCall("values", 0, 0, <<>>), MCCall("filter", 0, 0, <<>>), MCCall("clear", 0, 0, <<>>)}

MCModes ==
  {[owner |-> TRUE, lazy |-> TRUE, calls |-> MCOwned],
   [owner |-> TRUE, lazy |-> TRUE, calls |-> MCReordered],
   [owner |-> FALSE, lazy |-> FALSE, calls |-> MCShared],
   [owner |-> FALSE, lazy |-> FALSE, calls |-> MCSpoiled],
   [owner |-> TRUE, lazy |-> TRUE, calls |-> MCSpoiledOwned]}

\* The lock is created by the first calls of the threads that share the pile.
MCLazy ==
  {[owner |-> FALSE, lazy |-> TRUE,
    calls |-> {MCCall("append", 0, 0, <<x1>>), MCCall("append", 0, 0, <<x1, x2>>)}]}

\* A slice is popped.
MCSliced ==
  {[owner |-> TRUE, lazy |-> TRUE,
    calls |-> {MCCall("include", 0, 0, <<x1, x2>>), MCCall("pop_slice", 0, 2, <<>>),
               MCCall("pop_slice", 0, 1, <<>>)}]}

\* What DictAndOrder says, of spoiled piles too: popping a slice (pile.py, _pop) breaks it.
OrderIsDict == Quiescent => Range(progression.order) = collections
=============================================================================
