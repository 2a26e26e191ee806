----------------------------- MODULE OrderedSet -----------------------------
(***************************************************************************)
(* What a Pile promises its callers: an ordered collection without         *)
(* duplicates, in which elements appear together at one place and go       *)
(* without a trace, and the others keep their order meanwhile.             *)
(***************************************************************************)
EXTENDS Integers, Sequences, Functions

VARIABLES
  items,      \* the elements in their order
  permuting   \* whether a caller is asking for another order

Init == items = <<>>

\* A block of new elements appears after the first i.
Appear ==
  LET n == Len(items') - Len(items)
  IN /\ n > 0
     /\ \E i \in 0..Len(items) :
          \A k \in DOMAIN items : items'[IF k <= i THEN k ELSE k + n] = items[k]

\* An element comes before another one in a sequence.
Before(s, x, y) == \E i, j \in DOMAIN s : i < j /\ s[i] = x /\ s[j] = y

\* Some elements go.
Vanish ==
  /\ Range(items') \subseteq Range(items)
  /\ \A x, y \in Range(items') : Before(items', x, y) => Before(items, x, y)

\* The same elements in another order.
Reorder ==
  /\ permuting
  /\ Len(items') = Len(items)
  /\ Range(items') = Range(items)

Next == IsInjective(items') /\ (Appear \/ Vanish \/ Reorder)

Spec == Init /\ [][Next]_items
=============================================================================
