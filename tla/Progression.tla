---------------------------- MODULE Progression ----------------------------
(***************************************************************************)
(* protocols/generic/progression.py: an ordered list of ids that may hold  *)
(* an id more than once, with the set of its members cached beside it.     *)
(* Indices are Python's: they count from 0, and from the end if negative.  *)
(***************************************************************************)
EXTENDS Integers, Sequences, SequencesExt

\* The members computed from the order, after a bulk change.
Rebuilt(order) == [order |-> order, members |-> Range(order)]

Cleared == Rebuilt(<<>>)

\* The index i of the code for a sequence of length n.
IsIndex(i, n) == -n <= i /\ i < n
Normal(i, n) == IF i < 0 THEN n + i ELSE i

\* Where deque.insert puts an element: an index outside the deque is its end.
Clamped(i, n) ==
  IF Normal(i, n) < 0 THEN 0 ELSE IF Normal(i, n) > n THEN n ELSE Normal(i, n)

Appended(p, refs) ==
  [order |-> p.order \o refs, members |-> p.members \cup Range(refs)]

\* The elements of a sequence that are among `ids`, in their order.
Only(s, ids) ==
  LET kept[k \in 0..Len(s)] ==
        IF k = 0 THEN <<>>
        ELSE IF s[k] \in ids THEN Append(kept[k - 1], s[k]) ELSE kept[k - 1]
  IN kept[Len(s)]

\* Mutant of Excluded: what stays is prepended instead of appended.
ExcludedBackwards(p, refs) == Rebuilt(Reverse(Only(p.order, Range(p.order) \ refs)))

Excluded(p, refs) == Rebuilt(Only(p.order, Range(p.order) \ refs))

\* One element at a time, the last first, each at the index as it was given.
Inserted(p, i, refs) ==
  LET put(s, r) == InsertAt(s, Clamped(i, Len(s)) + 1, r)
      order[k \in 0..Len(refs)] ==
        IF k = 0 THEN p.order ELSE put(order[k - 1], refs[Len(refs) - k + 1])
  IN [order |-> order[Len(refs)], members |-> p.members \cup Range(refs)]

\* progression[i] = refs: the first of the refs takes the place of the old one,
\* or is inserted if the index is out of range.
Assigned(p, i, refs) ==
  LET n   == Len(p.order)
      k   == Normal(i, n) + 1
      new == ReplaceAt(p.order, k, refs[1])
  IN IF IsIndex(i, n)
     THEN [order   |-> new,
           members |-> (p.members \ ({p.order[k]} \ Range(new))) \cup {refs[1]}]
     ELSE Inserted(p, i, <<refs[1]>>)

\* del progression[i] and insert at the index the gap leaves for it.
Moved(p, i, j) ==
  LET n    == Len(p.order)
      from == Normal(i, n)
      to   == Normal(j, n)
  IN [p EXCEPT !.order =
        InsertAt(RemoveAt(p.order, from + 1), (IF from < to THEN to - 1 ELSE to) + 1,
                 p.order[from + 1])]

Swapped(p, i, j) ==
  LET n == Len(p.order)
      a == Normal(i, n) + 1
      b == Normal(j, n) + 1
  IN [p EXCEPT !.order = [@ EXCEPT ![a] = p.order[b], ![b] = p.order[a]]]

Reversed(p) == [p EXCEPT !.order = Reverse(@)]
=============================================================================
