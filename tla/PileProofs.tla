----------------------------- MODULE PileProofs -----------------------------
(***************************************************************************)
(* A Pile used by any number of threads, under one lock and with care: as  *)
(* long as no pop has spoiled it, the order lists the dict whenever no     *)
(* method is running, and the pile is an ordered set; a read under a lock  *)
(* is never torn.                                                          *)
(***************************************************************************)
EXTENDS Pile, FiniteSetTheorems, WellFoundedInduction, TLAPS

-----------------------------------------------------------------------------
(* The locks *)

\* No pile without an owner is first locked by threads that race for it.
LockIsSafe == \A m \in Modes : m.owner \/ ~m.lazy

LockType ==
  /\ mode \in Modes
  /\ lock \in Thread \cup {NoLock}
  /\ holder \in [Thread -> Thread \cup {NoThread}]
  /\ at \in [Thread -> Places]
  /\ mine \in [Thread -> Thread \cup {NoLock}]

\* In a call, other than in a read without a lock of the pile.
Busy(t) == at[t] \notin {"idle", "copy", "scan"}

\* Under an owner's lock one thread at a time is in a call.
OwnerAlone == mode.owner => \A t \in Thread : Busy(t) => outer = t

\* Without an owner there is a lock, and a thread makes one only if there is none.
OneLock ==
  /\ mode.owner \/ lock # NoLock
  /\ \A t \in Thread : at[t] = "make" => lock = NoLock
  /\ \A t \in Thread : at[t] = "read" => lock # NoLock

\* Every thread that uses a lock uses the one in self._lock, and is inside of it
\* only as its holder.
LocksMatch ==
  \A t \in Thread :
    /\ mine[t] # NoLock => mine[t] = lock /\ at[t] \in {"take", "look", "order", "dict"}
    /\ at[t] = "take" => mine[t] # NoLock
    /\ Inside(t) /\ mine[t] # NoLock => holder[mine[t]] = t

IInv == LockType /\ OwnerAlone /\ OneLock /\ LocksMatch

LEMMA InitIInv == LockIsSafe /\ Init => IInv
<1> SUFFICES ASSUME LockIsSafe, Init PROVE IInv
  OBVIOUS
<1>1. LockType
  BY PileAssumption DEF Init, LockType, Places
<1>2. OwnerAlone /\ LocksMatch
  BY PileAssumption DEF Init, OwnerAlone, Busy, LocksMatch, Inside
<1>3. OneLock
  BY PileAssumption DEF Init, OneLock, LockIsSafe
<1> QED
  BY <1>1, <1>2, <1>3 DEF IInv

\* A call that goes on in the body of its method.
LEMMA GotoIInv ==
  ASSUME IInv, NEW t \in Thread, NEW place \in {"look", "order", "dict"}, NEW ids,
         at[t] \in {"look", "order", "dict"}, Goto(t, place, ids)
  PROVE  IInv'
<1>1. LockType' /\ OwnerAlone'
  BY DEF IInv, LockType, OwnerAlone, Busy, Goto, Places, locks
<1>2. OneLock' /\ LocksMatch'
  BY DEF IInv, LockType, OneLock, LocksMatch, Inside, Goto, Places, locks
<1> QED
  BY <1>1, <1>2 DEF IInv

\* A call that ends, before it took the lock or in the body of its method.
LEMMA EndIInv ==
  ASSUME IInv, NEW t \in Thread, NEW how,
         at[t] \in {"check", "look", "order", "dict", "copy", "scan"}, End(t, how)
  PROVE  IInv'
<1>1. LockType'
  BY PileAssumption DEF IInv, LockType, End, Places
<1>2. OwnerAlone'
  BY DEF IInv, LockType, OwnerAlone, Busy, End
<1>3. OneLock'
  BY DEF IInv, LockType, OneLock, End
<1>4. LocksMatch'
  <2> SUFFICES ASSUME NEW u \in Thread
               PROVE  /\ mine'[u] # NoLock =>
                           mine'[u] = lock' /\ at'[u] \in {"take", "look", "order", "dict"}
                      /\ at'[u] = "take" => mine'[u] # NoLock
                      /\ Inside(u)' /\ mine'[u] # NoLock => holder'[mine'[u]] = u
    BY DEF LocksMatch
  <2>1. CASE u = t
    BY <2>1 DEF IInv, LockType, End, Inside
  <2>2. CASE u # t
    <3>1. mine'[u] = mine[u] /\ at'[u] = at[u] /\ lock' = lock
      BY <2>2 DEF IInv, LockType, End
    <3>2. ASSUME Inside(u), mine[u] # NoLock PROVE holder'[mine[u]] = u
      <4>1. holder[mine[u]] = u /\ mine[u] = lock
        BY <3>2 DEF IInv, LocksMatch
      <4>2. mine[t] # NoLock => holder[mine[t]] = t /\ mine[t] = lock
        BY DEF IInv, LocksMatch, Inside
      <4>3. mine[t] = NoLock
        BY <2>2, <4>1, <4>2
      <4> QED
        BY <4>1, <4>3 DEF End
    <3> QED
      BY <3>1, <3>2 DEF IInv, LocksMatch, Inside
  <2> QED
    BY <2>1, <2>2
<1> QED
  BY <1>1, <1>2, <1>3, <1>4 DEF IInv

LEMMA BeginIInv == ASSUME IInv, NEW t \in Thread, NEW c \in mode.calls, Begin(t, c) PROVE IInv'
<1>1. LockType'
  BY DEF IInv, LockType, Begin, Places
<1>2. OwnerAlone'
  <2> SUFFICES ASSUME mode.owner, NEW u \in Thread, Busy(u)' PROVE outer' = u
    BY DEF OwnerAlone, Begin
  <2>1. u # t => at'[u] = at[u]
    BY DEF IInv, LockType, Begin
  <2>2. CASE c.op = "iterate"
    <3>1. outer' = outer /\ at'[t] = "copy"
      BY <2>2 DEF IInv, LockType, Begin, Synchronized, Checked, Unlocked
    <3> QED
      BY <2>1, <3>1 DEF IInv, OwnerAlone, Busy
  <2>3. CASE c.op # "iterate"
    <3>1. outer = NoThread /\ outer' = t
      BY <2>3 DEF Begin
    <3> QED
      BY <2>1, <3>1, PileAssumption DEF IInv, OwnerAlone, Busy
  <2> QED
    BY <2>2, <2>3
<1>3. OneLock' /\ LocksMatch'
  BY DEF IInv, LockType, OneLock, LocksMatch, Inside, Begin, Places
<1> QED
  BY <1>1, <1>2, <1>3 DEF IInv

LEMMA CheckIInv == ASSUME IInv, NEW t \in Thread, Check(t) PROVE IInv'
<1> DEFINE refs == call[t].refs
           present == Only(refs, progression.members)
           how == IF call[t].op = "remove" THEN "missing" ELSE "ok"
<1>1. CASE End(t, how)
  BY <1>1, EndIInv DEF Check
<1>2. CASE /\ at' = [at EXCEPT ![t] = "lock"]
           /\ UNCHANGED <<mode, locks, mine>>
  <2>1. at[t] = "check"
    BY DEF Check
  <2>2. LockType' /\ OwnerAlone'
    BY <1>2, <2>1 DEF IInv, LockType, OwnerAlone, Busy, locks, Places
  <2>3. OneLock' /\ LocksMatch'
    BY <1>2, <2>1 DEF IInv, LockType, OneLock, LocksMatch, Inside, locks
  <2> QED
    BY <2>2, <2>3 DEF IInv
<1> QED
  BY <1>1, <1>2 DEF Check

LEMMA CheckLockIInv == ASSUME IInv, NEW t \in Thread, CheckLock(t) PROVE IInv'
<1>1. LockType' /\ OwnerAlone'
  BY DEF IInv, LockType, OwnerAlone, Busy, CheckLock, Goto, locks, Places
<1>2. OneLock' /\ LocksMatch'
  BY DEF IInv, LockType, OneLock, LocksMatch, Inside, CheckLock, Goto, locks
<1> QED
  BY <1>1, <1>2 DEF IInv

\* The lock is only made under the owner's lock, when no other thread is in a call.
LEMMA MakeLockIInv == ASSUME IInv, NEW t \in Thread, MakeLock(t) PROVE IInv'
<1>1. LockType' /\ OwnerAlone'
  BY DEF IInv, LockType, OwnerAlone, Busy, MakeLock, Places
<1>2. lock = NoLock /\ mode.owner /\ lock' = t
  BY DEF IInv, OneLock, MakeLock
<1>3. \A u \in Thread : u # t => at[u] \in {"idle", "copy", "scan"}
  BY <1>2 DEF IInv, OwnerAlone, Busy, MakeLock
<1>4. \A u \in Thread : mine[u] = NoLock
  BY <1>3 DEF IInv, LocksMatch, MakeLock
<1>5. at'[t] = "read" /\ mine' = mine /\ \A u \in Thread : u # t => at'[u] = at[u]
  BY DEF IInv, LockType, MakeLock
<1>6. OneLock'
  BY <1>2, <1>3, <1>5, PileAssumption DEF OneLock
<1>7. LocksMatch'
  BY <1>3, <1>4, <1>5 DEF LocksMatch, Inside
<1> QED
  BY <1>1, <1>6, <1>7 DEF IInv

LEMMA ReadLockIInv == ASSUME IInv, NEW t \in Thread, ReadLock(t) PROVE IInv'
<1>1. LockType' /\ OwnerAlone'
  BY DEF IInv, LockType, OwnerAlone, Busy, ReadLock, locks, Places
<1>2. OneLock' /\ LocksMatch'
  BY DEF IInv, LockType, OneLock, LocksMatch, Inside, ReadLock, locks
<1> QED
  BY <1>1, <1>2 DEF IInv

\* The lock is free, so that nobody is inside.
LEMMA TakeIInv == ASSUME IInv, NEW t \in Thread, Take(t) PROVE IInv'
<1>1. mine[t] = lock /\ lock \in Thread /\ holder[lock] = NoThread
  BY DEF IInv, LockType, LocksMatch, Take
<1>2. \A u \in Thread : ~(Inside(u) /\ mine[u] # NoLock)
  BY <1>1, PileAssumption DEF IInv, LocksMatch
<1>3. LockType' /\ OwnerAlone'
  BY DEF IInv, LockType, OwnerAlone, Busy, Take, Places
<1>4. OneLock' /\ LocksMatch'
  BY <1>1, <1>2 DEF IInv, LockType, OneLock, LocksMatch, Inside, Take
<1> QED
  BY <1>3, <1>4 DEF IInv

\* A step of update that stays in the body and touches no lock.
LEMMA StayIInv ==
  ASSUME IInv, NEW t \in Thread, at[t] \in {"look", "dict"},
         at' = at \/ at' = [at EXCEPT ![t] = "look"],
         UNCHANGED <<mode, lock, holder, outer, mine>>
  PROVE  IInv'
BY DEF IInv, LockType, OwnerAlone, Busy, OneLock, LocksMatch, Inside, Places

LEMMA LookIInv == ASSUME IInv, NEW t \in Thread, Look(t) PROVE IInv'
<1>1. at[t] = "look"
  BY DEF Look
<1>2. CASE LookInclude(t)
  BY <1>1, <1>2, GotoIInv DEF LookInclude
<1>3. CASE LookUpdate(t)
  BY <1>1, <1>3, GotoIInv, EndIInv, StayIInv DEF LookUpdate, locks
<1>4. CASE LookInsert(t)
  BY <1>1, <1>4, GotoIInv, EndIInv DEF LookInsert
<1>5. CASE LookPop(t)
  BY <1>1, <1>5, GotoIInv, EndIInv DEF LookPop
<1>6. CASE LookSet(t)
  BY <1>1, <1>6, GotoIInv, EndIInv DEF LookSet
<1>7. CASE LookRead(t)
  BY <1>1, <1>7, GotoIInv, EndIInv DEF LookRead
<1>8. CASE LookClear(t)
  BY <1>1, <1>8, GotoIInv DEF LookClear
<1>9. CASE LookReorder(t)
  BY <1>1, <1>9, EndIInv DEF LookReorder
<1> QED
  BY <1>2, <1>3, <1>4, <1>5, <1>6, <1>7, <1>8, <1>9 DEF Look

LEMMA ChangeOrderIInv == ASSUME IInv, NEW t \in Thread, ChangeOrder(t) PROVE IInv'
<1>1. CASE End(t, "ok")
  BY <1>1, EndIInv DEF ChangeOrder
<1>2. CASE Goto(t, "dict", seen[t])
  BY <1>2, GotoIInv DEF ChangeOrder
<1> QED
  BY <1>1, <1>2 DEF ChangeOrder

LEMMA ChangeDictIInv == ASSUME IInv, NEW t \in Thread, ChangeDict(t) PROVE IInv'
<1>1. at[t] = "dict"
  BY DEF ChangeDict
<1>2. CASE DictAdd(t) \/ DictPop(t) \/ DictSet(t) \/ DictRead(t)
  <2>1. \E how : End(t, how)
    BY <1>2 DEF DictAdd, DictPop, DictSet, DictRead
  <2> QED
    BY <1>1, <2>1, EndIInv
<1>3. CASE DictUpdate(t)
  BY <1>1, <1>3, StayIInv DEF DictUpdate, locks
<1>4. CASE DictClear(t)
  BY <1>1, <1>4, GotoIInv DEF DictClear
<1> QED
  BY <1>2, <1>3, <1>4 DEF ChangeDict

LEMMA CopyIInv == ASSUME IInv, NEW t \in Thread, Copy(t) PROVE IInv'
<1>1. CASE End(t, "missing")
  BY <1>1, EndIInv DEF Copy
<1>2. CASE at' = [at EXCEPT ![t] = "scan"] /\ UNCHANGED <<mode, locks, mine>>
  BY <1>2 DEF IInv, LockType, OwnerAlone, Busy, OneLock, LocksMatch, Inside, locks, Places, Copy
<1> QED
  BY <1>1, <1>2 DEF Copy

LEMMA ScanIInv == ASSUME IInv, NEW t \in Thread, Scan(t) PROVE IInv'
<1>1. CASE End(t, "ok") \/ End(t, "torn")
  BY <1>1, EndIInv DEF Scan
<1>2. CASE Goto(t, "scan", Tail(seen[t]))
  BY <1>2 DEF IInv, LockType, OwnerAlone, Busy, OneLock, LocksMatch, Inside, Goto, locks, Places, Scan
<1> QED
  BY <1>1, <1>2 DEF Scan

\* The locks, where the threads are and what they use agree at every step.
LEMMA NextIInv == IInv /\ [Next]_vars => IInv'
<1> SUFFICES ASSUME IInv, [Next]_vars PROVE IInv'
  OBVIOUS
<1>1. CASE UNCHANGED vars
  BY <1>1 DEF vars, IInv, LockType, OwnerAlone, Busy, OneLock, LocksMatch, Inside
<1>2. ASSUME NEW t \in Thread, Step(t) PROVE IInv'
  BY <1>2, CheckIInv, CheckLockIInv, MakeLockIInv, ReadLockIInv, TakeIInv, LookIInv,
     ChangeOrderIInv, ChangeDictIInv, CopyIInv, ScanIInv DEF Step
<1>3. ASSUME NEW t \in Thread, NEW c \in mode.calls, Begin(t, c) PROVE IInv'
  BY <1>3, BeginIInv
<1> QED
  BY <1>1, <1>2, <1>3 DEF Next

-----------------------------------------------------------------------------
(* Sequences of ids, as the order of a progression *)

\* A set of naturals that is not empty has a least member.
LEMMA LeastOf ==
    ASSUME NEW S \in SUBSET Nat, S # {}
    PROVE  \E x \in S : \A y \in S : x <= y
<1> DEFINE T == {1..n : n \in S}
<1>1. T \subseteq FiniteSubsetsOf(Nat) /\ T # {}
  <2>1. ASSUME NEW n \in S PROVE 1..n \in SUBSET Nat /\ IsFiniteSet(1..n)
    BY FS_Interval
  <2> QED
    BY <2>1 DEF FiniteSubsetsOf
<1>2. PICK I \in T : \A J \in T : <<J, I>> \notin StrictSubsetOrdering(Nat)
  <2> HIDE DEF T
  <2> QED
    BY <1>1, FS_StrictSubsetOrderingWellFounded, WFMin
<1>3. PICK x \in S : I = 1..x
  OBVIOUS
<1>4. ASSUME NEW y \in S, y < x PROVE FALSE
  <2>1. 1..y \in SUBSET Nat /\ 1..x \in SUBSET Nat /\ 1..y \subseteq 1..x /\ 1..y # 1..x
    <3>1. x \in 1..x /\ x \notin 1..y
      BY <1>4
    <3> QED
      BY <1>4, <3>1
  <2>2. <<1..y, 1..x>> \in StrictSubsetOrdering(Nat)
    BY <2>1 DEF StrictSubsetOrdering
  <2> QED
    BY <1>2, <1>3, <2>2
<1> QED
  BY <1>4

\* Induction up to a bound, for a set in place of a predicate.
LEMMA UpTo ==
    ASSUME NEW n \in Nat, NEW Good, 0 \in Good,
           \A k \in 1..n : k - 1 \in Good => k \in Good
    PROVE  0..n \subseteq Good
<1> DEFINE Bad == {k \in 0..n : k \notin Good}
<1>1. CASE Bad # {}
  <2>1. PICK x \in Bad : \A y \in Bad : x <= y
    <3> HIDE DEF Bad
    <3>1. Bad \in SUBSET Nat
      BY DEF Bad
    <3> QED
      BY <1>1, <3>1, LeastOf
  <2>2. x \in 1..n /\ x - 1 \in 0..n
    BY <2>1
  <2>3. x - 1 \in Good
    BY <2>1, <2>2
  <2> QED
    BY <2>1, <2>2, <2>3
<1> QED
  BY <1>1

\* The first values of a recursion whose steps are functions.
Solution(f, n, S, s0, step) ==
  f \in [0..n -> S] /\ f[0] = s0 /\ \A k \in 1..n : f[k] = step[k][f[k - 1]]

\* Such a recursion has a solution.
LEMMA Recursion ==
    ASSUME NEW n \in Nat, NEW S, NEW s0 \in S, NEW step \in [1..n -> [S -> S]]
    PROVE  \E f : Solution(f, n, S, s0, step)
<1> DEFINE Sols(m) == {f \in [0..m -> S] : f[0] = s0 /\ \A k \in 1..m : f[k] = step[k][f[k - 1]]}
           Good == {m \in 0..n : Sols(m) # {}}
<1>1. 0 \in Good
  <2>1. [k \in 0..0 |-> s0] \in Sols(0)
    OBVIOUS
  <2> QED
    BY <2>1
<1>2. ASSUME NEW m \in 1..n, m - 1 \in Good PROVE m \in Good
  <2>1. PICK f : f \in Sols(m - 1)
    BY <1>2
  <2> DEFINE g == [k \in 0..m |-> IF k = m THEN step[m][f[m - 1]] ELSE f[k]]
  <2>2. f[m - 1] \in S /\ step[m][f[m - 1]] \in S
    BY <2>1
  <2>3. g \in [0..m -> S]
    BY <2>1, <2>2
  <2>4. g[0] = s0
    BY <2>1
  <2>5. ASSUME NEW k \in 1..m PROVE g[k] = step[k][g[k - 1]]
    <3>1. g[k - 1] = f[k - 1]
      OBVIOUS
    <3>2. CASE k = m
      BY <3>1, <3>2
    <3>3. CASE k # m
      <4>1. k \in 1..(m - 1) /\ g[k] = f[k]
        BY <3>3
      <4>2. f[k] = step[k][f[k - 1]]
        BY <4>1, <2>1
      <4> QED
        BY <4>1, <4>2, <3>1
    <3> QED
      BY <3>2, <3>3
  <2>6. g \in Sols(m)
    <3> HIDE DEF g
    <3> QED
      BY <2>3, <2>4, <2>5
  <2> HIDE DEF Sols
  <2> QED
    BY <2>6
<1>3. 0..n \subseteq Good
  <2> HIDE DEF Good
  <2> QED
    BY <1>1, <1>2, UpTo
<1>4. Sols(n) # {}
  BY <1>3
<1> QED
  BY <1>4 DEF Solution

\* What there is of a sequence after its first elements.
LEMMA AppendIs ==
    ASSUME NEW s \in Seq(Id), NEW x \in Id
    PROVE  /\ Append(s, x) \in Seq(Id) /\ Len(Append(s, x)) = Len(s) + 1
           /\ Range(Append(s, x)) = Range(s) \cup {x}
           /\ IsInjective(s) /\ x \notin Range(s) => IsInjective(Append(s, x))
<1> DEFINE a == Append(s, x)
<1>1. /\ a \in Seq(Id) /\ Len(a) = Len(s) + 1
      /\ DOMAIN a = 1..(Len(s) + 1) /\ DOMAIN s = 1..Len(s)
      /\ \A i \in 1..Len(s) : a[i] = s[i]
      /\ a[Len(s) + 1] = x /\ Len(s) \in Nat
  OBVIOUS
<1> HIDE DEF a
<1>2. Range(a) = Range(s) \cup {x}
  <2>1. \A i \in 1..(Len(s) + 1) : i \in 1..Len(s) \/ i = Len(s) + 1
    BY <1>1
  <2> QED
    BY <1>1, <2>1 DEF Range
<1>3. ASSUME IsInjective(s), x \notin Range(s) PROVE IsInjective(a)
  BY <1>1, <1>3 DEF Range, IsInjective
<1> QED
  BY <1>1, <1>2, <1>3 DEF a

\* What Only has kept of the first elements.
Keeps(kept, s, ids) ==
  /\ kept[0] = <<>>
  /\ \A k \in 1..Len(s) : kept[k] = IF s[k] \in ids THEN Append(kept[k - 1], s[k]) ELSE kept[k - 1]

LEMMA OnlyUnfolds ==
    ASSUME NEW s \in Seq(Id), NEW ids
    PROVE  \E kept : Keeps(kept, s, ids) /\ Only(s, ids) = kept[Len(s)]
<1> DEFINE n == Len(s)
           body(f) == [k \in 0..n |->
                         IF k = 0 THEN <<>>
                         ELSE IF s[k] \in ids THEN Append(f[k - 1], s[k]) ELSE f[k - 1]]
           kept == CHOOSE f : f = body(f)
           step == [k \in 1..n |-> [x \in Seq(Id) |-> IF s[k] \in ids THEN Append(x, s[k]) ELSE x]]
<1> HIDE DEF kept, step, body
<1>1. n \in Nat /\ DOMAIN s = 1..n /\ \A k \in 1..n : s[k] \in Id
  OBVIOUS
<1> HIDE DEF n
<1>2. kept = body(kept)
  <2>1. PICK S : S = Seq(Id)
    OBVIOUS
  <2>2. step \in [1..n -> [S -> S]]
    BY <1>1, <2>1 DEF step
  <2>3. <<>> \in S
    BY <2>1
  <2>4. PICK f \in [0..n -> S] : f[0] = <<>> /\ \A k \in 1..n : f[k] = step[k][f[k - 1]]
    <3>1. \E f : Solution(f, n, S, <<>>, step)
      BY <1>1, <2>2, <2>3, Recursion
    <3> QED
      BY <3>1 DEF Solution
  <2>5. ASSUME NEW k \in 1..n
        PROVE  f[k] = IF s[k] \in ids THEN Append(f[k - 1], s[k]) ELSE f[k - 1]
    <3>1. f[k - 1] \in S
      BY <1>1
    <3> QED
      BY <1>1, <2>1, <2>4, <3>1 DEF step
  <2>6. ASSUME NEW k \in 0..n
        PROVE  f[k] = IF k = 0 THEN <<>>
                      ELSE IF s[k] \in ids THEN Append(f[k - 1], s[k]) ELSE f[k - 1]
    <3>1. CASE k = 0
      BY <2>4, <3>1
    <3>2. CASE k # 0
      <4>1. k \in 1..n
        BY <1>1, <3>2
      <4> QED
        BY <2>5, <3>2, <4>1
    <3> QED
      BY <3>1, <3>2
  <2>7. f = body(f)
    BY <2>6, Zenon DEF body
  <2> QED
    BY <2>7 DEF kept
<1>3. /\ kept[0] = <<>>
      /\ \A k \in 1..n : kept[k] = IF s[k] \in ids THEN Append(kept[k - 1], s[k]) ELSE kept[k - 1]
  <2>1. PICK f : f = body(f) /\ f = kept
    BY <1>2
  <2>2. \A k \in 0..n : f[k] = IF k = 0 THEN <<>>
                      ELSE IF s[k] \in ids THEN Append(f[k - 1], s[k]) ELSE f[k - 1]
    BY <2>1, Zenon DEF body
  <2>3. \A k \in 1..n : k \in 0..n /\ k # 0
    BY <1>1
  <2>4. 0 \in 0..n
    BY <1>1
  <2> QED
    BY <2>1, <2>2, <2>3, <2>4
<1>4. Only(s, ids) = kept[n]
  BY DEF Only, kept, body, n
<1> QED
  BY <1>3, <1>4 DEF Keeps, n

\* Only takes the elements that are among the ids, and keeps them distinct.
LEMMA OnlyIs ==
    ASSUME NEW s \in Seq(Id), NEW ids
    PROVE  /\ Only(s, ids) \in Seq(Id) /\ Len(Only(s, ids)) <= Len(s)
           /\ Range(Only(s, ids)) = Range(s) \cap ids
           /\ IsInjective(s) => IsInjective(Only(s, ids))
<1> PICK kept : Keeps(kept, s, ids) /\ Only(s, ids) = kept[Len(s)]
  BY OnlyUnfolds
<1> DEFINE n == Len(s)
           Good == {k \in 0..n : /\ kept[k] \in Seq(Id) /\ Len(kept[k]) <= k
                                 /\ Range(kept[k]) = {s[i] : i \in 1..k} \cap ids
                                 /\ IsInjective(s) => IsInjective(kept[k])}
<1>1. n \in Nat /\ DOMAIN s = 1..n /\ \A k \in 1..n : s[k] \in Id
  OBVIOUS
<1>3. /\ kept[0] = <<>>
      /\ \A k \in 1..n : kept[k] = IF s[k] \in ids THEN Append(kept[k - 1], s[k]) ELSE kept[k - 1]
  BY DEF Keeps
<1> HIDE DEF n
<1>4. 0 \in Good
  <2>1. {s[i] : i \in 1..0} = {} /\ Range(<<>>) = {} /\ IsInjective(<<>>)
    BY DEF Range, IsInjective
  <2>2. <<>> \in Seq(Id) /\ Len(<<>>) = 0
    OBVIOUS
  <2>3. 0 \in 0..n
    BY <1>1
  <2>4. kept[0] \in Seq(Id) /\ Len(kept[0]) <= 0
    BY <1>3, <2>2
  <2>5. Range(kept[0]) = {s[i] : i \in 1..0} \cap ids /\ (IsInjective(s) => IsInjective(kept[0]))
    BY <1>3, <2>1
  <2> QED
    BY <2>3, <2>4, <2>5
<1>5. ASSUME NEW k \in 1..n, k - 1 \in Good PROVE k \in Good
  <2>1. \A i \in 1..k : i \in 1..(k - 1) \/ i = k
    BY <1>1
  <2>2. {s[i] : i \in 1..k} = {s[i] : i \in 1..(k - 1)} \cup {s[k]}
    BY <1>1, <2>1
  <2>3. CASE s[k] \in ids
    <3>1. kept[k] = Append(kept[k - 1], s[k]) /\ kept[k - 1] \in Seq(Id) /\ s[k] \in Id
      BY <1>1, <1>3, <1>5, <2>3
    <3>2. IsInjective(s) => s[k] \notin {s[i] : i \in 1..(k - 1)}
      <4>1. \A i \in 1..(k - 1) : i \in 1..n /\ i # k
        BY <1>1
      <4> QED
        BY <1>1, <4>1 DEF IsInjective
    <3>3. Len(kept[k - 1]) <= k - 1 /\ Len(kept[k - 1]) \in Nat
      BY <3>1, <1>5
    <3>4. kept[k] \in Seq(Id) /\ Len(kept[k]) <= k
      BY <1>1, <3>1, <3>3, AppendIs
    <3>5. Range(kept[k]) = Range(kept[k - 1]) \cup {s[k]}
      BY <3>1, AppendIs
    <3>6. IsInjective(s) => IsInjective(kept[k])
      BY <1>5, <3>1, <3>2, AppendIs
    <3>7. Range(kept[k]) = {s[i] : i \in 1..k} \cap ids
      BY <1>5, <2>2, <2>3, <3>5
    <3> QED
      BY <1>1, <3>4, <3>6, <3>7
  <2>4. CASE s[k] \notin ids
    <3>1. kept[k] = kept[k - 1]
      BY <1>3, <2>4
    <3>2. Range(kept[k]) = {s[i] : i \in 1..k} \cap ids
      BY <1>5, <2>2, <2>4, <3>1
    <3> QED
      BY <1>1, <1>5, <3>1, <3>2
  <2> QED
    BY <2>3, <2>4
<1>6. n \in Good
  <2> HIDE DEF Good
  <2>1. 0..n \subseteq Good
    BY <1>1, <1>4, <1>5, UpTo
  <2> QED
    BY <1>1, <2>1
<1>8. Range(s) = {s[i] : i \in 1..n}
  BY <1>1 DEF Range
<1> QED
  BY <1>6, <1>8 DEF n

\* Only keeps the elements in their order.
LEMMA OnlyKeepsOrder ==
    ASSUME NEW s \in Seq(Id), NEW ids, NEW x, NEW y, Abstract!Before(Only(s, ids), x, y)
    PROVE  Abstract!Before(s, x, y)
<1> PICK kept : Keeps(kept, s, ids) /\ Only(s, ids) = kept[Len(s)]
  BY OnlyUnfolds
<1> DEFINE n == Len(s)
           Pair(k, v, w) == \E i, j \in 1..k : i < j /\ s[i] = v /\ s[j] = w
           InOrder(k, q) == \A a, b \in DOMAIN q : a < b => Pair(k, q[a], q[b])
           Good == {k \in 0..n : /\ kept[k] \in Seq(Id)
                                 /\ \A a \in DOMAIN kept[k] : \E i \in 1..k : s[i] = kept[k][a]
                                 /\ InOrder(k, kept[k])}
<1>1. n \in Nat /\ DOMAIN s = 1..n /\ \A k \in 1..n : s[k] \in Id
  OBVIOUS
<1>2. /\ kept[0] = <<>>
      /\ \A k \in 1..n : kept[k] = IF s[k] \in ids THEN Append(kept[k - 1], s[k]) ELSE kept[k - 1]
  BY DEF Keeps
<1> HIDE DEF n
<1>3. 0 \in Good
  <2>1. <<>> \in Seq(Id) /\ DOMAIN <<>> = {} /\ 0 \in 0..n
    BY <1>1
  <2>2. kept[0] \in Seq(Id) /\ DOMAIN kept[0] = {}
    BY <1>2, <2>1
  <2> QED
    BY <2>1, <2>2
<1>4. ASSUME NEW k \in 1..n, k - 1 \in Good PROVE k \in Good
  <2> DEFINE p == kept[k - 1]
             q == kept[k]
  <2>1. /\ p \in Seq(Id) /\ \A a \in DOMAIN p : \E i \in 1..(k - 1) : s[i] = p[a]
        /\ InOrder(k - 1, p) /\ k \in 0..n
    BY <1>1, <1>4
  <2>2. \A i \in 1..(k - 1) : i \in 1..k /\ i < k
    BY <1>1
  <2>3. k \in 1..k
    BY <1>1
  <2>4. CASE s[k] \notin ids
    <3>1. q = p
      BY <1>2, <2>4
    <3>2. \A v, w : Pair(k - 1, v, w) => Pair(k, v, w)
      BY <2>2
    <3>3. InOrder(k, q)
      <4> HIDE DEF Pair
      <4> QED
        BY <2>1, <3>1, <3>2
    <3>4. \A a \in DOMAIN q : \E i \in 1..k : s[i] = q[a]
      BY <2>1, <2>2, <3>1
    <3>5. q \in Seq(Id)
      BY <2>1, <3>1
    <3> HIDE DEF Pair
    <3> QED
      BY <2>1, <3>3, <3>4, <3>5
  <2>5. CASE s[k] \in ids
    <3>1. q = Append(p, s[k]) /\ s[k] \in Id
      BY <1>1, <1>2, <2>5
    <3> DEFINE m == Len(p)
    <3> HIDE DEF p, q
    <3>2. /\ q \in Seq(Id) /\ m \in Nat /\ DOMAIN p = 1..m /\ DOMAIN q = 1..(m + 1)
          /\ \A a \in 1..m : q[a] = p[a]
          /\ q[m + 1] = s[k]
      BY <2>1, <3>1
    <3> HIDE DEF m
    <3>3. \A a \in 1..(m + 1) : a \in 1..m \/ a = m + 1
      BY <3>2
    <3>4. \A a \in DOMAIN q : \E i \in 1..k : s[i] = q[a]
      BY <2>1, <2>2, <2>3, <3>2, <3>3
    <3>5. InOrder(k, q)
      <4>1. ASSUME NEW a \in 1..m PROVE Pair(k, q[a], q[m + 1])
        <5>1. PICK i \in 1..(k - 1) : s[i] = p[a]
          BY <2>1, <3>2
        <5> QED
          BY <2>2, <2>3, <3>2, <5>1
      <4>2. ASSUME NEW a \in 1..m, NEW b \in 1..m, a < b PROVE Pair(k, q[a], q[b])
        <5>1. Pair(k - 1, p[a], p[b])
          <6> HIDE DEF Pair
          <6> QED
            BY <2>1, <3>2, <4>2
        <5> QED
          BY <2>2, <3>2, <5>1
      <4>3. ASSUME NEW a \in 1..(m + 1), NEW b \in 1..(m + 1), a < b
            PROVE  a \in 1..m /\ (b \in 1..m \/ b = m + 1)
        BY <3>2, <4>3
      <4> HIDE DEF Pair
      <4> QED
        BY <3>2, <4>1, <4>2, <4>3
    <3> QED
      <4> HIDE DEF Pair
      <4> QED
        BY <2>1, <3>2, <3>4, <3>5 DEF q
  <2> QED
    BY <2>4, <2>5
<1>5. n \in Good
  <2> HIDE DEF Good
  <2>1. 0..n \subseteq Good
    BY <1>1, <1>3, <1>4, UpTo
  <2> QED
    BY <1>1, <2>1
<1>6. PICK a \in DOMAIN kept[n], b \in DOMAIN kept[n] : a < b /\ kept[n][a] = x /\ kept[n][b] = y
  BY DEF Abstract!Before, n
<1>7. Pair(n, x, y)
  <2> HIDE DEF Pair
  <2> QED
    BY <1>5, <1>6
<1> QED
  BY <1>1, <1>7 DEF Abstract!Before

\* An element more, and the others in their order.
LEMMA InsertAtIs ==
    ASSUME NEW s \in Seq(Id), NEW x \in Id, NEW i \in 1..(Len(s) + 1)
    PROVE  /\ InsertAt(s, i, x) \in Seq(Id) /\ Len(InsertAt(s, i, x)) = Len(s) + 1
           /\ Range(InsertAt(s, i, x)) = Range(s) \cup {x}
           /\ IsInjective(s) /\ x \notin Range(s) => IsInjective(InsertAt(s, i, x))
           /\ \A k \in 1..(Len(s) + 1) :
                InsertAt(s, i, x)[k] = IF k < i THEN s[k] ELSE IF k = i THEN x ELSE s[k - 1]
<1> DEFINE a == InsertAt(s, i, x)
           n == Len(s)
           b == SubSeq(s, 1, i - 1)
           c == SubSeq(s, i, n)
           d == b \o <<x>>
<1>1. n \in Nat /\ DOMAIN s = 1..n /\ i \in 1..(n + 1)
  OBVIOUS
<1>b. /\ b \in Seq(Id) /\ Len(b) = i - 1 /\ \A k \in 1..(i - 1) : b[k] = s[k]
      /\ c \in Seq(Id) /\ Len(c) = n - i + 1 /\ \A k \in 1..(n - i + 1) : c[k] = s[i + k - 1]
  OBVIOUS
<1> HIDE DEF b, c, n
<1>d. /\ d \in Seq(Id) /\ Len(d) = i
      /\ \A k \in 1..i : d[k] = IF k < i THEN s[k] ELSE x
  BY <1>1, <1>b
<1> HIDE DEF d
<1>a. a = d \o c
  BY DEF InsertAt, b, c, d, n
<1>e. /\ a \in Seq(Id) /\ Len(a) = n + 1 /\ DOMAIN a = 1..(n + 1)
      /\ \A k \in 1..(n + 1) : a[k] = IF k <= i THEN d[k] ELSE c[k - i]
  <2> HIDE DEF a
  <2> QED
    BY <1>1, <1>a, <1>b, <1>d
<1> HIDE DEF a
<1>2. ASSUME NEW k \in 1..(n + 1)
      PROVE  a[k] = IF k < i THEN s[k] ELSE IF k = i THEN x ELSE s[k - 1]
  <2>1. CASE k <= i
    BY <1>1, <1>d, <1>e, <2>1
  <2>2. CASE k > i
    <3>1. k - i \in 1..(n - i + 1) /\ a[k] = c[k - i]
      BY <1>1, <1>e, <2>2
    <3>2. c[k - i] = s[i + (k - i) - 1] /\ i + (k - i) - 1 = k - 1
      BY <1>1, <1>b, <3>1
    <3> QED
      BY <1>1, <2>2, <3>1, <3>2
  <2> QED
    BY <1>1, <2>1, <2>2
<1>3. i \in 1..(n + 1)
  BY <1>1
<1>4. Range(a) = Range(s) \cup {x}
  <2>1. ASSUME NEW k \in 1..(n + 1) PROVE a[k] \in Range(s) \cup {x}
    <3>1. CASE k < i
      <4>1. k \in 1..n /\ a[k] = s[k]
        BY <1>1, <1>2, <3>1
      <4> QED
        BY <1>1, <4>1 DEF Range
    <3>2. CASE k = i
      BY <1>1, <1>e, <1>2, <3>2
    <3>3. CASE k > i
      <4>1. k - 1 \in 1..n /\ a[k] = s[k - 1]
        BY <1>1, <1>e, <1>2, <1>3, <3>3
      <4> QED
        BY <1>1, <1>e, <4>1 DEF Range
    <3> QED
      BY <1>1, <1>3, <3>1, <3>2, <3>3
  <2>2. ASSUME NEW k \in 1..n PROVE s[k] \in Range(a)
    <3>1. CASE k < i
      <4>1. k \in 1..(n + 1) /\ a[k] = s[k]
        BY <1>1, <1>e, <1>2, <3>1
      <4> QED
        BY <1>1, <1>e, <4>1 DEF Range
    <3>2. CASE k >= i
      <4>1. k + 1 \in 1..(n + 1) /\ a[k + 1] = s[k]
        BY <1>1, <1>e, <1>2, <1>3, <3>2
      <4> QED
        BY <1>1, <1>e, <4>1 DEF Range
    <3> QED
      BY <1>1, <1>3, <3>1, <3>2
  <2>3. x \in Range(a)
    BY <1>1, <1>e, <1>2, <1>3 DEF Range
  <2> QED
    BY <1>1, <1>e, <2>1, <2>2, <2>3 DEF Range
<1>5. ASSUME IsInjective(s), x \notin Range(s) PROVE IsInjective(a)
  <2> SUFFICES ASSUME NEW j \in 1..(n + 1), NEW k \in 1..(n + 1), a[j] = a[k] PROVE j = k
    BY <1>1, <1>e DEF IsInjective
  <2> DEFINE old(m) == IF m < i THEN m ELSE m - 1
  <2>1. ASSUME NEW m \in 1..(n + 1), m # i PROVE old(m) \in 1..n /\ a[m] = s[old(m)]
    BY <1>1, <1>e, <1>2, <1>3, <2>1
  <2>2. ASSUME NEW m \in 1..(n + 1), m # i PROVE a[m] # x
    <3> HIDE DEF old
    <3> QED
      BY <1>1, <1>5, <2>1, <2>2 DEF Range
  <2>3. a[i] = x
    BY <1>2, <1>3
  <2>4. CASE j = i \/ k = i
    BY <2>2, <2>3, <2>4
  <2>5. CASE j # i /\ k # i
    <3>1. old(j) = old(k)
      <4> HIDE DEF old
      <4> QED
        BY <1>1, <1>5, <2>1, <2>5 DEF IsInjective
    <3> QED
      BY <1>1, <1>3, <2>5, <3>1
  <2> QED
    BY <2>4, <2>5
<1> QED
  BY <1>e, <1>2, <1>4, <1>5 DEF a, n

\* An element less, and the others in their order.
LEMMA RemoveAtIs ==
    ASSUME NEW s \in Seq(Id), NEW i \in 1..Len(s), IsInjective(s)
    PROVE  /\ RemoveAt(s, i) \in Seq(Id) /\ Len(RemoveAt(s, i)) = Len(s) - 1
           /\ Range(RemoveAt(s, i)) = Range(s) \ {s[i]}
           /\ IsInjective(RemoveAt(s, i))
           /\ \A k \in 1..(Len(s) - 1) : RemoveAt(s, i)[k] = IF k < i THEN s[k] ELSE s[k + 1]
<1> DEFINE a == RemoveAt(s, i)
           n == Len(s)
           b == SubSeq(s, 1, i - 1)
           c == SubSeq(s, i + 1, n)
<1>3. n \in Nat /\ DOMAIN s = 1..n /\ i \in 1..n
  OBVIOUS
<1>b. /\ b \in Seq(Id) /\ Len(b) = i - 1 /\ \A k \in 1..(i - 1) : b[k] = s[k]
      /\ c \in Seq(Id) /\ Len(c) = n - i /\ \A k \in 1..(n - i) : c[k] = s[i + k]
  OBVIOUS
<1>a. a = b \o c
  BY DEF RemoveAt
<1> HIDE DEF a, b, c, n
<1>1. /\ a \in Seq(Id) /\ n \in Nat /\ DOMAIN s = 1..n
      /\ DOMAIN a = 1..(n - 1) /\ Len(a) = n - 1
  BY <1>3, <1>a, <1>b
<1>c. \A k \in 1..(n - 1) : a[k] = IF k <= i - 1 THEN b[k] ELSE c[k - (i - 1)]
  BY <1>3, <1>a, <1>b
<1>2. ASSUME NEW k \in 1..(n - 1) PROVE a[k] = IF k < i THEN s[k] ELSE s[k + 1]
  <2>1. CASE k < i
    <3>1. k \in 1..(i - 1) /\ k <= i - 1
      BY <1>3, <2>1
    <3> QED
      BY <1>b, <1>c, <2>1, <3>1
  <2>2. CASE k >= i
    <3>1. k - (i - 1) \in 1..(n - i) /\ a[k] = c[k - (i - 1)]
      BY <1>c, <1>3, <2>2
    <3>2. c[k - (i - 1)] = s[i + (k - (i - 1))] /\ i + (k - (i - 1)) = k + 1
      BY <1>3, <1>b, <3>1
    <3> QED
      BY <1>3, <2>2, <3>1, <3>2
  <2> QED
    BY <1>3, <2>1, <2>2
<1> DEFINE old(m) == IF m < i THEN m ELSE m + 1
<1>4. ASSUME NEW m \in 1..(n - 1) PROVE old(m) \in 1..n /\ old(m) # i /\ a[m] = s[old(m)]
  BY <1>1, <1>2, <1>3
<1>5. Range(a) = Range(s) \ {s[i]}
  <2>1. ASSUME NEW m \in 1..(n - 1) PROVE a[m] \in Range(s) \ {s[i]}
    <3> HIDE DEF old
    <3> QED
      BY <1>1, <1>3, <1>4 DEF Range, IsInjective
  <2>2. ASSUME NEW k \in 1..n, k # i PROVE s[k] \in Range(a)
    <3>1. CASE k < i
      <4>1. k \in 1..(n - 1) /\ a[k] = s[k]
        BY <1>1, <1>2, <1>3, <3>1
      <4> QED
        BY <1>1, <4>1 DEF Range
    <3>2. CASE k > i
      <4>1. k - 1 \in 1..(n - 1) /\ a[k - 1] = s[k]
        BY <1>1, <1>2, <1>3, <3>2
      <4> QED
        BY <1>1, <4>1 DEF Range
    <3> QED
      BY <1>1, <1>3, <2>2, <3>1, <3>2
  <2> QED
    BY <1>1, <2>1, <2>2 DEF Range
<1>6. IsInjective(a)
  <2> SUFFICES ASSUME NEW j \in 1..(n - 1), NEW k \in 1..(n - 1), a[j] = a[k] PROVE j = k
    BY <1>1 DEF IsInjective
  <2>1. old(j) = old(k)
    <3> HIDE DEF old
    <3> QED
      BY <1>1, <1>4 DEF IsInjective
  <2> QED
    BY <1>1, <1>3, <2>1
<1> QED
  BY <1>1, <1>2, <1>5, <1>6 DEF a, n

\* Two sequences with no element in common.
LEMMA ConcatIs ==
    ASSUME NEW s \in Seq(Id), NEW r \in Seq(Id)
    PROVE  /\ s \o r \in Seq(Id) /\ Range(s \o r) = Range(s) \cup Range(r)
           /\ IsInjective(s) /\ IsInjective(r) /\ Range(s) \cap Range(r) = {}
                => IsInjective(s \o r)
<1> DEFINE a == s \o r
           n == Len(s)
           m == Len(r)
<1>1. /\ a \in Seq(Id) /\ n \in Nat /\ m \in Nat
      /\ DOMAIN s = 1..n /\ DOMAIN r = 1..m /\ DOMAIN a = 1..(n + m)
      /\ \A k \in 1..(n + m) : a[k] = IF k <= n THEN s[k] ELSE r[k - n]
  OBVIOUS
<1> HIDE DEF a, n, m
<1>2. \A k \in 1..(n + m) :
        \/ k <= n /\ k \in 1..n /\ a[k] = s[k]
        \/ k > n /\ k - n \in 1..m /\ a[k] = r[k - n]
  BY <1>1
<1>3. Range(a) = Range(s) \cup Range(r)
  <2>1. \A k \in 1..n : k \in 1..(n + m) /\ a[k] = s[k]
    BY <1>1
  <2>2. ASSUME NEW k \in 1..m PROVE k + n \in 1..(n + m) /\ a[k + n] = r[k]
    <3>1. k + n \in 1..(n + m) /\ k + n > n /\ (k + n) - n = k
      BY <1>1
    <3> QED
      BY <1>1, <3>1
  <2>3. Range(a) = {a[k] : k \in 1..(n + m)} /\ Range(s) = {s[k] : k \in 1..n}
        /\ Range(r) = {r[k] : k \in 1..m}
    BY <1>1 DEF Range
  <2>4. ASSUME NEW x \in Range(a) PROVE x \in Range(s) \cup Range(r)
    BY <1>2, <2>3
  <2>5. ASSUME NEW x \in Range(s) \cup Range(r) PROVE x \in Range(a)
    BY <2>1, <2>2, <2>3
  <2> QED
    BY <2>4, <2>5
<1>4. ASSUME IsInjective(s), IsInjective(r), Range(s) \cap Range(r) = {} PROVE IsInjective(a)
  <2> SUFFICES ASSUME NEW j \in 1..(n + m), NEW k \in 1..(n + m), a[j] = a[k] PROVE j = k
    BY <1>1 DEF IsInjective
  <2>1. CASE j \in 1..n /\ k \in 1..n
    <3>1. a[j] = s[j] /\ a[k] = s[k]
      BY <1>1, <2>1
    <3> QED
      BY <1>1, <1>4, <2>1, <3>1 DEF IsInjective
  <2>2. CASE j - n \in 1..m /\ k - n \in 1..m
    <3>1. j > n /\ k > n
      BY <1>1, <2>2
    <3>2. r[j - n] = r[k - n]
      BY <1>1, <1>2, <3>1
    <3>3. j - n = k - n
      BY <1>1, <1>4, <2>2, <3>2 DEF IsInjective
    <3> QED
      BY <1>1, <3>3
  <2>3. ASSUME NEW p \in 1..n, NEW q \in 1..m PROVE s[p] # r[q]
    BY <1>1, <1>4 DEF Range
  <2> QED
    BY <1>1, <1>2, <2>1, <2>2, <2>3
<1> QED
  BY <1>1, <1>3, <1>4 DEF a

\* A sequence of distinct elements is as long as the set of its elements.
LEMMA LenIsCardinality ==
    ASSUME NEW s \in Seq(Id), IsInjective(s)
    PROVE  Len(s) = Cardinality(Range(s))
<1> DEFINE n == Len(s)
<1>1. n \in Nat /\ DOMAIN s = 1..n /\ s \in [1..n -> Range(s)]
  BY DEF Range
<1> HIDE DEF n
<1>2. s \in Bijection(1..n, Range(s))
  BY <1>1 DEF Bijection, Injection, Surjection, Range, IsInjective
<1>3. ExistsBijection(1..n, Range(s))
  BY <1>2 DEF ExistsBijection
<1>4. IsFiniteSet(1..n) /\ Cardinality(1..n) = n
  BY <1>1, FS_Interval
<1> QED
  BY <1>3, <1>4, FS_Bijection DEF n

\* q is s with n elements put in after the first i.
Spread(s, q, i, n) ==
  /\ i \in 0..Len(s) /\ n \in Nat /\ Len(q) = Len(s) + n
  /\ \A k \in 1..Len(s) : q[IF k <= i THEN k ELSE k + n] = s[k]

\* Only takes out what was put in, if nothing else is left out.
LEMMA OnlyOfSpread ==
    ASSUME NEW s \in Seq(Id), NEW q \in Seq(Id), IsInjective(q), NEW i, NEW n, Spread(s, q, i, n),
           NEW ids, Range(q) \cap ids = Range(s)
    PROVE  Only(q, ids) = s
<1> PICK kept : Keeps(kept, q, ids) /\ Only(q, ids) = kept[Len(q)]
  BY OnlyUnfolds
<1> DEFINE m == Len(s)
           g(k) == IF k <= i THEN k ELSE IF k <= i + n THEN i ELSE k - n
           Good == {k \in 0..(m + n) : /\ kept[k] \in Seq(Id) /\ Len(kept[k]) = g(k)
                                       /\ \A a \in 1..g(k) : kept[k][a] = s[a]}
<1>1. /\ m \in Nat /\ n \in Nat /\ i \in 0..m /\ Len(q) = m + n
      /\ DOMAIN s = 1..m /\ DOMAIN q = 1..(m + n)
      /\ \A k \in 1..(m + n) : q[k] \in Id
      /\ \A k \in 1..m : q[IF k <= i THEN k ELSE k + n] = s[k]
  BY DEF Spread
<1> HIDE DEF m
<1>2. /\ kept[0] = <<>>
      /\ \A k \in 1..(m + n) :
           kept[k] = IF q[k] \in ids THEN Append(kept[k - 1], q[k]) ELSE kept[k - 1]
  BY <1>1 DEF Keeps
<1>3. ASSUME NEW k \in 1..(m + n), ~(k <= i), k <= i + n PROVE q[k] \notin ids
  <2> SUFFICES ASSUME q[k] \in ids PROVE FALSE
    OBVIOUS
  <2>1. q[k] \in Range(s)
    BY <1>1 DEF Range
  <2>2. PICK a \in 1..m : s[a] = q[k]
    BY <1>1, <2>1 DEF Range
  <2>3. CASE a <= i
    <3>1. q[a] = q[k] /\ a \in 1..(m + n)
      BY <1>1, <2>2, <2>3
    <3>2. a = k
      BY <1>1, <3>1 DEF IsInjective
    <3> QED
      BY <1>3, <2>3, <3>2
  <2>4. CASE ~(a <= i)
    <3>1. q[a + n] = q[k] /\ a + n \in 1..(m + n)
      BY <1>1, <2>2, <2>4
    <3>2. a + n = k
      BY <1>1, <3>1 DEF IsInjective
    <3> QED
      BY <1>1, <1>3, <2>4, <3>2
  <2> QED
    BY <2>3, <2>4
<1>4. ASSUME NEW k \in 1..(m + n), k <= i \/ k > i + n
      PROVE  g(k) \in 1..m /\ q[k] = s[g(k)] /\ q[k] \in ids /\ g(k - 1) = g(k) - 1
  <2>1. g(k) \in 1..m /\ g(k - 1) = g(k) - 1
    BY <1>1, <1>4
  <2>2. k = IF g(k) <= i THEN g(k) ELSE g(k) + n
    BY <1>1, <1>4
  <2>3. q[k] = s[g(k)]
    <3> HIDE DEF g
    <3> QED
      BY <1>1, <2>1, <2>2
  <2>4. q[k] \in Range(s)
    <3> HIDE DEF g
    <3> QED
      BY <1>1, <2>1, <2>3 DEF Range
  <2> QED
    BY <2>1, <2>3, <2>4
<1>5. 0 \in Good
  <2>1. g(0) = 0 /\ 0 \in 0..(m + n)
    BY <1>1
  <2>2. kept[0] \in Seq(Id) /\ Len(kept[0]) = 0
    BY <1>2
  <2>3. \A a \in 1..g(0) : kept[0][a] = s[a]
    BY <2>1
  <2> QED
    BY <2>1, <2>2, <2>3
<1>6. ASSUME NEW k \in 1..(m + n), k - 1 \in Good PROVE k \in Good
  <2>1. k \in 0..(m + n)
    BY <1>1
  <2>2. CASE ~(k <= i) /\ k <= i + n
    <3>1. kept[k] = kept[k - 1]
      BY <1>2, <1>3, <2>2
    <3>2. g(k) = g(k - 1)
      BY <1>1, <2>2
    <3> HIDE DEF g
    <3> QED
      BY <1>6, <2>1, <3>1, <3>2
  <2>3. CASE k <= i \/ k > i + n
    <3> DEFINE p == kept[k - 1]
               r == kept[k]
    <3>1. /\ g(k) \in 1..m /\ q[k] = s[g(k)] /\ q[k] \in ids /\ g(k - 1) = g(k) - 1
          /\ q[k] \in Id
      BY <1>1, <1>4, <2>3
    <3>2. r = Append(p, q[k])
      BY <1>2, <3>1
    <3>3. p \in Seq(Id) /\ Len(p) = g(k) - 1 /\ \A a \in 1..(g(k) - 1) : p[a] = s[a]
      <4> HIDE DEF g
      <4> QED
        BY <1>6, <3>1
    <3> HIDE DEF g, p, r
    <3>4. r \in Seq(Id) /\ Len(r) = g(k) /\ r[g(k)] = q[k]
          /\ \A a \in 1..(g(k) - 1) : r[a] = p[a]
      BY <1>1, <3>1, <3>2, <3>3
    <3>5. \A a \in 1..g(k) : a \in 1..(g(k) - 1) \/ a = g(k)
      BY <1>1, <3>1
    <3>6. \A a \in 1..g(k) : r[a] = s[a]
      BY <3>1, <3>3, <3>4, <3>5
    <3> QED
      BY <2>1, <3>4, <3>6 DEF r
  <2> QED
    BY <1>1, <2>2, <2>3
<1>7. m + n \in Good
  <2> HIDE DEF Good
  <2>1. PICK l \in Nat : l = m + n
    BY <1>1
  <2>2. \A k \in 1..l : k - 1 \in Good => k \in Good
    BY <1>6, <2>1
  <2>3. 0..l \subseteq Good
    BY <1>5, <2>2, UpTo
  <2> QED
    BY <2>1, <2>3
<1>8. g(m + n) = m
  BY <1>1
<1> DEFINE r == kept[m + n]
<1>9. r \in Seq(Id) /\ Len(r) = m /\ \A a \in 1..m : r[a] = s[a]
  <2> HIDE DEF g
  <2> QED
    BY <1>7, <1>8
<1> HIDE DEF r
<1>10. r = s
  BY <1>9 DEF m
<1> QED
  BY <1>1, <1>10 DEF r

\* Only takes everything, and Only takes nothing.
LEMMA OnlyAll == ASSUME NEW s \in Seq(Id), IsInjective(s), NEW ids, Range(s) \subseteq ids
                 PROVE  Only(s, ids) = s
<1>1. Spread(s, s, 0, 0)
  BY DEF Spread
<1> QED
  BY <1>1, OnlyOfSpread

LEMMA OnlyNone == ASSUME NEW s \in Seq(Id), NEW ids, Range(s) \cap ids = {}
                  PROVE  Only(s, ids) = <<>>
<1>1. PICK q : q = Only(s, ids)
  OBVIOUS
<1>2. q \in Seq(Id) /\ Range(q) = {}
  BY <1>1, OnlyIs
<1>3. Len(q) = 0
  <2>1. DOMAIN q = 1..Len(q) /\ Len(q) \in Nat
    BY <1>2
  <2>2. 1 \notin DOMAIN q
    BY <1>2 DEF Range
  <2> QED
    BY <2>1, <2>2
<1> QED
  BY <1>1, <1>2, <1>3
-----------------------------------------------------------------------------
(* The order and its cached members, through every change of a progression *)

Cached(p) ==
  p \in [order : Seq(Id), members : SUBSET Id] /\ p.members = Range(p.order)

LEMMA RangeInId == ASSUME NEW s \in Seq(Id) PROVE Range(s) \subseteq Id
BY DEF Range

LEMMA AppendedIs ==
    ASSUME NEW p, Cached(p), NEW refs \in Seq(Id)
    PROVE  /\ Cached(Appended(p, refs))
           /\ Range(Appended(p, refs).order) = Range(p.order) \cup Range(refs)
           /\ IsInjective(p.order) /\ IsInjective(refs) /\ Range(p.order) \cap Range(refs) = {}
                => IsInjective(Appended(p, refs).order)
           /\ Spread(p.order, Appended(p, refs).order, Len(p.order), Len(refs))
<1>1. p.order \in Seq(Id) /\ p.members = Range(p.order)
  BY DEF Cached
<1> DEFINE q == p.order \o refs
<1>2. /\ q \in Seq(Id) /\ Range(q) = Range(p.order) \cup Range(refs) /\ Range(q) \subseteq Id
      /\ IsInjective(p.order) /\ IsInjective(refs) /\ Range(p.order) \cap Range(refs) = {}
           => IsInjective(q)
  BY <1>1, ConcatIs, RangeInId
<1>4. Spread(p.order, q, Len(p.order), Len(refs))
  <2> DEFINE s == p.order
  <2>1. s \in Seq(Id) /\ q = s \o refs
    BY <1>1
  <2> HIDE DEF s, q
  <2>2. /\ Len(s) \in Nat /\ Len(refs) \in Nat /\ Len(q) = Len(s) + Len(refs)
        /\ \A k \in 1..Len(s) : q[k] = s[k]
    BY <2>1
  <2>3. Spread(s, q, Len(s), Len(refs))
    BY <2>2 DEF Spread
  <2> QED
    BY <2>3 DEF s
<1> HIDE DEF q
<1>3. Appended(p, refs) = [order |-> q, members |-> Range(q)]
  BY <1>1, <1>2 DEF Appended, q
<1> QED
  BY <1>2, <1>3, <1>4 DEF Cached

LEMMA ExcludedIs ==
    ASSUME NEW p, Cached(p), NEW refs
    PROVE  /\ Cached(Excluded(p, refs))
           /\ Range(Excluded(p, refs).order) = Range(p.order) \ refs
           /\ IsInjective(p.order) => IsInjective(Excluded(p, refs).order)
<1>1. p.order \in Seq(Id) /\ p.members = Range(p.order)
  BY DEF Cached
<1> DEFINE q == Only(p.order, Range(p.order) \ refs)
<1>2. /\ q \in Seq(Id) /\ Range(q) = Range(p.order) \ refs /\ Range(q) \subseteq Id
      /\ IsInjective(p.order) => IsInjective(q)
  BY <1>1, OnlyIs, RangeInId
<1> HIDE DEF q
<1>3. Excluded(p, refs) = [order |-> q, members |-> Range(q)]
  BY DEF Excluded, Rebuilt, q
<1> QED
  BY <1>2, <1>3 DEF Cached

LEMMA ClearedIs == Cached(Cleared) /\ Range(Cleared.order) = {} /\ IsInjective(Cleared.order)
<1>1. <<>> \in Seq(Id) /\ Range(<<>>) = {} /\ IsInjective(<<>>)
  BY DEF Range, IsInjective
<1> QED
  BY <1>1 DEF Cached, Cleared, Rebuilt

\* deque.insert puts an element at an index of the longer deque.
LEMMA ClampedIs ==
    ASSUME NEW i \in Int, NEW n \in Nat
    PROVE  Clamped(i, n) + 1 \in 1..(n + 1)
BY DEF Clamped, Normal

\* The index goes on to point into what was put in at it.
LEMMA ClampedStays ==
    ASSUME NEW i \in Int, NEW n \in Nat, NEW k \in Nat
    PROVE  Clamped(i, n) \in 0..n /\ Clamped(i, n + k) \in Clamped(i, n)..(Clamped(i, n) + k)
BY DEF Clamped, Normal

\* One more is put in, at either end of the others or among them.
LEMMA SpreadGrows ==
    ASSUME NEW s \in Seq(Id), NEW q \in Seq(Id), NEW i, NEW n, Spread(s, q, i, n),
           NEW c \in i..(i + n), NEW x \in Id
    PROVE  Spread(s, InsertAt(q, c + 1, x), i, n + 1)
<1> DEFINE m == Len(s)
           r == InsertAt(q, c + 1, x)
<1>1. /\ m \in Nat /\ n \in Nat /\ i \in 0..m /\ Len(q) = m + n
      /\ \A k \in 1..m : q[IF k <= i THEN k ELSE k + n] = s[k]
  BY DEF Spread
<1> HIDE DEF m
<1>2. PICK j \in 1..(Len(q) + 1) : j = c + 1
  BY <1>1
<1>3. /\ Len(r) = m + n + 1
      /\ \A k \in 1..(m + n + 1) :
           r[k] = IF k < c + 1 THEN q[k] ELSE IF k = c + 1 THEN x ELSE q[k - 1]
  <2>1. /\ Len(InsertAt(q, j, x)) = Len(q) + 1
        /\ \A k \in 1..(Len(q) + 1) :
             InsertAt(q, j, x)[k] = IF k < j THEN q[k] ELSE IF k = j THEN x ELSE q[k - 1]
    BY InsertAtIs
  <2> QED
    BY <1>1, <1>2, <2>1
<1> HIDE DEF r
<1>4. ASSUME NEW k \in 1..m PROVE r[IF k <= i THEN k ELSE k + (n + 1)] = s[k]
  <2>1. CASE k <= i
    <3>1. k \in 1..(m + n + 1) /\ k < c + 1
      BY <1>1, <2>1
    <3> QED
      BY <1>1, <1>3, <2>1, <3>1
  <2>2. CASE ~(k <= i)
    <3>1. k + (n + 1) \in 1..(m + n + 1) /\ k + (n + 1) > c + 1 /\ k + (n + 1) - 1 = k + n
      BY <1>1, <2>2
    <3>2. r[k + (n + 1)] = q[k + n]
      BY <1>1, <1>3, <3>1
    <3> QED
      BY <1>1, <2>2, <3>2
  <2> QED
    BY <2>1, <2>2
<1> QED
  BY <1>1, <1>3, <1>4 DEF Spread, m, r

LEMMA InsertedIs ==
    ASSUME NEW p, Cached(p), NEW i \in Int, NEW refs \in Seq(Id)
    PROVE  /\ Cached(Inserted(p, i, refs))
           /\ Range(Inserted(p, i, refs).order) = Range(p.order) \cup Range(refs)
           /\ IsInjective(p.order) /\ IsInjective(refs) /\ Range(p.order) \cap Range(refs) = {}
                => IsInjective(Inserted(p, i, refs).order)
           /\ Spread(p.order, Inserted(p, i, refs).order, Clamped(i, Len(p.order)), Len(refs))
<1> DEFINE m == Len(refs)
           put(s, r) == InsertAt(s, Clamped(i, Len(s)) + 1, r)
           body(f) == [k \in 0..m |-> IF k = 0 THEN p.order ELSE put(f[k - 1], refs[m - k + 1])]
           ord == CHOOSE f : f = body(f)
           step == [k \in 1..m |-> [x \in Seq(Id) |-> put(x, refs[m - k + 1])]]
           distinct == IsInjective(p.order) /\ IsInjective(refs) /\ Range(p.order) \cap Range(refs) = {}
           last(k) == {refs[j] : j \in (m - k + 1)..m}
           Good == {k \in 0..m : /\ ord[k] \in Seq(Id)
                                 /\ Range(ord[k]) = Range(p.order) \cup last(k)
                                 /\ distinct => IsInjective(ord[k])
                                 /\ Spread(p.order, ord[k], Clamped(i, Len(p.order)), k)}
<1>1. p.order \in Seq(Id) /\ p.members = Range(p.order)
  BY DEF Cached
<1>2. m \in Nat /\ DOMAIN refs = 1..m /\ \A k \in 1..m : refs[k] \in Id
  OBVIOUS
<1>3. ASSUME NEW s \in Seq(Id), NEW r \in Id
      PROVE  /\ put(s, r) \in Seq(Id) /\ Range(put(s, r)) = Range(s) \cup {r}
             /\ IsInjective(s) /\ r \notin Range(s) => IsInjective(put(s, r))
  <2>1. Clamped(i, Len(s)) + 1 \in 1..(Len(s) + 1)
    <3>1. Len(s) \in Nat
      OBVIOUS
    <3> QED
      BY <3>1, ClampedIs
  <2> QED
    BY <2>1, InsertAtIs
<1> HIDE DEF Good, ord, step, body, put, m, distinct
<1>4. ASSUME NEW k \in 1..m PROVE m - k + 1 \in 1..m /\ refs[m - k + 1] \in Id
  BY <1>2
<1>5. ord = body(ord)
  <2>1. PICK S : S = Seq(Id)
    OBVIOUS
  <2>2. step \in [1..m -> [S -> S]]
    BY <1>3, <1>4, <2>1 DEF step
  <2>3. p.order \in S
    BY <1>1, <2>1
  <2>4. PICK f \in [0..m -> S] : f[0] = p.order /\ \A k \in 1..m : f[k] = step[k][f[k - 1]]
    <3>1. \E f : Solution(f, m, S, p.order, step)
      BY <1>2, <2>2, <2>3, Recursion
    <3> QED
      BY <3>1 DEF Solution
  <2>5. ASSUME NEW k \in 1..m PROVE f[k] = put(f[k - 1], refs[m - k + 1])
    <3>1. f[k - 1] \in S
      BY <1>2
    <3> QED
      BY <1>2, <2>1, <2>4, <3>1 DEF step
  <2>6. ASSUME NEW k \in 0..m
        PROVE  f[k] = IF k = 0 THEN p.order ELSE put(f[k - 1], refs[m - k + 1])
    <3>1. CASE k = 0
      BY <2>4, <3>1
    <3>2. CASE k # 0
      <4>1. k \in 1..m
        BY <1>2, <3>2
      <4> QED
        BY <2>5, <3>2, <4>1
    <3> QED
      BY <3>1, <3>2
  <2>7. f = body(f)
    BY <2>6, Zenon DEF body
  <2> QED
    BY <2>7 DEF ord
<1>6. ord[0] = p.order /\ \A k \in 1..m : ord[k] = put(ord[k - 1], refs[m - k + 1])
  <2>1. PICK f : f = body(f) /\ f = ord
    BY <1>5
  <2>2. \A k \in 0..m : f[k] = IF k = 0 THEN p.order ELSE put(f[k - 1], refs[m - k + 1])
    BY <2>1, Zenon DEF body
  <2>3. \A k \in 1..m : k \in 0..m /\ k # 0
    BY <1>2
  <2>4. 0 \in 0..m
    BY <1>2
  <2> QED
    BY <2>1, <2>2, <2>3, <2>4
<1>7. 0 \in Good
  <2>1. 0 \in 0..m /\ last(0) = {}
    BY <1>2
  <2>2. Spread(p.order, p.order, Clamped(i, Len(p.order)), 0)
    <3>1. Len(p.order) \in Nat /\ Clamped(i, Len(p.order)) \in 0..Len(p.order)
      <4>1. Len(p.order) \in Nat /\ 0 \in Nat
        BY <1>1
      <4> QED
        BY <4>1, ClampedStays
    <3> QED
      BY <3>1 DEF Spread
  <2> QED
    BY <1>1, <1>6, <2>1, <2>2 DEF Good, distinct
<1>8. ASSUME NEW k \in 1..m, k - 1 \in Good PROVE k \in Good
  <2> DEFINE r == refs[m - k + 1]
             prev == ord[k - 1]
  <2>1. prev \in Seq(Id) /\ r \in Id /\ ord[k] = put(prev, r)
    BY <1>4, <1>6, <1>8 DEF Good
  <2>2. last(k) = last(k - 1) \cup {r}
    <3>1. \A j \in (m - k + 1)..m : j = m - k + 1 \/ j \in (m - (k - 1) + 1)..m
      BY <1>2
    <3>2. \A j \in (m - (k - 1) + 1)..m : j \in (m - k + 1)..m
      BY <1>2
    <3>3. m - k + 1 \in (m - k + 1)..m
      BY <1>2
    <3> QED
      BY <3>1, <3>2, <3>3
  <2>3. distinct => r \notin Range(p.order) \cup last(k - 1)
    <3>1. \A j \in (m - (k - 1) + 1)..m : j \in 1..m /\ j # m - k + 1
      BY <1>2
    <3>2. IsInjective(refs) => r \notin last(k - 1)
      BY <1>2, <1>4, <3>1 DEF IsInjective
    <3>3. r \in Range(refs)
      BY <1>2, <1>4 DEF Range
    <3> QED
      BY <3>2, <3>3 DEF distinct
  <2>4. /\ put(prev, r) \in Seq(Id) /\ Range(put(prev, r)) = Range(prev) \cup {r}
        /\ IsInjective(prev) /\ r \notin Range(prev) => IsInjective(put(prev, r))
    <3> HIDE DEF r, prev
    <3> QED
      BY <1>3, <2>1
  <2>5. Range(prev) = Range(p.order) \cup last(k - 1) /\ (distinct => IsInjective(prev))
    BY <1>8 DEF Good
  <2>6. k \in 0..m
    BY <1>2
  <2>7. Spread(p.order, put(prev, r), Clamped(i, Len(p.order)), k)
    <3> DEFINE i0 == Clamped(i, Len(p.order))
               c == Clamped(i, Len(prev))
    <3>1. Spread(p.order, prev, i0, k - 1)
      BY <1>8 DEF Good
    <3>2. Len(p.order) \in Nat /\ k - 1 \in Nat /\ Len(prev) = Len(p.order) + (k - 1)
      BY <1>1, <1>2, <3>1 DEF Spread
    <3>3. c \in i0..(i0 + (k - 1))
      BY <3>2, ClampedStays
    <3> HIDE DEF prev, r, i0
    <3>4. Spread(p.order, InsertAt(prev, c + 1, r), i0, (k - 1) + 1)
      BY <1>1, <2>1, <3>1, <3>3, SpreadGrows
    <3>5. (k - 1) + 1 = k
      BY <1>2
    <3> QED
      BY <3>4, <3>5 DEF put, i0
  <2> HIDE DEF last, r, prev
  <2> QED
    BY <2>1, <2>2, <2>3, <2>4, <2>5, <2>6, <2>7 DEF Good
<1>9. m \in Good
  <2>1. 0..m \subseteq Good
    BY <1>2, <1>7, <1>8, UpTo
  <2> QED
    BY <1>2, <2>1
<1>10. last(m) = Range(refs)
  <2>1. (m - m + 1)..m = 1..m
    BY <1>2
  <2> QED
    BY <1>2, <2>1 DEF Range
<1>11. /\ Inserted(p, i, refs).order = ord[m]
       /\ Inserted(p, i, refs) = [order |-> ord[m], members |-> p.members \cup Range(refs)]
  BY DEF Inserted, ord, body, put, m
<1>12. Range(ord[m]) \subseteq Id
  BY <1>9, RangeInId DEF Good
<1> HIDE DEF last
<1> QED
  BY <1>1, <1>9, <1>10, <1>11, <1>12 DEF Cached, Good, distinct, m

\* An index of the code that is in range is an index of the order.
LEMMA NormalIs ==
    ASSUME NEW i \in Int, NEW n \in Nat, IsIndex(i, n)
    PROVE  Normal(i, n) \in 0..(n - 1) /\ Normal(i, n) + 1 \in 1..n
BY DEF IsIndex, Normal

\* q is s with one new element for the old one.
Replaces(s, old, q) ==
  \E rest \in Seq(Id) : \E k : Spread(rest, q, k, 1) /\ Range(rest) = Range(s) \ {old}

\* The progression q is p with a new element in the place of the old one.
Assigns(p, q, old, new) ==
  /\ Cached(q) /\ IsInjective(q.order)
  /\ Range(q.order) = (Range(p.order) \ {old}) \cup {new}
  /\ old \in Range(p.order) /\ Replaces(p.order, old, q.order)
  /\ Len(q.order) = Len(p.order)
  /\ \A j \in 1..Len(p.order) : q.order[j] \in {new, p.order[j]}

LEMMA AssignedIs ==
    ASSUME NEW p, Cached(p), NEW i \in Int, IsIndex(i, Len(p.order)), NEW refs, refs[1] \in Id,
           IsInjective(p.order), refs[1] \notin Range(p.order)
    PROVE  Assigns(p, Assigned(p, i, refs), p.order[Normal(i, Len(p.order)) + 1], refs[1])
<1> DEFINE s == p.order
           n == Len(s)
           k == Normal(i, n) + 1
           r == refs[1]
           q == ReplaceAt(s, k, r)
           old == s[k]
<1>1. s \in Seq(Id) /\ p.members = Range(s) /\ n \in Nat /\ DOMAIN s = 1..n
  BY DEF Cached
<1>2. k \in 1..n
  BY <1>1, NormalIs
<1>3. /\ q \in Seq(Id) /\ DOMAIN q = 1..n
      /\ \A j \in 1..n : q[j] = IF j = k THEN r ELSE s[j]
  <2> HIDE DEF s, k, r, n
  <2>1. r \in Id
    BY DEF r
  <2>2. q = [j \in 1..n |-> IF j = k THEN r ELSE s[j]]
    BY <1>1 DEF ReplaceAt
  <2>3. \A j \in 1..n : s[j] \in Id
    BY <1>1
  <2> HIDE DEF q
  <2>4. \A j \in 1..n : q[j] \in Id
    BY <2>1, <2>2, <2>3
  <2>5. q \in [1..n -> Id]
    BY <2>2, <2>4
  <2>6. q \in Seq(Id)
    BY <1>1, <2>5
  <2> QED
    BY <2>2, <2>6
<1>4. old = s[k] /\ r \notin Range(s) /\ r \in Id
  OBVIOUS
<1>9. Assigned(p, i, refs) =
        [order |-> q, members |-> (p.members \ ({old} \ Range(q))) \cup {r}]
  BY DEF Assigned
<1> HIDE DEF s, n, k, r, q, old
<1>5. Range(q) = (Range(s) \ {old}) \cup {r}
  <2>1. ASSUME NEW j \in 1..n PROVE q[j] \in (Range(s) \ {old}) \cup {r}
    BY <1>1, <1>2, <1>3, <1>4 DEF Range, IsInjective, s
  <2>2. ASSUME NEW j \in 1..n, s[j] # old PROVE s[j] \in Range(q)
    BY <1>1, <1>2, <1>3, <1>4, <2>2 DEF Range
  <2>3. r \in Range(q)
    BY <1>2, <1>3 DEF Range
  <2> QED
    BY <1>1, <1>3, <2>1, <2>2, <2>3 DEF Range
<1>6. IsInjective(q)
  BY <1>1, <1>2, <1>3, <1>4 DEF Range, IsInjective, s
<1>7. old \in Range(s)
  BY <1>1, <1>2, <1>4 DEF Range
<1>8. (p.members \ ({old} \ Range(q))) \cup {r} = Range(q)
  BY <1>1, <1>5
<1>10. Replaces(s, old, q)
  <2> DEFINE rest == RemoveAt(s, k)
  <2>1. /\ rest \in Seq(Id) /\ Len(rest) = n - 1 /\ Range(rest) = Range(s) \ {old}
        /\ \A j \in 1..(n - 1) : rest[j] = IF j < k THEN s[j] ELSE s[j + 1]
    BY <1>1, <1>2, <1>4, RemoveAtIs DEF n, s
  <2> HIDE DEF rest
  <2>2. ASSUME NEW j \in 1..(n - 1) PROVE q[IF j <= k - 1 THEN j ELSE j + 1] = rest[j]
    BY <1>1, <1>2, <1>3, <2>1
  <2>3. Len(q) = n
    BY <1>1, <1>3
  <2>4. Spread(rest, q, k - 1, 1)
    BY <1>1, <1>2, <2>1, <2>2, <2>3 DEF Spread
  <2> QED
    BY <2>1, <2>4 DEF Replaces
<1>11. Len(q) = n /\ \A j \in 1..n : q[j] \in {r, s[j]}
  BY <1>1, <1>3
<1> QED
  BY <1>3, <1>4, <1>5, <1>6, <1>7, <1>8, <1>9, <1>10, <1>11, RangeInId
     DEF Assigns, Cached, s, r, n, k, old

\* A reordering keeps the elements, each of them once.
LEMMA MovedIs ==
    ASSUME NEW p, Cached(p), IsInjective(p.order), NEW i \in Int, NEW j \in Int,
           IsIndex(i, Len(p.order)), -Len(p.order) <= j, j <= Len(p.order)
    PROVE  /\ Cached(Moved(p, i, j)) /\ IsInjective(Moved(p, i, j).order)
           /\ Range(Moved(p, i, j).order) = Range(p.order)
<1> DEFINE s == p.order
           n == Len(s)
           from == Normal(i, n)
           to == Normal(j, n)
           b == RemoveAt(s, from + 1)
           k == (IF from < to THEN to - 1 ELSE to) + 1
           x == s[from + 1]
           q == InsertAt(b, k, x)
<1>1. s \in Seq(Id) /\ p.members = Range(s) /\ n \in Nat /\ DOMAIN s = 1..n
  BY DEF Cached
<1>2. from \in 0..(n - 1) /\ from + 1 \in 1..n
  BY <1>1, NormalIs
<1>3. to \in 0..n
  BY <1>1 DEF Normal
<1>4. Moved(p, i, j) = [p EXCEPT !.order = q]
  BY DEF Moved
<1>5. p = [order |-> s, members |-> Range(s)]
  BY <1>1 DEF Cached
<1>6. IsInjective(s)
  OBVIOUS
<1> HIDE DEF n, from, to
<1>7. k \in 1..n
  BY <1>1, <1>2, <1>3
<1>8. x \in Id /\ x \in Range(s)
  <2> HIDE DEF s
  <2> QED
    BY <1>1, <1>2 DEF Range
<1>9. b \in Seq(Id) /\ Len(b) = n - 1 /\ Range(b) = Range(s) \ {x} /\ IsInjective(b)
  <2> HIDE DEF s
  <2> QED
    BY <1>1, <1>2, <1>6, RemoveAtIs DEF n
<1> HIDE DEF s, b, k, x
<1>10. q \in Seq(Id) /\ Range(q) = Range(b) \cup {x} /\ IsInjective(q)
  BY <1>1, <1>7, <1>8, <1>9, InsertAtIs
<1> HIDE DEF q
<1>11. Range(q) = Range(s) /\ Range(q) \subseteq Id
  BY <1>8, <1>9, <1>10, RangeInId
<1>12. Moved(p, i, j) = [order |-> q, members |-> Range(q)]
  BY <1>4, <1>5, <1>11
<1> QED
  BY <1>10, <1>11, <1>12 DEF Cached, s

LEMMA SwappedIs ==
    ASSUME NEW p, Cached(p), IsInjective(p.order), NEW i \in Int, NEW j \in Int,
           IsIndex(i, Len(p.order)), IsIndex(j, Len(p.order))
    PROVE  /\ Cached(Swapped(p, i, j)) /\ IsInjective(Swapped(p, i, j).order)
           /\ Range(Swapped(p, i, j).order) = Range(p.order)
<1> DEFINE s == p.order
           n == Len(s)
           a == Normal(i, n) + 1
           b == Normal(j, n) + 1
           q == [s EXCEPT ![a] = s[b], ![b] = s[a]]
<1>1. s \in Seq(Id) /\ p.members = Range(s) /\ n \in Nat /\ DOMAIN s = 1..n /\ IsInjective(s)
  BY DEF Cached
<1>2. a \in 1..n /\ b \in 1..n
  BY <1>1, NormalIs
<1>4. Swapped(p, i, j) = [p EXCEPT !.order = q]
  BY DEF Swapped
<1>5. p = [order |-> s, members |-> Range(s)]
  BY <1>1 DEF Cached
<1> HIDE DEF s, n, a, b
<1>6. /\ DOMAIN q = 1..n
      /\ \A k \in 1..n : q[k] = IF k = b THEN s[a] ELSE IF k = a THEN s[b] ELSE s[k]
  BY <1>1, <1>2
<1>7. q \in Seq(Id)
  <2>1. q \in [1..n -> Id]
    BY <1>1, <1>2
  <2> HIDE DEF q
  <2> QED
    BY <1>1, <2>1
<1> HIDE DEF q
<1>8. IsInjective(q)
  BY <1>1, <1>2, <1>6 DEF IsInjective
<1>9. Range(q) = Range(s)
  <2>1. \A k \in 1..n : q[k] \in Range(s)
    BY <1>1, <1>2, <1>6 DEF Range
  <2>2. ASSUME NEW k \in 1..n PROVE s[k] \in Range(q)
    <3>1. CASE k = a
      BY <1>2, <1>6, <3>1 DEF Range
    <3>2. CASE k = b
      BY <1>2, <1>6, <3>2 DEF Range
    <3>3. CASE k # a /\ k # b
      BY <1>6, <3>3 DEF Range
    <3> QED
      BY <3>1, <3>2, <3>3
  <2> QED
    BY <1>1, <1>6, <2>1, <2>2 DEF Range
<1>10. Range(q) \subseteq Id
  BY <1>7, RangeInId
<1>11. Swapped(p, i, j) = [order |-> q, members |-> Range(q)]
  BY <1>4, <1>5, <1>9
<1> QED
  BY <1>7, <1>8, <1>9, <1>10, <1>11 DEF Cached, s

LEMMA ReversedIs ==
    ASSUME NEW p, Cached(p), IsInjective(p.order)
    PROVE  /\ Cached(Reversed(p)) /\ IsInjective(Reversed(p).order)
           /\ Range(Reversed(p).order) = Range(p.order)
<1> DEFINE s == p.order
           n == Len(s)
           q == Reverse(s)
<1>1. s \in Seq(Id) /\ p.members = Range(s) /\ n \in Nat /\ DOMAIN s = 1..n /\ IsInjective(s)
  BY DEF Cached
<1>2. Reversed(p) = [p EXCEPT !.order = q]
  BY DEF Reversed
<1>3. p = [order |-> s, members |-> Range(s)]
  BY <1>1 DEF Cached
<1>4. q = [k \in 1..n |-> s[n - k + 1]]
  BY DEF Reverse
<1> HIDE DEF s, n, q
<1>5. \A k \in 1..n : n - k + 1 \in 1..n /\ n - (n - k + 1) + 1 = k
  BY <1>1
<1>6. DOMAIN q = 1..n /\ \A k \in 1..n : q[k] = s[n - k + 1]
  BY <1>4
<1>7. q \in Seq(Id)
  <2>1. \A k \in 1..n : q[k] \in Id
    BY <1>1, <1>5, <1>6
  <2>2. q \in [1..n -> Id]
    BY <1>4, <2>1
  <2> QED
    BY <1>1, <2>2
<1>8. IsInjective(q)
  <2> SUFFICES ASSUME NEW j \in 1..n, NEW k \in 1..n, q[j] = q[k] PROVE j = k
    BY <1>6 DEF IsInjective
  <2>1. n - j + 1 = n - k + 1
    BY <1>1, <1>5, <1>6 DEF IsInjective
  <2> QED
    BY <1>1, <2>1
<1>9. Range(q) = Range(s)
  <2>1. \A k \in 1..n : q[k] \in Range(s)
    BY <1>1, <1>5, <1>6 DEF Range
  <2>2. \A k \in 1..n : s[k] \in Range(q)
    BY <1>1, <1>5, <1>6 DEF Range
  <2> QED
    BY <1>1, <1>6, <2>1, <2>2 DEF Range
<1>10. Range(q) \subseteq Id
  BY <1>7, RangeInId
<1>11. Reversed(p) = [order |-> q, members |-> Range(q)]
  BY <1>2, <1>3, <1>9
<1> QED
  BY <1>7, <1>8, <1>9, <1>10, <1>11 DEF Cached, s
-----------------------------------------------------------------------------
(* The order and the dict *)

\* What the callers of a pile have to see to.  The elements of include and insert are
\* distinct, as the keys of the dict that the code makes of them; __setitem__ puts one
\* element at an index.  Without an owner's lock no method is called that changes the
\* pile and does not take the pile's lock; remove and exclude take it after their look.
CarefulCall(m, c) ==
  /\ c.op \in {"include", "insert"} => IsInjective(c.refs)
  /\ c.op = "set_at" => Len(c.refs) = 1
  /\ ~m.owner => c.op \in Synchronized \cup Checked \cup Unlocked

\* Every pile is locked safely, and called with care.
UsedWithCare == LockIsSafe /\ \A m \in Modes : \A c \in m.calls : CarefulCall(m, c)

DataType ==
  /\ collections \subseteq Id
  /\ Cached(progression)
  /\ call \in [Thread -> Call]
  /\ seen \in [Thread -> Seq(Id)]
  /\ result \in [Thread -> Results]

\* No id is ever listed twice.
Distinct == IsInjective(progression.order)

Listed == Range(progression.order)

\* Whether a pop can have left ids without elements, or elements without a place.
Ghostless == "slice" \notin spoiled
Lossless == "list" \notin spoiled

\* The order lists what is in the dict, except for what pops have spoiled.
Coherent ==
  /\ Ghostless => Listed \subseteq collections
  /\ Lossless => collections \subseteq Listed

\* A call and the place in it go together.
CallFits(t) ==
  LET c == call[t]
  IN /\ at[t] = "check" => c.op \in Checked
     /\ at[t] \in {"copy", "scan"} => c.op \in Unlocked
     /\ at[t] \in {"lock", "make", "read", "take"} => c.op \in Synchronized
     /\ at[t] \notin {"idle", "check"} => c.op \notin Checked
     /\ at[t] \in {"order", "dict"} /\ c.op = "pop_slice" => "slice" \in spoiled
     /\ c.op \in {"include", "insert"} => IsInjective(c.refs)
     /\ c.op = "set_at" => Len(c.refs) = 1
     /\ ~mode.owner /\ Inside(t) => mine[t] # NoLock

\* Before the order is changed, the order and the dict agree on all but what a clear
\* took out of the dict, and what the method has read is still so.
OrderReady(t) ==
  LET c == call[t]
      ids == seen[t]
  IN \/ c.op = "include" /\ Coherent /\ IsInjective(ids) /\ Range(ids) = Range(c.refs) \ Listed
     \/ /\ c.op \in {"update", "append"} /\ Coherent
        /\ c.refs # <<>> /\ Head(c.refs) \notin collections
        /\ ids = IF Head(c.refs) \in Listed THEN <<>> ELSE <<Head(c.refs)>>
     \/ c.op = "insert" /\ Coherent /\ Range(c.refs) \cap Listed = {}
     \/ c.op \in {"pop_at", "pop"} /\ Coherent /\ (Lossless => Poppable(ids))
     \/ c.op = "pop_slice" /\ Coherent
     \/ /\ c.op = "set_at" /\ Coherent /\ Valid(c.at) /\ ids = <<IdAt(c.at)>>
        /\ c.refs[1] \notin Listed
     \/ c.op = "clear" /\ collections = {}

\* What is in the order and not yet in the dict is at one place of the order.
InOneBlock ==
  spoiled = {} =>
    \E i, n : Spread(Only(progression.order, collections), progression.order, i, n)

\* The order lists the new ids, and differs from the dict by no more.
Adds(new, listed) ==
  /\ new \subseteq listed
  /\ Ghostless => listed \subseteq collections \cup new
  /\ Lossless => collections \subseteq listed

\* The order lists the old ids no more, and differs from the dict by no more.
Drops(old, listed) ==
  /\ Ghostless => listed \subseteq collections \ Range(old)
  /\ Lossless => Poppable(old) /\ collections \subseteq listed \cup Range(old)

\* The order lists the new ids in place of an old one.
Exchanges(old, new, listed) ==
  /\ new \subseteq listed
  /\ \E x : old = {x}
  /\ Ghostless => old \subseteq collections /\ listed \subseteq (collections \ old) \cup new
  /\ Lossless => collections \subseteq listed \cup old

\* Before the dict is changed, it differs from the order by what the method put in the
\* order or took from it.
DictReady(t) ==
  LET c == call[t]
      ids == seen[t]
  IN \/ c.op \in {"include", "insert"} /\ InOneBlock /\ Adds(Range(c.refs), Listed)
     \/ /\ c.op \in {"update", "append"} /\ InOneBlock
        /\ c.refs # <<>> /\ Adds({Head(c.refs)}, Listed)
     \/ c.op \in {"pop_at", "pop"} /\ Drops(ids, Listed)
     \/ c.op = "pop_slice" /\ Coherent
     \/ c.op = "set_at" /\ InOneBlock /\ Exchanges(Range(ids), Range(c.refs), Listed)
     \/ c.op = "get_at" /\ Coherent /\ (Ghostless => Range(ids) \subseteq collections)
     \/ c.op = "clear"

Ready(t) ==
  /\ at[t] = "look" => Coherent
  /\ at[t] = "order" => OrderReady(t)
  /\ at[t] = "dict" => DictReady(t)

\* Nobody is inside a method: the order and the dict agree.
Quiet == (\A t \in Thread : ~Inside(t)) => Coherent

PInv ==
  /\ IInv /\ DataType /\ Distinct /\ Quiet
  /\ \A t \in Thread : CallFits(t) /\ Ready(t)

LEMMA NoCallIs == NoCall \in Call /\ NoCall.op = "values" /\ NoCall.refs = <<>>
BY DEF NoCall, Call, Op

LEMMA InitPInv == UsedWithCare /\ Init => PInv
<1> SUFFICES ASSUME UsedWithCare, Init PROVE PInv
  OBVIOUS
<1>1. IInv
  BY InitIInv DEF UsedWithCare
<1>2. Cached(progression) /\ Distinct /\ Coherent
  BY ClearedIs DEF Init, Distinct, Coherent, Listed
<1>3. DataType
  <2>1. <<>> \in Seq(Id)
    OBVIOUS
  <2> QED
    BY <1>2, <2>1, NoCallIs DEF Init, DataType, Results
<1>4. \A t \in Thread : CallFits(t) /\ Ready(t)
  BY NoCallIs DEF Init, CallFits, Ready, Inside
<1> QED
  BY <1>1, <1>2, <1>3, <1>4 DEF PInv, Quiet

\* One thread at a time is inside a method; under an owner's lock, in a call.
LEMMA OneInside ==
  ASSUME IInv, \A t \in Thread : CallFits(t), NEW t \in Thread, NEW u \in Thread, u # t
  PROVE  /\ mode.owner /\ Busy(t) => ~Busy(u)
         /\ Inside(t) => ~Inside(u)
<1>1. mode.owner /\ Busy(t) => ~Busy(u)
  BY DEF IInv, OwnerAlone
<1>2. ASSUME Inside(t), Inside(u) PROVE FALSE
  <2>1. ~mode.owner
    BY <1>1, <1>2 DEF Inside, Busy
  <2>2. mine[t] # NoLock /\ mine[u] # NoLock
    BY <1>2, <2>1 DEF CallFits
  <2>3. holder[mine[t]] = t /\ holder[mine[u]] = u /\ mine[t] = lock /\ mine[u] = lock
    BY <1>2, <2>2 DEF IInv, LocksMatch
  <2> QED
    BY <2>3
<1> QED
  BY <1>1, <1>2

\* What the other threads need while one of them changes the pile.
LEMMA OthersFit ==
  ASSUME PInv, NEW u \in Thread,
         mode' = mode, at'[u] = at[u], call'[u] = call[u], mine'[u] = mine[u],
         spoiled \subseteq spoiled'
  PROVE  CallFits(u)'
<1>1. CallFits(u) /\ (Inside(u)' <=> Inside(u))
  BY DEF PInv, Inside
<1> QED
  BY <1>1 DEF CallFits

LEMMA OthersNotReady ==
  ASSUME PInv, NEW t \in Thread, Inside(t), NEW u \in Thread, u # t, at'[u] = at[u]
  PROVE  Ready(u)' /\ ~Inside(u)'
<1>1. ~Inside(u)
  BY OneInside DEF PInv
<1> QED
  BY <1>1 DEF Ready, Inside

\* A method that goes on.
LEMMA GotoPInv ==
  ASSUME PInv, NEW t \in Thread, Inside(t), NEW place \in {"order", "dict"},
         NEW ids \in Seq(Id), Goto(t, place, ids), collections' \subseteq Id,
         Cached(progression'), IsInjective(progression'.order),
         spoiled \subseteq spoiled', call[t].op = "pop_slice" => "slice" \in spoiled', Ready(t)'
  PROVE  PInv'
<1>1. IInv'
  BY GotoIInv DEF PInv, Inside
<1>2. DataType' /\ Distinct'
  BY DEF PInv, DataType, Distinct, Goto
<1>3. at'[t] = place /\ \A u \in Thread : u # t => at'[u] = at[u]
  BY DEF PInv, IInv, LockType, Goto
<1>4. mode' = mode /\ call' = call /\ mine' = mine
  BY DEF Goto
<1>5. Inside(t)'
  BY <1>3 DEF Inside
<1>6. CallFits(t)'
  <2>1. CallFits(t)
    BY DEF PInv
  <2> QED
    BY <1>3, <1>4, <1>5, <2>1 DEF CallFits, Inside
<1>7. \A u \in Thread : u # t => CallFits(u)' /\ Ready(u)'
  BY <1>3, <1>4, OthersFit, OthersNotReady DEF Inside
<1> QED
  BY <1>1, <1>2, <1>5, <1>6, <1>7 DEF PInv, Quiet

\* A method that ends with the order and the dict in step.
LEMMA EndPInv ==
  ASSUME PInv, NEW t \in Thread, Inside(t), NEW how \in Results, End(t, how),
         collections' \subseteq Id, Cached(progression'), IsInjective(progression'.order),
         spoiled' = spoiled, Coherent'
  PROVE  PInv'
<1>1. IInv'
  BY EndIInv DEF PInv, Inside
<1>2. DataType' /\ Distinct'
  <2>1. <<>> \in Seq(Id)
    OBVIOUS
  <2>2. call' \in [Thread -> Call] /\ seen' \in [Thread -> Seq(Id)]
        /\ result' \in [Thread -> Results]
    BY <2>1, NoCallIs DEF PInv, DataType, End
  <2> QED
    BY <2>2 DEF DataType, Distinct
<1>3. /\ at'[t] = "idle" /\ call'[t] = NoCall /\ mode' = mode
      /\ \A u \in Thread : u # t => at'[u] = at[u] /\ call'[u] = call[u] /\ mine'[u] = mine[u]
  BY DEF PInv, DataType, IInv, LockType, End
<1>4. CallFits(t)' /\ Ready(t)'
  BY <1>3, NoCallIs DEF CallFits, Ready, Inside
<1>5. \A u \in Thread : u # t => CallFits(u)' /\ Ready(u)'
  BY <1>3, OthersFit, OthersNotReady DEF Inside
<1> QED
  BY <1>1, <1>2, <1>4, <1>5 DEF PInv, Quiet

\* A step before the body of the method.
LEMMA OutsidePInv ==
  ASSUME PInv, IInv', NEW t \in Thread, ~Inside(t), ~Inside(t)',
         UNCHANGED <<mode, shared, spoiled>>, CallFits(t)', DataType',
         \A u \in Thread : u # t => /\ at'[u] = at[u] /\ call'[u] = call[u]
                                    /\ mine'[u] = mine[u] /\ seen'[u] = seen[u]
  PROVE  PInv'
<1>1. ASSUME NEW u \in Thread PROVE Inside(u)' <=> Inside(u)
  BY DEF Inside
<1>2. Distinct' /\ Quiet'
  BY <1>1 DEF PInv, Distinct, Quiet, Coherent, Listed, Ghostless, Lossless, shared
<1>3. \A u \in Thread : u # t => CallFits(u)'
  BY OthersFit
<1>4. ASSUME NEW u \in Thread, u # t PROVE Ready(u)'
  <2>1. Ready(u)
    BY DEF PInv
  <2>2. /\ at'[u] = at[u] /\ call'[u] = call[u] /\ seen'[u] = seen[u]
        /\ UNCHANGED <<collections, progression, spoiled>>
    BY <1>4 DEF shared
  <2> QED
    BY <2>1, <2>2 DEF Ready, OrderReady, DictReady, InOneBlock, Adds, Drops, Exchanges, Coherent,
                      Listed, Ghostless, Lossless, Poppable, Valid, IdAt
<1>5. Ready(t)'
  BY DEF Ready, Inside
<1> QED
  BY <1>2, <1>3, <1>4, <1>5 DEF PInv

LEMMA BeginPInv ==
  ASSUME UsedWithCare, PInv, NEW t \in Thread, NEW c \in mode.calls, Begin(t, c),
         UNCHANGED spoiled
  PROVE  PInv'
<1>1. c \in Call /\ CarefulCall(mode, c)
  BY PileAssumption DEF PInv, IInv, LockType, UsedWithCare
<1>2. IInv'
  BY BeginIInv DEF PInv
<1> DEFINE start == IF c.op \in Synchronized THEN "lock" ELSE IF c.op \in Checked THEN "check"
                    ELSE IF c.op \in Unlocked THEN "copy" ELSE "look"
<1>3. /\ call'[t] = c /\ mode' = mode /\ mine' = mine /\ seen' = seen /\ at[t] = "idle"
      /\ \A u \in Thread : u # t => at'[u] = at[u] /\ call'[u] = call[u]
      /\ at'[t] = start
      /\ UNCHANGED shared
  <2>1. /\ call' = [call EXCEPT ![t] = c] /\ UNCHANGED <<mode, mine, seen>> /\ at[t] = "idle"
        /\ UNCHANGED shared
    BY DEF Begin, shared
  <2>2. at' = [at EXCEPT ![t] = start]
    <3>1. CASE c.op \in Synchronized
      BY <3>1 DEF Begin, Synchronized, Checked, Unlocked
    <3>2. CASE c.op \notin Synchronized /\ c.op \in Checked
      BY <3>2 DEF Begin, Checked, Unlocked
    <3>3. CASE c.op \notin Synchronized /\ c.op \notin Checked
      BY <3>3 DEF Begin
    <3> QED
      BY <3>1, <3>2, <3>3
  <2>3. call \in [Thread -> Call] /\ at \in [Thread -> Places]
    BY DEF PInv, DataType, IInv, LockType
  <2> QED
    BY <2>1, <2>2, <2>3
<1>4. DataType' /\ Distinct'
  BY <1>1 DEF PInv, DataType, Distinct, Begin, shared, Results
<1>5. CallFits(t)'
  BY <1>1, <1>3 DEF CallFits, CarefulCall, Inside, Synchronized, Checked, Unlocked
<1>6. ASSUME NEW u \in Thread, u # t PROVE CallFits(u)' /\ Ready(u)' /\ (Inside(u)' <=> Inside(u))
  <2>1. CallFits(u) /\ Ready(u) /\ (Inside(u)' <=> Inside(u))
    BY <1>3, <1>6 DEF PInv, Inside
  <2>2. /\ at'[u] = at[u] /\ call'[u] = call[u] /\ seen'[u] = seen[u] /\ mine'[u] = mine[u]
        /\ mode' = mode /\ UNCHANGED <<collections, progression, spoiled>>
    BY <1>3, <1>6 DEF shared
  <2>3. CallFits(u)'
    BY <2>1, <2>2 DEF CallFits, Inside
  <2>4. Ready(u)'
    BY <2>1, <2>2 DEF Ready, OrderReady, DictReady, InOneBlock, Adds, Drops, Exchanges, Coherent,
                      Listed, Ghostless, Lossless, Poppable, Valid, IdAt
  <2> QED
    BY <2>1, <2>3, <2>4
<1>7. CASE ~Inside(t)'
  <2>1. Ready(t)'
    BY <1>7 DEF Ready, Inside
  <2>2. ~Inside(t)
    BY <1>3 DEF Inside
  <2>3. Quiet'
    BY <1>3, <1>6, <1>7, <2>2 DEF PInv, Quiet, Coherent, Listed, Ghostless, Lossless, shared
  <2> QED
    BY <1>2, <1>4, <1>5, <1>6, <2>1, <2>3 DEF PInv
<1>8. CASE Inside(t)'
  <2>1. mode.owner /\ at'[t] = "look" /\ c.op # "iterate"
    BY <1>1, <1>3, <1>8 DEF CarefulCall, Inside, Unlocked
  <2>2. outer = NoThread
    BY <2>1 DEF Begin
  <2>3. \A u \in Thread : ~Busy(u)
    BY <2>1, <2>2, PileAssumption DEF PInv, IInv, OwnerAlone
  <2>4. Coherent'
    BY <1>3, <2>3 DEF PInv, Quiet, Inside, Busy, Coherent, Listed, Ghostless, Lossless, shared
  <2>5. Ready(t)'
    BY <2>1, <2>4 DEF Ready
  <2> QED
    BY <1>2, <1>4, <1>5, <1>6, <1>8, <2>5 DEF PInv, Quiet
<1> QED
  BY <1>7, <1>8

\* A call outside the body of a method that ends.
LEMMA EndOutsidePInv ==
  ASSUME PInv, NEW t \in Thread, at[t] \in {"check", "copy", "scan"},
         UNCHANGED <<shared, spoiled>>,
         NEW how \in Results, End(t, how)
  PROVE  PInv'
<1>1. IInv' /\ ~Inside(t)
  BY EndIInv DEF PInv, Inside
<1>2. <<>> \in Seq(Id)
  OBVIOUS
<1>3. DataType'
  BY <1>2, NoCallIs DEF PInv, DataType, End, shared
<1>4. /\ at'[t] = "idle" /\ call'[t] = NoCall /\ mode' = mode
      /\ \A u \in Thread : u # t => /\ at'[u] = at[u] /\ call'[u] = call[u]
                                    /\ mine'[u] = mine[u] /\ seen'[u] = seen[u]
  BY DEF PInv, DataType, IInv, LockType, End
<1>5. CallFits(t)' /\ ~Inside(t)'
  BY <1>4, NoCallIs DEF CallFits, Inside
<1> QED
  BY <1>1, <1>3, <1>4, <1>5, OutsidePInv

LEMMA CheckPInv == ASSUME PInv, NEW t \in Thread, Check(t), UNCHANGED spoiled PROVE PInv'
<1> DEFINE refs == call[t].refs
           present == Only(refs, progression.members)
           how == IF call[t].op = "remove" THEN "missing" ELSE "ok"
<1>1. /\ IInv' /\ at[t] = "check" /\ ~Inside(t) /\ UNCHANGED shared
      /\ call[t] \in Call /\ refs \in Seq(Id)
  BY CheckIInv DEF PInv, DataType, Check, Inside, Call
<1>2. CASE End(t, how)
  <2>1. how \in Results
    BY DEF Results
  <2> QED
    BY <1>1, <1>2, <2>1, EndOutsidePInv
<1>3. CASE /\ at' = [at EXCEPT ![t] = "lock"]
           /\ call' = [call EXCEPT ![t].op = "pop", ![t].refs = present]
           /\ UNCHANGED <<mode, locks, mine, seen, result>>
  <2>1. present \in Seq(Id)
    BY <1>1, OnlyIs
  <2> HIDE DEF present, refs
  <2>3. /\ at'[t] = "lock" /\ call'[t] = [call[t] EXCEPT !.op = "pop", !.refs = present]
        /\ \A u \in Thread : u # t => /\ at'[u] = at[u] /\ call'[u] = call[u]
                                      /\ mine'[u] = mine[u] /\ seen'[u] = seen[u]
    BY <1>3 DEF PInv, DataType, IInv, LockType
  <2>4. call'[t] \in Call /\ call'[t].op = "pop" /\ call'[t].refs = present
    BY <1>1, <2>1, <2>3 DEF Call, Op
  <2>5. call' \in [Thread -> Call]
    BY <1>3, <2>3, <2>4 DEF PInv, DataType
  <2>6. DataType'
    BY <1>1, <1>3, <2>5 DEF PInv, DataType, shared
  <2>7. ~Inside(t)' /\ mode' = mode
    BY <1>3, <2>3 DEF Inside
  <2>8. CallFits(t)'
    BY <2>3, <2>4, <2>7 DEF CallFits, Synchronized, Checked
  <2> QED
    BY <1>1, <1>3, <2>3, <2>6, <2>7, <2>8, OutsidePInv
<1> QED
  BY <1>2, <1>3 DEF Check

\* The reads that hold no lock change nothing.
LEMMA CopyPInv == ASSUME PInv, NEW t \in Thread, Copy(t), UNCHANGED spoiled PROVE PInv'
<1> DEFINE c == call[t]
           ids == IF c.op = "item_at" THEN <<IdAt(c.at)>> ELSE progression.order
<1>1. /\ IInv' /\ at[t] = "copy" /\ ~Inside(t) /\ UNCHANGED shared
      /\ c \in Call /\ c.at \in Int /\ progression.order \in Seq(Id) /\ c.op \in Unlocked
  BY CopyIInv DEF PInv, DataType, CallFits, Cached, Copy, Inside, Call
<1>2. CASE End(t, "missing")
  BY <1>1, <1>2, EndOutsidePInv DEF Results
<1>3. CASE /\ c.op = "item_at" => Valid(c.at)
           /\ call' = [call EXCEPT ![t].refs = progression.order]
           /\ at' = [at EXCEPT ![t] = "scan"]
           /\ seen' = [seen EXCEPT ![t] = ids]
           /\ UNCHANGED <<mode, locks, mine, result, count>>
  <2>1. ids \in Seq(Id)
    <3>1. CASE c.op = "item_at"
      <4>1. PICK n, k : n = Len(progression.order) /\ k = Normal(c.at, n) + 1
        OBVIOUS
      <4>2. k \in 1..n
        BY <1>1, <1>3, <3>1, <4>1, NormalIs DEF Valid
      <4>3. IdAt(c.at) \in Id
        BY <1>1, <4>1, <4>2 DEF IdAt
      <4>4. PICK x : x = IdAt(c.at)
        OBVIOUS
      <4> QED
        BY <3>1, <4>3, <4>4
    <3> QED
      BY <1>1, <3>1
  <2> HIDE DEF ids
  <2>2. /\ at'[t] = "scan" /\ call'[t] = [c EXCEPT !.refs = progression.order]
        /\ \A u \in Thread : u # t => /\ at'[u] = at[u] /\ call'[u] = call[u]
                                      /\ mine'[u] = mine[u] /\ seen'[u] = seen[u]
    BY <1>3 DEF PInv, DataType, IInv, LockType
  <2>3. call'[t] \in Call /\ call'[t].op = c.op
    BY <1>1, <2>2 DEF Call
  <2>4. DataType'
    BY <1>1, <1>3, <2>1, <2>2, <2>3 DEF PInv, DataType, shared
  <2>5. ~Inside(t)' /\ CallFits(t)'
    BY <1>1, <2>2, <2>3 DEF Inside, CallFits, Unlocked, Checked
  <2> QED
    BY <1>1, <1>3, <2>2, <2>4, <2>5, OutsidePInv
<1> QED
  BY <1>2, <1>3 DEF Copy

LEMMA ScanPInv == ASSUME PInv, NEW t \in Thread, Scan(t), UNCHANGED spoiled PROVE PInv'
<1>1. IInv' /\ at[t] = "scan" /\ ~Inside(t) /\ UNCHANGED shared /\ seen[t] \in Seq(Id)
  BY ScanIInv DEF PInv, DataType, Scan, Inside
<1>2. ASSUME NEW how \in {"ok", "torn"}, End(t, how) PROVE PInv'
  BY <1>1, <1>2, EndOutsidePInv DEF Results
<1>3. CASE seen[t] # <<>> /\ Goto(t, "scan", Tail(seen[t]))
  <2>1. Tail(seen[t]) \in Seq(Id)
    BY <1>1, <1>3
  <2>2. /\ at' = at /\ mode' = mode /\ call' = call /\ mine' = mine
        /\ \A u \in Thread : u # t => seen'[u] = seen[u]
    BY <1>1, <1>3 DEF PInv, DataType, IInv, LockType, Goto
  <2>3. DataType'
    BY <1>1, <1>3, <2>1 DEF PInv, DataType, Goto, shared
  <2>4. CallFits(t)' /\ ~Inside(t)'
    <3>1. CallFits(t)
      BY DEF PInv
    <3> QED
      BY <1>1, <2>2, <3>1 DEF CallFits, Inside
  <2> QED
    BY <1>1, <2>2, <2>3, <2>4, OutsidePInv
<1> QED
  BY <1>2, <1>3 DEF Scan

LEMMA LockStepsPInv ==
  ASSUME PInv, NEW t \in Thread, CheckLock(t) \/ MakeLock(t) \/ ReadLock(t), UNCHANGED spoiled
  PROVE  PInv'
<1>1. IInv' /\ at[t] \in {"lock", "make", "read"}
  BY CheckLockIInv, MakeLockIInv, ReadLockIInv DEF PInv, CheckLock, MakeLock, ReadLock
<1>2. /\ at'[t] \in {"make", "read", "take"} /\ call' = call /\ mode' = mode /\ result' = result
      /\ UNCHANGED shared
      /\ \A u \in Thread : u # t => at'[u] = at[u] /\ mine'[u] = mine[u] /\ seen'[u] = seen[u]
  BY DEF PInv, DataType, IInv, LockType, CheckLock, MakeLock, ReadLock, Goto
<1>3. seen' \in [Thread -> Seq(Id)]
  BY DEF PInv, DataType, CheckLock, MakeLock, ReadLock, Goto
<1>4. DataType'
  BY <1>2, <1>3 DEF PInv, DataType, shared
<1>5. CallFits(t)' /\ ~Inside(t) /\ ~Inside(t)'
  <2>1. CallFits(t)
    BY DEF PInv
  <2> QED
    BY <1>1, <1>2, <2>1 DEF CallFits, Inside, Poppable, shared
<1> QED
  BY <1>1, <1>2, <1>4, <1>5, OutsidePInv

LEMMA TakePInv == ASSUME PInv, NEW t \in Thread, Take(t), UNCHANGED spoiled PROVE PInv'
<1>1. IInv' /\ at[t] = "take" /\ mine[t] # NoLock /\ holder[mine[t]] = NoThread /\ mine[t] = lock
  BY TakeIInv DEF PInv, Take, IInv, LocksMatch
<1>2. /\ at'[t] = "look" /\ UNCHANGED <<mode, shared, call, mine, seen, result>>
      /\ \A u \in Thread : u # t => at'[u] = at[u]
  BY DEF PInv, IInv, LockType, Take
<1>3. \A u \in Thread : ~Inside(u)
  <2> SUFFICES ASSUME NEW u \in Thread, Inside(u) PROVE FALSE
    OBVIOUS
  <2>1. u # t /\ Busy(u) /\ Busy(t)
    BY <1>1 DEF Inside, Busy
  <2>2. ~mode.owner
    BY <2>1, OneInside DEF PInv
  <2>3. mine[u] # NoLock
    BY <2>2 DEF PInv, CallFits
  <2>4. mine[u] = lock /\ holder[mine[u]] = u
    BY <2>3 DEF PInv, IInv, LocksMatch
  <2> QED
    BY <1>1, <2>4, PileAssumption
<1>4. DataType' /\ Distinct' /\ Coherent'
  BY <1>2, <1>3 DEF PInv, DataType, Distinct, Quiet, Coherent, Listed, Ghostless, Lossless, shared
<1>5. CallFits(t)'
  <2>1. CallFits(t)
    BY DEF PInv
  <2> QED
    BY <1>1, <1>2, <2>1 DEF CallFits, Inside, Poppable, shared
<1>6. ASSUME NEW u \in Thread, u # t PROVE CallFits(u)' /\ Ready(u)'
  <2>1. CallFits(u)'
    BY <1>1, <1>2, <1>6, OthersFit
  <2>2. ~Inside(u)'
    BY <1>2, <1>3, <1>6 DEF Inside
  <2> QED
    BY <2>1, <2>2 DEF Ready, Inside
<1>7. Ready(t)'
  BY <1>2, <1>4 DEF Ready
<1> QED
  BY <1>1, <1>4, <1>5, <1>6, <1>7 DEF PInv, Quiet

\* What a thread in the body of a method can take for granted.
LEMMA InBody ==
  ASSUME PInv, NEW t \in Thread, Inside(t)
  PROVE  /\ call[t] \in Call /\ call[t].refs \in Seq(Id) /\ call[t].at \in Int /\ call[t].to \in Int
         /\ call[t].op \in Op
         /\ seen[t] \in Seq(Id)
         /\ Cached(progression) /\ progression.order \in Seq(Id)
         /\ progression.members = Range(progression.order)
         /\ IsInjective(progression.order) /\ collections \subseteq Id
         /\ CallFits(t) /\ Ready(t)
<1>1. call[t] \in Call /\ seen[t] \in Seq(Id)
  BY DEF PInv, DataType
<1>2. Cached(progression) /\ IsInjective(progression.order) /\ collections \subseteq Id
  BY DEF PInv, DataType, Distinct
<1> QED
  BY <1>1, <1>2 DEF PInv, Call, Cached

LEMMA GotoIs ==
  ASSUME PInv, NEW t \in Thread, NEW place, NEW ids, Goto(t, place, ids)
  PROVE  at'[t] = place /\ seen'[t] = ids /\ call' = call
BY DEF PInv, IInv, LockType, DataType, Goto

\* A call that ends without a change of the pile, in the look at it.
LEMMA EndLookPInv ==
  ASSUME PInv, NEW t \in Thread, at[t] = "look", UNCHANGED <<shared, spoiled>>,
         NEW how \in Results, End(t, how)
  PROVE  PInv'
<1>1. Inside(t)
  BY DEF Inside
<1>2. Coherent'
  BY DEF PInv, Ready, shared, Coherent, Listed, Ghostless, Lossless
<1>3. /\ collections' \subseteq Id /\ Cached(progression') /\ IsInjective(progression'.order)
      /\ spoiled' = spoiled
  BY <1>1, InBody DEF shared
<1> QED
  BY <1>1, <1>2, <1>3, EndPInv

LEMMA LookIncludePInv ==
  ASSUME PInv, NEW t \in Thread, at[t] = "look", LookInclude(t), UNCHANGED spoiled
  PROVE  PInv'
<1>1. Inside(t)
  BY DEF Inside
<1> DEFINE refs == call[t].refs
           ids == Only(refs, Range(refs) \ progression.members)
<1>2. refs \in Seq(Id) /\ progression.members = Range(progression.order) /\ Coherent
      /\ IsInjective(refs) /\ call[t].op = "include"
  BY <1>1, InBody DEF PInv, Ready, CallFits, LookInclude
<1>3. /\ ids \in Seq(Id) /\ IsInjective(ids) /\ Range(ids) = Range(refs) \ Listed
  BY <1>2, OnlyIs DEF Listed
<1>4. Goto(t, "order", ids) /\ UNCHANGED shared
  BY DEF LookInclude
<1> HIDE DEF ids
<1>5. at'[t] = "order" /\ seen'[t] = ids /\ call' = call
  BY <1>4, GotoIs
<1>6. Ready(t)'
  BY <1>2, <1>3, <1>4, <1>5 DEF Ready, OrderReady, Coherent, Listed, Ghostless, Lossless, shared
<1> QED
  BY <1>1, <1>2, <1>3, <1>4, <1>6, InBody, GotoPInv DEF shared

LEMMA LookUpdatePInv ==
  ASSUME PInv, NEW t \in Thread, at[t] = "look", LookUpdate(t), UNCHANGED spoiled
  PROVE  PInv'
<1>1. Inside(t)
  BY DEF Inside
<1> DEFINE refs == call[t].refs
           r == Head(refs)
<1>2. /\ refs \in Seq(Id) /\ progression.members = Range(progression.order) /\ Coherent
      /\ call[t].op \in {"update", "append"} /\ UNCHANGED shared /\ call[t] \in Call
  BY <1>1, InBody DEF PInv, Ready, LookUpdate
<1>3. CASE refs = <<>> /\ End(t, "ok")
  BY <1>2, <1>3, EndLookPInv DEF Results
<1>4. CASE /\ refs # <<>>
           /\ call' = [call EXCEPT ![t].refs = Tail(@)]
           /\ UNCHANGED <<mode, locks, at, mine, seen, result, count>>
  <2>1. IInv'
    BY <1>1, <1>4, StayIInv DEF PInv, locks
  <2>2. Tail(refs) \in Seq(Id)
    BY <1>2, <1>4
  <2>3. call'[t] = [call[t] EXCEPT !.refs = Tail(refs)]
    BY <1>4 DEF PInv, DataType
  <2>4. call'[t] \in Call /\ call'[t].op = call[t].op
    BY <1>2, <2>2, <2>3 DEF Call
  <2>5. DataType' /\ Distinct' /\ Coherent'
    <3>1. call' \in [Thread -> Call]
      BY <1>4, <2>3, <2>4 DEF PInv, DataType
    <3> QED
      BY <1>2, <1>4, <3>1 DEF PInv, DataType, Distinct, Coherent, Listed, Ghostless, Lossless, shared
  <2>6. CallFits(t)'
    <3>1. CallFits(t)
      BY DEF PInv
    <3> QED
      BY <1>2, <1>4, <2>4, <3>1 DEF CallFits, Inside, locks
  <2>7. \A u \in Thread : u # t => CallFits(u)' /\ Ready(u)'
    <3>1. \A u \in Thread : u # t => call'[u] = call[u]
      BY <1>4 DEF PInv, DataType
    <3> QED
      BY <1>1, <1>4, <3>1, OthersFit, OthersNotReady DEF Inside
  <2>8. Ready(t)'
    BY <1>4, <2>5 DEF Ready
  <2> QED
    BY <2>1, <2>5, <2>6, <2>7, <2>8 DEF PInv, Quiet
<1>5. CASE /\ refs # <<>> /\ r \notin collections
           /\ Goto(t, "order", IF r \in progression.members THEN <<>> ELSE <<r>>)
  <2>1. PICK ids : ids = IF r \in progression.members THEN <<>> ELSE <<r>>
    OBVIOUS
  <2>2. Goto(t, "order", ids) /\ r \in Id
    BY <1>2, <1>5, <2>1
  <2>3. ids \in Seq(Id)
    BY <2>1, <2>2
  <2>4. at'[t] = "order" /\ seen'[t] = ids /\ call' = call
    BY <2>2, GotoIs
  <2>5. Ready(t)'
    BY <1>2, <1>5, <2>1, <2>4
       DEF Ready, OrderReady, Coherent, Listed, Ghostless, Lossless, shared
  <2> HIDE DEF r
  <2> QED
    BY <1>1, <1>2, <2>2, <2>3, <2>5, InBody, GotoPInv DEF shared
<1> QED
  BY <1>3, <1>4, <1>5 DEF LookUpdate

LEMMA PresentIs ==
  ASSUME PInv, NEW t \in Thread, at[t] = "look", ~Present(t)
  PROVE  Range(call[t].refs) \cap Listed = {}
BY InBody DEF Inside, Present, Listed, Range

LEMMA LookInsertPInv ==
  ASSUME PInv, NEW t \in Thread, at[t] = "look", LookInsert(t), UNCHANGED spoiled
  PROVE  PInv'
<1>1. Inside(t) /\ Coherent
  BY DEF Inside, PInv, Ready
<1>2. CASE Present(t)
  BY <1>2, EndLookPInv DEF LookInsert, Results
<1>3. CASE ~Present(t)
  <2>1. Goto(t, "order", <<>>) /\ <<>> \in Seq(Id) /\ call[t].op = "insert" /\ UNCHANGED shared
    BY <1>3 DEF LookInsert
  <2>2. at'[t] = "order" /\ call' = call
    BY <2>1, GotoIs
  <2>3. Ready(t)'
    BY <1>1, <1>3, <2>1, <2>2, PresentIs
       DEF Ready, OrderReady, Coherent, Listed, Ghostless, Lossless, shared
  <2> QED
    BY <1>1, <2>1, <2>3, InBody, GotoPInv DEF shared
<1> QED
  BY <1>2, <1>3

\* The id at an index of the order.
LEMMA IdAtIs ==
  ASSUME PInv, NEW t \in Thread, at[t] = "look", NEW i \in Int, Valid(i)
  PROVE  IdAt(i) \in Id /\ IdAt(i) \in Listed
<1> DEFINE s == progression.order
           k == Normal(i, Len(s)) + 1
<1>1. s \in Seq(Id) /\ Len(s) \in Nat /\ Range(s) = Listed
  BY InBody DEF Inside, Listed
<1>2. k \in 1..Len(s)
  BY <1>1, NormalIs DEF Valid
<1> HIDE DEF s, k
<1>3. s[k] \in Id /\ s[k] \in Range(s)
  BY <1>1, <1>2 DEF Range
<1> QED
  BY <1>1, <1>3 DEF IdAt, s, k

LEMMA SliceIs ==
  ASSUME progression.order \in Seq(Id), NEW i \in Int, NEW j \in Int, Slice(i, j) # <<>>
  PROVE  Slice(i, j) \in Seq(Id)
<1>1. PICK s \in Seq(Id) : s = progression.order
  OBVIOUS
<1>2. PICK n, lo, hi : n = Len(s) /\ lo = Clamped(i, n) /\ hi = Clamped(j, n)
  OBVIOUS
<1>3. n \in Nat /\ lo \in Nat /\ hi \in 0..n
  <2>1. n \in Nat
    BY <1>1, <1>2
  <2>2. 0 \in Nat
    OBVIOUS
  <2>3. Clamped(i, n) \in 0..n /\ Clamped(j, n) \in 0..n
    BY <2>1, <2>2, ClampedStays
  <2> QED
    BY <1>2, <2>1, <2>3
<1>4. SubSeq(s, lo + 1, hi) \in Seq(Id)
  <2>1. \A k \in (lo + 1)..hi : s[k] \in Id
    BY <1>1, <1>2, <1>3
  <2> QED
    BY <1>1, <1>2, <1>3, <2>1
<1> QED
  BY <1>1, <1>2, <1>4 DEF Slice

LEMMA LookPopPInv ==
  ASSUME PInv, NEW t \in Thread, at[t] = "look", LookPop(t),
         spoiled' = spoiled \cup Spoils(call[t])
  PROVE  PInv'
<1> DEFINE c == call[t]
<1>1. Inside(t) /\ Coherent
  BY DEF Inside, PInv, Ready
<1>2. /\ c.op \in {"pop_at", "pop_slice", "pop"} /\ c.refs \in Seq(Id) /\ c.at \in Int /\ c.to \in Int
      /\ UNCHANGED shared /\ progression.order \in Seq(Id)
  BY <1>1, InBody DEF LookPop
<1>3. PICK ids : ids = Popped(c)
  OBVIOUS
<1>4. ids \in Seq(Id) /\ (c.op = "pop_at" => Poppable(ids))
  <2>1. CASE c.op = "pop"
    BY <1>2, <1>3, <2>1 DEF Popped
  <2>2. CASE c.op = "pop_at" /\ Valid(c.at)
    <3>1. ids = <<IdAt(c.at)>>
      BY <1>3, <2>2 DEF Popped
    <3>2. PICK x : x = IdAt(c.at)
      OBVIOUS
    <3>3. x \in Id /\ ids = <<x>>
      BY <1>2, <2>2, <3>1, <3>2, IdAtIs
    <3> QED
      BY <3>3 DEF Poppable
  <2>3. CASE c.op = "pop_at" /\ ~Valid(c.at)
    BY <1>3, <2>3 DEF Popped, Poppable
  <2>4. CASE c.op = "pop_slice" /\ ids # <<>>
    BY <1>2, <1>3, <2>4, SliceIs DEF Popped
  <2>5. CASE ids = <<>>
    BY <2>5 DEF Poppable
  <2> QED
    BY <1>2, <2>1, <2>2, <2>3, <2>4, <2>5
<1>5. CASE ids = <<>>
  <2>1. Spoils(c) = {} /\ End(t, "missing")
    BY <1>2, <1>3, <1>5 DEF LookPop, Spoils, Poppable
  <2>2. spoiled' = spoiled
    BY <2>1
  <2> QED
    BY <1>2, <2>1, <2>2, EndLookPInv DEF Results
<1>6. CASE ids # <<>>
  <2>1. Goto(t, "order", ids)
    BY <1>3, <1>6 DEF LookPop
  <2>2. at'[t] = "order" /\ seen'[t] = ids /\ call' = call
    BY <2>1, GotoIs
  <2>3. /\ spoiled \subseteq spoiled'
        /\ c.op = "pop_slice" => "slice" \in spoiled'
        /\ c.op = "pop" => "list" \in spoiled' \/ Poppable(ids)
    BY <1>2, <1>3, <1>6 DEF Spoils
  <2>4. Coherent'
    BY <1>1, <1>2, <2>3 DEF Coherent, Listed, Ghostless, Lossless, shared
  <2>5. Lossless' /\ c.op \in {"pop_at", "pop"} => Poppable(ids)'
    BY <1>2, <1>4, <2>3 DEF Lossless, Poppable, shared
  <2>6. Ready(t)'
    BY <1>2, <2>2, <2>4, <2>5 DEF Ready, OrderReady
  <2> QED
    BY <1>1, <1>2, <1>4, <2>1, <2>2, <2>3, <2>6, InBody, GotoPInv DEF shared
<1> QED
  BY <1>5, <1>6

LEMMA LookSetPInv ==
  ASSUME PInv, NEW t \in Thread, at[t] = "look", LookSet(t), UNCHANGED spoiled
  PROVE  PInv'
<1>1. Inside(t) /\ Coherent
  BY DEF Inside, PInv, Ready
<1>2. /\ call[t].op = "set_at" /\ call[t].refs \in Seq(Id) /\ call[t].at \in Int
      /\ UNCHANGED shared /\ Len(call[t].refs) = 1
  BY <1>1, InBody DEF CallFits, LookSet
<1>3. CASE Present(t)
  BY <1>2, <1>3, EndLookPInv DEF LookSet, Results
<1>4. CASE ~Present(t) /\ ~Valid(call[t].at)
  BY <1>2, <1>4, EndLookPInv DEF LookSet, Results
<1>5. CASE ~Present(t) /\ Valid(call[t].at)
  <2>1. PICK x : x = IdAt(call[t].at)
    OBVIOUS
  <2>2. x \in Id /\ Goto(t, "order", <<x>>)
    BY <1>2, <1>5, <2>1, IdAtIs DEF LookSet
  <2>3. at'[t] = "order" /\ seen'[t] = <<x>> /\ call' = call
    BY <2>2, GotoIs
  <2>4. call[t].refs[1] \notin Listed
    <3>1. call[t].refs[1] \in Range(call[t].refs)
      BY <1>2 DEF Range
    <3> QED
      BY <1>5, <3>1, PresentIs
  <2>5. Ready(t)'
    BY <1>1, <1>2, <1>5, <2>1, <2>3, <2>4
       DEF Ready, OrderReady, Coherent, Listed, Ghostless, Lossless, Valid, IdAt, shared
  <2>6. <<x>> \in Seq(Id)
    BY <2>2
  <2> QED
    BY <1>1, <1>2, <2>2, <2>5, <2>6, InBody, GotoPInv DEF shared
<1> QED
  BY <1>3, <1>4, <1>5

LEMMA LookReadPInv ==
  ASSUME PInv, NEW t \in Thread, at[t] = "look", LookRead(t), UNCHANGED spoiled
  PROVE  PInv'
<1>1. Inside(t) /\ Coherent
  BY DEF Inside, PInv, Ready
<1>2. /\ call[t].op = "get_at" /\ call[t].at \in Int /\ UNCHANGED shared
  BY <1>1, InBody DEF LookRead
<1>3. ASSUME NEW ids \in Seq(Id), Range(ids) \subseteq Listed, Goto(t, "dict", ids)
      PROVE  PInv'
  <2>1. at'[t] = "dict" /\ seen'[t] = ids /\ call' = call
    BY <1>3, GotoIs
  <2>2. Ready(t)'
    <3>1. Coherent' /\ (Ghostless' => Range(ids) \subseteq collections')
      BY <1>1, <1>2, <1>3 DEF Coherent, Listed, Ghostless, Lossless, shared
    <3>2. DictReady(t)'
      <4>1. call'[t].op = "get_at" /\ seen'[t] = ids
        BY <1>2, <2>1
      <4> QED
        BY <3>1, <4>1 DEF DictReady
    <3> QED
      BY <2>1, <3>2 DEF Ready
  <2> QED
    BY <1>1, <1>2, <1>3, <2>2, InBody, GotoPInv DEF shared
<1>5. CASE Valid(call[t].at)
  <2>1. PICK x : x = IdAt(call[t].at)
    OBVIOUS
  <2>2. x \in Id /\ x \in Listed /\ Goto(t, "dict", <<x>>)
    BY <1>2, <1>5, <2>1, IdAtIs DEF LookRead
  <2>3. <<x>> \in Seq(Id) /\ Range(<<x>>) \subseteq Listed
    BY <2>2 DEF Range
  <2> QED
    BY <1>3, <2>2, <2>3
<1>6. CASE ~Valid(call[t].at)
  BY <1>2, <1>6, EndLookPInv DEF LookRead, Results
<1> QED
  BY <1>5, <1>6

LEMMA LookClearPInv ==
  ASSUME PInv, NEW t \in Thread, at[t] = "look", LookClear(t), UNCHANGED spoiled
  PROVE  PInv'
<1>1. Inside(t)
  BY DEF Inside
<1>2. Goto(t, "dict", <<>>) /\ <<>> \in Seq(Id) /\ UNCHANGED shared /\ call[t].op = "clear"
  BY DEF LookClear
<1>3. at'[t] = "dict" /\ call' = call
  BY <1>2, GotoIs
<1>4. Ready(t)'
  BY <1>2, <1>3 DEF Ready, DictReady
<1> QED
  BY <1>1, <1>2, <1>4, InBody, GotoPInv DEF shared

LEMMA LookReorderPInv ==
  ASSUME PInv, NEW t \in Thread, at[t] = "look", LookReorder(t), UNCHANGED spoiled
  PROVE  PInv'
<1> DEFINE c == call[t]
           n == Len(progression.order)
<1>1. Inside(t) /\ Coherent
  BY DEF Inside, PInv, Ready
<1>2. /\ Cached(progression) /\ IsInjective(progression.order)
      /\ c.at \in Int /\ c.to \in Int /\ c.op \in {"move", "swap", "reverse"}
  BY <1>1, InBody DEF LookReorder, Reorders
<1>3. collections' = collections /\ \E how \in {"ok", "missing"} : End(t, how)
  BY DEF LookReorder
<1>4. Cached(progression') /\ IsInjective(progression'.order)
      /\ Range(progression'.order) = Range(progression.order)
  <2>1. CASE progression' = progression
    BY <1>2, <2>1
  <2>2. CASE c.op = "move" /\ progression' = Moved(progression, c.at, c.to)
             /\ IsIndex(c.at, n) /\ -n <= c.to /\ c.to <= n
    BY <1>2, <2>2, MovedIs
  <2>3. CASE c.op = "swap" /\ progression' = Swapped(progression, c.at, c.to)
             /\ IsIndex(c.at, n) /\ IsIndex(c.to, n)
    BY <1>2, <2>3, SwappedIs
  <2>4. CASE c.op = "reverse" /\ progression' = Reversed(progression)
    BY <1>2, <2>4, ReversedIs
  <2> QED
    BY <1>2, <2>1, <2>2, <2>3, <2>4 DEF LookReorder
<1>5. PICK how \in Results : End(t, how)
  BY <1>3 DEF Results
<1>6. Coherent' /\ collections' \subseteq Id
  BY <1>1, <1>3, <1>4, InBody DEF Coherent, Listed, Ghostless, Lossless
<1> QED
  BY <1>1, <1>4, <1>5, <1>6, EndPInv

LEMMA LookPInv == ASSUME PInv, NEW t \in Thread, Look(t) PROVE PInv'
<1>1. call[t].op \notin {"pop", "pop_slice"} => UNCHANGED spoiled
  BY DEF Look, Spoils
<1>2. CASE LookPop(t)
  BY <1>2, LookPopPInv DEF Look
<1>3. CASE LookInclude(t) \/ LookUpdate(t) \/ LookInsert(t)
  BY <1>1, <1>3, LookIncludePInv, LookUpdatePInv, LookInsertPInv
     DEF Look, LookInclude, LookUpdate, LookInsert
<1>4. CASE LookSet(t) \/ LookRead(t) \/ LookClear(t)
  BY <1>1, <1>4, LookSetPInv, LookReadPInv, LookClearPInv DEF Look, LookSet, LookRead, LookClear
<1>5. CASE LookReorder(t)
  BY <1>1, <1>5, LookReorderPInv DEF Look, LookReorder, Reorders
<1> QED
  BY <1>2, <1>3, <1>4, <1>5 DEF Look

LEMMA BlockIs ==
  ASSUME NEW s \in Seq(Id), NEW q \in Seq(Id), IsInjective(q), NEW i, NEW n, Spread(s, q, i, n),
         NEW ids, Range(q) \cap ids = Range(s)
  PROVE  \E j, l : Spread(Only(q, ids), q, j, l)
BY OnlyOfSpread

\* What the new order is to the dict, when the dict is next.
NewOrderFits(t) ==
  LET c == call[t]
      listed == Range(NewOrder(t).order)
      inOneBlock ==
        spoiled = {} =>
          \E i, n : Spread(Only(NewOrder(t).order, collections), NewOrder(t).order, i, n)
  IN /\ Cached(NewOrder(t)) /\ IsInjective(NewOrder(t).order)
     /\ \/ c.op \in {"include", "insert"} /\ inOneBlock /\ Adds(Range(c.refs), listed)
        \/ /\ c.op \in {"update", "append"} /\ inOneBlock
           /\ c.refs # <<>> /\ Adds({Head(c.refs)}, listed)
        \/ c.op \in {"pop_at", "pop"} /\ Drops(seen[t], listed)
        \/ c.op = "pop_slice" /\ (Lossless => collections \subseteq listed)
        \/ c.op = "set_at" /\ inOneBlock /\ Exchanges(Range(seen[t]), Range(c.refs), listed)

\* The order changes and the dict is next.
LEMMA OrderThenDict ==
  ASSUME PInv, NEW t \in Thread, ChangeOrder(t), UNCHANGED spoiled, call[t].op # "clear",
         NewOrderFits(t)
  PROVE  PInv'
<1>1. Goto(t, "dict", seen[t]) /\ progression' = NewOrder(t) /\ collections' = collections
  BY DEF ChangeOrder
<1>2. Inside(t) /\ at'[t] = "dict" /\ seen'[t] = seen[t] /\ call' = call
  BY <1>1, GotoIs DEF Inside, ChangeOrder
<1>5. /\ seen[t] \in Seq(Id) /\ collections \subseteq Id
      /\ call[t].op = "pop_slice" => "slice" \in spoiled
  BY <1>2, InBody DEF CallFits, ChangeOrder
<1>3. DictReady(t)'
  <2>1. Listed' = Range(NewOrder(t).order) /\ (Ghostless' <=> Ghostless) /\ (Lossless' <=> Lossless)
    BY <1>1 DEF Listed, Ghostless, Lossless
  <2>2. CASE call[t].op = "pop_slice"
    <3>1. Coherent'
      BY <1>1, <1>5, <2>1, <2>2 DEF NewOrderFits, Coherent, Ghostless
    <3> QED
      BY <1>2, <2>2, <3>1 DEF DictReady
  <2>3. CASE call[t].op # "pop_slice"
    BY <1>1, <1>2, <2>1, <2>3
       DEF NewOrderFits, DictReady, InOneBlock, Adds, Drops, Exchanges, Poppable
  <2> QED
    BY <2>2, <2>3
<1>4. Ready(t)'
  BY <1>2, <1>3 DEF Ready
<1>6. Cached(progression') /\ IsInjective(progression'.order)
  BY <1>1 DEF NewOrderFits
<1> QED
  BY <1>1, <1>2, <1>4, <1>5, <1>6, GotoPInv

\* How the new order goes on from the old one.
Continues(t) ==
  \/ /\ call[t].op \in {"include", "insert", "update", "append"}
     /\ Only(NewOrder(t).order, collections) = progression.order
  \/ /\ call[t].op \in {"pop_at", "pop"}
     /\ \E ids : NewOrder(t).order = Only(progression.order, ids)
  \/ /\ call[t].op = "set_at" /\ call[t].refs[1] \notin collections
     /\ Len(NewOrder(t).order) = Len(progression.order)
     /\ \A j \in 1..Len(progression.order) :
          NewOrder(t).order[j] \in {call[t].refs[1], progression.order[j]}

\* A pile that no pop has spoiled.
LEMMA CoherentIs == Coherent /\ spoiled = {} => Listed = collections
BY DEF Coherent, Ghostless, Lossless

\* New ids in the order, the others in their order.
LEMMA GrownIs ==
  ASSUME NEW s \in Seq(Id), NEW q \in Seq(Id), IsInjective(q), NEW i, NEW n, Spread(s, q, i, n),
         NEW new, Range(s) \cap new = {}, Range(q) = Range(s) \cup new, Range(s) = collections
  PROVE  Only(q, collections) = s
<1>1. Range(q) \cap collections = Range(s)
  OBVIOUS
<1> QED
  BY <1>1, OnlyOfSpread

\* The new order of a method that goes on to the dict.
LEMMA NewOrderIs ==
  ASSUME PInv, NEW t \in Thread, at[t] = "order", call[t].op # "clear"
  PROVE  NewOrderFits(t) /\ (spoiled = {} => Continues(t)) /\ Coherent
<1> DEFINE c == call[t]
           ids == seen[t]
           p == progression
<1>1. at[t] = "order" /\ Inside(t) /\ OrderReady(t)
  BY DEF Inside, PInv, Ready
<1>2. /\ Cached(p) /\ IsInjective(p.order) /\ ids \in Seq(Id) /\ c.refs \in Seq(Id) /\ c.at \in Int
      /\ CallFits(t) /\ collections \subseteq Id /\ p.order \in Seq(Id)
  BY <1>1, InBody
\* A method that puts new ids in the order, at one place of it.
<1>9. ASSUME Coherent, NEW new, new \cap Listed = {}, NEW i, NEW n,
             Spread(p.order, NewOrder(t).order, i, n),
             Cached(NewOrder(t)), IsInjective(NewOrder(t).order),
             Range(NewOrder(t).order) = Listed \cup new, spoiled = {}
      PROVE  /\ Only(NewOrder(t).order, collections) = p.order
             /\ Spread(Only(NewOrder(t).order, collections), NewOrder(t).order, i, n)
  <2>1. PICK q : q = NewOrder(t).order
    OBVIOUS
  <2>2. PICK s : s = p.order
    OBVIOUS
  <2>3. q \in Seq(Id) /\ s \in Seq(Id) /\ IsInjective(q) /\ Range(s) = collections
        /\ Range(s) \cap new = {} /\ Range(q) = Range(s) \cup new
    BY <1>2, <1>9, <2>1, <2>2, CoherentIs DEF Cached, Listed
  <2>4. Only(q, collections) = s
    BY <1>9, <2>1, <2>2, <2>3, GrownIs
  <2> QED
    BY <1>9, <2>1, <2>2, <2>4
<1>3. CASE c.op = "include"
  <2>1. Coherent /\ IsInjective(ids) /\ Range(ids) = Range(c.refs) \ Listed
    BY <1>1, <1>3 DEF OrderReady
  <2>2. NewOrder(t) = Appended(p, ids)
    BY <1>3 DEF NewOrder
  <2>7. PICK r \in Seq(Id) : r = ids
    BY <1>2
  <2>8. /\ Cached(Appended(p, r)) /\ IsInjective(Appended(p, r).order)
        /\ Range(Appended(p, r).order) = Range(p.order) \cup Range(r)
    BY <1>2, <2>1, <2>7, AppendedIs DEF Listed
  <2>3. /\ Cached(NewOrder(t)) /\ IsInjective(NewOrder(t).order)
        /\ Range(NewOrder(t).order) = Listed \cup Range(ids)
    BY <2>2, <2>7, <2>8 DEF Listed
  <2>4. Spread(p.order, NewOrder(t).order, Len(p.order), Len(ids))
    BY <1>2, <2>2, AppendedIs
  <2>5. Adds(Range(c.refs), Range(NewOrder(t).order))
    BY <2>1, <2>3 DEF Adds, Coherent
  <2>6. Range(ids) \cap Listed = {}
    BY <2>1
  <2> QED
    BY <1>3, <1>9, <2>1, <2>3, <2>4, <2>5, <2>6 DEF NewOrderFits, Continues
<1>4. CASE c.op \in {"update", "append"}
  <2>1. PICK x : x = Head(c.refs)
    OBVIOUS
  <2>2. /\ Coherent /\ c.refs # <<>> /\ x \notin collections
        /\ ids = IF x \in Listed THEN <<>> ELSE <<x>>
    BY <1>1, <1>4, <2>1 DEF OrderReady
  <2>3. NewOrder(t) = Appended(p, ids)
    BY <1>4 DEF NewOrder
  <2>4. Range(ids) = {x} \ Listed /\ IsInjective(ids)
    BY <2>2 DEF Range, IsInjective
  <2>7. PICK r \in Seq(Id) : r = ids
    BY <1>2
  <2>8. /\ Cached(Appended(p, r)) /\ IsInjective(Appended(p, r).order)
        /\ Range(Appended(p, r).order) = Range(p.order) \cup Range(r)
    BY <1>2, <2>4, <2>7, AppendedIs DEF Listed
  <2>5. /\ Cached(NewOrder(t)) /\ IsInjective(NewOrder(t).order)
        /\ Range(NewOrder(t).order) = Listed \cup Range(ids)
    BY <2>3, <2>7, <2>8 DEF Listed
  <2>9. Spread(p.order, NewOrder(t).order, Len(p.order), Len(ids))
    BY <1>2, <2>3, AppendedIs
  <2>10. Adds({x}, Range(NewOrder(t).order))
    BY <2>2, <2>4, <2>5 DEF Adds, Coherent
  <2>6. Range(ids) \cap Listed = {}
    BY <2>4
  <2> QED
    BY <1>4, <1>9, <2>1, <2>2, <2>5, <2>6, <2>9, <2>10 DEF NewOrderFits, Continues
<1>5. CASE c.op = "insert"
  <2>1. Coherent /\ IsInjective(c.refs) /\ Range(c.refs) \cap Listed = {}
    BY <1>1, <1>2, <1>5 DEF OrderReady, CallFits
  <2>2. NewOrder(t) = Inserted(p, c.at, c.refs)
    BY <1>5 DEF NewOrder
  <2>3. /\ Cached(NewOrder(t)) /\ IsInjective(NewOrder(t).order)
        /\ Range(NewOrder(t).order) = Listed \cup Range(c.refs)
    BY <1>2, <2>1, <2>2, InsertedIs DEF Listed
  <2>4. Spread(p.order, NewOrder(t).order, Clamped(c.at, Len(p.order)), Len(c.refs))
    BY <1>2, <2>2, InsertedIs
  <2>5. Adds(Range(c.refs), Range(NewOrder(t).order))
    BY <2>1, <2>3 DEF Adds, Coherent
  <2> QED
    BY <1>5, <1>9, <2>1, <2>3, <2>4, <2>5 DEF NewOrderFits, Continues
<1>6. CASE c.op \in {"pop_at", "pop"}
  <2>1. Coherent /\ (Lossless => Poppable(ids))
    BY <1>1, <1>6 DEF OrderReady
  <2>4. PICK r : r = Range(ids)
    OBVIOUS
  <2>2. NewOrder(t) = Excluded(p, r)
    BY <1>6, <2>4 DEF NewOrder
  <2>3. /\ Cached(NewOrder(t)) /\ IsInjective(NewOrder(t).order)
        /\ Range(NewOrder(t).order) = Listed \ Range(ids)
    <3>1. PICK q : q = p
      OBVIOUS
    <3>2. /\ Cached(Excluded(q, r)) /\ IsInjective(Excluded(q, r).order)
          /\ Range(Excluded(q, r).order) = Range(q.order) \ r
      BY <1>2, <3>1, ExcludedIs
    <3> QED
      BY <2>2, <2>4, <3>1, <3>2 DEF Listed
  <2>5. Drops(ids, Range(NewOrder(t).order))
    BY <2>1, <2>3 DEF Drops, Coherent
  <2> QED
    <3>1. NewOrder(t).order = Only(p.order, Range(p.order) \ r)
      BY <2>2 DEF Excluded, Rebuilt
    <3> QED
      BY <1>6, <2>1, <2>3, <2>5, <3>1 DEF NewOrderFits, Continues
<1>8. CASE c.op = "pop_slice"
  <2>1. Coherent /\ spoiled # {}
    BY <1>1, <1>2, <1>8 DEF OrderReady, CallFits
  <2>2. NewOrder(t) = Excluded(p, {})
    BY <1>8 DEF NewOrder
  <2>3. /\ Cached(NewOrder(t)) /\ IsInjective(NewOrder(t).order)
        /\ Range(NewOrder(t).order) = Listed
    <3>1. PICK q : q = p
      OBVIOUS
    <3>2. /\ Cached(Excluded(q, {})) /\ IsInjective(Excluded(q, {}).order)
          /\ Range(Excluded(q, {}).order) = Range(q.order) \ {}
      BY <1>2, <3>1, ExcludedIs
    <3> QED
      BY <2>2, <3>1, <3>2 DEF Listed
  <2> QED
    BY <1>8, <2>1, <2>3 DEF NewOrderFits, Coherent
<1>7. CASE c.op = "set_at"
  <2>1. PICK x : x = IdAt(c.at)
    OBVIOUS
  <2>2. /\ Coherent /\ IsIndex(c.at, Len(p.order)) /\ ids = <<x>>
        /\ x = p.order[Normal(c.at, Len(p.order)) + 1] /\ c.refs[1] \notin Listed
    BY <1>1, <1>7, <2>1 DEF OrderReady, Valid, IdAt
  <2>3. Len(c.refs) = 1
    BY <1>2, <1>7 DEF CallFits
  <2>4. c.refs[1] \in Id /\ Range(c.refs) = {c.refs[1]} /\ Range(ids) = {x}
    BY <1>2, <2>2, <2>3 DEF Range
  <2>5. NewOrder(t) = Assigned(p, c.at, c.refs)
    BY <1>7 DEF NewOrder
  <2>6. PICK refs : refs = c.refs
    OBVIOUS
  <2>7. Assigns(p, Assigned(p, c.at, refs), x, refs[1])
    <3>1. refs[1] \in Id /\ refs[1] \notin Range(p.order)
      BY <2>2, <2>4, <2>6 DEF Listed
    <3> QED
      BY <1>2, <2>2, <3>1, AssignedIs
  <2>8. /\ Cached(NewOrder(t)) /\ IsInjective(NewOrder(t).order)
        /\ Range(NewOrder(t).order) = (Listed \ Range(ids)) \cup Range(c.refs)
        /\ Range(ids) \subseteq Listed
    BY <2>2, <2>4, <2>5, <2>6, <2>7 DEF Listed, Assigns
  <2>10. Exchanges(Range(ids), Range(c.refs), Range(NewOrder(t).order))
    BY <2>2, <2>4, <2>8 DEF Exchanges, Coherent
  <2>9. ASSUME spoiled = {}
        PROVE \E i, n : Spread(Only(NewOrder(t).order, collections), NewOrder(t).order, i, n)
    <3>1. PICK q : q = NewOrder(t).order
      OBVIOUS
    <3>2. PICK rest \in Seq(Id) :
                \E k : Spread(rest, q, k, 1) /\ Range(rest) = Range(p.order) \ {x}
      BY <2>5, <2>6, <2>7, <3>1 DEF Replaces, Assigns
    <3>3. Range(p.order) = collections
      BY <2>2, <2>9, CoherentIs DEF Listed
    <3>4. q \in Seq(Id) /\ IsInjective(q) /\ Range(q) \cap collections = Range(rest)
      BY <2>2, <2>4, <2>8, <3>1, <3>2, <3>3 DEF Cached, Listed
    <3> QED
      BY <3>1, <3>2, <3>4, BlockIs
  <2>11. ASSUME spoiled = {} PROVE Continues(t)
    <3>1. /\ Len(NewOrder(t).order) = Len(p.order)
          /\ \A j \in 1..Len(p.order) : NewOrder(t).order[j] \in {c.refs[1], p.order[j]}
      BY <2>5, <2>6, <2>7 DEF Assigns
    <3>2. c.refs[1] \notin collections
      BY <2>2, <2>11, CoherentIs
    <3> QED
      BY <1>7, <3>1, <3>2 DEF Continues
  <2> QED
    BY <1>7, <2>2, <2>8, <2>9, <2>10, <2>11 DEF NewOrderFits
<1> QED
  BY <1>1, <1>3, <1>4, <1>5, <1>6, <1>7, <1>8 DEF OrderReady

LEMMA ChangeOrderPInv ==
  ASSUME PInv, NEW t \in Thread, ChangeOrder(t), UNCHANGED spoiled
  PROVE  PInv'
<1>1. at[t] = "order" /\ Inside(t) /\ OrderReady(t)
  BY DEF ChangeOrder, Inside, PInv, Ready
<1>2. CASE call[t].op = "clear"
  <2>1. collections = {} /\ progression' = Cleared /\ collections' = collections /\ End(t, "ok")
    BY <1>1, <1>2 DEF OrderReady, ChangeOrder, NewOrder
  <2>2. Coherent'
    BY <2>1, ClearedIs DEF Coherent, Listed
  <2> QED
    BY <1>1, <2>1, <2>2, InBody, ClearedIs, EndPInv DEF Results
<1>3. CASE call[t].op # "clear"
  BY <1>1, <1>3, NewOrderIs, OrderThenDict
<1> QED
  BY <1>2, <1>3

\* The ids that a pop takes from the dict: none but those it was asked for, and all of
\* them, if it has them all.
LEMMA TakenIs ==
  ASSUME NEW ids \in Seq(Id)
  PROVE  /\ Taken(ids) \subseteq Range(ids)
         /\ Poppable(ids) => collections \ Taken(ids) = collections \ Range(ids)
<1> DEFINE n == Len(ids)
           gone(k) == ids[k] \notin collections \/ \E j \in 1..(k - 1) : ids[j] = ids[k]
<1>1. n \in Nat /\ DOMAIN ids = 1..n
  OBVIOUS
<1>2. Taken(ids) = {ids[k] : k \in {k \in 1..n : \A j \in 1..k : ~gone(j)}}
  BY <1>1 DEF Taken
<1>5. Taken(ids) \subseteq Range(ids)
  <2> HIDE DEF gone, n
  <2> QED
    BY <1>1, <1>2 DEF Range
<1>3. CASE n <= 1
  <2>1. \A k \in 1..n : k = 1
    BY <1>1, <1>3
  <2>2. \A j \in 1..1 : j = 1
    OBVIOUS
  <2>3. \A k \in 1..n : ids[k] \in collections => ~gone(k)
    BY <2>1
  <2>4. \A k \in 1..n : ids[k] \in collections => ids[k] \in Taken(ids)
    <3> HIDE DEF gone, n
    <3> QED
      BY <1>2, <2>1, <2>2, <2>3
  <2> HIDE DEF gone, n
  <2> QED
    BY <1>1, <1>2, <1>5, <2>4 DEF Range
<1>4. CASE IsInjective(ids) /\ Range(ids) \subseteq collections
  <2>1. ASSUME NEW k \in 1..n PROVE ~gone(k)
    <3>1. ids[k] \in collections
      BY <1>1, <1>4 DEF Range
    <3>2. \A j \in 1..(k - 1) : j \in 1..n /\ j # k
      BY <1>1
    <3> QED
      BY <1>1, <1>4, <3>1, <3>2 DEF IsInjective
  <2>2. \A k \in 1..n : \A j \in 1..k : j \in 1..n
    BY <1>1
  <2>3. \A k \in 1..n : ids[k] \in Taken(ids)
    <3> HIDE DEF gone, n
    <3> QED
      BY <1>2, <2>1, <2>2
  <2> HIDE DEF gone, n
  <2> QED
    BY <1>1, <1>2, <1>5, <2>3 DEF Range
<1> QED
  BY <1>3, <1>4, <1>5 DEF Poppable

LEMMA DictUpdatePInv ==
  ASSUME PInv, NEW t \in Thread, at[t] = "dict", DictUpdate(t), UNCHANGED <<progression, spoiled>>
  PROVE  PInv'
<1> DEFINE refs == call[t].refs
<1>1. Inside(t) /\ call[t].op \in {"update", "append"} /\ refs \in Seq(Id) /\ call[t] \in Call
  BY InBody DEF Inside, DictUpdate
<1>2. refs # <<>> /\ Adds({Head(refs)}, Listed)
  BY <1>1 DEF PInv, Ready, DictReady
<1>3. IInv'
  BY StayIInv DEF PInv, DictUpdate, locks
<1>4. Tail(refs) \in Seq(Id) /\ Head(refs) \in Id
  BY <1>1, <1>2
<1>5. call'[t] = [call[t] EXCEPT !.refs = Tail(refs)]
  BY DEF PInv, DataType, DictUpdate
<1>6. call'[t] \in Call /\ call'[t].op = call[t].op
  BY <1>1, <1>4, <1>5 DEF Call
<1>7. DataType' /\ Distinct' /\ Coherent'
  <2>1. call' \in [Thread -> Call]
    BY <1>5, <1>6 DEF PInv, DataType, DictUpdate
  <2>2. <<>> \in Seq(Id)
    OBVIOUS
  <2>3. collections' = collections \cup {Head(refs)} /\ Listed' = Listed
    BY DEF DictUpdate, Listed
  <2>4. Coherent'
    BY <1>2, <2>3 DEF Coherent, Adds, Ghostless, Lossless
  <2> QED
    BY <1>4, <2>1, <2>2, <2>3, <2>4 DEF PInv, DataType, Distinct, DictUpdate
<1>8. /\ at'[t] = "look" /\ mine' = mine /\ mode' = mode
      /\ \A u \in Thread : u # t => at'[u] = at[u] /\ call'[u] = call[u]
  BY DEF PInv, DataType, IInv, LockType, DictUpdate
<1>9. CallFits(t)'
  <2>1. CallFits(t)
    BY DEF PInv
  <2> QED
    BY <1>1, <1>6, <1>8, <2>1 DEF CallFits, Inside
<1>10. \A u \in Thread : u # t => CallFits(u)' /\ Ready(u)'
  BY <1>1, <1>8, OthersFit, OthersNotReady DEF Inside
<1>11. Ready(t)'
  BY <1>7, <1>8 DEF Ready
<1> QED
  BY <1>3, <1>7, <1>9, <1>10, <1>11 DEF PInv, Quiet

LEMMA ChangeDictPInv ==
  ASSUME PInv, NEW t \in Thread, ChangeDict(t), UNCHANGED spoiled
  PROVE  PInv'
<1> DEFINE c == call[t]
           ids == seen[t]
<1>1. at[t] = "dict" /\ Inside(t) /\ DictReady(t) /\ progression' = progression
  BY DEF ChangeDict, Inside, PInv, Ready
<1>2. /\ Cached(progression) /\ IsInjective(progression.order) /\ ids \in Seq(Id)
      /\ c.refs \in Seq(Id) /\ collections \subseteq Id /\ Listed \subseteq Id
  BY <1>1, InBody, RangeInId DEF Listed
<1>10. Listed' = Listed /\ (Ghostless' <=> Ghostless) /\ (Lossless' <=> Lossless)
  BY <1>1 DEF Listed, Ghostless, Lossless
<1>3. ASSUME NEW how \in Results, End(t, how), collections' \subseteq Id,
             Ghostless => Listed \subseteq collections', Lossless => collections' \subseteq Listed
      PROVE  PInv'
  <2>1. Coherent'
    BY <1>3, <1>10 DEF Coherent
  <2> QED
    BY <1>1, <1>2, <1>3, <2>1, EndPInv
<1>4. CASE DictAdd(t)
  <2>1. collections' = collections \cup Range(c.refs) /\ Adds(Range(c.refs), Listed)
    BY <1>1, <1>4 DEF DictReady, DictAdd
  <2>2. Range(c.refs) \subseteq Id
    BY <1>2, RangeInId
  <2> QED
    BY <1>2, <1>3, <1>4, <2>1, <2>2 DEF DictAdd, Results, Adds
<1>5. CASE DictPop(t)
  <2>1. collections' = collections \ Taken(ids) /\ Taken(ids) \subseteq Range(ids)
        /\ (Poppable(ids) => collections \ Taken(ids) = collections \ Range(ids))
    BY <1>2, <1>5, TakenIs DEF DictPop
  <2>2. CASE c.op \in {"pop_at", "pop"}
    <3>1. Drops(ids, Listed)
      BY <1>1, <2>2 DEF DictReady
    <3> QED
      BY <1>2, <1>3, <1>5, <2>1, <3>1 DEF DictPop, Results, Drops
  <2>3. CASE c.op = "pop_slice"
    <3>1. Coherent /\ ~Ghostless
      BY <1>1, <2>3, InBody DEF DictReady, CallFits, Ghostless
    <3> QED
      BY <1>2, <1>3, <1>5, <2>1, <3>1 DEF DictPop, Results, Coherent
  <2> QED
    BY <1>5, <2>2, <2>3 DEF DictPop
<1>6. CASE DictSet(t)
  <2>1. Exchanges(Range(ids), Range(c.refs), Listed)
    BY <1>1, <1>6 DEF DictReady, DictSet
  <2>2. PICK x : Range(ids) = {x}
    BY <2>1 DEF Exchanges
  <2>3. Range(c.refs) \subseteq Id
    BY <1>2, RangeInId
  <2>4. CASE Range(ids) \subseteq collections
    <3>1. collections' = (collections \ Range(ids)) \cup Range(c.refs) /\ End(t, "ok")
      BY <1>6, <2>4 DEF DictSet
    <3> QED
      BY <1>2, <1>3, <2>1, <2>3, <3>1 DEF Exchanges, Results
  <2>5. CASE ~(Range(ids) \subseteq collections)
    <3>1. collections' = collections /\ End(t, "missing")
      BY <1>6, <2>5 DEF DictSet
    <3> QED
      BY <1>2, <1>3, <2>1, <2>2, <2>5, <3>1 DEF Exchanges, Results
  <2> QED
    BY <2>4, <2>5
<1>7. CASE DictRead(t)
  <2>1. Coherent
    BY <1>1, <1>7 DEF DictReady, DictRead
  <2>2. collections' = collections /\ \E how \in {"ok", "torn"} : End(t, how)
    BY <1>7 DEF DictRead
  <2> QED
    BY <1>2, <1>3, <2>1, <2>2 DEF Coherent, Results
<1>8. CASE DictUpdate(t)
  BY <1>1, <1>8, DictUpdatePInv
<1>9. CASE DictClear(t)
  <2>1. c.op = "clear" /\ collections' = {} /\ Goto(t, "order", <<>>) /\ <<>> \in Seq(Id)
    BY <1>9 DEF DictClear
  <2>2. at'[t] = "order" /\ call' = call
    BY <2>1, GotoIs
  <2>3. Ready(t)'
    BY <2>1, <2>2 DEF Ready, OrderReady
  <2> QED
    BY <1>1, <1>2, <2>1, <2>3, GotoPInv
<1> QED
  BY <1>4, <1>5, <1>6, <1>7, <1>8, <1>9 DEF ChangeDict

LEMMA NextPInv == UsedWithCare /\ PInv /\ [Next]_vars => PInv'
<1> SUFFICES ASSUME UsedWithCare, PInv, [Next]_vars PROVE PInv'
  OBVIOUS
<1>1. CASE UNCHANGED vars
  <2>1. IInv' /\ DataType' /\ Distinct'
    BY <1>1, NextIInv DEF PInv, DataType, Distinct, vars, shared
  <2>2. \A t \in Thread : CallFits(t) /\ Ready(t)
    BY DEF PInv
  <2>3. Quiet'
    BY <1>1 DEF PInv, Quiet, Inside, Coherent, Listed, Ghostless, Lossless, vars, shared
  <2>4. ASSUME NEW t \in Thread PROVE CallFits(t)' /\ Ready(t)'
    <3>1. CallFits(t)'
      BY <1>1, <2>2 DEF CallFits, Inside, vars
    <3>2. OrderReady(t)' <=> OrderReady(t)
      BY <1>1 DEF OrderReady, Coherent, Listed, Ghostless, Lossless, Poppable, Valid, IdAt,
                  vars, shared
    <3>3. DictReady(t)' <=> DictReady(t)
      BY <1>1 DEF DictReady, InOneBlock, Adds, Drops, Exchanges, Coherent, Listed, Ghostless,
                  Lossless, Poppable, vars, shared
    <3>4. at' = at /\ (Coherent' <=> Coherent)
      BY <1>1 DEF Coherent, Listed, Ghostless, Lossless, vars, shared
    <3> QED
      BY <2>2, <3>1, <3>2, <3>3, <3>4 DEF Ready
  <2> QED
    BY <2>1, <2>3, <2>4 DEF PInv
<1>2. ASSUME NEW t \in Thread, Step(t) PROVE PInv'
  BY <1>2, CheckPInv, LockStepsPInv, TakePInv, LookPInv, ChangeOrderPInv, ChangeDictPInv,
     CopyPInv, ScanPInv DEF Step
<1>3. ASSUME NEW t \in Thread, NEW c \in mode.calls, Begin(t, c), UNCHANGED spoiled PROVE PInv'
  BY <1>3, BeginPInv
<1> QED
  BY <1>1, <1>2, <1>3 DEF Next

\* Whenever no method is running the progression lists the dict, each id once, and its
\* cached members are those of its order (Pile._insert, _pop, _setitem, _clear, include,
\* update, remove, exclude and the methods of the progression), for any threads and calls,
\* until a pop has spoiled the pile; if the pile is used with care.
THEOREM OrderListsTheDict == UsedWithCare /\ Spec => []DictAndOrder
<1> SUFFICES ASSUME UsedWithCare PROVE Spec => []DictAndOrder
  OBVIOUS
<1>2. Init => PInv
  BY InitPInv
<1>3. PInv /\ [Next]_vars => PInv'
  BY NextPInv
<1>1. PInv => DictAndOrder
  <2> SUFFICES ASSUME PInv PROVE DictAndOrder
    OBVIOUS
  <2>1. progression.order \in Seq(Id) /\ progression.members = Range(progression.order)
    BY DEF PInv, DataType, Cached
  <2>2. Len(progression.order) = Cardinality(Range(progression.order))
    BY <2>1, LenIsCardinality DEF PInv, Distinct
  <2>3. Quiescent /\ spoiled = {} => Range(progression.order) = collections
    BY CoherentIs DEF PInv, Quiet, Quiescent, Listed
  <2> QED
    BY <2>1, <2>2, <2>3 DEF DictAndOrder
<1> QED
  BY <1>1, <1>2, <1>3, PTL DEF Spec

\* Whatever is popped (Pile._pop), and whatever is called before and after it, no id is
\* listed twice; only slices leave ids without an element in the order, and only lists
\* that cannot be popped leave elements without a place in it.
THEOREM LossStaysOneSided == UsedWithCare /\ Spec => []LossIsOneSided
<1> SUFFICES ASSUME UsedWithCare PROVE Spec => []LossIsOneSided
  OBVIOUS
<1>2. Init => PInv
  BY InitPInv
<1>3. PInv /\ [Next]_vars => PInv'
  BY NextPInv
<1>1. PInv => LossIsOneSided
  BY DEF PInv, Distinct, Quiet, Quiescent, Coherent, Listed, Ghostless, Lossless, LossIsOneSided
<1> QED
  BY <1>1, <1>2, <1>3, PTL DEF Spec
-----------------------------------------------------------------------------
(* The reads *)

\* A read under the owner's lock has the lock all along, and what it has copied from the
\* order is still in the pile.
ReadFits(t) ==
  mode.owner /\ at[t] \in {"copy", "scan"} /\ call[t].op # "iterate" =>
    /\ outer = t
    /\ at[t] = "scan" =>
         /\ Ghostless => Range(seen[t]) \subseteq collections
         /\ call[t].op = "values" => call[t].refs = progression.order

RInv == PInv /\ \A t \in Thread : ReadFits(t)

\* A step leaves the other threads where they are, and only Begin starts a read.
LEMMA StepIs ==
  ASSUME PInv, NEW t \in Thread, Step(t)
  PROVE  /\ mode' = mode /\ spoiled \subseteq spoiled'
         /\ \A u \in Thread : u # t => at'[u] = at[u] /\ call'[u] = call[u] /\ seen'[u] = seen[u]
         /\ Copy(t) \/ Scan(t) \/ (Busy(t) /\ at'[t] \notin {"copy", "scan"})
<1> DEFINE Same == \A u \in Thread : u # t => at'[u] = at[u] /\ call'[u] = call[u]
                                                            /\ seen'[u] = seen[u]
<1>1. at \in [Thread -> Places] /\ call \in [Thread -> Call] /\ seen \in [Thread -> Seq(Id)]
  BY DEF PInv, IInv, LockType, DataType
<1>2. ASSUME NEW place, NEW ids, Goto(t, place, ids)
      PROVE  mode' = mode /\ Same /\ at'[t] = place
  BY <1>1, <1>2 DEF Goto
<1>3. ASSUME NEW how, End(t, how) PROVE mode' = mode /\ Same /\ at'[t] = "idle"
  BY <1>1, <1>3 DEF End
<1>4. CASE Look(t)
  <2>1. Busy(t) /\ at[t] = "look" /\ spoiled \subseteq spoiled'
    BY <1>4 DEF Look, Busy
  <2>2. CASE LookUpdate(t)
    BY <1>1, <1>2, <1>3, <2>1, <2>2 DEF LookUpdate
  <2>3. CASE ~LookUpdate(t)
    <3>1. (\E how : End(t, how)) \/ (\E ids : Goto(t, "order", ids) \/ Goto(t, "dict", ids))
      BY <1>4, <2>3 DEF Look, LookInclude, LookInsert, LookPop, LookSet, LookRead, LookClear,
                        LookReorder
    <3> QED
      BY <1>2, <1>3, <2>1, <3>1
  <2> QED
    BY <2>2, <2>3
<1>5. CASE Check(t) /\ UNCHANGED spoiled
  <2>1. Busy(t)
    BY <1>5 DEF Check, Busy
  <2> QED
    BY <1>1, <1>3, <1>5, <2>1 DEF Check
<1>6. CASE (CheckLock(t) \/ MakeLock(t) \/ ReadLock(t) \/ Take(t)) /\ UNCHANGED spoiled
  BY <1>1, <1>6 DEF CheckLock, MakeLock, ReadLock, Take, Goto, Busy
<1>7. CASE ChangeOrder(t) /\ UNCHANGED spoiled
  BY <1>2, <1>3, <1>7 DEF ChangeOrder, Busy
<1>8. CASE ChangeDict(t) /\ UNCHANGED spoiled
  <2>1. Busy(t)
    BY <1>8 DEF ChangeDict, Busy
  <2>2. CASE DictUpdate(t)
    BY <1>1, <1>8, <2>1, <2>2 DEF DictUpdate
  <2>3. CASE ~DictUpdate(t)
    <3>1. (\E how : End(t, how)) \/ (\E ids : Goto(t, "order", ids))
      BY <1>8, <2>3 DEF ChangeDict, DictAdd, DictPop, DictSet, DictRead, DictClear
    <3> QED
      BY <1>2, <1>3, <1>8, <2>1, <3>1
  <2> QED
    BY <2>2, <2>3
<1>9. CASE Copy(t) /\ UNCHANGED spoiled
  BY <1>1, <1>3, <1>9 DEF Copy
<1>10. CASE Scan(t) /\ UNCHANGED spoiled
  BY <1>1, <1>2, <1>3, <1>10 DEF Scan
<1> QED
  BY <1>4, <1>5, <1>6, <1>7, <1>8, <1>9, <1>10 DEF Step

\* The reads of the other threads.
LEMMA OthersRead ==
  ASSUME PInv, NEW t \in Thread, NEW u \in Thread, u # t, ReadFits(u),
         mode' = mode, spoiled \subseteq spoiled',
         at'[u] = at[u], call'[u] = call[u], seen'[u] = seen[u],
         Busy(t) \/ (UNCHANGED shared /\ (outer = u => outer' = u))
  PROVE  ReadFits(u)'
<1>1. CASE mode.owner /\ outer = u
  <2>1. ~Busy(t)
    BY <1>1 DEF PInv, IInv, OwnerAlone
  <2> QED
    BY <1>1, <2>1 DEF ReadFits, Ghostless, shared
<1>2. CASE ~(mode.owner /\ outer = u)
  BY <1>2 DEF ReadFits
<1> QED
  BY <1>1, <1>2

LEMMA NextRInv == UsedWithCare /\ RInv /\ [Next]_vars => RInv'
<1> SUFFICES ASSUME UsedWithCare, RInv, [Next]_vars PROVE RInv'
  OBVIOUS
<1>1. PInv /\ PInv' /\ \A t \in Thread : ReadFits(t)
  BY NextPInv DEF RInv
<1>2. CASE UNCHANGED vars
  BY <1>1, <1>2 DEF RInv, ReadFits, Ghostless, vars, shared, locks
<1>3. ASSUME NEW t \in Thread, Step(t) PROVE \A u \in Thread : ReadFits(u)'
  <2>1. CASE Copy(t)
    <3>1. UNCHANGED <<shared, mode>> /\ at[t] = "copy" /\ \A u \in Thread : outer = u /\ u # t => outer' = u
      BY <2>1 DEF Copy, End, locks
    <3>2. ReadFits(t)'
      <4>1. CASE End(t, "missing")
        BY <1>1, <4>1 DEF End, ReadFits, PInv, IInv, LockType
      <4>2. CASE ~End(t, "missing")
        <5>1. /\ call[t].op = "item_at" => Valid(call[t].at)
              /\ call'[t] = [call[t] EXCEPT !.refs = progression.order]
              /\ at'[t] = "scan" /\ outer' = outer /\ spoiled' = spoiled
              /\ seen'[t] = IF call[t].op = "item_at" THEN <<IdAt(call[t].at)>>
                            ELSE progression.order
          BY <1>1, <1>3, <2>1, <4>2 DEF Copy, PInv, IInv, LockType, DataType, locks, Step, Look
        <5>2. call'[t].op = call[t].op /\ call'[t].refs = progression.order
              /\ call[t].at \in Int /\ progression.order \in Seq(Id)
          BY <1>1, <5>1 DEF PInv, DataType, Call, Cached
        <5> SUFFICES ASSUME mode.owner, call[t].op # "iterate" PROVE ReadFits(t)'
          BY <3>1, <5>2 DEF ReadFits
        <5>3. outer = t
          BY <1>1, <3>1 DEF ReadFits
        <5>4. Coherent
          <6>1. \A u \in Thread : Busy(u) => outer = u
            BY <1>1 DEF PInv, IInv, OwnerAlone
          <6>2. ~Busy(t)
            BY <3>1 DEF Busy
          <6>3. \A u \in Thread : Inside(u) => Busy(u)
            BY DEF Inside, Busy
          <6> QED
            BY <1>1, <5>3, <6>1, <6>2, <6>3 DEF PInv, Quiet
        <5>5. Range(seen'[t]) \subseteq Listed
          <6>1. CASE call[t].op = "item_at"
            <7>1. PICK n, k : n = Len(progression.order) /\ k = Normal(call[t].at, n) + 1
              OBVIOUS
            <7>2. k \in 1..n
              BY <5>1, <5>2, <6>1, <7>1, NormalIs DEF Valid
            <7>3. IdAt(call[t].at) \in Listed
              BY <5>2, <7>1, <7>2 DEF IdAt, Listed, Range
            <7>4. PICK x : x = IdAt(call[t].at)
              OBVIOUS
            <7> QED
              BY <5>1, <6>1, <7>3, <7>4 DEF Range
          <6> QED
            BY <5>1, <6>1 DEF Listed
        <5>6. Ghostless' => Range(seen'[t]) \subseteq collections
          BY <5>1, <5>4, <5>5 DEF Coherent, Ghostless
        <5> QED
          BY <3>1, <5>1, <5>2, <5>3, <5>6 DEF ReadFits, shared
      <4> QED
        BY <4>1, <4>2
    <3> QED
      BY <1>1, <1>3, <3>1, <3>2, StepIs, OthersRead
  <2>2. CASE Scan(t)
    <3>1. UNCHANGED <<shared, mode>> /\ at[t] = "scan" /\ \A u \in Thread : outer = u /\ u # t => outer' = u
      BY <2>2 DEF Scan, Goto, End, locks
    <3>2. ReadFits(t)'
      <4>1. ASSUME NEW how, End(t, how) PROVE ReadFits(t)'
        BY <1>1, <4>1 DEF End, ReadFits, PInv, IInv, LockType
      <4>2. CASE seen[t] # <<>> /\ Goto(t, "scan", Tail(seen[t]))
        <5>1. /\ at'[t] = "scan" /\ seen'[t] = Tail(seen[t]) /\ call' = call /\ outer' = outer
              /\ seen[t] \in Seq(Id) /\ spoiled \subseteq spoiled'
          BY <1>1, <1>3, <4>2, GotoIs, StepIs DEF Goto, PInv, DataType, locks
        <5>2. Range(seen'[t]) \subseteq Range(seen[t])
          <6>1. PICK q \in Seq(Id) : q = seen[t]
            BY <5>1
          <6>2. q # <<>>
            BY <4>2, <6>1
          <6>3. \A k \in 1..Len(Tail(q)) : k + 1 \in 1..Len(q) /\ Tail(q)[k] = q[k + 1]
            BY <6>2
          <6> QED
            BY <5>1, <6>1, <6>2, <6>3 DEF Range
        <5> QED
          BY <1>1, <3>1, <5>1, <5>2 DEF ReadFits, Ghostless, shared
      <4> QED
        BY <2>2, <4>1, <4>2 DEF Scan
    <3> QED
      BY <1>1, <1>3, <3>1, <3>2, StepIs, OthersRead
  <2>3. CASE Busy(t) /\ at'[t] \notin {"copy", "scan"}
    <3>1. ReadFits(t)'
      BY <2>3 DEF ReadFits
    <3> QED
      BY <1>1, <1>3, <2>3, <3>1, StepIs, OthersRead
  <2> QED
    BY <1>1, <1>3, <2>1, <2>2, <2>3, StepIs
<1>4. ASSUME NEW t \in Thread, NEW c \in mode.calls, Begin(t, c), UNCHANGED spoiled
      PROVE  \A u \in Thread : ReadFits(u)'
  <2>1. /\ UNCHANGED <<shared, mode, seen>>
        /\ \A u \in Thread : u # t => at'[u] = at[u] /\ call'[u] = call[u]
        /\ at'[t] # "scan" /\ call'[t] = c
    BY <1>1, <1>4 DEF Begin, PInv, IInv, LockType, DataType
  <2>2. /\ mode.owner /\ c.op # "iterate" => outer' = t
        /\ \A u \in Thread : outer = u => outer' = u
    BY <1>4, PileAssumption DEF Begin
  <2>3. ReadFits(t)'
    BY <2>1, <2>2 DEF ReadFits
  <2> QED
    BY <1>1, <1>4, <2>1, <2>2, <2>3, OthersRead
<1> QED
  BY <1>1, <1>2, <1>3, <1>4 DEF Next, RInv

LEMMA InitRInv == UsedWithCare /\ Init => RInv
BY InitPInv DEF RInv, ReadFits, Init

\* A read that finds an id without its element, or the order changed under it, is an
\* iteration, or is made without the pile's lock beside other threads, or a slice has been
\* popped (Pile._getitem, values, items, filter, __iter__, __aiter__), for any threads and
\* calls, if the pile is used with care.
THEOREM ReadsAreWhole == UsedWithCare /\ Spec => NoTornRead
<1> DEFINE Whole(t) == result[t] # "torn" /\ result'[t] = "torn" =>
                         \/ call[t].op = "iterate"
                         \/ ~mode.owner /\ call[t].op \in Unlocked
                         \/ "slice" \in spoiled
<1> SUFFICES ASSUME UsedWithCare PROVE Spec => NoTornRead
  OBVIOUS
<1>2. Init => RInv
  BY InitRInv
<1>3. RInv /\ [Next]_vars => RInv'
  BY NextRInv
<1>1. RInv /\ [Next]_vars => [\A t \in Thread : Whole(t)]_vars
  <2> SUFFICES ASSUME RInv, Next, NEW u \in Thread, result[u] # "torn", result'[u] = "torn",
                      call[u].op # "iterate", mode.owner \/ call[u].op \notin Unlocked,
                      Ghostless
               PROVE  FALSE
    BY DEF Ghostless
  <2>1. PInv /\ result \in [Thread -> Results]
    BY DEF RInv, PInv, DataType
  <2>2. PICK t \in Thread : Step(t) \/ \E c \in mode.calls : Begin(t, c)
    BY DEF Next
  <2>3. ASSUME NEW how, End(t, how) PROVE u = t /\ how = "torn"
    BY <2>1, <2>3 DEF End
  <2>4. ASSUME result' = result PROVE FALSE
    BY <2>4
  <2>5. CASE Scan(t)
    <3>1. u = t /\ End(t, "torn")
      BY <2>3, <2>4, <2>5 DEF Scan, Goto
    <3>2. at[t] = "scan" /\ call[t].op \in Unlocked
      BY <2>1, <2>5 DEF Scan, PInv, CallFits
    <3>3. /\ Range(seen[t]) \subseteq collections
          /\ call[t].op = "values" => call[t].refs = progression.order
      BY <3>1, <3>2 DEF RInv, ReadFits
    <3>4. seen[t] # <<>> /\ Head(seen[t]) \notin collections
      <4>1. ~End(t, "ok") /\ ~Goto(t, "scan", Tail(seen[t]))
        BY <2>3, <2>4 DEF Goto
      <4> QED
        BY <2>5, <3>3, <4>1 DEF Scan
    <3>5. Head(seen[t]) \in Range(seen[t])
      BY <2>1, <3>4 DEF PInv, DataType, Range
    <3> QED
      BY <3>3, <3>4, <3>5
  <2>6. CASE ChangeDict(t)
    <3>1. CASE DictRead(t)
      <4>1. at[t] = "dict" /\ call[t].op = "get_at"
        BY <2>6, <3>1 DEF ChangeDict, DictRead
      <4>2. Range(seen[t]) \subseteq collections
        BY <2>1, <4>1 DEF PInv, Ready, DictReady
      <4> QED
        BY <2>3, <3>1, <4>2 DEF DictRead
    <3>2. CASE ~DictRead(t)
      BY <2>3, <2>4, <2>6, <3>2 DEF ChangeDict, DictAdd, DictUpdate, DictPop, DictSet, DictClear,
                                   Goto
    <3> QED
      BY <3>1, <3>2
  <2>7. CASE Copy(t)
    BY <2>3, <2>4, <2>7 DEF Copy
  <2>8. CASE ChangeOrder(t)
    BY <2>3, <2>4, <2>8 DEF ChangeOrder, Goto
  <2>9. CASE Check(t) \/ CheckLock(t) \/ MakeLock(t) \/ ReadLock(t) \/ Take(t)
    BY <2>3, <2>4, <2>9 DEF Check, CheckLock, MakeLock, ReadLock, Take, Goto
  <2>10. CASE Look(t)
    <3>1. ~End(t, "ok") /\ ~End(t, "exists") /\ ~End(t, "missing")
      BY <2>3
    <3>2. result' = result
      BY <2>10, <3>1 DEF Look, LookInclude, LookUpdate, LookInsert, LookPop, LookSet, LookRead,
                         LookClear, LookReorder, Goto
    <3> QED
      BY <2>4, <3>2
  <2>11. CASE \E c \in mode.calls : Begin(t, c)
    BY <2>1, <2>11 DEF Begin
  <2> QED
    BY <2>2, <2>5, <2>6, <2>7, <2>8, <2>9, <2>10, <2>11 DEF Step
<1> QED
  BY <1>1, <1>2, <1>3, PTL DEF Spec, NoTornRead
-----------------------------------------------------------------------------
(* The pile as an ordered set *)

\* What a caller sees of the pile, until a pop has spoiled it.
Items == IF spoiled = {} THEN Only(progression.order, collections) ELSE <<>>

LEMMA SameOperators ==
  ASSUME NEW s
  PROVE  (Abstract!IsInjective(s) <=> IsInjective(s)) /\ Abstract!Range(s) = Range(s)
BY DEF Abstract!IsInjective, IsInjective, Abstract!Range, Range

\* While the dict has all that the order lists, it is the order.
LEMMA AllItems ==
  ASSUME NEW s \in Seq(Id), IsInjective(s), NEW ids, Range(s) = ids
  PROVE  Only(s, ids) = s
BY OnlyAll

LEMMA SharedStays == UNCHANGED <<shared, spoiled>> => UNCHANGED Items
BY DEF shared, Items

\* Elements that go, the others in their order.
LEMMA FewerItems ==
  ASSUME IsInjective(Items'), Range(Items') \subseteq Range(Items),
         \A x, y \in Range(Items') : Abstract!Before(Items', x, y) => Abstract!Before(Items, x, y)
  PROVE  Abstract!Next
<1>1. PICK s, q : s = Items /\ q = Items'
  OBVIOUS
<1>2. /\ Abstract!IsInjective(q) /\ Abstract!Range(q) \subseteq Abstract!Range(s)
      /\ \A x, y \in Abstract!Range(q) : Abstract!Before(q, x, y) => Abstract!Before(s, x, y)
  BY <1>1, SameOperators
<1>3. Abstract!Vanish /\ Abstract!IsInjective(Items')
  BY <1>1, <1>2 DEF Abstract!Vanish, Items
<1> QED
  BY <1>3 DEF Abstract!Next, Items

\* A block that is new in the dict.
LEMMA MoreItems ==
  ASSUME NEW s \in Seq(Id), NEW q \in Seq(Id), IsInjective(q), NEW i, NEW n, Spread(s, q, i, n),
         Items = s, Items' = q
  PROVE  Abstract!Next \/ UNCHANGED Items
<1>1. /\ i \in 0..Len(s) /\ n \in Nat /\ Len(q) = Len(s) + n /\ Len(s) \in Nat /\ DOMAIN s = 1..Len(s)
      /\ \A k \in 1..Len(s) : q[IF k <= i THEN k ELSE k + n] = s[k]
  BY DEF Spread
<1>2. CASE n = 0
  <2>1. Len(q) = Len(s) /\ \A k \in 1..Len(s) : q[k] = s[k]
    BY <1>1, <1>2
  <2>2. q = s
    BY <2>1
  <2> QED
    BY <2>2
<1>3. CASE n # 0
  <2>1. Len(Items') - Len(Items) = n /\ n > 0
    BY <1>1, <1>3
  <2>2. \A k \in DOMAIN Items : Items'[IF k <= i THEN k ELSE k + (Len(Items') - Len(Items))] = Items[k]
    BY <1>1, <2>1
  <2>3. Abstract!Appear
    BY <1>1, <2>1, <2>2 DEF Abstract!Appear, Items
  <2>4. Abstract!IsInjective(Items')
    BY SameOperators
  <2> QED
    BY <2>3, <2>4 DEF Abstract!Next, Items
<1> QED
  BY <1>2, <1>3

\* The order changes: what a caller sees stays, or some of it goes.
LEMMA OrderAbstract ==
  ASSUME PInv, PInv', NEW t \in Thread, ChangeOrder(t), spoiled = {}, UNCHANGED spoiled
  PROVE  Abstract!Next \/ UNCHANGED Items
<1>1. PICK s \in Seq(Id), q \in Seq(Id), ids \in SUBSET Id :
        s = progression.order /\ q = progression'.order /\ ids = collections
  BY DEF PInv, DataType, Cached
<1>2. /\ collections' = ids /\ progression' = NewOrder(t) /\ IsInjective(s) /\ IsInjective(q)
      /\ at[t] = "order" /\ Inside(t)
  BY <1>1 DEF ChangeOrder, PInv, Distinct, Inside
<1>3. Items' = Only(q, ids) /\ Items = Only(s, ids)
  BY <1>1, <1>2 DEF Items
<1>4. IsInjective(Items') /\ Range(Items') = Range(q) \cap ids
  BY <1>2, <1>3, OnlyIs
<1>5. CASE call[t].op = "clear"
  <2>1. ids = {}
    BY <1>1, <1>2, <1>5 DEF PInv, Ready, OrderReady
  <2>2. Range(q) \cap ids = {} /\ Range(s) \cap ids = {}
    BY <2>1
  <2> QED
    BY <1>3, <2>2, OnlyNone
<1>6. CASE call[t].op # "clear"
  <2>1. Continues(t) /\ Range(s) = ids
    BY <1>1, <1>2, <1>6, NewOrderIs, CoherentIs DEF Listed
  <2>2. Items = s
    BY <1>2, <1>3, <2>1, AllItems
  <2>3. Range(Items') \subseteq Range(Items)
    BY <1>4, <2>1, <2>2
  <2>4. CASE call[t].op \in {"include", "insert", "update", "append"}
    BY <1>1, <1>2, <1>3, <2>1, <2>2, <2>4 DEF Continues
  <2>5. CASE call[t].op \in {"pop_at", "pop"}
    <3>1. PICK rest : q = Only(s, rest)
      BY <1>1, <1>2, <2>1, <2>5 DEF Continues
    <3>2. ASSUME NEW x, NEW y, Abstract!Before(Items', x, y) PROVE Abstract!Before(Items, x, y)
      <4>1. Abstract!Before(q, x, y)
        BY <1>3, <3>2, OnlyKeepsOrder
      <4>2. Abstract!Before(s, x, y)
        BY <3>1, <4>1, OnlyKeepsOrder
      <4> QED
        BY <2>2, <4>2
    <3> QED
      BY <1>4, <2>3, <3>2, FewerItems
  <2>6. CASE call[t].op = "set_at"
    <3>1. PICK r : r \notin ids /\ Len(q) = Len(s) /\ \A j \in 1..Len(s) : q[j] \in {r, s[j]}
      BY <1>1, <1>2, <2>1, <2>6 DEF Continues
    <3>2. ASSUME NEW x \in Range(Items'), NEW y \in Range(Items'), Abstract!Before(Items', x, y)
          PROVE  Abstract!Before(Items, x, y)
      <4>1. Abstract!Before(q, x, y)
        BY <1>3, <3>2, OnlyKeepsOrder
      <4>2. PICK i \in DOMAIN q, j \in DOMAIN q : i < j /\ q[i] = x /\ q[j] = y
        BY <4>1 DEF Abstract!Before
      <4>3. x # r /\ y # r
        BY <1>4, <3>1
      <4>4. DOMAIN q = 1..Len(s) /\ DOMAIN s = 1..Len(s)
        BY <3>1
      <4>5. s[i] = x /\ s[j] = y
        BY <3>1, <4>2, <4>3, <4>4
      <4>6. Abstract!Before(s, x, y)
        BY <4>2, <4>4, <4>5 DEF Abstract!Before
      <4> QED
        BY <2>2, <4>6
    <3> QED
      BY <1>4, <2>3, <3>2, FewerItems
  <2> QED
    BY <2>1, <2>4, <2>5, <2>6 DEF Continues
<1> QED
  BY <1>5, <1>6

\* The dict changes: what is new in the order appears, or a clear takes everything.
LEMMA DictAbstract ==
  ASSUME PInv, NEW t \in Thread, ChangeDict(t), spoiled = {}, UNCHANGED spoiled
  PROVE  Abstract!Next \/ UNCHANGED Items
<1>1. PICK q \in Seq(Id), ids \in SUBSET Id : q = progression.order /\ ids = collections
  BY DEF PInv, DataType, Cached
<1>2. /\ progression' = progression /\ IsInjective(q) /\ Items = Only(q, ids)
      /\ Inside(t) /\ at[t] = "dict" /\ DictReady(t)
  BY <1>1 DEF ChangeDict, PInv, Distinct, Inside, Ready, Items
<1>3. PICK new : new = collections'
  OBVIOUS
<1>4. Items' = Only(q, new)
  BY <1>1, <1>2, <1>3 DEF Items
<1>5. ASSUME InOneBlock, Range(q) = new PROVE Abstract!Next \/ UNCHANGED Items
  <2>1. Items' = q
    BY <1>2, <1>4, <1>5, AllItems
  <2>2. PICK i, n : Spread(Items, q, i, n)
    BY <1>1, <1>5 DEF InOneBlock, Items
  <2>3. PICK s : s = Items
    OBVIOUS
  <2>4. s \in Seq(Id)
    BY <1>2, <2>3, OnlyIs
  <2> QED
    BY <1>2, <2>1, <2>2, <2>3, <2>4, MoreItems
<1>6. CASE DictAdd(t) \/ DictUpdate(t) \/ DictSet(t)
  <2>1. PICK refs : refs = call[t].refs
    OBVIOUS
  <2>2. InOneBlock /\ Range(q) = new
    <3>1. Listed = Range(q) /\ Ghostless /\ Lossless
      BY <1>1 DEF Listed, Ghostless, Lossless
    <3>2. CASE DictAdd(t)
      <4>1. InOneBlock /\ Adds(Range(refs), Range(q)) /\ new = ids \cup Range(refs)
        BY <1>1, <1>2, <1>3, <2>1, <3>1, <3>2 DEF DictReady, DictAdd
      <4> QED
        BY <1>1, <3>1, <4>1 DEF Adds
    <3>3. CASE DictUpdate(t)
      <4>1. InOneBlock /\ Adds({Head(refs)}, Range(q)) /\ new = ids \cup {Head(refs)}
        BY <1>1, <1>2, <1>3, <2>1, <3>1, <3>3 DEF DictReady, DictUpdate
      <4> QED
        BY <1>1, <3>1, <4>1 DEF Adds
    <3>4. CASE DictSet(t)
      <4>1. InOneBlock /\ Exchanges(Range(seen[t]), Range(refs), Range(q))
        BY <1>1, <1>2, <2>1, <3>1, <3>4 DEF DictReady, DictSet
      <4>2. Range(seen[t]) \subseteq ids
        BY <1>1, <3>1, <4>1 DEF Exchanges
      <4>3. new = (ids \ Range(seen[t])) \cup Range(refs)
        BY <1>1, <1>3, <2>1, <3>4, <4>2 DEF DictSet
      <4> QED
        BY <1>1, <3>1, <4>1, <4>3 DEF Exchanges
    <3> QED
      BY <1>6, <3>2, <3>3, <3>4
  <2> QED
    BY <1>5, <2>2
<1>7. CASE DictPop(t)
  <2>4. Drops(seen[t], Range(q)) /\ seen[t] \in Seq(Id)
    BY <1>1, <1>2, <1>7, InBody DEF DictReady, DictPop, CallFits, Listed
  <2>1. Poppable(seen[t]) /\ Range(q) = ids \ Range(seen[t])
    BY <1>1, <2>4 DEF Drops, Ghostless, Lossless
  <2>2. new = Range(q)
    BY <1>1, <1>3, <1>7, <2>1, <2>4, TakenIs DEF DictPop
  <2>3. Range(q) \subseteq ids
    BY <2>1
  <2> QED
    BY <1>2, <1>4, <2>2, <2>3, OnlyAll
<1>8. CASE DictRead(t)
  BY <1>1, <1>2, <1>3, <1>4, <1>8 DEF DictRead
<1>9. CASE DictClear(t)
  <2>1. new = {} /\ Range(q) \cap new = {}
    BY <1>3, <1>9 DEF DictClear
  <2>2. Items' = <<>>
    BY <1>4, <2>1, OnlyNone
  <2>3. Range(Items') = {} /\ IsInjective(Items')
    BY <2>2 DEF Range, IsInjective
  <2> QED
    BY <2>3, FewerItems
<1> QED
  BY <1>6, <1>7, <1>8, <1>9 DEF ChangeDict

\* A caller asks for another order.
LEMMA ReorderAbstract ==
  ASSUME PInv, PInv', NEW t \in Thread, at[t] = "look", LookReorder(t), spoiled = {},
         UNCHANGED spoiled
  PROVE  Abstract!Next \/ UNCHANGED Items
<1>1. PICK s \in Seq(Id), q \in Seq(Id), ids \in SUBSET Id :
        s = progression.order /\ q = progression'.order /\ ids = collections
  BY DEF PInv, DataType, Cached
<1>2. /\ collections' = ids /\ IsInjective(s) /\ IsInjective(q) /\ Range(s) = ids
      /\ call[t].op \in Reorders
  BY <1>1, CoherentIs DEF LookReorder, PInv, Distinct, Ready, Listed
<1>3. Range(q) = ids
  <2>1. \A u \in Thread : u # t => ~Inside(u)
    BY OneInside DEF PInv, Inside
  <2>2. \A u \in Thread : ~Inside(u)'
    BY <2>1 DEF LookReorder, End, Inside, PInv, IInv, LockType
  <2> QED
    BY <1>1, <1>2, <2>2 DEF PInv, Quiet, Coherent, Listed, Ghostless, Lossless
<1>4. Items = s /\ Items' = q
  BY <1>1, <1>2, <1>3, AllItems DEF Items
<1>5. Len(q) = Len(s)
  BY <1>2, <1>3, LenIsCardinality
<1>6. Abstract!Reorder
  <2>1. Abstract!Range(q) = Abstract!Range(s)
    BY <1>2, <1>3, SameOperators
  <2>2. \E u \in Thread : at[u] = "look" /\ call[u].op \in Reorders
    BY <1>2
  <2> QED
    BY <1>4, <1>5, <2>1, <2>2 DEF Abstract!Reorder, Items
<1>7. Abstract!IsInjective(Items')
  BY <1>2, <1>4, SameOperators
<1> QED
  BY <1>6, <1>7 DEF Abstract!Next, Items

LEMMA NextAbstract ==
  ASSUME PInv, PInv', [Next]_vars
  PROVE  Abstract!Next \/ UNCHANGED Items
<1>1. CASE UNCHANGED vars
  BY <1>1, SharedStays DEF vars, shared
<1>4. CASE spoiled' # {}
  <2>1. CASE spoiled = {}
    <3>1. Items' = <<>> /\ Range(Items') = {} /\ IsInjective(Items')
      BY <1>4 DEF Items, Range, IsInjective
    <3> QED
      BY <3>1, FewerItems
  <2>2. CASE spoiled # {}
    BY <1>4, <2>2 DEF Items
  <2> QED
    BY <2>1, <2>2
<1>2. ASSUME NEW t \in Thread, Step(t), spoiled' = {} PROVE Abstract!Next \/ UNCHANGED Items
  <2>4. spoiled = {}
    BY <1>2, StepIs
  <2>1. CASE Check(t) \/ CheckLock(t) \/ MakeLock(t) \/ ReadLock(t) \/ Take(t)
    BY <1>2, <2>1, <2>4, SharedStays DEF Check, CheckLock, MakeLock, ReadLock, Take
  <2>2. CASE Look(t) /\ ~LookReorder(t)
    BY <1>2, <2>2, <2>4, SharedStays DEF Look, LookInclude, LookUpdate, LookInsert, LookPop, LookSet,
                             LookRead, LookClear
  <2>3. CASE Look(t) /\ LookReorder(t)
    BY <1>2, <2>3, <2>4, ReorderAbstract DEF Look
  <2>5. CASE Copy(t) \/ Scan(t)
    BY <1>2, <2>4, <2>5, SharedStays DEF Copy, Scan
  <2> QED
    BY <1>2, <2>1, <2>2, <2>3, <2>4, <2>5, OrderAbstract, DictAbstract DEF Step
<1>3. ASSUME NEW t \in Thread, NEW c \in mode.calls, Begin(t, c), UNCHANGED spoiled
      PROVE  UNCHANGED Items
  BY <1>3, SharedStays DEF Begin
<1> QED
  BY <1>1, <1>2, <1>3, <1>4 DEF Next

LEMMA InitAbstract == Init => Abstract!Init
<1>1. <<>> \in Seq(Id) /\ Range(<<>>) \cap {} = {}
  OBVIOUS
<1>2. Only(<<>>, {}) = <<>>
  BY <1>1, OnlyNone
<1> QED
  BY <1>2 DEF Init, Cleared, Rebuilt, Abstract!Init

\* The pile implements an ordered set: at every step of every method what a caller sees
\* stays, or a block of new elements appears at one place, or some elements go and the
\* others keep their order, or a caller has asked for another order, until a pop has
\* spoiled it; if the pile is used with care.
THEOREM PileIsOrderedSet == UsedWithCare /\ Spec => IsOrderedSet
<1> SUFFICES ASSUME UsedWithCare PROVE Spec => IsOrderedSet
  OBVIOUS
<1>1. Init => PInv /\ Abstract!Init
  BY InitPInv, InitAbstract
<1>2. PInv /\ [Next]_vars => PInv'
  BY NextPInv
<1>3. PInv /\ PInv' /\ [Next]_vars => [Abstract!Next]_(IF spoiled = {} THEN Only(progression.order, collections) ELSE <<>>)
  BY NextAbstract DEF Items
<1> QED
  BY <1>1, <1>2, <1>3, PTL DEF Spec, IsOrderedSet, Abstract!Spec
=============================================================================
