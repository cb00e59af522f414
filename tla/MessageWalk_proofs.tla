-------------------------- MODULE MessageWalk_proofs --------------------------
(***************************************************************************)
(* Theorems on the iterators of MessageWalk, for every message, any number *)
(* of walks and any usage.                                                 *)
(*                                                                         *)
(* That old values are found rests on where var_ is: at a value, and not   *)
(* beyond an old value that the walk has still to come to (Positions).     *)
(* With that, the loop of miss() stops at the value of the item, if it is  *)
(* old.  Where nothing is inserted, all values are old.  A walk that erases *)
(* goes on to a position that stays valid, and is lost to others only.     *)
(***************************************************************************)
EXTENDS MessageWalk, TLAPS

USE WalkAssumption

\* The position of a walk that is under way and was not lost.
PositionOK(w) == /\ var[w] \in values \cup {End}
                 /\ \A x \in old[w] : dic[w] <= x => var[w] <= x
                 /\ "insert" \notin usage => values \subseteq old[w]

Positions == \A w \in Walking \ lost : PositionOK(w)

\* No walk is lost where only the one walk there is erases.
LostToOthers == usage \cap {"erase", "share"} = {} => lost = {}

IInv == TypeOK /\ Positions /\ LostToOthers

\* Ids are numbers below End.
LEMMA IdsBelowEnd == \A i \in ItemIds : i \in 1 .. MaxId /\ i \in Nat /\ i < End /\ 1 <= i
  BY DEF End

LEMMA EndIsNumber == End \in Nat /\ End \notin ItemIds /\ End # 0 /\ 0 \notin ItemIds
  BY DEF End

\* First() gives a member or End.
LEMMA FirstIsThere ==
  ASSUME NEW S, NEW id, NEW i, First(S, id, i)
  PROVE  i \in S \cup {End}
  BY DEF First

\* What miss() makes of var_: a value or End, not beyond an old value that is ahead.
LEMMA SettledPosition ==
  ASSUME TypeOK, NEW w \in Walking \ lost, PositionOK(w), NEW v \in 1 .. End, Settled(w, v)
  PROVE  /\ v \in values \cup {End} /\ v \in ItemIds \cup {End}
         /\ \A x \in old[w] : dic[w] <= x => v <= x
  <1>1. w \in Walks /\ dic[w] \in ItemIds /\ var[w] \in ItemIds \cup {End}
        /\ old[w] \subseteq values /\ values \subseteq ItemIds
    BY DEF TypeOK, Walking
  <1>2. dic[w] \in Nat /\ var[w] \in Nat
    BY <1>1, IdsBelowEnd, EndIsNumber
  <1>3. CASE var[w] >= dic[w]
    <2>1. v = var[w]
      BY <1>3 DEF Settled
    <2>2. QED
      BY <2>1, <1>1 DEF PositionOK
  <1>4. CASE ~(var[w] >= dic[w])
    <2>1. First(values, dic[w], v)
      BY <1>4 DEF Settled
    <2>2. QED
      BY <2>1, <1>1 DEF First
  <1>5. QED
    BY <1>3, <1>4

(***************************************************************************)
(* The inductive invariant.                                                *)
(***************************************************************************)
LEMMA InitInv == Init => IInv
  <1>1. SUFFICES ASSUME Init PROVE TypeOK /\ Positions
    BY DEF IInv, Init, LostToOthers
  <1>2. TypeOK
    BY <1>1 DEF Init, TypeOK
  <1>3. Walking = {}
    BY <1>1, EndIsNumber DEF Init, Walking
  <1>4. QED
    BY <1>2, <1>3 DEF Positions

LEMMA BeginInv == ASSUME IInv, NEW w \in Walks, Begin(w) PROVE IInv'
  <1>1. PICK i \in 1 .. End, v \in 1 .. End :
          /\ First(ItemIds, 1, i) /\ dic' = [dic EXCEPT ![w] = i]
          /\ First(values, 1, v) /\ var' = [var EXCEPT ![w] = v]
          /\ lost' = lost \ {w} /\ old' = [old EXCEPT ![w] = values]
          /\ UNCHANGED <<values, blank, usage>>
    BY DEF Begin
  <1>2. TypeOK
    BY DEF IInv
  <1>3. i \in ItemIds \cup {End} /\ v \in values \cup {End}
    BY <1>1, FirstIsThere
  <1>4. TypeOK'
    BY <1>1, <1>2, <1>3 DEF TypeOK
  <1>5. ASSUME NEW u \in (Walking \ lost)' PROVE PositionOK(u)'
    <2>1. CASE u = w
      <3>1. var'[w] = v /\ old'[w] = values
        BY <1>1, <1>2 DEF TypeOK
      <3>2. \A x \in values : v <= x
        BY <1>1, <1>2, IdsBelowEnd DEF First, TypeOK
      <3>3. QED
        BY <2>1, <3>1, <3>2, <1>1, <1>3 DEF PositionOK
    <2>2. CASE u # w
      <3>1. u \in Walks /\ u \in Walking \ lost
        BY <2>2, <1>1, <1>2 DEF Walking, TypeOK
      <3>2. /\ dic'[u] = dic[u] /\ var'[u] = var[u] /\ old'[u] = old[u]
            /\ values' = values /\ usage' = usage
        BY <2>2, <1>1, <1>2, <3>1 DEF TypeOK
      <3>3. QED
        BY <3>1, <3>2 DEF IInv, Positions, PositionOK
    <2>3. QED
      BY <2>1, <2>2
  <1>6. QED
    BY <1>4, <1>5, <1>1 DEF IInv, Positions, LostToOthers

LEMMA IncrementInv == ASSUME IInv, NEW w \in Walks, Increment(w) PROVE IInv'
  <1>1. PICK i \in 1 .. End :
          /\ w \in Walking \ lost
          /\ First(ItemIds, dic[w] + 1, i) /\ dic' = [dic EXCEPT ![w] = i]
          /\ UNCHANGED <<values, blank, var, lost, old, usage>>
    BY DEF Increment
  <1>2. TypeOK /\ i \in ItemIds \cup {End}
    BY <1>1, FirstIsThere DEF IInv
  <1>3. TypeOK'
    BY <1>1, <1>2 DEF TypeOK
  <1>4. ASSUME NEW u \in (Walking \ lost)' PROVE PositionOK(u)'
    <2>1. u \in Walking \ lost /\ PositionOK(u)
      BY <1>1, <1>2 DEF IInv, Positions, Walking, TypeOK
    <2>2. CASE u # w
      BY <2>1, <2>2, <1>1, <1>2 DEF PositionOK, Walking, TypeOK
    <2>3. CASE u = w
      <3>1. dic'[w] = i /\ dic[w] + 1 <= i /\ dic[w] \in Nat
        BY <1>1, <1>2, IdsBelowEnd DEF TypeOK, First, Walking
      <3>2. old[w] \subseteq ItemIds
        BY <1>2 DEF TypeOK
      <3>3. ASSUME NEW x \in old[w], i <= x PROVE dic[w] <= x
        <4>1. x \in Nat
          BY <3>2, <3>3, IdsBelowEnd
        <4>2. i \in Nat
          BY EndIsNumber
        <4>3. QED
          BY <4>1, <4>2, <3>1, <3>3
      <3>4. QED
        BY <2>1, <2>3, <3>1, <3>3, <1>1 DEF PositionOK
    <2>4. QED
      BY <2>2, <2>3
  <1>5. QED
    BY <1>1, <1>3, <1>4 DEF IInv, Positions, LostToOthers

\* A step that only moves var_ where miss() moves it.
LEMMA SettleInv ==
  ASSUME IInv, NEW w \in Walking \ lost, NEW v \in 1 .. End, Settled(w, v),
         var' = [var EXCEPT ![w] = v], UNCHANGED <<values, dic, lost, old, usage>>,
         blank' \subseteq values
  PROVE  IInv'
  <1>1. TypeOK /\ PositionOK(w) /\ w \in Walks
    BY DEF IInv, Positions, Walking
  <1>2. /\ v \in values \cup {End} /\ v \in ItemIds \cup {End}
        /\ \A x \in old[w] : dic[w] <= x => v <= x
    BY <1>1, SettledPosition
  <1>3. TypeOK'
    BY <1>1, <1>2 DEF TypeOK
  <1>4. ASSUME NEW u \in (Walking \ lost)' PROVE PositionOK(u)'
    <2>1. u \in Walking \ lost /\ PositionOK(u) /\ u \in Walks
      BY DEF IInv, Positions, Walking
    <2>2. var'[u] = IF u = w THEN v ELSE var[u]
      BY <2>1, <1>1 DEF TypeOK
    <2>3. QED
      BY <2>1, <2>2, <1>2 DEF PositionOK
  <1>5. QED
    BY <1>3, <1>4 DEF IInv, Positions, LostToOthers

LEMMA LookInv == ASSUME IInv, NEW w \in Walks, Look(w) PROVE IInv'
  <1>1. PICK v \in 1 .. End : /\ w \in Walking \ lost /\ Settled(w, v)
                              /\ var' = [var EXCEPT ![w] = v]
                              /\ UNCHANGED <<values, blank, dic, lost, old, usage>>
    BY DEF Look
  <1>2. blank' \subseteq values
    BY <1>1 DEF IInv, TypeOK
  <1>3. QED
    BY <1>1, <1>2, SettleInv

LEMMA WriteInv == ASSUME IInv, NEW w \in Walks, Write(w) PROVE IInv'
  <1>1. PICK v \in 1 .. End : /\ Settled(w, v) /\ v = dic[w]
                              /\ var' = [var EXCEPT ![w] = v]
    BY DEF Write
  <1>2. w \in Walking \ lost /\ UNCHANGED <<values, dic, lost, old, usage>>
    BY DEF Write
  <1>3. TypeOK /\ PositionOK(w) /\ dic[w] \in ItemIds
    BY <1>2 DEF IInv, Positions, Walking
  <1>4. dic[w] \in values
    BY <1>1, <1>2, <1>3, SettledPosition, EndIsNumber
  <1>5. blank' \subseteq values
    BY <1>3, <1>4 DEF Write, TypeOK
  <1>6. QED
    BY <1>1, <1>2, <1>5, SettleInv

\* Values are removed; the walks that stand at one of them are lost.
LEMMA RemoveInv ==
  ASSUME IInv, NEW S, Remove(S), UNCHANGED <<dic, var, usage>>,
         Walking = {} \/ "erase" \in usage
  PROVE  IInv'
  <1>1. TypeOK
    BY DEF IInv
  <1>2. lost' \subseteq Walks
    BY <1>1 DEF TypeOK, Remove, Walking
  <1>3. old' \in [Walks -> SUBSET (values')]
    <2>1. \A w \in Walks : old[w] \ S \subseteq values \ S
      BY <1>1 DEF TypeOK
    <2>2. QED
      BY <2>1 DEF Remove
  <1>4. TypeOK'
    BY <1>1, <1>2, <1>3 DEF TypeOK, Remove
  <1>5. ASSUME NEW u \in (Walking \ lost)' PROVE PositionOK(u)'
    <2>1. u \in Walking \ lost /\ PositionOK(u) /\ u \in Walks /\ var[u] \notin S
      BY DEF IInv, Positions, Walking, Remove
    <2>2. old'[u] = old[u] \ S
      BY <2>1 DEF Remove
    <2>3. QED
      BY <2>1, <2>2 DEF PositionOK, Remove
  <1>6. LostToOthers'
    BY DEF IInv, LostToOthers, Remove
  <1>7. QED
    BY <1>4, <1>5, <1>6 DEF IInv, Positions

LEMMA EraseAtInv == ASSUME IInv, NEW w \in Walks, EraseAt(w) PROVE IInv'
  <1>1. PICK v \in 1 .. End, next \in 1 .. End :
          /\ w \in Walking \ lost
          /\ Settled(w, v)
          /\ IF v = dic[w]
             THEN /\ First(values, v + 1, next) /\ var' = [var EXCEPT ![w] = next]
                  /\ Remove({v})
             ELSE /\ next = v /\ var' = [var EXCEPT ![w] = v]
                  /\ UNCHANGED <<values, blank, old, lost>>
          /\ UNCHANGED <<dic, usage>>
    BY DEF EraseAt
  <1>2. TypeOK /\ PositionOK(w) /\ dic[w] \in ItemIds
    BY <1>1 DEF IInv, Positions, Walking
  <1>3. CASE v # dic[w]
    <2>1. blank' \subseteq values
      BY <1>1, <1>2, <1>3 DEF TypeOK
    <2>2. QED
      BY <1>1, <1>3, <2>1, SettleInv
  <1>4. CASE v = dic[w]
    <2>1. next \in values \cup {End} /\ v + 1 <= next /\ v \in Nat /\ next \in Nat
          /\ \A x \in values : v + 1 <= x => next <= x
      BY <1>1, <1>2, <1>4, IdsBelowEnd, EndIsNumber DEF First
    <2>2. next \in (values \ {v}) \cup {End} /\ next \in ItemIds \cup {End}
      BY <2>1, <1>2 DEF TypeOK
    <2>3. lost' \subseteq Walks
      BY <1>1, <1>2, <1>4 DEF TypeOK, Remove, Walking
    <2>4. old' \in [Walks -> SUBSET (values')]
      <3>1. \A u \in Walks : old[u] \ {v} \subseteq values \ {v}
        BY <1>2 DEF TypeOK
      <3>2. QED
        BY <3>1, <1>1, <1>4 DEF Remove
    <2>5. TypeOK'
      BY <1>1, <1>2, <1>4, <2>2, <2>3, <2>4 DEF TypeOK, Remove
    <2>6. ASSUME NEW u \in (Walking \ lost)' PROVE PositionOK(u)'
      <3>1. u \in Walking \ lost /\ PositionOK(u) /\ u \in Walks
        BY <1>1, <1>4 DEF IInv, Positions, Walking, Remove
      <3>2. old'[u] = old[u] \ {v} /\ values' = values \ {v} /\ UNCHANGED <<dic, usage>>
        BY <1>1, <1>4, <3>1 DEF Remove
      <3>3. CASE u = w
        <4>1. var'[w] = next
          BY <1>1, <1>2, <1>4 DEF TypeOK
        <4>2. \A x \in old[w] \ {v} : dic[w] <= x => next <= x
          BY <2>1, <1>2, <1>4, IdsBelowEnd DEF TypeOK
        <4>3. QED
          BY <3>1, <3>2, <3>3, <4>1, <4>2, <2>2 DEF PositionOK
      <3>4. CASE u # w
        <4>1. var'[u] = var[u] /\ var[u] # v
          BY <1>1, <1>2, <1>4, <3>1, <3>4 DEF TypeOK, Remove, Walking
        <4>2. QED
          BY <3>1, <3>2, <4>1 DEF PositionOK
      <3>5. QED
        BY <3>3, <3>4
    <2>7. LostToOthers'
      <3>1. var'[w] = next /\ next # v
        BY <1>1, <1>2, <1>4, <2>1 DEF TypeOK
      <3>2. "share" \in usage \/ Walking = {w}
        BY DEF EraseAt
      <3>3. usage' = usage /\ lost' = lost \cup {u \in Walking : var'[u] \in {v}}
        BY <1>1, <1>4 DEF Remove
      <3>4. QED
        BY <3>1, <3>2, <3>3 DEF IInv, LostToOthers
    <2>8. QED
      BY <2>5, <2>6, <2>7 DEF IInv, Positions
  <1>5. QED
    BY <1>3, <1>4

LEMMA PutInv == ASSUME IInv, NEW id, Put(id) PROVE IInv'
  <1>1. TypeOK
    BY DEF IInv
  <1>2. TypeOK'
    BY <1>1 DEF TypeOK, Put
  <1>3. ASSUME NEW u \in (Walking \ lost)' PROVE PositionOK(u)'
    <2>1. u \in Walking \ lost /\ PositionOK(u)
      BY DEF IInv, Positions, Walking, Put
    <2>2. "insert" \notin usage => values' = values
      BY <2>1 DEF Put
    <2>3. QED
      BY <2>1, <2>2 DEF PositionOK, Put
  <1>4. QED
    BY <1>2, <1>3 DEF IInv, Positions, LostToOthers, Put

LEMMA StepInv == IInv /\ [Next]_vars => IInv'
  <1>1. SUFFICES ASSUME IInv, [Next]_vars PROVE IInv'
    OBVIOUS
  <1>2. ASSUME NEW w \in Walks, Begin(w) PROVE IInv'
    BY <1>1, <1>2, BeginInv
  <1>3. ASSUME NEW w \in Walks, Increment(w) PROVE IInv'
    BY <1>1, <1>3, IncrementInv
  <1>4. ASSUME NEW w \in Walks, Look(w) PROVE IInv'
    BY <1>1, <1>4, LookInv
  <1>5. ASSUME NEW w \in Walks, Write(w) PROVE IInv'
    BY <1>1, <1>5, WriteInv
  <1>6. ASSUME NEW w \in Walks, EraseAt(w) PROVE IInv'
    BY <1>1, <1>6, EraseAtInv
  <1>7. ASSUME NEW id \in 1 .. MaxId, Put(id) PROVE IInv'
    BY <1>1, <1>7, PutInv
  <1>8. ASSUME NEW S, EraseAll(S) PROVE IInv'
    BY <1>1, <1>8, RemoveInv DEF EraseAll
  <1>9. CASE UNCHANGED vars
    BY <1>1, <1>9 DEF vars, IInv, TypeOK, Positions, PositionOK, Walking, LostToOthers
  <1>10. QED
    BY <1>1, <1>2, <1>3, <1>4, <1>5, <1>6, <1>7, <1>8, <1>9
    DEF Next, Erase, Trim, Clear

\* The inductive invariant holds in every behaviour.
THEOREM PositionsInvariant == Spec => []IInv
  BY InitInv, StepInv, PTL DEF Spec

\* The type invariant of the iterators (Iterator.h:155-158).
THEOREM WalkTypeCorrect == Spec => []TypeOK
  BY PositionsInvariant, PTL DEF IInv

(***************************************************************************)
(* What the walks find.                                                    *)
(***************************************************************************)
\* miss() finds the value of an item that is not ahead of var_.
LEMMA FindsFrom ==
  ASSUME TypeOK, NEW w \in Walking, dic[w] \in values, var[w] <= dic[w]
  PROVE  ~Misses(w)
  <1>1. dic[w] \in 1 .. End /\ dic[w] \in Nat /\ w \in Walks
    <2>1. dic[w] \in ItemIds /\ w \in Walks
      BY DEF Walking
    <2>2. dic[w] \in 1 .. MaxId
      BY <2>1, IdsBelowEnd
    <2>3. QED
      BY <2>1, <2>2 DEF End
  <1>2. var[w] \in Nat
    BY <1>1, IdsBelowEnd, EndIsNumber DEF TypeOK
  <1>3. Settled(w, dic[w])
    BY <1>1, <1>2 DEF Settled, First
  <1>4. QED
    BY <1>1, <1>3 DEF Misses

LEMMA FindsOld == IInv => OldIsFound
  <1>1. SUFFICES ASSUME IInv, NEW w \in Walking \ lost, dic[w] \in old[w] PROVE ~Misses(w)
    BY DEF OldIsFound
  <1>2. TypeOK /\ PositionOK(w) /\ w \in Walks /\ dic[w] \in ItemIds
    BY <1>1 DEF IInv, Positions, Walking
  <1>3. dic[w] \in values /\ dic[w] <= dic[w]
    <2>1. dic[w] \in Nat
      BY <1>2, IdsBelowEnd
    <2>2. QED
      BY <1>1, <1>2, <2>1 DEF TypeOK
  <1>4. var[w] <= dic[w]
    BY <1>1, <1>2, <1>3 DEF PositionOK
  <1>5. QED
    BY <1>2, <1>3, <1>4, FindsFrom

\* Values that are there since the walk began are found, whatever the application does
\* (miss(), Iterator.h:120-143).
THEOREM OldValuesFound == Spec => []OldIsFound
  BY PositionsInvariant, FindsOld, PTL

LEMMA ExactWalk == IInv => WalkExact
  <1>1. SUFFICES ASSUME IInv, "insert" \notin usage, NEW w \in Walking
                 PROVE  IF w \in lost THEN usage \cap {"erase", "share"} # {}
                                      ELSE Misses(w) <=> dic[w] \notin values
    BY DEF WalkExact
  <1>2. CASE w \in lost
    BY <1>1, <1>2 DEF IInv, LostToOthers
  <1>3. CASE w \notin lost
    <2>1. TypeOK /\ PositionOK(w) /\ w \in Walks /\ dic[w] \in ItemIds
      BY <1>1, <1>3 DEF IInv, Positions, Walking
    <2>2. ASSUME dic[w] \in values PROVE ~Misses(w)
      <3>1. dic[w] \in old[w]
        BY <1>1, <2>1, <2>2 DEF PositionOK
      <3>2. QED
        BY <1>1, <1>3, <3>1, FindsOld DEF OldIsFound
    <2>3. ASSUME dic[w] \notin values PROVE Misses(w)
      <3>1. SUFFICES ASSUME NEW v \in 1 .. End, Settled(w, v) PROVE v # dic[w]
        BY DEF Misses
      <3>2. QED
        BY <1>1, <1>3, <2>1, <2>3, <3>1, SettledPosition, EndIsNumber
    <2>4. QED
      BY <1>3, <2>2, <2>3
  <1>4. QED
    BY <1>2, <1>3

\* Where nothing is inserted during a walk, it answers as the message does, and is
\* lost only if others erase (Iterator.h:100-143, 201-210).
THEOREM WalksAreExact == Spec => []WalkExact
  BY PositionsInvariant, ExactWalk, PTL
=============================================================================
