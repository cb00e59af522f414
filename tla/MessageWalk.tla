----------------------------- MODULE MessageWalk -----------------------------
(***************************************************************************)
(* Iterators on a message (Iterator.h).  A walk goes over the items that   *)
(* the dictionary allows, in the order of their ids, and merges them with  *)
(* the values that are there: dic_ is the item the walk is at, var_ a      *)
(* position in values_ that is only moved when an answer is wanted, and    *)
(* that later changes of the message may overtake or destroy.              *)
(*                                                                         *)
(* Erasing a value invalidates the iterators of std::map that are at it;   *)
(* inserting one invalidates none.  What values are, and the assignment of *)
(* whole messages, is left out.                                            *)
(***************************************************************************)
EXTENDS Naturals, FiniteSets

CONSTANTS MaxId,    \* ids are numbers from 1 on
          ItemIds,  \* the items of the message
          Walks     \* iterators

ASSUME WalkAssumption == MaxId \in Nat /\ ItemIds \subseteq 1 .. MaxId

\* What an application may do to a message while a walk of it is under way.
Usages == {"insert",  \* set or get values that are not there
           "erase",   \* erase by id, trim or clear
           "share"}   \* erase through an iterator while there are others

VARIABLES values,  \* the ids that have a value
          blank,   \* those whose value is a sequence without elements
          dic,     \* Walks -> dic_, an item, End, or 0 before begin()
          var,     \* Walks -> var_, a value or End
          lost,    \* the walks whose var_ was invalidated
          old,     \* history: Walks -> the values there since begin()
          usage    \* what this application does

vars == <<values, blank, dic, var, lost, old, usage>>

\* items().end() and values_.end(): above all ids.
End == MaxId + 1

Init == /\ values \in SUBSET ItemIds /\ blank \in SUBSET values
        /\ dic = [w \in Walks |-> 0] /\ var = [w \in Walks |-> End]
        /\ lost = {} /\ old = [w \in Walks |-> {}]
        /\ usage \in SUBSET Usages

\* i is the first of S from id on, or End.
First(S, id, i) == /\ i \in S \cup {End} /\ id <= i
                   /\ \A x \in S : id <= x => i <= x

Walking == {w \in Walks : dic[w] \in ItemIds}

(***************************************************************************)
(* The iterator.                                                           *)
(***************************************************************************)
Begin(w) == \E i, v \in 1 .. End :
  /\ First(ItemIds, 1, i) /\ dic' = [dic EXCEPT ![w] = i]
  /\ First(values, 1, v) /\ var' = [var EXCEPT ![w] = v]
  /\ lost' = lost \ {w} /\ old' = [old EXCEPT ![w] = values]
  /\ UNCHANGED <<values, blank, usage>>

\* Mutant of Increment: the value is moved with the item.
IncrementBoth(w) == \E i, v \in 1 .. End :
  /\ w \in Walking \ lost
  /\ First(ItemIds, dic[w] + 1, i) /\ dic' = [dic EXCEPT ![w] = i]
  /\ IF var[w] = End THEN v = End ELSE First(values, var[w] + 1, v)
  /\ var' = [var EXCEPT ![w] = v]
  /\ UNCHANGED <<values, blank, lost, old, usage>>

\* operator++
Increment(w) == \E i \in 1 .. End :
  /\ w \in Walking \ lost
  /\ First(ItemIds, dic[w] + 1, i) /\ dic' = [dic EXCEPT ![w] = i]
  /\ UNCHANGED <<values, blank, var, lost, old, usage>>

\* Mutant of Settled: one value is passed, not all that are behind the item.
SettledOnce(w, v) == IF var[w] >= dic[w] THEN v = var[w] ELSE First(values, var[w] + 1, v)

\* Where the loop of miss() leaves var_: at the first value not below the item, which
\* it does not look for below its position.
Settled(w, v) == IF var[w] >= dic[w] THEN v = var[w] ELSE First(values, dic[w], v)

\* Whether miss() answers that the item has no value.
Misses(w) == \A v \in 1 .. End : Settled(w, v) => v # dic[w]

\* empty(), present(), check() and operator* of a const iterator only move var_.
Look(w) == \E v \in 1 .. End :
  /\ w \in Walking \ lost
  /\ Settled(w, v) /\ var' = [var EXCEPT ![w] = v]
  /\ UNCHANGED <<values, blank, dic, lost, old, usage>>

(***************************************************************************)
(* Changes of the message.                                                 *)
(***************************************************************************)
\* The values of S go, and with them the positions of the walks that are at one of
\* them, which var' tells.
Remove(S) == /\ values' = values \ S /\ blank' = blank \ S
             /\ old' = [w \in Walks |-> old[w] \ S]
             /\ lost' = lost \cup {w \in Walking : var'[w] \in S}

\* operator* of an iterator, through which the application writes.
Write(w) == /\ w \in Walking \ lost
            /\ \E v \in 1 .. End : /\ Settled(w, v) /\ v = dic[w]
                                   /\ var' = [var EXCEPT ![w] = v]
            /\ blank' \in {blank \cup {dic[w]}, blank \ {dic[w]}}
            /\ UNCHANGED <<values, dic, lost, old, usage>>

\* Mutant of EraseAt: var_ is not moved on before the value goes.
EraseAtStays(w) == \E v \in 1 .. End :
  /\ w \in Walking \ lost /\ ("share" \in usage \/ Walking = {w})
  /\ Settled(w, v) /\ var' = [var EXCEPT ![w] = v]
  /\ IF v = dic[w] THEN Remove({v}) ELSE UNCHANGED <<values, blank, old, lost>>
  /\ UNCHANGED <<dic, usage>>

\* erase(iterator): var_ goes to the next value, then the value goes.
EraseAt(w) == \E v, next \in 1 .. End :
  /\ w \in Walking \ lost /\ ("share" \in usage \/ Walking = {w})
  /\ Settled(w, v)
  /\ IF v = dic[w]
     THEN /\ First(values, v + 1, next) /\ var' = [var EXCEPT ![w] = next]
          /\ Remove({v})
     ELSE /\ next = v /\ var' = [var EXCEPT ![w] = v]
          /\ UNCHANGED <<values, blank, old, lost>>
  /\ UNCHANGED <<dic, usage>>

\* Mutant of Put: the item is not looked for in the dictionary.
PutAny(id) == /\ Walking = {} \/ id \in values \/ "insert" \in usage
              /\ values' = values \cup {id} /\ blank' \in {blank \cup {id}, blank \ {id}}
              /\ UNCHANGED <<dic, var, lost, old, usage>>

\* set() and get() of a value; they throw when the message has no such item.
Put(id) == /\ id \in ItemIds
           /\ Walking = {} \/ id \in values \/ "insert" \in usage
           /\ values' = values \cup {id} /\ blank' \in {blank \cup {id}, blank \ {id}}
           /\ UNCHANGED <<dic, var, lost, old, usage>>

EraseAll(S) == /\ Walking = {} \/ "erase" \in usage
               /\ UNCHANGED <<dic, var, usage>> /\ Remove(S)

Erase(id) == id \in values /\ EraseAll({id})

Trim == EraseAll(blank)

Clear == EraseAll(values)

Next == \/ \E w \in Walks : \/ Begin(w) \/ Increment(w) \/ Look(w)
                            \/ Write(w) \/ EraseAt(w)
        \/ \E id \in 1 .. MaxId : Put(id) \/ Erase(id)
        \/ Trim \/ Clear

Spec == Init /\ [][Next]_vars

(***************************************************************************)
(* Properties.                                                             *)
(***************************************************************************)
TypeOK == /\ values \subseteq ItemIds /\ blank \subseteq values
          /\ dic \in [Walks -> {0, End} \cup ItemIds]
          /\ var \in [Walks -> {End} \cup ItemIds]
          /\ lost \subseteq Walks
          /\ old \in [Walks -> SUBSET values]

\* What was in the message when the walk began, and was not removed since, is found
\* when the walk comes to its item, whatever the application inserted meanwhile and
\* however far var_ lags behind or is ahead (miss(), Iterator.h:120-143).
OldIsFound == \A w \in Walking \ lost : dic[w] \in old[w] => ~Misses(w)

\* Where nothing is inserted during a walk, it answers as the message does: the item
\* is missed exactly when it has no value (Message::empty(id), Iterator.h:100-114),
\* also after the walk erased the value it was at, which leaves it a valid position
\* (Iterator.h:201-210). Only one that others erase under is lost.
WalkExact ==
  "insert" \notin usage =>
    \A w \in Walking :
       IF w \in lost THEN usage \cap {"erase", "share"} # {}
                    ELSE Misses(w) <=> dic[w] \notin values
=============================================================================
