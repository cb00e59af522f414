----------------------------- MODULE RecordStore -----------------------------
(***************************************************************************)
(* What a Java program may expect of a message: every item always has a    *)
(* content, a sequence of elements that is <<x>> for a single value.  A    *)
(* call that throws changes nothing, a call that writes changes the item   *)
(* it names, and a call that reads answers with what is there.             *)
(***************************************************************************)
EXTENDS Integers, Sequences

CONSTANTS Keys,     \* the items
          Lists,    \* those that are sequences
          Elements, \* the values of elements
          Initial,  \* the content of an item that was not set
          Filler,   \* the elements a sequence is extended with
          MaxLen,   \* bound on the length of a sequence
          Done, Refused

VARIABLES content, answer

Init == content = Initial /\ answer = Done

Assign(k, x) == /\ content' = [content EXCEPT ![k] = <<x>>]
                /\ answer' = Done

SetElement(k, i, x) ==
  /\ content' = [content EXCEPT ![k] =
       [j \in 1 .. (IF i > Len(@) THEN i ELSE Len(@)) |->
          IF j = i THEN x ELSE IF j <= Len(@) THEN @[j] ELSE Filler]]
  /\ answer' = Done

Remove(k) == content' = [content EXCEPT ![k] = Initial[k]] /\ answer' = Done

Refuse == UNCHANGED content /\ answer' = Refused

Element(k, i) == /\ i <= Len(content[k])
                 /\ UNCHANGED content /\ answer' = content[k][i]

Length(k) == /\ UNCHANGED content
             /\ answer' = [size |-> IF k \in Lists THEN Len(content[k]) ELSE 0]

Describe == UNCHANGED content /\ answer' = Done

Next == \/ Refuse \/ Describe
        \/ \E k \in Keys : \/ Remove(k) \/ Length(k)
                           \/ \E i \in 1 .. MaxLen : Element(k, i)
        \/ \E k \in Keys \ Lists, x \in Elements : Assign(k, x)
        \/ \E k \in Lists, i \in 1 .. MaxLen, x \in Elements : SetElement(k, i, x)

Spec == Init /\ [][Next]_<<content, answer>>
=============================================================================
