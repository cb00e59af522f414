----------------------------- MODULE MCJniMessage -----------------------------
(***************************************************************************)
(* The instance of JniMessage for TLC: a message with a single value, a    *)
(* message, and a sequence of each kind; sequences of up to two elements.  *)
(***************************************************************************)
EXTENDS JniMessage, TLC

CONSTANTS zero, one

TwoData == {zero, one}

\* Item 3 is a message whose own items include a required one, 7.
Inner3    == [id |-> 3, bad |-> 7]
SomeInners == {[id |-> 4, bad |-> 8], [id |-> 3, bad |-> 0]}

Item(t, q, seq) == [type |-> t, required |-> q, default |-> Value(t, seq)]

FourItems == (1 :> Item(LONG, TRUE, <<one>>)) @@ (2 :> Item(SEQ_BOOL + 1, FALSE, <<>>))
             @@ (3 :> Item(MESSAGE, FALSE, <<Inner3>>)) @@ (4 :> Item(SEQ_MESSAGE, TRUE, <<>>))

SomeIndexes == -2 .. 1
=============================================================================
