--------------------------- MODULE MCDicoTransfer ---------------------------
(***************************************************************************)
(* The instance of DicoTransfer for TLC: documents over three names, with  *)
(* elements that clash and elements that are malformed, and messages of    *)
(* other senders.  Ids are 1 to 4, 5 is ID_MAX, and 0, 6 and -1 are        *)
(* refused.  An int has 32 values, so that an id of 33 wraps to 1.  The    *)
(* LONG value odd is no double and becomes even.                           *)
(***************************************************************************)
EXTENDS DicoTransfer

CONSTANTS a, b, m, noname, missing, text, zero, odd, even

AllNames == {noname, a, b, m}
Order == <<noname, a, b, m>>
SomeDefaults == {zero, odd, even, text}
Rounded == [d \in SomeDefaults |-> IF d = odd THEN even ELSE d]
SomeVersions == {1, text}

Field(n, i, t) == [name |-> n, id |-> i, deprecated |-> FALSE, type |-> t]
Message(n, i)  == [name |-> n, id |-> i, deprecated |-> FALSE]
Item(n, q, r, d) == [name |-> n, required |-> q, repeated |-> r, default |-> d]

Fields == {Field(a, 1, LONG), Field(b, 2, STRING_T),
           Field(noname, 2, LONG),
           Field(b, IdMax, LONG),      \* a name twice
           Field(b, 0, LONG), Field(a, 6, LONG), Field(a, -1, LONG), Field(a, text, LONG),
           Field(missing, 1, LONG), Field(b, 2, EMPTY), Field(b, 2, MESSAGE),
           [Field(a, 1, LONG) EXCEPT !.deprecated = missing]}
Messages == {Message(m, 3), Message(m, 1), Message(m, 6),   \* a name or an id twice
             [Message(m, 3) EXCEPT !.deprecated = text]}
Items == {Item(a, TRUE, FALSE, odd), Item(a, FALSE, TRUE, missing), Item(a, FALSE, FALSE, text),
          Item(b, FALSE, FALSE, text), Item(m, FALSE, TRUE, missing),
          Item(noname, FALSE, FALSE, zero), Item(missing, FALSE, FALSE, zero),
          Item(a, text, FALSE, odd), Item(a, TRUE, missing, odd)}

Dod(fields) == [dod |-> TRUE, id |-> 1, version |-> 2, fields |-> fields]
FieldM(i, n, t) == [id |-> i, name |-> n, type |-> t, items |-> <<>>]
MessageM(i, n, items) == [id |-> i, name |-> n, type |-> MESSAGE, items |-> items]
ItemM(i, t) == [id |-> i, type |-> t, required |-> TRUE, default |-> IF t = LONG THEN even ELSE zero]

\* Well-formed ones, ones with a definition without type or an item without definition,
\* and ones that msgToDico() refuses.
OtherMsgs ==
  {Dod(<<FieldM(1, a, EMPTY), FieldM(1, b, LONG)>>),
   Dod(<<FieldM(1, a, EMPTY), FieldM(1, noname, LONG)>>),
   Dod(<<FieldM(1, a, EMPTY), FieldM(1, b, EMPTY), FieldM(1, noname, EMPTY)>>),
   Dod(<<MessageM(2, m, <<ItemM(1, BOOL), ItemM(4, LONG)>>), FieldM(1, noname, BOOL)>>),
   Dod(<<MessageM(33, m, <<ItemM(2, BOOL)>>), FieldM(2, a, TypeSpan + BOOL)>>),
   Dod(<<FieldM(1, a, LONG), FieldM(1, b, BOOL)>>),
   Dod(<<FieldM(1, a, LONG), FieldM(2, a, BOOL)>>),
   Dod(<<FieldM(0, a, LONG)>>), Dod(<<FieldM(IdMax, a, LONG)>>),
   Dod(<<FieldM(1, a, 6)>>), Dod(<<FieldM(1, a, 11)>>),
   Dod(<<FieldM(1, a, LONG), [FieldM(2, b, LONG) EXCEPT !.items = <<ItemM(1, LONG)>>]>>),
   Dod(<<FieldM(1, a, LONG), MessageM(2, m, <<ItemM(1, LONG), ItemM(1, LONG)>>)>>),
   Dod(<<FieldM(1, a, LONG), MessageM(2, m, <<ItemM(0, LONG)>>)>>),
   Dod(<<MessageM(2, m, <<ItemM(2, 11)>>)>>),
   [Dod(<<>>) EXCEPT !.dod = FALSE], [Dod(<<>>) EXCEPT !.id = 2]}
=============================================================================
