------------------------------ MODULE FieldTypes ------------------------------
(***************************************************************************)
(* The types of fields and items (Types.h), in the order of the            *)
(* enumeration: a sequence has the type of its elements plus SEQ_DELTA.    *)
(***************************************************************************)
EXTENDS Integers

EMPTY       == 0
BOOL        == 1
LONG        == 2
DOUBLE      == 3
STRING_T    == 4  \* STRING is a keyword of TLA+
MESSAGE     == 5
SEQ_BOOL    == 6
SEQ_LONG    == 7
SEQ_DOUBLE  == 8
SEQ_STRING  == 9
SEQ_MESSAGE == 10
SEQ_DELTA   == 5

Types == EMPTY .. SEQ_MESSAGE

\* Mutant of SetSequence: the distance is counted from EMPTY.
SetSequenceFromEmpty(t) == t + SEQ_DELTA + 1

Repeated(t)    == t > MESSAGE
Primitive(t)   == t < MESSAGE
SetSequence(t) == t + SEQ_DELTA
Basic(t)       == IF Repeated(t) THEN t - SEQ_DELTA ELSE t
=============================================================================
