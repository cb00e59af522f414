------------------------------ MODULE JniMessage ------------------------------
(***************************************************************************)
(* The calls a Java program makes on one message (Message.java and its     *)
(* JNI functions).  A native function runs C++ operations one after the    *)
(* other; a C++ exception among them becomes a Java exception, pending     *)
(* when the function returns, and what the operations before it did stays. *)
(*                                                                         *)
(* A value is its type and the sequence of its elements, of length one for *)
(* a single value.  An inner message is its id and the answer of its       *)
(* check().                                                                *)
(***************************************************************************)
EXTENDS FieldTypes, Sequences, FiniteSets

CONSTANTS Items,    \* the items of the message: id -> [type, required, default]
          OtherIds, \* ids that are no items
          OwnId,    \* the id of the message
          Data,     \* the elements of the types BOOL to STRING
          Zero,     \* zero, false or ""
          Inners,   \* messages [id, bad] the program may set
          Indexes,  \* the indexes it passes
          MaxLen,   \* bound on the length of a sequence
          Refused,  \* what a call that throws answers
          None      \* no exception, no answer

ItemIds == DOMAIN Items
AllIds  == ItemIds \cup OtherIds

ASSUME JniAssumption ==
  /\ ItemIds \cap OtherIds = {} /\ ItemIds \subseteq Nat \ {0}
  /\ MaxLen \in Nat \ {0} /\ Indexes \subseteq Int
  /\ Zero \in Data /\ OwnId # 0
  /\ None \notin {"IdException", "TypeException", "Error", "ArrayIndexOutOfBoundsException"}
  /\ \A i \in ItemIds : /\ Items[i].type \in Types \ {EMPTY}
                        /\ Items[i].required \in BOOLEAN
                        /\ Items[i].default.type = Items[i].type
                        /\ IF Repeated(Items[i].type) THEN Items[i].default.seq = <<>>
                           ELSE Len(Items[i].default.seq) = 1

VARIABLES values,  \* Message::values_
          result,  \* the last call: the exception it threw, or its answer
          corrupt, \* the last call wrote outside of a vector
          strays   \* the program passes negative indexes to setters, and gives
                   \* sequences messages of another id than theirs

vars == <<values, result, corrupt, strays>>

Put(f, k, v)  == [x \in DOMAIN f \cup {k} |-> IF x = k THEN v ELSE f[x]]
Without(f, k) == [x \in DOMAIN f \ {k} |-> f[x]]

Value(type, seq) == [type |-> type, seq |-> seq]

Init == /\ values = [i \in {} |-> None] /\ corrupt = FALSE
        /\ strays \in BOOLEAN
        /\ result = [op |-> None, threw |-> None, answer |-> None]

(***************************************************************************)
(* The end of a call.                                                      *)
(***************************************************************************)
\* rethrow_cpp_exception_as_java_exception()
JavaException(e) == CASE e = "OutOfRangeException" -> "ArrayIndexOutOfBoundsException"
                      [] e = "length_error"        -> "Error"
                      [] OTHER                     -> e

Call(op, id, index, arg) == [op |-> op, id |-> id, index |-> index, arg |-> arg]

Answer(c, a) == result' = [op |-> c.op, threw |-> None, answer |-> a]
Throw(c, e)  == result' = [op |-> c.op, threw |-> JavaException(e), answer |-> None]

(***************************************************************************)
(* Operations of the C++ message.                                          *)
(***************************************************************************)
\* Sequences without elements are empty, present or not.
Empty(id) == id \in DOMAIN values => Repeated(values[id].type) /\ values[id].seq = <<>>

\* get() const: the value, or the default of the item.
Get(id) == IF id \in DOMAIN values THEN values[id] ELSE Items[id].default

\* Mutant of SetFault: the type is not compared.
SetFaultId(id, type) == IF id \notin ItemIds THEN "IdException" ELSE None

\* What set() throws.
SetFault(id, type) == CASE id \notin ItemIds        -> "IdException"
                        [] Items[id].type # type    -> "TypeException"
                        [] OTHER                    -> None

\* What get() const and the conversion behind it throw.
GetFault(id, type) == CASE id \notin ItemIds       -> "IdException"
                        [] Get(id).type # type     -> "TypeException"
                        [] OTHER                   -> None

\* check() of an inner message answers the id of its first bad item.
FirstBad(seq) ==
  LET bad == {i \in DOMAIN seq : seq[i].bad # 0}
  IN  IF bad = {} THEN 0 ELSE seq[CHOOSE i \in bad : \A j \in bad : i <= j].bad

NestedBad(v) == IF Basic(v.type) = MESSAGE THEN FirstBad(v.seq) ELSE 0

\* Message::check(id): a present sequence passes, empty or not.
CheckId(id) ==
  CASE id = 0              -> -1
    [] id \notin ItemIds   -> id
    [] id \notin DOMAIN values ->
         IF Items[id].required THEN id ELSE 0
    [] OTHER -> IF values[id].type # Items[id].type THEN id ELSE NestedBad(values[id])

\* iterator::check(), on which Message::check() is built: an empty sequence fails
\* where the item is required, and the item that holds the bad message is named.
IteratorCheck(id) ==
  IF Empty(id) THEN (IF Items[id].required THEN id ELSE 0)
  ELSE IF values[id].type # Items[id].type THEN id ELSE NestedBad(values[id])

\* Mutant of Check: only what was set is checked.
CheckPresent == LET bad == {id \in DOMAIN values : IteratorCheck(id) # 0}
                IN  IF bad = {} THEN 0 ELSE CHOOSE i \in bad : \A j \in bad : i <= j

Check == LET bad == {id \in ItemIds : IteratorCheck(id) # 0}
         IN  IF bad = {} THEN 0 ELSE CHOOSE i \in bad : \A j \in bad : i <= j

(***************************************************************************)
(* Setters of single values.                                               *)
(***************************************************************************)
Set(c, type) ==
  IF SetFault(c.id, type) # None
  THEN Throw(c, SetFault(c.id, type)) /\ UNCHANGED <<values, corrupt, strays>>
  ELSE /\ values' = Put(values, c.id, Value(type, <<c.arg>>))
       /\ Answer(c, None) /\ UNCHANGED <<corrupt, strays>>

\* setBool(), setLong(), setDouble() and setString()
SetPrimitive(id, type, x) == Set(Call("set", id, 0, x), type)

SetMessage(id, inner) == Set(Call("set", id, 0, inner), MESSAGE)

(***************************************************************************)
(* Setters of elements of sequences.  An empty item is first replaced by   *)
(* an empty sequence of the type wanted, which may throw; then the element *)
(* is written, and that may throw too.                                     *)
(***************************************************************************)
Opened(id, type) == IF Empty(id) THEN Put(values, id, Value(type, <<>>)) ELSE values

OpenFault(id, type) == IF Empty(id) THEN SetFault(id, type) ELSE GetFault(id, type)

\* Mutant of Resized: vector::resize() starts from an empty vector.
ResizedAnew(seq, n) == [i \in 1 .. n |-> Zero]

Resized(seq, n) == [i \in 1 .. n |-> IF i <= Len(seq) THEN seq[i] ELSE Zero]

Allowed(index) == index < 0 => strays

\* size_t pos = index: -1 becomes the largest size, pos + 1 is zero and the vector
\* is written to outside of its bounds; from other negative indexes resize() throws.
WriteElement(c, type) ==
  LET opened == Opened(c.id, type)
      seq    == opened[c.id].seq
      grown  == IF c.index >= Len(seq) THEN Resized(seq, c.index + 1) ELSE seq
  IN
  \/ /\ c.index >= 0 /\ c.index < MaxLen
     /\ values' = Put(values, c.id, Value(type, [grown EXCEPT ![c.index + 1] = c.arg]))
     /\ Answer(c, None) /\ UNCHANGED <<corrupt, strays>>
  \/ /\ c.index = -1
     /\ values' = Put(values, c.id, Value(type, <<>>))
     /\ Answer(c, None) /\ corrupt' = TRUE /\ UNCHANGED strays
  \/ /\ c.index < -1
     /\ values' = opened
     /\ Throw(c, "length_error") /\ UNCHANGED <<corrupt, strays>>

\* setBool(), setLong(), setDouble() and setString() with an index
SetElement(id, type, index, x) ==
  LET c == Call("setElement", id, index, x) IN
  /\ Allowed(index)
  /\ IF OpenFault(id, type) # None
     THEN Throw(c, OpenFault(id, type)) /\ UNCHANGED <<values, corrupt, strays>>
     ELSE WriteElement(c, type)

StoreMessage(seq, index, inner) ==
  IF index >= 0 /\ index < Len(seq) THEN [seq EXCEPT ![index + 1] = inner]
  ELSE IF index = Len(seq) THEN Append(seq, inner)
  ELSE seq

\* A message of another id makes an Error pending and is stored nevertheless.
\* The text of the error about a hole is never finished: toSeqBool() throws on a
\* sequence of messages.  Which exception stays when one is already pending is
\* not defined.
SetMessageAt(id, index, inner) ==
  LET c       == Call("setMessageAt", id, index, inner)
      fault   == OpenFault(id, SEQ_MESSAGE)
      opened  == Opened(id, SEQ_MESSAGE)
      seq     == opened[id].seq
      hole    == index < 0 \/ index > Len(seq)
      pending == IF inner.id # id THEN {"Error"} ELSE {}
      raised  == IF fault # None THEN {fault}
                 ELSE IF hole THEN {"TypeException"} ELSE {}
  IN  /\ index < MaxLen /\ Allowed(index)
      /\ inner.id = id \/ strays
      /\ values' = IF fault # None THEN values
                   ELSE Put(values, id, Value(SEQ_MESSAGE, StoreMessage(seq, index, inner)))
      /\ IF pending \cup raised = {} THEN Answer(c, None)
                                     ELSE \E e \in pending \cup raised : Throw(c, e)
      /\ UNCHANGED <<corrupt, strays>>

Erase(id) == /\ values' = Without(values, id)
             /\ Answer(Call("erase", id, 0, None), None)
             /\ UNCHANGED <<corrupt, strays>>

(***************************************************************************)
(* Getters.                                                                *)
(***************************************************************************)
\* getBool(), getLong(), getDouble(), getString() and cloneMessage()
GetSingle(id, type) ==
  LET c == Call("get", id, 0, None) IN
  /\ IF GetFault(id, type) # None THEN Throw(c, GetFault(id, type))
                                  ELSE Answer(c, Get(id).seq[1])
  /\ UNCHANGED <<values, corrupt, strays>>

\* The same with an index: as a size, a negative index is beyond every end.
GetElement(id, type, index) ==
  LET c == Call("getElement", id, index, None) IN
  /\ CASE GetFault(id, type) # None -> Throw(c, GetFault(id, type))
       [] GetFault(id, type) = None /\ (index < 0 \/ index >= Len(Get(id).seq)) ->
            Throw(c, "OutOfRangeException")
       [] OTHER -> Answer(c, Get(id).seq[index + 1])
  /\ UNCHANGED <<values, corrupt, strays>>

GetSeqSize(id) ==
  LET c == Call("getSeqSize", id, 0, None) IN
  /\ CASE id \notin ItemIds                             -> Throw(c, "IdException")
       [] id \in ItemIds /\ Repeated(Items[id].type)    -> Answer(c, [size |-> Len(Get(id).seq)])
       [] OTHER                                         -> Answer(c, [size |-> 0])
  /\ UNCHANGED <<values, corrupt, strays>>

\* The type of a definition, which need not be of an item; EMPTY if there is none.
TypesInDico(id) == IF id \in ItemIds THEN {Basic(Items[id].type)} ELSE EMPTY .. MESSAGE

\* isAllowed(), isEmpty(), isRequired(), isRepeated(), getType() and check(id)
Describe(id) ==
  LET c == Call("describe", id, 0, None) IN
  /\ \/ Answer(c, [allowed |-> id \in ItemIds])
     \/ Answer(c, [empty |-> Empty(id)])
     \/ Answer(c, [check |-> CheckId(id)])
     \/ \E t \in TypesInDico(id) : Answer(c, [typeDico |-> t])
     \/ IF id \notin ItemIds THEN Throw(c, "IdException")
        ELSE \/ Answer(c, [required |-> Items[id].required])
             \/ Answer(c, [repeated |-> Repeated(Items[id].type)])
             \/ Answer(c, [type |-> Items[id].type])
  /\ UNCHANGED <<values, corrupt, strays>>

\* size() is a jboolean: the number of values modulo 256, and whether that is zero.
DescribeMessage ==
  LET c == Call("describe", 0, 0, None) IN
  /\ \/ Answer(c, [check |-> Check])
     \/ Answer(c, [size |-> Cardinality(DOMAIN values) % 256 # 0])
     \/ Answer(c, [id |-> OwnId])
  /\ UNCHANGED <<values, corrupt, strays>>

Next ==
  /\ ~corrupt
  /\ \/ \E id \in AllIds :
          \/ Erase(id) \/ GetSeqSize(id) \/ Describe(id)
          \/ \E x \in Data :
               \/ \E t \in BOOL .. STRING_T : SetPrimitive(id, t, x)
               \/ \E t \in SEQ_BOOL .. SEQ_STRING, n \in Indexes : SetElement(id, t, n, x)
          \/ \E x \in Inners :
               \/ SetMessage(id, x)
               \/ \E n \in Indexes : SetMessageAt(id, n, x)
          \/ \E t \in BOOL .. MESSAGE : GetSingle(id, t)
          \/ \E t \in SEQ_BOOL .. SEQ_MESSAGE, n \in Indexes : GetElement(id, t, n)
     \/ DescribeMessage

Spec == Init /\ [][Next]_vars

(***************************************************************************)
(* Properties.                                                             *)
(***************************************************************************)
ElementsOf(type) == IF Basic(type) = MESSAGE THEN Inners ELSE Data

\* Every value has the type of its item, whatever was called and whatever was
\* thrown: the encoder writes values by the type of the item (Message::set).
TypeOK ==
  /\ DOMAIN values \subseteq ItemIds /\ corrupt \in BOOLEAN
  /\ \A id \in DOMAIN values :
       /\ values[id].type = Items[id].type
       /\ values[id].seq \in Seq(ElementsOf(values[id].type)) /\ Len(values[id].seq) <= MaxLen
       /\ ~Repeated(values[id].type) => Len(values[id].seq) = 1

\* What the getters can tell of the message.
Visible == [id \in ItemIds |-> Get(id).seq]

\* The calls of a program that keeps to the documentation; of another one, none.
Store == INSTANCE RecordStore WITH
           Keys <- ItemIds, Lists <- {id \in ItemIds : Repeated(Items[id].type)},
           Elements <- Data \cup Inners, Filler <- Zero,
           Initial <- [id \in ItemIds |-> Items[id].default.seq],
           Done <- None,
           content <- IF strays THEN [id \in ItemIds |-> Items[id].default.seq] ELSE Visible,
           answer <- IF strays THEN None
                     ELSE IF result.threw # None THEN Refused
                     ELSE IF result.op = "describe" THEN None ELSE result.answer

\* As far as the getters can tell, a call that throws has done nothing, one that
\* succeeds has changed the one element it names, and what a getter answers is the
\* content: the JNI functions, with all they do before they throw, implement
\* RecordStore for a program that keeps to the documentation.
ImplementsStore == Store!Spec

\* When check() finds nothing wrong, no check(id) does; when it does, either some
\* check(id) does or a required sequence is present without elements
\* (Message.cpp:31-105, Iterator.h:59-94).
CheckSound ==
  (Check = 0) <=> /\ \A id \in ItemIds : CheckId(id) = 0
                  /\ \A id \in DOMAIN values : Items[id].required => ~Empty(id)
=============================================================================
