------------------------------ MODULE WireDecode ------------------------------
(***************************************************************************)
(* Codec::decode() on the bytes of one message (Decode.cpp): positions,    *)
(* lengths and counts, which all come from the wire.  The header in front  *)
(* of the message was read, and MessageStream has what is around it.       *)
(*                                                                         *)
(* The buffer is a sequence of tokens.  A token stands for the bytes of    *)
(* one varint, of a part of a double or of a character, and the same token *)
(* is read as a tag, a length, a count or a value: whatever the decoder    *)
(* takes it for.  In AnyBuffer, each token is chosen when it is read, so   *)
(* that all buffers of the length are decoded.                             *)
(*                                                                         *)
(* A value is a number, a string is its length, a message is the function  *)
(* of its values.  What a decode that throws leaves in the message is not  *)
(* looked at.                                                              *)
(***************************************************************************)
EXTENDS WireEncode

CONSTANTS Tokens,     \* messages decoded from any buffer -> what its tokens may be
          HeaderSize, \* tokens of the header of the dictionary
          MaxLimit,   \* bound on the length of an arbitrary buffer
          Sent,       \* messages -> the values that a buffer may be the encoding of
          AnyBuffer, None

ASSUME WireAssumption ==
  /\ DOMAIN Tokens \cup DOMAIN Sent \subseteq DOMAIN Dico
  /\ \A r \in DOMAIN Tokens : Tokens[r] \subseteq Int
  /\ \A r \in DOMAIN Sent : \A m \in Sent[r] : IsMessage(r, m) /\ m # None
  /\ AnyBuffer \notin Seq(Int)
  /\ HeaderSize \in Nat /\ MaxLimit \in Nat /\ MaxLimit < MaxDepth

VARIABLES buffer,  \* the tokens, or AnyBuffer
          limit,   \* the length of the buffer
          pos,     \* tokens read
          open,    \* the messages being decoded, the root first
          at,      \* "tag", "sequence", "done" or "threw"
          todo,    \* the packed sequence being decoded, or None
          spans,   \* history: the tokens of each item decoded, [from, to)
          sent,    \* history: the message the buffer is the encoding of, or None
          round    \* history: 1, and 2 when the decoded message is decoded again

vars == <<buffer, limit, pos, open, at, todo, spans, sent, round>>

NoValues == [i \in {} |-> None]

Put(f, k, v) == [x \in DOMAIN f \cup {k} |-> IF x = k THEN v ELSE f[x]]

Frame(id, end, type) == [id |-> id, from |-> pos, end |-> end, type |-> type, values |-> NoValues]

Start(root) == /\ pos = 0 /\ at = "tag" /\ todo = None /\ spans = {}
               /\ open = <<Frame(root, limit, MESSAGE)>>

\* Any buffer of some length, or the first tokens of an encoded message.
Init == /\ \/ /\ buffer = AnyBuffer /\ limit \in 0 .. MaxLimit /\ sent = None
              /\ \E root \in DOMAIN Tokens : Start(root)
           \/ \E root \in DOMAIN Sent : \E m \in Sent[root] :
                \E n \in 0 .. Len(Encode(root, m)) :
                  /\ buffer = SubSeq(Encode(root, m), 1, n) /\ limit = n /\ sent = m
                  /\ Start(root)
        /\ round = 1

(***************************************************************************)
(* Reading.                                                                *)
(***************************************************************************)
Root   == open[1].id
Top    == open[Len(open)]
Nested == Len(open) > 1

\* The tokens that may be at position p: none behind the end of the buffer.
At(p) == IF p >= limit THEN {}
         ELSE IF buffer = AnyBuffer THEN Tokens[Root] ELSE {buffer[p + 1]}

\* The varints that may be at position p: the value and the position behind it,
\* which is behind the end of the buffer when the varint is cut.
Varints(p) == {[value |-> v, next |-> p + VarintSize(v)] : v \in At(p)}

Same == UNCHANGED <<buffer, limit, sent, round>>

Throw == /\ at' = "threw"
         /\ Same /\ UNCHANGED <<pos, open, todo, spans>>

\* The next tag is t, in the message on top.
Tag(t) == /\ at = "tag" /\ (Nested => pos < Top.end)
          /\ t \in At(pos) /\ t # 0

\* The tag t is that of an item of the message, which has this type.
Item(t, type) == /\ Tag(t) /\ t \in Tags /\ TagItem[t] \in DOMAIN Dico[Top.id]
                 /\ Dico[Top.id][TagItem[t]] = type

Fresh(t) == TagItem[t] \notin DOMAIN Top.values

Stored(t, v) == [open EXCEPT ![Len(open)].values = Put(@, TagItem[t], v)]

Read(to) == pos' = to /\ spans' = spans \cup {[from |-> pos, to |-> to]}

\* An item of a single value is inserted; it may not be there yet.
Insert(t, v, to) == IF Fresh(t)
                    THEN /\ open' = Stored(t, v) /\ Read(to)
                         /\ Same /\ UNCHANGED <<at, todo>>
                    ELSE Throw

\* readAny(): the wire type of the tag must be right and the bytes must be there.
Readable(t, wire) == TagWire[t] = wire /\ pos + 1 < limit

DecodeBool(t) ==
  /\ Item(t, BOOL)
  /\ IF Readable(t, "varint")
     THEN \E r \in Varints(pos + 1) :
            IF r.next <= limit THEN Insert(t, IF r.value = 0 THEN 0 ELSE 1, r.next) ELSE Throw
     ELSE Throw

DecodeLong(t) ==
  /\ Item(t, LONG)
  /\ IF Readable(t, "varint")
     THEN \E r \in Varints(pos + 1) :
            IF r.next <= limit THEN Insert(t, r.value, r.next) ELSE Throw
     ELSE Throw

DecodeDouble(t) ==
  /\ Item(t, DOUBLE)
  /\ IF Readable(t, "fixed64") /\ pos + 1 + DoubleSize <= limit
     THEN \E v \in At(pos + 1) : Insert(t, v, pos + 1 + DoubleSize)
     ELSE Throw

\* Mutant of Fits: the length is only compared with the end.
FitsAnyLength(r) == r.next + r.value <= limit

\* readString(): a length r, then as many bytes.
Fits(r) == r.value >= 0 /\ r.next + r.value <= limit

DecodeStr(t) ==
  /\ Item(t, STRING_T)
  /\ IF Readable(t, Delimited)
     THEN \E r \in Varints(pos + 1) :
            IF Fits(r) THEN Insert(t, r.value, r.next + r.value) ELSE Throw
     ELSE Throw

\* An element of a sequence of strings, whose wire type nobody looks at.
DecodeSeqStr(t) ==
  /\ Item(t, SEQ_STRING)
  /\ IF pos + 1 < limit
     THEN \E r \in Varints(pos + 1) :
            IF Fits(r)
            THEN /\ open' = Stored(t, IF Fresh(t) THEN <<r.value>>
                                      ELSE Append(Top.values[TagItem[t]], r.value))
                 /\ Read(r.next + r.value)
                 /\ Same /\ UNCHANGED <<at, todo>>
            ELSE Throw
     ELSE Throw

(***************************************************************************)
(* Nested messages: decodeMsg() and decode(msg, input, bytes).             *)
(***************************************************************************)
\* The values of the message above with a sub-message of it decoded.
With(values, item, type, m) ==
  Put(values, item,
      IF type = MESSAGE THEN m
      ELSE IF item \in DOMAIN values THEN Append(values[item], m) ELSE <<m>>)

\* A length of zero is an empty message; a negative one is an error.
DecodeMsg(t) ==
  \E type \in {MESSAGE, SEQ_MESSAGE} :
    /\ Item(t, type)
    /\ IF Readable(t, Delimited) /\ (type = MESSAGE => Fresh(t))
       THEN \E r \in Varints(pos + 1) :
              \/ /\ r.next > limit \/ r.value < 0
                 /\ Throw
              \/ /\ r.next <= limit /\ r.value = 0
                 /\ open' = [open EXCEPT ![Len(open)].values =
                               With(@, TagItem[t], type, NoValues)]
                 /\ Read(r.next)
                 /\ Same /\ UNCHANGED <<at, todo>>
              \/ /\ r.next <= limit /\ r.value > 0
                 /\ open' = Append(open, Frame(TagItem[t], r.next + r.value, type))
                 /\ pos' = r.next
                 /\ Same /\ UNCHANGED <<at, todo, spans>>
       ELSE Throw

\* Mutant of EndsWell: the end only has to be reached.
EndsReached(end) == pos >= end

EndsWell(end) == pos = end

CloseMsg ==
  /\ at = "tag" /\ Nested /\ pos >= Top.end
  /\ IF EndsWell(Top.end)
     THEN /\ open' = [i \in 1 .. Len(open) - 1 |->
                        IF i < Len(open) - 1 THEN open[i]
                        ELSE [open[i] EXCEPT !.values = With(@, Top.id, Top.type, Top.values)]]
          /\ spans' = spans \cup {[from |-> Top.from, to |-> Top.end]}
          /\ Same /\ UNCHANGED <<pos, at, todo>>
     ELSE Throw

\* Mutant of EndOfInput: the message on top ends where the buffer ends.
EndOfInputNested ==
  /\ at = "tag" /\ (Nested => pos < Top.end)
  /\ \/ At(pos) = {} /\ UNCHANGED pos
     \/ 0 \in At(pos) /\ pos' = pos + 1
  /\ IF Nested
     THEN /\ open' = [i \in 1 .. Len(open) - 1 |->
                        IF i < Len(open) - 1 THEN open[i]
                        ELSE [open[i] EXCEPT !.values = With(@, Top.id, Top.type, Top.values)]]
          /\ at' = at
     ELSE at' = "done" /\ open' = open
  /\ Same /\ UNCHANGED <<todo, spans>>

\* ReadTag() gives 0 at the end of the buffer, and for the null character.  It ends
\* the message decoded and nothing else.
EndOfInput ==
  /\ at = "tag" /\ (Nested => pos < Top.end)
  /\ \/ At(pos) = {} /\ UNCHANGED pos
     \/ 0 \in At(pos) /\ pos' = pos + 1
  /\ at' = IF Nested THEN "threw" ELSE "done"
  /\ Same /\ UNCHANGED <<open, todo, spans>>

(***************************************************************************)
(* Packed sequences: an array of as many elements as the length says, for  *)
(* doubles as that many eighths, or up to the end the length gives.        *)
(***************************************************************************)
\* The count of doubles in so many bytes; the division rounds towards zero.
Eighth(n) == IF n >= 0 THEN n \div DoubleSize ELSE -((-n) \div DoubleSize)

OpenSequence(t) ==
  \E type \in {SEQ_BOOL, SEQ_LONG, SEQ_DOUBLE} :
    /\ Item(t, type)
    /\ IF Readable(t, Delimited) /\ Fresh(t)
       THEN \E r \in Varints(pos + 1) :
              IF r.next <= limit
              THEN /\ todo' = [tag |-> t, type |-> Basic(type), elements |-> <<>>, from |-> pos,
                               count |-> IF type = SEQ_BOOL THEN r.value ELSE Eighth(r.value),
                               end |-> r.next + r.value]
                   /\ at' = "sequence" /\ pos' = r.next
                   /\ Same /\ UNCHANGED <<open, spans>>
              ELSE Throw
       ELSE Throw

\* while (count--), a count below zero does not stop it; or while (position < end)
More == IF todo.type = LONG THEN pos < todo.end ELSE todo.count # 0

\* Mutant of ReadElement: an element that is cut by the end of the buffer is taken.
ReadElementCut ==
  /\ at = "sequence" /\ More
  /\ IF At(pos) = {} THEN Throw
     ELSE \E v \in At(pos) :
       /\ todo' = [todo EXCEPT !.count = @ - 1, !.elements = Append(@, v)]
       /\ pos' = pos + (IF todo.type = DOUBLE THEN DoubleSize ELSE VarintSize(v))
       /\ Same /\ UNCHANGED <<open, at, spans>>

ReadElement ==
  /\ at = "sequence" /\ More
  /\ IF At(pos) = {} THEN Throw
     ELSE \E v \in At(pos) :
       LET size == CASE todo.type = DOUBLE -> DoubleSize
                     [] OTHER              -> VarintSize(v)
       IN  IF pos + size > limit THEN Throw
           ELSE /\ todo' = [todo EXCEPT !.count = @ - 1,
                              !.elements = Append(@, IF todo.type # BOOL \/ v = 0 THEN v ELSE 1)]
                /\ pos' = pos + size
                /\ Same /\ UNCHANGED <<open, at, spans>>

\* Mutant of CloseSequence: the tag of the sequence stays ahead.
CloseSequenceAgain ==
  /\ at = "sequence" /\ ~More
  /\ IF todo.type = LONG /\ ~EndsWell(todo.end) THEN Throw
     ELSE /\ at' = "tag" /\ todo' = None /\ pos' = todo.from
          /\ Same /\ UNCHANGED <<open, spans>>

CloseSequence ==
  /\ at = "sequence" /\ ~More
  /\ IF todo.type = LONG /\ ~EndsWell(todo.end) THEN Throw
     ELSE /\ open' = Stored(todo.tag, todo.elements)
          /\ spans' = spans \cup {[from |-> todo.from, to |-> pos]}
          /\ at' = "tag" /\ todo' = None
          /\ Same /\ UNCHANGED pos

(***************************************************************************)
(* A tag that is of no item: the id of the message announces a header,     *)
(* which must be that of the dictionary.                                   *)
(***************************************************************************)
DecodeOther(t) ==
  /\ Tag(t) /\ (t \in Tags => TagItem[t] \notin DOMAIN Dico[Top.id])
  /\ IF t \in Tags /\ TagItem[t] = Top.id /\ Readable(t, Delimited)
     THEN \E r \in Varints(pos + 1) :
            IF Fits(r) /\ r.value = HeaderSize
            THEN \/ /\ Read(r.next + r.value)
                    /\ Same /\ UNCHANGED <<open, at, todo>>
                 \/ Throw
            ELSE Throw
     ELSE Throw

(***************************************************************************)
(* The message that was decoded is encoded, and decoded again.             *)
(***************************************************************************)
Values == open[1].values

Again == /\ at = "done" /\ round = 1 /\ sent = None
         /\ buffer' = Encode(Root, Values) /\ limit' = Len(buffer')
         /\ sent' = Values /\ round' = 2
         /\ pos' = 0 /\ at' = "tag" /\ todo' = None /\ spans' = {}
         /\ open' = <<[id |-> Root, from |-> 0, end |-> limit', type |-> MESSAGE,
                       values |-> NoValues]>>

Decode == \/ EndOfInput \/ CloseMsg \/ ReadElement \/ CloseSequence
          \/ \E t \in At(pos) : \/ DecodeBool(t) \/ DecodeLong(t) \/ DecodeDouble(t)
                               \/ DecodeStr(t) \/ DecodeSeqStr(t) \/ DecodeMsg(t)
                               \/ OpenSequence(t) \/ DecodeOther(t)

Next == Decode \/ Again

\* The decoder goes on until it returns or throws.
Spec == Init /\ [][Next]_vars /\ WF_vars(Decode)

(***************************************************************************)
(* Properties.                                                             *)
(***************************************************************************)
\* The position is inside the buffer, and every message holds values of its own
\* items, of their types (Decode.cpp:690-728 dispatches on the type).
TypeOK == /\ buffer = AnyBuffer \/ (buffer \in Seq(Int) /\ limit = Len(buffer))
          /\ pos \in 0 .. limit /\ at \in {"tag", "sequence", "done", "threw"}
          /\ at = "sequence" => todo.from \in 0 .. pos /\ todo.type \in {BOOL, LONG, DOUBLE}
          /\ \A i \in DOMAIN open : Typed(open[i].id, open[i].values)

\* One lies behind the other, or inside it.
Apart(a, b) == \/ a.to <= b.from \/ b.to <= a.from
               \/ a.from <= b.from /\ b.to <= a.to
               \/ b.from <= a.from /\ a.to <= b.to

\* A decode that succeeds has read no token as part of two items, unless one of them
\* contains the other: no count, length or packed sequence reached out of the message
\* it is in (the checks of the position, Decode.cpp:341-345 and 435).
Laminar == at = "done" => \A a, b \in spans : Apart(a, b)

\* Whatever buffer was accepted, what it gave can be encoded and decoded again: the
\* decoder accepts the new buffer, reads it to its end and gives the same message,
\* but for sequences without elements.
Stable == round = 2 => /\ at # "threw"
                       /\ at = "done" => /\ Values = Trimmed(Root, sent)
                                         /\ pos = limit

\* A message that was cut off is refused, or gives items of the message that was
\* sent, each complete but for the last elements of a sequence of strings or of
\* messages, whose elements are items on the wire.
CutOff ==
  at = "done" /\ round = 1 /\ sent # None =>
    LET whole == Trimmed(Root, sent) IN
    \A i \in DOMAIN Values :
      /\ i \in DOMAIN whole
      /\ IF Dico[Root][i] \in {SEQ_STRING, SEQ_MESSAGE}
         THEN Values[i] = SubSeq(whole[i], 1, Len(Values[i]))
         ELSE Values[i] = whole[i]

\* Every decode ends, whatever the counts on the wire say.
Returns == at \in {"tag", "sequence"} ~> at \in {"done", "threw"}
=============================================================================
