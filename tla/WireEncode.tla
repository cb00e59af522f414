------------------------------ MODULE WireEncode ------------------------------
(***************************************************************************)
(* Codec::encode() of one message (Encode.cpp), in the tokens of           *)
(* WireDecode: items in the order of their ids, sequences that have no     *)
(* elements left out.                                                      *)
(*                                                                         *)
(* A message is the function of its values: a number, the length of a      *)
(* string, a message, or a sequence of such.                               *)
(***************************************************************************)
EXTENDS FieldTypes, SequencesExt

CONSTANTS Dico,       \* messages: id -> (item -> type)
          IdMax,      \* ID_MAX
          TagItem,    \* tokens that are tags -> item
          TagWire,    \* tokens that are tags -> wire type
          Wide,       \* a varint of two tokens
          DoubleSize, \* tokens of a double
          MaxDepth    \* bound on the depth of a message: messages in messages in messages ...

Tags == DOMAIN TagItem

Delimited == "delimited"

WireType(type) == CASE type \in {BOOL, LONG} -> "varint"
                    [] type = DOUBLE         -> "fixed64"
                    [] OTHER                 -> Delimited

TagFor(item, type) == CHOOSE t \in Tags : TagItem[t] = item /\ TagWire[t] = WireType(type)

\* Every item has a tag; a Boolean takes one byte.
ASSUME TagAssumption ==
  /\ Tags \subseteq Nat \ {0} /\ DOMAIN TagWire = Tags
  /\ \A d \in DOMAIN Dico : \A i \in DOMAIN Dico[d] :
       /\ i \in 1 .. IdMax /\ Dico[d][i] \in Types \ {EMPTY}
       /\ \E t \in Tags : TagItem[t] = i /\ TagWire[t] = WireType(Dico[d][i])
  /\ Wide \in Int \ {0, 1} /\ DoubleSize \in Nat \ {0}
  /\ IdMax \in Nat /\ MaxDepth \in Nat /\ 0 \notin DOMAIN Dico

\* An item that is a message is a message of the dictionary.
ASSUME ItemsAssumption ==
  \A d \in DOMAIN Dico : \A i \in DOMAIN Dico[d] :
    Dico[d][i] \in {MESSAGE, SEQ_MESSAGE} => i \in DOMAIN Dico

(***************************************************************************)
(* Messages.                                                               *)
(***************************************************************************)
\* What an item of this type holds.  A sub-message is of the same kind, so that only
\* the ids of its items are looked at here.
ValueOK(item, type, v) ==
  /\ type = BOOL                      => v \in {0, 1}
  /\ type \in {LONG, DOUBLE}          => v \in Int
  /\ type = STRING_T                  => v \in Nat
  /\ type = MESSAGE                   => DOMAIN v \subseteq DOMAIN Dico[item]
  /\ type = SEQ_BOOL                  => v \in Seq({0, 1})
  /\ type \in {SEQ_LONG, SEQ_DOUBLE}  => v \in Seq(Int)
  /\ type = SEQ_STRING                => v \in Seq(Nat)
  /\ type = SEQ_MESSAGE => /\ v \in Seq({v[k] : k \in DOMAIN v})
                           /\ \A k \in DOMAIN v : DOMAIN v[k] \subseteq DOMAIN Dico[item]

Typed(id, values) ==
  /\ values = [i \in DOMAIN values |-> values[i]]
  /\ DOMAIN values \subseteq DOMAIN Dico[id]
  /\ \A i \in DOMAIN values : ValueOK(i, Dico[id][i], values[i])

OfType(id, values, type) == {i \in DOMAIN values : Dico[id][i] = type}

\* The messages in a message, each with its id.
Parts(id, values) ==
  {<<i, values[i]>> : i \in OfType(id, values, MESSAGE)}
  \cup UNION {{<<i, values[i][k]>> : k \in DOMAIN values[i]} : i \in OfType(id, values, SEQ_MESSAGE)}

\* The messages that are n levels down.
Level(id, values, depth) ==
  LET level[n \in 0 .. MaxDepth] ==
        IF n = 0 THEN {<<id, values>>} ELSE UNION {Parts(m[1], m[2]) : m \in level[n - 1]}
  IN  level[depth]

Within(id, values) == UNION {Level(id, values, n) : n \in 0 .. MaxDepth}

IsMessage(id, values) == /\ id \in DOMAIN Dico
                         /\ \A m \in Within(id, values) : Typed(m[1], m[2])
                         /\ Level(id, values, MaxDepth) = {}

(***************************************************************************)
(* encode().                                                               *)
(***************************************************************************)
VarintSize(v) == IF v = Wide THEN 2 ELSE 1

\* A number of n tokens, and what comes with a length in front.
Number(v, n)     == [k \in 1 .. n |-> IF k = 1 THEN v ELSE 0]
Varint(v)        == Number(v, VarintSize(v))
Blank(n)         == [k \in 1 .. n |-> 0]
Prefixed(tokens) == Varint(Len(tokens)) \o tokens

Packed(type, v) ==
  FlattenSeq([k \in 1 .. Len(v) |-> IF type = SEQ_DOUBLE THEN Number(v[k], DoubleSize) ELSE Varint(v[k])])

\* What is written behind each of the tags an item takes: a sequence without elements
\* takes none, one that is not packed one for every element.
Pieces(item, type, v, encoded) ==
  CASE type \in {BOOL, LONG} -> <<Varint(v)>>
    [] type = DOUBLE         -> <<Number(v, DoubleSize)>>
    [] type = STRING_T       -> <<Prefixed(Blank(v))>>
    [] type = MESSAGE        -> <<Prefixed(encoded[<<item, v>>])>>
    [] type = SEQ_STRING     -> [k \in 1 .. Len(v) |-> Prefixed(Blank(v[k]))]
    [] type = SEQ_MESSAGE    -> [k \in 1 .. Len(v) |-> Prefixed(encoded[<<item, v[k]>>])]
    [] OTHER                 -> IF v = <<>> THEN <<>> ELSE <<Prefixed(Packed(type, v))>>

Tagged(tag, pieces) == [k \in 1 .. Len(pieces) |-> <<tag>> \o pieces[k]]

EncodeItem(id, values, i, encoded) ==
  IF i \in DOMAIN values
  THEN Tagged(TagFor(i, Dico[id][i]), Pieces(i, Dico[id][i], values[i], encoded))
  ELSE <<>>

\* The pieces of all items, each behind its tag.
Chunks(id, values, encoded) ==
  FlattenSeq([i \in 1 .. IdMax |-> EncodeItem(id, values, i, encoded)])

\* The messages in the message are encoded.
EncodeItems(id, values, encoded) == FlattenSeq(Chunks(id, values, encoded))

Encode(id, values) ==
  LET encoded[m \in Within(id, values)] == EncodeItems(m[1], m[2], encoded)
  IN  encoded[<<id, values>>]

(***************************************************************************)
(* What is not lost on the way: all but the sequences without elements.    *)
(***************************************************************************)
TrimItems(id, values, trimmed) ==
  [i \in {j \in DOMAIN values : Repeated(Dico[id][j]) => values[j] # <<>>} |->
     CASE Dico[id][i] = MESSAGE     -> trimmed[<<i, values[i]>>]
       [] Dico[id][i] = SEQ_MESSAGE -> [k \in 1 .. Len(values[i]) |-> trimmed[<<i, values[i][k]>>]]
       [] OTHER                     -> values[i]]

Trimmed(id, values) ==
  LET trimmed[m \in Within(id, values)] == TrimItems(m[1], m[2], trimmed)
  IN  trimmed[<<id, values>>]
=============================================================================
