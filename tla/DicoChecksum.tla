---------------------------- MODULE DicoChecksum ----------------------------
(***************************************************************************)
(* Serializer::pointers() computes the checksum by which two Serializers   *)
(* tell whether they use the same dictionary, and Header::init() packs it  *)
(* with the version into the header of every message.                      *)
(*                                                                         *)
(* Two Serializers, which may be different builds, compute the checksums   *)
(* of their dictionaries, dic[1] and dic[2], each in its own loop.  A step *)
(* of a loop adds what one definition contributes.  The code goes through  *)
(* the names in the order of a std::map; here the order is left open.      *)
(*                                                                         *)
(* A word is the set of its bits that are set.  The values are shifted as  *)
(* an int of 32 bits and then extended to 64 bits with their sign.  Two    *)
(* things depend on the build: whether char is signed, so that characters  *)
(* from 128 on are negative; and what a shift by 32 or more, which is      *)
(* undefined, gives: it either takes the distance modulo 32 or loses all   *)
(* bits.                                                                   *)
(***************************************************************************)
EXTENDS DicoModel, Sequences

CONSTANTS Chars,   \* Chars[n]: the character codes of the name n
          Dicos    \* dictionaries the Serializers may use

ASSUME ChecksumAssumption ==
  /\ Chars \in [Names -> Seq(0 .. 255)]
  /\ \A d \in Dicos : /\ d.version \in Int
                      /\ \A n \in DOMAIN d.names : d.names[n] \in Ids
                      /\ \A n, k \in DOMAIN d.names : d.names[n] = d.names[k] => n = k

VARIABLES dic,     \* the two dictionaries
          build,   \* how the two Serializers were compiled
          todo,    \* the ids that are left to each
          cs       \* cs64 of both

vars == <<dic, build, todo, cs>>

Both == {1, 2}

\* Whether distances are taken modulo 32, and whether char is signed.
Build == [wraps : BOOLEAN, signed : BOOLEAN]

(***************************************************************************)
(* Words.                                                                  *)
(***************************************************************************)
IntWidth  == 32
WordWidth == 64

Xor(S, T) == (S \ T) \cup (T \ S)

\* A bit of the exclusive or of a family of words is set when an odd number of them
\* have it.
XorAll(f) == {b \in 0 .. WordWidth - 1 : Cardinality({x \in DOMAIN f : b \in f[x]}) % 2 = 1}

BitsOf(n) == {b \in 0 .. 7 : (n \div 2^b) % 2 = 1}

\* A char as an int.
CharBits(n, signed) == IF signed /\ n > 127 THEN BitsOf(n) \cup 8 .. IntWidth - 1 ELSE BitsOf(n)

Extended(S) == IF IntWidth - 1 \in S THEN S \cup IntWidth .. WordWidth - 1 ELSE S

ShiftInt(S, k) == Extended({b + k : b \in S} \cap 0 .. IntWidth - 1)

Shift(S, k, wrap) == IF k < IntWidth THEN ShiftInt(S, k)
                     ELSE IF wrap THEN ShiftInt(S, k % IntWidth) ELSE {}

ShiftWord(S, k) == {b + k : b \in S} \cap 0 .. WordWidth - 1

(***************************************************************************)
(* What a definition contributes: its type, the characters of its name,    *)
(* and the types of the definitions its items refer to.                    *)
(***************************************************************************)
\* Mutant of Named: the entry 0 is not skipped.
NamedOrZero(d) == {d.names[n] : n \in DOMAIN d.names}

Named(d) == {d.names[n] : n \in DOMAIN d.names} \ {0}

OfType(d, i, bld) == Shift(BitsOf(d.fields[i].type), i % 61, bld.wraps)

OfName(d, i, bld) ==
  LET name == Chars[d.fields[i].name]
  IN  XorAll([p \in DOMAIN name |->
                Shift(CharBits(name[p], bld.signed), (i + p - 1) % 59, bld.wraps)])

OfItems(d, i, bld) ==
  XorAll([j \in DOMAIN d.fields[i].items |->
            Shift(BitsOf(FieldOf(d, j).type), (i + j) % 60, bld.wraps)])

Contribution(d, i, bld) ==
  IF i \in Named(d)
  THEN Xor(Xor(OfType(d, i, bld), OfName(d, i, bld)), OfItems(d, i, bld))
  ELSE {}

(***************************************************************************)
(* The final checksum and the header.                                      *)
(***************************************************************************)
Folded(S) == Xor(Xor(S, ShiftWord(S, 16)), Xor(ShiftWord(S, 32), ShiftWord(S, 48)))

Header(version, checksum) == <<version % 256, checksum \cap 8 .. 15, checksum \cap 0 .. 7>>

HeaderOf(k) == Header(dic[k].version, Folded(cs[k]))

(***************************************************************************)
(* The loops of pointers().                                                *)
(***************************************************************************)
Init == /\ dic \in [Both -> Dicos] /\ build \in [Both -> Build]
        /\ todo = [k \in Both |-> Named(dic[k])]
        /\ cs = [k \in Both |-> {}]

\* Mutants of AddDefinition: the sum is assigned instead of added to; it is rotated.
SetDefinition(k, i) ==
  /\ i \in todo[k]
  /\ todo' = [todo EXCEPT ![k] = @ \ {i}]
  /\ cs' = [cs EXCEPT ![k] = Contribution(dic[k], i, build[k])]
  /\ UNCHANGED <<dic, build>>

RotateDefinition(k, i) ==
  /\ i \in todo[k]
  /\ todo' = [todo EXCEPT ![k] = @ \ {i}]
  /\ cs' = [cs EXCEPT ![k] = Xor({(b + 1) % WordWidth : b \in @}, Contribution(dic[k], i, build[k]))]
  /\ UNCHANGED <<dic, build>>

AddDefinition(k, i) ==
  /\ i \in todo[k]
  /\ todo' = [todo EXCEPT ![k] = @ \ {i}]
  /\ cs' = [cs EXCEPT ![k] = Xor(@, Contribution(dic[k], i, build[k]))]
  /\ UNCHANGED <<dic, build>>

Next == \E k \in Both : \E i \in todo[k] : AddDefinition(k, i)

Spec == Init /\ [][Next]_vars

(***************************************************************************)
(* Properties.                                                             *)
(***************************************************************************)
Done == \A k \in Both : todo[k] = {}

SameHeaders == HeaderOf(1) = HeaderOf(2)

\* The sums are words, and the ids left are ids of definitions.
TypeOK == /\ cs \in [Both -> SUBSET (0 .. WordWidth - 1)]
          /\ \A k \in Both : todo[k] \subseteq Ids \ {0}

\* No value of the dictionary is shifted by the width of an int or more, and no
\* character is negative in one build only.
Portable(d) ==
  \A i \in Named(d) :
    /\ i % 61 < IntWidth
    /\ \A p \in DOMAIN Chars[d.fields[i].name] :
          (i + p - 1) % 59 < IntWidth /\ Chars[d.fields[i].name][p] \in 0 .. 127
    /\ \A j \in DOMAIN d.fields[i].items : (i + j) % 60 < IntWidth

\* The same definitions, with the same items: these may differ in their types (a
\* sequence or not), in whether they are required and in their default values.
SameDefinitions ==
  /\ dic[1].version = dic[2].version /\ dic[1].names = dic[2].names
  /\ \A i \in Ids : /\ dic[1].fields[i].name = dic[2].fields[i].name
                    /\ dic[1].fields[i].type = dic[2].fields[i].type
                    /\ DOMAIN dic[1].fields[i].items = DOMAIN dic[2].fields[i].items

\* Two Serializers whose dictionaries have the same definitions accept each other's
\* messages, in whatever orders they go through them, if they are the same build or
\* nothing in the dictionary depends on the build (pointers(), Serializer.cpp:384-403).
\* That an item is repeated does not count, although Serializer.cpp:402 says so: it is
\* the type of the definition that is added, not that of the item.
SameDicoSameHeader ==
  Done /\ SameDefinitions /\ (build[1] = build[2] \/ Portable(dic[1])) => SameHeaders

Low(S) == S \cap 0 .. 15

SameLow(i) == Low(Contribution(dic[1], i, build[1])) = Low(Contribution(dic[2], i, build[2]))

\* Two dictionaries have different headers if the 16 low bits of what one definition
\* contributes differ, and those of no other (Serializer.cpp:418).
Summed    == Named(dic[1]) \cup Named(dic[2])
OneChange == \E i \in Summed : ~SameLow(i) /\ \A j \in Summed \ {i} : SameLow(j)

OneChangeDetected == Done /\ OneChange => ~SameHeaders
=============================================================================
