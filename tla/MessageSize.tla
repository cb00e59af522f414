---------------------------- MODULE MessageSize ----------------------------
(***************************************************************************)
(* The cached serialized size of a pbart Message (Message::bytes_) and the *)
(* length prefixes the encoder writes from it.                             *)
(*                                                                         *)
(* A Message keeps its values in a map and, in the mutable field bytes_,   *)
(* the number of bytes its serialization takes: negative means "unknown".  *)
(* Codec::length fills the field while a parent is encoded; every mutation *)
(* of the message is supposed to reset it.  A message is usually reached   *)
(* through its ancestors, msg.get(a).toMessage().get(b)..., which is what  *)
(* resets the sizes of the ancestors; a reference kept from an earlier     *)
(* walk resets nothing above the message it designates.                    *)
(*                                                                         *)
(* A slot is a place where a Message object may live: a variable of the    *)
(* application (Root) or a MESSAGE item of another slot.                   *)
(***************************************************************************)
EXTENDS Integers, FiniteSets

CONSTANTS
    Slot,       \* places where a Message object may live
    Root,       \* the slots that are variables of the application
    Path,       \* Path[n]: the slots a walk from a root to n goes through
    Item,       \* ids of the items of a message that are not messages
    ValueSize,  \* serialized sizes (tag included) a value may have, 0: empty sequence
    IllTyped,   \* the sizes that stand for values of another type than the dictionary's
    Tag,        \* Tag[n]: size of the tag in front of sub-message n
    Repeated,   \* items and slots declared repeated and decoded one by one
    Careless,   \* usages outside the contract that the application indulges in
    MaxCopied   \* bound: the largest cached size of a message that is copied

Absent == -1    \* the item has no entry in values_
Unknown == -1   \* what set() and get() store in bytes_

(* The usages that break the cache: erase(Id), writes through a reference  *)
(* kept across an encoding, writes through a mutable iterator, nesting a   *)
(* freshly decoded message, keeping a message whose decoding failed, and   *)
(* decoding what another encoder produced.                                 *)
Usage == {"erase", "hold", "iterate", "nest", "partial", "foreign"}

ASSUME SlotAssumption ==
    /\ IsFiniteSet(Slot) /\ IsFiniteSet(Item)
    /\ Root \subseteq Slot
    /\ Slot \cap Item = {}
    /\ Careless \subseteq Usage

ASSUME PathAssumption ==
    /\ Path \in [Slot -> SUBSET Slot]
    /\ \A n \in Slot : n \in Path[n]
    /\ \A n \in Slot : \A m \in Path[n] : Path[m] \subseteq Path[n]
    /\ \A n \in Slot : \A m \in Path[n] : n \in Path[m] => m = n
    /\ \A r \in Root : Path[r] = {r}
    /\ \A n \in Slot : \A m \in Path[n] \ {n} :
         \E k \in Path[n] \ {m} : Path[k] = Path[m] \cup {k}

ASSUME SizeAssumption ==
    /\ ValueSize \subseteq Nat
    /\ IllTyped \subseteq ValueSize
    /\ Tag \in [Slot -> Nat]
    /\ MaxCopied \in Nat

VARIABLES
    live,       \* slots that hold a message
    val,        \* val[n]: sizes of the values of message n
    bytes,      \* bytes[n]: the cached size, Message::bytes_
    refs,       \* slots the application holds a mutable reference to
    raw,        \* roots whose content comes from a decode and whose size was not reset since
    phase,      \* what the library is doing: "user" (nothing), "encode" or "decode"
    target,     \* the root being encoded or decoded
    prefix,     \* prefix[n]: the length the encoder wrote in front of n
    body,       \* body[n]: the bytes the encoder wrote for n behind that prefix
    open,       \* the messages the decoder is inside of
    cold        \* history: no size was cached below target when the encoding began

vars == <<live, val, bytes, refs, raw, phase, target, prefix, body, open, cold>>
codecVars == <<phase, target, prefix, body, open, cold>>

-----------------------------------------------------------------------------
(* Sizes *)

(* The sum of the values of f, negative ones counting for nothing.         *)
Total(f) == Cardinality(UNION {{x} \X (1..f[x]) : x \in DOMAIN f})

VarintSize(b) == IF b < 128 THEN 1 ELSE IF b < 16384 THEN 2 ELSE 3

Kids(n) == {k \in Slot \ {n} : Path[k] = Path[n] \cup {k}}
LiveKids(n) == Kids(n) \cap live
Under(n) == {k \in Slot : n \in Path[k]}
Below(n) == Under(n) \ {n}

NoValues == [i \in Item |-> Absent]
Values(v) == {i \in Item : v[i] # Absent}

(* The size of a sub-message with tag t and length p whose content takes   *)
(* b bytes.                                                                *)
Framed(t, p, b) == t + VarintSize(p) + b

(* Codec::calculateLength: the values, then each sub-message behind its    *)
(* tag and length.                                                         *)
Length(n) ==
    Total(val[n]) + Total([k \in LiveKids(n) |-> Framed(Tag[k], bytes[k], bytes[k])])

-----------------------------------------------------------------------------
(* The mutators of Message.  n is a message the application has a mutable  *)
(* reference to; get() is what yields a reference to a sub-message.        *)

(* Mutant of Destroy: references into what vanished stay usable.           *)
DestroyKeepsRefs(S, newVal, newBytes) ==
    /\ live' = live \ S
    /\ val' = [m \in Slot |-> IF m \in S THEN NoValues ELSE newVal[m]]
    /\ bytes' = [m \in Slot |-> IF m \in S THEN 0 ELSE newBytes[m]]
    /\ UNCHANGED refs

(* The subtrees S vanish: their slots become free.                         *)
Destroy(S, newVal, newBytes) ==
    /\ live' = live \ S
    /\ val' = [m \in Slot |-> IF m \in S THEN NoValues ELSE newVal[m]]
    /\ bytes' = [m \in Slot |-> IF m \in S THEN 0 ELSE newBytes[m]]
    /\ refs' = refs \ S

User(n) == phase = "user" /\ n \in refs /\ UNCHANGED codecVars

(* Mutant of Store: the size is not forgotten.                             *)
StoreKeepsSize(n, i, s) ==
    /\ User(n)
    /\ val' = [val EXCEPT ![n][i] = s]
    /\ raw' = raw \ {n}
    /\ UNCHANGED <<live, bytes, refs>>

(* The value of item i of message n changes, the size is forgotten.        *)
Store(n, i, s) ==
    /\ User(n)
    /\ val' = [val EXCEPT ![n][i] = s]
    /\ bytes' = [bytes EXCEPT ![n] = Unknown]
    /\ raw' = raw \ {n}
    /\ UNCHANGED <<live, refs>>

(* set(id, value) throws, and changes nothing, unless the value has the    *)
(* type of the dictionary.                                                 *)
Set(n, i, s) == s \notin IllTyped /\ Store(n, i, s)

(* get(id) = value: whoever holds the reference may store any value.       *)
GetValue(n, i, s) == Store(n, i, s)

(* Mutant of Get: the size is forgotten only when the item was absent.     *)
GetForgetsNew(n, k) ==
    /\ User(n)
    /\ k \in Kids(n)
    /\ live' = live \cup {k}
    /\ bytes' = IF k \in live THEN bytes ELSE [bytes EXCEPT ![n] = Unknown]
    /\ refs' = refs \cup {k}
    /\ raw' = raw \ {n}
    /\ UNCHANGED val

(* get(id).toMessage() on a mutable message: the size is forgotten before  *)
(* anything is changed, an absent item gets its default (an empty message).*)
Get(n, k) ==
    /\ User(n)
    /\ k \in Kids(n)
    /\ live' = live \cup {k}
    /\ bytes' = [bytes EXCEPT ![n] = Unknown]
    /\ refs' = refs \cup {k}
    /\ raw' = raw \ {n}
    /\ UNCHANGED val

(* get(id) with an id the dictionary does not give the message: throws,    *)
(* after the size was forgotten.                                           *)
GetThrows(n) ==
    /\ User(n)
    /\ bytes' = [bytes EXCEPT ![n] = Unknown]
    /\ raw' = raw \ {n}
    /\ UNCHANGED <<live, val, refs>>

(* set(id, message) with a copy of the message in slot s, its cached size  *)
(* included.  Messages without sub-messages are what is copied here.       *)
SetMessage(n, k, s) ==
    /\ User(n)
    /\ k \in Kids(n)
    /\ s \in live /\ LiveKids(s) = {}
    /\ s \in raw => "nest" \in Careless
    /\ bytes[s] <= MaxCopied
    /\ live' = (live \ Below(k)) \cup {k}
    /\ val' = [m \in Slot |-> IF m = k THEN val[s]
                              ELSE IF m \in Below(k) THEN NoValues ELSE val[m]]
    /\ bytes' = [m \in Slot |-> IF m = n THEN Unknown
                                ELSE IF m = k THEN bytes[s]
                                ELSE IF m \in Below(k) THEN 0 ELSE bytes[m]]
    /\ refs' = refs \ Below(k)
    /\ raw' = raw \ {n}

(* operator= : the variable r becomes a copy of the message in slot s.     *)
Assign(r, s) ==
    /\ User(r)
    /\ r \in Root
    /\ s \in live \ Under(r) /\ LiveKids(s) = {}
    /\ Destroy(Below(r), [val EXCEPT ![r] = val[s]], [bytes EXCEPT ![r] = bytes[s]])
    /\ raw' = IF s \in raw THEN raw \cup {r} ELSE raw \ {r}

(* What erasing item x of message n removes, and what it leaves.           *)
Erased(x) == IF x \in Item THEN {} ELSE Under(x)
ValuesWithout(n, x) ==
    IF x \in Item THEN [val EXCEPT ![n][x] = Absent] ELSE val
NoSizeWithout(n, x) == 0   \* mutant of SizeWithout: erase(iterator) stores a zero size
SizeWithout(n, x) ==
    Cardinality(Values(val[n]) \ {x}) + Cardinality(LiveKids(n) \ {x})

(* erase(id) leaves bytes_ alone.                                          *)
EraseId(n, x) ==
    /\ User(n)
    /\ "erase" \in Careless
    /\ x \in Item \cup Kids(n)
    /\ Destroy(Erased(x), ValuesWithout(n, x), bytes)
    /\ UNCHANGED raw

(* erase(iterator) makes bytes_ the opposite of the number of values left: *)
(* unknown, or zero when nothing is left.                                  *)
EraseAt(n, x) ==
    /\ User(n)
    /\ x \in Item \cup Kids(n)
    /\ Destroy(Erased(x), ValuesWithout(n, x), [bytes EXCEPT ![n] = -SizeWithout(n, x)])
    /\ raw' = raw \ {n}

(* Mutant of Trim: sub-messages with no content are removed too.           *)
TrimMessages(n) ==
    /\ User(n)
    /\ live' = live \ {m \in Below(n) \ refs : val[m] = NoValues /\ LiveKids(m) = {}}
    /\ UNCHANGED <<val, bytes, refs, raw>>

(* trim() removes the empty sequences of n and of its sub-messages.        *)
Trim(n) ==
    /\ User(n)
    /\ val' = [m \in Slot |-> IF m \in Under(n)
                              THEN [i \in Item |-> IF val[m][i] = 0 THEN Absent ELSE val[m][i]]
                              ELSE val[m]]
    /\ UNCHANGED <<live, bytes, refs, raw>>

(* clear() *)
Emptied(n) == Destroy(Below(n), [val EXCEPT ![n] = NoValues], [bytes EXCEPT ![n] = 0])

Clear(n) ==
    /\ User(n)
    /\ Emptied(n)
    /\ raw' = raw \ {n}

(* Dereferencing a mutable iterator over n yields a reference to the       *)
(* sub-message k and touches no size.                                      *)
Iterate(n, k) ==
    /\ User(n)
    /\ "iterate" \in Careless
    /\ k \in LiveKids(n)
    /\ refs' = refs \cup {k}
    /\ UNCHANGED <<live, val, bytes, raw>>

-----------------------------------------------------------------------------
(* Codec::encode.  The recursion of the code visits the sub-messages in id *)
(* order; the actions keep only what it depends on: a size is computed     *)
(* after those of the sub-messages, a content is complete when those of    *)
(* the sub-messages are.                                                   *)

StartEncode(r) ==
    /\ phase = "user"
    /\ r \in Root
    /\ phase' = "encode"
    /\ target' = r
    /\ refs' = IF "hold" \in Careless THEN refs ELSE Root
    /\ cold' = \A n \in live \cap Below(r) : bytes[n] < 0
    /\ UNCHANGED <<live, val, bytes, raw, prefix, body, open>>

Encoding(n) == phase = "encode" /\ n \in live \cap Below(target)

WellTyped(n) == \A i \in Item : val[n][i] \notin IllTyped

(* Mutant of Measure: the sizes of the sub-messages are taken as they are. *)
MeasureTopDown(n) ==
    /\ Encoding(n)
    /\ bytes[n] < 0
    /\ bytes' = [bytes EXCEPT ![n] = Length(n)]
    /\ UNCHANGED <<live, val, refs, raw, codecVars>>

(* Codec::length finds the size unknown and has it calculated.             *)
Measure(n) ==
    /\ Encoding(n)
    /\ bytes[n] < 0
    /\ \A k \in LiveKids(n) : bytes[k] >= 0
    /\ bytes' = [bytes EXCEPT ![n] = Length(n)]
    /\ UNCHANGED <<live, val, refs, raw, codecVars>>

(* encodeMessage: tag, length as Codec::length gives it, then the content. *)
EncodeMessage(n) ==
    /\ Encoding(n)
    /\ WellTyped(n)
    /\ bytes[n] >= 0
    /\ body[n] = Unknown
    /\ \A k \in LiveKids(n) : body[k] # Unknown
    /\ prefix' = [prefix EXCEPT ![n] = bytes[n]]
    /\ body' = [body EXCEPT ![n] =
                  Total(val[n])
                  + Total([k \in LiveKids(n) |-> Framed(Tag[k], prefix[k], body[k])])]
    /\ UNCHANGED <<live, val, bytes, refs, raw, phase, target, open, cold>>

NothingWritten == [n \in Slot |-> Unknown]

FinishEncode ==
    /\ phase = "encode"
    /\ WellTyped(target)
    /\ \A n \in LiveKids(target) : body[n] # Unknown
    /\ phase' = "user"
    /\ prefix' = NothingWritten
    /\ body' = NothingWritten
    /\ cold' = FALSE
    /\ UNCHANGED <<live, val, bytes, refs, raw, target, open>>

(* An ill-typed value makes encode() throw; the sizes computed so far stay *)
(* cached, those that count the ill-typed value included.                  *)
EncodeThrows ==
    /\ phase = "encode"
    /\ \E n \in live \cap Under(target) : ~WellTyped(n)
    /\ phase' = "user"
    /\ prefix' = NothingWritten
    /\ body' = NothingWritten
    /\ cold' = FALSE
    /\ UNCHANGED <<live, val, bytes, refs, raw, target, open>>

-----------------------------------------------------------------------------
(* Codec::decode, one field of the input per step.                         *)

(* Serializer::decode empties the message it is given first.               *)
StartDecode(r) ==
    /\ phase = "user"
    /\ r \in Root
    /\ Emptied(r)
    /\ phase' = "decode"
    /\ target' = r
    /\ open' = {r}
    /\ raw' = raw \ {r}
    /\ UNCHANGED <<prefix, body, cold>>

(* The message whose fields are being read: the innermost open one.        *)
Reading(n) == phase = "decode" /\ n \in open /\ Kids(n) \cap open = {}

(* decodeSeqStr and decodeSeqMsg reach the sequence with the mutable get().*)
ResetIf(repeated, n) == IF repeated THEN [bytes EXCEPT ![n] = Unknown] ELSE bytes

DecodeValue(n, i, s) ==
    /\ Reading(n)
    /\ val[n][i] = Absent       \* a second occurrence throws
    /\ s \notin IllTyped
    /\ s = 0 => "foreign" \in Careless /\ i \notin Repeated
    /\ val' = [val EXCEPT ![n][i] = s]
    /\ bytes' = ResetIf(i \in Repeated, n)
    /\ UNCHANGED <<live, refs, raw, codecVars>>

(* decodeMsg inserts an empty message and reads its content ...            *)
OpenMessage(n, k) ==
    /\ Reading(n)
    /\ k \in Kids(n) \ live
    /\ live' = live \cup {k}
    /\ open' = open \cup {k}
    /\ bytes' = ResetIf(k \in Repeated, n)
    /\ UNCHANGED <<val, refs, raw, phase, target, prefix, body, cold>>

(* Mutant of WireLength: the size includes the tag of the message.         *)
WireLengthWithTag(n) == Length(n) + Tag[n]

(* ... and at its end stores the length found on the wire as its size.  An *)
(* empty packed sequence takes a tag and a zero length on the wire, which  *)
(* this encoder never writes (2 bytes for an id below 16).                 *)
WireLength(n) == Length(n) + 2 * Cardinality({i \in Item : val[n][i] = 0})

CloseMessage(n) ==
    /\ Reading(n)
    /\ n # target
    /\ open' = open \ {n}
    /\ bytes' = [bytes EXCEPT ![n] = WireLength(n)]
    /\ UNCHANGED <<live, val, refs, raw, phase, target, prefix, body, cold>>

(* The end of the input.  The size of the root is not set: it is still the *)
(* zero of the empty message, unless a repeated field reset it.            *)
FinishDecode ==
    /\ phase = "decode"
    /\ open = {target}
    /\ phase' = "user"
    /\ open' = {}
    /\ raw' = IF bytes[target] < 0 THEN raw ELSE raw \cup {target}
    /\ UNCHANGED <<live, val, bytes, refs, target, prefix, body, cold>>

(* Any field may be found malformed: the exception leaves every open       *)
(* message as it is.  With the decode() that returns the message by value  *)
(* nobody sees it again; the decode() that fills a variable of the caller  *)
(* leaves it there.                                                        *)
DecodeThrows ==
    /\ phase = "decode"
    /\ phase' = "user"
    /\ open' = {}
    /\ IF "partial" \in Careless
       THEN /\ raw' = raw \cup {target}
            /\ UNCHANGED <<live, val, bytes, refs>>
       ELSE /\ Emptied(target)
            /\ UNCHANGED raw
    /\ UNCHANGED <<target, prefix, body, cold>>

-----------------------------------------------------------------------------
Init ==
    /\ live = Root
    /\ val = [n \in Slot |-> NoValues]
    /\ bytes = [n \in Slot |-> 0]
    /\ refs = Root
    /\ raw = {}
    /\ phase = "user"
    /\ target \in Root
    /\ prefix = NothingWritten
    /\ body = NothingWritten
    /\ open = {}
    /\ cold = FALSE

Mutate ==
    \E n \in Slot :
        \/ \E i \in Item, s \in ValueSize : Set(n, i, s) \/ GetValue(n, i, s)
        \/ \E k \in Slot : Get(n, k) \/ Iterate(n, k)
        \/ GetThrows(n)
        \/ \E k, s \in Slot : SetMessage(n, k, s)
        \/ \E s \in Slot : Assign(n, s)
        \/ \E x \in Item \cup Slot : EraseId(n, x) \/ EraseAt(n, x)
        \/ Trim(n)
        \/ Clear(n)

Encode ==
    \/ \E r \in Root : StartEncode(r)
    \/ \E n \in Slot : Measure(n) \/ EncodeMessage(n)
    \/ FinishEncode
    \/ EncodeThrows

Decode ==
    \/ \E r \in Root : StartDecode(r)
    \/ \E n \in Slot, i \in Item, s \in ValueSize : DecodeValue(n, i, s)
    \/ \E n, k \in Slot : OpenMessage(n, k)
    \/ \E n \in Slot : CloseMessage(n)
    \/ FinishDecode
    \/ DecodeThrows

Next == Mutate \/ Encode \/ Decode

Spec == Init /\ [][Next]_vars
-----------------------------------------------------------------------------
(* Properties *)

TypeOK ==
    /\ live \subseteq Slot
    /\ val \in [Slot -> [Item -> ValueSize \cup {0, Absent}]]
    /\ bytes \in [Slot -> Int]
    /\ Root \subseteq refs /\ refs \subseteq live
    /\ raw \subseteq Root
    /\ phase \in {"user", "encode", "decode"}
    /\ target \in Root
    /\ prefix \in [Slot -> Nat \cup {Unknown}]
    /\ body \in [Slot -> Nat \cup {Unknown}]
    /\ open \subseteq Slot
    /\ cold \in BOOLEAN

(* The length of the serialization of what message n holds now, whatever   *)
(* any cache says.                                                         *)
TrueLength[n \in Slot] ==
    Total(val[n])
    + Total([k \in LiveKids(n) |-> Framed(Tag[k], TrueLength[k], TrueLength[k])])

(* A size that is not unknown is the size of the serialized message        *)
(* (Message.h:99), for every message but a root filled by the decoder,     *)
(* whose size nothing reads as long as it is not copied into another       *)
(* message.                                                                *)
SizeIsTrue ==
    \A n \in live \ (open \cup raw) : bytes[n] >= 0 => bytes[n] = TrueLength[n]

(* The size of n is unknown, or what calculateLength would find again from *)
(* the sizes of its sub-messages.                                          *)
Coherent(n) ==
    bytes[n] >= 0 => /\ \A k \in LiveKids(n) : bytes[k] >= 0
                     /\ bytes[n] = Length(n)

(* A known size was computed from sizes that are still known and still the *)
(* same: set() and get() never leave a stale size above what they change.  *)
CacheCoherent == \A n \in live \ (open \cup raw) : Coherent(n)

(* Every message on the way from a root to a message the application may   *)
(* write through a reference has an unknown size.                          *)
RefsUncached ==
    \A n \in refs : \A m \in Path[n] \ {n} : bytes[m] < 0

(* The length the encoder writes in front of a sub-message is the number   *)
(* of bytes it writes for it: the reader finds the end where it looks.     *)
PrefixExact == \A n \in Slot : prefix[n] = body[n]

(* Whatever the application did before, an encoding that starts with no    *)
(* size cached below the root frames every sub-message exactly.            *)
ColdEncodeExact == cold => PrefixExact

(* trim() changes what values a message holds and no serialized size, so   *)
(* it has no cached size to reset.                                         *)
TrimKeepsLength ==
    [][\A n \in Slot : Trim(n) => \A m \in Slot : TrueLength[m]' = TrueLength[m]]_vars
-----------------------------------------------------------------------------
(* The inductive invariant behind CacheCoherent and PrefixExact.           *)

(* The messages form trees under the roots; a free slot is as a default    *)
(* constructed message.                                                    *)
TreeShape ==
    /\ \A n \in live : Path[n] \subseteq live
    /\ \A n \in Slot \ live : val[n] = NoValues /\ bytes[n] = 0

(* While the library encodes, the application holds on to no sub-message;  *)
(* what the encoder wrote for a message is what its size says.             *)
EncodeShape ==
    /\ phase = "encode" => refs = Root
    /\ \A n \in Slot : body[n] # Unknown =>
         phase = "encode" /\ n \in live /\ body[n] = bytes[n]

(* The decoder is inside of a path of messages that starts at its target;  *)
(* the sub-messages it has left have a size.                               *)
DecodeShape ==
    /\ phase # "decode" => open = {}
    /\ phase = "decode" =>
         /\ target \in open
         /\ open \subseteq live \cap Under(target)
         /\ \A n \in open : Path[n] \subseteq open
         /\ refs \cap Under(target) = {target}
         /\ \A n \in (live \cap Under(target)) \ open : bytes[n] >= 0
         /\ \A n \in open, i \in Item : val[n][i] # 0

IInv ==
    /\ TypeOK
    /\ TreeShape
    /\ RefsUncached
    /\ CacheCoherent
    /\ PrefixExact
    /\ EncodeShape
    /\ DecodeShape

(* The inductive invariant behind ColdEncodeExact, for every usage.        *)
ColdInv ==
    /\ TypeOK
    /\ phase # "encode" => ~cold /\ prefix = NothingWritten /\ body = NothingWritten
    /\ cold => /\ \A n \in live \cap Below(target) : Coherent(n)
               /\ \A n \in Slot : prefix[n] = body[n]
               /\ \A n \in Slot : body[n] # Unknown => body[n] = bytes[n]
=============================================================================
