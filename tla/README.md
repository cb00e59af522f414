# pbart: a TLA+ model

pbart encodes and decodes Protocol Buffers messages whose description (a
*dictionary*) is loaded at run time from XML or received as a message. This
directory models it in TLA+, checks the models with TLC and proves the most
important results with TLAPS. Paths below are relative to the repository;
`Message.cpp`, `Encode.cpp`, `Decode.cpp`, `Serializer.cpp`, `Types.cpp` and
`DicoXMLReader.cpp` are in `src/main/cpp/pbart`, the headers in `include/pbart`,
the JNI functions in `src/main/cpp/jni`, the Java classes in
`src/main/java/org/Lmap/pbart`.

The build modelled is the default one: `USE_DIRECT_POINTER_ACCESS` defined, none
of `USE_PACKETED_CODING_...`, `USE_INT32_...`, `USE_STRICT_...` and
`USE_BOOST_DYNAMIC_BITSET`, assertions disabled (`NDEBUG`).

## 1. Inventory

The C++ library is sequential: no thread, no lock, no I/O but reading the XML
file. What is hard about it is not interleaving but *long sequences of legal
calls*: caches that must be invalidated, state left behind by an exception, a
lazily moved iterator, lengths that come from the wire, and two sides of a wire
that must agree about dictionaries they exchange on that same wire. Only the
Java binding adds concurrency: the finalizer.

| Component | State | Operations | Interacts with | What makes it correct | Modules |
|---|---|---|---|---|---|
| **Message** (`Message.h`, `Message.cpp`) | dictionary `dic_`, definition `def_`, values by id `values_`, cached serialized size `bytes_` (mutable), `id_` | `set`, `get` (mutable: creates the default), `erase(Id)`, `erase(iterator)`, `trim`, `clear`, `id(Id)`, copy, `check`, `==` | owned by `Variant`s, so messages form trees; `Codec` is a friend and writes `values_` and `bytes_` | a known size is the true one; values have the types of the definition | `MessageSize`, `MessageWalk`, `JniMessage` |
| **Codec, encoding** (`Encode.cpp`, `Codec.h`) | none of its own; fills `bytes_` | `encode`, `length`, `calculateLength`, one `encodeX` per type | walks a Message, computes sizes over `values_` | the length in front of a sub-message is the number of bytes that follow | `MessageSize`, `MessageStream`, `WireEncode` |
| **Codec, decoding** (`Decode.cpp`, `Codec.h`) | position in the input | root, nested and per-tag `decode`, one `decodeX` per type, `header` | builds the Message tree, sets `bytes_` of sub-messages from the wire | what was encoded decodes to the same message; other buffers are refused or read without overlap; it ends | `WireDecode`, `MessageStream`, `MessageSize` |
| **Serializer** (`Serializer.h`, `.cpp`) | current dictionary `dico_`; static dictionary of dictionaries | `loadDico`, `parseDico`, `msgToDico`, `dicoToMsg`, `encode`, `decode`, `pointers` | applications on both sides exchange buffers | both sides use the same dictionary when they should; a dictionary is replaced entirely or not at all | `MessageStream`, `DicoXml`, `DicoTransfer`, `DicoChecksum` |
| **Dico** (`Dico.h`) | fields by id, ids by name, version, header | `addName`, `addField`, `FieldT::add`, lookups, `==` | built by `DicoXMLReader` and `msgToDico` | names and ids say the same; headers differ when dictionaries do | `DicoModel`, `DicoChecksum` |
| **DicoXMLReader** (`.cpp`) | the dictionary under construction | `load`, `parse`, one method per XML element | `Dico` | rejects duplicates, missing definitions and ids out of range | `DicoXml` |
| **Iterator** (`Iterator.h`) | a position in the items and a lazily moved one in the values | `++`, `*`, `empty`, `check`, `erase` | Message, encoder | visits each item once and finds its value if there is one | `MessageWalk`, `JniMessage` (`check`) |
| **Variant, Type** (`Variant.h`, `Types.*`) | a value and its type | conversions, `empty` | everything | conversions check the type | `FieldTypes`, `JniMessage` |
| **JNI and Java API** | native handles held by Java objects | one native method per call, `finalize` | own Messages and Serializers | each native object has one owner; a call that throws changes nothing one can see | `JniMessage`, `JniObjects` |
| **Exceptions** (`Exception.*`) | texts | constructors | everything | - | not modelled |

Statuses and what exactly is left out are in `PROJECT.json` (`components`); the
hard behaviours, each at its line, are its `hazards`, with the properties that
cover them or the reason why none does.

## 2. Structure

| Layer | Modules | Composition |
|---|---|---|
| one message in memory | `MessageSize`, `MessageWalk` | - |
| one message on the wire | `WireEncode` (extends `FieldTypes`), `WireDecode` (extends `WireEncode`) | the encoder as a function of the message; the decoder, which works on any buffer and on what the encoder makes |
| two Serializers | `MessageStream` | refines `Delivery`; both halves of the Codec at the level of whole items |
| dictionaries | `DicoModel` (extends `FieldTypes`), `DicoXml`, `DicoTransfer` (extends `DicoXml`), `DicoChecksum` | `DicoTransfer` composes the XML reader with the two translations and refines `DicoStore` |
| Java | `JniMessage`, `JniObjects` | `JniMessage` refines `RecordStore` |

`Delivery`, `DicoStore` and `RecordStore` are abstract: they say what a pair of
Serializers, a Serializer and a Java message promise. `MC<module>` with
its `.cfg` is the instance for TLC; `<module>_proofs` holds the theorems. An
operator whose comment starts with "Mutant of" is a plausible mistake in the
definition it names, by which `PROJECT.json` (`mutants`) shows that a property
can fail; no specification uses it.

## 3. MessageSize

*Correspondence.* A *slot* is a place where a Message object may live: a variable
of the application (`Root`) or a MESSAGE item of another slot. `Path[n]` gives the
slots a walk from the variable to `n` goes through; it is a constant because the
place of an item in its parent never changes. `live` says which slots hold a
message, `val[n]` the sizes of its other values (the only thing the sizes depend
on), `bytes[n]` is `Message::bytes_`. `refs` are the messages the application has
a mutable reference to: obtained with `get(id).toMessage()`, which is the way to
reset the sizes on the path. `prefix` and `body` are what an encoding in progress
has written: the length in front of a sub-message and the bytes behind it.

| Actions | Code |
|---|---|
| `Set`, `GetValue`, `Get`, `GetThrows`, `SetMessage` | `Message::set` and the mutable `get`, `Message.cpp:109-174` |
| `Assign`, `Clear`, `Trim`, `EraseId`, `EraseAt` | `operator=`, `clear`, `trim`, the two `erase` |
| `Iterate` | dereferencing a mutable iterator, `Iterator.h:197` |
| `StartEncode`, `Measure`, `EncodeMessage`, `FinishEncode`, `EncodeThrows` | `Codec::encode`, `length`, `calculateLength`, `encodeMessage` |
| `StartDecode`, `DecodeValue`, `OpenMessage`, `CloseMessage`, `FinishDecode`, `DecodeThrows` | `Serializer::decode`, `Codec::decode`, `decodeMsg`, the `decodeX` |

The recursion of the encoder visits sub-messages in id order; the model allows
every order in which a size comes after those of the sub-messages, and a content
after theirs, which includes the order of the code.

*The contract.* `Careless` is the set of usages that break the cache and that the
application nevertheless indulges in: `erase(Id)` on something that is encoded
again (`"erase"`), writing through a reference kept across an encoding (`"hold"`)
or obtained from a mutable iterator (`"iterate"`), nesting a freshly decoded
message (`"nest"`), keeping a message whose decoding threw (`"partial"`) and
decoding an empty packed sequence of another encoder (`"foreign"`, README.md
182-190). `Careless = {}` is the contract under which the cache is right.

*Properties.* `SizeIsTrue`: a known size is the size of the serialization,
computed anew from the values. `CacheCoherent`: a known size was computed from
sizes that are still known and the same. `RefsUncached`: no known size above a
message that may be written to. `PrefixExact`: the length in front of a
sub-message is the number of bytes that follow. `ColdEncodeExact`: the same, of
every encoding that starts without cached sizes, whatever the application did
before. `TrimKeepsLength`: `trim()` changes no serialized size, which is why it
need not reset `bytes_`.

*Runs.* `size`: two variables, one with a chain of two sub-messages (three levels
are needed to have a stale size between two right ones), values of size 0 (empty
sequence), 2, and 3 (of the wrong type), one value per message, a repeated and a
single sub-message; `MaxCopied` bounds the size of messages that are copied, so
sizes stay finite. `size_cold`: one variable, every careless usage. `size_erase`
allows `erase(Id)` and shows how it breaks the cache, a finding of `PROJECT.json`.

*Proofs* (`MessageSize_proofs`), for every finite tree, set of values, tags and
sizes:

- `TypeCorrect`: `TypeOK`, for every `Careless`.
- `CacheInvariant`: `IInv`, for `Careless = {}`, and its corollaries
  `FramesExact` (`PrefixExact`), `CacheIsCoherent` and `NothingCachedAbove`.
  `PrefixExact` is not inductive: an encoder step writes `bytes[n]` in front of
  the sum of what it wrote for the sub-messages, so one needs `bytes[n] =
  Length(n)` when it does. That is `CacheCoherent`. A write to a message breaks
  it one level up unless the size there is unknown: `RefsUncached`, whose own
  step for `get` needs that the way to a reference consists of live messages,
  `TreeShape`. `EncodeShape` says that a body, once written, stays the size that
  was announced, and that the application holds no reference below a root while
  the library encodes; `DecodeShape` that the decoder is inside a path of
  messages whose finished sub-messages have a size, which is what makes the size
  stored by `CloseMessage` coherent.
- `ColdFramesExact`: `ColdEncodeExact` for every `Careless`, from `ColdInv`: the
  sizes an encoding computes itself are coherent, whatever was there before.

Assumed: the `ASSUME`s of `MessageSize` (the paths form trees, sizes are
naturals), which every run evaluates. Sums over a message are cardinalities of
disjoint unions (`Total`), so that no recursive definition is in the way of the
proofs.

- `SizesAreTrue`: `SizeIsTrue`, for `Careless = {}`. It compares a size with the
  recursive function `TrueLength` over everything below. That such a function
  exists and is unique is shown first (`LengthsExist`, `LengthsUnique`), by
  induction on the size of the set of ids below, stated over a set of naturals
  (`NatSetInduction`); with it, coherent sizes are true ones.
- `TrimChangesNoLength`: the action property `TrimKeepsLength`, for every
  `Careless`: what `trim()` removes has the size zero.

## 4. MessageStream and Delivery

*Correspondence.* A buffer is a sequence of tokens: the header (message id,
version and checksum of its dictionary), the values, and the null character the
encoder puts in front of every message but the first. The sender (`Send`,
`SendDico`) appends messages and dictionaries to a buffer; `Handoff` gives it to
the receiver. The receiver's application calls `decode()` (`Call`) with a variable,
`concatenated` (`concat`) and `dico` (`auto`). The variable is new, or carries the
id the application expects, or was used before and reset with `id(0)` as the tests
do (`TestCodec.cpp:442-545`). The call reads a token per step: `ReadHeader`
(`Decode.cpp:734-753`), `ReadItem` and `ReadOther` (`Decode.cpp:643-729`), and ends
with `FinishMessage`, `FinishThrows` (the check of `Codec.h:155`, with its bitwise
operator) or `FinishDico`, which applies a dictionary and goes on behind it
(`Serializer.h:168-180`). `ApplyDico` is the application calling `msgToDico`.
A dictionary message stands for the dictionary it carries; what `msgToDico` makes
of its fields is in `DicoTransfer`.

`decode()` looks for a tag among the items of the message before it takes it for
that of the header (`Decode.cpp:650`), so that the bytes of a header, or of a value
of another dictionary, may be read as an item of another kind. `ReadItem` says what
comes of that by the wire type (`TakenAs`, `RefusedAs`): most kinds throw; a string
takes any bytes that have a length; sub-messages, packed sequences and sequences of
strings or messages may throw or take what is in the bytes for a value, and the call
may then go on or return inside of the token. Where a token of another kind is taken,
the model ends: `busy = "lost"`.

*Careless usages*: `"late"` (decoding on without applying a dictionary),
`"unannounced"` (sending with a dictionary the receiver was not sent), `"stale"`
(decoding into a variable with an old dictionary), `"expect"` (asking for another
message than the one that comes), `"single"` (asking for one message where several
are left).

*Properties.* `Delivered` is the refinement of `Delivery`: every message is
delivered once, in order, with its dictionary, and eventually. `AcceptsEncoded`:
no call throws on what `encode()` wrote. `InSync`: when everything is read both
sides use the same dictionary. For every usage: `NeverMisread`, what is decoded was
encoded; `AtBoundary`, the position reported is the start of a message;
`CallReturns`, every call ends. `LostAtFirst`: where the ids of messages are ids of
items too, a header is taken for a value only as the first token of a call, for which
the application gave the id; behind a dictionary that it has applied, `decode()` never
does.

*Runs.* `stream`: contract kept, two dictionaries that use one id for different
messages, one of them the id of the dictionary message itself, two messages per
behaviour, dictionaries without limit, buffers of at most 8 tokens (a dictionary
and two messages, or three dictionaries). `stream_careless`: every careless usage,
messages that only the dictionary tells apart, items that have the ids of messages (a
sub-message, a string and a packed sequence), buffers of at most 6 tokens (two
dictionaries, or a dictionary and a message). There `HeadersKnown` is false: the run
shows the properties up to the call that is lost, and where it may be lost; that none is
lost under `HeadersKnown` is proved. `stream_single` is a finding:
its `RestRejected` is what a comment says of the check at the end of a call.
Deadlock is not checked: the bounds, or a receiver
whose call crashed (`busy = "dead"`, a null dictionary dereferenced at
`Decode.cpp:751`) or is lost, stop the system.

*Fairness.* `FairSpec` asks for weak fairness of the steps of a call (the library
is sequential code: a call that can go on does), and that the receiving application
takes every buffer, decodes what is left in it and applies the dictionaries it got.
The sender owes nothing. `CallReturns` relies only on the first part.

*Assumed.* `StreamAssumption`: the dictionary of dictionaries has a header of its
own, the messages sent are ones `Message::set` lets an application build
(`ItemsOnly`). Some properties need more, which the code does not guarantee and
of which `InstanceAssumption` states which an instance has:

- `HeadersDiffer`: no two dictionaries have the same header. The checksum has 16 bits
  (section 6); with equal headers a value is read under the definition of the other
  dictionary.
- `HeadersStandOut`: no item that has a length (a string, a sub-message, any sequence)
  has the id of a message that comes. The instance with `Clash` (`stream_careless`)
  does not satisfy it, and there calls get lost; `HeadersKnown` asks for it only where the application expects
  messages that are not next (`"expect"`).
- `NoneOfItself`: a message that is an item of itself is refused, or lost, when its id
  is preset.

*Proofs* (`MessageStream_proofs`), for all dictionaries, messages, buffers and numbers
of messages, without the bounds of the runs:

- For every usage `StreamTypeCorrect`; `AlwaysAtBoundary` and `NothingMisread`, which
  include that no call is lost, from `HeadersDiffer` and `HeadersKnown`; and
  `OnlyLostAtFirst` from `HeadersDiffer` alone: a running call that has read something
  has the definition of the frame it is in, so that every later tag is one of its items
  and of its kind. `AtBoundary` speaks of the end of calls only and is
  not inductive. `StreamInv` adds that both buffers are frames of messages that
  were posted (`Framed`), each behind a null character but the first; that a running
  call is inside one of them and that its message is exactly what it has read of
  that frame (`Reads`); that a dictionary that is due is one that was posted.
- Within the contract `EncodedIsAccepted`, `SidesInSync` and `DeliversInOrder`, the
  initial condition and the steps of `Delivery`. `StreamInv` does not say which message
  comes next. `ContractInv` marks the places of both buffers with the number
  of messages and the last dictionary in front of them (`Marked`): the marks at the end of what is
  read are those at the beginning of what is not (`Ahead`), and the receiver's
  dictionary and `got` are the marks of its place (`Caught`). That a mark tells the
  dictionary of the next message is what makes its header match.

## 5. Dictionaries: DicoModel, DicoXml, DicoTransfer, DicoStore

*Correspondence.* `DicoModel` is `Dico.h`: a record of `names` (`idByName_`),
`fields` (`fieldById_`, a total function whose entries are EMPTY where nothing is
defined) and the version, with `addName`, `addField`, `FieldT::add` as operators
that keep the order of the code: the name goes in before the id is looked at.

`DicoXml` reads a document element by element. `phase` is the method the reader is
in, `draft` the dictionary it fills, `cur` the message definition it is in, `dico`
the dictionary of the Serializer. Each element is chosen when the reader comes to
it, so that every document over the given elements is read.

| Actions | Code |
|---|---|
| `Load`, `LoadError`, `Install`, `Throw` | `loadDico`, `parseDico`, `Serializer.cpp:48-67` |
| `ParseDicoHeader`, `EndFields`, `EndMessages`, `EndDocument` | `process` and the loops below it, `DicoXMLReader.cpp:79-149` |
| `ParseFieldDefElt`, `ParseMessageDefElt`, `UnexpectedChild`, `ParseItem` | the methods of these names and `addItem`, `DicoXMLReader.cpp:169-338` |
| `DicoToMsg` | `dicoToMsg`, `Serializer.cpp:176-249` |
| `MsgToDico`, `AddFieldMsg`, `AddItemMsg`, `EndFieldMsgs`, `InstallMsg`, `Reject` | `msgToDico`, `addField`, `addItem`, `Serializer.cpp:70-107` and `253-361` |

`DicoTransfer` adds the message form. A message made by `dicoToMsg` stays in
`outbox` while the Serializer reads other dictionaries, and may be taken back at
any time; messages of other senders come in between. Ids and types wrap to the
width of the variables they are assigned to (`AsInt`, `AsType`). Every message has a
dictionary: `msgToDico` compares it with its own before it looks whether there is one
(`Serializer.cpp:74`), and nothing can be said of what follows if there is none.

*Properties.* `IndexAgree`: the two indexes of a dictionary say the same at every
moment of its construction. `XmlConsistent`: what `pointers()` asserts in debug
builds holds of every dictionary that XML fills. `RoundTrip`: a dictionary that was
sent and taken back is the one that was sent but for definitions that no name leads
to, names that no definition bears and LONG default values that are no doubles
(`Sent`), or is refused because it uses `ID_MAX` or has two names for one id.
`BothImplementStore`: both ways of getting a dictionary implement `DicoStore`, whose
`Meaning` says in one formula what the readers compute step by step; an operation
that fails changes nothing.

*Run* `dico`: documents over three names and the empty one, with every kind of
malformed attribute, duplicate names, duplicate ids and ids -1, 0, `ID_MAX` (5) and
above; messages with ids and types that wrap, without types, with items that have
no definition, with a definition without type that is declared again under another
name, and of every kind that is refused. A LONG default value, `odd`, is no double and
comes back as another, `even`. Documents are not bounded: a
dictionary with all the ids used cannot grow. An int has 32 values and a type 256,
more than twice the ids, so that wrapping hits a valid id (33 becomes 1).

*Proofs* (`DicoTransfer_proofs`), for any names, ids, types, elements of documents and
messages, and any number of definitions: `TransferTypeCorrect`, `IndexesAlwaysAgree`,
`XmlAlwaysConsistent`, the whole refinement, `ReadersImplementStore`, and
`SentIsTakenBack` (`RoundTrip`). For the refinement, what has to
be known at the moment of the installation is that the draft means what was
read, and no property says so before it. `TransferInv` does: at every moment the draft
is the `Meaning`, in `DicoStore`, of what was heard so far (`MsgOK`) or of the
elements read so far (`XmlOK`), and what is left of a message has the shape of one
(`Messages`). Each `addField`, `addItem` and XML element is a lemma about how `Meaning` grows by one
definition, or stays where the element is refused. `AscendingIs` says that `Ascending` enumerates any
finite set of ids; it needs an induction over the size of the set, for which
`NatSetInduction` is proved: over a *set* of naturals, since the provers cannot take an
operator as a parameter.

`RoundTrip` compares what was sent with what came back after any number of changes
between. Its invariant, `CopyInv`, has two parts. `Sane` says of every dictionary
that a reader has made or is making that a definition with a name is found by it, and
that what `dicoToMsg()` writes of a definition can be read: only messages have items,
no item has the type EMPTY, an item with the id `ID_MAX` has a definition that is found
by name. `Copies` says of a message that is
being taken back that the draft is what its dictionary had in the first `k`
definitions and the first `q` items of the last one (`Copied`), and that `todo` and
`left` are the rest (`Rest`). From there on every `addField` and `addItem` is a
lemma: it takes the next one, or throws, and then the dictionary uses `ID_MAX` or
leads two names to one definition. That no definition is sent twice is
`AscendingOnce`, by counting. The proof needs, of the constants, that the conversion of
LONG values gives LONG values (`AsDouble`) and that the version in a document is an
int.

## 6. DicoChecksum

*Correspondence.* Two Serializers, `1` and `2`, compute the headers of their
dictionaries `dic[k]`, each in its own `pointers()`. `cs[k]` is `cs64` there, a word as
the set of its bits, `todo[k]` what the loop has not come to. `AddDefinition(k, i)` is
one turn of the loop of Serializer `k` (`Serializer.cpp:369-415`); `Contribution` is what
a definition adds: its type, the characters of its name, the types of the definitions
of its items, each shifted as an int and extended with its sign. `Folded` and `Header`
are `Serializer.cpp:418` and `Dico.h:254-260`. The two loops go on independently. The
code goes through a `std::map`, in the order of the names; the model leaves the order
open, so that what it shows does not rest on it.

`build[k]` is how Serializer `k` was compiled: whether a shift of an int by 32 or more,
which is undefined, takes the distance modulo 32 or loses all bits (`wraps`), and whether
`char` is signed, so that characters above 127 are negative (`signed`).

*Properties.* `SameDicoSameHeader`: two dictionaries with the same version and the same
definitions, whose items have the same ids, give the same header, whatever the orders,
if the two Serializers are one build or nothing in the dictionary depends on the build
(`Portable`: no wide shift, no character above 127). What the items say beyond their ids
may differ. `OneChangeDetected`: if the contributions of one definition differ in the 16
low bits, and those of no other do, the headers differ.

*Runs* `checksum`: pairs of dictionaries of a message with two items, retyped, renamed
(one name is not ASCII) and renumbered, with ids whose contributions stay in the 16
bits, leave them, or leave the int; every pair of builds and every interleaving of the
two loops. Some pairs differ only in whether an item is repeated.

*Proofs* (`DicoChecksum_proofs`), for all dictionaries, names and builds:
`ChecksumTypeCorrect`, `SameDicoHasSameHeader`, `OneChangeIsDetected`. None of the
properties says anything before both loops are done. The inductive invariant `SumsInv`
does: `cs[k]` is the exclusive or of what the definitions contribute that the loop of
`k` has passed. That adding one keeps it is `XorAllAdd`: the bits of a family of words
are parities of cardinalities, and one more word flips those it has. At the end the sum
is a function of the set of definitions (`SumsAtTheEnd`), so the order is gone. The same
definitions contribute the same (`SameContribution`, in two builds from `Portable`). If one
contribution differs in a bit and no other does, the sets of definitions that have the
bit differ by one element, and so do the parities (`OneChangeDiffers`). `FoldedLow` and
`HeadersOfLow` say that the low 16 bits survive up to the header. Assumed:
`ChecksumAssumption`, that characters have eight bits, that names lead to ids and no two
to one, and `ModelAssumption`.

## 7. MessageWalk

*Correspondence.* `dic[w]` and `var[w]` are `dic_` and `var_` of iterator `w`:
the item it is at, and a position in `values_` that is moved only when an answer is
wanted. `Settled` is where the loop of `miss()` (`Iterator.h:120-143`) leaves it.
`lost` are the iterators whose position was invalidated: a removal loses all walks
whose position, as it is at that moment, is among the removed values, as the standard
says of `std::map`; `EraseAt` moves its own on before it removes. `old[w]` is history.

| Actions | Code |
|---|---|
| `Begin`, `Increment`, `Look`, `Write` | `begin()`, `operator++`, `empty`/`check`/`operator*` const, mutable `operator*` |
| `EraseAt` | `erase(iterator)`, `Iterator.h:201-210` |
| `Put`, `Erase`, `Trim`, `Clear` | the operations of the message, `Message.cpp:109-295` |

`usage` says what the application does while a walk is under way: insert values,
erase by id, erase through an iterator while there are others.

*Properties.* `OldIsFound`: what was there when the walk began and is still there is
found, whatever was inserted. `WalkExact`: where nothing is inserted, the walk
answers as `Message::empty(id)` does, also after it has erased the value it was at, and
it is lost only if something else erases. (A value inserted in front of `var_` is missed: the model
shows no more than the code promises.)

*Run* `walk`: two walks over three items with an id between them that is of no
item; every usage. Two walks are needed for one to erase under the other, three
items for a position to be behind, at and ahead.

*Proofs* (`MessageWalk_proofs`), for every set of items and any number of walks:
`WalkTypeCorrect`, `PositionsInvariant`, `OldValuesFound`, `WalksAreExact`.
`OldIsFound` is not inductive: `Increment` moves the item away
from under the position. The invariant `Positions` says that `var_` is at a value
and not beyond an old value the walk has still to come to, and that all values are
old where nothing is inserted; from it the loop of `miss()` stops at the right one.
`LostToOthers` says that the position `EraseAt` goes on to is none that it removes.

## 8. WireDecode and WireEncode

*Correspondence.* The decoder of one message (`Decode.cpp`) on a buffer of tokens. A
token is a varint, a part of a double or a character, and the same token is read as
tag, length, count or value: whatever the decoder takes it for. In `AnyBuffer` each
token is chosen when it is read, so that all buffers of a length are decoded.
`open` is the recursion: the messages being decoded, each with its end; `todo` the
packed sequence under way, with the count from the wire.

| Actions | Code |
|---|---|
| `DecodeBool` ... `DecodeSeqStr` | the methods of these names, `Decode.cpp:222-271` and `527-535` |
| `DecodeMsg`, `CloseMsg`, `EndOfInput` | `decodeMsg`, `decode(msg, input, bytes)`, `Decode.cpp:326-374` |
| `OpenSequence`, `ReadElement`, `CloseSequence` | the packed sequences, `Decode.cpp:379-483` and `593-640` |
| `DecodeOther` | a tag of no item, or a header, `Decode.cpp:651-672` |
| `Again` | `Encode` of what was decoded (`Encode.cpp:57-487`), and decoding that |

`WireEncode` is `encode()` as a function: `Pieces` is what is written behind the tags
of one item, `Chunks` all the tags and pieces of a message in the order of the ids,
`Encode` puts them together. A message contains messages, so `Encode` is a recursive
function on the messages within a message (`Within`), not a recursive operator; the
same holds for `Trimmed`, what is left of a message without its empty sequences.
`MaxDepth` bounds how deep messages lie in each other; what a buffer of `MaxLimit`
tokens gives is never that deep, because each message that is opened takes tokens.

*Properties.* `Laminar`: no token was read as part of two items unless one contains
the other. `Stable`: what was accepted can be encoded, and decodes to the same
message but for empty sequences. `CutOff`: a message cut off at any token is refused,
or gives items of the message, each complete but for the last elements of a
sequence that is not packed. `Returns`: every decode ends, also from negative counts.

*Run* `wire`: every buffer of at most 9 tokens for a message with the packed types
and nested messages, and for one with the others; 9 tokens are a nested message
with two items in a message with another one, or four items. Tokens are small numbers and -1, a varint of
two tokens, so that most can be tag, length and value in turn. And all prefixes of
the encodings of messages with items of all ten types. Deadlock is not checked:
a decode that is over does nothing.

*Fairness.* Weak fairness of `Decode`: sequential code that can go on does.

*Proofs* (`WireDecode_proofs`), for every dictionary, any integers as tokens and
buffers of any length: `WireTypeCorrect`, `TokensReadOnce`, `DecodedIsStable` and
`CutOffGivesItems`, which are the four invariants of the run. They need nothing but the
`ASSUME`s of the two modules, which the run evaluates: tokens are integers, tags are
positive and every item has one, a Boolean takes one token, items that are messages
are in the dictionary, no message has the id 0, the messages sent are messages, and
`MaxLimit < MaxDepth`.

1. `Laminar` looks at a decode that is over; `Placed` says why it holds before: no
   span begins in front of an open message and ends inside of it, open messages begin
   one behind the other, and nothing was read since the packed sequence under way
   began. A message or a sequence that ends then makes a span that all others are
   behind, in front of or inside of, because the end of a message has to be where the
   position is (`EndsWell`). `Tree`, `Path` and `Sequence` say that the open messages
   are items of each other and hold values of their types; `Tree` speaks of a set of
   messages closed under taking sub-messages.
2. `Again` encodes what was decoded, so the second decode is of tokens only if that is
   a message at all. `Bounded` says it is: there are never more open messages than
   tokens were read, and none holds messages deeper than that. `Sound` is the
   conjunction of these; it is inductive, and gives the first two theorems.
3. That a recursive function has the value its definition gives has to be proved.
   A function that satisfies the definition is built level by level, from the deepest
   messages up (`OneLevelMore`), and `Codec` states what `Encode` and `Trimmed` are for
   each message within a message.
4. `Follow`, for a buffer that `encode()` made or a part of one: every open message
   stands for a message that was encoded, the next for an item of it. It begins where
   the encoding of that message begins and has to end where that ends; it holds what
   the first `k` chunks give (`Part`), and the position is where chunk `k + 1` is,
   or inside a packed sequence of it (`Packing`). There is a lemma per action: reading
   a chunk gives `Part` of one chunk more, and only a chunk that the end of the buffer
   cuts makes the decoder throw. When the decode is over, all chunks were read, and
   `Part` is the whole message (`Stable`), or the buffer was cut, and it is the
   beginning of one (`CutOff`). `Sound /\ Follow` is inductive.

Sets and functions of the invariants (`Tree`, `Follow`) are quantified over all there
are, so that TLC cannot evaluate these two; it checks what follows from them.
`Returns` stays with TLC.

## 9. JniMessage and RecordStore

*Correspondence.* One action per method of `Message.java`, with the C++ operations of
its native function in their order: a setter with an index first replaces an empty
item by an empty sequence, then converts, then resizes, then writes, and what was
done before an exception stays. `result` is the last answer or the Java exception
it became (`cpp-java-conversion-helpers.cpp`). `values` is `Message::values_`, where
absent and empty are different. `strays` says that the program passes negative
indexes to setters or messages of another id to sequences; `corrupt` stops the model
where such a call has written outside of a vector. The type in the dictionary that
`getType` tells of an id that is no item is any type (`TypesInDico`, `Message.h:154`).

*Properties.* `TypeOK`: values keep the types of their items, after exceptions too.
`ImplementsStore`: for a program that does not stray, the message refines
`RecordStore`: a call that throws has changed nothing the getters can tell, one that
succeeds changed the one element it names, and getters answer what is there.
`CheckSound`: when `check()` and `check(id)` agree.

*Run* `jni_message`: a single value, a sequence, a message and a sequence of
messages, two of them required; indexes from -2 to 1, sequences of two elements;
ids that are items, 0 and one that is no item; inner messages of the right and the
wrong id, with and without a bad item. Deadlock is not checked: `corrupt` stops the
model.

*Proofs* (`JniMessage_proofs`), for any items, data and indexes: `JniTypeCorrect`, `ChecksAgree`,
and the refinement, `JniImplementsStore`. `TypeOK` is inductive: each
setter checks the type before it writes. The refinement maps the message to what getters
can tell (`Visible`: the values, or the defaults of absent ones), under which the
empty sequence that a setter leaves behind before it throws is a stutter (`SetMessageAtMay`); that holds
because the default of a sequence is empty, which `JniAssumption` takes from
`pointers()` (`Serializer.cpp:402-411`), and that a default value has the type of its item.
There is one lemma per method (`SetMay` ... `DescribeMay`).

## 10. JniObjects

*Correspondence.* Java objects with their `_handle`, the native objects by address,
and the native call under way with the addresses it was given. The program may drop
its last reference at any time, also during the call; `Finalize` runs
`native_destroy` for any dropped object that the call does not keep reachable.
Addresses are used again. A call keeps its receiver reachable and the argument of
`encode()`, which is an object (`Serializer.java:98-107`); the argument of
`setMessage()` is a number. A native function that throws does so before it has
allocated (`Return`), since memory is taken to suffice: `native_decode` copies the
buffer for a dump after it has allocated the message
(`org_Lmap_pbart_Serializer.cpp:262`), and would leak it if that failed.

*Properties.* `OwnedOnce`: every native object has one owner, so none is leaked or
deleted twice. `OnlyArgumentDangles`: the native objects of a call exist while it
runs, but for the argument of `setMessage()` once the program has dropped it.

*Run* `jni_objects`: two Serializers, three messages, five addresses, with symmetry.

*Proofs* (`JniObjects_proofs`), for any number of objects and addresses:
`ObjectsTypeCorrect`, `NativeObjectsOwnedOnce`, `OnlyTheArgumentDangles`. The
inductive invariant is the conjunction of the three properties and `CallShape`, which calls have
an argument. `OwnedOnce` is what makes `Finalize` of one object harmless to the
others; `Referenced` is what makes it harmless to the call.

## 11. Runs, proofs and what stays with TLC

| Run | Question | Result |
|---|---|---|
| `size`, `size_cold` | are the length prefixes exact | yes within the contract; without it, from cold caches |
| `size_erase` | does `erase(Id)` keep the cached size right | no: finding |
| `stream`, `stream_careless` | does every message arrive | yes within the contract; without it none is misread, until a header is taken for a value, at the beginning of a call |
| `stream_single` | is data behind a single message refused | no, when an even number of bytes is left: finding |
| `dico` | is a dictionary installed as it was declared, or not at all | yes |
| `checksum` | do two sides with the same dictionary agree, and is a change noticed | yes, if the build does not matter; yes, in the 16 low bits of one contribution |
| `walk` | does a walk find the values, with changes meanwhile | yes, those there from the beginning |
| `wire` | can bytes of an arbitrary or cut buffer be read twice, or for ever | no |
| `jni_message` | is a Java call that throws without effect | yes, as far as the getters can tell |
| `jni_objects` | can the finalizer delete what is in use | only a dropped argument of `setMessage()` |

Proved with TLAPS: `PROJECT.json` (`theorems`). Model-checked only: all liveness (the
fairness of `Delivered`, `CallReturns`, `Returns`), which is out of the prover's reach.
Every invariant and every other property of a passing run is a theorem.

## 12. Deviations met while modelling

Two are findings of `PROJECT.json` with a run. Others, which the models contain or
name:

- A decoded root keeps the size zero, and nested in another message it is announced
  as empty (`Decode.cpp:755`, usage `"nest"`).
- A write through a mutable iterator keeps the cached size (`Iterator.h:197`, usage
  `"iterate"`).
- A message that has itself as an item is rejected by `decode()` with its id
  requested: its header is taken for the item (`Decode.cpp:650`). So is the header of
  a message whose id is that of an item, if the application expected another message
  (`LostAtFirst`).
- A definition with an empty name is accepted, found by id and not by name
  (`Dico.h:427`), and `dicoToMsg` does not send it (`RoundTrip`).
- `ID_MAX` is accepted in XML, asserted against in `addField` and refused by
  `msgToDico` (`Serializer.cpp:257`, `RoundTrip`).
- A definition without type that a message declares twice, the second time under the
  empty name, leaves a name that no definition bears: it is lost when the dictionary
  is sent on (`Serializer.cpp:267` and `190`, `RoundTrip`).
- Default values of type LONG are sent as doubles, which would change those from 2^53 on
  (`Serializer.cpp:228`, `RoundTrip`); the two readers make none: in XML they are ints,
  in messages doubles.
- `msgToDico` accepts a definition without type, whose id counts as free afterwards
  (`Serializer.cpp:267`), and a message whose items have no definition
  (`Serializer.cpp:326`); `pointers()` only asserts the contrary (`Sound` in `DicoStore`).
- The type of a definition with an id that is 16 or more modulo 61 does not reach
  the header (`Serializer.cpp:418`), nor does the repeated flag of an item, although the
  comment at `Serializer.cpp:402` counts it (the code adds the type of the definition,
  not of the item) and `Dico.h:347` asserts that equal headers mean equal fields
  (`SameDicoSameHeader` holds of such pairs); shifts of an int by 32 or more are undefined (`Serializer.cpp:384`) and the
  sign of a character above 127 depends on the build (`Serializer.cpp:387`), so that
  builds may disagree (`Portable` in `DicoChecksum`).
- `check()` finds a required sequence without elements bad, `check(id)` does not
  (`Message.cpp:47`, `Iterator.h:72`, `CheckSound`).
- A setter with index -1 writes outside of the vector (`org_Lmap_pbart_Message.cpp:770`);
  a message of another id is stored although an exception was raised (`:898`), and the
  text of the error about a hole throws itself, as a `TypeException` (`:923`).
- The length of a packed sequence of doubles that is no multiple of 8 is rounded
  (`Decode.cpp:460`).

Not in a model, met while reading: the default value of an item that is a message
holds the shared pointer of its own dictionary (`Serializer.cpp:411`); the characters
of a Java string are not released when `loadDico` throws
(`org_Lmap_pbart_Serializer.cpp:75`); `getId` and `getName` dereference the dictionary
of a Serializer that has none (`:164`).

## 13. What is not modelled

- Texts of exceptions, XML text, printing: no state depends on them.
- The lazy initialisation of the dictionary of dictionaries (`Serializer.cpp:113`): it
  is taken as done; the library promises nothing about threads.
- `encode()` that throws in the middle of a caller's buffer, a buffer handed over in
  parts, and encoding into preallocated memory: the models write whole frames.
- `Message::id(Id)` on a message with values.
- The union inside `Variant` and its copies; floating-point values.
- Strings and byte arrays of the JVM, `native_id`, `native_name`, `toString`,
  `isDeprecated`: they read and change nothing that the properties are about.
- The Protocol Buffers library and TinyXML are external; of the first only the sizes of
  varints and tags, positions and wire types are modelled.

## 14. Running

    tlc -config MCMessageSize.cfg MCMessageSize.tla
    tlc -config MCMessageSizeCareless.cfg MCMessageSize.tla
    tlc -config MCMessageSizeErase.cfg MCMessageSize.tla
    tlc -config MCMessageStream.cfg MCMessageStream.tla
    tlc -config MCMessageStreamCareless.cfg MCMessageStream.tla
    tlc -config MCMessageStreamSingle.cfg MCMessageStream.tla
    tlc -config MCDicoTransfer.cfg MCDicoTransfer.tla
    tlc -config MCDicoChecksum.cfg MCDicoChecksum.tla
    tlc -config MCMessageWalk.cfg MCMessageWalk.tla
    tlc -config MCWireDecode.cfg MCWireDecode.tla
    tlc -config MCJniMessage.cfg MCJniMessage.tla
    tlc -config MCJniObjects.cfg MCJniObjects.tla
    tlapm MessageSize_proofs.tla
    tlapm DicoChecksum_proofs.tla
    tlapm MessageWalk_proofs.tla
    tlapm JniObjects_proofs.tla
    tlapm MessageStream_proofs.tla
    tlapm DicoTransfer_proofs.tla
    tlapm JniMessage_proofs.tla
    tlapm WireDecode_proofs.tla

The passing runs take from a second to about two minutes each.
