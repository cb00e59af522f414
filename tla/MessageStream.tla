--------------------------- MODULE MessageStream ---------------------------
(***************************************************************************)
(* Two Serializers that exchange buffers of concatenated messages.         *)
(*                                                                         *)
(* The sender appends messages to a buffer: a header (message id, version  *)
(* and checksum of the dictionary), the values, and a null byte in front   *)
(* of every message but the first.  It may put its dictionary in the       *)
(* buffer, as a message of the dictionary of dictionaries.  The receiver   *)
(* decodes a buffer message by message, each call of decode() returning    *)
(* the number of bytes left, and takes the dictionaries it meets for its   *)
(* own.                                                                    *)
(***************************************************************************)
EXTENDS Integers, Sequences

CONSTANTS
    Dico,           \* dictionaries of the application
    DicoOfDico,     \* the dictionary that describes dictionaries
    NoDico,         \* the null pointer
    Header,         \* Header[d]: version and checksum of dictionary d
    Items,          \* Items[d][m]: the items of message m in d, with their kinds
    DicoId,         \* id of the message that carries a dictionary
    FieldId,        \* id of the item that holds its content
    Message,        \* messages the sender may send, [dico, id, fields]
    FieldSize,      \* FieldSize[kind]: bytes of a value, tag included
    Careless,       \* usages outside the contract that the applications indulge in
    MaxSent,        \* bound: number of messages sent
    MaxBuffer       \* bound: number of tokens of a buffer

(* Usages outside of the contract: decoding on without applying a          *)
(* dictionary that was received ("late"), sending messages of another      *)
(* dictionary than the last one sent ("unannounced"), decoding into a      *)
(* variable that still has an old dictionary ("stale"), asking for another *)
(* message than the next one ("expect"), and asking for one message where  *)
(* several are left ("single").                                            *)
Usage == {"late", "unannounced", "stale", "expect", "single"}

AllDicos == Dico \cup {DicoOfDico}

(* Message::set() takes items of the message only, with values of their    *)
(* types, and keeps one value for each.                                    *)
ItemsOnly(m) ==
    LET items == Items[m.dico][m.id] f == m.fields
    IN  /\ f \in Seq({f[k] : k \in DOMAIN f})
        /\ \A k \in DOMAIN f : /\ f[k] = [kind |-> f[k].kind, tag |-> f[k].tag, data |-> f[k].data]
                              /\ f[k].tag \in DOMAIN items /\ f[k].kind = items[f[k].tag]
        /\ \A j, k \in DOMAIN f : f[j].tag = f[k].tag => j = k

ASSUME StreamAssumption ==
    /\ DicoOfDico \notin Dico /\ NoDico \notin AllDicos
    /\ \A d \in Dico : Header[d] # Header[DicoOfDico]
    /\ {"stop", "header"} \cap DOMAIN FieldSize = {}
    /\ \A d \in AllDicos : \A i \in DOMAIN Items[d] : \A t \in DOMAIN Items[d][i] :
          Items[d][i][t] \in DOMAIN FieldSize
    /\ DicoId # 0 /\ DicoId \in DOMAIN Items[DicoOfDico]
    /\ FieldId \in DOMAIN Items[DicoOfDico][DicoId] /\ FieldId # DicoId
    /\ Items[DicoOfDico][DicoId][FieldId] = "message"
    /\ \A m \in Message : m.dico \in Dico /\ m.id # 0 /\ m.id \in DOMAIN Items[m.dico] /\ ItemsOnly(m)
    /\ Careless \subseteq Usage
    /\ MaxSent \in Nat /\ MaxBuffer \in Nat

VARIABLES
    announced,  \* the dictionary last put in a buffer
    buf,        \* the buffer the sender fills
    handed,     \* the receiver has it
    rdico,      \* Serializer::dico_ of the receiver
    inbox,      \* the buffer the receiver reads
    pos,        \* how much of it the application has been told is done
    var,        \* the Message the application passes to decode()
    busy,       \* a call of decode(): "no", "yes", "dead" when it never returns, or
                \* "lost" when it reads what is not a value as one
    at,         \* how much of inbox the call has read
    concat,     \* its argument concatenated
    auto,       \* its argument dico
    due,        \* decode() returned a dictionary that was not applied yet
    failed,     \* the last call threw
    sent, got   \* history: the messages encoded and the messages decoded

senderVars == <<announced, buf, handed, sent>>
callVars == <<busy, at, concat, auto>>
vars == <<announced, buf, handed, rdico, inbox, pos, var, busy, at, concat, auto,
          due, failed, sent, got>>

-----------------------------------------------------------------------------
(* The wire format *)

Stop == [kind |-> "stop", tag |-> 0, data |-> 0]

(* Header::init, read back by Dico::header().                              *)
HeaderOf(m) == [kind |-> "header", tag |-> m.id, data |-> Header[m.dico]]

Frame(m) == <<HeaderOf(m)>> \o m.fields

(* Mutant of Concatenated: nothing separates the messages.                 *)
ConcatenatedBare(b, m) == b \o Frame(m)

(* encode(message, buffer): a null character flags the stop of the         *)
(* previous message.                                                       *)
Concatenated(b, m) == IF b = <<>> THEN Frame(m) ELSE b \o <<Stop>> \o Frame(m)

(* dicoToMsg() of a serializer with dictionary d.                          *)
DicoMessage(d) ==
    [dico |-> DicoOfDico, id |-> DicoId,
     fields |-> <<[kind |-> "message", tag |-> FieldId, data |-> d]>>]

IsHeader(t, d) == t.kind = "header" /\ t.data = Header[d]

(* The wire type of a token: all but numbers are a length and bytes.       *)
Wire(kind) == CASE kind = "stop" -> "none"
                [] kind \in {"bool", "long"} -> "varint"
                [] kind = "double" -> "fixed64"
                [] OTHER -> "delimited"

Size(t) == CASE t.kind = "stop" -> 1
             [] t.kind = "header" -> 5
             [] OTHER -> FieldSize[t.kind]

BytesFrom(b, n) ==
    LET bytes[k \in n..Len(b)] == IF k = Len(b) THEN 0 ELSE Size(b[k + 1]) + bytes[k + 1]
    IN  bytes[n]

-----------------------------------------------------------------------------
(* The sender *)

(* encode(message, buffer, concatenate): the buffer the receiver has is    *)
(* cleared first.                                                          *)
Put(m) ==
    /\ buf' = IF handed THEN Frame(m) ELSE Concatenated(buf, m)
    /\ Len(buf') <= MaxBuffer
    /\ handed' = FALSE
    /\ UNCHANGED <<rdico, inbox, pos, var, callVars, due, failed, got>>

(* The message as its receiver should see it.                              *)
Seen(m) == [dico |-> m.dico, id |-> m.id, fields |-> {m.fields[k] : k \in DOMAIN m.fields}]

Send(m) ==
    /\ m.dico = announced \/ "unannounced" \in Careless
    /\ Len(sent) < MaxSent
    /\ Put(m)
    /\ sent' = Append(sent, Seen(m))
    /\ UNCHANGED announced

(* The sender loads a dictionary and encodes dicoToMsg().                  *)
SendDico(d) ==
    /\ Put(DicoMessage(d))
    /\ announced' = d
    /\ UNCHANGED sent

Handoff ==
    /\ ~handed
    /\ busy = "no"
    /\ pos = Len(inbox)
    /\ inbox' = buf
    /\ pos' = 0
    /\ at' = 0
    /\ handed' = TRUE
    /\ UNCHANGED <<announced, buf, rdico, var, busy, concat, auto, due, failed, sent, got>>

-----------------------------------------------------------------------------
(* The receiver *)

Empty(d, id) == [dico |-> d, id |-> id, fields |-> {}]

Left == SubSeq(inbox, pos + 1, Len(inbox))
OneLeft == \A k \in DOMAIN Left : Left[k] # Stop

(* The items of the definition of var.                                     *)
VarItems == IF var.dico = NoDico \/ var.id \notin DOMAIN Items[var.dico]
            THEN <<>> ELSE Items[var.dico][var.id]

(* The variables an application may decode into: a new one, one with the   *)
(* id of the message it knows comes next, one used before with id(0).      *)
Target(v) ==
    \/ v = Empty(NoDico, 0)
    \/ /\ rdico # NoDico
       /\ v.dico = NoDico /\ v.id \in DOMAIN Items[rdico]
       /\ \/ inbox[pos + 1] = [kind |-> "header", tag |-> v.id, data |-> Header[rdico]]
          \/ "expect" \in Careless
    \/ /\ v = [var EXCEPT !.id = 0]
       /\ var.dico = rdico \/ "stale" \in Careless

(* Serializer::decode(ptr, size, msg, concatenated, dico) up to its call   *)
(* of Codec::decode.                                                       *)
Call(v, c, a) ==
    /\ busy = "no"
    /\ pos < Len(inbox)
    /\ due => "late" \in Careless
    /\ c \/ OneLeft \/ "single" \in Careless
    /\ Target(v)
    /\ var' = IF v.dico # NoDico THEN Empty(v.dico, v.id) ELSE Empty(rdico, v.id)
    /\ busy' = "yes"
    /\ at' = pos
    /\ concat' = c
    /\ auto' = (a /\ c)
    /\ due' = FALSE
    /\ failed' = FALSE
    /\ UNCHANGED <<senderVars, rdico, inbox, pos, got>>

Token == inbox[at + 1]
Ended == IF at = Len(inbox) THEN TRUE ELSE Token.kind = "stop"

(* The call is over; the first p tokens of the buffer are done.            *)
Return(p) ==
    /\ busy' = "no"
    /\ pos' = p
    /\ at' = p
    /\ concat' = FALSE
    /\ auto' = FALSE

Calling == busy = "yes" /\ UNCHANGED <<senderVars, inbox, due, got>>

Throw ==
    /\ Return(pos)
    /\ failed' = TRUE
    /\ UNCHANGED <<rdico, var>>

Stay == UNCHANGED <<rdico, pos, var, at, concat, auto, failed>>

(* A null pointer is dereferenced to put the expected header in the        *)
(* exception.                                                              *)
Die == busy' = "dead" /\ Stay

(* The bytes of a token are read as an item of another kind: the call may  *)
(* go on or return inside the token or beyond it.  The model ends there.   *)
Lose == busy' = "lost" /\ Stay

Accept(v) ==
    /\ var' = v
    /\ at' = at + 1
    /\ UNCHANGED <<rdico, pos, busy, concat, auto, failed>>

(* Mutant of HeaderIs: the header is not compared.                         *)
HeaderIsAny(d) == d # NoDico /\ Token.kind = "header"

HeaderIs(d) == d # NoDico /\ IsHeader(Token, d)
CarriesDico == Token.tag = DicoId /\ HeaderIs(DicoOfDico)

(* Codec::decode(msg, input): the id of the message comes from the header. *)
ReadHeader ==
    /\ Calling
    /\ var.id = 0
    /\ \/ HeaderIs(var.dico) /\ Accept([var EXCEPT !.id = Token.tag])
       \/ ~HeaderIs(var.dico) /\ CarriesDico /\ Accept(Empty(DicoOfDico, DicoId))
       \/ /\ ~HeaderIs(var.dico) /\ ~CarriesDico
          /\ IF Wire(Token.kind) = "delimited" /\ var.dico = NoDico THEN Die ELSE Throw

Reading == Calling /\ var.id # 0 /\ ~Ended

(* What an item of another kind makes of the token: a string takes any     *)
(* bytes; the other types that have a length, the bytes that make sense to *)
(* them (decodeSeqStr does not even look at the wire type); most throw.    *)
TakenAs(kind)   == Wire(Token.kind) = Wire(kind) \/ kind = "seq_string"
RefusedAs(kind) == ~(kind = "string" /\ Wire(Token.kind) = "delimited")

(* Codec::decode(msg, input, tag) for an item of the message: there is one *)
(* value of each in a frame, so that none is met twice.                    *)
ReadItem ==
    /\ Reading
    /\ Token.tag \in DOMAIN VarItems
    /\ LET kind == VarItems[Token.tag]
       IN  \/ Token.kind = kind /\ Accept([var EXCEPT !.fields = @ \cup {Token}])
           \/ Token.kind # kind /\ RefusedAs(kind) /\ Throw
           \/ Token.kind # kind /\ TakenAs(kind) /\ Lose

(* ... and for another id: a header, if it is the id of the message.       *)
ReadOther ==
    /\ Reading
    /\ Token.tag \notin DOMAIN VarItems
    /\ \/ Token.tag # var.id /\ Throw
       \/ /\ Token.tag = var.id
          /\ \/ HeaderIs(var.dico) /\ Accept(var)
             \/ /\ ~HeaderIs(var.dico)
                /\ IF var.fields = {} /\ CarriesDico
                   THEN Accept(Empty(DicoOfDico, DicoId))
                   ELSE Throw

(* Mutant of NextMessage: the null character is left for the next call.    *)
NextAtStop == at

(* Reading past the null character, if any.                                *)
NextMessage == IF at = Len(inbox) THEN at ELSE at + 1

(* The check of Codec::decode for data behind a message that should be     *)
(* alone: rest & !concatenated, on the bits of the number of bytes.        *)
RestCheck == ~concat => BytesFrom(inbox, NextMessage) % 2 = 0

IsDico == var.dico = DicoOfDico /\ var.id = DicoId

(* msgToDico(): the dictionary the message carries.                        *)
Carried == CHOOSE d \in Dico : \E f \in var.fields : f.data = d

Finished == busy = "yes" /\ var.id # 0 /\ Ended /\ UNCHANGED <<senderVars, inbox>>

FinishThrows == Finished /\ ~RestCheck /\ Throw /\ UNCHANGED <<due, got>>

(* Mutant of FinishMessage: a null character is counted at the end too.    *)
FinishPastEnd ==
    /\ Finished
    /\ RestCheck
    /\ ~(auto /\ IsDico)
    /\ Return(at + 1)
    /\ due' = IsDico
    /\ got' = IF IsDico THEN got ELSE Append(got, var)
    /\ UNCHANGED <<rdico, var, failed>>

(* decode() returns the message and the number of bytes left.              *)
FinishMessage ==
    /\ Finished
    /\ RestCheck
    /\ ~(auto /\ IsDico)
    /\ Return(NextMessage)
    /\ due' = IsDico
    /\ got' = IF IsDico THEN got ELSE Append(got, var)
    /\ UNCHANGED <<rdico, var, failed>>

(* Mutants of FinishDico: what is behind the dictionary is dropped; the    *)
(* dictionary is decoded again.                                            *)
FinishDicoOnly ==
    /\ Finished
    /\ auto /\ IsDico
    /\ rdico' = Carried
    /\ var' = Empty(Carried, 0)
    /\ Return(Len(inbox))
    /\ UNCHANGED <<due, failed, got>>

FinishDicoAgain ==
    /\ Finished
    /\ auto /\ IsDico
    /\ rdico' = Carried
    /\ var' = Empty(Carried, 0)
    /\ at' = pos
    /\ UNCHANGED <<busy, pos, concat, auto, due, failed, got>>

(* Mutant of FinishDico: the variable keeps the id of the dictionary.      *)
FinishDicoSameId ==
    /\ Finished
    /\ auto /\ IsDico
    /\ rdico' = Carried
    /\ var' = Empty(Carried, var.id)
    /\ IF NextMessage = Len(inbox)
       THEN Return(NextMessage)
       ELSE at' = NextMessage /\ UNCHANGED <<busy, pos, concat, auto>>
    /\ UNCHANGED <<due, failed, got>>

(* The dictionary is applied; decode() goes on with the next message, if   *)
(* there is one.                                                           *)
FinishDico ==
    /\ Finished
    /\ auto /\ IsDico
    /\ rdico' = Carried
    /\ var' = Empty(Carried, 0)
    /\ IF NextMessage = Len(inbox)
       THEN Return(NextMessage)
       ELSE at' = NextMessage /\ UNCHANGED <<busy, pos, concat, auto>>
    /\ UNCHANGED <<due, failed, got>>

(* Mutant of ApplyDico: a serializer with a dictionary keeps it.           *)
ApplyFirstDico ==
    /\ busy = "no"
    /\ due
    /\ rdico' = IF rdico = NoDico THEN Carried ELSE rdico
    /\ due' = FALSE
    /\ UNCHANGED <<senderVars, inbox, pos, var, callVars, failed, got>>

(* The application has msgToDico() apply the dictionary it received.       *)
ApplyDico ==
    /\ busy = "no"
    /\ due
    /\ rdico' = Carried
    /\ due' = FALSE
    /\ UNCHANGED <<senderVars, inbox, pos, var, callVars, failed, got>>

(* The application leaves what it cannot decode.                           *)
Abandon ==
    /\ busy = "no"
    /\ failed
    /\ pos' = Len(inbox)
    /\ at' = Len(inbox)
    /\ failed' = FALSE
    /\ UNCHANGED <<senderVars, rdico, inbox, var, busy, concat, auto, due, got>>

-----------------------------------------------------------------------------
Init ==
    /\ announced = NoDico
    /\ buf = <<>> /\ handed = TRUE
    /\ rdico = NoDico
    /\ inbox = <<>> /\ pos = 0
    /\ var = Empty(NoDico, 0)
    /\ busy = "no" /\ at = 0 /\ concat = FALSE /\ auto = FALSE
    /\ due = FALSE /\ failed = FALSE
    /\ sent = <<>> /\ got = <<>>

Sender == Handoff \/ (\E m \in Message : Send(m)) \/ (\E d \in Dico : SendDico(d))

Variables == {Empty(NoDico, 0), [var EXCEPT !.id = 0]}
             \cup {Empty(NoDico, inbox[k].tag) : k \in {j \in DOMAIN inbox : inbox[j].kind = "header"}}

Start == \E v \in Variables, c, a \in BOOLEAN : Call(v, c, a)

Decode == ReadHeader \/ ReadItem \/ ReadOther \/ FinishThrows \/ FinishMessage \/ FinishDico

Next == Sender \/ Start \/ Decode \/ ApplyDico \/ Abandon

Spec == Init /\ [][Next]_vars

(* A call of decode() keeps running until it is over; the receiving        *)
(* application takes every buffer and decodes what is left in it.          *)
FairSpec == Spec /\ WF_vars(Decode) /\ WF_vars(Start) /\ WF_vars(ApplyDico) /\ WF_vars(Handoff)
-----------------------------------------------------------------------------
(* Properties *)

TypeOK ==
    /\ announced \in Dico \cup {NoDico} /\ rdico \in Dico \cup {NoDico}
    /\ handed \in BOOLEAN /\ concat \in BOOLEAN /\ auto \in BOOLEAN
    /\ due \in BOOLEAN /\ failed \in BOOLEAN
    /\ pos \in 0..Len(inbox) /\ at \in 0..Len(inbox)
    /\ var.dico \in AllDicos \cup {NoDico}
    /\ busy \in {"no", "yes", "dead", "lost"}
    /\ busy = "no" => at = pos /\ ~concat /\ ~auto

(* decode() takes the header of a message that is an item of itself for    *)
(* that item, when the application gave it the id: both have the same tag. *)
NoneOfItself == \A d \in Dico : \A i \in DOMAIN Items[d] : i \notin DOMAIN Items[d][i]

(* decode() accepts whatever encode() wrote, from a new variable or from   *)
(* one of the receiver's dictionary, with the id of the header or with the *)
(* one the application expects, if no message is an item of itself.        *)
AcceptsEncoded == ~failed /\ busy \notin {"dead", "lost"}

(* Once everything that was sent is read, both sides use one dictionary.   *)
InSync == handed /\ pos = Len(inbox) /\ busy = "no" /\ ~due => rdico = announced

(* What the header has to tell apart.  The dictionaries: the checksums     *)
(* differ.  Itself from a value, where the application expects a message   *)
(* that it may not be: that one has no item with a length whose id is the  *)
(* id of a message that comes; or the application expects none but the     *)
(* next.                                                                   *)
HeadersDiffer == \A d, e \in AllDicos : Header[d] = Header[e] => d = e
HeadersStandOut ==
    \A d \in Dico : \A i \in DOMAIN Items[d] : \A t \in DOMAIN Items[d][i] :
        Wire(Items[d][i][t]) = "delimited" => t # DicoId /\ \A m \in Message : m.id # t
HeadersKnown == HeadersStandOut \/ ("expect" \notin Careless /\ NoneOfItself)

(* The number of bytes left is where a message begins, however the calls   *)
(* of decode() ended, if the header tells dictionaries and values apart;   *)
(* if it tells only dictionaries apart, until a call is lost.              *)
AtBoundary ==
    busy = "no" /\ pos < Len(inbox) =>
        inbox[pos + 1].kind = "header" /\ (pos > 0 => inbox[pos].kind = "stop")

(* What decode() returns is a message that was encoded, whatever           *)
(* dictionaries the two sides have, if the header tells them and values    *)
(* apart; if it tells only dictionaries apart, until a call is lost.       *)
NeverMisread == \A k \in DOMAIN got : \E j \in DOMAIN sent : got[k] = sent[j]

(* Where the header does not tell itself from a value: it is taken for one *)
(* only at the beginning of a call, for which the application gave the id. *)
(* Behind a dictionary decode() goes on without (Serializer.h:175).        *)
LostAtFirst == busy = "lost" => at = pos /\ Token.kind = "header"

(* Every message sent is decoded, once, in order, with its dictionary.     *)
Promise == INSTANCE Delivery WITH Message <- {Seen(m) : m \in Message}
Delivered == Promise!Spec

(* Every call of decode() comes to an end, those that go on behind         *)
(* dictionaries included, as far as the model follows it.                  *)
CallReturns == busy = "yes" ~> busy # "yes"

(* "after decoding the message, there is still data but it was not         *)
(* concatenated => there is something wrong" (Codec.h:155): a call for a   *)
(* message that is alone does not return when data is left.                *)
RestRejected ==
    [][FinishMessage /\ ~concat => pos' = Len(inbox)]_vars
=============================================================================
