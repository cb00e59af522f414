---------------------------- MODULE DicoTransfer ----------------------------
(***************************************************************************)
(* A dictionary as a message: dicoToMsg() writes the dictionary in use     *)
(* into a message of the dictionary of dictionaries, msgToDico() makes a   *)
(* dictionary of such a message and puts it in the place of the one in     *)
(* use.  Between the two the message may travel and the Serializer may     *)
(* read other dictionaries; other messages arrive too.                     *)
(*                                                                         *)
(* A message is [dod, id, version, fields]: whether its dictionary has the *)
(* header of the dictionary of dictionaries, and a sequence of             *)
(* [id, name, type, items], each with a sequence of                        *)
(* [id, type, required, default].  A value that is absent is 0, the empty  *)
(* name or Zero, which is what get() returns then.  Every message here has *)
(* a dictionary: msgToDico() looks into it without asking (undefined       *)
(* behaviour if there is none, Serializer.cpp:74).                         *)
(***************************************************************************)
EXTENDS DicoXml, Sequences, Functions

CONSTANTS NameOrder,    \* the names in the order of the map idByName_
          IntSpan,      \* number of values of an int
          TypeSpan,     \* number of values of Type::Integer
          AsDouble,     \* what a value of type LONG is after a stay in a double
          DicoId,       \* Serializer::dicoId_
          NoMsg,        \* nothing was sent yet
          ForeignMsgs   \* messages that this Serializer did not make

\* What get() returns of an item of the dictionary of dictionaries has its type.
ItemMsgs == [id : Int, type : Nat, required : BOOLEAN, default : Defaults]
FieldMsgs == [id : Int, name : Names, type : Nat, items : Seq(ItemMsgs)]
Msgs == [dod : BOOLEAN, id : Int, version : Int, fields : Seq(FieldMsgs)]

\* What is read of a document or a message, and what it means.
Defs == [id : Ids, name : Names, type : Types]
ItemDefs == [msg : Ids, id : Ids, type : Types, required : BOOLEAN, default : Defaults]
Declarations == [version : Int, defs : SUBSET Defs,
                 items : SUBSET ([msg : Ids, elt : ItemElts] \cup ItemDefs)]
Docs == [version : Int, defs : SUBSET Defs, items : SUBSET ItemDefs, complete : BOOLEAN]

AsInt(n) == ((n + IntSpan \div 2) % IntSpan) - (IntSpan \div 2)

AsType(n) == n % TypeSpan

\* The version of a document is read into an int.
ASSUME TransferAssumption ==
  /\ NameOrder \in Seq(Names)
  /\ IsInjective(NameOrder) /\ Names = {NameOrder[k] : k \in DOMAIN NameOrder}
  /\ IntSpan \in Nat /\ IntSpan > 2 * IdMax /\ TypeSpan \in Nat /\ TypeSpan > SEQ_MESSAGE
  /\ \A v \in Versions \ {Missing, Text} : AsInt(v) = v
  /\ AsDouble \in [Defaults -> Defaults]
  /\ DicoId \in Int
  /\ \A msg \in ForeignMsgs : msg \in Msgs
  /\ NoDoc \notin Declarations /\ NoDoc \notin Docs

VARIABLES outbox,  \* the last message dicoToMsg() made, with its dictionary
          todo,    \* the definitions that msgToDico() has to add
          left,    \* the items it has to add to the definition cur
          own,     \* whether it reads the message in outbox
          heard    \* history: what it has added

tvars == <<outbox, todo, left, own, heard>>
allVars == <<dico, phase, draft, cur, read, outbox, todo, left, own, heard>>

TransferInit == /\ Init /\ outbox = NoMsg
                /\ todo = <<>> /\ left = <<>> /\ own = FALSE /\ heard = NoDoc

(***************************************************************************)
(* dicoToMsg().                                                            *)
(***************************************************************************)
\* Default values of type LONG are sent as doubles, which have 53 bits.
Sent(item) == IF item.type = LONG THEN AsDouble[item.default] ELSE item.default

\* Mutant of ItemMsg: the type of the definition is written.
ItemMsgBasic(i, item) == [id |-> i, type |-> Basic(item.type), required |-> item.required,
                          default |-> IF Primitive(item.type) THEN Sent(item) ELSE Zero]

ItemMsg(i, item) == [id |-> i, type |-> item.type, required |-> item.required,
                     default |-> IF Primitive(item.type) THEN Sent(item) ELSE Zero]

\* The order of the maps that are gone through.
Ascending(S) == CHOOSE s \in [1 .. Cardinality(S) -> S] : \A j, k \in DOMAIN s : j < k => s[j] < s[k]

FieldMsg(d, i) ==
  LET f   == FieldOf(d, i)
      ids == Ascending(DOMAIN f.items)
  IN  [id |-> i, name |-> f.name, type |-> f.type,
       items |-> [k \in DOMAIN ids |-> ItemMsg(ids[k], f.items[ids[k]])]]

Listed(d) ==
  LET places == {k \in DOMAIN NameOrder : IdOf(d, NameOrder[k]) # 0}
  IN  [k \in 1 .. Cardinality(places) |-> NameOrder[Ascending(places)[k]]]

MsgOf(d) ==
  IF d = NoDico
  THEN [dod |-> TRUE, id |-> DicoId, version |-> 0, fields |-> <<>>]
  ELSE [dod |-> TRUE, id |-> DicoId, version |-> d.version,
        fields |-> [k \in DOMAIN Listed(d) |-> FieldMsg(d, d.names[Listed(d)[k]])]]

DicoToMsg == /\ phase = "idle"
             /\ outbox' = [msg |-> MsgOf(dico), origin |-> dico]
             /\ UNCHANGED <<dico, phase, draft, cur, read, todo, left, own, heard>>

(***************************************************************************)
(* msgToDico().                                                            *)
(***************************************************************************)
Reject == /\ Throw
          /\ todo' = <<>> /\ left' = <<>> /\ own' = FALSE /\ heard' = NoDoc
          /\ UNCHANGED outbox

MsgToDico(msg, mine) ==
  /\ phase = "idle"
  /\ IF msg.dod /\ msg.id = DicoId
     THEN /\ draft' = [NewDico EXCEPT !.version = AsInt(msg.version)]
          /\ phase' = "received"
          /\ todo' = msg.fields /\ own' = mine
          /\ heard' = [Nothing EXCEPT !.version = AsInt(msg.version)]
          /\ UNCHANGED <<dico, cur, read, outbox, left>>
     ELSE Reject

FieldAccepted(f, id, type) ==
  /\ 0 < id /\ id < IdMax
  /\ ~NameTaken(draft, f.name) /\ ~IdTaken(draft, id)
  /\ type <= SEQ_MESSAGE /\ ~Repeated(type)
  /\ f.items # <<>> => type = MESSAGE

AddFieldMsg ==
  LET f    == Head(todo)
      id   == AsInt(f.id)
      type == AsType(f.type)
  IN  /\ phase = "received" /\ left = <<>> /\ todo # <<>>
      /\ IF FieldAccepted(f, id, type)
         THEN /\ draft' = AddField(draft, id, f.name, type)
              /\ cur' = id /\ left' = f.items /\ todo' = Tail(todo)
              /\ heard' = [heard EXCEPT !.defs = @ \cup {[id |-> id, name |-> f.name, type |-> type]}]
              /\ UNCHANGED <<dico, phase, read, outbox, own>>
         ELSE Reject

ItemMsgAccepted(i, type) == /\ type # EMPTY /\ type <= SEQ_MESSAGE
                            /\ 0 < i.id /\ i.id < IdMax
                            /\ ~ItemTaken(draft, cur, i.id)

AddItemMsg ==
  LET i    == Head(left)
      type == AsType(i.type)
      default == IF Primitive(type) THEN i.default ELSE Zero
  IN  /\ phase = "received" /\ left # <<>>
      /\ IF ItemMsgAccepted(i, type)
         THEN /\ draft' = AddItem(draft, cur, i.id, type, i.required, default)
              /\ left' = Tail(left)
              /\ heard' = [heard EXCEPT !.items = @ \cup
                   {[msg |-> cur, id |-> i.id, type |-> type,
                     required |-> i.required, default |-> default]}]
              /\ UNCHANGED <<dico, phase, cur, read, outbox, todo, own>>
         ELSE Reject

EndFieldMsgs == /\ phase = "received" /\ todo = <<>> /\ left = <<>>
                /\ phase' = "install"
                /\ UNCHANGED <<dico, draft, cur, read, outbox, todo, left, own, heard>>

InstallMsg == /\ heard # NoDoc /\ Install
              /\ own' = FALSE /\ heard' = NoDoc
              /\ UNCHANGED <<outbox, todo, left>>

ReadXml == heard = NoDoc /\ Next /\ UNCHANGED tvars

TransferNext == \/ ReadXml \/ DicoToMsg
                \/ (outbox # NoMsg /\ MsgToDico(outbox.msg, TRUE))
                \/ \E msg \in ForeignMsgs : MsgToDico(msg, FALSE)
                \/ AddFieldMsg \/ AddItemMsg \/ EndFieldMsgs \/ InstallMsg

TransferSpec == TransferInit /\ [][TransferNext]_allVars

(***************************************************************************)
(* Properties.                                                             *)
(***************************************************************************)
\* Every dictionary has the shape of one, whatever numbers the messages carry.
TransferTypeOK == /\ phase \in Phases \cup {"received"} /\ cur \in Ids
                  /\ DicoOK(draft) /\ (dico # NoDico => DicoOK(dico))

\* The two indexes of a dictionary that is being filled agree at every moment (idByName_
\* and fieldById_ in Dico.h), unless a message has declared a definition without type,
\* whose id addField() takes for free: then two names may lead to one definition.
IndexAgree == (heard # NoDoc => \A e \in heard.defs : e.type # EMPTY) => IndexesAgree(draft)

\* dicoToMsg() goes through the names: what no name leads to is not sent, and of the
\* names only those that the definitions bear.
Named(d) == {d.names[n] : n \in DOMAIN d.names} \ {0}

AsSent(f) ==
  [f EXCEPT !.items = [j \in DOMAIN f.items |-> [f.items[j] EXCEPT !.default = Sent(f.items[j])]]]

ReadBack(d) ==
  [version |-> d.version,
   names   |-> [n \in {NoName} \cup {d.fields[i].name : i \in Named(d)} |-> d.names[n]],
   fields  |-> [i \in Ids |-> IF i \in Named(d) THEN AsSent(d.fields[i]) ELSE NewField]]

\* ID_MAX is not used, which the XML reader accepts, and no two names lead to one
\* definition, unless it has neither name nor type: that one may be repeated.
TakenBack(d) == /\ IdMax \notin Named(d)
                /\ \A n1, n2 \in DOMAIN d.names :
                     n1 # n2 /\ d.names[n1] = d.names[n2] => d.fields[d.names[n1]] = NewField

\* A Serializer takes back the dictionary it sent, whatever dictionary is in use by
\* then: msgToDico() of a message that dicoToMsg() made gives the dictionary it was
\* made of, but for definitions that no name leads to, names that no definition bears
\* and LONG default values that are no doubles, or refuses it and keeps the one in use
\* (Serializer.cpp:176-249 against 253-361).
RoundTrip ==
  [][own /\ phase' = "idle" =>
       dico' = IF outbox.origin = NoDico THEN NewDico
               ELSE IF TakenBack(outbox.origin) THEN ReadBack(outbox.origin)
               ELSE dico]_allVars

\* What pointers() asserts in debug builds (Serializer.cpp:378-400) holds of every
\* dictionary an XML document fills, at every moment.
XmlConsistent == heard = NoDoc => IsConsistent(draft)

HeardDoc == IF heard = NoDoc THEN ReadDoc
            ELSE [version |-> heard.version, defs |-> heard.defs,
                  items |-> heard.items, complete |-> phase = "install"]

Received == INSTANCE DicoStore WITH doc <- HeardDoc

\* Whether it comes from a document or from a message, a dictionary is installed as a
\* whole or not at all, exactly as its source declares it and free of conflicts: the
\* two ways together implement DicoStore.  A message may leave out types of definitions
\* and definitions of items, which nothing looks for (Serializer.cpp:267 and 326); for
\* such messages the promise is only that a refused one changes nothing.
BothImplementStore == Received!Spec
=============================================================================
