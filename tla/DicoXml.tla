------------------------------- MODULE DicoXml -------------------------------
(***************************************************************************)
(* loadDico() and parseDico(): a new dictionary is filled while the XML    *)
(* document is read, and replaces the dictionary of the Serializer at the  *)
(* end.  The elements of the document are chosen one by one as the reader  *)
(* comes to them, so that all documents over the given elements are read.  *)
(* The first element in error ends the call with an exception and the new  *)
(* dictionary with it.                                                     *)
(*                                                                         *)
(* The attributes of an element are fields of a record.  The value Missing *)
(* is an attribute that is not there, Text one that is neither a number    *)
(* nor a Boolean.                                                          *)
(***************************************************************************)
EXTENDS DicoModel

CONSTANTS NoDico,       \* the null pointer
          NoDoc,        \* no call under way
          Missing, Text,
          Versions,     \* values of the attribute version
          FieldElts,    \* FieldDef elements [name, id, deprecated, type]
          MessageElts,  \* MessageDef elements [name, id, deprecated]
          ItemElts      \* Field and Message elements [name, required, repeated, default]

ASSUME XmlAssumption ==
  /\ {Missing, Text} \cap (Int \cup BOOLEAN) = {} /\ Missing \notin Names \cup Defaults
  /\ Versions \subseteq Int \cup {Missing, Text}
  /\ \A e \in FieldElts : /\ e.name \in Names \cup {Missing}
                          /\ e.id \in Int \cup {Missing, Text}
                          /\ e.deprecated \in BOOLEAN \cup {Missing, Text}
                          /\ e.type \in EMPTY .. MESSAGE \cup {Missing}
  /\ \A e \in MessageElts : /\ e.name \in Names \cup {Missing}
                            /\ e.id \in Int \cup {Missing, Text}
                            /\ e.deprecated \in BOOLEAN \cup {Missing, Text}
  /\ \A e \in ItemElts : /\ e.name \in Names \cup {Missing}
                         /\ e.required \in BOOLEAN \cup {Missing, Text}
                         /\ e.repeated \in BOOLEAN \cup {Missing, Text}
                         /\ e.default \in Defaults \cup {Missing}

VARIABLES dico,   \* Serializer::dico_
          phase,  \* where the reader is in the document
          draft,  \* the dictionary it fills
          cur,    \* the message definition being filled, or 0
          read    \* history: what the document has declared so far

vars == <<dico, phase, draft, cur, read>>

Phases == {"idle", "dicos", "fields", "messages", "install"}

Nothing == [version |-> 0, defs |-> {}, items |-> {}]

Init == /\ dico = NoDico /\ phase = "idle"
        /\ draft = NewDico /\ cur = 0 /\ read = NoDoc

\* Mutant of Throw: the dictionary in use is the one that was filled.
ThrowHalfRead == /\ phase' = "idle" /\ draft' = NewDico /\ cur' = 0 /\ read' = NoDoc
                 /\ dico' = draft

\* The exception leaves loadDico() and newDico dies.
Throw == /\ phase' = "idle" /\ draft' = NewDico /\ cur' = 0 /\ read' = NoDoc
         /\ UNCHANGED dico

Load == /\ phase = "idle"
        /\ phase' = "dicos" /\ draft' = NewDico /\ read' = Nothing
        /\ UNCHANGED <<dico, cur>>

\* doc.Error(): tinyxml2 finds the document malformed.
LoadError == phase = "dicos" /\ draft = NewDico /\ read = Nothing /\ Throw

(***************************************************************************)
(* Attributes: all but the comments are required.  A string can be any     *)
(* text, an integer, Boolean or floating-point number cannot.              *)
(***************************************************************************)
StringGiven(v)  == v # Missing
IntegerGiven(v) == v \notin {Missing, Text}
BooleanGiven(v) == v \notin {Missing, Text}
DoubleGiven(v)  == v \notin {Missing, Text}

(***************************************************************************)
(* process(): the Dico elements, in each the header, all definitions of    *)
(* fields and then all definitions of messages.                            *)
(***************************************************************************)
ParseDicoHeader(v) ==
  /\ phase = "dicos"
  /\ IF IntegerGiven(v)
     THEN /\ draft' = [draft EXCEPT !.version = v]
          /\ read' = [read EXCEPT !.version = v]
          /\ phase' = "fields"
          /\ UNCHANGED <<dico, cur>>
     ELSE Throw

EndFields == phase = "fields" /\ phase' = "messages" /\ UNCHANGED <<dico, draft, cur, read>>

EndMessages == /\ phase = "messages" /\ phase' = "dicos" /\ cur' = 0
               /\ UNCHANGED <<dico, draft, read>>

EndDocument ==
  /\ phase = "dicos"
  /\ IF Cardinality(DOMAIN draft.names) <= 1
     THEN Throw
     ELSE phase' = "install" /\ UNCHANGED <<dico, draft, cur, read>>

(***************************************************************************)
(* Definitions.                                                            *)
(***************************************************************************)
IdAccepted(id) == IntegerGiven(id) /\ ~(id <= 0) /\ ~(id > IdMax)

\* Type::parse() gives EMPTY for every name it does not know.
FieldTypeAccepted(t) == StringGiven(t) /\ t \notin {EMPTY, MESSAGE}

\* Mutant of Addable: the name is not looked up.
AddableTwice(e) == /\ StringGiven(e.name) /\ IdAccepted(e.id)
                   /\ ~IdTaken(draft, e.id)
                   /\ BooleanGiven(e.deprecated)

Addable(e) == /\ StringGiven(e.name) /\ IdAccepted(e.id)
              /\ ~NameTaken(draft, e.name) /\ ~IdTaken(draft, e.id)
              /\ BooleanGiven(e.deprecated)

Declared(e, type) == [id |-> e.id, name |-> e.name, type |-> type]

ParseFieldDefElt(e) ==
  /\ phase = "fields"
  /\ IF Addable(e) /\ FieldTypeAccepted(e.type)
     THEN /\ draft' = AddField(draft, e.id, e.name, e.type)
          /\ read' = [read EXCEPT !.defs = @ \cup {Declared(e, e.type)}]
          /\ UNCHANGED <<dico, phase, cur>>
     ELSE Throw

\* The message is in the dictionary before its items are read: it may be an
\* item of itself.
ParseMessageDefElt(e) ==
  /\ phase = "messages"
  /\ IF Addable(e)
     THEN /\ draft' = AddField(draft, e.id, e.name, MESSAGE)
          /\ read' = [read EXCEPT !.defs = @ \cup {Declared(e, MESSAGE)}]
          /\ cur' = e.id
          /\ UNCHANGED <<dico, phase>>
     ELSE Throw

UnexpectedChild == phase = "messages" /\ cur # 0 /\ Throw

(***************************************************************************)
(* Items.  The default value is read for the primitive types only, and as  *)
(* a value of the type of the item.                                        *)
(***************************************************************************)
ItemType(e) == LET t == FieldOf(draft, IdOf(draft, e.name)).type
               IN  IF e.repeated THEN SetSequence(t) ELSE t

DefaultGiven(e) ==
  CASE ItemType(e) = BOOL     -> BooleanGiven(e.default)
    [] ItemType(e) = LONG     -> IntegerGiven(e.default)
    [] ItemType(e) = DOUBLE   -> DoubleGiven(e.default)
    [] ItemType(e) = STRING_T -> StringGiven(e.default)
    [] OTHER                  -> TRUE

FlagsGiven(e) == BooleanGiven(e.required) /\ BooleanGiven(e.repeated)

\* Mutant of ItemAccepted: an item without definition passes.
ItemOfNothing(e) == /\ StringGiven(e.name) /\ FlagsGiven(e)
                    /\ ~ItemTaken(draft, cur, IdOf(draft, e.name))
                    /\ DefaultGiven(e)

ItemAccepted(e) == /\ StringGiven(e.name) /\ FlagsGiven(e)
                   /\ IdOf(draft, e.name) # 0
                   /\ ~ItemTaken(draft, cur, IdOf(draft, e.name))
                   /\ DefaultGiven(e)

ParseItem(e) ==
  /\ phase = "messages" /\ cur # 0
  /\ IF ItemAccepted(e)
     THEN /\ draft' = AddItem(draft, cur, IdOf(draft, e.name), ItemType(e),
                              e.required, e.default)
          /\ read' = [read EXCEPT !.items = @ \cup {[msg |-> cur, elt |-> e]}]
          /\ UNCHANGED <<dico, phase, cur>>
     ELSE Throw

\* pointers(), then the new dictionary replaces the old one.
Install == /\ phase = "install"
           /\ dico' = draft
           /\ phase' = "idle" /\ draft' = NewDico /\ cur' = 0 /\ read' = NoDoc

Next == \/ Load \/ LoadError \/ EndFields \/ EndMessages \/ EndDocument
        \/ UnexpectedChild \/ Install
        \/ \E v \in Versions : ParseDicoHeader(v)
        \/ \E e \in FieldElts : ParseFieldDefElt(e)
        \/ \E e \in MessageElts : ParseMessageDefElt(e)
        \/ \E e \in ItemElts : ParseItem(e)

Spec == Init /\ [][Next]_vars

(***************************************************************************)
(* Properties.                                                             *)
(***************************************************************************)
ItemSets == [type : Types, required : BOOLEAN, default : Defaults]

DicoOK(d) ==
  /\ d.version \in Int
  /\ DOMAIN d.names \subseteq Names /\ \A n \in DOMAIN d.names : d.names[n] \in Ids
  /\ DOMAIN d.fields = Ids
  /\ \A i \in Ids : LET f == d.fields[i] IN
       /\ f.name \in Names /\ f.type \in Types
       /\ DOMAIN f.items \subseteq Ids
       /\ \A j \in DOMAIN f.items : f.items[j] \in ItemSets

\* The two indexes of a dictionary, complete or not, say the same: a name leads
\* to the definition that bears it, a definition is found by its name if it has
\* one, and no name leads to an id that was not defined.
IndexesAgree(d) ==
  /\ \A n \in DOMAIN d.names : d.names[n] # 0 =>
        /\ d.fields[d.names[n]].name = n
        /\ d.fields[d.names[n]].type # EMPTY
  /\ \A i \in Defined(d) : d.fields[i].name # NoName => IdOf(d, d.fields[i].name) = i

\* What pointers() relies on, and asserts in debug builds (Serializer.cpp:378-400):
\* definitions have a name and a type, only messages have items, and an item has
\* the type of a definition that exists, or the sequence type made of it.
IsConsistent(d) ==
  \A i \in {d.names[n] : n \in DOMAIN d.names} \ {0} :
    LET def == d.fields[i] IN
    /\ def.type \in BOOL .. SEQ_MESSAGE /\ def.name # NoName
    /\ def.type # MESSAGE => DOMAIN def.items = {}
    /\ \A j \in DOMAIN def.items :
         LET f == FieldOf(d, j) IN
         f.type # EMPTY /\ f.type = Basic(def.items[j].type) /\ f.name # NoName

\* What the document declares, with the names of the items resolved among all its
\* definitions, whatever their order.
Resolved(x) ==
  LET e == CHOOSE y \in read.defs : y.name = x.elt.name
      t == IF x.elt.repeated THEN SetSequence(e.type) ELSE e.type
  IN  [msg |-> x.msg, id |-> e.id, type |-> t, required |-> x.elt.required,
       default |-> IF Primitive(t) THEN x.elt.default ELSE Zero]

ReadDoc == IF read = NoDoc THEN NoDoc
           ELSE [version  |-> read.version,
                 defs     |-> read.defs,
                 items    |-> {Resolved(x) : x \in read.items},
                 complete |-> phase = "install"]
=============================================================================
