------------------------------ MODULE DicoModel ------------------------------
(***************************************************************************)
(* The dictionary of pbart (Dico.h, Types.h): the definitions of fields    *)
(* and messages, indexed by id (fieldById_) and by name (idByName_).       *)
(*                                                                         *)
(* fieldById_ grows on demand, and reading past its end gives the entry 0, *)
(* which is never defined: it is a total function on the ids here, whose   *)
(* undefined entries are EMPTY.  Comments and the deprecated flag are left *)
(* out: no operation reads them.                                           *)
(***************************************************************************)
EXTENDS Integers, FiniteSets, FieldTypes

CONSTANTS Names,     \* the names definitions and items may have
          NoName,    \* the empty name
          IdMax,     \* ID_MAX, the largest short
          Defaults,  \* the default values of items
          Zero       \* the default value zero, false or ""

ASSUME ModelAssumption == /\ NoName \in Names
                          /\ IdMax \in Nat \ {0}
                          /\ Zero \in Defaults

(***************************************************************************)
(* The dictionary.                                                         *)
(***************************************************************************)
Ids == 0 .. IdMax

Put(f, k, v) == [x \in DOMAIN f \cup {k} |-> IF x = k THEN v ELSE f[x]]

NoItems  == [i \in {} |-> Zero]
NewField == [name |-> NoName, type |-> EMPTY, items |-> NoItems]

NewDico == [version |-> 0,
            names   |-> [n \in {NoName} |-> 0],
            fields  |-> [i \in Ids |-> NewField]]

Defined(d) == {i \in Ids : d.fields[i].type # EMPTY}

\* id(name): zero means "not found".
IdOf(d, name) == IF name \in DOMAIN d.names THEN d.names[name] ELSE 0

\* field(id): past the end of the vector it is the entry 0.
FieldOf(d, id) == IF id \in Ids THEN d.fields[id] ELSE d.fields[0]

AddName(d, id, name) ==
  IF name \in DOMAIN d.names THEN d ELSE [d EXCEPT !.names = Put(@, name, id)]

\* addField() throws when the name or the id is taken; the name is inserted
\* before the id is looked at.
NameTaken(d, name) == IdOf(d, name) # 0
IdTaken(d, id)     == d.fields[id].type # EMPTY

AddField(d, id, name, type) ==
  [AddName(d, id, name) EXCEPT !.fields[id].name = name, !.fields[id].type = type]

ItemTaken(d, msg, id) == id \in DOMAIN d.fields[msg].items

\* FieldT::add() and the default value that its callers store.
AddItem(d, msg, id, type, required, default) ==
  [d EXCEPT !.fields[msg].items =
     Put(@, id, [type     |-> type,
                 required |-> required,
                 default  |-> IF Primitive(type) THEN default ELSE Zero])]
=============================================================================
