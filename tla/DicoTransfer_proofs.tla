------------------------ MODULE DicoTransfer_proofs ------------------------
(***************************************************************************)
(* Proofs about DicoTransfer and the modules it is built on, for any       *)
(* names, ids, documents and messages.                                     *)
(*                                                                         *)
(* The dictionary that is being filled is at every moment the one that     *)
(* DicoStore says what was read so far means; the steps of the readers are *)
(* treated once for the XML document and the message.                      *)
(*                                                                         *)
(* Of a dictionary that is taken back, the one that is being filled is at  *)
(* every moment the part that was read.                                    *)
(***************************************************************************)
EXTENDS DicoTransfer, FiniteSetTheorems, TLAPS

(* A set of natural numbers that is closed under successor is Nat.         *)
LEMMA NatSetInduction ==
  ASSUME NEW S \in SUBSET Nat, 0 \in S, \A n \in S : n + 1 \in S
  PROVE  S = Nat
<1> DEFINE R == OpToRel(<, Nat)
           T == Nat \ S
<1>1. ASSUME T # {} PROVE FALSE
  <2>1. IsWellFoundedOn(R, Nat)  BY NatLessThanWellFounded
  <2> HIDE DEF R
  <2>2. PICK x \in T : \A y \in T : ~ (<<y, x>> \in R)  BY <1>1, <2>1, WFMin
  <2>3. x \in Nat /\ x - 1 \in Nat /\ x - 1 \in T /\ x - 1 < x  BY <2>2
  <2>4. <<x - 1, x>> \in R  BY <2>3 DEF R, OpToRel
  <2> QED  BY <2>2, <2>3, <2>4
<1> QED  BY <1>1

(* Any finite set of natural numbers can be gone through upwards.          *)
LEMMA AscendingIs ==
  ASSUME NEW n \in Nat, NEW S \in SUBSET (0 .. n)
  PROVE  /\ Cardinality(S) \in Nat
         /\ Ascending(S) \in [1 .. Cardinality(S) -> S]
         /\ \A j, k \in 1 .. Cardinality(S) : j < k => Ascending(S)[j] < Ascending(S)[k]
<1> DEFINE Up(s) == \A j, k \in DOMAIN s : j < k => s[j] < s[k]
           Listable(T) == \E s \in [1 .. Cardinality(T) -> T] : Up(s)
           G == {m \in Nat : \A T \in SUBSET (0 .. m - 1) : Listable(T)}
<1>1. 0 \in G
  <2> SUFFICES ASSUME NEW T \in SUBSET (0 .. 0 - 1) PROVE Listable(T)  OBVIOUS
  <2>0. T = {}  OBVIOUS
  <2>1. Cardinality(T) = 0  BY <2>0, FS_EmptySet
  <2>2. [k \in 1 .. 0 |-> 0] \in [1 .. Cardinality(T) -> T]  BY <2>1
  <2>3. Up([k \in 1 .. 0 |-> 0])  OBVIOUS
  <2> QED  BY <2>2, <2>3
<1>2. ASSUME NEW m \in G PROVE m + 1 \in G
  <2> SUFFICES ASSUME NEW T \in SUBSET (0 .. m) PROVE Listable(T)  BY <1>2
  <2>1. CASE m \notin T  BY <1>2, <2>1
  <2>2. CASE m \in T
    <3> DEFINE U == T \ {m}
               c == Cardinality(U)
    <3>0. m \in Int /\ 0 \in Int /\ m \in Nat  BY <1>2
    <3>1. IsFiniteSet(T)
      <4>1. IsFiniteSet(0 .. m)  BY <3>0, FS_Interval
      <4> QED  BY <4>1, FS_Subset
    <3>2. IsFiniteSet(U) /\ c \in Nat /\ Cardinality(T) = c + 1
      <4>1. Cardinality(T) \in Nat  BY <3>1, FS_CardinalityType
      <4>2. IsFiniteSet(U) /\ c = Cardinality(T) - 1  BY <2>2, <3>1, FS_RemoveElement
      <4>3. c \in Nat  BY <4>2, FS_CardinalityType
      <4> QED  BY <4>1, <4>2, <4>3
    <3>3. Listable(U)
      <4>1. U \in SUBSET (0 .. m - 1)  BY <3>0
      <4> QED  BY <1>2, <4>1
    <3>4. PICK s \in [1 .. c -> U] : Up(s)  BY <3>3
    <3> DEFINE t == [k \in 1 .. c + 1 |-> IF k = c + 1 THEN m ELSE s[k]]
    <3> HIDE DEF c
    <3>5. t \in [1 .. Cardinality(T) -> T]  BY <2>2, <3>2, <3>4
    <3>6. \A k \in 1 .. c : s[k] < m
      <4>1. \A x \in U : x < m  BY <3>0
      <4> QED  BY <3>4, <4>1
    <3>7. Up(t)
      <4> SUFFICES ASSUME NEW j \in 1 .. c + 1, NEW k \in 1 .. c + 1, j < k PROVE t[j] < t[k]
        OBVIOUS
      <4>1. j \in 1 .. c /\ t[j] = s[j]  BY <3>2
      <4>2. CASE k = c + 1  BY <4>1, <4>2, <3>6
      <4>3. CASE k # c + 1
        <5>1. k \in 1 .. c /\ t[k] = s[k]  BY <4>3, <3>2
        <5> QED  BY <3>4, <4>1, <5>1
      <4> QED  BY <4>2, <4>3
    <3> HIDE DEF t
    <3> QED  BY <3>5, <3>7
  <2> QED  BY <2>1, <2>2
<1>3. G = Nat  BY <1>1, <1>2, NatSetInduction
<1>4. Listable(S)
  <2> HIDE DEF G
  <2>1. n + 1 \in G  BY <1>3
  <2>2. (n + 1) - 1 = n  OBVIOUS
  <2> USE DEF G
  <2>3. \A T \in SUBSET (0 .. (n + 1) - 1) : Listable(T)  BY <2>1
  <2> QED  BY <2>2, <2>3
<1>5. IsFiniteSet(S) /\ Cardinality(S) \in Nat
  <2>1. IsFiniteSet(0 .. n)  BY FS_Interval
  <2>2. IsFiniteSet(S)  BY <2>1, FS_Subset
  <2> QED  BY <2>2, FS_CardinalityType
<1>6. Ascending(S) \in [1 .. Cardinality(S) -> S] /\ Up(Ascending(S))
  BY <1>4 DEF Ascending
<1> QED  BY <1>5, <1>6

-----------------------------------------------------------------------------
(* Dictionaries.                                                           *)

FieldDefs == [name : Names, type : Types, items : UNION {[J -> ItemSets] : J \in SUBSET Ids}]
Dicos == [version : Int, names : UNION {[N -> Ids] : N \in SUBSET Names},
          fields : [Ids -> FieldDefs]]

LEMMA DicosOK == ASSUME NEW d \in Dicos PROVE DicoOK(d)
  BY DEF Dicos, FieldDefs, DicoOK

LEMMA IdsAre == Ids \subseteq Nat /\ 0 \in Ids /\ EMPTY \in Types /\ NoName \in Names
  BY ModelAssumption DEF Ids, EMPTY, Types, SEQ_MESSAGE

LEMMA NewDicoIs == NewDico \in Dicos /\ NewField \in FieldDefs
<1>1. NoItems \in [{} -> ItemSets]  BY DEF NoItems
<1>2. NewField \in FieldDefs  BY <1>1, IdsAre DEF NewField, FieldDefs
<1>3. [n \in {NoName} |-> 0] \in [{NoName} -> Ids] /\ {NoName} \in SUBSET Names
  BY IdsAre
<1>4. [n \in {NoName} |-> 0] \in UNION {[N -> Ids] : N \in SUBSET Names}  BY <1>3
<1>5. [i \in Ids |-> NewField] \in [Ids -> FieldDefs]  BY <1>2
<1> QED  BY <1>2, <1>4, <1>5 DEF NewDico, Dicos

LEMMA AddFieldIs ==
  ASSUME NEW d \in Dicos, NEW id \in Ids, NEW name \in Names, NEW type \in Types
  PROVE  /\ AddField(d, id, name, type) \in Dicos
         /\ AddField(d, id, name, type)
              = [version |-> d.version,
                 names   |-> IF name \in DOMAIN d.names THEN d.names ELSE Put(d.names, name, id),
                 fields  |-> [d.fields EXCEPT ![id] =
                                [name |-> name, type |-> type, items |-> d.fields[id].items]]]
<1> DEFINE names == IF name \in DOMAIN d.names THEN d.names ELSE Put(d.names, name, id)
           f == [name |-> name, type |-> type, items |-> d.fields[id].items]
           fields == [d.fields EXCEPT ![id] = f]
<1>1. PICK N \in SUBSET Names : d.names \in [N -> Ids]  BY DEF Dicos
<1>2. d = [version |-> d.version, names |-> d.names, fields |-> d.fields]
      /\ d.version \in Int /\ d.fields \in [Ids -> FieldDefs]
  BY DEF Dicos
<1>3. Put(d.names, name, id) \in [N \cup {name} -> Ids]  BY <1>1 DEF Put
<1>4. names \in UNION {[K -> Ids] : K \in SUBSET Names}
  <2>1. N \cup {name} \in SUBSET Names  OBVIOUS
  <2> QED  BY <1>1, <1>3, <2>1
<1>5. f \in FieldDefs  BY <1>2 DEF FieldDefs
<1>6. fields \in [Ids -> FieldDefs]  BY <1>2, <1>5
<1>7. AddName(d, id, name) = [version |-> d.version, names |-> names, fields |-> d.fields]
  BY <1>2 DEF AddName
<1>8. d.fields[id] = [name |-> d.fields[id].name, type |-> d.fields[id].type,
                      items |-> d.fields[id].items]
  BY <1>2 DEF FieldDefs
<1>9. [[d.fields EXCEPT ![id].name = name] EXCEPT ![id].type = type] = fields
  <2>1. [[d.fields EXCEPT ![id].name = name] EXCEPT ![id].type = type]
          = [d.fields EXCEPT ![id] = [[@ EXCEPT !.name = name] EXCEPT !.type = type]]
    BY <1>2
  <2> QED  BY <1>2, <1>8, <2>1
<1>10. AddField(d, id, name, type) = [version |-> d.version, names |-> names, fields |-> fields]
  <2>1. AddField(d, id, name, type)
          = [version |-> d.version, names |-> names,
             fields |-> [[d.fields EXCEPT ![id].name = name] EXCEPT ![id].type = type]]
    <3> DEFINE r == [version |-> d.version, names |-> names, fields |-> d.fields]
               g == [d.fields EXCEPT ![id].name = name]
               h == [g EXCEPT ![id].type = type]
    <3>1. [r EXCEPT !.fields[id].name = name] = [version |-> d.version, names |-> names, fields |-> g]
      OBVIOUS
    <3>2. [r EXCEPT !.fields[id].name = name, !.fields[id].type = type]
            = [[r EXCEPT !.fields[id].name = name] EXCEPT !.fields[id].type = type]
      OBVIOUS
    <3> HIDE DEF g
    <3>3. [[version |-> d.version, names |-> names, fields |-> g] EXCEPT !.fields[id].type = type]
            = [version |-> d.version, names |-> names, fields |-> h]
      OBVIOUS
    <3>4. AddField(d, id, name, type) = [r EXCEPT !.fields[id].name = name, !.fields[id].type = type]
      BY <1>7 DEF AddField
    <3> HIDE DEF r, h
    <3>5. AddField(d, id, name, type) = [version |-> d.version, names |-> names, fields |-> h]
      BY <3>1, <3>2, <3>3, <3>4
    <3> QED  BY <3>5 DEF h, g
  <2> QED  BY <1>9, <2>1
<1> QED  BY <1>2, <1>4, <1>6, <1>10 DEF Dicos

WithItem(d, msg, id, item) ==
  [version |-> d.version, names |-> d.names,
   fields |-> [d.fields EXCEPT ![msg] =
      [name |-> d.fields[msg].name, type |-> d.fields[msg].type,
       items |-> Put(d.fields[msg].items, id, item)]]]

LEMMA AddItemIs ==
  ASSUME NEW d \in Dicos, NEW msg \in Ids, NEW id \in Ids, NEW type \in Types,
         NEW required \in BOOLEAN, NEW default, Primitive(type) => default \in Defaults
  PROVE  /\ AddItem(d, msg, id, type, required, default) \in Dicos
         /\ AddItem(d, msg, id, type, required, default)
              = WithItem(d, msg, id, [type |-> type, required |-> required,
                                      default |-> IF Primitive(type) THEN default ELSE Zero])
<1> DEFINE item == [type |-> type, required |-> required,
                    default |-> IF Primitive(type) THEN default ELSE Zero]
           f == d.fields[msg]
           g == [name |-> f.name, type |-> f.type, items |-> Put(f.items, id, item)]
           fields == [d.fields EXCEPT ![msg] = g]
<1>1. d = [version |-> d.version, names |-> d.names, fields |-> d.fields]
      /\ d.version \in Int /\ d.fields \in [Ids -> FieldDefs]
      /\ d.names \in UNION {[N -> Ids] : N \in SUBSET Names}
  BY DEF Dicos
<1>2. f = [name |-> f.name, type |-> f.type, items |-> f.items]
      /\ f.name \in Names /\ f.type \in Types
      /\ f.items \in UNION {[J -> ItemSets] : J \in SUBSET Ids}
  BY <1>1 DEF FieldDefs
<1>3. item \in ItemSets  BY ModelAssumption DEF ItemSets
<1>4. PICK J \in SUBSET Ids : f.items \in [J -> ItemSets]  BY <1>2
<1> HIDE DEF item, f
<1>5. Put(f.items, id, item) \in [J \cup {id} -> ItemSets] /\ J \cup {id} \in SUBSET Ids
  BY <1>3, <1>4 DEF Put
<1>6. g \in FieldDefs  BY <1>2, <1>5 DEF FieldDefs
<1>7. fields \in [Ids -> FieldDefs]  BY <1>1, <1>6
<1>8. AddItem(d, msg, id, type, required, default)
        = [d EXCEPT !.fields[msg].items = Put(f.items, id, item)]
  BY <1>1, <1>2 DEF AddItem, item, f
<1>9. [d.fields EXCEPT ![msg].items = Put(f.items, id, item)] = fields
  BY <1>1, <1>2 DEF f
<1>10. AddItem(d, msg, id, type, required, default)
         = [version |-> d.version, names |-> d.names, fields |-> fields]
  BY <1>1, <1>8, <1>9
<1> QED  BY <1>1, <1>7, <1>10 DEF Dicos, item, f, WithItem

-----------------------------------------------------------------------------
(* What a document or a message means, element by element.                 *)

LEMMA StoreNames ==
  /\ Received!Ids = Ids /\ Received!BOOL = BOOL /\ Received!MESSAGE = MESSAGE
  /\ Received!EMPTY = EMPTY /\ Received!NewField = NewField /\ Received!NoItems = NoItems
  /\ \A t : Received!Basic(t) = Basic(t)
  BY DEF Received!Ids, Received!BOOL, Received!MESSAGE, Received!EMPTY, Received!NewField,
         Received!NoItems, Received!Basic, Received!Repeated, Received!SEQ_DELTA,
         Ids, BOOL, MESSAGE, EMPTY, NewField, NoItems, Basic, Repeated, SEQ_DELTA

DeclaredOK(S) == S.defs \subseteq Defs /\ S.items \subseteq ItemDefs /\ S.version \in Int

(* In a valid document the id, and the name if there is one, are of one    *)
(* definition.                                                             *)
LEMMA DefIs ==
  ASSUME NEW S, Received!Valid(S), NEW e \in S.defs
  PROVE  /\ Received!DefOf(S.defs, e.id) = e
         /\ e.name # NoName => (CHOOSE f \in S.defs : f.name = e.name) = e
<1>1. \A f \in S.defs : f.id = e.id => f = e  BY DEF Received!Valid
<1>2. e.name # NoName => \A f \in S.defs : f.name = e.name => f = e  BY DEF Received!Valid
<1> QED  BY <1>1, <1>2 DEF Received!DefOf

ItemsAs(S, msg, items) ==
  /\ DOMAIN items = {x.id : x \in {y \in S.items : y.msg = msg}}
  /\ items = [i \in DOMAIN items |-> items[i]]
  /\ \A x \in S.items : x.msg = msg =>
       items[x.id] = [type |-> x.type, required |-> x.required, default |-> x.default]

LEMMA ItemsOfIs ==
  ASSUME NEW S, Received!Valid(S), NEW msg
  PROVE  ItemsAs(S, msg, Received!ItemsOf(S, msg))
<1> DEFINE given == {x \in S.items : x.msg = msg}
<1>1. ASSUME NEW x \in given PROVE (CHOOSE y \in given : y.id = x.id) = x
  <2>1. \A y \in given : y.id = x.id => y = x  BY DEF Received!Valid
  <2> QED  BY <2>1
<1> QED  BY <1>1 DEF Received!ItemsOf, ItemsAs

(* What the dictionary says of each name and of each id.                   *)
MeansAs(S, d) ==
  /\ d = [version |-> S.version, names |-> d.names, fields |-> d.fields]
  /\ DOMAIN d.names = {NoName} \cup {e.name : e \in S.defs}
  /\ d.names = [n \in DOMAIN d.names |-> d.names[n]]
  /\ DOMAIN d.fields = Ids /\ d.fields = [i \in Ids |-> d.fields[i]]
  /\ d.names[NoName] = 0
  /\ \A e \in S.defs :
       /\ e.name # NoName => d.names[e.name] = e.id
       /\ d.fields[e.id] = [name |-> e.name, type |-> e.type,
                            items |-> Received!ItemsOf(S, e.id)]
  /\ \A i \in Ids : (\A e \in S.defs : e.id # i) => d.fields[i] = NewField

LEMMA MeaningIs ==
  ASSUME NEW S, Received!Valid(S), DeclaredOK(S), NEW d, d = Received!Meaning(S)
  PROVE  MeansAs(S, d)
<1> DEFINE names == [n \in {NoName} \cup {e.name : e \in S.defs} |->
                       IF n = NoName THEN 0 ELSE (CHOOSE e \in S.defs : e.name = n).id]
           fields == [i \in Ids |->
                        IF \E e \in S.defs : e.id = i
                        THEN [name  |-> Received!DefOf(S.defs, i).name,
                              type  |-> Received!DefOf(S.defs, i).type,
                              items |-> Received!ItemsOf(S, i)]
                        ELSE NewField]
<1>1. d = [version |-> S.version, names |-> names, fields |-> fields]
  BY StoreNames DEF Received!Meaning
<1>2. d.names = names /\ d.fields = fields  BY <1>1
<1>3. ASSUME NEW e \in S.defs
      PROVE  /\ e.name # NoName => names[e.name] = e.id
             /\ fields[e.id] = [name |-> e.name, type |-> e.type,
                                items |-> Received!ItemsOf(S, e.id)]
  <2>1. Received!DefOf(S.defs, e.id) = e
        /\ (e.name # NoName => (CHOOSE f \in S.defs : f.name = e.name) = e)
    BY DefIs
  <2>2. e.id \in Ids  BY DEF DeclaredOK, Defs
  <2> QED  BY <2>1, <2>2
<1>4. names[NoName] = 0  OBVIOUS
<1>5. \A i \in Ids : (\A e \in S.defs : e.id # i) => fields[i] = NewField  OBVIOUS
<1>6. DOMAIN names = {NoName} \cup {e.name : e \in S.defs} /\ DOMAIN fields = Ids
      /\ names = [n \in DOMAIN names |-> names[n]] /\ fields = [i \in Ids |-> fields[i]]
  OBVIOUS
<1> HIDE DEF names, fields
<1> QED  BY <1>1, <1>2, <1>3, <1>4, <1>5, <1>6 DEF MeansAs

(* Each name of such a dictionary is the empty one or of a definition.     *)
LEMMA NamesOfDefs ==
  ASSUME NEW S, NEW d, MeansAs(S, d), NEW n \in DOMAIN d.names, n # NoName
  PROVE  \E e \in S.defs : e.name = n /\ d.names[n] = e.id
<1>1. PICK e \in S.defs : e.name = n  BY DEF MeansAs
<1>2. d.names[e.name] = e.id  BY <1>1 DEF MeansAs
<1> QED  BY <1>1, <1>2

LEMMA MeaningOfNothing ==
  ASSUME NEW S, S.defs = {}, S.items = {}
  PROVE  /\ Received!Valid(S)
         /\ Received!Meaning(S) = [NewDico EXCEPT !.version = S.version]
<1>1. Received!Valid(S)  BY DEF Received!Valid
<1>2. [n \in {NoName} \cup {e.name : e \in S.defs} |->
         IF n = NoName THEN 0 ELSE (CHOOSE e \in S.defs : e.name = n).id]
        = [n \in {NoName} |-> 0]
  OBVIOUS
<1>3. Received!Meaning(S) = [version |-> S.version, names |-> [n \in {NoName} |-> 0],
                             fields |-> [i \in Ids |-> NewField]]
  BY <1>2, StoreNames DEF Received!Meaning
<1> QED  BY <1>1, <1>3 DEF NewDico

(* A definition that is added where name and id are free.                  *)
LEMMA AddDefMeans ==
  ASSUME NEW S, Received!Valid(S), DeclaredOK(S), NEW d \in Dicos, d = Received!Meaning(S),
         NEW e \in Defs, e.id # 0, e.type \in BOOL .. MESSAGE,
         IdOf(d, e.name) = 0, d.fields[e.id].type = EMPTY,
         NEW T, T.version = S.version, T.defs = S.defs \cup {e}, T.items = S.items
  PROVE  /\ Received!Valid(T) /\ DeclaredOK(T)
         /\ AddField(d, e.id, e.name, e.type) = Received!Meaning(T)
<1>0. MeansAs(S, d)  BY MeaningIs
<1>1. \A f \in S.defs : f.id # e.id /\ f.type # EMPTY /\ f.id \in Ids \ {0}
  <2> SUFFICES ASSUME NEW f \in S.defs PROVE f.id # e.id /\ f.type # EMPTY /\ f.id \in Ids \ {0}
    OBVIOUS
  <2>1. f.type \in BOOL .. MESSAGE /\ f.id \in Ids \ {0}  BY StoreNames DEF Received!Valid
  <2>2. d.fields[f.id] = [name |-> f.name, type |-> f.type, items |-> Received!ItemsOf(S, f.id)]
    BY <1>0 DEF MeansAs
  <2> QED  BY <2>1, <2>2 DEF BOOL, MESSAGE, EMPTY
<1>2. e.name # NoName => \A f \in S.defs : f.name # e.name
  <2> SUFFICES ASSUME e.name # NoName, NEW f \in S.defs, f.name = e.name PROVE FALSE  OBVIOUS
  <2>1. e.name \in DOMAIN d.names /\ d.names[e.name] = f.id  BY <1>0 DEF MeansAs
  <2> QED  BY <1>1, <2>1 DEF IdOf
<1>3. e.id \in Ids \ {0} /\ e.name \in Names /\ e.type \in Types  BY DEF Defs
<1>4. DeclaredOK(T)  BY DEF DeclaredOK
<1>5. Received!Valid(T)
  <2>1. \A f \in T.defs : f.id \in Ids \ {0} /\ f.type \in BOOL .. MESSAGE
    BY <1>3, StoreNames DEF Received!Valid
  <2>2. \A f, g \in T.defs : f.id = g.id \/ (f.name = g.name /\ f.name # NoName) => f = g
    BY <1>1, <1>2 DEF Received!Valid
  <2>3. \A x \in T.items : \E f \in T.defs : f.id = x.msg /\ f.type = MESSAGE
    BY StoreNames DEF Received!Valid
  <2>4. \A x, y \in T.items : x.msg = y.msg /\ x.id = y.id => x = y
    BY DEF Received!Valid
  <2> QED  BY <2>1, <2>2, <2>3, <2>4, StoreNames DEF Received!Valid
<1>6. \A i : Received!ItemsOf(T, i) = Received!ItemsOf(S, i)  BY DEF Received!ItemsOf
<1>7. Received!ItemsOf(S, e.id) = NoItems /\ d.fields[e.id].items = NoItems
  <2>1. {x \in S.items : x.msg = e.id} = {}  BY <1>1 DEF Received!Valid
  <2>2. DOMAIN Received!ItemsOf(S, e.id) = {}
    <3>1. ItemsAs(S, e.id, Received!ItemsOf(S, e.id))  BY ItemsOfIs
    <3> QED  BY <2>1, <3>1 DEF ItemsAs
  <2>3. Received!ItemsOf(S, e.id) = [i \in {} |-> Zero]
    BY <2>1, <2>2 DEF Received!ItemsOf
  <2>4. d.fields[e.id] = NewField  BY <1>0, <1>1, <1>3 DEF MeansAs
  <2> QED  BY <2>3, <2>4 DEF NoItems, NewField
<1> DEFINE names == IF e.name \in DOMAIN d.names THEN d.names ELSE Put(d.names, e.name, e.id)
           fields == [d.fields EXCEPT ![e.id] =
                        [name |-> e.name, type |-> e.type, items |-> d.fields[e.id].items]]
<1>8. PICK t : t = Received!Meaning(T)  OBVIOUS
<1>9. MeansAs(T, t)  BY <1>4, <1>5, <1>8, MeaningIs
<1>10. \A f \in S.defs :
         /\ f.name # NoName => t.names[f.name] = d.names[f.name]
         /\ t.fields[f.id] = d.fields[f.id]
  <2> TAKE f \in S.defs
  <2>1. /\ f.name # NoName => d.names[f.name] = f.id
        /\ d.fields[f.id] = [name |-> f.name, type |-> f.type, items |-> Received!ItemsOf(S, f.id)]
    BY <1>0 DEF MeansAs
  <2>2. f \in T.defs  OBVIOUS
  <2>3. /\ f.name # NoName => t.names[f.name] = f.id
        /\ t.fields[f.id] = [name |-> f.name, type |-> f.type, items |-> Received!ItemsOf(T, f.id)]
    BY <1>9, <2>2 DEF MeansAs
  <2>4. Received!ItemsOf(T, f.id) = Received!ItemsOf(S, f.id)  BY <1>6
  <2> QED  BY <2>1, <2>3, <2>4
<1>20. \A n \in DOMAIN d.names : t.names[n] = d.names[n]
  <2> TAKE n \in DOMAIN d.names
  <2>1. CASE n = NoName  BY <2>1, <1>0, <1>9 DEF MeansAs
  <2>2. CASE n # NoName
    <3>1. PICK f \in S.defs : f.name = n  BY <1>0, <2>2, NamesOfDefs
    <3> QED  BY <1>10, <2>2, <3>1
  <2> QED  BY <2>1, <2>2
<1>11. names = t.names
  <2>1. DOMAIN t.names = DOMAIN d.names \cup {e.name}  BY <1>0, <1>9 DEF MeansAs
  <2>2. t.names = [n \in DOMAIN t.names |-> t.names[n]]  BY <1>9 DEF MeansAs
  <2>3. CASE e.name = NoName
    <3>1. e.name \in DOMAIN d.names /\ DOMAIN t.names = DOMAIN d.names
      BY <1>0, <2>1, <2>3 DEF MeansAs
    <3>2. d.names = [n \in DOMAIN d.names |-> d.names[n]]  BY <1>0 DEF MeansAs
    <3>3. t.names = d.names  BY <1>20, <2>2, <3>1, <3>2
    <3> QED  BY <3>1, <3>3
  <2>4. CASE e.name # NoName
    <3>1. e.name \notin DOMAIN d.names
      <4>1. DOMAIN d.names = {NoName} \cup {f.name : f \in S.defs}  BY <1>0 DEF MeansAs
      <4> QED  BY <1>2, <2>4, <4>1
    <3>2. names = [n \in DOMAIN d.names \cup {e.name} |-> IF n = e.name THEN e.id ELSE d.names[n]]
      BY <3>1 DEF Put
    <3>3. t.names[e.name] = e.id  BY <1>9, <2>4 DEF MeansAs
    <3>5. t.names = [n \in DOMAIN d.names \cup {e.name} |-> t.names[n]]  BY <2>1, <2>2
    <3>6. \A n \in DOMAIN d.names \cup {e.name} :
             t.names[n] = IF n = e.name THEN e.id ELSE d.names[n]
      BY <1>20, <3>1, <3>3
    <3> HIDE DEF names
    <3> QED  BY <3>2, <3>5, <3>6
  <2> QED  BY <2>3, <2>4
<1>12. fields = t.fields
  <2>0. d.fields = [i \in Ids |-> d.fields[i]] /\ t.fields = [i \in Ids |-> t.fields[i]]
    BY <1>0, <1>9 DEF MeansAs
  <2>1. fields = [i \in Ids |-> IF i = e.id THEN [name |-> e.name, type |-> e.type, items |-> NoItems]
                                ELSE d.fields[i]]
    BY <1>7, <2>0
  <2>2. t.fields[e.id] = [name |-> e.name, type |-> e.type, items |-> NoItems]
    BY <1>6, <1>7, <1>9 DEF MeansAs
  <2>3. ASSUME NEW i \in Ids, i # e.id PROVE t.fields[i] = d.fields[i]
    <3>1. CASE \E f \in S.defs : f.id = i  BY <1>10, <3>1
    <3>2. CASE \A f \in S.defs : f.id # i
      <4>1. d.fields[i] = NewField  BY <1>0, <3>2 DEF MeansAs
      <4>2. \A f \in T.defs : f.id # i  BY <2>3, <3>2
      <4>3. t.fields[i] = NewField  BY <1>9, <4>2 DEF MeansAs
      <4> QED  BY <4>1, <4>3
    <3> QED  BY <3>1, <3>2
  <2>4. \A i \in Ids : t.fields[i] = IF i = e.id THEN [name |-> e.name, type |-> e.type, items |-> NoItems]
                                     ELSE d.fields[i]
    BY <2>2, <2>3
  <2> HIDE DEF fields
  <2> QED  BY <2>0, <2>1, <2>4
<1>13. AddField(d, e.id, e.name, e.type) = [version |-> d.version, names |-> names, fields |-> fields]
  BY <1>3, AddFieldIs
<1>14. d.version = T.version /\ t = [version |-> T.version, names |-> t.names, fields |-> t.fields]
  BY <1>0, <1>9 DEF MeansAs
<1> HIDE DEF names, fields
<1> QED  BY <1>4, <1>5, <1>8, <1>11, <1>12, <1>13, <1>14

(* An item that is added to a message which has none of this id.           *)
LEMMA AddItemMeans ==
  ASSUME NEW S, Received!Valid(S), DeclaredOK(S), NEW d \in Dicos, d = Received!Meaning(S),
         NEW x \in ItemDefs, \E e \in S.defs : e.id = x.msg /\ e.type = MESSAGE,
         ~ItemTaken(d, x.msg, x.id),
         NEW default, Primitive(x.type) => default \in Defaults,
         x.default = IF Primitive(x.type) THEN default ELSE Zero,
         NEW T, T.version = S.version, T.defs = S.defs, T.items = S.items \cup {x}
  PROVE  /\ Received!Valid(T) /\ DeclaredOK(T)
         /\ AddItem(d, x.msg, x.id, x.type, x.required, default) = Received!Meaning(T)
<1>1. PICK e \in S.defs : e.id = x.msg /\ e.type = MESSAGE  OBVIOUS
<1>2. /\ x.msg \in Ids /\ x.id \in Ids /\ x.type \in Types /\ x.required \in BOOLEAN
  BY DEF ItemDefs
<1>3. MeansAs(S, d)  BY MeaningIs
<1> DEFINE given == {y \in S.items : y.msg = x.msg}
           item == [type |-> x.type, required |-> x.required, default |-> x.default]
           old == Received!ItemsOf(S, x.msg)
<1>4. d.fields[x.msg] = [name |-> e.name, type |-> e.type, items |-> old]
  BY <1>1, <1>3 DEF MeansAs
<1>20. ItemsAs(S, x.msg, old)  BY ItemsOfIs
<1>5. DOMAIN old = {y.id : y \in given}  BY <1>20 DEF ItemsAs
<1>6. \A y \in given : y.id # x.id  BY <1>4, <1>5 DEF ItemTaken
<1>7. DeclaredOK(T)  BY DEF DeclaredOK
<1>8. Received!Valid(T)
  <2>1. \A f \in T.defs : f.id \in Ids \ {0} /\ f.type \in BOOL .. MESSAGE
    BY StoreNames DEF Received!Valid
  <2>2. \A f, g \in T.defs : f.id = g.id \/ (f.name = g.name /\ f.name # NoName) => f = g
    BY DEF Received!Valid
  <2>3. \A y \in T.items : \E f \in T.defs : f.id = y.msg /\ f.type = MESSAGE
    BY <1>1, StoreNames DEF Received!Valid
  <2>4. \A y, z \in T.items : y.msg = z.msg /\ y.id = z.id => y = z
    BY <1>6 DEF Received!Valid
  <2> QED  BY <2>1, <2>2, <2>3, <2>4, StoreNames DEF Received!Valid
<1>9. Received!ItemsOf(T, x.msg) = Put(old, x.id, item)
  <2> DEFINE new == Received!ItemsOf(T, x.msg)
  <2>1. ItemsAs(T, x.msg, new)  BY <1>8, ItemsOfIs
  <2> HIDE DEF new, old
  <2>3. DOMAIN new = DOMAIN old \cup {x.id}
    <3>1. {z \in T.items : z.msg = x.msg} = given \cup {x}  OBVIOUS
    <3> QED  BY <1>5, <2>1, <3>1 DEF ItemsAs
  <2>4. new[x.id] = item  BY <2>1 DEF ItemsAs
  <2>5. ASSUME NEW i \in DOMAIN old, i # x.id PROVE new[i] = old[i]
    <3>1. PICK y \in S.items : y.msg = x.msg /\ y.id = i  BY <1>5, <2>5
    <3>2. y \in T.items  BY <3>1
    <3> QED  BY <1>20, <2>1, <3>1, <3>2 DEF ItemsAs
  <2>6. new = [i \in DOMAIN new |-> new[i]]  BY <2>1 DEF ItemsAs
  <2> HIDE DEF item
  <2>7. Put(old, x.id, item) = [i \in DOMAIN new |-> IF i = x.id THEN item ELSE old[i]]
    BY <2>3 DEF Put
  <2>8. \A i \in DOMAIN new : new[i] = IF i = x.id THEN item ELSE old[i]
    BY <2>3, <2>4, <2>5
  <2>9. new = [i \in DOMAIN new |-> IF i = x.id THEN item ELSE old[i]]  BY <2>6, <2>8
  <2> QED  BY <2>7, <2>9 DEF new, old, item
<1>10. ASSUME NEW i, i # x.msg PROVE Received!ItemsOf(T, i) = Received!ItemsOf(S, i)
  <2>1. {y \in T.items : y.msg = i} = {y \in S.items : y.msg = i}  BY <1>10
  <2> QED  BY <2>1 DEF Received!ItemsOf
<1>11. PICK t : t = Received!Meaning(T)  OBVIOUS
<1>12. MeansAs(T, t)  BY <1>7, <1>8, <1>11, MeaningIs
<1>13. t.names = d.names
  <2>1. DOMAIN t.names = DOMAIN d.names  BY <1>3, <1>12 DEF MeansAs
  <2>2. ASSUME NEW n \in DOMAIN d.names PROVE t.names[n] = d.names[n]
    <3>1. CASE n = NoName  BY <1>3, <1>12, <3>1 DEF MeansAs
    <3>2. CASE n # NoName
      <4>1. PICK f \in S.defs : f.name = n  BY <1>3, <3>2, NamesOfDefs
      <4>2. t.names[f.name] = f.id /\ d.names[f.name] = f.id  BY <1>3, <1>12, <3>2, <4>1 DEF MeansAs
      <4> QED  BY <4>1, <4>2
    <3> QED  BY <3>1, <3>2
  <2>3. t.names = [n \in DOMAIN t.names |-> t.names[n]] /\ d.names = [n \in DOMAIN d.names |-> d.names[n]]
    BY <1>3, <1>12 DEF MeansAs
  <2> QED  BY <2>1, <2>2, <2>3
<1> DEFINE f == d.fields[x.msg]
           fields == [d.fields EXCEPT ![x.msg] =
                        [name |-> f.name, type |-> f.type, items |-> Put(f.items, x.id, item)]]
<1>14. fields = t.fields
  <2> HIDE DEF old, item
  <2>0. d.fields = [i \in Ids |-> d.fields[i]] /\ t.fields = [i \in Ids |-> t.fields[i]]
    BY <1>3, <1>12 DEF MeansAs
  <2>1. fields = [i \in Ids |-> IF i = x.msg
                                THEN [name |-> e.name, type |-> e.type, items |-> Put(old, x.id, item)]
                                ELSE d.fields[i]]
    BY <1>4, <2>0
  <2>2. t.fields[x.msg] = [name |-> e.name, type |-> e.type, items |-> Put(old, x.id, item)]
    BY <1>1, <1>9, <1>12 DEF MeansAs
  <2>3. ASSUME NEW i \in Ids, i # x.msg PROVE t.fields[i] = d.fields[i]
    <3>0. Received!ItemsOf(T, i) = Received!ItemsOf(S, i)  BY <1>10, <2>3
    <3>1. CASE \E g \in S.defs : g.id = i
      <4>1. PICK g \in S.defs : g.id = i  BY <3>1
      <4>2. d.fields[i] = [name |-> g.name, type |-> g.type, items |-> Received!ItemsOf(S, i)]
        BY <1>3, <4>1 DEF MeansAs
      <4>3. t.fields[i] = [name |-> g.name, type |-> g.type, items |-> Received!ItemsOf(T, i)]
        BY <1>12, <4>1 DEF MeansAs
      <4> QED  BY <3>0, <4>2, <4>3
    <3>2. CASE \A g \in S.defs : g.id # i  BY <1>3, <1>12, <3>2 DEF MeansAs
    <3> QED  BY <3>1, <3>2
  <2>4. \A i \in Ids : t.fields[i] = IF i = x.msg
                                     THEN [name |-> e.name, type |-> e.type, items |-> Put(old, x.id, item)]
                                     ELSE d.fields[i]
    BY <2>2, <2>3
  <2> HIDE DEF fields
  <2> QED  BY <2>0, <2>1, <2>4
<1>15. AddItem(d, x.msg, x.id, x.type, x.required, default)
         = [version |-> d.version, names |-> d.names, fields |-> fields]
  <2>1. AddItem(d, x.msg, x.id, x.type, x.required, default)
          = WithItem(d, x.msg, x.id, [type |-> x.type, required |-> x.required,
                                      default |-> IF Primitive(x.type) THEN default ELSE Zero])
    BY <1>2, AddItemIs
  <2>2. item = [type |-> x.type, required |-> x.required,
                default |-> IF Primitive(x.type) THEN default ELSE Zero]
    OBVIOUS
  <2> HIDE DEF item
  <2> QED  BY <2>1, <2>2 DEF WithItem
<1>16. /\ d.version = T.version
       /\ t = [version |-> T.version, names |-> t.names, fields |-> t.fields]
  BY <1>3, <1>12 DEF MeansAs
<1> HIDE DEF fields
<1> QED  BY <1>7, <1>8, <1>11, <1>13, <1>14, <1>15, <1>16

-----------------------------------------------------------------------------
(* The readers, element by element: r is what was read of a document, h    *)
(* what was read of a message, d the dictionary that is being filled.      *)

ResolvedIn(D, x) ==
  LET e == CHOOSE y \in D : y.name = x.elt.name
      t == IF x.elt.repeated THEN SetSequence(e.type) ELSE e.type
  IN  [msg |-> x.msg, id |-> e.id, type |-> t, required |-> x.elt.required,
       default |-> IF Primitive(t) THEN x.elt.default ELSE Zero]

XmlDoc(r, c) == [version |-> r.version, defs |-> r.defs,
                 items |-> {ResolvedIn(r.defs, x) : x \in r.items}, complete |-> c]

MsgDoc(h, c) == [version |-> h.version, defs |-> h.defs, items |-> h.items, complete |-> c]

Kept(S, d) == DeclaredOK(S) /\ Received!Valid(S) /\ d = Received!Meaning(S)

XmlOK(r, d) ==
  /\ r \in Declarations
  /\ \A x \in r.items : /\ x \in [msg : Ids, elt : ItemElts]
                        /\ \E e \in r.defs : e.name = x.elt.name /\ e.name # NoName
  /\ \A c \in BOOLEAN : Kept(XmlDoc(r, c), d)

Typed(h) == \A e \in h.defs : e.type # EMPTY

MsgOK(h, d) ==
  /\ h \in Declarations /\ h.items \subseteq ItemDefs
  /\ Typed(h) => \A c \in BOOLEAN : Kept(MsgDoc(h, c), d)

LEMMA ResolvedIs ==
  ASSUME NEW D, NEW x, NEW f \in D, f.name = x.elt.name, \A g \in D : g.name = f.name => g = f,
         NEW t, t = IF x.elt.repeated THEN SetSequence(f.type) ELSE f.type
  PROVE  ResolvedIn(D, x)
           = [msg |-> x.msg, id |-> f.id, type |-> t, required |-> x.elt.required,
              default |-> IF Primitive(t) THEN x.elt.default ELSE Zero]
<1>1. (CHOOSE y \in D : y.name = x.elt.name) = f  OBVIOUS
<1> QED  BY <1>1 DEF ResolvedIn

LEMMA NothingKept == XmlOK(Nothing, NewDico)
<1>1. Nothing \in Declarations  BY DEF Nothing, Declarations
<1>2. ASSUME NEW c \in BOOLEAN PROVE Kept(XmlDoc(Nothing, c), NewDico)
  <2> DEFINE S == XmlDoc(Nothing, c)
  <2>1. S.defs = {} /\ S.items = {} /\ S.version = 0  BY DEF XmlDoc, Nothing
  <2> HIDE DEF S
  <2>2. [NewDico EXCEPT !.version = 0] = NewDico  BY DEF NewDico
  <2>3. Received!Valid(S) /\ Received!Meaning(S) = NewDico
    BY <2>1, <2>2, MeaningOfNothing
  <2>4. DeclaredOK(S)  BY <2>1 DEF DeclaredOK
  <2> QED  BY <2>3, <2>4 DEF Kept, S
<1> QED  BY <1>1, <1>2 DEF XmlOK, Nothing

LEMMA VersionKept ==
  ASSUME NEW S, NEW d, Kept(S, d), NEW v \in Int,
         NEW T, T.version = v, T.defs = S.defs, T.items = S.items
  PROVE  Kept(T, [d EXCEPT !.version = v])
<1>1. DeclaredOK(T)  BY DEF Kept, DeclaredOK
<1>2. Received!Valid(T)  BY DEF Kept, Received!Valid
<1>3. \A i : Received!ItemsOf(T, i) = Received!ItemsOf(S, i)  BY DEF Received!ItemsOf
<1>4. Received!Meaning(T) = [Received!Meaning(S) EXCEPT !.version = v]
  <2> DEFINE names == [n \in {NoName} \cup {e.name : e \in S.defs} |->
                         IF n = NoName THEN 0 ELSE (CHOOSE e \in S.defs : e.name = n).id]
             fields == [i \in Ids |->
                          IF \E e \in S.defs : e.id = i
                          THEN [name  |-> Received!DefOf(S.defs, i).name,
                                type  |-> Received!DefOf(S.defs, i).type,
                                items |-> Received!ItemsOf(S, i)]
                          ELSE NewField]
  <2>1. Received!Meaning(S) = [version |-> S.version, names |-> names, fields |-> fields]
    BY StoreNames DEF Received!Meaning
  <2>2. Received!Meaning(T) = [version |-> v, names |-> names, fields |-> fields]
    BY <1>3, StoreNames DEF Received!Meaning
  <2> HIDE DEF names, fields
  <2> QED  BY <2>1, <2>2
<1> QED  BY <1>1, <1>2, <1>4 DEF Kept

LEMMA XmlHeader ==
  ASSUME NEW r, NEW d, XmlOK(r, d), NEW v \in Int
  PROVE  XmlOK([r EXCEPT !.version = v], [d EXCEPT !.version = v])
<1> DEFINE q == [r EXCEPT !.version = v]
<1>1. r = [version |-> r.version, defs |-> r.defs, items |-> r.items]  BY DEF XmlOK, Declarations
<1>2. q = [version |-> v, defs |-> r.defs, items |-> r.items]  BY <1>1
<1>3. q \in Declarations  BY <1>2 DEF XmlOK, Declarations
<1> HIDE DEF q
<1>4. ASSUME NEW c \in BOOLEAN PROVE Kept(XmlDoc(q, c), [d EXCEPT !.version = v])
  <2>1. Kept(XmlDoc(r, c), d)  BY DEF XmlOK
  <2>2. /\ XmlDoc(q, c).version = v /\ XmlDoc(q, c).defs = XmlDoc(r, c).defs
        /\ XmlDoc(q, c).items = XmlDoc(r, c).items
    BY <1>2 DEF XmlDoc
  <2> QED  BY <2>1, <2>2, VersionKept
<1>5. q.items = r.items /\ q.defs = r.defs  BY <1>2
<1>6. XmlOK(q, [d EXCEPT !.version = v])  BY <1>3, <1>4, <1>5 DEF XmlOK
<1> QED  BY <1>6 DEF q

(* A definition does not change what the items read before it resolve to.  *)
LEMMA XmlDef ==
  ASSUME NEW r, NEW d \in Dicos, XmlOK(r, d), NEW e \in Defs, e.id # 0, e.type \in BOOL .. MESSAGE,
         IdOf(d, e.name) = 0, d.fields[e.id].type = EMPTY
  PROVE  /\ XmlOK([r EXCEPT !.defs = @ \cup {e}], AddField(d, e.id, e.name, e.type))
         /\ \A x \in r.items : ResolvedIn(r.defs \cup {e}, x) = ResolvedIn(r.defs, x)
<1> DEFINE q == [r EXCEPT !.defs = @ \cup {e}]
<1>1. r = [version |-> r.version, defs |-> r.defs, items |-> r.items]
      /\ r.version \in Int /\ r.defs \in SUBSET Defs
      /\ r.items \in SUBSET ([msg : Ids, elt : ItemElts] \cup ItemDefs)
  BY DEF XmlOK, Declarations
<1>2. q = [version |-> r.version, defs |-> r.defs \cup {e}, items |-> r.items]
  BY ONLY <1>1
<1>3. q \in Declarations  BY <1>2 DEF XmlOK, Declarations
<1> HIDE DEF q
<1>4. Kept(XmlDoc(r, TRUE), d)  BY DEF XmlOK
<1>5. MeansAs(XmlDoc(r, TRUE), d)  BY <1>4, MeaningIs DEF Kept
<1>6. XmlDoc(r, TRUE).defs = r.defs  BY DEF XmlDoc
<1>7. \A f, g \in r.defs : f.name = g.name /\ f.name # NoName => f = g
  BY <1>4, <1>6 DEF Kept, Received!Valid
<1>8. e.name # NoName => \A f \in r.defs : f.name # e.name
  <2> SUFFICES ASSUME e.name # NoName, NEW f \in r.defs, f.name = e.name PROVE FALSE  OBVIOUS
  <2>1. e.name \in DOMAIN d.names /\ d.names[e.name] = f.id  BY <1>5, <1>6 DEF MeansAs
  <2>2. f.id # 0  BY <1>4, <1>6 DEF Kept, Received!Valid
  <2> QED  BY <2>1, <2>2 DEF IdOf
<1>9. ASSUME NEW x \in r.items PROVE ResolvedIn(r.defs \cup {e}, x) = ResolvedIn(r.defs, x)
  <2>1. PICK f \in r.defs : f.name = x.elt.name /\ f.name # NoName  BY DEF XmlOK
  <2>2. \A g \in r.defs : g.name = f.name => g = f  BY <2>1, <1>7
  <2>3. \A g \in r.defs \cup {e} : g.name = f.name => g = f  BY <2>1, <2>2, <1>8
  <2>4. PICK t : t = IF x.elt.repeated THEN SetSequence(f.type) ELSE f.type  OBVIOUS
  <2> DEFINE y == [msg |-> x.msg, id |-> f.id, type |-> t, required |-> x.elt.required,
                   default |-> IF Primitive(t) THEN x.elt.default ELSE Zero]
  <2>5. ResolvedIn(r.defs, x) = y  BY <2>1, <2>2, <2>4, ResolvedIs
  <2>6. f \in r.defs \cup {e}  OBVIOUS
  <2>7. ResolvedIn(r.defs \cup {e}, x) = y  BY <2>1, <2>3, <2>4, <2>6, ResolvedIs
  <2> QED  BY <2>5, <2>7
<1>10. ASSUME NEW c \in BOOLEAN
       PROVE Kept(XmlDoc(q, c), AddField(d, e.id, e.name, e.type))
  <2> DEFINE S == XmlDoc(r, c)
             T == XmlDoc(q, c)
  <2>1. DeclaredOK(S) /\ Received!Valid(S) /\ d = Received!Meaning(S)  BY DEF XmlOK, Kept
  <2>2. T.version = S.version /\ T.defs = S.defs \cup {e}  BY <1>2 DEF XmlDoc
  <2>3. T.items = S.items
    <3>1. {ResolvedIn(q.defs, x) : x \in q.items} = {ResolvedIn(r.defs, x) : x \in r.items}
      <4>1. q.defs = r.defs \cup {e} /\ q.items = r.items  BY <1>2
      <4> QED  BY <1>9, <4>1
    <3> QED  BY <3>1 DEF XmlDoc
  <2> HIDE DEF S, T
  <2>4. Received!Valid(T) /\ DeclaredOK(T)
        /\ AddField(d, e.id, e.name, e.type) = Received!Meaning(T)
    BY <2>1, <2>2, <2>3, AddDefMeans
  <2> QED  BY <2>4 DEF Kept, T
<1>11. \A x \in q.items : /\ x \in [msg : Ids, elt : ItemElts]
                          /\ \E f \in q.defs : f.name = x.elt.name /\ f.name # NoName
  BY <1>2 DEF XmlOK
<1>12. XmlOK(q, AddField(d, e.id, e.name, e.type))  BY <1>3, <1>10, <1>11 DEF XmlOK
<1> QED  BY <1>9, <1>12 DEF q

LEMMA XmlItem ==
  ASSUME NEW r, NEW d \in Dicos, XmlOK(r, d), NEW msg \in Ids,
         \E e \in r.defs : e.id = msg /\ e.type = MESSAGE,
         NEW elt \in ItemElts, elt.name \in Names, elt.required \in BOOLEAN, elt.repeated \in BOOLEAN,
         NEW id, id = IdOf(d, elt.name), id # 0, ~ItemTaken(d, msg, id),
         NEW t, t = IF elt.repeated THEN SetSequence(FieldOf(d, id).type) ELSE FieldOf(d, id).type,
         Primitive(t) => elt.default \in Defaults
  PROVE  /\ XmlOK([r EXCEPT !.items = @ \cup {[msg |-> msg, elt |-> elt]}],
                  AddItem(d, msg, id, t, elt.required, elt.default))
         /\ AddItem(d, msg, id, t, elt.required, elt.default) \in Dicos
<1> DEFINE x == [msg |-> msg, elt |-> elt]
           q == [r EXCEPT !.items = @ \cup {x}]
           y == [msg |-> msg, id |-> id, type |-> t, required |-> elt.required,
                 default |-> IF Primitive(t) THEN elt.default ELSE Zero]
<1>1. r = [version |-> r.version, defs |-> r.defs, items |-> r.items]
      /\ r.version \in Int /\ r.defs \in SUBSET Defs
      /\ r.items \in SUBSET ([msg : Ids, elt : ItemElts] \cup ItemDefs)
  BY DEF XmlOK, Declarations
<1>2. q = [version |-> r.version, defs |-> r.defs, items |-> r.items \cup {x}]  BY <1>1
<1>3. x \in [msg : Ids, elt : ItemElts]  OBVIOUS
<1>4. q \in Declarations  BY <1>1, <1>2, <1>3 DEF Declarations
<1> HIDE DEF q
<1>5. Kept(XmlDoc(r, TRUE), d)  BY DEF XmlOK
<1>6. MeansAs(XmlDoc(r, TRUE), d)  BY <1>5, MeaningIs DEF Kept
<1>7. XmlDoc(r, TRUE).defs = r.defs  BY DEF XmlDoc
<1>8. PICK f \in r.defs : f.name = elt.name /\ f.name # NoName /\ id = f.id
  <2>1. elt.name \in DOMAIN d.names /\ id = d.names[elt.name]  BY DEF IdOf
  <2>2. elt.name # NoName  BY <1>6, <2>1 DEF MeansAs
  <2>3. PICK f \in XmlDoc(r, TRUE).defs : f.name = elt.name /\ d.names[elt.name] = f.id
    <3>1. PICK S, n : S = XmlDoc(r, TRUE) /\ n = elt.name  OBVIOUS
    <3>2. MeansAs(S, d) /\ n \in DOMAIN d.names /\ n # NoName  BY <1>6, <2>1, <2>2, <3>1
    <3>3. \E f \in S.defs : f.name = n /\ d.names[n] = f.id  BY <3>2, NamesOfDefs
    <3> QED  BY <3>1, <3>3
  <2> QED  BY <1>7, <2>1, <2>2, <2>3
<1>9. \A g \in r.defs : g.name = f.name => g = f
  BY <1>5, <1>7, <1>8 DEF Kept, Received!Valid
<1>10. f.id \in Ids \ {0} /\ f.type \in BOOL .. MESSAGE
  BY <1>5, <1>7, StoreNames DEF Kept, Received!Valid
<1>11. FieldOf(d, id).type = f.type
  <2>1. d.fields[f.id] = [name |-> f.name, type |-> f.type,
                          items |-> Received!ItemsOf(XmlDoc(r, TRUE), f.id)]
    BY <1>6, <1>7 DEF MeansAs
  <2> QED  BY <1>8, <1>10, <2>1 DEF FieldOf
<1>12. t = IF elt.repeated THEN SetSequence(f.type) ELSE f.type  BY <1>11
<1>13. ResolvedIn(r.defs, x) = y
  <2>1. x.elt = elt /\ x.msg = msg  OBVIOUS
  <2> HIDE DEF x
  <2> QED  BY <1>8, <1>9, <1>12, <2>1, ResolvedIs
<1>14. t \in Types  BY <1>10, <1>12 DEF Types, SetSequence, BOOL, MESSAGE, EMPTY, SEQ_MESSAGE, SEQ_DELTA
<1>15. y \in ItemDefs  BY <1>8, <1>10, <1>14, ModelAssumption DEF ItemDefs
<1>16. ASSUME NEW c \in BOOLEAN
       PROVE  Kept(XmlDoc(q, c), AddItem(d, msg, id, t, elt.required, elt.default))
  <2> DEFINE S == XmlDoc(r, c)
             T == XmlDoc(q, c)
  <2>1. DeclaredOK(S) /\ Received!Valid(S) /\ d = Received!Meaning(S)  BY DEF XmlOK, Kept
  <2>2. T.version = S.version /\ T.defs = S.defs  BY <1>2 DEF XmlDoc
  <2>3. T.items = S.items \cup {y}
    <3>1. q.defs = r.defs /\ q.items = r.items \cup {x}  BY <1>2
    <3> HIDE DEF x, y
    <3>2. {ResolvedIn(q.defs, z) : z \in q.items} = {ResolvedIn(r.defs, z) : z \in r.items} \cup {y}
      BY <1>13, <3>1
    <3> QED  BY <3>2 DEF XmlDoc
  <2>4. S.defs = r.defs  BY DEF XmlDoc
  <2>5. /\ y.msg = msg /\ y.id = id /\ y.type = t /\ y.required = elt.required
        /\ y.default = IF Primitive(t) THEN elt.default ELSE Zero
    OBVIOUS
  <2> HIDE DEF S, T, y
  <2>6. /\ \E e \in S.defs : e.id = y.msg /\ e.type = MESSAGE
        /\ ~ItemTaken(d, y.msg, y.id)
        /\ Primitive(y.type) => elt.default \in Defaults
        /\ y.default = IF Primitive(y.type) THEN elt.default ELSE Zero
    BY <2>4, <2>5
  <2>7. Received!Valid(T) /\ DeclaredOK(T)
        /\ AddItem(d, y.msg, y.id, y.type, y.required, elt.default) = Received!Meaning(T)
    BY <1>15, <2>1, <2>2, <2>3, <2>6, AddItemMeans
  <2> QED  BY <2>5, <2>7 DEF Kept, T
<1>17. \A z \in q.items : /\ z \in [msg : Ids, elt : ItemElts]
                          /\ \E e \in q.defs : e.name = z.elt.name /\ e.name # NoName
  BY <1>2, <1>3, <1>8 DEF XmlOK
<1>18. XmlOK(q, AddItem(d, msg, id, t, elt.required, elt.default))
  BY <1>4, <1>16, <1>17 DEF XmlOK
<1>19. id \in Ids  BY <1>8, <1>10
<1>20. AddItem(d, msg, id, t, elt.required, elt.default) \in Dicos  BY <1>14, <1>19, AddItemIs
<1> QED  BY <1>18, <1>20 DEF q

LEMMA MsgDef ==
  ASSUME NEW h, NEW d \in Dicos, MsgOK(h, d), NEW e \in Defs, e.id # 0, e.type <= MESSAGE,
         IdOf(d, e.name) = 0, d.fields[e.id].type = EMPTY
  PROVE  MsgOK([h EXCEPT !.defs = @ \cup {e}], AddField(d, e.id, e.name, e.type))
<1> DEFINE q == [h EXCEPT !.defs = @ \cup {e}]
<1>1. h = [version |-> h.version, defs |-> h.defs, items |-> h.items]
      /\ h.version \in Int /\ h.defs \in SUBSET Defs /\ h.items \subseteq ItemDefs
  BY DEF MsgOK, Declarations
<1>2. q = [version |-> h.version, defs |-> h.defs \cup {e}, items |-> h.items]  BY <1>1
<1>3. q \in Declarations /\ q.items \subseteq ItemDefs  BY <1>1, <1>2 DEF Declarations
<1> HIDE DEF q
<1>4. ASSUME Typed(q), NEW c \in BOOLEAN
      PROVE  Kept(MsgDoc(q, c), AddField(d, e.id, e.name, e.type))
  <2> DEFINE S == MsgDoc(h, c)
             T == MsgDoc(q, c)
  <2>1. Typed(h) /\ e.type # EMPTY  BY <1>2, <1>4 DEF Typed
  <2>2. e.type \in BOOL .. MESSAGE  BY <2>1 DEF Defs, Types, EMPTY, BOOL, MESSAGE, SEQ_MESSAGE
  <2>3. DeclaredOK(S) /\ Received!Valid(S) /\ d = Received!Meaning(S)  BY <2>1 DEF MsgOK, Kept
  <2>4. T.version = S.version /\ T.defs = S.defs \cup {e} /\ T.items = S.items
    BY <1>2 DEF MsgDoc
  <2> HIDE DEF S, T
  <2>5. Received!Valid(T) /\ DeclaredOK(T)
        /\ AddField(d, e.id, e.name, e.type) = Received!Meaning(T)
    BY <2>2, <2>3, <2>4, AddDefMeans
  <2> QED  BY <2>5 DEF Kept, T
<1>5. MsgOK(q, AddField(d, e.id, e.name, e.type))  BY <1>3, <1>4 DEF MsgOK
<1> QED  BY <1>5 DEF q

LEMMA MsgItem ==
  ASSUME NEW h, NEW d \in Dicos, MsgOK(h, d), NEW x \in ItemDefs,
         \E e \in h.defs : e.id = x.msg /\ e.type = MESSAGE, ~ItemTaken(d, x.msg, x.id),
         x.default = IF Primitive(x.type) THEN x.default ELSE Zero
  PROVE  MsgOK([h EXCEPT !.items = @ \cup {x}],
               AddItem(d, x.msg, x.id, x.type, x.required, x.default))
<1> DEFINE q == [h EXCEPT !.items = @ \cup {x}]
<1>1. h = [version |-> h.version, defs |-> h.defs, items |-> h.items]
      /\ h.version \in Int /\ h.defs \in SUBSET Defs /\ h.items \subseteq ItemDefs
  BY DEF MsgOK, Declarations
<1>2. q = [version |-> h.version, defs |-> h.defs, items |-> h.items \cup {x}]  BY <1>1
<1>3. q \in Declarations /\ q.items \subseteq ItemDefs  BY <1>1, <1>2 DEF Declarations
<1> HIDE DEF q
<1>4. ASSUME Typed(q), NEW c \in BOOLEAN
      PROVE  Kept(MsgDoc(q, c), AddItem(d, x.msg, x.id, x.type, x.required, x.default))
  <2> DEFINE S == MsgDoc(h, c)
             T == MsgDoc(q, c)
  <2>1. Typed(h)  BY <1>2, <1>4 DEF Typed
  <2>2. DeclaredOK(S) /\ Received!Valid(S) /\ d = Received!Meaning(S)  BY <2>1 DEF MsgOK, Kept
  <2>3. T.version = S.version /\ T.defs = S.defs /\ T.items = S.items \cup {x} /\ S.defs = h.defs
    BY <1>2 DEF MsgDoc
  <2> HIDE DEF S, T
  <2>4. \E e \in S.defs : e.id = x.msg /\ e.type = MESSAGE  BY <2>3
  <2>5. x.default \in Defaults  BY DEF ItemDefs
  <2>6. Received!Valid(T) /\ DeclaredOK(T)
        /\ AddItem(d, x.msg, x.id, x.type, x.required, x.default) = Received!Meaning(T)
    BY <2>2, <2>3, <2>4, <2>5, AddItemMeans
  <2> QED  BY <2>6 DEF Kept, T
<1>5. MsgOK(q, AddItem(d, x.msg, x.id, x.type, x.required, x.default))  BY <1>3, <1>4 DEF MsgOK
<1> QED  BY <1>5 DEF q

-----------------------------------------------------------------------------
(* What a dictionary that means what was read has to be like.              *)

LEMMA KeptAgrees ==
  ASSUME NEW S, NEW d \in Dicos, Kept(S, d)
  PROVE  IndexesAgree(d)
<1>1. MeansAs(S, d)  BY MeaningIs DEF Kept
<1>2. ASSUME NEW e \in S.defs
      PROVE  e.id \in Ids \ {0} /\ e.type # EMPTY /\ d.fields[e.id].name = e.name
             /\ d.fields[e.id].type = e.type
  <2>1. e.id \in Ids \ {0} /\ e.type \in BOOL .. MESSAGE  BY StoreNames DEF Kept, Received!Valid
  <2>2. d.fields[e.id] = [name |-> e.name, type |-> e.type, items |-> Received!ItemsOf(S, e.id)]
    BY <1>1 DEF MeansAs
  <2> QED  BY <2>1, <2>2 DEF BOOL, MESSAGE, EMPTY
<1>3. ASSUME NEW n \in DOMAIN d.names, d.names[n] # 0
      PROVE  d.fields[d.names[n]].name = n /\ d.fields[d.names[n]].type # EMPTY
  <2>1. n # NoName  BY <1>1, <1>3 DEF MeansAs
  <2>2. PICK e \in S.defs : e.name = n /\ d.names[n] = e.id  BY <1>1, <2>1, NamesOfDefs
  <2> QED  BY <1>2, <2>2
<1>4. ASSUME NEW i \in Defined(d), d.fields[i].name # NoName
      PROVE  IdOf(d, d.fields[i].name) = i
  <2>1. i \in Ids /\ d.fields[i].type # EMPTY  BY DEF Defined
  <2>2. PICK e \in S.defs : e.id = i
    <3> SUFFICES ASSUME \A e \in S.defs : e.id # i PROVE FALSE  OBVIOUS
    <3>1. d.fields[i] = NewField  BY <1>1, <2>1 DEF MeansAs
    <3> QED  BY <2>1, <3>1 DEF NewField
  <2>3. e.name = d.fields[i].name  BY <1>2, <2>2
  <2>4. e.name \in DOMAIN d.names /\ d.names[e.name] = e.id
    BY <1>1, <1>4, <2>3 DEF MeansAs
  <2> QED  BY <2>2, <2>3, <2>4 DEF IdOf
<1> QED  BY <1>3, <1>4 DEF IndexesAgree

LEMMA XmlIsConsistent ==
  ASSUME NEW r, NEW d \in Dicos, XmlOK(r, d)
  PROVE  IsConsistent(d)
<1> DEFINE S == XmlDoc(r, TRUE)
<1>1. S.defs = r.defs /\ S.items = {ResolvedIn(r.defs, x) : x \in r.items}  BY DEF XmlDoc
<1>2. Kept(S, d)  BY DEF XmlOK
<1> HIDE DEF S
<1>3. MeansAs(S, d)  BY <1>2, MeaningIs DEF Kept
<1>4. ASSUME NEW e \in S.defs
      PROVE  /\ e.id \in Ids \ {0} /\ e.type \in BOOL .. MESSAGE
             /\ d.fields[e.id].name = e.name /\ d.fields[e.id].type = e.type
             /\ d.fields[e.id].items = Received!ItemsOf(S, e.id)
  <2>1. e.id \in Ids \ {0} /\ e.type \in BOOL .. MESSAGE
    BY <1>2, StoreNames DEF Kept, Received!Valid
  <2>2. d.fields[e.id] = [name |-> e.name, type |-> e.type, items |-> Received!ItemsOf(S, e.id)]
    BY <1>3 DEF MeansAs
  <2> QED  BY <2>1, <2>2
<1>5. ASSUME NEW y \in S.items
      PROVE  \E f \in S.defs : /\ f.id = y.id /\ f.name # NoName /\ f.type = Basic(y.type)
  <2>1. PICK x \in r.items : y = ResolvedIn(r.defs, x)  BY <1>1
  <2>2. PICK f \in r.defs : f.name = x.elt.name /\ f.name # NoName  BY DEF XmlOK
  <2>3. \A g \in r.defs : g.name = f.name => g = f
    BY <1>1, <1>2, <2>2 DEF Kept, Received!Valid
  <2>4. PICK t : t = IF x.elt.repeated THEN SetSequence(f.type) ELSE f.type  OBVIOUS
  <2>5. y = [msg |-> x.msg, id |-> f.id, type |-> t, required |-> x.elt.required,
             default |-> IF Primitive(t) THEN x.elt.default ELSE Zero]
    BY <2>1, <2>2, <2>3, <2>4, ResolvedIs
  <2>6. f.type \in BOOL .. MESSAGE  BY <1>1, <1>4
  <2>7. Basic(t) = f.type
    BY <2>4, <2>6 DEF Basic, Repeated, SetSequence, BOOL, MESSAGE, SEQ_DELTA
  <2> QED  BY <1>1, <2>2, <2>5, <2>7
<1>6. ASSUME NEW n \in DOMAIN d.names, NEW i, i = d.names[n], i # 0
      PROVE  LET def == d.fields[i] IN
               /\ def.type \in BOOL .. SEQ_MESSAGE /\ def.name # NoName
               /\ def.type # MESSAGE => DOMAIN def.items = {}
               /\ \A j \in DOMAIN def.items :
                    LET f == FieldOf(d, j) IN
                    f.type # EMPTY /\ f.type = Basic(def.items[j].type) /\ f.name # NoName
  <2>1. n # NoName  BY <1>3, <1>6 DEF MeansAs
  <2>2. PICK e \in S.defs : e.name = n /\ i = e.id  BY <1>3, <1>6, <2>1, NamesOfDefs
  <2> DEFINE items == Received!ItemsOf(S, i)
  <2>3. ItemsAs(S, i, items)  BY <1>2, ItemsOfIs DEF Kept
  <2>4. d.fields[i].name = n /\ d.fields[i].type = e.type /\ d.fields[i].items = items
        /\ e.type \in BOOL .. MESSAGE
    BY <1>4, <2>2
  <2> HIDE DEF items
  <2>5. ASSUME e.type # MESSAGE PROVE DOMAIN items = {}
    <3>1. \A x \in S.items : x.msg # i
      <4>1. \A x \in S.items : \E f \in S.defs : f.id = x.msg /\ f.type = MESSAGE
        BY <1>2, StoreNames DEF Kept, Received!Valid
      <4>2. \A f \in S.defs : f.id = i => f = e  BY <1>2, <2>2 DEF Kept, Received!Valid
      <4> QED  BY <2>5, <4>1, <4>2
    <3> QED  BY <2>3, <3>1 DEF ItemsAs
  <2>6. ASSUME NEW j \in DOMAIN items
        PROVE  /\ FieldOf(d, j).type # EMPTY /\ FieldOf(d, j).type = Basic(items[j].type)
               /\ FieldOf(d, j).name # NoName
    <3>1. PICK y \in S.items : y.msg = i /\ y.id = j  BY <2>3 DEF ItemsAs
    <3>2. items[j] = [type |-> y.type, required |-> y.required, default |-> y.default]
      BY <2>3, <3>1 DEF ItemsAs
    <3>3. PICK f \in S.defs : f.id = j /\ f.name # NoName /\ f.type = Basic(y.type)
      BY <1>5, <3>1
    <3>4. f.type # EMPTY /\ FieldOf(d, j) = d.fields[j] /\ d.fields[j].type = f.type
          /\ d.fields[j].name = f.name
      BY <1>4, <3>3 DEF FieldOf, BOOL, MESSAGE, EMPTY
    <3> QED  BY <3>2, <3>3, <3>4
  <2>7. e.type \in BOOL .. SEQ_MESSAGE  BY <2>4 DEF BOOL, MESSAGE, SEQ_MESSAGE
  <2> QED  BY <2>1, <2>4, <2>5, <2>6, <2>7
<1> QED  BY <1>6 DEF IsConsistent

-----------------------------------------------------------------------------
(* Messages.                                                               *)

LEMMA AsIntIs ==
  /\ \A n \in Int : AsInt(n) \in Int
  /\ \A n \in Nat : AsType(n) \in Nat
<1>1. IntSpan \in Nat \ {0} /\ TypeSpan \in Nat \ {0}
  BY TransferAssumption, ModelAssumption DEF SEQ_MESSAGE
<1>2. \A n, m \in Int : m > 0 => n % m \in Int /\ n \div m \in Int /\ n % m >= 0  OBVIOUS
<1>3. IntSpan \div 2 \in Int  BY <1>1
<1>4. ASSUME NEW n \in Int PROVE AsInt(n) \in Int
  <2>1. PICK h \in Int : h = IntSpan \div 2  BY <1>3
  <2>2. (n + h) % IntSpan \in Int  BY <1>1, <1>2
  <2> QED  BY <2>1, <2>2 DEF AsInt
<1>5. ASSUME NEW n \in Nat PROVE AsType(n) \in Nat  BY <1>1, <1>2 DEF AsType
<1> QED  BY <1>4, <1>5

LEMMA FieldMsgIs ==
  ASSUME NEW d \in Dicos, NEW i \in Ids
  PROVE  FieldMsg(d, i) \in FieldMsgs
<1> DEFINE f == FieldOf(d, i)
           ids == Ascending(DOMAIN f.items)
           items == [k \in DOMAIN ids |-> ItemMsg(ids[k], f.items[ids[k]])]
<1>1. f \in FieldDefs  BY DEF FieldOf, Dicos
<1>2. PICK J \in SUBSET Ids : f.items \in [J -> ItemSets]  BY <1>1 DEF FieldDefs
<1>3. DOMAIN f.items = J /\ J \in SUBSET (0 .. IdMax) /\ IdMax \in Nat
  BY <1>2, ModelAssumption DEF Ids
<1>4. PICK c \in Nat : ids \in [1 .. c -> J]
  BY <1>3, AscendingIs
<1>5. ASSUME NEW j \in J PROVE ItemMsg(j, f.items[j]) \in ItemMsgs
  <2>1. f.items[j] \in ItemSets /\ j \in Int  BY <1>2, IdsAre
  <2>2. Sent(f.items[j]) \in Defaults
    BY <2>1, TransferAssumption DEF Sent, ItemSets
  <2> QED  BY <2>1, <2>2, ModelAssumption DEF ItemMsg, ItemSets, ItemMsgs, Types, EMPTY, SEQ_MESSAGE
<1> HIDE DEF f, ids
<1>6. f.name \in Names /\ f.type \in Nat /\ i \in Int
  BY <1>1, IdsAre DEF FieldDefs, Types, EMPTY, SEQ_MESSAGE
<1>7. items \in Seq(ItemMsgs)
  <2>1. items \in [1 .. c -> ItemMsgs]  BY <1>4, <1>5
  <2> QED  BY <2>1
<1>8. FieldMsg(d, i) = [id |-> i, name |-> f.name, type |-> f.type, items |-> items]
  BY DEF FieldMsg, f, ids
<1> QED  BY <1>6, <1>7, <1>8 DEF FieldMsgs

LEMMA MsgOfIs ==
  ASSUME NEW d, d # NoDico => d \in Dicos
  PROVE  MsgOf(d) \in Msgs
<1>1. CASE d = NoDico
  BY <1>1, TransferAssumption DEF MsgOf, Msgs
<1>2. CASE d # NoDico
  <2> DEFINE places == {k \in DOMAIN NameOrder : IdOf(d, NameOrder[k]) # 0}
             l == Listed(d)
             fields == [k \in DOMAIN l |-> FieldMsg(d, d.names[l[k]])]
  <2>0. d \in Dicos  BY <1>2
  <2>1. NameOrder \in Seq(Names)  BY TransferAssumption
  <2>2. Len(NameOrder) \in Nat /\ places \in SUBSET (0 .. Len(NameOrder))  BY <2>1
  <2>3. PICK c \in Nat : c = Cardinality(places) /\ Ascending(places) \in [1 .. c -> places]
    BY <2>2, AscendingIs
  <2>4. DOMAIN l = 1 .. c /\ \A k \in 1 .. c : IdOf(d, l[k]) # 0
    BY <2>3 DEF Listed
  <2> HIDE DEF l
  <2>5. ASSUME NEW k \in 1 .. c PROVE FieldMsg(d, d.names[l[k]]) \in FieldMsgs
    <3>1. l[k] \in DOMAIN d.names  BY <2>4 DEF IdOf
    <3>2. d.names[l[k]] \in Ids  BY <2>0, <3>1 DEF Dicos
    <3> QED  BY <2>0, <3>2, FieldMsgIs
  <2>6. fields \in Seq(FieldMsgs)
    <3>1. fields \in [1 .. c -> FieldMsgs]  BY <2>4, <2>5
    <3> QED  BY <3>1
  <2> HIDE DEF fields
  <2>7. MsgOf(d) = [dod |-> TRUE, id |-> DicoId, version |-> d.version, fields |-> fields]
    BY <1>2 DEF MsgOf, fields, l
  <2>8. d.version \in Int /\ DicoId \in Int  BY <2>0, TransferAssumption DEF Dicos
  <2> QED  BY <2>6, <2>7, <2>8 DEF Msgs
<1> QED  BY <1>1, <1>2

-----------------------------------------------------------------------------
(* The invariant: which of the two readers is at work, that what is left   *)
(* of a message has the shape of one, and that the dictionary being filled *)
(* means what was read.                                                    *)

Control ==
  /\ phase \in Phases \cup {"received"} /\ cur \in Ids
  /\ phase = "idle" => read = NoDoc /\ heard = NoDoc /\ draft = NewDico
  /\ phase \in {"dicos", "fields", "messages"} => read # NoDoc
  /\ phase = "received" => heard # NoDoc
  /\ phase = "install" => read # NoDoc \/ heard # NoDoc
  /\ read = NoDoc \/ heard = NoDoc
  /\ phase \in {"idle", "dicos", "fields"} => cur = 0

Messages ==
  /\ outbox # NoMsg => outbox.msg \in Msgs
  /\ todo \in Seq(FieldMsgs) /\ left \in Seq(ItemMsgs)
  /\ left # <<>> => phase = "received" /\ \E e \in heard.defs : e.id = cur /\ e.type = MESSAGE

Readers ==
  /\ draft \in Dicos /\ (dico # NoDico => dico \in Dicos)
  /\ read # NoDoc => XmlOK(read, draft)
  /\ heard # NoDoc => MsgOK(heard, draft)
  /\ phase = "messages" /\ cur # 0 => \E e \in read.defs : e.id = cur /\ e.type = MESSAGE

TransferInv == Control /\ Messages /\ Readers

LEMMA TransferInvInit == TransferInit => TransferInv
<1> SUFFICES ASSUME TransferInit PROVE TransferInv  OBVIOUS
<1> USE DEF TransferInit, Init
<1>1. Control  BY IdsAre DEF Control, Phases
<1>2. Messages  BY DEF Messages
<1>3. Readers  BY NewDicoIs DEF Readers
<1> QED  BY <1>1, <1>2, <1>3 DEF TransferInv

LEMMA Throws ==
  ASSUME TransferInv, Throw, heard' = NoDoc, left' = <<>>, todo' \in Seq(FieldMsgs), outbox' = outbox
  PROVE  TransferInv'
<1> USE DEF TransferInv, Throw
<1>1. Control'  BY IdsAre DEF Control, Phases
<1>2. Messages'  BY DEF Messages
<1>3. Readers'  BY NewDicoIs DEF Readers
<1> QED  BY <1>1, <1>2, <1>3

LEMMA Installs ==
  ASSUME TransferInv, Install, heard' = NoDoc, left' = <<>>, todo' = todo, outbox' = outbox
  PROVE  TransferInv'
<1> USE DEF TransferInv, Install
<1>1. Control'  BY IdsAre DEF Control, Phases
<1>2. Messages'  BY DEF Messages
<1>3. Readers'  BY NewDicoIs DEF Readers
<1> QED  BY <1>1, <1>2, <1>3

(* The reader of XML documents.                                            *)
LEMMA HeaderStep ==
  ASSUME TransferInv, heard = NoDoc, UNCHANGED tvars, NEW v \in Versions, ParseDicoHeader(v)
  PROVE  TransferInv'
<1> USE DEF TransferInv, tvars
<1>0. read # NoDoc /\ left = <<>>  BY DEF ParseDicoHeader, Control, Messages
<1>1. CASE IntegerGiven(v)
  <2>1. v \in Int  BY <1>1, XmlAssumption DEF IntegerGiven
  <2>2. /\ draft' = [draft EXCEPT !.version = v] /\ read' = [read EXCEPT !.version = v]
        /\ phase' = "fields" /\ phase = "dicos" /\ UNCHANGED <<dico, cur>>
    BY <1>1 DEF ParseDicoHeader
  <2>3. XmlOK(read', draft')  BY <1>0, <2>1, <2>2, XmlHeader DEF Readers
  <2>4. draft' \in Dicos  BY <2>1, <2>2 DEF Readers, Dicos
  <2>5. read' # NoDoc  BY <2>3, TransferAssumption DEF XmlOK
  <2>6. Control'  BY <2>2, <2>5 DEF Control, Phases
  <2>7. Messages'  BY <1>0, <2>2 DEF Messages
  <2>8. Readers'  BY <2>2, <2>3, <2>4 DEF Readers
  <2> QED  BY <2>6, <2>7, <2>8
<1>2. CASE ~IntegerGiven(v)
  <2>1. Throw  BY <1>2 DEF ParseDicoHeader
  <2>2. todo' \in Seq(FieldMsgs)  BY DEF Messages
  <2> QED  BY <1>0, <2>1, <2>2, Throws
<1> QED  BY <1>1, <1>2

(* What both kinds of definitions have in common.                          *)
LEMMA DefStep ==
  ASSUME TransferInv, heard = NoDoc, UNCHANGED tvars, phase \in {"fields", "messages"},
         NEW e, NEW type \in BOOL .. MESSAGE, Addable(e),
         e.name \in Names \cup {Missing}, e.id \in Int \cup {Missing, Text},
         draft' = AddField(draft, e.id, e.name, type),
         read' = [read EXCEPT !.defs = @ \cup {Declared(e, type)}],
         UNCHANGED <<dico, phase>>
  PROVE  /\ e.id \in Ids \ {0} /\ read' # NoDoc /\ Messages'
         /\ draft' \in Dicos /\ XmlOK(read', draft')
         /\ read'.defs = read.defs \cup {Declared(e, type)} /\ read'.items = read.items
         /\ \A x \in read.items : ResolvedIn(read'.defs, x) = ResolvedIn(read.defs, x)
<1> USE DEF TransferInv, tvars
<1>1. e.name \in Names  BY DEF Addable, StringGiven
<1>2. e.id \in Ids \ {0}
  BY ModelAssumption DEF Addable, IdAccepted, IntegerGiven, Ids
<1>3. type \in Types  BY DEF BOOL, MESSAGE, Types, EMPTY, SEQ_MESSAGE
<1>4. PICK f : f = Declared(e, type)  OBVIOUS
<1>5. f \in Defs /\ f.id = e.id /\ f.name = e.name /\ f.type = type
  BY <1>1, <1>2, <1>3, <1>4 DEF Declared, Defs
<1>6. IdOf(draft, f.name) = 0 /\ draft.fields[f.id].type = EMPTY
  BY <1>5 DEF Addable, NameTaken, IdTaken
<1>7. draft \in Dicos /\ XmlOK(read, draft)  BY DEF Control, Readers
<1>8. /\ XmlOK([read EXCEPT !.defs = @ \cup {f}], AddField(draft, f.id, f.name, f.type))
      /\ \A x \in read.items : ResolvedIn(read.defs \cup {f}, x) = ResolvedIn(read.defs, x)
  BY <1>2, <1>5, <1>6, <1>7, XmlDef
<1>9. XmlOK(read', draft')  BY <1>4, <1>5, <1>8
<1>10. draft' \in Dicos  BY <1>1, <1>2, <1>3, <1>7, AddFieldIs
<1>11. read' # NoDoc  BY <1>9, TransferAssumption DEF XmlOK
<1>12. Messages'  BY DEF Messages
<1>13. read'.defs = read.defs \cup {Declared(e, type)} /\ read'.items = read.items
  <2>1. read = [version |-> read.version, defs |-> read.defs, items |-> read.items]
    BY <1>7 DEF XmlOK, Declarations
  <2> QED  BY <2>1
<1>14. \A x \in read.items : ResolvedIn(read'.defs, x) = ResolvedIn(read.defs, x)
  BY <1>4, <1>8, <1>13
<1> QED  BY <1>2, <1>9, <1>10, <1>11, <1>12, <1>13, <1>14

LEMMA FieldDefStep ==
  ASSUME TransferInv, heard = NoDoc, UNCHANGED tvars, NEW e \in FieldElts, ParseFieldDefElt(e)
  PROVE  TransferInv'
<1> USE DEF TransferInv, tvars
<1>0. left = <<>> /\ phase = "fields"  BY DEF ParseFieldDefElt, Control, Messages
<1>1. CASE Addable(e) /\ FieldTypeAccepted(e.type)
  <2>1. e.name \in Names \cup {Missing} /\ e.id \in Int \cup {Missing, Text}
        /\ e.type \in EMPTY .. MESSAGE \cup {Missing}
    BY XmlAssumption
  <2>2. e.type \in BOOL .. MESSAGE
    BY <1>1, <2>1 DEF FieldTypeAccepted, StringGiven, BOOL, MESSAGE, EMPTY
  <2>3. /\ draft' = AddField(draft, e.id, e.name, e.type)
        /\ read' = [read EXCEPT !.defs = @ \cup {Declared(e, e.type)}]
        /\ UNCHANGED <<dico, phase, cur>>
    BY <1>1 DEF ParseFieldDefElt
  <2>4. read' # NoDoc /\ Messages' /\ draft' \in Dicos /\ XmlOK(read', draft')
    BY <1>0, <1>1, <2>1, <2>2, <2>3, DefStep
  <2>5. Control'  BY <1>0, <2>3, <2>4 DEF Control
  <2>6. Readers'  BY <1>0, <2>3, <2>4 DEF Readers
  <2> QED  BY <2>4, <2>5, <2>6
<1>2. CASE ~(Addable(e) /\ FieldTypeAccepted(e.type))
  <2>1. Throw  BY <1>2 DEF ParseFieldDefElt
  <2>2. todo' \in Seq(FieldMsgs)  BY DEF Messages
  <2> QED  BY <1>0, <2>1, <2>2, Throws
<1> QED  BY <1>1, <1>2

LEMMA MessageDefStep ==
  ASSUME TransferInv, heard = NoDoc, UNCHANGED tvars, NEW e \in MessageElts, ParseMessageDefElt(e)
  PROVE  TransferInv'
<1> USE DEF TransferInv, tvars
<1>0. left = <<>> /\ phase = "messages"  BY DEF ParseMessageDefElt, Control, Messages
<1>1. CASE Addable(e)
  <2>1. e.name \in Names \cup {Missing} /\ e.id \in Int \cup {Missing, Text}  BY XmlAssumption
  <2>2. MESSAGE \in BOOL .. MESSAGE  BY DEF BOOL, MESSAGE
  <2>3. /\ draft' = AddField(draft, e.id, e.name, MESSAGE)
        /\ read' = [read EXCEPT !.defs = @ \cup {Declared(e, MESSAGE)}]
        /\ cur' = e.id /\ UNCHANGED <<dico, phase>>
    BY <1>1 DEF ParseMessageDefElt
  <2>4. /\ e.id \in Ids \ {0} /\ read' # NoDoc /\ Messages' /\ draft' \in Dicos
        /\ XmlOK(read', draft') /\ read'.defs = read.defs \cup {Declared(e, MESSAGE)}
    BY <1>0, <1>1, <2>1, <2>2, <2>3, DefStep
  <2>5. Control'  BY <1>0, <2>3, <2>4 DEF Control
  <2>6. \E f \in read'.defs : f.id = cur' /\ f.type = MESSAGE
    <3>1. PICK f : f = Declared(e, MESSAGE)  OBVIOUS
    <3>2. f.id = e.id /\ f.type = MESSAGE  BY <3>1 DEF Declared
    <3>3. f \in read'.defs  BY <2>4, <3>1
    <3> QED  BY <2>3, <3>2, <3>3
  <2>7. Readers'  BY <1>0, <2>3, <2>4, <2>6 DEF Readers
  <2> QED  BY <2>4, <2>5, <2>7
<1>2. CASE ~Addable(e)
  <2>1. Throw  BY <1>2 DEF ParseMessageDefElt
  <2>2. todo' \in Seq(FieldMsgs)  BY DEF Messages
  <2> QED  BY <1>0, <2>1, <2>2, Throws
<1> QED  BY <1>1, <1>2

LEMMA ItemStep ==
  ASSUME TransferInv, heard = NoDoc, UNCHANGED tvars, NEW e \in ItemElts, ParseItem(e)
  PROVE  TransferInv'
<1> USE DEF TransferInv, tvars
<1>0. left = <<>> /\ phase = "messages" /\ cur # 0 /\ cur \in Ids
  BY DEF ParseItem, Control, Messages
<1>1. CASE ItemAccepted(e)
  <2>1. /\ draft' = AddItem(draft, cur, IdOf(draft, e.name), ItemType(e), e.required, e.default)
        /\ read' = [read EXCEPT !.items = @ \cup {[msg |-> cur, elt |-> e]}]
        /\ UNCHANGED <<dico, phase, cur>>
    BY <1>1 DEF ParseItem
  <2>2. e.name \in Names /\ e.required \in BOOLEAN /\ e.repeated \in BOOLEAN
        /\ e.default \in Defaults \cup {Missing}
    BY <1>1, XmlAssumption DEF ItemAccepted, FlagsGiven, StringGiven, BooleanGiven
  <2>3. draft \in Dicos /\ XmlOK(read, draft)
        /\ \E f \in read.defs : f.id = cur /\ f.type = MESSAGE
    BY <1>0 DEF Control, Readers
  <2>4. PICK id, t : /\ id = IdOf(draft, e.name) /\ t = ItemType(e)
                     /\ t = IF e.repeated THEN SetSequence(FieldOf(draft, id).type)
                            ELSE FieldOf(draft, id).type
    BY DEF ItemType
  <2>5. id # 0 /\ ~ItemTaken(draft, cur, id)  BY <1>1, <2>4 DEF ItemAccepted
  <2>6. FieldOf(draft, id).type \in Types \ {EMPTY}
    <3>1. Kept(XmlDoc(read, TRUE), draft)  BY <2>3 DEF XmlOK
    <3>2. IndexesAgree(draft)  BY <2>3, <3>1, KeptAgrees
    <3>3. e.name \in DOMAIN draft.names /\ id = draft.names[e.name]  BY <2>4, <2>5 DEF IdOf
    <3>4. id \in Ids  BY <2>3, <3>3 DEF Dicos
    <3>5. draft.fields[id].type # EMPTY  BY <2>5, <3>2, <3>3 DEF IndexesAgree
    <3>6. draft.fields[id].type \in Types  BY <2>3, <3>4 DEF Dicos, FieldDefs
    <3> QED  BY <3>4, <3>5, <3>6 DEF FieldOf
  <2>7. t \in Nat \ {0}
    BY <2>4, <2>6 DEF SetSequence, Types, EMPTY, SEQ_MESSAGE, SEQ_DELTA
  <2>8. ASSUME Primitive(t) PROVE e.default \in Defaults
    <3>1. t \in {BOOL, LONG, DOUBLE, STRING_T}
      BY <2>7, <2>8 DEF Primitive, MESSAGE, BOOL, LONG, DOUBLE, STRING_T
    <3>2. DefaultGiven(e)  BY <1>1 DEF ItemAccepted
    <3>3. e.default # Missing
      BY <2>4, <3>1, <3>2 DEF DefaultGiven, BooleanGiven, IntegerGiven, DoubleGiven, StringGiven,
                             BOOL, LONG, DOUBLE, STRING_T
    <3> QED  BY <2>2, <3>3
  <2>9. /\ XmlOK([read EXCEPT !.items = @ \cup {[msg |-> cur, elt |-> e]}],
                 AddItem(draft, cur, id, t, e.required, e.default))
        /\ AddItem(draft, cur, id, t, e.required, e.default) \in Dicos
    BY <1>0, <2>2, <2>3, <2>4, <2>5, <2>8, XmlItem
  <2>10. XmlOK(read', draft') /\ draft' \in Dicos  BY <2>1, <2>4, <2>9
  <2>11. read' # NoDoc  BY <2>10, TransferAssumption DEF XmlOK
  <2>12. read'.defs = read.defs
    <3>1. read = [version |-> read.version, defs |-> read.defs, items |-> read.items]
      BY <2>3 DEF XmlOK, Declarations
    <3> QED  BY <2>1, <3>1
  <2>13. Control'  BY <1>0, <2>1, <2>11 DEF Control
  <2>14. Messages'  BY <1>0, <2>1 DEF Messages
  <2>15. Readers'  BY <2>1, <2>3, <2>10, <2>12 DEF Readers
  <2> QED  BY <2>13, <2>14, <2>15
<1>2. CASE ~ItemAccepted(e)
  <2>1. Throw  BY <1>2 DEF ParseItem
  <2>2. todo' \in Seq(FieldMsgs)  BY DEF Messages
  <2> QED  BY <1>0, <2>1, <2>2, Throws
<1> QED  BY <1>1, <1>2

LEMMA XmlStep ==
  ASSUME TransferInv, ReadXml
  PROVE  TransferInv'
<1> USE DEF TransferInv, tvars
<1>0. heard = NoDoc /\ heard' = NoDoc /\ UNCHANGED tvars /\ Next  BY DEF ReadXml
<1>1. left = <<>> /\ todo \in Seq(FieldMsgs) /\ phase # "received"
  BY <1>0 DEF Control, Messages
<1>2. ASSUME Throw PROVE TransferInv'  BY <1>0, <1>1, <1>2, Throws
<1>3. CASE Load
  <2>1. XmlOK(Nothing, NewDico) /\ NewDico \in Dicos /\ Nothing # NoDoc
    BY NothingKept, NewDicoIs, TransferAssumption DEF XmlOK
  <2>2. Control'  BY <1>0, <1>3, <2>1 DEF Load, Control, Phases
  <2>3. Messages'  BY <1>0, <1>1 DEF Messages
  <2>4. Readers'  BY <1>0, <1>3, <2>1 DEF Load, Readers
  <2> QED  BY <2>2, <2>3, <2>4
<1>4. CASE LoadError  BY <1>2, <1>4 DEF LoadError
<1>5. CASE EndFields
  <2>1. Control'  BY <1>0, <1>5 DEF EndFields, Control, Phases
  <2>2. Messages'  BY <1>0, <1>1 DEF Messages
  <2>3. Readers'  BY <1>0, <1>5 DEF EndFields, Readers, Control
  <2> QED  BY <2>1, <2>2, <2>3
<1>6. CASE EndMessages
  <2>1. Control'  BY <1>0, <1>6, IdsAre DEF EndMessages, Control, Phases
  <2>2. Messages'  BY <1>0, <1>1 DEF Messages
  <2>3. Readers'  BY <1>0, <1>6 DEF EndMessages, Readers
  <2> QED  BY <2>1, <2>2, <2>3
<1>7. CASE EndDocument
  <2>1. CASE Throw  BY <1>2, <2>1
  <2>2. CASE phase = "dicos" /\ phase' = "install" /\ UNCHANGED <<dico, draft, cur, read>>
    <3>1. Control'  BY <1>0, <2>2 DEF Control, Phases
    <3>2. Messages'  BY <1>0, <1>1 DEF Messages
    <3>3. Readers'  BY <1>0, <2>2 DEF Readers
    <3> QED  BY <3>1, <3>2, <3>3
  <2> QED  BY <1>7, <2>1, <2>2 DEF EndDocument
<1>8. CASE UnexpectedChild  BY <1>2, <1>8 DEF UnexpectedChild
<1>9. CASE Install  BY <1>0, <1>1, <1>9, Installs
<1>10. CASE \E v \in Versions : ParseDicoHeader(v)  BY <1>0, <1>10, HeaderStep
<1>11. CASE \E e \in FieldElts : ParseFieldDefElt(e)  BY <1>0, <1>11, FieldDefStep
<1>12. CASE \E e \in MessageElts : ParseMessageDefElt(e)  BY <1>0, <1>12, MessageDefStep
<1>13. CASE \E e \in ItemElts : ParseItem(e)  BY <1>0, <1>13, ItemStep
<1> QED
  BY <1>0, <1>3, <1>4, <1>5, <1>6, <1>7, <1>8, <1>9, <1>10, <1>11, <1>12, <1>13 DEF Next

(* The reader of messages.                                                 *)
LEMMA HeardNothing ==
  ASSUME NEW v \in Int
  PROVE  /\ MsgOK([Nothing EXCEPT !.version = v], [NewDico EXCEPT !.version = v])
         /\ [NewDico EXCEPT !.version = v] \in Dicos
<1> DEFINE h == [Nothing EXCEPT !.version = v]
<1>1. h = [version |-> v, defs |-> {}, items |-> {}]  BY DEF Nothing
<1>2. XmlOK(h, [NewDico EXCEPT !.version = v])  BY NothingKept, XmlHeader
<1> HIDE DEF h
<1>3. ASSUME NEW c \in BOOLEAN PROVE XmlDoc(h, c) = MsgDoc(h, c)
  <2>1. {ResolvedIn(h.defs, x) : x \in h.items} = h.items  BY <1>1
  <2> QED  BY <2>1 DEF XmlDoc, MsgDoc
<1>4. MsgOK(h, [NewDico EXCEPT !.version = v])
  BY <1>1, <1>2, <1>3 DEF XmlOK, MsgOK
<1>5. [NewDico EXCEPT !.version = v] \in Dicos  BY NewDicoIs DEF Dicos
<1> QED  BY <1>4, <1>5 DEF h

LEMMA Rejects ==
  ASSUME TransferInv, Reject
  PROVE  TransferInv'
<1>1. todo' \in Seq(FieldMsgs)  BY DEF Reject
<1> QED  BY <1>1, Throws DEF Reject

LEMMA MsgToDicoStep ==
  ASSUME TransferInv, NEW msg \in Msgs, NEW mine \in BOOLEAN, MsgToDico(msg, mine)
  PROVE  TransferInv'
<1> USE DEF TransferInv
<1>1. CASE msg.dod /\ msg.id = DicoId
  <2>1. /\ draft' = [NewDico EXCEPT !.version = AsInt(msg.version)]
        /\ phase' = "received" /\ todo' = msg.fields
        /\ heard' = [Nothing EXCEPT !.version = AsInt(msg.version)]
        /\ phase = "idle" /\ UNCHANGED <<dico, cur, read, outbox, left>>
    BY <1>1 DEF MsgToDico
  <2>2. AsInt(msg.version) \in Int /\ msg.fields \in Seq(FieldMsgs)  BY AsIntIs DEF Msgs
  <2>3. MsgOK(heard', draft') /\ draft' \in Dicos  BY <2>1, <2>2, HeardNothing
  <2>4. heard' # NoDoc  BY <2>3, TransferAssumption DEF MsgOK
  <2>5. Control'  BY <2>1, <2>4 DEF Control
  <2>6. Messages'  BY <2>1, <2>2 DEF Messages
  <2>7. Readers'  BY <2>1, <2>3 DEF Readers, Control
  <2> QED  BY <2>5, <2>6, <2>7
<1>2. CASE ~(msg.dod /\ msg.id = DicoId)  BY <1>2, Rejects DEF MsgToDico
<1> QED  BY <1>1, <1>2

LEMMA AddFieldMsgStep ==
  ASSUME TransferInv, AddFieldMsg
  PROVE  TransferInv'
<1> USE DEF TransferInv
<1>1. PICK f, id, type : f = Head(todo) /\ id = AsInt(f.id) /\ type = AsType(f.type)  OBVIOUS
<1>2. phase = "received" /\ left = <<>> /\ todo # <<>> /\ heard # NoDoc /\ read = NoDoc
  BY DEF AddFieldMsg, Control
<1>3. CASE FieldAccepted(f, id, type)
  <2>1. /\ draft' = AddField(draft, id, f.name, type)
        /\ cur' = id /\ left' = f.items /\ todo' = Tail(todo)
        /\ heard' = [heard EXCEPT !.defs = @ \cup {[id |-> id, name |-> f.name, type |-> type]}]
        /\ UNCHANGED <<dico, phase, read, outbox, own>>
    BY <1>1, <1>3 DEF AddFieldMsg
  <2>2. f \in FieldMsgs /\ Tail(todo) \in Seq(FieldMsgs)
    BY <1>1, <1>2 DEF Messages
  <2>3. f.id \in Int /\ f.name \in Names /\ f.type \in Nat /\ f.items \in Seq(ItemMsgs)
    BY <2>2 DEF FieldMsgs
  <2>4. id \in Int /\ type \in Nat  BY <1>1, <2>3, AsIntIs
  <2>5. id \in Ids \ {0} /\ type \in Types /\ type <= MESSAGE
    BY <1>3, <2>4, ModelAssumption
    DEF FieldAccepted, Ids, Types, EMPTY, MESSAGE, SEQ_MESSAGE, Repeated
  <2>6. IdOf(draft, f.name) = 0 /\ draft.fields[id].type = EMPTY /\ (f.items # <<>> => type = MESSAGE)
    BY <1>3 DEF FieldAccepted, NameTaken, IdTaken
  <2>7. draft \in Dicos /\ MsgOK(heard, draft)  BY <1>2 DEF Readers
  <2>8. PICK e : e = [id |-> id, name |-> f.name, type |-> type]  OBVIOUS
  <2>9. e \in Defs /\ e.id = id /\ e.name = f.name /\ e.type = type
    BY <2>3, <2>5, <2>8 DEF Defs
  <2>10. MsgOK([heard EXCEPT !.defs = @ \cup {e}], AddField(draft, e.id, e.name, e.type))
    BY <2>5, <2>6, <2>7, <2>9, MsgDef
  <2>11. MsgOK(heard', draft')  BY <2>1, <2>8, <2>9, <2>10
  <2>12. draft' \in Dicos  BY <2>1, <2>3, <2>5, <2>7, AddFieldIs
  <2>13. heard' # NoDoc  BY <2>11, TransferAssumption DEF MsgOK
  <2>14. e \in heard'.defs
    <3>1. heard = [version |-> heard.version, defs |-> heard.defs, items |-> heard.items]
      BY <2>7 DEF MsgOK, Declarations
    <3>2. heard' = [heard EXCEPT !.defs = @ \cup {e}]  BY <2>1, <2>8
    <3> QED  BY <3>1, <3>2
  <2>15. Control'  BY <1>2, <2>1, <2>5, <2>13 DEF Control
  <2>16. Messages'  BY <1>2, <2>1, <2>2, <2>3, <2>6, <2>9, <2>14 DEF Messages
  <2>17. Readers'  BY <1>2, <2>1, <2>11, <2>12 DEF Readers
  <2> QED  BY <2>15, <2>16, <2>17
<1>4. CASE ~FieldAccepted(f, id, type)
  <2>1. Reject  BY <1>1, <1>4 DEF AddFieldMsg
  <2> QED  BY <2>1, Rejects
<1> QED  BY <1>3, <1>4

LEMMA AddItemMsgStep ==
  ASSUME TransferInv, AddItemMsg
  PROVE  TransferInv'
<1> USE DEF TransferInv
<1>1. PICK i, type, default :
        i = Head(left) /\ type = AsType(i.type) /\ default = IF Primitive(type) THEN i.default ELSE Zero
  OBVIOUS
<1>2. phase = "received" /\ left # <<>> /\ heard # NoDoc /\ read = NoDoc /\ cur \in Ids
  BY DEF AddItemMsg, Control
<1>3. CASE ItemMsgAccepted(i, type)
  <2>1. /\ draft' = AddItem(draft, cur, i.id, type, i.required, default)
        /\ left' = Tail(left)
        /\ heard' = [heard EXCEPT !.items = @ \cup
                       {[msg |-> cur, id |-> i.id, type |-> type,
                         required |-> i.required, default |-> default]}]
        /\ UNCHANGED <<dico, phase, cur, read, outbox, todo, own>>
    BY <1>1, <1>3 DEF AddItemMsg
  <2>2. i \in ItemMsgs /\ Tail(left) \in Seq(ItemMsgs)
    BY <1>1, <1>2 DEF Messages
  <2>3. i.id \in Int /\ i.type \in Nat /\ i.required \in BOOLEAN /\ i.default \in Defaults
    BY <2>2 DEF ItemMsgs
  <2>4. type \in Nat  BY <1>1, <2>3, AsIntIs
  <2>5. i.id \in Ids /\ type \in Types
    BY <1>3, <2>3, <2>4, ModelAssumption DEF ItemMsgAccepted, Ids, Types, EMPTY, SEQ_MESSAGE
  <2>6. default \in Defaults  BY <1>1, <2>3, ModelAssumption
  <2>7. draft \in Dicos /\ MsgOK(heard, draft)  BY <1>2 DEF Readers
  <2>8. PICK x : x = [msg |-> cur, id |-> i.id, type |-> type,
                      required |-> i.required, default |-> default]
    OBVIOUS
  <2>9. /\ x \in ItemDefs /\ x.msg = cur /\ x.id = i.id /\ x.type = type
        /\ x.required = i.required /\ x.default = default
    BY <1>2, <2>3, <2>5, <2>6, <2>8 DEF ItemDefs
  <2>10. /\ \E e \in heard.defs : e.id = x.msg /\ e.type = MESSAGE
         /\ ~ItemTaken(draft, x.msg, x.id)
         /\ x.default = IF Primitive(x.type) THEN x.default ELSE Zero
    BY <1>1, <1>2, <1>3, <2>9 DEF Messages, ItemMsgAccepted
  <2>11. MsgOK([heard EXCEPT !.items = @ \cup {x}],
               AddItem(draft, x.msg, x.id, x.type, x.required, x.default))
    BY <2>7, <2>9, <2>10, MsgItem
  <2>12. MsgOK(heard', draft')  BY <2>1, <2>8, <2>9, <2>11
  <2>13. draft' \in Dicos  BY <1>2, <2>1, <2>3, <2>5, <2>6, <2>7, AddItemIs
  <2>14. heard' # NoDoc  BY <2>12, TransferAssumption DEF MsgOK
  <2>15. heard'.defs = heard.defs
    <3>1. heard = [version |-> heard.version, defs |-> heard.defs, items |-> heard.items]
      BY <2>7 DEF MsgOK, Declarations
    <3> QED  BY <2>1, <3>1
  <2>16. Control'  BY <1>2, <2>1, <2>14 DEF Control
  <2>17. Messages'  BY <1>2, <2>1, <2>2, <2>15 DEF Messages
  <2>18. Readers'  BY <1>2, <2>1, <2>12, <2>13 DEF Readers
  <2> QED  BY <2>16, <2>17, <2>18
<1>4. CASE ~ItemMsgAccepted(i, type)
  <2>1. Reject  BY <1>1, <1>4 DEF AddItemMsg
  <2> QED  BY <2>1, Rejects
<1> QED  BY <1>3, <1>4

LEMMA TransferInvNext == TransferInv /\ [TransferNext]_allVars => TransferInv'
<1> SUFFICES ASSUME TransferInv, [TransferNext]_allVars PROVE TransferInv'  OBVIOUS
<1> USE DEF TransferInv
<1>1. CASE ReadXml  BY <1>1, XmlStep
<1>2. CASE DicoToMsg
  <2>1. UNCHANGED <<dico, phase, draft, cur, read, todo, left, own, heard>>
        /\ outbox' = [msg |-> MsgOf(dico), origin |-> dico]
    BY <1>2 DEF DicoToMsg
  <2>2. Control'  BY <2>1 DEF Control
  <2>3. Messages'
    <3>1. MsgOf(dico) \in Msgs  BY MsgOfIs DEF Readers
    <3> QED  BY <2>1, <3>1 DEF Messages
  <2>4. Readers'  BY <2>1 DEF Readers
  <2> QED  BY <2>2, <2>3, <2>4
<1>3. CASE outbox # NoMsg /\ MsgToDico(outbox.msg, TRUE)
  <2>1. outbox.msg \in Msgs  BY <1>3 DEF Messages
  <2> QED  BY <1>3, <2>1, MsgToDicoStep
<1>4. CASE \E msg \in ForeignMsgs : MsgToDico(msg, FALSE)
  BY <1>4, TransferAssumption, MsgToDicoStep
<1>5. CASE AddFieldMsg  BY <1>5, AddFieldMsgStep
<1>6. CASE AddItemMsg  BY <1>6, AddItemMsgStep
<1>7. CASE EndFieldMsgs
  <2>1. /\ phase = "received" /\ phase' = "install" /\ left = <<>>
        /\ UNCHANGED <<dico, draft, cur, read, outbox, todo, left, own, heard>>
    BY <1>7 DEF EndFieldMsgs
  <2>2. Control'  BY <2>1 DEF Control, Phases
  <2>3. Messages'  BY <2>1 DEF Messages
  <2>4. Readers'  BY <2>1 DEF Readers
  <2> QED  BY <2>2, <2>3, <2>4
<1>8. CASE InstallMsg
  <2>1. left = <<>>  BY <1>8 DEF InstallMsg, Install, Messages
  <2> QED  BY <1>8, <2>1, Installs DEF InstallMsg
<1>9. CASE UNCHANGED allVars
  <2>1. Control'  BY <1>9 DEF allVars, Control
  <2>2. Messages'  BY <1>9 DEF allVars, Messages
  <2>3. Readers'  BY <1>9 DEF allVars, Readers
  <2> QED  BY <2>1, <2>2, <2>3
<1> QED
  BY <1>1, <1>2, <1>3, <1>4, <1>5, <1>6, <1>7, <1>8, <1>9 DEF TransferNext

LEMMA TransferInvAlways == TransferSpec => []TransferInv
  BY TransferInvInit, TransferInvNext, PTL DEF TransferSpec

-----------------------------------------------------------------------------
(* The results.                                                            *)

\* Every dictionary has the shape of one at every moment, the one in use and the one
\* that is being filled, whatever numbers the messages carry (Serializer.cpp:253-361).
THEOREM TransferTypeCorrect == TransferSpec => []TransferTypeOK
<1>1. TransferInv => TransferTypeOK
  BY DicosOK DEF TransferInv, Control, Readers, TransferTypeOK
<1> QED  BY <1>1, TransferInvAlways, PTL

\* The two indexes of a dictionary that is being filled agree at every moment (Dico.h),
\* unless a message has declared a definition without type.
THEOREM IndexesAlwaysAgree == TransferSpec => []IndexAgree
<1>1. TransferInv => IndexAgree
  <2> SUFFICES ASSUME TransferInv, heard # NoDoc => Typed(heard) PROVE IndexesAgree(draft)
    BY DEF IndexAgree, Typed
  <2> USE DEF TransferInv
  <2>0. draft \in Dicos  BY DEF Readers
  <2>1. CASE read # NoDoc
    <3>1. Kept(XmlDoc(read, TRUE), draft)  BY <2>1 DEF Readers, XmlOK
    <3> QED  BY <2>0, <3>1, KeptAgrees
  <2>2. CASE heard # NoDoc
    <3>1. Kept(MsgDoc(heard, TRUE), draft)  BY <2>2 DEF Readers, MsgOK
    <3> QED  BY <2>0, <3>1, KeptAgrees
  <2>3. CASE read = NoDoc /\ heard = NoDoc
    <3>1. draft = NewDico  BY <2>3 DEF Control, Phases
    <3>2. Kept(XmlDoc(Nothing, TRUE), NewDico)  BY NothingKept DEF XmlOK
    <3> QED  BY <3>1, <3>2, NewDicoIs, KeptAgrees
  <2> QED  BY <2>1, <2>2, <2>3
<1> QED  BY <1>1, TransferInvAlways, PTL

\* What pointers() asserts in debug builds (Serializer.cpp:378-400) holds at every moment
\* of every dictionary that an XML document fills, whatever the document.
THEOREM XmlAlwaysConsistent == TransferSpec => []XmlConsistent
<1>1. TransferInv => XmlConsistent
  <2> SUFFICES ASSUME TransferInv, heard = NoDoc PROVE IsConsistent(draft)  BY DEF XmlConsistent
  <2> USE DEF TransferInv
  <2>1. CASE read # NoDoc  BY <2>1, XmlIsConsistent DEF Readers
  <2>2. CASE read = NoDoc
    <3>1. draft = NewDico  BY <2>2 DEF Control, Phases
    <3> QED  BY <3>1, NothingKept, NewDicoIs, XmlIsConsistent
  <2> QED  BY <2>1, <2>2
<1> QED  BY <1>1, TransferInvAlways, PTL

(* The document that DicoStore sees.                                       *)
DocFrom(r, h, c) == IF h = NoDoc THEN IF r = NoDoc THEN NoDoc ELSE XmlDoc(r, c) ELSE MsgDoc(h, c)

LEMMA HeardDocIs ==
  /\ HeardDoc = DocFrom(read, heard, phase = "install")
  /\ HeardDoc' = DocFrom(read', heard', phase' = "install")
<1>1. \A x : Resolved(x) = ResolvedIn(read.defs, x)  BY DEF Resolved, ResolvedIn
<1>2. \A x : Resolved(x)' = ResolvedIn(read'.defs, x)  BY DEF Resolved, ResolvedIn
<1>3. ReadDoc = IF read = NoDoc THEN NoDoc ELSE XmlDoc(read, phase = "install")
  BY <1>1 DEF ReadDoc, XmlDoc
<1>4. ReadDoc' = IF read' = NoDoc THEN NoDoc ELSE XmlDoc(read', phase' = "install")
  BY <1>2 DEF ReadDoc, XmlDoc
<1> QED  BY <1>3, <1>4 DEF HeardDoc, DocFrom, MsgDoc

LEMMA DocsAre ==
  ASSUME NEW c \in BOOLEAN
  PROVE  /\ \A r, d : XmlOK(r, d) => XmlDoc(r, c) # NoDoc
         /\ \A h, d : MsgOK(h, d) => MsgDoc(h, c) # NoDoc
<1>1. ASSUME NEW r, NEW d, XmlOK(r, d) PROVE XmlDoc(r, c) \in Docs
  <2>1. DeclaredOK(XmlDoc(r, c))  BY <1>1 DEF XmlOK, Kept
  <2> QED  BY <2>1 DEF DeclaredOK, XmlDoc, Docs
<1>2. ASSUME NEW h, NEW d, MsgOK(h, d) PROVE MsgDoc(h, c) \in Docs
  BY <1>2 DEF MsgOK, MsgDoc, Declarations, Docs
<1> QED  BY <1>1, <1>2, TransferAssumption

LEMMA Fails ==
  ASSUME dico' = dico, read' = NoDoc, heard' = NoDoc
  PROVE  [Received!Next]_<<dico, HeardDoc>>
<1>1. HeardDoc' = NoDoc  BY HeardDocIs DEF DocFrom
<1>2. CASE HeardDoc = NoDoc  BY <1>1, <1>2
<1>3. CASE HeardDoc # NoDoc
  <2>1. Received!Fail  BY <1>1, <1>3 DEF Received!Fail
  <2> QED  BY <2>1 DEF Received!Next
<1> QED  BY <1>2, <1>3

LEMMA DeclaresXml ==
  ASSUME TransferInv, TransferInv', dico' = dico, phase # "install",
         heard = NoDoc, heard' = NoDoc, read # NoDoc, read' # NoDoc,
         read.defs \subseteq read'.defs, read.items \subseteq read'.items,
         \A x \in read.items : ResolvedIn(read'.defs, x) = ResolvedIn(read.defs, x)
  PROVE  [Received!Next]_<<dico, HeardDoc>>
<1>0. PICK c \in BOOLEAN : c = (phase' = "install")  OBVIOUS
<1>1. PICK S, T : /\ S = XmlDoc(read, FALSE) /\ T = XmlDoc(read', c)
                  /\ S = HeardDoc /\ T = HeardDoc'
  <2>1. HeardDoc = XmlDoc(read, FALSE)  BY HeardDocIs DEF DocFrom
  <2>2. HeardDoc' = XmlDoc(read', c)  BY <1>0, HeardDocIs DEF DocFrom
  <2> QED  BY <2>1, <2>2
<1>2. XmlOK(read, draft) /\ XmlOK(read', draft')  BY DEF TransferInv, Readers
<1>3. S # NoDoc /\ T # NoDoc  BY <1>1, <1>2, DocsAre
<1>4. ~S.complete /\ S.defs \subseteq T.defs  BY <1>1 DEF XmlDoc
<1>5. S.items \subseteq T.items
  <2>1. S.items = {ResolvedIn(read.defs, x) : x \in read.items}
        /\ T.items = {ResolvedIn(read'.defs, x) : x \in read'.items}
    BY <1>1 DEF XmlDoc
  <2> QED  BY <2>1
<1>6. Received!Declare  BY <1>1, <1>3, <1>4, <1>5 DEF Received!Declare
<1> QED  BY <1>6 DEF Received!Next

LEMMA DeclaresMsg ==
  ASSUME TransferInv, TransferInv', dico' = dico, phase # "install",
         heard # NoDoc, heard' # NoDoc,
         heard.defs \subseteq heard'.defs, heard.items \subseteq heard'.items
  PROVE  [Received!Next]_<<dico, HeardDoc>>
<1>0. PICK c \in BOOLEAN : c = (phase' = "install")  OBVIOUS
<1>1. PICK S, T : /\ S = MsgDoc(heard, FALSE) /\ T = MsgDoc(heard', c)
                  /\ S = HeardDoc /\ T = HeardDoc'
  <2>1. HeardDoc = MsgDoc(heard, FALSE)  BY HeardDocIs DEF DocFrom
  <2>2. HeardDoc' = MsgDoc(heard', c)  BY <1>0, HeardDocIs DEF DocFrom
  <2> QED  BY <2>1, <2>2
<1>2. MsgOK(heard, draft) /\ MsgOK(heard', draft')  BY DEF TransferInv, Readers
<1>3. S # NoDoc /\ T # NoDoc  BY <1>1, <1>2, DocsAre
<1>4. ~S.complete /\ S.defs \subseteq T.defs /\ S.items \subseteq T.items  BY <1>1 DEF MsgDoc
<1>5. Received!Declare  BY <1>1, <1>3, <1>4 DEF Received!Declare
<1> QED  BY <1>5 DEF Received!Next

LEMMA InstallsMeaning ==
  ASSUME TransferInv, Install, heard' = NoDoc
  PROVE  [Received!Next]_<<dico, HeardDoc>>
<1> USE DEF TransferInv
<1>1. phase = "install" /\ dico' = draft /\ read' = NoDoc  BY DEF Install
<1>2. HeardDoc' = NoDoc  BY <1>1, HeardDocIs DEF DocFrom
<1>3. PICK S : S = HeardDoc  OBVIOUS
<1>4. S # NoDoc /\ S.complete /\ (Received!Sound(S) => Received!Valid(S) /\ dico' = Received!Meaning(S))
  <2>1. CASE heard = NoDoc
    <3>1. read # NoDoc  BY <1>1, <2>1 DEF Control
    <3>2. S = XmlDoc(read, TRUE)  BY <1>1, <1>3, <2>1, <3>1, HeardDocIs DEF DocFrom
    <3>3. XmlOK(read, draft)  BY <3>1 DEF Readers
    <3>4. Received!Valid(S) /\ dico' = Received!Meaning(S)
      BY <1>1, <3>2, <3>3 DEF XmlOK, Kept
    <3>5. S # NoDoc  BY <3>2, <3>3, DocsAre
    <3>6. S.complete  BY <3>2 DEF XmlDoc
    <3> QED  BY <3>4, <3>5, <3>6
  <2>2. CASE heard # NoDoc
    <3>1. S = MsgDoc(heard, TRUE)  BY <1>1, <1>3, <2>2, HeardDocIs DEF DocFrom
    <3>2. MsgOK(heard, draft)  BY <2>2 DEF Readers
    <3>3. S # NoDoc  BY <3>1, <3>2, DocsAre
    <3>4. S.complete /\ S.defs = heard.defs  BY <3>1 DEF MsgDoc
    <3>5. ASSUME Received!Sound(S) PROVE Received!Valid(S) /\ dico' = Received!Meaning(S)
      <4>1. Typed(heard)  BY <3>4, <3>5, StoreNames DEF Received!Sound, Typed
      <4> QED  BY <1>1, <3>1, <3>2, <4>1 DEF MsgOK, Kept
    <3> QED  BY <3>3, <3>4, <3>5
  <2> QED  BY <2>1, <2>2
<1>5. Received!Install  BY <1>2, <1>3, <1>4 DEF Received!Install
<1> QED  BY <1>5 DEF Received!Next

LEMMA XmlImplements ==
  ASSUME TransferInv, TransferInv', ReadXml
  PROVE  [Received!Next]_<<dico, HeardDoc>>
<1> USE DEF tvars
<1>0. heard = NoDoc /\ heard' = NoDoc /\ UNCHANGED tvars /\ Next  BY DEF ReadXml
<1>1. ASSUME Throw PROVE [Received!Next]_<<dico, HeardDoc>>  BY <1>0, <1>1, Fails DEF Throw
<1>2. ASSUME phase \in {"dicos", "fields", "messages"}, dico' = dico,
             read.defs \subseteq read'.defs, read.items \subseteq read'.items,
             \A x \in read.items : ResolvedIn(read'.defs, x) = ResolvedIn(read.defs, x),
             read' # NoDoc
      PROVE  [Received!Next]_<<dico, HeardDoc>>
  <2>1. read # NoDoc /\ phase # "install"  BY <1>2 DEF TransferInv, Control
  <2> QED  BY <1>0, <1>2, <2>1, DeclaresXml
<1>3. ASSUME phase \in {"dicos", "fields", "messages"}, UNCHANGED <<dico, read>>
      PROVE  [Received!Next]_<<dico, HeardDoc>>
  <2>1. read # NoDoc /\ phase # "install"  BY <1>3 DEF TransferInv, Control
  <2> QED  BY <1>2, <1>3, <2>1
<1>4. ASSUME NEW e, NEW type \in BOOL .. MESSAGE, Addable(e), phase \in {"fields", "messages"},
             e.name \in Names \cup {Missing}, e.id \in Int \cup {Missing, Text},
             draft' = AddField(draft, e.id, e.name, type),
             read' = [read EXCEPT !.defs = @ \cup {Declared(e, type)}],
             UNCHANGED <<dico, phase>>
      PROVE  [Received!Next]_<<dico, HeardDoc>>
  <2>1. /\ read' # NoDoc /\ read'.defs = read.defs \cup {Declared(e, type)} /\ read'.items = read.items
        /\ \A x \in read.items : ResolvedIn(read'.defs, x) = ResolvedIn(read.defs, x)
    BY <1>0, <1>4, DefStep
  <2> QED  BY <1>2, <1>4, <2>1
<1>5. CASE Load
  <2>1. read = NoDoc /\ read' = Nothing /\ dico' = dico /\ phase' = "dicos"
    BY <1>5 DEF Load, TransferInv, Control
  <2>2. Nothing # NoDoc  BY NothingKept, TransferAssumption DEF XmlOK
  <2>3. HeardDoc = NoDoc /\ HeardDoc' = XmlDoc(Nothing, FALSE)
    BY <1>0, <2>1, <2>2, HeardDocIs DEF DocFrom
  <2>4. XmlDoc(Nothing, FALSE) = Received!Nothing
    BY DEF XmlDoc, Nothing, Received!Nothing
  <2>5. XmlDoc(Nothing, FALSE) # NoDoc  BY NothingKept, DocsAre
  <2>6. Received!Nothing = [Received!Nothing EXCEPT !.version = Received!Nothing.version]
    BY DEF Received!Nothing
  <2>7. Received!Begin  BY <2>1, <2>3, <2>4, <2>5, <2>6 DEF Received!Begin
  <2> QED  BY <2>7 DEF Received!Next
<1>6. CASE LoadError  BY <1>1, <1>6 DEF LoadError
<1>7. CASE EndFields  BY <1>3, <1>7 DEF EndFields
<1>8. CASE EndMessages  BY <1>3, <1>8 DEF EndMessages
<1>9. CASE EndDocument  BY <1>1, <1>3, <1>9 DEF EndDocument
<1>10. CASE UnexpectedChild  BY <1>1, <1>10 DEF UnexpectedChild
<1>11. CASE Install  BY <1>0, <1>11, InstallsMeaning
<1>12. ASSUME NEW v \in Versions, ParseDicoHeader(v) PROVE [Received!Next]_<<dico, HeardDoc>>
  <2>1. CASE IntegerGiven(v)
    <3>1. phase = "dicos" /\ read' = [read EXCEPT !.version = v] /\ dico' = dico
          /\ phase' = "fields"
      BY <1>12, <2>1 DEF ParseDicoHeader
    <3>2. read # NoDoc /\ XmlOK(read, draft) /\ read' # NoDoc
      BY <3>1 DEF TransferInv, Control, Readers
    <3>3. read = [version |-> read.version, defs |-> read.defs, items |-> read.items]
      BY <3>2 DEF XmlOK, Declarations
    <3>4. read'.defs = read.defs /\ read'.items = read.items  BY <3>1, <3>3
    <3> QED  BY <1>2, <3>1, <3>2, <3>4
  <2>2. CASE ~IntegerGiven(v)  BY <1>1, <1>12, <2>2 DEF ParseDicoHeader
  <2> QED  BY <2>1, <2>2
<1>13. ASSUME NEW e \in FieldElts, ParseFieldDefElt(e) PROVE [Received!Next]_<<dico, HeardDoc>>
  <2>1. CASE Addable(e) /\ FieldTypeAccepted(e.type)
    <3>1. e.name \in Names \cup {Missing} /\ e.id \in Int \cup {Missing, Text}
          /\ e.type \in EMPTY .. MESSAGE \cup {Missing}
      BY XmlAssumption
    <3>2. e.type \in BOOL .. MESSAGE
      BY <2>1, <3>1 DEF FieldTypeAccepted, StringGiven, BOOL, MESSAGE, EMPTY
    <3>3. /\ draft' = AddField(draft, e.id, e.name, e.type) /\ phase = "fields"
          /\ read' = [read EXCEPT !.defs = @ \cup {Declared(e, e.type)}]
          /\ UNCHANGED <<dico, phase>>
      BY <1>13, <2>1 DEF ParseFieldDefElt
    <3> QED  BY <1>4, <2>1, <3>1, <3>2, <3>3
  <2>2. CASE ~(Addable(e) /\ FieldTypeAccepted(e.type))
    BY <1>1, <1>13, <2>2 DEF ParseFieldDefElt
  <2> QED  BY <2>1, <2>2
<1>14. ASSUME NEW e \in MessageElts, ParseMessageDefElt(e) PROVE [Received!Next]_<<dico, HeardDoc>>
  <2>1. CASE Addable(e)
    <3>1. e.name \in Names \cup {Missing} /\ e.id \in Int \cup {Missing, Text}  BY XmlAssumption
    <3>2. MESSAGE \in BOOL .. MESSAGE  BY DEF BOOL, MESSAGE
    <3>3. /\ draft' = AddField(draft, e.id, e.name, MESSAGE) /\ phase = "messages"
          /\ read' = [read EXCEPT !.defs = @ \cup {Declared(e, MESSAGE)}]
          /\ UNCHANGED <<dico, phase>>
      BY <1>14, <2>1 DEF ParseMessageDefElt
    <3> QED  BY <1>4, <2>1, <3>1, <3>2, <3>3
  <2>2. CASE ~Addable(e)  BY <1>1, <1>14, <2>2 DEF ParseMessageDefElt
  <2> QED  BY <2>1, <2>2
<1>15. ASSUME NEW e \in ItemElts, ParseItem(e) PROVE [Received!Next]_<<dico, HeardDoc>>
  <2>1. CASE ItemAccepted(e)
    <3>1. /\ phase = "messages" /\ dico' = dico /\ phase' = "messages"
          /\ read' = [read EXCEPT !.items = @ \cup {[msg |-> cur, elt |-> e]}]
      BY <1>15, <2>1 DEF ParseItem
    <3>2. read # NoDoc /\ XmlOK(read, draft) /\ read' # NoDoc
      BY <3>1 DEF TransferInv, Control, Readers
    <3>3. read = [version |-> read.version, defs |-> read.defs, items |-> read.items]
      BY <3>2 DEF XmlOK, Declarations
    <3>4. read'.defs = read.defs /\ read.items \subseteq read'.items  BY <3>1, <3>3
    <3> QED  BY <1>2, <3>1, <3>2, <3>4
  <2>2. CASE ~ItemAccepted(e)  BY <1>1, <1>15, <2>2 DEF ParseItem
  <2> QED  BY <2>1, <2>2
<1> QED
  BY <1>0, <1>5, <1>6, <1>7, <1>8, <1>9, <1>10, <1>11, <1>12, <1>13, <1>14, <1>15 DEF Next

LEMMA MsgImplements ==
  ASSUME TransferInv, TransferInv', NEW msg \in Msgs, NEW mine \in BOOLEAN, MsgToDico(msg, mine)
  PROVE  [Received!Next]_<<dico, HeardDoc>>
<1>1. CASE msg.dod /\ msg.id = DicoId
  <2>1. PICK v : v = AsInt(msg.version)  OBVIOUS
  <2>2. v \in Int  BY <2>1, AsIntIs DEF Msgs
  <2>3. /\ heard' = [Nothing EXCEPT !.version = v] /\ dico' = dico
        /\ phase = "idle" /\ phase' = "received"
    BY <1>1, <2>1 DEF MsgToDico
  <2>4. heard = NoDoc /\ read = NoDoc /\ heard' # NoDoc /\ MsgOK(heard', draft')
    BY <2>3 DEF TransferInv, Control, Readers
  <2>5. HeardDoc = NoDoc  BY <2>4, HeardDocIs DEF DocFrom
  <2>6. HeardDoc' = MsgDoc(heard', FALSE)  BY <2>3, <2>4, HeardDocIs DEF DocFrom
  <2>7. HeardDoc' = [version |-> v, defs |-> {}, items |-> {}, complete |-> FALSE]
    BY <2>3, <2>6 DEF MsgDoc, Nothing
  <2>8. HeardDoc' # NoDoc  BY <2>4, <2>6, DocsAre
  <2>9. HeardDoc' = [Received!Nothing EXCEPT !.version = HeardDoc'.version]
    <3>1. PICK T : T = HeardDoc'  OBVIOUS
    <3>2. T = [version |-> v, defs |-> {}, items |-> {}, complete |-> FALSE]  BY <2>7, <3>1
    <3>3. T.version = v  BY <3>2
    <3>4. T = [Received!Nothing EXCEPT !.version = v]
      <4>1. Received!Nothing = [version |-> 0, defs |-> {}, items |-> {}, complete |-> FALSE]
        BY DEF Received!Nothing
      <4>2. \A c : [[version |-> 0, defs |-> {}, items |-> {}, complete |-> c] EXCEPT !.version = v]
                     = [version |-> v, defs |-> {}, items |-> {}, complete |-> c]
        OBVIOUS
      <4>3. [[version |-> 0, defs |-> {}, items |-> {}, complete |-> FALSE] EXCEPT !.version = v]
              = [version |-> v, defs |-> {}, items |-> {}, complete |-> FALSE]
        BY <4>2, Zenon
      <4> QED  BY ONLY <3>2, <4>1, <4>3, Zenon
    <3> QED  BY <3>1, <3>3, <3>4
  <2>10. Received!Begin  BY <2>3, <2>5, <2>8, <2>9 DEF Received!Begin
  <2> QED  BY <2>10 DEF Received!Next
<1>2. CASE ~(msg.dod /\ msg.id = DicoId)
  <2>1. dico' = dico /\ read' = NoDoc /\ heard' = NoDoc
    BY <1>2 DEF MsgToDico, Reject, Throw
  <2> QED  BY <2>1, Fails
<1> QED  BY <1>1, <1>2

LEMMA TransferImplements ==
  TransferInv /\ TransferInv' /\ [TransferNext]_allVars => [Received!Next]_<<dico, HeardDoc>>
<1> SUFFICES ASSUME TransferInv, TransferInv', [TransferNext]_allVars
             PROVE  [Received!Next]_<<dico, HeardDoc>>
  OBVIOUS
<1>1. ASSUME UNCHANGED <<dico, read, heard, phase>> PROVE UNCHANGED <<dico, HeardDoc>>
  BY <1>1, HeardDocIs
<1>2. ASSUME Reject PROVE [Received!Next]_<<dico, HeardDoc>>
  BY <1>2, Fails DEF Reject, Throw
<1>3. CASE ReadXml  BY <1>3, XmlImplements
<1>4. CASE DicoToMsg  BY <1>1, <1>4 DEF DicoToMsg
<1>5. CASE outbox # NoMsg /\ MsgToDico(outbox.msg, TRUE)
  <2>1. outbox.msg \in Msgs  BY <1>5 DEF TransferInv, Messages
  <2> QED  BY <1>5, <2>1, MsgImplements
<1>6. CASE \E msg \in ForeignMsgs : MsgToDico(msg, FALSE)
  BY <1>6, TransferAssumption, MsgImplements
<1>7. ASSUME phase = "received", dico' = dico,
             phase' = "received" \/ phase' = "install",
             heard.defs \subseteq heard'.defs, heard.items \subseteq heard'.items, heard' # NoDoc
      PROVE  [Received!Next]_<<dico, HeardDoc>>
  <2>1. heard # NoDoc  BY <1>7 DEF TransferInv, Control
  <2> QED  BY <1>7, <2>1, DeclaresMsg
<1>8. ASSUME phase = "received"
      PROVE  heard = [version |-> heard.version, defs |-> heard.defs, items |-> heard.items]
  <2>1. heard # NoDoc /\ MsgOK(heard, draft)  BY <1>8 DEF TransferInv, Control, Readers
  <2> QED  BY <2>1 DEF MsgOK, Declarations
<1>9. ASSUME phase = "received", phase' = "received" PROVE heard' # NoDoc
  BY <1>9 DEF TransferInv, Control
<1>10. CASE AddFieldMsg
  <2>1. PICK e : \/ Reject
                 \/ /\ heard' = [heard EXCEPT !.defs = @ \cup {e}]
                    /\ phase = "received" /\ UNCHANGED <<dico, phase>>
    BY <1>10 DEF AddFieldMsg
  <2>2. CASE Reject  BY <1>2, <2>2
  <2>3. CASE /\ heard' = [heard EXCEPT !.defs = @ \cup {e}]
             /\ phase = "received" /\ UNCHANGED <<dico, phase>>
    <3>1. heard'.defs = heard.defs \cup {e} /\ heard'.items = heard.items  BY <1>8, <2>3
    <3> QED  BY <1>7, <1>9, <2>3, <3>1
  <2> QED  BY <2>1, <2>2, <2>3
<1>11. CASE AddItemMsg
  <2>1. PICK x : \/ Reject
                 \/ /\ heard' = [heard EXCEPT !.items = @ \cup {x}]
                    /\ phase = "received" /\ UNCHANGED <<dico, phase>>
    BY <1>11 DEF AddItemMsg, ItemMsgAccepted
  <2>2. CASE Reject  BY <1>2, <2>2
  <2>3. CASE /\ heard' = [heard EXCEPT !.items = @ \cup {x}]
             /\ phase = "received" /\ UNCHANGED <<dico, phase>>
    <3>1. heard'.items = heard.items \cup {x} /\ heard'.defs = heard.defs  BY <1>8, <2>3
    <3> QED  BY <1>7, <1>9, <2>3, <3>1
  <2> QED  BY <2>1, <2>2, <2>3
<1>12. CASE EndFieldMsgs
  <2>1. phase = "received" /\ phase' = "install" /\ UNCHANGED <<dico, heard>>
    BY <1>12 DEF EndFieldMsgs
  <2>2. heard # NoDoc  BY <2>1 DEF TransferInv, Control
  <2> QED  BY <1>7, <2>1, <2>2
<1>13. CASE InstallMsg  BY <1>13, InstallsMeaning DEF InstallMsg
<1>14. CASE UNCHANGED allVars  BY <1>1, <1>14 DEF allVars
<1> QED
  BY <1>3, <1>4, <1>5, <1>6, <1>10, <1>11, <1>12, <1>13, <1>14 DEF TransferNext

\* The reader of XML documents and the reader of messages together implement DicoStore:
\* what is installed is exactly what the source declares, as a whole and free of conflicts,
\* and a source in error changes nothing (DicoXMLReader.cpp, Serializer.cpp:253-361).
THEOREM ReadersImplementStore == TransferSpec => BothImplementStore
<1>1. TransferInit => Received!Init
  <2> SUFFICES ASSUME TransferInit PROVE Received!Init  OBVIOUS
  <2>1. HeardDoc = NoDoc  BY HeardDocIs DEF TransferInit, Init, DocFrom
  <2> QED  BY <2>1 DEF TransferInit, Init, Received!Init
<1> QED
  BY <1>1, TransferInvAlways, TransferImplements, PTL
  DEF TransferSpec, BothImplementStore, Received!Spec

-----------------------------------------------------------------------------
(* A dictionary that is sent and taken back.                               *)

Rest(s, k) == SubSeq(s, k + 1, Len(s))

(* What every dictionary is like that a reader made, or makes of a         *)
(* message: the names lead to the definitions that bear them, and what     *)
(* dicoToMsg() writes of a definition can be read again.                   *)
SaneItem(d, j, item) == /\ j # 0 /\ (j = IdMax => IdMax \in Named(d)) /\ item.type # EMPTY
                        /\ ~Primitive(item.type) => item.default = Zero

SaneField(d, i, f) ==
  /\ f.name # NoName => i # 0 /\ IdOf(d, f.name) = i
  /\ f.type <= MESSAGE /\ (DOMAIN f.items # {} => f.type = MESSAGE)
  /\ \A j \in DOMAIN f.items : SaneItem(d, j, f.items[j])

Sane(d) == /\ NoName \in DOMAIN d.names
           /\ \A n \in DOMAIN d.names : d.names[n] = 0 <=> n = NoName
           /\ \A i \in Ids : SaneField(d, i, d.fields[i])

IntVersion(d) == AsInt(d.version) = d.version

(* The dictionary after k definitions of the message that was made of d,   *)
(* and q items of the last one.                                            *)
Place(d, k) == d.names[Listed(d)[k]]

Upto(d, k) == {Place(d, j) : j \in 1 .. k}

ItemsUpto(f, q) ==
  [j \in {Ascending(DOMAIN f.items)[p] : p \in 1 .. q} |->
     [f.items[j] EXCEPT !.default = Sent(f.items[j])]]

Part(f, q) == [name |-> f.name, type |-> f.type, items |-> ItemsUpto(f, q)]

CopiedNames(d, k) == [n \in {NoName} \cup {d.fields[i].name : i \in Upto(d, k)} |-> d.names[n]]

CopiedFields(d, k, q) ==
  [i \in Ids |-> IF k # 0 /\ i = Place(d, k) THEN Part(d.fields[i], q)
                 ELSE IF i \in Upto(d, k) THEN AsSent(d.fields[i])
                 ELSE NewField]

Copied(d, k, q) == [version |-> d.version, names |-> CopiedNames(d, k),
                    fields |-> CopiedFields(d, k, q)]

(* No two names so far have led to one definition, but to an empty one.    *)
NoneTwice(d, k) ==
  \A j, l \in 1 .. k : j # l /\ Place(d, j) = Place(d, l) => d.fields[Place(d, j)] = NewField

CopiedTo(d, k, q) ==
  /\ k \in 0 .. Len(Listed(d)) /\ q \in Nat
  /\ todo = Rest(MsgOf(d).fields, k)
  /\ k = 0 => q = 0 /\ left = <<>>
  /\ k # 0 => /\ cur = Place(d, k) /\ q <= Len(MsgOf(d).fields[k].items)
              /\ left = Rest(MsgOf(d).fields[k].items, q)
  /\ draft = Copied(d, k, q)
  /\ IdMax \notin Upto(d, k) /\ NoneTwice(d, k)

Copies(d) == IF d = NoDico THEN draft = NewDico /\ todo = <<>> /\ left = <<>>
             ELSE \E k, q \in Nat : CopiedTo(d, k, q)

Made(d) == d # NoDico => d \in Dicos /\ Sane(d) /\ IntVersion(d)

CopyInv ==
  /\ IntVersion(draft) /\ Made(dico)
  /\ heard # NoDoc => Sane(draft)
  /\ left # <<>> => draft.fields[cur].type = MESSAGE
  /\ phase = "install" /\ heard # NoDoc => todo = <<>>
  /\ outbox # NoMsg => outbox.msg = MsgOf(outbox.origin) /\ Made(outbox.origin)
  /\ own => heard # NoDoc /\ outbox # NoMsg /\ Copies(outbox.origin)

LEMMA SmallMod ==
  ASSUME NEW s \in Nat \ {0}, NEW x \in 0 .. s - 1
  PROVE  x % s = x
<1>1. PICK q, r \in Int : q = x \div s /\ r = x % s /\ x = s * q + r /\ 0 <= r /\ r < s
  OBVIOUS
<1>2. q = 0
  <2>1. ASSUME q >= 1 PROVE FALSE
    <3>1. s * q >= s  BY <2>1
    <3> QED  BY <1>1, <3>1
  <2>2. ASSUME q <= -1 PROVE FALSE
    <3>1. s * q <= -s  BY <2>2
    <3> QED  BY <1>1, <3>1
  <2> QED  BY <2>1, <2>2
<1> QED  BY <1>1, <1>2

(* Conversions change nothing that fits the variable.                      *)
LEMMA Fits ==
  /\ \A i \in Ids : AsInt(i) = i
  /\ \A n \in Int : AsInt(AsInt(n)) = AsInt(n)
  /\ \A t \in Types : AsType(t) = t
<1>1. IntSpan \in Nat \ {0} /\ IntSpan > 2 * IdMax /\ TypeSpan \in Nat \ {0} /\ TypeSpan > SEQ_MESSAGE
      /\ IdMax \in Nat
  BY TransferAssumption, ModelAssumption DEF SEQ_MESSAGE
<1>2. PICK h \in Int : h = IntSpan \div 2  BY <1>1
<1>3. 2 * h <= IntSpan /\ IntSpan <= 2 * h + 1  BY <1>1, <1>2
<1>4. ASSUME NEW x \in 0 .. IntSpan - 1 PROVE AsInt(x - h) = x - h
  <2>1. (x - h) + h = x  OBVIOUS
  <2>2. x % IntSpan = x  BY <1>1, SmallMod
  <2> QED  BY <1>2, <2>1, <2>2 DEF AsInt
<1>5. ASSUME NEW i \in Ids PROVE AsInt(i) = i
  <2>1. i + h \in 0 .. IntSpan - 1  BY <1>1, <1>3 DEF Ids
  <2>2. AsInt((i + h) - h) = (i + h) - h  BY <1>4, <2>1
  <2> QED  BY <2>2 DEF Ids
<1>6. ASSUME NEW n \in Int PROVE AsInt(AsInt(n)) = AsInt(n)
  <2>1. PICK x : x = (n + h) % IntSpan  OBVIOUS
  <2>2. x \in 0 .. IntSpan - 1  BY <1>1, <2>1
  <2>3. AsInt(n) = x - h  BY <1>2, <2>1 DEF AsInt
  <2> QED  BY <1>4, <2>2, <2>3
<1>7. ASSUME NEW t \in Types PROVE AsType(t) = t
  <2>1. t \in 0 .. TypeSpan - 1  BY <1>1 DEF Types, EMPTY, SEQ_MESSAGE
  <2> QED  BY <1>1, <2>1, SmallMod DEF AsType
<1> QED  BY <1>5, <1>6, <1>7

(* Going upwards comes to every element once.                              *)
LEMMA AscendingOnce ==
  ASSUME NEW n \in Nat, NEW S \in SUBSET (0 .. n)
  PROVE  /\ \A x \in S : \E k \in 1 .. Cardinality(S) : Ascending(S)[k] = x
         /\ \A j, k \in 1 .. Cardinality(S) : Ascending(S)[j] = Ascending(S)[k] => j = k
<1> DEFINE c == Cardinality(S)
           s == Ascending(S)
<1>1. c \in Nat /\ s \in [1 .. c -> S] /\ \A j, k \in 1 .. c : j < k => s[j] < s[k]
  BY AscendingIs
<1>2. IsFiniteSet(S)
  <2>1. IsFiniteSet(0 .. n)  BY FS_Interval
  <2> QED  BY <2>1, FS_Subset
<1> HIDE DEF s, c
<1>3. ASSUME NEW j \in 1 .. c, NEW k \in 1 .. c, s[j] = s[k] PROVE j = k
  <2>1. s[j] \in 0 .. n /\ s[k] \in 0 .. n  BY <1>1
  <2>2. j < k => s[j] < s[k]  BY <1>1
  <2>3. k < j => s[k] < s[j]  BY <1>1
  <2> QED  BY <1>1, <1>3, <2>1, <2>2, <2>3
<1>4. s \in Injection(1 .. c, S)  BY <1>1, <1>3 DEF Injection, IsInjective
<1>5. Cardinality(1 .. c) = c  BY <1>1, FS_Interval
<1>6. s \in Surjection(1 .. c, S)  BY <1>2, <1>4, <1>5, FS_Injection DEF c
<1>7. \A x \in S : \E k \in 1 .. c : s[k] = x  BY <1>6 DEF Surjection
<1> QED  BY <1>3, <1>7 DEF s, c

(* What is left of a sequence.                                             *)
LEMMA RestIs ==
  ASSUME NEW T, NEW s \in Seq(T), NEW k \in 0 .. Len(s)
  PROVE  /\ Rest(s, k) = <<>> <=> k = Len(s)
         /\ k = 0 => Rest(s, k) = s
         /\ Rest(s, k) # <<>> =>
              /\ k + 1 \in 1 .. Len(s) /\ Head(Rest(s, k)) = s[k + 1]
              /\ Tail(Rest(s, k)) = Rest(s, k + 1)
<1>1. Len(s) \in Nat  OBVIOUS
<1>2. Rest(s, k) \in Seq(T) /\ Len(Rest(s, k)) = Len(s) - k
      /\ \A i \in 1 .. Len(s) - k : Rest(s, k)[i] = s[k + i]
  BY <1>1 DEF Rest
<1>3. k = 0 => Rest(s, k) = s  BY <1>1, <1>2
<1>4. ASSUME Rest(s, k) # <<>>
      PROVE  k + 1 \in 1 .. Len(s) /\ Head(Rest(s, k)) = s[k + 1] /\ Tail(Rest(s, k)) = Rest(s, k + 1)
  <2>1. k + 1 \in 1 .. Len(s)  BY <1>1, <1>2, <1>4
  <2>2. Rest(s, k + 1) \in Seq(T) /\ Len(Rest(s, k + 1)) = Len(s) - (k + 1)
        /\ \A i \in 1 .. Len(s) - (k + 1) : Rest(s, k + 1)[i] = s[k + 1 + i]
    BY <1>1, <2>1 DEF Rest
  <2>3. Head(Rest(s, k)) = s[k + 1]  BY <1>2, <2>1
  <2>4. Tail(Rest(s, k)) \in Seq(T) /\ Len(Tail(Rest(s, k))) = Len(s) - (k + 1)
        /\ \A i \in 1 .. Len(s) - (k + 1) : Tail(Rest(s, k))[i] = Rest(s, k)[i + 1]
    BY <1>2, <1>4, <2>1
  <2> HIDE DEF Rest
  <2>5. \A i \in 1 .. Len(s) - (k + 1) : Tail(Rest(s, k))[i] = Rest(s, k + 1)[i]
    BY <1>2, <2>2, <2>4
  <2>6. Tail(Rest(s, k)) = Rest(s, k + 1)  BY <2>2, <2>4, <2>5
  <2> QED  BY <2>1, <2>3, <2>6
<1> QED  BY <1>1, <1>2, <1>3, <1>4

(* dicoToMsg() goes through all names that lead to a definition, once.     *)
LEMMA ListedIs ==
  ASSUME NEW d \in Dicos, Sane(d)
  PROVE  /\ Listed(d) \in Seq(DOMAIN d.names)
         /\ \A k \in 1 .. Len(Listed(d)) : Place(d, k) \in Ids \ {0}
         /\ \A j, k \in 1 .. Len(Listed(d)) : Listed(d)[j] = Listed(d)[k] => j = k
         /\ \A n \in DOMAIN d.names : n # NoName =>
              \E k \in 1 .. Len(Listed(d)) : Listed(d)[k] = n
<1> DEFINE places == {k \in DOMAIN NameOrder : IdOf(d, NameOrder[k]) # 0}
           c == Cardinality(places)
           up == Ascending(places)
           l == Listed(d)
<1>1. NameOrder \in Seq(Names) /\ Names = {NameOrder[k] : k \in DOMAIN NameOrder}
      /\ \A j, k \in DOMAIN NameOrder : NameOrder[j] = NameOrder[k] => j = k
  BY TransferAssumption DEF IsInjective
<1>2. Len(NameOrder) \in Nat /\ places \in SUBSET (0 .. Len(NameOrder))  BY <1>1
<1>3. c \in Nat /\ up \in [1 .. c -> places]  BY <1>2, AscendingIs
<1>4. /\ \A x \in places : \E k \in 1 .. c : up[k] = x
      /\ \A j, k \in 1 .. c : up[j] = up[k] => j = k
  BY <1>2, AscendingOnce
<1>5. l = [k \in 1 .. c |-> NameOrder[up[k]]]  BY DEF Listed
<1>6. DOMAIN d.names \subseteq Names /\ \A n \in DOMAIN d.names : d.names[n] \in Ids
      /\ (d.names[n] = 0 <=> n = NoName)
  BY DEF Dicos, Sane
<1> HIDE DEF c, up, l
<1>7. ASSUME NEW k \in 1 .. c PROVE l[k] \in DOMAIN d.names /\ d.names[l[k]] \in Ids \ {0}
  <2>1. up[k] \in places /\ l[k] = NameOrder[up[k]]  BY <1>3, <1>5
  <2> QED  BY <1>6, <2>1 DEF IdOf
<1>8. l \in Seq(DOMAIN d.names) /\ Len(l) = c
  <2>1. l \in [1 .. c -> DOMAIN d.names]  BY <1>5, <1>7
  <2> QED  BY <1>3, <2>1
<1>9. ASSUME NEW j \in 1 .. c, NEW k \in 1 .. c, l[j] = l[k] PROVE j = k
  <2>1. up[j] \in DOMAIN NameOrder /\ up[k] \in DOMAIN NameOrder
        /\ l[j] = NameOrder[up[j]] /\ l[k] = NameOrder[up[k]]
    BY <1>3, <1>5
  <2>2. up[j] = up[k]  BY <1>1, <1>9, <2>1
  <2> QED  BY <1>4, <2>2
<1>10. ASSUME NEW n \in DOMAIN d.names, n # NoName PROVE \E k \in 1 .. c : l[k] = n
  <2>1. PICK p \in DOMAIN NameOrder : NameOrder[p] = n  BY <1>1, <1>6
  <2>2. p \in places  BY <1>6, <1>10, <2>1 DEF IdOf
  <2>3. PICK k \in 1 .. c : up[k] = p  BY <1>4, <2>2
  <2> QED  BY <1>5, <2>1, <2>3
<1> QED  BY <1>7, <1>8, <1>9, <1>10 DEF l, Place

LEMMA NamedIs ==
  ASSUME NEW d \in Dicos, Sane(d)
  PROVE  /\ Upto(d, Len(Listed(d))) = Named(d)
         /\ \A k \in 0 .. Len(Listed(d)) : Upto(d, k) \subseteq Named(d)
<1> DEFINE c == Len(Listed(d))
<1>1. c \in Nat  BY ListedIs
<1>2. \A k \in 1 .. c : Place(d, k) \in Named(d)
  BY ListedIs DEF Place, Named
<1>3. ASSUME NEW n \in DOMAIN d.names, d.names[n] # 0 PROVE d.names[n] \in Upto(d, c)
  <2>1. n # NoName  BY <1>3 DEF Sane
  <2>2. PICK k \in 1 .. c : Listed(d)[k] = n  BY <2>1, ListedIs
  <2> QED  BY <2>2 DEF Upto, Place
<1>4. Named(d) \subseteq Upto(d, c)  BY <1>3 DEF Named
<1>5. \A k \in 0 .. c : Upto(d, k) \subseteq Named(d)  BY <1>1, <1>2 DEF Upto
<1>6. Upto(d, c) \subseteq Named(d)  BY <1>1, <1>5
<1>7. Upto(d, c) = Named(d)  BY <1>4, <1>6 DEF Named, Upto
<1> QED  BY <1>5, <1>7

(* What a message says of a definition.                                    *)
LEMMA FieldMsgHas ==
  ASSUME NEW d \in Dicos, NEW i \in Ids, NEW f, f = d.fields[i], NEW g, g = FieldMsg(d, i)
  PROVE  /\ g \in FieldMsgs /\ g.id = i /\ g.name = f.name /\ g.type = f.type
         /\ g.items \in Seq(ItemMsgs) /\ Len(g.items) = Cardinality(DOMAIN f.items)
         /\ \A p \in 1 .. Len(g.items) :
              g.items[p] = ItemMsg(Ascending(DOMAIN f.items)[p],
                                   f.items[Ascending(DOMAIN f.items)[p]])
<1> DEFINE ids == Ascending(DOMAIN f.items)
           items == [k \in DOMAIN ids |-> ItemMsg(ids[k], f.items[ids[k]])]
<1>1. g \in FieldMsgs  BY FieldMsgIs
<1>2. FieldOf(d, i) = f  BY DEF FieldOf
<1>3. g = [id |-> i, name |-> f.name, type |-> f.type, items |-> items]
  BY <1>2 DEF FieldMsg
<1>4. f \in FieldDefs  BY DEF Dicos
<1>5. DOMAIN f.items \in SUBSET (0 .. IdMax) /\ IdMax \in Nat
  BY <1>4, ModelAssumption DEF FieldDefs, Ids
<1>6. PICK c \in Nat : c = Cardinality(DOMAIN f.items) /\ DOMAIN ids = 1 .. c
  BY <1>5, AscendingIs
<1>7. g.items \in Seq(ItemMsgs)  BY <1>1 DEF FieldMsgs
<1> HIDE DEF ids
<1>8. DOMAIN items = 1 .. c /\ \A p \in 1 .. c : items[p] = ItemMsg(ids[p], f.items[ids[p]])
  BY <1>6
<1> HIDE DEF items
<1>9. g.items = items /\ g.id = i /\ g.name = f.name /\ g.type = f.type  BY <1>3
<1>10. Len(g.items) = c  BY <1>6, <1>7, <1>8, <1>9
<1> QED  BY <1>1, <1>6, <1>7, <1>8, <1>9, <1>10 DEF ids

LEMMA MsgOfHas ==
  ASSUME NEW d \in Dicos, d # NoDico, Sane(d), NEW m, m = MsgOf(d)
  PROVE  /\ m.version = d.version
         /\ m.fields \in Seq(FieldMsgs) /\ Len(m.fields) = Len(Listed(d))
         /\ \A k \in 1 .. Len(Listed(d)) : m.fields[k] = FieldMsg(d, Place(d, k))
<1> DEFINE l == Listed(d)
           fields == [k \in DOMAIN l |-> FieldMsg(d, d.names[l[k]])]
<1>1. m.version = d.version /\ m.fields = fields  BY DEF MsgOf
<1>2. m.fields \in Seq(FieldMsgs)
  <2>1. m \in Msgs  BY MsgOfIs
  <2> QED  BY <2>1 DEF Msgs
<1>3. DOMAIN l = 1 .. Len(l) /\ Len(l) \in Nat  BY ListedIs
<1>4. DOMAIN fields = 1 .. Len(l)  BY <1>3
<1>5. \A k \in 1 .. Len(l) : fields[k] = FieldMsg(d, Place(d, k))  BY <1>3 DEF Place
<1> HIDE DEF fields, l
<1>6. Len(m.fields) = Len(l)  BY <1>1, <1>2, <1>3, <1>4
<1> QED  BY <1>1, <1>2, <1>5, <1>6 DEF l

(* The items that were read so far grow by one.                            *)
LEMMA ItemsUptoIs ==
  ASSUME NEW f \in FieldDefs, NEW c, c = Cardinality(DOMAIN f.items),
         NEW ids, ids = Ascending(DOMAIN f.items)
  PROVE  /\ c \in Nat /\ ids \in [1 .. c -> DOMAIN f.items]
         /\ ItemsUpto(f, 0) = NoItems
         /\ Part(f, c) = AsSent(f)
         /\ \A q \in Nat : q + 1 \in 1 .. c =>
              /\ ids[q + 1] \notin DOMAIN ItemsUpto(f, q)
              /\ ItemsUpto(f, q + 1)
                   = Put(ItemsUpto(f, q), ids[q + 1],
                         [f.items[ids[q + 1]] EXCEPT !.default = Sent(f.items[ids[q + 1]])])
<1>1. DOMAIN f.items \in SUBSET (0 .. IdMax) /\ IdMax \in Nat
  BY ModelAssumption DEF FieldDefs, Ids
<1>2. c \in Nat /\ ids \in [1 .. c -> DOMAIN f.items]  BY <1>1, AscendingIs
<1>3. /\ \A x \in DOMAIN f.items : \E k \in 1 .. c : ids[k] = x
      /\ \A j, k \in 1 .. c : ids[j] = ids[k] => j = k
  BY <1>1, AscendingOnce
<1> DEFINE J(q) == {ids[p] : p \in 1 .. q}
           sent(j) == [f.items[j] EXCEPT !.default = Sent(f.items[j])]
<1>4. \A q : ItemsUpto(f, q) = [j \in J(q) |-> sent(j)]  BY DEF ItemsUpto
<1>5. J(0) = {}  OBVIOUS
<1>6. J(c) = DOMAIN f.items  BY <1>2, <1>3
<1>7. ASSUME NEW q \in Nat, q + 1 \in 1 .. c
      PROVE  J(q + 1) = J(q) \cup {ids[q + 1]} /\ ids[q + 1] \notin J(q)
  <2>1. \A p \in 1 .. q : p \in 1 .. c /\ p # q + 1  BY <1>2, <1>7
  <2>2. 1 .. q + 1 = (1 .. q) \cup {q + 1}  OBVIOUS
  <2> QED  BY <1>3, <1>7, <2>1, <2>2
<1> HIDE DEF J, sent
<1>8. ItemsUpto(f, 0) = NoItems  BY <1>4, <1>5 DEF NoItems
<1>9. Part(f, c) = AsSent(f)
  <2>1. ItemsUpto(f, c) = [j \in DOMAIN f.items |-> sent(j)]  BY <1>4, <1>6
  <2>2. f = [name |-> f.name, type |-> f.type, items |-> f.items]  BY DEF FieldDefs
  <2>3. AsSent(f) = [f EXCEPT !.items = [j \in DOMAIN f.items |-> sent(j)]]
    BY DEF AsSent, sent
  <2> QED  BY <2>1, <2>2, <2>3 DEF Part
<1>10. ASSUME NEW q \in Nat, q + 1 \in 1 .. c
       PROVE  /\ ids[q + 1] \notin DOMAIN ItemsUpto(f, q)
              /\ ItemsUpto(f, q + 1) = Put(ItemsUpto(f, q), ids[q + 1], sent(ids[q + 1]))
  <2>1. ItemsUpto(f, q) = [j \in J(q) |-> sent(j)] /\ ItemsUpto(f, q + 1) = [j \in J(q + 1) |-> sent(j)]
    BY <1>4
  <2>2. J(q + 1) = J(q) \cup {ids[q + 1]} /\ ids[q + 1] \notin J(q)  BY <1>7, <1>10
  <2> QED  BY <2>1, <2>2 DEF Put
<1> QED  BY <1>2, <1>8, <1>9, <1>10 DEF sent

(* What readers make can be sent.                                          *)
LEMMA SaneNothing ==
  ASSUME NEW v \in Int, NEW d, d = [NewDico EXCEPT !.version = v]
  PROVE  Sane(d) /\ (AsInt(v) = v => IntVersion(d))
<1>1. d = [version |-> v, names |-> [n \in {NoName} |-> 0], fields |-> [i \in Ids |-> NewField]]
  BY DEF NewDico
<1>2. \A i \in Ids : SaneField(d, i, NewField)
  BY DEF SaneField, NewField, NoItems, EMPTY, MESSAGE
<1>3. Sane(d)  BY <1>1, <1>2 DEF Sane
<1>4. d.version = v  BY <1>1
<1> QED  BY <1>3, <1>4 DEF IntVersion

LEMMA AddFieldSane ==
  ASSUME NEW d \in Dicos, Sane(d), NEW id \in Ids \ {0}, NEW name \in Names,
         NEW type \in Types, type <= MESSAGE, IdOf(d, name) = 0, d.fields[id].type = EMPTY,
         NEW e, e = AddField(d, id, name, type)
  PROVE  /\ Sane(e) /\ e.version = d.version /\ e \in Dicos
         /\ e.names = IF name \in DOMAIN d.names THEN d.names ELSE Put(d.names, name, id)
         /\ e.fields = [d.fields EXCEPT ![id] = [name |-> name, type |-> type, items |-> NoItems]]
<1> DEFINE f == [name |-> name, type |-> type, items |-> d.fields[id].items]
<1>1. /\ e \in Dicos
      /\ e = [version |-> d.version,
              names   |-> IF name \in DOMAIN d.names THEN d.names ELSE Put(d.names, name, id),
              fields  |-> [d.fields EXCEPT ![id] = f]]
  BY AddFieldIs
<1>2. d.fields \in [Ids -> FieldDefs] /\ \A n \in DOMAIN d.names : d.names[n] \in Ids
  BY DEF Dicos
<1>3. \A i \in Ids : SaneField(d, i, d.fields[i])  BY DEF Sane
<1>4. d.fields[id].items = NoItems
  <2>1. SaneField(d, id, d.fields[id])  BY <1>3
  <2>2. DOMAIN d.fields[id].items = {}  BY <2>1 DEF SaneField, EMPTY, MESSAGE
  <2>3. d.fields[id] \in FieldDefs  BY <1>2
  <2>4. PICK K \in SUBSET Ids : d.fields[id].items \in [K -> ItemSets]  BY <2>3 DEF FieldDefs
  <2> QED  BY <2>2, <2>4 DEF NoItems
<1> HIDE DEF f
<1>5. e.names = (IF name \in DOMAIN d.names THEN d.names ELSE Put(d.names, name, id))
      /\ e.fields = [d.fields EXCEPT ![id] = f] /\ e.version = d.version
  BY <1>1
<1>6. /\ NoName \in DOMAIN d.names
      /\ \A n \in DOMAIN d.names : d.names[n] = 0 <=> n = NoName
  BY DEF Sane
<1>7. name \in DOMAIN d.names => name = NoName  BY <1>6 DEF IdOf
<1>8. /\ DOMAIN d.names \subseteq DOMAIN e.names /\ \A n \in DOMAIN d.names : e.names[n] = d.names[n]
      /\ name \in DOMAIN e.names /\ DOMAIN e.names \subseteq DOMAIN d.names \cup {name}
      /\ name # NoName => e.names[name] = id
  BY <1>5, <1>6, <1>7 DEF Put
<1>9. \A n \in DOMAIN e.names : e.names[n] = 0 <=> n = NoName
  BY <1>6, <1>7, <1>8
<1>10. Named(d) \subseteq Named(e)  BY <1>8 DEF Named
<1>11. ASSUME NEW i \in Ids, i # id PROVE SaneField(e, i, e.fields[i])
  <2>1. SaneField(d, i, d.fields[i]) /\ e.fields[i] = d.fields[i]  BY <1>2, <1>3, <1>5, <1>11
  <2>2. ASSUME d.fields[i].name # NoName PROVE i # 0 /\ IdOf(e, d.fields[i].name) = i
    <3>1. i # 0 /\ IdOf(d, d.fields[i].name) = i  BY <2>1, <2>2 DEF SaneField
    <3> QED  BY <1>8, <3>1 DEF IdOf
  <2>3. \A j \in DOMAIN d.fields[i].items : SaneItem(e, j, d.fields[i].items[j])
    BY <1>10, <2>1 DEF SaneField, SaneItem
  <2> QED  BY <2>1, <2>2, <2>3 DEF SaneField
<1>12. SaneField(e, id, e.fields[id])
  <2>1. e.fields[id] = f  BY <1>2, <1>5
  <2>2. f.name = name /\ f.type = type /\ f.items = NoItems  BY <1>4 DEF f
  <2>3. name # NoName => IdOf(e, name) = id  BY <1>8 DEF IdOf
  <2> QED  BY <2>1, <2>2, <2>3 DEF SaneField, NoItems
<1>13. Sane(e)  BY <1>6, <1>8, <1>9, <1>11, <1>12 DEF Sane
<1> QED  BY <1>1, <1>4, <1>5, <1>13 DEF f

LEMMA AddItemSane ==
  ASSUME NEW d \in Dicos, Sane(d), NEW msg \in Ids, d.fields[msg].type = MESSAGE,
         NEW id \in Ids \ {0, IdMax}, NEW type \in Types \ {EMPTY},
         NEW required \in BOOLEAN, NEW default \in Defaults,
         NEW e, e = AddItem(d, msg, id, type, required, default),
         NEW item, item = [type |-> type, required |-> required,
                           default |-> IF Primitive(type) THEN default ELSE Zero]
  PROVE  Sane(e) /\ e \in Dicos /\ e = WithItem(d, msg, id, item)
<1>1. e \in Dicos /\ e = WithItem(d, msg, id, item)  BY AddItemIs
<1> DEFINE f == [name |-> d.fields[msg].name, type |-> d.fields[msg].type,
                 items |-> Put(d.fields[msg].items, id, item)]
<1>2. d.fields \in [Ids -> FieldDefs]  BY DEF Dicos
<1>3. e.names = d.names /\ e.fields = [d.fields EXCEPT ![msg] = f]  BY <1>1 DEF WithItem
<1>4. \A i \in Ids : SaneField(d, i, d.fields[i])  BY DEF Sane
<1>5. \A j, x : SaneItem(d, j, x) => SaneItem(e, j, x)  BY <1>3 DEF SaneItem, Named
<1>6. \A n : IdOf(e, n) = IdOf(d, n)  BY <1>3 DEF IdOf
<1>7. SaneItem(e, id, item)  BY DEF SaneItem
<1>8. f.name = d.fields[msg].name /\ f.type = MESSAGE /\ f.items = Put(d.fields[msg].items, id, item)
  OBVIOUS
<1> HIDE DEF f
<1>9. ASSUME NEW i \in Ids PROVE SaneField(e, i, e.fields[i])
  <2>1. SaneField(d, i, d.fields[i])  BY <1>4
  <2>2. CASE i # msg
    <3>1. e.fields[i] = d.fields[i]  BY <1>2, <1>3, <2>2
    <3> QED  BY <1>5, <1>6, <2>1, <3>1 DEF SaneField
  <2>3. CASE i = msg
    <3>1. e.fields[i] = f  BY <1>2, <1>3, <2>3
    <3>2. \A j \in DOMAIN f.items : SaneItem(e, j, f.items[j])
      BY <1>5, <1>7, <1>8, <2>1, <2>3 DEF SaneField, Put
    <3> QED  BY <1>6, <1>8, <2>1, <2>3, <3>1, <3>2 DEF SaneField, MESSAGE
  <2> QED  BY <2>2, <2>3
<1>10. Sane(e)  BY <1>3, <1>9 DEF Sane
<1> QED  BY <1>1, <1>10

LEMMA XmlIsSane ==
  ASSUME NEW r, NEW d \in Dicos, XmlOK(r, d)
  PROVE  Sane(d) /\ d.version = r.version
<1> DEFINE S == XmlDoc(r, TRUE)
<1>1. S.defs = r.defs /\ S.items = {ResolvedIn(r.defs, x) : x \in r.items} /\ S.version = r.version
  BY DEF XmlDoc
<1>2. Kept(S, d)  BY DEF XmlOK
<1> HIDE DEF S
<1>3. MeansAs(S, d)  BY <1>2, MeaningIs DEF Kept
<1>4. ASSUME NEW e \in S.defs
      PROVE  /\ e.id \in Ids \ {0} /\ e.type \in BOOL .. MESSAGE
             /\ d.fields[e.id].name = e.name /\ d.fields[e.id].type = e.type
             /\ d.fields[e.id].items = Received!ItemsOf(S, e.id)
             /\ e.name # NoName => e.name \in DOMAIN d.names /\ d.names[e.name] = e.id
  <2>1. e.id \in Ids \ {0} /\ e.type \in BOOL .. MESSAGE
    BY <1>2, StoreNames DEF Kept, Received!Valid
  <2>2. d.fields[e.id] = [name |-> e.name, type |-> e.type, items |-> Received!ItemsOf(S, e.id)]
    BY <1>3 DEF MeansAs
  <2>3. e.name # NoName => e.name \in DOMAIN d.names /\ d.names[e.name] = e.id
    BY <1>3 DEF MeansAs
  <2> QED  BY <2>1, <2>2, <2>3
<1>5. ASSUME NEW y \in S.items PROVE SaneItem(d, y.id, [type |-> y.type, required |-> y.required, default |-> y.default])
  <2>1. PICK x \in r.items : y = ResolvedIn(r.defs, x)  BY <1>1
  <2>2. PICK f \in r.defs : f.name = x.elt.name /\ f.name # NoName  BY DEF XmlOK
  <2>3. \A g \in r.defs : g.name = f.name => g = f
    BY <1>1, <1>2, <2>2 DEF Kept, Received!Valid
  <2>4. PICK t : t = IF x.elt.repeated THEN SetSequence(f.type) ELSE f.type  OBVIOUS
  <2>5. y = [msg |-> x.msg, id |-> f.id, type |-> t, required |-> x.elt.required,
             default |-> IF Primitive(t) THEN x.elt.default ELSE Zero]
    BY <2>1, <2>2, <2>3, <2>4, ResolvedIs
  <2>6. f.id \in Ids \ {0} /\ f.type \in BOOL .. MESSAGE /\ f.id \in Named(d)
    BY <1>1, <1>4, <2>2 DEF Named
  <2>7. t # EMPTY  BY <2>4, <2>6 DEF SetSequence, BOOL, MESSAGE, EMPTY, SEQ_DELTA
  <2>8. y.id = f.id /\ y.type = t /\ (~Primitive(t) => y.default = Zero)  BY <2>5
  <2> QED  BY <2>6, <2>7, <2>8 DEF SaneItem
<1>6. ASSUME NEW i \in Ids PROVE SaneField(d, i, d.fields[i])
  <2>1. CASE \A e \in S.defs : e.id # i
    <3>1. d.fields[i] = NewField  BY <1>3, <2>1 DEF MeansAs
    <3> QED  BY <3>1 DEF SaneField, NewField, NoItems, EMPTY, MESSAGE
  <2>2. ASSUME NEW e \in S.defs, e.id = i PROVE SaneField(d, i, d.fields[i])
    <3> DEFINE items == Received!ItemsOf(S, i)
    <3>1. ItemsAs(S, i, items)  BY <1>2, ItemsOfIs DEF Kept
    <3>2. d.fields[i].name = e.name /\ d.fields[i].type = e.type /\ d.fields[i].items = items
          /\ e.type \in BOOL .. MESSAGE
      BY <1>4, <2>2
    <3> HIDE DEF items
    <3>3. ASSUME NEW j \in DOMAIN items PROVE SaneItem(d, j, items[j])
      <4>1. PICK y \in S.items : y.msg = i /\ y.id = j  BY <3>1 DEF ItemsAs
      <4>2. items[j] = [type |-> y.type, required |-> y.required, default |-> y.default]
        BY <3>1, <4>1 DEF ItemsAs
      <4> QED  BY <1>5, <4>1, <4>2
    <3>4. DOMAIN items # {} => e.type = MESSAGE
      <4>1. \A x \in S.items : \E f \in S.defs : f.id = x.msg /\ f.type = MESSAGE
        BY <1>2, StoreNames DEF Kept, Received!Valid
      <4>2. \A f \in S.defs : f.id = i => f = e  BY <1>2, <2>2 DEF Kept, Received!Valid
      <4> QED  BY <3>1, <4>1, <4>2 DEF ItemsAs
    <3>5. e.name # NoName => i # 0 /\ IdOf(d, e.name) = i  BY <1>4, <2>2 DEF IdOf
    <3>6. e.type <= MESSAGE  BY <3>2 DEF BOOL, MESSAGE
    <3> QED  BY <3>2, <3>3, <3>4, <3>5, <3>6 DEF SaneField
  <2> QED  BY <2>1, <2>2
<1>7. NoName \in DOMAIN d.names /\ d.names[NoName] = 0  BY <1>3 DEF MeansAs
<1>8. ASSUME NEW n \in DOMAIN d.names, n # NoName PROVE d.names[n] # 0
  <2>1. PICK e \in S.defs : e.name = n /\ d.names[n] = e.id  BY <1>3, <1>8, NamesOfDefs
  <2> QED  BY <1>4, <2>1
<1>9. d.version = r.version  BY <1>1, <1>3 DEF MeansAs
<1> QED  BY <1>6, <1>7, <1>8, <1>9 DEF Sane

(* How the copy grows.                                                     *)
LEMMA UptoIs ==
  ASSUME NEW d, NEW k \in Nat
  PROVE  /\ Upto(d, 0) = {} /\ Upto(d, k + 1) = Upto(d, k) \cup {Place(d, k + 1)}
         /\ k # 0 => Place(d, k) \in Upto(d, k)
<1>1. 1 .. 0 = {} /\ 1 .. k + 1 = (1 .. k) \cup {k + 1}  OBVIOUS
<1>2. Upto(d, 0) = {}  BY <1>1 DEF Upto
<1>3. Upto(d, k + 1) = Upto(d, k) \cup {Place(d, k + 1)}  BY <1>1 DEF Upto
<1>4. k # 0 => k \in 1 .. k  OBVIOUS
<1> QED  BY <1>2, <1>3, <1>4 DEF Upto

Whole(d, k) == [i \in Ids |-> IF i \in Upto(d, k) THEN AsSent(d.fields[i]) ELSE NewField]

(* All items of the last definition were read.                             *)
ItemsDone(d, k, q) == k # 0 => q = Cardinality(DOMAIN d.fields[Place(d, k)].items)

LEMMA WholeIs ==
  ASSUME NEW d \in Dicos, NEW k \in Nat, k # 0 => Place(d, k) \in Ids, NEW q, ItemsDone(d, k, q)
  PROVE  CopiedFields(d, k, q) = Whole(d, k)
<1>1. CASE k = 0  BY <1>1 DEF CopiedFields, Whole
<1>2. CASE k # 0
  <2>1. d.fields[Place(d, k)] \in FieldDefs  BY <1>2 DEF Dicos
  <2>2. Part(d.fields[Place(d, k)], q) = AsSent(d.fields[Place(d, k)])
    BY <1>2, <2>1, ItemsUptoIs DEF ItemsDone
  <2>3. Place(d, k) \in Upto(d, k)  BY <1>2, UptoIs
  <2> QED  BY <2>2, <2>3 DEF CopiedFields, Whole
<1> QED  BY <1>1, <1>2

LEMMA CopyStarts ==
  ASSUME NEW d \in Dicos, Sane(d)
  PROVE  Copied(d, 0, 0) = [NewDico EXCEPT !.version = d.version]
<1>1. Upto(d, 0) = {}  BY UptoIs
<1>2. CopiedNames(d, 0) = [n \in {NoName} |-> 0]
  <2>1. {d.fields[i].name : i \in Upto(d, 0)} = {}  BY <1>1
  <2>2. d.names[NoName] = 0  BY DEF Sane
  <2> QED  BY <2>1, <2>2 DEF CopiedNames
<1>3. CopiedFields(d, 0, 0) = [i \in Ids |-> NewField]  BY <1>1 DEF CopiedFields
<1>4. Copied(d, 0, 0) = [version |-> d.version, names |-> [n \in {NoName} |-> 0],
                         fields |-> [i \in Ids |-> NewField]]
  BY <1>2, <1>3 DEF Copied
<1> QED  BY <1>4 DEF NewDico

LEMMA CopyEnds ==
  ASSUME NEW d \in Dicos, Sane(d), NEW k, k = Len(Listed(d)), NEW q, ItemsDone(d, k, q),
         IdMax \notin Upto(d, k), NoneTwice(d, k)
  PROVE  TakenBack(d) /\ Copied(d, k, q) = ReadBack(d)
<1>1. k \in Nat /\ (k # 0 => Place(d, k) \in Ids)  BY ListedIs
<1>2. Upto(d, k) = Named(d)  BY NamedIs
<1>3. CopiedFields(d, k, q) = Whole(d, k)  BY <1>1, WholeIs
<1>4. Copied(d, k, q) = ReadBack(d)
  BY <1>2, <1>3 DEF Copied, ReadBack, CopiedNames, Whole
<1>5. ASSUME NEW n1 \in DOMAIN d.names, NEW n2 \in DOMAIN d.names, n1 # n2,
             d.names[n1] = d.names[n2]
      PROVE  d.fields[d.names[n1]] = NewField
  <2>1. n1 # NoName /\ n2 # NoName  BY <1>5 DEF Sane
  <2>2. PICK j \in 1 .. k : Listed(d)[j] = n1  BY <2>1, ListedIs
  <2>3. PICK l \in 1 .. k : Listed(d)[l] = n2  BY <2>1, ListedIs
  <2>4. Place(d, j) = d.names[n1] /\ Place(d, l) = d.names[n2] /\ j # l
    BY <1>5, <2>2, <2>3 DEF Place
  <2> QED  BY <1>5, <2>4 DEF NoneTwice
<1> QED  BY <1>2, <1>4, <1>5 DEF TakenBack

(* The names in the copy are those of the definitions in it.               *)
LEMMA CopiedNameIs ==
  ASSUME NEW d \in Dicos, Sane(d), NEW k \in 0 .. Len(Listed(d)), NEW e, e.names = CopiedNames(d, k)
  PROVE  /\ IdOf(e, NoName) = 0
         /\ \A i \in Upto(d, k) : d.fields[i].name # NoName => IdOf(e, d.fields[i].name) = i
         /\ \A i \in Named(d) : LET x == d.fields[i].name IN
              x # NoName /\ IdOf(e, x) # 0 => i \in Upto(d, k)
<1>1. \A i \in Named(d) : i \in Ids \ {0}  BY DEF Named, Dicos
<1>2. Upto(d, k) \subseteq Named(d)  BY NamedIs
<1>3. \A i \in Named(d) : d.fields[i].name # NoName =>
        d.fields[i].name \in DOMAIN d.names /\ d.names[d.fields[i].name] = i
  BY <1>1 DEF Sane, SaneField, IdOf
<1>4. DOMAIN e.names = {NoName} \cup {d.fields[i].name : i \in Upto(d, k)}
      /\ \A n \in DOMAIN e.names : e.names[n] = d.names[n]
  BY DEF CopiedNames
<1>5. IdOf(e, NoName) = 0  BY <1>4 DEF IdOf, Sane
<1>6. \A i \in Upto(d, k) : d.fields[i].name # NoName => IdOf(e, d.fields[i].name) = i
  BY <1>2, <1>3, <1>4 DEF IdOf
<1>7. ASSUME NEW i \in Named(d), d.fields[i].name # NoName, IdOf(e, d.fields[i].name) # 0
      PROVE  i \in Upto(d, k)
  <2>1. d.fields[i].name \in DOMAIN e.names  BY <1>7 DEF IdOf
  <2>2. PICK j \in Upto(d, k) : d.fields[j].name = d.fields[i].name  BY <1>4, <1>7, <2>1
  <2>3. j = i  BY <1>2, <1>3, <1>7, <2>2
  <2> QED  BY <2>2, <2>3
<1> QED  BY <1>5, <1>6, <1>7

(* A definition is refused only if the dictionary is.                      *)
Acceptable(e, f, i) == i < IdMax /\ ~NameTaken(e, f.name) /\ ~IdTaken(e, i)

LEMMA DefinitionAccepted ==
  ASSUME NEW d \in Dicos, Sane(d), TakenBack(d), NEW k \in 0 .. Len(Listed(d)) - 1,
         NEW i, i = Place(d, k + 1),
         NEW e, e.names = CopiedNames(d, k), e.fields = Whole(d, k)
  PROVE  Acceptable(e, d.fields[i], i)
<1>1. k + 1 \in 1 .. Len(Listed(d)) /\ k \in 0 .. Len(Listed(d)) /\ k \in Nat  BY ListedIs
<1>2. i \in Ids \ {0} /\ i \in Named(d)
  BY <1>1, ListedIs DEF Place, Named
<1>3. i < IdMax  BY <1>2, ModelAssumption DEF TakenBack, Ids
<1>4. ASSUME i \in Upto(d, k) PROVE d.fields[i] = NewField
  <2>1. PICK j \in 1 .. k : Place(d, j) = i  BY <1>4 DEF Upto
  <2>2. j \in 1 .. Len(Listed(d)) /\ j # k + 1  BY <1>1
  <2>3. Listed(d)[j] # Listed(d)[k + 1]  BY <1>1, <2>2, ListedIs
  <2>4. Listed(d)[j] \in DOMAIN d.names /\ Listed(d)[k + 1] \in DOMAIN d.names
    BY <1>1, <2>2, ListedIs
  <2> QED  BY <2>1, <2>3, <2>4 DEF TakenBack, Place
<1>5. ~NameTaken(e, d.fields[i].name)
  <2> SUFFICES ASSUME IdOf(e, d.fields[i].name) # 0 PROVE FALSE  BY DEF NameTaken
  <2>1. d.fields[i].name # NoName  BY <1>1, CopiedNameIs
  <2>2. i \in Upto(d, k)  BY <1>1, <1>2, <2>1, CopiedNameIs
  <2> QED  BY <1>4, <2>1, <2>2 DEF NewField
<1>6. ~IdTaken(e, i)
  <2>1. CASE i \in Upto(d, k)
    <3>1. e.fields[i] = AsSent(NewField)  BY <1>2, <1>4, <2>1 DEF Whole
    <3> QED  BY <3>1 DEF IdTaken, AsSent, NewField
  <2>2. CASE i \notin Upto(d, k)
    <3>1. e.fields[i] = NewField  BY <1>2, <2>2 DEF Whole
    <3> QED  BY <3>1 DEF IdTaken, NewField
  <2> QED  BY <2>1, <2>2
<1> QED  BY <1>3, <1>5, <1>6 DEF Acceptable

LEMMA DefinitionCopied ==
  ASSUME NEW d \in Dicos, Sane(d), NEW k \in 0 .. Len(Listed(d)) - 1,
         NEW i, i = Place(d, k + 1), NEW f, f = d.fields[i],
         NEW e \in Dicos, Sane(e), e.version = d.version,
         e.names = CopiedNames(d, k), e.fields = Whole(d, k),
         Acceptable(e, f, i), IdMax \notin Upto(d, k), NoneTwice(d, k)
  PROVE  /\ AddField(e, i, f.name, f.type) = Copied(d, k + 1, 0)
         /\ IdMax \notin Upto(d, k + 1) /\ NoneTwice(d, k + 1)
<1>1. k + 1 \in 1 .. Len(Listed(d)) /\ k \in 0 .. Len(Listed(d)) /\ k \in Nat  BY ListedIs
<1>2. i \in Ids \ {0} /\ i \in Named(d)
  BY <1>1, ListedIs DEF Place, Named
<1>3. f \in FieldDefs /\ f.name \in Names /\ f.type \in Types
      /\ f = [name |-> f.name, type |-> f.type, items |-> f.items]
  BY <1>2 DEF Dicos, FieldDefs
<1>4. SaneField(d, i, f)  BY <1>2 DEF Sane
<1>5. Upto(d, k + 1) = Upto(d, k) \cup {i}  BY <1>1, UptoIs
<1>6. i < IdMax /\ IdOf(e, f.name) = 0 /\ e.fields[i].type = EMPTY
  BY DEF Acceptable, NameTaken, IdTaken
<1>7. ASSUME i \in Upto(d, k) PROVE f = NewField
  <2>1. f.name = NoName  BY <1>1, <1>2, <1>6, <1>7, CopiedNameIs
  <2>2. e.fields[i] = AsSent(f)  BY <1>2, <1>7 DEF Whole
  <2>3. f.type = EMPTY  BY <1>3, <1>6, <2>2 DEF AsSent
  <2>4. DOMAIN f.items = {}  BY <1>4, <2>3 DEF SaneField, EMPTY, MESSAGE
  <2>5. PICK K \in SUBSET Ids : f.items \in [K -> ItemSets]  BY <1>3 DEF FieldDefs
  <2>6. f.items = NoItems  BY <2>4, <2>5 DEF NoItems
  <2> QED  BY <1>3, <2>1, <2>3, <2>6 DEF NewField
<1>8. NoneTwice(d, k + 1)
  <2> SUFFICES ASSUME NEW j \in 1 .. k + 1, NEW l \in 1 .. k + 1, j # l, Place(d, j) = Place(d, l)
               PROVE  d.fields[Place(d, j)] = NewField
    BY DEF NoneTwice
  <2>1. CASE j = k + 1
    <3>1. l \in 1 .. k  BY <1>1, <2>1
    <3>2. i \in Upto(d, k)  BY <2>1, <3>1 DEF Upto
    <3> QED  BY <1>7, <2>1, <3>2
  <2>2. CASE l = k + 1
    <3>1. j \in 1 .. k  BY <1>1, <2>2
    <3>2. i \in Upto(d, k)  BY <2>2, <3>1 DEF Upto
    <3> QED  BY <1>7, <2>2, <3>2
  <2>3. CASE j # k + 1 /\ l # k + 1
    <3>1. j \in 1 .. k /\ l \in 1 .. k  BY <1>1, <2>3
    <3> QED  BY <3>1 DEF NoneTwice
  <2> QED  BY <2>1, <2>2, <2>3
<1>9. IdMax \notin Upto(d, k + 1)
  BY <1>2, <1>5, <1>6, ModelAssumption DEF Ids
<1> DEFINE n == AddField(e, i, f.name, f.type)
<1>10. /\ n \in Dicos /\ n.version = e.version
       /\ n.names = IF f.name \in DOMAIN e.names THEN e.names ELSE Put(e.names, f.name, i)
       /\ n.fields = [e.fields EXCEPT ![i] = [name |-> f.name, type |-> f.type, items |-> NoItems]]
  <2>1. f.type <= MESSAGE  BY <1>4 DEF SaneField
  <2> QED  BY <1>2, <1>3, <1>6, <2>1, AddFieldSane
<1> HIDE DEF n
<1>11. n.names = CopiedNames(d, k + 1)
  <2> DEFINE D == {NoName} \cup {d.fields[j].name : j \in Upto(d, k)}
  <2>1. CopiedNames(d, k) = [x \in D |-> d.names[x]]  BY DEF CopiedNames
  <2>2. CopiedNames(d, k + 1) = [x \in D \cup {f.name} |-> d.names[x]]
    <3>1. {d.fields[j].name : j \in Upto(d, k + 1)} = {d.fields[j].name : j \in Upto(d, k)} \cup {f.name}
      BY <1>5
    <3> QED  BY <3>1 DEF CopiedNames
  <2>3. NoName \in D  OBVIOUS
  <2> HIDE DEF D
  <2>4. CASE f.name \in D
    <3>1. D \cup {f.name} = D  BY <2>4
    <3> QED  BY <1>10, <2>1, <2>2, <2>4, <3>1
  <2>5. CASE f.name \notin D
    <3>1. d.names[f.name] = i  BY <1>2, <1>4, <2>3, <2>5 DEF SaneField, IdOf
    <3>2. n.names = Put(e.names, f.name, i)  BY <1>10, <2>1, <2>5
    <3> QED  BY <2>1, <2>2, <2>5, <3>1, <3>2 DEF Put
  <2> QED  BY <2>4, <2>5
<1>12. n.fields = CopiedFields(d, k + 1, 0)
  <2>1. Part(f, 0) = [name |-> f.name, type |-> f.type, items |-> NoItems]
    BY <1>3, ItemsUptoIs DEF Part
  <2>2. n.fields = [j \in Ids |-> IF j = i THEN Part(f, 0)
                                  ELSE IF j \in Upto(d, k) THEN AsSent(d.fields[j]) ELSE NewField]
    BY <1>2, <1>10, <2>1 DEF Whole
  <2> QED  BY <1>1, <1>5, <2>2 DEF CopiedFields
<1>13. n = [version |-> n.version, names |-> n.names, fields |-> n.fields]  BY <1>10 DEF Dicos
<1> QED  BY <1>8, <1>9, <1>10, <1>11, <1>12, <1>13 DEF n, Copied

LEMMA ItemMsgHas ==
  ASSUME NEW j, NEW x, NEW m, m = ItemMsg(j, x)
  PROVE  /\ m.id = j /\ m.type = x.type /\ m.required = x.required
         /\ m.default = IF Primitive(x.type) THEN Sent(x) ELSE Zero
<1>1. PICK v : v = IF Primitive(x.type) THEN Sent(x) ELSE Zero  OBVIOUS
<1>2. m = [id |-> j, type |-> x.type, required |-> x.required, default |-> v]
  BY <1>1 DEF ItemMsg
<1> QED  BY <1>1, <1>2

(* The item that comes next in a message, and what reading it does.        *)
ItemFits(d, f, q, j, m, item) ==
  /\ j \in Ids \ {0} /\ m.id = j
  /\ m.type \in Types \ {EMPTY} /\ AsType(m.type) = m.type
  /\ m.required \in BOOLEAN /\ m.default \in Defaults
  /\ j = IdMax => IdMax \in Named(d)
  /\ j \notin DOMAIN ItemsUpto(f, q)
  /\ Put(ItemsUpto(f, q), j, item) = ItemsUpto(f, q + 1)

LEMMA ItemAcceptedOnce ==
  ASSUME NEW d \in Dicos, Sane(d), NEW i \in Ids, NEW f, f = d.fields[i],
         NEW q \in Nat, NEW j, q + 1 \in 1 .. Cardinality(DOMAIN f.items),
         j = Ascending(DOMAIN f.items)[q + 1],
         NEW m, m = ItemMsg(j, f.items[j]),
         NEW item, item = [type |-> m.type, required |-> m.required,
                           default |-> IF Primitive(m.type) THEN m.default ELSE Zero]
  PROVE  ItemFits(d, f, q, j, m, item)
<1> DEFINE ids == Ascending(DOMAIN f.items)
           c == Cardinality(DOMAIN f.items)
<1>1. f \in FieldDefs /\ SaneField(d, i, f)  BY DEF Dicos, Sane
<1>2. /\ c \in Nat /\ ids \in [1 .. c -> DOMAIN f.items]
      /\ ids[q + 1] \notin DOMAIN ItemsUpto(f, q)
      /\ ItemsUpto(f, q + 1)
           = Put(ItemsUpto(f, q), ids[q + 1],
                 [f.items[ids[q + 1]] EXCEPT !.default = Sent(f.items[ids[q + 1]])])
  BY <1>1, ItemsUptoIs
<1> HIDE DEF ids, c
<1>3. j = ids[q + 1] /\ j \in DOMAIN f.items  BY <1>2 DEF ids, c
<1>4. j \in Ids /\ f.items[j] \in ItemSets
  <2>1. PICK K \in SUBSET Ids : f.items \in [K -> ItemSets]  BY <1>1 DEF FieldDefs
  <2> QED  BY <1>3, <2>1
<1>5. SaneItem(d, j, f.items[j])  BY <1>1, <1>3 DEF SaneField
<1>6. PICK x : x = f.items[j]  OBVIOUS
<1>7. x \in ItemSets /\ x = [type |-> x.type, required |-> x.required, default |-> x.default]
      /\ x.type \in Types /\ x.required \in BOOLEAN /\ x.default \in Defaults
  BY <1>4, <1>6 DEF ItemSets
<1>8. m = ItemMsg(j, x)  BY <1>6
<1>9. m.id = j /\ m.type = x.type /\ m.required = x.required
      /\ m.default = IF Primitive(x.type) THEN Sent(x) ELSE Zero
  BY <1>8, ItemMsgHas
<1>10. Sent(x) \in Defaults  BY <1>7, TransferAssumption DEF Sent
<1>11. ~Primitive(x.type) => Sent(x) = Zero
  BY <1>5, <1>6 DEF SaneItem, Sent, Primitive, LONG, MESSAGE
<1>12. item = [x EXCEPT !.default = Sent(x)]
  <2>1. (IF Primitive(m.type) THEN m.default ELSE Zero) = Sent(x)  BY <1>9, <1>11
  <2>2. item = [type |-> x.type, required |-> x.required, default |-> Sent(x)]  BY <1>9, <2>1
  <2>3. PICK s : s = Sent(x)  OBVIOUS
  <2>4. x \in [type : Types, required : BOOLEAN, default : Defaults]  BY <1>7 DEF ItemSets
  <2>5. [x EXCEPT !.default = s] = [type |-> x.type, required |-> x.required, default |-> s]
    BY <2>4
  <2> QED  BY <2>2, <2>3, <2>5
<1>13. m.default \in Defaults  BY <1>9, <1>10, ModelAssumption
<1>14. AsType(m.type) = m.type  BY <1>7, <1>9, Fits
<1> QED
  BY <1>2, <1>3, <1>4, <1>5, <1>6, <1>7, <1>9, <1>12, <1>13, <1>14, ZenonT(60)
  DEF SaneItem, ItemFits

LEMMA ItemCopied ==
  ASSUME NEW d \in Dicos, Sane(d), NEW k \in 1 .. Len(Listed(d)), NEW q \in Nat,
         NEW i, i = Place(d, k), NEW f, f = d.fields[i],
         q + 1 \in 1 .. Cardinality(DOMAIN f.items),
         NEW m, m = FieldMsg(d, i).items[q + 1],
         NEW e \in Dicos, e = Copied(d, k, q)
  PROVE  /\ m.id \in Ids \ {0} /\ m.type \in Types \ {EMPTY} /\ AsType(m.type) = m.type
         /\ m.id = IdMax => IdMax \in Named(d)
         /\ ~ItemTaken(e, i, m.id)
         /\ AddItem(e, i, m.id, m.type, m.required, IF Primitive(m.type) THEN m.default ELSE Zero)
              = Copied(d, k, q + 1)
<1>1. k \in Nat /\ k # 0 /\ i \in Ids \ {0}  BY ListedIs
<1>2. PICK j : j = Ascending(DOMAIN f.items)[q + 1]  OBVIOUS
<1>3. m = ItemMsg(j, f.items[j])
  <2>1. PICK g : g = FieldMsg(d, i)  OBVIOUS
  <2>2. Len(g.items) = Cardinality(DOMAIN f.items)  BY <1>1, <2>1, FieldMsgHas
  <2>3. \A p \in 1 .. Len(g.items) :
          g.items[p] = ItemMsg(Ascending(DOMAIN f.items)[p], f.items[Ascending(DOMAIN f.items)[p]])
    BY <1>1, <2>1, FieldMsgHas
  <2> QED  BY <1>2, <2>1, <2>2, <2>3
<1>0. PICK item : item = [type |-> m.type, required |-> m.required,
                          default |-> IF Primitive(m.type) THEN m.default ELSE Zero]
  OBVIOUS
<1>4. ItemFits(d, f, q, j, m, item)  BY <1>0, <1>1, <1>2, <1>3, ItemAcceptedOnce, ZenonT(60)
<1>5. PICK default : default = IF Primitive(m.type) THEN m.default ELSE Zero  OBVIOUS
<1>6. default \in Defaults /\ item = [type |-> m.type, required |-> m.required,
                                      default |-> IF Primitive(m.type) THEN default ELSE Zero]
  BY <1>0, <1>4, <1>5, ModelAssumption DEF ItemFits
<1>7. AddItem(e, i, j, m.type, m.required, default) = WithItem(e, i, j, item)
  BY <1>1, <1>4, <1>6, AddItemIs DEF ItemFits
<1>8. e.version = d.version /\ e.names = CopiedNames(d, k) /\ e.fields = CopiedFields(d, k, q)
  BY DEF Copied
<1>9. e.fields[i] = Part(f, q)  BY <1>1, <1>8 DEF CopiedFields
<1>10. ~ItemTaken(e, i, j)  BY <1>4, <1>9 DEF ItemFits, ItemTaken, Part
<1>11. [e.fields EXCEPT ![i] = [name |-> e.fields[i].name, type |-> e.fields[i].type,
                                items |-> Put(e.fields[i].items, j, item)]]
         = CopiedFields(d, k, q + 1)
  <2>1. [name |-> e.fields[i].name, type |-> e.fields[i].type,
         items |-> Put(e.fields[i].items, j, item)] = Part(f, q + 1)
    BY <1>4, <1>9 DEF ItemFits, Part
  <2> QED  BY <1>1, <1>8, <2>1 DEF CopiedFields
<1>12. WithItem(e, i, j, item) = Copied(d, k, q + 1)
  BY <1>8, <1>11 DEF WithItem, Copied
<1> QED  BY <1>4, <1>5, <1>7, <1>10, <1>12 DEF ItemFits

-----------------------------------------------------------------------------
(* The invariant of a dictionary that is taken back: the draft is the part *)
(* of it that was read, what is left of the message is the rest.           *)

LEMMA CopyInvInit == TransferInit => CopyInv
<1> SUFFICES ASSUME TransferInit PROVE CopyInv  OBVIOUS
<1>1. NewDico.version = 0 /\ AsInt(0) = 0  BY IdsAre, Fits DEF NewDico
<1> QED  BY <1>1 DEF TransferInit, Init, CopyInv, IntVersion, Made

LEMMA Dropped ==
  ASSUME CopyInv, draft' = NewDico, heard' = NoDoc, own' = FALSE, left' = <<>>, phase' = "idle",
         UNCHANGED outbox, dico' = dico \/ (dico' = draft /\ Made(draft))
  PROVE  CopyInv'
<1>1. NewDico.version = 0 /\ AsInt(0) = 0  BY IdsAre, Fits DEF NewDico
<1>2. IntVersion(draft')  BY <1>1 DEF IntVersion
<1>3. Made(dico')  BY DEF CopyInv
<1> QED  BY <1>2, <1>3 DEF CopyInv

LEMMA MadeAtInstall ==
  ASSUME TransferInv, CopyInv, phase = "install"
  PROVE  Made(draft)
<1>1. draft \in Dicos /\ IntVersion(draft)  BY DEF TransferInv, Readers, CopyInv
<1>2. Sane(draft)
  <2>1. CASE heard # NoDoc  BY <2>1 DEF CopyInv
  <2>2. CASE read # NoDoc
    <3>1. XmlOK(read, draft)  BY <2>2 DEF TransferInv, Readers
    <3> QED  BY <1>1, <3>1, XmlIsSane
  <2> QED  BY <2>1, <2>2 DEF TransferInv, Control
<1> QED  BY <1>1, <1>2 DEF Made

LEMMA CopyXmlStep ==
  ASSUME TransferInv, TransferInv', CopyInv, ReadXml
  PROVE  CopyInv'
<1>0. heard = NoDoc /\ heard' = NoDoc /\ UNCHANGED <<outbox, todo, left, own>> /\ Next
      /\ own = FALSE /\ left = <<>>
  <2>1. heard = NoDoc /\ UNCHANGED tvars /\ Next  BY DEF ReadXml
  <2>2. phase # "received"  BY <2>1 DEF TransferInv, Control
  <2>3. left = <<>>  BY <2>2 DEF TransferInv, Messages
  <2> QED  BY <2>1, <2>3 DEF tvars, CopyInv
<1>1. ASSUME Throw PROVE CopyInv'
  BY <1>0, <1>1, Dropped DEF Throw
<1>2. CASE Install
  <2>1. Made(draft)  BY <1>2, MadeAtInstall DEF Install
  <2> QED  BY <1>0, <1>2, <2>1, Dropped DEF Install
<1>3. ASSUME UNCHANGED dico, IntVersion(draft') PROVE CopyInv'
  BY <1>0, <1>3 DEF CopyInv
<1>4. ASSUME UNCHANGED dico, read # NoDoc, read' # NoDoc,
             read'.version = read.version \/ AsInt(read'.version) = read'.version
      PROVE  CopyInv'
  <2>1. XmlOK(read, draft) /\ draft \in Dicos  BY <1>4 DEF TransferInv, Readers
  <2>2. XmlOK(read', draft') /\ draft' \in Dicos  BY <1>4 DEF TransferInv, Readers
  <2>3. draft.version = read.version  BY <2>1, XmlIsSane
  <2>4. draft'.version = read'.version  BY <2>2, XmlIsSane
  <2>5. IntVersion(draft)  BY DEF CopyInv
  <2>6. IntVersion(draft')  BY <1>4, <2>3, <2>4, <2>5 DEF IntVersion
  <2> QED  BY <1>3, <1>4, <2>6
<1>5. ASSUME read # NoDoc
      PROVE  read = [version |-> read.version, defs |-> read.defs, items |-> read.items]
  BY <1>5 DEF TransferInv, Readers, XmlOK, Declarations
<1>6. CASE Load
  <2>1. NewDico.version = 0 /\ AsInt(0) = 0  BY IdsAre, Fits DEF NewDico
  <2>2. IntVersion(draft')  BY <1>6, <2>1 DEF IntVersion, Load
  <2> QED  BY <1>3, <1>6, <2>2 DEF Load
<1>7. CASE LoadError  BY <1>1, <1>7 DEF LoadError
<1>8. ASSUME UNCHANGED <<dico, draft>> PROVE CopyInv'
  <2>1. IntVersion(draft')  BY <1>8 DEF CopyInv
  <2> QED  BY <1>3, <1>8, <2>1
<1>9. CASE EndFields \/ EndMessages  BY <1>8, <1>9 DEF EndFields, EndMessages
<1>10. CASE EndDocument  BY <1>1, <1>8, <1>10 DEF EndDocument
<1>11. CASE UnexpectedChild  BY <1>1, <1>11 DEF UnexpectedChild
<1>12. ASSUME NEW v \in Versions, ParseDicoHeader(v) PROVE CopyInv'
  <2>1. read # NoDoc  BY <1>12 DEF ParseDicoHeader, TransferInv, Control
  <2>2. CASE IntegerGiven(v)
    <3>1. AsInt(v) = v  BY <2>2, TransferAssumption DEF IntegerGiven
    <3>2. read' = [read EXCEPT !.version = v] /\ UNCHANGED dico /\ phase' = "fields"
      BY <1>12, <2>2 DEF ParseDicoHeader
    <3>3. read'.version = v  BY <1>5, <2>1, <3>2
    <3>4. read' # NoDoc  BY <3>2 DEF TransferInv, Control
    <3> QED  BY <1>4, <2>1, <3>1, <3>2, <3>3, <3>4
  <2>3. CASE ~IntegerGiven(v)  BY <1>1, <1>12, <2>3 DEF ParseDicoHeader
  <2> QED  BY <2>2, <2>3
<1>13. ASSUME NEW e, NEW type, phase \in {"fields", "messages"}, UNCHANGED <<dico, phase>>,
              \/ read' = [read EXCEPT !.defs = @ \cup {Declared(e, type)}]
              \/ read' = [read EXCEPT !.items = @ \cup {[msg |-> cur, elt |-> e]}]
       PROVE  CopyInv'
  <2>1. read # NoDoc /\ read' # NoDoc  BY <1>13 DEF TransferInv, Control
  <2>2. read'.version = read.version  BY <1>5, <1>13, <2>1
  <2> QED  BY <1>4, <1>13, <2>1, <2>2
<1>14. ASSUME NEW e \in FieldElts, ParseFieldDefElt(e) PROVE CopyInv'
  BY <1>1, <1>13, <1>14 DEF ParseFieldDefElt
<1>15. ASSUME NEW e \in MessageElts, ParseMessageDefElt(e) PROVE CopyInv'
  BY <1>1, <1>13, <1>15 DEF ParseMessageDefElt
<1>16. ASSUME NEW e \in ItemElts, ParseItem(e) PROVE CopyInv'
  BY <1>1, <1>13, <1>16 DEF ParseItem
<1> QED
  BY <1>0, <1>2, <1>6, <1>7, <1>9, <1>10, <1>11, <1>12, <1>14, <1>15, <1>16 DEF Next

(* The beginning: nothing was read yet.                                    *)
LEMMA MsgOfNoDico == MsgOf(NoDico).fields = <<>> /\ MsgOf(NoDico).version = 0
  BY DEF MsgOf

LEMMA CopyMsgToDicoStep ==
  ASSUME TransferInv, CopyInv, NEW msg \in Msgs, NEW mine \in BOOLEAN, MsgToDico(msg, mine),
         mine => outbox # NoMsg /\ msg = outbox.msg
  PROVE  CopyInv'
<1>0. phase = "idle" /\ left = <<>>
  BY DEF MsgToDico, TransferInv, Messages
<1>1. CASE ~(msg.dod /\ msg.id = DicoId)
  <2>1. Reject  BY <1>1 DEF MsgToDico
  <2> QED  BY <2>1, Dropped DEF Reject, Throw
<1>2. CASE msg.dod /\ msg.id = DicoId
  <2>1. PICK v : v = AsInt(msg.version)  OBVIOUS
  <2>2. /\ draft' = [NewDico EXCEPT !.version = v]
        /\ phase' = "received" /\ todo' = msg.fields /\ own' = mine
        /\ heard' = [Nothing EXCEPT !.version = v]
        /\ UNCHANGED <<dico, cur, read, outbox, left>>
    BY <1>2, <2>1 DEF MsgToDico
  <2>3. v \in Int /\ AsInt(v) = v  BY <2>1, AsIntIs, Fits DEF Msgs
  <2>4. Sane(draft') /\ IntVersion(draft')  BY <2>2, <2>3, SaneNothing
  <2>5. heard' # NoDoc
    <3>1. MsgOK([Nothing EXCEPT !.version = v], [NewDico EXCEPT !.version = v])
      BY <2>3, HeardNothing
    <3> QED  BY <2>2, <3>1, TransferAssumption DEF MsgOK
  <2>6. ASSUME mine PROVE Copies(outbox.origin)'
    <3>1. PICK d : d = outbox.origin  OBVIOUS
    <3>2. msg = MsgOf(d) /\ Made(d)  BY <2>6, <3>1 DEF CopyInv
    <3>3. outbox'.origin = d  BY <2>2, <3>1
    <3>4. CASE d = NoDico
      <4>1. v = 0 /\ todo' = <<>>  BY <2>1, <2>2, <3>2, <3>4, MsgOfNoDico, IdsAre, Fits
      <4>2. draft' = NewDico  BY <2>2, <4>1 DEF NewDico
      <4> QED  BY <1>0, <2>2, <3>3, <3>4, <4>1, <4>2 DEF Copies
    <3>5. CASE d # NoDico
      <4>1. d \in Dicos /\ Sane(d) /\ IntVersion(d)  BY <3>2, <3>5 DEF Made
      <4>2. msg.version = d.version /\ msg.fields \in Seq(FieldMsgs)
            /\ Len(msg.fields) = Len(Listed(d))
        BY <3>2, <3>5, <4>1, MsgOfHas
      <4>3. draft' = Copied(d, 0, 0)
        <5>1. v = d.version  BY <2>1, <4>1, <4>2 DEF IntVersion
        <5> QED  BY <2>2, <4>1, <5>1, CopyStarts
      <4>4. todo' = Rest(MsgOf(d).fields, 0)
        BY <2>2, <3>2, <4>2, RestIs
      <4>5. 0 \in 0 .. Len(Listed(d)) /\ Upto(d, 0) = {} /\ NoneTwice(d, 0)
        BY <4>1, ListedIs, UptoIs DEF NoneTwice
      <4>6. CopiedTo(d, 0, 0)'
        BY <1>0, <2>2, <4>3, <4>4, <4>5 DEF CopiedTo
      <4>7. \E k, q \in Nat : CopiedTo(d, k, q)'
        BY <4>6
      <4> QED  BY <3>3, <3>5, <4>7 DEF Copies
    <3> QED  BY <3>4, <3>5
  <2>7. Made(dico') /\ (outbox' # NoMsg => outbox'.msg = MsgOf(outbox'.origin) /\ Made(outbox'.origin))
    BY <2>2 DEF CopyInv
  <2>8. mine => outbox' # NoMsg  BY <2>2
  <2> QED  BY <1>0, <2>2, <2>4, <2>5, <2>6, <2>7, <2>8 DEF CopyInv
<1> QED  BY <1>1, <1>2

(* The next definition of a message that was made of d.                    *)
AtDefinition(d, k, i) ==
  /\ d \in Dicos /\ Sane(d) /\ d # NoDico
  /\ k \in 0 .. Len(Listed(d)) - 1 /\ i = Place(d, k + 1)
  /\ draft.version = d.version /\ draft.names = CopiedNames(d, k) /\ draft.fields = Whole(d, k)
  /\ IdMax \notin Upto(d, k) /\ NoneTwice(d, k)
  /\ Head(todo) = FieldMsg(d, i) /\ Tail(todo) = Rest(MsgOf(d).fields, k + 1)

LEMMA AllDone ==
  ASSUME NEW d \in Dicos, Sane(d), d # NoDico, NEW k \in Nat, NEW q \in Nat,
         CopiedTo(d, k, q), left = <<>>
  PROVE  ItemsDone(d, k, q)
<1> SUFFICES ASSUME k # 0 PROVE q = Cardinality(DOMAIN d.fields[Place(d, k)].items)
  BY DEF ItemsDone
<1>1. k \in 1 .. Len(Listed(d))  BY ListedIs DEF CopiedTo
<1>2. PICK i, g : i = Place(d, k) /\ g = FieldMsg(d, i)  OBVIOUS
<1>3. i \in Ids  BY <1>1, <1>2, ListedIs
<1>4. MsgOf(d).fields[k] = g  BY <1>1, <1>2, MsgOfHas
<1>5. g.items \in Seq(ItemMsgs) /\ Len(g.items) = Cardinality(DOMAIN d.fields[i].items)
  BY <1>2, <1>3, FieldMsgHas
<1>6. q <= Len(g.items) /\ Rest(g.items, q) = <<>>  BY <1>4 DEF CopiedTo
<1>7. q \in 0 .. Len(g.items)  BY <1>5, <1>6
<1>8. q = Len(g.items)  BY <1>5, <1>6, <1>7, RestIs
<1> QED  BY <1>2, <1>5, <1>8

LEMMA NextDefinition ==
  ASSUME TransferInv, CopyInv, own, left = <<>>, todo # <<>>
  PROVE  \E k \in Nat : AtDefinition(outbox.origin, k, Place(outbox.origin, k + 1))
<1>1. PICK d : d = outbox.origin  OBVIOUS
<1>2. Copies(d) /\ Made(d)  BY <1>1 DEF CopyInv
<1>3. d # NoDico /\ d \in Dicos /\ Sane(d)  BY <1>2 DEF Copies, Made
<1>4. PICK k, q \in Nat : CopiedTo(d, k, q)  BY <1>2, <1>3 DEF Copies
<1>5. draft = Copied(d, k, q) /\ todo = Rest(MsgOf(d).fields, k) /\ k \in 0 .. Len(Listed(d))
      /\ IdMax \notin Upto(d, k) /\ NoneTwice(d, k)
  BY <1>4 DEF CopiedTo
<1>6. PICK s : s = MsgOf(d).fields  OBVIOUS
<1>7. s \in Seq(FieldMsgs) /\ Len(s) = Len(Listed(d))
      /\ \A j \in 1 .. Len(Listed(d)) : s[j] = FieldMsg(d, Place(d, j))
  BY <1>3, <1>6, MsgOfHas
<1>8. k + 1 \in 1 .. Len(s) /\ Head(todo) = s[k + 1] /\ Tail(todo) = Rest(s, k + 1)
  BY <1>5, <1>6, <1>7, RestIs
<1>9. k \in 0 .. Len(Listed(d)) - 1 /\ Head(todo) = FieldMsg(d, Place(d, k + 1))
  BY <1>5, <1>7, <1>8
<1>10. draft.fields = Whole(d, k)
  <2>1. k # 0 => Place(d, k) \in Ids  BY <1>3, <1>5, ListedIs
  <2>2. ItemsDone(d, k, q)  BY <1>3, <1>4, AllDone
  <2>3. CopiedFields(d, k, q) = Whole(d, k)  BY <1>3, <2>1, <2>2, WholeIs
  <2> QED  BY <1>5, <2>3 DEF Copied
<1>11. draft.version = d.version /\ draft.names = CopiedNames(d, k)  BY <1>5 DEF Copied
<1>12. AtDefinition(d, k, Place(d, k + 1))
  BY <1>3, <1>5, <1>6, <1>8, <1>9, <1>10, <1>11 DEF AtDefinition
<1> QED  BY <1>1, <1>12

(* What addField() reads of it, and whether it throws.                     *)
ReadAs(d, i, f, g, id, type) ==
  /\ i \in Ids \ {0} /\ f \in FieldDefs /\ g = FieldMsg(d, i)
  /\ id = i /\ g.name = f.name /\ type = f.type
  /\ FieldAccepted(g, id, type) <=> Acceptable(draft, f, i)

LEMMA DefinitionRead ==
  ASSUME NEW d, NEW k \in Nat, NEW i, AtDefinition(d, k, i),
         NEW f, f = d.fields[i], NEW g, g = Head(todo), NEW id, id = AsInt(g.id),
         NEW type, type = AsType(g.type)
  PROVE  ReadAs(d, i, f, g, id, type)
<1>1. d \in Dicos /\ Sane(d) /\ k + 1 \in 1 .. Len(Listed(d)) /\ i = Place(d, k + 1)
      /\ g = FieldMsg(d, i)
  BY DEF AtDefinition
<1>2. i \in Ids \ {0}  BY <1>1, ListedIs
<1>3. f \in FieldDefs /\ SaneField(d, i, f) /\ f.type \in Types
  BY <1>1, <1>2 DEF Dicos, FieldDefs, Sane
<1>4. g.id = i /\ g.name = f.name /\ g.type = f.type /\ g.items \in Seq(ItemMsgs)
      /\ Len(g.items) = Cardinality(DOMAIN f.items)
  BY <1>1, <1>2, FieldMsgHas
<1>5. id = i /\ type = f.type  BY <1>2, <1>3, <1>4, Fits
<1>6. g.items # <<>> => type = MESSAGE
  <2> SUFFICES ASSUME g.items # <<>> PROVE f.type = MESSAGE  BY <1>5
  <2>1. Cardinality(DOMAIN f.items) # 0  BY <1>4
  <2>2. DOMAIN f.items # {}  BY <2>1, FS_EmptySet
  <2> QED  BY <1>3, <2>2 DEF SaneField
<1>7. 0 < i /\ type <= SEQ_MESSAGE /\ ~Repeated(type)
  BY <1>2, <1>3, <1>5, IdsAre DEF SaneField, Repeated, Types, EMPTY, MESSAGE, SEQ_MESSAGE
<1> QED  BY <1>1, <1>2, <1>3, <1>4, <1>5, <1>6, <1>7 DEF FieldAccepted, Acceptable, ReadAs

LEMMA CopyAddFieldStep ==
  ASSUME TransferInv, TransferInv', CopyInv, AddFieldMsg
  PROVE  CopyInv'
<1>1. PICK f, id, type : f = Head(todo) /\ id = AsInt(f.id) /\ type = AsType(f.type)  OBVIOUS
<1>2. phase = "received" /\ left = <<>> /\ todo # <<>> /\ heard # NoDoc
  BY DEF AddFieldMsg, TransferInv, Control
<1>3. CASE ~FieldAccepted(f, id, type)
  <2>1. Reject  BY <1>1, <1>3 DEF AddFieldMsg
  <2> QED  BY <2>1, Dropped DEF Reject, Throw
<1>4. CASE FieldAccepted(f, id, type)
  <2>1. /\ draft' = AddField(draft, id, f.name, type)
        /\ cur' = id /\ left' = f.items /\ todo' = Tail(todo)
        /\ UNCHANGED <<dico, phase, read, outbox, own>>
    BY <1>1, <1>4 DEF AddFieldMsg
  <2>2. f \in FieldMsgs  BY <1>1, <1>2 DEF TransferInv, Messages
  <2>3. f.id \in Int /\ f.name \in Names /\ f.type \in Nat  BY <2>2 DEF FieldMsgs
  <2>4. id \in Int /\ type \in Nat  BY <1>1, <2>3, AsIntIs
  <2>5. id \in Ids \ {0} /\ type \in Types /\ type <= MESSAGE
    BY <1>4, <2>4, ModelAssumption
    DEF FieldAccepted, Ids, Types, EMPTY, MESSAGE, SEQ_MESSAGE, Repeated
  <2>6. IdOf(draft, f.name) = 0 /\ draft.fields[id].type = EMPTY /\ (f.items # <<>> => type = MESSAGE)
    BY <1>4 DEF FieldAccepted, NameTaken, IdTaken
  <2>7. draft \in Dicos /\ Sane(draft) /\ IntVersion(draft)
    BY <1>2 DEF TransferInv, Readers, CopyInv
  <2>8. /\ Sane(draft') /\ draft'.version = draft.version
        /\ draft'.fields = [draft.fields EXCEPT ![id] = [name |-> f.name, type |-> type, items |-> NoItems]]
    BY <2>1, <2>3, <2>5, <2>6, <2>7, AddFieldSane
  <2>9. IntVersion(draft')  BY <2>7, <2>8 DEF IntVersion
  <2>10. left' # <<>> => draft'.fields[cur'].type = MESSAGE
    <3>1. draft.fields \in [Ids -> FieldDefs]  BY <2>7 DEF Dicos
    <3> QED  BY <2>1, <2>5, <2>6, <2>8, <3>1
  <2>11. heard' # NoDoc  BY <1>2, <2>1 DEF TransferInv, Control
  <2>12. ASSUME own PROVE Copies(outbox.origin)'
    <3>1. PICK d, k, i : d = outbox.origin /\ k \in Nat /\ AtDefinition(d, k, i)
      BY <1>2, <2>12, NextDefinition
    <3>2. PICK x : x = d.fields[i]  OBVIOUS
    <3>3. /\ i \in Ids \ {0} /\ x \in FieldDefs /\ f = FieldMsg(d, i)
          /\ id = i /\ f.name = x.name /\ type = x.type /\ Acceptable(draft, x, i)
      <4>1. ReadAs(d, i, x, f, id, type)  BY <1>1, <3>1, <3>2, DefinitionRead
      <4> QED  BY <1>4, <4>1 DEF ReadAs
    <3>4. /\ d \in Dicos /\ Sane(d) /\ d # NoDico
          /\ k \in 0 .. Len(Listed(d)) - 1 /\ i = Place(d, k + 1)
          /\ draft.version = d.version /\ draft.names = CopiedNames(d, k)
          /\ draft.fields = Whole(d, k)
          /\ IdMax \notin Upto(d, k) /\ NoneTwice(d, k)
          /\ Tail(todo) = Rest(MsgOf(d).fields, k + 1)
      BY <3>1 DEF AtDefinition
    <3>5. /\ AddField(draft, i, x.name, x.type) = Copied(d, k + 1, 0)
          /\ IdMax \notin Upto(d, k + 1) /\ NoneTwice(d, k + 1)
      BY <2>7, <3>2, <3>3, <3>4, DefinitionCopied
    <3>6. draft' = Copied(d, k + 1, 0)  BY <2>1, <3>3, <3>5
    <3>7. k + 1 \in 1 .. Len(Listed(d)) /\ k + 1 \in Nat /\ k + 1 # 0
      BY <3>1, <3>4, ListedIs
    <3>8. MsgOf(d).fields[k + 1] = f  BY <3>3, <3>4, <3>7, MsgOfHas
    <3>9. f.items \in Seq(ItemMsgs) /\ Len(f.items) \in Nat  BY <2>2 DEF FieldMsgs
    <3>10. left' = Rest(f.items, 0)  BY <2>1, <3>9, RestIs
    <3>11. todo' = Rest(MsgOf(d).fields, k + 1) /\ cur' = Place(d, k + 1)
      BY <2>1, <3>3, <3>4
    <3>12. CopiedTo(d, k + 1, 0)'
      <4>1. PICK h : h = k + 1  OBVIOUS
      <4>2. CopiedTo(d, h, 0)'
        BY <3>5, <3>6, <3>7, <3>8, <3>9, <3>10, <3>11, <4>1 DEF CopiedTo
      <4> QED  BY <4>1, <4>2
    <3>13. \E h, q \in Nat : CopiedTo(d, h, q)'  BY <3>7, <3>12
    <3>14. outbox'.origin = d  BY <2>1, <3>1
    <3> QED  BY <3>4, <3>13, <3>14 DEF Copies
  <2> QED  BY <1>2, <2>1, <2>8, <2>9, <2>10, <2>11, <2>12 DEF CopyInv
<1> QED  BY <1>3, <1>4

(* The next item of a message that was made of d.                          *)
AtItem(d, k, q, i) ==
  /\ d \in Dicos /\ Sane(d) /\ d # NoDico
  /\ k \in 1 .. Len(Listed(d)) /\ q \in Nat /\ i = Place(d, k) /\ cur = i
  /\ draft = Copied(d, k, q) /\ todo = Rest(MsgOf(d).fields, k)
  /\ IdMax \notin Upto(d, k) /\ NoneTwice(d, k)
  /\ q + 1 \in 1 .. Cardinality(DOMAIN d.fields[i].items)
  /\ Head(left) = FieldMsg(d, i).items[q + 1]
  /\ Tail(left) = Rest(FieldMsg(d, i).items, q + 1)

LEMMA NextItem ==
  ASSUME TransferInv, CopyInv, own, left # <<>>
  PROVE  \E k, q, i : AtItem(outbox.origin, k, q, i)
<1>1. PICK d : d = outbox.origin  OBVIOUS
<1>2. Copies(d) /\ Made(d)  BY <1>1 DEF CopyInv
<1>3. d # NoDico /\ d \in Dicos /\ Sane(d)  BY <1>2 DEF Copies, Made
<1>4. PICK k, q \in Nat : CopiedTo(d, k, q)  BY <1>2, <1>3 DEF Copies
<1>5. draft = Copied(d, k, q) /\ todo = Rest(MsgOf(d).fields, k) /\ k \in 0 .. Len(Listed(d))
      /\ IdMax \notin Upto(d, k) /\ NoneTwice(d, k) /\ k # 0
  BY <1>4 DEF CopiedTo
<1>6. k \in 1 .. Len(Listed(d))  BY <1>5
<1>7. PICK i, g : i = Place(d, k) /\ g = FieldMsg(d, i)  OBVIOUS
<1>8. i \in Ids  BY <1>3, <1>6, <1>7, ListedIs
<1>9. MsgOf(d).fields[k] = g  BY <1>3, <1>6, <1>7, MsgOfHas
<1>10. cur = i /\ q <= Len(g.items) /\ left = Rest(g.items, q)
  BY <1>4, <1>5, <1>7, <1>9 DEF CopiedTo
<1>11. g.items \in Seq(ItemMsgs) /\ Len(g.items) = Cardinality(DOMAIN d.fields[i].items)
  BY <1>3, <1>7, <1>8, FieldMsgHas
<1>12. q \in 0 .. Len(g.items)  BY <1>10, <1>11
<1>13. q + 1 \in 1 .. Len(g.items) /\ Head(left) = g.items[q + 1] /\ Tail(left) = Rest(g.items, q + 1)
  BY <1>10, <1>11, <1>12, RestIs
<1>14. AtItem(d, k, q, i)
  BY <1>3, <1>5, <1>6, <1>7, <1>10, <1>11, <1>13 DEF AtItem
<1> QED  BY <1>1, <1>14

LEMMA ItemRead ==
  ASSUME NEW d, NEW k, NEW q, NEW i, AtItem(d, k, q, i), draft \in Dicos,
         NEW m, m = Head(left), NEW type, type = AsType(m.type)
  PROVE  /\ m.id \in Ids \ {0} /\ type = m.type /\ type \in Types \ {EMPTY}
         /\ m.id = IdMax => IdMax \in Named(d)
         /\ ItemMsgAccepted(m, type) <=> m.id < IdMax
         /\ AddItem(draft, cur, m.id, type, m.required, IF Primitive(type) THEN m.default ELSE Zero)
              = Copied(d, k, q + 1)
<1>1. /\ d \in Dicos /\ Sane(d) /\ k \in 1 .. Len(Listed(d)) /\ q \in Nat
      /\ i = Place(d, k) /\ cur = i /\ draft = Copied(d, k, q)
      /\ q + 1 \in 1 .. Cardinality(DOMAIN d.fields[i].items)
      /\ m = FieldMsg(d, i).items[q + 1]
  BY DEF AtItem
<1>2. i \in Ids  BY <1>1, ListedIs
<1>3. PICK f, e : f = d.fields[i] /\ e = draft  OBVIOUS
<1>4. /\ m.id \in Ids \ {0} /\ m.type \in Types \ {EMPTY} /\ AsType(m.type) = m.type
      /\ (m.id = IdMax => IdMax \in Named(d)) /\ ~ItemTaken(e, i, m.id)
      /\ AddItem(e, i, m.id, m.type, m.required, IF Primitive(m.type) THEN m.default ELSE Zero)
           = Copied(d, k, q + 1)
  BY <1>1, <1>2, <1>3, ItemCopied
<1>5. type = m.type  BY <1>4
<1>6. ItemMsgAccepted(m, type) <=> m.id < IdMax
  <2>1. type # EMPTY /\ type <= SEQ_MESSAGE
    BY <1>4, <1>5 DEF Types, EMPTY, SEQ_MESSAGE
  <2>2. \A x \in Ids \ {0} : 0 < x  BY ModelAssumption DEF Ids
  <2>3. m.id \in Ids \ {0}  BY <1>4
  <2>4. ~ItemTaken(draft, cur, m.id)  BY <1>1, <1>3, <1>4
  <2> QED  BY <2>1, <2>2, <2>3, <2>4 DEF ItemMsgAccepted
<1> QED  BY <1>1, <1>3, <1>4, <1>5, <1>6

LEMMA CopyAddItemStep ==
  ASSUME TransferInv, TransferInv', CopyInv, AddItemMsg
  PROVE  CopyInv'
<1>1. PICK m, type, default :
        m = Head(left) /\ type = AsType(m.type) /\ default = IF Primitive(type) THEN m.default ELSE Zero
  OBVIOUS
<1>2. phase = "received" /\ left # <<>> /\ heard # NoDoc /\ cur \in Ids
  BY DEF AddItemMsg, TransferInv, Control
<1>3. CASE ~ItemMsgAccepted(m, type)
  <2>1. Reject  BY <1>1, <1>3 DEF AddItemMsg
  <2> QED  BY <2>1, Dropped DEF Reject, Throw
<1>4. CASE ItemMsgAccepted(m, type)
  <2>1. /\ draft' = AddItem(draft, cur, m.id, type, m.required, default)
        /\ left' = Tail(left)
        /\ UNCHANGED <<dico, phase, cur, read, outbox, todo, own>>
    BY <1>1, <1>4 DEF AddItemMsg
  <2>2. m \in ItemMsgs  BY <1>1, <1>2 DEF TransferInv, Messages
  <2>3. m.id \in Int /\ m.type \in Nat /\ m.required \in BOOLEAN /\ m.default \in Defaults
    BY <2>2 DEF ItemMsgs
  <2>4. type \in Nat  BY <1>1, <2>3, AsIntIs
  <2>5. m.id \in Ids \ {0, IdMax} /\ type \in Types \ {EMPTY}
    BY <1>4, <2>3, <2>4, ModelAssumption DEF ItemMsgAccepted, Ids, Types, EMPTY, SEQ_MESSAGE
  <2>6. default \in Defaults  BY <1>1, <2>3, ModelAssumption
  <2>7. draft \in Dicos /\ Sane(draft) /\ IntVersion(draft) /\ draft.fields[cur].type = MESSAGE
    BY <1>2 DEF TransferInv, Readers, CopyInv
  <2>8. PICK item : item = [type |-> type, required |-> m.required,
                            default |-> IF Primitive(type) THEN default ELSE Zero]
    OBVIOUS
  <2>9. Sane(draft') /\ draft' = WithItem(draft, cur, m.id, item)
    BY <1>2, <2>1, <2>3, <2>5, <2>6, <2>7, <2>8, AddItemSane
  <2>10. draft'.version = draft.version /\ draft'.fields[cur].type = draft.fields[cur].type
    <3>1. draft.fields \in [Ids -> FieldDefs]  BY <2>7 DEF Dicos
    <3> QED  BY <1>2, <2>9, <3>1 DEF WithItem
  <2>11. IntVersion(draft')  BY <2>7, <2>10 DEF IntVersion
  <2>12. heard' # NoDoc  BY <1>2, <2>1 DEF TransferInv, Control
  <2>13. ASSUME own PROVE Copies(outbox.origin)'
    <3>1. PICK d, k, q, i : d = outbox.origin /\ AtItem(d, k, q, i)
      BY <1>2, <2>13, NextItem
    <3>2. /\ d \in Dicos /\ Sane(d) /\ d # NoDico
          /\ k \in 1 .. Len(Listed(d)) /\ q \in Nat /\ i = Place(d, k) /\ cur = i
          /\ todo = Rest(MsgOf(d).fields, k)
          /\ IdMax \notin Upto(d, k) /\ NoneTwice(d, k)
          /\ q + 1 \in 1 .. Cardinality(DOMAIN d.fields[i].items)
          /\ Tail(left) = Rest(FieldMsg(d, i).items, q + 1)
      BY <3>1 DEF AtItem
    <3>3. draft' = Copied(d, k, q + 1)
      BY <1>1, <2>1, <2>7, <3>1, ItemRead
    <3>4. PICK g : g = FieldMsg(d, i)  OBVIOUS
    <3>5. MsgOf(d).fields[k] = g  BY <3>2, <3>4, MsgOfHas
    <3>6. i \in Ids /\ Len(Listed(d)) \in Nat  BY <3>2, ListedIs
    <3>7. Len(g.items) = Cardinality(DOMAIN d.fields[i].items)  BY <3>2, <3>4, <3>6, FieldMsgHas
    <3>8. PICK p : p = q + 1  OBVIOUS
    <3>9. p \in Nat /\ p <= Len(g.items) /\ k # 0 /\ k \in 0 .. Len(Listed(d)) /\ k \in Nat
      BY <3>2, <3>6, <3>7, <3>8
    <3>10. left' = Rest(g.items, p) /\ todo' = Rest(MsgOf(d).fields, k) /\ cur' = Place(d, k)
      BY <2>1, <3>2, <3>4, <3>8
    <3>11. CopiedTo(d, k, p)'
      BY <3>2, <3>3, <3>5, <3>8, <3>9, <3>10 DEF CopiedTo
    <3>12. outbox'.origin = d  BY <2>1, <3>1
    <3> QED  BY <3>2, <3>9, <3>11, <3>12 DEF Copies
  <2> QED  BY <1>2, <2>1, <2>7, <2>9, <2>10, <2>11, <2>12, <2>13 DEF CopyInv
<1> QED  BY <1>3, <1>4

LEMMA CopyInvNext == TransferInv /\ TransferInv' /\ CopyInv /\ [TransferNext]_allVars => CopyInv'
<1> SUFFICES ASSUME TransferInv, TransferInv', CopyInv, [TransferNext]_allVars PROVE CopyInv'
  OBVIOUS
<1>1. CASE ReadXml  BY <1>1, CopyXmlStep
<1>2. CASE DicoToMsg
  <2>1. UNCHANGED <<dico, phase, draft, cur, read, todo, left, own, heard>> /\ phase = "idle"
        /\ outbox' = [msg |-> MsgOf(dico), origin |-> dico]
    BY <1>2 DEF DicoToMsg
  <2>2. ~own  BY <2>1 DEF TransferInv, Control, CopyInv
  <2>3. outbox'.msg = MsgOf(outbox'.origin) /\ outbox'.origin = dico  BY <2>1
  <2>4. Made(dico) /\ Made(outbox'.origin)  BY <2>3 DEF CopyInv
  <2> QED  BY <2>1, <2>2, <2>3, <2>4 DEF CopyInv
<1>3. CASE outbox # NoMsg /\ MsgToDico(outbox.msg, TRUE)
  <2>1. outbox.msg \in Msgs  BY <1>3 DEF TransferInv, Messages
  <2> QED  BY <1>3, <2>1, CopyMsgToDicoStep
<1>4. CASE \E msg \in ForeignMsgs : MsgToDico(msg, FALSE)
  BY <1>4, TransferAssumption, CopyMsgToDicoStep
<1>5. CASE AddFieldMsg  BY <1>5, CopyAddFieldStep
<1>6. CASE AddItemMsg  BY <1>6, CopyAddItemStep
<1>7. ASSUME UNCHANGED <<dico, draft, cur, outbox, todo, left, own, heard>>,
             phase' = phase \/ todo = <<>>
      PROVE  CopyInv'
  <2>1. Copies(outbox.origin) => Copies(outbox.origin)'
    <3>1. \A d, k, q : CopiedTo(d, k, q) => CopiedTo(d, k, q)'  BY <1>7 DEF CopiedTo
    <3> QED  BY <1>7, <3>1 DEF Copies
  <2> QED  BY <1>7, <2>1 DEF CopyInv
<1>8. CASE EndFieldMsgs  BY <1>7, <1>8 DEF EndFieldMsgs
<1>9. CASE InstallMsg
  <2>1. /\ draft' = NewDico /\ heard' = NoDoc /\ own' = FALSE /\ phase' = "idle" /\ dico' = draft
        /\ phase = "install" /\ UNCHANGED <<outbox, left>>
    BY <1>9 DEF InstallMsg, Install
  <2>2. left = <<>>  BY <2>1 DEF TransferInv, Messages
  <2>3. Made(draft)  BY <2>1, MadeAtInstall
  <2> QED  BY <2>1, <2>2, <2>3, Dropped
<1>10. CASE UNCHANGED allVars  BY <1>7, <1>10 DEF allVars
<1> QED
  BY <1>1, <1>2, <1>3, <1>4, <1>5, <1>6, <1>8, <1>9, <1>10 DEF TransferNext

\* A Serializer takes back the dictionary it sent, as it was but for what a message does
\* not carry, whatever it read between; or it refuses it, keeps the one in use, and the
\* dictionary uses ID_MAX or has two names for one id (Serializer.cpp:176-361).
THEOREM SentIsTakenBack == TransferSpec => RoundTrip
<1> DEFINE Answer == own /\ phase' = "idle" =>
                       dico' = IF outbox.origin = NoDico THEN NewDico
                               ELSE IF TakenBack(outbox.origin) THEN ReadBack(outbox.origin)
                               ELSE dico
<1>1. TransferInv /\ CopyInv /\ [TransferNext]_allVars => Answer
  <2> SUFFICES ASSUME TransferInv, CopyInv, [TransferNext]_allVars, own, phase' = "idle"
               PROVE  dico' = IF outbox.origin = NoDico THEN NewDico
                              ELSE IF TakenBack(outbox.origin) THEN ReadBack(outbox.origin)
                              ELSE dico
    OBVIOUS
  <2>1. PICK d : d = outbox.origin  OBVIOUS
  <2>2. Copies(d) /\ Made(d) /\ heard # NoDoc /\ phase # "idle"
    BY <2>1 DEF CopyInv, TransferInv, Control
  <2>3. CASE AddFieldMsg
    <3>1. PICK f, id, type : f = Head(todo) /\ id = AsInt(f.id) /\ type = AsType(f.type)  OBVIOUS
    <3>2. left = <<>> /\ todo # <<>>  BY <2>3 DEF AddFieldMsg
    <3>3. ~FieldAccepted(f, id, type)  BY <2>2, <2>3, <3>1 DEF AddFieldMsg
    <3>4. dico' = dico  BY <2>3, <3>1, <3>3 DEF AddFieldMsg, Reject, Throw
    <3>5. PICK k, i : k \in Nat /\ AtDefinition(d, k, i)
      BY <2>1, <3>2, NextDefinition
    <3>6. PICK x : x = d.fields[i]  OBVIOUS
    <3>7. ~Acceptable(draft, x, i)
      <4>1. ReadAs(d, i, x, f, id, type)  BY <3>1, <3>5, <3>6, DefinitionRead
      <4> QED  BY <3>3, <4>1 DEF ReadAs
    <3>8. ~TakenBack(d)  BY <3>5, <3>6, <3>7, DefinitionAccepted DEF AtDefinition
    <3>9. d # NoDico  BY <3>5 DEF AtDefinition
    <3> QED  BY <2>1, <3>4, <3>8, <3>9
  <2>4. CASE AddItemMsg
    <3>1. PICK m, type : m = Head(left) /\ type = AsType(m.type)  OBVIOUS
    <3>2. left # <<>> /\ ~ItemMsgAccepted(m, type)  BY <2>2, <2>4, <3>1 DEF AddItemMsg
    <3>3. dico' = dico  BY <2>4, <3>1, <3>2 DEF AddItemMsg, Reject, Throw
    <3>4. PICK k, q, i : AtItem(d, k, q, i)  BY <2>1, <3>2, NextItem
    <3>5. draft \in Dicos  BY DEF TransferInv, Readers
    <3>6. m.id \in Ids /\ ~(m.id < IdMax) /\ (m.id = IdMax => IdMax \in Named(d))
      BY <3>1, <3>2, <3>4, <3>5, ItemRead
    <3>7. ~TakenBack(d)  BY <3>6, ModelAssumption DEF Ids, TakenBack
    <3>8. d # NoDico  BY <3>4 DEF AtItem
    <3> QED  BY <2>1, <3>3, <3>7, <3>8
  <2>5. CASE InstallMsg
    <3>1. dico' = draft /\ phase = "install"  BY <2>5 DEF InstallMsg, Install
    <3>2. todo = <<>> /\ left = <<>>
      BY <2>2, <3>1 DEF CopyInv, TransferInv, Messages
    <3>3. CASE d = NoDico  BY <2>1, <2>2, <3>1, <3>3 DEF Copies
    <3>4. CASE d # NoDico
      <4>1. d \in Dicos /\ Sane(d)  BY <2>2, <3>4 DEF Made
      <4>2. PICK k, q \in Nat : CopiedTo(d, k, q)  BY <2>2, <3>4 DEF Copies
      <4>3. ItemsDone(d, k, q)  BY <3>2, <3>4, <4>1, <4>2, AllDone
      <4>4. PICK s : s = MsgOf(d).fields  OBVIOUS
      <4>5. s \in Seq(FieldMsgs) /\ Len(s) = Len(Listed(d))  BY <3>4, <4>1, <4>4, MsgOfHas
      <4>6. k \in 0 .. Len(s) /\ Rest(s, k) = <<>>  BY <3>2, <4>2, <4>4, <4>5 DEF CopiedTo
      <4>7. k = Len(Listed(d))  BY <4>5, <4>6, RestIs
      <4>8. draft = Copied(d, k, q) /\ IdMax \notin Upto(d, k) /\ NoneTwice(d, k)
        BY <4>2 DEF CopiedTo
      <4>9. TakenBack(d) /\ draft = ReadBack(d)
        BY <4>1, <4>3, <4>7, <4>8, CopyEnds
      <4> QED  BY <2>1, <3>1, <3>4, <4>9
    <3> QED  BY <3>3, <3>4
  <2>6. ~ReadXml  BY <2>2 DEF ReadXml
  <2>7. ~DicoToMsg /\ \A msg, mine : ~MsgToDico(msg, mine)  BY <2>2 DEF DicoToMsg, MsgToDico
  <2>8. ~EndFieldMsgs  BY DEF EndFieldMsgs
  <2>9. ~UNCHANGED allVars  BY <2>2 DEF allVars
  <2> QED
    BY <2>3, <2>4, <2>5, <2>6, <2>7, <2>8, <2>9 DEF TransferNext
<1>2. TransferSpec => [](TransferInv /\ CopyInv)
  BY TransferInvInit, TransferInvNext, CopyInvInit, CopyInvNext, PTL DEF TransferSpec
<1> HIDE DEF Answer
<1> QED  BY <1>1, <1>2, PTL DEF TransferSpec, RoundTrip, Answer
=============================================================================
