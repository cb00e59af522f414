-------------------------- MODULE JniMessage_proofs --------------------------
(***************************************************************************)
(* Proofs about JniMessage, for any message and any calls.                 *)
(*                                                                         *)
(* The invariant is that every value has the type of its item, which the   *)
(* setters keep on every path, those that end with an exception included.  *)
(***************************************************************************)
EXTENDS JniMessage, NaturalsInduction, WellFoundedInduction, TLAPS

(* A set of natural numbers has a least element.                           *)
LEMMA LeastIs ==
  ASSUME NEW S \in SUBSET Nat, S # {}
  PROVE  (CHOOSE i \in S : \A j \in S : i <= j) \in S
<1> DEFINE R == OpToRel(<, Nat)
<1>1. IsWellFoundedOn(R, Nat)  BY NatLessThanWellFounded
<1> HIDE DEF R
<1>2. PICK x \in S : \A y \in S : ~ (<<y, x>> \in R)  BY <1>1, WFMin
<1>3. \A y \in S : x <= y
  <2> TAKE y \in S
  <2>1. ~ (<<y, x>> \in R)  BY <1>2
  <2> QED  BY <2>1 DEF R, OpToRel
<1> QED  BY <1>3

(* The types of what the setters write.                                    *)
LEMMA ItemsAre ==
  ASSUME NEW id \in ItemIds
  PROVE  /\ id \in Nat \ {0} /\ Items[id].type \in Types \ {EMPTY} /\ Items[id].required \in BOOLEAN
         /\ Items[id].default.type = Items[id].type
         /\ Repeated(Items[id].type) => Items[id].default.seq = <<>>
         /\ ~Repeated(Items[id].type) => Len(Items[id].default.seq) = 1
  BY JniAssumption

LEMMA ElementsAre ==
  /\ \A t \in BOOL .. STRING_T \cup SEQ_BOOL .. SEQ_STRING : ElementsOf(t) = Data
  /\ ElementsOf(MESSAGE) = Inners /\ ElementsOf(SEQ_MESSAGE) = Inners
  /\ \A t \in BOOL .. MESSAGE : ~Repeated(t)
  /\ \A t \in SEQ_BOOL .. SEQ_MESSAGE : Repeated(t)
  BY DEF ElementsOf, Basic, Repeated, BOOL, STRING_T, SEQ_BOOL, SEQ_STRING, MESSAGE, SEQ_MESSAGE,
         SEQ_DELTA

ValueOK(id, v) == /\ v.type = Items[id].type
                  /\ v.seq \in Seq(ElementsOf(v.type)) /\ Len(v.seq) <= MaxLen
                  /\ ~Repeated(v.type) => Len(v.seq) = 1

LEMMA TypeOKIs ==
  TypeOK <=> /\ DOMAIN values \subseteq ItemIds /\ corrupt \in BOOLEAN
             /\ \A id \in DOMAIN values : ValueOK(id, values[id])
  BY DEF TypeOK, ValueOK

(* Writing a value that fits keeps all of them fitting.                    *)
LEMMA Puts ==
  ASSUME TypeOK, NEW id \in ItemIds, NEW v, ValueOK(id, v),
         values' = Put(values, id, v), corrupt' \in BOOLEAN
  PROVE  TypeOK'
<1>1. DOMAIN values' = DOMAIN values \cup {id}  BY DEF Put
<1>2. \A i \in DOMAIN values' : values'[i] = IF i = id THEN v ELSE values[i]  BY DEF Put
<1>3. \A i \in DOMAIN values' : ValueOK(i, values'[i])  BY <1>1, <1>2, TypeOKIs
<1> QED  BY <1>1, <1>3, TypeOKIs DEF TypeOK, ValueOK

LEMMA Keeps ==
  ASSUME TypeOK, UNCHANGED <<values, corrupt>>
  PROVE  TypeOK'
  BY DEF TypeOK

LEMMA SetKeeps ==
  ASSUME TypeOK, NEW c, NEW type \in BOOL .. MESSAGE, c.arg \in ElementsOf(type), Set(c, type)
  PROVE  TypeOK'
<1>1. CASE SetFault(c.id, type) # None  BY <1>1, Keeps DEF Set
<1>2. CASE SetFault(c.id, type) = None
  <2>1. c.id \in ItemIds /\ Items[c.id].type = type
    BY <1>2, JniAssumption DEF SetFault
  <2>2. values' = Put(values, c.id, Value(type, <<c.arg>>)) /\ corrupt' = corrupt
    BY <1>2 DEF Set
  <2>3. ValueOK(c.id, Value(type, <<c.arg>>))
    <3>1. <<c.arg>> \in Seq(ElementsOf(type)) /\ Len(<<c.arg>>) = 1  OBVIOUS
    <3> QED  BY <2>1, <3>1, JniAssumption DEF ValueOK, Value
  <2> QED  BY <2>1, <2>2, <2>3, Puts DEF TypeOK
<1> QED  BY <1>1, <1>2

(* An item that was opened for its elements is in the message, or would be,*)
(* and holds a sequence of its type.                                       *)
LEMMA Opens ==
  ASSUME TypeOK, NEW id, NEW type \in SEQ_BOOL .. SEQ_MESSAGE, OpenFault(id, type) = None,
         NEW seq, seq = Opened(id, type)[id].seq
  PROVE  /\ id \in ItemIds /\ Items[id].type = type
         /\ seq \in Seq(ElementsOf(type)) /\ Len(seq) <= MaxLen
         /\ Opened(id, type) = values \/ Opened(id, type) = Put(values, id, Value(type, <<>>))
         /\ seq = Get(id).seq
<1>1. Repeated(type)  BY ElementsAre
<1>2. CASE Empty(id)
  <2>1. id \in ItemIds /\ Items[id].type = type
    BY <1>2, JniAssumption DEF OpenFault, SetFault
  <2>2. Opened(id, type) = Put(values, id, Value(type, <<>>))  BY <1>2 DEF Opened
  <2>3. seq = <<>>  BY <2>2 DEF Put, Value
  <2>4. Get(id).seq = <<>>
    BY <1>1, <1>2, <2>1, ItemsAre DEF Empty, Get
  <2>5. seq \in Seq(ElementsOf(type)) /\ Len(seq) = 0 /\ 0 <= MaxLen
    BY <2>3, JniAssumption
  <2> QED  BY <2>1, <2>2, <2>3, <2>4, <2>5
<1>3. CASE ~Empty(id)
  <2>1. id \in DOMAIN values  BY <1>3 DEF Empty
  <2>2. GetFault(id, type) = None /\ Opened(id, type) = values  BY <1>3 DEF OpenFault, Opened
  <2>3. id \in ItemIds /\ values[id].type = type /\ Get(id) = values[id]
    BY <2>1, <2>2, JniAssumption DEF GetFault, Get
  <2>4. ValueOK(id, values[id]) /\ seq = values[id].seq  BY <2>1, <2>2, TypeOKIs
  <2> QED  BY <2>1, <2>2, <2>3, <2>4 DEF ValueOK
<1> QED  BY <1>2, <1>3

LEMMA EmptySequence ==
  ASSUME NEW id \in ItemIds, Repeated(Items[id].type), NEW type, type = Items[id].type
  PROVE  ValueOK(id, Value(type, <<>>))
<1>1. <<>> \in Seq(ElementsOf(type)) /\ Len(<<>>) <= MaxLen  BY JniAssumption
<1> QED  BY <1>1 DEF ValueOK, Value

(* The sequence with one element written, extended if need be.             *)
Written(seq, index, x) ==
  [j \in 1 .. (IF index + 1 > Len(seq) THEN index + 1 ELSE Len(seq)) |->
     IF j = index + 1 THEN x ELSE IF j <= Len(seq) THEN seq[j] ELSE Zero]

LEMMA Writes ==
  ASSUME NEW S, NEW seq \in Seq(S), Len(seq) <= MaxLen, NEW x \in S, Zero \in S,
         NEW index \in Nat, index < MaxLen,
         NEW grown, grown = IF index >= Len(seq) THEN Resized(seq, index + 1) ELSE seq,
         NEW new, new = [grown EXCEPT ![index + 1] = x]
  PROVE  /\ new \in Seq(S) /\ Len(new) <= MaxLen
         /\ new = Written(seq, index, x)
<1>0. MaxLen \in Nat /\ Len(seq) \in Nat  BY JniAssumption
<1>1. CASE index >= Len(seq)
  <2>1. grown = [i \in 1 .. index + 1 |-> IF i <= Len(seq) THEN seq[i] ELSE Zero]
    BY <1>1 DEF Resized
  <2>2. new = [j \in 1 .. index + 1 |->
                 IF j = index + 1 THEN x ELSE IF j <= Len(seq) THEN seq[j] ELSE Zero]
    BY <2>1
  <2>3. PICK n \in Nat : n = index + 1  OBVIOUS
  <2>4. new \in Seq(S) /\ Len(new) = index + 1
    <3>1. \A j \in 1 .. Len(seq) : seq[j] \in S  OBVIOUS
    <3>2. \A j \in 1 .. n : (IF j = n THEN x ELSE IF j <= Len(seq) THEN seq[j] ELSE Zero) \in S
      BY <1>0, <3>1
    <3>3. new \in [1 .. n -> S]  BY <2>2, <2>3, <3>2
    <3>4. new \in Seq(S) /\ DOMAIN new = 1 .. n  BY ONLY <2>3, <3>3
    <3>5. Len(new) = n  BY <2>3, <3>4
    <3> QED  BY <2>3, <3>4, <3>5
  <2>5. index + 1 > Len(seq) /\ index + 1 <= MaxLen  BY <1>0, <1>1
  <2> QED  BY <2>2, <2>4, <2>5 DEF Written
<1>2. CASE ~(index >= Len(seq))
  <2>1. grown = seq /\ index + 1 \in 1 .. Len(seq)  BY <1>0, <1>2
  <2>2. new \in Seq(S) /\ Len(new) = Len(seq) /\ DOMAIN new = 1 .. Len(seq)
        /\ \A j \in 1 .. Len(seq) : new[j] = IF j = index + 1 THEN x ELSE seq[j]
    BY <2>1
  <2>3. new = [j \in 1 .. Len(seq) |->
                 IF j = index + 1 THEN x ELSE IF j <= Len(seq) THEN seq[j] ELSE Zero]
    BY <1>0, <2>2
  <2>4. ~(index + 1 > Len(seq))  BY <1>0, <2>1
  <2> QED  BY <2>2, <2>3, <2>4 DEF Written
<1> QED  BY <1>1, <1>2

LEMMA SetElementKeeps ==
  ASSUME TypeOK, NEW id, NEW type \in SEQ_BOOL .. SEQ_STRING, NEW index \in Int, NEW x \in Data,
         SetElement(id, type, index, x)
  PROVE  TypeOK'
<1> DEFINE c == Call("setElement", id, index, x)
<1>1. CASE OpenFault(id, type) # None  BY <1>1, Keeps DEF SetElement
<1>2. CASE OpenFault(id, type) = None
  <2>0. c.id = id /\ c.index = index /\ c.arg = x  BY DEF Call
  <2> DEFINE seq == Opened(id, type)[id].seq
             grown == IF index >= Len(seq) THEN Resized(seq, index + 1) ELSE seq
             new == [grown EXCEPT ![index + 1] = x]
  <2>1. type \in SEQ_BOOL .. SEQ_MESSAGE /\ Repeated(type) /\ ElementsOf(type) = Data
    BY ElementsAre DEF SEQ_BOOL, SEQ_STRING, SEQ_MESSAGE
  <2>2. /\ id \in ItemIds /\ Items[id].type = type
        /\ seq \in Seq(Data) /\ Len(seq) <= MaxLen
        /\ Opened(id, type) = values \/ Opened(id, type) = Put(values, id, Value(type, <<>>))
    BY <1>2, <2>1, Opens
  <2>3. WriteElement(c, type)  BY <1>2 DEF SetElement
  <2>4. CASE /\ index >= 0 /\ index < MaxLen /\ corrupt' = corrupt
             /\ values' = Put(values, id, Value(type, new))
    <3> HIDE DEF seq
    <3>1. new \in Seq(Data) /\ Len(new) <= MaxLen
      <4>1. index \in Nat /\ Zero \in Data  BY <2>4, JniAssumption
      <4> HIDE DEF c
      <4>2. PICK g, n : g = grown /\ n = new  OBVIOUS
      <4>3. n = [g EXCEPT ![index + 1] = x]  BY <4>2
      <4> HIDE DEF new
      <4>4. g = IF index >= Len(seq) THEN Resized(seq, index + 1) ELSE seq  BY <4>2
      <4>5. n \in Seq(Data) /\ Len(n) <= MaxLen  BY <2>2, <2>4, <4>1, <4>3, <4>4, Writes
      <4> QED  BY <4>2, <4>5
    <3> HIDE DEF new
    <3>2. ValueOK(id, Value(type, new))  BY <2>1, <2>2, <3>1 DEF ValueOK, Value
    <3> QED  BY <2>2, <2>4, <3>2, Puts DEF TypeOK
  <2>5. CASE values' = Put(values, id, Value(type, <<>>)) /\ corrupt' = TRUE
    BY <2>1, <2>2, <2>5, EmptySequence, Puts
  <2>6. CASE values' = Opened(id, type) /\ corrupt' = corrupt
    <3>1. CASE Opened(id, type) = values  BY <2>6, <3>1, Keeps
    <3>2. CASE Opened(id, type) = Put(values, id, Value(type, <<>>))
      BY <2>1, <2>2, <2>6, <3>2, EmptySequence, Puts DEF TypeOK
    <3> QED  BY <2>2, <3>1, <3>2
  <2> HIDE DEF c
  <2> QED  BY <2>0, <2>3, <2>4, <2>5, <2>6 DEF WriteElement
<1> QED  BY <1>1, <1>2

(* The same for a message, which is added at the end or replaces another.  *)
LEMMA Stores ==
  ASSUME NEW S, NEW seq \in Seq(S), Len(seq) <= MaxLen, NEW x \in S,
         NEW index \in Int, index < MaxLen
  PROVE  StoreMessage(seq, index, x) \in Seq(S) /\ Len(StoreMessage(seq, index, x)) <= MaxLen
<1>0. MaxLen \in Nat /\ Len(seq) \in Nat  BY JniAssumption
<1>1. CASE index >= 0 /\ index < Len(seq)
  <2>1. StoreMessage(seq, index, x) = [seq EXCEPT ![index + 1] = x]  BY <1>1 DEF StoreMessage
  <2>2. index + 1 \in 1 .. Len(seq)  BY <1>0, <1>1
  <2> QED  BY <2>1, <2>2
<1>2. CASE index = Len(seq)
  <2>1. StoreMessage(seq, index, x) = Append(seq, x)  BY <1>0, <1>2 DEF StoreMessage
  <2> QED  BY <1>0, <1>2, <2>1
<1>3. CASE ~(index >= 0 /\ index < Len(seq)) /\ index # Len(seq)
  BY <1>3 DEF StoreMessage
<1> QED  BY <1>1, <1>2, <1>3

LEMMA SetMessageAtKeeps ==
  ASSUME TypeOK, NEW id, NEW index \in Int, NEW inner \in Inners, SetMessageAt(id, index, inner)
  PROVE  TypeOK'
<1> DEFINE seq == Opened(id, SEQ_MESSAGE)[id].seq
           new == StoreMessage(seq, index, inner)
<1>0. index < MaxLen /\ corrupt' = corrupt
      /\ values' = IF OpenFault(id, SEQ_MESSAGE) # None THEN values
                   ELSE Put(values, id, Value(SEQ_MESSAGE, new))
  BY DEF SetMessageAt
<1>1. CASE OpenFault(id, SEQ_MESSAGE) # None  BY <1>0, <1>1, Keeps
<1>2. CASE OpenFault(id, SEQ_MESSAGE) = None
  <2>1. SEQ_MESSAGE \in SEQ_BOOL .. SEQ_MESSAGE  BY DEF SEQ_BOOL, SEQ_MESSAGE
  <2>2. Repeated(SEQ_MESSAGE) /\ ElementsOf(SEQ_MESSAGE) = Inners  BY <2>1, ElementsAre
  <2>3. /\ id \in ItemIds /\ Items[id].type = SEQ_MESSAGE
        /\ seq \in Seq(Inners) /\ Len(seq) <= MaxLen
    BY <1>2, <2>1, <2>2, Opens
  <2> HIDE DEF seq
  <2>4. new \in Seq(Inners) /\ Len(new) <= MaxLen  BY <1>0, <2>3, Stores
  <2> HIDE DEF new
  <2>5. ValueOK(id, Value(SEQ_MESSAGE, new))  BY <2>2, <2>3, <2>4 DEF ValueOK, Value
  <2> QED  BY <1>0, <1>2, <2>3, <2>5, Puts DEF TypeOK
<1> QED  BY <1>1, <1>2

LEMMA TypeOKNext == TypeOK /\ [Next]_vars => TypeOK'
<1> SUFFICES ASSUME TypeOK, [Next]_vars PROVE TypeOK'  OBVIOUS
<1>1. CASE UNCHANGED vars  BY <1>1, Keeps DEF vars
<1>2. ASSUME NEW id \in AllIds, Erase(id) PROVE TypeOK'
  <2>1. values' = Without(values, id) /\ corrupt' = corrupt  BY <1>2 DEF Erase
  <2>2. DOMAIN values' \subseteq DOMAIN values /\ \A i \in DOMAIN values' : values'[i] = values[i]
    BY <2>1 DEF Without
  <2> QED  BY <2>1, <2>2 DEF TypeOK
<1>3. ASSUME NEW id \in AllIds, GetSeqSize(id) \/ Describe(id) PROVE TypeOK'
  BY <1>3, Keeps DEF GetSeqSize, Describe
<1>4. ASSUME NEW id \in AllIds, NEW x \in Data, NEW t \in BOOL .. STRING_T, SetPrimitive(id, t, x)
      PROVE  TypeOK'
  <2>1. PICK c : c = Call("set", id, 0, x)  OBVIOUS
  <2>2. c.arg = x  BY <2>1 DEF Call
  <2>3. t \in BOOL .. MESSAGE /\ ElementsOf(t) = Data
    BY ElementsAre DEF BOOL, STRING_T, MESSAGE
  <2> QED  BY <1>4, <2>1, <2>2, <2>3, SetKeeps DEF SetPrimitive
<1>5. ASSUME NEW id \in AllIds, NEW x \in Inners, SetMessage(id, x) PROVE TypeOK'
  <2>1. PICK c : c = Call("set", id, 0, x)  OBVIOUS
  <2>2. c.arg = x  BY <2>1 DEF Call
  <2>3. MESSAGE \in BOOL .. MESSAGE /\ ElementsOf(MESSAGE) = Inners
    BY ElementsAre DEF BOOL, MESSAGE
  <2> QED  BY <1>5, <2>1, <2>2, <2>3, SetKeeps DEF SetMessage
<1>6. ASSUME NEW id \in AllIds, NEW x \in Data, NEW t \in SEQ_BOOL .. SEQ_STRING, NEW n \in Indexes,
             SetElement(id, t, n, x)
      PROVE  TypeOK'
  BY <1>6, JniAssumption, SetElementKeeps
<1>7. ASSUME NEW id \in AllIds, NEW x \in Inners, NEW n \in Indexes, SetMessageAt(id, n, x)
      PROVE  TypeOK'
  BY <1>7, JniAssumption, SetMessageAtKeeps
<1>8. ASSUME NEW id \in AllIds, NEW t, GetSingle(id, t) PROVE TypeOK'
  BY <1>8, Keeps DEF GetSingle
<1>9. ASSUME NEW id \in AllIds, NEW t, NEW n, GetElement(id, t, n) PROVE TypeOK'
  BY <1>9, Keeps DEF GetElement
<1>10. CASE DescribeMessage  BY <1>10, Keeps DEF DescribeMessage
<1> QED
  BY <1>1, <1>2, <1>3, <1>4, <1>5, <1>6, <1>7, <1>8, <1>9, <1>10 DEF Next

LEMMA TypeOKInit == Init => TypeOK
  BY DEF Init, TypeOK

\* Every value has the type of its item, whatever was called and whatever was thrown: the
\* JNI setters never leave a value half converted (org_Lmap_pbart_Message.cpp, Message::set).
THEOREM JniTypeCorrect == Spec => []TypeOK
  BY TypeOKInit, TypeOKNext, PTL DEF Spec

-----------------------------------------------------------------------------
(* The two ways to check a message.                                        *)

LEMMA CheckIs == (Check = 0) <=> \A id \in ItemIds : IteratorCheck(id) = 0
<1> DEFINE bad == {id \in ItemIds : IteratorCheck(id) # 0}
<1>1. CASE bad = {}
  <2>1. Check = 0  BY <1>1 DEF Check
  <2> QED  BY <1>1, <2>1
<1>2. CASE bad # {}
  <2>1. bad \in SUBSET Nat  BY JniAssumption
  <2> HIDE DEF bad
  <2>2. (CHOOSE i \in bad : \A j \in bad : i <= j) \in bad  BY <1>2, <2>1, LeastIs
  <2>3. Check \in bad  BY <1>2, <2>2 DEF Check, bad
  <2> QED  BY <2>3, JniAssumption DEF bad
<1> QED  BY <1>1, <1>2

LEMMA ItemChecks ==
  ASSUME TypeOK, NEW id \in ItemIds
  PROVE  (IteratorCheck(id) = 0)
           <=> /\ CheckId(id) = 0
               /\ id \in DOMAIN values => (Items[id].required => ~Empty(id))
<1>0. id \in ItemIds /\ id # 0 /\ Items[id].required \in BOOLEAN  BY ItemsAre
<1>1. CASE id \notin DOMAIN values
  <2>1. Empty(id)  BY <1>1 DEF Empty
  <2>2. IteratorCheck(id) = IF Items[id].required THEN id ELSE 0  BY <2>1 DEF IteratorCheck
  <2>3. CheckId(id) = IF Items[id].required THEN id ELSE 0  BY <1>0, <1>1 DEF CheckId
  <2> QED  BY <1>1, <2>2, <2>3
<1>2. CASE id \in DOMAIN values
  <2>1. values[id].type = Items[id].type  BY <1>2 DEF TypeOK
  <2>2. CheckId(id) = NestedBad(values[id])  BY <1>0, <1>2, <2>1 DEF CheckId
  <2>3. CASE Empty(id)
    <3>1. values[id].seq = <<>>  BY <1>2, <2>3 DEF Empty
    <3>2. NestedBad(values[id]) = 0
      <4>1. {i \in DOMAIN <<>> : <<>>[i].bad # 0} = {}  OBVIOUS
      <4>2. FirstBad(<<>>) = 0  BY <4>1 DEF FirstBad
      <4> QED  BY <3>1, <4>2 DEF NestedBad
    <3>3. IteratorCheck(id) = IF Items[id].required THEN id ELSE 0  BY <2>3 DEF IteratorCheck
    <3> QED  BY <1>0, <1>2, <2>2, <2>3, <3>2, <3>3
  <2>4. CASE ~Empty(id)
    <3>1. IteratorCheck(id) = NestedBad(values[id])  BY <2>1, <2>4 DEF IteratorCheck
    <3> QED  BY <1>2, <2>2, <2>4, <3>1
  <2> QED  BY <2>3, <2>4
<1> QED  BY <1>1, <1>2

\* The two check() agree but for a required sequence that is present without elements, which
\* check() refuses and check(id) accepts (Message.cpp:31-105, Iterator.h:59-94).
THEOREM ChecksAgree == Spec => []CheckSound
<1>1. TypeOK => CheckSound
  <2> SUFFICES ASSUME TypeOK PROVE CheckSound  OBVIOUS
  <2>1. DOMAIN values \subseteq ItemIds  BY DEF TypeOK
  <2>2. (\A id \in ItemIds : IteratorCheck(id) = 0)
          <=> /\ \A id \in ItemIds : CheckId(id) = 0
              /\ \A id \in DOMAIN values : Items[id].required => ~Empty(id)
    BY <2>1, ItemChecks
  <2> QED  BY <2>2, CheckIs DEF CheckSound
<1> QED  BY <1>1, JniTypeCorrect, PTL

-----------------------------------------------------------------------------
(* What the getters can tell, and the answers.                             *)

AnswerOf(r) == IF r.threw # None THEN Refused ELSE IF r.op = "describe" THEN None ELSE r.answer

(* The steps of RecordStore, of the content C to D with the answer b.      *)
StoreMay(C, D, b) ==
  \/ D = C /\ b \in {Refused, None}
  \/ \E k \in ItemIds :
       \/ D = [C EXCEPT ![k] = Items[k].default.seq] /\ b = None
       \/ D = C /\ b = [size |-> IF Repeated(Items[k].type) THEN Len(C[k]) ELSE 0]
       \/ \E i \in 1 .. MaxLen : i <= Len(C[k]) /\ D = C /\ b = C[k][i]
  \/ \E k \in ItemIds, x \in Data \cup Inners :
       ~Repeated(Items[k].type) /\ D = [C EXCEPT ![k] = <<x>>] /\ b = None
  \/ \E k \in ItemIds, i \in 1 .. MaxLen, x \in Data \cup Inners :
       /\ Repeated(Items[k].type) /\ b = None
       /\ D = [C EXCEPT ![k] = [j \in 1 .. (IF i > Len(C[k]) THEN i ELSE Len(C[k])) |->
                  IF j = i THEN x ELSE IF j <= Len(C[k]) THEN C[k][j] ELSE Zero]]

LEMMA StoreMays ==
  ASSUME ~strays, ~strays', StoreMay(Visible, Visible', AnswerOf(result'))
  PROVE  Store!Next
<1> DEFINE initial == [id \in ItemIds |-> Items[id].default.seq]
           Content == IF strays THEN initial ELSE Visible
           Answers == IF strays THEN None ELSE IF result.threw # None THEN Refused
                      ELSE IF result.op = "describe" THEN None ELSE result.answer
<1>1. PICK C, D, b : C = Visible /\ D = Visible' /\ b = AnswerOf(result')  OBVIOUS
<1>2. C = Content /\ D = Content' /\ b = Answers'  BY <1>1 DEF AnswerOf
<1>3. StoreMay(C, D, b)  BY <1>1
<1>4. \A k \in ItemIds : initial[k] = Items[k].default.seq  OBVIOUS
<1> HIDE DEF initial
<1>5. CASE D = C /\ b \in {Refused, None}
  BY <1>2, <1>5 DEF initial, Store!Next, Store!Refuse, Store!Describe
<1>6. ASSUME NEW k \in ItemIds, D = [C EXCEPT ![k] = Items[k].default.seq], b = None
      PROVE  Store!Next
  <2>1. D = [C EXCEPT ![k] = initial[k]]  BY <1>4, <1>6
  <2>2. Store!Remove(k)  BY <1>2, <1>6, <2>1 DEF initial, Store!Remove
  <2> QED  BY <2>2 DEF Store!Next
<1>7. ASSUME NEW k \in ItemIds, D = C,
             b = [size |-> IF Repeated(Items[k].type) THEN Len(C[k]) ELSE 0]
      PROVE  Store!Next
  <2>1. Store!Length(k)  BY <1>2, <1>7 DEF initial, Store!Length
  <2> QED  BY <2>1 DEF Store!Next
<1>8. ASSUME NEW k \in ItemIds, NEW i \in 1 .. MaxLen, i <= Len(C[k]), D = C, b = C[k][i]
      PROVE  Store!Next
  <2>1. Store!Element(k, i)  BY <1>2, <1>8 DEF initial, Store!Element
  <2> QED  BY <2>1 DEF Store!Next
<1>9. ASSUME NEW k \in ItemIds, NEW x \in Data \cup Inners, ~Repeated(Items[k].type),
             D = [C EXCEPT ![k] = <<x>>], b = None
      PROVE  Store!Next
  <2>1. Store!Assign(k, x)  BY <1>2, <1>9 DEF initial, Store!Assign
  <2>2. k \in ItemIds \ {id \in ItemIds : Repeated(Items[id].type)}  BY <1>9
  <2> QED  BY <2>1, <2>2 DEF Store!Next
<1>10. ASSUME NEW k \in ItemIds, NEW i \in 1 .. MaxLen, NEW x \in Data \cup Inners,
              Repeated(Items[k].type), b = None,
              D = [C EXCEPT ![k] = [j \in 1 .. (IF i > Len(C[k]) THEN i ELSE Len(C[k])) |->
                     IF j = i THEN x ELSE IF j <= Len(C[k]) THEN C[k][j] ELSE Zero]]
       PROVE Store!Next
  <2>1. Store!SetElement(k, i, x)  BY <1>2, <1>10 DEF initial, Store!SetElement
  <2>2. k \in {id \in ItemIds : Repeated(Items[id].type)}  BY <1>10
  <2> QED  BY <2>1, <2>2 DEF Store!Next
<1> QED  BY <1>3, <1>5, <1>6, <1>7, <1>8, <1>9, <1>10 DEF StoreMay

LEMMA FaultsAre ==
  /\ \A id, type : SetFault(id, type) # None => SetFault(id, type) \in {"IdException", "TypeException"}
  /\ \A id, type : GetFault(id, type) # None => GetFault(id, type) \in {"IdException", "TypeException"}
  /\ \A id, type : OpenFault(id, type) # None => OpenFault(id, type) \in {"IdException", "TypeException"}
  BY DEF SetFault, GetFault, OpenFault

LEMMA Throws ==
  ASSUME NEW c, NEW e \in {"IdException", "TypeException", "OutOfRangeException", "Error"}, Throw(c, e)
  PROVE  AnswerOf(result') = Refused
<1>1. JavaException(e) # None  BY JniAssumption DEF JavaException
<1>2. result'.threw = JavaException(e)  BY DEF Throw
<1> QED  BY <1>1, <1>2 DEF AnswerOf

LEMMA Answers ==
  ASSUME NEW c, NEW a, Answer(c, a)
  PROVE  AnswerOf(result') = IF c.op = "describe" THEN None ELSE a
<1>1. result'.threw = None /\ result'.op = c.op /\ result'.answer = a  BY DEF Answer
<1> QED  BY <1>1 DEF AnswerOf

LEMMA VisibleIs ==
  /\ Visible = [id \in ItemIds |-> Get(id).seq]
  /\ Visible' = [id \in ItemIds |-> (IF id \in DOMAIN values' THEN values'[id]
                                                             ELSE Items[id].default).seq]
  /\ values' = values => Visible' = Visible
  /\ \A id \in ItemIds : Visible[id] = Get(id).seq
  BY DEF Visible, Get

LEMMA VisiblePut ==
  ASSUME NEW id \in ItemIds, NEW type, NEW seq, values' = Put(values, id, Value(type, seq))
  PROVE  Visible' = [Visible EXCEPT ![id] = seq]
<1>1. DOMAIN values' = DOMAIN values \cup {id}
      /\ \A i \in DOMAIN values' : values'[i] = IF i = id THEN Value(type, seq) ELSE values[i]
  BY DEF Put
<1>2. Value(type, seq).seq = seq  BY DEF Value
<1>3. \A i \in ItemIds : (IF i \in DOMAIN values' THEN values'[i] ELSE Items[i].default).seq
                           = IF i = id THEN seq ELSE Get(i).seq
  BY <1>1, <1>2 DEF Get
<1>4. Visible' = [i \in ItemIds |-> IF i = id THEN seq ELSE Get(i).seq]  BY <1>3, VisibleIs
<1>5. Visible = [i \in ItemIds |-> Get(i).seq]  BY VisibleIs
<1> QED  BY <1>4, <1>5

LEMMA VisibleWithout ==
  ASSUME NEW id, values' = Without(values, id)
  PROVE  /\ id \in ItemIds => Visible' = [Visible EXCEPT ![id] = Items[id].default.seq]
         /\ id \notin ItemIds => Visible' = Visible
<1>1. DOMAIN values' = DOMAIN values \ {id} /\ \A i \in DOMAIN values' : values'[i] = values[i]
  BY DEF Without
<1>2. \A i \in ItemIds : (IF i \in DOMAIN values' THEN values'[i] ELSE Items[i].default).seq
                           = IF i = id THEN Items[i].default.seq ELSE Get(i).seq
  BY <1>1 DEF Get
<1>3. Visible' = [i \in ItemIds |-> IF i = id THEN Items[i].default.seq ELSE Get(i).seq]
  BY <1>2, VisibleIs
<1>4. Visible = [i \in ItemIds |-> Get(i).seq]  BY VisibleIs
<1> QED  BY <1>3, <1>4

(* A getter of an element.                                                 *)
LEMMA ElementMay ==
  ASSUME TypeOK, NEW id \in ItemIds, NEW i \in Nat \ {0}, i <= Len(Get(id).seq),
         values' = values, AnswerOf(result') = Get(id).seq[i]
  PROVE  StoreMay(Visible, Visible', AnswerOf(result'))
<1>1. Visible' = Visible /\ Visible[id] = Get(id).seq  BY VisibleIs
<1>2. Len(Get(id).seq) \in Nat /\ Len(Get(id).seq) <= MaxLen
  <2>1. CASE id \in DOMAIN values
    <3>1. ValueOK(id, values[id]) /\ Get(id) = values[id]  BY <2>1, TypeOKIs DEF Get
    <3> QED  BY <3>1 DEF ValueOK
  <2>2. CASE id \notin DOMAIN values
    <3>1. Get(id) = Items[id].default  BY <2>2 DEF Get
    <3>2. CASE Repeated(Items[id].type)
      <4>1. Get(id).seq = <<>>  BY <3>1, <3>2, ItemsAre
      <4> QED  BY <4>1, JniAssumption
    <3>3. CASE ~Repeated(Items[id].type)
      <4>1. Len(Get(id).seq) = 1  BY <3>1, <3>3, ItemsAre
      <4> QED  BY <4>1, JniAssumption
    <3> QED  BY <3>2, <3>3
  <2> QED  BY <2>1, <2>2
<1> QED  BY <1>1, <1>2, JniAssumption DEF StoreMay

LEMMA RefuseMay ==
  ASSUME Visible' = Visible, AnswerOf(result') \in {Refused, None}
  PROVE  StoreMay(Visible, Visible', AnswerOf(result'))
  BY DEF StoreMay

LEMMA SetMay ==
  ASSUME NEW c, NEW type \in BOOL .. MESSAGE, c.arg \in Data \cup Inners, c.op = "set", Set(c, type)
  PROVE  StoreMay(Visible, Visible', AnswerOf(result'))
<1>1. CASE SetFault(c.id, type) # None
  <2>1. Throw(c, SetFault(c.id, type)) /\ values' = values  BY <1>1 DEF Set
  <2>2. AnswerOf(result') = Refused  BY <1>1, <2>1, FaultsAre, Throws
  <2> QED  BY <2>1, <2>2, VisibleIs, RefuseMay
<1>2. CASE SetFault(c.id, type) = None
  <2>1. c.id \in ItemIds /\ Items[c.id].type = type
    BY <1>2, JniAssumption DEF SetFault
  <2>2. values' = Put(values, c.id, Value(type, <<c.arg>>)) /\ Answer(c, None)
    BY <1>2 DEF Set
  <2>3. AnswerOf(result') = None  BY <2>2, Answers
  <2>4. Visible' = [Visible EXCEPT ![c.id] = <<c.arg>>]  BY <2>1, <2>2, VisiblePut
  <2>5. ~Repeated(Items[c.id].type)  BY <2>1, ElementsAre
  <2> QED  BY <2>1, <2>3, <2>4, <2>5 DEF StoreMay
<1> QED  BY <1>1, <1>2

LEMMA SetElementMay ==
  ASSUME TypeOK, ~strays, NEW id, NEW type \in SEQ_BOOL .. SEQ_STRING, NEW index \in Int,
         NEW x \in Data, SetElement(id, type, index, x)
  PROVE  StoreMay(Visible, Visible', AnswerOf(result'))
<1>0. PICK c : c = Call("setElement", id, index, x)  OBVIOUS
<1>1. c.id = id /\ c.index = index /\ c.arg = x /\ c.op = "setElement"  BY <1>0 DEF Call
<1>2. index >= 0  BY DEF SetElement, Allowed
<1>3. CASE OpenFault(id, type) # None
  <2>1. Throw(c, OpenFault(id, type)) /\ values' = values  BY <1>0, <1>3 DEF SetElement
  <2>2. AnswerOf(result') = Refused  BY <1>3, <2>1, FaultsAre, Throws
  <2> QED  BY <2>1, <2>2, VisibleIs, RefuseMay
<1>4. CASE OpenFault(id, type) = None
  <2>1. PICK seq : seq = Opened(id, type)[id].seq  OBVIOUS
  <2>2. type \in SEQ_BOOL .. SEQ_MESSAGE /\ Repeated(type) /\ ElementsOf(type) = Data
    BY ElementsAre DEF SEQ_BOOL, SEQ_STRING, SEQ_MESSAGE
  <2>3. /\ id \in ItemIds /\ Items[id].type = type /\ seq = Get(id).seq
        /\ seq \in Seq(Data) /\ Len(seq) <= MaxLen
    BY <1>4, <2>1, <2>2, Opens
  <2>4. PICK grown, new : /\ grown = IF index >= Len(seq) THEN Resized(seq, index + 1) ELSE seq
                          /\ new = [grown EXCEPT ![index + 1] = x]
    OBVIOUS
  <2>5. WriteElement(c, type)  BY <1>0, <1>4 DEF SetElement
  <2>6. /\ index < MaxLen /\ Answer(c, None)
        /\ values' = Put(values, id, Value(type, new))
    BY <1>1, <1>2, <2>1, <2>4, <2>5 DEF WriteElement
  <2>7. AnswerOf(result') = None  BY <1>1, <2>6, Answers
  <2>8. index \in Nat /\ Zero \in Data /\ MaxLen \in Nat  BY <1>2, JniAssumption
  <2>9. new = Written(seq, index, x)
    <3>1. seq \in Seq(Data) /\ Len(seq) <= MaxLen /\ x \in Data /\ Zero \in Data
          /\ index \in Nat /\ index < MaxLen
      BY <2>3, <2>6, <2>8
    <3> QED  BY <2>4, <3>1, Writes
  <2>10. Visible' = [Visible EXCEPT ![id] = new]  BY <2>3, <2>6, VisiblePut
  <2>11. Visible[id] = seq  BY <2>3, VisibleIs
  <2>12. index + 1 \in 1 .. MaxLen  BY <2>6, <2>8
  <2>13. PICK i \in 1 .. MaxLen : i = index + 1  BY <2>12
  <2>14. Visible' = [Visible EXCEPT ![id] =
           [j \in 1 .. (IF i > Len(Visible[id]) THEN i ELSE Len(Visible[id])) |->
              IF j = i THEN x ELSE IF j <= Len(Visible[id]) THEN Visible[id][j] ELSE Zero]]
    BY <2>9, <2>10, <2>11, <2>13 DEF Written
  <2>15. Repeated(Items[id].type) /\ x \in Data \cup Inners  BY <2>2, <2>3
  <2> QED  BY <2>3, <2>7, <2>14, <2>15 DEF StoreMay
<1> QED  BY <1>3, <1>4

LEMMA SetMessageAtMay ==
  ASSUME TypeOK, ~strays, NEW id, NEW index \in Int, NEW inner \in Inners,
         SetMessageAt(id, index, inner)
  PROVE  StoreMay(Visible, Visible', AnswerOf(result'))
<1> DEFINE type == SEQ_MESSAGE
<1>0. PICK c : c = Call("setMessageAt", id, index, inner)  OBVIOUS
<1>1. PICK seq : seq = Opened(id, type)[id].seq  OBVIOUS
<1>2. PICK raised :
        /\ raised = IF OpenFault(id, type) # None THEN {OpenFault(id, type)}
                    ELSE IF index < 0 \/ index > Len(seq) THEN {"TypeException"} ELSE {}
        /\ IF raised = {} THEN Answer(c, None) ELSE \E e \in raised : Throw(c, e)
        /\ index >= 0 /\ index < MaxLen
        /\ values' = IF OpenFault(id, type) # None THEN values
                     ELSE Put(values, id, Value(type, StoreMessage(seq, index, inner)))
  <2>1. inner.id = id /\ index >= 0  BY DEF SetMessageAt, Allowed
  <2> QED  BY <1>0, <1>1, <2>1 DEF SetMessageAt
<1>3. c.op = "setMessageAt"  BY <1>0 DEF Call
<1>4. ASSUME raised # {}, Visible' = Visible
      PROVE  StoreMay(Visible, Visible', AnswerOf(result'))
  <2>1. PICK e \in raised : Throw(c, e)  BY <1>2, <1>4
  <2>2. e \in {"IdException", "TypeException"}  BY <1>2, FaultsAre
  <2>3. AnswerOf(result') = Refused  BY <2>1, <2>2, Throws
  <2> QED  BY <1>4, <2>3, RefuseMay
<1>5. CASE OpenFault(id, type) # None
  <2>1. values' = values /\ raised # {}  BY <1>2, <1>5
  <2> QED  BY <1>4, <2>1, VisibleIs
<1>6. CASE OpenFault(id, type) = None
  <2>1. type \in SEQ_BOOL .. SEQ_MESSAGE  BY DEF SEQ_BOOL, SEQ_MESSAGE
  <2>2. Repeated(type) /\ ElementsOf(type) = Inners  BY <2>1, ElementsAre
  <2>3. /\ id \in ItemIds /\ Items[id].type = type /\ seq = Get(id).seq
        /\ seq \in Seq(Inners) /\ Len(seq) <= MaxLen
    BY <1>1, <1>6, <2>1, <2>2, Opens
  <2> HIDE DEF type
  <2>4. Len(seq) \in Nat /\ MaxLen \in Nat  BY <2>3, JniAssumption
  <2>5. PICK new : new = StoreMessage(seq, index, inner)  OBVIOUS
  <2>6. values' = Put(values, id, Value(type, new))  BY <1>2, <1>6, <2>5
  <2>7. Visible' = [Visible EXCEPT ![id] = new]  BY <2>3, <2>6, VisiblePut
  <2>8. Visible[id] = seq /\ Visible = [i \in ItemIds |-> Visible[i]]
    BY <2>3, VisibleIs
  <2>9. CASE index > Len(seq)
    <3>1. new = seq  BY <1>2, <2>4, <2>5, <2>9 DEF StoreMessage
    <3>2. Visible' = Visible  BY <2>3, <2>7, <2>8, <3>1
    <3> QED  BY <1>2, <1>4, <1>6, <2>9, <3>2
  <2>10. CASE index <= Len(seq)
    <3>1. raised = {}  BY <1>2, <1>6, <2>4, <2>10
    <3>2. AnswerOf(result') = None  BY <1>2, <1>3, <3>1, Answers
    <3>3. PICK i \in 1 .. MaxLen : i = index + 1  BY <1>2, <2>4
    <3>4. new = [j \in 1 .. (IF i > Len(seq) THEN i ELSE Len(seq)) |->
                   IF j = i THEN inner ELSE IF j <= Len(seq) THEN seq[j] ELSE Zero]
      <4>1. CASE index < Len(seq)
        <5>1. new = [seq EXCEPT ![index + 1] = inner]  BY <1>2, <2>5, <4>1 DEF StoreMessage
        <5>2. ~(i > Len(seq)) /\ i \in 1 .. Len(seq)  BY <2>4, <3>3, <4>1, <1>2
        <5>3. DOMAIN seq = 1 .. Len(seq)  BY <2>3
        <5>4. new = [j \in 1 .. Len(seq) |-> IF j = i THEN inner ELSE seq[j]]
          BY <3>3, <5>1, <5>2, <5>3
        <5>5. \A j \in 1 .. Len(seq) : j <= Len(seq)  BY <2>4
        <5> QED  BY <5>2, <5>4, <5>5
      <4>2. CASE index = Len(seq)
        <5>1. new = Append(seq, inner)  BY <2>4, <2>5, <4>2 DEF StoreMessage
        <5>2. i = Len(seq) + 1 /\ i > Len(seq)  BY <2>4, <3>3, <4>2
        <5>3. Append(seq, inner) = [j \in 1 .. Len(seq) + 1 |->
                                      IF j <= Len(seq) THEN seq[j] ELSE inner]
          BY <2>3, <2>4
        <5>4. \A j \in 1 .. i : (IF j = i THEN inner ELSE IF j <= Len(seq) THEN seq[j] ELSE Zero)
                                = IF j <= Len(seq) THEN seq[j] ELSE inner
          BY <2>4, <5>2
        <5> QED  BY <5>1, <5>2, <5>3, <5>4
      <4> QED  BY <2>4, <2>10, <4>1, <4>2
    <3>5. Visible' = [Visible EXCEPT ![id] =
             [j \in 1 .. (IF i > Len(Visible[id]) THEN i ELSE Len(Visible[id])) |->
                IF j = i THEN inner ELSE IF j <= Len(Visible[id]) THEN Visible[id][j] ELSE Zero]]
      BY <2>7, <2>8, <3>4
    <3>6. Repeated(Items[id].type) /\ inner \in Data \cup Inners  BY <2>2, <2>3
    <3> QED  BY <2>3, <3>2, <3>5, <3>6 DEF StoreMay
  <2> QED  BY <2>4, <2>9, <2>10
<1> QED  BY <1>5, <1>6

LEMMA EraseMay ==
  ASSUME NEW id, Erase(id)
  PROVE  StoreMay(Visible, Visible', AnswerOf(result'))
<1>1. PICK c : c = Call("erase", id, 0, None)  OBVIOUS
<1>2. values' = Without(values, id) /\ Answer(c, None)  BY <1>1 DEF Erase
<1>3. AnswerOf(result') = None  BY <1>2, Answers
<1>4. CASE id \in ItemIds
  <2>1. Visible' = [Visible EXCEPT ![id] = Items[id].default.seq]  BY <1>2, <1>4, VisibleWithout
  <2> QED  BY <1>3, <1>4, <2>1 DEF StoreMay
<1>5. CASE id \notin ItemIds  BY <1>2, <1>3, <1>5, VisibleWithout, RefuseMay
<1> QED  BY <1>4, <1>5

LEMMA GetSingleMay ==
  ASSUME TypeOK, NEW id, NEW type \in BOOL .. MESSAGE, GetSingle(id, type)
  PROVE  StoreMay(Visible, Visible', AnswerOf(result'))
<1>1. PICK c : c = Call("get", id, 0, None)  OBVIOUS
<1>2. c.op = "get" /\ values' = values  BY <1>1 DEF Call, GetSingle
<1>3. CASE GetFault(id, type) # None
  <2>1. Throw(c, GetFault(id, type))  BY <1>1, <1>3 DEF GetSingle
  <2>2. AnswerOf(result') = Refused  BY <1>3, <2>1, FaultsAre, Throws
  <2> QED  BY <1>2, <2>2, VisibleIs, RefuseMay
<1>4. CASE GetFault(id, type) = None
  <2>1. id \in ItemIds /\ Get(id).type = type  BY <1>4, JniAssumption DEF GetFault
  <2>2. Answer(c, Get(id).seq[1])  BY <1>1, <1>4 DEF GetSingle
  <2>3. AnswerOf(result') = Get(id).seq[1]  BY <1>2, <2>2, Answers
  <2>4. Len(Get(id).seq) = 1
    <3>1. ~Repeated(type)  BY ElementsAre
    <3>2. CASE id \in DOMAIN values
      <4>1. ValueOK(id, values[id]) /\ Get(id) = values[id]  BY <3>2, TypeOKIs DEF Get
      <4> QED  BY <2>1, <3>1, <4>1 DEF ValueOK
    <3>3. CASE id \notin DOMAIN values
      <4>1. Get(id) = Items[id].default  BY <3>3 DEF Get
      <4> QED  BY <2>1, <3>1, <4>1, ItemsAre
    <3> QED  BY <3>2, <3>3
  <2>5. PICK i \in Nat \ {0} : i = 1  OBVIOUS
  <2>6. i <= Len(Get(id).seq) /\ AnswerOf(result') = Get(id).seq[i]  BY <2>3, <2>4, <2>5
  <2> QED  BY <1>2, <2>1, <2>6, ElementMay
<1> QED  BY <1>3, <1>4

LEMMA GetElementMay ==
  ASSUME TypeOK, NEW id, NEW type, NEW index \in Int, GetElement(id, type, index)
  PROVE  StoreMay(Visible, Visible', AnswerOf(result'))
<1>1. PICK c : c = Call("getElement", id, index, None)  OBVIOUS
<1>2. c.op = "getElement" /\ values' = values  BY <1>1 DEF Call, GetElement
<1>3. CASE GetFault(id, type) # None
  <2>1. Throw(c, GetFault(id, type))  BY <1>1, <1>3 DEF GetElement
  <2>2. AnswerOf(result') = Refused  BY <1>3, <2>1, FaultsAre, Throws
  <2> QED  BY <1>2, <2>2, VisibleIs, RefuseMay
<1>4. CASE GetFault(id, type) = None /\ (index < 0 \/ index >= Len(Get(id).seq))
  <2>1. Throw(c, "OutOfRangeException")  BY <1>1, <1>4 DEF GetElement
  <2>2. AnswerOf(result') = Refused  BY <2>1, Throws
  <2> QED  BY <1>2, <2>2, VisibleIs, RefuseMay
<1>5. CASE GetFault(id, type) = None /\ ~(index < 0 \/ index >= Len(Get(id).seq))
  <2>1. id \in ItemIds  BY <1>5, JniAssumption DEF GetFault
  <2>2. Answer(c, Get(id).seq[index + 1])  BY <1>1, <1>5 DEF GetElement
  <2>3. AnswerOf(result') = Get(id).seq[index + 1]  BY <1>2, <2>2, Answers
  <2>4. Len(Get(id).seq) \in Nat
    <3>1. CASE id \in DOMAIN values
      <4>1. ValueOK(id, values[id]) /\ Get(id) = values[id]  BY <3>1, TypeOKIs DEF Get
      <4> QED  BY <4>1 DEF ValueOK
    <3>2. CASE id \notin DOMAIN values
      <4>1. Get(id) = Items[id].default  BY <3>2 DEF Get
      <4>2. Items[id].default.seq = <<>> \/ Len(Items[id].default.seq) = 1  BY <2>1, ItemsAre
      <4> QED  BY <4>1, <4>2
    <3> QED  BY <3>1, <3>2
  <2>5. PICK i \in Nat \ {0} : i = index + 1  BY <1>5
  <2>6. i <= Len(Get(id).seq) /\ AnswerOf(result') = Get(id).seq[i]  BY <1>5, <2>3, <2>4, <2>5
  <2> QED  BY <1>2, <2>1, <2>6, ElementMay
<1> QED  BY <1>3, <1>4, <1>5

LEMMA GetSeqSizeMay ==
  ASSUME NEW id, GetSeqSize(id)
  PROVE  StoreMay(Visible, Visible', AnswerOf(result'))
<1>1. PICK c : c = Call("getSeqSize", id, 0, None)  OBVIOUS
<1>2. c.op = "getSeqSize" /\ values' = values  BY <1>1 DEF Call, GetSeqSize
<1>3. Visible' = Visible  BY <1>2, VisibleIs
<1>4. CASE id \notin ItemIds
  <2>1. Throw(c, "IdException")  BY <1>1, <1>4 DEF GetSeqSize
  <2>2. AnswerOf(result') = Refused  BY <2>1, Throws
  <2> QED  BY <1>3, <2>2, RefuseMay
<1>5. CASE id \in ItemIds
  <2>1. PICK n : n = IF Repeated(Items[id].type) THEN Len(Visible[id]) ELSE 0  OBVIOUS
  <2>2. Answer(c, [size |-> n])
    BY <1>1, <1>5, <2>1, VisibleIs DEF GetSeqSize
  <2>3. AnswerOf(result') = [size |-> n]  BY <1>2, <2>2, Answers
  <2> QED  BY <1>3, <1>5, <2>1, <2>3 DEF StoreMay
<1> QED  BY <1>4, <1>5

LEMMA DescribeMay ==
  ASSUME (\E id \in AllIds : Describe(id)) \/ DescribeMessage
  PROVE  StoreMay(Visible, Visible', AnswerOf(result'))
<1>1. values' = values  BY DEF Describe, DescribeMessage
<1>2. PICK c : /\ c.op = "describe"
               /\ Throw(c, "IdException") \/ \E a : Answer(c, a)
  <2>1. CASE DescribeMessage
    <3>1. PICK c : c = Call("describe", 0, 0, None)  OBVIOUS
    <3>2. c.op = "describe"  BY <3>1 DEF Call
    <3> QED  BY <2>1, <3>1, <3>2 DEF DescribeMessage
  <2>2. CASE \E id \in AllIds : Describe(id)
    <3>1. PICK id \in AllIds : Describe(id)  BY <2>2
    <3>2. PICK c : c = Call("describe", id, 0, None)  OBVIOUS
    <3>3. c.op = "describe"  BY <3>2 DEF Call
    <3>4. Throw(c, "IdException") \/ \E a : Answer(c, a)  BY <3>1, <3>2 DEF Describe
    <3> QED  BY <3>3, <3>4
  <2> QED  BY <2>1, <2>2
<1>3. AnswerOf(result') \in {Refused, None}
  <2>1. CASE Throw(c, "IdException")  BY <2>1, Throws
  <2>2. CASE \E a : Answer(c, a)  BY <1>2, <2>2, Answers
  <2> QED  BY <1>2, <2>1, <2>2
<1> QED  BY <1>1, <1>3, VisibleIs, RefuseMay

LEMMA StraysStay == Next => strays' = strays
<1> SUFFICES ASSUME Next PROVE strays' = strays  OBVIOUS
<1>1. ASSUME NEW id, Erase(id) \/ GetSeqSize(id) \/ Describe(id) PROVE strays' = strays
  BY <1>1 DEF Erase, GetSeqSize, Describe
<1>2. ASSUME NEW id, NEW x, NEW t, SetPrimitive(id, t, x) \/ SetMessage(id, x) PROVE strays' = strays
  BY <1>2 DEF SetPrimitive, SetMessage, Set
<1>3. ASSUME NEW id, NEW x, NEW t, NEW n, SetElement(id, t, n, x) PROVE strays' = strays
  BY <1>3 DEF SetElement, WriteElement
<1>4. ASSUME NEW id, NEW x, NEW n, SetMessageAt(id, n, x) PROVE strays' = strays
  BY <1>4 DEF SetMessageAt
<1>5. ASSUME NEW id, NEW t, NEW n, GetSingle(id, t) \/ GetElement(id, t, n) PROVE strays' = strays
  BY <1>5 DEF GetSingle, GetElement
<1>6. CASE DescribeMessage  BY <1>6 DEF DescribeMessage
<1> QED  BY <1>1, <1>2, <1>3, <1>4, <1>5, <1>6 DEF Next

LEMMA NextMay ==
  ASSUME TypeOK, ~strays, Next
  PROVE  StoreMay(Visible, Visible', AnswerOf(result'))
<1> DEFINE May == StoreMay(Visible, Visible', AnswerOf(result'))
<1>1. ASSUME NEW id \in AllIds, Erase(id) \/ GetSeqSize(id) \/ Describe(id) PROVE May
  BY <1>1, EraseMay, GetSeqSizeMay, DescribeMay
<1>2. ASSUME NEW id \in AllIds, NEW x \in Data, NEW t \in BOOL .. STRING_T, SetPrimitive(id, t, x)
      PROVE  May
  <2>1. PICK c : c = Call("set", id, 0, x)  OBVIOUS
  <2>2. c.arg = x /\ c.op = "set"  BY <2>1 DEF Call
  <2>3. t \in BOOL .. MESSAGE  BY DEF BOOL, STRING_T, MESSAGE
  <2> QED  BY <1>2, <2>1, <2>2, <2>3, SetMay DEF SetPrimitive
<1>3. ASSUME NEW id \in AllIds, NEW x \in Inners, SetMessage(id, x) PROVE May
  <2>1. PICK c : c = Call("set", id, 0, x)  OBVIOUS
  <2>2. c.arg = x /\ c.op = "set"  BY <2>1 DEF Call
  <2>3. MESSAGE \in BOOL .. MESSAGE  BY DEF BOOL, MESSAGE
  <2> QED  BY <1>3, <2>1, <2>2, <2>3, SetMay DEF SetMessage
<1>4. ASSUME NEW id \in AllIds, NEW x \in Data, NEW t \in SEQ_BOOL .. SEQ_STRING, NEW n \in Indexes,
             SetElement(id, t, n, x)
      PROVE  May
  BY <1>4, JniAssumption, SetElementMay
<1>5. ASSUME NEW id \in AllIds, NEW x \in Inners, NEW n \in Indexes, SetMessageAt(id, n, x) PROVE May
  BY <1>5, JniAssumption, SetMessageAtMay
<1>6. ASSUME NEW id \in AllIds, NEW t \in BOOL .. MESSAGE, GetSingle(id, t) PROVE May
  BY <1>6, GetSingleMay
<1>7. ASSUME NEW id \in AllIds, NEW t, NEW n \in Indexes, GetElement(id, t, n) PROVE May
  BY <1>7, JniAssumption, GetElementMay
<1> HIDE DEF May
<1>9. May
  <2>1. CASE ~DescribeMessage
    <3>1. PICK id \in AllIds :
            \/ Erase(id) \/ GetSeqSize(id) \/ Describe(id)
            \/ \E x \in Data : \E t \in BOOL .. STRING_T : SetPrimitive(id, t, x)
            \/ \E x \in Data : \E t \in SEQ_BOOL .. SEQ_STRING, n \in Indexes : SetElement(id, t, n, x)
            \/ \E x \in Inners : SetMessage(id, x)
            \/ \E x \in Inners : \E n \in Indexes : SetMessageAt(id, n, x)
            \/ \E t \in BOOL .. MESSAGE : GetSingle(id, t)
            \/ \E t \in SEQ_BOOL .. SEQ_MESSAGE, n \in Indexes : GetElement(id, t, n)
      BY <2>1, Zenon DEF Next
    <3>2. CASE Erase(id) \/ GetSeqSize(id) \/ Describe(id)  BY <1>1, <3>2
    <3>3. CASE \E x \in Data : \E t \in BOOL .. STRING_T : SetPrimitive(id, t, x)
      BY <1>2, <3>3
    <3>4. CASE \E x \in Data : \E t \in SEQ_BOOL .. SEQ_STRING, n \in Indexes : SetElement(id, t, n, x)
      BY <1>4, <3>4
    <3>5. CASE \E x \in Inners : SetMessage(id, x)  BY <1>3, <3>5
    <3>6. CASE \E x \in Inners : \E n \in Indexes : SetMessageAt(id, n, x)  BY <1>5, <3>6
    <3>7. CASE \E t \in BOOL .. MESSAGE : GetSingle(id, t)  BY <1>6, <3>7
    <3>8. CASE \E t \in SEQ_BOOL .. SEQ_MESSAGE, n \in Indexes : GetElement(id, t, n)
      BY <1>7, <3>8
    <3> QED  BY <3>1, <3>2, <3>3, <3>4, <3>5, <3>6, <3>7, <3>8
  <2>2. CASE DescribeMessage  BY <2>2, DescribeMay DEF May
  <2> QED  BY <2>1, <2>2
<1> QED  BY <1>9 DEF May

\* For a program that keeps to the documentation, the native functions implement RecordStore:
\* a call that throws has done nothing that a getter can tell, one that succeeds has changed
\* the element it names, and what a getter answers is the content, for any message.
THEOREM JniImplementsStore == Spec => ImplementsStore
<1> DEFINE content == IF strays THEN [id \in ItemIds |-> Items[id].default.seq] ELSE Visible
           answer == IF strays THEN None
                     ELSE IF result.threw # None THEN Refused
                     ELSE IF result.op = "describe" THEN None ELSE result.answer
<1>1. Init => Store!Init
  <2> SUFFICES ASSUME Init PROVE Store!Init  OBVIOUS
  <2>1. Visible = [id \in ItemIds |-> Items[id].default.seq]  BY DEF Init, Visible, Get
  <2>2. result.threw = None /\ result.answer = None  BY DEF Init
  <2> QED  BY <2>1, <2>2 DEF Store!Init
<1>2. TypeOK /\ [Next]_vars => [Store!Next]_<<content, answer>>
  <2> SUFFICES ASSUME TypeOK, [Next]_vars PROVE [Store!Next]_<<content, answer>>  OBVIOUS
  <2>1. CASE UNCHANGED vars
    <3>1. Visible' = Visible /\ strays' = strays /\ result' = result
      BY <2>1, VisibleIs DEF vars
    <3> QED  BY <3>1
  <2>2. CASE Next /\ strays
    <3>1. strays'  BY <2>2, StraysStay
    <3> QED  BY <2>2, <3>1
  <2>3. CASE Next /\ ~strays
    <3>1. ~strays'  BY <2>3, StraysStay
    <3>2. Store!Next  BY <2>3, <3>1, NextMay, StoreMays
    <3> QED  BY <3>2
  <2> QED  BY <2>1, <2>2, <2>3
<1> QED  BY <1>1, <1>2, JniTypeCorrect, PTL DEF Spec, ImplementsStore, Store!Spec
=============================================================================
