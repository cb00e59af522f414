------------------------ MODULE DicoChecksum_proofs ------------------------
(***************************************************************************)
(* What the headers of two Serializers say of their dictionaries, for all  *)
(* dictionaries, in whatever order each of them adds up its definitions.   *)
(*                                                                         *)
(* Each loop keeps its sum equal to the exclusive or of what it has added  *)
(* (SumsInv).  At the end that is a function of the set of definitions.    *)
(* Equal contributions give equal sums; if one contribution differs in a   *)
(* bit and no other does, the numbers of definitions that set the bit      *)
(* differ by one, and so do their parities.  Folding and the header keep   *)
(* the 16 low bits.                                                        *)
(***************************************************************************)
EXTENDS DicoChecksum, FiniteSetTheorems, TLAPS

Word == 0 .. WordWidth - 1

\* The exclusive or of what the definitions of a set contribute.
Sum(k, ids) == XorAll([i \in ids |-> Contribution(dic[k], i, build[k])])

SumsTyped == /\ dic \in [Both -> Dicos] /\ build \in [Both -> Build]
             /\ cs \in [Both -> SUBSET Word]
             /\ todo \in [Both -> SUBSET Ids]
             /\ \A k \in Both : todo[k] \subseteq Named(dic[k])

SumsInv == /\ SumsTyped
           /\ \A k \in Both : cs[k] = Sum(k, Named(dic[k]) \ todo[k])

-----------------------------------------------------------------------------
(* Words.                                                                  *)

LEMMA XorLow == ASSUME NEW S, NEW T PROVE Low(Xor(S, T)) = Xor(Low(S), Low(T))
  BY DEF Low, Xor

LEMMA XorWord == ASSUME NEW S \in SUBSET Word, NEW T \in SUBSET Word
                 PROVE  Xor(S, T) \in SUBSET Word
  BY DEF Xor

LEMMA ShiftIsWord == ASSUME NEW S, NEW k, NEW wrap PROVE Shift(S, k, wrap) \in SUBSET Word
<1>1. ASSUME NEW l PROVE ShiftInt(S, l) \in SUBSET Word
  BY DEF ShiftInt, Extended, Word, IntWidth, WordWidth
<1> QED  BY <1>1 DEF Shift

LEMMA ContributionIsWord ==
  ASSUME NEW d, NEW i, NEW bld PROVE Contribution(d, i, bld) \in SUBSET Word
<1>1. OfType(d, i, bld) \in SUBSET Word  BY ShiftIsWord DEF OfType
<1>2. OfName(d, i, bld) \in SUBSET Word  BY DEF OfName, XorAll, Word
<1>3. OfItems(d, i, bld) \in SUBSET Word  BY DEF OfItems, XorAll, Word
<1>4. CASE i \in Named(d)
  <2>1. Xor(OfType(d, i, bld), OfName(d, i, bld)) \in SUBSET Word  BY <1>1, <1>2, XorWord
  <2> QED  BY <2>1, <1>3, <1>4, XorWord DEF Contribution
<1>5. CASE i \notin Named(d)  BY <1>5 DEF Contribution
<1> QED  BY <1>4, <1>5

(* Folding shifts everything else out of the low bits.                     *)
LEMMA FoldedLow == ASSUME NEW S \in SUBSET Word PROVE Low(Folded(S)) = Low(S)
<1>1. ASSUME NEW k \in Nat, k >= 16 PROVE Low(ShiftWord(S, k)) = {}
  BY <1>1 DEF Low, ShiftWord, Word, WordWidth
<1>2. /\ Low(ShiftWord(S, 16)) = {} /\ Low(ShiftWord(S, 32)) = {}
      /\ Low(ShiftWord(S, 48)) = {}
  BY <1>1
<1>3. Low(Folded(S)) = Xor(Low(Xor(S, ShiftWord(S, 16))),
                           Low(Xor(ShiftWord(S, 32), ShiftWord(S, 48))))
  BY XorLow DEF Folded
<1>4. /\ Low(Xor(S, ShiftWord(S, 16))) = Xor(Low(S), {})
      /\ Low(Xor(ShiftWord(S, 32), ShiftWord(S, 48))) = Xor({}, {})
  <2>1. Low(Xor(S, ShiftWord(S, 16))) = Xor(Low(S), Low(ShiftWord(S, 16)))
    BY XorLow
  <2>2. Low(Xor(ShiftWord(S, 32), ShiftWord(S, 48)))
          = Xor(Low(ShiftWord(S, 32)), Low(ShiftWord(S, 48)))
    BY XorLow
  <2> QED  BY <1>2, <2>1, <2>2
<1> QED  BY <1>3, <1>4 DEF Xor

LEMMA HeadersOfLow ==
  ASSUME NEW v, NEW w, NEW S, NEW T
  PROVE  /\ Header(v, S) = Header(w, T) => Low(S) = Low(T)
         /\ v = w /\ Low(S) = Low(T) => Header(v, S) = Header(w, T)
<1>1. /\ S \cap 8 .. 15 = Low(S) \cap 8 .. 15 /\ S \cap 0 .. 7 = Low(S) \cap 0 .. 7
      /\ T \cap 8 .. 15 = Low(T) \cap 8 .. 15 /\ T \cap 0 .. 7 = Low(T) \cap 0 .. 7
  BY DEF Low
<1>2. /\ Low(S) = (S \cap 8 .. 15) \cup (S \cap 0 .. 7)
      /\ Low(T) = (T \cap 8 .. 15) \cup (T \cap 0 .. 7)
  BY DEF Low
<1>3. Header(v, S) = Header(w, T) => S \cap 8 .. 15 = T \cap 8 .. 15 /\ S \cap 0 .. 7 = T \cap 0 .. 7
  BY DEF Header
<1> QED  BY <1>1, <1>2, <1>3 DEF Header

-----------------------------------------------------------------------------
(* Sums of words.                                                          *)

\* Adding a word flips the parity of exactly its bits.
LEMMA XorAllAdd ==
  ASSUME NEW g, NEW S, IsFiniteSet(S), NEW i, i \notin S, g[i] \in SUBSET Word
  PROVE  XorAll([x \in S \cup {i} |-> g[x]]) = Xor(XorAll([x \in S |-> g[x]]), g[i])
<1> DEFINE F == [x \in S \cup {i} |-> g[x]]
           G == [x \in S |-> g[x]]
<1>1. ASSUME NEW b \in Word PROVE b \in XorAll(F) <=> b \in Xor(XorAll(G), g[i])
  <2> DEFINE A == {x \in S : b \in g[x]}
  <2>1. IsFiniteSet(A) /\ i \notin A /\ Cardinality(A) \in Nat
    BY FS_Subset, FS_CardinalityType
  <2>2. Cardinality(A \cup {i}) = Cardinality(A) + 1  BY <2>1, FS_AddElement
  <2>3. {x \in DOMAIN G : b \in G[x]} = A  OBVIOUS
  <2>4. {x \in DOMAIN F : b \in F[x]} = IF b \in g[i] THEN A \cup {i} ELSE A  OBVIOUS
  <2>5. b \in XorAll(G) <=> Cardinality(A) % 2 = 1  BY <2>3 DEF XorAll, Word
  <2>6. b \in XorAll(F) <=> Cardinality({x \in DOMAIN F : b \in F[x]}) % 2 = 1
    BY DEF XorAll, Word
  <2> HIDE DEF A, F, G
  <2>7. CASE b \in g[i]
    <3>1. b \in XorAll(F) <=> (Cardinality(A) + 1) % 2 = 1  BY <2>7, <2>2, <2>4, <2>6
    <3>2. (Cardinality(A) + 1) % 2 = 1 <=> Cardinality(A) % 2 # 1  BY <2>1
    <3> QED  BY <2>7, <3>1, <3>2, <2>5 DEF Xor
  <2>8. CASE b \notin g[i]  BY <2>8, <2>4, <2>5, <2>6 DEF Xor
  <2> QED  BY <2>7, <2>8
<1>2. XorAll(F) \in SUBSET Word /\ XorAll(G) \in SUBSET Word  BY DEF XorAll, Word
<1>3. Xor(XorAll(G), g[i]) \in SUBSET Word  BY <1>2, XorWord
<1> HIDE DEF F, G
<1>4. XorAll(F) = Xor(XorAll(G), g[i])  BY <1>1, <1>2, <1>3
<1> QED  BY <1>4 DEF F, G

LEMMA NamedIsFinite ==
  ASSUME SumsTyped, NEW k \in Both
  PROVE  Named(dic[k]) \subseteq Ids \ {0} /\ IsFiniteSet(Named(dic[k]))
<1>1. dic[k] \in Dicos  BY DEF SumsTyped
<1>2. Named(dic[k]) \subseteq Ids \ {0}  BY <1>1, ChecksumAssumption DEF Named
<1>3. IsFiniteSet(Ids)  BY ModelAssumption, FS_Interval DEF Ids
<1> QED  BY <1>2, <1>3, FS_Subset

-----------------------------------------------------------------------------
(* The invariant.                                                          *)

LEMMA SumsInit == Init => SumsInv
<1> SUFFICES ASSUME Init PROVE SumsInv  OBVIOUS
<1>1. ASSUME NEW k \in Both PROVE todo[k] = Named(dic[k]) /\ cs[k] = {}
  BY DEF Init
<1>2. \A k \in Both : Named(dic[k]) \subseteq Ids
  BY ChecksumAssumption DEF Init, Named
<1>3. SumsTyped  BY <1>1, <1>2 DEF Init, SumsTyped
<1>4. ASSUME NEW k \in Both PROVE Sum(k, {}) = {}
  <2>1. \A b : {x \in {} : b \in Contribution(dic[k], x, build[k])} = {}  OBVIOUS
  <2>2. Cardinality({}) % 2 # 1  BY FS_EmptySet
  <2> QED  BY <2>1, <2>2 DEF Sum, XorAll
<1> QED  BY <1>1, <1>3, <1>4 DEF SumsInv

LEMMA SumsStep == SumsInv /\ [Next]_vars => SumsInv'
<1> SUFFICES ASSUME SumsInv, [Next]_vars PROVE SumsInv'  OBVIOUS
<1>1. CASE UNCHANGED vars  BY <1>1 DEF vars, SumsInv, SumsTyped, Sum
<1>2. CASE Next
  <2> PICK k \in Both : \E i \in todo[k] : AddDefinition(k, i)  BY <1>2 DEF Next
  <2> PICK i \in todo[k] : AddDefinition(k, i)  OBVIOUS
  <2> DEFINE C == Contribution(dic[k], i, build[k])
             S == Named(dic[k]) \ todo[k]
  <2>1. /\ todo' = [todo EXCEPT ![k] = @ \ {i}]
        /\ cs' = [cs EXCEPT ![k] = Xor(@, C)]
        /\ dic' = dic /\ build' = build
    BY DEF AddDefinition
  <2>2. SumsTyped  BY DEF SumsInv
  <2>3. SumsTyped'
    <3>1. C \in SUBSET Word  BY ContributionIsWord
    <3>2. Xor(cs[k], C) \in SUBSET Word  BY <2>2, <3>1, XorWord DEF SumsTyped
    <3> HIDE DEF C
    <3> QED  BY <2>1, <2>2, <3>2 DEF SumsTyped
  <2>4. /\ todo'[k] = todo[k] \ {i} /\ cs'[k] = Xor(cs[k], C)
        /\ i \in Named(dic[k]) /\ i \notin S
    BY <2>1, <2>2 DEF SumsTyped
  <2>5. Named(dic[k]) \ todo'[k] = S \cup {i}  BY <2>4
  <2>6. Sum(k, S \cup {i}) = Xor(Sum(k, S), C)
    <3> DEFINE g == [x \in S \cup {i} |-> Contribution(dic[k], x, build[k])]
    <3>1. IsFiniteSet(S)  BY <2>2, NamedIsFinite, FS_Subset
    <3>2. g[i] = C /\ g[i] \in SUBSET Word  BY ContributionIsWord
    <3>3. /\ [x \in S \cup {i} |-> g[x]] = [x \in S \cup {i} |-> Contribution(dic[k], x, build[k])]
          /\ [x \in S |-> g[x]] = [x \in S |-> Contribution(dic[k], x, build[k])]
      OBVIOUS
    <3> HIDE DEF g, C
    <3>4. XorAll([x \in S \cup {i} |-> g[x]]) = Xor(XorAll([x \in S |-> g[x]]), g[i])
      BY <2>4, <3>1, <3>2, XorAllAdd
    <3> QED  BY <3>2, <3>3, <3>4 DEF Sum
  <2>7. ASSUME NEW l \in Both PROVE cs'[l] = Sum(l, Named(dic[l]) \ todo'[l])
    <3>1. CASE l = k  BY <3>1, <2>4, <2>5, <2>6 DEF SumsInv
    <3>2. CASE l # k  BY <3>2, <2>1, <2>2 DEF SumsInv, SumsTyped
    <3> QED  BY <3>1, <3>2
  <2>8. \A l \in Both : Sum(l, Named(dic[l]) \ todo'[l])
                        = Sum(l, Named(dic[l]) \ todo[l])'
    BY <2>1 DEF Sum
  <2> HIDE DEF C, S
  <2> QED  BY <2>1, <2>3, <2>7, <2>8 DEF SumsInv
<1> QED  BY <1>1, <1>2 DEF Next

\* At the end a sum is that of all definitions, whatever the order was.
LEMMA SumsAtTheEnd ==
  ASSUME SumsInv, Done, NEW k \in Both PROVE cs[k] = Sum(k, Named(dic[k]))
<1>1. Named(dic[k]) \ todo[k] = Named(dic[k])  BY DEF Done
<1> QED  BY <1>1 DEF SumsInv

LEMMA HeadersTold ==
  ASSUME SumsInv
  PROVE  /\ SameHeaders => Low(cs[1]) = Low(cs[2])
         /\ Low(cs[1]) = Low(cs[2]) /\ dic[1].version = dic[2].version => SameHeaders
<1>1. Low(Folded(cs[1])) = Low(cs[1]) /\ Low(Folded(cs[2])) = Low(cs[2])
  BY FoldedLow DEF SumsInv, SumsTyped, Both
<1> QED  BY <1>1, HeadersOfLow DEF SameHeaders, HeaderOf

-----------------------------------------------------------------------------
(* The same definitions: they contribute the same in one build, and in all *)
(* builds where nothing depends on them.                                   *)

LEMMA NarrowShift ==
  ASSUME NEW S, NEW k, k < IntWidth, NEW w1, NEW w2 PROVE Shift(S, k, w1) = Shift(S, k, w2)
  BY DEF Shift

LEMMA AsciiBits ==
  ASSUME NEW n \in 0 .. 127, NEW s1, NEW s2 PROVE CharBits(n, s1) = CharBits(n, s2)
  BY DEF CharBits

LEMMA SameContribution ==
  ASSUME SameDefinitions, build[1] = build[2] \/ Portable(dic[1]), NEW i \in Ids
  PROVE  Contribution(dic[1], i, build[1]) = Contribution(dic[2], i, build[2])
<1>1. /\ Named(dic[1]) = Named(dic[2])
      /\ dic[1].fields[i].name = dic[2].fields[i].name
      /\ dic[1].fields[i].type = dic[2].fields[i].type
      /\ DOMAIN dic[1].fields[i].items = DOMAIN dic[2].fields[i].items
  BY DEF SameDefinitions, Named
<1>2. CASE i \notin Named(dic[1])  BY <1>1, <1>2 DEF Contribution
<1>3. CASE i \in Named(dic[1])
  <2> DEFINE name == Chars[dic[1].fields[i].name]
             items == DOMAIN dic[1].fields[i].items
             Letter(p, b) == Shift(CharBits(name[p], b.signed), (i + p - 1) % 59, b.wraps)
             Referred(d, j, b) == Shift(BitsOf(FieldOf(d, j).type), (i + j) % 60, b.wraps)
  <2>1. OfType(dic[1], i, build[1]) = OfType(dic[2], i, build[2])
    <3>1. CASE build[1] = build[2]  BY <1>1, <3>1 DEF OfType
    <3>2. CASE Portable(dic[1])
      BY <1>1, <1>3, <3>2, NarrowShift DEF OfType, Portable
    <3> QED  BY <3>1, <3>2
  <2>2. OfName(dic[1], i, build[1]) = OfName(dic[2], i, build[2])
    <3>1. ASSUME NEW p \in DOMAIN name PROVE Letter(p, build[1]) = Letter(p, build[2])
      <4>1. CASE build[1] = build[2]  BY <4>1
      <4>2. CASE Portable(dic[1])
        <5>1. (i + p - 1) % 59 < IntWidth /\ name[p] \in 0 .. 127
          BY <1>3, <4>2 DEF Portable
        <5>2. CharBits(name[p], build[1].signed) = CharBits(name[p], build[2].signed)
          BY <5>1, AsciiBits
        <5> QED  BY <5>1, <5>2, NarrowShift
      <4> QED  BY <4>1, <4>2
    <3>2. [p \in DOMAIN name |-> Letter(p, build[1])] = [p \in DOMAIN name |-> Letter(p, build[2])]
      BY <3>1
    <3> QED  BY <1>1, <3>2 DEF OfName
  <2>3. OfItems(dic[1], i, build[1]) = OfItems(dic[2], i, build[2])
    <3>1. ASSUME NEW j \in items
          PROVE  Referred(dic[1], j, build[1]) = Referred(dic[2], j, build[2])
      <4>1. FieldOf(dic[1], j).type = FieldOf(dic[2], j).type
        <5>1. 0 \in Ids  BY ModelAssumption DEF Ids
        <5> QED  BY <5>1 DEF FieldOf, SameDefinitions
      <4>2. CASE build[1] = build[2]  BY <4>1, <4>2
      <4>3. CASE Portable(dic[1])
        <5>1. (i + j) % 60 < IntWidth  BY <1>3, <4>3 DEF Portable
        <5> QED  BY <4>1, <5>1, NarrowShift
      <4> QED  BY <4>2, <4>3
    <3>2. [j \in items |-> Referred(dic[1], j, build[1])]
            = [j \in items |-> Referred(dic[2], j, build[2])]
      BY <3>1
    <3> QED  BY <1>1, <3>2 DEF OfItems
  <2> QED  BY <1>1, <2>1, <2>2, <2>3 DEF Contribution
<1> QED  BY <1>2, <1>3

LEMMA SameSums ==
  ASSUME SumsInv, Done, SameDefinitions, build[1] = build[2] \/ Portable(dic[1])
  PROVE  cs[1] = cs[2]
<1> DEFINE ids == Named(dic[1])
<1>1. ids \subseteq Ids  BY NamedIsFinite DEF SumsInv, Both
<1>2. Named(dic[2]) = ids  BY DEF SameDefinitions, Named
<1> HIDE DEF ids
<1>3. [i \in ids |-> Contribution(dic[1], i, build[1])]
        = [i \in ids |-> Contribution(dic[2], i, build[2])]
  BY <1>1, SameContribution
<1>4. Sum(1, ids) = Sum(2, ids)  BY <1>3 DEF Sum
<1> QED  BY <1>2, <1>4, SumsAtTheEnd DEF ids, Both

-----------------------------------------------------------------------------
(* One change.                                                             *)

\* The definitions of a dictionary that set a bit; no others do.
Setting(k, b) == {i \in Summed : b \in Contribution(dic[k], i, build[k])}

LEMMA BitOfSum ==
  ASSUME SumsInv, Done, NEW k \in Both, NEW b \in Word
  PROVE  /\ IsFiniteSet(Setting(k, b))
         /\ b \in cs[k] <=> Cardinality(Setting(k, b)) % 2 = 1
<1>1. SumsTyped  BY DEF SumsInv
<1>2. Setting(k, b) = {i \in Named(dic[k]) : b \in Contribution(dic[k], i, build[k])}
  <2>1. Named(dic[k]) \subseteq Summed  BY DEF Summed, Both
  <2>2. \A i : b \in Contribution(dic[k], i, build[k]) => i \in Named(dic[k])
    BY DEF Contribution
  <2> QED  BY <2>1, <2>2 DEF Setting
<1>3. IsFiniteSet(Setting(k, b))  BY <1>1, <1>2, NamedIsFinite, FS_Subset
<1> DEFINE f == [i \in Named(dic[k]) |-> Contribution(dic[k], i, build[k])]
<1>4. {i \in DOMAIN f : b \in f[i]} = Setting(k, b)  BY <1>2
<1>5. cs[k] = XorAll(f)  BY SumsAtTheEnd DEF Sum
<1> HIDE DEF f
<1>6. b \in XorAll(f) <=> Cardinality(Setting(k, b)) % 2 = 1
  BY <1>4 DEF XorAll, Word
<1> QED  BY <1>3, <1>5, <1>6

LEMMA OneChangeDiffers ==
  ASSUME SumsInv, Done, OneChange PROVE Low(cs[1]) # Low(cs[2])
<1> PICK i \in Summed : ~SameLow(i) /\ \A j \in Summed \ {i} : SameLow(j)
  BY DEF OneChange
<1> DEFINE C(k, j) == Contribution(dic[k], j, build[k])
<1>1. PICK b \in 0 .. 15 : ~(b \in C(1, i) <=> b \in C(2, i))
  BY DEF SameLow, Low
<1>2. ASSUME NEW j \in Summed, j # i PROVE b \in C(1, j) <=> b \in C(2, j)
  BY <1>2, <1>1 DEF SameLow, Low
<1>3. b \in Word  BY <1>1 DEF Word, WordWidth
<1> DEFINE S(k) == Setting(k, b)
<1>4. ASSUME NEW k \in Both, NEW l \in Both, k # l, b \in C(k, i), b \notin C(l, i)
      PROVE  ~(b \in cs[k] <=> b \in cs[l])
  <2>1. S(k) = S(l) \cup {i} /\ i \notin S(l)
    BY <1>2, <1>4 DEF Setting, Both
  <2>2. /\ IsFiniteSet(S(l)) /\ (b \in cs[l] <=> Cardinality(S(l)) % 2 = 1)
        /\ (b \in cs[k] <=> Cardinality(S(k)) % 2 = 1)
    BY <1>3, BitOfSum
  <2> HIDE DEF S
  <2>3. Cardinality(S(l)) \in Nat /\ Cardinality(S(k)) = Cardinality(S(l)) + 1
    BY <2>1, <2>2, FS_AddElement, FS_CardinalityType
  <2> QED  BY <2>2, <2>3
<1>5. ~(b \in cs[1] <=> b \in cs[2])  BY <1>1, <1>4 DEF Both
<1> QED  BY <1>1, <1>5 DEF Low

-----------------------------------------------------------------------------
(* The theorems.                                                           *)

(* The sums are words and only ids of definitions are added up, for all    *)
(* dictionaries (the loop of pointers()).                                  *)
THEOREM ChecksumTypeCorrect == Spec => []TypeOK
<1>1. SumsInv => TypeOK
  <2> SUFFICES ASSUME SumsInv PROVE TypeOK  OBVIOUS
  <2>1. \A k \in Both : Named(dic[k]) \subseteq Ids \ {0}
    BY NamedIsFinite DEF SumsInv
  <2> QED  BY <2>1 DEF TypeOK, SumsInv, SumsTyped, Word
<1> QED  BY <1>1, SumsInit, SumsStep, PTL DEF Spec

(* Two Serializers whose dictionaries have the same version and the same   *)
(* definitions have the same header, in whatever orders they add them up:  *)
(* always in one build, and in two builds where neither a wide shift nor a *)
(* negative character occurs (pointers()).                                 *)
THEOREM SameDicoHasSameHeader == Spec => []SameDicoSameHeader
<1>1. SumsInv => SameDicoSameHeader
  BY SameSums, HeadersTold DEF SameDicoSameHeader, SameDefinitions
<1> QED  BY <1>1, SumsInit, SumsStep, PTL DEF Spec

(* Two dictionaries whose contributions differ in the low bits of exactly  *)
(* one definition never have the same header (pointers(), Header::init()). *)
THEOREM OneChangeIsDetected == Spec => []OneChangeDetected
<1>1. SumsInv => OneChangeDetected
  BY OneChangeDiffers, HeadersTold DEF OneChangeDetected
<1> QED  BY <1>1, SumsInit, SumsStep, PTL DEF Spec
=============================================================================
