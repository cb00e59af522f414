------------------------- MODULE MessageSize_proofs -------------------------
(***************************************************************************)
(* Proofs about MessageSize: for every forest of messages, every set of    *)
(* values and every tag size, an application within the contract           *)
(* (Careless = {}) gets exact length prefixes.                             *)
(***************************************************************************)
EXTENDS MessageSize, FiniteSetTheorems, NaturalsInduction, WellFoundedInduction, TLAPS

-----------------------------------------------------------------------------
(* Sums *)

(* A sum over a finite domain is a natural number.                         *)
LEMMA TotalType ==
    ASSUME NEW S, IsFiniteSet(S), NEW f \in [S -> Int]
    PROVE  Total(f) \in Nat
<1> DEFINE g == [x \in S |-> {x} \X (1..f[x])]
<1> DEFINE T == {{x} \X (1..f[x]) : x \in S}
<1>1. g \in Surjection(S, T)
  BY DEF Surjection
<1>2. IsFiniteSet(T)
  <2> HIDE DEF g, T
  <2> QED BY <1>1, FS_Surjection
<1>3. \A U \in T : IsFiniteSet(U)
  <2> TAKE U \in T
  <2>1. PICK x \in S : U = {x} \X (1..f[x])
    OBVIOUS
  <2>2. IsFiniteSet({x})
    BY FS_Singleton
  <2>3. IsFiniteSet(1..f[x])
    <3>1. 1 \in Int /\ f[x] \in Int
      OBVIOUS
    <3> QED BY <3>1, FS_Interval
  <2>4. IsFiniteSet({x} \X (1..f[x]))
    BY <2>2, <2>3, FS_Product
  <2> QED BY <2>1, <2>4
<1>4. IsFiniteSet(UNION T)
  <2> HIDE DEF T
  <2> QED BY <1>2, <1>3, FS_UNION
<1>5. Total(f) = Cardinality(UNION T)
  BY DEF Total
<1> QED BY <1>4, <1>5, FS_CardinalityType

(* Nothing positive adds up to zero.                                       *)
LEMMA TotalZero ==
    ASSUME NEW S, NEW f \in [S -> Int], \A x \in S : f[x] <= 0
    PROVE  Total(f) = 0
<1>1. UNION {{x} \X (1..f[x]) : x \in DOMAIN f} = {}
  <2>1. \A x \in S : 1..f[x] = {}
    OBVIOUS
  <2> QED BY <2>1
<1> QED BY <1>1, FS_EmptySet DEF Total

(* Values that are not positive count for nothing.                         *)
LEMMA TotalSame ==
    ASSUME NEW S, NEW f \in [S -> Int], NEW g \in [S -> Int],
           \A x \in S : f[x] = g[x] \/ (f[x] <= 0 /\ g[x] <= 0)
    PROVE  Total(f) = Total(g)
<1>1. \A x \in S : 1..f[x] = 1..g[x]
  <2> TAKE x \in S
  <2>1. CASE f[x] = g[x]
    BY <2>1
  <2>2. CASE f[x] <= 0 /\ g[x] <= 0
    BY <2>2
  <2> QED BY <2>1, <2>2
<1>2. {{x} \X (1..f[x]) : x \in S} = {{x} \X (1..g[x]) : x \in S}
  BY <1>1
<1> QED BY <1>2 DEF Total

-----------------------------------------------------------------------------
(* The forest of slots *)

LEMMA KidsFacts ==
    ASSUME NEW n \in Slot, NEW k \in Kids(n)
    PROVE  /\ k \in Slot /\ k # n /\ k \notin Root
           /\ n \in Path[k] /\ k \in Path[k] /\ k \notin Path[n]
           /\ Path[k] \ {k} = Path[n]
<1>1. k \in Slot /\ k # n /\ Path[k] = Path[n] \cup {k}
  BY DEF Kids
<1>2. n \in Path[n] /\ n \in Path[k]
  BY <1>1, PathAssumption
<1>3. k \notin Path[n]
  BY <1>1, <1>2, PathAssumption
<1>4. k \notin Root
  BY <1>1, <1>2, PathAssumption
<1> QED BY <1>1, <1>2, <1>3, <1>4

LEMMA OneParent ==
    ASSUME NEW m \in Slot, NEW n \in Slot, NEW k \in Slot,
           k \in Kids(m), k \in Kids(n)
    PROVE  m = n
<1>1. Path[m] = Path[n]
  BY KidsFacts
<1>2. m \in Path[n] /\ n \in Path[m]
  BY <1>1, PathAssumption
<1> QED BY <1>2, PathAssumption

(* A message is under x when its parent is, or when it is x.               *)
LEMMA UnderKids ==
    ASSUME NEW m \in Slot, NEW x \in Slot, NEW k \in Kids(m)
    PROVE  k \in Under(x) <=> (m \in Under(x) \/ k = x)
<1>1. k \in Slot /\ Path[k] = Path[m] \cup {k} /\ k \in Path[k]
  BY KidsFacts DEF Kids
<1> QED BY <1>1 DEF Under

LEMMA UnderFacts ==
    ASSUME NEW x \in Slot
    PROVE  /\ Under(x) \subseteq Slot /\ x \in Under(x)
           /\ x \notin Root => Under(x) \cap Root = {}
BY PathAssumption DEF Under

LEMMA BelowFacts ==
    ASSUME NEW x \in Slot
    PROVE  Below(x) \subseteq Slot /\ Below(x) \cap Root = {}
BY PathAssumption DEF Below, Under

(* A sub-message is under a root exactly when its parent is.               *)
LEMMA UnderRootKids ==
    ASSUME NEW m \in Slot, NEW x \in Root, NEW k \in Kids(m)
    PROVE  k \in Under(x) <=> m \in Under(x)
BY UnderKids, KidsFacts, SlotAssumption

-----------------------------------------------------------------------------
(* Types *)

SizeOrNone == ValueSize \cup {0, Absent}

LEMMA SizesAreInts == SizeOrNone \subseteq Int
BY SizeAssumption DEF SizeOrNone, Absent

LEMMA ValuesTotalType ==
    ASSUME NEW v \in [Item -> SizeOrNone]
    PROVE  Total(v) \in Nat
<1>1. v \in [Item -> Int]
  BY SizesAreInts
<1> QED BY <1>1, TotalType, SlotAssumption

LEMMA LiveKidsFinite ==
    ASSUME NEW n \in Slot
    PROVE  IsFiniteSet(LiveKids(n)) /\ LiveKids(n) \subseteq Slot
BY FS_Subset, SlotAssumption DEF LiveKids, Kids

LEMMA VarintSizeType ==
    ASSUME NEW p \in Int
    PROVE  VarintSize(p) \in Nat
BY DEF VarintSize

(* Whatever the sizes p and contents b of its sub-messages, a message has  *)
(* a length.                                                               *)
LEMMA FramesType ==
    ASSUME NEW n \in Slot, NEW p \in [Slot -> Int], NEW b \in [Slot -> Int]
    PROVE  Total([k \in LiveKids(n) |-> Framed(Tag[k], p[k], b[k])]) \in Nat
<1>1. \A k \in LiveKids(n) : Framed(Tag[k], p[k], b[k]) \in Int
  <2> TAKE k \in LiveKids(n)
  <2>1. k \in Slot
    BY LiveKidsFinite
  <2>2. Tag[k] \in Int /\ p[k] \in Int /\ b[k] \in Int /\ VarintSize(p[k]) \in Int
    BY <2>1, SizeAssumption, VarintSizeType
  <2> QED BY <2>2 DEF Framed
<1>2. [k \in LiveKids(n) |-> Framed(Tag[k], p[k], b[k])] \in [LiveKids(n) -> Int]
  BY <1>1
<1> QED BY <1>2, LiveKidsFinite, TotalType

LEMMA LengthType ==
    ASSUME TypeOK, NEW n \in Slot
    PROVE  Length(n) \in Nat
<1>1. Total(val[n]) \in Nat
  BY ValuesTotalType DEF TypeOK, SizeOrNone
<1>2. Total([k \in LiveKids(n) |-> Framed(Tag[k], bytes[k], bytes[k])]) \in Nat
  BY FramesType DEF TypeOK
<1> QED BY <1>1, <1>2 DEF Length

LEMMA SizeWithoutType ==
    ASSUME TypeOK, NEW n \in Slot, NEW x
    PROVE  SizeWithout(n, x) \in Nat
<1>1. IsFiniteSet(Values(val[n]) \ {x}) /\ IsFiniteSet(LiveKids(n) \ {x})
  <2>1. IsFiniteSet(Values(val[n]))
    BY FS_Subset, SlotAssumption DEF Values
  <2> QED BY <2>1, LiveKidsFinite, FS_Difference
<1>2. Cardinality(Values(val[n]) \ {x}) \in Nat /\ Cardinality(LiveKids(n) \ {x}) \in Nat
  BY <1>1, FS_CardinalityType
<1> QED BY <1>2 DEF SizeWithout

LEMMA WireLengthType ==
    ASSUME TypeOK, NEW n \in Slot
    PROVE  WireLength(n) \in Nat
<1>1. IsFiniteSet({i \in Item : val[n][i] = 0})
  BY FS_Subset, SlotAssumption
<1>2. Cardinality({i \in Item : val[n][i] = 0}) \in Nat
  BY <1>1, FS_CardinalityType
<1> QED BY <1>2, LengthType DEF WireLength

LEMMA NoValuesType == NoValues \in [Item -> SizeOrNone]
BY DEF NoValues, SizeOrNone

LEMMA DestroyType ==
    ASSUME TypeOK, NEW S \in SUBSET Slot, S \cap Root = {},
           NEW newVal \in [Slot -> [Item -> SizeOrNone]],
           NEW newBytes \in [Slot -> Int],
           Destroy(S, newVal, newBytes)
    PROVE  /\ live' \subseteq Slot
           /\ val' \in [Slot -> [Item -> SizeOrNone]]
           /\ bytes' \in [Slot -> Int]
           /\ Root \subseteq refs' /\ refs' \subseteq live'
BY NoValuesType DEF TypeOK, Destroy

LEMMA InitType == Init => TypeOK
<1> SUFFICES ASSUME Init PROVE TypeOK
  OBVIOUS
<1>1. val \in [Slot -> [Item -> SizeOrNone]]
  BY NoValuesType DEF Init
<1>2. NothingWritten \in [Slot -> Nat \cup {Unknown}]
  BY DEF NothingWritten
<1>3. live \subseteq Slot /\ bytes \in [Slot -> Int] /\ Root \subseteq refs /\ refs \subseteq live
  BY SlotAssumption DEF Init
<1>4. raw \subseteq Root /\ phase \in {"user", "encode", "decode"} /\ target \in Root
      /\ open \subseteq Slot /\ cold \in BOOLEAN
  BY DEF Init
<1>5. prefix \in [Slot -> Nat \cup {Unknown}] /\ body \in [Slot -> Nat \cup {Unknown}]
  BY <1>2 DEF Init
<1> QED BY <1>1, <1>3, <1>4, <1>5 DEF TypeOK, SizeOrNone

LEMMA MutateType == TypeOK /\ Mutate => TypeOK'
<1> SUFFICES ASSUME TypeOK, NEW n \in Slot, User(n),
                    \/ \E i \in Item, s \in ValueSize : Set(n, i, s) \/ GetValue(n, i, s)
                    \/ \E k \in Slot : Get(n, k) \/ Iterate(n, k)
                    \/ GetThrows(n)
                    \/ \E k, s \in Slot : SetMessage(n, k, s)
                    \/ \E s \in Slot : Assign(n, s)
                    \/ \E x \in Item \cup Slot : EraseId(n, x) \/ EraseAt(n, x)
                    \/ Trim(n)
                    \/ Clear(n)
             PROVE  TypeOK'
  BY DEF Mutate, Set, GetValue, Store, Get, Iterate, GetThrows, SetMessage, Assign,
         EraseId, EraseAt, Trim, Clear
<1> USE DEF TypeOK
<1>1. /\ n \in live
      /\ phase' = phase /\ target' = target /\ prefix' = prefix /\ body' = body
      /\ open' = open /\ cold' = cold
      /\ Unknown \in Int
  BY DEF User, codecVars, Unknown
<1>2. ASSUME NEW i \in Item, NEW s \in ValueSize, Store(n, i, s)
      PROVE  TypeOK'
  BY <1>1, <1>2 DEF Store
<1>3. ASSUME NEW k \in Slot, Get(n, k) \/ Iterate(n, k)
      PROVE  TypeOK'
  BY <1>1, <1>3 DEF Get, Iterate, LiveKids
<1>4. CASE GetThrows(n)
  BY <1>1, <1>4 DEF GetThrows
<1>5. ASSUME NEW k \in Slot, NEW s \in Slot, SetMessage(n, k, s)
      PROVE  TypeOK'
  <2>1. val' \in [Slot -> [Item -> SizeOrNone]]
    BY <1>5, NoValuesType DEF SetMessage, SizeOrNone
  <2>2. bytes' \in [Slot -> Int]
    BY <1>1, <1>5 DEF SetMessage
  <2>3. live' \subseteq Slot /\ refs' \subseteq live' /\ raw' \subseteq Root
    BY <1>5 DEF SetMessage
  <2>4. Root \subseteq refs'
    BY <1>5, BelowFacts DEF SetMessage
  <2> QED BY <1>1, <2>1, <2>2, <2>3, <2>4 DEF SizeOrNone
<1>6. ASSUME NEW s \in Slot, Assign(n, s)
      PROVE  TypeOK'
  <2>1. [val EXCEPT ![n] = val[s]] \in [Slot -> [Item -> SizeOrNone]]
    BY DEF SizeOrNone
  <2>2. [bytes EXCEPT ![n] = bytes[s]] \in [Slot -> Int]
    OBVIOUS
  <2>3. Below(n) \subseteq Slot /\ Below(n) \cap Root = {}
    BY BelowFacts
  <2>4. raw' \subseteq Root
    BY <1>6 DEF Assign
  <2> QED BY <1>1, <1>6, <2>1, <2>2, <2>3, <2>4, DestroyType DEF Assign, SizeOrNone
<1>7. ASSUME NEW x \in Item \cup Slot, EraseId(n, x) \/ EraseAt(n, x)
      PROVE  TypeOK'
  <2>1. ValuesWithout(n, x) \in [Slot -> [Item -> SizeOrNone]]
    BY DEF ValuesWithout, SizeOrNone
  <2>2. [bytes EXCEPT ![n] = -SizeWithout(n, x)] \in [Slot -> Int]
    BY SizeWithoutType
  <2>3. Erased(x) \subseteq Slot /\ Erased(x) \cap Root = {}
    <3>1. x \in Item \cup Kids(n)
      BY <1>7 DEF EraseId, EraseAt
    <3>2. CASE x \in Item
      BY <3>2 DEF Erased
    <3>3. CASE x \in Kids(n)
      BY <3>3, KidsFacts, UnderFacts, SlotAssumption DEF Erased
    <3> QED BY <3>1, <3>2, <3>3
  <2>4. raw' \subseteq Root
    BY <1>7 DEF EraseId, EraseAt
  <2>5. CASE EraseId(n, x)
    BY <1>1, <2>1, <2>3, <2>4, <2>5, DestroyType DEF EraseId, SizeOrNone
  <2>6. CASE EraseAt(n, x)
    BY <1>1, <2>1, <2>2, <2>3, <2>4, <2>6, DestroyType DEF EraseAt, SizeOrNone
  <2> QED BY <1>7, <2>5, <2>6
<1>8. CASE Trim(n)
  <2>1. val' \in [Slot -> [Item -> SizeOrNone]]
    BY <1>8 DEF Trim, SizeOrNone
  <2> QED BY <1>1, <1>8, <2>1 DEF Trim, SizeOrNone
<1>9. CASE Clear(n)
  <2>1. [val EXCEPT ![n] = NoValues] \in [Slot -> [Item -> SizeOrNone]]
    BY NoValuesType DEF SizeOrNone
  <2>2. [bytes EXCEPT ![n] = 0] \in [Slot -> Int]
    OBVIOUS
  <2>3. Below(n) \subseteq Slot /\ Below(n) \cap Root = {}
    BY BelowFacts
  <2>4. raw' \subseteq Root
    BY <1>9 DEF Clear
  <2> QED BY <1>1, <1>9, <2>1, <2>2, <2>3, <2>4, DestroyType DEF Clear, Emptied, SizeOrNone
<1> QED BY <1>2, <1>3, <1>4, <1>5, <1>6, <1>7, <1>8, <1>9 DEF Set, GetValue

LEMMA EncodeType == TypeOK /\ Encode => TypeOK'
<1> SUFFICES ASSUME TypeOK, Encode PROVE TypeOK'
  OBVIOUS
<1> USE DEF TypeOK
<1>1. ASSUME NEW r \in Root, StartEncode(r)
      PROVE  TypeOK'
  <2>1. Root \subseteq refs' /\ refs' \subseteq live'
    BY <1>1 DEF StartEncode
  <2>2. cold' \in BOOLEAN
    BY <1>1 DEF StartEncode
  <2> QED BY <1>1, <2>1, <2>2 DEF StartEncode
<1>2. ASSUME NEW n \in Slot, Measure(n)
      PROVE  TypeOK'
  BY <1>2, LengthType DEF Measure, codecVars
<1>3. ASSUME NEW n \in Slot, EncodeMessage(n)
      PROVE  TypeOK'
  <2>1. Total(val[n]) \in Nat
    BY ValuesTotalType DEF SizeOrNone
  <2>2. Total([k \in LiveKids(n) |-> Framed(Tag[k], prefix[k], body[k])]) \in Nat
    <3>1. prefix \in [Slot -> Int] /\ body \in [Slot -> Int]
      BY DEF Unknown
    <3> QED BY <3>1, FramesType
  <2>3. prefix' \in [Slot -> Nat \cup {Unknown}]
    BY <1>3 DEF EncodeMessage
  <2>4. body' \in [Slot -> Nat \cup {Unknown}]
    BY <1>3, <2>1, <2>2 DEF EncodeMessage
  <2> QED BY <1>3, <2>3, <2>4 DEF EncodeMessage
<1>4. CASE FinishEncode \/ EncodeThrows
  BY <1>4 DEF FinishEncode, EncodeThrows, NothingWritten
<1> QED BY <1>1, <1>2, <1>3, <1>4 DEF Encode

LEMMA EmptiedType ==
    ASSUME TypeOK, NEW n \in Slot, Emptied(n)
    PROVE  /\ live' \subseteq Slot
           /\ val' \in [Slot -> [Item -> SizeOrNone]]
           /\ bytes' \in [Slot -> Int]
           /\ Root \subseteq refs' /\ refs' \subseteq live'
<1>1. [val EXCEPT ![n] = NoValues] \in [Slot -> [Item -> SizeOrNone]]
  BY NoValuesType DEF SizeOrNone, TypeOK
<1>2. [bytes EXCEPT ![n] = 0] \in [Slot -> Int]
  BY DEF TypeOK
<1> QED BY <1>1, <1>2, BelowFacts, DestroyType DEF Emptied

LEMMA DecodeType == TypeOK /\ Decode => TypeOK'
<1> SUFFICES ASSUME TypeOK, Decode PROVE TypeOK'
  OBVIOUS
<1>1. ASSUME NEW r \in Root, StartDecode(r)
      PROVE  TypeOK'
  <2>1. r \in Slot /\ raw' \subseteq Root
    BY <1>1, SlotAssumption DEF StartDecode, TypeOK
  <2> QED BY <1>1, <2>1, EmptiedType DEF StartDecode, TypeOK, SizeOrNone
<1>2. ASSUME NEW n \in Slot, NEW i \in Item, NEW s \in ValueSize, DecodeValue(n, i, s)
      PROVE  TypeOK'
  BY <1>2 DEF DecodeValue, ResetIf, Unknown, TypeOK, codecVars
<1>3. ASSUME NEW n \in Slot, NEW k \in Slot, OpenMessage(n, k)
      PROVE  TypeOK'
  BY <1>3 DEF OpenMessage, ResetIf, Unknown, TypeOK
<1>4. ASSUME NEW n \in Slot, CloseMessage(n)
      PROVE  TypeOK'
  BY <1>4, WireLengthType DEF CloseMessage, TypeOK
<1>5. CASE FinishDecode
  <2>1. raw' \subseteq Root
    BY <1>5 DEF FinishDecode, TypeOK
  <2> QED BY <1>5, <2>1 DEF FinishDecode, TypeOK
<1>6. CASE DecodeThrows
  <2>1. target \in Slot /\ raw' \subseteq Root
    BY <1>6, SlotAssumption DEF DecodeThrows, TypeOK
  <2>2. CASE "partial" \in Careless
    BY <1>6, <2>1, <2>2 DEF DecodeThrows, TypeOK
  <2>3. CASE "partial" \notin Careless
    BY <1>6, <2>1, <2>3, EmptiedType DEF DecodeThrows, TypeOK, SizeOrNone
  <2> QED BY <2>2, <2>3
<1> QED BY <1>1, <1>2, <1>3, <1>4, <1>5, <1>6 DEF Decode

(* The variables of every reachable state, whatever the application does,  *)
(* have their types: sizes are integers, what the encoder writes as a      *)
(* prefix is never negative.                                               *)
THEOREM TypeCorrect == Spec => []TypeOK
<1>1. TypeOK /\ UNCHANGED vars => TypeOK'
  BY DEF vars, TypeOK
<1>2. TypeOK /\ [Next]_vars => TypeOK'
  BY <1>1, MutateType, EncodeType, DecodeType DEF Next
<1> QED BY <1>2, InitType, PTL DEF Spec

-----------------------------------------------------------------------------
(* When the length of a message stays what it is *)

LEMMA FramesSame ==
    ASSUME NEW S, NEW b, NEW c, \A k \in S : b[k] = c[k]
    PROVE  [k \in S |-> Framed(Tag[k], b[k], b[k])] = [k \in S |-> Framed(Tag[k], c[k], c[k])]
BY DEF Framed

(* A message whose values, size and sub-messages' sizes do not change      *)
(* stays coherent.                                                         *)
LEMMA StaysCoherent ==
    ASSUME NEW n \in Slot, Coherent(n),
           bytes'[n] = bytes[n], Total(val'[n]) = Total(val[n]),
           LiveKids(n)' = LiveKids(n),
           \A k \in LiveKids(n) : bytes'[k] = bytes[k]
    PROVE  Coherent(n)'
<1>1. [k \in LiveKids(n) |-> Framed(Tag[k], bytes'[k], bytes'[k])]
        = [k \in LiveKids(n) |-> Framed(Tag[k], bytes[k], bytes[k])]
  BY FramesSame
<1>2. Length(n)' = Length(n)
  BY <1>1 DEF Length
<1> QED BY <1>2 DEF Coherent

(* An unknown size is coherent.                                            *)
LEMMA UnknownCoherent ==
    ASSUME NEW n \in Slot, bytes[n] < 0, bytes[n] \in Int
    PROVE  Coherent(n)
BY DEF Coherent

(* The parent of a message with an unknown size has an unknown size.       *)
LEMMA ParentUnknown ==
    ASSUME TypeOK, NEW n \in Slot, NEW k \in LiveKids(n), Coherent(n), bytes[k] < 0
    PROVE  bytes[n] < 0
BY LiveKidsFinite DEF Coherent, TypeOK

(* Values that are all absent take no bytes, nor do no sub-messages.       *)
LEMMA NothingTotal ==
    /\ \A v \in [Item -> SizeOrNone] : (\A i \in Item : v[i] = Absent) => Total(v) = 0
    /\ \A b : Total([k \in {} |-> Framed(Tag[k], b[k], b[k])]) = 0
<1>1. ASSUME NEW v \in [Item -> SizeOrNone], \A i \in Item : v[i] = Absent
      PROVE  Total(v) = 0
  <2>1. v \in [Item -> Int]
    BY SizesAreInts
  <2> QED BY <1>1, <2>1, TotalZero DEF Absent
<1>2. ASSUME NEW b
      PROVE  Total([k \in {} |-> Framed(Tag[k], b[k], b[k])]) = 0
  <2> DEFINE f == [k \in {} |-> Framed(Tag[k], b[k], b[k])]
  <2>1. f \in [{} -> Int]
    OBVIOUS
  <2>2. Total(f) = 0
    <3> HIDE DEF f
    <3> QED BY <2>1, TotalZero
  <2> QED BY <2>2
<1> QED BY <1>1, <1>2

(* A message with no content has length zero.                              *)
LEMMA EmptyLength ==
    ASSUME NEW n \in Slot, val[n] = NoValues, LiveKids(n) = {}
    PROVE  Length(n) = 0
<1>1. val[n] \in [Item -> SizeOrNone] /\ \A i \in Item : val[n][i] = Absent
  BY NoValuesType DEF NoValues
<1> QED BY <1>1, NothingTotal DEF Length

(* A message that has just lost its content is coherent with size zero.    *)
LEMMA EmptiedCoherent ==
    ASSUME NEW n \in Slot, val'[n] \in [Item -> SizeOrNone],
           \A i \in Item : val'[n][i] = Absent, LiveKids(n)' = {}, bytes'[n] = 0
    PROVE  Coherent(n)' /\ Length(n)' = 0
<1>1. Length(n)' = 0
  BY NothingTotal DEF Length
<1> QED BY <1>1 DEF Coherent

-----------------------------------------------------------------------------
(* Removing subtrees *)

(* S is closed downwards: what is below a member of S is in S.             *)
Cut(S) == \A m \in Slot \ S : Path[m] \cap S = {}

LEMMA CutFacts ==
    /\ Cut({})
    /\ \A x \in Slot : Cut(Under(x)) /\ Cut(Below(x))
<1>1. Cut({})
  BY DEF Cut
<1>2. ASSUME NEW x \in Slot, NEW m \in Slot, NEW p \in Path[m], x \in Path[p]
      PROVE  x \in Path[m]
  BY <1>2, PathAssumption
<1>3. ASSUME NEW x \in Slot
      PROVE  Cut(Under(x))
  BY <1>2 DEF Cut, Under
<1>4. ASSUME NEW x \in Slot
      PROVE  Cut(Below(x))
  <2> SUFFICES ASSUME NEW m \in Slot \ Below(x), NEW p \in Path[m], p \in Below(x)
               PROVE  FALSE
    BY DEF Cut
  <2>1. p \in Slot /\ p # x /\ x \in Path[p]
    BY DEF Below, Under
  <2>2. x \in Path[m]
    BY <1>2, <2>1
  <2>3. m = x
    BY <2>2 DEF Below, Under
  <2> QED BY <2>1, <2>3, PathAssumption
<1> QED BY <1>1, <1>3, <1>4

(* Outside of the removed part and of n, the sub-messages stay.            *)
LEMMA RemovedKids ==
    ASSUME NEW n \in Slot, NEW m \in Slot, m # n,
           NEW S,
           \/ S = {}
           \/ S = Below(n) /\ m \notin S
           \/ \E x \in Kids(n) : S \subseteq Under(x) /\ m \notin Under(x)
    PROVE  Kids(m) \cap S = {}
<1> SUFFICES ASSUME NEW k \in Kids(m), k \in S PROVE FALSE
  OBVIOUS
<1>1. CASE S = Below(n) /\ m \notin S
  <2>1. k \in Under(n) /\ k # n
    BY <1>1 DEF Below
  <2>2. m \in Under(n)
    BY <2>1, UnderKids
  <2> QED BY <1>1, <2>2 DEF Below
<1>2. ASSUME NEW x \in Kids(n), S \subseteq Under(x), m \notin Under(x)
      PROVE  FALSE
  <2>1. x \in Slot /\ k \in Slot
    BY KidsFacts
  <2>2. k = x
    BY <1>2, <2>1, UnderKids
  <2> QED BY <2>1, <2>2, OneParent
<1> QED BY <1>1, <1>2
-----------------------------------------------------------------------------
(* The application's steps *)

(* What every step of the application finds.                               *)
LEMMA UserFacts ==
    ASSUME IInv, NEW n \in Slot, User(n)
    PROVE  /\ n \in live /\ open = {} /\ phase' = "user" /\ open' = {}
           /\ \A m \in Slot : body[m] = Unknown
           /\ PrefixExact' /\ EncodeShape' /\ DecodeShape'
           /\ \A m \in live \ raw : Coherent(m)
           /\ \A m \in Path[n] \ {n} : bytes[m] < 0
           /\ n \in refs
<1>1. n \in live /\ n \in refs /\ phase = "user" /\ open = {}
  BY DEF IInv, TypeOK, User, DecodeShape
<1>2. \A m \in Slot : body[m] = Unknown
  BY <1>1 DEF IInv, EncodeShape
<1>3. phase' = "user" /\ open' = {} /\ body' = body /\ prefix' = prefix
  BY <1>1 DEF User, codecVars
<1>4. PrefixExact' /\ EncodeShape' /\ DecodeShape'
  BY <1>2, <1>3 DEF IInv, PrefixExact, EncodeShape, DecodeShape
<1>5. \A m \in live \ raw : Coherent(m)
  BY <1>1 DEF IInv, CacheCoherent, Coherent
<1>6. \A m \in Path[n] \ {n} : bytes[m] < 0
  BY <1>1 DEF IInv, RefsUncached
<1> QED BY <1>1, <1>2, <1>3, <1>4, <1>5, <1>6

(* A message other than the one written to stays coherent: if it is the    *)
(* parent, its size was and is unknown.                                    *)
LEMMA OthersCoherent ==
    ASSUME IInv, TypeOK', NEW n \in Slot, n \in refs,
           NEW m \in live \ (open \cup raw), m # n,
           bytes'[m] = bytes[m], Total(val'[m]) = Total(val[m]),
           LiveKids(m)' = LiveKids(m),
           \A k \in LiveKids(m) \ {n} : bytes'[k] = bytes[k]
    PROVE  Coherent(m)'
<1>1. m \in Slot /\ Coherent(m) /\ bytes'[m] \in Int
  BY DEF IInv, TypeOK, CacheCoherent, Coherent
<1>2. CASE n \in Kids(m)
  <2>1. bytes'[m] < 0
    BY <1>1, <1>2, KidsFacts DEF IInv, RefsUncached
  <2> QED BY <1>1, <2>1 DEF Coherent
<1>3. CASE n \notin Kids(m)
  BY <1>1, <1>3, StaysCoherent DEF LiveKids
<1> QED BY <1>2, <1>3

LEMMA FreeSlots ==
    ASSUME IInv, NEW k \in Slot \ live
    PROVE  bytes[k] = 0 /\ val[k] = NoValues /\ LiveKids(k) = {}
<1>1. bytes[k] = 0 /\ val[k] = NoValues
  BY DEF IInv, TreeShape
<1>2. ASSUME NEW c \in LiveKids(k) PROVE FALSE
  <2>1. c \in live /\ Path[c] \subseteq live /\ k \in Path[c]
    BY KidsFacts DEF IInv, TreeShape, LiveKids
  <2> QED BY <2>1
<1> QED BY <1>1, <1>2

LEMMA StoreInv ==
    ASSUME IInv, TypeOK', NEW n \in Slot, NEW i \in Item, NEW s \in ValueSize, Store(n, i, s)
    PROVE  IInv'
<1>0. User(n) /\ n \in live /\ n \in refs /\ open = {}
  BY UserFacts DEF Store
<1>1. TreeShape'
  BY <1>0 DEF Store, IInv, TreeShape, TypeOK
<1>2. RefsUncached'
  BY DEF Store, IInv, TypeOK, RefsUncached, Unknown
<1>3. CacheCoherent'
  <2> SUFFICES ASSUME NEW m \in live' \ (open' \cup raw') PROVE Coherent(m)'
    BY DEF CacheCoherent, Coherent
  <2>1. m \in Slot /\ m \in live /\ LiveKids(m)' = LiveKids(m)
    BY DEF Store, IInv, TypeOK, LiveKids
  <2>2. CASE m = n
    BY <2>1, <2>2 DEF Store, Coherent, Unknown, IInv, TypeOK
  <2>3. CASE m # n
    <3>1. m \notin raw
      BY <2>3 DEF Store
    <3>2. bytes'[m] = bytes[m] /\ val'[m] = val[m]
      BY <2>1, <2>3 DEF Store, IInv, TypeOK
    <3>3. \A k \in LiveKids(m) \ {n} : bytes'[k] = bytes[k]
      BY <2>1, LiveKidsFinite DEF Store, IInv, TypeOK
    <3> QED BY <1>0, <2>1, <2>3, <3>1, <3>2, <3>3, OthersCoherent
  <2> QED BY <2>2, <2>3
<1> QED BY <1>0, <1>1, <1>2, <1>3, UserFacts DEF IInv

LEMMA GetThrowsInv ==
    ASSUME IInv, TypeOK', NEW n \in Slot, GetThrows(n)
    PROVE  IInv'
<1>0. User(n) /\ n \in live /\ n \in refs /\ open = {}
  BY UserFacts DEF GetThrows
<1>1. TreeShape'
  BY <1>0 DEF GetThrows, IInv, TreeShape, TypeOK
<1>2. RefsUncached'
  BY DEF GetThrows, IInv, TypeOK, RefsUncached, Unknown
<1>3. CacheCoherent'
  <2> SUFFICES ASSUME NEW m \in live' \ (open' \cup raw') PROVE Coherent(m)'
    BY DEF CacheCoherent, Coherent
  <2>1. m \in Slot /\ m \in live /\ LiveKids(m)' = LiveKids(m)
    BY DEF GetThrows, IInv, TypeOK, LiveKids
  <2>2. CASE m = n
    BY <2>1, <2>2 DEF GetThrows, Coherent, Unknown, IInv, TypeOK
  <2>3. CASE m # n
    <3>1. m \notin raw
      BY <2>3 DEF GetThrows
    <3>2. bytes'[m] = bytes[m] /\ val'[m] = val[m]
      BY <2>1, <2>3 DEF GetThrows, IInv, TypeOK
    <3>3. \A k \in LiveKids(m) \ {n} : bytes'[k] = bytes[k]
      BY <2>1, LiveKidsFinite DEF GetThrows, IInv, TypeOK
    <3> QED BY <1>0, <2>1, <2>3, <3>1, <3>2, <3>3, OthersCoherent
  <2> QED BY <2>2, <2>3
<1> QED BY <1>0, <1>1, <1>2, <1>3, UserFacts DEF IInv

LEMMA GetInv ==
    ASSUME IInv, TypeOK', NEW n \in Slot, NEW k \in Slot, Get(n, k)
    PROVE  IInv'
<1>0. User(n) /\ n \in live /\ n \in refs /\ open = {} /\ k \in Kids(n)
  BY UserFacts DEF Get
<1>1. TreeShape'
  <2>1. Path[k] \subseteq live'
    <3>1. Path[n] \subseteq live /\ Path[k] = Path[n] \cup {k}
      BY <1>0 DEF IInv, TreeShape, Kids
    <3> QED BY <3>1 DEF Get
  <2> QED BY <1>0, <2>1 DEF Get, IInv, TreeShape, TypeOK
<1>2. RefsUncached'
  <2> SUFFICES ASSUME NEW q \in refs', NEW m \in Path[q] \ {q} PROVE bytes'[m] < 0
    BY DEF RefsUncached
  <2>1. bytes'[n] < 0
    BY DEF Get, IInv, TypeOK, Unknown
  <2>2. ASSUME bytes[m] < 0, m \in Slot PROVE bytes'[m] < 0
    BY <2>1, <2>2 DEF Get, IInv, TypeOK
  <2>3. m \in Slot
    <3>1. q \in Slot
      BY DEF Get, IInv, TypeOK
    <3> QED BY <3>1, PathAssumption
  <2>4. CASE q \in refs
    BY <2>2, <2>3, <2>4 DEF IInv, RefsUncached
  <2>5. CASE q = k
    <3>1. m \in Path[n]
      BY <1>0, <2>5, KidsFacts
    <3>2. m = n \/ bytes[m] < 0
      BY <1>0, <3>1, UserFacts
    <3> QED BY <2>1, <2>2, <2>3, <3>2
  <2> QED BY <2>4, <2>5 DEF Get
<1>3. CacheCoherent'
  <2> SUFFICES ASSUME NEW m \in live' \ (open' \cup raw') PROVE Coherent(m)'
    BY DEF CacheCoherent, Coherent
  <2>1. m \in Slot
    BY DEF Get, IInv, TypeOK
  <2>2. CASE m = n
    BY <2>1, <2>2 DEF Get, Coherent, Unknown, IInv, TypeOK
  <2>3. CASE m # n /\ m \in live
    <3>1. m \notin raw
      BY <2>3 DEF Get
    <3>2. bytes'[m] = bytes[m] /\ val'[m] = val[m]
      BY <2>1, <2>3 DEF Get, IInv, TypeOK
    <3>3. \A c \in LiveKids(m) \ {n} : bytes'[c] = bytes[c]
      BY <2>1, LiveKidsFinite DEF Get, IInv, TypeOK
    <3>4. LiveKids(m)' = LiveKids(m)
      <4>1. k \notin Kids(m)
        BY <1>0, <2>1, <2>3, OneParent
      <4> QED BY <4>1 DEF Get, LiveKids
    <3> QED BY <1>0, <2>1, <2>3, <3>1, <3>2, <3>3, <3>4, OthersCoherent
  <2>4. CASE m \notin live
    <3>1. m = k /\ m # n
      BY <1>0, <2>4 DEF Get
    <3>2. bytes'[m] = 0 /\ val'[m] = NoValues
      BY <2>1, <2>4, <3>1, FreeSlots DEF Get, IInv, TypeOK
    <3>3. LiveKids(m)' = {}
      <4>1. k \notin Kids(k)
        BY DEF Kids
      <4> QED BY <2>1, <2>4, <3>1, <4>1, FreeSlots DEF Get, LiveKids
    <3>4. val'[m] \in [Item -> SizeOrNone] /\ \A i \in Item : val'[m][i] = Absent
      BY <3>2, NoValuesType DEF NoValues
    <3> QED BY <2>1, <3>2, <3>3, <3>4, EmptiedCoherent
  <2> QED BY <2>2, <2>3, <2>4
<1> QED BY <1>0, <1>1, <1>2, <1>3, UserFacts DEF IInv

LEMMA TrimInv ==
    ASSUME IInv, TypeOK', NEW n \in Slot, Trim(n)
    PROVE  IInv'
<1>0. User(n) /\ n \in live /\ n \in refs /\ open = {}
  BY UserFacts DEF Trim
<1>1. \A m \in Slot : Total(val'[m]) = Total(val[m])
  <2> TAKE m \in Slot
  <2>1. val[m] \in [Item -> Int] /\ val'[m] \in [Item -> Int]
    BY SizesAreInts DEF IInv, TypeOK, SizeOrNone
  <2>2. \A i \in Item : val'[m][i] = val[m][i] \/ (val[m][i] <= 0 /\ val'[m][i] <= 0)
    BY DEF Trim, Absent, IInv, TypeOK
  <2> QED BY <2>1, <2>2, TotalSame
<1>2. TreeShape'
  <2> SUFFICES ASSUME NEW m \in Slot \ live' PROVE val'[m] = NoValues
    BY DEF Trim, IInv, TreeShape
  <2>1. val[m] = NoValues
    BY DEF Trim, IInv, TreeShape
  <2>2. [i \in Item |-> IF val[m][i] = 0 THEN Absent ELSE val[m][i]] = NoValues
    BY <2>1 DEF NoValues, Absent
  <2> QED BY <2>1, <2>2 DEF Trim
<1>3. RefsUncached'
  BY DEF Trim, IInv, RefsUncached
<1>4. CacheCoherent'
  <2> SUFFICES ASSUME NEW m \in live' \ (open' \cup raw') PROVE Coherent(m)'
    BY DEF CacheCoherent, Coherent
  <2>1. m \in Slot /\ m \in live \ raw /\ LiveKids(m)' = LiveKids(m) /\ bytes' = bytes
    BY DEF Trim, IInv, TypeOK, LiveKids
  <2>2. Coherent(m)
    BY <1>0, <2>1, UserFacts
  <2> QED BY <1>1, <2>1, <2>2, StaysCoherent
<1> QED BY <1>0, <1>2, <1>3, <1>4, UserFacts DEF IInv

(* What a removal leaves is still a forest.                                *)
LEMMA DestroyTree ==
    ASSUME IInv, NEW n \in live, NEW S \in SUBSET Slot, Cut(S),
           NEW newVal, NEW newBytes, Destroy(S, newVal, newBytes),
           \A m \in Slot \ {n} : newVal[m] = val[m] /\ newBytes[m] = bytes[m]
    PROVE  TreeShape'
<1>1. \A m \in live' : Path[m] \subseteq live'
  BY DEF Destroy, Cut, IInv, TreeShape, TypeOK
<1>2. \A m \in Slot \ live' : val'[m] = NoValues /\ bytes'[m] = 0
  BY DEF Destroy, IInv, TreeShape
<1> QED BY <1>1, <1>2 DEF TreeShape

LEMMA DestroyRefs ==
    ASSUME IInv, NEW n \in Slot, NEW S \in SUBSET Slot, Cut(S),
           NEW newVal, NEW newBytes, Destroy(S, newVal, newBytes),
           \A m \in Slot \ {n} : newBytes[m] = bytes[m],
           \A q \in refs' : n \in Path[q] \ {q} => newBytes[n] < 0
    PROVE  RefsUncached'
<1> SUFFICES ASSUME NEW q \in refs', NEW m \in Path[q] \ {q} PROVE bytes'[m] < 0
  BY DEF RefsUncached
<1>1. q \in refs /\ q \in Slot \ S
  BY DEF Destroy, IInv, TypeOK
<1>2. m \in Slot /\ m \notin S
  BY <1>1, PathAssumption DEF Cut
<1>3. bytes'[m] = newBytes[m]
  BY <1>2 DEF Destroy
<1>4. bytes[m] < 0
  BY <1>1 DEF IInv, RefsUncached
<1>5. CASE m = n
  BY <1>3, <1>5
<1>6. CASE m # n
  BY <1>2, <1>3, <1>4, <1>6
<1> QED BY <1>5, <1>6

(* A message outside of what is removed, other than the one it is removed  *)
(* from, stays coherent.                                                   *)
LEMMA DestroyCoherent ==
    ASSUME IInv, TypeOK', NEW n \in Slot, n \in refs,
           NEW S \in SUBSET Slot, NEW newVal, NEW newBytes, Destroy(S, newVal, newBytes),
           \A m \in Slot \ {n} : newVal[m] = val[m] /\ newBytes[m] = bytes[m],
           NEW m \in live' \ (open \cup raw), m # n,
           Kids(m) \cap S = {}
    PROVE  Coherent(m)'
<1>1. m \in live \ (open \cup raw) /\ m \in Slot /\ m \notin S
  BY DEF Destroy, IInv, TypeOK
<1>2. bytes'[m] = bytes[m] /\ val'[m] = val[m]
  BY <1>1 DEF Destroy
<1>3. LiveKids(m)' = LiveKids(m)
  BY DEF Destroy, LiveKids
<1>4. \A k \in LiveKids(m) \ {n} : bytes'[k] = bytes[k]
  <2> TAKE k \in LiveKids(m) \ {n}
  <2>1. k \in Slot /\ k \notin S
    BY <1>1, LiveKidsFinite DEF LiveKids
  <2> QED BY <2>1 DEF Destroy
<1> QED BY <1>1, <1>2, <1>3, <1>4, OthersCoherent

(* Emptying a message the application can reach leaves every other message *)
(* coherent that was, and the emptied one too.                             *)
LEMMA EmptiedShape ==
    ASSUME IInv, TypeOK', NEW n \in Slot, n \in refs, Emptied(n)
    PROVE  /\ TreeShape' /\ RefsUncached'
           /\ \A m \in live' : m = n \/ m \notin open \cup raw => Coherent(m)'
<1>0. n \in live /\ Below(n) \subseteq Slot /\ Cut(Below(n))
  BY BelowFacts, CutFacts DEF IInv, TypeOK
<1> DEFINE nv == [val EXCEPT ![n] = NoValues]
           nb == [bytes EXCEPT ![n] = 0]
<1>1. /\ Destroy(Below(n), nv, nb)
      /\ \A m \in Slot \ {n} : nv[m] = val[m] /\ nb[m] = bytes[m]
      /\ nv[n] = NoValues /\ nb[n] = 0
  BY DEF Emptied, IInv, TypeOK
<1> HIDE DEF nv, nb
<1>2. TreeShape'
  BY <1>0, <1>1, DestroyTree
<1>3. RefsUncached'
  <2>1. \A q \in refs' : n \notin Path[q] \ {q}
    BY <1>1 DEF Destroy, Below, Under, IInv, TypeOK
  <2> QED BY <1>0, <1>1, <2>1, DestroyRefs
<1>4. ASSUME NEW m \in live', m = n \/ m \notin open \cup raw
      PROVE  Coherent(m)'
  <2>1. m \in Slot /\ m \notin Below(n)
    BY <1>1 DEF Destroy, TypeOK
  <2>2. CASE m = n
    <3>1. bytes'[n] = 0 /\ val'[n] = NoValues
      BY <1>1, <2>1, <2>2 DEF Destroy
    <3>2. LiveKids(n)' = {}
      <4>1. \A k \in Kids(n) : k \in Below(n)
        BY UnderKids, UnderFacts, KidsFacts DEF Below
      <4> QED BY <1>1, <4>1 DEF Destroy, LiveKids
    <3>3. val'[n] \in [Item -> SizeOrNone] /\ \A i \in Item : val'[n][i] = Absent
      BY <3>1, NoValuesType DEF NoValues
    <3> QED BY <2>2, <3>1, <3>2, <3>3, EmptiedCoherent
  <2>3. CASE m # n
    <3>1. m \in live' \ (open \cup raw) /\ Kids(m) \cap Below(n) = {}
      BY <1>4, <2>1, <2>3, RemovedKids
    <3> QED BY <1>0, <1>1, <2>3, <3>1, DestroyCoherent
  <2> QED BY <2>2, <2>3
<1> QED BY <1>2, <1>3, <1>4

LEMMA ClearInv ==
    ASSUME IInv, TypeOK', NEW n \in Slot, Clear(n)
    PROVE  IInv'
<1>1. User(n) /\ n \in refs /\ open = {} /\ Emptied(n) /\ raw' = raw \ {n}
  BY UserFacts DEF Clear
<1>2. CacheCoherent'
  <2> SUFFICES ASSUME NEW m \in live' \ (open' \cup raw') PROVE Coherent(m)'
    BY DEF CacheCoherent, Coherent
  <2> QED BY <1>1, EmptiedShape
<1> QED BY <1>1, <1>2, EmptiedShape, UserFacts DEF IInv

LEMMA AssignInv ==
    ASSUME IInv, TypeOK', NEW r \in Slot, NEW s \in Slot, Assign(r, s)
    PROVE  IInv'
<1>0. /\ User(r) /\ r \in live /\ r \in refs /\ open = {} /\ r \in Root
      /\ s \in live /\ LiveKids(s) = {}
      /\ Below(r) \subseteq Slot /\ Cut(Below(r))
  BY UserFacts, BelowFacts, CutFacts DEF Assign
<1> DEFINE nv == [val EXCEPT ![r] = val[s]]
           nb == [bytes EXCEPT ![r] = bytes[s]]
<1>1. /\ Destroy(Below(r), nv, nb)
      /\ \A m \in Slot \ {r} : nv[m] = val[m] /\ nb[m] = bytes[m]
      /\ nv[r] = val[s] /\ nb[r] = bytes[s]
  BY DEF Assign, IInv, TypeOK
<1> HIDE DEF nv, nb
<1>2. TreeShape'
  BY <1>0, <1>1, DestroyTree
<1>3. RefsUncached'
  <2>1. \A q \in refs' : r \notin Path[q] \ {q}
    BY <1>1 DEF Destroy, Below, Under, IInv, TypeOK
  <2> QED BY <1>0, <1>1, <2>1, DestroyRefs
<1>4. CacheCoherent'
  <2> SUFFICES ASSUME NEW m \in live' \ (open' \cup raw') PROVE Coherent(m)'
    BY DEF CacheCoherent, Coherent
  <2>1. m \in Slot /\ m \notin Below(r)
    BY <1>1 DEF Destroy, TypeOK
  <2>2. CASE m = r
    <3>1. bytes'[r] = bytes[s] /\ val'[r] = val[s]
      BY <1>1, <2>1, <2>2 DEF Destroy
    <3>2. LiveKids(r)' = {}
      <4>1. \A k \in Kids(r) : k \in Below(r)
        BY UnderKids, UnderFacts, KidsFacts DEF Below
      <4> QED BY <1>1, <4>1 DEF Destroy, LiveKids
    <3>3. s \notin raw
      BY <2>2 DEF Assign
    <3>4. Coherent(s)
      BY <1>0, <3>3, UserFacts
    <3>5. Length(r)' = Length(s)
      BY <1>0, <3>1, <3>2, NothingTotal DEF Length
    <3> QED BY <1>0, <2>2, <3>1, <3>2, <3>4, <3>5 DEF Coherent
  <2>3. CASE m # r
    <3>1. m \in live' \ (open \cup raw) /\ Kids(m) \cap Below(r) = {}
      BY <1>0, <2>1, <2>3, RemovedKids DEF Assign
    <3> QED BY <1>0, <1>1, <2>3, <3>1, DestroyCoherent
  <2> QED BY <2>2, <2>3
<1> QED BY <1>0, <1>2, <1>3, <1>4, UserFacts DEF IInv

LEMMA SetMessageInv ==
    ASSUME IInv, TypeOK', "nest" \notin Careless,
           NEW n \in Slot, NEW k \in Slot, NEW s \in Slot, SetMessage(n, k, s)
    PROVE  IInv'
<1>0. /\ User(n) /\ n \in live /\ n \in refs /\ open = {} /\ open' = {}
      /\ k \in Kids(n) /\ s \in live /\ LiveKids(s) = {} /\ s \notin raw
      /\ raw' = raw \ {n}
  BY UserFacts DEF SetMessage
<1>1. k # n /\ n \notin Below(k) /\ k \notin Below(k) /\ Cut(Below(k))
  <2>1. n \notin Below(k)
    BY <1>0, KidsFacts, PathAssumption DEF Below, Under
  <2> QED BY <1>0, <2>1, KidsFacts, CutFacts DEF Below
<1>2. \A m \in Slot : /\ m = n => bytes'[m] < 0
                      /\ m = k => bytes'[m] = bytes[s] /\ val'[m] = val[s]
                      /\ m \in Below(k) => bytes'[m] = 0 /\ val'[m] = NoValues
                      /\ m \notin Below(k) \cup {n, k} =>
                           bytes'[m] = bytes[m] /\ val'[m] = val[m]
                      /\ m \notin Below(k) \cup {k} => val'[m] = val[m]
  BY <1>1 DEF SetMessage, Unknown
<1>3. live' = (live \ Below(k)) \cup {k} /\ refs' = refs \ Below(k)
  BY DEF SetMessage
<1>4. TreeShape'
  <2>1. ASSUME NEW m \in live' PROVE Path[m] \subseteq live'
    <3>1. CASE m = k
      <4>1. Path[k] = Path[n] \cup {k} /\ Path[n] \subseteq live
        BY <1>0 DEF Kids, IInv, TreeShape
      <4>2. Path[n] \cap Below(k) = {}
        BY <1>1 DEF Cut
      <4> QED BY <1>3, <3>1, <4>1, <4>2
    <3>2. CASE m \in live \ Below(k)
      <4>1. m \in Slot /\ Path[m] \subseteq live
        BY <3>2 DEF IInv, TypeOK, TreeShape
      <4>2. Path[m] \cap Below(k) = {}
        BY <1>1, <3>2, <4>1 DEF Cut
      <4> QED BY <1>3, <4>1, <4>2
    <3> QED BY <1>3, <3>1, <3>2
  <2>2. ASSUME NEW m \in Slot \ live' PROVE val'[m] = NoValues /\ bytes'[m] = 0
    <3>1. CASE m \in Below(k)
      BY <1>2, <3>1
    <3>2. CASE m \notin Below(k)
      <4>1. m \notin live /\ m # n /\ m # k
        BY <1>0, <1>3, <2>2, <3>2
      <4>2. val[m] = NoValues /\ bytes[m] = 0
        BY <4>1 DEF IInv, TreeShape
      <4> QED BY <1>2, <3>2, <4>1, <4>2
    <3> QED BY <3>1, <3>2
  <2> QED BY <2>1, <2>2 DEF TreeShape
<1>5. RefsUncached'
  <2> SUFFICES ASSUME NEW q \in refs', NEW m \in Path[q] \ {q} PROVE bytes'[m] < 0
    BY DEF RefsUncached
  <2>1. q \in refs /\ q \in Slot /\ q \notin Below(k)
    BY <1>3 DEF IInv, TypeOK
  <2>2. m \in Slot /\ m \notin Below(k)
    BY <1>1, <2>1, PathAssumption DEF Cut
  <2>3. m # k
    BY <2>1 DEF Below, Under
  <2>4. bytes[m] < 0
    BY <2>1 DEF IInv, RefsUncached
  <2> QED BY <1>2, <2>2, <2>3, <2>4
<1>6. CacheCoherent'
  <2> SUFFICES ASSUME NEW m \in live' \ (open' \cup raw') PROVE Coherent(m)'
    BY DEF CacheCoherent, Coherent
  <2>1. m \in Slot /\ m \notin Below(k)
    BY <1>1, <1>3 DEF IInv, TypeOK
  <2>2. CASE m = n
    BY <1>2, <2>1, <2>2 DEF Coherent, TypeOK
  <2>3. CASE m = k
    <3>1. LiveKids(k)' = {}
      <4>1. \A c \in Kids(k) : c \in Below(k) /\ c # k
        BY UnderKids, UnderFacts, KidsFacts DEF Below
      <4> QED BY <1>3, <4>1 DEF LiveKids
    <3>2. Coherent(s)
      BY <1>0, UserFacts
    <3>3. bytes'[k] = bytes[s] /\ val'[k] = val[s]
      BY <1>2, <2>1, <2>3
    <3>4. Length(k)' = Length(s)
      BY <1>0, <3>1, <3>3, NothingTotal DEF Length
    <3>5. Coherent(k)'
      BY <3>1, <3>2, <3>3, <3>4 DEF Coherent
    <3> QED BY <2>3, <3>5
  <2>4. CASE m # n /\ m # k
    <3>1. m \in live /\ m \notin raw /\ bytes'[m] = bytes[m] /\ val'[m] = val[m]
      BY <1>0, <1>2, <1>3, <2>1, <2>4
    <3>2. Kids(m) \cap Below(k) = {} /\ k \notin Kids(m)
      BY <1>0, <2>1, <2>4, RemovedKids, OneParent
    <3>3. LiveKids(m)' = LiveKids(m)
      BY <1>3, <3>2 DEF LiveKids
    <3>4. \A c \in LiveKids(m) \ {n} : bytes'[c] = bytes[c]
      <4> TAKE c \in LiveKids(m) \ {n}
      <4>1. c \in Slot /\ c # k /\ c \notin Below(k)
        BY <2>1, <3>2, LiveKidsFinite DEF LiveKids
      <4> QED BY <1>2, <4>1
    <3> QED BY <1>0, <2>4, <3>1, <3>3, <3>4, OthersCoherent
  <2> QED BY <2>2, <2>3, <2>4
<1> QED BY <1>0, <1>4, <1>5, <1>6, UserFacts DEF IInv

(* When erasing x leaves message n without known size zero, something is   *)
(* left in it.                                                             *)
LEMMA SizeWithoutZero ==
    ASSUME TypeOK, NEW n \in Slot, NEW x, SizeWithout(n, x) = 0
    PROVE  Values(val[n]) \subseteq {x} /\ LiveKids(n) \subseteq {x}
<1>1. IsFiniteSet(Values(val[n]) \ {x}) /\ IsFiniteSet(LiveKids(n) \ {x})
  <2>1. IsFiniteSet(Values(val[n]))
    BY FS_Subset, SlotAssumption DEF Values
  <2> QED BY <2>1, LiveKidsFinite, FS_Difference
<1>2. Cardinality(Values(val[n]) \ {x}) \in Nat /\ Cardinality(LiveKids(n) \ {x}) \in Nat
  BY <1>1, FS_CardinalityType
<1>3. Cardinality(Values(val[n]) \ {x}) = 0 /\ Cardinality(LiveKids(n) \ {x}) = 0
  BY <1>2 DEF SizeWithout
<1>4. Values(val[n]) \ {x} = {} /\ LiveKids(n) \ {x} = {}
  BY <1>1, <1>3, FS_EmptySet
<1> QED BY <1>4

LEMMA EraseAtInv ==
    ASSUME IInv, TypeOK', NEW n \in Slot, NEW x \in Item \cup Slot, EraseAt(n, x)
    PROVE  IInv'
<1>0. /\ User(n) /\ n \in live /\ n \in refs /\ open = {} /\ open' = {}
      /\ raw' = raw \ {n} /\ x \in Item \cup Kids(n)
  BY UserFacts DEF EraseAt
<1>1. TypeOK
  BY DEF IInv
<1> DEFINE S == Erased(x)
           nv == ValuesWithout(n, x)
           nb == [bytes EXCEPT ![n] = -SizeWithout(n, x)]
<1>2. /\ S \in SUBSET Slot /\ Cut(S) /\ n \notin S
      /\ \/ S = {}
         \/ x \in Kids(n) /\ S = Under(x)
  <2>1. CASE x \in Item
    BY <2>1, CutFacts DEF Erased
  <2>2. CASE x \in Kids(n)
    <3>1. x \in Slot /\ x \notin Item /\ x \notin Path[n]
      BY <2>2, KidsFacts, SlotAssumption
    <3> QED BY <2>2, <3>1, CutFacts, UnderFacts DEF Erased, Under
  <2> QED BY <1>0, <2>1, <2>2
<1>3. /\ Destroy(S, nv, nb)
      /\ \A m \in Slot \ {n} : nv[m] = val[m] /\ nb[m] = bytes[m]
      /\ nb[n] = -SizeWithout(n, x)
      /\ \A i \in Item : nv[n][i] = IF i = x THEN Absent ELSE val[n][i]
      /\ nv[n] \in [Item -> SizeOrNone]
  <2>1. val \in [Slot -> [Item -> SizeOrNone]] /\ bytes \in [Slot -> Int]
    BY <1>1 DEF TypeOK, SizeOrNone
  <2> QED BY <2>1 DEF EraseAt, ValuesWithout, SizeOrNone
<1>4. SizeWithout(n, x) \in Nat
  BY <1>1, SizeWithoutType
<1> HIDE DEF S, nv, nb
<1>5. TreeShape'
  BY <1>0, <1>2, <1>3, DestroyTree
<1>6. RefsUncached'
  <2>1. ASSUME NEW q \in refs', n \in Path[q] \ {q} PROVE nb[n] < 0
    <3>1. q \in refs /\ q \in live /\ q \in Slot /\ q \notin S
      BY <1>3 DEF Destroy, IInv, TypeOK
    <3>2. PICK c \in Path[q] \ {n} : Path[c] = Path[n] \cup {c}
      BY <2>1, <3>1, PathAssumption
    <3>3. c \in Slot /\ c \in live /\ c \in Kids(n)
      BY <3>1, <3>2, PathAssumption DEF Kids, IInv, TreeShape
    <3>4. c \notin S
      BY <1>2, <3>1, <3>2 DEF Cut
    <3>5. c # x
      <4>1. CASE S = {}
        <5>1. CASE x \in Kids(n)
          BY <4>1, <5>1, KidsFacts, UnderFacts, SlotAssumption DEF S, Erased
        <5> QED BY <1>0, <5>1, <3>3, SlotAssumption
      <4>2. CASE S = Under(x) /\ x \in Kids(n)
        BY <3>4, <4>2, KidsFacts, UnderFacts
      <4> QED BY <1>2, <4>1, <4>2
    <3>6. SizeWithout(n, x) # 0
      BY <1>1, <3>3, <3>5, SizeWithoutZero DEF LiveKids
    <3> QED BY <1>3, <1>4, <3>6
  <2> QED BY <1>2, <1>3, <2>1, DestroyRefs
<1>7. CacheCoherent'
  <2> SUFFICES ASSUME NEW m \in live' \ (open' \cup raw') PROVE Coherent(m)'
    BY DEF CacheCoherent, Coherent
  <2>1. m \in Slot /\ m \notin S
    BY <1>3 DEF Destroy, IInv, TypeOK
  <2>2. CASE m = n
    <3>1. bytes'[n] = -SizeWithout(n, x) /\ val'[n] = nv[n]
      BY <1>2, <1>3 DEF Destroy
    <3>2. CASE SizeWithout(n, x) # 0
      BY <1>4, <2>2, <3>1, <3>2 DEF Coherent
    <3>3. CASE SizeWithout(n, x) = 0
      <4>1. Values(val[n]) \subseteq {x} /\ LiveKids(n) \subseteq {x}
        BY <1>1, <3>3, SizeWithoutZero
      <4>2. \A i \in Item : val'[n][i] = Absent
        BY <1>3, <3>1, <4>1 DEF Values
      <4>3. LiveKids(n)' = {}
        <5>1. CASE x \in Kids(n)
          <6>1. x \in S
            BY <5>1, KidsFacts, UnderFacts, SlotAssumption DEF S, Erased
          <6> QED BY <1>3, <4>1, <6>1 DEF Destroy, LiveKids
        <5>2. CASE x \notin Kids(n)
          BY <1>3, <4>1, <5>2 DEF Destroy, LiveKids
        <5> QED BY <5>1, <5>2
      <4>4. bytes'[n] = 0
        <5>1. -SizeWithout(n, x) = 0 - SizeWithout(n, x)
          BY <1>4
        <5> QED BY <3>1, <3>3, <5>1
      <4> QED BY <1>3, <2>2, <3>1, <4>2, <4>3, <4>4, EmptiedCoherent
    <3> QED BY <3>2, <3>3
  <2>3. CASE m # n
    <3>1. m \in live' \ (open \cup raw)
      BY <1>0, <2>3
    <3>2. Kids(m) \cap S = {}
      <4>1. CASE S = {}
        BY <4>1
      <4>2. CASE x \in Kids(n) /\ S = Under(x)
        BY <2>1, <2>3, <4>2, RemovedKids
      <4> QED BY <1>2, <4>1, <4>2
    <3> QED BY <1>0, <1>2, <1>3, <2>3, <3>1, <3>2, DestroyCoherent
  <2> QED BY <2>2, <2>3
<1> QED BY <1>0, <1>5, <1>6, <1>7, UserFacts DEF IInv

(* No step of an application within the contract breaks the invariant.     *)
LEMMA MutateInv ==
    ASSUME Careless = {}, IInv, TypeOK', Mutate
    PROVE  IInv'
<1>1. PICK n \in Slot :
        \/ \E i \in Item, s \in ValueSize : Set(n, i, s) \/ GetValue(n, i, s)
        \/ \E k \in Slot : Get(n, k) \/ Iterate(n, k)
        \/ GetThrows(n)
        \/ \E k, s \in Slot : SetMessage(n, k, s)
        \/ \E s \in Slot : Assign(n, s)
        \/ \E x \in Item \cup Slot : EraseId(n, x) \/ EraseAt(n, x)
        \/ Trim(n)
        \/ Clear(n)
  BY DEF Mutate
<1>2. ASSUME NEW i \in Item, NEW s \in ValueSize, Store(n, i, s) PROVE IInv'
  BY <1>2, StoreInv
<1>3. ASSUME NEW k \in Slot, Get(n, k) PROVE IInv'
  BY <1>3, GetInv
<1>4. \A k, x : ~Iterate(n, k) /\ ~EraseId(n, x)
  BY DEF Iterate, EraseId
<1>5. CASE GetThrows(n)
  BY <1>5, GetThrowsInv
<1>6. ASSUME NEW k \in Slot, NEW s \in Slot, SetMessage(n, k, s) PROVE IInv'
  BY <1>6, SetMessageInv
<1>7. ASSUME NEW s \in Slot, Assign(n, s) PROVE IInv'
  BY <1>7, AssignInv
<1>8. ASSUME NEW x \in Item \cup Slot, EraseAt(n, x) PROVE IInv'
  BY <1>8, EraseAtInv
<1>9. CASE Trim(n)
  BY <1>9, TrimInv
<1>10. CASE Clear(n)
  BY <1>10, ClearInv
<1> QED BY <1>1, <1>2, <1>3, <1>4, <1>5, <1>6, <1>7, <1>8, <1>9, <1>10 DEF Set, GetValue
-----------------------------------------------------------------------------
(* The encoder's steps *)

LEMMA PhaseFacts ==
    ASSUME IInv
    PROVE  /\ phase # "encode" => \A m \in Slot : body[m] = Unknown
           /\ phase # "decode" => open = {}
           /\ \A m \in live \ (open \cup raw) : Coherent(m)
BY DEF IInv, EncodeShape, DecodeShape, CacheCoherent, Coherent

LEMMA StartEncodeInv ==
    ASSUME IInv, TypeOK', "hold" \notin Careless, NEW r \in Root, StartEncode(r)
    PROVE  IInv'
<1>1. /\ open = {} /\ refs' = Root /\ phase' = "encode"
      /\ \A m \in Slot : body[m] = Unknown
  BY PhaseFacts DEF StartEncode
<1>2. TreeShape' /\ PrefixExact' /\ CacheCoherent'
  BY DEF StartEncode, IInv, TreeShape, PrefixExact, CacheCoherent, Coherent, LiveKids, Length
<1>3. RefsUncached'
  BY <1>1, PathAssumption DEF RefsUncached
<1>4. EncodeShape' /\ DecodeShape'
  BY <1>1 DEF StartEncode, EncodeShape, DecodeShape
<1> QED BY <1>2, <1>3, <1>4 DEF IInv

LEMMA MeasureInv ==
    ASSUME IInv, TypeOK', NEW n \in Slot, Measure(n)
    PROVE  IInv'
<1>1. /\ phase = "encode" /\ phase' = "encode" /\ n \in live /\ bytes[n] < 0
      /\ open = {} /\ open' = {} /\ refs = Root /\ refs' = Root /\ live' = live
      /\ val' = val /\ raw' = raw /\ prefix' = prefix /\ body' = body
      /\ \A k \in LiveKids(n) : bytes[k] >= 0
      /\ bytes'[n] = Length(n) /\ \A m \in Slot \ {n} : bytes'[m] = bytes[m]
  BY PhaseFacts DEF Measure, Encoding, codecVars, IInv, EncodeShape, TypeOK
<1>2. TreeShape' /\ PrefixExact' /\ DecodeShape'
  BY <1>1 DEF IInv, TreeShape, PrefixExact, DecodeShape
<1>3. RefsUncached'
  BY <1>1, PathAssumption DEF RefsUncached
<1>4. EncodeShape'
  <2>1. body[n] = Unknown
    BY <1>1 DEF IInv, TypeOK, EncodeShape
  <2> QED BY <1>1, <2>1 DEF IInv, EncodeShape
<1>5. CacheCoherent'
  <2> SUFFICES ASSUME NEW m \in live' \ (open' \cup raw') PROVE Coherent(m)'
    BY DEF CacheCoherent, Coherent
  <2>1. m \in Slot /\ Coherent(m) /\ LiveKids(m)' = LiveKids(m)
    BY <1>1, PhaseFacts DEF LiveKids, IInv, TypeOK
  <2>2. \A k \in LiveKids(m) : k \in Slot /\ k # m
    BY <2>1, KidsFacts DEF LiveKids
  <2>3. CASE m = n
    <3>1. \A k \in LiveKids(n) : bytes'[k] = bytes[k]
      BY <1>1, <2>2, <2>3
    <3>2. [k \in LiveKids(n) |-> Framed(Tag[k], bytes'[k], bytes'[k])]
            = [k \in LiveKids(n) |-> Framed(Tag[k], bytes[k], bytes[k])]
      BY <3>1, FramesSame
    <3>3. Length(n)' = Length(n)
      BY <1>1, <2>1, <2>3, <3>2 DEF Length
    <3> QED BY <1>1, <2>1, <2>3, <3>1, <3>3 DEF Coherent
  <2>4. CASE m # n /\ n \in LiveKids(m)
    <3>1. bytes[m] < 0
      BY <1>1, <2>1, <2>4, ParentUnknown DEF IInv
    <3> QED BY <1>1, <2>1, <2>4, <3>1 DEF Coherent, IInv, TypeOK
  <2>5. CASE m # n /\ n \notin LiveKids(m)
    <3>1. \A k \in LiveKids(m) : bytes'[k] = bytes[k]
      BY <1>1, <2>2, <2>5
    <3> QED BY <1>1, <2>1, <2>5, <3>1, StaysCoherent
  <2> QED BY <2>3, <2>4, <2>5
<1> QED BY <1>2, <1>3, <1>4, <1>5 DEF IInv

LEMMA EncodeMessageInv ==
    ASSUME IInv, TypeOK', NEW n \in Slot, EncodeMessage(n)
    PROVE  IInv'
<1>1. /\ phase = "encode" /\ n \in live \ (open \cup raw) /\ open = {}
      /\ bytes[n] >= 0
      /\ \A k \in LiveKids(n) : body[k] # Unknown
  <2>1. n \in Below(target) /\ target \in Slot /\ raw \subseteq Root
    BY SlotAssumption DEF EncodeMessage, Encoding, IInv, TypeOK
  <2> QED BY <2>1, PhaseFacts, BelowFacts DEF EncodeMessage, Encoding
<1>2. /\ live' = live /\ val' = val /\ bytes' = bytes /\ refs' = refs /\ raw' = raw
      /\ phase' = phase /\ target' = target /\ open' = open
  BY DEF EncodeMessage
<1>3. /\ prefix'[n] = bytes[n]
      /\ body'[n] = Total(val[n])
           + Total([k \in LiveKids(n) |-> Framed(Tag[k], prefix[k], body[k])])
      /\ \A m \in Slot \ {n} : prefix'[m] = prefix[m] /\ body'[m] = body[m]
  BY DEF EncodeMessage, IInv, TypeOK
<1>4. body'[n] = bytes[n]
  <2>1. \A k \in LiveKids(n) : prefix[k] = bytes[k] /\ body[k] = bytes[k]
    BY <1>1, LiveKidsFinite DEF IInv, PrefixExact, EncodeShape
  <2>2. [k \in LiveKids(n) |-> Framed(Tag[k], prefix[k], body[k])]
          = [k \in LiveKids(n) |-> Framed(Tag[k], bytes[k], bytes[k])]
    BY <2>1
  <2>3. body'[n] = Length(n)
    BY <1>3, <2>2 DEF Length
  <2> QED BY <1>1, <2>3, PhaseFacts DEF Coherent
<1>5. TreeShape' /\ RefsUncached' /\ CacheCoherent' /\ DecodeShape'
  BY <1>2, <1>1 DEF IInv, TreeShape, RefsUncached, CacheCoherent, Coherent, DecodeShape,
         LiveKids, Length
<1>6. PrefixExact' /\ EncodeShape'
  BY <1>1, <1>2, <1>3, <1>4 DEF IInv, PrefixExact, EncodeShape
<1> QED BY <1>5, <1>6 DEF IInv

LEMMA LeaveEncodeInv ==
    ASSUME IInv, TypeOK', FinishEncode \/ EncodeThrows
    PROVE  IInv'
<1>1. /\ live' = live /\ val' = val /\ bytes' = bytes /\ refs' = refs /\ raw' = raw
      /\ phase' = "user" /\ open' = {} /\ open = {}
      /\ prefix' = NothingWritten /\ body' = NothingWritten
  BY PhaseFacts DEF FinishEncode, EncodeThrows
<1>2. TreeShape' /\ RefsUncached' /\ CacheCoherent' /\ DecodeShape'
  BY <1>1 DEF IInv, TreeShape, RefsUncached, CacheCoherent, Coherent, DecodeShape,
         LiveKids, Length
<1>3. PrefixExact' /\ EncodeShape'
  BY <1>1 DEF PrefixExact, EncodeShape, NothingWritten
<1> QED BY <1>2, <1>3 DEF IInv

LEMMA EncodeInv ==
    ASSUME Careless = {}, IInv, TypeOK', Encode
    PROVE  IInv'
<1>1. ASSUME NEW r \in Root, StartEncode(r) PROVE IInv'
  BY <1>1, StartEncodeInv
<1>2. ASSUME NEW n \in Slot, Measure(n) \/ EncodeMessage(n) PROVE IInv'
  BY <1>2, MeasureInv, EncodeMessageInv
<1>3. CASE FinishEncode \/ EncodeThrows
  BY <1>3, LeaveEncodeInv
<1> QED BY <1>1, <1>2, <1>3 DEF Encode
-----------------------------------------------------------------------------
(* The decoder's steps *)

LEMMA StartDecodeInv ==
    ASSUME IInv, TypeOK', NEW r \in Root, StartDecode(r)
    PROVE  IInv'
<1>1. /\ r \in Slot /\ r \in refs /\ Emptied(r) /\ open = {}
      /\ phase' = "decode" /\ target' = r /\ open' = {r} /\ raw' = raw \ {r}
      /\ prefix' = prefix /\ body' = body
      /\ \A m \in Slot : body[m] = Unknown
  BY PhaseFacts, SlotAssumption DEF StartDecode, IInv, TypeOK
<1>2. /\ live' = live \ Below(r) /\ refs' = refs \ Below(r)
      /\ r \notin Below(r) /\ r \in live' /\ r \in refs'
      /\ val'[r] = NoValues
  BY <1>1 DEF Emptied, Destroy, Below, IInv, TypeOK
<1>3. CacheCoherent'
  <2> SUFFICES ASSUME NEW m \in live' \ (open' \cup raw') PROVE Coherent(m)'
    BY DEF CacheCoherent, Coherent
  <2> QED BY <1>1, EmptiedShape
<1>4. PrefixExact' /\ EncodeShape'
  BY <1>1 DEF IInv, PrefixExact, EncodeShape
<1>5. DecodeShape'
  <2>1. Path[r] = {r} /\ r \in Under(r)
    BY <1>1, PathAssumption, UnderFacts
  <2>2. refs' \cap Under(r) = {r} /\ (live' \cap Under(r)) \ {r} = {}
    BY <1>2, <2>1 DEF Below
  <2>3. \A i \in Item : val'[r][i] # 0
    BY <1>2 DEF NoValues, Absent
  <2> QED BY <1>1, <1>2, <2>1, <2>2, <2>3 DEF DecodeShape
<1> QED BY <1>1, <1>3, <1>4, <1>5, EmptiedShape DEF IInv

(* What every step inside of the input finds.                              *)
LEMMA ReadingFacts ==
    ASSUME IInv, NEW n \in Slot, Reading(n)
    PROVE  /\ phase = "decode" /\ n \in open /\ n \in live /\ n \in Under(target)
           /\ \A m \in Slot : body[m] = Unknown
           /\ \A m \in Slot \ open : n \notin Kids(m)
<1>1. /\ phase = "decode" /\ n \in open /\ n \in live /\ n \in Under(target)
      /\ Path[n] \subseteq open
  BY DEF Reading, IInv, DecodeShape
<1>2. ASSUME NEW m \in Slot \ open, n \in Kids(m) PROVE FALSE
  BY <1>1, <1>2, KidsFacts
<1> QED BY <1>1, <1>2, PhaseFacts

LEMMA DecodeValueInv ==
    ASSUME IInv, TypeOK', "foreign" \notin Careless,
           NEW n \in Slot, NEW i \in Item, NEW s \in ValueSize, DecodeValue(n, i, s)
    PROVE  IInv'
<1>1. /\ n \in open /\ n \in live /\ \A m \in Slot : body[m] = Unknown
      /\ phase = "decode" /\ phase' = phase /\ target' = target /\ open' = open
      /\ live' = live /\ refs' = refs /\ raw' = raw /\ prefix' = prefix /\ body' = body
  BY ReadingFacts DEF DecodeValue, codecVars
<1>2. /\ \A m \in Slot \ {n} : val'[m] = val[m] /\ bytes'[m] = bytes[m]
      /\ bytes'[n] = bytes[n] \/ bytes'[n] = -1
      /\ \A j \in Item : val'[n][j] = IF j = i THEN s ELSE val[n][j]
      /\ s # 0
  BY DEF DecodeValue, ResetIf, Unknown, IInv, TypeOK
<1>3. TreeShape' /\ PrefixExact' /\ EncodeShape'
  BY <1>1, <1>2 DEF IInv, TreeShape, PrefixExact, EncodeShape
<1>4. RefsUncached'
  <2> SUFFICES ASSUME NEW q \in refs', NEW m \in Path[q] \ {q} PROVE bytes'[m] < 0
    BY DEF RefsUncached
  <2>1. m \in Slot /\ bytes[m] < 0
    BY <1>1, PathAssumption DEF IInv, RefsUncached, TypeOK
  <2> QED BY <1>2, <2>1
<1>5. CacheCoherent'
  <2> SUFFICES ASSUME NEW m \in live' \ (open' \cup raw') PROVE Coherent(m)'
    BY DEF CacheCoherent, Coherent
  <2>1. m \in Slot /\ m # n /\ Coherent(m) /\ LiveKids(m)' = LiveKids(m) /\ n \notin Kids(m)
    BY <1>1, PhaseFacts, ReadingFacts DEF LiveKids, IInv, TypeOK, DecodeValue
  <2>2. \A k \in LiveKids(m) : bytes'[k] = bytes[k]
    BY <1>2, <2>1, LiveKidsFinite DEF LiveKids
  <2> QED BY <1>2, <2>1, <2>2, StaysCoherent
<1>6. DecodeShape'
  <2>1. \A m \in (live \cap Under(target)) \ open : bytes'[m] >= 0
    BY <1>1, <1>2 DEF IInv, DecodeShape, TypeOK
  <2>2. \A m \in open, j \in Item : val'[m][j] # 0
    BY <1>1, <1>2 DEF IInv, DecodeShape, TypeOK
  <2> QED BY <1>1, <2>1, <2>2 DEF IInv, DecodeShape
<1> QED BY <1>3, <1>4, <1>5, <1>6 DEF IInv

LEMMA OpenMessageInv ==
    ASSUME IInv, TypeOK', NEW n \in Slot, NEW k \in Slot, OpenMessage(n, k)
    PROVE  IInv'
<1>1. /\ n \in open /\ n \in live /\ n \in Under(target)
      /\ \A m \in Slot : body[m] = Unknown
      /\ phase = "decode" /\ phase' = phase /\ target' = target /\ open' = open \cup {k}
      /\ k \in Kids(n) /\ k \notin live /\ live' = live \cup {k}
      /\ val' = val /\ refs' = refs /\ raw' = raw /\ prefix' = prefix /\ body' = body
  BY ReadingFacts DEF OpenMessage
<1>2. /\ \A m \in Slot \ {n} : bytes'[m] = bytes[m]
      /\ bytes'[n] = bytes[n] \/ bytes'[n] = -1
  BY DEF OpenMessage, ResetIf, Unknown, IInv, TypeOK
<1>3. Path[k] = Path[n] \cup {k}
  BY <1>1 DEF Kids
<1>4. TreeShape' /\ PrefixExact' /\ EncodeShape'
  BY <1>1, <1>2, <1>3 DEF IInv, TreeShape, PrefixExact, EncodeShape
<1>5. RefsUncached'
  <2> SUFFICES ASSUME NEW q \in refs', NEW m \in Path[q] \ {q} PROVE bytes'[m] < 0
    BY DEF RefsUncached
  <2>1. m \in Slot /\ bytes[m] < 0
    BY <1>1, PathAssumption DEF IInv, RefsUncached, TypeOK
  <2> QED BY <1>2, <2>1
<1>6. CacheCoherent'
  <2> SUFFICES ASSUME NEW m \in live' \ (open' \cup raw') PROVE Coherent(m)'
    BY DEF CacheCoherent, Coherent
  <2>1. m \in Slot /\ m # n /\ Coherent(m) /\ n \notin Kids(m) /\ k \notin Kids(m)
    BY <1>1, PhaseFacts, ReadingFacts, OneParent DEF IInv, TypeOK, OpenMessage
  <2>2. LiveKids(m)' = LiveKids(m)
    BY <1>1, <2>1 DEF LiveKids
  <2>3. \A c \in LiveKids(m) : bytes'[c] = bytes[c]
    BY <1>2, <2>1, LiveKidsFinite DEF LiveKids
  <2> QED BY <1>1, <1>2, <2>1, <2>2, <2>3, StaysCoherent
<1>7. DecodeShape'
  <2>1. open' \subseteq live' \cap Under(target)
    <3>1. k \in Under(target)
      BY <1>1, UnderKids, SlotAssumption DEF IInv, TypeOK
    <3> QED BY <1>1, <3>1 DEF IInv, DecodeShape
  <2>2. \A m \in open' : Path[m] \subseteq open'
    BY <1>1, <1>3 DEF IInv, DecodeShape
  <2>3. \A m \in (live' \cap Under(target)) \ open' : bytes'[m] >= 0
    BY <1>1, <1>2 DEF IInv, DecodeShape, TypeOK
  <2>4. \A j \in Item : val[k][j] # 0
    BY <1>1, FreeSlots DEF NoValues, Absent
  <2> QED BY <1>1, <2>1, <2>2, <2>3, <2>4 DEF IInv, DecodeShape
<1> QED BY <1>4, <1>5, <1>6, <1>7 DEF IInv

LEMMA CloseMessageInv ==
    ASSUME IInv, TypeOK', NEW n \in Slot, CloseMessage(n)
    PROVE  IInv'
<1>1. /\ n \in open /\ n \in live /\ n \in Under(target) /\ n # target
      /\ Kids(n) \cap open = {}
      /\ \A m \in Slot : body[m] = Unknown
      /\ phase = "decode" /\ phase' = phase /\ target' = target /\ open' = open \ {n}
      /\ live' = live
      /\ val' = val /\ refs' = refs /\ raw' = raw /\ prefix' = prefix /\ body' = body
  BY ReadingFacts DEF CloseMessage, Reading
<1>2. /\ \A m \in Slot \ {n} : bytes'[m] = bytes[m]
      /\ bytes'[n] = WireLength(n)
  BY DEF CloseMessage, IInv, TypeOK
<1>3. target \in Root /\ target \in Slot /\ Path[target] = {target}
  BY PathAssumption, SlotAssumption DEF IInv, TypeOK
<1>4. TreeShape' /\ PrefixExact' /\ EncodeShape'
  BY <1>1, <1>2 DEF IInv, TreeShape, PrefixExact, EncodeShape
<1>5. RefsUncached'
  <2> SUFFICES ASSUME NEW q \in refs', NEW m \in Path[q] \ {q} PROVE bytes'[m] < 0
    BY DEF RefsUncached
  <2>1. q \in Slot /\ m \in Slot /\ bytes[m] < 0 /\ q \in refs
    BY <1>1, PathAssumption DEF IInv, RefsUncached, TypeOK
  <2>2. m # n
    <3> SUFFICES ASSUME m = n PROVE FALSE
      OBVIOUS
    <3>1. target \in Path[q]
      BY <1>1, <2>1, PathAssumption DEF Under
    <3>2. q = target
      BY <1>1, <2>1, <3>1 DEF IInv, DecodeShape, Under
    <3> QED BY <1>3, <3>2
  <2> QED BY <1>2, <2>1, <2>2
<1>6. WireLength(n) = Length(n) /\ Length(n) \in Nat
  <2>1. {i \in Item : val[n][i] = 0} = {}
    BY <1>1 DEF IInv, DecodeShape
  <2>2. Cardinality({i \in Item : val[n][i] = 0}) = 0
    BY <2>1, FS_EmptySet
  <2>3. Length(n) \in Nat
    BY LengthType DEF IInv
  <2> QED BY <2>2, <2>3 DEF WireLength
<1>7. CacheCoherent'
  <2> SUFFICES ASSUME NEW m \in live' \ (open' \cup raw') PROVE Coherent(m)'
    BY DEF CacheCoherent, Coherent
  <2>1. m \in Slot /\ LiveKids(m)' = LiveKids(m)
    BY <1>1 DEF LiveKids, IInv, TypeOK
  <2>2. n \notin LiveKids(m)
    <3>1. CASE m = n
      BY <3>1 DEF LiveKids, Kids
    <3>2. CASE m # n
      BY <1>1, <2>1, <3>2, ReadingFacts DEF LiveKids, CloseMessage
    <3> QED BY <3>1, <3>2
  <2>3. \A c \in LiveKids(m) : bytes'[c] = bytes[c]
    BY <1>2, <2>1, <2>2, LiveKidsFinite
  <2>4. CASE m = n
    <3>1. \A c \in LiveKids(n) : bytes[c] >= 0
      <4> TAKE c \in LiveKids(n)
      <4>1. c \in live /\ c \in Under(target) /\ c \notin open
        BY <1>1, <1>3, UnderKids DEF LiveKids
      <4> QED BY <1>1, <4>1 DEF IInv, DecodeShape
    <3>2. [k \in LiveKids(n) |-> Framed(Tag[k], bytes'[k], bytes'[k])]
            = [k \in LiveKids(n) |-> Framed(Tag[k], bytes[k], bytes[k])]
      BY <2>3, <2>4, FramesSame
    <3>3. Length(n)' = Length(n)
      BY <1>1, <2>1, <2>4, <3>2 DEF Length
    <3> QED BY <1>2, <1>6, <2>1, <2>3, <2>4, <3>1, <3>3 DEF Coherent
  <2>5. CASE m # n
    <3>1. Coherent(m)
      BY <1>1, <2>5, PhaseFacts
    <3> QED BY <1>1, <1>2, <2>1, <2>3, <2>5, <3>1, StaysCoherent
  <2> QED BY <2>4, <2>5
<1>8. DecodeShape'
  <2>1. ASSUME NEW q \in open' PROVE Path[q] \subseteq open'
    <3>1. q \in Slot /\ q # n /\ Path[q] \subseteq open
      BY <1>1 DEF IInv, DecodeShape, TypeOK
    <3>2. n \notin Path[q]
      <4> SUFFICES ASSUME n \in Path[q] PROVE FALSE
        OBVIOUS
      <4>1. PICK c \in Path[q] \ {n} : Path[c] = Path[n] \cup {c}
        BY <3>1, PathAssumption
      <4>2. c \in Kids(n) /\ c \in open
        BY <3>1, <4>1, PathAssumption DEF Kids
      <4> QED BY <1>1, <4>2
    <3> QED BY <1>1, <3>1, <3>2
  <2>2. \A m \in (live \cap Under(target)) \ open' : bytes'[m] >= 0
    BY <1>1, <1>2, <1>6 DEF IInv, DecodeShape, TypeOK
  <2> QED BY <1>1, <2>1, <2>2 DEF IInv, DecodeShape
<1> QED BY <1>4, <1>5, <1>7, <1>8 DEF IInv

LEMMA FinishDecodeInv ==
    ASSUME IInv, TypeOK', FinishDecode
    PROVE  IInv'
<1>1. /\ phase = "decode" /\ phase' = "user" /\ open = {target} /\ open' = {}
      /\ live' = live /\ val' = val /\ bytes' = bytes /\ refs' = refs
      /\ prefix' = prefix /\ body' = body
      /\ raw' = IF bytes[target] < 0 THEN raw ELSE raw \cup {target}
      /\ \A m \in Slot : body[m] = Unknown
  BY PhaseFacts DEF FinishDecode
<1>2. TreeShape' /\ RefsUncached' /\ PrefixExact' /\ EncodeShape' /\ DecodeShape'
  BY <1>1 DEF IInv, TreeShape, RefsUncached, PrefixExact, EncodeShape, DecodeShape
<1>3. CacheCoherent'
  <2> SUFFICES ASSUME NEW m \in live' \ (open' \cup raw') PROVE Coherent(m)'
    BY DEF CacheCoherent, Coherent
  <2>1. m \in Slot /\ LiveKids(m)' = LiveKids(m) /\ m \in live \ raw
    BY <1>1 DEF LiveKids, IInv, TypeOK
  <2>2. Coherent(m)
    <3>1. CASE m = target
      <4>1. bytes[m] < 0
        BY <1>1, <3>1
      <4> QED BY <2>1, <4>1, UnknownCoherent DEF IInv, TypeOK
    <3>2. CASE m # target
      BY <1>1, <2>1, <3>2, PhaseFacts
    <3> QED BY <3>1, <3>2
  <2> QED BY <1>1, <2>1, <2>2, StaysCoherent
<1> QED BY <1>2, <1>3 DEF IInv

LEMMA DecodeThrowsInv ==
    ASSUME IInv, TypeOK', "partial" \notin Careless, DecodeThrows
    PROVE  IInv'
<1>1. /\ phase = "decode" /\ phase' = "user" /\ open' = {} /\ raw' = raw
      /\ Emptied(target) /\ prefix' = prefix /\ body' = body
      /\ \A m \in Slot : body[m] = Unknown
  BY PhaseFacts DEF DecodeThrows
<1>2. target \in Slot /\ target \in refs
  BY SlotAssumption DEF IInv, TypeOK
<1>3. PrefixExact' /\ EncodeShape' /\ DecodeShape'
  BY <1>1 DEF IInv, PrefixExact, EncodeShape, DecodeShape
<1>4. CacheCoherent'
  <2> SUFFICES ASSUME NEW m \in live' \ (open' \cup raw') PROVE Coherent(m)'
    BY DEF CacheCoherent, Coherent
  <2>1. m \notin Below(target)
    BY <1>1 DEF Emptied, Destroy
  <2>2. m = target \/ m \notin open
    BY <1>1, <2>1 DEF IInv, DecodeShape, Below
  <2> QED BY <1>1, <1>2, <2>2, EmptiedShape
<1> QED BY <1>1, <1>2, <1>3, <1>4, EmptiedShape DEF IInv

LEMMA DecodeInv ==
    ASSUME Careless = {}, IInv, TypeOK', Decode
    PROVE  IInv'
<1>1. ASSUME NEW r \in Root, StartDecode(r) PROVE IInv'
  BY <1>1, StartDecodeInv
<1>2. ASSUME NEW n \in Slot, NEW i \in Item, NEW s \in ValueSize, DecodeValue(n, i, s)
      PROVE  IInv'
  BY <1>2, DecodeValueInv
<1>3. ASSUME NEW n \in Slot, NEW k \in Slot, OpenMessage(n, k) PROVE IInv'
  BY <1>3, OpenMessageInv
<1>4. ASSUME NEW n \in Slot, CloseMessage(n) PROVE IInv'
  BY <1>4, CloseMessageInv
<1>5. CASE FinishDecode
  BY <1>5, FinishDecodeInv
<1>6. CASE DecodeThrows
  BY <1>6, DecodeThrowsInv
<1> QED BY <1>1, <1>2, <1>3, <1>4, <1>5, <1>6 DEF Decode

-----------------------------------------------------------------------------
(* The invariant *)

LEMMA InitInv == Init => IInv
<1> SUFFICES ASSUME Init PROVE IInv
  OBVIOUS
<1>1. TypeOK
  BY InitType
<1>2. \A n \in Root : Path[n] = {n}
  BY PathAssumption
<1>3. TreeShape /\ RefsUncached
  BY <1>2 DEF Init, TreeShape, RefsUncached
<1>4. CacheCoherent
  <2> SUFFICES ASSUME NEW n \in live \ (open \cup raw)
               PROVE  LiveKids(n) = {} /\ bytes[n] = Length(n)
    BY DEF CacheCoherent, Coherent
  <2>1. n \in Slot /\ val[n] = NoValues /\ bytes[n] = 0
    BY SlotAssumption DEF Init
  <2>2. LiveKids(n) = {}
    BY <2>1, KidsFacts DEF Init, LiveKids
  <2> QED BY <2>1, <2>2, EmptyLength
<1>5. PrefixExact /\ EncodeShape /\ DecodeShape
  BY DEF Init, PrefixExact, EncodeShape, DecodeShape, NothingWritten
<1> QED BY <1>1, <1>3, <1>4, <1>5 DEF IInv

(* The inductive invariant holds in every reachable state of a program     *)
(* whose application keeps to the contract.                                *)
THEOREM CacheInvariant == Careless = {} => (Spec => []IInv)
<1> SUFFICES ASSUME Careless = {} PROVE Spec => []IInv
  OBVIOUS
<1>1. IInv /\ UNCHANGED vars => IInv'
  <2> SUFFICES ASSUME IInv, UNCHANGED vars PROVE IInv'
    OBVIOUS
  <2>1. TypeOK'
    BY DEF vars, IInv, TypeOK
  <2>2. TreeShape' /\ RefsUncached' /\ PrefixExact' /\ EncodeShape' /\ DecodeShape'
    BY DEF vars, IInv, TreeShape, RefsUncached, PrefixExact, EncodeShape, DecodeShape
  <2>3. CacheCoherent'
    BY DEF vars, IInv, CacheCoherent, Coherent, LiveKids, Length
  <2> QED BY <2>1, <2>2, <2>3 DEF IInv
<1>2. IInv /\ Next => TypeOK'
  BY MutateType, EncodeType, DecodeType DEF Next, IInv
<1>3. IInv /\ [Next]_vars => IInv'
  BY <1>1, <1>2, MutateInv, EncodeInv, DecodeInv DEF Next
<1> QED BY <1>3, InitInv, PTL DEF Spec

(* The length written in front of every sub-message is the number of bytes *)
(* written for it.                                                         *)
THEOREM FramesExact == Careless = {} => (Spec => []PrefixExact)
<1> SUFFICES ASSUME Careless = {} PROVE Spec => []PrefixExact
  OBVIOUS
<1>1. IInv => PrefixExact
  BY DEF IInv
<1> QED BY <1>1, CacheInvariant, PTL

(* A cached size is always the one calculateLength would find again.       *)
THEOREM CacheIsCoherent == Careless = {} => (Spec => []CacheCoherent)
<1> SUFFICES ASSUME Careless = {} PROVE Spec => []CacheCoherent
  OBVIOUS
<1>1. IInv => CacheCoherent
  BY DEF IInv
<1> QED BY <1>1, CacheInvariant, PTL

(* Nothing is cached above a message the application may write to.         *)
THEOREM NothingCachedAbove == Careless = {} => (Spec => []RefsUncached)
<1> SUFFICES ASSUME Careless = {} PROVE Spec => []RefsUncached
  OBVIOUS
<1>1. IInv => RefsUncached
  BY DEF IInv
<1> QED BY <1>1, CacheInvariant, PTL
-----------------------------------------------------------------------------
(* Any application: an encoding that finds no size cached is exact         *)

LEMMA ColdStart ==
    ASSUME ColdInv, TypeOK', NEW r \in Root, StartEncode(r)
    PROVE  ColdInv'
<1>1. /\ phase' = "encode" /\ target' = r /\ live' = live /\ val' = val /\ bytes' = bytes
      /\ prefix' = NothingWritten /\ body' = NothingWritten
      /\ cold' = \A n \in live \cap Below(r) : bytes[n] < 0
  BY DEF StartEncode, ColdInv
<1>2. ASSUME cold', NEW n \in live \cap Below(r) PROVE Coherent(n)'
  <2>1. n \in Slot /\ bytes'[n] < 0 /\ bytes'[n] \in Int
    BY <1>1, <1>2, BelowFacts, SlotAssumption DEF ColdInv, TypeOK
  <2> QED BY <2>1 DEF Coherent
<1>3. Below(target)' = Below(r)
  BY <1>1 DEF Below, Under
<1> QED BY <1>1, <1>2, <1>3 DEF ColdInv, NothingWritten

LEMMA ColdMeasure ==
    ASSUME ColdInv, TypeOK', NEW n \in Slot, Measure(n)
    PROVE  ColdInv'
<1>1. /\ phase = "encode" /\ phase' = phase /\ target' = target /\ cold' = cold
      /\ live' = live /\ val' = val /\ prefix' = prefix /\ body' = body
      /\ n \in live /\ bytes[n] < 0 /\ \A k \in LiveKids(n) : bytes[k] >= 0
      /\ bytes'[n] = Length(n) /\ \A m \in Slot \ {n} : bytes'[m] = bytes[m]
  BY DEF Measure, Encoding, codecVars, ColdInv, TypeOK
<1> SUFFICES ASSUME cold
             PROVE  /\ \A m \in live \cap Below(target) : Coherent(m)'
                    /\ \A m \in Slot : body[m] # Unknown => body[m] = bytes'[m]
  <2>1. Below(target)' = Below(target)
    BY <1>1 DEF Below, Under
  <2> QED BY <1>1, <2>1 DEF ColdInv
<1>2. \A m \in Slot : body[m] # Unknown => body[m] = bytes'[m]
  BY <1>1 DEF ColdInv, TypeOK
<1>3. ASSUME NEW m \in live \cap Below(target) PROVE Coherent(m)'
  <2>1. m \in Slot /\ Coherent(m) /\ LiveKids(m)' = LiveKids(m)
    BY <1>1 DEF LiveKids, ColdInv, TypeOK
  <2>2. \A k \in LiveKids(m) : k \in Slot /\ k # m
    BY <2>1, KidsFacts DEF LiveKids
  <2>3. CASE m = n
    <3>1. \A k \in LiveKids(n) : bytes'[k] = bytes[k]
      BY <1>1, <2>2, <2>3
    <3>2. [k \in LiveKids(n) |-> Framed(Tag[k], bytes'[k], bytes'[k])]
            = [k \in LiveKids(n) |-> Framed(Tag[k], bytes[k], bytes[k])]
      BY <3>1, FramesSame
    <3>3. Length(n)' = Length(n)
      BY <1>1, <2>1, <2>3, <3>2 DEF Length
    <3> QED BY <1>1, <2>1, <2>3, <3>1, <3>3 DEF Coherent
  <2>4. CASE m # n /\ n \in LiveKids(m)
    <3>1. bytes[m] < 0
      BY <1>1, <2>1, <2>4, ParentUnknown DEF ColdInv
    <3> QED BY <1>1, <2>1, <2>4, <3>1 DEF Coherent, ColdInv, TypeOK
  <2>5. CASE m # n /\ n \notin LiveKids(m)
    <3>1. \A k \in LiveKids(m) : bytes'[k] = bytes[k]
      BY <1>1, <2>2, <2>5
    <3> QED BY <1>1, <2>1, <2>5, <3>1, StaysCoherent
  <2> QED BY <2>3, <2>4, <2>5
<1> QED BY <1>2, <1>3

LEMMA ColdEncodeMessage ==
    ASSUME ColdInv, TypeOK', NEW n \in Slot, EncodeMessage(n)
    PROVE  ColdInv'
<1>1. /\ n \in live \cap Below(target) /\ bytes[n] >= 0
      /\ \A k \in LiveKids(n) : body[k] # Unknown
      /\ live' = live /\ val' = val /\ bytes' = bytes /\ phase' = phase /\ phase = "encode"
      /\ target' = target /\ cold' = cold
  BY DEF EncodeMessage, Encoding
<1>2. /\ prefix'[n] = bytes[n]
      /\ body'[n] = Total(val[n])
           + Total([k \in LiveKids(n) |-> Framed(Tag[k], prefix[k], body[k])])
      /\ \A m \in Slot \ {n} : prefix'[m] = prefix[m] /\ body'[m] = body[m]
  BY DEF EncodeMessage, ColdInv, TypeOK
<1> SUFFICES ASSUME cold
             PROVE  /\ \A m \in live \cap Below(target) : Coherent(m)'
                    /\ body'[n] = bytes[n]
  <2>1. Below(target)' = Below(target)
    BY <1>1 DEF Below, Under
  <2> QED BY <1>1, <1>2, <2>1 DEF ColdInv
<1>3. \A m \in live \cap Below(target) : Coherent(m)'
  BY <1>1 DEF ColdInv, Coherent, LiveKids, Length
<1>4. body'[n] = bytes[n]
  <2>1. \A k \in LiveKids(n) : prefix[k] = bytes[k] /\ body[k] = bytes[k]
    BY <1>1, LiveKidsFinite DEF ColdInv
  <2>2. [k \in LiveKids(n) |-> Framed(Tag[k], prefix[k], body[k])]
          = [k \in LiveKids(n) |-> Framed(Tag[k], bytes[k], bytes[k])]
    BY <2>1
  <2>3. body'[n] = Length(n)
    BY <1>2, <2>2 DEF Length
  <2> QED BY <1>1, <2>3 DEF ColdInv, Coherent
<1> QED BY <1>3, <1>4

(* Outside of an encoding nothing is cold, and no other step begins one.   *)
LEMMA ColdElsewhere ==
    ASSUME ColdInv, TypeOK', FinishEncode \/ EncodeThrows \/ Mutate \/ Decode
    PROVE  ColdInv'
<1>1. CASE FinishEncode \/ EncodeThrows
  BY <1>1 DEF FinishEncode, EncodeThrows, ColdInv
<1>2. CASE Mutate
  <2>1. phase = "user" /\ UNCHANGED codecVars
    BY <1>2 DEF Mutate, User, Set, GetValue, Store, Get, Iterate, GetThrows, SetMessage,
         Assign, EraseId, EraseAt, Trim, Clear
  <2> QED BY <2>1 DEF ColdInv, codecVars
<1>3. CASE Decode
  <2>1. phase # "encode" /\ phase' # "encode" /\ UNCHANGED <<prefix, body, cold>>
    BY <1>3 DEF Decode, StartDecode, DecodeValue, OpenMessage, CloseMessage, FinishDecode,
         DecodeThrows, Reading, codecVars
  <2> QED BY <2>1 DEF ColdInv
<1> QED BY <1>1, <1>2, <1>3

(* Whatever the application does, an encoding that finds no cached size    *)
(* below its root frames every sub-message exactly.                        *)
THEOREM ColdFramesExact == Spec => []ColdEncodeExact
<1>1. Init => ColdInv
  BY InitType DEF Init, ColdInv
<1>2. ColdInv /\ UNCHANGED vars => ColdInv'
  <2> SUFFICES ASSUME ColdInv, UNCHANGED vars PROVE ColdInv'
    OBVIOUS
  <2>1. TypeOK'
    BY DEF vars, ColdInv, TypeOK
  <2>2. Below(target)' = Below(target) /\ \A n : Coherent(n)' <=> Coherent(n)
    BY DEF vars, Below, Under, Coherent, LiveKids, Length
  <2> QED BY <2>1, <2>2 DEF vars, ColdInv
<1>3. ColdInv /\ [Next]_vars => ColdInv'
  <2> SUFFICES ASSUME ColdInv, Next PROVE ColdInv'
    BY <1>2
  <2>1. TypeOK'
    BY MutateType, EncodeType, DecodeType DEF Next, ColdInv
  <2> QED BY <2>1, ColdStart, ColdMeasure, ColdEncodeMessage, ColdElsewhere DEF Next, Encode
<1>4. ColdInv => ColdEncodeExact
  BY DEF ColdInv, ColdEncodeExact, PrefixExact
<1> QED BY <1>1, <1>3, <1>4, PTL DEF Spec

-----------------------------------------------------------------------------
(* The true sizes: a function on the forest, one level after the other.    *)

LEMMA NatSetInduction ==
    ASSUME NEW S \in SUBSET Nat, 0 \in S, \A n \in S : n + 1 \in S
    PROVE  S = Nat
<1> DEFINE R == OpToRel(<, Nat)
           T == Nat \ S
<1>1. ASSUME T # {} PROVE FALSE
  <2>1. IsWellFoundedOn(R, Nat)
    BY NatLessThanWellFounded
  <2> HIDE DEF R
  <2>2. PICK x \in T : \A y \in T : ~ (<<y, x>> \in R)
    BY <1>1, <2>1, WFMin
  <2>3. x \in Nat /\ x - 1 \in Nat /\ x - 1 \in T /\ x - 1 < x
    BY <2>2
  <2>4. <<x - 1, x>> \in R
    BY <2>3 DEF R, OpToRel
  <2> QED BY <2>2, <2>3, <2>4
<1> QED BY <1>1

(* The length of message n, with the values v, when the messages of L      *)
(* exist and those below have the lengths f.                               *)
LengthOver(v, L, f, n) ==
    Total(v[n]) + Total([k \in Kids(n) \cap L |-> Framed(Tag[k], f[k], f[k])])

(* TrueLength, as an operator of the variables it is about.                *)
TrueLengthOf(v, L) == CHOOSE f : f = [n \in Slot |-> LengthOver(v, L, f, n)]

LEMMA TrueLengthIs == TrueLength = TrueLengthOf(val, live)
BY DEF TrueLength, TrueLengthOf, LengthOver, LiveKids

LEMMA TrueLengthIsNext == TrueLength' = TrueLengthOf(val', live')
BY DEF TrueLength, TrueLengthOf, LengthOver, LiveKids

(* A length depends on those of the sub-messages only.                     *)
LEMMA LengthIsLocal ==
    ASSUME NEW v, NEW L, NEW f, NEW g, NEW n, \A k \in Kids(n) \cap L : f[k] = g[k]
    PROVE  LengthOver(v, L, f, n) = LengthOver(v, L, g, n)
<1>1. [k \in Kids(n) \cap L |-> Framed(Tag[k], f[k], f[k])]
        = [k \in Kids(n) \cap L |-> Framed(Tag[k], g[k], g[k])]
  OBVIOUS
<1> QED BY <1>1 DEF LengthOver

LEMMA SmallerKids ==
    ASSUME NEW n \in Slot, NEW k \in Kids(n)
    PROVE  /\ Cardinality(Under(n)) \in Nat /\ Cardinality(Under(k)) \in Nat
           /\ Cardinality(Under(k)) < Cardinality(Under(n))
<1>1. Under(n) \subseteq Slot /\ IsFiniteSet(Under(n))
  BY FS_Subset, SlotAssumption DEF Under
<1>2. k \in Slot /\ n \in Path[k] /\ k \notin Path[n]
  BY KidsFacts
<1>3. Under(k) \subseteq Under(n)
  <2> SUFFICES ASSUME NEW m \in Slot, k \in Path[m] PROVE n \in Path[m]
    BY DEF Under
  <2> QED BY <1>2, PathAssumption
<1>4. n \in Under(n) /\ n \notin Under(k)
  BY <1>2, PathAssumption DEF Under
<1> QED BY <1>1, <1>3, <1>4, FS_Subset, FS_CardinalityType

(* The messages whose tree has at most m messages.                         *)
Small(m) == {n \in Slot : Cardinality(Under(n)) <= m}

LEMMA SmallFacts ==
    ASSUME NEW m \in Nat
    PROVE  /\ Small(0) = {}
           /\ Small(m) \subseteq Small(m + 1)
           /\ \A n \in Small(m + 1) : Kids(n) \subseteq Small(m)
           /\ Small(Cardinality(Slot)) = Slot
<1>1. \A n \in Slot : /\ IsFiniteSet(Under(n)) /\ Cardinality(Under(n)) \in Nat
                      /\ Cardinality(Under(n)) <= Cardinality(Slot)
                      /\ Cardinality(Under(n)) # 0
  <2> TAKE n \in Slot
  <2>1. Under(n) \subseteq Slot /\ n \in Under(n)
    BY UnderFacts
  <2>2. IsFiniteSet(Under(n)) /\ Cardinality(Under(n)) <= Cardinality(Slot)
    BY <2>1, FS_Subset, SlotAssumption
  <2> QED BY <2>1, <2>2, FS_CardinalityType, FS_EmptySet
<1>2. Small(0) = {}
  BY <1>1 DEF Small
<1>3. Small(m) \subseteq Small(m + 1)
  BY <1>1 DEF Small
<1>4. ASSUME NEW n \in Small(m + 1), NEW k \in Kids(n) PROVE k \in Small(m)
  BY SmallerKids, KidsFacts DEF Small
<1>5. Small(Cardinality(Slot)) = Slot
  BY <1>1 DEF Small
<1> QED BY <1>2, <1>3, <1>4, <1>5

(* The recursion is well founded, so that the function exists.             *)
LEMMA LengthsExist ==
    ASSUME NEW v, NEW L
    PROVE  TrueLengthOf(v, L) = [n \in Slot |-> LengthOver(v, L, TrueLengthOf(v, L), n)]
<1> DEFINE Solves(f, m) == \A n \in Small(m) : f[n] = LengthOver(v, L, f, n)
           G == {m \in Nat : \E f : Solves(f, m)}
<1>1. 0 \in G
  BY SmallFacts
<1>2. ASSUME NEW m \in G PROVE m + 1 \in G
  <2>1. PICK f : Solves(f, m)
    BY <1>2
  <2>2. m \in Nat /\ m + 1 \in Nat
    OBVIOUS
  <2> DEFINE g == [n \in Slot |-> IF n \in Small(m) THEN f[n] ELSE LengthOver(v, L, f, n)]
  <2>3. Solves(g, m + 1)
    <3> SUFFICES ASSUME NEW n \in Small(m + 1) PROVE g[n] = LengthOver(v, L, g, n)
      OBVIOUS
    <3>1. n \in Slot /\ Kids(n) \subseteq Small(m) /\ Kids(n) \subseteq Slot
      BY <2>2, SmallFacts DEF Small, Kids
    <3>2. \A k \in Kids(n) \cap L : f[k] = g[k]
      BY <3>1
    <3> HIDE DEF g
    <3>3. LengthOver(v, L, f, n) = LengthOver(v, L, g, n)
      BY <3>2, LengthIsLocal
    <3>4. g[n] = LengthOver(v, L, f, n)
      BY <2>1, <3>1 DEF g
    <3> QED BY <3>3, <3>4
  <2> QED BY <2>2, <2>3
<1>3. G = Nat
  BY <1>1, <1>2, NatSetInduction
<1>4. Cardinality(Slot) \in G
  BY <1>3, FS_CardinalityType, SlotAssumption
<1>5. PICK f : \A n \in Slot : f[n] = LengthOver(v, L, f, n)
  BY <1>4, SmallFacts
<1> DEFINE h == [n \in Slot |-> f[n]]
<1>6. ASSUME NEW n \in Slot PROVE h[n] = LengthOver(v, L, h, n)
  <2>1. \A k \in Kids(n) \cap L : f[k] = h[k]
    BY DEF Kids
  <2> HIDE DEF h
  <2>2. LengthOver(v, L, f, n) = LengthOver(v, L, h, n)
    BY <2>1, LengthIsLocal
  <2>3. h[n] = f[n]
    BY DEF h
  <2> QED BY <1>5, <2>2, <2>3
<1>7. h = [n \in Slot |-> LengthOver(v, L, h, n)]
  <2>1. h = [n \in Slot |-> h[n]]
    OBVIOUS
  <2> HIDE DEF h
  <2> QED BY <1>6, <2>1
<1> HIDE DEF h
<1> QED BY <1>7 DEF TrueLengthOf

(* There is only one, on any part of the forest that is closed.            *)
AreLengths(b, v, L, S) ==
    /\ S \subseteq Slot
    /\ \A n \in S : Kids(n) \cap L \subseteq S /\ b[n] = LengthOver(v, L, b, n)

LEMMA LengthsUnique ==
    ASSUME NEW v, NEW L, NEW b, NEW S, AreLengths(b, v, L, S)
    PROVE  \A n \in S : b[n] = TrueLengthOf(v, L)[n]
<1> USE DEF AreLengths
<1> DEFINE t == TrueLengthOf(v, L)
           G == {m \in Nat : \A n \in S \cap Small(m) : b[n] = t[n]}
<1>0. \A n \in Slot : t[n] = LengthOver(v, L, t, n)
  BY LengthsExist
<1> HIDE DEF t
<1>1. 0 \in G
  BY SmallFacts
<1>2. ASSUME NEW m \in G PROVE m + 1 \in G
  <2>1. m \in Nat /\ m + 1 \in Nat /\ \A n \in S \cap Small(m) : b[n] = t[n]
    OBVIOUS
  <2>2. ASSUME NEW n \in S \cap Small(m + 1) PROVE b[n] = t[n]
    <3>1. Kids(n) \subseteq Small(m)
      BY <2>1, SmallFacts
    <3>2. \A k \in Kids(n) \cap L : b[k] = t[k]
      BY <2>1, <3>1
    <3>3. LengthOver(v, L, b, n) = LengthOver(v, L, t, n)
      BY <3>2, LengthIsLocal
    <3> QED BY <1>0, <3>3
  <2> QED BY <2>1, <2>2
<1>3. G = Nat
  BY <1>1, <1>2, NatSetInduction
<1>4. Cardinality(Slot) \in G
  BY <1>3, FS_CardinalityType, SlotAssumption
<1> QED BY <1>4, SmallFacts DEF t

(* Within the contract a known size is the size of the serialization, down *)
(* to the last sub-message: the encoder may use it without looking at the  *)
(* values (Message.h:99, Codec::length).                                   *)
THEOREM SizesAreTrue == Careless = {} => (Spec => []SizeIsTrue)
<1> SUFFICES ASSUME Careless = {} PROVE Spec => []SizeIsTrue
  OBVIOUS
<1>1. IInv => SizeIsTrue
  <2> SUFFICES ASSUME IInv PROVE SizeIsTrue
    OBVIOUS
  <2> DEFINE S == {n \in live \ (open \cup raw) : bytes[n] >= 0}
  <2>1. S \subseteq Slot
    BY DEF IInv, TypeOK
  <2>2. ASSUME NEW n \in S, NEW k \in Kids(n) \cap live PROVE k \in S
    <3>1. Coherent(n) /\ bytes[n] >= 0
      BY DEF IInv, CacheCoherent
    <3>2. bytes[k] >= 0
      BY <3>1 DEF Coherent, LiveKids
    <3>3. n \in Slot /\ k \in Slot /\ k \notin Root /\ n \in Path[k]
      BY <2>1, KidsFacts
    <3>4. k \notin raw
      BY <3>3 DEF IInv, TypeOK
    <3>5. k \notin open
      BY <3>3 DEF IInv, DecodeShape
    <3> QED BY <3>2, <3>4, <3>5
  <2>3. ASSUME NEW n \in S PROVE bytes[n] = LengthOver(val, live, bytes, n)
    <3>1. Coherent(n) /\ bytes[n] >= 0
      BY DEF IInv, CacheCoherent
    <3> QED BY <3>1 DEF Coherent, Length, LengthOver, LiveKids
  <2> HIDE DEF S
  <2>4. \A n \in S : bytes[n] = TrueLengthOf(val, live)[n]
    <3>1. AreLengths(bytes, val, live, S)
      BY <2>1, <2>2, <2>3 DEF AreLengths
    <3> QED BY <3>1, LengthsUnique
  <2> QED BY <2>4, TrueLengthIs DEF S, SizeIsTrue
<1> QED BY <1>1, CacheInvariant, PTL

(* trim() leaves the size of every serialization what it was, for every    *)
(* usage, which is why it need not reset the cached ones                   *)
(* (Message::trim).                                                        *)
THEOREM TrimChangesNoLength == Spec => TrimKeepsLength
<1>1. TypeOK /\ TypeOK' /\ [Next]_vars
      => [\A n \in Slot : Trim(n) => \A m \in Slot : TrueLength[m]' = TrueLength[m]]_vars
  <2> SUFFICES ASSUME TypeOK, TypeOK', NEW n \in Slot, Trim(n), NEW m \in Slot
               PROVE  TrueLength'[m] = TrueLength[m]
    OBVIOUS
  <2>1. live' = live
    BY DEF Trim
  <2>2. \A k \in Slot : Total(val'[k]) = Total(val[k])
    <3> TAKE k \in Slot
    <3>1. val[k] \in [Item -> Int] /\ val'[k] \in [Item -> Int]
      BY SizesAreInts DEF TypeOK, SizeOrNone
    <3>2. \A i \in Item : val'[k][i] = val[k][i] \/ (val[k][i] <= 0 /\ val'[k][i] <= 0)
      BY DEF Trim, Absent, TypeOK
    <3> QED BY <3>1, <3>2, TotalSame
  <2>3. PICK v, w, L : v = val /\ w = val' /\ L = live
    OBVIOUS
  <2>4. PICK b : b = TrueLengthOf(w, L)
    OBVIOUS
  <2>5. ASSUME NEW k \in Slot PROVE b[k] = LengthOver(v, L, b, k)
    <3>1. b[k] = LengthOver(w, L, b, k)
      BY <2>4, LengthsExist
    <3>2. Total(w[k]) = Total(v[k])
      BY <2>2, <2>3
    <3> QED BY <3>1, <3>2 DEF LengthOver
  <2>6. \A k \in Slot : Kids(k) \cap L \subseteq Slot
    BY DEF Kids
  <2>7. \A k \in Slot : b[k] = TrueLengthOf(v, L)[k]
    <3>1. AreLengths(b, v, L, Slot)
      BY <2>5, <2>6 DEF AreLengths
    <3> QED BY <3>1, LengthsUnique
  <2> QED BY <2>1, <2>3, <2>4, <2>7, TrueLengthIs, TrueLengthIsNext
<1> QED BY <1>1, TypeCorrect, PTL DEF Spec, TrimKeepsLength
=============================================================================
