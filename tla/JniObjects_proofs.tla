--------------------------- MODULE JniObjects_proofs ---------------------------
(***************************************************************************)
(* Proofs about JniObjects, for any number of Java objects, of addresses   *)
(* and of calls.                                                           *)
(***************************************************************************)
EXTENDS JniObjects, TLAPS

Made == IF Idle THEN {} ELSE {call.made} \ {Null}

\* Of all native functions, setMessage() and encode() have an argument.
CallShape == call # Null => (call.kind \in {"give", "encode"} <=> call.arg # Null)

IInv == TypeOK /\ OwnedOnce /\ CallShape /\ OnlyArgumentDangles

\* At the start nothing exists.
LEMMA InitIInv == Init => IInv
<1> SUFFICES ASSUME Init PROVE IInv
  OBVIOUS
<1>1. TypeOK
  BY DEF Init, TypeOK
<1>2. Existing = {}
  BY DEF Init, Existing
<1>3. OwnedOnce
  BY <1>2 DEF Init, OwnedOnce, Idle
<1>4. CallShape /\ OnlyArgumentDangles
  BY DEF Init, CallShape, OnlyArgumentDangles
<1> QED
  BY <1>1, <1>3, <1>4 DEF IInv

\* Entering a native function reads addresses of objects the program holds.
LEMMA EnterKeeps ==
  ASSUME IInv, NEW kind \in Kinds, NEW this \in Objects \cup {Null}, NEW arg \in Objects \cup {Null},
         this # Null => java[this] = "held", arg # Null => java[arg] = "held",
         kind \in {"give", "encode"} <=> arg # Null,
         Enter(kind, this, arg)
  PROVE  IInv'
<1> USE ObjectsAssumption DEF IInv, Enter, Idle
<1>1. TypeOK'
  BY DEF TypeOK, Calls, Kinds
<1>2. /\ call' # Null /\ call'.made = Null /\ call'.this = this /\ call'.arg = arg
      /\ call'.kind = kind
      /\ call'.thisAt = IF this = Null THEN Null ELSE handle[this]
      /\ call'.argAt = IF arg = Null THEN Null ELSE handle[arg]
  <2>1. call' \in Calls
    BY DEF TypeOK, Calls, Kinds
  <2> QED
    BY <2>1 DEF Calls
<1>3. Existing' = Existing
  BY DEF Existing
<1>4. OwnedOnce'
  BY <1>2, <1>3 DEF OwnedOnce
<1>5. CallShape'
  BY <1>2 DEF CallShape
<1>6. Valid(call.this, call.thisAt)' /\ Valid(call.arg, call.argAt)'
  BY <1>2, <1>3 DEF Valid, Existing, OwnedOnce
<1>7. OnlyArgumentDangles'
  BY <1>2, <1>6 DEF OnlyArgumentDangles, Valid, Existing
<1> QED
  BY <1>1, <1>4, <1>5, <1>7

\* Every Java method is one of the calls of EnterKeeps.
LEMMA JavaMethodsKeep ==
  ASSUME IInv,
         \/ CreateSerializer
         \/ \E o \in Objects : Use(o)
         \/ \E s \in Serializers : CreateMessage(s) \/ \E m \in Messages : Encode(s, m)
         \/ \E m \in Messages : CloneMessage(m) \/ \E v \in Messages : GiveMessage(m, v)
  PROVE  IInv'
<1> USE ObjectsAssumption
<1>1. CASE CreateSerializer
  BY <1>1, EnterKeeps DEF CreateSerializer, Kinds
<1>2. CASE \E o \in Objects : Use(o)
  BY <1>2, EnterKeeps DEF Use, Held, Kinds
<1>3. CASE \E s \in Serializers : CreateMessage(s)
  BY <1>3, EnterKeeps DEF CreateMessage, Held, Kinds, Objects
<1>4. CASE \E s \in Serializers, m \in Messages : Encode(s, m)
  BY <1>4, EnterKeeps DEF Encode, Held, Kinds, Objects
<1>5. CASE \E m \in Messages : CloneMessage(m)
  BY <1>5, EnterKeeps DEF CloneMessage, Held, Kinds, Objects
<1>6. CASE \E m, v \in Messages : GiveMessage(m, v)
  BY <1>6, EnterKeeps DEF GiveMessage, Held, Kinds, Objects
<1> QED
  BY <1>1, <1>2, <1>3, <1>4, <1>5, <1>6

\* A new native object is at an address that no other has, and belongs to the call.
LEMMA AllocateKeeps == ASSUME IInv, Allocate PROVE IInv'
<1> USE ObjectsAssumption DEF IInv
<1>1. PICK a \in Addresses \ live : /\ live' = live \cup {a}
                                    /\ call' = [call EXCEPT !.made = a]
  BY DEF Allocate
<1>2. call \in Calls /\ call.made = Null /\ UNCHANGED <<java, handle>> /\ call # Null
  BY DEF Allocate, TypeOK
<1>3. call' \in Calls
  BY <1>1, <1>2 DEF Calls
<1>4. TypeOK'
  BY <1>1, <1>2, <1>3 DEF TypeOK
<1>5. /\ call'.kind = call.kind /\ call'.this = call.this /\ call'.arg = call.arg
      /\ call'.thisAt = call.thisAt /\ call'.argAt = call.argAt /\ call'.made = a
      /\ call' # Null /\ a # Null
  BY <1>1, <1>2, <1>3 DEF Calls
<1>6. Existing' = Existing
  BY <1>2 DEF Existing
<1>7. OwnedOnce'
  <2>1. \A o \in Existing : handle[o] \in live
    BY DEF OwnedOnce
  <2> QED
    BY <1>1, <1>2, <1>5, <1>6, <2>1 DEF OwnedOnce, Idle
<1>8. CallShape'
  BY <1>2, <1>5 DEF CallShape
<1>9. (Valid(call.this, call.thisAt) => Valid(call.this, call.thisAt)')
       /\ (Valid(call.arg, call.argAt) => Valid(call.arg, call.argAt)')
  BY <1>1, <1>2, <1>5, <1>6 DEF Valid
<1>10. OnlyArgumentDangles'
  BY <1>2, <1>5, <1>9 DEF OnlyArgumentDangles
<1> QED
  BY <1>4, <1>7, <1>8, <1>10

\* The native object passes from the call to the new Java object.
LEMMA WrapKeeps == ASSUME IInv, NEW o \in Objects, Wrap(o) PROVE IInv'
<1> USE ObjectsAssumption DEF IInv
<1>1. /\ call \in Calls /\ call # Null /\ call.made # Null /\ call.made \in Addresses
      /\ java[o] = "none" /\ java' = [java EXCEPT ![o] = "held"]
      /\ handle' = [handle EXCEPT ![o] = call.made] /\ call' = Null /\ live' = live
  BY DEF Wrap, TypeOK, Calls
<1>2. TypeOK'
  BY <1>1 DEF TypeOK
<1>3. Existing' = Existing \cup {o} /\ o \notin Existing
  BY <1>1 DEF Existing, TypeOK
<1>4. /\ handle'[o] = call.made
      /\ \A p \in Existing : handle'[p] = handle[p] /\ handle[p] # call.made /\ handle[p] # Null
  BY <1>1, <1>3 DEF OwnedOnce, Idle, TypeOK
<1>5. live = {handle[p] : p \in Existing} \cup {call.made}
  BY <1>1 DEF OwnedOnce, Idle
<1>6. OwnedOnce'
  <2>1. live' = {handle'[p] : p \in Existing'}
    BY <1>1, <1>3, <1>4, <1>5
  <2>2. \A p, q \in Existing' : handle'[p] = handle'[q] => p = q
    BY <1>3, <1>4 DEF OwnedOnce
  <2>3. \A p \in Existing' : handle'[p] # Null
    BY <1>1, <1>3, <1>4
  <2> QED
    BY <1>1, <2>1, <2>2, <2>3 DEF OwnedOnce, Idle
<1>7. (CallShape /\ OnlyArgumentDangles)'
  BY <1>1 DEF CallShape, OnlyArgumentDangles
<1> QED
  BY <1>2, <1>6, <1>7

\* A call that returns without a new object leaves nothing behind.
LEMMA ReturnKeeps == ASSUME IInv, Return PROVE IInv'
<1> USE ObjectsAssumption DEF IInv, Return
<1>1. TypeOK'
  BY DEF TypeOK
<1>2. OwnedOnce'
  BY DEF OwnedOnce, Idle, Existing
<1>3. (CallShape /\ OnlyArgumentDangles)'
  BY DEF CallShape, OnlyArgumentDangles
<1> QED
  BY <1>1, <1>2, <1>3

\* Dropping a reference deletes nothing.
LEMMA DropKeeps == ASSUME IInv, NEW o \in Objects, Drop(o) PROVE IInv'
<1> USE ObjectsAssumption DEF IInv
<1>1. /\ java[o] = "held" /\ java' = [java EXCEPT ![o] = "dropped"]
      /\ UNCHANGED <<handle, live, call>>
  BY DEF Drop, Held
<1>2. TypeOK'
  BY <1>1 DEF TypeOK
<1>3. Existing' = Existing
  BY <1>1 DEF Existing, TypeOK
<1>4. OwnedOnce'
  BY <1>1, <1>3 DEF OwnedOnce, Idle
<1>5. CallShape'
  BY <1>1 DEF CallShape, Drop, TypeOK
<1>6. OnlyArgumentDangles'
  BY <1>1, <1>3 DEF OnlyArgumentDangles, Valid
<1> QED
  BY <1>2, <1>4, <1>5, <1>6

\* Only what no call needs is deleted, and only once.
LEMMA FinalizeKeeps == ASSUME IInv, NEW o \in Objects, Finalize(o) PROVE IInv'
<1> USE ObjectsAssumption DEF IInv
<1>1. /\ java[o] = "dropped" /\ java' = [java EXCEPT ![o] = "none"]
      /\ handle' = [handle EXCEPT ![o] = Null] /\ live' = live \ {handle[o]} /\ call' = call
      /\ o \notin Referenced
  BY DEF Finalize
<1>2. TypeOK'
  BY <1>1 DEF TypeOK
<1>3. Existing' = Existing \ {o} /\ o \in Existing
  BY <1>1 DEF Existing, TypeOK
<1>4. \A p \in Existing' : handle'[p] = handle[p] /\ handle[p] # handle[o]
  BY <1>1, <1>3 DEF OwnedOnce, TypeOK, Existing
<1>5. live = {handle[p] : p \in Existing} \cup Made /\ handle[o] \notin Made /\ Made' = Made
  BY <1>1, <1>3 DEF OwnedOnce, Made, Idle
<1>6. OwnedOnce'
  <2>1. live' = {handle'[p] : p \in Existing'} \cup Made'
    BY <1>1, <1>3, <1>4, <1>5
  <2>2. \A p \in Existing' : handle'[p] # Null /\ handle'[p] \notin Made'
    BY <1>1, <1>3, <1>4, <1>5 DEF OwnedOnce, Made, Idle
  <2>3. \A p, q \in Existing' : handle'[p] = handle'[q] => p = q
    BY <1>3, <1>4 DEF OwnedOnce
  <2> QED
    BY <1>1, <2>1, <2>2, <2>3 DEF OwnedOnce, Made
<1>7. CallShape'
  BY <1>1 DEF CallShape, TypeOK, Calls
<1>8. ASSUME NEW p, NEW at, Valid(p, at), p # o PROVE p # Null => p \in Existing' /\ handle'[p] = at /\ at \in live'
  BY <1>1, <1>3, <1>4, <1>8 DEF Valid
<1>9. ASSUME call # Null PROVE call.this # o
  BY <1>1, <1>9 DEF Referenced, Idle
<1>10. ASSUME call # Null, call.kind # "give" PROVE call.arg # o
  BY <1>1, <1>10 DEF Referenced, Idle, CallShape
<1>11. ASSUME call # Null, call.kind = "give", java'[call.arg] = "held" PROVE call.arg # o /\ java[call.arg] = "held"
  BY <1>1, <1>11 DEF CallShape, TypeOK, Calls
<1>12. OnlyArgumentDangles'
  BY <1>1, <1>8, <1>9, <1>10, <1>11 DEF OnlyArgumentDangles, Valid
<1> QED
  BY <1>2, <1>6, <1>7, <1>12

LEMMA StepIInv == IInv /\ [Next]_vars => IInv'
<1> SUFFICES ASSUME IInv, [Next]_vars PROVE IInv'
  OBVIOUS
<1>1. CASE UNCHANGED vars
  BY <1>1 DEF IInv, TypeOK, OwnedOnce, CallShape, OnlyArgumentDangles, Valid,
              Existing, Idle, vars
<1>2. CASE Allocate
  BY <1>2, AllocateKeeps
<1>3. CASE Return
  BY <1>3, ReturnKeeps
<1>4. CASE \E o \in Objects : Wrap(o) \/ Drop(o) \/ Finalize(o)
  BY <1>4, WrapKeeps, DropKeeps, FinalizeKeeps
<1>5. CASE \/ CreateSerializer
           \/ \E o \in Objects : Use(o)
           \/ \E s \in Serializers : CreateMessage(s) \/ \E m \in Messages : Encode(s, m)
           \/ \E m \in Messages : CloneMessage(m) \/ \E v \in Messages : GiveMessage(m, v)
  BY <1>5, JavaMethodsKeep
<1> QED
  BY <1>1, <1>2, <1>3, <1>4, <1>5 DEF Next

LEMMA Invariant == Spec => []IInv
BY InitIInv, StepIInv, PTL DEF Spec

\* Type correctness of the Java and native objects, whatever the program does.
THEOREM ObjectsTypeCorrect == Spec => []TypeOK
BY Invariant, PTL DEF IInv

\* Every native object belongs to one Java object or to the call that makes it: for
\* any number of objects none is leaked and none is deleted twice.
THEOREM NativeObjectsOwnedOnce == Spec => []OwnedOnce
BY Invariant, PTL DEF IInv

\* Whatever the program drops, and whenever the finalizer runs, only the argument of
\* setMessage() may be deleted under a native function.
THEOREM OnlyTheArgumentDangles == Spec => []OnlyArgumentDangles
BY Invariant, PTL DEF IInv
=============================================================================
