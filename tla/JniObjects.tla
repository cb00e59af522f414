------------------------------ MODULE JniObjects ------------------------------
(***************************************************************************)
(* The Java objects Message and Serializer and the native objects they     *)
(* stand for.  A Java object keeps the address of its native object in     *)
(* _handle; finalize() deletes the native object, on the thread of the     *)
(* finalizer, some time after the Java object has become unreachable.      *)
(*                                                                         *)
(* A native function is given its receiver as a reference, which keeps the *)
(* Java object reachable, and addresses as numbers, which keep nothing.    *)
(* setMessage() passes its argument as an address, encode() as a           *)
(* reference.                                                              *)
(*                                                                         *)
(* One thread makes calls.  Addresses and Java objects are used again      *)
(* after they were freed.  Memory is never exhausted: native_decode()      *)
(* copies its buffer for a dump after it has allocated the message, and    *)
(* would leak it if that threw.                                            *)
(***************************************************************************)
EXTENDS Naturals, FiniteSets

CONSTANTS Serializers,  \* Java objects, when they exist
          Messages,
          Addresses,    \* where native objects may be
          Null          \* no address, no object, no call

Objects == Serializers \cup Messages

\* A call under way: the kind of native function, the receiver and the argument,
\* the addresses read from them, and the address the native function has returned.
Kinds == {"create", "make", "use", "give", "encode"}

Calls == [kind : Kinds, this : Objects \cup {Null}, arg : Objects \cup {Null},
          thisAt : Addresses \cup {Null}, argAt : Addresses \cup {Null},
          made : Addresses \cup {Null}]

ASSUME ObjectsAssumption ==
  /\ Serializers \cap Messages = {}
  /\ Null \notin Objects \cup Addresses \cup Calls

VARIABLES java,    \* Objects -> "none", "held" or "dropped" by the program
          handle,  \* Objects -> _handle
          live,    \* native objects
          call     \* the call under way, or Null

vars == <<java, handle, live, call>>

Init == /\ java = [o \in Objects |-> "none"]
        /\ handle = [o \in Objects |-> Null]
        /\ live = {} /\ call = Null

Idle == call = Null
Held(S) == {o \in S : java[o] = "held"}

(***************************************************************************)
(* Java methods: they read _handle and enter a native function.            *)
(***************************************************************************)
Enter(kind, this, arg) ==
  /\ Idle
  /\ call' = [kind |-> kind, this |-> this, arg |-> arg,
              thisAt |-> IF this = Null THEN Null ELSE handle[this],
              argAt  |-> IF arg = Null THEN Null ELSE handle[arg], made |-> Null]
  /\ UNCHANGED <<java, handle, live>>

\* new Serializer(): native_create() has no receiver yet.
CreateSerializer == Enter("create", Null, Null)

\* createEmptyMessage(), createMessageFromDico() and decode()
CreateMessage(s) == s \in Held(Serializers) /\ Enter("make", s, Null)

\* clone() and cloneMessage()
CloneMessage(m) == m \in Held(Messages) /\ Enter("make", m, Null)

\* Getters and setters, loadDico(), getId() and the like.
Use(o) == o \in Held(Objects) /\ Enter("use", o, Null)

\* setMessage(): reads v._handle and passes the number.
GiveMessage(m, v) == {m, v} \subseteq Held(Messages) /\ Enter("give", m, v)

\* encode(): passes the object.
Encode(s, m) == s \in Held(Serializers) /\ m \in Held(Messages) /\ Enter("encode", s, m)

(***************************************************************************)
(* Native functions.                                                       *)
(***************************************************************************)
\* Mutant of Allocate: an allocation that fails is not noticed.
AllocateNull == /\ call # Null /\ call.kind \in {"create", "make"} /\ call.made = Null
                /\ \E a \in (Addresses \cup {Null}) \ live :
                     live' = live \cup {a} /\ call' = [call EXCEPT !.made = a]
                /\ UNCHANGED <<java, handle>>

Allocate == /\ call # Null /\ call.kind \in {"create", "make"} /\ call.made = Null
            /\ \E a \in Addresses \ live :
                 live' = live \cup {a} /\ call' = [call EXCEPT !.made = a]
            /\ UNCHANGED <<java, handle>>

\* Mutant of Wrap: the new Java object is given the address of the receiver.
WrapReceiver(o) ==
  /\ call # Null /\ call.made # Null
  /\ java[o] = "none" /\ o \in (IF call.kind = "create" THEN Serializers ELSE Messages)
  /\ java' = [java EXCEPT ![o] = "held"]
  /\ handle' = [handle EXCEPT ![o] = IF call.kind = "create" THEN call.made ELSE call.thisAt]
  /\ call' = Null
  /\ UNCHANGED live

\* new Message(handle)
Wrap(o) ==
  /\ call # Null /\ call.made # Null
  /\ java[o] = "none" /\ o \in (IF call.kind = "create" THEN Serializers ELSE Messages)
  /\ java' = [java EXCEPT ![o] = "held"]
  /\ handle' = [handle EXCEPT ![o] = call.made]
  /\ call' = Null
  /\ UNCHANGED live

\* A native function that throws returns zero, and no Java object is made of it.
Return == /\ call # Null /\ call.made = Null
          /\ call' = Null
          /\ UNCHANGED <<java, handle, live>>

(***************************************************************************)
(* The garbage collector.                                                  *)
(***************************************************************************)
\* Mutant of Referenced: native methods are static and are given addresses only.
NotReferenced == {}

\* What the call under way keeps reachable: native methods are not static, and
\* native_encode() takes the message itself.
Referenced == IF Idle THEN {}
              ELSE {call.this} \cup (IF call.kind = "encode" THEN {call.arg} ELSE {})

\* The program drops its last reference, maybe while the object takes part in a call.
Drop(o) == /\ o \in Held(Objects)
           /\ java' = [java EXCEPT ![o] = "dropped"]
           /\ UNCHANGED <<handle, live, call>>

\* finalize(): native_destroy(_handle)
Finalize(o) == /\ java[o] = "dropped" /\ o \notin Referenced
               /\ live' = live \ {handle[o]}
               /\ java' = [java EXCEPT ![o] = "none"]
               /\ handle' = [handle EXCEPT ![o] = Null]
               /\ UNCHANGED call

Next == \/ CreateSerializer \/ Allocate \/ Return
        \/ \E o \in Objects : Use(o) \/ Wrap(o) \/ Drop(o) \/ Finalize(o)
        \/ \E s \in Serializers : CreateMessage(s) \/ \E m \in Messages : Encode(s, m)
        \/ \E m \in Messages : CloneMessage(m) \/ \E v \in Messages : GiveMessage(m, v)

Spec == Init /\ [][Next]_vars

(***************************************************************************)
(* Properties.                                                             *)
(***************************************************************************)
TypeOK == /\ java \in [Objects -> {"none", "held", "dropped"}]
          /\ handle \in [Objects -> Addresses \cup {Null}]
          /\ live \in SUBSET Addresses
          /\ call \in Calls \cup {Null}

Existing == {o \in Objects : java[o] # "none"}

\* Every native object belongs to one Java object, or to the call that is about to
\* make one of it, and every Java object has a native object: none is leaked, and
\* none is deleted twice (Message.java and Serializer.java: finalize).
OwnedOnce ==
  LET made == IF Idle THEN {} ELSE {call.made} \ {Null} IN
  /\ live = {handle[o] : o \in Existing} \cup made
  /\ \A o \in Existing : handle[o] # Null /\ handle[o] \notin made
  /\ \A o, p \in Existing : handle[o] = handle[p] => o = p

\* An address read from a Java object is that of its native object.
Valid(o, at) == o # Null => o \in Existing /\ handle[o] = at /\ at \in live

\* While a native function runs, the native objects it was given exist: the receiver
\* of a method and the argument of encode() whatever the program drops and whenever
\* the finalizer runs, the argument of setMessage() as long as the program keeps it
\* (Message.java:194 and 220 read v._handle and pass the number).
OnlyArgumentDangles ==
  call # Null =>
    /\ Valid(call.this, call.thisAt)
    /\ (call.kind = "give" => java[call.arg] = "held") => Valid(call.arg, call.argAt)
=============================================================================
