------------------------------ MODULE DicoStore ------------------------------
(***************************************************************************)
(* What a Serializer promises of its dictionary, whatever its source: an   *)
(* operation that fails leaves the dictionary alone, and one that succeeds *)
(* installs exactly what its input declares, which is free of conflicts,   *)
(* as long as the input gives every definition a type and defines the      *)
(* items it lists.  Of other inputs nothing is promised.                   *)
(*                                                                         *)
(* doc is what the operation under way has read: a version, definitions    *)
(* [id, name, type] and items [msg, id, type, required, default], as sets, *)
(* and whether that is all of the input.                                   *)
(* Meaning(doc) says in one formula what the readers compute element by    *)
(* element.                                                                *)
(***************************************************************************)
EXTENDS DicoModel

CONSTANTS NoDico,  \* the null pointer
          NoDoc    \* no operation under way

VARIABLES dico, doc

Nothing == [version |-> 0, defs |-> {}, items |-> {}, complete |-> FALSE]

DefOf(S, id) == CHOOSE e \in S : e.id = id

Sound(S) ==
  /\ \A e \in S.defs : e.type # EMPTY
  /\ \A x \in S.items : \E e \in S.defs : e.id = x.id /\ e.type = Basic(x.type)

Valid(S) ==
  /\ \A e \in S.defs : e.id \in Ids \ {0} /\ e.type \in BOOL .. MESSAGE
  /\ \A e, f \in S.defs : e.id = f.id \/ (e.name = f.name /\ e.name # NoName) => e = f
  /\ \A x \in S.items : \E e \in S.defs : e.id = x.msg /\ e.type = MESSAGE
  /\ \A x, y \in S.items : x.msg = y.msg /\ x.id = y.id => x = y

ItemsOf(S, msg) ==
  LET own == {x \in S.items : x.msg = msg}
  IN  [i \in {x.id : x \in own} |->
         LET x == CHOOSE y \in own : y.id = i
         IN  [type |-> x.type, required |-> x.required, default |-> x.default]]

Meaning(S) ==
  [version |-> S.version,
   names   |-> [n \in {NoName} \cup {e.name : e \in S.defs} |->
                  IF n = NoName THEN 0 ELSE (CHOOSE e \in S.defs : e.name = n).id],
   fields  |-> [i \in Ids |->
                  IF \E e \in S.defs : e.id = i
                  THEN [name  |-> DefOf(S.defs, i).name,
                        type  |-> DefOf(S.defs, i).type,
                        items |-> ItemsOf(S, i)]
                  ELSE NewField]]

Init == dico = NoDico /\ doc = NoDoc

Begin == /\ doc = NoDoc /\ doc' # NoDoc
         /\ doc' = [Nothing EXCEPT !.version = doc'.version]
         /\ UNCHANGED dico

Declare == /\ doc # NoDoc /\ doc' # NoDoc /\ ~doc.complete
           /\ doc.defs \subseteq doc'.defs /\ doc.items \subseteq doc'.items
           /\ UNCHANGED dico

Fail == doc # NoDoc /\ doc' = NoDoc /\ UNCHANGED dico

Install == /\ doc # NoDoc /\ doc.complete
           /\ Sound(doc) => Valid(doc) /\ dico' = Meaning(doc)
           /\ doc' = NoDoc

Next == Begin \/ Declare \/ Fail \/ Install

Spec == Init /\ [][Next]_<<dico, doc>>
=============================================================================
