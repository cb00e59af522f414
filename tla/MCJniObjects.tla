----------------------------- MODULE MCJniObjects -----------------------------
(***************************************************************************)
(* The instance of JniObjects for TLC: two Serializers and three messages, *)
(* which are all held at times, and as many addresses.                     *)
(***************************************************************************)
EXTENDS JniObjects, TLC

CONSTANTS s1, s2, m1, m2, m3, a1, a2, a3, a4, a5

TwoSerializers == {s1, s2}
ThreeMessages == {m1, m2, m3}
FiveAddresses == {a1, a2, a3, a4, a5}

Symmetry == Permutations(TwoSerializers) \cup Permutations(ThreeMessages)
            \cup Permutations(FiveAddresses)
=============================================================================
