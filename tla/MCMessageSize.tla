--------------------------- MODULE MCMessageSize ---------------------------
(***************************************************************************)
(* Instances of MessageSize for TLC: the variable r with a sub-message a   *)
(* that may hold a sub-message b, and a second variable o to copy from.    *)
(***************************************************************************)
EXTENDS MessageSize, TLC

CONSTANTS r, o, a, b, i

Deep == {r, o, a, b}
DeepPath == (r :> {r}) @@ (o :> {o}) @@ (a :> {r, a}) @@ (b :> {r, a, b})
Roots == {r, o}

Single == {r, a, b}
SinglePath == (r :> {r}) @@ (a :> {r, a}) @@ (b :> {r, a, b})

OneByteTags == [n \in Slot |-> 1]

NoUsage == {}
AllUsages == Usage
OnlyErase == {"erase"}
=============================================================================
