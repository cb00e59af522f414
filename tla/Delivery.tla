------------------------------ MODULE Delivery ------------------------------
(***************************************************************************)
(* What a pair of Serializers promises to the applications that exchange   *)
(* buffers of concatenated messages: every message encoded on one side is  *)
(* decoded on the other one, once, in order, with the dictionary it was    *)
(* written with.  Dictionaries sent as messages do not show.               *)
(***************************************************************************)
EXTENDS Naturals, Sequences

CONSTANT Message    \* what an application may send

VARIABLES
    sent,   \* the messages encoded so far
    got     \* the messages decoded so far

Init == sent = <<>> /\ got = <<>>

Send(m) == sent' = Append(sent, m) /\ UNCHANGED got

Deliver ==
    /\ Len(got) < Len(sent)
    /\ got' = Append(got, sent[Len(got) + 1])
    /\ UNCHANGED sent

Next == Deliver \/ \E m \in Message : Send(m)

Spec == Init /\ [][Next]_<<sent, got>> /\ WF_<<sent, got>>(Deliver)
=============================================================================
