-------------------------- MODULE MCMessageStream --------------------------
(***************************************************************************)
(* Instances of MessageStream for TLC.  Id 1 is the id of the message that *)
(* carries a dictionary; both dictionaries use it for a message too.       *)
(***************************************************************************)
EXTENDS MessageStream, TLC

CONSTANTS d1, d2, dod

TwoDicos == {d1, d2}
OneDico == {d1}

Headers == (d1 :> "h1") @@ (d2 :> "h2") @@ (dod :> "h0")

DodItems == 1 :> (13 :> "message")
Flat == (d1 :> ((1 :> (5 :> "string")) @@ (3 :> ((5 :> "string") @@ (6 :> "long")))))
        @@ (d2 :> ((1 :> (5 :> "string")) @@ (4 :> (6 :> "long"))))
        @@ (dod :> DodItems)

(* Items with the ids of messages: a sub-message, a packed sequence and a  *)
(* string, each of a message that another one may be taken for.            *)
Clash == (d1 :> ((1 :> ((3 :> "message") @@ (5 :> "string")))
                 @@ (3 :> ((1 :> "seq_long") @@ (5 :> "string")))))
         @@ (d2 :> (1 :> ((3 :> "string") @@ (5 :> "string"))))
         @@ (dod :> DodItems)

Str(i) == [kind |-> "string", tag |-> i, data |-> "s"]
Long(i) == [kind |-> "long", tag |-> i, data |-> "n"]

Mixed == {[dico |-> d1, id |-> 3, fields |-> <<Str(5), Long(6)>>],
          [dico |-> d2, id |-> 4, fields |-> <<Long(6)>>],
          [dico |-> d2, id |-> 1, fields |-> <<Str(5)>>]}
(* Two that only the dictionary tells apart, and one with the id of items. *)
Clashing == {[dico |-> d1, id |-> 1, fields |-> <<Str(5)>>],
             [dico |-> d2, id |-> 1, fields |-> <<Str(5)>>],
             [dico |-> d1, id |-> 3, fields |-> <<Str(5)>>]}
Simple == {[dico |-> d1, id |-> 3, fields |-> <<Str(5)>>]}

Sizes == [string |-> 3, long |-> 2, message |-> 6, seq_long |-> 4]

(* The hypotheses of the theorems of MessageStream_proofs: all hold where  *)
(* Items is Flat, and all but one of Clash.                                *)
ASSUME InstanceAssumption ==
    HeadersDiffer /\ NoneOfItself /\ (HeadersStandOut <=> Items # Clash)

NoUsage == {}
AllUsages == Usage
OnlySingle == {"single"}
=============================================================================
