---------------------------- MODULE MCWireDecode ----------------------------
(***************************************************************************)
(* The instance of WireDecode for TLC.  An item has the number of its tag; *)
(* the tokens are small, so that most of them can be tag, length and value *)
(* in turn.  -1 takes two tokens as a varint.                              *)
(***************************************************************************)
EXTENDS WireDecode

MinusOne == -1

\* Message 11 has an item of every type.  Message 12 has the packed ones and a message
\* 1 of such, message 13 the ones that are not, and messages 7, one after the other.
AllMessages ==
  (11 :> ((1 :> MESSAGE) @@ (2 :> SEQ_BOOL) @@ (3 :> SEQ_DOUBLE) @@ (4 :> SEQ_LONG)
          @@ (5 :> STRING_T) @@ (6 :> SEQ_STRING) @@ (7 :> SEQ_MESSAGE)
          @@ (8 :> BOOL) @@ (9 :> LONG) @@ (10 :> DOUBLE)))
  @@ (12 :> ((1 :> MESSAGE) @@ (2 :> SEQ_BOOL) @@ (3 :> SEQ_DOUBLE)))
  @@ (13 :> ((5 :> STRING_T) @@ (7 :> SEQ_MESSAGE) @@ (10 :> DOUBLE)))
  @@ (1 :> ((2 :> SEQ_BOOL) @@ (4 :> SEQ_LONG) @@ (7 :> SEQ_MESSAGE)))
  @@ (7 :> ((4 :> SEQ_LONG) @@ (6 :> SEQ_STRING) @@ (8 :> BOOL) @@ (9 :> LONG) @@ (10 :> DOUBLE)))

ItemOfTag == [t \in 1 .. 13 |-> t]
WireOfTag == [t \in 1 .. 13 |-> IF t \in {8, 9} THEN "varint"
                                ELSE IF t = 10 THEN "fixed64" ELSE Delimited]

\* Tokens of arbitrary buffers; 13 is the tag of the header of message 13.
AllTokens == (12 :> -1 .. 4) @@ (13 :> (-1 .. 3) \cup (5 .. 10) \cup {13})

\* Messages 11 that are sent, and cut off.
Small == {NoValues, 9 :> -1, (4 :> <<3, -1>>) @@ (10 :> 2)}
Subs  == {<<>>} \cup {<<m>> : m \in Small} \cup {<<m, n>> : m, n \in Small}
Inner == {(7 :> s) : s \in Subs} \cup {(2 :> <<1, 0>>) @@ (7 :> s) : s \in Subs}
Singles == (5 :> 2) @@ (8 :> 1) @@ (9 :> -1) @@ (10 :> 1)
Seqs    == (2 :> <<0, 1>>) @@ (3 :> <<1, 1>>) @@ (4 :> <<-1, 2>>) @@ (6 :> <<2, 0>>)
Whole == {Singles, Seqs, Singles @@ Seqs} \cup {1 :> m : m \in Inner}
         \cup {(7 :> s) @@ (9 :> 1) : s \in Subs}
         \cup {(1 :> m) @@ (7 :> s) @@ Seqs : m \in Inner, s \in Subs}
SentMessages == 11 :> Whole
=============================================================================
