--------------------------- MODULE MCDicoChecksum ---------------------------
(***************************************************************************)
(* The instance of DicoChecksum for TLC: a message with two items, its     *)
(* definitions retyped, renamed and renumbered in all ways.                *)
(***************************************************************************)
EXTENDS DicoChecksum, TLC

CONSTANTS a, b, c, m, noname, zero

AllNames == {noname, a, b, c, m}
OneDefault == {zero}
\* c is no ASCII name.
Codes == (noname :> <<>>) @@ (a :> <<97>>) @@ (b :> <<98, 97>>) @@ (c :> <<99, 233>>)
         @@ (m :> <<109>>)

\* m@im with the items x@ix of type tx, repeated or not, and y@2, repeated.
Make(x, ix, tx, ty, im, seq) ==
  LET d1 == AddField(NewDico, ix, x, tx)
      d2 == AddField(d1, 2, b, ty)
      d3 == AddField(d2, im, m, MESSAGE)
      d4 == AddItem(d3, im, ix, IF seq THEN SetSequence(tx) ELSE tx, seq, zero)
  IN  AddItem(d4, im, 2, SetSequence(ty), FALSE, zero)

\* Small ids, whose contributions stay within the 16 bits, and ids whose contributions
\* leave them, or the 32 bits of an int; items that are repeated, or not.
Variants == {Make(a, ix, tx, LONG, im, FALSE) :
               ix \in {1, 14, 40}, tx \in {LONG, STRING_T}, im \in {3, 36}}
            \cup {Make(n, 1, LONG, LONG, 3, TRUE) : n \in {a, c}}
            \cup {Make(c, 12, LONG, STRING_T, 3, FALSE)}
=============================================================================
