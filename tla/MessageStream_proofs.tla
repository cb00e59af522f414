------------------------ MODULE MessageStream_proofs ------------------------
(***************************************************************************)
(* Proofs about MessageStream, for any dictionaries, messages and bounds.  *)
(*                                                                         *)
(* Buffers are described place by place: wherever a message may begin, in  *)
(* front or behind a null character, there is the frame of a message that  *)
(* was put there.                                                          *)
(***************************************************************************)
EXTENDS MessageStream, SequenceTheorems, TLAPS

DicoMessages == {DicoMessage(d) : d \in Dico}
Sendable == Message \cup DicoMessages

Tokens == {Stop} \cup {HeaderOf(m) : m \in Sendable}
          \cup UNION {{m.fields[k] : k \in DOMAIN m.fields} : m \in Sendable}

(* A message may begin behind p tokens of b.                               *)
Begins(b, p) == p \in 0 .. Len(b) - 1 /\ (p = 0 \/ b[p] = Stop)

Length(m) == Len(m.fields)

EndOf(p, m) == p + 1 + Length(m)

(* The frame of m is there.                                                *)
FrameAt(b, p, m) ==
    /\ EndOf(p, m) <= Len(b)
    /\ b[p + 1] = HeaderOf(m)
    /\ \A k \in 1 .. Length(m) : b[p + 1 + k] = m.fields[k]
    /\ EndOf(p, m) < Len(b) => b[EndOf(p, m) + 1] = Stop

(* Behind the frame and its null character, if there is one.               *)
After(b, p, m) == IF EndOf(p, m) = Len(b) THEN Len(b) ELSE EndOf(p, m) + 1

Framed(b, M) ==
    /\ b \in Seq(Tokens)
    /\ \A p \in 0 .. Len(b) - 1 : Begins(b, p) => \E m \in M : FrameAt(b, p, m)
    /\ b # <<>> => b[Len(b)] # Stop

-----------------------------------------------------------------------------
(* Messages and their frames.                                              *)

(* A message that may be sent, one that carries a dictionary included, has *)
(* items of its dictionary only.                                           *)
LEMMA SendableItems ==
  ASSUME NEW m \in Sendable
  PROVE  /\ m.dico \in AllDicos /\ m.id # 0 /\ m.id \in DOMAIN Items[m.dico] /\ ItemsOnly(m)
         /\ m \in Message => m.dico \in Dico
         /\ m.dico = DicoOfDico => m \in DicoMessages
<1>1. CASE m \in Message
  BY <1>1, StreamAssumption DEF AllDicos
<1>2. CASE m \in DicoMessages
  <2> PICK d \in Dico : m = DicoMessage(d)  BY <1>2 DEF DicoMessages
  <2> DEFINE f == [kind |-> "message", tag |-> FieldId, data |-> d]
  <2>1. m.dico = DicoOfDico /\ m.id = DicoId /\ m.fields = <<f>>  BY DEF DicoMessage
  <2>2. ItemsOnly(m)
    <3>1. DOMAIN m.fields = {1} /\ m.fields[1] = f  BY <2>1
    <3>2. m.fields \in Seq({m.fields[k] : k \in DOMAIN m.fields})
      <4>1. {m.fields[k] : k \in DOMAIN m.fields} = {f}  BY <3>1
      <4> QED  BY <2>1, <4>1
    <3> QED  BY <2>1, <3>1, <3>2, StreamAssumption DEF ItemsOnly
  <2>3. m \notin Message  BY <2>1, StreamAssumption
  <2> QED  BY <1>2, <2>1, <2>2, <2>3, StreamAssumption DEF AllDicos
<1> QED  BY <1>1, <1>2 DEF Sendable

LEMMA FieldKinds ==
  ASSUME NEW m \in Sendable
  PROVE  /\ Length(m) \in Nat /\ DOMAIN m.fields = 1 .. Length(m)
         /\ \A k \in DOMAIN m.fields : /\ m.fields[k].kind \in DOMAIN FieldSize
                                       /\ m.fields[k] \in Tokens /\ m.fields[k] # Stop
         /\ m.fields \in Seq(Tokens)
<1> DEFINE S == {m.fields[k] : k \in DOMAIN m.fields}
<1>1. m.fields \in Seq(S)  BY SendableItems DEF ItemsOnly
<1>2. Length(m) \in Nat /\ DOMAIN m.fields = 1 .. Length(m)  BY <1>1 DEF Length
<1>3. S \subseteq Tokens  BY DEF Tokens
<1>4. m.fields \in Seq(Tokens)  BY <1>1, <1>2, <1>3
<1>5. ASSUME NEW k \in DOMAIN m.fields
      PROVE  m.fields[k].kind \in DOMAIN FieldSize /\ m.fields[k] # Stop
  <2> DEFINE items == Items[m.dico][m.id]
             tag == m.fields[k].tag
  <2>1. tag \in DOMAIN items /\ m.fields[k].kind = items[tag]
    BY SendableItems DEF ItemsOnly
  <2>2. items[tag] \in DOMAIN FieldSize  BY <2>1, SendableItems, StreamAssumption
  <2>3. Stop.kind \notin DOMAIN FieldSize  BY StreamAssumption DEF Stop
  <2> QED  BY <2>1, <2>2, <2>3
<1> QED  BY <1>2, <1>3, <1>4, <1>5

LEMMA FrameShape ==
  ASSUME NEW m \in Sendable
  PROVE  /\ Frame(m) \in Seq(Tokens) /\ Len(Frame(m)) = 1 + Length(m)
         /\ Frame(m)[1] = HeaderOf(m)
         /\ \A k \in 1 .. Length(m) : Frame(m)[1 + k] = m.fields[k]
<1>1. HeaderOf(m) \in Tokens  BY DEF Tokens
<1>2. m.fields \in Seq(Tokens)  BY FieldKinds
<1> QED  BY <1>1, <1>2 DEF Frame, Length

(* encode() leaves what was in the buffer and puts one frame behind it.    *)
LEMMA ConcatenatedShape ==
  ASSUME NEW b \in Seq(Tokens), NEW m \in Sendable,
         NEW p, p = IF b = <<>> THEN 0 ELSE Len(b) + 1
  PROVE  /\ Concatenated(b, m) \in Seq(Tokens)
         /\ Len(Concatenated(b, m)) = EndOf(p, m)
         /\ \A k \in 1 .. Len(b) : Concatenated(b, m)[k] = b[k]
         /\ b # <<>> => Concatenated(b, m)[Len(b) + 1] = Stop
         /\ FrameAt(Concatenated(b, m), p, m)
<1>1. Stop \in Tokens  BY DEF Tokens
<1>2. Length(m) \in Nat  BY FieldKinds
<1>3. CASE b = <<>>
  <2>1. Concatenated(b, m) = Frame(m)  BY <1>3 DEF Concatenated
  <2> QED  BY <2>1, <1>2, <1>3, FrameShape DEF FrameAt, EndOf
<1>4. CASE b # <<>>
  <2> DEFINE c == <<Stop>> \o Frame(m)
  <2>1. Concatenated(b, m) = (b \o <<Stop>>) \o Frame(m)
    BY <1>4 DEF Concatenated
  <2>2. /\ b \o <<Stop>> \in Seq(Tokens) /\ Len(b \o <<Stop>>) = Len(b) + 1
        /\ \A k \in 1 .. Len(b) : (b \o <<Stop>>)[k] = b[k]
        /\ (b \o <<Stop>>)[Len(b) + 1] = Stop
    BY <1>1
  <2> HIDE DEF Concatenated
  <2>3. /\ Concatenated(b, m) \in Seq(Tokens)
        /\ Len(Concatenated(b, m)) = Len(b) + 1 + Len(Frame(m))
        /\ \A k \in 1 .. Len(b) + 1 : Concatenated(b, m)[k] = (b \o <<Stop>>)[k]
        /\ \A k \in 1 .. Len(Frame(m)) : Concatenated(b, m)[Len(b) + 1 + k] = Frame(m)[k]
    BY <2>1, <2>2, FrameShape
  <2>4. \A k \in 1 .. Length(m) : Concatenated(b, m)[p + 1 + k] = m.fields[k]
    <3> TAKE k \in 1 .. Length(m)
    <3>1. 1 + k \in 1 .. Len(Frame(m)) /\ p + 1 + k = Len(b) + 1 + (1 + k)
      BY <1>2, <1>4, FrameShape
    <3> QED  BY <3>1, <2>3, FrameShape
  <2>5. Concatenated(b, m)[p + 1] = HeaderOf(m)
    BY <1>2, <1>4, <2>3, FrameShape
  <2>6. Len(Concatenated(b, m)) = EndOf(p, m)
    <3>1. p = Len(b) + 1 /\ Len(b) \in Nat  BY <1>4
    <3>2. Len(Concatenated(b, m)) = Len(b) + 1 + (1 + Length(m))  BY <2>3, FrameShape
    <3> QED  BY <1>2, <3>1, <3>2 DEF EndOf
  <2>7. FrameAt(Concatenated(b, m), p, m)
    BY <1>2, <2>4, <2>5, <2>6 DEF FrameAt, EndOf
  <2>8. \A k \in 1 .. Len(b) + 1 : Concatenated(b, m)[k] = (b \o <<Stop>>)[k]
    BY <2>3
  <2>9. \A k \in 1 .. Len(b) : Concatenated(b, m)[k] = b[k]  BY <2>2, <2>8
  <2>10. Concatenated(b, m)[Len(b) + 1] = Stop  BY <2>2, <2>8
  <2> QED  BY <2>3, <2>6, <2>7, <2>9, <2>10
<1> QED  BY <1>3, <1>4

(* A frame stays when something is put behind it.                          *)
LEMMA FrameStays ==
  ASSUME NEW b \in Seq(Tokens), NEW m \in Sendable, NEW n \in Sendable, b # <<>>,
         NEW p \in 0 .. Len(b) - 1, FrameAt(b, p, n)
  PROVE  FrameAt(Concatenated(b, m), p, n)
<1> DEFINE c == Concatenated(b, m)
           q == Len(b) + 1
<1>1. Length(m) \in Nat /\ Length(n) \in Nat /\ Len(b) \in Nat  BY FieldKinds
<1>2. q = IF b = <<>> THEN 0 ELSE Len(b) + 1  OBVIOUS
<1>3. /\ c \in Seq(Tokens) /\ Len(c) = EndOf(q, m)
      /\ \A k \in 1 .. Len(b) : c[k] = b[k]
      /\ c[Len(b) + 1] = Stop
  BY <1>2, ConcatenatedShape
<1>4. Len(c) > Len(b)  BY <1>1, <1>3 DEF EndOf
<1> HIDE DEF c
<1>5. EndOf(p, n) <= Len(b) /\ EndOf(p, n) \in Nat /\ EndOf(p, n) >= 1
  BY <1>1 DEF FrameAt, EndOf
<1>6. c[p + 1] = HeaderOf(n)  BY <1>3 DEF FrameAt
<1>7. ASSUME NEW k \in 1 .. Length(n) PROVE c[p + 1 + k] = n.fields[k]
  <2>1. p + 1 + k \in 1 .. Len(b)  BY <1>1, <1>5 DEF EndOf
  <2>2. b[p + 1 + k] = n.fields[k]  BY DEF FrameAt
  <2> QED  BY <1>3, <2>1, <2>2
<1>8. EndOf(p, n) < Len(c) => c[EndOf(p, n) + 1] = Stop
  BY <1>3, <1>5 DEF FrameAt
<1>9. EndOf(p, n) <= Len(c)  BY <1>1, <1>4, <1>5
<1>10. FrameAt(c, p, n)  BY <1>6, <1>7, <1>8, <1>9 DEF FrameAt
<1> QED  BY <1>10 DEF c

LEMMA FramedStays ==
  ASSUME NEW b \in Seq(Tokens), NEW M \in SUBSET Sendable, Framed(b, M), NEW m \in M
  PROVE  Framed(Concatenated(b, m), M)
<1> DEFINE c == Concatenated(b, m)
           q == IF b = <<>> THEN 0 ELSE Len(b) + 1
<1>1. /\ c \in Seq(Tokens) /\ Len(c) = EndOf(q, m)
      /\ \A k \in 1 .. Len(b) : c[k] = b[k]
      /\ b # <<>> => c[Len(b) + 1] = Stop
      /\ FrameAt(c, q, m)
  BY ConcatenatedShape
<1>2. /\ Length(m) \in Nat /\ Len(b) \in Nat /\ Len(c) \in Nat
      /\ \A k \in 1 .. Length(m) : m.fields[k] # Stop
  BY <1>1, FieldKinds
<1>3. HeaderOf(m) # Stop  BY DEF HeaderOf, Stop
<1>4. q \in Nat /\ (b = <<>> => Len(b) = 0)  BY <1>2
<1> HIDE DEF c, q
<1>5. ASSUME NEW k \in q + 1 .. Len(c) PROVE c[k] # Stop
  <2>1. CASE k = q + 1  BY <2>1, <1>1, <1>3 DEF FrameAt
  <2>2. CASE k # q + 1
    <3>1. Len(c) = q + 1 + Length(m)  BY <1>1 DEF EndOf
    <3>2. PICK j \in 1 .. Length(m) : q + 1 + j = k
      <4>1. k - q - 1 \in 1 .. Length(m) /\ q + 1 + (k - q - 1) = k
        BY <1>2, <1>4, <2>2, <3>1
      <4> QED  BY <4>1
    <3>3. c[q + 1 + j] = m.fields[j]  BY <1>1 DEF FrameAt
    <3> QED  BY <1>2, <3>2, <3>3
  <2> QED  BY <2>1, <2>2
<1>6. ASSUME NEW p \in 0 .. Len(c) - 1, Begins(c, p) PROVE \E n \in M : FrameAt(c, p, n)
  <2>1. CASE p = q  BY <2>1, <1>1
  <2>2. CASE p > q  BY <2>2, <1>4, <1>5, <1>6 DEF Begins
  <2>3. CASE p < q
    <3>1. b # <<>> /\ q = Len(b) + 1  BY <2>3, <1>4 DEF q
    <3>2. p # Len(b)
      <4>1. c[Len(b)] = b[Len(b)] /\ Len(b) > 0  BY <1>1, <1>2, <3>1
      <4> QED  BY <4>1, <3>1, <1>6 DEF Framed, Begins
    <3>3. p \in 0 .. Len(b) - 1 /\ Begins(b, p)
      BY <1>1, <1>2, <1>6, <2>3, <3>1, <3>2 DEF Begins
    <3>4. PICK n \in M : FrameAt(b, p, n)  BY <3>3 DEF Framed
    <3>5. FrameAt(c, p, n)  BY <3>1, <3>3, <3>4, FrameStays DEF c
    <3> QED  BY <3>5
  <2> QED  BY <1>4, <2>1, <2>2, <2>3
<1>7. c # <<>> /\ c[Len(c)] # Stop
  <2>1. Len(c) = q + 1 + Length(m)  BY <1>1 DEF EndOf
  <2>2. Len(c) \in q + 1 .. Len(c) /\ Len(c) > 0  BY <1>2, <1>4, <2>1
  <2> QED  BY <1>1, <1>5, <2>2
<1> QED  BY <1>1, <1>6, <1>7 DEF Framed, c

(* More messages may be in a buffer than were before.                      *)
LEMMA FramedMore ==
  ASSUME NEW b, NEW M, NEW N, M \subseteq N, Framed(b, M) PROVE Framed(b, N)
  BY DEF Framed

-----------------------------------------------------------------------------
(* The invariant of every usage.                                           *)

(* What the sender has put in a buffer so far.                             *)
Posted == {m \in Message : \E j \in DOMAIN sent : sent[j] = Seen(m)} \cup DicoMessages

(* Either the header tells dictionaries apart, or what is decoded may be   *)
(* anything with the items of a message of the application.                *)
Astray == ~HeadersDiffer /\ var.id # 0 /\ var.dico \in Dico

(* The message m begins behind s tokens and is being read.  An id that the *)
(* variable has before is one the application asks for, at the beginning   *)
(* of the call.                                                            *)
Reads(s, m) ==
    /\ Begins(inbox, s) /\ FrameAt(inbox, s, m)
    /\ \/ /\ at = s /\ var.fields = {}
          /\ var.id # 0 => var.dico \in Dico /\ s = pos /\ ("expect" \in Careless \/ var.id = m.id)
       \/ /\ at \in s + 1 .. EndOf(s, m)
          /\ \/ var = [dico |-> m.dico, id |-> m.id,
                       fields |-> {m.fields[k] : k \in 1 .. at - s - 1}]
             \/ Astray

(* A call that has taken a header for a value.                             *)
LostInv == busy = "lost" /\ HeadersDiffer => ~HeadersKnown /\ at = pos /\ Token.kind = "header"

StreamInv ==
    /\ TypeOK
    /\ var = [dico |-> var.dico, id |-> var.id, fields |-> var.fields]
    /\ sent \in Seq({Seen(m) : m \in Message})
    /\ Framed(buf, Posted) /\ Framed(inbox, Posted)
    /\ pos < Len(inbox) => Begins(inbox, pos)
    /\ busy = "yes" => ~due /\ \E m \in Posted : \E s \in 0 .. at : Reads(s, m)
    /\ due => busy = "no" /\ \E d \in Dico : var = Seen(DicoMessage(d))
    /\ LostInv
    /\ HeadersDiffer => got \in Seq({Seen(m) : m \in Message}) /\ NeverMisread

LEMMA PostedSendable == Posted \subseteq Sendable /\ Posted' \subseteq Sendable
  BY DEF Posted, Sendable

LEMMA StreamInit == Init => StreamInv
<1> SUFFICES ASSUME Init PROVE StreamInv  OBVIOUS
<1>1. var.dico = NoDico /\ pos = 0 /\ at = 0 /\ Len(inbox) = 0  BY DEF Init, Empty
<1>2. pos \in 0 .. Len(inbox) /\ at \in 0 .. Len(inbox)  BY <1>1
<1>3. TypeOK  BY <1>1, <1>2, Zenon DEF Init, TypeOK
<1>4. \A M : Framed(<<>>, M)  BY DEF Framed
<1> QED  BY <1>1, <1>3, <1>4 DEF Init, StreamInv, NeverMisread, LostInv, Empty

-----------------------------------------------------------------------------
(* The sender.                                                             *)

(* What was sent before is still sent, and what is posted stays posted.    *)
Later == /\ sent' \in Seq({Seen(m) : m \in Message})
         /\ \A j \in DOMAIN sent : j \in DOMAIN sent' /\ sent'[j] = sent[j]

LEMMA LaterPosted == ASSUME Later PROVE Posted \subseteq Posted'
  BY DEF Later, Posted

LEMMA PutKeeps ==
  ASSUME StreamInv, NEW m \in Posted', Put(m), Later, announced' \in Dico \cup {NoDico}
  PROVE  StreamInv'
<1>1. Posted \subseteq Posted' /\ Posted' \subseteq Sendable /\ m \in Sendable
  BY LaterPosted, PostedSendable
<1>2. /\ UNCHANGED <<rdico, inbox, pos, var, busy, at, concat, auto, due, failed, got>>
      /\ handed' = FALSE
  BY DEF Put, callVars
<1>3. TypeOK'  BY <1>2 DEF StreamInv, TypeOK
<1>4. Framed(inbox', Posted')  BY <1>1, <1>2, FramedMore DEF StreamInv
<1>5. Framed(buf', Posted')
  <2>1. CASE handed
    <3>1. buf' = Concatenated(<<>>, m)  BY <2>1 DEF Put, Concatenated
    <3>2. Framed(<<>>, Posted') /\ <<>> \in Seq(Tokens)  BY DEF Framed
    <3> QED  BY <1>1, <3>1, <3>2, FramedStays
  <2>2. CASE ~handed
    <3>1. buf' = Concatenated(buf, m)  BY <2>2 DEF Put
    <3>2. Framed(buf, Posted') /\ buf \in Seq(Tokens)
      BY <1>1, FramedMore DEF StreamInv, Framed
    <3> QED  BY <1>1, <3>1, <3>2, FramedStays
  <2> QED  BY <2>1, <2>2
<1>6. \A s, n : Reads(s, n)' <=> Reads(s, n)
  BY <1>2 DEF Reads, Begins, FrameAt, After, EndOf, Astray
<1>7. (busy = "yes" => ~due /\ \E n \in Posted : \E s \in 0 .. at : Reads(s, n))'
  BY <1>1, <1>2, <1>6 DEF StreamInv
<1>8. (HeadersDiffer => got \in Seq({Seen(n) : n \in Message}) /\ NeverMisread)'
  BY <1>2 DEF StreamInv, NeverMisread, Later
<1>9. (pos < Len(inbox) => Begins(inbox, pos))'  BY <1>2 DEF StreamInv
<1>10. (due => busy = "no" /\ \E d \in Dico : var = Seen(DicoMessage(d)))'
  BY <1>2 DEF StreamInv
<1>11. (var = [dico |-> var.dico, id |-> var.id, fields |-> var.fields])'
  BY <1>2 DEF StreamInv
<1>12. (sent \in Seq({Seen(n) : n \in Message}))'  BY DEF Later
<1>13. LostInv'  BY <1>2 DEF StreamInv, LostInv, Token
<1> QED  BY <1>3, <1>4, <1>5, <1>7, <1>8, <1>9, <1>10, <1>11, <1>12, <1>13 DEF StreamInv

LEMMA SendKeeps == ASSUME StreamInv, NEW m \in Message, Send(m) PROVE StreamInv'
<1> DEFINE S == {Seen(n) : n \in Message}
<1>1. sent \in Seq(S) /\ Seen(m) \in S /\ sent' = Append(sent, Seen(m))
  BY DEF StreamInv, Send
<1>2. /\ sent' \in Seq(S) /\ Len(sent') = Len(sent) + 1
      /\ \A j \in 1 .. Len(sent) : sent'[j] = sent[j]
      /\ sent'[Len(sent) + 1] = Seen(m)
  BY <1>1, AppendProperties
<1>3. Len(sent) + 1 \in DOMAIN sent'  BY <1>1, <1>2
<1>4. Later  BY <1>1, <1>2 DEF Later
<1>5. m \in Posted'  BY <1>2, <1>3 DEF Posted
<1> QED  BY <1>4, <1>5, PutKeeps DEF Send, StreamInv, TypeOK

LEMMA SendDicoKeeps == ASSUME StreamInv, NEW d \in Dico, SendDico(d) PROVE StreamInv'
<1>1. Later  BY DEF SendDico, StreamInv, Later
<1>2. DicoMessage(d) \in Posted'  BY DEF Posted, DicoMessages
<1> QED  BY <1>1, <1>2, PutKeeps DEF SendDico

LEMMA HandoffKeeps == ASSUME StreamInv, Handoff PROVE StreamInv'
<1>1. TypeOK'
  <2>1. Len(buf) \in Nat  BY DEF StreamInv, Framed
  <2> QED  BY <2>1 DEF Handoff, StreamInv, TypeOK
<1>2. Posted' = Posted /\ inbox' = buf /\ buf' = buf  BY DEF Handoff, Posted
<1>3. (pos < Len(inbox) => Begins(inbox, pos))'
  BY <1>2 DEF Handoff, Begins, StreamInv, Framed
<1>4. (due => busy = "no" /\ \E d \in Dico : var = Seen(DicoMessage(d)))'
  BY DEF StreamInv, Handoff
<1>5. (HeadersDiffer => got \in Seq({Seen(n) : n \in Message}) /\ NeverMisread)'
  BY DEF StreamInv, NeverMisread, Handoff
<1> QED  BY <1>1, <1>2, <1>3, <1>4, <1>5 DEF StreamInv, LostInv, Handoff

-----------------------------------------------------------------------------
(* The receiver.                                                           *)

Unsent == UNCHANGED <<announced, buf, handed, sent, inbox>>

LEMMA UnsentKeeps ==
  ASSUME StreamInv, Unsent
  PROVE  /\ Posted' = Posted
         /\ Framed(buf', Posted') /\ Framed(inbox', Posted')
         /\ sent' \in Seq({Seen(m) : m \in Message})
<1>1. Posted' = Posted  BY DEF Unsent, Posted
<1> QED  BY <1>1 DEF Unsent, StreamInv

LEMMA CallKeeps == ASSUME StreamInv, NEW v, NEW c \in BOOLEAN, NEW a \in BOOLEAN, Call(v, c, a)
                   PROVE  StreamInv'
<1>1. /\ Unsent /\ UNCHANGED <<rdico, pos, got>>
      /\ busy' = "yes" /\ at' = pos /\ due' = FALSE /\ failed' = FALSE
      /\ concat' = c /\ auto' \in BOOLEAN
      /\ busy = "no" /\ pos < Len(inbox)
  BY DEF Call, senderVars, Unsent
<1>2. /\ var' = [dico |-> var'.dico, id |-> var'.id, fields |-> var'.fields]
      /\ var'.fields = {}
      /\ var'.dico \in AllDicos \cup {NoDico}
      /\ var'.id # 0 => var'.dico \in Dico
  <2>1. rdico \in Dico \cup {NoDico} /\ var.dico \in AllDicos \cup {NoDico}
    BY DEF StreamInv, TypeOK
  <2>2. \/ v.dico = NoDico /\ v.id = 0
        \/ v.dico = NoDico /\ rdico # NoDico
        \/ v.dico = var.dico /\ v.id = 0
    <3>1. Target(v)  BY DEF Call
    <3>2. ASSUME v = [var EXCEPT !.id = 0] PROVE v.dico = var.dico /\ v.id = 0
      BY <3>2 DEF StreamInv
    <3> QED  BY <3>1, <3>2 DEF Target, Empty
  <2>3. var' = IF v.dico # NoDico THEN Empty(v.dico, v.id) ELSE Empty(rdico, v.id)
    BY DEF Call
  <2> QED  BY <2>1, <2>2, <2>3 DEF Empty, AllDicos
<1>3. TypeOK'
  <2>1. pos \in 0 .. Len(inbox) /\ inbox' = inbox  BY <1>1 DEF StreamInv, TypeOK, Unsent
  <2> QED  BY <1>1, <1>2, <2>1 DEF StreamInv, TypeOK, Unsent
<1>4. PICK m \in Posted : FrameAt(inbox, pos, m)
  <2>1. Begins(inbox, pos)  BY <1>1 DEF StreamInv
  <2> QED  BY <2>1 DEF StreamInv, Framed, Begins
<1>5. Reads(pos, m)'
  <2>1. Begins(inbox, pos)  BY <1>1 DEF StreamInv
  <2>2. var'.id # 0 => "expect" \in Careless \/ var'.id = m.id
    <3>1. var'.id = v.id  BY DEF Call, Empty
    <3>2. Target(v)  BY DEF Call
    <3>3. ASSUME v = [var EXCEPT !.id = 0] PROVE v.id = 0  BY <3>3 DEF StreamInv
    <3>4. ASSUME inbox[pos + 1] = [kind |-> "header", tag |-> v.id, data |-> Header[rdico]]
          PROVE  v.id = m.id
      BY <1>4, <3>4 DEF FrameAt, HeaderOf
    <3> QED  BY <3>1, <3>2, <3>3, <3>4 DEF Target, Empty
  <2> QED  BY <1>1, <1>2, <1>4, <2>1, <2>2 DEF Reads, Unsent
<1>6. pos' \in 0 .. at'  BY <1>1 DEF StreamInv, TypeOK
<1>7. (\E n \in Posted : \E s \in 0 .. at : Reads(s, n))'
  <2>1. m \in Posted'  BY <1>1, UnsentKeeps
  <2> QED  BY <1>5, <1>6, <2>1
<1>8. (HeadersDiffer => got \in Seq({Seen(n) : n \in Message}) /\ NeverMisread)'
  BY <1>1 DEF StreamInv, NeverMisread, Unsent
<1>9. (pos < Len(inbox) => Begins(inbox, pos))'
  BY <1>1 DEF StreamInv, Unsent
<1> QED  BY <1>1, <1>2, <1>3, <1>7, <1>8, <1>9, UnsentKeeps DEF StreamInv, LostInv

(* What a call of decode() comes to read, by how far it is in the frame.   *)
LEMMA TokenRead ==
  ASSUME StreamInv, NEW m \in Posted, NEW s, Reads(s, m)
  PROVE  /\ m \in Sendable /\ Length(m) \in Nat /\ s \in Nat /\ at \in Nat
         /\ EndOf(s, m) \in s + 1 .. Len(inbox) /\ at \in s .. EndOf(s, m)
         /\ DOMAIN m.fields = 1 .. Length(m)
         /\ at = s => Token = HeaderOf(m) /\ ~Ended
         /\ at > s /\ at < EndOf(s, m) =>
              /\ at - s \in DOMAIN m.fields /\ Token = m.fields[at - s] /\ ~Ended
         /\ at = EndOf(s, m) => /\ Ended /\ NextMessage = After(inbox, s, m)
                                /\ NextMessage \in 0 .. Len(inbox)
                                /\ NextMessage < Len(inbox) => Begins(inbox, NextMessage)
<1>1. m \in Sendable /\ Length(m) \in Nat /\ DOMAIN m.fields = 1 .. Length(m)
  BY PostedSendable, FieldKinds
<1>2. Len(inbox) \in Nat /\ s \in Nat /\ s < Len(inbox)
  BY DEF Reads, Begins, StreamInv, Framed
<1>3. EndOf(s, m) = s + 1 + Length(m) /\ EndOf(s, m) <= Len(inbox)
  BY DEF Reads, FrameAt, EndOf
<1>4. EndOf(s, m) \in s + 1 .. Len(inbox) /\ at \in s .. EndOf(s, m) /\ at \in Nat
  BY <1>1, <1>2, <1>3 DEF Reads
<1>5. ASSUME at = s PROVE Token = HeaderOf(m) /\ ~Ended
  <2>1. Token = HeaderOf(m)  BY <1>5 DEF Reads, FrameAt, Token
  <2>2. Token.kind # "stop"  BY <2>1 DEF HeaderOf
  <2>3. at # Len(inbox)  BY <1>2, <1>5
  <2> QED  BY <2>1, <2>2, <2>3 DEF Ended
<1>6. ASSUME at > s, at < EndOf(s, m)
      PROVE  at - s \in DOMAIN m.fields /\ Token = m.fields[at - s] /\ ~Ended
  <2>1. PICK k \in 1 .. Length(m) : k = at - s /\ at + 1 = s + 1 + k
    <3>1. at - s \in 1 .. Length(m) /\ at + 1 = s + 1 + (at - s)
      BY <1>1, <1>2, <1>3, <1>4, <1>6
    <3> QED  BY <3>1
  <2>2. Token = m.fields[k]  BY <2>1 DEF Reads, FrameAt, Token
  <2>3. Token.kind # "stop"  BY <1>1, <2>2, FieldKinds, StreamAssumption
  <2>4. at # Len(inbox)  BY <1>2, <1>3, <1>4, <1>6
  <2> QED  BY <1>1, <2>1, <2>2, <2>3, <2>4 DEF Ended
<1>7. ASSUME at = EndOf(s, m)
      PROVE  /\ Ended /\ NextMessage = After(inbox, s, m)
             /\ NextMessage \in 0 .. Len(inbox)
             /\ NextMessage < Len(inbox) => Begins(inbox, NextMessage)
  <2>1. at < Len(inbox) => Token = Stop  BY <1>7 DEF Reads, FrameAt, Token
  <2>2. Ended  BY <1>2, <1>4, <1>7, <2>1 DEF Ended, Stop
  <2>3. NextMessage = After(inbox, s, m)  BY <1>7 DEF NextMessage, After
  <2>4. NextMessage \in 0 .. Len(inbox)  BY <1>2, <1>4 DEF NextMessage
  <2>5. NextMessage < Len(inbox) => Begins(inbox, NextMessage)
    BY <1>2, <1>4, <2>1 DEF NextMessage, Begins, Token
  <2> QED  BY <2>2, <2>3, <2>4, <2>5
<1> QED  BY <1>1, <1>2, <1>4, <1>5, <1>6, <1>7

(* A call of decode() that goes on in a frame.                             *)
LEMMA GoOn ==
  ASSUME StreamInv, busy = "yes", Unsent, UNCHANGED <<rdico, pos, busy, concat, auto, failed, due, got>>,
         NEW m \in Posted, NEW s \in 0 .. at', Reads(s, m)', at' \in 0 .. Len(inbox),
         var' = [dico |-> var'.dico, id |-> var'.id, fields |-> var'.fields],
         var'.dico \in AllDicos \cup {NoDico}
  PROVE  StreamInv'
<1>1. TypeOK'  BY DEF StreamInv, TypeOK, Unsent
<1>2. (\E n \in Posted : \E k \in 0 .. at : Reads(k, n))'
  <2>1. m \in Posted'  BY UnsentKeeps
  <2> QED  BY <2>1
<1>3. (HeadersDiffer => got \in Seq({Seen(n) : n \in Message}) /\ NeverMisread)'
  BY DEF StreamInv, NeverMisread, Unsent
<1>4. (pos < Len(inbox) => Begins(inbox, pos))'  BY DEF StreamInv, Unsent
<1> QED  BY <1>1, <1>2, <1>3, <1>4, UnsentKeeps DEF StreamInv, LostInv

(* One that throws, dies, or takes a header for a value.                   *)
LEMMA GiveUp ==
  ASSUME StreamInv, busy = "yes", Unsent, UNCHANGED <<rdico, due, got>>,
         \/ Throw \/ Die
         \/ Lose /\ (HeadersDiffer => ~HeadersKnown /\ at = pos /\ Token.kind = "header")
  PROVE  StreamInv'
<1>1. /\ UNCHANGED <<pos, var>> /\ at' \in 0 .. Len(inbox) /\ busy' \in {"no", "dead", "lost"}
      /\ concat' \in BOOLEAN /\ auto' \in BOOLEAN /\ failed' \in BOOLEAN
      /\ busy' = "no" => at' = pos /\ ~concat' /\ ~auto'
  BY DEF Throw, Die, Lose, Stay, Return, StreamInv, TypeOK
<1>2. TypeOK'  BY <1>1 DEF StreamInv, TypeOK, Unsent
<1>3. (HeadersDiffer => got \in Seq({Seen(n) : n \in Message}) /\ NeverMisread)'
  BY DEF StreamInv, NeverMisread, Unsent
<1>4. (pos < Len(inbox) => Begins(inbox, pos))'  BY <1>1 DEF StreamInv, Unsent
<1>5. ~due /\ due' = due  BY DEF StreamInv
<1>6. LostInv'  BY DEF LostInv, Throw, Die, Lose, Stay, Return, Token, Unsent
<1> QED  BY <1>1, <1>2, <1>3, <1>4, <1>5, <1>6, UnsentKeeps DEF StreamInv

(* A header that is that of the dictionary of the variable: the message    *)
(* is of this dictionary, unless headers do not tell dictionaries apart.   *)
LEMMA HeaderRead ==
  ASSUME StreamInv, NEW m \in Posted, NEW s, Reads(s, m), at = s, HeaderIs(var.dico)
  PROVE  Token.tag = m.id /\ (var.dico = m.dico \/ (~HeadersDiffer /\ var.dico \in Dico))
<1>1. Token = HeaderOf(m) /\ m \in Sendable  BY TokenRead
<1>2. Token.tag = m.id /\ Header[m.dico] = Header[var.dico] /\ var.dico # NoDico
  BY <1>1 DEF HeaderOf, HeaderIs, IsHeader
<1>3. var.dico \in AllDicos /\ m.dico \in AllDicos
  BY <1>1, <1>2, SendableItems DEF StreamInv, TypeOK
<1> QED  BY <1>2, <1>3, StreamAssumption DEF HeadersDiffer, AllDicos

(* A header of the dictionary of dictionaries is in front of a dictionary. *)
LEMMA DicoHeaderRead ==
  ASSUME StreamInv, NEW m \in Posted, NEW s, Reads(s, m), at = s, CarriesDico
  PROVE  m.dico = DicoOfDico /\ m.id = DicoId
<1>1. Token = HeaderOf(m) /\ m \in Sendable  BY TokenRead
<1>2. Header[m.dico] = Header[DicoOfDico] /\ m.id = DicoId
  BY <1>1 DEF HeaderOf, CarriesDico, HeaderIs, IsHeader
<1>3. m.dico \in AllDicos  BY <1>1, SendableItems
<1> QED  BY <1>2, <1>3, StreamAssumption DEF AllDicos

(* Where a header ends, nothing of the message was read.                   *)
LEMMA FrameBegun ==
  ASSUME StreamInv, busy = "yes", Unsent, UNCHANGED <<rdico, pos, busy, concat, auto, failed, due, got>>,
         NEW m \in Posted, NEW s \in 0 .. at, Reads(s, m), at = s, at' = at + 1,
         var' = [dico |-> var'.dico, id |-> var'.id, fields |-> {}], var'.id = m.id,
         var'.dico \in AllDicos \cup {NoDico},
         var'.dico = m.dico \/ (~HeadersDiffer /\ var'.dico \in Dico)
  PROVE  StreamInv'
<1>1. /\ m \in Sendable /\ EndOf(s, m) \in s + 1 .. Len(inbox) /\ s \in Nat /\ at \in Nat
      /\ Length(m) \in Nat
  BY TokenRead
<1>2. m.id # 0  BY <1>1, SendableItems
<1>3. at' \in s + 1 .. EndOf(s, m) /\ at' \in 0 .. Len(inbox) /\ s \in 0 .. at'  BY <1>1
<1>4. {m.fields[k] : k \in 1 .. at' - s - 1} = {}  BY <1>1
<1>5. \/ var' = [dico |-> m.dico, id |-> m.id, fields |-> {m.fields[k] : k \in 1 .. at' - s - 1}]
      \/ Astray'
  BY <1>2, <1>4 DEF Astray
<1>6. Reads(s, m)'  BY <1>3, <1>5 DEF Reads, Unsent
<1> QED  BY <1>3, <1>6, GoOn

LEMMA ReadHeaderKeeps == ASSUME StreamInv, ReadHeader PROVE StreamInv'
<1>1. /\ busy = "yes" /\ Unsent /\ UNCHANGED <<due, got>> /\ var.id = 0
  BY DEF ReadHeader, Calling, senderVars, Unsent
<1>2. PICK m \in Posted, s \in 0 .. at : Reads(s, m)  BY <1>1 DEF StreamInv
<1>3. at = s
  <2>1. m.id # 0  BY <1>2, TokenRead, SendableItems
  <2> QED  BY <1>1, <1>2, <2>1 DEF Reads, Astray
<1>4. var.fields = {}  BY <1>1, <1>2, <1>3, TokenRead DEF Reads
<1>5. CASE Throw \/ Die  BY <1>1, <1>5, GiveUp DEF Throw, Die, Stay
<1>6. CASE HeaderIs(var.dico) /\ Accept([var EXCEPT !.id = Token.tag])
  <2>1. Token.tag = m.id /\ (var.dico = m.dico \/ (~HeadersDiffer /\ var.dico \in Dico))
    BY <1>2, <1>3, <1>6, HeaderRead
  <2>2. var' = [dico |-> var.dico, id |-> m.id, fields |-> {}]
    BY <1>4, <1>6, <2>1 DEF Accept, StreamInv
  <2>3. var.dico \in AllDicos \cup {NoDico}  BY DEF StreamInv, TypeOK
  <2> QED  BY <1>1, <1>2, <1>3, <1>6, <2>1, <2>2, <2>3, FrameBegun DEF Accept
<1>7. CASE CarriesDico /\ Accept(Empty(DicoOfDico, DicoId))
  <2>1. m.dico = DicoOfDico /\ m.id = DicoId  BY <1>2, <1>3, <1>7, DicoHeaderRead
  <2>2. var' = [dico |-> DicoOfDico, id |-> DicoId, fields |-> {}]
    BY <1>7 DEF Accept, Empty
  <2> QED  BY <1>1, <1>2, <1>3, <1>7, <2>1, <2>2, FrameBegun DEF Accept, AllDicos
<1> QED  BY <1>5, <1>6, <1>7 DEF ReadHeader

LEMMA ReadOtherKeeps == ASSUME StreamInv, ReadOther PROVE StreamInv'
<1>1. /\ busy = "yes" /\ Unsent /\ UNCHANGED <<due, got>> /\ var.id # 0 /\ ~Ended
  BY DEF ReadOther, Reading, Calling, senderVars, Unsent
<1>2. PICK m \in Posted, s \in 0 .. at : Reads(s, m)  BY <1>1 DEF StreamInv
<1>3. CASE Throw \/ Die  BY <1>1, <1>3, GiveUp DEF Throw, Die, Stay
<1>4. ASSUME Token.kind = "header" PROVE at = s /\ var.fields = {}
  <2>1. m \in Sendable /\ at \in s .. EndOf(s, m) /\ s \in Nat /\ EndOf(s, m) \in Nat
    BY <1>2, TokenRead
  <2>2. at # EndOf(s, m)  BY <1>1, <1>2, TokenRead
  <2>3. at > s => Token.kind \in DOMAIN FieldSize
    BY <1>2, <2>1, <2>2, TokenRead, FieldKinds
  <2>4. at = s  BY <1>4, <2>1, <2>3, StreamAssumption
  <2> QED  BY <1>2, <2>1, <2>4 DEF Reads
<1>5. CASE Token.tag = var.id /\ HeaderIs(var.dico) /\ Accept(var)
  <2>1. at = s /\ var.fields = {}  BY <1>4, <1>5 DEF HeaderIs, IsHeader
  <2>2. Token.tag = m.id /\ (var.dico = m.dico \/ (~HeadersDiffer /\ var.dico \in Dico))
    BY <1>2, <1>5, <2>1, HeaderRead
  <2>3. var' = [dico |-> var.dico, id |-> m.id, fields |-> {}] /\ var.dico \in AllDicos \cup {NoDico}
    BY <1>5, <2>1, <2>2 DEF Accept, StreamInv, TypeOK
  <2> QED  BY <1>1, <1>2, <1>5, <2>1, <2>2, <2>3, FrameBegun DEF Accept
<1>6. CASE CarriesDico /\ Accept(Empty(DicoOfDico, DicoId))
  <2>1. at = s  BY <1>4, <1>6 DEF CarriesDico, HeaderIs, IsHeader
  <2>2. m.dico = DicoOfDico /\ m.id = DicoId  BY <1>2, <1>6, <2>1, DicoHeaderRead
  <2>3. var' = [dico |-> DicoOfDico, id |-> DicoId, fields |-> {}]
    BY <1>6 DEF Accept, Empty
  <2> QED  BY <1>1, <1>2, <1>6, <2>1, <2>2, <2>3, FrameBegun DEF Accept, AllDicos
<1> QED  BY <1>3, <1>5, <1>6 DEF ReadOther

(* An item that the message has in its own dictionary is taken as it is.   *)
LEMMA OwnItem ==
  ASSUME NEW m \in Sendable, NEW k \in DOMAIN m.fields,
         var.dico = m.dico, var.id = m.id
  PROVE  /\ m.fields[k].tag \in DOMAIN VarItems
         /\ VarItems[m.fields[k].tag] = m.fields[k].kind
<1>1. VarItems = Items[m.dico][m.id]
  <2>1. m.dico # NoDico  BY SendableItems, StreamAssumption
  <2> QED  BY <2>1, SendableItems DEF VarItems
<1>2. /\ m.fields[k].tag \in DOMAIN VarItems /\ VarItems[m.fields[k].tag] = m.fields[k].kind
      /\ m.fields[k] = [kind |-> m.fields[k].kind, tag |-> m.fields[k].tag,
                        data |-> m.fields[k].data]
  BY <1>1, SendableItems DEF ItemsOnly
<1> QED  BY <1>2

(* A header is no value that the call expects, unless it is one the        *)
(* application asks for without knowing what comes.                        *)
LEMMA HeaderTaken ==
  ASSUME StreamInv, busy = "yes", NEW m \in Posted, NEW s, Reads(s, m), at = s, var.id # 0,
         Token.tag \in DOMAIN VarItems
  PROVE  /\ Token.kind = "header" /\ at = pos /\ Token.kind # VarItems[Token.tag]
         /\ TakenAs(VarItems[Token.tag]) => ~HeadersKnown
<1> DEFINE kind == VarItems[Token.tag]
<1>1. /\ m \in Sendable /\ Token = HeaderOf(m) /\ s \in Nat
      /\ EndOf(s, m) \in s + 1 .. Len(inbox)
  BY TokenRead
<1>2. Token.kind = "header" /\ Token.tag = m.id  BY <1>1 DEF HeaderOf
<1>3. var.dico \in Dico /\ s = pos /\ ("expect" \in Careless \/ var.id = m.id)
  BY <1>1 DEF Reads
<1>4. var.dico # NoDico /\ var.id \in DOMAIN Items[var.dico] /\ VarItems = Items[var.dico][var.id]
  BY DEF VarItems
<1>5. kind \in DOMAIN FieldSize  BY <1>3, <1>4, StreamAssumption DEF AllDicos
<1>6. kind # "header" /\ kind # "stop"  BY <1>5, StreamAssumption
<1>7. ASSUME TakenAs(kind) PROVE ~HeadersKnown
  <2>1. Wire(kind) = "delimited"
    <3>1. Wire("header") = "delimited" /\ Wire("seq_string") = "delimited"  BY DEF Wire
    <3> QED  BY <1>2, <1>7, <3>1 DEF TakenAs
  <2>2. m.id = DicoId \/ m \in Message
    BY <1>1 DEF Sendable, DicoMessages, DicoMessage
  <2>3. ~HeadersStandOut
    BY <1>2, <1>3, <1>4, <2>1, <2>2 DEF HeadersStandOut
  <2>4. "expect" \in Careless \/ ~NoneOfItself
    BY <1>2, <1>3, <1>4 DEF NoneOfItself
  <2> QED  BY <2>3, <2>4 DEF HeadersKnown
<1> QED  BY <1>2, <1>3, <1>6, <1>7

LEMMA ReadItemKeeps == ASSUME StreamInv, ReadItem PROVE StreamInv'
<1> DEFINE kind == VarItems[Token.tag]
<1>1. /\ busy = "yes" /\ Unsent /\ UNCHANGED <<due, got>> /\ var.id # 0 /\ ~Ended
      /\ Token.tag \in DOMAIN VarItems
  BY DEF ReadItem, Reading, Calling, senderVars, Unsent
<1>2. PICK m \in Posted, s \in 0 .. at : Reads(s, m)  BY <1>1 DEF StreamInv
<1>3. /\ m \in Sendable /\ Length(m) \in Nat /\ s \in Nat /\ at \in Nat
      /\ EndOf(s, m) \in s + 1 .. Len(inbox) /\ at \in s .. EndOf(s, m) /\ at # EndOf(s, m)
  BY <1>1, <1>2, TokenRead
<1>4. ASSUME at # s, ~Astray
      PROVE  /\ var = [dico |-> m.dico, id |-> m.id, fields |-> {m.fields[k] : k \in 1 .. at - s - 1}]
             /\ at - s \in DOMAIN m.fields /\ Token = m.fields[at - s] /\ Token.kind = kind
  <2>1. var = [dico |-> m.dico, id |-> m.id, fields |-> {m.fields[k] : k \in 1 .. at - s - 1}]
    BY <1>2, <1>4 DEF Reads
  <2>2. at - s \in DOMAIN m.fields /\ Token = m.fields[at - s]
    BY <1>2, <1>3, <1>4, TokenRead
  <2> QED  BY <1>3, <2>1, <2>2, OwnItem
<1>5. CASE Throw
  <2>1. UNCHANGED rdico  BY <1>5 DEF Throw
  <2> QED  BY <1>1, <1>5, <2>1, GiveUp
<1>6. CASE Token.kind # kind /\ TakenAs(kind) /\ Lose
  <2>1. HeadersDiffer => ~HeadersKnown /\ at = pos /\ Token.kind = "header"
    <3>1. at # s => Astray  BY <1>4, <1>6
    <3>2. HeadersDiffer => at = s  BY <3>1 DEF Astray
    <3> QED  BY <1>1, <1>2, <1>6, <3>2, HeaderTaken
  <2>2. UNCHANGED rdico  BY <1>6 DEF Lose, Stay
  <2> QED  BY <1>1, <1>6, <2>1, <2>2, GiveUp
<1>7. CASE Token.kind = kind /\ Accept([var EXCEPT !.fields = @ \cup {Token}])
  <2>1. at # s  BY <1>1, <1>2, <1>7, HeaderTaken
  <2>2. /\ at' = at + 1 /\ UNCHANGED <<rdico, pos, busy, concat, auto, failed, due, got>>
        /\ var' = [dico |-> var.dico, id |-> var.id, fields |-> var.fields \cup {Token}]
    BY <1>1, <1>7 DEF Accept, StreamInv
  <2>3. at' \in s + 1 .. EndOf(s, m) /\ at' \in 0 .. Len(inbox) /\ s \in 0 .. at'
    BY <1>3, <2>2
  <2>4. \/ Astray'
        \/ var' = [dico |-> m.dico, id |-> m.id, fields |-> {m.fields[k] : k \in 1 .. at' - s - 1}]
    <3>1. CASE Astray
      BY <2>2, <3>1 DEF Astray
    <3>2. CASE ~Astray
      <4>1. /\ var = [dico |-> m.dico, id |-> m.id, fields |-> {m.fields[k] : k \in 1 .. at - s - 1}]
            /\ Token = m.fields[at - s]
        BY <1>4, <2>1, <3>2
      <4>2. 1 .. at' - s - 1 = (1 .. at - s - 1) \cup {at - s}
        BY <1>3, <2>1, <2>2
      <4>3. {m.fields[k] : k \in 1 .. at' - s - 1}
              = {m.fields[k] : k \in 1 .. at - s - 1} \cup {Token}
        BY <4>1, <4>2
      <4> QED  BY <2>2, <4>1, <4>3
    <3> QED  BY <3>1, <3>2
  <2>5. Reads(s, m)'  BY <1>1, <1>2, <2>3, <2>4 DEF Reads, Unsent
  <2>6. var'.dico \in AllDicos \cup {NoDico}  BY <2>2 DEF StreamInv, TypeOK
  <2>7. var' = [dico |-> var'.dico, id |-> var'.id, fields |-> var'.fields]  BY <2>2
  <2> QED  BY <1>1, <1>2, <2>2, <2>3, <2>5, <2>6, <2>7, GoOn
<1> QED  BY <1>5, <1>6, <1>7 DEF ReadItem

(* At the end of a frame all of the message was read.                      *)
LEMMA FrameEnded ==
  ASSUME StreamInv, busy = "yes", NEW m \in Posted, NEW s \in 0 .. at, Reads(s, m), Ended
  PROVE  /\ at = EndOf(s, m)
         /\ NextMessage = After(inbox, s, m) /\ NextMessage \in 0 .. Len(inbox)
         /\ NextMessage < Len(inbox) => Begins(inbox, NextMessage)
         /\ var = Seen(m) \/ Astray
<1>1. at = EndOf(s, m) /\ s \in Nat /\ Length(m) \in Nat /\ EndOf(s, m) \in s + 1 .. Len(inbox)
      /\ DOMAIN m.fields = 1 .. Length(m)
  BY TokenRead
<1>2. EndOf(s, m) - s - 1 = Length(m) /\ at # s  BY <1>1 DEF EndOf
<1>3. var = Seen(m) \/ Astray  BY <1>1, <1>2 DEF Reads, Seen
<1> QED  BY <1>1, <1>3, TokenRead

(* A message of the dictionary of dictionaries that was read carries a     *)
(* dictionary.                                                             *)
LEMMA CarriedIs ==
  ASSUME NEW d \in Dico, var = Seen(DicoMessage(d)) PROVE Carried = d
<1> DEFINE f == [kind |-> "message", tag |-> FieldId, data |-> d]
<1>1. DicoMessage(d).fields = <<f>>  BY DEF DicoMessage
<1>2. var.fields = {f}  BY <1>1 DEF Seen
<1> QED  BY <1>2 DEF Carried

LEMMA DicoRead ==
  ASSUME StreamInv, NEW m \in Posted, var = Seen(m) \/ Astray, IsDico
  PROVE  \E d \in Dico : m = DicoMessage(d) /\ var = Seen(DicoMessage(d)) /\ Carried = d
<1>1. ~Astray  BY StreamAssumption DEF IsDico, Astray
<1>2. m.dico = DicoOfDico  BY <1>1 DEF IsDico, Seen
<1>3. m \in DicoMessages  BY <1>2, PostedSendable, SendableItems
<1> QED  BY <1>1, <1>3, CarriedIs DEF DicoMessages

LEMMA FinishMessageKeeps == ASSUME StreamInv, FinishMessage PROVE StreamInv'
<1>1. /\ busy = "yes" /\ Ended /\ Unsent /\ UNCHANGED <<rdico, var, failed>>
      /\ busy' = "no" /\ pos' = NextMessage /\ at' = NextMessage
      /\ concat' = FALSE /\ auto' = FALSE
      /\ due' = IsDico /\ got' = IF IsDico THEN got ELSE Append(got, var)
  BY DEF FinishMessage, Finished, Return, senderVars, Unsent
<1>2. PICK m \in Posted, s \in 0 .. at : Reads(s, m)  BY <1>1 DEF StreamInv
<1>3. /\ NextMessage \in 0 .. Len(inbox)
      /\ NextMessage < Len(inbox) => Begins(inbox, NextMessage)
      /\ var = Seen(m) \/ Astray
  BY <1>1, <1>2, FrameEnded
<1>4. TypeOK'  BY <1>1, <1>3 DEF StreamInv, TypeOK, Unsent, IsDico
<1>5. (due => busy = "no" /\ \E d \in Dico : var = Seen(DicoMessage(d)))'
  BY <1>1, <1>3, DicoRead
<1>6. (HeadersDiffer => got \in Seq({Seen(n) : n \in Message}) /\ NeverMisread)'
  <2> SUFFICES ASSUME HeadersDiffer PROVE got' \in Seq({Seen(n) : n \in Message}) /\ NeverMisread'
    OBVIOUS
  <2> DEFINE S == {Seen(n) : n \in Message}
  <2>1. got \in Seq(S) /\ NeverMisread /\ sent' = sent  BY <1>1 DEF StreamInv, Unsent
  <2>2. CASE IsDico  BY <1>1, <2>1, <2>2 DEF NeverMisread
  <2>3. CASE ~IsDico
    <3>1. var = Seen(m)  BY <1>3 DEF Astray
    <3>2. m \notin DicoMessages
      BY <2>3, <3>1 DEF DicoMessages, DicoMessage, Seen, IsDico
    <3>3. m \in Message /\ \E j \in DOMAIN sent : sent[j] = var
      BY <3>1, <3>2 DEF Posted
    <3>4. /\ got' = Append(got, var) /\ var \in S
          /\ got' \in Seq(S) /\ Len(got') = Len(got) + 1
          /\ \A k \in 1 .. Len(got) : got'[k] = got[k]
          /\ got'[Len(got) + 1] = var
      BY <1>1, <2>1, <2>3, <3>1, <3>3, AppendProperties
    <3>5. ASSUME NEW k \in DOMAIN got' PROVE \E j \in DOMAIN sent : got'[k] = sent[j]
      <4>1. k \in 1 .. Len(got) \/ k = Len(got) + 1  BY <2>1, <3>4
      <4>2. CASE k \in 1 .. Len(got)  BY <2>1, <3>4, <4>2 DEF NeverMisread
      <4>3. CASE k = Len(got) + 1  BY <3>3, <3>4, <4>3
      <4> QED  BY <4>1, <4>2, <4>3
    <3> QED  BY <2>1, <3>4, <3>5 DEF NeverMisread
  <2> QED  BY <2>2, <2>3
<1>7. (pos < Len(inbox) => Begins(inbox, pos))'  BY <1>1, <1>3 DEF Unsent
<1> QED  BY <1>1, <1>4, <1>5, <1>6, <1>7, UnsentKeeps DEF StreamInv, LostInv

LEMMA FinishDicoKeeps == ASSUME StreamInv, FinishDico PROVE StreamInv'
<1>1. /\ busy = "yes" /\ Ended /\ Unsent /\ UNCHANGED <<due, failed, got>> /\ IsDico
      /\ rdico' = Carried /\ var' = Empty(Carried, 0)
      /\ at' = NextMessage
      /\ \/ /\ NextMessage = Len(inbox)
            /\ busy' = "no" /\ pos' = NextMessage /\ concat' = FALSE /\ auto' = FALSE
         \/ NextMessage # Len(inbox) /\ UNCHANGED <<busy, pos, concat, auto>>
  BY DEF FinishDico, Finished, Return, senderVars, Unsent
<1>2. PICK m \in Posted, s \in 0 .. at : Reads(s, m)  BY <1>1 DEF StreamInv
<1>3. /\ NextMessage \in 0 .. Len(inbox)
      /\ NextMessage < Len(inbox) => Begins(inbox, NextMessage)
      /\ var = Seen(m) \/ Astray
  BY <1>1, <1>2, FrameEnded
<1>4. Carried \in Dico  BY <1>1, <1>3, DicoRead
<1>5. var' = [dico |-> Carried, id |-> 0, fields |-> {}]  BY <1>1 DEF Empty
<1>6. ~due  BY <1>1 DEF StreamInv
<1>7. TypeOK'
  <2>1. pos' \in 0 .. Len(inbox) /\ at' \in 0 .. Len(inbox)
    BY <1>1, <1>3 DEF StreamInv, TypeOK
  <2>2. rdico' \in Dico \cup {NoDico} /\ var'.dico \in AllDicos \cup {NoDico}
    BY <1>1, <1>4, <1>5 DEF AllDicos
  <2>3. /\ busy' \in {"no", "yes"} /\ concat' \in BOOLEAN /\ auto' \in BOOLEAN
        /\ busy' = "no" => at' = pos' /\ ~concat' /\ ~auto'
    BY <1>1 DEF StreamInv, TypeOK
  <2> QED  BY <1>1, <2>1, <2>2, <2>3 DEF StreamInv, TypeOK, Unsent
<1>8. (HeadersDiffer => got \in Seq({Seen(n) : n \in Message}) /\ NeverMisread)'
  BY <1>1 DEF StreamInv, NeverMisread, Unsent
<1>9. (pos < Len(inbox) => Begins(inbox, pos))'
  <2>1. Len(inbox) \in Nat  BY DEF StreamInv, Framed
  <2> QED  BY <1>1, <1>3, <2>1 DEF StreamInv, Unsent
<1>10. ASSUME busy' = "yes" PROVE (\E n \in Posted : \E k \in 0 .. at : Reads(k, n))'
  <2>1. Begins(inbox, NextMessage)  BY <1>1, <1>3, <1>10 DEF StreamInv, Framed
  <2>2. PICK n \in Posted : FrameAt(inbox, NextMessage, n)
    BY <2>1 DEF StreamInv, Framed, Begins
  <2>3. PICK k \in 0 .. at' : k = NextMessage  BY <1>1, <1>3
  <2>4. Reads(k, n)'
    BY <1>1, <1>5, <2>1, <2>2, <2>3 DEF Reads, Unsent
  <2>5. n \in Posted'  BY <1>1, UnsentKeeps
  <2> QED  BY <2>4, <2>5
<1> QED  BY <1>1, <1>5, <1>6, <1>7, <1>8, <1>9, <1>10, UnsentKeeps DEF StreamInv, LostInv

LEMMA ApplyDicoKeeps == ASSUME StreamInv, ApplyDico PROVE StreamInv'
<1>1. /\ Unsent /\ UNCHANGED <<pos, var, busy, at, concat, auto, failed, got>>
      /\ busy = "no" /\ due /\ rdico' = Carried /\ due' = FALSE
  BY DEF ApplyDico, senderVars, callVars, Unsent
<1>2. Carried \in Dico  BY <1>1, CarriedIs DEF StreamInv
<1>3. TypeOK'
  <2>1. rdico' \in Dico \cup {NoDico} /\ due' \in BOOLEAN  BY <1>1, <1>2
  <2>2. UNCHANGED <<announced, handed, inbox, pos, var, busy, at, concat, auto, failed>>
    BY <1>1 DEF Unsent
  <2>3. TypeOK  BY DEF StreamInv
  <2> QED  BY <2>1, <2>2, <2>3 DEF TypeOK
<1>4. (HeadersDiffer => got \in Seq({Seen(n) : n \in Message}) /\ NeverMisread)'
  BY <1>1 DEF StreamInv, NeverMisread, Unsent
<1>5. (pos < Len(inbox) => Begins(inbox, pos))'  BY <1>1 DEF StreamInv, Unsent
<1> QED  BY <1>1, <1>3, <1>4, <1>5, UnsentKeeps DEF StreamInv, LostInv

LEMMA AbandonKeeps == ASSUME StreamInv, Abandon PROVE StreamInv'
<1>1. /\ Unsent /\ UNCHANGED <<rdico, var, busy, concat, auto, due, got>>
      /\ busy = "no" /\ pos' = Len(inbox) /\ at' = Len(inbox) /\ failed' = FALSE
  BY DEF Abandon, senderVars, Unsent
<1>2. Len(inbox) \in Nat  BY DEF StreamInv, Framed
<1>3. TypeOK'
  <2>1. pos' \in 0 .. Len(inbox) /\ at' \in 0 .. Len(inbox) /\ at' = pos'  BY <1>1, <1>2
  <2>2. failed' \in BOOLEAN  BY <1>1
  <2>3. UNCHANGED <<announced, handed, rdico, inbox, var, busy, concat, auto, due>>
    BY <1>1 DEF Unsent
  <2> QED  BY <2>1, <2>2, <2>3 DEF StreamInv, TypeOK
<1>4. (HeadersDiffer => got \in Seq({Seen(n) : n \in Message}) /\ NeverMisread)'
  BY <1>1 DEF StreamInv, NeverMisread, Unsent
<1>5. (pos < Len(inbox) => Begins(inbox, pos))'  BY <1>1, <1>2 DEF Unsent
<1> QED  BY <1>1, <1>3, <1>4, <1>5, UnsentKeeps DEF StreamInv, LostInv

LEMMA FinishThrowsKeeps == ASSUME StreamInv, FinishThrows PROVE StreamInv'
<1>1. /\ busy = "yes" /\ Unsent /\ UNCHANGED <<rdico, due, got>> /\ Throw
  BY DEF FinishThrows, Finished, senderVars, Unsent, Throw
<1> QED  BY <1>1, GiveUp

LEMMA StreamStep == StreamInv /\ [Next]_vars => StreamInv'
<1> SUFFICES ASSUME StreamInv, [Next]_vars PROVE StreamInv'  OBVIOUS
<1>1. CASE UNCHANGED vars
  <2>1. UNCHANGED <<announced, buf, handed, rdico, inbox, pos, var, busy, at, concat, auto,
                    due, failed, sent, got>>
    BY <1>1 DEF vars
  <2>2. TypeOK' /\ Posted' = Posted  BY <2>1 DEF StreamInv, TypeOK, Posted
  <2>3. \A s, n : Reads(s, n)' <=> Reads(s, n)  BY <2>1 DEF Reads, Astray
  <2>4. (busy = "yes" => ~due /\ \E n \in Posted : \E k \in 0 .. at : Reads(k, n))'
    BY <2>1, <2>2, <2>3 DEF StreamInv
  <2>5. (HeadersDiffer => got \in Seq({Seen(n) : n \in Message}) /\ NeverMisread)'
    BY <2>1 DEF StreamInv, NeverMisread
  <2>6. LostInv'  BY <2>1 DEF StreamInv, LostInv, Token
  <2> QED  BY <2>1, <2>2, <2>4, <2>5, <2>6 DEF StreamInv
<1>2. CASE Sender  BY <1>2, SendKeeps, SendDicoKeeps, HandoffKeeps DEF Sender
<1>3. CASE Start  BY <1>3, CallKeeps DEF Start
<1>4. CASE Decode
  BY <1>4, ReadHeaderKeeps, ReadItemKeeps, ReadOtherKeeps, FinishThrowsKeeps,
     FinishMessageKeeps, FinishDicoKeeps DEF Decode
<1>5. CASE ApplyDico \/ Abandon  BY <1>5, ApplyDicoKeeps, AbandonKeeps
<1> QED  BY <1>1, <1>2, <1>3, <1>4, <1>5 DEF Next

-----------------------------------------------------------------------------
(* The theorems about every usage.                                         *)

(* Positions stay inside of the buffer and a dictionary that is applied is *)
(* one of the application, whatever the two applications do with their     *)
(* Serializers (Serializer::decode, msgToDico).                            *)
THEOREM StreamTypeCorrect == Spec => []TypeOK
<1>1. StreamInv => TypeOK  BY DEF StreamInv
<1> QED  BY <1>1, StreamInit, StreamStep, PTL DEF Spec

(* Wherever a call of decode() ends, by returning, by throwing or between  *)
(* two messages, the next one begins at a header, and no call takes a      *)
(* header for a value: whatever dictionaries the two sides use, as long as *)
(* headers differ and, if the application asks for messages that may not   *)
(* be next, stand out (Codec::decode, Serializer::decode).                 *)
THEOREM AlwaysAtBoundary ==
  ASSUME HeadersDiffer, HeadersKnown PROVE Spec => [](AtBoundary /\ busy # "lost")
<1>1. StreamInv => AtBoundary
  <2> SUFFICES ASSUME StreamInv, pos < Len(inbox)
               PROVE  inbox[pos + 1].kind = "header" /\ (pos > 0 => inbox[pos].kind = "stop")
    BY DEF AtBoundary
  <2>1. Begins(inbox, pos)  BY DEF StreamInv
  <2>2. PICK m \in Posted : FrameAt(inbox, pos, m)  BY <2>1 DEF StreamInv, Framed, Begins
  <2>3. inbox[pos + 1].kind = "header"  BY <2>2 DEF FrameAt, HeaderOf
  <2>4. pos > 0 => inbox[pos] = Stop  BY <2>1 DEF Begins
  <2> QED  BY <2>3, <2>4 DEF Stop
<1>2. StreamInv => busy # "lost"  BY DEF StreamInv, LostInv
<1> QED  BY <1>1, <1>2, StreamInit, StreamStep, PTL DEF Spec

(* Every message that decode() returns was encoded, whatever dictionaries  *)
(* the two sides use and whatever message the receiver expects, under the  *)
(* same conditions (Codec::decode, Header::init).                          *)
THEOREM NothingMisread ==
  ASSUME HeadersDiffer, HeadersKnown PROVE Spec => [](NeverMisread /\ busy # "lost")
<1>1. StreamInv => NeverMisread /\ busy # "lost"  BY DEF StreamInv, LostInv
<1> QED  BY <1>1, StreamInit, StreamStep, PTL DEF Spec

(* Where headers differ but do not stand out: a header is taken for a      *)
(* value only at the beginning of a call, never behind a dictionary it has *)
(* applied and never behind a value it has read (Serializer.h:168-180).    *)
THEOREM OnlyLostAtFirst ==
  ASSUME HeadersDiffer PROVE Spec => []LostAtFirst
<1>1. StreamInv => LostAtFirst  BY DEF StreamInv, LostInv, LostAtFirst
<1> QED  BY <1>1, StreamInit, StreamStep, PTL DEF Spec

-----------------------------------------------------------------------------
(* The contract: what the receiver still has to read tells it what is next.*)

(* N and R mark the places of the buffer b: N[p] is the number of messages *)
(* in front of it, counted from the beginning, and R[p] the dictionary     *)
(* that is in use there.  The frame of m is where these say, S is what was *)
(* sent.                                                                   *)
LinkAt(b, N, R, S, p, m) ==
    /\ FrameAt(b, p, m)
    /\ \/ /\ m \in Message /\ m.dico = R[p]
          /\ N[p] < Len(S) /\ S[N[p] + 1] = Seen(m)
          /\ N[After(b, p, m)] = N[p] + 1 /\ R[After(b, p, m)] = R[p]
       \/ \E d \in Dico : /\ m = DicoMessage(d)
                          /\ N[After(b, p, m)] = N[p] /\ R[After(b, p, m)] = d

Chain(b, N, R, S) ==
    /\ N \in [0 .. Len(b) -> Nat] /\ R \in [0 .. Len(b) -> Dico \cup {NoDico}]
    /\ \A p \in 0 .. Len(b) - 1 : Begins(b, p) => \E m \in Sendable : LinkAt(b, N, R, S, p, m)

(* What encode() appends to a buffer is marked with what is next.          *)
LEMMA ChainExtends ==
  ASSUME NEW b, Framed(b, Sendable), NEW N, NEW R, NEW E, NEW S \in Seq(E), NEW T \in Seq(E),
         Chain(b, N, R, S), N[Len(b)] = Len(S),
         \A j \in 1 .. Len(S) : T[j] = S[j],
         NEW m \in Sendable, NEW r \in Dico \cup {NoDico},
         \/ /\ m \in Message /\ m.dico = R[Len(b)] /\ r = R[Len(b)]
            /\ Len(T) = Len(S) + 1 /\ T[Len(S) + 1] = Seen(m)
         \/ \E d \in Dico : m = DicoMessage(d) /\ r = d /\ Len(T) = Len(S)
  PROVE  \E M, Q : /\ Chain(Concatenated(b, m), M, Q, T)
                   /\ M[0] = N[0] /\ Q[0] = R[0]
                   /\ M[Len(Concatenated(b, m))] = Len(T) /\ Q[Len(Concatenated(b, m))] = r
<1> DEFINE c == Concatenated(b, m)
           q == IF b = <<>> THEN 0 ELSE Len(b) + 1
           M == [p \in 0 .. Len(c) |-> IF p <= Len(b) THEN N[p] ELSE IF p <= q THEN Len(S) ELSE Len(T)]
           Q == [p \in 0 .. Len(c) |-> IF p <= Len(b) THEN R[p] ELSE IF p <= q THEN R[Len(b)] ELSE r]
<1>1. /\ b \in Seq(Tokens) /\ c \in Seq(Tokens) /\ Len(c) = EndOf(q, m)
      /\ \A k \in 1 .. Len(b) : c[k] = b[k]
      /\ b # <<>> => c[Len(b) + 1] = Stop
      /\ FrameAt(c, q, m)
  BY ConcatenatedShape DEF Framed
<1>2. /\ Length(m) \in Nat /\ Len(b) \in Nat /\ Len(c) \in Nat /\ Len(c) = q + 1 + Length(m)
      /\ Len(S) \in Nat /\ Len(T) \in Nat /\ Len(S) <= Len(T)
      /\ q \in Nat /\ (b = <<>> => Len(b) = 0 /\ q = 0) /\ (b # <<>> => q = Len(b) + 1 /\ Len(b) > 0)
  <2>1. Length(m) \in Nat /\ Len(b) \in Nat /\ Len(c) \in Nat /\ Len(S) \in Nat /\ Len(T) \in Nat
    BY <1>1, FieldKinds
  <2>2. Len(c) = q + 1 + Length(m)  BY <1>1 DEF EndOf
  <2>3. Len(S) <= Len(T)  BY <2>1
  <2> HIDE DEF c
  <2> QED  BY <1>1, <2>1, <2>2, <2>3
<1>3. \A p \in Nat : Begins(c, p) => p = q \/ (p < Len(b) /\ Begins(b, p))
  <2> SUFFICES ASSUME NEW p \in Nat, Begins(c, p), p # q PROVE p < Len(b) /\ Begins(b, p)
    OBVIOUS
  <2>1. \A k \in 1 .. Length(m) : c[q + 1 + k] # Stop
    <3>1. \A k \in 1 .. Length(m) : c[q + 1 + k] = m.fields[k]  BY <1>1 DEF FrameAt
    <3> QED  BY <3>1, FieldKinds
  <2>2. c[q + 1] # Stop  BY <1>1 DEF FrameAt, HeaderOf, Stop
  <2> HIDE DEF c, q
  <2>3. p \in 0 .. Len(c) - 1 /\ (p = 0 \/ c[p] = Stop)  BY DEF Begins
  <2>4. ~(p > q)
    <3> SUFFICES ASSUME p > q PROVE FALSE  OBVIOUS
    <3>1. c[p] = Stop  BY <1>2, <2>3
    <3>2. p # q + 1  BY <2>2, <3>1
    <3>3. PICK k \in 1 .. Length(m) : p = q + 1 + k
      <4>1. p - q - 1 \in 1 .. Length(m) /\ p = q + 1 + (p - q - 1)  BY <1>2, <2>3, <3>2
      <4> QED  BY <4>1
    <3> QED  BY <2>1, <3>1, <3>3
  <2>5. b # <<>> /\ q = Len(b) + 1 /\ p <= Len(b)  BY <1>2, <2>4
  <2>6. p # Len(b)  BY <1>1, <1>2, <2>3, <2>5 DEF Framed
  <2> QED  BY <1>1, <1>2, <2>3, <2>5, <2>6 DEF Begins
<1>4. /\ N \in [0 .. Len(b) -> Nat] /\ R \in [0 .. Len(b) -> Dico \cup {NoDico}]
  BY DEF Chain
<1>5. /\ \A p \in 0 .. Len(b) : M[p] = N[p] /\ Q[p] = R[p]
      /\ M[q] = Len(S) /\ Q[q] = R[Len(b)]
      /\ M[Len(c)] = Len(T) /\ Q[Len(c)] = r
  <2> HIDE DEF c, q
  <2>1. \A p \in 0 .. Len(b) : p \in 0 .. Len(c) /\ p <= Len(b)  BY <1>2
  <2>2. q \in 0 .. Len(c) /\ Len(c) \in 0 .. Len(c) /\ ~(Len(c) <= q) /\ ~(Len(c) <= Len(b))
    BY <1>2
  <2>3. M[q] = Len(S) /\ Q[q] = R[Len(b)]
    <3>1. CASE b = <<>>  BY <1>2, <2>2, <3>1
    <3>2. CASE b # <<>>  BY <1>2, <2>2, <3>2
    <3> QED  BY <3>1, <3>2
  <2> QED  BY <2>1, <2>2, <2>3
<1>6. M \in [0 .. Len(c) -> Nat] /\ Q \in [0 .. Len(c) -> Dico \cup {NoDico}]
  <2> HIDE DEF c, q
  <2> QED  BY <1>2, <1>4
<1> HIDE DEF c, q, M, Q
<1>7. After(c, q, m) = Len(c)  BY <1>1 DEF After
<1>8. LinkAt(c, M, Q, T, q, m)
  BY <1>1, <1>2, <1>5, <1>7 DEF LinkAt
<1>9. ASSUME NEW p \in 0 .. Len(c) - 1, Begins(c, p), p # q
      PROVE  \E n \in Sendable : LinkAt(c, M, Q, T, p, n)
  <2>1. p \in 0 .. Len(b) - 1 /\ Begins(b, p) /\ b # <<>>  BY <1>2, <1>3, <1>9
  <2>2. PICK n \in Sendable : LinkAt(b, N, R, S, p, n)  BY <2>1 DEF Chain
  <2>3. FrameAt(c, p, n)  BY <1>1, <2>1, <2>2, FrameStays DEF LinkAt, c
  <2>4. EndOf(p, n) <= Len(b) /\ EndOf(p, n) \in Nat
    <3>1. Length(n) \in Nat  BY FieldKinds
    <3> QED  BY <2>1, <2>2, <3>1 DEF LinkAt, FrameAt, EndOf
  <2>5. /\ M[p] = N[p] /\ Q[p] = R[p] /\ N[p] \in Nat
        /\ M[After(c, p, n)] = N[After(b, p, n)] /\ Q[After(c, p, n)] = R[After(b, p, n)]
    <3>1. M[p] = N[p] /\ Q[p] = R[p] /\ N[p] \in Nat  BY <1>2, <1>4, <1>5, <2>1
    <3>2. CASE EndOf(p, n) = Len(b)
      <4>1. After(b, p, n) = Len(b) /\ After(c, p, n) = q
        BY <1>2, <2>1, <3>2 DEF After
      <4> QED  BY <1>5, <3>1, <4>1
    <3>3. CASE EndOf(p, n) # Len(b)
      <4>1. After(b, p, n) = EndOf(p, n) + 1 /\ After(c, p, n) = EndOf(p, n) + 1
            /\ EndOf(p, n) + 1 \in 0 .. Len(b)
        BY <1>2, <2>1, <2>4, <3>3 DEF After
      <4> QED  BY <1>5, <3>1, <4>1
    <3> QED  BY <3>1, <3>2, <3>3
  <2>6. \A k \in Nat : k < Len(S) => T[k + 1] = S[k + 1] /\ k < Len(T)
    <3>1. \A k \in Nat : k < Len(S) => k + 1 \in 1 .. Len(S)  BY <1>2
    <3> QED  BY <1>2, <3>1
  <2>7. LinkAt(c, M, Q, T, p, n)
    BY <2>2, <2>3, <2>5, <2>6 DEF LinkAt
  <2> QED  BY <2>7
<1>10. Chain(c, M, Q, T)  BY <1>6, <1>8, <1>9 DEF Chain
<1>11. M[0] = N[0] /\ Q[0] = R[0]  BY <1>2, <1>5
<1> QED  BY <1>5, <1>10, <1>11 DEF c

LEMMA ChainLater ==
  ASSUME NEW b, NEW N, NEW R, NEW E, NEW S \in Seq(E), NEW T \in Seq(E), Len(S) <= Len(T),
         \A j \in 1 .. Len(S) : T[j] = S[j], N \in [0 .. Len(b) -> Nat]
  PROVE  /\ \A p \in 0 .. Len(b) : \A m : LinkAt(b, N, R, S, p, m) => LinkAt(b, N, R, T, p, m)
         /\ Len(b) \in Nat /\ Chain(b, N, R, S) => Chain(b, N, R, T)
<1>1. \A k \in Nat : k < Len(S) => k < Len(T) /\ T[k + 1] = S[k + 1]
  <2>1. \A k \in Nat : k < Len(S) => k + 1 \in 1 .. Len(S)  OBVIOUS
  <2> QED  BY <2>1
<1>2. ASSUME NEW p \in 0 .. Len(b), NEW m, LinkAt(b, N, R, S, p, m)
      PROVE  LinkAt(b, N, R, T, p, m)
  <2>1. N[p] \in Nat  OBVIOUS
  <2>2. N[p] < Len(S) => N[p] < Len(T) /\ T[N[p] + 1] = S[N[p] + 1]  BY <1>1, <2>1
  <2> QED  BY <1>2, <2>2 DEF LinkAt
<1>3. ASSUME Len(b) \in Nat, Chain(b, N, R, S) PROVE Chain(b, N, R, T)
  <2>1. 0 .. Len(b) - 1 \subseteq 0 .. Len(b)  BY <1>3
  <2>2. ASSUME NEW p \in 0 .. Len(b) - 1, Begins(b, p)
        PROVE  \E m \in Sendable : LinkAt(b, N, R, T, p, m)
    <3>1. PICK m \in Sendable : LinkAt(b, N, R, S, p, m)  BY <1>3, <2>2 DEF Chain
    <3> QED  BY <1>2, <2>1, <3>1
  <2> QED  BY <1>3, <2>2 DEF Chain
<1> QED  BY <1>2, <1>3

(* The variable is what was read of the message m, and what the call of    *)
(* decode() began with fits it.                                            *)
Exactly(s, m) ==
    /\ auto => concat
    /\ ~concat => EndOf(s, m) = Len(inbox)
    /\ \/ /\ at = s /\ var.fields = {} /\ var.dico = rdico
          /\ var.id = 0 \/ (var.id = m.id /\ m.dico = rdico /\ s = pos)
       \/ /\ at \in s + 1 .. EndOf(s, m)
          /\ var = [dico |-> m.dico, id |-> m.id,
                    fields |-> {m.fields[k] : k \in 1 .. at - s - 1}]

(* The receiver is where the marks say.                                    *)
Caught(N, R) ==
    \/ busy = "no" /\ N[pos] = Len(got) /\ R[pos] = IF due THEN Carried ELSE rdico
    \/ /\ busy = "yes"
       /\ \E m \in Sendable : \E s \in 0 .. at :
             /\ Begins(inbox, s) /\ LinkAt(inbox, N, R, sent, s, m) /\ Exactly(s, m)
             /\ N[s] = Len(got) /\ R[s] = rdico

(* Behind its buffer comes what the sender has put in the next one.        *)
Ahead(N, R, M, Q) ==
    IF handed THEN N[Len(inbox)] = Len(sent) /\ R[Len(inbox)] = announced
    ELSE /\ buf # <<>> /\ Chain(buf, M, Q, sent)
         /\ M[0] = N[Len(inbox)] /\ Q[0] = R[Len(inbox)]
         /\ M[Len(buf)] = Len(sent) /\ Q[Len(buf)] = announced

Marked(N, R, M, Q) == Chain(inbox, N, R, sent) /\ Caught(N, R) /\ Ahead(N, R, M, Q)

InOrder ==
    /\ got \in Seq({Seen(m) : m \in Message})
    /\ Len(got) <= Len(sent) /\ \A k \in 1 .. Len(got) : got[k] = sent[k]

ContractInv ==
    /\ StreamInv /\ AcceptsEncoded /\ InOrder
    /\ \E N, R, M, Q : Marked(N, R, M, Q)

Contract == Careless = {} /\ NoneOfItself

LEMMA ContractInit == Init => ContractInv
<1> SUFFICES ASSUME Init PROVE ContractInv  OBVIOUS
<1> DEFINE N == [p \in 0 .. 0 |-> 0]
           R == [p \in 0 .. 0 |-> NoDico]
<1>1. /\ inbox = <<>> /\ Len(inbox) = 0 /\ pos = 0 /\ busy = "no" /\ due = FALSE /\ rdico = NoDico
      /\ handed = TRUE /\ announced = NoDico /\ sent = <<>> /\ got = <<>> /\ failed = FALSE
  BY DEF Init
<1>2. Chain(inbox, N, R, sent)  BY <1>1 DEF Chain
<1>3. Caught(N, R)  BY <1>1 DEF Caught
<1>4. Ahead(N, R, N, R)  BY <1>1 DEF Ahead
<1>5. AcceptsEncoded /\ InOrder  BY <1>1 DEF AcceptsEncoded, InOrder
<1> QED  BY <1>2, <1>3, <1>4, <1>5, StreamInit DEF ContractInv, Marked

(* What holds of the marks while the receiver goes on.                     *)
LEMMA MarksKeep ==
  ASSUME ContractInv, StreamInv', Unsent, NEW N, NEW R, NEW M, NEW Q, Marked(N, R, M, Q),
         Caught(N, R)', AcceptsEncoded', InOrder'
  PROVE  ContractInv'
<1>1. Chain(inbox, N, R, sent)' /\ Ahead(N, R, M, Q)'
  BY DEF Marked, Unsent, Ahead
<1> QED  BY <1>1 DEF ContractInv, Marked

(* What the receiver reads was posted.                                     *)
LEMMA ExactReads ==
  ASSUME StreamInv, NEW N, NEW R, NEW m \in Sendable, NEW s \in 0 .. at,
         Begins(inbox, s), LinkAt(inbox, N, R, sent, s, m), N[s] \in Nat, Exactly(s, m)
  PROVE  m \in Posted /\ Reads(s, m)
<1>1. m \in Posted
  <2>1. CASE m \in DicoMessages  BY <2>1 DEF Posted
  <2>2. CASE m \notin DicoMessages
    <3>1. m \in Message /\ N[s] < Len(sent) /\ sent[N[s] + 1] = Seen(m)
      BY <2>2 DEF LinkAt, DicoMessages
    <3>2. N[s] + 1 \in DOMAIN sent  BY <3>1 DEF StreamInv
    <3> QED  BY <3>1, <3>2 DEF Posted
  <2> QED  BY <2>1, <2>2
<1>2. m.dico = rdico => rdico \in Dico
  BY SendableItems, StreamAssumption DEF StreamInv, TypeOK, AllDicos
<1>3. FrameAt(inbox, s, m)  BY DEF LinkAt
<1>4. CASE /\ at = s /\ var.fields = {} /\ var.dico = rdico
           /\ var.id = 0 \/ (var.id = m.id /\ m.dico = rdico /\ s = pos)
  <2>1. var.id # 0 => var.dico \in Dico /\ s = pos /\ var.id = m.id  BY <1>2, <1>4
  <2> QED  BY <1>1, <1>3, <1>4, <2>1 DEF Reads
<1>5. CASE /\ at \in s + 1 .. EndOf(s, m)
           /\ var = [dico |-> m.dico, id |-> m.id,
                     fields |-> {m.fields[k] : k \in 1 .. at - s - 1}]
  BY <1>1, <1>3, <1>5 DEF Reads
<1> QED  BY <1>1, <1>4, <1>5 DEF Exactly

LEMMA NowReading ==
  ASSUME ContractInv, NEW N, NEW R, NEW M, NEW Q, Marked(N, R, M, Q), busy = "yes"
  PROVE  \E m \in Sendable : \E s \in 0 .. at :
            /\ Begins(inbox, s) /\ LinkAt(inbox, N, R, sent, s, m) /\ Exactly(s, m)
            /\ N[s] = Len(got) /\ R[s] = rdico
            /\ m \in Posted /\ Reads(s, m)
<1>1. PICK m \in Sendable, s \in 0 .. at :
            /\ Begins(inbox, s) /\ LinkAt(inbox, N, R, sent, s, m) /\ Exactly(s, m)
            /\ N[s] = Len(got) /\ R[s] = rdico
  BY DEF Marked, Caught
<1>2. N[s] \in Nat  BY <1>1 DEF ContractInv, InOrder
<1> QED  BY <1>1, <1>2, ExactReads DEF ContractInv

(* The receiver goes on in the message it reads.                           *)
LEMMA ReadOn ==
  ASSUME ContractInv, StreamInv', Unsent, UNCHANGED <<rdico, busy, concat, auto, failed, got>>,
         busy = "yes", NEW N, NEW R, NEW M, NEW Q, Marked(N, R, M, Q),
         NEW m \in Sendable, NEW s \in 0 .. at, Begins(inbox, s),
         LinkAt(inbox, N, R, sent, s, m), Exactly(s, m), N[s] = Len(got), R[s] = rdico,
         at' \in s + 1 .. EndOf(s, m), s \in 0 .. at',
         var' = [dico |-> m.dico, id |-> m.id, fields |-> {m.fields[k] : k \in 1 .. at' - s - 1}]
  PROVE  ContractInv'
<1>1. Exactly(s, m)'  BY DEF Exactly, Unsent
<1>2. Begins(inbox, s)' /\ LinkAt(inbox, N, R, sent, s, m)'  BY DEF Unsent
<1>3. Caught(N, R)'  BY <1>1, <1>2 DEF Caught
<1>4. AcceptsEncoded' /\ InOrder'  BY DEF ContractInv, AcceptsEncoded, InOrder, Unsent
<1> QED  BY <1>3, <1>4, MarksKeep

LEMMA ReadHeaderInOrder == ASSUME Contract, ContractInv, ReadHeader PROVE ContractInv'
<1>1. /\ busy = "yes" /\ Unsent /\ UNCHANGED <<due, got>> /\ var.id = 0
  BY DEF ReadHeader, Calling, senderVars, Unsent
<1>2. StreamInv /\ StreamInv'  BY ReadHeaderKeeps DEF ContractInv
<1>3. PICK N, R, M, Q : Marked(N, R, M, Q)  BY DEF ContractInv
<1>4. PICK m \in Sendable, s \in 0 .. at :
            /\ Begins(inbox, s) /\ LinkAt(inbox, N, R, sent, s, m) /\ Exactly(s, m)
            /\ N[s] = Len(got) /\ R[s] = rdico
            /\ m \in Posted /\ Reads(s, m)
  BY <1>1, <1>3, NowReading
<1>5. m.id # 0 /\ m.dico \in AllDicos /\ NoDico \notin AllDicos
  BY SendableItems, StreamAssumption
<1>6. at = s /\ var.fields = {} /\ var.dico = rdico  BY <1>1, <1>4, <1>5 DEF Exactly
<1>7. Token = HeaderOf(m) /\ Length(m) \in Nat /\ s \in Nat /\ EndOf(s, m) \in s + 1 .. Len(inbox)
  BY <1>2, <1>4, <1>6, TokenRead
<1>8. /\ UNCHANGED <<rdico, busy, concat, auto, failed>> /\ at' = at + 1
      /\ var' = [dico |-> m.dico, id |-> m.id, fields |-> {}]
  <2>1. CASE m \in Message /\ m.dico = R[s]
    <3>1. HeaderIs(var.dico)  BY <1>4, <1>5, <1>6, <1>7, <2>1 DEF HeaderIs, IsHeader, HeaderOf
    <3>2. Accept([var EXCEPT !.id = Token.tag])  BY <3>1 DEF ReadHeader
    <3>3. Token.tag = m.id  BY <1>7 DEF HeaderOf
    <3> QED  BY <1>2, <1>4, <1>6, <2>1, <3>2, <3>3 DEF Accept, StreamInv
  <2>2. CASE \E d \in Dico : m = DicoMessage(d)
    <3>1. m.dico = DicoOfDico /\ m.id = DicoId  BY <2>2 DEF DicoMessage
    <3>2. Token = [kind |-> "header", tag |-> DicoId, data |-> Header[DicoOfDico]]
      BY <1>7, <3>1 DEF HeaderOf
    <3>3. ~HeaderIs(var.dico)
      BY <1>2, <1>6, <3>2, StreamAssumption DEF HeaderIs, IsHeader, StreamInv, TypeOK
    <3>4. CarriesDico
      BY <1>5, <3>1, <3>2 DEF CarriesDico, HeaderIs, IsHeader
    <3>5. Accept(Empty(DicoOfDico, DicoId))  BY <3>3, <3>4 DEF ReadHeader
    <3> QED  BY <3>1, <3>5 DEF Accept, Empty
  <2> QED  BY <1>4, <2>1, <2>2 DEF LinkAt
<1>9. at' \in s + 1 .. EndOf(s, m) /\ s \in 0 .. at' /\ {m.fields[k] : k \in 1 .. at' - s - 1} = {}
  BY <1>6, <1>7, <1>8
<1> QED  BY <1>1, <1>2, <1>3, <1>4, <1>8, <1>9, ReadOn

LEMMA ReadItemInOrder == ASSUME Contract, ContractInv, ReadItem PROVE ContractInv'
<1> DEFINE kind == VarItems[Token.tag]
<1>1. /\ busy = "yes" /\ Unsent /\ UNCHANGED <<due, got>> /\ var.id # 0 /\ ~Ended
      /\ Token.tag \in DOMAIN VarItems
  BY DEF ReadItem, Reading, Calling, senderVars, Unsent
<1>2. StreamInv /\ StreamInv'  BY ReadItemKeeps DEF ContractInv
<1>3. PICK N, R, M, Q : Marked(N, R, M, Q)  BY DEF ContractInv
<1>4. PICK m \in Sendable, s \in 0 .. at :
            /\ Begins(inbox, s) /\ LinkAt(inbox, N, R, sent, s, m) /\ Exactly(s, m)
            /\ N[s] = Len(got) /\ R[s] = rdico
            /\ m \in Posted /\ Reads(s, m)
  BY <1>1, <1>3, NowReading
<1>5. m.id # 0 /\ m.dico \in AllDicos /\ NoDico \notin AllDicos
  BY SendableItems, StreamAssumption
<1>6. /\ Length(m) \in Nat /\ s \in Nat /\ at \in Nat
      /\ EndOf(s, m) \in s + 1 .. Len(inbox) /\ at \in s .. EndOf(s, m) /\ at # EndOf(s, m)
      /\ DOMAIN m.fields = 1 .. Length(m)
  BY <1>1, <1>2, <1>4, TokenRead
<1>7. at # s
  <2> SUFFICES ASSUME at = s PROVE FALSE  OBVIOUS
  <2>1. Token = HeaderOf(m)  BY <1>2, <1>4, TokenRead
  <2>2. var.dico = rdico /\ var.id = m.id /\ m.dico = rdico
    BY <1>1, <1>4, <1>6 DEF Exactly
  <2>3. rdico \in Dico  BY <1>2, <1>5, <2>2 DEF StreamInv, TypeOK
  <2>4. VarItems = Items[rdico][m.id] /\ m.id \in DOMAIN Items[rdico]
    BY <1>5, <2>2, SendableItems DEF VarItems
  <2>5. Token.tag = m.id  BY <2>1 DEF HeaderOf
  <2> QED  BY <1>1, <2>3, <2>4, <2>5 DEF Contract, NoneOfItself
<1>8. var = [dico |-> m.dico, id |-> m.id, fields |-> {m.fields[k] : k \in 1 .. at - s - 1}]
  BY <1>4, <1>7 DEF Exactly
<1>9. at - s \in DOMAIN m.fields /\ Token = m.fields[at - s]
  BY <1>2, <1>4, <1>6, <1>7, TokenRead
<1>10. Token.kind = kind  BY <1>8, <1>9, OwnItem
<1>11. Accept([var EXCEPT !.fields = @ \cup {Token}])  BY <1>10 DEF ReadItem
<1>12. /\ UNCHANGED <<rdico, busy, concat, auto, failed>> /\ at' = at + 1
       /\ var' = [dico |-> m.dico, id |-> m.id, fields |-> var.fields \cup {Token}]
  BY <1>8, <1>11 DEF Accept
<1>13. /\ at' \in s + 1 .. EndOf(s, m) /\ s \in 0 .. at'
       /\ 1 .. at' - s - 1 = (1 .. at - s - 1) \cup {at - s}
  BY <1>6, <1>7, <1>12
<1>14. {m.fields[k] : k \in 1 .. at' - s - 1} = var.fields \cup {Token}
  BY <1>8, <1>9, <1>13
<1>15. var' = [dico |-> m.dico, id |-> m.id, fields |-> {m.fields[k] : k \in 1 .. at' - s - 1}]
  BY <1>12, <1>14
<1> QED  BY <1>1, <1>2, <1>3, <1>4, <1>12, <1>13, <1>15, ReadOn

LEMMA ReadOtherInOrder == ASSUME Contract, ContractInv, ReadOther PROVE ContractInv'
<1>1. /\ busy = "yes" /\ Unsent /\ UNCHANGED <<due, got>> /\ var.id # 0 /\ ~Ended
      /\ Token.tag \notin DOMAIN VarItems
  BY DEF ReadOther, Reading, Calling, senderVars, Unsent
<1>2. StreamInv /\ StreamInv'  BY ReadOtherKeeps DEF ContractInv
<1>3. PICK N, R, M, Q : Marked(N, R, M, Q)  BY DEF ContractInv
<1>4. PICK m \in Sendable, s \in 0 .. at :
            /\ Begins(inbox, s) /\ LinkAt(inbox, N, R, sent, s, m) /\ Exactly(s, m)
            /\ N[s] = Len(got) /\ R[s] = rdico
            /\ m \in Posted /\ Reads(s, m)
  BY <1>1, <1>3, NowReading
<1>5. m.dico \in AllDicos /\ NoDico \notin AllDicos  BY SendableItems, StreamAssumption
<1>6. /\ Length(m) \in Nat /\ s \in Nat /\ at \in Nat
      /\ EndOf(s, m) \in s + 1 .. Len(inbox) /\ at \in s .. EndOf(s, m) /\ at # EndOf(s, m)
  BY <1>1, <1>2, <1>4, TokenRead
<1>7. at = s
  <2> SUFFICES ASSUME at # s PROVE FALSE  OBVIOUS
  <2>1. var.dico = m.dico /\ var.id = m.id  BY <1>4 DEF Exactly
  <2>2. at - s \in DOMAIN m.fields /\ Token = m.fields[at - s]
    BY <1>2, <1>4, <1>6, TokenRead
  <2> QED  BY <1>1, <2>1, <2>2, OwnItem
<1>8. var.fields = {} /\ var.dico = m.dico /\ var.id = m.id
  BY <1>1, <1>4, <1>6, <1>7 DEF Exactly
<1>9. Token = HeaderOf(m)  BY <1>2, <1>4, <1>7, TokenRead
<1>10. Token.tag = var.id /\ HeaderIs(var.dico)
  BY <1>5, <1>8, <1>9 DEF HeaderIs, IsHeader, HeaderOf
<1>11. Accept(var)  BY <1>10 DEF ReadOther
<1>12. /\ UNCHANGED <<rdico, busy, concat, auto, failed>> /\ at' = at + 1
       /\ var' = [dico |-> m.dico, id |-> m.id, fields |-> {}]
  BY <1>2, <1>8, <1>11 DEF Accept, StreamInv
<1>13. at' \in s + 1 .. EndOf(s, m) /\ s \in 0 .. at' /\ {m.fields[k] : k \in 1 .. at' - s - 1} = {}
  BY <1>6, <1>7, <1>12
<1> QED  BY <1>1, <1>2, <1>3, <1>4, <1>12, <1>13, ReadOn

(* The frame that was read ends: what the variable is then.                *)
LEMMA NowRead ==
  ASSUME StreamInv, busy = "yes", Ended, NEW N, NEW R, NEW m \in Sendable, m \in Posted,
         NEW s \in 0 .. at, Reads(s, m), LinkAt(inbox, N, R, sent, s, m), Exactly(s, m)
  PROVE  /\ at = EndOf(s, m) /\ var = Seen(m)
         /\ NextMessage = After(inbox, s, m) /\ NextMessage \in 0 .. Len(inbox)
         /\ NextMessage < Len(inbox) => Begins(inbox, NextMessage)
         /\ ~concat => NextMessage = Len(inbox)
         /\ \/ /\ m \in Message /\ ~IsDico
               /\ N[s] < Len(sent) /\ sent[N[s] + 1] = var
               /\ N[NextMessage] = N[s] + 1 /\ R[NextMessage] = R[s]
            \/ IsDico /\ Carried \in Dico /\ N[NextMessage] = N[s] /\ R[NextMessage] = Carried
<1>1. /\ at = EndOf(s, m)
      /\ NextMessage = After(inbox, s, m) /\ NextMessage \in 0 .. Len(inbox)
      /\ NextMessage < Len(inbox) => Begins(inbox, NextMessage)
  BY FrameEnded
<1>2. /\ Length(m) \in Nat /\ s \in Nat /\ DOMAIN m.fields = 1 .. Length(m)
      /\ EndOf(s, m) = s + 1 + Length(m)
  BY TokenRead DEF EndOf
<1>3. at # s /\ at - s - 1 = Length(m)  BY <1>1, <1>2
<1>4. var = Seen(m)  BY <1>2, <1>3 DEF Exactly, Seen
<1>5. ~concat => NextMessage = Len(inbox)  BY <1>1 DEF Exactly, NextMessage
<1>6. CASE /\ m \in Message /\ m.dico = R[s]
           /\ N[s] < Len(sent) /\ sent[N[s] + 1] = Seen(m)
           /\ N[After(inbox, s, m)] = N[s] + 1 /\ R[After(inbox, s, m)] = R[s]
  <2>1. ~IsDico  BY <1>4, <1>6, SendableItems, StreamAssumption DEF IsDico, Seen
  <2> QED  BY <1>1, <1>4, <1>5, <1>6, <2>1
<1>7. CASE \E d \in Dico : /\ m = DicoMessage(d)
                           /\ N[After(inbox, s, m)] = N[s] /\ R[After(inbox, s, m)] = d
  <2>1. PICK d \in Dico : /\ m = DicoMessage(d)
                          /\ N[After(inbox, s, m)] = N[s] /\ R[After(inbox, s, m)] = d
    BY <1>7
  <2>2. Carried = d  BY <1>4, <2>1, CarriedIs
  <2>3. IsDico  BY <1>4, <2>1 DEF IsDico, Seen, DicoMessage
  <2> QED  BY <1>1, <1>4, <1>5, <2>1, <2>2, <2>3
<1> QED  BY <1>6, <1>7 DEF LinkAt

(* The last token of a buffer leaves nothing behind it.                    *)
LEMMA NothingLeft == ASSUME Len(inbox) \in Nat PROVE BytesFrom(inbox, Len(inbox)) = 0
<1> DEFINE n == Len(inbox)
           bytes == [k \in n .. n |-> 0]
           Counts(f) == f = [k \in n .. Len(inbox) |->
                               IF k = Len(inbox) THEN 0 ELSE Size(inbox[k + 1]) + f[k + 1]]
           f0 == CHOOSE f : Counts(f)
<1>1. Counts(bytes)  OBVIOUS
<1>2. Counts(f0)  BY <1>1
<1>3. f0[n] = 0  BY <1>2
<1> QED  BY <1>3 DEF BytesFrom

LEMMA FinishThrowsNever == ASSUME ContractInv PROVE ~FinishThrows
<1> SUFFICES ASSUME FinishThrows PROVE FALSE  OBVIOUS
<1>1. busy = "yes" /\ Ended /\ ~RestCheck  BY DEF FinishThrows, Finished
<1>2. StreamInv /\ Len(inbox) \in Nat  BY DEF ContractInv, StreamInv, Framed
<1>3. PICK N, R, M, Q : Marked(N, R, M, Q)  BY DEF ContractInv
<1>4. PICK m \in Sendable, s \in 0 .. at :
            /\ Begins(inbox, s) /\ LinkAt(inbox, N, R, sent, s, m) /\ Exactly(s, m)
            /\ N[s] = Len(got) /\ R[s] = rdico
            /\ m \in Posted /\ Reads(s, m)
  BY <1>1, <1>3, NowReading
<1>5. ~concat => NextMessage = Len(inbox)  BY <1>1, <1>2, <1>4, NowRead
<1>6. ~concat /\ BytesFrom(inbox, Len(inbox)) % 2 # 0  BY <1>1, <1>5 DEF RestCheck
<1>7. BytesFrom(inbox, Len(inbox)) = 0  BY <1>2, NothingLeft
<1> QED  BY <1>6, <1>7

LEMMA FinishMessageInOrder == ASSUME Contract, ContractInv, FinishMessage
                              PROVE  /\ ContractInv'
                                     /\ UNCHANGED <<sent, got>> \/ Promise!Deliver
<1>1. /\ busy = "yes" /\ Ended /\ Unsent /\ UNCHANGED <<rdico, var, failed>>
      /\ busy' = "no" /\ pos' = NextMessage
      /\ due' = IsDico /\ got' = IF IsDico THEN got ELSE Append(got, var)
  BY DEF FinishMessage, Finished, Return, senderVars, Unsent
<1>2. StreamInv /\ StreamInv'  BY FinishMessageKeeps DEF ContractInv
<1>3. PICK N, R, M, Q : Marked(N, R, M, Q)  BY DEF ContractInv
<1>4. PICK m \in Sendable, s \in 0 .. at :
            /\ Begins(inbox, s) /\ LinkAt(inbox, N, R, sent, s, m) /\ Exactly(s, m)
            /\ N[s] = Len(got) /\ R[s] = rdico
            /\ m \in Posted /\ Reads(s, m)
  BY <1>1, <1>3, NowReading
<1>5. AcceptsEncoded'  BY <1>1 DEF ContractInv, AcceptsEncoded
<1>6. /\ got \in Seq({Seen(n) : n \in Message}) /\ Len(got) \in Nat
      /\ Len(got) <= Len(sent) /\ \A k \in 1 .. Len(got) : got[k] = sent[k]
      /\ sent' = sent /\ Len(sent) \in Nat
  BY <1>1, <1>2 DEF ContractInv, InOrder, StreamInv, Unsent
<1>7. CASE /\ m \in Message /\ ~IsDico
           /\ N[s] < Len(sent) /\ sent[N[s] + 1] = var
           /\ N[NextMessage] = N[s] + 1 /\ R[NextMessage] = R[s]
  <2>1. var = Seen(m)  BY <1>1, <1>2, <1>4, NowRead
  <2>2. /\ got' = Append(got, var) /\ var \in {Seen(n) : n \in Message}
        /\ got' \in Seq({Seen(n) : n \in Message}) /\ Len(got') = Len(got) + 1
        /\ \A k \in 1 .. Len(got) : got'[k] = got[k]
        /\ got'[Len(got) + 1] = var
    BY <1>1, <1>6, <1>7, <2>1, AppendProperties
  <2>3. Len(got) < Len(sent) /\ sent[Len(got) + 1] = var  BY <1>4, <1>7
  <2>4. InOrder'
    <3>1. Len(got') <= Len(sent)  BY <1>6, <2>2, <2>3
    <3>2. ASSUME NEW k \in 1 .. Len(got') PROVE got'[k] = sent[k]
      <4>1. k \in 1 .. Len(got) \/ k = Len(got) + 1  BY <1>6, <2>2
      <4> QED  BY <1>6, <2>2, <2>3, <4>1
    <3> QED  BY <1>6, <2>2, <3>1, <3>2 DEF InOrder
  <2>5. Caught(N, R)'  BY <1>1, <1>4, <1>7, <2>2 DEF Caught
  <2>6. Promise!Deliver  BY <1>6, <2>2, <2>3 DEF Promise!Deliver
  <2> QED  BY <1>1, <1>2, <1>3, <1>5, <2>4, <2>5, <2>6, MarksKeep
<1>8. CASE IsDico /\ N[NextMessage] = N[s] /\ R[NextMessage] = Carried
  <2>1. got' = got /\ Carried' = Carried  BY <1>1, <1>8 DEF Carried
  <2>2. Caught(N, R)'  BY <1>1, <1>4, <1>8, <2>1 DEF Caught
  <2>3. InOrder'  BY <1>6, <2>1 DEF InOrder
  <2> QED  BY <1>1, <1>2, <1>3, <1>5, <1>6, <2>1, <2>2, <2>3, MarksKeep
<1> QED  BY <1>1, <1>2, <1>4, <1>7, <1>8, NowRead

LEMMA FinishDicoInOrder == ASSUME Contract, ContractInv, FinishDico PROVE ContractInv'
<1>1. /\ busy = "yes" /\ Ended /\ Unsent /\ UNCHANGED <<due, failed, got>>
      /\ auto /\ IsDico
      /\ rdico' = Carried /\ var' = Empty(Carried, 0)
      /\ at' = NextMessage
      /\ \/ NextMessage = Len(inbox) /\ busy' = "no" /\ pos' = NextMessage
         \/ NextMessage # Len(inbox) /\ UNCHANGED <<busy, pos, concat, auto>>
  BY DEF FinishDico, Finished, Return, senderVars, Unsent
<1>2. StreamInv /\ StreamInv' /\ ~due  BY <1>1, FinishDicoKeeps DEF ContractInv, StreamInv
<1>3. PICK N, R, M, Q : Marked(N, R, M, Q)  BY DEF ContractInv
<1>4. PICK m \in Sendable, s \in 0 .. at :
            /\ Begins(inbox, s) /\ LinkAt(inbox, N, R, sent, s, m) /\ Exactly(s, m)
            /\ N[s] = Len(got) /\ R[s] = rdico
            /\ m \in Posted /\ Reads(s, m)
  BY <1>1, <1>3, NowReading
<1>5. /\ NextMessage \in 0 .. Len(inbox)
      /\ NextMessage < Len(inbox) => Begins(inbox, NextMessage)
      /\ N[NextMessage] = N[s] /\ R[NextMessage] = Carried
  BY <1>1, <1>2, <1>4, NowRead
<1>6. Len(inbox) \in Nat  BY <1>2 DEF StreamInv, Framed
<1>7. Caught(N, R)'
  <2>1. CASE busy' = "no" /\ pos' = NextMessage
    BY <1>1, <1>2, <1>4, <1>5, <2>1 DEF Caught
  <2>2. CASE NextMessage # Len(inbox) /\ UNCHANGED <<busy, pos, concat, auto>>
    <3>1. PICK p \in 0 .. Len(inbox) - 1 : p = NextMessage /\ Begins(inbox, p)
      BY <1>5, <1>6, <2>2
    <3>2. PICK n \in Sendable : LinkAt(inbox, N, R, sent, p, n)
      BY <1>3, <3>1 DEF Marked, Chain
    <3>3. Exactly(p, n)'
      BY <1>1, <1>4, <2>2, <3>1 DEF Exactly, Empty
    <3>4. Begins(inbox, p)' /\ LinkAt(inbox, N, R, sent, p, n)'
      BY <1>1, <3>1, <3>2 DEF Unsent
    <3>5. p \in 0 .. at'  BY <1>1, <3>1
    <3>6. (N[p] = Len(got))' /\ (R[p] = rdico)'  BY <1>1, <1>4, <1>5, <3>1
    <3> QED  BY <1>1, <2>2, <3>3, <3>4, <3>5, <3>6 DEF Caught
  <2> QED  BY <1>1, <2>1, <2>2
<1>8. AcceptsEncoded' /\ InOrder'
  BY <1>1 DEF ContractInv, AcceptsEncoded, InOrder, Unsent
<1> QED  BY <1>1, <1>2, <1>3, <1>7, <1>8, MarksKeep

LEMMA ApplyDicoInOrder == ASSUME Contract, ContractInv, ApplyDico PROVE ContractInv'
<1>1. /\ busy = "no" /\ due /\ Unsent /\ UNCHANGED <<pos, var, busy, failed, got>>
      /\ rdico' = Carried /\ due' = FALSE
  BY DEF ApplyDico, senderVars, callVars, Unsent
<1>2. StreamInv'  BY ApplyDicoKeeps DEF ContractInv
<1>3. PICK N, R, M, Q : Marked(N, R, M, Q)  BY DEF ContractInv
<1>4. N[pos] = Len(got) /\ R[pos] = Carried  BY <1>1, <1>3 DEF Marked, Caught
<1>5. Caught(N, R)'  BY <1>1, <1>4 DEF Caught
<1>6. AcceptsEncoded' /\ InOrder'
  BY <1>1 DEF ContractInv, AcceptsEncoded, InOrder, Unsent
<1> QED  BY <1>1, <1>2, <1>3, <1>5, <1>6, MarksKeep

LEMMA CallInOrder ==
  ASSUME Contract, ContractInv, NEW v, NEW c \in BOOLEAN, NEW a \in BOOLEAN, Call(v, c, a)
  PROVE  ContractInv'
<1>1. /\ Unsent /\ UNCHANGED <<rdico, pos, got>>
      /\ busy' = "yes" /\ at' = pos /\ failed' = FALSE /\ concat' = c /\ auto' = (a /\ c)
      /\ busy = "no" /\ pos < Len(inbox) /\ Target(v) /\ ~due /\ (c \/ OneLeft)
      /\ var' = IF v.dico # NoDico THEN Empty(v.dico, v.id) ELSE Empty(rdico, v.id)
  BY DEF Call, senderVars, Unsent, Contract
<1>2. StreamInv /\ StreamInv' /\ Len(inbox) \in Nat /\ pos \in Nat
  <2>1. StreamInv /\ StreamInv'  BY CallKeeps DEF ContractInv
  <2>2. Len(inbox) \in Nat /\ pos \in 0 .. Len(inbox)
    BY <2>1 DEF StreamInv, Framed, TypeOK
  <2> QED  BY <2>1, <2>2
<1>3. PICK N, R, M, Q : Marked(N, R, M, Q)  BY DEF ContractInv
<1>4. PICK p \in 0 .. Len(inbox) - 1 : p = pos /\ Begins(inbox, p)
  BY <1>1, <1>2 DEF StreamInv
<1>5. PICK m \in Sendable : LinkAt(inbox, N, R, sent, p, m)
  BY <1>3, <1>4 DEF Marked, Chain
<1>6. N[p] = Len(got) /\ R[p] = rdico  BY <1>1, <1>3, <1>4 DEF Marked, Caught
<1>7. ~c => EndOf(p, m) = Len(inbox)
  <2> SUFFICES ASSUME OneLeft, EndOf(p, m) # Len(inbox) PROVE FALSE  BY <1>1
  <2>1. /\ EndOf(p, m) < Len(inbox) /\ inbox[EndOf(p, m) + 1] = Stop
        /\ EndOf(p, m) \in Nat /\ EndOf(p, m) > p
    <3>1. EndOf(p, m) = p + 1 + Length(m) /\ Length(m) \in Nat  BY FieldKinds DEF EndOf
    <3> QED  BY <1>2, <1>5, <3>1 DEF LinkAt, FrameAt
  <2>2. PICK k \in 1 .. Len(inbox) - p : p + k = EndOf(p, m) + 1
    <3>1. /\ EndOf(p, m) + 1 - p \in 1 .. Len(inbox) - p
          /\ p + (EndOf(p, m) + 1 - p) = EndOf(p, m) + 1
      BY <1>2, <2>1
    <3> QED  BY <3>1
  <2>3. inbox \in Seq(Tokens)  BY <1>2 DEF StreamInv, Framed
  <2>4. DOMAIN Left = 1 .. Len(inbox) - p /\ Left[k] = inbox[p + k]
    BY <1>2, <1>4, <2>2, <2>3 DEF Left
  <2> QED  BY <2>1, <2>2, <2>4 DEF OneLeft
<1>8. /\ var'.fields = {} /\ var'.dico = rdico
      /\ var'.id = 0 \/ (var'.id = m.id /\ m.dico = rdico)
  <2>1. CASE v = Empty(NoDico, 0)  BY <1>1, <2>1 DEF Empty
  <2>2. CASE v = [var EXCEPT !.id = 0] /\ var.dico = rdico
    <3>1. v.id = 0 /\ v.dico = rdico  BY <1>2, <2>2 DEF StreamInv
    <3> QED  BY <1>1, <3>1 DEF Empty
  <2>3. CASE /\ rdico # NoDico /\ v.dico = NoDico
             /\ inbox[pos + 1] = [kind |-> "header", tag |-> v.id, data |-> Header[rdico]]
    <3>1. HeaderOf(m) = [kind |-> "header", tag |-> v.id, data |-> Header[rdico]]
      BY <1>4, <1>5, <2>3 DEF LinkAt, FrameAt
    <3>2. m.id = v.id /\ Header[m.dico] = Header[rdico]  BY <3>1 DEF HeaderOf
    <3>3. rdico \in Dico  BY <1>2, <2>3 DEF StreamInv, TypeOK
    <3>4. m \notin DicoMessages
      BY <3>2, <3>3, StreamAssumption DEF DicoMessages, DicoMessage
    <3>5. m.dico = rdico  BY <1>5, <1>6, <3>4 DEF LinkAt, DicoMessages
    <3> QED  BY <1>1, <2>3, <3>2, <3>5 DEF Empty
  <2> QED  BY <1>1, <2>1, <2>2, <2>3 DEF Target, Contract
<1>9. Exactly(p, m)'
  BY <1>1, <1>4, <1>7, <1>8 DEF Exactly, Unsent
<1>10. Begins(inbox, p)' /\ LinkAt(inbox, N, R, sent, p, m)'
  BY <1>1, <1>4, <1>5 DEF Unsent
<1>11. p \in 0 .. at' /\ (N[p] = Len(got))' /\ (R[p] = rdico)'
  BY <1>1, <1>2, <1>4, <1>6
<1>12. Caught(N, R)'  BY <1>1, <1>9, <1>10, <1>11 DEF Caught
<1>13. AcceptsEncoded' /\ InOrder'
  BY <1>1 DEF ContractInv, AcceptsEncoded, InOrder, Unsent
<1> QED  BY <1>1, <1>2, <1>3, <1>12, <1>13, MarksKeep

LEMMA HandoffInOrder == ASSUME Contract, ContractInv, Handoff PROVE ContractInv'
<1>1. /\ ~handed /\ handed' = TRUE /\ busy = "no" /\ pos = Len(inbox)
      /\ inbox' = buf /\ pos' = 0
      /\ UNCHANGED <<announced, buf, rdico, var, busy, due, failed, sent, got>>
  BY DEF Handoff
<1>2. StreamInv'  BY HandoffKeeps DEF ContractInv
<1>3. PICK N, R, M, Q : Marked(N, R, M, Q)  BY DEF ContractInv
<1>4. /\ Chain(buf, M, Q, sent) /\ M[0] = N[Len(inbox)] /\ Q[0] = R[Len(inbox)]
      /\ M[Len(buf)] = Len(sent) /\ Q[Len(buf)] = announced
  BY <1>1, <1>3 DEF Marked, Ahead
<1>5. N[pos] = Len(got) /\ R[pos] = IF due THEN Carried ELSE rdico
  BY <1>1, <1>3 DEF Marked, Caught
<1>6. Chain(inbox, M, Q, sent)'  BY <1>1, <1>4
<1>7. Carried' = Carried  BY <1>1 DEF Carried
<1>8. Caught(M, Q)'  BY <1>1, <1>4, <1>5, <1>7 DEF Caught
<1>9. Ahead(M, Q, M, Q)'  BY <1>1, <1>4 DEF Ahead
<1>10. AcceptsEncoded' /\ InOrder'
  BY <1>1 DEF ContractInv, AcceptsEncoded, InOrder
<1> QED  BY <1>2, <1>6, <1>8, <1>9, <1>10 DEF ContractInv, Marked

(* What is put in a buffer behind what was sent before.                    *)
LEMMA PutInOrder ==
  ASSUME ContractInv, StreamInv', NEW m \in Sendable, Put(m), Later,
         \/ /\ m \in Message /\ m.dico = announced /\ announced' = announced
            /\ Len(sent') = Len(sent) + 1 /\ sent'[Len(sent) + 1] = Seen(m)
         \/ \E d \in Dico : m = DicoMessage(d) /\ announced' = d /\ Len(sent') = Len(sent)
  PROVE  ContractInv'
<1> DEFINE E == {Seen(n) : n \in Message}
<1>1. /\ UNCHANGED <<rdico, inbox, pos, var, busy, at, concat, auto, due, failed, got>>
      /\ handed' = FALSE
  BY DEF Put, callVars
<1>2. /\ StreamInv /\ sent \in Seq(E) /\ sent' \in Seq(E) /\ Len(sent) <= Len(sent')
      /\ Len(inbox) \in Nat /\ announced \in Dico \cup {NoDico} /\ announced' \in Dico \cup {NoDico}
      /\ \A j \in 1 .. Len(sent) : sent'[j] = sent[j]
  <2>1. StreamInv /\ sent \in Seq(E) /\ sent' \in Seq(E) /\ Len(inbox) \in Nat
    BY DEF ContractInv, StreamInv, Framed
  <2>2. Len(sent) <= Len(sent')  BY <2>1
  <2> QED  BY <2>1, <2>2 DEF StreamInv, TypeOK, Later
<1>3. PICK N, R, M, Q : Marked(N, R, M, Q)  BY DEF ContractInv
<1> DEFINE Fits(K, L) == /\ Chain(buf', K, L, sent') /\ buf' # <<>>
                         /\ K[0] = N[Len(inbox)] /\ L[0] = R[Len(inbox)]
                         /\ K[Len(buf')] = Len(sent') /\ L[Len(buf')] = announced'
<1>4. \E K, L : Fits(K, L)
  <2>1. ASSUME NEW b, Framed(b, Sendable), buf' = Concatenated(b, m), NEW K, NEW L,
               Chain(b, K, L, sent), K[Len(b)] = Len(sent), L[Len(b)] = announced,
               K[0] = N[Len(inbox)], L[0] = R[Len(inbox)]
        PROVE  \E V, W : Fits(V, W)
    <3>1. PICK T, a : T = sent' /\ a = announced'  OBVIOUS
    <3>2. \E V, W : /\ Chain(Concatenated(b, m), V, W, T)
                    /\ V[0] = K[0] /\ W[0] = L[0]
                    /\ V[Len(Concatenated(b, m))] = Len(T)
                    /\ W[Len(Concatenated(b, m))] = a
      <4>1. /\ sent \in Seq(E) /\ T \in Seq(E) /\ a \in Dico \cup {NoDico}
            /\ \A j \in 1 .. Len(sent) : T[j] = sent[j]
        BY <1>2, <3>1
      <4>2. \/ /\ m \in Message /\ m.dico = L[Len(b)] /\ a = L[Len(b)]
               /\ Len(T) = Len(sent) + 1 /\ T[Len(sent) + 1] = Seen(m)
            \/ \E d \in Dico : m = DicoMessage(d) /\ a = d /\ Len(T) = Len(sent)
        BY <2>1, <3>1
      <4>3. Framed(b, Sendable) /\ Chain(b, K, L, sent) /\ K[Len(b)] = Len(sent)
        BY <2>1
      <4> HIDE DEF E
      <4> QED  BY <4>1, <4>2, <4>3, ChainExtends, SMTT(60)
    <3>3. Concatenated(b, m) # <<>>
      <4>1. b \in Seq(Tokens)  BY <2>1 DEF Framed
      <4>2. PICK q : q = IF b = <<>> THEN 0 ELSE Len(b) + 1  OBVIOUS
      <4>3. Len(Concatenated(b, m)) = q + 1 + Length(m) /\ Length(m) \in Nat /\ q \in Nat
        BY <4>1, <4>2, ConcatenatedShape, FieldKinds DEF EndOf
      <4> QED  BY <4>3
    <3> QED  BY <2>1, <3>1, <3>2, <3>3
  <2>2. CASE handed
    <3> DEFINE K == [p \in 0 .. 0 |-> Len(sent)]
               L == [p \in 0 .. 0 |-> announced]
    <3>1. Framed(<<>>, Sendable) /\ Len(<<>>) = 0  BY DEF Framed
    <3>2. Chain(<<>>, K, L, sent)  BY <1>2 DEF Chain
    <3>3. buf' = Concatenated(<<>>, m)  BY <2>2 DEF Put, Concatenated
    <3>4. N[Len(inbox)] = Len(sent) /\ R[Len(inbox)] = announced
      BY <1>3, <2>2 DEF Marked, Ahead
    <3>5. K[0] = Len(sent) /\ L[0] = announced  OBVIOUS
    <3> HIDE DEF K, L
    <3> QED  BY <2>1, <3>1, <3>2, <3>3, <3>4, <3>5
  <2>3. CASE ~handed
    <3>1. Framed(buf, Sendable)
      BY <1>2, PostedSendable, FramedMore DEF StreamInv
    <3>2. buf' = Concatenated(buf, m)  BY <2>3 DEF Put
    <3>3. /\ Chain(buf, M, Q, sent) /\ M[0] = N[Len(inbox)] /\ Q[0] = R[Len(inbox)]
          /\ M[Len(buf)] = Len(sent) /\ Q[Len(buf)] = announced
      BY <1>3, <2>3 DEF Marked, Ahead
    <3> QED  BY <2>1, <3>1, <3>2, <3>3
  <2> QED  BY <2>2, <2>3
<1>5. PICK K, L : Fits(K, L)
  BY <1>4
<1>6. Ahead(N, R, K, L)'  BY <1>1, <1>5 DEF Ahead
<1>7. N \in [0 .. Len(inbox) -> Nat] /\ Chain(inbox, N, R, sent)
  BY <1>3 DEF Marked, Chain
<1>8. /\ Chain(inbox, N, R, sent')
      /\ \A s \in 0 .. Len(inbox) : \A n :
            LinkAt(inbox, N, R, sent, s, n) => LinkAt(inbox, N, R, sent', s, n)
  <2>1. PICK T : T = sent'  OBVIOUS
  <2> QED  BY <1>2, <1>7, <2>1, ChainLater
<1>9. Caught(N, R)'
  <2>1. CASE busy = "no"
    <3>1. Carried' = Carried  BY <1>1 DEF Carried
    <3> QED  BY <1>1, <1>3, <2>1, <3>1 DEF Marked, Caught
  <2>2. CASE busy = "yes"
    <3>1. PICK n \in Sendable, s \in 0 .. at :
             /\ Begins(inbox, s) /\ LinkAt(inbox, N, R, sent, s, n) /\ Exactly(s, n)
             /\ N[s] = Len(got) /\ R[s] = rdico
      BY <1>3, <2>2 DEF Marked, Caught
    <3>2. Exactly(s, n)'  BY <1>1, <3>1 DEF Exactly
    <3>3. s \in 0 .. Len(inbox)  BY <3>1 DEF Begins
    <3>4. LinkAt(inbox, N, R, sent, s, n)'  BY <1>1, <1>8, <3>1, <3>3
    <3>5. Begins(inbox, s)' /\ s \in 0 .. at' /\ (N[s] = Len(got))' /\ (R[s] = rdico)'
      BY <1>1, <3>1
    <3> QED  BY <1>1, <2>2, <3>2, <3>4, <3>5 DEF Caught
  <2> QED  BY <1>3, <2>1, <2>2 DEF Marked, Caught
<1>10. AcceptsEncoded'  BY <1>1 DEF ContractInv, AcceptsEncoded
<1>11. InOrder'
  <2>1. /\ got \in Seq(E) /\ Len(got) <= Len(sent) /\ Len(got) \in Nat
        /\ \A k \in 1 .. Len(got) : got[k] = sent[k]
    BY DEF ContractInv, InOrder
  <2>2. Len(got) <= Len(sent') /\ \A k \in 1 .. Len(got) : got[k] = sent'[k]
    BY <1>2, <2>1
  <2> QED  BY <1>1, <2>1, <2>2 DEF InOrder
<1>12. Chain(inbox, N, R, sent)'  BY <1>1, <1>8
<1> QED  BY <1>6, <1>9, <1>10, <1>11, <1>12 DEF ContractInv, Marked

LEMMA SendInOrder == ASSUME Contract, ContractInv, NEW m \in Message, Send(m)
                     PROVE  ContractInv' /\ Promise!Send(Seen(m))
<1> DEFINE E == {Seen(n) : n \in Message}
<1>1. /\ Put(m) /\ m.dico = announced /\ announced' = announced
      /\ sent' = Append(sent, Seen(m)) /\ UNCHANGED got
  BY DEF Send, Put, Contract
<1>2. StreamInv /\ StreamInv' /\ sent \in Seq(E) /\ Seen(m) \in E
  BY SendKeeps DEF ContractInv, StreamInv
<1>3. /\ sent' \in Seq(E) /\ Len(sent') = Len(sent) + 1
      /\ \A j \in 1 .. Len(sent) : sent'[j] = sent[j]
      /\ sent'[Len(sent) + 1] = Seen(m)
  BY <1>1, <1>2, AppendProperties
<1>4. Later  BY <1>2, <1>3 DEF Later
<1>5. m \in Sendable  BY DEF Sendable
<1>6. ContractInv'  BY <1>1, <1>2, <1>3, <1>4, <1>5, PutInOrder
<1>7. Promise!Send(Seen(m))  BY <1>1 DEF Promise!Send
<1> QED  BY <1>6, <1>7

LEMMA SendDicoInOrder == ASSUME Contract, ContractInv, NEW d \in Dico, SendDico(d)
                         PROVE  ContractInv'
<1>1. StreamInv /\ StreamInv'  BY SendDicoKeeps DEF ContractInv
<1>2. /\ Put(DicoMessage(d)) /\ announced' = d /\ sent' = sent
      /\ DicoMessage(d) \in Sendable
  BY DEF SendDico, Sendable, DicoMessages
<1>3. Later  BY <1>1, <1>2 DEF StreamInv, Later
<1> QED  BY <1>1, <1>2, <1>3, PutInOrder

LEMMA AbandonNever == ASSUME ContractInv PROVE ~Abandon
  BY DEF ContractInv, AcceptsEncoded, Abandon

(* Every step keeps the marks, and is a step of Delivery or leaves what    *)
(* Delivery sees.                                                          *)
LEMMA ContractStep ==
  ASSUME Contract
  PROVE  ContractInv /\ [Next]_vars => ContractInv' /\ [Promise!Next]_<<sent, got>>
<1> SUFFICES ASSUME ContractInv, [Next]_vars PROVE ContractInv' /\ [Promise!Next]_<<sent, got>>
  OBVIOUS
<1>1. CASE UNCHANGED vars
  <2>1. UNCHANGED <<announced, buf, handed, rdico, inbox, pos, var, busy, at, concat, auto,
                    due, failed, sent, got>>
    BY <1>1 DEF vars
  <2>2. StreamInv'  BY <1>1, StreamStep DEF ContractInv
  <2>3. PICK N, R, M, Q : Marked(N, R, M, Q)  BY DEF ContractInv
  <2>4. Unsent  BY <2>1 DEF Unsent
  <2>5. Caught(N, R)'
    <3>1. Carried' = Carried  BY <2>1 DEF Carried
    <3>2. \A s, m : Exactly(s, m)' <=> Exactly(s, m)  BY <2>1 DEF Exactly
    <3> QED  BY <2>1, <2>3, <3>1, <3>2 DEF Marked, Caught
  <2>6. AcceptsEncoded' /\ InOrder'  BY <2>1 DEF ContractInv, AcceptsEncoded, InOrder
  <2> QED  BY <2>1, <2>2, <2>3, <2>4, <2>5, <2>6, MarksKeep
<1>2. CASE Sender
  <2>1. CASE Handoff  BY <2>1, HandoffInOrder DEF Handoff
  <2>2. CASE \E m \in Message : Send(m)
    <3> PICK m \in Message : Send(m)  BY <2>2
    <3>1. ContractInv' /\ Promise!Send(Seen(m))  BY SendInOrder
    <3> QED  BY <3>1 DEF Promise!Next
  <2>3. CASE \E d \in Dico : SendDico(d)
    <3> PICK d \in Dico : SendDico(d)  BY <2>3
    <3>1. ContractInv'  BY SendDicoInOrder
    <3> QED  BY <3>1 DEF SendDico, Put
  <2> QED  BY <1>2, <2>1, <2>2, <2>3 DEF Sender
<1>3. CASE Start
  <2> PICK v \in Variables, c, a \in BOOLEAN : Call(v, c, a)  BY <1>3 DEF Start
  <2>1. ContractInv'  BY CallInOrder
  <2> QED  BY <2>1 DEF Call, senderVars
<1>4. CASE Decode
  <2>1. CASE ReadHeader
    BY <2>1, ReadHeaderInOrder DEF ReadHeader, Calling, senderVars
  <2>2. CASE ReadItem
    BY <2>2, ReadItemInOrder DEF ReadItem, Reading, Calling, senderVars
  <2>3. CASE ReadOther
    BY <2>3, ReadOtherInOrder DEF ReadOther, Reading, Calling, senderVars
  <2>4. CASE FinishThrows  BY <2>4, FinishThrowsNever
  <2>5. CASE FinishMessage  BY <2>5, FinishMessageInOrder DEF Promise!Next
  <2>6. CASE FinishDico
    BY <2>6, FinishDicoInOrder DEF FinishDico, Finished, senderVars
  <2> QED  BY <1>4, <2>1, <2>2, <2>3, <2>4, <2>5, <2>6 DEF Decode
<1>5. CASE ApplyDico  BY <1>5, ApplyDicoInOrder DEF ApplyDico, senderVars
<1>6. CASE Abandon  BY <1>6, AbandonNever
<1> QED  BY <1>1, <1>2, <1>3, <1>4, <1>5, <1>6 DEF Next

(* An application within the contract has every message accepted that      *)
(* encode() wrote: no call of decode() throws or dies (Codec::decode,      *)
(* Serializer::decode), if no message is an item of itself.                *)
THEOREM EncodedIsAccepted ==
  ASSUME Careless = {}, NoneOfItself PROVE Spec => []AcceptsEncoded
<1>1. Contract  BY DEF Contract
<1>2. ContractInv /\ [Next]_vars => ContractInv'  BY <1>1, ContractStep
<1>3. ContractInv => AcceptsEncoded  BY DEF ContractInv
<1> QED  BY <1>2, <1>3, ContractInit, PTL DEF Spec

(* When all that was sent is read, the two sides have the same dictionary  *)
(* (Serializer::msgToDico, Serializer::decode with its dictionary).        *)
THEOREM SidesInSync ==
  ASSUME Careless = {}, NoneOfItself PROVE Spec => []InSync
<1>1. Contract  BY DEF Contract
<1>2. ContractInv /\ [Next]_vars => ContractInv'  BY <1>1, ContractStep
<1>3. ContractInv => InSync
  <2> SUFFICES ASSUME ContractInv, handed, pos = Len(inbox), busy = "no", ~due
               PROVE  rdico = announced
    BY DEF InSync
  <2>1. PICK N, R, M, Q : Marked(N, R, M, Q)  BY DEF ContractInv
  <2> QED  BY <2>1 DEF Marked, Caught, Ahead
<1> QED  BY <1>2, <1>3, ContractInit, PTL DEF Spec

(* Within the contract a pair of Serializers implements Delivery, its      *)
(* fairness apart: the messages decoded are those encoded, each once, in   *)
(* the order they were encoded in, with the dictionary they were written   *)
(* with (Serializer::encode, Serializer::decode).                          *)
THEOREM DeliversInOrder ==
  ASSUME Careless = {}, NoneOfItself
  PROVE  Spec => Promise!Init /\ [][Promise!Next]_<<sent, got>>
<1>1. Contract  BY DEF Contract
<1>2. ContractInv /\ [Next]_vars => ContractInv' /\ [Promise!Next]_<<sent, got>>
  BY <1>1, ContractStep
<1>3. Init => Promise!Init  BY DEF Init, Promise!Init
<1> QED  BY <1>2, <1>3, ContractInit, PTL DEF Spec
=============================================================================
