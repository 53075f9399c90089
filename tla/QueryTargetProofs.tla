--------------------------- MODULE QueryTargetProofs ---------------------------
(***************************************************************************)
(* Proofs about the targets of requests, for names and commands of any     *)
(* length: what boost::url escapes a server gets back, and each parameter  *)
(* is found where it was put.                                              *)
(***************************************************************************)
EXTENDS QueryTarget, SequenceLemmas

(* All that a target is made of.                                           *)
Alphabet == Chars \cup Names \cup Precision

(* What the digits of an escape stand for.                                 *)
Unescaped(digits) == CHOOSE c \in DOMAIN Escapes : Escapes[c] = digits

(* Every character that needs an escape has one of its own, and none of    *)
(* the digits is the sign that starts an escape.                           *)
LEMMA EscapesProperties ==
    /\ DOMAIN Escapes = {" ", "%", "#"}
    /\ Escapes[" "] = "20" /\ Escapes["%"] = "25" /\ Escapes["#"] = "23"
    /\ "%" \notin Digits
    /\ \A c \in DOMAIN Escapes : Escapes[c] \in Digits
    /\ \A c \in DOMAIN Escapes : Unescaped(Escapes[c]) = c
    /\ \A d \in Digits : Unescaped(d) \in Chars
<1>1. DOMAIN Escapes = {" ", "%", "#"}
  BY DEF Escapes
<1>2. Escapes[" "] = "20" /\ Escapes["%"] = "25" /\ Escapes["#"] = "23"
  BY DEF Escapes
<1>3. \A b, c \in DOMAIN Escapes : Escapes[b] = Escapes[c] => b = c
  BY <1>1, <1>2
<1>4. ASSUME NEW c \in DOMAIN Escapes
      PROVE  Unescaped(Escapes[c]) = c
  BY <1>3 DEF Unescaped
<1>5. ASSUME NEW d \in Digits
      PROVE  Unescaped(d) \in Chars
  <2>1. \E b \in DOMAIN Escapes : Escapes[b] = d
    BY <1>1, <1>2 DEF Digits
  <2> QED BY <2>1 DEF Chars, Unescaped
<1> QED BY <1>1, <1>2, <1>4, <1>5 DEF Digits

-----------------------------------------------------------------------------
(* Encoding.                                                               *)

(* A character becomes a text that does not end with a percent sign and    *)
(* has nothing in it but the character, percent signs and digits.          *)
LEMMA EscapeProperties ==
    ASSUME NEW c \in Alphabet
    PROVE  /\ Escape(c) \in Seq(Alphabet) /\ Escape(c) # <<>>
           /\ Escape(c)[Len(Escape(c))] # "%"
           /\ Range(Escape(c)) \subseteq {c, "%"} \cup Digits
<1>1. CASE c \in DOMAIN Escapes
  <2>1. Escape(c) = <<"%", Escapes[c]>> /\ Escapes[c] \in Digits /\ "%" \in Alphabet /\ Digits \subseteq Alphabet
    BY <1>1, EscapesProperties DEF Escape, Alphabet, Chars
  <2>2. \A d \in Digits : /\ <<"%", d>> \in Seq(Alphabet) /\ <<"%", d>> # <<>>
                          /\ Len(<<"%", d>>) = 2 /\ <<"%", d>>[2] = d
                          /\ Range(<<"%", d>>) = {"%", d}
    <3>1. \A d : /\ Len(<<"%", d>>) = 2 /\ <<"%", d>>[2] = d /\ <<"%", d>> # <<>>
                 /\ Range(<<"%", d>>) = {"%", d}
      BY DEF Range
    <3> QED BY <2>1, <3>1
  <2>3. PICK d \in Digits : Escape(c) = <<"%", d>>
    BY <2>1
  <2> DEFINE e == <<"%", d>>
  <2>4. /\ e \in Seq(Alphabet) /\ e # <<>> /\ Len(e) = 2 /\ e[2] = d /\ Range(e) = {"%", d}
        /\ Escape(c) = e
    BY <2>2, <2>3
  <2>5. d # "%"
    BY EscapesProperties
  <2> HIDE DEF e
  <2> QED BY <2>4, <2>5
<1>2. CASE c \notin DOMAIN Escapes
  <2>1. Escape(c) = <<c>> /\ c # "%"
    BY <1>2, EscapesProperties DEF Escape
  <2> QED BY <2>1 DEF Range
<1> QED BY <1>1, <1>2

(* The pieces of which an escaped text is put together.                    *)
EscapedPieces(text) == [i \in DOMAIN text |-> Escape(text[i])]

(* They are texts, one for each character.                                 *)
LEMMA EscapedPiecesType ==
    ASSUME NEW text \in Seq(Alphabet)
    PROVE  /\ EscapedPieces(text) \in Seq(Seq(Alphabet))
           /\ Len(EscapedPieces(text)) = Len(text)
           /\ \A i \in 1 .. Len(text) : EscapedPieces(text)[i] = Escape(text[i])
<1>1. PICK n \in Nat : Len(text) = n /\ DOMAIN text = 1 .. n
  OBVIOUS
<1>2. \A i \in 1 .. n : Escape(text[i]) \in Seq(Alphabet)
  BY <1>1, EscapeProperties
<1> DEFINE e(i) == Escape(text[i])
<1>3. EscapedPieces(text) = [i \in 1 .. n |-> e(i)]
  BY <1>1 DEF EscapedPieces
<1>4. \A i \in 1 .. n : e(i) \in Seq(Alphabet)
  BY <1>2
<1> HIDE DEF e
<1>5. /\ EscapedPieces(text) \in Seq(Seq(Alphabet)) /\ Len(EscapedPieces(text)) = n
      /\ \A i \in 1 .. n : EscapedPieces(text)[i] = e(i)
  BY <1>3, <1>4
<1> QED BY <1>1, <1>5 DEF e

(* An escaped text is a text.                                              *)
LEMMA SetQueryType ==
    ASSUME NEW text \in Seq(Alphabet)
    PROVE  SetQuery(text) \in Seq(Alphabet)
<1>1. SetQuery(text) = FlattenSeq(EscapedPieces(text))
  BY DEF SetQuery, EscapedPieces
<1> QED BY <1>1, EscapedPiecesType, FlattenType

(* Texts are escaped one after the other.                                  *)
LEMMA SetQueryConcat ==
    ASSUME NEW a \in Seq(Alphabet), NEW b \in Seq(Alphabet)
    PROVE  SetQuery(a \o b) = SetQuery(a) \o SetQuery(b)
<1> DEFINE p == EscapedPieces(a)
           q == EscapedPieces(b)
           ab == a \o b
           r == EscapedPieces(ab)
<1>1. /\ p \in Seq(Seq(Alphabet)) /\ Len(p) = Len(a) /\ \A i \in 1 .. Len(a) : p[i] = Escape(a[i])
      /\ q \in Seq(Seq(Alphabet)) /\ Len(q) = Len(b) /\ \A i \in 1 .. Len(b) : q[i] = Escape(b[i])
  BY EscapedPiecesType
<1>2. /\ ab \in Seq(Alphabet) /\ Len(ab) = Len(a) + Len(b)
      /\ Len(a) \in Nat /\ Len(b) \in Nat
      /\ \A i \in 1 .. Len(a) : ab[i] = a[i]
      /\ \A i \in 1 .. Len(b) : ab[Len(a) + i] = b[i]
  OBVIOUS
<1>3. /\ r \in Seq(Seq(Alphabet)) /\ Len(r) = Len(ab)
      /\ \A i \in 1 .. Len(ab) : r[i] = Escape(ab[i])
  <2> HIDE DEF ab
  <2> QED BY <1>2, EscapedPiecesType
<1>4. FlattenSeq(p \o q) = FlattenSeq(p) \o FlattenSeq(q)
  BY <1>1, FlattenConcat
<1> HIDE DEF p, q, r, ab
<1>5. r = p \o q
  <2>1. \A i \in 1 .. Len(p) : r[i] = p[i]
    BY <1>1, <1>2, <1>3
  <2>2. \A i \in 1 .. Len(q) : r[Len(p) + i] = q[i]
    <3> SUFFICES ASSUME NEW i \in 1 .. Len(b)
                 PROVE  r[Len(a) + i] = q[i]
      BY <1>1
    <3>1. Len(a) + i \in 1 .. Len(ab)
      BY <1>2
    <3> QED BY <1>1, <1>2, <1>3, <3>1
  <2>3. Len(r) = Len(p) + Len(q)
    BY <1>1, <1>2, <1>3
  <2> QED BY <1>1, <1>3, <2>1, <2>2, <2>3, IsConcat
<1> QED BY <1>4, <1>5 DEF SetQuery, EscapedPieces, p, q, r, ab

(* A text of one character is escaped as that character is.                *)
LEMMA SetQueryOne ==
    ASSUME NEW c \in Alphabet
    PROVE  SetQuery(<<c>>) = Escape(c)
<1>1. <<c>> \in Seq(Alphabet) /\ Len(<<c>>) = 1 /\ <<c>>[1] = c
  OBVIOUS
<1>2. EscapedPieces(<<c>>) = <<Escape(c)>>
  <2> DEFINE p == EscapedPieces(<<c>>)
  <2>1. /\ p \in Seq(Seq(Alphabet)) /\ Len(p) = Len(<<c>>)
        /\ \A i \in 1 .. Len(<<c>>) : p[i] = Escape(<<c>>[i])
    BY Zenon, <1>1, EscapedPiecesType
  <2> HIDE DEF p
  <2>2. Len(p) = 1 /\ p[1] = Escape(c)
    BY <1>1, <2>1
  <2>3. p = <<Escape(c)>>
    BY <2>1, <2>2
  <2> QED BY <2>3 DEF p
<1>3. FlattenSeq(<<Escape(c)>>) = Escape(c)
  BY EscapeProperties, FlattenOne
<1> QED BY <1>2, <1>3 DEF SetQuery, EscapedPieces

-----------------------------------------------------------------------------
(* Decoding.                                                               *)

(* What the i-th character of a text becomes.                              *)
Decoded(text, i) ==
    IF IsEscape(text, i) THEN <<Unescaped(text[i + 1])>>
    ELSE IF IsEscape(text, i - 1) THEN <<>>
    ELSE <<text[i]>>

(* The pieces of which a decoded text is put together.                     *)
DecodedPieces(text) == [i \in DOMAIN text |-> Decoded(text, i)]

(* They are texts, one for each character.                                 *)
LEMMA DecodedPiecesType ==
    ASSUME NEW text \in Seq(Alphabet)
    PROVE  /\ DecodedPieces(text) \in Seq(Seq(Alphabet))
           /\ Len(DecodedPieces(text)) = Len(text)
           /\ \A i \in 1 .. Len(text) : DecodedPieces(text)[i] = Decoded(text, i)
<1>1. PICK n \in Nat : Len(text) = n /\ DOMAIN text = 1 .. n
  OBVIOUS
<1>2. ASSUME NEW i \in 1 .. n
      PROVE  Decoded(text, i) \in Seq(Alphabet)
  <2>1. CASE IsEscape(text, i)
    <3>1. text[i + 1] \in Digits
      BY <2>1 DEF IsEscape
    <3>2. Unescaped(text[i + 1]) \in Alphabet
      BY <3>1, EscapesProperties DEF Alphabet
    <3> QED BY <2>1, <3>2 DEF Decoded
  <2>2. CASE ~IsEscape(text, i)
    <3>1. text[i] \in Alphabet
      BY <1>1
    <3>2. CASE IsEscape(text, i - 1)
      <4>1. Decoded(text, i) = <<>>
        BY <2>2, <3>2 DEF Decoded
      <4> QED BY <4>1
    <3>3. CASE ~IsEscape(text, i - 1)
      <4>1. Decoded(text, i) = <<text[i]>>
        BY <2>2, <3>3 DEF Decoded
      <4> QED BY <3>1, <4>1
    <3> QED BY <3>2, <3>3
  <2> QED BY <2>1, <2>2
<1> DEFINE d(i) == Decoded(text, i)
<1>3. DecodedPieces(text) = [i \in 1 .. n |-> d(i)]
  BY <1>1 DEF DecodedPieces
<1>4. \A i \in 1 .. n : d(i) \in Seq(Alphabet)
  BY <1>2
<1> HIDE DEF d
<1>5. /\ DecodedPieces(text) \in Seq(Seq(Alphabet)) /\ Len(DecodedPieces(text)) = n
      /\ \A i \in 1 .. n : DecodedPieces(text)[i] = d(i)
  BY <1>3, <1>4
<1> QED BY <1>1, <1>5 DEF d

(* Decode puts those pieces together.                                      *)
LEMMA DecodeIs == \A text : Decode(text) = FlattenSeq(DecodedPieces(text))
BY DEF Decode, DecodedPieces, Decoded, Unescaped

(* A text whose end is not the start of an escape is decoded by itself,    *)
(* whatever follows it.                                                    *)
LEMMA DecodeConcat ==
    ASSUME NEW a \in Seq(Alphabet), NEW b \in Seq(Alphabet),
           a = <<>> \/ a[Len(a)] # "%"
    PROVE  Decode(a \o b) = Decode(a) \o Decode(b)
<1> DEFINE p == DecodedPieces(a)
           q == DecodedPieces(b)
           ab == a \o b
           r == DecodedPieces(ab)
<1>1. /\ p \in Seq(Seq(Alphabet)) /\ Len(p) = Len(a) /\ \A i \in 1 .. Len(a) : p[i] = Decoded(a, i)
      /\ q \in Seq(Seq(Alphabet)) /\ Len(q) = Len(b) /\ \A i \in 1 .. Len(b) : q[i] = Decoded(b, i)
  BY DecodedPiecesType
<1>2. /\ ab \in Seq(Alphabet) /\ Len(ab) = Len(a) + Len(b)
      /\ Len(a) \in Nat /\ Len(b) \in Nat
      /\ \A i \in 1 .. Len(a) : ab[i] = a[i]
      /\ \A i \in 1 .. Len(b) : ab[Len(a) + i] = b[i]
  OBVIOUS
<1>3. /\ r \in Seq(Seq(Alphabet)) /\ Len(r) = Len(a) + Len(b)
      /\ \A i \in 1 .. Len(a) + Len(b) : r[i] = Decoded(ab, i)
  BY <1>2, DecodedPiecesType
<1>4. FlattenSeq(p \o q) = FlattenSeq(p) \o FlattenSeq(q)
  BY <1>1, FlattenConcat
<1> HIDE DEF p, q, r, ab
<1>5. Len(a) > 0 => a[Len(a)] # "%"
  OBVIOUS
<1>6. \A i \in 0 .. Len(a) : IsEscape(ab, i) <=> IsEscape(a, i)
  BY <1>2, <1>5 DEF IsEscape
<1>7. \A i \in 1 .. Len(b) : IsEscape(ab, Len(a) + i) <=> IsEscape(b, i)
  BY SMTT(30), <1>2, <1>5 DEF IsEscape
<1>8. ~IsEscape(b, 0) /\ ~IsEscape(ab, Len(a))
  BY <1>2, <1>5, <1>6 DEF IsEscape
<1>9. \A i \in 1 .. Len(a) : Decoded(ab, i) = Decoded(a, i)
  <2> SUFFICES ASSUME NEW i \in 1 .. Len(a)
               PROVE  Decoded(ab, i) = Decoded(a, i)
    OBVIOUS
  <2>1. (IsEscape(ab, i) <=> IsEscape(a, i)) /\ (IsEscape(ab, i - 1) <=> IsEscape(a, i - 1))
    BY <1>2, <1>6
  <2>2. IsEscape(a, i) => ab[i + 1] = a[i + 1]
    BY <1>2 DEF IsEscape
  <2>3. ab[i] = a[i]
    BY <1>2
  <2> QED BY <2>1, <2>2, <2>3 DEF Decoded
<1>10. \A i \in 1 .. Len(b) : Decoded(ab, Len(a) + i) = Decoded(b, i)
  <2> SUFFICES ASSUME NEW i \in 1 .. Len(b)
               PROVE  Decoded(ab, Len(a) + i) = Decoded(b, i)
    OBVIOUS
  <2> DEFINE j == Len(a) + i
  <2>1. IsEscape(ab, j) <=> IsEscape(b, i)
    BY <1>7
  <2>2. IsEscape(ab, j - 1) <=> IsEscape(b, i - 1)
    <3>1. CASE i = 1
      <4>1. j - 1 = Len(a) /\ i - 1 = 0
        BY <1>2, <3>1
      <4> QED BY <1>8, <4>1
    <3>2. CASE i # 1
      <4>1. i - 1 \in 1 .. Len(b) /\ j - 1 = Len(a) + (i - 1)
        BY <1>2, <3>2
      <4> QED BY <1>7, <4>1
    <3> QED BY <3>1, <3>2
  <2>3. IsEscape(b, i) => ab[j + 1] = b[i + 1]
    <3> SUFFICES ASSUME IsEscape(b, i)
                 PROVE  ab[j + 1] = b[i + 1]
      OBVIOUS
    <3>1. i + 1 \in 1 .. Len(b) /\ j + 1 = Len(a) + (i + 1)
      BY <1>2 DEF IsEscape
    <3> QED BY <1>2, <3>1
  <2>4. ab[j] = b[i]
    BY <1>2
  <2> HIDE DEF j
  <2>5. Decoded(ab, j) = Decoded(b, i)
    BY <2>1, <2>2, <2>3, <2>4 DEF Decoded
  <2> QED BY <2>5 DEF j
<1>11. r = p \o q
  <2>1. \A i \in 1 .. Len(p) : r[i] = p[i]
    BY <1>1, <1>2, <1>3, <1>9
  <2>2. \A i \in 1 .. Len(q) : r[Len(p) + i] = q[i]
    <3> SUFFICES ASSUME NEW i \in 1 .. Len(b)
                 PROVE  r[Len(a) + i] = q[i]
      BY <1>1
    <3>1. Len(a) + i \in 1 .. Len(a) + Len(b)
      BY <1>2
    <3> QED BY <1>1, <1>3, <1>10, <3>1
  <2>3. Len(r) = Len(p) + Len(q)
    BY <1>1, <1>3
  <2> QED BY <1>1, <1>3, <2>1, <2>2, <2>3, IsConcat
<1> QED BY <1>4, <1>11, DecodeIs DEF p, q, r, ab

(* What a character became is decoded to that character.                   *)
LEMMA DecodeEscape ==
    ASSUME NEW c \in Alphabet
    PROVE  Decode(Escape(c)) = <<c>>
<1>1. CASE c \in DOMAIN Escapes
  <2> DEFINE t == Escape(c)
  <2>1. /\ t = <<"%", Escapes[c]>> /\ t \in Seq(Alphabet)
        /\ Len(t) = 2 /\ t[1] = "%" /\ t[2] = Escapes[c] /\ t[2] \in Digits
        /\ Unescaped(t[2]) = c
    BY <1>1, EscapesProperties, EscapeProperties DEF Escape
  <2> HIDE DEF t
  <2>2. Decoded(t, 1) = <<c>>
    <3>1. IsEscape(t, 1)
      BY <2>1 DEF IsEscape
    <3>2. 1 + 1 = 2
      OBVIOUS
    <3> QED BY <2>1, <3>1, <3>2 DEF Decoded
  <2>3. Decoded(t, 2) = <<>>
    <3>1. IsEscape(t, 2 - 1) /\ ~IsEscape(t, 2)
      BY <2>1 DEF IsEscape
    <3> QED BY <3>1 DEF Decoded
  <2>4. DecodedPieces(t) = << <<c>> >> \o << <<>> >>
    <3> DEFINE p == DecodedPieces(t)
    <3>1. /\ p \in Seq(Seq(Alphabet)) /\ Len(p) = Len(t)
          /\ \A i \in 1 .. Len(t) : p[i] = Decoded(t, i)
      BY Zenon, <2>1, DecodedPiecesType
    <3> HIDE DEF p
    <3>2. Len(p) = 2 /\ p[1] = <<c>> /\ p[2] = <<>>
      <4>1. 1 \in 1 .. Len(t) /\ 2 \in 1 .. Len(t)
        BY <2>1
      <4> QED BY <2>1, <2>2, <2>3, <3>1, <4>1
    <3>3. p = << <<c>> >> \o << <<>> >>
      BY <3>1, <3>2
    <3> QED BY <3>3 DEF p
  <2>5. FlattenSeq(<< <<c>> >> \o << <<>> >>) = <<c>> \o <<>>
    <3>1. << <<c>> >> \in Seq(Seq(Alphabet)) /\ << <<>> >> \in Seq(Seq(Alphabet))
      OBVIOUS
    <3>2. FlattenSeq(<< <<c>> >>) = <<c>>
      <4>1. <<c>> \in Seq(Alphabet)
        OBVIOUS
      <4> QED BY <4>1, FlattenOne
    <3>3. FlattenSeq(<< <<>> >>) = <<>>
      <4>1. <<>> \in Seq(Alphabet)
        OBVIOUS
      <4> QED BY <4>1, FlattenOne
    <3> QED BY <3>1, <3>2, <3>3, FlattenConcat
  <2>6. <<c>> \o <<>> = <<c>>
    OBVIOUS
  <2> QED BY <2>4, <2>5, <2>6, DecodeIs DEF t
<1>2. CASE c \notin DOMAIN Escapes
  <2>1. Escape(c) = <<c>> /\ <<c>> \in Seq(Alphabet) /\ Len(<<c>>) = 1
    BY <1>2 DEF Escape
  <2>2. Decoded(<<c>>, 1) = <<c>>
    BY <2>1 DEF Decoded, IsEscape
  <2>3. DecodedPieces(<<c>>) = << <<c>> >>
    <3> DEFINE p == DecodedPieces(<<c>>)
    <3>1. /\ p \in Seq(Seq(Alphabet)) /\ Len(p) = Len(<<c>>)
          /\ \A i \in 1 .. Len(<<c>>) : p[i] = Decoded(<<c>>, i)
      BY Zenon, <2>1, DecodedPiecesType
    <3> HIDE DEF p
    <3>2. Len(p) = 1 /\ p[1] = <<c>>
      BY <2>1, <2>2, <3>1
    <3>3. p = << <<c>> >>
      BY <3>1, <3>2
    <3> QED BY <3>3 DEF p
  <2>4. FlattenSeq(<< <<c>> >>) = <<c>>
    BY <2>1, FlattenOne
  <2> QED BY <2>1, <2>3, <2>4, DecodeIs
<1> QED BY <1>1, <1>2

(* What was escaped is what the server decodes; and escaping adds nothing  *)
(* but escapes.                                                            *)
LEMMA DecodeSetQuery ==
    ASSUME NEW v \in Seq(Alphabet)
    PROVE  /\ Decode(SetQuery(v)) = v
           /\ Range(SetQuery(v)) \subseteq Range(v) \cup {"%"} \cup Digits
<1> DEFINE pre(m) == SubSeq(v, 1, m)
           t(m) == SetQuery(pre(m))
           Good(m) == /\ t(m) = <<>> \/ t(m)[Len(t(m))] # "%"
                      /\ Decode(t(m)) = pre(m)
                      /\ Range(t(m)) \subseteq Range(v) \cup {"%"} \cup Digits
           T == {m \in 0 .. Len(v) : Good(m)}
<1>1. Len(v) \in Nat /\ DOMAIN v = 1 .. Len(v)
  OBVIOUS
<1>2. \A m \in 0 .. Len(v) : pre(m) \in Seq(Alphabet)
  BY <1>1
<1>3. pre(0) = <<>> /\ pre(Len(v)) = v
  BY <1>1
<1>4. \A m \in 1 .. Len(v) : pre(m) = pre(m - 1) \o <<v[m]>> /\ v[m] \in Alphabet /\ v[m] \in Range(v)
  <2> SUFFICES ASSUME NEW m \in 1 .. Len(v)
               PROVE  pre(m) = pre(m - 1) \o <<v[m]>> /\ v[m] \in Alphabet /\ v[m] \in Range(v)
    OBVIOUS
  <2>1. v[m] \in Alphabet /\ v[m] \in Range(v)
    BY <1>1 DEF Range
  <2>2. 1 \in 1 .. Len(v) /\ m \in 1 .. Len(v)
    BY <1>1
  <2> QED BY <2>1, <2>2, SubSeqRecursiveSecond
<1> HIDE DEF pre
<1>5. 0 \in T
  <2>1. SetQuery(<<>>) = <<>>
    <3>1. EscapedPieces(<<>>) = <<>>
      BY DEF EscapedPieces
    <3> QED BY <3>1, FlattenEmpty DEF SetQuery, EscapedPieces
  <2>2. Decode(<<>>) = <<>>
    <3>1. DecodedPieces(<<>>) = <<>>
      BY DEF DecodedPieces
    <3> QED BY <3>1, FlattenEmpty, DecodeIs
  <2>3. Range(<<>>) = {}
    BY DEF Range
  <2> QED BY <1>1, <1>3, <2>1, <2>2, <2>3
<1>6. ASSUME NEW m \in 1 .. Len(v), m - 1 \in T
      PROVE  m \in T
  <2> DEFINE c == v[m]
             a == t(m - 1)
             e == Escape(c)
  <2>1. /\ a = <<>> \/ a[Len(a)] # "%"
        /\ Decode(a) = pre(m - 1)
        /\ Range(a) \subseteq Range(v) \cup {"%"} \cup Digits
    BY <1>6
  <2>2. c \in Alphabet /\ c \in Range(v) /\ pre(m) = pre(m - 1) \o <<c>> /\ pre(m - 1) \in Seq(Alphabet)
    <3>1. m - 1 \in 0 .. Len(v)
      BY <1>1
    <3> QED BY <1>2, <1>4, <3>1
  <2>3. a \in Seq(Alphabet)
    BY <2>2, SetQueryType
  <2>4. /\ e \in Seq(Alphabet) /\ e # <<>> /\ e[Len(e)] # "%"
        /\ Range(e) \subseteq {c, "%"} \cup Digits
        /\ Decode(e) = <<c>>
    BY <2>2, EscapeProperties, DecodeEscape
  <2>5. t(m) = a \o e
    <3>1. <<c>> \in Seq(Alphabet)
      BY <2>2
    <3>2. SetQuery(pre(m - 1) \o <<c>>) = SetQuery(pre(m - 1)) \o SetQuery(<<c>>)
      BY <2>2, <3>1, SetQueryConcat
    <3> QED BY <2>2, <3>2, SetQueryOne
  <2> HIDE DEF a, c, e, t
  <2>6. Decode(a \o e) = Decode(a) \o Decode(e)
    BY <2>1, <2>3, <2>4, DecodeConcat
  <2>7. a \o e # <<>> /\ (a \o e)[Len(a \o e)] # "%"
    BY <2>3, <2>4
  <2>8. Range(a \o e) = Range(a) \cup Range(e)
    BY <2>3, <2>4, RangeConcatenation
  <2>9. Good(m)
    BY <2>1, <2>2, <2>4, <2>5, <2>6, <2>7, <2>8
  <2> QED BY <2>9
<1> HIDE DEF T
<1>7. 0 .. Len(v) \subseteq T
  BY <1>1, <1>5, <1>6, InductionUpTo
<1>8. Good(Len(v))
  BY <1>1, <1>7 DEF T
<1> QED BY <1>3, <1>8
-----------------------------------------------------------------------------
(* Finding a parameter.                                                    *)

(* The parameter `name` of text begins at s and ends before e, and the     *)
(* name occurs nowhere else.                                               *)
StandsAt(text, name, s, e) ==
    /\ s \in 1 .. Len(text) - 1 /\ e \in s + 2 .. Len(text) + 1
    /\ text[s + 1] = EQUALS
    /\ s = 1 \/ text[s - 1] = AMPERSAND
    /\ e = Len(text) + 1 \/ text[e] = AMPERSAND
    /\ \A i \in s + 2 .. e - 1 : text[i] # AMPERSAND
    /\ \A i \in 1 .. Len(text) : text[i] = name <=> i = s

(* The parameter `name` of text has this value.                            *)
Has(text, name, value) ==
    \E s, e \in Nat : StandsAt(text, name, s, e) /\ value = SubSeq(text, s + 2, e - 1)

(* The least of a set of numbers, when it is known.                        *)
LEMMA MinOf ==
    ASSUME NEW T \in SUBSET Nat, NEW m \in T, \A x \in T : m <= x
    PROVE  Min(T) = m
<1>1. \A x \in T : (\A y \in T : x <= y) => x = m
  OBVIOUS
<1> QED BY <1>1 DEF Min

(* Value finds the parameter that a text has and decodes it.               *)
LEMMA ValueFound ==
    ASSUME NEW text \in Seq(Alphabet), NEW name \in Names, NEW value, Has(text, name, value)
    PROVE  Value(text, name) = Decode(value)
<1>1. PICK s \in Nat, e \in Nat : StandsAt(text, name, s, e) /\ value = SubSeq(text, s + 2, e - 1)
  BY DEF Has
<1> DEFINE starts == {i \in 1 .. Len(text) - 1 :
                        /\ text[i] = name /\ text[i + 1] = EQUALS
                        /\ i = 1 \/ text[i - 1] = AMPERSAND}
           Ending(start) == {i \in start .. Len(text) : text[i] = AMPERSAND} \cup {Len(text) + 1}
<1>2. Value(text, name) =
          IF starts = {} THEN Missing
          ELSE Decode(SubSeq(text, Min(starts) + 2, Min(Ending(Min(starts))) - 1))
  BY DEF Value
<1>3. Len(text) \in Nat
  OBVIOUS
<1>4. starts = {s}
  BY <1>1, <1>3 DEF StandsAt
<1>5. Min({s}) = s
  BY MinOf
<1>6. Min(Ending(s)) = e
  <2>1. text[s] # AMPERSAND /\ text[s + 1] # AMPERSAND
    <3>1. text[s] = name
      BY <1>1, <1>3 DEF StandsAt
    <3> QED BY <1>1, <3>1 DEF StandsAt, Names, AMPERSAND, EQUALS
  <2>2. Ending(s) \in SUBSET Nat
    BY <1>3
  <2>3. e \in Ending(s)
    <3>1. e \in s + 2 .. Len(text) + 1 /\ (e = Len(text) + 1 \/ text[e] = AMPERSAND)
      BY <1>1 DEF StandsAt
    <3>2. e = Len(text) + 1 \/ e \in s .. Len(text)
      BY <1>3, <3>1
    <3> QED BY <3>1, <3>2
  <2>4. ASSUME NEW x \in Ending(s)
        PROVE  e <= x
    <3>1. x \in Nat
      BY <1>3
    <3>2. CASE x = Len(text) + 1
      BY <1>1, <1>3, <3>2 DEF StandsAt
    <3>3. CASE x # Len(text) + 1
      <4>1. x \in s .. Len(text) /\ text[x] = AMPERSAND
        BY <3>3
      <4>2. x # s /\ x # s + 1
        BY <2>1, <4>1
      <4>3. x \in s + 2 .. Len(text)
        BY <4>1, <4>2
      <4>4. x \notin s + 2 .. e - 1
        BY <1>1, <4>1 DEF StandsAt
      <4>5. e \in Nat
        OBVIOUS
      <4> QED BY <1>3, <4>3, <4>4, <4>5
    <3> QED BY <3>2, <3>3
  <2> HIDE DEF Ending
  <2> QED BY <2>2, <2>3, <2>4, MinOf
<1> HIDE DEF starts, Ending
<1> QED BY <1>1, <1>2, <1>4, <1>5, <1>6

(* It finds nothing where the name does not occur.                         *)
LEMMA ValueMissing ==
    ASSUME NEW text \in Seq(Alphabet), NEW name, name \notin Range(text)
    PROVE  Value(text, name) = Missing
<1>1. \A i \in 1 .. Len(text) - 1 : text[i] # name
  BY DEF Range
<1> QED BY <1>1 DEF Value

(* A parameter by itself, and between others.                              *)
Joined(a, b) == a \o <<AMPERSAND>> \o b

(* Parts of two texts are the same when their characters are.              *)
LEMMA SameSubSeq ==
    ASSUME NEW S, NEW t \in Seq(S), NEW a \in Seq(S), NEW d \in Nat,
           NEW s \in Nat \ {0}, NEW e \in Nat, e <= Len(a), d + e <= Len(t),
           \A i \in s .. e : t[d + i] = a[i]
    PROVE  SubSeq(t, d + s, d + e) = SubSeq(a, s, e)
<1> DEFINE x == SubSeq(t, d + s, d + e)
           y == SubSeq(a, s, e)
           n == IF s <= e THEN e - s + 1 ELSE 0
<1>1. Len(t) \in Nat /\ Len(a) \in Nat /\ n \in Nat
  OBVIOUS
<1>2. x \in Seq(S) /\ Len(x) = n /\ \A i \in 1 .. n : x[i] = t[d + s + i - 1]
  OBVIOUS
<1>3. y \in Seq(S) /\ Len(y) = n /\ \A i \in 1 .. n : y[i] = a[s + i - 1]
  OBVIOUS
<1> HIDE DEF x, y
<1>4. ASSUME NEW i \in 1 .. n
      PROVE  x[i] = y[i]
  <2>1. s + i - 1 \in s .. e /\ d + s + i - 1 = d + (s + i - 1)
    OBVIOUS
  <2> QED BY <1>2, <1>3, <2>1
<1> HIDE DEF n
<1> QED BY <1>2, <1>3, <1>4, SeqEqual DEF x, y

(* A parameter by itself has its value.                                    *)
LEMMA ParamHas ==
    ASSUME NEW name \in Names, NEW value \in Seq(Alphabet),
           name \notin Range(value), AMPERSAND \notin Range(value)
    PROVE  /\ Param(name, value) \in Seq(Alphabet)
           /\ Has(Param(name, value), name, value)
           /\ Range(Param(name, value)) = {name, EQUALS} \cup Range(value)
<1> DEFINE t == Param(name, value)
<1>1. name \in Alphabet /\ EQUALS \in Alphabet /\ name # EQUALS
  BY DEF Alphabet, Chars, Names, EQUALS
<1>2. <<name, EQUALS>> \in Seq(Alphabet) /\ Len(<<name, EQUALS>>) = 2 /\ Len(value) \in Nat
  BY <1>1
<1>3. /\ t \in Seq(Alphabet) /\ Len(t) = Len(value) + 2
      /\ t[1] = name /\ t[2] = EQUALS /\ \A i \in 1 .. Len(value) : t[i + 2] = value[i]
  BY <1>2 DEF Param
<1>4. Range(t) = {name, EQUALS} \cup Range(value)
  <2> DEFINE h == <<name, EQUALS>>
  <2>1. t = h \o value /\ h \in Seq(Alphabet)
    BY <1>2 DEF Param
  <2> HIDE DEF h
  <2>2. Range(h \o value) = Range(h) \cup Range(value)
    BY <2>1, RangeConcatenation
  <2>3. Range(h) = {name, EQUALS}
    BY DEF Range, h
  <2> QED BY <2>1, <2>2, <2>3
<1> HIDE DEF t
<1>5. StandsAt(t, name, 1, Len(t) + 1)
  <2>1. \A i \in 3 .. Len(t) : t[i] \in Range(value)
    <3> SUFFICES ASSUME NEW i \in 3 .. Len(t)
                 PROVE  t[i] \in Range(value)
      OBVIOUS
    <3>1. i - 2 \in 1 .. Len(value) /\ (i - 2) + 2 = i
      BY <1>2, <1>3
    <3>2. t[i] = value[i - 2]
      BY <1>3, <3>1
    <3> QED BY <3>1, <3>2 DEF Range
  <2>2. \A i \in 3 .. Len(t) : t[i] # name /\ t[i] # AMPERSAND
    BY <2>1
  <2>3. \A i \in 1 .. Len(t) : i = 1 \/ i = 2 \/ i \in 3 .. Len(t)
    BY <1>2, <1>3
  <2>4. \A i \in 1 .. Len(t) : t[i] = name <=> i = 1
    BY <1>1, <1>3, <2>2, <2>3
  <2>5. /\ 1 \in 1 .. Len(t) - 1 /\ Len(t) + 1 \in 1 + 2 .. Len(t) + 1
        /\ \A i \in 1 + 2 .. Len(t) + 1 - 1 : t[i] # AMPERSAND
        /\ t[1 + 1] = EQUALS
    BY <1>2, <1>3, <2>2
  <2> QED BY <2>4, <2>5 DEF StandsAt
<1>6. value = SubSeq(t, 1 + 2, Len(t) + 1 - 1)
  BY <1>2, <1>3
<1>7. 1 \in Nat /\ Len(t) + 1 \in Nat
  BY <1>2, <1>3
<1>8. Has(t, name, value)
  BY <1>5, <1>6, <1>7 DEF Has
<1> QED BY <1>3, <1>4, <1>8 DEF t

(* A parameter keeps its value when another that has a different name is   *)
(* put before or after it.                                                 *)
LEMMA JoinedHas ==
    ASSUME NEW a \in Seq(Alphabet), NEW b \in Seq(Alphabet), NEW name \in Names, NEW value
    PROVE  /\ Joined(a, b) \in Seq(Alphabet)
           /\ Range(Joined(a, b)) = Range(a) \cup {AMPERSAND} \cup Range(b)
           /\ Has(a, name, value) /\ name \notin Range(b) => Has(Joined(a, b), name, value)
           /\ Has(b, name, value) /\ name \notin Range(a) => Has(Joined(a, b), name, value)
<1> DEFINE t == Joined(a, b)
           k == Len(a)
           n == Len(b)
<1>1. AMPERSAND \in Alphabet /\ AMPERSAND \notin Names
  BY DEF Alphabet, Chars, Names, AMPERSAND
<1>2. <<AMPERSAND>> \in Seq(Alphabet) /\ Range(<<AMPERSAND>>) = {AMPERSAND}
  BY <1>1 DEF Range
<1>3. a \o <<AMPERSAND>> \in Seq(Alphabet) /\ Range(a \o <<AMPERSAND>>) = Range(a) \cup {AMPERSAND}
  <2> DEFINE amp == <<AMPERSAND>>
  <2>1. amp \in Seq(Alphabet) /\ Range(amp) = {AMPERSAND}
    BY <1>2
  <2> HIDE DEF amp
  <2>2. a \o amp \in Seq(Alphabet) /\ Range(a \o amp) = Range(a) \cup Range(amp)
    BY <2>1, RangeConcatenation
  <2> QED BY <2>1, <2>2 DEF amp
<1>4. t \in Seq(Alphabet) /\ Range(t) = Range(a) \cup {AMPERSAND} \cup Range(b)
  <2> DEFINE c == a \o <<AMPERSAND>>
  <2>1. c \in Seq(Alphabet) /\ Range(c) = Range(a) \cup {AMPERSAND}
    BY <1>3
  <2> HIDE DEF c
  <2>2. c \o b \in Seq(Alphabet) /\ Range(c \o b) = Range(c) \cup Range(b)
    BY <2>1, RangeConcatenation
  <2> QED BY <2>1, <2>2 DEF c, Joined
<1>5. /\ k \in Nat /\ n \in Nat /\ Len(t) = k + 1 + n
      /\ \A i \in 1 .. k : t[i] = a[i]
      /\ t[k + 1] = AMPERSAND
      /\ \A i \in 1 .. n : t[k + 1 + i] = b[i]
  BY <1>1 DEF Joined
<1>a. k \in Nat /\ n \in Nat /\ Len(t) = k + 1 + n
  BY <1>5
<1>6. \A i \in 1 .. Len(t) : i \in 1 .. k \/ i = k + 1 \/ \E j \in 1 .. n : i = k + 1 + j
  <2> SUFFICES ASSUME NEW i \in 1 .. Len(t), i \notin 1 .. k, i # k + 1
               PROVE  \E j \in 1 .. n : i = k + 1 + j
    OBVIOUS
  <2>1. i - (k + 1) \in 1 .. n /\ i = k + 1 + (i - (k + 1))
    BY <1>5
  <2> QED BY <2>1
<1> HIDE DEF t
<1>7. ASSUME Has(a, name, value), name \notin Range(b)
      PROVE  Has(t, name, value)
  <2>1. PICK s \in Nat, e \in Nat : StandsAt(a, name, s, e) /\ value = SubSeq(a, s + 2, e - 1)
    BY <1>7 DEF Has
  <2>2. \A j \in 1 .. n : b[j] # name
    BY <1>7 DEF Range
  <2>3. /\ s \in 1 .. k - 1 /\ e \in s + 2 .. k + 1 /\ a[s + 1] = EQUALS
        /\ s = 1 \/ a[s - 1] = AMPERSAND
        /\ e = k + 1 \/ a[e] = AMPERSAND
        /\ \A i \in s + 2 .. e - 1 : a[i] # AMPERSAND
        /\ \A i \in 1 .. k : a[i] = name <=> i = s
    BY <2>1 DEF StandsAt
  <2>a. s \in 1 .. k - 1 /\ e \in s + 2 .. k + 1
    BY <2>3
  <2>4. s \in 1 .. Len(t) - 1 /\ e \in s + 2 .. Len(t) + 1
    BY <1>5, <2>3
  <2>5. t[s + 1] = EQUALS /\ (s = 1 \/ t[s - 1] = AMPERSAND) /\ t[e] = AMPERSAND
    BY SMTT(30), <1>5, <2>3
  <2>6. \A i \in s + 2 .. e - 1 : t[i] # AMPERSAND /\ t[i] = a[i]
    <3>1. \A i \in s + 2 .. e - 1 : i \in 1 .. k
      BY <1>5, <2>a
    <3> QED BY <1>5, <2>3, <3>1
  <2>7. \A i \in 1 .. Len(t) : t[i] = name <=> i = s
    <3> SUFFICES ASSUME NEW i \in 1 .. Len(t)
                 PROVE  t[i] = name <=> i = s
      OBVIOUS
    <3>1. CASE i \in 1 .. k
      BY <1>5, <2>3, <3>1
    <3>2. CASE i = k + 1
      BY <1>1, <1>5, <2>3, <3>2
    <3>3. CASE \E j \in 1 .. n : i = k + 1 + j
      BY <1>5, <2>2, <2>3, <3>3
    <3> QED BY <1>6, <3>1, <3>2, <3>3
  <2>8. StandsAt(t, name, s, e)
    BY <2>4, <2>5, <2>6, <2>7 DEF StandsAt
  <2>9. SubSeq(t, s + 2, e - 1) = SubSeq(a, s + 2, e - 1)
    <3>1. /\ s + 2 \in Nat \ {0} /\ e - 1 \in Nat /\ e - 1 <= k /\ 0 + (e - 1) <= Len(t)
          /\ 0 + (s + 2) = s + 2 /\ 0 + (e - 1) = e - 1
          /\ \A i \in s + 2 .. e - 1 : t[0 + i] = a[i]
      BY <1>5, <2>a, <2>6
    <3>2. SubSeq(t, 0 + (s + 2), 0 + (e - 1)) = SubSeq(a, s + 2, e - 1)
      BY <1>4, <3>1, SameSubSeq
    <3> QED BY <3>1, <3>2
  <2> QED BY <2>1, <2>8, <2>9 DEF Has
<1>8. ASSUME Has(b, name, value), name \notin Range(a)
      PROVE  Has(t, name, value)
  <2>1. PICK s \in Nat, e \in Nat : StandsAt(b, name, s, e) /\ value = SubSeq(b, s + 2, e - 1)
    BY <1>8 DEF Has
  <2>2. \A j \in 1 .. k : a[j] # name
    BY <1>8 DEF Range
  <2>3. /\ s \in 1 .. n - 1 /\ e \in s + 2 .. n + 1 /\ b[s + 1] = EQUALS
        /\ s = 1 \/ b[s - 1] = AMPERSAND
        /\ e = n + 1 \/ b[e] = AMPERSAND
        /\ \A i \in s + 2 .. e - 1 : b[i] # AMPERSAND
        /\ \A i \in 1 .. n : b[i] = name <=> i = s
    BY <2>1 DEF StandsAt
  <2>a. s \in 1 .. n - 1 /\ e \in s + 2 .. n + 1
    BY <2>3
  <2> DEFINE u == k + 1 + s
             f == k + 1 + e
  <2>4. u \in 1 .. Len(t) - 1 /\ f \in u + 2 .. Len(t) + 1 /\ u \in Nat /\ f \in Nat
    BY <1>5, <2>3
  <2>5. t[u + 1] = EQUALS
    <3>1. s + 1 \in 1 .. n /\ u + 1 = k + 1 + (s + 1)
      BY <1>5, <2>3
    <3> QED BY <1>5, <2>3, <3>1
  <2>6. t[u - 1] = AMPERSAND
    <3>1. CASE s = 1
      <4>1. u - 1 = k + 1
        BY <1>5, <3>1
      <4> QED BY <1>5, <4>1
    <3>2. CASE s # 1
      <4>1. s - 1 \in 1 .. n /\ u - 1 = k + 1 + (s - 1)
        BY <1>5, <2>3, <3>2
      <4> QED BY <1>5, <2>3, <3>2, <4>1
    <3> QED BY <3>1, <3>2
  <2>7. f = Len(t) + 1 \/ t[f] = AMPERSAND
    <3>1. CASE e = n + 1
      BY <1>5, <3>1
    <3>2. CASE e # n + 1
      <4>1. e \in 1 .. n
        BY <1>a, <2>a, <3>2
      <4> QED BY <1>5, <2>3, <3>2, <4>1
    <3> QED BY <3>1, <3>2
  <2>8. \A i \in s + 2 .. e - 1 : t[k + 1 + i] = b[i] /\ b[i] # AMPERSAND
    BY <1>5, <2>3
  <2>9. \A i \in u + 2 .. f - 1 : t[i] # AMPERSAND /\ t[i] = b[i - (k + 1)]
    <3> SUFFICES ASSUME NEW i \in u + 2 .. f - 1
                 PROVE  t[i] # AMPERSAND /\ t[i] = b[i - (k + 1)]
      OBVIOUS
    <3>1. i - (k + 1) \in s + 2 .. e - 1 /\ i = k + 1 + (i - (k + 1))
      BY <1>5, <2>3
    <3> QED BY <2>8, <3>1
  <2>10. \A i \in 1 .. Len(t) : t[i] = name <=> i = u
    <3> SUFFICES ASSUME NEW i \in 1 .. Len(t)
                 PROVE  t[i] = name <=> i = u
      OBVIOUS
    <3>1. CASE i \in 1 .. k
      BY SMTT(30), <1>5, <2>2, <2>3, <3>1
    <3>2. CASE i = k + 1
      BY <1>1, <1>5, <2>3, <3>2
    <3>3. CASE \E j \in 1 .. n : i = k + 1 + j
      <4>1. PICK j \in 1 .. n : i = k + 1 + j
        BY <3>3
      <4>2. t[i] = b[j]
        BY <1>5, <4>1
      <4>3. i = u <=> j = s
        BY <1>a, <2>a, <4>1
      <4> QED BY <2>3, <4>2, <4>3
    <3> QED BY <1>6, <3>1, <3>2, <3>3
  <2>11. StandsAt(t, name, u, f)
    <3> HIDE DEF u, f
    <3> QED BY <2>4, <2>5, <2>6, <2>7, <2>9, <2>10 DEF StandsAt
  <2>12. SubSeq(t, u + 2, f - 1) = SubSeq(b, s + 2, e - 1)
    <3> DEFINE d == k + 1
    <3>1. /\ d \in Nat /\ s + 2 \in Nat \ {0} /\ e - 1 \in Nat
          /\ e - 1 <= n /\ d + (e - 1) <= Len(t)
          /\ d + (s + 2) = u + 2 /\ d + (e - 1) = f - 1
          /\ \A i \in s + 2 .. e - 1 : t[d + i] = b[i]
      BY <1>5, <2>a, <2>8
    <3> HIDE DEF d, u, f
    <3>2. SubSeq(t, d + (s + 2), d + (e - 1)) = SubSeq(b, s + 2, e - 1)
      BY <1>4, <3>1, SameSubSeq
    <3> QED BY <3>1, <3>2
  <2> HIDE DEF u, f
  <2> QED BY <2>1, <2>4, <2>11, <2>12 DEF Has
<1> QED BY <1>4, <1>7, <1>8 DEF t
-----------------------------------------------------------------------------
(* What a target carries: a value for each of some names, and no other.    *)
Carries(t, names, meant) ==
    /\ t \in Seq(Alphabet)
    /\ \A name \in names : \E v : Has(t, name, v) /\ Decode(v) = meant[name]
    /\ \A name \in Names \ names : name \notin Range(t)

(* What a target carries is what arrives.                                  *)
LEMMA CarriesArrive ==
    ASSUME NEW t, NEW names \in SUBSET Names, NEW meant, Carries(t, names, meant)
    PROVE  \A name \in Names : Value(t, name) = IF name \in names THEN meant[name] ELSE Missing
<1> SUFFICES ASSUME NEW name \in Names
             PROVE  Value(t, name) = IF name \in names THEN meant[name] ELSE Missing
  OBVIOUS
<1>1. t \in Seq(Alphabet)
  BY DEF Carries
<1>2. CASE name \in names
  <2>1. PICK v : Has(t, name, v) /\ Decode(v) = meant[name]
    BY <1>2 DEF Carries
  <2>2. Value(t, name) = Decode(v)
    BY <1>1, <2>1, ValueFound
  <2> QED BY <1>2, <2>1, <2>2
<1>3. CASE name \notin names
  <2>1. name \notin Range(t)
    BY <1>3 DEF Carries
  <2> QED BY <1>1, <1>3, <2>1, ValueMissing
<1> QED BY <1>2, <1>3

(* Names of parameters and separators are not escaped.                     *)
LEMMA PlainStays ==
    ASSUME NEW c \in Names \cup {AMPERSAND, EQUALS}
    PROVE  c \in Alphabet /\ SetQuery(<<c>>) = <<c>>
<1>1. c \in Alphabet
  BY DEF Alphabet, Chars
<1>2. c \notin DOMAIN Escapes
  BY EscapesProperties DEF Names, AMPERSAND, EQUALS
<1>3. Escape(c) = <<c>>
  BY <1>2 DEF Escape
<1> QED BY <1>1, <1>3, SetQueryOne

(* A parameter without ampersands in its value carries just that.          *)
LEMMA ParamCarries ==
    ASSUME NEW name \in Names, NEW v \in Seq(Chars \cup Precision), Separable(v),
           NEW meant, meant[name] = v
    PROVE  /\ Param(name, v) \in Seq(Alphabet)
           /\ Carries(SetQuery(Param(name, v)), {name}, meant)
<1> DEFINE e == SetQuery(v)
           head == <<name, EQUALS>>
<1>0. name \in Alphabet /\ EQUALS \in Alphabet
  BY PlainStays
<1>1. v \in Seq(Alphabet) /\ head \in Seq(Alphabet)
  <2>1. Chars \cup Precision \subseteq Alphabet
    BY DEF Alphabet
  <2> QED BY <1>0, <2>1
<1>2. /\ e \in Seq(Alphabet) /\ Decode(e) = v
      /\ Range(e) \subseteq Range(v) \cup {"%"} \cup Digits
  BY <1>1, SetQueryType, DecodeSetQuery
<1>3. Range(v) \subseteq Chars \cup Precision /\ AMPERSAND \notin Range(v)
  BY DEF Separable, Range
<1>4. (Chars \cup Precision \cup {"%"} \cup Digits) \cap Names = {}
  BY EscapesProperties DEF Chars, Precision, Digits, Names, AMPERSAND, EQUALS
<1>5. AMPERSAND \notin {"%"} \cup Digits /\ EQUALS \notin Names
  BY DEF AMPERSAND, EQUALS, Digits, Names
<1>6. SetQuery(Param(name, v)) = Param(name, e)
  <2>1. SetQuery(head \o v) = SetQuery(head) \o e
    BY <1>1, SetQueryConcat
  <2>2. SetQuery(head) = head
    <3>1. <<name>> \in Seq(Alphabet) /\ <<EQUALS>> \in Seq(Alphabet)
      BY <1>0
    <3>2. SetQuery(<<name>> \o <<EQUALS>>) = SetQuery(<<name>>) \o SetQuery(<<EQUALS>>)
      BY <3>1, SetQueryConcat
    <3>3. SetQuery(<<name>>) = <<name>> /\ SetQuery(<<EQUALS>>) = <<EQUALS>>
      BY PlainStays
    <3>4. head = <<name>> \o <<EQUALS>>
      BY <1>0
    <3> QED BY <3>2, <3>3, <3>4
  <2> QED BY <2>1, <2>2 DEF Param
<1>7. head \o v \in Seq(Alphabet)
  BY <1>1
<1> HIDE DEF e, head
<1>8. /\ Param(name, e) \in Seq(Alphabet) /\ Has(Param(name, e), name, e)
      /\ Range(Param(name, e)) = {name, EQUALS} \cup Range(e)
  <2>1. name \notin Range(e) /\ AMPERSAND \notin Range(e)
    BY <1>2, <1>3, <1>4, <1>5
  <2> QED BY <1>2, <2>1, ParamHas
<1>9. \A other \in Names \ {name} : other \notin Range(Param(name, e))
  BY <1>2, <1>3, <1>4, <1>5, <1>8
<1>10. Carries(Param(name, e), {name}, meant)
  BY <1>2, <1>8, <1>9 DEF Carries
<1> QED BY <1>6, <1>7, <1>10 DEF Param, head

(* Two targets that are joined carry what both carry.                      *)
LEMMA JoinedCarries ==
    ASSUME NEW a \in Seq(Alphabet), NEW b \in Seq(Alphabet), NEW meant,
           NEW A \in SUBSET Names, NEW B \in SUBSET Names, A \cap B = {},
           Carries(SetQuery(a), A, meant), Carries(SetQuery(b), B, meant)
    PROVE  /\ Joined(a, b) \in Seq(Alphabet)
           /\ Carries(SetQuery(Joined(a, b)), A \cup B, meant)
<1> DEFINE x == SetQuery(a)
           y == SetQuery(b)
           amp == <<AMPERSAND>>
<1>1. /\ x \in Seq(Alphabet) /\ y \in Seq(Alphabet)
      /\ \A name \in A : \E v : Has(x, name, v) /\ Decode(v) = meant[name]
      /\ \A name \in B : \E v : Has(y, name, v) /\ Decode(v) = meant[name]
      /\ \A name \in Names \ A : name \notin Range(x)
      /\ \A name \in Names \ B : name \notin Range(y)
  BY DEF Carries
<1>2. amp \in Seq(Alphabet) /\ SetQuery(amp) = amp /\ AMPERSAND \notin Names
  BY PlainStays DEF AMPERSAND, Names
<1> HIDE DEF amp
<1>3. /\ a \o amp \in Seq(Alphabet) /\ (a \o amp) \o b \in Seq(Alphabet)
      /\ SetQuery((a \o amp) \o b) = (x \o amp) \o y
  <2>1. a \o amp \in Seq(Alphabet)
    BY <1>2
  <2>2. SetQuery(a \o amp) = x \o amp
    BY <1>2, SetQueryConcat
  <2>3. SetQuery((a \o amp) \o b) = SetQuery(a \o amp) \o y
    BY <2>1, SetQueryConcat
  <2>4. (a \o amp) \o b \in Seq(Alphabet)
    BY <2>1
  <2> QED BY <2>1, <2>2, <2>3, <2>4
<1> HIDE DEF x, y
<1>4. /\ Joined(x, y) \in Seq(Alphabet)
      /\ Range(Joined(x, y)) = Range(x) \cup {AMPERSAND} \cup Range(y)
      /\ \A name \in Names : \A v :
            /\ Has(x, name, v) /\ name \notin Range(y) => Has(Joined(x, y), name, v)
            /\ Has(y, name, v) /\ name \notin Range(x) => Has(Joined(x, y), name, v)
  <2>1. <<>> \in Seq(Alphabet) /\ "db" \in Names
    BY DEF Names
  <2>2. /\ Joined(x, y) \in Seq(Alphabet)
        /\ Range(Joined(x, y)) = Range(x) \cup {AMPERSAND} \cup Range(y)
    BY <1>1, <2>1, JoinedHas
  <2>3. ASSUME NEW name \in Names, NEW v
        PROVE  /\ Has(x, name, v) /\ name \notin Range(y) => Has(Joined(x, y), name, v)
               /\ Has(y, name, v) /\ name \notin Range(x) => Has(Joined(x, y), name, v)
    BY <1>1, JoinedHas
  <2> QED BY <2>2, <2>3
<1>5. ASSUME NEW name \in A \cup B
      PROVE  \E v : Has(Joined(x, y), name, v) /\ Decode(v) = meant[name]
  <2>1. CASE name \in A
    <3>1. name \notin Range(y)
      BY <1>1, <2>1
    <3>2. PICK v : Has(x, name, v) /\ Decode(v) = meant[name]
      BY <1>1, <2>1
    <3> QED BY <1>4, <2>1, <3>1, <3>2
  <2>2. CASE name \in B
    <3>1. name \notin Range(x)
      BY <1>1, <2>2
    <3>2. PICK v : Has(y, name, v) /\ Decode(v) = meant[name]
      BY <1>1, <2>2
    <3> QED BY <1>4, <2>2, <3>1, <3>2
  <2> QED BY <2>1, <2>2
<1>6. \A name \in Names \ (A \cup B) : name \notin Range(Joined(x, y))
  BY <1>1, <1>2, <1>4
<1>7. Carries(Joined(x, y), A \cup B, meant)
  BY <1>4, <1>5, <1>6 DEF Carries
<1> QED BY <1>3, <1>7 DEF Joined, x, y, amp

-----------------------------------------------------------------------------
(* The three queries that functors build.                                  *)
Database == Param("db", query.database)
Command  == Param("q", query.command)
Policy   == Param("rp", query.retentionPolicy)
Epoch    == Param("epoch", <<query.precision>>)

GetText   == Joined(Joined(Joined(Database, Command), Policy), Epoch)
PostText  == Joined(Database, Command)
WriteText == Joined(Database, Policy)

(* The inductive invariant: what was sent says which of them the target    *)
(* is, and the server has read that target.                                *)
TargetInv ==
    /\ query \in Query
    /\ \/ sent = {} /\ received = <<>>
       \/ sent = {"db", "q", "rp", "epoch"} /\ target = SetQuery(GetText)
       \/ sent = {"db", "q"} /\ target = SetQuery(PostText)
       \/ sent = {"db", "rp"} /\ target = SetQuery(WriteText)
    /\ received # <<>> => received = [name \in Names |-> Value(target, name)]

(* The invariant holds at the start.                                       *)
LEMMA TargetInvInit == Init => TargetInv
BY DEF Init, TargetInv

(* Every step keeps it.                                                    *)
LEMMA TargetInvNext == TargetInv /\ [Next]_vars => TargetInv'
<1> SUFFICES ASSUME TargetInv, [Next]_vars
             PROVE  TargetInv'
  OBVIOUS
<1> USE DEF Database, Command, Policy, Epoch, GetText, PostText, WriteText, Joined
<1>1. CASE RunQueryGet
  BY <1>1 DEF TargetInv, RunQueryGet, Build
<1>2. CASE RunQueryPost
  BY <1>2 DEF TargetInv, RunQueryPost, Build
<1>3. CASE RunWrite
  BY <1>3 DEF TargetInv, RunWrite, Build
<1>4. CASE Receive
  BY <1>4 DEF TargetInv, Receive
<1>5. CASE UNCHANGED vars
  BY <1>5 DEF TargetInv, vars
<1> QED BY <1>1, <1>2, <1>3, <1>4, <1>5 DEF Next

(* It implies that what was sent separately arrives separately.            *)
LEMMA TargetInvImplies == TargetInv => SeparableArrive
<1> SUFFICES ASSUME TargetInv, received # <<>>,
                    Separable(query.database), Separable(query.command),
                    Separable(query.retentionPolicy)
             PROVE  \A name \in Names :
                        received[name] = IF name \in sent THEN Meant[name] ELSE Missing
  BY DEF SeparableArrive, Arrive
<1> DEFINE C == Chars \cup Precision
<1>1. /\ query.database \in Seq(C) /\ query.command \in Seq(C)
      /\ query.retentionPolicy \in Seq(C) /\ <<query.precision>> \in Seq(C)
  <2>1. /\ query.database \in Texts /\ query.command \in Commands
        /\ query.retentionPolicy \in Texts /\ query.precision \in Precision
    BY DEF TargetInv, Query
  <2>2. Texts \subseteq Seq(Chars) /\ Commands \subseteq Seq(Chars)
    BY TextsAssumption
  <2>3. Chars \subseteq C /\ query.precision \in C
    BY <2>1
  <2> HIDE DEF C
  <2> QED BY <2>1, <2>2, <2>3
<1>2. Separable(<<query.precision>>)
  <2>1. query.precision # AMPERSAND
    BY DEF TargetInv, Query, Precision, AMPERSAND
  <2> QED BY <2>1 DEF Separable
<1>3. /\ Meant["db"] = query.database /\ Meant["q"] = query.command
      /\ Meant["rp"] = query.retentionPolicy /\ Meant["epoch"] = <<query.precision>>
  BY DEF Meant, Names
<1>4. "db" \in Names /\ "q" \in Names /\ "rp" \in Names /\ "epoch" \in Names
  BY DEF Names
<1>5. /\ Database \in Seq(Alphabet) /\ Carries(SetQuery(Database), {"db"}, Meant)
      /\ Command \in Seq(Alphabet) /\ Carries(SetQuery(Command), {"q"}, Meant)
      /\ Policy \in Seq(Alphabet) /\ Carries(SetQuery(Policy), {"rp"}, Meant)
      /\ Epoch \in Seq(Alphabet) /\ Carries(SetQuery(Epoch), {"epoch"}, Meant)
  BY <1>1, <1>2, <1>3, <1>4, ParamCarries DEF Database, Command, Policy, Epoch
<1>6. PostText \in Seq(Alphabet) /\ Carries(SetQuery(PostText), {"db"} \cup {"q"}, Meant)
  BY <1>4, <1>5, JoinedCarries DEF PostText
<1>7. WriteText \in Seq(Alphabet) /\ Carries(SetQuery(WriteText), {"db"} \cup {"rp"}, Meant)
  BY <1>4, <1>5, JoinedCarries DEF WriteText
<1>8. Carries(SetQuery(GetText), (({"db"} \cup {"q"}) \cup {"rp"}) \cup {"epoch"}, Meant)
  <2> DEFINE first == Joined(PostText, Policy)
  <2>1. first \in Seq(Alphabet) /\ Carries(SetQuery(first), ({"db"} \cup {"q"}) \cup {"rp"}, Meant)
    BY <1>4, <1>5, <1>6, JoinedCarries
  <2> HIDE DEF first
  <2>2. Carries(SetQuery(Joined(first, Epoch)), (({"db"} \cup {"q"}) \cup {"rp"}) \cup {"epoch"}, Meant)
    BY <1>4, <1>5, <2>1, JoinedCarries
  <2> QED BY <2>2 DEF first, GetText, PostText
<1>9. Carries(target, sent, Meant) /\ sent \subseteq Names
  <2>1. sent # {}
    BY DEF TargetInv
  <2>2. CASE sent = {"db", "q", "rp", "epoch"} /\ target = SetQuery(GetText)
    <3>1. sent = (({"db"} \cup {"q"}) \cup {"rp"}) \cup {"epoch"}
      BY <2>2
    <3> QED BY <1>4, <1>8, <2>2, <3>1
  <2>3. CASE sent = {"db", "q"} /\ target = SetQuery(PostText)
    <3>1. sent = {"db"} \cup {"q"}
      BY <2>3
    <3> QED BY <1>4, <1>6, <2>3, <3>1
  <2>4. CASE sent = {"db", "rp"} /\ target = SetQuery(WriteText)
    <3>1. sent = {"db"} \cup {"rp"}
      BY <2>4
    <3> QED BY <1>4, <1>7, <2>4, <3>1
  <2> QED BY <2>1, <2>2, <2>3, <2>4 DEF TargetInv
<1>10. \A name \in Names : received[name] = Value(target, name)
  BY DEF TargetInv
<1> QED BY <1>9, <1>10, CarriesArrive

(* Names and commands without ampersands arrive as they were given,        *)
(* however long they are and whatever spaces, percent signs, number signs  *)
(* or escapes they contain, and nothing arrives that was not sent.         *)
THEOREM SeparableArriveCorrect == Spec => []SeparableArrive
<1>1. Spec => []TargetInv
  BY TargetInvInit, TargetInvNext, PTL DEF Spec
<1> QED BY <1>1, TargetInvImplies, PTL
=============================================================================
