-------------------------- MODULE LineProtocolProofs -------------------------
(***************************************************************************)
(* Proofs about the encoder of points, for all batches, precisions and     *)
(* ranges of the clock: what a timestamp becomes, that a batch is sent as  *)
(* a whole or not at all, and that a server reads from it the points that  *)
(* were written.                                                           *)
(***************************************************************************)
EXTENDS LineProtocol, SequenceLemmas

(* The unit that starts at or before t, and the next.                      *)
LEMMA Neighbours ==
    ASSUME NEW t \in Int, NEW unit \in Nat \ {0}
    PROVE  /\ Below(t, unit) \in Int /\ Above(t, unit) \in Int
           /\ Below(t, unit) <= t /\ t < Above(t, unit)
           /\ Above(t, unit) = Below(t, unit) + unit
           /\ \E n \in Int : Below(t, unit) = unit * n /\ Above(t, unit) = unit * (n + 1)
<1>1. t \div unit \in Int /\ t % unit \in 0 .. unit - 1
  OBVIOUS
<1>2. t = unit * (t \div unit) + (t % unit)
  OBVIOUS
<1>3. unit * (t \div unit) \in Int
  BY <1>1
<1>4. unit * (t \div unit + 1) = unit * (t \div unit) + unit
  BY <1>1
<1>5. \E n \in Int : Below(t, unit) = unit * n /\ Above(t, unit) = unit * (n + 1)
  <2>1. Below(t, unit) = unit * (t \div unit) /\ Above(t, unit) = unit * (t \div unit + 1)
    BY <1>4 DEF Below, Above
  <2> QED BY <1>1, <2>1
<1>6. Below(t, unit) <= t /\ t < Above(t, unit)
  <2> DEFINE b == unit * (t \div unit)
             m == t % unit
  <2>1. b \in Int /\ m \in 0 .. unit - 1 /\ t = b + m
    BY <1>1, <1>2, <1>3
  <2> HIDE DEF b, m
  <2>2. b <= t /\ t < b + unit
    BY <2>1
  <2> QED BY <2>2 DEF Below, Above, b
<1> QED BY <1>3, <1>5, <1>6 DEF Below, Above

(* A time that is not in nanoseconds and that the conversion can represent *)
(* moves by at most half a unit, to a whole number of units, and stays in  *)
(* range; which is what AppendTimestamp relies on when it writes the       *)
(* rounded time in nanoseconds again.                                      *)
THEOREM RoundedToTheNearest ==
    ASSUME NEW t \in Times, NEW unit \in Units \ {1}, Representable(t, unit)
    PROVE  \A count \in Counts(t, unit) :
              /\ count \in Times
              /\ \E n \in Int : count = unit * n
              /\ 2 * Distance(t, count) <= unit
<1>1. t \in Int /\ unit \in Nat \ {0}
  BY UnitsAssumption, RangeAssumption DEF Times
<1> DEFINE b == Below(t, unit)
           a == Above(t, unit)
<1>2. /\ b \in Int /\ a \in Int /\ b <= t /\ t < a /\ a = b + unit
      /\ \E n \in Int : b = unit * n /\ a = unit * (n + 1)
  BY <1>1, Neighbours
<1>3. b >= MinTime /\ a <= MaxTime
  BY DEF Representable
<1>4. Counts(t, unit) = {Nearest(t, unit)}
  BY DEF Counts
<1>5. \/ Nearest(t, unit) = b /\ t - b <= a - t
      \/ Nearest(t, unit) = a /\ a - t <= t - b
  BY <1>1, <1>2 DEF Nearest
<1> HIDE DEF a, b
<1>6. \A count \in {a, b} : count \in Times /\ \E n \in Int : count = unit * n
  <2>1. a \in Times /\ b \in Times
    BY <1>1, <1>2, <1>3, RangeAssumption DEF Times
  <2>2. PICK n \in Int : b = unit * n /\ a = unit * (n + 1)
    BY <1>2
  <2>3. n + 1 \in Int
    BY <2>2
  <2> QED BY <2>1, <2>2, <2>3
<1>7. Distance(t, b) = t - b /\ Distance(t, a) = a - t
  BY <1>1, <1>2 DEF Distance
<1>8. 2 * Distance(t, Nearest(t, unit)) <= unit
  BY <1>1, <1>2, <1>5, <1>7
<1> QED BY <1>4, <1>5, <1>6, <1>8

(* Nanoseconds are not rounded.                                            *)
THEOREM NanosecondsAreExact == \A t \in Times : Counts(t, 1) = {t}
BY DEF Counts

-----------------------------------------------------------------------------
(* The encoder has got past a point only by appending it, so that what is  *)
(* before the next point is valid, and it leaves with all behind it.       *)
Passed ==
    /\ points \in Seq(Point)
    /\ next \in Nat \ {0}
    /\ \A i \in 1 .. next - 1 : i \in DOMAIN points => ~Invalid(points[i])

EncoderInv == Passed /\ NoPartialBatch

(* The reader does not touch the encoder.                                  *)
LEMMA ReadersOnlyRead == ReadStep => UNCHANGED <<encoderVars, state>>
BY DEF ReadStep, ReadChar, ReadMeasurement, ReadTagKey, ReadTagValue, ReadFieldKey,
       OpenString, CloseString, ReadFieldValue, ReadLineEnd, WordEnds

(* Nothing has been passed at the start.                                   *)
LEMMA EncoderInvInit == Init => EncoderInv
BY BatchesAssumption DEF Init, EncoderInv, Passed, NoPartialBatch

(* Where neither the points nor the place among them changes, the server   *)
(* must have had the text before.                                          *)
LEMMA EncoderInvUnchanged ==
    ASSUME EncoderInv, UNCHANGED encoderVars,
           state' \in {"reading", "read", "malformed"} =>
               state \in {"reading", "read", "malformed"}
    PROVE  EncoderInv'
BY DEF EncoderInv, Passed, NoPartialBatch, encoderVars, Invalid

(* A step passes only what is valid, and the reader passes nothing.        *)
LEMMA EncoderInvNext == EncoderInv /\ [Next]_vars => EncoderInv'
<1> SUFFICES ASSUME EncoderInv, [Next]_vars
             PROVE  EncoderInv'
  OBVIOUS
<1>1. CASE EncodeNext
  <2>1. /\ next' = next + 1 /\ UNCHANGED <<points, state>>
        /\ state = "encoding" /\ ~Invalid(points[next])
    BY <1>1 DEF EncodeNext
  <2>2. Passed'
    BY SMTT(30), <2>1 DEF EncoderInv, Passed, Invalid
  <2>3. NoPartialBatch'
    BY <2>1 DEF NoPartialBatch
  <2> QED BY <2>2, <2>3 DEF EncoderInv
<1>2. CASE EncodeThrows
  BY <1>2, EncoderInvUnchanged DEF EncodeThrows
<1>3. CASE EncodeReturns
  <2>1. UNCHANGED encoderVars /\ next > Len(points)
    BY <1>3 DEF EncodeReturns
  <2>2. \A i \in DOMAIN points : ~Invalid(points[i])
    BY <2>1 DEF EncoderInv, Passed
  <2>3. Passed' /\ NoPartialBatch'
    BY <2>1, <2>2 DEF EncoderInv, Passed, NoPartialBatch, encoderVars, Invalid
  <2> QED BY <2>3 DEF EncoderInv
<1>4. CASE ReadStep
  BY <1>4, ReadersOnlyRead, EncoderInvUnchanged
<1>5. CASE ReadFails
  <2>1. state = "reading" /\ UNCHANGED encoderVars
    BY <1>5 DEF ReadFails
  <2> QED BY <2>1, EncoderInvUnchanged
<1>6. CASE ReadEnds
  BY <1>6, EncoderInvUnchanged DEF ReadEnds
<1>7. CASE UNCHANGED vars
  BY <1>7, EncoderInvUnchanged DEF vars
<1> QED BY <1>1, <1>2, <1>3, <1>4, <1>5, <1>6, <1>7 DEF Next

(* A batch is sent as a whole or not at all: what a server is given to     *)
(* read was made from points none of which the encoder would refuse,       *)
(* however many points there are and wherever an invalid one is.           *)
THEOREM NoPartialBatchCorrect == Spec => []NoPartialBatch
<1>1. Spec => []EncoderInv
  BY EncoderInvInit, EncoderInvNext, PTL DEF Spec
<1>2. EncoderInv => NoPartialBatch
  BY DEF EncoderInv
<1> QED BY <1>1, <1>2, PTL

(* All that a text is made of.                                             *)
Alphabet == Chars \cup Numbers \cup {TimeToken(t) : t \in Times}

(* What a character becomes, and what is left of a name from i on.         *)
EscapedPieces(name, escapes) ==
    [i \in DOMAIN name |-> IF name[i] \in escapes THEN <<BSLASH, name[i]>> ELSE <<name[i]>>]

EscapedFrom(name, escapes, i) == From(EscapedPieces(name, escapes), i)

(* An escaped name is read character by character: what is left from one   *)
(* on is that character, with its backslash if it has one, and what is     *)
(* left after it.                                                          *)
LEMMA EscapedFromProperties ==
    ASSUME NEW name \in Seq(Chars), NEW escapes
    PROVE  /\ Escaped(name, escapes) = EscapedFrom(name, escapes, 1)
           /\ EscapedFrom(name, escapes, Len(name) + 1) = <<>>
           /\ \A i \in 1 .. Len(name) + 1 : EscapedFrom(name, escapes, i) \in Seq(Alphabet)
           /\ \A i \in 1 .. Len(name) :
                EscapedFrom(name, escapes, i) =
                    (IF name[i] \in escapes THEN <<BSLASH, name[i]>> ELSE <<name[i]>>)
                    \o EscapedFrom(name, escapes, i + 1)
<1> DEFINE pieces == EscapedPieces(name, escapes)
           n == Len(name)
<1>1. pieces \in Seq(Seq(Alphabet)) /\ Len(pieces) = n /\ n \in Nat
  <2>1. ASSUME NEW i \in DOMAIN name
        PROVE  (IF name[i] \in escapes THEN <<BSLASH, name[i]>> ELSE <<name[i]>>) \in Seq(Alphabet)
    <3>1. name[i] \in Alphabet /\ BSLASH \in Alphabet
      BY DEF Alphabet, Chars
    <3> QED BY <3>1
  <2>2. DOMAIN name = 1 .. n /\ n \in Nat
    OBVIOUS
  <2>3. pieces \in [1 .. n -> Seq(Alphabet)]
    BY <2>1, <2>2 DEF EscapedPieces
  <2> HIDE DEF pieces
  <2> QED BY <2>2, <2>3
<1>2. \A i \in 1 .. n :
         pieces[i] = IF name[i] \in escapes THEN <<BSLASH, name[i]>> ELSE <<name[i]>>
  BY DEF EscapedPieces
<1>3. Escaped(name, escapes) = FlattenSeq(pieces)
  BY DEF Escaped, EscapedPieces
<1> HIDE DEF pieces
<1>4. /\ From(pieces, 1) = FlattenSeq(pieces)
      /\ From(pieces, n + 1) = <<>>
      /\ \A j \in 1 .. n :
             /\ pieces[j] \in Seq(Alphabet)
             /\ From(pieces, j + 1) \in Seq(Alphabet)
             /\ From(pieces, j) = pieces[j] \o From(pieces, j + 1)
  BY <1>1, FromProperties
<1>5. ASSUME NEW i \in 1 .. n + 1
      PROVE  From(pieces, i) \in Seq(Alphabet)
  <2>1. CASE i = n + 1
    <3>1. <<>> \in Seq(Alphabet)
      OBVIOUS
    <3> QED BY <1>4, <2>1, <3>1
  <2>2. CASE i # n + 1
    <3>1. i \in 1 .. n
      BY <1>1, <2>2
    <3>2. pieces[i] \o From(pieces, i + 1) \in Seq(Alphabet)
      <4> DEFINE a == pieces[i]
                 b == From(pieces, i + 1)
      <4>1. a \in Seq(Alphabet) /\ b \in Seq(Alphabet)
        BY <1>4, <3>1
      <4> HIDE DEF a, b
      <4>2. a \o b \in Seq(Alphabet)
        BY <4>1
      <4> QED BY <4>2 DEF a, b
    <3> QED BY <1>4, <3>1, <3>2
  <2> QED BY <2>1, <2>2
<1>6. \A i : EscapedFrom(name, escapes, i) = From(pieces, i)
  BY DEF EscapedFrom, pieces
<1> QED BY <1>2, <1>3, <1>4, <1>5, <1>6

-----------------------------------------------------------------------------
(* Reading a name. A part of it has been read; what is left of it stands   *)
(* before what follows it.                                                 *)
Within(name, escapes, then) ==
    /\ word \in Seq(Chars)
    /\ Len(word) <= Len(name)
    /\ word = SubSeq(name, 1, Len(word))
    /\ os = EscapedFrom(name, escapes, Len(word) + 1) \o then

(* Where `escapes` lose their meaning by a backslash, and `ends` end what  *)
(* is read, a name arrives if the latter are among the former and it does  *)
(* not end with a backslash that is none of them.                          *)
Survives(name, escapes, ends) ==
    /\ \A i \in 1 .. Len(name) : name[i] \in ends => name[i] \in escapes
    /\ BSLASH \in escapes \/ name = <<>> \/ name[Len(name)] # BSLASH

(* As long as a name is not over, the next character is one of its own and *)
(* is read as such, escaped or not.                                        *)
LEMMA WordGoesOn ==
    ASSUME NEW name \in Seq(Chars), NEW escapes, NEW then \in Seq(Alphabet), then # <<>>,
           Meaningful = escapes, Survives(name, escapes, Ends),
           Within(name, escapes, then), word # name
    PROVE  /\ os # <<>> /\ (Escape \/ Head(os) \notin Ends)
           /\ ReadChar => Within(name, escapes, then)'
<1> DEFINE n == Len(word)
           i == n + 1
           x == name[i]
           left == EscapedFrom(name, escapes, i + 1)
           rest == left \o then
<1>1. n \in Nat /\ n < Len(name) /\ i \in 1 .. Len(name) /\ Len(name) \in Nat
  <2>1. n <= Len(name) /\ word = SubSeq(name, 1, n) /\ Len(name) \in Nat /\ n \in Nat
    BY DEF Within
  <2>2. n # Len(name)
    <3>1. SubSeq(name, 1, Len(name)) = name
      BY SubSeqFull
    <3> QED BY <2>1, <3>1
  <2> HIDE DEF n
  <2> QED BY <2>1, <2>2
<1>2. x \in Chars /\ BSLASH \in Alphabet /\ x \in Alphabet
  BY <1>1 DEF Alphabet, Chars
<1>3. left \in Seq(Alphabet)
  <2>1. i + 1 \in 1 .. Len(name) + 1
    BY <1>1
  <2> QED BY <2>1, EscapedFromProperties
<1>4. rest \in Seq(Alphabet) /\ rest # <<>>
  <2> HIDE DEF left
  <2> QED BY <1>3
<1>5. os = (IF x \in escapes THEN <<BSLASH, x>> ELSE <<x>>) \o rest
  <2> DEFINE piece == IF x \in escapes THEN <<BSLASH, x>> ELSE <<x>>
  <2>0. \A k \in 1 .. Len(name) :
            EscapedFrom(name, escapes, k) =
                (IF name[k] \in escapes THEN <<BSLASH, name[k]>> ELSE <<name[k]>>)
                \o EscapedFrom(name, escapes, k + 1)
    BY ZenonT(60), EscapedFromProperties
  <2>1. EscapedFrom(name, escapes, i) = piece \o left
    <3> HIDE DEF n
    <3> QED BY Zenon, <1>1, <2>0
  <2>2. os = (piece \o left) \o then
    BY <2>1 DEF Within
  <2>3. piece \in Seq(Alphabet)
    BY <1>2
  <2> HIDE DEF piece, left
  <2>4. (piece \o left) \o then = piece \o (left \o then)
    BY SMTT(30), <1>3, <2>3
  <2> QED BY <2>2, <2>4 DEF piece
<1>6. ASSUME word' = Append(word, x), os' = rest
      PROVE  Within(name, escapes, then)'
  <2>1. word' \in Seq(Chars) /\ Len(word') = i
    BY <1>1, <1>2, <1>6 DEF Within
  <2>2. word' = SubSeq(name, 1, i)
    <3>1. word = SubSeq(name, 1, n)
      BY DEF Within
    <3> HIDE DEF n
    <3>2. Append(SubSeq(name, 1, n), name[n + 1]) = SubSeq(name, 1, n + 1)
      BY <1>1
    <3> QED BY <1>6, <3>1, <3>2
  <2> HIDE DEF n
  <2> QED BY <1>1, <1>6, <2>1, <2>2 DEF Within
<1> HIDE DEF rest, left
<1>7. CASE x \in escapes
  <2>1. os = <<BSLASH, x>> \o rest
    BY <1>5, <1>7
  <2>2. /\ os # <<>> /\ Len(os) > 1 /\ os[1] = BSLASH /\ os[2] = x
        /\ Tail(Tail(os)) = rest
    BY SMTT(30), <1>2, <1>4, <2>1
  <2>3. Escape
    BY <1>7, <2>2 DEF Escape
  <2>4. ReadChar => word' = Append(word, x) /\ os' = rest
    BY <2>2, <2>3 DEF ReadChar
  <2> QED BY <1>6, <2>2, <2>3, <2>4
<1>8. CASE x \notin escapes
  <2>1. os = <<x>> \o rest
    BY <1>5, <1>8
  <2>2. /\ os # <<>> /\ os[1] = x /\ Head(os) = x /\ os[2] = rest[1] /\ Tail(os) = rest
    BY <1>2, <1>4, <2>1
  <2>3. x \notin Ends
    BY <1>1, <1>8 DEF Survives
  <2>4. ~Escape
    <3>1. CASE x # BSLASH
      BY <2>2, <3>1 DEF Escape
    <3>2. CASE x = BSLASH
      <4> DEFINE y == name[i + 1]
                 last == EscapedFrom(name, escapes, i + 2)
      <4>1. i + 1 \in 1 .. Len(name) /\ y \in Chars
        <5>1. name # <<>> /\ BSLASH \notin escapes
          BY <1>1, <1>8, <3>2
        <5>2. i # Len(name)
          BY <1>8, <3>2, <5>1 DEF Survives
        <5>3. i + 1 \in 1 .. Len(name)
          BY <1>1, <5>2
        <5> QED BY <5>3
      <4>2. /\ left = (IF y \in escapes THEN <<BSLASH, y>> ELSE <<y>>) \o last
            /\ last \in Seq(Alphabet)
        <5>1. (i + 1) + 1 = i + 2 /\ i + 2 \in 1 .. Len(name) + 1
          BY <1>1, <4>1
        <5>2. /\ \A k \in 1 .. Len(name) + 1 : EscapedFrom(name, escapes, k) \in Seq(Alphabet)
              /\ \A k \in 1 .. Len(name) :
                    EscapedFrom(name, escapes, k) =
                        (IF name[k] \in escapes THEN <<BSLASH, name[k]>> ELSE <<name[k]>>)
                        \o EscapedFrom(name, escapes, k + 1)
          BY ZenonT(60), EscapedFromProperties
        <5> HIDE DEF i
        <5>3. left = (IF y \in escapes THEN <<BSLASH, y>> ELSE <<y>>)
                     \o EscapedFrom(name, escapes, (i + 1) + 1)
          BY Zenon, <4>1, <5>2 DEF left
        <5> QED BY Zenon, <5>1, <5>2, <5>3
      <4> HIDE DEF y, last
      <4>3. left # <<>> /\ left[1] \notin escapes
        <5>1. CASE y \in escapes
          <6>1. left = <<BSLASH, y>> \o last
            BY <4>2, <5>1
          <6>2. left # <<>> /\ left[1] = BSLASH
            BY <4>2, <6>1
          <6> QED BY <1>8, <3>2, <6>2
        <5>2. CASE y \notin escapes
          <6>1. left = <<y>> \o last
            BY <4>2, <5>2
          <6>2. left # <<>> /\ left[1] = y
            BY <4>2, <6>1
          <6> QED BY <5>2, <6>2
        <5> QED BY <5>1, <5>2
      <4>4. rest[1] = left[1]
        BY <1>3, <4>3 DEF rest
      <4> QED BY <2>2, <4>3, <4>4 DEF Escape
    <3> QED BY <3>1, <3>2
  <2>5. ReadChar => word' = Append(word, x) /\ os' = rest
    BY <2>2, <2>4 DEF ReadChar
  <2> QED BY <1>6, <2>2, <2>3, <2>5
<1> QED BY <1>7, <1>8

(* After the last character of a name comes what follows the name.         *)
LEMMA WordIsOver ==
    ASSUME NEW name \in Seq(Chars), NEW escapes, NEW then \in Seq(Alphabet),
           Within(name, escapes, then), word = name
    PROVE  os = then
<1>1. EscapedFrom(name, escapes, Len(name) + 1) = <<>>
  BY EscapedFromProperties
<1>2. <<>> \o then = then
  OBVIOUS
<1> QED BY <1>1, <1>2 DEF Within

(* Texts may be put together in any order.                                 *)
Cat(x, y) == x \o y

(* It does not matter which are put together first.                        *)
LEMMA CatAssociative ==
    ASSUME NEW S
    PROVE  \A x, y, z \in Seq(S) :
              Cat(x, y) \in Seq(S) /\ Cat(Cat(x, y), z) = Cat(x, Cat(y, z))
<1> SUFFICES ASSUME NEW x \in Seq(S), NEW y \in Seq(S), NEW z \in Seq(S)
             PROVE  x \o y \in Seq(S) /\ (x \o y) \o z = x \o (y \o z)
  BY DEF Cat
<1>1. x \o y \in Seq(S)
  OBVIOUS
<1>2. (x \o y) \o z = x \o (y \o z)
  OBVIOUS
<1> QED BY <1>1, <1>2

(* The same for the shapes in which a line is written.                     *)
LEMMA Regroup ==
    ASSUME NEW S, NEW a \in Seq(S), NEW b \in Seq(S), NEW c \in Seq(S),
           NEW d \in Seq(S), NEW e \in Seq(S), NEW f \in Seq(S)
    PROVE  /\ Cat(Cat(Cat(a, b), c), d) = Cat(a, Cat(b, Cat(c, d)))
           /\ Cat(Cat(Cat(Cat(Cat(a, b), c), d), e), f) =
                Cat(a, Cat(b, Cat(c, Cat(d, Cat(e, f)))))
<1>2. Cat(Cat(Cat(a, b), c), d) = Cat(a, Cat(b, Cat(c, d)))
  BY CatAssociative
<1>3. Cat(Cat(Cat(Cat(a, b), c), d), e) = Cat(a, Cat(b, Cat(c, Cat(d, e))))
  <2>1. Cat(c, d) \in Seq(S) /\ Cat(b, Cat(c, d)) \in Seq(S)
    BY CatAssociative
  <2>2. Cat(Cat(a, Cat(b, Cat(c, d))), e) = Cat(a, Cat(Cat(b, Cat(c, d)), e))
    BY <2>1, CatAssociative
  <2>3. Cat(Cat(b, Cat(c, d)), e) = Cat(b, Cat(c, Cat(d, e)))
    BY CatAssociative
  <2> QED BY Zenon, <1>2, <2>2, <2>3
<1>4. Cat(Cat(Cat(Cat(Cat(a, b), c), d), e), f) = Cat(a, Cat(b, Cat(c, Cat(d, Cat(e, f)))))
  <2>1. /\ Cat(c, Cat(d, e)) \in Seq(S) /\ Cat(b, Cat(c, Cat(d, e))) \in Seq(S)
        /\ Cat(d, e) \in Seq(S)
    <3>1. Cat(d, e) \in Seq(S)
      BY Zenon, CatAssociative
    <3>2. Cat(c, Cat(d, e)) \in Seq(S)
      BY Zenon, <3>1, CatAssociative
    <3> QED BY Zenon, <3>1, <3>2, CatAssociative
  <2>2. Cat(Cat(a, Cat(b, Cat(c, Cat(d, e)))), f) = Cat(a, Cat(Cat(b, Cat(c, Cat(d, e))), f))
    BY <2>1, CatAssociative
  <2>3. Cat(Cat(b, Cat(c, Cat(d, e))), f) = Cat(b, Cat(Cat(c, Cat(d, e)), f))
    BY <2>1, CatAssociative
  <2>4. Cat(Cat(c, Cat(d, e)), f) = Cat(c, Cat(d, Cat(e, f)))
    BY CatAssociative
  <2> QED BY Zenon, <1>3, <2>2, <2>3, <2>4
<1> QED BY <1>2, <1>4

-----------------------------------------------------------------------------
(* The rest of a line, from the time, from the j-th field, from the end of *)
(* the j-th field, and from the j-th tag on, with what comes after it.     *)
TagPieces(tags) ==
    [i \in DOMAIN tags |->
        <<COMMA>> \o Escaped(tags[i].key, ESCAPE_CHARS_TAG)
        \o <<EQUAL>> \o Escaped(tags[i].value, ESCAPE_CHARS_TAG)]

FieldPieces(fields) ==
    [i \in DOMAIN fields |->
        Escaped(fields[i].key, ESCAPE_CHARS_FIELD_KEY) \o <<EQUAL>> \o Value(fields[i].value)
        \o IF i < Len(fields) THEN <<COMMA>> ELSE <<>>]

TimeText(count, after) == Timestamp(count) \o after

FieldsText(p, count, after, j) == From(FieldPieces(p.fields), j) \o TimeText(count, after)

FieldEnd(p, count, after, j) ==
    IF j < Len(p.fields) THEN <<COMMA>> \o FieldsText(p, count, after, j + 1)
    ELSE TimeText(count, after)

TagsText(p, count, after, j) ==
    From(TagPieces(p.tags), j) \o (<<SPACE>> \o FieldsText(p, count, after, 1))

(* Names and values are written in the alphabet.                           *)
LEMMA WordTypes ==
    /\ \A name \in Seq(Chars) : \A escapes : Escaped(name, escapes) \in Seq(Alphabet)
    /\ \A value \in FieldValue : Value(value) \in Seq(Alphabet)
    /\ \A count \in Times : Timestamp(count) \in Seq(Alphabet)
    /\ \A x \in Chars : <<x>> \in Seq(Alphabet)
<1>1. ASSUME NEW name \in Seq(Chars), NEW escapes
      PROVE  Escaped(name, escapes) \in Seq(Alphabet)
  <2>1. /\ Escaped(name, escapes) = EscapedFrom(name, escapes, 1)
        /\ \A i \in 1 .. Len(name) + 1 : EscapedFrom(name, escapes, i) \in Seq(Alphabet)
    BY EscapedFromProperties
  <2>2. 1 \in 1 .. Len(name) + 1
    OBVIOUS
  <2> QED BY Zenon, <2>1, <2>2
<1>2. \A x \in Chars : <<x>> \in Seq(Alphabet)
  BY DEF Alphabet
<1>3. ASSUME NEW value \in FieldValue
      PROVE  Value(value) \in Seq(Alphabet)
  <2>1. CASE value.kind = "string"
    <3> DEFINE q == <<DQUOTE>>
               t == Escaped(value.text, ESCAPE_CHARS_FIELD_VALUE)
    <3>1. value.text \in Seq(Chars)
      BY <2>1 DEF FieldValue
    <3>2. t \in Seq(Alphabet) /\ q \in Seq(Alphabet)
      BY <1>1, <1>2, <3>1 DEF Chars
    <3>3. Value(value) = q \o t \o q
      BY <2>1 DEF Value
    <3> HIDE DEF q, t
    <3> QED BY <3>2, <3>3
  <2>2. CASE value.kind # "string"
    <3>1. PICK n \in Numbers : value.text = <<n>>
      BY <2>2 DEF FieldValue
    <3>2. <<n>> \in Seq(Alphabet)
      BY DEF Alphabet
    <3> QED BY <2>2, <3>1, <3>2 DEF Value
  <2> QED BY <2>1, <2>2
<1>4. ASSUME NEW count \in Times
      PROVE  Timestamp(count) \in Seq(Alphabet)
  <2>1. SPACE \in Alphabet /\ TimeToken(count) \in Alphabet
    BY DEF Alphabet, Chars
  <2>2. <<>> \in Seq(Alphabet) /\ <<SPACE, TimeToken(count)>> \in Seq(Alphabet)
    BY <2>1
  <2> QED BY <2>2 DEF Timestamp
<1> QED BY <1>1, <1>2, <1>3, <1>4

(* What Fields puts together: one text for each field.                     *)
LEMMA FieldPiecesType ==
    ASSUME NEW fields \in Seq([key : Seq(Chars), value : FieldValue])
    PROVE  /\ FieldPieces(fields) \in Seq(Seq(Alphabet)) /\ Len(FieldPieces(fields)) = Len(fields)
           /\ \A i \in 1 .. Len(fields) :
                FieldPieces(fields)[i] =
                    Escaped(fields[i].key, ESCAPE_CHARS_FIELD_KEY) \o <<EQUAL>>
                    \o Value(fields[i].value) \o IF i < Len(fields) THEN <<COMMA>> ELSE <<>>
<1> DEFINE piece(i) ==
        Escaped(fields[i].key, ESCAPE_CHARS_FIELD_KEY) \o <<EQUAL>>
        \o Value(fields[i].value) \o IF i < Len(fields) THEN <<COMMA>> ELSE <<>>
<1>1. PICK n \in Nat : n = Len(fields) /\ DOMAIN fields = 1 .. n
  OBVIOUS
<1>2. ASSUME NEW i \in 1 .. n
      PROVE  piece(i) \in Seq(Alphabet)
  <2> DEFINE a == Escaped(fields[i].key, ESCAPE_CHARS_FIELD_KEY)
             b == <<EQUAL>>
             c == Value(fields[i].value)
             d == IF i < Len(fields) THEN <<COMMA>> ELSE <<>>
  <2>1. fields[i].key \in Seq(Chars) /\ fields[i].value \in FieldValue
    <3> DEFINE S == [key : Seq(Chars), value : FieldValue]
    <3>1. fields \in Seq(S)
      OBVIOUS
    <3> HIDE DEF S
    <3>2. fields[i] \in S
      BY <1>1, <3>1
    <3> QED BY <3>2 DEF S
  <2>2. a \in Seq(Alphabet) /\ b \in Seq(Alphabet) /\ c \in Seq(Alphabet) /\ d \in Seq(Alphabet)
    <3>1. <<EQUAL>> \in Seq(Alphabet) /\ <<COMMA>> \in Seq(Alphabet) /\ <<>> \in Seq(Alphabet)
      BY WordTypes DEF Chars
    <3> QED BY <2>1, <3>1, WordTypes
  <2> HIDE DEF a, b, c, d
  <2>3. ((a \o b) \o c) \o d \in Seq(Alphabet)
    BY <2>2
  <2> QED BY <2>3 DEF a, b, c, d
<1>3. FieldPieces(fields) = [i \in 1 .. n |-> piece(i)]
  BY <1>1 DEF FieldPieces
<1> HIDE DEF piece
<1>4. /\ FieldPieces(fields) \in [1 .. n -> Seq(Alphabet)]
      /\ \A i \in 1 .. n : FieldPieces(fields)[i] = piece(i)
  BY <1>2, <1>3
<1>5. FieldPieces(fields) \in Seq(Seq(Alphabet)) /\ Len(FieldPieces(fields)) = n
  BY <1>4
<1> QED BY <1>1, <1>4, <1>5 DEF piece

(* What Tags puts together: one text for each tag.                         *)
LEMMA TagPiecesType ==
    ASSUME NEW tags \in Seq([key : Seq(Chars), value : Seq(Chars)])
    PROVE  /\ TagPieces(tags) \in Seq(Seq(Alphabet)) /\ Len(TagPieces(tags)) = Len(tags)
           /\ \A i \in 1 .. Len(tags) :
                TagPieces(tags)[i] =
                    <<COMMA>> \o Escaped(tags[i].key, ESCAPE_CHARS_TAG)
                    \o <<EQUAL>> \o Escaped(tags[i].value, ESCAPE_CHARS_TAG)
<1> DEFINE piece(i) ==
        <<COMMA>> \o Escaped(tags[i].key, ESCAPE_CHARS_TAG)
        \o <<EQUAL>> \o Escaped(tags[i].value, ESCAPE_CHARS_TAG)
<1>1. PICK n \in Nat : n = Len(tags) /\ DOMAIN tags = 1 .. n
  OBVIOUS
<1>2. ASSUME NEW i \in 1 .. n
      PROVE  piece(i) \in Seq(Alphabet)
  <2> DEFINE a == <<COMMA>>
             b == Escaped(tags[i].key, ESCAPE_CHARS_TAG)
             c == <<EQUAL>>
             d == Escaped(tags[i].value, ESCAPE_CHARS_TAG)
  <2>1. tags[i].key \in Seq(Chars) /\ tags[i].value \in Seq(Chars)
    <3> DEFINE S == [key : Seq(Chars), value : Seq(Chars)]
    <3>1. tags \in Seq(S)
      OBVIOUS
    <3> HIDE DEF S
    <3>2. tags[i] \in S
      BY <1>1, <3>1
    <3> QED BY <3>2 DEF S
  <2>2. a \in Seq(Alphabet) /\ b \in Seq(Alphabet) /\ c \in Seq(Alphabet) /\ d \in Seq(Alphabet)
    <3>1. <<EQUAL>> \in Seq(Alphabet) /\ <<COMMA>> \in Seq(Alphabet)
      BY WordTypes DEF Chars
    <3> QED BY <2>1, <3>1, WordTypes
  <2> HIDE DEF a, b, c, d
  <2>3. ((a \o b) \o c) \o d \in Seq(Alphabet)
    BY <2>2
  <2> QED BY <2>3 DEF a, b, c, d
<1>3. TagPieces(tags) = [i \in 1 .. n |-> piece(i)]
  BY <1>1 DEF TagPieces
<1> HIDE DEF piece
<1>4. /\ TagPieces(tags) \in [1 .. n -> Seq(Alphabet)]
      /\ \A i \in 1 .. n : TagPieces(tags)[i] = piece(i)
  BY <1>2, <1>3
<1>5. TagPieces(tags) \in Seq(Seq(Alphabet)) /\ Len(TagPieces(tags)) = n
  BY <1>4
<1> QED BY <1>1, <1>4, <1>5 DEF piece

(* From the j-th field on a line has its key, an equals sign, its value,   *)
(* and what comes at the end of that field; all of it is text.             *)
LEMMA FieldsLayout ==
    ASSUME NEW p \in Point, NEW count \in Times, NEW after \in Seq(Alphabet)
    PROVE  /\ TimeText(count, after) \in Seq(Alphabet)
           /\ FieldsText(p, count, after, 1) = Fields(p.fields) \o TimeText(count, after)
           /\ \A j \in 1 .. Len(p.fields) + 1 : FieldsText(p, count, after, j) \in Seq(Alphabet)
           /\ \A j \in 1 .. Len(p.fields) :
                /\ FieldEnd(p, count, after, j) \in Seq(Alphabet)
                /\ FieldsText(p, count, after, j) =
                        Escaped(p.fields[j].key, ESCAPE_CHARS_FIELD_KEY)
                        \o (<<EQUAL>>
                            \o (Value(p.fields[j].value) \o FieldEnd(p, count, after, j)))
<1> DEFINE pieces == FieldPieces(p.fields)
           n == Len(p.fields)
           T == TimeText(count, after)
<1>1. p.fields \in Seq([key : Seq(Chars), value : FieldValue]) /\ n \in Nat
  BY DEF Point
<1>2. /\ pieces \in Seq(Seq(Alphabet)) /\ Len(pieces) = n
      /\ \A i \in 1 .. n :
            pieces[i] =
                Escaped(p.fields[i].key, ESCAPE_CHARS_FIELD_KEY) \o <<EQUAL>>
                \o Value(p.fields[i].value) \o IF i < n THEN <<COMMA>> ELSE <<>>
  BY <1>1, FieldPiecesType
<1>3. T \in Seq(Alphabet)
  BY WordTypes DEF TimeText
<1>4. Fields(p.fields) = FlattenSeq(pieces)
  BY DEF Fields, FieldPieces
<1> HIDE DEF pieces, T
<1>5. /\ From(pieces, 1) = FlattenSeq(pieces)
      /\ From(pieces, n + 1) = <<>>
      /\ \A j \in 1 .. n :
             /\ pieces[j] \in Seq(Alphabet)
             /\ From(pieces, j + 1) \in Seq(Alphabet)
             /\ From(pieces, j) = pieces[j] \o From(pieces, j + 1)
  BY <1>2, FromProperties
<1>6. \A j : FieldsText(p, count, after, j) = From(pieces, j) \o T
  BY DEF FieldsText, pieces, T
<1>7. \A j \in 1 .. n + 1 : From(pieces, j) \in Seq(Alphabet)
  <2> HIDE DEF n
  <2> SUFFICES ASSUME NEW j \in 1 .. n + 1
               PROVE  From(pieces, j) \in Seq(Alphabet)
    OBVIOUS
  <2>1. CASE j = n + 1
    <3>1. <<>> \in Seq(Alphabet)
      OBVIOUS
    <3> QED BY <1>5, <2>1, <3>1
  <2>2. CASE j # n + 1
    <3>1. j \in 1 .. n
      BY <1>1, <2>2
    <3>2. PICK a \in Seq(Alphabet), b \in Seq(Alphabet) : From(pieces, j) = a \o b
      BY <1>5, <3>1
    <3> QED BY <3>2
  <2> QED BY <2>1, <2>2
<1>8. \A j \in 1 .. n + 1 : FieldsText(p, count, after, j) \in Seq(Alphabet)
  <2> SUFFICES ASSUME NEW j \in 1 .. n + 1
               PROVE  From(pieces, j) \o T \in Seq(Alphabet)
    BY <1>6
  <2> DEFINE f == From(pieces, j)
  <2>1. f \in Seq(Alphabet)
    BY <1>7
  <2> HIDE DEF f
  <2>2. f \o T \in Seq(Alphabet)
    BY <1>3, <2>1
  <2> QED BY <2>2 DEF f
<1>9. ASSUME NEW j \in 1 .. n
      PROVE  /\ FieldEnd(p, count, after, j) \in Seq(Alphabet)
             /\ FieldsText(p, count, after, j) =
                    Escaped(p.fields[j].key, ESCAPE_CHARS_FIELD_KEY)
                    \o (<<EQUAL>> \o (Value(p.fields[j].value) \o FieldEnd(p, count, after, j)))
  <2> DEFINE K == Escaped(p.fields[j].key, ESCAPE_CHARS_FIELD_KEY)
             E == <<EQUAL>>
             V == Value(p.fields[j].value)
             C == IF j < n THEN <<COMMA>> ELSE <<>>
             F == From(pieces, j + 1)
  <2>1. /\ K \in Seq(Alphabet) /\ E \in Seq(Alphabet) /\ V \in Seq(Alphabet)
        /\ C \in Seq(Alphabet) /\ F \in Seq(Alphabet)
    <3>1. p.fields[j].key \in Seq(Chars) /\ p.fields[j].value \in FieldValue
      <4> DEFINE S == [key : Seq(Chars), value : FieldValue]
      <4>1. p.fields \in Seq(S)
        BY <1>1
      <4> HIDE DEF S
      <4>2. p.fields[j] \in S
        BY <4>1
      <4> QED BY <4>2 DEF S
    <3>2. <<EQUAL>> \in Seq(Alphabet) /\ <<COMMA>> \in Seq(Alphabet) /\ <<>> \in Seq(Alphabet)
      BY WordTypes DEF Chars
    <3>3. K \in Seq(Alphabet) /\ V \in Seq(Alphabet)
      BY <3>1, WordTypes
    <3>4. F \in Seq(Alphabet)
      BY <1>5
    <3> QED BY <3>2, <3>3, <3>4
  <2>2. pieces[j] = ((K \o E) \o V) \o C
    BY <1>2
  <2>3. FieldsText(p, count, after, j) = (pieces[j] \o F) \o T
    BY <1>5, <1>6
  <2>4. FieldEnd(p, count, after, j) = C \o (F \o T)
    <3>1. CASE j < n
      BY <1>6, <3>1 DEF FieldEnd
    <3>2. CASE ~(j < n)
      <4>1. j = n
        BY <1>1, <3>2
      <4>2. C = <<>> /\ F = <<>>
        BY <1>5, <3>2, <4>1
      <4>3. FieldEnd(p, count, after, j) = T
        BY <3>2 DEF FieldEnd, T
      <4> HIDE DEF C, F
      <4>4. <<>> \o T = T
        BY <1>3
      <4> QED BY <4>2, <4>3, <4>4
    <3> QED BY <3>1, <3>2
  <2> HIDE DEF K, E, V, C, F
  <2>5. ((((K \o E) \o V) \o C) \o F) \o T = K \o (E \o (V \o (C \o (F \o T))))
    <3>1. Cat(Cat(Cat(Cat(Cat(K, E), V), C), F), T) = Cat(K, Cat(E, Cat(V, Cat(C, Cat(F, T)))))
      BY SMTT(30), <1>3, <2>1, Regroup
    <3> QED BY <3>1 DEF Cat
  <2>6. FieldEnd(p, count, after, j) \in Seq(Alphabet)
    <3>1. F \o T \in Seq(Alphabet)
      BY <1>3, <2>1
    <3> DEFINE X == F \o T
    <3> HIDE DEF X
    <3>2. C \o X \in Seq(Alphabet)
      BY <2>1, <3>1 DEF X
    <3> QED BY <2>4, <3>2 DEF X
  <2>7. FieldsText(p, count, after, j) = K \o (E \o (V \o FieldEnd(p, count, after, j)))
    BY <2>2, <2>3, <2>4, <2>5
  <2> QED BY <2>6, <2>7 DEF K, E, V
<1> QED BY <1>3, <1>4, <1>5, <1>6, <1>8, <1>9 DEF T

(* A line is the measurement and what follows it; from the j-th tag on     *)
(* that is a comma, the key, an equals sign, the value and the rest, and   *)
(* after the last tag a space and the fields.                              *)
LEMMA TagsLayout ==
    ASSUME NEW p \in Point, NEW count \in Times, NEW after \in Seq(Alphabet)
    PROVE  /\ AppendPoint(p, count) \o after =
                Escaped(p.measurement, ESCAPE_CHARS_MEASUREMENT) \o TagsText(p, count, after, 1)
           /\ TagsText(p, count, after, Len(p.tags) + 1) =
                <<SPACE>> \o FieldsText(p, count, after, 1)
           /\ \A j \in 1 .. Len(p.tags) + 1 : TagsText(p, count, after, j) \in Seq(Alphabet)
           /\ \A j \in 1 .. Len(p.tags) :
                TagsText(p, count, after, j) =
                    <<COMMA>>
                    \o (Escaped(p.tags[j].key, ESCAPE_CHARS_TAG)
                        \o (<<EQUAL>>
                            \o (Escaped(p.tags[j].value, ESCAPE_CHARS_TAG)
                                \o TagsText(p, count, after, j + 1))))
<1> DEFINE pieces == TagPieces(p.tags)
           n == Len(p.tags)
           G == FieldsText(p, count, after, 1)
           sp == <<SPACE>>
           T == sp \o G
<1>1. p.tags \in Seq([key : Seq(Chars), value : Seq(Chars)]) /\ n \in Nat
  BY DEF Point
<1>2. /\ pieces \in Seq(Seq(Alphabet)) /\ Len(pieces) = n
      /\ \A i \in 1 .. n :
            pieces[i] =
                <<COMMA>> \o Escaped(p.tags[i].key, ESCAPE_CHARS_TAG)
                \o <<EQUAL>> \o Escaped(p.tags[i].value, ESCAPE_CHARS_TAG)
  BY <1>1, TagPiecesType
<1>3. sp \in Seq(Alphabet) /\ G \in Seq(Alphabet) /\ T \in Seq(Alphabet)
  <2>1. sp \in Seq(Alphabet)
    BY WordTypes DEF Chars
  <2>2. G \in Seq(Alphabet)
    <3>1. Len(p.fields) \in Nat
      BY DEF Point
    <3>2. 1 \in 1 .. Len(p.fields) + 1
      BY <3>1
    <3> QED BY <3>2, FieldsLayout
  <2> HIDE DEF sp, G
  <2> QED BY <2>1, <2>2
<1>4. Tags(p.tags) = FlattenSeq(pieces)
  BY DEF Tags, TagPieces
<1> HIDE DEF pieces, G, sp
<1>5. /\ From(pieces, 1) = FlattenSeq(pieces)
      /\ From(pieces, n + 1) = <<>>
      /\ \A j \in 1 .. n :
             /\ pieces[j] \in Seq(Alphabet)
             /\ From(pieces, j + 1) \in Seq(Alphabet)
             /\ From(pieces, j) = pieces[j] \o From(pieces, j + 1)
  BY <1>2, FromProperties
<1>6. \A j : TagsText(p, count, after, j) = From(pieces, j) \o T
  BY DEF TagsText, pieces, G, sp
<1> HIDE DEF T
<1>7. \A j \in 1 .. n + 1 : From(pieces, j) \in Seq(Alphabet)
  <2> HIDE DEF n
  <2> SUFFICES ASSUME NEW j \in 1 .. n + 1
               PROVE  From(pieces, j) \in Seq(Alphabet)
    OBVIOUS
  <2>1. CASE j = n + 1
    <3>1. <<>> \in Seq(Alphabet)
      OBVIOUS
    <3> QED BY <1>5, <2>1, <3>1
  <2>2. CASE j # n + 1
    <3>1. j \in 1 .. n
      BY <1>1, <2>2
    <3>2. PICK a \in Seq(Alphabet), b \in Seq(Alphabet) : From(pieces, j) = a \o b
      BY <1>5, <3>1
    <3> QED BY <3>2
  <2> QED BY <2>1, <2>2
<1>8. \A j \in 1 .. n + 1 : TagsText(p, count, after, j) \in Seq(Alphabet)
  <2> SUFFICES ASSUME NEW j \in 1 .. n + 1
               PROVE  From(pieces, j) \o T \in Seq(Alphabet)
    BY <1>6
  <2> DEFINE f == From(pieces, j)
  <2>1. f \in Seq(Alphabet)
    BY <1>7
  <2> HIDE DEF f
  <2>2. f \o T \in Seq(Alphabet)
    BY <1>3, <2>1
  <2> QED BY <2>2 DEF f
<1>9. ASSUME NEW j \in 1 .. n
      PROVE  TagsText(p, count, after, j) =
                <<COMMA>>
                \o (Escaped(p.tags[j].key, ESCAPE_CHARS_TAG)
                    \o (<<EQUAL>>
                        \o (Escaped(p.tags[j].value, ESCAPE_CHARS_TAG)
                            \o TagsText(p, count, after, j + 1))))
  <2> DEFINE C == <<COMMA>>
             K == Escaped(p.tags[j].key, ESCAPE_CHARS_TAG)
             E == <<EQUAL>>
             V == Escaped(p.tags[j].value, ESCAPE_CHARS_TAG)
             F == From(pieces, j + 1)
  <2>1. /\ K \in Seq(Alphabet) /\ E \in Seq(Alphabet) /\ V \in Seq(Alphabet)
        /\ C \in Seq(Alphabet) /\ F \in Seq(Alphabet)
    <3>1. p.tags[j].key \in Seq(Chars) /\ p.tags[j].value \in Seq(Chars)
      <4> DEFINE S == [key : Seq(Chars), value : Seq(Chars)]
      <4>1. p.tags \in Seq(S)
        BY <1>1
      <4> HIDE DEF S
      <4>2. p.tags[j] \in S
        BY <4>1
      <4> QED BY <4>2 DEF S
    <3>2. <<EQUAL>> \in Seq(Alphabet) /\ <<COMMA>> \in Seq(Alphabet)
      BY WordTypes DEF Chars
    <3>3. K \in Seq(Alphabet) /\ V \in Seq(Alphabet)
      BY <3>1, WordTypes
    <3>4. F \in Seq(Alphabet)
      BY <1>5
    <3> QED BY <3>2, <3>3, <3>4
  <2>2. pieces[j] = ((C \o K) \o E) \o V
    BY <1>2
  <2>3. TagsText(p, count, after, j) = (pieces[j] \o F) \o T
    BY <1>5, <1>6
  <2>4. TagsText(p, count, after, j + 1) = F \o T
    BY <1>6
  <2> HIDE DEF K, E, V, C, F
  <2>5. ((((C \o K) \o E) \o V) \o F) \o T = C \o (K \o (E \o (V \o (F \o T))))
    <3>1. T \in Seq(Alphabet)
      BY <1>3
    <3>2. Cat(Cat(Cat(Cat(Cat(C, K), E), V), F), T) = Cat(C, Cat(K, Cat(E, Cat(V, Cat(F, T)))))
      BY SMTT(30), <2>1, <3>1, Regroup
    <3> QED BY <3>2 DEF Cat
  <2>6. TagsText(p, count, after, j) = C \o (K \o (E \o (V \o TagsText(p, count, after, j + 1))))
    BY <2>2, <2>3, <2>4, <2>5
  <2> QED BY <2>6 DEF C, K, E, V
<1>10. AppendPoint(p, count) \o after =
            Escaped(p.measurement, ESCAPE_CHARS_MEASUREMENT) \o TagsText(p, count, after, 1)
  <2> DEFINE M == Escaped(p.measurement, ESCAPE_CHARS_MEASUREMENT)
             P == Tags(p.tags)
             F == Fields(p.fields)
             N == Timestamp(count)
  <2>1. /\ M \in Seq(Alphabet) /\ P \in Seq(Alphabet) /\ F \in Seq(Alphabet)
        /\ N \in Seq(Alphabet)
    <3>1. M \in Seq(Alphabet) /\ N \in Seq(Alphabet)
      BY WordTypes DEF Point
    <3>2. P \in Seq(Alphabet)
      BY <1>2, <1>4, FlattenType
    <3>3. F \in Seq(Alphabet)
      <4>1. p.fields \in Seq([key : Seq(Chars), value : FieldValue])
        BY DEF Point
      <4>2. FieldPieces(p.fields) \in Seq(Seq(Alphabet))
        BY <4>1, FieldPiecesType
      <4>3. F = FlattenSeq(FieldPieces(p.fields))
        BY DEF Fields, FieldPieces
      <4> QED BY <4>2, <4>3, FlattenType
    <3> QED BY <3>1, <3>2, <3>3
  <2>2. AppendPoint(p, count) = (((M \o P) \o sp) \o F) \o N
    BY DEF AppendPoint, sp
  <2>3. G = F \o (N \o after)
    BY FieldsLayout DEF G, TimeText
  <2>4. TagsText(p, count, after, 1) = P \o (sp \o G)
    BY <1>4, <1>5, <1>6 DEF T
  <2> HIDE DEF M, P, F, N
  <2>5. ((((M \o P) \o sp) \o F) \o N) \o after = M \o (P \o (sp \o (F \o (N \o after))))
    <3>1. sp \in Seq(Alphabet)
      BY <1>3
    <3>2. Cat(Cat(Cat(Cat(Cat(M, P), sp), F), N), after) =
             Cat(M, Cat(P, Cat(sp, Cat(F, Cat(N, after)))))
      BY <2>1, <3>1, Regroup
    <3> QED BY <3>2 DEF Cat
  <2> QED BY <2>2, <2>3, <2>4, <2>5 DEF M
<1>11. TagsText(p, count, after, n + 1) = sp \o G
  <2>1. <<>> \o T = T
    BY <1>3
  <2> QED BY <1>5, <1>6, <2>1 DEF T
<1> QED BY <1>8, <1>9, <1>10, <1>11 DEF sp, G

-----------------------------------------------------------------------------
(* The reader's steps.                                                     *)

(* What has a meaning and what ends a word, place by place.                *)
LEMMA PlaceFacts ==
    /\ place = "measurement" =>
        Meaningful = ESCAPE_CHARS_MEASUREMENT /\ Ends = ESCAPE_CHARS_MEASUREMENT \cup {LF}
    /\ place \in {"tag key", "tag value"} =>
        Meaningful = ESCAPE_CHARS_TAG /\ Ends = ESCAPE_CHARS_TAG \cup {LF}
    /\ place = "field key" =>
        Meaningful = ESCAPE_CHARS_FIELD_KEY /\ Ends = ESCAPE_CHARS_FIELD_KEY \cup {LF}
    /\ place = "string" => Meaningful = ESCAPE_CHARS_FIELD_VALUE /\ Ends = {DQUOTE}
    /\ place \in {"field value", "after string", "time"} =>
        Meaningful = {} /\ Ends = {COMMA, EQUAL, SPACE, DQUOTE, LF}
<1>1. place = "measurement" =>
        Meaningful = ESCAPE_CHARS_MEASUREMENT /\ Ends = ESCAPE_CHARS_MEASUREMENT \cup {LF}
  BY DEF Meaningful, Ends, ESCAPE_CHARS_MEASUREMENT
<1>2. place \in {"tag key", "tag value"} =>
        Meaningful = ESCAPE_CHARS_TAG /\ Ends = ESCAPE_CHARS_TAG \cup {LF}
  BY DEF Meaningful, Ends, ESCAPE_CHARS_TAG
<1>3. place = "field key" =>
        Meaningful = ESCAPE_CHARS_FIELD_KEY /\ Ends = ESCAPE_CHARS_FIELD_KEY \cup {LF}
  BY DEF Meaningful, Ends, ESCAPE_CHARS_FIELD_KEY
<1>4. place = "string" => Meaningful = ESCAPE_CHARS_FIELD_VALUE /\ Ends = {DQUOTE}
  BY DEF Meaningful, Ends, ESCAPE_CHARS_FIELD_VALUE
<1>5. place \in {"field value", "after string", "time"} =>
        Meaningful = {} /\ Ends = {COMMA, EQUAL, SPACE, DQUOTE, LF}
  BY DEF Meaningful, Ends
<1> QED BY <1>1, <1>2, <1>3, <1>4, <1>5

(* Clean names survive where names are read, all texts in a string.        *)
LEMMA NamesSurvive ==
    ASSUME NEW name \in Seq(Chars)
    PROVE  /\ Clean(name) =>
                \A escapes : Survives(name, escapes, escapes \cup {LF}) /\ name # <<>>
           /\ Survives(name, ESCAPE_CHARS_FIELD_VALUE, {DQUOTE})
<1>1. DOMAIN name = 1 .. Len(name)
  OBVIOUS
<1>2. ASSUME Clean(name), NEW escapes
      PROVE  Survives(name, escapes, escapes \cup {LF}) /\ name # <<>>
  <2>1. \A i \in 1 .. Len(name) : name[i] # LF
    BY <1>1, <1>2 DEF Clean, Range
  <2> QED BY <1>2, <2>1 DEF Clean, Survives
<1>3. Survives(name, ESCAPE_CHARS_FIELD_VALUE, {DQUOTE})
  BY DEF Survives, ESCAPE_CHARS_FIELD_VALUE
<1> QED BY <1>2, <1>3

(* Where the text goes on with a character of a word the reader takes it.  *)
LEMMA OnlyReadChar ==
    ASSUME state = "reading", os # <<>>, place \in Places \ {"after string"},
           Escape \/ Head(os) \notin Ends, Next
    PROVE  ReadChar
<1>1. ~EncodeNext /\ ~EncodeThrows /\ ~EncodeReturns /\ ~ReadEnds
  BY DEF EncodeNext, EncodeThrows, EncodeReturns, ReadEnds
<1>2. ~ReadFails
  BY DEF ReadFails
<1>3. ~TextEnds
  BY DEF TextEnds
<1>4. \A c, then : Turn(c, then) => c \notin Ends
  <2>1. ASSUME NEW c, NEW then, Turn(c, then)
        PROVE  c \notin Ends
    <3>1. ~Escape /\ Head(os) = c
      BY <2>1 DEF Turn
    <3> QED BY <3>1
  <2> QED BY <2>1
<1>5. ~ReadMeasurement /\ ~ReadTagKey /\ ~ReadTagValue /\ ~ReadFieldKey
  <2>1. \A c, then : WordEnds(c, then) => c \notin Ends
    BY <1>4 DEF WordEnds
  <2>2. ~ReadMeasurement
    BY <2>1, PlaceFacts DEF ReadMeasurement, ESCAPE_CHARS_MEASUREMENT
  <2>3. ~ReadTagKey /\ ~ReadTagValue
    BY <2>1, PlaceFacts DEF ReadTagKey, ReadTagValue, ESCAPE_CHARS_TAG
  <2>4. ~ReadFieldKey
    BY <2>1, PlaceFacts DEF ReadFieldKey, ESCAPE_CHARS_FIELD_KEY
  <2> QED BY <2>2, <2>3, <2>4
<1>6. ~OpenString /\ ~CloseString
  BY <1>4, PlaceFacts DEF OpenString, CloseString
<1>7. ~ReadFieldValue /\ ~ReadLineEnd
  <2>1. ~ReadFieldValue
    BY <1>4, PlaceFacts DEF ReadFieldValue, ValueEnds
  <2>2. ~ReadLineEnd
    BY <1>3, <1>4, PlaceFacts DEF ReadLineEnd, ValueEnds, LineComplete
  <2> QED BY <2>1, <2>2
<1> QED BY <1>1, <1>2, <1>5, <1>6, <1>7 DEF Next, ReadStep

(* Inside a name or a string the reader gets on with it.                   *)
LEMMA WordStep ==
    ASSUME state = "reading",
           place \in {"measurement", "tag key", "tag value", "field key", "string"},
           NEW name \in Seq(Chars), NEW escapes, NEW then \in Seq(Alphabet), then # <<>>,
           Meaningful = escapes, Survives(name, escapes, Ends),
           Within(name, escapes, then), word # name, Next
    PROVE  Within(name, escapes, then)' /\ UNCHANGED <<encoderVars, state, place, line, read>>
<1>1. /\ os # <<>> /\ (Escape \/ Head(os) \notin Ends)
      /\ ReadChar => Within(name, escapes, then)'
  BY WordGoesOn
<1>2. place \in Places \ {"after string"}
  BY DEF Places
<1>3. ReadChar
  BY <1>1, <1>2, OnlyReadChar
<1> QED BY <1>1, <1>3 DEF ReadChar

(* At a character that ends a word as expected the reader turns to what    *)
(* comes next.                                                             *)
LEMMA OnlyTurns ==
    ASSUME state = "reading", place \in Places, os # <<>>, ~Escape, Head(os) \in Turns, Next
    PROVE  \/ ReadMeasurement \/ ReadTagKey \/ ReadTagValue \/ ReadFieldKey
           \/ OpenString \/ CloseString \/ ReadFieldValue \/ ReadLineEnd
<1>1. ~EncodeNext /\ ~EncodeThrows /\ ~EncodeReturns /\ ~ReadEnds
  BY DEF EncodeNext, EncodeThrows, EncodeReturns, ReadEnds
<1>2. ~ReadFails
  BY DEF ReadFails
<1>3. ~ReadChar
  <2>1. place # "after string" => Turns \subseteq Ends
    <3>1. CASE place = "measurement"
      BY <3>1, PlaceFacts DEF Turns, ESCAPE_CHARS_MEASUREMENT
    <3>2. CASE place \in {"tag key", "tag value"}
      BY <3>2, PlaceFacts DEF Turns, ESCAPE_CHARS_TAG
    <3>3. CASE place = "field key"
      BY <3>3, PlaceFacts DEF Turns, ESCAPE_CHARS_FIELD_KEY
    <3>4. CASE place = "string"
      BY <3>4, PlaceFacts DEF Turns
    <3>5. CASE place \in {"field value", "time"}
      BY <3>5, PlaceFacts DEF Turns
    <3> QED BY <3>1, <3>2, <3>3, <3>4, <3>5 DEF Places
  <2> QED BY <2>1 DEF ReadChar
<1> QED BY <1>1, <1>2, <1>3 DEF Next, ReadStep

(* At the character that ends a measurement, a key or the value of a tag   *)
(* the reader takes it as that end.                                        *)
LEMMA NameTurns ==
    ASSUME state = "reading", os # <<>>, ~Escape, word # <<>>, Next
    PROVE  /\ place = "measurement" /\ Head(os) \in {COMMA, SPACE} => ReadMeasurement
           /\ place = "tag key" /\ Head(os) = EQUAL => ReadTagKey
           /\ place = "tag value" /\ Head(os) \in {COMMA, SPACE} => ReadTagValue
           /\ place = "field key" /\ Head(os) = EQUAL => ReadFieldKey
<1>1. CASE place = "measurement" /\ Head(os) \in {COMMA, SPACE}
  <2>1. place \in Places /\ Head(os) \in Turns
    BY <1>1 DEF Places, Turns
  <2> QED BY <1>1, <2>1, OnlyTurns DEF ReadTagKey, ReadTagValue, ReadFieldKey, OpenString,
          CloseString, ReadFieldValue, ReadLineEnd, ValueEnds, LineComplete
<1>2. CASE place = "tag key" /\ Head(os) = EQUAL
  <2>1. place \in Places /\ Head(os) \in Turns
    BY <1>2 DEF Places, Turns
  <2> QED BY <1>2, <2>1, OnlyTurns DEF ReadMeasurement, ReadTagValue, ReadFieldKey, OpenString,
          CloseString, ReadFieldValue, ReadLineEnd, ValueEnds, LineComplete
<1>3. CASE place = "tag value" /\ Head(os) \in {COMMA, SPACE}
  <2>1. place \in Places /\ Head(os) \in Turns
    BY <1>3 DEF Places, Turns
  <2> QED BY <1>3, <2>1, OnlyTurns DEF ReadMeasurement, ReadTagKey, ReadFieldKey, OpenString,
          CloseString, ReadFieldValue, ReadLineEnd, ValueEnds, LineComplete
<1>4. CASE place = "field key" /\ Head(os) = EQUAL
  <2>1. place \in Places /\ Head(os) \in Turns
    BY <1>4 DEF Places, Turns
  <2> QED BY <1>4, <2>1, OnlyTurns DEF ReadMeasurement, ReadTagKey, ReadTagValue, OpenString,
          CloseString, ReadFieldValue, ReadLineEnd, ValueEnds, LineComplete
<1> QED BY <1>1, <1>2, <1>3, <1>4

(* The same for the quotes of a string, the end of a value and the end of  *)
(* a line.                                                                 *)
LEMMA ValueTurns ==
    ASSUME state = "reading", os # <<>>, ~Escape, Next
    PROVE  /\ place = "field value" /\ word = <<>> /\ Head(os) = DQUOTE => OpenString
           /\ place = "string" /\ Head(os) = DQUOTE => CloseString
           /\ ValueEnds /\ Head(os) \in {COMMA, SPACE} => ReadFieldValue
           /\ LineComplete /\ Head(os) = LF => ReadLineEnd
<1>1. ASSUME place = "field value", word = <<>>, Head(os) = DQUOTE
      PROVE  OpenString
  <2>1. place \in Places /\ Head(os) \in Turns
    BY <1>1 DEF Places, Turns
  <2> QED BY <1>1, <2>1, OnlyTurns DEF ReadMeasurement, ReadTagKey, ReadTagValue, ReadFieldKey,
          CloseString, ReadFieldValue, ReadLineEnd, ValueEnds, LineComplete
<1>2. ASSUME place = "string", Head(os) = DQUOTE
      PROVE  CloseString
  <2>1. place \in Places /\ Head(os) \in Turns
    BY <1>2 DEF Places, Turns
  <2> QED BY <1>2, <2>1, OnlyTurns DEF ReadMeasurement, ReadTagKey, ReadTagValue, ReadFieldKey,
          OpenString, ReadFieldValue, ReadLineEnd, ValueEnds, LineComplete
<1>3. ASSUME ValueEnds, Head(os) \in {COMMA, SPACE}
      PROVE  ReadFieldValue
  <2>1. place \in {"after string", "field value"} /\ (place = "field value" => word # <<>>)
    BY <1>3 DEF ValueEnds
  <2>2. place \in Places /\ Head(os) \in Turns
    BY <1>3, <2>1 DEF Places, Turns
  <2>3. ~ReadMeasurement /\ ~ReadTagKey /\ ~ReadTagValue /\ ~ReadFieldKey /\ ~OpenString
        /\ ~CloseString
    BY <2>1 DEF ReadMeasurement, ReadTagKey, ReadTagValue, ReadFieldKey, OpenString, CloseString
  <2>4. ~ReadLineEnd
    BY <1>3 DEF ReadLineEnd, Turn, TextEnds, COMMA, SPACE, LF
  <2> QED BY <2>2, <2>3, <2>4, OnlyTurns
<1>4. ASSUME LineComplete, Head(os) = LF
      PROVE  ReadLineEnd
  <2>1. /\ place \in {"after string", "field value", "time"}
        /\ place # "after string" => word # <<>>
    BY <1>4 DEF LineComplete, ValueEnds
  <2>2. place \in Places /\ Head(os) \in Turns
    BY <1>4, <2>1 DEF Places, Turns
  <2>3. ~ReadMeasurement /\ ~ReadTagKey /\ ~ReadTagValue /\ ~ReadFieldKey /\ ~OpenString
        /\ ~CloseString
    BY <2>1 DEF ReadMeasurement, ReadTagKey, ReadTagValue, ReadFieldKey, OpenString, CloseString
  <2>4. ~ReadFieldValue
    BY <1>4 DEF ReadFieldValue, Turn, COMMA, SPACE, LF
  <2> QED BY <2>2, <2>3, <2>4, OnlyTurns
<1> QED BY <1>1, <1>2, <1>3, <1>4

(* The end of the text ends the last line.                                 *)
LEMMA LastLineEnds ==
    ASSUME state = "reading", os = <<>>, LineComplete, Next
    PROVE  ReadLineEnd /\ TextEnds
<1>1. ~EncodeNext /\ ~EncodeThrows /\ ~EncodeReturns /\ ~ReadEnds /\ ~ReadFails /\ ~ReadChar
  BY DEF EncodeNext, EncodeThrows, EncodeReturns, ReadEnds, ReadFails, ReadChar
<1>2. \A c, then : ~Turn(c, then)
  BY DEF Turn
<1> QED BY <1>1, <1>2 DEF Next, ReadStep, ReadMeasurement, ReadTagKey, ReadTagValue, ReadFieldKey,
        OpenString, CloseString, ReadFieldValue, ReadLineEnd, WordEnds

-----------------------------------------------------------------------------
(* The point that is put together.                                         *)
LineWith(measurement, tags, fields) ==
    [measurement |-> measurement, tags |-> tags, fields |-> fields, time |-> Now]

(* A change of the last element.                                           *)
LEMMA LastChanged ==
    ASSUME NEW S, NEW T \in Seq(S), NEW x \in S, NEW y \in S
    PROVE  /\ Len(Append(T, x)) = Len(T) + 1
           /\ Append(T, x)[Len(T) + 1] = x
           /\ [Append(T, x) EXCEPT ![Len(T) + 1] = y] = Append(T, y)
<1> DEFINE n == Len(T)
           q == [Append(T, x) EXCEPT ![n + 1] = y]
<1>1. /\ n \in Nat /\ Append(T, x) \in Seq(S) /\ Append(T, y) \in Seq(S)
      /\ Len(Append(T, x)) = n + 1 /\ Len(Append(T, y)) = n + 1
      /\ Append(T, x)[n + 1] = x /\ Append(T, y)[n + 1] = y
      /\ \A i \in 1 .. n : Append(T, x)[i] = T[i] /\ Append(T, y)[i] = T[i]
  OBVIOUS
<1>2. DOMAIN Append(T, x) = 1 .. n + 1
  BY <1>1
<1>3. q \in Seq(S) /\ Len(q) = n + 1
  <2>1. q = [i \in 1 .. n + 1 |-> IF i = n + 1 THEN y ELSE Append(T, x)[i]]
    BY <1>2
  <2>2. q \in [1 .. n + 1 -> S]
    BY <1>1, <2>1
  <2> HIDE DEF q
  <2> QED BY <1>1, <2>2
<1>4. \A i \in 1 .. n + 1 : q[i] = IF i = n + 1 THEN y ELSE Append(T, x)[i]
  BY <1>2
<1> HIDE DEF q
<1>5. \A i \in 1 .. n + 1 : q[i] = Append(T, y)[i]
  BY <1>1, <1>4
<1>6. q = Append(T, y)
  BY <1>1, <1>3, <1>5, SeqEqual
<1> QED BY <1>1, <1>6 DEF q

(* A change of one part leaves the others.                                 *)
LEMMA Changed ==
    ASSUME NEW m, NEW T, NEW F, NEW x, line = LineWith(m, T, F)
    PROVE  /\ [line EXCEPT !.measurement = x] = LineWith(x, T, F)
           /\ [line EXCEPT !.tags = x] = LineWith(m, x, F)
           /\ [line EXCEPT !.fields = x] = LineWith(m, T, x)
           /\ [line EXCEPT !.time = x] =
                    [measurement |-> m, tags |-> T, fields |-> F, time |-> x]
<1>1. [line EXCEPT !.measurement = x] = LineWith(x, T, F)
  BY DEF LineWith
<1>2. [line EXCEPT !.tags = x] = LineWith(m, x, F)
  BY DEF LineWith
<1>3. [line EXCEPT !.fields = x] = LineWith(m, T, x)
  BY DEF LineWith
<1>4. [line EXCEPT !.time = x] = [measurement |-> m, tags |-> T, fields |-> F, time |-> x]
  BY DEF LineWith
<1> QED BY <1>1, <1>2, <1>3, <1>4

(* The line with the value of its last tag, the value of its last field    *)
(* and the text of that value.                                             *)
LineWithTagValue(w) == [line EXCEPT !.tags[LastTag].value = w]
LineWithFieldValue(w) == [line EXCEPT !.fields[LastField].value = w]
LineWithFieldText(w) == [line EXCEPT !.fields[LastField].value.text = w]

(* The value of the last tag is set,                                       *)
LEMMA TagValueSet ==
    ASSUME NEW S, NEW Q \in Seq(S), NEW m, NEW F, NEW x \in S, NEW y \in S, NEW w,
           [x EXCEPT !.value = w] = y, line = LineWith(m, Append(Q, x), F)
    PROVE  LineWithTagValue(w) = LineWith(m, Append(Q, y), F)
<1> DEFINE q == Append(Q, x)
<1>1. q[Len(q)] = x /\ [q EXCEPT ![Len(q)] = y] = Append(Q, y)
  BY LastChanged
<1>2. line.tags = q /\ LastTag = Len(q)
  BY DEF LineWith, LastTag
<1>3. [q EXCEPT ![Len(q)].value = w] = Append(Q, y)
  <2>1. [q EXCEPT ![Len(q)].value = w] = [q EXCEPT ![Len(q)] = [q[Len(q)] EXCEPT !.value = w]]
    OBVIOUS
  <2> QED BY <1>1, <2>1
<1>4. LineWithTagValue(w) = [line EXCEPT !.tags = [q EXCEPT ![Len(q)].value = w]]
  BY <1>2 DEF LineWithTagValue
<1>5. [line EXCEPT !.tags = Append(Q, y)] = LineWith(m, Append(Q, y), F)
  <2> DEFINE z == Append(Q, y)
  <2>1. line = LineWith(m, q, F)
    OBVIOUS
  <2> HIDE DEF q, z
  <2>2. [line EXCEPT !.tags = z] = LineWith(m, z, F)
    BY <2>1 DEF LineWith
  <2> QED BY <2>2 DEF z
<1> QED BY <1>3, <1>4, <1>5

(* the value of the last field,                                            *)
LEMMA FieldValueSet ==
    ASSUME NEW S, NEW Q \in Seq(S), NEW m, NEW T, NEW x \in S, NEW y \in S, NEW w,
           [x EXCEPT !.value = w] = y, line = LineWith(m, T, Append(Q, x))
    PROVE  LineWithFieldValue(w) = LineWith(m, T, Append(Q, y))
<1> DEFINE q == Append(Q, x)
<1>1. q[Len(q)] = x /\ [q EXCEPT ![Len(q)] = y] = Append(Q, y)
  BY LastChanged
<1>2. line.fields = q /\ LastField = Len(q)
  BY DEF LineWith, LastField
<1>3. [q EXCEPT ![Len(q)].value = w] = Append(Q, y)
  <2>1. [q EXCEPT ![Len(q)].value = w] = [q EXCEPT ![Len(q)] = [q[Len(q)] EXCEPT !.value = w]]
    OBVIOUS
  <2> QED BY <1>1, <2>1
<1>4. LineWithFieldValue(w) = [line EXCEPT !.fields = [q EXCEPT ![Len(q)].value = w]]
  BY <1>2 DEF LineWithFieldValue
<1>5. [line EXCEPT !.fields = Append(Q, y)] = LineWith(m, T, Append(Q, y))
  <2> DEFINE z == Append(Q, y)
  <2>1. line = LineWith(m, T, q)
    OBVIOUS
  <2> HIDE DEF q, z
  <2>2. [line EXCEPT !.fields = z] = LineWith(m, T, z)
    BY <2>1 DEF LineWith
  <2> QED BY <2>2 DEF z
<1> QED BY <1>3, <1>4, <1>5

(* and the text of that value.                                             *)
LEMMA FieldTextSet ==
    ASSUME NEW S, NEW Q \in Seq(S), NEW m, NEW T, NEW x \in S, NEW y \in S, NEW w,
           [x EXCEPT !.value.text = w] = y, line = LineWith(m, T, Append(Q, x))
    PROVE  LineWithFieldText(w) = LineWith(m, T, Append(Q, y))
<1> DEFINE q == Append(Q, x)
<1>1. q[Len(q)] = x /\ [q EXCEPT ![Len(q)] = y] = Append(Q, y)
  BY LastChanged
<1>2. line.fields = q /\ LastField = Len(q)
  BY DEF LineWith, LastField
<1>3. [q EXCEPT ![Len(q)].value.text = w] = Append(Q, y)
  <2>1. [q EXCEPT ![Len(q)].value.text = w] =
           [q EXCEPT ![Len(q)] = [q[Len(q)] EXCEPT !.value.text = w]]
    OBVIOUS
  <2> QED BY <1>1, <2>1
<1>4. LineWithFieldText(w) = [line EXCEPT !.fields = [q EXCEPT ![Len(q)].value.text = w]]
  BY <1>2 DEF LineWithFieldText
<1>5. [line EXCEPT !.fields = Append(Q, y)] = LineWith(m, T, Append(Q, y))
  <2> DEFINE z == Append(Q, y)
  <2>1. line = LineWith(m, T, q)
    OBVIOUS
  <2> HIDE DEF q, z
  <2>2. [line EXCEPT !.fields = z] = LineWith(m, T, z)
    BY <2>1 DEF LineWith
  <2> QED BY <2>2 DEF z
<1> QED BY <1>3, <1>4, <1>5

-----------------------------------------------------------------------------
(* Where the reader can be in the line of the point p, written with this   *)
(* count, before the text `after`.                                         *)
InMeasurement(p, count, after) ==
    /\ place = "measurement"
    /\ line = Nothing
    /\ Within(p.measurement, ESCAPE_CHARS_MEASUREMENT, TagsText(p, count, after, 1))

InTagKey(p, count, after, j) ==
    /\ place = "tag key"
    /\ line = LineWith(p.measurement, SubSeq(p.tags, 1, j - 1), <<>>)
    /\ Within(p.tags[j].key, ESCAPE_CHARS_TAG,
            <<EQUAL>> \o (Escaped(p.tags[j].value, ESCAPE_CHARS_TAG)
                          \o TagsText(p, count, after, j + 1)))

InTagValue(p, count, after, j) ==
    /\ place = "tag value"
    /\ line = LineWith(p.measurement,
                Append(SubSeq(p.tags, 1, j - 1), [key |-> p.tags[j].key, value |-> <<>>]), <<>>)
    /\ Within(p.tags[j].value, ESCAPE_CHARS_TAG, TagsText(p, count, after, j + 1))

InFieldKey(p, count, after, j) ==
    /\ place = "field key"
    /\ line = LineWith(p.measurement, p.tags, SubSeq(p.fields, 1, j - 1))
    /\ Within(p.fields[j].key, ESCAPE_CHARS_FIELD_KEY,
            <<EQUAL>> \o (Value(p.fields[j].value) \o FieldEnd(p, count, after, j)))

(* The fields while the value of the j-th one is read.                     *)
FieldBegun(p, j) ==
    Append(SubSeq(p.fields, 1, j - 1),
           [key |-> p.fields[j].key, value |-> [kind |-> "string", text |-> <<>>]])

AtFieldValue(p, count, after, j) ==
    /\ place = "field value"
    /\ line = LineWith(p.measurement, p.tags, FieldBegun(p, j))
    /\ \/ word = <<>> /\ os = Value(p.fields[j].value) \o FieldEnd(p, count, after, j)
       \/ /\ p.fields[j].value.kind = "number" /\ word = p.fields[j].value.text
          /\ os = FieldEnd(p, count, after, j)

InString(p, count, after, j) ==
    /\ place = "string"
    /\ line = LineWith(p.measurement, p.tags, FieldBegun(p, j))
    /\ p.fields[j].value.kind = "string"
    /\ Within(p.fields[j].value.text, ESCAPE_CHARS_FIELD_VALUE,
            <<DQUOTE>> \o FieldEnd(p, count, after, j))

AfterString(p, count, after, j) ==
    /\ place = "after string"
    /\ line = LineWith(p.measurement, p.tags, SubSeq(p.fields, 1, j))
    /\ word = <<>>
    /\ os = FieldEnd(p, count, after, j)

AtTime(p, count, after) ==
    /\ place = "time"
    /\ line = LineWith(p.measurement, p.tags, p.fields)
    /\ ~Omitted(count)
    /\ \/ word = <<>> /\ os = <<TimeToken(count)>> \o after
       \/ word = <<TimeToken(count)>> /\ os = after

InLine(p, count, after) ==
    \/ InMeasurement(p, count, after)
    \/ \E j \in 1 .. Len(p.tags) : InTagKey(p, count, after, j) \/ InTagValue(p, count, after, j)
    \/ \E j \in 1 .. Len(p.fields) :
            \/ InFieldKey(p, count, after, j) \/ AtFieldValue(p, count, after, j)
            \/ InString(p, count, after, j) \/ AfterString(p, count, after, j)
    \/ AtTime(p, count, after)

(* What the reader makes of the line, and the step that ends it.           *)
WholeLine(p, count) ==
    [measurement |-> p.measurement, tags |-> p.tags, fields |-> p.fields,
     time |-> IF Omitted(count) THEN Now ELSE TimeToken(count)]

LineEnds(p, count, after) ==
    /\ read' = Append(read, WholeLine(p, count))
    /\ place' = "measurement" /\ word' = <<>> /\ line' = Nothing
    /\ os' = IF after = <<>> THEN <<>> ELSE Tail(after)

LineGoesOn(p, count, after) == InLine(p, count, after)' /\ read' = read

(* A point whose names survive, and what may follow its line.              *)
Writable(p, count, after) ==
    /\ p \in Point /\ CleanPoint(p) /\ p.fields # <<>>
    /\ count \in Times
    /\ after \in Seq(Alphabet) /\ (after = <<>> \/ Head(after) = LF)

-----------------------------------------------------------------------------
(* The tags of a point, each of its parts clean if the point is.           *)
LEMMA TagParts ==
    ASSUME NEW p \in Point
    PROVE  /\ Len(p.tags) \in Nat
           /\ p.tags \in Seq([key : Seq(Chars), value : Seq(Chars)])
           /\ \A j \in 1 .. Len(p.tags) :
                /\ p.tags[j].key \in Seq(Chars) /\ p.tags[j].value \in Seq(Chars)
                /\ p.tags[j] = [key |-> p.tags[j].key, value |-> p.tags[j].value]
                /\ CleanPoint(p) => Clean(p.tags[j].key) /\ Clean(p.tags[j].value)
<1> DEFINE S == [key : Seq(Chars), value : Seq(Chars)]
<1>1. p.tags \in Seq(S)
  BY DEF Point
<1>2. \A x \in S : /\ x.key \in Seq(Chars) /\ x.value \in Seq(Chars)
                   /\ x = [key |-> x.key, value |-> x.value]
  OBVIOUS
<1>3. CleanPoint(p) =>
        \A j \in 1 .. Len(p.tags) : Clean(p.tags[j].key) /\ Clean(p.tags[j].value)
  BY <1>1 DEF CleanPoint
<1> HIDE DEF S
<1>4. Len(p.tags) \in Nat /\ \A j \in 1 .. Len(p.tags) : p.tags[j] \in S
  BY <1>1
<1>5. \A j \in 1 .. Len(p.tags) :
        /\ p.tags[j].key \in Seq(Chars) /\ p.tags[j].value \in Seq(Chars)
        /\ p.tags[j] = [key |-> p.tags[j].key, value |-> p.tags[j].value]
  BY Zenon, <1>2, <1>4
<1> QED BY <1>1, <1>3, <1>4, <1>5 DEF S

(* The fields of a point, each key clean if the point is.                  *)
LEMMA FieldParts ==
    ASSUME NEW p \in Point
    PROVE  /\ Len(p.fields) \in Nat
           /\ p.fields \in Seq([key : Seq(Chars), value : FieldValue])
           /\ \A j \in 1 .. Len(p.fields) :
                /\ p.fields[j].key \in Seq(Chars) /\ p.fields[j].value \in FieldValue
                /\ p.fields[j] = [key |-> p.fields[j].key, value |-> p.fields[j].value]
                /\ CleanPoint(p) => Clean(p.fields[j].key)
<1> DEFINE S == [key : Seq(Chars), value : FieldValue]
<1>1. p.fields \in Seq(S)
  BY DEF Point
<1>2. \A x \in S : /\ x.key \in Seq(Chars) /\ x.value \in FieldValue
                   /\ x = [key |-> x.key, value |-> x.value]
  OBVIOUS
<1>3. CleanPoint(p) => \A j \in 1 .. Len(p.fields) : Clean(p.fields[j].key)
  BY <1>1 DEF CleanPoint
<1> HIDE DEF S
<1>4. Len(p.fields) \in Nat /\ \A j \in 1 .. Len(p.fields) : p.fields[j] \in S
  BY <1>1
<1>5. \A j \in 1 .. Len(p.fields) :
        /\ p.fields[j].key \in Seq(Chars) /\ p.fields[j].value \in FieldValue
        /\ p.fields[j] = [key |-> p.fields[j].key, value |-> p.fields[j].value]
  BY Zenon, <1>2, <1>4
<1> QED BY <1>1, <1>3, <1>4, <1>5 DEF S

(* The next character of a text, which has no meaning by itself.           *)
LEMMA NextCharacter ==
    ASSUME NEW x \in Alphabet, NEW rest \in Seq(Alphabet), os = <<x>> \o rest
    PROVE  /\ os # <<>> /\ Head(os) = x /\ Tail(os) = rest
           /\ x # BSLASH => ~Escape
<1>1. os # <<>> /\ Head(os) = x /\ Tail(os) = rest /\ os[1] = x
  OBVIOUS
<1> QED BY <1>1 DEF Escape

(* A name that begins.                                                     *)
LEMMA WordBegins ==
    ASSUME NEW name \in Seq(Chars), NEW escapes, NEW then,
           word' = <<>>, os' = Escaped(name, escapes) \o then
    PROVE  Within(name, escapes, then)'
<1>1. Escaped(name, escapes) = EscapedFrom(name, escapes, 1)
  BY EscapedFromProperties
<1>2. Len(<<>>) = 0 /\ <<>> \in Seq(Chars) /\ Len(name) \in Nat /\ SubSeq(name, 1, 0) = <<>>
  OBVIOUS
<1> QED BY <1>1, <1>2 DEF Within

(* After a comma the reader is at the beginning of the next tag,           *)
LEMMA TagBegins ==
    ASSUME NEW p \in Point, NEW count, NEW after, NEW j \in 1 .. Len(p.tags),
           place' = "tag key", word' = <<>>,
           line' = LineWith(p.measurement, SubSeq(p.tags, 1, j - 1), <<>>),
           os' = Escaped(p.tags[j].key, ESCAPE_CHARS_TAG)
                 \o (<<EQUAL>> \o (Escaped(p.tags[j].value, ESCAPE_CHARS_TAG)
                                   \o TagsText(p, count, after, j + 1)))
    PROVE  InLine(p, count, after)'
<1>1. p.tags[j].key \in Seq(Chars)
  BY TagParts
<1>2. Within(p.tags[j].key, ESCAPE_CHARS_TAG,
            <<EQUAL>> \o (Escaped(p.tags[j].value, ESCAPE_CHARS_TAG)
                          \o TagsText(p, count, after, j + 1)))'
  BY <1>1, WordBegins
<1>3. InTagKey(p, count, after, j)'
  BY <1>2 DEF InTagKey
<1> QED BY <1>3 DEF InLine

(* and after a space or a comma at the beginning of the next field.        *)
LEMMA FieldBegins ==
    ASSUME NEW p \in Point, NEW count \in Times, NEW after \in Seq(Alphabet),
           NEW j \in 1 .. Len(p.fields),
           place' = "field key", word' = <<>>,
           line' = LineWith(p.measurement, p.tags, SubSeq(p.fields, 1, j - 1)),
           os' = FieldsText(p, count, after, j)
    PROVE  InLine(p, count, after)'
<1>1. p.fields[j].key \in Seq(Chars)
  BY FieldParts
<1>2. os' = Escaped(p.fields[j].key, ESCAPE_CHARS_FIELD_KEY)
            \o (<<EQUAL>> \o (Value(p.fields[j].value) \o FieldEnd(p, count, after, j)))
  BY FieldsLayout
<1>3. Within(p.fields[j].key, ESCAPE_CHARS_FIELD_KEY,
            <<EQUAL>> \o (Value(p.fields[j].value) \o FieldEnd(p, count, after, j)))'
  BY <1>1, <1>2, WordBegins
<1>4. InFieldKey(p, count, after, j)'
  BY <1>3 DEF InFieldKey
<1> QED BY <1>4 DEF InLine

(* A complete line ends at the end of the text and at a line feed.         *)
LEMMA LineStops ==
    ASSUME state = "reading", LineComplete, NEW after \in Seq(Alphabet),
           after = <<>> \/ Head(after) = LF, os = after, Next
    PROVE  /\ read' = Append(read, IF place = "time" THEN [line EXCEPT !.time = word[1]]
                                   ELSE WithValue)
           /\ place' = "measurement" /\ word' = <<>> /\ line' = Nothing
           /\ os' = IF after = <<>> THEN <<>> ELSE Tail(after)
           /\ UNCHANGED <<encoderVars, state>>
<1>1. CASE after = <<>>
  <2>1. ReadLineEnd /\ TextEnds
    BY <1>1, LastLineEnds
  <2>2. UNCHANGED os /\ word' = <<>> /\ place' = "measurement"
    BY <2>1 DEF TextEnds
  <2> QED BY <1>1, <2>1, <2>2 DEF ReadLineEnd
<1>2. CASE after # <<>>
  <2>1. Head(os) = LF /\ os # <<>> /\ ~Escape
    <3>1. os # <<>> /\ Head(os) = LF
      BY <1>2
    <3>2. os[1] = Head(os)
      BY <1>2
    <3>3. os[1] # BSLASH
      BY <3>1, <3>2 DEF LF, BSLASH
    <3> QED BY <3>1, <3>3 DEF Escape
  <2>2. ReadLineEnd
    BY <2>1, ValueTurns
  <2>3. Turn(LF, "measurement")
    BY <2>1, <2>2 DEF ReadLineEnd, TextEnds
  <2> QED BY <1>2, <2>2, <2>3 DEF ReadLineEnd, Turn
<1> QED BY <1>1, <1>2

(* After the last field come the time, the next line or nothing.           *)
LEMMA TimeComes ==
    ASSUME NEW p, NEW count, NEW after, Writable(p, count, after),
           state = "reading", ValueEnds, os = TimeText(count, after),
           WithValue = LineWith(p.measurement, p.tags, p.fields), Next
    PROVE  /\ UNCHANGED <<encoderVars, state>>
           /\ LineGoesOn(p, count, after) \/ LineEnds(p, count, after)
<1>0. after \in Seq(Alphabet) /\ (after = <<>> \/ Head(after) = LF) /\ count \in Times
  BY DEF Writable
<1>1. CASE Omitted(count)
  <2>1. os = after
    <3>1. Timestamp(count) = <<>>
      BY <1>1 DEF Timestamp
    <3>2. <<>> \o after = after
      BY <1>0
    <3> QED BY <3>1, <3>2 DEF TimeText
  <2>2. LineComplete /\ place # "time"
    BY DEF LineComplete, ValueEnds
  <2>3. /\ read' = Append(read, IF place = "time" THEN [line EXCEPT !.time = word[1]]
                                ELSE WithValue)
        /\ place' = "measurement" /\ word' = <<>> /\ line' = Nothing
        /\ os' = IF after = <<>> THEN <<>> ELSE Tail(after)
        /\ UNCHANGED <<encoderVars, state>>
    BY Zenon, <1>0, <2>1, <2>2, LineStops
  <2>4. LineWith(p.measurement, p.tags, p.fields) = WholeLine(p, count)
    BY <1>1 DEF LineWith, WholeLine
  <2>5. read' = Append(read, WholeLine(p, count))
    BY Zenon, <2>2, <2>3, <2>4
  <2> QED BY Zenon, <2>3, <2>5 DEF LineEnds
<1>2. CASE ~Omitted(count)
  <2> DEFINE rest == <<TimeToken(count)>> \o after
  <2>1. rest \in Seq(Alphabet) /\ SPACE \in Alphabet
    <3>1. TimeToken(count) \in Alphabet /\ SPACE \in Alphabet
      BY <1>0 DEF Alphabet, Chars
    <3> QED BY <1>0, <3>1
  <2>2. os = <<SPACE>> \o rest
    <3>1. Timestamp(count) = <<SPACE, TimeToken(count)>>
      BY <1>2 DEF Timestamp
    <3>2. TimeToken(count) \in Alphabet /\ SPACE \in Alphabet
      BY <1>0 DEF Alphabet, Chars
    <3> DEFINE t == TimeToken(count)
    <3>3. os = <<SPACE, t>> \o after
      BY Zenon, <3>1 DEF TimeText
    <3> HIDE DEF t
    <3>4. <<SPACE, t>> \o after = <<SPACE>> \o (<<t>> \o after)
      BY <1>0, <3>2 DEF t
    <3> QED BY <3>3, <3>4 DEF t
  <2> HIDE DEF rest
  <2>3. os # <<>> /\ Head(os) = SPACE /\ Tail(os) = rest /\ ~Escape
    <3>1. SPACE # BSLASH
      BY DEF SPACE, BSLASH
    <3> QED BY <2>1, <2>2, <3>1, NextCharacter
  <2>4. ReadFieldValue
    BY <2>3, ValueTurns
  <2>5. Turn(SPACE, "time") /\ line' = WithValue /\ UNCHANGED <<encoderVars, state, read>>
    BY <2>3, <2>4 DEF ReadFieldValue, Turn, COMMA, SPACE
  <2>6. word' = <<>> /\ place' = "time" /\ os' = rest
    BY <2>3, <2>5 DEF Turn
  <2>7. AtTime(p, count, after)'
    BY <1>2, <2>5, <2>6 DEF AtTime, rest
  <2>8. InLine(p, count, after)'
    BY Zenon, <2>7 DEF InLine
  <2> QED BY <2>5, <2>8 DEF LineGoesOn
<1> QED BY <1>1, <1>2

(* After the value of a field comes the next field or the end of them.     *)
LEMMA ValueIsOver ==
    ASSUME NEW p, NEW count, NEW after, Writable(p, count, after),
           NEW j \in 1 .. Len(p.fields),
           state = "reading", ValueEnds, os = FieldEnd(p, count, after, j),
           WithValue = LineWith(p.measurement, p.tags, SubSeq(p.fields, 1, j)), Next
    PROVE  /\ UNCHANGED <<encoderVars, state>>
           /\ LineGoesOn(p, count, after) \/ LineEnds(p, count, after)
<1>0. after \in Seq(Alphabet) /\ count \in Times /\ p \in Point
  BY DEF Writable
<1> DEFINE n == Len(p.fields)
<1>1. n \in Nat /\ j \in Nat /\ j <= n
  BY <1>0, FieldParts
<1> DEFINE S == [key : Seq(Chars), value : FieldValue]
<1>2. p.fields \in Seq(S)
  BY <1>0, FieldParts
<1> HIDE DEF S
<1>3. CASE j = n
  <2>1. SubSeq(p.fields, 1, n) = p.fields
    BY <1>2, SubSeqFull
  <2>2. FieldEnd(p, count, after, j) = TimeText(count, after)
    BY <1>3 DEF FieldEnd
  <2> QED BY Zenon, <1>3, <2>1, <2>2, TimeComes
<1>4. CASE j # n
  <2>1. j < n /\ j + 1 \in 1 .. n
    BY <1>1, <1>4
  <2> DEFINE rest == FieldsText(p, count, after, j + 1)
  <2>2. os = <<COMMA>> \o rest
    BY <2>1 DEF FieldEnd
  <2>3. rest \in Seq(Alphabet)
    <3>1. j + 1 \in 1 .. Len(p.fields) + 1
      BY <1>1, <2>1
    <3>2. \A k \in 1 .. Len(p.fields) + 1 : FieldsText(p, count, after, k) \in Seq(Alphabet)
      BY <1>0, FieldsLayout
    <3> QED BY <3>1, <3>2
  <2>4. COMMA \in Alphabet /\ COMMA # BSLASH /\ COMMA # SPACE
    BY DEF Alphabet, Chars, COMMA, SPACE, BSLASH
  <2> HIDE DEF rest
  <2>5. os # <<>> /\ Head(os) = COMMA /\ Tail(os) = rest /\ ~Escape
    BY <2>2, <2>3, <2>4, NextCharacter
  <2>6. ReadFieldValue
    BY <2>5, ValueTurns
  <2>7. Turn(COMMA, "field key") /\ line' = WithValue /\ UNCHANGED <<encoderVars, state, read>>
    BY <2>4, <2>5, <2>6 DEF ReadFieldValue, Turn
  <2>8. word' = <<>> /\ place' = "field key" /\ os' = FieldsText(p, count, after, j + 1)
    BY <2>5, <2>7 DEF Turn, rest
  <2>9. line' = LineWith(p.measurement, p.tags, SubSeq(p.fields, 1, (j + 1) - 1))
    <3>1. (j + 1) - 1 = j
      BY <1>1
    <3> QED BY <2>7, <3>1
  <2>10. InLine(p, count, after)'
    BY <1>0, <2>1, <2>8, <2>9, FieldBegins
  <2> QED BY <2>7, <2>10 DEF LineGoesOn
<1> QED BY <1>3, <1>4

(* After the measurement and after each tag comes a comma and a tag, or a  *)
(* space and the fields.                                                   *)
LEMMA TagsNext ==
    ASSUME NEW p \in Point, NEW count \in Times, NEW after \in Seq(Alphabet),
           NEW j \in 1 .. Len(p.tags) + 1
    PROVE  /\ TagsText(p, count, after, j) \in Seq(Alphabet)
           /\ TagsText(p, count, after, j) # <<>>
           /\ \/ /\ j \in 1 .. Len(p.tags)
                 /\ Head(TagsText(p, count, after, j)) = COMMA
                 /\ Tail(TagsText(p, count, after, j)) =
                        Escaped(p.tags[j].key, ESCAPE_CHARS_TAG)
                        \o (<<EQUAL>>
                            \o (Escaped(p.tags[j].value, ESCAPE_CHARS_TAG)
                                \o TagsText(p, count, after, j + 1)))
              \/ /\ j = Len(p.tags) + 1
                 /\ Head(TagsText(p, count, after, j)) = SPACE
                 /\ Tail(TagsText(p, count, after, j)) = FieldsText(p, count, after, 1)
<1> DEFINE T == TagsText(p, count, after, j)
           n == Len(p.tags)
<1>1. n \in Nat
  BY TagParts
<1>2. T \in Seq(Alphabet)
  BY TagsLayout
<1>3. CASE j = n + 1
  <2>1. T = <<SPACE>> \o FieldsText(p, count, after, 1)
    BY <1>3, TagsLayout
  <2>2. FieldsText(p, count, after, 1) \in Seq(Alphabet)
    <3>1. Len(p.fields) \in Nat
      BY FieldParts
    <3>2. 1 \in 1 .. Len(p.fields) + 1
      BY <3>1
    <3>3. \A k \in 1 .. Len(p.fields) + 1 : FieldsText(p, count, after, k) \in Seq(Alphabet)
      BY FieldsLayout
    <3> QED BY <3>2, <3>3
  <2>3. T # <<>> /\ Head(T) = SPACE /\ Tail(T) = FieldsText(p, count, after, 1)
    <3> DEFINE rest == FieldsText(p, count, after, 1)
    <3> HIDE DEF rest, T
    <3>1. T = <<SPACE>> \o rest /\ rest \in Seq(Alphabet)
      BY <2>1, <2>2 DEF rest
    <3> QED BY <3>1 DEF rest
  <2> HIDE DEF T
  <2> QED BY <1>2, <1>3, <2>3 DEF T
<1>4. CASE j # n + 1
  <2>1. j \in 1 .. n /\ j + 1 \in 1 .. n + 1
    BY <1>1, <1>4
  <2> DEFINE a == Escaped(p.tags[j].key, ESCAPE_CHARS_TAG)
             b == Escaped(p.tags[j].value, ESCAPE_CHARS_TAG)
             t == TagsText(p, count, after, j + 1)
             e == <<EQUAL>>
             rest == a \o (e \o (b \o t))
  <2>2. T = <<COMMA>> \o rest
    BY <2>1, TagsLayout
  <2>3. a \in Seq(Alphabet) /\ b \in Seq(Alphabet) /\ t \in Seq(Alphabet) /\ e \in Seq(Alphabet)
    <3>1. p.tags[j].key \in Seq(Chars) /\ p.tags[j].value \in Seq(Chars)
      BY <2>1, TagParts
    <3>2. a \in Seq(Alphabet) /\ b \in Seq(Alphabet)
      BY <3>1, WordTypes
    <3>3. t \in Seq(Alphabet)
      BY <2>1, TagsLayout
    <3>4. e \in Seq(Alphabet)
      BY WordTypes DEF Chars
    <3> QED BY <3>2, <3>3, <3>4
  <2>4. rest \in Seq(Alphabet)
    <3> HIDE DEF a, b, t, e
    <3> QED BY <2>3
  <2> HIDE DEF rest, T
  <2>5. T # <<>> /\ Head(T) = COMMA /\ Tail(T) = rest
    BY <2>2, <2>4
  <2> QED BY <1>2, <2>1, <2>5 DEF T, rest
<1> QED BY <1>3, <1>4

(* At the end of the measurement or of a tag the reader finds the next one *)
(* or the fields.                                                          *)
LEMMA TagsGoOn ==
    ASSUME NEW p, NEW count, NEW after, Writable(p, count, after),
           NEW j \in 1 .. Len(p.tags) + 1, os = TagsText(p, count, after, j)
    PROVE  /\ os # <<>> /\ ~Escape /\ Head(os) \in {COMMA, SPACE}
           /\ /\ WordEnds(COMMA, "tag key") \/ WordEnds(SPACE, "field key")
              /\ line' = LineWith(p.measurement, SubSeq(p.tags, 1, j - 1), <<>>)
              => UNCHANGED <<encoderVars, state>> /\ LineGoesOn(p, count, after)
<1>0. /\ p \in Point /\ count \in Times /\ after \in Seq(Alphabet)
      /\ p.fields # <<>>
  BY DEF Writable
<1>1. /\ os # <<>> /\ os \in Seq(Alphabet)
      /\ \/ /\ j \in 1 .. Len(p.tags)
            /\ Head(os) = COMMA
            /\ Tail(os) =
                    Escaped(p.tags[j].key, ESCAPE_CHARS_TAG)
                    \o (<<EQUAL>>
                        \o (Escaped(p.tags[j].value, ESCAPE_CHARS_TAG)
                            \o TagsText(p, count, after, j + 1)))
         \/ /\ j = Len(p.tags) + 1
            /\ Head(os) = SPACE
            /\ Tail(os) = FieldsText(p, count, after, 1)
  BY <1>0, TagsNext
<1>2. Head(os) \in {COMMA, SPACE} /\ ~Escape
  <2>1. Head(os) \in {COMMA, SPACE}
    BY <1>1
  <2>2. os[1] = Head(os)
    <3>1. os # <<>> /\ os \in Seq(Alphabet)
      BY Zenon, <1>1
    <3> QED BY SMTT(30), <3>1
  <2>3. os[1] # BSLASH
    <3>1. COMMA # BSLASH /\ SPACE # BSLASH
      BY DEF COMMA, SPACE, BSLASH
    <3> QED BY Zenon, <2>1, <2>2, <3>1
  <2> QED BY <2>1, <2>3 DEF Escape
<1>3. ASSUME WordEnds(COMMA, "tag key") \/ WordEnds(SPACE, "field key"),
             line' = LineWith(p.measurement, SubSeq(p.tags, 1, j - 1), <<>>)
      PROVE  UNCHANGED <<encoderVars, state>> /\ LineGoesOn(p, count, after)
  <2>1. UNCHANGED <<encoderVars, state, read>> /\ word' = <<>> /\ os' = Tail(os)
    BY <1>3 DEF WordEnds, Turn
  <2>2. CASE Head(os) = COMMA
    <3>1. place' = "tag key"
      BY <1>3, <2>2 DEF WordEnds, Turn, COMMA, SPACE
    <3>2. Head(os) # SPACE
      BY <2>2 DEF COMMA, SPACE
    <3>3. /\ j \in 1 .. Len(p.tags)
          /\ os' = Escaped(p.tags[j].key, ESCAPE_CHARS_TAG)
                   \o (<<EQUAL>>
                       \o (Escaped(p.tags[j].value, ESCAPE_CHARS_TAG)
                           \o TagsText(p, count, after, j + 1)))
      BY Zenon, <1>1, <2>1, <3>2
    <3>4. InLine(p, count, after)'
      BY Zenon, <1>0, <1>3, <2>1, <3>1, <3>3, TagBegins
    <3> QED BY <2>1, <3>4 DEF LineGoesOn
  <2>3. CASE Head(os) = SPACE
    <3>1. place' = "field key"
      BY <1>3, <2>3 DEF WordEnds, Turn, COMMA, SPACE
    <3>2. Head(os) # COMMA
      BY <2>3 DEF COMMA, SPACE
    <3>3. j = Len(p.tags) + 1 /\ os' = FieldsText(p, count, after, 1)
      BY Zenon, <1>1, <2>1, <3>2
    <3>4. line' = LineWith(p.measurement, p.tags, SubSeq(p.fields, 1, 1 - 1))
      <4> DEFINE S == [key : Seq(Chars), value : Seq(Chars)]
      <4>1. Len(p.tags) \in Nat /\ p.tags \in Seq(S)
        BY <1>0, TagParts
      <4> HIDE DEF S
      <4>2. j - 1 = Len(p.tags)
        BY <3>3, <4>1
      <4>3. SubSeq(p.tags, 1, j - 1) = p.tags
        BY <4>1, <4>2, SubSeqFull
      <4>4. SubSeq(p.fields, 1, 1 - 1) = <<>>
        BY SubSeqEmpty
      <4> QED BY <1>3, <4>3, <4>4
    <3>5. 1 \in 1 .. Len(p.fields)
      <4> DEFINE S == [key : Seq(Chars), value : FieldValue]
      <4>1. p.fields \in Seq(S)
        BY <1>0, FieldParts
      <4> HIDE DEF S
      <4> QED BY <1>0, <4>1
    <3>6. InLine(p, count, after)'
      BY <1>0, <2>1, <3>1, <3>3, <3>4, <3>5, FieldBegins
    <3> QED BY <2>1, <3>6 DEF LineGoesOn
  <2> QED BY <1>2, <2>2, <2>3
<1> QED BY <1>1, <1>2, <1>3

(* One step while the measurement is read: the next of its characters, or  *)
(* the turn to the first tag or field.                                     *)
LEMMA MeasurementStep ==
    ASSUME NEW p, NEW count, NEW after, Writable(p, count, after),
           state = "reading", InMeasurement(p, count, after), Next
    PROVE  UNCHANGED <<encoderVars, state>> /\ LineGoesOn(p, count, after)
<1> DEFINE then == TagsText(p, count, after, 1)
           name == p.measurement
<1>0. /\ p \in Point /\ count \in Times /\ after \in Seq(Alphabet)
      /\ name \in Seq(Chars) /\ Clean(name)
  BY DEF Writable, CleanPoint, Point
<1>1. 1 \in 1 .. Len(p.tags) + 1
  BY <1>0, TagParts
<1>2. then \in Seq(Alphabet) /\ then # <<>>
  BY <1>0, <1>1, TagsNext
<1>3. /\ place = "measurement" /\ line = Nothing
      /\ Within(name, ESCAPE_CHARS_MEASUREMENT, then)
  BY DEF InMeasurement
<1>4. /\ Meaningful = ESCAPE_CHARS_MEASUREMENT
      /\ Survives(name, ESCAPE_CHARS_MEASUREMENT, Ends) /\ name # <<>>
  BY <1>0, <1>3, PlaceFacts, NamesSurvive
<1>5. CASE word # name
  <2> HIDE DEF then, name
  <2>1. /\ Within(name, ESCAPE_CHARS_MEASUREMENT, then)'
        /\ UNCHANGED <<encoderVars, state, place, line, read>>
    BY Zenon, <1>0, <1>2, <1>3, <1>4, <1>5, WordStep
  <2>2. InMeasurement(p, count, after)'
    BY <1>3, <2>1 DEF InMeasurement, then, name
  <2> QED BY <2>1, <2>2 DEF LineGoesOn, InLine
<1>6. CASE word = name
  <2>1. os = TagsText(p, count, after, 1)
    BY <1>0, <1>2, <1>3, <1>6, WordIsOver
  <2>2. os # <<>> /\ ~Escape /\ Head(os) \in {COMMA, SPACE} /\ word # <<>>
    BY <1>1, <1>4, <1>6, <2>1, TagsGoOn
  <2>3. ReadMeasurement
    BY <1>3, <2>2, NameTurns
  <2>4. line' = LineWith(p.measurement, SubSeq(p.tags, 1, 1 - 1), <<>>)
    <3>1. line' = [line EXCEPT !.measurement = p.measurement]
      BY <1>6, <2>3 DEF ReadMeasurement
    <3>2. line = LineWith(<<>>, <<>>, <<>>)
      BY <1>3 DEF Nothing, LineWith
    <3>3. SubSeq(p.tags, 1, 1 - 1) = <<>>
      BY SubSeqEmpty
    <3>4. [line EXCEPT !.measurement = p.measurement] = LineWith(p.measurement, <<>>, <<>>)
      BY ZenonT(40), <3>2, Changed
    <3> QED BY <3>1, <3>3, <3>4
  <2>5. WordEnds(COMMA, "tag key") \/ WordEnds(SPACE, "field key")
    BY <2>3 DEF ReadMeasurement
  <2> QED BY Zenon, <1>1, <2>1, <2>4, <2>5, TagsGoOn
<1> QED BY <1>5, <1>6

(* One step while the key of a tag is read.                                *)
LEMMA TagKeyStep ==
    ASSUME NEW p, NEW count, NEW after, Writable(p, count, after),
           NEW j \in 1 .. Len(p.tags),
           state = "reading", InTagKey(p, count, after, j), Next
    PROVE  UNCHANGED <<encoderVars, state>> /\ LineGoesOn(p, count, after)
<1> DEFINE name == p.tags[j].key
           rest == Escaped(p.tags[j].value, ESCAPE_CHARS_TAG) \o TagsText(p, count, after, j + 1)
           then == <<EQUAL>> \o rest
<1>0. /\ p \in Point /\ count \in Times /\ after \in Seq(Alphabet) /\ CleanPoint(p)
  BY DEF Writable
<1>1. /\ name \in Seq(Chars) /\ p.tags[j].value \in Seq(Chars) /\ Clean(name)
      /\ j + 1 \in 1 .. Len(p.tags) + 1
  <2>1. Len(p.tags) \in Nat
    BY <1>0, TagParts
  <2>2. j + 1 \in 1 .. Len(p.tags) + 1
    BY <2>1
  <2> QED BY <1>0, <2>2, TagParts
<1>2. rest \in Seq(Alphabet) /\ then \in Seq(Alphabet) /\ then # <<>>
  <2> DEFINE a == Escaped(p.tags[j].value, ESCAPE_CHARS_TAG)
             t == TagsText(p, count, after, j + 1)
             e == <<EQUAL>>
  <2>1. a \in Seq(Alphabet) /\ e \in Seq(Alphabet)
    BY <1>1, WordTypes DEF Chars
  <2>2. t \in Seq(Alphabet)
    BY <1>0, <1>1, TagsLayout
  <2>3. e # <<>>
    OBVIOUS
  <2> HIDE DEF a, t, e
  <2>4. a \o t \in Seq(Alphabet) /\ e \o (a \o t) \in Seq(Alphabet) /\ e \o (a \o t) # <<>>
    BY <2>1, <2>2, <2>3
  <2> QED BY <2>4 DEF a, t, e
<1>3. /\ place = "tag key"
      /\ line = LineWith(p.measurement, SubSeq(p.tags, 1, j - 1), <<>>)
      /\ Within(name, ESCAPE_CHARS_TAG, then)
  BY DEF InTagKey
<1>4. /\ Meaningful = ESCAPE_CHARS_TAG
      /\ Survives(name, ESCAPE_CHARS_TAG, Ends) /\ name # <<>>
  <2>1. Meaningful = ESCAPE_CHARS_TAG /\ Ends = ESCAPE_CHARS_TAG \cup {LF}
    BY <1>3, PlaceFacts
  <2> HIDE DEF name
  <2> QED BY <1>1, <2>1, NamesSurvive
<1>5. CASE word # name
  <2> HIDE DEF then, name
  <2>1. /\ Within(name, ESCAPE_CHARS_TAG, then)'
        /\ UNCHANGED <<encoderVars, state, place, line, read>>
    BY Zenon, <1>1, <1>2, <1>3, <1>4, <1>5, WordStep
  <2>2. InTagKey(p, count, after, j)'
    BY <1>3, <2>1 DEF InTagKey, then, rest, name
  <2> QED BY <2>1, <2>2 DEF LineGoesOn, InLine
<1>6. CASE word = name
  <2>1. os = <<EQUAL>> \o rest
    <3> HIDE DEF rest, name
    <3> QED BY <1>1, <1>2, <1>3, <1>6, WordIsOver
  <2>2. EQUAL \in Alphabet /\ EQUAL # BSLASH
    BY DEF Alphabet, Chars, EQUAL, BSLASH
  <2> HIDE DEF rest, then, name
  <2>3. os # <<>> /\ Head(os) = EQUAL /\ Tail(os) = rest /\ ~Escape
    BY <1>2, <2>1, <2>2, NextCharacter
  <2>4. ReadTagKey
    BY <1>3, <1>4, <1>6, <2>3, NameTurns
  <2>5. /\ word' = <<>> /\ place' = "tag value" /\ os' = rest
        /\ UNCHANGED <<encoderVars, state, read>>
    BY <2>3, <2>4 DEF ReadTagKey, WordEnds, Turn
  <2> DEFINE T == SubSeq(p.tags, 1, j - 1)
  <2>6. line' = LineWith(p.measurement, Append(T, [key |-> name, value |-> <<>>]), <<>>)
    <3>1. line.tags = T
      BY <1>3 DEF LineWith
    <3>2. line' = [line EXCEPT !.tags = Append(T, [key |-> name, value |-> <<>>])]
      BY <1>6, <2>4, <3>1 DEF ReadTagKey
    <3> HIDE DEF T
    <3>3. line = LineWith(p.measurement, T, <<>>)
      BY <1>3 DEF T
    <3>4. [line EXCEPT !.tags = Append(T, [key |-> name, value |-> <<>>])] =
             LineWith(p.measurement, Append(T, [key |-> name, value |-> <<>>]), <<>>)
      BY ZenonT(40), <3>3, Changed
    <3> QED BY Zenon, <3>2, <3>4
  <2>7. Within(p.tags[j].value, ESCAPE_CHARS_TAG, TagsText(p, count, after, j + 1))'
    BY <1>1, <2>5, WordBegins DEF rest
  <2>8. InTagValue(p, count, after, j)'
    BY <2>5, <2>6, <2>7 DEF InTagValue, name
  <2>9. InLine(p, count, after)'
    BY <2>8 DEF InLine
  <2> QED BY <2>5, <2>9 DEF LineGoesOn
<1> QED BY <1>5, <1>6

(* The first elements of a sequence.                                       *)
LEMMA NextOfPrefix ==
    ASSUME NEW S, NEW s \in Seq(S), NEW j \in 1 .. Len(s)
    PROVE  /\ SubSeq(s, 1, j - 1) \in Seq(S)
           /\ Append(SubSeq(s, 1, j - 1), s[j]) = SubSeq(s, 1, j)
<1> DEFINE i == j - 1
<1>1. i \in Nat /\ i + 1 = j /\ i + 1 <= Len(s)
  OBVIOUS
<1> HIDE DEF i
<1>2. SubSeq(s, 1, i) \in Seq(S)
  BY <1>1
<1>3. Append(SubSeq(s, 1, i), s[i + 1]) = SubSeq(s, 1, i + 1)
  BY <1>1
<1> QED BY <1>1, <1>2, <1>3 DEF i

(* One step while the value of a tag is read.                              *)
LEMMA TagValueStep ==
    ASSUME NEW p, NEW count, NEW after, Writable(p, count, after),
           NEW j \in 1 .. Len(p.tags),
           state = "reading", InTagValue(p, count, after, j), Next
    PROVE  UNCHANGED <<encoderVars, state>> /\ LineGoesOn(p, count, after)
<1> DEFINE name == p.tags[j].value
           key == p.tags[j].key
           then == TagsText(p, count, after, j + 1)
           T == SubSeq(p.tags, 1, j - 1)
           S == [key : Seq(Chars), value : Seq(Chars)]
<1>0. /\ p \in Point /\ count \in Times /\ after \in Seq(Alphabet) /\ CleanPoint(p)
  BY DEF Writable
<1>1. /\ name \in Seq(Chars) /\ key \in Seq(Chars) /\ Clean(name)
      /\ p.tags[j] = [key |-> key, value |-> name]
      /\ j + 1 \in 1 .. Len(p.tags) + 1 /\ (j + 1) - 1 = j
  BY <1>0, TagParts
<1>2. then \in Seq(Alphabet) /\ then # <<>>
  BY <1>0, <1>1, TagsNext
<1>3. /\ place = "tag value"
      /\ line = LineWith(p.measurement, Append(T, [key |-> key, value |-> <<>>]), <<>>)
      /\ Within(name, ESCAPE_CHARS_TAG, then)
  BY DEF InTagValue
<1>4. /\ Meaningful = ESCAPE_CHARS_TAG
      /\ Survives(name, ESCAPE_CHARS_TAG, Ends) /\ name # <<>>
  <2>1. Meaningful = ESCAPE_CHARS_TAG /\ Ends = ESCAPE_CHARS_TAG \cup {LF}
    BY <1>3, PlaceFacts
  <2> HIDE DEF name
  <2> QED BY <1>1, <2>1, NamesSurvive
<1>5. CASE word # name
  <2> HIDE DEF then, name, T
  <2>1. /\ Within(name, ESCAPE_CHARS_TAG, then)'
        /\ UNCHANGED <<encoderVars, state, place, line, read>>
    BY Zenon, <1>1, <1>2, <1>3, <1>4, <1>5, WordStep
  <2>2. InTagValue(p, count, after, j)'
    BY <1>3, <2>1 DEF InTagValue, then, name, T
  <2> QED BY <2>1, <2>2 DEF LineGoesOn, InLine
<1>6. CASE word = name
  <2>1. os = TagsText(p, count, after, j + 1)
    <3> HIDE DEF name
    <3> QED BY <1>1, <1>2, <1>3, <1>6, WordIsOver
  <2>2. os # <<>> /\ ~Escape /\ Head(os) \in {COMMA, SPACE} /\ word # <<>>
    BY <1>1, <1>4, <1>6, <2>1, TagsGoOn
  <2>3. ReadTagValue
    BY <1>3, <2>2, NameTurns
  <2>4. T \in Seq(S) /\ Append(T, p.tags[j]) = SubSeq(p.tags, 1, j)
    <3>1. p.tags \in Seq(S)
      BY <1>0, TagParts
    <3> HIDE DEF S
    <3> QED BY <3>1, NextOfPrefix
  <2>5. line' = LineWith(p.measurement, SubSeq(p.tags, 1, (j + 1) - 1), <<>>)
    <3>1. line' = LineWithTagValue(name)
      BY <1>6, <2>3 DEF ReadTagValue, LineWithTagValue
    <3> DEFINE x == [key |-> key, value |-> <<>>]
               y == [key |-> key, value |-> name]
               m == p.measurement
               none == <<>>
    <3>2. x \in S /\ y \in S /\ [x EXCEPT !.value = name] = y
      BY <1>1
    <3>3. line = LineWith(m, Append(T, x), none)
      BY <1>3
    <3> HIDE DEF T, S, key, name, x, y, m, none
    <3>4. LineWithTagValue(name) = LineWith(m, Append(T, y), none)
      BY <2>4, <3>2, <3>3, TagValueSet
    <3> QED BY <1>1, <2>4, <3>1, <3>4 DEF y, m, none
  <2>6. WordEnds(COMMA, "tag key") \/ WordEnds(SPACE, "field key")
    BY <2>3 DEF ReadTagValue
  <2> QED BY Zenon, <1>1, <2>1, <2>5, <2>6, TagsGoOn
<1> QED BY <1>5, <1>6

(* One step while the key of a field is read.                              *)
LEMMA FieldKeyStep ==
    ASSUME NEW p, NEW count, NEW after, Writable(p, count, after),
           NEW j \in 1 .. Len(p.fields),
           state = "reading", InFieldKey(p, count, after, j), Next
    PROVE  UNCHANGED <<encoderVars, state>> /\ LineGoesOn(p, count, after)
<1> DEFINE name == p.fields[j].key
           rest == Value(p.fields[j].value) \o FieldEnd(p, count, after, j)
           then == <<EQUAL>> \o rest
<1>0. /\ p \in Point /\ count \in Times /\ after \in Seq(Alphabet) /\ CleanPoint(p)
  BY DEF Writable
<1>1. /\ name \in Seq(Chars) /\ p.fields[j].value \in FieldValue /\ Clean(name)
  BY <1>0, FieldParts
<1>2. rest \in Seq(Alphabet) /\ then \in Seq(Alphabet) /\ then # <<>>
  <2> DEFINE a == Value(p.fields[j].value)
             t == FieldEnd(p, count, after, j)
             e == <<EQUAL>>
  <2>1. a \in Seq(Alphabet) /\ e \in Seq(Alphabet)
    BY <1>1, WordTypes DEF Chars
  <2>2. t \in Seq(Alphabet)
    BY <1>0, FieldsLayout
  <2>3. e # <<>>
    OBVIOUS
  <2> HIDE DEF a, t, e
  <2>4. a \o t \in Seq(Alphabet) /\ e \o (a \o t) \in Seq(Alphabet) /\ e \o (a \o t) # <<>>
    BY <2>1, <2>2, <2>3
  <2> QED BY <2>4 DEF a, t, e
<1> DEFINE F == SubSeq(p.fields, 1, j - 1)
           x == [key |-> name, value |-> [kind |-> "string", text |-> <<>>]]
<1>3. /\ place = "field key"
      /\ line = LineWith(p.measurement, p.tags, F)
      /\ Within(name, ESCAPE_CHARS_FIELD_KEY, then)
  BY DEF InFieldKey
<1>4. /\ Meaningful = ESCAPE_CHARS_FIELD_KEY
      /\ Survives(name, ESCAPE_CHARS_FIELD_KEY, Ends) /\ name # <<>>
  <2>1. Meaningful = ESCAPE_CHARS_FIELD_KEY /\ Ends = ESCAPE_CHARS_FIELD_KEY \cup {LF}
    BY <1>3, PlaceFacts
  <2> HIDE DEF name
  <2> QED BY <1>1, <2>1, NamesSurvive
<1>5. CASE word # name
  <2> HIDE DEF then, name, F
  <2>1. /\ Within(name, ESCAPE_CHARS_FIELD_KEY, then)'
        /\ UNCHANGED <<encoderVars, state, place, line, read>>
    BY Zenon, <1>1, <1>2, <1>3, <1>4, <1>5, WordStep
  <2>2. InFieldKey(p, count, after, j)'
    BY <1>3, <2>1 DEF InFieldKey, then, rest, name, F
  <2> QED BY <2>1, <2>2 DEF LineGoesOn, InLine
<1>6. CASE word = name
  <2>1. os = <<EQUAL>> \o rest
    <3> HIDE DEF rest, name
    <3> QED BY <1>1, <1>2, <1>3, <1>6, WordIsOver
  <2>2. EQUAL \in Alphabet /\ EQUAL # BSLASH
    BY DEF Alphabet, Chars, EQUAL, BSLASH
  <2> HIDE DEF rest, then, name
  <2>3. os # <<>> /\ Head(os) = EQUAL /\ Tail(os) = rest /\ ~Escape
    BY <1>2, <2>1, <2>2, NextCharacter
  <2>4. ReadFieldKey
    BY <1>3, <1>4, <1>6, <2>3, NameTurns
  <2>5. /\ word' = <<>> /\ place' = "field value" /\ os' = rest
        /\ UNCHANGED <<encoderVars, state, read>>
    BY <2>3, <2>4 DEF ReadFieldKey, WordEnds, Turn
  <2>6. line' = LineWith(p.measurement, p.tags, Append(F, x))
    <3>1. line.fields = F
      BY <1>3 DEF LineWith
    <3>2. line' = [line EXCEPT !.fields = Append(F, x)]
      BY <1>6, <2>4, <3>1 DEF ReadFieldKey
    <3> HIDE DEF F, x
    <3>3. line = LineWith(p.measurement, p.tags, F)
      BY <1>3
    <3> DEFINE G == Append(F, x)
               m == p.measurement
               T == p.tags
    <3> HIDE DEF G, m, T
    <3>4. [line EXCEPT !.fields = G] = LineWith(m, T, G)
      <4>1. line = LineWith(m, T, F)
        BY <3>3 DEF m, T
      <4> QED BY <4>1 DEF LineWith
    <3> QED BY Zenon, <3>2, <3>4 DEF G, m, T
  <2>7. AtFieldValue(p, count, after, j)'
    BY <2>5, <2>6 DEF AtFieldValue, FieldBegun, name, rest
  <2>8. InLine(p, count, after)'
    BY <2>7 DEF InLine
  <2> QED BY <2>5, <2>8 DEF LineGoesOn
<1> QED BY <1>5, <1>6

(* The value of a field is a string or one element of the text.            *)
LEMMA ValueForms ==
    ASSUME NEW value \in FieldValue
    PROVE  \/ /\ value.kind = "string" /\ value.text \in Seq(Chars)
              /\ value = [kind |-> "string", text |-> value.text]
              /\ Value(value) =
                    <<DQUOTE>> \o Escaped(value.text, ESCAPE_CHARS_FIELD_VALUE) \o <<DQUOTE>>
           \/ /\ value.kind = "number" /\ \E n \in Numbers : value.text = <<n>>
              /\ value = [kind |-> "number", text |-> value.text]
              /\ Value(value) = value.text
<1>1. \/ value.kind = "string" /\ value.text \in Seq(Chars)
         /\ value = [kind |-> "string", text |-> value.text]
      \/ value.kind = "number" /\ (\E n \in Numbers : value.text = <<n>>)
         /\ value = [kind |-> "number", text |-> value.text]
  BY DEF FieldValue
<1> QED BY <1>1 DEF Value

(* A field with its value, in the place of the one that was begun.         *)
LEMMA FieldDone ==
    ASSUME NEW p \in Point, NEW j \in 1 .. Len(p.fields),
           line = LineWith(p.measurement, p.tags, FieldBegun(p, j))
    PROVE  /\ LineWithFieldValue(p.fields[j].value) =
                LineWith(p.measurement, p.tags, SubSeq(p.fields, 1, j))
           /\ p.fields[j].value.kind = "string" =>
                LineWithFieldText(p.fields[j].value.text) =
                    LineWith(p.measurement, p.tags, SubSeq(p.fields, 1, j))
<1> DEFINE S == [key : Seq(Chars), value : FieldValue]
           F == SubSeq(p.fields, 1, j - 1)
           k == p.fields[j].key
           v == p.fields[j].value
           x == [key |-> k, value |-> [kind |-> "string", text |-> <<>>]]
           y == [key |-> k, value |-> v]
           m == p.measurement
           T == p.tags
<1>1. k \in Seq(Chars) /\ v \in FieldValue /\ p.fields[j] = y
  BY FieldParts
<1>2. F \in Seq(S) /\ Append(F, y) = SubSeq(p.fields, 1, j)
  <2>1. p.fields \in Seq(S)
    BY FieldParts
  <2> HIDE DEF S
  <2>2. F \in Seq(S) /\ Append(F, p.fields[j]) = SubSeq(p.fields, 1, j)
    BY <2>1, NextOfPrefix
  <2> QED BY <1>1, <2>2
<1>3. x \in S /\ y \in S
  <2>1. [kind |-> "string", text |-> <<>>] \in FieldValue
    BY DEF FieldValue
  <2> HIDE DEF k, v
  <2> QED BY <1>1, <2>1
<1>4. line = LineWith(m, T, Append(F, x))
  BY DEF FieldBegun
<1>5. [x EXCEPT !.value = v] = y
  OBVIOUS
<1>6. v.kind = "string" => [x EXCEPT !.value.text = v.text] = y
  <2> HIDE DEF v, k
  <2>1. v.kind = "string" => v = [kind |-> "string", text |-> v.text]
    BY <1>1, ValueForms
  <2>2. [x EXCEPT !.value.text = v.text] =
            [key |-> k, value |-> [kind |-> "string", text |-> v.text]]
    OBVIOUS
  <2> QED BY <2>1, <2>2
<1> HIDE DEF S, F, k, v, x, y, m, T
<1>7. F \in Seq(S)
  BY <1>2
<1>8. LineWithFieldValue(v) = LineWith(m, T, Append(F, y))
  BY <1>3, <1>4, <1>5, <1>7, FieldValueSet
<1>9. ASSUME v.kind = "string"
      PROVE  LineWithFieldText(v.text) = LineWith(m, T, Append(F, y))
  <2> DEFINE w == v.text
  <2>1. [x EXCEPT !.value.text = w] = y
    BY <1>6, <1>9
  <2> HIDE DEF w
  <2>2. LineWithFieldText(w) = LineWith(m, T, Append(F, y))
    BY <1>3, <1>4, <1>7, <2>1, FieldTextSet
  <2> QED BY <2>2 DEF w
<1> QED BY <1>2, <1>8, <1>9 DEF v, m, T

(* One step at the value of a field: the quote that opens a string, a      *)
(* number, or the end of a number.                                         *)
LEMMA FieldValueStep ==
    ASSUME NEW p, NEW count, NEW after, Writable(p, count, after),
           NEW j \in 1 .. Len(p.fields),
           state = "reading", AtFieldValue(p, count, after, j), Next
    PROVE  /\ UNCHANGED <<encoderVars, state>>
           /\ LineGoesOn(p, count, after) \/ LineEnds(p, count, after)
<1> DEFINE v == p.fields[j].value
           end == FieldEnd(p, count, after, j)
           L == LineWith(p.measurement, p.tags, FieldBegun(p, j))
<1>0. p \in Point /\ count \in Times /\ after \in Seq(Alphabet)
  BY DEF Writable
<1>1. v \in FieldValue
  BY <1>0, FieldParts
<1>2. end \in Seq(Alphabet)
  BY <1>0, FieldsLayout
<1>3. place = "field value" /\ line = L
  BY DEF AtFieldValue
<1>4. CASE word = <<>> /\ os = Value(v) \o end /\ v.kind = "string"
  <2> DEFINE q == <<DQUOTE>>
             t == Escaped(v.text, ESCAPE_CHARS_FIELD_VALUE)
             rest == t \o (q \o end)
  <2>1. v.text \in Seq(Chars) /\ Value(v) = (q \o t) \o q
    BY <1>1, <1>4, ValueForms
  <2>2. q \in Seq(Alphabet) /\ t \in Seq(Alphabet)
    BY <2>1, WordTypes DEF Chars
  <2>3. rest \in Seq(Alphabet) /\ os = q \o rest
    <3> HIDE DEF q, t, end, v
    <3>1. ((q \o t) \o q) \o end = q \o (t \o (q \o end))
      <4>1. q \in Seq(Alphabet) /\ t \in Seq(Alphabet) /\ end \in Seq(Alphabet)
        BY <1>2, <2>2
      <4>2. Cat(Cat(Cat(q, t), q), end) = Cat(q, Cat(t, Cat(q, end)))
        BY <4>1, Regroup
      <4> QED BY <4>2 DEF Cat
    <3>2. t \o (q \o end) \in Seq(Alphabet)
      BY <1>2, <2>2
    <3> QED BY <1>4, <2>1, <3>1, <3>2
  <2>4. DQUOTE \in Alphabet /\ DQUOTE # BSLASH
    BY DEF Alphabet, Chars, DQUOTE, BSLASH
  <2> HIDE DEF rest
  <2>5. os # <<>> /\ Head(os) = DQUOTE /\ Tail(os) = rest /\ ~Escape
    BY <2>3, <2>4, NextCharacter
  <2>6. OpenString
    BY <1>3, <1>4, <2>5, ValueTurns
  <2>7. /\ word' = <<>> /\ place' = "string" /\ os' = rest
        /\ UNCHANGED <<encoderVars, state, line, read>>
    BY <2>5, <2>6 DEF OpenString, Turn
  <2>8. Within(v.text, ESCAPE_CHARS_FIELD_VALUE, <<DQUOTE>> \o end)'
    BY <2>1, <2>7, WordBegins DEF rest
  <2>9. InString(p, count, after, j)'
    BY <1>3, <1>4, <2>7, <2>8 DEF InString
  <2>10. InLine(p, count, after)'
    BY <2>9 DEF InLine
  <2> QED BY <2>7, <2>10 DEF LineGoesOn
<1>5. CASE word = <<>> /\ os = Value(v) \o end /\ v.kind # "string"
  <2>1. PICK n \in Numbers : v.text = <<n>> /\ Value(v) = <<n>> /\ v.kind = "number"
    BY <1>1, <1>5, ValueForms
  <2>2. n \in Alphabet
    BY DEF Alphabet
  <2>3. os = <<n>> \o end
    BY <1>5, <2>1
  <2>4. n # BSLASH /\ n \notin {COMMA, EQUAL, SPACE, DQUOTE, LF}
    BY DEF Numbers, BSLASH, COMMA, EQUAL, SPACE, DQUOTE, LF
  <2> HIDE DEF end, v
  <2>5. os # <<>> /\ Head(os) = n /\ Tail(os) = end /\ ~Escape
    BY <1>2, <2>2, <2>3, <2>4, NextCharacter
  <2>6. Head(os) \notin Ends
    BY <1>3, <2>4, <2>5, PlaceFacts
  <2>7. ReadChar
    BY <1>3, <2>5, <2>6, OnlyReadChar DEF Places
  <2>8. /\ word' = <<n>> /\ os' = end
        /\ UNCHANGED <<encoderVars, state, place, line, read>>
    <3>1. word' = Append(<<>>, n) /\ os' = end
      BY <1>5, <2>5, <2>7 DEF ReadChar
    <3>2. Append(<<>>, n) = <<n>>
      OBVIOUS
    <3> QED BY <2>7, <3>1, <3>2 DEF ReadChar
  <2>9. AtFieldValue(p, count, after, j)'
    BY <1>3, <2>1, <2>8 DEF AtFieldValue, v, end
  <2>10. InLine(p, count, after)'
    BY <2>9 DEF InLine
  <2> QED BY <2>8, <2>10 DEF LineGoesOn
<1>6. CASE v.kind = "number" /\ word = v.text /\ os = end
  <2>1. word # <<>> /\ v = [kind |-> "number", text |-> word]
    <3>1. (\E n \in Numbers : v.text = <<n>>) /\ v = [kind |-> "number", text |-> v.text]
      <4> HIDE DEF v
      <4> QED BY <1>1, <1>6, ValueForms
    <3>2. \A n : <<n>> # <<>>
      OBVIOUS
    <3> HIDE DEF v
    <3> QED BY <1>6, <3>1, <3>2
  <2>2. ValueEnds
    BY <1>3, <2>1 DEF ValueEnds
  <2>3. WithValue = LineWith(p.measurement, p.tags, SubSeq(p.fields, 1, j))
    <3>1. WithValue = LineWithFieldValue(v)
      <4> HIDE DEF v
      <4> QED BY <1>3, <2>1 DEF WithValue, LineWithFieldValue
    <3> QED BY <1>0, <1>3, <3>1, FieldDone
  <2> QED BY Zenon, <1>6, <2>2, <2>3, ValueIsOver
<1> QED BY <1>4, <1>5, <1>6 DEF AtFieldValue

(* One step inside a string, whatever it contains.                         *)
LEMMA StringStep ==
    ASSUME NEW p, NEW count, NEW after, Writable(p, count, after),
           NEW j \in 1 .. Len(p.fields),
           state = "reading", InString(p, count, after, j), Next
    PROVE  UNCHANGED <<encoderVars, state>> /\ LineGoesOn(p, count, after)
<1> DEFINE text == p.fields[j].value.text
           end == FieldEnd(p, count, after, j)
           then == <<DQUOTE>> \o end
           L == LineWith(p.measurement, p.tags, FieldBegun(p, j))
<1>0. p \in Point /\ count \in Times /\ after \in Seq(Alphabet)
  BY DEF Writable
<1>1. /\ place = "string" /\ line = L /\ p.fields[j].value.kind = "string"
      /\ Within(text, ESCAPE_CHARS_FIELD_VALUE, then)
  BY DEF InString
<1>2. text \in Seq(Chars)
  <2>1. p.fields[j].value \in FieldValue
    BY <1>0, FieldParts
  <2> QED BY <1>1, <2>1, ValueForms
<1>3. end \in Seq(Alphabet) /\ then \in Seq(Alphabet) /\ then # <<>>
  <2>1. end \in Seq(Alphabet)
    BY <1>0, FieldsLayout
  <2>2. DQUOTE \in Alphabet
    BY DEF Alphabet, Chars
  <2> HIDE DEF end
  <2> QED BY <2>1, <2>2
<1>4. /\ Meaningful = ESCAPE_CHARS_FIELD_VALUE
      /\ Survives(text, ESCAPE_CHARS_FIELD_VALUE, Ends)
  <2>1. Meaningful = ESCAPE_CHARS_FIELD_VALUE /\ Ends = {DQUOTE}
    BY <1>1, PlaceFacts
  <2> HIDE DEF text
  <2> QED BY <1>2, <2>1, NamesSurvive
<1>5. CASE word # text
  <2> HIDE DEF then, text, L
  <2>1. /\ Within(text, ESCAPE_CHARS_FIELD_VALUE, then)'
        /\ UNCHANGED <<encoderVars, state, place, line, read>>
    BY Zenon, <1>1, <1>2, <1>3, <1>4, <1>5, WordStep
  <2>2. InString(p, count, after, j)'
    BY <1>1, <2>1 DEF InString, then, end, text, L
  <2> QED BY <2>1, <2>2 DEF LineGoesOn, InLine
<1>6. CASE word = text
  <2>1. os = <<DQUOTE>> \o end
    <3> HIDE DEF end, text
    <3> QED BY <1>1, <1>2, <1>3, <1>6, WordIsOver
  <2>2. DQUOTE \in Alphabet /\ DQUOTE # BSLASH
    BY DEF Alphabet, Chars, DQUOTE, BSLASH
  <2> HIDE DEF end, then, text
  <2>3. os # <<>> /\ Head(os) = DQUOTE /\ Tail(os) = end /\ ~Escape
    BY <1>3, <2>1, <2>2, NextCharacter
  <2>4. CloseString
    BY <1>1, <2>3, ValueTurns
  <2>5. /\ word' = <<>> /\ place' = "after string" /\ os' = end
        /\ line' = LineWithFieldText(text) /\ UNCHANGED <<encoderVars, state, read>>
    BY <1>6, <2>3, <2>4 DEF CloseString, Turn, LineWithFieldText
  <2>6. line' = LineWith(p.measurement, p.tags, SubSeq(p.fields, 1, j))
    BY <1>0, <1>1, <2>5, FieldDone DEF text
  <2>7. AfterString(p, count, after, j)'
    BY <2>5, <2>6 DEF AfterString, end
  <2>8. InLine(p, count, after)'
    BY <2>7 DEF InLine
  <2> QED BY <2>5, <2>8 DEF LineGoesOn
<1> QED BY <1>5, <1>6

(* One step after the closing quote.                                       *)
LEMMA AfterStringStep ==
    ASSUME NEW p, NEW count, NEW after, Writable(p, count, after),
           NEW j \in 1 .. Len(p.fields),
           state = "reading", AfterString(p, count, after, j), Next
    PROVE  /\ UNCHANGED <<encoderVars, state>>
           /\ LineGoesOn(p, count, after) \/ LineEnds(p, count, after)
<1>1. /\ ValueEnds /\ os = FieldEnd(p, count, after, j)
      /\ WithValue = LineWith(p.measurement, p.tags, SubSeq(p.fields, 1, j))
  BY DEF AfterString, ValueEnds, WithValue
<1> QED BY Zenon, <1>1, ValueIsOver

(* One step at the timestamp: it is read, or the line ends after it.       *)
LEMMA TimeStep ==
    ASSUME NEW p, NEW count, NEW after, Writable(p, count, after),
           state = "reading", AtTime(p, count, after), Next
    PROVE  /\ UNCHANGED <<encoderVars, state>>
           /\ LineGoesOn(p, count, after) \/ LineEnds(p, count, after)
<1> DEFINE t == TimeToken(count)
<1>0. after \in Seq(Alphabet) /\ (after = <<>> \/ Head(after) = LF) /\ count \in Times
  BY DEF Writable
<1>1. t \in Alphabet /\ t \notin Chars
  BY <1>0, TimeTokenAssumption DEF Alphabet
<1>2. /\ place = "time" /\ ~Omitted(count)
      /\ line = LineWith(p.measurement, p.tags, p.fields)
  BY DEF AtTime
<1>3. CASE word = <<>> /\ os = <<t>> \o after
  <2>1. t # BSLASH /\ t \notin {COMMA, EQUAL, SPACE, DQUOTE, LF}
    BY <1>1 DEF Chars
  <2> HIDE DEF t
  <2>2. os # <<>> /\ Head(os) = t /\ Tail(os) = after /\ ~Escape
    BY <1>0, <1>1, <1>3, <2>1, NextCharacter
  <2>3. Head(os) \notin Ends
    BY <1>2, <2>1, <2>2, PlaceFacts
  <2>4. ReadChar
    BY <1>2, <2>2, <2>3, OnlyReadChar DEF Places
  <2>5. /\ word' = <<t>> /\ os' = after
        /\ UNCHANGED <<encoderVars, state, place, line, read>>
    <3>1. word' = Append(<<>>, t) /\ os' = after
      BY <1>3, <2>2, <2>4 DEF ReadChar
    <3>2. Append(<<>>, t) = <<t>>
      OBVIOUS
    <3> QED BY <2>4, <3>1, <3>2 DEF ReadChar
  <2>6. AtTime(p, count, after)'
    BY <1>2, <2>5 DEF AtTime, t
  <2>7. InLine(p, count, after)'
    BY <2>6 DEF InLine
  <2> QED BY <2>5, <2>7 DEF LineGoesOn
<1>4. CASE word = <<t>> /\ os = after
  <2>1. LineComplete /\ word[1] = t
    BY <1>2, <1>4 DEF LineComplete
  <2>2. /\ read' = Append(read, IF place = "time" THEN [line EXCEPT !.time = word[1]]
                                ELSE WithValue)
        /\ place' = "measurement" /\ word' = <<>> /\ line' = Nothing
        /\ os' = IF after = <<>> THEN <<>> ELSE Tail(after)
        /\ UNCHANGED <<encoderVars, state>>
    BY Zenon, <1>0, <1>4, <2>1, LineStops
  <2>3. [line EXCEPT !.time = t] = WholeLine(p, count)
    <3> HIDE DEF t
    <3> DEFINE m == p.measurement
               T == p.tags
               F == p.fields
    <3> HIDE DEF m, T, F
    <3>1. line = LineWith(m, T, F)
      BY <1>2 DEF m, T, F
    <3>2. [line EXCEPT !.time = t] = [measurement |-> m, tags |-> T, fields |-> F, time |-> t]
      BY <3>1 DEF LineWith
    <3> QED BY <1>2, <3>2 DEF WholeLine, m, T, F, t
  <2>4. read' = Append(read, WholeLine(p, count))
    BY <1>2, <2>1, <2>2, <2>3
  <2> QED BY Zenon, <2>2, <2>4 DEF LineEnds
<1> QED BY <1>3, <1>4 DEF AtTime

(* Every step of the reader inside of a line is the one expected there.    *)
LEMMA InLineStep ==
    ASSUME NEW p, NEW count, NEW after, Writable(p, count, after),
           state = "reading", InLine(p, count, after), Next
    PROVE  /\ UNCHANGED <<encoderVars, state>>
           /\ LineGoesOn(p, count, after) \/ LineEnds(p, count, after)
<1>1. CASE InMeasurement(p, count, after)
  BY <1>1, MeasurementStep
<1>2. ASSUME NEW j \in 1 .. Len(p.tags), InTagKey(p, count, after, j)
      PROVE  UNCHANGED <<encoderVars, state>> /\ LineGoesOn(p, count, after)
  BY <1>2, TagKeyStep
<1>3. ASSUME NEW j \in 1 .. Len(p.tags), InTagValue(p, count, after, j)
      PROVE  UNCHANGED <<encoderVars, state>> /\ LineGoesOn(p, count, after)
  BY <1>3, TagValueStep
<1>4. ASSUME NEW j \in 1 .. Len(p.fields), InFieldKey(p, count, after, j)
      PROVE  UNCHANGED <<encoderVars, state>> /\ LineGoesOn(p, count, after)
  BY <1>4, FieldKeyStep
<1>5. ASSUME NEW j \in 1 .. Len(p.fields), AtFieldValue(p, count, after, j)
      PROVE  /\ UNCHANGED <<encoderVars, state>>
             /\ LineGoesOn(p, count, after) \/ LineEnds(p, count, after)
  BY <1>5, FieldValueStep
<1>6. ASSUME NEW j \in 1 .. Len(p.fields), InString(p, count, after, j)
      PROVE  UNCHANGED <<encoderVars, state>> /\ LineGoesOn(p, count, after)
  BY <1>6, StringStep
<1>7. ASSUME NEW j \in 1 .. Len(p.fields), AfterString(p, count, after, j)
      PROVE  /\ UNCHANGED <<encoderVars, state>>
             /\ LineGoesOn(p, count, after) \/ LineEnds(p, count, after)
  BY <1>7, AfterStringStep
<1>8. CASE AtTime(p, count, after)
  BY <1>8, TimeStep
<1> QED BY <1>1, <1>2, <1>3, <1>4, <1>5, <1>6, <1>7, <1>8 DEF InLine

(* A line that begins.                                                     *)
LEMMA LineBegins ==
    ASSUME NEW p, NEW count, NEW after, Writable(p, count, after),
           place = "measurement", word = <<>>, line = Nothing,
           os = AppendPoint(p, count) \o after
    PROVE  InLine(p, count, after)
<1> DEFINE name == p.measurement
           escapes == ESCAPE_CHARS_MEASUREMENT
           then == TagsText(p, count, after, 1)
<1>1. p \in Point /\ count \in Times /\ after \in Seq(Alphabet) /\ name \in Seq(Chars)
  BY DEF Writable, Point
<1>2. os = Escaped(name, escapes) \o then
  BY <1>1, TagsLayout
<1>3. Escaped(name, escapes) = EscapedFrom(name, escapes, 1)
  BY <1>1, EscapedFromProperties
<1> HIDE DEF name, escapes, then
<1>4. Len(<<>>) = 0 /\ <<>> \in Seq(Chars) /\ Len(name) \in Nat /\ SubSeq(name, 1, 0) = <<>>
  BY <1>1
<1>5. Within(name, escapes, then)
  BY <1>2, <1>3, <1>4 DEF Within
<1>6. InMeasurement(p, count, after)
  BY <1>5 DEF InMeasurement, name, escapes, then
<1> QED BY <1>6 DEF InLine

(* What was rounded as the encoder does it is the same time to a reader.   *)
LEMMA SameTimeRead ==
    ASSUME NEW p \in Point, NEW count \in Counts(p.time, p.precision),
           Representable(p.time, p.precision)
    PROVE  count \in Times /\ SameTime(p, WholeLine(p, count))
<1> DEFINE t == p.time
           unit == p.precision
           r == WholeLine(p, count)
<1>1. t \in Times /\ unit \in Units /\ t \in Int /\ unit \in Nat \ {0}
  <2>1. t \in Times /\ unit \in Units
    BY DEF Point
  <2> HIDE DEF t, unit
  <2> QED BY <2>1, UnitsAssumption, RangeAssumption DEF Times
<1>2. /\ count \in Times /\ 2 * Distance(t, count) <= unit
      /\ \E n \in Int : count = unit * n
  <2> HIDE DEF t, unit
  <2>1. CASE unit = 1
    <3>1. count = t
      BY <1>1, <2>1, NanosecondsAreExact DEF t, unit
    <3>2. Distance(t, t) = 0 /\ t = 1 * t
      BY <1>1 DEF Distance
    <3> QED BY <1>1, <2>1, <3>1, <3>2
  <2>2. CASE unit # 1
    <3>1. t \in Times /\ unit \in Units \ {1} /\ Representable(t, unit) /\ count \in Counts(t, unit)
      BY <1>1, <2>2 DEF t, unit
    <3> QED BY <3>1, RoundedToTheNearest
  <2> QED BY <2>1, <2>2
<1>3. count % unit = 0
  <2>1. PICK n \in Int : count = unit * n
    BY <1>2
  <2> HIDE DEF t, unit
  <2> DEFINE q == count \div unit
             m == count % unit
  <2>2. q \in Int /\ m \in 0 .. unit - 1 /\ count = unit * q + m
    BY <1>1, <2>1
  <2> HIDE DEF q, m
  <2>3. m = unit * (n - q)
    BY <1>1, <2>1, <2>2
  <2>4. n - q \in Int
    BY <2>2
  <2>5. CASE n - q >= 1
    <3>1. unit * (n - q) >= unit * 1
      BY <1>1, <2>4, <2>5
    <3> QED BY <1>1, <2>2, <2>3, <3>1
  <2>6. CASE n - q <= -1
    <3>1. unit * (n - q) <= unit * (-1)
      BY <1>1, <2>4, <2>6
    <3> QED BY <1>1, <2>2, <2>3, <3>1
  <2>7. CASE n - q = 0
    BY <1>1, <2>3, <2>7 DEF m
  <2> QED BY <2>4, <2>5, <2>6, <2>7
<1>4. CASE Omitted(count)
  <2>1. r.time = Now
    BY <1>4 DEF WholeLine
  <2>2. count = 0
    BY <1>4 DEF Omitted
  <2> QED BY <1>2, <2>1, <2>2 DEF SameTime
<1>5. CASE ~Omitted(count)
  <2>1. r.time = TimeToken(count)
    BY <1>5 DEF WholeLine
  <2>2. TimeToken(count) # Now
    BY <1>2, TimeTokenAssumption
  <2> QED BY <1>2, <1>3, <2>1, <2>2 DEF SameTime
<1> QED BY <1>2, <1>4, <1>5

(* What is made of a clean point is that point, with the same time.        *)
LEMMA SamePointRead ==
    ASSUME NEW p \in Point, NEW count \in Counts(p.time, p.precision), CleanPoint(p)
    PROVE  count \in Times /\ SamePoint(p, WholeLine(p, count))
<1>1. count \in Times /\ SameTime(p, WholeLine(p, count))
  BY SameTimeRead DEF CleanPoint
<1> QED BY <1>1 DEF SamePoint, WholeLine

-----------------------------------------------------------------------------
(* What Encode makes of the points, with the counts it arrived at.         *)
End(one) == IF one THEN <<>> ELSE <<LF>>

LinesOf(batch, one, counts) ==
    [i \in 1 .. Len(counts) |-> AppendPoint(batch[i], counts[i]) \o End(one)]

After(batch, one, counts, i) == End(one) \o From(LinesOf(batch, one, counts), i + 1)

WholeLines(batch, counts, k) == [i \in 1 .. k |-> WholeLine(batch[i], counts[i])]

ArrivedAt(batch, counts) ==
    /\ counts \in Seq(Times)
    /\ Len(counts) <= Len(batch)
    /\ \A i \in 1 .. Len(counts) : counts[i] \in Counts(batch[i].time, batch[i].precision)

AtLineStart == place = "measurement" /\ word = <<>> /\ line = Nothing

(* The text is made of the lines of the points encoded so far.             *)
Encoding ==
    /\ AtLineStart /\ read = <<>> /\ next - 1 <= Len(points)
    /\ \E counts : /\ ArrivedAt(points, counts) /\ Len(counts) = next - 1
                   /\ os = FlattenSeq(LinesOf(points, single, counts))

(* The reader is in the i-th line.                                         *)
InLineOf(counts, i) ==
    \E p, count, after :
        /\ p = points[i] /\ count = counts[i] /\ after = After(points, single, counts, i)
        /\ InLine(p, count, after)

(* The first k points have been read, and the reader is at the beginning   *)
(* of the next line, of the end of the text, or in the next line.          *)
ReadingAt(counts, k) ==
    /\ ArrivedAt(points, counts) /\ Len(counts) = Len(points)
    /\ k \in 0 .. Len(points)
    /\ read = WholeLines(points, counts, k)
    /\ \/ AtLineStart /\ os = From(LinesOf(points, single, counts), k + 1)
       \/ k < Len(points) /\ InLineOf(counts, k + 1)

Reading == \E counts, k : ReadingAt(counts, k)

AllRead ==
    \E counts : /\ ArrivedAt(points, counts) /\ Len(counts) = Len(points)
                /\ read = WholeLines(points, counts, Len(points))

BatchClean == \A i \in DOMAIN points : CleanPoint(points[i])

Arrives ==
    /\ state = "encoding" => Encoding
    /\ state = "reading" => Reading
    /\ state = "read" => AllRead
    /\ state # "malformed"

RoundTripInv ==
    /\ EncoderInv
    /\ single \in BOOLEAN /\ (single => Len(points) = 1)
    /\ BatchClean => Arrives

-----------------------------------------------------------------------------
(* A line and all lines are texts, and what is left of them.               *)
LEMMA LinesType ==
    ASSUME NEW batch \in Seq(Point), NEW one \in BOOLEAN, NEW counts, ArrivedAt(batch, counts)
    PROVE  /\ End(one) \in Seq(Alphabet)
           /\ \A i \in 1 .. Len(counts) : AppendPoint(batch[i], counts[i]) \in Seq(Alphabet)
           /\ LinesOf(batch, one, counts) \in Seq(Seq(Alphabet))
           /\ Len(LinesOf(batch, one, counts)) = Len(counts)
           /\ \A i \in 1 .. Len(counts) :
                LinesOf(batch, one, counts)[i] = AppendPoint(batch[i], counts[i]) \o End(one)
<1> DEFINE L == LinesOf(batch, one, counts)
<1>1. End(one) \in Seq(Alphabet)
  <2>1. <<LF>> \in Seq(Alphabet) /\ <<>> \in Seq(Alphabet)
    BY WordTypes DEF Chars
  <2> QED BY <2>1 DEF End
<1>2. /\ Len(counts) \in Nat /\ Len(batch) \in Nat /\ Len(counts) <= Len(batch)
      /\ \A i \in 1 .. Len(counts) : counts[i] \in Times
  BY DEF ArrivedAt
<1>3. ASSUME NEW i \in 1 .. Len(counts)
      PROVE  AppendPoint(batch[i], counts[i]) \in Seq(Alphabet)
  <2> DEFINE p == batch[i]
             c == counts[i]
             m == Escaped(p.measurement, ESCAPE_CHARS_MEASUREMENT)
  <2>1. p \in Point /\ c \in Times
    BY <1>2
  <2>2. <<>> \in Seq(Alphabet)
    OBVIOUS
  <2> HIDE DEF p, c
  <2>3. AppendPoint(p, c) = m \o Tags(p.tags) \o <<SPACE>> \o Fields(p.fields) \o Timestamp(c)
    BY DEF AppendPoint
  <2>4. m \in Seq(Alphabet) /\ Timestamp(c) \in Seq(Alphabet) /\ <<SPACE>> \in Seq(Alphabet)
    <3>1. p.measurement \in Seq(Chars)
      BY <2>1 DEF Point
    <3> QED BY <2>1, <3>1, WordTypes DEF Chars
  <2>5. Tags(p.tags) \in Seq(Alphabet)
    <3>1. p.tags \in Seq([key : Seq(Chars), value : Seq(Chars)])
      BY <2>1, TagParts
    <3>2. TagPieces(p.tags) \in Seq(Seq(Alphabet))
      BY <3>1, TagPiecesType
    <3>3. Tags(p.tags) = FlattenSeq(TagPieces(p.tags))
      BY DEF Tags, TagPieces
    <3> QED BY <3>2, <3>3, FlattenType
  <2>6. Fields(p.fields) \in Seq(Alphabet)
    <3>1. p.fields \in Seq([key : Seq(Chars), value : FieldValue])
      BY <2>1, FieldParts
    <3>2. FieldPieces(p.fields) \in Seq(Seq(Alphabet))
      BY <3>1, FieldPiecesType
    <3>3. Fields(p.fields) = FlattenSeq(FieldPieces(p.fields))
      BY DEF Fields, FieldPieces
    <3> QED BY <3>2, <3>3, FlattenType
  <2> DEFINE t == Tags(p.tags)
             f == Fields(p.fields)
             z == Timestamp(c)
             sp == <<SPACE>>
  <2> HIDE DEF m, t, f, z, sp
  <2>7. (((m \o t) \o sp) \o f) \o z \in Seq(Alphabet)
    BY <2>4, <2>5, <2>6 DEF t, f, z, sp
  <2>8. AppendPoint(p, c) \in Seq(Alphabet)
    BY <2>3, <2>7 DEF t, f, z, sp
  <2> QED BY <2>8 DEF p, c
<1>4. ASSUME NEW i \in 1 .. Len(counts)
      PROVE  AppendPoint(batch[i], counts[i]) \o End(one) \in Seq(Alphabet)
  <2> DEFINE a == AppendPoint(batch[i], counts[i])
             b == End(one)
  <2>1. a \in Seq(Alphabet) /\ b \in Seq(Alphabet)
    BY <1>1, <1>3
  <2> HIDE DEF a, b
  <2>2. a \o b \in Seq(Alphabet)
    BY <2>1
  <2> QED BY <2>2 DEF a, b
<1>5. L \in [1 .. Len(counts) -> Seq(Alphabet)]
  BY <1>4 DEF LinesOf
<1>6. \A i \in 1 .. Len(counts) : L[i] = AppendPoint(batch[i], counts[i]) \o End(one)
  BY DEF LinesOf
<1> HIDE DEF L
<1>7. L \in Seq(Seq(Alphabet)) /\ Len(L) = Len(counts)
  BY <1>2, <1>5
<1> QED BY <1>1, <1>3, <1>6, <1>7 DEF L

(* What is left from a line on is the line, its line feed and what is left *)
(* after it.                                                               *)
LEMMA LinesGoOn ==
    ASSUME NEW batch \in Seq(Point), NEW one \in BOOLEAN, one => Len(batch) = 1,
           NEW counts, ArrivedAt(batch, counts), Len(counts) = Len(batch),
           NEW i \in 1 .. Len(batch)
    PROVE  /\ After(batch, one, counts, i) \in Seq(Alphabet)
           /\ \/ After(batch, one, counts, i) = <<>>
              \/ Head(After(batch, one, counts, i)) = LF
           /\ From(LinesOf(batch, one, counts), i) =
                AppendPoint(batch[i], counts[i]) \o After(batch, one, counts, i)
           /\ From(LinesOf(batch, one, counts), i + 1) =
                IF After(batch, one, counts, i) = <<>> THEN <<>>
                ELSE Tail(After(batch, one, counts, i))
<1> DEFINE L == LinesOf(batch, one, counts)
           e == End(one)
           rest == From(L, i + 1)
           a == AppendPoint(batch[i], counts[i])
           A == After(batch, one, counts, i)
<1>1. /\ e \in Seq(Alphabet) /\ a \in Seq(Alphabet) /\ L \in Seq(Seq(Alphabet))
      /\ Len(L) = Len(batch) /\ L[i] = a \o e
  <2>1. /\ e \in Seq(Alphabet) /\ L \in Seq(Seq(Alphabet)) /\ Len(L) = Len(counts)
        /\ \A k \in 1 .. Len(counts) :
              /\ AppendPoint(batch[k], counts[k]) \in Seq(Alphabet)
              /\ L[k] = AppendPoint(batch[k], counts[k]) \o e
    BY ZenonT(40), LinesType
  <2> HIDE DEF L, e
  <2>2. i \in 1 .. Len(counts)
    OBVIOUS
  <2> QED BY Zenon, <2>1, <2>2
<1>2. A = e \o rest
  BY DEF After
<1> HIDE DEF L, e, a, A
<1>3. /\ rest \in Seq(Alphabet) /\ From(L, i) = L[i] \o rest
      /\ From(L, Len(batch) + 1) = <<>>
  BY <1>1, FromProperties
<1>4. i = Len(batch) => rest = <<>>
  BY <1>3
<1> HIDE DEF rest
<1>5. From(L, i) = a \o A /\ A \in Seq(Alphabet)
  <2>0. a \in Seq(Alphabet) /\ e \in Seq(Alphabet) /\ rest \in Seq(Alphabet)
    BY <1>1, <1>3
  <2>1. (a \o e) \o rest = a \o (e \o rest)
    BY <2>0
  <2>2. e \o rest \in Seq(Alphabet)
    BY <2>0
  <2> QED BY <1>1, <1>2, <1>3, <2>1, <2>2
<1>6. CASE one
  <2>1. e = <<>> /\ rest = <<>>
    <3>1. i = Len(batch)
      BY <1>6
    <3> QED BY <1>4, <1>6, <3>1 DEF e, End
  <2>2. A = <<>>
    BY <1>2, <2>1
  <2> QED BY <1>5, <2>1, <2>2 DEF A, L, a, rest
<1>7. CASE ~one
  <2>1. e = <<LF>>
    BY <1>7 DEF e, End
  <2>2. LF \in Alphabet
    BY DEF Alphabet, Chars
  <2>3. A # <<>> /\ Head(A) = LF /\ Tail(A) = rest
    BY <1>2, <1>3, <2>1, <2>2
  <2> QED BY <1>5, <2>3 DEF A, L, a, rest
<1> QED BY <1>6, <1>7

(* One more line.                                                          *)
LEMMA LinesGrow ==
    ASSUME NEW batch \in Seq(Point), NEW one \in BOOLEAN, NEW counts, ArrivedAt(batch, counts),
           NEW n, n = Len(counts) + 1, n <= Len(batch),
           NEW count \in Counts(batch[n].time, batch[n].precision), count \in Times
    PROVE  /\ ArrivedAt(batch, Append(counts, count)) /\ Len(Append(counts, count)) = n
           /\ FlattenSeq(LinesOf(batch, one, Append(counts, count))) =
                Cat(Cat(FlattenSeq(LinesOf(batch, one, counts)), AppendPoint(batch[n], count)),
                    End(one))
<1> DEFINE more == Append(counts, count)
           L == LinesOf(batch, one, counts)
           M == LinesOf(batch, one, more)
           x == AppendPoint(batch[n], count) \o End(one)
<1>1. counts \in Seq(Times) /\ Len(counts) \in Nat /\ n \in Nat /\ Len(counts) = n - 1
  BY DEF ArrivedAt
<1>2. /\ more \in Seq(Times) /\ Len(more) = n /\ more[n] = count
      /\ \A i \in 1 .. n - 1 : more[i] = counts[i]
  BY <1>1
<1>3. ArrivedAt(batch, more)
  <2> HIDE DEF more
  <2>1. \A i \in 1 .. n - 1 : counts[i] \in Counts(batch[i].time, batch[i].precision)
    BY <1>1 DEF ArrivedAt
  <2>2. ASSUME NEW i \in 1 .. n
        PROVE  more[i] \in Counts(batch[i].time, batch[i].precision)
    <3>1. CASE i = n
      BY <1>2, <3>1
    <3>2. CASE i # n
      <4>1. i \in 1 .. n - 1
        BY <1>1, <3>2
      <4> QED BY <1>2, <2>1, <4>1
    <3> QED BY <3>1, <3>2
  <2> QED BY <1>2, <2>2 DEF ArrivedAt
<1> HIDE DEF more
<1>4. /\ L \in Seq(Seq(Alphabet)) /\ Len(L) = n - 1
      /\ \A i \in 1 .. n - 1 : L[i] = AppendPoint(batch[i], counts[i]) \o End(one)
  <2>1. /\ L \in Seq(Seq(Alphabet)) /\ Len(L) = Len(counts)
        /\ \A i \in 1 .. Len(counts) : L[i] = AppendPoint(batch[i], counts[i]) \o End(one)
    BY Zenon, LinesType
  <2> HIDE DEF L
  <2> QED BY <1>1, <2>1
<1>5. /\ M \in Seq(Seq(Alphabet)) /\ Len(M) = n /\ End(one) \in Seq(Alphabet)
      /\ AppendPoint(batch[n], count) \in Seq(Alphabet)
      /\ \A i \in 1 .. n : M[i] = AppendPoint(batch[i], more[i]) \o End(one)
  <2>1. n \in 1 .. n
    BY <1>1
  <2>2. /\ M \in Seq(Seq(Alphabet)) /\ Len(M) = Len(more) /\ End(one) \in Seq(Alphabet)
        /\ \A i \in 1 .. Len(more) :
              /\ AppendPoint(batch[i], more[i]) \in Seq(Alphabet)
              /\ M[i] = AppendPoint(batch[i], more[i]) \o End(one)
    BY Zenon, <1>3, LinesType
  <2> HIDE DEF M
  <2> QED BY Zenon, <1>2, <2>1, <2>2
<1>6. x \in Seq(Alphabet)
  <2> DEFINE a == AppendPoint(batch[n], count)
             e == End(one)
  <2>1. a \in Seq(Alphabet) /\ e \in Seq(Alphabet)
    BY <1>5
  <2> HIDE DEF a, e
  <2>2. a \o e \in Seq(Alphabet)
    BY <2>1
  <2> QED BY <2>2 DEF a, e
<1>7. M = L \o <<x>>
  <2>1. M[n] = x
    <3>1. n \in 1 .. n
      BY <1>1
    <3> QED BY Zenon, <1>2, <1>5, <3>1
  <2>2. \A i \in 1 .. n - 1 : M[i] = L[i]
    <3>1. \A i \in 1 .. n - 1 : i \in 1 .. n
      BY <1>1
    <3> QED BY <1>2, <1>4, <1>5, <3>1
  <2> HIDE DEF L, M, x
  <2>3. <<x>> \in Seq(Seq(Alphabet)) /\ Len(<<x>>) = 1 /\ <<x>>[1] = x
    BY <1>6
  <2>4. /\ Len(M) = Len(L) + Len(<<x>>)
        /\ \A i \in 1 .. Len(L) : M[i] = L[i]
        /\ \A i \in 1 .. Len(<<x>>) : M[Len(L) + i] = <<x>>[i]
    BY <1>1, <1>4, <1>5, <2>1, <2>2, <2>3
  <2> DEFINE S == Seq(Alphabet)
             one1 == <<x>>
  <2>5. M \in Seq(S) /\ L \in Seq(S) /\ one1 \in Seq(S)
    BY <1>4, <1>5, <2>3
  <2>6. /\ Len(M) = Len(L) + Len(one1)
        /\ \A i \in 1 .. Len(L) : M[i] = L[i]
        /\ \A i \in 1 .. Len(one1) : M[Len(L) + i] = one1[i]
    BY <2>4
  <2> HIDE DEF S, one1
  <2>7. M = L \o one1
    BY <2>5, <2>6, IsConcat
  <2> QED BY <2>7 DEF one1
<1>8. FlattenSeq(M) = FlattenSeq(L) \o x
  <2>1. <<x>> \in Seq(Seq(Alphabet))
    BY <1>6
  <2>2. FlattenSeq(L \o <<x>>) = FlattenSeq(L) \o FlattenSeq(<<x>>)
    BY <1>4, <2>1, FlattenConcat
  <2>3. FlattenSeq(<<x>>) = x
    BY <1>6, FlattenOne
  <2> QED BY <1>7, <2>2, <2>3
<1>9. FlattenSeq(L) \o x = (FlattenSeq(L) \o AppendPoint(batch[n], count)) \o End(one)
  <2> DEFINE f == FlattenSeq(L)
             a == AppendPoint(batch[n], count)
             e == End(one)
  <2>1. f \in Seq(Alphabet) /\ a \in Seq(Alphabet) /\ e \in Seq(Alphabet)
    BY <1>4, <1>5, FlattenType
  <2> HIDE DEF f, a, e
  <2>2. f \o (a \o e) = (f \o a) \o e
    BY SMTT(30), <2>1
  <2> QED BY <2>2 DEF f, a, e
<1> QED BY <1>2, <1>3, <1>8, <1>9 DEF more, Cat

(* The points that have been read, one after the other.                    *)
LEMMA WholeLinesGrow ==
    ASSUME NEW batch, NEW counts, NEW k \in Nat
    PROVE  Append(WholeLines(batch, counts, k), WholeLine(batch[k + 1], counts[k + 1])) =
                WholeLines(batch, counts, k + 1)
<1> DEFINE W(i) == WholeLine(batch[i], counts[i])
<1>1. WholeLines(batch, counts, k) = [i \in 1 .. k |-> W(i)]
      /\ WholeLines(batch, counts, k + 1) = [i \in 1 .. k + 1 |-> W(i)]
  BY DEF WholeLines
<1> HIDE DEF W
<1> DEFINE S == {W(i) : i \in 1 .. k + 1}
           q == [i \in 1 .. k |-> W(i)]
           r == [i \in 1 .. k + 1 |-> W(i)]
<1>2. q \in Seq(S) /\ r \in Seq(S) /\ W(k + 1) \in S /\ Len(q) = k /\ Len(r) = k + 1
  <2>1. \A i \in 1 .. k + 1 : W(i) \in S
    OBVIOUS
  <2> HIDE DEF S
  <2>2. k + 1 \in 1 .. k + 1 /\ k + 1 \in Nat /\ \A i \in 1 .. k : i \in 1 .. k + 1
    OBVIOUS
  <2>3. q \in [1 .. k -> S] /\ r \in [1 .. k + 1 -> S]
    BY <2>1, <2>2
  <2> HIDE DEF q, r
  <2>4. q \in Seq(S) /\ r \in Seq(S) /\ Len(q) = k /\ Len(r) = k + 1
    BY <2>2, <2>3
  <2> QED BY <2>1, <2>2, <2>4
<1>3. \A i \in 1 .. k : q[i] = W(i)
  OBVIOUS
<1>4. \A i \in 1 .. k + 1 : r[i] = W(i)
  OBVIOUS
<1> DEFINE x == W(k + 1)
<1> HIDE DEF q, r, S, x
<1>5. /\ Append(q, x) \in Seq(S) /\ Len(Append(q, x)) = k + 1
      /\ Append(q, x)[k + 1] = x /\ \A i \in 1 .. k : Append(q, x)[i] = q[i]
  BY <1>2 DEF x
<1>6. \A i \in 1 .. k + 1 : Append(q, x)[i] = r[i]
  BY <1>3, <1>4, <1>5 DEF x
<1>7. Append(q, x) = r
  BY <1>2, <1>5, <1>6, SeqEqual
<1> QED BY <1>1, <1>7 DEF q, r, x, W

(* Nothing has been encoded and nothing read.                              *)
LEMMA RoundTripInvInit == Init => RoundTripInv
<1> SUFFICES ASSUME Init
             PROVE  RoundTripInv
  OBVIOUS
<1>1. points \in Seq(Point) /\ single \in BOOLEAN /\ (single => Len(points) = 1)
  BY BatchesAssumption DEF Init
<1>2. EncoderInv
  BY EncoderInvInit
<1>3. ArrivedAt(points, <<>>) /\ Len(<<>>) = 0
  BY <1>1 DEF ArrivedAt
<1>4. LinesOf(points, single, <<>>) = <<>>
  <2> DEFINE L == LinesOf(points, single, <<>>)
  <2>1. L \in Seq(Seq(Alphabet)) /\ Len(L) = 0
    BY <1>1, <1>3, LinesType
  <2> HIDE DEF L
  <2>2. L = <<>>
    BY <2>1
  <2> QED BY <2>2 DEF L
<1>5. Encoding
  <2>1. os = FlattenSeq(LinesOf(points, single, <<>>))
    BY Zenon, <1>4, FlattenEmpty DEF Init
  <2>2. next - 1 = 0 /\ next - 1 <= Len(points)
    BY <1>1 DEF Init
  <2>3. AtLineStart /\ read = <<>>
    BY DEF Init, AtLineStart
  <2>4. Len(<<>>) = next - 1
    BY <1>3, <2>2
  <2> QED BY <1>3, <2>1, <2>2, <2>3, <2>4 DEF Encoding
<1>6. Arrives
  BY <1>5 DEF Init, Arrives
<1> QED BY <1>1, <1>2, <1>6 DEF RoundTripInv

(* The encoder appends a line.                                             *)
LEMMA EncodingStep ==
    ASSUME points \in Seq(Point), single \in BOOLEAN, BatchClean, next \in Nat \ {0},
           Encoding, EncodeNext
    PROVE  Encoding'
<1>1. PICK counts : /\ ArrivedAt(points, counts) /\ Len(counts) = next - 1
                    /\ os = FlattenSeq(LinesOf(points, single, counts))
  BY DEF Encoding
<1>2. PICK count \in Counts(points[next].time, points[next].precision) :
        os' = (os \o AppendPoint(points[next], count)) \o End(single)
  BY DEF EncodeNext, End
<1>3. /\ next <= Len(points) /\ next' = next + 1 /\ next = Len(counts) + 1
      /\ UNCHANGED <<points, single, state, readerVars>>
  BY <1>1 DEF EncodeNext
<1>4. count \in Times
  <2>1. next \in DOMAIN points /\ points[next] \in Point
    BY <1>3
  <2>2. CleanPoint(points[next])
    BY <2>1 DEF BatchClean
  <2> QED BY <2>1, <2>2, SamePointRead
<1> DEFINE more == Append(counts, count)
<1>5. /\ ArrivedAt(points, more) /\ Len(more) = next
      /\ FlattenSeq(LinesOf(points, single, more)) =
            (FlattenSeq(LinesOf(points, single, counts)) \o AppendPoint(points[next], count))
            \o End(single)
  <2> DEFINE n == next
  <2>1. n = Len(counts) + 1 /\ n <= Len(points) /\ ArrivedAt(points, counts)
    BY <1>1, <1>3
  <2>2. count \in Counts(points[n].time, points[n].precision)
    OBVIOUS
  <2> HIDE DEF n
  <2>3. /\ ArrivedAt(points, Append(counts, count)) /\ Len(Append(counts, count)) = n
        /\ FlattenSeq(LinesOf(points, single, Append(counts, count))) =
                Cat(Cat(FlattenSeq(LinesOf(points, single, counts)), AppendPoint(points[n], count)),
                    End(single))
    BY <1>4, <2>1, <2>2, LinesGrow
  <2> QED BY <2>3 DEF n, Cat
<1> HIDE DEF more
<1>6. /\ ArrivedAt(points', more) /\ Len(more) = next' - 1
      /\ os' = FlattenSeq(LinesOf(points', single', more))
  <2>1. next' - 1 = next
    BY <1>3
  <2> QED BY <1>1, <1>2, <1>3, <1>5, <2>1
<1>7. /\ AtLineStart' /\ read' = <<>> /\ next' - 1 <= Len(points')
  BY <1>3 DEF Encoding, AtLineStart, readerVars
<1> QED BY <1>6, <1>7 DEF Encoding

(* The reader begins with the first line.                                  *)
LEMMA ReadingBegins ==
    ASSUME points \in Seq(Point), single \in BOOLEAN, next \in Nat \ {0},
           Encoding, EncodeReturns
    PROVE  Reading'
<1>1. PICK counts : /\ ArrivedAt(points, counts) /\ Len(counts) = next - 1
                    /\ os = FlattenSeq(LinesOf(points, single, counts))
  BY DEF Encoding
<1>2. Len(counts) = Len(points) /\ UNCHANGED <<encoderVars, os, readerVars>>
  BY <1>1 DEF EncodeReturns, Encoding
<1> DEFINE L == LinesOf(points, single, counts)
<1>3. os = From(L, 0 + 1)
  <2>1. L \in Seq(Seq(Alphabet))
    BY <1>1, LinesType
  <2> HIDE DEF L
  <2>2. From(L, 1) = FlattenSeq(L)
    BY <2>1, FromProperties
  <2>3. 0 + 1 = 1
    OBVIOUS
  <2> QED BY <1>1, <2>2, <2>3 DEF L
<1>4. read = WholeLines(points, counts, 0)
  <2>1. read = <<>>
    BY DEF Encoding
  <2>2. WholeLines(points, counts, 0) = <<>>
    BY DEF WholeLines
  <2> QED BY <2>1, <2>2
<1>5. 0 \in 0 .. Len(points) /\ AtLineStart
  BY DEF Encoding
<1>6. AtLineStart' /\ UNCHANGED <<points, single, os, read>>
  BY <1>2, <1>5 DEF AtLineStart, encoderVars, readerVars
<1>7. ReadingAt(counts, 0)'
  BY <1>1, <1>2, <1>3, <1>4, <1>5, <1>6 DEF ReadingAt
<1> QED BY <1>7 DEF Reading

(* A line of the batch is written as the reader expects it.                *)
LEMMA BatchWritable ==
    ASSUME points \in Seq(Point), single \in BOOLEAN, single => Len(points) = 1,
           BatchClean, \A i \in DOMAIN points : ~Invalid(points[i]),
           NEW counts, ArrivedAt(points, counts), Len(counts) = Len(points),
           NEW i \in 1 .. Len(points)
    PROVE  Writable(points[i], counts[i], After(points, single, counts, i))
<1>1. /\ After(points, single, counts, i) \in Seq(Alphabet)
      /\ \/ After(points, single, counts, i) = <<>>
         \/ Head(After(points, single, counts, i)) = LF
  BY LinesGoOn
<1>2. i \in DOMAIN points /\ points[i] \in Point
  OBVIOUS
<1>3. CleanPoint(points[i]) /\ points[i].fields # <<>>
  BY <1>2 DEF BatchClean, Invalid
<1>4. counts[i] \in Times
  BY DEF ArrivedAt
<1> QED BY <1>1, <1>2, <1>3, <1>4 DEF Writable

(* A step of the reader: in a line, from one to the next, or at the end.   *)
LEMMA ReadingStep ==
    ASSUME points \in Seq(Point), single \in BOOLEAN, single => Len(points) = 1,
           BatchClean, \A i \in DOMAIN points : ~Invalid(points[i]),
           state = "reading", Reading, Next
    PROVE  /\ UNCHANGED encoderVars
           /\ \/ state' = "reading" /\ Reading'
              \/ state' = "read" /\ AllRead'
<1>1. PICK counts, k : ReadingAt(counts, k)
  BY DEF Reading
<1>2. /\ ArrivedAt(points, counts) /\ Len(counts) = Len(points)
      /\ k \in 0 .. Len(points) /\ k \in Nat /\ Len(points) \in Nat
      /\ read = WholeLines(points, counts, k)
  BY <1>1 DEF ReadingAt
<1>3. CASE k = Len(points)
  <2>1. AtLineStart /\ os = <<>>
    <3> DEFINE L == LinesOf(points, single, counts)
    <3>1. AtLineStart /\ os = From(L, k + 1)
      BY <1>1, <1>3 DEF ReadingAt
    <3>2. L \in Seq(Seq(Alphabet)) /\ Len(L) = k
      BY <1>2, <1>3, LinesType
    <3> HIDE DEF L
    <3>3. From(L, k + 1) = <<>>
      BY <3>2, FromProperties
    <3> QED BY <3>1, <3>3
  <2>2. ~EncodeNext /\ ~EncodeThrows /\ ~EncodeReturns /\ ~ReadFails /\ ~ReadChar
    BY <2>1 DEF EncodeNext, EncodeThrows, EncodeReturns, ReadFails, ReadChar
  <2>3. ~LineComplete
    BY <2>1 DEF AtLineStart, LineComplete, ValueEnds
  <2>4. \A c, then : ~Turn(c, then)
    BY <2>1 DEF Turn
  <2>5. ReadEnds
    BY <2>2, <2>3, <2>4 DEF Next, ReadStep, ReadMeasurement, ReadTagKey, ReadTagValue,
          ReadFieldKey, OpenString, CloseString, ReadFieldValue, ReadLineEnd, WordEnds
  <2>6. state' = "read" /\ UNCHANGED <<encoderVars, readerVars>>
    BY <2>1, <2>5 DEF ReadEnds, AtLineStart
  <2>7. AllRead'
    BY <1>2, <1>3, <2>6 DEF AllRead, encoderVars, readerVars
  <2> QED BY <2>6, <2>7
<1>4. CASE k # Len(points)
  <2> DEFINE i == k + 1
             p == points[i]
             count == counts[i]
             after == After(points, single, counts, i)
  <2>1. i \in 1 .. Len(points) /\ k < Len(points) /\ i \in 0 .. Len(points)
    BY <1>2, <1>4
  <2>2. Writable(p, count, after)
    BY <1>2, <2>1, BatchWritable
  <2>3. /\ From(LinesOf(points, single, counts), i) = AppendPoint(p, count) \o after
        /\ From(LinesOf(points, single, counts), i + 1) =
                IF after = <<>> THEN <<>> ELSE Tail(after)
    BY <1>2, <2>1, LinesGoOn
  <2>4. PICK q, c, a : q = p /\ c = count /\ a = after /\ InLine(q, c, a)
    <3>1. CASE AtLineStart /\ os = From(LinesOf(points, single, counts), i)
      <4>1. os = AppendPoint(p, count) \o after
        BY Zenon, <2>3, <3>1
      <4> HIDE DEF p, count, after
      <4>2. InLine(p, count, after)
        BY <2>2, <3>1, <4>1, LineBegins DEF AtLineStart
      <4> QED BY Zenon, <4>2
    <3>2. CASE InLineOf(counts, i)
      BY <3>2 DEF InLineOf
    <3> QED BY <1>1, <3>1, <3>2 DEF ReadingAt
  <2>7. /\ UNCHANGED <<encoderVars, state>>
        /\ LineGoesOn(q, c, a) \/ LineEnds(q, c, a)
    <3>1. Writable(q, c, a)
      BY <2>2, <2>4
    <3> QED BY Zenon, <2>4, <3>1, InLineStep
  <2>8. points' = points /\ single' = single
    BY <2>7 DEF encoderVars
  <2>9. CASE LineGoesOn(q, c, a)
    <3>1. InLine(q, c, a)' /\ read' = read
      BY <2>9 DEF LineGoesOn
    <3>2. /\ q = points'[i] /\ c = counts[i]
          /\ a = After(points', single', counts, i)
      BY <2>4, <2>8
    <3>3. InLineOf(counts, i)'
      BY Zenon, <3>1, <3>2 DEF InLineOf
    <3>4. ReadingAt(counts, k)'
      BY <1>2, <2>1, <2>8, <3>1, <3>3 DEF ReadingAt
    <3>5. Reading'
      BY <3>4 DEF Reading
    <3> QED BY <2>7, <3>5
  <2>10. CASE LineEnds(q, c, a)
    <3>1. read' = WholeLines(points', counts, i)
      <4>1. read' = Append(read, WholeLine(p, count))
        BY <2>4, <2>10 DEF LineEnds
      <4> QED BY <1>2, <2>8, <4>1, WholeLinesGrow
    <3>2. AtLineStart' /\ os' = From(LinesOf(points', single', counts), i + 1)
      <4>1. AtLineStart'
        BY <2>10 DEF LineEnds, AtLineStart
      <4>2. os' = IF a = <<>> THEN <<>> ELSE Tail(a)
        BY <2>10 DEF LineEnds
      <4> QED BY <2>3, <2>4, <2>8, <4>1, <4>2
    <3>3. ReadingAt(counts, i)'
      BY <1>2, <2>1, <2>8, <3>1, <3>2 DEF ReadingAt
    <3>4. Reading'
      BY <3>3 DEF Reading
    <3> QED BY <2>7, <3>4
  <2> QED BY <2>7, <2>9, <2>10
<1> QED BY <1>3, <1>4

(* Every step keeps the text, what has been read and what is left          *)
(* together.                                                               *)
LEMMA RoundTripInvNext == RoundTripInv /\ [Next]_vars => RoundTripInv'
<1> SUFFICES ASSUME RoundTripInv, [Next]_vars
             PROVE  RoundTripInv'
  OBVIOUS
<1>1. EncoderInv'
  BY EncoderInvNext DEF RoundTripInv
<1>2. UNCHANGED <<points, single>>
  <2>1. ReadStep => UNCHANGED encoderVars
    BY ReadersOnlyRead
  <2> QED BY <2>1 DEF Next, EncodeNext, EncodeThrows, EncodeReturns, ReadFails, ReadEnds, vars,
          encoderVars
<1>3. single' \in BOOLEAN /\ (single' => Len(points') = 1)
  BY <1>2 DEF RoundTripInv
<1>4. ASSUME BatchClean'
      PROVE  Arrives'
  <2>0. BatchClean
    BY <1>2, <1>4 DEF BatchClean
  <2>1. /\ Arrives /\ points \in Seq(Point) /\ next \in Nat \ {0}
        /\ single \in BOOLEAN /\ (single => Len(points) = 1)
        /\ state \in {"reading", "read"} => \A i \in DOMAIN points : ~Invalid(points[i])
    BY <2>0 DEF RoundTripInv, EncoderInv, Passed, NoPartialBatch
  <2>2. CASE EncodeNext
    <3>1. state = "encoding" /\ state' = "encoding"
      BY <2>2 DEF EncodeNext
    <3>2. Encoding'
      BY <2>0, <2>1, <2>2, <3>1, EncodingStep DEF Arrives
    <3> QED BY <3>1, <3>2 DEF Arrives
  <2>3. CASE EncodeThrows
    BY <2>3 DEF EncodeThrows, Arrives
  <2>4. CASE EncodeReturns
    <3>1. state = "encoding" /\ state' = "reading"
      BY <2>4 DEF EncodeReturns
    <3>2. Reading'
      BY <2>1, <2>4, <3>1, ReadingBegins DEF Arrives
    <3> QED BY <3>1, <3>2 DEF Arrives
  <2>5. CASE ReadStep \/ ReadFails \/ ReadEnds
    <3>1. state = "reading" /\ Next
      BY <2>5 DEF Next, ReadStep, ReadChar, ReadMeasurement, ReadTagKey, ReadTagValue,
          ReadFieldKey, OpenString, CloseString, ReadFieldValue, ReadLineEnd, WordEnds, Turn,
          TextEnds, ReadFails, ReadEnds
    <3>2. \/ state' = "reading" /\ Reading'
          \/ state' = "read" /\ AllRead'
      BY <2>0, <2>1, <3>1, ReadingStep DEF Arrives
    <3> QED BY <3>2 DEF Arrives
  <2>6. CASE UNCHANGED vars
    <3>1. UNCHANGED <<points, single, next, os, state, place, word, line, read>>
      BY <2>6 DEF vars, encoderVars, readerVars
    <3>2. Encoding => Encoding'
      BY <3>1 DEF Encoding, AtLineStart
    <3>3. Reading => Reading'
      <4> SUFFICES ASSUME NEW counts, NEW k, ReadingAt(counts, k)
                   PROVE  ReadingAt(counts, k)'
        BY DEF Reading
      <4>1. AtLineStart => AtLineStart'
        BY <3>1 DEF AtLineStart
      <4>2. \A i : InLineOf(counts, i) => InLineOf(counts, i)'
        <5> SUFFICES ASSUME NEW i, NEW p, NEW count, NEW after, p = points[i],
                            count = counts[i], after = After(points, single, counts, i),
                            InLine(p, count, after)
                     PROVE  InLineOf(counts, i)'
          BY DEF InLineOf
        <5>1. InLine(p, count, after)'
          BY <3>1 DEF InLine, InMeasurement, InTagKey, InTagValue, InFieldKey, AtFieldValue,
              InString, AfterString, AtTime, Within
        <5>2. /\ p = points'[i] /\ count = counts[i]
              /\ after = After(points', single', counts, i)
          BY <3>1
        <5> QED BY Zenon, <5>1, <5>2 DEF InLineOf
      <4> QED BY <3>1, <4>1, <4>2 DEF ReadingAt
    <3>4. AllRead => AllRead'
      BY <3>1 DEF AllRead
    <3> QED BY <2>1, <3>1, <3>2, <3>3, <3>4 DEF Arrives
  <2> QED BY <2>2, <2>3, <2>4, <2>5, <2>6 DEF Next
<1> QED BY <1>1, <1>3, <1>4 DEF RoundTripInv

(* Whatever separators, quotes and backslashes the names and values of the *)
(* points contain, however many points, tags and fields there are, and     *)
(* whatever the precisions: a batch with clean names is read by a server   *)
(* as the points that were written, complete and in order.                 *)
THEOREM RoundTripCorrect == Spec => []RoundTrip
<1>1. Spec => []RoundTripInv
  BY RoundTripInvInit, RoundTripInvNext, PTL DEF Spec
<1>2. RoundTripInv => RoundTrip
  <2> SUFFICES ASSUME RoundTripInv, state \in {"read", "malformed"}, BatchClean
               PROVE  /\ state = "read"
                      /\ Len(read) = Len(points)
                      /\ \A i \in DOMAIN points : SamePoint(points[i], read[i])
                      /\ DOMAIN read = DOMAIN points
    BY Zenon DEF RoundTrip, BatchClean
  <2>1. state = "read" /\ AllRead /\ points \in Seq(Point)
    BY DEF RoundTripInv, Arrives, EncoderInv, Passed
  <2>2. PICK counts : /\ ArrivedAt(points, counts) /\ Len(counts) = Len(points)
                      /\ read = WholeLines(points, counts, Len(points))
    BY <2>1 DEF AllRead
  <2>3. DOMAIN points = 1 .. Len(points) /\ Len(points) \in Nat
    BY <2>1
  <2>4. DOMAIN read = DOMAIN points /\ Len(read) = Len(points)
    BY <2>2, <2>3 DEF WholeLines
  <2>5. ASSUME NEW i \in DOMAIN points
        PROVE  SamePoint(points[i], read[i])
    <3>1. points[i] \in Point /\ CleanPoint(points[i])
      BY <2>1 DEF BatchClean
    <3>2. counts[i] \in Counts(points[i].time, points[i].precision)
      BY <2>2, <2>3 DEF ArrivedAt
    <3>3. read[i] = WholeLine(points[i], counts[i])
      BY <2>2, <2>3 DEF WholeLines
    <3> QED BY <3>1, <3>2, <3>3, SamePointRead
  <2> QED BY <2>1, <2>4, <2>5
<1> QED BY <1>1, <1>2, PTL
=============================================================================
