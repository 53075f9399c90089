--------------------------- MODULE SequenceLemmas ---------------------------
(***************************************************************************)
(* Lemmas about data that the proofs about several components need.        *)
(*                                                                         *)
(* Induction is stated with a set in the place of a predicate: the numbers *)
(* for which something is true.                                            *)
(***************************************************************************)
EXTENDS Integers, SequencesExt, SequenceTheorems, Loops, FiniteSetTheorems, WellFoundedInduction, TLAPS

-----------------------------------------------------------------------------
(* Induction and recursion.                                                *)

Less == {p \in Nat \X Nat : p[1] < p[2]}

LEMMA LessIsWellFounded == IsWellFoundedOn(Less, Nat)
<1>1. IsWellFoundedOn(OpToRel(<, Nat), Nat)
  BY NatLessThanWellFounded
<1>2. OpToRel(<, Nat) = Less
  BY Zenon DEF OpToRel, Less
<1> QED BY <1>1, <1>2

(* A set of numbers has a least element.                                   *)
LEMMA LeastNumber ==
    ASSUME NEW T \in SUBSET Nat, T # {}
    PROVE  \E x \in T : \A y \in T : x <= y
<1>1. PICK x \in T : \A y \in T : <<y, x>> \notin Less
  BY LessIsWellFounded, WFMin
<1>2. ASSUME NEW y \in T
      PROVE  x <= y
  <2>1. x \in Nat /\ y \in Nat
    OBVIOUS
  <2>2. y < x => <<y, x>> \in Less
    BY <2>1 DEF Less
  <2>3. ~(y < x)
    BY <1>1, <2>2
  <2> QED BY <2>1, <2>3
<1> QED BY <1>2

(* A set of numbers up to N that has zero and with each its successor has  *)
(* them all.                                                               *)
LEMMA InductionUpTo ==
    ASSUME NEW N \in Nat, NEW T, 0 \in T,
           \A n \in 1 .. N : n - 1 \in T => n \in T
    PROVE  0 .. N \subseteq T
<1> SUFFICES ASSUME 0 .. N \ T # {}
             PROVE  FALSE
  OBVIOUS
<1>1. PICK n \in 0 .. N \ T : \A m \in 0 .. N \ T : n <= m
  <2>1. 0 .. N \ T \in SUBSET Nat
    OBVIOUS
  <2> QED BY <2>1, LeastNumber
<1>2. n \in 1 .. N
  BY <1>1
<1>3. n - 1 \in T
  BY <1>1, <1>2
<1> QED BY <1>1, <1>2, <1>3

(* Steps of a recursion that goes from 0 to N over values in S, and the    *)
(* functions that it defines.                                              *)
RecursionSteps(S, N) == [S \X (1 .. N) -> S]

Recursions(S, N, start, step) ==
    {g \in [0 .. N -> S] : g[0] = start /\ \A n \in 1 .. N : g[n] = step[<<g[n - 1], n>>]}

(* A function on 0 .. N may be defined from its value at the number before.*)
LEMMA PrimitiveRecursion ==
    ASSUME NEW S, NEW N \in Nat, NEW start \in S, NEW step \in RecursionSteps(S, N)
    PROVE  Recursions(S, N, start, step) # {}
<1> DEFINE T == {k \in 0 .. N : Recursions(S, k, start, step) # {}}
<1> USE DEF Recursions, RecursionSteps
<1>1. 0 \in T
  <2> DEFINE h == [n \in 0 .. 0 |-> start]
  <2>1. h \in [0 .. 0 -> S] /\ \A n \in 0 .. 0 : n = 0 /\ h[n] = start
    OBVIOUS
  <2> HIDE DEF h
  <2>2. h \in Recursions(S, 0, start, step)
    BY <2>1
  <2> QED BY <2>2
<1>2. ASSUME NEW k \in 1 .. N, k - 1 \in T
      PROVE  k \in T
  <2>1. PICK g \in [0 .. k - 1 -> S] : g \in Recursions(S, k - 1, start, step)
    BY <1>2
  <2> DEFINE h == [n \in 0 .. k |-> IF n = k THEN step[<<g[k - 1], k>>] ELSE g[n]]
  <2>2. step[<<g[k - 1], k>>] \in S
    <3>1. g[k - 1] \in S
      OBVIOUS
    <3>2. <<g[k - 1], k>> \in S \X (1 .. N)
      BY <3>1
    <3> QED BY <3>2
  <2>3. h \in [0 .. k -> S]
    BY <2>2
  <2>4. ASSUME NEW n \in 1 .. k
        PROVE  h[n] = step[<<h[n - 1], n>>]
    <3>1. CASE n = k
      BY SMTT(30), <3>1
    <3>2. CASE n # k
      <4>1. n \in 1 .. k - 1 /\ h[n] = g[n] /\ h[n - 1] = g[n - 1]
        BY <3>2
      <4> QED BY <2>1, <4>1
    <3> QED BY <3>1, <3>2
  <2>5. h[0] = start
    BY <2>1
  <2> HIDE DEF h
  <2>6. h \in Recursions(S, k, start, step)
    BY <2>3, <2>4, <2>5
  <2> QED BY <2>6
<1> HIDE DEF T
<1>3. 0 .. N \subseteq T
  BY <1>1, <1>2, InductionUpTo
<1> QED BY <1>3 DEF T

-----------------------------------------------------------------------------
(* Appending to a sequence of anything keeps what is there.                *)
LEMMA AppendAny ==
    ASSUME NEW q, q \in Seq(Range(q)), NEW t
    PROVE  /\ Append(q, t) \in Seq(Range(Append(q, t)))
           /\ DOMAIN Append(q, t) = DOMAIN q \cup {Len(q) + 1}
           /\ Append(q, t)[Len(q) + 1] = t
           /\ \A i \in DOMAIN q : Append(q, t)[i] = q[i] /\ i # Len(q) + 1
<1> DEFINE S == Range(q) \cup {t}
<1>1. q \in Seq(S) /\ t \in S
  OBVIOUS
<1> HIDE DEF S
<1>2. /\ Len(q) \in Nat /\ DOMAIN q = 1 .. Len(q)
      /\ DOMAIN Append(q, t) = 1 .. Len(q) + 1
      /\ Append(q, t) \in Seq(S)
      /\ Append(q, t)[Len(q) + 1] = t
      /\ \A i \in 1 .. Len(q) : Append(q, t)[i] = q[i]
  BY <1>1
<1>3. Append(q, t) \in Seq(Range(Append(q, t)))
  <2> DEFINE r == Append(q, t)
  <2>1. r \in Seq(S) /\ \A i \in DOMAIN r : r[i] \in Range(r)
    BY <1>2 DEF Range
  <2> HIDE DEF r
  <2>2. r \in Seq(Range(r))
    BY <2>1
  <2> QED BY <2>2 DEF r
<1>4. 1 .. Len(q) + 1 = (1 .. Len(q)) \cup {Len(q) + 1}
  BY <1>2
<1> QED BY <1>2, <1>3, <1>4

(* Appending adds one value.                                               *)
LEMMA RangeAppend ==
    ASSUME NEW S, NEW q \in Seq(S), NEW t \in S
    PROVE  Range(Append(q, t)) = Range(q) \cup {t}
<1>1. /\ DOMAIN q = 1 .. Len(q) /\ DOMAIN Append(q, t) = 1 .. Len(q) + 1
      /\ Len(q) \in Nat
      /\ Append(q, t)[Len(q) + 1] = t
      /\ \A i \in 1 .. Len(q) : Append(q, t)[i] = q[i]
  OBVIOUS
<1> QED BY <1>1 DEF Range

-----------------------------------------------------------------------------
(* Loops that collect: g is what has been collected at each step by a loop *)
(* over 1 .. N that appends val[n] for the n in K and skips the others.    *)
Collects(g, N, K, val) ==
    g = [n \in 0 .. N |-> IF n = 0 THEN <<>>
                          ELSE IF n \in K THEN Append(g[n - 1], val[n]) ELSE g[n - 1]]

LEMMA CollectsSteps ==
    ASSUME NEW N \in Nat, NEW K, NEW val, NEW g
    PROVE  Collects(g, N, K, val) <=>
              /\ g = [n \in 0 .. N |-> g[n]]
              /\ g[0] = <<>>
              /\ \A n \in 1 .. N :
                    /\ n \in K => g[n] = Append(g[n - 1], val[n])
                    /\ n \notin K => g[n] = g[n - 1]
<1> DEFINE Value(n) == IF n = 0 THEN <<>>
                       ELSE IF n \in K THEN Append(g[n - 1], val[n]) ELSE g[n - 1]
<1>1. Collects(g, N, K, val) <=> g = [n \in 0 .. N |-> Value(n)]
  BY DEF Collects
<1>2. Value(0) = <<>>
  OBVIOUS
<1>3. \A n \in 1 .. N : Value(n) = IF n \in K THEN Append(g[n - 1], val[n]) ELSE g[n - 1]
  OBVIOUS
<1> HIDE DEF Value
<1>4. g = [n \in 0 .. N |-> Value(n)]
        <=> g = [n \in 0 .. N |-> g[n]] /\ \A n \in 0 .. N : g[n] = Value(n)
  OBVIOUS
<1>5. (\A n \in 0 .. N : g[n] = Value(n))
        <=> g[0] = Value(0) /\ \A n \in 1 .. N : g[n] = Value(n)
  <2>1. \A n \in 0 .. N : n = 0 \/ n \in 1 .. N
    OBVIOUS
  <2>2. 0 \in 0 .. N /\ \A n \in 1 .. N : n \in 0 .. N
    OBVIOUS
  <2> QED BY <2>1, <2>2
<1> QED BY <1>1, <1>2, <1>3, <1>4, <1>5

LEMMA CollectsExists ==
    ASSUME NEW S, NEW N \in Nat, NEW K, NEW val, \A n \in 1 .. N : val[n] \in S
    PROVE  \E g : Collects(g, N, K, val)
<1> DEFINE step == [x \in Seq(S) \X (1 .. N) |->
                      IF x[2] \in K THEN Append(x[1], val[x[2]]) ELSE x[1]]
<1>1. step \in RecursionSteps(Seq(S), N)
  BY DEF RecursionSteps
<1>2. \A x \in Seq(S), n \in 1 .. N :
          step[<<x, n>>] = IF n \in K THEN Append(x, val[n]) ELSE x
  OBVIOUS
<1> HIDE DEF step
<1>3. PICK g : g \in Recursions(Seq(S), N, <<>>, step)
  <2>1. <<>> \in Seq(S)
    OBVIOUS
  <2>2. Recursions(Seq(S), N, <<>>, step) # {}
    BY <1>1, <2>1, PrimitiveRecursion
  <2> QED BY <2>2
<1>4. g \in [0 .. N -> Seq(S)] /\ g[0] = <<>>
  BY <1>3 DEF Recursions
<1>5. ASSUME NEW n \in 1 .. N
      PROVE  g[n] = IF n \in K THEN Append(g[n - 1], val[n]) ELSE g[n - 1]
  <2>1. g[n] = step[<<g[n - 1], n>>]
    BY <1>3 DEF Recursions
  <2>2. g[n - 1] \in Seq(S)
    <3>1. n - 1 \in 0 .. N
      OBVIOUS
    <3> QED BY <1>4, <3>1
  <2> QED BY <1>2, <2>1, <2>2
<1>6. g = [n \in 0 .. N |-> g[n]]
  BY <1>4
<1>7. Collects(g, N, K, val)
  BY <1>4, <1>5, <1>6, CollectsSteps
<1> QED BY <1>7

(* What such a loop ends with: each value of K in its place.               *)
Gathered(N, K, val) == {val[i] : i \in K \cap (1 .. N)}

InPlace(c, N, K, val) ==
    \A i \in K \cap (1 .. N) : c[Cardinality(K \cap (1 .. i))] = val[i]

LEMMA Collected ==
    ASSUME NEW N \in Nat, NEW K, NEW val
    PROVE  /\ Collect(N, K, val) \in Seq(Gathered(N, 1 .. N, val))
           /\ Range(Collect(N, K, val)) = Gathered(N, K, val)
           /\ Len(Collect(N, K, val)) = Cardinality(K \cap (1 .. N))
           /\ InPlace(Collect(N, K, val), N, K, val)
<1> DEFINE S == Gathered(N, 1 .. N, val)
<1>s. \A n \in 1 .. N : val[n] \in S
  BY DEF Gathered
<1> HIDE DEF S
<1> DEFINE g == CHOOSE h : Collects(h, N, K, val)
<1>a. Collect(N, K, val) = g[N]
  BY DEF Collect, Collects
<1>b. Collects(g, N, K, val)
  BY <1>s, CollectsExists
<1> HIDE DEF g
<1> DEFINE Good(n) == /\ g[n] \in Seq(S)
                      /\ Range(g[n]) = {val[i] : i \in K \cap (1 .. n)}
                      /\ Len(g[n]) = Cardinality(K \cap (1 .. n))
                      /\ \A i \in K \cap (1 .. n) :
                            g[n][Cardinality(K \cap (1 .. i))] = val[i]
           T == {n \in 0 .. N : Good(n)}
<1> HIDE DEF Good
<1>0. \A n \in 0 .. N : n \in T <=> Good(n)
  OBVIOUS
<1> HIDE DEF T
<1>1. /\ g[0] = <<>>
      /\ \A n \in 1 .. N :
            /\ n \in K => g[n] = Append(g[n - 1], val[n])
            /\ n \notin K => g[n] = g[n - 1]
  BY <1>b, CollectsSteps
<1>2. 0 \in T
  <2>1. K \cap (1 .. 0) = {} /\ Cardinality(K \cap (1 .. 0)) = 0
    BY FS_EmptySet
  <2>2. g[0] \in Seq(S) /\ Len(g[0]) = 0 /\ Range(g[0]) = {}
    BY <1>1 DEF Range
  <2>3. Good(0)
    BY <2>1, <2>2 DEF Good
  <2> QED BY <1>0, <2>3
<1>3. ASSUME NEW n \in 1 .. N, n - 1 \in T
      PROVE  n \in T
  <2> DEFINE before == K \cap (1 .. n - 1)
  <2>1. Good(n - 1)
    BY <1>0, <1>3
  <2>2. CASE n \notin K
    <3>1. K \cap (1 .. n) = before /\ g[n] = g[n - 1]
      BY <1>1, <2>2
    <3>2. Good(n)
      BY <2>1, <3>1 DEF Good
    <3> QED BY <1>0, <3>2
  <2>3. CASE n \in K
    <3>1. K \cap (1 .. n) = before \cup {n} /\ n \notin before
      BY <2>3
    <3>2. g[n] = Append(g[n - 1], val[n])
      BY <1>1, <2>3
    <3>3. g[n - 1] \in Seq(S) /\ val[n] \in S
      BY <1>s, <2>1 DEF Good
    <3>4. IsFiniteSet(before)
      <4>1. IsFiniteSet(1 .. n - 1)
        BY FS_Interval
      <4> QED BY <4>1, FS_Subset
    <3>5. Cardinality(K \cap (1 .. n)) = Cardinality(before) + 1
      BY <3>1, <3>4, FS_AddElement
    <3>6. Len(g[n - 1]) = Cardinality(before) /\ Len(g[n - 1]) \in Nat
      BY <2>1 DEF Good
    <3>7. g[n] \in Seq(S) /\ Len(g[n]) = Cardinality(K \cap (1 .. n))
      BY <3>2, <3>3, <3>5, <3>6
    <3>8. Range(g[n]) = {val[i] : i \in K \cap (1 .. n)}
      <4>1. Range(g[n]) = Range(g[n - 1]) \cup {val[n]}
        BY <3>2, <3>3, RangeAppend
      <4> QED BY <2>1, <3>1, <4>1 DEF Good
    <3>9. ASSUME NEW i \in K \cap (1 .. n)
          PROVE  g[n][Cardinality(K \cap (1 .. i))] = val[i]
      <4>1. CASE i = n
        BY <3>2, <3>3, <3>5, <3>6, <4>1
      <4>2. CASE i # n
        <5>1. i \in before
          BY <4>2
        <5>2. g[n - 1][Cardinality(K \cap (1 .. i))] = val[i]
          BY <2>1, <5>1 DEF Good
        <5>3. Cardinality(K \cap (1 .. i)) \in 1 .. Len(g[n - 1])
          <6>1. K \cap (1 .. i) \subseteq before /\ i \in K \cap (1 .. i)
            BY <5>1
          <6>2. /\ IsFiniteSet(K \cap (1 .. i))
                /\ Cardinality(K \cap (1 .. i)) <= Cardinality(before)
            BY <3>4, <6>1, FS_Subset
          <6>3. Cardinality(K \cap (1 .. i)) \in Nat /\ Cardinality(K \cap (1 .. i)) # 0
            BY <6>1, <6>2, FS_CardinalityType, FS_EmptySet
          <6> QED BY <3>6, <6>2, <6>3
        <5> QED BY <3>2, <3>3, <5>2, <5>3
      <4> QED BY <4>1, <4>2
    <3>10. Good(n)
      BY <3>7, <3>8, <3>9 DEF Good
    <3> QED BY <1>0, <3>10
  <2> QED BY <2>2, <2>3
<1>4. 0 .. N \subseteq T
  BY <1>2, <1>3, InductionUpTo
<1>5. Good(N)
  BY <1>0, <1>4
<1> QED BY <1>a, <1>5 DEF Good, Gathered, InPlace, S

LEMMA CollectedType ==
    ASSUME NEW S, NEW N \in Nat, NEW K, NEW val, \A n \in 1 .. N : val[n] \in S
    PROVE  Collect(N, K, val) \in Seq(S)
<1> DEFINE c == Collect(N, K, val)
<1>1. c \in Seq(Gathered(N, 1 .. N, val)) /\ Range(c) = Gathered(N, K, val)
  BY Collected
<1> HIDE DEF c
<1>2. Len(c) \in Nat /\ DOMAIN c = 1 .. Len(c) /\ c = [i \in 1 .. Len(c) |-> c[i]]
  BY <1>1
<1>3. ASSUME NEW i \in 1 .. Len(c)
      PROVE  c[i] \in S
  <2>1. c[i] \in Gathered(N, K, val)
    BY <1>1, <1>2 DEF Range
  <2> QED BY <2>1 DEF Gathered
<1>4. c \in Seq(S)
  BY <1>2, <1>3
<1> QED BY <1>4 DEF c

-----------------------------------------------------------------------------
(* Queues without repetitions: the handlers of an io_context, the idle     *)
(* connections to an endpoint.                                             *)

(* Appending what is not queued adds it and keeps the others.              *)
LEMMA QueueAppend ==
    ASSUME NEW S, NEW q \in Seq(S), NEW t \in S, IsInjective(q), t \notin Range(q)
    PROVE  /\ Append(q, t) \in Seq(S)
           /\ IsInjective(Append(q, t))
           /\ Range(Append(q, t)) = Range(q) \cup {t}
<1>1. /\ Append(q, t) \in Seq(S)
      /\ DOMAIN q = 1 .. Len(q) /\ DOMAIN Append(q, t) = 1 .. Len(q) + 1
      /\ Len(q) \in Nat
      /\ Append(q, t)[Len(q) + 1] = t
      /\ \A i \in 1 .. Len(q) : Append(q, t)[i] = q[i]
  OBVIOUS
<1>2. IsInjective(Append(q, t))
  BY <1>1 DEF IsInjective, Range
<1>3. Range(Append(q, t)) = Range(q) \cup {t}
  BY <1>1 DEF Range
<1> QED BY <1>1, <1>2, <1>3

(* Taking the first removes that one only.                                 *)
LEMMA QueueTail ==
    ASSUME NEW S, NEW q \in Seq(S), q # <<>>, IsInjective(q)
    PROVE  /\ Head(q) \in S /\ Head(q) \in Range(q)
           /\ Tail(q) \in Seq(S)
           /\ IsInjective(Tail(q))
           /\ Range(Tail(q)) = Range(q) \ {Head(q)}
<1>1. /\ Tail(q) \in Seq(S) /\ Len(q) \in Nat \ {0}
      /\ DOMAIN q = 1 .. Len(q) /\ DOMAIN Tail(q) = 1 .. Len(q) - 1
      /\ Head(q) = q[1] /\ Head(q) \in S
      /\ \A i \in 1 .. Len(q) - 1 : Tail(q)[i] = q[i + 1]
  OBVIOUS
<1>2. IsInjective(Tail(q))
  <2> SUFFICES ASSUME NEW i \in 1 .. Len(q) - 1, NEW j \in 1 .. Len(q) - 1,
                      Tail(q)[i] = Tail(q)[j]
               PROVE  i = j
    BY <1>1 DEF IsInjective
  <2>1. q[i + 1] = q[j + 1] /\ i + 1 \in DOMAIN q /\ j + 1 \in DOMAIN q
    BY <1>1
  <2>2. i + 1 = j + 1
    BY <2>1 DEF IsInjective
  <2> QED BY <2>2, <1>1
<1>3. Range(Tail(q)) \subseteq Range(q) \ {Head(q)}
  <2> SUFFICES ASSUME NEW i \in 1 .. Len(q) - 1
               PROVE  Tail(q)[i] \in Range(q) /\ Tail(q)[i] # Head(q)
    BY <1>1 DEF Range
  <2>1. Tail(q)[i] = q[i + 1] /\ i + 1 \in DOMAIN q /\ 1 \in DOMAIN q /\ i + 1 # 1
    BY <1>1
  <2> QED BY <2>1, <1>1 DEF Range, IsInjective
<1>4. Range(q) \ {Head(q)} \subseteq Range(Tail(q))
  <2> SUFFICES ASSUME NEW i \in 1 .. Len(q), q[i] # Head(q)
               PROVE  q[i] \in Range(Tail(q))
    BY <1>1 DEF Range
  <2>1. i - 1 \in 1 .. Len(q) - 1
    BY <1>1
  <2>2. Tail(q)[i - 1] = q[i]
    BY <2>1, <1>1
  <2> QED BY <2>1, <2>2, <1>1 DEF Range
<1>5. Head(q) \in Range(q)
  BY <1>1 DEF Range
<1> QED BY <1>1, <1>2, <1>3, <1>4, <1>5

(* What is left of a queue was in it.                                      *)
LEMMA TailRange ==
    ASSUME NEW S, NEW q \in Seq(S), q # <<>>
    PROVE  /\ Head(q) \in S /\ Head(q) \in Range(q)
           /\ Tail(q) \in Seq(S) /\ Range(Tail(q)) \subseteq Range(q)
<1>1. /\ Tail(q) \in Seq(S) /\ Len(q) \in Nat \ {0}
      /\ DOMAIN q = 1 .. Len(q) /\ DOMAIN Tail(q) = 1 .. Len(q) - 1
      /\ Head(q) = q[1] /\ Head(q) \in S
      /\ \A i \in 1 .. Len(q) - 1 : Tail(q)[i] = q[i + 1]
  OBVIOUS
<1>2. ASSUME NEW i \in 1 .. Len(q) - 1
      PROVE  Tail(q)[i] \in Range(q)
  <2>1. i + 1 \in 1 .. Len(q)
    BY <1>1
  <2> QED BY <2>1, <1>1 DEF Range
<1> QED BY <1>1, <1>2 DEF Range

-----------------------------------------------------------------------------
(* FlattenSeq: a text put together of pieces.                              *)

(* f[i] is what the first i of the sequences make when put together.       *)
Flattens(f, seqs) ==
    f = [i \in 1 .. Len(seqs) |-> IF i = 1 THEN seqs[i] ELSE f[i - 1] \o seqs[i]]

(* FlattenSeq puts the sequences together one after the other.             *)
LEMMA FlattensExists ==
    ASSUME NEW S, NEW seqs \in Seq(Seq(S)), seqs # <<>>
    PROVE  \E f \in [1 .. Len(seqs) -> Seq(S)] :
              /\ FlattenSeq(seqs) = f[Len(seqs)]
              /\ f[1] = seqs[1]
              /\ \A i \in 2 .. Len(seqs) : f[i] = f[i - 1] \o seqs[i]
<1>1. PICK n \in Nat \ {0} : Len(seqs) = n /\ seqs \in [1 .. n -> Seq(S)]
  OBVIOUS
<1> DEFINE step == [x \in Seq(S) \X (1 .. n - 1) |-> x[1] \o seqs[x[2] + 1]]
<1>2. step \in RecursionSteps(Seq(S), n - 1)
  <2>1. ASSUME NEW x \in Seq(S) \X (1 .. n - 1)
        PROVE  x[1] \o seqs[x[2] + 1] \in Seq(S)
    <3>1. x[1] \in Seq(S) /\ x[2] + 1 \in 1 .. n
      OBVIOUS
    <3>2. seqs[x[2] + 1] \in Seq(S)
      BY <1>1, <3>1
    <3> QED BY <3>1, <3>2
  <2> QED BY <2>1 DEF RecursionSteps
<1>3. \A t \in Seq(S), i \in 1 .. n - 1 : step[<<t, i>>] = t \o seqs[i + 1]
  OBVIOUS
<1> HIDE DEF step
<1>4. PICK g : g \in Recursions(Seq(S), n - 1, seqs[1], step)
  <2>1. seqs[1] \in Seq(S) /\ n - 1 \in Nat
    BY <1>1
  <2> QED BY <1>2, <2>1, PrimitiveRecursion
<1>5. /\ g \in [0 .. n - 1 -> Seq(S)] /\ g[0] = seqs[1]
      /\ \A i \in 1 .. n - 1 : g[i] = g[i - 1] \o seqs[i + 1]
  <2>1. /\ g \in [0 .. n - 1 -> Seq(S)] /\ g[0] = seqs[1]
        /\ \A i \in 1 .. n - 1 : g[i] = step[<<g[i - 1], i>>]
    BY <1>4 DEF Recursions
  <2>2. ASSUME NEW i \in 1 .. n - 1
        PROVE  g[i - 1] \in Seq(S)
    <3>1. i - 1 \in 0 .. n - 1
      OBVIOUS
    <3> QED BY <2>1, <3>1
  <2> QED BY <1>3, <2>1, <2>2
<1> DEFINE h == [i \in 1 .. n |-> g[i - 1]]
<1>6. /\ h \in [1 .. n -> Seq(S)] /\ h[1] = seqs[1]
      /\ \A i \in 2 .. n : h[i] = h[i - 1] \o seqs[i]
  <2>1. h \in [1 .. n -> Seq(S)] /\ h[1] = seqs[1]
    BY <1>5
  <2>2. ASSUME NEW i \in 2 .. n
        PROVE  h[i] = h[i - 1] \o seqs[i]
    <3>1. h[i] = g[i - 1] /\ h[i - 1] = g[(i - 1) - 1] /\ i - 1 \in 1 .. n - 1 /\ (i - 1) + 1 = i
      OBVIOUS
    <3> QED BY <1>5, <3>1
  <2> QED BY <2>1, <2>2
<1> HIDE DEF h
<1>7. Flattens(h, seqs)
  <2>1. \A i \in 1 .. n : h[i] = IF i = 1 THEN seqs[i] ELSE h[i - 1] \o seqs[i]
    <3>1. \A i \in 1 .. n : i = 1 \/ i \in 2 .. n
      OBVIOUS
    <3> QED BY <1>6, <3>1
  <2>2. h = [i \in 1 .. n |-> h[i]]
    BY <1>6
  <2> DEFINE v(i) == IF i = 1 THEN seqs[i] ELSE h[i - 1] \o seqs[i]
  <2>3. \A i \in 1 .. n : h[i] = v(i)
    BY <2>1
  <2>4. Flattens(h, seqs) <=> h = [i \in 1 .. n |-> v(i)]
    BY <1>1 DEF Flattens
  <2> HIDE DEF v
  <2> QED BY <2>2, <2>3, <2>4
<1> DEFINE f == CHOOSE f : Flattens(f, seqs)
<1>8. Flattens(f, seqs)
  BY <1>7
<1>9. FlattenSeq(seqs) = f[n]
  <2>1. Len(seqs) # 0
    BY <1>1
  <2> QED BY <1>1, <2>1 DEF FlattenSeq, Flattens
<1> HIDE DEF f
<1>10. /\ f = [i \in 1 .. n |-> f[i]]
       /\ \A i \in 1 .. n : f[i] = IF i = 1 THEN seqs[i] ELSE f[i - 1] \o seqs[i]
  <2> DEFINE v(i) == IF i = 1 THEN seqs[i] ELSE f[i - 1] \o seqs[i]
  <2>1. f = [i \in 1 .. n |-> v(i)]
    BY <1>1, <1>8 DEF Flattens
  <2> HIDE DEF v
  <2>2. f = [i \in 1 .. n |-> f[i]] /\ \A i \in 1 .. n : f[i] = v(i)
    BY <2>1
  <2> QED BY <2>2 DEF v
<1> DEFINE T == {i \in 0 .. n : i = 0 \/ f[i] \in Seq(S)}
<1>11. 0 \in T
  OBVIOUS
<1>12. ASSUME NEW i \in 1 .. n, i - 1 \in T
       PROVE  i \in T
  <2>1. seqs[i] \in Seq(S)
    BY <1>1
  <2>2. i = 1 \/ f[i - 1] \in Seq(S)
    BY <1>12
  <2>3. f[i] = IF i = 1 THEN seqs[i] ELSE f[i - 1] \o seqs[i]
    BY <1>10
  <2> HIDE DEF f
  <2>4. f[i] \in Seq(S)
    BY <2>1, <2>2, <2>3
  <2> QED BY <2>4
<1>13. f \in [1 .. n -> Seq(S)]
  <2> HIDE DEF T
  <2>1. 0 .. n \subseteq T
    BY <1>11, <1>12, InductionUpTo
  <2>2. \A i \in 1 .. n : f[i] \in Seq(S)
    BY <2>1 DEF T
  <2> QED BY <1>10, <2>2
<1>14. f[1] = seqs[1] /\ \A i \in 2 .. n : f[i] = f[i - 1] \o seqs[i]
  <2>1. 1 \in 1 .. n /\ \A i \in 2 .. n : i \in 1 .. n /\ i # 1
    OBVIOUS
  <2> QED BY <1>10, <2>1
<1> QED BY <1>1, <1>9, <1>13, <1>14

(* A sequence that has the elements of two others is their concatenation.  *)
LEMMA IsConcat ==
    ASSUME NEW S, NEW p \in Seq(S), NEW q \in Seq(S), NEW r \in Seq(S),
           Len(r) = Len(p) + Len(q),
           \A i \in 1 .. Len(p) : r[i] = p[i],
           \A i \in 1 .. Len(q) : r[Len(p) + i] = q[i]
    PROVE  r = p \o q
<1>1. /\ p \o q \in Seq(S) /\ Len(p \o q) = Len(r)
      /\ Len(p) \in Nat /\ Len(q) \in Nat
      /\ \A i \in 1 .. Len(p) : (p \o q)[i] = p[i]
      /\ \A i \in 1 .. Len(q) : (p \o q)[Len(p) + i] = q[i]
  OBVIOUS
<1>2. ASSUME NEW i \in 1 .. Len(r)
      PROVE  r[i] = (p \o q)[i]
  <2>1. CASE i <= Len(p)
    BY <1>1, <2>1
  <2>2. CASE i > Len(p)
    <3>1. PICK j \in 1 .. Len(q) : i = Len(p) + j
      <4>1. i - Len(p) \in 1 .. Len(q) /\ i = Len(p) + (i - Len(p))
        BY <1>1, <2>2
      <4> QED BY <4>1
    <3> QED BY <1>1, <3>1
  <2> QED BY <1>1, <2>1, <2>2
<1> QED BY <1>1, <1>2, SeqEqual

(* Nothing put together is nothing.                                        *)
LEMMA FlattenEmpty == FlattenSeq(<<>>) = <<>>
BY DEF FlattenSeq

(* What is put together of sequences over S is a sequence over S.          *)
LEMMA FlattenType ==
    ASSUME NEW S, NEW seqs \in Seq(Seq(S))
    PROVE  FlattenSeq(seqs) \in Seq(S)
<1>1. CASE seqs = <<>>
  <2>1. FlattenSeq(seqs) = <<>>
    BY Zenon, <1>1, FlattenEmpty
  <2> QED BY <2>1
<1>2. CASE seqs # <<>>
  <2>1. PICK f \in [1 .. Len(seqs) -> Seq(S)] : FlattenSeq(seqs) = f[Len(seqs)]
    BY <1>2, FlattensExists
  <2> QED BY SMTT(30), <1>2, <2>1
<1> QED BY <1>1, <1>2

(* A single piece comes out as it is.                                      *)
LEMMA FlattenOne ==
    ASSUME NEW S, NEW s \in Seq(S)
    PROVE  FlattenSeq(<<s>>) = s
<1>1. <<s>> \in Seq(Seq(S)) /\ <<s>> # <<>> /\ Len(<<s>>) = 1
  OBVIOUS
<1>2. PICK f \in [1 .. 1 -> Seq(S)] : FlattenSeq(<<s>>) = f[1] /\ f[1] = <<s>>[1]
  BY <1>1, FlattensExists
<1> QED BY <1>2

(* Pieces come out in the order in which they stand.                       *)
LEMMA FlattenConcat ==
    ASSUME NEW S, NEW p \in Seq(Seq(S)), NEW q \in Seq(Seq(S))
    PROVE  FlattenSeq(p \o q) = FlattenSeq(p) \o FlattenSeq(q)
<1>1. CASE p = <<>>
  <2>1. p \o q = q /\ FlattenSeq(q) \in Seq(S)
    BY <1>1, FlattenType, ConcatEmptySeq
  <2> QED BY <1>1, <2>1, FlattenEmpty, ConcatEmptySeq
<1>2. CASE q = <<>>
  <2>1. p \o q = p /\ FlattenSeq(p) \in Seq(S)
    BY <1>2, FlattenType, ConcatEmptySeq
  <2> QED BY <1>2, <2>1, FlattenEmpty, ConcatEmptySeq
<1>3. CASE p # <<>> /\ q # <<>>
  <2> DEFINE m == Len(p)
             n == Len(q)
             r == p \o q
             k == Len(r)
  <2>1. /\ m \in Nat \ {0} /\ n \in Nat \ {0}
        /\ r \in Seq(Seq(S)) /\ r # <<>> /\ k = m + n
        /\ \A i \in 1 .. m : r[i] = p[i]
        /\ \A i \in 1 .. n : r[m + i] = q[i] /\ q[i] \in Seq(S)
    BY <1>3
  <2> HIDE DEF r
  <2>2. PICK f \in [1 .. m -> Seq(S)] :
            /\ FlattenSeq(p) = f[m] /\ f[1] = p[1]
            /\ \A i \in 2 .. m : f[i] = f[i - 1] \o p[i]
    BY Zenon, <1>3, FlattensExists
  <2>3. PICK g \in [1 .. n -> Seq(S)] :
            /\ FlattenSeq(q) = g[n] /\ g[1] = q[1]
            /\ \A i \in 2 .. n : g[i] = g[i - 1] \o q[i]
    BY Zenon, <1>3, FlattensExists
  <2>4. PICK h \in [1 .. k -> Seq(S)] :
            /\ FlattenSeq(r) = h[k] /\ h[1] = r[1]
            /\ \A i \in 2 .. k : h[i] = h[i - 1] \o r[i]
    <3>1. r \in Seq(Seq(S)) /\ r # <<>>
      BY <2>1
    <3> QED BY Zenon, <3>1, FlattensExists
  <2> HIDE DEF m, n, k
  <2> DEFINE T == {i \in 0 .. m : i = 0 \/ h[i] = f[i]}
             U == {i \in 0 .. n : i = 0 \/ h[m + i] = f[m] \o g[i]}
  <2>5. 0 .. m \subseteq T
    <3>1. 0 \in T
      BY <2>1
    <3>2. ASSUME NEW i \in 1 .. m, i - 1 \in T
          PROVE  i \in T
      <4>1. CASE i = 1
        <5>1. r[1] = p[1]
          BY <2>1
        <5> QED BY <2>2, <2>4, <4>1, <5>1
      <4>2. CASE i # 1
        <5>1. i \in 2 .. m /\ i \in 2 .. k /\ i \in 1 .. m /\ h[i - 1] = f[i - 1]
          BY <2>1, <3>2, <4>2
        <5>2. h[i] = h[i - 1] \o r[i] /\ f[i] = f[i - 1] \o p[i] /\ r[i] = p[i]
          BY <2>1, <2>2, <2>4, <5>1
        <5>3. h[i] = f[i]
          BY <5>1, <5>2
        <5> QED BY <5>3
      <4> QED BY <4>1, <4>2
    <3> HIDE DEF T
    <3> QED BY <2>1, <3>1, <3>2, InductionUpTo
  <2>6. h[m] = f[m]
    BY <2>1, <2>5
  <2>7. 0 .. n \subseteq U
    <3>1. 0 \in U
      BY <2>1
    <3>2. ASSUME NEW i \in 1 .. n, i - 1 \in U
          PROVE  i \in U
      <4>0. h[m + i] = h[m + i - 1] \o q[i]
        <5> DEFINE j == m + i
        <5>1. j \in 2 .. k /\ r[j] = q[i]
          BY <2>1
        <5> HIDE DEF j
        <5>2. h[j] = h[j - 1] \o q[i]
          BY <2>4, <5>1
        <5>3. h[m + i] = h[(m + i) - 1] \o q[i]
          BY Zenon, <5>2 DEF j
        <5>4. (m + i) - 1 = m + i - 1
          BY <2>1
        <5> QED BY Zenon, <5>3, <5>4
      <4>1. CASE i = 1
        <5>1. m + i - 1 = m
          BY <2>1, <4>1
        <5>2. h[m + i] = f[m] \o g[i]
          BY <2>3, <2>6, <4>0, <4>1, <5>1
        <5> QED BY <5>2
      <4>2. CASE i # 1
        <5>1. i \in 2 .. n /\ i - 1 \in 1 .. n /\ h[m + (i - 1)] = f[m] \o g[i - 1]
          <6>1. i \in 2 .. n /\ i - 1 \in 1 .. n /\ i - 1 # 0
            BY <2>1, <4>2
          <6> QED BY <3>2, <6>1
        <5>2. m + (i - 1) = m + i - 1
          BY <2>1
        <5>3. h[m + i] = (f[m] \o g[i - 1]) \o q[i] /\ g[i] = g[i - 1] \o q[i]
          BY <2>3, <4>0, <5>1, <5>2
        <5>4. f[m] \in Seq(S) /\ g[i - 1] \in Seq(S) /\ q[i] \in Seq(S)
          <6>1. m \in 1 .. m
            BY <2>1
          <6> QED BY <2>1, <2>2, <2>3, <5>1, <6>1
        <5> DEFINE a == f[m]
                   b == g[i - 1]
                   c == q[i]
        <5> HIDE DEF a, b, c
        <5>5. (a \o b) \o c = a \o (b \o c)
          <6>1. a \in Seq(S) /\ b \in Seq(S) /\ c \in Seq(S)
            BY <5>4 DEF a, b, c
          <6> QED BY <6>1
        <5>6. h[m + i] = f[m] \o g[i]
          BY <5>3, <5>5 DEF a, b, c
        <5> QED BY <5>6
      <4> QED BY <4>1, <4>2
    <3> HIDE DEF U
    <3> QED BY <2>1, <3>1, <3>2, InductionUpTo
  <2>8. h[m + n] = f[m] \o g[n]
    <3>1. n \in 0 .. n /\ n # 0
      BY <2>1
    <3> QED BY <2>7, <3>1
  <2> QED BY <2>1, <2>2, <2>3, <2>4, <2>8 DEF r
<1> QED BY <1>1, <1>2, <1>3

(* What is left from the j-th piece on.                                    *)
From(pieces, j) == FlattenSeq(SubSeq(pieces, j, Len(pieces)))

(* What is left is all at the start, nothing at the end, and in between    *)
(* the next piece followed by what is left after it.                       *)
LEMMA FromProperties ==
    ASSUME NEW S, NEW pieces \in Seq(Seq(S))
    PROVE  /\ From(pieces, 1) = FlattenSeq(pieces)
           /\ From(pieces, Len(pieces) + 1) = <<>>
           /\ \A j \in 1 .. Len(pieces) :
                  /\ pieces[j] \in Seq(S)
                  /\ From(pieces, j + 1) \in Seq(S)
                  /\ From(pieces, j) = pieces[j] \o From(pieces, j + 1)
<1>1. PICK n \in Nat : Len(pieces) = n
  OBVIOUS
<1>2. From(pieces, 1) = FlattenSeq(pieces)
  <2>1. SubSeq(pieces, 1, n) = pieces
    BY <1>1, SubSeqFull
  <2> QED BY <1>1, <2>1 DEF From
<1>3. From(pieces, n + 1) = <<>>
  <2>1. SubSeq(pieces, n + 1, n) = <<>>
    BY <1>1, SubSeqEmpty
  <2> QED BY <1>1, <2>1, FlattenEmpty DEF From
<1>4. ASSUME NEW j \in 1 .. n
      PROVE  /\ pieces[j] \in Seq(S)
             /\ From(pieces, j + 1) \in Seq(S)
             /\ From(pieces, j) = pieces[j] \o From(pieces, j + 1)
  <2> DEFINE rest == SubSeq(pieces, j + 1, n)
  <2>1. pieces[j] \in Seq(S)
    BY <1>1
  <2>2. rest \in Seq(Seq(S))
    <3>1. j + 1 \in Int /\ n \in Int /\ \A i \in j + 1 .. n : pieces[i] \in Seq(S)
      BY <1>1
    <3> QED BY <3>1, SubSeqProperties
  <2>3. SubSeq(pieces, j, n) = <<pieces[j]>> \o rest
    BY <1>1, SubSeqRecursiveFirst
  <2> HIDE DEF rest
  <2>4. FlattenSeq(<<pieces[j]>> \o rest) = FlattenSeq(<<pieces[j]>>) \o FlattenSeq(rest)
    <3>1. <<pieces[j]>> \in Seq(Seq(S))
      BY <2>1
    <3> QED BY <2>2, <3>1, FlattenConcat
  <2>5. FlattenSeq(<<pieces[j]>>) = pieces[j] /\ FlattenSeq(rest) \in Seq(S)
    BY <2>1, <2>2, FlattenOne, FlattenType
  <2>6. From(pieces, j + 1) = FlattenSeq(rest) /\ From(pieces, j) = FlattenSeq(<<pieces[j]>> \o rest)
    BY <1>1, <2>3 DEF From, rest
  <2> QED BY <2>1, <2>4, <2>5, <2>6
<1> QED BY <1>1, <1>2, <1>3, <1>4
=============================================================================
