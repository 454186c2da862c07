----------------------------- MODULE GraphProofs -----------------------------
(***************************************************************************)
(* Proofs about AdjacencyGraph, for graphs of any size and any sequence of *)
(* add_edge and remove_edge.                                               *)
(*                                                                         *)
(* Within and FlattenSeq are defined by recursion.  Induction is over sets *)
(* of natural numbers, and of sequences: a set with the empty sequence in  *)
(* it and, with a sequence, all that are one element longer, has them all. *)
(***************************************************************************)
EXTENDS AdjacencyGraph, SequenceTheorems, NaturalsInduction, WellFoundedInduction, TLAPS

-----------------------------------------------------------------------------
(* Induction, and functions defined by recursion *)

LEMMA Induction ==
  ASSUME NEW P, 0 \in P, \A k \in Nat : k \in P => k + 1 \in P
  PROVE  Nat \subseteq P
<1> DEFINE T == Nat \ P
           R == OpToRel(<, Nat)
<1>1. IsWellFoundedOn(R, Nat)
  BY NatLessThanWellFounded, Zenon
<1>2. R = {ss \in Nat \X Nat : ss[1] < ss[2]}
  BY DEF OpToRel
<1>3. \A x, y \in Nat : <<y, x>> \in R <=> y < x
  BY <1>2
<1> HIDE DEF R
<1>4. SUFFICES ASSUME T # {} PROVE FALSE
  OBVIOUS
<1>5. T \subseteq Nat
  OBVIOUS
<1> HIDE DEF T
<1>6. PICK x \in T : \A y \in T : ~(<<y, x>> \in R)
  BY <1>1, <1>4, <1>5, WFMin, Zenon
<1>7. x \in Nat \ {0} /\ x - 1 \in Nat
  BY <1>5, <1>6 DEF T
<1>8. x - 1 \in P
  <2>1. x - 1 \notin T
    <3>1. x \in Nat /\ x - 1 < x
      BY <1>7
    <3>2. <<x - 1, x>> \in R
      BY <1>3, <1>7, <3>1, Zenon
    <3> QED BY <1>6, <3>2
  <2> QED BY <1>7, <2>1 DEF T
<1> QED BY <1>7, <1>8 DEF T

(* f begins with a and goes on by the steps, m of them. *)
Unfolds(f, m, D, a, step) ==
  f \in [0 .. m -> D] /\ f[0] = a /\ \A k \in 1 .. m : f[k] = step[k][f[k - 1]]

LEMMA Recursion ==
  ASSUME NEW m \in Nat, NEW D, NEW a \in D, NEW step \in [1 .. m -> [D -> D]]
  PROVE  \E f : Unfolds(f, m, D, a, step)
<1> DEFINE Is(f, j) == f[0] = a /\ \A k \in 1 .. j : f[k] = step[k][f[k - 1]]
           P == {j \in Nat : j <= m => \E f \in [0 .. m -> D] : Is(f, j)}
<1>1. 0 \in P
  <2>1. [k \in 0 .. m |-> a] \in [0 .. m -> D] /\ Is([k \in 0 .. m |-> a], 0)
    OBVIOUS
  <2> QED BY <2>1
<1>2. ASSUME NEW j \in Nat, j \in P PROVE j + 1 \in P
  <2>1. SUFFICES ASSUME j + 1 <= m PROVE \E f \in [0 .. m -> D] : Is(f, j + 1)
    OBVIOUS
  <2>2. PICK f \in [0 .. m -> D] : Is(f, j)
    BY <1>2, <2>1
  <2> DEFINE x == step[j + 1][f[j]]
             h == [f EXCEPT ![j + 1] = x]
  <2>3. x \in D
    BY <2>1, <2>2
  <2>4. h \in [0 .. m -> D] /\ h[j + 1] = x /\ \A k \in 0 .. j : h[k] = f[k]
    BY <2>1, <2>2, <2>3
  <2> HIDE DEF h
  <2>5. h[0] = a
    BY <2>2, <2>4
  <2>6. ASSUME NEW k \in 1 .. j + 1 PROVE h[k] = step[k][h[k - 1]]
    <3>1. CASE k = j + 1
      BY <2>4, <3>1
    <3>2. CASE k # j + 1
      <4>1. k \in 1 .. j /\ k \in 0 .. j /\ k - 1 \in 0 .. j
        BY <3>2
      <4> QED BY <2>2, <2>4, <4>1
    <3> QED BY <3>1, <3>2
  <2> QED BY <2>4, <2>5, <2>6
<1>3. Nat \subseteq P
  <2> HIDE DEF P
  <2> QED BY <1>1, <1>2, Induction
<1>4. m \in P
  BY <1>3
<1> QED BY <1>4 DEF Unfolds

(* What holds of the empty sequence and is passed on by Append holds of all. *)
LEMMA Appends ==
  ASSUME NEW S, NEW P, <<>> \in P, \A s \in Seq(S) : \A x \in S : s \in P => Append(s, x) \in P
  PROVE  Seq(S) \subseteq P
<1> DEFINE Q == {k \in Nat : \A s \in Seq(S) : Len(s) = k => s \in P}
<1>1. 0 \in Q
  BY EmptySeq
<1>2. ASSUME NEW k \in Nat, k \in Q PROVE k + 1 \in Q
  <2> SUFFICES ASSUME NEW s \in Seq(S), Len(s) = k + 1 PROVE s \in P
    BY <1>2
  <2>1. s # <<>>
    BY EmptySeq
  <2>2. PICK t \in Seq(S), x \in S : s = Append(t, x)
    BY <2>1, SequenceEmptyOrAppend
  <2>3. Len(t) = k
    BY <2>2, AppendProperties, LenProperties
  <2> QED BY <1>2, <2>2, <2>3
<1>3. Nat \subseteq Q
  <2> HIDE DEF Q
  <2> QED BY <1>1, <1>2, Induction
<1> QED BY <1>3, LenProperties

LEMMA AppendOfConcat ==
  ASSUME NEW D, NEW s \in Seq(D), NEW t \in Seq(D), NEW x \in D
  PROVE  s \o Append(t, x) = Append(s \o t, x)
<1>1. Append(t, x) = t \o <<x>> /\ <<x>> \in Seq(D) /\ s \o t \in Seq(D)
  BY AppendIsConcat, ConcatProperties
<1>2. s \o (t \o <<x>>) = (s \o t) \o <<x>>
  BY <1>1, ConcatAssociative
<1> QED BY <1>1, <1>2, AppendIsConcat

-----------------------------------------------------------------------------
(* Within *)

(* The recursion of Within: w[k] is what the first k elements leave. *)
Winnows(w, D, s, S) ==
  /\ w \in [0 .. Len(s) -> Seq(D)]
  /\ w[0] = <<>>
  /\ \A k \in 1 .. Len(s) : w[k] = IF s[k] \in S THEN Append(w[k - 1], s[k]) ELSE w[k - 1]
  /\ Within(s, S) = w[Len(s)]

LEMMA WithinRecursion ==
  ASSUME NEW D, NEW s \in Seq(D), NEW S
  PROVE  \E w : Winnows(w, D, s, S)
<1> DEFINE m == Len(s)
           step == [k \in 1 .. m |->
                      [t \in Seq(D) |-> IF s[k] \in S THEN Append(t, s[k]) ELSE t]]
           Is(f) == f = [k \in 0 .. m |->
                           IF k = 0 THEN <<>>
                           ELSE IF s[k] \in S THEN Append(f[k - 1], s[k]) ELSE f[k - 1]]
<1>1. m \in Nat /\ \A k \in 1 .. m : s[k] \in D
  BY LenProperties, ElementOfSeq
<1>2. step \in [1 .. m -> [Seq(D) -> Seq(D)]]
  BY <1>1, AppendProperties
<1>3. <<>> \in Seq(D)
  BY EmptySeq
<1>4. PICK f \in [0 .. m -> Seq(D)] : f[0] = <<>> /\ \A k \in 1 .. m : f[k] = step[k][f[k - 1]]
  <2> DEFINE a == <<>>
             D1 == Seq(D)
  <2>1. m \in Nat /\ a \in D1 /\ step \in [1 .. m -> [D1 -> D1]]
    BY <1>1, <1>2, <1>3
  <2> HIDE DEF step, m, a, D1
  <2>2. \E f : Unfolds(f, m, D1, a, step)
    BY <2>1, Recursion
  <2> QED BY <2>2 DEF Unfolds, a, D1
<1>5. ASSUME NEW k \in 1 .. m
      PROVE  f[k] = IF s[k] \in S THEN Append(f[k - 1], s[k]) ELSE f[k - 1]
  <2>1. f[k - 1] \in Seq(D)
    BY <1>1, <1>4
  <2> QED BY <1>4, <2>1
<1>6. Is(f)
  <2> HIDE DEF m
  <2>1. ASSUME NEW k \in 0 .. m
        PROVE  f[k] = IF k = 0 THEN <<>>
                      ELSE IF s[k] \in S THEN Append(f[k - 1], s[k]) ELSE f[k - 1]
    <3>1. k = 0 \/ (k # 0 /\ k \in 1 .. m)
      BY <1>1
    <3> QED BY <1>4, <1>5, <3>1, Zenon
  <2> QED BY <1>4, <2>1
<1> DEFINE w == CHOOSE h : Is(h)
<1>7. Is(w)
  <2> HIDE DEF Is
  <2> QED BY <1>6
<1>8. Within(s, S) = w[m]
  BY DEF Within
<1> HIDE DEF w, m
<1>9. w = f
  <2> DEFINE P == {k \in Nat : k <= m => w[k] = f[k]}
  <2>1. 0 \in P
    BY <1>1, <1>4, <1>7
  <2>2. ASSUME NEW k \in Nat, k \in P PROVE k + 1 \in P
    <3>1. SUFFICES ASSUME k + 1 <= m PROVE w[k + 1] = f[k + 1]
      OBVIOUS
    <3>2. k + 1 \in 1 .. m /\ k + 1 \in 0 .. m /\ (k + 1) - 1 = k /\ w[k] = f[k] /\ k + 1 # 0
      BY <1>1, <2>2, <3>1
    <3> QED BY <1>5, <1>7, <3>2
  <2>3. Nat \subseteq P
    <3> HIDE DEF P
    <3> QED BY <2>1, <2>2, Induction
  <2>4. \A k \in 0 .. m : w[k] = f[k]
    BY <1>1, <2>3
  <2>5. w = [k \in 0 .. m |-> w[k]]
    BY <1>7
  <2>6. f = [k \in 0 .. m |-> f[k]]
    BY <1>4
  <2> QED BY <2>4, <2>5, <2>6
<1> QED BY <1>4, <1>5, <1>8, <1>9 DEF m, Winnows

LEMMA WithinEmpty == ASSUME NEW S PROVE Within(<<>>, S) = <<>>
<1>1. <<>> \in Seq({}) /\ Len(<<>>) = 0
  BY EmptySeq
<1>2. \E w : Winnows(w, {}, <<>>, S)
  BY <1>1, WithinRecursion
<1> QED BY <1>1, <1>2 DEF Winnows

LEMMA WithinAppend ==
  ASSUME NEW D, NEW s \in Seq(D), NEW x \in D, NEW S
  PROVE  Within(Append(s, x), S) = IF x \in S THEN Append(Within(s, S), x) ELSE Within(s, S)
<1> DEFINE t == Append(s, x)
           m == Len(s)
<1>1. t \in Seq(D) /\ Len(t) = m + 1 /\ t[m + 1] = x /\ m \in Nat /\ \A k \in 1 .. m : t[k] = s[k]
  BY AppendProperties, LenProperties
<1> HIDE DEF t, m
<1>2. PICK w : Winnows(w, D, s, S)
  BY WithinRecursion
<1>3. PICK v : Winnows(v, D, t, S)
  BY <1>1, WithinRecursion
<1> DEFINE P == {k \in Nat : k <= m => v[k] = w[k]}
<1>4. 0 \in P
  BY <1>2, <1>3 DEF Winnows
<1>5. ASSUME NEW k \in Nat, k \in P PROVE k + 1 \in P
  <2>1. SUFFICES ASSUME k + 1 <= m PROVE v[k + 1] = w[k + 1]
    OBVIOUS
  <2>2. k + 1 \in 1 .. m /\ k + 1 \in 1 .. m + 1 /\ (k + 1) - 1 = k /\ v[k] = w[k]
    BY <1>1, <1>5, <2>1
  <2> QED BY <1>1, <1>2, <1>3, <2>2 DEF Winnows, m
<1>6. Nat \subseteq P
  <2> HIDE DEF P
  <2> QED BY <1>4, <1>5, Induction
<1>7. v[m] = w[m] /\ m + 1 \in 1 .. m + 1 /\ (m + 1) - 1 = m
  BY <1>1, <1>6
<1> QED BY <1>1, <1>2, <1>3, <1>7 DEF t, m, Winnows

LEMMA WithinType ==
  ASSUME NEW D, NEW s \in Seq(D), NEW S
  PROVE  Within(s, S) \in Seq(D) /\ Within(s, S) \in Seq(S)
<1> DEFINE P == {q \in Seq(D) : Within(q, S) \in Seq(D) /\ Within(q, S) \in Seq(S)}
<1>1. <<>> \in P
  BY EmptySeq, WithinEmpty
<1>2. ASSUME NEW q \in Seq(D), NEW x \in D, q \in P PROVE Append(q, x) \in P
  <2>1. Append(q, x) \in Seq(D)
    BY AppendProperties
  <2>2. CASE x \in S
    <3>1. Append(Within(q, S), x) \in Seq(D) /\ Append(Within(q, S), x) \in Seq(S)
      BY <1>2, <2>2, AppendProperties
    <3> QED BY <2>1, <2>2, <3>1, WithinAppend
  <2>3. CASE x \notin S
    BY <1>2, <2>1, <2>3, WithinAppend
  <2> QED BY <2>2, <2>3
<1>3. Seq(D) \subseteq P
  <2> HIDE DEF P
  <2> QED BY <1>1, <1>2, Appends
<1> QED BY <1>3

(* Two sets with the same elements of D keep the same of a sequence in D. *)
LEMMA WithinSame ==
  ASSUME NEW D, NEW s \in Seq(D), NEW S, NEW T, \A x \in D : x \in S <=> x \in T
  PROVE  Within(s, S) = Within(s, T)
<1> DEFINE P == {q \in Seq(D) : Within(q, S) = Within(q, T)}
<1>1. <<>> \in P
  BY EmptySeq, WithinEmpty
<1>2. ASSUME NEW q \in Seq(D), NEW x \in D, q \in P PROVE Append(q, x) \in P
  <2>1. Append(q, x) \in Seq(D)
    BY AppendProperties
  <2>2. \A U : Within(Append(q, x), U) = IF x \in U THEN Append(Within(q, U), x) ELSE Within(q, U)
    BY WithinAppend
  <2>3. Within(Append(q, x), S) = Within(Append(q, x), T)
    BY <1>2, <2>2
  <2> QED BY <2>1, <2>3
<1>3. Seq(D) \subseteq P
  <2> HIDE DEF P
  <2> QED BY <1>1, <1>2, Appends
<1> QED BY <1>3

LEMMA WithinNone ==
  ASSUME NEW D, NEW s \in Seq(D), NEW S, \A x \in D : x \notin S
  PROVE  Within(s, S) = <<>>
<1> DEFINE P == {q \in Seq(D) : Within(q, S) = <<>>}
<1>1. <<>> \in P
  BY EmptySeq, WithinEmpty
<1>2. ASSUME NEW q \in Seq(D), NEW x \in D, q \in P PROVE Append(q, x) \in P
  BY <1>2, AppendProperties, WithinAppend
<1>3. Seq(D) \subseteq P
  <2> HIDE DEF P
  <2> QED BY <1>1, <1>2, Appends
<1> QED BY <1>3

LEMMA WithinTwice ==
  ASSUME NEW D, NEW s \in Seq(D), NEW S, NEW T
  PROVE  Within(Within(s, S), T) = Within(s, S \cap T)
<1> DEFINE I == S \cap T
           P == {q \in Seq(D) : Within(Within(q, S), T) = Within(q, I)}
<1>1. \A x : x \in I <=> x \in S /\ x \in T
  OBVIOUS
<1> HIDE DEF I
<1>2. <<>> \in P
  BY EmptySeq, WithinEmpty
<1>3. ASSUME NEW q \in Seq(D), NEW x \in D, q \in P PROVE Append(q, x) \in P
  <2>1. Append(q, x) \in Seq(D) /\ Within(q, S) \in Seq(D)
    BY AppendProperties, WithinType
  <2>2. \A U : Within(Append(q, x), U) = IF x \in U THEN Append(Within(q, U), x) ELSE Within(q, U)
    BY WithinAppend
  <2>3. Within(Append(Within(q, S), x), T)
          = IF x \in T THEN Append(Within(Within(q, S), T), x) ELSE Within(Within(q, S), T)
    BY <2>1, WithinAppend
  <2>4. Within(Within(q, S), T) = Within(q, I)
    BY <1>3
  <2>5. Within(Within(Append(q, x), S), T) = Within(Append(q, x), I)
    <3>1. CASE x \in S
      <4>1. Within(Append(q, x), S) = Append(Within(q, S), x)
        BY <2>2, <3>1
      <4>2. Within(Append(q, x), I) = IF x \in T THEN Append(Within(q, I), x) ELSE Within(q, I)
        BY <1>1, <2>2, <3>1
      <4> QED BY <2>3, <2>4, <4>1, <4>2
    <3>2. CASE x \notin S
      BY <1>1, <2>2, <2>4, <3>2
    <3> QED BY <3>1, <3>2
  <2> QED BY <2>1, <2>5
<1>4. Seq(D) \subseteq P
  <2> HIDE DEF P
  <2> QED BY <1>2, <1>3, Appends
<1> QED BY <1>4 DEF I

(* The elements of two disjoint sets are counted one by one. *)
LEMMA WithinSplit ==
  ASSUME NEW D, NEW s \in Seq(D), NEW S, NEW T, S \cap T = {}
  PROVE  Len(Within(s, S \cup T)) = Len(Within(s, S)) + Len(Within(s, T))
<1> DEFINE P == {q \in Seq(D) : Len(Within(q, S \cup T)) = Len(Within(q, S)) + Len(Within(q, T))}
<1>1. <<>> \in P
  BY EmptySeq, WithinEmpty
<1>2. ASSUME NEW q \in Seq(D), NEW x \in D, q \in P PROVE Append(q, x) \in P
  <2>1. Append(q, x) \in Seq(D)
    BY AppendProperties
  <2>2. ASSUME NEW U
        PROVE  /\ Len(Within(q, U)) \in Nat
               /\ Len(Within(Append(q, x), U)) = Len(Within(q, U)) + (IF x \in U THEN 1 ELSE 0)
    <3>1. Within(q, U) \in Seq(D)
      BY WithinType
    <3>2. Len(Within(q, U)) \in Nat /\ Len(Append(Within(q, U), x)) = Len(Within(q, U)) + 1
      BY <3>1, LenProperties, AppendProperties
    <3>3. Within(Append(q, x), U) = IF x \in U THEN Append(Within(q, U), x) ELSE Within(q, U)
      BY WithinAppend
    <3> QED BY <3>2, <3>3
  <2> DEFINE L(U) == Len(Within(q, U))
             K(U) == Len(Within(Append(q, x), U))
  <2>3. \A U : L(U) \in Nat /\ K(U) = L(U) + (IF x \in U THEN 1 ELSE 0)
    BY <2>2
  <2>4. L(S \cup T) = L(S) + L(T)
    BY <1>2
  <2>5. K(S \cup T) = K(S) + K(T)
    <3> HIDE DEF L, K
    <3> QED BY <2>3, <2>4
  <2> QED BY <2>1, <2>5
<1>3. Seq(D) \subseteq P
  <2> HIDE DEF P
  <2> QED BY <1>1, <1>2, Appends
<1> QED BY <1>3

LEMMA WithinConcat ==
  ASSUME NEW D, NEW s \in Seq(D), NEW t \in Seq(D), NEW S
  PROVE  Within(s \o t, S) = Within(s, S) \o Within(t, S)
<1> DEFINE P == {q \in Seq(D) : Within(s \o q, S) = Within(s, S) \o Within(q, S)}
<1>1. Within(s, S) \in Seq(D)
  BY WithinType
<1>2. <<>> \in P
  BY <1>1, EmptySeq, WithinEmpty, ConcatEmptySeq
<1>3. ASSUME NEW q \in Seq(D), NEW x \in D, q \in P PROVE Append(q, x) \in P
  <2>1. Append(q, x) \in Seq(D) /\ Within(q, S) \in Seq(D) /\ s \o q \in Seq(D)
    BY AppendProperties, WithinType, ConcatProperties
  <2>2. s \o Append(q, x) = Append(s \o q, x)
    BY AppendOfConcat
  <2>3. Within(s, S) \o Append(Within(q, S), x) = Append(Within(s, S) \o Within(q, S), x)
    BY <1>1, <2>1, AppendOfConcat
  <2>4. Within(Append(s \o q, x), S)
          = IF x \in S THEN Append(Within(s \o q, S), x) ELSE Within(s \o q, S)
    BY <2>1, WithinAppend
  <2>5. Within(Append(q, x), S) = IF x \in S THEN Append(Within(q, S), x) ELSE Within(q, S)
    BY WithinAppend
  <2> QED BY <1>3, <2>1, <2>2, <2>3, <2>4, <2>5
<1>4. Seq(D) \subseteq P
  <2> HIDE DEF P
  <2> QED BY <1>2, <1>3, Appends
<1> QED BY <1>4

-----------------------------------------------------------------------------
(* FlattenSeq *)

(* The recursion of FlattenSeq: f[k] is the concatenation of the first k. *)
Joins(f, D, ss) ==
  /\ f \in [0 .. Len(ss) -> Seq(D)]
  /\ f[0] = <<>>
  /\ \A k \in 1 .. Len(ss) : f[k] = f[k - 1] \o ss[k]
  /\ FlattenSeq(ss) = f[Len(ss)]

LEMMA FlattenRecursion ==
  ASSUME NEW D, NEW ss \in Seq(Seq(D))
  PROVE  \E f : Joins(f, D, ss)
<1> DEFINE m == Len(ss)
           D1 == Seq(D)
           a == <<>>
           step == [k \in 1 .. m |-> [t \in D1 |-> t \o ss[k]]]
           Is(f) == f = [i \in 1 .. m |-> IF i = 1 THEN ss[i] ELSE f[i - 1] \o ss[i]]
<1>1. m \in Nat /\ \A k \in 1 .. m : ss[k] \in D1
  BY LenProperties, ElementOfSeq
<1>2. step \in [1 .. m -> [D1 -> D1]] /\ a \in D1
  BY <1>1, ConcatProperties, EmptySeq
<1>3. PICK f : Unfolds(f, m, D1, a, step)
  <2> HIDE DEF m, D1, a, step
  <2> QED BY <1>1, <1>2, Recursion
<1>4. /\ f \in [0 .. m -> D1] /\ f[0] = <<>>
      /\ \A k \in 1 .. m : f[k] = f[k - 1] \o ss[k]
  <2>1. f \in [0 .. m -> D1] /\ f[0] = <<>> /\ \A k \in 1 .. m : f[k] = step[k][f[k - 1]]
    BY <1>3 DEF Unfolds
  <2>2. ASSUME NEW k \in 1 .. m PROVE f[k] = f[k - 1] \o ss[k]
    <3>1. k - 1 \in 0 .. m
      BY <1>1
    <3>2. f[k - 1] \in D1
      BY <2>1, <3>1
    <3> QED BY <2>1, <3>2
  <2> QED BY <2>1, <2>2
<1> HIDE DEF step, a
<1>5. CASE m = 0
  <2>1. FlattenSeq(ss) = ss
    BY <1>5 DEF FlattenSeq
  <2>2. ss = <<>>
    BY <1>5, EmptySeq
  <2> QED BY <1>4, <1>5, <2>1, <2>2 DEF Joins
<1>6. CASE m # 0
  <2> DEFINE g == [i \in 1 .. m |-> f[i]]
             w == CHOOSE h : Is(h)
  <2>1. Is(g)
    <3> HIDE DEF m
    <3>1. ASSUME NEW i \in 1 .. m PROVE g[i] = IF i = 1 THEN ss[i] ELSE g[i - 1] \o ss[i]
      <4>1. CASE i = 1
        <5>1. 1 \in 1 .. m /\ f[1 - 1] = <<>>
          BY <1>1, <1>4, <4>1
        <5>2. f[1] = <<>> \o ss[1] /\ ss[1] \in Seq(D)
          BY <1>1, <1>4, <5>1
        <5> QED BY <4>1, <5>1, <5>2, ConcatEmptySeq
      <4>2. CASE i # 1
        <5>1. i - 1 \in 1 .. m
          BY <1>1, <4>2
        <5> QED BY <1>4, <4>2, <5>1
      <4> QED BY <4>1, <4>2
    <3> QED BY <3>1
  <2>2. Is(w)
    <3> HIDE DEF Is, g
    <3> QED BY <2>1
  <2>3. FlattenSeq(ss) = w[m]
    BY <1>6 DEF FlattenSeq
  <2> HIDE DEF w, m
  <2> DEFINE P == {k \in Nat : k <= m => k = 0 \/ w[k] = f[k]}
  <2>4. 0 \in P
    OBVIOUS
  <2>5. ASSUME NEW k \in Nat, k \in P PROVE k + 1 \in P
    <3>1. SUFFICES ASSUME k + 1 <= m PROVE w[k + 1] = f[k + 1]
      OBVIOUS
    <3>2. k + 1 \in 1 .. m /\ (k + 1) - 1 = k
      BY <1>1, <3>1
    <3>3. w[k + 1] = IF k + 1 = 1 THEN ss[k + 1] ELSE w[(k + 1) - 1] \o ss[k + 1]
      BY <2>2, <3>2
    <3>4. g[k + 1] = f[k + 1]
      BY <3>2
    <3>5. CASE k = 0
      <4>1. w[k + 1] = ss[k + 1]
        BY <3>3, <3>5
      <4>2. g[k + 1] = IF k + 1 = 1 THEN ss[k + 1] ELSE g[(k + 1) - 1] \o ss[k + 1]
        <5> HIDE DEF g
        <5> QED BY <2>1, <3>2
      <4> QED BY <3>4, <3>5, <4>1, <4>2
    <3>6. CASE k # 0
      <4>1. w[k] = f[k]
        BY <1>1, <2>5, <3>1, <3>6
      <4>2. w[k + 1] = w[k] \o ss[k + 1]
        <5>1. k + 1 # 1
          BY <3>6
        <5>2. w[k + 1] = w[(k + 1) - 1] \o ss[k + 1]
          BY <3>3, <5>1
        <5> QED BY <3>2, <5>2
      <4>3. f[k + 1] = f[k] \o ss[k + 1]
        BY <1>4, <3>2
      <4> QED BY <4>1, <4>2, <4>3
    <3> QED BY <3>5, <3>6
  <2>6. Nat \subseteq P
    <3> HIDE DEF P
    <3> QED BY <2>4, <2>5, Induction
  <2>7. w[m] = f[m]
    BY <1>1, <1>6, <2>6
  <2> QED BY <1>4, <2>3, <2>7 DEF Joins, m
<1> QED BY <1>5, <1>6

LEMMA FlattenType ==
  ASSUME NEW D, NEW ss \in Seq(Seq(D))
  PROVE  FlattenSeq(ss) \in Seq(D) /\ Len(FlattenSeq(ss)) \in Nat
<1>1. PICK f : Joins(f, D, ss)
  BY FlattenRecursion
<1>2. Len(ss) \in Nat
  BY LenProperties
<1>3. FlattenSeq(ss) \in Seq(D)
  BY <1>1, <1>2 DEF Joins
<1> QED BY <1>3, LenProperties

(* The i-th of the sequences has d elements more: so has the whole. *)
LongerAt(i, d, ss, tt) ==
  /\ Len(tt) = Len(ss) /\ i \in 1 .. Len(ss) /\ d \in Int
  /\ Len(tt[i]) = Len(ss[i]) + d
  /\ \A j \in 1 .. Len(ss) : j # i => Len(tt[j]) = Len(ss[j])

LEMMA FlattenLonger ==
  ASSUME NEW D, NEW ss \in Seq(Seq(D)), NEW tt \in Seq(Seq(D)),
         NEW i, NEW d, LongerAt(i, d, ss, tt)
  PROVE  Len(FlattenSeq(tt)) = Len(FlattenSeq(ss)) + d
<1> DEFINE m == Len(ss)
<1>1. PICK f : Joins(f, D, ss)
  BY FlattenRecursion
<1>2. PICK g : Joins(g, D, tt)
  BY FlattenRecursion
<1>3. m \in Nat /\ Len(tt) = m /\ \A k \in 1 .. m : ss[k] \in Seq(D) /\ tt[k] \in Seq(D)
  <2>1. m \in Nat /\ Len(tt) = m
    BY LenProperties DEF LongerAt
  <2> QED BY <2>1, ElementOfSeq
<1>4. \A k \in 1 .. m : Len(ss[k]) \in Nat /\ Len(tt[k]) \in Nat
  BY <1>3, LenProperties
<1>5. /\ Len(f[0]) = 0 /\ \A k \in 0 .. m : f[k] \in Seq(D)
      /\ \A k \in 1 .. m : f[k] = f[k - 1] \o ss[k]
  BY <1>1, EmptySeq DEF Joins
<1>6. /\ Len(g[0]) = 0 /\ \A k \in 0 .. m : g[k] \in Seq(D)
      /\ \A k \in 1 .. m : g[k] = g[k - 1] \o tt[k]
  BY <1>2, <1>3, EmptySeq DEF Joins
<1> DEFINE Keeps(k) == /\ k < i => Len(g[k]) = Len(f[k])
                       /\ k >= i => Len(g[k]) = Len(f[k]) + d
           P == {k \in Nat : k <= m => Keeps(k)}
<1>7. FlattenSeq(ss) = f[m] /\ FlattenSeq(tt) = g[m]
  BY <1>1, <1>2, <1>3 DEF Joins
<1>8. /\ i \in 1 .. m /\ i \in Nat /\ d \in Int /\ Len(tt[i]) = Len(ss[i]) + d
      /\ \A j \in 1 .. m : j # i => Len(tt[j]) = Len(ss[j])
  BY <1>3 DEF LongerAt
<1> HIDE DEF m
<1>9. 0 \in P
  BY <1>8, <1>5, <1>6
<1>10. ASSUME NEW k \in Nat, k \in P PROVE k + 1 \in P
  <2>1. SUFFICES ASSUME k + 1 <= m
                 PROVE  Keeps(k + 1)
    OBVIOUS
  <2>2. k + 1 \in 1 .. m /\ (k + 1) - 1 = k /\ k \in 0 .. m
    BY <1>3, <2>1
  <2>3. f[k] \in Seq(D) /\ g[k] \in Seq(D) /\ ss[k + 1] \in Seq(D) /\ tt[k + 1] \in Seq(D)
    BY <1>3, <1>5, <1>6, <2>2
  <2>4. f[k + 1] = f[k] \o ss[k + 1] /\ g[k + 1] = g[k] \o tt[k + 1]
    BY <1>5, <1>6, <2>2
  <2>5. /\ Len(f[k + 1]) = Len(f[k]) + Len(ss[k + 1]) /\ Len(g[k + 1]) = Len(g[k]) + Len(tt[k + 1])
        /\ Len(f[k]) \in Nat /\ Len(g[k]) \in Nat
    BY <2>3, <2>4, ConcatProperties, LenProperties
  <2>6. Keeps(k)
    BY <1>3, <1>10, <2>1
  <2>7. /\ k + 1 = i => Len(tt[k + 1]) = Len(ss[k + 1]) + d
        /\ k + 1 # i => Len(tt[k + 1]) = Len(ss[k + 1])
    BY <1>8, <2>2
  <2>8. Len(ss[k + 1]) \in Nat
    BY <1>4, <2>2
  <2> DEFINE a == Len(f[k])
             b == Len(g[k])
             x == Len(ss[k + 1])
             y == Len(tt[k + 1])
  <2>9. /\ a \in Nat /\ b \in Nat /\ x \in Nat /\ i \in Nat /\ d \in Int
        /\ k < i => b = a
        /\ k >= i => b = a + d
        /\ k + 1 = i => y = x + d
        /\ k + 1 # i => y = x
    BY <1>8, <2>5, <2>6, <2>7, <2>8
  <2>10. Len(f[k + 1]) = a + x /\ Len(g[k + 1]) = b + y
    BY <2>5
  <2> HIDE DEF a, b, x, y
  <2>11. (k + 1 < i => b + y = a + x) /\ (k + 1 >= i => b + y = (a + x) + d)
    <3>1. CASE k + 1 = i
      BY <2>9, <3>1
    <3>2. CASE k + 1 < i
      <4>1. k < i /\ k + 1 # i /\ ~(k + 1 >= i)
        BY <2>9, <3>2
      <4>2. b = a /\ y = x
        BY <2>9, <4>1
      <4> QED BY <4>1, <4>2
    <3>3. CASE k >= i
      BY <2>9, <3>3
    <3> QED BY <2>9, <3>1, <3>2, <3>3
  <2> QED BY <2>10, <2>11
<1>11. Nat \subseteq P
  <2> HIDE DEF P
  <2> QED BY <1>9, <1>10, Induction
<1>12. m >= i
  BY <1>8, <1>3
<1>13. Keeps(m)
  BY <1>3, <1>11
<1> QED BY <1>7, <1>12, <1>13

LEMMA FlattenEmpty ==
  ASSUME NEW D, NEW ss \in Seq(Seq(D)), \A k \in 1 .. Len(ss) : ss[k] = <<>>
  PROVE  FlattenSeq(ss) = <<>>
<1> DEFINE m == Len(ss)
<1>1. PICK f : Joins(f, D, ss)
  BY FlattenRecursion
<1>2. m \in Nat
  BY LenProperties
<1> DEFINE P == {k \in Nat : k <= m => f[k] = <<>>}
<1>3. 0 \in P
  BY <1>1 DEF Joins
<1>4. ASSUME NEW k \in Nat, k \in P PROVE k + 1 \in P
  <2>1. SUFFICES ASSUME k + 1 <= m PROVE f[k + 1] = <<>>
    OBVIOUS
  <2>2. k + 1 \in 1 .. m /\ (k + 1) - 1 = k
    BY <1>2, <2>1
  <2>3. f[k + 1] = f[k] \o ss[k + 1] /\ ss[k + 1] = <<>>
    BY <1>1, <2>2 DEF Joins
  <2>4. f[k] = <<>>
    BY <1>2, <1>4, <2>1
  <2> QED BY <2>3, <2>4, EmptySeq, ConcatEmptySeq
<1>5. Nat \subseteq P
  <2> HIDE DEF P
  <2> QED BY <1>3, <1>4, Induction
<1> QED BY <1>1, <1>2, <1>5 DEF Joins

(* Only the i-th of the sequences has elements in S. *)
OnlyAt(i, ss, S) ==
  i \in 1 .. Len(ss) /\ \A j \in 1 .. Len(ss) : j # i => Within(ss[j], S) = <<>>

LEMMA FlattenWithin ==
  ASSUME NEW D, NEW ss \in Seq(Seq(D)), NEW S, NEW i, OnlyAt(i, ss, S)
  PROVE  Within(FlattenSeq(ss), S) = Within(ss[i], S)
<1> DEFINE m == Len(ss)
<1>1. PICK f : Joins(f, D, ss)
  BY FlattenRecursion
<1>2. m \in Nat /\ \A k \in 1 .. m : ss[k] \in Seq(D)
  BY LenProperties, ElementOfSeq
<1>3. /\ f[0] = <<>> /\ \A k \in 0 .. m : f[k] \in Seq(D)
      /\ \A k \in 1 .. m : f[k] = f[k - 1] \o ss[k]
      /\ FlattenSeq(ss) = f[m]
  BY <1>1, <1>2 DEF Joins
<1> DEFINE P == {k \in Nat : k <= m => Within(f[k], S) = IF k >= i THEN Within(ss[i], S) ELSE <<>>}
<1>4. i \in 1 .. m /\ i \in Nat /\ \A j \in 1 .. m : j # i => Within(ss[j], S) = <<>>
  BY <1>2 DEF OnlyAt
<1> HIDE DEF m
<1>5. 0 \in P
  BY <1>4, <1>3, WithinEmpty
<1>6. ASSUME NEW k \in Nat, k \in P PROVE k + 1 \in P
  <2>1. SUFFICES ASSUME k + 1 <= m
                 PROVE  Within(f[k + 1], S) = IF k + 1 >= i THEN Within(ss[i], S) ELSE <<>>
    OBVIOUS
  <2>2. k + 1 \in 1 .. m /\ (k + 1) - 1 = k /\ k \in 0 .. m /\ i \in 1 .. m
    BY <1>4, <1>2, <2>1
  <2>3. f[k] \in Seq(D) /\ ss[k + 1] \in Seq(D) /\ f[k + 1] = f[k] \o ss[k + 1]
    BY <1>2, <1>3, <2>2
  <2>4. Within(f[k + 1], S) = Within(f[k], S) \o Within(ss[k + 1], S)
    <3> DEFINE x == f[k]
               y == ss[k + 1]
    <3>1. x \in Seq(D) /\ y \in Seq(D)
      BY <2>3
    <3> HIDE DEF x, y
    <3>2. Within(x \o y, S) = Within(x, S) \o Within(y, S)
      BY <3>1, WithinConcat
    <3> QED BY <2>3, <3>2 DEF x, y
  <2>5. Within(f[k], S) = IF k >= i THEN Within(ss[i], S) ELSE <<>>
    BY <1>4, <1>2, <1>6, <2>1
  <2>6. Within(ss[k + 1], S) = IF k + 1 = i THEN Within(ss[i], S) ELSE <<>>
    BY <1>4, <2>2
  <2>7. /\ Within(ss[i], S) \o <<>> = Within(ss[i], S)
        /\ <<>> \o Within(ss[i], S) = Within(ss[i], S)
        /\ <<>> \o <<>> = <<>>
    <3>1. Within(ss[i], S) \in Seq(D) /\ <<>> \in Seq(D)
      BY <1>2, <2>2, WithinType, EmptySeq
    <3> QED BY <3>1, ConcatEmptySeq
  <2>8. CASE k + 1 = i
    <3>1. Within(f[k], S) = <<>> /\ Within(ss[k + 1], S) = Within(ss[i], S) /\ k + 1 >= i
      BY <1>4, <2>5, <2>6, <2>8
    <3> QED BY <2>4, <2>7, <3>1
  <2>9. CASE k >= i
    <3>1. Within(f[k], S) = Within(ss[i], S) /\ Within(ss[k + 1], S) = <<>> /\ k + 1 >= i
      BY <1>4, <2>5, <2>6, <2>9
    <3> QED BY <2>4, <2>7, <3>1
  <2>10. CASE ~(k + 1 >= i)
    <3>1. Within(f[k], S) = <<>> /\ Within(ss[k + 1], S) = <<>>
      BY <1>4, <2>5, <2>6, <2>10
    <3> QED BY <2>4, <2>7, <2>10, <3>1
  <2> QED BY <1>4, <2>8, <2>9, <2>10
<1>7. Nat \subseteq P
  <2> HIDE DEF P
  <2> QED BY <1>5, <1>6, Induction
<1>8. m >= i
  BY <1>4, <1>2
<1>9. Within(f[m], S) = IF m >= i THEN Within(ss[i], S) ELSE <<>>
  BY <1>2, <1>7
<1> QED BY <1>3, <1>8, <1>9

-----------------------------------------------------------------------------
(* Lists of neighbours *)

(* The block of edges() that the list s of the vertex u stands for. *)
Arcs(u, s) == [k \in DOMAIN s |-> Arc(u, s[k])]
ArcsOver(V) == [from : V, to : V, weight : Int]
ArcsOf(u, v) == [from : {u}, to : {v}, weight : Int]

(* The weights in a list, in their order. *)
Weighed(s) == [k \in DOMAIN s |-> W(s[k])]

(* Both are images of a list under a function. *)
Maps(h, D, E) == h \in [D -> E]
Image(h, s) == [k \in DOMAIN s |-> h[s[k]]]

LEMMA ListOf ==
  ASSUME NEW D, NEW m \in Nat, NEW f \in [1 .. m -> D]
  PROVE  f \in Seq(D) /\ Len(f) = m
<1>1. f \in Seq(D)
  BY SeqDef
<1> QED BY <1>1, LenProperties

LEMMA ImageAppend ==
  ASSUME NEW D, NEW E, NEW h, Maps(h, D, E), NEW s \in Seq(D), NEW x \in D
  PROVE  /\ Image(h, s) \in Seq(E) /\ Len(Image(h, s)) = Len(s)
         /\ Image(h, Append(s, x)) = Append(Image(h, s), h[x])
<1>1. ASSUME NEW q \in Seq(D)
      PROVE  /\ Image(h, q) \in Seq(E) /\ Len(Image(h, q)) = Len(q)
             /\ \A k \in 1 .. Len(q) : Image(h, q)[k] = h[q[k]]
  <2>1. DOMAIN q = 1 .. Len(q) /\ Len(q) \in Nat /\ \A k \in 1 .. Len(q) : q[k] \in D
    BY LenProperties, ElementOfSeq
  <2>2. Image(h, q) \in [1 .. Len(q) -> E]
    BY <2>1 DEF Image, Maps
  <2>3. Image(h, q) \in Seq(E) /\ Len(Image(h, q)) = Len(q)
    BY <2>1, <2>2, ListOf
  <2> QED BY <2>1, <2>3 DEF Image
<1> DEFINE t == Append(s, x)
           a == Image(h, t)
           b == Append(Image(h, s), h[x])
           m == Len(s)
<1>2. /\ t \in Seq(D) /\ Len(t) = m + 1 /\ t[m + 1] = x /\ m \in Nat
      /\ \A k \in 1 .. m : t[k] = s[k]
  BY AppendProperties, LenProperties
<1>3. /\ b \in Seq(E) /\ Len(b) = m + 1 /\ b[m + 1] = h[x]
      /\ \A k \in 1 .. m : b[k] = Image(h, s)[k]
  <2>1. h[x] \in E /\ Image(h, s) \in Seq(E) /\ Len(Image(h, s)) = m
    BY <1>1 DEF Maps
  <2> QED BY <2>1, AppendProperties
<1>4. \A k \in 1 .. m : Image(h, s)[k] = h[s[k]]
  BY <1>1
<1> HIDE DEF t
<1>5. a \in Seq(E) /\ Len(a) = m + 1 /\ \A k \in 1 .. m + 1 : a[k] = h[t[k]]
  BY <1>1, <1>2
<1> HIDE DEF a, b, m
<1>6. ASSUME NEW k \in 1 .. m + 1 PROVE a[k] = b[k]
  <2>1. CASE k = m + 1
    BY <1>2, <1>3, <1>5, <2>1
  <2>2. CASE k # m + 1
    <3>1. k \in 1 .. m
      BY <1>2, <2>2
    <3> QED BY <1>2, <1>3, <1>4, <1>5, <3>1
  <2> QED BY <2>1, <2>2
<1>7. a = b
  BY <1>3, <1>5, <1>6, SeqEqual
<1> QED BY <1>1, <1>7 DEF a, b, t

LEMMA ArcsAppend ==
  ASSUME NEW V, NEW s \in Seq(Into(V)), NEW x \in Into(V), NEW u \in V
  PROVE  /\ Arcs(u, s) \in Seq(ArcsOver(V)) /\ Len(Arcs(u, s)) = Len(s)
         /\ Arc(u, x) \in ArcsOver(V)
         /\ Arcs(u, Append(s, x)) = Append(Arcs(u, s), Arc(u, x))
<1> DEFINE D == Into(V)
           E == ArcsOver(V)
           h == [y \in D |-> Arc(u, y)]
<1>1. Maps(h, D, E) /\ h[x] = Arc(u, x) /\ h[x] \in E
  BY DEF Arc, ArcsOver, To, W, Maps, Into
<1>2. \A y \in D : h[y] = Arc(u, y)
  OBVIOUS
<1>3. s \in Seq(D) /\ x \in D
  OBVIOUS
<1>4. Append(s, x) \in Seq(D)
  BY <1>3, AppendProperties
<1> HIDE DEF D, E, h
<1>5. ASSUME NEW q \in Seq(D) PROVE Arcs(u, q) = Image(h, q)
  <2>1. \A k \in DOMAIN q : q[k] \in D
    BY LenProperties, ElementOfSeq
  <2> QED BY <1>2, <2>1 DEF Arcs, Image
<1>6. /\ Image(h, s) \in Seq(E) /\ Len(Image(h, s)) = Len(s)
      /\ Image(h, Append(s, x)) = Append(Image(h, s), h[x])
  BY <1>1, <1>3, ImageAppend
<1>7. Arcs(u, s) = Image(h, s) /\ Arcs(u, Append(s, x)) = Image(h, Append(s, x))
  BY <1>3, <1>4, <1>5
<1> QED BY <1>1, <1>6, <1>7 DEF E

(* Among the edges of u those to v are as many as its entries that lead there. *)
LEMMA ArcsWithin ==
  ASSUME NEW V, NEW u \in V, NEW v \in V, NEW s \in Seq(Into(V))
  PROVE  Len(Within(Arcs(u, s), ArcsOf(u, v))) = Len(Within(s, Into({v})))
<1> DEFINE E == ArcsOf(u, v)
           I == Into({v})
           P == {q \in Seq(Into(V)) : Len(Within(Arcs(u, q), E)) = Len(Within(q, I))}
<1>1. \A q \in Seq(Into(V)) : \A x \in Into(V) :
        /\ Arcs(u, q) \in Seq(ArcsOver(V)) /\ Arc(u, x) \in ArcsOver(V)
        /\ Arcs(u, Append(q, x)) = Append(Arcs(u, q), Arc(u, x))
  BY ArcsAppend
<1>2. \A y \in Into(V) : Arc(u, y) \in E <=> y \in I
  BY DEF Arc, ArcsOf, Into, To, W
<1> HIDE DEF E, I
<1>3. \A q \in Seq(Into(V)) : \A x \in Into(V) :
        Within(Append(q, x), I) = IF x \in I THEN Append(Within(q, I), x) ELSE Within(q, I)
  <2> DEFINE D == Into(V)
  <2> HIDE DEF D
  <2>1. \A q \in Seq(D) : \A x \in D :
          Within(Append(q, x), I) = IF x \in I THEN Append(Within(q, I), x) ELSE Within(q, I)
    BY WithinAppend
  <2> QED BY <2>1 DEF D
<1>4. <<>> \in P
  <2>1. Arcs(u, <<>>) = <<>>
    BY DEF Arcs
  <2> QED BY <2>1, EmptySeq, WithinEmpty
<1>5. ASSUME NEW q \in Seq(Into(V)), NEW x \in Into(V), q \in P PROVE Append(q, x) \in P
  <2> DEFINE aq == Arcs(u, q)
             ax == Arc(u, x)
  <2>1. /\ Append(q, x) \in Seq(Into(V)) /\ aq \in Seq(ArcsOver(V)) /\ ax \in ArcsOver(V)
        /\ Arcs(u, Append(q, x)) = Append(aq, ax)
    <3>1. Append(q, x) \in Seq(Into(V))
      BY AppendProperties
    <3>2. aq \in Seq(ArcsOver(V)) /\ ax \in ArcsOver(V) /\ Arcs(u, Append(q, x)) = Append(aq, ax)
      BY <1>1
    <3> QED BY <3>1, <3>2
  <2>2. ax \in E <=> x \in I
    BY <1>2
  <2>3. Len(Within(aq, E)) = Len(Within(q, I))
    BY <1>5
  <2> HIDE DEF aq, ax
  <2>4. Within(Append(aq, ax), E) = IF ax \in E THEN Append(Within(aq, E), ax) ELSE Within(aq, E)
    BY <2>1, WithinAppend
  <2>5. Within(Append(q, x), I) = IF x \in I THEN Append(Within(q, I), x) ELSE Within(q, I)
    BY <1>3
  <2>6. Within(aq, E) \in Seq(ArcsOver(V)) /\ Within(q, I) \in Seq(Into(V))
    BY <2>1, WithinType
  <2>7. /\ Len(Append(Within(aq, E), ax)) = Len(Within(aq, E)) + 1
        /\ Len(Append(Within(q, I), x)) = Len(Within(q, I)) + 1
    BY <2>1, <2>6, AppendProperties
  <2>8. Len(Within(Arcs(u, Append(q, x)), E)) = Len(Within(Append(q, x), I))
    BY <2>1, <2>2, <2>3, <2>4, <2>5, <2>7
  <2> QED BY <2>1, <2>8
<1>6. Seq(Into(V)) \subseteq P
  <2> HIDE DEF P
  <2> QED BY <1>4, <1>5, Appends
<1> QED BY <1>6 DEF E, I

LEMMA ArcsOther ==
  ASSUME NEW V, NEW s \in Seq(Into(V)), NEW u, NEW v, NEW x \in V, x # u
  PROVE  Within(Arcs(x, s), ArcsOf(u, v)) = <<>>
<1> DEFINE D == [from : {x}, to : V, weight : Int]
<1>1. DOMAIN s = 1 .. Len(s) /\ Len(s) \in Nat /\ \A k \in 1 .. Len(s) : s[k] \in Into(V)
  BY LenProperties, ElementOfSeq
<1>2. \A y \in Into(V) : Arc(x, y) \in D
  BY DEF Arc, To, W, Into
<1>3. Arcs(x, s) \in [1 .. Len(s) -> D]
  BY <1>1, <1>2 DEF Arcs
<1>4. Arcs(x, s) \in Seq(D)
  <2> HIDE DEF D
  <2> QED BY <1>1, <1>3, ListOf
<1>5. \A e \in D : e \notin ArcsOf(u, v)
  BY DEF ArcsOf
<1> HIDE DEF D
<1> QED BY <1>4, <1>5, WithinNone

LEMMA WeighedAppend ==
  ASSUME NEW V, NEW s \in Seq(Into(V)), NEW x \in Into(V)
  PROVE  Weighed(s) \in Seq(Int) /\ Len(Weighed(s)) = Len(s)
         /\ Weighed(Append(s, x)) = Append(Weighed(s), W(x))
<1> DEFINE D == Into(V)
           h == [y \in D |-> W(y)]
<1>1. Maps(h, D, Int) /\ h[x] = W(x)
  BY DEF W, Maps, Into
<1>2. \A y \in D : h[y] = W(y)
  OBVIOUS
<1>3. s \in Seq(D) /\ x \in D
  OBVIOUS
<1>4. Append(s, x) \in Seq(D)
  BY <1>3, AppendProperties
<1> HIDE DEF D, h
<1>5. ASSUME NEW q \in Seq(D) PROVE Weighed(q) = Image(h, q)
  <2>1. \A k \in DOMAIN q : q[k] \in D
    BY LenProperties, ElementOfSeq
  <2> QED BY <1>2, <2>1 DEF Weighed, Image
<1>6. /\ Image(h, s) \in Seq(Int) /\ Len(Image(h, s)) = Len(s)
      /\ Image(h, Append(s, x)) = Append(Image(h, s), h[x])
  BY <1>1, <1>3, ImageAppend
<1>7. Weighed(s) = Image(h, s) /\ Weighed(Append(s, x)) = Image(h, Append(s, x))
  BY <1>3, <1>4, <1>5
<1> QED BY <1>1, <1>6, <1>7

(* What an entry more, and the removal of all entries to v, leave in a list. *)
LEMMA ListAppended ==
  ASSUME NEW V, NEW s \in Seq(Into(V)), NEW v \in V, NEW w \in Int, NEW X
  PROVE  /\ Append(s, <<v, w>>) \in Seq(Into(V))
         /\ Within(Append(s, <<v, w>>), Into(X))
              = IF v \in X THEN Append(Within(s, Into(X)), <<v, w>>) ELSE Within(s, Into(X))
<1> DEFINE x == <<v, w>>
           I == Into(X)
<1>1. x \in Into(V) /\ (x \in I <=> v \in X)
  BY DEF Into
<1> HIDE DEF x, I
<1>2. Within(Append(s, x), I) = IF x \in I THEN Append(Within(s, I), x) ELSE Within(s, I)
  BY <1>1, WithinAppend
<1>3. Append(s, x) \in Seq(Into(V))
  BY <1>1, AppendProperties
<1> QED BY <1>1, <1>2, <1>3 DEF x, I

Leaves(V, s, v, X) ==
  /\ Within(s, Into(V \ {v})) \in Seq(Into(V))
  /\ v \notin X => Within(Within(s, Into(V \ {v})), Into(X)) = Within(s, Into(X))
  /\ v \in X => Len(Within(s, Into(X)))
                  = Len(Within(Within(s, Into(V \ {v})), Into(X))) + Len(Within(s, Into({v})))
  /\ X = {v} => Within(Within(s, Into(V \ {v})), Into(X)) = <<>>

LEMMA ListRemoved ==
  ASSUME NEW V, NEW s \in Seq(Into(V)), NEW v \in V, NEW X
  PROVE  Leaves(V, s, v, X)
<1> DEFINE R == Into(V \ {v})
           I == Into(X)
           J == Into({v})
<1>1. Within(s, R) \in Seq(Into(V))
  BY WithinType
<1>2. Within(Within(s, R), I) = Within(s, R \cap I)
  <2> HIDE DEF R, I
  <2> QED BY WithinTwice
<1>3. ASSUME v \notin X PROVE Within(s, R \cap I) = Within(s, I)
  <2>1. \A x \in Into(V) : x \in R \cap I <=> x \in I
    BY <1>3 DEF Into
  <2> HIDE DEF R, I
  <2> QED BY <2>1, WithinSame
<1>4. ASSUME v \in X PROVE Len(Within(s, I)) = Len(Within(s, R \cap I)) + Len(Within(s, J))
  <2>1. (R \cap I) \cap J = {}
    BY DEF Into
  <2>2. \A x \in Into(V) : x \in I <=> x \in (R \cap I) \cup J
    BY <1>4 DEF Into
  <2> DEFINE K == R \cap I
             L == (R \cap I) \cup J
  <2> HIDE DEF I, J, L
  <2>3. Within(s, I) = Within(s, L)
    <3>1. \A x \in Into(V) : x \in I <=> x \in L
      BY <2>2 DEF L
    <3> QED BY <3>1, WithinSame
  <2> HIDE DEF K
  <2>4. Len(Within(s, K \cup J)) = Len(Within(s, K)) + Len(Within(s, J))
    BY <2>1, WithinSplit DEF K
  <2> QED BY <2>3, <2>4 DEF L, K
<1>5. ASSUME X = {v} PROVE Within(s, R \cap I) = <<>>
  <2>1. \A x \in Into(V) : x \notin R \cap I
    BY <1>5 DEF Into
  <2> HIDE DEF R, I
  <2> QED BY <2>1, WithinNone
<1> QED BY <1>1, <1>2, <1>3, <1>4, <1>5 DEF Leaves

-----------------------------------------------------------------------------
(* edges() *)

Typed == /\ shape \in Shapes /\ n_edges \in Int
         /\ adj \in [Vertex -> Seq(Into(Vertex))]

(* The vertices an entry of u has to lead to for edges() to list it. *)
Beyond(u) == IF directed THEN Vertex ELSE u .. n - 1

Blocks == [i \in 1 .. n |-> Arcs(i - 1, Outgoing(i - 1))]

LEMMA ShapeIs ==
  ASSUME shape \in Shapes
  PROVE  n \in Nat /\ directed \in BOOLEAN
  BY ShapesAssumption DEF n, directed

LEMMA BlocksAre ==
  ASSUME Typed
  PROVE  /\ Blocks \in Seq(Seq(ArcsOver(Vertex))) /\ Len(Blocks) = n
         /\ edges = FlattenSeq(Blocks)
         /\ \A u \in Vertex :
              /\ u + 1 \in 1 .. n /\ Blocks[u + 1] = Arcs(u, Outgoing(u))
              /\ Outgoing(u) = Within(adj[u], Into(Beyond(u)))
              /\ Outgoing(u) \in Seq(Into(Vertex))
              /\ Len(Arcs(u, Outgoing(u))) = Len(Outgoing(u)) /\ Len(Outgoing(u)) \in Nat
<1>1. n \in Nat /\ shape \in Shapes
  BY ShapeIs DEF Typed
<1>2. ASSUME NEW u \in Vertex
      PROVE  /\ Outgoing(u) = Within(adj[u], Into(Beyond(u)))
             /\ Outgoing(u) \in Seq(Into(Vertex))
             /\ Arcs(u, Outgoing(u)) \in Seq(ArcsOver(Vertex))
             /\ Len(Arcs(u, Outgoing(u))) = Len(Outgoing(u)) /\ Len(Outgoing(u)) \in Nat
  <2>1. adj[u] \in Seq(Into(Vertex))
    BY DEF Typed
  <2>2. Outgoing(u) = Within(adj[u], Into(Beyond(u)))
    BY DEF Outgoing, Beyond
  <2>3. Outgoing(u) \in Seq(Into(Vertex))
    BY <2>1, <2>2, WithinType
  <2>4. <<u, 0>> \in Into(Vertex)
    BY DEF Into
  <2>5. /\ Arcs(u, Outgoing(u)) \in Seq(ArcsOver(Vertex))
        /\ Len(Arcs(u, Outgoing(u))) = Len(Outgoing(u))
    BY <2>3, <2>4, ArcsAppend
  <2> QED BY <2>2, <2>3, <2>5, LenProperties
<1>3. \A i \in 1 .. n : i - 1 \in Vertex
  BY <1>1 DEF Vertex
<1>4. \A u \in Vertex : u + 1 \in 1 .. n /\ (u + 1) - 1 = u
  BY <1>1 DEF Vertex
<1>5. Blocks \in [1 .. n -> Seq(ArcsOver(Vertex))]
  BY <1>2, <1>3 DEF Blocks
<1>6. Blocks \in Seq(Seq(ArcsOver(Vertex))) /\ Len(Blocks) = n
  BY <1>1, <1>5, ListOf
<1>7. edges = FlattenSeq(Blocks)
  BY DEF edges, Blocks, Arcs
<1>8. \A u \in Vertex : Blocks[u + 1] = Arcs(u, Outgoing(u))
  BY <1>4 DEF Blocks
<1> QED BY <1>2, <1>4, <1>6, <1>7, <1>8

(* Whatever the lists are, edges() lists every entry it has to list once. *)
LEMMA EdgesListed ==
  ASSUME Typed, NEW u \in Vertex, NEW v \in Vertex, v \in Beyond(u)
  PROVE  Len(Within(edges, ArcsOf(u, v))) = Len(Entries(adj, u, v))
<1>1. /\ Blocks \in Seq(Seq(ArcsOver(Vertex))) /\ Len(Blocks) = n /\ edges = FlattenSeq(Blocks)
      /\ u + 1 \in 1 .. n /\ Blocks[u + 1] = Arcs(u, Outgoing(u))
      /\ Outgoing(u) = Within(adj[u], Into(Beyond(u)))
  BY BlocksAre
<1>2. ASSUME NEW j \in 1 .. n, j # u + 1 PROVE Within(Blocks[j], ArcsOf(u, v)) = <<>>
  <2>1. j - 1 \in Vertex /\ j - 1 # u /\ (j - 1) + 1 = j
    BY <1>2, ShapeIs DEF Vertex, Typed
  <2> DEFINE x == j - 1
  <2>2. Blocks[j] = Arcs(x, Outgoing(x)) /\ Outgoing(x) \in Seq(Into(Vertex))
    BY <2>1, BlocksAre
  <2>3. x \in Vertex /\ x # u
    BY <2>1
  <2> HIDE DEF x
  <2> QED BY <2>2, <2>3, ArcsOther
<1>3. OnlyAt(u + 1, Blocks, ArcsOf(u, v))
  BY <1>1, <1>2 DEF OnlyAt
<1>4. Within(edges, ArcsOf(u, v)) = Within(Arcs(u, Outgoing(u)), ArcsOf(u, v))
  BY <1>1, <1>3, FlattenWithin
<1>5. Len(Within(Arcs(u, Outgoing(u)), ArcsOf(u, v))) = Len(Within(Outgoing(u), Into({v})))
  <2>1. Outgoing(u) \in Seq(Into(Vertex))
    BY BlocksAre
  <2> DEFINE s == Outgoing(u)
  <2> HIDE DEF s
  <2>2. Len(Within(Arcs(u, s), ArcsOf(u, v))) = Len(Within(s, Into({v})))
    BY <2>1, ArcsWithin DEF s
  <2> QED BY <2>2 DEF s
<1>6. Within(Outgoing(u), Into({v})) = Within(adj[u], Into(Beyond(u)) \cap Into({v}))
  <2> DEFINE s == adj[u]
             D == Into(Vertex)
             S == Into(Beyond(u))
             T == Into({v})
  <2>1. s \in Seq(D)
    BY DEF Typed
  <2>2. Outgoing(u) = Within(s, S)
    BY <1>1
  <2> HIDE DEF s, D, S, T
  <2>3. Within(Within(s, S), T) = Within(s, S \cap T)
    BY <2>1, WithinTwice
  <2> QED BY <2>2, <2>3 DEF s, S, T
<1>7. Within(adj[u], Into(Beyond(u)) \cap Into({v})) = Entries(adj, u, v)
  <2> DEFINE S == Into(Beyond(u)) \cap Into({v})
             T == Into({v})
  <2>1. \A x \in Into(Vertex) : x \in S <=> x \in T
    BY DEF Into
  <2> HIDE DEF S, T
  <2>2. Within(adj[u], S) = Within(adj[u], T)
    BY <2>1, WithinSame DEF Typed
  <2> QED BY <2>2 DEF S, T, Entries
<1> QED BY <1>4, <1>5, <1>6, <1>7

LEMMA BlocksLong ==
  Typed => (/\ Blocks \in Seq(Seq(ArcsOver(Vertex))) /\ Len(Blocks) = n
            /\ edges = FlattenSeq(Blocks)
            /\ \A x \in Vertex : Len(Blocks[x + 1]) = Len(Outgoing(x)))
  BY BlocksAre

(* Where one block of edges() gains or loses d edges, edges() does. *)
LEMMA EdgesLonger ==
  ASSUME Typed, Typed', shape' = shape, NEW u \in Vertex, NEW d \in Int,
         Len(Outgoing(u))' = Len(Outgoing(u)) + d,
         \A x \in Vertex : x # u => Len(Outgoing(x))' = Len(Outgoing(x))
  PROVE  Len(edges)' = Len(edges) + d
<1>1. n' = n /\ Vertex' = Vertex /\ n \in Nat
  BY ShapeIs DEF n, Vertex, Typed
<1>2. /\ Blocks \in Seq(Seq(ArcsOver(Vertex))) /\ Len(Blocks) = n /\ edges = FlattenSeq(Blocks)
      /\ \A x \in Vertex : Len(Blocks[x + 1]) = Len(Outgoing(x))
  BY BlocksAre
<1>3. /\ Blocks' \in Seq(Seq(ArcsOver(Vertex))) /\ Len(Blocks') = n /\ edges' = FlattenSeq(Blocks')
      /\ \A x \in Vertex : Len(Blocks'[x + 1]) = Len(Outgoing(x))'
  <2>1. Typed' => (/\ Blocks \in Seq(Seq(ArcsOver(Vertex))) /\ Len(Blocks) = n
                   /\ edges = FlattenSeq(Blocks)
                   /\ \A x \in Vertex : Len(Blocks[x + 1]) = Len(Outgoing(x)))'
    BY BlocksLong, PTL
  <2> QED BY <1>1, <2>1
<1>4. ASSUME NEW j \in 1 .. n, j # u + 1 PROVE Len(Blocks'[j]) = Len(Blocks[j])
  <2>1. j - 1 \in Vertex /\ j - 1 # u /\ (j - 1) + 1 = j
    BY <1>1, <1>4 DEF Vertex
  <2> QED BY <1>2, <1>3, <2>1
<1>5. LongerAt(u + 1, d, Blocks, Blocks')
  <2>1. u + 1 \in 1 .. n
    BY <1>1 DEF Vertex
  <2> QED BY <1>2, <1>3, <1>4, <2>1 DEF LongerAt
<1>6. Len(FlattenSeq(Blocks')) = Len(FlattenSeq(Blocks)) + d
  BY <1>2, <1>3, <1>5, FlattenLonger
<1> QED BY <1>2, <1>3, <1>6

-----------------------------------------------------------------------------
(* The lists after add_edge *)

(* A list with one entry more, weights with one more; a list without the *)
(* entries to v, and the one of those to b.                              *)
More(s, v, w) == Append(s, <<v, w>>)
Heavier(q, w) == Append(q, w)
Rest(s, v) == Within(s, Into(Vertex \ {v}))
Of(s, b) == Within(s, Into({b}))

Lists == [Vertex -> Seq(Into(Vertex))]

(* One list changes, and another one after it. *)
LEMMA OneList ==
  ASSUME NEW g \in Lists, NEW u \in Vertex, NEW s \in Seq(Into(Vertex))
  PROVE  /\ [g EXCEPT ![u] = s] \in Lists /\ [g EXCEPT ![u] = s][u] = s
         /\ \A x \in Vertex : x # u => [g EXCEPT ![u] = s][x] = g[x]
<1> DEFINE D == Seq(Into(Vertex))
<1>1. g \in [Vertex -> D] /\ s \in D
  BY DEF Lists
<1> HIDE DEF D
<1>2. [g EXCEPT ![u] = s] \in [Vertex -> D]
  BY <1>1
<1>3. [g EXCEPT ![u] = s][u] = s /\ \A x \in Vertex : x # u => [g EXCEPT ![u] = s][x] = g[x]
  BY <1>1
<1> QED BY <1>2, <1>3 DEF Lists, D

LEMMA ListsAdded ==
  ASSUME NEW g \in Lists, NEW u \in Vertex, NEW v \in Vertex, NEW w \in Int
  PROVE  /\ Added(g, u, v, w) \in Lists
         /\ directed \/ u # v => Added(g, u, v, w)[u] = More(g[u], v, w)
         /\ ~directed /\ u # v => Added(g, u, v, w)[v] = More(g[v], u, w)
         /\ ~directed /\ u = v =>
              Added(g, u, v, w)[u] = More(More(g[u], u, w), u, w)
         /\ \A x \in Vertex : x # u /\ (directed \/ x # v) => Added(g, u, v, w)[x] = g[x]
<1> DEFINE s == More(g[u], v, w)
           one == [g EXCEPT ![u] = s]
           t == More(one[v], u, w)
           two == [one EXCEPT ![v] = t]
<1>1. \A x \in Vertex : \A y \in Vertex : \A q \in Seq(Into(Vertex)) :
        More(q, y, w) \in Seq(Into(Vertex))
  BY ListAppended DEF More
<1>2. s \in Seq(Into(Vertex))
  BY <1>1 DEF Lists
<1> HIDE DEF s
<1>3. one \in Lists /\ one[u] = s /\ \A x \in Vertex : x # u => one[x] = g[x]
  BY <1>2, OneList
<1> HIDE DEF one
<1>4. t \in Seq(Into(Vertex))
  BY <1>1, <1>3 DEF Lists
<1> HIDE DEF t
<1>5. two \in Lists /\ two[v] = t /\ \A x \in Vertex : x # v => two[x] = one[x]
  BY <1>3, <1>4, OneList
<1>6. Added(g, u, v, w) = IF directed THEN one ELSE two
  BY DEF Added, More, one, two, t, s
<1> HIDE DEF two
<1>7. CASE directed
  BY <1>3, <1>6, <1>7 DEF s
<1>8. CASE ~directed /\ u # v
  BY <1>3, <1>5, <1>6, <1>8 DEF s, t
<1>9. CASE ~directed /\ u = v
  BY <1>3, <1>5, <1>6, <1>9 DEF s, t
<1> QED BY <1>7, <1>8, <1>9

(* The lists after remove_edge *)
LEMMA ListsRemoved ==
  ASSUME NEW g \in Lists, NEW u \in Vertex, NEW v \in Vertex
  PROVE  /\ Removed(g, u, v) \in Lists
         /\ Removed(g, u, v)[u] = Rest(g[u], v)
         /\ ~directed => Removed(g, u, v)[v] = Rest(g[v], u)
         /\ \A x \in Vertex : x # u /\ (directed \/ x # v) => Removed(g, u, v)[x] = g[x]
<1> DEFINE s == Rest(g[u], v)
           one == [g EXCEPT ![u] = s]
           t == Rest(one[v], u)
           two == [one EXCEPT ![v] = t]
<1>1. \A q \in Seq(Into(Vertex)) : \A y \in Vertex :
        Rest(q, y) \in Seq(Into(Vertex))
  BY WithinType DEF Rest
<1>2. s \in Seq(Into(Vertex))
  BY <1>1 DEF Lists
<1>3. Rest(Rest(g[u], u), u) = Rest(g[u], u)
  <2> DEFINE q == g[u]
             D == Into(Vertex)
             S == Into(Vertex \ {u})
  <2>1. q \in Seq(D)
    BY DEF Lists
  <2> HIDE DEF q, D, S
  <2>2. Within(Within(q, S), S) = Within(q, S \cap S)
    BY <2>1, WithinTwice
  <2>3. S \cap S = S
    OBVIOUS
  <2> QED BY <2>2, <2>3 DEF q, S, Rest
<1> HIDE DEF s
<1>4. one \in Lists /\ one[u] = s /\ \A x \in Vertex : x # u => one[x] = g[x]
  BY <1>2, OneList
<1> HIDE DEF one
<1>5. t \in Seq(Into(Vertex))
  BY <1>1, <1>4 DEF Lists
<1> HIDE DEF t
<1>6. two \in Lists /\ two[v] = t /\ \A x \in Vertex : x # v => two[x] = one[x]
  BY <1>4, <1>5, OneList
<1>7. Removed(g, u, v) = IF directed THEN one ELSE two
  BY DEF Removed, Rest, one, two, t, s
<1> HIDE DEF two
<1>8. CASE directed
  BY <1>4, <1>7, <1>8 DEF s
<1>9. CASE ~directed /\ u # v
  BY <1>4, <1>6, <1>7, <1>9 DEF s, t
<1>10. CASE ~directed /\ u = v
  BY <1>4, <1>6, <1>7, <1>10, <1>3 DEF s, t
<1> QED BY <1>8, <1>9, <1>10

-----------------------------------------------------------------------------
(* The entries of an undirected graph come in pairs *)

(* What is appended to the weights of the entries to b. *)
LEMMA WeighedAppended ==
  ASSUME NEW s \in Seq(Into(Vertex)), NEW c \in Vertex, NEW w \in Int, NEW b
  PROVE  Weighed(Of(More(s, c, w), b))
           = IF c = b THEN Heavier(Weighed(Of(s, b)), w) ELSE Weighed(Of(s, b))
<1> DEFINE q == Of(s, b)
           x == <<c, w>>
<1>1. Of(Append(s, x), b) = IF c \in {b} THEN Append(q, x) ELSE q
  BY ListAppended DEF Of
<1>2. q \in Seq(Into(Vertex))
  BY WithinType DEF Of
<1>3. x \in Into(Vertex) /\ W(x) = w
  BY DEF Into, W
<1> HIDE DEF q, x
<1>4. Weighed(Append(q, x)) = Append(Weighed(q), w)
  BY <1>2, <1>3, WeighedAppend
<1>5. Weighed(Of(Append(s, x), b)) = IF c = b THEN Append(Weighed(q), w) ELSE Weighed(q)
  BY <1>1, <1>4
<1> QED BY <1>5 DEF q, x, More, Heavier

LEMMA RestOf ==
  ASSUME NEW s \in Seq(Into(Vertex)), NEW c \in Vertex, NEW b
  PROVE  Of(Rest(s, c), b) = IF c = b THEN <<>> ELSE Of(s, b)
<1> DEFINE X == {b}
<1>1. c \in X <=> c = b
  OBVIOUS
<1>2. X = {c} <=> c = b
  OBVIOUS
<1> HIDE DEF X
<1>3. Leaves(Vertex, s, c, X)
  BY ListRemoved
<1>4. /\ c \notin X => Within(Within(s, Into(Vertex \ {c})), Into(X)) = Within(s, Into(X))
      /\ X = {c} => Within(Within(s, Into(Vertex \ {c})), Into(X)) = <<>>
  BY <1>3 DEF Leaves
<1> QED BY <1>1, <1>2, <1>4 DEF X, Of, Rest

Ends(a, b, u, v) == {a, b} = {u, v}

LEMMA PairsAdded ==
  ASSUME NEW g \in Lists, NEW u \in Vertex, NEW v \in Vertex, NEW w \in Int, ~directed,
         NEW a \in Vertex, NEW b \in Vertex, a # b
  PROVE  Weighed(Entries(Added(g, u, v, w), a, b))
           = IF Ends(a, b, u, v) THEN Heavier(Weighed(Entries(g, a, b)), w)
                                  ELSE Weighed(Entries(g, a, b))
<1> DEFINE h == Added(g, u, v, w)
<1>1. /\ u # v => h[u] = More(g[u], v, w)
      /\ u # v => h[v] = More(g[v], u, w)
      /\ u = v => h[u] = More(More(g[u], u, w), u, w)
      /\ \A x \in Vertex : x # u /\ x # v => h[x] = g[x]
  BY ListsAdded
<1> HIDE DEF h
<1>2. g[a] \in Seq(Into(Vertex))
  BY DEF Lists
<1>3. Entries(h, a, b) = Of(h[a], b) /\ Entries(g, a, b) = Of(g[a], b)
  BY DEF Entries, Of
<1>4. \A s \in Seq(Into(Vertex)) : \A c \in Vertex :
        Weighed(Of(More(s, c, w), b))
          = IF c = b THEN Heavier(Weighed(Of(s, b)), w) ELSE Weighed(Of(s, b))
  BY WeighedAppended
<1>5. CASE u # v /\ a = u
  <2>1. Weighed(Of(h[a], b)) = IF v = b THEN Heavier(Weighed(Of(g[a], b)), w)
                                        ELSE Weighed(Of(g[a], b))
    BY <1>1, <1>2, <1>4, <1>5
  <2>2. Ends(a, b, u, v) <=> v = b
    BY <1>5 DEF Ends
  <2> QED BY <1>3, <2>1, <2>2 DEF h
<1>6. CASE u # v /\ a = v
  <2>1. Weighed(Of(h[a], b)) = IF u = b THEN Heavier(Weighed(Of(g[a], b)), w)
                                        ELSE Weighed(Of(g[a], b))
    BY <1>1, <1>2, <1>4, <1>6
  <2>2. Ends(a, b, u, v) <=> u = b
    BY <1>6 DEF Ends
  <2> QED BY <1>3, <2>1, <2>2 DEF h
<1>7. CASE u = v /\ a = u
  <2>1. More(g[a], u, w) \in Seq(Into(Vertex))
    BY <1>2, ListAppended DEF More
  <2>2. Weighed(Of(More(More(g[a], u, w), u, w), b))
          = Weighed(Of(More(g[a], u, w), b))
    BY <1>4, <1>7, <2>1
  <2>3. Weighed(Of(More(g[a], u, w), b)) = Weighed(Of(g[a], b))
    BY <1>2, <1>4, <1>7
  <2>4. ~Ends(a, b, u, v)
    BY <1>7 DEF Ends
  <2>5. Weighed(Of(h[a], b)) = Weighed(Of(g[a], b))
    BY <1>1, <1>7, <2>2, <2>3
  <2> QED BY <1>3, <2>4, <2>5 DEF h
<1>8. CASE a # u /\ a # v
  <2>1. ~Ends(a, b, u, v) /\ h[a] = g[a]
    BY <1>1, <1>8 DEF Ends
  <2> QED BY <1>3, <2>1 DEF h
<1> QED BY <1>5, <1>6, <1>7, <1>8

LEMMA PairsRemoved ==
  ASSUME NEW g \in Lists, NEW u \in Vertex, NEW v \in Vertex, ~directed,
         NEW a \in Vertex, NEW b \in Vertex, a # b
  PROVE  Entries(Removed(g, u, v), a, b) = IF Ends(a, b, u, v) THEN <<>> ELSE Entries(g, a, b)
<1> DEFINE h == Removed(g, u, v)
<1>1. /\ h[u] = Rest(g[u], v) /\ h[v] = Rest(g[v], u)
      /\ \A x \in Vertex : x # u /\ x # v => h[x] = g[x]
  BY ListsRemoved
<1> HIDE DEF h
<1>2. g[a] \in Seq(Into(Vertex))
  BY DEF Lists
<1>3. Entries(h, a, b) = Of(h[a], b) /\ Entries(g, a, b) = Of(g[a], b)
  BY DEF Entries, Of
<1>4. \A s \in Seq(Into(Vertex)) : \A c \in Vertex :
        Of(Rest(s, c), b) = IF c = b THEN <<>> ELSE Of(s, b)
  BY RestOf
<1>5. CASE a = u
  <2>1. Ends(a, b, u, v) <=> v = b
    BY <1>5 DEF Ends
  <2>2. Of(h[a], b) = IF v = b THEN <<>> ELSE Of(g[a], b)
    BY <1>1, <1>2, <1>4, <1>5
  <2> QED BY <1>3, <2>1, <2>2 DEF h
<1>6. CASE a = v
  <2>1. Ends(a, b, u, v) <=> u = b
    BY <1>6 DEF Ends
  <2>2. Of(h[a], b) = IF u = b THEN <<>> ELSE Of(g[a], b)
    BY <1>1, <1>2, <1>4, <1>6
  <2> QED BY <1>3, <2>1, <2>2 DEF h
<1>7. CASE a # u /\ a # v
  <2>1. ~Ends(a, b, u, v) /\ h[a] = g[a]
    BY <1>1, <1>7 DEF Ends
  <2> QED BY <1>3, <2>1 DEF h
<1> QED BY <1>5, <1>6, <1>7

-----------------------------------------------------------------------------
(* The counter of edges *)

LEMMA OutgoingIs ==
  ASSUME shape' = shape, NEW a
  PROVE  /\ Outgoing(a)' = Within(adj'[a], Into(Beyond(a)))
         /\ Outgoing(a) = Within(adj[a], Into(Beyond(a)))
  BY DEF Outgoing, Beyond, directed, n, Vertex

LEMMA BeyondIs ==
  ASSUME Typed, NEW a \in Vertex, NEW b \in Vertex
  PROVE  (b \in Beyond(a)) = (directed \/ a <= b)
  BY ShapeIs DEF Beyond, Vertex, Typed

LEMMA OutgoingMore ==
  ASSUME Typed, shape' = shape, NEW a \in Vertex, NEW b \in Vertex, NEW w \in Int,
         adj'[a] = More(adj[a], b, w)
  PROVE  Len(Outgoing(a))' = IF directed \/ a <= b THEN Len(Outgoing(a)) + 1 ELSE Len(Outgoing(a))
<1> DEFINE s == adj[a]
           D == Into(Vertex)
           I == Into(Beyond(a))
           x == <<b, w>>
           X == Beyond(a)
<1>1. s \in Seq(D) /\ x \in D
  BY DEF Typed, Into
<1>2. x \in I <=> directed \/ a <= b
  BY BeyondIs DEF Into
<1>3. Outgoing(a)' = Within(Append(s, x), I) /\ Outgoing(a) = Within(s, I)
  BY OutgoingIs DEF More
<1> HIDE DEF s, D, I, x
<1>4. Within(Append(s, x), I) = IF x \in I THEN Append(Within(s, I), x) ELSE Within(s, I)
  BY <1>1, WithinAppend
<1>5. Within(s, I) \in Seq(D)
  BY <1>1, WithinType
<1>6. Len(Append(Within(s, I), x)) = Len(Within(s, I)) + 1
  BY <1>1, <1>5, AppendProperties
<1> QED BY <1>2, <1>3, <1>4, <1>6

LEMMA OutgoingRest ==
  ASSUME Typed, shape' = shape, NEW a \in Vertex, NEW b \in Vertex,
         adj'[a] = Rest(adj[a], b), Len(Entries(adj, a, b)) = 1
  PROVE  Len(Outgoing(a))' = IF directed \/ a <= b THEN Len(Outgoing(a)) - 1 ELSE Len(Outgoing(a))
<1> DEFINE s == adj[a]
           X == Beyond(a)
<1>1. s \in Seq(Into(Vertex))
  BY DEF Typed
<1>2. b \in X <=> directed \/ a <= b
  BY BeyondIs
<1>3. /\ Outgoing(a)' = Within(Within(s, Into(Vertex \ {b})), Into(X))
      /\ Outgoing(a) = Within(s, Into(X))
  BY OutgoingIs DEF Rest
<1>4. Len(Within(s, Into({b}))) = 1
  BY DEF Entries
<1> HIDE DEF s, X
<1>5. Leaves(Vertex, s, b, X)
  BY <1>1, ListRemoved
<1>6. Within(Within(s, Into(Vertex \ {b})), Into(X)) \in Seq(Into(Vertex))
  BY <1>1, WithinType
<1>7. Len(Within(Within(s, Into(Vertex \ {b})), Into(X))) \in Nat
  <2> DEFINE q == Within(Within(s, Into(Vertex \ {b})), Into(X))
             D == Into(Vertex)
  <2> HIDE DEF q, D
  <2> QED BY <1>6, LenProperties DEF q, D
<1>8. CASE b \in X
  <2> DEFINE q == Within(Within(s, Into(Vertex \ {b})), Into(X))
             p == Within(s, Into(X))
  <2>1. Len(p) = Len(q) + 1
    BY <1>4, <1>5, <1>8 DEF Leaves
  <2>2. Len(q) \in Nat /\ Outgoing(a)' = q /\ Outgoing(a) = p
    BY <1>3, <1>7
  <2> HIDE DEF q, p
  <2>3. Len(q) = Len(p) - 1
    BY <2>1, <2>2
  <2> QED BY <1>2, <1>8, <2>2, <2>3
<1>9. CASE b \notin X
  BY <1>2, <1>3, <1>5, <1>9 DEF Leaves
<1> QED BY <1>8, <1>9

LEMMA OutgoingSame ==
  ASSUME shape' = shape, NEW a, adj'[a] = adj[a]
  PROVE  Len(Outgoing(a))' = Len(Outgoing(a))
  BY OutgoingIs

LEMMA CountOfEdges ==
  ASSUME Typed PROVE Len(edges) \in Int
<1>1. edges \in Seq(ArcsOver(Vertex))
  BY BlocksAre, FlattenType
<1> QED BY <1>1, LenProperties

(* edges() has one edge more after add_edge, unless a loop is listed twice. *)
LEMMA EdgesAdded ==
  ASSUME Typed, Typed', shape' = shape, NEW u \in Vertex, NEW v \in Vertex, NEW w \in Int,
         adj' = Added(adj, u, v, w), directed \/ u # v
  PROVE  Len(edges)' = Len(edges) + 1
<1>1. adj \in Lists
  BY DEF Typed, Lists
<1>2. u \in Int /\ v \in Int /\ 1 \in Int
  BY ShapeIs DEF Vertex, Typed
<1>3. /\ adj'[u] = More(adj[u], v, w)
      /\ ~directed => adj'[v] = More(adj[v], u, w)
      /\ \A x \in Vertex : x # u /\ (directed \/ x # v) => adj'[x] = adj[x]
  BY <1>1, ListsAdded
<1>4. Len(Outgoing(u))' = IF directed \/ u <= v THEN Len(Outgoing(u)) + 1 ELSE Len(Outgoing(u))
  BY <1>3, OutgoingMore
<1>5. ~directed => Len(Outgoing(v))' = IF v <= u THEN Len(Outgoing(v)) + 1 ELSE Len(Outgoing(v))
  BY <1>3, OutgoingMore
<1>6. \A x \in Vertex : x # u /\ (directed \/ x # v) => Len(Outgoing(x))' = Len(Outgoing(x))
  BY <1>3, OutgoingSame
<1>7. CASE directed \/ u < v
  <2>1. Len(Outgoing(u))' = Len(Outgoing(u)) + 1
    BY <1>2, <1>4, <1>7
  <2>2. \A x \in Vertex : x # u => Len(Outgoing(x))' = Len(Outgoing(x))
    BY <1>2, <1>5, <1>6, <1>7
  <2> QED BY <1>2, <2>1, <2>2, EdgesLonger
<1>8. CASE ~directed /\ v < u
  <2>1. Len(Outgoing(v))' = Len(Outgoing(v)) + 1
    BY <1>2, <1>5, <1>8
  <2>2. \A x \in Vertex : x # v => Len(Outgoing(x))' = Len(Outgoing(x))
    BY <1>2, <1>4, <1>6, <1>8
  <2> QED BY <1>2, <2>1, <2>2, EdgesLonger
<1> QED BY <1>2, <1>7, <1>8

(* It has one edge less when the pair had one entry at each end. *)
LEMMA EdgesRemoved ==
  ASSUME Typed, Typed', shape' = shape, NEW u \in Vertex, NEW v \in Vertex,
         adj' = Removed(adj, u, v), Len(Entries(adj, u, v)) = 1,
         ~directed => Len(Entries(adj, v, u)) = 1
  PROVE  Len(edges)' = Len(edges) - 1
<1>1. adj \in Lists
  BY DEF Typed, Lists
<1>2. u \in Int /\ v \in Int /\ -1 \in Int
  BY ShapeIs DEF Vertex, Typed
<1>3. /\ adj'[u] = Rest(adj[u], v)
      /\ ~directed => adj'[v] = Rest(adj[v], u)
      /\ \A x \in Vertex : x # u /\ (directed \/ x # v) => adj'[x] = adj[x]
  <2>1. /\ Removed(adj, u, v)[u] = Rest(adj[u], v)
        /\ ~directed => Removed(adj, u, v)[v] = Rest(adj[v], u)
        /\ \A x \in Vertex : x # u /\ (directed \/ x # v) => Removed(adj, u, v)[x] = adj[x]
    BY <1>1, ListsRemoved
  <2> QED BY <2>1
<1>4. Len(Outgoing(u))' = IF directed \/ u <= v THEN Len(Outgoing(u)) - 1 ELSE Len(Outgoing(u))
  BY <1>3, OutgoingRest
<1>5. ~directed => Len(Outgoing(v))' = IF v <= u THEN Len(Outgoing(v)) - 1 ELSE Len(Outgoing(v))
  BY <1>3, OutgoingRest
<1>6. \A x \in Vertex : x # u /\ (directed \/ x # v) => Len(Outgoing(x))' = Len(Outgoing(x))
  BY <1>3, OutgoingSame
<1>7. Len(edges) \in Int
  BY CountOfEdges
<1>8. CASE directed \/ u <= v
  <2>1. Len(Outgoing(u))' = Len(Outgoing(u)) + (-1)
    BY <1>2, <1>4, <1>8, BlocksAre
  <2>2. \A x \in Vertex : x # u => Len(Outgoing(x))' = Len(Outgoing(x))
    BY <1>2, <1>5, <1>6, <1>8
  <2>3. Len(edges)' = Len(edges) + (-1)
    BY <1>2, <2>1, <2>2, EdgesLonger
  <2> QED BY <1>7, <2>3
<1>9. CASE ~directed /\ v < u
  <2>1. Len(Outgoing(v))' = Len(Outgoing(v)) + (-1)
    BY <1>2, <1>5, <1>9, BlocksAre
  <2>2. \A x \in Vertex : x # v => Len(Outgoing(x))' = Len(Outgoing(x))
    BY <1>2, <1>4, <1>6, <1>9
  <2>3. Len(edges)' = Len(edges) + (-1)
    BY <1>2, <2>1, <2>2, EdgesLonger
  <2> QED BY <1>7, <2>3
<1> QED BY <1>2, <1>8, <1>9

-----------------------------------------------------------------------------
(* The invariant *)

Pairs == ~directed => \A a, b \in Vertex :
  a # b => Weighed(Entries(adj, a, b)) = Weighed(Entries(adj, b, a))
Counted == (~irregular /\ (directed \/ ~shape.loops)) => n_edges = Len(edges)
GraphInv == Typed /\ Pairs /\ Counted

LEMMA InitInv == Init => GraphInv
<1> SUFFICES ASSUME Init PROVE GraphInv
  OBVIOUS
<1>1. shape \in Shapes /\ n \in Nat
  BY ShapeIs DEF Init
<1>2. \A v \in Vertex : adj[v] = <<>>
  BY DEF Init
<1>3. Typed
  <2> DEFINE D == Into(Vertex)
  <2> HIDE DEF D
  <2>1. <<>> \in Seq(D)
    BY EmptySeq
  <2>2. adj \in [Vertex -> Seq(D)]
    BY <2>1 DEF Init
  <2> QED BY <1>1, <2>2 DEF Typed, D, Init
<1>4. Pairs
  <2>1. \A a, b \in Vertex : Entries(adj, a, b) = <<>>
    BY <1>2, WithinEmpty DEF Entries
  <2> QED BY <2>1 DEF Pairs
<1>5. Len(edges) = 0
  <2>1. /\ Blocks \in Seq(Seq(ArcsOver(Vertex))) /\ Len(Blocks) = n /\ edges = FlattenSeq(Blocks)
        /\ \A u \in Vertex : Len(Blocks[u + 1]) = Len(Outgoing(u))
    BY <1>3, BlocksLong
  <2>2. \A u \in Vertex : Len(Outgoing(u)) = 0
    <3>1. \A u \in Vertex : Outgoing(u) = <<>>
      BY <1>2, WithinEmpty DEF Outgoing
    <3> QED BY <3>1
  <2>3. \A i \in 1 .. n : Blocks[i] = <<>>
    <3> TAKE i \in 1 .. n
    <3>1. i - 1 \in Vertex /\ (i - 1) + 1 = i
      BY <1>1 DEF Vertex
    <3>2. Len(Blocks[i]) = 0
      BY <2>1, <2>2, <3>1
    <3>3. Blocks[i] \in Seq(ArcsOver(Vertex))
      BY <2>1, ElementOfSeq
    <3> QED BY <3>2, <3>3, EmptySeq
  <2>4. FlattenSeq(Blocks) = <<>>
    BY <2>1, <2>3, FlattenEmpty
  <2> QED BY <2>1, <2>4
<1> QED BY <1>3, <1>4, <1>5 DEF GraphInv, Counted, Init

(* shape' = shape, and the new lists are lists. *)
LEMMA TypedAgain ==
  ASSUME Typed, shape' = shape, adj' \in Lists, n_edges' \in Int
  PROVE  Typed'
  BY DEF Typed, Lists, Vertex, n

LEMMA AddInv ==
  ASSUME GraphInv, NEW u \in Vertex, NEW v \in Vertex,
         NEW weight \in Weights(shape.pattern, u, v), add_edge(u, v, weight)
  PROVE  GraphInv'
<1> DEFINE w == weight + Len(Entries(adj, u, v))
<1>1. /\ Typed /\ Pairs /\ Counted /\ shape' = shape /\ adj' = Added(adj, u, v, w)
      /\ n_edges' = n_edges + 1 /\ ~irregular /\ irregular' = irregular
      /\ u # v \/ shape.loops
  BY DEF GraphInv, add_edge
<1>2. adj \in Lists /\ n_edges \in Int /\ shape \in Shapes
  BY <1>1 DEF Typed, Lists
<1>3. w \in Int
  <2>1. weight \in Int
    BY <1>2, WeightsAssumption DEF Vertex, n
  <2>2. adj[u] \in Seq(Into(Vertex))
    BY <1>2 DEF Lists
  <2>3. Entries(adj, u, v) \in Seq(Into(Vertex))
    BY <2>2, WithinType DEF Entries
  <2>4. Len(Entries(adj, u, v)) \in Nat
    <3> DEFINE D == Into(Vertex)
    <3> HIDE DEF D
    <3>1. Entries(adj, u, v) \in Seq(D)
      BY <2>3 DEF D
    <3> QED BY <3>1, LenProperties
  <2> QED BY <2>1, <2>4
<1> HIDE DEF w
<1>4. Typed'
  <2>1. Added(adj, u, v, w) \in Lists
    BY <1>2, <1>3, ListsAdded
  <2>2. adj' \in Lists /\ n_edges' \in Int
    BY <1>1, <1>2, <2>1
  <2> QED BY <1>1, <2>2, TypedAgain
<1>5. Pairs'
  <2>1. directed' = directed /\ Vertex' = Vertex
    BY <1>1 DEF directed, Vertex, n
  <2>2. ASSUME ~directed, NEW a \in Vertex, NEW b \in Vertex, a # b
        PROVE  Weighed(Entries(adj', a, b)) = Weighed(Entries(adj', b, a))
    <3> DEFINE h == Added(adj, u, v, w)
               p == Weighed(Entries(adj, a, b))
               q == Weighed(Entries(adj, b, a))
    <3>1. Weighed(Entries(h, a, b)) = IF Ends(a, b, u, v) THEN Heavier(p, w) ELSE p
      BY <1>2, <1>3, <2>2, PairsAdded
    <3>2. b # a
      BY <2>2
    <3>3. Weighed(Entries(h, b, a)) = IF Ends(b, a, u, v) THEN Heavier(q, w) ELSE q
      BY <1>2, <1>3, <2>2, <3>2, PairsAdded
    <3>4. p = q
      BY <1>1, <2>2 DEF Pairs
    <3>5. Ends(a, b, u, v) <=> Ends(b, a, u, v)
      BY DEF Ends
    <3> HIDE DEF h, p, q
    <3>6. Weighed(Entries(h, a, b)) = Weighed(Entries(h, b, a))
      BY <3>1, <3>3, <3>4, <3>5
    <3> QED BY <1>1, <3>6 DEF h
  <2>3. (~directed)' => \A a, b \in Vertex :
          a # b => Weighed(Entries(adj', a, b)) = Weighed(Entries(adj', b, a))
    BY <2>1, <2>2
  <2> QED BY <2>1, <2>3 DEF Pairs, Weighed, Entries
<1>6. Counted'
  <2>1. directed' = directed
    BY <1>1 DEF directed
  <2>2. ASSUME directed \/ ~shape.loops PROVE n_edges' = Len(edges)'
    <3>1. n_edges = Len(edges)
      BY <1>1, <2>2 DEF Counted
    <3>2. directed \/ u # v
      BY <1>1, <2>2
    <3>3. Len(edges)' = Len(edges) + 1
      BY <1>1, <1>3, <1>4, <3>2, EdgesAdded
    <3> QED BY <1>1, <3>1, <3>3
  <2> QED BY <1>1, <2>1, <2>2 DEF Counted
<1> QED BY <1>4, <1>5, <1>6 DEF GraphInv

(* The entries at the two ends of a pair have as many weights. *)
LEMMA PairsAlike ==
  ASSUME Typed, Pairs, ~directed, NEW a \in Vertex, NEW b \in Vertex
  PROVE  Len(Entries(adj, a, b)) = Len(Entries(adj, b, a))
<1>1. ASSUME NEW x \in Vertex, NEW y \in Vertex
      PROVE  Len(Weighed(Entries(adj, x, y))) = Len(Entries(adj, x, y))
  <2>1. adj[x] \in Seq(Into(Vertex))
    BY DEF Typed
  <2>2. Entries(adj, x, y) \in Seq(Into(Vertex))
    BY <2>1, WithinType DEF Entries
  <2>3. <<x, 0>> \in Into(Vertex)
    BY DEF Into
  <2> QED BY <2>2, <2>3, WeighedAppend
<1>2. CASE a = b
  BY <1>2
<1>3. CASE a # b
  <2>1. Weighed(Entries(adj, a, b)) = Weighed(Entries(adj, b, a))
    BY <1>3 DEF Pairs
  <2> QED BY <1>1, <2>1
<1> QED BY <1>2, <1>3

LEMMA RemoveInv ==
  ASSUME GraphInv, NEW u \in Vertex, NEW v \in Vertex, remove_edge(u, v)
  PROVE  GraphInv'
<1>1. /\ Typed /\ Pairs /\ Counted /\ shape' = shape /\ adj' = Removed(adj, u, v)
      /\ n_edges' = n_edges - 1 /\ ~irregular
      /\ irregular' = (Len(Entries(adj, u, v)) # 1)
  BY DEF GraphInv, remove_edge
<1>2. adj \in Lists /\ n_edges \in Int
  BY <1>1 DEF Typed, Lists
<1>3. Typed'
  <2>1. Removed(adj, u, v) \in Lists
    BY <1>2, ListsRemoved
  <2>2. adj' \in Lists /\ n_edges' \in Int
    BY <1>1, <1>2, <2>1
  <2> QED BY <1>1, <2>2, TypedAgain
<1>4. Pairs'
  <2>1. directed' = directed /\ Vertex' = Vertex
    BY <1>1 DEF directed, Vertex, n
  <2>2. ASSUME ~directed, NEW a \in Vertex, NEW b \in Vertex, a # b
        PROVE  Weighed(Entries(adj', a, b)) = Weighed(Entries(adj', b, a))
    <3> DEFINE h == Removed(adj, u, v)
               p == Entries(adj, a, b)
               q == Entries(adj, b, a)
    <3>1. Entries(h, a, b) = IF Ends(a, b, u, v) THEN <<>> ELSE p
      BY <1>2, <2>2, PairsRemoved
    <3>2. b # a
      BY <2>2
    <3>3. Entries(h, b, a) = IF Ends(b, a, u, v) THEN <<>> ELSE q
      BY <1>2, <2>2, <3>2, PairsRemoved
    <3>4. Weighed(p) = Weighed(q)
      BY <1>1, <2>2 DEF Pairs
    <3>5. Ends(a, b, u, v) <=> Ends(b, a, u, v)
      BY DEF Ends
    <3> HIDE DEF h, p, q
    <3>6. Weighed(Entries(h, a, b)) = Weighed(Entries(h, b, a))
      BY <3>1, <3>3, <3>4, <3>5
    <3> QED BY <1>1, <3>6 DEF h
  <2>3. (~directed)' => \A a, b \in Vertex :
          a # b => Weighed(Entries(adj', a, b)) = Weighed(Entries(adj', b, a))
    BY <2>1, <2>2
  <2> QED BY <2>1, <2>3 DEF Pairs, Weighed, Entries
<1>5. Counted'
  <2>1. directed' = directed
    BY <1>1 DEF directed
  <2>2. ASSUME ~irregular', directed \/ ~shape.loops PROVE n_edges' = Len(edges)'
    <3>1. n_edges = Len(edges)
      BY <1>1, <2>2 DEF Counted
    <3>2. Len(Entries(adj, u, v)) = 1
      BY <1>1, <2>2
    <3>3. ~directed => Len(Entries(adj, v, u)) = 1
      BY <1>1, <3>2, PairsAlike
    <3>4. Len(edges)' = Len(edges) - 1
      BY <1>1, <1>3, <3>2, <3>3, EdgesRemoved
    <3> QED BY <1>1, <3>1, <3>4
  <2> QED BY <1>1, <2>1, <2>2 DEF Counted
<1> QED BY <1>3, <1>4, <1>5 DEF GraphInv

LEMMA InvGivesKept == GraphInv => GraphKept
<1> SUFFICES ASSUME GraphInv PROVE GraphKept
  OBVIOUS
<1>1. Typed /\ Pairs /\ Counted
  BY DEF GraphInv
<1>2. \A v \in Vertex : adj[v] \in Seq(Vertex \X Int)
  BY <1>1 DEF Typed, Into
<1>3. ASSUME NEW u \in Vertex, NEW v \in Vertex, directed \/ u < v
      PROVE  Len(Entries(adj, u, v)) = Len(Within(edges, ArcsOf(u, v)))
  <2>1. u \in Int /\ v \in Int
    BY <1>1, ShapeIs DEF Vertex, Typed
  <2>2. directed \/ u <= v
    BY <1>3, <2>1
  <2>3. v \in Beyond(u)
    BY <1>1, <2>2, BeyondIs
  <2> QED BY <1>1, <2>3, EdgesListed
<1>4. \A u, v \in Vertex : (directed \/ u < v) =>
        Len(Entries(adj, u, v)) = Len(Within(edges, [from : {u}, to : {v}, weight : Int]))
  BY <1>3 DEF ArcsOf
<1>5. ~directed => \A u, v \in Vertex :
        u # v => [k \in DOMAIN Entries(adj, u, v) |-> W(Entries(adj, u, v)[k])]
                 = [k \in DOMAIN Entries(adj, v, u) |-> W(Entries(adj, v, u)[k])]
  BY <1>1, Zenon DEF Pairs, Weighed
<1> QED BY <1>1, <1>2, <1>4, <1>5 DEF GraphKept, Counted

(* The class Graph keeps its lists, edges() and its counter in agreement   *)
(* whatever edges are added and removed, on graphs of any size.            *)
THEOREM GraphCorrect == Spec => []GraphKept
<1>1. Init => GraphInv
  BY InitInv
<1>2. GraphInv /\ [Next]_vars => GraphInv'
  <2> SUFFICES ASSUME GraphInv, [Next]_vars PROVE GraphInv'
    OBVIOUS
  <2>1. CASE Next
    <3>1. PICK u \in Vertex, v \in Vertex :
            \/ \E weight \in Weights(shape.pattern, u, v) : add_edge(u, v, weight)
            \/ remove_edge(u, v)
      BY <2>1 DEF Next
    <3> QED BY <3>1, AddInv, RemoveInv
  <2>2. CASE UNCHANGED vars
    <3>1. shape' = shape /\ adj' = adj /\ n_edges' = n_edges /\ irregular' = irregular
      BY <2>2 DEF vars
    <3>2. directed' = directed /\ n' = n /\ Vertex' = Vertex
      BY <3>1 DEF directed, n, Vertex
    <3>3. Typed'
      BY <3>1, <3>2 DEF GraphInv, Typed
    <3>4. Pairs'
      BY <3>1, <3>2 DEF GraphInv, Pairs
    <3>5. Counted'
      BY <3>1, <3>2 DEF GraphInv, Counted, edges, Outgoing
    <3> QED BY <3>3, <3>4, <3>5 DEF GraphInv
  <2> QED BY <2>1, <2>2
<1>3. GraphInv => GraphKept
  BY InvGivesKept
<1> QED BY <1>1, <1>2, <1>3, PTL DEF Spec

=============================================================================
