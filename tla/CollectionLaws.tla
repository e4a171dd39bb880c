--------------------------- MODULE CollectionLaws ---------------------------
(***************************************************************************)
(* Facts about the collections the models are built from, for every input: *)
(* flattened sequences, folds, sums over finite sets.  They need           *)
(* induction, which is had from the well-foundedness of the natural        *)
(* numbers.                                                                *)
(*                                                                         *)
(* The operator that is folded is a constant of the module: a proof about  *)
(* a definition that folds instantiates the module with the operator it    *)
(* folds.                                                                  *)
(***************************************************************************)
EXTENDS Integers, SequencesExt, SequenceTheorems, FiniteSetTheorems,
        WellFoundedInduction, TLAPS

CONSTANT op(_, _)

-----------------------------------------------------------------------------
(* Induction.                                                              *)

\* A set of natural numbers with an element has a least one.
LEMMA LeastNat ==
    ASSUME NEW S \in SUBSET Nat, S # {}
    PROVE  \E m \in S : \A n \in S : m <= n
  <1> DEFINE R == OpToRel(<, Nat)
  <1>1. IsWellFoundedOn(R, Nat) BY NatLessThanWellFounded
  <1>2. PICK m \in S : \A n \in S : <<n, m>> \notin R
    <2> HIDE DEF R
    <2> QED BY <1>1, WFMin
  <1>3. ASSUME NEW n \in S PROVE m <= n
    <2>1. m \in Nat /\ n \in Nat OBVIOUS
    <2>2. <<n, m>> \notin R BY <1>2
    <2>3. ~(n < m) BY <2>1, <2>2 DEF OpToRel
    <2>4. QED BY <2>1, <2>3
  <1>4. QED BY <1>3

\* A set that holds 0 and the successor of each number it holds has them all.
LEMMA Induction ==
    ASSUME NEW T, 0 \in T, \A n \in Nat : n \in T => n + 1 \in T
    PROVE  \A n \in Nat : n \in T
  <1> SUFFICES ASSUME Nat \ T # {} PROVE FALSE OBVIOUS
  <1>1. PICK m \in Nat \ T : \A n \in Nat \ T : m <= n BY LeastNat
  <1>2. m # 0 /\ m - 1 \in Nat BY <1>1
  <1>3. m - 1 \in T BY <1>1, <1>2
  <1>4. QED BY <1>1, <1>2, <1>3

-----------------------------------------------------------------------------
(* FlattenSeq.                                                             *)

\* h[i] is the first i sequences of ss, one after the other.
IsFlattening(h, n, ss) ==
    h = [i \in 1 .. n |-> IF i = 1 THEN ss[i] ELSE h[i - 1] \o ss[i]]

\* What an iteration of the library's flattening says at one index.
LEMMA FlatteningAt ==
    ASSUME NEW h, NEW ss, NEW n \in Nat, IsFlattening(h, n, ss), NEW i \in 1 .. n
    PROVE  h[i] = IF i = 1 THEN ss[i] ELSE h[i - 1] \o ss[i]
  <1> DEFINE f == [j \in 1 .. n |-> IF j = 1 THEN ss[j] ELSE h[j - 1] \o ss[j]]
  <1>1. h = f BY DEF IsFlattening
  <1>2. f[i] = IF i = 1 THEN ss[i] ELSE h[i - 1] \o ss[i] OBVIOUS
  <1> HIDE DEF f
  <1>3. QED BY <1>1, <1>2

\* The iteration the library chooses exists: by induction on the length.
LEMMA FlatteningExists ==
    ASSUME NEW ss, NEW n \in Nat
    PROVE  \E h : IsFlattening(h, n, ss)
  <1> DEFINE T == {m \in Nat : \E h : IsFlattening(h, m, ss)}
  <1>1. 0 \in T
    <2>1. IsFlattening([i \in 1 .. 0 |-> {}], 0, ss) BY DEF IsFlattening
    <2>2. QED BY <2>1
  <1>2. ASSUME NEW m \in Nat, m \in T PROVE m + 1 \in T
    <2>1. PICK h : IsFlattening(h, m, ss) BY <1>2
    <2> DEFINE g == [i \in 1 .. m + 1 |->
                        IF i <= m THEN h[i]
                        ELSE IF i = 1 THEN ss[i] ELSE h[i - 1] \o ss[i]]
    <2>2. ASSUME NEW i \in 1 .. m + 1
          PROVE  g[i] = IF i = 1 THEN ss[i] ELSE g[i - 1] \o ss[i]
      <3>1. CASE i = m + 1
        <4>1. g[i] = IF i = 1 THEN ss[i] ELSE h[i - 1] \o ss[i] BY <3>1
        <4>2. i # 1 => g[i - 1] = h[i - 1] BY <3>1
        <4>3. QED BY <4>1, <4>2
      <3>2. CASE i <= m
        <4>1. g[i] = h[i] BY <3>2
        <4>2. h[i] = IF i = 1 THEN ss[i] ELSE h[i - 1] \o ss[i]
          <5>1. i \in 1 .. m BY <3>2
          <5>2. QED BY <2>1, <5>1, FlatteningAt
        <4>3. i # 1 => g[i - 1] = h[i - 1] BY <3>2
        <4>4. QED BY <4>1, <4>2, <4>3
      <3>3. QED BY <3>1, <3>2
    <2>3. IsFlattening(g, m + 1, ss) BY <2>2 DEF IsFlattening
    <2>4. QED BY <2>3
  <1>3. \A m \in Nat : m \in T
    <2> HIDE DEF T
    <2> QED BY <1>1, <1>2, Induction
  <1>4. QED BY <1>3

SameUpTo(s, t, k) == \A i \in 1 .. k : s[i] = t[i]

\* Two sequences of sequences that agree on the first k flatten alike so far.
LEMMA FlatteningsAgree ==
    ASSUME NEW g, NEW h, NEW ss, NEW tt, NEW m \in Nat, NEW n \in Nat,
           IsFlattening(g, m, ss), IsFlattening(h, n, tt),
           NEW k \in Nat, k <= m, k <= n, SameUpTo(ss, tt, k)
    PROVE  SameUpTo(g, h, k)
  <1> DEFINE T == {i \in Nat : i \in 1 .. k => g[i] = h[i]}
  <1>1. 0 \in T OBVIOUS
  <1>2. ASSUME NEW i \in Nat, i \in T PROVE i + 1 \in T
    <2>1. CASE i + 1 \in 1 .. k
      <3>1. i + 1 \in 1 .. m /\ i + 1 \in 1 .. n BY <2>1
      <3>2. g[i + 1] = IF i + 1 = 1 THEN ss[i + 1] ELSE g[i + 1 - 1] \o ss[i + 1]
        BY <3>1, FlatteningAt
      <3>3. h[i + 1] = IF i + 1 = 1 THEN tt[i + 1] ELSE h[i + 1 - 1] \o tt[i + 1]
        BY <3>1, FlatteningAt
      <3>4. ss[i + 1] = tt[i + 1] BY <2>1 DEF SameUpTo
      <3>5. i + 1 # 1 => g[i + 1 - 1] = h[i + 1 - 1] BY <1>2, <2>1
      <3>6. QED BY <3>2, <3>3, <3>4, <3>5
    <2>2. CASE i + 1 \notin 1 .. k BY <2>2
    <2>3. QED BY <2>1, <2>2
  <1>3. \A i \in Nat : i \in T
    <2> HIDE DEF T
    <2> QED BY <1>1, <1>2, Induction
  <1>4. QED BY <1>3 DEF SameUpTo

\* FlattenSeq is the end of the flattening.
LEMMA FlattenIs ==
    ASSUME NEW ss, Len(ss) \in Nat \ {0}, NEW h, IsFlattening(h, Len(ss), ss)
    PROVE  FlattenSeq(ss) = h[Len(ss)]
  <1> DEFINE f == CHOOSE g : IsFlattening(g, Len(ss), ss)
  <1>1. IsFlattening(f, Len(ss), ss) BY FlatteningExists
  <1>2. FlattenSeq(ss) = f[Len(ss)] BY DEF FlattenSeq, IsFlattening
  <1> HIDE DEF f
  <1>3. SameUpTo(f, h, Len(ss))
    <2>1. SameUpTo(ss, ss, Len(ss)) BY DEF SameUpTo
    <2>2. QED BY <1>1, <2>1, FlatteningsAgree
  <1>4. QED BY <1>2, <1>3 DEF SameUpTo

\* Nothing flattens to nothing.
LEMMA FlattenEmpty == FlattenSeq(<< >>) = << >>
  BY DEF FlattenSeq

\* One more sequence goes to the end.
LEMMA FlattenAppend ==
    ASSUME NEW S, NEW ss \in Seq(Seq(S)), NEW e \in Seq(S)
    PROVE  FlattenSeq(Append(ss, e)) = FlattenSeq(ss) \o e
  <1> DEFINE n == Len(ss)
             tt == Append(ss, e)
  <1>1. n \in Nat /\ Len(tt) = n + 1 /\ tt[n + 1] = e /\ \A i \in 1 .. n : tt[i] = ss[i]
    OBVIOUS
  <1> HIDE DEF tt
  <1>2. PICK h : IsFlattening(h, n + 1, tt)
    <2>1. n + 1 \in Nat BY <1>1
    <2> HIDE DEF n
    <2>2. QED BY <2>1, FlatteningExists
  <1>3. FlattenSeq(tt) = IF n = 0 THEN e ELSE h[n] \o e
    <2>1. FlattenSeq(tt) = h[n + 1]
      BY <1>1, <1>2, FlattenIs
    <2>2. h[n + 1] = IF n + 1 = 1 THEN tt[n + 1] ELSE h[n + 1 - 1] \o tt[n + 1]
      BY <1>1, <1>2, FlatteningAt
    <2>3. n + 1 - 1 = n /\ (n + 1 = 1 <=> n = 0) BY <1>1
    <2>4. QED BY <1>1, <2>1, <2>2, <2>3
  <1>4. CASE n = 0
    <2>1. ss = << >> BY <1>4
    <2>2. FlattenSeq(ss) \o e = e BY <2>1, FlattenEmpty
    <2>3. QED BY <1>3, <1>4, <2>2 DEF tt
  <1>5. CASE n # 0
    <2>1. PICK g : IsFlattening(g, n, ss) BY <1>1, FlatteningExists
    <2>2. FlattenSeq(ss) = g[n] BY <1>1, <1>5, <2>1, FlattenIs
    <2>3. g[n] = h[n]
      <3>1. n <= n /\ n <= n + 1 /\ n + 1 \in Nat BY <1>1
      <3>2. SameUpTo(g, h, n)
        <4> HIDE DEF n
        <4>1. SameUpTo(ss, tt, n) BY <1>1 DEF SameUpTo
        <4>2. QED BY <1>1, <1>2, <2>1, <3>1, <4>1, FlatteningsAgree
      <3>3. QED BY <1>1, <1>5, <3>2 DEF SameUpTo
    <2>4. QED BY <1>3, <1>5, <2>2, <2>3 DEF tt
  <1>6. QED BY <1>4, <1>5

\* Prefixes of every length flatten to sequences.
LEMMA FlattenType ==
    ASSUME NEW S, NEW ss \in Seq(Seq(S))
    PROVE  FlattenSeq(ss) \in Seq(S)
  <1>1. CASE ss = << >>
    <2>1. FlattenSeq(ss) = << >> BY <1>1, FlattenEmpty
    <2>2. QED BY <2>1
  <1>2. CASE ss # << >>
    <2> DEFINE n == Len(ss)
    <2>1. n \in Nat \ {0} /\ \A i \in 1 .. n : ss[i] \in Seq(S) BY <1>2
    <2>2. PICK h : IsFlattening(h, n, ss) BY <2>1, FlatteningExists
    <2> DEFINE T == {i \in Nat : i \in 1 .. n => h[i] \in Seq(S)}
    <2>3. 0 \in T OBVIOUS
    <2>4. ASSUME NEW i \in Nat, i \in T PROVE i + 1 \in T
      <3>1. CASE i + 1 \in 1 .. n
        <4>1. h[i + 1] = IF i + 1 = 1 THEN ss[i + 1] ELSE h[i + 1 - 1] \o ss[i + 1]
          BY <2>1, <2>2, <3>1, FlatteningAt
        <4>2. ss[i + 1] \in Seq(S) BY <2>1, <3>1
        <4>3. CASE i = 0 BY <4>1, <4>2, <4>3
        <4>4. CASE i # 0
          <5>1. i \in 1 .. n BY <3>1, <4>4
          <5>2. h[i] \in Seq(S) BY <2>4, <5>1
          <5>3. h[i + 1] = h[i] \o ss[i + 1]
            <6>1. i + 1 # 1 /\ i + 1 - 1 = i BY <4>4
            <6>2. QED BY <4>1, <6>1
          <5>4. h[i + 1] \in Seq(S) BY <4>2, <5>2, <5>3, ConcatProperties
          <5>5. QED BY <5>4
        <4>5. QED BY <4>3, <4>4
      <3>2. CASE i + 1 \notin 1 .. n BY <3>2
      <3>3. QED BY <3>1, <3>2
    <2>5. \A i \in Nat : i \in T
      <3> HIDE DEF T
      <3> QED BY <2>3, <2>4, Induction
    <2>6. h[n] \in Seq(S) BY <2>1, <2>5
    <2>7. FlattenSeq(ss) = h[n] BY <2>1, <2>2, FlattenIs
    <2>8. QED BY <2>6, <2>7
  <1>3. QED BY <1>1, <1>2

-----------------------------------------------------------------------------
(* Subsequences.                                                           *)

\* The first element of p moves to the end of f; what both hold after b stays.
LEMMA HeadMoves ==
    ASSUME NEW S, NEW f \in Seq(S), NEW p \in Seq(S), p # << >>,
           NEW b \in Nat, b <= Len(f)
    PROVE  SubSeq(Append(f, Head(p)), b + 1, Len(Append(f, Head(p)))) \o Tail(p)
               = SubSeq(f, b + 1, Len(f)) \o p
  <1> DEFINE n == Len(f)
             m == b + 1
             h == Head(p)
             g == Append(f, h)
             l == n + 1
             old == SubSeq(f, m, n)
  <1>1. n \in Nat /\ h = p[1] /\ h \in S /\ <<h>> \in Seq(S) /\ Tail(p) \in Seq(S)
    BY EmptySeq, HeadTailProperties
  <1>2. /\ g \in Seq(S) /\ Len(g) = l /\ g[l] = h
        /\ \A i \in 1 .. n : g[i] = f[i]
    <2> HIDE DEF h
    <2>1. QED BY <1>1, AppendProperties
  <1>3. m \in 1 .. l /\ l \in m .. l /\ l - 1 = n /\ m \in Int /\ n \in Int BY <1>1
  <1> HIDE DEF g, h
  <1>4. SubSeq(g, m, l) = SubSeq(g, m, n) \o <<h>>
    <2>1. SubSeq(g, m, l) = SubSeq(g, m, l - 1) \o <<g[l]>>
      <3> HIDE DEF m, n, l
      <3>1. m \in 1 .. Len(g) /\ l \in m .. Len(g) BY <1>2, <1>3
      <3>2. QED BY <1>2, <3>1, SubSeqRecursiveSecond
    <2>2. QED BY <1>2, <1>3, <2>1
  <1>5. SubSeq(g, m, n) = old
    <2>1. \A i \in m .. n : g[i] = f[i] /\ f[i] \in S BY <1>1, <1>2, <1>3
    <2>2. SubSeq(g, m, n) = [i \in 1 .. n - m + 1 |-> g[i + m - 1]] OBVIOUS
    <2>3. SubSeq(f, m, n) = [i \in 1 .. n - m + 1 |-> f[i + m - 1]] OBVIOUS
    <2>4. \A i \in 1 .. n - m + 1 : i + m - 1 \in m .. n BY <1>3
    <2>5. \A i \in 1 .. n - m + 1 : g[i + m - 1] = f[i + m - 1] BY <2>1, <2>4
    <2>6. QED BY <2>2, <2>3, <2>5
  <1>6. p = <<h>> \o Tail(p)
    <2>1. Len(p) \in 1 .. Len(p) /\ 1 \in 1 .. Len(p) BY EmptySeq
    <2>2. SubSeq(p, 1, Len(p)) = <<p[1]>> \o SubSeq(p, 1 + 1, Len(p))
      <3> DEFINE one == 1
      <3>1. one \in 1 .. Len(p) /\ Len(p) \in one .. Len(p) BY <2>1
      <3> HIDE DEF one
      <3>2. SubSeq(p, one, Len(p)) = <<p[one]>> \o SubSeq(p, one + 1, Len(p))
        BY <3>1, SubSeqRecursiveFirst
      <3>3. QED BY <3>2 DEF one
    <2>3. SubSeq(p, 1, Len(p)) = p BY SubSeqFull
    <2>4. SubSeq(p, 2, Len(p)) = Tail(p) BY TailIsSubSeq
    <2>5. QED BY <1>1, <2>2, <2>3, <2>4
  <1>7. old \in Seq(S)
    <2>1. \A i \in m .. n : f[i] \in S BY <1>1, <1>3
    <2> HIDE DEF m, n
    <2>2. QED BY <1>3, <2>1, SubSeqProperties
  <1> HIDE DEF old
  <1>8. (old \o <<h>>) \o Tail(p) = old \o (<<h>> \o Tail(p)) BY <1>1, <1>7, ConcatAssociative
  <1>9. SubSeq(g, m, l) \o Tail(p) = old \o p
    <2> DEFINE whole == SubSeq(g, m, l)
               rest == Tail(p)
               first == <<h>>
    <2>1. whole = old \o first BY <1>4, <1>5
    <2>2. p = first \o rest BY <1>6
    <2>3. (old \o first) \o rest = old \o (first \o rest) BY <1>8
    <2> HIDE DEF whole, rest, first
    <2>4. whole \o rest = old \o p BY <2>1, <2>2, <2>3
    <2>5. QED BY <2>4 DEF whole, rest
  <1>10. QED BY <1>2, <1>9 DEF g, h, old

-----------------------------------------------------------------------------
(* FoldLeft goes through the sequence from left to right, one element per  *)
(* step.                                                                   *)

Fold(base, s) == FoldLeft(op, base, s)

\* h folds the elements of s at the indices of a set, the greatest last.
IsFold(h, n, base, s) ==
    h = [t \in SUBSET (1 .. n) |->
            IF t = {} THEN base ELSE op(h[t \ {Max(t)}], s[Max(t)])]

\* What an iteration of the library's fold says at one set of indices.
LEMMA FoldAt ==
    ASSUME NEW h, NEW n \in Nat, NEW base, NEW s, IsFold(h, n, base, s),
           NEW t \in SUBSET (1 .. n)
    PROVE  h[t] = IF t = {} THEN base ELSE op(h[t \ {Max(t)}], s[Max(t)])
  <1> DEFINE f == [u \in SUBSET (1 .. n) |->
                      IF u = {} THEN base ELSE op(h[u \ {Max(u)}], s[Max(u)])]
  <1>1. h = f BY DEF IsFold
  <1>2. f[t] = IF t = {} THEN base ELSE op(h[t \ {Max(t)}], s[Max(t)]) OBVIOUS
  <1> HIDE DEF f
  <1>3. QED BY <1>1, <1>2

\* The last index of a prefix that reaches n + 1.
LEMMA MaxOfPrefix ==
    ASSUME NEW n \in Nat, NEW t \in SUBSET (1 .. n + 1), n + 1 \in t
    PROVE  Max(t) = n + 1 /\ t \ {Max(t)} \in SUBSET (1 .. n)
  <1>1. \A x \in t : x \in Int /\ n + 1 >= x OBVIOUS
  <1>2. \A x \in t : (\A y \in t : x >= y) => x = n + 1 BY <1>1
  <1>3. Max(t) = n + 1
    <2>1. \E x \in t : \A y \in t : x >= y BY <1>1
    <2>2. Max(t) \in t /\ \A y \in t : Max(t) >= y BY <2>1 DEF Max
    <2>3. QED BY <1>2, <2>2
  <1>4. QED BY <1>3

\* The iteration the library chooses exists: by induction on the length.
LEMMA FoldExists ==
    ASSUME NEW base, NEW s, NEW n \in Nat
    PROVE  \E h : IsFold(h, n, base, s)
  <1> DEFINE T == {m \in Nat : \E h : IsFold(h, m, base, s)}
  <1>1. 0 \in T
    <2> DEFINE h == [t \in SUBSET (1 .. 0) |-> base]
    <2>1. ASSUME NEW t \in SUBSET (1 .. 0) PROVE t = {} OBVIOUS
    <2>2. IsFold(h, 0, base, s) BY <2>1 DEF IsFold
    <2>3. QED BY <2>2
  <1>2. ASSUME NEW m \in Nat, m \in T PROVE m + 1 \in T
    <2>1. PICK h : IsFold(h, m, base, s) BY <1>2
    <2> DEFINE g == [t \in SUBSET (1 .. m + 1) |->
                        IF m + 1 \in t THEN op(h[t \ {Max(t)}], s[Max(t)]) ELSE h[t]]
    <2>2. ASSUME NEW t \in SUBSET (1 .. m), NEW u \in SUBSET t PROVE g[u] = h[u]
      <3>1. m + 1 \notin u /\ u \in SUBSET (1 .. m + 1) BY <2>2
      <3>2. QED BY <3>1
    <2>3. ASSUME NEW t \in SUBSET (1 .. m + 1)
          PROVE  g[t] = IF t = {} THEN base ELSE op(g[t \ {Max(t)}], s[Max(t)])
      <3>1. CASE m + 1 \in t
        <4>1. t \ {Max(t)} \in SUBSET (1 .. m) BY <3>1, MaxOfPrefix
        <4>2. g[t \ {Max(t)}] = h[t \ {Max(t)}] BY <2>2, <4>1
        <4>3. g[t] = op(h[t \ {Max(t)}], s[Max(t)]) BY <3>1
        <4>4. QED BY <3>1, <4>2, <4>3
      <3>2. CASE m + 1 \notin t
        <4>1. t \in SUBSET (1 .. m) BY <3>2
        <4>2. g[t] = h[t] BY <2>2, <4>1
        <4>3. t \ {Max(t)} \in SUBSET t OBVIOUS
        <4>4. g[t \ {Max(t)}] = h[t \ {Max(t)}] BY <2>2, <4>1, <4>3
        <4>5. h[t] = IF t = {} THEN base ELSE op(h[t \ {Max(t)}], s[Max(t)])
          BY <2>1, <4>1, FoldAt
        <4>6. QED BY <4>2, <4>4, <4>5
      <3>3. QED BY <3>1, <3>2
    <2>4. IsFold(g, m + 1, base, s) BY <2>3 DEF IsFold
    <2>5. QED BY <2>4
  <1>3. \A m \in Nat : m \in T
    <2> HIDE DEF T
    <2>1. QED BY <1>1, <1>2, Induction
  <1>4. QED BY <1>3

\* The fold of i elements is the i-th element put on the fold of i - 1.
LEMMA FoldOfPrefix ==
    ASSUME NEW h, NEW n \in Nat, NEW base, NEW s, IsFold(h, n, base, s), NEW i \in 1 .. n
    PROVE  h[1 .. i] = op(h[1 .. (i - 1)], s[i])
  <1> DEFINE j == i - 1
             t == 1 .. i
  <1>1. j \in Nat /\ j + 1 = i OBVIOUS
  <1>2. t \in SUBSET (1 .. n) /\ t # {} OBVIOUS
  <1>3. t \in SUBSET (1 .. j + 1) /\ j + 1 \in t BY <1>1
  <1>4. t \ {i} = 1 .. (i - 1) OBVIOUS
  <1> HIDE DEF j, t
  <1>5. Max(t) = i BY <1>1, <1>3, MaxOfPrefix
  <1>6. h[t] = IF t = {} THEN base ELSE op(h[t \ {Max(t)}], s[Max(t)])
    BY <1>2, FoldAt
  <1>7. h[t] = op(h[t \ {i}], s[i]) BY <1>2, <1>5, <1>6
  <1>8. QED BY <1>4, <1>7 DEF t

-----------------------------------------------------------------------------
(* A fold as the end of a trace of its intermediate results.               *)

IsTrace(tr, base, s) ==
    /\ tr[0] = base
    /\ \A i \in 1 .. Len(s) : tr[i] = op(tr[i - 1], s[i])

\* A fold is the end of a trace that runs through the sequence once.
LEMMA FoldTrace ==
    ASSUME NEW X, NEW s \in Seq(X), NEW base
    PROVE  \E tr : IsTrace(tr, base, s) /\ Fold(base, s) = tr[Len(s)]
  <1> DEFINE n == Len(s)
             iter == CHOOSE h : IsFold(h, n, base, s)
             tr == [i \in 0 .. n |-> iter[1 .. i]]
  <1>1. n \in Nat /\ DOMAIN s = 1 .. n OBVIOUS
  <1>2. IsFold(iter, n, base, s) BY <1>1, FoldExists
  <1>3. Fold(base, s) = iter[1 .. n]
    BY <1>1 DEF Fold, FoldLeft, MapThenFoldSet, IsFold
  <1> HIDE DEF iter, n
  <1>4. tr[0] = base
    <2>1. 1 .. 0 = {} /\ {} \in SUBSET (1 .. n) OBVIOUS
    <2>2. iter[{}] = base BY <1>1, <1>2, <2>1, FoldAt
    <2>3. QED BY <1>1, <2>1, <2>2
  <1>5. ASSUME NEW i \in 1 .. n PROVE tr[i] = op(tr[i - 1], s[i])
    <2>1. i - 1 \in 0 .. n /\ i \in 0 .. n BY <1>1
    <2>2. iter[1 .. i] = op(iter[1 .. (i - 1)], s[i]) BY <1>1, <1>2, FoldOfPrefix
    <2>3. QED BY <2>1, <2>2
  <1>6. IsTrace(tr, base, s) BY <1>4, <1>5 DEF IsTrace, n
  <1>7. Fold(base, s) = tr[n] BY <1>1, <1>3
  <1>8. QED BY <1>6, <1>7 DEF n

\* Traces that start alike and read the same elements agree.
LEMMA TracesAgree ==
    ASSUME NEW X, NEW s \in Seq(X), NEW t \in Seq(X), NEW base, NEW g, NEW h,
           IsTrace(g, base, s), IsTrace(h, base, t),
           NEW k \in Nat, k <= Len(s), k <= Len(t), SameUpTo(s, t, k)
    PROVE  g[k] = h[k]
  <1> DEFINE T == {i \in Nat : i <= k => g[i] = h[i]}
  <1>1. 0 \in T BY DEF IsTrace
  <1>2. ASSUME NEW i \in Nat, i \in T PROVE i + 1 \in T
    <2> SUFFICES ASSUME i + 1 <= k PROVE g[i + 1] = h[i + 1] OBVIOUS
    <2> DEFINE j == i + 1
    <2>1. /\ j \in 1 .. Len(s) /\ j \in 1 .. Len(t) /\ j \in 1 .. k /\ j - 1 = i
          /\ g[i] = h[i]
      BY <1>2
    <2> HIDE DEF j
    <2>2. g[j] = op(g[j - 1], s[j]) /\ h[j] = op(h[j - 1], t[j]) BY <2>1 DEF IsTrace
    <2>3. s[j] = t[j] BY <2>1 DEF SameUpTo
    <2>4. QED BY <2>1, <2>2, <2>3 DEF j
  <1>3. \A i \in Nat : i \in T
    <2> HIDE DEF T
    <2>1. QED BY <1>1, <1>2, Induction
  <1>4. k \in T BY <1>3
  <1>5. QED BY <1>4

-----------------------------------------------------------------------------
(* What a proof about a fold needs.                                        *)

LEMMA FoldEmpty == ASSUME NEW base PROVE Fold(base, << >>) = base
  <1>1. << >> \in Seq({}) /\ Len(<< >>) = 0 OBVIOUS
  <1>2. PICK tr : IsTrace(tr, base, << >>) /\ Fold(base, << >>) = tr[Len(<< >>)]
    BY <1>1, FoldTrace
  <1>3. QED BY <1>1, <1>2 DEF IsTrace

\* An element at the end is folded in last.
LEMMA FoldAppend ==
    ASSUME NEW X, NEW s \in Seq(X), NEW x \in X, NEW base
    PROVE  Fold(base, Append(s, x)) = op(Fold(base, s), x)
  <1> DEFINE n == Len(s)
             t == Append(s, x)
  <1>1. /\ n \in Nat /\ t \in Seq(X) /\ Len(t) = n + 1 /\ t[n + 1] = x
        /\ \A i \in 1 .. n : t[i] = s[i]
    BY AppendProperties
  <1> HIDE DEF t
  <1>2. PICK g : IsTrace(g, base, s) /\ Fold(base, s) = g[n] BY FoldTrace
  <1>3. PICK h : IsTrace(h, base, t) /\ Fold(base, t) = h[Len(t)] BY <1>1, FoldTrace
  <1>4. g[n] = h[n]
    <2>1. n <= Len(s) /\ n <= Len(t) /\ SameUpTo(s, t, n) BY <1>1 DEF SameUpTo
    <2> HIDE DEF n
    <2>2. QED BY <1>1, <1>2, <1>3, <2>1, TracesAgree
  <1>5. h[n + 1] = op(h[n], x)
    <2> DEFINE m == n + 1
    <2>1. m \in 1 .. Len(t) /\ m - 1 = n /\ t[m] = x BY <1>1
    <2> HIDE DEF m
    <2>2. h[m] = op(h[m - 1], t[m]) BY <1>3, <2>1 DEF IsTrace
    <2>3. QED BY <2>1, <2>2 DEF m
  <1>6. QED BY <1>1, <1>2, <1>3, <1>4, <1>5 DEF t

\* The fold of one element.
LEMMA FoldOne == ASSUME NEW base, NEW x PROVE Fold(base, <<x>>) = op(base, x)
  <1> DEFINE s == << >>
  <1>1. s \in Seq({x}) /\ x \in {x} /\ Append(s, x) = <<x>> OBVIOUS
  <1> HIDE DEF s
  <1>2. Fold(base, Append(s, x)) = op(Fold(base, s), x) BY <1>1, FoldAppend
  <1>3. Fold(base, s) = base BY FoldEmpty DEF s
  <1>4. QED BY <1>1, <1>2, <1>3

\* G[i] is what may hold after i elements.
Leads(G, s) == \A i \in 1 .. Len(s) : \A v \in G[i - 1] : op(v, s[i]) \in G[i]

\* What every element carries on holds of the whole fold.
LEMMA FoldAlong ==
    ASSUME NEW X, NEW s \in Seq(X), NEW G, NEW base \in G[0], Leads(G, s)
    PROVE  Fold(base, s) \in G[Len(s)]
  <1>1. PICK tr : IsTrace(tr, base, s) /\ Fold(base, s) = tr[Len(s)] BY FoldTrace
  <1> DEFINE T == {i \in Nat : i <= Len(s) => tr[i] \in G[i]}
  <1>2. 0 \in T BY <1>1 DEF IsTrace
  <1>3. ASSUME NEW i \in Nat, i \in T PROVE i + 1 \in T
    <2> SUFFICES ASSUME i + 1 <= Len(s) PROVE tr[i + 1] \in G[i + 1] OBVIOUS
    <2> DEFINE j == i + 1
    <2>1. j \in 1 .. Len(s) /\ j - 1 = i /\ tr[i] \in G[i] BY <1>3
    <2> HIDE DEF j
    <2>2. tr[j] = op(tr[j - 1], s[j]) BY <1>1, <2>1 DEF IsTrace
    <2>3. op(tr[j - 1], s[j]) \in G[j] BY <2>1 DEF Leads
    <2>4. QED BY <2>2, <2>3 DEF j
  <1>4. \A i \in Nat : i \in T
    <2> HIDE DEF T
    <2>1. QED BY <1>2, <1>3, Induction
  <1>5. Len(s) \in T BY <1>4
  <1>6. QED BY <1>1, <1>5

\* What the operator keeps every step of the fold keeps, and so the fold.
LEMMA TraceKeeps ==
    ASSUME NEW X, NEW s \in Seq(X), NEW V, NEW base \in V,
           \A v \in V, x \in X : op(v, x) \in V,
           NEW tr, IsTrace(tr, base, s)
    PROVE  \A i \in 0 .. Len(s) : tr[i] \in V
  <1> DEFINE T == {i \in Nat : i <= Len(s) => tr[i] \in V}
  <1>2. 0 \in T BY DEF IsTrace
  <1>3. ASSUME NEW i \in Nat, i \in T PROVE i + 1 \in T
    <2> SUFFICES ASSUME i + 1 <= Len(s) PROVE tr[i + 1] \in V OBVIOUS
    <2> DEFINE j == i + 1
    <2>1. j \in 1 .. Len(s) /\ j - 1 = i /\ tr[i] \in V BY <1>3
    <2> HIDE DEF j
    <2>2. tr[j] = op(tr[j - 1], s[j]) /\ s[j] \in X BY <2>1 DEF IsTrace
    <2>3. QED BY <2>1, <2>2 DEF j
  <1>4. \A i \in Nat : i \in T
    <2> HIDE DEF T
    <2>1. QED BY <1>2, <1>3, Induction
  <1>5. QED BY <1>4

\* What the operator keeps the fold keeps.
LEMMA FoldKeeps ==
    ASSUME NEW X, NEW s \in Seq(X), NEW V, NEW base \in V,
           \A v \in V, x \in X : op(v, x) \in V
    PROVE  Fold(base, s) \in V
  <1>1. PICK tr : IsTrace(tr, base, s) /\ Fold(base, s) = tr[Len(s)] BY FoldTrace
  <1>2. \A i \in 0 .. Len(s) : tr[i] \in V BY <1>1, TraceKeeps
  <1>3. QED BY <1>1, <1>2

\* Folding one sequence after another is folding the two as one.
LEMMA FoldConcat ==
    ASSUME NEW X, NEW s \in Seq(X), NEW t \in Seq(X), NEW base
    PROVE  Fold(base, s \o t) = Fold(Fold(base, s), t)
  <1> DEFINE n == Len(s)
             m == Len(t)
             st == s \o t
  <1>1. n \in Nat /\ m \in Nat /\ st \in Seq(X) /\ Len(st) = n + m BY ConcatProperties
  <1>2. /\ \A i \in 1 .. n : st[i] = s[i]
        /\ \A i \in 1 .. m : st[n + i] = t[i]
    OBVIOUS
  <1> HIDE DEF st
  <1>3. PICK f : IsTrace(f, base, st) /\ Fold(base, st) = f[n + m] BY <1>1, FoldTrace
  <1>4. PICK g : IsTrace(g, base, s) /\ Fold(base, s) = g[n] BY FoldTrace
  <1>5. PICK h : IsTrace(h, Fold(base, s), t) /\ Fold(Fold(base, s), t) = h[m] BY FoldTrace
  <1>6. f[n] = g[n]
    <2>1. n <= Len(s) /\ n <= Len(st) /\ SameUpTo(st, s, n) BY <1>1, <1>2 DEF SameUpTo
    <2> HIDE DEF n
    <2>2. QED BY <1>1, <1>3, <1>4, <2>1, TracesAgree
  <1> DEFINE T == {i \in Nat : i <= m => f[n + i] = h[i]}
  <1>7. 0 \in T BY <1>1, <1>4, <1>5, <1>6 DEF IsTrace
  <1>8. ASSUME NEW i \in Nat, i \in T PROVE i + 1 \in T
    <2> SUFFICES ASSUME i + 1 <= m PROVE f[n + (i + 1)] = h[i + 1] OBVIOUS
    <2> DEFINE j == i + 1
               k == n + j
    <2>1. /\ j \in 1 .. m /\ j - 1 = i /\ k \in 1 .. Len(st) /\ k - 1 = n + i
          /\ f[n + i] = h[i] /\ st[k] = t[j]
      BY <1>1, <1>2, <1>8
    <2> HIDE DEF j, k
    <2>2. f[k] = op(f[k - 1], st[k]) /\ h[j] = op(h[j - 1], t[j])
      BY <1>3, <1>5, <2>1 DEF IsTrace
    <2>3. f[k] = h[j] BY <2>1, <2>2
    <2>4. QED BY <2>3 DEF j, k
  <1>9. \A i \in Nat : i \in T
    <2> HIDE DEF T
    <2>1. QED BY <1>7, <1>8, Induction
  <1>10. m \in T BY <1>1, <1>9
  <1>11. QED BY <1>1, <1>3, <1>5, <1>10 DEF st

-----------------------------------------------------------------------------
(* Finite sets.                                                            *)

\* A collection that holds the empty set, and with a set also the set with
\* one element more, holds every finite set.
LEMMA SetInduction ==
    ASSUME NEW S, IsFiniteSet(S), NEW T, {} \in T,
           \A X \in SUBSET S : \A x \in S \ X : X \in T => X \cup {x} \in T
    PROVE  S \in T
  <1> DEFINE N == {n \in Nat : \A X \in SUBSET S : Cardinality(X) = n => X \in T}
  <1>1. ASSUME NEW X \in SUBSET S PROVE IsFiniteSet(X) /\ Cardinality(X) \in Nat
    BY FS_Subset, FS_CardinalityType
  <1>2. 0 \in N BY <1>1, FS_EmptySet
  <1>3. ASSUME NEW n \in Nat, n \in N PROVE n + 1 \in N
    <2> SUFFICES ASSUME NEW X \in SUBSET S, Cardinality(X) = n + 1 PROVE X \in T OBVIOUS
    <2>1. X # {}
      <3>1. Cardinality({}) = 0 BY FS_EmptySet
      <3>2. QED BY <3>1
    <2>2. PICK x : x \in X BY <2>1
    <2>3. Cardinality(X \ {x}) = n
      <3>1. Cardinality(X \ {x}) = Cardinality(X) - 1 BY <1>1, <2>2, FS_RemoveElement
      <3>2. QED BY <3>1
    <2>4. X \ {x} \in T BY <1>3, <2>3
    <2>5. (X \ {x}) \cup {x} \in T BY <2>2, <2>4
    <2>6. (X \ {x}) \cup {x} = X BY <2>2
    <2>7. QED BY <2>5, <2>6
  <1>4. \A n \in Nat : n \in N
    <2> HIDE DEF N
    <2>1. QED BY <1>2, <1>3, Induction
  <1>5. Cardinality(S) \in N BY <1>1, <1>4
  <1>6. QED BY <1>5

-----------------------------------------------------------------------------
(* Sums.  SumFunctionOnSet takes one element after the other out of the set; h      *)
(* holds the sums over all subsets.                                        *)

Some(s) == CHOOSE x \in s : TRUE

IsSumming(h, f, S) ==
    h = [t \in SUBSET S |-> IF t = {} THEN 0 ELSE f[Some(t)] + h[t \ {Some(t)}]]

\* h holds the sums over the subsets with up to n elements.
SumsUpTo(h, f, S, n) ==
    \A t \in SUBSET S :
        Cardinality(t) <= n =>
            h[t] = IF t = {} THEN 0 ELSE f[Some(t)] + h[t \ {Some(t)}]

\* A set without one of its elements is one smaller.
LEMMA SmallerSubset ==
    ASSUME NEW S, IsFiniteSet(S), NEW t \in SUBSET S, NEW x \in t
    PROVE  /\ t \ {x} \in SUBSET S
           /\ Cardinality(t) \in Nat /\ Cardinality(t \ {x}) \in Nat
           /\ Cardinality(t \ {x}) = Cardinality(t) - 1
  <1>1. IsFiniteSet(t) BY FS_Subset
  <1>2. QED BY <1>1, FS_RemoveElement, FS_CardinalityType

\* What the library picks from a set is an element of it.
LEMMA SomeElement ==
    ASSUME NEW t, t # {}
    PROVE  Some(t) \in t
  BY DEF Some

\* The iteration the library chooses exists: by induction on the size.
LEMMA SumsExist ==
    ASSUME NEW f, NEW S, IsFiniteSet(S)
    PROVE  \E h : IsSumming(h, f, S)
  <1> DEFINE F(h) == [t \in SUBSET S |-> IF t = {} THEN 0 ELSE f[Some(t)] + h[t \ {Some(t)}]]
             N == {n \in Nat : \E h : h = [t \in SUBSET S |-> h[t]] /\ SumsUpTo(h, f, S, n)}
  <1>1. ASSUME NEW t \in SUBSET S, t # {}
        PROVE  /\ Some(t) \in t /\ t \ {Some(t)} \in SUBSET S
               /\ Cardinality(t) \in Nat /\ Cardinality(t \ {Some(t)}) = Cardinality(t) - 1
    BY <1>1, SmallerSubset, SomeElement
  <1>2. ASSUME NEW t \in SUBSET S
        PROVE  Cardinality(t) \in Nat /\ (Cardinality(t) <= 0 => t = {})
    <2>1. IsFiniteSet(t) BY FS_Subset
    <2>2. QED BY <2>1, FS_CardinalityType, FS_EmptySet
  <1>3. 0 \in N
    <2> DEFINE h == [t \in SUBSET S |-> 0]
    <2>1. SumsUpTo(h, f, S, 0) BY <1>2 DEF SumsUpTo
    <2>2. h = [t \in SUBSET S |-> h[t]] OBVIOUS
    <2>3. QED BY <2>1, <2>2
  <1>4. ASSUME NEW n \in Nat, n \in N PROVE n + 1 \in N
    <2>1. PICK h : SumsUpTo(h, f, S, n) BY <1>4
    <2> DEFINE g == F(h)
    <2>2. ASSUME NEW t \in SUBSET S PROVE g[t] = IF t = {} THEN 0 ELSE f[Some(t)] + h[t \ {Some(t)}]
      OBVIOUS
    <2>3. g = [t \in SUBSET S |-> g[t]] OBVIOUS
    <2> HIDE DEF g
    <2>4. ASSUME NEW t \in SUBSET S, Cardinality(t) <= n PROVE g[t] = h[t]
      BY <2>1, <2>2, <2>4 DEF SumsUpTo
    <2>5. ASSUME NEW t \in SUBSET S, Cardinality(t) <= n + 1
          PROVE  g[t] = IF t = {} THEN 0 ELSE f[Some(t)] + g[t \ {Some(t)}]
      <3>1. CASE t = {} BY <2>2, <3>1
      <3>2. CASE t # {}
        <4> DEFINE u == t \ {Some(t)}
        <4>1. u \in SUBSET S /\ Cardinality(u) <= n BY <1>1, <2>5, <3>2
        <4>2. g[u] = h[u] BY <2>4, <4>1
        <4>3. QED BY <2>2, <3>2, <4>2
      <3>3. QED BY <3>1, <3>2
    <2>6. SumsUpTo(g, f, S, n + 1) BY <2>5 DEF SumsUpTo
    <2>7. QED BY <2>3, <2>6
  <1>5. \A n \in Nat : n \in N
    <2> HIDE DEF N
    <2>1. QED BY <1>3, <1>4, Induction
  <1>6. Cardinality(S) \in N BY <1>5, FS_CardinalityType
  <1>7. PICK h : h = [t \in SUBSET S |-> h[t]] /\ SumsUpTo(h, f, S, Cardinality(S)) BY <1>6
  <1>8. ASSUME NEW t \in SUBSET S
        PROVE  h[t] = IF t = {} THEN 0 ELSE f[Some(t)] + h[t \ {Some(t)}]
    <2>1. Cardinality(t) <= Cardinality(S) BY FS_Subset
    <2>2. QED BY <1>7, <2>1 DEF SumsUpTo
  <1>9. h = F(h) BY <1>7, <1>8
  <1>10. IsSumming(h, f, S) BY <1>9 DEF IsSumming
  <1>11. QED BY <1>10

\* What an iteration of the library's sum says at one subset.
LEMMA SummingAt ==
    ASSUME NEW h, NEW f, NEW S, IsSumming(h, f, S), NEW t \in SUBSET S
    PROVE  h[t] = IF t = {} THEN 0 ELSE f[Some(t)] + h[t \ {Some(t)}]
  <1> DEFINE F == [u \in SUBSET S |-> IF u = {} THEN 0 ELSE f[Some(u)] + h[u \ {Some(u)}]]
  <1>1. h = F BY DEF IsSumming
  <1>2. F[t] = IF t = {} THEN 0 ELSE f[Some(t)] + h[t \ {Some(t)}] OBVIOUS
  <1> HIDE DEF F
  <1>3. QED BY <1>1, <1>2

\* The sums over a set depend on no larger set.
LEMMA SumsAgree ==
    ASSUME NEW f, NEW S, IsFiniteSet(S), NEW R \in SUBSET S,
           NEW h, IsSumming(h, f, S), NEW g, IsSumming(g, f, R)
    PROVE  h[R] = g[R]
  <1> DEFINE N == {n \in Nat : \A t \in SUBSET R : Cardinality(t) <= n => h[t] = g[t]}
  <1>1. ASSUME NEW t \in SUBSET R
        PROVE  Cardinality(t) \in Nat /\ (Cardinality(t) <= 0 => t = {})
    <2>1. IsFiniteSet(t) BY FS_Subset
    <2>2. QED BY <2>1, FS_CardinalityType, FS_EmptySet
  <1>2. 0 \in N
    <2>1. ASSUME NEW t \in SUBSET R, Cardinality(t) <= 0 PROVE h[t] = g[t]
      <3>1. t = {} /\ t \in SUBSET S BY <1>1, <2>1
      <3>2. h[t] = 0 BY <3>1, SummingAt
      <3>3. g[t] = 0 BY <3>1, SummingAt
      <3>4. QED BY <3>2, <3>3
    <2>2. QED BY <2>1
  <1>3. ASSUME NEW n \in Nat, n \in N PROVE n + 1 \in N
    <2>1. ASSUME NEW t \in SUBSET R, Cardinality(t) <= n + 1 PROVE h[t] = g[t]
      <3> DEFINE u == t \ {Some(t)}
      <3>1. t \in SUBSET S OBVIOUS
      <3>2. h[t] = IF t = {} THEN 0 ELSE f[Some(t)] + h[u] BY <3>1, SummingAt
      <3>3. g[t] = IF t = {} THEN 0 ELSE f[Some(t)] + g[u] BY SummingAt
      <3>4. CASE t = {} BY <3>2, <3>3, <3>4
      <3>5. CASE t # {}
        <4>1. u \in SUBSET R /\ Cardinality(u) <= n
          BY <2>1, <3>1, <3>5, SmallerSubset, SomeElement
        <4>2. h[u] = g[u] BY <1>3, <4>1
        <4>3. QED BY <3>2, <3>3, <4>2
      <3>6. QED BY <3>4, <3>5
    <2>2. QED BY <2>1
  <1>4. \A n \in Nat : n \in N
    <2> HIDE DEF N
    <2>1. QED BY <1>2, <1>3, Induction
  <1>5. Cardinality(R) \in N BY <1>1, <1>4
  <1>6. QED BY <1>5

\* A sum is what an iteration says at the whole set.
LEMMA SumIs ==
    ASSUME NEW f, NEW S, IsFiniteSet(S)
    PROVE  \E h : IsSumming(h, f, S) /\ SumFunctionOnSet(f, S) = h[S]
  <1> DEFINE iter == CHOOSE h : IsSumming(h, f, S)
  <1>1. IsSumming(iter, f, S) BY SumsExist
  <1>2. SumFunctionOnSet(f, S) = iter[S]
    BY DEF SumFunctionOnSet, FoldFunctionOnSet, MapThenFoldSet, IsSumming, Some
  <1> HIDE DEF iter
  <1>3. QED BY <1>1, <1>2

\* Nothing sums to zero.
LEMMA SumEmpty == ASSUME NEW f PROVE SumFunctionOnSet(f, {}) = 0
  <1>1. IsFiniteSet({}) BY FS_EmptySet
  <1>2. PICK h : IsSumming(h, f, {}) /\ SumFunctionOnSet(f, {}) = h[{}] BY <1>1, SumIs
  <1>3. h[{}] = 0
    <2> DEFINE e == {}
    <2>1. e \in SUBSET {} OBVIOUS
    <2>2. QED BY <1>2, <2>1, SummingAt
  <1>4. QED BY <1>2, <1>3

\* The sum splits at the element the library picks.
LEMMA SumOfSome ==
    ASSUME NEW f, NEW S, IsFiniteSet(S), S # {}
    PROVE  SumFunctionOnSet(f, S) = f[Some(S)] + SumFunctionOnSet(f, S \ {Some(S)})
  <1> DEFINE R == S \ {Some(S)}
  <1>1. IsFiniteSet(R) /\ R \in SUBSET S BY FS_RemoveElement
  <1>2. PICK h : IsSumming(h, f, S) /\ SumFunctionOnSet(f, S) = h[S] BY SumIs
  <1>3. PICK g : IsSumming(g, f, R) /\ SumFunctionOnSet(f, R) = g[R] BY <1>1, SumIs
  <1>4. h[S] = f[Some(S)] + h[R]
    <2>1. S \in SUBSET S OBVIOUS
    <2>2. QED BY <1>2, <2>1, SummingAt
  <1>5. h[R] = g[R]
    <2> HIDE DEF R
    <2>1. QED BY <1>1, <1>2, <1>3, SumsAgree
  <1>6. QED BY <1>2, <1>3, <1>4, <1>5

\* f is a number at every element of S.
IsIntOn(f, S) == \A x \in S : f[x] \in Int
SameOn(f, g, S) == \A x \in S : f[x] = g[x]

\* A sum of integers is an integer.
LEMMA SumInt ==
    ASSUME NEW f, NEW S, IsFiniteSet(S), IsIntOn(f, S)
    PROVE  SumFunctionOnSet(f, S) \in Int
  <1> DEFINE N == {n \in Nat : \A t \in SUBSET S :
                      Cardinality(t) = n => SumFunctionOnSet(f, t) \in Int}
  <1>1. ASSUME NEW t \in SUBSET S
        PROVE  IsFiniteSet(t) /\ Cardinality(t) \in Nat /\ (Cardinality(t) = 0 => t = {})
    BY FS_Subset, FS_CardinalityType, FS_EmptySet
  <1>2. 0 \in N BY <1>1, SumEmpty
  <1>3. ASSUME NEW n \in Nat, n \in N PROVE n + 1 \in N
    <2> SUFFICES ASSUME NEW t \in SUBSET S, Cardinality(t) = n + 1
                 PROVE  SumFunctionOnSet(f, t) \in Int
      OBVIOUS
    <2> DEFINE x == Some(t)
               u == t \ {x}
    <2>1. t # {} BY FS_EmptySet
    <2>2. x \in t BY <2>1, SomeElement
    <2>3. u \in SUBSET S /\ Cardinality(u) = n BY <2>2, SmallerSubset
    <2>4. SumFunctionOnSet(f, u) \in Int BY <1>3, <2>3
    <2>5. f[x] \in Int BY <2>2 DEF IsIntOn
    <2>6. SumFunctionOnSet(f, t) = f[x] + SumFunctionOnSet(f, u) BY <1>1, <2>1, SumOfSome
    <2>7. QED BY <2>4, <2>5, <2>6
  <1>4. \A n \in Nat : n \in N
    <2> HIDE DEF N
    <2>1. QED BY <1>2, <1>3, Induction
  <1>5. Cardinality(S) \in N BY <1>1, <1>4
  <1>6. QED BY <1>5

\* Any element may be taken out first.
LEMMA SumWithout ==
    ASSUME NEW f, NEW S, IsFiniteSet(S), IsIntOn(f, S), NEW y \in S
    PROVE  SumFunctionOnSet(f, S) = f[y] + SumFunctionOnSet(f, S \ {y})
  <1> DEFINE N == {n \in Nat : \A t \in SUBSET S : Cardinality(t) = n =>
                        \A z \in t : SumFunctionOnSet(f, t) = f[z] + SumFunctionOnSet(f, t \ {z})}
  <1>1. ASSUME NEW t \in SUBSET S
        PROVE  IsFiniteSet(t) /\ Cardinality(t) \in Nat /\ (Cardinality(t) = 0 => t = {})
    BY FS_Subset, FS_CardinalityType, FS_EmptySet
  <1>2. 0 \in N BY <1>1
  <1>3. ASSUME NEW n \in Nat, n \in N PROVE n + 1 \in N
    <2> SUFFICES ASSUME NEW t \in SUBSET S, Cardinality(t) = n + 1, NEW z \in t
                 PROVE  SumFunctionOnSet(f, t) = f[z] + SumFunctionOnSet(f, t \ {z})
      OBVIOUS
    <2> DEFINE x == Some(t)
    <2>1. x \in t BY SomeElement
    <2>2. SumFunctionOnSet(f, t) = f[x] + SumFunctionOnSet(f, t \ {x}) BY <1>1, SumOfSome
    <2> HIDE DEF x
    <2>3. CASE x = z BY <2>2, <2>3
    <2>4. CASE x # z
      <3> DEFINE u == t \ {x}
                 v == t \ {z}
                 w == u \ {z}
      <3>1. /\ u \in SUBSET S /\ Cardinality(u) = n /\ z \in u
            /\ v \in SUBSET S /\ Cardinality(v) = n /\ x \in v
        BY <2>1, <2>4, SmallerSubset
      <3>2. w = v \ {x} OBVIOUS
      <3>3. SumFunctionOnSet(f, u) = f[z] + SumFunctionOnSet(f, w) BY <1>3, <3>1
      <3>4. SumFunctionOnSet(f, v) = f[x] + SumFunctionOnSet(f, w) BY <1>3, <3>1, <3>2
      <3>5. f[x] \in Int /\ f[z] \in Int BY <2>1 DEF IsIntOn
      <3>6. SumFunctionOnSet(f, w) \in Int
        <4>1. w \in SUBSET S OBVIOUS
        <4>2. IsFiniteSet(w) /\ IsIntOn(f, w) BY <1>1, <4>1 DEF IsIntOn
        <4> HIDE DEF w
        <4>3. QED BY <4>2, SumInt
      <3> HIDE DEF u, v, w
      <3>7. /\ SumFunctionOnSet(f, u) = f[z] + SumFunctionOnSet(f, w)
            /\ SumFunctionOnSet(f, t) = f[x] + SumFunctionOnSet(f, u)
        BY <2>2, <3>3 DEF u
      <3>8. SumFunctionOnSet(f, t) = f[z] + SumFunctionOnSet(f, v) BY <3>4, <3>5, <3>6, <3>7
      <3>9. QED BY <3>8 DEF v
    <2>5. QED BY <2>3, <2>4
  <1>4. \A n \in Nat : n \in N
    <2> HIDE DEF N
    <2>1. QED BY <1>2, <1>3, Induction
  <1>5. Cardinality(S) \in N BY <1>1, <1>4
  <1>6. QED BY <1>5

\* One more element adds its value to the sum.
LEMMA SumWith ==
    ASSUME NEW f, NEW S, IsFiniteSet(S), NEW y, y \notin S, IsIntOn(f, S \cup {y})
    PROVE  SumFunctionOnSet(f, S \cup {y}) = SumFunctionOnSet(f, S) + f[y]
  <1> DEFINE T == S \cup {y}
  <1>1. IsFiniteSet(T) /\ y \in T BY FS_AddElement
  <1>2. T \ {y} = S OBVIOUS
  <1>3. IsIntOn(f, T) /\ IsIntOn(f, S) BY DEF IsIntOn
  <1>4. SumFunctionOnSet(f, S) \in Int /\ f[y] \in Int BY <1>3, SumInt DEF IsIntOn
  <1> HIDE DEF T
  <1>5. SumFunctionOnSet(f, T) = f[y] + SumFunctionOnSet(f, T \ {y}) BY <1>1, <1>3, SumWithout
  <1>6. SumFunctionOnSet(f, T) = f[y] + SumFunctionOnSet(f, S) BY <1>2, <1>5
  <1>7. SumFunctionOnSet(f, T) = SumFunctionOnSet(f, S) + f[y] BY <1>4, <1>6
  <1>8. QED BY <1>7 DEF T

\* Only the values in the set count.
LEMMA SumSame ==
    ASSUME NEW f, NEW g, NEW S, IsFiniteSet(S), SameOn(f, g, S)
    PROVE  SumFunctionOnSet(f, S) = SumFunctionOnSet(g, S)
  <1> DEFINE N == {n \in Nat : \A t \in SUBSET S : Cardinality(t) = n =>
                        SumFunctionOnSet(f, t) = SumFunctionOnSet(g, t)}
  <1>1. ASSUME NEW t \in SUBSET S
        PROVE  IsFiniteSet(t) /\ Cardinality(t) \in Nat /\ (Cardinality(t) = 0 => t = {})
    BY FS_Subset, FS_CardinalityType, FS_EmptySet
  <1>2. 0 \in N BY <1>1, SumEmpty
  <1>3. ASSUME NEW n \in Nat, n \in N PROVE n + 1 \in N
    <2> SUFFICES ASSUME NEW t \in SUBSET S, Cardinality(t) = n + 1
                 PROVE  SumFunctionOnSet(f, t) = SumFunctionOnSet(g, t)
      OBVIOUS
    <2> DEFINE x == Some(t)
               u == t \ {x}
    <2>1. t # {} BY FS_EmptySet
    <2>2. x \in t BY <2>1, SomeElement
    <2>3. u \in SUBSET S /\ Cardinality(u) = n BY <2>2, SmallerSubset
    <2>4. SumFunctionOnSet(f, u) = SumFunctionOnSet(g, u) BY <1>3, <2>3
    <2>5. f[x] = g[x] BY <2>2 DEF SameOn
    <2>6. SumFunctionOnSet(f, t) = f[x] + SumFunctionOnSet(f, u) BY <1>1, <2>1, SumOfSome
    <2>7. SumFunctionOnSet(g, t) = g[x] + SumFunctionOnSet(g, u) BY <1>1, <2>1, SumOfSome
    <2>8. QED BY <2>4, <2>5, <2>6, <2>7
  <1>4. \A n \in Nat : n \in N
    <2> HIDE DEF N
    <2>1. QED BY <1>2, <1>3, Induction
  <1>5. Cardinality(S) \in N BY <1>1, <1>4
  <1>6. QED BY <1>5

\* When one value changes, the sum changes by as much.
LEMMA SumChanged ==
    ASSUME NEW f, NEW g, NEW S, IsFiniteSet(S), IsIntOn(f, S), IsIntOn(g, S), NEW y \in S,
           SameOn(f, g, S \ {y})
    PROVE  SumFunctionOnSet(g, S) = SumFunctionOnSet(f, S) + g[y] - f[y]
  <1> DEFINE R == S \ {y}
  <1>1. IsFiniteSet(R) /\ IsIntOn(f, R) BY FS_RemoveElement DEF IsIntOn
  <1>2. SumFunctionOnSet(f, S) = f[y] + SumFunctionOnSet(f, R) BY SumWithout
  <1>3. SumFunctionOnSet(g, S) = g[y] + SumFunctionOnSet(g, R) BY SumWithout
  <1>4. SumFunctionOnSet(f, R) = SumFunctionOnSet(g, R)
    <2> HIDE DEF R
    <2>1. SameOn(f, g, R) BY DEF R
    <2>2. QED BY <1>1, <2>1, SumSame
  <1>5. SumFunctionOnSet(f, R) \in Int
    <2> HIDE DEF R
    <2>1. QED BY <1>1, SumInt
  <1>6. f[y] \in Int /\ g[y] \in Int BY DEF IsIntOn
  <1>7. QED BY <1>2, <1>3, <1>4, <1>5, <1>6

\* Elements that count for nothing may be added.
LEMMA SumWithZeros ==
    ASSUME NEW f, NEW S, IsFiniteSet(S), NEW Z, IsFiniteSet(Z), IsIntOn(f, S),
           \A x \in Z : f[x] = 0
    PROVE  SumFunctionOnSet(f, S \cup Z) = SumFunctionOnSet(f, S)
  <1> DEFINE T == {X \in SUBSET Z : SumFunctionOnSet(f, S \cup X) = SumFunctionOnSet(f, S)}
  <1>1. {} \in T
    <2>1. S \cup {} = S OBVIOUS
    <2>2. QED BY <2>1
  <1>2. ASSUME NEW X \in SUBSET Z, NEW x \in Z \ X, X \in T PROVE X \cup {x} \in T
    <2> DEFINE U == S \cup X
    <2>1. S \cup (X \cup {x}) = U \cup {x} OBVIOUS
    <2>2. SumFunctionOnSet(f, U) = SumFunctionOnSet(f, S) BY <1>2
    <2>3. CASE x \in U
      <3>1. U \cup {x} = U BY <2>3
      <3>2. QED BY <2>1, <2>2, <3>1
    <2>4. CASE x \notin U
      <3>1. IsFiniteSet(X) BY FS_Subset
      <3>2. IsFiniteSet(U) BY <3>1, FS_Union
      <3>3. IsIntOn(f, U \cup {x}) /\ f[x] = 0 BY DEF IsIntOn
      <3>4. SumFunctionOnSet(f, S) \in Int BY SumInt
      <3> HIDE DEF U
      <3>5. SumFunctionOnSet(f, U \cup {x}) = SumFunctionOnSet(f, U) + f[x] BY <2>4, <3>2, <3>3, SumWith
      <3>6. SumFunctionOnSet(f, U \cup {x}) = SumFunctionOnSet(f, S) BY <2>2, <3>3, <3>4, <3>5
      <3>7. QED BY <2>1, <3>6
    <2>5. QED BY <2>3, <2>4
  <1>3. Z \in T
    <2> HIDE DEF T
    <2>1. QED BY <1>1, <1>2, SetInduction
  <1>4. QED BY <1>3

\* The sum over two sets that share nothing.
LEMMA SumUnion ==
    ASSUME NEW f, NEW S, IsFiniteSet(S), NEW R, IsFiniteSet(R), IsIntOn(f, S \cup R),
           S \cap R = {}
    PROVE  SumFunctionOnSet(f, S \cup R) = SumFunctionOnSet(f, S) + SumFunctionOnSet(f, R)
  <1> DEFINE T == {X \in SUBSET R : SumFunctionOnSet(f, S \cup X)
                                      = SumFunctionOnSet(f, S) + SumFunctionOnSet(f, X)}
  <1>1. SumFunctionOnSet(f, S) \in Int BY SumInt DEF IsIntOn
  <1>2. {} \in T
    <2>1. S \cup {} = S OBVIOUS
    <2>2. QED BY <1>1, <2>1, SumEmpty
  <1>3. ASSUME NEW X \in SUBSET R, NEW x \in R \ X, X \in T PROVE X \cup {x} \in T
    <2> DEFINE U == S \cup X
    <2>1. IsFiniteSet(X) BY FS_Subset
    <2>2. IsFiniteSet(U) BY <2>1, FS_Union
    <2>3. x \notin U /\ S \cup (X \cup {x}) = U \cup {x} OBVIOUS
    <2>4. IsIntOn(f, U \cup {x}) /\ IsIntOn(f, X \cup {x}) /\ IsIntOn(f, X) /\ f[x] \in Int
      BY DEF IsIntOn
    <2>5. SumFunctionOnSet(f, U) = SumFunctionOnSet(f, S) + SumFunctionOnSet(f, X) BY <1>3
    <2> HIDE DEF U
    <2>6. SumFunctionOnSet(f, U \cup {x}) = SumFunctionOnSet(f, U) + f[x] BY <2>2, <2>3, <2>4, SumWith
    <2>7. SumFunctionOnSet(f, X \cup {x}) = SumFunctionOnSet(f, X) + f[x] BY <2>1, <2>4, SumWith
    <2>8. SumFunctionOnSet(f, X) \in Int BY <2>1, <2>4, SumInt
    <2>9. SumFunctionOnSet(f, U \cup {x}) = SumFunctionOnSet(f, S) + SumFunctionOnSet(f, X \cup {x})
      BY <1>1, <2>4, <2>5, <2>6, <2>7, <2>8
    <2>10. X \cup {x} \in SUBSET R OBVIOUS
    <2>11. QED BY <2>3, <2>9, <2>10
  <1>4. R \in T
    <2> HIDE DEF T
    <2>1. QED BY <1>2, <1>3, SetInduction
  <1>5. QED BY <1>4

\* total has the sums over sets g[p] that share nothing.
AreSums(total, P, f, g) ==
    /\ \A p \in P : /\ IsFiniteSet(g[p]) /\ IsIntOn(f, g[p])
                    /\ total[p] = SumFunctionOnSet(f, g[p])
    /\ \A p, q \in P : p # q => g[p] \cap g[q] = {}

\* The parts of P, taken together.
Joined(g, P) == UNION {g[p] : p \in P}

\* The sums over the parts of a set add up to the sum over the whole.
LEMMA SumOfParts ==
    ASSUME NEW f, NEW P, IsFiniteSet(P), NEW g, NEW total, AreSums(total, P, f, g)
    PROVE  SumFunctionOnSet(total, P) = SumFunctionOnSet(f, Joined(g, P))
  <1> USE DEF AreSums
  <1> DEFINE All(X) == UNION {g[p] : p \in X}
             T == {X \in SUBSET P : /\ IsFiniteSet(All(X)) /\ IsIntOn(f, All(X))
                                    /\ SumFunctionOnSet(total, X) = SumFunctionOnSet(f, All(X))}
  <1>1. {} \in T
    <2>1. All({}) = {} OBVIOUS
    <2>2. QED BY <2>1, SumEmpty, FS_EmptySet DEF IsIntOn
  <1>2. ASSUME NEW X \in SUBSET P, NEW x \in P \ X, X \in T PROVE X \cup {x} \in T
    <2>1. All(X \cup {x}) = All(X) \cup g[x] OBVIOUS
    <2>2. All(X) \cap g[x] = {}
      <3>1. ASSUME NEW p \in X PROVE g[p] \cap g[x] = {} OBVIOUS
      <3>2. QED BY <3>1
    <2> DEFINE A == All(X)
    <2>3. IsFiniteSet(A) /\ IsIntOn(f, A) /\ SumFunctionOnSet(total, X) = SumFunctionOnSet(f, A)
      BY <1>2
    <2> HIDE DEF A
    <2>4. IsFiniteSet(A \cup g[x]) /\ IsIntOn(f, A \cup g[x])
      <3>1. IsFiniteSet(A \cup g[x]) BY <2>3, FS_Union
      <3>2. QED BY <2>3, <3>1 DEF IsIntOn
    <2>5. SumFunctionOnSet(f, A \cup g[x]) = SumFunctionOnSet(f, A) + SumFunctionOnSet(f, g[x])
      BY <2>2, <2>3, <2>4, SumUnion DEF A
    <2>6. IsFiniteSet(X) BY FS_Subset
    <2>7. IsIntOn(total, X \cup {x})
      <3>1. ASSUME NEW p \in X \cup {x} PROVE total[p] \in Int
        <4>1. IsFiniteSet(g[p]) /\ IsIntOn(f, g[p]) /\ total[p] = SumFunctionOnSet(f, g[p])
          OBVIOUS
        <4>2. QED BY <4>1, SumInt
      <3>2. QED BY <3>1 DEF IsIntOn
    <2>8. SumFunctionOnSet(total, X \cup {x}) = SumFunctionOnSet(total, X) + total[x]
      BY <2>6, <2>7, SumWith
    <2>9. SumFunctionOnSet(total, X \cup {x}) = SumFunctionOnSet(f, A \cup g[x])
      BY <2>3, <2>5, <2>8
    <2>10. QED BY <2>1, <2>4, <2>9 DEF A
  <1>3. P \in T
    <2> HIDE DEF T
    <2>1. QED BY <1>1, <1>2, SetInduction
  <1>4. QED BY <1>3 DEF Joined

-----------------------------------------------------------------------------
(* The smaller and the larger of two numbers.                              *)

\* The minimum of a pair is the smaller of the two.
LEMMA MinOfTwo ==
    ASSUME NEW a \in Int, NEW b \in Int
    PROVE  Min({a, b}) = IF a <= b THEN a ELSE b
  <1>1. \E x \in {a, b} : \A y \in {a, b} : x <= y OBVIOUS
  <1>2. Min({a, b}) \in {a, b} /\ \A y \in {a, b} : Min({a, b}) <= y BY <1>1 DEF Min
  <1>3. QED BY <1>2

\* The maximum of a pair is the larger of the two.
LEMMA MaxOfTwo ==
    ASSUME NEW a \in Int, NEW b \in Int
    PROVE  Max({a, b}) = IF a >= b THEN a ELSE b
  <1>1. \E x \in {a, b} : \A y \in {a, b} : x >= y OBVIOUS
  <1>2. Max({a, b}) \in {a, b} /\ \A y \in {a, b} : Max({a, b}) >= y BY <1>1 DEF Max
  <1>3. QED BY <1>2

-----------------------------------------------------------------------------
(* What a flattened sequence holds, and folds over one.                    *)

\* A set of sequences that holds the empty one, and with a sequence also each
\* that is one element longer, holds every sequence.
LEMMA SequenceInduction ==
    ASSUME NEW S, NEW T, << >> \in T,
           \A s \in Seq(S) : \A x \in S : s \in T => Append(s, x) \in T
    PROVE  \A s \in Seq(S) : s \in T
  <1> DEFINE N == {n \in Nat : \A s \in Seq(S) : Len(s) = n => s \in T}
  <1>1. 0 \in N
    <2>1. ASSUME NEW s \in Seq(S), Len(s) = 0 PROVE s = << >> BY <2>1, EmptySeq
    <2>2. QED BY <2>1
  <1>2. ASSUME NEW n \in Nat, n \in N PROVE n + 1 \in N
    <2> SUFFICES ASSUME NEW s \in Seq(S), Len(s) = n + 1 PROVE s \in T OBVIOUS
    <2> DEFINE p == SubSeq(s, 1, n)
               x == s[n + 1]
    <2>1. \A i \in 1 .. n : s[i] \in S OBVIOUS
    <2>2. p \in Seq(S) /\ Len(p) = n /\ \A i \in 1 .. n : p[i] = s[i]
      <3>1. /\ p \in Seq(S) /\ Len(p) = IF 1 <= n THEN n - 1 + 1 ELSE 0
            /\ \A i \in 1 .. n - 1 + 1 : p[i] = s[1 + i - 1]
        BY <2>1, SubSeqProperties
      <3>2. QED BY <3>1
    <2>3. x \in S OBVIOUS
    <2> HIDE DEF p, x
    <2>4. /\ Append(p, x) \in Seq(S) /\ Len(Append(p, x)) = n + 1 /\ Append(p, x)[n + 1] = x
          /\ \A i \in 1 .. n : Append(p, x)[i] = p[i]
      BY <2>2, <2>3, AppendProperties
    <2>5. \A i \in 1 .. Len(s) : Append(p, x)[i] = s[i] BY <2>2, <2>4 DEF x
    <2>6. Append(p, x) = s BY <2>4, <2>5, SeqEqual
    <2>7. p \in T BY <1>2, <2>2
    <2>8. QED BY <2>2, <2>3, <2>6, <2>7
  <1>3. \A n \in Nat : n \in N
    <2> HIDE DEF N
    <2>1. QED BY <1>1, <1>2, Induction
  <1>4. QED BY <1>3

\* What two sequences hold, and hold once, one after the other.
LEMMA ConcatMembers ==
    ASSUME NEW S, NEW s \in Seq(S), NEW t \in Seq(S)
    PROVE  /\ Range(s \o t) = Range(s) \cup Range(t)
           /\ IsInjective(s) /\ IsInjective(t) /\ Range(s) \cap Range(t) = {}
                => IsInjective(s \o t)
  <1> DEFINE m == Len(s)
             n == Len(t)
             u == s \o t
  <1>1. m \in Nat /\ n \in Nat /\ DOMAIN s = 1 .. m /\ DOMAIN t = 1 .. n OBVIOUS
  <1>2. /\ DOMAIN u = 1 .. m + n
        /\ \A i \in 1 .. m + n : u[i] = IF i <= m THEN s[i] ELSE t[i - m]
    <2>1. u \in Seq(S) /\ Len(u) = m + n BY ConcatProperties
    <2>2. QED BY <2>1, ConcatProperties
  <1> HIDE DEF u, m, n
  <1>3. Range(u) = Range(s) \cup Range(t)
    <2>1. ASSUME NEW i \in 1 .. m + n PROVE u[i] \in Range(s) \cup Range(t)
      <3>1. CASE i <= m
        <4>1. i \in DOMAIN s /\ u[i] = s[i] BY <1>1, <1>2, <3>1
        <4>2. QED BY <4>1 DEF Range
      <3>2. CASE i > m
        <4>1. i - m \in DOMAIN t /\ u[i] = t[i - m] BY <1>1, <1>2, <3>2
        <4>2. QED BY <4>1 DEF Range
      <3>3. QED BY <1>1, <3>1, <3>2
    <2>2. ASSUME NEW i \in 1 .. m PROVE i \in 1 .. m + n /\ u[i] = s[i] BY <1>1, <1>2
    <2>3. ASSUME NEW i \in 1 .. n PROVE \E j \in 1 .. m + n : u[j] = t[i]
      <3> DEFINE j == i + m
      <3>1. j \in 1 .. m + n /\ ~(j <= m) /\ j - m = i BY <1>1
      <3> HIDE DEF j
      <3>2. u[j] = t[i] BY <1>2, <3>1
      <3>3. QED BY <3>1, <3>2
    <2>4. ASSUME NEW x \in Range(u) PROVE x \in Range(s) \cup Range(t)
      <3>1. PICK i \in 1 .. m + n : x = u[i] BY <1>2 DEF Range
      <3>2. QED BY <2>1, <3>1
    <2>5. ASSUME NEW x \in Range(s) PROVE x \in Range(u)
      <3>1. PICK i \in 1 .. m : x = s[i] BY <1>1 DEF Range
      <3>2. QED BY <1>2, <2>2, <3>1 DEF Range
    <2>6. ASSUME NEW x \in Range(t) PROVE x \in Range(u)
      <3>1. PICK i \in 1 .. n : x = t[i] BY <1>1 DEF Range
      <3>2. QED BY <1>2, <2>3, <3>1 DEF Range
    <2>7. QED BY <2>4, <2>5, <2>6
  <1>4. ASSUME IsInjective(s), IsInjective(t), Range(s) \cap Range(t) = {},
               NEW i \in 1 .. m + n, NEW j \in 1 .. m + n, u[i] = u[j]
        PROVE  i = j
    <2>1. ASSUME NEW k \in 1 .. m + n, NEW l \in 1 .. m + n, k <= m, l > m PROVE u[k] # u[l]
      <3>1. k \in DOMAIN s /\ l - m \in DOMAIN t /\ u[k] = s[k] /\ u[l] = t[l - m]
        BY <1>1, <1>2, <2>1
      <3>2. QED BY <1>4, <3>1 DEF Range
    <2>2. CASE i <= m /\ j <= m
      <3>1. i \in DOMAIN s /\ j \in DOMAIN s /\ s[i] = s[j] BY <1>1, <1>2, <1>4, <2>2
      <3>2. QED BY <1>4, <3>1 DEF IsInjective
    <2>3. CASE i > m /\ j > m
      <3>1. i - m \in DOMAIN t /\ j - m \in DOMAIN t /\ t[i - m] = t[j - m]
        BY <1>1, <1>2, <1>4, <2>3
      <3>2. i - m = j - m BY <1>4, <3>1 DEF IsInjective
      <3>3. QED BY <1>1, <3>2
    <2>4. QED BY <1>1, <1>4, <2>1, <2>2, <2>3
  <1>5. QED BY <1>2, <1>3, <1>4 DEF u, IsInjective

\* No element is in two of the sequences, or twice in one.
Apart(ss) ==
    /\ \A i \in DOMAIN ss : IsInjective(ss[i])
    /\ \A i, j \in DOMAIN ss : i # j => Range(ss[i]) \cap Range(ss[j]) = {}

\* What is in one of the sequences.
Held(ss) == UNION {Range(ss[i]) : i \in DOMAIN ss}

\* What sequences hold, and hold once, when they are flattened.
LEMMA FlattenMembers ==
    ASSUME NEW S, NEW ss \in Seq(Seq(S))
    PROVE  /\ Range(FlattenSeq(ss)) = Held(ss)
           /\ Apart(ss) => IsInjective(FlattenSeq(ss))
  <1> DEFINE Q(tt) == /\ Range(FlattenSeq(tt)) = Held(tt)
                      /\ Apart(tt) => IsInjective(FlattenSeq(tt))
             T == {tt \in Seq(Seq(S)) : Q(tt)}
  <1>1. << >> \in T
    <2>1. << >> \in Seq(Seq(S)) /\ DOMAIN << >> = {} OBVIOUS
    <2>2. Range(<< >>) = {} /\ IsInjective(<< >>) BY <2>1 DEF Range, IsInjective
    <2>3. FlattenSeq(<< >>) = << >> BY FlattenEmpty
    <2>4. Held(<< >>) = {} BY <2>1 DEF Held
    <2>5. QED BY <2>1, <2>2, <2>3, <2>4
  <1>2. ASSUME NEW tt \in Seq(Seq(S)), NEW x \in Seq(S), tt \in T PROVE Append(tt, x) \in T
    <2> DEFINE n == Len(tt)
               uu == Append(tt, x)
               m == n + 1
    <2>1. /\ n \in Nat /\ uu \in Seq(Seq(S)) /\ DOMAIN tt = 1 .. n /\ DOMAIN uu = 1 .. m
          /\ m \in DOMAIN uu /\ uu[m] = x /\ \A i \in 1 .. n : i \in DOMAIN uu /\ i # m /\ uu[i] = tt[i]
          /\ DOMAIN uu = DOMAIN tt \cup {m}
      BY AppendProperties
    <2> HIDE DEF uu, m
    <2>2. FlattenSeq(uu) = FlattenSeq(tt) \o x BY FlattenAppend DEF uu
    <2>3. FlattenSeq(tt) \in Seq(S) BY FlattenType
    <2>4. Q(tt) BY <1>2
    <2>5. Range(FlattenSeq(uu)) = Range(FlattenSeq(tt)) \cup Range(x)
      BY <2>2, <2>3, ConcatMembers
    <2>6. Held(uu)
            = Held(tt) \cup Range(x)
      <3>1. \A i \in DOMAIN tt : i \in DOMAIN uu /\ uu[i] = tt[i] BY <2>1
      <3>2. \A i \in DOMAIN uu : i \in DOMAIN tt \/ i = m BY <2>1
      <3>3. QED BY <2>1, <3>1, <3>2 DEF Held
    <2>7. ASSUME Apart(uu) PROVE IsInjective(FlattenSeq(uu))
      <3>1. Apart(tt) /\ IsInjective(x) BY <2>1, <2>7 DEF Apart
      <3>2. \A i \in DOMAIN tt : Range(tt[i]) \cap Range(x) = {} BY <2>1, <2>7 DEF Apart
      <3>3. Range(FlattenSeq(tt)) \cap Range(x) = {} BY <2>4, <3>2 DEF Held
      <3>4. IsInjective(FlattenSeq(tt)) BY <2>4, <3>1
      <3>5. QED BY <2>2, <2>3, <3>1, <3>3, <3>4, ConcatMembers
    <2>8. Q(uu)
      <3>1. Range(FlattenSeq(tt)) = Held(tt) BY <2>4
      <3>2. Range(FlattenSeq(uu)) = Held(uu) BY <2>5, <2>6, <3>1
      <3>3. QED BY <2>7, <3>2
    <2>9. QED BY <2>1, <2>8 DEF uu
  <1>3. \A tt \in Seq(Seq(S)) : tt \in T
    <2> DEFINE Z == Seq(S)
    <2> HIDE DEF T, Z
    <2>1. \A tt \in Seq(Z) : tt \in T BY <1>1, <1>2, SequenceInduction DEF Z
    <2>2. QED BY <2>1 DEF Z
  <1>4. QED BY <1>3

\* A trace of folding sequences, one after the other.
IsChain(tr, base, ss) ==
    /\ tr[0] = base
    /\ \A i \in 1 .. Len(ss) : tr[i] = Fold(tr[i - 1], ss[i])

\* Folding what sequences flatten to is folding each in turn.
LEMMA FoldFlatten ==
    ASSUME NEW S, NEW ss \in Seq(Seq(S)), NEW base
    PROVE  \E tr : IsChain(tr, base, ss) /\ Fold(base, FlattenSeq(ss)) = tr[Len(ss)]
  <1> DEFINE Q(tt) == \E tr : IsChain(tr, base, tt) /\ Fold(base, FlattenSeq(tt)) = tr[Len(tt)]
             T == {tt \in Seq(Seq(S)) : Q(tt)}
  <1>1. << >> \in T
    <2> DEFINE tr == [i \in {0} |-> base]
    <2>1. << >> \in Seq(Seq(S)) /\ Len(<< >>) = 0 OBVIOUS
    <2>2. IsChain(tr, base, << >>) BY <2>1 DEF IsChain
    <2>3. FlattenSeq(<< >>) = << >> /\ Fold(base, << >>) = base BY FlattenEmpty, FoldEmpty
    <2>4. tr[0] = base OBVIOUS
    <2> HIDE DEF tr
    <2>5. Q(<< >>) BY <2>1, <2>2, <2>3, <2>4
    <2>6. QED BY <2>1, <2>5
  <1>2. ASSUME NEW tt \in Seq(Seq(S)), NEW x \in Seq(S), tt \in T PROVE Append(tt, x) \in T
    <2> DEFINE n == Len(tt)
               uu == Append(tt, x)
               m == n + 1
    <2>1. PICK tr : IsChain(tr, base, tt) /\ Fold(base, FlattenSeq(tt)) = tr[n]
      BY <1>2
    <2> DEFINE next == [i \in 0 .. m |-> IF i = m THEN Fold(tr[n], x) ELSE tr[i]]
    <2>2. /\ n \in Nat /\ uu \in Seq(Seq(S)) /\ Len(uu) = m /\ uu[m] = x
          /\ \A i \in 1 .. n : uu[i] = tt[i]
      BY AppendProperties
    <2>3. Fold(base, FlattenSeq(uu)) = Fold(tr[n], x)
      <3>1. FlattenSeq(uu) = FlattenSeq(tt) \o x /\ FlattenSeq(tt) \in Seq(S)
        BY FlattenAppend, FlattenType
      <3> HIDE DEF uu
      <3>2. QED BY <2>1, <3>1, FoldConcat
    <2>4. /\ next[m] = Fold(tr[n], x) /\ next[0] = tr[0]
          /\ \A i \in 0 .. n : next[i] = tr[i]
      BY <2>2
    <2>5. ASSUME NEW i \in 1 .. m PROVE next[i] = Fold(next[i - 1], uu[i])
      <3> HIDE DEF uu, next
      <3>1. i - 1 \in 0 .. n BY <2>2
      <3>2. CASE i = m
        <4>1. i - 1 = n BY <2>2, <3>2
        <4>2. QED BY <2>2, <2>4, <3>1, <3>2, <4>1
      <3>3. CASE i # m
        <4>1. i \in 1 .. n /\ i \in 0 .. n BY <2>2, <3>3
        <4>2. tr[i] = Fold(tr[i - 1], tt[i]) BY <2>1, <4>1 DEF IsChain
        <4>3. QED BY <2>2, <2>4, <3>1, <4>1, <4>2
      <3>4. QED BY <3>2, <3>3
    <2> HIDE DEF uu, next
    <2>6. IsChain(next, base, uu) BY <2>1, <2>2, <2>4, <2>5 DEF IsChain
    <2>7. Q(uu) BY <2>2, <2>3, <2>4, <2>6
    <2>8. QED BY <2>2, <2>7 DEF uu
  <1>3. \A tt \in Seq(Seq(S)) : tt \in T
    <2> DEFINE Z == Seq(S)
    <2> HIDE DEF T, Z
    <2>1. \A tt \in Seq(Z) : tt \in T BY <1>1, <1>2, SequenceInduction DEF Z
    <2>2. QED BY <2>1 DEF Z
  <1>4. QED BY <1>3

\* A fold of three elements.
LEMMA FoldThree ==
    ASSUME NEW base, NEW x, NEW y, NEW z
    PROVE  Fold(base, <<x, y, z>>) = op(op(op(base, x), y), z)
  <1> DEFINE S == {x, y, z}
  <1>1. /\ <<x>> \in Seq(S) /\ <<x, y>> \in Seq(S) /\ x \in S /\ y \in S /\ z \in S
        /\ <<x, y>> = Append(<<x>>, y) /\ <<x, y, z>> = Append(<<x, y>>, z)
    OBVIOUS
  <1> HIDE DEF S
  <1>2. Fold(base, <<x>>) = op(base, x) BY FoldOne
  <1>3. Fold(base, Append(<<x>>, y)) = op(Fold(base, <<x>>), y) BY <1>1, FoldAppend
  <1>4. Fold(base, Append(<<x, y>>, z)) = op(Fold(base, <<x, y>>), z) BY <1>1, FoldAppend
  <1>5. QED BY <1>1, <1>2, <1>3, <1>4

\* A sequence of whatever.
IsSeq(s) == \E S : s \in Seq(S)

\* Sequences of whatever are joined and extended, and have a common type.
LEMMA AnySeq ==
    ASSUME NEW s, IsSeq(s), NEW t, IsSeq(t), NEW x
    PROVE  /\ IsSeq(s \o t) /\ IsSeq(Append(s, x)) /\ IsSeq(<<x>>) /\ IsSeq(<< >>)
           /\ \E S : s \in Seq(S) /\ t \in Seq(S) /\ x \in S
  <1>1. PICK S : s \in Seq(S) BY DEF IsSeq
  <1>2. PICK R : t \in Seq(R) BY DEF IsSeq
  <1> DEFINE U == S \cup R \cup {x}
  <1>3. s \in Seq(U) /\ t \in Seq(U) /\ x \in U BY <1>1, <1>2
  <1> HIDE DEF U
  <1>4. s \o t \in Seq(U) /\ Append(s, x) \in Seq(U) /\ <<x>> \in Seq(U) /\ << >> \in Seq(U)
    BY <1>3
  <1>5. QED BY <1>3, <1>4 DEF IsSeq

\* Folding one sequence after another, and one more element.
LEMMA FoldThen ==
    ASSUME NEW s, IsSeq(s), NEW t, IsSeq(t), NEW x, NEW base
    PROVE  /\ Fold(base, s \o t) = Fold(Fold(base, s), t)
           /\ Fold(base, Append(s, x)) = op(Fold(base, s), x)
  <1>1. PICK S : s \in Seq(S) /\ t \in Seq(S) /\ x \in S BY AnySeq
  <1>2. QED BY <1>1, FoldConcat, FoldAppend

-----------------------------------------------------------------------------
(* What comes before what in a sequence.                                   *)

Before(s, x, y) == \E i, j \in DOMAIN s : i < j /\ s[i] = x /\ s[j] = y

\* What precedes what in either of two sequences does so when they are joined,
\* and what the first holds precedes what the second holds.
LEMMA ConcatBefore ==
    ASSUME NEW S, NEW s \in Seq(S), NEW t \in Seq(S), NEW x, NEW y,
           Before(s, x, y) \/ Before(t, x, y) \/ (x \in Range(s) /\ y \in Range(t))
    PROVE  Before(s \o t, x, y)
  <1> DEFINE m == Len(s)
             n == Len(t)
             u == s \o t
  <1>1. m \in Nat /\ n \in Nat /\ DOMAIN s = 1 .. m /\ DOMAIN t = 1 .. n OBVIOUS
  <1>2. /\ DOMAIN u = 1 .. m + n
        /\ \A i \in 1 .. m + n : u[i] = IF i <= m THEN s[i] ELSE t[i - m]
    <2>1. u \in Seq(S) /\ Len(u) = m + n BY ConcatProperties
    <2>2. QED BY <2>1, ConcatProperties
  <1> HIDE DEF u, m, n
  <1>3. \A i \in 1 .. m : i \in DOMAIN u /\ u[i] = s[i] BY <1>1, <1>2
  <1>4. \A i \in 1 .. n : i + m \in DOMAIN u /\ u[i + m] = t[i]
    <2> SUFFICES ASSUME NEW i \in 1 .. n PROVE i + m \in DOMAIN u /\ u[i + m] = t[i] OBVIOUS
    <2> DEFINE j == i + m
    <2>1. j \in 1 .. m + n /\ ~(j <= m) /\ j - m = i BY <1>1
    <2> HIDE DEF j
    <2>2. j \in DOMAIN u /\ u[j] = t[i] BY <1>2, <2>1
    <2>3. QED BY <2>2 DEF j
  <1>5. CASE Before(s, x, y)
    <2>1. PICK i \in 1 .. m, j \in 1 .. m : i < j /\ s[i] = x /\ s[j] = y
      BY <1>1, <1>5 DEF Before
    <2>2. QED BY <1>3, <2>1 DEF Before, u
  <1>6. CASE Before(t, x, y)
    <2>1. PICK i \in 1 .. n, j \in 1 .. n : i < j /\ t[i] = x /\ t[j] = y
      BY <1>1, <1>6 DEF Before
    <2>2. i + m < j + m BY <1>1, <2>1
    <2>3. QED BY <1>4, <2>1, <2>2 DEF Before, u
  <1>7. CASE x \in Range(s) /\ y \in Range(t)
    <2>1. PICK i \in 1 .. m : s[i] = x BY <1>1, <1>7 DEF Range
    <2>2. PICK j \in 1 .. n : t[j] = y BY <1>1, <1>7 DEF Range
    <2>3. i < j + m BY <1>1
    <2>4. QED BY <1>3, <1>4, <2>1, <2>2, <2>3 DEF Before, u
  <1>8. QED BY <1>5, <1>6, <1>7

\* x precedes y in one of the sequences, or in an earlier one than y.
BeforeIn(ss, x, y) ==
    \/ \E i \in DOMAIN ss : Before(ss[i], x, y)
    \/ \E i, j \in DOMAIN ss : i < j /\ x \in Range(ss[i]) /\ y \in Range(ss[j])

\* Flattening keeps the order.
LEMMA FlattenBefore ==
    ASSUME NEW S, NEW ss \in Seq(Seq(S)), NEW x, NEW y, BeforeIn(ss, x, y)
    PROVE  Before(FlattenSeq(ss), x, y)
  <1> DEFINE Q(tt) == BeforeIn(tt, x, y) => Before(FlattenSeq(tt), x, y)
             T == {tt \in Seq(Seq(S)) : Q(tt)}
  <1>1. << >> \in T
    <2>1. << >> \in Seq(Seq(S)) /\ DOMAIN << >> = {} OBVIOUS
    <2>2. ~BeforeIn(<< >>, x, y) BY <2>1 DEF BeforeIn
    <2>3. QED BY <2>1, <2>2
  <1>2. ASSUME NEW tt \in Seq(Seq(S)), NEW e \in Seq(S), tt \in T PROVE Append(tt, e) \in T
    <2> DEFINE n == Len(tt)
               uu == Append(tt, e)
               m == n + 1
    <2>1. /\ n \in Nat /\ uu \in Seq(Seq(S)) /\ DOMAIN tt = 1 .. n /\ DOMAIN uu = 1 .. m
          /\ uu[m] = e /\ \A i \in DOMAIN tt : uu[i] = tt[i]
      BY AppendProperties
    <2>2. \A i, j \in DOMAIN uu : i < j => i \in DOMAIN tt /\ (j \in DOMAIN tt \/ j = m)
      BY <2>1
    <2>3. \A i \in DOMAIN uu : i \in DOMAIN tt \/ i = m BY <2>1
    <2> HIDE DEF uu, m
    <2>4. FlattenSeq(uu) = FlattenSeq(tt) \o e BY FlattenAppend DEF uu
    <2>5. FlattenSeq(tt) \in Seq(S) BY FlattenType
    <2>6. BeforeIn(tt, x, y) => Before(FlattenSeq(tt), x, y) BY <1>2
    <2>7. Range(FlattenSeq(tt)) = Held(tt) BY FlattenMembers
    <2>8. ASSUME BeforeIn(uu, x, y) PROVE Before(FlattenSeq(uu), x, y)
      <3>1. CASE BeforeIn(tt, x, y) BY <2>4, <2>5, <2>6, <3>1, ConcatBefore
      <3>2. CASE Before(e, x, y) BY <2>4, <2>5, <3>2, ConcatBefore
      <3>3. CASE x \in Held(tt) /\ y \in Range(e)
        BY <2>4, <2>5, <2>7, <3>3, ConcatBefore
      <3>4. BeforeIn(tt, x, y) \/ Before(e, x, y) \/ (x \in Held(tt) /\ y \in Range(e))
        <4>1. CASE \E i \in DOMAIN uu : Before(uu[i], x, y)
          BY <2>1, <2>3, <4>1 DEF BeforeIn
        <4>2. CASE \E i, j \in DOMAIN uu : i < j /\ x \in Range(uu[i]) /\ y \in Range(uu[j])
          <5>1. PICK i \in DOMAIN uu, j \in DOMAIN uu :
                     i < j /\ x \in Range(uu[i]) /\ y \in Range(uu[j])
            BY <4>2
          <5>2. i \in DOMAIN tt /\ uu[i] = tt[i] BY <2>1, <2>2, <5>1
          <5>3. CASE j \in DOMAIN tt
            <6>1. uu[j] = tt[j] BY <2>1, <5>3
            <6>2. QED BY <5>1, <5>2, <5>3, <6>1 DEF BeforeIn
          <5>4. CASE j = m BY <2>1, <5>1, <5>2, <5>4 DEF Held
          <5>5. QED BY <2>2, <5>1, <5>3, <5>4
        <4>3. QED BY <2>8, <4>1, <4>2 DEF BeforeIn
      <3>5. QED BY <3>1, <3>2, <3>3, <3>4
    <2>9. QED BY <2>1, <2>8 DEF uu
  <1>3. \A tt \in Seq(Seq(S)) : tt \in T
    <2> DEFINE Z == Seq(S)
    <2> HIDE DEF T, Z
    <2>1. \A tt \in Seq(Z) : tt \in T BY <1>1, <1>2, SequenceInduction DEF Z
    <2>2. QED BY <2>1 DEF Z
  <1>4. QED BY <1>3

-----------------------------------------------------------------------------
(* Sequences of the elements of a set.                                     *)

\* The sequences the library makes of a finite set hold each element once.
LEMMA SequencesOfSet ==
    ASSUME NEW S, IsFiniteSet(S)
    PROVE  /\ \A s \in SetToSeqs(S) : s \in Seq(S) /\ IsInjective(s) /\ Range(s) = S
           /\ \A s \in Seq(S) : IsInjective(s) /\ Range(s) = S => s \in SetToSeqs(S)
  <1> DEFINE n == Cardinality(S)
  <1>1. n \in Nat BY FS_CardinalityType
  <1>2. ASSUME NEW s \in SetToSeqs(S) PROVE s \in Seq(S) /\ IsInjective(s) /\ Range(s) = S
    <2>1. /\ s \in [1 .. n -> S] /\ \A i, j \in 1 .. n : i # j => s[i] # s[j]
      BY DEF SetToSeqs
    <2>2. IsInjective(s) BY <2>1 DEF IsInjective
    <2>3. s \in Injection(1 .. n, S) BY <2>1, <2>2 DEF Injection
    <2>4. IsFiniteSet(1 .. n) /\ Cardinality(1 .. n) = n BY <1>1, FS_Interval
    <2> HIDE DEF n
    <2>5. s \in Surjection(1 .. n, S) BY <2>3, <2>4, FS_Injection DEF n
    <2>6. Range(s) = S BY <2>1, <2>5 DEF Range, Surjection
    <2>7. s \in Seq(S) BY <1>1, <2>1
    <2>8. QED BY <2>2, <2>6, <2>7
  <1>3. ASSUME NEW s \in Seq(S), IsInjective(s), Range(s) = S PROVE s \in SetToSeqs(S)
    <2> DEFINE m == Len(s)
    <2>1. m \in Nat /\ DOMAIN s = 1 .. m /\ s \in [1 .. m -> S] OBVIOUS
    <2> HIDE DEF m
    <2>2. \A x \in S : \E i \in 1 .. m : s[i] = x BY <1>3, <2>1 DEF Range
    <2>3. s \in Bijection(1 .. m, S) BY <1>3, <2>1, <2>2 DEF Bijection, Injection, Surjection
    <2>4. n = m BY <2>1, <2>3, FS_CountingElements DEF ExistsBijection
    <2>5. \A i, j \in 1 .. m : i # j => s[i] # s[j] BY <1>3, <2>1 DEF IsInjective
    <2>6. QED BY <2>1, <2>4, <2>5 DEF SetToSeqs
  <1>4. QED BY <1>2, <1>3

\* There is one.
LEMMA SequenceOfSet ==
    ASSUME NEW S, IsFiniteSet(S)
    PROVE  SetToSeq(S) \in Seq(S)
  <1> DEFINE n == Cardinality(S)
  <1>1. n \in Nat /\ ExistsBijection(1 .. n, S) BY FS_CardinalityType
  <1>2. PICK f : f \in Bijection(1 .. n, S) BY <1>1 DEF ExistsBijection
  <1>3. f \in [1 .. n -> S] /\ IsInjective(f)
    BY <1>2 DEF Bijection, Injection, IsInjective
  <1>4. SetToSeq(S) \in [1 .. n -> S] BY <1>3 DEF SetToSeq
  <1>5. QED BY <1>1, <1>4

=============================================================================
