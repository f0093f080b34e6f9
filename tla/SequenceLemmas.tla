---------------------------- MODULE SequenceLemmas ----------------------------
(***************************************************************************)
(* Facts about natural numbers and sequences that the proofs of several    *)
(* components need: induction, stated with a set, and what FlattenSeq,     *)
(* which the byte streams of the models are made with, computes.           *)
(***************************************************************************)
EXTENDS Integers, SequencesExt, SequenceTheorems, WellFoundedInduction, TLAPS

(* A non-empty set of natural numbers has a least element.                 *)
LEMMA LeastNatural ==
  ASSUME NEW T, T \subseteq Nat, T # {}
  PROVE  \E n \in T : \A m \in T : n <= m
<1> DEFINE R == OpToRel(<, Nat)
<1>1. IsWellFoundedOn(R, Nat)
  BY NatLessThanWellFounded, Zenon
<1>2. \A i, j \in Nat : <<i, j>> \in R <=> i < j
  BY DEF OpToRel
<1> HIDE DEF R
<1>3. PICK n \in T : \A m \in T : ~(<<m, n>> \in R)
  BY <1>1, WFMin
<1>4. \A m \in T : ~(m < n)
  BY <1>2, <1>3
<1>5. \A m \in T : n <= m
  BY <1>4
<1> QED
  BY <1>5

(* Induction: a set that has 0 and, with n, also n + 1 has every natural   *)
(* number.                                                                 *)
LEMMA Induction ==
  ASSUME NEW P, 0 \in P, \A n \in Nat : n \in P => n + 1 \in P
  PROVE  \A n \in Nat : n \in P
<1> DEFINE T == {n \in Nat : n \notin P}
<1> SUFFICES ASSUME T # {} PROVE FALSE
  OBVIOUS
<1>1. PICK n \in T : \A m \in T : n <= m
  BY LeastNatural
<1>2. n # 0 /\ n - 1 \in Nat /\ n - 1 \notin T
  BY <1>1
<1> QED
  BY <1>1, <1>2

-----------------------------------------------------------------------------

\* f is the recursive function with which FlattenSeq is defined.
IsFlatten(f, seqs) ==
  f = [i \in 1 .. Len(seqs) |-> IF i = 1 THEN seqs[i] ELSE f[i - 1] \o seqs[i]]

LEMMA FlattenIsChosen ==
  ASSUME NEW seqs, Len(seqs) # 0
  PROVE  FlattenSeq(seqs) = (CHOOSE f : IsFlatten(f, seqs))[Len(seqs)]
  BY Zenon DEF FlattenSeq, IsFlatten

(* That function exists.                                                   *)
LEMMA FlattenExists ==
  ASSUME NEW S, NEW seqs \in Seq(Seq(S))
  PROVE  \E f \in [1 .. Len(seqs) -> Seq(S)] : IsFlatten(f, seqs)
<1> DEFINE UpTo(n) == \E f \in [1 .. n -> Seq(S)] :
                        \A i \in 1 .. n : f[i] = IF i = 1 THEN seqs[i] ELSE f[i - 1] \o seqs[i]
           P == {n \in Nat : n <= Len(seqs) => UpTo(n)}
<1>0. Len(seqs) \in Nat /\ \A i \in 1 .. Len(seqs) : seqs[i] \in Seq(S)
  OBVIOUS
<1>1. UpTo(0)
  <2>1. [i \in 1 .. 0 |-> << >>] \in [1 .. 0 -> Seq(S)] /\ 1 .. 0 = {}
    OBVIOUS
  <2> QED
    BY <2>1
<1>2. ASSUME NEW n \in Nat, n + 1 <= Len(seqs), UpTo(n) PROVE UpTo(n + 1)
  <2>1. PICK f \in [1 .. n -> Seq(S)] :
          \A i \in 1 .. n : f[i] = IF i = 1 THEN seqs[i] ELSE f[i - 1] \o seqs[i]
    BY <1>2
  <2> DEFINE e == IF n = 0 THEN seqs[1] ELSE f[n] \o seqs[n + 1]
             g == [i \in 1 .. n + 1 |-> IF i <= n THEN f[i] ELSE e]
  <2>2. e \in Seq(S)
    <3>1. CASE n = 0
      BY <1>0, <1>2, <3>1
    <3>2. CASE n # 0
      <4>1. f[n] \in Seq(S) /\ seqs[n + 1] \in Seq(S)
        BY <1>0, <1>2, <3>2
      <4> QED
        BY <3>2, <4>1
    <3> QED
      BY <3>1, <3>2
  <2> HIDE DEF e
  <2>3. /\ g \in [1 .. n + 1 -> Seq(S)]
        /\ \A i \in 1 .. n : g[i] = f[i]
        /\ g[n + 1] = e
    BY <2>2
  <2> HIDE DEF g
  <2>4. ASSUME NEW i \in 1 .. n + 1
        PROVE  g[i] = IF i = 1 THEN seqs[i] ELSE g[i - 1] \o seqs[i]
    <3>1. CASE i = n + 1
      <4>1. CASE n = 0
        BY <2>3, <3>1, <4>1 DEF e
      <4>2. CASE n # 0
        <5>1. g[i - 1] = f[n] /\ i # 1
          BY <2>3, <3>1, <4>2
        <5> QED
          BY <2>3, <3>1, <4>2, <5>1 DEF e
      <4> QED
        BY <4>1, <4>2
    <3>2. CASE i \in 1 .. n
      <4>1. i # 1 => i - 1 \in 1 .. n
        BY <3>2
      <4> QED
        BY <2>1, <2>3, <3>2, <4>1
    <3> QED
      BY <3>1, <3>2
  <2> QED
    BY <2>3, <2>4
<1> HIDE DEF UpTo
<1>3. 0 \in P
  BY <1>1
<1>4. ASSUME NEW n \in Nat, n \in P PROVE n + 1 \in P
  BY <1>0, <1>2, <1>4
<1>5. UpTo(Len(seqs))
  <2> HIDE DEF P
  <2>1. \A n \in Nat : n \in P
    BY <1>3, <1>4, Induction
  <2> QED
    BY <1>0, <2>1 DEF P
<1>6. PICK f \in [1 .. Len(seqs) -> Seq(S)] :
        \A i \in 1 .. Len(seqs) : f[i] = IF i = 1 THEN seqs[i] ELSE f[i - 1] \o seqs[i]
  BY <1>5 DEF UpTo
<1> QED
  BY <1>6 DEF IsFlatten

LEMMA FlattenValue ==
  ASSUME NEW s, NEW f, IsFlatten(f, s), NEW i \in 1 .. Len(s)
  PROVE  f[i] = IF i = 1 THEN s[i] ELSE f[i - 1] \o s[i]
  BY Zenon DEF IsFlatten

(* What it computes does not depend on what follows.                       *)
LEMMA FlattenUnique ==
  ASSUME NEW s, NEW t, NEW f, NEW g, IsFlatten(f, s), IsFlatten(g, t),
         Len(s) \in Nat, Len(t) \in Nat, Len(s) <= Len(t),
         \A i \in 1 .. Len(s) : s[i] = t[i]
  PROVE  \A i \in 1 .. Len(s) : f[i] = g[i]
<1> DEFINE P == {n \in Nat : n \in 1 .. Len(s) => f[n] = g[n]}
<1>1. 0 \in P
  OBVIOUS
<1>2. ASSUME NEW n \in Nat, n \in P PROVE n + 1 \in P
  <2> SUFFICES ASSUME n + 1 \in 1 .. Len(s) PROVE f[n + 1] = g[n + 1]
    OBVIOUS
  <2>1. PICK m \in 1 .. Len(s) : m = n + 1 /\ m \in 1 .. Len(t) /\ m - 1 = n
    OBVIOUS
  <2>2. f[m] = IF m = 1 THEN s[m] ELSE f[m - 1] \o s[m]
    BY FlattenValue
  <2>3. g[m] = IF m = 1 THEN t[m] ELSE g[m - 1] \o t[m]
    BY <2>1, FlattenValue
  <2> QED
    BY <1>2, <2>1, <2>2, <2>3
<1> HIDE DEF P
<1>3. \A n \in Nat : n \in P
  BY <1>1, <1>2, Induction
<1> QED
  BY <1>3 DEF P

(* FlattenSeq builds the concatenation from the left.                      *)
LEMMA FlattenEmpty == FlattenSeq(<< >>) = << >>
  BY DEF FlattenSeq

LEMMA FlattenIsLast ==
  ASSUME NEW s, NEW f, IsFlatten(f, s), Len(s) \in Nat \ {0}
  PROVE  FlattenSeq(s) = f[Len(s)]
<1> DEFINE h == CHOOSE f2 : IsFlatten(f2, s)
<1>1. IsFlatten(h, s)
  BY Zenon
<1>2. FlattenSeq(s) = h[Len(s)]
  BY FlattenIsChosen
<1> HIDE DEF h
<1>3. \A i \in 1 .. Len(s) : h[i] = f[i]
  BY <1>1, FlattenUnique
<1> QED
  BY <1>2, <1>3

LEMMA FlattenOneMore ==
  ASSUME NEW s, NEW t, NEW f, NEW g, IsFlatten(f, s), IsFlatten(g, t),
         Len(s) \in Nat \ {0}, Len(t) = Len(s) + 1,
         \A i \in 1 .. Len(s) : s[i] = t[i]
  PROVE  FlattenSeq(t) = FlattenSeq(s) \o t[Len(t)]
<1>1. Len(t) \in Nat \ {0} /\ Len(s) <= Len(t)
  OBVIOUS
<1>2. \A i \in 1 .. Len(s) : f[i] = g[i]
  BY <1>1, FlattenUnique
<1>3. FlattenSeq(s) = f[Len(s)] /\ FlattenSeq(t) = g[Len(t)]
  BY <1>1, FlattenIsLast
<1>4. PICK n \in 1 .. Len(t) : n = Len(t) /\ n # 1 /\ n - 1 = Len(s) /\ n - 1 \in 1 .. Len(s)
  OBVIOUS
<1>5. g[n] = IF n = 1 THEN t[n] ELSE g[n - 1] \o t[n]
  BY FlattenValue
<1> QED
  BY <1>2, <1>3, <1>4, <1>5

LEMMA FlattenAppend ==
  ASSUME NEW S, NEW s \in Seq(Seq(S)), NEW e \in Seq(S)
  PROVE  /\ FlattenSeq(s) \in Seq(S)
         /\ FlattenSeq(Append(s, e)) = FlattenSeq(s) \o e
<1>1. PICK t : t = Append(s, e)
  OBVIOUS
<1>2. PICK n \in Nat : n = Len(s)
  OBVIOUS
<1>3. /\ t \in Seq(Seq(S)) /\ Len(t) = n + 1
      /\ \A i \in 1 .. n : t[i] = s[i]
      /\ t[n + 1] = e
  BY <1>1, <1>2
<1>4. PICK f : f \in [1 .. n -> Seq(S)] /\ IsFlatten(f, s)
  BY <1>2, FlattenExists
<1>5. PICK g : g \in [1 .. n + 1 -> Seq(S)] /\ IsFlatten(g, t)
  BY <1>3, FlattenExists
<1>6. CASE n = 0
  <2>1. s = << >>
    BY <1>2, <1>6, EmptySeq
  <2>2. FlattenSeq(t) = g[1]
    <3>1. Len(t) \in Nat \ {0} /\ Len(t) = 1 /\ IsFlatten(g, t)
      BY <1>3, <1>5, <1>6
    <3>2. FlattenSeq(t) = g[Len(t)]
      BY <3>1, FlattenIsLast
    <3> QED
      BY <3>1, <3>2
  <2>3. g[1] = e
    <3>1. PICK i \in 1 .. Len(t) : i = 1 /\ IsFlatten(g, t)
      BY <1>3, <1>5, <1>6
    <3>2. g[i] = IF i = 1 THEN t[i] ELSE g[i - 1] \o t[i]
      BY <3>1, FlattenValue
    <3> QED
      BY <1>3, <1>6, <3>1, <3>2
  <2>4. FlattenSeq(s) = << >>
    BY <2>1, FlattenEmpty
  <2>5. << >> \o e = e /\ << >> \in Seq(S)
    OBVIOUS
  <2> QED
    BY <1>1, <2>2, <2>3, <2>4, <2>5
<1>7. CASE n # 0
  <2>1. /\ Len(s) \in Nat \ {0} /\ Len(t) = Len(s) + 1
        /\ \A i \in 1 .. Len(s) : s[i] = t[i]
        /\ IsFlatten(f, s) /\ IsFlatten(g, t)
    BY <1>2, <1>3, <1>4, <1>5, <1>7
  <2>2. FlattenSeq(t) = FlattenSeq(s) \o t[Len(t)]
    BY <2>1, FlattenOneMore
  <2>3. FlattenSeq(s) = f[Len(s)]
    BY <2>1, FlattenIsLast
  <2>4. FlattenSeq(s) \in Seq(S)
    BY <1>2, <1>4, <1>7, <2>3
  <2> QED
    BY <1>1, <1>2, <1>3, <2>2, <2>4
<1> QED
  BY <1>6, <1>7

-----------------------------------------------------------------------------

(* One sequence is a prefix of another when they agree as far as it goes.  *)
LEMMA PrefixMeans ==
  ASSUME NEW S, NEW s \in Seq(S), NEW t \in Seq(S)
  PROVE  IsPrefix(s, t) <=> Len(s) <= Len(t) /\ \A i \in 1 .. Len(s) : s[i] = t[i]
<1>1. SubSeq(s, 1, Len(s)) = s
  OBVIOUS
<1>2. ASSUME Len(s) <= Len(t)
      PROVE  s = SubSeq(t, 1, Len(s)) <=> \A i \in 1 .. Len(s) : s[i] = t[i]
  <2>1. /\ SubSeq(t, 1, Len(s)) \in Seq(S) /\ Len(SubSeq(t, 1, Len(s))) = Len(s)
        /\ \A i \in 1 .. Len(s) : SubSeq(t, 1, Len(s))[i] = t[i]
    BY <1>2
  <2> QED
    BY <2>1, SeqEqual
<1> QED
  BY <1>1, <1>2 DEF IsPrefix

(* Prefixes of prefixes, of what has been appended to, and of equal starts. *)
LEMMA PrefixConcat ==
  ASSUME NEW S, NEW s \in Seq(S), NEW t \in Seq(S)
  PROVE  IsPrefix(s, s \o t)
<1>1. /\ s \o t \in Seq(S) /\ Len(s) <= Len(s \o t)
      /\ \A i \in 1 .. Len(s) : (s \o t)[i] = s[i]
  OBVIOUS
<1> QED
  BY <1>1, PrefixMeans

LEMMA PrefixEmpty ==
  ASSUME NEW S, NEW t \in Seq(S)
  PROVE  IsPrefix(<< >>, t)
<1>1. << >> \in Seq(S) /\ << >> \o t = t
  OBVIOUS
<1> QED
  BY <1>1, PrefixConcat

LEMMA PrefixTransitive ==
  ASSUME NEW S, NEW s \in Seq(S), NEW t \in Seq(S), NEW u \in Seq(S),
         IsPrefix(s, t), IsPrefix(t, u)
  PROVE  IsPrefix(s, u)
<1>1. /\ Len(s) <= Len(t) /\ \A i \in 1 .. Len(s) : s[i] = t[i]
      /\ Len(t) <= Len(u) /\ \A i \in 1 .. Len(t) : t[i] = u[i]
  BY PrefixMeans
<1>2. Len(s) <= Len(u) /\ \A i \in 1 .. Len(s) : s[i] = u[i]
  BY <1>1
<1> QED
  BY <1>2, PrefixMeans

LEMMA PrefixAfter ==
  ASSUME NEW S, NEW r \in Seq(S), NEW s \in Seq(S), NEW t \in Seq(S), IsPrefix(s, t)
  PROVE  IsPrefix(r \o s, r \o t)
<1>1. Len(s) <= Len(t) /\ \A i \in 1 .. Len(s) : s[i] = t[i]
  BY PrefixMeans
<1>2. /\ r \o s \in Seq(S) /\ r \o t \in Seq(S)
      /\ Len(r \o s) = Len(r) + Len(s) /\ Len(r \o t) = Len(r) + Len(t)
      /\ Len(r) \in Nat /\ Len(s) \in Nat /\ Len(t) \in Nat
  OBVIOUS
<1>3. ASSUME NEW i \in 1 .. Len(r \o s) PROVE (r \o s)[i] = (r \o t)[i]
  <2>1. CASE i <= Len(r)
    BY <2>1
  <2>2. CASE i > Len(r)
    <3>1. i - Len(r) \in 1 .. Len(s)
      BY <1>2, <2>2
    <3>2. (r \o s)[i] = s[i - Len(r)] /\ (r \o t)[i] = t[i - Len(r)]
      BY <1>1, <1>2, <2>2
    <3> QED
      BY <1>1, <3>1, <3>2
  <2>3. i <= Len(r) \/ i > Len(r)
    BY <1>2
  <2> QED
    BY <2>1, <2>2, <2>3, Zenon
<1>4. Len(r \o s) <= Len(r \o t)
  BY <1>1, <1>2
<1> QED
  BY <1>2, <1>3, <1>4, PrefixMeans

LEMMA PrefixSubSeq ==
  ASSUME NEW S, NEW s \in Seq(S), NEW n \in 0 .. Len(s)
  PROVE  /\ SubSeq(s, 1, n) \in Seq(S) /\ IsPrefix(SubSeq(s, 1, n), s)
         /\ Len(SubSeq(s, 1, n)) = n /\ \A i \in 1 .. n : SubSeq(s, 1, n)[i] = s[i]
<1>1. /\ SubSeq(s, 1, n) \in Seq(S) /\ Len(SubSeq(s, 1, n)) = n
      /\ \A i \in 1 .. n : SubSeq(s, 1, n)[i] = s[i]
      /\ n <= Len(s)
  OBVIOUS
<1>2. IsPrefix(SubSeq(s, 1, n), s)
  BY <1>1, PrefixMeans
<1> QED
  BY <1>1, <1>2

(* The minimum of FiniteSetsExt is the least element.                      *)
LEMMA MinIsLeast ==
  ASSUME NEW T, T \subseteq Nat, T # {}
  PROVE  Min(T) \in T /\ \A m \in T : Min(T) <= m
<1>1. \E n \in T : \A m \in T : n <= m
  BY LeastNatural
<1> QED
  BY <1>1 DEF Min

-----------------------------------------------------------------------------
(* FlattenSeq and the beginnings of what it concatenates.                  *)

\* The concatenation of the first n sequences of s.
FlattenTo(s, n) == FlattenSeq(SubSeq(s, 1, n))

LEMMA FlattenTyped ==
  ASSUME NEW S, NEW s \in Seq(Seq(S))
  PROVE  FlattenSeq(s) \in Seq(S)
<1>1. << >> \in Seq(S)
  OBVIOUS
<1> QED
  BY <1>1, FlattenAppend

LEMMA FlattenToStep ==
  ASSUME NEW S, NEW s \in Seq(Seq(S))
  PROVE  /\ FlattenTo(s, 0) = << >>
         /\ FlattenTo(s, Len(s)) = FlattenSeq(s)
         /\ \A n \in 0 .. Len(s) : FlattenTo(s, n) \in Seq(S)
         /\ \A n \in 0 .. Len(s) - 1 : FlattenTo(s, n + 1) = FlattenTo(s, n) \o s[n + 1]
<1>1. SubSeq(s, 1, 0) = << >> /\ SubSeq(s, 1, Len(s)) = s
  OBVIOUS
<1>2. \A n \in 0 .. Len(s) : SubSeq(s, 1, n) \in Seq(Seq(S))
  OBVIOUS
<1>3. ASSUME NEW n \in 0 .. Len(s) - 1
      PROVE  FlattenTo(s, n + 1) = FlattenTo(s, n) \o s[n + 1]
  <2>1. PICK r \in Seq(Seq(S)), e \in Seq(S) : r = SubSeq(s, 1, n) /\ e = s[n + 1]
    <3>1. n \in 0 .. Len(s) /\ n + 1 \in 1 .. Len(s)
      OBVIOUS
    <3>2. s[n + 1] \in Seq(S)
      BY <3>1
    <3> QED
      BY <1>2, <3>1, <3>2
  <2>2. SubSeq(s, 1, n + 1) = Append(r, e)
    <3>1. PICK t : t = SubSeq(s, 1, n + 1)
      OBVIOUS
    <3>2. /\ t \in Seq(Seq(S)) /\ Len(t) = n + 1
          /\ \A i \in 1 .. n : t[i] = s[i]
          /\ t[n + 1] = s[n + 1]
      BY <3>1
    <3>3. Len(r) = n /\ \A i \in 1 .. n : r[i] = s[i]
      BY <2>1
    <3>4. /\ Append(r, e) \in Seq(Seq(S)) /\ Len(Append(r, e)) = n + 1
          /\ \A i \in 1 .. n : Append(r, e)[i] = s[i]
          /\ Append(r, e)[n + 1] = s[n + 1]
      BY <2>1, <3>3
    <3>5. \A i \in 1 .. Len(t) : t[i] = Append(r, e)[i]
      BY <3>2, <3>4
    <3>6. t = Append(r, e)
      BY <3>2, <3>4, <3>5, SeqEqual
    <3> QED
      BY <3>1, <3>6
  <2>3. FlattenSeq(Append(r, e)) = FlattenSeq(r) \o e
    BY FlattenAppend
  <2> QED
    BY <2>1, <2>2, <2>3 DEF FlattenTo
<1>4. \A n \in 0 .. Len(s) : FlattenTo(s, n) \in Seq(S)
  BY <1>2, FlattenTyped DEF FlattenTo
<1> QED
  BY <1>1, <1>3, <1>4, FlattenEmpty DEF FlattenTo

(* What the first n sequences make is the beginning of what all make.      *)
LEMMA FlattenPrefix ==
  ASSUME NEW S, NEW s \in Seq(Seq(S)), NEW n \in 0 .. Len(s)
  PROVE  IsPrefix(FlattenTo(s, n), FlattenSeq(s))
<1> DEFINE P == {m \in Nat : n + m <= Len(s) => IsPrefix(FlattenTo(s, n), FlattenTo(s, n + m))}
<1>0. FlattenTo(s, n) \in Seq(S)
  BY FlattenToStep
<1>1. 0 \in P
  <2>1. PICK a \in Seq(S) : a = FlattenTo(s, n)
    BY <1>0
  <2>2. << >> \in Seq(S) /\ a \o << >> = a
    OBVIOUS
  <2>3. IsPrefix(a, a)
    BY <2>2, PrefixConcat
  <2>4. n + 0 = n
    OBVIOUS
  <2> QED
    BY <2>1, <2>3, <2>4
<1>2. ASSUME NEW m \in Nat, m \in P PROVE m + 1 \in P
  <2> SUFFICES ASSUME n + (m + 1) <= Len(s)
               PROVE  IsPrefix(FlattenTo(s, n), FlattenTo(s, n + (m + 1)))
    OBVIOUS
  <2>1. PICK k \in 0 .. Len(s) - 1 : k = n + m /\ k + 1 = n + (m + 1) /\ k \in 0 .. Len(s)
        /\ k + 1 \in 1 .. Len(s) /\ k + 1 \in 0 .. Len(s)
    OBVIOUS
  <2>2. PICK a \in Seq(S), b \in Seq(S), c \in Seq(S), e \in Seq(S) :
          a = FlattenTo(s, n) /\ b = FlattenTo(s, k) /\ c = FlattenTo(s, k + 1) /\ e = s[k + 1]
    <3>1. FlattenTo(s, k) \in Seq(S) /\ FlattenTo(s, k + 1) \in Seq(S)
      BY <2>1, FlattenToStep
    <3>2. s[k + 1] \in Seq(S)
      BY <2>1
    <3> QED
      BY <1>0, <3>1, <3>2
  <2>3. c = b \o e
    BY <2>2, FlattenToStep
  <2>4. IsPrefix(a, b)
    BY <1>2, <2>1, <2>2
  <2>5. IsPrefix(b, c)
    BY <2>3, PrefixConcat
  <2>6. IsPrefix(a, c)
    BY <2>4, <2>5, PrefixTransitive
  <2> QED
    BY <2>1, <2>2, <2>6
<1> HIDE DEF P
<1>3. \A m \in Nat : m \in P
  BY <1>1, <1>2, Induction
<1>4. PICK m \in Nat : n + m = Len(s)
  <2>1. Len(s) - n \in Nat /\ n + (Len(s) - n) = Len(s)
    OBVIOUS
  <2> QED
    BY <2>1
<1>5. m \in P
  BY <1>3
<1>6. IsPrefix(FlattenTo(s, n), FlattenTo(s, n + m))
  BY <1>4, <1>5 DEF P
<1> QED
  BY <1>4, <1>6, FlattenToStep

(* The n elements that follow the first q.                                 *)
LEMMA PieceOf ==
  ASSUME NEW S, NEW d \in Seq(S), NEW q \in Nat, NEW n \in Nat, q + n <= Len(d)
  PROVE  /\ SubSeq(d, q + 1, q + n) \in Seq(S)
         /\ Len(SubSeq(d, q + 1, q + n)) = n
         /\ \A i \in 1 .. n : SubSeq(d, q + 1, q + n)[i] = d[q + i]
<1>1. PICK l \in Int, h \in Int : l = q + 1 /\ h = q + n
  OBVIOUS
<1>0. \A i \in l .. h : d[i] \in S
  BY <1>1
<1>2. /\ SubSeq(d, l, h) \in Seq(S)
      /\ Len(SubSeq(d, l, h)) = IF l <= h THEN h - l + 1 ELSE 0
      /\ \A i \in 1 .. h - l + 1 : SubSeq(d, l, h)[i] = d[l + i - 1]
  BY <1>0, SubSeqProperties
<1>3. h - l + 1 = n /\ (l <= h <=> n # 0) /\ \A i \in 1 .. n : l + i - 1 = q + i
  BY <1>1
<1> QED
  BY <1>1, <1>2, <1>3

\* Position a of sequence k + 1 in the concatenation; are n elements there?
PlaceOf(s, k, a) == Len(FlattenTo(s, k)) + a
Fits(s, k, a, n) == a + n <= Len(s[k + 1])

(* A piece of one of the sequences is a piece of the concatenation.        *)
LEMMA FlattenPiece ==
  ASSUME NEW S, NEW s \in Seq(Seq(S)), NEW k \in 0 .. Len(s) - 1,
         NEW a \in Nat, NEW n \in Nat, Fits(s, k, a, n)
  PROVE  /\ PlaceOf(s, k, a) + n <= Len(FlattenSeq(s))
         /\ SubSeq(FlattenSeq(s), PlaceOf(s, k, a) + 1, PlaceOf(s, k, a) + n)
              = SubSeq(s[k + 1], a + 1, a + n)
<1>0. k \in 0 .. Len(s) /\ k + 1 \in 0 .. Len(s) /\ k + 1 \in 1 .. Len(s)
  OBVIOUS
<1>1. PICK b \in Seq(S), c \in Seq(S), d \in Seq(S), e \in Seq(S) :
        b = FlattenTo(s, k) /\ c = FlattenTo(s, k + 1) /\ d = FlattenSeq(s) /\ e = s[k + 1]
  <2>1. FlattenTo(s, k) \in Seq(S) /\ FlattenTo(s, k + 1) \in Seq(S) /\ FlattenSeq(s) \in Seq(S)
    BY <1>0, FlattenToStep, FlattenTyped
  <2>2. s[k + 1] \in Seq(S)
    BY <1>0
  <2> QED
    BY <2>1, <2>2
<1>2. c = b \o e
  BY <1>1, FlattenToStep
<1>3. Len(c) <= Len(d) /\ \A i \in 1 .. Len(c) : c[i] = d[i]
  BY <1>0, <1>1, FlattenPrefix, PrefixMeans
<1>4. PICK l \in Nat : l = Len(b)
  OBVIOUS
<1>5. /\ Len(c) = l + Len(e) /\ Len(e) \in Nat /\ Len(d) \in Nat
      /\ \A i \in 1 .. Len(e) : c[l + i] = e[i]
  BY <1>2, <1>4
<1>6. a + n <= Len(e)
  BY <1>1 DEF Fits
<1>7. PICK r \in Nat : r = PlaceOf(s, k, a) /\ r = l + a
  BY <1>1, <1>4 DEF PlaceOf
<1>8. r + n <= Len(d)
  BY <1>3, <1>5, <1>6, <1>7
<1>9. PICK x \in Seq(S) : /\ x = SubSeq(d, r + 1, r + n) /\ Len(x) = n
                          /\ \A i \in 1 .. n : x[i] = d[r + i]
  <2>1. /\ SubSeq(d, r + 1, r + n) \in Seq(S)
        /\ Len(SubSeq(d, r + 1, r + n)) = n
        /\ \A i \in 1 .. n : SubSeq(d, r + 1, r + n)[i] = d[r + i]
    BY <1>8, PieceOf
  <2> QED
    BY <2>1, Zenon
<1>10. PICK y \in Seq(S) : /\ y = SubSeq(e, a + 1, a + n) /\ Len(y) = n
                           /\ \A i \in 1 .. n : y[i] = e[a + i]
  <2>1. /\ SubSeq(e, a + 1, a + n) \in Seq(S)
        /\ Len(SubSeq(e, a + 1, a + n)) = n
        /\ \A i \in 1 .. n : SubSeq(e, a + 1, a + n)[i] = e[a + i]
    BY <1>6, PieceOf
  <2> QED
    BY <2>1, Zenon
<1>11. ASSUME NEW i \in 1 .. n PROVE d[r + i] = e[a + i]
  <2>1. a + i \in 1 .. Len(e) /\ r + i = l + (a + i) /\ r + i \in 1 .. Len(c)
    BY <1>5, <1>6, <1>7
  <2> QED
    BY <1>3, <1>5, <2>1
<1>12. x = y
  <2>1. Len(x) = Len(y) /\ \A i \in 1 .. Len(x) : x[i] = y[i]
    BY <1>9, <1>10, <1>11
  <2> QED
    BY <2>1, SeqEqual
<1> QED
  BY <1>1, <1>7, <1>8, <1>9, <1>10, <1>12, Zenon

\* p is the n elements of s that follow place x.
IsPiece(p, s, x, n) == Len(p) = n /\ \A i \in 1 .. n : p[i] = s[x + i]

(* Two pieces of s that meet are one piece of it.                          *)
LEMMA TwoPieces ==
  ASSUME NEW S, NEW a \in Seq(S), NEW b \in Seq(S), NEW d \in Seq(S), NEW s, NEW x \in Nat,
         NEW n \in Nat, NEW l \in Nat,
         IsPiece(a, s, x, n), IsPiece(b, s, x + n, l), IsPiece(d, s, x, n + l)
  PROVE  d = a \o b
<1>0. /\ Len(a) = n /\ Len(b) = l /\ Len(d) = n + l
      /\ \A i \in 1 .. n : a[i] = s[x + i]
      /\ \A i \in 1 .. l : b[i] = s[x + n + i]
      /\ \A i \in 1 .. n + l : d[i] = s[x + i]
  BY Zenon DEF IsPiece
<1>1. a \o b \in Seq(S) /\ Len(a \o b) = Len(a) + Len(b)
  BY ConcatProperties
<1>2. ASSUME NEW i \in 1 .. n + l PROVE (a \o b)[i] = d[i]
  <2>0. i \in 1 .. Len(a) + Len(b) /\ (i <= n \/ i > n)
    BY <1>0
  <2>1. (a \o b)[i] = IF i <= Len(a) THEN a[i] ELSE b[i - Len(a)]
    BY <2>0, ConcatProperties
  <2>2. CASE i <= n
    <3>1. i \in 1 .. n
      BY <2>2
    <3>2. a[i] = s[x + i] /\ d[i] = s[x + i]
      BY <1>0, <3>1, Zenon
    <3> QED
      BY <1>0, <2>1, <2>2, <3>2
  <2>3. CASE i > n
    <3>1. i - n \in 1 .. l /\ x + n + (i - n) = x + i
      BY <2>3
    <3>2. b[i - n] = s[x + n + (i - n)] /\ d[i] = s[x + i]
      BY <1>0, <3>1, Zenon
    <3> QED
      BY <1>0, <2>1, <2>3, <3>1, <3>2
  <2> QED
    BY <2>0, <2>2, <2>3, Zenon
<1>3. \A i \in 1 .. Len(d) : (a \o b)[i] = d[i]
  BY <1>0, <1>2
<1>4. Len(a \o b) = Len(d)
  BY <1>0, <1>1
<1> QED
  BY <1>1, <1>3, <1>4, SeqEqual

(* What follows place x of s is what is up to place y, and the rest.       *)
LEMMA SplitAt ==
  ASSUME NEW S, NEW s \in Seq(S), NEW x \in Nat, NEW y \in Nat, x <= y, y <= Len(s)
  PROVE  /\ SubSeq(s, x + 1, y) \in Seq(S) /\ Len(SubSeq(s, x + 1, y)) = y - x
         /\ SubSeq(s, y + 1, Len(s)) \in Seq(S)
         /\ SubSeq(s, x + 1, Len(s)) = SubSeq(s, x + 1, y) \o SubSeq(s, y + 1, Len(s))
<1>1. PICK n \in Nat, l \in Nat : y = x + n /\ Len(s) = y + l
  <2>1. y - x \in Nat /\ y = x + (y - x) /\ Len(s) - y \in Nat /\ Len(s) = y + (Len(s) - y)
    OBVIOUS
  <2> QED
    BY <2>1
<1>2. /\ SubSeq(s, x + 1, x + n) \in Seq(S) /\ Len(SubSeq(s, x + 1, x + n)) = n
      /\ \A i \in 1 .. n : SubSeq(s, x + 1, x + n)[i] = s[x + i]
  BY <1>1, PieceOf
<1>3. /\ SubSeq(s, y + 1, y + l) \in Seq(S) /\ Len(SubSeq(s, y + 1, y + l)) = l
      /\ \A i \in 1 .. l : SubSeq(s, y + 1, y + l)[i] = s[y + i]
  BY <1>1, PieceOf
<1>4. PICK t \in Nat : t = n + l /\ x + t = y + l
  BY <1>1
<1>5. /\ SubSeq(s, x + 1, x + t) \in Seq(S) /\ Len(SubSeq(s, x + 1, x + t)) = t
      /\ \A i \in 1 .. t : SubSeq(s, x + 1, x + t)[i] = s[x + i]
  BY <1>1, <1>4, PieceOf
<1>6. SubSeq(s, x + 1, x + t) = SubSeq(s, x + 1, x + n) \o SubSeq(s, y + 1, y + l)
  <2>1. PICK a \in Seq(S), b \in Seq(S), d \in Seq(S) :
          /\ a = SubSeq(s, x + 1, x + n) /\ b = SubSeq(s, y + 1, y + l)
          /\ d = SubSeq(s, x + 1, x + t)
    BY <1>2, <1>3, <1>5
  <2>2. IsPiece(a, s, x, n)
    BY <1>2, <2>1, Zenon DEF IsPiece
  <2>3. IsPiece(b, s, x + n, l)
    <3>1. IsPiece(b, s, y, l)
      BY <1>3, <2>1, Zenon DEF IsPiece
    <3> QED
      BY <1>1, <3>1, Zenon
  <2>4. IsPiece(d, s, x, n + l)
    <3>1. IsPiece(d, s, x, t)
      BY <1>5, <2>1, Zenon DEF IsPiece
    <3> QED
      BY <1>4, <3>1, Zenon
  <2>5. d = a \o b
    BY <2>2, <2>3, <2>4, TwoPieces
  <2> QED
    BY <2>1, <2>5, Zenon
<1>7. n = y - x
  BY <1>1
<1> QED
  BY <1>1, <1>2, <1>3, <1>4, <1>5, <1>6, <1>7

=============================================================================
