---------------------------- MODULE OrdersProofs ----------------------------
(***************************************************************************)
(* What the operations on an order do to it: which keys they leave, that   *)
(* each stays there once, what comes after each, and that an order which   *)
(* follows a time stamp goes on to follow it.                              *)
(*                                                                         *)
(* Without is recursive in the length of its sequence.  The lemmas about   *)
(* it rest on induction over 0..n for a set of numbers (InductionUpTo),    *)
(* which follows from the well-foundedness of <, so that no predicate has  *)
(* to be passed to an induction theorem.  A lemma's conclusion is one      *)
(* operator where it has several parts, to be expanded by those that cite  *)
(* it.                                                                     *)
(***************************************************************************)
EXTENDS Orders, Integers, SequenceTheorems, FiniteSetTheorems, WellFoundedInduction, TLAPS

\* A set of numbers has a least one.
LEMMA LeastElement ==
    ASSUME NEW T, T \subseteq Nat, T # {}
    PROVE  \E n \in T : \A k \in T : n <= k
<1> DEFINE R == OpToRel(<, Nat)
<1>1. IsWellFoundedOn(R, Nat)
  BY NatLessThanWellFounded
<1>2. \A x, y \in Nat : y < x => <<y, x>> \in R
  BY DEF OpToRel
<1> HIDE DEF R
<1>3. PICK x \in T : \A y \in T : <<y, x>> \notin R
  BY <1>1, WFMin
<1>4. \A y \in T : ~(y < x)
  BY <1>2, <1>3
<1>. QED
  BY <1>4

\* Induction over 0..n for a set of numbers.
LEMMA InductionUpTo ==
    ASSUME NEW n \in Nat, NEW S, 0 \in S,
           \A i \in 0..n : i \in S /\ i + 1 <= n => i + 1 \in S
    PROVE  \A i \in 0..n : i \in S
<1> SUFFICES ASSUME NEW m \in 0..n, m \notin S PROVE FALSE
  OBVIOUS
<1>1. PICK k \in 0..n : k \notin S /\ \A j \in (0..n) \ S : k <= j
  <2>1. (0..n) \ S \subseteq Nat /\ (0..n) \ S # {}
    OBVIOUS
  <2>. QED
    BY <2>1, LeastElement
<1>2. k - 1 \in 0..n /\ k - 1 \in S
  BY <1>1
<1>. QED
  BY <1>1, <1>2

\* The recursive definition of Left has a solution, so Left is one.
IsLeft(f, s, D, n) ==
    f = [i \in 0..n |->
            IF i = 0 THEN <<>>
            ELSE IF s[i] \in D THEN f[i - 1] ELSE Append(f[i - 1], s[i])]

\* By induction over the number of entries.
LEMMA LeftExists ==
    ASSUME NEW s, NEW D, NEW n \in Nat
    PROVE  \E f : IsLeft(f, s, D, n)
<1> DEFINE S == {i \in 0..n : \E f : IsLeft(f, s, D, i)}
<1>1. 0 \in S
  <2>1. IsLeft([i \in 0..0 |-> <<>>], s, D, 0)
    BY DEF IsLeft
  <2>. QED
    BY <2>1
<1>2. ASSUME NEW i \in 0..n, i \in S, i + 1 <= n PROVE i + 1 \in S
  <2>1. PICK f : IsLeft(f, s, D, i)
    BY <1>2
  <2> DEFINE next == IF s[i + 1] \in D THEN f[i] ELSE Append(f[i], s[i + 1])
  <2> DEFINE g == [j \in 0..i + 1 |-> IF j <= i THEN f[j] ELSE next]
  <2>2. \A j \in 0..i : f[j] = IF j = 0 THEN <<>>
                            ELSE IF s[j] \in D THEN f[j - 1] ELSE Append(f[j - 1], s[j])
    BY <2>1 DEF IsLeft
  <2>3. \A j \in 0..i + 1 :
            g[j] = IF j = 0 THEN <<>>
                   ELSE IF s[j] \in D THEN g[j - 1] ELSE Append(g[j - 1], s[j])
    <3> SUFFICES ASSUME NEW j \in 0..i + 1
                 PROVE  g[j] = IF j = 0 THEN <<>>
                               ELSE IF s[j] \in D THEN g[j - 1] ELSE Append(g[j - 1], s[j])
      OBVIOUS
    <3> HIDE DEF next
    <3>1. CASE j <= i
      BY <2>2, <3>1
    <3>2. CASE j = i + 1
      BY <3>2 DEF next
    <3>. QED
      BY <3>1, <3>2
  <2>4. IsLeft(g, s, D, i + 1)
    <3> HIDE DEF next
    <3>. QED BY <2>3 DEF IsLeft
  <2>. QED
    BY <1>2, <2>4
<1> HIDE DEF S
<1>3. \A i \in 0..n : i \in S
  BY <1>1, <1>2, InductionUpTo
<1>. QED
  BY <1>3 DEF S

\* Left satisfies the equations it is defined by.
LEMMA LeftUnfolds ==
    ASSUME NEW s, Len(s) \in Nat, NEW D
    PROVE  /\ Left(s, D)[0] = <<>>
           /\ \A i \in 1..Len(s) :
                Left(s, D)[i] = IF s[i] \in D THEN Left(s, D)[i - 1]
                                ELSE Append(Left(s, D)[i - 1], s[i])
<1>1. IsLeft(Left(s, D), s, D, Len(s))
  <2> DEFINE f == CHOOSE f : IsLeft(f, s, D, Len(s))
  <2>1. IsLeft(f, s, D, Len(s))
    BY LeftExists
  <2>2. Left(s, D) = f
    BY DEF Left, IsLeft
  <2>. QED
    BY <2>1, <2>2
<1>2. \A i \in 0..Len(s) :
        Left(s, D)[i] = IF i = 0 THEN <<>>
                        ELSE IF s[i] \in D THEN Left(s, D)[i - 1]
                        ELSE Append(Left(s, D)[i - 1], s[i])
  <2> SUFFICES ASSUME NEW f, IsLeft(f, s, D, Len(s)), NEW i \in 0..Len(s)
               PROVE  f[i] = IF i = 0 THEN <<>>
                             ELSE IF s[i] \in D THEN f[i - 1] ELSE Append(f[i - 1], s[i])
    BY <1>1
  <2>. QED
    BY DEF IsLeft
<1>3. 0 \in 0..Len(s) /\ \A i \in 1..Len(s) : i \in 0..Len(s) /\ i # 0
  OBVIOUS
<1>. QED
  BY <1>2, <1>3

\* t is the subsequence of the first n entries of s that are not in D: e gives
\* the place of each entry of t in s.
IsPick(e, t, s, D, n) ==
    /\ e \in [1..Len(t) -> 1..n]
    /\ \A i \in 1..Len(t) : t[i] = s[e[i]] /\ s[e[i]] \notin D
    /\ \A i, j \in 1..Len(t) : i < j => e[i] < e[j]
    /\ \A k \in 1..n : s[k] \notin D => \E i \in 1..Len(t) : e[i] = k

\* A new entry at the end is kept or taken out, and changes nothing before it.
LEMMA WithoutAppend ==
    ASSUME NEW S, NEW s \in Seq(S), NEW x \in S, NEW D
    PROVE  Without(Append(s, x), D) =
               IF x \in D THEN Without(s, D) ELSE Append(Without(s, D), x)
<1> DEFINE t == Append(s, x)
           n == Len(s)
           I == {i \in 0..n : Left(t, D)[i] = Left(s, D)[i]}
<1>1. /\ n \in Nat /\ Len(t) = n + 1 /\ t[n + 1] = x
      /\ \A i \in 1..n : t[i] = s[i]
  OBVIOUS
<1> HIDE DEF t, n
<1>2. /\ Left(s, D)[0] = <<>>
      /\ \A i \in 1..n : Left(s, D)[i] = IF s[i] \in D THEN Left(s, D)[i - 1]
                                         ELSE Append(Left(s, D)[i - 1], s[i])
  BY <1>1, LeftUnfolds DEF n
<1>3. /\ Left(t, D)[0] = <<>>
      /\ \A i \in 1..n + 1 : Left(t, D)[i] = IF t[i] \in D THEN Left(t, D)[i - 1]
                                             ELSE Append(Left(t, D)[i - 1], t[i])
  BY <1>1, LeftUnfolds
<1>4. 0 \in I
  BY <1>1, <1>2, <1>3
<1>5. ASSUME NEW i \in 0..n, i \in I, i + 1 <= n PROVE i + 1 \in I
  <2>1. i + 1 \in 1..n /\ i + 1 \in 1..n + 1 /\ i + 1 \in 0..n /\ (i + 1) - 1 = i
    BY <1>1, <1>5
  <2>2. Left(s, D)[i + 1] = IF s[i + 1] \in D THEN Left(s, D)[i] ELSE Append(Left(s, D)[i], s[i + 1])
    BY <1>2, <2>1
  <2>3. Left(t, D)[i + 1] = IF t[i + 1] \in D THEN Left(t, D)[i] ELSE Append(Left(t, D)[i], t[i + 1])
    BY <1>3, <2>1
  <2>4. t[i + 1] = s[i + 1] /\ Left(t, D)[i] = Left(s, D)[i]
    BY <1>1, <1>5, <2>1
  <2>. QED
    BY <2>1, <2>2, <2>3, <2>4
<1> HIDE DEF I
<1>6. \A i \in 0..n : i \in I
  BY <1>1, <1>4, <1>5, InductionUpTo
<1>7. Left(t, D)[n] = Left(s, D)[n]
  BY <1>1, <1>6 DEF I
<1>8. Left(t, D)[n + 1] = IF x \in D THEN Left(t, D)[n] ELSE Append(Left(t, D)[n], x)
  <2>1. n + 1 \in 1..n + 1 /\ (n + 1) - 1 = n
    BY <1>1
  <2>. QED
    BY <1>1, <1>3, <2>1
<1>. QED
  BY <1>1, <1>7, <1>8 DEF Without, t, n

\* The next entry is in D, or is picked.
LEMMA PickSame ==
    ASSUME NEW s, NEW D, NEW i \in Nat, NEW t, Len(t) \in Nat,
           NEW e, IsPick(e, t, s, D, i), s[i + 1] \in D
    PROVE  IsPick(e, t, s, D, i + 1)
<1>1. /\ e \in [1..Len(t) -> 1..i + 1]
      /\ \A k \in 1..i + 1 : k \in 1..i \/ k = i + 1
  BY DEF IsPick
<1>. QED
  BY <1>1 DEF IsPick

\* The same for an entry that is not in D.
LEMMA PickNext ==
    ASSUME NEW S, NEW s \in Seq(S), NEW D, NEW i \in 0..Len(s), i + 1 <= Len(s),
           NEW t \in Seq(S), Len(t) <= i, NEW e, IsPick(e, t, s, D, i),
           s[i + 1] \notin D
    PROVE  /\ Append(t, s[i + 1]) \in Seq(S) /\ Len(Append(t, s[i + 1])) <= i + 1
           /\ \E d : IsPick(d, Append(t, s[i + 1]), s, D, i + 1)
<1> DEFINE n == Len(t)
           u == Append(t, s[i + 1])
           d == [j \in 1..n + 1 |-> IF j <= n THEN e[j] ELSE i + 1]
<1>0. i + 1 \in 1..Len(s) /\ s[i + 1] \in S
  OBVIOUS
<1>1. /\ u \in Seq(S) /\ Len(u) = n + 1 /\ u[n + 1] = s[i + 1]
      /\ \A j \in 1..n : u[j] = t[j]
  BY <1>0
<1>2. /\ n \in Nat /\ n <= i /\ i \in Nat
      /\ e \in [1..n -> 1..i]
      /\ \A j \in 1..n : t[j] = s[e[j]] /\ s[e[j]] \notin D
      /\ \A j, k \in 1..n : j < k => e[j] < e[k]
      /\ \A k \in 1..i : s[k] \notin D => \E j \in 1..n : e[j] = k
  BY DEF IsPick
<1> HIDE DEF u, n
<1>3. d \in [1..n + 1 -> 1..i + 1] /\ d[n + 1] = i + 1 /\ \A j \in 1..n : d[j] = e[j] /\ d[j] \in 1..i
  BY <1>2
<1>4. \A j \in 1..n + 1 : j \in 1..n \/ j = n + 1
  BY <1>2
<1> HIDE DEF d
<1>5. \A j \in 1..n + 1 : u[j] = s[d[j]] /\ s[d[j]] \notin D
  BY <1>1, <1>2, <1>3, <1>4
<1>6. \A j, k \in 1..n + 1 : j < k => d[j] < d[k]
  <2> SUFFICES ASSUME NEW j \in 1..n + 1, NEW k \in 1..n + 1, j < k PROVE d[j] < d[k]
    OBVIOUS
  <2>1. j \in 1..n /\ d[j] = e[j] /\ d[j] < i + 1
    BY <1>2, <1>3, <1>4
  <2>. QED
    BY <1>2, <1>3, <1>4, <2>1
<1>7. \A k \in 1..i + 1 : s[k] \notin D => \E j \in 1..n + 1 : d[j] = k
  <2> SUFFICES ASSUME NEW k \in 1..i + 1, s[k] \notin D PROVE \E j \in 1..n + 1 : d[j] = k
    OBVIOUS
  <2>1. CASE k = i + 1
    <3>1. n + 1 \in 1..n + 1
      BY <1>2
    <3>. QED
      BY <1>3, <2>1, <3>1
  <2>2. CASE k \in 1..i
    BY <1>2, <1>3, <2>2
  <2>. QED
    BY <1>2, <2>1, <2>2
<1>8. IsPick(d, u, s, D, i + 1)
  BY <1>1, <1>3, <1>5, <1>6, <1>7 DEF IsPick
<1>. QED
  BY <1>1, <1>2, <1>8 DEF u

\* What is left of the first n entries is picked from them.
LEMMA LeftPicks ==
    ASSUME NEW S, NEW s \in Seq(S), NEW D, NEW n \in 0..Len(s)
    PROVE  /\ Left(s, D)[n] \in Seq(S) /\ Len(Left(s, D)[n]) <= n
           /\ \E e : IsPick(e, Left(s, D)[n], s, D, n)
<1> DEFINE f == Left(s, D)
           P(i) == f[i] \in Seq(S) /\ Len(f[i]) <= i /\ \E e : IsPick(e, f[i], s, D, i)
           T == {i \in 0..Len(s) : P(i)}
<1>0. Len(s) \in Nat /\ \A i \in 1..Len(s) : s[i] \in S
  OBVIOUS
<1>1. 0 \in T
  <2>1. f[0] = <<>>
    BY <1>0, LeftUnfolds
  <2>2. IsPick(<<>>, <<>>, s, D, 0)
    BY DEF IsPick
  <2> HIDE DEF f
  <2>3. P(0)
    BY <2>1, <2>2
  <2> HIDE DEF P
  <2>. QED
    BY <1>0, <2>3
<1>2. ASSUME NEW i \in 0..Len(s), i \in T, i + 1 <= Len(s) PROVE i + 1 \in T
  <2>1. f[i] \in Seq(S) /\ Len(f[i]) <= i
    BY <1>2
  <2>2. PICK e : IsPick(e, f[i], s, D, i)
    BY <1>2
  <2>3. i + 1 \in 1..Len(s) /\ i + 1 - 1 = i
    BY <1>0, <1>2
  <2>4. f[i + 1] = IF s[i + 1] \in D THEN f[i] ELSE Append(f[i], s[i + 1])
    <3>1. f[i + 1] = IF s[i + 1] \in D THEN f[i + 1 - 1] ELSE Append(f[i + 1 - 1], s[i + 1])
      BY <1>0, <2>3, LeftUnfolds
    <3>. QED
      BY <2>3, <3>1
  <2> HIDE DEF f
  <2>5. CASE s[i + 1] \in D
    <3>1. IsPick(e, f[i], s, D, i + 1)
      BY <2>1, <2>2, <2>5, PickSame
    <3>2. P(i + 1)
      BY <2>1, <2>4, <2>5, <3>1
    <3>. QED
      BY <2>3, <3>2
  <2>6. CASE s[i + 1] \notin D
    <3>1. P(i + 1)
      BY <1>2, <2>1, <2>2, <2>4, <2>6, PickNext
    <3>. QED
      BY <2>3, <3>1
  <2>. QED
    BY <2>5, <2>6
<1> HIDE DEF T
<1>3. n \in T
  BY <1>0, <1>1, <1>2, InductionUpTo
<1>. QED
  BY <1>3 DEF T

\* Without(s, D) is the subsequence of s of what is not in D.
LEMMA WithoutPicks ==
    ASSUME NEW S, NEW s \in Seq(S), NEW D
    PROVE  /\ Without(s, D) \in Seq(S) /\ Len(Without(s, D)) <= Len(s)
           /\ \E e : IsPick(e, Without(s, D), s, D, Len(s))
  BY LeftPicks DEF Without

\* j comes after i in t only if it did in s.
Ordered(t, s) ==
    \A i, j \in DOMAIN t : i < j => \E k, l \in DOMAIN s : k < l /\ t[i] = s[k] /\ t[j] = s[l]

\* What Without promises.
IsWithout(t, s, D, S) ==
    /\ t \in Seq(S)
    /\ Len(t) <= Len(s)
    /\ Keys(t) = Keys(s) \ D
    /\ Distinct(s) => Distinct(t)
    /\ Ordered(t, s)

\* OrderedDict.pop keeps the rest, in its order.
LEMMA WithoutProperties ==
    ASSUME NEW S, NEW s \in Seq(S), NEW D
    PROVE  IsWithout(Without(s, D), s, D, S)
<1> DEFINE t == Without(s, D)
<1>1. t \in Seq(S) /\ Len(t) <= Len(s)
  BY WithoutPicks
<1>2. PICK e : IsPick(e, t, s, D, Len(s))
  BY WithoutPicks
<1> HIDE DEF t
<1>3. DOMAIN t = 1..Len(t) /\ DOMAIN s = 1..Len(s) /\ Len(t) \in Nat /\ Len(s) \in Nat
  BY <1>1
<1>4. Keys(t) = Keys(s) \ D
  BY <1>2, <1>3 DEF Keys, IsPick
<1>5. ASSUME Distinct(s) PROVE Distinct(t)
  <2> SUFFICES ASSUME NEW i \in 1..Len(t), NEW j \in 1..Len(t), t[i] = t[j] PROVE i = j
    BY <1>3 DEF Distinct
  <2>1. e[i] = e[j]
    BY <1>2, <1>3, <1>5 DEF IsPick, Distinct
  <2>2. (i < j => e[i] < e[j]) /\ (j < i => e[j] < e[i]) /\ e[i] \in Nat
    BY <1>2, <1>3 DEF IsPick
  <2>. QED
    BY <1>3, <2>1, <2>2
<1>6. Ordered(t, s)
  <2> SUFFICES ASSUME NEW i \in 1..Len(t), NEW j \in 1..Len(t), i < j
               PROVE  \E k, l \in 1..Len(s) : k < l /\ t[i] = s[k] /\ t[j] = s[l]
    BY <1>3 DEF Ordered
  <2>. QED
    BY <1>2 DEF IsPick
<1>. QED
  BY <1>1, <1>4, <1>5, <1>6 DEF t, IsWithout

\* What WithoutOldest promises.
IsRest(t, s, n, S) ==
    /\ t \in Seq(S)
    /\ Len(t) = Len(s) - n
    /\ \A i \in 1..Len(s) - n : t[i] = s[i + n]
    /\ Keys(t) = {s[i] : i \in n + 1..Len(s)}
    /\ Distinct(s) => Distinct(t)
    /\ Ordered(t, s)

\* popitem(last=False) keeps the rest, in its order.
LEMMA WithoutOldestProperties ==
    ASSUME NEW S, NEW s \in Seq(S), NEW n \in 0..Len(s)
    PROVE  IsRest(WithoutOldest(s, n), s, n, S)
<1> DEFINE t == WithoutOldest(s, n)
<1>1. t \in Seq(S) /\ Len(t) = Len(s) - n /\ \A i \in 1..Len(s) - n : t[i] = s[i + n]
  BY SubSeqProperties DEF WithoutOldest
<1>2. DOMAIN t = 1..Len(s) - n /\ DOMAIN s = 1..Len(s) /\ Len(s) \in Nat /\ n \in Nat
  BY <1>1
<1> HIDE DEF t
<1>3. \A i \in DOMAIN t : i + n \in n + 1..Len(s) /\ i + n \in DOMAIN s /\ t[i] = s[i + n]
  BY <1>1, <1>2
<1>4. Keys(t) = {s[i] : i \in n + 1..Len(s)}
  <2>1. ASSUME NEW i \in n + 1..Len(s) PROVE s[i] \in Keys(t)
    <3>1. i - n \in DOMAIN t /\ i - n + n = i
      BY <1>2
    <3>2. t[i - n] = s[i]
      BY <1>3, <3>1
    <3>. QED
      BY <3>1, <3>2 DEF Keys
  <2>2. ASSUME NEW x \in Keys(t) PROVE \E i \in n + 1..Len(s) : x = s[i]
    BY <1>3 DEF Keys
  <2>. QED
    BY <2>1, <2>2
<1>5. ASSUME Distinct(s) PROVE Distinct(t)
  <2> SUFFICES ASSUME NEW i \in DOMAIN t, NEW j \in DOMAIN t, t[i] = t[j] PROVE i = j
    BY DEF Distinct
  <2>1. i + n = j + n
    BY <1>3, <1>5 DEF Distinct
  <2>. QED
    BY <1>2, <2>1
<1>6. Ordered(t, s)
  <2> SUFFICES ASSUME NEW i \in DOMAIN t, NEW j \in DOMAIN t, i < j
               PROVE  \E k, l \in DOMAIN s : k < l /\ t[i] = s[k] /\ t[j] = s[l]
    BY DEF Ordered
  <2>1. i + n < j + n
    BY <1>2
  <2>. QED
    BY <1>3, <2>1
<1>. QED
  BY <1>1, <1>4, <1>5, <1>6 DEF t, IsRest

\* The number of keys in a stretch of s.
LEMMA StretchCardinality ==
    ASSUME NEW S, NEW s \in Seq(S), Distinct(s), NEW a \in 1..Len(s) + 1
    PROVE  /\ IsFiniteSet({s[i] : i \in a..Len(s)})
           /\ Cardinality({s[i] : i \in a..Len(s)}) = Len(s) - a + 1
<1> DEFINE I == a..Len(s)
           f == [i \in I |-> s[i]]
<1>1. /\ Len(s) \in Nat /\ DOMAIN s = 1..Len(s)
      /\ IsFiniteSet(I) /\ Cardinality(I) = Len(s) - a + 1
  <2>1. Len(s) \in Nat /\ DOMAIN s = 1..Len(s) /\ a \in Int /\ Len(s) \in Int
    OBVIOUS
  <2>2. IsFiniteSet(I) /\ Cardinality(I) = IF a > Len(s) THEN 0 ELSE Len(s) - a + 1
    BY <2>1, FS_Interval
  <2>3. a > Len(s) => Len(s) - a + 1 = 0
    OBVIOUS
  <2>. QED
    BY <2>1, <2>2, <2>3
<1>2. I \subseteq DOMAIN s
  BY <1>1
<1> HIDE DEF I
<1>3. f \in Bijection(I, {s[i] : i \in I})
  <2>1. \A i, j \in I : f[i] = f[j] => i = j
    BY <1>2 DEF Distinct
  <2>. QED
    BY <2>1 DEF Bijection, Injection, Surjection, IsInjective
<1>4. ExistsBijection(I, {s[i] : i \in I})
  BY <1>3 DEF ExistsBijection
<1>. QED
  BY <1>1, <1>4, FS_Bijection DEF I

\* An order is as long as it has keys.
LEMMA KeysCardinality ==
    ASSUME NEW S, NEW s \in Seq(S), Distinct(s)
    PROVE  IsFiniteSet(Keys(s)) /\ Cardinality(Keys(s)) = Len(s)
<1> DEFINE K == {s[i] : i \in 1..Len(s)}
<1>1. Len(s) \in Nat /\ Keys(s) = K /\ 1 \in 1..Len(s) + 1
  BY DEF Keys
<1>2. IsFiniteSet(K) /\ Cardinality(K) = Len(s) - 1 + 1
  BY <1>1, StretchCardinality
<1> HIDE DEF K
<1>. QED
  BY <1>1, <1>2

\* What comes after the i-th key.
After(s, i) == {s[j] : j \in i + 1..Len(s)}

\* What comes after a key once others are taken out.
LEMMA AfterWithout ==
    ASSUME NEW S, NEW s \in Seq(S), Distinct(s), NEW D,
           NEW i \in DOMAIN Without(s, D), NEW p \in DOMAIN s, Without(s, D)[i] = s[p]
    PROVE  After(Without(s, D), i) = After(s, p) \ D
<1> DEFINE t == Without(s, D)
<1>1. t \in Seq(S)
  BY WithoutPicks
<1>2. PICK e : IsPick(e, t, s, D, Len(s))
  BY WithoutPicks
<1>3. i \in DOMAIN t /\ t[i] = s[p]
  OBVIOUS
<1> HIDE DEF t
<1>4. DOMAIN t = 1..Len(t) /\ DOMAIN s = 1..Len(s) /\ Len(t) \in Nat /\ Len(s) \in Nat
  BY <1>1
<1>5. e[i] = p
  BY <1>2, <1>3, <1>4 DEF IsPick, Distinct
<1>6. ASSUME NEW j \in i + 1..Len(t) PROVE t[j] \in After(s, p) \ D
  <2>1. j \in 1..Len(t) /\ i < j /\ e[j] \in 1..Len(s)
    BY <1>2, <1>3, <1>4 DEF IsPick
  <2>2. e[i] < e[j] /\ t[j] = s[e[j]] /\ t[j] \notin D
    BY <1>2, <1>3, <1>4, <2>1 DEF IsPick
  <2>3. e[j] \in p + 1..Len(s)
    BY <1>4, <1>5, <2>1, <2>2
  <2>. QED
    BY <2>2, <2>3 DEF After
<1>7. ASSUME NEW k \in p + 1..Len(s), s[k] \notin D PROVE s[k] \in After(t, i)
  <2>1. k \in 1..Len(s) /\ p < k
    BY <1>4
  <2>2. PICK j \in 1..Len(t) : e[j] = k
    BY <1>2, <1>7, <2>1 DEF IsPick
  <2>3. t[j] = s[k]
    BY <1>2, <2>2 DEF IsPick
  <2>4. ~(j < i) /\ j # i
    <3>1. j < i => e[j] < e[i]
      BY <1>2, <1>3, <1>4 DEF IsPick
    <3>. QED
      BY <1>4, <1>5, <2>1, <2>2, <3>1
  <2>5. j \in i + 1..Len(t)
    BY <1>3, <1>4, <2>2, <2>4
  <2>. QED
    BY <2>3, <2>5 DEF After
<1>8. After(t, i) = After(s, p) \ D
  BY <1>6, <1>7 DEF After
<1>. QED
  BY <1>8 DEF t

\* What comes after a key stays when older ones go.
LEMMA AfterWithoutOldest ==
    ASSUME NEW S, NEW s \in Seq(S), NEW n \in 0..Len(s), NEW i \in DOMAIN WithoutOldest(s, n)
    PROVE  i + n \in DOMAIN s /\ After(WithoutOldest(s, n), i) = After(s, i + n)
<1> DEFINE t == WithoutOldest(s, n)
<1>1. /\ t \in Seq(S) /\ Len(t) = Len(s) - n /\ \A j \in 1..Len(s) - n : t[j] = s[j + n]
  BY WithoutOldestProperties DEF IsRest
<1>2. i \in DOMAIN t
  OBVIOUS
<1> HIDE DEF t
<1>3. i \in 1..Len(s) - n /\ Len(s) \in Nat /\ n \in Nat /\ DOMAIN s = 1..Len(s)
  BY <1>1, <1>2
<1>4. ASSUME NEW j \in i + 1..Len(s) - n PROVE t[j] \in After(s, i + n)
  <2>1. j + n \in i + n + 1..Len(s) /\ t[j] = s[j + n]
    BY <1>1, <1>3
  <2>. QED
    BY <2>1 DEF After
<1>5. ASSUME NEW k \in i + n + 1..Len(s) PROVE s[k] \in After(t, i)
  <2>1. k - n \in i + 1..Len(s) - n /\ k - n \in 1..Len(s) - n /\ k - n + n = k
    BY <1>3
  <2>2. t[k - n] = s[k]
    BY <1>1, <2>1
  <2>. QED
    BY <1>1, <2>1, <2>2 DEF After
<1>6. After(t, i) = After(s, i + n)
  BY <1>1, <1>4, <1>5 DEF After
<1>. QED
  BY <1>3, <1>6 DEF t

\* What MovedToEnd promises: x comes after every other key.
IsMoved(t, s, x, S) ==
    /\ t \in Seq(S) /\ Len(t) \in 1..Len(s) + 1
    /\ x \in Keys(s) => Len(t) = Len(s)
    /\ Keys(t) = Keys(s) \cup {x}
    /\ Distinct(t)
    /\ t[Len(t)] = x /\ After(t, Len(t)) = {}
    /\ \A i \in 1..Len(t) - 1 :
          \E p \in DOMAIN s : t[i] = s[p] /\ t[i] # x /\ After(t, i) = After(s, p) \cup {x}

\* move_to_end, or the insertion of a new key.
LEMMA MovedToEndProperties ==
    ASSUME NEW S, NEW s \in Seq(S), Distinct(s), NEW x \in S
    PROVE  IsMoved(MovedToEnd(s, x), s, x, S)
<1> DEFINE t == MovedToEnd(s, x)
<1> DEFINE w == Without(s, {x})
           n == Len(w)
<1>1. /\ w \in Seq(S) /\ Len(w) <= Len(s) /\ Keys(w) = Keys(s) \ {x} /\ Distinct(w)
  BY WithoutProperties DEF IsWithout
<1>2. \A i \in DOMAIN w, p \in DOMAIN s : w[i] = s[p] => After(w, i) = After(s, p) \ {x}
  BY AfterWithout
<1>3. t = Append(w, x)
  BY DEF MovedToEnd
<1> HIDE DEF w
<1>4. /\ n \in Nat /\ Len(s) \in Nat /\ DOMAIN w = 1..n /\ DOMAIN s = 1..Len(s)
      /\ t \in Seq(S) /\ Len(t) = n + 1 /\ t[n + 1] = x
      /\ \A i \in 1..n : t[i] = w[i]
  BY <1>1, <1>3
<1> HIDE DEF n, t
<1>5. /\ DOMAIN t = 1..n + 1 /\ \A i \in 1..n + 1 : i \in 1..n \/ i = n + 1
      /\ 1..n \subseteq 1..n + 1 /\ n + 1 \in 1..n + 1
  BY <1>4
<1>6. Keys(t) = Keys(s) \cup {x}
  <2>1. Keys(t) = Keys(w) \cup {x}
    BY <1>4, <1>5 DEF Keys
  <2>2. Keys(w) \cup {x} = Keys(s) \cup {x}
    BY <1>1
  <2>. QED
    BY <2>1, <2>2
<1>7. Distinct(t)
  <2>1. \A i \in 1..n : t[i] # x
    BY <1>1, <1>4 DEF Keys
  <2> SUFFICES ASSUME NEW i \in 1..n + 1, NEW j \in 1..n + 1, t[i] = t[j] PROVE i = j
    BY <1>5 DEF Distinct
  <2>. QED
    BY <1>1, <1>4, <1>5, <2>1 DEF Distinct
<1>8. ASSUME x \in Keys(s) PROVE n + 1 = Len(s)
  <2>1. IsFiniteSet(Keys(s)) /\ Cardinality(Keys(s)) = Len(s)
    BY KeysCardinality
  <2>2. Cardinality(Keys(w)) = n
    BY <1>1, KeysCardinality DEF n
  <2> DEFINE a == Cardinality(Keys(s))
             b == Cardinality(Keys(s) \ {x})
  <2>3. b = a - 1
    BY <1>8, <2>1, FS_RemoveElement
  <2>4. b = n
    BY <1>1, <2>2
  <2>5. a = Len(s)
    BY <2>1
  <2>6. n \in Nat /\ Len(s) \in Nat
    BY <1>4
  <2> HIDE DEF a, b
  <2>. QED
    BY <2>3, <2>4, <2>5, <2>6
<1>9. After(t, n + 1) = {}
  BY <1>4 DEF After
<1>10. ASSUME NEW i \in 1..n
       PROVE  \E p \in DOMAIN s : t[i] = s[p] /\ t[i] # x /\ After(t, i) = After(s, p) \cup {x}
  <2>1. t[i] \in Keys(s) \ {x} /\ t[i] = w[i]
    BY <1>1, <1>4 DEF Keys
  <2>2. PICK p \in DOMAIN s : w[i] = s[p]
    BY <2>1 DEF Keys
  <2>3. After(w, i) = After(s, p) \ {x}
    BY <1>2, <1>4, <2>2
  <2>4. After(t, i) = After(w, i) \cup {x}
    <3>1. \A j \in i + 1..n : j \in 1..n /\ j \in i + 1..n + 1
      BY <1>4
    <3>2. \A j \in i + 1..n + 1 : j \in i + 1..n \/ j = n + 1
      BY <1>4
    <3>3. n + 1 \in i + 1..n + 1
      BY <1>4
    <3>4. Len(w) = n
      BY DEF n
    <3>. QED
      BY <1>4, <3>1, <3>2, <3>3, <3>4 DEF After
  <2>. QED
    BY <2>1, <2>2, <2>3, <2>4
<1>11. n = Len(t) - 1 /\ Len(t) \in 1..Len(s) + 1
  BY <1>1, <1>4 DEF n
<1>. QED
  BY <1>4, <1>6, <1>7, <1>8, <1>9, <1>10, <1>11 DEF IsMoved, t

\* The same for a key that was not there.
IsAppended(t, s, x, S) ==
    /\ t \in Seq(S) /\ Len(t) = Len(s) + 1
    /\ Keys(t) = Keys(s) \cup {x}
    /\ Distinct(t)
    /\ \A i \in 1..Len(s) : t[i] = s[i] /\ After(t, i) = After(s, i) \cup {x}
    /\ t[Len(t)] = x /\ After(t, Len(t)) = {}

\* An assignment to a new key of an OrderedDict.
LEMMA AppendNewProperties ==
    ASSUME NEW S, NEW s \in Seq(S), Distinct(s), NEW x \in S, x \notin Keys(s)
    PROVE  IsAppended(Append(s, x), s, x, S)
<1> DEFINE t == Append(s, x)
           n == Len(s)
<1>1. /\ n \in Nat /\ DOMAIN s = 1..n
      /\ t \in Seq(S) /\ Len(t) = n + 1 /\ t[n + 1] = x
      /\ \A i \in 1..n : t[i] = s[i]
  OBVIOUS
<1> HIDE DEF t, n
<1>2. DOMAIN t = 1..n + 1 /\ \A i \in 1..n + 1 : i \in 1..n \/ i = n + 1
  BY <1>1
<1>3. Keys(t) = Keys(s) \cup {x}
  <2>1. 1..n \subseteq 1..n + 1 /\ n + 1 \in 1..n + 1
    BY <1>1
  <2>. QED
    BY <1>1, <1>2, <2>1 DEF Keys
<1>4. Distinct(t)
  <2>1. \A i \in 1..n : t[i] # x
    BY <1>1 DEF Keys
  <2> SUFFICES ASSUME NEW i \in 1..n + 1, NEW j \in 1..n + 1, t[i] = t[j] PROVE i = j
    BY <1>2 DEF Distinct
  <2>. QED
    BY <1>1, <1>2, <2>1 DEF Distinct
<1>5. ASSUME NEW i \in 1..n PROVE After(t, i) = After(s, i) \cup {x}
  <2>1. \A j \in i + 1..n : j \in 1..n /\ j \in i + 1..n + 1
    BY <1>1
  <2>2. \A j \in i + 1..n + 1 : j \in i + 1..n \/ j = n + 1
    BY <1>1
  <2>3. n + 1 \in i + 1..n + 1
    BY <1>1
  <2>4. Len(s) = n
    BY DEF n
  <2>. QED
    BY <1>1, <2>1, <2>2, <2>3, <2>4 DEF After
<1>6. After(t, n + 1) = {}
  BY <1>1 DEF After
<1>. QED
  BY <1>1, <1>3, <1>4, <1>5, <1>6 DEF IsAppended, t, n

----------------------------------------------------------------------------
(***************************************************************************)
(* Orders that follow a time stamp: no key is older than the one before.   *)
(***************************************************************************)
Follows(s, f) == \A i \in DOMAIN s : \A y \in After(s, i) : f[s[i]] <= f[y]

\* What comes after a key is a key.
LEMMA AfterAreKeys ==
    ASSUME NEW S, NEW s \in Seq(S), NEW i \in DOMAIN s
    PROVE  After(s, i) \subseteq Keys(s)
  BY DEF After, Keys

\* Removal keeps the order of time.
LEMMA FollowsWithout ==
    ASSUME NEW S, NEW s \in Seq(S), Distinct(s), NEW D, NEW f, Follows(s, f)
    PROVE  Follows(Without(s, D), f)
<1> DEFINE t == Without(s, D)
<1>1. IsWithout(t, s, D, S) /\ \A i \in DOMAIN t, p \in DOMAIN s : t[i] = s[p] => After(t, i) = After(s, p) \ D
  BY WithoutProperties, AfterWithout
<1> HIDE DEF t
<1>2. ASSUME NEW i \in DOMAIN t, NEW y \in After(t, i) PROVE f[t[i]] <= f[y]
  <2>1. t[i] \in Keys(s)
    BY <1>1 DEF IsWithout, Keys
  <2>2. PICK p \in DOMAIN s : t[i] = s[p]
    BY <2>1 DEF Keys
  <2>. QED
    BY <1>1, <1>2, <2>2 DEF Follows
<1>. QED
  BY <1>2 DEF Follows, t

\* So does the removal of the oldest.
LEMMA FollowsOldest ==
    ASSUME NEW S, NEW s \in Seq(S), NEW n \in 0..Len(s), NEW f, Follows(s, f)
    PROVE  Follows(WithoutOldest(s, n), f)
<1> DEFINE t == WithoutOldest(s, n)
<1>1. IsRest(t, s, n, S) /\ \A i \in DOMAIN t : i + n \in DOMAIN s /\ After(t, i) = After(s, i + n)
  BY WithoutOldestProperties, AfterWithoutOldest
<1> HIDE DEF t
<1>2. \A i \in DOMAIN t : t[i] = s[i + n]
  BY <1>1 DEF IsRest
<1>. QED
  BY <1>1, <1>2 DEF Follows, t

\* x is the last to be used.
LatestIs(f, g, x, s) == \A y \in Keys(s) \ {x} : g[y] = f[y] /\ g[y] <= g[x]

\* A key that is moved to the end when it is used follows in time as well.
LEMMA FollowsMoved ==
    ASSUME NEW S, NEW s \in Seq(S), Distinct(s), NEW x \in S, NEW f, Follows(s, f),
           NEW g, LatestIs(f, g, x, s)
    PROVE  Follows(MovedToEnd(s, x), g)
<1> DEFINE t == MovedToEnd(s, x)
<1>1. IsMoved(t, s, x, S)
  BY MovedToEndProperties
<1> HIDE DEF t
<1>2. DOMAIN t = 1..Len(t) /\ Len(t) \in Nat
  BY <1>1 DEF IsMoved
<1>3. ASSUME NEW i \in DOMAIN t, NEW y \in After(t, i) PROVE g[t[i]] <= g[y]
  <2>1. i # Len(t)
    BY <1>1, <1>3 DEF IsMoved
  <2>2. i \in 1..Len(t) - 1
    BY <1>2, <2>1
  <2>3. PICK p \in DOMAIN s : t[i] = s[p] /\ t[i] # x /\ After(t, i) = After(s, p) \cup {x}
    BY <1>1, <2>2 DEF IsMoved
  <2>4. t[i] \in Keys(s) \ {x}
    BY <2>3 DEF Keys
  <2>5. CASE y = x
    BY <2>4, <2>5 DEF LatestIs
  <2>6. CASE y # x
    <3>1. y \in After(s, p) /\ y \in Keys(s)
      BY <1>3, <2>3, <2>6, AfterAreKeys
    <3>2. f[t[i]] <= f[y]
      BY <2>3, <3>1 DEF Follows
    <3>. QED
      BY <2>4, <2>6, <3>1, <3>2 DEF LatestIs
  <2>. QED
    BY <2>5, <2>6
<1>. QED
  BY <1>3 DEF Follows, t

\* And so does a new one.
LEMMA FollowsAppended ==
    ASSUME NEW S, NEW s \in Seq(S), Distinct(s), NEW x \in S, x \notin Keys(s), NEW f, Follows(s, f),
           NEW g, LatestIs(f, g, x, s)
    PROVE  Follows(Append(s, x), g)
<1> DEFINE t == Append(s, x)
<1>1. IsAppended(t, s, x, S)
  BY AppendNewProperties
<1> HIDE DEF t
<1>2. DOMAIN t = 1..Len(t) /\ DOMAIN s = 1..Len(s) /\ Len(t) = Len(s) + 1 /\ Len(s) \in Nat
  BY <1>1 DEF IsAppended
<1>3. ASSUME NEW i \in DOMAIN t, NEW y \in After(t, i) PROVE g[t[i]] <= g[y]
  <2>1. i # Len(t)
    BY <1>1, <1>3 DEF IsAppended
  <2>2. i \in 1..Len(s) /\ i \in DOMAIN s
    BY <1>2, <2>1
  <2>3. t[i] = s[i] /\ After(t, i) = After(s, i) \cup {x}
    BY <1>1, <2>2 DEF IsAppended
  <2>4. t[i] \in Keys(s) \ {x}
    BY <2>2, <2>3 DEF Keys
  <2>5. CASE y = x
    BY <2>4, <2>5 DEF LatestIs
  <2>6. CASE y # x
    <3>1. y \in After(s, i) /\ y \in Keys(s)
      BY <1>3, <2>2, <2>3, <2>6, AfterAreKeys
    <3>2. f[t[i]] <= f[y]
      BY <2>2, <2>3, <3>1 DEF Follows
    <3>. QED
      BY <2>4, <2>6, <3>1, <3>2 DEF LatestIs
  <2>. QED
    BY <2>5, <2>6
<1>. QED
  BY <1>3 DEF Follows, t
==============================================================================
