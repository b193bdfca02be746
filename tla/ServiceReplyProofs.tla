-------------------------- MODULE ServiceReplyProofs --------------------------
(***************************************************************************)
(* Theorems about ServiceReply, and about the operators of Sanitize it     *)
(* calls, for any credentials, arguments, replies, errors and limits.      *)
(*                                                                         *)
(* What has to be known of the operators is in five parts: that the        *)
(* functions exist which the recursive definitions choose, and unfold;     *)
(* what str.replace leaves of a text; that redact_text leaves no secret,   *)
(* which it does because no replacement makes a secret that was not there  *)
(* (Stems); that a visit builds values without the secrets that every one  *)
(* of its lookups hides (Looked), and is refused just when the nodes do    *)
(* not fit; that a second pass whose lookups agree (Steady) changes        *)
(* nothing in values that a first one built.  Each is an induction over    *)
(* 0..n by InductionUpTo: over a text, a list of secrets, the values of an *)
(* item, the levels a visit has room for.  The last part is the invariant  *)
(* of a call, ReplyInv.                                                    *)
(***************************************************************************)
EXTENDS ServiceReply, OrdersProofs

----------------------------------------------------------------------------
(***************************************************************************)
(* The recursive definitions.                                              *)
(***************************************************************************)

\* The recursive definition of Nested has a solution, so Nested is one.
IsNested(f, K, T, n) ==
    f = [i \in 0..n |->
        IF i = 0 THEN Plain(T) ELSE Deeper(K, f[i - 1])]

LEMMA NestedExists ==
    ASSUME NEW K, NEW T, NEW n \in Nat
    PROVE  \E f : IsNested(f, K, T, n)
<1> DEFINE E == {i \in 0..n : \E f : IsNested(f, K, T, i)}
<1>1. 0 \in E
  <2>1. IsNested([i \in 0..0 |-> Plain(T)], K, T, 0)
    BY DEF IsNested
  <2>. QED
    BY <2>1
<1>2. ASSUME NEW i \in 0..n, i \in E, i + 1 <= n PROVE i + 1 \in E
  <2>1. PICK f : IsNested(f, K, T, i)
    BY <1>2
  <2> DEFINE next == Deeper(K, f[i])
             g == [j \in 0..i + 1 |-> IF j <= i THEN f[j] ELSE next]
  <2>2. \A j \in 0..i : f[j] = IF j = 0 THEN Plain(T) ELSE Deeper(K, f[j - 1])
    BY <2>1 DEF IsNested
  <2>3. ASSUME NEW j \in 0..i + 1
        PROVE  g[j] = IF j = 0 THEN Plain(T) ELSE Deeper(K, g[j - 1])
    <3> HIDE DEF next
    <3>1. CASE j <= i
      BY <2>2, <3>1
    <3>2. CASE j = i + 1
      BY <3>2 DEF next
    <3>. QED
      BY <3>1, <3>2
  <2>4. IsNested(g, K, T, i + 1)
    <3> HIDE DEF next
    <3>. QED BY <2>3 DEF IsNested
  <2>. QED
    BY <1>2, <2>4
<1> HIDE DEF E
<1>3. \A i \in 0..n : i \in E
  BY <1>1, <1>2, InductionUpTo
<1>. QED
  BY <1>3 DEF E

LEMMA NestedUnfolds ==
    ASSUME NEW K, NEW T
    PROVE  /\ Nested(K, T)[0] = Plain(T)
           /\ \A i \in 1..MaxNesting : Nested(K, T)[i] = Deeper(K, Nested(K, T)[i - 1])
<1> DEFINE f == CHOOSE f : IsNested(f, K, T, MaxNesting)
<1>1. MaxNesting \in Nat
  BY LimitsAssumption
<1>2. IsNested(f, K, T, MaxNesting)
  BY <1>1, NestedExists
<1>3. Nested(K, T) = f
  BY DEF Nested, IsNested
<1> HIDE DEF f
<1>4. ASSUME NEW i \in 0..MaxNesting
      PROVE  f[i] = IF i = 0 THEN Plain(T) ELSE Deeper(K, f[i - 1])
  BY <1>2 DEF IsNested
<1>5. 0 \in 0..MaxNesting /\ \A i \in 1..MaxNesting : i \in 0..MaxNesting /\ i # 0
  BY <1>1
<1>. QED
  BY <1>3, <1>4, <1>5

\* The recursive definition of Reading has a solution, so Reading is one.
IsReading(f, text, s, n) ==
    f = [i \in 0..n |->
        IF i = 0 THEN [built |-> <<>>, next |-> 1] ELSE Read(f[i - 1], text, s, i)]

LEMMA ReadingExists ==
    ASSUME NEW text, NEW s, NEW n \in Nat
    PROVE  \E f : IsReading(f, text, s, n)
<1> DEFINE E == {i \in 0..n : \E f : IsReading(f, text, s, i)}
<1>1. 0 \in E
  <2>1. IsReading([i \in 0..0 |-> [built |-> <<>>, next |-> 1]], text, s, 0)
    BY DEF IsReading
  <2>. QED
    BY <2>1
<1>2. ASSUME NEW i \in 0..n, i \in E, i + 1 <= n PROVE i + 1 \in E
  <2>1. PICK f : IsReading(f, text, s, i)
    BY <1>2
  <2> DEFINE next == Read(f[i], text, s, i + 1)
             g == [j \in 0..i + 1 |-> IF j <= i THEN f[j] ELSE next]
  <2>2. \A j \in 0..i : f[j] =
              IF j = 0 THEN [built |-> <<>>, next |-> 1] ELSE Read(f[j - 1], text, s, j)
    BY <2>1 DEF IsReading
  <2>3. ASSUME NEW j \in 0..i + 1
        PROVE  g[j] = IF j = 0 THEN [built |-> <<>>, next |-> 1] ELSE Read(g[j - 1], text, s, j)
    <3> HIDE DEF next
    <3>1. CASE j <= i
      BY <2>2, <3>1
    <3>2. CASE j = i + 1
      BY <3>2 DEF next
    <3>. QED
      BY <3>1, <3>2
  <2>4. IsReading(g, text, s, i + 1)
    <3> HIDE DEF next
    <3>. QED BY <2>3 DEF IsReading
  <2>. QED
    BY <1>2, <2>4
<1> HIDE DEF E
<1>3. \A i \in 0..n : i \in E
  BY <1>1, <1>2, InductionUpTo
<1>. QED
  BY <1>3 DEF E

LEMMA ReadingUnfolds ==
    ASSUME NEW text, NEW s, Len(text) \in Nat
    PROVE  /\ Reading(text, s)[0] = [built |-> <<>>, next |-> 1]
           /\ \A i \in 1..Len(text) : Reading(text, s)[i] = Read(Reading(text, s)[i - 1], text, s, i)
<1> DEFINE f == CHOOSE f : IsReading(f, text, s, Len(text))
<1>1. Len(text) \in Nat
  OBVIOUS
<1>2. IsReading(f, text, s, Len(text))
  BY <1>1, ReadingExists
<1>3. Reading(text, s) = f
  BY DEF Reading, IsReading
<1> HIDE DEF f
<1>4. ASSUME NEW i \in 0..Len(text)
      PROVE  f[i] = IF i = 0 THEN [built |-> <<>>, next |-> 1] ELSE Read(f[i - 1], text, s, i)
  BY <1>2 DEF IsReading
<1>5. 0 \in 0..Len(text) /\ \A i \in 1..Len(text) : i \in 0..Len(text) /\ i # 0
  BY <1>1
<1>. QED
  BY <1>3, <1>4, <1>5

\* The recursive definition of Hiding has a solution, so Hiding is one.
IsHiding(f, text, S, n) ==
    f = [i \in 0..n |->
        IF i = 0 THEN Printable(text) ELSE Hide(f[i - 1], LongestFirst(S)[i])]

LEMMA HidingExists ==
    ASSUME NEW text, NEW S, NEW n \in Nat
    PROVE  \E f : IsHiding(f, text, S, n)
<1> DEFINE E == {i \in 0..n : \E f : IsHiding(f, text, S, i)}
<1>1. 0 \in E
  <2>1. IsHiding([i \in 0..0 |-> Printable(text)], text, S, 0)
    BY DEF IsHiding
  <2>. QED
    BY <2>1
<1>2. ASSUME NEW i \in 0..n, i \in E, i + 1 <= n PROVE i + 1 \in E
  <2>1. PICK f : IsHiding(f, text, S, i)
    BY <1>2
  <2> DEFINE next == Hide(f[i], LongestFirst(S)[i + 1])
             g == [j \in 0..i + 1 |-> IF j <= i THEN f[j] ELSE next]
  <2>2. \A j \in 0..i : f[j] = IF j = 0 THEN Printable(text) ELSE Hide(f[j - 1], LongestFirst(S)[j])
    BY <2>1 DEF IsHiding
  <2>3. ASSUME NEW j \in 0..i + 1
        PROVE  g[j] = IF j = 0 THEN Printable(text) ELSE Hide(g[j - 1], LongestFirst(S)[j])
    <3> HIDE DEF next
    <3>1. CASE j <= i
      BY <2>2, <3>1
    <3>2. CASE j = i + 1
      BY <3>2 DEF next
    <3>. QED
      BY <3>1, <3>2
  <2>4. IsHiding(g, text, S, i + 1)
    <3> HIDE DEF next
    <3>. QED BY <2>3 DEF IsHiding
  <2>. QED
    BY <1>2, <2>4
<1> HIDE DEF E
<1>3. \A i \in 0..n : i \in E
  BY <1>1, <1>2, InductionUpTo
<1>. QED
  BY <1>3 DEF E

LEMMA HidingUnfolds ==
    ASSUME NEW text, NEW S, Cardinality(S) \in Nat
    PROVE  /\ Hiding(text, S)[0] = Printable(text)
           /\ \A i \in 1..Cardinality(S) : Hiding(text, S)[i] =
                       Hide(Hiding(text, S)[i - 1], LongestFirst(S)[i])
<1> DEFINE f == CHOOSE f : IsHiding(f, text, S, Cardinality(S))
<1>1. Cardinality(S) \in Nat
  OBVIOUS
<1>2. IsHiding(f, text, S, Cardinality(S))
  BY <1>1, HidingExists
<1>3. Hiding(text, S) = f
  BY DEF Hiding, IsHiding
<1> HIDE DEF f
<1>4. ASSUME NEW i \in 0..Cardinality(S)
      PROVE  f[i] = IF i = 0 THEN Printable(text) ELSE Hide(f[i - 1], LongestFirst(S)[i])
  BY <1>2 DEF IsHiding
<1>5. 0 \in 0..Cardinality(S) /\ \A i \in 1..Cardinality(S) : i \in 0..Cardinality(S) /\ i # 0
  BY <1>1
<1>. QED
  BY <1>3, <1>4, <1>5

\* The recursive definition of Filling has a solution, so Filling is one.
IsFilling(f, fields, built, l, n) ==
    f = [i \in 0..n |->
        IF i = 0 THEN <<>> ELSE Put(f[i - 1], Field(Cut(Redact(fields[i].key, l[i]), MaxKey), built[i]))]

LEMMA FillingExists ==
    ASSUME NEW fields, NEW built, NEW l, NEW n \in Nat
    PROVE  \E f : IsFilling(f, fields, built, l, n)
<1> DEFINE E == {i \in 0..n : \E f : IsFilling(f, fields, built, l, i)}
<1>1. 0 \in E
  <2>1. IsFilling([i \in 0..0 |-> <<>>], fields, built, l, 0)
    BY DEF IsFilling
  <2>. QED
    BY <2>1
<1>2. ASSUME NEW i \in 0..n, i \in E, i + 1 <= n PROVE i + 1 \in E
  <2>1. PICK f : IsFilling(f, fields, built, l, i)
    BY <1>2
  <2> DEFINE next == Put(f[i], Field(Cut(Redact(fields[i + 1].key, l[i + 1]), MaxKey), built[i + 1]))
             g == [j \in 0..i + 1 |-> IF j <= i THEN f[j] ELSE next]
  <2>2. \A j \in 0..i : f[j] =
              IF j = 0 THEN <<>> ELSE Put(f[j - 1], Field(Cut(Redact(fields[j].key, l[j]), MaxKey), built[j]))
    BY <2>1 DEF IsFilling
  <2>3. ASSUME NEW j \in 0..i + 1
        PROVE  g[j] =
                    IF j = 0 THEN <<>> ELSE Put(g[j - 1], Field(Cut(Redact(fields[j].key, l[j]), MaxKey), built[j]))
    <3> HIDE DEF next
    <3>1. CASE j <= i
      BY <2>2, <3>1
    <3>2. CASE j = i + 1
      BY <3>2 DEF next
    <3>. QED
      BY <3>1, <3>2
  <2>4. IsFilling(g, fields, built, l, i + 1)
    <3> HIDE DEF next
    <3>. QED BY <2>3 DEF IsFilling
  <2>. QED
    BY <1>2, <2>4
<1> HIDE DEF E
<1>3. \A i \in 0..n : i \in E
  BY <1>1, <1>2, InductionUpTo
<1>. QED
  BY <1>3 DEF E

LEMMA FillingUnfolds ==
    ASSUME NEW fields, NEW built, NEW l, Len(fields) \in Nat
    PROVE  /\ Filling(fields, built, l)[0] = <<>>
           /\ \A i \in 1..Len(fields) : Filling(fields, built, l)[i] =
                       Put(Filling(fields, built, l)[i - 1], Field(Cut(Redact(fields[i].key, l[i]), MaxKey), built[i]))
<1> DEFINE f == CHOOSE f : IsFilling(f, fields, built, l, Len(fields))
<1>1. Len(fields) \in Nat
  OBVIOUS
<1>2. IsFilling(f, fields, built, l, Len(fields))
  BY <1>1, FillingExists
<1>3. Filling(fields, built, l) = f
  BY DEF Filling, IsFilling
<1> HIDE DEF f
<1>4. ASSUME NEW i \in 0..Len(fields)
      PROVE  f[i] =
                  IF i = 0 THEN <<>> ELSE Put(f[i - 1], Field(Cut(Redact(fields[i].key, l[i]), MaxKey), built[i]))
  BY <1>2 DEF IsFilling
<1>5. 0 \in 0..Len(fields) /\ \A i \in 1..Len(fields) : i \in 0..Len(fields) /\ i # 0
  BY <1>1
<1>. QED
  BY <1>3, <1>4, <1>5

\* The recursive definition of Visiting has a solution, so Visiting is one.
IsVisiting(f, below, item, left, n) ==
    f = [i \in 0..n |->
        IF i = 0 THEN [left |-> left, built |-> <<>>] ELSE NextValue(below, item, f[i - 1], i)]

LEMMA VisitingExists ==
    ASSUME NEW below, NEW item, NEW left, NEW n \in Nat
    PROVE  \E f : IsVisiting(f, below, item, left, n)
<1> DEFINE E == {i \in 0..n : \E f : IsVisiting(f, below, item, left, i)}
<1>1. 0 \in E
  <2>1. IsVisiting([i \in 0..0 |-> [left |-> left, built |-> <<>>]], below, item, left, 0)
    BY DEF IsVisiting
  <2>. QED
    BY <2>1
<1>2. ASSUME NEW i \in 0..n, i \in E, i + 1 <= n PROVE i + 1 \in E
  <2>1. PICK f : IsVisiting(f, below, item, left, i)
    BY <1>2
  <2> DEFINE next == NextValue(below, item, f[i], i + 1)
             g == [j \in 0..i + 1 |-> IF j <= i THEN f[j] ELSE next]
  <2>2. \A j \in 0..i : f[j] =
              IF j = 0 THEN [left |-> left, built |-> <<>>] ELSE NextValue(below, item, f[j - 1], j)
    BY <2>1 DEF IsVisiting
  <2>3. ASSUME NEW j \in 0..i + 1
        PROVE  g[j] =
                    IF j = 0 THEN [left |-> left, built |-> <<>>] ELSE NextValue(below, item, g[j - 1], j)
    <3> HIDE DEF next
    <3>1. CASE j <= i
      BY <2>2, <3>1
    <3>2. CASE j = i + 1
      BY <3>2 DEF next
    <3>. QED
      BY <3>1, <3>2
  <2>4. IsVisiting(g, below, item, left, i + 1)
    <3> HIDE DEF next
    <3>. QED BY <2>3 DEF IsVisiting
  <2>. QED
    BY <1>2, <2>4
<1> HIDE DEF E
<1>3. \A i \in 0..n : i \in E
  BY <1>1, <1>2, InductionUpTo
<1>. QED
  BY <1>3 DEF E

LEMMA VisitingUnfolds ==
    ASSUME NEW below, NEW item, NEW left, Len(Values(item)) \in Nat
    PROVE  /\ Visiting(below, item, left)[0] = [left |-> left, built |-> <<>>]
           /\ \A i \in 1..Len(Values(item)) : Visiting(below, item, left)[i] =
                       NextValue(below, item, Visiting(below, item, left)[i - 1], i)
<1> DEFINE f == CHOOSE f : IsVisiting(f, below, item, left, Len(Values(item)))
<1>1. Len(Values(item)) \in Nat
  OBVIOUS
<1>2. IsVisiting(f, below, item, left, Len(Values(item)))
  BY <1>1, VisitingExists
<1>3. Visiting(below, item, left) = f
  BY DEF Visiting, IsVisiting
<1> HIDE DEF f
<1>4. ASSUME NEW i \in 0..Len(Values(item))
      PROVE  f[i] =
                  IF i = 0 THEN [left |-> left, built |-> <<>>] ELSE NextValue(below, item, f[i - 1], i)
  BY <1>2 DEF IsVisiting
<1>5. 0 \in 0..Len(Values(item)) /\ \A i \in 1..Len(Values(item)) : i \in 0..Len(Values(item)) /\ i # 0
  BY <1>1
<1>. QED
  BY <1>3, <1>4, <1>5

\* The recursive definition of Visit has a solution, so Visit is one.
IsVisit(f, L, n) ==
    f = [i \in 0..n |->
        IF i = 0 THEN NoVisit ELSE VisitAbove(f[i - 1], L)]

LEMMA VisitExists ==
    ASSUME NEW L, NEW n \in Nat
    PROVE  \E f : IsVisit(f, L, n)
<1> DEFINE E == {i \in 0..n : \E f : IsVisit(f, L, i)}
<1>1. 0 \in E
  <2>1. IsVisit([i \in 0..0 |-> NoVisit], L, 0)
    BY DEF IsVisit
  <2>. QED
    BY <2>1
<1>2. ASSUME NEW i \in 0..n, i \in E, i + 1 <= n PROVE i + 1 \in E
  <2>1. PICK f : IsVisit(f, L, i)
    BY <1>2
  <2> DEFINE next == VisitAbove(f[i], L)
             g == [j \in 0..i + 1 |-> IF j <= i THEN f[j] ELSE next]
  <2>2. \A j \in 0..i : f[j] = IF j = 0 THEN NoVisit ELSE VisitAbove(f[j - 1], L)
    BY <2>1 DEF IsVisit
  <2>3. ASSUME NEW j \in 0..i + 1
        PROVE  g[j] = IF j = 0 THEN NoVisit ELSE VisitAbove(g[j - 1], L)
    <3> HIDE DEF next
    <3>1. CASE j <= i
      BY <2>2, <3>1
    <3>2. CASE j = i + 1
      BY <3>2 DEF next
    <3>. QED
      BY <3>1, <3>2
  <2>4. IsVisit(g, L, i + 1)
    <3> HIDE DEF next
    <3>. QED BY <2>3 DEF IsVisit
  <2>. QED
    BY <1>2, <2>4
<1> HIDE DEF E
<1>3. \A i \in 0..n : i \in E
  BY <1>1, <1>2, InductionUpTo
<1>. QED
  BY <1>3 DEF E

LEMMA VisitUnfolds ==
    ASSUME NEW L
    PROVE  /\ Visit(L)[0] = NoVisit
           /\ \A i \in 1..MaxDepth + 1 : Visit(L)[i] = VisitAbove(Visit(L)[i - 1], L)
<1> DEFINE f == CHOOSE f : IsVisit(f, L, MaxDepth + 1)
<1>1. MaxDepth + 1 \in Nat
  BY LimitsAssumption
<1>2. IsVisit(f, L, MaxDepth + 1)
  BY <1>1, VisitExists
<1>3. Visit(L) = f
  BY DEF Visit, IsVisit
<1> HIDE DEF f
<1>4. ASSUME NEW i \in 0..MaxDepth + 1
      PROVE  f[i] = IF i = 0 THEN NoVisit ELSE VisitAbove(f[i - 1], L)
  BY <1>2 DEF IsVisit
<1>5. 0 \in 0..MaxDepth + 1 /\ \A i \in 1..MaxDepth + 1 : i \in 0..MaxDepth + 1 /\ i # 0
  BY <1>1
<1>. QED
  BY <1>3, <1>4, <1>5

\* The recursive definition of Nodes has a solution, so Nodes is one.
IsNodes(f, n) ==
    f = [i \in 0..n |->
        IF i = 0 THEN NoNodes ELSE NodesAbove(f[i - 1])]

LEMMA NodesExists ==
    ASSUME NEW n \in Nat
    PROVE  \E f : IsNodes(f, n)
<1> DEFINE E == {i \in 0..n : \E f : IsNodes(f, i)}
<1>1. 0 \in E
  <2>1. IsNodes([i \in 0..0 |-> NoNodes], 0)
    BY DEF IsNodes
  <2>. QED
    BY <2>1
<1>2. ASSUME NEW i \in 0..n, i \in E, i + 1 <= n PROVE i + 1 \in E
  <2>1. PICK f : IsNodes(f, i)
    BY <1>2
  <2> DEFINE next == NodesAbove(f[i])
             g == [j \in 0..i + 1 |-> IF j <= i THEN f[j] ELSE next]
  <2>2. \A j \in 0..i : f[j] = IF j = 0 THEN NoNodes ELSE NodesAbove(f[j - 1])
    BY <2>1 DEF IsNodes
  <2>3. ASSUME NEW j \in 0..i + 1
        PROVE  g[j] = IF j = 0 THEN NoNodes ELSE NodesAbove(g[j - 1])
    <3> HIDE DEF next
    <3>1. CASE j <= i
      BY <2>2, <3>1
    <3>2. CASE j = i + 1
      BY <3>2 DEF next
    <3>. QED
      BY <3>1, <3>2
  <2>4. IsNodes(g, i + 1)
    <3> HIDE DEF next
    <3>. QED BY <2>3 DEF IsNodes
  <2>. QED
    BY <1>2, <2>4
<1> HIDE DEF E
<1>3. \A i \in 0..n : i \in E
  BY <1>1, <1>2, InductionUpTo
<1>. QED
  BY <1>3 DEF E

LEMMA NodesUnfolds ==
    /\ Nodes[0] = NoNodes
    /\ \A i \in 1..MaxDepth + 2 : Nodes[i] = NodesAbove(Nodes[i - 1])
<1> DEFINE f == CHOOSE f : IsNodes(f, MaxDepth + 2)
<1>1. MaxDepth + 2 \in Nat
  BY LimitsAssumption
<1>2. IsNodes(f, MaxDepth + 2)
  BY <1>1, NodesExists
<1>3. Nodes = f
  BY DEF Nodes, IsNodes
<1> HIDE DEF f
<1>4. ASSUME NEW i \in 0..MaxDepth + 2
      PROVE  f[i] = IF i = 0 THEN NoNodes ELSE NodesAbove(f[i - 1])
  BY <1>2 DEF IsNodes
<1>5. 0 \in 0..MaxDepth + 2 /\ \A i \in 1..MaxDepth + 2 : i \in 0..MaxDepth + 2 /\ i # 0
  BY <1>1
<1>. QED
  BY <1>3, <1>4, <1>5

----------------------------------------------------------------------------
(***************************************************************************)
(* JSON values.                                                            *)
(***************************************************************************)
LEMMA LimitsPositive ==
    /\ MaxText \in Nat \ {0} /\ MaxKey \in Nat \ {0} /\ MaxDepth \in Nat \ {0}
    /\ MaxNodes \in Nat \ {0} /\ MaxItems \in Nat \ {0} /\ MaxArray \in Nat \ {0}
    /\ MaxNesting \in Nat \ {0}
BY LimitsAssumption

LEMMA SeqMonotone ==
    ASSUME NEW V, NEW W, V \subseteq W
    PROVE  Seq(V) \subseteq Seq(W)
<1> SUFFICES ASSUME NEW s \in Seq(V) PROVE s \in Seq(W)
  OBVIOUS
<1>1. Len(s) \in Nat /\ DOMAIN s = 1..Len(s) /\ \A i \in 1..Len(s) : s[i] \in W
  OBVIOUS
<1>2. s = [i \in 1..Len(s) |-> s[i]]
  OBVIOUS
<1>. QED
  BY <1>1, <1>2, IsASeq

LEMMA FieldsMonotone ==
    ASSUME NEW K, NEW L, K \subseteq L, NEW V, NEW W, V \subseteq W
    PROVE  Seq([key : K, value : V]) \subseteq Seq([key : L, value : W])
<1>1. [key : K, value : V] \subseteq [key : L, value : W]
  OBVIOUS
<1>. QED
  BY <1>1, SeqMonotone

LEMMA DeeperMonotone ==
    ASSUME NEW K, NEW L, K \subseteq L, NEW V, NEW W, V \subseteq W
    PROVE  Deeper(K, V) \subseteq Deeper(L, W)
<1>1. Seq(V) \subseteq Seq(W)
  BY SeqMonotone
<1>3. Seq([key : K, value : V]) \subseteq Seq([key : L, value : W])
  BY FieldsMonotone
<1>4. [type : {"list"}, items : Seq(V)] \subseteq [type : {"list"}, items : Seq(W)]
  BY <1>1
<1>5. [type : {"object"}, fields : Seq([key : K, value : V])]
        \subseteq [type : {"object"}, fields : Seq([key : L, value : W])]
  BY <1>3
<1>. QED
  BY <1>4, <1>5 DEF Deeper

\* A value nested at most m deep is one nested at most n deep for a larger n.
LEMMA NestedGrows ==
    ASSUME NEW K, NEW T, NEW n \in 0..MaxNesting, NEW m \in 0..n
    PROVE  Nested(K, T)[m] \subseteq Nested(K, T)[n]
<1> DEFINE N == Nested(K, T)
           E == {i \in 0..n : i >= m => N[m] \subseteq N[i]}
<1>1. 0 \in E
  OBVIOUS
<1>2. ASSUME NEW i \in 0..n, i \in E, i + 1 <= n PROVE i + 1 \in E
  <2>1. i + 1 \in 1..MaxNesting /\ (i + 1) - 1 = i
    BY LimitsPositive, <1>2
  <2>2. N[i + 1] = Deeper(K, N[i])
    BY <2>1, NestedUnfolds
  <2>3. N[i] \subseteq N[i + 1]
    BY <2>2 DEF Deeper
  <2> HIDE DEF N
  <2>. QED
    BY <1>2, <2>3
<1> HIDE DEF E
<1>3. n \in Nat
  BY LimitsPositive
<1>4. \A i \in 0..n : i \in E
  BY <1>1, <1>2, <1>3, InductionUpTo
<1>. QED
  BY <1>3, <1>4 DEF E

LEMMA NestedMonotone ==
    ASSUME NEW K, NEW L, K \subseteq L, NEW T, NEW U, T \subseteq U, NEW n \in 0..MaxNesting
    PROVE  Nested(K, T)[n] \subseteq Nested(L, U)[n]
<1> DEFINE E == {i \in 0..n : Nested(K, T)[i] \subseteq Nested(L, U)[i]}
<1>1. 0 \in E
  <2>1. Plain(T) \subseteq Plain(U)
    BY DEF Plain
  <2>. QED
    BY <2>1, NestedUnfolds, LimitsPositive
<1>2. ASSUME NEW i \in 0..n, i \in E, i + 1 <= n PROVE i + 1 \in E
  <2>1. i + 1 \in 1..MaxNesting /\ (i + 1) - 1 = i
    BY LimitsPositive, <1>2
  <2>2. /\ Nested(K, T)[i + 1] = Deeper(K, Nested(K, T)[i])
        /\ Nested(L, U)[i + 1] = Deeper(L, Nested(L, U)[i])
    BY <2>1, NestedUnfolds
  <2>3. Deeper(K, Nested(K, T)[i]) \subseteq Deeper(L, Nested(L, U)[i])
    BY <1>2, DeeperMonotone
  <2>. QED
    BY <1>2, <2>2, <2>3
<1> HIDE DEF E
<1>3. n \in Nat
  BY LimitsPositive
<1>4. \A i \in 0..n : i \in E
  BY <1>1, <1>2, <1>3, InductionUpTo
<1>. QED
  BY <1>4, <1>3 DEF E

\* What a value nested at most n deep is.
IsText(x, T)      == x = Text(x.text) /\ x.type = "text" /\ x.text \in T
IsOther(x)        == x \in {Null, NotFinite} /\ x.type \notin {"text", "list", "object"}
IsList(x, V)      == x = List(x.items) /\ x.type = "list" /\ x.items \in Seq(V)
IsObject(x, K, V) ==
    /\ x = Object(x.fields) /\ x.type = "object"
    /\ x.fields \in Seq([key : K, value : V])

LEMMA NestedShape ==
    ASSUME NEW K, NEW T, NEW n \in 0..MaxNesting, NEW x \in Nested(K, T)[n]
    PROVE  \/ IsText(x, T)
           \/ IsOther(x)
           \/ n > 0 /\ IsList(x, Nested(K, T)[n - 1])
           \/ n > 0 /\ IsObject(x, K, Nested(K, T)[n - 1])
<1> DEFINE N == Nested(K, T)
           Is(i, y) == \/ IsText(y, T) \/ IsOther(y)
                       \/ i > 0 /\ IsList(y, N[i - 1])
                       \/ i > 0 /\ IsObject(y, K, N[i - 1])
           E == {i \in 0..n : \A y \in N[i] : Is(i, y)}
<1>1. 0 \in E
  <2>1. \A y \in Plain(T) : IsText(y, T) \/ IsOther(y)
    BY DEF Plain, IsText, IsOther, Text, Null, NotFinite
  <2>2. N[0] = Plain(T)
    BY NestedUnfolds
  <2> HIDE DEF N
  <2>. QED
    BY <2>1, <2>2, LimitsPositive
<1>2. ASSUME NEW i \in 0..n, i \in E, i + 1 <= n PROVE i + 1 \in E
  <2>1. i + 1 \in 1..MaxNesting /\ (i + 1) - 1 = i /\ i \in 0..MaxNesting
    BY LimitsPositive, <1>2
  <2>2. N[i + 1] = Deeper(K, N[i])
    BY <2>1, NestedUnfolds
  <2>3. i > 0 => N[i - 1] \subseteq N[i]
    BY <2>1, NestedGrows
  <2> HIDE DEF N
  <2>4. ASSUME NEW y \in N[i + 1] PROVE Is(i + 1, y)
    <3>1. CASE y \in N[i]
      <4>1. Is(i, y)
        BY <1>2, <3>1
      <4>2. CASE i > 0 /\ IsList(y, N[i - 1])
        <5>1. y.items \in Seq(N[i])
          BY <4>2, <2>3, SeqMonotone DEF IsList
        <5>. QED
          BY <2>1, <4>2, <5>1 DEF IsList
      <4>3. CASE i > 0 /\ IsObject(y, K, N[i - 1])
        <5>2. Seq([key : K, value : N[i - 1]]) \subseteq Seq([key : K, value : N[i]])
          BY <2>3, <4>3, FieldsMonotone
        <5>3. y.fields \in Seq([key : K, value : N[i]])
          BY <4>3, <5>2 DEF IsObject
        <5>. QED
          BY <2>1, <4>3, <5>3 DEF IsObject
      <4>. QED
        BY <4>1, <4>2, <4>3
    <3>2. CASE y \in [type : {"list"}, items : Seq(N[i])]
      <4>1. IsList(y, N[i])
        BY <3>2 DEF IsList, List
      <4>. QED
        BY <2>1, <4>1
    <3>3. CASE y \in [type : {"object"}, fields : Seq([key : K, value : N[i]])]
      <4>1. IsObject(y, K, N[i])
        BY <3>3 DEF IsObject, Object
      <4>. QED
        BY <2>1, <4>1
    <3>. QED
      BY <2>2, <3>1, <3>2, <3>3 DEF Deeper
  <2> HIDE DEF Is
  <2>. QED
    BY <1>2, <2>4
<1> HIDE DEF E
<1>3. n \in Nat
  BY LimitsPositive
<1>4. \A i \in 0..n : i \in E
  BY <1>1, <1>2, <1>3, InductionUpTo
<1>. QED
  BY <1>3, <1>4 DEF E

\* How values nested at most n deep are made.
LEMMA NestedMade ==
    ASSUME NEW K, NEW T, NEW n \in 0..MaxNesting
    PROVE  /\ \A t \in T : Text(t) \in Nested(K, T)[n]
           /\ Null \in Nested(K, T)[n] /\ NotFinite \in Nested(K, T)[n]
           /\ n > 0 => /\ \A s \in Seq(Nested(K, T)[n - 1]) : List(s) \in Nested(K, T)[n]
                       /\ \A fs \in Seq([key : K, value : Nested(K, T)[n - 1]]) :
                            Object(fs) \in Nested(K, T)[n]
<1> DEFINE N == Nested(K, T)
<1>0. n \in Nat /\ 0 \in 0..n
  BY LimitsPositive
<1>1. N[0] = Plain(T) /\ \A i \in 1..MaxNesting : N[i] = Deeper(K, N[i - 1])
  BY NestedUnfolds
<1>2. N[0] \subseteq N[n]
  BY <1>0, NestedGrows
<1> HIDE DEF N
<1>3. \A t \in T : Text(t) \in Plain(T)
  BY DEF Plain, Text
<1>4. Null \in Plain(T) /\ NotFinite \in Plain(T)
  BY DEF Plain
<1>5. ASSUME n > 0
      PROVE  /\ \A s \in Seq(N[n - 1]) : List(s) \in N[n]
             /\ \A fs \in Seq([key : K, value : N[n - 1]]) : Object(fs) \in N[n]
  <2>1. N[n] = Deeper(K, N[n - 1])
    BY <1>0, <1>1, <1>5
  <2>. QED
    BY <2>1 DEF Deeper, List, Object
<1>. QED
  BY <1>1, <1>2, <1>3, <1>4, <1>5 DEF N

----------------------------------------------------------------------------
(***************************************************************************)
(* str.replace.                                                            *)
(***************************************************************************)

\* e gives the place in text of each symbol that r keeps, after n symbols of
\* text: no s begins there, and what is kept without a break was together.
IsKept(e, r, text, s, n) ==
    /\ r.built \in Texts /\ r.next \in Nat /\ r.next > n
    /\ Len(r.built) <= n /\ (n > 0 => Len(r.built) > 0)
    /\ e \in [1..Len(r.built) -> 1..n]
    /\ \A k \in 1..Len(r.built) :
         r.built[k] # "redacted" => r.built[k] = text[e[k]] /\ ~At(s, text, e[k])
    /\ \A k \in 1..Len(r.built) - 1 :
         r.built[k] # "redacted" /\ r.built[k + 1] # "redacted" => e[k + 1] = e[k] + 1
    /\ Len(r.built) > 0 /\ r.built[Len(r.built)] # "redacted" =>
         e[Len(r.built)] = r.next - 1

\* A symbol more, which text has at i or which stands for an s at i.
LEMMA KeptAppend ==
    ASSUME NEW text \in Texts, NEW s \in Texts, s # <<>>, NEW i \in 1..Len(text),
           NEW e, NEW r, IsKept(e, r, text, s, i - 1), r.next <= i,
           NEW c \in Symbols, NEW next \in Nat, next > i,
           c # "redacted" => c = text[i] /\ ~At(s, text, i) /\ next = i + 1
    PROVE  \E f : IsKept(f, [built |-> Append(r.built, c), next |-> next], text, s, i)
<1> DEFINE b == r.built
           m == Len(b)
           q == [built |-> Append(b, c), next |-> next]
           f == [k \in 1..m + 1 |-> IF k <= m THEN e[k] ELSE i]
<1>0. r.next = i /\ m \in Nat
  BY DEF IsKept, Texts
<1>1. /\ b \in Texts /\ m \in Nat /\ r.next \in Nat /\ r.next = i
      /\ m <= i - 1 /\ e \in [1..m -> 1..i - 1]
      /\ \A k \in 1..m : b[k] # "redacted" => b[k] = text[e[k]] /\ ~At(s, text, e[k])
      /\ \A k \in 1..m - 1 : b[k] # "redacted" /\ b[k + 1] # "redacted" => e[k + 1] = e[k] + 1
      /\ m > 0 /\ b[m] # "redacted" => e[m] = i - 1
  BY <1>0 DEF IsKept
<1>2. /\ q.built \in Texts /\ Len(q.built) = m + 1 /\ q.built[m + 1] = c
      /\ \A k \in 1..m : q.built[k] = b[k]
  BY <1>1 DEF Texts
<1> HIDE DEF b, m
<1>3. q.next = next
  OBVIOUS
<1> HIDE DEF q
<1>4. /\ f \in [1..m + 1 -> 1..i] /\ f[m + 1] = i
      /\ \A k \in 1..m : f[k] = e[k]
  BY <1>1
<1> HIDE DEF f
<1>5. ASSUME NEW k \in 1..m + 1, q.built[k] # "redacted"
      PROVE  q.built[k] = text[f[k]] /\ ~At(s, text, f[k])
  <2>1. CASE k = m + 1
    BY <1>2, <1>4, <1>5, <2>1
  <2>2. CASE k \in 1..m
    BY <1>1, <1>2, <1>4, <1>5, <2>2
  <2>. QED
    BY <1>1, <2>1, <2>2
<1>6. ASSUME NEW k \in 1..m, q.built[k] # "redacted", q.built[k + 1] # "redacted"
      PROVE  f[k + 1] = f[k] + 1
  <2>1. CASE k = m
    BY <1>1, <1>2, <1>4, <1>6, <2>1
  <2>2. CASE k \in 1..m - 1
    <3>1. k \in 1..m /\ k + 1 \in 1..m
      BY <1>1, <2>2
    <3>2. q.built[k] = b[k] /\ q.built[k + 1] = b[k + 1] /\ f[k] = e[k] /\ f[k + 1] = e[k + 1]
      BY <1>2, <1>4, <3>1
    <3>. QED
      BY <1>1, <1>6, <2>2, <3>2
  <2>. QED
    BY <1>1, <2>1, <2>2
<1>7. IsKept(f, q, text, s, i)
  BY <1>1, <1>2, <1>3, <1>4, <1>5, <1>6 DEF IsKept
<1>. QED
  BY <1>7 DEF q, b

LEMMA ReadingKeeps ==
    ASSUME NEW text \in Texts, NEW s \in Texts, s # <<>>, NEW n \in 0..Len(text)
    PROVE  \E e : IsKept(e, Reading(text, s)[n], text, s, n)
<1> DEFINE R == Reading(text, s)
           E == {i \in 0..n : \E e : IsKept(e, R[i], text, s, i)}
<1>1. Len(text) \in Nat /\ Len(s) \in Nat \ {0}
  BY DEF Texts
<1>2. R[0] = [built |-> <<>>, next |-> 1] /\ \A i \in 1..Len(text) : R[i] = Read(R[i - 1], text, s, i)
  BY <1>1, ReadingUnfolds
<1> HIDE DEF R
<1>3. 0 \in E
  <2>1. IsKept(<<>>, R[0], text, s, 0)
    BY <1>2 DEF IsKept, Texts
  <2>. QED
    BY <2>1, <1>1
<1>4. ASSUME NEW i \in 0..n, i \in E, i + 1 <= n PROVE i + 1 \in E
  <2>1. PICK e : IsKept(e, R[i], text, s, i)
    BY <1>4
  <2>2. R[i + 1] = Read(R[i], text, s, i + 1)
    BY <1>1, <1>2, <1>4
  <2>3. i + 1 \in 1..Len(text) /\ (i + 1) - 1 = i /\ R[i].next \in Nat /\ text[i + 1] \in Symbols
    BY <1>1, <1>4, <2>1 DEF IsKept, Texts
  <2>4. CASE i + 1 < R[i].next
    <3>1. R[i + 1] = R[i]
      BY <2>2, <2>3, <2>4 DEF Read
    <3>2. i > 0
      BY <1>2, <1>4, <2>4
    <3>3. Len(R[i].built) > 0
      BY <2>1, <3>2 DEF IsKept
    <3>4. e \in [1..Len(R[i].built) -> 1..i + 1]
      BY <2>1, <1>4 DEF IsKept
    <3>5. IsKept(e, R[i + 1], text, s, i + 1)
      BY <1>4, <2>1, <2>3, <2>4, <3>1, <3>3, <3>4 DEF IsKept
    <3>. QED
      BY <1>4, <3>5
  <2>5. CASE R[i].next <= i + 1 /\ At(s, text, i + 1)
    <3>1. R[i + 1] = [built |-> Append(R[i].built, "redacted"), next |-> (i + 1) + Len(s)]
      BY <2>2, <2>3, <2>5 DEF Read
    <3>2. (i + 1) + Len(s) \in Nat /\ (i + 1) + Len(s) > i + 1
      BY <1>1, <1>4
    <3>4. "redacted" \in Symbols
      BY SymbolsAssumption DEF Own
    <3>3. \E f : IsKept(f, R[i + 1], text, s, i + 1)
      BY <2>1, <2>3, <2>5, <3>1, <3>2, <3>4, KeptAppend
    <3>. QED
      BY <1>4, <3>3
  <2>6. CASE R[i].next <= i + 1 /\ ~At(s, text, i + 1)
    <3>1. R[i + 1] = [built |-> Append(R[i].built, text[i + 1]), next |-> (i + 1) + 1]
      BY <2>2, <2>3, <2>6 DEF Read
    <3>2. (i + 1) + 1 \in Nat /\ (i + 1) + 1 > i + 1
      BY <1>4
    <3>3. \E f : IsKept(f, R[i + 1], text, s, i + 1)
      BY <2>1, <2>3, <2>6, <3>1, <3>2, KeptAppend
    <3>. QED
      BY <1>4, <3>3
  <2>. QED
    BY <1>4, <2>3, <2>4, <2>5, <2>6
<1> HIDE DEF E
<1>5. \A i \in 0..n : i \in E
  BY <1>1, <1>3, <1>4, InductionUpTo
<1>. QED
  BY <1>1, <1>5 DEF E, R

\* What replacing s in text yields has no symbol and no length that text does
\* not have, and ends the way text does unless that is replaced.
LEMMA ReplaceTyped ==
    ASSUME NEW text \in Texts, NEW s \in Texts, s # <<>>
    PROVE  /\ Replace(text, s) \in Texts
           /\ Len(Replace(text, s)) <= Len(text)
           /\ text # <<>> =>
                /\ Replace(text, s) # <<>>
                /\ Replace(text, s)[Len(Replace(text, s))] \in {text[Len(text)], "redacted"}
<1> DEFINE n == Len(text)
           r == Reading(text, s)[n]
           t == Replace(text, s)
<1>1. n \in Nat /\ t = r.built
  BY DEF Replace, Texts
<1>2. PICK e : IsKept(e, r, text, s, n)
  BY <1>1, ReadingKeeps
<1> HIDE DEF n, r, t
<1>3. /\ t \in Texts /\ Len(t) \in Nat /\ Len(t) <= n /\ (n > 0 => Len(t) > 0)
      /\ e \in [1..Len(t) -> 1..n] /\ r.next \in Nat /\ r.next > n
      /\ \A k \in 1..Len(t) : t[k] # "redacted" => t[k] = text[e[k]]
      /\ Len(t) > 0 /\ t[Len(t)] # "redacted" => e[Len(t)] = r.next - 1
  BY <1>1, <1>2 DEF IsKept, Texts
<1>4. ASSUME n > 0, t[Len(t)] # "redacted" PROVE t[Len(t)] = text[n]
  <2>1. Len(t) \in 1..Len(t)
    BY <1>3, <1>4
  <2>2. e[Len(t)] \in 1..n /\ e[Len(t)] = r.next - 1
    BY <1>3, <1>4, <2>1
  <2>3. e[Len(t)] = n
    BY <1>1, <1>3, <2>2
  <2>. QED
    BY <1>3, <1>4, <2>1, <2>3
<1>5. text # <<>> => n > 0
  BY DEF Texts, n
<1>6. n > 0 => t # <<>>
  BY <1>3 DEF Texts
<1>. QED
  BY <1>1, <1>3, <1>4, <1>5, <1>6 DEF n, t

\* What occurs in the result occurred in text, at a place where s does not.
LEMMA ReplaceKeeps ==
    ASSUME NEW text \in Texts, NEW s \in Texts, s # <<>>,
           NEW u \in Texts, u # <<>>, \A i \in 1..Len(u) : u[i] # "redacted",
           Occurs(u, Replace(text, s))
    PROVE  \E i \in 1..Len(text) : At(u, text, i) /\ ~At(s, text, i)
<1> DEFINE n == Len(text)
           L == Len(u)
           r == Reading(text, s)[n]
           t == Replace(text, s)
<1>1. n \in Nat /\ t = r.built /\ L \in Nat /\ L > 0
  BY DEF Replace, Texts
<1>2. PICK e : IsKept(e, r, text, s, n)
  BY <1>1, ReadingKeeps
<1>3. PICK k \in 1..Len(t) + 1 : At(u, t, k)
  BY DEF Occurs
<1> HIDE DEF n, L, r, t
<1>4. /\ t \in Texts /\ Len(t) \in Nat
      /\ e \in [1..Len(t) -> 1..n]
      /\ \A j \in 1..Len(t) : t[j] # "redacted" => t[j] = text[e[j]] /\ ~At(s, text, e[j])
      /\ \A j \in 1..Len(t) - 1 :
           t[j] # "redacted" /\ t[j + 1] # "redacted" => e[j + 1] = e[j] + 1
  <2>1. t = r.built /\ r.built \in Texts
    BY <1>1, <1>2 DEF IsKept
  <2>2. Len(t) \in Nat
    BY <2>1 DEF Texts
  <2>. QED
    BY <1>2, <2>1, <2>2 DEF IsKept
<1>5. /\ k + L <= Len(t) + 1
      /\ \A j \in 1..L : t[k + j - 1] = u[j] /\ u[j] # "redacted"
  BY <1>3 DEF At, L
<1>6. \A j \in 0..L - 1 : t[k + j] = u[j + 1] /\ t[k + j] # "redacted" /\ k + j \in 1..Len(t)
  <2> SUFFICES ASSUME NEW j \in 0..L - 1
               PROVE  t[k + j] = u[j + 1] /\ t[k + j] # "redacted" /\ k + j \in 1..Len(t)
    OBVIOUS
  <2>1. j + 1 \in 1..L /\ k + (j + 1) - 1 = k + j
    BY <1>1, <1>4
  <2>2. t[k + (j + 1) - 1] = u[j + 1] /\ u[j + 1] # "redacted"
    BY <1>5, <2>1
  <2>. QED
    BY <1>1, <1>4, <1>5, <2>1, <2>2
<1> DEFINE E == {j \in 0..L - 1 : e[k + j] = e[k] + j}
<1>7. 0 \in E
  <2>1. k \in 1..Len(t) /\ k + 0 = k
    BY <1>1, <1>4, <1>5
  <2>. QED
    BY <1>1, <1>4, <2>1
<1>8. ASSUME NEW j \in 0..L - 1, j \in E, j + 1 <= L - 1 PROVE j + 1 \in E
  <2>1. j + 1 \in 0..L - 1 /\ k + j \in 1..Len(t) - 1 /\ (k + j) + 1 = k + (j + 1)
    BY <1>1, <1>4, <1>5, <1>8
  <2>2. t[k + j] # "redacted" /\ t[k + (j + 1)] # "redacted"
    BY <1>6, <2>1
  <2>3. e[k + (j + 1)] = e[k + j] + 1
    BY <1>4, <2>1, <2>2
  <2>4. e[k] \in 1..n
    BY <1>1, <1>4, <1>5
  <2>. QED
    BY <1>1, <1>8, <2>1, <2>3, <2>4
<1>9. \A j \in 0..L - 1 : e[k + j] = e[k] + j
  <2>1. L - 1 \in Nat
    BY <1>1
  <2> HIDE DEF E
  <2>2. \A j \in 0..L - 1 : j \in E
    BY <1>7, <1>8, <2>1, InductionUpTo
  <2>. QED
    BY <2>2 DEF E
<1>10. k \in 1..Len(t) /\ e[k] \in 1..n /\ t[k] # "redacted"
  <2>1. k + 0 = k /\ 0 \in 0..L - 1
    BY <1>1
  <2>. QED
    BY <1>4, <1>6, <2>1
<1>11. At(u, text, e[k])
  <2>1. L - 1 \in 0..L - 1
    BY <1>1
  <2>2. e[k + (L - 1)] \in 1..n /\ e[k + (L - 1)] = e[k] + (L - 1)
    BY <1>4, <1>6, <1>9, <2>1
  <2>3. e[k] + L <= n + 1
    BY <1>1, <1>10, <2>2
  <2>4. ASSUME NEW j \in 1..L PROVE text[e[k] + j - 1] = u[j]
    <3>1. j - 1 \in 0..L - 1 /\ (j - 1) + 1 = j
      BY <1>1
    <3>2. /\ t[k + (j - 1)] = u[j] /\ t[k + (j - 1)] # "redacted" /\ k + (j - 1) \in 1..Len(t)
          /\ e[k + (j - 1)] = e[k] + (j - 1)
      BY <1>6, <1>9, <3>1
    <3>3. t[k + (j - 1)] = text[e[k] + (j - 1)]
      BY <1>4, <3>2
    <3>4. e[k] + (j - 1) = e[k] + j - 1
      BY <1>1, <1>10
    <3>. QED
      BY <3>2, <3>3, <3>4
  <2>. QED
    BY <2>3, <2>4 DEF At, n, L
<1>. QED
  BY <1>4, <1>10, <1>11 DEF n

\* A text without s stays as it is.
LEMMA ReplaceNothing ==
    ASSUME NEW text \in Texts, NEW s \in Texts, ~Occurs(s, text)
    PROVE  Replace(text, s) = text
<1> DEFINE n == Len(text)
           R == Reading(text, s)
           E == {i \in 0..n : R[i] = [built |-> SubSeq(text, 1, i), next |-> i + 1]}
<1>1. n \in Nat
  BY DEF Texts
<1>2. R[0] = [built |-> <<>>, next |-> 1] /\ \A i \in 1..n : R[i] = Read(R[i - 1], text, s, i)
  BY <1>1, ReadingUnfolds
<1> HIDE DEF R
<1>3. 0 \in E
  <2>1. SubSeq(text, 1, 0) = <<>>
    BY DEF Texts
  <2>. QED
    BY <1>1, <1>2, <2>1
<1>4. ASSUME NEW i \in 0..n, i \in E, i + 1 <= n PROVE i + 1 \in E
  <2>1. i + 1 \in 1..n /\ (i + 1) - 1 = i
    BY <1>1, <1>4
  <2>2. ~At(s, text, i + 1)
    BY <1>1, <2>1 DEF Occurs
  <2>3. R[i + 1] = Read(R[i], text, s, i + 1)
    BY <1>2, <2>1
  <2>4. R[i] = [built |-> SubSeq(text, 1, i), next |-> i + 1]
    BY <1>4
  <2>5. R[i].built = SubSeq(text, 1, i) /\ R[i].next = i + 1
    BY <2>4
  <2>6. ~(i + 1 < R[i].next)
    BY <2>1, <2>5
  <2>7. R[i + 1] = [built |-> Append(R[i].built, text[i + 1]), next |-> (i + 1) + 1]
    BY <2>2, <2>3, <2>6 DEF Read
  <2>8. Append(SubSeq(text, 1, i), text[i + 1]) = SubSeq(text, 1, i + 1)
    BY <2>1, <1>1 DEF Texts
  <2>9. R[i + 1] = [built |-> SubSeq(text, 1, i + 1), next |-> (i + 1) + 1]
    BY <2>5, <2>7, <2>8
  <2>10. i + 1 \in 0..n
    BY <2>1
  <2>. QED
    BY <2>9, <2>10
<1>5. \A i \in 0..n : i \in E
  <2> HIDE DEF E, n
  <2>. QED
    BY <1>1, <1>3, <1>4, InductionUpTo
<1>6. R[n].built = SubSeq(text, 1, n)
  <2>1. n \in E
    BY <1>1, <1>5
  <2>2. R[n] = [built |-> SubSeq(text, 1, n), next |-> n + 1]
    BY <2>1
  <2>. QED
    BY <2>2
<1>7. SubSeq(text, 1, n) = text
  BY DEF Texts
<1>. QED
  BY <1>6, <1>7 DEF Replace, R

----------------------------------------------------------------------------
(***************************************************************************)
(* redact_text.                                                            *)
(***************************************************************************)

\* A text that can be hidden: it is not empty, and nothing that stands in the
\* place of another symbol is in it.
IsSecret(s) == s \in Texts /\ s # <<>> /\ \A i \in DOMAIN s : s[i] \notin Own

LEMMA QuotedSecret ==
    ASSUME NEW s, IsSecret(s)
    PROVE  IsSecret(Quoted(s))
<1>1. s \in Texts /\ Len(s) \in Nat /\ DOMAIN s = 1..Len(s) /\ Len(s) > 0
  BY DEF IsSecret, Texts
<1>2. ASSUME NEW i \in 1..Len(s) PROVE Quoted(s)[i] \in Symbols /\ Quoted(s)[i] \notin Own
  <2>1. s[i] \in Symbols /\ s[i] \notin Own
    BY <1>1 DEF IsSecret, Texts
  <2>2. {"percent", "percent25"} \subseteq Symbols /\ {"percent", "percent25"} \cap Own = {}
    BY SymbolsAssumption DEF Own
  <2>3. Quoted(s)[i] = Quoting(s[i])
    BY <1>1 DEF Quoted
  <2>. QED
    BY <2>1, <2>2, <2>3 DEF Quoting
<1>3. Quoted(s) = [i \in 1..Len(s) |-> Quoted(s)[i]]
  BY <1>1 DEF Quoted
<1>4. Quoted(s) \in Seq(Symbols) /\ Len(Quoted(s)) = Len(s) /\ DOMAIN Quoted(s) = 1..Len(s)
  <2> DEFINE q == Quoted(s)
  <2> HIDE DEF q
  <2>1. q \in [1..Len(s) -> Symbols]
    BY <1>2, <1>3 DEF q
  <2>2. q \in Seq(Symbols) /\ Len(q) = Len(s) /\ DOMAIN q = 1..Len(s)
    BY <1>1, <2>1
  <2>. QED
    BY <2>2 DEF q
<1>5. Quoted(s) # <<>>
  BY <1>1, <1>4
<1>. QED
  BY <1>2, <1>4, <1>5 DEF IsSecret, Texts

\* h has nothing that text does not have but what stands for something else.
NoControl(text) == \A i \in 1..Len(text) : text[i] # "control"

Stems(h, text) ==
    /\ h \in Texts /\ Len(h) <= Len(text)
    /\ text # <<>> => h # <<>> /\ h[Len(h)] \in {text[Len(text)], "redacted", "replacement"}
    /\ \A u : IsSecret(u) /\ Occurs(u, h) => Occurs(u, text)
    /\ NoControl(text) => NoControl(h)

LEMMA StemsTransitive ==
    ASSUME NEW a, NEW b, NEW c, Stems(a, b), Stems(b, c)
    PROVE  Stems(a, c)
<1>1. b # <<>> => a # <<>> /\ a[Len(a)] \in {b[Len(b)], "redacted", "replacement"}
  BY DEF Stems
<1>2. c # <<>> => b # <<>> /\ b[Len(b)] \in {c[Len(c)], "redacted", "replacement"}
  BY DEF Stems
<1>3. c # <<>> => a # <<>> /\ a[Len(a)] \in {c[Len(c)], "redacted", "replacement"}
  BY <1>1, <1>2
<1>4. Len(a) <= Len(c)
  <2>1. Len(a) \in Int /\ Len(b) \in Int
    BY DEF Stems, Texts
  <2>2. CASE Len(c) \in Int
    BY <2>1, <2>2 DEF Stems
  <2>. QED
    BY <2>1, <2>2 DEF Stems
<1>5. \A u : IsSecret(u) /\ Occurs(u, a) => Occurs(u, c)
  BY DEF Stems
<1>6. NoControl(c) => NoControl(a)
  BY DEF Stems
<1>. QED
  BY <1>3, <1>4, <1>5, <1>6 DEF Stems

LEMMA PrintableStems ==
    ASSUME NEW text \in Texts
    PROVE  /\ Stems(Printable(text), text)
           /\ NoControl(Printable(text))
           /\ NoControl(text) => Printable(text) = text
<1> DEFINE p == Printable(text)
           n == Len(text)
<1>1. n \in Nat /\ DOMAIN text = 1..n /\ \A i \in 1..n : text[i] \in Symbols
  BY DEF Texts
<1>2. p = [i \in 1..n |-> p[i]]
  BY <1>1 DEF Printable
<1>3. \A i \in 1..n : p[i] = IF text[i] = "control" THEN "replacement" ELSE text[i]
  BY <1>1 DEF Printable
<1>4. "replacement" \in Symbols /\ "replacement" \in Own
  BY SymbolsAssumption DEF Own
<1> HIDE DEF p, n
<1>5. \A i \in 1..n : p[i] \in Symbols
  BY <1>1, <1>3, <1>4
<1>6. p \in [1..n -> Symbols]
  BY <1>2, <1>5
<1>7. p \in Texts /\ Len(p) = n
  BY <1>1, <1>6 DEF Texts
<1>8. NoControl(p)
  BY <1>3, <1>7 DEF NoControl
<1>9. ASSUME NoControl(text) PROVE p = text
  <2>1. \A i \in 1..n : p[i] = text[i]
    BY <1>3, <1>9 DEF NoControl, n
  <2>2. text = [i \in 1..n |-> text[i]]
    BY DEF Texts, n
  <2>. QED
    BY <1>2, <2>1, <2>2
<1>10. ASSUME NEW u, IsSecret(u), Occurs(u, p) PROVE Occurs(u, text)
  <2>1. PICK i \in 1..n + 1 : At(u, p, i)
    BY <1>7, <1>10 DEF Occurs
  <2>2. Len(u) \in Nat /\ \A k \in 1..Len(u) : u[k] \notin Own
    BY <1>10 DEF IsSecret, Texts
  <2>3. i + Len(u) <= n + 1 /\ \A k \in 1..Len(u) : p[i + k - 1] = u[k]
    BY <1>7, <2>1 DEF At
  <2>4. ASSUME NEW k \in 1..Len(u) PROVE text[i + k - 1] = u[k]
    <3>1. i + k - 1 \in 1..n
      BY <1>1, <2>2, <2>3
    <3>2. p[i + k - 1] = u[k] /\ u[k] # "replacement"
      BY <1>4, <2>2, <2>3
    <3>. QED
      BY <1>3, <3>1, <3>2
  <2>. QED
    BY <2>3, <2>4 DEF Occurs, At, n
<1>11. text # <<>> => p # <<>> /\ p[Len(p)] \in {text[Len(text)], "redacted", "replacement"}
  <2>1. text # <<>> => n \in 1..n
    BY <1>1 DEF Texts, n
  <2>2. n \in 1..n => p # <<>>
    BY <1>7 DEF Texts
  <2>. QED
    BY <1>3, <1>7, <2>1, <2>2 DEF n
<1>12. Len(p) <= Len(text)
  BY <1>1, <1>7 DEF n
<1>13. Stems(p, text)
  BY <1>7, <1>8, <1>10, <1>11, <1>12 DEF Stems
<1>. QED
  BY <1>8, <1>9, <1>13 DEF p

LEMMA ReplaceStems ==
    ASSUME NEW text \in Texts, NEW s, IsSecret(s)
    PROVE  /\ Stems(Replace(text, s), text)
           /\ ~Occurs(s, Replace(text, s))
<1> DEFINE t == Replace(text, s)
<1>1. s \in Texts /\ s # <<>>
  BY DEF IsSecret
<1>2. /\ t \in Texts /\ Len(t) <= Len(text)
      /\ text # <<>> => t # <<>> /\ t[Len(t)] \in {text[Len(text)], "redacted"}
  BY <1>1, ReplaceTyped
<1>3. \A u : IsSecret(u) => u \in Texts /\ u # <<>> /\ \A i \in 1..Len(u) : u[i] # "redacted"
  BY DEF IsSecret, Own, Texts
<1>4. ASSUME NEW u, IsSecret(u), Occurs(u, t)
      PROVE  \E i \in 1..Len(text) : At(u, text, i) /\ ~At(s, text, i)
  BY <1>1, <1>3, <1>4, ReplaceKeeps
<1> HIDE DEF t
<1>5. ASSUME NEW u, IsSecret(u), Occurs(u, t) PROVE Occurs(u, text)
  <2>1. PICK i \in 1..Len(text) : At(u, text, i)
    BY <1>4, <1>5
  <2>2. i \in 1..Len(text) + 1
    BY DEF Texts
  <2>. QED
    BY <2>1, <2>2 DEF Occurs
<1>6. ~Occurs(s, t)
  BY <1>4
<1>7. ASSUME NoControl(text), NEW k \in 1..Len(t), t[k] = "control" PROVE FALSE
  <2> DEFINE u == <<"control">>
  <2>1. u \in Texts /\ u # <<>> /\ Len(u) = 1 /\ u[1] = "control"
    BY SymbolsAssumption DEF Texts, Own
  <2>2. \A i \in 1..Len(u) : u[i] # "redacted"
    BY <2>1
  <2> HIDE DEF u
  <2>3. At(u, t, k) /\ k \in 1..Len(t) + 1
    BY <1>2, <1>7, <2>1 DEF At, Texts
  <2>4. Occurs(u, t)
    BY <2>3 DEF Occurs
  <2>5. PICK i \in 1..Len(text) : At(u, text, i)
    BY <1>1, <2>1, <2>2, <2>4, ReplaceKeeps DEF t
  <2>6. text[i] = "control"
    BY <2>1, <2>5 DEF At, Texts
  <2>. QED
    BY <1>7, <2>6 DEF NoControl
<1>8. NoControl(text) => NoControl(t)
  BY <1>7 DEF NoControl
<1>9. Stems(t, text)
  BY <1>2, <1>5, <1>8 DEF Stems
<1>. QED
  BY <1>6, <1>9 DEF t

\* Neither s nor s as an URL spells it is left.
LEMMA HideStems ==
    ASSUME NEW text \in Texts, NEW s, IsSecret(s)
    PROVE  /\ Stems(Hide(text, s), text)
           /\ ~Occurs(s, Hide(text, s)) /\ ~Occurs(Quoted(s), Hide(text, s))
<1>1. Stems(Replace(text, s), text) /\ ~Occurs(s, Replace(text, s))
  BY ReplaceStems
<1>2. Replace(text, s) \in Texts /\ IsSecret(Quoted(s))
  BY <1>1, QuotedSecret DEF Stems
<1>3. Stems(Hide(text, s), Replace(text, s)) /\ ~Occurs(Quoted(s), Hide(text, s))
  BY <1>2, ReplaceStems DEF Hide
<1>4. ~Occurs(s, Hide(text, s))
  BY <1>1, <1>3 DEF Stems
<1>. QED
  BY <1>1, <1>3, <1>4, StemsTransitive

LEMMA HideNothing ==
    ASSUME NEW text \in Texts, NEW s, IsSecret(s), ~Occurs(s, text), ~Occurs(Quoted(s), text)
    PROVE  Hide(text, s) = text
<1>1. s \in Texts /\ Quoted(s) \in Texts
  BY QuotedSecret DEF IsSecret
<1>. QED
  BY <1>1, ReplaceNothing DEF Hide

\* By induction over the number of texts, a shortest one last.
LEMMA LongestFirstExists ==
    ASSUME NEW S, IsFiniteSet(S), \A s \in S : IsSecret(s)
    PROVE  IsLongestFirst(LongestFirst(S), S) /\ LongestFirst(S) \in [1..Cardinality(S) -> S]
<1> DEFINE N == Cardinality(S)
           E == {n \in 0..N : \A Z \in SUBSET S : Cardinality(Z) = n => \E q : IsLongestFirst(q, Z)}
<1>1. N \in Nat /\ \A s \in S : Len(s) \in Nat
  BY FS_CardinalityType DEF IsSecret, Texts
<1>2. 0 \in E
  <2>1. ASSUME NEW Z \in SUBSET S, Cardinality(Z) = 0 PROVE \E q : IsLongestFirst(q, Z)
    <3>1. Z = {}
      BY <2>1, FS_Subset, FS_EmptySet
    <3>2. IsLongestFirst(<<>>, {})
      BY FS_EmptySet DEF IsLongestFirst
    <3>. QED
      BY <3>1, <3>2
  <2>. QED
    BY <1>1, <2>1
<1>3. ASSUME NEW n \in 0..N, n \in E, n + 1 <= N PROVE n + 1 \in E
  <2>1. ASSUME NEW Z \in SUBSET S, Cardinality(Z) = n + 1 PROVE \E q : IsLongestFirst(q, Z)
    <3>1. IsFiniteSet(Z) /\ Z # {}
      BY <1>1, <2>1, FS_Subset, FS_EmptySet
    <3>2. PICK z \in Z : \A y \in Z : Len(z) <= Len(y)
      <4> DEFINE T == {Len(y) : y \in Z}
      <4>1. T \subseteq Nat /\ T # {}
        BY <1>1, <3>1
      <4>2. PICK l \in T : \A k \in T : l <= k
        BY <4>1, LeastElement
      <4>3. PICK z \in Z : l = Len(z)
        BY <4>2
      <4>. QED
        BY <4>2, <4>3
    <3> DEFINE Y == Z \ {z}
    <3>2a. Cardinality(Y) = Cardinality(Z) - 1
      BY <3>1, FS_RemoveElement
    <3>3. Cardinality(Y) = n /\ Y \in SUBSET S
      BY <1>1, <2>1, <3>2a
    <3>4. PICK q : IsLongestFirst(q, Y)
      BY <1>3, <3>3
    <3>5. /\ q \in [1..n -> Y] /\ \A s \in Y : \E i \in 1..n : q[i] = s
          /\ \A i, j \in 1..n : i < j => Len(q[i]) >= Len(q[j])
      BY <3>3, <3>4 DEF IsLongestFirst
    <3> DEFINE p == [k \in 1..n + 1 |-> IF k <= n THEN q[k] ELSE z]
    <3>6. p \in [1..n + 1 -> Z] /\ (\A k \in 1..n : p[k] = q[k]) /\ p[n + 1] = z
      BY <1>1, <3>5
    <3> HIDE DEF p
    <3>7. ASSUME NEW s \in Z PROVE \E i \in 1..n + 1 : p[i] = s
      <4>1. CASE s = z
        BY <1>1, <3>6, <4>1
      <4>2. CASE s # z
        <5>1. PICK i \in 1..n : q[i] = s
          BY <3>5, <4>2
        <5>. QED
          BY <3>6, <5>1
      <4>. QED
        BY <4>1, <4>2
    <3>8. ASSUME NEW i \in 1..n + 1, NEW j \in 1..n + 1, i < j PROVE Len(p[i]) >= Len(p[j])
      <4>1. i \in 1..n /\ p[i] \in Z
        BY <3>6, <3>8
      <4>2. CASE j = n + 1
        BY <1>1, <3>2, <3>6, <4>1, <4>2
      <4>3. CASE j \in 1..n
        BY <3>5, <3>6, <3>8, <4>1, <4>3
      <4>. QED
        BY <4>2, <4>3
    <3>9. IsLongestFirst(p, Z)
      BY <2>1, <3>6, <3>7, <3>8 DEF IsLongestFirst
    <3>. QED
      BY <3>9
  <2>. QED
    BY <1>3, <2>1
<1>4. \E q : IsLongestFirst(q, S)
  <2> HIDE DEF E
  <2>1. \A n \in 0..N : n \in E
    BY <1>1, <1>2, <1>3, InductionUpTo
  <2>2. N \in E
    BY <1>1, <2>1
  <2>. QED
    BY <2>2 DEF E
<1>5. PICK q : IsLongestFirst(q, S)
  BY <1>4
<1>6. q \in [1..Cardinality(S) -> S]
  BY <1>5 DEF IsLongestFirst
<1>. QED
  BY <1>5, <1>6 DEF LongestFirst

\* The first n secrets of the order are hidden, and stay so.
LEMMA HidingStems ==
    ASSUME NEW text \in Texts, NEW S, IsFiniteSet(S), \A s \in S : IsSecret(s),
           NEW n \in 0..Cardinality(S)
    PROVE  LET h == Hiding(text, S)[n] IN
           /\ Stems(h, text) /\ NoControl(h)
           /\ \A i \in 1..n : ~Occurs(LongestFirst(S)[i], h) /\ ~Occurs(Quoted(LongestFirst(S)[i]), h)
<1> DEFINE H == Hiding(text, S)
           q == LongestFirst(S)
           Is(i) == /\ Stems(H[i], text) /\ NoControl(H[i])
                    /\ \A j \in 1..i : ~Occurs(q[j], H[i]) /\ ~Occurs(Quoted(q[j]), H[i])
           E == {i \in 0..n : Is(i)}
<1>1. Cardinality(S) \in Nat /\ n \in Nat /\ q \in [1..Cardinality(S) -> S]
  BY FS_CardinalityType, LongestFirstExists
<1>2. H[0] = Printable(text) /\ \A i \in 1..Cardinality(S) : H[i] = Hide(H[i - 1], q[i])
  BY <1>1, HidingUnfolds
<1> HIDE DEF H, q
<1>3. Is(0)
  BY <1>2, PrintableStems
<1>4. ASSUME NEW i \in 0..n, Is(i), i + 1 <= n PROVE Is(i + 1)
  <2>1. i + 1 \in 1..Cardinality(S) /\ (i + 1) - 1 = i
    BY <1>1, <1>4
  <2>2. IsSecret(q[i + 1]) /\ H[i + 1] = Hide(H[i], q[i + 1]) /\ H[i] \in Texts
    BY <1>1, <1>2, <1>4, <2>1 DEF Stems
  <2>3. /\ Stems(H[i + 1], H[i])
        /\ ~Occurs(q[i + 1], H[i + 1]) /\ ~Occurs(Quoted(q[i + 1]), H[i + 1])
    BY <2>2, HideStems
  <2>4. NoControl(H[i + 1])
    BY <1>4, <2>3 DEF Stems
  <2>5. Stems(H[i + 1], text)
    BY <1>4, <2>3, StemsTransitive
  <2>6. ASSUME NEW j \in 1..i + 1 PROVE ~Occurs(q[j], H[i + 1]) /\ ~Occurs(Quoted(q[j]), H[i + 1])
    <3>1. CASE j = i + 1
      BY <2>3, <3>1
    <3>2. CASE j \in 1..i
      <4>1. IsSecret(q[j]) /\ IsSecret(Quoted(q[j]))
        BY <1>1, <3>2, QuotedSecret
      <4>2. ~Occurs(q[j], H[i]) /\ ~Occurs(Quoted(q[j]), H[i])
        BY <1>4, <3>2
      <4>. QED
        BY <2>3, <4>1, <4>2 DEF Stems
    <3>. QED
      BY <3>1, <3>2
  <2>. QED
    BY <2>4, <2>5, <2>6
<1>5. \A i \in 0..n : i \in E
  <2>1. 0 \in E
    BY <1>1, <1>3
  <2>2. \A i \in 0..n : i \in E /\ i + 1 <= n => i + 1 \in E
    <3> HIDE DEF Is
    <3>1. ASSUME NEW i \in 0..n, i \in E, i + 1 <= n PROVE i + 1 \in E
      BY <1>4, <3>1
    <3>. QED
      BY <3>1
  <2> HIDE DEF E
  <2>. QED
    BY <1>1, <2>1, <2>2, InductionUpTo
<1>6. Is(n)
  <2> HIDE DEF Is
  <2>. QED
    BY <1>1, <1>5
<1>. QED
  BY <1>6 DEF H, q

\* redact_text hides every secret it is given, as it is and quoted, and no
\* secret, given or not, comes to be in a text by it.
LEMMA RedactHides ==
    ASSUME NEW text \in Texts, NEW S, IsFiniteSet(S), \A s \in S : IsSecret(s)
    PROVE  /\ Stems(Redact(text, S), text) /\ NoControl(Redact(text, S))
           /\ Redact(text, S) \in Free(S)
<1> DEFINE n == Cardinality(S)
           h == Hiding(text, S)[n]
           q == LongestFirst(S)
<1>1. n \in 0..n /\ h = Redact(text, S)
  BY FS_CardinalityType DEF Redact
<1>2. /\ Stems(h, text) /\ NoControl(h)
      /\ \A i \in 1..n : ~Occurs(q[i], h) /\ ~Occurs(Quoted(q[i]), h)
  BY <1>1, HidingStems
<1>3. \A s \in S : \E i \in 1..n : q[i] = s
  BY LongestFirstExists DEF IsLongestFirst
<1> HIDE DEF n, h, q
<1>4. h \in Free(S)
  BY <1>2, <1>3 DEF Free, Stems
<1>. QED
  BY <1>1, <1>2, <1>4

\* A text in which there is nothing to hide stays as it is.
LEMMA RedactNothing ==
    ASSUME NEW S, IsFiniteSet(S), \A s \in S : IsSecret(s), NEW text \in Free(S), NoControl(text)
    PROVE  Redact(text, S) = text
<1> DEFINE H == Hiding(text, S)
           q == LongestFirst(S)
           n == Cardinality(S)
           E == {i \in 0..n : H[i] = text}
<1>1. n \in Nat /\ q \in [1..n -> S] /\ text \in Texts
  BY FS_CardinalityType, LongestFirstExists DEF Free
<1>2. H[0] = Printable(text) /\ \A i \in 1..n : H[i] = Hide(H[i - 1], q[i])
  BY <1>1, HidingUnfolds
<1>3. H[0] = text
  BY <1>1, <1>2, PrintableStems
<1> HIDE DEF H, q, n
<1>4. 0 \in E
  BY <1>1, <1>3
<1>5. ASSUME NEW i \in 0..n, i \in E, i + 1 <= n PROVE i + 1 \in E
  <2>1. i + 1 \in 1..n /\ (i + 1) - 1 = i
    BY <1>1, <1>5
  <2>2. H[i + 1] = Hide(text, q[i + 1]) /\ q[i + 1] \in S
    BY <1>1, <1>2, <1>5, <2>1
  <2>3. ~Occurs(q[i + 1], text) /\ ~Occurs(Quoted(q[i + 1]), text)
    BY <2>2 DEF Free
  <2>4. H[i + 1] = text
    BY <1>1, <2>2, <2>3, HideNothing
  <2>. QED
    BY <2>1, <2>4
<1>6. n \in E
  <2> HIDE DEF E
  <2>1. \A i \in 0..n : i \in E
    BY <1>1, <1>4, <1>5, InductionUpTo
  <2>. QED
    BY <1>1, <2>1
<1>. QED
  BY <1>6 DEF Redact, H, n

----------------------------------------------------------------------------
(***************************************************************************)
(* sanitize_public: what is built has none of the secrets in it.           *)
(***************************************************************************)
LEMMA CutTyped ==
    ASSUME NEW t \in Texts, NEW n \in Nat
    PROVE  /\ Cut(t, n) \in Texts /\ Len(Cut(t, n)) <= n /\ Len(Cut(t, n)) <= Len(t)
           /\ \A i \in 1..Len(Cut(t, n)) : Cut(t, n)[i] = t[i]
           /\ Len(t) <= n => Cut(t, n) = t
           /\ \A u \in Texts : Occurs(u, Cut(t, n)) => Occurs(u, t)
           /\ NoControl(t) => NoControl(Cut(t, n))
<1> DEFINE m == IF Len(t) <= n THEN Len(t) ELSE n
           c == Cut(t, n)
<1>1. m \in Nat /\ m <= n /\ m <= Len(t) /\ Len(t) \in Nat /\ (Len(t) <= n => m = Len(t))
  BY DEF Texts
<1>2. c = SubSeq(t, 1, m)
  BY DEF Cut
<1> HIDE DEF m, c
<1>3. c \in Texts /\ Len(c) = m /\ \A i \in 1..m : c[i] = t[i]
  BY <1>1, <1>2 DEF Texts
<1>4. Len(t) <= n => c = t
  BY <1>1, <1>2 DEF Texts
<1>5. ASSUME NEW u \in Texts, Occurs(u, c) PROVE Occurs(u, t)
  <2>1. PICK i \in 1..m + 1 : At(u, c, i)
    BY <1>3, <1>5 DEF Occurs
  <2>2. Len(u) \in Nat
    BY DEF Texts
  <2>3. i + Len(u) <= m + 1 /\ \A k \in 1..Len(u) : c[i + k - 1] = u[k]
    BY <1>3, <2>1 DEF At
  <2>4. ASSUME NEW k \in 1..Len(u) PROVE t[i + k - 1] = u[k]
    <3>1. i + k - 1 \in 1..m
      BY <1>1, <2>2, <2>3
    <3>. QED
      BY <1>3, <2>3, <3>1
  <2>5. i \in 1..Len(t) + 1 /\ i + Len(u) <= Len(t) + 1
    BY <1>1, <2>2, <2>3
  <2>. QED
    BY <2>4, <2>5 DEF Occurs, At
<1>6. NoControl(t) => NoControl(c)
  BY <1>1, <1>3 DEF NoControl
<1>. QED
  BY <1>1, <1>3, <1>4, <1>5, <1>6 DEF c

LEMMA CutFree ==
    ASSUME NEW S, \A s \in S : IsSecret(s), NEW t \in Free(S), NEW n \in Nat
    PROVE  Cut(t, n) \in Free(S)
<1>1. t \in Texts /\ \A s \in S : s \in Texts /\ Quoted(s) \in Texts
  BY QuotedSecret DEF Free, IsSecret
<1>. QED
  BY <1>1, CutTyped DEF Free

\* Nothing to hide is in a text of this program's own.
LEMMA OwnFree ==
    ASSUME NEW S, \A s \in S : IsSecret(s), NEW c \in Own
    PROVE  <<c>> \in Free(S)
<1> DEFINE t == <<c>>
<1>1. t \in Texts /\ Len(t) = 1 /\ t[1] = c
  BY SymbolsAssumption DEF Texts
<1> HIDE DEF t
<1>2. ASSUME NEW s, IsSecret(s), Occurs(s, t) PROVE FALSE
  <2>1. PICK i \in 1..2 : At(s, t, i)
    BY <1>1, <1>2 DEF Occurs
  <2>2. Len(s) \in Nat /\ Len(s) > 0 /\ s[1] \notin Own
    BY <1>2 DEF IsSecret, Texts
  <2>3. i = 1 /\ t[i + 1 - 1] = s[1]
    BY <1>1, <2>1, <2>2 DEF At
  <2>. QED
    BY <1>1, <2>2, <2>3
<1>. QED
  BY <1>1, <1>2, QuotedSecret DEF Free, t

LEMMA PutTyped ==
    ASSUME NEW F, NEW fs \in Seq(F), NEW f \in F
    PROVE  /\ Put(fs, f) \in Seq(F)
           /\ Len(Put(fs, f)) \in {Len(fs), Len(fs) + 1}
<1>1. CASE \E i \in DOMAIN fs : fs[i].key = f.key
  <2> DEFINE g == [i \in 1..Len(fs) |-> IF fs[i].key = f.key THEN f ELSE fs[i]]
  <2>1. DOMAIN fs = 1..Len(fs) /\ Len(fs) \in Nat
    OBVIOUS
  <2>2. Put(fs, f) = g
    BY <1>1, <2>1 DEF Put
  <2>3. g \in [1..Len(fs) -> F]
    OBVIOUS
  <2> HIDE DEF g
  <2>4. g \in Seq(F) /\ Len(g) = Len(fs)
    BY <2>1, <2>3
  <2>. QED
    BY <2>2, <2>4
<1>2. CASE ~\E i \in DOMAIN fs : fs[i].key = f.key
  <2>1. Put(fs, f) = Append(fs, f)
    BY <1>2 DEF Put
  <2>. QED
    BY <2>1
<1>. QED
  BY <1>1, <1>2

LEMMA FieldAt ==
    ASSUME NEW K, NEW V, NEW fs \in Seq([key : K, value : V]), NEW i \in 1..Len(fs)
    PROVE  fs[i] \in [key : K, value : V] /\ fs[i].key \in K /\ fs[i].value \in V
<1> DEFINE F == [key : K, value : V]
<1>1. fs \in Seq(F)
  OBVIOUS
<1>2. \A f \in F : f.key \in K /\ f.value \in V
  OBVIOUS
<1> HIDE DEF F
<1>3. fs[i] \in F
  BY <1>1
<1>. QED
  BY <1>2, <1>3 DEF F

\* Texts without the secrets in B are without those in C once K is hidden.
Hides(K, B, C) ==
    IsFiniteSet(K) /\ C \subseteq B \cup K /\ \A s \in B \cup K : IsSecret(s)

\* Whatever is looked up for a node hides it.
Looked(l, B, C) == \A i \in 0..MaxItems : Hides(l[i], B, C)

\* And whatever is looked up in the course of a pass.
PassHides(L, B, C) == \A left \in 1..MaxNodes : Looked(L[left], B, C)

LEMMA LookedSecrets ==
    ASSUME NEW B, NEW C, NEW l, Looked(l, B, C)
    PROVE  (\A s \in B : IsSecret(s)) /\ \A s \in C : IsSecret(s)
<1>1. 0 \in 0..MaxItems
  BY LimitsPositive
<1>. QED
  BY <1>1 DEF Looked, Hides

LEMMA RedactFrees ==
    ASSUME NEW B, NEW C, NEW K, Hides(K, B, C), NEW text \in Free(B)
    PROVE  Redact(text, K) \in Free(C)
<1> DEFINE h == Redact(text, K)
<1>1. text \in Texts /\ IsFiniteSet(K) /\ \A s \in K : IsSecret(s)
  BY DEF Hides, Free
<1>2. Stems(h, text) /\ h \in Free(K)
  BY <1>1, RedactHides
<1> HIDE DEF h
<1>3. ASSUME NEW s \in C PROVE ~Occurs(s, h) /\ ~Occurs(Quoted(s), h)
  <2>1. CASE s \in K
    BY <1>2, <2>1 DEF Free
  <2>2. CASE s \in B
    <3>1. IsSecret(s) /\ IsSecret(Quoted(s))
      BY <2>2, QuotedSecret DEF Hides
    <3>2. ~Occurs(s, text) /\ ~Occurs(Quoted(s), text)
      BY <2>2 DEF Free
    <3>. QED
      BY <1>2, <3>1, <3>2 DEF Stems
  <2>. QED
    BY <2>1, <2>2 DEF Hides
<1>4. h \in Texts
  BY <1>2 DEF Stems
<1>5. h \in Free(C)
  BY <1>3, <1>4 DEF Free
<1>. QED
  BY <1>5 DEF h

LEMMA FillingFree ==
    ASSUME NEW B, NEW C, NEW l, Looked(l, B, C), NEW V, NEW W,
           NEW fields \in Seq([key : Free(B), value : V]), Len(fields) <= MaxItems,
           NEW built \in Seq(W), Len(built) = Len(fields), NEW n \in 0..Len(fields)
    PROVE  /\ Filling(fields, built, l)[n] \in Seq([key : Free(C), value : W])
           /\ Len(Filling(fields, built, l)[n]) <= n
<1> DEFINE F == [key : Free(C), value : W]
           R == Filling(fields, built, l)
           E == {i \in 0..n : R[i] \in Seq(F) /\ Len(R[i]) <= i}
           f(i) == Field(Cut(Redact(fields[i].key, l[i]), MaxKey), built[i])
<1>1. Len(fields) \in Nat
  OBVIOUS
<1>2. R[0] = <<>> /\ \A i \in 1..Len(fields) : R[i] = Put(R[i - 1], f(i))
  BY <1>1, FillingUnfolds
<1>3. ASSUME NEW i \in 1..Len(fields) PROVE f(i) \in F
  <2>1. fields[i].key \in Free(B) /\ built[i] \in W
    <3>1. i \in 1..Len(built)
      OBVIOUS
    <3>2. built[i] \in W
      BY <3>1
    <3>. QED
      BY <3>2, FieldAt
  <2>2. Cut(Redact(fields[i].key, l[i]), MaxKey) \in Free(C)
    <3>1. i \in 0..MaxItems
      BY <1>1, LimitsPositive
    <3>2. Redact(fields[i].key, l[i]) \in Free(C)
      BY <2>1, <3>1, RedactFrees DEF Looked
    <3>. QED
      BY <3>2, LookedSecrets, CutFree, LimitsPositive
  <2>. QED
    BY <2>1, <2>2 DEF Field
<1> HIDE DEF R, f, F
<1>4. 0 \in E
  <2>1. <<>> \in Seq(F) /\ Len(<<>>) = 0
    OBVIOUS
  <2>2. R[0] = <<>> /\ 0 \in 0..n
    BY <1>1, <1>2
  <2>3. R[0] \in Seq(F)
    BY <2>1, <2>2
  <2>4. Len(R[0]) <= 0
    BY <2>1, <2>2
  <2>. QED
    BY <2>2, <2>3, <2>4
<1>5. ASSUME NEW i \in 0..n, i \in E, i + 1 <= n PROVE i + 1 \in E
  <2>1. i + 1 \in 1..Len(fields) /\ (i + 1) - 1 = i
    BY <1>1, <1>5
  <2>2. R[i + 1] = Put(R[i], f(i + 1)) /\ f(i + 1) \in F /\ R[i] \in Seq(F) /\ Len(R[i]) <= i
    BY <1>2, <1>3, <1>5, <2>1
  <2>2a. ASSUME NEW fs \in Seq(F), NEW g \in F
         PROVE  Put(fs, g) \in Seq(F) /\ Len(Put(fs, g)) \in {Len(fs), Len(fs) + 1}
    BY PutTyped
  <2>3. R[i + 1] \in Seq(F) /\ Len(R[i + 1]) \in {Len(R[i]), Len(R[i]) + 1} /\ Len(R[i]) \in Nat
    BY <2>2, <2>2a
  <2>4. Len(R[i + 1]) <= i + 1
    BY <1>5, <2>2, <2>3
  <2>. QED
    BY <1>5, <2>3, <2>4
<1> HIDE DEF E
<1>6. \A i \in 0..n : i \in E
  <2>1. n \in Nat
    BY <1>1
  <2>2. \A i \in 0..n : i \in E /\ i + 1 <= n => i + 1 \in E
    BY <1>5
  <2>. QED
    BY <1>4, <2>1, <2>2, InductionUpTo
<1>7. R[n] \in Seq(F) /\ Len(R[n]) <= n
  <2>1. n \in 0..n
    BY <1>1
  <2>2. n \in E
    BY <1>6, <2>1
  <2>. QED
    BY <2>2 DEF E
<1>. QED
  BY <1>7 DEF R, F

\* What an item nested at most n deep holds.
LEMMA ValuesNested ==
    ASSUME NEW K, NEW T, NEW n \in 0..MaxNesting, NEW x \in Nested(K, T)[n]
    PROVE  /\ Len(Values(x)) \in Nat /\ DOMAIN Values(x) = 1..Len(Values(x))
           /\ \A i \in 1..Len(Values(x)) : n > 0 /\ Values(x)[i] \in Nested(K, T)[n - 1]
           /\ x.type = "object" => Len(Values(x)) = Len(x.fields)
<1> DEFINE V == Nested(K, T)[n - 1]
<1>1. CASE IsText(x, T) \/ IsOther(x)
  <2>1. x.type \notin {"list", "object"}
    BY <1>1 DEF IsText, IsOther
  <2>2. Values(x) = <<>>
    BY <2>1 DEF Values
  <2>. QED
    BY <2>1, <2>2
<1>2. CASE n > 0 /\ IsList(x, V)
  <2>1. Values(x) = x.items /\ x.items \in Seq(V) /\ x.type # "object"
    BY <1>2 DEF Values, IsList
  <2>. QED
    BY <1>2, <2>1
<1>3. CASE n > 0 /\ IsObject(x, K, V)
  <2>1. x.type = "object" /\ x.fields \in Seq([key : K, value : V])
    BY <1>3 DEF IsObject
  <2>2. Values(x) = [i \in 1..Len(x.fields) |-> x.fields[i].value]
    BY <2>1 DEF Values
  <2>3. Len(x.fields) \in Nat /\ \A i \in 1..Len(x.fields) : x.fields[i].value \in V
    BY <2>1, FieldAt
  <2> DEFINE v == Values(x)
  <2> HIDE DEF v
  <2>4. v \in [1..Len(x.fields) -> V]
    BY <2>2, <2>3 DEF v
  <2>5. v \in Seq(V) /\ Len(v) = Len(x.fields)
    BY <2>3, <2>4
  <2>. QED
    BY <1>3, <2>5 DEF v
<1>. QED
  BY <1>1, <1>2, <1>3, NestedShape

\* A visit on a budget of left nodes: refused, or m values that are in W.
Yields(v, left, W, m) ==
    \/ v = Refusal
    \/ v.left \in 0..left /\ v.built \in Seq(W) /\ Len(v.built) = m

LEMMA Singleton ==
    ASSUME NEW W, NEW w \in W
    PROVE  <<w>> \in Seq(W) /\ Len(<<w>>) = 1 /\ <<w>>[1] = w
OBVIOUS

LEMMA VisitingYields ==
    ASSUME NEW K, NEW T, NEW n \in 0..MaxNesting, NEW x \in Nested(K, T)[n],
           NEW W, Text(<<"redacted">>) \in W, NEW below, NEW left \in Nat,
           n > 0 => \A y \in Nested(K, T)[n - 1], l \in 0..left : Yields(below[y][l], l, W, 1),
           NEW i \in 0..Len(Values(x))
    PROVE  Yields(Visiting(below, x, left)[i], left, W, i)
<1> DEFINE R == Visiting(below, x, left)
           m == Len(Values(x))
           E == {j \in 0..i : Yields(R[j], left, W, j)}
<1>1. /\ m \in Nat
      /\ \A j \in 1..m : n > 0 /\ Values(x)[j] \in Nested(K, T)[n - 1]
  BY ValuesNested
<1>2. /\ R[0] = [left |-> left, built |-> <<>>]
      /\ \A j \in 1..m : R[j] = NextValue(below, x, R[j - 1], j)
  BY <1>1, VisitingUnfolds
<1> HIDE DEF R, m
<1>3. 0 \in E
  <2>1. <<>> \in Seq(W) /\ Len(<<>>) = 0
    OBVIOUS
  <2>2. R[0].left = left /\ R[0].built = <<>>
    BY <1>2
  <2>3. R[0].left \in 0..left /\ R[0].built \in Seq(W) /\ Len(R[0].built) = 0
    BY <2>1, <2>2
  <2>4. 0 \in 0..i
    BY <1>1 DEF m
  <2>. QED
    BY <2>3, <2>4 DEF Yields
<1>4. ASSUME NEW j \in 0..i, j \in E, j + 1 <= i PROVE j + 1 \in E
  <2>1. j + 1 \in 1..m /\ (j + 1) - 1 = j /\ j + 1 \in 0..i
    BY <1>1, <1>4 DEF m
  <2>2. R[j + 1] = NextValue(below, x, R[j], j + 1)
    BY <1>2, <2>1
  <2>3. CASE R[j] = Refusal
    <3>1. R[j + 1] = Refusal
      BY <2>2, <2>3 DEF NextValue, Refusal
    <3>. QED
      BY <2>1, <3>1 DEF Yields
  <2>4. CASE R[j].left \in 0..left /\ R[j].built \in Seq(W) /\ Len(R[j].built) = j
    <3> DEFINE v == VisitValue(below, x, R[j].left, j + 1)
    <3>1. R[j + 1] = Join(R[j], v)
      BY <2>2, <2>4 DEF NextValue
    <3>2. Yields(v, R[j].left, W, 1)
      <4>1. CASE j + 1 \in Hidden(x)
        <5>1. v.left = R[j].left /\ v.built = <<Text(<<"redacted">>)>>
          BY <4>1 DEF VisitValue
        <5>2. v.built \in Seq(W) /\ Len(v.built) = 1
          BY <5>1, Singleton
        <5>. QED
          BY <2>4, <5>1, <5>2 DEF Yields
      <4>2. CASE j + 1 \notin Hidden(x)
        BY <1>1, <2>1, <2>4, <4>2 DEF VisitValue
      <4>. QED
        BY <4>1, <4>2
    <3> HIDE DEF v
    <3>3. CASE v = Refusal
      <4>1. R[j + 1] = Refusal
        BY <3>1, <3>3 DEF Join, Refusal
      <4>. QED
        BY <2>1, <4>1 DEF Yields
    <3>4. CASE v.left \in 0..R[j].left /\ v.built \in Seq(W) /\ Len(v.built) = 1
      <4>0. ~(v.left < 0)
        BY <2>4, <3>4
      <4>1. R[j + 1].left = v.left /\ R[j + 1].built = Append(R[j].built, v.built[1])
        BY <3>1, <4>0 DEF Join
      <4> DEFINE a == R[j].built
                 b == v.built
      <4>2. a \in Seq(W) /\ b \in Seq(W) /\ Len(a) = j /\ Len(b) = 1
        BY <2>4, <3>4
      <4> HIDE DEF a, b
      <4>2a. b[1] \in W
        <5>1. 1 \in 1..Len(b)
          BY <4>2
        <5>. QED
          BY <4>2, <5>1, ElementOfSeq
      <4>3. Append(a, b[1]) \in Seq(W) /\ Len(Append(a, b[1])) = j + 1
        BY <4>2, <4>2a
      <4>4. v.left \in 0..left
        BY <2>4, <3>4
      <4>5. Yields(R[j + 1], left, W, j + 1)
        BY <4>1, <4>3, <4>4 DEF Yields, a, b
      <4>. QED
        BY <2>1, <4>5
    <3>. QED
      BY <3>2, <3>3, <3>4 DEF Yields
  <2>. QED
    BY <1>4, <2>3, <2>4 DEF Yields
<1>5. \A j \in 0..i : j \in E
  <2>1. i \in Nat
    BY <1>1 DEF m
  <2> HIDE DEF E
  <2>. QED
    BY <2>1, <1>3, <1>4, InductionUpTo
<1>. QED
  BY <1>1, <1>5 DEF R, m

\* An item is rebuilt at its nesting, without a secret.
LEMMA RebuiltFree ==
    ASSUME NEW B, NEW C, NEW l, Looked(l, B, C), NEW n \in 0..MaxNesting,
           NEW x \in Nested(Free(B), Free(B))[n], ~TooLarge(x), NEW built,
           n > 0 => built \in Seq(Nested(Free(C), Free(C))[n - 1]), Len(built) = Len(Values(x))
    PROVE  Rebuilt(x, built, l) \in Nested(Free(C), Free(C))[n]
<1> DEFINE V == Nested(Free(B), Free(B))[n - 1]
           W == Nested(Free(C), Free(C))[n - 1]
<1>1. CASE IsText(x, Free(B))
  <2>1. Rebuilt(x, built, l) = Text(Redact(Cut(x.text, MaxText), l[0]))
    BY <1>1 DEF Rebuilt, IsText
  <2>2. Redact(Cut(x.text, MaxText), l[0]) \in Free(C)
    <3>1. 0 \in 0..MaxItems
      BY LimitsPositive
    <3>2. Cut(x.text, MaxText) \in Free(B)
      BY <1>1, CutFree, LookedSecrets, LimitsPositive DEF IsText
    <3>. QED
      BY <3>1, <3>2, RedactFrees DEF Looked
  <2>. QED
    BY <2>1, <2>2, NestedMade
<1>2. CASE IsOther(x)
  <2>1. Rebuilt(x, built, l) = Null
    BY <1>2 DEF Rebuilt, IsOther
  <2>. QED
    BY <2>1, NestedMade
<1>3. CASE n > 0 /\ IsList(x, V)
  <2>1. Rebuilt(x, built, l) = List(built)
    BY <1>3 DEF Rebuilt, IsList
  <2>. QED
    BY <1>3, <2>1, NestedMade
<1>4. CASE n > 0 /\ IsObject(x, Free(B), V)
  <2>1. x.type = "object" /\ x.fields \in Seq([key : Free(B), value : V])
    BY <1>4 DEF IsObject
  <2>2. Rebuilt(x, built, l) = Object(Filling(x.fields, built, l)[Len(x.fields)])
    BY <2>1 DEF Rebuilt
  <2>3. Len(built) = Len(x.fields) /\ Len(x.fields) \in Nat
    BY <2>1, ValuesNested
  <2>4. Len(x.fields) \in 0..Len(x.fields) /\ built \in Seq(W)
    BY <1>4, <2>3
  <2>5. Filling(x.fields, built, l)[Len(x.fields)] \in Seq([key : Free(C), value : W])
    <3>1. Len(x.fields) <= MaxItems
      BY <2>1, <2>3, LimitsPositive DEF TooLarge
    <3> HIDE DEF V, W
    <3>2. Len(x.fields) \in 0..Len(x.fields) /\ x.fields \in Seq([key : Free(B), value : V]) /\ built \in Seq(W)
      BY <2>1, <2>4
    <3>. QED
      BY <2>3, <3>1, <3>2, FillingFree
  <2>. QED
    BY <1>4, <2>2, <2>5, NestedMade
<1>. QED
  BY <1>1, <1>2, <1>3, <1>4, NestedShape

LEMMA VisitYields ==
    ASSUME NEW B, NEW C, NEW L, PassHides(L, B, C),
           NEW room \in 0..MaxDepth + 1
    PROVE  \A n \in 0..MaxNesting : \A x \in Nested(Free(B), Free(B))[n], left \in 0..MaxNodes :
             Yields(Visit(L)[room][x][left], left, Nested(Free(C), Free(C))[n], 1)
<1> DEFINE Q == Visit(L)
           Is(r) == \A n \in 0..MaxNesting : \A x \in Nested(Free(B), Free(B))[n], left \in 0..MaxNodes :
                      Yields(Q[r][x][left], left, Nested(Free(C), Free(C))[n], 1)
           E == {r \in 0..room : Is(r)}
<1>1. Q[0] = NoVisit /\ \A r \in 1..MaxDepth + 1 : Q[r] = VisitAbove(Q[r - 1], L)
  BY VisitUnfolds
<1>2. \A n \in 0..MaxNesting : \A x \in Nested(Free(B), Free(B))[n] : x \in Json
  <2>1. Free(B) \subseteq Texts /\ MaxNesting \in 0..MaxNesting
    BY LimitsPositive DEF Free
  <2>2. \A n \in 0..MaxNesting : Nested(Free(B), Free(B))[n] \subseteq Nested(Texts, Texts)[n]
    BY <2>1, NestedMonotone
  <2>3. \A n \in 0..MaxNesting : Nested(Texts, Texts)[n] \subseteq Nested(Texts, Texts)[MaxNesting]
    BY <2>1, NestedGrows
  <2>. QED
    BY <2>2, <2>3 DEF Json, JsonOf
<1> HIDE DEF Q
<1>3. Is(0)
  BY <1>1, <1>2 DEF NoVisit, Yields
<1>4. ASSUME NEW r \in 0..room, Is(r), r + 1 <= room PROVE Is(r + 1)
  <2>1. Q[r + 1] = VisitAbove(Q[r], L)
    <3>1. r + 1 \in 1..MaxDepth + 1 /\ (r + 1) - 1 = r
      BY <1>4, LimitsPositive
    <3>. QED
      BY <1>1, <3>1
  <2>2. SUFFICES ASSUME NEW n \in 0..MaxNesting, NEW x \in Nested(Free(B), Free(B))[n],
                        NEW left \in 0..MaxNodes
                 PROVE  Yields(Q[r + 1][x][left], left, Nested(Free(C), Free(C))[n], 1)
    OBVIOUS
  <2> DEFINE W == Nested(Free(C), Free(C))[n - 1]
             m == Len(Values(x))
             all == Visiting(Q[r], x, left - 1)[m]
  <2>3. x \in Json
    BY <1>2
  <2>4. Q[r + 1][x][left] = IF left = 0 \/ TooLarge(x) THEN Refusal ELSE Visited(Q[r], x, left, L)
    BY <2>1, <2>3 DEF VisitAbove
  <2>5. CASE left = 0 \/ TooLarge(x)
    BY <2>4, <2>5 DEF Yields
  <2>6. CASE ~(left = 0 \/ TooLarge(x))
    <3>1. left - 1 \in Nat /\ left - 1 \in 0..MaxNodes /\ left \in Nat
      BY <2>6, LimitsPositive
    <3>2. Q[r + 1][x][left] = IF all.left < 0 THEN Refusal
                              ELSE [left |-> all.left, built |-> <<Rebuilt(x, all.built, L[left])>>]
      BY <2>4, <2>6 DEF Visited
    <3>3. m \in Nat /\ m \in 0..m
      BY ValuesNested
    <3>4. \E V : /\ (n > 0 => V = W)
                 /\ Yields(all, left - 1, V, m)
      <4>1. CASE n > 0
        <5>1. n - 1 \in 0..MaxNesting
          BY <4>1, LimitsPositive
        <5>2. Text(<<"redacted">>) \in W
          <6>1. 1 \in 1..MaxNodes
            BY LimitsPositive
          <6>2. \A s \in C : IsSecret(s)
            BY <6>1, LookedSecrets DEF PassHides
          <6>. QED
            BY <5>1, <6>2, NestedMade, OwnFree DEF Own
        <5>3. \A y \in Nested(Free(B), Free(B))[n - 1], l \in 0..left - 1 : Yields(Q[r][y][l], l, W, 1)
          <6>1. \A l \in 0..left - 1 : l \in 0..MaxNodes
            BY <3>1, LimitsPositive
          <6>. QED
            BY <1>4, <5>1, <6>1
        <5> HIDE DEF W
        <5>4. Yields(all, left - 1, W, m)
          BY <3>1, <3>3, <5>2, <5>3, VisitingYields
        <5>. QED
          BY <5>4
      <4>2. CASE ~(n > 0)
        <5> DEFINE V == {Text(<<"redacted">>)}
        <5>1. Text(<<"redacted">>) \in V
          OBVIOUS
        <5> HIDE DEF V
        <5>2. Yields(all, left - 1, V, m)
          BY <3>1, <3>3, <4>2, <5>1, VisitingYields
        <5>. QED
          BY <4>2, <5>2
      <4>. QED
        BY <4>1, <4>2
    <3>5. PICK V : (n > 0 => V = W) /\ Yields(all, left - 1, V, m)
      BY <3>4
    <3> HIDE DEF all
    <3>6. CASE all = Refusal
      BY <3>2, <3>6 DEF Yields, Refusal
    <3>7. CASE all.left \in 0..left - 1 /\ all.built \in Seq(V) /\ Len(all.built) = m
      <4>1. n > 0 => all.built \in Seq(W)
        BY <3>5, <3>7
      <4>2. Rebuilt(x, all.built, L[left]) \in Nested(Free(C), Free(C))[n]
        <5>1. left \in 1..MaxNodes
          BY <2>6, LimitsPositive
        <5>. QED
          BY <2>6, <3>7, <4>1, <5>1, RebuiltFree DEF PassHides
      <4>3. Q[r + 1][x][left] = [left |-> all.left, built |-> <<Rebuilt(x, all.built, L[left])>>]
        BY <3>2, <3>7
      <4>4. all.left \in 0..left
        BY <3>1, <3>7
      <4> DEFINE N == Nested(Free(C), Free(C))[n]
                 b == Rebuilt(x, all.built, L[left])
      <4> HIDE DEF N, b
      <4>5. <<b>> \in Seq(N) /\ Len(<<b>>) = 1
        BY <4>2, Singleton DEF N, b
      <4>6. Q[r + 1][x][left].left = all.left /\ Q[r + 1][x][left].built = <<b>>
        BY <4>3 DEF b
      <4>7. Yields(Q[r + 1][x][left], left, N, 1)
        BY <4>4, <4>5, <4>6 DEF Yields
      <4>. QED
        BY <4>7 DEF N
    <3>. QED
      BY <3>5, <3>6, <3>7 DEF Yields
  <2>. QED
    BY <2>5, <2>6
<1>5. Is(room)
  <2> HIDE DEF Is
  <2>1. 0 \in E /\ room \in Nat
    BY <1>3, LimitsPositive
  <2>2. ASSUME NEW r \in 0..room, r \in E, r + 1 <= room PROVE r + 1 \in E
    BY <1>4, <2>2
  <2> HIDE DEF E
  <2>3. \A r \in 0..room : r \in E
    BY <2>1, <2>2, InductionUpTo
  <2>. QED
    BY <2>1, <2>3 DEF E
<1>. QED
  BY <1>5 DEF Q

\* The root is visited, and what is built of an object is one.
LEMMA VisitAtRoom ==
    ASSUME NEW L, NEW room \in 1..MaxDepth + 1, NEW x \in Json, NEW left \in 0..MaxNodes
    PROVE  Visit(L)[room][x][left] =
               IF left = 0 \/ TooLarge(x) THEN Refusal ELSE Visited(Visit(L)[room - 1], x, left, L)
<1>1. Visit(L)[room] = VisitAbove(Visit(L)[room - 1], L)
  BY VisitUnfolds
<1> DEFINE q == Visit(L)[room - 1]
<1> HIDE DEF q
<1>2. VisitAbove(q, L)[x][left] = IF left = 0 \/ TooLarge(x) THEN Refusal ELSE Visited(q, x, left, L)
  BY DEF VisitAbove
<1>. QED
  BY <1>1, <1>2 DEF q

LEMMA RebuiltObject ==
    ASSUME NEW x, x.type = "object", NEW built, NEW l
    PROVE  Rebuilt(x, built, l) = Object(Filling(x.fields, built, l)[Len(x.fields)])
BY DEF Rebuilt

LEMMA ObjectOf ==
    ASSUME NEW K, NEW T, NEW x \in JsonOf(K, T), x.type = "object"
    PROVE  IsObject(x, K, Nested(K, T)[MaxNesting - 1])
<1>1. MaxNesting \in 0..MaxNesting
  BY LimitsPositive
<1>. QED
  BY <1>1, NestedShape DEF JsonOf, IsText, IsOther, IsList

LEMMA ObjectMade ==
    ASSUME NEW K, NEW T, NEW fs \in Seq([key : K, value : Nested(K, T)[MaxNesting - 1]])
    PROVE  Object(fs) \in JsonOf(K, T) /\ Object(fs).type = "object" /\ Object(fs).fields = fs
<1>1. MaxNesting \in 0..MaxNesting /\ MaxNesting > 0
  BY LimitsPositive
<1>2. Object(fs) \in JsonOf(K, T)
  BY <1>1, NestedMade DEF JsonOf
<1>3. Object(fs).type = "object" /\ Object(fs).fields = fs
  BY DEF Object
<1>. QED
  BY <1>2, <1>3

LEMMA PublicResultFree ==
    ASSUME NEW B, NEW C, NEW L, PassHides(L, B, C),
           NEW data \in JsonOf(Free(B), Free(B)), data.type = "object", PublicResult(data, L) # <<>>
    PROVE  \E v \in JsonOf(Free(C), Free(C)) : v.type = "object" /\ PublicResult(data, L) = <<v>>
<1> DEFINE all == Visit(L)[MaxDepth + 1][data][MaxNodes]
           F == Free(C)
           V == Nested(F, F)[MaxNesting - 1]
           b == all.built[1]
<1>1. /\ MaxNodes \in 0..MaxNodes /\ MaxNodes \in Nat /\ MaxDepth + 1 \in 1..MaxDepth + 1
      /\ MaxDepth + 1 \in 0..MaxDepth + 1
      /\ MaxNesting \in 0..MaxNesting /\ MaxNesting - 1 \in 0..MaxNesting /\ MaxNesting > 0
  BY LimitsPositive
<1>2. data \in Nested(Free(B), Free(B))[MaxNesting] /\ data \in Json
  <2>1. Free(B) \subseteq Texts
    BY DEF Free
  <2>2. Nested(Free(B), Free(B))[MaxNesting] \subseteq Nested(Texts, Texts)[MaxNesting]
    BY <1>1, <2>1, NestedMonotone
  <2>. QED
    BY <2>2 DEF Json, JsonOf
<1>3. Yields(all, MaxNodes, Nested(F, F)[MaxNesting], 1)
  BY <1>1, <1>2, VisitYields
<1>4. all # Refusal
  BY DEF PublicResult, Refusal
<1>5. all = Visited(Visit(L)[(MaxDepth + 1) - 1], data, MaxNodes, L)
  BY <1>1, <1>2, <1>4, VisitAtRoom
<1>6. PublicResult(data, L) = <<Object(Put(b.fields, NoticeField))>>
  BY DEF PublicResult
<1> HIDE DEF all
<1>7. b \in JsonOf(F, F)
  BY <1>3, <1>4 DEF Yields, JsonOf
<1>8. b.type = "object"
  <2>1. \E built : b = Rebuilt(data, built, L[MaxNodes])
    <3> DEFINE r == Visiting(Visit(L)[(MaxDepth + 1) - 1], data, MaxNodes - 1)[Len(Values(data))]
    <3>1. all = [left |-> r.left, built |-> <<Rebuilt(data, r.built, L[MaxNodes])>>]
      BY <1>4, <1>5 DEF Visited
    <3>. QED
      BY <3>1
  <2>. QED
    BY <2>1, RebuiltObject DEF Object
<1> HIDE DEF b
<1>9. b.fields \in Seq([key : F, value : V])
  BY <1>7, <1>8, ObjectOf DEF IsObject
<1>10. NoticeField \in [key : F, value : V]
  <2>1. <<"noticekey">> \in F /\ <<"notice">> \in F
    <3>1. MaxNodes \in 1..MaxNodes
      BY LimitsPositive
    <3>2. \A s \in C : IsSecret(s)
      BY <3>1, LookedSecrets DEF PassHides
    <3>. QED
      BY <3>2, OwnFree DEF Own
  <2>2. Text(<<"notice">>) \in V
    BY <1>1, <2>1, NestedMade
  <2>. QED
    BY <2>1, <2>2 DEF NoticeField, Field
<1>11. Put(b.fields, NoticeField) \in Seq([key : F, value : V])
  <2> DEFINE R == [key : F, value : V]
  <2>1. b.fields \in Seq(R) /\ NoticeField \in R
    BY <1>9, <1>10
  <2> HIDE DEF R
  <2>2. Put(b.fields, NoticeField) \in Seq(R)
    BY <2>1, PutTyped
  <2>. QED
    BY <2>2 DEF R
<1>12. /\ Object(Put(b.fields, NoticeField)) \in JsonOf(F, F)
       /\ Object(Put(b.fields, NoticeField)).type = "object"
  <2> DEFINE fs == Put(b.fields, NoticeField)
  <2>1. fs \in Seq([key : F, value : V])
    BY <1>11
  <2> HIDE DEF fs, F
  <2>2. Object(fs) \in JsonOf(F, F) /\ Object(fs).type = "object"
    BY <2>1, ObjectMade
  <2>. QED
    BY <2>2 DEF fs
<1>. QED
  BY <1>6, <1>12

----------------------------------------------------------------------------
(***************************************************************************)
(* sanitize_public: the limits.                                            *)
(***************************************************************************)
Node == [place : Seq(Nat), value : Json]

LEMMA NodeMade ==
    /\ \A p \in Seq(Nat), v \in Json : [place |-> p, value |-> v] \in Node
    /\ \A n \in Node : /\ n = [place |-> n.place, value |-> n.value]
                       /\ n.place \in Seq(Nat) /\ n.value \in Json
BY DEF Node

\* The nodes of a value that an item holds, as nodes of the item.
LEMMA MovedTyped ==
    ASSUME NEW N \in SUBSET Node, IsFiniteSet(N), NEW i \in Nat
    PROVE  /\ IsFiniteSet(Moved(N, i)) /\ Cardinality(Moved(N, i)) = Cardinality(N)
           /\ Moved(N, i) \subseteq Node
           /\ \A a \in Moved(N, i) : Len(a.place) > 0 /\ a.place[Len(a.place)] = i
           /\ \A a \in Moved(N, i) :
                \E b \in N : a.value = b.value /\ Len(a.place) = Len(b.place) + 1
           /\ \A b \in N :
                \E a \in Moved(N, i) : a.value = b.value /\ Len(a.place) = Len(b.place) + 1
<1> DEFINE mv(b) == [place |-> Append(b.place, i), value |-> b.value]
           f == [b \in N |-> mv(b)]
           M == Moved(N, i)
<1>1. ASSUME NEW b \in N
      PROVE  /\ b.place \in Seq(Nat) /\ b.value \in Json /\ b = [place |-> b.place, value |-> b.value]
             /\ Append(b.place, i) \in Seq(Nat)
             /\ Len(Append(b.place, i)) = Len(b.place) + 1 /\ Len(b.place) \in Nat
             /\ Append(b.place, i)[Len(b.place) + 1] = i
  <2>1. b.place \in Seq(Nat) /\ b.value \in Json /\ b = [place |-> b.place, value |-> b.value]
    BY NodeMade
  <2>. QED
    BY <2>1
<1>2. \A b \in N : /\ mv(b).place = Append(b.place, i) /\ mv(b).value = b.value
                   /\ mv(b) \in Node
  BY <1>1, NodeMade
<1>3. M = {mv(b) : b \in N}
  BY DEF Moved
<1> HIDE DEF mv, M
<1>4. ASSUME NEW a \in N, NEW b \in N, mv(a) = mv(b) PROVE a = b
  <2>1. Append(a.place, i) = Append(b.place, i) /\ a.value = b.value
    BY <1>2, <1>4
  <2>2. a.place = b.place
    <3> DEFINE p == a.place
               q == b.place
    <3>1. p \in Seq(Nat) /\ q \in Seq(Nat) /\ Append(p, i) = Append(q, i)
      BY <1>1, <2>1
    <3> HIDE DEF p, q
    <3>2a. Len(Append(p, i)) = Len(p) + 1 /\ Len(Append(q, i)) = Len(q) + 1
      BY <3>1
    <3>2b. Len(p) = Len(q)
      BY <3>1, <3>2a
    <3>2c. \A s \in Seq(Nat) : \A k \in 1..Len(s) : s[k] = Append(s, i)[k]
      OBVIOUS
    <3>2. Len(p) = Len(q) /\ \A k \in 1..Len(p) : p[k] = Append(p, i)[k] /\ q[k] = Append(q, i)[k]
      BY <3>1, <3>2b, <3>2c
    <3>3. p = [k \in 1..Len(p) |-> p[k]] /\ q = [k \in 1..Len(q) |-> q[k]]
      BY <3>1
    <3>4. \A k \in 1..Len(p) : p[k] = q[k]
      BY <3>1, <3>2
    <3>5. p = q
      BY <3>2, <3>3, <3>4
    <3>. QED
      BY <3>5 DEF p, q
  <2>. QED
    BY <1>1, <2>1, <2>2
<1>5. f \in Bijection(N, M)
  <2>1. \A a, b \in N : f[a] = f[b] => a = b
    BY <1>4
  <2>2. \A m \in M : \E b \in N : f[b] = m
    BY <1>3
  <2>3. f \in [N -> M]
    BY <1>3
  <2>. QED
    BY <2>1, <2>2, <2>3 DEF Bijection, Injection, Surjection, IsInjective
<1>6. IsFiniteSet(M) /\ Cardinality(M) = Cardinality(N)
  <2>1. ExistsBijection(N, M)
    BY <1>5 DEF ExistsBijection
  <2>. QED
    BY <2>1, FS_Bijection
<1>7. ASSUME NEW b \in N
      PROVE  /\ mv(b).value = b.value /\ Len(mv(b).place) = Len(b.place) + 1
             /\ Len(mv(b).place) > 0 /\ mv(b).place[Len(mv(b).place)] = i
  BY <1>1, <1>2
<1>8. M \subseteq Node
  BY <1>2, <1>3
<1>. QED
  BY <1>3, <1>6, <1>7, <1>8 DEF M

LEMMA ValuesJson ==
    ASSUME NEW x \in Json
    PROVE  /\ Len(Values(x)) \in Nat /\ DOMAIN Values(x) = 1..Len(Values(x))
           /\ \A i \in 1..Len(Values(x)) : Values(x)[i] \in Json
           /\ Shown(x) \subseteq 1..Len(Values(x)) /\ Hidden(x) \subseteq 1..Len(Values(x))
           /\ \A i \in 1..Len(Values(x)) : i \in Shown(x) <=> i \notin Hidden(x)
<1>1. MaxNesting \in 0..MaxNesting /\ x \in Nested(Texts, Texts)[MaxNesting]
  BY LimitsPositive DEF Json, JsonOf
<1>2. MaxNesting - 1 \in 0..MaxNesting
  BY LimitsPositive
<1>3. Nested(Texts, Texts)[MaxNesting - 1] \subseteq Json
  BY <1>1, <1>2, NestedGrows DEF Json, JsonOf
<1>4. /\ Len(Values(x)) \in Nat /\ DOMAIN Values(x) = 1..Len(Values(x))
      /\ \A i \in 1..Len(Values(x)) : Values(x)[i] \in Json
  BY <1>1, <1>3, ValuesNested
<1>. QED
  BY <1>4 DEF Shown, Hidden

\* The nodes of the first i values of x, to a depth below d.
NodesOf(x, d, i) ==
    UNION {Moved(Nodes[d][Values(x)[j]], j) : j \in {k \in Shown(x) : k <= i}}

LEMMA NodesUnfold ==
    ASSUME NEW d \in 0..MaxDepth + 1, NEW x \in Json
    PROVE  Nodes[d + 1][x] = {[place |-> <<>>, value |-> x]} \cup NodesOf(x, d, Len(Values(x)))
<1>1. d + 1 \in 1..MaxDepth + 2 /\ (d + 1) - 1 = d
  BY LimitsPositive
<1>2. Nodes[d + 1] = NodesAbove(Nodes[d])
  BY <1>1, NodesUnfolds
<1> DEFINE N == Nodes[d]
<1> HIDE DEF N
<1>3. NodesAbove(N)[x] = {[place |-> <<>>, value |-> x]}
                         \cup UNION {Moved(N[Values(x)[i]], i) : i \in Shown(x)}
  BY DEF NodesAbove
<1>4. {k \in Shown(x) : k <= Len(Values(x))} = Shown(x)
  BY ValuesJson
<1>. QED
  BY <1>2, <1>3, <1>4 DEF NodesOf, N

\* The first i values have finitely many nodes, and one value more adds as many
\* as it has.
LEMMA NodesOfTyped ==
    ASSUME NEW x \in Json, NEW d \in 0..MaxDepth + 2,
           \A y \in Json : IsFiniteSet(Nodes[d][y]) /\ Nodes[d][y] \subseteq Node,
           NEW i \in 0..Len(Values(x))
    PROVE  /\ IsFiniteSet(NodesOf(x, d, i)) /\ NodesOf(x, d, i) \subseteq Node
           /\ \A a \in NodesOf(x, d, i) : Len(a.place) > 0 /\ a.place[Len(a.place)] <= i
           /\ i = 0 => NodesOf(x, d, i) = {}
           /\ i + 1 \in Hidden(x) => NodesOf(x, d, i + 1) = NodesOf(x, d, i)
           /\ i + 1 \in Shown(x) =>
                Cardinality(NodesOf(x, d, i + 1)) =
                  Cardinality(NodesOf(x, d, i)) + Cardinality(Nodes[d][Values(x)[i + 1]])
<1> DEFINE C(k) == NodesOf(x, d, k)
           J(k) == {j \in Shown(x) : j <= k}
           M(j) == Moved(Nodes[d][Values(x)[j]], j)
           m == Len(Values(x))
<1>1. m \in Nat /\ Shown(x) \subseteq 1..m /\ \A j \in 1..m : j \in Shown(x) <=> j \notin Hidden(x)
  BY ValuesJson
<1>2. ASSUME NEW j \in Shown(x)
      PROVE  /\ IsFiniteSet(M(j)) /\ Cardinality(M(j)) = Cardinality(Nodes[d][Values(x)[j]])
             /\ M(j) \subseteq Node
             /\ \A a \in M(j) : Len(a.place) > 0 /\ a.place[Len(a.place)] = j
  <2>1. Values(x)[j] \in Json /\ j \in Nat
    BY <1>1, ValuesJson
  <2>2. IsFiniteSet(Nodes[d][Values(x)[j]]) /\ Nodes[d][Values(x)[j]] \in SUBSET Node
    BY <2>1
  <2>. QED
    BY <2>1, <2>2, MovedTyped
<1>3. \A k : C(k) = UNION {M(j) : j \in J(k)}
  BY DEF NodesOf
<1> HIDE DEF C, M
<1>4. C(i) \subseteq Node /\ \A a \in C(i) : Len(a.place) > 0 /\ a.place[Len(a.place)] <= i
  BY <1>2, <1>3
<1>5. i = 0 => C(i) = {}
  BY <1>1, <1>3
<1>6. i + 1 \in Hidden(x) => C(i + 1) = C(i)
  <2>1. ASSUME i + 1 \in Hidden(x) PROVE J(i + 1) = J(i)
    <3>1. \A j \in Shown(x) : j \in Nat /\ j # i + 1
      BY <1>1, <2>1
    <3>2. \A j \in Shown(x) : j <= i + 1 <=> j <= i
      BY <1>1, <3>1
    <3>. QED
      BY <3>2
  <2>. QED
    BY <1>3, <2>1
<1>7. ASSUME i + 1 \in Shown(x) PROVE C(i + 1) = C(i) \cup M(i + 1)
  <2>1. J(i + 1) = J(i) \cup {i + 1}
    <3>1. \A j \in Shown(x) : j \in Nat /\ (j <= i + 1 <=> j <= i \/ j = i + 1)
      BY <1>1
    <3>. QED
      BY <1>7, <3>1
  <2>. QED
    BY <1>3, <2>1
<1>8. IsFiniteSet(C(i))
  <2>1. IsFiniteSet(J(i))
    <3>1. IsFiniteSet(1..m) /\ J(i) \subseteq 1..m
      BY <1>1, FS_Interval
    <3>. QED
      BY <3>1, FS_Subset
  <2> DEFINE g == [j \in J(i) |-> M(j)]
             G == {M(j) : j \in J(i)}
  <2>2. g \in Surjection(J(i), G)
    BY DEF Surjection
  <2>3. IsFiniteSet(G)
    BY <2>1, <2>2, FS_Surjection
  <2>4. \A Z \in G : IsFiniteSet(Z)
    BY <1>2
  <2>. QED
    BY <1>3, <2>3, <2>4, FS_UNION
<1>9. ASSUME i + 1 \in Shown(x)
      PROVE  Cardinality(C(i + 1)) = Cardinality(C(i)) + Cardinality(Nodes[d][Values(x)[i + 1]])
  <2>1. C(i) \cap M(i + 1) = {}
    <3>1. ASSUME NEW a \in C(i), a \in M(i + 1) PROVE FALSE
      <4>1. a.place[Len(a.place)] <= i /\ a.place[Len(a.place)] = i + 1
        BY <1>2, <1>4, <1>9, <3>1
      <4>. QED
        BY <4>1, <1>1
    <3>. QED
      BY <3>1
  <2>2. IsFiniteSet(M(i + 1)) /\ Cardinality(M(i + 1)) = Cardinality(Nodes[d][Values(x)[i + 1]])
    BY <1>2, <1>9
  <2>3. Cardinality(C(i) \cup M(i + 1)) = Cardinality(C(i)) + Cardinality(M(i + 1)) - 0
    BY <1>8, <2>1, <2>2, FS_Union, FS_EmptySet
  <2>4. Cardinality(C(i)) \in Nat /\ Cardinality(M(i + 1)) \in Nat
    BY <1>8, <2>2, FS_CardinalityType
  <2>5. Cardinality(C(i + 1)) = Cardinality(C(i) \cup M(i + 1))
    BY <1>7, <1>9
  <2>. QED
    BY <2>2, <2>3, <2>4, <2>5
<1>. QED
  BY <1>4, <1>5, <1>6, <1>8, <1>9 DEF C

LEMMA NodesTyped ==
    ASSUME NEW d \in 0..MaxDepth + 2
    PROVE  \A x \in Json : IsFiniteSet(Nodes[d][x]) /\ Nodes[d][x] \subseteq Node
<1> DEFINE Is(k) == \A x \in Json : IsFiniteSet(Nodes[k][x]) /\ Nodes[k][x] \subseteq Node
           E == {k \in 0..d : Is(k)}
<1>1. Is(0)
  BY NodesUnfolds, FS_EmptySet DEF NoNodes
<1>2. ASSUME NEW k \in 0..d, Is(k), k + 1 <= d PROVE Is(k + 1)
  <2>1. SUFFICES ASSUME NEW x \in Json
                 PROVE  IsFiniteSet(Nodes[k + 1][x]) /\ Nodes[k + 1][x] \subseteq Node
    OBVIOUS
  <2> DEFINE m == Len(Values(x))
             c == NodesOf(x, k, m)
             r == [place |-> <<>>, value |-> x]
  <2>2. k \in 0..MaxDepth + 1 /\ k \in 0..MaxDepth + 2 /\ m \in 0..m
    BY <1>2, LimitsPositive, ValuesJson
  <2>3. Nodes[k + 1][x] = {r} \cup c
    BY <2>2, NodesUnfold
  <2>4. IsFiniteSet(c) /\ c \subseteq Node
    BY <1>2, <2>2, NodesOfTyped
  <2>5. <<>> \in Seq(Nat)
    OBVIOUS
  <2>6. r \in Node
    BY <2>5, NodeMade
  <2> HIDE DEF c, r
  <2>7. IsFiniteSet(c \cup {r})
    BY <2>4, FS_AddElement
  <2>8. c \cup {r} = {r} \cup c
    OBVIOUS
  <2>. QED
    BY <2>3, <2>4, <2>6, <2>7, <2>8
<1>3. Is(d)
  <2> HIDE DEF Is
  <2>1. 0 \in E /\ d \in Nat
    BY <1>1, LimitsPositive
  <2>2. ASSUME NEW k \in 0..d, k \in E, k + 1 <= d PROVE k + 1 \in E
    BY <1>2, <2>2
  <2> HIDE DEF E
  <2>3. \A k \in 0..d : k \in E
    BY <2>1, <2>2, InductionUpTo
  <2>. QED
    BY <2>1, <2>3 DEF E
<1>. QED
  BY <1>3

\* With room for r levels below it and a budget of left, x is visited if it
\* fits, at the price of its nodes, and otherwise refused.
FitsIn(r, x) == \A n \in Nodes[r + 1][x] : Len(n.place) < r /\ ~TooLarge(n.value)

Counts(v, fits, cost, left) ==
    /\ fits /\ cost <= left => v.left = left - cost
    /\ ~(fits /\ cost <= left) => v.left = -1

LEMMA VisitingCounts ==
    ASSUME NEW x \in Json, NEW r \in 0..MaxDepth, NEW below, NEW left \in 0..MaxNodes,
           \A y \in Json, l \in 0..MaxNodes :
             Counts(below[y][l], FitsIn(r, y), Cardinality(Nodes[r + 1][y]), l),
           NEW i \in 0..Len(Values(x))
    PROVE  Counts(Visiting(below, x, left)[i], \A j \in Shown(x) : j <= i => FitsIn(r, Values(x)[j]),
                  Cardinality(NodesOf(x, r + 1, i)), left)
<1> DEFINE R == Visiting(below, x, left)
           m == Len(Values(x))
           F(k) == \A j \in Shown(x) : j <= k => FitsIn(r, Values(x)[j])
           C(k) == Cardinality(NodesOf(x, r + 1, k))
           E == {k \in 0..i : Counts(R[k], F(k), C(k), left)}
<1>1. /\ m \in Nat /\ \A k \in 1..m : Values(x)[k] \in Json
      /\ Shown(x) \subseteq 1..m /\ \A k \in 1..m : k \in Shown(x) <=> k \notin Hidden(x)
  BY ValuesJson
<1>2. /\ R[0] = [left |-> left, built |-> <<>>]
      /\ \A k \in 1..m : R[k] = NextValue(below, x, R[k - 1], k)
  BY <1>1, VisitingUnfolds
<1>3. r + 1 \in 0..MaxDepth + 2 /\ r \in Nat /\ left \in Nat
  BY LimitsPositive
<1>4. \A y \in Json : IsFiniteSet(Nodes[r + 1][y]) /\ Nodes[r + 1][y] \subseteq Node
  BY <1>3, NodesTyped
<1>5. ASSUME NEW k \in 0..m
      PROVE  /\ C(k) \in Nat
             /\ k = 0 => C(k) = 0
             /\ k + 1 \in Hidden(x) => C(k + 1) = C(k)
             /\ k + 1 \in Shown(x) => C(k + 1) = C(k) + Cardinality(Nodes[r + 1][Values(x)[k + 1]])
  <2>1. IsFiniteSet(NodesOf(x, r + 1, k))
    BY <1>3, <1>4, NodesOfTyped
  <2>2. C(k) \in Nat
    BY <2>1, FS_CardinalityType
  <2>3. k = 0 => NodesOf(x, r + 1, k) = {}
    BY <1>3, <1>4, NodesOfTyped
  <2>4. /\ k + 1 \in Hidden(x) => NodesOf(x, r + 1, k + 1) = NodesOf(x, r + 1, k)
        /\ k + 1 \in Shown(x) => C(k + 1) = C(k) + Cardinality(Nodes[r + 1][Values(x)[k + 1]])
    BY <1>3, <1>4, NodesOfTyped
  <2>. QED
    BY <2>2, <2>3, <2>4, FS_EmptySet
<1> HIDE DEF R, m, C
<1>6. 0 \in E
  <2>1. F(0)
    BY <1>1
  <2>2. C(0) = 0 /\ R[0].left = left /\ 0 \in 0..i
    BY <1>1, <1>2, <1>5 DEF m
  <2> HIDE DEF F
  <2>. QED
    BY <1>3, <2>1, <2>2 DEF Counts
<1>7. ASSUME NEW k \in 0..i, k \in E, k + 1 <= i PROVE k + 1 \in E
  <2>1. k + 1 \in 1..m /\ (k + 1) - 1 = k /\ k + 1 \in 0..i /\ k \in 0..m
    BY <1>1, <1>7 DEF m
  <2>2. R[k + 1] = NextValue(below, x, R[k], k + 1)
    BY <1>2, <2>1
  <2>3. Counts(R[k], F(k), C(k), left) /\ C(k) \in Nat
    BY <1>5, <1>7, <2>1
  <2> DEFINE y == Values(x)[k + 1]
             c == Cardinality(Nodes[r + 1][y])
             v == VisitValue(below, x, R[k].left, k + 1)
  <2>4. y \in Json /\ c \in Nat
    BY <1>1, <1>4, <2>1, FS_CardinalityType
  <2>5. \A j \in Shown(x) : j \in Nat /\ (j <= k + 1 <=> j <= k \/ j = k + 1)
    BY <1>1
  <2>6. k + 1 \in Hidden(x) => (F(k + 1) <=> F(k)) /\ C(k + 1) = C(k)
    <3>1. k + 1 \in Hidden(x) => k + 1 \notin Shown(x)
      BY <1>1, <2>1
    <3>. QED
      BY <1>5, <2>1, <2>5, <3>1
  <2>7. k + 1 \in Shown(x) => (F(k + 1) <=> F(k) /\ FitsIn(r, y)) /\ C(k + 1) = C(k) + c
    BY <1>5, <2>1, <2>5
  <2>8. k + 1 \in Hidden(x) \/ k + 1 \in Shown(x)
    BY <1>1, <2>1
  <2> HIDE DEF F, y, c
  <2>9. CASE ~(F(k) /\ C(k) <= left)
    <3>1. R[k].left = -1
      BY <2>3, <2>9 DEF Counts
    <3>2. R[k + 1].left = -1
      BY <2>2, <3>1 DEF NextValue, Refusal
    <3>3. ~(F(k + 1) /\ C(k + 1) <= left)
      BY <1>3, <2>3, <2>4, <2>6, <2>7, <2>8, <2>9
    <3>. QED
      BY <2>1, <3>2, <3>3 DEF Counts
  <2>10. CASE F(k) /\ C(k) <= left
    <3>1. R[k].left = left - C(k) /\ R[k].left \in 0..MaxNodes
      <4>1. R[k].left = left - C(k)
        BY <2>3, <2>10 DEF Counts
      <4>. QED
        BY <1>3, <2>3, <2>10, <4>1, LimitsPositive
    <3>2. R[k + 1] = Join(R[k], v)
      BY <2>2, <3>1 DEF NextValue
    <3>3. CASE k + 1 \in Hidden(x)
      <4>1. v.left = R[k].left
        BY <3>3 DEF VisitValue
      <4>2. R[k + 1].left = R[k].left
        BY <3>1, <3>2, <4>1 DEF Join
      <4>. QED
        BY <2>1, <2>6, <2>10, <3>1, <3>3, <4>2 DEF Counts
    <3>4. CASE k + 1 \in Shown(x)
      <4>1. v = below[y][R[k].left]
        BY <1>1, <2>1, <3>4 DEF VisitValue, y
      <4>2. Counts(v, FitsIn(r, y), c, R[k].left)
        BY <2>4, <3>1, <4>1 DEF c
      <4> HIDE DEF v
      <4>3. CASE FitsIn(r, y) /\ c <= R[k].left
        <5>1. v.left = left - C(k + 1) /\ v.left >= 0 /\ v.left \in Int
          BY <1>3, <2>3, <2>4, <2>7, <3>1, <3>4, <4>2, <4>3 DEF Counts
        <5>2. R[k + 1].left = v.left
          BY <3>2, <5>1 DEF Join
        <5>3. F(k + 1)
          BY <2>7, <2>10, <3>4, <4>3
        <5>4. C(k + 1) <= left
          BY <1>3, <2>3, <2>4, <2>7, <3>1, <3>4, <4>3
        <5>. QED
          BY <2>1, <5>1, <5>2, <5>3, <5>4 DEF Counts
      <4>4. CASE ~(FitsIn(r, y) /\ c <= R[k].left)
        <5>1. v.left = -1
          BY <4>2, <4>4 DEF Counts
        <5>2. R[k + 1].left = -1
          BY <3>2, <5>1 DEF Join, Refusal
        <5>3. ~(F(k + 1) /\ C(k + 1) <= left)
          BY <1>3, <2>3, <2>4, <2>7, <3>1, <3>4, <4>4
        <5>. QED
          BY <2>1, <5>2, <5>3 DEF Counts
      <4>. QED
        BY <4>3, <4>4
    <3>. QED
      BY <2>8, <3>3, <3>4
  <2>. QED
    BY <2>9, <2>10
<1>8. \A k \in 0..i : k \in E
  <2> HIDE DEF E
  <2>1. i \in Nat
    BY <1>1 DEF m
  <2>. QED
    BY <1>6, <1>7, <2>1, InductionUpTo
<1>9. Counts(R[i], F(i), C(i), left)
  <2>1. i \in 0..i
    BY <1>1 DEF m
  <2> HIDE DEF F
  <2>. QED
    BY <1>8, <2>1
<1>. QED
  BY <1>9 DEF R, C

LEMMA VisitCounts ==
    ASSUME NEW L, NEW room \in 0..MaxDepth + 1
    PROVE  \A x \in Json, left \in 0..MaxNodes :
             Counts(Visit(L)[room][x][left], FitsIn(room, x), Cardinality(Nodes[room + 1][x]), left)
<1> DEFINE Is(r) == \A x \in Json, left \in 0..MaxNodes :
                      Counts(Visit(L)[r][x][left], FitsIn(r, x), Cardinality(Nodes[r + 1][x]), left)
           E == {r \in 0..room : Is(r)}
<1>1. Is(0)
  <2>1. SUFFICES ASSUME NEW x \in Json, NEW left \in 0..MaxNodes
                 PROVE  Counts(Visit(L)[0][x][left], FitsIn(0, x), Cardinality(Nodes[0 + 1][x]), left)
    OBVIOUS
  <2>2. Visit(L)[0][x][left] = Refusal
    <3>1. Visit(L)[0] = NoVisit
      BY VisitUnfolds
    <3>2. NoVisit[x][left] = Refusal
      BY DEF NoVisit
    <3>. QED
      BY <3>1, <3>2
  <2>3. ~FitsIn(0, x)
    <3>1. 0 \in 0..MaxDepth + 1
      BY LimitsPositive
    <3>2. [place |-> <<>>, value |-> x] \in Nodes[0 + 1][x]
      BY <3>1, NodesUnfold
    <3>3. ~(Len(<<>>) < 0)
      OBVIOUS
    <3>. QED
      BY <3>2, <3>3 DEF FitsIn
  <2>. QED
    BY <2>2, <2>3 DEF Counts, Refusal
<1>2. ASSUME NEW r \in 0..room, Is(r), r + 1 <= room PROVE Is(r + 1)
  <2>1. SUFFICES ASSUME NEW x \in Json, NEW left \in 0..MaxNodes
                 PROVE  Counts(Visit(L)[r + 1][x][left], FitsIn(r + 1, x),
                               Cardinality(Nodes[(r + 1) + 1][x]), left)
    OBVIOUS
  <2> DEFINE m == Len(Values(x))
             c == NodesOf(x, r + 1, m)
             root == [place |-> <<>>, value |-> x]
             F == \A j \in Shown(x) : j <= m => FitsIn(r, Values(x)[j])
             all == Visiting(Visit(L)[r], x, left - 1)[m]
             v == Visit(L)[r + 1][x][left]
             N == Nodes[(r + 1) + 1][x]
  <2>2. /\ r \in 0..MaxDepth /\ r \in Nat /\ r + 1 \in 0..MaxDepth + 1 /\ r + 1 \in 0..MaxDepth + 2
        /\ r + 1 \in 1..MaxDepth + 1 /\ (r + 1) - 1 = r /\ left \in Nat /\ m \in 0..m
    BY <1>2, LimitsPositive, ValuesJson
  <2>3. N = {root} \cup c
    BY <2>2, NodesUnfold
  <2>4. \A y \in Json : IsFiniteSet(Nodes[r + 1][y]) /\ Nodes[r + 1][y] \subseteq Node
    BY <2>2, NodesTyped
  <2>5. /\ IsFiniteSet(c) /\ \A a \in c : Len(a.place) > 0
    BY <2>2, <2>4, NodesOfTyped
  <2>6. root \notin c /\ Len(root.place) = 0 /\ root.value = x
    <3>1. root.place = <<>> /\ root.value = x /\ Len(<<>>) = 0
      OBVIOUS
    <3> HIDE DEF root, c
    <3>. QED
      BY <2>5, <3>1
  <2>7. Cardinality(N) = Cardinality(c) + 1 /\ Cardinality(c) \in Nat
    <3> HIDE DEF root, c
    <3>1. N = c \cup {root}
      BY <2>3
    <3>. QED
      BY <2>5, <2>6, <3>1, FS_AddElement, FS_CardinalityType
  <2>8. FitsIn(r + 1, x) <=> ~TooLarge(x) /\ F
    <3>1. ASSUME NEW j \in Shown(x)
          PROVE  FitsIn(r, Values(x)[j]) <=>
                   \A a \in Moved(Nodes[r + 1][Values(x)[j]], j) :
                      Len(a.place) < r + 1 /\ ~TooLarge(a.value)
      <4> DEFINE M == Nodes[r + 1][Values(x)[j]]
      <4>1. j \in Nat /\ M \in SUBSET Node /\ IsFiniteSet(M)
        BY <2>4, ValuesJson
      <4>2. /\ \A a \in Moved(M, j) :
                 \E b \in M : a.value = b.value /\ Len(a.place) = Len(b.place) + 1
            /\ \A b \in M :
                 \E a \in Moved(M, j) : a.value = b.value /\ Len(a.place) = Len(b.place) + 1
        BY <4>1, MovedTyped
      <4>3. \A b \in M : Len(b.place) \in Nat
        BY <4>1, NodeMade
      <4> HIDE DEF M
      <4>4. ASSUME \A b \in M : Len(b.place) < r /\ ~TooLarge(b.value), NEW a \in Moved(M, j)
            PROVE  Len(a.place) < r + 1 /\ ~TooLarge(a.value)
        <5>1. PICK b \in M : a.value = b.value /\ Len(a.place) = Len(b.place) + 1
          BY <4>2
        <5>. QED
          BY <2>2, <4>3, <4>4, <5>1
      <4>5. ASSUME \A a \in Moved(M, j) : Len(a.place) < r + 1 /\ ~TooLarge(a.value), NEW b \in M
            PROVE  Len(b.place) < r /\ ~TooLarge(b.value)
        <5>1. PICK a \in Moved(M, j) : a.value = b.value /\ Len(a.place) = Len(b.place) + 1
          BY <4>2
        <5>. QED
          BY <2>2, <4>3, <4>5, <5>1
      <4>. QED
        BY <4>4, <4>5 DEF FitsIn, M
    <3>2. \A j \in Shown(x) : j <= m
      BY ValuesJson
    <3>3. (\A a \in c : Len(a.place) < r + 1 /\ ~TooLarge(a.value)) <=>
             \A j \in Shown(x) : \A a \in Moved(Nodes[r + 1][Values(x)[j]], j) :
                Len(a.place) < r + 1 /\ ~TooLarge(a.value)
      BY <3>2 DEF NodesOf
    <3>4. F <=> \A j \in Shown(x) : FitsIn(r, Values(x)[j])
      BY <3>2
    <3>5. FitsIn(r + 1, x) <=> ~TooLarge(x) /\ \A a \in c : Len(a.place) < r + 1 /\ ~TooLarge(a.value)
      <4>1. FitsIn(r + 1, x) <=> \A a \in N : Len(a.place) < r + 1 /\ ~TooLarge(a.value)
        BY DEF FitsIn
      <4>2. Len(root.place) < r + 1
        BY <2>2, <2>6
      <4> HIDE DEF root, c, N
      <4>. QED
        BY <2>3, <2>6, <4>1, <4>2
    <3> HIDE DEF F, c
    <3>. QED
      BY <3>1, <3>3, <3>4, <3>5
  <2>9. v = IF left = 0 \/ TooLarge(x) THEN Refusal ELSE Visited(Visit(L)[r], x, left, L)
    BY <2>2, VisitAtRoom
  <2>10. CASE left = 0 \/ TooLarge(x)
    <3>1. v.left = -1
      BY <2>9, <2>10 DEF Refusal
    <3> HIDE DEF v, N, F, c
    <3>2. ~(FitsIn(r + 1, x) /\ Cardinality(N) <= left)
      BY <2>2, <2>7, <2>8, <2>10
    <3>. QED
      BY <3>1, <3>2 DEF Counts, v, N
  <2>11. CASE ~(left = 0 \/ TooLarge(x))
    <3>1. left - 1 \in 0..MaxNodes
      BY <2>2, <2>11, LimitsPositive
    <3>2. Counts(all, F, Cardinality(c), left - 1)
      BY <1>2, <2>2, <3>1, VisitingCounts
    <3>3. v =
                IF all.left < 0 THEN Refusal ELSE [left |-> all.left, built |-> <<Rebuilt(x, all.built, L[left])>>]
      BY <2>9, <2>11 DEF Visited
    <3> HIDE DEF v, N, F, c, all
    <3>4. CASE F /\ Cardinality(c) <= left - 1
      <4>1. all.left = left - 1 - Cardinality(c)
        BY <3>2, <3>4 DEF Counts
      <4>2. all.left \in Nat /\ all.left = left - Cardinality(N)
        BY <2>2, <2>7, <3>4, <4>1
      <4>3. v.left = all.left
        BY <3>3, <4>2
      <4>4. FitsIn(r + 1, x) /\ Cardinality(N) <= left
        BY <2>2, <2>7, <2>8, <2>11, <3>4
      <4>. QED
        BY <4>2, <4>3, <4>4 DEF Counts, v, N
    <3>5. CASE ~(F /\ Cardinality(c) <= left - 1)
      <4>1. all.left = -1
        BY <3>2, <3>5 DEF Counts
      <4>2. v.left = -1
        BY <3>3, <4>1 DEF Refusal
      <4>3. ~(FitsIn(r + 1, x) /\ Cardinality(N) <= left)
        BY <2>2, <2>7, <2>8, <3>5
      <4>. QED
        BY <4>2, <4>3 DEF Counts, v, N
    <3>. QED
      BY <3>4, <3>5
  <2>. QED
    BY <2>10, <2>11
<1>3. Is(room)
  <2> HIDE DEF Is
  <2>1. 0 \in E /\ room \in Nat
    BY <1>1, LimitsPositive
  <2>2. ASSUME NEW r \in 0..room, r \in E, r + 1 <= room PROVE r + 1 \in E
    BY <1>2, <2>2
  <2> HIDE DEF E
  <2>3. \A r \in 0..room : r \in E
    BY <2>1, <2>2, InductionUpTo
  <2>. QED
    BY <2>1, <2>3 DEF E
<1>. QED
  BY <1>3

\* public_result raises when a limit is broken, and only then: what the
\* session knows makes no difference.
LEMMA RefusedUnlessFits ==
    ASSUME NEW L, NEW data \in Json
    PROVE  PublicResult(data, L) = <<>> <=> ~Fits(data)
<1> DEFINE N == Nodes[MaxDepth + 2][data]
           c == Cardinality(N)
           v == Visit(L)[MaxDepth + 1][data][MaxNodes]
<1>1. /\ MaxDepth + 1 \in 0..MaxDepth + 1 /\ MaxNodes \in 0..MaxNodes /\ MaxDepth \in Nat
      /\ (MaxDepth + 1) + 1 = MaxDepth + 2 /\ MaxDepth + 2 \in 0..MaxDepth + 2
  BY LimitsPositive
<1>2. Counts(v, FitsIn(MaxDepth + 1, data), c, MaxNodes)
  BY <1>1, VisitCounts
<1>3. IsFiniteSet(N) /\ N \subseteq Node
  BY <1>1, NodesTyped
<1>4. FitsIn(MaxDepth + 1, data) <=> \A n \in N : Len(n.place) <= MaxDepth /\ ~TooLarge(n.value)
  <2>1. \A n \in N : Len(n.place) \in Nat
    BY <1>3, NodeMade
  <2>2. \A n \in N : Len(n.place) < MaxDepth + 1 <=> Len(n.place) <= MaxDepth
    BY <1>1, <2>1
  <2>. QED
    BY <1>1, <2>2 DEF FitsIn
<1>5. Fits(data) <=> FitsIn(MaxDepth + 1, data) /\ c <= MaxNodes
  BY <1>4 DEF Fits
<1>6. PublicResult(data, L) = <<>> <=> v.left < 0
  BY DEF PublicResult
<1>7. c \in Nat /\ MaxNodes \in Nat
  BY <1>3, FS_CardinalityType, LimitsPositive
<1> HIDE DEF v, c
<1>. QED
  BY <1>2, <1>5, <1>6, <1>7 DEF Counts

----------------------------------------------------------------------------
(***************************************************************************)
(* sanitize_public: a second pass.                                         *)
(***************************************************************************)

\* A pass in the course of which the store stays the same.
Same(S)   == [i \in 0..MaxItems |-> S]
Steady(S) == [left \in 1..MaxNodes |-> Same(S)]

LEMMA SteadyHides ==
    ASSUME NEW S, IsFiniteSet(S), \A s \in S : IsSecret(s)
    PROVE  /\ Looked(Same(S), {}, S)
           /\ PassHides(Steady(S), {}, S)
           /\ Free({}) = Texts
<1>1. Looked(Same(S), {}, S)
  BY DEF Same, Looked, Hides
<1>2. PassHides(Steady(S), {}, S)
  BY <1>1 DEF Steady, PassHides
<1>. QED
  BY <1>1, <1>2 DEF Free

LEMMA SameLookup ==
    ASSUME NEW S, NEW n \in Nat, n <= MaxItems
    PROVE  \A i \in 0..n : Same(S)[i] = S
<1>1. \A i \in 0..n : i \in 0..MaxItems
  BY LimitsPositive
<1>. QED
  BY <1>1 DEF Same

\* Visited again with room for r levels, y stays as it is or is refused.
Stable(y, r, S) ==
    \A left \in 0..MaxNodes :
      Visit(Steady(S))[r][y][left] = Refusal \/ Visit(Steady(S))[r][y][left].built = <<y>>

\* The fields of an object that a visit has built: its keys, each of them once,
\* are not changed again, and what is hidden is hidden already.
ProperField(f, r, S) ==
    /\ f.key \in Free(S) /\ NoControl(f.key) /\ Len(f.key) <= MaxKey
    /\ IF IsSecretField(f.key) THEN f.value = Text(<<"redacted">>) ELSE Stable(f.value, r, S)

Proper(fs, r, S) ==
    /\ \A i, j \in 1..Len(fs) : fs[i].key = fs[j].key => i = j
    /\ \A i \in 1..Len(fs) : ProperField(fs[i], r, S)

LEMMA StableUnlessVisited ==
    ASSUME NEW S, NEW r \in 0..MaxDepth + 1, NEW y \in Json,
           r > 0 /\ ~TooLarge(y) => \A left \in 1..MaxNodes :
                      \/ Visited(Visit(Steady(S))[r - 1], y, left, Steady(S)) = Refusal
                      \/ Visited(Visit(Steady(S))[r - 1], y, left, Steady(S)).built = <<y>>
    PROVE  Stable(y, r, S)
<1> SUFFICES ASSUME NEW left \in 0..MaxNodes
             PROVE  Visit(Steady(S))[r][y][left] = Refusal \/ Visit(Steady(S))[r][y][left].built = <<y>>
  BY DEF Stable
<1>1. CASE r = 0
  <2>1. Visit(Steady(S))[0] = NoVisit /\ NoVisit[y][left] = Refusal
    BY VisitUnfolds DEF NoVisit
  <2>. QED
    BY <1>1, <2>1
<1>2. CASE r > 0
  <2>1. r \in 1..MaxDepth + 1
    BY <1>2, LimitsPositive
  <2>2. Visit(Steady(S))[r][y][left] =
          IF left = 0 \/ TooLarge(y) THEN Refusal ELSE Visited(Visit(Steady(S))[r - 1], y, left, Steady(S))
    BY <2>1, VisitAtRoom
  <2>3. left # 0 => left \in 1..MaxNodes
    BY LimitsPositive
  <2>. QED
    BY <1>2, <2>2, <2>3
<1>. QED
  BY <1>1, <1>2, LimitsPositive

LEMMA TextJson ==
    ASSUME NEW t \in Texts
    PROVE  Text(t) \in Json /\ Text(t).type = "text" /\ Text(t).text = t /\ Values(Text(t)) = <<>>
<1>1. MaxNesting \in 0..MaxNesting
  BY LimitsPositive
<1>2. Text(t) \in Json
  BY <1>1, NestedMade DEF Json, JsonOf
<1>3. Text(t).type = "text" /\ Text(t).text = t
  BY DEF Text
<1>4. Values(Text(t)) = <<>>
  BY <1>3 DEF Values
<1>. QED
  BY <1>2, <1>3, <1>4

LEMMA StableText ==
    ASSUME NEW S, IsFiniteSet(S), \A s \in S : IsSecret(s), NEW r \in 0..MaxDepth + 1,
           NEW t \in Free(S), NoControl(t), Len(t) <= MaxText
    PROVE  Stable(Text(t), r, S)
<1>1. t \in Texts
  BY DEF Free
<1>2. Rebuilt(Text(t), <<>>, Same(S)) = Text(t)
  <2>1. Cut(t, MaxText) = t /\ Redact(t, S) = t
    BY <1>1, CutTyped, RedactNothing, LimitsPositive
  <2>. QED
    <3>1. Same(S)[0] = S
      BY LimitsPositive DEF Same
    <3>. QED
      BY <1>1, <2>1, <3>1, TextJson DEF Rebuilt
<1>3. ASSUME NEW below, NEW left \in 1..MaxNodes
      PROVE  Visited(below, Text(t), left, Steady(S)).built = <<Text(t)>>
  <2> DEFINE all == Visiting(below, Text(t), left - 1)[Len(Values(Text(t)))]
  <2>1. Len(Values(Text(t))) = 0 /\ Len(Values(Text(t))) \in Nat
    BY <1>1, TextJson
  <2>2. all.left = left - 1 /\ all.built = <<>>
    <3>1. Visiting(below, Text(t), left - 1)[0] = [left |-> left - 1, built |-> <<>>]
      BY <2>1, VisitingUnfolds
    <3>2. all = Visiting(below, Text(t), left - 1)[0]
      BY <2>1
    <3>. QED
      BY <3>1, <3>2
  <2>3. ~(all.left < 0)
    BY <2>2
  <2>4. Visited(below, Text(t), left, Steady(S)) = [left |-> all.left, built |-> <<Rebuilt(Text(t), all.built, Same(S))>>]
    BY <2>3 DEF Visited, Steady
  <2> HIDE DEF all
  <2>. QED
    BY <1>2, <2>2, <2>4
<1>4. Text(t) \in Json
  BY <1>1, TextJson
<1>. QED
  BY <1>3, <1>4, StableUnlessVisited

LEMMA OwnStable ==
    ASSUME NEW S, IsFiniteSet(S), \A s \in S : IsSecret(s), NEW r \in 0..MaxDepth + 1,
           NEW c \in Own, c # "control"
    PROVE  Stable(Text(<<c>>), r, S)
<1> DEFINE t == <<c>>
<1>1. t \in Free(S)
  BY OwnFree
<1>2. NoControl(t) /\ Len(t) <= MaxText
  BY LimitsPositive DEF NoControl
<1> HIDE DEF t
<1>3. Stable(Text(t), r, S)
  BY <1>1, <1>2, StableText
<1>. QED
  BY <1>3 DEF t

LEMMA NullStable ==
    ASSUME NEW S, NEW r \in 0..MaxDepth + 1
    PROVE  Stable(Null, r, S)
<1>1. Null.type = "null" /\ Values(Null) = <<>>
  BY DEF Values, Null
<1>2. \A built : Rebuilt(Null, built, Same(S)) = Null
  BY <1>1 DEF Rebuilt
<1>3. MaxNesting \in 0..MaxNesting
  BY LimitsPositive
<1>4. Null \in Json
  BY <1>3, NestedMade DEF Json, JsonOf
<1>5. ASSUME NEW below, NEW left \in 1..MaxNodes
      PROVE  Visited(below, Null, left, Steady(S)) = Refusal \/ Visited(below, Null, left, Steady(S)).built = <<Null>>
  BY <1>2 DEF Visited, Steady
<1>. QED
  BY <1>4, <1>5, StableUnlessVisited

\* What visiting each value that x holds builds is in a set for that value.
Gives(below, x, W) ==
    \A k \in 1..Len(Values(x)) :
      /\ W[k] \subseteq Json
      /\ k \in Hidden(x) => Text(<<"redacted">>) \in W[k]
      /\ k \notin Hidden(x) => \A l \in 0..MaxNodes : Yields(below[Values(x)[k]][l], l, W[k], 1)

LEMMA VisitingBuilds ==
    ASSUME NEW below, NEW x \in Json, NEW left \in 0..MaxNodes, NEW W, Gives(below, x, W),
           NEW i \in 0..Len(Values(x))
    PROVE  \/ Visiting(below, x, left)[i] = Refusal
           \/ /\ Visiting(below, x, left)[i].left \in 0..MaxNodes
              /\ Visiting(below, x, left)[i].built \in Seq(Json)
              /\ Len(Visiting(below, x, left)[i].built) = i
              /\ \A j \in 1..i : Visiting(below, x, left)[i].built[j] \in W[j]
<1> DEFINE R == Visiting(below, x, left)
           m == Len(Values(x))
           Is(k) == \/ R[k] = Refusal
                    \/ /\ R[k].left \in 0..MaxNodes /\ R[k].built \in Seq(Json) /\ Len(R[k].built) = k
                       /\ \A j \in 1..k : R[k].built[j] \in W[j]
           E == {k \in 0..i : Is(k)}
<1>1. m \in Nat
  BY ValuesJson
<1>2. /\ R[0] = [left |-> left, built |-> <<>>]
      /\ \A k \in 1..m : R[k] = NextValue(below, x, R[k - 1], k)
  BY <1>1, VisitingUnfolds
<1>3. ASSUME NEW k \in 1..m, NEW l \in 0..MaxNodes
      PROVE  Yields(VisitValue(below, x, l, k), l, W[k], 1)
  <2>1. CASE k \in Hidden(x)
    <3>1. VisitValue(below, x, l, k) = [left |-> l, built |-> <<Text(<<"redacted">>)>>]
      BY <2>1 DEF VisitValue
    <3>2. Text(<<"redacted">>) \in W[k] /\ l \in 0..l
      BY <2>1, LimitsPositive DEF Gives
    <3>3. <<Text(<<"redacted">>)>> \in Seq(W[k]) /\ Len(<<Text(<<"redacted">>)>>) = 1
      BY <3>2, Singleton
    <3>. QED
      BY <3>1, <3>2, <3>3 DEF Yields
  <2>2. CASE k \notin Hidden(x)
    <3>1. VisitValue(below, x, l, k) = below[Values(x)[k]][l]
      BY <2>2 DEF VisitValue
    <3>. QED
      BY <2>2, <3>1 DEF Gives
  <2>. QED
    BY <2>1, <2>2
<1>4. \A k \in 1..m : W[k] \subseteq Json
  BY DEF Gives
<1> HIDE DEF R, m
<1>5. Is(0)
  <2>1. R[0].left = left /\ R[0].built = <<>>
    BY <1>2
  <2>2. <<>> \in Seq(Json) /\ Len(<<>>) = 0
    OBVIOUS
  <2>3. R[0].left \in 0..MaxNodes /\ R[0].built \in Seq(Json) /\ Len(R[0].built) = 0
    BY <2>1, <2>2
  <2>. QED
    BY <2>3
<1>6. ASSUME NEW k \in 0..i, Is(k), k + 1 <= i PROVE Is(k + 1)
  <2>1. k + 1 \in 1..m /\ (k + 1) - 1 = k
    BY <1>1, <1>6 DEF m
  <2>2. R[k + 1] = NextValue(below, x, R[k], k + 1)
    BY <1>2, <2>1
  <2>3. CASE R[k] = Refusal
    BY <2>2, <2>3 DEF NextValue, Refusal
  <2>4. CASE R[k].left \in 0..MaxNodes /\ R[k].built \in Seq(Json) /\ Len(R[k].built) = k
             /\ \A j \in 1..k : R[k].built[j] \in W[j]
    <3> DEFINE v == VisitValue(below, x, R[k].left, k + 1)
    <3>1. R[k + 1] = Join(R[k], v)
      BY <2>2, <2>4 DEF NextValue
    <3>2. Yields(v, R[k].left, W[k + 1], 1)
      BY <1>3, <2>1, <2>4
    <3> HIDE DEF v
    <3>3. CASE v = Refusal
      BY <3>1, <3>3 DEF Join, Refusal
    <3>4. CASE v.left \in 0..R[k].left /\ v.built \in Seq(W[k + 1]) /\ Len(v.built) = 1
      <4>1. ~(v.left < 0) /\ v.left \in 0..MaxNodes
        BY <2>4, <3>4, LimitsPositive
      <4>2. R[k + 1].left = v.left /\ R[k + 1].built = Append(R[k].built, v.built[1])
        BY <3>1, <4>1 DEF Join
      <4> DEFINE y == v.built[1]
      <4>3. y \in W[k + 1]
        BY <3>4
      <4>4. y \in Json
        BY <1>4, <2>1, <4>3
      <4> HIDE DEF y
      <4> DEFINE b == R[k].built
      <4>5. b \in Seq(Json) /\ Len(b) = k /\ \A j \in 1..k : b[j] \in W[j]
        BY <2>4
      <4> HIDE DEF b
      <4>6. /\ Append(b, y) \in Seq(Json) /\ Len(Append(b, y)) = k + 1
            /\ \A j \in 1..k : Append(b, y)[j] = b[j]
            /\ Append(b, y)[k + 1] = y
        BY <4>4, <4>5
      <4>7. \A j \in 1..k + 1 : Append(b, y)[j] \in W[j]
        <5>1. \A j \in 1..k + 1 : j \in 1..k \/ j = k + 1
          BY <1>6
        <5>. QED
          BY <4>3, <4>5, <4>6, <5>1
      <4>. QED
        BY <4>1, <4>2, <4>4, <4>6, <4>7 DEF b, y
    <3>. QED
      BY <3>2, <3>3, <3>4 DEF Yields
  <2>. QED
    BY <1>6, <2>3, <2>4
<1>7. Is(i)
  <2> HIDE DEF Is
  <2>1. i \in Nat
    BY <1>1 DEF m
  <2>2. 0 \in E
    BY <1>5, <2>1
  <2>3. ASSUME NEW k \in 0..i, k \in E, k + 1 <= i PROVE k + 1 \in E
    BY <1>6, <2>3
  <2> HIDE DEF E
  <2>4. \A k \in 0..i : k \in E
    BY <2>1, <2>2, <2>3, InductionUpTo
  <2>. QED
    BY <2>1, <2>4 DEF E
<1>. QED
  BY <1>7 DEF R

LEMMA VisitedStable ==
    ASSUME NEW S, IsFiniteSet(S), \A s \in S : IsSecret(s), NEW r \in 0..MaxDepth,
           NEW x \in Json,
           \A i \in 1..Len(Values(x)) :
             IF i \in Hidden(x) THEN Values(x)[i] = Text(<<"redacted">>) ELSE Stable(Values(x)[i], r, S),
           ~TooLarge(x) => \A built : Len(Values(x)) = Len(built) /\ built \in Seq(Json)
                      /\ (\A i \in 1..Len(Values(x)) : built[i] = Values(x)[i])
                      => Rebuilt(x, built, Same(S)) = x
    PROVE  Stable(x, r + 1, S)
<1>1. /\ r + 1 \in 0..MaxDepth + 1 /\ (r + 1) - 1 = r /\ r \in 0..MaxDepth + 1
      /\ Len(Values(x)) \in 0..Len(Values(x))
  BY LimitsPositive, ValuesJson
<1>2. ASSUME ~TooLarge(x), NEW left \in 1..MaxNodes
      PROVE  \/ Visited(Visit(Steady(S))[r], x, left, Steady(S)) = Refusal
             \/ Visited(Visit(Steady(S))[r], x, left, Steady(S)).built = <<x>>
  <2> DEFINE all == Visiting(Visit(Steady(S))[r], x, left - 1)[Len(Values(x))]
  <2>1. left - 1 \in 0..MaxNodes
    BY LimitsPositive
  <2>2. \/ all = Refusal
        \/ /\ all.built \in Seq(Json) /\ Len(all.built) = Len(Values(x))
           /\ \A j \in 1..Len(Values(x)) : all.built[j] = Values(x)[j]
    <3> DEFINE W == [i \in 1..Len(Values(x)) |-> {Values(x)[i]}]
    <3>1. ASSUME NEW k \in 1..Len(Values(x)), k \notin Hidden(x), NEW l \in 0..MaxNodes
          PROVE  Yields(Visit(Steady(S))[r][Values(x)[k]][l], l, W[k], 1)
      <4> DEFINE y == Values(x)[k]
                 v == Visit(Steady(S))[r][y][l]
      <4>1. MaxNesting \in 0..MaxNesting /\ y \in Nested(Texts, Texts)[MaxNesting]
        BY ValuesJson, LimitsPositive DEF Json, JsonOf
      <4>2. v = Refusal \/ v.left \in 0..l
        BY <1>1, <4>1, SteadyHides, VisitYields DEF Yields
      <4>3. v = Refusal \/ v.built = <<y>>
        BY <3>1 DEF Stable
      <4>4. <<y>> \in Seq(W[k]) /\ Len(<<y>>) = 1
        BY Singleton
      <4> HIDE DEF v, y, W
      <4>5. Yields(v, l, W[k], 1)
        BY <4>2, <4>3, <4>4 DEF Yields
      <4>. QED
        BY <4>5 DEF v, y
    <3>2. \A k \in 1..Len(Values(x)) : W[k] = {Values(x)[k]} /\ W[k] \subseteq Json
      BY ValuesJson
    <3>3. Gives(Visit(Steady(S))[r], x, W)
      BY <3>1, <3>2 DEF Gives
    <3> HIDE DEF W
    <3>4. ASSUME NEW l \in 0..MaxNodes, NEW i \in 0..Len(Values(x))
          PROVE  \/ Visiting(Visit(Steady(S))[r], x, l)[i] = Refusal
                 \/ /\ Visiting(Visit(Steady(S))[r], x, l)[i].left \in 0..MaxNodes
                    /\ Visiting(Visit(Steady(S))[r], x, l)[i].built \in Seq(Json)
                    /\ Len(Visiting(Visit(Steady(S))[r], x, l)[i].built) = i
                    /\ \A j \in 1..i : Visiting(Visit(Steady(S))[r], x, l)[i].built[j] \in W[j]
      BY <3>3, VisitingBuilds
    <3>5. \/ all = Refusal
          \/ /\ all.built \in Seq(Json) /\ Len(all.built) = Len(Values(x))
             /\ \A j \in 1..Len(Values(x)) : all.built[j] \in W[j]
      BY <1>1, <2>1, <3>4
    <3>. QED
      BY <3>2, <3>5
  <2>3. Visited(Visit(Steady(S))[r], x, left, Steady(S)) =
          IF all.left < 0 THEN Refusal
          ELSE [left |-> all.left, built |-> <<Rebuilt(x, all.built, Same(S))>>]
    BY DEF Visited, Steady
  <2> HIDE DEF all
  <2>4. all # Refusal => Rebuilt(x, all.built, Same(S)) = x
    BY <1>2, <2>2
  <2>. QED
    BY <2>3, <2>4 DEF Refusal
<1>. QED
  BY <1>1, <1>2, StableUnlessVisited

LEMMA ListStable ==
    ASSUME NEW S, IsFiniteSet(S), \A s \in S : IsSecret(s), NEW r \in 0..MaxDepth,
           NEW items \in Seq(Json), List(items) \in Json,
           \A i \in 1..Len(items) : Stable(items[i], r, S)
    PROVE  Stable(List(items), r + 1, S)
<1> DEFINE x == List(items)
<1>1. x.type = "list" /\ x.items = items
  BY DEF List
<1>2. Values(x) = items /\ Hidden(x) = {}
  BY <1>1 DEF Values, Hidden
<1>3. \A built : Rebuilt(x, built, Same(S)) = List(built)
  BY <1>1 DEF Rebuilt
<1> HIDE DEF x
<1>4. ASSUME NEW built \in Seq(Json), Len(items) = Len(built),
             \A i \in 1..Len(items) : built[i] = items[i]
      PROVE  built = items
  BY <1>4
<1>5. \A i \in 1..Len(Values(x)) :
        IF i \in Hidden(x) THEN Values(x)[i] = Text(<<"redacted">>) ELSE Stable(Values(x)[i], r, S)
  BY <1>2
<1>6. \A built : Len(Values(x)) = Len(built) /\ built \in Seq(Json)
                 /\ (\A i \in 1..Len(Values(x)) : built[i] = Values(x)[i])
                 => Rebuilt(x, built, Same(S)) = x
  BY <1>2, <1>3, <1>4 DEF x
<1>7. x \in Json
  BY DEF x
<1>8. Stable(x, r + 1, S)
  BY <1>5, <1>6, <1>7, VisitedStable
<1>. QED
  BY <1>8 DEF x

LEMMA PutProper ==
    ASSUME NEW S, NEW r, NEW F, NEW fs \in Seq(F), NEW f \in F,
           Proper(fs, r, S), ProperField(f, r, S)
    PROVE  Proper(Put(fs, f), r, S)
<1> DEFINE p == Put(fs, f)
<1>1. CASE \E i \in DOMAIN fs : fs[i].key = f.key
  <2>1. p = [i \in DOMAIN fs |-> IF fs[i].key = f.key THEN f ELSE fs[i]]
    BY <1>1 DEF Put
  <2>2. Len(p) = Len(fs) /\ DOMAIN p = 1..Len(fs) /\ DOMAIN fs = 1..Len(fs) /\ Len(fs) \in Nat
    BY <2>1
  <2>3. \A i \in 1..Len(fs) : p[i] = IF fs[i].key = f.key THEN f ELSE fs[i]
    BY <2>1, <2>2
  <2>4. \A i \in 1..Len(fs) : p[i].key = fs[i].key
    BY <2>3
  <2> HIDE DEF p
  <2>5. \A i, j \in 1..Len(p) : p[i].key = p[j].key => i = j
    BY <2>2, <2>4 DEF Proper
  <2>6. \A i \in 1..Len(p) : ProperField(p[i], r, S)
    BY <2>2, <2>3 DEF Proper
  <2>7. Proper(p, r, S)
    BY <2>5, <2>6 DEF Proper
  <2>. QED
    BY <2>7 DEF p
<1>2. CASE ~\E i \in DOMAIN fs : fs[i].key = f.key
  <2>1. p = Append(fs, f)
    BY <1>2 DEF Put
  <2>2. Len(fs) \in Nat /\ DOMAIN fs = 1..Len(fs)
    OBVIOUS
  <2>3. Len(p) = Len(fs) + 1 /\ p[Len(fs) + 1] = f /\ \A i \in 1..Len(fs) : p[i] = fs[i]
    BY <2>1
  <2> HIDE DEF p
  <2>4. \A i \in 1..Len(p) : i \in 1..Len(fs) \/ i = Len(fs) + 1
    BY <2>2, <2>3
  <2>5. \A i, j \in 1..Len(p) : p[i].key = p[j].key => i = j
    BY <1>2, <2>2, <2>3, <2>4 DEF Proper
  <2>6. \A i \in 1..Len(p) : ProperField(p[i], r, S)
    BY <2>3, <2>4 DEF Proper
  <2>7. Proper(p, r, S)
    BY <2>5, <2>6 DEF Proper
  <2>. QED
    BY <2>7 DEF p
<1>. QED
  BY <1>1, <1>2

\* A field that is there already changes nothing.
LEMMA PutTwice ==
    ASSUME NEW F, NEW fs \in Seq(F), NEW f \in F
    PROVE  Put(Put(fs, f), f) = Put(fs, f)
<1> DEFINE p == Put(fs, f)
<1>0. p \in Seq(F) /\ DOMAIN p = 1..Len(p)
  BY PutTyped
<1>1. \E i \in DOMAIN p : p[i].key = f.key
  <2>1. CASE \E i \in DOMAIN fs : fs[i].key = f.key
    BY <2>1 DEF Put
  <2>2. CASE ~\E i \in DOMAIN fs : fs[i].key = f.key
    <3>1. p = Append(fs, f)
      BY <2>2 DEF Put
    <3>2. Len(fs) + 1 \in DOMAIN p /\ p[Len(fs) + 1] = f
      BY <3>1
    <3>. QED
      BY <3>2
  <2>. QED
    BY <2>1, <2>2
<1>2. \A i \in DOMAIN p : p[i].key = f.key => p[i] = f
  <2>1. CASE \E i \in DOMAIN fs : fs[i].key = f.key
    BY <2>1 DEF Put
  <2>2. CASE ~\E i \in DOMAIN fs : fs[i].key = f.key
    <3>1. p = Append(fs, f)
      BY <2>2 DEF Put
    <3>2. \A i \in DOMAIN p : (i \in DOMAIN fs /\ p[i] = fs[i]) \/ p[i] = f
      BY <3>1
    <3>. QED
      BY <2>2, <3>2
  <2>. QED
    BY <2>1, <2>2
<1> HIDE DEF p
<1>3. Put(p, f) = [i \in DOMAIN p |-> IF p[i].key = f.key THEN f ELSE p[i]]
  BY <1>1 DEF Put
<1>4. Put(p, f) = [i \in DOMAIN p |-> p[i]]
  BY <1>2, <1>3
<1>5. Put(p, f) = p
  BY <1>0, <1>4
<1>. QED
  BY <1>5 DEF p

\* What a first pass makes of keys that are short enough.
LEMMA ShortKey ==
    ASSUME NEW S, IsFiniteSet(S), \A s \in S : IsSecret(s), NEW k \in Short
    PROVE  LET h == Cut(Redact(k, S), MaxKey) IN
           /\ h \in Free(S) /\ NoControl(h) /\ Len(h) <= MaxKey
           /\ IsSecretField(h) => IsSecretField(k)
<1> DEFINE h == Redact(k, S)
<1>1. k \in Texts /\ Len(k) <= MaxKey /\ MaxKey \in Nat
  BY LimitsPositive DEF Short
<1>2. Stems(h, k) /\ NoControl(h) /\ h \in Free(S)
  BY <1>1, RedactHides
<1>3. h \in Texts /\ Len(h) <= Len(k) /\ Len(h) \in Nat /\ Len(k) \in Nat
  BY <1>1, <1>2 DEF Stems
<1> HIDE DEF h
<1>4. Len(h) <= MaxKey
  BY <1>1, <1>3
<1>5. Cut(h, MaxKey) = h
  BY <1>1, <1>3, <1>4, CutTyped
<1>6. ASSUME IsSecretField(h) PROVE IsSecretField(k)
  <2>1. h # <<>> /\ h[Len(h)] = "T"
    BY <1>6 DEF IsSecretField
  <2>2. k # <<>>
    <3>1. k = <<>> => Len(h) = 0
      BY <1>3
    <3>. QED
      BY <1>3, <2>1, <3>1
  <2>3. k[Len(k)] = "T"
    BY <1>2, <2>1, <2>2 DEF Stems
  <2>. QED
    BY <2>2, <2>3 DEF IsSecretField
<1>. QED
  BY <1>2, <1>4, <1>5, <1>6 DEF h

LEMMA FillingProper ==
    ASSUME NEW S, IsFiniteSet(S), \A s \in S : IsSecret(s), NEW r \in 0..MaxDepth + 1,
           NEW V, NEW W, NEW fields \in Seq([key : Short, value : V]), Len(fields) <= MaxItems,
           NEW built \in Seq(W), Len(built) = Len(fields),
           \A i \in 1..Len(fields) :
             IF IsSecretField(fields[i].key) THEN built[i] = Text(<<"redacted">>)
             ELSE Stable(built[i], r, S),
           NEW n \in 0..Len(fields)
    PROVE  Proper(Filling(fields, built, Same(S))[n], r, S)
<1> DEFINE R == Filling(fields, built, Same(S))
           m == Len(fields)
           F == [key : Free(S), value : W]
           E == {k \in 0..n : Proper(R[k], r, S)}
<1>1. m \in Nat /\ Short \subseteq Texts
  BY DEF Short
<1>2. R[0] = <<>> /\ \A i \in 1..m : R[i] =
            Put(R[i - 1], Field(Cut(Redact(fields[i].key, S), MaxKey), built[i]))
  BY <1>1, FillingUnfolds, SameLookup
<1>3. \A k \in 0..m : R[k] \in Seq(F)
  <2>1. fields \in Seq([key : Texts, value : V])
    BY <1>1, FieldsMonotone
  <2>. QED
    BY <2>1, SteadyHides, FillingFree
<1>4. ASSUME NEW i \in 1..m
      PROVE  LET f == Field(Cut(Redact(fields[i].key, S), MaxKey), built[i]) IN
             f \in F /\ ProperField(f, r, S)
  <2> DEFINE k == fields[i].key
             h == Cut(Redact(k, S), MaxKey)
             f == Field(h, built[i])
  <2>1. k \in Short /\ built[i] \in W
    BY FieldAt
  <2>2. h \in Free(S) /\ NoControl(h) /\ Len(h) <= MaxKey /\ (IsSecretField(h) => IsSecretField(k))
    BY <2>1, ShortKey
  <2>3. IF IsSecretField(k) THEN built[i] = Text(<<"redacted">>) ELSE Stable(built[i], r, S)
    OBVIOUS
  <2>4. Stable(Text(<<"redacted">>), r, S)
    BY OwnStable DEF Own
  <2> HIDE DEF h, k
  <2>5. f.key = h /\ f.value = built[i] /\ f \in F
    BY <2>1, <2>2 DEF Field
  <2> HIDE DEF f
  <2>6. ProperField(f, r, S)
    BY <2>2, <2>3, <2>4, <2>5 DEF ProperField
  <2>. QED
    BY <2>5, <2>6 DEF f, h, k
<1> HIDE DEF R, m, F
<1>5. 0 \in E
  <2>1. Proper(<<>>, r, S)
    BY DEF Proper
  <2>. QED
    BY <1>1, <1>2, <2>1 DEF m
<1>6. ASSUME NEW k \in 0..n, k \in E, k + 1 <= n PROVE k + 1 \in E
  <2>1. k + 1 \in 1..m /\ (k + 1) - 1 = k /\ k \in 0..m /\ k + 1 \in 0..n
    BY <1>1, <1>6 DEF m
  <2> DEFINE f == Field(Cut(Redact(fields[k + 1].key, S), MaxKey), built[k + 1])
  <2>2. R[k + 1] = Put(R[k], f)
    BY <1>2, <2>1
  <2>3. f \in F /\ ProperField(f, r, S)
    BY <1>4, <2>1
  <2> HIDE DEF f
  <2>4. R[k] \in Seq(F) /\ Proper(R[k], r, S)
    BY <1>3, <1>6, <2>1
  <2>5. Proper(R[k + 1], r, S)
    BY <2>2, <2>3, <2>4, PutProper
  <2>. QED
    BY <2>1, <2>5
<1> HIDE DEF E
<1>7. \A k \in 0..n : k \in E
  <2>1. n \in Nat
    BY <1>1 DEF m
  <2>. QED
    BY <1>5, <1>6, <2>1, InductionUpTo
<1>. QED
  BY <1>1, <1>7 DEF E, R, m

\* A second pass fills proper fields in as they are.
ValuesOf(built, fs) == \A i \in 1..Len(fs) : built[i] = fs[i].value

IsFilled(t, fs, n) ==
    t \in Seq([key : Texts, value : Json]) /\ Len(t) = n /\ \A i \in 1..n : t[i] = fs[i]

LEMMA FillingSame ==
    ASSUME NEW S, IsFiniteSet(S), \A s \in S : IsSecret(s), NEW r \in 0..MaxDepth + 1,
           NEW fs \in Seq([key : Texts, value : Json]), Proper(fs, r, S), Len(fs) <= MaxItems,
           NEW built, ValuesOf(built, fs),
           NEW n \in 0..Len(fs)
    PROVE  IsFilled(Filling(fs, built, Same(S))[n], fs, n)
<1> DEFINE R == Filling(fs, built, Same(S))
           m == Len(fs)
           F == [key : Texts, value : Json]
           Is(k) == R[k] \in Seq(F) /\ Len(R[k]) = k /\ \A i \in 1..k : R[k][i] = fs[i]
           E == {k \in 0..n : Is(k)}
<1>1. m \in Nat
  OBVIOUS
<1>2. R[0] = <<>> /\ \A i \in 1..m : R[i] =
            Put(R[i - 1], Field(Cut(Redact(fs[i].key, S), MaxKey), built[i]))
  BY <1>1, FillingUnfolds, SameLookup
<1>3. ASSUME NEW i \in 1..m
      PROVE  /\ Field(Cut(Redact(fs[i].key, S), MaxKey), built[i]) = fs[i]
             /\ fs[i] \in F
  <2> DEFINE k == fs[i].key
  <2>1. fs[i] \in F /\ k \in Texts
    BY FieldAt
  <2>2. k \in Free(S) /\ NoControl(k) /\ Len(k) <= MaxKey
    BY DEF Proper, ProperField
  <2>3. fs[i] = [key |-> k, value |-> fs[i].value]
    BY <2>1
  <2> HIDE DEF k
  <2>4. Redact(k, S) = k /\ Cut(k, MaxKey) = k
    BY <2>1, <2>2, RedactNothing, CutTyped, LimitsPositive
  <2>5. Field(Cut(Redact(k, S), MaxKey), built[i]) = fs[i]
    <3>1. built[i] = fs[i].value
      BY DEF ValuesOf
    <3>. QED
      BY <2>3, <2>4, <3>1 DEF Field
  <2>. QED
    BY <2>1, <2>5 DEF k
<1>4. \A i, j \in 1..m : fs[i].key = fs[j].key => i = j
  BY DEF Proper
<1> HIDE DEF R, m, F
<1>5. Is(0)
  <2>1. <<>> \in Seq(F) /\ Len(<<>>) = 0
    OBVIOUS
  <2>. QED
    BY <1>2, <2>1
<1>6. ASSUME NEW k \in 0..n, Is(k), k + 1 <= n PROVE Is(k + 1)
  <2>1. k + 1 \in 1..m /\ (k + 1) - 1 = k /\ k \in 0..m
    BY <1>1, <1>6 DEF m
  <2>2. R[k + 1] = Put(R[k], fs[k + 1]) /\ fs[k + 1] \in F
    BY <1>2, <1>3, <2>1
  <2> DEFINE b == R[k]
             f == fs[k + 1]
  <2>3. b \in Seq(F) /\ Len(b) = k /\ DOMAIN b = 1..k /\ \A i \in 1..k : b[i] = fs[i]
    BY <1>6
  <2>4. \A i \in 1..k : i \in 1..m /\ i # k + 1
    BY <1>1, <2>1
  <2>5. ~\E i \in DOMAIN b : b[i].key = f.key
    BY <1>4, <2>1, <2>3, <2>4
  <2>6. R[k + 1] = Append(b, f)
    BY <2>2, <2>5 DEF Put
  <2>7. f \in F
    BY <2>2
  <2> HIDE DEF b
  <2>8. /\ Append(b, f) \in Seq(F) /\ Len(Append(b, f)) = k + 1
        /\ \A i \in 1..k : Append(b, f)[i] = b[i]
        /\ Append(b, f)[k + 1] = f
    <3> HIDE DEF f
    <3>. QED
      BY <2>3, <2>7
  <2>9. \A i \in 1..k + 1 : i \in 1..k \/ i = k + 1
    BY <1>6
  <2>. QED
    BY <2>3, <2>6, <2>8, <2>9
<1>7. Is(n)
  <2> HIDE DEF Is
  <2>1. n \in Nat
    BY <1>1 DEF m
  <2>2. 0 \in E
    BY <1>5, <2>1
  <2>3. ASSUME NEW k \in 0..n, k \in E, k + 1 <= n PROVE k + 1 \in E
    BY <1>6, <2>3
  <2> HIDE DEF E
  <2>4. \A k \in 0..n : k \in E
    BY <2>1, <2>2, <2>3, InductionUpTo
  <2>. QED
    BY <2>1, <2>4 DEF E
<1>. QED
  BY <1>7 DEF R, F, IsFilled

LEMMA ObjectStable ==
    ASSUME NEW S, IsFiniteSet(S), \A s \in S : IsSecret(s), NEW r \in 0..MaxDepth,
           NEW fs \in Seq([key : Texts, value : Json]), Object(fs) \in Json, Proper(fs, r, S)
    PROVE  Stable(Object(fs), r + 1, S)
<1> DEFINE x == Object(fs)
           m == Len(fs)
<1>0. m \in Nat /\ r \in 0..MaxDepth + 1
  BY LimitsPositive
<1>1. x.type = "object" /\ x.fields = fs
  BY DEF Object
<1>2. Values(x) = [i \in 1..m |-> fs[i].value]
  BY <1>1 DEF Values
<1>3. Len(Values(x)) = m /\ \A i \in 1..m : Values(x)[i] = fs[i].value
  BY <1>0, <1>2
<1>4. \A i \in 1..m : i \in Hidden(x) <=> IsSecretField(fs[i].key)
  BY <1>1, <1>2 DEF Hidden
<1>5. ASSUME ~TooLarge(x), NEW built, built \in Seq(Json), Len(built) = m, \A i \in 1..m : built[i] = Values(x)[i]
      PROVE  Rebuilt(x, built, Same(S)) = x
  <2> DEFINE t == Filling(fs, built, Same(S))[m]
  <2>1. \A i \in 1..m : built[i] = fs[i].value
    BY <1>3, <1>5
  <2>2. m \in 0..m
    BY <1>0
  <2>3. /\ Filling(fs, built, Same(S))[m] \in Seq([key : Texts, value : Json])
        /\ Len(Filling(fs, built, Same(S))[m]) = m
        /\ \A i \in 1..m : Filling(fs, built, Same(S))[m][i] = fs[i]
    <3>1. ValuesOf(built, fs)
      BY <2>1 DEF ValuesOf
    <3>2. IsFilled(Filling(fs, built, Same(S))[m], fs, m)
      <4>1. m <= MaxItems
        BY <1>0, <1>1, <1>5, LimitsPositive DEF TooLarge
      <4>. QED
        BY <1>0, <2>2, <3>1, <4>1, FillingSame
    <3>. QED
      BY <3>2 DEF IsFilled
  <2> DEFINE F == [key : Texts, value : Json]
  <2>4. t \in Seq(F) /\ fs \in Seq(F) /\ Len(t) = Len(fs) /\ \A i \in 1..Len(fs) : t[i] = fs[i]
    BY <2>3
  <2> HIDE DEF t, F
  <2>5. t = fs
    BY <2>4
  <2>. QED
    BY <1>1, <2>5, RebuiltObject DEF t
<1>6. \A i \in 1..m : IF i \in Hidden(x) THEN Values(x)[i] = Text(<<"redacted">>)
                      ELSE Stable(Values(x)[i], r, S)
  BY <1>3, <1>4 DEF Proper, ProperField
<1>7. x \in Json
  OBVIOUS
<1> HIDE DEF x, m
<1>8. ~TooLarge(x) => \A built : Len(Values(x)) = Len(built) /\ built \in Seq(Json)
                 /\ (\A i \in 1..Len(Values(x)) : built[i] = Values(x)[i])
                 => Rebuilt(x, built, Same(S)) = x
  BY <1>3, <1>5
<1>9. \A i \in 1..Len(Values(x)) :
        IF i \in Hidden(x) THEN Values(x)[i] = Text(<<"redacted">>) ELSE Stable(Values(x)[i], r, S)
  BY <1>3, <1>6
<1>10. Stable(x, r + 1, S)
  BY <1>7, <1>8, <1>9, VisitedStable
<1>. QED
  BY <1>10 DEF x

\* What a visit of x with room for r levels builds is not changed again.
Settled(v, x, r, S) ==
    \/ v = Refusal
    \/ \E y \in Json : /\ v.built = <<y>> /\ Stable(y, r, S)
                       /\ x.type = "object" /\ r > 0 => y.type = "object" /\ Proper(y.fields, r - 1, S)

LEMMA VisitedSettles ==
    ASSUME NEW S, IsFiniteSet(S), \A s \in S : IsSecret(s), NEW r \in 0..MaxDepth,
           \A n \in 0..MaxNesting : \A y \in Nested(Short, Texts)[n], l \in 0..MaxNodes :
             Settled(Visit(Steady(S))[r][y][l], y, r, S),
           NEW n \in 0..MaxNesting, NEW x \in Nested(Short, Texts)[n], ~TooLarge(x),
           NEW left \in 1..MaxNodes,
           Visited(Visit(Steady(S))[r], x, left, Steady(S)) # Refusal,
           NEW y \in Json, Visited(Visit(Steady(S))[r], x, left, Steady(S)).built = <<y>>
    PROVE  Settled(Visited(Visit(Steady(S))[r], x, left, Steady(S)), x, r + 1, S)
<1> DEFINE below == Visit(Steady(S))[r]
           m == Len(Values(x))
           W == [k \in 1..m |-> IF k \in Hidden(x) THEN {Text(<<"redacted">>)}
                                ELSE {w \in Json : Stable(w, r, S)}]
           all == Visiting(below, x, left - 1)[m]
<1>1. /\ r \in 0..MaxDepth + 1 /\ r + 1 \in 0..MaxDepth + 1 /\ (r + 1) - 1 = r /\ r + 1 > 0
      /\ left - 1 \in 0..MaxNodes /\ MaxNesting \in 0..MaxNesting /\ MaxText \in Nat
  BY LimitsPositive
<1>2. Nested(Short, Texts)[n] \subseteq Json
  <2>1. Short \subseteq Texts
    BY DEF Short
  <2>2. Nested(Short, Texts)[n] \subseteq Nested(Texts, Texts)[n]
    BY <2>1, NestedMonotone
  <2>3. n \in 0..MaxNesting
    OBVIOUS
  <2>4. Nested(Texts, Texts)[n] \subseteq Nested(Texts, Texts)[MaxNesting]
    BY <1>1, <2>3, NestedGrows
  <2>. QED
    BY <2>2, <2>4 DEF Json, JsonOf
<1>3. x \in Json
  BY <1>2
<1>4. m \in Nat /\ \A k \in 1..m : n > 0 /\ Values(x)[k] \in Nested(Short, Texts)[n - 1]
  BY ValuesNested
<1>5. \A k \in 1..m : Values(x)[k] \in Json
  BY <1>3, ValuesJson
<1>6. Gives(below, x, W)
  <2>1. ASSUME NEW k \in 1..m, k \notin Hidden(x), NEW l \in 0..MaxNodes
        PROVE  Yields(below[Values(x)[k]][l], l, W[k], 1)
    <3> DEFINE z == Values(x)[k]
               v == below[z][l]
    <3>1. z \in Json /\ z \in Nested(Texts, Texts)[MaxNesting]
      BY <1>5 DEF Json, JsonOf
    <3>2. v = Refusal \/ v.left \in 0..l
      BY <1>1, <3>1, SteadyHides, VisitYields DEF Yields
    <3>3. n - 1 \in 0..MaxNesting /\ z \in Nested(Short, Texts)[n - 1]
      BY <1>4, LimitsPositive
    <3>4. v = Refusal \/ \E w \in Json : v.built = <<w>> /\ Stable(w, r, S)
      BY <3>3 DEF Settled
    <3>5. W[k] = {w \in Json : Stable(w, r, S)}
      BY <2>1
    <3>6. \A w \in Json : Stable(w, r, S) => <<w>> \in Seq(W[k]) /\ Len(<<w>>) = 1
      BY <3>5, Singleton
    <3> HIDE DEF v, z, W
    <3>7. Yields(v, l, W[k], 1)
      BY <3>2, <3>4, <3>6 DEF Yields
    <3>. QED
      BY <3>7 DEF v, z
  <2>2. Text(<<"redacted">>) \in Json
    <3>1. <<"redacted">> \in Texts
      BY SymbolsAssumption DEF Own, Texts
    <3>. QED
      BY <3>1, TextJson
  <2>3. ASSUME NEW k \in 1..m
        PROVE  /\ W[k] \subseteq Json
               /\ k \in Hidden(x) => Text(<<"redacted">>) \in W[k]
    <3>1. W[k] = IF k \in Hidden(x) THEN {Text(<<"redacted">>)} ELSE {w \in Json : Stable(w, r, S)}
      OBVIOUS
    <3>. QED
      BY <2>2, <3>1
  <2>. QED
    BY <2>1, <2>3 DEF Gives
<1>7. \A k \in 1..m : W[k] = IF k \in Hidden(x) THEN {Text(<<"redacted">>)}
                             ELSE {w \in Json : Stable(w, r, S)}
  OBVIOUS
<1> HIDE DEF W
<1>8. ASSUME NEW l \in 0..MaxNodes, NEW i \in 0..Len(Values(x))
      PROVE  \/ Visiting(below, x, l)[i] = Refusal
             \/ /\ Visiting(below, x, l)[i].left \in 0..MaxNodes
                /\ Visiting(below, x, l)[i].built \in Seq(Json)
                /\ Len(Visiting(below, x, l)[i].built) = i
                /\ \A j \in 1..i : Visiting(below, x, l)[i].built[j] \in W[j]
  BY <1>3, <1>6, VisitingBuilds
<1>9. Visited(below, x, left, Steady(S)) =
        IF all.left < 0 THEN Refusal ELSE [left |-> all.left, built |-> <<Rebuilt(x, all.built, Same(S))>>]
  BY DEF Visited, Steady
<1>10. m \in 0..Len(Values(x))
  BY <1>4
<1>11. /\ all.built \in Seq(Json) /\ Len(all.built) = m
       /\ \A j \in 1..m : all.built[j] \in W[j]
  BY <1>1, <1>8, <1>9, <1>10 DEF Refusal
<1> DEFINE b == all.built
<1>12. y = Rebuilt(x, b, Same(S))
  BY <1>9
<1> HIDE DEF all
<1>13. /\ b \in Seq(Json) /\ Len(b) = m
       /\ \A j \in 1..m : IF j \in Hidden(x) THEN b[j] = Text(<<"redacted">>) ELSE Stable(b[j], r, S)
  BY <1>7, <1>11
<1> HIDE DEF b, below
<1>14. CASE IsText(x, Texts)
  <2> DEFINE t == Redact(Cut(x.text, MaxText), S)
  <2>1. y = Text(t)
    <3>1. Same(S)[0] = S
      BY LimitsPositive DEF Same
    <3>. QED
      BY <1>12, <1>14, <3>1 DEF IsText, Rebuilt
  <2>2. Cut(x.text, MaxText) \in Texts /\ Len(Cut(x.text, MaxText)) <= MaxText
    BY <1>1, <1>14, CutTyped DEF IsText
  <2>3. t \in Free(S) /\ NoControl(t) /\ t \in Texts /\ Len(t) <= Len(Cut(x.text, MaxText))
    BY <2>2, RedactHides DEF Stems
  <2>4. Len(t) <= MaxText
    <3> DEFINE c == Cut(x.text, MaxText)
    <3>1. Len(t) \in Nat /\ Len(c) \in Nat
      BY <2>2, <2>3 DEF Texts
    <3> HIDE DEF t, c
    <3>. QED
      BY <1>1, <2>2, <2>3, <3>1 DEF c
  <2> HIDE DEF t
  <2>5. Stable(y, r + 1, S)
    BY <1>1, <2>1, <2>3, <2>4, StableText
  <2>. QED
    BY <1>14, <2>5 DEF Settled, IsText
<1>15. CASE IsOther(x)
  <2>1. y = Null
    BY <1>12, <1>15 DEF IsOther, Rebuilt
  <2>2. Stable(y, r + 1, S)
    BY <1>1, <2>1, NullStable
  <2>. QED
    BY <1>15, <2>2 DEF Settled, IsOther
<1>16. CASE n > 0 /\ IsList(x, Nested(Short, Texts)[n - 1])
  <2>1. x.type = "list" /\ Hidden(x) = {}
    BY <1>16 DEF IsList, Hidden
  <2>2. y = List(b)
    BY <1>12, <2>1 DEF Rebuilt
  <2>3. Stable(y, r + 1, S)
    BY <1>13, <2>1, <2>2, ListStable
  <2>. QED
    BY <2>1, <2>3 DEF Settled
<1>17. CASE n > 0 /\ IsObject(x, Short, Nested(Short, Texts)[n - 1])
  <2> DEFINE fs == Filling(x.fields, b, Same(S))[Len(x.fields)]
  <2>1. x.type = "object" /\ Len(x.fields) = m
    BY <1>17, ValuesNested DEF IsObject
  <2>2. y = Object(fs)
    BY <1>12, <2>1, RebuiltObject
  <2>3. \A i \in 1..Len(x.fields) :
          IF IsSecretField(x.fields[i].key) THEN b[i] = Text(<<"redacted">>) ELSE Stable(b[i], r, S)
    <3>1. \A i \in 1..m : i \in Hidden(x) <=> IsSecretField(x.fields[i].key)
      <4>1. DOMAIN Values(x) = 1..m
        BY <1>3, ValuesJson
      <4>. QED
        BY <2>1, <4>1 DEF Hidden
    <3>. QED
      BY <1>13, <2>1, <3>1
  <2>4. Len(x.fields) \in 0..Len(x.fields)
    BY <1>4, <2>1
  <2>4a. Len(x.fields) <= MaxItems
    BY <1>4, <2>1, LimitsPositive DEF TooLarge
  <2>5. x.fields \in Seq([key : Short, value : Nested(Short, Texts)[n - 1]])
    BY <1>17 DEF IsObject
  <2>6. Proper(fs, r, S)
    BY <1>1, <1>13, <2>1, <2>3, <2>4, <2>4a, <2>5, FillingProper
  <2>7. fs \in Seq([key : Texts, value : Json])
    <3> DEFINE V == Nested(Short, Texts)[n - 1]
    <3>1. Short \subseteq Texts /\ V \subseteq V
      BY DEF Short
    <3> HIDE DEF V
    <3>2. x.fields \in Seq([key : Texts, value : V])
      <4>1. Seq([key : Short, value : V]) \subseteq Seq([key : Texts, value : V])
        BY <3>1, FieldsMonotone
      <4>. QED
        BY <2>5, <4>1 DEF V
    <3>3. fs \in Seq([key : Free(S), value : Json])
      BY <1>13, <2>1, <2>4, <2>4a, <3>2, SteadyHides, FillingFree
    <3>4. Free(S) \subseteq Texts
      BY DEF Free
    <3>5. Seq([key : Free(S), value : Json]) \subseteq Seq([key : Texts, value : Json])
      BY <3>4, FieldsMonotone
    <3>. QED
      BY <3>3, <3>5
  <2> HIDE DEF fs
  <2>8. Object(fs) \in Json
    BY <2>2
  <2>9. Stable(Object(fs), r + 1, S)
    BY <2>6, <2>7, <2>8, ObjectStable
  <2>10. y.type = "object" /\ y.fields = fs
    BY <2>2 DEF Object
  <2>. QED
    BY <1>1, <2>2, <2>6, <2>9, <2>10 DEF Settled
<1>. QED
  BY <1>14, <1>15, <1>16, <1>17, NestedShape

LEMMA VisitSettles ==
    ASSUME NEW S, IsFiniteSet(S), \A s \in S : IsSecret(s), NEW room \in 0..MaxDepth + 1
    PROVE  \A n \in 0..MaxNesting : \A x \in Nested(Short, Texts)[n], left \in 0..MaxNodes :
             Settled(Visit(Steady(S))[room][x][left], x, room, S)
<1> DEFINE Is(r) == \A n \in 0..MaxNesting : \A x \in Nested(Short, Texts)[n], left \in 0..MaxNodes :
                      Settled(Visit(Steady(S))[r][x][left], x, r, S)
           E == {r \in 0..room : Is(r)}
<1>1. Short \subseteq Texts /\ MaxNesting \in 0..MaxNesting
  BY LimitsPositive DEF Short
<1>2. ASSUME NEW n \in 0..MaxNesting
      PROVE  /\ Nested(Short, Texts)[n] \subseteq Nested(Texts, Texts)[n]
             /\ Nested(Short, Texts)[n] \subseteq Json
             /\ Nested(Free(S), Free(S))[n] \subseteq Json
  <2>1. Nested(Short, Texts)[n] \subseteq Nested(Texts, Texts)[n]
    BY <1>1, NestedMonotone
  <2>2. Free(S) \subseteq Texts
    BY DEF Free
  <2>3. Nested(Free(S), Free(S))[n] \subseteq Nested(Texts, Texts)[n]
    BY <2>2, NestedMonotone
  <2>4. Nested(Texts, Texts)[n] \subseteq Nested(Texts, Texts)[MaxNesting]
    BY <1>1, NestedGrows
  <2>. QED
    BY <2>1, <2>3, <2>4 DEF Json, JsonOf
<1>3. Is(0)
  <2>1. ASSUME NEW n \in 0..MaxNesting, NEW x \in Nested(Short, Texts)[n], NEW left \in 0..MaxNodes
        PROVE  Settled(Visit(Steady(S))[0][x][left], x, 0, S)
    <3>1. Visit(Steady(S))[0] = NoVisit /\ NoVisit[x][left] = Refusal
      BY <1>2, VisitUnfolds DEF NoVisit
    <3>. QED
      BY <3>1 DEF Settled
  <2>. QED
    BY <2>1
<1>4. ASSUME NEW r \in 0..room, Is(r), r + 1 <= room PROVE Is(r + 1)
  <2>1. r \in 0..MaxDepth /\ r + 1 \in 1..MaxDepth + 1 /\ (r + 1) - 1 = r /\ r + 1 \in 0..MaxDepth + 1
    BY <1>4, LimitsPositive
  <2>2. ASSUME NEW n \in 0..MaxNesting, NEW x \in Nested(Short, Texts)[n], NEW left \in 0..MaxNodes
        PROVE  Settled(Visit(Steady(S))[r + 1][x][left], x, r + 1, S)
    <3> DEFINE v == Visit(Steady(S))[r + 1][x][left]
    <3>1. x \in Nested(Texts, Texts)[n] /\ x \in Json
      BY <1>2
    <3>2. v = IF left = 0 \/ TooLarge(x) THEN Refusal ELSE Visited(Visit(Steady(S))[r], x, left, Steady(S))
      BY <2>1, <3>1, VisitAtRoom
    <3>3. Yields(v, left, Nested(Free(S), Free(S))[n], 1)
      BY <2>1, <3>1, SteadyHides, VisitYields
    <3> HIDE DEF v
    <3>4. ASSUME v = Refusal PROVE Settled(v, x, r + 1, S)
      BY <3>4 DEF Settled
    <3>5. ASSUME v # Refusal PROVE Settled(v, x, r + 1, S)
      <4>1. v = Visited(Visit(Steady(S))[r], x, left, Steady(S)) /\ left \in 1..MaxNodes /\ ~TooLarge(x)
        BY <3>2, <3>5, LimitsPositive
      <4> DEFINE y == v.built[1]
      <4>2. v.built \in Seq(Nested(Free(S), Free(S))[n]) /\ Len(v.built) = 1
        BY <3>3, <3>5 DEF Yields
      <4>3. y \in Json /\ v.built = <<y>>
        <5>1. y \in Nested(Free(S), Free(S))[n] /\ v.built = <<y>>
          BY <4>2
        <5>. QED
          BY <1>2, <5>1
      <4> HIDE DEF y
      <4>4. \A k \in 0..MaxNesting : \A z \in Nested(Short, Texts)[k], l \in 0..MaxNodes :
              Settled(Visit(Steady(S))[r][z][l], z, r, S)
        BY <1>4
      <4>. QED
        BY <2>1, <3>5, <4>1, <4>3, <4>4, VisitedSettles
    <3>. QED
      BY <3>4, <3>5 DEF v
  <2>. QED
    BY <2>2
<1>5. Is(room)
  <2> HIDE DEF Is
  <2>1. room \in Nat
    BY LimitsPositive
  <2>2. 0 \in E
    BY <1>3, <2>1
  <2>3. ASSUME NEW r \in 0..room, r \in E, r + 1 <= room PROVE r + 1 \in E
    BY <1>4, <2>3
  <2> HIDE DEF E
  <2>4. \A r \in 0..room : r \in E
    BY <2>1, <2>2, <2>3, InductionUpTo
  <2>. QED
    BY <2>1, <2>4 DEF E
<1>. QED
  BY <1>5

\* What public_result makes of an object whose keys are not cut, it makes of
\* that again, or refuses it now that it has the notice.
LEMMA SecondPass ==
    ASSUME NEW S, IsFiniteSet(S), \A s \in S : IsSecret(s),
           NEW data \in JsonOf(Short, Texts), data.type = "object", PublicResult(data, Steady(S)) # <<>>
    PROVE  PublicResult(PublicResult(data, Steady(S))[1], Steady(S)) \in {<<>>, PublicResult(data, Steady(S))}
<1> DEFINE r == MaxDepth + 1
           V == Nested(Texts, Texts)[MaxNesting - 1]
           F == [key : Texts, value : V]
           all == Visit(Steady(S))[r][data][MaxNodes]
<1>1. /\ r \in 0..MaxDepth + 1 /\ r > 0 /\ r - 1 = MaxDepth /\ r \in 1..MaxDepth + 1
      /\ MaxDepth \in 0..MaxDepth + 1 /\ MaxDepth \in 0..MaxDepth /\ MaxDepth + 1 = r
      /\ MaxNodes \in 0..MaxNodes
      /\ MaxNesting \in 0..MaxNesting /\ MaxNesting - 1 \in 0..MaxNesting
  BY LimitsPositive
<1>2. data \in Nested(Short, Texts)[MaxNesting]
  BY DEF JsonOf
<1>3. Settled(all, data, r, S)
  BY <1>1, <1>2, VisitSettles
<1>4. all # Refusal /\ PublicResult(data, Steady(S)) = <<Object(Put(all.built[1].fields, NoticeField))>>
  BY DEF PublicResult, Refusal
<1> HIDE DEF all, r
<1>5. PICK y \in Json : all.built = <<y>> /\ y.type = "object" /\ Proper(y.fields, r - 1, S)
  BY <1>1, <1>3, <1>4 DEF Settled
<1> DEFINE fs == y.fields
           p == Put(fs, NoticeField)
<1>6. fs \in Seq(F)
  <2>1. y \in JsonOf(Texts, Texts)
    BY DEF Json
  <2>2. IsObject(y, Texts, V)
    BY <1>5, <2>1, ObjectOf
  <2>. QED
    BY <2>2 DEF IsObject
<1>7. NoticeField \in F /\ ProperField(NoticeField, MaxDepth, S)
  <2> DEFINE k == <<"noticekey">>
             t == <<"notice">>
  <2>1. k \in Texts /\ t \in Texts
    BY SymbolsAssumption DEF Own, Texts
  <2>2. Text(t) \in V
    BY <1>1, <2>1, NestedMade
  <2>3. k \in Free(S)
    BY OwnFree DEF Own
  <2>4. NoControl(k) /\ Len(k) <= MaxKey /\ ~IsSecretField(k)
    BY LimitsPositive DEF NoControl, IsSecretField
  <2>5. Stable(Text(t), MaxDepth, S)
    BY <1>1, OwnStable DEF Own
  <2> HIDE DEF k, t, V
  <2>6. NoticeField = Field(k, Text(t))
    BY DEF NoticeField, k, t
  <2>7. NoticeField.key = k /\ NoticeField.value = Text(t) /\ NoticeField \in F
    BY <2>1, <2>2, <2>6 DEF Field
  <2>. QED
    BY <2>3, <2>4, <2>5, <2>7 DEF ProperField
<1>8. p \in Seq(F) /\ Proper(p, MaxDepth, S) /\ Put(p, NoticeField) = p
  <2> HIDE DEF F, fs
  <2>1. Proper(fs, MaxDepth, S)
    BY <1>1, <1>5 DEF fs
  <2>. QED
    BY <1>6, <1>7, <2>1, PutTyped, PutProper, PutTwice
<1> HIDE DEF p
<1>9. Object(p) \in Json /\ Object(p).type = "object" /\ Object(p).fields = p
  BY <1>8, ObjectMade DEF Json
<1>10. p \in Seq([key : Texts, value : Json])
  <2>1. V \subseteq Json
    BY <1>1, NestedGrows DEF Json, JsonOf
  <2> HIDE DEF V
  <2>2. Seq([key : Texts, value : V]) \subseteq Seq([key : Texts, value : Json])
    BY <2>1, FieldsMonotone
  <2>. QED
    BY <1>8, <2>2
<1>11. Stable(Object(p), r, S)
  BY <1>1, <1>8, <1>9, <1>10, ObjectStable
<1> DEFINE again == Visit(Steady(S))[r][Object(p)][MaxNodes]
<1>12. again = Refusal \/ again.built = <<Object(p)>>
  BY <1>1, <1>11 DEF Stable
<1>13. PublicResult(data, Steady(S)) = <<Object(p)>>
  BY <1>4, <1>5 DEF p
<1>14. PublicResult(Object(p), Steady(S)) =
         IF again.left < 0 THEN <<>> ELSE <<Object(Put(again.built[1].fields, NoticeField))>>
  BY DEF PublicResult, r
<1> HIDE DEF again
<1>15. CASE again = Refusal
  BY <1>13, <1>14, <1>15 DEF Refusal
<1>16. CASE again.built = <<Object(p)>>
  <2>1. again.built[1].fields = p
    BY <1>9, <1>16
  <2>. QED
    BY <1>8, <1>13, <1>14, <2>1
<1>. QED
  BY <1>12, <1>15, <1>16
----------------------------------------------------------------------------
(***************************************************************************)
(* A call.                                                                 *)
(***************************************************************************)

\* How far a call is, and what it has by then.
Staged ==
    /\ stage \in {"idle", "sent"} => reply = Nothing
    /\ stage = "handled" => first # <<>>
    /\ stage = "remembered" => handler = "deliver"
    /\ first # <<>> => stage \in {"handled", "failed", "done"}
    /\ stage \in {"failed", "done"} => out # <<>>

\* An error has lost what was hidden in it before it is reported.
ErrorFree == stage = "failed" => out[1].type = "text" /\ out[1].text \in Free(Always(seen))

\* So has the handler's result.
FirstFree == first # <<>> => first[1] \in JsonOf(Free(Always(seen)), Free(Always(seen)))

\* While the store stays the same: a second pass in the handler would have
\* changed nothing, and the one of invoke_tool is what the host gets.  Only a
\* limit stops it.
Twice ==
    /\ \A K \in SUBSET Credentials :
          first # <<>> /\ reply \in JsonOf(Short, Texts) /\ seen = {K} =>
             PublicResult(first[1], Steady(K)) \in {<<>>, first}
    /\ \A K \in SUBSET Credentials :
          stage = "done" /\ first # <<>> /\ out[1].type = "object" /\ stores = {K} =>
             out = PublicResult(first[1], Steady(K))
    /\ stage = "failed" /\ first # <<>> => ~Fits(first[1])

ReplyInv ==
    TypeOK /\ Staged /\ ErrorFree /\ FirstFree /\ NoSecretEscapes /\ RefusedExactly /\ Twice

LEMMA JsonMonotone ==
    ASSUME NEW K, NEW L, K \subseteq L, NEW T, NEW U, T \subseteq U
    PROVE  JsonOf(K, T) \subseteq JsonOf(L, U)
<1>1. MaxNesting \in 0..MaxNesting
  BY LimitsPositive
<1>. QED
  BY <1>1, NestedMonotone DEF JsonOf

LEMMA SecretsOf ==
    ASSUME NEW S, S \subseteq Credentials
    PROVE  IsFiniteSet(S) /\ \A s \in S : IsSecret(s)
<1>1. IsFiniteSet(S)
  BY CredentialsAssumption, FS_Subset
<1>2. \A s \in S : s \in Texts /\ s # <<>> /\ \A i \in DOMAIN s : s[i] \notin Own
  BY CredentialsAssumption
<1>. QED
  BY <1>1, <1>2 DEF IsSecret

\* Each lookup of a pass finds one of the stores.
LEMMA LookupsTyped ==
    ASSUME NEW data, NEW X, NEW L \in Lookups(data, X)
    PROVE  L \in [1..MaxNodes -> [0..MaxItems -> X]]
<1> DEFINE n == Visits(data)
<1>1. MaxNodes \in Nat /\ n \in 1..MaxNodes
  BY LimitsAssumption DEF Visits
<1> HIDE DEF n
<1>2. PICK l \in [MaxNodes - n + 1..MaxNodes -> [0..MaxItems -> X]] :
        L = [left \in 1..MaxNodes |-> IF left > MaxNodes - n THEN l[left] ELSE l[MaxNodes]]
  BY DEF Lookups, n
<1>3. ASSUME NEW left \in 1..MaxNodes
      PROVE  (IF left > MaxNodes - n THEN l[left] ELSE l[MaxNodes]) \in [0..MaxItems -> X]
  BY <1>1
<1>. QED
  BY <1>2, <1>3

\* A pass hides what the store holds all through it.
LEMMA LookupsHide ==
    ASSUME NEW data, NEW X, X \subseteq SUBSET Credentials, NEW L \in Lookups(data, X),
           NEW B, B \subseteq Credentials
    PROVE  PassHides(L, B, B \cup Always(X))
<1> SUFFICES ASSUME NEW left \in 1..MaxNodes, NEW i \in 0..MaxItems
             PROVE  Hides(L[left][i], B, B \cup Always(X))
  BY DEF PassHides, Looked
<1>1. L[left][i] \in X
  <2>1. L \in [1..MaxNodes -> [0..MaxItems -> X]]
    BY LookupsTyped
  <2>. QED
    BY <2>1
<1> DEFINE K == L[left][i]
<1> HIDE DEF K
<1>2. K \in X /\ K \subseteq Credentials
  BY <1>1 DEF K
<1>3. Always(X) \subseteq K
  BY <1>2 DEF Always
<1>4. IsFiniteSet(K)
  BY <1>2, SecretsOf
<1>5. \A s \in B \cup K : IsSecret(s)
  <2>1. B \cup K \subseteq Credentials
    BY <1>2
  <2>. QED
    BY <2>1, SecretsOf
<1>6. Hides(K, B, B \cup Always(X))
  BY <1>3, <1>4, <1>5 DEF Hides
<1>. QED
  BY <1>6 DEF K

LEMMA LookupsSteady ==
    ASSUME NEW data, NEW K, NEW L \in Lookups(data, {K})
    PROVE  L = Steady(K)
<1>1. L \in [1..MaxNodes -> [0..MaxItems -> {K}]]
  BY LookupsTyped
<1>2. ASSUME NEW left \in 1..MaxNodes PROVE L[left] = Same(K)
  <2>1. L[left] \in [0..MaxItems -> {K}]
    BY <1>1
  <2>2. \A i \in 0..MaxItems : L[left][i] = K
    BY <2>1
  <2>. QED
    BY <2>1, <2>2 DEF Same
<1>. QED
  BY <1>1, <1>2 DEF Steady

LEMMA AlwaysCredentials ==
    ASSUME NEW X
    PROVE  Always(X) \subseteq Credentials
BY DEF Always

LEMMA FreeTexts ==
    ASSUME NEW S
    PROVE  JsonOf(Free(S), Free(S)) \subseteq Json
<1>1. Free(S) \subseteq Texts
  BY DEF Free
<1>. QED
  BY <1>1, JsonMonotone DEF Json

LEMMA EmptyFree ==
    ASSUME NEW S, \A s \in S : IsSecret(s)
    PROVE  <<>> \in Free(S)
<1>1. ASSUME NEW u, IsSecret(u) PROVE ~Occurs(u, <<>>)
  <2>1. u \in Seq(Symbols) /\ u # <<>>
    BY <1>1 DEF IsSecret, Texts
  <2>2. Len(u) \in Nat /\ Len(u) > 0
    BY <2>1
  <2>3. Len(<<>>) = 0
    OBVIOUS
  <2>. QED
    BY <2>2, <2>3 DEF Occurs, At
<1>2. \A s \in S : ~Occurs(s, <<>>) /\ ~Occurs(Quoted(s), <<>>)
  BY <1>1, QuotedSecret
<1>3. <<>> \in Texts
  BY DEF Texts
<1>. QED
  BY <1>2, <1>3 DEF Free

LEMMA ReplyObject ==
    ASSUME NEW v \in Replies \cup {Nothing}
    PROVE  v \in Json /\ v.type = "object"
<1>1. v \in Replies => v \in Json /\ v.type = "object"
  BY InputsAssumption
<1>2. <<>> \in Seq([key : Texts, value : Nested(Texts, Texts)[MaxNesting - 1]])
  OBVIOUS
<1>3. Nothing \in Json /\ Nothing.type = "object"
  BY <1>2, ObjectMade DEF Nothing, Json
<1>. QED
  BY <1>1, <1>3

LEMMA FetchTyped ==
    ASSUME NEW K, NEW x \in JsonOf(K, Texts), x.type = "object", NEW key
    PROVE  Fetch(x, key) \in Nested(K, Texts)[MaxNesting - 1]
<1> DEFINE V == Nested(K, Texts)[MaxNesting - 1]
           found == {i \in DOMAIN x.fields : x.fields[i].key = key}
<1>1. x.fields \in Seq([key : K, value : V])
  BY ObjectOf DEF IsObject
<1>2. MaxNesting - 1 \in 0..MaxNesting
  BY LimitsPositive
<1>3. Null \in V
  BY <1>2, NestedMade
<1> HIDE DEF V
<1>4. \A i \in found : x.fields[i].value \in V
  <2>1. \A i \in found : i \in 1..Len(x.fields)
    BY <1>1
  <2>. QED
    BY <1>1, <2>1, FieldAt
<1>5. Fetch(x, key) = IF found = {} THEN Null ELSE x.fields[CHOOSE i \in found : TRUE].value
  BY DEF Fetch
<1> HIDE DEF found
<1>6. found # {} => (CHOOSE i \in found : TRUE) \in found
  OBVIOUS
<1>7. Fetch(x, key) \in V
  BY <1>3, <1>4, <1>5, <1>6
<1>. QED
  BY <1>7 DEF V

LEMMA DeliveredTyped ==
    ASSUME NEW K, NEW x \in JsonOf(K, Texts), x.type = "object", <<"n">> \in K
    PROVE  /\ Object(<<Field(<<"n">>, Fetch(x, <<"n">>))>>) \in JsonOf(K, Texts)
           /\ Object(<<Field(<<"n">>, Fetch(x, <<"n">>))>>).type = "object"
<1> DEFINE V == Nested(K, Texts)[MaxNesting - 1]
           k == <<"n">>
           v == Fetch(x, k)
           F == [key : K, value : V]
<1>1. v \in V
  BY FetchTyped
<1> HIDE DEF v, k, V
<1>2. Field(k, v) \in F
  BY <1>1 DEF Field, k
<1> HIDE DEF F
<1>3. <<Field(k, v)>> \in Seq(F)
  BY <1>2
<1>4. Object(<<Field(k, v)>>) \in JsonOf(K, Texts) /\ Object(<<Field(k, v)>>).type = "object"
  BY <1>3, ObjectMade DEF F, V
<1>. QED
  BY <1>4 DEF v, k

\* How a handler ends.
Ends(data) ==
    /\ first' \in Seq(Json) /\ Len(first') <= 1 /\ \A i \in DOMAIN first' : first'[i].type = "object"
    /\ seen' = stores /\ stores' = {known}
    /\ \/ first' = <<>> /\ ~Fits(data) /\ Fail(<<>>)
       \/ first' # <<>> /\ Fits(data) /\ stage' = "handled" /\ out' = out
    /\ first' # <<>> => first'[1] \in JsonOf(Free(Always(stores)), Free(Always(stores)))
    /\ \A K \in SUBSET Credentials :
          data \in JsonOf(Short, Texts) /\ first' # <<>> /\ stores = {K} =>
             PublicResult(first'[1], Steady(K)) \in {<<>>, first'}

LEMMA ConcludeEnds ==
    ASSUME TypeOK, NEW data \in Json, data.type = "object", Conclude(data)
    PROVE  Ends(data)
<1>1. PICK L \in Lookups(data, stores) : first' = PublicResult(data, L)
  BY DEF Conclude
<1>2. seen' = stores /\ stores' = {known}
  BY DEF Conclude
<1>3. first' = <<>> <=> ~Fits(data)
  BY <1>1, RefusedUnlessFits
<1> DEFINE A == Always(stores)
<1>4. first' # <<>> => \E v \in JsonOf(Free(A), Free(A)) : v.type = "object" /\ first' = <<v>>
  <2>1. PassHides(L, {}, {} \cup A)
    BY LookupsHide DEF TypeOK
  <2>2. {} \cup A = A
    OBVIOUS
  <2>3. data \in JsonOf(Free({}), Free({}))
    BY DEF Free, Json
  <2> HIDE DEF A
  <2>4. PassHides(L, {}, A)
    BY <2>1, <2>2
  <2>. QED
    BY <1>1, <2>3, <2>4, PublicResultFree
<1>5. JsonOf(Free(A), Free(A)) \subseteq Json
  BY FreeTexts
<1>6. /\ first' \in Seq(Json) /\ Len(first') <= 1 /\ \A i \in DOMAIN first' : first'[i].type = "object"
      /\ first' # <<>> => first'[1] \in JsonOf(Free(A), Free(A))
  <2> HIDE DEF A
  <2>1. CASE first' = <<>>
    BY <2>1
  <2>2. CASE first' # <<>>
    <3>1. PICK v \in JsonOf(Free(A), Free(A)) : v.type = "object" /\ first' = <<v>>
      BY <1>4, <2>2
    <3>2. v \in Json
      BY <1>5, <3>1
    <3>. QED
      BY <3>1, <3>2
  <2>. QED
    BY <2>1, <2>2
<1>7. ASSUME NEW K \in SUBSET Credentials, data \in JsonOf(Short, Texts), first' # <<>>, stores = {K}
      PROVE  PublicResult(first'[1], Steady(K)) \in {<<>>, first'}
  <2>1. IsFiniteSet(K) /\ \A s \in K : IsSecret(s)
    BY SecretsOf
  <2>2. first' = PublicResult(data, Steady(K))
    BY <1>1, <1>7, LookupsSteady
  <2>. QED
    BY <1>7, <2>1, <2>2, SecondPass
<1>. QED
  BY <1>2, <1>3, <1>6, <1>7 DEF Ends, Conclude

LEMMA FailReports ==
    ASSUME NEW t \in Texts, Fail(t)
    PROVE  /\ stage' = "failed" /\ out' \in Seq(Json) /\ Len(out') = 1 /\ out' # <<>>
           /\ out'[1].type = "text" /\ out'[1].text = t
<1>1. stage' = "failed" /\ out' = <<Text(t)>>
  BY DEF Fail
<1> DEFINE v == Text(t)
<1>2. v \in Json /\ v.type = "text" /\ v.text = t
  BY TextJson
<1> HIDE DEF v
<1>3. <<v>> \in Seq(Json) /\ Len(<<v>>) = 1 /\ <<v>> # <<>> /\ <<v>>[1] = v
  BY <1>2
<1>. QED
  BY <1>1, <1>2, <1>3 DEF v

\* A call that is not over, and has no result yet, has nothing to show.
LEMMA Underway ==
    ASSUME stage' \in {"idle", "sent", "received", "remembered"}, first' = <<>>
    PROVE  ErrorFree' /\ FirstFree' /\ NoSecretEscapes' /\ RefusedExactly' /\ Twice'
BY DEF ErrorFree, FirstFree, NoSecretEscapes, RefusedExactly, Twice

\* An error that tells nothing of the session.
LEMMA EmptyError ==
    ASSUME Fail(<<>>)
    PROVE  ErrorFree' /\ NoSecretEscapes'
<1>1. <<>> \in Texts
  BY DEF Texts
<1>2. stage' = "failed" /\ out'[1].type = "text" /\ out'[1].text = <<>>
  BY <1>1, FailReports
<1>4. <<>> \in Free(Always(seen'))
  BY AlwaysCredentials, SecretsOf, EmptyFree
<1>5. Free(Always(seen))' = Free(Always(seen'))
  BY DEF Free, Always
<1>. QED
  BY <1>2, <1>4, <1>5 DEF ErrorFree, NoSecretEscapes

\* A handler that ends with public_result(data).
LEMMA Handled ==
    ASSUME ReplyInv, stage \in {"received", "remembered"}, NEW data \in Json, data.type = "object", Ends(data),
           handler = "state" => data = reply,
           reply \in JsonOf(Short, Texts) => data \in JsonOf(Short, Texts),
           UNCHANGED <<handler, known, bearer, reply>>
    PROVE  ReplyInv'
<1>1. TypeOK /\ TypeOK'
  <2>1. CASE Fail(<<>>)
    <3>1. <<>> \in Texts
      BY DEF Texts
    <3>2. stage' = "failed" /\ out' \in Seq(Json) /\ Len(out') = 1
      BY <2>1, <3>1, FailReports
    <3>. QED
      BY <3>2 DEF ReplyInv, TypeOK, Ends
  <2>2. CASE stage' = "handled" /\ out' = out
    BY <2>2 DEF ReplyInv, TypeOK, Ends
  <2>. QED
    BY <2>1, <2>2 DEF Ends
<1>2. CASE first' = <<>> /\ ~Fits(data) /\ Fail(<<>>)
  <2>1. ErrorFree' /\ NoSecretEscapes'
    BY <1>2, EmptyError
  <2>2. stage' = "failed" /\ out' # <<>>
    <3>1. <<>> \in Texts
      BY DEF Texts
    <3>. QED
      BY <1>2, <3>1, FailReports
  <2>3. Staged'
    BY <1>2, <2>2 DEF Staged
  <2>4. RefusedExactly'
    <3>1. handler' = "state" => ~Fits(reply')
      BY <1>2
    <3>2. Fits(reply)' = Fits(reply')
      BY DEF Fits
    <3>. QED
      BY <2>2, <3>1, <3>2 DEF RefusedExactly
  <2>5. FirstFree' /\ Twice'
    BY <1>2, <2>2 DEF FirstFree, Twice
  <2>. QED
    BY <1>1, <2>1, <2>3, <2>4, <2>5 DEF ReplyInv
<1>3. CASE first' # <<>> /\ Fits(data) /\ stage' = "handled" /\ out' = out
  <2>1. ErrorFree' /\ NoSecretEscapes' /\ Staged'
    BY <1>3 DEF ErrorFree, NoSecretEscapes, Staged
  <2>2. RefusedExactly'
    <3>1. handler' = "state" => Fits(reply')
      BY <1>3
    <3>2. Fits(reply)' = Fits(reply')
      BY DEF Fits
    <3>. QED
      BY <1>3, <3>1, <3>2 DEF RefusedExactly
  <2>3. Twice'
    <3>1. \A K \in SUBSET Credentials :
             reply' \in JsonOf(Short, Texts) /\ seen' = {K} =>
                PublicResult(first'[1], Steady(K)) \in {<<>>, first'}
      BY <1>3 DEF Ends
    <3>2. \A K : PublicResult(first[1], Steady(K))' = PublicResult(first'[1], Steady(K))
      BY DEF PublicResult
    <3>. QED
      BY <1>3, <3>1, <3>2 DEF Twice
  <2>4. FirstFree'
    <3>1. first'[1] \in JsonOf(Free(Always(seen')), Free(Always(seen')))
      BY <1>3 DEF Ends
    <3>2. JsonOf(Free(Always(seen)), Free(Always(seen)))' = JsonOf(Free(Always(seen')), Free(Always(seen')))
      BY DEF JsonOf, Free, Always
    <3>. QED
      BY <3>1, <3>2 DEF FirstFree
  <2>. QED
    BY <1>1, <2>1, <2>2, <2>3, <2>4 DEF ReplyInv
<1>. QED
  BY <1>2, <1>3 DEF Ends

\* A call that fails without a result: what it was sent, if it was, is unread.
LEMMA FailsEarly ==
    ASSUME ReplyInv, Fail(<<>>), stage \in {"idle", "sent", "received"},
           stage = "received" => handler = "deliver",
           handler' \in {"deliver", "state"}, stage # "idle" => handler' = handler,
           UNCHANGED <<known, bearer, reply, first, seen, stores>>
    PROVE  ReplyInv'
<1>1. <<>> \in Texts
  BY DEF Texts
<1>2. stage' = "failed" /\ out' \in Seq(Json) /\ Len(out') = 1 /\ out' # <<>>
  BY <1>1, FailReports
<1>3. TypeOK'
  BY <1>2 DEF ReplyInv, TypeOK
<1>4. first' = <<>>
  BY DEF ReplyInv, Staged
<1>5. Staged'
  BY <1>2, <1>4 DEF Staged
<1>6. ErrorFree' /\ NoSecretEscapes'
  BY EmptyError
<1>7. RefusedExactly'
  BY <1>2 DEF ReplyInv, Staged, RefusedExactly
<1>8. FirstFree' /\ Twice'
  BY <1>2, <1>4 DEF FirstFree, Twice
<1>. QED
  BY <1>3, <1>5, <1>6, <1>7, <1>8 DEF ReplyInv

LEMMA ReplyInit ==
    Init => ReplyInv
<1> SUFFICES ASSUME Init PROVE ReplyInv
  OBVIOUS
<1>1. TypeOK
  <2>1. first \in Seq(Json) /\ Len(first) = 0 /\ out \in Seq(Json) /\ Len(out) = 0
    BY DEF Init
  <2>. QED
    BY <2>1 DEF Init, TypeOK
<1>. QED
  BY <1>1 DEF Init, ReplyInv, Staged, ErrorFree, FirstFree, NoSecretEscapes, RefusedExactly, Twice

\* An error of the service loses the bearer and what the session knows.
LEMMA HttpErrorStep ==
    ASSUME ReplyInv, NEW t \in ErrorTexts, HttpError(t)
    PROVE  ReplyInv'
<1> DEFINE S == known \cup ({bearer} \ {<<>>})
           cut == Cut(t, MaxKey)
           h == Redact(cut, S)
<1>1. S \subseteq Credentials
  BY DEF ReplyInv, TypeOK
<1>2. IsFiniteSet(S) /\ \A s \in S : IsSecret(s)
  BY <1>1, SecretsOf
<1>3. cut \in Texts
  BY InputsAssumption, LimitsPositive, CutTyped
<1>4. h \in Texts /\ h \in Free(S)
  BY <1>2, <1>3, RedactHides DEF Stems
<1>6. stage = "sent" /\ Fail(h) /\ seen' = {S} /\ UNCHANGED <<handler, known, bearer, reply, first, stores>>
  BY DEF HttpError
<1> HIDE DEF h, S
<1>7. stage' = "failed" /\ out' \in Seq(Json) /\ Len(out') = 1 /\ out' # <<>>
      /\ out'[1].type = "text" /\ out'[1].text = h
  BY <1>4, <1>6, FailReports
<1>8. first' = <<>> /\ reply' = Nothing
  BY <1>6 DEF ReplyInv, Staged
<1>9. TypeOK'
  BY <1>1, <1>6, <1>7 DEF ReplyInv, TypeOK
<1>10. Staged'
  BY <1>7, <1>8 DEF Staged
<1>11. ErrorFree'
  <2>1. Always(seen') \subseteq S
    BY <1>6 DEF Always
  <2>2. h \in Free(Always(seen'))
    BY <1>4, <2>1 DEF Free
  <2>3. Free(Always(seen))' = Free(Always(seen'))
    BY DEF Free, Always
  <2>. QED
    BY <1>7, <2>2, <2>3 DEF ErrorFree
<1>12. FirstFree' /\ NoSecretEscapes' /\ Twice'
  BY <1>7, <1>8 DEF FirstFree, NoSecretEscapes, Twice
<1>13. RefusedExactly'
  BY <1>7, <1>8 DEF RefusedExactly
<1>. QED
  BY <1>9, <1>10, <1>11, <1>12, <1>13 DEF ReplyInv

\* What the host gets of a result is free of what either pass has hidden.
LEMMA FinishStep ==
    ASSUME ReplyInv, Finish
    PROVE  ReplyInv'
<1>0. PICK L \in Lookups(first[1], stores) :
         IF PublicResult(first[1], L) = <<>> THEN Fail(<<>>)
         ELSE stage' = "done" /\ out' = PublicResult(first[1], L)
  BY DEF Finish
<1> DEFINE again == PublicResult(first[1], L)
           A == Always(seen)
           C == A \cup Always(stores)
<1>1. stage = "handled" /\ UNCHANGED <<handler, known, bearer, reply, first, seen, stores>>
  BY DEF Finish
<1>2. first # <<>> /\ first[1] \in Json /\ first[1].type = "object"
  <2>1. first \in Seq(Json) /\ first # <<>> /\ \A i \in DOMAIN first : first[i].type = "object"
    BY <1>1 DEF ReplyInv, TypeOK, Staged
  <2>2. 1 \in DOMAIN first
    BY <2>1
  <2>. QED
    BY <2>1, <2>2
<1>3. PassHides(L, A, C)
  <2>1. stores \subseteq SUBSET Credentials /\ A \subseteq Credentials
    BY AlwaysCredentials DEF ReplyInv, TypeOK
  <2> HIDE DEF A
  <2>. QED
    BY <2>1, LookupsHide
<1>4. again = <<>> <=> ~Fits(first[1])
  BY <1>2, RefusedUnlessFits
<1>5. again # <<>> => \E v \in JsonOf(Free(C), Free(C)) : v.type = "object" /\ again = <<v>>
  <2>1. first[1] \in JsonOf(Free(A), Free(A))
    BY <1>2 DEF ReplyInv, FirstFree
  <2> HIDE DEF A, C
  <2>. QED
    BY <1>2, <1>3, <2>1, PublicResultFree
<1>6. IF again = <<>> THEN Fail(<<>>) ELSE stage' = "done" /\ out' = again
  BY <1>0
<1>7. FirstFree'
  <2>1. JsonOf(Free(Always(seen)), Free(Always(seen)))' = JsonOf(Free(Always(seen')), Free(Always(seen')))
    BY DEF JsonOf, Free, Always
  <2>. QED
    BY <1>1, <2>1 DEF ReplyInv, FirstFree
<1>8. \A K \in SUBSET Credentials :
         reply' \in JsonOf(Short, Texts) /\ seen' = {K} =>
            PublicResult(first[1], Steady(K))' \in {<<>>, first'}
  <2>1. \A K : PublicResult(first[1], Steady(K))' = PublicResult(first'[1], Steady(K))
    BY DEF PublicResult
  <2>. QED
    BY <1>1, <1>2, <2>1 DEF ReplyInv, Twice
<1>9. ASSUME NEW K \in SUBSET Credentials, stores' = {K}
      PROVE  again = PublicResult(first[1], Steady(K))'
  <2>1. L = Steady(K)
    BY <1>1, <1>9, LookupsSteady
  <2>2. PublicResult(first[1], Steady(K))' = PublicResult(first'[1], Steady(K))
    BY DEF PublicResult
  <2>. QED
    BY <1>1, <2>1, <2>2
<1> HIDE DEF again
<1>10. CASE again = <<>>
  <2>1. <<>> \in Texts
    BY DEF Texts
  <2>2. Fail(<<>>)
    BY <1>6, <1>10
  <2>3. stage' = "failed" /\ out' \in Seq(Json) /\ Len(out') = 1 /\ out' # <<>>
    BY <2>1, <2>2, FailReports
  <2>4. TypeOK'
    BY <1>1, <2>3 DEF ReplyInv, TypeOK
  <2>5. ErrorFree' /\ NoSecretEscapes'
    BY <2>2, EmptyError
  <2>6. Staged' /\ RefusedExactly'
    BY <1>1, <1>2, <2>3 DEF Staged, RefusedExactly
  <2>7. Twice'
    <3>1. ~Fits(first'[1])
      BY <1>1, <1>4, <1>10
    <3>2. Fits(first[1])' = Fits(first'[1])
      BY DEF Fits
    <3>. QED
      BY <1>8, <2>3, <3>1, <3>2 DEF Twice
  <2>. QED
    BY <1>7, <2>4, <2>5, <2>6, <2>7 DEF ReplyInv
<1>11. CASE again # <<>>
  <2>1. PICK v \in JsonOf(Free(C), Free(C)) : v.type = "object" /\ again = <<v>>
    BY <1>5, <1>11
  <2>2. stage' = "done" /\ out' = <<v>> /\ out'[1] = v /\ out' # <<>>
    <3>1. stage' = "done" /\ out' = again
      BY ONLY <1>6, <1>11, Zenon
    <3>2. out' = <<v>>
      BY ONLY <3>1, <2>1, Zenon
    <3>3. out'[1] = v /\ out' # <<>>
      BY ONLY <3>2
    <3>. QED
      BY ONLY <3>1, <3>2, <3>3, Zenon
  <2>3. v \in Json
    <3> HIDE DEF C
    <3>. QED
      BY <2>1, FreeTexts
  <2>4. out' \in Seq(Json) /\ Len(out') = 1
    BY <2>2, <2>3
  <2>5. TypeOK'
    BY <1>1, <2>2, <2>4 DEF ReplyInv, TypeOK
  <2>6. Staged' /\ RefusedExactly' /\ ErrorFree'
    BY <1>1, <1>2, <2>2 DEF Staged, RefusedExactly, ErrorFree
  <2>7. NoSecretEscapes'
    <3>1. (Always(seen) \cup Always(stores))' = C
      BY <1>1 DEF Always
    <3>2. out'[1] \in JsonOf(Free(C), Free(C))
      BY <2>1, <2>2
    <3>3. JsonOf(Free(Always(seen) \cup Always(stores)), Free(Always(seen) \cup Always(stores)))'
            = JsonOf(Free(C), Free(C))
      BY <3>1 DEF JsonOf, Free
    <3> HIDE DEF C
    <3>. QED
      BY <3>2, <3>3 DEF NoSecretEscapes
  <2>8. Twice'
    BY <1>6, <1>8, <1>9, <1>11, <2>2 DEF Twice
  <2>. QED
    BY <1>7, <2>5, <2>6, <2>7, <2>8 DEF ReplyInv
<1>. QED
  BY <1>10, <1>11

\* An error that goes to the host is free of what the session knows by then,
\* and still of what was hidden in it before.
LEMMA ReportStep ==
    ASSUME ReplyInv, Report
    PROVE  ReplyInv'
<1> DEFINE t == out[1].text
           h == Redact(t, known)
           A == Always(seen)
           C == A \cup known
<1>1. stage = "failed" /\ stage' = "done" /\ out' = <<Text(h)>> /\ stores' = {known}
      /\ UNCHANGED <<handler, known, bearer, reply, first, seen>>
  BY DEF Report
<1>2. t \in Free(A)
  BY <1>1 DEF ReplyInv, ErrorFree
<1>3. known \subseteq Credentials /\ A \subseteq Credentials
  BY AlwaysCredentials DEF ReplyInv, TypeOK
<1> HIDE DEF t, A
<1>4. Hides(known, A, C)
  <2>1. A \cup known \subseteq Credentials
    BY <1>3
  <2>2. IsFiniteSet(known) /\ \A s \in A \cup known : IsSecret(s)
    BY <1>3, <2>1, SecretsOf
  <2>. QED
    BY <2>2 DEF Hides
<1>5. h \in Free(C) /\ h \in Texts
  <2> HIDE DEF C
  <2>1. h \in Free(C)
    BY <1>2, <1>4, RedactFrees
  <2>. QED
    BY <2>1 DEF Free
<1> HIDE DEF h
<1> DEFINE v == Text(h)
<1>6. v \in Json /\ v.type = "text"
  BY <1>5, TextJson
<1>7. v \in JsonOf(Free(C), Free(C))
  <2>1. MaxNesting \in 0..MaxNesting
    BY LimitsPositive
  <2> HIDE DEF C
  <2>. QED
    BY <1>5, <2>1, NestedMade DEF JsonOf
<1>8. out' = <<v>> /\ out'[1] = v /\ out' # <<>> /\ out'[1].type = "text"
  BY <1>1, <1>6
<1> HIDE DEF v
<1>9. out' \in Seq(Json) /\ Len(out') = 1
  BY <1>6, <1>8
<1>10. TypeOK'
  BY <1>1, <1>3, <1>9 DEF ReplyInv, TypeOK
<1>11. Staged' /\ ErrorFree' /\ RefusedExactly'
  BY <1>1, <1>8 DEF ReplyInv, Staged, ErrorFree, RefusedExactly
<1>12. NoSecretEscapes'
  <2>1. Always(stores') \subseteq known
    BY <1>1 DEF Always
  <2>2. (Always(seen) \cup Always(stores))' \subseteq C
    BY <1>1, <2>1 DEF A, Always
  <2> DEFINE D == (Always(seen) \cup Always(stores))'
  <2> HIDE DEF D
  <2>3. Free(C) \subseteq Free(D)
    BY <2>2 DEF Free, D
  <2>4. out'[1] \in JsonOf(Free(D), Free(D))
    <3>1. JsonOf(Free(C), Free(C)) \subseteq JsonOf(Free(D), Free(D))
      BY <2>3, JsonMonotone
    <3>. QED
      BY <1>7, <1>8, <3>1
  <2>5. JsonOf(Free(Always(seen) \cup Always(stores)), Free(Always(seen) \cup Always(stores)))'
          = JsonOf(Free(D), Free(D))
    BY DEF JsonOf, Free, D
  <2>. QED
    BY <2>4, <2>5 DEF NoSecretEscapes
<1>13. Twice' /\ FirstFree'
  <2>1. \A K : PublicResult(first[1], Steady(K))' = PublicResult(first'[1], Steady(K))
    BY DEF PublicResult
  <2>2. \A K \in SUBSET Credentials :
           first' # <<>> /\ reply' \in JsonOf(Short, Texts) /\ seen' = {K} =>
              PublicResult(first[1], Steady(K))' \in {<<>>, first'}
    BY <1>1, <2>1 DEF ReplyInv, Twice
  <2>3. Twice'
    BY <1>1, <1>8, <2>2 DEF Twice
  <2>4. JsonOf(Free(Always(seen)), Free(Always(seen)))' = JsonOf(Free(Always(seen')), Free(Always(seen')))
    BY DEF JsonOf, Free, Always
  <2>. QED
    BY <1>1, <2>3, <2>4 DEF ReplyInv, FirstFree
<1>. QED
  BY <1>10, <1>11, <1>12, <1>13 DEF ReplyInv

\* Another call changes what the session knows, and nothing of this one.
LEMMA OtherCallStep ==
    ASSUME ReplyInv, NEW d \in known \cup {<<>>}, NEW c \in Credentials \cup {<<>>}, OtherCall(d, c)
    PROVE  ReplyInv'
<1>1. /\ stage # "done" /\ UNCHANGED <<stage, handler, bearer, reply, first, seen, out>>
      /\ known' = (known \ {d}) \cup ({c} \ {<<>>})
      /\ stores' \in {stores, stores \cup {known'}}
  BY DEF OtherCall
<1>2. TypeOK'
  <2>1. known' \subseteq Credentials
    BY <1>1 DEF ReplyInv, TypeOK
  <2>2. stores' \subseteq SUBSET Credentials
    BY <1>1, <2>1 DEF ReplyInv, TypeOK
  <2>. QED
    BY <1>1, <2>1, <2>2 DEF ReplyInv, TypeOK
<1>3. Staged' /\ RefusedExactly' /\ NoSecretEscapes'
  BY <1>1 DEF ReplyInv, Staged, RefusedExactly, Fits, NoSecretEscapes
<1>4. ErrorFree' /\ FirstFree'
  <2>1. Always(seen)' = Always(seen)
    BY <1>1 DEF Always
  <2>2. Free(Always(seen))' = Free(Always(seen))
    BY <2>1 DEF Free
  <2>3. JsonOf(Free(Always(seen)), Free(Always(seen)))' = JsonOf(Free(Always(seen)), Free(Always(seen)))
    BY <2>2 DEF JsonOf
  <2>. QED
    BY <1>1, <2>2, <2>3 DEF ReplyInv, ErrorFree, FirstFree
<1>5. Twice'
  BY <1>1 DEF ReplyInv, Twice, Fits, PublicResult
<1>. QED
  BY <1>2, <1>3, <1>4, <1>5 DEF ReplyInv

LEMMA ReplyStep ==
    ReplyInv /\ [Next]_vars => ReplyInv'
<1> SUFFICES ASSUME ReplyInv, [Next]_vars PROVE ReplyInv'
  OBVIOUS
<1> DEFINE delivered == Object(<<Field(<<"n">>, Fetch(reply, <<"n">>))>>)
<1>0. reply \in Json /\ reply.type = "object"
  <2>1. reply \in Replies \cup {Nothing}
    BY DEF ReplyInv, TypeOK
  <2>. QED
    BY <2>1, ReplyObject
<1>1. ASSUME NEW h \in {"deliver", "state"}, NEW t \in Arguments, SendRefused(h, t)
      PROVE  ReplyInv'
  BY <1>1, FailsEarly DEF SendRefused
<1>2. ASSUME NEW h \in {"deliver", "state"}, NEW t \in Arguments, NEW b \in known \cup {<<>>},
             Send(h, t, b)
      PROVE  ReplyInv'
  <2>1. first' = <<>> /\ stage' = "sent"
    BY <1>2 DEF Send, ReplyInv, Staged
  <2>2. TypeOK' /\ Staged'
    BY <1>2, <2>1 DEF Send, ReplyInv, TypeOK, Staged
  <2>. QED
    BY <2>1, <2>2, Underway DEF ReplyInv
<1>3. ASSUME NEW d \in known \cup {<<>>}, NEW c \in Credentials \cup {<<>>}, OtherCall(d, c)
      PROVE  ReplyInv'
  BY <1>3, OtherCallStep
<1>4. ASSUME NEW v \in Replies \cup {Nothing}, Receive(v) PROVE ReplyInv'
  <2>1. first' = <<>> /\ stage' = "received"
    BY <1>4 DEF Receive, ReplyInv, Staged
  <2>2. TypeOK' /\ Staged'
    BY <1>4, <2>1 DEF Receive, ReplyInv, TypeOK, Staged
  <2>. QED
    BY <2>1, <2>2, Underway DEF ReplyInv
<1>5. ASSUME NEW t \in ErrorTexts, HttpError(t) PROVE ReplyInv'
  BY <1>5, HttpErrorStep
<1>6. CASE ReceiveFails
  BY <1>6, FailsEarly DEF ReceiveFails, ReplyInv, TypeOK
<1>7. CASE Forward
  <2>1. stage = "received" /\ handler = "state" /\ Conclude(reply)
        /\ UNCHANGED <<handler, known, bearer, reply>>
    BY <1>7 DEF Forward
  <2>2. Ends(reply)
    BY <1>0, <2>1, ConcludeEnds DEF ReplyInv
  <2>. QED
    BY <1>0, <2>1, <2>2, Handled
<1>8. ASSUME NEW d, Remember(d) PROVE ReplyInv'
  <2>1. Fetch(reply, <<"T">>).text \in Credentials
    <3>1. Accepts(Fetch(reply, <<"T">>))
      BY <1>8 DEF Remember
    <3>2. reply # Nothing
      <4>1. Nothing.fields = <<>>
        BY DEF Nothing, Object
      <4>2. Fetch(Nothing, <<"T">>) = Null
        BY <4>1 DEF Fetch
      <4>3. ~Accepts(Null)
        BY DEF Accepts, Null
      <4>. QED
        BY <3>1, <4>2, <4>3
    <3>3. reply \in Replies
      BY <3>2 DEF ReplyInv, TypeOK
    <3>. QED
      BY <3>1, <3>3, CredentialsAssumption
  <2>2. first' = <<>> /\ stage' = "remembered"
    BY <1>8 DEF Remember, ReplyInv, Staged
  <2>3. TypeOK' /\ Staged'
    BY <1>8, <2>1, <2>2 DEF Remember, ReplyInv, TypeOK, Staged
  <2>. QED
    BY <2>2, <2>3, Underway DEF ReplyInv
<1>9. CASE Deliver
  <2>1. stage = "remembered" /\ handler = "deliver" /\ Conclude(delivered)
        /\ UNCHANGED <<handler, known, bearer, reply>>
    BY <1>9 DEF Deliver, ReplyInv, Staged
  <2>2. <<"n">> \in Texts /\ <<"n">> \in Short
    <3>1. <<"n">> \in Texts /\ Len(<<"n">>) = 1
      BY InputsAssumption DEF Texts
    <3>. QED
      BY <3>1, LimitsPositive DEF Short
  <2>3. delivered \in Json /\ delivered.type = "object"
    BY <1>0, <2>2, DeliveredTyped DEF Json
  <2>4. reply \in JsonOf(Short, Texts) => delivered \in JsonOf(Short, Texts)
    BY <1>0, <2>2, DeliveredTyped
  <2> HIDE DEF delivered
  <2>5. Ends(delivered)
    BY <2>1, <2>3, ConcludeEnds DEF ReplyInv
  <2>. QED
    BY <2>1, <2>3, <2>4, <2>5, Handled
<1>10. CASE DeliverRefused
  BY <1>10, FailsEarly DEF DeliverRefused, ReplyInv, TypeOK
<1>11. CASE Finish
  BY <1>11, FinishStep
<1>12. CASE Report
  BY <1>12, ReportStep
<1>13. CASE Return
  <2>1. first' = <<>> /\ stage' = "idle"
    BY <1>13 DEF Return
  <2>2. first' \in Seq(Json) /\ Len(first') = 0 /\ out' \in Seq(Json) /\ Len(out') = 0
    BY <1>13 DEF Return
  <2>3. TypeOK' /\ Staged'
    BY <1>13, <2>1, <2>2 DEF Return, ReplyInv, TypeOK, Staged
  <2>. QED
    BY <2>1, <2>3, Underway DEF ReplyInv
<1>14. CASE UNCHANGED vars
  <2>1. TypeOK' /\ Staged' /\ ErrorFree' /\ NoSecretEscapes'
    BY <1>14 DEF vars, ReplyInv, TypeOK, Staged, ErrorFree, Always, NoSecretEscapes
  <2>2. RefusedExactly' /\ FirstFree' /\ Twice'
    BY <1>14 DEF vars, ReplyInv, RefusedExactly, FirstFree, Always, Twice, Fits
  <2>. QED
    BY <2>1, <2>2 DEF ReplyInv
<1>. QED
  BY <1>1, <1>2, <1>3, <1>4, <1>5, <1>6, <1>7, <1>8, <1>9, <1>10, <1>11, <1>12, <1>13, <1>14 DEF Next

LEMMA ReplyInvariant ==
    Spec => []ReplyInv
BY ReplyInit, ReplyStep, PTL DEF Spec

\* The variables keep their types: what a session knows are credentials that
\* _credential accepted, and results and what the host gets are JSON values.
THEOREM ReplyTypeCorrect ==
    Spec => []TypeOK
<1>1. ReplyInv => TypeOK
  BY DEF ReplyInv
<1>. QED
  BY <1>1, ReplyInvariant, PTL

\* public_result and _error_result: no text and no key that the host gets has a
\* credential in it, as it is or quoted, that the session knew all through the
\* handler's pass or all through invoke_tool's, or that the request of an error
\* had for its bearer, however other calls change the store.
THEOREM SecretsStayInside ==
    Spec => []NoSecretEscapes
<1>1. ReplyInv => NoSecretEscapes
  BY DEF ReplyInv
<1>. QED
  BY <1>1, ReplyInvariant, PTL

\* sanitize_public: the visit, on one budget of nodes, refuses a reply when it
\* breaks a limit, and only then.
THEOREM RefusalExact ==
    Spec => []RefusedExactly
<1>1. ReplyInv => RefusedExactly
  BY DEF ReplyInv
<1>. QED
  BY <1>1, ReplyInvariant, PTL

\* invoke_tool's pass over a result, after the handler's: it changes nothing,
\* unless a key was cut, and refuses a result only for what the notice adds.
THEOREM SecondPassChangesNothing ==
    Spec => []SecondPassAgrees
<1>1. ReplyInv => SecondPassAgrees
  <2> SUFFICES ASSUME ReplyInv, first # <<>>
               PROVE  /\ stage = "done" /\ out[1].type = "object" /\ seen = {known} /\ stores = {known} =>
                            out = first \/ reply \notin JsonOf(Short, Texts)
                      /\ stage = "failed" => ~Fits(first[1])
    BY DEF SecondPassAgrees
  <2>1. ASSUME stage = "done", out[1].type = "object", seen = {known}, stores = {known},
               reply \in JsonOf(Short, Texts)
        PROVE  out = first
    <3>1. known \in SUBSET Credentials
      BY DEF ReplyInv, TypeOK
    <3>2. out = PublicResult(first[1], Steady(known)) /\ out # <<>>
      BY <2>1, <3>1 DEF ReplyInv, Twice, Staged
    <3>3. PublicResult(first[1], Steady(known)) \in {<<>>, first}
      BY <2>1, <3>1 DEF ReplyInv, Twice
    <3>. QED
      BY <3>2, <3>3
  <2>2. stage = "failed" => ~Fits(first[1])
    BY DEF ReplyInv, Twice
  <2>. QED
    BY <2>1, <2>2
<1>. QED
  BY <1>1, ReplyInvariant, PTL
===============================================================================
