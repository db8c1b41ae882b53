----------------------------- MODULE SumTheorems -----------------------------
(***************************************************************************)
(* Induction over finite sets and natural numbers, and sums over finite     *)
(* sets.  The rules speak of sets, not of operators: what an induction is to *)
(* show of every set is that it is a member of C.                           *)
(***************************************************************************)
EXTENDS SequencesExt, FiniteSetTheorems, SequenceTheorems, TLAPS

----------------------------------------------------------------------------
(* Induction *)

\* What a set has as soon as all its proper subsets have it, a finite set has.
LEMMA SubsetInduction ==
  ASSUME NEW S, IsFiniteSet(S), NEW C,
         \A T \in SUBSET S : (\A U \in SUBSET T : U # T => U \in C) => T \in C
  PROVE  S \in C
<1> SUFFICES ASSUME S \notin C PROVE FALSE
  OBVIOUS
<1> DEFINE B == {T \in SUBSET S : T \notin C}
           R == StrictSubsetOrdering(S)
<1>1. IsWellFoundedOn(R, SUBSET S)
  <2>1. FiniteSubsetsOf(S) = SUBSET S
    BY FS_FiniteSubsetsOfFinite
  <2>2. IsWellFoundedOn(R, FiniteSubsetsOf(S))
    BY FS_StrictSubsetOrderingWellFounded
  <2> QED
    BY <2>1, <2>2
<1>2. B \subseteq SUBSET S /\ B # {}
  OBVIOUS
<1>3. PICK T \in B : \A U \in B : ~ (<<U, T>> \in R)
  <2> HIDE DEF B, R
  <2> QED
    BY <1>1, <1>2, WFMin
<1>4. \A U \in SUBSET T : U # T => U \in C
  BY <1>3 DEF StrictSubsetOrdering
<1> QED
  BY <1>4

LEMMA FiniteSetInduction ==
  ASSUME NEW S, IsFiniteSet(S), NEW C,
         {} \in C,
         \A T \in SUBSET S : \A x \in S \ T : T \in C => T \cup {x} \in C
  PROVE  S \in C
<1>1. ASSUME NEW T \in SUBSET S, \A U \in SUBSET T : U # T => U \in C
      PROVE  T \in C
  <2>1. CASE T = {}
    BY <2>1
  <2>2. CASE T # {}
    <3>1. PICK x \in T : TRUE
      BY <2>2
    <3>2. T \ {x} \in C /\ T = (T \ {x}) \cup {x}
      BY <1>1, <3>1
    <3> QED
      BY <3>1, <3>2
  <2> QED
    BY <2>1, <2>2
<1> QED
  BY <1>1, SubsetInduction

LEMMA NatSetInduction ==
  ASSUME NEW C, 0 \in C, \A n \in Nat : n \in C => n + 1 \in C
  PROVE  Nat \subseteq C
<1> SUFFICES ASSUME NEW n \in Nat PROVE n \in C
  OBVIOUS
<1> DEFINE S == 1..n
           D == {T \in SUBSET S : Cardinality(T) \in C}
<1>1. IsFiniteSet(S) /\ Cardinality(S) = n
  BY FS_Interval
<1>2. {} \in D
  BY FS_EmptySet
<1>3. ASSUME NEW T \in SUBSET S, NEW x \in S \ T, T \in D
      PROVE  T \cup {x} \in D
  <2>1. IsFiniteSet(T) /\ Cardinality(T) \in Nat
    BY <1>1, FS_Subset, FS_CardinalityType
  <2>2. Cardinality(T \cup {x}) = Cardinality(T) + 1
    BY <2>1, FS_AddElement
  <2> QED
    BY <1>3, <2>1, <2>2
<1>4. S \in D
  <2> HIDE DEF S, D
  <2> QED
    BY <1>1, <1>2, <1>3, FiniteSetInduction
<1> QED
  BY <1>1, <1>4

\* What grows, from nothing, by each element all parts of which are in it already,
\* comes to all of a finite set of which no part has only elements with parts in it.
MadeOfParts(S, parts) ==
  \A some \in (SUBSET S) \ {{}} : \E x \in some : parts[x] \cap some = {}
GrowsByParts(S, parts, C) ==
  \A T \in SUBSET S : \A x \in S \ T :
    T \in C /\ parts[x] \cap S \subseteq T => T \cup {x} \in C

LEMMA PartsInduction ==
  ASSUME NEW S, IsFiniteSet(S), NEW parts, NEW C,
         MadeOfParts(S, parts), {} \in C, GrowsByParts(S, parts, C)
  PROVE  S \in C
<1> DEFINE D == {T \in SUBSET S : S \ T \in C => S \in C}
<1>1. ASSUME NEW T \in SUBSET S, \A U \in SUBSET T : U # T => U \in D PROVE T \in D
  <2> SUFFICES ASSUME S \ T \in C PROVE S \in C
    OBVIOUS
  <2>1. CASE T = {}
    <3>1. S \ T = S
      BY <2>1
    <3> QED
      BY <3>1
  <2>2. CASE T # {}
    <3>1. PICK x \in T : parts[x] \cap T = {}
      BY <2>2 DEF MadeOfParts
    <3>2. (S \ T) \cup {x} \in C
      BY <3>1 DEF GrowsByParts
    <3>3. (S \ T) \cup {x} = S \ (T \ {x}) /\ T \ {x} \in SUBSET T /\ T \ {x} # T
      BY <3>1
    <3>4. T \ {x} \in D
      BY <1>1, <3>3
    <3> QED
      BY <3>2, <3>3, <3>4
  <2> QED
    BY <2>1, <2>2
<1>2. S \in D
  <2> HIDE DEF D
  <2> QED
    BY <1>1, SubsetInduction
<1>3. S \ S = {}
  OBVIOUS
<1> QED
  BY <1>2, <1>3

\* Recursion over the numbers up to n: step says what comes after each.
Recurs(f, n, base, step) ==
  f = [i \in 0..n |-> IF i = 0 THEN base ELSE step[i][f[i - 1]]]

LEMMA RecursionExists ==
  ASSUME NEW n \in Nat, NEW R, NEW base \in R, NEW step \in [1..n -> [R -> R]]
  PROVE  \E f \in [0..n -> R] : Recurs(f, n, base, step)
<1> DEFINE Value(g, i) == IF i = 0 THEN base ELSE step[i][g[i - 1]]
           C == {k \in Nat : k <= n => \E g \in [0..k -> R] :
                               g = [i \in 0..k |-> Value(g, i)]}
<1>1. 0 \in C
  <2> DEFINE g == [i \in 0..0 |-> base]
  <2>1. g \in [0..0 -> R] /\ g = [i \in 0..0 |-> Value(g, i)]
    OBVIOUS
  <2> QED
    BY <2>1
<1>2. ASSUME NEW k \in Nat, k \in C
      PROVE  k + 1 \in C
  <2> SUFFICES ASSUME k + 1 <= n
               PROVE  \E h \in [0..k + 1 -> R] : h = [i \in 0..k + 1 |-> Value(h, i)]
    OBVIOUS
  <2>1. PICK g \in [0..k -> R] : g = [i \in 0..k |-> Value(g, i)]
    BY <1>2
  <2> DEFINE h == [i \in 0..k + 1 |-> Value(g, i)]
  <2>2. \A i \in 0..k : h[i] = g[i]
    <3>1. \A i \in 0..k : g[i] = Value(g, i) /\ i \in 0..k + 1
      <4> HIDE DEF Value
      <4> QED
        BY <2>1
    <3> HIDE DEF Value
    <3> QED
      BY <3>1
  <2>3. \A i \in 0..k + 1 : i # 0 => i - 1 \in 0..k /\ i \in 1..n
    OBVIOUS
  <2>4. \A i \in 0..k + 1 : Value(h, i) = Value(g, i) /\ Value(g, i) \in R
    <3>1. \A i \in 0..k + 1 : i # 0 => h[i - 1] = g[i - 1]
      BY <2>2, <2>3
    <3>2. ASSUME NEW i \in 0..k + 1 PROVE Value(g, i) \in R
      <4>1. CASE i # 0
        <5>1. g[i - 1] \in R /\ i \in 1..n
          BY <2>1, <2>3, <4>1
        <5> QED
          BY <4>1, <5>1
      <4> QED
        BY <4>1
    <3> HIDE DEF h
    <3> QED
      BY <3>1, <3>2
  <2>5. h = [i \in 0..k + 1 |-> Value(h, i)] /\ h \in [0..k + 1 -> R]
    <3>1. h = [i \in 0..k + 1 |-> Value(g, i)]
      OBVIOUS
    <3> HIDE DEF h, Value
    <3> QED
      BY <2>4, <3>1
  <2> HIDE DEF h, Value
  <2> QED
    BY <2>5
<1>3. n \in C
  <2> HIDE DEF C
  <2> QED
    BY <1>1, <1>2, NatSetInduction
<1> QED
  BY <1>3 DEF Recurs

\* What recursion comes to at each number.
LEMMA RecursionValues ==
  ASSUME NEW n \in Nat, NEW R, NEW base \in R, NEW step \in [1..n -> [R -> R]],
         NEW f, Recurs(f, n, base, step)
  PROVE  /\ f[0] = base
         /\ \A i \in 1..n : f[i] = step[i][f[i - 1]]
         /\ \A i \in 0..n : f[i] \in R
<1>1. f[0] = base /\ \A i \in 1..n : f[i] = step[i][f[i - 1]] /\ i - 1 \in 0..n
  BY DEF Recurs
<1> DEFINE C == {i \in Nat : i <= n => f[i] \in R}
<1>2. 0 \in C
  BY <1>1
<1>3. ASSUME NEW i \in Nat, i \in C PROVE i + 1 \in C
  <2> SUFFICES ASSUME i + 1 <= n PROVE f[i + 1] \in R
    OBVIOUS
  <2>1. i + 1 \in 1..n /\ i <= n /\ (i + 1) - 1 = i
    OBVIOUS
  <2>2. f[i + 1] = step[i + 1][f[i]] /\ f[i] \in R
    BY <1>1, <1>3, <2>1
  <2> QED
    BY <2>1, <2>2
<1>4. Nat \subseteq C
  <2> HIDE DEF C
  <2> QED
    BY <1>2, <1>3, NatSetInduction
<1> QED
  BY <1>1, <1>4

\* Up to n, f is d numbers later what h makes of g: at first, and at every
\* number if it is at the one before.
Follows(f, d, g, h, n) ==
  /\ f[d] = h[g[0]]
  /\ \A i \in 1..n : f[(i + d) - 1] = h[g[i - 1]] => f[i + d] = h[g[i]]

LEMMA RecursionFollows ==
  ASSUME NEW f, NEW d \in Nat, NEW g, NEW h, NEW n \in Nat, Follows(f, d, g, h, n)
  PROVE  \A i \in 0..n : f[i + d] = h[g[i]]
<1> DEFINE C == {i \in Nat : i <= n => f[i + d] = h[g[i]]}
<1>1. 0 \in C
  BY DEF Follows
<1>2. ASSUME NEW i \in Nat, i \in C PROVE i + 1 \in C
  <2> SUFFICES ASSUME i + 1 <= n PROVE f[i + 1 + d] = h[g[i + 1]]
    OBVIOUS
  <2>1. i + 1 \in 1..n /\ i <= n /\ (i + 1) - 1 = i /\ ((i + 1) + d) - 1 = i + d
    OBVIOUS
  <2> QED
    BY <1>2, <2>1 DEF Follows
<1>3. Nat \subseteq C
  <2> HIDE DEF C
  <2> QED
    BY <1>1, <1>2, NatSetInduction
<1> QED
  BY <1>3

----------------------------------------------------------------------------
(* Numbers, and recursion that begins at any of them *)

LEMMA MinIsLeast ==
  ASSUME NEW S \in SUBSET Nat, S # {}
  PROVE  Min(S) \in S /\ \A y \in S : Min(S) <= y
<1>1. \E x \in S : \A y \in S : x <= y
  <2> SUFFICES ASSUME \A x \in S : \E y \in S : y < x PROVE FALSE
    <3>1. \A x, y \in S : x \in Nat /\ y \in Nat /\ (x <= y \/ y < x)
      OBVIOUS
    <3> QED
      BY <3>1
  <2> DEFINE C == {n \in Nat : \A k \in 0..n : k \notin S}
  <2>1. 0 \in C
    <3>1. 0 \notin S
      <4>1. \A y \in S : y \in Nat /\ ~(y < 0)
        OBVIOUS
      <4> QED
        BY <4>1
    <3>2. \A k \in 0..0 : k = 0
      OBVIOUS
    <3> QED
      BY <3>1, <3>2
  <2>2. ASSUME NEW n \in Nat, n \in C PROVE n + 1 \in C
    <3>1. n + 1 \notin S
      <4>1. \A y \in S : y < n + 1 => y \in 0..n
        OBVIOUS
      <4>2. \A k \in 0..n : k \notin S
        BY <2>2
      <4> QED
        BY <4>1, <4>2, Zenon
    <3>2. \A k \in 0..n + 1 : k \in 0..n \/ k = n + 1
      OBVIOUS
    <3> QED
      BY <2>2, <3>1, <3>2
  <2>3. Nat \subseteq C
    <3> HIDE DEF C
    <3> QED
      BY <2>1, <2>2, NatSetInduction
  <2>4. \A n \in Nat : n \notin S
    <3>1. \A n \in Nat : n \in 0..n
      OBVIOUS
    <3> QED
      BY <2>3, <3>1, Zenon
  <2> QED
    BY <2>4
<1> QED
  BY <1>1 DEF Min

LEMMA MaxIsGreatest ==
  ASSUME NEW n \in Nat, NEW S \in SUBSET (0..n), S # {}
  PROVE  Max(S) \in S /\ \A y \in S : Max(S) >= y
<1> DEFINE D == {n - x : x \in S}
<1>1. D \in SUBSET Nat /\ D # {}
  <2>1. \A x \in S : x \in 0..n
    OBVIOUS
  <2>2. \A x \in 0..n : n - x \in Nat
    OBVIOUS
  <2> QED
    BY <2>1, <2>2
<1>2. Min(D) \in D /\ \A y \in D : Min(D) <= y
  BY <1>1, MinIsLeast
<1>3. PICK x \in S : Min(D) = n - x
  BY <1>2
<1>4. ASSUME NEW y \in S PROVE x >= y
  <2>1. n - y \in D /\ y \in Nat /\ x \in Nat
    OBVIOUS
  <2>2. n - x <= n - y
    <3> HIDE DEF D
    <3> QED
      BY <1>2, <1>3, <2>1
  <2> QED
    BY <2>1, <2>2
<1> QED
  BY <1>4 DEF Max

\* Begins with base at b, and what comes after is the next step of what comes before.
RecursFrom(f, b, e, base, step) ==
  f = [p \in b..e |-> IF p = b THEN base ELSE step[p][f[p - 1]]]

LEMMA RecursionFromExists ==
  ASSUME NEW b \in Nat, NEW e \in Nat, b <= e,
         NEW R, NEW base \in R, NEW step \in [b..e -> [R -> R]]
  PROVE  \E f : RecursFrom(f, b, e, base, step)
<1> DEFINE n == e - b
           shifted == [i \in 1..n |-> step[i + b]]
           Value(f, p) == IF p = b THEN base ELSE step[p][f[p - 1]]
<1>1. n \in Nat /\ shifted \in [1..n -> [R -> R]]
  OBVIOUS
<1>2. PICK g \in [0..n -> R] : Recurs(g, n, base, shifted)
  <2> HIDE DEF n, shifted
  <2> QED
    BY <1>1, RecursionExists
<1>3. /\ g[0] = base
      /\ \A i \in 1..n : g[i] = shifted[i][g[i - 1]]
  <2> HIDE DEF n, shifted
  <2>1. 0 \in 0..n /\ \A i \in 1..n : i \in 0..n /\ i # 0
    BY <1>1
  <2> QED
    BY <1>2, <2>1 DEF Recurs
<1> DEFINE f == [p \in b..e |-> g[p - b]]
<1>4. f[b] = base
  BY <1>3
<1>5. \A p \in b + 1..e : f[p] = step[p][f[p - 1]]
  <2> SUFFICES ASSUME NEW p \in b + 1..e PROVE f[p] = step[p][f[p - 1]]
    OBVIOUS
  <2>1. /\ p - b \in 1..n /\ p - 1 \in b..e /\ p \in b..e
        /\ (p - b) + b = p /\ (p - b) - 1 = (p - 1) - b
    OBVIOUS
  <2>2. g[p - b] = shifted[p - b][g[(p - b) - 1]] /\ shifted[p - b] = step[p]
    BY <1>3, <2>1
  <2> QED
    BY <2>1, <2>2
<1>6. \A p \in b..e : f[p] = Value(f, p)
  <2>1. \A p \in b..e : p # b => p \in b + 1..e
    OBVIOUS
  <2> HIDE DEF f
  <2> QED
    BY <1>4, <1>5, <2>1
<1>7. f = [p \in b..e |-> Value(f, p)]
  <2>1. f = [p \in b..e |-> f[p]]
    OBVIOUS
  <2> HIDE DEF f, Value
  <2> QED
    BY <1>6, <2>1
<1> HIDE DEF f
<1> QED
  BY <1>7 DEF RecursFrom

GoesOn(f, b, e, base, step, R) ==
  /\ f[b] = base
  /\ \A p \in b..e : f[p] \in R
  /\ \A p \in b..e : p # b => f[p] = step[p][f[p - 1]]

LEMMA RecursionFromValues ==
  ASSUME NEW b \in Nat, NEW e \in Nat, b <= e,
         NEW R, NEW base \in R, NEW step \in [b..e -> [R -> R]],
         NEW f, RecursFrom(f, b, e, base, step)
  PROVE  GoesOn(f, b, e, base, step, R)
<1> DEFINE Value(p) == IF p = b THEN base ELSE step[p][f[p - 1]]
<1>1. \A p \in b..e : f[p] = Value(p)
  BY DEF RecursFrom
<1>2. f[b] = base
  BY <1>1
<1>3. \A p \in b + 1..e : p \in b..e /\ p # b /\ f[p] = step[p][f[p - 1]]
  BY <1>1
<1> DEFINE C == {i \in Nat : b + i <= e => f[b + i] \in R}
<1>4. 0 \in C
  BY <1>2
<1>5. ASSUME NEW i \in Nat, i \in C PROVE i + 1 \in C
  <2> SUFFICES ASSUME b + (i + 1) <= e PROVE f[b + (i + 1)] \in R
    OBVIOUS
  <2>1. /\ b + (i + 1) \in b + 1..e /\ (b + (i + 1)) - 1 = b + i
        /\ b + i <= e
    OBVIOUS
  <2>2. f[b + i] \in R
    BY <1>5, <2>1
  <2>3. step[b + (i + 1)] \in [R -> R]
    BY <2>1
  <2> QED
    BY <1>3, <2>1, <2>2, <2>3
<1>6. Nat \subseteq C
  <2> HIDE DEF C
  <2> QED
    BY <1>4, <1>5, NatSetInduction
<1>7. \A p \in b..e : p - b \in Nat /\ b + (p - b) = p /\ b + (p - b) <= e
  OBVIOUS
<1>8. \A p \in b..e : f[p] \in R
  BY <1>6, <1>7
<1> QED
  BY <1>2, <1>3, <1>8 DEF GoesOn

----------------------------------------------------------------------------
(* Stacks and lists *)

Lists(T) == Seq(T)
Height(q) == Len(q)

LEMMA EmptyList ==
  ASSUME NEW T
  PROVE  /\ <<>> \in Lists(T) /\ Height(<<>>) = 0 /\ ToSet(<<>>) = {}
         /\ \A q \in Lists(T) : Height(q) \in Nat /\ (Height(q) = 0 => q = <<>>)
<1>1. DOMAIN <<>> = {}
  OBVIOUS
<1>2. \A q \in Seq(T) : Len(q) \in Nat /\ (Len(q) = 0 => q = <<>>)
  BY LenProperties, EmptySeq
<1> QED
  BY <1>1, <1>2, EmptySeq DEF Lists, Height, ToSet

LEMMA Pushed ==
  ASSUME NEW T, NEW q \in Lists(T), NEW x \in T
  PROVE  /\ Append(q, x) \in Lists(T) /\ Append(q, x) # <<>>
         /\ Height(Append(q, x)) = Height(q) + 1
         /\ ToSet(Append(q, x)) = ToSet(q) \cup {x}
         /\ Last(Append(q, x)) = x
         /\ Front(Append(q, x)) = q
<1> DEFINE n == Len(q)
           p == Append(q, x)
<1>1. /\ n \in Nat /\ DOMAIN q = 1..n
  BY LenProperties DEF Lists
<1>2. /\ p \in Seq(T) /\ p # <<>> /\ Len(p) = n + 1
      /\ (\A i \in 1..n : p[i] = q[i]) /\ p[n + 1] = x
  BY AppendProperties DEF Lists
<1>3. DOMAIN p = 1..n + 1
  BY <1>2, LenProperties
<1>4. ToSet(p) = ToSet(q) \cup {x}
  <2> HIDE DEF n, p
  <2>1. \A i : i \in 1..n + 1 <=> i \in 1..n \/ i = n + 1
    BY <1>1
  <2> QED
    BY <1>1, <1>2, <1>3, <2>1, Zenon DEF ToSet
<1>5. Front(p) = q
  <2>1. Front(p) = SubSeq(p, 1, n)
    <3>1. Len(p) - 1 = n
      BY <1>1, <1>2
    <3> HIDE DEF p, n
    <3> QED
      BY <3>1 DEF Front
  <2> HIDE DEF p
  <2>2. \A i \in 1..n : p[i] \in T
    BY <1>1, <1>2, ElementOfSeq DEF Lists
  <2>3. /\ SubSeq(p, 1, n) \in Seq(T) /\ Len(SubSeq(p, 1, n)) = n
        /\ \A i \in 1..n : SubSeq(p, 1, n)[i] = p[i]
    <3> HIDE DEF n
    <3> QED
      BY <1>1, <2>2, SubSeqProperties
  <2>4. Len(SubSeq(p, 1, n)) = Len(q)
    BY <2>3
  <2>5. \A i \in 1..Len(SubSeq(p, 1, n)) : SubSeq(p, 1, n)[i] = q[i]
    BY <1>2, <2>3, <2>4, Zenon
  <2> QED
    BY <2>1, <2>3, <2>4, <2>5, SeqEqual, Zenon DEF Lists
<1>6. Last(p) = x
  <2> HIDE DEF p, n
  <2> QED
    BY <1>2 DEF Last
<1> QED
  BY <1>2, <1>4, <1>5, <1>6 DEF Lists, Height

LEMMA Popped ==
  ASSUME NEW T, NEW q \in Lists(T), q # <<>>
  PROVE  /\ Front(q) \in Lists(T) /\ Last(q) \in T
         /\ q = Append(Front(q), Last(q))
         /\ Height(q) = Height(Front(q)) + 1
         /\ ToSet(q) = ToSet(Front(q)) \cup {Last(q)}
<1>1. PICK p \in Seq(T), x \in T : q = Append(p, x)
  BY SequenceEmptyOrAppend DEF Lists
<1> QED
  BY <1>1, Pushed DEF Lists

LEMMA ListOfElements ==
  ASSUME NEW T, NEW U, NEW q \in Lists(T), ToSet(q) \subseteq U
  PROVE  q \in Lists(U)
<1> DEFINE n == Len(q)
<1>1. n \in Nat /\ DOMAIN q = 1..n /\ q \in [1..n -> T]
  BY LenProperties DEF Lists
<1> HIDE DEF n
<1>2. \A i \in 1..n : q[i] \in U
  BY <1>1, Zenon DEF ToSet
<1>3. q \in [1..n -> U]
  BY <1>1, <1>2
<1>4. q \in UNION {[1..m -> U] : m \in Nat}
  BY <1>1, <1>3
<1> QED
  BY <1>4, SeqDef, Zenon DEF Lists

LEMMA FrontType ==
  ASSUME NEW T, NEW q \in Lists(T)
  PROVE  Front(q) \in Lists(T)
<1>1. CASE q = <<>>
  <2>1. Front(<<>>) = SubSeq(<<>>, 1, 0 - 1)
    BY EmptySeq DEF Front
  <2>2. SubSeq(<<>>, 1, 0 - 1) = <<>>
    BY SubSeqEmpty
  <2> QED
    BY <1>1, <2>1, <2>2, EmptySeq DEF Lists
<1> QED
  BY <1>1, Popped

\* What sequences come to one after the other is a sequence of what is in them.
LEMMA FlattenIs ==
  ASSUME NEW T, NEW seqs \in Seq(Seq(T))
  PROVE  /\ FlattenSeq(seqs) \in Seq(T)
         /\ ToSet(FlattenSeq(seqs)) = UNION {ToSet(seqs[i]) : i \in DOMAIN seqs}
<1> DEFINE n == Len(seqs)
           R == Seq(T)
           Value(f, i) == IF i = 1 THEN seqs[i] ELSE f[i - 1] \o seqs[i]
           flatten == CHOOSE f : f = [i \in 1..n |-> Value(f, i)]
<1>1. n \in Nat /\ DOMAIN seqs = 1..n /\ \A i \in 1..n : seqs[i] \in R
  BY LenProperties, ElementOfSeq
<1>2. FlattenSeq(seqs) = IF n = 0 THEN seqs ELSE flatten[n]
  BY DEF FlattenSeq
<1>3. CASE n = 0
  <2>1. seqs = <<>> /\ DOMAIN seqs = {}
    BY <1>1, <1>3, EmptySeq
  <2>2. FlattenSeq(seqs) = <<>>
    BY <1>2, <1>3, <2>1
  <2>3. UNION {ToSet(seqs[i]) : i \in DOMAIN seqs} = {}
    BY <2>1
  <2> QED
    BY <2>2, <2>3, EmptyList DEF Lists
<1>4. CASE n # 0
  <2> DEFINE step == [i \in 1..n |-> [q \in R |-> q \o seqs[i]]]
             base == seqs[1]
  <2>1. n \in Nat /\ 1 \in Nat /\ 1 <= n /\ base \in R
    BY <1>1, <1>4
  <2>2. step \in [1..n -> [R -> R]]
    <3>1. \A q, p \in R : q \o p \in R
      BY ConcatProperties
    <3> HIDE DEF R
    <3> QED
      BY <1>1, <3>1
  <2>3. PICK f : RecursFrom(f, 1, n, base, step)
    <3> HIDE DEF n, R, step, base
    <3> QED
      BY <2>1, <2>2, RecursionFromExists
  <2>4. /\ f[1] = base
        /\ \A i \in 1..n : f[i] \in R
        /\ \A i \in 1..n : i # 1 => f[i] = step[i][f[i - 1]]
    <3>1. GoesOn(f, 1, n, base, step, R)
      <4> HIDE DEF n, R, step, base
      <4> QED
        BY <2>1, <2>2, <2>3, RecursionFromValues
    <3> HIDE DEF n, R, step, base
    <3> QED
      BY <3>1 DEF GoesOn
  <2>5. \A i \in 1..n : i # 1 => i - 1 \in 1..n /\ f[i] = f[i - 1] \o seqs[i]
    <3> SUFFICES ASSUME NEW i \in 1..n, i # 1
                 PROVE  i - 1 \in 1..n /\ f[i] = f[i - 1] \o seqs[i]
      OBVIOUS
    <3>1. i - 1 \in 1..n
      BY <1>1
    <3>2. f[i - 1] \in R
      BY <2>4, <3>1
    <3> HIDE DEF R, n
    <3>3. step[i][f[i - 1]] = f[i - 1] \o seqs[i]
      BY <3>2
    <3> QED
      BY <2>4, <3>1, <3>3
  <2>6. f = [i \in 1..n |-> Value(f, i)]
    <3>1. f = [i \in 1..n |-> IF i = 1 THEN base ELSE step[i][f[i - 1]]]
      <4> HIDE DEF base, step, n
      <4> QED
        BY <2>3 DEF RecursFrom
    <3>2. \A i \in 1..n : (IF i = 1 THEN base ELSE step[i][f[i - 1]]) = Value(f, i)
      <4>1. ASSUME NEW i \in 1..n, i # 1 PROVE step[i][f[i - 1]] = f[i - 1] \o seqs[i]
        <5> HIDE DEF step, n
        <5> QED
          BY <2>4, <2>5, <4>1
      <4> HIDE DEF step, n
      <4> QED
        BY <4>1
    <3> HIDE DEF base, step, Value, n
    <3> QED
      BY <3>1, <3>2
  <2>7. flatten = [i \in 1..n |-> Value(flatten, i)]
    <3> HIDE DEF Value, n
    <3> QED
      BY <2>6
  <2> HIDE DEF flatten
  <2>8. \A i \in 1..n : flatten[i] = Value(flatten, i)
    <3> HIDE DEF Value
    <3> QED
      BY <2>7
  <2> DEFINE U(i) == UNION {ToSet(seqs[j]) : j \in 1..i}
             C == {k \in Nat : k + 1 <= n => flatten[k + 1] \in R /\ ToSet(flatten[k + 1]) = U(k + 1)}
  <2>9. 0 \in C
    <3>1. 1 \in 1..n /\ flatten[1] = seqs[1]
      BY <2>1, <2>8
    <3>2. U(1) = ToSet(seqs[1])
      <4>1. \A j \in 1..1 : j = 1
        OBVIOUS
      <4>2. 1 \in 1..1
        OBVIOUS
      <4> QED
        BY <4>1, <4>2
    <3> HIDE DEF U, R
    <3> QED
      BY <1>1, <3>1, <3>2
  <2>10. ASSUME NEW k \in Nat, k \in C PROVE k + 1 \in C
    <3> DEFINE i == (k + 1) + 1
    <3> SUFFICES ASSUME i <= n PROVE flatten[i] \in R /\ ToSet(flatten[i]) = U(i)
      OBVIOUS
    <3>1. i \in 1..n /\ i # 1 /\ i - 1 = k + 1 /\ k + 1 <= n
      BY <1>1
    <3>2. flatten[i] = flatten[k + 1] \o seqs[i]
      BY <2>8, <3>1
    <3>3. flatten[k + 1] \in R /\ ToSet(flatten[k + 1]) = U(k + 1) /\ seqs[i] \in R
      BY <1>1, <2>10, <3>1
    <3>4. /\ flatten[i] \in R
          /\ ToSet(flatten[i]) = ToSet(flatten[k + 1]) \cup ToSet(seqs[i])
      <4> HIDE DEF i
      <4>1. flatten[k + 1] \o seqs[i] \in Seq(T)
        BY <3>3, ConcatProperties
      <4>2. Range(flatten[k + 1] \o seqs[i]) = Range(flatten[k + 1]) \cup Range(seqs[i])
        BY <3>3, RangeConcatenation
      <4> QED
        BY <3>2, <4>1, <4>2 DEF ToSet, Range
    <3>5. U(i) = U(k + 1) \cup ToSet(seqs[i])
      <4>1. \A j : j \in 1..i <=> j \in 1..k + 1 \/ j = i
        BY <3>1
      <4> HIDE DEF i
      <4> QED
        BY <4>1
    <3> HIDE DEF i, U
    <3> QED
      BY <3>3, <3>4, <3>5
  <2>11. Nat \subseteq C
    <3> HIDE DEF C
    <3> QED
      BY <2>9, <2>10, NatSetInduction
  <2>12. flatten[n] \in R /\ ToSet(flatten[n]) = U(n)
    <3>1. n - 1 \in Nat /\ (n - 1) + 1 = n
      BY <1>1, <1>4
    <3> HIDE DEF n, R, U
    <3> QED
      BY <2>11, <3>1
  <2> HIDE DEF n
  <2> QED
    BY <1>1, <1>2, <1>4, <2>12
<1> QED
  BY <1>3, <1>4

----------------------------------------------------------------------------
(* Sums *)

\* The function SumFunctionOnSet is defined by.
Chosen(s) == CHOOSE x \in s : TRUE
Iterates(iter, f, S) ==
  iter = [s \in SUBSET S |->
            IF s = {} THEN 0 ELSE f[Chosen(s)] + iter[s \ {Chosen(s)}]]

LEMMA IterateExists ==
  ASSUME NEW f, NEW S, IsFiniteSet(S)
  PROVE  \E iter : Iterates(iter, f, S)
<1> DEFINE Small(n) == {s \in SUBSET S : Cardinality(s) <= n}
           Value(g, s) == IF s = {} THEN 0 ELSE f[Chosen(s)] + g[s \ {Chosen(s)}]
           C == {n \in Nat : \E g : g = [s \in Small(n) |-> Value(g, s)]}
<1>1. \A s \in SUBSET S : IsFiniteSet(s) /\ Cardinality(s) \in Nat
                         /\ Cardinality(s) <= Cardinality(S)
  BY FS_Subset, FS_CardinalityType
<1>2. \A s \in SUBSET S : s # {} =>
        /\ Chosen(s) \in s
        /\ s \ {Chosen(s)} \in SUBSET S
        /\ Cardinality(s \ {Chosen(s)}) = Cardinality(s) - 1
  BY <1>1, FS_RemoveElement DEF Chosen
<1>3. 0 \in C
  <2>1. \A s \in Small(0) : s = {}
    BY <1>1, FS_EmptySet
  <2> DEFINE g == [s \in Small(0) |-> 0]
  <2>2. g = [s \in Small(0) |-> Value(g, s)]
    BY <2>1
  <2> QED
    BY <2>2
<1>4. ASSUME NEW n \in Nat, n \in C
      PROVE  n + 1 \in C
  <2>1. PICK g : g = [s \in Small(n) |-> Value(g, s)]
    BY <1>4
  <2> DEFINE h == [s \in Small(n + 1) |-> Value(g, s)]
  <2>2. \A s \in Small(n + 1) : s # {} => s \ {Chosen(s)} \in Small(n)
    BY <1>1, <1>2
  <2>3. \A s \in Small(n) : s \in Small(n + 1)
    BY <1>1
  <2>4. \A s \in Small(n) : h[s] = g[s]
    <3> HIDE DEF Small, Value
    <3> QED
      BY <2>1, <2>3
  <2>5. \A s \in Small(n + 1) : Value(h, s) = Value(g, s)
    <3> HIDE DEF h, Small
    <3> QED
      BY <2>2, <2>4
  <2>6. h = [s \in Small(n + 1) |-> Value(h, s)]
    <3>1. h = [s \in Small(n + 1) |-> Value(g, s)]
      OBVIOUS
    <3> HIDE DEF h, Small, Value
    <3> QED
      BY <2>5, <3>1
  <2>7. \E i : i = [s \in Small(n + 1) |-> Value(i, s)]
    <3> HIDE DEF h, Small, Value
    <3> QED
      BY <2>6
  <2>8. n + 1 \in Nat
    OBVIOUS
  <2> HIDE DEF Small, Value
  <2> QED
    BY <2>7, <2>8
<1>5. Cardinality(S) \in C
  <2> HIDE DEF C
  <2> QED
    BY <1>1, <1>3, <1>4, NatSetInduction
<1>6. Small(Cardinality(S)) = SUBSET S
  BY <1>1
<1>7. PICK g : g = [s \in Small(Cardinality(S)) |-> Value(g, s)]
  BY <1>5
<1>8. g = [s \in SUBSET S |-> Value(g, s)]
  <2>1. g = [s \in Small(Cardinality(S)) |-> Value(g, s)]
    BY <1>7
  <2> HIDE DEF Small, Value
  <2> QED
    BY <1>6, <2>1
<1>9. Iterates(g, f, S)
  BY <1>8 DEF Iterates
<1> QED
  BY <1>9

Iterate(f, S) == CHOOSE iter : Iterates(iter, f, S)

LEMMA SumIsIterate ==
  ASSUME NEW f, NEW S
  PROVE  SumFunctionOnSet(f, S) = Iterate(f, S)[S]
BY DEF SumFunctionOnSet, FoldFunctionOnSet, MapThenFoldSet, Iterate, Iterates, Chosen

LEMMA IterateValue ==
  ASSUME NEW f, NEW S, IsFiniteSet(S), NEW s \in SUBSET S
  PROVE  Iterate(f, S)[s] =
           IF s = {} THEN 0 ELSE f[Chosen(s)] + Iterate(f, S)[s \ {Chosen(s)}]
<1> DEFINE iter == Iterate(f, S)
<1>1. Iterates(iter, f, S)
  BY IterateExists DEF Iterate
<1> HIDE DEF iter
<1>2. iter[s] = IF s = {} THEN 0 ELSE f[Chosen(s)] + iter[s \ {Chosen(s)}]
  BY <1>1 DEF Iterates
<1> QED
  BY <1>2 DEF iter

\* A sum does not depend on the set it is a part of the sum of, nor on what the
\* function is elsewhere.
LEMMA SumCongruence ==
  ASSUME NEW f, NEW g, NEW S, NEW T, IsFiniteSet(S), IsFiniteSet(T),
         NEW s \in SUBSET (S \cap T), \A x \in s : f[x] = g[x]
  PROVE  Iterate(f, S)[s] = Iterate(g, T)[s]
<1> DEFINE C == {u \in SUBSET s : Iterate(f, S)[u] = Iterate(g, T)[u]}
<1>3. \A u \in SUBSET S :
        Iterate(f, S)[u] = IF u = {} THEN 0
                           ELSE f[Chosen(u)] + Iterate(f, S)[u \ {Chosen(u)}]
  BY IterateValue
<1>1. ASSUME NEW u \in SUBSET s, \A v \in SUBSET u : v # u => v \in C
      PROVE  u \in C
  <2>1. u \in SUBSET S /\ u \in SUBSET T
    OBVIOUS
  <2>2. Iterate(f, S)[u] = IF u = {} THEN 0
                           ELSE f[Chosen(u)] + Iterate(f, S)[u \ {Chosen(u)}]
    BY <1>3, <2>1
  <2>5. Iterate(g, T)[u] = IF u = {} THEN 0
                           ELSE g[Chosen(u)] + Iterate(g, T)[u \ {Chosen(u)}]
    BY <2>1, IterateValue
  <2>3. CASE u = {}
    BY <2>2, <2>3, <2>5
  <2>4. CASE u # {}
    <3>1. Chosen(u) \in u
      BY <2>4 DEF Chosen
    <3>2. u \ {Chosen(u)} \in C
      BY <1>1, <3>1
    <3>3. f[Chosen(u)] = g[Chosen(u)]
      BY <3>1
    <3>4. Iterate(f, S)[u \ {Chosen(u)}] = Iterate(g, T)[u \ {Chosen(u)}]
      BY <3>2
    <3> QED
      BY <2>2, <2>4, <2>5, <3>3, <3>4
  <2> QED
    BY <2>3, <2>4
<1>2. s \in C
  <2>1. IsFiniteSet(s)
    BY FS_Subset
  <2> HIDE DEF C
  <2> QED
    BY <1>1, <2>1, SubsetInduction
<1> QED
  BY <1>2

LEMMA SumEmpty ==
  ASSUME NEW f
  PROVE  SumFunctionOnSet(f, {}) = 0
BY SumIsIterate, IterateValue, FS_EmptySet

\* The sum of functions that agree.
LEMMA SumEqual ==
  ASSUME NEW f, NEW g, NEW S, IsFiniteSet(S), \A x \in S : f[x] = g[x]
  PROVE  SumFunctionOnSet(f, S) = SumFunctionOnSet(g, S)
BY SumIsIterate, SumCongruence

LEMMA SumChosen ==
  ASSUME NEW f, NEW S, IsFiniteSet(S), S # {}
  PROVE  SumFunctionOnSet(f, S) = f[Chosen(S)] + SumFunctionOnSet(f, S \ {Chosen(S)})
<1> DEFINE T == S \ {Chosen(S)}
<1>1. IsFiniteSet(T) /\ T \in SUBSET S
  BY FS_Subset
<1>2. Iterate(f, S)[S] = f[Chosen(S)] + Iterate(f, S)[T]
  BY IterateValue
<1>3. Iterate(f, S)[T] = Iterate(f, T)[T]
  <2>1. T \in SUBSET (S \cap T)
    OBVIOUS
  <2> HIDE DEF T
  <2> QED
    BY <1>1, <2>1, SumCongruence
<1> QED
  BY <1>2, <1>3, SumIsIterate

LEMMA SumType ==
  ASSUME NEW f, NEW S, IsFiniteSet(S), \A x \in S : f[x] \in Nat
  PROVE  SumFunctionOnSet(f, S) \in Nat
<1> DEFINE C == {u \in SUBSET S : SumFunctionOnSet(f, u) \in Nat}
<1>1. ASSUME NEW u \in SUBSET S, \A v \in SUBSET u : v # u => v \in C
      PROVE  u \in C
  <2>1. CASE u = {}
    BY <2>1, SumEmpty
  <2>2. CASE u # {}
    <3>1. Chosen(u) \in u /\ IsFiniteSet(u)
      BY <2>2, FS_Subset DEF Chosen
    <3>2. SumFunctionOnSet(f, u) = f[Chosen(u)] + SumFunctionOnSet(f, u \ {Chosen(u)})
      BY <2>2, <3>1, SumChosen
    <3>3. SumFunctionOnSet(f, u \ {Chosen(u)}) \in Nat
      BY <1>1, <3>1
    <3>4. f[Chosen(u)] \in Nat
      BY <3>1
    <3> QED
      BY <3>2, <3>3, <3>4
  <2> QED
    BY <2>1, <2>2
<1>2. S \in C
  <2> HIDE DEF C
  <2> QED
    BY <1>1, SubsetInduction
<1> QED
  BY <1>2

\* Any element may be taken out first.
LEMMA SumRemove ==
  ASSUME NEW f, NEW S, IsFiniteSet(S), \A x \in S : f[x] \in Nat, NEW a \in S
  PROVE  SumFunctionOnSet(f, S) = f[a] + SumFunctionOnSet(f, S \ {a})
<1> DEFINE Sum(u) == SumFunctionOnSet(f, u)
           C == {u \in SUBSET S : \A x \in u : Sum(u) = f[x] + Sum(u \ {x})}
<1>1. ASSUME NEW u \in SUBSET S, \A v \in SUBSET u : v # u => v \in C
      PROVE  u \in C
  <2> SUFFICES ASSUME NEW x \in u PROVE Sum(u) = f[x] + Sum(u \ {x})
    OBVIOUS
  <2> DEFINE c == Chosen(u)
  <2>1. c \in u /\ IsFiniteSet(u) /\ IsFiniteSet(u \ {x})
    BY FS_Subset DEF Chosen
  <2>2. Sum(u) = f[c] + Sum(u \ {c})
    BY <2>1, SumChosen
  <2>3. CASE x = c
    BY <2>2, <2>3
  <2>4. CASE x # c
    <3>1. u \ {c} \in C /\ x \in u \ {c}
      BY <1>1, <2>1, <2>4
    <3>2. Sum(u \ {c}) = f[x] + Sum((u \ {c}) \ {x})
      BY <3>1
    <3>3. u \ {x} \in C /\ c \in u \ {x}
      BY <1>1, <2>1, <2>4
    <3>4. Sum(u \ {x}) = f[c] + Sum((u \ {x}) \ {c})
      BY <3>3
    <3>5. (u \ {c}) \ {x} = (u \ {x}) \ {c}
      OBVIOUS
    <3>6. Sum((u \ {x}) \ {c}) \in Nat /\ f[x] \in Nat /\ f[c] \in Nat
      <4>1. IsFiniteSet((u \ {x}) \ {c})
        BY <2>1, FS_Subset
      <4> QED
        BY <2>1, <4>1, SumType
    <3>7. Sum(u) = f[c] + (f[x] + Sum((u \ {x}) \ {c}))
      <4> HIDE DEF Sum, c
      <4> QED
        BY <2>2, <3>2, <3>5
    <3> HIDE DEF Sum, c
    <3> QED
      BY <3>4, <3>6, <3>7
  <2> QED
    BY <2>3, <2>4
<1>2. S \in C
  <2> HIDE DEF C
  <2> QED
    BY <1>1, SubsetInduction
<1> QED
  BY <1>2

\* A function changes at one place.
LEMMA SumUpdate ==
  ASSUME NEW f, NEW g, NEW S, IsFiniteSet(S), NEW a \in S,
         \A x \in S : f[x] \in Nat /\ g[x] \in Nat,
         \A x \in S \ {a} : g[x] = f[x]
  PROVE  /\ SumFunctionOnSet(g, S) = SumFunctionOnSet(f, S) - f[a] + g[a]
         /\ SumFunctionOnSet(f, S) \in Nat
         /\ f[a] <= SumFunctionOnSet(f, S)
<1> DEFINE F == SumFunctionOnSet(f, S \ {a})
<1>1. IsFiniteSet(S \ {a})
  BY FS_Subset
<1>2. SumFunctionOnSet(f, S) = f[a] + F /\ SumFunctionOnSet(g, S) = g[a] + SumFunctionOnSet(g, S \ {a})
  BY SumRemove
<1>3. SumFunctionOnSet(g, S \ {a}) = F
  BY <1>1, SumEqual
<1>4. F \in Nat
  BY <1>1, SumType
<1> HIDE DEF F
<1> QED
  BY <1>2, <1>3, <1>4

\* A new place.
LEMMA SumAdd ==
  ASSUME NEW f, NEW S, IsFiniteSet(S), NEW a, a \notin S,
         \A x \in S \cup {a} : f[x] \in Nat
  PROVE  SumFunctionOnSet(f, S \cup {a}) = f[a] + SumFunctionOnSet(f, S)
<1>1. IsFiniteSet(S \cup {a})
  BY FS_AddElement
<1>2. (S \cup {a}) \ {a} = S
  OBVIOUS
<1> QED
  BY <1>1, <1>2, SumRemove
=============================================================================
