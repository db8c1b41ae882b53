------------------------- MODULE References_proofs -------------------------
(***************************************************************************)
(* The analysis of references is sound, for any structs and functions and    *)
(* code of any length: the borrow graph has no cycle and knows of all         *)
(* references that reach into each other, those the verifier sees stay good,  *)
(* and functions return what their callers take for granted.                *)
(*                                                                         *)
(* Ways along the edges of a graph come first, then what the operators of     *)
(* BorrowGraph do to them, what the instructions do to slots, graph and        *)
(* pointers, and last the inductive invariant IInv.                          *)
(***************************************************************************)
EXTENDS References, SumTheorems

----------------------------------------------------------------------------
(* Sequences *)

LEMMA PrefixIs ==
  ASSUME NEW T, NEW s \in Seq(T), NEW t \in Seq(T)
  PROVE  IsPrefix(s, t) <=> Len(s) <= Len(t) /\ \A k \in 1..Len(s) : s[k] = t[k]
<1>1. CASE Len(s) <= Len(t)
  <2>1. /\ SubSeq(s, 1, Len(s)) \in Seq(T) /\ Len(SubSeq(s, 1, Len(s))) = Len(s)
        /\ \A k \in 1..Len(s) : SubSeq(s, 1, Len(s))[k] = s[k]
    OBVIOUS
  <2>2. /\ SubSeq(t, 1, Len(s)) \in Seq(T) /\ Len(SubSeq(t, 1, Len(s))) = Len(s)
        /\ \A k \in 1..Len(s) : SubSeq(t, 1, Len(s))[k] = t[k]
    BY <1>1
  <2>3. SubSeq(s, 1, Len(s)) = SubSeq(t, 1, Len(s)) <=> \A k \in 1..Len(s) : s[k] = t[k]
    <3>1. ASSUME \A k \in 1..Len(s) : s[k] = t[k]
          PROVE  SubSeq(s, 1, Len(s)) = SubSeq(t, 1, Len(s))
      BY <2>1, <2>2, <3>1, SeqEqual
    <3> QED
      BY <2>1, <2>2, <3>1
  <2> QED
    BY <1>1, <2>3 DEF IsPrefix
<1>2. CASE ~ (Len(s) <= Len(t))
  BY <1>2 DEF IsPrefix
<1> QED
  BY <1>1, <1>2

LEMMA Concatenated ==
  ASSUME NEW T, NEW s \in Seq(T), NEW t \in Seq(T)
  PROVE  /\ s \o t \in Seq(T) /\ Len(s \o t) = Len(s) + Len(t)
         /\ \A k \in 1..Len(s) : (s \o t)[k] = s[k]
         /\ \A k \in 1..Len(t) : (s \o t)[Len(s) + k] = t[k]
         /\ s = <<>> => s \o t = t
         /\ t = <<>> => s \o t = s
OBVIOUS

LEMMA ConcatenationAssociates ==
  ASSUME NEW T, NEW s \in Seq(T), NEW t \in Seq(T), NEW u \in Seq(T)
  PROVE  (s \o t) \o u = s \o (t \o u)
<1>1. /\ (s \o t) \o u \in Seq(T) /\ s \o (t \o u) \in Seq(T)
      /\ Len((s \o t) \o u) = Len(s \o (t \o u))
  OBVIOUS
<1>2. ASSUME NEW k \in 1..Len((s \o t) \o u)
      PROVE  ((s \o t) \o u)[k] = (s \o (t \o u))[k]
  OBVIOUS
<1> QED
  BY <1>1, <1>2, SeqEqual

LEMMA PrefixOrder ==
  ASSUME NEW T, NEW s \in Seq(T), NEW t \in Seq(T), NEW u \in Seq(T)
  PROVE  /\ IsPrefix(s, s)
         /\ IsPrefix(s, t) /\ IsPrefix(t, u) => IsPrefix(s, u)
         /\ IsPrefix(s, t) /\ IsPrefix(t, s) => s = t
<1>1. IsPrefix(s, s)
  BY PrefixIs
<1>2. IsPrefix(s, t) /\ IsPrefix(t, u) => IsPrefix(s, u)
  <2>1. SUFFICES ASSUME IsPrefix(s, t), IsPrefix(t, u) PROVE IsPrefix(s, u)
    OBVIOUS
  <2>2. Len(s) <= Len(t) /\ \A k \in 1..Len(s) : s[k] = t[k]
    BY <2>1, PrefixIs
  <2>3. Len(t) <= Len(u) /\ \A k \in 1..Len(t) : t[k] = u[k]
    BY <2>1, PrefixIs
  <2>4. Len(s) \in Nat /\ Len(t) \in Nat /\ Len(u) \in Nat
    OBVIOUS
  <2>5. Len(s) <= Len(u) /\ \A k \in 1..Len(s) : s[k] = u[k]
    BY <2>2, <2>3, <2>4
  <2> QED
    BY <2>5, PrefixIs
<1>3. IsPrefix(s, t) /\ IsPrefix(t, s) => s = t
  <2>1. SUFFICES ASSUME IsPrefix(s, t), IsPrefix(t, s) PROVE s = t
    OBVIOUS
  <2>2. Len(s) <= Len(t) /\ \A k \in 1..Len(s) : s[k] = t[k]
    BY <2>1, PrefixIs
  <2>3. Len(t) <= Len(s)
    BY <2>1, PrefixIs
  <2>4. Len(s) = Len(t)
    BY <2>2, <2>3, LenProperties
  <2> QED
    BY <2>2, <2>4, SeqEqual
<1> QED
  BY <1>1, <1>2, <1>3

LEMMA PrefixTrans ==
  ASSUME NEW T, NEW s \in Seq(T), NEW t \in Seq(T), NEW u \in Seq(T),
         IsPrefix(s, t), IsPrefix(t, u)
  PROVE  IsPrefix(s, u)
BY PrefixOrder

\* What extends the first of two concatenated sequences, and both.
LEMMA PrefixOfConcatenation ==
  ASSUME NEW T, NEW s \in Seq(T), NEW t \in Seq(T), NEW u \in Seq(T)
  PROVE  /\ IsPrefix(s, s \o t)
         /\ IsPrefix(s \o t, u) => IsPrefix(s, u)
         /\ IsPrefix(t, u) => IsPrefix(s \o t, s \o u)
<1>1. s \o t \in Seq(T) /\ s \o u \in Seq(T)
  OBVIOUS
<1>2. IsPrefix(s, s \o t)
  <2>1. Len(s) <= Len(s \o t)
    BY Concatenated, LenProperties
  <2>2. \A k \in 1..Len(s) : s[k] = (s \o t)[k]
    BY Concatenated
  <2> QED
    BY <1>1, <2>1, <2>2, PrefixIs
<1>3. IsPrefix(s \o t, u) => IsPrefix(s, u)
  BY <1>1, <1>2, PrefixOrder
<1>4. ASSUME IsPrefix(t, u) PROVE IsPrefix(s \o t, s \o u)
  <2>1. Len(t) <= Len(u) /\ \A k \in 1..Len(t) : t[k] = u[k]
    BY <1>4, PrefixIs
  <2>2. Len(s \o t) <= Len(s \o u)
    BY <2>1, Concatenated, LenProperties
  <2>3. ASSUME NEW k \in 1..Len(s \o t) PROVE (s \o t)[k] = (s \o u)[k]
    BY <2>1
  <2> QED
    BY <1>1, <2>2, <2>3, PrefixIs
<1> QED
  BY <1>2, <1>3, <1>4

\* The element by which what extends a sequence goes on.
LEMMA GoesOnWith ==
  ASSUME NEW T, NEW s \in Seq(T), NEW t \in Seq(T), NEW u \in Seq(T), t # <<>>,
         IsPrefix(s \o t, u)
  PROVE  /\ Len(s) + 1 \in 1..Len(u) /\ u[Len(s) + 1] = Head(t)
         /\ Head(t) \in T /\ Tail(t) \in Seq(T)
         /\ t = <<Head(t)>> \o Tail(t)
         /\ u # s
<1>1. /\ Head(t) \in T /\ Tail(t) \in Seq(T) /\ Head(t) = t[1] /\ Len(t) >= 1
  BY EmptySeq, LenProperties
<1>2. t = <<Head(t)>> \o Tail(t)
  <2>1. Len(<<Head(t)>> \o Tail(t)) = Len(t) /\ <<Head(t)>> \o Tail(t) \in Seq(T)
    BY <1>1
  <2>2. ASSUME NEW k \in 1..Len(t) PROVE (<<Head(t)>> \o Tail(t))[k] = t[k]
    BY <1>1
  <2> QED
    BY <2>1, <2>2, SeqEqual
<1>3. s \o t \in Seq(T) /\ Len(s \o t) = Len(s) + Len(t) /\ (s \o t)[Len(s) + 1] = t[1]
  BY <1>1, Concatenated
<1>4. Len(s \o t) <= Len(u) /\ \A k \in 1..Len(s \o t) : (s \o t)[k] = u[k]
  BY <1>3, PrefixIs, ZenonT(40)
<1>5. Len(s) \in Nat /\ Len(t) \in Nat /\ Len(u) \in Nat
  BY LenProperties
<1>6. Len(s) + 1 \in 1..Len(s \o t) /\ Len(s) + 1 \in 1..Len(u)
  BY <1>1, <1>3, <1>4, <1>5
<1>7. u[Len(s) + 1] = t[1]
  BY <1>3, <1>4, <1>6
<1>8. Len(u) # Len(s)
  BY <1>5, <1>6
<1> QED
  BY <1>1, <1>2, <1>6, <1>7, <1>8

\* The first element is that of every sequence that extends it.
LEMMA FirstOfPrefix ==
  ASSUME NEW T, NEW s \in Seq(T), NEW t \in Seq(T), s # <<>>, IsPrefix(s, t)
  PROVE  t # <<>> /\ t[1] = s[1]
<1>1. Len(s) \in Nat /\ Len(s) # 0 /\ Len(t) \in Nat
  BY EmptySeq, LenProperties
<1>2. Len(s) <= Len(t) /\ \A k \in 1..Len(s) : s[k] = t[k]
  BY PrefixIs
<1>3. 1 \in 1..Len(s) /\ Len(t) # 0
  BY <1>1, <1>2
<1>4. Len(<<>>) = 0
  BY EmptySeq
<1> QED
  BY <1>2, <1>3, <1>4

LEMMA StartsWith ==
  ASSUME NEW T, NEW t \in Seq(T), NEW u \in Seq(T), t # <<>>, IsPrefix(<<>> \o t, u)
  PROVE  u[1] = Head(t)
<1>1. <<>> \o t = t
  OBVIOUS
<1>2. u[1] = t[1]
  BY <1>1, FirstOfPrefix
<1> QED
  BY <1>2

LEMMA OverlapStarts ==
  ASSUME NEW T, NEW s \in Seq(T), NEW t \in Seq(T), s # <<>>, t # <<>>, Overlap(s, t)
  PROVE  s[1] = t[1]
BY FirstOfPrefix DEF Overlap

LEMMA OverlapGoesOn ==
  ASSUME NEW T, NEW s \in Seq(T), NEW t \in Seq(T), NEW u \in Seq(T), NEW x \in T, t # <<>>,
         IsPrefix(s \o t, u), Overlap(s \o <<x>>, u)
  PROVE  Head(t) = x
<1> DEFINE n == Len(s) + 1
           v == s \o <<x>>
<1>1. n \in 1..Len(u) /\ u[n] = Head(t)
  BY GoesOnWith, ZenonT(40)
<1>2. v \in Seq(T) /\ Len(v) = n /\ v[n] = x /\ n \in 1..Len(v)
  OBVIOUS
<1>3. IsPrefix(v, u) \/ IsPrefix(u, v)
  BY DEF Overlap
<1> HIDE DEF n, v
<1>4. v[n] = u[n]
  BY <1>1, <1>2, <1>3, PrefixIs, SMTT(30)
<1> QED
  BY <1>1, <1>2, <1>4

\* What overlaps with an extension of a sequence overlaps with the sequence.
LEMMA OverlapShorter ==
  ASSUME NEW T, NEW s \in Seq(T), NEW t \in Seq(T), NEW u \in Seq(T),
         IsPrefix(s, t), Overlap(t, u)
  PROVE  Overlap(s, u)
<1>1. CASE IsPrefix(t, u)
  BY <1>1, PrefixTrans DEF Overlap
<1>2. CASE IsPrefix(u, t)
  <2>1. Len(s) <= Len(t) /\ \A k \in 1..Len(s) : s[k] = t[k]
    BY PrefixIs
  <2>2. Len(u) <= Len(t) /\ \A k \in 1..Len(u) : u[k] = t[k]
    BY <1>2, PrefixIs
  <2>3. Len(s) \in Nat /\ Len(t) \in Nat /\ Len(u) \in Nat
    BY LenProperties
  <2>4. CASE Len(s) <= Len(u)
    <3>1. \A k \in 1..Len(s) : s[k] = u[k]
      BY <2>1, <2>2, <2>3, <2>4
    <3> QED
      BY <2>4, <3>1, PrefixIs DEF Overlap
  <2>5. CASE ~ (Len(s) <= Len(u))
    <3>1. Len(u) <= Len(s) /\ \A k \in 1..Len(u) : u[k] = s[k]
      BY <2>1, <2>2, <2>3, <2>5
    <3> QED
      BY <3>1, PrefixIs DEF Overlap
  <2> QED
    BY <2>4, <2>5
<1> QED
  BY <1>1, <1>2 DEF Overlap

----------------------------------------------------------------------------
(* Ways along a relation *)

ClosedUnder(S, N, R) == \A x \in S, y \in N : <<x, y>> \in R => y \in S

\* Every set that has a and what follows on its members has b.
Reaches(N, R, a, b) == \A S \in SUBSET N : a \in S /\ ClosedUnder(S, N, R) => b \in S

LEMMA ReachesItself ==
  ASSUME NEW N, NEW R, NEW a
  PROVE  Reaches(N, R, a, a)
BY DEF Reaches

LEMMA ReachesNext ==
  ASSUME NEW N, NEW R, NEW a \in N, NEW b \in N, <<a, b>> \in R
  PROVE  Reaches(N, R, a, b)
BY DEF Reaches, ClosedUnder

LEMMA ReachesOn ==
  ASSUME NEW N, NEW R, NEW a, NEW b, NEW c, Reaches(N, R, a, b), Reaches(N, R, b, c)
  PROVE  Reaches(N, R, a, c)
BY DEF Reaches

\* The first step of a way.
LEMMA ReachesFirst ==
  ASSUME NEW N, NEW R, NEW a \in N, NEW b \in N, a # b, Reaches(N, R, a, b)
  PROVE  \E m \in N : <<a, m>> \in R /\ Reaches(N, R, m, b)
<1> SUFFICES ASSUME ~ \E m \in N : <<a, m>> \in R /\ Reaches(N, R, m, b)
             PROVE  FALSE
  OBVIOUS
<1> DEFINE S == {a} \cup {y \in N : ~Reaches(N, R, y, b)}
<1>1. S \in SUBSET N /\ a \in S
  OBVIOUS
<1>2. b \notin S
  BY ReachesItself
<1>3. ASSUME NEW x \in S, NEW y \in N, <<x, y>> \in R
      PROVE  y \in S
  <2>1. CASE x = a
    BY <1>3, <2>1
  <2>2. CASE x # a
    <3>1. ~Reaches(N, R, x, b)
      BY <2>2
    <3>2. Reaches(N, R, x, y)
      BY <1>1, <1>3, ReachesNext
    <3>3. ~Reaches(N, R, y, b)
      BY <3>1, <3>2, ReachesOn
    <3> QED
      BY <3>3
  <2> QED
    BY <2>1, <2>2
<1>4. ClosedUnder(S, N, R)
  BY <1>3 DEF ClosedUnder
<1> QED
  BY <1>1, <1>2, <1>4 DEF Reaches

\* The members of C, if what follows on one is one.
LEMMA ReachesWithin ==
  ASSUME NEW N, NEW R, NEW C, NEW a \in N, NEW b, a \in C, Reaches(N, R, a, b),
         \A x \in N \cap C, y \in N : <<x, y>> \in R => y \in C
  PROVE  b \in C
<1>1. ClosedUnder(N \cap C, N, R)
  BY DEF ClosedUnder
<1> QED
  BY <1>1 DEF Reaches

\* A map that takes each step to a way takes each way to one.
LEMMA ReachesMapped ==
  ASSUME NEW N, NEW R, NEW N2, NEW R2, NEW f \in [N -> N2],
         \A x, y \in N : <<x, y>> \in R => Reaches(N2, R2, f[x], f[y]),
         NEW a \in N, NEW b \in N, Reaches(N, R, a, b)
  PROVE  Reaches(N2, R2, f[a], f[b])
<1> SUFFICES ASSUME NEW S \in SUBSET N2, f[a] \in S, ClosedUnder(S, N2, R2)
             PROVE  f[b] \in S
  BY DEF Reaches
<1> DEFINE C == {x \in N : f[x] \in S}
<1>1. ASSUME NEW x \in N \cap C, NEW y \in N, <<x, y>> \in R
      PROVE  y \in C
  BY <1>1 DEF Reaches
<1>2. a \in C
  OBVIOUS
<1> HIDE DEF C
<1>3. b \in C
  BY <1>1, <1>2, ReachesWithin
<1> QED
  BY <1>3 DEF C

LEMMA ReachesMore ==
  ASSUME NEW N, NEW R, NEW N2, NEW R2, N \subseteq N2,
         \A x, y \in N : <<x, y>> \in R => Reaches(N2, R2, x, y),
         NEW a \in N, NEW b \in N, Reaches(N, R, a, b)
  PROVE  Reaches(N2, R2, a, b)
<1> DEFINE f == [x \in N |-> x]
<1>1. f \in [N -> N2] /\ \A x \in N : f[x] = x
  OBVIOUS
<1>2. \A x, y \in N : <<x, y>> \in R => Reaches(N2, R2, f[x], f[y])
  BY <1>1
<1> HIDE DEF f
<1>3. Reaches(N2, R2, f[a], f[b])
  BY <1>1, <1>2, ReachesMapped
<1> QED
  BY <1>1, <1>3

\* A node goes, and the steps to it are joined with those from it.
LEMMA ReachesAround ==
  ASSUME NEW N, NEW R, NEW R2, NEW i,
         \A x, y \in N \ {i} : <<x, y>> \in R => <<x, y>> \in R2,
         \A x, y \in N \ {i} : <<x, i>> \in R /\ <<i, y>> \in R => <<x, y>> \in R2,
         NEW a \in N \ {i}, NEW b \in N \ {i}, Reaches(N, R, a, b)
  PROVE  Reaches(N \ {i}, R2, a, b)
<1> SUFFICES ASSUME NEW S \in SUBSET (N \ {i}), a \in S, ClosedUnder(S, N \ {i}, R2)
             PROVE  b \in S
  BY DEF Reaches
<1> DEFINE C == S \cup {x \in {i} : \E m \in S : <<m, i>> \in R}
<1>1. ASSUME NEW x \in N \cap C, NEW y \in N, <<x, y>> \in R
      PROVE  y \in C
  <2>1. CASE x = i
    <3>1. PICK m \in S : <<m, i>> \in R
      BY <2>1
    <3>2. CASE y = i
      BY <3>1, <3>2
    <3>3. CASE y # i
      <4>1. <<m, y>> \in R2
        BY <1>1, <2>1, <3>1, <3>3
      <4>2. y \in S
        BY <3>3, <4>1 DEF ClosedUnder
      <4> QED
        BY <4>2
    <3> QED
      BY <3>2, <3>3
  <2>2. CASE x # i
    <3>1. x \in S
      BY <2>2
    <3>2. CASE y = i
      BY <1>1, <3>1, <3>2
    <3>3. CASE y # i
      BY <1>1, <2>2, <3>1, <3>3 DEF ClosedUnder
    <3> QED
      BY <3>2, <3>3
  <2> QED
    BY <2>1, <2>2
<1>2. a \in C /\ a \in N
  OBVIOUS
<1>3. b \in C => b \in S
  OBVIOUS
<1> HIDE DEF C
<1>4. b \in C
  BY <1>1, <1>2, ReachesWithin
<1> QED
  BY <1>3, <1>4

----------------------------------------------------------------------------
(* What is borrowed from a node *)

\* The edges of a graph lead to its nodes.
Closed(g) == IsFiniteSet(DOMAIN g) /\ \A n \in DOMAIN g : all_borrows(g, n) \subseteq DOMAIN g

Further(g, ids) == ids \cup UNION {all_borrows(g, n) : n \in ids}

\* What is reached with k edges and fewer.
IsReach(reach, g, id) ==
  /\ reach[0] = all_borrows(g, id)
  /\ \A k \in 1..Cardinality(DOMAIN g) : reach[k] = Further(g, reach[k - 1])
  /\ \A k \in 0..Cardinality(DOMAIN g) : reach[k] \in SUBSET DOMAIN g
  /\ BorrowedFrom(g, id) = reach[Cardinality(DOMAIN g)]

LEMMA ReachExists ==
  ASSUME NEW g, NEW id \in DOMAIN g, Closed(g)
  PROVE  Cardinality(DOMAIN g) \in Nat /\ \E reach : IsReach(reach, g, id)
<1> DEFINE N == Cardinality(DOMAIN g)
           R == SUBSET DOMAIN g
           base == all_borrows(g, id)
           step == [k \in 1..N |-> [S \in R |-> Further(g, S)]]
           ReachAt(f, k) == IF k = 0 THEN base ELSE Further(g, f[k - 1])
           value == CHOOSE f : f = [k \in 0..N |-> ReachAt(f, k)]
<1>1. N \in Nat /\ base \in R
  BY FS_CardinalityType DEF Closed
<1>2. \A S \in R : Further(g, S) \in R
  BY DEF Further, Closed
<1>3. step \in [1..N -> [R -> R]]
  <2> HIDE DEF R, N
  <2> QED
    BY <1>2
<1>4. PICK f \in [0..N -> R] : Recurs(f, N, base, step)
  <2> HIDE DEF R, N, base, step
  <2> QED
    BY <1>1, <1>3, RecursionExists
<1>5. f = [k \in 0..N |-> ReachAt(f, k)]
  <2>1. f = [k \in 0..N |-> IF k = 0 THEN base ELSE step[k][f[k - 1]]]
    BY <1>4 DEF Recurs
  <2>2. ASSUME NEW k \in 0..N
        PROVE  (IF k = 0 THEN base ELSE step[k][f[k - 1]]) = ReachAt(f, k)
    <3>1. CASE k = 0
      BY <3>1
    <3>2. CASE k # 0
      <4>1. k \in 1..N /\ k - 1 \in 0..N
        <5> HIDE DEF N
        <5> QED
          BY <1>1, <3>2
      <4>2. f[k - 1] \in R
        <5> HIDE DEF N, R
        <5> QED
          BY <1>4, <4>1
      <4>3. step[k][f[k - 1]] = Further(g, f[k - 1])
        <5> HIDE DEF R, N
        <5> QED
          BY <4>1, <4>2
      <4> HIDE DEF R, N, base, step
      <4> QED
        BY <3>2, <4>3
    <3> QED
      BY <3>1, <3>2
  <2> HIDE DEF N, R, base, step, ReachAt
  <2> QED
    BY <2>1, <2>2
<1>6. value = [k \in 0..N |-> ReachAt(value, k)]
  <2> HIDE DEF N, ReachAt
  <2> QED
    BY <1>5
<1>7. BorrowedFrom(g, id) = value[N]
  BY DEF BorrowedFrom, Further
<1>8. /\ value[0] = base
      /\ \A k \in 1..N : value[k] = Further(g, value[k - 1])
  <2> HIDE DEF N, base, value
  <2>1. 0 \in 0..N /\ \A k \in 1..N : k \in 0..N /\ k # 0
    BY <1>1
  <2> QED
    BY <1>6, <2>1
<1>9. \A k \in 0..N : value[k] \in R
  <2> DEFINE C == {k \in Nat : k <= N => value[k] \in R}
  <2> HIDE DEF N, base, value, R
  <2>1. 0 \in C
    BY <1>1, <1>8
  <2>2. ASSUME NEW k \in Nat, k \in C PROVE k + 1 \in C
    <3> SUFFICES ASSUME k + 1 <= N PROVE value[k + 1] \in R
      OBVIOUS
    <3>1. k + 1 \in 1..N /\ k <= N /\ (k + 1) - 1 = k
      BY <1>1
    <3>2. value[k + 1] = Further(g, value[k]) /\ value[k] \in R
      BY <1>8, <2>2, <3>1
    <3> QED
      BY <1>2, <3>2
  <2>3. Nat \subseteq C
    <3> HIDE DEF C
    <3> QED
      BY <2>1, <2>2, NatSetInduction
  <2> QED
    BY <1>1, <2>3
<1> HIDE DEF value, base, R
<1>10. IsReach(value, g, id)
  BY <1>7, <1>8, <1>9 DEF IsReach, base, R
<1> QED
  BY <1>1, <1>10

\* The nodes borrowed from a node are the fewest that have those at the ends of
\* its edges and of theirs.
LEMMA BorrowedFromIs ==
  ASSUME NEW g, NEW id \in DOMAIN g, Closed(g)
  PROVE  /\ BorrowedFrom(g, id) \subseteq DOMAIN g
         /\ all_borrows(g, id) \subseteq BorrowedFrom(g, id)
         /\ \A n \in BorrowedFrom(g, id) : all_borrows(g, n) \subseteq BorrowedFrom(g, id)
<1> DEFINE N == Cardinality(DOMAIN g)
<1>1. N \in Nat
  BY ReachExists
<1>2. PICK reach : IsReach(reach, g, id)
  BY ReachExists
<1>3. /\ reach[0] = all_borrows(g, id)
      /\ \A k \in 1..N : reach[k] = Further(g, reach[k - 1])
      /\ \A k \in 0..N : reach[k] \in SUBSET DOMAIN g
      /\ BorrowedFrom(g, id) = reach[N]
  BY <1>2 DEF IsReach
<1> HIDE DEF N
<1>4. \A k \in 0..N : IsFiniteSet(reach[k]) /\ Cardinality(reach[k]) \in Nat
  BY <1>3, FS_Subset, FS_CardinalityType DEF Closed
<1> DEFINE Stable(k) == Further(g, reach[k]) = reach[k]
           C == {k \in Nat : k <= N => /\ all_borrows(g, id) \subseteq reach[k]
                                       /\ Stable(k) \/ Cardinality(reach[k]) >= k}
<1>5. 0 \in C
  <2>1. Cardinality(reach[0]) >= 0
    BY <1>1, <1>4
  <2> QED
    BY <1>3, <2>1
<1>6. ASSUME NEW k \in Nat, k \in C PROVE k + 1 \in C
  <2> SUFFICES ASSUME k + 1 <= N
               PROVE  /\ all_borrows(g, id) \subseteq reach[k + 1]
                      /\ Stable(k + 1) \/ Cardinality(reach[k + 1]) >= k + 1
    OBVIOUS
  <2>1. k + 1 \in 1..N /\ k + 1 \in 0..N /\ k \in 0..N /\ k <= N /\ (k + 1) - 1 = k
    BY <1>1
  <2>2. reach[k + 1] = Further(g, reach[k])
    BY <1>3, <2>1
  <2>3. reach[k] \subseteq reach[k + 1]
    BY <2>2 DEF Further
  <2>4. CASE Stable(k)
    BY <1>6, <2>1, <2>2, <2>4
  <2>5. CASE ~Stable(k)
    <3>1. Cardinality(reach[k]) >= k
      BY <1>6, <2>1, <2>5
    <3>2. reach[k] # reach[k + 1]
      BY <2>2, <2>5
    <3>3. Cardinality(reach[k]) < Cardinality(reach[k + 1])
      <4> HIDE DEF Stable, C
      <4> QED
        BY <1>4, <2>1, <2>3, <3>2, FS_Subset
    <3>4. Cardinality(reach[k + 1]) >= k + 1
      BY <1>4, <2>1, <3>1, <3>3
    <3> QED
      BY <1>6, <2>1, <2>3, <3>4
  <2> QED
    BY <2>4, <2>5
<1>7. N \in C
  <2> HIDE DEF C
  <2> QED
    BY <1>1, <1>5, <1>6, NatSetInduction
<1>8. Stable(N)
  <2> SUFFICES ASSUME ~Stable(N) PROVE FALSE
    OBVIOUS
  <2>1. Cardinality(reach[N]) >= N /\ N \in 0..N
    BY <1>1, <1>7
  <2>2. reach[N] = DOMAIN g
    <3>1. reach[N] \subseteq DOMAIN g
      BY <1>3, <2>1
    <3>2. reach[N] # DOMAIN g => Cardinality(reach[N]) < N
      <4> DEFINE D == DOMAIN g
      <4>1. IsFiniteSet(D) /\ reach[N] \in SUBSET D /\ N = Cardinality(D) /\ Cardinality(D) \in Nat
        BY <1>1, <3>1 DEF N, Closed
      <4>2. Cardinality(reach[N]) <= Cardinality(D) /\ (Cardinality(D) = Cardinality(reach[N]) => D = reach[N])
        <5> HIDE DEF D, Stable, C
        <5> QED
          BY <4>1, FS_Subset
      <4> QED
        BY <1>4, <2>1, <4>1, <4>2
    <3> QED
      BY <1>1, <1>4, <2>1, <3>2
  <2> QED
    BY <2>2 DEF Further, Closed
<1>9. all_borrows(g, id) \subseteq reach[N] /\ N \in 0..N
  BY <1>1, <1>7
<1>10. \A n \in reach[N] : all_borrows(g, n) \subseteq reach[N]
  BY <1>8 DEF Further
<1> HIDE DEF Stable, C
<1> QED
  BY <1>3, <1>9, <1>10

LEMMA BorrowedFromLeast ==
  ASSUME NEW g, NEW id \in DOMAIN g, Closed(g),
         NEW S, all_borrows(g, id) \subseteq S,
         \A n \in S \cap DOMAIN g : all_borrows(g, n) \subseteq S
  PROVE  BorrowedFrom(g, id) \subseteq S
<1> DEFINE N == Cardinality(DOMAIN g)
<1>1. N \in Nat
  BY ReachExists
<1>2. PICK reach : IsReach(reach, g, id)
  BY ReachExists
<1>3. /\ reach[0] = all_borrows(g, id)
      /\ \A k \in 1..N : reach[k] = Further(g, reach[k - 1])
      /\ \A k \in 0..N : reach[k] \in SUBSET DOMAIN g
      /\ BorrowedFrom(g, id) = reach[N]
  BY <1>2 DEF IsReach
<1> HIDE DEF N
<1> DEFINE C == {k \in Nat : k <= N => reach[k] \subseteq S}
<1>4. 0 \in C
  BY <1>3
<1>5. ASSUME NEW k \in Nat, k \in C PROVE k + 1 \in C
  <2> SUFFICES ASSUME k + 1 <= N PROVE reach[k + 1] \subseteq S
    OBVIOUS
  <2>1. k + 1 \in 1..N /\ k \in 0..N /\ k <= N /\ (k + 1) - 1 = k
    BY <1>1
  <2>2. reach[k + 1] = Further(g, reach[k]) /\ reach[k] \subseteq DOMAIN g
    BY <1>3, <2>1
  <2>3. reach[k] \subseteq S
    BY <1>5, <2>1
  <2> QED
    BY <2>2, <2>3 DEF Further
<1>6. N \in C
  <2> HIDE DEF C
  <2> QED
    BY <1>1, <1>4, <1>5, NatSetInduction
<1> QED
  BY <1>1, <1>3, <1>6

----------------------------------------------------------------------------
(* Graphs, and the edges that say what is so *)

Element == ({"local", "arg"} \X Nat) \cup ({"global"} \X {Global}) \cup ({"field"} \X FieldNames)
Paths == Seq(Element)
Edges == [strong : BOOLEAN, label : Paths, to : Nat]

Graph(g) ==
  /\ frame_root \in DOMAIN g /\ DOMAIN g \subseteq Nat /\ Closed(g)
  /\ \A n \in DOMAIN g : g[n] \subseteq Edges
  /\ acyclic(g)
  /\ \A e \in g[frame_root] : e.label # <<>>

\* p gives the place of each node; that of the frame is empty.
Placed(D, p) ==
  /\ p[frame_root] = <<>>
  /\ \A n \in D : p[n] \in Paths /\ (n # frame_root => p[n] # <<>>)

Holds(p, m, e) ==
  IF e.strong THEN p[e.to] = p[m] \o e.label ELSE IsPrefix(p[m] \o e.label, p[e.to])

TrueEdges(g, p) ==
  {x \in (DOMAIN g) \X (DOMAIN g) : \E e \in g[x[1]] : e.to = x[2] /\ Holds(p, x[1], e)}

\* There is a way along true edges.
Leads(g, p, a, b) == Reaches(DOMAIN g, TrueEdges(g, p), a, b)

LEMMA TrueEdge ==
  ASSUME NEW g, NEW p, NEW a \in DOMAIN g, NEW b \in DOMAIN g
  PROVE  <<a, b>> \in TrueEdges(g, p) <=> \E e \in g[a] : e.to = b /\ Holds(p, a, e)
BY DEF TrueEdges

LEMMA LeadsAlong ==
  ASSUME NEW g, NEW p, NEW a \in DOMAIN g, NEW e \in g[a], e.to \in DOMAIN g, Holds(p, a, e)
  PROVE  Leads(g, p, a, e.to)
BY TrueEdge, ReachesNext DEF Leads

LEMMA HoldsExtends ==
  ASSUME NEW D, NEW p, Placed(D, p), NEW m \in D, NEW e \in Edges, e.to \in D, Holds(p, m, e)
  PROVE  /\ IsPrefix(p[m] \o e.label, p[e.to])
         /\ IsPrefix(p[m], p[e.to])
<1>1. /\ p[m] \in Seq(Element) /\ p[e.to] \in Seq(Element) /\ e.label \in Seq(Element)
      /\ p[m] \o e.label \in Seq(Element)
  BY Concatenated DEF Placed, Edges, Paths
<1>2. IsPrefix(p[m] \o e.label, p[e.to])
  BY <1>1, PrefixOrder DEF Holds
<1> QED
  BY <1>1, <1>2, PrefixOfConcatenation

LEMMA LeadsExtends ==
  ASSUME NEW g, NEW p, Graph(g), Placed(DOMAIN g, p),
         NEW a \in DOMAIN g, NEW b \in DOMAIN g, Leads(g, p, a, b)
  PROVE  IsPrefix(p[a], p[b])
<1> DEFINE C == {x \in DOMAIN g : IsPrefix(p[a], p[x])}
<1>1. \A x \in DOMAIN g : p[x] \in Seq(Element)
  BY DEF Placed, Paths
<1>2. a \in C
  BY <1>1, PrefixOrder
<1>3. ASSUME NEW x \in DOMAIN g \cap C, NEW y \in DOMAIN g, <<x, y>> \in TrueEdges(g, p)
      PROVE  y \in C
  <2>1. PICK e \in g[x] : e.to = y /\ Holds(p, x, e)
    BY <1>3, TrueEdge
  <2>2. e \in Edges
    BY DEF Graph
  <2>3. IsPrefix(p[x], p[y])
    BY <2>1, <2>2, HoldsExtends
  <2>4. IsPrefix(p[a], p[y])
    BY <1>1, <2>3, PrefixOrder
  <2> QED
    BY <2>4
<1> HIDE DEF C
<1>4. b \in C
  BY <1>2, <1>3, ReachesWithin DEF Leads
<1> QED
  BY <1>4 DEF C

\* The first edge of the way from a node to another.
LEMMA LeadsFirst ==
  ASSUME NEW g, NEW p, Graph(g), Placed(DOMAIN g, p),
         NEW a \in DOMAIN g, NEW b \in DOMAIN g, a # b, Leads(g, p, a, b)
  PROVE  \E e \in g[a] : /\ e \in Edges /\ e.to \in DOMAIN g /\ Holds(p, a, e)
                         /\ Leads(g, p, e.to, b)
                         /\ IsPrefix(p[a] \o e.label, p[b])
<1>1. PICK m \in DOMAIN g : <<a, m>> \in TrueEdges(g, p) /\ Leads(g, p, m, b)
  BY ReachesFirst DEF Leads
<1>2. PICK e \in g[a] : e.to = m /\ Holds(p, a, e)
  BY <1>1, TrueEdge
<1>3. e \in Edges
  BY DEF Graph
<1>4. IsPrefix(p[a] \o e.label, p[m])
  BY <1>2, <1>3, HoldsExtends
<1>5. IsPrefix(p[m], p[b])
  BY <1>1, LeadsExtends
<1>6. /\ p[a] \in Seq(Element) /\ p[m] \in Seq(Element) /\ p[b] \in Seq(Element)
      /\ e.label \in Seq(Element) /\ p[a] \o e.label \in Seq(Element)
  BY <1>3, Concatenated DEF Placed, Edges, Paths
<1>7. IsPrefix(p[a] \o e.label, p[b])
  BY <1>4, <1>5, <1>6, PrefixTrans, Zenon
<1> QED
  BY <1>1, <1>2, <1>3, <1>7

LEMMA LeadsBorrowed ==
  ASSUME NEW g, NEW p, Graph(g),
         NEW a \in DOMAIN g, NEW b \in DOMAIN g, a # b, Leads(g, p, a, b)
  PROVE  b \in BorrowedFrom(g, a)
<1> DEFINE C == {a} \cup BorrowedFrom(g, a)
<1>1. ASSUME NEW x \in DOMAIN g \cap C, NEW y \in DOMAIN g, <<x, y>> \in TrueEdges(g, p)
      PROVE  y \in C
  <2>1. y \in all_borrows(g, x)
    BY <1>1, TrueEdge DEF all_borrows
  <2> QED
    BY <2>1, BorrowedFromIs DEF Graph
<1>2. a \in C
  OBVIOUS
<1>3. b \in C => b \in BorrowedFrom(g, a)
  OBVIOUS
<1> HIDE DEF C
<1>4. b \in C
  BY <1>1, <1>2, ReachesWithin DEF Leads
<1> QED
  BY <1>3, <1>4

\* Only the places of the graph's nodes matter.
LEMMA LeadsSame ==
  ASSUME NEW g, NEW p, NEW q, \A n \in DOMAIN g : p[n] = q[n]
  PROVE  \A a, b \in DOMAIN g : Leads(g, p, a, b) <=> Leads(g, q, a, b)
<1>1. ASSUME NEW a \in DOMAIN g, NEW b \in DOMAIN g
      PROVE  <<a, b>> \in TrueEdges(g, p) <=> <<a, b>> \in TrueEdges(g, q)
  <2>1. \A e \in g[a] : e.to = b => (Holds(p, a, e) <=> Holds(q, a, e))
    BY DEF Holds
  <2> QED
    BY <2>1, TrueEdge
<1>2. TrueEdges(g, p) = TrueEdges(g, q)
  <2>1. TrueEdges(g, p) \subseteq (DOMAIN g) \X (DOMAIN g)
    BY DEF TrueEdges
  <2>2. TrueEdges(g, q) \subseteq (DOMAIN g) \X (DOMAIN g)
    BY DEF TrueEdges
  <2> QED
    BY <1>1, <2>1, <2>2
<1> QED
  BY <1>2 DEF Leads

\* What led from one node to another does so still.
Keeps(g, p, g2, q) ==
  \A a, b \in DOMAIN g \cap DOMAIN g2 : Leads(g, p, a, b) => Leads(g2, q, a, b)

\* A node n more, which has no edges, or some of those of the one node that has
\* an edge to it.
HasNode(g, g2, n) ==
  /\ n \notin DOMAIN g /\ DOMAIN g2 = DOMAIN g \cup {n}
  /\ \A x \in DOMAIN g : all_borrows(g2, x) \subseteq all_borrows(g, x) \cup {n}
  /\ \/ all_borrows(g2, n) = {}
     \/ \E q \in DOMAIN g : /\ all_borrows(g2, n) \subseteq all_borrows(g, q)
                            /\ \A x \in DOMAIN g : n \in all_borrows(g2, x) => x = q

LEMMA AcyclicWith ==
  ASSUME NEW g, NEW g2, NEW n, Closed(g), acyclic(g), HasNode(g, g2, n)
  PROVE  Closed(g2) /\ acyclic(g2)
<1>1. /\ n \notin DOMAIN g /\ DOMAIN g2 = DOMAIN g \cup {n}
      /\ \A x \in DOMAIN g : all_borrows(g2, x) \subseteq all_borrows(g, x) \cup {n}
  BY DEF HasNode
<1>2. \A x \in DOMAIN g : all_borrows(g, x) \subseteq DOMAIN g
  BY DEF Closed
<1>3. all_borrows(g2, n) \subseteq DOMAIN g
  BY <1>2 DEF HasNode
<1>4. Closed(g2)
  <2>1. IsFiniteSet(DOMAIN g2)
    BY <1>1, FS_AddElement DEF Closed
  <2> QED
    BY <1>1, <1>2, <1>3, <2>1 DEF Closed
<1>5. ASSUME NEW x \in DOMAIN g PROVE x \notin BorrowedFrom(g2, x)
  <2> DEFINE B == BorrowedFrom(g, x)
             S == B \cup {y \in {n} : \E z \in {x} \cup B : n \in all_borrows(g2, z)}
  <2>1. /\ B \subseteq DOMAIN g /\ all_borrows(g, x) \subseteq B
        /\ \A y \in B : all_borrows(g, y) \subseteq B
    BY BorrowedFromIs
  <2>2. x \notin B
    BY DEF acyclic
  <2> HIDE DEF B
  <2>3. \A z \in {x} \cup B : all_borrows(g2, z) \subseteq S
    BY <1>1, <2>1
  <2>4. n \in S => all_borrows(g2, n) \subseteq B
    <3> SUFFICES ASSUME n \in S PROVE all_borrows(g2, n) \subseteq B
      OBVIOUS
    <3>1. PICK z \in {x} \cup B : n \in all_borrows(g2, z)
      BY <1>1, <2>1
    <3>2. all_borrows(g, z) \subseteq B /\ z \in DOMAIN g
      BY <2>1, <3>1
    <3> QED
      BY <3>1, <3>2 DEF HasNode
  <2>5. \A y \in S : all_borrows(g2, y) \subseteq S
    BY <2>3, <2>4
  <2>6. all_borrows(g2, x) \subseteq S
    BY <2>3
  <2>7. x \notin S
    BY <1>1, <2>2
  <2> HIDE DEF S
  <2>8. BorrowedFrom(g2, x) \subseteq S
    BY <1>1, <1>4, <2>5, <2>6, BorrowedFromLeast
  <2> QED
    BY <2>7, <2>8
<1>6. n \notin BorrowedFrom(g2, n)
  <2>1. CASE all_borrows(g2, n) = {}
    <3>1. BorrowedFrom(g2, n) \subseteq {}
      BY <1>1, <1>4, <2>1, BorrowedFromLeast
    <3> QED
      BY <3>1
  <2>2. CASE all_borrows(g2, n) # {}
    <3>1. PICK q \in DOMAIN g : /\ all_borrows(g2, n) \subseteq all_borrows(g, q)
                                /\ \A x \in DOMAIN g : n \in all_borrows(g2, x) => x = q
      BY <2>2 DEF HasNode
    <3> DEFINE B == BorrowedFrom(g, q)
    <3>2. /\ B \subseteq DOMAIN g /\ all_borrows(g, q) \subseteq B
          /\ \A y \in B : all_borrows(g, y) \subseteq B
      BY BorrowedFromIs
    <3>3. q \notin B
      BY DEF acyclic
    <3> HIDE DEF B
    <3>4. \A y \in B : all_borrows(g2, y) \subseteq B
      BY <1>1, <3>1, <3>2, <3>3
    <3>5. all_borrows(g2, n) \subseteq B /\ n \notin B
      BY <1>1, <3>1, <3>2
    <3>6. BorrowedFrom(g2, n) \subseteq B
      BY <1>1, <1>4, <3>4, <3>5, BorrowedFromLeast
    <3> QED
      BY <3>5, <3>6
  <2> QED
    BY <2>1, <2>2
<1> QED
  BY <1>1, <1>4, <1>5, <1>6 DEF acyclic

\* A new node n with weak edges that lead to it; p and q are the places before
\* and after.
AddsWeakly(g, p, nodes, label, n, g2, q) ==
  /\ Graph(g) /\ n \in Nat \ DOMAIN g /\ nodes \subseteq DOMAIN g /\ label \in Paths
  /\ frame_root \in nodes => label # <<>>
  /\ g2 = add_weak_edge(add(g, n), nodes, label, n)
  /\ \A m \in DOMAIN g : q[m] = p[m]

\* What they make of the graph.
WeaklyAdded(g, p, nodes, label, n, g2, q) ==
  /\ Graph(g2) /\ DOMAIN g2 = DOMAIN g \cup {n}
  /\ Keeps(g, p, g2, q)
  /\ \A m \in nodes : IsPrefix(q[m] \o label, q[n]) => Leads(g2, q, m, n)

LEMMA AddedWeakly ==
  ASSUME NEW g, NEW p, NEW nodes, NEW label, NEW n, NEW g2, NEW q,
         AddsWeakly(g, p, nodes, label, n, g2, q)
  PROVE  WeaklyAdded(g, p, nodes, label, n, g2, q)
<1>0. /\ Graph(g) /\ n \in Nat \ DOMAIN g /\ nodes \subseteq DOMAIN g /\ label \in Paths
      /\ frame_root \in nodes => label # <<>>
      /\ g2 = add_weak_edge(add(g, n), nodes, label, n)
      /\ \A m \in DOMAIN g : q[m] = p[m]
  BY DEF AddsWeakly
<1> DEFINE edge == Edge(FALSE, label, n)
<1>1. DOMAIN g2 = DOMAIN g \cup {n}
  BY <1>0 DEF add_weak_edge, add, With
<1>2. /\ \A m \in DOMAIN g : g2[m] = IF m \in nodes THEN g[m] \cup {edge} ELSE g[m]
      /\ g2[n] = {}
  BY <1>0 DEF add_weak_edge, add, With
<1>3. edge \in Edges /\ edge.to = n /\ edge.label = label /\ ~edge.strong
  BY <1>0 DEF Edges, Edge
<1> HIDE DEF edge
<1>4. HasNode(g, g2, n)
  <2>1. all_borrows(g2, n) = {}
    BY <1>0, <1>2 DEF all_borrows
  <2>2. \A x \in DOMAIN g : all_borrows(g2, x) \subseteq all_borrows(g, x) \cup {n}
    BY <1>0, <1>2, <1>3 DEF all_borrows
  <2> QED
    BY <1>0, <1>1, <2>1, <2>2 DEF HasNode
<1>5. Closed(g2) /\ acyclic(g2)
  BY <1>0, <1>4, AcyclicWith DEF Graph
<1>6. Graph(g2)
  <2>1. frame_root \in DOMAIN g2 /\ DOMAIN g2 \subseteq Nat /\ frame_root \in DOMAIN g
    BY <1>0, <1>1 DEF Graph
  <2>2. \A m \in DOMAIN g2 : g2[m] \subseteq Edges
    BY <1>0, <1>1, <1>2, <1>3 DEF Graph
  <2>3. \A e \in g2[frame_root] : e.label # <<>>
    BY <1>0, <1>2, <1>3, <2>1, ZenonT(40) DEF Graph
  <2> QED
    BY <1>0, <1>5, <2>1, <2>2, <2>3 DEF Graph
<1>7. /\ Keeps(g, p, g2, q)
      /\ \A m \in nodes : IsPrefix(q[m] \o label, q[n]) => Leads(g2, q, m, n)
  <2>1. ASSUME NEW x \in DOMAIN g, NEW y \in DOMAIN g, <<x, y>> \in TrueEdges(g, p)
        PROVE  Reaches(DOMAIN g2, TrueEdges(g2, q), x, y)
    <3>1. PICK e \in g[x] : e.to = y /\ Holds(p, x, e)
      BY <1>0, <2>1, TrueEdge
    <3>2. e \in g2[x] /\ Holds(q, x, e)
      BY <1>0, <1>2, <3>1 DEF Holds
    <3> QED
      BY <1>0, <1>1, <3>1, <3>2, LeadsAlong DEF Leads
  <2>2. Keeps(g, p, g2, q)
    BY <1>0, <1>1, <2>1, ReachesMore DEF Keeps, Leads
  <2>3. ASSUME NEW m \in nodes, IsPrefix(q[m] \o label, q[n]) PROVE Leads(g2, q, m, n)
    <3>1. edge \in g2[m] /\ Holds(q, m, edge)
      BY <1>0, <1>2, <1>3, <2>3 DEF Holds
    <3> QED
      BY <1>0, <1>1, <1>3, <3>1, LeadsAlong
  <2> QED
    BY <1>0, <2>2, <2>3
<1> QED
  BY <1>0, <1>1, <1>6, <1>7 DEF WeaklyAdded

\* The edges that a strong edge with the label comes before.
Moved(g, q, label) ==
  {e \in g[q] : label = <<>> \/ (e.label # <<>> /\ Head(e.label) = Head(label))}
Rest(e, label) == [e EXCEPT !.label = IF label = <<>> THEN @ ELSE Tail(@)]

LEMMA RestIs ==
  ASSUME NEW e \in Edges, NEW label, label = <<>> \/ \E x \in Element : label = <<x>>,
         label = <<>> \/ (e.label # <<>> /\ Head(e.label) = Head(label))
  PROVE  /\ Rest(e, label) \in Edges
         /\ Rest(e, label).to = e.to /\ Rest(e, label).strong = e.strong
         /\ label \o Rest(e, label).label = e.label
<1>1. CASE label = <<>>
  <2>1. Rest(e, label) = e
    BY <1>1 DEF Rest, Edges
  <2>2. <<>> \o e.label = e.label
    BY Concatenated DEF Edges, Paths
  <2> QED
    BY <1>1, <2>1, <2>2
<1>2. CASE label # <<>>
  <2>1. PICK x \in Element : label = <<x>>
    BY <1>2
  <2>2. Head(label) = x
    BY <2>1
  <2>3. e.label \in Seq(Element) /\ e.label # <<>>
    BY <1>2 DEF Edges, Paths
  <2>4. Tail(e.label) \in Seq(Element) /\ e.label = <<Head(e.label)>> \o Tail(e.label)
    <3>1. <<>> \o e.label = e.label
      BY <2>3, Concatenated
    <3>2. IsPrefix(<<>> \o e.label, e.label)
      BY <2>3, <3>1, PrefixOrder
    <3> QED
      BY <2>3, <3>2, EmptySeq, GoesOnWith
  <2>5. /\ Rest(e, label).label = Tail(e.label)
        /\ Rest(e, label).to = e.to /\ Rest(e, label).strong = e.strong
        /\ Rest(e, label) \in Edges
    BY <1>2, <2>4 DEF Rest, Edges, Paths
  <2> QED
    BY <1>2, <2>1, <2>2, <2>4, <2>5
<1> QED
  BY <1>1, <1>2

\* A new node n with a strong edge from q; p and r are the places before and after.
AddsStrongly(g, p, q, label, n, g2, r) ==
  /\ Graph(g) /\ n \in Nat \ DOMAIN g /\ q \in DOMAIN g
  /\ label = <<>> \/ \E x \in Element : label = <<x>>
  /\ q = frame_root => label # <<>>
  /\ g2 = add_strong_edge(add(g, n), q, label, n)
  /\ \A m \in DOMAIN g : r[m] = p[m] /\ p[m] \in Paths
  /\ r[n] = r[q] \o label

\* What it makes of the graph.
StronglyAdded(g, p, q, label, n, g2, r) ==
  /\ Graph(g2) /\ DOMAIN g2 = DOMAIN g \cup {n}
  /\ Keeps(g, p, g2, r)
  /\ Leads(g2, r, q, n)
  /\ \A e \in Moved(g, q, label) : Holds(p, q, e) => Leads(g2, r, n, e.to)

LEMMA AddedStrongly ==
  ASSUME NEW g, NEW p, NEW q, NEW label, NEW n, NEW g2, NEW r,
         AddsStrongly(g, p, q, label, n, g2, r)
  PROVE  StronglyAdded(g, p, q, label, n, g2, r)
<1> DEFINE edge == Edge(TRUE, label, n)
           moved == Moved(g, q, label)
<1>0. /\ Graph(g) /\ n \in Nat \ DOMAIN g /\ q \in DOMAIN g
      /\ label = <<>> \/ \E x \in Element : label = <<x>>
      /\ q = frame_root => label # <<>>
      /\ g2 = add_strong_edge(add(g, n), q, label, n)
      /\ \A m \in DOMAIN g : r[m] = p[m] /\ p[m] \in Paths
      /\ r[n] = r[q] \o label
  BY DEF AddsStrongly
<1>1. label \in Paths
  <2>1. <<>> \in Seq(Element) /\ \A x \in Element : <<x>> \in Seq(Element)
    OBVIOUS
  <2> QED
    BY <1>0, <2>1 DEF Paths
<1>2. DOMAIN g2 = DOMAIN g \cup {n}
  BY <1>0 DEF add_strong_edge, add, With
<1>3. /\ \A m \in DOMAIN g \ {q} : g2[m] = g[m]
      /\ g2[q] = (g[q] \ moved) \cup {edge}
      /\ g2[n] = {Rest(e, label) : e \in moved}
  <2> DEFINE g1 == add(g, n)
  <2>1. /\ DOMAIN g1 = DOMAIN g \cup {n} /\ g1[n] = {}
        /\ \A m \in DOMAIN g : g1[m] = g[m]
    BY <1>0 DEF add, With
  <2>2. g2 = [g1 EXCEPT ![q] = (@ \ Moved(g1, q, label)) \cup {edge},
                        ![n] = {Rest(e, label) : e \in Moved(g1, q, label)}]
    BY <1>0 DEF add_strong_edge, Moved, Rest
  <2>3. Moved(g1, q, label) = moved
    BY <1>0, <2>1 DEF Moved
  <2> HIDE DEF g1, moved, edge
  <2> QED
    BY <1>0, <2>1, <2>2, <2>3
<1>4. edge \in Edges /\ edge.to = n /\ edge.label = label /\ edge.strong
  BY <1>0, <1>1 DEF Edges, Edge
<1>5. \A e \in moved : /\ e \in g[q] /\ e \in Edges
                       /\ label = <<>> \/ (e.label # <<>> /\ Head(e.label) = Head(label))
  BY <1>0 DEF Moved, Graph
<1>6. \A e \in moved : /\ Rest(e, label) \in Edges
                       /\ Rest(e, label).to = e.to /\ Rest(e, label).strong = e.strong
                       /\ label \o Rest(e, label).label = e.label
  BY <1>0, <1>5, RestIs
<1> HIDE DEF edge, moved
<1>7. HasNode(g, g2, n)
  <2>1. \A x \in DOMAIN g \ {q} : all_borrows(g2, x) = all_borrows(g, x)
    BY <1>0, <1>3 DEF all_borrows
  <2>2. all_borrows(g2, q) \subseteq all_borrows(g, q) \cup {n}
    BY <1>0, <1>3, <1>4 DEF all_borrows
  <2>3. all_borrows(g2, n) \subseteq all_borrows(g, q)
    BY <1>0, <1>3, <1>5, <1>6 DEF all_borrows
  <2>4. \A x \in DOMAIN g : n \notin all_borrows(g, x)
    BY <1>0 DEF Graph, Closed
  <2> QED
    BY <1>0, <1>2, <2>1, <2>2, <2>3, <2>4 DEF HasNode
<1>8. Closed(g2) /\ acyclic(g2)
  BY <1>0, <1>7, AcyclicWith DEF Graph
<1>9. Graph(g2)
  <2>1. frame_root \in DOMAIN g2 /\ DOMAIN g2 \subseteq Nat /\ frame_root \in DOMAIN g
    BY <1>0, <1>2 DEF Graph
  <2>2. \A m \in DOMAIN g2 : g2[m] \subseteq Edges
    <3>1. g2[n] \subseteq Edges
      BY <1>0, <1>3, <1>6
    <3>2. \A m \in DOMAIN g : g2[m] \subseteq Edges
      BY <1>0, <1>3, <1>4 DEF Graph
    <3> QED
      BY <1>0, <1>2, <3>1, <3>2
  <2>3. \A e \in g2[frame_root] : e.label # <<>>
    <3>1. CASE q = frame_root
      BY <1>0, <1>3, <1>4, <2>1, <3>1 DEF Graph
    <3>2. CASE q # frame_root
      BY <1>0, <1>3, <2>1, <3>2 DEF Graph
    <3> QED
      BY <1>0, <3>1, <3>2
  <2> QED
    BY <1>0, <1>8, <2>1, <2>2, <2>3 DEF Graph
<1>10. /\ Keeps(g, p, g2, r)
       /\ Leads(g2, r, q, n)
       /\ \A e \in moved : Holds(p, q, e) => Leads(g2, r, n, e.to)
  <2>1. Leads(g2, r, q, n)
    <3>1. edge \in g2[q] /\ Holds(r, q, edge)
      BY <1>0, <1>3, <1>4 DEF Holds
    <3> QED
      BY <1>0, <1>2, <1>4, <3>1, LeadsAlong
  <2>2. ASSUME NEW e \in moved, Holds(p, q, e) PROVE Leads(g2, r, n, e.to)
    <3> DEFINE rest == Rest(e, label)
    <3>1. rest \in g2[n] /\ rest.to = e.to /\ rest.strong = e.strong /\ rest \in Edges
      BY <1>0, <1>3, <1>6
    <3>2. e.to \in DOMAIN g
      BY <1>0, <1>5 DEF Graph, Closed, all_borrows
    <3>3. r[n] \o rest.label = p[q] \o e.label
      <4>1. label \in Seq(Element) /\ rest.label \in Seq(Element) /\ p[q] \in Seq(Element)
        BY <1>0, <1>1, <3>1 DEF Paths, Edges
      <4>2. (p[q] \o label) \o rest.label = p[q] \o (label \o rest.label)
        <5>1. \A s, t, u \in Seq(Element) : (s \o t) \o u = s \o (t \o u)
          BY <1>0, ConcatenationAssociates
        <5> HIDE DEF rest
        <5> QED
          BY <1>0, <4>1, <5>1, Zenon
      <4>3. label \o rest.label = e.label /\ r[n] = p[q] \o label
        BY <1>0, <1>6
      <4> HIDE DEF rest
      <4> QED
        BY <1>0, <4>2, <4>3
    <3>4. r[e.to] = p[e.to]
      BY <1>0, <3>2
    <3>5. Holds(r, n, rest)
      <4> HIDE DEF rest
      <4> QED
        BY <1>0, <2>2, <3>1, <3>3, <3>4 DEF Holds
    <3> HIDE DEF rest
    <3> QED
      BY <1>0, <1>2, <3>1, <3>2, <3>5, LeadsAlong
  <2>3. ASSUME NEW x \in DOMAIN g, NEW y \in DOMAIN g, <<x, y>> \in TrueEdges(g, p)
        PROVE  Reaches(DOMAIN g2, TrueEdges(g2, r), x, y)
    <3>1. PICK e \in g[x] : e.to = y /\ Holds(p, x, e)
      BY <1>0, <2>3, TrueEdge
    <3>2. CASE x = q /\ e \in moved
      <4>1. Leads(g2, r, n, y)
        BY <1>0, <2>2, <3>1, <3>2
      <4> QED
        BY <1>0, <2>1, <3>2, <4>1, ReachesOn DEF Leads
    <3>3. CASE ~ (x = q /\ e \in moved)
      <4>1. e \in g2[x] /\ Holds(r, x, e)
        BY <1>0, <1>3, <3>1, <3>3 DEF Holds
      <4> QED
        BY <1>0, <1>2, <3>1, <4>1, LeadsAlong DEF Leads
    <3> QED
      BY <1>0, <3>2, <3>3
  <2>4. Keeps(g, p, g2, r)
    BY <1>0, <1>2, <2>3, ReachesMore DEF Keeps, Leads
  <2> QED
    BY <1>0, <2>1, <2>2, <2>4
<1> QED
  BY <1>0, <1>2, <1>9, <1>10 DEF moved, StronglyAdded

\* An edge to a node and one that leaves it, in one.
Through(r, e) ==
  IF r.strong THEN Edge(e.strong, r.label \o e.label, e.to) ELSE Edge(FALSE, r.label, e.to)

LEMMA ThroughIs ==
  ASSUME NEW r \in Edges, NEW e \in Edges
  PROVE  /\ Through(r, e) \in Edges /\ Through(r, e).to = e.to
         /\ r.label # <<>> => Through(r, e).label # <<>>
<1>1. /\ r.label \in Seq(Element) /\ e.label \in Seq(Element) /\ r.label \o e.label \in Seq(Element)
      /\ e.strong \in BOOLEAN /\ r.strong \in BOOLEAN /\ e.to \in Nat
  BY Concatenated DEF Edges, Paths
<1>2. r.label # <<>> => r.label \o e.label # <<>>
  BY <1>1, ConcatEmptySeq
<1>3. CASE r.strong
  <2>1. Through(r, e) = Edge(e.strong, r.label \o e.label, e.to)
    BY <1>3 DEF Through
  <2> DEFINE l == r.label \o e.label
  <2>2. l \in Paths
    BY <1>1 DEF Paths
  <2>3. r.label # <<>> => l # <<>>
    BY <1>2
  <2> HIDE DEF l
  <2>4. Edge(e.strong, l, e.to) \in Edges /\ Edge(e.strong, l, e.to).to = e.to /\ Edge(e.strong, l, e.to).label = l
    BY <1>1, <2>2 DEF Edge, Edges
  <2> QED
    BY <2>1, <2>3, <2>4 DEF l
<1>4. CASE ~r.strong
  <2>1. Through(r, e) = Edge(FALSE, r.label, e.to)
    BY <1>4 DEF Through
  <2> QED
    BY <1>1, <2>1 DEF Edge, Edges, Paths
<1> QED
  BY <1>3, <1>4

LEMMA ThroughHolds ==
  ASSUME NEW D, NEW p, Placed(D, p), NEW m \in D, NEW r \in Edges, NEW e \in Edges,
         r.to \in D, e.to \in D, Holds(p, m, r), Holds(p, r.to, e)
  PROVE  Holds(p, m, Through(r, e))
<1> DEFINE a == p[m]
           b == p[r.to]
           c == p[e.to]
           l == r.label
           k == e.label
<1>1. /\ a \in Seq(Element) /\ b \in Seq(Element) /\ c \in Seq(Element)
      /\ l \in Seq(Element) /\ k \in Seq(Element)
  BY DEF Placed, Edges, Paths
<1>2. IsPrefix(a \o l, b) /\ IsPrefix(b \o k, c) /\ IsPrefix(b, c)
  BY HoldsExtends
<1>3. /\ r.strong => b = a \o l
      /\ e.strong => c = b \o k
  BY DEF Holds
<1>4. a \o l \in Seq(Element) /\ (a \o l) \o k = a \o (l \o k)
  <2>1. \A s, t, u \in Seq(Element) : (s \o t) \o u = s \o (t \o u)
    BY ConcatenationAssociates
  <2> HIDE DEF a, l, k
  <2>2. (a \o l) \o k = a \o (l \o k)
    BY <1>1, <2>1, SMTT(30)
  <2>3. a \o l \in Seq(Element)
    BY <1>1, Concatenated
  <2> QED
    BY <2>2, <2>3
<1>5. IsPrefix(a \o l, c)
  <2> HIDE DEF a, b, c, l, k
  <2> QED
    BY <1>1, <1>2, <1>4, PrefixTrans, Zenon
<1>6. CASE r.strong
  <2> DEFINE t == Through(r, e)
  <2>1. t.label = l \o k /\ t.to = e.to /\ t.strong = e.strong
    BY <1>6 DEF Through, Edge
  <2>2. e.strong => c = a \o (l \o k)
    <3> HIDE DEF a, b, c, l, k
    <3> QED
      BY <1>3, <1>4, <1>6, Zenon
  <2>3. IsPrefix(a \o (l \o k), c)
    <3> HIDE DEF a, b, c, l, k
    <3> QED
      BY <1>2, <1>3, <1>4, <1>6, Zenon
  <2> HIDE DEF t, l, k
  <2> QED
    BY <2>1, <2>2, <2>3 DEF Holds, t
<1>7. CASE ~r.strong
  <2> DEFINE t == Through(r, e)
  <2>1. t.label = l /\ t.to = e.to /\ ~t.strong
    BY <1>7 DEF Through, Edge
  <2> HIDE DEF t, l
  <2> QED
    BY <1>5, <2>1 DEF Holds, t
<1> QED
  BY <1>6, <1>7

\* A node that goes.
LEMMA Removed ==
  ASSUME NEW g, Graph(g), NEW id \in DOMAIN g \ {frame_root}, NEW g2, g2 = remove(g, id)
  PROVE  /\ Graph(g2) /\ DOMAIN g2 = DOMAIN g \ {id}
         /\ \A p : Placed(DOMAIN g, p) => Keeps(g, p, g2, p)
<1> DEFINE into(n) == {e \in g[n] : e.to = id}
<1>1. DOMAIN g2 = DOMAIN g \ {id}
  BY DEF remove
<1>2. \A n \in DOMAIN g \ {id} :
        g2[n] = (g[n] \ into(n)) \cup {Through(x[1], x[2]) : x \in into(n) \X g[id]}
  BY DEF remove, Through
<1> HIDE DEF into
<1>3. \A n \in DOMAIN g : g[n] \subseteq Edges /\ \A e \in g[n] : e.to \in DOMAIN g
  BY DEF Graph, Closed, all_borrows
<1>4. ASSUME NEW n \in DOMAIN g \ {id}, NEW e \in g2[n]
      PROVE  \/ e \in g[n] /\ e.to # id
             \/ \E r \in into(n), o \in g[id] : e = Through(r, o)
  BY <1>2 DEF into
<1>5. \A n \in DOMAIN g \ {id} : \A r \in into(n), o \in g[id] :
        /\ r \in Edges /\ o \in Edges /\ r \in g[n] /\ r.to = id
        /\ Through(r, o) \in Edges /\ Through(r, o).to = o.to
        /\ r.label # <<>> => Through(r, o).label # <<>>
  <2>1. \A n \in DOMAIN g \ {id} : \A r \in into(n), o \in g[id] :
          r \in Edges /\ o \in Edges /\ r \in g[n] /\ r.to = id
    BY <1>3 DEF into
  <2> QED
    BY <2>1, ThroughIs
<1>6. \A o \in g[id] : o.to \in DOMAIN g \ {id}
  <2>1. id \notin all_borrows(g, id)
    BY BorrowedFromIs DEF Graph, acyclic
  <2> QED
    BY <1>3, <2>1 DEF all_borrows
<1>7. \A n \in DOMAIN g2 : g2[n] \subseteq Edges /\ \A e \in g2[n] : e.to \in DOMAIN g2
  <2> SUFFICES ASSUME NEW n \in DOMAIN g2, NEW e \in g2[n]
               PROVE  e \in Edges /\ e.to \in DOMAIN g2
    OBVIOUS
  <2> QED
    BY <1>1, <1>3, <1>4, <1>5, <1>6
<1>8. Closed(g2)
  <2>1. IsFiniteSet(DOMAIN g2)
    BY <1>1, FS_RemoveElement DEF Graph, Closed
  <2> QED
    BY <1>7, <2>1 DEF Closed, all_borrows
<1>9. ASSUME NEW x \in DOMAIN g2 PROVE x \notin BorrowedFrom(g2, x)
  <2> DEFINE B == BorrowedFrom(g, x)
  <2>1. /\ B \subseteq DOMAIN g /\ all_borrows(g, x) \subseteq B
        /\ \A y \in B : all_borrows(g, y) \subseteq B
    BY <1>1, BorrowedFromIs DEF Graph
  <2>2. x \notin B
    BY <1>1 DEF Graph, acyclic
  <2> HIDE DEF B
  <2>3. ASSUME NEW y \in DOMAIN g2, all_borrows(g, y) \subseteq B
        PROVE  all_borrows(g2, y) \subseteq B
    <3> SUFFICES ASSUME NEW e \in g2[y] PROVE e.to \in B
      BY DEF all_borrows
    <3>1. y \in DOMAIN g \ {id}
      BY <1>1
    <3>2. CASE e \in g[y]
      BY <2>3, <3>2 DEF all_borrows
    <3>3. CASE \E r \in into(y), o \in g[id] : e = Through(r, o)
      <4>1. PICK r \in into(y), o \in g[id] : e = Through(r, o)
        BY <3>3
      <4>2. e.to = o.to /\ r \in g[y] /\ r.to = id
        BY <1>5, <3>1, <4>1
      <4>3. id \in B
        BY <2>3, <4>2 DEF all_borrows
      <4>4. o.to \in B
        BY <2>1, <4>3 DEF all_borrows
      <4> QED
        BY <4>2, <4>4
    <3> QED
      BY <1>4, <3>1, <3>2, <3>3
  <2>4. all_borrows(g2, x) \subseteq B
    BY <2>1, <2>3
  <2>5. \A n \in B \cap DOMAIN g2 : all_borrows(g2, n) \subseteq B
    BY <2>1, <2>3
  <2>6. BorrowedFrom(g2, x) \subseteq B
    BY <1>8, <2>4, <2>5, BorrowedFromLeast
  <2> QED
    BY <2>2, <2>6
<1>10. Graph(g2)
  <2>1. frame_root \in DOMAIN g2 /\ DOMAIN g2 \subseteq Nat
    BY <1>1 DEF Graph
  <2>2. \A e \in g2[frame_root] : e.label # <<>>
    <3> SUFFICES ASSUME NEW e \in g2[frame_root] PROVE e.label # <<>>
      OBVIOUS
    <3>1. frame_root \in DOMAIN g \ {id} /\ \A o \in g[frame_root] : o.label # <<>>
      BY DEF Graph
    <3> QED
      BY <1>4, <1>5, <3>1
  <2> QED
    BY <1>7, <1>8, <1>9, <2>1, <2>2 DEF Graph, acyclic
<1>11. ASSUME NEW p, Placed(DOMAIN g, p) PROVE Keeps(g, p, g2, p)
  <2>1. ASSUME NEW x \in DOMAIN g \ {id}, NEW y \in DOMAIN g \ {id},
               <<x, y>> \in TrueEdges(g, p)
        PROVE  <<x, y>> \in TrueEdges(g2, p)
    <3>1. PICK e \in g[x] : e.to = y /\ Holds(p, x, e)
      BY <2>1, TrueEdge
    <3>2. e \in g2[x]
      BY <1>2, <3>1 DEF into
    <3> QED
      BY <1>1, <3>1, <3>2, TrueEdge
  <2>2. ASSUME NEW x \in DOMAIN g \ {id}, NEW y \in DOMAIN g \ {id},
               <<x, id>> \in TrueEdges(g, p), <<id, y>> \in TrueEdges(g, p)
        PROVE  <<x, y>> \in TrueEdges(g2, p)
    <3>1. PICK r \in g[x] : r.to = id /\ Holds(p, x, r)
      BY <2>2, TrueEdge
    <3>2. PICK e \in g[id] : e.to = y /\ Holds(p, id, e)
      BY <2>2, TrueEdge
    <3>3. r \in Edges /\ e \in Edges
      BY <1>3
    <3>4. Through(r, e) \in g2[x]
      <4>1. r \in into(x)
        BY <3>1 DEF into
      <4>2. <<r, e>> \in into(x) \X g[id] /\ Through(<<r, e>>[1], <<r, e>>[2]) = Through(r, e)
        BY <4>1
      <4> QED
        BY <1>2, <4>2
    <3>5. Holds(p, x, Through(r, e))
      BY <1>11, <3>1, <3>2, <3>3, ThroughHolds
    <3>6. Through(r, e).to = y
      BY <3>2, <3>3, ThroughIs
    <3> QED
      BY <1>1, <3>4, <3>5, <3>6, TrueEdge
  <2>3. ASSUME NEW a \in DOMAIN g \ {id}, NEW b \in DOMAIN g \ {id}, Leads(g, p, a, b)
        PROVE  Leads(g2, p, a, b)
    <3> DEFINE N == DOMAIN g
               R == TrueEdges(g, p)
               R2 == TrueEdges(g2, p)
    <3>1. \A x, y \in N \ {id} : <<x, y>> \in R => <<x, y>> \in R2
      BY <2>1
    <3>2. \A x, y \in N \ {id} : <<x, id>> \in R /\ <<id, y>> \in R => <<x, y>> \in R2
      BY <2>2
    <3>3. Reaches(N, R, a, b) /\ a \in N \ {id} /\ b \in N \ {id}
      BY <2>3 DEF Leads
    <3> HIDE DEF N, R, R2
    <3>4. Reaches(N \ {id}, R2, a, b)
      BY <3>1, <3>2, <3>3, ReachesAround
    <3> QED
      BY <1>1, <3>4 DEF Leads, N, R2
  <2> QED
    BY <1>1, <2>3 DEF Keeps
<1> QED
  BY <1>1, <1>10, <1>11

\* The graphs that remove_each makes one of the other.
Removes(left, g, ids) ==
  left = [s \in SUBSET ids |->
            IF s = {} THEN g ELSE remove(left[s \ {Chosen(s)}], Chosen(s))]

LEMMA RemovesExists ==
  ASSUME NEW g, NEW ids, IsFiniteSet(ids)
  PROVE  \E left : Removes(left, g, ids)
<1> DEFINE Small(n) == {s \in SUBSET ids : Cardinality(s) <= n}
           Left(f, s) == IF s = {} THEN g ELSE remove(f[s \ {Chosen(s)}], Chosen(s))
           C == {n \in Nat : \E f : f = [s \in Small(n) |-> Left(f, s)]}
<1>1. \A s \in SUBSET ids : /\ IsFiniteSet(s) /\ Cardinality(s) \in Nat
                            /\ Cardinality(s) <= Cardinality(ids)
  BY FS_Subset, FS_CardinalityType
<1>2. \A s \in SUBSET ids : s # {} =>
        /\ Chosen(s) \in s
        /\ s \ {Chosen(s)} \in SUBSET ids
        /\ Cardinality(s \ {Chosen(s)}) = Cardinality(s) - 1
  BY <1>1, FS_RemoveElement DEF Chosen
<1>3. 0 \in C
  <2>1. \A s \in Small(0) : s = {}
    BY <1>1, FS_EmptySet
  <2> DEFINE f == [s \in Small(0) |-> g]
  <2>2. f = [s \in Small(0) |-> Left(f, s)]
    BY <2>1
  <2> QED
    BY <2>2
<1>4. ASSUME NEW n \in Nat, n \in C
      PROVE  n + 1 \in C
  <2>1. PICK f : f = [s \in Small(n) |-> Left(f, s)]
    BY <1>4
  <2> DEFINE h == [s \in Small(n + 1) |-> Left(f, s)]
  <2>2. \A s \in Small(n + 1) : s # {} => s \ {Chosen(s)} \in Small(n)
    BY <1>1, <1>2
  <2>3. \A s \in Small(n) : s \in Small(n + 1)
    BY <1>1
  <2>4. \A s \in Small(n) : h[s] = f[s]
    <3> HIDE DEF Small, Left
    <3> QED
      BY <2>1, <2>3
  <2>5. \A s \in Small(n + 1) : Left(h, s) = Left(f, s)
    <3> HIDE DEF h, Small
    <3> QED
      BY <2>2, <2>4
  <2>6. h = [s \in Small(n + 1) |-> Left(h, s)]
    <3>1. h = [s \in Small(n + 1) |-> Left(f, s)]
      OBVIOUS
    <3> HIDE DEF h, Small, Left
    <3> QED
      BY <2>5, <3>1
  <2>7. \E i : i = [s \in Small(n + 1) |-> Left(i, s)]
    <3> HIDE DEF h, Small, Left
    <3> QED
      BY <2>6
  <2>8. n + 1 \in Nat
    OBVIOUS
  <2> HIDE DEF Small, Left
  <2> QED
    BY <2>7, <2>8
<1>5. Cardinality(ids) \in C
  <2> HIDE DEF C
  <2> QED
    BY <1>1, <1>3, <1>4, NatSetInduction
<1>6. Small(Cardinality(ids)) = SUBSET ids
  BY <1>1
<1>7. PICK f : f = [s \in Small(Cardinality(ids)) |-> Left(f, s)]
  BY <1>5
<1>8. f = [s \in SUBSET ids |-> Left(f, s)]
  <2>1. f = [s \in Small(Cardinality(ids)) |-> Left(f, s)]
    BY <1>7
  <2> HIDE DEF Small, Left
  <2> QED
    BY <1>6, <2>1
<1>9. Removes(f, g, ids)
  BY <1>8 DEF Removes
<1> QED
  BY <1>9

\* g2 is what is left of g without ids.
Leaves(g, ids, g2) ==
  /\ Graph(g2) /\ DOMAIN g2 = DOMAIN g \ ids
  /\ \A p : Placed(DOMAIN g, p) => Keeps(g, p, g2, p)

LEMMA RemovedEach ==
  ASSUME NEW g, Graph(g), NEW ids \in SUBSET (DOMAIN g \ {frame_root})
  PROVE  Leaves(g, ids, remove_each(g, ids))
<1> DEFINE left == CHOOSE f : Removes(f, g, ids)
<1>1. IsFiniteSet(ids)
  BY FS_Subset DEF Graph, Closed
<1>2. Removes(left, g, ids)
  BY <1>1, RemovesExists
<1>3. remove_each(g, ids) = left[ids]
  BY DEF remove_each, Removes, Chosen
<1> HIDE DEF left
<1>4. \A s \in SUBSET ids :
        left[s] = IF s = {} THEN g ELSE remove(left[s \ {Chosen(s)}], Chosen(s))
  BY <1>2 DEF Removes
<1> DEFINE C == {s \in SUBSET ids : Leaves(g, s, left[s])}
<1>5. ASSUME NEW s \in SUBSET ids, \A u \in SUBSET s : u # s => u \in C
      PROVE  s \in C
  <2>1. CASE s = {}
    <3>1. left[s] = g
      BY <1>4, <2>1
    <3> QED
      BY <2>1, <3>1 DEF Leaves, Keeps
  <2>2. CASE s # {}
    <3> DEFINE id == Chosen(s)
               u == s \ {id}
               g1 == left[u]
    <3>1. id \in s
      BY <2>2 DEF Chosen
    <3>2. left[s] = remove(g1, id)
      BY <1>4, <2>2
    <3> HIDE DEF id
    <3>3. Leaves(g, u, g1)
      BY <1>5, <3>1
    <3> HIDE DEF C, u, g1
    <3>4. Graph(g1) /\ DOMAIN g1 = DOMAIN g \ u /\ u = s \ {id}
      BY <3>3 DEF Leaves, u
    <3>5. id \in DOMAIN g1 \ {frame_root}
      BY <3>1, <3>4
    <3>6. /\ Graph(left[s]) /\ DOMAIN left[s] = DOMAIN g1 \ {id}
          /\ \A p : Placed(DOMAIN g1, p) => Keeps(g1, p, left[s], p)
      BY <3>2, <3>4, <3>5, Removed
    <3>7. DOMAIN left[s] = DOMAIN g \ s
      BY <3>1, <3>4, <3>6
    <3>8. ASSUME NEW p, Placed(DOMAIN g, p) PROVE Keeps(g, p, left[s], p)
      <4>1. Placed(DOMAIN g1, p)
        BY <3>4, <3>8 DEF Placed
      <4>2. Keeps(g, p, g1, p)
        BY <3>3, <3>8 DEF Leaves
      <4>3. Keeps(g1, p, left[s], p)
        BY <3>6, <4>1
      <4> QED
        BY <3>4, <3>6, <4>2, <4>3 DEF Keeps
    <3>9. Leaves(g, s, left[s])
      BY <3>6, <3>7, <3>8 DEF Leaves
    <3> QED
      BY <3>9 DEF C
  <2> QED
    BY <2>1, <2>2
<1>6. ids \in C
  <2> HIDE DEF C
  <2> QED
    BY <1>1, <1>5, SubsetInduction
<1> QED
  BY <1>3, <1>6

\* Other names for the nodes.
OtherNames(g, p, f, g2, q) ==
  /\ Graph(g) /\ DOMAIN f = DOMAIN g /\ f[frame_root] = frame_root
  /\ \A m \in DOMAIN g : f[m] \in Nat
  /\ \A m, n \in DOMAIN g : f[m] = f[n] => m = n
  /\ g2 = rename_ids(g, f)
  /\ \A m \in DOMAIN g : q[f[m]] = p[m]

LEMMA Renamed ==
  ASSUME NEW g, NEW p, NEW f, NEW g2, NEW q, OtherNames(g, p, f, g2, q)
  PROVE  /\ Graph(g2) /\ DOMAIN g2 = {f[m] : m \in DOMAIN g}
         /\ \A a, b \in DOMAIN g : Leads(g, p, a, b) => Leads(g2, q, f[a], f[b])
<1>0. /\ Graph(g) /\ DOMAIN f = DOMAIN g /\ f[frame_root] = frame_root
      /\ \A m \in DOMAIN g : f[m] \in Nat
      /\ \A m, n \in DOMAIN g : f[m] = f[n] => m = n
      /\ g2 = rename_ids(g, f)
      /\ \A m \in DOMAIN g : q[f[m]] = p[m]
  BY DEF OtherNames
<1> DEFINE renamed(e) == [e EXCEPT !.to = f[e.to]]
<1>1. DOMAIN g2 = {f[m] : m \in DOMAIN g}
  BY <1>0 DEF rename_ids, Range
<1>2. \A m \in DOMAIN g : g2[f[m]] = {renamed(e) : e \in g[m]}
  <2> SUFFICES ASSUME NEW m \in DOMAIN g
               PROVE  g2[f[m]] = {renamed(e) : e \in g[m]}
    BY <1>0
  <2> DEFINE old == [n \in Range(f) |-> CHOOSE k \in DOMAIN f : f[k] = n]
  <2>1. f[m] \in Range(f)
    BY <1>0 DEF Range
  <2>2. old[f[m]] = CHOOSE k \in DOMAIN f : f[k] = f[m]
    BY <1>0, <2>1
  <2>3. old[f[m]] \in DOMAIN f /\ f[old[f[m]]] = f[m]
    BY <1>0, <2>2
  <2>4. old[f[m]] = m
    BY <1>0, <2>3
  <2>5. g2 = [n \in Range(f) |-> {renamed(e) : e \in g[old[n]]}]
    BY <1>0 DEF rename_ids
  <2> HIDE DEF old, renamed
  <2> QED
    BY <1>0, <2>1, <2>4, <2>5
<1>3. \A m \in DOMAIN g : \A e \in g[m] : e \in Edges /\ e.to \in DOMAIN g
  BY <1>0 DEF Graph, Closed, all_borrows
<1>4. \A m \in DOMAIN g : \A e \in g[m] :
        /\ renamed(e) \in Edges /\ renamed(e).to = f[e.to]
        /\ renamed(e).label = e.label /\ renamed(e).strong = e.strong
  BY <1>0, <1>3 DEF Edges
<1> HIDE DEF renamed
<1>5. \A m \in DOMAIN g : all_borrows(g2, f[m]) = {f[x] : x \in all_borrows(g, m)}
  BY <1>0, <1>2, <1>4 DEF all_borrows
<1>6. Closed(g2)
  <2>1. IsFiniteSet({f[m] : m \in DOMAIN g})
    <3> DEFINE D == DOMAIN g
               T == {f[m] : m \in D}
               h == [m \in D |-> f[m]]
    <3>1. h \in Surjection(D, T) /\ IsFiniteSet(D)
      BY <1>0 DEF Surjection, Graph, Closed
    <3> HIDE DEF D, T, h
    <3>2. IsFiniteSet(T)
      BY <1>0, <3>1, FS_Surjection
    <3> QED
      BY <1>0, <3>2 DEF D, T
  <2>2. \A n \in DOMAIN g2 : all_borrows(g2, n) \subseteq DOMAIN g2
    BY <1>0, <1>1, <1>5 DEF Graph, Closed
  <2> QED
    BY <1>0, <1>1, <2>1, <2>2 DEF Closed
<1>7. ASSUME NEW x \in DOMAIN g PROVE f[x] \notin BorrowedFrom(g2, f[x])
  <2> DEFINE B == BorrowedFrom(g, x)
             S == {f[y] : y \in B}
  <2>1. /\ B \subseteq DOMAIN g /\ all_borrows(g, x) \subseteq B
        /\ \A y \in B : all_borrows(g, y) \subseteq B
    BY <1>0, BorrowedFromIs DEF Graph
  <2>2. x \notin B
    BY <1>0 DEF Graph, acyclic
  <2> HIDE DEF B
  <2>3. all_borrows(g2, f[x]) \subseteq S /\ f[x] \in DOMAIN g2
    BY <1>0, <1>1, <1>5, <2>1
  <2>4. \A n \in S : all_borrows(g2, n) \subseteq S
    BY <1>0, <1>5, <2>1
  <2>5. f[x] \notin S
    BY <1>0, <2>1, <2>2
  <2> HIDE DEF S
  <2>6. BorrowedFrom(g2, f[x]) \subseteq S
    BY <1>0, <1>6, <2>3, <2>4, BorrowedFromLeast
  <2> QED
    BY <1>0, <2>5, <2>6
<1>8. Graph(g2)
  <2>1. frame_root \in DOMAIN g
    BY <1>0 DEF Graph
  <2>2. frame_root \in DOMAIN g2 /\ DOMAIN g2 \subseteq Nat
    BY <1>0, <1>1, <2>1
  <2>3. \A n \in DOMAIN g2 : g2[n] \subseteq Edges
    BY <1>0, <1>1, <1>2, <1>4
  <2>4. \A e \in g2[frame_root] : e.label # <<>>
    BY <1>0, <1>2, <1>4, <2>1 DEF Graph
  <2> QED
    BY <1>0, <1>1, <1>6, <1>7, <2>2, <2>3, <2>4 DEF Graph, acyclic
<1>9. ASSUME NEW a \in DOMAIN g, NEW b \in DOMAIN g, Leads(g, p, a, b)
      PROVE  Leads(g2, q, f[a], f[b])
  <2>1. ASSUME NEW x \in DOMAIN g, NEW y \in DOMAIN g, <<x, y>> \in TrueEdges(g, p)
        PROVE  Reaches(DOMAIN g2, TrueEdges(g2, q), f[x], f[y])
    <3>1. PICK e \in g[x] : e.to = y /\ Holds(p, x, e)
      BY <1>0, <2>1, TrueEdge
    <3>2. /\ renamed(e) \in g2[f[x]] /\ renamed(e).to = f[y]
          /\ renamed(e).label = e.label /\ renamed(e).strong = e.strong
      BY <1>0, <1>2, <1>4, <3>1
    <3>3. Holds(q, f[x], renamed(e))
      <4>1. q[f[x]] = p[x] /\ q[f[y]] = p[y]
        BY <1>0
      <4> DEFINE o == renamed(e)
      <4>2. o.to = f[y] /\ o.label = e.label /\ o.strong = e.strong
        BY <1>0, <3>2
      <4> HIDE DEF o
      <4>3. Holds(q, f[x], o)
        BY <1>0, <3>1, <4>1, <4>2 DEF Holds
      <4> QED
        BY <1>0, <4>3 DEF o
    <3>4. f[x] \in DOMAIN g2 /\ f[y] \in DOMAIN g2
      BY <1>0, <1>1
    <3> QED
      BY <1>0, <3>2, <3>3, <3>4, LeadsAlong DEF Leads
  <2> DEFINE N == DOMAIN g
             N2 == DOMAIN g2
             R == TrueEdges(g, p)
             R2 == TrueEdges(g2, q)
             h == [m \in N |-> f[m]]
  <2>2. h \in [N -> N2] /\ \A m \in N : h[m] = f[m]
    BY <1>0, <1>1
  <2>3. \A x, y \in N : <<x, y>> \in R => Reaches(N2, R2, h[x], h[y])
    BY <1>0, <2>1, <2>2
  <2>4. Reaches(N, R, a, b) /\ a \in N /\ b \in N
    BY <1>0, <1>9 DEF Leads
  <2> HIDE DEF N, N2, R, R2, h
  <2>5. Reaches(N2, R2, h[a], h[b])
    BY <1>0, <2>2, <2>3, <2>4, ReachesMapped
  <2> QED
    BY <1>0, <2>2, <2>4, <2>5 DEF Leads, N2, R2
<1> QED
  BY <1>0, <1>1, <1>8, <1>9

\* Each edge of the other graph has one here that stands for it.
Covers(g, other) == \A n \in DOMAIN other : \A o \in other[n] : \E e \in g[n] : is_prefix(e, o)

LEMMA CoversKeeps ==
  ASSUME NEW g, NEW other, Graph(g), Graph(other), DOMAIN other = DOMAIN g, Covers(g, other),
         NEW p, Placed(DOMAIN g, p)
  PROVE  Keeps(other, p, g, p)
<1>1. ASSUME NEW x \in DOMAIN g, NEW y \in DOMAIN g, <<x, y>> \in TrueEdges(other, p)
      PROVE  Reaches(DOMAIN g, TrueEdges(g, p), x, y)
  <2>1. PICK o \in other[x] : o.to = y /\ Holds(p, x, o)
    BY <1>1, TrueEdge
  <2>2. PICK e \in g[x] : is_prefix(e, o)
    BY <2>1 DEF Covers
  <2>3. CASE e = o
    BY <2>1, <2>3, LeadsAlong DEF Leads
  <2>4. CASE e # o
    <3>1. ~e.strong /\ IsPrefix(e.label, o.label) /\ e.to = y
      BY <2>1, <2>2, <2>4 DEF is_prefix
    <3>2. e \in Edges /\ o \in Edges
      BY DEF Graph
    <3>3. IsPrefix(p[x] \o o.label, p[y])
      BY <2>1, <3>2, HoldsExtends
    <3> DEFINE a == p[x]
               b == p[y]
               k == e.label
               l == o.label
    <3>4. /\ a \in Seq(Element) /\ b \in Seq(Element) /\ k \in Seq(Element) /\ l \in Seq(Element)
          /\ a \o k \in Seq(Element) /\ a \o l \in Seq(Element)
      BY <3>2, Concatenated DEF Placed, Edges, Paths
    <3>5. IsPrefix(a \o l, b) /\ IsPrefix(k, l)
      BY <3>1, <3>3
    <3> HIDE DEF a, b, k, l
    <3>6. IsPrefix(a \o k, a \o l)
      BY <3>4, <3>5, PrefixOfConcatenation
    <3>7. IsPrefix(a \o k, b)
      BY <3>4, <3>5, <3>6, PrefixTrans, Zenon
    <3>8. Holds(p, x, e)
      BY <3>1, <3>7 DEF Holds, a, b, k
    <3> QED
      BY <3>1, <3>8, LeadsAlong DEF Leads
  <2> QED
    BY <2>3, <2>4
<1> QED
  BY <1>1, ReachesMore DEF Keeps, Leads

LEMMA JoinCovers ==
  ASSUME NEW g, NEW other, Graph(g), Graph(other), DOMAIN other = DOMAIN g,
         NEW g2, g2 = join_graphs(g, other)
  PROVE  /\ DOMAIN g2 = DOMAIN g /\ Covers(g2, g) /\ Covers(g2, other)
         /\ acyclic(g2) => Graph(g2)
<1>1. DOMAIN g2 = DOMAIN g /\ \A n \in DOMAIN g : g2[n] = g[n] \cup unmatched_edges(g, other, n)
  BY DEF join_graphs
<1>2. \A n \in DOMAIN g : \A o \in other[n] :
        \/ o \in unmatched_edges(g, other, n)
        \/ \E e \in g[n] : is_prefix(e, o)
  BY DEF unmatched_edges
<1>3. \A e : is_prefix(e, e)
  BY DEF is_prefix
<1>4. Covers(g2, g) /\ Covers(g2, other)
  BY <1>1, <1>2, <1>3 DEF Covers
<1>5. \A n \in DOMAIN g : g2[n] \subseteq g[n] \cup other[n]
  BY <1>1 DEF unmatched_edges
<1>6. ASSUME acyclic(g2) PROVE Graph(g2)
  <2>1. Closed(g2)
    BY <1>1, <1>5 DEF Closed, Graph, all_borrows
  <2> QED
    BY <1>1, <1>5, <1>6, <2>1 DEF Graph
<1> QED
  BY <1>1, <1>4, <1>6

\* A graph that abstracts another covers what that covers, for the places' sake.
LEMMA AbstractsCovers ==
  ASSUME NEW g, NEW other, abstracts(g, other)
  PROVE  Covers(g, other)
BY DEF abstracts, unmatched_edges, Covers

----------------------------------------------------------------------------
(* What the graph knows of the references *)
(*                                                                         *)
(* M are the mutable references and I the others, L the locals with a value, *)
(* g the graph and p the places; of the references K point to what is at     *)
(* their place and U are unseen.                                             *)

\* The place was in a local that has no value any more.
Gone(L, place) == place[1][1] = "local" /\ place[1][2] \notin L

\* What is not in an argument's target is borrowed from the frame.
Rooted(L, g, p, id) ==
  /\ p[id][1][1] # "arg" => Leads(g, p, frame_root, id)
  /\ ~Gone(L, p[id])

Known(M, g, p, a, b) == Leads(g, p, a, b) \/ (b \in M /\ Leads(g, p, b, a))

Borrows(M, I, L, g, p, K, U) ==
  /\ Graph(g) /\ DOMAIN g = {frame_root} \cup M \cup I
  /\ M \cap I = {} /\ frame_root \notin M \cup I
  /\ Placed(DOMAIN g, p)
  /\ \A id \in (M \cup I) \ U : id \in K /\ Rooted(L, g, p, id)
  /\ \A a \in M \ U, b \in (M \cup I) \ U :
       a # b /\ Overlap(p[a], p[b]) => Known(M, g, p, a, b)
  /\ \A a \in M \cap U : a \notin K \/ Gone(L, p[a])

LEMMA RootedStays ==
  ASSUME NEW L, NEW L2, NEW g, NEW p, NEW g2, NEW q, NEW id \in DOMAIN g \cap DOMAIN g2,
         frame_root \in DOMAIN g \cap DOMAIN g2,
         Keeps(g, p, g2, q), q[id] = p[id], Rooted(L, g, p, id), ~Gone(L2, p[id])
  PROVE  Rooted(L2, g2, q, id)
BY DEF Rooted, Keeps

LEMMA KnownStays ==
  ASSUME NEW M, NEW M2, NEW g, NEW p, NEW g2, NEW q,
         NEW a \in DOMAIN g \cap DOMAIN g2, NEW b \in DOMAIN g \cap DOMAIN g2,
         Keeps(g, p, g2, q), Known(M, g, p, a, b), b \in M => b \in M2 \/ Leads(g, p, a, b)
  PROVE  Known(M2, g2, q, a, b)
BY DEF Known, Keeps

\* References go or become immutable, values go, and pointers go bad that are unseen.
Lessens(M, I, g, p, U, M2, I2, L2, g2, q, K2, U2) ==
  /\ M2 \subseteq M /\ I2 \subseteq M \cup I /\ M2 \cap I2 = {}
  /\ Graph(g2) /\ DOMAIN g2 = {frame_root} \cup M2 \cup I2 /\ Keeps(g, p, g2, q)
  /\ \A n \in DOMAIN g2 : q[n] = p[n]
  /\ \A id \in (M2 \cup I2) \ U2 : id \notin U /\ id \in K2 /\ ~Gone(L2, p[id])
  /\ \A a \in M2 \cap U2 : a \notin K2 \/ Gone(L2, p[a])
  /\ \A a \in M2 \ U2, b \in (I2 \cap M) \ U2 : Overlap(p[a], p[b]) => Leads(g, p, a, b)

LEMMA BorrowsLess ==
  ASSUME NEW M, NEW I, NEW L, NEW g, NEW p, NEW K, NEW U, Borrows(M, I, L, g, p, K, U),
         NEW M2, NEW I2, NEW L2, NEW g2, NEW q, NEW K2, NEW U2,
         Lessens(M, I, g, p, U, M2, I2, L2, g2, q, K2, U2)
  PROVE  Borrows(M2, I2, L2, g2, q, K2, U2)
<1>0. /\ M2 \subseteq M /\ I2 \subseteq M \cup I /\ M2 \cap I2 = {}
      /\ Graph(g2) /\ DOMAIN g2 = {frame_root} \cup M2 \cup I2 /\ Keeps(g, p, g2, q)
      /\ \A n \in DOMAIN g2 : q[n] = p[n]
      /\ \A id \in (M2 \cup I2) \ U2 : id \notin U /\ id \in K2 /\ ~Gone(L2, p[id])
      /\ \A a \in M2 \cap U2 : a \notin K2 \/ Gone(L2, p[a])
      /\ \A a \in M2 \ U2, b \in (I2 \cap M) \ U2 : Overlap(p[a], p[b]) => Leads(g, p, a, b)
  BY DEF Lessens
<1>1. /\ DOMAIN g = {frame_root} \cup M \cup I /\ frame_root \notin M \cup I
      /\ M2 \cup I2 \subseteq M \cup I
  BY <1>0 DEF Borrows
<1>2. Placed(DOMAIN g2, q)
  <2>1. \A n \in DOMAIN g2 : n \in DOMAIN g
    BY <1>0, <1>1
  <2>2. q[frame_root] = <<>> /\ p[frame_root] = <<>>
    BY <1>0, <1>1 DEF Borrows, Placed
  <2> QED
    BY <1>0, <2>1, <2>2 DEF Borrows, Placed
<1>3. ASSUME NEW id \in (M2 \cup I2) \ U2 PROVE id \in K2 /\ Rooted(L2, g2, q, id)
  <2>1. id \notin U /\ id \in K2 /\ ~Gone(L2, p[id]) /\ id \in M \cup I
    BY <1>0, <1>1
  <2>2. Rooted(L, g, p, id)
    BY <1>0, <2>1 DEF Borrows
  <2>3. id \in DOMAIN g \cap DOMAIN g2 /\ frame_root \in DOMAIN g \cap DOMAIN g2
    BY <1>0, <1>1
  <2> QED
    BY <1>0, <2>1, <2>2, <2>3, RootedStays
<1>4. ASSUME NEW a \in M2 \ U2, NEW b \in (M2 \cup I2) \ U2, a # b, Overlap(q[a], q[b])
      PROVE  Known(M2, g2, q, a, b)
  <2>1. a \in DOMAIN g \cap DOMAIN g2 /\ b \in DOMAIN g \cap DOMAIN g2
    BY <1>0, <1>1
  <2>2. Overlap(p[a], p[b])
    BY <1>0, <1>4, <2>1
  <2>3. Known(M, g, p, a, b)
    BY <1>0, <1>1, <1>4, <2>2 DEF Borrows
  <2>4. b \in M => b \in M2 \/ Leads(g, p, a, b)
    BY <1>0, <2>2
  <2> QED
    BY <1>0, <2>1, <2>3, <2>4, KnownStays
<1>5. \A a \in M2 \cap U2 : a \notin K2 \/ Gone(L2, q[a])
  BY <1>0
<1>6. frame_root \notin M2 \cup I2
  BY <1>0, <1>1
<1> QED
  BY <1>0, <1>2, <1>3, <1>4, <1>5, <1>6 DEF Borrows

\* A reference n more.
OneMore(M, I, n, M2, I2) == (M2 = M \cup {n} /\ I2 = I) \/ (M2 = M /\ I2 = I \cup {n})

Extends(g, p, n, g2, q) ==
  /\ Graph(g2) /\ n \notin DOMAIN g /\ DOMAIN g2 = DOMAIN g \cup {n} /\ Keeps(g, p, g2, q)
  /\ \A m \in DOMAIN g : q[m] = p[m]
  /\ q[n] \in Paths /\ q[n] # <<>>

SameMarks(ids, K, U, K2, U2) ==
  \A id \in ids : (id \in K2 <=> id \in K) /\ (id \in U2 <=> id \in U)

Marked(M2, L, g2, q, n, K2, U2) ==
  /\ n \notin U2 => n \in K2 /\ Rooted(L, g2, q, n)
  /\ n \in M2 /\ n \in U2 => n \notin K2 \/ Gone(L, q[n])

KnownNew(M, I, p, U, n, M2, g2, q, U2) ==
  n \notin U2 => \A c \in (M \cup I) \ U :
     Overlap(q[n], p[c]) /\ (n \in M2 \/ c \in M) =>
       (n \in M2 /\ Leads(g2, q, n, c)) \/ (c \in M /\ Leads(g2, q, c, n))

LEMMA BorrowsMore ==
  ASSUME NEW M, NEW I, NEW L, NEW g, NEW p, NEW K, NEW U, Borrows(M, I, L, g, p, K, U),
         NEW n, NEW M2, NEW I2, OneMore(M, I, n, M2, I2),
         NEW g2, NEW q, Extends(g, p, n, g2, q),
         NEW K2, NEW U2, SameMarks(M \cup I, K, U, K2, U2), Marked(M2, L, g2, q, n, K2, U2),
         KnownNew(M, I, p, U, n, M2, g2, q, U2)
  PROVE  Borrows(M2, I2, L, g2, q, K2, U2)
<1>1. /\ DOMAIN g = {frame_root} \cup M \cup I /\ frame_root \notin M \cup I
      /\ frame_root \in DOMAIN g /\ n \notin DOMAIN g
      /\ Graph(g2) /\ DOMAIN g2 = DOMAIN g \cup {n} /\ Keeps(g, p, g2, q)
      /\ \A m \in DOMAIN g : q[m] = p[m]
      /\ q[n] \in Paths /\ q[n] # <<>>
  BY DEF Borrows, Extends
<1>2. M2 \cup I2 = M \cup I \cup {n} /\ M2 \subseteq M \cup {n} /\ M \subseteq M2
  BY <1>1 DEF OneMore
<1>3. Placed(DOMAIN g2, q)
  BY <1>1 DEF Borrows, Placed
<1>4. M2 \cap I2 = {} /\ frame_root \notin M2 \cup I2
  BY <1>1 DEF Borrows, OneMore
<1>5. ASSUME NEW id \in (M2 \cup I2) \ U2 PROVE id \in K2 /\ Rooted(L, g2, q, id)
  <2>1. CASE id = n
    BY <2>1 DEF Marked
  <2>2. CASE id # n
    <3>2. id \in (M \cup I) \ U
      BY <1>2, <2>2 DEF SameMarks
    <3>3. id \in K /\ Rooted(L, g, p, id)
      BY <3>2 DEF Borrows
    <3>4. ~Gone(L, p[id])
      BY <3>3 DEF Rooted
    <3>5. id \in DOMAIN g \cap DOMAIN g2 /\ frame_root \in DOMAIN g \cap DOMAIN g2 /\ q[id] = p[id]
      BY <1>1, <3>2
    <3>6. id \in K2
      BY <3>2, <3>3 DEF SameMarks
    <3> QED
      BY <1>1, <3>3, <3>4, <3>5, <3>6, RootedStays
  <2> QED
    BY <2>1, <2>2
<1>6. ASSUME NEW a \in M2 \ U2, NEW b \in (M2 \cup I2) \ U2, a # b, Overlap(q[a], q[b])
      PROVE  Known(M2, g2, q, a, b)
  <2>1. CASE a = n
    <3>1. b \in (M \cup I) \ U /\ q[b] = p[b] /\ n \in M2
      BY <1>1, <1>2, <1>6, <2>1 DEF SameMarks
    <3>2. Leads(g2, q, n, b) \/ (b \in M /\ Leads(g2, q, b, n))
      BY <1>6, <2>1, <3>1 DEF KnownNew
    <3> QED
      BY <1>2, <2>1, <3>2 DEF Known
  <2>2. CASE b = n
    <3>1. a \in M \ U /\ q[a] = p[a]
      BY <1>1, <1>2, <1>6, <2>2 DEF SameMarks
    <3>2. Overlap(q[n], p[a])
      BY <1>6, <2>2, <3>1 DEF Overlap
    <3>3. (n \in M2 /\ Leads(g2, q, n, a)) \/ Leads(g2, q, a, n)
      BY <2>2, <3>1, <3>2 DEF KnownNew
    <3> QED
      BY <1>2, <2>2, <3>3 DEF Known
  <2>3. CASE a # n /\ b # n
    <3>1. a \in M \ U /\ b \in (M \cup I) \ U
      BY <1>2, <2>3 DEF SameMarks
    <3>2. a \in DOMAIN g \cap DOMAIN g2 /\ b \in DOMAIN g \cap DOMAIN g2 /\ q[a] = p[a] /\ q[b] = p[b]
      BY <1>1, <3>1
    <3>3. Known(M, g, p, a, b)
      BY <1>6, <3>1, <3>2 DEF Borrows
    <3> QED
      BY <1>1, <1>2, <3>2, <3>3, KnownStays
  <2> QED
    BY <2>1, <2>2, <2>3
<1>7. ASSUME NEW a \in M2 \cap U2 PROVE a \notin K2 \/ Gone(L, q[a])
  <2>1. CASE a = n
    BY <2>1 DEF Marked
  <2>2. CASE a # n
    <3>1. a \in M \cap U /\ q[a] = p[a] /\ (a \in K2 <=> a \in K)
      BY <1>1, <1>2, <2>2 DEF SameMarks
    <3> QED
      BY <3>1 DEF Borrows
  <2> QED
    BY <2>1, <2>2
<1>8. DOMAIN g2 = {frame_root} \cup M2 \cup I2
  BY <1>1, <1>2
<1> QED
  BY <1>1, <1>3, <1>4, <1>5, <1>6, <1>7, <1>8 DEF Borrows

----------------------------------------------------------------------------
(* What the instructions do to the graph *)

\* A reference that is seen is borrowed from the frame along an edge with the
\* local or the resource it refers into.
LEMMA RootFirst ==
  ASSUME NEW M, NEW I, NEW L, NEW g, NEW p, NEW K, NEW U, Borrows(M, I, L, g, p, K, U),
         NEW c \in (M \cup I) \ U, p[c][1][1] # "arg"
  PROVE  \E e \in g[frame_root] : /\ e.to \in DOMAIN g /\ Holds(p, frame_root, e)
                                  /\ e.label # <<>> /\ Head(e.label) = p[c][1]
                                  /\ Leads(g, p, e.to, c)
<1>1. /\ Graph(g) /\ Placed(DOMAIN g, p) /\ Leads(g, p, frame_root, c)
      /\ frame_root \in DOMAIN g /\ c \in DOMAIN g /\ c # frame_root
  BY DEF Borrows, Rooted
<1>2. PICK e \in g[frame_root] : /\ e \in Edges /\ e.to \in DOMAIN g /\ Holds(p, frame_root, e)
                                 /\ Leads(g, p, e.to, c)
                                 /\ IsPrefix(p[frame_root] \o e.label, p[c])
  BY <1>1, LeadsFirst
<1>3. e.label # <<>> /\ p[frame_root] = <<>> /\ p[c] \in Seq(Element) /\ e.label \in Seq(Element)
  BY <1>1 DEF Graph, Placed, Edges, Paths
<1>4. IsPrefix(<<>> \o e.label, p[c])
  BY <1>2, <1>3
<1>5. p[c][1] = Head(e.label)
  <2> DEFINE l == e.label
             u == p[c]
  <2> HIDE DEF l, u
  <2>1. l \in Seq(Element) /\ u \in Seq(Element) /\ l # <<>> /\ IsPrefix(<<>> \o l, u)
    BY <1>3, <1>4 DEF l, u
  <2>2. u[1] = Head(l)
    BY <2>1, StartsWith
  <2> QED
    BY <2>2 DEF l, u
<1> QED
  BY <1>2, <1>3, <1>5

LEMMA Unborrowed ==
  ASSUME NEW M, NEW I, NEW L, NEW g, NEW p, NEW K, NEW U, Borrows(M, I, L, g, p, K, U),
         NEW elem, elem[1] # "arg", consistent_borrows(g, frame_root, elem) = {}
  PROVE  \A c \in (M \cup I) \ U : p[c][1] # elem
<1> SUFFICES ASSUME NEW c \in (M \cup I) \ U, p[c][1] = elem PROVE FALSE
  OBVIOUS
<1>1. PICK e \in g[frame_root] : e.label # <<>> /\ Head(e.label) = elem
  BY RootFirst
<1>2. e.to \in consistent_borrows(g, frame_root, elem)
  BY <1>1 DEF consistent_borrows
<1> QED
  BY <1>2

\* No mutable reference borrowed from the node reaches into the place.
NoneUnder(M, g, p, node, place) ==
  \A c \in M : Overlap(p[c], place) => c \notin BorrowedFrom(g, node)

\* BorrowLoc.
BorrowsTheLocal(M, I, L, g, p, K, U, elem, n, M2, I2, g2, q, K2, U2) ==
  /\ elem \in Element /\ elem[1] # "arg" /\ ~Gone(L, <<elem>>)
  /\ n \in Nat \ DOMAIN g /\ OneMore(M, I, n, M2, I2)
  /\ g2 = add_strong_edge(add(g, n), frame_root, <<elem>>, n)
  /\ \A m \in DOMAIN g : q[m] = p[m]
  /\ q[n] = <<elem>>
  /\ SameMarks(M \cup I, K, U, K2, U2)
  /\ n \in K2
  /\ n \in M2 => n \notin U2
  /\ n \in U2 \/ n \in M2 \/ NoneUnder(M, g, p, frame_root, <<elem>>)

LEMMA BorrowsLocal ==
  ASSUME NEW M, NEW I, NEW L, NEW g, NEW p, NEW K, NEW U, Borrows(M, I, L, g, p, K, U),
         NEW elem, NEW n, NEW M2, NEW I2, NEW g2, NEW q, NEW K2, NEW U2,
         BorrowsTheLocal(M, I, L, g, p, K, U, elem, n, M2, I2, g2, q, K2, U2)
  PROVE  Borrows(M2, I2, L, g2, q, K2, U2)
<1> /\ elem \in Element /\ elem[1] # "arg" /\ ~Gone(L, <<elem>>)
    /\ n \in Nat \ DOMAIN g /\ OneMore(M, I, n, M2, I2)
    /\ g2 = add_strong_edge(add(g, n), frame_root, <<elem>>, n)
    /\ \A m \in DOMAIN g : q[m] = p[m]
    /\ q[n] = <<elem>>
    /\ SameMarks(M \cup I, K, U, K2, U2)
    /\ n \in K2
    /\ n \in M2 => n \notin U2
    /\ n \in U2 \/ n \in M2 \/ NoneUnder(M, g, p, frame_root, <<elem>>)
  BY DEF BorrowsTheLocal
<1>1. /\ Graph(g) /\ Placed(DOMAIN g, p) /\ frame_root \in DOMAIN g /\ p[frame_root] = <<>>
      /\ M \cup I \subseteq DOMAIN g /\ frame_root \notin M \cup I
      /\ \A m \in DOMAIN g : p[m] \in Paths
  BY DEF Borrows, Placed
<1>2. <<elem>> \in Paths /\ <<elem>> # <<>> /\ <<elem>>[1] = elem /\ <<>> \o <<elem>> = <<elem>>
  BY DEF Paths
<1>3. q[frame_root] \o <<elem>> = q[n]
  BY <1>1, <1>2
<1>4. /\ Graph(g2) /\ DOMAIN g2 = DOMAIN g \cup {n} /\ Keeps(g, p, g2, q)
      /\ Leads(g2, q, frame_root, n)
      /\ \A e \in Moved(g, frame_root, <<elem>>) : Holds(p, frame_root, e) => Leads(g2, q, n, e.to)
  <2>1. AddsStrongly(g, p, frame_root, <<elem>>, n, g2, q)
    BY <1>1, <1>2, <1>3 DEF AddsStrongly
  <2>2. StronglyAdded(g, p, frame_root, <<elem>>, n, g2, q)
    BY <2>1, AddedStrongly
  <2> QED
    BY <2>2 DEF StronglyAdded
<1>5. Rooted(L, g2, q, n)
  BY <1>4 DEF Rooted
<1>6. ASSUME n \notin U2, NEW c \in (M \cup I) \ U, Overlap(q[n], p[c]), n \in M2 \/ c \in M
      PROVE  n \in M2 /\ Leads(g2, q, n, c)
  <2>1. p[c][1] = elem /\ c \in DOMAIN g /\ c # frame_root
    <3>1. p[c] \in Seq(Element) /\ p[c] # <<>> /\ c \in DOMAIN g /\ c # frame_root
      BY <1>1 DEF Placed, Paths
    <3>2. <<elem>> \in Seq(Element)
      BY <1>2 DEF Paths
    <3> QED
      BY <1>2, <1>6, <3>1, <3>2, OverlapStarts, ZenonT(40)
  <2>2. PICK e \in g[frame_root] : /\ e.to \in DOMAIN g /\ Holds(p, frame_root, e)
                                   /\ e.label # <<>> /\ Head(e.label) = elem
                                   /\ Leads(g, p, e.to, c)
    BY <2>1, RootFirst
  <2>3. Leads(g, p, frame_root, c)
    BY <2>1 DEF Borrows, Rooted
  <2>4. n \in M2
    <3> SUFFICES ASSUME n \notin M2 PROVE FALSE
      OBVIOUS
    <3>1. c \in BorrowedFrom(g, frame_root)
      BY <1>1, <2>1, <2>3, LeadsBorrowed
    <3>2. NoneUnder(M, g, p, frame_root, <<elem>>) /\ c \in M
      BY <1>6
    <3>3. Overlap(p[c], <<elem>>)
      BY <1>6 DEF Overlap
    <3> QED
      BY <3>1, <3>2, <3>3 DEF NoneUnder
  <2>5. e \in Moved(g, frame_root, <<elem>>)
    BY <2>2 DEF Moved
  <2>6. Leads(g2, q, n, e.to)
    BY <1>4, <2>2, <2>5
  <2>7. Leads(g2, q, e.to, c)
    BY <1>4, <2>1, <2>2 DEF Keeps
  <2>8. Leads(g2, q, n, c)
    BY <2>6, <2>7, ReachesOn DEF Leads
  <2> QED
    BY <2>4, <2>8
<1>7. KnownNew(M, I, p, U, n, M2, g2, q, U2)
  BY <1>6 DEF KnownNew
<1>8. Extends(g, p, n, g2, q)
  BY <1>2, <1>4 DEF Extends
<1>9. Marked(M2, L, g2, q, n, K2, U2)
  BY <1>5 DEF Marked
<1> QED
  BY <1>7, <1>8, <1>9, BorrowsMore

\* Of a reference in a reference's place, or to it.
BorrowsOf(M, I, g, p, K, U, from, label, n, M2, I2, g2, q, K2, U2) ==
  /\ from \in M \cup I /\ n \in Nat \ DOMAIN g /\ OneMore(M, I, n, M2, I2)
  /\ label = <<>> \/ \E x \in Element : label = <<x>>
  /\ g2 = add_strong_edge(add(g, n), from, label, n)
  /\ \A m \in DOMAIN g : q[m] = p[m]
  /\ q[n] = p[from] \o label
  /\ SameMarks(M \cup I, K, U, K2, U2)
  /\ n \in K2 <=> from \in K
  /\ n \in M2 => from \in M /\ (label = <<>> \/ nil_borrows(g, from) = {})
  /\ n \in M2 /\ n \in U2 => from \in U
  /\ n \notin U2 => from \notin U /\ (n \in M2 \/ from \in I \/ NoneUnder(M, g, p, from, q[n]))

\* What is known of the new reference and one that it overlaps with.
LEMMA KnownOf ==
  ASSUME NEW M, NEW I, NEW L, NEW g, NEW p, NEW K, NEW U, Borrows(M, I, L, g, p, K, U),
         NEW from, NEW label, NEW n, NEW M2, NEW I2, NEW g2, NEW q, NEW K2, NEW U2,
         BorrowsOf(M, I, g, p, K, U, from, label, n, M2, I2, g2, q, K2, U2),
         StronglyAdded(g, p, from, label, n, g2, q)
  PROVE  KnownNew(M, I, p, U, n, M2, g2, q, U2)
<1>1. SUFFICES ASSUME n \notin U2, NEW c \in (M \cup I) \ U, Overlap(q[n], p[c]),
                      n \in M2 \/ c \in M
               PROVE  (n \in M2 /\ Leads(g2, q, n, c)) \/ (c \in M /\ Leads(g2, q, c, n))
  BY DEF KnownNew
<1>2. /\ Graph(g) /\ Placed(DOMAIN g, p) /\ DOMAIN g = {frame_root} \cup M \cup I
      /\ M \cap I = {} /\ frame_root \notin M \cup I
  BY DEF Borrows
<1>3. /\ from \in (M \cup I) \ U /\ from \in DOMAIN g /\ c \in DOMAIN g
      /\ q[from] = p[from] /\ q[c] = p[c] /\ q[n] = p[from] \o label
      /\ from # frame_root /\ c # frame_root
      /\ n \in M2 => from \in M /\ (label = <<>> \/ nil_borrows(g, from) = {})
      /\ n \in M2 \/ from \in I \/ NoneUnder(M, g, p, from, q[n])
      /\ label = <<>> \/ \E x \in Element : label = <<x>>
  BY <1>1, <1>2 DEF BorrowsOf
<1>4. /\ Keeps(g, p, g2, q) /\ DOMAIN g2 = DOMAIN g \cup {n} /\ Leads(g2, q, from, n)
      /\ \A e \in Moved(g, from, label) : Holds(p, from, e) => Leads(g2, q, n, e.to)
  BY DEF StronglyAdded
<1>5. /\ p[from] \in Seq(Element) /\ p[c] \in Seq(Element) /\ label \in Seq(Element)
      /\ q[n] \in Seq(Element) /\ IsPrefix(p[from], q[n])
  <2>1. p[from] \in Seq(Element) /\ p[c] \in Seq(Element)
    BY <1>2, <1>3 DEF Placed, Paths
  <2>2. label \in Seq(Element)
    <3>1. <<>> \in Seq(Element) /\ \A x \in Element : <<x>> \in Seq(Element)
      OBVIOUS
    <3> QED
      BY <1>3, <3>1
  <2> DEFINE s == p[from]
  <2>3. s \in Seq(Element) /\ q[n] = s \o label
    BY <1>3, <2>1
  <2> HIDE DEF s
  <2>4. s \o label \in Seq(Element) /\ IsPrefix(s, s \o label)
    BY <2>2, <2>3, Concatenated, PrefixOfConcatenation
  <2>5. q[n] \in Seq(Element) /\ IsPrefix(s, q[n])
    BY <2>3, <2>4
  <2> QED
    BY <2>1, <2>2, <2>5 DEF s
<1>6. Overlap(p[from], p[c])
  <2> DEFINE s == p[from]
             t == q[n]
             u == p[c]
  <2>1. s \in Seq(Element) /\ t \in Seq(Element) /\ u \in Seq(Element) /\ IsPrefix(s, t) /\ Overlap(t, u)
    BY <1>1, <1>5
  <2> HIDE DEF s, t, u
  <2>2. Overlap(s, u)
    BY <2>1, OverlapShorter
  <2> QED
    BY <2>2 DEF s, u
<1>7. CASE c = from
  BY <1>1, <1>2, <1>3, <1>4, <1>7
<1>8. CASE c # from /\ c \in M /\ Leads(g, p, c, from)
  <2>1. Leads(g2, q, c, from)
    BY <1>3, <1>4, <1>8 DEF Keeps
  <2>2. Leads(g2, q, c, n)
    BY <1>4, <2>1, ReachesOn DEF Leads
  <2> QED
    BY <1>8, <2>2
<1>9. CASE c # from /\ Leads(g, p, from, c) /\ from \in M
  <2>1. PICK e \in g[from] : /\ e \in Edges /\ e.to \in DOMAIN g /\ Holds(p, from, e)
                             /\ Leads(g, p, e.to, c)
                             /\ IsPrefix(p[from] \o e.label, p[c])
    BY <1>2, <1>3, <1>9, LeadsFirst
  <2>2. n \in M2
    <3> SUFFICES ASSUME n \notin M2 PROVE FALSE
      OBVIOUS
    <3>1. c \in M /\ NoneUnder(M, g, p, from, q[n])
      BY <1>1, <1>2, <1>3, <1>9
    <3>2. Overlap(p[c], q[n])
      BY <1>1 DEF Overlap
    <3>3. c \in BorrowedFrom(g, from)
      BY <1>2, <1>3, <1>9, LeadsBorrowed
    <3> QED
      BY <3>1, <3>2, <3>3 DEF NoneUnder
  <2>3. e \in Moved(g, from, label)
    <3>1. CASE label = <<>>
      BY <3>1 DEF Moved
    <3>2. CASE label # <<>>
      <4>1. PICK x \in Element : label = <<x>>
        BY <1>3, <3>2
      <4>2. e.label # <<>>
        BY <1>3, <2>2, <3>2 DEF nil_borrows
      <4> DEFINE s == p[from]
                 t == e.label
                 u == p[c]
      <4>3. /\ s \in Seq(Element) /\ t \in Seq(Element) /\ u \in Seq(Element) /\ t # <<>>
            /\ IsPrefix(s \o t, u) /\ Overlap(s \o <<x>>, u)
        BY <1>1, <1>3, <1>5, <2>1, <4>1, <4>2 DEF Edges, Paths
      <4> HIDE DEF s, t, u
      <4>4. Head(t) = x
        BY <4>3, OverlapGoesOn
      <4>5. Head(label) = x
        BY <4>1
      <4> QED
        BY <4>2, <4>4, <4>5 DEF Moved, t
    <3> QED
      BY <3>1, <3>2
  <2>4. Leads(g2, q, n, e.to)
    BY <1>4, <2>1, <2>3
  <2>5. Leads(g2, q, e.to, c)
    BY <1>3, <1>4, <2>1 DEF Keeps
  <2>6. Leads(g2, q, n, c)
    BY <2>4, <2>5, ReachesOn DEF Leads
  <2> QED
    BY <2>2, <2>6
<1>10. CASE c # from /\ from \in M
  <2>1. Known(M, g, p, from, c)
    BY <1>3, <1>6, <1>10 DEF Borrows
  <2> QED
    BY <1>8, <1>9, <1>10, <2>1 DEF Known
<1>11. CASE c # from /\ from \notin M
  <2>1. c \in M /\ from \in I
    BY <1>1, <1>3, <1>11
  <2>2. Overlap(p[c], p[from])
    BY <1>6 DEF Overlap
  <2>3. Known(M, g, p, c, from)
    BY <1>3, <1>11, <2>1, <2>2 DEF Borrows
  <2> QED
    BY <1>8, <1>11, <2>1, <2>3 DEF Known
<1> QED
  BY <1>7, <1>10, <1>11

\* CopyLoc, and BorrowField before it releases the reference to the struct.
LEMMA BorrowsReference ==
  ASSUME NEW M, NEW I, NEW L, NEW g, NEW p, NEW K, NEW U, Borrows(M, I, L, g, p, K, U),
         NEW from, NEW label, NEW n, NEW M2, NEW I2, NEW g2, NEW q, NEW K2, NEW U2,
         BorrowsOf(M, I, g, p, K, U, from, label, n, M2, I2, g2, q, K2, U2)
  PROVE  Borrows(M2, I2, L, g2, q, K2, U2)
<1>1. /\ Graph(g) /\ Placed(DOMAIN g, p) /\ frame_root \in DOMAIN g
      /\ from \in DOMAIN g /\ from # frame_root /\ \A m \in DOMAIN g : p[m] \in Paths
      /\ M \cup I \subseteq DOMAIN g /\ M \cap I = {}
  <2>1. <<>> \in Paths
    BY DEF Paths
  <2> QED
    BY <2>1 DEF Borrows, BorrowsOf, Placed
<1>2. /\ n \in Nat \ DOMAIN g /\ OneMore(M, I, n, M2, I2)
      /\ label = <<>> \/ \E x \in Element : label = <<x>>
      /\ g2 = add_strong_edge(add(g, n), from, label, n)
      /\ \A m \in DOMAIN g : q[m] = p[m]
      /\ q[n] = q[from] \o label /\ from \in M \cup I
      /\ SameMarks(M \cup I, K, U, K2, U2)
  BY <1>1 DEF BorrowsOf
<1>3. StronglyAdded(g, p, from, label, n, g2, q)
  <2>1. AddsStrongly(g, p, from, label, n, g2, q)
    BY <1>1, <1>2 DEF AddsStrongly
  <2> QED
    BY <2>1, AddedStrongly
<1>4. KnownNew(M, I, p, U, n, M2, g2, q, U2)
  BY <1>3, KnownOf
<1>5. /\ q[n] \in Paths /\ q[n] # <<>>
      /\ q[n][1] = p[from][1]
  <2> DEFINE s == p[from]
             t == q[n]
  <2>1. s \in Seq(Element) /\ s # <<>> /\ t = s \o label
    BY <1>1, <1>2 DEF Placed, Paths
  <2>2. label \in Seq(Element)
    <3>1. <<>> \in Seq(Element) /\ \A x \in Element : <<x>> \in Seq(Element)
      OBVIOUS
    <3> QED
      BY <1>2, <3>1
  <2> HIDE DEF s, t
  <2>3. t \in Seq(Element) /\ IsPrefix(s, t)
    BY <2>1, <2>2, Concatenated, PrefixOfConcatenation
  <2>4. t # <<>> /\ t[1] = s[1]
    BY <2>1, <2>3, FirstOfPrefix
  <2> QED
    BY <2>3, <2>4 DEF s, t, Paths
<1>6. Extends(g, p, n, g2, q)
  BY <1>2, <1>3, <1>5 DEF Extends, StronglyAdded
<1>7. Gone(L, q[n]) <=> Gone(L, p[from])
  BY <1>5 DEF Gone
<1>8. ASSUME n \notin U2 PROVE n \in K2 /\ Rooted(L, g2, q, n)
  <2>1. from \in (M \cup I) \ U /\ (n \in K2 <=> from \in K)
    BY <1>8 DEF BorrowsOf
  <2>2. from \in K /\ Rooted(L, g, p, from)
    BY <2>1 DEF Borrows
  <2>3. ASSUME q[n][1][1] # "arg" PROVE Leads(g2, q, frame_root, n)
    <3>1. Leads(g, p, frame_root, from)
      BY <1>5, <2>2, <2>3 DEF Rooted
    <3>2. Leads(g2, q, frame_root, from) /\ Leads(g2, q, from, n)
      BY <1>1, <1>3, <3>1 DEF StronglyAdded, Keeps
    <3> QED
      BY <3>2, ReachesOn DEF Leads
  <2> QED
    BY <1>7, <2>1, <2>2, <2>3 DEF Rooted
<1>9. ASSUME n \in M2, n \in U2 PROVE n \notin K2 \/ Gone(L, q[n])
  <2>1. from \in M /\ from \in U /\ (n \in K2 <=> from \in K)
    BY <1>9 DEF BorrowsOf
  <2>2. from \notin K \/ Gone(L, p[from])
    BY <2>1 DEF Borrows
  <2> QED
    BY <1>7, <2>1, <2>2
<1>10. Marked(M2, L, g2, q, n, K2, U2)
  BY <1>8, <1>9 DEF Marked
<1> QED
  BY <1>2, <1>4, <1>6, <1>10, BorrowsMore

\* BorrowGlobal.
BorrowsTheGlobal(M, I, g, p, K, U, elem, n, M2, I2, g2, q, K2, U2) ==
  /\ elem \in Element /\ elem[1] = "global"
  /\ n \in Nat \ DOMAIN g /\ OneMore(M, I, n, M2, I2)
  /\ g2 = add_weak_edge(add(g, n), {frame_root}, <<elem>>, n)
  /\ \A m \in DOMAIN g : q[m] = p[m]
  /\ q[n] = <<elem>>
  /\ SameMarks(M \cup I, K, U, K2, U2)
  /\ n \in K2
  /\ n \in M2 => consistent_borrows(g, frame_root, elem) = {} /\ n \notin U2
  /\ n \in U2 \/ n \in M2 \/ NoneUnder(M, g, p, frame_root, <<elem>>)

LEMMA BorrowsGlobal ==
  ASSUME NEW M, NEW I, NEW L, NEW g, NEW p, NEW K, NEW U, Borrows(M, I, L, g, p, K, U),
         NEW elem, NEW n, NEW M2, NEW I2, NEW g2, NEW q, NEW K2, NEW U2,
         BorrowsTheGlobal(M, I, g, p, K, U, elem, n, M2, I2, g2, q, K2, U2)
  PROVE  Borrows(M2, I2, L, g2, q, K2, U2)
<1>1. /\ Graph(g) /\ Placed(DOMAIN g, p) /\ frame_root \in DOMAIN g /\ p[frame_root] = <<>>
      /\ M \cup I \subseteq DOMAIN g /\ frame_root \notin M \cup I
  BY DEF Borrows, Placed
<1>2. /\ elem \in Element /\ elem[1] = "global"
      /\ n \in Nat \ DOMAIN g /\ OneMore(M, I, n, M2, I2)
      /\ g2 = add_weak_edge(add(g, n), {frame_root}, <<elem>>, n)
      /\ \A m \in DOMAIN g : q[m] = p[m]
      /\ q[n] = <<elem>>
      /\ SameMarks(M \cup I, K, U, K2, U2)
      /\ n \in K2
      /\ n \in M2 => consistent_borrows(g, frame_root, elem) = {} /\ n \notin U2
      /\ n \in U2 \/ n \in M2 \/ NoneUnder(M, g, p, frame_root, <<elem>>)
  BY DEF BorrowsTheGlobal
<1>3. <<elem>> \in Paths /\ <<elem>> # <<>> /\ <<elem>>[1] = elem /\ <<>> \o <<elem>> = <<elem>>
  BY <1>2 DEF Paths
<1>4. WeaklyAdded(g, p, {frame_root}, <<elem>>, n, g2, q)
  <2>1. <<elem>> \in Paths
    BY <1>3 DEF Paths
  <2>2. AddsWeakly(g, p, {frame_root}, <<elem>>, n, g2, q)
    BY <1>1, <1>2, <1>3, <2>1 DEF AddsWeakly
  <2> QED
    BY <2>2, AddedWeakly
<1>5. Leads(g2, q, frame_root, n)
  <2>1. q[frame_root] \o <<elem>> = q[n]
    BY <1>1, <1>2, <1>3
  <2>2. IsPrefix(q[n], q[n])
    BY <1>2, <1>3, PrefixOrder DEF Paths
  <2> QED
    BY <1>4, <2>1, <2>2 DEF WeaklyAdded
<1>6. Rooted(L, g2, q, n)
  BY <1>2, <1>3, <1>5 DEF Rooted, Gone
<1>7. ASSUME n \notin U2, NEW c \in (M \cup I) \ U, Overlap(q[n], p[c]), n \in M2 \/ c \in M
      PROVE  FALSE
  <2>1. p[c][1] = elem /\ c \in DOMAIN g /\ c # frame_root
    <3>1. p[c] \in Seq(Element) /\ p[c] # <<>> /\ c \in DOMAIN g /\ c # frame_root
      BY <1>1 DEF Placed, Paths
    <3> DEFINE s == <<elem>>
               t == p[c]
    <3>2. s \in Seq(Element) /\ s # <<>> /\ s[1] = elem /\ t \in Seq(Element) /\ t # <<>> /\ Overlap(s, t)
      BY <1>2, <1>3, <1>7, <3>1 DEF Paths
    <3> HIDE DEF s, t
    <3>3. s[1] = t[1]
      BY <3>2, OverlapStarts
    <3> QED
      BY <3>1, <3>2, <3>3 DEF t
  <2>2. CASE n \in M2
    BY <1>2, <2>1, <2>2, Unborrowed
  <2>3. CASE n \notin M2
    <3>1. c \in M /\ NoneUnder(M, g, p, frame_root, <<elem>>)
      BY <1>2, <1>7, <2>3
    <3>2. Overlap(p[c], <<elem>>)
      BY <1>2, <1>7 DEF Overlap
    <3>3. Leads(g, p, frame_root, c)
      BY <1>2, <2>1 DEF Borrows, Rooted
    <3>4. c \in BorrowedFrom(g, frame_root)
      BY <1>1, <2>1, <3>3, LeadsBorrowed
    <3> QED
      BY <3>1, <3>2, <3>4 DEF NoneUnder
  <2> QED
    BY <2>2, <2>3
<1>8. KnownNew(M, I, p, U, n, M2, g2, q, U2)
  BY <1>7 DEF KnownNew
<1>9. Extends(g, p, n, g2, q)
  BY <1>2, <1>3, <1>4 DEF Extends, WeaklyAdded
<1>10. Marked(M2, L, g2, q, n, K2, U2)
  BY <1>2, <1>6 DEF Marked
<1> QED
  BY <1>2, <1>8, <1>9, <1>10, BorrowsMore

\* A call that returns a reference, before its arguments are released.
BorrowsFromLenders(M, I, g, p, K, U, lenders, from, n, M2, I2, g2, q, K2, U2) ==
  /\ lenders \subseteq M \cup I /\ from \in lenders
  /\ \A l \in lenders \cap M : g[l] = {}
  /\ n \in Nat \ DOMAIN g /\ OneMore(M, I, n, M2, I2)
  /\ g2 = add_weak_edge(add(g, n), lenders, <<>>, n)
  /\ \A m \in DOMAIN g : q[m] = p[m]
  /\ q[n] \in Paths /\ IsPrefix(p[from], q[n])
  /\ SameMarks(M \cup I, K, U, K2, U2)
  /\ (n \in K2 <=> from \in K) /\ (n \in U2 <=> from \in U)
  /\ n \in M2 => from \in M

LEMMA BorrowsReturned ==
  ASSUME NEW M, NEW I, NEW L, NEW g, NEW p, NEW K, NEW U, Borrows(M, I, L, g, p, K, U),
         NEW lenders, NEW from, NEW n, NEW M2, NEW I2, NEW g2, NEW q, NEW K2, NEW U2,
         BorrowsFromLenders(M, I, g, p, K, U, lenders, from, n, M2, I2, g2, q, K2, U2)
  PROVE  Borrows(M2, I2, L, g2, q, K2, U2)
<1>1. /\ Graph(g) /\ Placed(DOMAIN g, p) /\ frame_root \in DOMAIN g
      /\ M \cup I \subseteq DOMAIN g /\ frame_root \notin M \cup I /\ M \cap I = {}
  BY DEF Borrows
<1>2. /\ lenders \subseteq M \cup I /\ from \in lenders /\ from \in M \cup I
      /\ n \in Nat \ DOMAIN g /\ OneMore(M, I, n, M2, I2)
      /\ g2 = add_weak_edge(add(g, n), lenders, <<>>, n)
      /\ \A m \in DOMAIN g : q[m] = p[m]
      /\ q[n] \in Paths /\ IsPrefix(p[from], q[n])
      /\ SameMarks(M \cup I, K, U, K2, U2)
      /\ (n \in K2 <=> from \in K) /\ (n \in U2 <=> from \in U)
      /\ n \in M2 => from \in M
  BY DEF BorrowsFromLenders
<1>3. /\ p[from] \in Seq(Element) /\ p[from] # <<>> /\ q[from] = p[from] /\ from \in DOMAIN g
      /\ q[n] \in Seq(Element)
  BY <1>1, <1>2 DEF Placed, Paths
<1>4. WeaklyAdded(g, p, lenders, <<>>, n, g2, q)
  <2>1. <<>> \in Paths
    BY <1>3 DEF Paths
  <2>2. AddsWeakly(g, p, lenders, <<>>, n, g2, q)
    BY <1>1, <1>2, <1>3, <2>1 DEF AddsWeakly
  <2> QED
    BY <2>2, AddedWeakly
<1>5. Leads(g2, q, from, n)
  <2>1. q[from] \o <<>> = p[from]
    BY <1>3, Concatenated
  <2> QED
    BY <1>2, <1>4, <2>1 DEF WeaklyAdded
<1>6. q[n] # <<>> /\ q[n][1] = p[from][1]
  BY <1>2, <1>3, FirstOfPrefix
<1>7. Gone(L, q[n]) <=> Gone(L, p[from])
  BY <1>6 DEF Gone
<1>8. ASSUME n \notin U2 PROVE n \in K2 /\ Rooted(L, g2, q, n)
  <2>1. from \in (M \cup I) \ U /\ (n \in K2 <=> from \in K)
    BY <1>2, <1>8
  <2>2. from \in K /\ Rooted(L, g, p, from)
    BY <2>1 DEF Borrows
  <2>3. ASSUME q[n][1][1] # "arg" PROVE Leads(g2, q, frame_root, n)
    <3>1. Leads(g, p, frame_root, from)
      BY <1>6, <2>2, <2>3 DEF Rooted
    <3>2. Leads(g2, q, frame_root, from)
      BY <1>1, <1>3, <1>4, <3>1 DEF WeaklyAdded, Keeps
    <3> QED
      BY <1>5, <3>2, ReachesOn DEF Leads
  <2> QED
    BY <1>7, <2>1, <2>2, <2>3 DEF Rooted
<1>9. ASSUME n \in M2, n \in U2 PROVE n \notin K2 \/ Gone(L, q[n])
  <2>1. from \in M /\ from \in U /\ (n \in K2 <=> from \in K)
    BY <1>2, <1>9
  <2>2. from \notin K \/ Gone(L, p[from])
    BY <2>1 DEF Borrows
  <2> QED
    BY <1>7, <2>1, <2>2
<1>10. ASSUME n \notin U2, NEW c \in (M \cup I) \ U, Overlap(q[n], p[c]), n \in M2 \/ c \in M
       PROVE  (n \in M2 /\ Leads(g2, q, n, c)) \/ (c \in M /\ Leads(g2, q, c, n))
  <2>1. from \notin U /\ c \in DOMAIN g /\ p[c] \in Seq(Element)
    BY <1>1, <1>2, <1>10 DEF Placed, Paths
  <2>2. Overlap(p[from], p[c])
    BY <1>2, <1>3, <1>10, <2>1, OverlapShorter
  <2>3. CASE c = from
    BY <1>2, <1>5, <1>10, <2>3
  <2>4. CASE c # from
    <3>1. c \in M /\ Leads(g, p, c, from)
      <4>1. CASE from \in M
        <5>1. Known(M, g, p, from, c)
          BY <1>10, <2>1, <2>2, <2>4, <4>1 DEF Borrows
        <5>2. ~Leads(g, p, from, c)
          <6>1. g[from] = {}
            BY <1>2, <4>1 DEF BorrowsFromLenders
          <6> QED
            BY <1>1, <1>3, <2>1, <2>4, <6>1, LeadsFirst
        <5> QED
          BY <5>1, <5>2 DEF Known
      <4>2. CASE from \notin M
        <5>1. c \in M /\ from \in I
          BY <1>2, <1>10, <4>2
        <5>2. Overlap(p[c], p[from])
          BY <2>2 DEF Overlap
        <5>3. Known(M, g, p, c, from)
          BY <1>10, <2>1, <2>4, <5>1, <5>2 DEF Borrows
        <5> QED
          BY <4>2, <5>1, <5>3 DEF Known
      <4> QED
        BY <4>1, <4>2
    <3>2. Leads(g2, q, c, from)
      BY <1>3, <1>4, <2>1, <3>1 DEF WeaklyAdded, Keeps
    <3>3. Leads(g2, q, c, n)
      BY <1>5, <3>2, ReachesOn DEF Leads
    <3> QED
      BY <3>1, <3>3
  <2> QED
    BY <2>3, <2>4
<1>11. KnownNew(M, I, p, U, n, M2, g2, q, U2)
  BY <1>10 DEF KnownNew
<1>12. Extends(g, p, n, g2, q)
  BY <1>2, <1>4, <1>6 DEF Extends, WeaklyAdded
<1>13. Marked(M2, L, g2, q, n, K2, U2)
  BY <1>8, <1>9 DEF Marked
<1> QED
  BY <1>2, <1>11, <1>12, <1>13, BorrowsMore

\* FreezeRef.
Freezes(M, g, p, U, id, U2) ==
  /\ id \in M /\ U2 \subseteq U \cup {id} /\ U \subseteq U2
  /\ id \in U2 \/ NoneUnder(M, g, p, id, p[id])

LEMMA BorrowsFrozen ==
  ASSUME NEW M, NEW I, NEW L, NEW g, NEW p, NEW K, NEW U, Borrows(M, I, L, g, p, K, U),
         NEW id, NEW U2, Freezes(M, g, p, U, id, U2)
  PROVE  Borrows(M \ {id}, I \cup {id}, L, g, p, K, U2)
<1> /\ id \in M /\ U2 \subseteq U \cup {id} /\ U \subseteq U2
    /\ id \in U2 \/ NoneUnder(M, g, p, id, p[id])
  BY DEF Freezes
<1> DEFINE M2 == M \ {id}
           I2 == I \cup {id}
<1>1. /\ Graph(g) /\ DOMAIN g = {frame_root} \cup M \cup I /\ M \cap I = {}
      /\ \A x \in (M \cup I) \ U : x \in K /\ ~Gone(L, p[x])
      /\ \A a \in M \cap U : a \notin K \/ Gone(L, p[a])
  BY DEF Borrows, Rooted
<1>2. M2 \subseteq M /\ I2 \subseteq M \cup I /\ M2 \cap I2 = {} /\ M2 \cup I2 = M \cup I
  BY <1>1
<1>3. ASSUME NEW a \in M2 \ U2, NEW b \in (I2 \cap M) \ U2, Overlap(p[a], p[b])
      PROVE  Leads(g, p, a, b)
  <2>1. b = id /\ a # id /\ a \in M \ U /\ b \in M \ U
    BY <1>1, <1>3
  <2>2. Known(M, g, p, a, id)
    BY <1>3, <2>1 DEF Borrows
  <2>3. ~Leads(g, p, id, a)
    <3>1. a \notin BorrowedFrom(g, id)
      BY <1>3, <2>1 DEF NoneUnder
    <3> QED
      BY <1>1, <2>1, <3>1, LeadsBorrowed
  <2> QED
    BY <2>1, <2>2, <2>3 DEF Known
<1>4. Keeps(g, p, g, p)
  BY DEF Keeps
<1>5. \A x \in (M2 \cup I2) \ U2 : x \notin U /\ x \in K /\ ~Gone(L, p[x])
  BY <1>1, <1>2
<1>6. \A a \in M2 \cap U2 : a \notin K \/ Gone(L, p[a])
  BY <1>1
<1>7. DOMAIN g = {frame_root} \cup M2 \cup I2
  BY <1>1, <1>2
<1> HIDE DEF M2, I2
<1>8. Lessens(M, I, g, p, U, M2, I2, L, g, p, K, U2)
  BY <1>1, <1>2, <1>3, <1>4, <1>5, <1>6, <1>7 DEF Lessens
<1>9. Borrows(M2, I2, L, g, p, K, U2)
  BY <1>8, BorrowsLess
<1> QED
  BY <1>9 DEF M2, I2

\* No reference that is seen goes on from the place of a mutable one that may be
\* written through.
LEMMA WritesToItsOwn ==
  ASSUME NEW M, NEW I, NEW L, NEW g, NEW p, NEW K, NEW U, Borrows(M, I, L, g, p, K, U),
         NEW a \in M \cap K, g[a] = {}, NEW c \in (M \cup I) \ U, IsPrefix(p[a], p[c])
  PROVE  p[c] = p[a]
<1>1. /\ Graph(g) /\ Placed(DOMAIN g, p) /\ a \in DOMAIN g /\ c \in DOMAIN g
      /\ p[a] \in Seq(Element) /\ p[c] \in Seq(Element) /\ p[a] # <<>> /\ p[c] # <<>>
  <2>1. a \in DOMAIN g /\ c \in DOMAIN g /\ a # frame_root /\ c # frame_root
    BY DEF Borrows
  <2> QED
    BY <2>1 DEF Borrows, Placed, Paths
<1>2. CASE a \in U
  <2>1. Gone(L, p[a])
    BY <1>2 DEF Borrows
  <2>2. p[c][1] = p[a][1]
    BY <1>1, FirstOfPrefix
  <2>3. Gone(L, p[c])
    BY <2>1, <2>2 DEF Gone
  <2> QED
    BY <2>3 DEF Borrows, Rooted
<1>3. CASE a \notin U /\ a # c
  <2>1. Known(M, g, p, a, c)
    BY <1>3 DEF Borrows, Overlap
  <2>2. ~Leads(g, p, a, c)
    BY <1>1, <1>3, LeadsFirst
  <2>3. IsPrefix(p[c], p[a])
    BY <1>1, <2>1, <2>2, LeadsExtends DEF Known
  <2> QED
    BY <1>1, <2>3, PrefixOrder
<1> QED
  BY <1>2, <1>3

\* The same with other names.
Renames(M, I, g, p, K, U, f, M2, I2, g2, q, K2, U2) ==
  /\ DOMAIN f = DOMAIN g /\ f[frame_root] = frame_root
  /\ \A m \in DOMAIN g : f[m] \in Nat
  /\ \A m, n \in DOMAIN g : f[m] = f[n] => m = n
  /\ g2 = rename_ids(g, f)
  /\ \A m \in DOMAIN g : q[f[m]] = p[m]
  /\ M2 = {f[m] : m \in M} /\ I2 = {f[m] : m \in I}
  /\ \A m \in M \cup I : (f[m] \in K2 <=> m \in K) /\ (f[m] \in U2 <=> m \in U)

LEMMA BorrowsRenamed ==
  ASSUME NEW M, NEW I, NEW L, NEW g, NEW p, NEW K, NEW U, Borrows(M, I, L, g, p, K, U),
         NEW f, NEW M2, NEW I2, NEW g2, NEW q, NEW K2, NEW U2,
         Renames(M, I, g, p, K, U, f, M2, I2, g2, q, K2, U2)
  PROVE  Borrows(M2, I2, L, g2, q, K2, U2)
<1>1. /\ Graph(g) /\ DOMAIN g = {frame_root} \cup M \cup I /\ Placed(DOMAIN g, p)
      /\ M \cap I = {} /\ frame_root \notin M \cup I
  BY DEF Borrows
<1>2. /\ DOMAIN f = DOMAIN g /\ f[frame_root] = frame_root
      /\ \A m \in DOMAIN g : f[m] \in Nat
      /\ \A m, n \in DOMAIN g : f[m] = f[n] => m = n
      /\ g2 = rename_ids(g, f)
      /\ \A m \in DOMAIN g : q[f[m]] = p[m]
      /\ M2 = {f[m] : m \in M} /\ I2 = {f[m] : m \in I}
      /\ \A m \in M \cup I : (f[m] \in K2 <=> m \in K) /\ (f[m] \in U2 <=> m \in U)
  BY DEF Renames
<1>3. /\ Graph(g2) /\ DOMAIN g2 = {f[m] : m \in DOMAIN g}
      /\ \A a, b \in DOMAIN g : Leads(g, p, a, b) => Leads(g2, q, f[a], f[b])
  <2>1. OtherNames(g, p, f, g2, q)
    BY <1>1, <1>2 DEF OtherNames
  <2> QED
    BY <2>1, Renamed
<1>4. DOMAIN g2 = {frame_root} \cup M2 \cup I2 /\ M2 \cap I2 = {} /\ frame_root \notin M2 \cup I2
  BY <1>1, <1>2, <1>3
<1>5. Placed(DOMAIN g2, q)
  <2>1. q[frame_root] = <<>>
    BY <1>1, <1>2 DEF Placed
  <2>2. \A m \in DOMAIN g : q[f[m]] \in Paths /\ (f[m] # frame_root => q[f[m]] # <<>>)
    BY <1>1, <1>2 DEF Placed
  <2> QED
    BY <1>3, <2>1, <2>2 DEF Placed
<1>6. ASSUME NEW x \in (M2 \cup I2) \ U2 PROVE x \in K2 /\ Rooted(L, g2, q, x)
  <2>1. PICK m \in M \cup I : x = f[m]
    BY <1>2
  <2>2. m \notin U /\ m \in DOMAIN g /\ frame_root \in DOMAIN g
    BY <1>1, <1>2, <2>1
  <2>3. m \in K /\ Rooted(L, g, p, m)
    BY <2>1, <2>2 DEF Borrows
  <2>4. q[x] = p[m]
    BY <1>2, <2>1, <2>2
  <2>5. Leads(g, p, frame_root, m) => Leads(g2, q, frame_root, x)
    BY <1>2, <1>3, <2>1, <2>2
  <2> QED
    BY <1>2, <2>1, <2>3, <2>4, <2>5 DEF Rooted
<1>7. ASSUME NEW x \in M2 \ U2, NEW y \in (M2 \cup I2) \ U2, x # y, Overlap(q[x], q[y])
      PROVE  Known(M2, g2, q, x, y)
  <2>1. PICK a \in M : x = f[a]
    BY <1>2
  <2>2. PICK b \in M \cup I : y = f[b]
    BY <1>2
  <2>3. a \in M \ U /\ b \in (M \cup I) \ U /\ a # b /\ a \in DOMAIN g /\ b \in DOMAIN g
    BY <1>1, <1>2, <1>7, <2>1, <2>2
  <2>4. q[x] = p[a] /\ q[y] = p[b]
    BY <1>2, <2>1, <2>2, <2>3
  <2>5. Known(M, g, p, a, b)
    BY <1>7, <2>3, <2>4 DEF Borrows
  <2>6. /\ Leads(g, p, a, b) => Leads(g2, q, x, y)
        /\ Leads(g, p, b, a) => Leads(g2, q, y, x)
        /\ b \in M => y \in M2
    BY <1>2, <1>3, <2>1, <2>2, <2>3
  <2> QED
    BY <2>5, <2>6 DEF Known
<1>8. ASSUME NEW x \in M2 \cap U2 PROVE x \notin K2 \/ Gone(L, q[x])
  <2>1. PICK a \in M : x = f[a]
    BY <1>2
  <2>2. a \in U /\ (x \in K2 <=> a \in K) /\ q[x] = p[a]
    BY <1>1, <1>2, <2>1
  <2> QED
    BY <2>2 DEF Borrows
<1> QED
  BY <1>3, <1>4, <1>5, <1>6, <1>7, <1>8 DEF Borrows

----------------------------------------------------------------------------
(* The slots of a function: its locals and operands *)

Avs == {av \in [type : Types, id : {NoId} \cup Nat] :
          IF is_reference(av.type) THEN av.id # NoId /\ av.id # frame_root ELSE av.id = NoId}

MutOf(av) == IF av.type.ref = "mut" THEN {av.id} ELSE {}
ImmOf(av) == IF av.type.ref = "imm" THEN {av.id} ELSE {}
RefOf(av) == MutOf(av) \cup ImmOf(av)

Muts(l, ops) ==
  (UNION {MutOf(l[i]) : i \in DOMAIN l}) \cup (UNION {MutOf(ops[k]) : k \in DOMAIN ops})
Imms(l, ops) ==
  (UNION {ImmOf(l[i]) : i \in DOMAIN l}) \cup (UNION {ImmOf(ops[k]) : k \in DOMAIN ops})
Refs(l, ops) == Muts(l, ops) \cup Imms(l, ops)

\* A reference is in one slot only; the ids from n on are new.
Slotted(f, l, ops, n) ==
  /\ n \in Nat \ {0} /\ ops \in Seq(Avs) /\ DOMAIN l \subseteq Locals(f)
  /\ \A i \in DOMAIN l : l[i] \in Avs /\ l[i].type = f.locals[i]
  /\ \A i, j \in DOMAIN l : i # j => RefOf(l[i]) \cap RefOf(l[j]) = {}
  /\ \A k, m \in DOMAIN ops : k # m => RefOf(ops[k]) \cap RefOf(ops[m]) = {}
  /\ \A i \in DOMAIN l, k \in DOMAIN ops : RefOf(l[i]) \cap RefOf(ops[k]) = {}
  /\ \A id \in Refs(l, ops) : id < n

LEMMA RefOfIs ==
  ASSUME NEW av \in Avs
  PROVE  /\ av = Typed(av.type, av.id) /\ av.type \in Types
         /\ is_reference(av.type) <=> av.type.ref \in {"mut", "imm"}
         /\ is_reference(av.type) => RefOf(av) = {av.id}
         /\ ~is_reference(av.type) => RefOf(av) = {} /\ av.id = NoId
         /\ \A id \in RefOf(av) : id \in Nat /\ id # frame_root /\ id # NoId
         /\ MutOf(av) \cap ImmOf(av) = {}
BY DEF Avs, RefOf, MutOf, ImmOf, is_reference, Types, Typed, NoId, frame_root

LEMMA RefsAre ==
  ASSUME NEW l, NEW ops, NEW x
  PROVE  /\ x \in Refs(l, ops) <=> \/ \E i \in DOMAIN l : x \in RefOf(l[i])
                                   \/ \E k \in DOMAIN ops : x \in RefOf(ops[k])
         /\ x \in Muts(l, ops) <=> \/ \E i \in DOMAIN l : x \in MutOf(l[i])
                                   \/ \E k \in DOMAIN ops : x \in MutOf(ops[k])
         /\ x \in Imms(l, ops) <=> \/ \E i \in DOMAIN l : x \in ImmOf(l[i])
                                   \/ \E k \in DOMAIN ops : x \in ImmOf(ops[k])
<1>1. \A S, T : x \in (UNION S) \cup (UNION T) <=> (\E y \in S : x \in y) \/ (\E y \in T : x \in y)
  OBVIOUS
<1>2. x \in Muts(l, ops) <=> \/ \E i \in DOMAIN l : x \in MutOf(l[i])
                             \/ \E k \in DOMAIN ops : x \in MutOf(ops[k])
  <2> DEFINE S == {MutOf(l[i]) : i \in DOMAIN l}
             T == {MutOf(ops[k]) : k \in DOMAIN ops}
  <2>1. (\E y \in S : x \in y) <=> \E i \in DOMAIN l : x \in MutOf(l[i])
    OBVIOUS
  <2>2. (\E y \in T : x \in y) <=> \E k \in DOMAIN ops : x \in MutOf(ops[k])
    OBVIOUS
  <2>3. Muts(l, ops) = (UNION S) \cup (UNION T)
    BY DEF Muts
  <2> HIDE DEF S, T
  <2> QED
    BY <1>1, <2>1, <2>2, <2>3
<1>3. x \in Imms(l, ops) <=> \/ \E i \in DOMAIN l : x \in ImmOf(l[i])
                             \/ \E k \in DOMAIN ops : x \in ImmOf(ops[k])
  <2> DEFINE S == {ImmOf(l[i]) : i \in DOMAIN l}
             T == {ImmOf(ops[k]) : k \in DOMAIN ops}
  <2>1. (\E y \in S : x \in y) <=> \E i \in DOMAIN l : x \in ImmOf(l[i])
    OBVIOUS
  <2>2. (\E y \in T : x \in y) <=> \E k \in DOMAIN ops : x \in ImmOf(ops[k])
    OBVIOUS
  <2>3. Imms(l, ops) = (UNION S) \cup (UNION T)
    BY DEF Imms
  <2> HIDE DEF S, T
  <2> QED
    BY <1>1, <2>1, <2>2, <2>3
<1> QED
  BY <1>2, <1>3 DEF Refs, RefOf

LEMMA RefsAreNat ==
  ASSUME NEW f, NEW l, NEW ops, NEW n, Slotted(f, l, ops, n)
  PROVE  Refs(l, ops) \subseteq Nat /\ frame_root \notin Refs(l, ops) /\ NoId \notin Refs(l, ops)
<1>1. \A k \in DOMAIN ops : ops[k] \in Avs
  BY DEF Slotted
<1>2. \A i \in DOMAIN l : l[i] \in Avs
  BY DEF Slotted
<1> QED
  BY <1>1, <1>2, RefOfIs, RefsAre

\* The slots l and ops are the slots l2 and ops2, and others with m and i.
Splits(f, l, ops, n, l2, ops2, m, i) ==
  /\ Slotted(f, l2, ops2, n)
  /\ Muts(l, ops) = Muts(l2, ops2) \cup m /\ Imms(l, ops) = Imms(l2, ops2) \cup i
  /\ (m \cup i) \cap Refs(l2, ops2) = {}

LEMMA PoppedMany ==
  ASSUME NEW f, NEW l, NEW ops, NEW n, Slotted(f, l, ops, n), NEW k \in 0..Len(ops),
         NEW b, b = Len(ops) - k
  PROVE  Splits(f, l, ops, n, l, SubSeq(ops, 1, b),
                UNION {MutOf(ops[j]) : j \in b + 1..Len(ops)},
                UNION {ImmOf(ops[j]) : j \in b + 1..Len(ops)})
<1> DEFINE ops2 == SubSeq(ops, 1, b)
<1>1. ops \in Seq(Avs) /\ Len(ops) \in Nat /\ DOMAIN ops = 1..Len(ops) /\ b \in 0..Len(ops)
  BY DEF Slotted
<1>2. ops2 \in Seq(Avs) /\ DOMAIN ops2 = 1..b /\ \A j \in 1..b : ops2[j] = ops[j]
  BY <1>1
<1>3. DOMAIN ops = DOMAIN ops2 \cup (b + 1..Len(ops)) /\ DOMAIN ops2 \cap (b + 1..Len(ops)) = {}
  BY <1>1, <1>2
<1> HIDE DEF ops2
<1> DEFINE m == UNION {MutOf(ops[j]) : j \in b + 1..Len(ops)}
           i == UNION {ImmOf(ops[j]) : j \in b + 1..Len(ops)}
<1>4. \A j \in DOMAIN ops2 : ops2[j] = ops[j] /\ j \in DOMAIN ops
  BY <1>2, <1>3
<1>5. Muts(l, ops) = Muts(l, ops2) \cup m /\ Imms(l, ops) = Imms(l, ops2) \cup i
  <2>1. \A x : x \in m <=> \E j \in b + 1..Len(ops) : x \in MutOf(ops[j])
    OBVIOUS
  <2>2. \A x : x \in i <=> \E j \in b + 1..Len(ops) : x \in ImmOf(ops[j])
    OBVIOUS
  <2> HIDE DEF m, i
  <2>3. \A x : x \in Muts(l, ops) <=> x \in Muts(l, ops2) \/ x \in m
    BY <1>3, <1>4, <2>1, RefsAre
  <2>4. \A x : x \in Imms(l, ops) <=> x \in Imms(l, ops2) \/ x \in i
    BY <1>3, <1>4, <2>2, RefsAre
  <2> QED
    BY <2>3, <2>4
<1>6. (m \cup i) \cap Refs(l, ops2) = {}
  <2>1. \A x \in m \cup i : \E j \in b + 1..Len(ops) : x \in RefOf(ops[j])
    BY DEF RefOf
  <2>2. \A x \in Refs(l, ops2) : \/ \E y \in DOMAIN l : x \in RefOf(l[y])
                                 \/ \E y \in DOMAIN ops2 : x \in RefOf(ops[y])
    BY <1>4, RefsAre
  <2>3. \A j \in b + 1..Len(ops) : j \in DOMAIN ops /\ j \notin DOMAIN ops2
    BY <1>3
  <2>4. \A y \in DOMAIN l, j \in DOMAIN ops : RefOf(l[y]) \cap RefOf(ops[j]) = {}
    BY DEF Slotted
  <2>5. \A y, j \in DOMAIN ops : y # j => RefOf(ops[y]) \cap RefOf(ops[j]) = {}
    BY DEF Slotted
  <2> HIDE DEF m, i
  <2> QED
    BY <1>4, <2>1, <2>2, <2>3, <2>4, <2>5
<1>7. Slotted(f, l, ops2, n)
  <2>1. Refs(l, ops2) \subseteq Refs(l, ops)
    BY <1>5 DEF Refs
  <2> HIDE DEF m, i
  <2> QED
    BY <1>2, <1>4, <2>1 DEF Slotted
<1> QED
  BY <1>5, <1>6, <1>7 DEF Splits, ops2

LEMMA PoppedOne ==
  ASSUME NEW f, NEW l, NEW ops, NEW n, Slotted(f, l, ops, n), ops # <<>>
  PROVE  /\ ops[Len(ops)] \in Avs
         /\ Splits(f, l, ops, n, l, SubSeq(ops, 1, Len(ops) - 1),
                   MutOf(ops[Len(ops)]), ImmOf(ops[Len(ops)]))
<1>1. ops \in Seq(Avs) /\ Len(ops) \in Nat \ {0}
  <2>1. ops \in Seq(Avs)
    BY DEF Slotted
  <2> QED
    BY <2>1, EmptySeq, LenProperties
<1>2. ops[Len(ops)] \in Avs
  BY <1>1
<1>3. PICK b \in Nat : b = Len(ops) - 1
  BY <1>1
<1>4. b + 1..Len(ops) = {Len(ops)} /\ 1 \in 0..Len(ops)
  BY <1>1, <1>3
<1>5. Splits(f, l, ops, n, l, SubSeq(ops, 1, b),
             UNION {MutOf(ops[j]) : j \in b + 1..Len(ops)},
             UNION {ImmOf(ops[j]) : j \in b + 1..Len(ops)})
  BY <1>3, <1>4, PoppedMany
<1>6. \A x : UNION {MutOf(ops[j]) : j \in {x}} = MutOf(ops[x]) /\ UNION {ImmOf(ops[j]) : j \in {x}} = ImmOf(ops[x])
  OBVIOUS
<1>7. Splits(f, l, ops, n, l, SubSeq(ops, 1, b), MutOf(ops[Len(ops)]), ImmOf(ops[Len(ops)]))
  BY <1>4, <1>5, <1>6, Zenon
<1> QED
  BY <1>2, <1>3, <1>7

\* A value, or a reference that is in none of the slots.
Other(l, ops, n, av) ==
  av \in Avs /\ RefOf(av) \cap Refs(l, ops) = {} /\ \A id \in RefOf(av) : id < n

Pushes(l, ops, n, av, ops2) == Other(l, ops, n, av) /\ ops2 = Append(ops, av)

IsPushed(f, l, ops, n, av, ops2) ==
  /\ Slotted(f, l, ops2, n)
  /\ Muts(l, ops2) = Muts(l, ops) \cup MutOf(av)
  /\ Imms(l, ops2) = Imms(l, ops) \cup ImmOf(av)

LEMMA PushedOn ==
  ASSUME NEW f, NEW l, NEW ops, NEW n, Slotted(f, l, ops, n), NEW av, NEW ops2,
         Pushes(l, ops, n, av, ops2)
  PROVE  IsPushed(f, l, ops, n, av, ops2)
<1>0. av \in Avs /\ RefOf(av) \cap Refs(l, ops) = {} /\ \A id \in RefOf(av) : id < n
  BY DEF Pushes, Other
<1>1. ops \in Seq(Avs) /\ DOMAIN ops = 1..Len(ops) /\ Len(ops) \in Nat
  BY DEF Slotted
<1>2. PICK k \in Nat : k = Len(ops) + 1
  BY <1>1
<1>3. /\ ops2 \in Seq(Avs) /\ DOMAIN ops2 = DOMAIN ops \cup {k} /\ k \notin DOMAIN ops
      /\ ops2[k] = av /\ \A j \in DOMAIN ops : ops2[j] = ops[j]
  BY <1>0, <1>1, <1>2 DEF Pushes
<1>4. Muts(l, ops2) = Muts(l, ops) \cup MutOf(av) /\ Imms(l, ops2) = Imms(l, ops) \cup ImmOf(av)
  <2>1. ASSUME NEW x
        PROVE  /\ (\E j \in DOMAIN ops2 : x \in MutOf(ops2[j])) <=> (\E j \in DOMAIN ops : x \in MutOf(ops[j])) \/ x \in MutOf(av)
               /\ (\E j \in DOMAIN ops2 : x \in ImmOf(ops2[j])) <=> (\E j \in DOMAIN ops : x \in ImmOf(ops[j])) \/ x \in ImmOf(av)
    BY <1>3
  <2>2. \A x : x \in Muts(l, ops2) <=> x \in Muts(l, ops) \/ x \in MutOf(av)
    BY <2>1, RefsAre
  <2>3. \A x : x \in Imms(l, ops2) <=> x \in Imms(l, ops) \/ x \in ImmOf(av)
    BY <2>1, RefsAre
  <2> QED
    BY <2>2, <2>3
<1>5. Refs(l, ops2) = Refs(l, ops) \cup RefOf(av)
  BY <1>4 DEF Refs, RefOf
<1>6. \A i \in DOMAIN l : RefOf(l[i]) \cap RefOf(av) = {}
  BY <1>0, RefsAre
<1>7. \A j \in DOMAIN ops : RefOf(ops[j]) \cap RefOf(av) = {}
  BY <1>0, RefsAre
<1>8. \A j, m \in DOMAIN ops2 : j # m => RefOf(ops2[j]) \cap RefOf(ops2[m]) = {}
  BY <1>3, <1>7 DEF Slotted
<1>9. \A i \in DOMAIN l, j \in DOMAIN ops2 : RefOf(l[i]) \cap RefOf(ops2[j]) = {}
  BY <1>3, <1>6 DEF Slotted
<1>10. Slotted(f, l, ops2, n)
  BY <1>0, <1>3, <1>5, <1>8, <1>9 DEF Slotted
<1> QED
  BY <1>4, <1>10 DEF IsPushed

LEMMA TakenOut ==
  ASSUME NEW f, NEW l, NEW ops, NEW n, Slotted(f, l, ops, n), NEW i \in DOMAIN l
  PROVE  Splits(f, l, ops, n, Restrict(l, DOMAIN l \ {i}), ops, MutOf(l[i]), ImmOf(l[i]))
<1> DEFINE l2 == Restrict(l, DOMAIN l \ {i})
<1>1. DOMAIN l2 = DOMAIN l \ {i} /\ \A j \in DOMAIN l2 : l2[j] = l[j]
  BY DEF Restrict
<1> HIDE DEF l2
<1>2. Muts(l, ops) = Muts(l2, ops) \cup MutOf(l[i]) /\ Imms(l, ops) = Imms(l2, ops) \cup ImmOf(l[i])
  BY <1>1 DEF Muts, Imms
<1>3. RefOf(l[i]) \cap Refs(l2, ops) = {}
  <2>1. \A x \in Refs(l2, ops) : \/ \E y \in DOMAIN l \ {i} : x \in RefOf(l[y])
                                 \/ \E y \in DOMAIN ops : x \in RefOf(ops[y])
    BY <1>1, RefsAre
  <2> QED
    BY <2>1 DEF Slotted
<1>4. Slotted(f, l2, ops, n)
  <2>1. Refs(l2, ops) \subseteq Refs(l, ops)
    BY <1>2 DEF Refs
  <2> QED
    BY <1>1, <2>1 DEF Slotted
<1> QED
  BY <1>2, <1>3, <1>4 DEF Splits, RefOf, l2

LEMMA PutIn ==
  ASSUME NEW f, NEW l, NEW ops, NEW n, Slotted(f, l, ops, n), NEW i \in Locals(f) \ DOMAIN l,
         NEW av, Other(l, ops, n, av), av.type = f.locals[i]
  PROVE  /\ Slotted(f, With(l, i, av), ops, n)
         /\ Muts(With(l, i, av), ops) = Muts(l, ops) \cup MutOf(av)
         /\ Imms(With(l, i, av), ops) = Imms(l, ops) \cup ImmOf(av)
<1>0. av \in Avs /\ RefOf(av) \cap Refs(l, ops) = {} /\ \A id \in RefOf(av) : id < n
  BY DEF Other
<1> DEFINE l2 == With(l, i, av)
<1>1. DOMAIN l2 = DOMAIN l \cup {i} /\ l2[i] = av /\ \A j \in DOMAIN l : l2[j] = l[j]
  BY DEF With
<1> HIDE DEF l2
<1>2. Muts(l2, ops) = Muts(l, ops) \cup MutOf(av) /\ Imms(l2, ops) = Imms(l, ops) \cup ImmOf(av)
  BY <1>1 DEF Muts, Imms
<1>3. Refs(l2, ops) = Refs(l, ops) \cup RefOf(av)
  BY <1>2 DEF Refs, RefOf
<1>4. \A j \in DOMAIN l : RefOf(l[j]) \cap RefOf(av) = {}
  BY <1>0, RefsAre
<1>5. \A j \in DOMAIN ops : RefOf(ops[j]) \cap RefOf(av) = {}
  BY <1>0, RefsAre
<1>6. \A j, m \in DOMAIN l2 : j # m => RefOf(l2[j]) \cap RefOf(l2[m]) = {}
  BY <1>1, <1>4 DEF Slotted
<1>7. \A j \in DOMAIN l2, k \in DOMAIN ops : RefOf(l2[j]) \cap RefOf(ops[k]) = {}
  BY <1>1, <1>5 DEF Slotted
<1>8. Slotted(f, l2, ops, n)
  BY <1>0, <1>1, <1>3, <1>6, <1>7 DEF Slotted
<1> QED
  BY <1>2, <1>8 DEF l2

----------------------------------------------------------------------------
(* Sound states *)

Pointers == [place : Paths, ok : BOOLEAN, unseen : BOOLEAN]

PlacesOf(r) == [n \in {frame_root} \cup DOMAIN r |-> IF n = frame_root THEN <<>> ELSE r[n].place]
Good(r) == {id \in DOMAIN r : r[id].ok}
UnseenIn(r) == {id \in DOMAIN r : r[id].unseen}

\* The locals that have a value, other than a reference.
Live(l) == {i \in DOMAIN l : ~is_reference(l[i].type)}

\* The pointers r fit the references M and I, the locals L and the graph g.
Fits(f, M, I, L, g, r) ==
  /\ Borrows(M, I, L, g, PlacesOf(r), Good(r), UnseenIn(r))
  /\ frame_root \notin DOMAIN r /\ M \cup I \subseteq DOMAIN r
  /\ \A id \in M \cup I : r[id] \in Pointers
  /\ \A a \in M : r[a].place[1][1] = "arg" => f.locals[r[a].place[1][2]].ref = "mut"

Sound(f, s, ops, r) ==
  /\ s = [locls |-> s.locls, graph |-> s.graph, next_id |-> s.next_id]
  /\ Slotted(f, s.locls, ops, s.next_id)
  /\ Fits(f, Muts(s.locls, ops), Imms(s.locls, ops), Live(s.locls), s.graph, r)

SoundNow == Sound(fn, state, stack, refs) /\ DOMAIN refs = Refs(state.locls, stack)

LEMMA PlacesAre ==
  ASSUME NEW r
  PROVE  /\ PlacesOf(r)[frame_root] = <<>>
         /\ \A id \in DOMAIN r : id # frame_root => PlacesOf(r)[id] = r[id].place
         /\ \A id \in DOMAIN r : (id \in Good(r) <=> r[id].ok) /\ (id \in UnseenIn(r) <=> r[id].unseen)
BY DEF PlacesOf, Good, UnseenIn

\* What a state that fits says of its pointers.
Pointed(M, I, L, g, r) ==
  /\ Borrows(M, I, L, g, PlacesOf(r), Good(r), UnseenIn(r))
  /\ DOMAIN g = {frame_root} \cup M \cup I /\ frame_root \notin M \cup I /\ M \cap I = {}
  /\ Graph(g) /\ Placed(DOMAIN g, PlacesOf(r)) /\ PlacesOf(r)[frame_root] = <<>>
  /\ frame_root \notin DOMAIN r
  /\ \A id \in M \cup I : /\ id \in DOMAIN r /\ r[id] \in Pointers
                          /\ r[id].place \in Paths /\ r[id].place # <<>>
                          /\ PlacesOf(r)[id] = r[id].place
                          /\ (id \in Good(r) <=> r[id].ok)
                          /\ (id \in UnseenIn(r) <=> r[id].unseen)
  /\ \A id \in M \cup I : ~r[id].unseen => r[id].ok /\ ~Gone(L, r[id].place)
  /\ \A a \in M : r[a].unseen => ~r[a].ok \/ Gone(L, r[a].place)

LEMMA FitsSays ==
  ASSUME NEW f, NEW M, NEW I, NEW L, NEW g, NEW r, Fits(f, M, I, L, g, r)
  PROVE  Pointed(M, I, L, g, r)
<1>1. /\ Borrows(M, I, L, g, PlacesOf(r), Good(r), UnseenIn(r))
      /\ frame_root \notin DOMAIN r /\ M \cup I \subseteq DOMAIN r
      /\ \A id \in M \cup I : r[id] \in Pointers
  BY DEF Fits
<1>2. /\ DOMAIN g = {frame_root} \cup M \cup I /\ frame_root \notin M \cup I /\ M \cap I = {}
      /\ Graph(g) /\ Placed(DOMAIN g, PlacesOf(r))
  BY <1>1 DEF Borrows
<1>3. \A id \in M \cup I : /\ id \in DOMAIN r /\ r[id] \in Pointers /\ id # frame_root
                           /\ PlacesOf(r)[id] = r[id].place
                           /\ (id \in Good(r) <=> r[id].ok)
                           /\ (id \in UnseenIn(r) <=> r[id].unseen)
  BY <1>1, <1>2, PlacesAre
<1>4. \A id \in M \cup I : r[id].place \in Paths /\ r[id].place # <<>>
  BY <1>2, <1>3 DEF Placed
<1>5. \A id \in M \cup I : ~r[id].unseen => r[id].ok /\ ~Gone(L, r[id].place)
  BY <1>1, <1>3 DEF Borrows, Rooted
<1>6. \A a \in M : r[a].unseen => ~r[a].ok \/ Gone(L, r[a].place)
  BY <1>1, <1>3 DEF Borrows
<1>7. PlacesOf(r)[frame_root] = <<>>
  BY PlacesAre
<1> QED
  BY <1>1, <1>2, <1>3, <1>4, <1>5, <1>6, <1>7 DEF Pointed

\* References go, values go, pointers go bad that are unseen.
FitsAfter(f, M, I, g, r, M2, I2, L2, g2, r2) ==
  /\ M2 \subseteq M /\ I2 \subseteq I
  /\ Graph(g2) /\ DOMAIN g2 = {frame_root} \cup M2 \cup I2
  /\ Keeps(g, PlacesOf(r), g2, PlacesOf(r))
  /\ frame_root \notin DOMAIN r2 /\ M2 \cup I2 \subseteq DOMAIN r2
  /\ \A id \in M2 \cup I2 :
       /\ r2[id] \in Pointers /\ r2[id].place = r[id].place
       /\ ~r2[id].unseen => ~r[id].unseen /\ r2[id].ok /\ ~Gone(L2, r[id].place)
  /\ \A a \in M2 : r2[a].unseen => ~r2[a].ok \/ Gone(L2, r[a].place)

LEMMA FitsLess ==
  ASSUME NEW f, NEW M, NEW I, NEW L, NEW g, NEW r, Fits(f, M, I, L, g, r),
         NEW M2, NEW I2, NEW L2, NEW g2, NEW r2, FitsAfter(f, M, I, g, r, M2, I2, L2, g2, r2)
  PROVE  Fits(f, M2, I2, L2, g2, r2)
<1> DEFINE p == PlacesOf(r)
           q == PlacesOf(r2)
           K == Good(r)
           U == UnseenIn(r)
           K2 == Good(r2)
           U2 == UnseenIn(r2)
<1>1. /\ Borrows(M, I, L, g, p, K, U)
      /\ M \cap I = {} /\ frame_root \notin M \cup I
      /\ \A id \in M \cup I : p[id] = r[id].place /\ (id \in K <=> r[id].ok) /\ (id \in U <=> r[id].unseen)
      /\ p[frame_root] = <<>>
  <2>1. Pointed(M, I, L, g, r)
    BY FitsSays
  <2> QED
    BY <2>1 DEF Pointed
<1>2. /\ M2 \subseteq M /\ I2 \subseteq I
      /\ Graph(g2) /\ DOMAIN g2 = {frame_root} \cup M2 \cup I2 /\ Keeps(g, p, g2, p)
      /\ frame_root \notin DOMAIN r2 /\ M2 \cup I2 \subseteq DOMAIN r2
      /\ \A id \in M2 \cup I2 :
           /\ r2[id] \in Pointers /\ r2[id].place = r[id].place
           /\ ~r2[id].unseen => ~r[id].unseen /\ r2[id].ok /\ ~Gone(L2, r[id].place)
      /\ \A a \in M2 : r2[a].unseen => ~r2[a].ok \/ Gone(L2, r[a].place)
  BY DEF FitsAfter
<1>3. /\ q[frame_root] = <<>>
      /\ \A id \in M2 \cup I2 : /\ q[id] = r2[id].place
                                /\ (id \in K2 <=> r2[id].ok) /\ (id \in U2 <=> r2[id].unseen)
  BY <1>2, PlacesAre
<1> HIDE DEF p, q, K, U, K2, U2
<1>4. \A n \in DOMAIN g2 : q[n] = p[n]
  BY <1>1, <1>2, <1>3
<1>5. Keeps(g, p, g2, q)
  BY <1>2, <1>4, LeadsSame DEF Keeps
<1>6. Lessens(M, I, g, p, U, M2, I2, L2, g2, q, K2, U2)
  BY <1>1, <1>2, <1>3, <1>4, <1>5 DEF Lessens
<1>7. Borrows(M2, I2, L2, g2, q, K2, U2)
  BY <1>1, <1>6, BorrowsLess
<1>8. \A a \in M2 : r2[a].place[1][1] = "arg" => f.locals[r2[a].place[1][2]].ref = "mut"
  BY <1>2 DEF Fits
<1> QED
  BY <1>2, <1>7, <1>8 DEF Fits, q, K2, U2

\* Pointers of ids that are not there do not matter.
LEMMA FitsSame ==
  ASSUME NEW f, NEW M, NEW I, NEW L, NEW g, NEW r, Fits(f, M, I, L, g, r),
         NEW r2, frame_root \notin DOMAIN r2, M \cup I \subseteq DOMAIN r2,
         \A id \in M \cup I : r2[id] = r[id]
  PROVE  Fits(f, M, I, L, g, r2)
<1>1. Keeps(g, PlacesOf(r), g, PlacesOf(r))
  BY DEF Keeps
<1>2. /\ Graph(g) /\ DOMAIN g = {frame_root} \cup M \cup I
      /\ \A id \in M \cup I : r[id] \in Pointers
      /\ \A id \in M \cup I : ~r[id].unseen => r[id].ok /\ ~Gone(L, r[id].place)
      /\ \A a \in M : r[a].unseen => ~r[a].ok \/ Gone(L, r[a].place)
  <2>1. Pointed(M, I, L, g, r)
    BY FitsSays
  <2> QED
    BY <2>1 DEF Pointed
<1>3. FitsAfter(f, M, I, g, r, M, I, L, g, r2)
  BY <1>1, <1>2 DEF FitsAfter
<1> QED
  BY <1>3, FitsLess

\* What an instruction leaves.
LEMMA StepSound ==
  ASSUME NEW s, NEW ops, NEW r, Sound(fn, s, ops, r), Step(s, ops, r)
  PROVE  SoundNow'
<1> DEFINE M == Muts(s.locls, ops)
           I == Imms(s.locls, ops)
           L == Live(s.locls)
           g == s.graph
           r2 == Restrict(r, DOMAIN r \cap DOMAIN g)
<1>1. fn' = fn /\ state' = s /\ stack' = ops /\ refs' = r2
  BY DEF Step
<1>2. Fits(fn, M, I, L, g, r)
  BY DEF Sound
<1> HIDE DEF M, I, L
<1>3. /\ frame_root \notin DOMAIN r /\ M \cup I \subseteq DOMAIN r /\ frame_root \notin M \cup I
      /\ DOMAIN g = {frame_root} \cup M \cup I
  <2>1. Pointed(M, I, L, g, r)
    BY <1>2, FitsSays
  <2> QED
    BY <2>1 DEF Pointed
<1>4. DOMAIN r2 = M \cup I /\ \A id \in M \cup I : r2[id] = r[id]
  BY <1>3 DEF Restrict
<1> HIDE DEF r2
<1>5. Fits(fn, M, I, L, g, r2)
  BY <1>2, <1>3, <1>4, FitsSame
<1>6. Sound(fn, s, ops, r2)
  BY <1>5 DEF Sound, M, I, L
<1>7. DOMAIN r2 = Refs(s.locls, ops)
  BY <1>4 DEF Refs, M, I
<1> QED
  BY <1>1, <1>6, <1>7 DEF SoundNow

----------------------------------------------------------------------------
(* Operands that come and go *)

LEMMA PushedValue ==
  ASSUME NEW f, NEW s, NEW ops, NEW r, Sound(f, s, ops, r),
         NEW av \in Avs, ~is_reference(av.type)
  PROVE  Sound(f, s, Append(ops, av), r)
<1> DEFINE l == s.locls
           n == s.next_id
           ops2 == Append(ops, av)
<1>1. Slotted(f, l, ops, n)
  BY DEF Sound
<1>2. MutOf(av) = {} /\ ImmOf(av) = {} /\ RefOf(av) = {}
  BY RefOfIs DEF RefOf
<1> HIDE DEF l, n
<1>5. Pushes(l, ops, n, av, ops2)
  BY <1>2 DEF Other, Pushes
<1>3. IsPushed(f, l, ops, n, av, ops2)
  BY <1>1, <1>5, PushedOn
<1> HIDE DEF ops2
<1>4. Slotted(f, l, ops2, n) /\ Muts(l, ops2) = Muts(l, ops) /\ Imms(l, ops2) = Imms(l, ops)
  BY <1>2, <1>3 DEF IsPushed
<1>6. Sound(f, s, ops2, r)
  BY <1>4 DEF Sound, l, n
<1> QED
  BY <1>6 DEF ops2

LEMMA PoppedValue ==
  ASSUME NEW f, NEW s, NEW ops, NEW r, Sound(f, s, ops, r),
         ops # <<>>, ~is_reference(ops[Len(ops)].type)
  PROVE  Sound(f, s, SubSeq(ops, 1, Len(ops) - 1), r)
<1> DEFINE l == s.locls
           n == s.next_id
           ops2 == SubSeq(ops, 1, Len(ops) - 1)
           av == ops[Len(ops)]
<1>1. Slotted(f, l, ops, n)
  BY DEF Sound
<1> HIDE DEF l, n
<1>2. av \in Avs /\ Splits(f, l, ops, n, l, ops2, MutOf(av), ImmOf(av))
  BY <1>1, PoppedOne
<1> HIDE DEF ops2
<1>3. MutOf(av) = {} /\ ImmOf(av) = {}
  BY <1>2, RefOfIs DEF RefOf
<1>4. Slotted(f, l, ops2, n) /\ Muts(l, ops2) = Muts(l, ops) /\ Imms(l, ops2) = Imms(l, ops)
  BY <1>2, <1>3 DEF Splits
<1>5. Sound(f, s, ops2, r)
  BY <1>4 DEF Sound, l, n
<1> QED
  BY <1>5 DEF ops2

\* Without a reference, and without its node.
LEMMA FitsReleased ==
  ASSUME NEW f, NEW M, NEW I, NEW L, NEW g, NEW r, Fits(f, M, I, L, g, r), NEW id \in M \cup I
  PROVE  Fits(f, M \ {id}, I \ {id}, L, remove(g, id), r)
<1> DEFINE g2 == remove(g, id)
           M2 == M \ {id}
           I2 == I \ {id}
<1>1. Pointed(M, I, L, g, r)
  BY FitsSays
<1>2. /\ DOMAIN g = {frame_root} \cup M \cup I /\ frame_root \notin M \cup I
      /\ Graph(g) /\ Placed(DOMAIN g, PlacesOf(r)) /\ frame_root \notin DOMAIN r
      /\ \A a \in M \cup I : /\ a \in DOMAIN r /\ r[a] \in Pointers
                             /\ ~r[a].unseen => r[a].ok /\ ~Gone(L, r[a].place)
      /\ \A a \in M : r[a].unseen => ~r[a].ok \/ Gone(L, r[a].place)
  BY <1>1 DEF Pointed
<1>3. id \in DOMAIN g \ {frame_root}
  BY <1>2
<1>4. /\ Graph(g2) /\ DOMAIN g2 = DOMAIN g \ {id}
      /\ Keeps(g, PlacesOf(r), g2, PlacesOf(r))
  BY <1>2, <1>3, Removed
<1> HIDE DEF g2
<1>5. DOMAIN g2 = {frame_root} \cup M2 \cup I2
  BY <1>2, <1>4
<1>6. FitsAfter(f, M, I, g, r, M2, I2, L, g2, r)
  BY <1>2, <1>4, <1>5 DEF FitsAfter
<1> HIDE DEF M2, I2
<1>7. Fits(f, M2, I2, L, g2, r)
  BY <1>6, FitsLess
<1> QED
  BY <1>7 DEF g2, M2, I2

LEMMA ReleaseIs ==
  ASSUME NEW f, NEW s, NEW ops, NEW r, Sound(f, s, ops, r), NEW id
  PROVE  Release(s, id) = [locls |-> s.locls, graph |-> remove(s.graph, id), next_id |-> s.next_id]
BY DEF Sound, Release

\* The reference on top goes.
LEMMA ReleasedTop ==
  ASSUME NEW f, NEW s, NEW ops, NEW r, Sound(f, s, ops, r),
         ops # <<>>, is_reference(ops[Len(ops)].type)
  PROVE  Sound(f, Release(s, ops[Len(ops)].id), SubSeq(ops, 1, Len(ops) - 1), r)
<1> DEFINE l == s.locls
           n == s.next_id
           g == s.graph
           ops2 == SubSeq(ops, 1, Len(ops) - 1)
           av == ops[Len(ops)]
           id == av.id
           g2 == remove(g, id)
           M == Muts(l, ops)
           I == Imms(l, ops)
           M2 == Muts(l, ops2)
           I2 == Imms(l, ops2)
           t == Release(s, id)
<1>1. Slotted(f, l, ops, n) /\ Fits(f, M, I, Live(l), g, r)
  BY DEF Sound
<1>2. t = [locls |-> l, graph |-> g2, next_id |-> n]
  BY ReleaseIs
<1> HIDE DEF l, n, g, t, g2
<1>3. av \in Avs /\ Splits(f, l, ops, n, l, ops2, MutOf(av), ImmOf(av))
  BY <1>1, PoppedOne
<1> HIDE DEF ops2
<1>4. RefOf(av) = {id} /\ RefOf(av) = MutOf(av) \cup ImmOf(av)
  BY <1>3, RefOfIs DEF RefOf
<1>5. /\ Slotted(f, l, ops2, n)
      /\ M = M2 \cup MutOf(av) /\ I = I2 \cup ImmOf(av)
      /\ (MutOf(av) \cup ImmOf(av)) \cap (M2 \cup I2) = {}
  BY <1>3 DEF Splits, Refs
<1> HIDE DEF M, I, M2, I2, id, av
<1>6. id \in M \cup I /\ M2 = M \ {id} /\ I2 = I \ {id}
  BY <1>4, <1>5
<1>7. Fits(f, M2, I2, Live(l), g2, r)
  <2>1. Fits(f, M \ {id}, I \ {id}, Live(l), remove(g, id), r)
    BY <1>1, <1>6, FitsReleased
  <2> QED
    BY <2>1, <1>6 DEF g2
<1>8. Sound(f, t, ops2, r)
  BY <1>2, <1>5, <1>7 DEF Sound, M2, I2
<1> QED
  BY <1>8 DEF t, ops2, id, av

LEMMA UnderTwo ==
  ASSUME NEW T, NEW ops \in Seq(T), Len(ops) >= 2, NEW u, u = SubSeq(ops, 1, Len(ops) - 1)
  PROVE  /\ ops # <<>> /\ u # <<>> /\ Len(u) = Len(ops) - 1 /\ u[Len(u)] = ops[Len(ops) - 1]
         /\ SubSeq(u, 1, Len(u) - 1) = SubSeq(ops, 1, Len(ops) - 2)
<1>1. PICK k \in Nat : Len(ops) = k + 2
  <2>1. Len(ops) \in Nat
    OBVIOUS
  <2> QED
    BY <2>1
<1>2. /\ u \in Seq(T) /\ Len(u) = k + 1 /\ u = SubSeq(ops, 1, k + 1)
      /\ \A j \in 1..k + 1 : u[j] = ops[j]
  BY <1>1
<1>3. SubSeq(u, 1, k) \in Seq(T) /\ SubSeq(ops, 1, k) \in Seq(T)
  BY <1>1, <1>2
<1>4. Len(SubSeq(u, 1, k)) = k /\ Len(SubSeq(ops, 1, k)) = k
  BY <1>1, <1>2
<1>5. \A j \in 1..k : SubSeq(u, 1, k)[j] = SubSeq(ops, 1, k)[j]
  BY <1>1, <1>2
<1>6. SubSeq(u, 1, k) = SubSeq(ops, 1, k)
  <2> DEFINE a == SubSeq(u, 1, k)
             b == SubSeq(ops, 1, k)
  <2>1. a \in Seq(T) /\ b \in Seq(T) /\ Len(a) = Len(b) /\ \A j \in 1..Len(a) : a[j] = b[j]
    BY <1>3, <1>4, <1>5
  <2> HIDE DEF a, b
  <2>2. a = b
    BY <2>1, SeqEqual
  <2> QED
    BY <2>2 DEF a, b
<1>7. Len(u) - 1 = k /\ Len(ops) - 2 = k /\ Len(ops) - 1 = k + 1
  BY <1>1, <1>2
<1> QED
  BY <1>1, <1>2, <1>6, <1>7

LEMMA ValueIs ==
  ASSUME NEW t \in {"u64"} \cup DOMAIN Fields
  PROVE  Typed(Value(t), NoId) \in Avs /\ ~is_reference(Typed(Value(t), NoId).type)
BY DEF Typed, Value, Avs, Types, is_reference

LEMMA PrimIs == Prim \in Avs /\ ~is_reference(Prim.type)
BY ValueIs DEF Prim

LEMMA SoundSays ==
  ASSUME SoundNow
  PROVE  /\ Sound(fn, state, stack, refs)
         /\ stack \in Seq(Avs) /\ Len(stack) \in Nat
         /\ stack # <<>> => Top \in Avs /\ Top = stack[Len(stack)]
         /\ Under(1) = SubSeq(stack, 1, Len(stack) - 1)
<1>1. Sound(fn, state, stack, refs) /\ stack \in Seq(Avs)
  BY DEF SoundNow, Sound, Slotted
<1>2. Len(stack) \in Nat /\ Len(stack) - 0 = Len(stack)
  BY <1>1
<1>3. stack # <<>> => Len(stack) \in DOMAIN stack
  BY <1>1
<1> QED
  BY <1>1, <1>2, <1>3 DEF Top, Peek, Under

LEMMA ldSound ==
  ASSUME SoundNow, ld
  PROVE  SoundNow'
<1>1. Sound(fn, state, Append(stack, Prim), refs)
  BY SoundSays, PushedValue, PrimIs
<1> QED
  BY <1>1, StepSound DEF ld

\* Two values go.
LEMMA PoppedTwo ==
  ASSUME SoundNow, Len(stack) >= 2, ~is_reference(Top.type), ~is_reference(Peek(1).type)
  PROVE  Sound(fn, state, Under(2), refs)
<1> DEFINE u == SubSeq(stack, 1, Len(stack) - 1)
<1>1. Sound(fn, state, stack, refs) /\ stack \in Seq(Avs) /\ Len(stack) \in Nat
  BY SoundSays
<1>2. /\ stack # <<>> /\ u # <<>> /\ u[Len(u)] = stack[Len(stack) - 1]
      /\ SubSeq(u, 1, Len(u) - 1) = SubSeq(stack, 1, Len(stack) - 2)
  BY <1>1, UnderTwo
<1>3. Top = stack[Len(stack)]
  BY <1>2, SoundSays
<1>4. Sound(fn, state, u, refs)
  BY <1>1, <1>2, <1>3, PoppedValue
<1> HIDE DEF u
<1>5. ~is_reference(u[Len(u)].type)
  BY <1>2 DEF Peek
<1>6. Sound(fn, state, SubSeq(u, 1, Len(u) - 1), refs)
  BY <1>2, <1>4, <1>5, PoppedValue
<1> QED
  BY <1>2, <1>6 DEF Under

LEMMA binopSound ==
  ASSUME SoundNow, binop
  PROVE  SoundNow'
<1>1. Len(stack) >= 2 /\ Top = Prim /\ Peek(1) = Prim
  BY DEF binop
<1>2. Sound(fn, state, Under(2), refs)
  BY <1>1, PoppedTwo, PrimIs
<1>3. Sound(fn, state, Append(Under(2), Prim), refs)
  BY <1>2, PushedValue, PrimIs
<1> QED
  BY <1>3, StepSound DEF binop

\* A value takes the place of another.
LEMMA Exchanged ==
  ASSUME SoundNow, stack # <<>>, ~is_reference(Top.type),
         NEW av \in Avs, ~is_reference(av.type)
  PROVE  Sound(fn, state, Append(Under(1), av), refs)
<1>1. Sound(fn, state, Under(1), refs)
  BY SoundSays, PoppedValue
<1> QED
  BY <1>1, PushedValue

LEMMA packSound ==
  ASSUME SoundNow, NEW t \in DOMAIN Fields, pack(t)
  PROVE  SoundNow'
<1>1. stack # <<>> /\ ~is_reference(Top.type)
  BY DEF pack, Value, is_reference
<1>2. Sound(fn, state, Append(Under(1), Typed(Value(t), NoId)), refs)
  BY <1>1, ValueIs, Exchanged
<1> QED
  BY <1>2, StepSound DEF pack

LEMMA unpackSound ==
  ASSUME SoundNow, NEW t \in DOMAIN Fields, unpack(t)
  PROVE  SoundNow'
<1>1. stack # <<>> /\ ~is_reference(Top.type)
  BY DEF unpack, Value, is_reference
<1>2. PICK f \in DOMAIN Fields[t] : Step(state, Append(Under(1), Typed(Value(Fields[t][f]), NoId)), refs)
  BY DEF unpack
<1>3. Fields[t][f] \in {"u64"} \cup DOMAIN Fields
  BY FunctionsAssumption
<1>4. Sound(fn, state, Append(Under(1), Typed(Value(Fields[t][f]), NoId)), refs)
  BY <1>1, <1>3, ValueIs, Exchanged
<1> QED
  BY <1>2, <1>4, StepSound

LEMMA move_to_senderSound ==
  ASSUME SoundNow, move_to_sender
  PROVE  SoundNow'
<1>1. stack # <<>> /\ ~is_reference(Top.type)
  BY DEF move_to_sender, Value, is_reference
<1>2. Sound(fn, state, Under(1), refs)
  BY <1>1, SoundSays, PoppedValue
<1> QED
  BY <1>2, StepSound DEF move_to_sender

LEMMA popSound ==
  ASSUME SoundNow, pop
  PROVE  SoundNow'
<1>1. CASE is_reference(Top.type)
  <2>1. Sound(fn, Release(state, Top.id), Under(1), refs)
    BY <1>1, SoundSays, ReleasedTop DEF pop
  <2> QED
    BY <1>1, <2>1, StepSound DEF pop
<1>2. CASE ~is_reference(Top.type)
  <2>1. Sound(fn, state, Under(1), refs)
    BY <1>2, SoundSays, PoppedValue DEF pop
  <2> QED
    BY <1>2, <2>1, StepSound DEF pop
<1> QED
  BY <1>1, <1>2

LEMMA read_refSound ==
  ASSUME SoundNow, read_ref
  PROVE  SoundNow'
<1>1. stack # <<>> /\ is_reference(Top.type)
  BY DEF read_ref
<1>2. Top.type.of \in {"u64"} \cup DOMAIN Fields
  BY <1>1, SoundSays DEF Avs, Types
<1>3. Sound(fn, Release(state, Top.id), Under(1), refs)
  BY <1>1, SoundSays, ReleasedTop
<1>4. Sound(fn, Release(state, Top.id), Append(Under(1), Typed(Value(Top.type.of), NoId)), refs)
  BY <1>2, <1>3, ValueIs, PushedValue
<1> QED
  BY <1>4, StepSound DEF read_ref

LEMMA equalSound ==
  ASSUME SoundNow, equal
  PROVE  SoundNow'
<1> DEFINE u == SubSeq(stack, 1, Len(stack) - 1)
           first == Release(state, Top.id)
<1>1. Len(stack) >= 2 /\ Top.type = Peek(1).type
  BY DEF equal
<1>2. Sound(fn, state, stack, refs) /\ stack \in Seq(Avs) /\ Len(stack) \in Nat
  BY SoundSays
<1>3. /\ stack # <<>> /\ u # <<>> /\ u[Len(u)] = Peek(1)
      /\ SubSeq(u, 1, Len(u) - 1) = Under(2)
  BY <1>1, <1>2, UnderTwo DEF Peek, Under
<1>4. CASE ~is_reference(Top.type)
  <2>1. Sound(fn, state, Under(2), refs)
    BY <1>1, <1>4, PoppedTwo
  <2>2. Sound(fn, state, Append(Under(2), Prim), refs)
    BY <2>1, PushedValue, PrimIs
  <2>3. Step(state, Append(Under(2), Prim), refs)
    BY <1>4 DEF equal
  <2> QED
    BY <2>2, <2>3, StepSound
<1>5. CASE is_reference(Top.type)
  <2>1. Sound(fn, first, u, refs)
    BY <1>2, <1>3, <1>5, SoundSays, ReleasedTop
  <2> HIDE DEF u, first
  <2>2. Sound(fn, Release(first, Peek(1).id), Under(2), refs)
    BY <1>1, <1>3, <1>5, <2>1, ReleasedTop
  <2>3. Sound(fn, Release(first, Peek(1).id), Append(Under(2), Prim), refs)
    BY <2>2, PushedValue, PrimIs
  <2>4. Step(Release(first, Peek(1).id), Append(Under(2), Prim), refs)
    BY <1>5 DEF equal, first
  <2> QED
    BY <2>3, <2>4, StepSound
<1> QED
  BY <1>4, <1>5

----------------------------------------------------------------------------
(* Locals and resources that are given up and overwritten *)

LEMMA LostIs ==
  ASSUME NEW r, NEW ids
  PROVE  /\ DOMAIN Lost(r, ids) = DOMAIN r
         /\ \A id \in DOMAIN r : r[id] \in Pointers =>
              /\ Lost(r, ids)[id] \in Pointers /\ Lost(r, ids)[id].place = r[id].place
              /\ (Lost(r, ids)[id].unseen <=> r[id].unseen)
              /\ (Lost(r, ids)[id].ok => r[id].ok)
              /\ (id \in ids => ~Lost(r, ids)[id].ok)
              /\ (id \notin ids => Lost(r, ids)[id] = r[id])
BY DEF Lost, Pointers

LEMMA FitsLost ==
  ASSUME NEW f, NEW M, NEW I, NEW L, NEW g, NEW r, Fits(f, M, I, L, g, r),
         NEW ids, \A id \in M \cup I : id \in ids => r[id].unseen
  PROVE  Fits(f, M, I, L, g, Lost(r, ids))
<1> DEFINE r2 == Lost(r, ids)
<1>1. Keeps(g, PlacesOf(r), g, PlacesOf(r))
  BY DEF Keeps
<1>2. /\ Graph(g) /\ DOMAIN g = {frame_root} \cup M \cup I /\ frame_root \notin DOMAIN r
      /\ \A id \in M \cup I : id \in DOMAIN r /\ r[id] \in Pointers
      /\ \A id \in M \cup I : ~r[id].unseen => r[id].ok /\ ~Gone(L, r[id].place)
      /\ \A a \in M : r[a].unseen => ~r[a].ok \/ Gone(L, r[a].place)
  <2>1. Pointed(M, I, L, g, r)
    BY FitsSays
  <2> QED
    BY <2>1 DEF Pointed
<1>3. /\ DOMAIN r2 = DOMAIN r
      /\ \A id \in M \cup I : /\ r2[id] \in Pointers /\ r2[id].place = r[id].place
                              /\ (r2[id].unseen <=> r[id].unseen)
                              /\ (r2[id].ok => r[id].ok)
                              /\ (id \notin ids => r2[id] = r[id])
  BY <1>2, LostIs
<1> HIDE DEF r2
<1>4. FitsAfter(f, M, I, g, r, M, I, L, g, r2)
  BY <1>1, <1>2, <1>3 DEF FitsAfter
<1>5. Fits(f, M, I, L, g, r2)
  BY <1>4, FitsLess
<1> QED
  BY <1>5 DEF r2

\* The references of a state, and its pointers.
LEMMA SoundFits ==
  ASSUME NEW f, NEW s, NEW ops, NEW r, Sound(f, s, ops, r)
  PROVE  /\ Slotted(f, s.locls, ops, s.next_id)
         /\ Fits(f, Muts(s.locls, ops), Imms(s.locls, ops), Live(s.locls), s.graph, r)
         /\ Pointed(Muts(s.locls, ops), Imms(s.locls, ops), Live(s.locls), s.graph, r)
         /\ Refs(s.locls, ops) = Muts(s.locls, ops) \cup Imms(s.locls, ops)
         /\ \A id \in Refs(s.locls, ops) : id \in DOMAIN r /\ r[id] \in Pointers
<1>1. /\ Slotted(f, s.locls, ops, s.next_id)
      /\ Fits(f, Muts(s.locls, ops), Imms(s.locls, ops), Live(s.locls), s.graph, r)
  BY DEF Sound
<1>2. Pointed(Muts(s.locls, ops), Imms(s.locls, ops), Live(s.locls), s.graph, r)
  BY <1>1, FitsSays
<1>3. Refs(s.locls, ops) = Muts(s.locls, ops) \cup Imms(s.locls, ops)
  BY DEF Refs
<1> QED
  BY <1>1, <1>2, <1>3 DEF Pointed

LEMMA SoundLost ==
  ASSUME NEW f, NEW s, NEW ops, NEW r, Sound(f, s, ops, r),
         NEW ids, \A id \in Refs(s.locls, ops) : id \in ids => r[id].unseen
  PROVE  Sound(f, s, ops, Lost(r, ids))
<1> DEFINE M == Muts(s.locls, ops)
           I == Imms(s.locls, ops)
           L == Live(s.locls)
<1>1. Fits(f, M, I, L, s.graph, r) /\ Refs(s.locls, ops) = M \cup I
  BY SoundFits
<1> HIDE DEF M, I, L
<1>2. \A id \in M \cup I : id \in ids => r[id].unseen
  BY <1>1
<1>3. Fits(f, M, I, L, s.graph, Lost(r, ids))
  BY <1>1, <1>2, FitsLost
<1> QED
  BY <1>3 DEF Sound, M, I, L

\* The references that start with an element that nothing seen starts with.
OnlyUnseen(s, ops, r, elem) ==
  \A id \in Refs(s.locls, ops) : r[id].place[1] = elem => r[id].unseen

LEMMA NotBorrowed ==
  ASSUME NEW f, NEW s, NEW ops, NEW r, Sound(f, s, ops, r), NEW elem, elem[1] # "arg",
         consistent_borrows(s.graph, frame_root, elem) = {}
  PROVE  OnlyUnseen(s, ops, r, elem)
<1> DEFINE M == Muts(s.locls, ops)
           I == Imms(s.locls, ops)
           L == Live(s.locls)
           g == s.graph
           p == PlacesOf(r)
           U == UnseenIn(r)
<1>1. Pointed(M, I, L, g, r) /\ Refs(s.locls, ops) = M \cup I
  BY SoundFits
<1> HIDE DEF M, I, L
<1>2. /\ Borrows(M, I, L, g, p, Good(r), U)
      /\ \A id \in M \cup I : p[id] = r[id].place /\ (id \in U <=> r[id].unseen)
  BY <1>1 DEF Pointed
<1> HIDE DEF p, U
<1>3. \A c \in (M \cup I) \ U : p[c][1] # elem
  BY <1>2, Unborrowed
<1> QED
  BY <1>1, <1>2, <1>3 DEF OnlyUnseen

LEMMA VacatedPlaces ==
  ASSUME NEW f, NEW s, NEW ops, NEW r, Sound(f, s, ops, r), NEW elem \in Element
  PROVE  \A id \in Refs(s.locls, ops) :
           /\ r[id].place \in Paths
           /\ IsPrefix(<<elem>>, r[id].place) => r[id].place[1] = elem
<1>1. /\ Pointed(Muts(s.locls, ops), Imms(s.locls, ops), Live(s.locls), s.graph, r)
      /\ Refs(s.locls, ops) = Muts(s.locls, ops) \cup Imms(s.locls, ops)
  BY SoundFits
<1>2. \A id \in Refs(s.locls, ops) : r[id].place \in Seq(Element)
  BY <1>1 DEF Pointed, Paths
<1>3. <<elem>> \in Seq(Element) /\ <<elem>> # <<>> /\ <<elem>>[1] = elem
  OBVIOUS
<1>4. \A t \in Seq(Element) : IsPrefix(<<elem>>, t) => t[1] = elem
  BY <1>3, FirstOfPrefix
<1> QED
  BY <1>2, <1>4 DEF Paths

LEMMA SoundVacated ==
  ASSUME NEW f, NEW s, NEW ops, NEW r, Sound(f, s, ops, r), NEW elem \in Element,
         OnlyUnseen(s, ops, r, elem)
  PROVE  Sound(f, s, ops, Vacated(r, <<elem>>))
<1> DEFINE ids == {id \in DOMAIN r : IsPrefix(<<elem>>, r[id].place)}
<1>1. \A id \in Refs(s.locls, ops) : id \in ids => r[id].unseen
  BY VacatedPlaces DEF OnlyUnseen
<1> HIDE DEF ids
<1>2. Sound(f, s, ops, Lost(r, ids))
  BY <1>1, SoundLost
<1> QED
  BY <1>2 DEF Vacated, ids

LEMMA move_fromSound ==
  ASSUME SoundNow, move_from
  PROVE  SoundNow'
<1> DEFINE r == Vacated(refs, <<GlobalOf(Global)>>)
           av == Typed(Value(Global), NoId)
<1>1. Sound(fn, state, stack, refs) /\ stack # <<>> /\ Top = stack[Len(stack)] /\ Top = Prim
  BY SoundSays DEF move_from
<1>2. GlobalOf(Global) \in Element /\ GlobalOf(Global)[1] # "arg"
  BY DEF GlobalOf, Element
<1>3. OnlyUnseen(state, stack, refs, GlobalOf(Global))
  BY <1>1, <1>2, NotBorrowed DEF move_from, is_global_borrowed
<1>4. Sound(fn, state, stack, r)
  BY <1>1, <1>2, <1>3, SoundVacated
<1> HIDE DEF r
<1>5. Sound(fn, state, Under(1), r)
  BY <1>1, <1>4, PoppedValue, PrimIs, SoundSays
<1>6. av \in Avs /\ ~is_reference(av.type)
  BY FunctionsAssumption, ValueIs
<1>7. Sound(fn, state, Append(Under(1), av), r)
  BY <1>5, <1>6, PushedValue
<1>8. Step(state, Append(Under(1), av), r)
  BY DEF move_from, r
<1> QED
  BY <1>7, <1>8, StepSound

LEMMA LocalIs ==
  ASSUME NEW f, NEW i \in Locals(f), IsFunction(f)
  PROVE  Local(i) \in Element /\ Local(i)[1] # "arg" /\ i \in Nat
BY DEF Local, Element, Locals, IsFunction

\* A value that nothing seen is borrowed from.
LEMMA ValueGone ==
  ASSUME NEW f, NEW s, NEW ops, NEW r, Sound(f, s, ops, r), NEW i \in DOMAIN s.locls,
         ~is_reference(s.locls[i].type), OnlyUnseen(s, ops, r, Local(i))
  PROVE  Sound(f, remove_local(s, i), ops, r)
<1> DEFINE l == s.locls
           l2 == Restrict(l, DOMAIN l \ {i})
           n == s.next_id
           g == s.graph
           M == Muts(l, ops)
           I == Imms(l, ops)
           L == Live(l)
           L2 == Live(l2)
           t == remove_local(s, i)
<1>1. /\ Slotted(f, l, ops, n) /\ Fits(f, M, I, L, g, r) /\ Pointed(M, I, L, g, r)
      /\ \A id \in M \cup I : r[id].place[1] = Local(i) => r[id].unseen
  BY SoundFits DEF OnlyUnseen
<1>2. t = [locls |-> l2, graph |-> g, next_id |-> n]
  BY DEF remove_local, Sound
<1>3. L2 = L \ {i}
  BY DEF Live, Restrict
<1>4. MutOf(l[i]) = {} /\ ImmOf(l[i]) = {}
  BY <1>1, RefOfIs DEF Slotted, RefOf
<1> HIDE DEF l, n, g, t
<1>5. Splits(f, l, ops, n, l2, ops, MutOf(l[i]), ImmOf(l[i]))
  BY <1>1, TakenOut DEF l
<1>6. Slotted(f, l2, ops, n) /\ Muts(l2, ops) = M /\ Imms(l2, ops) = I
  BY <1>4, <1>5 DEF Splits
<1> HIDE DEF M, I, L, L2
<1>7. Fits(f, M, I, L2, g, r)
  <2>1. Keeps(g, PlacesOf(r), g, PlacesOf(r))
    BY DEF Keeps
  <2>2. /\ Graph(g) /\ DOMAIN g = {frame_root} \cup M \cup I /\ frame_root \notin DOMAIN r
        /\ \A id \in M \cup I : id \in DOMAIN r /\ r[id] \in Pointers
        /\ \A id \in M \cup I : r[id].place \in Paths /\ r[id].place # <<>>
        /\ \A id \in M \cup I : ~r[id].unseen => r[id].ok /\ ~Gone(L, r[id].place)
        /\ \A a \in M : r[a].unseen => ~r[a].ok \/ Gone(L, r[a].place)
    BY <1>1 DEF Pointed
  <2>3. \A id \in M \cup I : r[id].place[1] \in Element
    BY <2>2 DEF Paths
  <2>4. \A x \in Element : x[1] = "local" /\ x[2] = i => x = Local(i)
    BY DEF Element, Local
  <2>5. \A id \in M \cup I : ~r[id].unseen => ~Gone(L2, r[id].place)
    BY <1>1, <1>3, <2>2, <2>3, <2>4 DEF Gone
  <2>6. \A id \in M \cup I : Gone(L, r[id].place) => Gone(L2, r[id].place)
    BY <1>3 DEF Gone
  <2>7. FitsAfter(f, M, I, g, r, M, I, L2, g, r)
    BY <2>1, <2>2, <2>5, <2>6 DEF FitsAfter
  <2> QED
    BY <1>1, <2>7, FitsLess
<1>8. Sound(f, t, ops, r)
  BY <1>2, <1>6, <1>7 DEF Sound, L2, M, I
<1> QED
  BY <1>8 DEF t

\* A reference in a local is released with it.
LEMMA ReferenceGone ==
  ASSUME NEW f, NEW s, NEW ops, NEW r, Sound(f, s, ops, r), NEW i \in DOMAIN s.locls,
         is_reference(s.locls[i].type)
  PROVE  Sound(f, destroy_local(s, i), ops, r)
<1> DEFINE l == s.locls
           l2 == Restrict(l, DOMAIN l \ {i})
           n == s.next_id
           g == s.graph
           id == l[i].id
           g2 == remove(g, id)
           M == Muts(l, ops)
           I == Imms(l, ops)
           M2 == Muts(l2, ops)
           I2 == Imms(l2, ops)
           t == destroy_local(s, i)
<1>1. Slotted(f, l, ops, n) /\ Fits(f, M, I, Live(l), g, r)
  BY SoundFits
<1>2. t = [locls |-> l2, graph |-> g2, next_id |-> n]
  BY ReleaseIs DEF destroy_local, remove_local
<1>3. Live(l2) = Live(l)
  BY DEF Live, Restrict
<1>4. RefOf(l[i]) = {id} /\ RefOf(l[i]) = MutOf(l[i]) \cup ImmOf(l[i])
  BY <1>1, RefOfIs DEF Slotted, RefOf
<1> HIDE DEF l, n, g, t, g2
<1>5. Splits(f, l, ops, n, l2, ops, MutOf(l[i]), ImmOf(l[i]))
  BY <1>1, TakenOut DEF l
<1> HIDE DEF l2
<1>6. /\ Slotted(f, l2, ops, n)
      /\ M = M2 \cup MutOf(l[i]) /\ I = I2 \cup ImmOf(l[i])
      /\ (MutOf(l[i]) \cup ImmOf(l[i])) \cap (M2 \cup I2) = {}
  BY <1>5 DEF Splits, Refs
<1> HIDE DEF M, I, M2, I2, id
<1>7. id \in M \cup I /\ M2 = M \ {id} /\ I2 = I \ {id}
  BY <1>4, <1>6
<1>8. Fits(f, M2, I2, Live(l2), g2, r)
  <2>1. Fits(f, M \ {id}, I \ {id}, Live(l), remove(g, id), r)
    BY <1>1, <1>7, FitsReleased
  <2> QED
    BY <1>3, <1>7, <2>1 DEF g2
<1>9. Sound(f, t, ops, r)
  BY <1>2, <1>6, <1>8 DEF Sound, M2, I2
<1> QED
  BY <1>9 DEF t

\* A reference moves from a local onto the stack.
LEMMA ReferenceMoved ==
  ASSUME NEW f, NEW s, NEW ops, NEW r, Sound(f, s, ops, r), NEW i \in DOMAIN s.locls,
         is_reference(s.locls[i].type)
  PROVE  Sound(f, remove_local(s, i), Append(ops, s.locls[i]), r)
<1> DEFINE l == s.locls
           l2 == Restrict(l, DOMAIN l \ {i})
           n == s.next_id
           g == s.graph
           av == l[i]
           M == Muts(l, ops)
           I == Imms(l, ops)
           t == remove_local(s, i)
           ops2 == Append(ops, av)
<1>1. Slotted(f, l, ops, n) /\ Fits(f, M, I, Live(l), g, r)
  BY SoundFits
<1>2. t = [locls |-> l2, graph |-> g, next_id |-> n]
  BY DEF remove_local, Sound
<1>3. Live(l2) = Live(l)
  BY DEF Live, Restrict
<1>4. av \in Avs
  BY <1>1 DEF Slotted
<1>5. RefOf(av) \subseteq Refs(l, ops) /\ \A x \in Refs(l, ops) : x < n
  BY <1>1, RefsAre DEF Slotted
<1> HIDE DEF l, n, g, t
<1>6. Splits(f, l, ops, n, l2, ops, MutOf(av), ImmOf(av))
  BY <1>1, TakenOut DEF l
<1> HIDE DEF l2
<1>7. /\ Slotted(f, l2, ops, n)
      /\ M = Muts(l2, ops) \cup MutOf(av) /\ I = Imms(l2, ops) \cup ImmOf(av)
      /\ RefOf(av) \cap Refs(l2, ops) = {}
  BY <1>6 DEF Splits, RefOf
<1>8. Pushes(l2, ops, n, av, ops2)
  BY <1>4, <1>5, <1>7 DEF Pushes, Other
<1> HIDE DEF ops2, av
<1>9. IsPushed(f, l2, ops, n, av, ops2)
  BY <1>7, <1>8, PushedOn
<1>10. Slotted(f, l2, ops2, n) /\ Muts(l2, ops2) = M /\ Imms(l2, ops2) = I
  BY <1>7, <1>9 DEF IsPushed
<1>11. Sound(f, t, ops2, r)
  BY <1>1, <1>2, <1>3, <1>10 DEF Sound
<1> QED
  BY <1>11 DEF t, ops2, av, l

LEMMA move_locSound ==
  ASSUME SoundNow, IsFunction(fn), NEW i \in Locals(fn), move_loc(i)
  PROVE  SoundNow'
<1>1. Sound(fn, state, stack, refs) /\ i \in DOMAIN state.locls
  BY SoundSays DEF move_loc
<1>2. CASE is_reference(state.locls[i].type)
  <2>1. Sound(fn, remove_local(state, i), Append(stack, state.locls[i]), refs)
    BY <1>1, <1>2, ReferenceMoved
  <2>2. Step(remove_local(state, i), Append(stack, state.locls[i]), refs)
    BY <1>2 DEF move_loc
  <2> QED
    BY <2>1, <2>2, StepSound
<1>3. CASE ~is_reference(state.locls[i].type)
  <2> DEFINE r == Vacated(refs, <<Local(i)>>)
             av == state.locls[i]
             t == remove_local(state, i)
  <2>1. Local(i) \in Element /\ Local(i)[1] # "arg"
    BY LocalIs
  <2>2. OnlyUnseen(state, stack, refs, Local(i))
    BY <1>1, <1>3, <2>1, NotBorrowed DEF move_loc, is_local_borrowed, local_borrows
  <2>3. Sound(fn, t, stack, refs)
    BY <1>1, <1>3, <2>2, ValueGone
  <2>4. t.locls = Restrict(state.locls, DOMAIN state.locls \ {i})
    BY <1>1 DEF remove_local, Sound
  <2>5. Refs(t.locls, stack) \subseteq Refs(state.locls, stack)
    <3>1. \A j \in DOMAIN t.locls : j \in DOMAIN state.locls /\ t.locls[j] = state.locls[j]
      BY <2>4 DEF Restrict
    <3>2. \A x \in Refs(t.locls, stack) : x \in Refs(state.locls, stack)
      BY <3>1, RefsAre
    <3> QED
      BY <3>2
  <2>6. OnlyUnseen(t, stack, refs, Local(i))
    BY <2>2, <2>5 DEF OnlyUnseen
  <2> HIDE DEF t
  <2>7. Sound(fn, t, stack, r)
    BY <2>1, <2>3, <2>6, SoundVacated
  <2>8. av \in Avs
    BY <1>1, SoundFits DEF Slotted
  <2>9. Sound(fn, t, Append(stack, av), r)
    BY <1>3, <2>7, <2>8, PushedValue
  <2>10. Step(t, Append(stack, av), r)
    BY <1>3 DEF move_loc, t
  <2> QED
    BY <2>9, <2>10, StepSound
<1> QED
  BY <1>2, <1>3

\* The operand on top goes to a local without a value.
LEMMA Stored ==
  ASSUME NEW f, NEW s, NEW ops, NEW r, Sound(f, s, ops, r), IsFunction(f),
         NEW i \in Locals(f) \ DOMAIN s.locls, ops # <<>>, ops[Len(ops)].type = f.locals[i]
  PROVE  Sound(f, insert_local(s, i, ops[Len(ops)]), SubSeq(ops, 1, Len(ops) - 1), Vacated(r, <<Local(i)>>))
<1> DEFINE l == s.locls
           av == ops[Len(ops)]
           l2 == With(l, i, av)
           n == s.next_id
           g == s.graph
           M == Muts(l, ops)
           I == Imms(l, ops)
           t == insert_local(s, i, av)
           ops2 == SubSeq(ops, 1, Len(ops) - 1)
           lost == {id \in DOMAIN r : IsPrefix(<<Local(i)>>, r[id].place)}
           r2 == Lost(r, lost)
           L == Live(l)
           L2 == Live(l2)
<1>1. /\ Slotted(f, l, ops, n) /\ Fits(f, M, I, L, g, r) /\ Pointed(M, I, L, g, r)
  BY SoundFits
<1>2. t = [locls |-> l2, graph |-> g, next_id |-> n]
  BY DEF insert_local, Sound
<1>3. L2 = L \/ L2 = L \cup {i}
  BY DEF Live, With
<1>4. i \notin L
  BY DEF Live
<1>5. i \in Locals(f) \ DOMAIN l /\ av.type = f.locals[i]
  OBVIOUS
<1>6. \A id \in M \cup I : IsPrefix(<<Local(i)>>, r[id].place) => r[id].place[1] = Local(i)
  BY VacatedPlaces, SoundFits, LocalIs
<1> HIDE DEF l, n, g, t, av
<1>7. av \in Avs /\ Splits(f, l, ops, n, l, ops2, MutOf(av), ImmOf(av))
  BY <1>1, PoppedOne DEF av
<1> HIDE DEF ops2
<1>8. /\ Slotted(f, l, ops2, n)
      /\ M = Muts(l, ops2) \cup MutOf(av) /\ I = Imms(l, ops2) \cup ImmOf(av)
      /\ RefOf(av) \cap Refs(l, ops2) = {}
  BY <1>7 DEF Splits, RefOf
<1>9. \A x \in RefOf(av) : x < n
  BY <1>1, <1>8 DEF Slotted, Refs, RefOf
<1>10. Other(l, ops2, n, av)
  BY <1>7, <1>8, <1>9 DEF Other
<1>11. /\ Slotted(f, l2, ops2, n)
       /\ Muts(l2, ops2) = Muts(l, ops2) \cup MutOf(av)
       /\ Imms(l2, ops2) = Imms(l, ops2) \cup ImmOf(av)
  BY <1>5, <1>8, <1>10, PutIn
<1>12. Muts(l2, ops2) = M /\ Imms(l2, ops2) = I
  BY <1>8, <1>11
<1> HIDE DEF M, I, L, L2, l2
<1>13. Fits(f, M, I, L2, g, r2)
  <2>1. Keeps(g, PlacesOf(r), g, PlacesOf(r))
    BY DEF Keeps
  <2>2. /\ Graph(g) /\ DOMAIN g = {frame_root} \cup M \cup I /\ frame_root \notin DOMAIN r
        /\ \A id \in M \cup I : id \in DOMAIN r /\ r[id] \in Pointers
        /\ \A id \in M \cup I : r[id].place \in Paths /\ r[id].place # <<>>
        /\ \A id \in M \cup I : ~r[id].unseen => r[id].ok /\ ~Gone(L, r[id].place)
        /\ \A a \in M : r[a].unseen => ~r[a].ok \/ Gone(L, r[a].place)
    BY <1>1 DEF Pointed
  <2>3. /\ DOMAIN r2 = DOMAIN r
        /\ \A id \in M \cup I : /\ r2[id] \in Pointers /\ r2[id].place = r[id].place
                                /\ (r2[id].unseen <=> r[id].unseen)
                                /\ (r2[id].ok => r[id].ok)
                                /\ (id \in lost => ~r2[id].ok)
                                /\ (id \notin lost => r2[id] = r[id])
    BY <2>2, LostIs
  <2>4. \A id \in M \cup I : id \in lost => Gone(L, r[id].place)
    BY <1>4, <1>6 DEF Gone, Local
  <2>5. \A id \in M \cup I : id \notin lost => ~(r[id].place[1][1] = "local" /\ r[id].place[1][2] = i)
    <3>1. ASSUME NEW x \in Paths, x # <<>>, x[1][1] = "local", x[1][2] = i
          PROVE  IsPrefix(<<Local(i)>>, x)
      <4>1. x \in Seq(Element) /\ x[1] \in Element
        BY <3>1 DEF Paths
      <4>2. x[1] = Local(i)
        BY <3>1, <4>1 DEF Element, Local
      <4>3. <<Local(i)>> \in Seq(Element) /\ Len(<<Local(i)>>) = 1 /\ <<Local(i)>>[1] = Local(i) /\ Len(x) >= 1
        BY <3>1, <4>1, <4>2
      <4> DEFINE y == <<Local(i)>>
      <4> HIDE DEF y
      <4>4. \A k \in 1..Len(y) : y[k] = x[k]
        BY <4>2, <4>3 DEF y
      <4>5. Len(y) <= Len(x)
        BY <4>1, <4>3 DEF y
      <4>6. IsPrefix(y, x)
        BY <4>1, <4>3, <4>4, <4>5, PrefixIs DEF y
      <4> QED
        BY <4>6 DEF y
    <3> QED
      BY <2>2, <3>1
  <2> HIDE DEF r2, lost
  <2>6. \A id \in M \cup I : ~r[id].unseen => id \notin lost /\ ~Gone(L2, r[id].place)
    BY <1>3, <2>2, <2>4 DEF Gone
  <2>7. \A id \in M \cup I : id \in lost \/ (Gone(L, r[id].place) => Gone(L2, r[id].place))
    BY <1>3, <2>5 DEF Gone
  <2>8. FitsAfter(f, M, I, g, r, M, I, L2, g, r2)
    BY <2>1, <2>2, <2>3, <2>6, <2>7 DEF FitsAfter
  <2> QED
    BY <1>1, <2>8, FitsLess
<1> HIDE DEF r2
<1>14. Sound(f, t, ops2, r2)
  BY <1>2, <1>11, <1>12, <1>13 DEF Sound, L2
<1> QED
  BY <1>14 DEF t, ops2, av, r2, lost, Vacated

LEMMA store_locSound ==
  ASSUME SoundNow, IsFunction(fn), NEW i \in Locals(fn), store_loc(i)
  PROVE  SoundNow'
<1> DEFINE s == IF i \in DOMAIN state.locls THEN destroy_local(state, i) ELSE state
<1>1. Sound(fn, state, stack, refs) /\ stack # <<>> /\ Top = stack[Len(stack)] /\ Top.type = fn.locals[i]
  BY SoundSays DEF store_loc
<1>2. Sound(fn, s, stack, refs) /\ i \notin DOMAIN s.locls
  <2>1. CASE i \notin DOMAIN state.locls
    BY <1>1, <2>1
  <2>2. CASE i \in DOMAIN state.locls /\ is_reference(state.locls[i].type)
    <3>1. Sound(fn, s, stack, refs)
      BY <1>1, <2>2, ReferenceGone
    <3>2. i \notin DOMAIN s.locls
      BY <1>1, <2>2, ReleaseIs DEF destroy_local, remove_local, Restrict
    <3> QED
      BY <3>1, <3>2
  <2>3. CASE i \in DOMAIN state.locls /\ ~is_reference(state.locls[i].type)
    <3>1. s = remove_local(state, i)
      BY <2>3 DEF destroy_local
    <3>2. Local(i)[1] # "arg" /\ local_borrows(state, i) = {}
      BY <2>3, LocalIs DEF store_loc, is_local_safe_to_destroy, is_local_borrowed
    <3>3. OnlyUnseen(state, stack, refs, Local(i))
      BY <1>1, <3>2, NotBorrowed DEF local_borrows
    <3>4. Sound(fn, s, stack, refs)
      BY <1>1, <2>3, <3>1, <3>3, ValueGone
    <3>5. i \notin DOMAIN s.locls
      BY <1>1, <3>1 DEF remove_local, Restrict, Sound
    <3> QED
      BY <3>4, <3>5
  <2> QED
    BY <2>1, <2>2, <2>3
<1>3. Step(insert_local(s, i, Top), Under(1), Vacated(refs, <<Local(i)>>))
  BY DEF store_loc
<1> HIDE DEF s
<1>4. Sound(fn, insert_local(s, i, Top), Under(1), Vacated(refs, <<Local(i)>>))
  BY <1>1, <1>2, Stored, SoundSays
<1> QED
  BY <1>3, <1>4, StepSound

----------------------------------------------------------------------------
(* What is written and frozen *)

LEMMA CellIs ==
  ASSUME NEW place \in Paths, place # <<>>
  PROVE  CellOf(place) \in Paths /\ IsPrefix(CellOf(place), place)
<1>1. CASE CellOf(place) = place
  BY <1>1, PrefixOrder DEF Paths
<1>2. CASE CellOf(place) = Front(place)
  <2>1. PICK k \in Nat : Len(place) = k + 1
    <3>1. place \in Seq(Element) /\ Len(place) \in Nat /\ Len(place) # 0
      BY DEF Paths
    <3> QED
      BY <3>1
  <2>2. Len(place) - 1 = k
    BY <2>1
  <2> DEFINE c == SubSeq(place, 1, k)
  <2>3. CellOf(place) = c
    BY <1>2, <2>2 DEF Front
  <2>4. place \in Seq(Element)
    BY DEF Paths
  <2>5. c \in Seq(Element) /\ Len(c) = k /\ \A j \in 1..k : c[j] = place[j]
    BY <2>1, <2>4
  <2> HIDE DEF c
  <2>6. IsPrefix(c, place)
    BY <2>1, <2>4, <2>5, PrefixIs
  <2> QED
    BY <2>3, <2>5, <2>6 DEF Paths
<1> QED
  BY <1>1, <1>2 DEF CellOf

\* What is lost when ids are written through was not seen.
LEMMA OverwritesUnseen ==
  ASSUME NEW s, NEW ops, NEW r, Sound(fn, s, ops, r),
         NEW a \in Muts(s.locls, ops), r[a].ok, s.graph[a] = {},
         NEW c \in Refs(s.locls, ops), IsStrictPrefix(r[a].place, CellOf(r[c].place))
  PROVE  r[c].unseen
<1> SUFFICES ASSUME ~r[c].unseen PROVE FALSE
  OBVIOUS
<1> DEFINE M == Muts(s.locls, ops)
           I == Imms(s.locls, ops)
           L == Live(s.locls)
           g == s.graph
           p == PlacesOf(r)
           K == Good(r)
           U == UnseenIn(r)
           x == r[a].place
           y == r[c].place
           z == CellOf(y)
<1>1. Pointed(M, I, L, g, r) /\ Refs(s.locls, ops) = M \cup I /\ a \in M /\ c \in M \cup I
  BY SoundFits
<1>2. IsStrictPrefix(x, z) /\ g[a] = {} /\ r[a].ok /\ ~r[c].unseen
  OBVIOUS
<1> HIDE DEF M, I, L, g
<1>3. /\ Borrows(M, I, L, g, p, K, U)
      /\ a \in K /\ c \in (M \cup I) \ U /\ p[a] = x /\ p[c] = y
      /\ x \in Paths /\ y \in Paths /\ y # <<>>
  BY <1>1, <1>2 DEF Pointed
<1>4. z \in Paths /\ IsPrefix(z, y)
  BY <1>3, CellIs
<1> HIDE DEF p, K, U, x, y, z
<1>5. IsPrefix(x, z) /\ x # z
  BY <1>2 DEF IsStrictPrefix
<1>6. /\ x \in Seq(Element) /\ y \in Seq(Element) /\ z \in Seq(Element)
  BY <1>3, <1>4 DEF Paths
<1>7. IsPrefix(x, y)
  BY <1>4, <1>5, <1>6, PrefixTrans, Zenon
<1>8. a \in M \cap K /\ IsPrefix(p[a], p[c])
  BY <1>1, <1>3, <1>7
<1>9. p[c] = p[a]
  BY <1>2, <1>3, <1>8, WritesToItsOwn
<1>10. IsPrefix(z, x)
  BY <1>3, <1>4, <1>9
<1> QED
  BY <1>5, <1>6, <1>10, PrefixOrder

LEMMA SoundOverwritten ==
  ASSUME NEW s, NEW ops, NEW r, Sound(fn, s, ops, r), NEW ids \in SUBSET Muts(s.locls, ops),
         \A a \in ids : s.graph[a] = {}
  PROVE  Sound(fn, s, ops, Overwritten(r, ids))
<1> DEFINE written == {i \in ids : r[i].ok /\ IsStruct(TypeAt(r[i].place))}
           lost == {id \in DOMAIN r : \E i \in written : IsStrictPrefix(r[i].place, CellOf(r[id].place))}
<1>1. \A id \in Refs(s.locls, ops) : id \in lost => r[id].unseen
  BY OverwritesUnseen
<1> HIDE DEF lost
<1>2. Sound(fn, s, ops, Lost(r, lost))
  BY <1>1, SoundLost
<1> QED
  BY <1>2 DEF Overwritten, lost

\* The reference on top, if it is one, is one of the state's.
LEMMA TopIs ==
  ASSUME NEW f, NEW s, NEW ops, NEW r, Sound(f, s, ops, r), ops # <<>>, NEW av, av = ops[Len(ops)]
  PROVE  /\ av \in Avs
         /\ MutOf(av) \subseteq Muts(s.locls, ops) /\ ImmOf(av) \subseteq Imms(s.locls, ops)
         /\ av.type.ref = "mut" => av.id \in Muts(s.locls, ops)
         /\ av.type.ref = "imm" => av.id \in Imms(s.locls, ops)
<1>1. ops \in Seq(Avs)
  BY SoundFits DEF Slotted
<1>2. Len(ops) \in DOMAIN ops
  BY <1>1
<1> QED
  BY <1>1, <1>2 DEF Muts, Imms, MutOf, ImmOf

LEMMA write_refSound ==
  ASSUME SoundNow, write_ref
  PROVE  SoundNow'
<1> DEFINE u == SubSeq(stack, 1, Len(stack) - 1)
           s == Release(state, Top.id)
           r == Overwritten(refs, {Top.id})
<1>1. Len(stack) >= 2 /\ Top.type.ref = "mut" /\ Peek(1).type = Value(Top.type.of)
  BY DEF write_ref
<1>2. Sound(fn, state, stack, refs) /\ stack \in Seq(Avs) /\ Len(stack) \in Nat
  BY SoundSays
<1>3. /\ stack # <<>> /\ u # <<>> /\ u[Len(u)] = Peek(1)
      /\ SubSeq(u, 1, Len(u) - 1) = Under(2)
  BY <1>1, <1>2, UnderTwo DEF Peek, Under
<1>4. Top = stack[Len(stack)] /\ is_reference(Top.type)
  BY <1>1, <1>3, SoundSays DEF is_reference
<1>5. Top.id \in Muts(state.locls, stack)
  BY <1>1, <1>2, <1>3, <1>4, TopIs
<1>6. state.graph[Top.id] = {}
  BY DEF write_ref, is_borrowed, all_borrows
<1>7. Sound(fn, state, stack, r)
  BY <1>2, <1>5, <1>6, SoundOverwritten
<1> HIDE DEF r
<1>8. Sound(fn, s, u, r)
  BY <1>3, <1>4, <1>7, ReleasedTop
<1> HIDE DEF u, s
<1>9. ~is_reference(Peek(1).type)
  BY <1>1 DEF Value, is_reference
<1>10. Sound(fn, s, Under(2), r)
  BY <1>3, <1>8, <1>9, PoppedValue
<1>11. Step(s, Under(2), r)
  BY DEF write_ref, s, r
<1> QED
  BY <1>10, <1>11, StepSound

\* What all_immutable does not see, of the graph and the places.
LEMMA UnseenIs ==
  ASSUME SoundNow, NEW node, NEW place
  PROVE  BorrowedUnseen(node, place) <=>
           ~NoneUnder(Muts(state.locls, stack), state.graph, PlacesOf(refs), node, place)
<1> DEFINE M == Muts(state.locls, stack)
           p == PlacesOf(refs)
<1>1. \A c \in M : p[c] = refs[c].place
  BY SoundSays, SoundFits DEF Pointed
<1>2. \A c : c \in M <=> \E av \in Held : av.type.ref = "mut" /\ c = av.id
  BY DEF Muts, MutOf, Held
<1> HIDE DEF M, p
<1>3. ASSUME BorrowedUnseen(node, place) PROVE ~NoneUnder(M, state.graph, p, node, place)
  <2>1. PICK av \in Held : /\ av.type.ref = "mut" /\ Overlap(refs[av.id].place, place)
                           /\ av.id \in BorrowedFrom(state.graph, node)
    BY <1>3 DEF BorrowedUnseen
  <2>2. av.id \in M /\ p[av.id] = refs[av.id].place
    BY <1>1, <1>2, <2>1
  <2> QED
    BY <2>1, <2>2 DEF NoneUnder
<1>4. ASSUME ~NoneUnder(M, state.graph, p, node, place) PROVE BorrowedUnseen(node, place)
  <2>1. PICK c \in M : Overlap(p[c], place) /\ c \in BorrowedFrom(state.graph, node)
    BY <1>4 DEF NoneUnder
  <2>2. PICK av \in Held : av.type.ref = "mut" /\ c = av.id
    BY <1>2
  <2> QED
    BY <1>1, <2>1, <2>2 DEF BorrowedUnseen
<1> QED
  BY <1>3, <1>4 DEF M, p

LEMMA freeze_refSound ==
  ASSUME SoundNow, freeze_ref
  PROVE  SoundNow'
<1> DEFINE l == state.locls
           n == state.next_id
           g == state.graph
           id == Top.id
           u == Under(1)
           av == Typed(Imm(Top.type.of), id)
           ops == Append(u, av)
           r == [refs EXCEPT ![id].unseen = @ \/ BorrowedUnseen(id, refs[id].place)]
           M == Muts(l, stack)
           I == Imms(l, stack)
           L == Live(l)
<1>1. stack # <<>> /\ Top.type.ref = "mut" /\ Step(state, ops, r)
  BY DEF freeze_ref
<1>2. /\ Sound(fn, state, stack, refs) /\ Top = stack[Len(stack)] /\ u = SubSeq(stack, 1, Len(stack) - 1)
  BY <1>1, SoundSays
<1>3. /\ Slotted(fn, l, stack, n) /\ Fits(fn, M, I, L, g, refs) /\ Pointed(M, I, L, g, refs)
      /\ Refs(l, stack) = M \cup I
  BY <1>2, SoundFits
<1>4. Top \in Avs /\ id \in M
  BY <1>1, <1>2, TopIs
<1>5. MutOf(Top) = {id} /\ ImmOf(Top) = {}
  BY <1>1 DEF MutOf, ImmOf
<1>6. av \in Avs /\ MutOf(av) = {} /\ ImmOf(av) = {id} /\ RefOf(av) = {id}
  BY <1>1, <1>4, RefOfIs DEF Avs, Types, Typed, Imm, is_reference, MutOf, ImmOf, RefOf
<1> HIDE DEF l, g, n, u, L
<1>7. Splits(fn, l, stack, n, l, u, MutOf(Top), ImmOf(Top))
  BY <1>1, <1>2, <1>3, PoppedOne
<1>8. /\ Slotted(fn, l, u, n) /\ M = Muts(l, u) \cup {id} /\ I = Imms(l, u)
      /\ id \notin Refs(l, u)
  BY <1>5, <1>7 DEF Splits
<1>9. id < n
  BY <1>3, <1>4 DEF Slotted
<1>10. Pushes(l, u, n, av, ops)
  BY <1>6, <1>8, <1>9 DEF Pushes, Other
<1> HIDE DEF ops, av
<1>11. IsPushed(fn, l, u, n, av, ops)
  BY <1>8, <1>10, PushedOn
<1>12. Slotted(fn, l, ops, n) /\ Muts(l, ops) = M \ {id} /\ Imms(l, ops) = I \cup {id}
  BY <1>6, <1>8, <1>11 DEF IsPushed, Refs
<1>13. BorrowedUnseen(id, refs[id].place) <=> ~NoneUnder(M, g, PlacesOf(refs), id, refs[id].place)
  BY UnseenIs DEF l, g
<1> HIDE DEF M, I, id
<1>14. /\ Borrows(M, I, L, g, PlacesOf(refs), Good(refs), UnseenIn(refs))
       /\ frame_root \notin DOMAIN refs
       /\ \A a \in M \cup I : a \in DOMAIN refs /\ refs[a] \in Pointers
       /\ PlacesOf(refs)[id] = refs[id].place
  BY <1>3, <1>4 DEF Pointed
<1>15. id \in DOMAIN refs /\ refs[id] \in Pointers
  BY <1>4, <1>14
<1>16. /\ DOMAIN r = DOMAIN refs
       /\ \A a \in DOMAIN refs : a # id => r[a] = refs[a]
       /\ r[id] = [refs[id] EXCEPT !.unseen = refs[id].unseen \/ BorrowedUnseen(id, refs[id].place)]
  BY <1>15
<1> DEFINE marked == refs[id].unseen \/ BorrowedUnseen(id, refs[id].place)
<1>17. marked \in BOOLEAN /\ (marked <=> refs[id].unseen \/ BorrowedUnseen(id, refs[id].place))
  BY Zenon
<1>18. r[id] = [refs[id] EXCEPT !.unseen = marked]
  BY <1>16
<1> HIDE DEF r, marked
<1>19. /\ r[id] \in Pointers /\ r[id].place = refs[id].place /\ r[id].ok = refs[id].ok
       /\ r[id].unseen = marked
  BY <1>15, <1>17, <1>18 DEF Pointers
<1>20. PlacesOf(r) = PlacesOf(refs) /\ Good(r) = Good(refs)
  BY <1>15, <1>16, <1>19 DEF PlacesOf, Good
<1>21. Freezes(M, g, PlacesOf(refs), UnseenIn(refs), id, UnseenIn(r))
  <2>1. UnseenIn(r) \subseteq UnseenIn(refs) \cup {id} /\ UnseenIn(refs) \subseteq UnseenIn(r)
    BY <1>15, <1>16, <1>17, <1>19 DEF UnseenIn
  <2>2. id \in UnseenIn(r) <=> marked
    BY <1>15, <1>16, <1>19 DEF UnseenIn
  <2> QED
    BY <1>4, <1>13, <1>14, <1>17, <2>1, <2>2 DEF Freezes
<1>22. Borrows(M \ {id}, I \cup {id}, L, g, PlacesOf(r), Good(r), UnseenIn(r))
  <2>1. Borrows(M \ {id}, I \cup {id}, L, g, PlacesOf(refs), Good(refs), UnseenIn(r))
    BY <1>14, <1>21, BorrowsFrozen
  <2> QED
    BY <1>20, <2>1
<1>23. \A a \in (M \ {id}) : r[a].place[1][1] = "arg" => fn.locals[r[a].place[1][2]].ref = "mut"
  BY <1>3, <1>14, <1>16 DEF Fits
<1>24. Fits(fn, M \ {id}, I \cup {id}, L, g, r)
  BY <1>4, <1>14, <1>16, <1>19, <1>22, <1>23 DEF Fits
<1>25. Sound(fn, state, ops, r)
  BY <1>2, <1>12, <1>24 DEF Sound, l, g, n, L
<1>26. Step(state, ops, r)
  BY <1>1 DEF ops, r, u, av, id
<1> QED
  BY <1>25, <1>26, StepSound

----------------------------------------------------------------------------
(* New references *)

\* A pointer more, of a new reference n.
AddsPointer(M, I, g, r, n, M2, I2, r2, ptr) ==
  /\ n \in Nat \ DOMAIN g /\ OneMore(M, I, n, M2, I2) /\ ptr \in Pointers
  /\ r2 = With(r, n, ptr)

\* What is so then.
PointerAdded(M, I, g, r, n, r2, ptr) ==
  /\ \A m \in DOMAIN g : PlacesOf(r2)[m] = PlacesOf(r)[m]
  /\ PlacesOf(r2)[n] = ptr.place
  /\ SameMarks(M \cup I, Good(r), UnseenIn(r), Good(r2), UnseenIn(r2))
  /\ (n \in Good(r2) <=> ptr.ok) /\ (n \in UnseenIn(r2) <=> ptr.unseen)
  /\ frame_root \notin DOMAIN r2 /\ DOMAIN r2 = DOMAIN r \cup {n} /\ r2[n] = ptr
  /\ \A id \in M \cup I : r2[id] = r[id]

LEMMA FitsNew ==
  ASSUME NEW M, NEW I, NEW L, NEW g, NEW r, Pointed(M, I, L, g, r),
         NEW n, NEW M2, NEW I2, NEW r2, NEW ptr, AddsPointer(M, I, g, r, n, M2, I2, r2, ptr)
  PROVE  PointerAdded(M, I, g, r, n, r2, ptr)
<1>1. /\ n \in Nat \ DOMAIN g /\ r2 = With(r, n, ptr)
  BY DEF AddsPointer
<1>2. /\ DOMAIN g = {frame_root} \cup M \cup I /\ frame_root \notin DOMAIN r
      /\ frame_root \notin M \cup I
      /\ \A id \in M \cup I : id \in DOMAIN r
  BY DEF Pointed
<1>3. DOMAIN r2 = DOMAIN r \cup {n} /\ r2[n] = ptr /\ \A id \in DOMAIN r : id # n => r2[id] = r[id]
  BY <1>1 DEF With
<1>4. n # frame_root /\ n \notin M \cup I
  BY <1>1, <1>2
<1>5. frame_root \notin DOMAIN r2 /\ \A id \in M \cup I : id \in DOMAIN r2 /\ r2[id] = r[id]
  BY <1>2, <1>3, <1>4
<1> HIDE DEF frame_root
<1>6. \A m \in DOMAIN g : PlacesOf(r2)[m] = PlacesOf(r)[m]
  BY <1>2, <1>5 DEF PlacesOf
<1>7. PlacesOf(r2)[n] = ptr.place
  BY <1>3, <1>4 DEF PlacesOf
<1>8. SameMarks(M \cup I, Good(r), UnseenIn(r), Good(r2), UnseenIn(r2))
  BY <1>2, <1>5 DEF SameMarks, Good, UnseenIn
<1>9. (n \in Good(r2) <=> ptr.ok) /\ (n \in UnseenIn(r2) <=> ptr.unseen)
  BY <1>3 DEF Good, UnseenIn
<1> QED
  BY <1>3, <1>5, <1>6, <1>7, <1>8, <1>9 DEF PointerAdded

LEMMA FitsMore ==
  ASSUME NEW f, NEW M, NEW I, NEW L, NEW g, NEW r, Fits(f, M, I, L, g, r),
         NEW n, NEW M2, NEW I2, NEW r2, NEW ptr, AddsPointer(M, I, g, r, n, M2, I2, r2, ptr),
         NEW g2, Borrows(M2, I2, L, g2, PlacesOf(r2), Good(r2), UnseenIn(r2)),
         n \in M2 => (ptr.place[1][1] = "arg" => f.locals[ptr.place[1][2]].ref = "mut")
  PROVE  Fits(f, M2, I2, L, g2, r2)
<1>1. Pointed(M, I, L, g, r)
  BY FitsSays
<1>2. PointerAdded(M, I, g, r, n, r2, ptr)
  BY <1>1, FitsNew
<1>3. OneMore(M, I, n, M2, I2) /\ ptr \in Pointers
  BY DEF AddsPointer
<1>4. \A id \in M \cup I : id \in DOMAIN r /\ r[id] \in Pointers
  BY <1>1 DEF Pointed
<1>5. /\ frame_root \notin DOMAIN r2 /\ DOMAIN r2 = DOMAIN r \cup {n} /\ r2[n] = ptr
      /\ \A id \in M \cup I : r2[id] = r[id]
  BY <1>2 DEF PointerAdded
<1>6. \A a \in M : r[a].place[1][1] = "arg" => f.locals[r[a].place[1][2]].ref = "mut"
  BY DEF Fits
<1>7. M2 \cup I2 = (M \cup I) \cup {n} /\ M2 \subseteq M \cup {n}
  BY <1>3 DEF OneMore
<1>8. M2 \cup I2 \subseteq DOMAIN r2 /\ \A id \in M2 \cup I2 : r2[id] \in Pointers
  BY <1>3, <1>4, <1>5, <1>7
<1>9. \A a \in M2 : r2[a].place[1][1] = "arg" => f.locals[r2[a].place[1][2]].ref = "mut"
  BY <1>5, <1>6, <1>7
<1> QED
  BY <1>5, <1>8, <1>9 DEF Fits

\* The slots with the new reference on top.
PushesNew(ops, n, type, ops2) ==
  type \in Types /\ is_reference(type) /\ ops2 = Append(ops, Typed(type, n))

NewPushed(f, l, ops, n, type, ops2) ==
  /\ Slotted(f, l, ops2, n + 1)
  /\ OneMore(Muts(l, ops), Imms(l, ops), n, Muts(l, ops2), Imms(l, ops2))
  /\ type.ref = "mut" => Muts(l, ops2) = Muts(l, ops) \cup {n} /\ Imms(l, ops2) = Imms(l, ops)
  /\ type.ref # "mut" => Imms(l, ops2) = Imms(l, ops) \cup {n} /\ Muts(l, ops2) = Muts(l, ops)
  /\ n \notin Muts(l, ops) \cup Imms(l, ops)

LEMMA PushedNew ==
  ASSUME NEW f, NEW l, NEW ops, NEW n, Slotted(f, l, ops, n),
         NEW type, NEW ops2, PushesNew(ops, n, type, ops2)
  PROVE  NewPushed(f, l, ops, n, type, ops2)
<1> type \in Types /\ is_reference(type) /\ ops2 = Append(ops, Typed(type, n))
  BY DEF PushesNew
<1> DEFINE av == Typed(type, n)
           k == n + 1
<1>1. n \in Nat \ {0} /\ k \in Nat \ {0} /\ n < k
  BY DEF Slotted
<1>2. \A id \in Refs(l, ops) : id < n /\ id < k
  <2>1. Refs(l, ops) \subseteq Nat
    BY RefsAreNat
  <2>2. \A id \in Refs(l, ops) : id < n
    BY DEF Slotted
  <2> QED
    BY <1>1, <2>1, <2>2
<1>3. n \notin Refs(l, ops)
  BY <1>1, <1>2
<1> HIDE DEF k
<1>4. Slotted(f, l, ops, k)
  BY <1>1, <1>2 DEF Slotted
<1>5. av \in Avs
  BY <1>1 DEF Avs, Typed, is_reference, NoId, frame_root
<1>6. RefOf(av) = {n}
  BY <1>5, RefOfIs DEF Typed
<1>7. Pushes(l, ops, k, av, ops2)
  BY <1>1, <1>3, <1>5, <1>6 DEF Pushes, Other
<1>8. /\ type.ref = "mut" => MutOf(av) = {n} /\ ImmOf(av) = {}
      /\ type.ref # "mut" => MutOf(av) = {} /\ ImmOf(av) = {n}
  BY <1>6 DEF RefOf, MutOf, ImmOf, Typed
<1> HIDE DEF av
<1>9. IsPushed(f, l, ops, k, av, ops2)
  BY <1>4, <1>7, PushedOn
<1>10. /\ Slotted(f, l, ops2, k)
       /\ Muts(l, ops2) = Muts(l, ops) \cup MutOf(av) /\ Imms(l, ops2) = Imms(l, ops) \cup ImmOf(av)
  BY <1>9 DEF IsPushed
<1>11. /\ type.ref = "mut" => Muts(l, ops2) = Muts(l, ops) \cup {n} /\ Imms(l, ops2) = Imms(l, ops)
       /\ type.ref # "mut" => Imms(l, ops2) = Imms(l, ops) \cup {n} /\ Muts(l, ops2) = Muts(l, ops)
  BY <1>8, <1>10
<1>12. OneMore(Muts(l, ops), Imms(l, ops), n, Muts(l, ops2), Imms(l, ops2))
  BY <1>11 DEF OneMore
<1> QED
  BY <1>3, <1>10, <1>11, <1>12 DEF k, Refs, NewPushed

\* n is no node yet.
LEMMA NextIs ==
  ASSUME NEW f, NEW s, NEW ops, NEW r, Sound(f, s, ops, r)
  PROVE  s.next_id \in Nat \ DOMAIN s.graph
<1>1. /\ Slotted(f, s.locls, ops, s.next_id)
      /\ Pointed(Muts(s.locls, ops), Imms(s.locls, ops), Live(s.locls), s.graph, r)
      /\ Refs(s.locls, ops) = Muts(s.locls, ops) \cup Imms(s.locls, ops)
  BY SoundFits
<1>2. DOMAIN s.graph = {frame_root} \cup Refs(s.locls, ops)
  BY <1>1 DEF Pointed
<1>3. s.next_id \in Nat \ {0} /\ \A id \in Refs(s.locls, ops) : id < s.next_id
  BY <1>1 DEF Slotted
<1> QED
  BY <1>2, <1>3 DEF frame_root

\* The new reference that is pushed by an instruction.
NewOnTop(f, l, g, n, ops, r, type, ptr, ops2, r2, g2) ==
  /\ type \in Types /\ is_reference(type) /\ ops2 = Append(ops, Typed(type, n))
  /\ ptr \in Pointers /\ r2 = With(r, n, ptr)
  /\ type.ref = "mut" => (ptr.place[1][1] = "arg" => f.locals[ptr.place[1][2]].ref = "mut")
  /\ Borrows(Muts(l, ops2), Imms(l, ops2), Live(l), g2, PlacesOf(r2), Good(r2), UnseenIn(r2))

LEMMA SoundNew ==
  ASSUME NEW f, NEW s, NEW ops, NEW r, Sound(f, s, ops, r), NEW type, NEW ptr, NEW ops2, NEW r2, NEW g2,
         NewOnTop(f, s.locls, s.graph, s.next_id, ops, r, type, ptr, ops2, r2, g2),
         NEW t, t = [locls |-> s.locls, graph |-> g2, next_id |-> s.next_id + 1]
  PROVE  Sound(f, t, ops2, r2)
<1> DEFINE l == s.locls
           n == s.next_id
           g == s.graph
           M == Muts(l, ops)
           I == Imms(l, ops)
           M2 == Muts(l, ops2)
           I2 == Imms(l, ops2)
           L == Live(l)
<1>1. Slotted(f, l, ops, n) /\ Fits(f, M, I, L, g, r)
  BY SoundFits
<1>2. n \in Nat \ DOMAIN g
  BY NextIs
<1>3. NewOnTop(f, l, g, n, ops, r, type, ptr, ops2, r2, g2) /\ t = [locls |-> l, graph |-> g2, next_id |-> n + 1]
  OBVIOUS
<1> HIDE DEF l, n, g
<1>4. /\ type \in Types /\ is_reference(type) /\ ops2 = Append(ops, Typed(type, n))
      /\ ptr \in Pointers /\ r2 = With(r, n, ptr)
      /\ type.ref = "mut" => (ptr.place[1][1] = "arg" => f.locals[ptr.place[1][2]].ref = "mut")
      /\ Borrows(M2, I2, L, g2, PlacesOf(r2), Good(r2), UnseenIn(r2))
  BY <1>3 DEF NewOnTop
<1>5. /\ Slotted(f, l, ops2, n + 1) /\ OneMore(M, I, n, M2, I2)
      /\ type.ref # "mut" => M2 = M
      /\ n \notin M \cup I
  <2>1. PushesNew(ops, n, type, ops2)
    BY <1>4 DEF PushesNew
  <2>2. NewPushed(f, l, ops, n, type, ops2)
    BY <1>1, <2>1, PushedNew
  <2> QED
    BY <2>2 DEF NewPushed
<1> HIDE DEF M, I, M2, I2, L
<1>6. AddsPointer(M, I, g, r, n, M2, I2, r2, ptr)
  BY <1>2, <1>4, <1>5 DEF AddsPointer
<1>7. n \in M2 => (ptr.place[1][1] = "arg" => f.locals[ptr.place[1][2]].ref = "mut")
  BY <1>4, <1>5
<1>8. Fits(f, M2, I2, L, g2, r2)
  BY <1>1, <1>4, <1>6, <1>7, FitsMore
<1> QED
  BY <1>3, <1>5, <1>8 DEF Sound, M2, I2, L

LEMMA BorrowIs ==
  ASSUME NEW f, NEW s, NEW ops, NEW r, Sound(f, s, ops, r), NEW from, NEW label
  PROVE  /\ Borrow(s, from, label) =
              [locls |-> s.locls,
               graph |-> add_strong_edge(add(s.graph, s.next_id), from, label, s.next_id),
               next_id |-> s.next_id + 1]
         /\ BorrowWeakly(s, from, label) =
              [locls |-> s.locls,
               graph |-> add_weak_edge(add(s.graph, s.next_id), from, label, s.next_id),
               next_id |-> s.next_id + 1]
<1> DEFINE g2 == add_strong_edge(add(s.graph, s.next_id), from, label, s.next_id)
           g3 == add_weak_edge(add(s.graph, s.next_id), from, label, s.next_id)
<1>1. s = [locls |-> s.locls, graph |-> s.graph, next_id |-> s.next_id]
  BY DEF Sound
<1>2. /\ Borrow(s, from, label) = [s EXCEPT !.graph = g2, !.next_id = s.next_id + 1]
      /\ BorrowWeakly(s, from, label) = [s EXCEPT !.graph = g3, !.next_id = s.next_id + 1]
  BY DEF Borrow, BorrowWeakly
<1> HIDE DEF g2, g3
<1>3. /\ Borrow(s, from, label) = [locls |-> s.locls, graph |-> g2, next_id |-> s.next_id + 1]
      /\ BorrowWeakly(s, from, label) = [locls |-> s.locls, graph |-> g3, next_id |-> s.next_id + 1]
  BY <1>1, <1>2
<1> QED
  BY <1>3 DEF g2, g3

\* What is known when the new reference is pushed.
NewOne(l, g, n, ops, r, type, ptr, ops2, r2) ==
  /\ Borrows(Muts(l, ops), Imms(l, ops), Live(l), g, PlacesOf(r), Good(r), UnseenIn(r))
  /\ Pointed(Muts(l, ops), Imms(l, ops), Live(l), g, r)
  /\ n \in Nat \ DOMAIN g
  /\ OneMore(Muts(l, ops), Imms(l, ops), n, Muts(l, ops2), Imms(l, ops2))
  /\ PointerAdded(Muts(l, ops), Imms(l, ops), g, r, n, r2, ptr)
  /\ n \in Muts(l, ops2) <=> type.ref = "mut"

LEMMA NewSays ==
  ASSUME NEW f, NEW s, NEW ops, NEW r, Sound(f, s, ops, r), NEW type, NEW ops2,
         PushesNew(ops, s.next_id, type, ops2),
         NEW ptr \in Pointers, NEW r2, r2 = With(r, s.next_id, ptr)
  PROVE  NewOne(s.locls, s.graph, s.next_id, ops, r, type, ptr, ops2, r2)
<1> DEFINE l == s.locls
           n == s.next_id
           g == s.graph
           M == Muts(l, ops)
           I == Imms(l, ops)
           L == Live(l)
<1>1. Slotted(f, l, ops, n) /\ Pointed(M, I, L, g, r)
  BY SoundFits
<1>2. n \in Nat \ DOMAIN g
  BY NextIs
<1>3. PushesNew(ops, n, type, ops2) /\ r2 = With(r, n, ptr)
  OBVIOUS
<1> HIDE DEF l, n, g
<1>4. NewPushed(f, l, ops, n, type, ops2)
  BY <1>1, <1>3, PushedNew
<1>5. /\ OneMore(M, I, n, Muts(l, ops2), Imms(l, ops2))
      /\ n \in Muts(l, ops2) <=> type.ref = "mut"
  BY <1>4 DEF NewPushed
<1> HIDE DEF M, I, L
<1>6. AddsPointer(M, I, g, r, n, Muts(l, ops2), Imms(l, ops2), r2, ptr)
  BY <1>2, <1>3, <1>5 DEF AddsPointer
<1>7. PointerAdded(M, I, g, r, n, r2, ptr)
  BY <1>1, <1>6, FitsNew
<1>8. Borrows(M, I, L, g, PlacesOf(r), Good(r), UnseenIn(r))
  BY <1>1 DEF Pointed
<1> QED
  BY <1>1, <1>2, <1>5, <1>7, <1>8 DEF NewOne, l, n, g, M, I, L

IsBorrowed(ptr, mut, node, place, unseen) ==
  /\ ptr \in Pointers /\ ptr.place = place /\ ptr.ok
  /\ ptr.unseen <=> (unseen \/ (~mut /\ BorrowedUnseen(node, place)))

LEMMA BorrowedIs ==
  ASSUME NEW mut, NEW node, NEW place \in Paths, NEW unseen
  PROVE  IsBorrowed(Borrowed(mut, node, place, unseen), mut, node, place, unseen)
<1> DEFINE marked == unseen \/ (~mut /\ BorrowedUnseen(node, place))
<1>1. marked \in BOOLEAN
  BY Zenon
<1>2. Borrowed(mut, node, place, unseen) = [place |-> place, ok |-> TRUE, unseen |-> marked]
  BY DEF Borrowed, Pointer
<1> DEFINE b == Borrowed(mut, node, place, unseen)
<1>3. marked <=> (unseen \/ (~mut /\ BorrowedUnseen(node, place)))
  OBVIOUS
<1> HIDE DEF marked, b
<1>4. b = [place |-> place, ok |-> TRUE, unseen |-> marked]
  BY <1>2 DEF b
<1>5. b \in Pointers /\ b.place = place /\ b.ok /\ b.unseen = marked
  BY <1>1, <1>4 DEF Pointers
<1> QED
  BY <1>3, <1>5 DEF b, IsBorrowed

LEMMA RefIs ==
  ASSUME NEW mut \in BOOLEAN, NEW t \in {"u64"} \cup DOMAIN Fields
  PROVE  /\ Ref(mut, t) \in Types /\ is_reference(Ref(mut, t))
         /\ Ref(mut, t).ref = "mut" <=> mut
BY DEF Ref, Mut, Imm, Types, is_reference

LEMMA borrow_locSound ==
  ASSUME SoundNow, IsFunction(fn), NEW mut \in BOOLEAN, NEW i \in Locals(fn), borrow_loc(mut, i)
  PROVE  SoundNow'
<1> DEFINE l == state.locls
           n == state.next_id
           g == state.graph
           elem == Local(i)
           type == Ref(mut, fn.locals[i].of)
           ptr == Borrowed(mut, frame_root, <<elem>>, FALSE)
           ops == Append(stack, Typed(type, n))
           r == With(refs, n, ptr)
           g2 == add_strong_edge(add(g, n), frame_root, <<elem>>, n)
           M == Muts(l, stack)
           I == Imms(l, stack)
           L == Live(l)
           p == PlacesOf(refs)
           q == PlacesOf(r)
           M2 == Muts(l, ops)
           I2 == Imms(l, ops)
<1>1. Sound(fn, state, stack, refs) /\ i \in DOMAIN l /\ ~is_reference(fn.locals[i])
  BY SoundSays DEF borrow_loc
<1>2. Slotted(fn, l, stack, n)
  BY <1>1, SoundFits
<1>3. l[i].type = fn.locals[i] /\ fn.locals[i] \in Types
  BY <1>1, <1>2 DEF Slotted, Avs
<1>4. type \in Types /\ is_reference(type) /\ (type.ref = "mut" <=> mut)
  BY <1>3, RefIs DEF Types
<1>5. elem \in Element /\ elem[1] # "arg" /\ ~Gone(L, <<elem>>) /\ <<elem>> \in Paths
  <2>1. elem \in Element /\ elem[1] # "arg"
    BY LocalIs
  <2>2. i \in L
    BY <1>1, <1>3 DEF Live
  <2> QED
    BY <2>1, <2>2 DEF Gone, Local, Paths
<1>6. /\ ptr \in Pointers /\ ptr.place = <<elem>> /\ ptr.ok
      /\ ptr.unseen <=> (~mut /\ BorrowedUnseen(frame_root, <<elem>>))
  <2>1. IsBorrowed(ptr, mut, frame_root, <<elem>>, FALSE)
    BY <1>5, BorrowedIs, Zenon
  <2> HIDE DEF ptr, elem
  <2> QED
    BY <2>1 DEF IsBorrowed
<1>7. BorrowedUnseen(frame_root, <<elem>>) <=> ~NoneUnder(M, g, p, frame_root, <<elem>>)
  BY UnseenIs
<1>8. PushesNew(stack, n, type, ops)
  BY <1>4 DEF PushesNew
<1>9. NewOne(l, g, n, stack, refs, type, ptr, ops, r)
  BY <1>1, <1>6, <1>8, NewSays
<1>10. Step([locls |-> l, graph |-> g2, next_id |-> n + 1], ops, r)
  BY <1>1, BorrowIs DEF borrow_loc, NewRef
<1> HIDE DEF elem, ptr, type, ops, r
<1>11. /\ Borrows(M, I, L, g, p, Good(refs), UnseenIn(refs))
       /\ n \in Nat \ DOMAIN g /\ OneMore(M, I, n, M2, I2) /\ PointerAdded(M, I, g, refs, n, r, ptr)
       /\ n \in M2 <=> mut
  BY <1>4, <1>9 DEF NewOne
<1> HIDE DEF M, I, L, M2, I2, l, g, n
<1>12. BorrowsTheLocal(M, I, L, g, p, Good(refs), UnseenIn(refs), elem, n, M2, I2, g2, q, Good(r), UnseenIn(r))
  BY <1>5, <1>6, <1>7, <1>11 DEF BorrowsTheLocal, PointerAdded
<1>13. Borrows(M2, I2, L, g2, q, Good(r), UnseenIn(r))
  BY <1>11, <1>12, BorrowsLocal
<1>14. ptr.place[1][1] # "arg"
  BY <1>5, <1>6
<1> HIDE DEF g2, q
<1>15. NewOnTop(fn, l, g, n, stack, refs, type, ptr, ops, r, g2)
  BY <1>4, <1>6, <1>13, <1>14 DEF NewOnTop, M2, I2, L, q, ops, r
<1>16. Sound(fn, [locls |-> l, graph |-> g2, next_id |-> n + 1], ops, r)
  BY <1>1, <1>15, SoundNew DEF l, g, n
<1> QED
  BY <1>10, <1>16, StepSound

LEMMA copy_locSound ==
  ASSUME SoundNow, IsFunction(fn), NEW i \in Locals(fn), copy_loc(i)
  PROVE  SoundNow'
<1> DEFINE l == state.locls
           n == state.next_id
           g == state.graph
           av == l[i]
           from == av.id
           type == av.type
           ptr == refs[from]
           ops == Append(stack, Typed(type, n))
           r == With(refs, n, ptr)
           g2 == add_strong_edge(add(g, n), from, <<>>, n)
           M == Muts(l, stack)
           I == Imms(l, stack)
           L == Live(l)
           p == PlacesOf(refs)
           q == PlacesOf(r)
           M2 == Muts(l, ops)
           I2 == Imms(l, ops)
<1>1. Sound(fn, state, stack, refs) /\ i \in DOMAIN l
  BY SoundSays DEF copy_loc
<1>2. Slotted(fn, l, stack, n) /\ Fits(fn, M, I, L, g, refs) /\ Pointed(M, I, L, g, refs)
  BY <1>1, SoundFits
<1>3. av \in Avs
  BY <1>1, <1>2 DEF Slotted
<1>4. CASE ~is_reference(type)
  <2>1. Sound(fn, state, Append(stack, av), refs)
    BY <1>1, <1>3, <1>4, PushedValue
  <2>2. Step(state, Append(stack, av), refs)
    BY <1>4 DEF copy_loc
  <2> QED
    BY <2>1, <2>2, StepSound
<1>5. CASE is_reference(type)
  <2>1. /\ type \in Types
        /\ type.ref = "mut" => from \in M
        /\ type.ref # "mut" => from \in I
    BY <1>1, <1>3, <1>5, RefOfIs DEF Muts, Imms, MutOf, ImmOf, RefOf
  <2>2. /\ ptr \in Pointers
        /\ type.ref = "mut" => (ptr.place[1][1] = "arg" => fn.locals[ptr.place[1][2]].ref = "mut")
    BY <1>2, <2>1 DEF Fits
  <2>3. PushesNew(stack, n, type, ops)
    BY <1>5, <2>1 DEF PushesNew
  <2>4. NewOne(l, g, n, stack, refs, type, ptr, ops, r)
    BY <1>1, <2>2, <2>3, NewSays
  <2>5. Step([locls |-> l, graph |-> g2, next_id |-> n + 1], ops, r)
    BY <1>1, <1>5, BorrowIs DEF copy_loc
  <2>6. /\ p[from] \in Seq(Element) /\ ptr.place = p[from]
        /\ (from \in Good(refs) <=> ptr.ok) /\ (from \in UnseenIn(refs) <=> ptr.unseen)
    BY <1>2, <2>1 DEF Pointed, Paths
  <2> HIDE DEF ptr, type, ops, r, from
  <2>7. /\ Borrows(M, I, L, g, p, Good(refs), UnseenIn(refs))
        /\ n \in Nat \ DOMAIN g /\ OneMore(M, I, n, M2, I2) /\ PointerAdded(M, I, g, refs, n, r, ptr)
        /\ n \in M2 <=> type.ref = "mut"
    BY <2>4 DEF NewOne
  <2> HIDE DEF M, I, L, M2, I2, l, g, n
  <2>8. ptr.place = p[from] \o <<>>
    BY <2>6
  <2> HIDE DEF p
  <2>9. BorrowsOf(M, I, g, p, Good(refs), UnseenIn(refs), from, <<>>, n, M2, I2, g2, q, Good(r), UnseenIn(r))
    BY <2>1, <2>6, <2>7, <2>8 DEF BorrowsOf, PointerAdded, p
  <2>10. Borrows(M2, I2, L, g2, q, Good(r), UnseenIn(r))
    BY <2>7, <2>9, BorrowsReference
  <2> HIDE DEF g2, q
  <2>11. NewOnTop(fn, l, g, n, stack, refs, type, ptr, ops, r, g2)
    BY <1>5, <2>1, <2>2, <2>10 DEF NewOnTop, M2, I2, L, q, ops, r, type
  <2>12. Sound(fn, [locls |-> l, graph |-> g2, next_id |-> n + 1], ops, r)
    BY <1>1, <2>11, SoundNew DEF l, g, n
  <2> QED
    BY <2>5, <2>12, StepSound
<1> QED
  BY <1>4, <1>5

\* Without a value on top, the references are the same.
LEMMA SameReferences ==
  ASSUME NEW f, NEW s, NEW ops, NEW r, Sound(f, s, ops, r),
         ops # <<>>, ~is_reference(ops[Len(ops)].type)
  PROVE  /\ Muts(s.locls, SubSeq(ops, 1, Len(ops) - 1)) = Muts(s.locls, ops)
         /\ Imms(s.locls, SubSeq(ops, 1, Len(ops) - 1)) = Imms(s.locls, ops)
<1> DEFINE l == s.locls
           ops2 == SubSeq(ops, 1, Len(ops) - 1)
           av == ops[Len(ops)]
<1>1. Slotted(f, l, ops, s.next_id)
  BY SoundFits
<1> HIDE DEF l
<1>2. av \in Avs /\ Splits(f, l, ops, s.next_id, l, ops2, MutOf(av), ImmOf(av))
  BY <1>1, PoppedOne
<1> HIDE DEF ops2
<1>3. MutOf(av) = {} /\ ImmOf(av) = {}
  BY <1>2, RefOfIs DEF RefOf
<1>4. Muts(l, ops2) = Muts(l, ops) /\ Imms(l, ops2) = Imms(l, ops)
  BY <1>2, <1>3 DEF Splits
<1> QED
  BY <1>4 DEF l, ops2

LEMMA borrow_globalSound ==
  ASSUME SoundNow, IsFunction(fn), NEW mut \in BOOLEAN, borrow_global(mut)
  PROVE  SoundNow'
<1> DEFINE l == state.locls
           n == state.next_id
           g == state.graph
           u == Under(1)
           elem == GlobalOf(Global)
           type == Ref(mut, Global)
           ptr == Borrowed(mut, frame_root, <<elem>>, FALSE)
           ops == Append(u, Typed(type, n))
           r == With(refs, n, ptr)
           g2 == add_weak_edge(add(g, n), {frame_root}, <<elem>>, n)
           M == Muts(l, u)
           I == Imms(l, u)
           L == Live(l)
           p == PlacesOf(refs)
           q == PlacesOf(r)
           M2 == Muts(l, ops)
           I2 == Imms(l, ops)
<1>1. /\ Sound(fn, state, stack, refs) /\ stack # <<>> /\ ~is_reference(stack[Len(stack)].type)
      /\ u = SubSeq(stack, 1, Len(stack) - 1)
  BY SoundSays, PrimIs DEF borrow_global
<1>2. Sound(fn, state, u, refs) /\ M = Muts(l, stack)
  BY <1>1, PoppedValue, SameReferences, ZenonT(40)
<1>3. type \in Types /\ is_reference(type) /\ (type.ref = "mut" <=> mut)
  BY FunctionsAssumption, RefIs
<1>4. elem \in Element /\ elem[1] = "global" /\ <<elem>> \in Paths
  BY DEF GlobalOf, Element, Paths
<1>5. /\ ptr \in Pointers /\ ptr.place = <<elem>> /\ ptr.ok
      /\ ptr.unseen <=> (~mut /\ BorrowedUnseen(frame_root, <<elem>>))
  <2>1. IsBorrowed(ptr, mut, frame_root, <<elem>>, FALSE)
    BY <1>4, BorrowedIs, Zenon
  <2> HIDE DEF ptr, elem
  <2> QED
    BY <2>1 DEF IsBorrowed
<1>6. BorrowedUnseen(frame_root, <<elem>>) <=> ~NoneUnder(M, g, p, frame_root, <<elem>>)
  BY <1>2, UnseenIs
<1>7. PushesNew(u, n, type, ops)
  BY <1>3 DEF PushesNew
<1>8. NewOne(l, g, n, u, refs, type, ptr, ops, r)
  BY <1>2, <1>5, <1>7, NewSays
<1>9. /\ Step([locls |-> l, graph |-> g2, next_id |-> n + 1], ops, r)
      /\ mut => consistent_borrows(g, frame_root, elem) = {}
  BY <1>1, BorrowIs DEF borrow_global, NewRef, is_global_borrowed
<1> HIDE DEF elem, ptr, type, ops, r, u
<1>10. /\ Borrows(M, I, L, g, p, Good(refs), UnseenIn(refs))
       /\ n \in Nat \ DOMAIN g /\ OneMore(M, I, n, M2, I2) /\ PointerAdded(M, I, g, refs, n, r, ptr)
       /\ n \in M2 <=> mut
  BY <1>3, <1>8 DEF NewOne
<1> HIDE DEF M, I, L, M2, I2, l, g, n
<1>11. BorrowsTheGlobal(M, I, g, p, Good(refs), UnseenIn(refs), elem, n, M2, I2, g2, q, Good(r), UnseenIn(r))
  BY <1>4, <1>5, <1>6, <1>9, <1>10 DEF BorrowsTheGlobal, PointerAdded
<1>12. Borrows(M2, I2, L, g2, q, Good(r), UnseenIn(r))
  BY <1>10, <1>11, BorrowsGlobal
<1>13. ptr.place[1][1] # "arg"
  BY <1>4, <1>5
<1> HIDE DEF g2, q
<1>14. NewOnTop(fn, l, g, n, u, refs, type, ptr, ops, r, g2)
  BY <1>3, <1>5, <1>12, <1>13 DEF NewOnTop, M2, I2, L, q, ops, r
<1>15. Sound(fn, [locls |-> l, graph |-> g2, next_id |-> n + 1], ops, r)
  BY <1>2, <1>14, SoundNew DEF l, g, n
<1> QED
  BY <1>9, <1>15, StepSound

LEMMA AppendIs ==
  ASSUME NEW x \in Paths, NEW e \in Element
  PROVE  /\ Append(x, e) = x \o <<e>> /\ Append(x, e) \in Paths
         /\ x # <<>> => Append(x, e)[1] = x[1]
<1>1. x \in Seq(Element) /\ Append(x, e) \in Seq(Element)
  BY DEF Paths
<1>2. Append(x, e) = x \o <<e>>
  BY <1>1
<1>3. x # <<>> => Append(x, e)[1] = x[1]
  BY <1>1
<1> QED
  BY <1>1, <1>2, <1>3 DEF Paths

\* The reference on top with the one to a field of what it refers to, before it
\* is released.
LEMMA FieldBorrowed ==
  ASSUME SoundNow, IsFunction(fn), NEW mut \in BOOLEAN, NEW x \in FieldNames, borrow_field(mut, x),
         NEW from, from = Top.id, NEW n, n = state.next_id,
         NEW type, type = Ref(mut, Fields[Top.type.of][x]),
         NEW ptr, ptr = [Borrowed(mut, from, Append(refs[from].place, Field(x)), refs[from].unseen)
                           EXCEPT !.ok = refs[from].ok]
  PROVE  Sound(fn, Borrow(state, from, <<Field(x)>>), Append(stack, Typed(type, n)), With(refs, n, ptr))
<1> DEFINE l == state.locls
           g == state.graph
           place == refs[from].place
           b == Borrowed(mut, from, Append(place, Field(x)), refs[from].unseen)
           label == <<Field(x)>>
           ops == Append(stack, Typed(type, n))
           r == With(refs, n, ptr)
           g2 == add_strong_edge(add(g, n), from, label, n)
           M == Muts(l, stack)
           I == Imms(l, stack)
           L == Live(l)
           p == PlacesOf(refs)
           q == PlacesOf(r)
           M2 == Muts(l, ops)
           I2 == Imms(l, ops)
<1>1. /\ Sound(fn, state, stack, refs) /\ stack # <<>> /\ Top = stack[Len(stack)]
      /\ is_reference(Top.type) /\ Top.type.of \in DOMAIN Fields /\ x \in DOMAIN Fields[Top.type.of]
      /\ mut => Top.type.ref = "mut" /\ nil_borrows(g, from) = {}
  BY SoundSays DEF borrow_field, IsStruct, may_borrow_field
<1>2. Fits(fn, M, I, L, g, refs) /\ Pointed(M, I, L, g, refs)
  BY <1>1, SoundFits
<1>3. from \in M \cup I /\ (mut => from \in M)
  <2>1. /\ Top \in Avs
        /\ Top.type.ref = "mut" => Top.id \in M
        /\ Top.type.ref = "imm" => Top.id \in I
    BY <1>1, TopIs
  <2> QED
    BY <1>1, <2>1, RefOfIs
<1>4. type \in Types /\ is_reference(type) /\ (type.ref = "mut" <=> mut)
  <2>1. Fields[Top.type.of][x] \in {"u64"} \cup DOMAIN Fields
    BY <1>1, FunctionsAssumption
  <2> QED
    BY <2>1, RefIs
<1>5. Field(x) \in Element /\ \E y \in Element : label = <<y>>
  BY DEF Element, Field
<1>6. /\ place \in Paths /\ place # <<>> /\ refs[from] \in Pointers
      /\ p[from] = place
      /\ (from \in Good(refs) <=> refs[from].ok) /\ (from \in UnseenIn(refs) <=> refs[from].unseen)
  BY <1>2, <1>3 DEF Pointed
<1> HIDE DEF place
<1>7. /\ Append(place, Field(x)) = place \o label /\ Append(place, Field(x)) \in Paths
      /\ Append(place, Field(x))[1] = place[1]
  BY <1>5, <1>6, AppendIs
<1>8. IsBorrowed(b, mut, from, Append(place, Field(x)), refs[from].unseen)
  BY <1>7, BorrowedIs, Zenon
<1>9. ptr = [b EXCEPT !.ok = refs[from].ok]
  BY DEF place
<1> HIDE DEF b
<1>10. /\ ptr \in Pointers /\ ptr.place = place \o label /\ ptr.ok = refs[from].ok
       /\ ptr.place[1] = place[1]
       /\ (ptr.unseen <=> b.unseen)
       /\ (b.unseen <=> refs[from].unseen \/ (~mut /\ BorrowedUnseen(from, ptr.place)))
  <2>1. /\ b \in Pointers /\ b.place = Append(place, Field(x))
        /\ (b.unseen <=> refs[from].unseen \/ (~mut /\ BorrowedUnseen(from, Append(place, Field(x)))))
    BY <1>8 DEF IsBorrowed
  <2>2. /\ ptr \in Pointers /\ ptr.place = b.place /\ ptr.ok = refs[from].ok /\ ptr.unseen = b.unseen
    BY <1>6, <1>9, <2>1 DEF Pointers
  <2> QED
    BY <1>7, <2>1, <2>2
<1>11. BorrowedUnseen(from, ptr.place) <=> ~NoneUnder(M, g, p, from, ptr.place)
  BY UnseenIs
<1>12. PushesNew(stack, n, type, ops)
  BY <1>4 DEF PushesNew
<1>13. NewOne(l, g, n, stack, refs, type, ptr, ops, r)
  BY <1>1, <1>10, <1>12, NewSays
<1>14. type.ref = "mut" => (ptr.place[1][1] = "arg" => fn.locals[ptr.place[1][2]].ref = "mut")
  BY <1>2, <1>3, <1>4, <1>10 DEF Fits, place
<1> HIDE DEF ops, r, label
<1>15. /\ Borrows(M, I, L, g, p, Good(refs), UnseenIn(refs))
       /\ n \in Nat \ DOMAIN g /\ OneMore(M, I, n, M2, I2) /\ PointerAdded(M, I, g, refs, n, r, ptr)
       /\ n \in M2 <=> mut
  BY <1>4, <1>13 DEF NewOne
<1> HIDE DEF M, I, L, M2, I2, l, g, p
<1>16. BorrowsOf(M, I, g, p, Good(refs), UnseenIn(refs), from, label, n, M2, I2, g2, q, Good(r), UnseenIn(r))
  <2>1. /\ q[n] = ptr.place /\ \A m \in DOMAIN g : q[m] = p[m]
        /\ SameMarks(M \cup I, Good(refs), UnseenIn(refs), Good(r), UnseenIn(r))
        /\ (n \in Good(r) <=> ptr.ok) /\ (n \in UnseenIn(r) <=> ptr.unseen)
    BY <1>15 DEF PointerAdded, p
  <2> HIDE DEF q
  <2>2. q[n] = p[from] \o label /\ (n \in Good(r) <=> from \in Good(refs))
    BY <1>6, <1>10, <2>1
  <2>3. n \in M2 => from \in M /\ nil_borrows(g, from) = {}
    BY <1>1, <1>3, <1>15
  <2>4. n \in M2 /\ n \in UnseenIn(r) => from \in UnseenIn(refs)
    BY <1>6, <1>10, <1>15, <2>1
  <2>5. n \notin UnseenIn(r) => from \notin UnseenIn(refs) /\ (n \in M2 \/ from \in I \/ NoneUnder(M, g, p, from, q[n]))
    BY <1>6, <1>10, <1>11, <1>15, <2>1
  <2> QED
    BY <1>3, <1>5, <1>15, <2>1, <2>2, <2>3, <2>4, <2>5 DEF BorrowsOf
<1>17. Borrows(M2, I2, L, g2, q, Good(r), UnseenIn(r))
  BY <1>15, <1>16, BorrowsReference
<1> HIDE DEF g2, q
<1>18. NewOnTop(fn, l, g, n, stack, refs, type, ptr, ops, r, g2)
  BY <1>4, <1>10, <1>14, <1>17 DEF NewOnTop, M2, I2, L, q, ops, r
<1>19. Sound(fn, [locls |-> l, graph |-> g2, next_id |-> n + 1], ops, r)
  BY <1>1, <1>18, SoundNew DEF l, g
<1>20. Borrow(state, from, label) = [locls |-> l, graph |-> g2, next_id |-> n + 1]
  BY <1>1, BorrowIs DEF l, g, g2
<1> QED
  BY <1>19, <1>20 DEF ops, r, label

\* The reference under the new one is released.
LEMMA ReleasedUnder ==
  ASSUME NEW f, NEW s, NEW ops, NEW r, Sound(f, s, ops, r), ops # <<>>, is_reference(ops[Len(ops)].type),
         NEW type, NEW n, NEW ops2, PushesNew(ops, n, type, ops2), n = s.next_id,
         NEW t, NEW r2, Sound(f, t, ops2, r2), t.locls = s.locls, t.next_id = n + 1,
         NEW ops3, ops3 = Append(SubSeq(ops, 1, Len(ops) - 1), Typed(type, n))
  PROVE  Sound(f, Release(t, ops[Len(ops)].id), ops3, r2)
<1> DEFINE l == s.locls
           u == SubSeq(ops, 1, Len(ops) - 1)
           av == ops[Len(ops)]
           id == av.id
           M == Muts(l, ops)
           I == Imms(l, ops)
           M2 == Muts(l, ops2)
           I2 == Imms(l, ops2)
           M3 == Muts(l, ops3)
           I3 == Imms(l, ops3)
           Mu == Muts(l, u)
           Iu == Imms(l, u)
<1>1. Slotted(f, l, ops, n)
  BY SoundFits
<1>2. Slotted(f, l, ops2, n + 1) /\ Fits(f, M2, I2, Live(l), t.graph, r2)
  <2>1. Slotted(f, t.locls, ops2, t.next_id) /\ Fits(f, Muts(t.locls, ops2), Imms(t.locls, ops2), Live(t.locls), t.graph, r2)
    BY SoundFits
  <2> QED
    BY <2>1
<1>3. Release(t, id) = [locls |-> l, graph |-> remove(t.graph, id), next_id |-> n + 1]
  BY ReleaseIs
<1>4. t = [locls |-> l, graph |-> t.graph, next_id |-> n + 1]
  BY DEF Sound
<1> HIDE DEF l
<1>5. av \in Avs /\ Splits(f, l, ops, n, l, u, MutOf(av), ImmOf(av))
  BY <1>1, PoppedOne
<1>6. RefOf(av) = {id} /\ RefOf(av) = MutOf(av) \cup ImmOf(av)
  BY <1>5, RefOfIs DEF RefOf
<1>7. PushesNew(ops, n, type, ops2) /\ PushesNew(u, n, type, ops3)
  BY DEF PushesNew
<1> HIDE DEF u, id, av
<1>8. /\ Slotted(f, l, u, n) /\ M = Mu \cup MutOf(av) /\ I = Iu \cup ImmOf(av)
      /\ (MutOf(av) \cup ImmOf(av)) \cap (Mu \cup Iu) = {}
  BY <1>5 DEF Splits, Refs
<1>9. NewPushed(f, l, ops, n, type, ops2) /\ NewPushed(f, l, u, n, type, ops3)
  BY <1>1, <1>7, <1>8, PushedNew
<1>10. /\ type.ref = "mut" => M2 = M \cup {n} /\ I2 = I /\ M3 = Mu \cup {n} /\ I3 = Iu
       /\ type.ref # "mut" => I2 = I \cup {n} /\ M2 = M /\ I3 = Iu \cup {n} /\ M3 = Mu
       /\ n \notin M \cup I /\ Slotted(f, l, ops3, n + 1)
  BY <1>9 DEF NewPushed
<1> HIDE DEF M, I, M2, I2, M3, I3, Mu, Iu
<1>11. M3 = M2 \ {id} /\ I3 = I2 \ {id} /\ id \in M2 \cup I2
  <2>1. id \in M \cup I /\ id \notin Mu \cup Iu /\ Mu = M \ {id} /\ Iu = I \ {id} /\ id # n
    BY <1>6, <1>8, <1>10
  <2> QED
    BY <1>10, <2>1
<1>12. Fits(f, M2 \ {id}, I2 \ {id}, Live(l), remove(t.graph, id), r2)
  BY <1>2, <1>11, FitsReleased
<1>13. Fits(f, M3, I3, Live(l), remove(t.graph, id), r2)
  BY <1>11, <1>12
<1>14. Sound(f, Release(t, id), ops3, r2)
  BY <1>3, <1>10, <1>13 DEF Sound, M3, I3
<1> QED
  BY <1>14 DEF id, av

LEMMA borrow_fieldSound ==
  ASSUME SoundNow, IsFunction(fn), NEW mut \in BOOLEAN, NEW x \in FieldNames, borrow_field(mut, x)
  PROVE  SoundNow'
<1> DEFINE from == Top.id
           n == state.next_id
           type == Ref(mut, Fields[Top.type.of][x])
           ptr == [Borrowed(mut, from, Append(refs[from].place, Field(x)), refs[from].unseen)
                     EXCEPT !.ok = refs[from].ok]
           t == Borrow(state, from, <<Field(x)>>)
           r == With(refs, n, ptr)
           ops2 == Append(stack, Typed(type, n))
           ops3 == Append(Under(1), Typed(type, n))
<1>1. /\ Sound(fn, state, stack, refs) /\ stack # <<>> /\ Top = stack[Len(stack)]
      /\ is_reference(Top.type) /\ Top.type.of \in DOMAIN Fields /\ x \in DOMAIN Fields[Top.type.of]
      /\ Under(1) = SubSeq(stack, 1, Len(stack) - 1)
  BY SoundSays DEF borrow_field, IsStruct
<1>2. Sound(fn, t, ops2, r)
  BY FieldBorrowed
<1>3. PushesNew(stack, n, type, ops2)
  <2>1. Fields[Top.type.of][x] \in {"u64"} \cup DOMAIN Fields
    BY <1>1, FunctionsAssumption
  <2> QED
    BY <2>1, RefIs DEF PushesNew
<1>4. t.locls = state.locls /\ t.next_id = n + 1
  BY <1>1, BorrowIs
<1>5. Step(Release(t, from), ops3, r)
  BY DEF borrow_field, NewRef
<1>6. ops3 = Append(SubSeq(stack, 1, Len(stack) - 1), Typed(type, n))
  BY <1>1
<1> HIDE DEF t, type, r, ops2, ops3, ptr, n
<1>7. Sound(fn, Release(t, stack[Len(stack)].id), ops3, r)
  BY <1>1, <1>2, <1>3, <1>4, <1>6, ReleasedUnder DEF n
<1>8. Sound(fn, Release(t, from), ops3, r)
  BY <1>1, <1>7
<1> QED
  BY <1>5, <1>8, StepSound

----------------------------------------------------------------------------
(* Calls *)

\* Without some of the references.
LEMMA FitsDropped ==
  ASSUME NEW f, NEW M, NEW I, NEW L, NEW g, NEW r, Fits(f, M, I, L, g, r), NEW ids, ids \subseteq M \cup I
  PROVE  Fits(f, M \ ids, I \ ids, L, remove_each(g, ids), r)
<1> DEFINE g2 == remove_each(g, ids)
           M2 == M \ ids
           I2 == I \ ids
<1>1. Pointed(M, I, L, g, r)
  BY FitsSays
<1>2. /\ DOMAIN g = {frame_root} \cup M \cup I /\ frame_root \notin M \cup I
      /\ Graph(g) /\ Placed(DOMAIN g, PlacesOf(r)) /\ frame_root \notin DOMAIN r
      /\ \A a \in M \cup I : /\ a \in DOMAIN r /\ r[a] \in Pointers
                             /\ ~r[a].unseen => r[a].ok /\ ~Gone(L, r[a].place)
      /\ \A a \in M : r[a].unseen => ~r[a].ok \/ Gone(L, r[a].place)
  BY <1>1 DEF Pointed
<1>3. ids \in SUBSET (DOMAIN g \ {frame_root})
  BY <1>2
<1>4. Leaves(g, ids, g2)
  BY <1>2, <1>3, RemovedEach
<1> HIDE DEF g2
<1>5. /\ Graph(g2) /\ DOMAIN g2 = DOMAIN g \ ids
      /\ Keeps(g, PlacesOf(r), g2, PlacesOf(r))
  BY <1>2, <1>4 DEF Leaves
<1>6. DOMAIN g2 = {frame_root} \cup M2 \cup I2
  BY <1>2, <1>3, <1>5
<1>7. FitsAfter(f, M, I, g, r, M2, I2, L, g2, r)
  BY <1>2, <1>5, <1>6 DEF FitsAfter
<1> HIDE DEF M2, I2
<1>8. Fits(f, M2, I2, L, g2, r)
  BY <1>7, FitsLess
<1> QED
  BY <1>8 DEF g2, M2, I2

\* Of the pointers of ids, some that are unseen went bad.
Spoiled(r, r2, ids) ==
  /\ DOMAIN r2 = DOMAIN r
  /\ \A id \in ids : r2[id] = r[id] \/ (r[id].unseen /\ r2[id] = [r[id] EXCEPT !.ok = FALSE])

LEMMA SoundSpoiled ==
  ASSUME NEW f, NEW s, NEW ops, NEW r, Sound(f, s, ops, r),
         NEW r2, Spoiled(r, r2, Refs(s.locls, ops))
  PROVE  Sound(f, s, ops, r2)
<1> DEFINE M == Muts(s.locls, ops)
           I == Imms(s.locls, ops)
           L == Live(s.locls)
           g == s.graph
<1>1. Fits(f, M, I, L, g, r) /\ Pointed(M, I, L, g, r) /\ Refs(s.locls, ops) = M \cup I
  BY SoundFits
<1> HIDE DEF M, I, L, g
<1>2. Keeps(g, PlacesOf(r), g, PlacesOf(r))
  BY DEF Keeps
<1>3. /\ Graph(g) /\ DOMAIN g = {frame_root} \cup M \cup I /\ frame_root \notin DOMAIN r
      /\ \A id \in M \cup I : id \in DOMAIN r /\ r[id] \in Pointers
      /\ \A id \in M \cup I : ~r[id].unseen => r[id].ok /\ ~Gone(L, r[id].place)
      /\ \A a \in M : r[a].unseen => ~r[a].ok \/ Gone(L, r[a].place)
  BY <1>1 DEF Pointed
<1>4. /\ DOMAIN r2 = DOMAIN r
      /\ \A id \in M \cup I : r2[id] = r[id] \/ (r[id].unseen /\ r2[id] = [r[id] EXCEPT !.ok = FALSE])
  BY <1>1 DEF Spoiled
<1>5. \A id \in M \cup I : /\ r2[id] \in Pointers /\ r2[id].place = r[id].place
                           /\ (r2[id].unseen <=> r[id].unseen)
                           /\ (r2[id].ok => r[id].ok)
                           /\ (~r[id].unseen => r2[id] = r[id])
  <2>1. SUFFICES ASSUME NEW id \in M \cup I
                 PROVE  /\ r2[id] \in Pointers /\ r2[id].place = r[id].place
                        /\ (r2[id].unseen <=> r[id].unseen)
                        /\ (r2[id].ok => r[id].ok)
                        /\ (~r[id].unseen => r2[id] = r[id])
    OBVIOUS
  <2>2. r[id] \in Pointers /\ (r2[id] = r[id] \/ (r[id].unseen /\ r2[id] = [r[id] EXCEPT !.ok = FALSE]))
    BY <1>3, <1>4
  <2>3. CASE r2[id] = r[id]
    BY <2>2, <2>3
  <2>4. CASE r[id].unseen /\ r2[id] = [r[id] EXCEPT !.ok = FALSE]
    <3>1. /\ r2[id] \in Pointers /\ r2[id].place = r[id].place /\ r2[id].unseen = r[id].unseen
          /\ ~r2[id].ok
      BY <2>2, <2>4 DEF Pointers
    <3> QED
      BY <2>4, <3>1
  <2> QED
    BY <2>2, <2>3, <2>4
<1>6. FitsAfter(f, M, I, g, r, M, I, L, g, r2)
  BY <1>2, <1>3, <1>4, <1>5 DEF FitsAfter
<1>7. Fits(f, M, I, L, g, r2)
  BY <1>1, <1>6, FitsLess
<1> QED
  BY <1>7 DEF Sound, M, I, L, g

\* The operands that are passed.
Passes(g) ==
  /\ IsFunction(g) /\ Len(stack) >= g.args
  /\ \A k \in 1..g.args : Passed(g)[k].type = g.locals[k]

LEMMA ArgRefsAre ==
  ASSUME SoundNow, NEW g, Passes(g)
  PROVE  /\ Splits(fn, state.locls, stack, state.next_id, state.locls, Under(g.args),
                   ArgRefs(g, {"mut"}), ArgRefs(g, {"imm"}))
         /\ ArgRefs(g, {"imm", "mut"}) = ArgRefs(g, {"imm"}) \cup ArgRefs(g, {"mut"})
<1> DEFINE l == state.locls
           n == state.next_id
<1>1. stack \in Seq(Avs) /\ Len(stack) \in Nat /\ Slotted(fn, l, stack, n)
  BY SoundSays, SoundFits
<1>2. PICK k \in Nat : k = g.args
  BY DEF Passes, IsFunction
<1>3. PICK b \in Nat : b = Len(stack) - k /\ Len(stack) = b + k
  BY <1>1, <1>2 DEF Passes
<1>4. k \in 0..Len(stack)
  BY <1>2, <1>3
<1> DEFINE m == UNION {MutOf(stack[j]) : j \in b + 1..Len(stack)}
           i == UNION {ImmOf(stack[j]) : j \in b + 1..Len(stack)}
<1> HIDE DEF l, n
<1>5. Splits(fn, l, stack, n, l, SubSeq(stack, 1, b), m, i)
  BY <1>1, <1>3, <1>4, PoppedMany
<1>6. Passed(g) = SubSeq(stack, b + 1, b + k)
  BY <1>2, <1>3 DEF Passed
<1>7. \A j \in 1..k : Passed(g)[j] = stack[b + j] /\ stack[b + j].type = g.locals[j]
  <2>1. \A j \in 1..k : SubSeq(stack, b + 1, b + k)[j] = stack[b + j]
    <3>1. SUFFICES ASSUME NEW j \in 1..k PROVE SubSeq(stack, b + 1, b + k)[j] = stack[b + j]
      OBVIOUS
    <3>2. /\ b + 1 \in 1..b + k + 1 /\ b + k \in b + 1 - 1..Len(stack)
          /\ j \in 1..(b + k) - (b + 1) + 1 /\ (b + 1) + j - 1 = b + j
      BY <1>3
    <3>3. SubSeq(stack, b + 1, b + k)[j] = stack[(b + 1) + j - 1]
      BY <1>1, <1>3, <3>2, SubSeqProperties
    <3> QED
      BY <3>2, <3>3
  <2> QED
    BY <1>2, <1>6, <2>1 DEF Passes
<1>8. ArgRefs(g, {"mut"}) = m
  <2>1. \A x \in m : x \in ArgRefs(g, {"mut"})
    <3>1. SUFFICES ASSUME NEW x \in m PROVE x \in ArgRefs(g, {"mut"})
      OBVIOUS
    <3>2. PICK j \in b + 1..Len(stack) : x \in MutOf(stack[j])
      BY <3>1
    <3>3. PICK h \in 1..k : j = b + h
      <4>1. j - b \in 1..k /\ j = b + (j - b)
        BY <1>3
      <4> QED
        BY <4>1
    <3>4. x = Passed(g)[h].id /\ g.locals[h].ref = "mut"
      BY <1>7, <3>2, <3>3 DEF MutOf
    <3> QED
      BY <1>2, <3>4 DEF ArgRefs
  <2>2. \A x \in ArgRefs(g, {"mut"}) : x \in m
    <3>1. SUFFICES ASSUME NEW x \in ArgRefs(g, {"mut"}) PROVE x \in m
      OBVIOUS
    <3>2. PICK h \in 1..k : x = Passed(g)[h].id /\ g.locals[h].ref = "mut"
      BY <1>2, <3>1 DEF ArgRefs
    <3>3. x \in MutOf(stack[b + h]) /\ b + h \in b + 1..Len(stack)
      BY <1>3, <1>7, <3>2, SMTT(30) DEF MutOf
    <3> QED
      BY <3>3
  <2> QED
    BY <2>1, <2>2
<1>9. ArgRefs(g, {"imm"}) = i
  <2>1. \A x \in i : x \in ArgRefs(g, {"imm"})
    <3>1. SUFFICES ASSUME NEW x \in i PROVE x \in ArgRefs(g, {"imm"})
      OBVIOUS
    <3>2. PICK j \in b + 1..Len(stack) : x \in ImmOf(stack[j])
      BY <3>1
    <3>3. PICK h \in 1..k : j = b + h
      <4>1. j - b \in 1..k /\ j = b + (j - b)
        BY <1>3
      <4> QED
        BY <4>1
    <3>4. x = Passed(g)[h].id /\ g.locals[h].ref = "imm"
      BY <1>7, <3>2, <3>3 DEF ImmOf
    <3> QED
      BY <1>2, <3>4 DEF ArgRefs
  <2>2. \A x \in ArgRefs(g, {"imm"}) : x \in i
    <3>1. SUFFICES ASSUME NEW x \in ArgRefs(g, {"imm"}) PROVE x \in i
      OBVIOUS
    <3>2. PICK h \in 1..k : x = Passed(g)[h].id /\ g.locals[h].ref = "imm"
      BY <1>2, <3>1 DEF ArgRefs
    <3>3. x \in ImmOf(stack[b + h]) /\ b + h \in b + 1..Len(stack)
      BY <1>3, <1>7, <3>2 DEF ImmOf
    <3> QED
      BY <3>3
  <2> QED
    BY <2>1, <2>2
<1>10. ArgRefs(g, {"imm", "mut"}) = ArgRefs(g, {"imm"}) \cup ArgRefs(g, {"mut"})
  BY DEF ArgRefs
<1>11. Under(g.args) = SubSeq(stack, 1, b)
  BY <1>2, <1>3 DEF Under
<1> HIDE DEF m, i
<1>12. Splits(fn, l, stack, n, l, Under(g.args), ArgRefs(g, {"mut"}), ArgRefs(g, {"imm"}))
  BY <1>5, <1>8, <1>9, <1>11
<1> QED
  BY <1>10, <1>12 DEF l, n

\* The arguments' references are released.
LEMMA Dropped ==
  ASSUME SoundNow, NEW g, Passes(g), NEW r, Sound(fn, state, stack, r)
  PROVE  Sound(fn, [state EXCEPT !.graph = remove_each(@, ArgRefs(g, {"imm", "mut"}))], Under(g.args), r)
<1> DEFINE l == state.locls
           n == state.next_id
           u == Under(g.args)
           A == ArgRefs(g, {"mut"})
           B == ArgRefs(g, {"imm"})
           ids == ArgRefs(g, {"imm", "mut"})
           g2 == remove_each(state.graph, ids)
           M == Muts(l, stack)
           I == Imms(l, stack)
           Mu == Muts(l, u)
           Iu == Imms(l, u)
           t == [state EXCEPT !.graph = g2]
<1>1. Splits(fn, l, stack, n, l, u, A, B) /\ ids = B \cup A
  BY ArgRefsAre
<1>2. /\ Fits(fn, M, I, Live(l), state.graph, r) /\ M \cap I = {}
      /\ state = [locls |-> l, graph |-> state.graph, next_id |-> n]
  BY SoundFits DEF Sound, Pointed
<1> HIDE DEF l, n, u, A, B, ids, g2
<1>3. t = [locls |-> l, graph |-> g2, next_id |-> n]
  BY <1>2
<1>4. /\ Slotted(fn, l, u, n) /\ M = Mu \cup A /\ I = Iu \cup B
      /\ (A \cup B) \cap (Mu \cup Iu) = {}
  BY <1>1 DEF Splits, Refs
<1> HIDE DEF M, I, Mu, Iu
<1>5. ids \subseteq M \cup I /\ Mu = M \ ids /\ Iu = I \ ids
  BY <1>1, <1>2, <1>4
<1>6. Fits(fn, M \ ids, I \ ids, Live(l), remove_each(state.graph, ids), r)
  BY <1>2, <1>5, FitsDropped
<1>7. Fits(fn, Mu, Iu, Live(l), g2, r)
  BY <1>5, <1>6 DEF g2
<1> HIDE DEF t
<1>8. Sound(fn, t, u, r)
  BY <1>3, <1>4, <1>7 DEF Sound, Mu, Iu
<1> QED
  BY <1>8 DEF t, u, g2, ids

\* What the callee does to the pointers of the caller.
LEMMA CalleeSpoils ==
  ASSUME SoundNow, NEW g, Passes(g), call(g)
  PROVE  /\ Sound(fn, state, stack, CalleeDoes(g))
         /\ Spoiled(refs, CalleeDoes(g), Refs(state.locls, stack))
         /\ \A a \in ArgRefs(g, {"mut"}) : a \in Muts(state.locls, stack) /\ state.graph[a] = {}
<1> DEFINE A == ArgRefs(g, {"mut"})
           w == Overwritten(refs, A)
           ids == Refs(state.locls, stack)
<1>1. Sound(fn, state, stack, refs)
  BY SoundSays
<1>2. A \in SUBSET Muts(state.locls, stack)
  BY ArgRefsAre DEF Splits
<1>3. \A a \in A : state.graph[a] = {}
  BY DEF call, is_borrowed, all_borrows
<1>4. Sound(fn, state, stack, w)
  BY <1>1, <1>2, <1>3, SoundOverwritten
<1>5. \A id \in ids : id \in DOMAIN refs /\ refs[id] \in Pointers
  BY <1>1, SoundFits
<1>6. Spoiled(refs, w, ids)
  <2> DEFINE written == {i \in A : refs[i].ok /\ IsStruct(TypeAt(refs[i].place))}
             lost == {id \in DOMAIN refs : \E i \in written : IsStrictPrefix(refs[i].place, CellOf(refs[id].place))}
  <2>1. \A id \in ids : id \in lost => refs[id].unseen
    BY <1>1, <1>2, <1>3, OverwritesUnseen
  <2>2. w = Lost(refs, lost)
    BY DEF Overwritten
  <2> HIDE DEF lost, w, ids
  <2> QED
    BY <1>5, <2>1, <2>2 DEF Spoiled, Lost
<1>7. CASE ~g.acquires
  <2>1. CalleeDoes(g) = w
    BY <1>7 DEF CalleeDoes
  <2> QED
    BY <1>2, <1>3, <1>4, <1>6, <2>1
<1>8. CASE g.acquires
  <2> DEFINE elem == GlobalOf(Global)
             v == Vacated(w, <<elem>>)
  <2>1. CalleeDoes(g) = v
    BY <1>8 DEF CalleeDoes
  <2>2. elem \in Element /\ elem[1] # "arg"
    BY DEF GlobalOf, Element
  <2>3. consistent_borrows(state.graph, frame_root, elem) = {}
    BY <1>8 DEF call, is_global_borrowed
  <2> HIDE DEF elem, w
  <2>4. OnlyUnseen(state, stack, w, elem)
    BY <1>4, <2>2, <2>3, NotBorrowed
  <2>5. Sound(fn, state, stack, v)
    BY <1>4, <2>2, <2>4, SoundVacated
  <2>6. \A id \in ids : w[id] \in Pointers /\ id \in DOMAIN w
    BY <1>4, SoundFits
  <2>7. Spoiled(w, v, ids)
    <3> DEFINE lost == {id \in DOMAIN w : IsPrefix(<<elem>>, w[id].place)}
    <3>1. \A id \in ids : id \in lost => w[id].unseen
      BY <1>4, <2>2, <2>4, VacatedPlaces DEF OnlyUnseen
    <3>2. v = Lost(w, lost)
      BY DEF Vacated
    <3> HIDE DEF lost, v, ids
    <3> QED
      BY <2>6, <3>1, <3>2 DEF Spoiled, Lost
  <2> HIDE DEF v, ids
  <2>8. Spoiled(refs, v, ids)
    <3>1. DOMAIN v = DOMAIN refs
      BY <1>6, <2>7 DEF Spoiled
    <3>2. ASSUME NEW id \in ids
          PROVE  v[id] = refs[id] \/ (refs[id].unseen /\ v[id] = [refs[id] EXCEPT !.ok = FALSE])
      BY <1>5, <1>6, <2>7 DEF Spoiled, Pointers
    <3> QED
      BY <3>1, <3>2 DEF Spoiled
  <2> QED
    BY <1>2, <1>3, <2>1, <2>5, <2>8 DEF ids
<1> QED
  BY <1>7, <1>8

\* The places within a reference's.
LEMMA WithinIs ==
  ASSUME NEW id, refs[id].place \in Paths, refs[id].place # <<>>, NEW t, NEW place \in Within(id, t)
  PROVE  /\ place \in Paths /\ IsPrefix(refs[id].place, place)
         /\ place[1] = refs[id].place[1]
<1> DEFINE below(x) == {x} \cup (IF IsStruct(TypeAt(x)) THEN {Append(x, Field(f)) : f \in DOMAIN Fields[TypeAt(x)]} ELSE {})
<1>1. ASSUME NEW x \in Paths, NEW y \in below(x)
      PROVE  y \in Paths /\ IsPrefix(x, y)
  <2>1. CASE y = x
    <3>1. x \in Seq(Element)
      BY DEF Paths
    <3> QED
      BY <2>1, <3>1, PrefixOrder
  <2>2. CASE y # x
    <3>1. /\ IsStruct(TypeAt(x)) /\ y \in {Append(x, Field(f)) : f \in DOMAIN Fields[TypeAt(x)]}
      BY <1>1, <2>2
    <3>2. PICK f \in DOMAIN Fields[TypeAt(x)] : y = Append(x, Field(f))
      BY <3>1
    <3>3. f \in FieldNames
      BY <3>1 DEF IsStruct, FieldNames
    <3>4. Field(f) \in Element
      BY <3>3 DEF Field, Element
    <3>5. y = x \o <<Field(f)>> /\ y \in Paths
      BY <3>2, <3>4, AppendIs
    <3>6. x \in Seq(Element) /\ <<Field(f)>> \in Seq(Element)
      BY <3>4 DEF Paths
    <3>7. IsPrefix(x, x \o <<Field(f)>>)
      BY <3>6, PrefixOfConcatenation
    <3> QED
      BY <3>5, <3>7
  <2> QED
    BY <2>1, <2>2
<1>2. place \in UNION {below(q) : q \in below(refs[id].place)}
  BY DEF Within
<1> DEFINE a == refs[id].place
<1> HIDE DEF below
<1>3. PICK q \in below(a) : place \in below(q)
  BY <1>2
<1> HIDE DEF a
<1>4. a \in Paths /\ a # <<>>
  BY DEF a
<1>5. q \in Paths /\ IsPrefix(a, q)
  BY <1>1, <1>3, <1>4
<1>6. place \in Paths /\ IsPrefix(q, place)
  BY <1>1, <1>3, <1>5
<1>7. a \in Seq(Element) /\ q \in Seq(Element) /\ place \in Seq(Element)
  BY <1>4, <1>5, <1>6 DEF Paths
<1>8. IsPrefix(a, place)
  BY <1>5, <1>6, <1>7, PrefixTrans, Zenon
<1>9. place[1] = a[1]
  BY <1>4, <1>7, <1>8, FirstOfPrefix
<1> QED
  BY <1>6, <1>8, <1>9 DEF a

\* With the reference that is returned, before the arguments' are released.
LEMMA CallBorrows ==
  ASSUME SoundNow, NEW g, Passes(g), call(g), NEW type \in Types, is_reference(type),
         NEW from \in Lenders(g, type), NEW t, NEW place \in Within(from, t),
         NEW ptr, ptr = [refs[from] EXCEPT !.place = place]
  PROVE  Sound(fn, return_ref(state, type, g), Append(stack, Typed(type, state.next_id)),
               With(refs, state.next_id, ptr))
<1> DEFINE l == state.locls
           n == state.next_id
           h == state.graph
           lenders == Lenders(g, type)
           ops == Append(stack, Typed(type, n))
           r == With(refs, n, ptr)
           g2 == add_weak_edge(add(h, n), lenders, <<>>, n)
           M == Muts(l, stack)
           I == Imms(l, stack)
           L == Live(l)
           p == PlacesOf(refs)
           q == PlacesOf(r)
           M2 == Muts(l, ops)
           I2 == Imms(l, ops)
<1>1. Sound(fn, state, stack, refs)
  BY SoundSays
<1>2. Fits(fn, M, I, L, h, refs) /\ Pointed(M, I, L, h, refs)
  BY <1>1, SoundFits
<1>3. /\ lenders \subseteq M \cup I /\ (type.ref = "mut" => lenders \subseteq M)
      /\ \A a \in lenders \cap M : h[a] = {}
  <2> DEFINE A == ArgRefs(g, {"mut"})
             B == ArgRefs(g, {"imm"})
  <2>1. A \subseteq M /\ B \subseteq I /\ ArgRefs(g, {"imm", "mut"}) = B \cup A
    BY ArgRefsAre DEF Splits
  <2>2. \A a \in A : h[a] = {}
    BY CalleeSpoils
  <2>3. M \cap I = {}
    BY <1>2 DEF Pointed
  <2>4. lenders = IF type.ref = "mut" THEN A ELSE ArgRefs(g, {"imm", "mut"})
    BY DEF Lenders
  <2> HIDE DEF A, B, M, I, lenders
  <2> QED
    BY <2>1, <2>2, <2>3, <2>4
<1>4. from \in M \cup I /\ from \in lenders /\ (type.ref = "mut" => from \in M)
  BY <1>3
<1>5. /\ refs[from].place \in Paths /\ refs[from].place # <<>> /\ refs[from] \in Pointers
      /\ p[from] = refs[from].place
      /\ (from \in Good(refs) <=> refs[from].ok) /\ (from \in UnseenIn(refs) <=> refs[from].unseen)
  BY <1>2, <1>4 DEF Pointed
<1>6. place \in Paths /\ IsPrefix(refs[from].place, place) /\ place[1] = refs[from].place[1]
  BY <1>5, WithinIs
<1>7. /\ ptr \in Pointers /\ ptr.place = place /\ ptr.ok = refs[from].ok /\ ptr.unseen = refs[from].unseen
  BY <1>5, <1>6 DEF Pointers
<1>8. type.ref = "mut" => (ptr.place[1][1] = "arg" => fn.locals[ptr.place[1][2]].ref = "mut")
  BY <1>2, <1>4, <1>6, <1>7 DEF Fits
<1>9. PushesNew(stack, n, type, ops)
  BY DEF PushesNew
<1>10. NewOne(l, h, n, stack, refs, type, ptr, ops, r)
  BY <1>1, <1>7, <1>9, NewSays
<1> HIDE DEF ops, r, lenders
<1>11. /\ Borrows(M, I, L, h, p, Good(refs), UnseenIn(refs))
       /\ n \in Nat \ DOMAIN h /\ OneMore(M, I, n, M2, I2) /\ PointerAdded(M, I, h, refs, n, r, ptr)
       /\ n \in M2 <=> type.ref = "mut"
  BY <1>10 DEF NewOne
<1>12. return_ref(state, type, g) = [locls |-> l, graph |-> g2, next_id |-> n + 1]
  BY <1>1, BorrowIs DEF return_ref, lenders
<1> HIDE DEF M, I, L, M2, I2, l, h, n, p
<1>13. BorrowsFromLenders(M, I, h, p, Good(refs), UnseenIn(refs), lenders, from, n, M2, I2, g2, q, Good(r), UnseenIn(r))
  <2>1. /\ q[n] = ptr.place /\ \A m \in DOMAIN h : q[m] = p[m]
        /\ SameMarks(M \cup I, Good(refs), UnseenIn(refs), Good(r), UnseenIn(r))
        /\ (n \in Good(r) <=> ptr.ok) /\ (n \in UnseenIn(r) <=> ptr.unseen)
    BY <1>11 DEF PointerAdded, p
  <2> HIDE DEF q
  <2>2. (n \in Good(r) <=> from \in Good(refs)) /\ (n \in UnseenIn(r) <=> from \in UnseenIn(refs))
    BY <1>5, <1>7, <2>1
  <2>3. q[n] \in Paths /\ IsPrefix(p[from], q[n])
    BY <1>5, <1>6, <1>7, <2>1
  <2>4. n \in M2 => from \in M
    BY <1>4, <1>11
  <2> QED
    BY <1>3, <1>4, <1>11, <2>1, <2>2, <2>3, <2>4 DEF BorrowsFromLenders
<1>14. Borrows(M2, I2, L, g2, q, Good(r), UnseenIn(r))
  BY <1>11, <1>13, BorrowsReturned
<1> HIDE DEF g2, q
<1>15. NewOnTop(fn, l, h, n, stack, refs, type, ptr, ops, r, g2)
  BY <1>7, <1>8, <1>14 DEF NewOnTop, M2, I2, L, q, ops, r
<1>16. Sound(fn, [locls |-> l, graph |-> g2, next_id |-> n + 1], ops, r)
  BY <1>1, <1>15, SoundNew DEF l, h, n
<1> QED
  BY <1>12, <1>16 DEF ops, r, n

\* The state without the references that are passed.
DropArgs(s, g) == [s EXCEPT !.graph = remove_each(@, ArgRefs(g, {"imm", "mut"}))]

\* A state in which the reference n is on top of the arguments.
Lends(g, type, n, ops2, t, r2, ops3) ==
  /\ PushesNew(stack, n, type, ops2) /\ n = state.next_id
  /\ Sound(fn, t, ops2, r2) /\ t.locls = state.locls /\ t.next_id = n + 1
  /\ ops3 = Append(Under(g.args), Typed(type, n))

Lent(g, n, t, r2, ops3) ==
  /\ Sound(fn, DropArgs(t, g), ops3, r2)
  /\ DropArgs(t, g).locls = state.locls
  /\ Refs(state.locls, ops3) \subseteq Refs(state.locls, stack) \cup {n}
  /\ n \notin Refs(state.locls, stack)

\* The arguments are released under the reference that is returned.
LEMMA DroppedUnder ==
  ASSUME SoundNow, NEW g, Passes(g),
         NEW type, NEW n, NEW ops2, NEW t, NEW r2, NEW ops3, Lends(g, type, n, ops2, t, r2, ops3)
  PROVE  Lent(g, n, t, r2, ops3)
<1>0. /\ PushesNew(stack, n, type, ops2) /\ n = state.next_id
      /\ Sound(fn, t, ops2, r2) /\ t.locls = state.locls /\ t.next_id = n + 1
      /\ ops3 = Append(Under(g.args), Typed(type, n))
  BY DEF Lends
<1> DEFINE l == state.locls
           u == Under(g.args)
           A == ArgRefs(g, {"mut"})
           B == ArgRefs(g, {"imm"})
           ids == ArgRefs(g, {"imm", "mut"})
           M == Muts(l, stack)
           I == Imms(l, stack)
           M2 == Muts(l, ops2)
           I2 == Imms(l, ops2)
           M3 == Muts(l, ops3)
           I3 == Imms(l, ops3)
           Mu == Muts(l, u)
           Iu == Imms(l, u)
           g2 == remove_each(t.graph, ids)
           t2 == [t EXCEPT !.graph = g2]
<1>1. Slotted(fn, l, stack, n) /\ M \cap I = {}
  BY <1>0, SoundSays, SoundFits DEF Pointed
<1>2. Slotted(fn, l, ops2, n + 1) /\ Fits(fn, M2, I2, Live(l), t.graph, r2)
  <2>1. Slotted(fn, t.locls, ops2, t.next_id) /\ Fits(fn, Muts(t.locls, ops2), Imms(t.locls, ops2), Live(t.locls), t.graph, r2)
    BY <1>0, SoundFits
  <2> QED
    BY <1>0, <2>1
<1>3. t = [locls |-> l, graph |-> t.graph, next_id |-> n + 1]
  BY <1>0 DEF Sound
<1>4. Splits(fn, l, stack, n, l, u, A, B) /\ ids = B \cup A
  BY <1>0, ArgRefsAre
<1>20. n = state.next_id
  BY <1>0
<1> HIDE DEF l, g2
<1>5. t2 = [locls |-> l, graph |-> g2, next_id |-> n + 1]
  BY <1>3
<1>6. PushesNew(stack, n, type, ops2) /\ PushesNew(u, n, type, ops3)
  BY <1>0 DEF PushesNew
<1> HIDE DEF u, ids, A, B, t2
<1>7. /\ Slotted(fn, l, u, n) /\ M = Mu \cup A /\ I = Iu \cup B
      /\ (A \cup B) \cap (Mu \cup Iu) = {}
  BY <1>4 DEF Splits, Refs
<1>8. NewPushed(fn, l, stack, n, type, ops2) /\ NewPushed(fn, l, u, n, type, ops3)
  BY <1>1, <1>6, <1>7, PushedNew
<1>9. /\ type.ref = "mut" => M2 = M \cup {n} /\ I2 = I /\ M3 = Mu \cup {n} /\ I3 = Iu
      /\ type.ref # "mut" => I2 = I \cup {n} /\ M2 = M /\ I3 = Iu \cup {n} /\ M3 = Mu
      /\ n \notin M \cup I /\ Slotted(fn, l, ops3, n + 1)
  BY <1>8 DEF NewPushed
<1> HIDE DEF M, I, M2, I2, M3, I3, Mu, Iu
<1>10. M3 = M2 \ ids /\ I3 = I2 \ ids /\ ids \subseteq M2 \cup I2
  <2>1. ids \subseteq M \cup I /\ Mu = M \ ids /\ Iu = I \ ids /\ n \notin ids
    BY <1>1, <1>4, <1>7, <1>9
  <2> QED
    BY <1>9, <2>1
<1>11. Fits(fn, M2 \ ids, I2 \ ids, Live(l), remove_each(t.graph, ids), r2)
  BY <1>2, <1>10, FitsDropped
<1>12. Fits(fn, M3, I3, Live(l), g2, r2)
  BY <1>10, <1>11 DEF g2
<1>13. Sound(fn, t2, ops3, r2)
  BY <1>5, <1>9, <1>12 DEF Sound, M3, I3
<1>14. M3 \cup I3 \subseteq M \cup I \cup {n} /\ n \notin M \cup I
  BY <1>7, <1>9
<1>15. t2.locls = l
  BY <1>5
<1> QED
  BY <1>13, <1>14, <1>15 DEF t2, g2, ids, Refs, M3, I3, M, I, l, Lent, DropArgs

LEMMA SpoiledWith ==
  ASSUME NEW r, NEW r1, NEW R, R \subseteq DOMAIN r, Spoiled(r, r1, R), NEW n, n \notin R, NEW ptr,
         NEW R2, R2 \subseteq R \cup {n}
  PROVE  Spoiled(With(r, n, ptr), With(r1, n, ptr), R2)
<1> QED
  BY DEF Spoiled, With

LEMMA callSound ==
  ASSUME SoundNow, NEW g, IsFunction(g), call(g)
  PROVE  SoundNow'
<1> DEFINE n == state.next_id
           u == Under(g.args)
           type == g.returns[1]
<1>1. Passes(g)
  BY DEF call, Passes
<1>2. /\ Sound(fn, state, stack, refs)
      /\ Sound(fn, state, stack, CalleeDoes(g))
      /\ Spoiled(refs, CalleeDoes(g), Refs(state.locls, stack))
  BY <1>1, CalleeSpoils, SoundSays
<1>3. Sound(fn, DropArgs(state, g), u, CalleeDoes(g))
  BY <1>1, <1>2, Dropped DEF DropArgs
<1>4. CASE g.returns = <<>>
  <2>1. Step(DropArgs(state, g), u, CalleeDoes(g))
    BY <1>4 DEF call, DropArgs
  <2> HIDE DEF u
  <2> QED
    BY <1>3, <2>1, StepSound
<1>5. g.returns # <<>> => type \in Types
  BY DEF IsFunction
<1>6. CASE g.returns # <<>> /\ ~is_reference(type)
  <2>1. Step(DropArgs(state, g), Append(u, Typed(type, NoId)), CalleeDoes(g))
    BY <1>6 DEF call, DropArgs
  <2>2. Typed(type, NoId) \in Avs /\ ~is_reference(Typed(type, NoId).type)
    BY <1>5, <1>6 DEF Avs, Typed, is_reference
  <2> HIDE DEF u, type
  <2>3. Sound(fn, DropArgs(state, g), Append(u, Typed(type, NoId)), CalleeDoes(g))
    BY <1>3, <2>2, PushedValue
  <2> QED
    BY <2>1, <2>3, StepSound
<1>7. CASE g.returns # <<>> /\ is_reference(type)
  <2> DEFINE t == return_ref(state, type, g)
             ops2 == Append(stack, Typed(type, n))
             ops3 == Append(u, Typed(type, n))
  <2>1. PICK ptr \in Returned(g) : Step(DropArgs(t, g), ops3, With(CalleeDoes(g), n, ptr))
    BY <1>7 DEF call, DropArgs
  <2>2. PICK from \in Lenders(g, type) :
          \E place \in Within(from, type.of) : ptr = [refs[from] EXCEPT !.place = place]
    BY <2>1 DEF Returned
  <2>10. PICK place \in Within(from, type.of) : ptr = [refs[from] EXCEPT !.place = place]
    BY <2>2
  <2> DEFINE r2 == With(refs, n, ptr)
             r3 == With(CalleeDoes(g), n, ptr)
  <2>3. Sound(fn, t, ops2, r2)
    BY <1>1, <1>5, <1>7, <2>10, CallBorrows
  <2>4. PushesNew(stack, n, type, ops2)
    BY <1>5, <1>7 DEF PushesNew
  <2>5. t.locls = state.locls /\ t.next_id = n + 1
    BY <1>2, BorrowIs DEF return_ref
  <2> HIDE DEF t, ops2, r2, type
  <2>6. Lent(g, n, t, r2, ops3)
    <3>1. Lends(g, type, n, ops2, t, r2, ops3)
      BY <2>3, <2>4, <2>5 DEF Lends, ops3, u, n
    <3> HIDE DEF n, u, ops3, r2
    <3> QED
      BY <1>1, <3>1, DroppedUnder
  <2> HIDE DEF ops3
  <2>8. Spoiled(r2, r3, Refs(state.locls, ops3))
    <3> DEFINE r1 == CalleeDoes(g)
               R == Refs(state.locls, stack)
    <3>1. R \subseteq DOMAIN refs
      <4>1. Fits(fn, Muts(state.locls, stack), Imms(state.locls, stack), Live(state.locls), state.graph, refs)
        BY <1>2, SoundFits
      <4> QED
        BY <4>1 DEF Fits, Refs
    <3>2. Spoiled(refs, r1, R)
      BY <1>2
    <3>3. n \notin R /\ Refs(state.locls, ops3) \subseteq R \cup {n}
      BY <2>6 DEF Lent
    <3> HIDE DEF r1, R, n
    <3>4. r2 = With(refs, n, ptr) /\ r3 = With(r1, n, ptr)
      BY DEF r1, r3, r2
    <3> QED
      BY <3>1, <3>2, <3>3, <3>4, SpoiledWith
  <2>9. Sound(fn, DropArgs(t, g), ops3, r3)
    BY <2>6, <2>8, SoundSpoiled DEF Lent
  <2> QED
    BY <2>1, <2>9, StepSound DEF r3, t
<1> QED
  BY <1>4, <1>6, <1>7

----------------------------------------------------------------------------
(* Returning *)

HeldIds == {state.locls[i].id : i \in {j \in DOMAIN state.locls : is_reference(state.locls[j].type)}}

\* What is left of the graph when the references in locals are released.
LeftGraph == remove_each(state.graph, HeldIds)

\* The operands' references are left.
LEMMA RetLeaves ==
  ASSUME SoundNow, NEW M, M = Muts(state.locls, stack) \ HeldIds, NEW I, I = Imms(state.locls, stack) \ HeldIds
  PROVE  /\ Fits(fn, M, I, Live(state.locls), LeftGraph, refs)
         /\ \A k \in DOMAIN stack :
              /\ stack[k] \in Avs
              /\ stack[k].type.ref = "mut" => stack[k].id \in M
              /\ stack[k].type.ref = "imm" => stack[k].id \in I
         /\ \A j, k \in DOMAIN stack :
              is_reference(stack[j].type) /\ is_reference(stack[k].type) /\ j # k => stack[j].id # stack[k].id
<1> DEFINE l == state.locls
           M1 == Muts(l, stack)
           I1 == Imms(l, stack)
<1>1. Slotted(fn, l, stack, state.next_id) /\ Fits(fn, M1, I1, Live(l), state.graph, refs)
  BY SoundSays, SoundFits
<1>2. HeldIds \subseteq M1 \cup I1
  <2>1. SUFFICES ASSUME NEW i \in DOMAIN l, is_reference(l[i].type)
                 PROVE  l[i].id \in M1 \cup I1
    BY DEF HeldIds
  <2>2. l[i] \in Avs
    BY <1>1 DEF Slotted
  <2>3. l[i].id \in RefOf(l[i])
    BY <2>1, <2>2, RefOfIs
  <2> QED
    BY <2>3, RefsAre DEF Refs
<1>3. Fits(fn, M1 \ HeldIds, I1 \ HeldIds, Live(l), LeftGraph, refs)
  <2> HIDE DEF M1, I1, l
  <2> QED
    BY <1>1, <1>2, FitsDropped DEF LeftGraph
<1>4. ASSUME NEW k \in DOMAIN stack
      PROVE  /\ stack[k] \in Avs
             /\ is_reference(stack[k].type) => RefOf(stack[k]) = {stack[k].id} /\ stack[k].id \notin HeldIds
  <2>1. stack[k] \in Avs
    BY <1>1 DEF Slotted
  <2>2. ASSUME is_reference(stack[k].type), stack[k].id \in HeldIds
        PROVE  FALSE
    <3>1. PICK i \in DOMAIN l : is_reference(l[i].type) /\ l[i].id = stack[k].id
      BY <2>2 DEF HeldIds
    <3>2. l[i] \in Avs /\ RefOf(l[i]) \cap RefOf(stack[k]) = {}
      BY <1>1 DEF Slotted
    <3>3. RefOf(l[i]) = {l[i].id} /\ RefOf(stack[k]) = {stack[k].id}
      BY <2>1, <2>2, <3>1, <3>2, RefOfIs
    <3> QED
      BY <3>1, <3>2, <3>3
  <2> QED
    BY <2>1, <2>2, RefOfIs
<1>5. ASSUME NEW k \in DOMAIN stack
      PROVE  /\ stack[k].type.ref = "mut" => stack[k].id \in M
             /\ stack[k].type.ref = "imm" => stack[k].id \in I
  <2>1. /\ stack[k].type.ref = "mut" => stack[k].id \in M1
        /\ stack[k].type.ref = "imm" => stack[k].id \in I1
    BY RefsAre DEF MutOf, ImmOf
  <2>2. stack[k].type.ref \in {"mut", "imm"} => is_reference(stack[k].type)
    BY DEF is_reference
  <2> HIDE DEF M1, I1, l
  <2> QED
    BY <1>4, <2>1, <2>2 DEF M1, I1, l
<1>6. ASSUME NEW j \in DOMAIN stack, NEW k \in DOMAIN stack,
             is_reference(stack[j].type), is_reference(stack[k].type), j # k
      PROVE  stack[j].id # stack[k].id
  <2>1. RefOf(stack[j]) \cap RefOf(stack[k]) = {}
    BY <1>1, <1>6 DEF Slotted
  <2> QED
    BY <1>4, <1>6, <2>1
<1> QED
  BY <1>3, <1>4, <1>5, <1>6

\* What ret asks for, in terms of the graph that is left.
LEMMA RetIs ==
  ASSUME SoundNow, ret
  PROVE  /\ LeftGraph[frame_root] = {}
         /\ \A k \in DOMAIN stack : stack[k].type.ref = "mut" => LeftGraph[stack[k].id] = {}
         /\ refs' = Restrict(refs, {stack[k].id : k \in DOMAIN stack} \ {NoId})
         /\ fn' = fn /\ stack' = stack /\ status' = "returned"
<1> DEFINE held == {i \in DOMAIN state.locls : is_reference(state.locls[i].type)}
           s == [state EXCEPT !.graph = remove_each(@, {state.locls[i].id : i \in held}),
                              !.locls = Restrict(@, DOMAIN @ \ held)]
<1>1. /\ ~is_borrowed(s, frame_root)
      /\ \A k \in DOMAIN stack : stack[k].type.ref = "mut" => ~is_borrowed(s, stack[k].id)
      /\ refs' = Restrict(refs, {stack[k].id : k \in DOMAIN stack} \ {NoId})
      /\ fn' = fn /\ stack' = stack /\ status' = "returned"
  BY DEF ret
<1>2. s.graph = LeftGraph
  <2>1. state = [locls |-> state.locls, graph |-> state.graph, next_id |-> state.next_id]
    BY SoundSays DEF Sound
  <2> DEFINE a == Restrict(state.locls, DOMAIN state.locls \ held)
  <2>2. s = [state EXCEPT !.graph = LeftGraph, !.locls = a]
    BY DEF HeldIds, LeftGraph
  <2> HIDE DEF a, s, held
  <2>3. s = [locls |-> a, graph |-> LeftGraph, next_id |-> state.next_id]
    BY <2>1, <2>2
  <2> QED
    BY <2>3
<1> HIDE DEF s, held
<1>3. \A id : LeftGraph[id] # {} => is_borrowed(s, id)
  BY <1>2 DEF is_borrowed, all_borrows
<1> QED
  BY <1>1, <1>3

LEMMA retSound ==
  ASSUME SoundNow, ret
  PROVE  RefersToItsPlace' /\ ReturnsWhatItMay'
<1> DEFINE M == Muts(state.locls, stack) \ HeldIds
           I == Imms(state.locls, stack) \ HeldIds
           L == Live(state.locls)
           g == LeftGraph
           p == PlacesOf(refs)
           U == UnseenIn(refs)
           K == Good(refs)
<1>1. /\ Fits(fn, M, I, L, g, refs)
      /\ \A k \in DOMAIN stack :
              /\ stack[k] \in Avs
              /\ stack[k].type.ref = "mut" => stack[k].id \in M
              /\ stack[k].type.ref = "imm" => stack[k].id \in I
      /\ \A j, k \in DOMAIN stack :
              is_reference(stack[j].type) /\ is_reference(stack[k].type) /\ j # k => stack[j].id # stack[k].id
  BY RetLeaves, Zenon
<1>2. /\ g[frame_root] = {}
      /\ \A k \in DOMAIN stack : stack[k].type.ref = "mut" => g[stack[k].id] = {}
      /\ refs' = Restrict(refs, {stack[k].id : k \in DOMAIN stack} \ {NoId})
      /\ fn' = fn /\ stack' = stack /\ status' = "returned"
  BY RetIs
<1> HIDE DEF M, I, L, g, p, U, K
<1>3. Pointed(M, I, L, g, refs) /\ Borrows(M, I, L, g, p, K, U)
  <2>1. Pointed(M, I, L, g, refs)
    BY <1>1, FitsSays
  <2> QED
    BY <2>1 DEF Pointed, p, U, K
<1>4. /\ DOMAIN g = {frame_root} \cup M \cup I /\ frame_root \notin M \cup I
      /\ Graph(g) /\ Placed(DOMAIN g, p)
      /\ \A id \in M \cup I : p[id] = refs[id].place /\ (id \in U <=> refs[id].unseen)
      /\ \A id \in M \cup I : ~refs[id].unseen => refs[id].ok
  BY <1>3 DEF Pointed, p, U
<1>5. \A k \in DOMAIN stack : is_reference(stack[k].type) => stack[k].id \in M \cup I /\ stack[k].type.ref \in {"mut", "imm"}
  BY <1>1, RefOfIs
<1>6. DOMAIN refs' \subseteq M \cup I /\ \A id \in DOMAIN refs' : refs'[id] = refs[id]
  <2>1. /\ DOMAIN refs' = {stack[k].id : k \in DOMAIN stack} \ {NoId}
        /\ \A id \in DOMAIN refs' : refs'[id] = refs[id]
    BY <1>2 DEF Restrict
  <2>2. \A k \in DOMAIN stack : stack[k].id # NoId => is_reference(stack[k].type)
    BY <1>1 DEF Avs
  <2> QED
    BY <1>5, <2>1, <2>2
<1>7. \A k \in DOMAIN stack : is_reference(stack[k].type) => refs'[stack[k].id] = refs[stack[k].id]
  <2>1. /\ DOMAIN refs' = {stack[k].id : k \in DOMAIN stack} \ {NoId}
    BY <1>2 DEF Restrict
  <2>2. \A k \in DOMAIN stack : is_reference(stack[k].type) => stack[k].id # NoId
    BY <1>1, RefOfIs DEF Avs
  <2> QED
    BY <1>6, <2>1, <2>2
<1>8. RefersToItsPlace'
  BY <1>4, <1>6 DEF RefersToItsPlace
\* What is not borrowed does not lead anywhere.
<1>9. ASSUME NEW a \in DOMAIN g, NEW b \in DOMAIN g, a # b, g[a] = {}
      PROVE  ~Leads(g, p, a, b)
  BY <1>4, <1>9, LeadsFirst
<1>10. ASSUME NEW j \in DOMAIN stack, is_reference(stack[j].type), ~refs[stack[j].id].unseen
       PROVE  /\ refs[stack[j].id].place[1][1] = "arg"
              /\ stack[j].type.ref = "mut" =>
                   /\ fn.locals[refs[stack[j].id].place[1][2]].ref = "mut"
                   /\ \A k \in {m \in DOMAIN stack : m # j /\ is_reference(stack[m].type)} :
                        refs[stack[k].id].unseen \/ ~Overlap(refs[stack[j].id].place, refs[stack[k].id].place)
  <2> DEFINE a == stack[j].id
  <2>1. a \in M \cup I /\ a \notin U /\ p[a] = refs[a].place
    BY <1>4, <1>5, <1>10
  <2>2. refs[a].place[1][1] = "arg"
    <3>1. Rooted(L, g, p, a)
      BY <1>3, <2>1 DEF Borrows
    <3>2. ~Leads(g, p, frame_root, a)
      BY <1>2, <1>4, <1>9, <2>1
    <3> QED
      BY <2>1, <3>1, <3>2 DEF Rooted
  <2>3. ASSUME stack[j].type.ref = "mut"
        PROVE  fn.locals[refs[a].place[1][2]].ref = "mut"
    <3>1. a \in M
      BY <1>1, <2>3
    <3> QED
      BY <1>1, <2>2, <3>1 DEF Fits
  <2>4. ASSUME stack[j].type.ref = "mut",
               NEW k \in {m \in DOMAIN stack : m # j /\ is_reference(stack[m].type)},
               ~refs[stack[k].id].unseen, Overlap(refs[a].place, refs[stack[k].id].place)
        PROVE  FALSE
    <3> DEFINE b == stack[k].id
    <3>1. a \in M \ U /\ b \in (M \cup I) \ U /\ a # b /\ p[b] = refs[b].place
      BY <1>1, <1>4, <1>5, <1>10, <2>1, <2>4
    <3>2. Known(M, g, p, a, b)
      BY <1>3, <2>1, <2>4, <3>1 DEF Borrows
    <3>3. ~Leads(g, p, a, b)
      BY <1>2, <1>4, <1>9, <2>4, <3>1
    <3>4. b \in M => stack[k].type.ref = "mut"
      <4>1. M \cap I = {}
        BY <1>3 DEF Borrows
      <4> QED
        BY <1>1, <1>5, <2>4, <4>1
    <3>5. b \in M => ~Leads(g, p, b, a)
      BY <1>2, <1>4, <1>9, <3>1, <3>4
    <3> QED
      BY <3>2, <3>3, <3>5 DEF Known
  <2> QED
    BY <2>2, <2>3, <2>4
<1>11. ReturnsWhatItMay'
  <2>1. ASSUME NEW j \in DOMAIN stack', is_reference(stack'[j].type), ~refs'[stack'[j].id].unseen
        PROVE  /\ refs'[stack'[j].id].place[1][1] = "arg"
               /\ stack'[j].type.ref = "mut" =>
                    /\ fn'.locals[refs'[stack'[j].id].place[1][2]].ref = "mut"
                    /\ \A k \in {m \in DOMAIN stack' : m # j /\ is_reference(stack'[m].type)} :
                         refs'[stack'[k].id].unseen \/ ~Overlap(refs'[stack'[j].id].place, refs'[stack'[k].id].place)
    <3>1. j \in DOMAIN stack /\ is_reference(stack[j].type) /\ ~refs[stack[j].id].unseen
      BY <1>2, <1>7, <2>1
    <3>2. /\ refs'[stack'[j].id] = refs[stack[j].id] /\ stack' = stack /\ fn' = fn
          /\ \A k \in {m \in DOMAIN stack : m # j /\ is_reference(stack[m].type)} :
               refs'[stack[k].id] = refs[stack[k].id]
      BY <1>2, <1>7, <3>1
    <3> QED
      BY <1>10, <3>1, <3>2
  <2> QED
    BY <2>1 DEF ReturnsWhatItMay
<1> QED
  BY <1>8, <1>11

----------------------------------------------------------------------------
(* Where a block begins *)

\* The slot of a local whose reference, if it is one, has the local's number.
Named(f, i) == Typed(f.locals[i], IF is_reference(f.locals[i]) THEN i ELSE NoId)

Canonically(f, s) ==
  /\ s = [locls |-> s.locls, graph |-> s.graph, next_id |-> Len(f.locals) + 1]
  /\ DOMAIN s.locls \subseteq Locals(f)
  /\ \A i \in DOMAIN s.locls : s.locls[i] = Named(f, i)

LEMMA NamedIs ==
  ASSUME NEW f, IsFunction(f), NEW i \in Locals(f)
  PROVE  /\ i \in Nat /\ i # frame_root /\ i < Len(f.locals) + 1 /\ f.locals[i] \in Types
         /\ Named(f, i) \in Avs /\ Named(f, i).type = f.locals[i]
         /\ MutOf(Named(f, i)) = IF f.locals[i].ref = "mut" THEN {i} ELSE {}
         /\ ImmOf(Named(f, i)) = IF f.locals[i].ref = "imm" THEN {i} ELSE {}
         /\ RefOf(Named(f, i)) = IF is_reference(f.locals[i]) THEN {i} ELSE {}
<1>1. i \in Nat /\ i # frame_root /\ i < Len(f.locals) + 1 /\ f.locals[i] \in Types
  <2>1. f.locals \in Seq(Types)
    BY DEF IsFunction
  <2> QED
    BY <2>1 DEF Locals, frame_root
<1> DEFINE t == f.locals[i]
<1>2. t.ref \in {"value", "imm", "mut"}
  BY <1>1 DEF Types
<1>3. Named(f, i) = [type |-> t, id |-> IF is_reference(t) THEN i ELSE NoId]
  BY DEF Named, Typed
<1> HIDE DEF t
<1>4. Named(f, i) \in Avs
  BY <1>1, <1>3 DEF Avs, NoId, frame_root, t
<1> DEFINE av == Named(f, i)
<1>5. av.type = t /\ av.id = (IF is_reference(t) THEN i ELSE NoId)
  BY <1>3
<1> HIDE DEF av
<1>6. MutOf(av) = IF t.ref = "mut" THEN {i} ELSE {}
  BY <1>5 DEF MutOf, is_reference
<1>7. ImmOf(av) = IF t.ref = "imm" THEN {i} ELSE {}
  BY <1>5 DEF ImmOf, is_reference
<1>8. RefOf(av) = IF is_reference(t) THEN {i} ELSE {}
  BY <1>2, <1>6, <1>7 DEF RefOf, is_reference
<1> QED
  BY <1>1, <1>4, <1>5, <1>6, <1>7, <1>8 DEF t, av

\* The references of slots that are named so.
NamedSlots(f, l) ==
  /\ Slotted(f, l, <<>>, Len(f.locals) + 1)
  /\ Muts(l, <<>>) = {i \in DOMAIN l : f.locals[i].ref = "mut"}
  /\ Imms(l, <<>>) = {i \in DOMAIN l : f.locals[i].ref = "imm"}
  /\ Refs(l, <<>>) = {i \in DOMAIN l : is_reference(f.locals[i])}
  /\ Live(l) = {i \in DOMAIN l : ~is_reference(f.locals[i])}

LEMMA SlotsNamed ==
  ASSUME NEW f, IsFunction(f), NEW l, DOMAIN l \subseteq Locals(f),
         \A i \in DOMAIN l : l[i] = Named(f, i)
  PROVE  NamedSlots(f, l)
<1>1. \A i \in DOMAIN l :
        /\ i \in Nat /\ i # frame_root /\ i < Len(f.locals) + 1
        /\ l[i] \in Avs /\ l[i].type = f.locals[i]
        /\ MutOf(l[i]) = IF f.locals[i].ref = "mut" THEN {i} ELSE {}
        /\ ImmOf(l[i]) = IF f.locals[i].ref = "imm" THEN {i} ELSE {}
        /\ RefOf(l[i]) = IF is_reference(f.locals[i]) THEN {i} ELSE {}
  BY NamedIs
<1>2. Muts(l, <<>>) = {i \in DOMAIN l : f.locals[i].ref = "mut"}
  BY <1>1 DEF Muts
<1>3. Imms(l, <<>>) = {i \in DOMAIN l : f.locals[i].ref = "imm"}
  BY <1>1 DEF Imms
<1>4. Refs(l, <<>>) = {i \in DOMAIN l : is_reference(f.locals[i])}
  <2>1. ASSUME NEW x
        PROVE  x \in Refs(l, <<>>) <=> x \in {i \in DOMAIN l : is_reference(f.locals[i])}
    <3>1. DOMAIN (<<>>) = {}
      OBVIOUS
    <3>2. x \in Refs(l, <<>>) <=> \E i \in DOMAIN l : x \in RefOf(l[i])
      BY <3>1, RefsAre
    <3> QED
      BY <1>1, <3>2
  <2> QED
    BY <2>1
<1>5. Live(l) = {i \in DOMAIN l : ~is_reference(f.locals[i])}
  BY <1>1 DEF Live
<1>6. Slotted(f, l, <<>>, Len(f.locals) + 1)
  <2>1. Len(f.locals) + 1 \in Nat \ {0}
    <3>1. f.locals \in Seq(Types)
      BY DEF IsFunction
    <3> QED
      BY <3>1
  <2>2. \A i, j \in DOMAIN l : i # j => RefOf(l[i]) \cap RefOf(l[j]) = {}
    BY <1>1
  <2>3. \A id \in Refs(l, <<>>) : id < Len(f.locals) + 1
    BY <1>1, <1>4
  <2>4. <<>> \in Seq(Avs) /\ DOMAIN (<<>>) = {}
    OBVIOUS
  <2> QED
    BY <1>1, <2>1, <2>2, <2>3, <2>4 DEF Slotted
<1> QED
  BY <1>2, <1>3, <1>4, <1>5, <1>6 DEF NamedSlots

\* A graph without edges.
LEMMA GraphEmpty ==
  ASSUME NEW g, IsFiniteSet(DOMAIN g), DOMAIN g \subseteq Nat, frame_root \in DOMAIN g,
         \A n \in DOMAIN g : g[n] = {}
  PROVE  Graph(g)
<1>1. \A n \in DOMAIN g : all_borrows(g, n) = {}
  BY DEF all_borrows
<1>2. Closed(g)
  BY <1>1 DEF Closed
<1>3. acyclic(g)
  <2>1. SUFFICES ASSUME NEW id \in DOMAIN g PROVE id \notin BorrowedFrom(g, id)
    BY DEF acyclic
  <2>2. BorrowedFrom(g, id) \subseteq {}
    BY <1>1, <1>2, BorrowedFromLeast
  <2> QED
    BY <2>2
<1> QED
  BY <1>2, <1>3 DEF Graph

ArgRefsOf(f) == {a \in 1..f.args : is_reference(f.locals[a])}
ArgPointers(f) == [i \in ArgRefsOf(f) |-> Pointer(<<Arg(i)>>, FALSE)]

LEMMA NewStateSound ==
  ASSUME IsFunction(fn)
  PROVE  /\ Sound(fn, NewState(fn), <<>>, ArgPointers(fn))
         /\ Canonically(fn, NewState(fn))
         /\ DOMAIN ArgPointers(fn) = Refs(NewState(fn).locls, <<>>)
<1> DEFINE l == [i \in 1..fn.args |-> Typed(fn.locals[i], IF is_reference(fn.locals[i]) THEN i ELSE NoId)]
           g == [i \in {frame_root} \cup ArgRefsOf(fn) |-> {}]
           r == ArgPointers(fn)
           M == Muts(l, <<>>)
           I == Imms(l, <<>>)
           L == Live(l)
           p == PlacesOf(r)
           n == Len(fn.locals) + 1
<1>1. NewState(fn) = [locls |-> l, graph |-> g, next_id |-> n]
  BY DEF NewState, ArgRefsOf
<1>2. 1..fn.args \subseteq Locals(fn)
  <2>1. fn.args \in Nat /\ fn.args <= Len(fn.locals) /\ fn.locals \in Seq(Types)
    BY DEF IsFunction
  <2> QED
    BY <2>1 DEF Locals
<1>3. DOMAIN l = 1..fn.args /\ \A i \in DOMAIN l : l[i] = Named(fn, i)
  BY DEF Named
<1> HIDE DEF l, g
<1>4. NamedSlots(fn, l)
  BY <1>2, <1>3, SlotsNamed
<1>5. Refs(l, <<>>) = ArgRefsOf(fn) /\ M \cup I = ArgRefsOf(fn)
  BY <1>3, <1>4 DEF NamedSlots, ArgRefsOf, Refs
<1>6. \A i \in ArgRefsOf(fn) : i \in Nat /\ i # frame_root /\ i \in 1..fn.args /\ i \in Locals(fn)
  BY <1>2, NamedIs DEF ArgRefsOf
<1>7. \A i \in ArgRefsOf(fn) : /\ r[i] \in Pointers /\ r[i].place = <<Arg(i)>> /\ r[i].ok /\ ~r[i].unseen
                               /\ r[i].place[1] = Arg(i)
  <2>1. SUFFICES ASSUME NEW i \in ArgRefsOf(fn)
                 PROVE  /\ r[i] \in Pointers /\ r[i].place = <<Arg(i)>> /\ r[i].ok /\ ~r[i].unseen
                        /\ r[i].place[1] = Arg(i)
    OBVIOUS
  <2>2. Arg(i) \in Element
    BY <1>6 DEF Arg, Element
  <2> DEFINE x == Arg(i)
  <2>3. r[i] = [place |-> <<x>>, ok |-> TRUE, unseen |-> FALSE]
    BY DEF ArgPointers, Pointer
  <2> HIDE DEF x, r
  <2>4. <<x>> \in Paths /\ <<x>>[1] = x
    BY <2>2 DEF Paths, x
  <2> QED
    BY <2>3, <2>4 DEF Pointers, x
<1>8. DOMAIN r = ArgRefsOf(fn)
  BY DEF ArgPointers
<1>9. Graph(g) /\ DOMAIN g = {frame_root} \cup M \cup I
  <2>1. DOMAIN g = {frame_root} \cup ArgRefsOf(fn) /\ \A i \in DOMAIN g : g[i] = {}
    BY DEF g
  <2>2. IsFiniteSet(DOMAIN g)
    <3>1. IsFiniteSet(1..fn.args)
      BY FS_Interval DEF IsFunction
    <3>2. IsFiniteSet(ArgRefsOf(fn))
      BY <3>1, FS_Subset DEF ArgRefsOf
    <3>3. IsFiniteSet({frame_root})
      BY FS_Singleton
    <3> QED
      BY <2>1, <3>2, <3>3, FS_Union
  <2>3. DOMAIN g \subseteq Nat
    BY <1>6, <2>1 DEF frame_root
  <2> QED
    BY <1>5, <2>1, <2>2, <2>3, GraphEmpty
<1> HIDE DEF r, M, I, p, L
<1>10. /\ p[frame_root] = <<>> /\ \A i \in ArgRefsOf(fn) : p[i] = r[i].place
       /\ \A i \in ArgRefsOf(fn) : i \in Good(r) /\ i \notin UnseenIn(r)
  BY <1>6, <1>7, <1>8, PlacesAre DEF p
<1>11. Borrows(M, I, L, g, p, Good(r), UnseenIn(r))
  <2>1. M \cap I = {} /\ frame_root \notin M \cup I
    BY <1>4, <1>5, <1>6 DEF NamedSlots, M, I
  <2>2. Placed(DOMAIN g, p)
    <3>1. ASSUME NEW i \in ArgRefsOf(fn) PROVE p[i] \in Paths /\ p[i] # <<>>
      <4>1. p[i] = r[i].place /\ r[i] \in Pointers /\ r[i].place = <<Arg(i)>>
        BY <1>7, <1>10
      <4>2. r[i].place \in Paths
        BY <4>1 DEF Pointers
      <4>3. <<Arg(i)>> # <<>>
        OBVIOUS
      <4> QED
        BY <4>1, <4>2, <4>3
    <3>2. \A m \in DOMAIN g : m = frame_root \/ m \in ArgRefsOf(fn)
      BY <1>5, <1>9
    <3>3. <<>> \in Paths
      BY DEF Paths
    <3> QED
      BY <1>10, <3>1, <3>2, <3>3 DEF Placed
  <2>3. \A i \in ArgRefsOf(fn) : p[i][1] = Arg(i) /\ p[i][1][1] = "arg"
    BY <1>7, <1>10 DEF Arg
  <2>4. \A i \in ArgRefsOf(fn) : Rooted(L, g, p, i)
    BY <2>3 DEF Rooted, Gone
  <2>5. ASSUME NEW a \in ArgRefsOf(fn), NEW b \in ArgRefsOf(fn), a # b
        PROVE  ~Overlap(p[a], p[b])
    <3>1. p[a] \in Seq(Element) /\ p[b] \in Seq(Element) /\ p[a] # <<>> /\ p[b] # <<>>
      BY <1>5, <1>6, <1>9, <2>2 DEF Placed, Paths
    <3>2. p[a][1] # p[b][1]
      BY <2>3, <2>5 DEF Arg
    <3> QED
      BY <3>1, <3>2, OverlapStarts
  <2> QED
    BY <1>5, <1>9, <1>10, <2>1, <2>2, <2>4, <2>5 DEF Borrows
<1>12. Fits(fn, M, I, L, g, r)
  <2>1. frame_root \notin DOMAIN r /\ M \cup I \subseteq DOMAIN r /\ \A i \in M \cup I : r[i] \in Pointers
    BY <1>5, <1>6, <1>7, <1>8
  <2>2. ASSUME NEW a \in M, r[a].place[1][1] = "arg"
        PROVE  fn.locals[r[a].place[1][2]].ref = "mut"
    <3>1. a \in ArgRefsOf(fn) /\ fn.locals[a].ref = "mut"
      BY <1>4, <1>5 DEF NamedSlots, M
    <3>2. r[a].place[1][2] = a
      BY <1>7, <3>1 DEF Arg
    <3> QED
      BY <3>1, <3>2
  <2> QED
    BY <1>11, <2>1, <2>2 DEF Fits, p
<1> DEFINE s == [locls |-> l, graph |-> g, next_id |-> n]
<1>13. s.locls = l /\ s.graph = g /\ s.next_id = n
  OBVIOUS
<1> HIDE DEF n, s
<1>14. Sound(fn, s, <<>>, r)
  <2>1. s = [locls |-> l, graph |-> g, next_id |-> n]
    BY DEF s
  <2> QED
    BY <1>4, <1>12, <1>13, <2>1 DEF Sound, NamedSlots, M, I, L, n
<1>15. Canonically(fn, s)
  <2>1. s = [locls |-> l, graph |-> g, next_id |-> n]
    BY DEF s
  <2> QED
    BY <1>2, <1>3, <1>13, <2>1 DEF Canonically, n
<1> QED
  BY <1>1, <1>5, <1>8, <1>13, <1>14, <1>15 DEF s, r

HeldIn(s) == {i \in DOMAIN s.locls : is_reference(s.locls[i].type)}

\* The local of each reference.
IdMap(s) ==
  With([id \in {s.locls[i].id : i \in HeldIn(s)} |-> CHOOSE i \in HeldIn(s) : s.locls[i].id = id],
       frame_root, frame_root)

LEMMA IdMapIs ==
  ASSUME NEW f, NEW s, NEW r, Sound(f, s, <<>>, r), IsFunction(f), NEW m, m = IdMap(s)
  PROVE  /\ DOMAIN m = DOMAIN s.graph /\ m[frame_root] = frame_root
         /\ \A i \in HeldIn(s) : s.locls[i].id \in Refs(s.locls, <<>>) /\ m[s.locls[i].id] = i
         /\ \A id \in Refs(s.locls, <<>>) :
              m[id] \in HeldIn(s) /\ s.locls[m[id]].id = id /\ id # frame_root
         /\ HeldIn(s) \subseteq Nat \ {frame_root}
<1> DEFINE l == s.locls
           H == HeldIn(s)
           R == Refs(l, <<>>)
           choice == [id \in {l[i].id : i \in H} |-> CHOOSE i \in H : l[i].id = id]
<1>1. Slotted(f, l, <<>>, s.next_id) /\ DOMAIN s.graph = {frame_root} \cup R
  BY SoundFits DEF Pointed
<1>2. frame_root \notin R
  BY <1>1, RefsAreNat
<1>3. \A i \in DOMAIN l : l[i] \in Avs /\ (i \in H <=> is_reference(l[i].type))
  BY <1>1 DEF Slotted, HeldIn
<1>4. \A i \in H : i \in DOMAIN l /\ RefOf(l[i]) = {l[i].id} /\ i \in Nat /\ i # frame_root
  <2>1. f.locals \in Seq(Types)
    BY DEF IsFunction
  <2>2. DOMAIN l \subseteq 1..Len(f.locals)
    BY <1>1 DEF Slotted, Locals
  <2> QED
    BY <1>3, <2>1, <2>2, RefOfIs DEF HeldIn, frame_root
<1>5. \A x : x \in R <=> \E i \in H : x = l[i].id
  <2>1. SUFFICES ASSUME NEW x PROVE x \in R <=> \E i \in H : x = l[i].id
    OBVIOUS
  <2>2. DOMAIN (<<>>) = {}
    OBVIOUS
  <2>3. x \in R <=> \E i \in DOMAIN l : x \in RefOf(l[i])
    BY <2>2, RefsAre
  <2>4. \A i \in DOMAIN l : x \in RefOf(l[i]) => i \in H
    BY <1>3, RefOfIs
  <2> QED
    BY <1>4, <2>3, <2>4
<1>6. \A i, j \in H : l[i].id = l[j].id => i = j
  <2>1. SUFFICES ASSUME NEW i \in H, NEW j \in H, l[i].id = l[j].id, i # j PROVE FALSE
    OBVIOUS
  <2>2. RefOf(l[i]) \cap RefOf(l[j]) = {}
    BY <1>1, <1>4, <2>1 DEF Slotted
  <2> QED
    BY <1>4, <2>1, <2>2
<1>7. {l[i].id : i \in H} = R
  BY <1>5
<1>8. m = With(choice, frame_root, frame_root)
  BY DEF IdMap
<1>9. \A id \in R : \E i \in H : l[i].id = id
  BY <1>5
<1>10. \A id \in R : choice[id] \in H /\ l[choice[id]].id = id
  <2>1. SUFFICES ASSUME NEW id \in R PROVE choice[id] \in H /\ l[choice[id]].id = id
    OBVIOUS
  <2>2. choice[id] = CHOOSE i \in H : l[i].id = id
    BY <1>7
  <2> HIDE DEF choice
  <2>3. \E i \in H : l[i].id = id
    BY <1>9
  <2> QED
    BY <2>2, <2>3
<1>11. DOMAIN choice = R
  BY <1>7
<1> HIDE DEF choice, R, H, l
<1>12. DOMAIN m = R \cup {frame_root} /\ m[frame_root] = frame_root /\ \A id \in R : m[id] = choice[id]
  BY <1>2, <1>8, <1>11 DEF With
<1>13. DOMAIN m = DOMAIN s.graph /\ m[frame_root] = frame_root
  BY <1>1, <1>12
<1>14. ASSUME NEW i \in H PROVE l[i].id \in R /\ m[l[i].id] = i
  <2>1. l[i].id \in R
    BY <1>5
  <2>2. choice[l[i].id] \in H /\ l[choice[l[i].id]].id = l[i].id
    BY <1>10, <2>1
  <2> QED
    BY <1>6, <1>12, <2>1, <2>2
<1>15. \A id \in R : m[id] \in H /\ l[m[id]].id = id /\ id # frame_root
  BY <1>2, <1>10, <1>12
<1>16. H \subseteq Nat \ {frame_root}
  BY <1>4
<1> QED
  BY <1>13, <1>14, <1>15, <1>16 DEF H, R, l

\* The same state with other names of its references.
CanonicalIs(s, c, r, rc) ==
  /\ c = construct_canonical_state(s) /\ rc = Canonical(s, r)

LEMMA CanonicalSays ==
  ASSUME NEW s, NEW r, Sound(fn, s, <<>>, r), IsFunction(fn), NEW c, NEW rc, CanonicalIs(s, c, r, rc)
  PROVE  /\ Canonically(fn, c) /\ DOMAIN c.locls = DOMAIN s.locls
         /\ c.graph = rename_ids(s.graph, IdMap(s))
         /\ DOMAIN rc = HeldIn(s) /\ \A i \in HeldIn(s) : rc[i] = r[s.locls[i].id]
         /\ \A i \in DOMAIN s.locls : s.locls[i] \in Avs /\ s.locls[i].type = fn.locals[i]
<1> DEFINE l2 == [i \in DOMAIN s.locls |-> [s.locls[i] EXCEPT !.id = IF i \in HeldIn(s) THEN i ELSE NoId]]
           n == Len(fn.locals) + 1
<1>1. c = [locls |-> l2, graph |-> rename_ids(s.graph, IdMap(s)), next_id |-> n]
  BY DEF CanonicalIs, construct_canonical_state, HeldIn, IdMap
<1>2. Slotted(fn, s.locls, <<>>, s.next_id)
  BY DEF Sound
<1>3. \A i \in DOMAIN s.locls : s.locls[i] \in Avs /\ s.locls[i].type = fn.locals[i]
  BY <1>2 DEF Slotted
<1>4. DOMAIN l2 = DOMAIN s.locls /\ DOMAIN l2 \subseteq Locals(fn)
  BY <1>2 DEF Slotted
<1>5. ASSUME NEW i \in DOMAIN s.locls PROVE l2[i] = Named(fn, i)
  <2> DEFINE av == s.locls[i]
  <2>1. av = [type |-> av.type, id |-> av.id] /\ av.type = fn.locals[i]
    BY <1>3, RefOfIs DEF Typed
  <2>2. i \in HeldIn(s) <=> is_reference(fn.locals[i])
    BY <1>3 DEF HeldIn
  <2> DEFINE x == IF i \in HeldIn(s) THEN i ELSE NoId
  <2>3. l2[i] = [av EXCEPT !.id = x]
    OBVIOUS
  <2>4. x = IF is_reference(fn.locals[i]) THEN i ELSE NoId
    BY <2>2
  <2> HIDE DEF av, x, l2
  <2>5. [av EXCEPT !.id = x] = [type |-> av.type, id |-> x]
    BY <2>1
  <2> QED
    BY <2>1, <2>3, <2>4, <2>5 DEF Named, Typed
<1>6. rc = [i \in HeldIn(s) |-> r[s.locls[i].id]]
  BY DEF CanonicalIs, Canonical, HeldIn
<1> HIDE DEF l2, n
<1>7. c.locls = l2 /\ c.next_id = n /\ c.graph = rename_ids(s.graph, IdMap(s))
      /\ c = [locls |-> c.locls, graph |-> c.graph, next_id |-> n]
  BY <1>1
<1>8. Canonically(fn, c)
  BY <1>4, <1>5, <1>7 DEF Canonically, n
<1> QED
  BY <1>3, <1>4, <1>6, <1>7, <1>8

LEMMA CanonicalSound ==
  ASSUME NEW s, NEW r, Sound(fn, s, <<>>, r), IsFunction(fn), NEW c, NEW rc, CanonicalIs(s, c, r, rc)
  PROVE  /\ Sound(fn, c, <<>>, rc) /\ Canonically(fn, c)
         /\ DOMAIN rc = Refs(c.locls, <<>>) /\ DOMAIN c.locls = DOMAIN s.locls
<1> DEFINE l == s.locls
           M == Muts(l, <<>>)
           I == Imms(l, <<>>)
           M2 == Muts(c.locls, <<>>)
           I2 == Imms(c.locls, <<>>)
           L == Live(l)
           H == HeldIn(s)
           m == IdMap(s)
           p == PlacesOf(r)
           q == PlacesOf(rc)
<1>1. /\ Canonically(fn, c) /\ DOMAIN c.locls = DOMAIN l /\ c.graph = rename_ids(s.graph, m)
      /\ DOMAIN rc = H /\ \A i \in H : rc[i] = r[l[i].id]
      /\ \A i \in DOMAIN l : l[i] \in Avs /\ l[i].type = fn.locals[i]
  BY CanonicalSays
<1>2. NamedSlots(fn, c.locls)
  BY <1>1, SlotsNamed DEF Canonically
<1>3. Fits(fn, M, I, L, s.graph, r) /\ Pointed(M, I, L, s.graph, r) /\ Refs(l, <<>>) = M \cup I
  BY SoundFits
<1>4. /\ DOMAIN m = DOMAIN s.graph /\ m[frame_root] = frame_root
      /\ \A i \in H : l[i].id \in M \cup I /\ m[l[i].id] = i
      /\ \A id \in M \cup I : m[id] \in H /\ l[m[id]].id = id /\ id # frame_root
      /\ H \subseteq Nat \ {frame_root}
  BY <1>3, IdMapIs
<1>5. H = {i \in DOMAIN l : is_reference(fn.locals[i])} /\ H = Refs(c.locls, <<>>)
  BY <1>1, <1>2 DEF HeldIn, NamedSlots
<1>6. Live(c.locls) = L
  BY <1>1, <1>2 DEF NamedSlots, Live
<1>7. \A i \in H : (l[i].id \in M <=> fn.locals[i].ref = "mut") /\ (l[i].id \in I <=> fn.locals[i].ref = "imm")
  <2>1. SUFFICES ASSUME NEW i \in H
                 PROVE  (l[i].id \in M <=> fn.locals[i].ref = "mut") /\ (l[i].id \in I <=> fn.locals[i].ref = "imm")
    OBVIOUS
  <2>2. i \in DOMAIN l /\ l[i].type = fn.locals[i] /\ l[i] \in Avs /\ is_reference(l[i].type)
    BY <1>1, <1>5
  <2>3. l[i].type.ref \in {"mut", "imm"}
    BY <2>2, RefOfIs
  <2>4. /\ l[i].type.ref = "mut" => l[i].id \in M
        /\ l[i].type.ref = "imm" => l[i].id \in I
    BY <2>2, RefsAre DEF MutOf, ImmOf
  <2>5. M \cap I = {}
    BY <1>3 DEF Pointed
  <2> QED
    BY <2>2, <2>3, <2>4, <2>5
<1> HIDE DEF M, I, M2, I2, L, H, m, p, q, l
<1>8. /\ M2 = {i \in H : fn.locals[i].ref = "mut"} /\ I2 = {i \in H : fn.locals[i].ref = "imm"}
  <2>1. \A i \in DOMAIN l : fn.locals[i].ref \in {"mut", "imm"} => i \in H
    BY <1>5 DEF is_reference
  <2>2. M2 = {i \in DOMAIN l : fn.locals[i].ref = "mut"} /\ I2 = {i \in DOMAIN l : fn.locals[i].ref = "imm"}
    BY <1>1, <1>2 DEF NamedSlots, M2, I2
  <2> QED
    BY <1>5, <2>1, <2>2
<1>9. ASSUME NEW id \in M \cup I
      PROVE  m[id] \in H /\ l[m[id]].id = id /\ m[id] \in Nat /\ m[id] # frame_root
  BY <1>4
<1>20. ASSUME NEW i \in H PROVE l[i].id \in M \cup I /\ m[l[i].id] = i
  BY <1>4
<1>21. M2 = {m[id] : id \in M}
  <2>1. ASSUME NEW i \in M2 PROVE i \in {m[id] : id \in M}
    BY <1>7, <1>8, <1>20
  <2>2. ASSUME NEW id \in M PROVE m[id] \in M2
    BY <1>7, <1>8, <1>9
  <2> QED
    BY <2>1, <2>2
<1>22. I2 = {m[id] : id \in I}
  <2>1. ASSUME NEW i \in I2 PROVE i \in {m[id] : id \in I}
    BY <1>7, <1>8, <1>20
  <2>2. ASSUME NEW id \in I PROVE m[id] \in I2
    BY <1>7, <1>8, <1>9
  <2> QED
    BY <2>1, <2>2
<1>10. /\ DOMAIN s.graph = {frame_root} \cup M \cup I /\ frame_root \notin DOMAIN r
       /\ \A id \in M \cup I : /\ id \in DOMAIN r /\ r[id] \in Pointers
                               /\ p[id] = r[id].place
                               /\ (id \in Good(r) <=> r[id].ok) /\ (id \in UnseenIn(r) <=> r[id].unseen)
       /\ p[frame_root] = <<>>
  BY <1>3 DEF Pointed, p
<1>11. \A i \in H : q[i] = rc[i].place /\ (i \in Good(rc) <=> rc[i].ok) /\ (i \in UnseenIn(rc) <=> rc[i].unseen)
  BY <1>1, <1>4, PlacesAre DEF q
<1>12. q[frame_root] = <<>>
  BY PlacesAre DEF q
<1>13. \A id \in M \cup I : rc[m[id]] = r[id]
  BY <1>1, <1>9
<1>14. Renames(M, I, s.graph, p, Good(r), UnseenIn(r), m, M2, I2, c.graph, q, Good(rc), UnseenIn(rc))
  <2>0. \A x \in DOMAIN s.graph : x = frame_root \/ x \in M \cup I
    BY <1>10
  <2>10. m[frame_root] = frame_root /\ frame_root \in Nat
    BY <1>4 DEF frame_root
  <2>1. \A x \in DOMAIN s.graph : m[x] \in Nat
    BY <1>9, <2>0, <2>10
  <2>2. \A x, y \in DOMAIN s.graph : m[x] = m[y] => x = y
    <3>1. SUFFICES ASSUME NEW x \in DOMAIN s.graph, NEW y \in DOMAIN s.graph, m[x] = m[y] PROVE x = y
      OBVIOUS
    <3> QED
      BY <1>9, <2>0, <2>10, <3>1
  <2>3. \A x \in DOMAIN s.graph : q[m[x]] = p[x]
    <3>1. SUFFICES ASSUME NEW x \in DOMAIN s.graph PROVE q[m[x]] = p[x]
      OBVIOUS
    <3>2. CASE x = frame_root
      BY <1>10, <1>12, <2>10, <3>2
    <3>3. CASE x \in M \cup I
      <4>1. m[x] \in H /\ rc[m[x]] = r[x]
        BY <1>9, <1>13, <3>3
      <4> QED
        BY <1>10, <1>11, <3>3, <4>1
    <3> QED
      BY <2>0, <3>2, <3>3
  <2>4. \A x \in M \cup I : (m[x] \in Good(rc) <=> x \in Good(r)) /\ (m[x] \in UnseenIn(rc) <=> x \in UnseenIn(r))
    <3>1. SUFFICES ASSUME NEW x \in M \cup I
                   PROVE  (m[x] \in Good(rc) <=> x \in Good(r)) /\ (m[x] \in UnseenIn(rc) <=> x \in UnseenIn(r))
      OBVIOUS
    <3>2. m[x] \in H /\ rc[m[x]] = r[x]
      BY <1>9, <1>13
    <3> QED
      BY <1>10, <1>11, <3>2
  <2> QED
    BY <1>1, <1>4, <1>21, <1>22, <2>1, <2>2, <2>3, <2>4 DEF Renames
<1>15. Borrows(M, I, L, s.graph, p, Good(r), UnseenIn(r))
  BY <1>3 DEF Pointed, p
<1>16. Borrows(M2, I2, L, c.graph, q, Good(rc), UnseenIn(rc))
  BY <1>14, <1>15, BorrowsRenamed
<1>17. M2 \cup I2 \subseteq H
  BY <1>8
<1>18. Fits(fn, M2, I2, L, c.graph, rc)
  <2>1. \A i \in M2 \cup I2 : rc[i] \in Pointers
    BY <1>1, <1>4, <1>10, <1>17
  <2>2. ASSUME NEW i \in M2, rc[i].place[1][1] = "arg"
        PROVE  fn.locals[rc[i].place[1][2]].ref = "mut"
    <3>1. l[i].id \in M /\ rc[i] = r[l[i].id]
      BY <1>1, <1>7, <1>8
    <3> QED
      BY <1>3, <2>2, <3>1 DEF Fits
  <2>3. frame_root \notin DOMAIN rc /\ M2 \cup I2 \subseteq DOMAIN rc
    BY <1>1, <1>4, <1>17
  <2> QED
    BY <1>16, <2>1, <2>2, <2>3 DEF Fits, q
<1>19. Sound(fn, c, <<>>, rc)
  <2>1. c = [locls |-> c.locls, graph |-> c.graph, next_id |-> c.next_id] /\ c.next_id = Len(fn.locals) + 1
    BY <1>1 DEF Canonically
  <2> QED
    BY <1>2, <1>6, <1>18, <2>1 DEF Sound, NamedSlots, M2, I2
<1> QED
  BY <1>1, <1>5, <1>19 DEF l

----------------------------------------------------------------------------
(* Joins *)

LEMMA RemovesNone ==
  ASSUME NEW g
  PROVE  remove_each(g, {}) = g
<1> DEFINE left == CHOOSE f : Removes(f, g, {})
<1>1. IsFiniteSet({})
  BY FS_EmptySet
<1>2. Removes(left, g, {})
  BY <1>1, RemovesExists
<1>3. remove_each(g, {}) = left[{}]
  BY DEF remove_each, Removes, Chosen
<1> HIDE DEF left
<1>4. left[{}] = g
  BY <1>2 DEF Removes
<1> QED
  BY <1>3, <1>4

\* The graph of a state without the references in locals that are not in both.
LeftIds(t, both) == {t.locls[i].id : i \in DOMAIN t.locls \ both} \ {NoId}
LeftOf(t, both) == remove_each(t.graph, LeftIds(t, both))

LEMMA LeftIs ==
  ASSUME IsFunction(fn), NEW t, NEW r, Sound(fn, t, <<>>, r), Canonically(fn, t),
         NEW both, both \subseteq DOMAIN t.locls
  PROVE  /\ Leaves(t.graph, LeftIds(t, both), LeftOf(t, both))
         /\ DOMAIN LeftOf(t, both) = {frame_root} \cup {i \in both : is_reference(fn.locals[i])}
         /\ both = DOMAIN t.locls => LeftOf(t, both) = t.graph
<1> DEFINE l == t.locls
           R == Refs(l, <<>>)
           ids == LeftIds(t, both)
<1>1. /\ DOMAIN l \subseteq Locals(fn) /\ \A i \in DOMAIN l : l[i] = Named(fn, i)
  BY DEF Canonically
<1>2. R = {i \in DOMAIN l : is_reference(fn.locals[i])}
  BY <1>1, SlotsNamed DEF NamedSlots
<1>3. DOMAIN t.graph = {frame_root} \cup R /\ Graph(t.graph) /\ frame_root \notin R
  BY SoundFits DEF Pointed
<1>4. \A i \in DOMAIN l : /\ l[i].id = IF is_reference(fn.locals[i]) THEN i ELSE NoId
                          /\ i # NoId /\ i # frame_root
  <2>1. SUFFICES ASSUME NEW i \in DOMAIN l
                 PROVE  /\ l[i].id = IF is_reference(fn.locals[i]) THEN i ELSE NoId
                        /\ i # NoId /\ i # frame_root
    OBVIOUS
  <2>2. i \in Nat /\ i # frame_root
    BY <1>1, NamedIs
  <2>3. l[i].id = IF is_reference(fn.locals[i]) THEN i ELSE NoId
    <3> DEFINE x == IF is_reference(fn.locals[i]) THEN i ELSE NoId
    <3>1. l[i] = [type |-> fn.locals[i], id |-> x]
      BY <1>1 DEF Named, Typed
    <3> HIDE DEF x
    <3>2. l[i].id = x
      BY <3>1
    <3> QED
      BY <3>2 DEF x
  <2> QED
    BY <2>2, <2>3 DEF NoId
<1>5. ids = {i \in DOMAIN l \ both : is_reference(fn.locals[i])}
  BY <1>4 DEF LeftIds
<1>6. ids \in SUBSET (DOMAIN t.graph \ {frame_root})
  BY <1>2, <1>3, <1>4, <1>5
<1> HIDE DEF ids, l, R
<1>7. Leaves(t.graph, ids, LeftOf(t, both))
  BY <1>3, <1>6, RemovedEach DEF LeftOf, ids
<1>8. DOMAIN LeftOf(t, both) = {frame_root} \cup {i \in both : is_reference(fn.locals[i])}
  <2>1. DOMAIN LeftOf(t, both) = ({frame_root} \cup R) \ ids
    BY <1>3, <1>7 DEF Leaves
  <2> QED
    BY <1>2, <1>3, <1>4, <1>5, <2>1 DEF l
<1>9. ASSUME both = DOMAIN t.locls PROVE LeftOf(t, both) = t.graph
  <2>1. LeftIds(t, both) = {}
    BY <1>5, <1>9 DEF ids, l
  <2> QED
    BY <2>1, RemovesNone DEF LeftOf
<1> QED
  BY <1>7, <1>8, <1>9 DEF ids

\* What the join of two states is.
JoinIs(s1, s2, j) ==
  /\ Canonically(fn, j) /\ DOMAIN j.locls = DOMAIN s1.locls \cap DOMAIN s2.locls
  /\ Graph(j.graph)
  /\ \A p : Placed(DOMAIN s1.graph, p) => Keeps(s1.graph, p, j.graph, p)
  /\ \A p : Placed(DOMAIN s2.graph, p) => Keeps(s2.graph, p, j.graph, p)
  /\ DOMAIN j.graph = {frame_root} \cup {i \in DOMAIN j.locls : is_reference(fn.locals[i])}

LEMMA LeavesThenKeeps ==
  ASSUME NEW g, NEW ids, NEW h, Leaves(g, ids, h), NEW g2, DOMAIN g2 = DOMAIN h, Graph(g2), Covers(g2, h),
         NEW p, Placed(DOMAIN g, p)
  PROVE  Keeps(g, p, g2, p)
<1>1. Graph(h) /\ DOMAIN h = DOMAIN g \ ids /\ Keeps(g, p, h, p)
  BY DEF Leaves
<1>2. Placed(DOMAIN h, p)
  BY <1>1 DEF Placed
<1>3. Keeps(h, p, g2, p)
  BY <1>1, <1>2, CoversKeeps
<1> QED
  BY <1>1, <1>3 DEF Keeps

LEMMA JoinedIs ==
  ASSUME IsFunction(fn),
         NEW s1, NEW r1, Sound(fn, s1, <<>>, r1), Canonically(fn, s1),
         NEW s2, NEW r2, Sound(fn, s2, <<>>, r2), Canonically(fn, s2),
         acyclic(join(s1, s2).graph)
  PROVE  JoinIs(s1, s2, join(s1, s2))
<1> DEFINE both == DOMAIN s1.locls \cap DOMAIN s2.locls
           g1 == LeftOf(s1, both)
           g2 == LeftOf(s2, both)
           l == Restrict(s1.locls, both)
           h == join_graphs(g1, g2)
           n == Len(fn.locals) + 1
           j == join(s1, s2)
           D == {frame_root} \cup {i \in both : is_reference(fn.locals[i])}
<1>1. /\ both \subseteq DOMAIN s1.locls /\ both \subseteq DOMAIN s2.locls
  OBVIOUS
<1>2. s1 = [locls |-> s1.locls, graph |-> s1.graph, next_id |-> n]
  BY DEF Canonically
<1>3. /\ DOMAIN s1.locls \subseteq Locals(fn) /\ \A i \in DOMAIN s1.locls : s1.locls[i] = Named(fn, i)
  BY DEF Canonically
<1>4. DOMAIN l = both /\ \A i \in both : l[i] = s1.locls[i]
  BY DEF Restrict
<1>5. join_(s1, s2) = [s1 EXCEPT !.locls = l, !.graph = h]
  BY DEF join_, LeftOf, LeftIds
<1> HIDE DEF both, l, h, g1, g2, n, D, j
<1>6. join_(s1, s2) = [locls |-> l, graph |-> h, next_id |-> n]
  <2>1. PICK a, b : s1 = [locls |-> a, graph |-> b, next_id |-> n]
    BY <1>2
  <2>2. [s1 EXCEPT !.locls = l, !.graph = h] = [locls |-> l, graph |-> h, next_id |-> n]
    <3> DEFINE x == [s1 EXCEPT !.locls = l, !.graph = h]
               y == [s1 EXCEPT !.locls = l]
    <3>1. y = [locls |-> l, graph |-> b, next_id |-> n]
      BY <2>1
    <3>2. x = [y EXCEPT !.graph = h]
      BY <2>1
    <3> HIDE DEF x, y
    <3>3. x = [locls |-> l, graph |-> h, next_id |-> n]
      BY <3>1, <3>2
    <3> QED
      BY <3>3 DEF x
  <2> QED
    BY <1>5, <2>2
<1>7. /\ j = IF s1.locls = l /\ abstracts(s1.graph, h) THEN s1 ELSE [locls |-> l, graph |-> h, next_id |-> n]
  BY <1>6 DEF join, j
<1>8. /\ Leaves(s1.graph, LeftIds(s1, both), g1) /\ DOMAIN g1 = D
      /\ both = DOMAIN s1.locls => g1 = s1.graph
  BY <1>1, LeftIs DEF g1, D
<1>9. /\ Leaves(s2.graph, LeftIds(s2, both), g2) /\ DOMAIN g2 = D
  BY <1>1, LeftIs DEF g2, D
<1>10. Graph(g1) /\ Graph(g2)
  BY <1>8, <1>9 DEF Leaves
<1>11. /\ DOMAIN h = D /\ Covers(h, g1) /\ Covers(h, g2)
       /\ acyclic(h) => Graph(h)
  BY <1>8, <1>9, <1>10, JoinCovers DEF h
<1>12. /\ Graph(j.graph) /\ DOMAIN j.graph = D /\ Covers(j.graph, g1) /\ Covers(j.graph, g2)
       /\ DOMAIN j.locls = both /\ \A i \in both : j.locls[i] = s1.locls[i]
       /\ j = [locls |-> j.locls, graph |-> j.graph, next_id |-> n]
  <2>1. CASE s1.locls = l /\ abstracts(s1.graph, h)
    <3>1. j = s1 /\ g1 = s1.graph
      BY <1>4, <1>7, <1>8, <2>1
    <3>2. Covers(s1.graph, h)
      BY <2>1, AbstractsCovers
    <3>3. Covers(g1, g1)
      BY DEF Covers, is_prefix
    <3>4. Covers(g1, g2)
      <4>1. SUFFICES ASSUME NEW m \in D, NEW o \in g2[m] PROVE \E e \in g1[m] : is_prefix(e, o)
        BY <1>9 DEF Covers
      <4>2. CASE \E e \in g1[m] : is_prefix(e, o)
        BY <4>2
      <4>3. CASE \A e \in g1[m] : ~is_prefix(e, o)
        <5>1. o \in h[m]
          BY <1>8, <4>1, <4>3 DEF h, join_graphs, unmatched_edges
        <5> QED
          BY <1>11, <3>1, <3>2, <5>1 DEF Covers
      <4> QED
        BY <4>2, <4>3
    <3> QED
      BY <1>2, <1>4, <1>8, <1>10, <2>1, <3>1, <3>3, <3>4
  <2>2. CASE ~(s1.locls = l /\ abstracts(s1.graph, h))
    <3>1. j = [locls |-> l, graph |-> h, next_id |-> n]
      BY <1>7, <2>2
    <3>2. acyclic(h)
      <4>1. acyclic(j.graph)
        BY DEF j
      <4> QED
        BY <3>1, <4>1
    <3> QED
      BY <1>4, <1>11, <3>1, <3>2
  <2> QED
    BY <2>1, <2>2
<1>13. Canonically(fn, j)
  BY <1>1, <1>3, <1>12 DEF Canonically, n
<1>14. \A p : Placed(DOMAIN s1.graph, p) => Keeps(s1.graph, p, j.graph, p)
  BY <1>8, <1>12, LeavesThenKeeps
<1>15. \A p : Placed(DOMAIN s2.graph, p) => Keeps(s2.graph, p, j.graph, p)
  BY <1>9, <1>12, LeavesThenKeeps
<1>16. JoinIs(s1, s2, j)
  BY <1>12, <1>13, <1>14, <1>15 DEF JoinIs, both, D
<1> QED
  BY <1>16 DEF j

LEMMA InTheLocal ==
  ASSUME NEW place \in Paths, place # <<>>, NEW i \in Nat
  PROVE  IsPrefix(<<Local(i)>>, place) <=> (place[1][1] = "local" /\ place[1][2] = i)
<1> DEFINE x == Local(i)
<1>1. x \in Element /\ x = <<"local", i>>
  BY DEF Local, Element
<1>2. place \in Seq(Element) /\ place[1] \in Element
  BY DEF Paths
<1>3. (place[1][1] = "local" /\ place[1][2] = i) <=> place[1] = <<"local", i>>
  <2>1. place[1] = <<place[1][1], place[1][2]>>
    BY <1>2 DEF Element
  <2> QED
    BY <2>1
<1>4. <<x>> \in Seq(Element) /\ Len(<<x>>) = 1 /\ <<x>>[1] = x /\ Len(place) >= 1
  BY <1>1, <1>2
<1> HIDE DEF x
<1>5. IsPrefix(<<x>>, place) <=> x = place[1]
  <2> DEFINE w == <<x>>
  <2>1. w \in Seq(Element) /\ Len(w) = 1 /\ w[1] = x
    BY <1>4
  <2> HIDE DEF w
  <2>2. \A s, u \in Seq(Element) : IsPrefix(s, u) <=> Len(s) <= Len(u) /\ \A k \in 1..Len(s) : s[k] = u[k]
    BY PrefixIs, Zenon
  <2>3. IsPrefix(w, place) <=> Len(w) <= Len(place) /\ \A k \in 1..Len(w) : w[k] = place[k]
    BY <1>2, <2>2, <2>1, Zenon
  <2>4. IsPrefix(w, place) <=> x = place[1]
    BY <1>4, <2>1, <2>3
  <2> QED
    BY <2>4 DEF w
<1> QED
  BY <1>1, <1>3, <1>5 DEF x

\* The place is in a local that the joined state has no more.
Abandoned(t, j, place) ==
  \E i \in DOMAIN t.locls \ DOMAIN j.locls : IsPrefix(<<Local(i)>>, place)

\* The pointers of one of the ways in the state that is joined.
WayPointers(t, r, j) ==
  [id \in DOMAIN j.graph \ {frame_root} |-> [r[id] EXCEPT !.unseen = @ \/ Abandoned(t, j, r[id].place)]]

LEMMA WayPointersAre ==
  ASSUME NEW t, NEW r, NEW j, NEW id \in DOMAIN j.graph \ {frame_root}, r[id] \in Pointers,
         NEW ptr, ptr = WayPointers(t, r, j)[id]
  PROVE  /\ ptr \in Pointers /\ ptr.place = r[id].place /\ ptr.ok = r[id].ok
         /\ ptr.unseen <=> (r[id].unseen \/ Abandoned(t, j, r[id].place))
<1> DEFINE marked == r[id].unseen \/ Abandoned(t, j, r[id].place)
<1>1. marked \in BOOLEAN
  BY Zenon
<1>2. ptr = [r[id] EXCEPT !.unseen = marked]
  BY DEF WayPointers
<1> HIDE DEF marked
<1>3. ptr \in Pointers /\ ptr.place = r[id].place /\ ptr.ok = r[id].ok /\ ptr.unseen = marked
  BY <1>1, <1>2 DEF Pointers
<1> QED
  BY <1>3 DEF marked

\* The state that one of the ways is joined to.
JoinsTo(t, j) ==
  /\ Canonically(fn, j) /\ DOMAIN j.locls \subseteq DOMAIN t.locls
  /\ Graph(j.graph)
  /\ \A p : Placed(DOMAIN t.graph, p) => Keeps(t.graph, p, j.graph, p)
  /\ DOMAIN j.graph = {frame_root} \cup {i \in DOMAIN j.locls : is_reference(fn.locals[i])}

LEMMA WaySound ==
  ASSUME IsFunction(fn), NEW t, NEW r, Sound(fn, t, <<>>, r), Canonically(fn, t), NEW j, JoinsTo(t, j)
  PROVE  Sound(fn, j, <<>>, WayPointers(t, r, j)) /\ DOMAIN WayPointers(t, r, j) = Refs(j.locls, <<>>)
<1> DEFINE l == t.locls
           k == j.locls
           M == Muts(l, <<>>)
           I == Imms(l, <<>>)
           L == Live(l)
           M2 == Muts(k, <<>>)
           I2 == Imms(k, <<>>)
           L2 == Live(k)
           r2 == WayPointers(t, r, j)
           n == Len(fn.locals) + 1
<1>1. /\ Canonically(fn, j) /\ DOMAIN k \subseteq DOMAIN l
      /\ Graph(j.graph)
      /\ \A p : Placed(DOMAIN t.graph, p) => Keeps(t.graph, p, j.graph, p)
      /\ DOMAIN j.graph = {frame_root} \cup {i \in DOMAIN k : is_reference(fn.locals[i])}
  BY DEF JoinsTo
<1>2. NamedSlots(fn, l) /\ NamedSlots(fn, k)
  BY <1>1, SlotsNamed DEF Canonically
<1>3. /\ M2 \subseteq M /\ I2 \subseteq I /\ M2 \cup I2 = {i \in DOMAIN k : is_reference(fn.locals[i])}
      /\ L = {i \in DOMAIN l : ~is_reference(fn.locals[i])} /\ L2 = {i \in DOMAIN k : ~is_reference(fn.locals[i])}
  BY <1>1, <1>2 DEF NamedSlots, Refs
<1>4. Fits(fn, M, I, L, t.graph, r) /\ Pointed(M, I, L, t.graph, r)
  BY SoundFits
<1>5. DOMAIN l \subseteq Nat
  <2>1. DOMAIN l \subseteq Locals(fn)
    BY DEF Canonically
  <2> QED
    BY <2>1, NamedIs
<1>11. j = [locls |-> k, graph |-> j.graph, next_id |-> n] /\ j.next_id = n
  BY <1>1 DEF Canonically
<1> HIDE DEF M, I, L, M2, I2, L2, r2, l, k, n
<1>6. /\ DOMAIN t.graph = {frame_root} \cup M \cup I /\ frame_root \notin M \cup I
      /\ Placed(DOMAIN t.graph, PlacesOf(r))
      /\ \A id \in M \cup I : /\ r[id] \in Pointers /\ r[id].place \in Paths /\ r[id].place # <<>>
                              /\ ~r[id].unseen => r[id].ok /\ ~Gone(L, r[id].place)
      /\ \A a \in M : r[a].unseen => ~r[a].ok \/ Gone(L, r[a].place)
  BY <1>4 DEF Pointed
<1>7. /\ DOMAIN j.graph = {frame_root} \cup M2 \cup I2 /\ Keeps(t.graph, PlacesOf(r), j.graph, PlacesOf(r))
      /\ DOMAIN r2 = M2 \cup I2 /\ frame_root \notin DOMAIN r2
  <2>1. DOMAIN r2 = DOMAIN j.graph \ {frame_root}
    BY DEF r2, WayPointers
  <2> QED
    BY <1>1, <1>3, <1>6, <2>1
\* A value that only this way has is abandoned.
<1>8. ASSUME NEW id \in M2 \cup I2
      PROVE  /\ Gone(L, r[id].place) \/ Abandoned(t, j, r[id].place) => Gone(L2, r[id].place)
             /\ Gone(L2, r[id].place) => Gone(L, r[id].place) \/ Abandoned(t, j, r[id].place)
  <2> DEFINE x == r[id].place
  <2>1. x \in Paths /\ x # <<>>
    BY <1>3, <1>6
  <2>2. \A i \in DOMAIN l : IsPrefix(<<Local(i)>>, x) <=> (x[1][1] = "local" /\ x[1][2] = i)
    BY <1>5, <2>1, InTheLocal
  <2>3. Abandoned(t, j, x) <=> (x[1][1] = "local" /\ x[1][2] \in DOMAIN l \ DOMAIN k)
    BY <2>2 DEF Abandoned, l, k
  <2> HIDE DEF x
  <2>4. L2 \subseteq L /\ L2 \subseteq DOMAIN k /\ L \subseteq L2 \cup (DOMAIN l \ DOMAIN k)
    BY <1>1, <1>3
  <2>5. Gone(L, x) \/ Abandoned(t, j, x) => Gone(L2, x)
    BY <2>3, <2>4 DEF Gone
  <2>6. Gone(L2, x) => Gone(L, x) \/ Abandoned(t, j, x)
    BY <2>3, <2>4 DEF Gone
  <2> QED
    BY <2>5, <2>6 DEF x
<1>9. ASSUME NEW id \in M2 \cup I2
      PROVE  /\ r2[id] \in Pointers /\ r2[id].place = r[id].place /\ r2[id].ok = r[id].ok
             /\ r2[id].unseen <=> (r[id].unseen \/ Abandoned(t, j, r[id].place))
  <2>1. id \in DOMAIN j.graph \ {frame_root} /\ r[id] \in Pointers
    BY <1>3, <1>6, <1>7
  <2> QED
    BY <2>1, WayPointersAre DEF r2
<1>10. FitsAfter(fn, M, I, t.graph, r, M2, I2, L2, j.graph, r2)
  <2>1. \A id \in M2 \cup I2 :
          /\ r2[id] \in Pointers /\ r2[id].place = r[id].place
          /\ ~r2[id].unseen => ~r[id].unseen /\ r2[id].ok /\ ~Gone(L2, r[id].place)
    BY <1>3, <1>6, <1>8, <1>9
  <2>2. \A a \in M2 : r2[a].unseen => ~r2[a].ok \/ Gone(L2, r[a].place)
    BY <1>3, <1>6, <1>8, <1>9
  <2> QED
    BY <1>1, <1>3, <1>7, <2>1, <2>2 DEF FitsAfter
<1>12. Fits(fn, M2, I2, L2, j.graph, r2)
  BY <1>4, <1>10, FitsLess
<1>13. Slotted(fn, k, <<>>, n) /\ Refs(k, <<>>) = M2 \cup I2
  BY <1>2 DEF NamedSlots, n, Refs, M2, I2
<1>14. Sound(fn, j, <<>>, r2)
  BY <1>11, <1>12, <1>13 DEF Sound, k, M2, I2, L2, n
<1> QED
  BY <1>7, <1>13, <1>14 DEF r2, k

----------------------------------------------------------------------------
(* The inductive invariant *)

\* The way that is kept aside is one that the machine could have come.
ParkedSound ==
  parked # NoWay => Sound(fn, parked.state, <<>>, parked.refs) /\ Canonically(fn, parked.state)

LEMMA HereSound ==
  ASSUME SoundNow, IsFunction(fn), stack = <<>>,
         NEW c, NEW rc, CanonicalIs(state, c, refs, rc)
  PROVE  /\ Sound(fn, c, <<>>, rc) /\ Canonically(fn, c)
         /\ DOMAIN rc = Refs(c.locls, <<>>) /\ DOMAIN c.locls = DOMAIN state.locls
<1>1. Sound(fn, state, <<>>, refs)
  BY SoundSays
<1> QED
  BY <1>1, CanonicalSound

LEMMA next_blockSound ==
  ASSUME SoundNow, IsFunction(fn), next_block
  PROVE  SoundNow' /\ fn' = fn /\ parked' = parked /\ status' = status
<1>1. /\ stack = <<>> /\ CanonicalIs(state, state', refs, refs')
      /\ fn' = fn /\ parked' = parked /\ status' = status /\ stack' = <<>>
  BY DEF next_block, Unchanging, CanonicalIs
<1> DEFINE c == state'
           rc == refs'
<1>2. CanonicalIs(state, c, refs, rc)
  BY <1>1
<1> HIDE DEF c, rc
<1>3. Sound(fn, c, <<>>, rc) /\ DOMAIN rc = Refs(c.locls, <<>>)
  BY <1>1, <1>2, HereSound
<1> QED
  BY <1>1, <1>3 DEF SoundNow, c, rc

LEMMA parkSound ==
  ASSUME SoundNow, IsFunction(fn), park
  PROVE  SoundNow' /\ ParkedSound' /\ fn' = fn /\ status' = status
<1> DEFINE c == construct_canonical_state(state)
           rc == Canonical(state, refs)
<1>1. /\ stack = <<>> /\ parked' = [state |-> c, refs |-> rc]
      /\ state' = NewState(fn) /\ refs' = ArgPointers(fn)
      /\ fn' = fn /\ status' = status /\ stack' = <<>>
  BY DEF park, Unchanging, ArgPointers, ArgRefsOf
<1>2. CanonicalIs(state, c, refs, rc)
  BY DEF CanonicalIs
<1> HIDE DEF c, rc
<1>3. Sound(fn, c, <<>>, rc) /\ Canonically(fn, c)
  BY <1>1, <1>2, HereSound
<1>4. ParkedSound'
  <2>1. parked'.state = c /\ parked'.refs = rc
    BY <1>1
  <2> QED
    BY <1>1, <1>3, <2>1 DEF ParkedSound
<1>5. SoundNow'
  <2>1. Sound(fn, NewState(fn), <<>>, ArgPointers(fn)) /\ DOMAIN ArgPointers(fn) = Refs(NewState(fn).locls, <<>>)
    BY NewStateSound
  <2> QED
    BY <1>1, <2>1 DEF SoundNow
<1> QED
  BY <1>1, <1>4, <1>5

LEMMA join_blockSound ==
  ASSUME SoundNow, ParkedSound, IsFunction(fn), join_block
  PROVE  SoundNow' /\ fn' = fn /\ status' = status /\ parked' = NoWay
<1> DEFINE here == construct_canonical_state(state)
           rc == Canonical(state, refs)
           s1 == parked.state
           r1 == parked.refs
           j == join(s1, here)
           way == [state |-> here, refs |-> rc]
           P(w) == WayPointers(w.state, w.refs, j)
<1>1. /\ stack = <<>> /\ parked # NoWay /\ acyclic(j.graph) /\ state' = j
      /\ \E w \in {way, parked} : refs' = P(w)
      /\ fn' = fn /\ status' = status /\ stack' = <<>> /\ parked' = NoWay
  BY DEF join_block, Unchanging, WayPointers, Abandoned
<1>2. CanonicalIs(state, here, refs, rc)
  BY DEF CanonicalIs
<1>3. refs' = WayPointers(here, rc, j) \/ refs' = WayPointers(s1, r1, j)
  <2>1. P(way) = WayPointers(here, rc, j) /\ P(parked) = WayPointers(s1, r1, j)
    OBVIOUS
  <2> HIDE DEF P, way
  <2> QED
    BY <1>1, <2>1
<1> HIDE DEF here, rc
<1>4. Sound(fn, here, <<>>, rc) /\ Canonically(fn, here)
  BY <1>1, <1>2, HereSound
<1>5. Sound(fn, s1, <<>>, r1) /\ Canonically(fn, s1)
  BY <1>1 DEF ParkedSound
<1> HIDE DEF s1, r1
<1>6. JoinIs(s1, here, j)
  BY <1>1, <1>4, <1>5, JoinedIs
<1> HIDE DEF j
<1>7. JoinsTo(s1, j) /\ JoinsTo(here, j)
  BY <1>6 DEF JoinIs, JoinsTo
<1>8. /\ Sound(fn, j, <<>>, WayPointers(s1, r1, j)) /\ DOMAIN WayPointers(s1, r1, j) = Refs(j.locls, <<>>)
      /\ Sound(fn, j, <<>>, WayPointers(here, rc, j)) /\ DOMAIN WayPointers(here, rc, j) = Refs(j.locls, <<>>)
  BY <1>4, <1>5, <1>7, WaySound
<1>9. SoundNow'
  BY <1>1, <1>3, <1>8 DEF SoundNow
<1> QED
  BY <1>1, <1>9

Instruction ==
  \/ ld \/ binop \/ pop \/ read_ref \/ write_ref \/ freeze_ref \/ equal
  \/ \E i \in Locals(fn) : copy_loc(i) \/ move_loc(i) \/ store_loc(i)
  \/ \E mut \in BOOLEAN, i \in Locals(fn) : borrow_loc(mut, i)
  \/ \E mut \in BOOLEAN, f \in FieldNames : borrow_field(mut, f)
  \/ \E mut \in BOOLEAN : borrow_global(mut)
  \/ move_from \/ move_to_sender
  \/ \E t \in DOMAIN Fields : pack(t) \/ unpack(t)
  \/ \E g \in Callees[fn] : call(g)

LEMMA InstructionSound ==
  ASSUME SoundNow, fn \in Functions_, Instruction
  PROVE  SoundNow'
<1>1. IsFunction(fn) /\ \A g \in Callees[fn] : IsFunction(g)
  BY FunctionsAssumption
<1>2. CASE ld
  BY <1>2, ldSound
<1>3. CASE binop
  BY <1>3, binopSound
<1>4. CASE pop
  BY <1>4, popSound
<1>5. CASE read_ref
  BY <1>5, read_refSound
<1>6. CASE write_ref
  BY <1>6, write_refSound
<1>7. CASE freeze_ref
  BY <1>7, freeze_refSound
<1>8. CASE equal
  BY <1>8, equalSound
<1>9. ASSUME NEW i \in Locals(fn), copy_loc(i) PROVE SoundNow'
  BY <1>1, <1>9, copy_locSound
<1>10. ASSUME NEW i \in Locals(fn), move_loc(i) PROVE SoundNow'
  BY <1>1, <1>10, move_locSound
<1>11. ASSUME NEW i \in Locals(fn), store_loc(i) PROVE SoundNow'
  BY <1>1, <1>11, store_locSound
<1>12. ASSUME NEW mut \in BOOLEAN, NEW i \in Locals(fn), borrow_loc(mut, i) PROVE SoundNow'
  BY <1>1, <1>12, borrow_locSound
<1>13. ASSUME NEW mut \in BOOLEAN, NEW f \in FieldNames, borrow_field(mut, f) PROVE SoundNow'
  BY <1>1, <1>13, borrow_fieldSound
<1>14. ASSUME NEW mut \in BOOLEAN, borrow_global(mut) PROVE SoundNow'
  BY <1>1, <1>14, borrow_globalSound
<1>15. CASE move_from
  BY <1>15, move_fromSound
<1>16. CASE move_to_sender
  BY <1>16, move_to_senderSound
<1>17. ASSUME NEW t \in DOMAIN Fields, pack(t) PROVE SoundNow'
  BY <1>17, packSound
<1>18. ASSUME NEW t \in DOMAIN Fields, unpack(t) PROVE SoundNow'
  BY <1>18, unpackSound
<1>19. ASSUME NEW g \in Callees[fn], call(g) PROVE SoundNow'
  BY <1>1, <1>19, callSound
<1> HIDE DEF SoundNow
<1> QED
  BY <1>2, <1>3, <1>4, <1>5, <1>6, <1>7, <1>8, <1>9, <1>10, <1>11, <1>12, <1>13, <1>14, <1>15,
     <1>16, <1>17, <1>18, <1>19 DEF Instruction

\* An instruction of a running function leaves the rest as it is.
Stays == Running /\ fn' = fn /\ parked' = parked /\ status' = status

LEMMA InstructionStays ==
  ASSUME Instruction
  PROVE  Stays
<1>1. ASSUME NEW s, NEW ops, NEW r, Step(s, ops, r)
      PROVE  fn' = fn /\ parked' = parked /\ status' = status
  BY <1>1 DEF Step
<1>2. CASE ld
  BY <1>1, <1>2 DEF ld, Stays
<1>3. CASE binop
  BY <1>1, <1>3 DEF binop, Stays
<1>4. CASE pop
  BY <1>1, <1>4 DEF pop, Stays
<1>5. CASE read_ref
  BY <1>1, <1>5 DEF read_ref, Stays
<1>6. CASE write_ref
  BY <1>1, <1>6 DEF write_ref, Stays
<1>7. CASE freeze_ref
  BY <1>1, <1>7 DEF freeze_ref, Stays
<1>8. CASE equal
  BY <1>1, <1>8 DEF equal, Stays
<1>9. ASSUME NEW i \in Locals(fn), copy_loc(i) PROVE Stays
  BY <1>1, <1>9 DEF copy_loc, Stays
<1>10. ASSUME NEW i \in Locals(fn), move_loc(i) PROVE Stays
  BY <1>1, <1>10 DEF move_loc, Stays
<1>11. ASSUME NEW i \in Locals(fn), store_loc(i) PROVE Stays
  BY <1>1, <1>11 DEF store_loc, Stays
<1>12. ASSUME NEW mut \in BOOLEAN, NEW i \in Locals(fn), borrow_loc(mut, i) PROVE Stays
  BY <1>1, <1>12 DEF borrow_loc, Stays
<1>13. ASSUME NEW mut \in BOOLEAN, NEW f \in FieldNames, borrow_field(mut, f) PROVE Stays
  BY <1>1, <1>13 DEF borrow_field, Stays
<1>14. ASSUME NEW mut \in BOOLEAN, borrow_global(mut) PROVE Stays
  BY <1>1, <1>14 DEF borrow_global, Stays
<1>15. CASE move_from
  BY <1>1, <1>15 DEF move_from, Stays
<1>16. CASE move_to_sender
  BY <1>1, <1>16 DEF move_to_sender, Stays
<1>17. ASSUME NEW t \in DOMAIN Fields, pack(t) PROVE Stays
  BY <1>1, <1>17 DEF pack, Stays
<1>18. ASSUME NEW t \in DOMAIN Fields, unpack(t) PROVE Stays
  BY <1>1, <1>18 DEF unpack, Stays
<1>19. ASSUME NEW g \in Callees[fn], call(g) PROVE Stays
  BY <1>1, <1>19 DEF call, Stays
<1> QED
  BY <1>2, <1>3, <1>4, <1>5, <1>6, <1>7, <1>8, <1>9, <1>10, <1>11, <1>12, <1>13, <1>14, <1>15,
     <1>16, <1>17, <1>18, <1>19 DEF Instruction

\* While the function runs its state is sound, and so is the way that is kept
\* aside; once it has returned, what it returns is what it may.
IInv ==
  /\ fn \in Functions_
  /\ IF Running THEN SoundNow /\ ParkedSound ELSE RefersToItsPlace /\ ReturnsWhatItMay

LEMMA InitIInv == Init => IInv
<1> SUFFICES ASSUME Init PROVE IInv
  OBVIOUS
<1>1. /\ fn \in Functions_ /\ state = NewState(fn) /\ stack = <<>> /\ refs = ArgPointers(fn)
      /\ parked = NoWay /\ Running
  BY DEF Init, ArgPointers, ArgRefsOf, Running
<1>2. IsFunction(fn)
  BY <1>1, FunctionsAssumption
<1>3. SoundNow
  BY <1>1, <1>2, NewStateSound DEF SoundNow
<1> QED
  BY <1>1, <1>3 DEF IInv, ParkedSound

LEMMA NextIInv == IInv /\ [Next]_vars => IInv'
<1> SUFFICES ASSUME IInv, [Next]_vars PROVE IInv'
  OBVIOUS
<1>1. fn \in Functions_ /\ IsFunction(fn)
  BY FunctionsAssumption DEF IInv
<1>2. ASSUME Running PROVE SoundNow /\ ParkedSound
  BY <1>2 DEF IInv
<1>3. CASE Instruction
  <2>1. Stays
    BY <1>3, InstructionStays
  <2>2. Running /\ Running' /\ fn' = fn /\ parked' = parked
    BY <2>1 DEF Stays, Running
  <2>3. SoundNow'
    BY <1>1, <1>2, <1>3, <2>2, InstructionSound
  <2>4. ParkedSound'
    BY <1>2, <2>2 DEF ParkedSound
  <2> HIDE DEF SoundNow, ParkedSound
  <2> QED
    BY <1>1, <2>2, <2>3, <2>4 DEF IInv
<1>4. CASE ret
  <2>1. Running
    BY <1>4 DEF ret
  <2>2. RefersToItsPlace' /\ ReturnsWhatItMay'
    BY <1>2, <1>4, <2>1, retSound
  <2>3. fn' = fn /\ ~Running'
    BY <1>4 DEF ret, Running
  <2> QED
    BY <1>1, <2>2, <2>3 DEF IInv
<1>5. CASE next_block
  <2>1. Running
    BY <1>5 DEF next_block
  <2>2. SoundNow' /\ fn' = fn /\ parked' = parked /\ status' = status
    BY <1>1, <1>2, <1>5, <2>1, next_blockSound
  <2>3. ParkedSound' /\ Running'
    BY <1>2, <2>1, <2>2 DEF ParkedSound, Running
  <2> QED
    BY <1>1, <2>2, <2>3 DEF IInv
<1>6. CASE park
  <2>1. Running
    BY <1>6 DEF park
  <2>2. SoundNow' /\ ParkedSound' /\ fn' = fn /\ status' = status
    BY <1>1, <1>2, <1>6, <2>1, parkSound
  <2>3. Running'
    BY <2>1, <2>2 DEF Running
  <2> QED
    BY <1>1, <2>2, <2>3 DEF IInv
<1>7. CASE join_block
  <2>1. Running
    BY <1>7 DEF join_block
  <2>2. SoundNow' /\ fn' = fn /\ status' = status /\ parked' = NoWay
    BY <1>1, <1>2, <1>7, <2>1, join_blockSound
  <2>3. ParkedSound' /\ Running'
    BY <2>1, <2>2 DEF ParkedSound, Running
  <2> QED
    BY <1>1, <2>2, <2>3 DEF IInv
<1>8. CASE UNCHANGED vars
  BY <1>8 DEF IInv, vars, Running, SoundNow, ParkedSound, RefersToItsPlace, ReturnsWhatItMay
<1>9. Next => Instruction \/ ret \/ next_block \/ park \/ join_block
  BY DEF Next, Instruction
<1> QED
  BY <1>3, <1>4, <1>5, <1>6, <1>7, <1>8, <1>9

\* In every state the abstract state is sound for the pointers of the machine, as
\* is the way kept aside, and a function that has returned kept its word (the
\* whole of type_memory_safety.py against interpreter.py and values.py).
THEOREM SoundAlways == Spec => []IInv
<1> QED
  BY InitIInv, NextIInv, PTL DEF Spec

----------------------------------------------------------------------------
(* What the state knows of the references that are held *)

LEMMA HeldIs ==
  ASSUME SoundNow, NEW a \in Held
  PROVE  /\ a \in Avs
         /\ a.type.ref = "mut" => a.id \in Muts(state.locls, stack)
         /\ is_reference(a.type) => RefOf(a) = {a.id} /\ a.id \in Refs(state.locls, stack)
<1>1. Slotted(fn, state.locls, stack, state.next_id)
  BY SoundSays, SoundFits
<1>2. a \in Avs
  BY <1>1 DEF Slotted, Held
<1>3. MutOf(a) \subseteq Muts(state.locls, stack) /\ RefOf(a) \subseteq Refs(state.locls, stack)
  BY RefsAre DEF Held
<1> QED
  BY <1>2, <1>3, RefOfIs DEF MutOf

LEMMA HeldOnce ==
  ASSUME SoundNow, NEW a \in Held, NEW b \in Held, a # b
  PROVE  RefOf(a) \cap RefOf(b) = {}
<1>1. Slotted(fn, state.locls, stack, state.next_id)
  BY SoundSays, SoundFits
<1> QED
  BY <1>1, ZenonT(40) DEF Slotted, Held

LEMMA SlotsAre ==
  ASSUME SoundNow
  PROVE  Slots \ {NoId} = Refs(state.locls, stack)
<1>1. \A id \in Slots : \E a \in Held : a.id = id
  BY DEF Slots, Held
<1>2. \A a \in Held : a.id \in Slots
  BY DEF Slots, Held
<1>3. ASSUME NEW id \in Slots, id # NoId PROVE id \in Refs(state.locls, stack)
  <2>1. PICK a \in Held : a.id = id
    BY <1>1, <1>3
  <2>2. is_reference(a.type)
    BY <1>3, <2>1, HeldIs DEF Avs
  <2> QED
    BY <2>1, <2>2, HeldIs
<1>4. ASSUME NEW id \in Refs(state.locls, stack) PROVE id \in Slots \ {NoId}
  <2>1. \E a \in Held : id \in RefOf(a)
    BY <1>4, RefsAre DEF Held
  <2>2. PICK a \in Held : id \in RefOf(a)
    BY <2>1
  <2>3. a \in Avs
    BY HeldIs
  <2>4. a.id = id /\ id # NoId
    BY <2>2, <2>3, RefOfIs
  <2> QED
    BY <1>2, <2>4
<1> QED
  BY <1>3, <1>4

LEMMA SoundKnows == SoundNow => BorrowsAreKnown
<1> SUFFICES ASSUME SoundNow PROVE BorrowsAreKnown
  OBVIOUS
<1> DEFINE M == Muts(state.locls, stack)
           I == Imms(state.locls, stack)
           L == Live(state.locls)
           g == state.graph
           p == PlacesOf(refs)
           K == Good(refs)
           U == UnseenIn(refs)
<1>1. /\ Slotted(fn, state.locls, stack, state.next_id) /\ Pointed(M, I, L, g, refs)
      /\ DOMAIN refs = M \cup I /\ Refs(state.locls, stack) = M \cup I
  BY SoundSays, SoundFits DEF SoundNow
<1> HIDE DEF M, I, L, p, K, U
<1>2. /\ Borrows(M, I, L, g, p, K, U) /\ Graph(g) /\ DOMAIN g = {frame_root} \cup M \cup I
      /\ M \cap I = {}
      /\ \A id \in M \cup I : p[id] = refs[id].place /\ (id \in U <=> refs[id].unseen)
  BY <1>1 DEF Pointed, p, K, U
<1>3. acyclic(g)
  BY <1>2 DEF Graph
<1>4. DOMAIN g = {frame_root} \cup (Slots \ {NoId})
  BY <1>1, <1>2, SlotsAre
<1>5. ASSUME NEW i \in DOMAIN state.locls, NEW id \in DOMAIN refs,
             ~refs[id].unseen, refs[id].place[1] = Local(i)
      PROVE  is_local_borrowed(state, i)
  <2> DEFINE elem == Local(i)
  <2>1. elem[1] # "arg"
    BY DEF Local
  <2> HIDE DEF elem
  <2>2. id \in (M \cup I) \ U /\ p[id][1] = elem
    BY <1>1, <1>2, <1>5 DEF elem
  <2>3. consistent_borrows(g, frame_root, elem) # {}
    BY <1>2, <2>1, <2>2, Unborrowed
  <2> QED
    BY <2>3 DEF is_local_borrowed, local_borrows, elem
<1>6. ASSUME NEW a \in Held, NEW b \in Held, a # b, a.type.ref = "mut", b.type.ref # "value",
             ~refs[a.id].unseen, ~refs[b.id].unseen, Overlap(refs[a.id].place, refs[b.id].place)
      PROVE  \/ b.id \in BorrowedFrom(g, a.id)
             \/ b.type.ref = "mut" /\ a.id \in BorrowedFrom(g, b.id)
  <2>1. is_reference(a.type) /\ is_reference(b.type)
    BY <1>6 DEF is_reference
  <2>2. a.id \in M /\ b.id \in M \cup I /\ a.id # b.id
    <3>1. a.id \in M /\ RefOf(a) = {a.id}
      BY <1>6, <2>1, HeldIs DEF M
    <3>2. b.id \in M \cup I /\ RefOf(b) = {b.id}
      BY <1>1, <2>1, HeldIs
    <3>3. RefOf(a) \cap RefOf(b) = {}
      BY <1>6, HeldOnce
    <3> QED
      BY <3>1, <3>2, <3>3
  <2>3. b.id \in M => b.type.ref = "mut"
    <3>1. b \in Avs
      BY HeldIs
    <3>2. b.type.ref \in {"mut", "imm"}
      BY <2>1, <3>1, RefOfIs
    <3>3. b.type.ref = "imm" => b.id \in I
      <4>1. ImmOf(b) \subseteq I
        BY RefsAre DEF Held, I
      <4> QED
        BY <4>1 DEF ImmOf
    <3> QED
      BY <1>2, <3>2, <3>3
  <2>4. Known(M, g, p, a.id, b.id)
    BY <1>2, <1>6, <2>2 DEF Borrows
  <2>5. a.id \in DOMAIN g /\ b.id \in DOMAIN g
    BY <1>2, <2>2
  <2>6. CASE Leads(g, p, a.id, b.id)
    BY <1>2, <2>2, <2>5, <2>6, LeadsBorrowed
  <2>7. CASE b.id \in M /\ Leads(g, p, b.id, a.id)
    BY <1>2, <2>2, <2>3, <2>5, <2>7, LeadsBorrowed
  <2> QED
    BY <2>4, <2>6, <2>7 DEF Known
<1> QED
  BY <1>3, <1>4, <1>5, <1>6 DEF BorrowsAreKnown

LEMMA SoundRefers == SoundNow => RefersToItsPlace
<1> SUFFICES ASSUME SoundNow PROVE RefersToItsPlace
  OBVIOUS
<1>1. /\ Pointed(Muts(state.locls, stack), Imms(state.locls, stack), Live(state.locls), state.graph, refs)
      /\ DOMAIN refs = Muts(state.locls, stack) \cup Imms(state.locls, stack)
  BY SoundSays, SoundFits DEF SoundNow
<1> QED
  BY <1>1 DEF Pointed, RefersToItsPlace

\* In every state of every run the borrow graph has no cycle and exactly the
\* references of the frame and the operands for nodes, and knows of each local and
\* each mutable reference that something else reaches into (abstract_state.py
\* and borrow_graph.py, over calls, returns and joins of blocks).
THEOREM BorrowsAlwaysKnown == Spec => []BorrowsAreKnown
<1>1. IInv => BorrowsAreKnown
  BY SoundKnows DEF IInv, BorrowsAreKnown
<1> QED
  BY <1>1, SoundAlways, PTL

\* No function that the verifier accepts moves or overwrites a container that a
\* reference which the verifier sees still points into.
THEOREM ReferencesStayGood == Spec => []RefersToItsPlace
<1>1. IInv => RefersToItsPlace
  BY SoundRefers DEF IInv
<1> QED
  BY <1>1, SoundAlways, PTL

\* What an accepted function returns is borrowed from what it was given, as its
\* callers take for granted (the model's call rests on it, so this is the
\* induction over the depth of calls).
THEOREM FunctionsReturnWhatTheyMay == Spec => []ReturnsWhatItMay
<1>1. IInv => ReturnsWhatItMay
  BY DEF IInv, ReturnsWhatItMay, Running
<1> QED
  BY <1>1, SoundAlways, PTL

=============================================================================
