---------------------------- MODULE Stdlib_proofs ----------------------------
(***************************************************************************)
(* Proofs about two modules of the standard library.                       *)
(*                                                                         *)
(* A token keeps its books: whatever is done with coins and preburns, for    *)
(* any set of addresses and any limits, what Info says is the sum of what    *)
(* there is, and so a request that waits can always be resolved.  A sum      *)
(* over a bag counts every copy, a sum over a queue every place.            *)
(*                                                                         *)
(* The validator and the discovery set stay aligned, for any addresses,      *)
(* keys, configurations and validators of genesis.                          *)
(***************************************************************************)
EXTENDS Libra, LibraSystem, SumTheorems


----------------------------------------------------------------------------
(* Sums over queues *)

LEMMA UptoNext ==
  ASSUME NEW n \in Nat
  PROVE  IsFiniteSet(1..n) /\ n + 1 \notin 1..n /\ (1..n) \cup {n + 1} = 1..n + 1
<1>1. IsFiniteSet(1..n)
  BY FS_Interval
<1>2. n + 1 \notin 1..n
  OBVIOUS
<1>3. \A i : i \in (1..n) \cup {n + 1} <=> i \in 1..n + 1
  OBVIOUS
<1> QED
  BY <1>1, <1>2, <1>3, Zenon

\* Shift one place: the first i + 1 places of a queue hold the first place and
\* the first i places of its tail.
LEMMA SumOfFirst ==
  ASSUME NEW f, NEW g, NEW n \in Nat,
         \A i \in 1..n + 1 : f[i] \in Nat,
         \A i \in 1..n : g[i] = f[i + 1]
  PROVE  SumFunctionOnSet(f, 1..n + 1) = f[1] + SumFunctionOnSet(g, 1..n)
<1> DEFINE F(i) == SumFunctionOnSet(f, 1..i)
           G(i) == SumFunctionOnSet(g, 1..i)
           C == {i \in Nat : i <= n => F(i + 1) = f[1] + G(i)}
<1>1. F(0) = 0 /\ G(0) = 0
  <2>1. 1..0 = {}
    OBVIOUS
  <2> QED
    BY <2>1, SumEmpty
<1>2. ASSUME NEW i \in Nat, i <= n PROVE F(i + 1) = f[i + 1] + F(i) /\ F(i) \in Nat
  <2>1. IsFiniteSet(1..i) /\ i + 1 \notin 1..i /\ (1..i) \cup {i + 1} = 1..i + 1
    BY UptoNext
  <2>2. \A j \in 1..i + 1 : f[j] \in Nat
    BY <1>2
  <2> QED
    BY <2>1, <2>2, SumAdd, SumType
<1>3. ASSUME NEW i \in Nat, i < n PROVE G(i + 1) = g[i + 1] + G(i) /\ G(i) \in Nat
  <2>1. IsFiniteSet(1..i) /\ i + 1 \notin 1..i /\ (1..i) \cup {i + 1} = 1..i + 1
    BY UptoNext
  <2>2. \A j \in 1..i + 1 : g[j] \in Nat
    BY <1>3
  <2> QED
    BY <2>1, <2>2, SumAdd, SumType
<1> HIDE DEF F, G
<1>4. 0 \in C
  BY <1>1, <1>2
<1>5. ASSUME NEW i \in Nat, i \in C PROVE i + 1 \in C
  <2> SUFFICES ASSUME i + 1 <= n PROVE F((i + 1) + 1) = f[1] + G(i + 1)
    OBVIOUS
  <2>1. F(i + 1) = f[1] + G(i)
    BY <1>5
  <2>2. F((i + 1) + 1) = f[(i + 1) + 1] + F(i + 1)
    BY <1>2
  <2>3. G(i + 1) = g[i + 1] + G(i) /\ G(i) \in Nat
    BY <1>3
  <2>4. g[i + 1] = f[(i + 1) + 1] /\ f[(i + 1) + 1] \in Nat /\ f[1] \in Nat
    OBVIOUS
  <2> QED
    BY <2>1, <2>2, <2>3, <2>4
<1> HIDE DEF C
<1>6. n \in C
  BY <1>4, <1>5, NatSetInduction
<1> QED
  BY <1>6 DEF C, F, G

\* The value of the requests of a queue.
LEMMA QueueType ==
  ASSUME NEW q \in Seq(Nat)
  PROVE  SumFunction(q) \in Nat /\ SumFunction(<<>>) = 0
<1>1. SumFunction(q) = SumFunctionOnSet(q, 1..Len(q)) /\ IsFiniteSet(1..Len(q))
  <2>1. DOMAIN q = 1..Len(q) /\ Len(q) \in Nat
    OBVIOUS
  <2> QED
    BY <2>1, UptoNext, Zenon DEF SumFunction
<1>2. \A i \in 1..Len(q) : q[i] \in Nat
  OBVIOUS
<1>3. SumFunction(<<>>) = SumFunctionOnSet(<<>>, {})
  <2>1. DOMAIN <<>> = {}
    OBVIOUS
  <2> QED
    BY <2>1, Zenon DEF SumFunction
<1> QED
  BY <1>1, <1>2, <1>3, SumType, SumEmpty

LEMMA QueueAppend ==
  ASSUME NEW q \in Seq(Nat), NEW value \in Nat
  PROVE  SumFunction(Append(q, value)) = SumFunction(q) + value
<1> DEFINE n == Len(q)
           p == Append(q, value)
<1>1. n \in Nat /\ DOMAIN q = 1..n /\ DOMAIN p = 1..n + 1 /\ p[n + 1] = value
      /\ \A i \in 1..n : p[i] = q[i] /\ q[i] \in Nat
  OBVIOUS
<1>2. SumFunction(q) = SumFunctionOnSet(q, 1..n)
      /\ SumFunction(p) = SumFunctionOnSet(p, 1..n + 1)
  BY <1>1, Zenon DEF SumFunction
<1> HIDE DEF n, p
<1>3. IsFiniteSet(1..n) /\ n + 1 \notin 1..n /\ (1..n) \cup {n + 1} = 1..n + 1
  BY <1>1, UptoNext
<1>4. \A i \in (1..n) \cup {n + 1} : p[i] \in Nat
  BY <1>1
<1>5. SumFunctionOnSet(p, 1..n + 1) = p[n + 1] + SumFunctionOnSet(p, 1..n)
  BY <1>3, <1>4, SumAdd
<1>6. SumFunctionOnSet(p, 1..n) = SumFunctionOnSet(q, 1..n)
  BY <1>1, <1>3, SumEqual
<1>7. SumFunctionOnSet(q, 1..n) \in Nat
  BY <1>1, <1>3, SumType
<1> QED
  BY <1>1, <1>2, <1>5, <1>6, <1>7 DEF p

LEMMA QueueTail ==
  ASSUME NEW q \in Seq(Nat), q # <<>>
  PROVE  /\ SumFunction(q) = Head(q) + SumFunction(Tail(q))
         /\ Head(q) \in Nat /\ SumFunction(Tail(q)) \in Nat
<1> DEFINE n == Len(q) - 1
           p == Tail(q)
<1>1. /\ n \in Nat /\ DOMAIN q = 1..n + 1 /\ DOMAIN p = 1..n /\ p \in Seq(Nat)
      /\ \A i \in 1..n + 1 : q[i] \in Nat
      /\ \A i \in 1..n : p[i] = q[i + 1]
      /\ q[1] = Head(q) /\ Head(q) \in Nat
  OBVIOUS
<1>2. SumFunction(q) = SumFunctionOnSet(q, 1..n + 1)
      /\ SumFunction(p) = SumFunctionOnSet(p, 1..n)
  BY <1>1, Zenon DEF SumFunction
<1>3. SumFunction(p) \in Nat
  BY <1>1, QueueType
<1> HIDE DEF n, p
<1>4. SumFunctionOnSet(q, 1..n + 1) = q[1] + SumFunctionOnSet(p, 1..n)
  <2>1. n \in Nat
    BY <1>1
  <2>2. \A i \in 1..n + 1 : q[i] \in Nat
    BY <1>1
  <2>3. \A i \in 1..n : p[i] = q[i + 1]
    BY <1>1
  <2> QED
    BY <2>1, <2>2, <2>3, SumOfFirst
<1> QED
  BY <1>1, <1>2, <1>3, <1>4 DEF p

----------------------------------------------------------------------------
(* Sums over bags *)

\* A bag of finitely many elements of T.
FiniteBag(bag, T) ==
  /\ IsABag(bag)
  /\ IsFiniteSet(BagToSet(bag))
  /\ BagToSet(bag) \subseteq T

\* What the elements of a bag weigh together.
Weight(bag, w) == SumFunction([x \in BagToSet(bag) |-> bag[x] * w[x]])

LEMMA WeightIsSum ==
  ASSUME NEW T, NEW bag, FiniteBag(bag, T), NEW w \in [T -> Nat]
  PROVE  \E f : /\ Weight(bag, w) = SumFunctionOnSet(f, BagToSet(bag))
                /\ \A x \in BagToSet(bag) : f[x] = bag[x] * w[x] /\ f[x] \in Nat
                                            /\ bag[x] \in Nat /\ bag[x] > 0 /\ w[x] \in Nat
                /\ Weight(bag, w) \in Nat
<1> DEFINE D == BagToSet(bag)
           f == [x \in D |-> bag[x] * w[x]]
<1>1. Weight(bag, w) = SumFunctionOnSet(f, D)
  BY Zenon DEF Weight, SumFunction
<1>2. ASSUME NEW x \in D
      PROVE  /\ f[x] = bag[x] * w[x] /\ f[x] \in Nat
             /\ bag[x] \in Nat /\ bag[x] > 0 /\ w[x] \in Nat
  <2>1. bag[x] \in {n \in Nat : n > 0} /\ w[x] \in Nat
    BY <1>2, Zenon DEF FiniteBag, IsABag, BagToSet
  <2>2. \A m, n \in Nat : m * n \in Nat
    OBVIOUS
  <2> QED
    BY <2>1, <2>2
<1>3. IsFiniteSet(D)
  BY DEF FiniteBag
<1> HIDE DEF f, D
<1>4. SumFunctionOnSet(f, D) \in Nat
  BY <1>2, <1>3, SumType
<1> QED
  BY <1>1, <1>2, <1>4 DEF D

LEMMA EmptyWeight ==
  ASSUME NEW T, NEW w
  PROVE  FiniteBag(EmptyBag, T) /\ Weight(EmptyBag, w) = 0
<1>1. EmptyBag = [x \in {} |-> 1] /\ BagToSet(EmptyBag) = {}
  BY DEF EmptyBag, SetToBag, BagToSet
<1>2. FiniteBag(EmptyBag, T)
  BY <1>1, FS_EmptySet DEF FiniteBag, IsABag, BagToSet
<1> QED
  BY <1>1, <1>2, SumEmpty, Zenon DEF Weight, SumFunction

LEMMA Added ==
  ASSUME NEW T, NEW bag, FiniteBag(bag, T), NEW w \in [T -> Nat], NEW x \in T
  PROVE  /\ FiniteBag(B!BagAdd(bag, x), T)
         /\ Weight(B!BagAdd(bag, x), w) = Weight(bag, w) + w[x]
         /\ Weight(bag, w) \in Nat /\ w[x] \in Nat
<1> DEFINE D == BagToSet(bag)
           more == B!BagAdd(bag, x)
           E == BagToSet(more)
<1>1. /\ D = DOMAIN bag /\ E = DOMAIN more /\ IsFiniteSet(D) /\ D \subseteq T
      /\ \A e \in D : bag[e] \in Nat /\ bag[e] > 0
  BY DEF FiniteBag, BagToSet, IsABag
<1>2. E = D \cup {x} /\ \A e \in D \ {x} : more[e] = bag[e]
  BY DEF B!BagAdd, BagToSet
<1>3. more[x] = IF x \in D THEN bag[x] + 1 ELSE 1
  BY DEF B!BagAdd, BagToSet
<1>4. FiniteBag(more, T)
  <2>1. more = [e \in DOMAIN more |-> more[e]]
    BY DEF B!BagAdd
  <2> HIDE DEF more
  <2>2. \A e \in DOMAIN more : more[e] \in {n \in Nat : n > 0}
    BY <1>1, <1>2, <1>3
  <2>3. IsABag(more)
    BY <2>1, <2>2, Zenon DEF IsABag
  <2>4. IsFiniteSet(E) /\ E \subseteq T
    BY <1>1, <1>2, FS_AddElement
  <2> QED
    BY <2>3, <2>4 DEF FiniteBag
<1> HIDE DEF D, E, more
<1>5. PICK f : /\ Weight(bag, w) = SumFunctionOnSet(f, D) /\ Weight(bag, w) \in Nat
               /\ \A e \in D : f[e] = bag[e] * w[e] /\ f[e] \in Nat
  BY WeightIsSum DEF D
<1>6. PICK g : /\ Weight(more, w) = SumFunctionOnSet(g, E)
               /\ \A e \in E : g[e] = more[e] * w[e] /\ g[e] \in Nat
  BY <1>4, WeightIsSum DEF E
<1>7. \A e \in D \ {x} : g[e] = f[e]
  BY <1>2, <1>5, <1>6
<1>8. w[x] \in Nat
  OBVIOUS
<1>9. CASE x \in D
  <2>1. g[x] = f[x] + w[x]
    <3>1. g[x] = (bag[x] + 1) * w[x] /\ f[x] = bag[x] * w[x] /\ bag[x] \in Nat
      BY <1>1, <1>2, <1>3, <1>5, <1>6, <1>9
    <3>2. \A m, n \in Nat : (m + 1) * n = m * n + n
      OBVIOUS
    <3> QED
      BY <1>8, <3>1, <3>2
  <2>2. E = D /\ \A e \in D : f[e] \in Nat /\ g[e] \in Nat
    BY <1>2, <1>5, <1>6, <1>9
  <2>3. /\ SumFunctionOnSet(g, D) = SumFunctionOnSet(f, D) - f[x] + g[x]
        /\ SumFunctionOnSet(f, D) \in Nat
    BY <1>1, <1>7, <1>9, <2>2, SumUpdate
  <2> QED
    BY <1>4, <1>5, <1>6, <1>8, <1>9, <2>1, <2>2, <2>3 DEF more
<1>10. CASE x \notin D
  <2>1. g[x] = w[x]
    <3>1. g[x] = 1 * w[x]
      BY <1>2, <1>3, <1>6, <1>10
    <3> QED
      BY <1>8, <3>1
  <2>2. \A e \in D \cup {x} : g[e] \in Nat
    BY <1>2, <1>6
  <2>3. SumFunctionOnSet(g, D \cup {x}) = g[x] + SumFunctionOnSet(g, D)
    BY <1>1, <1>10, <2>2, SumAdd
  <2>4. SumFunctionOnSet(g, D) = SumFunctionOnSet(f, D)
    BY <1>1, <1>7, <1>10, SumEqual
  <2> QED
    BY <1>2, <1>4, <1>5, <1>6, <1>8, <2>1, <2>3, <2>4 DEF more
<1> QED
  BY <1>9, <1>10

LEMMA Removed ==
  ASSUME NEW T, NEW bag, FiniteBag(bag, T), NEW w \in [T -> Nat], NEW x, BagIn(x, bag)
  PROVE  /\ FiniteBag(B!BagRemove(bag, x), T)
         /\ Weight(bag, w) = Weight(B!BagRemove(bag, x), w) + w[x]
         /\ Weight(B!BagRemove(bag, x), w) \in Nat /\ w[x] \in Nat /\ x \in T
<1> DEFINE D == BagToSet(bag)
           less == B!BagRemove(bag, x)
           E == BagToSet(less)
<1>1. /\ D = DOMAIN bag /\ E = DOMAIN less /\ IsFiniteSet(D) /\ D \subseteq T /\ x \in D
      /\ \A e \in D : bag[e] \in Nat /\ bag[e] > 0
  BY DEF FiniteBag, BagToSet, IsABag, BagIn
<1>2. \A e \in D \ {x} : e \in E /\ less[e] = bag[e]
  BY <1>1 DEF B!BagRemove, BagToSet
<1>3. IF bag[x] = 1 THEN E = D \ {x} ELSE E = D /\ less[x] = bag[x] - 1
  BY <1>1 DEF B!BagRemove, BagToSet
<1>4. FiniteBag(less, T)
  <2>1. less = [e \in DOMAIN less |-> less[e]]
    BY <1>1 DEF B!BagRemove
  <2> HIDE DEF less
  <2>2. \A e \in DOMAIN less : less[e] \in {n \in Nat : n > 0}
    BY <1>1, <1>2, <1>3
  <2>3. IsABag(less)
    BY <2>1, <2>2, Zenon DEF IsABag
  <2>4. IsFiniteSet(E) /\ E \subseteq T
    BY <1>1, <1>3, FS_Subset
  <2> QED
    BY <2>3, <2>4 DEF FiniteBag
<1> HIDE DEF D, E, less
<1>5. PICK f : /\ Weight(bag, w) = SumFunctionOnSet(f, D)
               /\ \A e \in D : f[e] = bag[e] * w[e] /\ f[e] \in Nat
  BY WeightIsSum DEF D
<1>6. PICK g : /\ Weight(less, w) = SumFunctionOnSet(g, E) /\ Weight(less, w) \in Nat
               /\ \A e \in E : g[e] = less[e] * w[e] /\ g[e] \in Nat
  BY <1>4, WeightIsSum DEF E
<1>7. \A e \in D \ {x} : g[e] = f[e]
  BY <1>2, <1>5, <1>6
<1>8. w[x] \in Nat /\ x \in T
  BY <1>1
<1>9. CASE bag[x] # 1
  <2>1. f[x] = g[x] + w[x]
    <3>1. g[x] = (bag[x] - 1) * w[x] /\ f[x] = bag[x] * w[x] /\ bag[x] \in Nat
      BY <1>1, <1>3, <1>5, <1>6, <1>9
    <3>2. \A m, n \in Nat : m * n = (m - 1) * n + n
      OBVIOUS
    <3> QED
      BY <1>8, <3>1, <3>2
  <2>2. E = D /\ \A e \in D : f[e] \in Nat /\ g[e] \in Nat
    BY <1>3, <1>5, <1>6, <1>9
  <2>3. /\ SumFunctionOnSet(g, D) = SumFunctionOnSet(f, D) - f[x] + g[x]
        /\ SumFunctionOnSet(f, D) \in Nat
    BY <1>1, <1>7, <2>2, SumUpdate
  <2>4. f[x] \in Nat /\ g[x] \in Nat
    BY <1>1, <2>2
  <2> QED
    BY <1>4, <1>5, <1>6, <1>8, <2>1, <2>2, <2>3, <2>4 DEF less
<1>10. CASE bag[x] = 1
  <2>1. f[x] = w[x]
    <3>1. f[x] = 1 * w[x]
      BY <1>1, <1>5, <1>10
    <3> QED
      BY <1>8, <3>1
  <2>2. SumFunctionOnSet(f, D) = f[x] + SumFunctionOnSet(f, D \ {x})
    BY <1>1, <1>5, SumRemove
  <2>3. IsFiniteSet(D \ {x})
    BY <1>1, FS_Subset
  <2>4. SumFunctionOnSet(g, D \ {x}) = SumFunctionOnSet(f, D \ {x})
    BY <1>7, <2>3, SumEqual
  <2>5. Weight(less, w) = SumFunctionOnSet(f, D \ {x})
    BY <1>3, <1>6, <1>10, <2>4
  <2>6. Weight(bag, w) = w[x] + Weight(less, w)
    BY <1>5, <2>1, <2>2, <2>5
  <2>7. Weight(bag, w) = Weight(less, w) + w[x]
    BY <1>6, <1>8, <2>6
  <2> QED
    BY <1>4, <1>6, <1>8, <2>7, Zenon DEF less
<1> QED
  BY <1>9, <1>10

----------------------------------------------------------------------------
(* Taking the first request off a queue *)

\* After i swaps the first of n + 1 elements is behind the i next.
Shifted(q, n, i) ==
  [j \in 1..n + 1 |-> IF j <= i THEN q[j + 1] ELSE IF j = i + 1 THEN q[1] ELSE q[j]]

LEMMA SwapShifts ==
  ASSUME NEW q, NEW n \in Nat, NEW i \in 1..n
  PROVE  swap(Shifted(q, n, i - 1), i, i + 1) = Shifted(q, n, i)
<1> DEFINE v == Shifted(q, n, i - 1)
           w == swap(v, i, i + 1)
<1>1. \A j \in 1..n + 1 :
        v[j] = IF j < i THEN q[j + 1] ELSE IF j = i THEN q[1] ELSE q[j]
  BY DEF Shifted
<1>2. DOMAIN v = 1..n + 1 /\ i \in 1..n + 1 /\ i + 1 \in 1..n + 1
  BY DEF Shifted
<1> HIDE DEF v
<1>3. w = [j \in 1..n + 1 |-> IF j = i + 1 THEN v[i] ELSE IF j = i THEN v[i + 1] ELSE v[j]]
  BY <1>2 DEF swap
<1>4. \A j \in 1..n + 1 : w[j] = Shifted(q, n, i)[j]
  <2> SUFFICES ASSUME NEW j \in 1..n + 1 PROVE w[j] = Shifted(q, n, i)[j]
    OBVIOUS
  <2> HIDE DEF w
  <2> QED
    BY <1>1, <1>2, <1>3 DEF Shifted
<1> HIDE DEF w
<1>5. w = [j \in 1..n + 1 |-> w[j]]
  BY <1>3
<1>6. w = Shifted(q, n, i)
  BY <1>4, <1>5, Zenon DEF Shifted
<1> QED
  BY <1>6 DEF w, v

\* Vector::remove at 0 leaves the others, in their order.
LEMMA RestIsTail ==
  ASSUME NEW T, NEW q \in Seq(T), q # <<>>
  PROVE  rest(q) = Tail(q)
<1> DEFINE n == Len(q) - 1
           IsSwapped(f) ==
             f = [i \in 0..n |-> IF i = 0 THEN q ELSE swap(f[i - 1], i, i + 1)]
           swapped == CHOOSE f : IsSwapped(f)
<1>1. n \in Nat /\ Len(q) = n + 1
  BY LenProperties, EmptySeq
<1>2. q \in [1..n + 1 -> T]
  <2>1. q \in [1..Len(q) -> T]
    BY LenProperties
  <2> QED
    BY <1>1, <2>1, Zenon
<1>3. q = [j \in 1..n + 1 |-> q[j]] /\ \A j \in 1..n + 1 : q[j] \in T
  BY <1>2, Zenon
<1>4. /\ Tail(q) \in Seq(T) /\ Len(Tail(q)) = n
      /\ \A j \in 1..n : Tail(q)[j] = q[j + 1]
  BY <1>1, HeadTailProperties
<1>5. rest(q) = Front(swapped[n])
  BY Zenon DEF rest, n
<1> HIDE DEF n
<1>6. Shifted(q, n, 0) = q
  <2>1. \A j \in 1..n + 1 :
          (IF j <= 0 THEN q[j + 1] ELSE IF j = 0 + 1 THEN q[1] ELSE q[j]) = q[j]
    BY <1>1
  <2> QED
    BY <1>3, <2>1, Zenon DEF Shifted
<1>7. IsSwapped(swapped)
  <2> DEFINE g == [i \in 0..n |-> Shifted(q, n, i)]
  <2>1. \A i \in 0..n : i # 0 => i \in 1..n /\ i - 1 \in 0..n
    BY <1>1
  <2>2. \A i \in 0..n :
          Shifted(q, n, i) = IF i = 0 THEN q ELSE swap(g[i - 1], i, i + 1)
    BY <1>1, <1>6, <2>1, SwapShifts, Zenon
  <2>3. IsSwapped(g)
    BY <2>2, Zenon
  <2> HIDE DEF IsSwapped
  <2> QED
    BY <2>3
<1> HIDE DEF swapped
<1>8. swapped[n] = Shifted(q, n, n)
  <2> DEFINE C == {i \in Nat : i <= n => swapped[i] = Shifted(q, n, i)}
  <2>1. 0 \in 0..n /\ \A i \in Nat : i + 1 <= n => i + 1 \in 0..n /\ i + 1 # 0
                                                 /\ (i + 1) - 1 = i /\ i <= n
                                                 /\ i + 1 \in 1..n
    BY <1>1
  <2>2. swapped[0] = q
    BY <1>7, <2>1, Zenon
  <2>3. 0 \in C
    BY <1>6, <2>2
  <2>4. ASSUME NEW i \in Nat, i \in C PROVE i + 1 \in C
    <3> SUFFICES ASSUME i + 1 <= n PROVE swapped[i + 1] = Shifted(q, n, i + 1)
      OBVIOUS
    <3>1. swapped[i + 1] = swap(swapped[(i + 1) - 1], i + 1, (i + 1) + 1)
      BY <1>7, <2>1, Zenon
    <3>2. swapped[i] = Shifted(q, n, i)
      BY <2>1, <2>4
    <3>3. swap(Shifted(q, n, (i + 1) - 1), i + 1, (i + 1) + 1) = Shifted(q, n, i + 1)
      BY <1>1, <2>1, SwapShifts
    <3> QED
      BY <2>1, <3>1, <3>2, <3>3, Zenon
  <2> HIDE DEF C
  <2>5. n \in C
    BY <1>1, <2>3, <2>4, NatSetInduction
  <2> QED
    BY <1>1, <2>5 DEF C
<1>9. Front(Shifted(q, n, n)) = Tail(q)
  <2> DEFINE s == Shifted(q, n, n)
  <2>1. /\ s \in [1..n + 1 -> T]
        /\ \A j \in 1..n : s[j] = q[j + 1]
    <3>1. \A j \in 1..n + 1 : s[j] \in T
      BY <1>1, <1>3 DEF Shifted
    <3>2. s = [j \in 1..n + 1 |-> s[j]]
      BY DEF Shifted
    <3> QED
      BY <1>1, <3>1, <3>2 DEF Shifted
  <2> HIDE DEF s
  <2>2. s \in Seq(T) /\ Len(s) = n + 1
    BY <1>1, <2>1
  <2>3. Front(s) = SubSeq(s, 1, n)
    <3>1. (n + 1) - 1 = n
      BY <1>1
    <3> QED
      BY <2>2, <3>1, Zenon DEF Front
  <2>4. /\ SubSeq(s, 1, n) \in Seq(T) /\ Len(SubSeq(s, 1, n)) = n
        /\ \A j \in 1..n : SubSeq(s, 1, n)[j] = s[j]
    BY <1>1, <2>1, SubSeqProperties
  <2>5. SubSeq(s, 1, n) = Tail(q)
    BY <1>1, <1>4, <2>1, <2>4, SeqEqual
  <2> QED
    BY <2>3, <2>5, Zenon DEF s
<1> QED
  BY <1>5, <1>8, <1>9, Zenon

----------------------------------------------------------------------------
(* The books *)

Queues == Seq(Value)
Places == {None} \cup Queues

\* What a coin, a queue and a place are worth.
CoinWorth == [c \in Value |-> c]
QueueWorth == [q \in Queues |-> SumFunction(q)]
PlaceWorth == [p \in Places |-> IF p = None THEN 0 ELSE SumFunction(p)]

PublishedWorth(places) == SumFunction([a \in Addresses |-> PlaceWorth[places[a]]])

LEMMA WorthTypes ==
  /\ CoinWorth \in [Value -> Nat] /\ \A c \in Value : CoinWorth[c] = c
  /\ QueueWorth \in [Queues -> Nat] /\ \A q \in Queues : QueueWorth[q] = SumFunction(q)
  /\ PlaceWorth \in [Places -> Nat] /\ PlaceWorth[None] = 0
  /\ \A q \in Queues : q # None /\ q \in Seq(Nat) /\ PlaceWorth[q] = QueueWorth[q]
<1>1. \A c \in Value : c \in Nat
  BY LibraAssumption DEF Value
<1>2. \A q \in Queues : q \in Seq(Nat)
  BY <1>1, SeqMonotonic DEF Queues
<1>3. \A q \in Queues : q # None /\ SumFunction(q) \in Nat
  BY <1>2, LibraAssumption, QueueType
<1>4. CoinWorth \in [Value -> Nat] /\ \A c \in Value : CoinWorth[c] = c
  BY <1>1 DEF CoinWorth
<1>5. QueueWorth \in [Queues -> Nat] /\ \A q \in Queues : QueueWorth[q] = SumFunction(q)
  BY <1>3, Zenon DEF QueueWorth
<1>6. \A p \in Places : (IF p = None THEN 0 ELSE SumFunction(p)) \in Nat
  BY <1>3 DEF Places
<1>7. PlaceWorth \in [Places -> Nat]
  BY <1>6, Zenon DEF PlaceWorth
<1>8. PlaceWorth[None] = 0 /\ \A q \in Queues : PlaceWorth[q] = SumFunction(q)
  BY <1>3, Zenon DEF PlaceWorth, Places
<1> QED
  BY <1>2, <1>3, <1>4, <1>5, <1>7, <1>8, Zenon

LEMMA PublishedUpdate ==
  ASSUME NEW places \in [Addresses -> Places], NEW a \in Addresses, NEW p \in Places
  PROVE  /\ PublishedWorth([places EXCEPT ![a] = p])
              = PublishedWorth(places) - PlaceWorth[places[a]] + PlaceWorth[p]
         /\ PublishedWorth(places) \in Nat
         /\ PlaceWorth[places[a]] \in Nat /\ PlaceWorth[p] \in Nat
         /\ PlaceWorth[places[a]] <= PublishedWorth(places)
<1> DEFINE after == [places EXCEPT ![a] = p]
           f == [x \in Addresses |-> PlaceWorth[places[x]]]
           g == [x \in Addresses |-> PlaceWorth[after[x]]]
<1>1. PublishedWorth(places) = SumFunctionOnSet(f, Addresses)
      /\ PublishedWorth(after) = SumFunctionOnSet(g, Addresses)
  BY Zenon DEF PublishedWorth, SumFunction
<1>2. /\ \A x \in Addresses : places[x] \in Places /\ after[x] \in Places
      /\ \A x \in Addresses \ {a} : after[x] = places[x]
      /\ after[a] = p
  BY Zenon
<1> HIDE DEF after
<1>3. /\ \A x \in Addresses : f[x] \in Nat /\ g[x] \in Nat
      /\ \A x \in Addresses \ {a} : g[x] = f[x]
      /\ f[a] = PlaceWorth[places[a]] /\ g[a] = PlaceWorth[p]
  BY <1>2, WorthTypes
<1> HIDE DEF f, g
<1>4. /\ SumFunctionOnSet(g, Addresses) = SumFunctionOnSet(f, Addresses) - f[a] + g[a]
      /\ SumFunctionOnSet(f, Addresses) \in Nat
      /\ f[a] <= SumFunctionOnSet(f, Addresses)
  BY <1>3, LibraAssumption, SumUpdate
<1>5. f[a] \in Nat /\ g[a] \in Nat
  BY <1>3
<1> QED
  BY <1>1, <1>3, <1>4, <1>5, Zenon DEF after

LEMMA NothingPublished == PublishedWorth([a \in Addresses |-> None]) = 0
<1> DEFINE f == [a \in Addresses |-> PlaceWorth[[b \in Addresses |-> None][a]]]
<1>1. PublishedWorth([a \in Addresses |-> None]) = SumFunctionOnSet(f, Addresses)
  BY Zenon DEF PublishedWorth, SumFunction
<1>2. \A a \in Addresses : f[a] = 0
  BY WorthTypes
<1> HIDE DEF f
<1> DEFINE C == {S \in SUBSET Addresses : SumFunctionOnSet(f, S) = 0}
<1>3. {} \in C
  BY SumEmpty
<1>4. ASSUME NEW S \in SUBSET Addresses, NEW x \in Addresses \ S, S \in C
      PROVE  S \cup {x} \in C
  <2>1. IsFiniteSet(S) /\ \A y \in S \cup {x} : f[y] \in Nat
    BY <1>2, LibraAssumption, FS_Subset
  <2>2. SumFunctionOnSet(f, S \cup {x}) = f[x] + SumFunctionOnSet(f, S)
    BY <2>1, SumAdd
  <2> QED
    BY <1>2, <1>4, <2>2
<1> HIDE DEF C
<1>5. Addresses \in C
  BY <1>3, <1>4, LibraAssumption, FiniteSetInduction
<1> QED
  BY <1>1, <1>5 DEF C

\* The books balance.
Books ==
  /\ FiniteBag(coins, Value)
  /\ FiniteBag(preburns, Queues)
  /\ published \in [Addresses -> Places]
  /\ total_value \in 0..MaxU128 /\ preburn_value \in Value
  /\ preburn_value = PublishedWorth(published) + Weight(preburns, QueueWorth)
  /\ total_value = Weight(coins, CoinWorth) + preburn_value

Inv ==
  /\ Books
  /\ capability \in Addresses \cup {InHand}
  /\ sender \in Addresses

LEMMA BooksTell ==
  ASSUME Books
  PROVE  TotalIsCoins /\ PreburnIsRequests
<1>1. Coins = Weight(coins, CoinWorth)
  <2> DEFINE f == [c \in BagToSet(coins) |-> coins[c] * c]
             g == [c \in BagToSet(coins) |-> coins[c] * CoinWorth[c]]
  <2>1. \A c \in BagToSet(coins) : CoinWorth[c] = c
    BY WorthTypes DEF Books, FiniteBag
  <2>2. f = g
    BY <2>1
  <2>3. Coins = SumFunction(f) /\ Weight(coins, CoinWorth) = SumFunction(g)
    BY Zenon DEF Coins, Weight
  <2> QED
    BY <2>2, <2>3, Zenon
<1>2. Requested = PublishedWorth(published) + Weight(preburns, QueueWorth)
  <2> DEFINE f == [q \in BagToSet(preburns) |-> preburns[q] * SumFunction(q)]
             g == [q \in BagToSet(preburns) |-> preburns[q] * QueueWorth[q]]
             h == [a \in Addresses |->
                     IF published[a] = None THEN 0 ELSE SumFunction(published[a])]
             k == [a \in Addresses |-> PlaceWorth[published[a]]]
  <2>1. \A q \in BagToSet(preburns) : QueueWorth[q] = SumFunction(q)
    BY WorthTypes, Zenon DEF Books, FiniteBag
  <2>2. f = g
    BY <2>1, Zenon
  <2>3. \A a \in Addresses :
          PlaceWorth[published[a]] =
            IF published[a] = None THEN 0 ELSE SumFunction(published[a])
    BY Zenon DEF Books, PlaceWorth
  <2>4. h = k
    BY <2>3, Zenon
  <2>5. Requested = SumFunction(h) + SumFunction(f)
    BY Zenon DEF Requested
  <2>6. PublishedWorth(published) = SumFunction(k)
        /\ Weight(preburns, QueueWorth) = SumFunction(g)
    BY Zenon DEF PublishedWorth, Weight
  <2> QED
    BY <2>2, <2>4, <2>5, <2>6, Zenon
<1> QED
  BY <1>1, <1>2, Zenon DEF Books, TotalIsCoins, PreburnIsRequests

----------------------------------------------------------------------------
(* The calls keep the books *)

\* What an element adds to a bag it joins, and takes from one it leaves.
LEMMA CoinAdded ==
  ASSUME NEW bag, FiniteBag(bag, Value), NEW c \in Value
  PROVE  /\ FiniteBag(B!BagAdd(bag, c), Value)
         /\ Weight(B!BagAdd(bag, c), CoinWorth) = Weight(bag, CoinWorth) + c
         /\ Weight(bag, CoinWorth) \in Nat /\ c \in Nat
  BY Added, WorthTypes

LEMMA CoinRemoved ==
  ASSUME NEW bag, FiniteBag(bag, Value), NEW c, BagIn(c, bag)
  PROVE  /\ FiniteBag(B!BagRemove(bag, c), Value)
         /\ Weight(bag, CoinWorth) = Weight(B!BagRemove(bag, c), CoinWorth) + c
         /\ Weight(B!BagRemove(bag, c), CoinWorth) \in Nat /\ c \in Value /\ c \in Nat
  BY Removed, WorthTypes

LEMMA QueueAdded ==
  ASSUME NEW bag, FiniteBag(bag, Queues), NEW q \in Queues
  PROVE  /\ FiniteBag(B!BagAdd(bag, q), Queues)
         /\ Weight(B!BagAdd(bag, q), QueueWorth) = Weight(bag, QueueWorth) + QueueWorth[q]
         /\ Weight(bag, QueueWorth) \in Nat /\ QueueWorth[q] \in Nat
  BY Added, WorthTypes

LEMMA QueueRemoved ==
  ASSUME NEW bag, FiniteBag(bag, Queues), NEW q, BagIn(q, bag)
  PROVE  /\ FiniteBag(B!BagRemove(bag, q), Queues)
         /\ Weight(bag, QueueWorth) = Weight(B!BagRemove(bag, q), QueueWorth) + QueueWorth[q]
         /\ Weight(B!BagRemove(bag, q), QueueWorth) \in Nat
         /\ QueueWorth[q] \in Nat /\ q \in Queues
  BY Removed, WorthTypes

\* A request more, and the oldest less.
LEMMA RequestAdded ==
  ASSUME NEW q \in Queues, NEW c \in Value
  PROVE  Append(q, c) \in Queues /\ QueueWorth[Append(q, c)] = QueueWorth[q] + c
<1>1. Append(q, c) \in Queues
  BY DEF Queues
<1>2. q \in Seq(Nat) /\ c \in Nat
  BY WorthTypes
<1> QED
  BY <1>1, <1>2, QueueAppend, WorthTypes

LEMMA RequestResolved ==
  ASSUME NEW q \in Queues, q # <<>>
  PROVE  /\ rest(q) = Tail(q) /\ Tail(q) \in Queues /\ Head(q) \in Value
         /\ QueueWorth[q] = Head(q) + QueueWorth[Tail(q)]
         /\ QueueWorth[Tail(q)] \in Nat /\ Head(q) \in Nat
<1>1. rest(q) = Tail(q)
  BY RestIsTail DEF Queues
<1>2. Tail(q) \in Queues /\ Head(q) \in Value
  BY HeadTailProperties DEF Queues
<1>3. q \in Seq(Nat)
  BY WorthTypes
<1>4. SumFunction(q) = Head(q) + SumFunction(Tail(q))
      /\ Head(q) \in Nat /\ SumFunction(Tail(q)) \in Nat
  BY <1>3, QueueTail
<1> QED
  BY <1>1, <1>2, <1>4, WorthTypes, Zenon

LEMMA NumbersAreNat ==
  /\ MaxU64 \in Nat /\ MaxU128 \in Nat /\ MintLimit \in Nat
  /\ MintLimit <= MaxU64 /\ MaxU64 <= MaxU128
  /\ \A c : c \in Value <=> c \in Nat /\ c <= MaxU64
BY LibraAssumption DEF Value

\* The calls that only move coins about.
LEMMA CoinCalls ==
  ASSUME Books,
         \/ \E value \in Value : mint(value)
         \/ zero
         \/ \E coin \in BagToSet(coins) :
              \/ \E value \in Value : withdraw(coin, value)
              \/ \E check \in BagToSet(coins) : deposit(coin, check)
              \/ destroy_zero(coin)
  PROVE  Books'
<1> DEFINE C == Weight(coins, CoinWorth)
           D == Weight(coins', CoinWorth)
<1>1. FiniteBag(coins, Value) /\ total_value \in Nat /\ total_value <= MaxU128
      /\ preburn_value \in Nat /\ total_value = C + preburn_value
  BY NumbersAreNat DEF Books
<1>2. ASSUME UNCHANGED <<preburn_value, published, preburns>>,
             FiniteBag(coins', Value), total_value' \in 0..MaxU128,
             total_value' = D + preburn_value
      PROVE  Books'
  BY <1>2 DEF Books
<1>3. ASSUME UNCHANGED <<info, published, preburns>>, FiniteBag(coins', Value), D = C
      PROVE  Books'
  BY <1>1, <1>2, <1>3, NumbersAreNat DEF info
<1>4. ASSUME NEW value \in Value, mint(value) PROVE Books'
  <2>1. FiniteBag(coins', Value) /\ D = C + value /\ C \in Nat /\ value \in Nat
    BY <1>1, <1>4, CoinAdded DEF mint
  <2>2. UNCHANGED <<preburn_value, published, preburns>>
        /\ total_value' = total_value + value /\ total_value + value <= MaxU128
    BY <1>4 DEF mint
  <2> HIDE DEF C, D
  <2>3. total_value' \in 0..MaxU128 /\ total_value' = D + preburn_value
    BY <1>1, <2>1, <2>2, NumbersAreNat
  <2> QED
    BY <1>2, <2>1, <2>2, <2>3
<1>5. ASSUME zero PROVE Books'
  <2>1. 0 \in Value
    BY NumbersAreNat
  <2>2. FiniteBag(coins', Value) /\ D = C + 0 /\ C \in Nat
    BY <1>1, <1>5, <2>1, CoinAdded DEF zero
  <2> QED
    BY <1>3, <1>5, <2>2 DEF zero
<1>6. ASSUME NEW coin, BagIn(coin, coins), NEW value \in Value, withdraw(coin, value)
      PROVE  Books'
  <2> DEFINE less == B!BagRemove(coins, coin)
             kept == B!BagAdd(less, coin - value)
  <2>1. FiniteBag(less, Value) /\ C = Weight(less, CoinWorth) + coin
        /\ Weight(less, CoinWorth) \in Nat /\ coin \in Value
    BY <1>1, <1>6, CoinRemoved
  <2>2. coin >= value /\ coins' = B!BagAdd(kept, value) /\ UNCHANGED <<info, published, preburns>>
    BY <1>6 DEF withdraw
  <2>3. coin - value \in Value /\ coin \in Nat /\ value \in Nat
    BY <2>1, <2>2, NumbersAreNat
  <2> HIDE DEF less
  <2>4. FiniteBag(kept, Value)
        /\ Weight(kept, CoinWorth) = Weight(less, CoinWorth) + (coin - value)
    BY <2>1, <2>3, CoinAdded
  <2> HIDE DEF kept
  <2>5. FiniteBag(coins', Value) /\ D = Weight(kept, CoinWorth) + value
    BY <2>2, <2>4, CoinAdded
  <2> HIDE DEF C, D
  <2>6. D = C
    BY <2>1, <2>3, <2>4, <2>5
  <2> QED
    BY <1>3, <2>2, <2>5, <2>6
<1>7. ASSUME NEW coin, BagIn(coin, coins), NEW check, deposit(coin, check)
      PROVE  Books'
  <2> DEFINE one == B!BagRemove(coins, coin)
             two == B!BagRemove(one, check)
  <2>1. FiniteBag(one, Value) /\ C = Weight(one, CoinWorth) + coin /\ coin \in Nat
    BY <1>1, <1>7, CoinRemoved
  <2>2. /\ BagIn(check, one) /\ coin + check <= MaxU64
        /\ coins' = B!BagAdd(two, coin + check) /\ UNCHANGED <<info, published, preburns>>
    BY <1>7 DEF deposit
  <2> HIDE DEF one
  <2>3. FiniteBag(two, Value) /\ Weight(one, CoinWorth) = Weight(two, CoinWorth) + check
        /\ Weight(two, CoinWorth) \in Nat /\ check \in Nat
    BY <2>1, <2>2, CoinRemoved
  <2> HIDE DEF two
  <2>4. coin + check \in Value
    BY <2>1, <2>2, <2>3, NumbersAreNat
  <2>5. FiniteBag(coins', Value) /\ D = Weight(two, CoinWorth) + (coin + check)
    BY <2>2, <2>3, <2>4, CoinAdded
  <2> HIDE DEF C, D
  <2>6. D = C
    BY <2>1, <2>3, <2>5
  <2> QED
    BY <1>3, <2>2, <2>5, <2>6
<1>8. ASSUME NEW coin, BagIn(coin, coins), destroy_zero(coin) PROVE Books'
  <2>1. coin = 0 /\ coins' = B!BagRemove(coins, coin) /\ UNCHANGED <<info, published, preburns>>
    BY <1>8 DEF destroy_zero
  <2>2. FiniteBag(coins', Value) /\ C = D + coin /\ D \in Nat
    BY <1>1, <1>8, <2>1, CoinRemoved
  <2> HIDE DEF C, D
  <2> QED
    BY <1>3, <2>1, <2>2
<1> QED
  BY <1>4, <1>5, <1>6, <1>7, <1>8 DEF BagIn

\* The calls that only move preburns about.
LEMMA PreburnCalls ==
  ASSUME Books, sender' \in Addresses,
         \/ new_preburn
         \/ remove_preburn
         \/ \E requests \in BagToSet(preburns) :
              publish_preburn(requests) \/ destroy_preburn(requests)
  PROVE  Books'
<1> DEFINE P == PublishedWorth(published)
           P2 == PublishedWorth(published')
           Q == Weight(preburns, QueueWorth)
           Q2 == Weight(preburns', QueueWorth)
<1>1. FiniteBag(preburns, Queues) /\ published \in [Addresses -> Places]
      /\ preburn_value = P + Q
  BY DEF Books
<1>2. ASSUME UNCHANGED <<info, coins>>, FiniteBag(preburns', Queues),
             published' \in [Addresses -> Places], P2 + Q2 = P + Q
      PROVE  Books'
  BY <1>1, <1>2 DEF Books, info
<1>3. <<>> \in Queues /\ QueueWorth[<<>>] = 0
  <2>1. <<>> \in Queues
    BY DEF Queues
  <2> QED
    BY <2>1, WorthTypes, QueueType
<1>4. P \in Nat /\ Q \in Nat
  <2>1. P \in Nat
    <3>1. sender' \in Addresses /\ None \in Places
      BY DEF Places
    <3> QED
      BY <1>1, <3>1, PublishedUpdate
  <2> QED
    BY <1>1, <1>3, <2>1, QueueAdded
<1>5. CASE new_preburn
  <2>1. preburns' = B!BagAdd(preburns, <<>>) /\ UNCHANGED <<info, coins, published>>
    BY <1>5 DEF new_preburn
  <2>2. FiniteBag(preburns', Queues) /\ Q2 = Q + 0
    BY <1>1, <1>3, <2>1, QueueAdded
  <2>3. P2 = P
    BY <2>1
  <2> HIDE DEF P, P2, Q, Q2
  <2> QED
    BY <1>1, <1>2, <1>4, <2>1, <2>2, <2>3
<1>6. CASE remove_preburn
  <2> DEFINE a == sender'
             q == published[a]
  <2>1. /\ q # None /\ published' = [published EXCEPT ![a] = None]
        /\ preburns' = B!BagAdd(preburns, q) /\ UNCHANGED <<info, coins>>
    BY <1>6 DEF remove_preburn
  <2>2. a \in Addresses /\ None \in Places /\ q \in Queues
    BY <1>1, <2>1 DEF Places
  <2>3. P2 = P - PlaceWorth[q] + PlaceWorth[None] /\ published' \in [Addresses -> Places]
    BY <1>1, <2>1, <2>2, PublishedUpdate
  <2>4. PlaceWorth[q] = QueueWorth[q] /\ PlaceWorth[None] = 0
    BY <2>2, WorthTypes
  <2>5. FiniteBag(preburns', Queues) /\ Q2 = Q + QueueWorth[q] /\ QueueWorth[q] \in Nat
    BY <1>1, <2>1, <2>2, QueueAdded
  <2> HIDE DEF P, P2, Q, Q2, q
  <2>6. P2 + Q2 = P + Q
    BY <1>4, <2>3, <2>4, <2>5
  <2> QED
    BY <1>2, <2>1, <2>3, <2>5, <2>6
<1>7. ASSUME NEW requests, BagIn(requests, preburns), publish_preburn(requests)
      PROVE  Books'
  <2> DEFINE a == sender'
  <2>1. /\ published[a] = None /\ published' = [published EXCEPT ![a] = requests]
        /\ preburns' = B!BagRemove(preburns, requests) /\ UNCHANGED <<info, coins>>
    BY <1>7 DEF publish_preburn
  <2>2. /\ FiniteBag(preburns', Queues) /\ Q = Q2 + QueueWorth[requests] /\ Q2 \in Nat
        /\ QueueWorth[requests] \in Nat /\ requests \in Queues
    BY <1>1, <1>7, <2>1, QueueRemoved
  <2>3. a \in Addresses /\ requests \in Places
    BY <2>2 DEF Places
  <2>4. P2 = P - PlaceWorth[None] + PlaceWorth[requests]
        /\ published' \in [Addresses -> Places]
    BY <1>1, <2>1, <2>3, PublishedUpdate
  <2>5. PlaceWorth[requests] = QueueWorth[requests] /\ PlaceWorth[None] = 0
    BY <2>2, WorthTypes
  <2> HIDE DEF P, P2, Q, Q2
  <2>6. P2 + Q2 = P + Q
    BY <1>4, <2>2, <2>4, <2>5
  <2> QED
    BY <1>2, <2>1, <2>2, <2>4, <2>6
<1>8. ASSUME NEW requests, BagIn(requests, preburns), destroy_preburn(requests)
      PROVE  Books'
  <2>1. /\ requests = <<>> /\ preburns' = B!BagRemove(preburns, requests)
        /\ UNCHANGED <<info, coins, published>>
    BY <1>8 DEF destroy_preburn
  <2>2. FiniteBag(preburns', Queues) /\ Q = Q2 + QueueWorth[requests] /\ Q2 \in Nat
    BY <1>1, <1>8, <2>1, QueueRemoved
  <2>3. P2 = P /\ QueueWorth[requests] = 0
    BY <1>3, <2>1
  <2> HIDE DEF P, P2, Q, Q2
  <2> QED
    BY <1>1, <1>2, <1>4, <2>1, <2>2, <2>3
<1> QED
  BY <1>5, <1>6, <1>7, <1>8 DEF BagIn

\* A coin that goes into a queue.
LEMMA PreburnsOfCoins ==
  ASSUME Books, sender' \in Addresses, NEW coin, BagIn(coin, coins),
         \/ preburn_to_sender(coin)
         \/ \E requests \in BagToSet(preburns) : preburn(requests, coin)
  PROVE  Books'
<1> DEFINE P == PublishedWorth(published)
           P2 == PublishedWorth(published')
           Q == Weight(preburns, QueueWorth)
           Q2 == Weight(preburns', QueueWorth)
           C == Weight(coins, CoinWorth)
           C2 == Weight(coins', CoinWorth)
<1>1. /\ FiniteBag(coins, Value) /\ FiniteBag(preburns, Queues)
      /\ published \in [Addresses -> Places]
      /\ preburn_value = P + Q /\ total_value = C + preburn_value
      /\ total_value \in 0..MaxU128 /\ preburn_value \in Value
  BY DEF Books
<1>2. /\ coins' = B!BagRemove(coins, coin)
      /\ preburn_value + coin <= MaxU64 /\ preburn_value' = preburn_value + coin
      /\ total_value' = total_value
  BY DEF preburn_to_sender, preburn, give_to_burn
<1>3. /\ FiniteBag(coins', Value) /\ C = C2 + coin /\ C2 \in Nat
      /\ coin \in Value /\ coin \in Nat
  BY <1>1, <1>2, CoinRemoved
<1>4. preburn_value' \in Value /\ total_value' = C2 + preburn_value'
  <2> HIDE DEF P, Q, C, C2
  <2> QED
    BY <1>1, <1>2, <1>3, NumbersAreNat
<1>5. ASSUME FiniteBag(preburns', Queues), published' \in [Addresses -> Places],
             P2 + Q2 = (P + Q) + coin
      PROVE  Books'
  BY <1>1, <1>2, <1>3, <1>4, <1>5 DEF Books
<1>6. P \in Nat
  <2>1. sender' \in Addresses /\ None \in Places
    BY DEF Places
  <2> QED
    BY <1>1, <2>1, PublishedUpdate
<1>7. CASE preburn_to_sender(coin)
  <2> DEFINE a == sender'
             q == published[a]
             longer == Append(q, coin)
  <2>1. q # None /\ published' = [published EXCEPT ![a] = longer] /\ preburns' = preburns
    BY <1>7 DEF preburn_to_sender
  <2>2. q \in Queues
    BY <1>1, <2>1 DEF Places
  <2>3. longer \in Queues /\ QueueWorth[longer] = QueueWorth[q] + coin
    BY <1>3, <2>2, RequestAdded
  <2>4. a \in Addresses /\ longer \in Places
    BY <2>3 DEF Places
  <2> HIDE DEF longer
  <2>5. P2 = P - PlaceWorth[q] + PlaceWorth[longer] /\ PlaceWorth[q] \in Nat
        /\ published' \in [Addresses -> Places]
    BY <1>1, <2>1, <2>4, PublishedUpdate
  <2>6. PlaceWorth[q] = QueueWorth[q] /\ PlaceWorth[longer] = QueueWorth[longer]
    BY <2>2, <2>3, WorthTypes
  <2>7. Q2 = Q /\ Q \in Nat
    BY <1>1, <2>1, <2>2, QueueAdded
  <2> HIDE DEF P, P2, Q, Q2, q
  <2>8. P2 + Q2 = (P + Q) + coin
    BY <1>3, <1>6, <2>3, <2>5, <2>6, <2>7
  <2> QED
    BY <1>1, <1>5, <2>1, <2>5, <2>8
<1>8. ASSUME NEW requests, BagIn(requests, preburns), preburn(requests, coin)
      PROVE  Books'
  <2> DEFINE less == B!BagRemove(preburns, requests)
             longer == Append(requests, coin)
  <2>1. preburns' = B!BagAdd(less, longer) /\ published' = published
    BY <1>8 DEF preburn
  <2>2. /\ FiniteBag(less, Queues) /\ Q = Weight(less, QueueWorth) + QueueWorth[requests]
        /\ Weight(less, QueueWorth) \in Nat /\ QueueWorth[requests] \in Nat
        /\ requests \in Queues
    BY <1>1, <1>8, QueueRemoved
  <2>3. longer \in Queues /\ QueueWorth[longer] = QueueWorth[requests] + coin
    BY <1>3, <2>2, RequestAdded
  <2> HIDE DEF less, longer
  <2>4. FiniteBag(preburns', Queues)
        /\ Q2 = Weight(less, QueueWorth) + QueueWorth[longer]
    BY <2>1, <2>2, <2>3, QueueAdded
  <2>5. P2 = P
    BY <2>1
  <2> HIDE DEF P, P2, Q, Q2
  <2>6. P2 + Q2 = (P + Q) + coin
    BY <1>3, <1>6, <2>2, <2>3, <2>4, <2>5
  <2> QED
    BY <1>1, <1>5, <2>1, <2>4, <2>6
<1> QED
  BY <1>7, <1>8 DEF BagIn

\* A request that leaves its queue, burned or given back.
LEMMA Resolutions ==
  ASSUME Books, NEW a \in Addresses, burn(a) \/ cancel_burn(a)
  PROVE  Books'
<1> DEFINE P == PublishedWorth(published)
           P2 == PublishedWorth(published')
           Q == Weight(preburns, QueueWorth)
           Q2 == Weight(preburns', QueueWorth)
           C == Weight(coins, CoinWorth)
           C2 == Weight(coins', CoinWorth)
           q == published[a]
           value == Head(q)
<1>1. /\ FiniteBag(coins, Value) /\ FiniteBag(preburns, Queues)
      /\ published \in [Addresses -> Places]
      /\ preburn_value = P + Q /\ total_value = C + preburn_value
      /\ total_value \in 0..MaxU128 /\ preburn_value \in Value
  BY DEF Books
<1>2. /\ q \notin {None, <<>>} /\ preburn_value >= value
      /\ preburn_value' = preburn_value - value
      /\ published' = [published EXCEPT ![a] = rest(q)] /\ preburns' = preburns
  BY <1>1 DEF burn, cancel_burn
<1>3. q \in Queues /\ q # <<>>
  BY <1>1, <1>2 DEF Places
<1> HIDE DEF q
<1>4. /\ rest(q) = Tail(q) /\ Tail(q) \in Queues /\ Tail(q) \in Places /\ value \in Value
      /\ QueueWorth[q] = value + QueueWorth[Tail(q)]
      /\ QueueWorth[Tail(q)] \in Nat /\ value \in Nat
  BY <1>3, RequestResolved DEF Places
<1> HIDE DEF value
<1>5. /\ P2 = P - PlaceWorth[q] + PlaceWorth[Tail(q)] /\ P \in Nat
      /\ PlaceWorth[q] <= P
      /\ published' \in [Addresses -> Places]
  BY <1>1, <1>2, <1>4, PublishedUpdate DEF q
<1>6. PlaceWorth[q] = QueueWorth[q] /\ PlaceWorth[Tail(q)] = QueueWorth[Tail(q)]
  BY <1>3, <1>4, WorthTypes
<1>7. Q2 = Q /\ Q \in Nat
  BY <1>1, <1>2, <1>3, QueueAdded
<1>8. preburn_value' = P2 + Q2 /\ preburn_value' \in Value
  <2> HIDE DEF P, P2, Q, Q2, C
  <2>1. P2 = P - value
    BY <1>4, <1>5, <1>6
  <2>2. preburn_value' = P2 + Q2
    BY <1>1, <1>2, <1>4, <1>5, <1>7, <2>1
  <2>3. preburn_value' \in Value
    <3>1. /\ preburn_value \in Nat /\ preburn_value <= MaxU64
          /\ MaxU64 \in Nat /\ value \in Nat
      BY <1>1, <1>4, NumbersAreNat
    <3>2. preburn_value' = preburn_value - value /\ preburn_value >= value
      BY <1>2
    <3>3. preburn_value' \in Nat /\ preburn_value' <= MaxU64
      BY <3>1, <3>2
    <3> QED
      BY <3>3, NumbersAreNat
  <2> QED
    BY <2>2, <2>3
<1>9. CASE burn(a)
  <2>1. /\ total_value >= value /\ total_value' = total_value - value /\ coins' = coins
    BY <1>9 DEF burn, value, q
  <2>2. C2 = C
    BY <2>1
  <2>3. total_value' = C2 + preburn_value' /\ total_value' \in 0..MaxU128
    <3>1. C \in Nat
      BY <1>1, <1>4, CoinAdded
    <3> HIDE DEF P, Q, C, C2
    <3>2. /\ total_value = C + preburn_value /\ total_value \in Nat
          /\ total_value <= MaxU128 /\ preburn_value \in Nat
          /\ value \in Nat /\ MaxU128 \in Nat
      BY <1>1, <1>4, NumbersAreNat
    <3>3. /\ total_value' = total_value - value /\ total_value >= value
          /\ preburn_value' = preburn_value - value /\ C2 = C
      BY <1>2, <2>1, <2>2
    <3> QED
      BY <3>1, <3>2, <3>3
  <2> QED
    BY <1>1, <1>2, <1>5, <1>8, <2>1, <2>3 DEF Books
<1>10. CASE cancel_burn(a)
  <2>1. total_value' = total_value /\ coins' = B!BagAdd(coins, value)
    BY <1>10 DEF cancel_burn, value, q
  <2>2. FiniteBag(coins', Value) /\ C2 = C + value /\ C \in Nat
    BY <1>1, <1>4, <2>1, CoinAdded
  <2>3. total_value' = C2 + preburn_value'
    <3> HIDE DEF P, Q, C, C2
    <3> QED
      BY <1>1, <1>2, <1>4, <2>1, <2>2, NumbersAreNat
  <2> QED
    BY <1>1, <1>2, <1>5, <1>8, <2>1, <2>2, <2>3 DEF Books
<1> QED
  BY <1>9, <1>10

----------------------------------------------------------------------------
(* The inductive invariant *)

LEMMA InitBooks == Init => Inv
<1> SUFFICES ASSUME Init PROVE Inv
  OBVIOUS
<1>1. /\ coins = EmptyBag /\ preburns = EmptyBag
      /\ published = [a \in Addresses |-> None]
      /\ total_value = 0 /\ preburn_value = 0
      /\ capability = Association /\ sender = Association
  BY DEF Init
<1>2. /\ FiniteBag(coins, Value) /\ Weight(coins, CoinWorth) = 0
      /\ FiniteBag(preburns, Queues) /\ Weight(preburns, QueueWorth) = 0
  BY <1>1, EmptyWeight
<1>3. published \in [Addresses -> Places] /\ PublishedWorth(published) = 0
  BY <1>1, NothingPublished DEF Places
<1>4. 0 \in 0..MaxU128 /\ 0 \in Value /\ Association \in Addresses
  BY NumbersAreNat, LibraAssumption
<1>5. Books
  BY <1>1, <1>2, <1>3, <1>4 DEF Books
<1> QED
  BY <1>1, <1>4, <1>5 DEF Inv

LEMMA NextBooks == Inv /\ [Next]_vars => Inv'
<1> SUFFICES ASSUME Inv, [Next]_vars PROVE Inv'
  OBVIOUS
<1>1. Books
  BY DEF Inv
<1>2. ASSUME Next PROVE Books' /\ sender' \in Addresses
  <2>1. sender' \in Addresses
    BY <1>2 DEF Next
  <2>2. CASE remove_mint_capability \/ publish_mint_capability
    <3>1. UNCHANGED <<info, coins, published, preburns>>
      BY <2>2 DEF remove_mint_capability, publish_mint_capability
    <3> QED
      BY <1>1, <2>1, <3>1 DEF Books, info
  <2>3. ASSUME NEW coin, coin \in BagToSet(coins),
               \/ preburn_to_sender(coin)
               \/ \E requests \in BagToSet(preburns) : preburn(requests, coin)
        PROVE  Books'
    BY <1>1, <2>1, <2>3, PreburnsOfCoins DEF BagIn
  <2> QED
    BY <1>1, <1>2, <2>1, <2>2, <2>3, CoinCalls, PreburnCalls, Resolutions, Zenon DEF Next
<1>3. ASSUME Next PROVE capability' \in Addresses \cup {InHand}
  <2>1. sender' \in Addresses /\ capability \in Addresses \cup {InHand}
    BY <1>3 DEF Next, Inv
  <2>2. capability' \in {capability, sender', InHand}
    BY <1>3 DEF Next, mint, zero, withdraw, deposit, destroy_zero, new_preburn,
                publish_preburn, remove_preburn, destroy_preburn, preburn,
                preburn_to_sender, give_to_burn, burn, cancel_burn,
                remove_mint_capability, publish_mint_capability
  <2> QED
    BY <2>1, <2>2
<1>4. CASE UNCHANGED vars
  BY <1>4 DEF Inv, Books, vars, info
<1> QED
  BY <1>2, <1>3, <1>4 DEF Inv

LEMMA Invariant == Spec => []Inv
BY InitBooks, NextBooks, PTL DEF Spec

----------------------------------------------------------------------------
(* Theorems *)

\* Info stays within its integers and every request and coin within u64.
THEOREM TokenTypeCorrect == Spec => []TypeOK
<1>1. Inv => TypeOK
  BY DEF Inv, Books, TypeOK, FiniteBag, Places, Queues
<1> QED
  BY <1>1, Invariant, PTL

\* The total Info tells is the value of all coins, wherever they are.
THEOREM TotalIsTold == Spec => []TotalIsCoins
<1>1. Inv => TotalIsCoins
  BY BooksTell DEF Inv
<1> QED
  BY <1>1, Invariant, PTL

\* What Info tells of the coins on their way to be burned is the value of the
\* requests that wait.
THEOREM PreburnIsTold == Spec => []PreburnIsRequests
<1>1. Inv => PreburnIsRequests
  BY BooksTell DEF Inv
<1> QED
  BY <1>1, Invariant, PTL

\* The subtractions of burn and cancel_burn.
Resolvable ==
  \A a \in Addresses : published[a] \notin {None, <<>>} =>
    preburn_value >= Head(published[a]) /\ total_value >= Head(published[a])

\* No request is ever stuck: the holder of the capability can burn the oldest
\* one of every published queue, because Info is never told less than it.
THEOREM RequestsCanBeResolved == Spec => []Resolvable
<1>1. Inv => Resolvable
  <2> SUFFICES ASSUME Books, NEW a \in Addresses, published[a] \notin {None, <<>>}
               PROVE  preburn_value >= Head(published[a])
                      /\ total_value >= Head(published[a])
    BY DEF Inv, Resolvable
  <2> DEFINE q == published[a]
             P == PublishedWorth(published)
             Q == Weight(preburns, QueueWorth)
             C == Weight(coins, CoinWorth)
  <2>1. q \in Queues /\ q # <<>> /\ None \in Places
    BY DEF Books, Places
  <2>2. P \in Nat /\ PlaceWorth[q] <= P
    BY <2>1, PublishedUpdate DEF Books
  <2>3. PlaceWorth[q] = QueueWorth[q] /\ Q \in Nat
    BY <2>1, WorthTypes, QueueAdded DEF Books
  <2>4. /\ QueueWorth[q] = Head(q) + QueueWorth[Tail(q)]
        /\ QueueWorth[Tail(q)] \in Nat /\ Head(q) \in Nat /\ Head(q) \in Value
    BY <2>1, RequestResolved
  <2>5. C \in Nat
    BY <2>4, CoinAdded DEF Books
  <2>6. preburn_value = P + Q /\ total_value = C + preburn_value
    BY DEF Books
  <2> HIDE DEF P, Q, C, q
  <2>7. preburn_value >= Head(q) /\ total_value >= Head(q)
    BY <2>2, <2>3, <2>4, <2>5, <2>6
  <2> QED
    BY <2>7 DEF q
<1> QED
  BY <1>1, Invariant, PTL

LEMMA LongerQueues ==
  ASSUME NEW T, NEW q \in Seq(T), NEW c \in T
  PROVE  IsPrefix(q, q) /\ IsPrefix(q, Append(q, c))
<1> DEFINE n == Len(q)
           longer == Append(q, c)
<1>1. n \in Nat /\ n <= n /\ \A j \in 1..n : q[j] \in T
  BY LenProperties
<1>2. Len(longer) = n + 1 /\ \A j \in 1..n : longer[j] = q[j]
  BY AppendProperties
<1> HIDE DEF n, longer
<1>3. /\ SubSeq(q, 1, n) \in Seq(T) /\ Len(SubSeq(q, 1, n)) = n
      /\ \A j \in 1..n : SubSeq(q, 1, n)[j] = q[j]
  BY <1>1, SubSeqProperties
<1>4. /\ SubSeq(longer, 1, n) \in Seq(T) /\ Len(SubSeq(longer, 1, n)) = n
      /\ \A j \in 1..n : SubSeq(longer, 1, n)[j] = longer[j]
  BY <1>1, <1>2, SubSeqProperties
<1>5. SubSeq(q, 1, n) = SubSeq(longer, 1, n)
  <2>1. /\ Len(SubSeq(q, 1, n)) = Len(SubSeq(longer, 1, n))
        /\ \A j \in 1..Len(SubSeq(q, 1, n)) : SubSeq(q, 1, n)[j] = SubSeq(longer, 1, n)[j]
    BY <1>2, <1>3, <1>4, Zenon
  <2> QED
    BY <1>3, <1>4, <2>1, SeqEqual, Zenon
<1>6. IsPrefix(q, q)
  BY <1>1, Zenon DEF IsPrefix, n
<1>7. n <= Len(longer)
  BY <1>1, <1>2
<1>8. IsPrefix(q, longer)
  BY <1>5, <1>7, Zenon DEF IsPrefix, n
<1> QED
  BY <1>6, <1>8 DEF longer

\* Requests of an account are resolved in the order it made them.
THEOREM ResolvedInOrder == Spec => OldestFirst
<1> DEFINE InOrder ==
      \A a \in Addresses : published[a] # None /\ published'[a] # None =>
        \/ IsPrefix(published[a], published'[a])
        \/ published'[a] = Tail(published[a])
<1>1. ASSUME Inv, [Next]_vars PROVE [InOrder]_vars
  <2> SUFFICES ASSUME Next, NEW a \in Addresses,
                      published[a] # None, published'[a] # None
               PROVE  \/ IsPrefix(published[a], published'[a])
                      \/ published'[a] = Tail(published[a])
    BY <1>1
  <2> DEFINE q == published[a]
  <2>1. published \in [Addresses -> Places] /\ q \in Queues
    BY <1>1 DEF Inv, Books, Places
  <2>2. 0 \in Value
    BY NumbersAreNat
  <2>3. IsPrefix(q, q) /\ \A c \in Value : IsPrefix(q, Append(q, c))
    BY <2>1, <2>2, LongerQueues DEF Queues
  <2>4. CASE published'[a] = published[a]
    BY <2>3, <2>4
  <2>5. CASE publish_mint_capability \/ remove_mint_capability
             \/ zero \/ new_preburn \/ \E value \in Value : mint(value)
    BY <2>4, <2>5 DEF publish_mint_capability, remove_mint_capability, zero,
                      new_preburn, mint
  <2>6. CASE remove_preburn
    BY <2>1, <2>4, <2>6 DEF remove_preburn
  <2>7. ASSUME NEW coin \in BagToSet(coins),
               \/ \E value \in Value : withdraw(coin, value)
               \/ \E check \in BagToSet(coins) : deposit(coin, check)
               \/ destroy_zero(coin)
               \/ \E requests \in BagToSet(preburns) : preburn(requests, coin)
        PROVE  published'[a] = published[a]
    BY <2>7 DEF withdraw, deposit, destroy_zero, preburn
  <2>8. ASSUME NEW coin \in BagToSet(coins), preburn_to_sender(coin)
        PROVE  published'[a] = published[a] \/ published'[a] = Append(q, coin)
    BY <2>1, <2>8 DEF preburn_to_sender
  <2>9. \A coin \in BagToSet(coins) : coin \in Value
    BY <1>1 DEF Inv, Books, FiniteBag
  <2>10. ASSUME NEW requests,
                publish_preburn(requests) \/ destroy_preburn(requests)
         PROVE  published'[a] = published[a]
    BY <2>1, <2>10 DEF publish_preburn, destroy_preburn
  <2>11. ASSUME NEW b \in Addresses, burn(b) \/ cancel_burn(b)
         PROVE  published'[a] = published[a] \/ published'[a] = Tail(q)
    <3>1. published' = [published EXCEPT ![b] = rest(published[b])]
          /\ published[b] \notin {None, <<>>}
      BY <2>1, <2>11 DEF burn, cancel_burn
    <3>2. CASE a = b
      <4>1. rest(q) = Tail(q)
        BY <2>1, <3>1, <3>2, RequestResolved
      <4> QED
        BY <2>1, <3>1, <3>2, <4>1
    <3>3. CASE a # b
      BY <2>1, <3>1, <3>3
    <3> QED
      BY <3>2, <3>3
  <2> QED
    BY <2>3, <2>4, <2>5, <2>6, <2>7, <2>8, <2>9, <2>10, <2>11, Zenon DEF Next
<1> QED
  BY <1>1, Invariant, PTL DEF Spec, OldestFirst


----------------------------------------------------------------------------
(* The validator and the discovery set *)


\* The events so far: the last one tells the set, and their times grow up to the
\* time of the last reconfiguration.
LastEventTells(s) ==
  /\ s.change_events # <<>>
  /\ s.change_events[Len(s.change_events)].new_validator_set = s.validators

TimesGrow(s) ==
  /\ \A i \in DOMAIN s.change_events :
       s.change_events[i].time <= s.last_reconfiguration_time
  /\ \A i, j \in DOMAIN s.change_events :
       i < j => s.change_events[i].time < s.change_events[j].time

Sound(s) ==
  /\ s \in State
  /\ Aligned(s)
  /\ LastEventTells(s) /\ TimesGrow(s)
  /\ s.discovery_event = s.discovery_set

\* What is saved is what an abort brings back.
SystemInv == SystemTypeOK /\ Sound(state) /\ Sound(saved)

----------------------------------------------------------------------------
(* The operations on a set *)

\* Vector::swap_remove leaves all elements but the one at i.
LEMMA SwapRemove ==
  ASSUME NEW S, NEW q \in Seq(S), NEW i \in DOMAIN q
  PROVE  /\ swap_remove(q, i) \in Seq(S)
         /\ DOMAIN swap_remove(q, i) = 1..Len(q) - 1
         /\ Len(swap_remove(q, i)) = Len(q) - 1
         /\ \A j \in 1..Len(q) - 1 :
              swap_remove(q, i)[j] = q[IF j = i THEN Len(q) ELSE j]
<1>1. Len(q) \in Nat /\ Len(q) # 0 /\ Len(q) - 1 \in Nat /\ Len(q) \in DOMAIN q
  OBVIOUS
<1>2. \A j \in 1..Len(q) - 1 : swap_remove(q, i)[j] = q[IF j = i THEN Len(q) ELSE j]
  BY DEF swap_remove
<1>3. swap_remove(q, i) \in [1..Len(q) - 1 -> S]
  BY <1>1 DEF swap_remove
<1> QED
  BY <1>1, <1>2, <1>3

\* In sets that name the same validators, each once, an index is that of the
\* address asked for.
LEMMA Indices ==
  ASSUME NEW s, s \in State, Aligned(s), NEW a
  PROVE  /\ is_member(s.validators, a) =>
              /\ index(s.validators, a) \in DOMAIN s.validators
              /\ s.validators[index(s.validators, a)].addr = a
         /\ is_member(s.discovery_set, a) =>
              /\ index(s.discovery_set, a) \in DOMAIN s.discovery_set
              /\ s.discovery_set[index(s.discovery_set, a)].addr = a
<1>1. DOMAIN s.validators = DOMAIN s.discovery_set /\ DOMAIN s.validators \subseteq Int
  BY DEF State, Aligned
<1>2. ASSUME NEW i \in DOMAIN s.validators, s.validators[i].addr = a
      PROVE  \A j \in 1..i - 1 : s.validators[j].addr # a
  BY <1>2 DEF State, Aligned
<1>3. ASSUME NEW i \in DOMAIN s.discovery_set, s.discovery_set[i].addr = a
      PROVE  \A j \in 1..i - 1 : s.discovery_set[j].addr # a
  BY <1>3 DEF State, Aligned
<1>4. ASSUME is_member(s.validators, a)
      PROVE  \E i \in DOMAIN s.validators :
               s.validators[i].addr = a /\ \A j \in 1..i - 1 : s.validators[j].addr # a
  BY <1>2, <1>4 DEF is_member
<1>5. ASSUME is_member(s.discovery_set, a)
      PROVE  \E i \in DOMAIN s.discovery_set :
               s.discovery_set[i].addr = a /\ \A j \in 1..i - 1 : s.discovery_set[j].addr # a
  BY <1>3, <1>5 DEF is_member
<1> QED
  BY <1>4, <1>5 DEF index

LEMMA InfoTypes ==
  ASSUME NEW s \in State, NEW a \in Addresses, s.config[a] # NoConfig
  PROVE  /\ make_validator_info(s.config, a) \in ValidatorInfo
         /\ make_discovery_info(s.config, a) \in DiscoveryInfo
         /\ make_validator_info(s.config, a).addr = a
         /\ make_discovery_info(s.config, a).addr = a
BY DEF State, Config, ValidatorInfo, DiscoveryInfo, make_validator_info, make_discovery_info

\* A reconfiguration adds one event, later than all others, and nothing else.
LEMMA Reconfigures ==
  ASSUME NEW s \in State, TimesGrow(s), now \in Nat, NEW t \in reconfigure_(s)
  PROVE  /\ t \in State
         /\ t.config = s.config
         /\ t.validators = s.validators
         /\ t.discovery_set = s.discovery_set
         /\ t.discovery_event = s.discovery_event
         /\ LastEventTells(t) /\ TimesGrow(t)
<1> DEFINE Event == [time : Nat, new_validator_set : Seq(ValidatorInfo)]
           e == [time |-> now, new_validator_set |-> s.validators]
           old == s.change_events
           events == Append(old, e)
<1>1. /\ now > s.last_reconfiguration_time
      /\ t = [s EXCEPT !.last_reconfiguration_time = now, !.change_events = events]
  BY DEF reconfigure_, emit_reconfiguration_event, State
<1>2. /\ old \in Seq(Event) /\ s.last_reconfiguration_time \in Nat
      /\ e \in Event /\ e.new_validator_set = s.validators /\ e.time = now
      /\ \A x \in Event : x.time \in Nat
  BY DEF State
<1>3. TimesGrow(s) => /\ \A i \in DOMAIN old : old[i].time <= s.last_reconfiguration_time
                      /\ \A i, j \in DOMAIN old : i < j => old[i].time < old[j].time
  BY DEF TimesGrow
<1> HIDE DEF Event, e
<1>10. events \in Seq(Event)
  BY <1>2
<1>4. /\ t \in State /\ t.config = s.config /\ t.validators = s.validators
      /\ t.discovery_set = s.discovery_set /\ t.discovery_event = s.discovery_event
      /\ t.change_events = events /\ t.last_reconfiguration_time = now
  <2> HIDE DEF events
  <2> QED
    BY <1>1, <1>10 DEF State, Event
<1> HIDE DEF old
<1>5. /\ Len(events) = Len(old) + 1 /\ Len(old) \in Nat
      /\ DOMAIN old = 1..Len(old) /\ DOMAIN events = 1..Len(events)
      /\ events # <<>> /\ events[Len(events)] = e
      /\ \A i \in DOMAIN old : events[i] = old[i] /\ old[i].time \in Nat
  BY <1>2
<1> HIDE DEF events
<1>6. LastEventTells(t)
  BY <1>2, <1>4, <1>5 DEF LastEventTells
<1>7. \A i \in DOMAIN old : events[i].time \in Nat /\ events[i].time < now
  BY <1>1, <1>2, <1>3, <1>5
<1>8. \A i \in DOMAIN events : events[i].time <= now
  BY <1>2, <1>5, <1>7
<1>9. \A i, j \in DOMAIN events : i < j => events[i].time < events[j].time
  <2> SUFFICES ASSUME NEW i \in DOMAIN events, NEW j \in DOMAIN events, i < j
               PROVE  events[i].time < events[j].time
    OBVIOUS
  <2>1. i \in DOMAIN old
    BY <1>5
  <2>2. CASE j \in DOMAIN old
    BY <1>3, <1>5, <2>1, <2>2
  <2>3. CASE j = Len(events)
    BY <1>2, <1>5, <1>7, <2>1, <2>3
  <2> QED
    BY <1>5, <2>2, <2>3
<1> QED
  BY <1>4, <1>6, <1>8, <1>9 DEF TimesGrow

----------------------------------------------------------------------------
(* The calls *)

LEMMA ConfigChanges ==
  ASSUME NEW s, Sound(s), NEW a \in Addresses, NEW c \in Config
  PROVE  Sound([s EXCEPT !.config[a] = c])
<1> DEFINE t == [s EXCEPT !.config[a] = c]
<1>1. /\ t \in State
      /\ t.validators = s.validators /\ t.discovery_set = s.discovery_set
      /\ t.change_events = s.change_events /\ t.discovery_event = s.discovery_event
      /\ t.last_reconfiguration_time = s.last_reconfiguration_time
      /\ t.config = [s.config EXCEPT ![a] = c]
  BY DEF Sound, State
<1> HIDE DEF t
<1>2. \A b \in Addresses : s.config[b] # NoConfig => t.config[b] # NoConfig
  <2>1. c # NoConfig /\ DOMAIN s.config = Addresses
    BY ConfigAssumption DEF Sound, State
  <2> QED
    BY <1>1, <2>1
<1>3. \A i \in DOMAIN s.validators : s.validators[i].addr \in Addresses
  <2>1. s.validators \in Seq(ValidatorInfo)
    BY DEF Sound, State
  <2>2. \A x \in ValidatorInfo : x.addr \in Addresses
    BY DEF ValidatorInfo
  <2> QED
    BY <2>1, <2>2
<1>4. Aligned(t)
  BY <1>1, <1>2, <1>3 DEF Sound, Aligned
<1>5. LastEventTells(t) /\ TimesGrow(t) /\ t.discovery_event = t.discovery_set
  BY <1>1 DEF Sound, LastEventTells, TimesGrow
<1> QED
  BY <1>1, <1>4, <1>5 DEF Sound, t

LEMMA Registers ==
  ASSUME NEW s, Sound(s), NEW a \in Addresses, NEW config \in Candidates,
         NEW t \in register_candidate_validator(s, a, config)
  PROVE  Sound(t)
<1>1. t = [s EXCEPT !.config[a] = config]
  BY DEF register_candidate_validator
<1> QED
  BY <1>1, ConfigChanges, ConfigAssumption

\* What ValidatorConfig's own rotate functions leave.
LEMMA Rotates ==
  ASSUME NEW s, Sound(s), NEW a \in Addresses, NEW key \in Keys, NEW x \in NetworkAddresses,
         NEW t \in config_rotate_consensus_pubkey(s, a, key)
                     \cup config_rotate_network_identity_pubkey(s, a, key)
                     \cup config_rotate_network_address(s, a, x)
  PROVE  Sound(t)
<1>1. s \in State /\ s.config[a] # NoConfig
  BY DEF Sound, config_rotate_consensus_pubkey, config_rotate_network_identity_pubkey,
         config_rotate_network_address
<1>2. s.config[a] \in Config
  BY <1>1 DEF State
<1>3. \E c \in Config : t = [s EXCEPT !.config[a] = c]
  <2>1. CASE t \in config_rotate_consensus_pubkey(s, a, key)
    <3>1. t = [s EXCEPT !.config[a] = [s.config[a] EXCEPT !.consensus_pubkey = key]]
      BY <1>1, <2>1 DEF config_rotate_consensus_pubkey
    <3>2. [s.config[a] EXCEPT !.consensus_pubkey = key] \in Config
      BY <1>2 DEF Config
    <3> QED
      BY <3>1, <3>2
  <2>2. CASE t \in config_rotate_network_identity_pubkey(s, a, key)
    <3>1. t = [s EXCEPT !.config[a] =
                 [s.config[a] EXCEPT !.validator_network_identity_pubkey = key]]
      BY <1>1, <2>2 DEF config_rotate_network_identity_pubkey
    <3>2. [s.config[a] EXCEPT !.validator_network_identity_pubkey = key] \in Config
      BY <1>2 DEF Config
    <3> QED
      BY <3>1, <3>2
  <2>3. CASE t \in config_rotate_network_address(s, a, x)
    <3>1. t = [s EXCEPT !.config[a] =
                 [s.config[a] EXCEPT !.validator_network_address = x]]
      BY <1>1, <2>3 DEF config_rotate_network_address
    <3>2. [s.config[a] EXCEPT !.validator_network_address = x] \in Config
      BY <1>2 DEF Config
    <3> QED
      BY <3>1, <3>2
  <2> QED
    BY <2>1, <2>2, <2>3
<1> QED
  BY <1>3, ConfigChanges

\* The events of both sets, sent as add_validator and remove_validator send them,
\* tell sets that stay aligned.
LEMMA SetsChange ==
  ASSUME NEW s, Sound(s), now \in Nat,
         NEW vs \in Seq(ValidatorInfo), NEW ds \in Seq(DiscoveryInfo),
         Aligned([s EXCEPT !.validators = vs, !.discovery_set = ds]),
         NEW t \in reconfigure_([s EXCEPT !.validators = vs, !.discovery_set = ds])
  PROVE  Sound(emit_discovery_set_change(t))
<1> DEFINE u == [s EXCEPT !.validators = vs, !.discovery_set = ds]
           r == emit_discovery_set_change(t)
<1>1. /\ u \in State
      /\ u.change_events = s.change_events
      /\ u.last_reconfiguration_time = s.last_reconfiguration_time
  BY DEF Sound, State
<1>2. TimesGrow(u)
  BY <1>1 DEF Sound, TimesGrow
<1>3. t \in reconfigure_(u) /\ Aligned(u)
  OBVIOUS
<1> HIDE DEF u
<1>4. /\ t \in State
      /\ t.config = u.config /\ t.validators = u.validators
      /\ t.discovery_set = u.discovery_set
      /\ LastEventTells(t) /\ TimesGrow(t)
  BY <1>1, <1>2, <1>3, Reconfigures
<1>5. /\ r \in State
      /\ r.config = t.config /\ r.validators = t.validators
      /\ r.discovery_set = t.discovery_set /\ r.discovery_event = t.discovery_set
      /\ r.change_events = t.change_events
      /\ r.last_reconfiguration_time = t.last_reconfiguration_time
  BY <1>4 DEF emit_discovery_set_change, State
<1> HIDE DEF r
<1>6. Aligned(r) /\ LastEventTells(r) /\ TimesGrow(r)
  BY <1>3, <1>4, <1>5 DEF Aligned, LastEventTells, TimesGrow
<1> QED
  BY <1>5, <1>6 DEF Sound, r

LEMMA Adds ==
  ASSUME NEW s, Sound(s), now \in Nat, NEW by, NEW a \in Addresses,
         NEW t \in add_validator(s, by, a)
  PROVE  Sound(t)
<1> DEFINE v == make_validator_info(s.config, a)
           d == make_discovery_info(s.config, a)
           vs == Append(s.validators, v)
           ds == Append(s.discovery_set, d)
           u == [s EXCEPT !.validators = vs, !.discovery_set = ds]
<1>1. /\ s.config[a] # NoConfig /\ ~is_member(s.validators, a)
      /\ \E r \in reconfigure_(u) : t = emit_discovery_set_change(r)
  BY DEF add_validator
<1>2. /\ s \in State /\ s.validators \in Seq(ValidatorInfo)
      /\ s.discovery_set \in Seq(DiscoveryInfo)
  BY DEF Sound, State
<1>3. /\ v \in ValidatorInfo /\ v.addr = a
      /\ d \in DiscoveryInfo /\ d.addr = a
  BY <1>1, <1>2, InfoTypes
<1> HIDE DEF v, d
<1>4. vs \in Seq(ValidatorInfo) /\ ds \in Seq(DiscoveryInfo)
  BY <1>2, <1>3
<1>5. u.config = s.config /\ u.validators = vs /\ u.discovery_set = ds
  BY <1>2 DEF State
<1>6. /\ Len(vs) = Len(s.validators) + 1 /\ Len(s.validators) \in Nat
      /\ DOMAIN vs = 1..Len(vs) /\ DOMAIN s.validators = 1..Len(s.validators)
      /\ vs[Len(vs)] = v
      /\ \A i \in DOMAIN s.validators : vs[i] = s.validators[i]
  BY <1>2
<1>7. /\ Len(ds) = Len(s.discovery_set) + 1 /\ Len(s.discovery_set) \in Nat
      /\ ds[Len(ds)] = d
      /\ \A i \in 1..Len(s.discovery_set) : ds[i] = s.discovery_set[i]
  BY <1>2
<1>8. /\ Len(s.validators) = Len(s.discovery_set)
      /\ \A i \in DOMAIN s.validators :
           /\ s.validators[i].addr = s.discovery_set[i].addr
           /\ s.config[s.validators[i].addr] # NoConfig
           /\ s.validators[i].addr # a
      /\ \A i, j \in DOMAIN s.validators :
           s.validators[i].addr = s.validators[j].addr => i = j
  BY <1>1 DEF Sound, Aligned, is_member
<1> HIDE DEF vs, ds
<1>9. /\ Len(vs) = Len(ds)
      /\ \A i \in DOMAIN vs :
           vs[i].addr = ds[i].addr /\ s.config[vs[i].addr] # NoConfig
    <2> SUFFICES ASSUME NEW i \in DOMAIN vs
                 PROVE  vs[i].addr = ds[i].addr /\ s.config[vs[i].addr] # NoConfig
      BY <1>6, <1>7, <1>8
    <2>1. CASE i \in DOMAIN s.validators
      BY <1>6, <1>7, <1>8, <2>1
    <2>2. CASE i = Len(vs)
      BY <1>1, <1>3, <1>6, <1>7, <1>8, <2>2
    <2> QED
      BY <1>6, <2>1, <2>2
<1>10. \A i, j \in DOMAIN vs : vs[i].addr = vs[j].addr => i = j
  <2>1. \A i \in DOMAIN vs : i = Len(vs) \/ i \in DOMAIN s.validators
    BY <1>6
  <2> QED
    BY <1>3, <1>6, <1>8, <2>1
<1>11. Aligned(u)
  <2> HIDE DEF u
  <2> QED
    BY <1>5, <1>9, <1>10 DEF Aligned
<1> QED
  BY <1>1, <1>4, <1>11, SetsChange

LEMMA Removes ==
  ASSUME NEW s, Sound(s), now \in Nat, NEW by, NEW a \in Addresses,
         NEW t \in remove_validator(s, by, a)
  PROVE  Sound(t)
<1> DEFINE i == index(s.validators, a)
           vs == swap_remove(s.validators, i)
           ds == swap_remove(s.discovery_set, i)
           u == [s EXCEPT !.validators = vs, !.discovery_set = ds]
           n == Len(s.validators)
           from(j) == IF j = i THEN n ELSE j
<1>1. /\ is_member(s.validators, a) /\ i \in DOMAIN s.discovery_set
      /\ \E r \in reconfigure_(u) : t = emit_discovery_set_change(r)
  BY DEF remove_validator
<1>2. /\ s \in State /\ s.validators \in Seq(ValidatorInfo)
      /\ s.discovery_set \in Seq(DiscoveryInfo)
      /\ DOMAIN s.validators = 1..n /\ n \in Nat
  BY DEF Sound, State
<1>3. i \in DOMAIN s.validators
  BY <1>1, <1>2, Indices DEF Sound
<1>4. /\ n = Len(s.discovery_set)
      /\ \A j \in DOMAIN s.validators :
           /\ s.validators[j].addr = s.discovery_set[j].addr
           /\ s.config[s.validators[j].addr] # NoConfig
      /\ \A j, k \in DOMAIN s.validators :
           s.validators[j].addr = s.validators[k].addr => j = k
  BY DEF Sound, Aligned
<1> HIDE DEF i
<1>5. /\ vs \in Seq(ValidatorInfo)
      /\ DOMAIN vs = 1..n - 1 /\ Len(vs) = n - 1
      /\ \A j \in 1..n - 1 : vs[j] = s.validators[from(j)]
  <2>1. s.validators \in Seq(ValidatorInfo)
    BY <1>2
  <2> QED
    BY <1>3, <2>1, SwapRemove, Zenon
<1>6. /\ ds \in Seq(DiscoveryInfo)
      /\ Len(ds) = n - 1
      /\ \A j \in 1..n - 1 : ds[j] = s.discovery_set[from(j)]
  <2>1. i \in DOMAIN s.discovery_set /\ s.discovery_set \in Seq(DiscoveryInfo)
    BY <1>1, <1>2
  <2> QED
    BY <1>4, <2>1, SwapRemove
<1>7. /\ \A j \in 1..n - 1 : from(j) \in DOMAIN s.validators
      /\ \A j, k \in 1..n - 1 : from(j) = from(k) => j = k
  BY <1>2, <1>3
<1>8. u.config = s.config /\ u.validators = vs /\ u.discovery_set = ds
  BY <1>2 DEF State
<1> HIDE DEF vs, ds, n, from
<1>9. Aligned(u)
  <2> HIDE DEF u
  <2>1. \A j \in DOMAIN vs :
          vs[j].addr = ds[j].addr /\ s.config[vs[j].addr] # NoConfig
    BY <1>4, <1>5, <1>6, <1>7
  <2>2. \A j, k \in DOMAIN vs : vs[j].addr = vs[k].addr => j = k
    BY <1>4, <1>5, <1>7
  <2> QED
    BY <1>5, <1>6, <1>8, <2>1, <2>2 DEF Aligned
<1> QED
  BY <1>1, <1>5, <1>6, <1>9, SetsChange

\* copy_validator_info keeps the address, so the sets stay aligned.
LEMMA RefreshesValidator ==
  ASSUME NEW s, Sound(s), now \in Nat, NEW a, is_member(s.validators, a),
         NEW t \in refresh_validator(s, a)
  PROVE  Sound(t)
<1> DEFINE i == index(s.validators, a)
           entry == make_validator_info(s.config, a)
           vs == [s.validators EXCEPT ![i] = entry]
           u == [s EXCEPT !.validators[i] = entry]
<1>1. t = s \/ t \in reconfigure_(u)
  BY DEF refresh_validator
<1>2. /\ s \in State /\ s.validators \in Seq(ValidatorInfo)
      /\ i \in DOMAIN s.validators /\ s.validators[i].addr = a
  BY Indices DEF Sound, State
<1>3. /\ Len(s.validators) = Len(s.discovery_set)
      /\ \A j \in DOMAIN s.validators :
           /\ s.validators[j].addr = s.discovery_set[j].addr
           /\ s.config[s.validators[j].addr] # NoConfig
      /\ \A j, k \in DOMAIN s.validators :
           s.validators[j].addr = s.validators[k].addr => j = k
  BY DEF Sound, Aligned
<1>4. a \in Addresses /\ s.config[a] # NoConfig
  <2>1. \A x \in ValidatorInfo : x.addr \in Addresses
    BY DEF ValidatorInfo
  <2> QED
    BY <1>2, <1>3, <2>1
<1>5. entry \in ValidatorInfo /\ entry.addr = a
  BY <1>2, <1>4, InfoTypes
<1> HIDE DEF i, entry
<1>6. /\ vs \in Seq(ValidatorInfo)
      /\ DOMAIN vs = DOMAIN s.validators /\ Len(vs) = Len(s.validators)
      /\ \A j \in DOMAIN vs : vs[j].addr = s.validators[j].addr
  BY <1>2, <1>5
<1>7. u = [s EXCEPT !.validators = vs]
  OBVIOUS
<1> HIDE DEF vs
<1>8. /\ u \in State
      /\ u.config = s.config /\ u.validators = vs /\ u.discovery_set = s.discovery_set
      /\ u.discovery_event = s.discovery_event
      /\ u.change_events = s.change_events
      /\ u.last_reconfiguration_time = s.last_reconfiguration_time
  BY <1>2, <1>6, <1>7 DEF State
<1> HIDE DEF u
<1>9. Aligned(u)
  BY <1>3, <1>6, <1>8 DEF Aligned
<1>10. TimesGrow(u) /\ u.discovery_event = u.discovery_set
  BY <1>8 DEF Sound, TimesGrow
<1>11. ASSUME t \in reconfigure_(u) PROVE Sound(t)
  <2>1. /\ t \in State
        /\ t.config = u.config /\ t.validators = u.validators
        /\ t.discovery_set = u.discovery_set /\ t.discovery_event = u.discovery_event
        /\ LastEventTells(t) /\ TimesGrow(t)
    BY <1>8, <1>10, <1>11, Reconfigures
  <2>2. Aligned(t)
    BY <1>9, <2>1 DEF Aligned
  <2> QED
    BY <1>10, <2>1, <2>2 DEF Sound
<1> QED
  BY <1>1, <1>11

\* copy_discovery_info, which has the event sent whenever the set changes.
LEMMA RefreshesDiscovery ==
  ASSUME NEW s, Sound(s), NEW a, NEW t \in refresh_discovery(s, a)
  PROVE  Sound(t)
<1> DEFINE i == index(s.discovery_set, a)
           entry == make_discovery_info(s.config, a)
           ds == [s.discovery_set EXCEPT ![i] = entry]
           u == [s EXCEPT !.discovery_set[i] = entry]
<1>1. /\ is_member(s.discovery_set, a)
      /\ t = s \/ t = emit_discovery_set_change(u)
  BY DEF refresh_discovery
<1>2. /\ s \in State /\ s.discovery_set \in Seq(DiscoveryInfo)
      /\ i \in DOMAIN s.discovery_set /\ s.discovery_set[i].addr = a
      /\ DOMAIN s.validators = DOMAIN s.discovery_set
  <2>1. /\ s \in State /\ s.discovery_set \in Seq(DiscoveryInfo)
        /\ s.validators \in Seq(ValidatorInfo)
        /\ Aligned(s) /\ Len(s.validators) = Len(s.discovery_set)
    BY DEF Sound, State, Aligned
  <2>2. i \in DOMAIN s.discovery_set /\ s.discovery_set[i].addr = a
    BY <1>1, <2>1, Indices
  <2> QED
    BY <2>1, <2>2
<1>3. /\ Len(s.validators) = Len(s.discovery_set)
      /\ \A j \in DOMAIN s.validators :
           /\ s.validators[j].addr = s.discovery_set[j].addr
           /\ s.config[s.validators[j].addr] # NoConfig
      /\ \A j, k \in DOMAIN s.validators :
           s.validators[j].addr = s.validators[k].addr => j = k
  BY DEF Sound, Aligned
<1>4. a \in Addresses /\ s.config[a] # NoConfig
  <2>1. \A x \in DiscoveryInfo : x.addr \in Addresses
    BY DEF DiscoveryInfo
  <2> QED
    BY <1>2, <1>3, <2>1
<1>5. entry \in DiscoveryInfo /\ entry.addr = a
  BY <1>2, <1>4, InfoTypes
<1> HIDE DEF i, entry
<1>6. /\ ds \in Seq(DiscoveryInfo)
      /\ DOMAIN ds = DOMAIN s.discovery_set /\ Len(ds) = Len(s.discovery_set)
      /\ \A j \in DOMAIN ds : ds[j].addr = s.discovery_set[j].addr
  BY <1>2, <1>5
<1>7. u = [s EXCEPT !.discovery_set = ds]
  OBVIOUS
<1> HIDE DEF ds
<1> DEFINE r == emit_discovery_set_change(u)
<1>8. /\ r \in State
      /\ r.config = s.config /\ r.validators = s.validators
      /\ r.discovery_set = ds /\ r.discovery_event = ds
      /\ r.change_events = s.change_events
      /\ r.last_reconfiguration_time = s.last_reconfiguration_time
  BY <1>2, <1>6, <1>7 DEF State, emit_discovery_set_change
<1> HIDE DEF r, u
<1>9. Aligned(r)
  BY <1>2, <1>3, <1>6, <1>8 DEF Aligned
<1>10. LastEventTells(r) /\ TimesGrow(r)
  BY <1>8 DEF Sound, LastEventTells, TimesGrow
<1> QED
  BY <1>1, <1>8, <1>9, <1>10 DEF Sound, r

LEMMA CallsKeep ==
  ASSUME NEW s, Sound(s), now \in Nat, NEW a \in Addresses, NEW t \in Calls(s, a)
  PROVE  Sound(t)
<1>1. CASE \E config \in Candidates : t \in register_candidate_validator(s, a, config)
  BY <1>1, Registers
<1>2. CASE \E key \in Keys : t \in config_rotate_consensus_pubkey(s, a, key)
  BY <1>2, Rotates, SystemAssumption
<1>3. CASE \E key \in Keys : t \in config_rotate_network_identity_pubkey(s, a, key)
  BY <1>3, Rotates, SystemAssumption
<1>4. CASE \E x \in NetworkAddresses : t \in config_rotate_network_address(s, a, x)
  BY <1>4, Rotates, SystemAssumption
<1>5. CASE t \in reconfigure(s, a)
  <2>1. t \in reconfigure_(s)
    BY <1>5 DEF reconfigure
  <2>2. /\ t \in State
        /\ t.config = s.config /\ t.validators = s.validators
        /\ t.discovery_set = s.discovery_set /\ t.discovery_event = s.discovery_event
        /\ LastEventTells(t) /\ TimesGrow(t)
    BY <2>1, Reconfigures DEF Sound
  <2> QED
    BY <2>2 DEF Sound, Aligned
<1>6. CASE \E b \in Addresses : t \in add_validator(s, a, b)
  BY <1>6, Adds
<1>7. CASE \E b \in Addresses : t \in remove_validator(s, a, b)
  BY <1>7, Removes
<1>8. CASE \E key \in Keys : t \in rotate_consensus_pubkey(s, a, key)
  <2>1. PICK key \in Keys : t \in rotate_consensus_pubkey(s, a, key)
    BY <1>8
  <2>2. /\ is_member(s.validators, a)
        /\ \E u \in config_rotate_consensus_pubkey(s, a, key) : t \in refresh_validator(u, a)
    BY <2>1 DEF rotate_consensus_pubkey
  <2>3. PICK u \in config_rotate_consensus_pubkey(s, a, key) : t \in refresh_validator(u, a)
    BY <2>2
  <2>4. Sound(u)
    BY <2>3, Rotates, SystemAssumption
  <2>5. u.validators = s.validators
    BY <2>3 DEF config_rotate_consensus_pubkey, Sound, State
  <2> QED
    BY <2>2, <2>3, <2>4, <2>5, RefreshesValidator
<1>9. CASE \E key \in Keys : t \in rotate_validator_network_identity_pubkey(s, a, key)
  <2>1. PICK key \in Keys : t \in rotate_validator_network_identity_pubkey(s, a, key)
    BY <1>9
  <2>2. PICK u \in config_rotate_network_identity_pubkey(s, a, key) :
          t \in refresh_discovery(u, a)
    BY <2>1 DEF rotate_validator_network_identity_pubkey
  <2>3. Sound(u)
    BY <2>2, Rotates, SystemAssumption
  <2> QED
    BY <2>2, <2>3, RefreshesDiscovery
<1>10. CASE \E x \in NetworkAddresses : t \in rotate_validator_network_address(s, a, x)
  <2>1. PICK x \in NetworkAddresses : t \in rotate_validator_network_address(s, a, x)
    BY <1>10
  <2>2. PICK u \in config_rotate_network_address(s, a, x) : t \in refresh_discovery(u, a)
    BY <2>1 DEF rotate_validator_network_address
  <2>3. Sound(u)
    BY <2>2, Rotates, SystemAssumption
  <2> QED
    BY <2>2, <2>3, RefreshesDiscovery
<1>11. \/ \E config \in Candidates : t \in register_candidate_validator(s, a, config)
       \/ \E key \in Keys : t \in config_rotate_consensus_pubkey(s, a, key)
       \/ \E key \in Keys : t \in config_rotate_network_identity_pubkey(s, a, key)
       \/ \E x \in NetworkAddresses : t \in config_rotate_network_address(s, a, x)
       \/ t \in reconfigure(s, a)
       \/ \E b \in Addresses : t \in add_validator(s, a, b)
       \/ \E b \in Addresses : t \in remove_validator(s, a, b)
       \/ \E key \in Keys : t \in rotate_consensus_pubkey(s, a, key)
       \/ \E key \in Keys : t \in rotate_validator_network_identity_pubkey(s, a, key)
       \/ \E x \in NetworkAddresses : t \in rotate_validator_network_address(s, a, x)
  BY DEF Calls
<1> QED
  BY <1>1, <1>2, <1>3, <1>4, <1>5, <1>6, <1>7, <1>8, <1>9, <1>10, <1>11

----------------------------------------------------------------------------
(* The invariant *)

LEMMA GenesisIsSound ==
  ASSUME NEW config \in Candidates
  PROVE  Sound(Genesis([a \in Addresses |-> config]))
<1> DEFINE c == [a \in Addresses |-> config]
           g == Genesis(c)
           vs == [i \in DOMAIN InitialValidators |-> make_validator_info(c, InitialValidators[i])]
           ds == [i \in DOMAIN InitialValidators |-> make_discovery_info(c, InitialValidators[i])]
           event == [time |-> 0, new_validator_set |-> vs]
<1>1. /\ config \in Config /\ config # NoConfig
      /\ InitialValidators \in Seq(Addresses)
      /\ \A i \in DOMAIN InitialValidators :
           InitialValidators[i] \in Addresses
           /\ InitialValidators[i] \in ToSet(InitialValidators)
      /\ \A i, j \in DOMAIN InitialValidators :
           InitialValidators[i] = InitialValidators[j] => i = j
  BY ConfigAssumption, SystemAssumption DEF IsInjective, ToSet
<1>2. /\ vs \in Seq(ValidatorInfo)
      /\ Len(vs) = Len(InitialValidators)
      /\ DOMAIN vs = DOMAIN InitialValidators
      /\ \A i \in DOMAIN vs : vs[i].addr = InitialValidators[i]
  <2>1. \A a \in Addresses : /\ make_validator_info(c, a) \in ValidatorInfo
                             /\ make_validator_info(c, a).addr = a
    BY <1>1 DEF make_validator_info, ValidatorInfo, Config
  <2> QED
    BY <1>1, <2>1
<1>3. /\ ds \in Seq(DiscoveryInfo)
      /\ Len(ds) = Len(InitialValidators)
      /\ \A i \in DOMAIN vs : ds[i].addr = InitialValidators[i]
  <2>1. \A a \in Addresses : /\ make_discovery_info(c, a) \in DiscoveryInfo
                             /\ make_discovery_info(c, a).addr = a
    BY <1>1 DEF make_discovery_info, DiscoveryInfo, Config
  <2> QED
    BY <1>1, <2>1
<1> HIDE DEF vs, ds
<1>4. /\ g.validators = vs /\ g.discovery_set = ds /\ g.discovery_event = ds
      /\ g.change_events = <<event>> /\ g.last_reconfiguration_time = 0
      /\ g.config = [a \in Addresses |->
                       IF a \in ToSet(InitialValidators) THEN c[a] ELSE NoConfig]
  BY DEF Genesis, vs, ds
<1>5. g \in State
  <2>1. g.config \in [Addresses -> Config \cup {NoConfig}]
    BY <1>1, <1>4
  <2>2. event \in [time : Nat, new_validator_set : Seq(ValidatorInfo)]
    BY <1>2
  <2>3. <<event>> \in Seq([time : Nat, new_validator_set : Seq(ValidatorInfo)])
    <3> HIDE DEF event
    <3> QED
      BY <2>2
  <2>4. g = [config |-> g.config, validators |-> vs, discovery_set |-> ds,
             last_reconfiguration_time |-> 0, change_events |-> <<event>>,
             discovery_event |-> ds]
    BY <1>4 DEF Genesis, vs, ds
  <2> DEFINE ev == <<event>>
             cf == g.config
  <2>5. /\ cf \in [Addresses -> Config \cup {NoConfig}]
        /\ ev \in Seq([time : Nat, new_validator_set : Seq(ValidatorInfo)])
        /\ g = [config |-> cf, validators |-> vs, discovery_set |-> ds,
                last_reconfiguration_time |-> 0, change_events |-> ev, discovery_event |-> ds]
    BY <2>1, <2>3, <2>4
  <2> HIDE DEF g, event, ev, cf
  <2> QED
    BY <1>2, <1>3, <2>5 DEF State
<1>6. event.time = 0 /\ event.new_validator_set = vs
  OBVIOUS
<1> HIDE DEF g, event
<1>7. Aligned(g)
  <2>1. Len(g.validators) = Len(g.discovery_set) /\ DOMAIN g.validators = DOMAIN InitialValidators
    BY <1>2, <1>3, <1>4
  <2>2. \A i \in DOMAIN g.validators : /\ g.validators[i].addr = InitialValidators[i]
                                       /\ g.discovery_set[i].addr = InitialValidators[i]
    BY <1>2, <1>3, <1>4
  <2>3. \A i \in DOMAIN InitialValidators : g.config[InitialValidators[i]] # NoConfig
    <3> SUFFICES ASSUME NEW i \in DOMAIN InitialValidators
                 PROVE  g.config[InitialValidators[i]] # NoConfig
      OBVIOUS
    <3>1. InitialValidators[i] \in Addresses
          /\ InitialValidators[i] \in ToSet(InitialValidators)
      BY <1>1
    <3>2. g.config[InitialValidators[i]] = config
      BY <1>4, <3>1
    <3> QED
      BY <1>1, <3>2
  <2> QED
    BY <1>1, <2>1, <2>2, <2>3 DEF Aligned
<1>8. LastEventTells(g) /\ TimesGrow(g)
  <2>1. Len(<<event>>) = 1 /\ DOMAIN <<event>> = {1} /\ <<event>>[1] = event
        /\ <<event>> # <<>>
    OBVIOUS
  <2> QED
    BY <1>4, <1>6, <2>1 DEF LastEventTells, TimesGrow
<1> QED
  BY <1>4, <1>5, <1>7, <1>8 DEF Sound, g

LEMMA InitiallySound == SystemInit => SystemInv
<1> SUFFICES ASSUME SystemInit PROVE SystemInv
  OBVIOUS
<1>1. Sound(state) /\ saved = state /\ running = Nobody /\ now = 0
  BY GenesisIsSound DEF SystemInit
<1> QED
  BY <1>1 DEF SystemInv, SystemTypeOK, Sound

LEMMA StepsKeepSound == SystemInv /\ [SystemNext]_system => SystemInv'
<1> SUFFICES ASSUME SystemInv, [SystemNext]_system PROVE SystemInv'
  OBVIOUS
<1> USE DEF SystemInv, SystemTypeOK
<1>1. CASE update_global_time
  <2>1. \A t \in now + 1..MaxTime : t \in Nat
    BY SystemAssumption
  <2> QED
    BY <1>1, <2>1 DEF update_global_time, Sound, Aligned, LastEventTells, TimesGrow
<1>2. CASE begin
  BY <1>2 DEF begin, Sound, Aligned, LastEventTells, TimesGrow
<1>3. CASE run_call
  <2>1. /\ running \in Addresses /\ state' \in Calls(state, running)
        /\ saved' = saved /\ running' = running /\ now' = now
    BY <1>3 DEF run_call
  <2>2. Sound(state')
    BY <2>1, CallsKeep
  <2> QED
    BY <2>1, <2>2 DEF Sound, Aligned, LastEventTells, TimesGrow
<1>4. CASE commit
  BY <1>4 DEF commit, Sound, Aligned, LastEventTells, TimesGrow
<1>5. CASE abort
  BY <1>5 DEF abort, Sound, Aligned, LastEventTells, TimesGrow
<1>6. CASE UNCHANGED system
  BY <1>6 DEF system, Sound, Aligned, LastEventTells, TimesGrow
<1> QED
  BY <1>1, <1>2, <1>3, <1>4, <1>5, <1>6 DEF SystemNext

LEMMA AlwaysSound == SystemSpec => []SystemInv
BY InitiallySound, StepsKeepSound, PTL DEF SystemSpec

\* State, saved state, the running sender and the time have their types.
THEOREM SystemTypeCorrect == SystemSpec => []SystemTypeOK
<1>1. SystemInv => SystemTypeOK
  BY DEF SystemInv
<1> QED
  BY <1>1, AlwaysSound, PTL

\* Whatever calls transactions make, abort in or commit, the two sets name the
\* same validators at the same indices (add_validator, remove_validator and the
\* rotations of libra_system.move).
THEOREM SetsStayAligned == SystemSpec => []SetsAlign
<1>1. SystemInv => SetsAlign
  BY DEF SystemInv, Sound, SetsAlign
<1> QED
  BY <1>1, AlwaysSound, PTL

\* What consensus and the network heard last is what the sets hold
\* (emit_reconfiguration_event, emit_discovery_set_change).
THEOREM EventsAreComplete == SystemSpec => []EventsTellTheSets
<1>1. SystemInv => EventsTellTheSets
  BY DEF SystemInv, Sound, LastEventTells, EventsTellTheSets, Last
<1> QED
  BY <1>1, AlwaysSound, PTL

\* No two reconfigurations have one time, so none can be undone or doubled
\* within a block (reconfigure_).
THEOREM ReconfigurationsAreSeparate == SystemSpec => []OneReconfigurationAtATime
<1>1. SystemInv => OneReconfigurationAtATime
  BY DEF SystemInv, Sound, TimesGrow, OneReconfigurationAtATime
<1> QED
  BY <1>1, AlwaysSound, PTL
=============================================================================
