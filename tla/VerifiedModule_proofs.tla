----------------------- MODULE VerifiedModule_proofs -----------------------
(***************************************************************************)
(* What the verifier accepts of a module's structs and of the calls of its  *)
(* generic functions is used without harm, for any modules.                 *)
(***************************************************************************)
EXTENDS VerifiedModule, SumTheorems

----------------------------------------------------------------------------
(* The graph of the type parameters *)

Edges == DOMAIN graph
Reaches(m, n) == leads_to(Edges, m, n)

\* The nodes that lead to n and that n does not lead back to.
Below(n) == {m \in Nodes : Reaches(m, n) /\ ~Reaches(n, m)}
Rank(n) == Cardinality(Below(n))

LEMMA NodesAreFinite ==
  ASSUME IsFunctions(functions)
  PROVE  IsFiniteSet(Nodes) /\ Cardinality(Nodes) \in Nat
<1> DEFINE of == [f \in FunctionDefs |-> {Node(f, i) : i \in 1..functions[f].formals}]
<1>1. IsFiniteSet(FunctionDefs) /\ \A f \in FunctionDefs : functions[f].formals \in Nat
  BY DEF IsFunctions, FunctionDefs
<1>2. ASSUME NEW f \in FunctionDefs PROVE IsFiniteSet(of[f])
  <2> DEFINE n == functions[f].formals
             node == [i \in 1..n |-> Node(f, i)]
  <2>1. node \in Surjection(1..n, of[f])
    BY DEF Surjection
  <2>2. IsFiniteSet(1..n)
    BY <1>1, FS_Interval
  <2> HIDE DEF n, node, of
  <2> QED
    BY <2>1, <2>2, FS_Surjection
<1>3. IsFiniteSet({of[f] : f \in FunctionDefs})
  <2> DEFINE S == {of[f] : f \in FunctionDefs}
  <2>1. [f \in FunctionDefs |-> of[f]] \in Surjection(FunctionDefs, S)
    <3> HIDE DEF of
    <3> QED
      BY DEF Surjection
  <2> HIDE DEF S
  <2>2. IsFiniteSet(S)
    BY <1>1, <2>1, FS_Surjection
  <2> QED
    BY <2>2 DEF S
<1>4. Nodes = UNION {of[f] : f \in FunctionDefs}
  BY DEF Nodes
<1>5. IsFiniteSet(UNION {of[f] : f \in FunctionDefs})
  <2>1. \A T \in {of[f] : f \in FunctionDefs} : IsFiniteSet(T)
    BY <1>2
  <2> HIDE DEF of
  <2> QED
    BY <1>3, <2>1, FS_UNION
<1> QED
  BY <1>4, <1>5, FS_CardinalityType

LEMMA NodesOf ==
  /\ \A f \in FunctionDefs : \A i \in 1..functions[f].formals : Node(f, i) \in Nodes
  /\ \A n \in Nodes : \E f \in FunctionDefs : \E i \in 1..functions[f].formals : n = Node(f, i)
BY DEF Nodes

\* An edge leads from its first node to its second, and what leads on leads further.
LEMMA ReachesOn ==
  /\ \A e \in Edges : Reaches(e[1], e[2])
  /\ \A l, m, n : Reaches(l, m) /\ Reaches(m, n) => Reaches(l, n)
BY DEF Reaches, leads_to

LEMMA RankGrows ==
  ASSUME IsFunctions(functions), NEW e \in Edges, e[1] \in Nodes, e[2] \in Nodes
  PROVE  /\ Rank(e[1]) \in Nat /\ Rank(e[2]) \in Nat
         /\ Rank(e[1]) <= Rank(e[2])
         /\ ~Reaches(e[2], e[1]) => Rank(e[1]) < Rank(e[2])
<1> DEFINE b1 == Below(e[1])
           b2 == Below(e[2])
<1>1. IsFiniteSet(b1) /\ IsFiniteSet(b2)
  <2>1. b1 \in SUBSET Nodes /\ b2 \in SUBSET Nodes
    BY DEF Below
  <2> QED
    BY <2>1, NodesAreFinite, FS_Subset
<1>2. b1 \in SUBSET b2
  <2>1. Reaches(e[1], e[2])
    BY ReachesOn
  <2>2. \A m : Reaches(m, e[1]) => Reaches(m, e[2])
    BY <2>1, ReachesOn
  <2>3. \A m : Reaches(e[2], m) => Reaches(e[1], m)
    BY <2>1, ReachesOn
  <2> QED
    BY <2>2, <2>3 DEF Below
<1>3. ASSUME ~Reaches(e[2], e[1]) PROVE b1 # b2
  <2>1. e[1] \in b2
    BY <1>3, ReachesOn DEF Below
  <2>2. e[1] \notin b1
    BY DEF Below
  <2> QED
    BY <2>1, <2>2
<1>4. /\ Cardinality(b1) \in Nat /\ Cardinality(b2) \in Nat
      /\ Cardinality(b1) <= Cardinality(b2)
      /\ Cardinality(b2) = Cardinality(b1) => b2 = b1
  <2> HIDE DEF b1, b2
  <2> QED
    BY <1>1, <1>2, FS_Subset, FS_CardinalityType
<1> HIDE DEF b1, b2
<1>5. Rank(e[1]) = Cardinality(b1) /\ Rank(e[2]) = Cardinality(b2)
  BY DEF Rank, b1, b2
<1> QED
  BY <1>3, <1>4, <1>5

LEMMA RankIsBounded ==
  ASSUME IsFunctions(functions), NEW n \in Nodes
  PROVE  Rank(n) \in Nat /\ Rank(n) < Cardinality(Nodes)
<1>1. Below(n) \in SUBSET Nodes /\ n \notin Below(n)
  BY DEF Below
<1>2. /\ Cardinality(Below(n)) \in Nat /\ Cardinality(Nodes) \in Nat
      /\ Cardinality(Below(n)) <= Cardinality(Nodes)
      /\ Cardinality(Nodes) = Cardinality(Below(n)) => Nodes = Below(n)
  BY <1>1, NodesAreFinite, FS_Subset, FS_CardinalityType
<1> HIDE DEF Below
<1> QED
  BY <1>1, <1>2 DEF Rank

\* No call hands a type parameter on where a later one, of the same function,
\* applies a constructor to it.
NothingHidden(fs) ==
  \A f \in DOMAIN fs : \A k, l \in DOMAIN fs[f].calls :
    k < l /\ fs[f].calls[k].callee = fs[f].calls[l].callee =>
      \A i \in DOMAIN fs[f].calls[k].types :
        ~fs[f].calls[k].types[i].con /\ fs[f].calls[l].types[i].con =>
          fs[f].calls[k].types[i].params \cap fs[f].calls[l].types[i].params = {}

Edge(f, p, c, i) == <<Node(f, p), Node(c.callee, i)>>
IsCall(f, k) == f \in FunctionDefs /\ k \in DOMAIN functions[f].calls
Calls(f, k) == functions[f].calls[k]

LEMMA CallShape ==
  ASSUME IsFunctions(functions), NEW f, NEW k, IsCall(f, k), NEW c, c = Calls(f, k)
  PROVE  /\ functions[f].formals \in Nat /\ k \in Nat
         /\ c.callee \in FunctionDefs /\ functions[c.callee].formals \in Nat
         /\ c.types \in [1..functions[c.callee].formals ->
                           [con : BOOLEAN, params : SUBSET (1..functions[f].formals)]]
<1>1. functions[f].formals \in Nat /\ functions[f].calls \in Seq(CallsIn(functions, f))
  BY DEF IsFunctions, FunctionDefs, IsCall
<1>2. k \in Nat /\ c \in CallsIn(functions, f)
  BY <1>1, LenProperties, ElementOfSeq DEF IsCall, Calls
<1>3. PICK g \in DOMAIN functions :
        c \in [callee : {g}, types : [1..functions[g].formals ->
                                        [con : BOOLEAN, params : SUBSET (1..functions[f].formals)]]]
  BY <1>2 DEF CallsIn
<1>4. functions[g].formals \in Nat
  BY DEF IsFunctions
<1> QED
  BY <1>1, <1>2, <1>3, <1>4 DEF FunctionDefs

LEMMA EdgesOfCall ==
  ASSUME NEW f, NEW c, NEW g, g = build_graph_call(f, c)
  PROVE  /\ \A e : e \in DOMAIN g <=> \E i \in DOMAIN c.types : \E p \in c.types[i].params : e = Edge(f, p, c, i)
         /\ \A i \in DOMAIN c.types : \A p \in c.types[i].params :
              g[Edge(f, p, c, i)] = IF c.types[i].con THEN "TyConApp" ELSE "Identity"
<1> DEFINE edges == UNION {{Edge(f, p, c, i) : p \in c.types[i].params} : i \in DOMAIN c.types}
<1>1. g = [e \in edges |-> IF c.types[e[2][2]].con THEN "TyConApp" ELSE "Identity"]
  BY DEF build_graph_call, Edge
<1>2. \A e : e \in edges <=> \E i \in DOMAIN c.types : \E p \in c.types[i].params : e = Edge(f, p, c, i)
  OBVIOUS
<1>3. \A i, p : Edge(f, p, c, i)[2][2] = i
  BY DEF Edge, Node
<1> HIDE DEF edges
<1>4. ASSUME NEW i \in DOMAIN c.types, NEW p \in c.types[i].params
      PROVE  g[Edge(f, p, c, i)] = IF c.types[i].con THEN "TyConApp" ELSE "Identity"
  <2>1. Edge(f, p, c, i) \in edges
    BY <1>2
  <2> QED
    BY <1>1, <1>3, <2>1
<1> QED
  BY <1>1, <1>2, <1>4

\* Of the calls that add an edge the first says what its attribute is.
LEMMA EdgesOfFunction ==
  ASSUME IsFunctions(functions), NEW f \in FunctionDefs, NEW g, g = build_graph_function_def(f)
  PROVE  /\ \A e : e \in DOMAIN g <=>
              \E k \in DOMAIN functions[f].calls : e \in DOMAIN build_graph_call(f, Calls(f, k))
         /\ \A e \in DOMAIN g : \E k \in DOMAIN functions[f].calls :
              /\ e \in DOMAIN build_graph_call(f, Calls(f, k))
              /\ g[e] = build_graph_call(f, Calls(f, k))[e]
              /\ \A l \in DOMAIN functions[f].calls :
                   e \in DOMAIN build_graph_call(f, Calls(f, l)) => k <= l
<1> DEFINE K == DOMAIN functions[f].calls
           of == [k \in K |-> build_graph_call(f, Calls(f, k))]
           adding(e) == {k \in K : e \in DOMAIN of[k]}
<1>1. K \in SUBSET Nat
  <2>1. functions[f].calls \in Seq(CallsIn(functions, f))
    BY DEF IsFunctions, FunctionDefs
  <2> QED
    BY <2>1, LenProperties
<1>2. g = [e \in UNION {DOMAIN of[k] : k \in K} |-> of[Min(adding(e))][e]]
  BY DEF build_graph_function_def, Calls
<1> HIDE DEF K
<1>3. \A e : e \in DOMAIN g <=> \E k \in K : e \in DOMAIN of[k]
  <2> HIDE DEF of, adding
  <2>1. DOMAIN g = UNION {DOMAIN of[k] : k \in K}
    BY <1>2
  <2> QED
    BY <2>1
<1>4. ASSUME NEW e \in DOMAIN g
      PROVE  /\ Min(adding(e)) \in K
             /\ e \in DOMAIN of[Min(adding(e))]
             /\ g[e] = of[Min(adding(e))][e]
             /\ \A l \in K : e \in DOMAIN of[l] => Min(adding(e)) <= l
  <2>1. adding(e) \in SUBSET Nat /\ adding(e) # {}
    BY <1>1, <1>3
  <2>2. Min(adding(e)) \in adding(e) /\ \A l \in adding(e) : Min(adding(e)) <= l
    <3> HIDE DEF adding
    <3> QED
      BY <2>1, MinIsLeast
  <2>3. g[e] = of[Min(adding(e))][e]
    <3> HIDE DEF of, adding
    <3> QED
      BY <1>2
  <2> HIDE DEF of
  <2> QED
    BY <2>2, <2>3
<1>5. \A k \in K : of[k] = build_graph_call(f, Calls(f, k))
  OBVIOUS
<1> HIDE DEF of, adding
<1> QED
  BY <1>3, <1>4, <1>5 DEF K

\* Each type parameter in a type of a call is an edge; of an edge that applies a
\* constructor some call applies it.
LEMMA EdgesOfCalls ==
  ASSUME IsFunctions(functions)
  PROVE  /\ \A f, k : IsCall(f, k) =>
              \A i \in DOMAIN Calls(f, k).types : \A p \in Calls(f, k).types[i].params :
                Edge(f, p, Calls(f, k), i) \in Edges
         /\ \A e \in Edges : \E f, k :
              /\ IsCall(f, k)
              /\ e \in DOMAIN build_graph_call(f, Calls(f, k))
              /\ graph[e] = build_graph_call(f, Calls(f, k))[e]
              /\ \A l : IsCall(f, l) /\ e \in DOMAIN build_graph_call(f, Calls(f, l)) => k <= l
<1> DEFINE of == [f \in FunctionDefs |-> build_graph_function_def(f)]
<1>1. graph = [e \in UNION {DOMAIN of[f] : f \in FunctionDefs} |-> of[e[1][1]][e]]
  BY DEF graph
<1>2. \A f \in FunctionDefs : of[f] = build_graph_function_def(f)
  OBVIOUS
<1> HIDE DEF of
<1>3. \A e : e \in Edges <=> \E f \in FunctionDefs : e \in DOMAIN of[f]
  BY <1>1 DEF Edges
<1>4. \A e \in Edges : graph[e] = of[e[1][1]][e]
  BY <1>1 DEF Edges
<1>5. ASSUME NEW f, NEW k, IsCall(f, k), NEW i \in DOMAIN Calls(f, k).types,
             NEW p \in Calls(f, k).types[i].params
      PROVE  Edge(f, p, Calls(f, k), i) \in Edges
  <2>1. Edge(f, p, Calls(f, k), i) \in DOMAIN build_graph_call(f, Calls(f, k))
    BY EdgesOfCall
  <2>2. f \in FunctionDefs /\ k \in DOMAIN functions[f].calls
    BY <1>5 DEF IsCall
  <2>3. Edge(f, p, Calls(f, k), i) \in DOMAIN build_graph_function_def(f)
    BY <2>1, <2>2, EdgesOfFunction
  <2> QED
    BY <1>2, <1>3, <2>2, <2>3
<1>6. ASSUME NEW e \in Edges
      PROVE  \E f, k :
              /\ IsCall(f, k)
              /\ e \in DOMAIN build_graph_call(f, Calls(f, k))
              /\ graph[e] = build_graph_call(f, Calls(f, k))[e]
              /\ \A l : IsCall(f, l) /\ e \in DOMAIN build_graph_call(f, Calls(f, l)) => k <= l
  <2>1. PICK f \in FunctionDefs : e \in DOMAIN build_graph_function_def(f)
    BY <1>2, <1>3
  <2>2. PICK k \in DOMAIN functions[f].calls :
              /\ e \in DOMAIN build_graph_call(f, Calls(f, k))
              /\ build_graph_function_def(f)[e] = build_graph_call(f, Calls(f, k))[e]
              /\ \A l \in DOMAIN functions[f].calls :
                   e \in DOMAIN build_graph_call(f, Calls(f, l)) => k <= l
    BY <2>1, EdgesOfFunction
  <2>3. e[1][1] = f
    <3>1. PICK i, p : e = Edge(f, p, Calls(f, k), i)
      BY <2>2, EdgesOfCall
    <3> QED
      BY <3>1 DEF Edge, Node
  <2>4. graph[e] = build_graph_call(f, Calls(f, k))[e]
    BY <1>2, <1>4, <2>2, <2>3
  <2> QED
    BY <2>2, <2>4 DEF IsCall
<1> QED
  BY <1>5, <1>6

\* Where nothing is hidden an edge knows of every constructor.
LEMMA ConstructorsSeen ==
  ASSUME IsFunctions(functions), NothingHidden(functions), NEW f, NEW k, IsCall(f, k),
         NEW i \in DOMAIN Calls(f, k).types, NEW p \in Calls(f, k).types[i].params,
         Calls(f, k).types[i].con
  PROVE  graph[Edge(f, p, Calls(f, k), i)] = "TyConApp"
<1> DEFINE e == Edge(f, p, Calls(f, k), i)
<1>1. e \in Edges /\ e \in DOMAIN build_graph_call(f, Calls(f, k))
  BY EdgesOfCalls, EdgesOfCall
<1>2. PICK g, l : /\ IsCall(g, l)
                  /\ e \in DOMAIN build_graph_call(g, Calls(g, l))
                  /\ graph[e] = build_graph_call(g, Calls(g, l))[e]
                  /\ \A m : IsCall(g, m) /\ e \in DOMAIN build_graph_call(g, Calls(g, m)) => l <= m
  <2> HIDE DEF e
  <2> QED
    BY <1>1, EdgesOfCalls
<1>3. PICK j \in DOMAIN Calls(g, l).types : \E q \in Calls(g, l).types[j].params :
        e = Edge(g, q, Calls(g, l), j)
  <2> HIDE DEF e
  <2> QED
    BY <1>2, EdgesOfCall
<1>4. PICK q \in Calls(g, l).types[j].params : e = Edge(g, q, Calls(g, l), j)
  BY <1>3
<1>5. g = f /\ q = p /\ j = i /\ Calls(g, l).callee = Calls(f, k).callee
  BY <1>4 DEF Edge, Node
<1>6. graph[e] = IF Calls(f, l).types[i].con THEN "TyConApp" ELSE "Identity"
  <2>1. build_graph_call(f, Calls(f, l))[e] = IF Calls(f, l).types[i].con THEN "TyConApp" ELSE "Identity"
    <3> HIDE DEF e
    <3> QED
      BY <1>4, <1>5, EdgesOfCall
  <2> QED
    BY <1>2, <1>5, <2>1
<1>7. k \in Nat /\ l \in Nat /\ l <= k
  <2> HIDE DEF e
  <2> QED
    BY <1>1, <1>2, <1>5, CallShape
<1>8. Calls(f, l).types[i].con
  <2>1. CASE l = k
    BY <2>1
  <2>2. CASE l < k
    <3>1. f \in DOMAIN functions /\ k \in DOMAIN functions[f].calls /\ l \in DOMAIN functions[f].calls
      BY <1>2, <1>5 DEF IsCall, FunctionDefs
    <3>2. p \in Calls(f, l).types[i].params /\ i \in DOMAIN Calls(f, l).types
      BY <1>3, <1>4, <1>5
    <3> QED
      BY <1>5, <2>2, <3>1, <3>2 DEF NothingHidden, Calls
  <2> QED
    BY <1>7, <2>1, <2>2
<1> QED
  BY <1>6, <1>8

----------------------------------------------------------------------------
(* The types of accepted calls *)

CallsType ==
  /\ IsFunctions(functions)
  /\ current \in FunctionDefs
  /\ depths \in [1..functions[current].formals -> Nat]

\* A type nests at most one constructor more than there are nodes below its own.
DepthsInv ==
  /\ status \in {"submitted", "rejected", "published"}
  /\ status # "published" => \A i \in DOMAIN depths : depths[i] = 0
  /\ status = "published" =>
       /\ CallsAccepted
       /\ \A i \in DOMAIN depths : depths[i] <= Rank(Node(current, i)) + 1

\* The depth of a type is that of a type parameter in it, or none, and one more
\* where it applies a constructor.
DepthIs(d, ty, ds, b) ==
  \E m \in 0..b : /\ ty.con => d = m + 1
                  /\ ~ty.con => d = m
                  /\ m = 0 \/ \E p \in ty.params : m = ds[p]
                  /\ \A p \in ty.params : ds[p] <= m

LEMMA DepthOfType ==
  ASSUME NEW n \in Nat, NEW b \in Nat, NEW ds \in [1..n -> 0..b],
         NEW ty \in [con : BOOLEAN, params : SUBSET (1..n)]
  PROVE  DepthIs(derive_type_tag(ty, ds), ty, ds, b)
<1> DEFINE S == {0} \cup {ds[p] : p \in ty.params}
<1>1. S \in SUBSET (0..b) /\ S # {}
  OBVIOUS
<1>2. Max(S) \in S /\ \A y \in S : Max(S) >= y
  <2> HIDE DEF S
  <2> QED
    BY <1>1, MaxIsGreatest
<1>3. /\ ty.con => derive_type_tag(ty, ds) = 1 + Max(S)
      /\ ~ty.con => derive_type_tag(ty, ds) = 0 + Max(S)
  BY DEF derive_type_tag
<1>4. \A p \in ty.params : ds[p] \in S
  OBVIOUS
<1>5. Max(S) \in 0..b /\ (Max(S) = 0 \/ \E p \in ty.params : Max(S) = ds[p])
  <2> DEFINE x == Max(S)
  <2>1. x \in S
    BY <1>2
  <2> HIDE DEF x
  <2>2. x \in 0..b /\ (x = 0 \/ \E p \in ty.params : x = ds[p])
    BY <1>1, <2>1
  <2> QED
    BY <2>2 DEF x
<1> DEFINE m == Max(S)
<1>6. \A p \in ty.params : ds[p] <= m
  <2>1. \A p \in ty.params : ds[p] \in 0..b /\ m \in 0..b /\ m >= ds[p]
    <3> HIDE DEF S
    <3> QED
      BY <1>2, <1>4, <1>5
  <2> HIDE DEF m
  <2> QED
    BY <2>1
<1> HIDE DEF S
<1> QED
  BY <1>3, <1>5, <1>6 DEF DepthIs

LEMMA CallTypes ==
  ASSUME CallsType, call
  PROVE  /\ functions' = functions
         /\ \E k : /\ IsCall(current, k)
                   /\ current' = Calls(current, k).callee
                   /\ depths' = types_of(Calls(current, k), depths)
<1>1. PICK c \in Range(functions[current].calls) :
        current' = c.callee /\ depths' = types_of(c, depths)
  BY DEF call
<1>2. PICK k \in DOMAIN functions[current].calls : c = functions[current].calls[k]
  BY DEF Range
<1> QED
  BY <1>1, <1>2 DEF call, CallsType, IsCall, Calls

\* What is accepted applies a constructor only on the way to a node that does not
\* lead back.
LEMMA CallKeepsDepths ==
  ASSUME CallsType, NothingHidden(functions), CallsAccepted,
         \A i \in DOMAIN depths : depths[i] <= Rank(Node(current, i)) + 1,
         NEW k, IsCall(current, k), NEW c, c = Calls(current, k)
  PROVE  /\ types_of(c, depths) \in [1..functions[c.callee].formals -> Nat]
         /\ \A i \in DOMAIN types_of(c, depths) :
              types_of(c, depths)[i] <= Rank(Node(c.callee, i)) + 1
<1> DEFINE n == functions[current].formals
           b == Cardinality(Nodes)
<1>1. /\ IsFunctions(functions) /\ current \in FunctionDefs /\ b \in Nat
      /\ depths \in [1..n -> Nat]
  BY NodesAreFinite DEF CallsType
<1>2. /\ n \in Nat /\ c.callee \in FunctionDefs /\ functions[c.callee].formals \in Nat
      /\ c.types \in [1..functions[c.callee].formals -> [con : BOOLEAN, params : SUBSET (1..n)]]
  BY <1>1, CallShape
<1>3. depths \in [1..n -> 0..b]
  <2>1. ASSUME NEW i \in 1..n PROVE depths[i] \in 0..b
    <3>1. Node(current, i) \in Nodes
      BY <1>1, NodesOf
    <3>2. Rank(Node(current, i)) \in Nat /\ Rank(Node(current, i)) < b
      BY <1>1, <3>1, RankIsBounded
    <3>3. depths[i] \in Nat /\ depths[i] <= Rank(Node(current, i)) + 1
      BY <1>1
    <3> HIDE DEF b, n
    <3> QED
      BY <1>1, <3>2, <3>3
  <2> HIDE DEF b, n
  <2> QED
    BY <1>1, <2>1
<1>4. ASSUME NEW i \in 1..functions[c.callee].formals
      PROVE  /\ derive_type_tag(c.types[i], depths) \in Nat
             /\ derive_type_tag(c.types[i], depths) <= Rank(Node(c.callee, i)) + 1
  <2> DEFINE ty == c.types[i]
             to == Node(c.callee, i)
             d == derive_type_tag(ty, depths)
  <2>1. ty \in [con : BOOLEAN, params : SUBSET (1..n)]
    BY <1>2
  <2>2. to \in Nodes /\ Rank(to) \in Nat
    BY <1>1, <1>2, NodesOf, RankIsBounded
  <2>3. PICK m \in 0..b : /\ ty.con => d = m + 1
                          /\ ~ty.con => d = m
                          /\ m = 0 \/ \E p \in ty.params : m = depths[p]
    <3>1. n \in Nat /\ b \in Nat
      BY <1>1, <1>2
    <3> HIDE DEF n, b, ty
    <3>2. DepthIs(d, ty, depths, b)
      BY <1>3, <2>1, <3>1, DepthOfType
    <3> HIDE DEF d
    <3> QED
      BY <3>2 DEF DepthIs
  <2>4. d \in Nat
    <3> HIDE DEF d, b, ty
    <3> QED
      BY <1>1, <2>3
  <2>5. ASSUME m = 0 PROVE d <= Rank(to) + 1
    <3> DEFINE r == Rank(to)
    <3>1. r \in Nat
      BY <2>2
    <3> HIDE DEF d, b, ty, r
    <3>2. d <= r + 1
      BY <2>3, <2>5, <3>1
    <3> QED
      BY <3>2 DEF r
  <2>6. ASSUME NEW p \in ty.params, m = depths[p]
        PROVE  d <= Rank(to) + 1
    <3> DEFINE from == Node(current, p)
               e == Edge(current, p, c, i)
    <3>1. p \in 1..n /\ from \in Nodes
      BY <1>1, <2>1, NodesOf
    <3>2. e \in Edges /\ e[1] = from /\ e[2] = to
      BY <1>1, <1>2, EdgesOfCalls DEF Edge
    <3>3. /\ Rank(from) \in Nat /\ Rank(from) <= Rank(to)
          /\ ~Reaches(to, from) => Rank(from) < Rank(to)
      <4> HIDE DEF from, to, e
      <4> QED
        BY <1>1, <2>2, <3>1, <3>2, RankGrows
    <3>4. m <= Rank(from) + 1
      BY <1>1, <2>6, <3>1
    <3>5. ASSUME ty.con PROVE ~Reaches(to, from)
      <4>1. graph[e] = "TyConApp"
        BY <1>1, <1>2, <3>5, ConstructorsSeen
      <4> HIDE DEF e, from, to
      <4> QED
        BY <3>2, <4>1 DEF CallsAccepted, find_non_trivial_components, Reaches, Edges
    <3>6. m \in Nat
      OBVIOUS
    <3> HIDE DEF from, to, d, ty, e
    <3>7. CASE ty.con
      BY <2>2, <2>3, <3>3, <3>4, <3>5, <3>6, <3>7
    <3>8. CASE ~ty.con
      BY <2>2, <2>3, <3>3, <3>4, <3>6, <3>8
    <3> QED
      BY <3>7, <3>8
  <2> HIDE DEF d, ty, to
  <2>7. d <= Rank(to) + 1
    BY <2>3, <2>5, <2>6
  <2> QED
    BY <2>4, <2>7 DEF d, ty, to
<1>5. types_of(c, depths) = [i \in 1..functions[c.callee].formals |-> derive_type_tag(c.types[i], depths)]
  BY <1>2 DEF types_of
<1> QED
  BY <1>4, <1>5

\* What is said of the functions alone stays as they do.
LEMMA FunctionsStay ==
  ASSUME functions' = functions
  PROVE  /\ IsFunctions(functions)' <=> IsFunctions(functions)
         /\ NothingHidden(functions)' <=> NothingHidden(functions)
         /\ Nodes' = Nodes /\ graph' = graph /\ FunctionDefs' = FunctionDefs
         /\ CallsAccepted' <=> CallsAccepted
         /\ \A n : Rank(n)' = Rank(n)
<1>1. /\ IsFunctions(functions)' <=> IsFunctions(functions)
      /\ NothingHidden(functions)' <=> NothingHidden(functions)
      /\ FunctionDefs' = FunctionDefs
  BY DEF FunctionDefs
<1>2. Nodes' = Nodes
  BY <1>1 DEF Nodes
<1>3. graph' = graph
  BY <1>1 DEF graph, build_graph_function_def
<1>4. CallsAccepted' <=> CallsAccepted
  BY <1>2, <1>3 DEF CallsAccepted, find_non_trivial_components, leads_to
<1>5. ASSUME NEW n PROVE Rank(n)' = Rank(n)
  <2>1. Edges' = Edges
    BY <1>3 DEF Edges
  <2> QED
    BY <1>2, <2>1 DEF Rank, Below, Reaches, leads_to
<1> QED
  BY <1>1, <1>2, <1>3, <1>4, <1>5

\* The functions and the frame are as they should be in all that follows; no
\* call is made before the module is published.
CallsInv == CallsType /\ NothingHidden(functions) /\ DepthsInv

\* The types a module's functions are instantiated with nest no more constructors
\* than there are type parameters, if no call hides a constructor from the graph.
\* (instantiation_loops.py)
THEOREM AcceptedTypesStayBounded ==
  ASSUME \A family \in Submitted : \A fs \in family.functions : NothingHidden(fs)
  PROVE  Spec => []TypesStayBounded
<1>1. Init => CallsInv
  <2> SUFFICES ASSUME Init PROVE CallsInv
    OBVIOUS
  <2>1. IsFunctions(functions) /\ NothingHidden(functions)
    BY SubmittedAssumption DEF Init
  <2>2. functions[current].formals \in Nat /\ current \in FunctionDefs
    BY <2>1 DEF Init, Entered, IsFunctions, FunctionDefs
  <2>3. depths = [i \in 1..functions[current].formals |-> 0] /\ status = "submitted"
    BY DEF Init, Entered
  <2> QED
    BY <2>1, <2>2, <2>3 DEF CallsInv, CallsType, DepthsInv
<1>2. CallsInv /\ [Next]_vars => CallsInv'
  <2> SUFFICES ASSUME CallsInv, [Next]_vars PROVE CallsInv'
    OBVIOUS
  <2>1. IsFunctions(functions) /\ NothingHidden(functions) /\ CallsType /\ DepthsInv
    BY DEF CallsInv, CallsType
  <2>2. CASE verify
    <3>1. /\ UNCHANGED <<functions, current, depths>> /\ status = "submitted"
          /\ status' \in {"rejected", "published"}
          /\ status' = "published" => CallsAccepted
      BY <2>2 DEF verify
    <3>2. CallsType' /\ NothingHidden(functions)'
      BY <2>1, <3>1, FunctionsStay DEF CallsType
    <3>3. \A i \in DOMAIN depths : depths[i] = 0 /\ Rank(Node(current, i)) \in Nat
      <4> SUFFICES ASSUME NEW i \in DOMAIN depths
                   PROVE  depths[i] = 0 /\ Rank(Node(current, i)) \in Nat
        OBVIOUS
      <4>1. Node(current, i) \in Nodes
        BY <2>1, NodesOf DEF CallsType
      <4> QED
        BY <2>1, <3>1, <4>1, RankIsBounded DEF DepthsInv
    <3>4. DepthsInv'
      <4>1. \A i \in DOMAIN depths' : depths'[i] = 0 /\ depths'[i] <= Rank(Node(current, i))' + 1
        BY <3>1, <3>3, FunctionsStay
      <4>2. status' = "published" => CallsAccepted'
        BY <3>1, FunctionsStay
      <4> QED
        BY <3>1, <4>1, <4>2 DEF DepthsInv
    <3> QED
      BY <3>2, <3>4 DEF CallsInv
  <2>3. ASSUME UNCHANGED <<functions, status, current, depths>>
        PROVE  CallsInv'
    <3>1. CallsType' /\ NothingHidden(functions)'
      BY <2>1, <2>3, FunctionsStay DEF CallsType
    <3>2. DepthsInv'
      <4>1. status' = status /\ depths' = depths /\ (CallsAccepted' <=> CallsAccepted)
        BY <2>3, FunctionsStay
      <4>2. \A i \in DOMAIN depths : Rank(Node(current, i))' = Rank(Node(current, i))
        BY <2>3, FunctionsStay
      <4> QED
        BY <2>1, <4>1, <4>2 DEF DepthsInv
    <3> QED
      BY <3>1, <3>2 DEF CallsInv
  <2>4. CASE resolve
    BY <2>3, <2>4 DEF resolve
  <2>5. CASE run_call
    <3>1. status = "published" /\ status' = status /\ call
      BY <2>5 DEF run_call
    <3>2. CallsAccepted /\ \A i \in DOMAIN depths : depths[i] <= Rank(Node(current, i)) + 1
      BY <2>1, <3>1 DEF DepthsInv
    <3>3. functions' = functions
      BY <2>1, <3>1, CallTypes
    <3>4. PICK k : /\ IsCall(current, k)
                   /\ current' = Calls(current, k).callee
                   /\ depths' = types_of(Calls(current, k), depths)
      BY <2>1, <3>1, CallTypes
    <3>5. /\ depths' \in [1..functions[current'].formals -> Nat]
          /\ \A i \in DOMAIN depths' : depths'[i] <= Rank(Node(current', i)) + 1
      BY <2>1, <3>2, <3>4, CallKeepsDepths
    <3>6. current' \in FunctionDefs
      BY <2>1, <3>4, CallShape
    <3>7. CallsType' /\ NothingHidden(functions)'
      BY <2>1, <3>3, <3>5, <3>6, FunctionsStay DEF CallsType
    <3>8. DepthsInv'
      <4>1. \A i \in DOMAIN depths' : Rank(Node(current, i))' = Rank(Node(current', i))
        BY <3>3, FunctionsStay
      <4>2. CallsAccepted'
        BY <3>2, <3>3, FunctionsStay
      <4>3. \A i \in DOMAIN depths' : depths'[i] <= Rank(Node(current, i))' + 1
        BY <3>5, <4>1
      <4> QED
        BY <3>1, <4>2, <4>3 DEF DepthsInv
    <3> QED
      BY <3>7, <3>8 DEF CallsInv
  <2>6. CASE UNCHANGED vars
    BY <2>3, <2>6 DEF vars
  <2> QED
    BY <2>2, <2>4, <2>5, <2>6 DEF Next
<1>3. CallsInv => TypesStayBounded
  <2> SUFFICES ASSUME CallsInv, status = "published", NEW i \in DOMAIN depths
               PROVE  depths[i] <= Cardinality(Nodes)
    BY DEF TypesStayBounded
  <2>1. IsFunctions(functions) /\ CallsType /\ DepthsInv
    BY DEF CallsInv, CallsType
  <2>2. Node(current, i) \in Nodes
    BY <2>1, NodesOf DEF CallsType
  <2>3. Rank(Node(current, i)) \in Nat /\ Rank(Node(current, i)) < Cardinality(Nodes)
    BY <2>1, <2>2, RankIsBounded
  <2>4. depths[i] \in Nat /\ depths[i] <= Rank(Node(current, i)) + 1
    BY <2>1 DEF DepthsInv, CallsType
  <2>5. Cardinality(Nodes) \in Nat
    BY <2>1, NodesAreFinite
  <2> QED
    BY <2>3, <2>4, <2>5
<1> QED
  BY <1>1, <1>2, <1>3, PTL DEF Spec

----------------------------------------------------------------------------
(* The types of rejected calls *)

Bound == Cardinality(Nodes)
Capped(ds) == [i \in DOMAIN ds |-> Min({ds[i], Bound + 1})]
Called(s) == {<<c.callee, Capped(types_of(c, s[2]))>> : c \in Range(functions[s[1]].calls)}
FirstInstances == {<<f, [i \in 1..functions[f].formals |-> 0]>> : f \in FunctionDefs}

\* The instances that k calls lead to.
Level[k \in 0..Bound * (Bound + 1)] ==
  IF k = 0 THEN FirstInstances
  ELSE LET before == Level[k - 1]
       IN  before \cup UNION {Called(s) : s \in before}

LEMMA DeepAreOnLevels ==
  DeepInstances = {s \in Level[Bound * (Bound + 1)] : \E i \in DOMAIN s[2] : s[2][i] > Bound}
BY DEF DeepInstances, Level, FirstInstances, Called, Capped, Bound

IsInstance(s) ==
  \E f \in FunctionDefs : \E ds \in [1..functions[f].formals -> 0..Bound + 1] : s = <<f, ds>>
Instances == UNION {{<<f, ds>> : ds \in [1..functions[f].formals -> 0..Bound + 1]} : f \in FunctionDefs}
Levels == Bound * (Bound + 1)
Onward(S) == S \cup UNION {Called(s) : s \in S}

LEMMA CapIs ==
  ASSUME NEW b \in Nat, NEW d \in Nat
  PROVE  Min({d, b + 1}) \in 0..b + 1 /\ (Min({d, b + 1}) = d \/ (Min({d, b + 1}) = b + 1 /\ d >= b + 1))
<1> DEFINE S == {d, b + 1}
           m == Min(S)
<1>1. S \in SUBSET Nat /\ S # {}
  OBVIOUS
<1>2. m \in S /\ \A y \in S : m <= y
  <2> HIDE DEF S
  <2> QED
    BY <1>1, MinIsLeast
<1>3. (m = d \/ m = b + 1) /\ m <= d /\ m <= b + 1
  <2> HIDE DEF m
  <2> QED
    BY <1>2
<1> HIDE DEF m
<1> QED
  BY <1>3 DEF m

\* The instance a call makes, and what a type in it comes to.
LEMMA CalledIs ==
  ASSUME IsFunctions(functions), NEW f \in FunctionDefs,
         NEW ds \in [1..functions[f].formals -> 0..Bound + 1],
         NEW k, IsCall(f, k), NEW c, c = Calls(f, k)
  PROVE  /\ <<c.callee, Capped(types_of(c, ds))>> \in Called(<<f, ds>>)
         /\ Capped(types_of(c, ds)) \in [1..functions[c.callee].formals -> 0..Bound + 1]
         /\ \A i \in DOMAIN c.types : \A p \in c.types[i].params : \A d \in 0..Bound + 1 :
              /\ ds[p] >= d => Capped(types_of(c, ds))[i] >= d
              /\ c.types[i].con /\ ds[p] + 1 >= d => Capped(types_of(c, ds))[i] >= d
<1> DEFINE n == functions[f].formals
           b == Bound + 1
           g == functions[c.callee].formals
           made == Capped(types_of(c, ds))
<1>1. b \in Nat /\ n \in Nat /\ Bound \in Nat
  BY CallShape, NodesAreFinite DEF Bound
<1>2. /\ c.callee \in FunctionDefs /\ g \in Nat
      /\ c.types \in [1..g -> [con : BOOLEAN, params : SUBSET (1..n)]]
  BY CallShape
<1>3. <<c.callee, made>> \in Called(<<f, ds>>)
  <2>1. c \in Range(functions[f].calls)
    BY DEF IsCall, Calls, Range
  <2> HIDE DEF made
  <2>2. \A x \in Range(functions[f].calls) :
          <<x.callee, Capped(types_of(x, ds))>> \in Called(<<f, ds>>)
    BY DEF Called
  <2> QED
    BY <2>1, <2>2 DEF made
<1>4. made = [i \in 1..g |-> Min({derive_type_tag(c.types[i], ds), Bound + 1})]
  <2>1. types_of(c, ds) = [i \in 1..g |-> derive_type_tag(c.types[i], ds)]
    BY <1>2 DEF types_of
  <2> HIDE DEF g
  <2> QED
    BY <2>1 DEF Capped
<1>5. ASSUME NEW i \in 1..g
      PROVE  /\ made[i] \in 0..b
             /\ \A p \in c.types[i].params : \A d \in 0..b :
                  /\ ds[p] >= d => made[i] >= d
                  /\ c.types[i].con /\ ds[p] + 1 >= d => made[i] >= d
  <2> DEFINE ty == c.types[i]
             t == derive_type_tag(ty, ds)
             m == Min({t, Bound + 1})
  <2>1. ty \in [con : BOOLEAN, params : SUBSET (1..n)]
    BY <1>2
  <2>2. ds \in [1..n -> 0..b]
    OBVIOUS
  <2>3. DepthIs(t, ty, ds, b)
    <3> HIDE DEF n, b, ty
    <3> QED
      BY <1>1, <2>1, <2>2, DepthOfType
  <2>4. PICK x \in 0..b : /\ ty.con => t = x + 1
                          /\ ~ty.con => t = x
                          /\ \A p \in ty.params : ds[p] <= x
    <3> HIDE DEF ty, t, b
    <3> QED
      BY <2>3 DEF DepthIs
  <2>5. t \in Nat
    <3> HIDE DEF ty, t, b
    <3> QED
      BY <1>1, <2>4
  <2>6. m \in 0..b /\ (m = t \/ (m = b /\ t >= b))
    <3> HIDE DEF t
    <3> QED
      BY <1>1, <2>5, CapIs
  <2>7. made[i] = m
    <3> HIDE DEF made
    <3> QED
      BY <1>4
  <2>8. ASSUME NEW p \in ty.params, NEW d \in 0..b
        PROVE  /\ ds[p] >= d => m >= d
               /\ ty.con /\ ds[p] + 1 >= d => m >= d
    <3> DEFINE y == ds[p]
    <3>1. y \in 0..b /\ y <= x
      <4>1. p \in 1..n
        BY <2>1
      <4> QED
        BY <2>2, <2>4, <4>1
    <3> HIDE DEF y, m, t, b, ty
    <3>2. t >= x /\ (ty.con => t = x + 1)
      BY <1>1, <2>4
    <3>3. (y >= d => m >= d) /\ (ty.con /\ y + 1 >= d => m >= d)
      BY <1>1, <2>5, <2>6, <3>1, <3>2
    <3> QED
      BY <3>3 DEF y
  <2> HIDE DEF made, m
  <2> QED
    BY <2>6, <2>7, <2>8
<1>6. made \in [1..g -> 0..b]
  <2>1. made = [i \in 1..g |-> made[i]]
    <3> HIDE DEF g
    <3>1. DOMAIN made = 1..g
      BY <1>4
    <3> QED
      BY <1>4
  <2> HIDE DEF made, b, g
  <2> QED
    BY <1>5, <2>1
<1>7. DOMAIN c.types = 1..g
  BY <1>2
<1> HIDE DEF made, g, b
<1>8. \A i \in DOMAIN c.types : \A p \in c.types[i].params : \A d \in 0..b :
              /\ ds[p] >= d => made[i] >= d
              /\ c.types[i].con /\ ds[p] + 1 >= d => made[i] >= d
  BY <1>5, <1>7
<1> QED
  BY <1>3, <1>6, <1>8 DEF made, g, b

LEMMA InstancesAre ==
  ASSUME IsFunctions(functions)
  PROVE  /\ \A s : s \in Instances <=> IsInstance(s)
         /\ FirstInstances \in SUBSET Instances
         /\ \A s \in Instances : Called(s) \in SUBSET Instances
         /\ Bound \in Nat /\ Levels \in Nat
<1>1. \A s : s \in Instances <=> IsInstance(s)
  BY DEF Instances, IsInstance
<1>2. Bound \in Nat /\ Bound + 1 \in Nat
  BY NodesAreFinite DEF Bound
<1>3. FirstInstances \in SUBSET Instances
  <2> SUFFICES ASSUME NEW f \in FunctionDefs
               PROVE  IsInstance(<<f, [i \in 1..functions[f].formals |-> 0]>>)
    BY <1>1 DEF FirstInstances
  <2>1. 0 \in 0..Bound + 1
    BY <1>2
  <2>2. [i \in 1..functions[f].formals |-> 0] \in [1..functions[f].formals -> 0..Bound + 1]
    BY <2>1
  <2> QED
    BY <2>2 DEF IsInstance
<1>4. ASSUME NEW s \in Instances, NEW t \in Called(s) PROVE t \in Instances
  <2>1. PICK f \in FunctionDefs : \E ds \in [1..functions[f].formals -> 0..Bound + 1] : s = <<f, ds>>
    BY <1>1 DEF IsInstance
  <2>2. PICK ds \in [1..functions[f].formals -> 0..Bound + 1] : s = <<f, ds>>
    BY <2>1
  <2>3. PICK c \in Range(functions[f].calls) : t = <<c.callee, Capped(types_of(c, ds))>>
    BY <2>2 DEF Called
  <2>4. PICK k \in DOMAIN functions[f].calls : c = functions[f].calls[k]
    BY DEF Range
  <2>5. IsCall(f, k) /\ c = Calls(f, k)
    BY <2>4 DEF IsCall, Calls
  <2>6. Capped(types_of(c, ds)) \in [1..functions[c.callee].formals -> 0..Bound + 1]
    BY <2>5, CalledIs
  <2>7. c.callee \in FunctionDefs
    BY <2>5, CallShape
  <2> QED
    BY <1>1, <2>3, <2>6, <2>7 DEF IsInstance
<1>5. Bound * (Bound + 1) \in Nat
  <2> DEFINE b == Bound
  <2> HIDE DEF b
  <2>1. \A x \in Nat : x * (x + 1) \in Nat
    OBVIOUS
  <2> QED
    BY <1>2, <2>1
<1> QED
  BY <1>1, <1>2, <1>3, <1>4, <1>5 DEF Levels

LEMMA LevelValues ==
  ASSUME IsFunctions(functions)
  PROVE  /\ Level[0] = FirstInstances
         /\ \A k \in 1..Levels : Level[k] = Onward(Level[k - 1])
         /\ \A k \in 0..Levels : Level[k] \in SUBSET Instances
<1> DEFINE R == SUBSET Instances
           step == [k \in 1..Levels |-> [S \in R |-> Onward(S)]]
           Value(f, k) == IF k = 0 THEN FirstInstances
                          ELSE LET before == f[k - 1]
                               IN  before \cup UNION {Called(s) : s \in before}
<1>1. Levels \in Nat /\ FirstInstances \in R
  BY InstancesAre
<1>2. \A S \in R : Onward(S) \in R
  BY InstancesAre DEF Onward
<1>3. step \in [1..Levels -> [R -> R]]
  <2> HIDE DEF R
  <2> QED
    BY <1>2
<1>4. PICK f \in [0..Levels -> R] : Recurs(f, Levels, FirstInstances, step)
  <2> HIDE DEF R, step
  <2> QED
    BY <1>1, <1>3, RecursionExists
<1>5. f = [k \in 0..Levels |-> Value(f, k)]
  <2>1. f = [k \in 0..Levels |-> IF k = 0 THEN FirstInstances ELSE step[k][f[k - 1]]]
    BY <1>4 DEF Recurs
  <2>2. ASSUME NEW k \in 0..Levels
        PROVE  (IF k = 0 THEN FirstInstances ELSE step[k][f[k - 1]]) = Value(f, k)
    <3>1. CASE k = 0
      BY <3>1
    <3>2. CASE k # 0
      <4>1. k \in 1..Levels /\ k - 1 \in 0..Levels
        BY <1>1, <3>2
      <4>2. f[k - 1] \in R
        BY <1>4, <4>1
      <4>3. step[k][f[k - 1]] = Onward(f[k - 1])
        <5> HIDE DEF R
        <5> QED
          BY <4>1, <4>2
      <4> HIDE DEF R, step
      <4> QED
        BY <3>2, <4>3 DEF Onward
    <3> QED
      BY <3>1, <3>2
  <2> HIDE DEF R, step, Value
  <2> QED
    BY <2>1, <2>2
<1>6. Level = CHOOSE g : g = [k \in 0..Levels |-> Value(g, k)]
  BY DEF Level, Levels
<1>7. Level = [k \in 0..Levels |-> Value(Level, k)]
  <2> HIDE DEF Value
  <2> QED
    BY <1>5, <1>6
<1>8. /\ Level[0] = FirstInstances
      /\ \A k \in 1..Levels : Level[k] = Onward(Level[k - 1])
  <2>1. \A k \in 0..Levels : Level[k] = Value(Level, k)
    <3> HIDE DEF Value
    <3> QED
      BY <1>7
  <2>2. 0 \in 0..Levels /\ \A k \in 1..Levels : k \in 0..Levels /\ k # 0
    BY <1>1
  <2> QED
    BY <2>1, <2>2 DEF Onward
<1> DEFINE C == {k \in Nat : k <= Levels => Level[k] \in R}
<1>9. 0 \in C
  BY <1>1, <1>8
<1>10. ASSUME NEW k \in Nat, k \in C PROVE k + 1 \in C
  <2> SUFFICES ASSUME k + 1 <= Levels PROVE Level[k + 1] \in R
    OBVIOUS
  <2>1. k + 1 \in 1..Levels /\ (k + 1) - 1 = k /\ k <= Levels
    BY <1>1
  <2> QED
    BY <1>2, <1>8, <1>10, <2>1
<1>11. Nat \subseteq C
  <2> HIDE DEF C
  <2> QED
    BY <1>9, <1>10, NatSetInduction
<1> QED
  BY <1>8, <1>11

\* The type parameters that get types of depth d in k calls.
Deep(k, d) == {n \in Nodes : \E s \in Level[k] : s[1] = n[1] /\ s[2][n[2]] >= d}

\* Edges are led along by one call, and deeper by a constructor.
LEMMA DeepAlong ==
  ASSUME IsFunctions(functions), NEW k \in Nat, k < Levels, NEW d \in 0..Bound + 1
  PROVE  /\ Deep(k, d) \subseteq Deep(k + 1, d)
         /\ \A e \in Edges : e[1] \in Deep(k, d) =>
              /\ e[2] \in Deep(k + 1, d)
              /\ graph[e] = "TyConApp" /\ d < Bound + 1 => e[2] \in Deep(k + 1, d + 1)
<1>1. /\ k + 1 \in 1..Levels /\ (k + 1) - 1 = k /\ k \in 0..Levels
      /\ Levels \in Nat /\ Bound \in Nat
  BY InstancesAre
<1>2. Level[k + 1] = Onward(Level[k]) /\ Level[k] \in SUBSET Instances
  BY <1>1, LevelValues
<1>3. Level[k] \subseteq Level[k + 1] /\ \A s \in Level[k] : Called(s) \subseteq Level[k + 1]
  BY <1>2 DEF Onward
<1>4. Deep(k, d) \subseteq Deep(k + 1, d)
  BY <1>3 DEF Deep
<1>5. ASSUME NEW e \in Edges, e[1] \in Deep(k, d)
      PROVE  /\ e[2] \in Deep(k + 1, d)
             /\ graph[e] = "TyConApp" /\ d < Bound + 1 => e[2] \in Deep(k + 1, d + 1)
  <2>1. PICK f, l : /\ IsCall(f, l)
                    /\ e \in DOMAIN build_graph_call(f, Calls(f, l))
                    /\ graph[e] = build_graph_call(f, Calls(f, l))[e]
    BY EdgesOfCalls
  <2> DEFINE c == Calls(f, l)
  <2>2. PICK i \in DOMAIN c.types : \E p \in c.types[i].params : e = Edge(f, p, c, i)
    BY <2>1, EdgesOfCall
  <2>3. PICK p \in c.types[i].params : e = Edge(f, p, c, i)
    BY <2>2
  <2>4. graph[e] = "TyConApp" => c.types[i].con
    <3>1. build_graph_call(f, c)[e] = IF c.types[i].con THEN "TyConApp" ELSE "Identity"
      BY <2>3, EdgesOfCall
    <3> QED
      BY <2>1, <3>1
  <2>5. e[1] = <<f, p>> /\ e[2] = <<c.callee, i>>
    BY <2>3 DEF Edge, Node
  <2>6. PICK s \in Level[k] : s[1] = f /\ s[2][p] >= d
    BY <1>5, <2>5 DEF Deep
  <2>7. IsInstance(s)
    BY <1>2, InstancesAre
  <2>8. PICK ds \in [1..functions[f].formals -> 0..Bound + 1] : s = <<f, ds>>
    BY <2>6, <2>7 DEF IsInstance
  <2> DEFINE made == Capped(types_of(c, ds))
  <2>9. /\ f \in FunctionDefs /\ c.callee \in FunctionDefs
        /\ c.types \in [1..functions[c.callee].formals ->
                          [con : BOOLEAN, params : SUBSET (1..functions[f].formals)]]
    BY <2>1, CallShape DEF IsCall
  <2>10. <<c.callee, made>> \in Called(s) /\ ds[p] >= d
    BY <2>1, <2>6, <2>8, <2>9, CalledIs
  <2>11. \A x \in 0..Bound + 1 :
           /\ ds[p] >= x => made[i] >= x
           /\ c.types[i].con /\ ds[p] + 1 >= x => made[i] >= x
    <3> HIDE DEF c
    <3> QED
      BY <2>1, <2>2, <2>3, <2>9, CalledIs DEF c
  <2>12. <<c.callee, made>> \in Level[k + 1]
    BY <1>3, <2>10
  <2>13. e[2] \in Nodes
    BY <2>2, <2>5, <2>9, NodesOf DEF Node
  <2>14. \A x : made[i] >= x => e[2] \in Deep(k + 1, x)
    <3> HIDE DEF made, c
    <3> QED
      BY <2>5, <2>12, <2>13 DEF Deep
  <2>15. ds[p] \in 0..Bound + 1
    BY <2>2, <2>3, <2>8, <2>9
  <2>16. d < Bound + 1 => d + 1 \in 0..Bound + 1 /\ ds[p] + 1 >= d + 1
    <3> DEFINE y == ds[p]
    <3>1. y \in 0..Bound + 1 /\ y >= d
      BY <2>10, <2>15
    <3> HIDE DEF y
    <3>2. d < Bound + 1 => d + 1 \in 0..Bound + 1 /\ y + 1 >= d + 1
      BY <1>1, <3>1
    <3> QED
      BY <3>2 DEF y
  <2> HIDE DEF c, made
  <2> QED
    BY <2>4, <2>10, <2>11, <2>14, <2>16
<1> QED
  BY <1>4, <1>5

\* As many calls as there are nodes take a node to wherever it leads, once a
\* constructor is applied on the way.
LEMMA DeepAround ==
  ASSUME IsFunctions(functions), NEW k \in Nat, k + Bound <= Levels,
         NEW d \in Nat, d < Bound + 1,
         NEW e \in Edges, graph[e] = "TyConApp", leads_to(Edges, e[2], e[1]),
         e[1] \in Deep(k, d)
  PROVE  e[1] \in Deep(k + Bound, d + 1)
<1> DEFINE U(j) == Deep(k + 1 + j, d + 1)
           C == {j \in Nat : j < Bound => e[1] \in U(j) \/ Cardinality(U(j)) >= j + 1}
<1>1. Bound \in Nat /\ Levels \in Nat /\ IsFiniteSet(Nodes)
      /\ d \in 0..Bound + 1 /\ d + 1 \in 0..Bound + 1
  BY InstancesAre, NodesAreFinite
<1>2. Bound > 0
  <2>1. e[1] \in Nodes
    BY DEF Deep
  <2>2. Cardinality(Nodes) # 0
    BY <1>1, <2>1, FS_EmptySet
  <2> QED
    BY <1>1, <2>2 DEF Bound
<1>3. \A j \in Nat : /\ U(j) \in SUBSET Nodes /\ IsFiniteSet(U(j)) /\ Cardinality(U(j)) \in Nat
  <2> SUFFICES ASSUME NEW j \in Nat
               PROVE  U(j) \in SUBSET Nodes /\ IsFiniteSet(U(j)) /\ Cardinality(U(j)) \in Nat
    OBVIOUS
  <2>1. U(j) \in SUBSET Nodes
    BY DEF Deep
  <2> HIDE DEF U
  <2> QED
    BY <1>1, <2>1, FS_Subset, FS_CardinalityType
<1>4. e[2] \in U(0)
  <2>1. k < Levels
    BY <1>1, <1>2
  <2>2. e[2] \in Deep(k + 1, d + 1)
    BY <1>1, <2>1, DeepAlong
  <2>3. k + 1 + 0 = k + 1
    OBVIOUS
  <2> QED
    BY <2>2, <2>3
<1>5. ASSUME NEW j \in Nat, j + 1 < Bound
      PROVE  /\ U(j) \subseteq U(j + 1)
             /\ \A x \in Edges : x[1] \in U(j) => x[2] \in U(j + 1)
  <2>1. k + 1 + j \in Nat /\ k + 1 + j < Levels /\ (k + 1 + j) + 1 = k + 1 + (j + 1)
    BY <1>1, <1>5
  <2> QED
    BY <1>1, <2>1, DeepAlong
<1>6. \A j \in Nat : j < Bound => e[2] \in U(j)
  <2> DEFINE D == {j \in Nat : j < Bound => e[2] \in U(j)}
  <2>1. 0 \in D
    BY <1>4
  <2>2. ASSUME NEW j \in Nat, j \in D PROVE j + 1 \in D
    <3> SUFFICES ASSUME j + 1 < Bound PROVE e[2] \in U(j + 1)
      OBVIOUS
    <3>1. j < Bound
      BY <1>1
    <3> QED
      BY <1>5, <2>2, <3>1
  <2>3. Nat \subseteq D
    <3> HIDE DEF D
    <3> QED
      BY <2>1, <2>2, NatSetInduction
  <2> QED
    BY <2>3
<1> HIDE DEF U
<1>7. 0 \in C
  <2>1. Cardinality(U(0)) # 0
    BY <1>3, <1>4, FS_EmptySet
  <2> QED
    BY <1>3, <2>1
<1>8. ASSUME NEW j \in Nat, j \in C PROVE j + 1 \in C
  <2> SUFFICES ASSUME j + 1 < Bound, e[1] \notin U(j + 1)
               PROVE  Cardinality(U(j + 1)) >= (j + 1) + 1
    OBVIOUS
  <2>1. j < Bound /\ U(j) \subseteq U(j + 1)
    BY <1>1, <1>5
  <2>2. e[1] \notin U(j)
    BY <2>1
  <2>3. Cardinality(U(j)) >= j + 1
    BY <1>8, <2>1, <2>2
  <2>4. U(j) # U(j + 1)
    <3> SUFFICES ASSUME U(j) = U(j + 1) PROVE FALSE
      OBVIOUS
    <3>1. \A x \in Edges : x[1] \in U(j) => x[2] \in U(j)
      BY <1>5
    <3>2. e[2] \in U(j) /\ U(j) \in SUBSET Nodes
      BY <1>3, <1>6, <2>1
    <3>3. e[1] \in U(j)
      BY <3>1, <3>2 DEF leads_to
    <3> QED
      BY <2>2, <3>3
  <2>5. /\ Cardinality(U(j)) <= Cardinality(U(j + 1))
        /\ Cardinality(U(j + 1)) = Cardinality(U(j)) => U(j + 1) = U(j)
    <3>1. IsFiniteSet(U(j + 1)) /\ U(j) \in SUBSET U(j + 1)
      BY <1>3, <2>1
    <3> QED
      BY <3>1, FS_Subset
  <2>6. Cardinality(U(j)) \in Nat /\ Cardinality(U(j + 1)) \in Nat
    BY <1>3
  <2> QED
    BY <2>3, <2>4, <2>5, <2>6
<1>9. Bound - 1 \in C
  <2>1. Nat \subseteq C
    <3> HIDE DEF C
    <3> QED
      BY <1>7, <1>8, NatSetInduction
  <2> QED
    BY <1>1, <1>2, <2>1
<1>10. e[1] \in U(Bound - 1)
  <2> DEFINE j == Bound - 1
  <2>1. j \in Nat /\ j < Bound /\ j + 1 = Bound
    BY <1>1, <1>2
  <2>2. CASE Cardinality(U(j)) >= j + 1
    <3>1. U(j) \in SUBSET Nodes /\ Cardinality(U(j)) \in Nat
      BY <1>3, <2>1
    <3>2. /\ Cardinality(U(j)) <= Cardinality(Nodes)
          /\ Cardinality(Nodes) = Cardinality(U(j)) => Nodes = U(j)
      BY <1>1, <3>1, FS_Subset
    <3>3. Cardinality(Nodes) = Cardinality(U(j))
      BY <1>1, <2>1, <2>2, <3>1, <3>2 DEF Bound
    <3>4. e[1] \in Nodes
      BY DEF Deep
    <3> QED
      BY <3>2, <3>3, <3>4
  <2> QED
    BY <1>9, <2>1, <2>2
<1>11. k + 1 + (Bound - 1) = k + Bound
  BY <1>1
<1> QED
  BY <1>10, <1>11 DEF U

LEMMA RejectedCallsGrow ==
  ASSUME IsFunctions(functions), ~CallsAccepted
  PROVE  DeepInstances # {}
<1>1. PICK e \in Edges : graph[e] = "TyConApp" /\ leads_to(Edges, e[2], e[1])
  BY DEF CallsAccepted, find_non_trivial_components, Edges
<1>2. Bound \in Nat /\ Levels \in Nat /\ Levels = Bound * (Bound + 1)
  BY InstancesAre DEF Levels
<1>3. e[1] \in Nodes
  <2>1. PICK f, k : IsCall(f, k) /\ e \in DOMAIN build_graph_call(f, Calls(f, k))
    BY EdgesOfCalls
  <2>2. PICK i \in DOMAIN Calls(f, k).types : \E p \in Calls(f, k).types[i].params :
          e = Edge(f, p, Calls(f, k), i)
    BY <2>1, EdgesOfCall
  <2>3. PICK p \in Calls(f, k).types[i].params : e = Edge(f, p, Calls(f, k), i)
    BY <2>2
  <2>4. f \in FunctionDefs /\ p \in 1..functions[f].formals
    BY <2>1, CallShape DEF IsCall
  <2> QED
    BY <2>3, <2>4, NodesOf DEF Edge
<1> DEFINE C == {d \in Nat : d <= Bound + 1 => e[1] \in Deep(Bound * d, d)}
<1>4. 0 \in C
  <2>1. PICK f \in FunctionDefs : \E i \in 1..functions[f].formals : e[1] = <<f, i>>
    BY <1>3, NodesOf DEF Node
  <2>2. PICK i \in 1..functions[f].formals : e[1] = <<f, i>>
    BY <2>1
  <2> DEFINE s == <<f, [j \in 1..functions[f].formals |-> 0]>>
  <2>3. s \in Level[0]
    BY LevelValues DEF FirstInstances
  <2>4. s[1] = e[1][1] /\ s[2][e[1][2]] >= 0
    BY <2>2
  <2>5. e[1] \in Deep(0, 0)
    BY <1>3, <2>3, <2>4 DEF Deep
  <2>6. Bound * 0 = 0
    BY <1>2
  <2> QED
    BY <2>5, <2>6
<1>5. ASSUME NEW d \in Nat, d \in C PROVE d + 1 \in C
  <2> SUFFICES ASSUME d + 1 <= Bound + 1 PROVE e[1] \in Deep(Bound * (d + 1), d + 1)
    OBVIOUS
  <2> DEFINE k == Bound * d
  <2>1. k \in Nat /\ Bound * (d + 1) = k + Bound /\ k + Bound <= Levels
    <3> DEFINE b == Bound
    <3> HIDE DEF b
    <3>1. \A x, y \in Nat : x * y \in Nat /\ x * (y + 1) = x * y + x
      OBVIOUS
    <3>2. \A x, y, z \in Nat : y <= z => x * y <= x * z
      OBVIOUS
    <3>3. b \in Nat /\ b + 1 \in Nat /\ d + 1 \in Nat /\ d + 1 <= b + 1 /\ Levels = b * (b + 1)
      BY <1>2 DEF b
    <3>4. b * (d + 1) <= b * (b + 1)
      BY <3>2, <3>3
    <3>5. b * d \in Nat /\ b * (d + 1) = b * d + b
      BY <3>1, <3>3
    <3>6. b * d + b <= Levels
      BY <3>3, <3>4, <3>5
    <3> QED
      BY <3>5, <3>6 DEF b
  <2>2. d < Bound + 1 /\ e[1] \in Deep(k, d)
    BY <1>2, <1>5
  <2>3. e[1] \in Deep(k + Bound, d + 1)
    <3> HIDE DEF k
    <3> QED
      BY <1>1, <2>1, <2>2, DeepAround
  <2> QED
    BY <2>1, <2>3
<1>6. e[1] \in Deep(Bound * (Bound + 1), Bound + 1)
  <2>1. Nat \subseteq C
    <3> HIDE DEF C
    <3> QED
      BY <1>4, <1>5, NatSetInduction
  <2>2. Bound + 1 \in Nat /\ Bound + 1 <= Bound + 1
    BY <1>2
  <2> QED
    BY <2>1, <2>2
<1>7. PICK s \in Level[Levels] : s[1] = e[1][1] /\ s[2][e[1][2]] >= Bound + 1
  BY <1>2, <1>6 DEF Deep
<1>8. PICK f \in FunctionDefs : \E ds \in [1..functions[f].formals -> 0..Bound + 1] : s = <<f, ds>>
  <2>1. s \in Instances
    BY <1>2, LevelValues
  <2> QED
    BY <2>1, InstancesAre DEF IsInstance
<1>9. PICK i \in DOMAIN s[2] : s[2][i] >= Bound + 1
  <2>1. PICK g \in FunctionDefs : \E i \in 1..functions[g].formals : e[1] = <<g, i>>
    BY <1>3, NodesOf DEF Node
  <2>2. PICK i \in 1..functions[g].formals : e[1] = <<g, i>>
    BY <2>1
  <2>3. g = f /\ DOMAIN s[2] = 1..functions[f].formals
    BY <1>7, <1>8, <2>2
  <2> QED
    BY <1>7, <2>2, <2>3
<1>10. s[2][i] > Bound
  <2> DEFINE x == s[2][i]
  <2>1. x \in 0..Bound + 1 /\ x >= Bound + 1
    BY <1>8, <1>9
  <2> HIDE DEF x
  <2>2. x > Bound
    BY <1>2, <2>1
  <2> QED
    BY <2>2 DEF x
<1>11. s \in DeepInstances
  BY <1>2, <1>7, <1>9, <1>10, DeepAreOnLevels
<1> QED
  BY <1>11

\* A module rejected for its calls makes types that grow: some chain of its calls
\* nests more constructors than there are type parameters.  (instantiation_loops.py)
THEOREM RejectedModulesGrow == Spec => []RejectedGrow
<1> DEFINE I == IsFunctions(functions)
<1>1. Init => I
  BY SubmittedAssumption DEF Init
<1>2. I /\ [Next]_vars => I'
  <2>1. Next => functions' = functions
    BY DEF Next, verify, resolve, run_call, call
  <2> QED
    BY <2>1 DEF vars
<1>3. I => RejectedGrow
  BY RejectedCallsGrow DEF RejectedGrow
<1> QED
  BY <1>1, <1>2, <1>3, PTL DEF Spec

----------------------------------------------------------------------------
(* Types and their parts *)

LEMMA TokenShape ==
  ASSUME NEW t \in Tokens
  PROVE  /\ t.tag \in {"prim", "param", "vector", "struct"}
         /\ Parts(t) \in SUBSET Tokens
         /\ t.tag \in {"prim", "param"} => Parts(t) = {}
         /\ t.tag = "param" => t.arg \in Nat \ {0}
         /\ t.tag = "vector" => t.arg \in Tokens /\ Parts(t) = {t.arg}
         /\ t.tag = "struct" =>
              /\ t.def \in Structs /\ t.actuals \in Seq(Tokens)
              /\ Parts(t) = Range(t.actuals)
              /\ \A i \in DOMAIN t.actuals : t.actuals[i] \in Parts(t)
<1>1. \/ t.tag = "prim"
      \/ t.tag = "param" /\ t.arg \in Nat \ {0}
      \/ t.tag = "vector" /\ t.arg \in Tokens
      \/ t.tag = "struct" /\ t.def \in Structs /\ t.actuals \in Seq(Tokens)
  BY TokensAssumption
<1>2. CASE t.tag \in {"prim", "param"}
  BY <1>1, <1>2 DEF Parts
<1>3. CASE t.tag = "vector"
  BY <1>1, <1>3 DEF Parts
<1>4. CASE t.tag = "struct"
  <2>1. t.def \in Structs /\ t.actuals \in Seq(Tokens)
    BY <1>1, <1>4
  <2>2. Parts(t) = Range(t.actuals)
    BY <1>4 DEF Parts
  <2>3. \A i \in DOMAIN t.actuals : t.actuals[i] \in Range(t.actuals)
    BY DEF Range
  <2>4. \A x \in Range(t.actuals) : x \in Tokens
    BY <2>1, RangeOfSeq
  <2> QED
    BY <1>4, <2>1, <2>2, <2>3, <2>4
<1> QED
  BY <1>1, <1>2, <1>3, <1>4

\* What holds of a type as soon as it holds of its parts holds of all types.
LEMMA TokenInduction ==
  ASSUME NEW C, \A t \in Tokens : Parts(t) \subseteq C => t \in C
  PROVE  Tokens \subseteq C
<1> DEFINE parts == [t \in Tokens |-> Parts(t)]
           D == {T \in SUBSET Tokens : T \subseteq C}
<1>1. IsFiniteSet(Tokens)
  BY TokensAssumption
<1>2. ASSUME NEW some \in (SUBSET Tokens) \ {{}}
      PROVE  \E x \in some : parts[x] \cap some = {}
  <2>1. \E x \in some : Parts(x) \cap some = {}
    BY TokensAssumption
  <2> QED
    BY <2>1
<1>3. ASSUME NEW T \in SUBSET Tokens, NEW x \in Tokens \ T,
             T \in D, parts[x] \cap Tokens \subseteq T
      PROVE  T \cup {x} \in D
  <2>1. Parts(x) \subseteq T
    BY <1>3, TokenShape
  <2> QED
    BY <1>3, <2>1
<1>4. Tokens \in D
  <2>1. {} \in D
    OBVIOUS
  <2>2. MadeOfParts(Tokens, parts)
    <3> HIDE DEF parts
    <3> QED
      BY <1>2 DEF MadeOfParts
  <2>3. GrowsByParts(Tokens, parts, D)
    <3> HIDE DEF parts, D
    <3> QED
      BY <1>3 DEF GrowsByParts
  <2> HIDE DEF parts, D
  <2> QED
    BY <1>1, <2>1, <2>2, <2>3, PartsInduction
<1> QED
  BY <1>4

Closed(T) == \A t \in T : Parts(t) \subseteq T

\* The types found by adding, to types with all their parts, one of which they have all parts.
LEMMA ClosedInduction ==
  ASSUME NEW C, {} \in C,
         \A T \in SUBSET Tokens : \A x \in Tokens \ T :
           T \in C /\ Closed(T) /\ Parts(x) \subseteq T => T \cup {x} \in C
  PROVE  Tokens \in C
<1> DEFINE parts == [t \in Tokens |-> Parts(t)]
           D == {T \in SUBSET Tokens : T \in C /\ Closed(T)}
<1>1. IsFiniteSet(Tokens)
  BY TokensAssumption
<1>2. ASSUME NEW some \in (SUBSET Tokens) \ {{}}
      PROVE  \E x \in some : parts[x] \cap some = {}
  <2>1. \E x \in some : Parts(x) \cap some = {}
    BY TokensAssumption
  <2> QED
    BY <2>1
<1>3. ASSUME NEW T \in SUBSET Tokens, NEW x \in Tokens \ T,
             T \in D, parts[x] \cap Tokens \subseteq T
      PROVE  T \cup {x} \in D
  <2>1. Parts(x) \subseteq T
    BY <1>3, TokenShape
  <2>2. Closed(T \cup {x})
    BY <1>3, <2>1 DEF Closed
  <2> QED
    BY <1>3, <2>1, <2>2
<1>4. Tokens \in D
  <2>1. {} \in D
    BY DEF Closed
  <2>2. MadeOfParts(Tokens, parts)
    <3> HIDE DEF parts
    <3> QED
      BY <1>2 DEF MadeOfParts
  <2>3. GrowsByParts(Tokens, parts, D)
    <3> HIDE DEF parts, D
    <3> QED
      BY <1>3 DEF GrowsByParts
  <2> HIDE DEF parts, D
  <2> QED
    BY <1>1, <2>1, <2>2, <2>3, PartsInduction
<1> QED
  BY <1>4

MentionsOf(n, t) ==
  IF t.tag = "vector" THEN n[t.arg]
  ELSE IF t.tag = "struct"
    THEN Append(FlattenSeq([i \in DOMAIN t.actuals |-> n[t.actuals[i]]]), t.def)
  ELSE <<>>

LEMMA MentionsValue ==
  mentions = [t \in Tokens |-> MentionsOf(mentions, t)]
<1> DEFINE C == {T \in SUBSET Tokens : \E f : f = [t \in T |-> MentionsOf(f, t)]}
<1>1. {} \in C
  <2> DEFINE f == [t \in {} |-> <<>>]
  <2>1. f = [t \in {} |-> MentionsOf(f, t)]
    OBVIOUS
  <2> QED
    BY <2>1
<1>2. ASSUME NEW T \in SUBSET Tokens, NEW x \in Tokens \ T, T \in C, Closed(T), Parts(x) \subseteq T
      PROVE  T \cup {x} \in C
  <2>1. PICK f : f = [t \in T |-> MentionsOf(f, t)]
    BY <1>2
  <2> DEFINE g == [t \in T \cup {x} |-> MentionsOf(f, t)]
  <2>2. \A t \in T : g[t] = f[t]
    BY <2>1
  <2>3. ASSUME NEW t \in T \cup {x} PROVE MentionsOf(g, t) = MentionsOf(f, t)
    <3>1. t \in Tokens /\ \A p \in Parts(t) : g[p] = f[p]
      BY <1>2, <2>2 DEF Closed
    <3> HIDE DEF g
    <3>2. t.tag = "vector" => g[t.arg] = f[t.arg]
      BY <3>1, TokenShape
    <3>3. t.tag = "struct" => [i \in DOMAIN t.actuals |-> g[t.actuals[i]]] = [i \in DOMAIN t.actuals |-> f[t.actuals[i]]]
      BY <3>1, TokenShape
    <3> QED
      BY <3>1, <3>2, <3>3, TokenShape DEF MentionsOf
  <2>4. g = [t \in T \cup {x} |-> MentionsOf(g, t)]
    <3>1. g = [t \in T \cup {x} |-> MentionsOf(f, t)]
      OBVIOUS
    <3> HIDE DEF g
    <3> QED
      BY <2>3, <3>1
  <2> HIDE DEF g
  <2> QED
    BY <2>4
<1>3. Tokens \in C
  <2> HIDE DEF C
  <2> QED
    BY <1>1, <1>2, ClosedInduction
<1>4. mentions = CHOOSE n : n = [t \in Tokens |-> MentionsOf(n, t)]
  BY DEF mentions, MentionsOf
<1> QED
  BY <1>3, <1>4

KindOf(k, m, formals, t) ==
  IF t.tag = "param" THEN formals[t.arg]
  ELSE IF t.tag = "struct" /\ m[t.def].resource THEN "resource"
  ELSE join({k[p] : p \in Parts(t)})

LEMMA KindValue ==
  ASSUME NEW m, NEW formals
  PROVE  kind(m, formals) = [t \in Tokens |-> KindOf(kind(m, formals), m, formals, t)]
<1> DEFINE C == {T \in SUBSET Tokens : \E f : f = [t \in T |-> KindOf(f, m, formals, t)]}
<1>1. {} \in C
  <2> DEFINE f == [t \in {} |-> <<>>]
  <2>1. f = [t \in {} |-> KindOf(f, m, formals, t)]
    OBVIOUS
  <2> QED
    BY <2>1
<1>2. ASSUME NEW T \in SUBSET Tokens, NEW x \in Tokens \ T, T \in C, Closed(T), Parts(x) \subseteq T
      PROVE  T \cup {x} \in C
  <2>1. PICK f : f = [t \in T |-> KindOf(f, m, formals, t)]
    BY <1>2
  <2> DEFINE g == [t \in T \cup {x} |-> KindOf(f, m, formals, t)]
  <2>2. \A t \in T : g[t] = f[t]
    BY <2>1
  <2>3. ASSUME NEW t \in T \cup {x} PROVE KindOf(g, m, formals, t) = KindOf(f, m, formals, t)
    <3>1. t \in Tokens /\ \A p \in Parts(t) : g[p] = f[p]
      BY <1>2, <2>2 DEF Closed
    <3> HIDE DEF g
    <3>2. {g[p] : p \in Parts(t)} = {f[p] : p \in Parts(t)}
      BY <3>1
    <3> QED
      BY <3>1, <3>2 DEF KindOf
  <2>4. g = [t \in T \cup {x} |-> KindOf(g, m, formals, t)]
    <3>1. g = [t \in T \cup {x} |-> KindOf(f, m, formals, t)]
      OBVIOUS
    <3> HIDE DEF g
    <3> QED
      BY <2>3, <3>1
  <2> HIDE DEF g
  <2> QED
    BY <2>4
<1>3. Tokens \in C
  <2> HIDE DEF C
  <2> QED
    BY <1>1, <1>2, ClosedInduction
<1>4. kind(m, formals) = CHOOSE n : n = [t \in Tokens |-> KindOf(n, m, formals, t)]
  BY DEF kind, KindOf
<1> QED
  BY <1>3, <1>4

SignatureOf(ok, m, formals, t) ==
  /\ \A p \in Parts(t) : ok[p]
  /\ t.tag = "struct" =>
       /\ Len(t.actuals) = Len(m[t.def].formals)
       /\ \A i \in DOMAIN t.actuals :
            is_sub_kind_of(kind(m, formals)[t.actuals[i]], m[t.def].formals[i])

LEMMA SignatureValue ==
  ASSUME NEW m, NEW formals
  PROVE  check_signature_no_refs(m, formals)
           = [t \in Tokens |-> SignatureOf(check_signature_no_refs(m, formals), m, formals, t)]
<1> DEFINE C == {T \in SUBSET Tokens : \E f : f = [t \in T |-> SignatureOf(f, m, formals, t)]}
<1>1. {} \in C
  <2> DEFINE f == [t \in {} |-> <<>>]
  <2>1. f = [t \in {} |-> SignatureOf(f, m, formals, t)]
    OBVIOUS
  <2> QED
    BY <2>1
<1>2. ASSUME NEW T \in SUBSET Tokens, NEW x \in Tokens \ T, T \in C, Closed(T), Parts(x) \subseteq T
      PROVE  T \cup {x} \in C
  <2>1. PICK f : f = [t \in T |-> SignatureOf(f, m, formals, t)]
    BY <1>2
  <2> DEFINE g == [t \in T \cup {x} |-> SignatureOf(f, m, formals, t)]
  <2>2. \A t \in T : g[t] = f[t]
    BY <2>1
  <2>3. ASSUME NEW t \in T \cup {x} PROVE SignatureOf(g, m, formals, t) = SignatureOf(f, m, formals, t)
    <3>1. t \in Tokens /\ \A p \in Parts(t) : g[p] = f[p]
      BY <1>2, <2>2 DEF Closed
    <3> HIDE DEF g
    <3> QED
      BY <3>1 DEF SignatureOf
  <2>4. g = [t \in T \cup {x} |-> SignatureOf(g, m, formals, t)]
    <3>1. g = [t \in T \cup {x} |-> SignatureOf(f, m, formals, t)]
      OBVIOUS
    <3> HIDE DEF g
    <3> QED
      BY <2>3, <3>1
  <2> HIDE DEF g
  <2> QED
    BY <2>4
<1>3. Tokens \in C
  <2> HIDE DEF C
  <2> QED
    BY <1>1, <1>2, ClosedInduction
<1>4. check_signature_no_refs(m, formals) = CHOOSE n : n = [t \in Tokens |-> SignatureOf(n, m, formals, t)]
  BY DEF check_signature_no_refs, SignatureOf
<1> QED
  BY <1>3, <1>4

ContainsOf(c, m, t) ==
  (t.tag = "struct" /\ m[t.def].resource) \/ \E p \in Parts(t) : c[p]

LEMMA ContainsValue ==
  ASSUME NEW m
  PROVE  contains_nominal_resource(m)
           = [t \in Tokens |-> ContainsOf(contains_nominal_resource(m), m, t)]
<1> DEFINE C == {T \in SUBSET Tokens : \E f : f = [t \in T |-> ContainsOf(f, m, t)]}
<1>1. {} \in C
  <2> DEFINE f == [t \in {} |-> <<>>]
  <2>1. f = [t \in {} |-> ContainsOf(f, m, t)]
    OBVIOUS
  <2> QED
    BY <2>1
<1>2. ASSUME NEW T \in SUBSET Tokens, NEW x \in Tokens \ T, T \in C, Closed(T), Parts(x) \subseteq T
      PROVE  T \cup {x} \in C
  <2>1. PICK f : f = [t \in T |-> ContainsOf(f, m, t)]
    BY <1>2
  <2> DEFINE g == [t \in T \cup {x} |-> ContainsOf(f, m, t)]
  <2>2. \A t \in T : g[t] = f[t]
    BY <2>1
  <2>3. ASSUME NEW t \in T \cup {x} PROVE ContainsOf(g, m, t) = ContainsOf(f, m, t)
    <3>1. t \in Tokens /\ \A p \in Parts(t) : g[p] = f[p]
      BY <1>2, <2>2 DEF Closed
    <3> HIDE DEF g
    <3> QED
      BY <3>1 DEF ContainsOf
  <2>4. g = [t \in T \cup {x} |-> ContainsOf(g, m, t)]
    <3>1. g = [t \in T \cup {x} |-> ContainsOf(f, m, t)]
      OBVIOUS
    <3> HIDE DEF g
    <3> QED
      BY <2>3, <3>1
  <2> HIDE DEF g
  <2> QED
    BY <2>4
<1>3. Tokens \in C
  <2> HIDE DEF C
  <2> QED
    BY <1>1, <1>2, ClosedInduction
<1>4. contains_nominal_resource(m) = CHOOSE n : n = [t \in Tokens |-> ContainsOf(n, m, t)]
  BY DEF contains_nominal_resource, ContainsOf
<1> QED
  BY <1>3, <1>4

LayoutOf(r, context, t) ==
  IF t.tag = "param" THEN context[t.arg]
  ELSE IF t.tag = "vector" THEN Layout(r[t.arg].resources, {})
  ELSE IF t.tag = "struct"
    THEN subst_struct_def(cache[t.def], [i \in DOMAIN t.actuals |-> r[t.actuals[i]]])
  ELSE Layout({}, {})

LEMMA LayoutValue ==
  ASSUME NEW context
  PROVE  resolve_signature_token(context)
           = [t \in Tokens |-> LayoutOf(resolve_signature_token(context), context, t)]
<1> DEFINE C == {T \in SUBSET Tokens : \E f : f = [t \in T |-> LayoutOf(f, context, t)]}
<1>1. {} \in C
  <2> DEFINE f == [t \in {} |-> <<>>]
  <2>1. f = [t \in {} |-> LayoutOf(f, context, t)]
    OBVIOUS
  <2> QED
    BY <2>1
<1>2. ASSUME NEW T \in SUBSET Tokens, NEW x \in Tokens \ T, T \in C, Closed(T), Parts(x) \subseteq T
      PROVE  T \cup {x} \in C
  <2>1. PICK f : f = [t \in T |-> LayoutOf(f, context, t)]
    BY <1>2
  <2> DEFINE g == [t \in T \cup {x} |-> LayoutOf(f, context, t)]
  <2>2. \A t \in T : g[t] = f[t]
    BY <2>1
  <2>3. ASSUME NEW t \in T \cup {x} PROVE LayoutOf(g, context, t) = LayoutOf(f, context, t)
    <3>1. t \in Tokens /\ \A p \in Parts(t) : g[p] = f[p]
      BY <1>2, <2>2 DEF Closed
    <3> HIDE DEF g
    <3>2. t.tag = "vector" => g[t.arg] = f[t.arg]
      BY <3>1, TokenShape
    <3>3. t.tag = "struct" => [i \in DOMAIN t.actuals |-> g[t.actuals[i]]] = [i \in DOMAIN t.actuals |-> f[t.actuals[i]]]
      BY <3>1, TokenShape
    <3> QED
      BY <3>1, <3>2, <3>3, TokenShape DEF LayoutOf
  <2>4. g = [t \in T \cup {x} |-> LayoutOf(g, context, t)]
    <3>1. g = [t \in T \cup {x} |-> LayoutOf(f, context, t)]
      OBVIOUS
    <3> HIDE DEF g
    <3> QED
      BY <2>3, <3>1
  <2> HIDE DEF g
  <2> QED
    BY <2>4
<1>3. Tokens \in C
  <2> HIDE DEF C
  <2> QED
    BY <1>1, <1>2, ClosedInduction
<1>4. resolve_signature_token(context) = CHOOSE n : n = [t \in Tokens |-> LayoutOf(n, context, t)]
  BY DEF resolve_signature_token, LayoutOf
<1> QED
  BY <1>3, <1>4

KnownOf(known, t) ==
  /\ t.tag # "param"
  /\ t.tag = "struct" => t.def \in DOMAIN cache
  /\ \A p \in Parts(t) : known[p]

LEMMA KnownValue ==
  \E known : /\ known = [t \in Tokens |-> KnownOf(known, t)]
            /\ Known = {t \in Tokens : known[t] /\ check_signature_no_refs(structs, <<>>)[t]}
<1> DEFINE C == {T \in SUBSET Tokens : \E f : f = [t \in T |-> KnownOf(f, t)]}
<1>1. {} \in C
  <2> DEFINE f == [t \in {} |-> <<>>]
  <2>1. f = [t \in {} |-> KnownOf(f, t)]
    OBVIOUS
  <2> QED
    BY <2>1
<1>2. ASSUME NEW T \in SUBSET Tokens, NEW x \in Tokens \ T, T \in C, Closed(T), Parts(x) \subseteq T
      PROVE  T \cup {x} \in C
  <2>1. PICK f : f = [t \in T |-> KnownOf(f, t)]
    BY <1>2
  <2> DEFINE g == [t \in T \cup {x} |-> KnownOf(f, t)]
  <2>2. \A t \in T : g[t] = f[t]
    BY <2>1
  <2>3. ASSUME NEW t \in T \cup {x} PROVE KnownOf(g, t) = KnownOf(f, t)
    <3>1. t \in Tokens /\ \A p \in Parts(t) : g[p] = f[p]
      BY <1>2, <2>2 DEF Closed
    <3> HIDE DEF g
    <3> QED
      BY <3>1 DEF KnownOf
  <2>4. g = [t \in T \cup {x} |-> KnownOf(g, t)]
    <3>1. g = [t \in T \cup {x} |-> KnownOf(f, t)]
      OBVIOUS
    <3> HIDE DEF g
    <3> QED
      BY <2>3, <3>1
  <2> HIDE DEF g
  <2> QED
    BY <2>4
<1>3. Tokens \in C
  <2> HIDE DEF C
  <2> QED
    BY <1>1, <1>2, ClosedInduction
<1> DEFINE known == CHOOSE n : n = [t \in Tokens |-> KnownOf(n, t)]
<1>4. Known = {t \in Tokens : known[t] /\ check_signature_no_refs(structs, <<>>)[t]}
  BY DEF Known, KnownOf
<1>5. known = [t \in Tokens |-> KnownOf(known, t)]
  BY <1>3
<1> HIDE DEF known
<1> QED
  BY <1>4, <1>5

----------------------------------------------------------------------------
(* The structs that are being resolved *)

\* The structs that the fields of s name, wherever in their types.
Named(m, s) == UNION {Range(mentions[t]) : t \in Range(m[s].fields)}

LEMMA MentionsAre ==
  ASSUME NEW t \in Tokens
  PROVE  /\ mentions[t] \in Seq(Structs)
         /\ \A p \in Parts(t) : Range(mentions[p]) \subseteq Range(mentions[t])
         /\ t.tag = "struct" => t.def \in Range(mentions[t])
<1> DEFINE C == {x \in Tokens : mentions[x] \in Seq(Structs)}
           seqs(x) == [i \in DOMAIN x.actuals |-> mentions[x.actuals[i]]]
<1>1. ASSUME NEW x \in Tokens, x.tag = "struct", Parts(x) \subseteq C
      PROVE  /\ mentions[x] \in Seq(Structs)
             /\ \A p \in Parts(x) : Range(mentions[p]) \subseteq Range(mentions[x])
             /\ x.def \in Range(mentions[x])
  <2> DEFINE n == Len(x.actuals)
  <2>1. n \in Nat /\ DOMAIN x.actuals = 1..n /\ \A i \in 1..n : x.actuals[i] \in Parts(x)
    BY <1>1, TokenShape, LenProperties
  <2>2. \A i \in 1..n : mentions[x.actuals[i]] \in Seq(Structs)
    BY <1>1, <2>1
  <2>3. seqs(x) \in Seq(Seq(Structs)) /\ DOMAIN seqs(x) = 1..n
    <3> HIDE DEF n
    <3>1. seqs(x) \in [1..n -> Seq(Structs)]
      BY <2>1, <2>2
    <3> HIDE DEF seqs
    <3> QED
      BY <2>1, <3>1, SeqDef
  <2>4. mentions[x] = Append(FlattenSeq(seqs(x)), x.def)
    BY <1>1, MentionsValue DEF MentionsOf
  <2>5. \A i \in 1..n : seqs(x)[i] = mentions[x.actuals[i]]
    BY <2>1
  <2> HIDE DEF seqs, n
  <2>6. /\ FlattenSeq(seqs(x)) \in Seq(Structs)
        /\ ToSet(FlattenSeq(seqs(x))) = UNION {ToSet(seqs(x)[i]) : i \in 1..n}
    BY <2>3, FlattenIs
  <2>7. x.def \in Structs
    BY <1>1, TokenShape
  <2>8. /\ mentions[x] \in Seq(Structs)
        /\ ToSet(mentions[x]) = ToSet(FlattenSeq(seqs(x))) \cup {x.def}
    BY <2>4, <2>6, <2>7, Pushed DEF Lists
  <2>9. ASSUME NEW p \in Parts(x) PROVE Range(mentions[p]) \subseteq ToSet(mentions[x])
    <3>1. PICK i \in 1..n : p = x.actuals[i]
      <4>1. Parts(x) = Range(x.actuals)
        BY <1>1, TokenShape
      <4> QED
        BY <2>1, <4>1 DEF Range
    <3>2. Range(mentions[p]) = ToSet(seqs(x)[i])
      BY <2>5, <3>1 DEF Range, ToSet
    <3> QED
      BY <2>6, <2>8, <3>2
  <2>10. ToSet(mentions[x]) = Range(mentions[x])
    BY DEF Range, ToSet
  <2> QED
    BY <2>8, <2>9, <2>10
<1>2. ASSUME NEW x \in Tokens, x.tag # "struct", Parts(x) \subseteq C
      PROVE  /\ mentions[x] \in Seq(Structs)
             /\ \A p \in Parts(x) : Range(mentions[p]) \subseteq Range(mentions[x])
  <2>1. mentions[x] = MentionsOf(mentions, x)
    BY MentionsValue
  <2>2. CASE x.tag = "vector"
    <3>1. mentions[x] = mentions[x.arg] /\ Parts(x) = {x.arg}
      BY <2>1, <2>2, TokenShape DEF MentionsOf
    <3> QED
      BY <1>2, <3>1
  <2>3. CASE x.tag # "vector"
    <3>1. mentions[x] = <<>> /\ Parts(x) = {}
      BY <1>2, <2>1, <2>3, TokenShape DEF MentionsOf
    <3> QED
      BY <3>1, EmptySeq
  <2> QED
    BY <2>2, <2>3
<1>3. Tokens \subseteq C
  <2>1. \A x \in Tokens : Parts(x) \subseteq C => x \in C
    BY <1>1, <1>2
  <2> HIDE DEF C
  <2> QED
    BY <2>1, TokenInduction
<1>4. Parts(t) \subseteq C /\ t \in C
  BY <1>3, TokenShape
<1> QED
  BY <1>1, <1>2, <1>4

Frames == [def : Structs, todo : Seq(Structs)]

LEMMA FrameIs ==
  ASSUME IsStructs(structs), NEW s \in Structs
  PROVE  Frame(s) \in Frames /\ Frame(s).def = s /\ Range(Frame(s).todo) = Named(structs, s)
<1> DEFINE fields == structs[s].fields
           n == Len(fields)
           seqs == [i \in DOMAIN fields |-> mentions[fields[i]]]
<1>1. fields \in Seq(Tokens)
  BY DEF IsStructs
<1>2. n \in Nat /\ DOMAIN fields = 1..n /\ \A i \in 1..n : fields[i] \in Tokens
  <2> HIDE DEF fields
  <2> QED
    BY <1>1, LenProperties, ElementOfSeq
<1>3. Frame(s) = [def |-> s, todo |-> FlattenSeq(seqs)]
  BY DEF Frame
<1> HIDE DEF fields, n
<1>4. \A i \in 1..n : mentions[fields[i]] \in Seq(Structs) /\ seqs[i] = mentions[fields[i]]
  BY <1>2, MentionsAre
<1>5. seqs \in Seq(Seq(Structs)) /\ DOMAIN seqs = 1..n
  <2>1. seqs \in [1..n -> Seq(Structs)]
    BY <1>2, <1>4
  <2> HIDE DEF seqs
  <2> QED
    BY <1>2, <2>1, SeqDef
<1> HIDE DEF seqs
<1>6. /\ FlattenSeq(seqs) \in Seq(Structs)
      /\ ToSet(FlattenSeq(seqs)) = UNION {ToSet(seqs[i]) : i \in 1..n}
  BY <1>5, FlattenIs
<1>7. UNION {ToSet(seqs[i]) : i \in 1..n} = Named(structs, s)
  <2>1. \A i \in 1..n : ToSet(seqs[i]) = Range(mentions[fields[i]])
    BY <1>4 DEF Range, ToSet
  <2>2. Named(structs, s) = UNION {Range(mentions[t]) : t \in Range(fields)}
    BY DEF Named, fields
  <2>3. Range(fields) = {fields[i] : i \in 1..n}
    BY <1>2 DEF Range
  <2> QED
    BY <2>1, <2>2, <2>3
<1>8. ToSet(FlattenSeq(seqs)) = Range(FlattenSeq(seqs))
  BY DEF Range, ToSet
<1> DEFINE q == FlattenSeq(seqs)
<1>9. q \in Seq(Structs) /\ Range(q) = Named(structs, s)
  BY <1>6, <1>7, <1>8
<1>10. Frame(s) = [def |-> s, todo |-> q]
  BY <1>3
<1> HIDE DEF q
<1>11. Frame(s).def = s /\ Frame(s).todo = q /\ Frame(s) \in Frames
  BY <1>9, <1>10 DEF Frames
<1> QED
  BY <1>9, <1>11

\* A frame waits for structs its fields name; those it does not wait for are in the cache.
Covered(frame) ==
  /\ Range(frame.todo) \subseteq Named(structs, frame.def)
  /\ Named(structs, frame.def) \subseteq DOMAIN cache \cup Range(frame.todo)

\* Each frame is for a struct that the one below it names.
IsStack(q) ==
  /\ q \in Seq(Frames)
  /\ \A i \in 1..Len(q) : Covered(q[i])
  /\ \A i \in 1..Len(q) : i # 1 => q[i].def \in Named(structs, q[i - 1].def)

LEMMA StackBegins ==
  ASSUME IsStructs(structs), NEW s \in Structs
  PROVE  IsStack(<<Frame(s)>>)
<1> DEFINE f == Frame(s)
<1>1. f \in Frames /\ Covered(f)
  BY FrameIs DEF Covered
<1> HIDE DEF f
<1>2. <<f>> \in Seq(Frames) /\ Len(<<f>>) = 1 /\ <<f>>[1] = f
  BY <1>1
<1>3. \A i \in 1..1 : i = 1
  OBVIOUS
<1> QED
  BY <1>1, <1>2, <1>3 DEF IsStack, f

LEMMA StackGrows ==
  ASSUME IsStructs(structs), IsStack(stack), NEW s \in Structs,
         stack # <<>>, s \in Range(Last(stack).todo)
  PROVE  IsStack(Append(stack, Frame(s)))
<1> DEFINE n == Len(stack)
           f == Frame(s)
           q == Append(stack, f)
<1>1. n \in Nat \ {0} /\ stack \in Seq(Frames) /\ Last(stack) = stack[n]
  BY EmptySeq DEF IsStack, Last
<1>2. f \in Frames /\ Covered(f) /\ f.def = s
  BY FrameIs DEF Covered
<1> HIDE DEF f
<1>3. /\ q \in Seq(Frames) /\ Len(q) = n + 1
      /\ (\A i \in 1..n : q[i] = stack[i]) /\ q[n + 1] = f
  BY <1>1, <1>2, AppendProperties
<1>4. s \in Named(structs, stack[n].def)
  <2>1. n \in 1..n
    BY <1>1
  <2> QED
    BY <1>1, <2>1 DEF IsStack, Covered
<1> HIDE DEF q, n
<1>5. ASSUME NEW i \in 1..n + 1
      PROVE  Covered(q[i]) /\ (i # 1 => q[i].def \in Named(structs, q[i - 1].def))
  <2>1. CASE i \in 1..n
    <3>1. q[i] = stack[i] /\ (i # 1 => q[i - 1] = stack[i - 1])
      BY <1>1, <1>3, <2>1
    <3> QED
      BY <2>1, <3>1 DEF IsStack, n
  <2>2. CASE i = n + 1
    <3>1. i - 1 = n /\ n \in 1..n
      BY <1>1, <2>2
    <3>2. q[i] = f /\ q[i - 1] = stack[n]
      BY <1>3, <2>2, <3>1
    <3> QED
      BY <1>2, <1>4, <3>2
  <2> QED
    BY <1>1, <2>1, <2>2
<1> QED
  BY <1>3, <1>5 DEF IsStack, q, f

LEMMA StackShrinks ==
  ASSUME IsStack(stack), stack # <<>>
  PROVE  IsStack(Front(stack))
<1> DEFINE q == Front(stack)
           n == Len(q)
           x == Last(stack)
<1>1. q \in Seq(Frames) /\ x \in Frames /\ stack = Append(q, x)
  BY Popped DEF IsStack, Lists
<1> HIDE DEF q, x
<1>2. n \in Nat /\ Len(stack) = n + 1 /\ \A i \in 1..n : stack[i] = q[i]
  BY <1>1, AppendProperties, LenProperties
<1> HIDE DEF n
<1>3. ASSUME NEW i \in 1..n
      PROVE  Covered(q[i]) /\ (i # 1 => q[i].def \in Named(structs, q[i - 1].def))
  <2>1. i \in 1..n + 1 /\ q[i] = stack[i] /\ (i # 1 => q[i - 1] = stack[i - 1])
    BY <1>2
  <2> QED
    BY <1>2, <2>1 DEF IsStack
<1> QED
  BY <1>1, <1>3 DEF IsStack, q, n

LEMMA HeadAndTail ==
  ASSUME NEW T, NEW q \in Seq(T), q # <<>>
  PROVE  /\ Head(q) \in T /\ Tail(q) \in Seq(T)
         /\ Range(q) = Range(Tail(q)) \cup {Head(q)}
<1> DEFINE n == Len(q)
           p == Tail(q)
<1>1. n \in Nat \ {0} /\ Range(q) = {q[i] : i \in 1..n}
  BY EmptySeq, RangeEquality
<1>2. Head(q) \in T /\ p \in Seq(T) /\ Len(p) = n - 1 /\ \A i \in 1..n - 1 : p[i] = q[i + 1]
  BY HeadTailProperties
<1>3. Head(q) = q[1]
  OBVIOUS
<1>4. Range(p) = {p[i] : i \in 1..n - 1}
  <2> HIDE DEF p, n
  <2> QED
    BY <1>2, RangeEquality
<1> HIDE DEF p, n
<1>5. \A i \in 1..n : i = 1 \/ (i - 1 \in 1..n - 1 /\ q[i] = p[i - 1])
  <2> SUFFICES ASSUME NEW i \in 1..n, i # 1 PROVE i - 1 \in 1..n - 1 /\ q[i] = p[i - 1]
    OBVIOUS
  <2>1. i - 1 \in 1..n - 1 /\ (i - 1) + 1 = i
    BY <1>1
  <2> QED
    BY <1>2, <2>1
<1>6. Range(q) \subseteq Range(p) \cup {q[1]}
  BY <1>1, <1>4, <1>5
<1>7. \A i \in 1..n - 1 : i + 1 \in 1..n
  BY <1>1
<1>8. Range(p) \subseteq Range(q) /\ q[1] \in Range(q)
  <2>1. 1 \in 1..n
    BY <1>1
  <2> QED
    BY <1>1, <1>2, <1>4, <1>7, <2>1
<1> QED
  BY <1>2, <1>3, <1>6, <1>8 DEF p

\* The struct that the last frame waits for first is in the cache.
LEMMA StackGoesOn ==
  ASSUME IsStack(stack), stack # <<>>, Last(stack).todo # <<>>,
         Head(Last(stack).todo) \in DOMAIN cache
  PROVE  IsStack([stack EXCEPT ![Len(stack)].todo = Tail(@)])
<1> DEFINE n == Len(stack)
           f == stack[n]
           g == [f EXCEPT !.todo = Tail(@)]
           q == [stack EXCEPT ![n] = g]
<1>1. n \in Nat \ {0} /\ stack \in Seq(Frames) /\ Last(stack) = f /\ n \in 1..n
  BY EmptySeq DEF IsStack, Last
<1>2. f \in Frames /\ Covered(f)
  BY <1>1, ElementOfSeq DEF IsStack
<1>3. [stack EXCEPT ![Len(stack)].todo = Tail(@)] = q
  OBVIOUS
<1>4. f.todo # <<>> /\ Head(f.todo) \in DOMAIN cache
  BY <1>1
<1> HIDE DEF f
<1>5. /\ f.todo \in Seq(Structs) /\ Tail(f.todo) \in Seq(Structs)
      /\ Range(f.todo) = Range(Tail(f.todo)) \cup {Head(f.todo)}
  BY <1>2, <1>4, HeadAndTail DEF Frames
<1>6. g \in Frames /\ g.def = f.def /\ g.todo = Tail(f.todo)
  BY <1>2, <1>5 DEF Frames
<1>7. Covered(g)
  BY <1>2, <1>4, <1>5, <1>6 DEF Covered
<1> HIDE DEF g
<1>8. /\ q \in Seq(Frames) /\ Len(q) = n
      /\ \A i \in 1..n : q[i] = IF i = n THEN g ELSE stack[i]
  BY <1>1, <1>6, ExceptSeq
<1> HIDE DEF q
<1>9. \A i \in 1..n : q[i].def = stack[i].def /\ Covered(q[i])
  BY <1>6, <1>7, <1>8 DEF IsStack, n, f
<1>10. \A i \in 1..n : i # 1 => i - 1 \in 1..n
  BY <1>1
<1>11. \A i \in 1..n : i # 1 => q[i].def \in Named(structs, q[i - 1].def)
  BY <1>9, <1>10 DEF IsStack
<1> QED
  BY <1>3, <1>8, <1>9, <1>11 DEF IsStack

\* A stack stays one when more layouts are in the cache.
LEMMA StackStays ==
  ASSUME structs' = structs, DOMAIN cache \subseteq DOMAIN cache', IsStack(stack')
  PROVE  IsStack(stack)'
<1>1. mentions' = mentions
  BY DEF mentions
<1>2. \A s : Named(structs, s)' = Named(structs, s)
  BY <1>1 DEF Named
<1>3. Frames' = Frames
  BY DEF Frames
<1>4. \A i \in 1..Len(stack') : Covered(stack[i])'
  <2>1. \A i \in 1..Len(stack') : Covered(stack'[i])
    BY DEF IsStack
  <2> QED
    BY <1>1, <2>1 DEF Covered, Named
<1>5. \A i \in 1..Len(stack') : i # 1 => stack'[i].def \in Named(structs, stack[i - 1].def)'
  <2>1. \A i \in 1..Len(stack') : i # 1 => stack'[i].def \in Named(structs, stack'[i - 1].def)
    BY DEF IsStack
  <2> QED
    BY <1>1, <2>1 DEF Named
<1> QED
  BY <1>3, <1>4, <1>5 DEF IsStack

\* What is resolved is resolved for an accepted module.
StackInv ==
  /\ IsStructs(structs) /\ DOMAIN cache \subseteq Structs /\ IsStack(stack)
  /\ status = "published" => StructsAccepted
  /\ status # "published" => NothingResolved

LEMMA NothingIsAStack == ASSUME stack = <<>> PROVE IsStack(stack)
<1>1. Len(stack) = 0
  OBVIOUS
<1>2. \A i \in 1..0 : FALSE
  OBVIOUS
<1> QED
  BY <1>1, <1>2, EmptySeq DEF IsStack

LEMMA StackInit == Init => StackInv
<1> SUFFICES ASSUME Init PROVE StackInv
  OBVIOUS
<1>1. IsStructs(structs) /\ status = "submitted" /\ NothingResolved
  BY SubmittedAssumption DEF Init
<1>2. cache = <<>> /\ stack = <<>> /\ DOMAIN cache = {}
  BY <1>1 DEF NothingResolved
<1> QED
  BY <1>1, <1>2, NothingIsAStack DEF StackInv

LEMMA StructsStay ==
  ASSUME structs' = structs
  PROVE  (IsStructs(structs)' <=> IsStructs(structs)) /\ (StructsAccepted' <=> StructsAccepted)
<1>1. /\ SignatureChecker(structs)' <=> SignatureChecker(structs)
      /\ ResourceTransitiveChecker(structs)' <=> ResourceTransitiveChecker(structs)
      /\ RecursiveStructDefChecker(structs)' <=> RecursiveStructDefChecker(structs)
  BY DEF SignatureChecker, ResourceTransitiveChecker, RecursiveStructDefChecker
<1> QED
  BY <1>1 DEF StructsAccepted

LEMMA ResolveKeepsStack ==
  ASSUME StackInv, status = "published", status' = status, Resolve
  PROVE  StackInv'
<1>1. /\ IsStructs(structs) /\ DOMAIN cache \subseteq Structs /\ IsStack(stack)
      /\ StructsAccepted
  BY DEF StackInv
<1>2. ASSUME structs' = structs, IsStack(stack'),
             DOMAIN cache \subseteq DOMAIN cache', DOMAIN cache' \subseteq Structs
      PROVE  StackInv'
  BY <1>1, <1>2, StructsStay, StackStays DEF StackInv
<1>3. stack # <<>> => Last(stack) \in Frames
  BY <1>1, Popped DEF IsStack, Lists
<1>4. CASE resolve_struct_def
  BY <1>1, <1>2, <1>4, StackBegins DEF resolve_struct_def
<1>5. CASE use_cached
  BY <1>1, <1>2, <1>5, StackGoesOn DEF use_cached, Waits, Top
<1>6. CASE resolve_struct_handle
  <2> DEFINE q == Last(stack).todo
             s == Head(q)
  <2>1. stack # <<>> /\ q # <<>> /\ stack' = Append(stack, Frame(s)) /\ UNCHANGED <<structs, cache>>
    BY <1>6 DEF resolve_struct_handle, Waits, Top
  <2>2. q \in Seq(Structs)
    BY <1>3, <2>1 DEF Frames
  <2> HIDE DEF q
  <2>3. s \in Structs /\ s \in Range(q)
    BY <2>1, <2>2, HeadAndTail
  <2> HIDE DEF s
  <2>4. IsStack(stack')
    BY <1>1, <2>1, <2>3, StackGrows DEF q
  <2> QED
    BY <1>1, <1>2, <2>1, <2>4
<1>7. CASE cache_struct_def
  <2>1. stack # <<>> /\ stack' = Front(stack) /\ structs' = structs
    BY <1>7 DEF cache_struct_def
  <2>2. DOMAIN cache' = DOMAIN cache \cup {Last(stack).def}
    BY <1>7 DEF cache_struct_def, Top
  <2>3. Last(stack).def \in Structs
    BY <1>3, <2>1 DEF Frames
  <2> QED
    BY <1>1, <1>2, <2>1, <2>2, <2>3, StackShrinks
<1> QED
  BY <1>4, <1>5, <1>6, <1>7 DEF Resolve

LEMMA StackNext == StackInv /\ [Next]_vars => StackInv'
<1> SUFFICES ASSUME StackInv, [Next]_vars PROVE StackInv'
  OBVIOUS
<1>1. ASSUME UNCHANGED <<structs, cache, stack>>,
             status' = "published" => StructsAccepted,
             status' # "published" => status # "published"
      PROVE  StackInv'
  <2>1. IsStack(stack)'
    BY <1>1, StackStays DEF StackInv
  <2>2. status' # "published" => NothingResolved'
    BY <1>1 DEF StackInv, NothingResolved
  <2> QED
    BY <1>1, <2>1, <2>2, StructsStay DEF StackInv
<1>2. CASE verify
  BY <1>1, <1>2 DEF verify
<1>3. CASE resolve
  BY <1>3, ResolveKeepsStack DEF resolve
<1>4. CASE run_call
  BY <1>1, <1>4 DEF run_call, StackInv
<1>5. CASE UNCHANGED vars
  BY <1>1, <1>5 DEF vars, StackInv
<1> QED
  BY <1>2, <1>3, <1>4, <1>5 DEF Next

\* A path stays where each of its steps does.
LEMMA PathStays ==
  ASSUME NEW a \in Nat, NEW b \in Nat, NEW p, NEW D, p[a] \in D,
         \A l \in a..b : l # b /\ p[l] \in D => p[l + 1] \in D
  PROVE  \A l \in a..b : p[l] \in D
<1> DEFINE bad == {l \in a..b : p[l] \notin D}
           m == Min(bad)
<1> SUFFICES ASSUME bad # {} PROVE FALSE
  OBVIOUS
<1>1. m \in bad /\ \A y \in bad : m <= y
  <2>1. bad \in SUBSET Nat
    OBVIOUS
  <2> HIDE DEF bad
  <2> QED
    BY <2>1, MinIsLeast
<1>2. m \in a..b /\ p[m] \notin D
  BY <1>1
<1> HIDE DEF m
<1>3. m - 1 \in a..b /\ m - 1 # b /\ (m - 1) + 1 = m /\ ~(m <= m - 1)
  <2>1. m # a
    BY <1>2
  <2> QED
    BY <1>2, <2>1
<1>4. p[m - 1] \in D
  BY <1>1, <1>3
<1> QED
  BY <1>2, <1>3, <1>4

\* A struct that a field names within a vector or as an actual does not lead back
\* to the struct of the field: the graph does not follow it.
NestedNeverLeadsBack(m) ==
  \A s \in Structs : \A u \in Named(m, s) \ member_struct_defs(m, s) :
    \E D \in SUBSET Structs : u \in D /\ s \notin D /\ \A d \in D : Named(m, d) \subseteq D

LEMMA NoneTwice ==
  ASSUME IsStack(stack), RecursiveStructDefChecker(structs), NestedNeverLeadsBack(structs),
         NEW i \in DOMAIN stack, NEW j \in DOMAIN stack, i < j
  PROVE  stack[i].def # stack[j].def
<1> DEFINE n == Len(stack)
           p == [k \in 1..n |-> stack[k].def]
           cycle == {p[k] : k \in i..j - 1}
<1> SUFFICES ASSUME stack[i].def = stack[j].def PROVE FALSE
  OBVIOUS
<1>1. n \in Nat /\ DOMAIN stack = 1..n /\ \A k \in 1..n : stack[k] \in Frames
  BY LenProperties, ElementOfSeq DEF IsStack
<1>2. \A k \in 1..n : p[k] \in Structs /\ p[k] = stack[k].def
  BY <1>1 DEF Frames
<1>3. \A k \in 1..n : k # 1 => p[k] \in Named(structs, p[k - 1])
  <2>1. \A k \in 1..n : k # 1 => k - 1 \in 1..n
    BY <1>1
  <2> QED
    BY <1>2, <2>1 DEF IsStack
<1>4. p[i] = p[j] /\ i \in 1..n /\ j \in 1..n
  BY <1>1, <1>2
<1> HIDE DEF p, n
<1>5. i \in i..j - 1 /\ \A k \in i..j - 1 : k \in 1..n /\ k + 1 \in 1..n /\ k + 1 # 1 /\ (k + 1) - 1 = k
  BY <1>1, <1>4
<1>6. cycle \in (SUBSET Structs) \ {{}}
  BY <1>2, <1>5
<1>7. PICK k \in i..j - 1 : member_struct_defs(structs, p[k]) \cap cycle = {}
  <2>1. \E s \in cycle : member_struct_defs(structs, s) \cap cycle = {}
    <3> HIDE DEF cycle
    <3> QED
      BY <1>6 DEF RecursiveStructDefChecker
  <2> QED
    BY <2>1
<1>8. p[k + 1] \in cycle
  <2>1. k + 1 = j \/ k + 1 \in i..j - 1
    BY <1>1, <1>4
  <2> QED
    BY <1>4, <1>5, <2>1
<1>9. p[k] \in Structs /\ p[k + 1] \in Named(structs, p[k]) /\ p[k + 1] \notin member_struct_defs(structs, p[k])
  BY <1>2, <1>3, <1>5, <1>7, <1>8
<1>10. PICK D \in SUBSET Structs : /\ p[k + 1] \in D /\ p[k] \notin D
                                  /\ \A d \in D : Named(structs, d) \subseteq D
  BY <1>9 DEF NestedNeverLeadsBack
<1>11. \A l \in 1..n : l # n /\ p[l] \in D => p[l + 1] \in D
  <2> SUFFICES ASSUME NEW l \in 1..n, l # n, p[l] \in D PROVE p[l + 1] \in D
    OBVIOUS
  <2>1. l + 1 \in 1..n /\ l + 1 # 1 /\ (l + 1) - 1 = l
    BY <1>1
  <2>2. p[l + 1] \in Named(structs, p[l])
    BY <1>3, <2>1
  <2> QED
    BY <1>10, <2>2
<1>12. p[j] \in D
  <2>1. \A l \in k + 1..j : l # j /\ p[l] \in D => p[l + 1] \in D
    <3>1. \A l \in k + 1..j : l # j => l \in 1..n /\ l # n
      BY <1>1, <1>4
    <3> QED
      BY <1>11, <3>1
  <2>2. k + 1 \in Nat /\ j \in Nat /\ j \in k + 1..j
    BY <1>1, <1>4
  <2>3. \A l \in k + 1..j : p[l] \in D
    <3> HIDE DEF cycle
    <3> QED
      BY <1>10, <2>1, <2>2, PathStays
  <2> QED
    BY <2>2, <2>3
<1>13. p[k] \in D
  <2>1. \A l \in i..k : l # k /\ p[l] \in D => p[l + 1] \in D
    <3>1. \A l \in i..k : l # k => l \in 1..n /\ l # n
      BY <1>1, <1>4
    <3> QED
      BY <1>11, <3>1
  <2>2. i \in Nat /\ k \in Nat /\ k \in i..k
    BY <1>1, <1>4
  <2>3. \A l \in i..k : p[l] \in D
    <3> HIDE DEF cycle
    <3> QED
      BY <1>4, <1>12, <2>1, <2>2, PathStays
  <2> QED
    BY <2>2, <2>3
<1> QED
  BY <1>10, <1>13

\* No struct of an accepted module is part of itself, if only fields lead from a
\* struct back to it, and no vector and no actual does.
\* (struct_defs.py, module_cache.py)
THEOREM AcceptedStructsEnd ==
  ASSUME \A family \in Submitted : \A m \in family.structs : NestedNeverLeadsBack(m)
  PROVE  Spec => []NeverWithinItself
<1> DEFINE I == StackInv /\ NestedNeverLeadsBack(structs)
<1>1. Init => I
  <2>1. Init => NestedNeverLeadsBack(structs)
    BY DEF Init
  <2> QED
    BY <2>1, StackInit
<1>2. I /\ [Next]_vars => I'
  <2>1. [Next]_vars => structs' = structs
    BY DEF Next, verify, resolve, run_call, Resolve, resolve_struct_def, use_cached,
           resolve_struct_handle, cache_struct_def, vars
  <2>2. mentions' = mentions
    BY DEF mentions
  <2>3. structs' = structs => (NestedNeverLeadsBack(structs)' <=> NestedNeverLeadsBack(structs))
    BY <2>2 DEF NestedNeverLeadsBack, Named, member_struct_defs
  <2> QED
    BY <2>1, <2>3, StackNext
<1>3. I => NeverWithinItself
  <2> SUFFICES ASSUME I, NEW i \in DOMAIN stack, NEW j \in DOMAIN stack,
                      stack[i].def = stack[j].def
               PROVE  i = j
    BY DEF NeverWithinItself
  <2>1. IsStack(stack) /\ NestedNeverLeadsBack(structs)
    BY DEF StackInv
  <2>2. i \in Nat /\ j \in Nat
    <3>1. DOMAIN stack = 1..Len(stack) /\ Len(stack) \in Nat
      BY <2>1, LenProperties DEF IsStack
    <3> QED
      BY <3>1
  <2>3. RecursiveStructDefChecker(structs)
    <3>1. stack # <<>>
      OBVIOUS
    <3> QED
      BY <3>1 DEF StackInv, NothingResolved, StructsAccepted
  <2>4. ~(i < j) /\ ~(j < i)
    BY <2>1, <2>3, NoneTwice
  <2> QED
    BY <2>2, <2>4
<1> QED
  BY <1>1, <1>2, <1>3, PTL DEF Spec

----------------------------------------------------------------------------
(* The layouts *)

LEMMA SignatureIs ==
  ASSUME NEW m, NEW formals, NEW t \in Tokens, check_signature_no_refs(m, formals)[t]
  PROVE  /\ \A p \in Parts(t) : check_signature_no_refs(m, formals)[p]
         /\ t.tag = "struct" => Len(t.actuals) = Len(m[t.def].formals)
<1> DEFINE ok == check_signature_no_refs(m, formals)
<1>1. ok = [u \in Tokens |-> SignatureOf(ok, m, formals, u)]
  BY SignatureValue
<1>2. ok[t]
  OBVIOUS
<1> HIDE DEF ok
<1>3. SignatureOf(ok, m, formals, t)
  BY <1>1, <1>2, Zenon
<1> QED
  BY <1>3 DEF SignatureOf, ok

LEMMA ContainsIs ==
  ASSUME NEW m, NEW t \in Tokens, ~contains_nominal_resource(m)[t]
  PROVE  /\ \A p \in Parts(t) : ~contains_nominal_resource(m)[p]
         /\ t.tag = "struct" => ~m[t.def].resource
<1> DEFINE c == contains_nominal_resource(m)
<1>1. c[t] = ContainsOf(c, m, t)
  BY ContainsValue
<1> HIDE DEF c
<1>2. ~ContainsOf(c, m, t)
  BY <1>1 DEF c
<1> QED
  BY <1>2 DEF ContainsOf, c

\* The layout of a type of each form.
LEMMA LayoutIs ==
  ASSUME NEW context, NEW t \in Tokens, NEW r, r = resolve_signature_token(context)
  PROVE  /\ t.tag = "prim" => r[t].resources = {} /\ r[t].vars = {}
         /\ t.tag = "param" => r[t] = context[t.arg]
         /\ t.tag = "vector" => r[t].resources = r[t.arg].resources /\ r[t].vars = {}
         /\ t.tag = "struct" =>
              LET layout == cache[t.def]
              IN  layout.vars \subseteq DOMAIN t.actuals =>
                    /\ r[t].resources = layout.resources
                         \cup UNION {r[t.actuals[i]].resources : i \in layout.vars}
                    /\ r[t].vars = UNION {r[t.actuals[i]].vars : i \in layout.vars}
<1>1. r[t] = LayoutOf(r, context, t)
  BY LayoutValue
<1>2. CASE t.tag = "struct"
  <2> DEFINE layout == cache[t.def]
             actuals == [i \in DOMAIN t.actuals |-> r[t.actuals[i]]]
  <2>1. r[t] = subst_struct_def(layout, actuals)
    BY <1>1, <1>2 DEF LayoutOf
  <2> SUFFICES ASSUME layout.vars \subseteq DOMAIN t.actuals
               PROVE  /\ r[t].resources = layout.resources
                           \cup UNION {r[t.actuals[i]].resources : i \in layout.vars}
                      /\ r[t].vars = UNION {r[t.actuals[i]].vars : i \in layout.vars}
    BY <1>2
  <2>2. \A i \in layout.vars : actuals[i] = r[t.actuals[i]]
    OBVIOUS
  <2> HIDE DEF layout, actuals
  <2>3. /\ r[t].resources = layout.resources \cup UNION {actuals[i].resources : i \in layout.vars}
        /\ r[t].vars = UNION {actuals[i].vars : i \in layout.vars}
    BY <2>1 DEF subst_struct_def, Layout
  <2> QED
    BY <2>2, <2>3
<1>3. CASE t.tag = "prim"
  BY <1>1, <1>3 DEF LayoutOf, Layout
<1>4. CASE t.tag = "param"
  BY <1>1, <1>4 DEF LayoutOf
<1>5. CASE t.tag = "vector"
  BY <1>1, <1>5 DEF LayoutOf, Layout
<1> QED
  BY <1>2, <1>3, <1>4, <1>5, TokenShape

\* A layout's variables are the struct's; only that of a resource has a resource in it.
CacheInv ==
  \A s \in DOMAIN cache :
    /\ cache[s].vars \subseteq 1..Len(structs[s].formals)
    /\ ~structs[s].resource => cache[s].resources = {}

\* The layout of a type of a struct with n type parameters.
IsLayout(layout, n, resources) == layout.vars \subseteq 1..n /\ (~resources => layout.resources = {})

LEMMA FieldLayout ==
  ASSUME CacheInv, NEW formals, NEW T \in SUBSET Tokens, Closed(T),
         \A u \in T : u.tag = "param" => u.arg \in 1..Len(formals),
         NEW t \in T, Range(mentions[t]) \subseteq DOMAIN cache,
         check_signature_no_refs(structs, formals)[t]
  PROVE  IsLayout(resolve_signature_token(identity_mapping(Len(formals)))[t], Len(formals),
                  contains_nominal_resource(structs)[t])
<1> DEFINE n == Len(formals)
           r == resolve_signature_token(identity_mapping(n))
           has == contains_nominal_resource(structs)
           ok == check_signature_no_refs(structs, formals)
           C == {u \in Tokens : u \in T /\ ok[u] /\ Range(mentions[u]) \subseteq DOMAIN cache
                                  => IsLayout(r[u], n, has[u])}
<1>1. ASSUME NEW u \in Tokens, Parts(u) \subseteq C,
             u \in T, ok[u], Range(mentions[u]) \subseteq DOMAIN cache
      PROVE  IsLayout(r[u], n, has[u])
  <2>1. \A p \in Parts(u) : IsLayout(r[p], n, has[p])
    <3>1. \A p \in Parts(u) : p \in T
      BY <1>1 DEF Closed
    <3>2. \A p \in Parts(u) : ok[p]
      BY <1>1, SignatureIs
    <3>3. \A p \in Parts(u) : Range(mentions[p]) \subseteq Range(mentions[u])
      BY <1>1, MentionsAre
    <3> QED
      BY <1>1, <3>1, <3>2, <3>3
  <2>2. ~has[u] => /\ \A p \in Parts(u) : ~has[p]
                   /\ u.tag = "struct" => ~structs[u.def].resource
    BY ContainsIs
  <2>3. u.tag = "struct" => Len(u.actuals) = Len(structs[u.def].formals)
    BY <1>1, SignatureIs
  <2>4. u.tag = "param" => u.arg \in 1..n
    BY <1>1
  <2> HIDE DEF has, ok, C, n
  <2>5. CASE u.tag = "prim"
    BY <2>5, LayoutIs DEF IsLayout
  <2>6. CASE u.tag = "param"
    <3>1. r[u] = identity_mapping(n)[u.arg]
      BY <2>6, LayoutIs
    <3>2. r[u] = Layout({}, {u.arg})
      BY <2>4, <2>6, <3>1 DEF identity_mapping
    <3>3. r[u].vars = {u.arg} /\ r[u].resources = {}
      BY <3>2 DEF Layout
    <3> QED
      BY <2>4, <2>6, <3>3 DEF IsLayout
  <2>7. CASE u.tag = "vector"
    <3>1. u.arg \in Parts(u) /\ r[u].resources = r[u.arg].resources /\ r[u].vars = {}
      BY <2>7, LayoutIs, TokenShape
    <3> QED
      BY <2>1, <2>2, <3>1 DEF IsLayout
  <2>8. CASE u.tag = "struct"
    <3> DEFINE layout == cache[u.def]
    <3>1. u.def \in DOMAIN cache
      BY <1>1, <2>8, MentionsAre
    <3>2. DOMAIN u.actuals = 1..Len(u.actuals) /\ \A i \in DOMAIN u.actuals : u.actuals[i] \in Parts(u)
      BY <2>8, TokenShape, LenProperties
    <3>3. layout.vars \subseteq DOMAIN u.actuals /\ (~structs[u.def].resource => layout.resources = {})
      BY <2>3, <2>8, <3>1, <3>2 DEF CacheInv
    <3>4. /\ r[u].resources = layout.resources
               \cup UNION {r[u.actuals[i]].resources : i \in layout.vars}
          /\ r[u].vars = UNION {r[u.actuals[i]].vars : i \in layout.vars}
      BY <2>8, <3>3, LayoutIs
    <3>5. \A i \in layout.vars : IsLayout(r[u.actuals[i]], n, has[u.actuals[i]])
      BY <2>1, <3>2, <3>3
    <3>6. ~has[u] => \A i \in layout.vars : ~has[u.actuals[i]]
      BY <2>2, <3>2, <3>3
    <3> HIDE DEF layout, r
    <3>7. r[u].vars \subseteq 1..n
      BY <3>4, <3>5 DEF IsLayout
    <3>8. ~has[u] => r[u].resources = {}
      BY <2>2, <2>8, <3>3, <3>4, <3>5, <3>6 DEF IsLayout
    <3> QED
      BY <3>7, <3>8 DEF IsLayout
  <2> QED
    BY <2>5, <2>6, <2>7, <2>8, TokenShape
<1>2. Tokens \subseteq C
  <2>1. \A u \in Tokens : Parts(u) \subseteq C => u \in C
    BY <1>1
  <2> HIDE DEF C
  <2> QED
    BY <2>1, TokenInduction
<1> QED
  BY <1>2

\* The type parameters within the types of a struct's fields are its own.
OwnParameters(m) ==
  \A s \in Structs : \E T \in SUBSET Tokens :
    /\ Range(m[s].fields) \subseteq T /\ Closed(T)
    /\ \A t \in T : t.tag = "param" => t.arg \in 1..Len(m[s].formals)

LEMMA CachedLayout ==
  ASSUME StackInv, status = "published", CacheInv, OwnParameters(structs), cache_struct_def
  PROVE  CacheInv'
<1> DEFINE s == Last(stack).def
           fields == structs[s].fields
           formals == structs[s].formals
           n == Len(formals)
           r == resolve_signature_token(identity_mapping(n))
           types == {r[t] : t \in Range(fields)}
           own == IF structs[s].resource THEN {s} ELSE {}
           layout == Layout((UNION {l.resources : l \in types}) \cup own, UNION {l.vars : l \in types})
<1>1. /\ IsStructs(structs) /\ IsStack(stack) /\ stack # <<>> /\ Last(stack).todo = <<>>
      /\ SignatureChecker(structs) /\ ResourceTransitiveChecker(structs) /\ structs' = structs
  BY DEF StackInv, StructsAccepted, cache_struct_def, Top
<1>2. cache' = [x \in DOMAIN cache \cup {s} |-> IF x \in DOMAIN cache THEN cache[x] ELSE layout]
  BY DEF cache_struct_def, Top
<1>3. s \in Structs /\ Covered(Last(stack))
  <2>1. Len(stack) \in 1..Len(stack) /\ stack \in Seq(Frames) /\ Last(stack) = stack[Len(stack)]
    BY <1>1, EmptySeq DEF IsStack, Last
  <2>2. stack[Len(stack)] \in Frames
    BY <2>1, ElementOfSeq
  <2> QED
    BY <1>1, <2>1, <2>2 DEF IsStack, Frames
<1>4. Named(structs, s) \subseteq DOMAIN cache
  <2>1. Range(<<>>) = {}
    BY DEF Range
  <2> QED
    BY <1>1, <1>3, <2>1 DEF Covered
<1> HIDE DEF s
<1>5. Range(fields) \subseteq Tokens
  <2>1. fields \in Seq(Tokens)
    BY <1>1, <1>3 DEF IsStructs
  <2> HIDE DEF fields
  <2> QED
    BY <2>1, RangeOfSeq
<1>6. PICK T \in SUBSET Tokens :
        /\ Range(fields) \subseteq T /\ Closed(T)
        /\ \A t \in T : t.tag = "param" => t.arg \in 1..n
  BY <1>3 DEF OwnParameters
<1>7. ASSUME NEW t \in Range(fields)
      PROVE  /\ IsLayout(r[t], n, contains_nominal_resource(structs)[t])
             /\ ~structs[s].resource => ~contains_nominal_resource(structs)[t]
  <2>1. Range(mentions[t]) \subseteq DOMAIN cache
    BY <1>4 DEF Named
  <2>2. check_signature_no_refs(structs, formals)[t]
    BY <1>1, <1>3 DEF SignatureChecker
  <2>3. ~structs[s].resource => ~contains_nominal_resource(structs)[t]
    BY <1>1, <1>3 DEF ResourceTransitiveChecker
  <2> HIDE DEF fields, formals
  <2>4. IsLayout(r[t], n, contains_nominal_resource(structs)[t])
    BY <1>6, <2>1, <2>2, FieldLayout
  <2> QED
    BY <2>3, <2>4
<1> HIDE DEF r, fields, n
<1>8. layout.vars \subseteq 1..n /\ (~structs[s].resource => layout.resources = {})
  <2>1. /\ layout.vars = UNION {l.vars : l \in types}
        /\ layout.resources = (UNION {l.resources : l \in types}) \cup own
    <3> HIDE DEF types, own
    <3> QED
      BY DEF Layout
  <2>2. \A l \in types : l.vars \subseteq 1..n /\ (~structs[s].resource => l.resources = {})
    BY <1>7 DEF IsLayout
  <2> HIDE DEF layout, types
  <2> QED
    BY <2>1, <2>2
<1> HIDE DEF layout
<1>9. \A x \in DOMAIN cache' : /\ cache'[x].vars \subseteq 1..Len(structs[x].formals)
                               /\ ~structs[x].resource => cache'[x].resources = {}
  BY <1>2, <1>8 DEF CacheInv, n
<1> QED
  BY <1>1, <1>9 DEF CacheInv

LEMMA KindIs ==
  ASSUME NEW m, NEW formals, NEW t \in Tokens, t.tag # "param", NEW k, k = kind(m, formals),
         \A p \in Parts(t) : k[p] \in Kinds
  PROVE  /\ k[t] \in Kinds
         /\ k[t] = "unrestricted" =>
              /\ \A p \in Parts(t) : k[p] = "unrestricted"
              /\ t.tag = "struct" => ~m[t.def].resource
<1>1. k[t] = IF t.tag = "struct" /\ m[t.def].resource THEN "resource" ELSE join({k[p] : p \in Parts(t)})
  <2>1. k[t] = KindOf(k, m, formals, t)
    BY KindValue
  <2> QED
    BY <2>1 DEF KindOf
<1> DEFINE kinds == {k[p] : p \in Parts(t)}
<1>2. kinds \subseteq Kinds
  OBVIOUS
<1>3. \A p \in Parts(t) : k[p] \in kinds
  OBVIOUS
<1> HIDE DEF kinds
<1>4. /\ join(kinds) \in Kinds
      /\ join(kinds) = "unrestricted" => \A x \in kinds : x = "unrestricted"
  BY <1>2 DEF join, Kinds
<1>5. k[t] = IF t.tag = "struct" /\ m[t.def].resource THEN "resource" ELSE join(kinds)
  BY <1>1 DEF kinds
<1> QED
  BY <1>3, <1>4, <1>5 DEF Kinds

LEMMA KnownIs ==
  ASSUME NEW known, known = [t \in Tokens |-> KnownOf(known, t)], NEW t \in Tokens, known[t]
  PROVE  /\ t.tag # "param" /\ \A p \in Parts(t) : known[p]
         /\ t.tag = "struct" => t.def \in DOMAIN cache
<1>1. KnownOf(known, t)
  BY Zenon
<1> QED
  BY <1>1 DEF KnownOf

LEMMA NothingLeaks ==
  ASSUME CacheInv PROVE Leaks = {}
<1> DEFINE k == kind(structs, <<>>)
           r == resolve_signature_token(<<>>)
           ok == check_signature_no_refs(structs, <<>>)
<1>1. PICK known : /\ known = [t \in Tokens |-> KnownOf(known, t)]
                   /\ Known = {t \in Tokens : known[t] /\ ok[t]}
  BY KnownValue
<1> DEFINE C == {u \in Tokens : known[u] /\ ok[u] =>
                   k[u] \in Kinds /\ (k[u] = "unrestricted" => r[u].resources = {})}
<1>2. ASSUME NEW u \in Tokens, Parts(u) \subseteq C, known[u], ok[u]
      PROVE  k[u] \in Kinds /\ (k[u] = "unrestricted" => r[u].resources = {})
  <2>1. /\ u.tag # "param" /\ \A p \in Parts(u) : known[p]
        /\ u.tag = "struct" => u.def \in DOMAIN cache
    BY <1>1, <1>2, KnownIs
  <2>2. /\ \A p \in Parts(u) : ok[p]
        /\ u.tag = "struct" => Len(u.actuals) = Len(structs[u.def].formals)
    BY <1>2, SignatureIs
  <2>3. \A p \in Parts(u) : k[p] \in Kinds /\ (k[p] = "unrestricted" => r[p].resources = {})
    BY <1>2, <2>1, <2>2
  <2> HIDE DEF C, ok
  <2>4. /\ k[u] \in Kinds
        /\ k[u] = "unrestricted" => /\ \A p \in Parts(u) : k[p] = "unrestricted"
                                    /\ u.tag = "struct" => ~structs[u.def].resource
    BY <2>1, <2>3, KindIs
  <2> SUFFICES ASSUME k[u] = "unrestricted" PROVE r[u].resources = {}
    BY <2>4
  <2>5. /\ \A p \in Parts(u) : r[p].resources = {}
        /\ u.tag = "struct" => ~structs[u.def].resource
    <3> HIDE DEF k, r
    <3> QED
      BY <2>3, <2>4
  <2>6. CASE u.tag = "prim"
    BY <2>6, LayoutIs
  <2>7. CASE u.tag = "vector"
    BY <2>5, <2>7, LayoutIs, TokenShape
  <2>8. CASE u.tag = "struct"
    <3> DEFINE layout == cache[u.def]
    <3>1. DOMAIN u.actuals = 1..Len(u.actuals) /\ \A i \in DOMAIN u.actuals : u.actuals[i] \in Parts(u)
      BY <2>8, TokenShape, LenProperties
    <3>2. layout.vars \subseteq DOMAIN u.actuals /\ layout.resources = {}
      BY <2>1, <2>2, <2>5, <2>8, <3>1 DEF CacheInv
    <3>3. r[u].resources = layout.resources \cup UNION {r[u.actuals[i]].resources : i \in layout.vars}
      BY <2>8, <3>2, LayoutIs
    <3>4. \A i \in layout.vars : r[u.actuals[i]].resources = {}
      BY <2>5, <3>1, <3>2
    <3> HIDE DEF layout, r
    <3> QED
      BY <3>2, <3>3, <3>4
  <2> QED
    BY <2>1, <2>6, <2>7, <2>8, TokenShape
<1>3. Tokens \subseteq C
  <2>1. \A u \in Tokens : Parts(u) \subseteq C => u \in C
    BY <1>2
  <2> HIDE DEF C
  <2> QED
    BY <2>1, TokenInduction
<1> QED
  BY <1>1, <1>3 DEF Leaks

\* A value whose type is of unrestricted kind has no resource in it, for all actuals,
\* if the type parameters within each struct's fields are its own, as the bounds
\* checker asks of all that are not in a vector.  (resources.py, type_context.py)
THEOREM UnrestrictedTypesHoldNoResource ==
  ASSUME \A family \in Submitted : \A m \in family.structs : OwnParameters(m)
  PROVE  Spec => []UnrestrictedHoldsNoResource
<1> DEFINE I == StackInv /\ CacheInv /\ OwnParameters(structs)
<1>1. Init => I
  <2>1. Init => OwnParameters(structs)
    BY DEF Init
  <2>2. Init => DOMAIN cache = {}
    BY DEF Init, NothingResolved
  <2> QED
    BY <2>1, <2>2, StackInit DEF CacheInv
<1>2. I /\ [Next]_vars => I'
  <2> SUFFICES ASSUME I, [Next]_vars PROVE I'
    OBVIOUS
  <2>1. structs' = structs
    BY DEF Next, verify, resolve, run_call, Resolve, resolve_struct_def, use_cached,
           resolve_struct_handle, cache_struct_def, vars
  <2>2. OwnParameters(structs)'
    BY <2>1 DEF OwnParameters, Closed, Parts
  <2>3. CASE cache' = cache
    BY <2>1, <2>2, <2>3, StackNext DEF CacheInv
  <2>4. CASE status = "published" /\ cache_struct_def
    BY <2>2, <2>4, StackNext, CachedLayout
  <2>5. cache' = cache \/ (status = "published" /\ cache_struct_def)
    BY DEF Next, verify, resolve, run_call, Resolve, resolve_struct_def, use_cached,
           resolve_struct_handle, vars
  <2> QED
    BY <2>3, <2>4, <2>5
<1>3. I => UnrestrictedHoldsNoResource
  BY NothingLeaks DEF UnrestrictedHoldsNoResource
<1> QED
  BY <1>1, <1>2, <1>3, PTL DEF Spec
=============================================================================
