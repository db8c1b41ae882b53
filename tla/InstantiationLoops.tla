------------------------- MODULE InstantiationLoops -------------------------
(***************************************************************************)
(* Generic functions that call each other (bytecode_verifier/                *)
(* instantiation_loops.py), and the types the interpreter gives to their      *)
(* type parameters at each call (execute_main in                             *)
(* move_vm/runtime/interpreter.py).                                          *)
(*                                                                         *)
(* A call names a function of the module and a type for each of its          *)
(* parameters: [con, params], whether the type applies a constructor (a       *)
(* struct or a vector) and the type parameters of the caller in it.  A type   *)
(* of a run is known by its depth, the constructors it nests.                 *)
(***************************************************************************)
EXTENDS Naturals, FiniteSetsExt, SequencesExt

VARIABLES functions, \* of each function: [formals, calls]
          current,   \* the function of the current frame
          depths     \* of its type depths

FunctionDefs == DOMAIN functions

\* What a function f of the module fs may call, and with which types.
CallsIn(fs, f) ==
  UNION {[callee : {g},
          types  : [1..fs[g].formals -> [con : BOOLEAN, params : SUBSET (1..fs[f].formals)]]] :
           g \in DOMAIN fs}

\* What the bounds checker leaves of a module's functions.
IsFunctions(fs) ==
  /\ IsFiniteSet(DOMAIN fs)
  /\ \A f \in DOMAIN fs : fs[f].formals \in Nat /\ fs[f].calls \in Seq(CallsIn(fs, f))

----------------------------------------------------------------------------
(* The graph of the type parameters *)

Node(f, i) == <<f, i>>
Nodes == UNION {{Node(f, i) : i \in 1..functions[f].formals} : f \in FunctionDefs}

\* MUTANT: a type with a single parameter in it is taken for the parameter.
build_graph_call_single(f, c) ==
  LET edges == UNION {{<<Node(f, p), Node(c.callee, i)>> : p \in c.types[i].params} :
                        i \in DOMAIN c.types}
  IN  [e \in edges |-> IF Cardinality(c.types[e[2][2]].params) > 1 THEN "TyConApp" ELSE "Identity"]

\* The edges of a call in f, each with its attribute.
build_graph_call(f, c) ==
  LET edges == UNION {{<<Node(f, p), Node(c.callee, i)>> : p \in c.types[i].params} :
                        i \in DOMAIN c.types}
  IN  [e \in edges |-> IF c.types[e[2][2]].con THEN "TyConApp" ELSE "Identity"]

\* Of an edge that is added again the first attribute is the one that counts.
build_graph_function_def(f) ==
  LET of == [k \in DOMAIN functions[f].calls |-> build_graph_call(f, functions[f].calls[k])]
      adding(e) == {k \in DOMAIN of : e \in DOMAIN of[k]}
  IN  [e \in UNION {DOMAIN of[k] : k \in DOMAIN of} |-> of[Min(adding(e))][e]]

graph ==
  LET of == [f \in FunctionDefs |-> build_graph_function_def(f)]
  IN  [e \in UNION {DOMAIN of[f] : f \in FunctionDefs} |-> of[e[1][1]][e]]

\* MUTANT: a constructor is refused wherever it leads.
find_constructors(g) == {e \in DOMAIN g : g[e] = "TyConApp"}

\* Edges lead from m to n where no set that they do not leave keeps the two apart.
leads_to(edges, m, n) ==
  \A s \in SUBSET Nodes : m \in s /\ (\A e \in edges : e[1] \in s => e[2] \in s) => n \in s

\* The constructors applied on the way from a node back to itself.
find_non_trivial_components(g) ==
  {e \in DOMAIN g : g[e] = "TyConApp" /\ leads_to(DOMAIN g, e[2], e[1])}

----------------------------------------------------------------------------
(* Steps *)

CallsAccepted == find_non_trivial_components(graph) = {}

\* Any function may be the first.
Entered ==
  /\ current \in FunctionDefs
  /\ depths = [i \in 1..functions[current].formals |-> 0]

\* The depth of a type of a call where the parameters have those depths.
derive_type_tag(ty, ds) ==
  (IF ty.con THEN 1 ELSE 0) + Max({0} \cup {ds[p] : p \in ty.params})

types_of(c, ds) == [i \in DOMAIN c.types |-> derive_type_tag(c.types[i], ds)]

\* The frame of a call; a return leads back to a frame that was current before.
call ==
  /\ \E c \in Range(functions[current].calls) :
       current' = c.callee /\ depths' = types_of(c, depths)
  /\ UNCHANGED functions

----------------------------------------------------------------------------
(* What the properties are about *)

\* The instances a chain of calls leads to from any first one, with the depths
\* above the bound not told apart, after as many calls as take a loop through
\* all nodes above it.
DeepInstances ==
  LET bound == Cardinality(Nodes)
      cap(ds) == [i \in DOMAIN ds |-> Min({ds[i], bound + 1})]
      called(s) == {<<c.callee, cap(types_of(c, s[2]))>> : c \in Range(functions[s[1]].calls)}
      level[k \in 0..bound * (bound + 1)] ==
        IF k = 0 THEN {<<f, [i \in 1..functions[f].formals |-> 0]>> : f \in FunctionDefs}
        ELSE LET before == level[k - 1]
             IN  before \cup UNION {called(s) : s \in before}
  IN  {s \in level[bound * (bound + 1)] : \E i \in DOMAIN s[2] : s[2][i] > bound}
=============================================================================
