----------------------------- MODULE StructDefs -----------------------------
(***************************************************************************)
(* The structs of a module: what the verifier asks of their fields           *)
(* (bytecode_verifier/signature.py, resources.py, struct_defs.py and the     *)
(* kinds of vm/file_format.py), and how their layouts are resolved when a    *)
(* run first needs them (move_vm/runtime/code_cache/module_cache.py and      *)
(* move_vm/types/type_context.py).                                           *)
(*                                                                         *)
(* A type is a token: a primitive type, a type parameter, a vector or a       *)
(* struct applied to actuals.  Fields have no references: the signature       *)
(* checker refuses them.  A layout is known by what the properties ask of     *)
(* it: the nominal resources in it and its type variables.                   *)
(***************************************************************************)
EXTENDS Naturals, FiniteSets, SequencesExt, Functions

CONSTANTS Structs, \* the structs of the module
          Tokens   \* the types of its fields, and their parts

VARIABLES structs, \* of each struct: [resource, formals, fields]
          cache,   \* the layouts resolved so far
          stack    \* the structs being resolved, and what each waits for

Kinds == {"all", "resource", "unrestricted"}

Prim == [tag |-> "prim"]
Param(i) == [tag |-> "param", arg |-> i]
Vector(t) == [tag |-> "vector", arg |-> t]
Struct(s, actuals) == [tag |-> "struct", def |-> s, actuals |-> actuals]

Parts(t) ==
  IF t.tag = "vector" THEN {t.arg}
  ELSE IF t.tag = "struct" THEN Range(t.actuals) ELSE {}

\* Types are finite: among any of them there is one that is made of none of them.
ASSUME TokensAssumption ==
  /\ IsFiniteSet(Tokens)
  /\ \A t \in Tokens :
       \/ t.tag = "prim"
       \/ t.tag = "param" /\ t.arg \in Nat \ {0}
       \/ t.tag = "vector" /\ t.arg \in Tokens
       \/ t.tag = "struct" /\ t.def \in Structs /\ t.actuals \in Seq(Tokens)
  /\ \A some \in (SUBSET Tokens) \ {{}} : \E t \in some : Parts(t) \cap some = {}

\* What the bounds checker leaves of a module's structs.
IsStructs(m) ==
  m \in [Structs -> [resource : BOOLEAN, formals : Seq(Kinds), fields : Seq(Tokens)]]

----------------------------------------------------------------------------
(* Kinds *)

is_sub_kind_of(k, constraint) == constraint = "all" \/ k = constraint

join(kinds) ==
  IF "all" \in kinds THEN "all"
  ELSE IF "resource" \in kinds THEN "resource" ELSE "unrestricted"

\* The kind of each type, where the type parameters have the kinds formals.
kind(m, formals) ==
  LET k[t \in Tokens] ==
        IF t.tag = "param" THEN formals[t.arg]
        ELSE IF t.tag = "struct" /\ m[t.def].resource THEN "resource"
        ELSE join({k[p] : p \in Parts(t)})
  IN  k

----------------------------------------------------------------------------
(* The verifier *)

\* The types well defined in that context.
check_signature_no_refs(m, formals) ==
  LET ok[t \in Tokens] ==
        /\ \A p \in Parts(t) : ok[p]
        /\ t.tag = "struct" =>
             /\ Len(t.actuals) = Len(m[t.def].formals)
             /\ \A i \in DOMAIN t.actuals :
                  is_sub_kind_of(kind(m, formals)[t.actuals[i]], m[t.def].formals[i])
  IN  ok

\* MUTANT: what is in a vector is not looked at.
contains_nominal_resource_outside(m) ==
  LET c[t \in Tokens] ==
        t.tag = "struct" /\ (m[t.def].resource \/ \E p \in Parts(t) : c[p])
  IN  c

contains_nominal_resource(m) ==
  LET c[t \in Tokens] ==
        (t.tag = "struct" /\ m[t.def].resource) \/ \E p \in Parts(t) : c[p]
  IN  c

SignatureChecker(m) ==
  \A s \in Structs : \A t \in Range(m[s].fields) : check_signature_no_refs(m, m[s].formals)[t]

ResourceTransitiveChecker(m) ==
  \A s \in Structs :
    m[s].resource \/ \A t \in Range(m[s].fields) : ~contains_nominal_resource(m)[t]

\* MUTANT: only the first field is followed.
first_member_struct_defs(m, s) ==
  {t.def : t \in {u \in {m[s].fields[1]} : u.tag = "struct"}}

\* The structs the graph follows: not those within a vector or an actual.
member_struct_defs(m, s) == {t.def : t \in {u \in Range(m[s].fields) : u.tag = "struct"}}

\* The graph has no cycle: no structs that all have a member among them.
RecursiveStructDefChecker(m) ==
  \A cycle \in (SUBSET Structs) \ {{}} :
    \E s \in cycle : member_struct_defs(m, s) \cap cycle = {}

----------------------------------------------------------------------------
(* Layouts *)

Layout(resources, variables) == [resources |-> resources, vars |-> variables]

identity_mapping(n) == [i \in 1..n |-> Layout({}, {i})]

subst_struct_def(layout, context) ==
  Layout(layout.resources \cup UNION {context[i].resources : i \in layout.vars},
         UNION {context[i].vars : i \in layout.vars})

\* The layout of each type whose structs are in the cache.  Variables within a
\* vector are never replaced.
resolve_signature_token(context) ==
  LET r[t \in Tokens] ==
        IF t.tag = "param" THEN context[t.arg]
        ELSE IF t.tag = "vector" THEN Layout(r[t.arg].resources, {})
        ELSE IF t.tag = "struct"
          THEN subst_struct_def(cache[t.def], [i \in DOMAIN t.actuals |-> r[t.actuals[i]]])
        ELSE Layout({}, {})
  IN  r

\* The structs a type names, in the order in which they are resolved.
mentions ==
  LET n[t \in Tokens] ==
        IF t.tag = "vector" THEN n[t.arg]
        ELSE IF t.tag = "struct"
          THEN Append(FlattenSeq([i \in DOMAIN t.actuals |-> n[t.actuals[i]]]), t.def)
        ELSE <<>>
  IN  n

Frame(s) ==
  [def |-> s,
   todo |-> FlattenSeq([i \in DOMAIN structs[s].fields |-> mentions[structs[s].fields[i]]])]

----------------------------------------------------------------------------
(* Steps *)

StructsAccepted ==
  SignatureChecker(structs) /\ ResourceTransitiveChecker(structs) /\ RecursiveStructDefChecker(structs)

NothingResolved == cache = <<>> /\ stack = <<>>

\* A run needs the layout of a struct.
resolve_struct_def ==
  /\ stack = <<>>
  /\ \E s \in Structs \ DOMAIN cache : stack' = <<Frame(s)>>
  /\ UNCHANGED <<structs, cache>>

Top == Last(stack)
Waits == stack # <<>> /\ Top.todo # <<>>

\* A struct a field names is in the cache, and the next one is looked for.
use_cached ==
  /\ Waits /\ Head(Top.todo) \in DOMAIN cache
  /\ stack' = [stack EXCEPT ![Len(stack)].todo = Tail(@)]
  /\ UNCHANGED <<structs, cache>>

\* A struct a field names is resolved first.
resolve_struct_handle ==
  /\ Waits /\ Head(Top.todo) \notin DOMAIN cache
  /\ stack' = Append(stack, Frame(Head(Top.todo)))
  /\ UNCHANGED <<structs, cache>>

\* All structs the fields name are in the cache, and so is this one.
cache_struct_def ==
  /\ stack # <<>> /\ Top.todo = <<>>
  /\ LET def == structs[Top.def]
         resolved == resolve_signature_token(identity_mapping(Len(def.formals)))
         types == {resolved[t] : t \in Range(def.fields)}
         layout == Layout((UNION {l.resources : l \in types})
                            \cup (IF def.resource THEN {Top.def} ELSE {}),
                          UNION {l.vars : l \in types})
     IN  cache' = [s \in DOMAIN cache \cup {Top.def} |->
                     IF s \in DOMAIN cache THEN cache[s] ELSE layout]
  /\ stack' = Front(stack)
  /\ UNCHANGED structs

Resolve == resolve_struct_def \/ use_cached \/ resolve_struct_handle \/ cache_struct_def

----------------------------------------------------------------------------
(* What the properties are about *)

\* The types without parameters whose structs are in the cache.
Known ==
  LET known[t \in Tokens] ==
        /\ t.tag # "param"
        /\ t.tag = "struct" => t.def \in DOMAIN cache
        /\ \A p \in Parts(t) : known[p]
  IN  {t \in Tokens : known[t] /\ check_signature_no_refs(structs, <<>>)[t]}

\* The types of unrestricted kind, which may be copied and dropped, with a resource in them.
Leaks ==
  {t \in Known : /\ kind(structs, <<>>)[t] = "unrestricted"
                /\ resolve_signature_token(<<>>)[t].resources # {}}
=============================================================================
