--------------------------- MODULE VerifiedModule ---------------------------
(***************************************************************************)
(* A module between its submission and the transactions that use it: the   *)
(* checks of VerifiedModule.new on its structs and on the calls of its     *)
(* generic functions (bytecode_verifier/verifier.py), and then, in any     *)
(* order, the layouts that are resolved and the calls that are made.       *)
(***************************************************************************)
EXTENDS StructDefs, InstantiationLoops

CONSTANT Submitted  \* families of modules, as [structs, functions]

ASSUME SubmittedAssumption ==
  \A family \in Submitted :
    /\ \A m \in family.structs : IsStructs(m)
    /\ \A fs \in family.functions : IsFunctions(fs)

VARIABLE status     \* "submitted", "rejected" or "published"

vars == <<structs, functions, status, cache, stack, current, depths>>

Init ==
  /\ \E family \in Submitted :
       structs \in family.structs /\ functions \in family.functions
  /\ status = "submitted"
  /\ NothingResolved
  /\ Entered

verify ==
  /\ status = "submitted"
  /\ status' = IF StructsAccepted /\ CallsAccepted THEN "published" ELSE "rejected"
  /\ UNCHANGED <<structs, functions, cache, stack, current, depths>>

resolve ==
  /\ status = "published" /\ Resolve
  /\ UNCHANGED <<functions, status, current, depths>>

run_call ==
  /\ status = "published" /\ call
  /\ UNCHANGED <<structs, status, cache, stack>>

Next == verify \/ resolve \/ run_call

Spec == Init /\ [][Next]_vars

-----------------------------------------------------------------------------
\* No struct of an accepted module is part of itself, however it gets there: the
\* recursion that resolves it would never end.  (struct_defs.py, module_cache.py)
NeverWithinItself ==
  \A i, j \in DOMAIN stack : stack[i].def = stack[j].def => i = j

\* A value whose type is of unrestricted kind, and so may be copied and dropped,
\* has no resource in it, for any actuals the struct may be given.
\* (resources.py, signature.py, type_context.py)
UnrestrictedHoldsNoResource == status = "published" => Leaks = {}

\* However the functions of an accepted module call each other, no type they are
\* instantiated with nests more constructors than there are type parameters:
\* there are finitely many instances.  (instantiation_loops.py)
TypesStayBounded ==
  status = "published" => \A i \in DOMAIN depths : depths[i] <= Cardinality(Nodes)

\* Its calls are a reason to reject a module only if some chain of its calls makes
\* types that grow.  (instantiation_loops.py)
RejectedGrow == status = "rejected" /\ ~CallsAccepted => DeepInstances # {}
=============================================================================
