-------------------------- MODULE MCVerifiedModule --------------------------
(* Modules of three structs, A with up to two fields, the first of two a simple
   one, B with one, and R, a resource with a primitive field, next to one
   function that calls nothing; modules of up to three generic functions next to
   plain structs; and a function that may call itself next to good and to bad
   structs. *)
EXTENDS VerifiedModule, TLC

CONSTANTS A, B, R,
          Nested,         \* the structs a vector or an actual may name
          ParameterFirst  \* whether T may be handed on before a type made of it

MCStructs == {A, B, R}

MCParts == {Prim, Param(1)} \cup {Struct(s, <<>>) : s \in Nested}
MCSimple == MCParts \cup {Struct(s, <<>>) : s \in MCStructs}
MCTokens ==
  MCSimple \cup {Vector(t) : t \in MCParts}
          \cup {Struct(s, <<t>>) : s \in {A, B}, t \in MCParts}

\* The bounds checker asks that a type parameter is one of the struct's.  It does
\* not look into vectors; modules with a foreign parameter there are left out.
MCIsGround(t) == t # Param(1) /\ (t.tag = "vector" => t.arg # Param(1))
                   /\ (t.tag = "struct" => t.actuals # <<Param(1)>>)

MCDefinitions(max) ==
  {d \in [resource : BOOLEAN, formals : {<<>>} \cup {<<k>> : k \in Kinds},
          fields : UNION {[1..n -> MCTokens] : n \in 1..max}] :
     /\ d.formals = <<>> => \A i \in DOMAIN d.fields : MCIsGround(d.fields[i])
     /\ Len(d.fields) = 2 => d.fields[1] \in MCSimple}

MCStructModules ==
  {A :> a @@ B :> b @@ R :> [resource |-> TRUE, formals |-> <<>>, fields |-> <<Prim>>] :
     a \in MCDefinitions(2), b \in MCDefinitions(1)}

MCType(con, params) == [con |-> con, params |-> params]

\* What a caller with n type parameters may name.
MCTypes(n) ==
  {MCType(FALSE, {}), MCType(TRUE, {})} \cup {MCType(FALSE, {i}) : i \in 1..n}
    \cup {MCType(TRUE, s) : s \in SUBSET (1..n) \ {{}}}

MCCalls(formals, f) ==
  UNION {{[callee |-> g, types |-> types] : types \in [1..formals[g] -> MCTypes(formals[f])]} :
           g \in DOMAIN formals}

\* An earlier call hands on the type parameter that a later one builds upon.
MCHidden(calls) ==
  \E k, l \in DOMAIN calls : 
    /\ k < l /\ calls[k].callee = calls[l].callee
    /\ \E i \in DOMAIN calls[k].types :
         /\ ~calls[k].types[i].con /\ calls[l].types[i].con
         /\ calls[k].types[i].params \cap calls[l].types[i].params # {}

MCBodies(formals, f, max) ==
  {calls \in UNION {[1..n -> MCCalls(formals, f)] : n \in 0..max} :
     ParameterFirst \/ ~MCHidden(calls)}

MCModule(formals, max) ==
  LET m[n \in 0..Len(formals)] ==
        IF n = 0 THEN {<<>>}
        ELSE {Append(p, [formals |-> formals[n], calls |-> calls]) :
                p \in m[n - 1], calls \in MCBodies(formals, n, max)}
  IN  m[Len(formals)]

MCFunctionModules ==
  MCModule(<<2>>, 2) \cup MCModule(<<1, 1>>, 2) \cup MCModule(<<2, 1>>, 1)
    \cup MCModule(<<2, 2>>, 1) \cup MCModule(<<1, 1, 1>>, 1)

MCPlain ==
  A :> [resource |-> FALSE, formals |-> <<>>, fields |-> <<Struct(B, <<>>)>>]
    @@ B :> [resource |-> FALSE, formals |-> <<>>, fields |-> <<Prim>>]
    @@ R :> [resource |-> TRUE, formals |-> <<>>, fields |-> <<Prim>>]

MCEndless == [MCPlain EXCEPT ![B].fields = <<Struct(A, <<>>)>>]

MCSubmitted ==
  {[structs |-> MCStructModules, functions |-> MCModule(<<1>>, 0)],
   [structs |-> {MCPlain}, functions |-> MCFunctionModules],
   [structs |-> {MCPlain, MCEndless}, functions |-> MCModule(<<1>>, 1)]}
=============================================================================
