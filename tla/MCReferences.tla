--------------------------- MODULE MCReferences ---------------------------
(* A module with a struct in a struct and a resource with a struct in it.    *)
EXTENDS References

MCFields == [S |-> [f |-> "u64"], O |-> [s |-> "S", n |-> "u64"], R |-> [r |-> "S"]]

Fn(locals, args, returns, acquires) ==
  [locals |-> locals, args |-> args, returns |-> returns, acquires |-> acquires]

\* Locals of every sort; two values and a reference to either; references that come in and go out; the storage; a
\* function that returns two references; and one to call with two.
Frame == Fn(<<Value("O"), Mut("S")>>, 1, <<>>, FALSE)
Either == Fn(<<Value("S"), Imm("S"), Value("S")>>, 1, <<>>, FALSE)
Through == Fn(<<Mut("O"), Imm("S")>>, 1, <<Mut("S")>>, FALSE)
Storage == Fn(<<Mut("S"), Imm("R")>>, 1, <<Imm("u64")>>, TRUE)
Two == Fn(<<Mut("O")>>, 1, <<Mut("S"), Imm("u64")>>, FALSE)
Mix == Fn(<<Mut("S"), Imm("u64")>>, 2, <<Imm("u64")>>, FALSE)

MCFunctions == {Frame, Either, Through, Storage, Two}
MCCallees == (Frame :> {Mix}) @@ (Either :> {}) @@ (Through :> {Through}) @@ (Storage :> {Storage}) @@ (Two :> {Mix})
=============================================================================
