------------------------------ MODULE MCBinary ------------------------------
EXTENDS Binary

U64 == [tag |-> "U64"]
U8 == [tag |-> "U8"]
Struct(i, types) == [tag |-> "STRUCT", struct |-> i, types |-> types]
Ref(t) == [tag |-> "REFERENCE", reference |-> t]
Vector(t) == [tag |-> "VECTOR", vector_type |-> t]
Param(i) == [tag |-> "TYPE_PARAMETER", typeParameter |-> i]
Op(tag) == [tag |-> tag]
Op1(tag, v) == [tag |-> tag, value |-> v]
Op2(tag, v, types) == [tag |-> tag, value |-> v, types |-> types]
Locals(tokens) == [type |-> 3, tokens |-> tokens]
Type(token) == [type |-> 1, token |-> token]
Signature(args, returns, formals) ==
  [type |-> 2, arg_types |-> args, return_types |-> returns, type_formals |-> formals]
Handle(module, n) == [module |-> module, name |-> n]
StructHandle(module, n, resource, formals) ==
  Handle(module, n) @@ [is_nominal_resource |-> resource, type_formals |-> formals]
FunctionHandle(module, n, sig) == Handle(module, n) @@ [signature |-> sig]
Def(function, flags, acquires, locals, code) ==
  [function |-> function, flags |-> flags, acquires |-> acquires, max_stack_size |-> 2,
   locals |-> locals, code |-> code]
StructDef(handle, count, first) ==
  [struct_handle |-> handle, native |-> FALSE, field_count |-> count, fields |-> first]
Field(struct, n, sig) == [struct_ |-> struct, name |-> n, signature |-> sig]

\* module D { resource R { x }, struct S<T: all> { x }, f(&S<u64>, vector<R>): R, g() private }
D == [Empty EXCEPT
  !.address_pool = << <<9, 9>> >>,
  !.identifiers = << <<68>>, <<82>>, <<83>>, <<120>>, <<102>>, <<103>> >>,
  !.module_handles = << [address |-> 0, name |-> 0] >>,
  !.struct_handles = << StructHandle(0, 1, TRUE, <<>>), StructHandle(0, 2, FALSE, <<"All">>) >>,
  !.function_handles = << FunctionHandle(0, 4, 0), FunctionHandle(0, 5, 1) >>,
  !.type_signatures = << Type(U64) >>,
  !.function_signatures = << Signature(<<Ref(Struct(1, <<U64>>)), Vector(Struct(0, <<>>))>>, <<Struct(0, <<>>)>>, <<>>),
                             Signature(<<>>, <<>>, <<>>) >>,
  !.locals_signatures = << Locals(<<Ref(Struct(1, <<U64>>)), Vector(Struct(0, <<>>))>>), Locals(<<>>) >>,
  !.struct_defs = << StructDef(0, 1, 0), StructDef(1, 1, 1) >>,
  !.field_defs = << Field(0, 3, 0), Field(1, 3, 0) >>,
  !.function_defs = << Def(0, 1, <<>>, 0, <<Op("RET")>>), Def(1, 0, <<>>, 1, <<Op("RET")>>) >>]

\* module M { import D; struct T { a: u8, b: D.S<u64> }, k() acquires T, native n() }
M == [Empty EXCEPT
  !.address_pool = << <<9, 9>>, <<7, 0>> >>,
  !.identifiers = << <<77>>, <<68>>, <<84>>, <<83>>, <<82>>, <<102>>, <<97>>, <<107>>, <<110>> >>,
  !.byte_array_pool = << <<200>> >>,
  !.module_handles = << [address |-> 1, name |-> 0], [address |-> 0, name |-> 1] >>,
  !.struct_handles = << StructHandle(0, 2, TRUE, <<>>), StructHandle(1, 3, FALSE, <<"All">>),
                        StructHandle(1, 4, TRUE, <<>>) >>,
  !.function_handles = << FunctionHandle(0, 7, 0), FunctionHandle(1, 5, 1), FunctionHandle(0, 8, 0) >>,
  !.type_signatures = << Type(U8), Type(Struct(1, <<U64>>)) >>,
  !.function_signatures = << Signature(<<>>, <<>>, <<>>),
    Signature(<<Ref(Struct(1, <<U64>>)), Vector(Struct(2, <<>>))>>, <<Struct(2, <<>>)>>, <<>>) >>,
  !.locals_signatures = << Locals(<<U64, Ref(Struct(0, <<>>))>>), Locals(<<>>) >>,
  !.struct_defs = << StructDef(0, 2, 0) >>,
  !.field_defs = << Field(0, 6, 0), Field(0, 7, 1) >>,
  !.function_defs = <<
    Def(0, 1, <<0>>, 0, << Op1("LD_U64", 300), Op1("ST_LOC", 0), Op2("IMM_BORROW_GLOBAL", 0, 1),
       Op1("IMM_BORROW_FIELD", 0), Op2("CALL", 1, 1), Op1("LD_ADDR", 1), Op1("LD_BYTEARRAY", 0),
       Op1("BR_TRUE", 8), Op("RET") >>),
    Def(2, 2, <<>>, 0, <<>>) >>]

\* The handle of D's f with another signature, of D's g, and of a function that D has not.
Swapped == [M EXCEPT !.function_signatures[2].arg_types = <<@[2], @[1]>>]
Numbered == [M EXCEPT !.function_signatures[2] = Signature(<<Ref(Struct(1, <<U64>>)), Vector(Struct(0, <<>>))>>, <<Struct(0, <<>>)>>, <<>>)]
Private == [M EXCEPT !.identifiers[6] = <<103>>, !.function_handles[2].signature = 0]
Missing == [M EXCEPT !.identifiers[6] = <<122>>]
Copyable == [M EXCEPT !.struct_handles[3].is_nominal_resource = FALSE]
Unused == [M EXCEPT !.field_defs = @ \o <<Field(0, 8, 0)>>]

\* A script over D.
Script == [M EXCEPT !.struct_defs = <<>>, !.field_defs = <<>>, !.function_defs = <<>>,
  !.struct_handles = <<@[2], @[3]>>, !.type_signatures = <<>>,
  !.function_handles = << FunctionHandle(0, 7, 0), FunctionHandle(1, 5, 1) >>,
  !.function_signatures[1] = Signature(<<U64, Vector(U8)>>, <<>>, <<>>),
  !.function_signatures[2] =
    Signature(<<Ref(Struct(0, <<U64>>)), Vector(Struct(1, <<>>))>>, <<Struct(1, <<>>)>>, <<>>),
  !.locals_signatures = << Locals(<<U64, Vector(U8)>>), Locals(<<>>) >>,
  !.main = << Def(0, 1, <<>>, 0, <<Op2("CALL", 1, 1), Op("RET")>>) >>]

\* Every operand there is, at the numbers where its encoding grows, in a module out of bounds.
Sizes == {0, 127, 128, 255, 256, 16383, 16384, 65535}
AllOps(n) == [i \in DOMAIN Opcodes |-> LET t == Opcodes[i] IN
  IF t \in OfStruct \union {"CALL"} THEN Op2(t, n, n)
  ELSE IF t \in OfLocal \union {"LD_U8"} THEN Op1(t, n % 256)
  ELSE IF t \in OfField \union Branches \union {"LD_U64", "LD_U128", "LD_ADDR", "LD_BYTEARRAY"} THEN Op1(t, n)
  ELSE Op(t)]
Wide(n) == [M EXCEPT !.module_handles[1] = [address |-> n, name |-> n],
  !.struct_defs[1] = StructDef(n, n, n), !.struct_handles[1].module = n,
  !.struct_defs = <<[struct_handle |-> n, native |-> TRUE, field_count |-> 0, fields |-> 0]>> \o @,
  !.type_signatures[1] = Type(Struct(n, [i \in 1 .. (n % 128) |-> Param(n)])),
  !.locals_signatures[1] = Locals([i \in 1 .. (n % 131) |-> U8]),
  !.struct_handles[2].type_formals = [i \in 1 .. (n % 131) |-> "Resource"],
  !.identifiers[1] = [i \in 1 .. (n % 131) |-> 90],
  !.function_defs[1] = Def(n, n % 256, <<n, n>>, n, AllOps(n))]
WideScript(n) == [Script EXCEPT !.main[1] = Def(n, n % 256, <<n>>, n, AllOps(n))]

MCUnits == {D, M, Swapped, Numbered, Private, Missing, Copyable, Unused, Script}
           \union {Wide(n) : n \in Sizes} \union {WideScript(n) : n \in Sizes}
MCDamaged == {D, M, Script}
MCNatives == (<< << <<7, 0>>, <<77>> >>, <<110>> >> :> Signature(<<>>, <<>>, <<>>))
=============================================================================
