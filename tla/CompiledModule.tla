--------------------------- MODULE CompiledModule ---------------------------
(***************************************************************************)
(* What is asked of the pools of a compiled module before its code is      *)
(* looked at: the bounds checker, the duplication checker, the checker of  *)
(* unused entries, and the comparison of its handles with the modules they *)
(* are imported from.  A module is a record of pools, a pool a sequence;   *)
(* an index counts from 0.  The main of a script is its only function.     *)
(***************************************************************************)
EXTENDS BinaryFormat

CONSTANT NativeFunctions       \* from <<module id, name>> to the signature the dispatcher has

At(pool, idx) == pool[idx + 1]
IMPLEMENTED_MODULE_INDEX == 0
NATIVE == 2
is_public(def) == def.flags % 2 = 1
is_native(def) == (def.flags \div NATIVE) % 2 = 1
is_declared(def) == ~def.native

\* A script as a module: its main is the only function it defines.
into_module(u) == [u EXCEPT !.function_defs = u.main \o @]

-----------------------------------------------------------------------------
(***************************************************************************)
(* The bounds checker.                                                     *)
(***************************************************************************)
check_bounds_impl(pool, idx) == idx < Len(pool)

RECURSIVE check_struct_handles(_, _)
check_struct_handles(token, struct_handles) ==
  CASE token.tag = "STRUCT" -> /\ check_bounds_impl(struct_handles, token.struct)
                               /\ \A i \in DOMAIN token.types :
                                    check_struct_handles(token.types[i], struct_handles)
    [] token.tag \in {"REFERENCE", "MUTABLE_REFERENCE"} ->
         check_struct_handles(token.reference, struct_handles)
    [] OTHER -> TRUE

RECURSIVE check_type_parameters(_, _)
check_type_parameters(token, type_formals_len) ==
  CASE token.tag = "STRUCT" ->
         \A i \in DOMAIN token.types : check_type_parameters(token.types[i], type_formals_len)
    [] token.tag \in {"REFERENCE", "MUTABLE_REFERENCE"} ->
         check_type_parameters(token.reference, type_formals_len)
    [] token.tag = "TYPE_PARAMETER" -> token.typeParameter < type_formals_len
    [] OTHER -> TRUE

check_bounds_ModuleHandle(h, u) ==
  check_bounds_impl(u.address_pool, h.address) /\ check_bounds_impl(u.identifiers, h.name)
check_bounds_StructHandle(h, u) ==
  check_bounds_impl(u.module_handles, h.module) /\ check_bounds_impl(u.identifiers, h.name)
check_bounds_FunctionHandle(h, u) ==
  /\ check_bounds_impl(u.module_handles, h.module)
  /\ check_bounds_impl(u.identifiers, h.name)
  /\ check_bounds_impl(u.function_signatures, h.signature)

check_field_range(u, field_count, first_field) == first_field + field_count <= Len(u.field_defs)

check_bounds_StructDefinition(def, u) ==
  /\ check_bounds_impl(u.struct_handles, def.struct_handle)
  /\ is_declared(def) => check_field_range(u, def.field_count, def.fields)
check_bounds_FieldDefinition(def, u) ==
  /\ check_bounds_impl(u.struct_handles, def.struct_)
  /\ check_bounds_impl(u.identifiers, def.name)
  /\ check_bounds_impl(u.type_signatures, def.signature)
check_bounds_FunctionDefinition_idle(def, u) ==
  /\ check_bounds_impl(u.function_handles, def.function)
  /\ ~is_native(def) => check_bounds_impl(u.locals_signatures, def.locals)
check_bounds_FunctionDefinition(def, u) ==
  /\ check_bounds_impl(u.function_handles, def.function)
  /\ ~is_native(def) => check_bounds_impl(u.locals_signatures, def.locals)
  /\ \A i \in DOMAIN def.acquires : check_bounds_impl(u.struct_defs, def.acquires[i])

check_bounds_SignatureToken(token, u, type_formals) ==
  check_type_parameters(token, Len(type_formals)) /\ check_struct_handles(token, u.struct_handles)
check_bounds_FunctionSignature(sig, u) ==
  \A token \in Range(sig.return_types) \union Range(sig.arg_types) :
    check_bounds_SignatureToken(token, u, sig.type_formals)

check_type_actuals_bounds(u, sig, idx) ==
  /\ check_bounds_impl(u.locals_signatures, idx)
  /\ \A token \in Range(At(u.locals_signatures, idx).tokens) :
       check_type_parameters(token, Len(sig.type_formals))

check_bounds_CodeUnit(def, u, sig) ==
  \A i \in DOMAIN def.code : LET bytecode == def.code[i] tag == def.code[i].tag IN
    /\ tag = "LD_ADDR" => check_bounds_impl(u.address_pool, bytecode.value)
    /\ tag = "LD_BYTEARRAY" => check_bounds_impl(u.byte_array_pool, bytecode.value)
    /\ tag \in OfField => check_bounds_impl(u.field_defs, bytecode.value)
    /\ tag = "CALL" => check_bounds_impl(u.function_handles, bytecode.value)
    /\ tag \in OfStruct => check_bounds_impl(u.struct_defs, bytecode.value)
    /\ tag \in OfStruct \union {"CALL"} => check_type_actuals_bounds(u, sig, bytecode.types)
    /\ tag \in Branches => check_bounds_impl(def.code, bytecode.value)
    /\ tag \in OfLocal => check_bounds_impl(At(u.locals_signatures, def.locals).tokens, bytecode.value)

BoundsChecker(u) ==
  /\ u.module_handles # <<>>
  /\ \A h \in Range(u.module_handles) : check_bounds_ModuleHandle(h, u)
  /\ \A h \in Range(u.struct_handles) : check_bounds_StructHandle(h, u)
  /\ \A h \in Range(u.function_handles) : check_bounds_FunctionHandle(h, u)
  /\ \A def \in Range(u.struct_defs) : check_bounds_StructDefinition(def, u)
  /\ \A def \in Range(u.field_defs) : check_bounds_FieldDefinition(def, u)
  /\ \A def \in Range(u.function_defs) : check_bounds_FunctionDefinition(def, u)
  /\ \A sig \in Range(u.function_signatures) : check_bounds_FunctionSignature(sig, u)
  /\ \A locals \in Range(u.locals_signatures) : \A token \in Range(locals.tokens) :
       check_struct_handles(token, u.struct_handles)
  /\ \A type \in Range(u.type_signatures) : check_struct_handles(type.token, u.struct_handles)
  \* Fields and function bodies, once the rest is found valid.
  /\ \A def \in Range(u.field_defs) :
       check_type_parameters(At(u.type_signatures, def.signature).token,
                             Len(At(u.struct_handles, def.struct_).type_formals))
  /\ \A def \in Range(u.function_defs) : ~is_native(def) =>
       check_bounds_CodeUnit(def, u, At(u.function_signatures, At(u.function_handles, def.function).signature))

-----------------------------------------------------------------------------
(***************************************************************************)
(* The duplication checker.                                                *)
(***************************************************************************)
Distinct(pool) == \A i, j \in DOMAIN pool : pool[i] = pool[j] => i = j
Named(handles) == [i \in DOMAIN handles |-> <<handles[i].module, handles[i].name>>]

fields_consistent_anywhere(u) ==
  LET declared == SelectSeq(u.struct_defs, is_declared)
      start(i) == FoldLeft(LAMBDA n, def : n + def.field_count, 0, SubSeq(declared, 1, i - 1)) IN
  \A i \in DOMAIN declared : LET def == declared[i] IN
    \A n \in start(i) .. start(i) + def.field_count - 1 :
      At(u.field_defs, n).struct_ = def.struct_handle
\* Each declared struct has the fields behind those of the structs before it.
fields_consistent(u) ==
  LET declared == SelectSeq(u.struct_defs, is_declared)
      start(i) == FoldLeft(LAMBDA n, def : n + def.field_count, 0, SubSeq(declared, 1, i - 1)) IN
  \A i \in DOMAIN declared : LET def == declared[i] IN
    /\ def.fields = start(i)
    /\ \A n \in start(i) .. start(i) + def.field_count - 1 :
         At(u.field_defs, n).struct_ = def.struct_handle

\* What the module defines are the handles of its own, all of them.
handles_implemented(u) ==
  /\ \A def \in Range(u.struct_defs) :
       At(u.struct_handles, def.struct_handle).module = IMPLEMENTED_MODULE_INDEX
  /\ \A def \in Range(u.function_defs) :
       At(u.function_handles, def.function).module = IMPLEMENTED_MODULE_INDEX
  /\ \A i \in DOMAIN u.struct_handles : u.struct_handles[i].module = IMPLEMENTED_MODULE_INDEX =>
       \E def \in Range(u.struct_defs) : def.struct_handle = i - 1
  /\ \A i \in DOMAIN u.function_handles : u.function_handles[i].module = IMPLEMENTED_MODULE_INDEX =>
       \E def \in Range(u.function_defs) : def.function = i - 1

DuplicationChecker(u) ==
  /\ Distinct(u.identifiers) /\ Distinct(u.byte_array_pool) /\ Distinct(u.address_pool)
  /\ Distinct(u.type_signatures) /\ Distinct(u.function_signatures) /\ Distinct(u.locals_signatures)
  /\ Distinct(u.module_handles)
  /\ Distinct(Named(u.struct_handles)) /\ Distinct(Named(u.function_handles))
  /\ Distinct([i \in DOMAIN u.struct_defs |-> u.struct_defs[i].struct_handle])
  /\ Distinct([i \in DOMAIN u.function_defs |-> u.function_defs[i].function])
  /\ \A def \in Range(u.function_defs) : Distinct(def.acquires)
  /\ Distinct([i \in DOMAIN u.field_defs |-> <<u.field_defs[i].struct_, u.field_defs[i].name>>])
  /\ \A def \in Range(u.struct_defs) : is_declared(def) => def.field_count # 0
  /\ fields_consistent(u)
  /\ handles_implemented(u)

(***************************************************************************)
(* The checker of unused entries, which verifies nothing by itself.        *)
(***************************************************************************)
traverse_struct_defs(u) ==
  UNION {def.fields .. def.fields + def.field_count - 1 : def \in {d \in Range(u.struct_defs) : is_declared(d)}}
traverse_function_defs(u) ==
  UNION {{def.locals} \union {def.code[i].types : i \in {j \in DOMAIN def.code : def.code[j].tag \in OfStruct \union {"CALL"}}}
         : def \in {d \in Range(u.function_defs) : ~is_native(d)}}
UnusedEntryChecker(u) ==
  /\ \A i \in DOMAIN u.field_defs : i - 1 \in traverse_struct_defs(u)
  /\ \A i \in DOMAIN u.locals_signatures : i - 1 \in traverse_function_defs(u)
  /\ \A i \in DOMAIN u.type_signatures :
       \E n \in traverse_struct_defs(u) : At(u.field_defs, n).signature = i - 1

-----------------------------------------------------------------------------
(***************************************************************************)
(* Dependencies.  A dependency is a verified module.                       *)
(***************************************************************************)
module_id_for_handle(u, h) == <<At(u.address_pool, h.address), At(u.identifiers, h.name)>>
self_id(u) == module_id_for_handle(u, u.module_handles[1])
module_id(u, handle) == module_id_for_handle(u, At(u.module_handles, handle.module))
name(u, handle) == At(u.identifiers, handle.name)

\* The positions of the definitions of that name: at most one in a verified module.
struct_definition(u, n) ==
  {i \in DOMAIN u.struct_defs : name(u, At(u.struct_handles, u.struct_defs[i].struct_handle)) = n}
function_definition(u, n) ==
  {i \in DOMAIN u.function_defs : name(u, At(u.function_handles, u.function_defs[i].function)) = n}

Failed == [tag |-> "FAILED"]

RECURSIVE import_signature_token(_, _, _)
\* The struct handle of u that names what the token of dependency d names.
import_signature_token(u, d, token) ==
  CASE token.tag = "STRUCT" ->
         LET handle == At(d.struct_handles, token.struct)
             same == {i \in DOMAIN u.struct_handles :
                        /\ module_id(u, u.struct_handles[i]) = module_id(d, handle)
                        /\ name(u, u.struct_handles[i]) = name(d, handle)
                        /\ u.struct_handles[i].is_nominal_resource = handle.is_nominal_resource
                        /\ u.struct_handles[i].type_formals = handle.type_formals}
             types == [i \in DOMAIN token.types |-> import_signature_token(u, d, token.types[i])] IN
         IF same = {} \/ Failed \in Range(types) THEN Failed
         ELSE [tag |-> "STRUCT", struct |-> (CHOOSE i \in same : TRUE) - 1, types |-> types]
    [] token.tag \in {"REFERENCE", "MUTABLE_REFERENCE"} ->
         LET t == import_signature_token(u, d, token.reference) IN
         IF t = Failed THEN Failed ELSE [tag |-> token.tag, reference |-> t]
    [] token.tag = "VECTOR" ->
         LET t == import_signature_token(u, d, token.vector_type) IN
         IF t = Failed THEN Failed ELSE [tag |-> "VECTOR", vector_type |-> t]
    [] OTHER -> token

import_function_signature(u, d, sig) ==
  [sig EXCEPT !.return_types = [i \in DOMAIN @ |-> import_signature_token(u, d, @[i])],
              !.arg_types = [i \in DOMAIN @ |-> import_signature_token(u, d, @[i])]]

\* The handles of u that are of d, unless d is u itself.
OfDependency(u, handles, d) ==
  {h \in Range(handles) : self_id(u) # self_id(d) /\ module_id(u, h) = self_id(d)}

\* A name the dependency does not define is looked up in a dictionary without a default.
raises_key_error(u, d) ==
  \/ \E h \in OfDependency(u, u.struct_handles, d) : struct_definition(d, name(u, h)) = {}
  \/ \E h \in OfDependency(u, u.function_handles, d) : function_definition(d, name(u, h)) = {}

verify_struct_kind(u, d) ==
  \A h \in OfDependency(u, u.struct_handles, d) : \A i \in struct_definition(d, name(u, h)) :
    LET defined == At(d.struct_handles, d.struct_defs[i].struct_handle) IN
    h.is_nominal_resource = defined.is_nominal_resource /\ h.type_formals = defined.type_formals

SignatureOf(u, h) == At(u.function_signatures, h.signature)
verify_function_visibility_and_type_here(u, d) ==
  \A h \in OfDependency(u, u.function_handles, d) : \A i \in function_definition(d, name(u, h)) :
    /\ is_public(d.function_defs[i])
    /\ SignatureOf(d, At(d.function_handles, d.function_defs[i].function)) = SignatureOf(u, h)
verify_function_visibility_and_type(u, d) ==
  \A h \in OfDependency(u, u.function_handles, d) : \A i \in function_definition(d, name(u, h)) :
    /\ is_public(d.function_defs[i])
    /\ import_function_signature(u, d, SignatureOf(d, At(d.function_handles, d.function_defs[i].function)))
       = SignatureOf(u, h)

verify_all_dependencies_provided(u, d) ==
  \A i \in 2 .. Len(u.module_handles) :
    self_id(u) # self_id(d) /\ module_id_for_handle(u, u.module_handles[i]) = self_id(d)

verify_native_functions(u) ==
  \A def \in Range(u.function_defs) : is_native(def) =>
    LET h == At(u.function_handles, def.function) key == <<self_id(u), name(u, h)>> IN
    key \in DOMAIN NativeFunctions /\ NativeFunctions[key] = SignatureOf(u, h)

verify_module_dependencies(u, d) ==
  /\ verify_struct_kind(u, d)
  /\ verify_function_visibility_and_type(u, d)
  /\ verify_all_dependencies_provided(u, d)
  /\ verify_native_functions(u)

verify_main_signature(u) ==
  u.main # <<>> =>
    LET sig == SignatureOf(u, At(u.function_handles, u.main[1].function)) IN
    /\ sig.return_types = <<>>
    /\ \A token \in Range(sig.arg_types) :
         \/ token.tag \in {"BOOL", "U8", "U64", "U128", "ADDRESS"}
         \/ token.tag = "VECTOR" /\ token.vector_type = [tag |-> "U8"]
=============================================================================
