----------------------------- MODULE IRCompiler -----------------------------
(***************************************************************************)
(* The compiler from syntax trees of the IR to compiled modules.           *)
(*                                                                         *)
(* The context K is what the compiler changes as it goes: the pools, what  *)
(* the names declared so far stand for, and the function being compiled.   *)
(* Every operation takes it and returns it, with its result in v.  An      *)
(* operation that fails sets bailed, after which nothing else counts.      *)
(***************************************************************************)
EXTENDS CompiledModule, IRSyntax

CONSTANTS TABLE_MAX_SIZE, LOCALS_MAX     \* the most entries of a pool, the most locals

Bail(K) == [K EXCEPT !.bailed = TRUE, !.v = None]
Lookup(K, map, key) == IF key \in DOMAIN map THEN Ret(K, map[key]) ELSE Bail(K)
Position(pool, item) == (CHOOSE i \in DOMAIN pool : pool[i] = item) - 1
get_or_add_item(K, pool, item) ==
  IF item \in Range(K[pool]) THEN Ret(K, Position(K[pool], item))
  ELSE IF Len(K[pool]) >= TABLE_MAX_SIZE THEN Bail(K)
  ELSE Ret([K EXCEPT ![pool] = Append(@, item)], Len(K[pool]))

\* What comes next, unless it failed.
Then(K, Op(_)) == IF K.bailed THEN Bail(K) ELSE Op(K)
\* Op for each of the items, one after the other; MapK has the results in a sequence.
FoldK(K, items, Op(_, _)) == FoldLeft(LAMBDA acc, x : Then(acc, LAMBDA k : Op(k, x)), K, items)
Collected(done, K) == IF K.bailed THEN K ELSE Ret(K, Append(done, K.v))
MapK(K, items, Op(_, _)) == FoldK(Ret(K, <<>>), items, LAMBDA k, x : Collected(k.v, Op(k, x)))

-----------------------------------------------------------------------------
(***************************************************************************)
(* A dependency: a compiled module, of which some things are looked up.    *)
(***************************************************************************)
CompiledDependency(d) ==
  LET named == [i \in DOMAIN d.struct_handles |-> LET h == d.struct_handles[i] IN
                  <<name(d, At(d.module_handles, h.module)), name(d, h)>>]
      FirstOf(s) == FoldLeft(LAMBDA acc, x : IF x \in Range(acc) THEN acc ELSE Append(acc, x), <<>>, s)
      structs == FirstOf(named)
      defined == {h \in Range(d.function_handles) : h.module = IMPLEMENTED_MODULE_INDEX} IN
  [of |-> d,
   structs |-> [s \in Range(structs) |-> d.struct_handles[Position(structs, s) + 1]],
   functions |-> [f \in {name(d, h) : h \in defined} |->
                    SignatureOf(d, CHOOSE h \in defined : name(d, h) = f)]]
source_struct_info(dep, idx) ==
  LET h == At(dep.of.struct_handles, idx) IN <<module_id(dep.of, h), name(dep.of, h)>>

-----------------------------------------------------------------------------
(***************************************************************************)
(* Declarations.  A module is identified by <<address, name>>, and called  *)
(* by an alias; a struct and a function by <<alias, name>>.                *)
(***************************************************************************)
declare_import(K, qid, alias) ==
  Then(get_or_add_item(K, "address_pool", qid[1]), LAMBDA a :
  Then(get_or_add_item(a, "identifiers", qid[2]), LAMBDA n :
    LET handle == [address |-> a.v, name |-> n.v] IN
    get_or_add_item([n EXCEPT !.aliases = (qid :> alias) @@ @,
                              !.modules = (alias :> [qid |-> qid, handle |-> handle]) @@ @],
                    "module_handles", handle)))

module_ident(K, alias) == Then(Lookup(K, K.modules, alias), LAMBDA m : Ret(m, m.v.qid))
module_handle_index(K, alias) ==
  Then(Lookup(K, K.modules, alias), LAMBDA m : Ret(m, Position(K.module_handles, m.v.handle)))

declare_struct_handle_index(K, sname, is_nominal_resource, type_formals) ==
  Then(module_handle_index(K, sname[1]), LAMBDA m :
  Then(get_or_add_item(m, "identifiers", sname[2]), LAMBDA n :
    LET handle == [module |-> m.v, name |-> n.v, is_nominal_resource |-> is_nominal_resource,
                   type_formals |-> type_formals] IN
    get_or_add_item([n EXCEPT !.structs = (sname :> handle) @@ @], "struct_handles", handle)))

\* The first declaration of a name counts.
declare_struct_definition_index(K, s) ==
  IF s \in Range(K.struct_defs) THEN Ret(K, Position(K.struct_defs, s))
  ELSE Ret([K EXCEPT !.struct_defs = Append(@, s)], Len(K.struct_defs))
struct_definition_index(K, s) ==
  IF s \in Range(K.struct_defs) THEN Ret(K, Position(K.struct_defs, s)) ELSE Bail(K)

Keys(declared) == {declared[i].key : i \in DOMAIN declared}
Entry(declared, key) == CHOOSE i \in DOMAIN declared : declared[i].key = key

declare_field(K, s, f, token, decl_order) ==
  IF <<s, f>> \in Keys(K.fields) THEN K
  ELSE [K EXCEPT !.fields = Append(@, [key |-> <<s, f>>, token |-> token, decl_order |-> decl_order])]
\* The definition of field f of struct handle s: its index, type and place.
field(K, s, f) ==
  IF <<s, f>> \notin Keys(K.fields) THEN Bail(K)
  ELSE LET i == Entry(K.fields, <<s, f>>) IN
       Ret(K, [idx |-> i - 1, token |-> K.fields[i].token, decl_order |-> K.fields[i].decl_order])

\* The last declaration counts, at the place of the first.
declare_function(K, m_f, signature) ==
  Then(module_handle_index(K, m_f[1]), LAMBDA m :
  Then(get_or_add_item(m, "identifiers", m_f[2]), LAMBDA n :
  Then(get_or_add_item(n, "function_signatures", signature), LAMBDA s :
    LET entry == [key |-> m_f, handle |-> [module |-> m.v, name |-> n.v, signature |-> s.v], signature |-> signature] IN
    IF m_f \in Keys(K.functions) THEN [s EXCEPT !.functions[Entry(K.functions, m_f)] = entry]
    ELSE [s EXCEPT !.functions = Append(@, entry)])))

-----------------------------------------------------------------------------
(***************************************************************************)
(* What is used of a dependency is declared when it is used first.         *)
(***************************************************************************)
dependency(K, qid) == Lookup(K, K.dependencies, qid)
dependency_of(K, alias) == Then(module_ident(K, alias), LAMBDA m : dependency(m, m.v))

\* The dependency is asked for the struct under the alias it has here.
dep_struct_handle(K, s) ==
  IF s[1] = Self THEN Bail(K)
  ELSE Then(dependency_of(K, s[1]), LAMBDA dep : Lookup(dep, dep.v.structs, s))

struct_handle_index(K, s) ==
  IF s \in DOMAIN K.structs THEN Ret(K, Position(K.struct_handles, K.structs[s]))
  ELSE Then(dep_struct_handle(K, s), LAMBDA h :
         declare_struct_handle_index(h, s, h.v.is_nominal_resource, h.v.type_formals))

reindex_signature_token_idle(K, dep, orig) == Ret(K, orig)
RECURSIVE reindex_signature_token(_, _, _)
\* A token of the dependency in terms of the handles of the module being compiled.
reindex_signature_token(K, dep, orig) ==
  CASE orig.tag = "VECTOR" ->
         Then(reindex_signature_token(K, dep, orig.vector_type), LAMBDA k :
           Ret(k, [tag |-> "VECTOR", vector_type |-> k.v]))
    [] orig.tag \in {"REFERENCE", "MUTABLE_REFERENCE"} ->
         Then(reindex_signature_token(K, dep, orig.reference), LAMBDA k :
           Ret(k, [tag |-> orig.tag, reference |-> k.v]))
    [] orig.tag = "STRUCT" ->
         LET info == source_struct_info(K.dependencies[dep], orig.struct) IN
         Then(Lookup(K, K.aliases, info[1]), LAMBDA alias :
         Then(struct_handle_index(alias, <<alias.v, info[2]>>), LAMBDA sh :
         Then(MapK(sh, orig.types, LAMBDA k, t : reindex_signature_token(k, dep, t)), LAMBDA inners :
           Ret(inners, [tag |-> "STRUCT", struct |-> sh.v, types |-> inners.v]))))
    [] OTHER -> Ret(K, orig)

reindex_function_signature(K, dep, orig) ==
  LET reindex(k, t) == reindex_signature_token(k, dep, t) IN
  Then(MapK(K, orig.return_types, reindex), LAMBDA returns :
  Then(MapK(returns, orig.arg_types, reindex), LAMBDA args :
    Ret(args, [orig EXCEPT !.return_types = returns.v, !.arg_types = args.v])))

dep_function_signature(K, m_f) ==
  IF m_f[1] = Self THEN Bail(K)
  ELSE Then(module_ident(K, m_f[1]), LAMBDA m :
       Then(dependency(m, m.v), LAMBDA dep :
         IF m_f[2] \notin DOMAIN dep.v.functions THEN Bail(K)
         ELSE reindex_function_signature(dep, m.v, dep.v.functions[m_f[2]])))

\* The index of a function's handle, and its signature.
function_handle(K, m_f) ==
  Then(IF m_f \in Keys(K.functions) THEN K
       ELSE Then(dep_function_signature(K, m_f), LAMBDA sig : declare_function(sig, m_f, sig.v)), LAMBDA declared :
    LET i == Entry(declared.functions, m_f) IN
    Ret(declared, [idx |-> i - 1, signature |-> declared.functions[i].signature]))

-----------------------------------------------------------------------------
(***************************************************************************)
(* Types.                                                                  *)
(***************************************************************************)
Bound(formals) == [i \in DOMAIN formals |-> formals[i][1]]
type_parameter_indexes(K, formals) ==
  IF Cardinality(Range(Bound(formals))) < Len(formals) THEN Bail(K)
  ELSE Ret([K EXCEPT !.type_parameters = Bound(formals)], Bound(formals))
type_parameter_kinds(formals) == [i \in DOMAIN formals |-> formals[i][2]]

RECURSIVE compile_type(_, _)
compile_type(K, ty) ==
  CASE ty.tag = "VECTOR" ->
         Then(compile_type(K, ty.vector_type), LAMBDA k : Ret(k, [tag |-> "VECTOR", vector_type |-> k.v]))
    [] ty.tag = "REFERENCE" ->
         Then(compile_type(K, ty.reference), LAMBDA k :
           Ret(k, [tag |-> IF ty.mutable THEN "MUTABLE_REFERENCE" ELSE "REFERENCE", reference |-> k.v]))
    [] ty.tag = "STRUCT" ->
         Then(struct_handle_index(K, ty.ident), LAMBDA sh :
         Then(MapK(sh, ty.types, LAMBDA k, t : compile_type(k, t)), LAMBDA tys :
           Ret(tys, [tag |-> "STRUCT", struct |-> sh.v, types |-> tys.v])))
    [] ty.tag = "TYPE_PARAMETER" ->
         IF ty.name \in Range(K.type_parameters)
         THEN Ret(K, [tag |-> "TYPE_PARAMETER", typeParameter |-> Position(K.type_parameters, ty.name)])
         ELSE Bail(K)
    [] OTHER -> Ret(K, ty)
compile_types(K, tys) == MapK(K, tys, LAMBDA k, t : compile_type(k, t))

function_signature(K, f) ==
  Then(type_parameter_indexes(K, f.type_formals), LAMBDA m :
  Then(compile_types(m, f.return_type), LAMBDA returns :
  Then(compile_types(returns, [i \in DOMAIN f.formals |-> f.formals[i][2]]), LAMBDA args :
    Ret(args, [type |-> SignatureType.FUNCTION_SIGNATURE, return_types |-> returns.v, arg_types |-> args.v,
               type_formals |-> type_parameter_kinds(f.type_formals)]))))
locals_signature_index(K, tokens) ==
  get_or_add_item(K, "locals_signatures", [type |-> SignatureType.LOCAL_SIGNATURE, tokens |-> tokens])

\* The inferred types are signature tokens, and one for what the compiler cannot tell.
Anything == [tag |-> "Anything"]
Of(tag) == [tag |-> tag]
References == {"REFERENCE", "MUTABLE_REFERENCE"}
RefTo(mutable, t) == [tag |-> IF mutable THEN "MUTABLE_REFERENCE" ELSE "REFERENCE", reference |-> t]

RECURSIVE from_signature_token_with_subst(_, _)
from_signature_token_with_subst(subst, token) ==
  CASE token.tag = "VECTOR" ->
         [tag |-> "VECTOR", vector_type |-> from_signature_token_with_subst(subst, token.vector_type)]
    [] token.tag = "STRUCT" ->
         [token EXCEPT !.types = [i \in DOMAIN @ |-> from_signature_token_with_subst(subst, @[i])]]
    [] token.tag \in References -> [token EXCEPT !.reference = from_signature_token_with_subst(subst, @)]
    [] token.tag = "TYPE_PARAMETER" ->
         IF token.typeParameter < Len(subst) THEN At(subst, token.typeParameter) ELSE token
    [] OTHER -> token
RECURSIVE get_struct_handle(_)
get_struct_handle(t) == IF t.tag \in References THEN get_struct_handle(t.reference) ELSE t
infer_int_bin_op_result_ty_wide(tys1, tys2) == Of("U64")
infer_int_bin_op_result_ty(tys1, tys2) ==
  IF Len(tys1) = 1 /\ tys1 = tys2 /\ tys1[1].tag \in {"U8", "U64", "U128"} THEN tys1[1] ELSE Anything

-----------------------------------------------------------------------------
(***************************************************************************)
(* The frame of the function being compiled.                               *)
(***************************************************************************)
push(K) == [K EXCEPT !.depth = @ + 1, !.max_depth = IF @ > K.depth THEN @ ELSE K.depth + 1]
pop(K) == [K EXCEPT !.depth = @ - 1]
pops(K, n) == [K EXCEPT !.depth = @ - n]
get_local(K, var) == IF var \in Range(K.locls) THEN Ret(K, Position(K.locls, var)) ELSE Bail(K)
define_local(K, var, type) ==
  IF Len(K.locls) >= LOCALS_MAX \/ var \in Range(K.locls) THEN Bail(K)
  ELSE [K EXCEPT !.locls = Append(@, var), !.local_types = Append(@, type)]
push_instr(K, instr) == [K EXCEPT !.code = Append(@, instr)]
Op0(tag) == [tag |-> tag]
Op1(tag, x) == [tag |-> tag, value |-> x]
Op2(tag, x, types) == [tag |-> tag, value |-> x, types |-> types]
Here(K) == Len(K.code)                                     \* where the next instruction will be
patch(K, at, instr) == [K EXCEPT !.code[at + 1] = instr]   \* a placeholder gets its target
push_loop(K) == [K EXCEPT !.loops = Append(@, [start |-> Here(K), breaks |-> {}])]
pop_loop_early(K) ==
  LET end == Op1("BRANCH", Here(K) - 1) breaks == Last(K.loops).breaks IN
  [K EXCEPT !.code = [i \in DOMAIN @ |-> IF i - 1 \in breaks THEN end ELSE @[i]], !.loops = Front(@)]
\* The breaks of the innermost loop go behind it.
pop_loop(K) ==
  LET end == Op1("BRANCH", Here(K)) breaks == Last(K.loops).breaks IN
  [K EXCEPT !.code = [i \in DOMAIN @ |-> IF i - 1 \in breaks THEN end ELSE @[i]], !.loops = Front(@)]

-----------------------------------------------------------------------------
(***************************************************************************)
(* Expressions.  v is the inferred types of what they leave on the stack.  *)
(***************************************************************************)
\* Type actuals: their tokens, and the index of the signature they make.
type_actuals(K, tys) ==
  Then(compile_types(K, tys), LAMBDA types :
  Then(locals_signature_index(types, types.v), LAMBDA id : Ret(id, [idx |-> id.v, tokens |-> types.v])))
\* A struct of this module, with type actuals.
own_struct(K, s, tys) ==
  Then(type_actuals(K, tys), LAMBDA actuals :
  Then(struct_definition_index(actuals, s), LAMBDA def :
  Then(struct_handle_index(def, <<Self, s>>), LAMBDA sh :
    Ret(sh, [def |-> def.v, actuals |-> actuals.v.idx,
             type |-> [tag |-> "STRUCT", struct |-> sh.v, types |-> actuals.v.tokens]]))))
\* An instruction that takes one.
OfStructInstr(K, tag, s, tys) ==
  Then(own_struct(K, s, tys), LAMBDA own : Ret(push_instr(own, Op2(tag, own.v.def, own.v.actuals)), own.v.type))

BuiltinOps == [Exists |-> "EXISTS", BorrowGlobal |-> "IMM_BORROW_GLOBAL", BorrowGlobalMut |-> "MUT_BORROW_GLOBAL",
  GetTxnSender |-> "GET_TXN_SENDER", MoveFrom |-> "MOVE_FROM", MoveToSender |-> "MOVE_TO",
  Freeze |-> "FREEZE_REF", ToU8 |-> "CAST_U8", ToU64 |-> "CAST_U64", ToU128 |-> "CAST_U128"]

compile_builtin(K, f, actuals) ==
  Then(IF f.tag \in OfStructs THEN OfStructInstr(K, BuiltinOps[f.tag], f.name, f.types)
       ELSE Ret(push_instr(K, Op0(BuiltinOps[f.tag])), None), LAMBDA k :
    IF f.tag = "Freeze" /\ actuals = <<>> THEN Bail(K)
    ELSE Ret(IF f.tag \in {"GetTxnSender", "MoveToSender"} THEN push(k) ELSE push(pop(k)),
             CASE f.tag = "GetTxnSender" -> << Of("ADDRESS") >>
               [] f.tag = "Exists" -> << Of("BOOL") >>
               [] f.tag \in {"BorrowGlobal", "BorrowGlobalMut"} -> << RefTo(f.tag = "BorrowGlobalMut", k.v) >>
               [] f.tag = "MoveFrom" -> << k.v >>
               [] f.tag = "MoveToSender" -> <<>>
               [] f.tag = "Freeze" -> << RefTo(FALSE, IF Last(actuals).tag \in References
                                                      THEN Last(actuals).reference ELSE Anything) >>
               [] f.tag = "ToU8" -> << Of("U8") >>
               [] f.tag = "ToU64" -> << Of("U64") >>
               [] f.tag = "ToU128" -> << Of("U128") >>))

compile_call(K, call, actuals) ==
  CASE call.call = "Builtin" -> compile_builtin(K, call, actuals)
    [] call.call = "Module" ->
         Then(type_actuals(K, call.types), LAMBDA tys :
         Then(function_handle(tys, <<call.module, call.name>>), LAMBDA f :
           Ret(push(pops(push_instr(f, Op2("CALL", f.v.idx, tys.v.idx)), Len(actuals))),
               [i \in DOMAIN f.v.signature.return_types |->
                  from_signature_token_with_subst(tys.v.tokens, f.v.signature.return_types[i])])))

compile_value(K, e) ==
  LET pooled(pool, tag, t) == Then(get_or_add_item(K, pool, e.value), LAMBDA i :
                                Ret(push(push_instr(i, Op1(tag, i.v))), << t >>)) IN
  CASE e.type = "ADDRESS" -> pooled("address_pool", "LD_ADDR", Of("ADDRESS"))
    [] e.type = "BYTEARRAY" -> pooled("byte_array_pool", "LD_BYTEARRAY", [tag |-> "VECTOR", vector_type |-> Of("U8")])
    [] e.type = "BOOL" -> Ret(push(push_instr(K, Op0(IF e.value = 1 THEN "LD_TRUE" ELSE "LD_FALSE"))), << Of("BOOL") >>)
    [] OTHER -> Ret(push(push_instr(K, Op1("LD_" \o e.type, e.value))), << Of(e.type) >>)

Arithmetic == {"ADD", "SUB", "MUL", "MOD", "DIV", "BIT_OR", "BIT_AND", "XOR"}
Shifts == {"SHL", "SHR"}

RECURSIVE compile_expression_(_, _)
\* An expression, and of which types the instruction that ends it leaves values.
Inferred(K, k) ==
  IF k.bailed \/ Here(k) = Here(K) THEN k
  ELSE [k EXCEPT !.inferred = @ \union {[at |-> Here(k) - 1, types |-> k.v]}]
compile_expression(K, e) == IF K.bailed THEN K ELSE Inferred(K, compile_expression_(K, e))

\* The fields of a pack, in the order of their definition.
compile_fields_of(K, sh_idx, fields) ==
  FoldK(K, [i \in DOMAIN fields |-> i], LAMBDA k, i :
    Then(field(k, sh_idx, fields[i][1]), LAMBDA f :
      IF f.v.decl_order # i - 1 THEN Bail(f) ELSE compile_expression(f, fields[i][2])))

compile_pack(K, e) ==
  Then(own_struct(K, e.name, e.types), LAMBDA own :
  Then(compile_fields_of(own, own.v.type.struct, e.fields), LAMBDA packed :
    Ret(push(pops(push_instr(packed, Op2("PACK", own.v.def, own.v.actuals)), Len(e.fields))), << own.v.type >>)))

borrow_field_of(K, s, e) ==
  Then(IF s.tag = "STRUCT" THEN field(K, s.struct, e.field) ELSE Bail(K), LAMBDA f :
    Ret(push(pop(push_instr(f, Op1(IF e.mutable THEN "MUT_BORROW_FIELD" ELSE "IMM_BORROW_FIELD", f.v.idx)))),
        << RefTo(e.mutable, from_signature_token_with_subst(s.types, f.v.token)) >>))
compile_borrow_field(K, e) ==
  Then(compile_expression(K, e.of), LAMBDA inner :
    borrow_field_of(inner, IF inner.v = <<>> THEN Anything ELSE get_struct_handle(inner.v[1]), e))

compile_binop(K, e) ==
  Then(compile_expression(K, e.left), LAMBDA left :
  Then(compile_expression(left, e.right), LAMBDA right :
    Ret(push_instr(pop(right), Op0(e.op)),
        CASE e.op \in Arithmetic -> << infer_int_bin_op_result_ty(left.v, right.v) >>
          [] e.op \in Shifts -> left.v
          [] OTHER -> << Of("BOOL") >>)))

compile_expression_(K, e) ==
  CASE e.exp \in {"Move", "Copy"} ->
         Then(get_local(K, e.var), LAMBDA l :
           Ret(push(push_instr(l, Op1(IF e.exp = "Move" THEN "MOVE_LOC" ELSE "COPY_LOC", l.v))),
               << At(K.local_types, l.v) >>))
    [] e.exp = "BorrowLocal" ->
         Then(get_local(K, e.var), LAMBDA l :
           Ret(push(push_instr(l, Op1(IF e.mutable THEN "MUT_BORROW_LOC" ELSE "IMM_BORROW_LOC", l.v))),
               << RefTo(e.mutable, At(K.local_types, l.v)) >>))
    [] e.exp = "Value" -> compile_value(K, e)
    [] e.exp = "Pack" -> compile_pack(K, e)
    [] e.exp = "Unary" ->
         Then(compile_expression(K, e.of), LAMBDA k : Ret(push_instr(k, Op0("NOT")), << Of("BOOL") >>))
    [] e.exp = "Binop" -> compile_binop(K, e)
    [] e.exp = "Dereference" ->
         Then(compile_expression(K, e.of), LAMBDA k :
           IF k.v = <<>> THEN Bail(k)
           ELSE Ret(push_instr(k, Op0("READ_REF")),
                    << IF k.v[1].tag \in References THEN k.v[1].reference ELSE Anything >>))
    [] e.exp = "Borrow" -> compile_borrow_field(K, e)
    [] e.exp = "FunctionCall" -> Then(compile_expression(K, e.of), LAMBDA k : compile_call(k, e.call, k.v))
    [] e.exp = "ExprList" ->
         Then(MapK(K, e.exps, LAMBDA k, x : compile_expression(k, x)), LAMBDA all :
           Ret(all, FoldLeft(LAMBDA types, t : types \o t, <<>>, all.v)))

-----------------------------------------------------------------------------
(***************************************************************************)
(* Statements.  v is whether a break out of the loop is reachable, and     *)
(* whether nothing behind the statement is.                                *)
(***************************************************************************)
ControlFlowInfo(reachable_break, terminal_node) ==
  [reachable_break |-> reachable_break, terminal_node |-> terminal_node]
Onwards == ControlFlowInfo(FALSE, FALSE)
join(f1, f2) == ControlFlowInfo(f1.reachable_break \/ f2.reachable_break, f1.terminal_node /\ f2.terminal_node)
successor(prev, next) ==
  IF prev.terminal_node THEN prev ELSE ControlFlowInfo(prev.reachable_break \/ next.reachable_break, next.terminal_node)

compile_lvalue(K, l) ==
  CASE l.lvalue = "Var" -> Then(get_local(K, l.var), LAMBDA i : pop(push_instr(i, Op1("ST_LOC", i.v))))
    [] l.lvalue = "Mutate" ->
         Then(compile_expression(K, l.of), LAMBDA k : pops(push_instr(k, Op0("WRITE_REF")), 2))
    [] l.lvalue = "Pop" -> pop(push_instr(K, Op0("POP")))
compile_lvalues_forwards(K, lvalues) == FoldK(K, lvalues, compile_lvalue)
compile_lvalues(K, lvalues) == FoldK(K, Reverse(lvalues), compile_lvalue)

\* The names of the fields are not looked at: the variables get the fields in the order of these.
compile_unpack(K, c) ==
  Then(type_actuals(K, c.types), LAMBDA actuals :
  Then(compile_expression(actuals, c.of), LAMBDA e :
  Then(struct_definition_index(e, c.name), LAMBDA def :
    FoldK(pop(push_instr(def, Op2("UNPACK", def.v, actuals.v.idx))), Reverse(c.bindings), LAMBDA k, b :
      Then(get_local(k, b[2]), LAMBDA i : push_instr(i, Op1("ST_LOC", i.v)))))))

compile_command(K, c) ==
  CASE c.cmd = "Unpack" -> compile_unpack(K, c)
    [] c.cmd = "Continue" -> IF K.loops = <<>> THEN Bail(K) ELSE push_instr(K, Op1("BRANCH", Last(K.loops).start))
    [] c.cmd = "Break" ->
         IF K.loops = <<>> THEN Bail(K)
         ELSE push_instr([K EXCEPT !.loops[Len(K.loops)].breaks = @ \union {Here(K)}], Op1("BRANCH", 0))
    [] c.cmd = "Abort" /\ c.of = None -> pop(push_instr(K, Op0("ABORT")))
    [] c.cmd \in {"Return", "Assign", "Exp"} \/ (c.cmd = "Abort" /\ c.of # None) ->
         Then(compile_expression(K, c.of), LAMBDA e :
           CASE c.cmd = "Return" -> push_instr(e, Op0("RET"))
             [] c.cmd = "Abort" -> pop(push_instr(e, Op0("ABORT")))
             [] c.cmd = "Assign" -> compile_lvalues(e, c.lvalues)
             [] c.cmd = "Exp" -> e)

RECURSIVE compile_statement(_, _)
compile_block(K, stmts) ==
  FoldK(Ret(K, Onwards), stmts, LAMBDA k, s :
    IF s.stmt = "Empty" THEN k
    ELSE Then(compile_statement(k, s), LAMBDA next : Ret(next, successor(k.v, next.v))))

compile_if_else(K, s) ==
  Then(compile_expression(K, s.cond), LAMBDA cond :
  Then(compile_block(pop(push_instr(cond, Op1("BR_FALSE", 0))), s.if_block), LAMBDA if_block :
    LET skips == s.else_block # None /\ ~if_block.v.terminal_node
        placed == IF skips THEN push_instr(if_block, Op1("BRANCH", 0)) ELSE if_block IN
    Then(IF s.else_block = None THEN Ret(placed, Onwards) ELSE compile_block(placed, s.else_block[1]), LAMBDA else_block :
      LET skipped == IF skips THEN patch(else_block, Here(if_block), Op1("BRANCH", Here(else_block))) ELSE else_block IN
      Ret(patch(skipped, Here(cond), Op1("BR_FALSE", Here(placed))), join(if_block.v, else_block.v)))))

compile_while(K, s) ==
  Then(compile_expression(push_loop(K), s.cond), LAMBDA cond :
  Then(compile_block(pop(push_instr(cond, Op1("BR_FALSE", 0))), s.block), LAMBDA body :
    LET back == push_instr(body, Op1("BRANCH", Here(K))) IN
    Ret(pop_loop(patch(back, Here(cond), Op1("BR_FALSE", Here(back)))), Onwards)))

compile_loop(K, s) ==
  Then(compile_block(push_loop(K), s.block), LAMBDA body :
    Ret(pop_loop(push_instr(body, Op1("BRANCH", Here(K)))), ControlFlowInfo(FALSE, ~body.v.reachable_break)))

compile_statement(K, s) ==
  CASE s.stmt = "Command" ->
         Then(compile_command(K, s.cmd), LAMBDA k :
           Ret(k, ControlFlowInfo(s.cmd.cmd = "Break", s.cmd.cmd \in {"Continue", "Abort", "Return"})))
    [] s.stmt = "IfElse" -> compile_if_else(K, s)
    [] s.stmt = "While" -> compile_while(K, s)
    [] s.stmt = "Loop" -> compile_loop(K, s)

-----------------------------------------------------------------------------
(***************************************************************************)
(* Definitions and units.                                                  *)
(***************************************************************************)
compile_fields(K, sh_idx, fields) ==
  FoldK(K, [i \in DOMAIN fields |-> i], LAMBDA k, i :
    Then(get_or_add_item(k, "identifiers", fields[i][1]), LAMBDA n :
    Then(compile_type(n, fields[i][2]), LAMBDA token :
    Then(get_or_add_item(token, "type_signatures", [type |-> SignatureType.TYPE_SIGNATURE, token |-> token.v]), LAMBDA sig :
      [declare_field(sig, sh_idx, fields[i][1], token.v, i - 1) EXCEPT
         !.field_defs = Append(@, [struct_ |-> sh_idx, name |-> n.v, signature |-> sig.v])]))))

compile_struct(K, s) ==
  Then(struct_handle_index(K, <<Self, s.name>>), LAMBDA sh :
  Then(type_parameter_indexes(sh, s.type_formals), LAMBDA m :
  Then(IF s.fields = None THEN m ELSE compile_fields(m, sh.v, s.fields[1]), LAMBDA fields :
    Ret(declare_struct_definition_index(fields, s.name),
        IF s.fields = None THEN [struct_handle |-> sh.v, native |-> TRUE, field_count |-> 0, fields |-> 0]
        ELSE [struct_handle |-> sh.v, native |-> FALSE, field_count |-> Len(s.fields[1]),
              fields |-> Len(K.field_defs)]))))

NewFrame(K) == [K EXCEPT !.locls = <<>>, !.local_types = <<>>, !.loops = <<>>, !.code = <<>>,
                         !.depth = 0, !.max_depth = 0, !.inferred = {}]
compile_function_body(K, f) ==
  Then(FoldK(NewFrame(K), f.formals \o f.body[1].locals, LAMBDA k, d :
         Then(compile_type(k, d[2]), LAMBDA t : define_local(t, d[1], t.v))), LAMBDA defined :
  Then(locals_signature_index(defined, defined.local_types), LAMBDA sig :
  Then(compile_block(sig, f.body[1].code), LAMBDA code :
    Ret(code, [max_stack_size |-> code.max_depth, locals |-> sig.v, code |-> code.code, inferred |-> code.inferred]))))

NoBody == [max_stack_size |-> 0, locals |-> 0, code |-> <<>>, inferred |-> {}]
compile_function(K, f) ==
  Then(function_handle(K, <<Self, f.name>>), LAMBDA fh :
  Then(MapK(fh, f.acquires, struct_definition_index), LAMBDA acquires :
  Then(type_parameter_indexes(acquires, f.type_formals), LAMBDA m :
  Then(IF f.body = None THEN Ret(m, NoBody) ELSE compile_function_body(m, f), LAMBDA body :
    Ret(body, [function |-> fh.v.idx, acquires |-> acquires.v,
               flags |-> (IF f.public THEN 1 ELSE 0) + (IF f.body = None THEN NATIVE ELSE 0)] @@ body.v)))))

EmptyContext(dependencies) ==
  [dependencies |-> dependencies, aliases |-> <<>>, modules |-> <<>>, structs |-> <<>>, struct_defs |-> <<>>,
   fields |-> <<>>, functions |-> <<>>, module_handles |-> <<>>, struct_handles |-> <<>>, field_defs |-> <<>>,
   function_signatures |-> <<>>, type_signatures |-> <<>>, locals_signatures |-> <<>>, identifiers |-> <<>>,
   byte_array_pool |-> <<>>, address_pool |-> <<>>, type_parameters |-> <<>>, locls |-> <<>>, local_types |-> <<>>,
   loops |-> <<>>, code |-> <<>>, depth |-> 0, max_depth |-> 0, inferred |-> {}, bailed |-> FALSE, v |-> None]
NewContext(deps, self) ==
  declare_import(EmptyContext([q \in {self_id(d) : d \in deps} |->
                                 CompiledDependency(CHOOSE d \in deps : self_id(d) = q)]), self, Self)

compile_imports(K, address, imports) ==
  FoldK(K, imports, LAMBDA k, i :
    declare_import(k, <<IF i.ident[1] = None THEN address ELSE i.ident[1][1], i.ident[2]>>, i.alias))

declare_structs(K, structs) ==
  FoldK(K, structs, LAMBDA k, s :
    declare_struct_handle_index(k, <<Self, s.name>>, s.is_nominal_resource, type_parameter_kinds(s.type_formals)))
declare_functions(K, functions) ==
  FoldK(K, functions, LAMBDA k, f :
    Then(function_signature(k, f), LAMBDA sig : declare_function(sig, <<Self, f.name>>, sig.v)))

\* Two functions with one handle leave a hole in the pool, which nothing after it can bear.
materialize_pools(K) == \A i, j \in DOMAIN K.functions : K.functions[i].handle = K.functions[j].handle => i = j

CodeOf(f) == Restrict(f, {"function", "flags", "acquires", "max_stack_size", "locals", "code"})
unit_of(K, script, structs, functions) ==
  [t \in Range(TableType) |->
     CASE t = "struct_defs" -> structs
       [] t \in {"function_defs", "main"} ->
            IF (t = "main") = script THEN [i \in DOMAIN functions |-> CodeOf(functions[i])] ELSE <<>>
       [] t = "function_handles" -> [i \in DOMAIN K.functions |-> K.functions[i].handle]
       [] OTHER -> K[t]]
\* The unit and what was inferred of its functions, or why there is none.
compiled(K, script) ==
  IF K.bailed THEN [result |-> "bailed"]
  ELSE IF ~materialize_pools(K) THEN [result |-> "unwound"]
  ELSE [result |-> "compiled", inferred |-> [i \in DOMAIN K.v.functions |-> K.v.functions[i].inferred],
        unit |-> unit_of(K, script, K.v.structs, K.v.functions)]
compile(u, address, deps) ==
  compiled(
    Then(compile_imports(NewContext(deps, <<address, u.name>>), address, u.imports), LAMBDA imported :
    Then(declare_functions(declare_structs(imported, u.structs), u.functions), LAMBDA declared :
    Then(MapK(declared, u.structs, compile_struct), LAMBDA structs :
    Then(MapK(structs, u.functions, compile_function), LAMBDA functions :
      Ret(functions, [structs |-> structs.v, functions |-> functions.v]))))),
    u.script)
=============================================================================
