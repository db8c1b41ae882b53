---------------------------- MODULE IRSemantics -----------------------------
(***************************************************************************)
(* What a text of the IR means, said of its syntax tree: the reference the *)
(* compiled code is compared with.  A state s has the syntax trees of the  *)
(* modules by id, a memory of places with names, the module and the depth  *)
(* of the function that runs and what its type parameters stand for, how   *)
(* control goes on, and in v the values of what was evaluated last.  A     *)
(* loop counts as endless when the fuel is used up.                        *)
(***************************************************************************)
EXTENDS Interpreter, IRGrammar

On == <<"on">>
Endless == <<"endless">>
With(s, values) == [s EXCEPT !.v = values]
Goes(s, out) == [s EXCEPT !.out = out]
After(s, Op(_)) == IF s.out = On THEN Op(s) ELSE s
Fails(s, code) == Goes(s, <<"stopped", code>>)
Place(s, x) == <<s.depth, x>>

ModuleOf(s, alias) ==
  LET i == CHOOSE i \in Range(s.trees[s.id].imports) : i.alias = alias IN
  IF alias = Self THEN s.id ELSE <<IF i.ident[1] = None THEN s.id[1] ELSE i.ident[1][1], i.ident[2]>>
NamedIn(items, n) == CHOOSE x \in Range(items) : x.name = n

RECURSIVE TagOf(_, _)
TagsOf(s, tys) == [i \in DOMAIN tys |-> TagOf(s, tys[i])]
TagOf(s, ty) ==
  CASE ty.tag = "VECTOR" -> <<"VECTOR", TagOf(s, ty.vector_type)>>
    [] ty.tag = "STRUCT" -> <<"STRUCT", ModuleOf(s, ty.ident[1]), ty.ident[2], TagsOf(s, ty.types)>>
    [] ty.tag = "TYPE_PARAMETER" -> s.types[ty.name]
    [] OTHER -> <<ty.tag>>
Resource(s, address, call) == <<0, address, <<"STRUCT", s.id, call.name, TagsOf(s, call.types)>>>>

RECURSIVE Exp(_, _), Block(_, _)
Behind(values, s) == With(s, values \o s.v)
Exps(s, es) == FoldLeft(LAMBDA acc, e : After(acc, LAMBDA t : Behind(t.v, Exp(t, e))), With(s, <<>>), es)

Number(s, type, n) == IF n = NoNumber THEN Fails(s, "ARITHMETIC_ERROR") ELSE With(s, <<ValueOf(type, n)>>)
BinopOf(s, op, l, r) ==
  CASE op \in Comparisons -> With(s, <<Bool(Comparison(op, l.value, r.value))>>)
    [] op \in {"EQ", "NEQ"} -> With(s, <<Bool((Compared(s, l) = Compared(s, r)) = (op = "EQ"))>>)
    [] op = "AND" -> With(s, <<Bool(IsTrue(l) /\ IsTrue(r))>>)
    [] op = "OR" -> With(s, <<Bool(IsTrue(l) \/ IsTrue(r))>>)
    [] OTHER -> Number(s, l.type, IntegerOp(op, l.type, l.value, r.value))

BuiltinOf(s, call) ==
  LET v == s.v[1] place == Resource(s, v.value, call) mine == Resource(s, Sender, call) there == place \in DOMAIN s.mem
      casts == [ToU8 |-> "U8", ToU64 |-> "U64", ToU128 |-> "U128"] IN
  CASE call.tag = "GetTxnSender" -> With(s, <<ValueOf("ADDRESS", Sender)>>)
    [] call.tag = "Freeze" -> s
    [] call.tag \in DOMAIN casts -> Number(s, casts[call.tag], Checked(casts[call.tag], v.value))
    [] call.tag = "Exists" -> With(s, <<Bool(there)>>)
    [] call.tag = "MoveToSender" /\ mine \in DOMAIN s.mem -> Fails(s, "CANNOT_WRITE_EXISTING_RESOURCE")
    [] call.tag = "MoveToSender" /\ mine \notin DOMAIN s.mem -> With(Remember(s, mine, v), <<>>)
    [] call.tag \in {"BorrowGlobal", "BorrowGlobalMut", "MoveFrom"} /\ ~there -> Fails(s, "MISSING_DATA")
    [] call.tag = "MoveFrom" /\ there -> With(Forget(s, {place}), <<s.mem[place]>>)
    [] OTHER -> With(s, <<Ref(place, <<>>)>>)

\* The function f of module id, called with the values in v.
Inside(s, id, fun, types) ==
  [s EXCEPT !.depth = @ + 1, !.id = id,
            !.types = [t \in {fun.type_formals[i][1] : i \in DOMAIN types} |->
                         types[CHOOSE i \in DOMAIN types : fun.type_formals[i][1] = t]]]
Back(s, done) ==
  LET back == [Forget(done, {root \in DOMAIN done.mem : root[1] = done.depth})
                 EXCEPT !.depth = s.depth, !.id = s.id, !.types = s.types] IN
  CASE done.out = <<"return">> -> Goes(back, On)
    [] done.out = On -> Fails(back, "PC_OVERFLOW")
    [] OTHER -> back
CallOf(s, id, f, types) ==
  LET fun == NamedIn(s.trees[id].functions, f)
      called == FoldLeft(LAMBDA acc, i : Remember(acc, Place(acc, fun.formals[i][1]), s.v[i]),
                         Inside(s, id, fun, types), [i \in DOMAIN fun.formals |-> i]) IN
  Back(s, Block(called, fun.body[1].code))

Exp(s, e) ==
  LET of(Op(_)) == After(Exp(s, e.of), Op) IN
  CASE e.exp = "Copy" -> With(s, <<s.mem[Place(s, e.var)]>>)
    [] e.exp = "Move" -> With(Forget(s, {Place(s, e.var)}), <<s.mem[Place(s, e.var)]>>)
    [] e.exp = "BorrowLocal" -> With(s, <<Ref(Place(s, e.var), <<>>)>>)
    [] e.exp = "Value" -> With(s, <<ValueOf(IF e.type = "BYTEARRAY" THEN "VECTOR" ELSE e.type, e.value)>>)
    [] e.exp = "Pack" ->
         After(Exps(s, [i \in DOMAIN e.fields |-> e.fields[i][2]]),
               LAMBDA t : With(t, <<[type |-> "STRUCT", of |-> <<s.id, e.name>>,
                 fields |-> [f \in {e.fields[i][1] : i \in DOMAIN e.fields} |->
                               t.v[CHOOSE i \in DOMAIN e.fields : e.fields[i][1] = f]]]>>))
    [] e.exp = "Unary" -> of(LAMBDA t : With(t, <<Bool(~IsTrue(t.v[1]))>>))
    [] e.exp = "Binop" -> After(Exps(s, <<e.left, e.right>>), LAMBDA t : BinopOf(t, e.op, t.v[1], t.v[2]))
    [] e.exp = "Dereference" -> of(LAMBDA t : With(t, <<read_ref(t, t.v[1])>>))
    [] e.exp = "Borrow" -> of(LAMBDA t : With(t, <<[t.v[1] EXCEPT !.path = Append(@, e.field)]>>))
    [] e.exp = "ExprList" -> Exps(s, e.exps)
    [] e.exp = "FunctionCall" ->
         of(LAMBDA t : IF e.call.call = "Builtin" THEN BuiltinOf(t, e.call)
                       ELSE CallOf(t, ModuleOf(t, e.call.module), e.call.name, TagsOf(t, e.call.types)))

Store(s, l, value) ==
  CASE l.lvalue = "Var" -> Remember(s, Place(s, l.var), value)
    [] l.lvalue = "Mutate" -> After(Exp(s, l.of), LAMBDA t : write_ref(t, t.v[1], value))
    [] l.lvalue = "Pop" -> s
Assigned(s, lvalues) ==
  LET n == Len(lvalues) IN
  FoldLeft(LAMBDA acc, i : After(acc, LAMBDA t : Store(t, lvalues[n - i + 1], s.v[n - i + 1])), s, [i \in 1 .. n |-> i])

Command(s, c) ==
  CASE c.cmd = "Continue" -> Goes(s, <<"continue">>)
    [] c.cmd = "Break" -> Goes(s, <<"break">>)
    [] OTHER -> After(Exp(s, c.of), LAMBDA t :
         CASE c.cmd = "Return" -> Goes(t, <<"return">>)
           [] c.cmd = "Abort" -> Goes(t, <<"aborted", t.v[1].value>>)
           [] c.cmd = "Assign" -> Assigned(t, c.lvalues)
           [] c.cmd = "Unpack" ->
                FoldLeft(LAMBDA acc, b : Remember(acc, Place(t, b[2]), t.v[1].fields[b[1]]), t, c.bindings)
           [] c.cmd = "Exp" -> t)

RECURSIVE Repeat(_, _), Repeated(_, _)
\* Once more, as long as the condition of a while holds.
Repeat(s, st) ==
  After(IF st.stmt = "While" THEN Exp(s, st.cond) ELSE With(s, <<Bool(TRUE)>>), LAMBDA cond :
    IF IsTrue(cond.v[1]) THEN Repeated(Block(cond, st.block), st) ELSE cond)
Repeated(s, st) ==
  CASE s.out = <<"break">> -> Goes(s, On)
    [] s.out \in {On, <<"continue">>} ->
         IF s.fuel = 0 THEN Goes(s, Endless) ELSE Repeat([s EXCEPT !.out = On, !.fuel = @ - 1], st)
    [] OTHER -> s
Statement(s, st) ==
  CASE st.stmt = "Command" -> Command(s, st.cmd)
    [] st.stmt = "IfElse" ->
         After(Exp(s, st.cond),
               LAMBDA t : IF IsTrue(t.v[1]) THEN Block(t, st.if_block)
                          ELSE IF st.else_block = None THEN t ELSE Block(t, st.else_block[1]))
    [] st.stmt \in {"While", "Loop"} -> Repeat(s, st)
    [] st.stmt = "Empty" -> s
Block(s, stmts) == FoldLeft(LAMBDA acc, st : After(acc, LAMBDA t : Statement(t, st)), s, stmts)

\* A struct as the interpreter has it: its fields in the order of their declaration.
RECURSIVE Positional(_, _)
Positional(trees, v) ==
  IF v.type # "STRUCT" THEN v
  ELSE LET declared == NamedIn(trees[v.of[1]].structs, v.of[2]).fields[1] IN
       StructOf([i \in DOMAIN declared |-> Positional(trees, v.fields[declared[i][1]])])

\* The outcome of a call, with the values and the resources it leaves when it returns.
MeaningOf(s) ==
  IF s.out # On THEN [outcome |-> s.out]
  ELSE [outcome |-> <<"returned">>, values |-> [i \in DOMAIN s.v |-> Positional(s.trees, s.v[i])],
        resources |-> [root \in DOMAIN s.mem |-> Positional(s.trees, s.mem[root])]]
Meaning(trees, id, f, args, fuel) ==
  MeaningOf(CallOf([trees |-> trees, mem |-> <<>>, depth |-> 0, id |-> id, types |-> <<>>, fuel |-> fuel,
                    out |-> On, v |-> args], id, f, <<>>))
=============================================================================
