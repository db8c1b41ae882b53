----------------------------- MODULE IRGrammar ------------------------------
(***************************************************************************)
(* The grammar of the IR the other way round: the text of a syntax tree,   *)
(* as the comments in front of the parser's functions give it, and how     *)
(* tightly operators bind.  It is what the parser is compared with.        *)
(***************************************************************************)
EXTENDS IRSyntax

Join(parts, between) ==
  FoldLeft(LAMBDA text, i : text \o (IF i = 1 THEN <<>> ELSE between) \o parts[i], <<>>, [i \in DOMAIN parts |-> i])
Each(items, Text(_)) == [i \in DOMAIN items |-> Text(items[i])]
Commas(items, Text(_)) == Join(Each(items, Text), <<",">>)
Bracketed(items, Text(_)) == IF items = <<>> THEN <<>> ELSE <<"<">> \o Commas(items, Text) \o <<">">>
Dotted(pair) == <<pair[1], ".", pair[2]>>
WordOf(words, v) == CHOOSE w \in DOMAIN words : words[w] = v
SymbolOf(tok) == CHOOSE s \in DOMAIN Symbols : Symbols[s] = tok
OpText(op, ops) == SymbolOf(WordOf(ops, op))

RECURSIVE TypeText(_), ExpText(_), StmtText(_), SpecText(_)
Types(tys) == Bracketed(tys, TypeText)
TypeText(t) ==
  CASE t.tag = "VECTOR" -> <<"vector", "<">> \o TypeText(t.vector_type) \o <<">">>
    [] t.tag = "STRUCT" -> Dotted(t.ident) \o Types(t.types)
    [] t.tag = "REFERENCE" -> (IF t.mutable THEN <<"&", "mut", " ">> ELSE <<"&">>) \o TypeText(t.reference)
    [] t.tag = "TYPE_PARAMETER" -> <<t.name>>
    [] OTHER -> <<WordOf(NameTokens, WordOf(Primitive, t.tag))>>
FormalText(f) == IF f[2] = "All" THEN <<f[1]>> ELSE <<f[1], ":", WordOf(NameTokens, f[2])>>
DeclText(d) == <<d[1], ":">> \o TypeText(d[2])

ValueText(v) ==
  CASE v.type = "BOOL" -> <<IF v.value = 1 THEN "true" ELSE "false">>
    [] v.type = "ADDRESS" -> <<WordOf(Addresses, v.value)>>
    [] v.type = "BYTEARRAY" -> <<WordOf(ByteArrays, v.value)>>
    [] OTHER -> <<WordOf(Numbers, [type |-> v.type, value |-> v.value])>>

CallText(c) ==
  CASE c.call = "Module" -> <<c.module, ".", c.name>> \o Types(c.types)
    [] c.call = "Builtin" /\ c.tag \in OfStructs ->
         <<WordOf(BeforeLess, c.tag), "<", c.name>> \o Types(c.types) \o <<">">>
    [] c.call = "Builtin" /\ c.tag \notin OfStructs -> <<WordOf(NameTokens, c.tag)>>
FieldText(f) == <<f[1], ":">> \o ExpText(f[2])
ExpText(e) ==
  LET borrow(mutable) == IF mutable THEN <<"&", "mut", " ">> ELSE <<"&", " ">> IN
  CASE e.exp \in {"Move", "Copy"} -> <<WordOf(BeforeParen, e.exp), "(", e.var, ")">>
    [] e.exp = "BorrowLocal" -> borrow(e.mutable) \o <<e.var>>
    [] e.exp = "Value" -> ValueText(e)
    [] e.exp = "Pack" -> <<e.name>> \o Types(e.types) \o <<"{">> \o Commas(e.fields, FieldText) \o <<"}">>
    [] e.exp = "Unary" -> <<"!">> \o ExpText(e.of)
    [] e.exp = "Binop" -> ExpText(e.left) \o OpText(e.op, BinOps) \o ExpText(e.right)
    [] e.exp = "Dereference" -> <<"*">> \o ExpText(e.of)
    [] e.exp = "Borrow" -> borrow(e.mutable) \o ExpText(e.of) \o <<" ", ".", " ", e.field>>
    [] e.exp = "FunctionCall" -> CallText(e.call) \o ExpText(e.of)
    [] e.exp = "ExprList" -> <<"(">> \o Commas(e.exps, ExpText) \o <<")">>

LValueText(v) ==
  CASE v.lvalue = "Var" -> <<v.var>> [] v.lvalue = "Mutate" -> <<"*">> \o ExpText(v.of) [] v.lvalue = "Pop" -> <<"_">>
BindingText(b) == <<b[1], ":", b[2]>>
CmdText(c) ==
  CASE c.cmd = "Return" -> <<"return">> \o Commas(c.of.exps, ExpText)
    [] c.cmd = "Abort" -> <<"abort">> \o IF c.of = None THEN <<>> ELSE ExpText(c.of)
    [] c.cmd = "Assign" -> Commas(c.lvalues, LValueText) \o <<"=">> \o ExpText(c.of)
    [] c.cmd = "Unpack" -> <<c.name>> \o Types(c.types) \o <<"{">> \o Commas(c.bindings, BindingText)
                           \o <<"}", "=">> \o ExpText(c.of)
    [] c.cmd = "Exp" -> ExpText(c.of)
    [] c.cmd = "Continue" -> <<"continue">>
    [] c.cmd = "Break" -> <<"break">>
BlockText(stmts) == <<"{">> \o Join(Each(stmts, StmtText), <<>>) \o <<"}">>
StmtText(s) ==
  CASE s.stmt = "Command" -> CmdText(s.cmd) \o <<";">>
    [] s.stmt = "IfElse" -> <<"if", "(">> \o ExpText(s.cond) \o <<")">> \o BlockText(s.if_block)
                            \o IF s.else_block = None THEN <<>> ELSE <<"else">> \o BlockText(s.else_block[1])
    [] s.stmt = "While" -> <<"while", "(">> \o ExpText(s.cond) \o <<")">> \o BlockText(s.block)
    [] s.stmt = "Loop" -> <<"loop">> \o BlockText(s.block)
    [] s.stmt = "Empty" -> <<";">>

StepText(s) == IF s.step = "Field" THEN <<".", s.field>> ELSE <<"[">> \o SpecText(s.of) \o <<"]">>
SpecText(e) ==
  CASE e.spec = "Return" -> <<"RET", "(", WordOf(Numbers, [type |-> "U64", value |-> e.index]), ")">>
    [] e.spec = "TxnSender" -> <<"txn_sender">>
    [] e.spec = "Address" -> <<WordOf(Addresses, e.address)>>
    [] e.spec = "Formal" -> <<e.name>>
    [] e.spec \in {"Global", "GlobalExists"} ->
         <<WordOf(NameTokens, e.spec), "<">> \o Dotted(e.ident) \o Types(e.types) \o <<">", "(">> \o SpecText(e.of) \o <<")">>
    [] e.spec = "AccessPath" -> SpecText(e.base) \o Join(Each(e.path, StepText), <<>>)
    [] e.spec = "Constant" -> ValueText(e.of)
    [] e.spec = "Dereference" -> <<"*">> \o SpecText(e.of)
    [] e.spec = "Reference" -> <<"&">> \o SpecText(e.of)
    [] e.spec = "Not" -> <<"!">> \o SpecText(e.of)
    [] e.spec = "Old" -> <<"old", "(">> \o SpecText(e.of) \o <<")">>
    [] e.spec = "Call" -> <<e.name, "(">> \o Commas(e.args, SpecText) \o <<")">>
    [] e.spec = "StorageLocation" -> SpecText(e.of)
    [] e.spec = "Update" -> SpecText(e.left) \o <<":", "=">> \o SpecText(e.right)
    [] e.spec = "Binop" -> SpecText(e.left) \o OpText(e.op, SpecOps) \o SpecText(e.right)
DirectiveText(d) == <<WordOf(NameTokens, d.directive)>> \o SpecText(d.of)
InvariantText(i) ==
  <<"invariant">> \o (IF i.modifier = "" THEN <<>> ELSE <<"{", i.modifier, "}">>)
  \o (IF i.target = "" THEN <<>> ELSE <<i.target, "=">>) \o SpecText(i.of)

Word(given, w) == IF given THEN <<w>> ELSE <<>>
LetText(d) == <<"let">> \o DeclText(d) \o <<";">>
BodyText(b) == <<"{">> \o Join(Each(b.locals, LetText), <<>>) \o Join(Each(b.code, StmtText), <<>>) \o <<"}">>
NameText(n) == <<n>>
FunctionText(f) ==
  Word(f.body = None, "native") \o Word(f.public, "public") \o <<f.name>> \o Bracketed(f.type_formals, FormalText)
  \o <<"(">> \o Commas(f.formals, DeclText) \o <<")">>
  \o (IF f.return_type = <<>> THEN <<>> ELSE <<":">> \o Join(Each(f.return_type, TypeText), <<"*">>))
  \o (IF f.acquires = <<>> THEN <<>> ELSE <<"acquires">> \o Commas(f.acquires, NameText))
  \o Join(Each(f.specifications, DirectiveText), <<>>)
  \o IF f.body = None THEN <<";">> ELSE BodyText(f.body[1])
StructText(s) ==
  LET invariants == Commas(s.invariants, InvariantText) IN
  Word(s.fields = None, "native") \o <<IF s.is_nominal_resource THEN "resource" ELSE "struct", s.name>>
  \o Bracketed(s.type_formals, FormalText)
  \o IF s.fields = None THEN <<";">>
     ELSE <<"{">> \o Commas(s.fields[1], DeclText) \o Word(invariants # <<>> /\ s.fields[1] # <<>>, ",")
          \o invariants \o <<"}">>
ImportText(i) ==
  LET ident == IF i.ident[1] = None THEN <<"Transaction">> ELSE <<WordOf(Addresses, i.ident[1][1])>> IN
  <<"import">> \o ident \o <<".", i.ident[2]>> \o (IF i.alias = i.ident[2] THEN <<>> ELSE <<"as", i.alias>>) \o <<";">>
SyntheticText(s) == <<"synthetic">> \o DeclText(s) \o <<";">>

Text(u) ==
  LET imports == Join(Each(u.imports, ImportText), <<>>) f == u.functions[1] IN
  IF u.script
  THEN imports \o <<"main", "(">> \o Commas(f.formals, DeclText) \o <<")">> \o BodyText(f.body[1])
  ELSE <<"module", u.name, "{">> \o imports \o Join(Each(u.synthetics, SyntheticText), <<>>)
       \o Join(Each(u.structs, StructText), <<>>) \o Join(Each(u.functions, FunctionText), <<>>) \o <<"}">>

-----------------------------------------------------------------------------
\* Every operator binds tighter on its right than it does itself, and as tightly on its left.
PrecedenceOf(e, ops) == Precedence[WordOf(ops, e.op)]
BindsAt(e, ops, IsBinop(_)) ==
  IsBinop(e) => /\ IsBinop(e.left) => PrecedenceOf(e.left, ops) >= PrecedenceOf(e, ops)
                /\ IsBinop(e.right) => PrecedenceOf(e.right, ops) > PrecedenceOf(e, ops)
IsBinopExp(e) == e.exp = "Binop"

\* The expressions in an expression, and those in a statement.
RECURSIVE Within(_), WithinAll(_)
WithinAll(exps) == UNION {Within(exps[i]) : i \in DOMAIN exps}
Within(e) ==
  {e} \union CASE e.exp \in {"Unary", "Dereference", "Borrow", "FunctionCall"} -> Within(e.of)
               [] e.exp = "Binop" -> Within(e.left) \union Within(e.right)
               [] e.exp = "Pack" -> WithinAll([i \in DOMAIN e.fields |-> e.fields[i][2]])
               [] e.exp = "ExprList" -> WithinAll(e.exps)
               [] OTHER -> {}
RECURSIVE ExpsOf(_)
ExpsOfBlock(stmts) == UNION {ExpsOf(stmts[i]) : i \in DOMAIN stmts}
ExpsOf(s) ==
  CASE s.stmt = "Command" ->
         UNION {Within(e) : e \in IF s.cmd.cmd \in {"Continue", "Break"} \/ s.cmd.of = None THEN {} ELSE {s.cmd.of}}
         \union UNION {Within(v.of) : v \in {x \in IF s.cmd.cmd = "Assign" THEN ToSet(s.cmd.lvalues) ELSE {} :
                                              x.lvalue = "Mutate"}}
    [] s.stmt = "IfElse" -> Within(s.cond) \union ExpsOfBlock(s.if_block)
                            \union IF s.else_block = None THEN {} ELSE ExpsOfBlock(s.else_block[1])
    [] s.stmt = "While" -> Within(s.cond) \union ExpsOfBlock(s.block)
    [] s.stmt = "Loop" -> ExpsOfBlock(s.block)
    [] s.stmt = "Empty" -> {}
Binds(u) ==
  \A i \in DOMAIN u.functions : u.functions[i].body # None =>
    \A e \in ExpsOfBlock(u.functions[i].body[1].code) : BindsAt(e, BinOps, IsBinopExp)

WithoutBlanks(text) == SelectSeq(text, LAMBDA p : p # " ")
=============================================================================
