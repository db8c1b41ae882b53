------------------------------ MODULE IRSyntax ------------------------------
(***************************************************************************)
(* The lexer and the parser of the Move IR.                                *)
(*                                                                         *)
(* A text is a sequence of pieces: a word, a number, or one character of   *)
(* punctuation.  Two pieces touch unless a blank is between them, and what *)
(* touches a name decides which token it is.  The lexer is a record that   *)
(* every operation of the parser takes and returns, with what was parsed   *)
(* in v; after an error its token is "Error", which nothing consumes.      *)
(***************************************************************************)
EXTENDS Integers, Sequences, SequencesExt, FiniteSets, Functions, TLC

CONSTANTS Numbers,             \* from the words that are numbers to their type and value
          Addresses,           \* from the words that are addresses to the address
          ByteArrays           \* from the words that are byte arrays to the bytes

Uint_max == [U8 |-> 255, U64 |-> 2^30, U128 |-> 2^30]     \* the last two stand for more
Self == "Self"
None == <<>>

Symbols ==
  << "&", "mut", " " >> :> "AmpMut" @@ << "&", "&" >> :> "AmpAmp" @@ << "&" >> :> "Amp" @@
  << "|", "|" >> :> "PipePipe" @@ << "|" >> :> "Pipe" @@
  << "=", "=", ">" >> :> "EqualEqualGreater" @@ << "=", "=" >> :> "EqualEqual" @@ << "=" >> :> "Equal" @@
  << "!", "=" >> :> "ExclaimEqual" @@ << "!" >> :> "Exclaim" @@
  << "<", "=" >> :> "LessEqual" @@ << "<", "<" >> :> "LessLess" @@ << "<" >> :> "Less" @@
  << ">", "=" >> :> "GreaterEqual" @@ << ">", ">" >> :> "GreaterGreater" @@ << ">" >> :> "Greater" @@
  << ".", "." >> :> "PeriodPeriod" @@ << "." >> :> "Period" @@
  << ":", "=" >> :> "ColonEqual" @@ << ":" >> :> "Colon" @@
  << "%" >> :> "Percent" @@ << "(" >> :> "LParen" @@ << ")" >> :> "RParen" @@ << "*" >> :> "Star" @@
  << "+" >> :> "Plus" @@ << "," >> :> "Comma" @@ << "-" >> :> "Minus" @@ << "/" >> :> "Slash" @@
  << ";" >> :> "Semicolon" @@ << "^" >> :> "Caret" @@ << "{" >> :> "LBrace" @@ << "}" >> :> "RBrace" @@
  << "[" >> :> "LSquare" @@ << "]" >> :> "RSquare"

NameTokens == ("_" :> "Underscore") @@
  [abort |-> "Abort", aborts_if |-> "AbortsIf", acquires |-> "Acquires", address |-> "Address",
   as |-> "As", bool |-> "Bool", break |-> "Break", continue |-> "Continue", else |-> "Else",
   ensures |-> "Ensures", false |-> "FALSE", freeze |-> "Freeze", get_txn_sender |-> "GetTxnSender",
   global |-> "Global", global_exists |-> "GlobalExists", to_u8 |-> "ToU8", to_u64 |-> "ToU64",
   to_u128 |-> "ToU128", if |-> "If", import |-> "Import", let |-> "Let", loop |-> "Loop",
   main |-> "Main", module |-> "Module", native |-> "Native", invariant |-> "Invariant", old |-> "Old",
   public |-> "Public", requires |-> "Requires", resource |-> "Resource", RET |-> "SpecReturn",
   return |-> "Return", struct |-> "Struct", succeeds_if |-> "SucceedsIf", synthetic |-> "Synthetic",
   true |-> "TRUE", txn_sender |-> "TxnSender", u8 |-> "U8", u64 |-> "U64", u128 |-> "U128",
   unrestricted |-> "Unrestricted", while |-> "While"]
get_name_token(name) == IF name \in DOMAIN NameTokens THEN NameTokens[name] ELSE "NameValue"

BeforeLess == [borrow_global |-> "BorrowGlobal", borrow_global_mut |-> "BorrowGlobalMut",
  exists |-> "Exists", move_from |-> "MoveFrom", move_to_sender |-> "MoveToSender"]
BeforeParen == [assert |-> "Assert", copy |-> "Copy", move |-> "Move"]

IsName(p) == <<p>> \notin DOMAIN Symbols
             /\ p \notin {" ", ""} \union DOMAIN Numbers \union DOMAIN Addresses \union DOMAIN ByteArrays

\* The longest of the symbols at piece i of the text, out of the table of them.
SymbolAt(symbols, text, i) ==
  LET symbol(n) == SubSeq(text, i, i + n - 1)
      lens == {n \in 1 .. 3 : i + n - 1 <= Len(text) /\ symbol(n) \in DOMAIN symbols} IN
  IF lens = {} THEN <<"Error", 0>> ELSE <<symbols[symbol(Max(lens))], Max(lens)>>

\* The token at piece i of the text, and how many pieces it is.
find_token(text, i, spec_mode) ==
  LET piece(n) == IF n <= Len(text) THEN text[n] ELSE ""
      p == piece(i) next == piece(i + 1) IN
  CASE p = "" -> <<"EOF", 0>>
    [] p \in DOMAIN Numbers -> <<Numbers[p].type \o "Value", 1>>
    [] p \in DOMAIN Addresses -> <<"AddressValue", 1>>
    [] p \in DOMAIN ByteArrays /\ ~spec_mode -> <<"ByteArrayValue", 1>>
    [] IsName(p) ->
         CASE spec_mode -> <<get_name_token(p), 1>>
           [] next = "." /\ IsName(piece(i + 2)) -> <<"DotNameValue", 3>>
           [] next = "<" /\ p = "vector" -> <<"Vector", 1>>
           [] next = "<" /\ p \in DOMAIN BeforeLess -> <<BeforeLess[p], 2>>
           [] next = "<" /\ p # "vector" /\ p \notin DOMAIN BeforeLess -> <<"NameBeginTyValue", 2>>
           [] next = "(" /\ p \in DOMAIN BeforeParen -> <<BeforeParen[p], 2>>
           [] OTHER -> <<get_name_token(p), 1>>
    [] OTHER -> SymbolAt(Symbols, text, i)

Skip(text, i) == IF i <= Len(text) /\ text[i] = " " THEN i + 1 ELSE i   \* blanks are single

\* The tokens are those there may be, at every piece that is no blank and in both modes; the current one
\* is made of the pieces from start on that are before end.
NewLexer(text) ==
  [text |-> text, start |-> 1, end |-> 1, tok |-> "EOF", spec_mode |-> FALSE, v |-> None,
   tokens |-> [mode \in BOOLEAN |->
                 [i \in {j \in 1 .. Len(text) + 1 : Skip(text, j) = j} |-> find_token(text, i, mode)]]]
content(l) == SubSeq(l.text, l.start, l.end - 1)
next_token(l) == l.tokens[l.spec_mode][Skip(l.text, l.end)]
lookahead(l) == next_token(l)[1]
advance(l) ==
  LET start == Skip(l.text, l.end) IN
  [l EXCEPT !.start = start, !.end = start + next_token(l)[2], !.tok = next_token(l)[1]]
replace_token(l, tok, len) == [l EXCEPT !.tok = tok, !.end = l.start + len]

Fail(l) == [l EXCEPT !.tok = "Error", !.v = None]
Ret(l, v) == [l EXCEPT !.v = v]
Made(l, v) == IF l.tok = "Error" THEN Fail(l) ELSE Ret(l, v)
Taken(l, tok, v) == IF l.tok = tok THEN Ret(advance(l), v) ELSE Fail(l)
consume_token(l, tok) == Taken(l, tok, None)
adjust_token(l, list_end_tokens) ==
  IF l.tok = "GreaterGreater" /\ "Greater" \in list_end_tokens THEN replace_token(l, "Greater", 1) ELSE l
consume_end_of_generics(l) == consume_token(adjust_token(l, {"Greater"}), "Greater")

-----------------------------------------------------------------------------
(***************************************************************************)
(* An item is a token that must be next, or a production, by its name.     *)
(* Items follow each other, or are in lists.                               *)
(***************************************************************************)
RECURSIVE parse(_, _), parse_each(_, _, _), parse_items(_, _, _, _, _)
parse_each(l, items, done) ==
  IF items = <<>> \/ l.tok = "Error" THEN Made(l, done)
  ELSE LET one == parse(l, Head(items)) IN parse_each(one, Tail(items), Append(done, one.v))
InOrder(l, items) == parse_each(l, items, <<>>)
Nth(l, items, n) == LET s == InOrder(l, items) IN Made(s, s.v[n])      \* of which the n-th counts

parse_items(l, ends, item, allow_trailing_comma, done) ==
  LET one == parse(l, item) a == adjust_token(one, ends) v == Append(done, one.v) IN
  IF a.tok \in ends \union {"Error"} THEN Ret(a, v)
  ELSE LET b == adjust_token(consume_token(a, "Comma"), ends) IN
       IF b.tok = "Error" \/ (b.tok \in ends /\ allow_trailing_comma) THEN Ret(b, v)
       ELSE parse_items(b, ends, item, allow_trailing_comma, v)
parse_comma_list(l, ends, item, allow_trailing_comma) ==
  LET a == adjust_token(l, ends) IN
  IF a.tok \in ends THEN Ret(a, <<>>) ELSE parse_items(a, ends, item, allow_trailing_comma, <<>>)

ListOf(item, ends) == [item |-> item, ends |-> ends, trailing |-> TRUE]
Lists == [
  types |-> ListOf("type", {"Greater"}), type_formals |-> ListOf("type_formal", {"Greater"}),
  exps |-> ListOf("exp", {"RParen"}), returned |-> ListOf("exp", {"Semicolon"}),
  field_exps |-> ListOf("field_exp", {"RBrace"}), bindings |-> ListOf("field_bindings", {"RBrace"}),
  lvalues |-> [ListOf("lvalue", {"Equal"}) EXCEPT !.trailing = FALSE],
  arg_decls |-> ListOf("arg_decl", {"RParen"}), spec_exps |-> ListOf("spec_exp", {"RParen"}),
  fields |-> ListOf("arg_decl", {"RBrace", "Invariant"}), invariants |-> ListOf("invariant", {"RBrace"})]

\* Items one after the other for as long as the token is one of those.
RECURSIVE parse_many(_, _, _, _)
parse_many(l, tokens, item, done) ==
  IF l.tok \notin tokens THEN Ret(l, done)
  ELSE LET one == parse(l, item) IN parse_many(one, tokens, item, Append(done, one.v))

\* An item, then one more behind each separator.
RECURSIVE parse_separated(_, _, _, _)
parse_separated(l, separator, item, done) ==
  LET one == parse(l, item) v == Append(done, one.v) IN
  IF one.tok = separator THEN parse_separated(advance(one), separator, item, v) ELSE Ret(one, v)

-----------------------------------------------------------------------------
(***************************************************************************)
(* Names and types.                                                        *)
(***************************************************************************)
parse_name(l) == Taken(l, "NameValue", content(l)[1])
parse_name_begin_ty(l) == Taken(l, "NameBeginTyValue", content(l)[1])
parse_account_address(l) == Taken(l, "AddressValue", Addresses[content(l)[1]])
parse_dot_name(l) == Taken(l, "DotNameValue", <<content(l)[1], content(l)[3]>>)

parse_type_actuals(l) ==
  IF l.tok # "Less" THEN Ret(l, <<>>) ELSE Nth(l, <<"Less", "types", "Greater">>, 2)
\* A name, and in brackets that touch it a list.
parse_name_and(l, list) ==
  IF l.tok # "NameBeginTyValue" THEN LET n == parse_name(l) IN Made(n, <<n.v, <<>>>>)
  ELSE LET s == InOrder(l, <<"name_begin_ty", list, "Greater">>) IN Made(s, <<s.v[1], s.v[2]>>)
parse_name_and_type_actuals(l) == parse_name_and(l, "types")
parse_name_and_type_formals(l) == parse_name_and(l, "type_formals")

Primitive == [Address |-> "ADDRESS", U8 |-> "U8", U64 |-> "U64", U128 |-> "U128", Bool |-> "BOOL"]
parse_type(l) ==
  CASE l.tok \in DOMAIN Primitive -> Ret(advance(l), [tag |-> Primitive[l.tok]])
    [] l.tok = "Vector" ->
         LET ty == Nth(l, <<"Vector", "Less", "type", "end_of_generics">>, 3) IN
         Made(ty, [tag |-> "VECTOR", vector_type |-> ty.v])
    [] l.tok = "DotNameValue" ->
         LET s == InOrder(l, <<"dot_name", "type_actuals">>) IN
         Made(s, [tag |-> "STRUCT", ident |-> s.v[1], types |-> s.v[2]])
    [] l.tok \in {"Amp", "AmpMut"} ->
         LET ty == Nth(l, <<l.tok, "type">>, 2) IN
         Made(ty, [tag |-> "REFERENCE", mutable |-> l.tok = "AmpMut", reference |-> ty.v])
    [] l.tok = "NameValue" -> LET n == parse_name(l) IN Ret(n, [tag |-> "TYPE_PARAMETER", name |-> n.v])
    [] OTHER -> Fail(l)

parse_kind(l) == IF l.tok \in {"Resource", "Unrestricted"} THEN Ret(advance(l), l.tok) ELSE Fail(l)
parse_type_formal(l) ==
  LET n == parse_name(l) k == Nth(n, <<"Colon", "kind">>, 2) IN
  IF n.tok = "Colon" THEN Made(k, <<n.v, k.v>>) ELSE Made(n, <<n.v, "All">>)
parse_arg_decl(l) == LET s == InOrder(l, <<"name", "Colon", "type">>) IN Made(s, <<s.v[1], s.v[3]>>)

-----------------------------------------------------------------------------
(***************************************************************************)
(* Expressions.                                                            *)
(***************************************************************************)
Precedence == [EqualEqualGreater |-> 1, ColonEqual |-> 3, PipePipe |-> 5, AmpAmp |-> 10,
  EqualEqual |-> 15, ExclaimEqual |-> 15, Less |-> 15, Greater |-> 15, LessEqual |-> 15,
  GreaterEqual |-> 15, PeriodPeriod |-> 20, Pipe |-> 25, Caret |-> 30, Amp |-> 35, LessLess |-> 40,
  GreaterGreater |-> 40, Plus |-> 45, Minus |-> 45, Star |-> 50, Slash |-> 50, Percent |-> 50]
get_precedence(tok) == IF tok \in DOMAIN Precedence THEN Precedence[tok] ELSE 0

SpecOps == [EqualEqual |-> "EQ", ExclaimEqual |-> "NEQ", Less |-> "LT", Greater |-> "GT",
  LessEqual |-> "LE", GreaterEqual |-> "GE", PipePipe |-> "OR", AmpAmp |-> "AND", Caret |-> "XOR",
  Pipe |-> "BIT_OR", Amp |-> "BIT_AND", Plus |-> "ADD", Minus |-> "SUB", Star |-> "MUL",
  Slash |-> "DIV", Percent |-> "MOD", PeriodPeriod |-> "SUBRANGE"]
BinOps == [LessLess |-> "SHL", GreaterGreater |-> "SHR"] @@ Restrict(SpecOps, DOMAIN SpecOps \ {"PeriodPeriod"})
Binop(left, op, right) == [exp |-> "Binop", op |-> op, left |-> left, right |-> right]

CopyableVals == {"AddressValue", "TRUE", "FALSE", "U8Value", "U64Value", "U128Value", "ByteArrayValue"}
parse_copyable_val(l) ==
  LET word == content(l)[1] val(t, x) == Ret(advance(l), [exp |-> "Value", type |-> t, value |-> x]) IN
  CASE l.tok = "AddressValue" -> val("ADDRESS", Addresses[word])
    [] l.tok = "TRUE" -> val("BOOL", 1)
    [] l.tok = "FALSE" -> val("BOOL", 0)
    [] l.tok = "ByteArrayValue" -> val("BYTEARRAY", ByteArrays[word])
    [] OTHER -> LET n == Numbers[word] IN
                IF n.value <= Uint_max[n.type] THEN val(n.type, n.value) ELSE Fail(l)

Builtins == {"Exists", "BorrowGlobal", "BorrowGlobalMut", "GetTxnSender", "MoveFrom", "MoveToSender",
             "Freeze", "ToU8", "ToU64", "ToU128"}
OfStructs == {"Exists", "BorrowGlobal", "BorrowGlobalMut", "MoveFrom", "MoveToSender"}

parse_builtin(l) ==
  IF l.tok \in OfStructs
  THEN LET n == Nth(l, <<l.tok, "name_and_type_actuals", "end_of_generics">>, 2) IN
       Made(n, [call |-> "Builtin", tag |-> l.tok, name |-> n.v[1], types |-> n.v[2]])
  ELSE Ret(advance(l), [call |-> "Builtin", tag |-> l.tok, name |-> "", types |-> <<>>])

parse_qualified_function_name(l) ==
  IF l.tok \in Builtins THEN parse_builtin(l)
  ELSE LET s == InOrder(l, <<"dot_name", "type_actuals">>) IN
       Made(s, [call |-> "Module", module |-> s.v[1][1], name |-> s.v[1][2], types |-> s.v[2]])

RECURSIVE parse_rhs_of_binary_exp(_, _, _)

parse_rhs_of_binary_exp_loose(l, lhs, min_prec) ==
  LET this_prec == get_precedence(l.tok) IN
  IF this_prec < min_prec THEN Ret(l, lhs)
  ELSE LET unary == parse(advance(l), "unary_exp")
           rhs == IF this_prec <= get_precedence(unary.tok)
                  THEN parse_rhs_of_binary_exp(unary, unary.v, this_prec) ELSE unary IN
       IF l.tok \notin DOMAIN BinOps THEN Fail(l)
       ELSE parse_rhs_of_binary_exp(rhs, Binop(lhs, BinOps[l.tok], rhs.v), min_prec)
\* The loop: another operator while it binds as tightly as asked.
parse_rhs_of_binary_exp(l, lhs, min_prec) ==
  LET this_prec == get_precedence(l.tok) IN
  IF this_prec < min_prec THEN Ret(l, lhs)
  ELSE LET unary == parse(advance(l), "unary_exp")
           rhs == IF this_prec < get_precedence(unary.tok)
                  THEN parse_rhs_of_binary_exp(unary, unary.v, this_prec + 1) ELSE unary IN
       IF l.tok \notin DOMAIN BinOps THEN Fail(l)
       ELSE parse_rhs_of_binary_exp(rhs, Binop(lhs, BinOps[l.tok], rhs.v), min_prec)
parse_exp(l) == LET lhs == parse(l, "unary_exp") IN parse_rhs_of_binary_exp(lhs, lhs.v, 1)

parse_pack_(l, name, type_actuals) ==
  LET fs == Nth(l, <<"LBrace", "field_exps", "RBrace">>, 2) IN
  Made(fs, [exp |-> "Pack", name |-> name, types |-> type_actuals, fields |-> fs.v])

parse_borrow_field_(l, mutable) ==
  LET n == parse_name(l)
      inner == IF l.tok = "NameValue" THEN parse_pack_(n, n.v, <<>>) ELSE parse(l, "unary_exp")
      f == Nth(inner, <<"Period", "name">>, 2) IN
  IF l.tok = "NameValue" /\ lookahead(l) # "LBrace"
  THEN Ret(n, [exp |-> "BorrowLocal", mutable |-> mutable, var |-> n.v])
  ELSE Made(f, [exp |-> "Borrow", mutable |-> mutable, of |-> inner.v, field |-> f.v])

parse_unary_exp(l) ==
  LET e == Nth(l, <<l.tok, "unary_exp">>, 2) IN
  CASE l.tok = "Exclaim" -> Made(e, [exp |-> "Unary", of |-> e.v])
    [] l.tok = "Star" -> Made(e, [exp |-> "Dereference", of |-> e.v])
    [] l.tok \in {"Amp", "AmpMut"} -> parse_borrow_field_(advance(l), l.tok = "AmpMut")
    [] OTHER -> parse(l, "call_or_term")

ExprList(exps) == [exp |-> "ExprList", exps |-> exps]
parse_term_(l) ==
  CASE l.tok \in {"Move", "Copy"} ->
         LET n == Nth(l, <<l.tok, "name", "RParen">>, 2) IN Made(n, [exp |-> l.tok, var |-> n.v])
    [] l.tok \in {"Amp", "AmpMut"} ->
         LET n == Nth(l, <<l.tok, "name">>, 2) IN
         Made(n, [exp |-> "BorrowLocal", mutable |-> l.tok = "AmpMut", var |-> n.v])
    [] l.tok \in CopyableVals -> parse_copyable_val(l)
    [] l.tok \in {"NameValue", "NameBeginTyValue"} ->
         LET n == parse_name_and_type_actuals(l) IN parse_pack_(n, n.v[1], n.v[2])
    [] l.tok = "LParen" -> LET es == Nth(l, <<"LParen", "exps", "RParen">>, 2) IN Made(es, ExprList(es.v))
    [] OTHER -> Fail(l)

parse_call_or_term(l) ==
  IF l.tok \notin Builtins \union {"DotNameValue"} THEN parse_term_(l)
  ELSE LET s == InOrder(l, <<"qualified_function_name", "call_or_term">>) IN
       Made(s, [exp |-> "FunctionCall", call |-> s.v[1], of |-> s.v[2]])

parse_field_exp(l) == LET s == InOrder(l, <<"name", "Colon", "exp">>) IN Made(s, <<s.v[1], s.v[3]>>)

-----------------------------------------------------------------------------
(***************************************************************************)
(* Commands and statements.                                                *)
(***************************************************************************)
parse_lvalue(l) ==
  CASE l.tok = "NameValue" -> LET n == parse_name(l) IN Ret(n, [lvalue |-> "Var", var |-> n.v])
    [] l.tok = "Star" -> LET e == Nth(l, <<"Star", "exp">>, 2) IN Made(e, [lvalue |-> "Mutate", of |-> e.v])
    [] l.tok = "Underscore" -> Ret(advance(l), [lvalue |-> "Pop"])
    [] OTHER -> Fail(l)
parse_field_bindings(l) ==
  LET f == parse_name(l) v == Nth(f, <<"Colon", "name">>, 2) IN
  IF f.tok = "Colon" THEN Made(v, <<f.v, v.v>>) ELSE Made(f, <<f.v, f.v>>)

parse_assign_(l) ==
  LET s == InOrder(l, <<"lvalues", "Equal", "exp">>) IN
  Made(s, [cmd |-> "Assign", lvalues |-> s.v[1], of |-> s.v[3]])
parse_unpack_(l, name, type_actuals) ==
  LET s == InOrder(l, <<"LBrace", "bindings", "RBrace", "Equal", "exp">>) IN
  Made(s, [cmd |-> "Unpack", name |-> name, types |-> type_actuals, bindings |-> s.v[2], of |-> s.v[5]])

parse_cmd_(l) ==
  CASE l.tok \in {"Star", "Underscore"} \/ (l.tok = "NameValue" /\ lookahead(l) # "LBrace") -> parse_assign_(l)
    [] l.tok = "NameBeginTyValue" \/ (l.tok = "NameValue" /\ lookahead(l) = "LBrace") ->
         LET n == parse_name_and_type_actuals(l) IN parse_unpack_(n, n.v[1], n.v[2])
    [] l.tok = "Abort" /\ lookahead(l) = "Semicolon" -> Ret(advance(l), [cmd |-> "Abort", of |-> None])
    [] l.tok = "Abort" /\ lookahead(l) # "Semicolon" ->
         LET e == Nth(l, <<"Abort", "exp">>, 2) IN Made(e, [cmd |-> "Abort", of |-> e.v])
    [] l.tok = "Return" ->
         LET es == Nth(l, <<"Return", "returned">>, 2) IN Made(es, [cmd |-> "Return", of |-> ExprList(es.v)])
    [] l.tok \in {"Continue", "Break"} -> Ret(advance(l), [cmd |-> l.tok])
    [] l.tok \in Builtins \union {"DotNameValue", "LParen"} ->
         LET e == parse(l, "call_or_term") IN Made(e, [cmd |-> "Exp", of |-> e.v])
    [] OTHER -> Fail(l)

parse_block(l) == Nth(l, <<"LBrace", "statements", "RBrace">>, 2)

parse_if_statement(l) ==
  LET then == InOrder(l, <<"If", "LParen", "exp", "RParen", "block">>)
      otherwise == InOrder(then, <<"Else", "block">>)
      IfElse(s, else_block) == Made(s, [stmt |-> "IfElse", cond |-> then.v[3], if_block |-> then.v[5], else_block |-> else_block]) IN
  IF then.tok = "Else" THEN IfElse(otherwise, <<otherwise.v[2]>>) ELSE IfElse(then, None)
parse_while_statement(l) ==
  LET s == InOrder(l, <<"While", "LParen", "exp", "RParen", "block">>) IN
  Made(s, [stmt |-> "While", cond |-> s.v[3], block |-> s.v[5]])
parse_loop_statement(l) ==
  LET block == Nth(l, <<"Loop", "block">>, 2) IN Made(block, [stmt |-> "Loop", block |-> block.v])

\* assert(e, err) is if (!e) { abort err; }
parse_assert(l) ==
  LET s == InOrder(l, <<"Assert", "exp", "Comma", "exp", "RParen">>) IN
  Made(s, [stmt |-> "IfElse", cond |-> [exp |-> "Unary", of |-> s.v[2]],
           if_block |-> << [stmt |-> "Command", cmd |-> [cmd |-> "Abort", of |-> s.v[4]]] >>, else_block |-> None])

parse_statement(l) ==
  CASE l.tok = "Assert" -> parse_assert(l)
    [] l.tok = "If" -> parse_if_statement(l)
    [] l.tok = "While" -> parse_while_statement(l)
    [] l.tok = "Loop" -> parse_loop_statement(l)
    [] l.tok = "Semicolon" -> Ret(advance(l), [stmt |-> "Empty"])
    [] OTHER -> LET c == Nth(l, <<"cmd", "Semicolon">>, 1) IN Made(c, [stmt |-> "Command", cmd |-> c.v])

\* Whatever there is, up to the brace.
RECURSIVE parse_statements(_, _)
parse_statements(l, done) ==
  IF l.tok \in {"RBrace", "Error"} THEN Made(l, done)
  ELSE LET st == parse(l, "statement") IN parse_statements(st, Append(done, st.v))

parse_declaration(l) ==
  LET s == InOrder(l, <<"Let", "name", "Colon", "type", "Semicolon">>) IN Made(s, <<s.v[2], s.v[4]>>)
parse_function_block_(l) ==
  LET s == InOrder(l, <<"LBrace", "declarations", "statements", "RBrace">>) IN
  Made(s, [locals |-> s.v[2], code |-> s.v[3]])

-----------------------------------------------------------------------------
(***************************************************************************)
(* The specification language, read with the lexer in its other mode.      *)
(***************************************************************************)
spec_parse_dot_name(l) == LET s == InOrder(l, <<"name", "Period", "name">>) IN Made(s, <<s.v[1], s.v[3]>>)

RECURSIVE parse_rhs_of_spec_exp(_, _, _), parse_fields_and_indices(_, _)
parse_spec_exp(l) == LET lhs == parse(l, "unary_spec_exp") IN parse_rhs_of_spec_exp(lhs, lhs.v, 1)

\* global<type>(address) and global_exists<type>(address)
parse_global(l, tok) ==
  LET s == InOrder(l, <<tok, "Less", "spec_dot_name", "type_actuals", "Greater", "LParen", "storage_location", "RParen">>) IN
  Made(s, [spec |-> tok, ident |-> s.v[3], types |-> s.v[4], of |-> s.v[7]])

parse_fields_and_indices(l, done) ==
  CASE l.tok = "Period" ->
         LET f == Nth(l, <<"Period", "name">>, 2) IN
         parse_fields_and_indices(f, Append(done, [step |-> "Field", field |-> f.v]))
    [] l.tok = "LSquare" ->
         LET e == Nth(l, <<"LSquare", "spec_exp", "RSquare">>, 2) IN
         parse_fields_and_indices(e, Append(done, [step |-> "Index", of |-> e.v]))
    [] OTHER -> Made(l, done)

parse_return_index(l) ==
  IF l.tok = "U64Value" /\ Numbers[content(l)[1]].value <= Uint_max.U8
  THEN Ret(advance(l), Numbers[content(l)[1]].value) ELSE Fail(l)
parse_storage_location(l) ==
  LET base ==
    CASE l.tok = "SpecReturn" /\ lookahead(l) # "LParen" -> Ret(advance(l), [spec |-> "Return", index |-> 0])
      [] l.tok = "SpecReturn" /\ lookahead(l) = "LParen" ->
           LET i == Nth(l, <<"SpecReturn", "LParen", "return_index", "RParen">>, 3) IN
           Made(i, [spec |-> "Return", index |-> i.v])
      [] l.tok = "TxnSender" -> Ret(advance(l), [spec |-> "TxnSender"])
      [] l.tok = "AddressValue" ->
           LET a == parse_account_address(l) IN Ret(a, [spec |-> "Address", address |-> a.v])
      [] l.tok = "Global" -> parse_global(l, "Global")
      [] OTHER -> LET n == parse_name(l) IN Made(n, [spec |-> "Formal", name |-> n.v])
      path == parse_fields_and_indices(base, <<>>) IN
  IF path.v = <<>> THEN Made(path, base.v)
  ELSE Made(path, [spec |-> "AccessPath", base |-> base.v, path |-> path.v])

parse_unary_spec_exp(l) ==
  LET spec(name, items, n) == LET e == Nth(l, items, n) IN Made(e, [spec |-> name, of |-> e.v]) IN
  CASE l.tok \in CopyableVals -> spec("Constant", <<"copyable_val">>, 1)
    [] l.tok = "GlobalExists" -> parse_global(l, "GlobalExists")
    [] l.tok = "Star" -> spec("Dereference", <<"Star", "storage_location">>, 2)
    [] l.tok = "Amp" -> spec("Reference", <<"Amp", "storage_location">>, 2)
    [] l.tok = "Exclaim" -> spec("Not", <<"Exclaim", "unary_spec_exp">>, 2)
    [] l.tok = "Old" -> spec("Old", <<"Old", "LParen", "spec_exp", "RParen">>, 3)
    [] l.tok = "NameValue" /\ lookahead(l) = "LParen" ->
         LET s == InOrder(l, <<"name", "LParen", "spec_exps", "RParen">>) IN
         Made(s, [spec |-> "Call", name |-> s.v[1], args |-> s.v[3]])
    [] OTHER -> spec("StorageLocation", <<"storage_location">>, 1)

\* p ==> c is !p || c.
parse_rhs_of_spec_exp(l, lhs, min_prec) ==
  LET this_prec == get_precedence(l.tok) binop(op, left, right) == [spec |-> "Binop", op |-> op, left |-> left, right |-> right] IN
  IF this_prec < min_prec THEN Ret(l, lhs)
  ELSE LET unary == parse(advance(l), "unary_spec_exp")
           rhs == IF this_prec < get_precedence(unary.tok)
                  THEN parse_rhs_of_spec_exp(unary, unary.v, this_prec + 1) ELSE unary IN
       CASE l.tok = "EqualEqualGreater" ->
              parse_rhs_of_spec_exp(rhs, binop("OR", [spec |-> "Not", of |-> lhs], rhs.v), min_prec)
         [] l.tok = "ColonEqual" ->
              parse_rhs_of_spec_exp(rhs, [spec |-> "Update", left |-> lhs, right |-> rhs.v], min_prec)
         [] l.tok \in DOMAIN SpecOps -> parse_rhs_of_spec_exp(rhs, binop(SpecOps[l.tok], lhs, rhs.v), min_prec)
         [] OTHER -> Fail(l)

InMode(l, mode) == [l EXCEPT !.spec_mode = mode]
Directives == {"AbortsIf", "Ensures", "Requires", "SucceedsIf"}
parse_spec_condition(l) ==
  LET e == parse(advance(InMode(l, TRUE)), "spec_exp") IN
  IF l.tok \in Directives THEN Ret(InMode(e, FALSE), [directive |-> l.tok, of |-> e.v]) ELSE Fail(InMode(l, FALSE))

parse_modifier(l) == IF l.tok = "LBrace" THEN Nth(l, <<"LBrace", "name", "RBrace">>, 2) ELSE Ret(l, "")
parse_target(l) ==
  IF l.tok = "NameValue" /\ lookahead(l) = "Equal" THEN Nth(l, <<"name", "Equal">>, 1) ELSE Ret(l, "")
parse_invariant(l) ==
  LET s == InOrder(InMode(l, TRUE), <<"Invariant", "modifier", "target", "spec_exp">>) IN
  Made(InMode(s, FALSE), [modifier |-> s.v[2], target |-> s.v[3], of |-> s.v[4]])

parse_synthetic(l) ==
  LET s == InOrder(InMode(l, TRUE), <<"Synthetic", "name", "Colon", "type", "Semicolon">>) IN
  Made(InMode(s, FALSE), <<s.v[2], s.v[4]>>)

-----------------------------------------------------------------------------
(***************************************************************************)
(* Modules and scripts.                                                    *)
(***************************************************************************)
Optional(l, tok) == IF l.tok = tok THEN Ret(advance(l), TRUE) ELSE Ret(l, FALSE)

parse_return_type(l) ==
  IF l.tok = "Colon" THEN parse_separated(advance(l), "Star", "type", <<>>) ELSE Ret(l, <<>>)
parse_acquire_list(l) ==
  IF l.tok = "Acquires" THEN parse_separated(advance(l), "Comma", "name", <<>>) ELSE Ret(l, <<>>)

parse_function_decl(l) ==
  LET s == InOrder(l, <<"native?", "public?", "name_and_type_formals", "LParen", "arg_decls", "RParen",
                        "return_type", "acquire_list", "specifications">>)
      end == InOrder(s, IF s.v[1] THEN <<"Semicolon">> ELSE <<"function_block">>) IN
  IF s.tok = "Error" THEN s
  ELSE Made(end, [name |-> s.v[3][1], public |-> s.v[2], formals |-> s.v[5], return_type |-> s.v[7],
                  type_formals |-> s.v[3][2], acquires |-> s.v[8], specifications |-> s.v[9],
                  body |-> IF s.v[1] THEN None ELSE end.v])

StructKinds == {"Struct", "Resource"}
is_struct_decl(l) == (IF l.tok = "Native" THEN lookahead(l) ELSE l.tok) \in StructKinds

parse_struct_decl(l) ==
  LET native == Optional(l, "Native")
      n == InOrder(native, <<native.tok, "name_and_type_formals">>)
      rest == InOrder(n, IF native.v THEN <<"Semicolon">> ELSE <<"LBrace", "fields", "invariants", "RBrace">>) IN
  IF native.tok \notin StructKinds THEN Fail(l)
  ELSE Made(rest, [name |-> n.v[2][1], is_nominal_resource |-> native.tok = "Resource", type_formals |-> n.v[2][2],
                   fields |-> IF native.v THEN None ELSE <<rest.v[2]>>,
                   invariants |-> IF native.v THEN <<>> ELSE rest.v[3]])

\* A module of the same transaction has no address yet.
parse_module_ident(l) ==
  LET s == InOrder(l, <<"account_address", "Period", "name">>) t == parse_dot_name(l) IN
  IF l.tok = "AddressValue" THEN Made(s, <<<<s.v[1]>>, s.v[3]>>)
  ELSE IF t.v # None /\ t.v[1] = "Transaction" THEN Ret(t, <<None, t.v[2]>>) ELSE Fail(l)

parse_import_decl(l) ==
  LET ident == Nth(l, <<"Import", "module_ident">>, 2)
      as == IF ident.tok = "As" THEN Nth(ident, <<"As", "name">>, 2) ELSE Made(ident, ident.v[2])
      end == consume_token(as, "Semicolon") IN
  IF ident.tok = "As" /\ as.tok # "Error" /\ as.v = Self THEN Fail(l) ELSE Made(end, [ident |-> ident.v, alias |-> as.v])

parse_script(l) ==
  LET s == InOrder(l, <<"imports", "Main", "LParen", "arg_decls", "RParen", "function_block">>) IN
  Made(s, [script |-> TRUE, name |-> Self, imports |-> s.v[1], synthetics |-> <<>>, structs |-> <<>>,
    functions |-> << [name |-> "main", public |-> TRUE, formals |-> s.v[4], return_type |-> <<>>,
      type_formals |-> <<>>, acquires |-> <<>>, specifications |-> <<>>, body |-> << s.v[6] >>] >>])

RECURSIVE parse_structs(_, _), parse_functions(_, _)
parse_structs(l, done) ==
  IF ~is_struct_decl(l) THEN Made(l, done)
  ELSE LET s == parse(l, "struct_decl") IN parse_structs(s, Append(done, s.v))
parse_functions(l, done) ==
  IF l.tok \in {"RBrace", "Error"} THEN Made(l, done)
  ELSE LET f == parse(l, "function_decl") IN parse_functions(f, Append(done, f.v))

parse_module(l) ==
  LET s == InOrder(l, <<"Module", "name", "LBrace", "imports", "synthetics", "structs", "functions", "RBrace">>) IN
  Made(s, [script |-> FALSE, name |-> s.v[2], imports |-> s.v[4], synthetics |-> s.v[5],
           structs |-> s.v[6], functions |-> s.v[7]])

parse_script_or_module(text) ==
  LET l == advance(NewLexer(text)) IN parse(l, IF l.tok = "Module" THEN "module" ELSE "script")

parse(l, item) ==
  CASE item \in DOMAIN Lists ->
         LET list == Lists[item] IN parse_comma_list(l, list.ends, list.item, list.trailing)
    [] item = "name" -> parse_name(l)
    [] item = "name_begin_ty" -> parse_name_begin_ty(l)
    [] item = "account_address" -> parse_account_address(l)
    [] item = "dot_name" -> parse_dot_name(l)
    [] item = "type_actuals" -> parse_type_actuals(l)
    [] item = "name_and_type_actuals" -> parse_name_and_type_actuals(l)
    [] item = "type" -> parse_type(l)
    [] item = "kind" -> parse_kind(l)
    [] item = "type_formal" -> parse_type_formal(l)
    [] item = "arg_decl" -> parse_arg_decl(l)
    [] item = "qualified_function_name" -> parse_qualified_function_name(l)
    [] item = "copyable_val" -> parse_copyable_val(l)
    [] item = "exp" -> parse_exp(l)
    [] item = "unary_exp" -> parse_unary_exp(l)
    [] item = "call_or_term" -> parse_call_or_term(l)
    [] item = "field_exp" -> parse_field_exp(l)
    [] item = "lvalue" -> parse_lvalue(l)
    [] item = "field_bindings" -> parse_field_bindings(l)
    [] item = "cmd" -> parse_cmd_(l)
    [] item = "statement" -> parse_statement(l)
    [] item = "block" -> parse_block(l)
    [] item = "declaration" -> parse_declaration(l)
    [] item = "function_block" -> parse_function_block_(l)
    [] item = "spec_dot_name" -> spec_parse_dot_name(l)
    [] item = "spec_exp" -> parse_spec_exp(l)
    [] item = "unary_spec_exp" -> parse_unary_spec_exp(l)
    [] item = "storage_location" -> parse_storage_location(l)
    [] item = "return_index" -> parse_return_index(l)
    [] item = "spec_condition" -> parse_spec_condition(l)
    [] item = "modifier" -> parse_modifier(l)
    [] item = "target" -> parse_target(l)
    [] item = "invariant" -> parse_invariant(l)
    [] item = "synthetic" -> parse_synthetic(l)
    [] item = "name_and_type_formals" -> parse_name_and_type_formals(l)
    [] item = "return_type" -> parse_return_type(l)
    [] item = "acquire_list" -> parse_acquire_list(l)
    [] item = "function_decl" -> parse_function_decl(l)
    [] item = "struct_decl" -> parse_struct_decl(l)
    [] item = "module_ident" -> parse_module_ident(l)
    [] item = "import_decl" -> parse_import_decl(l)
    [] item = "module" -> parse_module(l)
    [] item = "script" -> parse_script(l)
    [] item = "end_of_generics" -> consume_end_of_generics(l)
    [] item = "native?" -> Optional(l, "Native")
    [] item = "public?" -> Optional(l, "Public")
    [] item = "declarations" -> parse_many(l, {"Let"}, "declaration", <<>>)
    [] item = "statements" -> parse_statements(l, <<>>)
    [] item = "specifications" -> parse_many(l, Directives, "spec_condition", <<>>)
    [] item = "imports" -> parse_many(l, {"Import"}, "import_decl", <<>>)
    [] item = "synthetics" -> parse_many(l, {"Synthetic"}, "synthetic", <<>>)
    [] item = "structs" -> parse_structs(l, <<>>)
    [] item = "functions" -> parse_functions(l, <<>>)
    [] OTHER -> consume_token(l, item)
=============================================================================
