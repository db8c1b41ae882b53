---------------------------- MODULE MCIRProgram -----------------------------
EXTENDS IRProgram

\* The pieces of a text: the words, and everything else character by character.
Punctuation == {" ", "&", "|", "=", "!", "<", ">", ".", ":", "%", "(", ")", "*", "+", ",", "-", "/", ";", "^",
                "{", "}", "[", "]"}
RECURSIVE PiecesFrom(_, _)
PiecesFrom(s, i) ==
  LET char(j) == SubSeq(s, j, j)
      ends == {j \in i + 1 .. i + 20 : j > Len(s) \/ char(j) \in Punctuation}
      end == IF char(i) \in Punctuation THEN i + 1 ELSE CHOOSE j \in ends : \A k \in ends : j <= k IN
  IF i > Len(s) THEN <<>> ELSE <<SubSeq(s, i, end - 1)>> \o PiecesFrom(s, end)
\* A long text is cut at a blank.
RECURSIVE Pieces(_)
Pieces(s) ==
  LET n == Len(s) cuts == {k \in n \div 2 .. n : SubSeq(s, k, k) = " "} cut == CHOOSE k \in cuts : \A j \in cuts : k <= j IN
  IF n < 60 \/ cuts = {} THEN PiecesFrom(s, 1)
  ELSE Pieces(SubSeq(s, 1, cut - 1)) \o <<" ">> \o Pieces(SubSeq(s, cut + 1, n))

U8(n) == ValueOf("U8", n)
U64(n) == ValueOf("U64", n)
MCNumbers ==
  "0u8" :> U8(0) @@ "1u8" :> U8(1) @@ "2u8" :> U8(2) @@ "3u8" :> U8(3) @@ "6u8" :> U8(6) @@ "7u8" :> U8(7)
  @@ "9u8" :> U8(9) @@ "250u8" :> U8(250) @@ "253u8" :> U8(253) @@ "254u8" :> U8(254) @@ "300u8" :> U8(300)
  @@ "0" :> U64(0) @@ "1" :> U64(1) @@ "2" :> U64(2) @@ "7" :> U64(7) @@ "300" :> U64(300)
  @@ "5u128" :> ValueOf("U128", 5)
MCAddresses == ("0x1" :> 1) @@ ("0x2" :> 2)
MCByteArrays == "b_00ff" :> <<0, 255>>

\* The module D that the others use.
MCLibrary == Pieces("module D { struct P<T> { n: u8, a: T } resource R { v: u8 } struct Q { p: Self.P<u64>, b: bool } native " \o
    "struct N<T>; public make<T>(x: T, n: u8): Self.P<T> { return P<T> { n: move(n), a: move(x) }; } public " \o
    "number<T>(p: &Self.P<T>): u8 { return *&move(p).n; } public value<T>(p: &mut Self.P<T>): &mut T { return " \o
    "&mut move(p).a; } public two(a: u8, b: u8): u8 * u8 { return move(a) + 1u8, move(b); } public outer(p: " \o
    "Self.P<u64>): Self.Q { return Q { p: move(p), b: true }; } public put(v: u8) { move_to_sender<R>(R { v: " \o
    "move(v) }); return; } public raise(a: address, by: u8) acquires R { let r: &mut Self.R; r = " \o
    "borrow_global_mut<R>(move(a)); *&mut copy(r).v = *&copy(r).v + move(by); return; } public take(): u8 " \o
    "acquires R { let v: u8; R { v } = move_from<R>(get_txn_sender()); return move(v); } hidden() { return; } " \o
    "}")

-----------------------------------------------------------------------------
\* A program, and what is asked of it: started with these arguments, it may be refused, and it may have
\* forms that the tree has no trace of.
ProgramOf(text, start, args, refused, sugared) ==
  [text |-> text, start |-> start, args |-> args, refused |-> refused, sugared |-> sugared]

InM(s) == Pieces("module M { import 0x1.D; ") \o Pieces(s) \o <<"}">>

\* Structs of both modules, put together and taken apart.
Unpacked == InM("struct S<K> { a: u8, d: D.P<u64>, k: K } f(x: u8, y: u8): u8 * u64 * bool { let s: Self.S<bool>; let p: " \o
    "D.P<u64>; let q: bool; p = D.make<u64>(7, copy(x)); s = S<bool> { a: copy(x) - copy(y), d: move(p), k: " \o
    "copy(x) < 7u8 }; S<bool> { a: x, d: p, k: q } = move(s); return copy(x), * D.value<u64>(&mut p), " \o
    "move(q); }")

\* Fields of fields, through references.
Borrowed == InM("struct T { b: bool, n: u8 } struct S<K> { k: K, t: Self.T } f(x: u8, y: u8): u8 * u8 * bool { let s: " \o
    "Self.S<u8>; let r: &mut Self.T; s = S<u8> { k: copy(x), t: T { b: false, n: copy(y) } }; r = &mut &mut s " \o
    ".t; * &mut copy(r).n = * & & s .k + * & copy(r).n; * &mut move(r).b = true; return * & & & s .t .n, * & " \o
    "& s .k, * & & & s .t .b == ! (* freeze(& & & s .t .b)); }")

\* Several values at once, the last first.
Several == InM("f(x: u8, y: u8): u8 * u8 * u8 { let a: u8; let r: &mut u8; a = 0u8; r = &mut a; x, * copy(r) = " \o
    "D.two(copy(x), copy(y)); * move(r), _ = D.two(copy(a), copy(x)); y, y = D.two(copy(a), copy(x)); return " \o
    "copy(a), copy(x), copy(y); }")

\* Functions of the module itself, with types for their parameters.
Generic == InM("struct W<T> { t: T, v: u8 } wrap<T>(t: T, v: u8): Self.W<T> { return W<T> { t: move(t), v: move(v) }; } " \o
    "first<K>(w: & Self.W<K>): & K { return & move(w).t; } both<A, B: resource>(a: A, b: & Self.W<A>): A * u8 " \o
    "{ return move(a), * & copy(b).v + * Self.second<A>(move(b)); } second<T>(w: & Self.W<T>): & u8 { return " \o
    "& move(w).v; } f(x: u8, y: u8): bool * u8 { let w: Self.W<Self.W<u8>>; let v: Self.W<u8>; v = " \o
    "Self.wrap<u8>(copy(x), copy(y)); w = Self.wrap<Self.W<u8>>(move(v), 3u8); return * & " \o
    "(Self.first<Self.W<u8>>(& w)).t == * & & & w .t .t, * & & & w .t .v; }")

\* Resources of the sender, and of a generic struct.
Stored == InM("resource R { v: u8 } resource G<T> { t: T } f(x: u8, y: u8): u8 * bool * bool acquires R, G { let r: " \o
    "&mut Self.R; let t: u8; if (copy(x) < 7u8) { move_to_sender<R>(R { v: copy(x) }); } else { y = 0u8; } " \o
    "move_to_sender<G<u8>>(G<u8> { t: copy(y) }); r = borrow_global_mut<R>(get_txn_sender()); * &mut " \o
    "copy(r).v = * & copy(r).v * * & borrow_global<G<u8>>(0x1).t; x = * & move(r).v; G<u8> { t: t } = " \o
    "move_from<G<u8>>(0x1); return copy(x) - copy(t), exists<R>(0x2), exists<G<bool>>(get_txn_sender()); }")

\* Resources of the other module.
Called == InM("f(x: u8, y: u8): u8 * bool { D.put(copy(x)); if (copy(y) == 2u8) { D.raise(get_txn_sender(), copy(y)); } " \o
    "if (copy(x) == 250u8) { D.raise(0x2, 1u8); } if (copy(y) == 3u8) { D.put(1u8); } return D.take(), 0x1 == " \o
    "get_txn_sender(); }")

\* Numbers of one type as numbers of another.
Casting == InM("f(x: u8, y: u8): u64 * u128 * u8 { let n: u64; n = to_u64(copy(x)) + 300; if (copy(y) == 2u8) { n = " \o
    "move(n) / 300; } return to_u64(to_u128(copy(n))), to_u128(copy(y)) + 5u128, to_u8(move(n)); }")

\* Byte arrays and addresses, and values that are not used.
Bytes == InM("f(x: u8, y: u8): bool * vector<u8> { let b: vector<u8>; ; b = b_00ff; _ = 0x2; (); return 0x2 != " \o
    "get_txn_sender() && copy(b) == b_00ff, move(b); }")

\* A struct of the other module that holds another one of it.
Outer == InM("f(x: u8, y: u8): D.Q * u8 { let p: D.P<u64>; p = D.make<u64>(1, copy(x)); y = D.number<u64>(& p); * " \o
    "D.value<u64>(&mut p) = 7; return D.outer(move(p)), copy(y); }")

\* A function that ends without a return.
Unchecked == InM("f(x: u8, y: u8) { if (copy(x) == 7u8) { return; } y = 1u8; }")

\* An assertion, for which the parser has an if.
Asserted == InM("f(x: u8, y: u8): u8 { assert(copy(x) == 6u8 || copy(y) == 2u8, 7); assert(copy(x) != 6u8, 300); return " \o
    "copy(x),; }")

\* A script.
Script == Pieces("import 0x1.D; main(x: u8) { let y: u8; D.put(copy(x)); y = D.take() / copy(x); return; }")

\* A module under another name.
Aliased == Pieces("module M { import 0x1.D as E; import Transaction.N; f(x: u8, y: u8): u8 * u8 { return E.two(copy(x), " \o
    "copy(y)); } }")

\* Specifications.
Specified == InM("synthetic total: u8; struct S<T> { a: T, n: u8, invariant n < 3u8, invariant{update} total = total + " \o
    "1u8, invariant{pack} a.n[0] == 1 } struct Nothing { a: u8 } native struct V<T: unrestricted>; native " \o
    "public size<T>(v: & Self.V<T>): u64; public f(x: u8, a: address): u8 * bool acquires S aborts_if ! " \o
    "global_exists<M.S<u8>>(txn_sender) || x + 1u8 * 2u8 > 250u8 aborts_if x .. 2u8 == 3u8 - 2u8 - 1u8 " \o
    "ensures RET(1) && RET(0) == old(x) + 1u8 & 3u8 ensures old(global<M.S>(a).a) == * x.n requires helper(x, " \o
    "& a) ^ 7u8 | 3u8 succeeds_if total := total / 2u8 % 3u8 { return copy(x), true; } native hidden<T>(): " \o
    "bool;")

\* An implication, which is written as a disjunction.
Implied == InM("f(x: u8) ensures x == 1u8 ==> x == RET(0) ==> true { return; }")

\* What follows a module is not read.
Followed == Pieces("module M { } }")

Ran ==
  {ProgramOf(Unpacked, "f", a, FALSE, FALSE) : a \in {<<U8(6), U8(2)>>, <<U8(7), U8(9)>>}} \union
  {ProgramOf(Borrowed, "f", a, FALSE, FALSE) : a \in {<<U8(6), U8(2)>>}} \union
  {ProgramOf(Several, "f", a, FALSE, FALSE) : a \in {<<U8(6), U8(2)>>}} \union
  {ProgramOf(Generic, "f", a, FALSE, TRUE) : a \in {<<U8(6), U8(2)>>}} \union
  {ProgramOf(Stored, "f", a, FALSE, FALSE) : a \in {<<U8(6), U8(2)>>, <<U8(7), U8(2)>>, <<U8(1), U8(2)>>}} \union
  {ProgramOf(Called, "f", a, FALSE, FALSE) : a \in {<<U8(6), U8(2)>>, <<U8(254), U8(2)>>, <<U8(250), U8(1)>>, <<U8(250), U8(3)>>, <<U8(6), U8(3)>>}} \union
  {ProgramOf(Casting, "f", a, FALSE, FALSE) : a \in {<<U8(6), U8(2)>>, <<U8(6), U8(3)>>}} \union
  {ProgramOf(Bytes, "f", a, FALSE, FALSE) : a \in {<<U8(6), U8(2)>>}} \union
  {ProgramOf(Outer, "f", a, FALSE, FALSE) : a \in {<<U8(6), U8(2)>>}} \union
  {ProgramOf(Unchecked, "f", a, FALSE, FALSE) : a \in {<<U8(6), U8(2)>>, <<U8(7), U8(2)>>}} \union
  {ProgramOf(Asserted, "f", a, FALSE, TRUE) : a \in {<<U8(6), U8(2)>>, <<U8(7), U8(3)>>, <<U8(7), U8(2)>>}} \union
  {ProgramOf(Script, "main", a, FALSE, FALSE) : a \in {<<U8(6)>>, <<U8(0)>>}} \union
  {ProgramOf(Aliased, "f", a, FALSE, FALSE) : a \in {<<U8(6), U8(2)>>}}

Declared == {ProgramOf(t, "", <<>>, FALSE, t # Specified) : t \in {Specified, Implied, Followed}}

\* Texts that are refused, by the parser or by the compiler.
Wrong ==
  {ProgramOf(InM(s), "", <<>>, TRUE, TRUE) : s \in
    {"f(): u8 { return 300u8; }",
     "f() { g(); return; }",
     "f(): u8 { return copy(x); }",
     "f() { D.nothing(); return; }",
     "struct S { a: u8 } f(s: & Self.S): u8 { return * & move(s).b; }",
     "f(s: Self.S) { return; }",
     "struct S { a: u8, b: u8 } f(): Self.S { return S { b: 1u8, a: 2u8 }; }",
     "f(a: u8, b: u8, c: u8) { let d: u8; let e: u8; let g: u8; return; }",
     "f(a: u8, a: u8) { return; }",
     "f(x: u8): u8 { return * &x.f; }",
     "import 0x1.D as Self; f() { return; }"}}

-----------------------------------------------------------------------------
\* Control: loops end when a variable runs into the limit of its type, or when they are left.
Fun(s) == InM("f(x: u8, y: u8): u8 { let a: u8; " \o s \o "return copy(x); }")
IncX == "x = copy(x) + 1u8; "
IncY == "y = copy(y) + 1u8; "
Leaves == {IncX, IncY \o "break;", "continue;", "return 9u8;", "abort 7;", ""}
If(c, a) == "if (" \o c \o ") { " \o a \o "}"
IfElse(c, a, b) == If(c, a) \o " else { " \o b \o "}"
While(c, a) == "while (" \o c \o ") { " \o a \o "}"
Loop(a) == "loop { " \o a \o "}"
Conditions == {"copy(x) < 254u8", "copy(y) == 253u8"}
Small == {IncX \o "break;", "continue;"} \union {If(c, a) : c \in Conditions, a \in Leaves}
         \union {IfElse(c, a, b) : c \in Conditions, a \in Leaves, b \in Leaves}
         \union {While(c, IncX \o a) : c \in Conditions, a \in {"", "break;", "continue;"}}
         \union {Loop(IncX \o a) : a \in {"break;", If("copy(x) == 254u8", "break;") \o "continue;"}}
Control ==
  {ProgramOf(Fun(w), "f", <<U8(252), U8(252)>>, FALSE, FALSE) :
     w \in {Loop(a \o IncX \o b) : a \in Small, b \in {"", IncY \o "break;"}}
           \union {While(c, a \o IncY) \o IncX : c \in Conditions, a \in Small}}
  \union {ProgramOf(Fun(a), "", <<>>, TRUE, TRUE) : a \in {"break;", "continue;"}}

\* Expressions: every two operators in a row that take the same types.
MCOps == {"+", "-", "*", "/", "%", "&", "|", "^", "<<", ">>"}
MCCompares == {"==", "!=", "<", "<=", ">", ">="}
Formulas ==
  {"u8 { return copy(x) " \o o \o " copy(y) " \o p \o " 3u8; }" : o \in MCOps, p \in MCOps}
  \union {"bool { return copy(x) " \o o \o " copy(y) " \o c \o " 3u8; }" : o \in MCOps, c \in MCCompares}
  \union {"bool { return copy(x) " \o c \o " copy(y) " \o l \o " 3u8 < copy(y); }" : c \in MCCompares, l \in {"&&", "||"}}
  \union {"bool { return !(copy(x) " \o c \o " copy(y)) " \o l \o " true; }" : c \in MCCompares, l \in {"&&", "||", "=="}}
Expressions ==
  {ProgramOf(InM("f(x: u8, y: u8): " \o t), "f", <<U8(x), U8(2)>>, FALSE, FALSE) : t \in Formulas, x \in {6, 129}}

MCPrograms == Ran \union Declared \union Wrong \union Control \union Expressions
=============================================================================
