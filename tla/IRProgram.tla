----------------------------- MODULE IRProgram ------------------------------
(***************************************************************************)
(* What becomes of a text of the IR: it is parsed, the tree is compiled    *)
(* with the module it depends on, and a function of the compiled module is *)
(* run.  The module it depends on came about in the same way.              *)
(***************************************************************************)
EXTENDS IRCompiler, IRSemantics

CONSTANTS Programs,            \* [text, start, args, refused]
          Library,             \* the text of the module the others depend on
          Address,             \* where the modules are published
          FUEL

LibraryTree == parse_script_or_module(Library).v
LibraryUnit == compile(LibraryTree, Address, {}).unit
LibraryId == <<Address, LibraryTree.name>>

VARIABLES program, phase, tree, made,
          meant                \* what the program should do
vars == <<program, phase, tree, made, meant, units, vm>>

SelfId == <<Address, tree.name>>
Idle == [frames |-> <<>>, stack |-> <<>>, mem |-> <<>>, outcome |-> <<>>]

Init == /\ program \in Programs
        /\ phase = "text"
        /\ tree = None /\ made = None /\ meant = None /\ units = <<>> /\ vm = Idle

Parse ==
  /\ phase = "text"
  /\ \E l \in {parse_script_or_module(program.text)} :
       /\ phase' = IF l.tok = "Error" THEN "refused" ELSE "parsed"
       /\ tree' = l.v
  /\ UNCHANGED <<program, made, meant, units, vm>>

Compile ==
  /\ phase = "parsed"
  /\ \E c \in {compile(tree, Address, {LibraryUnit})} :
       /\ phase' = IF c.result = "compiled" THEN "compiled" ELSE "refused"
       /\ made' = c
  /\ UNCHANGED <<program, tree, meant, units, vm>>

Start ==
  /\ phase = "compiled" /\ program.start # ""
  /\ phase' = "run"
  /\ units' = (SelfId :> into_module(made.unit)) @@ (LibraryId :> LibraryUnit)
  /\ vm' = execute_main(SelfId, CHOOSE i \in function_definition(into_module(made.unit), program.start) : TRUE, program.args)
  /\ meant' = Meaning((SelfId :> tree) @@ (LibraryId :> LibraryTree), SelfId, program.start, program.args, FUEL)
  /\ UNCHANGED <<program, tree, made>>

Run == phase = "run" /\ execute_code_unit /\ UNCHANGED <<program, phase, tree, made, meant>>

Next == Parse \/ Compile \/ Start \/ Run
\* A program that runs goes on running.
Spec == Init /\ [][Next]_vars /\ WF_vars(Run)

-----------------------------------------------------------------------------
\* What is parsed has the text it was parsed from, operators bind as the parser says they do,
\* and only a text that is not of the language is refused.  (syntax.py, lexer.py)
ReadsItsText ==
  /\ phase = "refused" => program.refused
  /\ phase = "parsed" =>
       /\ Binds(tree)
       /\ ~program.sugared => /\ WithoutBlanks(Text(tree)) = WithoutBlanks(program.text)
                             /\ parse_script_or_module(Text(tree)).v = tree

\* A compiled module passes the checks of its indices and its entries, and names what it uses
\* of the other module as that module defines it.  (compiler.py, context.py)
PassesTheChecks ==
  phase = "compiled" =>
    \A u \in {into_module(made.unit)}, library \in {LibraryUnit} :
      /\ BoundsChecker(u)
      /\ tree.script \/ DuplicationChecker(u)
      /\ ~raises_key_error(u, library)
      /\ verify_struct_kind(u, library) /\ verify_function_visibility_and_type(u, library)
      /\ UnusedEntryChecker(u)

RECURSIVE HasTag(_, _), HasType(_, _)
HasTag(v, tag) ==
  IF tag[1] # "STRUCT" THEN v.type = tag[1]
  ELSE LET owner == units[tag[2]]
           def == owner.struct_defs[CHOOSE i \in struct_definition(owner, tag[3]) : TRUE]
           token(i) == At(owner.type_signatures, At(owner.field_defs, def.fields + i - 1).signature).token IN
       /\ v.type = "STRUCT" /\ Len(v.fields) = def.field_count
       /\ \A i \in DOMAIN v.fields : HasTag(v.fields[i], derive_type_tag(owner, tag[4], token(i)))
HasType(v, t) ==
  CASE t = Anything -> TRUE
    [] t.tag \in References -> v.type = "REF" /\ HasType(read_ref(vm, v), t.reference)
    [] OTHER -> HasTag(v, derive_type_tag(module, frame.type_actual_tags, t))
\* Behind the instruction that ends an expression are values of the types the compiler inferred for
\* it, by which it finds fields.  (compiler.py, InferredType)
InferredTypesHold ==
  (phase = "run" /\ vm.outcome = Running /\ frame.module = SelfId) =>
    \A e \in made.inferred[frame.def] : e.at = frame.pc - 1 =>
      LET n == Len(e.types) IN
      n <= Len(vm.stack) /\ \A i \in 1 .. n : HasType(Top(vm, n - i), e.types[i])

\* The compiled code does what the text says: it ends as that does, with the same values and the same
\* resources.  (compiler.py, interpreter.py)
DoesWhatItSays ==
  (phase = "run" /\ vm.outcome # Running) =>
    /\ vm.outcome = meant.outcome
    /\ vm.outcome = <<"returned">> => vm.stack = meant.values /\ vm.mem = meant.resources

\* And it comes to an end if the text does.
Ends == (phase = "run" /\ meant.outcome # Endless) ~> (phase = "run" /\ vm.outcome # Running)
=============================================================================
