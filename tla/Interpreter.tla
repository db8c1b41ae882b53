---------------------------- MODULE Interpreter -----------------------------
(***************************************************************************)
(* The interpreter of bytecode: what one instruction does to the machine   *)
(* vm, which is a stack of frames, an operand stack, and a memory.         *)
(*                                                                         *)
(* A root is where a value can be: a local of a frame, <<depth, local>>,   *)
(* or a resource, <<0, address, type>>.  A reference is a root and  *)
(* the fields to follow from there; a place that has no value is not in    *)
(* the domain of the memory.  Gas is left out, and so are natives.         *)
(***************************************************************************)
EXTENDS CompiledModule
LOCAL INSTANCE Bitwise

CONSTANT Sender                \* who signed the transaction

IntegerMax == [U8 |-> 255, U64 |-> 2^30, U128 |-> 2^30]      \* the last two stand for more
Bits == [U8 |-> 8, U64 |-> 64, U128 |-> 128]
ValueOf(type, v) == [type |-> type, value |-> v]
Bool(b) == ValueOf("BOOL", IF b THEN 1 ELSE 0)
IsTrue(v) == v.value = 1
StructOf(fields) == [type |-> "STRUCT", fields |-> fields]
Ref(root, path) == [type |-> "REF", root |-> root, path |-> path]

\* What is at the end of a path from a value, and the value with something else there.
Follow(v, path) == FoldLeft(LAMBDA x, f : x.fields[f], v, path)
RECURSIVE Replaced(_, _, _)
Replaced(v, path, new) ==
  IF path = <<>> THEN new ELSE [v EXCEPT !.fields[path[1]] = Replaced(@, Tail(path), new)]
read_ref(m, r) == Follow(m.mem[r.root], r.path)
write_ref(m, r, v) == [m EXCEPT !.mem[r.root] = Replaced(@, r.path, v)]
Forget(m, roots) == [m EXCEPT !.mem = [root \in DOMAIN @ \ roots |-> @[root]]]
Remember(m, root, v) == [m EXCEPT !.mem = (root :> v) @@ @]

-----------------------------------------------------------------------------
(***************************************************************************)
(* The values of the operations on integers: a number that the type does   *)
(* not have is an error, and so is one divided by zero.                    *)
(***************************************************************************)
NoNumber == -1
Checked(type, n) == IF n \in 0 .. IntegerMax[type] THEN n ELSE NoNumber

IntegerOp(op, type, l, r) ==
  CASE op = "ADD" -> Checked(type, l + r)
    [] op = "SUB" -> Checked(type, l - r)
    [] op = "MUL" -> Checked(type, l * r)
    [] op = "DIV" -> IF r = 0 THEN NoNumber ELSE l \div r
    [] op = "MOD" -> IF r = 0 THEN NoNumber ELSE l % r
    [] op = "BIT_AND" -> l & r
    [] op = "BIT_OR" -> l | r
    [] op = "XOR" -> l ^^ r
    [] op = "SHL" -> IF r >= Bits[type] THEN NoNumber ELSE (l * 2^r) % (IntegerMax[type] + 1)
    [] op = "SHR" -> IF r >= Bits[type] THEN NoNumber ELSE l \div 2^r
Comparison(op, l, r) ==
  CASE op = "LT" -> l < r [] op = "GT" -> l > r [] op = "LE" -> l <= r [] op = "GE" -> l >= r

IntegerOps == {"ADD", "SUB", "MUL", "DIV", "MOD", "BIT_AND", "BIT_OR", "XOR"}
ShiftOps == {"SHL", "SHR"}
Comparisons == {"LT", "GT", "LE", "GE"}
Casts == [CAST_U8 |-> "U8", CAST_U64 |-> "U64", CAST_U128 |-> "U128"]
LoadsOf == [LD_U8 |-> "U8", LD_U64 |-> "U64", LD_U128 |-> "U128"]

-----------------------------------------------------------------------------
VARIABLES units,               \* from the ids of the modules that are loaded to the modules
          vm                   \* [frames, stack, mem, outcome]

Frame(module, def, tags) == [module |-> module, def |-> def, pc |-> 0, type_actual_tags |-> tags]
Running == <<"running">>
frame == Last(vm.frames)
module == units[frame.module]
code_definition == module.function_defs[frame.def].code
instruction == At(code_definition, frame.pc)

Depth(m) == Len(m.frames)
Local(m, idx) == <<Depth(m), idx>>
Top(m, n) == m.stack[Len(m.stack) - n]                    \* counted from the top, which is 0
Popped(m, n) == [m EXCEPT !.stack = SubSeq(@, 1, Len(@) - n)]
Pushed(m, v) == [m EXCEPT !.stack = Append(@, v)]
Stepped(m) == [m EXCEPT !.frames[Depth(m)].pc = @ + 1]
Ended(m, outcome) == [m EXCEPT !.outcome = outcome]
Stopped(m, code) == Ended(m, <<"stopped", code>>)
PushedNumber(m, type, n) ==
  IF n = NoNumber THEN Stopped(m, "ARITHMETIC_ERROR") ELSE Pushed(m, ValueOf(type, n))

Enabled(tags) == vm.outcome = Running /\ frame.pc < Len(code_definition) /\ instruction.tag \in tags
Becomes(m) == vm' = m /\ UNCHANGED units

Load ==
  LET tag == instruction.tag v ==
    CASE tag \in DOMAIN LoadsOf -> ValueOf(LoadsOf[tag], instruction.value)
      [] tag = "LD_ADDR" -> ValueOf("ADDRESS", At(module.address_pool, instruction.value))
      [] tag = "LD_BYTEARRAY" -> ValueOf("VECTOR", At(module.byte_array_pool, instruction.value))
      [] tag \in {"LD_TRUE", "LD_FALSE"} -> Bool(tag = "LD_TRUE")
      [] tag = "GET_TXN_SENDER" -> ValueOf("ADDRESS", Sender) IN
  /\ Enabled(DOMAIN LoadsOf \union {"LD_ADDR", "LD_BYTEARRAY", "LD_TRUE", "LD_FALSE", "GET_TXN_SENDER"})
  /\ Becomes(Pushed(Stepped(vm), v))

Locals ==
  LET root == Local(vm, instruction.value) m == Stepped(vm) IN
  /\ Enabled(OfLocal)
  /\ Becomes(CASE instruction.tag = "ST_LOC" -> Remember(Popped(m, 1), root, Top(m, 0))
               [] instruction.tag # "ST_LOC" /\ root \notin DOMAIN m.mem -> Stopped(m, "UNKNOWN_INVARIANT_VIOLATION_ERROR")
               [] instruction.tag = "COPY_LOC" /\ root \in DOMAIN m.mem -> Pushed(m, m.mem[root])
               [] instruction.tag = "MOVE_LOC" /\ root \in DOMAIN m.mem -> Forget(Pushed(m, m.mem[root]), {root})
               [] OTHER -> Pushed(m, Ref(root, <<>>)))

\* A field counts from the first of its struct.
get_field_offset(u, fd_idx) ==
  LET def == CHOOSE d \in Range(u.struct_defs) : is_declared(d) /\ d.struct_handle = At(u.field_defs, fd_idx).struct_ IN
  fd_idx - def.fields + 1
ThroughReferences ==
  LET m == Stepped(vm) r == Top(m, 0) IN
  /\ Enabled(OfField \union {"READ_REF", "WRITE_REF", "FREEZE_REF"})
  /\ Becomes(CASE instruction.tag \in OfField ->
                    Pushed(Popped(m, 1), [r EXCEPT !.path = Append(@, get_field_offset(module, instruction.value))])
               [] instruction.tag = "READ_REF" -> Pushed(Popped(m, 1), read_ref(m, r))
               [] instruction.tag = "WRITE_REF" -> write_ref(Popped(m, 2), r, Top(m, 1))
               [] instruction.tag = "FREEZE_REF" -> m)

Structs ==
  LET m == Stepped(vm) n == At(module.struct_defs, instruction.value).field_count IN
  /\ Enabled({"PACK", "UNPACK"})
  /\ Becomes(IF instruction.tag = "PACK"
             THEN Pushed(Popped(m, n), StructOf(SubSeq(m.stack, Len(m.stack) - n + 1, Len(m.stack))))
             ELSE [Popped(m, 1) EXCEPT !.stack = @ \o Top(m, 0).fields])

Integers ==
  LET m == Stepped(vm) l == Top(m, 1) r == Top(m, 0) rest == Popped(m, 2) tag == instruction.tag IN
  /\ Enabled(IntegerOps \union ShiftOps \union Comparisons)
  /\ Becomes(IF tag \notin ShiftOps /\ l.type # r.type THEN Stopped(m, "INTERNAL_TYPE_ERROR")
             ELSE IF tag \in Comparisons THEN Pushed(rest, Bool(Comparison(tag, l.value, r.value)))
             ELSE PushedNumber(rest, l.type, IntegerOp(tag, l.type, l.value, r.value)))

Cast ==
  LET m == Stepped(vm) to == Casts[instruction.tag] IN
  /\ Enabled(DOMAIN Casts)
  /\ Becomes(PushedNumber(Popped(m, 1), to, Checked(to, Top(m, 0).value)))

Logic ==
  LET m == Stepped(vm) l == Top(m, 1) r == Top(m, 0) IN
  /\ Enabled({"AND", "OR", "NOT"})
  /\ Becomes(CASE instruction.tag = "NOT" -> Pushed(Popped(m, 1), Bool(~IsTrue(r)))
               [] instruction.tag = "AND" -> Pushed(Popped(m, 2), Bool(IsTrue(l) /\ IsTrue(r)))
               [] instruction.tag = "OR" -> Pushed(Popped(m, 2), Bool(IsTrue(l) \/ IsTrue(r))))

\* References are equal when what they refer to is.
Compared(m, v) == IF v.type = "REF" THEN read_ref(m, v) ELSE v
Equality ==
  LET m == Stepped(vm) same == Compared(m, Top(m, 1)) = Compared(m, Top(m, 0)) IN
  /\ Enabled({"EQ", "NEQ"})
  /\ Becomes(Pushed(Popped(m, 2), Bool(same = (instruction.tag = "EQ"))))

Pop == Enabled({"POP"}) /\ Becomes(Popped(Stepped(vm), 1))

Branch ==
  LET goes == \/ instruction.tag = "BRANCH"
              \/ instruction.tag = "BR_TRUE" /\ IsTrue(Top(vm, 0))
              \/ instruction.tag = "BR_FALSE" /\ ~IsTrue(Top(vm, 0))
      m == IF instruction.tag = "BRANCH" THEN vm ELSE Popped(vm, 1) IN
  /\ Enabled(Branches)
  /\ Becomes(IF goes THEN [m EXCEPT !.frames[Depth(m)].pc = instruction.value] ELSE Stepped(m))

RunOff == /\ vm.outcome = Running /\ frame.pc >= Len(code_definition)
          /\ Becomes(Stopped(vm, "PC_OVERFLOW"))

\* The tag of a signature token, in a frame that was called with tags for its type parameters.
RECURSIVE derive_type_tag(_, _, _)
derive_type_tag(u, tags, ty) ==
  CASE ty.tag = "VECTOR" -> <<"VECTOR", derive_type_tag(u, tags, ty.vector_type)>>
    [] ty.tag = "TYPE_PARAMETER" -> At(tags, ty.typeParameter)
    [] ty.tag = "STRUCT" -> LET h == At(u.struct_handles, ty.struct) IN
         <<"STRUCT", module_id(u, h), name(u, h), [i \in DOMAIN ty.types |-> derive_type_tag(u, tags, ty.types[i])]>>
    [] OTHER -> <<ty.tag>>
type_actual_tags ==
  LET tokens == At(module.locals_signatures, instruction.types).tokens IN
  [i \in DOMAIN tokens |-> derive_type_tag(module, frame.type_actual_tags, tokens[i])]

\* The last argument is on top.
make_call_frame(m, id, def, tags) ==
  LET n == Len(SignatureOf(units[id], At(units[id].function_handles, units[id].function_defs[def].function)).arg_types)
      called == [Popped(m, n) EXCEPT !.frames = Append(@, Frame(id, def, tags))] IN
  FoldLeft(LAMBDA acc, i : Remember(acc, Local(called, i - 1), Top(m, n - i)), called, [i \in 1 .. n |-> i])
Call ==
  LET h == At(module.function_handles, instruction.value) id == module_id(module, h)
      def == CHOOSE i \in function_definition(units[id], name(module, h)) : TRUE IN
  /\ Enabled({"CALL"})
  /\ Becomes(make_call_frame(Stepped(vm), id, def, type_actual_tags))

Return ==
  LET left == Forget(vm, {root \in DOMAIN vm.mem : root[1] = Depth(vm)}) IN
  /\ Enabled({"RET"})
  /\ Becomes(IF Depth(vm) = 1 THEN [left EXCEPT !.outcome = <<"returned">>] ELSE [left EXCEPT !.frames = Front(@)])

Abort == /\ Enabled({"ABORT"})
         /\ Becomes(Ended(Popped(Stepped(vm), 1), <<"aborted", Top(vm, 0).value>>))

\* A resource is of the type its struct has with these type actuals.
make_access_path(address) ==
  LET h == At(module.struct_handles, At(module.struct_defs, instruction.value).struct_handle) IN
  <<0, address, <<"STRUCT", module_id(module, h), name(module, h), type_actual_tags>>>>
Global ==
  LET m == Stepped(vm) rest == Popped(m, 1) path == make_access_path(Top(m, 0).value) there == path \in DOMAIN m.mem IN
  /\ Enabled({"EXISTS", "IMM_BORROW_GLOBAL", "MUT_BORROW_GLOBAL", "MOVE_FROM"})
  /\ Becomes(IF instruction.tag = "EXISTS" THEN Pushed(rest, Bool(there))
             ELSE IF ~there THEN Stopped(m, "MISSING_DATA")
             ELSE IF instruction.tag = "MOVE_FROM" THEN Forget(Pushed(rest, m.mem[path]), {path})
             ELSE Pushed(rest, Ref(path, <<>>)))
MoveToSender ==
  LET m == Stepped(vm) path == make_access_path(Sender) IN
  /\ Enabled({"MOVE_TO"})
  /\ Becomes(IF path \in DOMAIN m.mem THEN Stopped(m, "CANNOT_WRITE_EXISTING_RESOURCE")
             ELSE Remember(Popped(m, 1), path, Top(m, 0)))

execute_code_unit ==
  \/ Load \/ Locals \/ ThroughReferences \/ Structs \/ Integers \/ Cast \/ Logic \/ Equality \/ Pop
  \/ Branch \/ RunOff \/ Call \/ Return \/ Abort \/ Global \/ MoveToSender

\* A function is started with its arguments in its first locals.
execute_main(id, def, args) ==
  [frames |-> <<Frame(id, def, <<>>)>>, stack |-> <<>>, outcome |-> Running,
   mem |-> [root \in {<<1, i - 1>> : i \in DOMAIN args} |-> args[root[2] + 1]]]
=============================================================================
