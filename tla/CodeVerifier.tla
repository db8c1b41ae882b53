---------------------------- MODULE CodeVerifier ----------------------------
(***************************************************************************)
(* A function is verified, and if the verifier accepts it the interpreter     *)
(* runs it: bytecode_verifier/absint.py with the part of abstract_state.py    *)
(* and type_memory_safety.py that is about values, and the frame of           *)
(* move_vm/runtime/interpreter.py.                                           *)
(*                                                                         *)
(* The verifier looks at each block with the locals that hold a value at its  *)
(* begin; without references that is all an abstract state knows.  It never   *)
(* looks at what a run does, and the run never checks what it was promised:   *)
(* an operation whose operand is not there is a fault, and a resource that is *)
(* overwritten or left in a local is gone.                                   *)
(***************************************************************************)
EXTENDS CodeUnit

CONSTANTS Programs,    \* the functions there are
          JoinFailure, \* the precondition of a block whose predecessors disagree
          Error,       \* what executing a block comes to that has an error
          Invalid      \* a local that holds nothing

\* What the bounds checker leaves of a function, and three values that are none
\* of the verifier's and the interpreter's own.
ASSUME CodeAssumption ==
  \A p \in Programs :
    LET n == Cardinality(DOMAIN p.code)
        locals == DOMAIN p.locals
    IN  /\ IsFiniteSet(DOMAIN p.code) /\ n > 0
        /\ p.code \in [0..n - 1 -> Instructions(n, locals)]
        /\ IsFiniteSet(locals) /\ p.locals \in [locals -> Types]
        /\ p.args \subseteq locals /\ p.returns \in Seq(Types)
        /\ \A s \in SUBSET locals : s \notin {JoinFailure, Error}
        /\ Error \notin [locls : SUBSET locals, stack : Seq(Types)]
        /\ Invalid \notin Types

VARIABLES program,     \* [code, locals, args, returns]
          status,      \* of the function: see TypeOK
          cfg,         \* its control flow graph
          inv_map,     \* the invariant of each block reached so far
          work_list,   \* the blocks to look at, the last one first
          pc, stack, locls,  \* the frame, and the operand stack it uses
          live         \* the resources made less those destroyed

frame == <<pc, stack, locls, live>>
analysis == <<cfg, inv_map, work_list>>
vars == <<program, status, analysis, frame>>

code == program.code
Locals == DOMAIN program.locals
Resources == {l \in Locals : program.locals[l] = "resource"}
returns == Len(program.returns)

Init ==
  /\ program \in Programs
  /\ status = "submitted"
  /\ cfg = <<>> /\ inv_map = <<>> /\ work_list = <<>>
  /\ pc = 0 /\ stack = <<>> /\ locls = <<>> /\ live = 0

----------------------------------------------------------------------------
(* The abstract execution of a block *)

\* An abstract state: the locals that hold a value, and the types on the
\* verifier's stack.
Top(s) == Last(s.stack)
Under(s) == Front(s.stack)

\* MUTANT: the resource that a local holds is overwritten.
accepts_overwriting(i, s) ==
  CASE i.op = "Pop"     -> Top(s) = "unrestricted"
    [] i.op = "StLoc"   -> Top(s) = program.locals[i.arg]
    [] i.op = "Ret"     -> s.locls \cap Resources = {} /\ s.stack = program.returns
    [] i.op = "CopyLoc" -> i.arg \in s.locls \ Resources
    [] i.op = "MoveLoc" -> i.arg \in s.locls
    [] i.op = "Unpack"  -> Top(s) = "resource"
    [] i.op \in {"BrTrue", "Abort", "Pack"} -> Top(s) = "unrestricted"
    [] OTHER            -> TRUE

\* The instruction is executed without an error.
accepts(i, s) ==
  CASE i.op = "Pop"     -> Top(s) = "unrestricted"
    [] i.op = "StLoc"   -> Top(s) = program.locals[i.arg] /\ i.arg \notin s.locls \cap Resources
    [] i.op = "Ret"     -> s.locls \cap Resources = {} /\ s.stack = program.returns
    [] i.op = "CopyLoc" -> i.arg \in s.locls \ Resources
    [] i.op = "MoveLoc" -> i.arg \in s.locls
    [] i.op = "Unpack"  -> Top(s) = "resource"
    [] i.op \in {"BrTrue", "Abort", "Pack"} -> Top(s) = "unrestricted"
    [] OTHER            -> TRUE

push(s, type) == [s EXCEPT !.stack = Append(@, type)]

\* What the instruction leaves; Ret and Abort leave no state.
after(i, s) ==
  CASE i.op = "Ld"      -> push(s, "unrestricted")
    [] i.op = "CopyLoc" -> push(s, "unrestricted")
    [] i.op = "MoveLoc" -> [locls |-> s.locls \ {i.arg}, stack |-> Append(s.stack, program.locals[i.arg])]
    [] i.op = "StLoc"   -> [locls |-> s.locls \cup {i.arg}, stack |-> Under(s)]
    [] i.op = "Pack"    -> [s EXCEPT !.stack = Append(Under(s), "resource")]
    [] i.op = "Unpack"  -> [s EXCEPT !.stack = Append(Under(s), "unrestricted")]
    [] i.op \in {"Pop", "BrTrue"}  -> [s EXCEPT !.stack = Under(s)]
    [] i.op \in {"Ret", "Abort"} -> [locls |-> {}, stack |-> <<>>]
    [] OTHER            -> s

\* The locals that hold a value at the block's end, or Error.
execute_block(b, pre) ==
  LET state[p \in b..cfg[b].exit + 1] ==
        IF p = b THEN [locls |-> pre, stack |-> <<>>]
        ELSE IF state[p - 1] = Error \/ ~accepts(code[p - 1], state[p - 1]) THEN Error
        ELSE after(code[p - 1], state[p - 1])
      post == state[cfg[b].exit + 1]
  IN  IF post = Error THEN Error ELSE post.locls

----------------------------------------------------------------------------
(* The analysis *)

\* A resource held on one way only is an error, another value is forgotten.
join(pre, post) ==
  IF pre = JoinFailure \/ (pre \cap Resources) # (post \cap Resources)
  THEN JoinFailure ELSE pre \cap post

Analysis(invs, list) == [invs |-> invs, list |-> list]

\* The invariants and that of a block not reached before.
With(invs, b, pre) ==
  [c \in DOMAIN invs \cup {b} |->
     IF c \in DOMAIN invs THEN invs[c] ELSE [pre |-> pre, error |-> FALSE]]

\* MUTANT: a block reached before is not looked at again.
propagate_once(post, a, next) ==
  IF next \notin DOMAIN a.invs
  THEN Analysis(With(a.invs, next, post), Append(a.list, next))
  ELSE Analysis([a.invs EXCEPT ![next].pre = join(@, post)], a.list)

\* MUTANT: a block is looked at again whether or not its precondition changed.
propagate_always(post, a, next) ==
  IF next \notin DOMAIN a.invs
  THEN Analysis(With(a.invs, next, post), Append(a.list, next))
  ELSE Analysis([a.invs EXCEPT ![next].pre = join(@, post)],
                IF next \in ToSet(a.list) THEN a.list ELSE Append(a.list, next))

\* The state at a block's end goes into the precondition of a successor, which
\* is looked at, again if need be.
propagate(post, a, next) ==
  IF next \notin DOMAIN a.invs
  THEN Analysis(With(a.invs, next, post), Append(a.list, next))
  ELSE LET joined == join(a.invs[next].pre, post)
       IN  Analysis([a.invs EXCEPT ![next].pre = joined],
                    IF joined \in {JoinFailure, a.invs[next].pre} THEN a.list
                    ELSE Append(a.list, next))

\* The lower successor comes first; there are at most two.
propagate_all(post, a, nexts) ==
  IF nexts = {} THEN a
  ELSE LET low == Min(nexts)
           high == Max(nexts)
           once == propagate(post, a, low)
       IN  IF low = high THEN once ELSE propagate(post, once, high)

verify_function ==
  /\ status = "submitted"
  /\ cfg' = ControlFlowGraph(code)
  /\ IF verify_stack_usage(code, returns, cfg')
     THEN /\ status' = "analyzed"
          /\ work_list' = <<0>>
          /\ inv_map' = With(<<>>, 0, program.args)
     ELSE status' = "rejected" /\ UNCHANGED <<work_list, inv_map>>
  /\ UNCHANGED <<program, frame>>

analyze_block ==
  /\ status = "analyzed" /\ work_list # <<>>
  /\ LET b == Last(work_list)
         post == execute_block(b, inv_map[b].pre)
         done == [inv_map EXCEPT ![b].error = FALSE]
         result == propagate_all(post, Analysis(done, Front(work_list)), cfg[b].successors)
     IN  IF inv_map[b].pre = JoinFailure
         THEN work_list' = Front(work_list) /\ UNCHANGED inv_map
         ELSE IF post = Error
         THEN /\ work_list' = Front(work_list)
              /\ inv_map' = [inv_map EXCEPT ![b].error = TRUE]
         ELSE work_list' = result.list /\ inv_map' = result.invs
  /\ UNCHANGED <<program, cfg, status, frame>>

Accepted == \A b \in DOMAIN inv_map : inv_map[b].pre # JoinFailure /\ ~inv_map[b].error

\* The verdict; the caller's arguments are in the locals of the frame.
execute_main ==
  /\ status = "analyzed" /\ work_list = <<>>
  /\ IF Accepted
     THEN /\ status' = "running"
          /\ locls' = [l \in Locals |-> IF l \in program.args THEN program.locals[l] ELSE Invalid]
          /\ live' = Cardinality(program.args \cap Resources)
     ELSE status' = "rejected" /\ UNCHANGED <<locls, live>>
  /\ UNCHANGED <<program, analysis, pc, stack>>

----------------------------------------------------------------------------
(* The interpreter's loop over the code *)

\* The instruction at pc, which is moved on before it is executed.  Past the
\* end of the code there is none, and no step.
Fetch(op) == status = "running" /\ pc \in DOMAIN code /\ code[pc].op = op
arg == code[pc].arg

\* An exception that says the code should not have been accepted.
Fault == status' = "fault" /\ UNCHANGED <<program, analysis, frame>>

Advance(p, values, slots, resources) ==
  /\ pc' = p /\ stack' = values /\ locls' = slots /\ live' = resources
  /\ UNCHANGED <<program, status, analysis>>

ld == Fetch("Ld") /\ Advance(pc + 1, Append(stack, "unrestricted"), locls, live)

pop ==
  /\ Fetch("Pop")
  /\ IF stack = <<>> THEN Fault ELSE Advance(pc + 1, Front(stack), locls, live)

copy_loc ==
  /\ Fetch("CopyLoc")
  /\ IF locls[arg] = Invalid THEN Fault
     ELSE Advance(pc + 1, Append(stack, locls[arg]), locls, live)

move_loc ==
  /\ Fetch("MoveLoc")
  /\ IF locls[arg] = Invalid THEN Fault
     ELSE Advance(pc + 1, Append(stack, locls[arg]), [locls EXCEPT ![arg] = Invalid], live)

store_loc ==
  /\ Fetch("StLoc")
  /\ IF stack = <<>> THEN Fault
     ELSE Advance(pc + 1, Front(stack), [locls EXCEPT ![arg] = Last(stack)], live)

pack ==
  /\ Fetch("Pack")
  /\ IF stack = <<>> THEN Fault
     ELSE Advance(pc + 1, Append(Front(stack), "resource"), locls, live + 1)

unpack ==
  /\ Fetch("Unpack")
  /\ IF stack = <<>> \/ Last(stack) # "resource" THEN Fault
     ELSE Advance(pc + 1, Append(Front(stack), "unrestricted"), locls, live - 1)

\* The value decides, and the model has none.
br_true ==
  /\ Fetch("BrTrue")
  /\ IF stack = <<>> \/ Last(stack) # "unrestricted" THEN Fault
     ELSE \E p \in {arg, pc + 1} : Advance(p, Front(stack), locls, live)

branch == Fetch("Branch") /\ Advance(arg, stack, locls, live)

\* The frame is dropped with what its locals hold; the values for the caller
\* are on the stack.
ret ==
  /\ Fetch("Ret")
  /\ status' = "returned"
  /\ UNCHANGED <<program, analysis, frame>>

\* The transaction fails, and nothing it made is left.
abort ==
  /\ Fetch("Abort")
  /\ IF stack = <<>> \/ Last(stack) # "unrestricted" THEN Fault
     ELSE status' = "aborted" /\ UNCHANGED <<program, analysis, frame>>

Verify == verify_function \/ analyze_block \/ execute_main
Interpret ==
  \/ ld \/ pop \/ copy_loc \/ move_loc \/ store_loc \/ pack \/ unpack
  \/ br_true \/ branch \/ ret \/ abort

Next == Verify \/ Interpret

\* The verifier is a loop on one thread that waits for nothing; the program it
\* accepts may run for ever.
Spec == Init /\ [][Next]_vars /\ WF_vars(Verify)

----------------------------------------------------------------------------
(* Properties *)

TypeOK ==
  /\ status \in {"submitted", "analyzed", "rejected", "running", "returned", "aborted", "fault"}
  /\ DOMAIN inv_map \subseteq DOMAIN code
  /\ \A b \in DOMAIN inv_map :
       /\ inv_map[b].pre \in (SUBSET Locals) \cup {JoinFailure}
       /\ inv_map[b].error \in BOOLEAN
  /\ work_list \in Seq(DOMAIN inv_map)
  /\ pc \in 0..Cardinality(DOMAIN code)
  /\ stack \in Seq(Types)
  /\ status = "running" => locls \in [Locals -> Types \cup {Invalid}]
  /\ live \in Int

\* A function the verifier accepted never meets a missing or a wrong operand,
\* an empty local or the end of the code, whichever way its branches go.
AcceptedNeverFaults ==
  /\ status # "fault"
  /\ status = "running" => pc \in DOMAIN code

Count(values) == Cardinality({i \in DOMAIN values : values[i] = "resource"})

\* The resources a function made or was given and has not destroyed are there,
\* once each, in its locals and on the stack; when it returns they are the
\* values it returns.
ResourcesAreKept ==
  /\ status = "running" =>
       live = Count(stack) + Cardinality({l \in Locals : locls[l] = "resource"})
  /\ status = "returned" => live = Count(stack) /\ stack = program.returns

\* The analysis ends: the preconditions only get weaker.
AnalysisEnds == status = "submitted" ~> status \notin {"submitted", "analyzed"}
=============================================================================
