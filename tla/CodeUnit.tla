------------------------------ MODULE CodeUnit ------------------------------
(***************************************************************************)
(* The code of a function, its control flow graph and the verifier of its    *)
(* use of the operand stack (bytecode_verifier/control_flow_graph.py,         *)
(* stack_usage_verifier.py and code_unit_verifier.py).                       *)
(*                                                                         *)
(* A code is a function from 0..n-1 to instructions.  There are two types,    *)
(* that of the unrestricted values and a resource; of the opcodes with the    *)
(* same effect on stack and locals one stands for all: Ld for everything      *)
(* that pushes an unrestricted value, BrTrue also for BrFalse.               *)
(***************************************************************************)
EXTENDS Integers, FiniteSetsExt, Functions, SequencesExt

Types == {"unrestricted", "resource"}

Instr(op, arg) == [op |-> op, arg |-> arg]

\* What a code with n instructions and those locals may hold: the bounds
\* checker has refused anything else.
Instructions(n, locals) ==
  {Instr(op, 0) : op \in {"Ld", "Pop", "Pack", "Unpack", "Ret", "Abort"}}
    \cup {Instr(op, l) : op \in {"MoveLoc", "CopyLoc", "StLoc"}, l \in locals}
    \cup {Instr(op, t) : op \in {"BrTrue", "Branch"}, t \in 0..n - 1}

is_unconditional_branch(i) == i.op \in {"Ret", "Abort", "Branch"}
is_branch(i) == is_unconditional_branch(i) \/ i.op = "BrTrue"

\* The offset an instruction branches to, if any.
offset(i) == IF i.op \in {"BrTrue", "Branch"} THEN {i.arg} ELSE {}

----------------------------------------------------------------------------
(* The control flow graph *)

\* A block begins at the entry, where a branch leads and after a branch.
block_ids(code) ==
  {0} \cup (UNION {offset(code[pc]) : pc \in DOMAIN code})
      \cup {pc + 1 : pc \in {p \in DOMAIN code : is_branch(code[p]) /\ p + 1 \in DOMAIN code}}

is_end_of_block(code, ids, pc) == pc + 1 \notin DOMAIN code \/ pc + 1 \in ids

\* "if offset:" is false of the offset 0.
get_successors(code, pc) ==
  (offset(code[pc]) \ {0})
    \cup (IF is_unconditional_branch(code[pc]) \/ pc + 1 \notin DOMAIN code
          THEN {} ELSE {pc + 1})

\* The blocks: the last instruction of each and the blocks that may follow.
ControlFlowGraph(code) ==
  LET ids == block_ids(code)
      exit(b) == Min({pc \in DOMAIN code : pc >= b /\ is_end_of_block(code, ids, pc)})
  IN  [b \in ids |-> [exit |-> exit(b), successors |-> get_successors(code, exit(b))]]

----------------------------------------------------------------------------
(* The use of the stack *)

\* <<pops, pushes>> of an instruction of a function that returns so many values.
instruction_effect(i, returns) ==
  CASE i.op \in {"Pop", "BrTrue", "Abort", "StLoc"} -> <<1, 0>>
    [] i.op \in {"Ld", "CopyLoc", "MoveLoc"}        -> <<0, 1>>
    [] i.op \in {"Pack", "Unpack"}                  -> <<1, 1>>
    [] i.op = "Branch"                              -> <<0, 0>>
    [] i.op = "Ret"                                 -> <<returns, 0>>

\* The height of the stack before each instruction of the block from b to e, and
\* after the last one, over that at its begin.
height(code, returns, b, e) ==
  LET h[pc \in b..e + 1] ==
        IF pc = b THEN 0
        ELSE LET effect == instruction_effect(code[pc - 1], returns)
             IN  h[pc - 1] - effect[1] + effect[2]
  IN  h

verify_block(code, returns, b, e) ==
  /\ \A pc \in b..e :
       height(code, returns, b, e)[pc] >= instruction_effect(code[pc], returns)[1]
  /\ height(code, returns, b, e)[e + 1] = 0

\* What CodeUnitVerifier asks before it looks at types.
verify_stack_usage(code, returns, cfg) ==
  /\ is_unconditional_branch(code[Max(DOMAIN code)])
  /\ \A b \in DOMAIN cfg : verify_block(code, returns, b, cfg[b].exit)
=============================================================================
