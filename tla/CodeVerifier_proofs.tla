------------------------- MODULE CodeVerifier_proofs -------------------------
(***************************************************************************)
(* What the verifier accepts runs without a fault and keeps its resources,  *)
(* for any functions whose branches do not lead to the first instruction.   *)
(*                                                                         *)
(* When the worklist is empty each block is settled: executed from its        *)
(* precondition it meets no error, and what it leaves implies the             *)
(* preconditions of its successors.  A run is then always at an instruction  *)
(* of a settled block, with what the abstract state there says in its frame. *)
(***************************************************************************)
EXTENDS CodeVerifier, SumTheorems

----------------------------------------------------------------------------
(* Counting resources *)

LEMMA CountEmpty == Count(<<>>) = 0
<1>1. DOMAIN <<>> = {}
  OBVIOUS
<1> QED
  BY <1>1, FS_EmptySet DEF Count

\* A value on top counts once.
LEMMA CountPushed ==
  ASSUME NEW T, NEW q \in Lists(T), NEW x \in T
  PROVE  /\ Count(q) \in Nat
         /\ Count(Append(q, x)) = Count(q) + (IF x = "resource" THEN 1 ELSE 0)
<1> DEFINE n == Len(q)
           p == Append(q, x)
           I == {i \in DOMAIN q : q[i] = "resource"}
           J == {i \in DOMAIN p : p[i] = "resource"}
<1>1. n \in Nat /\ DOMAIN q = 1..n
  BY LenProperties DEF Lists
<1>2. /\ p \in Seq(T) /\ Len(p) = n + 1
      /\ (\A i \in 1..n : p[i] = q[i]) /\ p[n + 1] = x
  BY AppendProperties DEF Lists
<1>3. DOMAIN p = 1..n + 1
  BY <1>2, LenProperties
<1> HIDE DEF n, p
<1>4. \A i : (i \in 1..n + 1 <=> i \in 1..n \/ i = n + 1) /\ ~(n + 1 \in 1..n)
  BY <1>1
<1>5. IsFiniteSet(I) /\ n + 1 \notin I
  <2>1. IsFiniteSet(1..n) /\ I \in SUBSET (1..n)
    BY <1>1, FS_Interval
  <2> QED
    BY <1>4, <2>1, FS_Subset
<1>6. J = I \cup (IF x = "resource" THEN {n + 1} ELSE {})
  BY <1>1, <1>2, <1>3, <1>4, Zenon
<1>7. Count(q) = Cardinality(I) /\ Count(p) = Cardinality(J)
  BY DEF Count
<1>8. CASE x = "resource"
  <2>1. J = I \cup {n + 1}
    BY <1>6, <1>8
  <2> HIDE DEF I, J
  <2>2. Cardinality(J) = Cardinality(I) + 1 /\ Cardinality(I) \in Nat
    BY <1>5, <2>1, FS_AddElement, FS_CardinalityType
  <2> QED
    BY <1>7, <1>8, <2>2 DEF p
<1>9. CASE x # "resource"
  <2>1. J = I
    BY <1>6, <1>9
  <2> HIDE DEF I, J
  <2>2. Cardinality(I) \in Nat
    BY <1>5, FS_CardinalityType
  <2> QED
    BY <1>7, <1>9, <2>1, <2>2 DEF p
<1> QED
  BY <1>8, <1>9

----------------------------------------------------------------------------
(* The code and its blocks *)

Size == Cardinality(DOMAIN code)
States == [locls : SUBSET Locals, stack : Lists(Types)]
Operations == {"Ld", "Pop", "Pack", "Unpack", "Ret", "Abort",
               "MoveLoc", "CopyLoc", "StLoc", "BrTrue", "Branch"}

LEMMA FunctionShape ==
  ASSUME program \in Programs
  PROVE  /\ Size \in Nat \ {0} /\ DOMAIN code = 0..Size - 1
         /\ \A p \in 0..Size - 1 : code[p] \in Instructions(Size, Locals)
         /\ IsFiniteSet(Locals) /\ program.locals \in [Locals -> Types]
         /\ program.args \in SUBSET Locals /\ program.returns \in Lists(Types)
         /\ \A s \in SUBSET Locals : s # JoinFailure /\ s # Error
         /\ Error \notin States /\ Invalid \notin Types
<1> DEFINE n == Cardinality(DOMAIN code)
<1>1. /\ IsFiniteSet(DOMAIN code) /\ n > 0
      /\ code \in [0..n - 1 -> Instructions(n, Locals)]
      /\ IsFiniteSet(Locals) /\ program.locals \in [Locals -> Types]
      /\ program.args \subseteq Locals /\ program.returns \in Seq(Types)
      /\ \A s \in SUBSET Locals : s \notin {JoinFailure, Error}
      /\ Error \notin [locls : SUBSET Locals, stack : Seq(Types)]
      /\ Invalid \notin Types
  BY CodeAssumption, Zenon DEF code, Locals
<1>2. n \in Nat
  BY <1>1, FS_CardinalityType
<1> HIDE DEF n
<1>3. Size = n /\ States = [locls : SUBSET Locals, stack : Seq(Types)]
      /\ Lists(Types) = Seq(Types)
  BY DEF Size, States, Lists, n
<1>4. n \in Nat \ {0} /\ DOMAIN code = 0..n - 1
      /\ \A p \in 0..n - 1 : code[p] \in Instructions(n, Locals)
  BY <1>1, <1>2
<1> QED
  BY <1>1, <1>3, <1>4, Zenon

LEMMA InstructionShape ==
  ASSUME NEW n, NEW locals, NEW i \in Instructions(n, locals)
  PROVE  /\ i.op \in Operations
         /\ i.op \in {"MoveLoc", "CopyLoc", "StLoc"} => i.arg \in locals
         /\ i.op \in {"BrTrue", "Branch"} => i.arg \in 0..n - 1
BY DEF Instructions, Instr, Operations

\* A block goes on, without a branch, to where its exit is.
LEMMA BlockShape ==
  ASSUME program \in Programs, NEW graph, graph = ControlFlowGraph(code), NEW b \in DOMAIN graph
  PROVE  /\ DOMAIN graph = block_ids(code) /\ block_ids(code) \subseteq 0..Size - 1
         /\ 0 \in DOMAIN graph
         /\ graph[b].exit \in b..Size - 1
         /\ graph[b].exit + 1 \in 0..Size - 1 => graph[b].exit + 1 \in DOMAIN graph
         /\ \A p \in b..graph[b].exit - 1 : ~is_branch(code[p])
         /\ graph[b].successors = get_successors(code, graph[b].exit)
<1> DEFINE ids == block_ids(code)
           E(c) == {p \in DOMAIN code : p >= c /\ is_end_of_block(code, ids, p)}
           e == graph[b].exit
<1>1. /\ Size \in Nat \ {0} /\ DOMAIN code = 0..Size - 1
      /\ \A p \in 0..Size - 1 : code[p] \in Instructions(Size, Locals)
  BY FunctionShape
<1>2. \A p \in 0..Size - 1 : offset(code[p]) \subseteq 0..Size - 1
  BY <1>1, InstructionShape DEF offset
<1>3. /\ ids \subseteq 0..Size - 1 /\ 0 \in ids
      /\ \A p \in 0..Size - 1 :
           is_branch(code[p]) /\ p + 1 \in 0..Size - 1 => p + 1 \in ids
  <2> DEFINE targets == UNION {offset(code[p]) : p \in DOMAIN code}
             rest == {p + 1 : p \in {q \in DOMAIN code : is_branch(code[q]) /\ q + 1 \in DOMAIN code}}
  <2>1. ids = {0} \cup targets \cup rest
    BY Zenon DEF block_ids
  <2>2. \A x \in targets : x \in 0..Size - 1
    BY <1>1, <1>2, Zenon
  <2>3. \A x : x \in rest <=> \E p \in 0..Size - 1 : is_branch(code[p]) /\ x = p + 1 /\ p + 1 \in 0..Size - 1
    BY <1>1, Zenon
  <2> HIDE DEF ids, targets, rest
  <2>4. 0 \in 0..Size - 1
    BY <1>1
  <2>5. ids \subseteq 0..Size - 1
    BY <2>1, <2>2, <2>3, <2>4, Zenon
  <2>6. ASSUME NEW p \in 0..Size - 1, is_branch(code[p]), p + 1 \in 0..Size - 1 PROVE p + 1 \in ids
    <3>1. p + 1 \in rest
      BY <2>3, <2>6, Zenon
    <3> QED
      BY <2>1, <3>1
  <2> QED
    BY <2>1, <2>5, <2>6
<1>4. /\ DOMAIN graph = ids /\ b \in ids
      /\ graph[b] = [exit |-> Min(E(b)), successors |-> get_successors(code, Min(E(b)))]
  BY DEF ControlFlowGraph
<1> HIDE DEF ids
<1>5. e = Min(E(b)) /\ graph[b].successors = get_successors(code, e)
  BY <1>4
<1>6. E(b) \in SUBSET Nat /\ Size - 1 \in E(b)
  <2>1. \A p \in 0..Size - 1 : p \in Nat
    BY <1>1
  <2>2. Size - 1 \in 0..Size - 1 /\ Size - 1 >= b /\ (Size - 1) + 1 \notin 0..Size - 1
    BY <1>1, <1>3, <1>4
  <2> QED
    BY <1>1, <2>1, <2>2, Zenon DEF is_end_of_block
<1>7. e \in E(b) /\ \A y \in E(b) : e <= y
  <2> HIDE DEF E
  <2> QED
    BY <1>5, <1>6, MinIsLeast
<1> HIDE DEF e
<1>8. e \in b..Size - 1 /\ b \in 0..Size - 1
  BY <1>1, <1>3, <1>4, <1>7
<1>9. e + 1 \in 0..Size - 1 => e + 1 \in ids
  BY <1>1, <1>7 DEF is_end_of_block
<1>10. ASSUME NEW p \in b..e - 1 PROVE ~is_branch(code[p])
  <2>1. p \in 0..Size - 1 /\ p + 1 \in 0..Size - 1 /\ p >= b /\ ~(e <= p)
    BY <1>1, <1>8
  <2>2. p + 1 \notin ids
    BY <1>1, <1>7, <2>1 DEF is_end_of_block
  <2> QED
    BY <1>3, <2>1, <2>2
<1> QED
  BY <1>3, <1>4, <1>5, <1>8, <1>9, <1>10 DEF ids, e

\* Where the exit of a block may go.
LEMMA SuccessorShape ==
  ASSUME program \in Programs, NEW graph, graph = ControlFlowGraph(code), NEW b \in DOMAIN graph,
         is_unconditional_branch(code[Max(DOMAIN code)])
  PROVE  LET e == graph[b].exit
             next == graph[b].successors
         IN  /\ next \subseteq DOMAIN graph \ {0}
             /\ next = {} \/ \A s \in next : s = Min(next) \/ s = Max(next)
             /\ next # {} => Min(next) \in next /\ Max(next) \in next
             /\ \A t \in offset(code[e]) \ {0} : t \in next
             /\ ~is_unconditional_branch(code[e]) => e + 1 \in next
<1> DEFINE e == graph[b].exit
           next == graph[b].successors
<1>1. /\ Size \in Nat \ {0} /\ DOMAIN code = 0..Size - 1
      /\ \A p \in 0..Size - 1 : code[p] \in Instructions(Size, Locals)
  BY FunctionShape
<1>2. /\ DOMAIN graph = block_ids(code) /\ block_ids(code) \subseteq 0..Size - 1
      /\ e \in b..Size - 1 /\ b \in 0..Size - 1
      /\ e + 1 \in 0..Size - 1 => e + 1 \in DOMAIN graph
      /\ next = get_successors(code, e)
  <2>1. b \in 0..Size - 1
    BY BlockShape
  <2> QED
    BY <2>1, BlockShape
<1> HIDE DEF e, next
<1>3. e \in 0..Size - 1 /\ e \in Nat
  BY <1>1, <1>2
<1>4. Max(DOMAIN code) = Size - 1
  <2>1. 0..Size - 1 \in SUBSET (0..Size - 1) /\ Size - 1 \in 0..Size - 1 /\ Size - 1 \in Nat
    BY <1>1
  <2>2. Max(0..Size - 1) \in 0..Size - 1 /\ \A y \in 0..Size - 1 : Max(0..Size - 1) >= y
    BY <2>1, MaxIsGreatest
  <2> QED
    BY <1>1, <2>1, <2>2
<1>5. offset(code[e]) \subseteq block_ids(code)
  BY <1>1, <1>3 DEF block_ids
<1>6. ~is_unconditional_branch(code[e]) => e + 1 \in 0..Size - 1
  BY <1>1, <1>3, <1>4
<1>7. /\ next \subseteq DOMAIN graph \ {0}
      /\ \A t \in offset(code[e]) \ {0} : t \in next
      /\ ~is_unconditional_branch(code[e]) => e + 1 \in next
  BY <1>1, <1>2, <1>3, <1>5, <1>6 DEF get_successors
<1>8. \A s \in next : s = code[e].arg \/ s = e + 1
  BY <1>2 DEF get_successors, offset
<1>9. ASSUME next # {} 
      PROVE  /\ Min(next) \in next /\ Max(next) \in next
             /\ \A s \in next : s = Min(next) \/ s = Max(next)
  <2>1. next \in SUBSET (0..Size - 1) /\ next \in SUBSET Nat /\ Size - 1 \in Nat
    BY <1>1, <1>2, <1>7
  <2>2. Min(next) \in next /\ \A s \in next : Min(next) <= s
    BY <1>9, <2>1, MinIsLeast
  <2>3. Max(next) \in next /\ \A s \in next : Max(next) >= s
    BY <1>9, <2>1, MaxIsGreatest
  <2>4. \A s, t \in next : s <= t /\ t <= s => s = t
    BY <2>1
  <2> QED
    BY <1>8, <2>2, <2>3, <2>4
<1> QED
  BY <1>7, <1>9 DEF e, next

----------------------------------------------------------------------------
(* The abstract execution of a block *)

Entry(pre) == [locls |-> pre, stack |-> <<>>]

\* What execute_block goes through when it meets no error.
Walk(b, pre, st) ==
  /\ st \in [b..cfg[b].exit + 1 -> States]
  /\ st[b] = Entry(pre)
  /\ \A p \in b..cfg[b].exit : accepts(code[p], st[p]) /\ st[p + 1] = after(code[p], st[p])

LEMMA AfterType ==
  ASSUME program \in Programs, NEW i \in Instructions(Size, Locals), NEW s \in States
  PROVE  after(i, s) \in States
<1>1. /\ i.op \in Operations
      /\ i.op \in {"MoveLoc", "CopyLoc", "StLoc"} => i.arg \in Locals
  BY InstructionShape
<1>2. program.locals \in [Locals -> Types]
  BY FunctionShape
<1>3. /\ s.locls \in SUBSET Locals /\ s.stack \in Lists(Types)
      /\ s = [locls |-> s.locls, stack |-> s.stack]
  BY DEF States
<1>4. {"unrestricted", "resource"} \subseteq Types
  BY DEF Types
<1>5. Under(s) \in Lists(Types)
  BY <1>3, FrontType DEF Under
<1>6. /\ \A t \in Types : /\ Append(s.stack, t) \in Lists(Types)
                          /\ Append(Under(s), t) \in Lists(Types)
      /\ <<>> \in Lists(Types)
  BY <1>3, <1>5, Pushed, EmptyList
<1>7. \A l \in SUBSET Locals, q \in Lists(Types) : [locls |-> l, stack |-> q] \in States
  BY DEF States
<1>8. \A q \in Lists(Types) : [s EXCEPT !.stack = q] \in States
  BY <1>3, <1>7
<1>9. CASE i.op \in {"Ld", "CopyLoc"}
  <2>1. after(i, s) = [s EXCEPT !.stack = Append(s.stack, "unrestricted")]
    BY <1>9 DEF after, push
  <2>2. Append(s.stack, "unrestricted") \in Lists(Types)
    BY <1>4, <1>6
  <2> QED
    BY <1>8, <2>1, <2>2, Zenon
<1>10. CASE i.op = "MoveLoc"
  <2>1. after(i, s) = [locls |-> s.locls \ {i.arg}, stack |-> Append(s.stack, program.locals[i.arg])]
    BY <1>10 DEF after
  <2>2. program.locals[i.arg] \in Types
    BY <1>1, <1>2, <1>10
  <2> QED
    BY <1>3, <1>6, <1>7, <2>1, <2>2
<1>11. CASE i.op = "StLoc"
  <2>1. after(i, s) = [locls |-> s.locls \cup {i.arg}, stack |-> Under(s)]
    BY <1>11 DEF after
  <2> QED
    BY <1>1, <1>3, <1>5, <1>7, <1>11, <2>1
<1>12. CASE i.op = "Pack"
  <2>1. after(i, s) = [s EXCEPT !.stack = Append(Under(s), "resource")]
    BY <1>12 DEF after
  <2>2. Append(Under(s), "resource") \in Lists(Types)
    BY <1>4, <1>6
  <2> QED
    BY <1>8, <2>1, <2>2, Zenon
<1>13. CASE i.op = "Unpack"
  <2>1. after(i, s) = [s EXCEPT !.stack = Append(Under(s), "unrestricted")]
    BY <1>13 DEF after
  <2>2. Append(Under(s), "unrestricted") \in Lists(Types)
    BY <1>4, <1>6
  <2> QED
    BY <1>8, <2>1, <2>2, Zenon
<1>14. CASE i.op \in {"Pop", "BrTrue"}
  <2>1. after(i, s) = [s EXCEPT !.stack = Under(s)]
    BY <1>14 DEF after
  <2> QED
    BY <1>5, <1>8, <2>1, Zenon
<1>15. CASE i.op \in {"Ret", "Abort"}
  <2>1. after(i, s) = [locls |-> {}, stack |-> <<>>]
    BY <1>15 DEF after
  <2> QED
    BY <1>6, <1>7, <2>1
<1>16. CASE i.op = "Branch"
  BY <1>16 DEF after
<1> QED
  BY <1>1, <1>9, <1>10, <1>11, <1>12, <1>13, <1>14, <1>15, <1>16 DEF Operations

\* The recursion in execute_block is such a walk, or ends in an error.
LEMMA ExecutionIsWalk ==
  ASSUME program \in Programs, cfg = ControlFlowGraph(code), NEW b \in DOMAIN cfg,
         NEW pre \in SUBSET Locals, execute_block(b, pre) # Error
  PROVE  \E st : Walk(b, pre, st) /\ execute_block(b, pre) = st[cfg[b].exit + 1].locls
<1> DEFINE e == cfg[b].exit + 1
           R == States \cup {Error}
           Step(p, s) == IF s = Error \/ ~accepts(code[p - 1], s) THEN Error
                         ELSE after(code[p - 1], s)
           step == [p \in b..e |-> [s \in R |-> IF p = b THEN s ELSE Step(p, s)]]
           Executes(f) == f = [p \in b..e |->
             IF p = b THEN [locls |-> pre, stack |-> <<>>]
             ELSE IF f[p - 1] = Error \/ ~accepts(code[p - 1], f[p - 1]) THEN Error
             ELSE after(code[p - 1], f[p - 1])]
           state == CHOOSE f : Executes(f)
<1>1. /\ Size \in Nat \ {0} /\ DOMAIN code = 0..Size - 1
      /\ \A p \in 0..Size - 1 : code[p] \in Instructions(Size, Locals)
  BY FunctionShape
<1>2. /\ b \in 0..Size - 1 /\ e - 1 \in b..Size - 1 /\ e - 1 = cfg[b].exit
      /\ b \in Nat /\ e \in Nat /\ b <= e
  <2>1. b \in 0..Size - 1 /\ cfg[b].exit \in b..Size - 1
    BY BlockShape
  <2> QED
    BY <1>1, <2>1
<1>3. execute_block(b, pre) = IF state[e] = Error THEN Error ELSE state[e].locls
  BY Zenon DEF execute_block
<1> HIDE DEF e
<1>4. Entry(pre) \in States
  BY EmptyList DEF Entry, States
<1>5. \A p \in b + 1..e : \A s \in R : Step(p, s) \in R
  <2>1. \A p \in b + 1..e : p - 1 \in 0..Size - 1
    BY <1>1, <1>2
  <2> QED
    BY <1>1, <2>1, AfterType
<1>6. step \in [b..e -> [R -> R]]
  <2>1. \A p \in b..e : p # b => p \in b + 1..e
    BY <1>2
  <2> HIDE DEF R, Step
  <2> QED
    BY <1>5, <2>1
<1>7. \A p \in b + 1..e : \A s \in R : step[p][s] = Step(p, s)
  <2>1. \A p \in b + 1..e : p \in b..e /\ p # b
    BY <1>2
  <2> HIDE DEF R, Step
  <2> QED
    BY <1>5, <2>1
<1>8. /\ \E f : RecursFrom(f, b, e, Entry(pre), step)
      /\ \A f : RecursFrom(f, b, e, Entry(pre), step) =>
              /\ f[b] = Entry(pre)
              /\ \A p \in b..e : f[p] \in R
              /\ \A p \in b..e : p # b => f[p] = step[p][f[p - 1]]
  <2>1. Entry(pre) \in R
    BY <1>4
  <2> HIDE DEF R, step
  <2>2. b \in Nat /\ e \in Nat /\ b <= e
    BY <1>2
  <2>3. \E f : RecursFrom(f, b, e, Entry(pre), step)
    BY <1>6, <2>1, <2>2, RecursionFromExists
  <2>4. ASSUME NEW f, RecursFrom(f, b, e, Entry(pre), step)
        PROVE  /\ f[b] = Entry(pre)
               /\ \A p \in b..e : f[p] \in R
               /\ \A p \in b..e : p # b => f[p] = step[p][f[p - 1]]
    <3>1. GoesOn(f, b, e, Entry(pre), step, R)
      BY <1>6, <2>1, <2>2, <2>4, RecursionFromValues, Zenon
    <3> QED
      BY <3>1 DEF GoesOn
  <2> QED
    BY <2>3, <2>4
<1>9. \E f : Executes(f)
  <2>1. PICK f : RecursFrom(f, b, e, Entry(pre), step)
    BY <1>8
  <2>2. \A p \in b..e : p # b => p \in b + 1..e /\ p - 1 \in b..e
    BY <1>2
  <2>3. \A p \in b..e : p # b => step[p][f[p - 1]] = Step(p, f[p - 1])
    <3> HIDE DEF R, Step, step
    <3> QED
      BY <1>7, <1>8, <2>1, <2>2
  <2>4. f = [p \in b..e |-> IF p = b THEN Entry(pre) ELSE step[p][f[p - 1]]]
    BY <2>1 DEF RecursFrom
  <2>5. f = [p \in b..e |-> IF p = b THEN Entry(pre) ELSE Step(p, f[p - 1])]
    <3> HIDE DEF R, Step, step
    <3> QED
      BY <2>3, <2>4, Zenon
  <2> QED
    BY <2>5, Zenon DEF Entry
<1>10. Executes(state)
  <2> HIDE DEF Executes
  <2> QED
    BY <1>9
<1> HIDE DEF state
<1>11. RecursFrom(state, b, e, Entry(pre), step)
  <2> DEFINE C == {i \in Nat : b + i <= e => state[b + i] \in R}
  <2>1. state = [p \in b..e |-> IF p = b THEN Entry(pre) ELSE Step(p, state[p - 1])]
    BY <1>10, Zenon DEF Entry
  <2>2. 0 \in C
    <3>1. b + 0 = b /\ b \in b..e
      BY <1>2
    <3>2. state[b] = Entry(pre)
      BY <2>1, <3>1
    <3> QED
      BY <1>4, <3>1, <3>2
  <2>3. ASSUME NEW i \in Nat, i \in C PROVE i + 1 \in C
    <3> SUFFICES ASSUME b + (i + 1) <= e PROVE state[b + (i + 1)] \in R
      OBVIOUS
    <3>1. /\ b + (i + 1) \in b + 1..e /\ (b + (i + 1)) - 1 = b + i
          /\ b + i <= e /\ b + (i + 1) \in b..e /\ b + (i + 1) # b
      BY <1>2
    <3>2. state[b + i] \in R
      BY <2>3, <3>1
    <3>3. state[b + (i + 1)] = Step(b + (i + 1), state[b + i])
      <4> HIDE DEF Step
      <4> QED
        BY <2>1, <3>1
    <3> HIDE DEF Step, R
    <3> QED
      BY <1>5, <3>1, <3>2, <3>3
  <2>4. Nat \subseteq C
    <3> HIDE DEF C
    <3> QED
      BY <2>2, <2>3, NatSetInduction
  <2>5. \A p \in b..e : state[p] \in R
    <3>1. \A p \in b..e : p - b \in Nat /\ b + (p - b) = p /\ b + (p - b) <= e
      BY <1>2
    <3> QED
      BY <2>4, <3>1
  <2>6. \A p \in b..e : p # b => step[p][state[p - 1]] = Step(p, state[p - 1])
    <3>1. \A p \in b..e : p # b => p \in b + 1..e /\ p - 1 \in b..e
      BY <1>2
    <3> HIDE DEF R, Step, step
    <3> QED
      BY <1>7, <2>5, <3>1
  <2> HIDE DEF R, Step, step
  <2> QED
    BY <2>1, <2>6, Zenon DEF RecursFrom
<1>12. /\ state[b] = Entry(pre)
       /\ \A p \in b..e : state[p] \in R
       /\ \A p \in b + 1..e : state[p] = Step(p, state[p - 1])
  <2>1. \A p \in b + 1..e : p - 1 \in b..e /\ p \in b..e /\ p # b
    BY <1>2
  <2> HIDE DEF R, Step, step
  <2> QED
    BY <1>7, <1>8, <1>11, <2>1
<1>13. state[e] # Error /\ execute_block(b, pre) = state[e].locls
  BY <1>3
\* No error at the end, none before.
<1>14. \A p \in b..e : state[p] # Error
  <2> DEFINE C == {i \in Nat : e - i >= b => state[e - i] # Error}
  <2>1. 0 \in C
    BY <1>2, <1>13
  <2>2. ASSUME NEW i \in Nat, i \in C PROVE i + 1 \in C
    <3> SUFFICES ASSUME e - (i + 1) >= b PROVE state[e - (i + 1)] # Error
      OBVIOUS
    <3>1. e - i \in b + 1..e /\ (e - i) - 1 = e - (i + 1) /\ e - i >= b
      BY <1>2
    <3>2. state[e - i] # Error /\ state[e - i] = Step(e - i, state[e - (i + 1)])
      BY <1>12, <2>2, <3>1
    <3> QED
      BY <3>2
  <2>3. Nat \subseteq C
    <3> HIDE DEF C
    <3> QED
      BY <2>1, <2>2, NatSetInduction
  <2>4. \A p \in b..e : e - p \in Nat /\ e - (e - p) = p /\ e - (e - p) >= b
    BY <1>2
  <2> QED
    BY <2>3, <2>4
<1>15. Walk(b, pre, state)
  <2>1. \A p \in b..e : state[p] \in States
    BY <1>12, <1>14
  <2>2. state \in [b..e -> States]
    <3>1. state = [p \in b..e |-> state[p]]
      BY <1>10
    <3> QED
      BY <2>1, <3>1
  <2>3. \A p \in b..e - 1 : p + 1 \in b + 1..e /\ (p + 1) - 1 = p /\ p \in b..e /\ p + 1 \in b..e
    BY <1>2
  <2>4. ASSUME NEW p \in b..e - 1
        PROVE  accepts(code[p], state[p]) /\ state[p + 1] = after(code[p], state[p])
    <3>1. state[p + 1] = Step(p + 1, state[p]) /\ state[p + 1] # Error
      BY <1>12, <1>14, <2>3
    <3> QED
      BY <2>3, <3>1
  <2>5. cfg[b].exit = e - 1 /\ (e - 1) + 1 = e
    BY <1>2
  <2> QED
    BY <1>12, <2>2, <2>4, <2>5 DEF Walk
<1> QED
  BY <1>13, <1>15 DEF e

----------------------------------------------------------------------------
(* The operands are there *)

\* The instructions that take a value off the stack, in a function that is not
\* at its end.
TakesOne == {"Pop", "BrTrue", "Abort", "StLoc", "Pack", "Unpack"}

Takes(i) == instruction_effect(i, returns)[1]
Leaves(i) == instruction_effect(i, returns)[2]

LEMMA EffectShape ==
  ASSUME program \in Programs, NEW i \in Instructions(Size, Locals)
  PROVE  /\ Takes(i) \in Nat /\ Leaves(i) \in Nat
         /\ i.op \in TakesOne => Takes(i) = 1
         /\ i.op \notin TakesOne \cup {"Ret"} => Takes(i) = 0
         /\ i.op \in {"Pop", "BrTrue", "StLoc", "Branch"} => Leaves(i) = 0
         /\ i.op \in {"Ld", "CopyLoc", "MoveLoc", "Pack", "Unpack"} => Leaves(i) = 1
<1>1. i.op \in Operations
  BY InstructionShape
<1>2. returns \in Nat
  <2>1. program.returns \in Seq(Types)
    BY FunctionShape DEF Lists
  <2> QED
    BY <2>1, LenProperties, Zenon DEF returns
<1>3. \A x, y : <<x, y>>[1] = x /\ <<x, y>>[2] = y
  OBVIOUS
<1>4. instruction_effect(i, returns) =
        IF i.op \in {"Pop", "BrTrue", "Abort", "StLoc"} THEN <<1, 0>>
        ELSE IF i.op \in {"Ld", "CopyLoc", "MoveLoc"} THEN <<0, 1>>
        ELSE IF i.op \in {"Pack", "Unpack"} THEN <<1, 1>>
        ELSE IF i.op = "Branch" THEN <<0, 0>> ELSE <<returns, 0>>
  <2> HIDE DEF returns
  <2> QED
    BY <1>1 DEF instruction_effect, Operations
<1> HIDE DEF returns
<1> QED
  BY <1>1, <1>2, <1>3, <1>4 DEF Operations, TakesOne, Takes, Leaves

\* The height of the stack changes by what the instruction takes and leaves.
LEMMA AfterHeight ==
  ASSUME program \in Programs, NEW i \in Instructions(Size, Locals), NEW s \in States,
         i.op \notin {"Ret", "Abort"}, Height(s.stack) >= Takes(i)
  PROVE  Height(after(i, s).stack) = (Height(s.stack) - Takes(i)) + Leaves(i)
<1>1. /\ i.op \in Operations
      /\ i.op \in {"MoveLoc", "CopyLoc", "StLoc"} => i.arg \in Locals
  BY InstructionShape
<1>2. program.locals \in [Locals -> Types]
  BY FunctionShape
<1>3. /\ s.stack \in Lists(Types) /\ {"unrestricted", "resource"} \subseteq Types
      /\ \A q : [s EXCEPT !.stack = q].stack = q
  BY DEF States, Types
<1>4. Height(s.stack) \in Nat /\ Height(<<>>) = 0
  BY <1>3, EmptyList
<1>5. \A t \in Types : Height(Append(s.stack, t)) = Height(s.stack) + 1
  BY <1>3, Pushed
<1>6. CASE i.op \in TakesOne
  <2>1. Takes(i) = 1 /\ s.stack # <<>>
    BY <1>4, <1>6, EffectShape
  <2>2. Under(s) \in Lists(Types) /\ Height(s.stack) = Height(Under(s)) + 1
    BY <1>3, <2>1, Popped DEF Under
  <2>3. Height(Under(s)) \in Nat
    BY <2>2, EmptyList
  <2>4. \A t \in Types : Height(Append(Under(s), t)) = Height(Under(s)) + 1
    BY <2>2, Pushed
  <2>5. CASE i.op \in {"Pop", "BrTrue", "StLoc"}
    <3>1. after(i, s).stack = Under(s) /\ Leaves(i) = 0
      BY <1>3, <2>5, EffectShape DEF after
    <3> QED
      BY <2>1, <2>2, <2>3, <3>1
  <2>6. CASE i.op \in {"Pack", "Unpack"}
    <3>1. Leaves(i) = 1 /\ \E t \in Types : after(i, s).stack = Append(Under(s), t)
      BY <1>3, <2>6, EffectShape DEF after
    <3> QED
      BY <2>1, <2>2, <2>3, <2>4, <3>1
  <2> QED
    BY <1>6, <2>5, <2>6 DEF TakesOne
<1>7. CASE i.op \in {"Ld", "CopyLoc", "MoveLoc"}
  <2>1. Leaves(i) = 1 /\ Takes(i) = 0
    BY <1>7, EffectShape DEF TakesOne
  <2>2. \E t \in Types : after(i, s).stack = Append(s.stack, t)
    BY <1>1, <1>2, <1>3, <1>7 DEF after, push
  <2> QED
    BY <1>4, <1>5, <2>1, <2>2
<1>8. CASE i.op = "Branch"
  <2>1. Leaves(i) = 0 /\ Takes(i) = 0 /\ after(i, s) = s
    BY <1>8, EffectShape DEF TakesOne, after
  <2> QED
    BY <1>4, <2>1
<1> QED
  BY <1>1, <1>6, <1>7, <1>8 DEF Operations, TakesOne

\* What the stack usage verifier computes.
LEMMA HeightIsRecursion ==
  ASSUME program \in Programs, NEW b \in Nat, NEW e \in 0..Size - 1, b <= e
  PROVE  /\ height(code, returns, b, e)[b] = 0
         /\ \A p \in b..e : height(code, returns, b, e)[p + 1] =
                              (height(code, returns, b, e)[p] - Takes(code[p])) + Leaves(code[p])
<1> DEFINE n == e + 1
           Step(p, x) == (x - Takes(code[p - 1])) + Leaves(code[p - 1])
           step == [p \in b..n |-> [x \in Int |-> IF p = b THEN x ELSE Step(p, x)]]
           Raises(h) == h = [p \in b..n |-> IF p = b THEN 0 ELSE Step(p, h[p - 1])]
           h == CHOOSE h : Raises(h)
<1>1. height(code, returns, b, e) = h
  BY Zenon DEF height, Takes, Leaves
<1>2. /\ Size \in Nat \ {0} /\ DOMAIN code = 0..Size - 1
      /\ \A p \in 0..Size - 1 : code[p] \in Instructions(Size, Locals)
  BY FunctionShape
<1>3. n \in Nat /\ b <= n /\ \A p \in b..n : p # b => p \in b + 1..n
  BY <1>2
<1>4. \A p \in b + 1..n : \A x \in Int : Step(p, x) \in Int
  <2>1. \A p \in b + 1..n : p - 1 \in 0..Size - 1
    BY <1>2
  <2>2. \A p \in b + 1..n : Takes(code[p - 1]) \in Nat /\ Leaves(code[p - 1]) \in Nat
    BY <1>2, <2>1, EffectShape
  <2> QED
    BY <2>2
<1> HIDE DEF n, Step
<1>5. step \in [b..n -> [Int -> Int]]
  BY <1>3, <1>4
<1>6. \E g : Raises(g)
  <2>1. 0 \in Int
    OBVIOUS
  <2> HIDE DEF step
  <2>2. PICK g : RecursFrom(g, b, n, 0, step)
    BY <1>3, <1>5, <2>1, RecursionFromExists
  <2>3. GoesOn(g, b, n, 0, step, Int)
    BY <1>3, <1>5, <2>1, <2>2, RecursionFromValues, Zenon
  <2>4. \A p \in b..n : p # b => step[p][g[p - 1]] = Step(p, g[p - 1])
    <3>1. \A p \in b..n : p # b => p - 1 \in b..n /\ g[p - 1] \in Int
      BY <1>3, <2>3 DEF GoesOn
    <3> QED
      BY <3>1 DEF step
  <2>5. g = [p \in b..n |-> IF p = b THEN 0 ELSE Step(p, g[p - 1])]
    BY <2>2, <2>4, Zenon DEF RecursFrom
  <2> QED
    BY <2>5
<1>7. Raises(h)
  <2> HIDE DEF Raises
  <2> QED
    BY <1>6
<1> HIDE DEF h
<1>8. h[b] = 0
  <2>1. b \in b..n
    BY <1>3
  <2> QED
    BY <1>7, <2>1
<1>9. \A p \in b..e : h[p + 1] = Step(p + 1, h[p])
  <2>1. \A p \in b..e : p + 1 \in b..n /\ p + 1 # b /\ (p + 1) - 1 = p
    BY <1>3 DEF n
  <2> QED
    BY <1>7, <2>1
<1>10. \A p \in b..e : (p + 1) - 1 = p
  OBVIOUS
<1> QED
  BY <1>1, <1>8, <1>9, <1>10 DEF Step

\* A walk through a block whose use of the stack is verified finds what it takes
\* off the stack, and is left with none where it goes on.
LEMMA OperandsAreThere ==
  ASSUME program \in Programs, cfg = ControlFlowGraph(code), verify_stack_usage(code, returns, cfg),
         NEW b \in DOMAIN cfg, NEW pre, NEW st, Walk(b, pre, st)
  PROVE  /\ \A p \in b..cfg[b].exit : code[p].op \in TakesOne => st[p].stack # <<>>
         /\ code[cfg[b].exit].op \notin {"Ret", "Abort"} => st[cfg[b].exit + 1].stack = <<>>
<1> DEFINE e == cfg[b].exit
           h == height(code, returns, b, e)
           C == {i \in Nat : b + i <= e => Height(st[b + i].stack) = h[b + i]}
<1>1. /\ Size \in Nat \ {0} /\ DOMAIN code = 0..Size - 1
      /\ \A p \in 0..Size - 1 : code[p] \in Instructions(Size, Locals)
  BY FunctionShape
<1>2. /\ b \in 0..Size - 1 /\ e \in b..Size - 1
      /\ \A p \in b..e - 1 : ~is_branch(code[p])
  BY BlockShape
<1>3. \A p \in b..e : h[p] >= Takes(code[p])
  BY DEF verify_stack_usage, verify_block, Takes
<1>4. h[e + 1] = 0
  BY DEF verify_stack_usage, verify_block
<1> HIDE DEF e
<1>5. b \in Nat /\ e \in 0..Size - 1 /\ b <= e
  BY <1>1, <1>2
<1>6. h[b] = 0 /\ \A p \in b..e : h[p + 1] = (h[p] - Takes(code[p])) + Leaves(code[p])
  BY <1>5, HeightIsRecursion
<1> HIDE DEF h
<1>7. /\ st \in [b..e + 1 -> States] /\ st[b] = Entry(pre)
      /\ \A p \in b..e : st[p + 1] = after(code[p], st[p])
  BY DEF Walk, e
<1>8. \A p \in b..e : /\ st[p] \in States /\ code[p] \in Instructions(Size, Locals)
                      /\ st[p].stack \in Lists(Types)
  <2>1. \A p \in b..e : p \in b..e + 1 /\ p \in 0..Size - 1
    BY <1>1, <1>5
  <2> QED
    BY <1>1, <1>7, <2>1 DEF States
<1>9. ASSUME NEW p \in b..e, code[p].op \notin {"Ret", "Abort"}, Height(st[p].stack) = h[p]
      PROVE  Height(st[p + 1].stack) = h[p + 1]
  <2>1. Height(st[p].stack) >= Takes(code[p])
    BY <1>3, <1>9
  <2>2. Height(after(code[p], st[p]).stack) = (Height(st[p].stack) - Takes(code[p])) + Leaves(code[p])
    BY <1>8, <1>9, <2>1, AfterHeight
  <2> QED
    BY <1>6, <1>7, <1>9, <2>2
<1>10. 0 \in C
  <2>1. Height(st[b].stack) = 0 /\ b + 0 = b
    BY <1>5, <1>7, EmptyList DEF Entry
  <2> QED
    BY <1>6, <2>1
<1>11. ASSUME NEW i \in Nat, i \in C PROVE i + 1 \in C
  <2> SUFFICES ASSUME b + (i + 1) <= e PROVE Height(st[b + (i + 1)].stack) = h[b + (i + 1)]
    OBVIOUS
  <2>1. b + i \in b..e - 1 /\ b + i \in b..e /\ b + (i + 1) = (b + i) + 1 /\ b + i <= e
    BY <1>5
  <2>2. code[b + i].op \notin {"Ret", "Abort"}
    BY <1>2, <2>1 DEF is_branch, is_unconditional_branch, e
  <2>3. Height(st[b + i].stack) = h[b + i]
    BY <1>11, <2>1
  <2>4. Height(st[(b + i) + 1].stack) = h[(b + i) + 1]
    BY <1>9, <2>1, <2>2, <2>3
  <2> QED
    BY <2>1, <2>4
<1>12. Nat \subseteq C
  <2> HIDE DEF C
  <2> QED
    BY <1>10, <1>11, NatSetInduction
<1>13. \A p \in b..e : Height(st[p].stack) = h[p]
  <2>1. \A p \in b..e : p - b \in Nat /\ b + (p - b) = p /\ b + (p - b) <= e
    BY <1>5
  <2> QED
    BY <1>12, <2>1
<1>14. \A p \in b..e : code[p].op \in TakesOne => st[p].stack # <<>>
  <2>1. Height(<<>>) = 0
    BY EmptyList
  <2>2. \A p \in b..e : code[p].op \in TakesOne => Takes(code[p]) = 1
    BY <1>8, EffectShape
  <2>3. ~(0 >= 1)
    OBVIOUS
  <2> QED
    BY <1>3, <1>13, <2>1, <2>2, <2>3
<1>15. ASSUME code[e].op \notin {"Ret", "Abort"} PROVE st[e + 1].stack = <<>>
  <2>1. e \in b..e /\ e + 1 \in b..e + 1
    BY <1>5
  <2>2. Height(st[e + 1].stack) = 0
    BY <1>4, <1>9, <1>13, <1>15, <2>1
  <2>3. st[e + 1].stack \in Lists(Types)
    BY <1>7, <2>1 DEF States
  <2> QED
    BY <2>2, <2>3, EmptyList
<1> QED
  BY <1>14, <1>15 DEF e

----------------------------------------------------------------------------
(* Preconditions only get weaker *)

\* p asks for no more than q, and for the same resources.
Weaker(p, q) == p \subseteq q /\ q \cap Resources \subseteq p

Conditions == (SUBSET Locals) \cup {JoinFailure}
Invariants == [pre : Conditions, error : BOOLEAN]
Maps == UNION {[D -> Invariants] : D \in SUBSET (DOMAIN cfg)}
Listed(a) == a.list \in Lists(DOMAIN cfg) /\ ToSet(a.list) \subseteq DOMAIN a.invs

\* What holds at the end of a block implies the precondition of a block.
Reached(invs, s, post) ==
  s \in DOMAIN invs /\ (invs[s].pre = JoinFailure \/ Weaker(invs[s].pre, post))

Lowered(a, r, c) ==
  \/ r.invs[c].pre = a.invs[c].pre
  \/ r.invs[c].pre = JoinFailure
  \/ /\ c \in ToSet(r.list) /\ a.invs[c].pre # JoinFailure
     /\ Weaker(r.invs[c].pre, a.invs[c].pre)

\* From a to r blocks are reached and preconditions get weaker, and those blocks
\* are to be looked at.
Grown(a, r) ==
  /\ DOMAIN a.invs \subseteq DOMAIN r.invs /\ ToSet(a.list) \subseteq ToSet(r.list)
  /\ \A c \in DOMAIN r.invs : c \in DOMAIN a.invs \/ c \in ToSet(r.list)
  /\ \A c \in DOMAIN a.invs : r.invs[c].error = a.invs[c].error /\ Lowered(a, r, c)

LEMMA WeakerTwice ==
  ASSUME NEW p, NEW q, NEW r, Weaker(p, q), Weaker(q, r)
  PROVE  Weaker(p, r)
BY DEF Weaker

LEMMA GrownTwice ==
  ASSUME NEW a, NEW r, NEW t, Grown(a, r), Grown(r, t)
  PROVE  Grown(a, t)
<1>1. /\ DOMAIN a.invs \subseteq DOMAIN r.invs /\ ToSet(a.list) \subseteq ToSet(r.list)
      /\ \A c \in DOMAIN r.invs : c \in DOMAIN a.invs \/ c \in ToSet(r.list)
      /\ \A c \in DOMAIN a.invs : r.invs[c].error = a.invs[c].error /\ Lowered(a, r, c)
  BY DEF Grown
<1>2. /\ DOMAIN r.invs \subseteq DOMAIN t.invs /\ ToSet(r.list) \subseteq ToSet(t.list)
      /\ \A c \in DOMAIN t.invs : c \in DOMAIN r.invs \/ c \in ToSet(t.list)
      /\ \A c \in DOMAIN r.invs : t.invs[c].error = r.invs[c].error /\ Lowered(r, t, c)
  BY DEF Grown
<1>3. ASSUME NEW c \in DOMAIN a.invs PROVE Lowered(a, t, c)
  <2>1. Lowered(a, r, c) /\ Lowered(r, t, c)
    BY <1>1, <1>2
  <2>2. c \in ToSet(r.list) => c \in ToSet(t.list)
    BY <1>2
  <2>3. CASE r.invs[c].pre = a.invs[c].pre
    BY <2>1, <2>2, <2>3, Zenon DEF Lowered
  <2>4. CASE r.invs[c].pre = JoinFailure
    <3>1. t.invs[c].pre = JoinFailure
      BY <2>1, <2>4, Zenon DEF Lowered
    <3> QED
      BY <3>1 DEF Lowered
  <2>5. CASE /\ c \in ToSet(r.list) /\ a.invs[c].pre # JoinFailure
             /\ Weaker(r.invs[c].pre, a.invs[c].pre)
    <3>1. CASE t.invs[c].pre = r.invs[c].pre \/ t.invs[c].pre = JoinFailure
      BY <2>2, <2>5, <3>1 DEF Lowered
    <3>2. CASE Weaker(t.invs[c].pre, r.invs[c].pre) 
      <4>1. Weaker(t.invs[c].pre, a.invs[c].pre)
        BY <2>5, <3>2, WeakerTwice
      <4> QED
        BY <2>2, <2>5, <4>1 DEF Lowered
    <3> QED
      BY <2>1, <3>1, <3>2, Zenon DEF Lowered
  <2> QED
    BY <2>1, <2>3, <2>4, <2>5, Zenon DEF Lowered
<1>4. \A c \in DOMAIN a.invs : t.invs[c].error = a.invs[c].error
  BY <1>1, <1>2
<1>5. /\ DOMAIN a.invs \subseteq DOMAIN t.invs /\ ToSet(a.list) \subseteq ToSet(t.list)
      /\ \A c \in DOMAIN t.invs : c \in DOMAIN a.invs \/ c \in ToSet(t.list)
  BY <1>1, <1>2
<1> QED
  BY <1>3, <1>4, <1>5 DEF Grown

LEMMA ReachedGrown ==
  ASSUME NEW a, NEW r, Grown(a, r), NEW s, NEW post, Reached(a.invs, s, post)
  PROVE  Reached(r.invs, s, post)
<1>1. s \in DOMAIN r.invs /\ Lowered(a, r, s)
  BY DEF Grown, Reached
<1>2. a.invs[s].pre = JoinFailure \/ Weaker(a.invs[s].pre, post)
  BY DEF Reached
<1>3. CASE r.invs[s].pre = JoinFailure
  BY <1>1, <1>3 DEF Reached
<1>4. CASE r.invs[s].pre = a.invs[s].pre
  BY <1>1, <1>2, <1>4 DEF Reached
<1>5. CASE a.invs[s].pre # JoinFailure /\ Weaker(r.invs[s].pre, a.invs[s].pre)
  <2>1. Weaker(r.invs[s].pre, post)
    BY <1>2, <1>5, WeakerTwice
  <2> QED
    BY <1>1, <2>1 DEF Reached
<1> QED
  BY <1>1, <1>3, <1>4, <1>5, Zenon DEF Lowered

LEMMA JoinWeakens ==
  ASSUME program \in Programs, NEW pre \in Conditions, NEW post \in SUBSET Locals
  PROVE  /\ join(pre, post) \in Conditions
         /\ join(pre, post) = JoinFailure \/ Weaker(join(pre, post), post)
         /\ join(pre, post) = JoinFailure
              \/ (pre # JoinFailure /\ Weaker(join(pre, post), pre))
<1>1. CASE pre = JoinFailure \/ pre \cap Resources # post \cap Resources
  <2>1. join(pre, post) = JoinFailure
    BY <1>1, Zenon DEF join
  <2>2. JoinFailure \in Conditions
    BY DEF Conditions
  <2> QED
    BY <2>1, <2>2
<1>2. CASE pre # JoinFailure /\ pre \cap Resources = post \cap Resources
  <2>1. join(pre, post) = pre \cap post /\ pre \in SUBSET Locals
    BY <1>2 DEF join, Conditions
  <2>2. pre \cap post \in SUBSET Locals
    BY <2>1
  <2>3. Weaker(pre \cap post, post) /\ Weaker(pre \cap post, pre)
    BY <1>2 DEF Weaker
  <2> QED
    BY <1>2, <2>1, <2>2, <2>3 DEF Conditions
<1> QED
  BY <1>1, <1>2

\* The state at the end of a block goes into the precondition of a successor.
LEMMA Propagated ==
  ASSUME program \in Programs, NEW post \in SUBSET Locals, NEW invs \in Maps, NEW list,
         Listed(Analysis(invs, list)), NEW next \in DOMAIN cfg
  PROVE  LET a == Analysis(invs, list)
             r == propagate(post, a, next)
         IN  /\ r = Analysis(r.invs, r.list) /\ r.invs \in Maps /\ Listed(r)
             /\ Grown(a, r) /\ Reached(r.invs, next, post)
             /\ \A c \in DOMAIN invs \ {next} : r.invs[c] = invs[c]
<1> DEFINE a == Analysis(invs, list)
           r == propagate(post, a, next)
<1>1. \A f, q : Analysis(f, q).invs = f /\ Analysis(f, q).list = q
  BY DEF Analysis
<1>2. PICK D \in SUBSET (DOMAIN cfg) : invs \in [D -> Invariants]
  BY DEF Maps
<1>3. DOMAIN invs = D /\ list \in Lists(DOMAIN cfg) /\ ToSet(list) \subseteq D
  BY <1>1, <1>2 DEF Listed
<1>4. /\ Append(list, next) \in Lists(DOMAIN cfg)
      /\ ToSet(Append(list, next)) = ToSet(list) \cup {next}
  BY <1>3, Pushed
<1>5. post \in Conditions
  BY DEF Conditions
<1>6. CASE next \notin D
  <2> DEFINE new == [pre |-> post, error |-> FALSE]
             f == With(invs, next, post)
  <2>1. r = Analysis(f, Append(list, next))
    BY <1>1, <1>3, <1>6, Zenon DEF propagate
  <2>2. new \in Invariants /\ new.pre = post
    BY <1>5 DEF Invariants
  <2>3. f = [c \in D \cup {next} |-> IF c \in D THEN invs[c] ELSE new]
    BY <1>3, Zenon DEF With
  <2> HIDE DEF f, new
  <2>4. f \in [D \cup {next} -> Invariants]
    BY <1>2, <2>2, <2>3
  <2>5. f[next] = new /\ \A c \in D : f[c] = invs[c]
    BY <1>6, <2>3
  <2>6. f \in Maps /\ DOMAIN f = D \cup {next}
    BY <1>2, <2>4 DEF Maps
  <2>7. Listed(r)
    BY <1>1, <1>3, <1>4, <2>1, <2>6 DEF Listed
  <2>8. Reached(r.invs, next, post)
    BY <1>1, <2>1, <2>2, <2>5, <2>6 DEF Reached, Weaker
  <2>9. Grown(a, r)
    <3>1. a.invs = invs /\ a.list = list /\ r.invs = f /\ r.list = Append(list, next)
      BY <1>1, <2>1
    <3>2. \A c \in D : Lowered(a, r, c)
      BY <2>5, <3>1 DEF Lowered
    <3> HIDE DEF a, r
    <3> QED
      BY <1>3, <1>4, <2>5, <2>6, <3>1, <3>2 DEF Grown
  <2> QED
    BY <1>1, <1>3, <2>1, <2>5, <2>6, <2>7, <2>8, <2>9
<1>7. CASE next \in D
  <2> DEFINE old == invs[next].pre
             joined == join(old, post)
             f == [invs EXCEPT ![next].pre = joined]
             l == IF joined \in {JoinFailure, old} THEN list ELSE Append(list, next)
  <2>1. r = Analysis(f, l)
    BY <1>1, <1>3, <1>7, Zenon DEF propagate
  <2>2. old \in Conditions /\ invs[next] \in Invariants
    BY <1>2, <1>7 DEF Invariants
  <2>3. /\ joined \in Conditions
        /\ joined = JoinFailure \/ Weaker(joined, post)
        /\ joined = JoinFailure \/ (old # JoinFailure /\ Weaker(joined, old))
    <3> HIDE DEF old
    <3> QED
      BY <2>2, JoinWeakens
  <2>4. /\ f[next].pre = joined /\ f[next].error = invs[next].error
        /\ f[next] \in Invariants /\ DOMAIN f = D
        /\ \A c \in D \ {next} : f[c] = invs[c]
    <3> HIDE DEF joined, old
    <3> QED
      BY <1>2, <1>7, <2>2, <2>3 DEF Invariants
  <2>5. f \in [D -> Invariants]
    <3>1. f = [c \in D |-> f[c]]
      BY <1>2
    <3> HIDE DEF f
    <3> QED
      BY <1>2, <2>4, <3>1
  <2>6. f \in Maps
    BY <2>5 DEF Maps
  <2>7. /\ l \in Lists(DOMAIN cfg) /\ ToSet(l) \subseteq D /\ ToSet(list) \subseteq ToSet(l)
        /\ joined \notin {JoinFailure, old} => next \in ToSet(l)
    BY <1>3, <1>4, <1>7
  <2> HIDE DEF f, l, joined
  <2>8. r.invs = f /\ r.list = l /\ a.invs = invs /\ a.list = list
    BY <1>1, <2>1
  <2>9. Listed(r)
    BY <2>4, <2>7, <2>8 DEF Listed
  <2>10. Reached(r.invs, next, post)
    BY <1>7, <2>3, <2>4, <2>8 DEF Reached
  <2>11. Grown(a, r)
    <3>1. ASSUME NEW c \in D PROVE f[c].error = invs[c].error /\ Lowered(a, r, c)
      <4>1. CASE c = next
        BY <2>3, <2>4, <2>7, <2>8, <4>1, Zenon DEF Lowered
      <4>2. CASE c # next
        BY <2>4, <2>8, <4>2 DEF Lowered
      <4> QED
        BY <4>1, <4>2
    <3> HIDE DEF a, r
    <3> QED
      BY <1>3, <2>4, <2>7, <2>8, <3>1 DEF Grown
  <2>12. r = Analysis(r.invs, r.list)
    BY <2>1, <2>8
  <2>13. \A c \in DOMAIN invs \ {next} : r.invs[c] = invs[c]
    BY <1>3, <2>4, <2>8
  <2> QED
    BY <2>6, <2>8, <2>9, <2>10, <2>11, <2>12, <2>13
<1> QED
  BY <1>6, <1>7

LEMMA PropagatedToAll ==
  ASSUME program \in Programs, NEW post \in SUBSET Locals, NEW invs \in Maps, NEW list,
         Listed(Analysis(invs, list)), NEW nexts \in SUBSET (DOMAIN cfg \ {0}),
         nexts # {} => Min(nexts) \in nexts /\ Max(nexts) \in nexts,
         \A s \in nexts : s = Min(nexts) \/ s = Max(nexts)
  PROVE  LET a == Analysis(invs, list)
             r == propagate_all(post, a, nexts)
         IN  /\ r.invs \in Maps /\ Listed(r) /\ Grown(a, r)
             /\ \A s \in nexts : Reached(r.invs, s, post)
             /\ 0 \in DOMAIN invs => r.invs[0] = invs[0]
<1> DEFINE a == Analysis(invs, list)
           low == Min(nexts)
           high == Max(nexts)
           once == propagate(post, a, low)
           twice == propagate(post, once, high)
           r == propagate_all(post, a, nexts)
<1> SUFFICES /\ r.invs \in Maps /\ Listed(r) /\ Grown(a, r)
             /\ \A s \in nexts : Reached(r.invs, s, post)
             /\ 0 \in DOMAIN invs => r.invs[0] = invs[0]
  OBVIOUS
<1>1. r = IF nexts = {} THEN a ELSE IF low = high THEN once ELSE twice
  BY Zenon DEF propagate_all
<1>2. a.invs = invs /\ a.list = list
  BY DEF Analysis
<1>3. CASE nexts = {}
  <2>1. Grown(a, a)
    <3> HIDE DEF a
    <3> QED
      BY DEF Grown, Lowered
  <2>2. r = a
    BY <1>1, <1>3
  <2> QED
    BY <1>2, <1>3, <2>1, <2>2
<1>4. CASE nexts # {}
  <2>1. /\ low \in DOMAIN cfg /\ high \in DOMAIN cfg /\ low # 0 /\ high # 0
        /\ \A s \in nexts : s = low \/ s = high
    BY <1>4
  <2> HIDE DEF low, high
  <2>2. /\ once = Analysis(once.invs, once.list) /\ once.invs \in Maps /\ Listed(once)
        /\ Grown(a, once) /\ Reached(once.invs, low, post)
        /\ \A c \in DOMAIN invs \ {low} : once.invs[c] = invs[c]
    BY <2>1, Propagated
  <2>3. CASE low = high
    <3>1. r = once /\ \A s \in nexts : s = low
      BY <1>1, <1>4, <2>1, <2>3
    <3> HIDE DEF once, r, a
    <3> QED
      BY <2>1, <2>2, <3>1
  <2>4. CASE low # high
    <3>1. r = twice
      BY <1>1, <1>4, <2>4
    <3> HIDE DEF once
    <3>2. /\ twice.invs \in Maps /\ Listed(twice)
          /\ Grown(once, twice) /\ Reached(twice.invs, high, post)
          /\ \A c \in DOMAIN once.invs \ {high} : twice.invs[c] = once.invs[c]
      <4>1. Listed(Analysis(once.invs, once.list))
        BY <2>2
      <4>2. LET x == Analysis(once.invs, once.list)
                y == propagate(post, x, high)
            IN  /\ y.invs \in Maps /\ Listed(y)
                /\ Grown(x, y) /\ Reached(y.invs, high, post)
                /\ \A c \in DOMAIN once.invs \ {high} : y.invs[c] = once.invs[c]
        BY <2>1, <2>2, <4>1, Propagated
      <4> QED
        BY <2>2, <4>2
    <3> HIDE DEF a, r, twice
    <3>3. Grown(a, twice) /\ Reached(twice.invs, low, post)
      BY <2>2, <3>2, GrownTwice, ReachedGrown
    <3>4. 0 \in DOMAIN invs => twice.invs[0] = invs[0]
      <4>1. DOMAIN invs \subseteq DOMAIN once.invs
        BY <1>2, <2>2 DEF Grown
      <4> QED
        BY <2>1, <2>2, <3>2, <4>1
    <3> QED
      BY <2>1, <3>1, <3>2, <3>3, <3>4
  <2> QED
    BY <2>3, <2>4
<1> QED
  BY <1>3, <1>4

----------------------------------------------------------------------------
(* The analysis *)

\* The block is executed without an error, and what it leaves has been
\* propagated to its successors.
SettledBy(c, st) ==
  /\ Walk(c, inv_map[c].pre, st)
  /\ \A s \in cfg[c].successors : Reached(inv_map, s, st[cfg[c].exit + 1].locls)

Settled(c) == \E st : SettledBy(c, st)

Known == {"submitted", "analyzed", "rejected", "running", "returned", "aborted", "fault"}

\* A block that is not to be looked at has failed or is settled.
Analyzed ==
  /\ cfg = ControlFlowGraph(code) /\ verify_stack_usage(code, returns, cfg)
  /\ 0 \in DOMAIN inv_map /\ inv_map[0].pre = program.args
  /\ \A c \in DOMAIN inv_map :
       c \in ToSet(work_list) \/ inv_map[c].pre = JoinFailure \/ inv_map[c].error \/ Settled(c)

AnalysisInv ==
  /\ program \in Programs /\ status \in Known
  /\ inv_map \in Maps /\ Listed(Analysis(inv_map, work_list))
  /\ cfg \in {<<>>, ControlFlowGraph(code)}
  /\ status = "submitted" => inv_map = <<>> /\ work_list = <<>>
  /\ status \notin {"submitted", "rejected"} => Analyzed

LEMMA ProgramSame ==
  ASSUME UNCHANGED program
  PROVE  /\ code' = code /\ Locals' = Locals /\ Resources' = Resources /\ returns' = returns
         /\ States' = States /\ Size' = Size /\ Conditions' = Conditions
         /\ Invariants' = Invariants
BY Zenon DEF code, Locals, Resources, returns, States, Size, Conditions, Invariants

LEMMA ExecutionSame ==
  ASSUME UNCHANGED program, NEW i, NEW s
  PROVE  (accepts(i, s)' <=> accepts(i, s)) /\ after(i, s)' = after(i, s)
BY Zenon DEF accepts, after, Resources, Locals, Top, Under, push

LEMMA WalkSame ==
  ASSUME UNCHANGED <<program, cfg>>, NEW b, NEW pre, NEW st
  PROVE  Walk(b, pre, st)' <=> Walk(b, pre, st)
<1>1. program' = program /\ cfg' = cfg
  OBVIOUS
<1>2. code' = code /\ States' = States
  BY <1>1, ProgramSame
<1>3. \A i, s : (accepts(i, s)' <=> accepts(i, s)) /\ after(i, s)' = after(i, s)
  BY <1>1, ExecutionSame, Zenon
<1>4. \A p : accepts(code[p], st[p])' <=> accepts(code[p], st[p])
  BY <1>2, <1>3, Zenon
<1>5. \A p : after(code[p], st[p])' = after(code[p], st[p])
  BY <1>2, <1>3, Zenon
<1>6. Walk(b, pre, st)' <=>
        /\ st \in [b..cfg[b].exit + 1 -> States]
        /\ st[b] = Entry(pre)
        /\ \A p \in b..cfg[b].exit : accepts(code[p], st[p])' /\ st[p + 1] = after(code[p], st[p])'
  BY <1>1, <1>2, Zenon DEF Walk, Entry
<1> QED
  BY <1>4, <1>5, <1>6, Zenon DEF Walk

LEMMA ReachedSame ==
  ASSUME UNCHANGED program, NEW invs, NEW s, NEW post
  PROVE  Reached(invs, s, post)' <=> Reached(invs, s, post)
BY ProgramSame, Zenon DEF Reached, Weaker

\* What nothing of the analysis changes is as it was.
LEMMA AnalysisSame ==
  ASSUME AnalysisInv, UNCHANGED <<program, analysis>>, status' \in Known \ {"submitted"},
         status \in {"submitted", "rejected"} => status' = status
  PROVE  AnalysisInv'
<1>1. program' = program /\ cfg' = cfg /\ inv_map' = inv_map /\ work_list' = work_list
  BY DEF analysis
<1>2. /\ code' = code /\ Locals' = Locals /\ Resources' = Resources /\ returns' = returns
      /\ Conditions' = Conditions /\ Invariants' = Invariants
  BY <1>1, ProgramSame
<1>3. Maps' = Maps
  BY <1>1, <1>2, Zenon DEF Maps
<1>4. Listed(Analysis(inv_map, work_list))' <=> Listed(Analysis(inv_map, work_list))
  BY <1>1, Zenon DEF Listed, Analysis
<1>5. status' = "submitted" => FALSE
  OBVIOUS
<1>6. ASSUME status' \notin {"submitted", "rejected"} PROVE Analyzed'
  <2>1. Analyzed
    BY <1>6 DEF AnalysisInv
  <2>2. ASSUME NEW c PROVE Settled(c) => Settled(c)'
    <3> SUFFICES ASSUME NEW st, SettledBy(c, st) PROVE SettledBy(c, st)'
      BY DEF Settled
    <3>1. /\ Walk(c, inv_map[c].pre, st)
          /\ \A s \in cfg[c].successors : Reached(inv_map, s, st[cfg[c].exit + 1].locls)
      BY DEF SettledBy
    <3>2. \A pre : Walk(c, pre, st)' <=> Walk(c, pre, st)
      BY <1>1, WalkSame
    <3>3. \A invs, s, post : Reached(invs, s, post)' <=> Reached(invs, s, post)
      BY <1>1, ReachedSame
    <3> QED
      BY <1>1, <3>1, <3>2, <3>3, Zenon DEF SettledBy
  <2> QED
    BY <1>1, <1>2, <2>1, <2>2, Zenon DEF Analyzed
<1> QED
  BY <1>1, <1>2, <1>3, <1>4, <1>5, <1>6 DEF AnalysisInv

LEMMA VerifyKeeps ==
  ASSUME AnalysisInv, verify_function
  PROVE  AnalysisInv'
<1>1. /\ program \in Programs /\ program' = program
      /\ inv_map = <<>> /\ work_list = <<>> /\ cfg' = ControlFlowGraph(code)
  BY DEF AnalysisInv, verify_function
<1>2. /\ code' = code /\ returns' = returns /\ Invariants' = Invariants /\ Conditions' = Conditions
  BY <1>1, ProgramSame
<1>3. CASE verify_stack_usage(code, returns, cfg')
  <2> DEFINE new == [pre |-> program.args, error |-> FALSE]
  <2>1. status' = "analyzed" /\ work_list' = <<0>> /\ inv_map' = With(<<>>, 0, program.args)
    BY <1>3 DEF verify_function
  <2>2. new \in Invariants
    BY <1>1, FunctionShape DEF Invariants, Conditions
  <2>3. inv_map' = [c \in {0} |-> new]
    <3>1. DOMAIN <<>> = {}
      OBVIOUS
    <3> QED
      BY <2>1, <3>1 DEF With
  <2>4. 0 \in DOMAIN cfg'
    <3>1. DOMAIN cfg' = block_ids(code) /\ 0 \in block_ids(code)
      BY <1>1 DEF ControlFlowGraph, block_ids
    <3> QED
      BY <3>1
  <2>5. inv_map' \in Maps'
    <3>1. inv_map' \in [{0} -> Invariants'] /\ {0} \in SUBSET (DOMAIN cfg')
      BY <1>2, <2>2, <2>3, <2>4
    <3> QED
      BY <3>1 DEF Maps
  <2>6. work_list' \in Lists(DOMAIN cfg') /\ ToSet(work_list') = {0}
    <3>1. <<>> \in Lists(DOMAIN cfg') /\ ToSet(<<>>) = {}
      BY EmptyList
    <3>2. work_list' = Append(<<>>, 0)
      BY <2>1
    <3>3. /\ Append(<<>>, 0) \in Lists(DOMAIN cfg')
          /\ ToSet(Append(<<>>, 0)) = ToSet(<<>>) \cup {0}
      BY <2>4, <3>1, Pushed, Zenon
    <3> QED
      BY <3>1, <3>2, <3>3, Zenon
  <2>7. Listed(Analysis(inv_map, work_list))'
    <3>1. DOMAIN inv_map' = {0}
      BY <2>3
    <3> QED
      BY <2>6, <3>1 DEF Listed, Analysis
  <2>8. Analyzed'
    <3>1. 0 \in DOMAIN inv_map' /\ inv_map'[0].pre = program'.args
      BY <1>1, <2>3
    <3>2. \A c \in DOMAIN inv_map' : c \in ToSet(work_list')
      BY <2>3, <2>6
    <3>3. cfg' = ControlFlowGraph(code)' /\ verify_stack_usage(code, returns, cfg)'
      BY <1>1, <1>2, <1>3, Zenon
    <3> QED
      BY <3>1, <3>2, <3>3, Zenon DEF Analyzed
  <2> QED
    BY <1>1, <1>2, <2>1, <2>5, <2>7, <2>8 DEF AnalysisInv, Known
<1>4. CASE ~verify_stack_usage(code, returns, cfg')
  <2>1. status' = "rejected" /\ work_list' = <<>> /\ inv_map' = <<>>
    BY <1>1, <1>4 DEF verify_function
  <2>2. inv_map' \in Maps'
    <3>1. <<>> \in [{} -> Invariants'] /\ {} \in SUBSET (DOMAIN cfg')
      OBVIOUS
    <3> QED
      BY <2>1, <3>1 DEF Maps
  <2>3. Listed(Analysis(inv_map, work_list))'
    <3>1. <<>> \in Lists(DOMAIN cfg') /\ ToSet(<<>>) = {}
      BY EmptyList
    <3> QED
      BY <2>1, <3>1 DEF Listed, Analysis
  <2> QED
    BY <1>1, <1>2, <2>1, <2>2, <2>3 DEF AnalysisInv, Known
<1> QED
  BY <1>3, <1>4

LEMMA AnalyzeKeeps ==
  ASSUME AnalysisInv, analyze_block
  PROVE  AnalysisInv'
<1> DEFINE b == Last(work_list)
           pre == inv_map[b].pre
           post == execute_block(b, pre)
           done == [inv_map EXCEPT ![b].error = FALSE]
           rest == Front(work_list)
           a == Analysis(done, rest)
           result == propagate_all(post, a, cfg[b].successors)
<1>1. /\ status = "analyzed" /\ work_list # <<>>
      /\ program' = program /\ cfg' = cfg /\ status' = status
  BY DEF analyze_block
<1>2. \/ pre = JoinFailure /\ work_list' = rest /\ inv_map' = inv_map
      \/ /\ pre # JoinFailure /\ post = Error /\ work_list' = rest
         /\ inv_map' = [inv_map EXCEPT ![b].error = TRUE]
      \/ /\ pre # JoinFailure /\ post # Error
         /\ work_list' = result.list /\ inv_map' = result.invs
  BY Zenon DEF analyze_block
<1>3. /\ program \in Programs /\ Analyzed
      /\ inv_map \in Maps /\ Listed(Analysis(inv_map, work_list))
  BY <1>1 DEF AnalysisInv
<1>4. /\ cfg = ControlFlowGraph(code) /\ verify_stack_usage(code, returns, cfg)
      /\ 0 \in DOMAIN inv_map /\ inv_map[0].pre = program.args
      /\ \A c \in DOMAIN inv_map :
           c \in ToSet(work_list) \/ inv_map[c].pre = JoinFailure \/ inv_map[c].error \/ Settled(c)
  BY <1>3 DEF Analyzed
<1>5. /\ code' = code /\ returns' = returns /\ Invariants' = Invariants /\ Conditions' = Conditions
  BY <1>1, ProgramSame
<1>6. PICK D \in SUBSET (DOMAIN cfg) : inv_map \in [D -> Invariants]
  BY <1>3 DEF Maps
<1>7. /\ work_list \in Lists(DOMAIN cfg) /\ ToSet(work_list) \subseteq D /\ DOMAIN inv_map = D
  BY <1>3, <1>6 DEF Listed, Analysis
<1>8. /\ rest \in Lists(DOMAIN cfg) /\ b \in D
      /\ ToSet(work_list) = ToSet(rest) \cup {b}
  BY <1>1, <1>7, Popped
\* What is to be shown of the invariants and the list that the step leaves.
<1>9. ASSUME inv_map' \in Maps, work_list' \in Lists(DOMAIN cfg),
             ToSet(work_list') \subseteq DOMAIN inv_map',
             0 \in DOMAIN inv_map', inv_map'[0].pre = inv_map[0].pre,
             \A c \in DOMAIN inv_map' :
               c \in ToSet(work_list') \/ inv_map'[c].pre = JoinFailure \/ inv_map'[c].error
                 \/ \E st : /\ Walk(c, inv_map'[c].pre, st)
                            /\ \A s \in cfg[c].successors :
                                 Reached(inv_map', s, st[cfg[c].exit + 1].locls)
      PROVE  AnalysisInv'
  <2>1. Maps' = Maps
    BY <1>1, <1>5, Zenon DEF Maps
  <2>2. Listed(Analysis(inv_map, work_list))'
    BY <1>1, <1>9 DEF Listed, Analysis
  <2>3. \A c \in DOMAIN inv_map' :
          c \in ToSet(work_list') \/ inv_map'[c].pre = JoinFailure \/ inv_map'[c].error \/ Settled(c)'
    <3> SUFFICES ASSUME NEW c \in DOMAIN inv_map', NEW st, Walk(c, inv_map'[c].pre, st),
                        \A s \in cfg[c].successors :
                          Reached(inv_map', s, st[cfg[c].exit + 1].locls)
                 PROVE  SettledBy(c, st)'
      BY <1>9, Zenon DEF Settled
    <3>1. \A p : Walk(c, p, st)' <=> Walk(c, p, st)
      BY <1>1, WalkSame
    <3>2. \A invs, s, q : Reached(invs, s, q)' <=> Reached(invs, s, q)
      BY <1>1, ReachedSame
    <3> QED
      BY <1>1, <3>1, <3>2, Zenon DEF SettledBy
  <2>4. Analyzed'
    <3>1. cfg' = ControlFlowGraph(code)' /\ verify_stack_usage(code, returns, cfg)'
      BY <1>1, <1>4, <1>5, Zenon
    <3> QED
      BY <1>1, <1>4, <1>9, <2>3, <3>1, Zenon DEF Analyzed
  <2>5. cfg' \in {<<>>, ControlFlowGraph(code)'}
    BY <1>1, <1>4, <1>5
  <2> QED
    BY <1>1, <1>3, <1>9, <2>1, <2>2, <2>4, <2>5 DEF AnalysisInv
<1>10. CASE pre = JoinFailure /\ work_list' = rest /\ inv_map' = inv_map
  <2>1. \A c \in D : c \in ToSet(rest) \/ inv_map[c].pre = JoinFailure \/ inv_map[c].error \/ Settled(c)
    BY <1>4, <1>7, <1>8, <1>10
  <2> HIDE DEF b, rest
  <2> QED
    BY <1>3, <1>4, <1>7, <1>8, <1>9, <1>10, <2>1, Zenon DEF Settled, SettledBy
<1>11. CASE /\ pre # JoinFailure /\ post = Error /\ work_list' = rest
            /\ inv_map' = [inv_map EXCEPT ![b].error = TRUE]
  <2> HIDE DEF b, rest, pre, post
  <2>1. /\ DOMAIN inv_map' = D /\ inv_map'[b].error
        /\ \A c \in D : inv_map'[c].pre = inv_map[c].pre
        /\ \A c \in D \ {b} : inv_map'[c].error = inv_map[c].error
    BY <1>6, <1>8, <1>11 DEF Invariants
  <2>2. inv_map' \in Maps
    <3>1. \A c \in D : inv_map'[c] \in Invariants
      BY <1>6, <1>8, <1>11 DEF Invariants
    <3>2. inv_map' \in [D -> Invariants]
      BY <1>6, <1>11, <2>1, <3>1
    <3> QED
      BY <3>2 DEF Maps
  <2>3. \A s, q : Reached(inv_map, s, q) => Reached(inv_map', s, q)
    BY <1>7, <2>1 DEF Reached
  <2>4. ASSUME NEW c \in D
        PROVE  c \in ToSet(rest) \/ inv_map'[c].pre = JoinFailure \/ inv_map'[c].error
                 \/ \E st : /\ Walk(c, inv_map'[c].pre, st)
                            /\ \A s \in cfg[c].successors :
                                 Reached(inv_map', s, st[cfg[c].exit + 1].locls)
    <3>1. CASE c = b
      BY <2>1, <3>1
    <3>2. CASE c # b
      <4>1. c \in ToSet(rest) \/ inv_map[c].pre = JoinFailure \/ inv_map[c].error \/ Settled(c)
        BY <1>4, <1>7, <1>8, <3>2
      <4>2. inv_map'[c].pre = inv_map[c].pre /\ inv_map'[c].error = inv_map[c].error
        BY <2>1, <3>2
      <4> QED
        BY <2>3, <4>1, <4>2, Zenon DEF Settled, SettledBy
    <3> QED
      BY <3>1, <3>2
  <2>5. ToSet(rest) \subseteq D
    BY <1>7, <1>8
  <2> QED
    BY <1>4, <1>7, <1>8, <1>9, <1>11, <2>1, <2>2, <2>4, <2>5
<1>12. CASE /\ pre # JoinFailure /\ post # Error
            /\ work_list' = result.list /\ inv_map' = result.invs
  <2> DEFINE e == cfg[b].exit
             nexts == cfg[b].successors
  <2>1. b \in DOMAIN cfg /\ pre \in SUBSET Locals /\ inv_map[b] \in Invariants
    <3>1. b \in DOMAIN cfg /\ inv_map[b] \in Invariants
      BY <1>6, <1>8
    <3> HIDE DEF b
    <3> QED
      BY <1>12, <3>1 DEF Invariants, Conditions
  <2>2. PICK st : Walk(b, pre, st) /\ post = st[e + 1].locls
    <3> HIDE DEF b, pre
    <3> QED
      BY <1>3, <1>4, <1>12, <2>1, ExecutionIsWalk
  <2>3. post \in SUBSET Locals
    <3>1. b \in 0..Size - 1 /\ e \in b..Size - 1 /\ Size \in Nat
      BY <1>3, <1>4, <2>1, BlockShape, FunctionShape
    <3> HIDE DEF b, pre, post, e
    <3>2. e + 1 \in b..e + 1
      BY <3>1
    <3>3. st[e + 1] \in States
      BY <2>2, <3>2 DEF Walk, e
    <3> QED
      BY <2>2, <3>3 DEF States
  <2>4. /\ nexts \in SUBSET (DOMAIN cfg \ {0})
        /\ nexts # {} => Min(nexts) \in nexts /\ Max(nexts) \in nexts
        /\ \A s \in nexts : s = Min(nexts) \/ s = Max(nexts)
    <3>1. is_unconditional_branch(code[Max(DOMAIN code)])
      BY <1>4 DEF verify_stack_usage
    <3> HIDE DEF b
    <3> QED
      BY <1>3, <1>4, <2>1, <3>1, SuccessorShape
  <2> HIDE DEF b, pre, post
  <2>5. /\ DOMAIN done = D /\ done \in Maps
        /\ \A c \in D : done[c].pre = inv_map[c].pre
        /\ \A c \in D \ {b} : done[c].error = inv_map[c].error
    <3>1. /\ DOMAIN done = D
          /\ \A c \in D : done[c].pre = inv_map[c].pre
          /\ \A c \in D \ {b} : done[c].error = inv_map[c].error
      BY <1>6, <1>8, <2>1 DEF Invariants
    <3>2. \A c \in D : done[c] \in Invariants
      BY <1>6, <1>8, <2>1 DEF Invariants
    <3>3. done = [c \in D |-> done[c]]
      BY <1>7
    <3> HIDE DEF done
    <3>4. done \in [D -> Invariants]
      BY <3>2, <3>3
    <3> QED
      BY <3>1, <3>4 DEF Maps
  <2>6. Listed(a) /\ a.invs = done /\ a.list = rest
    BY <1>7, <1>8, <2>5 DEF Listed, Analysis
  <2> HIDE DEF nexts, done, rest
  <2>7. /\ result.invs \in Maps /\ Listed(result) /\ Grown(a, result)
        /\ \A s \in nexts : Reached(result.invs, s, post)
        /\ 0 \in DOMAIN done => result.invs[0] = done[0]
    BY <1>3, <2>3, <2>4, <2>5, <2>6, PropagatedToAll DEF nexts
  <2> HIDE DEF result, a
  <2>8. \A s, q : Reached(inv_map, s, q) => Reached(result.invs, s, q)
    <3>1. \A s, q : Reached(inv_map, s, q) => Reached(done, s, q)
      BY <1>7, <2>5 DEF Reached
    <3> QED
      BY <2>6, <2>7, <3>1, ReachedGrown
  <2>9. ASSUME NEW c \in DOMAIN result.invs
        PROVE  c \in ToSet(result.list) \/ result.invs[c].pre = JoinFailure \/ result.invs[c].error
                 \/ \E w : /\ Walk(c, result.invs[c].pre, w)
                           /\ \A s \in cfg[c].successors :
                                Reached(result.invs, s, w[cfg[c].exit + 1].locls)
    <3> SUFFICES ASSUME c \notin ToSet(result.list), result.invs[c].pre # JoinFailure,
                        ~result.invs[c].error
                 PROVE  \E w : /\ Walk(c, result.invs[c].pre, w)
                               /\ \A s \in cfg[c].successors :
                                    Reached(result.invs, s, w[cfg[c].exit + 1].locls)
      OBVIOUS
    <3>1. /\ c \in D /\ ToSet(rest) \subseteq ToSet(result.list)
          /\ result.invs[c].error = done[c].error /\ result.invs[c].pre = done[c].pre
      BY <2>5, <2>6, <2>7 DEF Grown, Lowered
    <3>2. CASE c = b
      BY <2>2, <2>5, <2>7, <3>1, <3>2, Zenon DEF nexts, e, pre
    <3>3. CASE c # b
      <4>1. c \in ToSet(rest) \/ inv_map[c].pre = JoinFailure \/ inv_map[c].error \/ Settled(c)
        BY <1>4, <1>7, <1>8, <3>1, <3>3
      <4>2. Settled(c) /\ result.invs[c].pre = inv_map[c].pre
        BY <2>5, <3>1, <3>3, <4>1
      <4> QED
        BY <2>8, <4>2, Zenon DEF Settled, SettledBy
    <3> QED
      BY <3>2, <3>3
  <2>10. /\ result.list \in Lists(DOMAIN cfg) /\ ToSet(result.list) \subseteq DOMAIN result.invs
         /\ 0 \in DOMAIN result.invs /\ result.invs[0].pre = inv_map[0].pre
    BY <1>4, <1>7, <2>5, <2>6, <2>7 DEF Listed, Grown
  <2> QED
    BY <1>9, <1>12, <2>7, <2>9, <2>10, Zenon
<1> QED
  BY <1>2, <1>10, <1>11, <1>12, Zenon

LEMMA AnalysisHolds ==
  ASSUME AnalysisInv, [Next]_vars
  PROVE  AnalysisInv'
<1>1. CASE verify_function
  BY <1>1, VerifyKeeps
<1>2. CASE analyze_block
  BY <1>2, AnalyzeKeeps
<1>3. CASE execute_main
  <2>1. /\ UNCHANGED <<program, analysis>> /\ status' \in {"running", "rejected"}
        /\ status = "analyzed"
    BY <1>3 DEF execute_main
  <2> QED
    BY <2>1, AnalysisSame DEF Known
<1>4. CASE Interpret
  <2>1. /\ UNCHANGED <<program, analysis>> /\ status = "running"
        /\ status' \in {"running", "returned", "aborted", "fault"}
    <3>1. Fault => UNCHANGED <<program, analysis>> /\ status' = "fault"
      BY DEF Fault
    <3>2. \A p, values, slots, n :
            Advance(p, values, slots, n) => UNCHANGED <<program, analysis>> /\ status' = status
      BY DEF Advance
    <3>3. \A op : Fetch(op) => status = "running"
      BY DEF Fetch
    <3>4. ld \/ branch => UNCHANGED <<program, analysis>> /\ status = "running" /\ status' = status
      BY <3>2, <3>3, Zenon DEF ld, branch
    <3>5. pop \/ copy_loc \/ move_loc \/ store_loc \/ pack \/ unpack \/ br_true =>
            UNCHANGED <<program, analysis>> /\ status = "running" /\ status' \in {"fault", status}
      BY <3>1, <3>2, <3>3, Zenon DEF pop, copy_loc, move_loc, store_loc, pack, unpack, br_true
    <3>6. ret => UNCHANGED <<program, analysis>> /\ status = "running" /\ status' = "returned"
      BY <3>3, Zenon DEF ret
    <3>7. abort => /\ UNCHANGED <<program, analysis>> /\ status = "running"
                   /\ status' \in {"fault", "aborted"}
      BY <3>1, <3>3, Zenon DEF abort
    <3> QED
      BY <1>4, <3>4, <3>5, <3>6, <3>7 DEF Interpret
  <2> QED
    BY <2>1, AnalysisSame DEF Known
<1>5. CASE UNCHANGED vars
  <2>1. program' = program /\ status' = status /\ UNCHANGED analysis /\ UNCHANGED program
    BY <1>5 DEF vars
  <2>2. CASE status # "submitted"
    <3>1. status' \in Known \ {"submitted"}
      BY <2>1, <2>2 DEF AnalysisInv
    <3> QED
      BY <2>1, <3>1, AnalysisSame
  <2>3. CASE status = "submitted"
    <3>1. cfg' = cfg /\ inv_map' = inv_map /\ work_list' = work_list
      BY <2>1 DEF analysis
    <3>2. code' = code /\ Invariants' = Invariants
      BY <2>1, ProgramSame
    <3>3. Maps' = Maps
      BY <3>1, <3>2, Zenon DEF Maps
    <3>4. Listed(Analysis(inv_map, work_list))'
      BY <3>1 DEF Listed, Analysis, AnalysisInv
    <3> QED
      BY <2>1, <2>3, <3>1, <3>2, <3>3, <3>4 DEF AnalysisInv
  <2> QED
    BY <2>2, <2>3
<1> QED
  BY <1>1, <1>2, <1>3, <1>4, <1>5 DEF Next, Verify

LEMMA AnalysisBegins ==
  ASSUME Init
  PROVE  AnalysisInv
<1>1. /\ program \in Programs /\ status = "submitted"
      /\ cfg = <<>> /\ inv_map = <<>> /\ work_list = <<>>
  BY DEF Init
<1>2. DOMAIN <<>> = {}
  OBVIOUS
<1>3. inv_map \in Maps
  <2>1. <<>> \in [{} -> Invariants] /\ {} \in SUBSET (DOMAIN cfg)
    OBVIOUS
  <2> QED
    BY <1>1, <2>1 DEF Maps
<1>4. Listed(Analysis(inv_map, work_list))
  <2>1. <<>> \in Lists(DOMAIN cfg) /\ ToSet(<<>>) = {}
    BY EmptyList
  <2> QED
    BY <1>1, <2>1 DEF Listed, Analysis
<1> QED
  BY <1>1, <1>3, <1>4 DEF AnalysisInv, Known

----------------------------------------------------------------------------
(* Types *)

FrameType ==
  /\ pc \in 0..Size /\ stack \in Lists(Types) /\ live \in Int
  /\ status = "running" => locls \in [Locals -> Types \cup {Invalid}]

LEMMA FrameSame ==
  ASSUME FrameType, UNCHANGED <<program, frame>>, status' = "running" => status = "running"
  PROVE  FrameType'
<1>1. pc' = pc /\ stack' = stack /\ live' = live /\ locls' = locls /\ program' = program
  BY DEF frame
<1>2. Size' = Size /\ Locals' = Locals /\ Lists(Types)' = Lists(Types)
  BY <1>1, ProgramSame DEF Lists
<1> QED
  BY <1>1, <1>2 DEF FrameType

LEMMA FrameAdvances ==
  ASSUME FrameType, status = "running", NEW p, NEW values, NEW slots, NEW n,
         Advance(p, values, slots, n), p \in 0..Size, values \in Lists(Types),
         slots \in [Locals -> Types \cup {Invalid}], n \in Int
  PROVE  FrameType'
<1>1. /\ pc' = p /\ stack' = values /\ live' = n /\ locls' = slots
      /\ program' = program /\ status' = status
  BY DEF Advance
<1>2. Size' = Size /\ Locals' = Locals /\ Lists(Types)' = Lists(Types)
  BY <1>1, ProgramSame DEF Lists
<1> QED
  BY <1>1, <1>2 DEF FrameType

LEMMA FrameHolds ==
  ASSUME AnalysisInv, FrameType, [Next]_vars
  PROVE  FrameType'
<1>1. program \in Programs
  BY DEF AnalysisInv
<1>2. /\ Size \in Nat \ {0} /\ DOMAIN code = 0..Size - 1
      /\ \A p \in 0..Size - 1 : code[p] \in Instructions(Size, Locals)
      /\ IsFiniteSet(Locals) /\ program.locals \in [Locals -> Types]
      /\ program.args \in SUBSET Locals
  BY <1>1, FunctionShape
<1>3. pc \in 0..Size /\ stack \in Lists(Types) /\ live \in Int
  BY DEF FrameType
<1>4. "unrestricted" \in Types /\ "resource" \in Types
  BY DEF Types
<1>5. Fault => FrameType'
  BY FrameSame DEF Fault
<1>6. CASE Verify
  <2>1. CASE verify_function \/ analyze_block
    BY <2>1, FrameSame DEF verify_function, analyze_block
  <2>2. CASE execute_main
    <3>1. CASE Accepted
      <4>1. /\ locls' = [l \in Locals |-> IF l \in program.args THEN program.locals[l] ELSE Invalid]
            /\ live' = Cardinality(program.args \cap Resources)
            /\ program' = program /\ pc' = pc /\ stack' = stack
        BY <2>2, <3>1 DEF execute_main
      <4>2. Size' = Size /\ Locals' = Locals /\ Lists(Types)' = Lists(Types)
        BY <4>1, ProgramSame DEF Lists
      <4>3. live' \in Nat
        <5>1. IsFiniteSet(program.args \cap Resources)
          BY <1>2, FS_Subset DEF Resources
        <5> QED
          BY <4>1, <5>1, FS_CardinalityType
      <4>4. locls' \in [Locals -> Types \cup {Invalid}]
        BY <1>2, <4>1
      <4> QED
        BY <1>3, <4>1, <4>2, <4>3, <4>4 DEF FrameType
    <3>2. CASE ~Accepted
      <4>1. UNCHANGED <<program, frame>> /\ status' = "rejected"
        BY <2>2, <3>2 DEF execute_main, frame
      <4> QED
        BY <4>1, FrameSame
    <3> QED
      BY <3>1, <3>2
  <2> QED
    BY <1>6, <2>1, <2>2 DEF Verify
<1>7. CASE Interpret
  <2>1. status = "running" /\ pc \in DOMAIN code
    BY <1>7 DEF Interpret, ld, pop, copy_loc, move_loc, store_loc, pack, unpack,
                br_true, branch, ret, abort, Fetch
  <2>2. locls \in [Locals -> Types \cup {Invalid}]
    BY <2>1 DEF FrameType
  <2>3. pc \in 0..Size - 1 /\ pc + 1 \in 0..Size /\ code[pc] \in Instructions(Size, Locals)
    BY <1>2, <2>1
  <2>4. /\ code[pc].op \in {"MoveLoc", "CopyLoc", "StLoc"} => arg \in Locals
        /\ code[pc].op \in {"BrTrue", "Branch"} => arg \in 0..Size - 1
    BY <2>3, InstructionShape DEF arg
  <2>5. \A t \in Types : Append(stack, t) \in Lists(Types)
    BY <1>3, Pushed
  <2>6. Front(stack) \in Lists(Types) /\ (stack # <<>> => Last(stack) \in Types)
    BY <1>3, FrontType, Popped
  <2>7. \A t \in Types : Append(Front(stack), t) \in Lists(Types)
    BY <2>6, Pushed
  <2>8. CASE ld
    BY <1>3, <1>4, <2>1, <2>2, <2>3, <2>5, <2>8, FrameAdvances DEF ld
  <2>9. CASE pop
    BY <1>3, <1>5, <2>1, <2>2, <2>3, <2>6, <2>9, FrameAdvances DEF pop
  <2>10. CASE copy_loc
    <3>1. locls[arg] # Invalid => locls[arg] \in Types
      BY <2>2, <2>4, <2>10 DEF copy_loc, Fetch
    <3> QED
      BY <1>3, <1>5, <2>1, <2>2, <2>3, <2>5, <2>10, <3>1, FrameAdvances DEF copy_loc
  <2>11. CASE move_loc
    <3>1. locls[arg] # Invalid => locls[arg] \in Types
      BY <2>2, <2>4, <2>11 DEF move_loc, Fetch
    <3>2. [locls EXCEPT ![arg] = Invalid] \in [Locals -> Types \cup {Invalid}]
      BY <2>2
    <3> QED
      BY <1>3, <1>5, <2>1, <2>2, <2>3, <2>5, <2>11, <3>1, <3>2, FrameAdvances DEF move_loc
  <2>12. CASE store_loc
    <3>1. stack # <<>> => [locls EXCEPT ![arg] = Last(stack)] \in [Locals -> Types \cup {Invalid}]
      BY <2>2, <2>6
    <3> QED
      BY <1>3, <1>5, <2>1, <2>2, <2>3, <2>6, <2>12, <3>1, FrameAdvances DEF store_loc
  <2>13. CASE pack
    <3>1. live + 1 \in Int
      BY <1>3
    <3> QED
      BY <1>4, <1>5, <2>1, <2>2, <2>3, <2>7, <2>13, <3>1, FrameAdvances DEF pack
  <2>14. CASE unpack
    <3>1. live - 1 \in Int
      BY <1>3
    <3> QED
      BY <1>4, <1>5, <2>1, <2>2, <2>3, <2>7, <2>14, <3>1, FrameAdvances DEF unpack
  <2>15. CASE br_true
    <3>1. arg \in 0..Size
      BY <1>2, <2>4, <2>15 DEF br_true, Fetch
    <3> QED
      BY <1>3, <1>5, <2>1, <2>2, <2>3, <2>6, <2>15, <3>1, FrameAdvances DEF br_true
  <2>16. CASE branch
    <3>1. arg \in 0..Size
      BY <1>2, <2>4, <2>16 DEF branch, Fetch
    <3> QED
      BY <1>3, <2>1, <2>2, <2>16, <3>1, FrameAdvances DEF branch
  <2>17. CASE ret
    BY <2>17, FrameSame DEF ret
  <2>18. CASE abort
    BY <1>5, <2>18, FrameSame DEF abort
  <2> QED
    BY <1>7, <2>8, <2>9, <2>10, <2>11, <2>12, <2>13, <2>14, <2>15, <2>16, <2>17, <2>18 DEF Interpret
<1>8. CASE UNCHANGED vars
  BY <1>8, FrameSame DEF vars
<1> QED
  BY <1>6, <1>7, <1>8 DEF Next

\* TypeOK is what the analysis and the frame are known to be.
LEMMA TypesAgree ==
  ASSUME AnalysisInv, FrameType
  PROVE  TypeOK
<1>1. PICK D \in SUBSET (DOMAIN cfg) : inv_map \in [D -> Invariants]
  BY DEF AnalysisInv, Maps
<1>2. DOMAIN cfg \subseteq DOMAIN code
  <2>1. CASE cfg = <<>>
    BY <2>1
  <2>2. CASE cfg = ControlFlowGraph(code)
    <3>1. \A b \in DOMAIN cfg : b \in DOMAIN code
      BY <2>2, BlockShape, FunctionShape DEF AnalysisInv
    <3> QED
      BY <3>1
  <2> QED
    BY <2>1, <2>2 DEF AnalysisInv
<1>3. work_list \in Seq(DOMAIN inv_map)
  <2>1. work_list \in Lists(DOMAIN cfg) /\ ToSet(work_list) \subseteq DOMAIN inv_map
    BY DEF AnalysisInv, Listed, Analysis
  <2> QED
    BY <2>1, ListOfElements DEF Lists
<1>4. \A b \in DOMAIN inv_map : /\ inv_map[b].pre \in (SUBSET Locals) \cup {JoinFailure}
                                /\ inv_map[b].error \in BOOLEAN
  BY <1>1 DEF Invariants, Conditions
<1>5. DOMAIN inv_map \subseteq DOMAIN code
  BY <1>1, <1>2
<1>6. /\ status \in {"submitted", "analyzed", "rejected", "running", "returned", "aborted", "fault"}
      /\ pc \in 0..Cardinality(DOMAIN code) /\ stack \in Seq(Types) /\ live \in Int
      /\ status = "running" => locls \in [Locals -> Types \cup {Invalid}]
  BY DEF AnalysisInv, FrameType, Known, Size, Lists
<1> QED
  BY <1>3, <1>4, <1>5, <1>6, Zenon DEF TypeOK

\* What the variables of the verifier and of the interpreter may be, whichever
\* functions there are (the model of absint.py and of interpreter.py).
THEOREM TypeCorrect == Spec => []TypeOK
<1> DEFINE Inv == AnalysisInv /\ FrameType
<1>1. Init => Inv
  <2> SUFFICES ASSUME Init PROVE FrameType
    BY AnalysisBegins
  <2>1. Size \in Nat
    BY FunctionShape DEF Init
  <2>2. <<>> \in Lists(Types)
    BY EmptyList
  <2> QED
    BY <2>1, <2>2 DEF Init, FrameType
<1>2. Inv /\ [Next]_vars => Inv'
  BY AnalysisHolds, FrameHolds
<1>3. Inv => TypeOK
  BY TypesAgree
<1> HIDE DEF Inv
<1> QED
  BY <1>1, <1>2, <1>3, PTL DEF Spec

----------------------------------------------------------------------------
(* The run *)

Held(slots) == {l \in Locals : slots[l] = "resource"}

\* The frame is as the abstract state says, and so are the resources: a local
\* that the state does not name may hold a value all the same.
Fits(s, values, slots, n) ==
  /\ values = s.stack
  /\ slots \in [Locals -> Types \cup {Invalid}]
  /\ \A l \in Locals : IF l \in s.locls THEN slots[l] = program.locals[l]
                       ELSE slots[l] # "resource"
  /\ n = Count(values) + Cardinality(Held(slots))

LEMMA HeldType ==
  ASSUME program \in Programs, NEW slots
  PROVE  IsFiniteSet(Held(slots)) /\ Cardinality(Held(slots)) \in Nat
<1>1. IsFiniteSet(Locals) /\ Held(slots) \in SUBSET Locals
  BY FunctionShape DEF Held
<1>2. IsFiniteSet(Held(slots))
  BY <1>1, FS_Subset
<1> QED
  BY <1>2, FS_CardinalityType

\* A local that gets a value, or loses it.
LEMMA HeldChange ==
  ASSUME program \in Programs, NEW slots \in [Locals -> Types \cup {Invalid}],
         NEW l \in Locals, NEW v
  PROVE  Cardinality(Held([slots EXCEPT ![l] = v])) =
           (Cardinality(Held(slots)) - (IF slots[l] = "resource" THEN 1 ELSE 0))
             + (IF v = "resource" THEN 1 ELSE 0)
<1> DEFINE new == [slots EXCEPT ![l] = v]
           rest == Held(slots) \ {l}
<1>1. new[l] = v /\ \A m \in Locals \ {l} : new[m] = slots[m]
  OBVIOUS
<1> HIDE DEF new
<1>2. IsFiniteSet(rest) /\ Cardinality(rest) \in Nat /\ l \notin rest
  <2>1. IsFiniteSet(rest)
    BY HeldType, FS_Subset
  <2> QED
    BY <2>1, FS_CardinalityType
<1>3. /\ Held(slots) = IF slots[l] = "resource" THEN rest \cup {l} ELSE rest
      /\ Held(new) = IF v = "resource" THEN rest \cup {l} ELSE rest
  BY <1>1 DEF Held
<1> HIDE DEF rest
<1>4. Cardinality(rest \cup {l}) = Cardinality(rest) + 1
  BY <1>2, FS_AddElement
<1>5. Cardinality(Held(slots)) = Cardinality(rest) + (IF slots[l] = "resource" THEN 1 ELSE 0)
  BY <1>2, <1>3, <1>4
<1>6. Cardinality(Held(new)) = Cardinality(rest) + (IF v = "resource" THEN 1 ELSE 0)
  BY <1>2, <1>3, <1>4
<1> QED
  BY <1>2, <1>5, <1>6 DEF new

LEMMA CountPopped ==
  ASSUME NEW T, NEW q \in Lists(T), q # <<>>
  PROVE  /\ Count(Front(q)) \in Nat
         /\ Count(q) = Count(Front(q)) + (IF Last(q) = "resource" THEN 1 ELSE 0)
<1>1. Front(q) \in Lists(T) /\ Last(q) \in T /\ q = Append(Front(q), Last(q))
  BY Popped
<1>2. /\ Count(Front(q)) \in Nat
      /\ Count(Append(Front(q), Last(q))) =
           Count(Front(q)) + (IF Last(q) = "resource" THEN 1 ELSE 0)
  BY <1>1, CountPushed
<1> QED
  BY <1>1, <1>2

\* What accepting an instruction says of its operands.
LEMMA AcceptedShape ==
  ASSUME NEW i, NEW s, accepts(i, s)
  PROVE  /\ i.op \in {"Pop", "BrTrue", "Abort", "Pack"} => Last(s.stack) = "unrestricted"
         /\ i.op = "Unpack" => Last(s.stack) = "resource"
         /\ i.op = "StLoc" => /\ Last(s.stack) = program.locals[i.arg]
                              /\ i.arg \notin s.locls \cap Resources
         /\ i.op = "Ret" => s.locls \cap Resources = {} /\ s.stack = program.returns
         /\ i.op = "CopyLoc" => i.arg \in s.locls \ Resources
         /\ i.op = "MoveLoc" => i.arg \in s.locls
BY DEF accepts, Top

LEMMA AfterShape ==
  ASSUME NEW i, NEW s \in States
  PROVE  /\ i.op \in {"Ld", "CopyLoc"} =>
              /\ after(i, s).locls = s.locls
              /\ after(i, s).stack = Append(s.stack, "unrestricted")
         /\ i.op = "MoveLoc" =>
              /\ after(i, s).locls = s.locls \ {i.arg}
              /\ after(i, s).stack = Append(s.stack, program.locals[i.arg])
         /\ i.op = "StLoc" =>
              after(i, s).locls = s.locls \cup {i.arg} /\ after(i, s).stack = Front(s.stack)
         /\ i.op = "Pack" =>
              /\ after(i, s).locls = s.locls
              /\ after(i, s).stack = Append(Front(s.stack), "resource")
         /\ i.op = "Unpack" =>
              /\ after(i, s).locls = s.locls
              /\ after(i, s).stack = Append(Front(s.stack), "unrestricted")
         /\ i.op \in {"Pop", "BrTrue"} =>
              after(i, s).locls = s.locls /\ after(i, s).stack = Front(s.stack)
         /\ i.op = "Branch" => after(i, s) = s
<1>1. \A q : [s EXCEPT !.stack = q].stack = q /\ [s EXCEPT !.stack = q].locls = s.locls
  BY DEF States
<1> QED
  BY <1>1 DEF after, push, Under

Goes(p) ==
  \/ code[pc].op # "Branch" /\ p = pc + 1
  \/ code[pc].op \in {"BrTrue", "Branch"} /\ p = code[pc].arg

\* What a step from a frame that fits the state s comes to.
Outcome(s) ==
  \/ /\ status' = "returned" /\ UNCHANGED <<program, analysis, frame>>
     /\ live = Count(stack) /\ stack = program.returns
  \/ status' = "aborted" /\ UNCHANGED <<program, analysis, frame>>
  \/ /\ UNCHANGED <<program, status, analysis>>
     /\ code[pc].op \notin {"Ret", "Abort"} /\ Goes(pc')
     /\ Fits(after(code[pc], s), stack', locls', live')

LEMMA FitsAgain ==
  ASSUME program \in Programs, NEW s, NEW t, NEW values \in Lists(Types), NEW slots, NEW n,
         Fits(s, values, slots, n), t.locls = s.locls, NEW d \in Int, t.stack \in Lists(Types),
         Count(t.stack) = Count(values) + d
  PROVE  Fits(t, t.stack, slots, n + d)
<1>1. Count(values) \in Int /\ Count(t.stack) \in Int
  <2>1. "resource" \in Types
    BY DEF Types
  <2> QED
    BY <2>1, CountPushed
<1>2. Cardinality(Held(slots)) \in Int
  BY HeldType
<1>3. n + d = Count(t.stack) + Cardinality(Held(slots))
  BY <1>1, <1>2 DEF Fits
<1> QED
  BY <1>3 DEF Fits

LEMMA Stepped ==
  ASSUME program \in Programs, status = "running", pc \in 0..Size - 1, stack \in Lists(Types),
         NEW s \in States, Fits(s, stack, locls, live), accepts(code[pc], s),
         code[pc].op \in TakesOne => stack # <<>>, Interpret
  PROVE  Outcome(s)
<1> DEFINE i == code[pc]
           t == after(i, s)
<1>1. /\ i \in Instructions(Size, Locals)
      /\ program.locals \in [Locals -> Types] /\ Invalid \notin Types
  BY FunctionShape
<1>2. i.op \in {"MoveLoc", "CopyLoc", "StLoc"} => i.arg \in Locals
  BY <1>1, InstructionShape
<1>3. /\ stack = s.stack /\ locls \in [Locals -> Types \cup {Invalid}]
      /\ \A l \in Locals : IF l \in s.locls THEN locls[l] = program.locals[l]
                           ELSE locls[l] # "resource"
      /\ live = Count(stack) + Cardinality(Held(locls))
  BY DEF Fits
<1>4. /\ Types = {"unrestricted", "resource"}
      /\ \A l \in Locals : l \in Resources <=> program.locals[l] = "resource"
  BY DEF Types, Resources
<1>5. arg = i.arg
  BY DEF arg
<1>6. t \in States /\ t.stack \in Lists(Types)
  <2>1. t \in States
    BY <1>1, AfterType
  <2> QED
    BY <2>1 DEF States
<1>7. Count(stack) \in Nat /\ Cardinality(Held(locls)) \in Nat /\ live \in Int
  <2>1. Count(stack) \in Nat
    BY <1>4, CountPushed
  <2> QED
    BY <1>3, <2>1, HeldType
<1>8. \A v \in Types :
        Count(Append(stack, v)) = Count(stack) + (IF v = "resource" THEN 1 ELSE 0)
  BY CountPushed
<1>9. stack # <<>> =>
        /\ Front(stack) \in Lists(Types) /\ Last(stack) \in Types /\ Count(Front(stack)) \in Nat
        /\ Count(stack) = Count(Front(stack)) + (IF Last(stack) = "resource" THEN 1 ELSE 0)
        /\ \A v \in Types :
             Count(Append(Front(stack), v)) =
               Count(Front(stack)) + (IF v = "resource" THEN 1 ELSE 0)
  BY CountPopped, Popped, CountPushed
<1>10. ASSUME UNCHANGED <<program, status, analysis>>, i.op \notin {"Ret", "Abort"}, Goes(pc'),
              Fits(t, stack', locls', live')
       PROVE  Outcome(s)
  BY <1>10 DEF Outcome
<1>11. CASE ld
  <2>1. /\ i.op = "Ld" /\ UNCHANGED <<program, status, analysis>> /\ pc' = pc + 1
        /\ stack' = Append(stack, "unrestricted") /\ locls' = locls /\ live' = live
    BY <1>11 DEF ld, Fetch, Advance
  <2>2. t.locls = s.locls /\ t.stack = stack'
    BY <1>3, <2>1, AfterShape
  <2>3. Fits(t, t.stack, locls, live + 0)
    <3>1. Count(t.stack) = Count(stack) + 0
      BY <1>4, <1>7, <1>8, <2>1, <2>2
    <3>2. 0 \in Int
      OBVIOUS
    <3> QED
      BY <1>3, <1>6, <2>2, <3>1, <3>2, FitsAgain
  <2> QED
    BY <1>7, <1>10, <2>1, <2>2, <2>3 DEF Goes
<1>12. CASE pop
  <2>1. i.op = "Pop" /\ stack # <<>>
    BY <1>12 DEF pop, Fetch, TakesOne
  <2>2. /\ UNCHANGED <<program, status, analysis>> /\ pc' = pc + 1
        /\ stack' = Front(stack) /\ locls' = locls /\ live' = live
    BY <1>12, <2>1 DEF pop, Advance
  <2>3. t.locls = s.locls /\ t.stack = stack' /\ Last(stack) = "unrestricted"
    BY <1>3, <2>1, <2>2, AfterShape, AcceptedShape
  <2>4. Fits(t, t.stack, locls, live + 0)
    BY <1>4, <1>6, <1>7, <1>9, <2>1, <2>2, <2>3, FitsAgain
  <2> QED
    BY <1>7, <1>10, <2>1, <2>2, <2>3, <2>4 DEF Goes
<1>13. CASE copy_loc
  <2>1. i.op = "CopyLoc" /\ i.arg \in s.locls \ Resources
    BY <1>13, AcceptedShape DEF copy_loc, Fetch
  <2>2. locls[i.arg] = "unrestricted" /\ locls[i.arg] # Invalid
    <3>1. locls[i.arg] = program.locals[i.arg] /\ program.locals[i.arg] \in Types
      BY <1>1, <1>2, <1>3, <2>1
    <3> QED
      BY <1>1, <1>2, <1>4, <2>1, <3>1
  <2>3. /\ UNCHANGED <<program, status, analysis>> /\ pc' = pc + 1
        /\ stack' = Append(stack, "unrestricted") /\ locls' = locls /\ live' = live
    BY <1>5, <1>13, <2>2 DEF copy_loc, Advance
  <2>4. t.locls = s.locls /\ t.stack = stack'
    BY <1>3, <2>1, <2>3, AfterShape
  <2>5. Fits(t, t.stack, locls, live + 0)
    <3>1. Count(t.stack) = Count(stack) + 0
      BY <1>4, <1>7, <1>8, <2>3, <2>4
    <3>2. 0 \in Int
      OBVIOUS
    <3> QED
      BY <1>3, <1>6, <2>4, <3>1, <3>2, FitsAgain
  <2> QED
    BY <1>7, <1>10, <2>1, <2>3, <2>4, <2>5 DEF Goes
<1>14. CASE move_loc
  <2> DEFINE new == [locls EXCEPT ![i.arg] = Invalid]
             type == program.locals[i.arg]
  <2>1. i.op = "MoveLoc" /\ i.arg \in s.locls /\ i.arg \in Locals
    BY <1>2, <1>14, AcceptedShape DEF move_loc, Fetch
  <2>2. locls[i.arg] = type /\ type \in Types /\ locls[i.arg] # Invalid
    BY <1>1, <1>3, <2>1
  <2>3. /\ UNCHANGED <<program, status, analysis>> /\ pc' = pc + 1
        /\ stack' = Append(stack, type) /\ locls' = new /\ live' = live
    BY <1>5, <1>14, <2>2 DEF move_loc, Advance
  <2>4. t.locls = s.locls \ {i.arg} /\ t.stack = stack'
    BY <1>3, <2>1, <2>3, AfterShape
  <2>5. Cardinality(Held(new)) =
          Cardinality(Held(locls)) - (IF type = "resource" THEN 1 ELSE 0)
    <3>1. "resource" \in Types
      BY <1>4
    <3>2. Cardinality(Held(new)) =
            (Cardinality(Held(locls)) - (IF locls[i.arg] = "resource" THEN 1 ELSE 0))
              + (IF Invalid = "resource" THEN 1 ELSE 0)
      BY <1>3, <2>1, HeldChange
    <3> QED
      BY <1>1, <1>7, <2>2, <3>1, <3>2
  <2>6. new \in [Locals -> Types \cup {Invalid}]
    BY <1>3
  <2>7. \A l \in Locals : IF l \in t.locls THEN new[l] = program.locals[l]
                          ELSE new[l] # "resource"
    BY <1>1, <1>3, <1>4, <2>1, <2>4
  <2>8. live = Count(t.stack) + Cardinality(Held(new))
    BY <1>3, <1>7, <1>8, <2>2, <2>3, <2>4, <2>5
  <2> HIDE DEF new, t
  <2>9. Fits(t, stack', locls', live')
    BY <2>3, <2>4, <2>6, <2>7, <2>8 DEF Fits
  <2> QED
    BY <1>10, <2>1, <2>3, <2>9 DEF Goes
<1>15. CASE store_loc
  <2> DEFINE new == [locls EXCEPT ![i.arg] = Last(stack)]
             type == program.locals[i.arg]
  <2>1. i.op = "StLoc" /\ stack # <<>> /\ i.arg \in Locals
    BY <1>2, <1>15 DEF store_loc, Fetch, TakesOne
  <2>2. Last(stack) = type /\ type \in Types /\ locls[i.arg] # "resource"
    <3>1. Last(stack) = type /\ i.arg \notin s.locls \cap Resources
      BY <1>3, <2>1, AcceptedShape
    <3> QED
      BY <1>1, <1>3, <1>4, <2>1, <3>1
  <2>3. /\ UNCHANGED <<program, status, analysis>> /\ pc' = pc + 1
        /\ stack' = Front(stack) /\ locls' = new /\ live' = live
    BY <1>5, <1>15, <2>1 DEF store_loc, Advance
  <2>4. t.locls = s.locls \cup {i.arg} /\ t.stack = stack'
    BY <1>3, <2>1, <2>3, AfterShape
  <2>5. Cardinality(Held(new)) =
          Cardinality(Held(locls)) + (IF type = "resource" THEN 1 ELSE 0)
    <3>1. Cardinality(Held(new)) =
            (Cardinality(Held(locls)) - (IF locls[i.arg] = "resource" THEN 1 ELSE 0))
              + (IF Last(stack) = "resource" THEN 1 ELSE 0)
      BY <1>3, <2>1, HeldChange
    <3> QED
      BY <1>7, <2>2, <3>1
  <2>6. new \in [Locals -> Types \cup {Invalid}]
    BY <1>3, <2>2
  <2>7. \A l \in Locals : IF l \in t.locls THEN new[l] = program.locals[l]
                          ELSE new[l] # "resource"
    BY <1>3, <2>1, <2>2, <2>4
  <2>8. live = Count(t.stack) + Cardinality(Held(new))
    BY <1>3, <1>7, <1>9, <2>1, <2>2, <2>3, <2>4, <2>5
  <2> HIDE DEF new, t
  <2>9. Fits(t, stack', locls', live')
    BY <2>3, <2>4, <2>6, <2>7, <2>8 DEF Fits
  <2> QED
    BY <1>10, <2>1, <2>3, <2>9 DEF Goes
<1>16. CASE pack
  <2>1. i.op = "Pack" /\ stack # <<>> /\ Last(stack) = "unrestricted"
    BY <1>3, <1>16, AcceptedShape DEF pack, Fetch, TakesOne
  <2>2. /\ UNCHANGED <<program, status, analysis>> /\ pc' = pc + 1
        /\ stack' = Append(Front(stack), "resource") /\ locls' = locls /\ live' = live + 1
    BY <1>16, <2>1 DEF pack, Advance
  <2>3. t.locls = s.locls /\ t.stack = stack'
    BY <1>3, <2>1, <2>2, AfterShape
  <2>4. Count(t.stack) = Count(stack) + 1
    BY <1>4, <1>7, <1>9, <2>1, <2>2, <2>3
  <2>5. Fits(t, t.stack, locls, live + 1)
    BY <1>6, <2>3, <2>4, FitsAgain
  <2> QED
    BY <1>10, <2>1, <2>2, <2>3, <2>5 DEF Goes
<1>17. CASE unpack
  <2>1. i.op = "Unpack" /\ stack # <<>> /\ Last(stack) = "resource"
    BY <1>3, <1>17, AcceptedShape DEF unpack, Fetch, TakesOne
  <2>2. /\ UNCHANGED <<program, status, analysis>> /\ pc' = pc + 1
        /\ stack' = Append(Front(stack), "unrestricted") /\ locls' = locls /\ live' = live - 1
    BY <1>17, <2>1 DEF unpack, Advance
  <2>3. t.locls = s.locls /\ t.stack = stack'
    BY <1>3, <2>1, <2>2, AfterShape
  <2>4. Count(t.stack) = Count(stack) + (-1)
    BY <1>4, <1>7, <1>9, <2>1, <2>2, <2>3
  <2>5. Fits(t, t.stack, locls, live + (-1))
    <3>1. -1 \in Int
      OBVIOUS
    <3> QED
      BY <1>6, <2>3, <2>4, <3>1, FitsAgain
  <2>6. live + (-1) = live - 1
    BY <1>7
  <2> QED
    BY <1>10, <2>1, <2>2, <2>3, <2>5, <2>6 DEF Goes
<1>18. CASE br_true
  <2>1. i.op = "BrTrue" /\ stack # <<>> /\ Last(stack) = "unrestricted"
    BY <1>3, <1>18, AcceptedShape DEF br_true, Fetch, TakesOne
  <2>2. /\ UNCHANGED <<program, status, analysis>> /\ pc' \in {i.arg, pc + 1}
        /\ stack' = Front(stack) /\ locls' = locls /\ live' = live
    BY <1>5, <1>18, <2>1 DEF br_true, Advance
  <2>3. t.locls = s.locls /\ t.stack = stack'
    BY <1>3, <2>1, <2>2, AfterShape
  <2>4. Fits(t, t.stack, locls, live + 0)
    BY <1>4, <1>6, <1>7, <1>9, <2>1, <2>2, <2>3, FitsAgain
  <2> QED
    BY <1>7, <1>10, <2>1, <2>2, <2>3, <2>4 DEF Goes
<1>19. CASE branch
  <2>1. /\ i.op = "Branch" /\ UNCHANGED <<program, status, analysis>> /\ pc' = i.arg
        /\ stack' = stack /\ locls' = locls /\ live' = live
    BY <1>5, <1>19 DEF branch, Fetch, Advance
  <2>2. t = s
    BY <2>1, AfterShape
  <2> QED
    BY <1>10, <2>1, <2>2 DEF Goes
<1>20. CASE ret
  <2>1. /\ i.op = "Ret" /\ status' = "returned" /\ UNCHANGED <<program, analysis, frame>>
        /\ s.locls \cap Resources = {} /\ stack = program.returns
    BY <1>3, <1>20, AcceptedShape DEF ret, Fetch
  <2>2. Held(locls) = {}
    BY <1>3, <1>4, <2>1 DEF Held
  <2>3. live = Count(stack)
    BY <1>3, <1>7, <2>2, FS_EmptySet
  <2> QED
    BY <2>1, <2>3 DEF Outcome
<1>21. CASE abort
  <2>1. i.op = "Abort" /\ stack # <<>> /\ Last(stack) = "unrestricted"
    BY <1>3, <1>21, AcceptedShape DEF abort, Fetch, TakesOne
  <2>2. status' = "aborted" /\ UNCHANGED <<program, analysis, frame>>
    BY <1>21, <2>1 DEF abort
  <2> QED
    BY <2>2 DEF Outcome
<1> QED
  BY <1>11, <1>12, <1>13, <1>14, <1>15, <1>16, <1>17, <1>18, <1>19, <1>20, <1>21 DEF Interpret

----------------------------------------------------------------------------
(* From block to block *)

\* get_successors takes the offset 0 for none.
NoBranchToStart == \A p \in Programs : \A q \in DOMAIN p.code : 0 \notin offset(p.code[q])

\* The run is at an instruction of a settled block, and its frame fits the
\* state there.
RunsAt(b, p, values, slots, n) ==
  \E st : SettledBy(b, st) /\ p \in b..cfg[b].exit /\ Fits(st[p], values, slots, n)

RunInv ==
  /\ status \in {"submitted", "analyzed"} => pc = 0 /\ stack = <<>>
  /\ status = "running" =>
       /\ Accepted /\ work_list = <<>>
       /\ \E b \in DOMAIN inv_map : RunsAt(b, pc, stack, locls, live)
  /\ status = "returned" => live = Count(stack) /\ stack = program.returns
  /\ status # "fault"

LEMMA RunsAtSame ==
  ASSUME UNCHANGED <<program, analysis>>, NEW b, NEW p, NEW values, NEW slots, NEW n,
         RunsAt(b, p, values, slots, n)
  PROVE  RunsAt(b, p, values, slots, n)'
<1>1. program' = program /\ cfg' = cfg /\ inv_map' = inv_map
  BY DEF analysis
<1>2. PICK st : SettledBy(b, st) /\ p \in b..cfg[b].exit /\ Fits(st[p], values, slots, n)
  BY DEF RunsAt
<1>3. SettledBy(b, st)'
  <2>1. /\ Walk(b, inv_map[b].pre, st)
        /\ \A s \in cfg[b].successors : Reached(inv_map, s, st[cfg[b].exit + 1].locls)
    BY <1>2 DEF SettledBy
  <2>2. \A pre : Walk(b, pre, st)' <=> Walk(b, pre, st)
    BY <1>1, WalkSame
  <2>3. \A invs, s, post : Reached(invs, s, post)' <=> Reached(invs, s, post)
    BY <1>1, ReachedSame
  <2> QED
    BY <1>1, <2>1, <2>2, <2>3, Zenon DEF SettledBy
<1>4. Fits(st[p], values, slots, n)'
  <2>1. Locals' = Locals
    BY <1>1, ProgramSame
  <2>2. Held(slots)' = Held(slots)
    BY <2>1, Zenon DEF Held
  <2> QED
    BY <1>1, <1>2, <2>1, <2>2, Zenon DEF Fits
<1> QED
  BY <1>1, <1>2, <1>3, <1>4, Zenon DEF RunsAt

LEMMA BlockEntered ==
  ASSUME AnalysisInv, status \notin {"submitted", "rejected"}, Accepted, work_list = <<>>,
         NEW b \in DOMAIN inv_map, NEW values, NEW slots, NEW n,
         Fits(Entry(inv_map[b].pre), values, slots, n)
  PROVE  RunsAt(b, b, values, slots, n)
<1>1. ToSet(work_list) = {}
  BY EmptyList
<1>2. Settled(b)
  BY <1>1 DEF AnalysisInv, Analyzed, Accepted
<1>3. PICK st : SettledBy(b, st)
  BY <1>2 DEF Settled
<1>4. b \in b..cfg[b].exit
  <2>1. b \in DOMAIN cfg /\ cfg = ControlFlowGraph(code) /\ program \in Programs
    BY DEF AnalysisInv, Analyzed, Maps
  <2>2. b \in 0..Size - 1 /\ cfg[b].exit \in b..Size - 1 /\ Size \in Nat
    BY <2>1, BlockShape, FunctionShape
  <2> QED
    BY <2>2
<1>5. st[b] = Entry(inv_map[b].pre)
  BY <1>3 DEF SettledBy, Walk
<1> QED
  BY <1>3, <1>4, <1>5, Zenon DEF RunsAt

LEMMA MovesOn ==
  ASSUME NoBranchToStart, AnalysisInv, status = "running", Accepted, work_list = <<>>,
         NEW b \in DOMAIN inv_map, NEW st, SettledBy(b, st), pc \in b..cfg[b].exit,
         code[pc].op \notin {"Ret", "Abort"}, NEW p, Goes(p), NEW values, NEW slots, NEW n,
         Fits(after(code[pc], st[pc]), values, slots, n)
  PROVE  \E c \in DOMAIN inv_map : RunsAt(c, p, values, slots, n)
<1> DEFINE e == cfg[b].exit
           t == st[e + 1]
<1>1. /\ program \in Programs /\ cfg = ControlFlowGraph(code) /\ b \in DOMAIN cfg
      /\ verify_stack_usage(code, returns, cfg)
  BY DEF AnalysisInv, Analyzed, Maps
<1>2. /\ Walk(b, inv_map[b].pre, st)
      /\ \A s \in cfg[b].successors : Reached(inv_map, s, t.locls)
  BY DEF SettledBy
<1>3. /\ b \in 0..Size - 1 /\ e \in b..Size - 1 /\ Size \in Nat \ {0}
      /\ DOMAIN code = 0..Size - 1
      /\ \A q \in b..e - 1 : ~is_branch(code[q])
  BY <1>1, BlockShape, FunctionShape
<1>4. \A q \in b..e : st[q + 1] = after(code[q], st[q])
  BY <1>2 DEF Walk
<1>5. CASE pc # e
  <2>1. pc \in b..e - 1 /\ pc + 1 \in b..e
    BY <1>3, <1>5
  <2>2. p = pc + 1
    BY <1>3, <2>1 DEF Goes, is_branch, is_unconditional_branch
  <2>3. Fits(st[p], values, slots, n)
    BY <1>4, <2>2
  <2> QED
    BY <2>1, <2>2, <2>3, Zenon DEF RunsAt
<1>6. CASE pc = e
  <2>1. p \in cfg[b].successors
    <3>1. is_unconditional_branch(code[Max(DOMAIN code)])
      BY <1>1 DEF verify_stack_usage
    <3>2. /\ \A x \in offset(code[e]) \ {0} : x \in cfg[b].successors
          /\ ~is_unconditional_branch(code[e]) => e + 1 \in cfg[b].successors
      BY <1>1, <3>1, SuccessorShape
    <3>3. 0 \notin offset(code[e])
      BY <1>1, <1>3 DEF NoBranchToStart, code
    <3>4. CASE code[pc].op # "Branch" /\ p = pc + 1
      BY <1>6, <3>2, <3>4 DEF is_unconditional_branch
    <3>5. CASE code[pc].op \in {"BrTrue", "Branch"} /\ p = code[pc].arg
      <4>1. p \in offset(code[e])
        BY <1>6, <3>5 DEF offset
      <4> QED
        BY <3>2, <3>3, <4>1
    <3> QED
      BY <3>4, <3>5 DEF Goes
  <2>2. /\ p \in DOMAIN inv_map /\ inv_map[p].pre # JoinFailure
        /\ Weaker(inv_map[p].pre, t.locls)
    BY <1>2, <2>1 DEF Reached, Accepted
  <2>3. t.stack = <<>>
    BY <1>1, <1>2, <1>6, OperandsAreThere
  <2>4. Fits(t, values, slots, n)
    BY <1>4, <1>6
  <2> HIDE DEF t
  <2>5. Fits(Entry(inv_map[p].pre), values, slots, n)
    <3> DEFINE pre == inv_map[p].pre
    <3>1. Entry(pre).stack = <<>> /\ Entry(pre).locls = pre
      BY DEF Entry
    <3> HIDE DEF pre
    <3>2. pre \subseteq t.locls /\ t.locls \cap Resources \subseteq pre
      BY <2>2 DEF Weaker, pre
    <3>3. /\ values = t.stack /\ slots \in [Locals -> Types \cup {Invalid}]
          /\ \A l \in Locals : IF l \in t.locls THEN slots[l] = program.locals[l]
                               ELSE slots[l] # "resource"
          /\ n = Count(values) + Cardinality(Held(slots))
      BY <2>4 DEF Fits
    <3>4. \A l \in Locals : IF l \in pre THEN slots[l] = program.locals[l]
                            ELSE slots[l] # "resource"
      <4> SUFFICES ASSUME NEW l \in Locals
                   PROVE  IF l \in pre THEN slots[l] = program.locals[l]
                          ELSE slots[l] # "resource"
        OBVIOUS
      <4>1. CASE l \in pre
        BY <3>2, <3>3, <4>1
      <4>2. CASE l \notin pre /\ l \in t.locls
        <5>1. l \notin Resources /\ slots[l] = program.locals[l]
          BY <3>2, <3>3, <4>2
        <5> QED
          BY <4>2, <5>1 DEF Resources
      <4>3. CASE l \notin pre /\ l \notin t.locls
        BY <3>3, <4>3
      <4> QED
        BY <4>1, <4>2, <4>3
    <3>5. Fits(Entry(pre), values, slots, n)
      BY <2>3, <3>1, <3>3, <3>4 DEF Fits
    <3> QED
      BY <3>5 DEF pre
  <2>6. RunsAt(p, p, values, slots, n)
    BY <2>2, <2>5, BlockEntered
  <2> QED
    BY <2>2, <2>6
<1> QED
  BY <1>5, <1>6

\* The frame of the caller's arguments fits the precondition of the entry.
LEMMA RunBegins ==
  ASSUME AnalysisInv, pc = 0, stack = <<>>, execute_main, Accepted
  PROVE  /\ status' = "running" /\ UNCHANGED <<program, analysis, pc, stack>>
         /\ work_list = <<>> /\ RunsAt(0, 0, <<>>, locls', live')
<1>1. /\ status = "analyzed" /\ work_list = <<>> /\ status' = "running"
      /\ UNCHANGED <<program, analysis, pc, stack>>
      /\ locls' = [l \in Locals |-> IF l \in program.args THEN program.locals[l] ELSE Invalid]
      /\ live' = Cardinality(program.args \cap Resources)
  BY DEF execute_main
<1>2. program \in Programs /\ 0 \in DOMAIN inv_map /\ inv_map[0].pre = program.args
  BY <1>1 DEF AnalysisInv, Analyzed
<1>3. /\ program.locals \in [Locals -> Types] /\ program.args \in SUBSET Locals
      /\ Invalid \notin Types /\ "resource" \in Types
  BY <1>2, FunctionShape DEF Types
<1>4. Held(locls') = program.args \cap Resources
  BY <1>1, <1>3 DEF Held, Resources
<1>5. Cardinality(program.args \cap Resources) \in Nat /\ Count(<<>>) = 0
  BY <1>2, <1>4, HeldType, CountEmpty
<1>6. live' = Count(<<>>) + Cardinality(Held(locls'))
  <2>1. live' = Cardinality(Held(locls'))
    BY <1>1, <1>4, Zenon
  <2>2. live' \in Nat
    BY <1>1, <1>5, Zenon
  <2> QED
    BY <1>5, <2>1, <2>2
<1>7. locls' \in [Locals -> Types \cup {Invalid}]
  BY <1>1, <1>3
<1>8. \A l \in Locals : IF l \in program.args THEN locls'[l] = program.locals[l]
                        ELSE locls'[l] # "resource"
  BY <1>1, <1>3
<1>9. Fits(Entry(program.args), <<>>, locls', live')
  BY <1>6, <1>7, <1>8 DEF Fits, Entry
<1>10. RunsAt(0, 0, <<>>, locls', live')
  BY <1>1, <1>2, <1>9, BlockEntered
<1> QED
  BY <1>1, <1>10

LEMMA RunSteps ==
  ASSUME NoBranchToStart, AnalysisInv, FrameType, RunInv, status = "running", Interpret
  PROVE  RunInv'
<1>1. program \in Programs /\ Accepted /\ work_list = <<>>
  BY DEF AnalysisInv, RunInv
<1>2. PICK b \in DOMAIN inv_map : RunsAt(b, pc, stack, locls, live)
  BY DEF RunInv
<1>3. PICK st : SettledBy(b, st) /\ pc \in b..cfg[b].exit /\ Fits(st[pc], stack, locls, live)
  BY <1>2 DEF RunsAt
<1>4. /\ cfg = ControlFlowGraph(code) /\ b \in DOMAIN cfg
      /\ verify_stack_usage(code, returns, cfg)
  BY DEF AnalysisInv, Analyzed, Maps
<1>5. Walk(b, inv_map[b].pre, st)
  BY <1>3 DEF SettledBy
<1>6. pc \in 0..Size - 1 /\ pc \in b..cfg[b].exit + 1
  <2>1. b \in 0..Size - 1 /\ cfg[b].exit \in b..Size - 1 /\ Size \in Nat
    BY <1>1, <1>4, BlockShape, FunctionShape
  <2> QED
    BY <1>3, <2>1
<1>7. st[pc] \in States /\ accepts(code[pc], st[pc])
  BY <1>3, <1>5, <1>6 DEF Walk
<1>8. stack \in Lists(Types) /\ (code[pc].op \in TakesOne => stack # <<>>)
  <2>1. stack = st[pc].stack
    BY <1>3 DEF Fits
  <2> QED
    BY <1>1, <1>3, <1>4, <1>5, <2>1, OperandsAreThere DEF FrameType
<1>9. Outcome(st[pc])
  BY <1>1, <1>3, <1>6, <1>7, <1>8, Stepped
<1>10. CASE /\ status' = "returned" /\ UNCHANGED <<program, analysis, frame>>
            /\ live = Count(stack) /\ stack = program.returns
  <2>1. stack' = stack /\ live' = live /\ program' = program
    BY <1>10 DEF frame
  <2>2. Count(stack)' = Count(stack)
    BY <2>1, Zenon DEF Count
  <2> QED
    BY <1>10, <2>1, <2>2 DEF RunInv
<1>11. CASE status' = "aborted"
  BY <1>11 DEF RunInv
<1>12. CASE /\ UNCHANGED <<program, status, analysis>>
            /\ code[pc].op \notin {"Ret", "Abort"} /\ Goes(pc')
            /\ Fits(after(code[pc], st[pc]), stack', locls', live')
  <2>1. PICK c \in DOMAIN inv_map : RunsAt(c, pc', stack', locls', live')
    BY <1>1, <1>3, <1>12, MovesOn
  <2>2. program' = program /\ UNCHANGED <<program, analysis>>
        /\ inv_map' = inv_map /\ work_list' = work_list
    BY <1>12 DEF analysis
  <2>3. Accepted'
    BY <1>1, <2>2 DEF Accepted
  <2>4. RunsAt(c, pc, stack, locls, live)'
    BY <2>1, <2>2, RunsAtSame
  <2> QED
    BY <1>1, <1>12, <2>2, <2>3, <2>4 DEF RunInv
<1> QED
  BY <1>9, <1>10, <1>11, <1>12, Zenon DEF Outcome

LEMMA RunHolds ==
  ASSUME NoBranchToStart, AnalysisInv, FrameType, RunInv, [Next]_vars
  PROVE  RunInv'
<1>1. CASE verify_function \/ analyze_block
  <2>1. /\ status \in {"submitted", "analyzed"} /\ status' \in {"analyzed", "rejected"}
        /\ UNCHANGED frame
    BY <1>1 DEF verify_function, analyze_block
  <2> QED
    BY <2>1 DEF RunInv, frame
<1>2. CASE execute_main
  <2>1. status = "analyzed" /\ pc = 0 /\ stack = <<>>
    BY <1>2 DEF execute_main, RunInv
  <2>2. CASE Accepted
    <3>1. /\ status' = "running" /\ UNCHANGED <<program, analysis, pc, stack>>
          /\ work_list = <<>> /\ RunsAt(0, 0, <<>>, locls', live')
      BY <1>2, <2>1, <2>2, RunBegins
    <3>2. /\ program' = program /\ inv_map' = inv_map /\ work_list' = work_list
          /\ pc' = 0 /\ stack' = <<>>
      BY <2>1, <3>1 DEF analysis
    <3>3. RunsAt(0, pc, stack, locls, live)'
      <4>1. RunsAt(0, pc', stack', locls', live')
        BY <3>1, <3>2
      <4> QED
        BY <3>1, <4>1, RunsAtSame
    <3>4. Accepted' /\ 0 \in DOMAIN inv_map'
      BY <2>1, <2>2, <3>2 DEF Accepted, AnalysisInv, Analyzed
    <3> QED
      BY <3>1, <3>2, <3>3, <3>4 DEF RunInv
  <2>3. CASE ~Accepted
    <3>1. status' = "rejected"
      BY <1>2, <2>3 DEF execute_main
    <3> QED
      BY <3>1 DEF RunInv
  <2> QED
    BY <2>2, <2>3
<1>3. CASE Interpret
  <2>1. status = "running"
    BY <1>3 DEF Interpret, ld, pop, copy_loc, move_loc, store_loc, pack, unpack,
                br_true, branch, ret, abort, Fetch
  <2> QED
    BY <1>3, <2>1, RunSteps
<1>4. CASE UNCHANGED vars
  <2>1. /\ program' = program /\ UNCHANGED <<program, analysis>> /\ status' = status
        /\ inv_map' = inv_map /\ work_list' = work_list
        /\ pc' = pc /\ stack' = stack /\ locls' = locls /\ live' = live
    BY <1>4 DEF vars, analysis, frame
  <2>2. Count(stack)' = Count(stack) /\ (Accepted' <=> Accepted)
    BY <2>1, Zenon DEF Count, Accepted
  <2>3. ASSUME NEW b, RunsAt(b, pc, stack, locls, live) PROVE RunsAt(b, pc, stack, locls, live)'
    <3>1. RunsAt(b, pc', stack', locls', live')
      BY <2>1, <2>3
    <3> QED
      BY <2>1, <3>1, RunsAtSame
  <2> QED
    BY <2>1, <2>2, <2>3, Zenon DEF RunInv
<1> QED
  BY <1>1, <1>2, <1>3, <1>4 DEF Next, Verify

LEMMA RunInvHolds ==
  ASSUME NoBranchToStart
  PROVE  Spec => [](AnalysisInv /\ FrameType /\ RunInv)
<1> DEFINE Inv == AnalysisInv /\ FrameType /\ RunInv
<1>1. Init => Inv
  <2> SUFFICES ASSUME Init PROVE FrameType /\ RunInv
    BY AnalysisBegins
  <2>1. Size \in Nat
    BY FunctionShape DEF Init
  <2>2. <<>> \in Lists(Types)
    BY EmptyList
  <2> QED
    BY <2>1, <2>2 DEF Init, FrameType, RunInv
<1>2. Inv /\ [Next]_vars => Inv'
  BY AnalysisHolds, FrameHolds, RunHolds
<1> HIDE DEF Inv
<1>3. Spec => []Inv
  BY <1>1, <1>2, PTL DEF Spec
<1> QED
  BY <1>3 DEF Inv

\* A function that absint.py and stack_usage_verifier.py accept is run by
\* interpreter.py without a fault, whichever functions there are, if none has a
\* branch to its first instruction.
THEOREM AcceptedRunsWell ==
  ASSUME NoBranchToStart
  PROVE  Spec => []AcceptedNeverFaults
<1>1. AnalysisInv /\ FrameType /\ RunInv => AcceptedNeverFaults
  <2> SUFFICES ASSUME AnalysisInv, RunInv, status = "running" PROVE pc \in DOMAIN code
    BY DEF AcceptedNeverFaults, RunInv
  <2>1. PICK b \in DOMAIN inv_map : RunsAt(b, pc, stack, locls, live)
    BY DEF RunInv
  <2>2. /\ cfg = ControlFlowGraph(code) /\ b \in DOMAIN cfg /\ program \in Programs
    BY DEF AnalysisInv, Analyzed, Maps
  <2>3. b \in 0..Size - 1 /\ cfg[b].exit \in b..Size - 1 /\ Size \in Nat /\ DOMAIN code = 0..Size - 1
    BY <2>2, BlockShape, FunctionShape
  <2>4. pc \in b..cfg[b].exit
    BY <2>1 DEF RunsAt
  <2> QED
    BY <2>3, <2>4
<1> QED
  BY <1>1, RunInvHolds, PTL

\* Nor does such a run lose a resource, or make one twice.
THEOREM ResourcesAreNeverLost ==
  ASSUME NoBranchToStart
  PROVE  Spec => []ResourcesAreKept
<1>1. AnalysisInv /\ FrameType /\ RunInv => ResourcesAreKept
  BY DEF RunInv, RunsAt, Fits, Held, ResourcesAreKept
<1> QED
  BY <1>1, RunInvHolds, PTL

=============================================================================
