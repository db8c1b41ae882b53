----------------------------- MODULE References -----------------------------
(***************************************************************************)
(* References: the verifier's analysis of them (type_memory_safety.py,        *)
(* abstract_state.py, borrow_graph.py, acquires_list_verifier.py) in step     *)
(* with the machine that runs the code it accepts (interpreter.py, values.py).*)
(*                                                                         *)
(* The code of a function is chosen instruction by instruction among those    *)
(* the verifier accepts there; each takes the abstract state and the machine  *)
(* on together.  A block ends where the stack is empty; one way to the end of *)
(* a block may be kept aside to be joined with another.                      *)
(*                                                                         *)
(* Of a value only the type is kept.  Of the machine's references it is kept  *)
(* which place each refers to (a local, a global resource or what an argument *)
(* refers to, and fields in there), and whether the container it points to is *)
(* the one at that place still: a container moved away or overwritten takes   *)
(* the references into it along.                                            *)
(***************************************************************************)
EXTENDS BorrowGraph

CONSTANTS Fields,     \* the fields of each struct and their types
          Resources,  \* the structs that are resources
          Global,     \* the resource of the module that is published
          Functions_, \* the functions that are verified
          Callees,    \* bound: those that each of them may call
          MaxIds,     \* bound: references made in a block
          MaxStack,   \* bound: operands
          MaxWayIds, MaxWayStack,  \* the same while another way is kept aside
          NoWay       \* no way to the block's end is kept aside

VARIABLES fn,      \* the function
          state,   \* its abstract state: locls, graph and next_id
          stack,   \* the verifier's stack, and the types of the machine's
          refs,    \* what the machine has for each id: a pointer
          parked,  \* another way to this block: its state and pointers
          status

vars == <<fn, state, stack, refs, parked, status>>

Value(t) == [ref |-> "value", of |-> t]
Imm(t) == [ref |-> "imm", of |-> t]
Mut(t) == [ref |-> "mut", of |-> t]
Ref(mut, t) == IF mut THEN Mut(t) ELSE Imm(t)
is_reference(type) == type.ref # "value"

Types == [ref : {"value", "imm", "mut"}, of : {"u64"} \cup DOMAIN Fields]
IsFunction(f) ==
  /\ f \in [locals : Seq(Types), args : Nat, returns : Seq(Types), acquires : BOOLEAN]
  /\ f.args <= Len(f.locals)

ASSUME FunctionsAssumption ==
  /\ Global \in DOMAIN Fields
  /\ \A t \in DOMAIN Fields : \A f \in DOMAIN Fields[t] : Fields[t][f] \in {"u64"} \cup DOMAIN Fields
  /\ \A f \in Functions_ : IsFunction(f) /\ \A g \in Callees[f] : IsFunction(g)

\* Value(kind) and Reference(id) of AbstractValue; values have no id.
NoId == -1
Typed(type, id) == [type |-> type, id |-> id]
is_resource(av) == av.type.ref = "value" /\ av.type.of \in Resources

Local(i) == <<"local", i>>
GlobalOf(t) == <<"global", t>>
Field(f) == <<"field", f>>
Arg(i) == <<"arg", i>>

frame_root == 0
Locals(f) == 1..Len(f.locals)
Operand == 0..Len(stack) - 1
Peek(k) == stack[Len(stack) - k]
Under(k) == SubSeq(stack, 1, Len(stack) - k)

----------------------------------------------------------------------------
(* The abstract state *)

\* AbstractState.new: the arguments are there, and a reference among them has
\* the number of its local for an id.
NewState(f) ==
  [locls   |-> [i \in 1..f.args |->
                  Typed(f.locals[i], IF is_reference(f.locals[i]) THEN i ELSE NoId)],
   graph   |-> [i \in {frame_root} \cup {a \in 1..f.args : is_reference(f.locals[a])} |-> {}],
   next_id |-> Len(f.locals) + 1]

all_immutable(s, ids) ==
  \A i \in DOMAIN s.locls : s.locls[i].type.ref = "mut" => s.locls[i].id \notin ids

local_borrows(s, i) == consistent_borrows(s.graph, frame_root, Local(i))
is_local_borrowed(s, i) == local_borrows(s, i) # {}
is_local_mutably_borrowed(s, i) == ~all_immutable(s, local_borrows(s, i))
is_global_borrowed(s) == consistent_borrows(s.graph, frame_root, GlobalOf(Global)) # {}
is_borrowed(s, id) == all_borrows(s.graph, id) # {}

is_freezable(s, id) == all_immutable(s, all_borrows(s.graph, id))
is_readable_reference(s, av) == av.type.ref = "imm" \/ is_freezable(s, av.id)

\* MUTANT: a value is taken for safe to destroy whoever borrows it.
is_local_safe_to_destroy_borrowed(s, i) == ~is_resource(s.locls[i])

is_local_safe_to_destroy(s, i) ==
  \/ is_reference(s.locls[i].type)
  \/ ~is_resource(s.locls[i]) /\ ~is_local_borrowed(s, i)

Release(s, id) == [s EXCEPT !.graph = remove(@, id)]

remove_local(s, i) == [s EXCEPT !.locls = Restrict(@, DOMAIN @ \ {i})]

destroy_local(s, i) ==
  remove_local(IF is_reference(s.locls[i].type) THEN Release(s, s.locls[i].id) ELSE s, i)

insert_local(s, i, av) == [s EXCEPT !.locls = With(@, i, av)]

\* A new id with the edges that lead to it.
Borrow(s, parent, label) ==
  [s EXCEPT !.graph = add_strong_edge(add(@, s.next_id), parent, label, s.next_id), !.next_id = @ + 1]
BorrowWeakly(s, parents, label) ==
  [s EXCEPT !.graph = add_weak_edge(add(@, s.next_id), parents, label, s.next_id), !.next_id = @ + 1]

construct_canonical_state(s) ==
  LET held == {i \in DOMAIN s.locls : is_reference(s.locls[i].type)}
      id_map == With([id \in {s.locls[i].id : i \in held} |->
                        CHOOSE i \in held : s.locls[i].id = id],
                     frame_root, frame_root)
  IN  [locls   |-> [i \in DOMAIN s.locls |-> [s.locls[i] EXCEPT !.id = IF i \in held THEN i ELSE NoId]],
       graph   |-> rename_ids(s.graph, id_map),
       next_id |-> Len(fn.locals) + 1]

\* The locals of both ways remain; a reference there is on one way only is
\* released.  A resource there is on one way only makes the join fail.
Joinable(s, other) ==
  \A i \in Locals(fn) :
     /\ i \in DOMAIN s.locls \ DOMAIN other.locls => ~is_resource(s.locls[i])
     /\ i \in DOMAIN other.locls \ DOMAIN s.locls => ~is_resource(other.locls[i])

join_(s, other) ==
  LET both == DOMAIN s.locls \cap DOMAIN other.locls
      left(t) == remove_each(t.graph, {t.locls[i].id : i \in DOMAIN t.locls \ both} \ {NoId})
  IN  [s EXCEPT !.locls = Restrict(@, both), !.graph = join_graphs(left(s), left(other))]

join(s, other) ==
  LET joined == join_(s, other)
  IN  IF s.locls = joined.locls /\ abstracts(s.graph, joined.graph) THEN s ELSE joined

----------------------------------------------------------------------------
(* Places and pointers *)

\* What is at a place: types of the locals, of arguments, and of fields.
TypeAt(place) ==
  LET root == Head(place)
  IN  FoldLeft(LAMBDA t, field : Fields[t][field[2]],
               IF root[1] = "global" THEN root[2] ELSE fn.locals[root[2]].of, Tail(place))

IsStruct(t) == t \in DOMAIN Fields

\* A ContainerRef points to the container at its place, an IndexedRef to the
\* one its place is an element of.
CellOf(place) == IF IsStruct(TypeAt(place)) THEN place ELSE Front(place)

\* unseen: see RefersToItsPlace.
Pointer(place, unseen) == [place |-> place, ok |-> TRUE, unseen |-> unseen]

Overlap(p, q) == IsPrefix(p, q) \/ IsPrefix(q, p)

Lost(r, ids) == [id \in DOMAIN r |-> IF id \in ids THEN [r[id] EXCEPT !.ok = FALSE] ELSE r[id]]

\* What lies at the place is moved away or dropped.
Vacated(r, place) == Lost(r, {id \in DOMAIN r : IsPrefix(place, r[id].place)})

\* The container at the place gets another content: references to the
\* container itself and to its primitive elements stay good.
Overwritten(r, ids) ==
  LET written == {i \in ids : r[i].ok /\ IsStruct(TypeAt(r[i].place))}
  IN  Lost(r, {id \in DOMAIN r : \E i \in written : IsStrictPrefix(r[i].place, CellOf(r[id].place))})

Held == {state.locls[i] : i \in DOMAIN state.locls} \cup {stack[k] : k \in DOMAIN stack}

\* A mutable reference borrowed from the node reaches into the place, which
\* all_immutable does not see: it looks at locals, and no further than one edge.
BorrowedUnseen(node, place) ==
  \E av \in Held : /\ av.type.ref = "mut" /\ Overlap(refs[av.id].place, place)
                   /\ av.id \in BorrowedFrom(state.graph, node)

Borrowed(mut, node, place, unseen) ==
  Pointer(place, unseen \/ (~mut /\ BorrowedUnseen(node, place)))

----------------------------------------------------------------------------
(* The instructions *)

Running == status = "running"

Init ==
  /\ fn \in Functions_
  /\ state = NewState(fn)
  /\ stack = <<>>
  /\ refs = [i \in {a \in 1..fn.args : is_reference(fn.locals[a])} |-> Pointer(<<Arg(i)>>, FALSE)]
  /\ parked = NoWay
  /\ status = "running"

\* What an accepted instruction leaves; pointers go with their ids.
Step(s, operands, pointers) ==
  /\ s.next_id <= Len(fn.locals) + 1 + (IF parked = NoWay THEN MaxIds ELSE MaxWayIds)
  /\ Len(operands) <= IF parked = NoWay THEN MaxStack ELSE MaxWayStack
  /\ state' = s /\ stack' = operands
  /\ refs' = Restrict(pointers, DOMAIN pointers \cap DOMAIN s.graph)
  /\ UNCHANGED <<fn, parked, status>>

Top == Peek(0)
Prim == Typed(Value("u64"), NoId)
NewRef(mut, t) == Typed(Ref(mut, t), state.next_id)

ld == Running /\ Step(state, Append(stack, Prim), refs)

\* Arithmetic, comparison and logic, which the values decide.
binop ==
  /\ Running /\ Len(stack) >= 2 /\ Top = Prim /\ Peek(1) = Prim
  /\ Step(state, Append(Under(2), Prim), refs)

pop ==
  /\ Running /\ stack # <<>> /\ ~is_resource(Top)
  /\ Step(IF is_reference(Top.type) THEN Release(state, Top.id) ELSE state, Under(1), refs)

copy_loc(i) ==
  /\ Running /\ i \in DOMAIN state.locls
  /\ LET av == state.locls[i]
     IN  IF is_reference(av.type)
         THEN Step(Borrow(state, av.id, <<>>),
                   Append(stack, Typed(av.type, state.next_id)),
                   With(refs, state.next_id, refs[av.id]))
         ELSE /\ ~is_resource(av) /\ ~is_local_mutably_borrowed(state, i)
              /\ Step(state, Append(stack, av), refs)

move_loc(i) ==
  /\ Running /\ i \in DOMAIN state.locls
  /\ is_reference(state.locls[i].type) \/ ~is_local_borrowed(state, i)
  /\ Step(remove_local(state, i), Append(stack, state.locls[i]),
          IF is_reference(state.locls[i].type) THEN refs ELSE Vacated(refs, <<Local(i)>>))

store_loc(i) ==
  /\ Running /\ stack # <<>> /\ Top.type = fn.locals[i]
  /\ i \in DOMAIN state.locls => is_local_safe_to_destroy(state, i)
  /\ LET s == IF i \in DOMAIN state.locls THEN destroy_local(state, i) ELSE state
     IN  Step(insert_local(s, i, Top), Under(1), Vacated(refs, <<Local(i)>>))

borrow_loc(mut, i) ==
  /\ Running /\ ~is_reference(fn.locals[i]) /\ i \in DOMAIN state.locls
  /\ mut \/ all_immutable(state, local_borrows(state, i))
  /\ Step(Borrow(state, frame_root, <<Local(i)>>),
          Append(stack, NewRef(mut, fn.locals[i].of)),
          With(refs, state.next_id, Borrowed(mut, frame_root, <<Local(i)>>, FALSE)))

\* What a reference to all of the struct stands in the way of, and one to the field.
may_borrow_field(mut, f) ==
  IF mut THEN nil_borrows(state.graph, Top.id) = {}
  ELSE Top.type.ref = "mut" => all_immutable(state, consistent_borrows(state.graph, Top.id, Field(f)))

borrow_field(mut, f) ==
  /\ Running /\ stack # <<>> /\ is_reference(Top.type) /\ IsStruct(Top.type.of)
  /\ f \in DOMAIN Fields[Top.type.of]
  /\ mut => Top.type.ref = "mut"
  /\ may_borrow_field(mut, f)
  /\ LET from == refs[Top.id]
         pointer == Borrowed(mut, Top.id, Append(from.place, Field(f)), from.unseen)
     IN  Step(Release(Borrow(state, Top.id, <<Field(f)>>), Top.id),
              Append(Under(1), NewRef(mut, Fields[Top.type.of][f])),
              With(refs, state.next_id, [pointer EXCEPT !.ok = from.ok]))

\* Of one resource at one address; acquires_list_verifier.py asks that the
\* function says so.
borrow_global(mut) ==
  /\ Running /\ fn.acquires /\ stack # <<>> /\ Top = Prim
  /\ IF mut THEN ~is_global_borrowed(state)
     ELSE all_immutable(state, consistent_borrows(state.graph, frame_root, GlobalOf(Global)))
  /\ Step(BorrowWeakly(state, {frame_root}, <<GlobalOf(Global)>>),
          Append(Under(1), NewRef(mut, Global)),
          With(refs, state.next_id, Borrowed(mut, frame_root, <<GlobalOf(Global)>>, FALSE)))

move_from ==
  /\ Running /\ fn.acquires /\ stack # <<>> /\ Top = Prim
  /\ ~is_global_borrowed(state)
  /\ Step(state, Append(Under(1), Typed(Value(Global), NoId)), Vacated(refs, <<GlobalOf(Global)>>))

\* The machine refuses it where there is a resource.
move_to_sender ==
  /\ Running /\ stack # <<>> /\ Top.type = Value(Global)
  /\ Step(state, Under(1), refs)

read_ref ==
  /\ Running /\ stack # <<>> /\ is_reference(Top.type)
  /\ is_readable_reference(state, Top)
  /\ Top.type.of \notin Resources
  /\ Step(Release(state, Top.id), Append(Under(1), Typed(Value(Top.type.of), NoId)), refs)

write_ref ==
  /\ Running /\ Len(stack) >= 2 /\ Top.type.ref = "mut"
  /\ Top.type.of \notin Resources /\ Peek(1).type = Value(Top.type.of)
  /\ ~is_borrowed(state, Top.id)
  /\ Step(Release(state, Top.id), Under(2), Overwritten(refs, {Top.id}))

freeze_ref ==
  /\ Running /\ stack # <<>> /\ Top.type.ref = "mut"
  /\ is_freezable(state, Top.id)
  /\ Step(state, Append(Under(1), Typed(Imm(Top.type.of), Top.id)),
          [refs EXCEPT ![Top.id].unseen = @ \/ BorrowedUnseen(Top.id, refs[Top.id].place)])

\* The second is looked at in the state without the first.
equal ==
  /\ Running /\ Len(stack) >= 2 /\ Top.type = Peek(1).type /\ ~is_resource(Top)
  /\ LET first == IF is_reference(Top.type) THEN Release(state, Top.id) ELSE state
     IN  /\ is_reference(Top.type) =>
              is_readable_reference(state, Top) /\ is_readable_reference(first, Peek(1))
         /\ Step(IF is_reference(Top.type) THEN Release(first, Peek(1).id) ELSE first,
                 Append(Under(2), Prim), refs)

\* One field each.
pack(t) ==
  /\ Running /\ stack # <<>>
  /\ \E f \in DOMAIN Fields[t] : DOMAIN Fields[t] = {f} /\ Top.type = Value(Fields[t][f])
  /\ Step(state, Append(Under(1), Typed(Value(t), NoId)), refs)

unpack(t) ==
  /\ Running /\ stack # <<>> /\ Top.type = Value(t)
  /\ \E f \in DOMAIN Fields[t] :
       /\ DOMAIN Fields[t] = {f}
       /\ Step(state, Append(Under(1), Typed(Value(Fields[t][f]), NoId)), refs)

----------------------------------------------------------------------------
(* Calls: of the callee is known what ReturnsWhatItMay says of every function. *)

Passed(g) == SubSeq(stack, Len(stack) - g.args + 1, Len(stack))
ArgRefs(g, kinds) == {Passed(g)[k].id : k \in {j \in 1..g.args : g.locals[j].ref \in kinds}}

\* Those that a reference of the type may be borrowed from.
Lenders(g, type) == ArgRefs(g, IF type.ref = "mut" THEN {"mut"} ELSE {"imm", "mut"})

\* The places of a type within that of the reference.
Within(id, t) ==
  LET below(p) == {p} \cup (IF IsStruct(TypeAt(p)) THEN {Append(p, Field(f)) : f \in DOMAIN Fields[TypeAt(p)]} ELSE {})
  IN  {p \in UNION {below(q) : q \in below(refs[id].place)} : TypeAt(p) = t}

\* A returned reference is borrowed from the arguments it may come from.
return_ref(s, type, g) == BorrowWeakly(s, Lenders(g, type), <<>>)

\* What the machine may have for the reference that a function with one returns.
Returned(g) ==
  UNION {{[refs[id] EXCEPT !.place = place] : place \in Within(id, g.returns[1].of)} :
           id \in Lenders(g, g.returns[1])}

\* What the callee writes through its arguments, and takes from the storage.
CalleeDoes(g) ==
  LET written == Overwritten(refs, ArgRefs(g, {"mut"}))
  IN  IF g.acquires THEN Vacated(written, <<GlobalOf(Global)>>) ELSE written

call(g) ==
  /\ Running /\ Len(stack) >= g.args
  /\ g.acquires => fn.acquires /\ ~is_global_borrowed(state)
  /\ \A k \in 1..g.args : Passed(g)[k].type = g.locals[k]
  /\ \A id \in ArgRefs(g, {"mut"}) : ~is_borrowed(state, id)
  /\ LET drop(s) == [s EXCEPT !.graph = remove_each(@, ArgRefs(g, {"imm", "mut"}))]
     IN  IF g.returns = <<>> THEN Step(drop(state), Under(g.args), CalleeDoes(g))
         ELSE IF ~is_reference(g.returns[1])
         THEN Step(drop(state), Append(Under(g.args), Typed(g.returns[1], NoId)), CalleeDoes(g))
         ELSE \E pointer \in Returned(g) :
                Step(drop(return_ref(state, g.returns[1], g)),
                     Append(Under(g.args), Typed(g.returns[1], state.next_id)),
                     With(CalleeDoes(g), state.next_id, pointer))

\* The references in locals are released; no value that must be kept, and
\* nothing that is borrowed, may be left in the frame.
ret ==
  /\ Running /\ [k \in DOMAIN stack |-> stack[k].type] = fn.returns
  /\ LET held == {i \in DOMAIN state.locls : is_reference(state.locls[i].type)}
         s == [state EXCEPT !.graph = remove_each(@, {state.locls[i].id : i \in held}),
                            !.locls = Restrict(@, DOMAIN @ \ held)]
     IN  /\ \A i \in DOMAIN s.locls : ~is_resource(s.locls[i])
         /\ ~is_borrowed(s, frame_root)
         /\ \A k \in DOMAIN stack : stack[k].type.ref = "mut" => ~is_borrowed(s, stack[k].id)
         /\ state' = [s EXCEPT !.locls = <<>>]
         /\ refs' = Restrict(refs, {stack[k].id : k \in DOMAIN stack} \ {NoId})
  /\ status' = "returned" /\ parked' = NoWay
  /\ UNCHANGED <<fn, stack>>

----------------------------------------------------------------------------
(* Blocks *)

\* The ids of the references in locals become the numbers of the locals.
Canonical(s, r) ==
  [i \in {j \in DOMAIN s.locls : is_reference(s.locls[j].type)} |-> r[s.locls[i].id]]

Unchanging == UNCHANGED <<fn, stack, status>>

\* The only way to the next block.
next_block ==
  /\ Running /\ stack = <<>>
  /\ state' = construct_canonical_state(state) /\ refs' = Canonical(state, refs)
  /\ UNCHANGED parked /\ Unchanging

\* One of two ways; the other is taken from the function's begin.
park ==
  /\ Running /\ stack = <<>> /\ parked = NoWay
  /\ parked' = [state |-> construct_canonical_state(state), refs |-> Canonical(state, refs)]
  /\ state' = NewState(fn)
  /\ refs' = [i \in {a \in 1..fn.args : is_reference(fn.locals[a])} |-> Pointer(<<Arg(i)>>, FALSE)]
  /\ Unchanging

\* The block goes on with what both ways have; the machine came one of them.
\* A value only one way has stays in the frame, where the state knows of it no
\* more than of a value moved away: references to it are not seen.  A join that
\* makes a cycle of the graph is left out.
join_block ==
  /\ Running /\ stack = <<>> /\ parked # NoWay
  /\ LET here == construct_canonical_state(state)
         joined == join(parked.state, here)
     IN  /\ Joinable(parked.state, here)
         /\ acyclic(joined.graph)
         /\ state' = joined
         /\ \E way \in {[state |-> here, refs |-> Canonical(state, refs)], parked} :
              refs' = [id \in DOMAIN joined.graph \ {frame_root} |->
                         [way.refs[id] EXCEPT !.unseen = @ \/
                            \E i \in DOMAIN way.state.locls \ DOMAIN joined.locls :
                               IsPrefix(<<Local(i)>>, way.refs[id].place)]]
  /\ parked' = NoWay /\ Unchanging

FieldNames == UNION {DOMAIN Fields[t] : t \in DOMAIN Fields}

Next ==
  \/ ld \/ binop \/ pop \/ read_ref \/ write_ref \/ freeze_ref \/ equal
  \/ \E i \in Locals(fn) : copy_loc(i) \/ move_loc(i) \/ store_loc(i)
  \/ \E mut \in BOOLEAN, i \in Locals(fn) : borrow_loc(mut, i)
  \/ \E mut \in BOOLEAN, f \in FieldNames : borrow_field(mut, f)
  \/ \E mut \in BOOLEAN : borrow_global(mut)
  \/ move_from \/ move_to_sender
  \/ \E t \in DOMAIN Fields : pack(t) \/ unpack(t)
  \/ \E g \in Callees[fn] : call(g)
  \/ ret \/ next_block \/ park \/ join_block

Spec == Init /\ [][Next]_vars

----------------------------------------------------------------------------
(* Properties *)

Slots == {state.locls[i].id : i \in DOMAIN state.locls} \cup {stack[k].id : k \in DOMAIN stack}

\* The graph is acyclic, has a node for each reference there is and no other, and knows what
\* is borrowed from what: of a local and a reference into it, and of a mutable
\* reference and another one that reaches into its place or that it reaches into,
\* whatever the ways that led here; and an immutable one is the one borrowed.
BorrowsAreKnown ==
  Running =>
    /\ acyclic(state.graph)
    /\ DOMAIN state.graph = {frame_root} \cup (Slots \ {NoId})
    /\ \A i \in DOMAIN state.locls, id \in DOMAIN refs :
         ~refs[id].unseen /\ refs[id].place[1] = Local(i) => is_local_borrowed(state, i)
    /\ \A a, b \in Held :
         /\ a # b /\ a.type.ref = "mut" /\ b.type.ref # "value"
         /\ ~refs[a.id].unseen /\ ~refs[b.id].unseen
         /\ Overlap(refs[a.id].place, refs[b.id].place)
         => \/ b.id \in BorrowedFrom(state.graph, a.id)
            \/ b.type.ref = "mut" /\ a.id \in BorrowedFrom(state.graph, b.id)

\* A reference refers to its place for as long as it is there: no accepted code
\* moves or overwrites a container that something still points into.  Not so for
\* references that the verifier overlooks: an immutable one taken while a mutable one
\* reached into its place (BorrowedUnseen), or one whose local a join gave up.
RefersToItsPlace == \A id \in DOMAIN refs : refs[id].ok \/ refs[id].unseen

\* What a caller relies on: a function returns references into what its
\* arguments refer to, a mutable one into what a mutable argument does, and to
\* the place of a mutable one it returns no other.
ReturnsWhatItMay ==
  status = "returned" =>
    \A j \in {k \in DOMAIN stack : is_reference(stack[k].type)} :
      LET r == refs[stack[j].id]
      IN  r.unseen \/
          /\ r.place[1][1] = "arg"
          /\ stack[j].type.ref = "mut" =>
               /\ fn.locals[r.place[1][2]].ref = "mut"
               /\ \A k \in {m \in DOMAIN stack : m # j /\ is_reference(stack[m].type)} :
                    refs[stack[k].id].unseen \/ ~Overlap(r.place, refs[stack[k].id].place)
=============================================================================
