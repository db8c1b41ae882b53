---------------------------- MODULE BorrowGraph ----------------------------
(***************************************************************************)
(* The borrow graph of bytecode_verifier/borrow_graph.py.                     *)
(*                                                                         *)
(* A node is an abstract reference (a RefID, here a number), and a graph maps *)
(* each node to the edges that leave it.  A strong edge from a to b says that *)
(* b is a extended by the label, a weak edge that b extends that.             *)
(***************************************************************************)
EXTENDS Integers, FiniteSets, SequencesExt, Functions

Edge(strong, label, to) == [strong |-> strong, label |-> label, to |-> to]

\* A weak edge stands for every edge that extends its label.
is_prefix(e, other) ==
  e = other \/ (~e.strong /\ IsPrefix(e.label, other.label) /\ e.to = other.to)

\* The function that is v at x, and otherwise f.
With(f, x, v) == [y \in DOMAIN f \cup {x} |-> IF y = x THEN v ELSE f[y]]

add(g, id) == With(g, id, {})

\* From each of a set of nodes.
add_weak_edge(g, nodes, label, to) ==
  [n \in DOMAIN g |-> IF n \in nodes THEN g[n] \cup {Edge(FALSE, label, to)} ELSE g[n]]

\* MUTANT: the edges that leave the place borrowed stay where they are.
add_strong_edge_unfactored(g, frm, label, to) ==
  [g EXCEPT ![frm] = @ \cup {Edge(TRUE, label, to)}]

\* The new node comes between the old one and everything borrowed from the
\* place the label leads to.
add_strong_edge(g, frm, label, to) ==
  LET moved == {e \in g[frm] : label = <<>> \/ (e.label # <<>> /\ Head(e.label) = Head(label))}
      rest(e) == [e EXCEPT !.label = IF label = <<>> THEN @ ELSE Tail(@)]
  IN  [g EXCEPT ![frm] = (@ \ moved) \cup {Edge(TRUE, label, to)},
                ![to] = {rest(e) : e \in moved}]

\* MUTANT: what is borrowed from the node is forgotten with it.
remove_all(g, id) ==
  [n \in DOMAIN g \ {id} |-> {e \in g[n] : e.to # id}]

\* The node goes, and each edge to it is joined with each edge that leaves it.
\* (Of a graph that is not acyclic the code does only a part of that.)
remove(g, id) ==
  LET into(n) == {e \in g[n] : e.to = id}
      through(r, e) == IF r.strong THEN Edge(e.strong, r.label \o e.label, e.to)
                       ELSE Edge(FALSE, r.label, e.to)
  IN  [n \in DOMAIN g \ {id} |->
         (g[n] \ into(n)) \cup {through(p[1], p[2]) : p \in into(n) \X g[id]}]

remove_each(g, ids) ==
  LET left[gone \in SUBSET ids] ==
        IF gone = {} THEN g
        ELSE LET id == CHOOSE i \in gone : TRUE IN remove(left[gone \ {id}], id)
  IN  left[ids]

rename_ids(g, id_map) ==
  LET renamed(e) == [e EXCEPT !.to = id_map[@]]
      old == [n \in Range(id_map) |-> CHOOSE m \in DOMAIN id_map : id_map[m] = n]
  IN  [n \in Range(id_map) |-> {renamed(e) : e \in g[old[n]]}]

unmatched_edges(g, other, n) == {o \in other[n] : \A e \in g[n] : ~is_prefix(e, o)}

abstracts(g, other) == \A n \in DOMAIN other : unmatched_edges(g, other, n) = {}

join_graphs(g, other) == [n \in DOMAIN g |-> g[n] \cup unmatched_edges(g, other, n)]

all_borrows(g, id) == {e.to : e \in g[id]}
nil_borrows(g, id) == {e.to : e \in {x \in g[id] : x.label = <<>>}}
consistent_borrows(g, id, elem) ==
  {e.to : e \in {x \in g[id] : x.label = <<>> \/ Head(x.label) = elem}}

\* Everything that is borrowed from a node, and from what is, and so on.
BorrowedFrom(g, id) ==
  LET further(ids) == ids \cup UNION {all_borrows(g, n) : n \in ids}
      reach[k \in 0..Cardinality(DOMAIN g)] ==
        IF k = 0 THEN all_borrows(g, id) ELSE further(reach[k - 1])
  IN  reach[Cardinality(DOMAIN g)]

acyclic(g) == \A id \in DOMAIN g : id \notin BorrowedFrom(g, id)
=============================================================================
