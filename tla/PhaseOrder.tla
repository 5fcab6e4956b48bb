----------------------------- MODULE PhaseOrder -----------------------------
(***************************************************************************)
(* In which order a pipelining program's phases run                         *)
(* (runtime::get_phases() and satisfiable_graph, tpie/pipelining/runtime.cpp).*)
(*                                                                         *)
(* Nodes joined by pushes and pulls form a phase, here the set of them.  A  *)
(* dependency between phases is an edge from the phase that runs first:     *)
(* green for shared memory that cannot be evacuated (the phases must run one *)
(* right after the other), red for shared memory that can (they had better), *)
(* black for the rest.  A graph is a record of nodes, edges and red edges.   *)
(* The order of sets and maps in the code depends on addresses and numbers   *)
(* given to nodes, so that an order of phases is one of a set of them.       *)
(***************************************************************************)
EXTENDS Integers, FiniteSets, Sequences, SequencesExt

Dependencies == {"depends", "noForwardDepends", "memoryShareDepends"}

----------------------------------------------------------------------------
(* Graphs *)

(* Pairs of nodes joined by a path of one edge or more.                     *)
Paths(nodes, edges) ==
  FoldSet(LAMBDA w, known : known \cup {p \in nodes \X nodes :
                                          <<p[1], w>> \in known /\ <<w, p[2]>> \in known},
          edges, nodes)

Acyclic(nodes, edges) == \A u \in nodes : <<u, u>> \notin Paths(nodes, edges)

TopologicalOrders(nodes, edges) ==
  LET orders[rest \in SUBSET nodes] ==
        IF rest = {} THEN {<<>>}
        ELSE UNION {{<<u>> \o o : o \in orders[rest \ {u}]} :
                    u \in {v \in rest : \A w \in rest : <<w, v>> \notin edges}}
  IN orders[nodes]

(* disjoint_sets: the classes that a set of pairs joins.                    *)
Classes(nodes, pairs) ==
  LET joined == Paths(nodes, pairs \cup {<<p[2], p[1]>> : p \in pairs})
  IN {{v \in nodes : v = u \/ <<u, v>> \in joined} : u \in nodes}

ClassOf(classes, u) == CHOOSE c \in classes : u \in c

EdgesBetween(classes, edges) ==
  {e \in {<<ClassOf(classes, e[1]), ClassOf(classes, e[2])>> : e \in edges} : e[1] # e[2]}

(* An order of classes with the nodes of every class in its place, in the   *)
(* order of the path that made it a class.                                  *)
Expand(order, pairs) ==
  FlattenSeq([k \in 1..Len(order) |->
                CHOOSE o \in TopologicalOrders(order[k], pairs) : TRUE])

----------------------------------------------------------------------------
(* satisfiable_graph *)

(* preprocess(): an edge is unnecessary if there is another path.           *)
Preprocess(g) ==
  LET paths == Paths(g.nodes, g.edges)
      other == {e \in g.edges : \E w \in g.nodes : <<e[1], w>> \in paths /\ <<w, e[2]>> \in paths}
  IN [g EXCEPT !.edges = @ \ other, !.red = @ \ other]

Subgraph(g, nodes) ==
  [nodes |-> nodes, edges |-> g.edges \cap (nodes \X nodes), red |-> g.red \cap (nodes \X nodes)]

(* split_graph(): strongly connected components once red edges also count   *)
(* backwards.                                                               *)
Components(g) ==
  LET joined == Paths(g.nodes, g.edges \cup {<<e[2], e[1]>> : e \in g.red})
  IN {{v \in g.nodes : v = u \/ {<<u, v>>, <<v, u>>} \subseteq joined} : u \in g.nodes}

(* Red edges that can be satisfied together: at most one out of a node, one *)
(* into a node, and no cycle between the paths that they form.              *)
Satisfiable(g, red) ==
  /\ \A e, f \in red : e # f => e[1] # f[1] /\ e[2] # f[2]
  /\ LET classes == Classes(g.nodes, red) IN Acyclic(classes, EdgesBetween(classes, g.edges))

(* Mutant: the first set that reaches the minimum of one red edge.          *)
SomeOrders(g) ==
  LET good == {red \in SUBSET g.red : Satisfiable(g, red) /\ (g.red # {} => red # {})}
  IN UNION {LET classes == Classes(g.nodes, red) IN
            {Expand(o, red) : o \in TopologicalOrders(classes, EdgesBetween(classes, g.edges))} :
            red \in good}

(* bruteforce_satisfiable_edges(): as many red edges as possible.           *)
OptimalOrders(g) ==
  LET good == {red \in SUBSET g.red : Satisfiable(g, red)}
      best == {red \in good : \A other \in good : Cardinality(other) <= Cardinality(red)}
  IN UNION {LET classes == Classes(g.nodes, red) IN
            {Expand(o, red) : o \in TopologicalOrders(classes, EdgesBetween(classes, g.edges))} :
            red \in best}

(* topological_order(): the components one after the other.                 *)
SatisfyingOrders(graph) ==
  LET g == Preprocess(graph)
      parts == Components(g)
      concat(orders, part) == {o \o p : o \in orders, p \in OptimalOrders(Preprocess(Subgraph(g, part)))}
  IN UNION {FoldLeft(concat, {<<>>}, o) :
            o \in TopologicalOrders(parts, EdgesBetween(parts, g.edges))}

----------------------------------------------------------------------------
(* get_phase_map() and get_phases() *)

PhaseSets(nodes, rels) ==
  Classes(nodes, {<<r.from, r.to>> : r \in {s \in rels : s.kind \notin Dependencies}})

(* What depends runs last: the edges are the relations turned around.       *)
PhaseEdges(phases, rels) ==
  EdgesBetween(phases, {<<r.to, r.from>> : r \in rels})

Between(phases, r) == ClassOf(phases, r.from) # ClassOf(phases, r.to)

(* Mutant: dependencies that forward nothing are forgotten.                 *)
PlainRelations(phases, rels) ==
  {r \in rels : r.kind = "depends" /\ Between(phases, r)}

BlackRelations(phases, rels) ==
  {r \in rels : r.kind \in Dependencies \ {"memoryShareDepends"} /\ Between(phases, r)}
RedRelations(phases, rels, evacuable) ==
  {r \in rels : r.kind = "memoryShareDepends" /\ Between(phases, r) /\ r.to \in evacuable}
GreenRelations(phases, rels, evacuable) ==
  {r \in rels : r.kind = "memoryShareDepends" /\ Between(phases, r) /\ r.to \notin evacuable}

(* Two green relations that leave or enter the same phase.                  *)
GreenConflict(phases, green) ==
  \E r, s \in green : /\ r # s
                      /\ \/ ClassOf(phases, r.to) = ClassOf(phases, s.to)
                         \/ ClassOf(phases, r.from) = ClassOf(phases, s.from)

(* The orders get_phases() may choose, none if it throws.                   *)
PlannedOrders(nodes, rels, evacuable) ==
  LET phases == PhaseSets(nodes, rels)
      greenRelations == GreenRelations(phases, rels, evacuable)
      green == PhaseEdges(phases, greenRelations)
      classes == Classes(phases, green)
      red == EdgesBetween(classes, PhaseEdges(phases, RedRelations(phases, rels, evacuable)))
      black == EdgesBetween(classes, PhaseEdges(phases, BlackRelations(phases, rels)))
  IN IF \/ GreenConflict(phases, greenRelations)
        \/ ~Acyclic(phases, green)
        \/ ~Acyclic(classes, red \cup black)
     THEN {}
     ELSE {Expand(o, green) :
           o \in SatisfyingOrders([nodes |-> classes, edges |-> red \cup black, red |-> red])}

(* Mutant: the nodes of all phases before count, not those of the last one. *)
EvacuateIfNotBefore(order, rels) ==
  {r.to : r \in {s \in rels :
     /\ s.kind = "memoryShareDepends"
     /\ \E k \in 1..Len(order) : s.from \in order[k] /\ \A m \in 1..(k - 1) : s.to \notin order[m]}}

(* evacuateWhenDone: nodes whose memory is shared with a phase that is not  *)
(* the next one.                                                            *)
EvacuateWhenDone(order, rels) ==
  {r.to : r \in {s \in rels :
     /\ s.kind = "memoryShareDepends"
     /\ \E k \in 1..Len(order) : s.from \in order[k] /\ (k = 1 \/ s.to \notin order[k - 1])}}

----------------------------------------------------------------------------
(* What the order is for *)

Follows(order, e) == \E k \in 1..(Len(order) - 1) : order[k] = e[1] /\ order[k + 1] = e[2]

Satisfied(order, red) == Cardinality({e \in red : Follows(order, e)})

ValidOrders(phases, edges, green) ==
  {o \in TopologicalOrders(phases, edges) : \A e \in green : Follows(o, e)}
=============================================================================
