---------------------------- MODULE MCPipeline ----------------------------
(* Jobs for Pipeline: the sorts a program can be built from, and all small  *)
(* graphs of dependencies.                                                  *)
EXTENDS Pipeline

MCValues == {0, 1}

Rel(kind, pairs) == {[from |-> p[1], to |-> p[2], kind |-> kind] : p \in pairs}
MakeJob(kinds, rels, sorters, items, memory, files) ==
  [nodes |-> DOMAIN kinds, kind |-> kinds, rels |-> rels,
   sorterOf |-> sorters, evacuable |-> {n \in DOMAIN kinds : kinds[n] \in {"input", "calc"}},
   items |-> items, memory |-> memory, files |-> files, structures |-> {}, front |-> NoNode]

(* source | sort | sink *)
Sort(items, memory, files) ==
  MakeJob(<<"source", "input", "calc", "output", "sink">>,
          Rel("pushes", {<<1, 2>>, <<4, 5>>}) \cup Rel("memoryShareDepends", {<<3, 2>>, <<4, 3>>}),
          <<0, 1, 1, 1, 0>>, items, memory, files)

(* One source into two passive sorters that a drain pulls from: the input   *)
(* of one and the merge of the other are evacuated.                         *)
TwoSorts(items, memory, files) ==
  MakeJob(<<"source", "input", "input", "calc", "calc", "pullOutput", "pullOutput", "drain">>,
          Rel("pushes", {<<1, 2>>, <<1, 3>>}) \cup Rel("pulls", {<<8, 6>>, <<8, 7>>})
            \cup Rel("memoryShareDepends", {<<4, 2>>, <<5, 3>>, <<6, 4>>, <<7, 5>>}),
          <<0, 1, 2, 1, 2, 1, 2, 0>>, items, memory, files)

(* source | sort | sort | sink: the second is told the number of items.     *)
SortTwice(items, memory, files) ==
  MakeJob(<<"source", "input", "calc", "output", "input", "calc", "output", "sink">>,
          Rel("pushes", {<<1, 2>>, <<4, 5>>, <<7, 8>>})
            \cup Rel("memoryShareDepends", {<<3, 2>>, <<4, 3>>, <<6, 5>>, <<7, 6>>}),
          <<0, 1, 1, 1, 2, 2, 2, 0>>, items, memory, files)

(* A sort fed from outside, with a phase to run before it and a data        *)
(* structure that the first phase builds and the last one uses.             *)
SubSort(items, memory, files) ==
  [MakeJob(<<"input", "calc", "output", "sink", "plain">>,
           Rel("pushes", {<<3, 4>>}) \cup Rel("memoryShareDepends", {<<2, 1>>, <<3, 2>>})
             \cup Rel("depends", {<<1, 5>>}),
           <<1, 1, 1, 0, 0>>, items, memory, files)
     EXCEPT !.front = 1,
            !.structures = {[name |-> "index", node |-> n, min |-> 1, max |-> 3, fraction |-> 1] : n \in {4, 5}}]

(* A phase to run first, and one that is fed from outside.                  *)
SubSink(items) ==
  [MakeJob(<<"sink", "plain">>, Rel("depends", {<<1, 2>>}), <<0, 0>>, items, 5, 5) EXCEPT !.front = 1]

(* From one run of all items to two levels of merges, runs left over for    *)
(* the final merge, and jobs with less memory or files than they need.      *)
Sorts ==
  {Sort(8, m, f) : m \in {2, 3}, f \in {5, 7}} \cup {Sort(5, m, 7) : m \in {4, 5, 7}}
    \cup {TwoSorts(8, m, f) : m \in {3, 6, 9}, f \in {10, 12}}
    \cup {SortTwice(4, m, f) : m \in {3, 6, 7}, f \in {6, 8}} \cup {SortTwice(7, 4, 8)}
    \cup {SubSort(4, m, 6) : m \in {3, 5, 8}} \cup {SubSink(1)}

(* Graphs of plain nodes.                                                   *)
Graph(kindOf, evacuable) ==
  LET pairs == DOMAIN kindOf
      nodes == UNION {{p[1], p[2]} : p \in pairs}
  IN [MakeJob([n \in nodes |-> "plain"],
              {[from |-> p[1], to |-> p[2], kind |-> kindOf[p]] : p \in {q \in pairs : kindOf[q] # "none"}},
              [n \in nodes |-> 0], 0, 5, 5)
        EXCEPT !.evacuable = evacuable]

(* Three nodes with any relation both ways, four with dependencies one way. *)
Graphs3 ==
  {Graph(f, e) : f \in [{p \in (1..3) \X (1..3) : p[1] # p[2]} -> {"none", "depends", "memoryShareDepends"}],
                 e \in SUBSET (1..3)}
    \cup {Graph(f, {1, 2}) : f \in [{p \in (1..3) \X (1..3) : p[1] # p[2]}
                                      -> {"none", "noForwardDepends", "memoryShareDepends", "pushes"}]}
Graphs4 ==
  {Graph(f, e) : f \in [{p \in (1..4) \X (1..4) : p[1] > p[2]} -> {"none", "depends", "memoryShareDepends"}],
                 e \in {1..4, {1, 2, 3}, {2, 3, 4}}}

MCJobs == Sorts \cup Graphs3 \cup Graphs4
=============================================================================
