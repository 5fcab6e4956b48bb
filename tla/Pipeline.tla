------------------------------ MODULE Pipeline ------------------------------
(***************************************************************************)
(* A pipelining program from go_init() to the end of its last phase: the    *)
(* runtime (tpie/pipelining/runtime.cpp) with the nodes of sort.h and the   *)
(* merge sorters they share, and a subpipeline's stop at its front node.    *)
(*                                                                         *)
(* A job is a graph of nodes with what the runtime is given: relations, the *)
(* kind of every node, the sorter of the sort nodes, limits, data structures *)
(* and the node to stop at.  The kinds are the nodes of a sort, the user's  *)
(* source (pushes), drain (pulls), sink, and plain ones that move no items. *)
(* The runtime is one thread; what is left open is the order of sets, the   *)
(* items, and whether there is memory to copy a run buffer.                 *)
(*                                                                         *)
(* Memory is counted as in MergeSorter, a factor is a pair of numerator and *)
(* denominator, and begin() of a sorter takes its parameters from given.    *)
(***************************************************************************)
EXTENDS PhaseOrder, MergeSorter

CONSTANTS Jobs,      \* the jobs
          Values     \* items

(* A node map is finite, and relations are between the nodes in it.         *)
ASSUME JobAssumption ==
  \A j \in Jobs : IsFiniteSet(j.nodes) /\ \A r \in j.rels : {r.from, r.to} \subseteq j.nodes

NoNode == 0
NoSorter == 0
Unlimited == 1000
Precision == 1024    \* steps in which the binary searches divide a factor of 1

Kinds == {"plain", "source", "drain", "sink", "input", "calc", "output", "pullOutput"}
Outputs == {"output", "pullOutput"}

VARIABLES
  job,
  pc,          \* where go_until() is
  phases,      \* gc->phases, in the order they run
  toEvacuate,  \* gc->evacuateWhenDone
  i,           \* gc->i, from 1
  actors,      \* topological order of the phase's actor graph
  todo,        \* nodes the present loop has yet to visit
  nodeState,
  asks,        \* memory a node asks for: min, max and fraction
  available,   \* memory and files a node has
  factor,      \* datastructure_info_t::factor of every data structure
  freed,       \* data structures freed
  warned,      \* a phase needed more than there is
  forwarded,   \* node from which a node fetches "items", or NoNode
  evacuated,   \* nodes evacuated
  given,       \* p of every sorter before begin()
  sorter,      \* the sorters
  holders,     \* nodes that hold a reference to a sorter
  fed, pulled, \* items every sorter has been given and has given back
  ok           \* no call came out of order

planVars == <<phases, toEvacuate, factor>>
loopVars == <<pc, i, actors, todo, nodeState>>
resourceVars == <<asks, available, warned, freed>>
dataVars == <<forwarded, given, sorter, holders, fed, pulled, ok>>
vars == <<job, planVars, loopVars, resourceVars, dataVars, evacuated>>

Kind(n) == job.kind[n]
SorterOf(n) == job.sorterOf[n]
Sorters == {SorterOf(n) : n \in job.nodes} \ {NoSorter}
Related(n, kind) == {r.to : r \in {s \in job.rels : s.from = n /\ s.kind = kind}}
HasSuch(n, kinds) == \E r \in job.rels : r.to = n /\ r.kind \in kinds
IsInitiator(n) == ~HasSuch(n, {"pushes", "pulls"})
PhaseOf(n) == CHOOSE k \in 1..Len(phases) : n \in phases[k]

----------------------------------------------------------------------------
(* Graphs of a phase *)

ActorEdges(phase) ==
  {<<r.from, r.to>> : r \in {s \in job.rels : s.from \in phase /\ s.kind \notin Dependencies}}

ItemFlowEdges(phase) ==
  {IF r.kind = "pulls" THEN <<r.to, r.from>> ELSE <<r.from, r.to>> :
   r \in {s \in job.rels : s.from \in phase /\ s.kind \notin Dependencies}}

(* get_successors() with forward_only: the nodes that what n forwards gets to. *)
Successors(n) ==
  {v \in job.nodes : <<n, v>> \in
     Paths(job.nodes, {<<r.from, r.to>> : r \in {s \in job.rels : s.kind = "pushes"}}
       \cup {<<r.to, r.from>> : r \in {s \in job.rels :
               s.kind \in {"pulls", "depends", "memoryShareDepends"}}})} \cup {n}

----------------------------------------------------------------------------
(* Resources *)

MemoryAsked(kind) ==
  [min |-> IF kind \in Outputs \cup {"calc"} THEN FanoutUsage(2) ELSE IF kind = "input" THEN 1 ELSE 0,
   max |-> Unlimited,
   fraction |-> IF kind \in Outputs \cup {"calc", "input"} THEN 1 ELSE 0]

FilesAsked(kind) ==
  [min |-> IF kind = "calc" THEN MinimumFilesPhase2
           ELSE IF kind \in Outputs THEN MinimumFilesPhase3
           ELSE IF kind = "input" THEN 1 ELSE 0,
   max |-> Unlimited,
   fraction |-> IF kind \in Outputs \cup {"calc"} THEN 1 ELSE 0]

(* clamp() of the fraction times the factor.                                *)
Usage(ask, f) ==
  LET v == (f[1] * ask.fraction) \div f[2] IN
  IF v < ask.min THEN ask.min ELSE IF v > ask.max THEN ask.max ELSE v

SumOver(S, Op(_)) == MapThenSumSet(Op, S)

(* get_files_factor() and get_memory_factor(): double the factor while that *)
(* uses more but not enough, then search below it for the largest that fits. *)
Factor(limit, minimum, fractions, UsageAt(_)) ==
  LET At(c) == <<limit * c, Precision * fractions>>
      grow[c, old \in Nat] ==
        LET used == UsageAt(At(c * Precision)) IN
        IF used < limit /\ used # old THEN grow[2 * c, used] ELSE c
      search[lo, hi \in Nat] ==
        LET mid == lo + (hi - lo) \div 2 IN
        IF hi - lo <= 1 THEN lo
        ELSE IF UsageAt(At(mid)) > limit THEN search[lo, mid] ELSE search[mid, hi]
  IN IF minimum > limit \/ fractions = 0 THEN <<0, 1>>
     ELSE At(search[0, Precision * grow[1, 0]])

FilesFactor(phase) ==
  LET ask(n) == FilesAsked(Kind(n))
      used(f) == SumOver(phase, LAMBDA n : Usage(ask(n), f))
  IN Factor(job.files, SumOver(phase, LAMBDA n : ask(n).min),
            SumOver(phase, LAMBDA n : ask(n).fraction), used)

(* datastructure_runtime: what the nodes that use a data structure ask for, *)
(* and the phases from the first to the last that uses it.                  *)
Users(name) == {d \in job.structures : d.name = name}
Structures == {d.name : d \in job.structures}
StructureAsked(name) ==
  [min |-> Max({d.min : d \in Users(name)}), max |-> Min({d.max : d \in Users(name)}),
   fraction |-> Min({d.fraction : d \in Users(name)})]
InPhase(order, k) ==
  {name \in Structures :
     LET used == {m \in 1..Len(order) : \E d \in Users(name) : d.node \in order[m]}
     IN k \in Min(used)..Max(used)}

MinimumMemory(ask, order, k) ==
  SumOver(order[k], LAMBDA n : ask[n].min) + SumOver(InPhase(order, k), LAMBDA d : StructureAsked(d).min)

(* Locked data structures have the size their own factors give them.        *)
MemoryFactor(ask, order, k, locked, lockedFactor) ==
  LET structures == InPhase(order, k)
      used(f) == SumOver(order[k], LAMBDA n : Usage(ask[n], f))
                 + SumOver(structures, LAMBDA d : Usage(StructureAsked(d),
                                                        IF locked THEN lockedFactor[d] ELSE f))
  IN Factor(job.memory, MinimumMemory(ask, order, k),
            SumOver(order[k], LAMBDA n : ask[n].fraction)
              + SumOver(structures, LAMBDA d : StructureAsked(d).fraction), used)

(* Mutant: the largest factor of those phases.                              *)
MaximizedFactors(ask, order) ==
  [d \in Structures |->
     LET all == {MemoryFactor(ask, order, k, FALSE, <<>>) :
                 k \in {m \in 1..Len(order) : d \in InPhase(order, m)}}
     IN CHOOSE f \in all : \A g \in all : f[1] * g[2] >= g[1] * f[2]]

(* minimize_factor() over all phases that have the data structure.          *)
MinimizedFactors(ask, order) ==
  [d \in Structures |->
     LET all == {MemoryFactor(ask, order, k, FALSE, <<>>) :
                 k \in {m \in 1..Len(order) : d \in InPhase(order, m)}}
     IN CHOOSE f \in all : \A g \in all : f[1] * g[2] <= g[1] * f[2]]

Assigned(ask, order, k, lockedFactor) ==
  LET m == MemoryFactor(ask, order, k, TRUE, lockedFactor)
      f == FilesFactor(order[k])
  IN [n \in order[k] |-> [memory |-> Usage(ask[n], m), files |-> Usage(FilesAsked(Kind(n)), f)]]

NotEnough(ask, order, k) ==
  \/ SumOver(order[k], LAMBDA n : FilesAsked(Kind(n)).min) > job.files
  \/ MinimumMemory(ask, order, k) > job.memory

(* resource_available_changed() of the nodes of sort.h.                     *)
GivenTo(s, av) ==
  LET of(kinds) == av[CHOOSE n \in job.nodes : SorterOf(n) = s /\ Kind(n) \in kinds] IN
  [memory1 |-> of({"input"}).memory, memory2 |-> of({"calc"}).memory, memory3 |-> of(Outputs).memory,
   files2 |-> of({"calc"}).files, files3 |-> of(Outputs).files, items |-> Unlimited]

----------------------------------------------------------------------------
(* go_init() *)

Init ==
  /\ job \in Jobs
  /\ pc = "init" /\ i = 1 /\ actors = <<>> /\ todo = <<>>
  /\ phases = <<>> /\ toEvacuate = {} /\ factor = <<>>
  /\ nodeState = [n \in job.nodes |-> "fresh"]
  /\ asks = [n \in job.nodes |-> MemoryAsked(Kind(n))]
  /\ available = [n \in job.nodes |-> [memory |-> 0, files |-> 0]]
  /\ warned = FALSE /\ evacuated = {} /\ freed = {} /\ ok = TRUE
  /\ forwarded = [n \in job.nodes |-> NoNode]
  /\ given = <<>>
  /\ sorter = [s \in Sorters |-> NewSorter]
  /\ holders = [s \in Sorters |-> {n \in job.nodes : SorterOf(n) = s}]
  /\ fed = [s \in Sorters |-> <<>>] /\ pulled = [s \in Sorters |-> <<>>]

Plans == PlannedOrders(job.nodes, job.rels, job.evacuable)
Runnable(order) ==
  \A k \in 1..Len(order) :
     /\ Acyclic(order[k], ActorEdges(order[k])) /\ Acyclic(order[k], ItemFlowEdges(order[k]))
     /\ job.front = NoNode => \E n \in order[k] : IsInitiator(n)

(* Nodes are prepared, and resources assigned to all phases.                *)
GoInit ==
  /\ pc = "init"
  /\ \E order \in Plans :
       /\ Runnable(order)
       /\ LET factors == MinimizedFactors(asks, order)
              assigned == [k \in 1..Len(order) |-> Assigned(asks, order, k, factors)]
              av == [n \in job.nodes |-> assigned[CHOOSE k \in 1..Len(order) : n \in order[k]][n]]
          IN /\ factor' = factors /\ available' = av
             /\ given' = [s \in Sorters |-> GivenTo(s, av)]
       /\ phases' = order /\ toEvacuate' = EvacuateWhenDone(order, job.rels)
       /\ warned' = \E k \in 1..Len(order) : NotEnough(asks, order, k)
  /\ nodeState' = [n \in job.nodes |-> "prepared"]
  /\ pc' = "top"
  /\ UNCHANGED <<job, i, actors, todo, asks, freed, evacuated, forwarded, sorter, holders, fed, pulled, ok>>

(* An exception from get_phases(), prepare_all() or ensure_initiators().    *)
Refuse ==
  /\ pc = "init"
  /\ Plans = {} \/ \E order \in Plans : ~Runnable(order)
  /\ pc' = "refused"
  /\ UNCHANGED <<job, planVars, i, actors, todo, nodeState, resourceVars, dataVars, evacuated>>

----------------------------------------------------------------------------
(* go_until() *)

Phase == phases[i]

(* Mutant: what has been merged is not evacuated.                           *)
EvacuatedBeforeMerging(s, nodes) ==
  FoldSet(LAMBDA n, t : IF holders[s] = {} \/ SorterOf(n) # s THEN t ELSE EvacuateBeforeMerging(t),
          sorter[s], nodes)

(* The nodes of the last phase that share memory with a later phase than    *)
(* this one are evacuated; a sort node does so if its sorter still exists.  *)
EvacuatedSorter(s, nodes) ==
  FoldSet(LAMBDA n, t : IF holders[s] = {} \/ SorterOf(n) # s THEN t
                        ELSE IF Kind(n) = "input" THEN EvacuateBeforeMerging(t)
                        ELSE EvacuateBeforeReporting(t),
          sorter[s], nodes)

StartPhase ==
  /\ pc = "top" /\ i <= Len(phases)
  /\ LET leaving == IF i > 1 THEN {n \in phases[i - 1] \cap toEvacuate : n \in job.evacuable} ELSE {}
     IN /\ evacuated' = evacuated \cup leaving
        /\ sorter' = [s \in Sorters |-> EvacuatedSorter(s, leaving)]
  /\ todo' \in TopologicalOrders(Phase, ItemFlowEdges(Phase))
  /\ pc' = "propagate"
  /\ UNCHANGED <<job, planVars, i, actors, nodeState, resourceVars, forwarded, given, holders, fed, pulled, ok>>

(* sort_input_t and sort_output_base propagate.                             *)
Propagate ==
  /\ pc = "propagate" /\ todo # <<>>
  /\ LET n == Head(todo)
         s == SorterOf(n)
         from == forwarded[n]
         usage == MemoryPhase3(sorter[s])
     IN /\ IF Kind(n) \in Outputs
           THEN /\ asks' = [asks EXCEPT ![n] = [min |-> usage, max |-> usage, fraction |-> 0]]
                /\ forwarded' = [m \in job.nodes |-> IF m \in Successors(n) THEN n ELSE forwarded[m]]
                /\ ok' = (ok /\ sorter[s].state = "report")
           ELSE UNCHANGED <<asks, forwarded, ok>>
        /\ given' = IF Kind(n) = "input" /\ from # NoNode
                    THEN [given EXCEPT ![s].items = sorter[SorterOf(from)].itemCount] ELSE given
        /\ nodeState' = [nodeState EXCEPT ![n] = "propagated"]
  /\ todo' = Tail(todo)
  /\ UNCHANGED <<job, pc, planVars, i, actors, available, warned, freed, evacuated, sorter, holders, fed, pulled>>

(* reassign_files() and reassign_memory(); begin() runs from leaf to root.  *)
Reassign ==
  /\ pc = "propagate" /\ todo = <<>>
  /\ LET assigned == Assigned(asks, phases, i, factor)
     IN available' = [n \in job.nodes |-> IF n \in Phase THEN assigned[n] ELSE available[n]]
  /\ warned' = NotEnough(asks, phases, i)
  /\ actors' \in TopologicalOrders(Phase, ActorEdges(Phase))
  /\ todo' = Reverse(actors')
  /\ pc' = "begin"
  /\ UNCHANGED <<job, planVars, i, nodeState, asks, freed, dataVars, evacuated>>

BeginNode ==
  /\ pc = "begin" /\ todo # <<>>
  /\ LET n == Head(todo)
         s == SorterOf(n)
     IN /\ sorter' = IF Kind(n) = "input" THEN [sorter EXCEPT ![s] = Begin(@, given[s])] ELSE sorter
        /\ nodeState' = [nodeState EXCEPT ![n] = "begun"]
  /\ todo' = Tail(todo)
  /\ UNCHANGED <<job, pc, planVars, i, actors, resourceVars, forwarded, given, holders, fed, pulled, ok, evacuated>>

(* A subpipeline stops before its front node's phase goes.                  *)
Begun ==
  /\ pc = "begin" /\ todo = <<>>
  /\ IF job.front \in Phase
     THEN pc' = "stopped" /\ i' = i + 1 /\ UNCHANGED todo
     ELSE /\ pc' = "go" /\ UNCHANGED i
          /\ todo' \in SetToSeqs({n \in Phase : IsInitiator(n)})
  /\ UNCHANGED <<job, planVars, actors, nodeState, resourceVars, dataVars, evacuated>>

----------------------------------------------------------------------------
(* go() of the initiators, one item at a time *)

(* An item is pushed to nodes that have been begun.                         *)
PushTo(targets, item) ==
  LET inputs == {SorterOf(n) : n \in {m \in targets : Kind(m) = "input"}} IN
  /\ fed' = [s \in Sorters |-> IF s \in inputs THEN Append(fed[s], item) ELSE fed[s]]
  /\ ok' = (ok /\ \A n \in targets : nodeState[n] = "begun")

Pushed(sorters, targets, item) ==
  [s \in Sorters |-> IF \E n \in targets : Kind(n) = "input" /\ SorterOf(n) = s
                     THEN Push(sorters[s], item) ELSE sorters[s]]

GoneOn == UNCHANGED <<job, pc, planVars, i, actors, resourceVars, forwarded, given, holders, evacuated>>

Sent == SumOver(Sorters, LAMBDA s : Len(fed[s]))

GoSource ==
  /\ pc = "go" /\ todo # <<>> /\ Kind(Head(todo)) = "source"
  /\ Sent < job.items
  /\ \E item \in Values :
       LET targets == Related(Head(todo), "pushes") IN
       PushTo(targets, item) /\ sorter' = Pushed(sorter, targets, item)
  /\ UNCHANGED <<todo, nodeState, pulled>> /\ GoneOn

GoCalc ==
  /\ pc = "go" /\ todo # <<>> /\ Kind(Head(todo)) = "calc"
  /\ sorter' = [sorter EXCEPT ![SorterOf(Head(todo))] = Calc(@)]
  /\ todo' = Tail(todo)
  /\ UNCHANGED <<nodeState, fed, pulled, ok>> /\ GoneOn

(* sort_output_t::go() pulls an item and pushes it on.                      *)
GoOutput ==
  /\ pc = "go" /\ todo # <<>> /\ Kind(Head(todo)) = "output"
  /\ LET n == Head(todo)
         s == SorterOf(n)
         item == PulledItem(sorter[s])
         targets == Related(n, "pushes")
     IN /\ CanPull(sorter[s])
        /\ pulled' = [pulled EXCEPT ![s] = Append(@, item)]
        /\ PushTo(targets, item)
        /\ sorter' = Pushed([sorter EXCEPT ![s] = Pull(@)], targets, item)
  /\ UNCHANGED <<todo, nodeState>> /\ GoneOn

(* A drain pulls from any of its sources that has an item.                  *)
GoDrain ==
  /\ pc = "go" /\ todo # <<>> /\ Kind(Head(todo)) = "drain"
  /\ \E n \in Related(Head(todo), "pulls") :
       LET s == SorterOf(n) IN
       /\ CanPull(sorter[s])
       /\ pulled' = [pulled EXCEPT ![s] = Append(@, PulledItem(sorter[s]))]
       /\ sorter' = [sorter EXCEPT ![s] = Pull(@)]
       /\ ok' = (ok /\ nodeState[n] = "begun")
  /\ UNCHANGED <<todo, nodeState, fed>> /\ GoneOn

(* go() returns: sources when they like, others when nothing can be pulled, *)
(* which can_pull() finds out with the runs open.                           *)
GoReturns ==
  /\ pc = "go" /\ todo # <<>> /\ Kind(Head(todo)) # "calc"
  /\ LET n == Head(todo)
         asked == {SorterOf(m) : m \in Related(n, "pulls") \cup (IF Kind(n) = "output" THEN {n} ELSE {})}
     IN /\ \A s \in asked : ~CanPull(sorter[s])
        /\ sorter' = [s \in Sorters |-> IF s \in asked THEN ReadyToPull(sorter[s]) ELSE sorter[s]]
        /\ ok' = (ok /\ Kind(n) # "pullOutput")
  /\ todo' = Tail(todo)
  /\ UNCHANGED <<nodeState, fed, pulled>> /\ GoneOn

Gone ==
  /\ pc = "go" /\ todo = <<>>
  /\ pc' = "end" /\ todo' = actors
  /\ UNCHANGED <<job, planVars, i, actors, nodeState, resourceVars, dataVars, evacuated>>

----------------------------------------------------------------------------
(* end() and the next phase *)

(* The nodes of a sort let go of the sorter in end().                       *)
EndNode ==
  /\ pc \in {"end", "resumed"} /\ todo # <<>>
  /\ \E copy \in BOOLEAN :
       LET n == Head(todo)
           s == SorterOf(n)
       IN /\ sorter' = IF Kind(n) = "input" THEN [sorter EXCEPT ![s] = End(@, copy)] ELSE sorter
          /\ holders' = [t \in Sorters |-> holders[t] \ {n}]
          /\ nodeState' = [nodeState EXCEPT ![n] = "ended"]
  /\ todo' = Tail(todo)
  /\ UNCHANGED <<job, pc, planVars, i, actors, resourceVars, forwarded, given, fed, pulled, ok, evacuated>>

(* free_datastructures(): those no later phase uses, except after a stop.   *)
Ended ==
  /\ pc \in {"end", "resumed"} /\ todo = <<>>
  /\ i' = IF pc = "end" THEN i + 1 ELSE i
  /\ freed' = IF pc = "end" THEN freed \cup (InPhase(phases, i) \ InPhase(phases, i + 1)) ELSE freed
  /\ pc' = "top"
  /\ UNCHANGED <<job, planVars, actors, todo, nodeState, asks, available, warned, dataVars, evacuated>>

Finish ==
  /\ pc = "top" /\ i > Len(phases)
  /\ pc' = "done" /\ i' = i + 1
  /\ UNCHANGED <<job, planVars, actors, todo, nodeState, resourceVars, dataVars, evacuated>>

----------------------------------------------------------------------------
(* subpipeline *)

PushFront ==
  /\ pc = "stopped" /\ Sent < job.items
  /\ \E item \in Values :
       PushTo({job.front}, item) /\ sorter' = Pushed(sorter, {job.front}, item)
  /\ UNCHANGED <<todo, nodeState, pulled>> /\ GoneOn

(* Mutant: the phase that was stopped in is not ended.                      *)
ResumeWithoutEnd ==
  /\ pc = "stopped"
  /\ pc' = "top" /\ todo' = <<>>
  /\ UNCHANGED <<job, planVars, i, actors, nodeState, resourceVars, dataVars, evacuated>>

(* subpipeline_base::end(): go_until() again, which ends the phase before.  *)
Resume ==
  /\ pc = "stopped"
  /\ pc' = "resumed" /\ todo' = actors
  /\ UNCHANGED <<job, planVars, i, actors, nodeState, resourceVars, dataVars, evacuated>>

Over == pc \in {"refused", "done"} /\ UNCHANGED vars

----------------------------------------------------------------------------
Next ==
  \/ GoInit
  \/ Refuse
  \/ StartPhase
  \/ Propagate
  \/ Reassign
  \/ BeginNode
  \/ Begun
  \/ GoSource
  \/ GoCalc
  \/ GoOutput
  \/ GoDrain
  \/ GoReturns
  \/ Gone
  \/ EndNode
  \/ Ended
  \/ Finish
  \/ PushFront
  \/ Resume
  \/ Over

(* Runtime and user's nodes are one thread that goes on until it is over.   *)
(* (This is weak fairness of Next, which has a step wherever there is no    *)
(* deadlock, without ENABLED.)                                              *)
Fairness == []<>(pc \in {"refused", "done"}) \/ []<><<TRUE>>_vars

Spec == Init /\ [][Next]_vars /\ Fairness

----------------------------------------------------------------------------
(* Properties *)

Running == pc \in {"propagate", "begin", "go", "end", "stopped", "resumed"}
Current == IF pc \in {"stopped", "resumed"} THEN i - 1 ELSE i

PhaseEdgesOf(kinds) == PhaseEdges(PhaseSets(job.nodes, job.rels), {r \in job.rels : r.kind \in kinds})
DependsOnItself == ~Acyclic(PhaseSets(job.nodes, job.rels), PhaseEdgesOf(Dependencies))

(* However a job is cut into phases and ordered, a node begins only when    *)
(* every node of another phase that it depends on has ended (get_phases(),  *)
(* go_until()).  Phases that depend on each other are left out: they are    *)
(* not always refused.                                                      *)
DependenciesRespected ==
  (\E r \in job.rels : /\ r.kind \in Dependencies
                       /\ nodeState[r.from] \in {"begun", "ended"}
                       /\ nodeState[r.to] # "ended"
                       /\ PhaseOf(r.from) # PhaseOf(r.to))
    => DependsOnItself

(* No order of the phases that respects the dependencies and keeps green    *)
(* edges together lets more red edges' phases follow one another, so that   *)
(* no order needs fewer evacuations; and a job is refused only if there is  *)
(* no such order, or two green relations meet in a phase, or a phase cannot *)
(* run at all.  A red edge beside a green one is not counted as it should   *)
(* be, so that jobs where they leave or enter the same phase are left out.  *)
FewestEvacuations ==
  LET all == PhaseSets(job.nodes, job.rels)
      greenRelations == GreenRelations(all, job.rels, job.evacuable)
      green == PhaseEdges(all, greenRelations)
      red == PhaseEdges(all, RedRelations(all, job.rels, job.evacuable))
      valid == ValidOrders(all, PhaseEdgesOf(Dependencies), green)
  IN /\ pc = "top" /\ i = 1 /\ ~DependsOnItself =>
          /\ phases \in valid
          /\ \/ \E e \in red, g \in green : e[1] = g[1] \/ e[2] = g[2]
             \/ \A o \in valid : Satisfied(o, red) <= Satisfied(phases, red)
     /\ pc = "refused" => \/ valid = {} \/ GreenConflict(all, greenRelations)
                          \/ ~Runnable(SetToSeq(all))

(* While a phase runs, nodes of other phases hold memory only for nodes of  *)
(* this one: what is shared between phases that do not follow one another   *)
(* has been evacuated when the first of them was done (get_phases(),        *)
(* evacuate_all()).                                                         *)
SharedMemoryEvacuated ==
  Running =>
    \A r \in job.rels :
      r.kind = "memoryShareDepends" /\ nodeState[r.to] = "ended" /\ nodeState[r.from] # "ended"
        => {r.from, r.to} \cap phases[Current] # {} \/ r.to \in evacuated \/ DependsOnItself

(* While a phase runs, a sorter whose nodes have no part in it holds neither *)
(* a run buffer nor open runs (evacuate_all(), merge_sorter::evacuate()).   *)
OnlyOwnMemoryHeld ==
  Running => \A s \in Sorters : \/ Resident(sorter[s]) = 0
                                \/ \E n \in phases[Current] : SorterOf(n) = s

(* What comes out of a sorter is sorted and made of the items that went in, *)
(* all of them once its output node has ended, whatever the run lengths,    *)
(* fan-outs, evacuations and bounds on the items of the job's phases were.  *)
SortedOutput ==
  \A s \in Sorters :
    LET count(q, x) == Cardinality({k \in 1..Len(q) : q[k] = x}) IN
    /\ \A k \in 1..(Len(pulled[s]) - 1) : pulled[s][k] <= pulled[s][k + 1]
    /\ \A x \in Values : count(pulled[s], x) <= count(fed[s], x)
    /\ holders[s] = {} => Len(pulled[s]) = Len(fed[s])

(* Calls come in the order the sorter and its run positions insist on, items *)
(* are pushed to nodes that have been begun, and runs are read where they   *)
(* were written.                                                            *)
CallsInOrder == ok /\ \A s \in Sorters : sorter[s].ok

(* Unless the runtime has warned, a phase's nodes and data structures are   *)
(* assigned no more memory and files than the job has, and its sorters use  *)
(* no more than their nodes were assigned, although their parameters were   *)
(* fixed in go_init() and the assignment is made anew for every phase.      *)
(* (Files while runs are formed are left out: a sorter declares one and     *)
(* opens three.)                                                            *)
LimitsRespected ==
  Running /\ pc # "propagate" /\ ~warned =>
    LET here == phases[Current] IN
    /\ SumOver(here, LAMBDA n : available[n].memory)
         + SumOver(InPhase(phases, Current), LAMBDA d : Usage(StructureAsked(d), factor[d])) <= job.memory
    /\ SumOver(here, LAMBDA n : available[n].files) <= job.files
    /\ \A n \in here :
         LET s == sorter[SorterOf(n)] IN
         /\ Kind(n) = "input" /\ nodeState[n] = "begun" => Resident(s) <= available[n].memory
         /\ Kind(n) = "calc" /\ s.state = "report" => s.peak <= available[n].files
         /\ Kind(n) \in Outputs /\ nodeState[n] = "begun" =>
              Resident(s) <= available[n].memory /\ OpenStreams(s) <= available[n].files

(* The runtime comes to an end, and then every node has begun and ended and *)
(* no sorter is referred to (go_until(), with a subpipeline resumed).       *)
EveryNodeEnds ==
  <>(\/ pc = "refused"
     \/ pc = "done" /\ (\A n \in job.nodes : nodeState[n] = "ended") /\ \A s \in Sorters : holders[s] = {})
=============================================================================
