--------------------------- MODULE ParallelSort ---------------------------
(***************************************************************************)
(* tpie/parallel_sort.h: a quick sort whose left parts are jobs of the     *)
(* pool.  The module composes the sort with JobManager: a qsort_job is a   *)
(* job whose operator() partitions, enqueues a subjob and goes on with the *)
(* right part, and the caller is the client thread.  The caller does not   *)
(* wait for the jobs at first but for an estimate of the work done, under  *)
(* a mutex of its own, and joins and deletes the root job after it.        *)
(***************************************************************************)
EXTENDS JobManager, FiniteSetsExt, SequencesExt

CONSTANTS
  Arrays,   (* the arrays to sort, sequences of integers                   *)
  Master,   (* the root job; the others are children in the order created  *)
  Order,    (* Order[j]: when j is created, Order[Master] = 0              *)
  MinSize,  (* min_size: shorter parts are left to std::sort               *)
  Guesses   (* guesses of the work to sort n items, functions of n         *)

ASSUME SortAssumption ==
  /\ Master \in Jobs /\ Roots = {Master}
  /\ Order \in [Jobs -> Nat] /\ Order[Master] = 0
  /\ \A j, k \in Jobs : Order[j] = Order[k] => j = k
  /\ MinSize \in Nat \ {0, 1}
  /\ \A s \in Arrays : s \in Seq(Int)
  /\ \A g \in Guesses, s \in Arrays : \A n \in 0 .. Len(s) : g[n] \in Nat

VARIABLES
  sortWork, (* the guess, one function of Guesses                          *)
  input,    (* the array as it was given                                   *)
  array,    (* the array as it is                                          *)
  part,     (* [a, b) of each job, half open, from 1                       *)
  stage,    (* where operator() of a job is                                *)
  split,    (* pivot of the last partition of a job                        *)
  estimate, (* progress.work_estimate                                      *)
  told,     (* on_done() of the root has run                               *)
  call      (* what the caller of the sort does                            *)

sortVars == <<sortWork, input, array, part, stage, split, estimate, told, call>>
allVars  == <<vars, sortVars>>

Total   == sortWork[Len(input)]
Size(j) == part[j].b - part[j].a

-----------------------------------------------------------------------------
Swapped(s, i, k) == [s EXCEPT ![i] = s[k], ![k] = s[i]]

(* median(): the position of the middle one of three items. *)
Median(s, a, b, c) ==
  IF s[a] < s[b]
  THEN IF s[b] < s[c] THEN b ELSE IF s[a] < s[c] THEN c ELSE a
  ELSE IF s[a] < s[c] THEN a ELSE IF s[b] < s[c] THEN c ELSE b

(* pick_pivot(): the pseudo median of nine of s[a .. b-1]. *)
PickPivot(s, a, b) ==
  LET step == (b - a) \div 8
  IN  IF a = b THEN a
      ELSE Median(s, Median(s, a, a + step, a + 2 * step),
                     Median(s, a + 3 * step, a + 4 * step, a + 5 * step),
                     Median(s, a + 6 * step, a + 7 * step, b - 1))

(* The loop of unguarded_partition() on s[pivot .. b-1]: last goes down to an *)
(* item that is not greater than the pivot, first up to one that is not less *)
(* or to last, and the two are swapped, until first meets last.              *)
LoopEnd(s, pivot, b) ==
  LET Round[x \in [first : Nat, last : Nat, array : Seq(Int)]] ==
        LET t     == x.array
            last  == Max({i \in pivot .. x.last - 1 : t[i] <= t[pivot]})
            first == IF x.first = last THEN last
                     ELSE Min({i \in x.first + 1 .. last : i = last \/ t[i] >= t[pivot]})
        IN  IF x.first = x.last THEN x
            ELSE [first |-> first, last |-> last, array |-> Swapped(t, first, last)]
      Rounds[n \in 0 .. b - pivot] ==
        IF n = 0 THEN [first |-> pivot, last |-> b, array |-> s] ELSE Round[Rounds[n - 1]]
  IN  Rounds[b - pivot]

(* Mutant: the pivot stays where it was. *)
PivotLeft(s, pivot, b) ==
  LET end == LoopEnd(s, pivot, b) IN [at |-> end.last, array |-> end.array]

(* unguarded_partition(): the item at pivot splits s[pivot .. b-1]; where it *)
(* ends, and the array then.                                                 *)
UnguardedPartition(s, pivot, b) ==
  LET end == LoopEnd(s, pivot, b)
  IN  [at |-> end.last, array |-> Swapped(end.array, end.last, pivot)]

(* partition() of s[a .. b-1] *)
PartitionAt(s, a, b) == UnguardedPartition(Swapped(s, PickPivot(s, a, b), a), a, b)

(* The arrays that have the items of s[a .. b-1] there in some order. *)
Rearranged(s, a, b) ==
  {[i \in DOMAIN s |-> IF i \in a .. b - 1 THEN s[f[i]] ELSE s[i]] :
     f \in Bijection(a .. b - 1, a .. b - 1)}

(* std::sort of s[a .. b-1], by what it promises. *)
SortedBetween(s, a, b) ==
  CHOOSE t \in Rearranged(s, a, b) :
    \A i, k \in a .. b - 1 : i < k => t[i] <= t[k]

-----------------------------------------------------------------------------
(* The array is given and the caller is at the place named. *)
Given(place) ==
  /\ Init
  /\ sortWork \in Guesses /\ input \in Arrays /\ array = input
  /\ part  = [j \in Jobs |-> [a |-> 1, b |-> 1]]
  /\ stage = [j \in Jobs |-> "loop"] /\ split = [j \in Jobs |-> 0]
  /\ estimate = 0 /\ told = FALSE /\ call = place

SortInit == Given("start")

(* progress.cond.notify_one() *)
Woken == IF call = "waiting" THEN "test" ELSE call

(* operator()(a, b) of parallel_sort_impl: a short array is sorted in place. *)
SortShort ==
  /\ call = "start" /\ Len(input) < MinSize
  /\ array' = SortedBetween(array, 1, Len(array) + 1)
  /\ call'  = "returned"
  /\ UNCHANGED <<vars, sortWork, input, part, stage, split, estimate, told>>

(* ... otherwise the root job is created and enqueued. *)
EnqueueMaster ==
  /\ call = "start" /\ Len(input) >= MinSize
  /\ EnqueueRoot(Master)
  /\ part' = [part EXCEPT ![Master] = [a |-> 1, b |-> Len(input) + 1]]
  /\ call' = "test"
  /\ UNCHANGED <<sortWork, input, array, stage, split, estimate, told>>

(* One test of the estimate under progress.mutex: wait, or go on to join. *)
TestEstimate ==
  /\ call = "test" /\ Free
  /\ call' = IF estimate < Total THEN "waiting" ELSE "join"
  /\ UNCHANGED <<vars, sortWork, input, array, part, stage, split, estimate, told>>

(* Mutant: nobody joins, the estimate is trusted. *)
NoJoin ==
  /\ call = "join"
  /\ call' = "joining"
  /\ UNCHANGED <<vars, sortWork, input, array, part, stage, split, estimate, told>>

(* master->join() *)
JoinMaster ==
  /\ call = "join" /\ JoinCall(Master)
  /\ call' = "joining"
  /\ UNCHANGED <<sortWork, input, array, part, stage, split, estimate, told>>

(* delete master, with all its children, and return. *)
DeleteMaster ==
  /\ call = "joining" /\ Free
  /\ call' = "returned"
  /\ UNCHANGED <<vars, sortWork, input, array, part, stage, split, estimate, told>>

-----------------------------------------------------------------------------
Working(j) == pc[j] = "body" /\ ~Blocked(j) /\ ~terminated

(* operator() of qsort_job: one round of the loop, up to the new job. *)
PartitionPart(j) ==
  /\ Working(j) /\ stage[j] = "loop" /\ Size(j) >= MinSize
  /\ LET p == PartitionAt(array, part[j].a, part[j].b)
     IN  array' = p.array /\ split' = [split EXCEPT ![j] = p.at]
  /\ estimate' = estimate + Size(j) /\ call' = Woken
  /\ stage' = [stage EXCEPT ![j] = "spawn"]
  /\ UNCHANGED <<vars, sortWork, input, part, told>>

(* ... the left part becomes a subjob, this job goes on with the right one. *)
SpawnLeft(j, k) ==
  /\ stage[j] = "spawn" /\ runs[k] = 0
  /\ \A i \in Jobs : Order[i] < Order[k] => runs[i] > 0
  /\ EnqueueSub(j, k) /\ arg'[k] = j
  /\ part' = [part EXCEPT ![k] = [a |-> part[j].a, b |-> split[j]],
                          ![j].a = split[j] + 1]
  /\ stage' = [stage EXCEPT ![j] = "loop"]
  /\ UNCHANGED <<sortWork, input, array, split, estimate, told, call>>

(* ... and what is short enough is sorted by std::sort. *)
SortRest(j) ==
  /\ Working(j) /\ stage[j] = "loop" /\ Size(j) < MinSize
  /\ array' = SortedBetween(array, part[j].a, part[j].b)
  /\ estimate' = estimate + sortWork[Size(j)] /\ call' = Woken
  /\ stage' = [stage EXCEPT ![j] = "sorted"]
  /\ UNCHANGED <<vars, sortWork, input, part, split, told>>

OperatorEnd(j) == stage[j] = "sorted" /\ BodyEnd(j) /\ UNCHANGED sortVars

RootDone == Master \in chain /\ deps[Master] = 0

(* Mutant: on_done() leaves the caller to the progress of the jobs. *)
OnDoneQuiet ==
  /\ RootDone /\ holder = NoJob /\ ~told
  /\ told' = TRUE
  /\ UNCHANGED <<vars, sortWork, input, array, part, stage, split, estimate, call>>

(* on_done() of the root, called by done() with jobs_mutex held. *)
OnDone ==
  /\ RootDone /\ holder = NoJob /\ ~told
  /\ told' = TRUE
  /\ estimate' = Total /\ call' = Woken
  /\ UNCHANGED <<vars, sortWork, input, array, part, stage, split>>

(* The steps of the job manager that the sort only observes. *)
PoolStep(j) ==
  /\ \/ Push(j) \/ PushFull(j) \/ RunStart(j) \/ RunEnd(j) \/ Done(j)
     \/ JoinTest(j)
     \/ (RootDone => told) /\ RunReturn(j)
  /\ UNCHANGED sortVars

-----------------------------------------------------------------------------
CallerStep == SortShort \/ EnqueueMaster \/ TestEstimate \/ JoinMaster \/ DeleteMaster

JobOfSortStep(j) ==
  \/ PartitionPart(j) \/ SortRest(j) \/ OperatorEnd(j) \/ PoolStep(j)
  \/ \E k \in Jobs : SpawnLeft(j, k)

ThreadStep(w) == WorkerStep(w) /\ UNCHANGED sortVars

SortNext ==
  \/ CallerStep \/ OnDone
  \/ \E j \in Jobs : JobOfSortStep(j)
  \/ \E w \in Workers : ThreadStep(w)

(* The scheduler runs every thread that can go on. *)
SortFairness ==
  /\ WF_allVars(CallerStep) /\ WF_allVars(OnDone)
  /\ \A j \in Jobs : WF_allVars(JobOfSortStep(j))
  /\ \A w \in Workers : WF_allVars(ThreadStep(w))

SortSpec == SortInit /\ [][SortNext]_allVars /\ SortFairness

-----------------------------------------------------------------------------
InOrder(s) == \A i \in 1 .. Len(s) - 1 : s[i] <= s[i + 1]

SameItems(s, t) ==
  \A v \in {s[i] : i \in DOMAIN s} \cup {t[i] : i \in DOMAIN t} :
    Cardinality({i \in DOMAIN s : s[i] = v}) = Cardinality({i \in DOMAIN t : t[i] = v})

(* Jobs at work never share an item: the parts of two jobs that have not     *)
(* finished are disjoint, however the threads run them.                      *)
PartsDisjoint ==
  \A j, k \in Jobs :
    j # k /\ runs[j] > 0 /\ runs[k] > 0
      => part[j].b <= part[k].a \/ part[k].b <= part[j].a

(* When the sort returns and has deleted its jobs, the array is sorted and   *)
(* holds the items it held, and no thread is inside any of the jobs: neither *)
(* an estimate that is complete before the work is, nor on_done(), which     *)
(* wakes the caller from inside done(), lets the caller go on too early.     *)
(* Until then the jobs never work on the same item.                          *)
SortSafe ==
  /\ PartsDisjoint
  /\ call = "returned" =>
       /\ InOrder(array) /\ SameItems(array, input)
       /\ queue = <<>> /\ ~Locked
       /\ \A j \in Jobs : pc[j] = "idle" /\ state[j] = "idle" /\ deps[j] = 0

(* The sort returns: the caller is woken up when the estimate is complete,   *)
(* also when the guesses for the parts add up to less than the guess for     *)
(* the whole array.                                                          *)
SortReturns == <>(call = "returned")
=============================================================================
