---------------------------- MODULE MCThreads ----------------------------
(* Instances of ParallelSort and Accounting for TLC.  The sort and the        *)
(* registry share no state, so either the array is sorted and no thread       *)
(* allocates, or the threads allocate and nothing is sorted.                  *)
EXTENDS ParallelSort, Accounting, TLC

CONSTANTS x, y, p1, p2, p3

MCSpawns == [j \in Jobs |-> Jobs \ {Master}]
MCOrder  == [j \in Jobs |-> j]

(* The guess of the code, 1.8 n log2 n, and a low one: with it the estimate   *)
(* is complete long before the work is, as it is with the former for large    *)
(* arrays and bad pivots.                                                     *)
MCGuesses == {[n \in 0 .. 9 |-> <<0, 0, 3, 8, 14, 20, 27, 35, 43, 51>>[n + 1]],
              [n \in 0 .. 9 |-> n]}

MCArrays == {<<2, 1>>, <<5, 3, 9, 1, 7, 2, 8, 6, 4>>}
              \cup [1 .. 4 -> 1 .. 2] \cup SetToSeqs(1 .. 4)

MCBytes == x :> 4 @@ y :> 6
Calls(a, b, c) == p1 :> a @@ p2 :> b @@ p3 :> c

Idle == [enforce |-> "warn", limit |-> 0, calls |-> Calls(0, 0, 0)]
MCSettings ==
  {Idle} \cup
  [enforce : {"throw"}, limit : {9}, calls : {Calls(1, 1, 1), Calls(2, 2, 0)}] \cup
  [enforce : {"throw"}, limit : {0}, calls : {Calls(2, 1, 0)}] \cup
  [enforce : {"ignore", "debug", "warn"}, limit : {9}, calls : {Calls(1, 1, 0)}]

MCInit ==
  \/ SortInit /\ AccountInit /\ calls = Idle.calls
  \/ Given("returned") /\ input = <<1, 1, 1, 1>> /\ sortWork[1] = 1 /\ AccountInit /\ calls # Idle.calls

Accounted == \A p \in Threads : at[p] = "idle" /\ calls[p] = 0

Over ==
  /\ call = "returned" /\ Accounted
  /\ UNCHANGED <<allVars, accountVars>>

MCNext ==
  \/ Accounted /\ SortNext /\ UNCHANGED accountVars
  \/ AccountNext /\ UNCHANGED allVars
  \/ Over

MCSpec == MCInit /\ [][MCNext]_<<allVars, accountVars>> /\ SortFairness
=============================================================================
