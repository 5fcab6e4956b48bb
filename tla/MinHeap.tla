------------------------------ MODULE MinHeap ------------------------------
(***************************************************************************)
(* What a priority queue promises: a bag of items of which the least leave *)
(* first.  A push that finds no room changes nothing.                      *)
(***************************************************************************)
EXTENDS Integers, Bags, BagsExt, FiniteSetsExt

CONSTANT Items (* integers, in the order of the comparator                 *)

VARIABLE bag

Init == bag = EmptyBag

(* What one push, one pop, or one pop of all that equal the least, leaves of *)
(* a bag.                                                                    *)
Pushed(b) == {BagAdd(b, x) : x \in Items}

Popped(b) ==
  IF b = EmptyBag THEN {}
  ELSE {BagRemove(b, Min(DOMAIN b)), BagRemoveAll(b, Min(DOMAIN b))}

Next == bag' \in Pushed(bag) \cup Popped(bag)

Spec == Init /\ [][Next]_bag
=============================================================================
