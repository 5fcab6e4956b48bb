--------------------------- MODULE OrderedIndex ---------------------------
(***************************************************************************)
(* What a B-tree promises: a sequence of items in the order of their keys, *)
(* of which equal ones keep the order in which they were inserted.         *)
(***************************************************************************)
EXTENDS Integers, SequencesExt

CONSTANTS
  Items, (* the items, records with a key                                  *)
  Keys

VARIABLE items

Init == items = <<>>

UpTo(k) == Len(SelectSeq(items, LAMBDA x : x.key <= k))

Insert(x) == items' = InsertAt(items, UpTo(x.key) + 1, x)

EraseOne(i) == i \in DOMAIN items /\ items' = RemoveAt(items, i)

EraseKey(k) == items' = SelectSeq(items, LAMBDA x : x.key # k)

Next ==
  \/ \E x \in Items : Insert(x)
  \/ \E i \in DOMAIN items : EraseOne(i)
  \/ \E k \in Keys : EraseKey(k)

Spec == Init /\ [][Next]_items
=============================================================================
