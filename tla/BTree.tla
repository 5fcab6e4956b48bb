------------------------------ MODULE BTree ------------------------------
(***************************************************************************)
(* tpie/btree/btree.h and node.h: a B-tree whose leaves hold the items and *)
(* whose internal nodes hold children, each with an augmentation: its      *)
(* least key and, as an example of what a user adds, its number of items.  *)
(* One call of the tree is one step.  A node is kept by value, so that the *)
(* path of an iterator is the sequence of the positions of the children on *)
(* the way down; the blocks the nodes take are counted.                    *)
(***************************************************************************)
EXTENDS Integers, Sequences, FiniteSetsExt, SequencesExt

CONSTANTS
  TreeItems,  (* the items, records with a key                             *)
  TreeKeys,   (* the keys that are looked up and erased                    *)
  MinFanout,  (* min_leaf_size() and min_internal_size()                   *)
  MaxFanout,  (* max_leaf_size() and max_internal_size()                   *)
  MaxItems    (* bound: size of the tree up to which an item is inserted   *)

ASSUME FanoutAssumption ==
  /\ MinFanout \in Nat \ {0, 1} /\ MaxFanout \in Nat
  /\ 2 * MinFanout <= MaxFanout
  /\ MaxItems \in [TreeItems -> Nat]

VARIABLE tree (* root node, height (1 is a lone leaf), size, and blocks    *)

Leaf(items)    == [isLeaf |-> TRUE,  of |-> items]
Internal(kids) == [isLeaf |-> FALSE, of |-> kids]

Count(n)     == Len(n.of)
MinKey(n, i) == IF n.isLeaf THEN n.of[i].key ELSE n.of[i].aug.key

(* What the augmenter makes of a node, from what its children carry. *)
Augmented(n) ==
  [key   |-> MinKey(n, 1),
   items |-> IF n.isLeaf THEN Count(n)
             ELSE FoldLeft(LAMBDA sum, e : sum + e.aug.items, 0, n.of)]

(* A node as its parent keeps it. *)
Child(n) == [node |-> n, aug |-> Augmented(n)]

NodeAt(root, path) == FoldLeft(LAMBDA n, i : n.of[i].node, root, path)

(* The tree with another node at the end of a path, augmentations as before. *)
Put(root, path, node) ==
  LET P[p \in Seq(Nat)] ==
        IF p = path THEN node
        ELSE LET i == path[Len(p) + 1]
             IN  [NodeAt(root, p) EXCEPT !.of[i].node = P[Append(p, i)]]
  IN  P[<<>>]

(* augment(l, p): the parent's entry for the node at the end of a path. *)
Augment(root, path) ==
  LET p == NodeAt(root, Front(path))
  IN  Put(root, Front(path),
          [p EXCEPT !.of[Last(path)].aug = Augmented(NodeAt(root, path))])

(* The nodes of a path from the bottom up, without the root. *)
Upwards(path) == [d \in 1 .. Len(path) |-> SubSeq(path, 1, Len(path) - d + 1)]

(* Mutant: only the parent learns about a change. *)
AugmentParent(root, path) == IF path = <<>> THEN root ELSE Augment(root, path)

(* augment_path() *)
AugmentPath(root, path) == FoldLeft(Augment, root, Upwards(path))

-----------------------------------------------------------------------------
(* The child that find_leaf() descends to. *)
Descend(n, k, upper) ==
  Min({i \in 1 .. Count(n) :
         \/ i = Count(n)
         \/ IF upper THEN k < MinKey(n, i + 1) ELSE MinKey(n, i + 1) >= k})

(* find_leaf(): the path to the leaf for a key. *)
FindLeaf(t, k, upper) ==
  LET F[d \in Nat] ==
        IF d = 0 THEN <<>>
        ELSE Append(F[d - 1], Descend(NodeAt(t.root, F[d - 1]), k, upper))
  IN  F[t.height - 1]

Item(path, i) == [path |-> path, at |-> i]

(* goto_end() *)
End(t) ==
  LET E[d \in Nat] == IF d = 0 THEN <<>>
                      ELSE Append(E[d - 1], Count(NodeAt(t.root, E[d - 1])))
      path == E[t.height - 1]
  IN  IF t.height = 0 THEN Item(<<>>, 1)
      ELSE Item(path, Count(NodeAt(t.root, path)) + 1)

(* goto_begin() *)
Begin(t) == Item([i \in 1 .. t.height - 1 |-> 1], 1)

(* increment(): the next item of the leaf, or the first one of the leaf that *)
(* follows below the lowest ancestor where one does.                         *)
Increment(t, it) ==
  LET path == it.path
      more == {d \in DOMAIN path :
                 path[d] < Count(NodeAt(t.root, SubSeq(path, 1, d - 1)))}
      turn == Max(more)
  IN  IF it.at < Count(NodeAt(t.root, path)) \/ path = <<>>
      THEN Item(path, it.at + 1)
      ELSE IF more = {} THEN End(t)
      ELSE Item([d \in DOMAIN path |-> IF d < turn THEN path[d]
                                       ELSE IF d = turn THEN path[d] + 1 ELSE 1], 1)

(* decrement(): likewise to the left; not from the first item. *)
Decrement(t, it) ==
  LET path == it.path
      turn == Max({d \in DOMAIN path : path[d] > 1})
      D[d \in Nat] ==
        IF d < turn THEN SubSeq(path, 1, d)
        ELSE Append(D[d - 1], IF d = turn THEN path[d] - 1
                              ELSE Count(NodeAt(t.root, D[d - 1])))
      left == D[Len(path)]
  IN  IF it.at > 1 THEN Item(path, it.at - 1)
      ELSE Item(left, Count(NodeAt(t.root, left)))

(* The keys of the leaf at the end of a path. *)
KeysAt(t, path) ==
  LET leaf == NodeAt(t.root, path)
  IN  [i \in DOMAIN leaf.of |-> MinKey(leaf, i)]

(* The first one of some items of a leaf, or what follows the leaf. *)
FirstOrNext(t, path, good) ==
  IF good # {} THEN Item(path, Min(good))
  ELSE Increment(t, Item(path, Count(NodeAt(t.root, path))))


LowerBound(t, k) ==
  LET path == FindLeaf(t, k, FALSE)
      keys == KeysAt(t, path)
  IN  IF t.height = 0 THEN End(t)
      ELSE FirstOrNext(t, path, {i \in DOMAIN keys : keys[i] >= k})

UpperBound(t, k) ==
  LET path == FindLeaf(t, k, TRUE)
      keys == KeysAt(t, path)
  IN  IF t.height = 0 THEN End(t)
      ELSE FirstOrNext(t, path, {i \in DOMAIN keys : keys[i] > k})

(* find(): the first item with the key in the last leaf that may have it. *)
Find(t, k) ==
  LET path == FindLeaf(t, k, TRUE)
      keys == KeysAt(t, path)
      good == {i \in DOMAIN keys : keys[i] = k}
  IN  IF t.height = 0 \/ good = {} THEN End(t) ELSE Item(path, Min(good))

-----------------------------------------------------------------------------
Holding(n, entries) == [n EXCEPT !.of = entries]

(* split_and_insert() of an entry at position i of a full node. *)
Split(n, i, entry) ==
  LET half  == MaxFanout \div 2
      left  == SubSeq(n.of, 1, half)
      right == SubSeq(n.of, half + 1, MaxFanout)
  IN  IF i - 1 <= half
      THEN <<Holding(n, InsertAt(left, i, entry)), Holding(n, right)>>
      ELSE <<Holding(n, left), Holding(n, InsertAt(right, i - half, entry))>>

(* insert_before(), one level: the node at the end of the path was split in  *)
(* two and the parent takes the right half, or is split in turn.             *)
Grow(u, path) ==
  LET up   == Front(path)
      root == Augment(Put(u.root, path, u.halves[1]), path)
      p    == NodeAt(root, up)
      i    == Last(path) + 1
      kid  == Child(u.halves[2])
  IN  IF u.done THEN u
      ELSE IF Count(p) # MaxFanout
      THEN [u EXCEPT !.done = TRUE,
                     !.root = AugmentPath(Put(root, up, Holding(p, InsertAt(p.of, i, kid))), up)]
      ELSE [u EXCEPT !.root = root, !.halves = Split(p, i, kid), !.blocks = @ + 1]

(* insert_before() with a full leaf: split it, and its ancestors while they  *)
(* are full; createNewRoot() when the root was split.                        *)
InsertSplitting(t, it, x) ==
  LET u == FoldLeft(Grow,
             [root |-> t.root, blocks |-> t.blocks + 1, done |-> FALSE,
              halves |-> Split(NodeAt(t.root, it.path), it.at, x)],
             Upwards(it.path))
  IN  IF u.done
      THEN [t EXCEPT !.root = u.root, !.blocks = u.blocks, !.size = @ + 1]
      ELSE [root   |-> Internal(<<Child(u.halves[1]), Child(u.halves[2])>>),
            height |-> t.height + 1, size |-> t.size + 1, blocks |-> u.blocks + 1]

(* insert_before() *)
InsertBefore(t, it, x) ==
  LET leaf == NodeAt(t.root, it.path)
  IN  IF t.height = 0
      THEN [root |-> Leaf(<<x>>), height |-> 1, size |-> t.size + 1,
            blocks |-> t.blocks + 1]
      ELSE IF Count(leaf) = MaxFanout THEN InsertSplitting(t, it, x)
      ELSE [t EXCEPT !.size = @ + 1,
                     !.root = AugmentPath(Put(@, it.path,
                                Holding(leaf, InsertAt(leaf.of, it.at, x))), it.path)]

-----------------------------------------------------------------------------
(* Mutant: what is stolen from the left is put last. *)
FixupOutOfOrder(p, i) ==
  LET kid(j) == p.of[j].node
      spare(j) == j \in DOMAIN p.of /\ Count(kid(j)) > MinFanout
      both(j, a, b) == [p.of EXCEPT ![j] = Child(Holding(kid(j), a)),
                                    ![j + 1] = Child(Holding(kid(j + 1), b))]
      c == kid(i).of
      j == IF i = 1 THEN 1 ELSE i - 1
  IN  IF spare(i - 1)
      THEN LET l == kid(i - 1).of
           IN  [node |-> Holding(p, both(i - 1, Front(l), Append(c, Last(l)))), merged |-> FALSE]
      ELSE IF spare(i + 1)
      THEN LET r == kid(i + 1).of
           IN  [node |-> Holding(p, both(i, Append(c, Head(r)), Tail(r))), merged |-> FALSE]
      ELSE [node |-> Holding(p, RemoveAt([p.of EXCEPT
              ![j] = Child(Holding(kid(j), kid(j).of \o kid(j + 1).of))], j + 1)),
            merged |-> TRUE]

(* remove_fixup_round() for the i-th child of p, which is too small: steal   *)
(* from the left, or else from the right, or else merge with a neighbour.    *)
FixupRound(p, i) ==
  LET kid(j) == p.of[j].node
      spare(j) == j \in DOMAIN p.of /\ Count(kid(j)) > MinFanout
      both(j, a, b) == [p.of EXCEPT ![j] = Child(Holding(kid(j), a)),
                                    ![j + 1] = Child(Holding(kid(j + 1), b))]
      c == kid(i).of
      j == IF i = 1 THEN 1 ELSE i - 1
  IN  IF spare(i - 1)
      THEN LET l == kid(i - 1).of
           IN  [node |-> Holding(p, both(i - 1, Front(l), <<Last(l)>> \o c)), merged |-> FALSE]
      ELSE IF spare(i + 1)
      THEN LET r == kid(i + 1).of
           IN  [node |-> Holding(p, both(i, Append(c, Head(r)), Tail(r))), merged |-> FALSE]
      ELSE [node |-> Holding(p, RemoveAt([p.of EXCEPT
              ![j] = Child(Holding(kid(j), kid(j).of \o kid(j + 1).of))], j + 1)),
            merged |-> TRUE]

(* erase(), one level: the node at the end of the path is too small.  The    *)
(* root may be small, but not with a single child.                           *)
Shrink(u, path) ==
  LET up   == Front(path)
      fix  == FixupRound(NodeAt(u.t.root, up), Last(path))
      root == Put(u.t.root, up, fix.node)
      t    == [u.t EXCEPT !.root = root, !.blocks = IF fix.merged THEN @ - 1 ELSE @]
  IN  IF u.done THEN u
      ELSE IF ~fix.merged \/ Count(fix.node) >= MinFanout
      THEN [t |-> [t EXCEPT !.root = AugmentPath(root, up)], done |-> TRUE]
      ELSE IF up = <<>> /\ Count(fix.node) = 1
      THEN [t |-> [t EXCEPT !.root = fix.node.of[1].node, !.height = @ - 1,
                            !.blocks = @ - 1], done |-> TRUE]
      ELSE [t |-> t, done |-> FALSE]

(* erase() of the item at an iterator. *)
Erase(t, it) ==
  LET leaf  == NodeAt(t.root, it.path)
      less  == Holding(leaf, RemoveAt(leaf.of, it.at))
      root  == Put(t.root, it.path, less)
      after == [t EXCEPT !.root = root, !.size = @ - 1]
  IN  IF Count(less) >= MinFanout
      THEN [after EXCEPT !.root = AugmentPath(root, it.path)]
      ELSE IF it.path # <<>>
      THEN FoldLeft(Shrink, [t |-> after, done |-> FALSE], Upwards(it.path)).t
      ELSE IF Count(less) = 0
      THEN [after EXCEPT !.height = 0, !.blocks = @ - 1]
      ELSE after

-----------------------------------------------------------------------------
TreeInit == tree = [root |-> Leaf(<<>>), height |-> 0, size |-> 0, blocks |-> 0]

(* insert(): after the items with the same key. *)
Insert(x) ==
  /\ tree.size < MaxItems[x]
  /\ tree' = InsertBefore(tree, UpperBound(tree, x.key), x)

(* The items from begin() on, by increment(). *)
Iterators(t) ==
  LET I[n \in Nat] == IF n = 0 THEN Begin(t) ELSE Increment(t, I[n - 1])
  IN  [n \in 1 .. t.size |-> I[n - 1]]

(* erase(iterator) *)
EraseAt(n) == tree' = Erase(tree, Iterators(tree)[n])

(* erase(key): as long as find() finds an item. *)
EraseKey(k) ==
  LET E[n \in Nat] ==
        IF n = 0 THEN tree
        ELSE LET t == E[n - 1]
             IN  IF Find(t, k) = End(t) THEN t ELSE Erase(t, Find(t, k))
  IN  tree' = E[tree.size]

TreeNext ==
  \/ \E x \in TreeItems : Insert(x)
  \/ \E n \in 1 .. tree.size : EraseAt(n)
  \/ \E k \in TreeKeys : EraseKey(k)

-----------------------------------------------------------------------------
(* The items below the node at a path, in the order of the leaves. *)
ItemsBelow(path) ==
  LET B[p \in Seq(Nat)] ==
        LET n == NodeAt(tree.root, p)
        IN  IF n.isLeaf THEN n.of
            ELSE FlattenSeq([i \in DOMAIN n.of |-> B[Append(p, i)]])
  IN  B[path]

TreeContents == IF tree.height = 0 THEN <<>> ELSE ItemsBelow(<<>>)

(* The paths of all nodes. *)
Paths ==
  LET L[d \in Nat] ==
        IF d = 0 THEN {<<>>}
        ELSE UNION {{Append(p, i) : i \in DOMAIN NodeAt(tree.root, p).of} : p \in L[d - 1]}
  IN  UNION {L[d] : d \in 0 .. tree.height - 1}

(* All leaves are equally deep, nodes but the root are at least half full,   *)
(* no node is too large, the root is no chain, every augmentation is exact,  *)
(* and no block is lost or freed that is part of the tree.                   *)
WellFormed ==
  /\ tree.size = Len(TreeContents) /\ tree.blocks = Cardinality(Paths)
  /\ \A p \in Paths :
       LET n == NodeAt(tree.root, p)
       IN  /\ n.isLeaf <=> Len(p) + 1 = tree.height
           /\ Count(n) <= MaxFanout
           /\ Count(n) >= IF p # <<>> THEN MinFanout ELSE IF n.isLeaf THEN 1 ELSE 2
           /\ ~n.isLeaf => \A i \in DOMAIN n.of :
                LET below == ItemsBelow(Append(p, i))
                IN  n.of[i].aug = [key |-> below[1].key, items |-> Len(below)]

(* Where an iterator is in the order of the items; size + 1 is the end. *)
Place(it) ==
  LET before(d) == FoldLeft(LAMBDA sum, n : sum + n, 0,
        [i \in 1 .. it.path[d] - 1 |-> Len(ItemsBelow(SubSeq(it.path, 1, d - 1) \o <<i>>))])
  IN  it.at + FoldLeft(LAMBDA sum, d : sum + before(d), 0, [d \in DOMAIN it.path |-> d])

NumberOf(Passes(_)) == Len(SelectSeq(TreeContents, LAMBDA x : Passes(x.key)))

(* Iterators visit every item once, in order, and the same way back. *)
IteratorsVisitAll ==
  LET its == Iterators(tree)
  IN  /\ \A n \in DOMAIN its : Place(its[n]) = n
      /\ \A n \in DOMAIN its : n > 1 => Decrement(tree, its[n]) = its[n - 1]
      /\ tree.size > 0 => /\ Increment(tree, its[tree.size]) = End(tree)
                          /\ Decrement(tree, End(tree)) = its[tree.size]

(* The bounds are the first item not less and the first greater, find() is   *)
(* an item with the key exactly when there is one.                           *)
LookupsRight ==
  \A k \in TreeKeys :
    /\ Place(LowerBound(tree, k)) = NumberOf(LAMBDA x : x < k) + 1
    /\ Place(UpperBound(tree, k)) = NumberOf(LAMBDA x : x <= k) + 1
    /\ IF NumberOf(LAMBDA x : x = k) = 0 THEN Find(tree, k) = End(tree)
       ELSE /\ Find(tree, k) # End(tree)
            /\ TreeContents[Place(Find(tree, k))].key = k


Index == INSTANCE OrderedIndex WITH
           Items <- TreeItems, Keys <- TreeKeys, items <- TreeContents

(* The tree is an ordered sequence of items: splitting, stealing and merging *)
(* loses, doubles or reorders nothing, an iterator erases the item it points *)
(* to, and erase(key) all items with the key.                                *)
TreeImplementsIndex == Index!Spec
=============================================================================
