--------------------------- MODULE PriorityQueue ---------------------------
(***************************************************************************)
(* tpie/priority_queue.inl: the external priority queue.  New items go to  *)
(* the overflow queue in memory, which is written to a slot of group 0 as  *)
(* a sorted run when it is full; the slots of a full group are merged into *)
(* one slot of the next.  Each group has a buffer with its least items, of *)
(* which the least of all are in the deletion buffer.  One call is one     *)
(* step.  A slot is what is left of its run (its start is left out), and   *)
(* what has been read from a group buffer is taken from its cells.         *)
(***************************************************************************)
EXTENDS Integers, SequencesExt, FiniteSetsExt, Bags, BagsExt

CONSTANTS
  PQItems,  (* positive integers, in the order of the comparator           *)
  Fanout,   (* setting_k: groups, and slots of a group                     *)
  SlotSize, (* setting_m: items of the overflow queue and a group buffer   *)
  BufferSize (* setting_mmark: items of the deletion buffer                *)

ASSUME QueueAssumption ==
  /\ PQItems \subseteq Nat \ {0}
  /\ Fanout \in Nat /\ Fanout >= 3
  /\ SlotSize \in Nat /\ SlotSize >= 4
  /\ BufferSize \in 2 .. SlotSize - 1

VARIABLE pq

Groups     == 0 .. Fanout - 1
Slots      == 0 .. Fanout * Fanout - 1
SlotsOf(g) == g * Fanout .. (g + 1) * Fanout - 1
NoSlot     == Fanout * Fanout (* instead of a slot: "queue is full" was thrown *)
NoItem     == 0

Ascending(s) == SortSeq(s, <)

(* A group buffer, a ring of cells, that starts with some items. *)
Ring(items) ==
  [start |-> 0, size |-> Len(items),
   cells |-> [i \in 0 .. SlotSize - 1 |->
                IF i < Len(items) THEN items[i + 1] ELSE NoItem]]

RingItems(b) == [i \in 1 .. b.size |-> b.cells[(b.start + i - 1) % SlotSize]]

(* The first n items of a ring are read, or some are written to its end. *)
RingWithout(b, n) ==
  [start |-> (b.start + n) % SlotSize, size |-> b.size - n,
   cells |-> [i \in DOMAIN b.cells |->
                IF (i - b.start) % SlotSize < n THEN NoItem ELSE b.cells[i]]]

RingWith(b, items) ==
  [b EXCEPT !.size = @ + Len(items),
            !.cells = [i \in DOMAIN @ |->
               LET j == (i - b.start - b.size) % SlotSize
               IN  IF j < Len(items) THEN items[j + 1] ELSE @[i]]]

EmptyQueue ==
  [over |-> <<>>, buffer |-> <<>>, at |-> 0, size |-> 0, used |-> 0,
   groups |-> [g \in Groups |-> Ring(<<>>)], slots |-> [s \in Slots |-> <<>>]]

QueueInit == pq = EmptyQueue

-----------------------------------------------------------------------------
(* pq_merge_heap: pairs of an item and the run it is from. *)
Swapped(h, i, j) == [h EXCEPT ![i] = h[j], ![j] = h[i]]

RECURSIVE FixUp(_, _), FixDown(_, _)

FixUp(h, child) ==
  LET parent == child \div 2
  IN  IF child > 1 /\ h[child].item < h[parent].item
      THEN FixUp(Swapped(h, child, parent), parent)
      ELSE h

FixDown(h, parent) ==
  LET child1 == 2 * parent
      child2 == child1 + 1
      child  == IF child2 <= Len(h) /\ h[child1].item >= h[child2].item
                THEN child2 ELSE child1
  IN  IF child <= Len(h) /\ h[child].item < h[parent].item
      THEN FixDown(Swapped(h, child, parent), child)
      ELSE h

HeapPush(h, e) == FixUp(Append(h, e), Len(h) + 1)

HeapPop(h) == IF Len(h) = 1 THEN <<>>
              ELSE FixDown([Front(h) EXCEPT ![1] = Last(h)], 1)

(* The item on top of the heap is taken, and the next one of its run pushed. *)
Take(s) ==
  LET run  == s.heap[1].run
      left == Tail(s.left[run])
  IN  [out  |-> Append(s.out, s.heap[1].item),
       left |-> [s.left EXCEPT ![run] = left],
       heap |-> IF left = <<>> THEN HeapPop(s.heap)
                ELSE FixDown([s.heap EXCEPT ![1].item = left[1]], 1)]

(* The first n items (all of them, if there are fewer) of some runs merged,  *)
(* and what is left of the runs.                                             *)
Merge(runs, n) ==
  LET full == SetToSortSeq({r \in DOMAIN runs : runs[r] # <<>>}, <)
      heap == FoldLeft(LAMBDA h, r : HeapPush(h, [item |-> runs[r][1], run |-> r]),
                       <<>>, full)
  IN  FoldLeft(LAMBDA s, i : IF s.heap = <<>> THEN s ELSE Take(s),
               [out |-> <<>>, left |-> runs, heap |-> heap], [i \in 1 .. n |-> i])

-----------------------------------------------------------------------------
(* write_slot() *)
WriteSlot(q, slot, items) ==
  [q EXCEPT !.slots[slot] = items,
            !.used = IF @ = 0 /\ slot < Fanout THEN 1 ELSE @]

(* empty_group(), with what free_slot(g + 1) has given: the slots of the     *)
(* group are merged into that one, unless looking for it has left some of    *)
(* them empty.  The items may be less than those in the buffer of the next   *)
(* group, which has then to be removed.                                      *)
EmptyGroup(f, g) ==
  LET p      == [f.q EXCEPT !.used = IF @ < g + 2 THEN g + 2 ELSE @]
      runs   == [s \in SlotsOf(g) |-> p.slots[s]]
      size   == Len(FlattenSeq([i \in 1 .. Fanout |-> runs[g * Fanout + i - 1]]))
      merged == [p EXCEPT !.slots = [s \in Slots |->
                   IF s = f.slot THEN Merge(runs, size).out
                   ELSE IF s \in SlotsOf(g) THEN <<>> ELSE @[s]]]
  IN  IF f.slot = NoSlot THEN [q |-> f.q, thrown |-> TRUE, remove |-> FALSE]
      ELSE IF \E s \in SlotsOf(g) : p.slots[s] = <<>>
      THEN [q |-> p, thrown |-> FALSE, remove |-> FALSE]
      ELSE [q |-> merged, thrown |-> FALSE, remove |-> p.groups[g + 1].size > 0]

(* Mutant: a buffer whose items may be less than those merged stays. *)
LeaveGroupBuffer(f, g) == [q |-> f.q, thrown |-> f.slot = NoSlot]

(* remove_group_buffer(), with what free_slot(0) has given: into that slot,  *)
(* its least items into the buffer of group 0 for as many of those.          *)
RemoveGroupBuffer(f, g) ==
  LET p     == f.q
      n     == p.groups[0].size
      items == RingItems(p.groups[g])
      all   == IF n = 0 THEN items ELSE Ascending(RingItems(p.groups[0]) \o items)
      moved == [p EXCEPT !.groups[0] = IF n = 0 THEN @ ELSE Ring(SubSeq(all, 1, n)),
                         !.groups[g] = Ring(<<>>)]
  IN  IF f.slot = NoSlot THEN [q |-> p, thrown |-> TRUE]
      ELSE IF items = <<>> THEN [q |-> p, thrown |-> FALSE]
      ELSE [q |-> WriteSlot(moved, f.slot, SubSeq(all, n + 1, Len(all))), thrown |-> FALSE]

(* free_slot(): a slot of the group, which is emptied when it has none.  It *)
(* may have received the buffer of another group when that returns.         *)
RECURSIVE FreeSlot(_, _)

FreeSlot(q, g) ==
  LET free    == {s \in SlotsOf(g) : q.slots[s] = <<>>}
      first   == g * Fanout
      merged  == EmptyGroup(FreeSlot(q, g + 1), g)
      emptied == IF merged.remove THEN RemoveGroupBuffer(FreeSlot(merged.q, 0), g + 1)
                 ELSE merged
  IN  IF g >= Fanout THEN [q |-> q, slot |-> NoSlot]
      ELSE IF free # {} THEN [q |-> q, slot |-> Min(free)]
      ELSE IF emptied.thrown THEN [q |-> emptied.q, slot |-> NoSlot]
      ELSE IF emptied.q.slots[first] # <<>> THEN FreeSlot(emptied.q, g)
      ELSE [q |-> emptied.q, slot |-> first]

(* fill_group_buffer(): from the slots of the group. *)
FillGroupBuffer(q, g) ==
  LET merged == Merge([s \in SlotsOf(g) |-> q.slots[s]], SlotSize - q.groups[g].size)
  IN  [q EXCEPT !.groups[g] = RingWith(@, merged.out),
                !.slots = [s \in Slots |-> IF s \in SlotsOf(g) THEN merged.left[s] ELSE @[s]]]

(* fill_buffer(), one group: refilled if it may not have enough, and no      *)
(* longer used if it is the last one and has nothing.                        *)
Refill(q, g) ==
  LET p == IF q.groups[g].size < BufferSize THEN FillGroupBuffer(q, g) ELSE q
  IN  IF p.groups[g].size = 0 /\ g = p.used - 1 THEN [p EXCEPT !.used = @ - 1] ELSE p

(* fill_buffer(): the groups refilled, then what is merged from them. *)
Refilled(q) == FoldLeft(Refill, q, [i \in 1 .. q.used |-> i - 1])

MergedGroups(q) == Merge([g \in 0 .. q.used - 1 |-> RingItems(q.groups[g])], BufferSize)

WithBuffer(q, merged) ==
  LET left(g) == Len(merged.left[g])
  IN  [q EXCEPT !.buffer = merged.out,
                !.groups = [g \in Groups |->
                   IF g < q.used THEN RingWithout(@[g], @[g].size - left(g)) ELSE @[g]]]

FromGroups(q) == WithBuffer(q, MergedGroups(q))

FillBuffer(q) == FromGroups(Refilled(q))

-----------------------------------------------------------------------------
(* Mutant: the overflow queue is written to a slot as it is. *)
WriteOverflowPlain(f) == WriteSlot([f.q EXCEPT !.over = <<>>], f.slot, f.q.over)

(* push(), the first part: the full overflow queue is exchanged for greater  *)
(* items of the deletion buffer and group buffer 0, and written to a slot.   *)
WriteOverflow(f) ==
  LET q     == f.q
      n     == Len(q.buffer)
      all   == Ascending(q.over \o q.buffer)
      over  == SubSeq(all, n + 1, Len(all))
      n0    == q.groups[0].size
      all0  == Ascending(RingItems(q.groups[0]) \o over)
      moved == [q EXCEPT !.over = <<>>, !.buffer = SubSeq(all, 1, n),
                  !.groups[0] = IF n0 = 0 THEN @ ELSE Ring(SubSeq(all0, 1, n0))]
  IN  WriteSlot(moved, f.slot, SubSeq(all0, n0 + 1, Len(all0)))

Pushed(q, x) == [q EXCEPT !.over = Ascending(Append(@, x)), !.size = @ + 1]

Push(x) ==
  LET f == FreeSlot(pq, 0)
  IN  pq' = IF Len(pq.over) < SlotSize THEN Pushed(pq, x)
            ELSE IF f.slot = NoSlot THEN f.q
            ELSE Pushed(WriteOverflow(f), x)

(* top(): the deletion buffer is filled if it is empty. *)
Freshened(q) ==
  IF q.buffer = <<>> /\ Len(q.over) # q.size THEN FillBuffer(q) ELSE q

MinInBuffer(q) ==
  q.buffer # <<>> /\ (q.over = <<>> \/ q.buffer[1] < q.over[1])

Least(q) == IF MinInBuffer(q) THEN q.buffer[1] ELSE q.over[1]

Top == pq.size > 0 /\ pq' = Freshened(pq)

(* pop(), after the top() it calls *)
WithoutLeast(q) ==
  IF MinInBuffer(q)
  THEN [q EXCEPT !.buffer = Tail(@), !.size = @ - 1,
                 !.at = IF Len(q.buffer) = 1 THEN 0 ELSE @ + 1]
  ELSE [q EXCEPT !.over = Tail(@), !.size = @ - 1]

Pop == pq.size > 0 /\ pq' = WithoutLeast(Freshened(pq))

(* pop_equals(): pop() as long as top() gives no greater item; top() is      *)
(* called once more after the last of them, unless the queue is empty.       *)
RECURSIVE PoppedEquals(_, _)

PoppedEquals(q, item) ==
  IF q.size > 0 /\ Least(q) <= item
  THEN PoppedEquals(Freshened(WithoutLeast(q)), item)
  ELSE q

PoppedAll(q) == PoppedEquals(q, Least(q))

PopEquals == pq.size > 0 /\ pq' = PoppedAll(Freshened(pq))

QueueNext == (\E x \in PQItems : Push(x)) \/ Top \/ Pop \/ PopEquals

-----------------------------------------------------------------------------
AllItems ==
  pq.over \o pq.buffer
    \o FlattenSeq([i \in 1 .. Fanout |-> RingItems(pq.groups[i - 1])])
    \o FlattenSeq([i \in 1 .. Fanout * Fanout |-> pq.slots[i - 1]])

IsAscending(s) == \A i \in 1 .. Len(s) - 1 : s[i] <= s[i + 1]

(* Nothing in s is greater than anything in t, both ascending. *)
NotAfter(s, t) == s = <<>> \/ t = <<>> \/ Last(s) <= t[1]

(* Every run is sorted; the deletion buffer has nothing greater than a group *)
(* buffer, a group buffer nothing greater than a slot of its group.          *)
HeapOrder ==
  /\ IsAscending(pq.buffer)
  /\ \A g \in Groups :
       LET items == RingItems(pq.groups[g])
       IN  /\ IsAscending(items) /\ NotAfter(pq.buffer, items)
           /\ \A s \in SlotsOf(g) : /\ IsAscending(pq.slots[s])
                                    /\ NotAfter(items, pq.slots[s])
                                    /\ NotAfter(pq.buffer, pq.slots[s])

(* Nothing is in a group that is not in use, or outgrows where it is kept. *)
WithinBounds ==
  /\ pq.size = Len(AllItems)
  /\ pq.at + Len(pq.buffer) <= BufferSize
  /\ \A g \in Groups :
       /\ pq.groups[g].size <= IF g < pq.used THEN SlotSize ELSE 0
       /\ \A s \in SlotsOf(g) :
            Len(pq.slots[s]) <= IF g < pq.used THEN SlotSize * Fanout ^ g ELSE 0

(* After any pushes and pops what the merging relies on is in order, also    *)
(* when emptying a group has removed buffers and emptied other groups on the *)
(* way, and top() answers with the least item of all.                        *)
QueueSafe ==
  /\ HeapOrder /\ WithinBounds
  /\ pq.size > 0 => Least(Freshened(pq)) = Min(Range(AllItems))

(* The bag of all items. *)
Contents ==
  LET all == AllItems
  IN  [x \in Range(all) |-> Len(SelectSeq(all, LAMBDA y : y = x))]

Heap == INSTANCE MinHeap WITH Items <- PQItems, bag <- Contents

(* The queue is a bag of items of which the least leave first: no item is    *)
(* lost or doubled on its way through slots, groups and buffers, and a push  *)
(* into a queue that is full changes nothing.                                *)
QueueImplementsHeap == Heap!Spec
=============================================================================
