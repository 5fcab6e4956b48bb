-------------------------- MODULE AccountingProofs --------------------------
(***************************************************************************)
(* Proofs about Accounting, for every set of threads and types, every      *)
(* limit and every number of calls: the registry is exact, and what was    *)
(* granted is never more than the limit.                                   *)
(***************************************************************************)
EXTENDS Accounting, FiniteSetTheorems, NaturalsInduction, TLAPS

-----------------------------------------------------------------------------
(* Sums over finite sets. *)

(* A set of subsets of a finite set has one that no removal of an element    *)
(* keeps in it.                                                              *)
LEMMA MinimalSubset ==
  ASSUME NEW S, IsFiniteSet(S), NEW Bad \in SUBSET SUBSET S, Bad # {}
  PROVE  \E T \in Bad : \A x \in T : T \ {x} \notin Bad
<1>1. FiniteSubsetsOf(S) = SUBSET S  BY FS_FiniteSubsetsOfFinite
<1>2. IsWellFoundedOn(StrictSubsetOrdering(S), SUBSET S)
  BY <1>1, FS_StrictSubsetOrderingWellFounded
<1>3. PICK T \in Bad : \A U \in Bad : ~(<<U, T>> \in StrictSubsetOrdering(S))
  BY <1>2, WFMin
<1>4. ASSUME NEW x \in T, T \ {x} \in Bad PROVE FALSE
  <2>1. <<T \ {x}, T>> \in StrictSubsetOrdering(S)  BY DEF StrictSubsetOrdering
  <2> QED  BY <1>3, <1>4, <2>1
<1> QED  BY <1>4

(* A function that is the sum of the bytes of every subset. *)
Sums(S, g) ==
  /\ g \in [SUBSET S -> Nat] /\ g[{}] = 0
  /\ \A T \in SUBSET S : \A x \in T : g[T] = x.bytes + g[T \ {x}]

LEMMA SumsExist ==
  ASSUME NEW S, IsFiniteSet(S), \A x \in S : x.bytes \in Nat
  PROVE  \E g : Sums(S, g)
<1> DEFINE Bad == {T \in SUBSET S : ~ \E g : Sums(T, g)}
<1> SUFFICES ASSUME Bad # {} PROVE FALSE  OBVIOUS
<1>1. PICK T \in Bad : \A x \in T : T \ {x} \notin Bad
  <2>1. Bad \in SUBSET SUBSET S  OBVIOUS
  <2> HIDE DEF Bad
  <2> QED  BY <2>1, MinimalSubset
<1>2. CASE T = {}
  <2> DEFINE g == [U \in SUBSET T |-> 0]
  <2>1. Sums(T, g)  BY <1>2 DEF Sums
  <2> QED  BY <2>1
<1>3. CASE T # {}
  <2>1. PICK x \in T : TRUE  BY <1>3
  <2>2. PICK h : Sums(T \ {x}, h)  BY <1>1
  <2> DEFINE more(U) == IF x \in U THEN x.bytes ELSE 0
             g == [U \in SUBSET T |-> h[U \ {x}] + more(U)]
  <2>3. x.bytes \in Nat  OBVIOUS
  <2>4. \A U \in SUBSET T : h[U \ {x}] \in Nat  BY <2>2 DEF Sums
  <2>5. g \in [SUBSET T -> Nat] /\ g[{}] = 0  BY <2>2, <2>3, <2>4 DEF Sums
  <2>6. ASSUME NEW U \in SUBSET T, NEW y \in U PROVE g[U] = y.bytes + g[U \ {y}]
    <3>1. y.bytes \in Nat  OBVIOUS
    <3>2. CASE y = x
      <4>1. (U \ {x}) \ {x} = U \ {x}  OBVIOUS
      <4>2. g[U] = h[U \ {x}] + x.bytes /\ g[U \ {y}] = h[U \ {x}] + 0  BY <3>2, <4>1
      <4>3. h[U \ {x}] \in Nat  BY <2>4
      <4> HIDE DEF g
      <4> QED  BY <3>2, <4>2, <4>3, <2>3
    <3>3. CASE y # x
      <4>1. (U \ {y}) \ {x} = (U \ {x}) \ {y} /\ y \in U \ {x}  BY <3>3
      <4>2. h[U \ {x}] = y.bytes + h[(U \ {x}) \ {y}]  BY <4>1, <2>2 DEF Sums
      <4>3. more(U \ {y}) = more(U) /\ more(U) \in Nat  BY <3>3, <2>3
      <4>4. g[U] = h[U \ {x}] + more(U) /\ g[U \ {y}] = h[(U \ {x}) \ {y}] + more(U \ {y})
        BY <4>1
      <4>5. h[(U \ {x}) \ {y}] \in Nat  BY <2>2 DEF Sums
      <4> HIDE DEF g, more
      <4> QED  BY <4>2, <4>3, <4>4, <4>5, <3>1
    <3> QED  BY <3>2, <3>3
  <2> HIDE DEF g
  <2> QED  BY <2>5, <2>6 DEF Sums
<1> QED  BY <1>2, <1>3

(* The fold that defines BytesOf() is that function. *)
LEMMA BytesOfIs ==
  ASSUME NEW S, IsFiniteSet(S), NEW g, Sums(S, g)
  PROVE  BytesOf(S) = g[S]
<1> DEFINE chosen(s) == CHOOSE x \in s : TRUE
           Fold(f) == f = [s \in SUBSET S |->
                             IF s = {} THEN 0 ELSE chosen(s).bytes + f[s \ {chosen(s)}]]
<1>1. Fold(g)
  <2>1. \A s \in SUBSET S : s # {} => g[s] = chosen(s).bytes + g[s \ {chosen(s)}]
    BY DEF Sums
  <2>2. g = [s \in SUBSET S |-> g[s]] /\ g[{}] = 0  BY DEF Sums
  <2> HIDE DEF chosen
  <2> QED  BY <2>1, <2>2
<1>2. ASSUME NEW f, Fold(f) PROVE f[S] = g[S]
  <2> DEFINE Bad == {T \in SUBSET S : f[T] # g[T]}
  <2> SUFFICES ASSUME Bad # {} PROVE FALSE  OBVIOUS
  <2>1. PICK T \in Bad : \A x \in T : T \ {x} \notin Bad
    <3>1. Bad \in SUBSET SUBSET S  OBVIOUS
    <3> HIDE DEF Bad
    <3> QED  BY <3>1, MinimalSubset
  <2>2. T # {}  BY <1>2 DEF Sums
  <2>3. chosen(T) \in T  BY <2>2
  <2> HIDE DEF chosen
  <2>4. f[T] = chosen(T).bytes + f[T \ {chosen(T)}]  BY <1>2, <2>2
  <2>5. g[T] = chosen(T).bytes + g[T \ {chosen(T)}]  BY <2>3 DEF Sums
  <2>6. f[T \ {chosen(T)}] = g[T \ {chosen(T)}]  BY <2>1, <2>3
  <2> QED  BY <2>4, <2>5, <2>6
<1>3. BytesOf(S) = (CHOOSE f : Fold(f))[S]
  BY DEF BytesOf, MapThenSumSet, MapThenFoldSet
<1> HIDE DEF Fold
<1> QED  BY <1>1, <1>2, <1>3

LEMMA BytesOfEmpty == BytesOf({}) = 0
<1>1. IsFiniteSet({})  BY FS_EmptySet
<1>2. PICK g : Sums({}, g)  BY <1>1, SumsExist
<1> QED  BY <1>1, <1>2, BytesOfIs DEF Sums

(* A sum is a number, and that of one element more is larger by its bytes. *)
LEMMA BytesOfMore ==
  ASSUME NEW S, IsFiniteSet(S), NEW b, \A x \in S \cup {b} : x.bytes \in Nat
  PROVE  /\ BytesOf(S) \in Nat /\ BytesOf(S \cup {b}) \in Nat
         /\ b \notin S => BytesOf(S \cup {b}) = BytesOf(S) + b.bytes
<1> DEFINE T == S \cup {b}
<1>1. IsFiniteSet(T)  BY FS_AddElement
<1>2. PICK g : Sums(T, g)  BY <1>1, SumsExist
<1> DEFINE h == [U \in SUBSET S |-> g[U]]
<1>3. Sums(S, h)  BY <1>2 DEF Sums
<1>4. BytesOf(S) = g[S]  BY <1>3, BytesOfIs
<1>5. BytesOf(T) = g[T]  BY <1>1, <1>2, BytesOfIs
<1>6. g[S] \in Nat /\ g[T] \in Nat  BY <1>2 DEF Sums
<1>7. b \notin S => g[T] = b.bytes + g[S]
  <2>1. b \notin S => T \ {b} = S  OBVIOUS
  <2> QED  BY <1>2, <2>1 DEF Sums
<1> QED  BY <1>4, <1>5, <1>6, <1>7

LEMMA BytesOfLess ==
  ASSUME NEW S, IsFiniteSet(S), NEW b \in S, \A x \in S : x.bytes \in Nat
  PROVE  BytesOf(S \ {b}) = BytesOf(S) - b.bytes /\ BytesOf(S \ {b}) \in Nat
<1>1. IsFiniteSet(S \ {b}) /\ (S \ {b}) \cup {b} = S  BY FS_RemoveElement
<1>2. BytesOf(S) = BytesOf(S \ {b}) + b.bytes /\ BytesOf(S \ {b}) \in Nat
  BY <1>1, BytesOfMore
<1>3. b.bytes \in Nat  OBVIOUS
<1> QED  BY <1>2, <1>3

-----------------------------------------------------------------------------
(* The binary search of __allocate_consecutive(). *)

(* Multiples of the granularity are at most heap up to a largest one. *)
LEMMA Grains ==
  ASSUME NEW heap \in Nat
  PROVE  \E f \in Nat : \A g \in Nat : g * Granularity <= heap <=> g <= f
<1> DEFINE f == heap \div Granularity
<1>1. Granularity \in Nat \ {0}  BY AccountingAssumption
<1>2. f \in Nat /\ f * Granularity <= heap /\ heap < (f + 1) * Granularity
  BY <1>1
<1> HIDE DEF f
<1>3. ASSUME NEW g \in Nat PROVE g * Granularity <= heap <=> g <= f
  <2>1. CASE g <= f
    <3>1. PICK d \in Nat : f = g + d  BY <2>1, <1>2
    <3>2. f * Granularity = g * Granularity + d * Granularity  BY <3>1, <1>1
    <3>3. d * Granularity \in Nat /\ g * Granularity \in Nat  BY <1>1
    <3> QED  BY <3>2, <3>3, <2>1, <1>2
  <2>2. CASE g > f
    <3>1. PICK d \in Nat : g = (f + 1) + d  BY <2>2, <1>2
    <3>2. g * Granularity = (f + 1) * Granularity + d * Granularity  BY <3>1, <1>1, <1>2
    <3>3. d * Granularity \in Nat /\ (f + 1) * Granularity \in Nat  BY <1>1, <1>2
    <3> QED  BY <3>2, <3>3, <2>2, <1>2
  <2> QED  BY <2>1, <2>2, <1>2
<1> QED  BY <1>2, <1>3

LEMMA LargestIs ==
  ASSUME NEW high \in Nat, NEW heap \in Nat
  PROVE  LET r == LargestArray(high, heap)
         IN  /\ r \in 0 .. high /\ r * Granularity <= heap
             /\ \A g \in 0 .. high : g * Granularity <= heap => g <= r
<1> DEFINE D == Nat \X Nat \X Nat
           Search(f) == f = [x \in D |->
             LET low == x[1]
                 top == x[2]
                 mid == (low + top) \div 2
             IN  IF top < low THEN x[3]
                 ELSE IF mid * Granularity <= heap
                      THEN f[<<mid + 1, top, mid>>]
                      ELSE f[<<low, mid - 1, x[3]>>]]
           Go == CHOOSE f : Search(f)
           Found(f, low, top, best) ==
             IF top < low \/ f < low THEN best ELSE IF top <= f THEN top ELSE f
<1>1. LargestArray(high, heap) = IF high * Granularity <= heap THEN high ELSE Go[<<1, high, 0>>]
  BY DEF LargestArray
<1>2. PICK most \in Nat : \A g \in Nat : g * Granularity <= heap <=> g <= most  BY Grains
(* One round of the search, in numbers. *)
<1>3. ASSUME NEW low \in Nat, NEW top \in Nat, NEW best \in Nat, NEW mid \in Nat,
             low <= top, mid = (low + top) \div 2
      PROVE  /\ low <= mid /\ mid <= top
             /\ mid <= most =>
                  Found(most, mid + 1, top, mid) = Found(most, low, top, best)
             /\ ~(mid <= most) =>
                  /\ mid - 1 \in Nat
                  /\ Found(most, low, mid - 1, best) = Found(most, low, top, best)
  BY <1>3
<1> DEFINE Round(f, low, top, best) ==
             IF top < low THEN best
             ELSE IF ((low + top) \div 2) * Granularity <= heap
                  THEN f[<<((low + top) \div 2) + 1, top, (low + top) \div 2>>]
                  ELSE f[<<low, ((low + top) \div 2) - 1, best>>]
<1>4. \A f : Search(f) => \A low, top, best \in Nat :
                            f[<<low, top, best>>] = Round(f, low, top, best)
  <2> SUFFICES ASSUME NEW f, Search(f), NEW low \in Nat, NEW top \in Nat, NEW best \in Nat
               PROVE  f[<<low, top, best>>] = Round(f, low, top, best)
    OBVIOUS
  <2> DEFINE x == <<low, top, best>>
  <2>1. x \in D /\ x[1] = low /\ x[2] = top /\ x[3] = best  OBVIOUS
  <2>2. f[x] = Round(f, x[1], x[2], x[3])
    <3>1. x \in D  BY <2>1
    <3> HIDE DEF x
    <3> QED  BY <3>1
  <2> HIDE DEF x, Round
  <2> QED  BY <2>1, <2>2 DEF x
<1>5. \E f : Search(f)
  <2> DEFINE g == [x \in D |-> Found(most, x[1], x[2], x[3])]
  <2>1. \A low, top, best \in Nat : g[<<low, top, best>>] = Found(most, low, top, best)
    OBVIOUS
  <2> HIDE DEF g, Found
  <2>2. ASSUME NEW low \in Nat, NEW top \in Nat, NEW best \in Nat
        PROVE  Found(most, low, top, best) = Round(g, low, top, best)
    <3> DEFINE mid == (low + top) \div 2
    <3>1. CASE top < low  BY <3>1 DEF Found
    <3>2. CASE low <= top
      <4>1. /\ mid \in Nat
            /\ mid <= most => Found(most, mid + 1, top, mid) = Found(most, low, top, best)
            /\ ~(mid <= most) => mid - 1 \in Nat /\ Found(most, low, mid - 1, best) = Found(most, low, top, best)
        <5>1. mid \in Nat  OBVIOUS
        <5>2. mid = (low + top) \div 2  OBVIOUS
        <5> HIDE DEF mid
        <5> QED  BY <1>3, <3>2, <5>1, <5>2
      <4>2. mid * Granularity <= heap <=> mid <= most  BY <1>2, <4>1
      <4>3. ~(top < low) /\ mid + 1 \in Nat  BY <3>2, <4>1
      <4> HIDE DEF mid
      <4>4. Round(g, low, top, best) = IF mid * Granularity <= heap THEN g[<<mid + 1, top, mid>>]
                                       ELSE g[<<low, mid - 1, best>>]
        BY <4>3 DEF mid
      <4> HIDE DEF Round
      <4> QED  BY <2>1, <4>1, <4>2, <4>3, <4>4
    <3> QED  BY <3>1, <3>2
  <2>3. \A x \in D : g[x] = Round(g, x[1], x[2], x[3])
    <3> HIDE DEF Round
    <3> QED  BY <2>1, <2>2
  <2>4. g = [x \in D |-> Round(g, x[1], x[2], x[3])]
    <3>1. g = [x \in D |-> g[x]]  BY DEF g
    <3> HIDE DEF Round
    <3> QED  BY <2>3, <3>1
  <2>5. Search(g)  BY <2>4
  <2> QED  BY <2>5
<1>6. Search(Go)
  <2> HIDE DEF Search
  <2> QED  BY <1>5
<1>7. ASSUME NEW low \in Nat, NEW top \in Nat, NEW best \in Nat
      PROVE  Go[<<low, top, best>>] = Found(most, low, top, best)
  <2> DEFINE left(l, t) == IF t < l THEN 0 ELSE t - l + 1
             Bad == {n \in Nat : \E l, t, b \in Nat :
                       n = left(l, t) /\ Go[<<l, t, b>>] # Found(most, l, t, b)}
             R == OpToRel(<, Nat)
  <2> HIDE DEF Search, Go, Found
  <2>1. Bad = {} => Go[<<low, top, best>>] = Found(most, low, top, best)
    <3>1. left(low, top) \in Nat  OBVIOUS
    <3>2. Go[<<low, top, best>>] # Found(most, low, top, best) => left(low, top) \in Bad
      <4> HIDE DEF left
      <4> QED  BY <3>1
    <3> HIDE DEF left, Bad
    <3> QED  BY <3>2
  <2> SUFFICES ASSUME Bad # {} PROVE FALSE  BY <2>1
  <2>2. PICK n \in Bad : \A k \in Bad : ~(<<k, n>> \in R)
    <3>1. IsWellFoundedOn(R, Nat)  BY NatLessThanWellFounded
    <3>2. Bad \subseteq Nat  OBVIOUS
    <3> HIDE DEF Bad, R
    <3> QED  BY <3>1, <3>2, WFMin
  <2>3. PICK l, t, b \in Nat : n = left(l, t) /\ Go[<<l, t, b>>] # Found(most, l, t, b)
    OBVIOUS
  <2>4. \A k \in Nat : k < n => k \notin Bad  BY <2>2 DEF OpToRel
  <2>5. \A i, j, c \in Nat : left(i, j) < n => Go[<<i, j, c>>] = Found(most, i, j, c)
    <3> SUFFICES ASSUME NEW i \in Nat, NEW j \in Nat, NEW c \in Nat, left(i, j) < n
                 PROVE  Go[<<i, j, c>>] = Found(most, i, j, c)
      OBVIOUS
    <3>1. left(i, j) \in Nat  OBVIOUS
    <3>2. left(i, j) \notin Bad  BY <2>4, <3>1
    <3> HIDE DEF left
    <3> QED  BY <3>1, <3>2
  <2>6. Go[<<l, t, b>>] = Round(Go, l, t, b)  BY <1>4, <1>6
  <2>7. CASE t < l  BY <2>3, <2>6, <2>7 DEF Found
  <2>8. CASE l <= t
    <3> DEFINE mid == (l + t) \div 2
    <3>1. /\ mid \in Nat /\ l <= mid /\ mid <= t
          /\ mid <= most => Found(most, mid + 1, t, mid) = Found(most, l, t, b)
          /\ ~(mid <= most) => mid - 1 \in Nat /\ Found(most, l, mid - 1, b) = Found(most, l, t, b)
      <4>1. mid \in Nat /\ l \in Nat /\ t \in Nat /\ b \in Nat  BY <2>3
      <4>2. mid = (l + t) \div 2  OBVIOUS
      <4> HIDE DEF mid
      <4> QED  BY <1>3, <2>8, <4>1, <4>2
    <3>2. mid * Granularity <= heap <=> mid <= most  BY <1>2, <3>1
    <3>3. ~(t < l)  BY <2>8
    <3> HIDE DEF mid
    <3>4. Go[<<l, t, b>>] = IF mid * Granularity <= heap THEN Go[<<mid + 1, t, mid>>]
                            ELSE Go[<<l, mid - 1, b>>]
      BY <2>6, <3>3 DEF mid
    <3>5. n = t - l + 1  BY <2>3, <3>3
    <3>6. mid + 1 \in Nat /\ left(mid + 1, t) < n  BY <3>1, <3>5
    <3>7. mid - 1 \in Nat => left(l, mid - 1) < n  BY <3>1, <3>5
    <3> HIDE DEF left, Bad, Round
    <3> QED  BY <2>3, <2>5, <3>1, <3>2, <3>4, <3>6, <3>7
  <2>9. t < l \/ l <= t  OBVIOUS
  <2> QED  BY <2>7, <2>8, <2>9
<1> HIDE DEF Go
<1>8. Go[<<1, high, 0>>] = Found(most, 1, high, 0)  BY <1>7
<1>9. high * Granularity <= heap <=> high <= most  BY <1>2
<1>10. LargestArray(high, heap) = IF high <= most THEN high ELSE most
  BY <1>1, <1>8, <1>9
<1> DEFINE r == IF high <= most THEN high ELSE most
<1>11. r \in 0 .. high /\ r <= most /\ r \in Nat  OBVIOUS
<1>12. \A g \in 0 .. high : g * Granularity <= heap => g <= r  BY <1>2
<1>13. r * Granularity <= heap  BY <1>2, <1>11
<1> HIDE DEF r
<1> QED  BY <1>10, <1>11, <1>12, <1>13 DEF r

-----------------------------------------------------------------------------
(* The inductive invariant. *)

(* Where a thread is while it adds an allocation to the registry, while it    *)
(* removes one, and otherwise.                                               *)
AddingAt   == ToCount \cup {"add:bytes", "added"}
RemovingAt == ToUncount \cup {"remove:bytes", "removed"}
RestAt     == {"idle", "consecutive", "read:lock", "read:spin", "read"}
BusyAt     == AddingAt \cup RemovingAt

(* Where it is counted in the lock, where it is one of the readers that have *)
(* it, and where it has it alone.                                            *)
SharedAt  == {"add:find", "add:give_up", "add:count", "add:bytes", "added",
              "remove:find", "remove:bytes", "removed", "read"}
CountedAt == SharedAt \cup {"add:spin", "add:spin_again", "remove:spin", "read:spin"}
UniqueAt  == {"insert", "inserted"}

(* Where its type is known to have an entry. *)
KnownAt == {"inserted", "add:again", "add:spin_again", "add:count", "add:bytes", "added"}
             \cup RemovingAt

ThreadsAt(W) == {p \in Threads : at[p] \in W}

Blocks == [owner : Threads, n : Nat, type : AllTypes, bytes : Nat, asked : Nat, heap : Nat]

AccountTypes ==
  /\ limit \in Nat /\ used \in Nat /\ refused \in Nat /\ known \subseteq AllTypes
  /\ entry \in [AllTypes -> [count : Int, bytes : Int]]
  /\ at \in [Threads -> BusyAt \cup RestAt] /\ job \in [Threads -> Blocks]
  /\ live \in SUBSET Blocks /\ IsFiniteSet(live) /\ calls \in [Threads -> Nat]

(* The lock is had by one thread alone or by the readers, and counts those   *)
(* that have it or wait for it.                                              *)
LockInv ==
  \/ /\ ThreadsAt(UniqueAt) = {}
     /\ spin = Cardinality(ThreadsAt(CountedAt))
  \/ /\ \E p \in Threads : ThreadsAt(UniqueAt) = {p}
     /\ spin = Cardinality(ThreadsAt(CountedAt)) + Exclusive
     /\ ThreadsAt(SharedAt) = {}

(* What threads add is live, what they remove is not, and no two threads are *)
(* at the same allocation.                                                   *)
JobsInv ==
  /\ \A p \in ThreadsAt(AddingAt) : job[p] \in live
  /\ \A p \in ThreadsAt(RemovingAt) : job[p] \notin live
  /\ \A p, q \in ThreadsAt(BusyAt) : job[p] = job[q] => p = q
  /\ \A p \in ThreadsAt(KnownAt) : job[p].type \in known
  /\ \A t \in AllTypes \ known : entry[t].count = 0 /\ entry[t].bytes = 0

(* The next allocation of a thread is a new one. *)
Next_n(p) == IF at[p] = "consecutive" THEN calls[p] + 1 ELSE calls[p]

FreshInv ==
  \A p \in Threads :
    /\ \A b \in live : b.owner = p => b.n > Next_n(p)
    /\ \A q \in ThreadsAt(BusyAt) : job[q].owner = p => job[q].n > Next_n(p)

RawInv ==
  \A b \in live : b.type = Raw => b.bytes = LargestArray(b.asked, b.heap) * Granularity

UsageInv ==
  /\ used = BytesOf(live) + refused
  /\ enforce = "throw" /\ limit > 0 => BytesOf(live) <= limit

AccountInv ==
  /\ AccountTypes /\ LockInv /\ JobsInv /\ FreshInv /\ RawInv /\ UsageInv /\ EntriesExact

-----------------------------------------------------------------------------
(* Sets of threads. *)
LEMMA ThreadsFinite ==
  ASSUME NEW W
  PROVE  /\ IsFiniteSet(ThreadsAt(W)) /\ Cardinality(ThreadsAt(W)) \in Nat
         /\ Cardinality(ThreadsAt(W)) < Exclusive
         /\ Cardinality(ThreadsAt(W)) = 0 <=> ThreadsAt(W) = {}
<1>1. IsFiniteSet(Threads) /\ Exclusive \in Nat /\ Cardinality(Threads) < Exclusive
  BY AccountingAssumption
<1>2. ThreadsAt(W) \in SUBSET Threads  BY DEF ThreadsAt
<1>3. IsFiniteSet(ThreadsAt(W)) /\ Cardinality(ThreadsAt(W)) <= Cardinality(Threads)
  BY <1>1, <1>2, FS_Subset
<1>4. Cardinality(ThreadsAt(W)) \in Nat /\ Cardinality(Threads) \in Nat
  BY <1>1, <1>3, FS_CardinalityType
<1> QED  BY <1>1, <1>3, <1>4, FS_EmptySet

(* Where the threads are after one of them went on. *)
LEMMA ThreadGoes ==
  ASSUME AccountTypes, NEW p \in Threads, NEW to, at' = [at EXCEPT ![p] = to], NEW W
  PROVE  /\ ThreadsAt(W)' = IF to \in W THEN ThreadsAt(W) \cup {p} ELSE ThreadsAt(W) \ {p}
         /\ p \in ThreadsAt(W) <=> at[p] \in W
         /\ (to \in W <=> at[p] \in W) => ThreadsAt(W)' = ThreadsAt(W)
  BY DEF AccountTypes, ThreadsAt

(* The lock: one lemma for each kind of step. *)
LEMMA LockStays ==
  ASSUME AccountInv, NEW p \in Threads, NEW to, at' = [at EXCEPT ![p] = to], spin' = spin,
         to \in UniqueAt <=> at[p] \in UniqueAt, to \in CountedAt <=> at[p] \in CountedAt,
         to \in SharedAt => at[p] \in SharedAt \/ spin < Exclusive
  PROVE  LockInv'
<1>1. /\ ThreadsAt(UniqueAt)' = ThreadsAt(UniqueAt)
      /\ ThreadsAt(CountedAt)' = ThreadsAt(CountedAt)
  BY ThreadGoes DEF AccountInv
<1>2. CASE ThreadsAt(UniqueAt) = {}
  BY <1>1, <1>2 DEF AccountInv, LockInv
<1>3. CASE ThreadsAt(UniqueAt) # {}
  <2>1. /\ \E q \in Threads : ThreadsAt(UniqueAt) = {q}
        /\ spin = Cardinality(ThreadsAt(CountedAt)) + Exclusive
        /\ ThreadsAt(SharedAt) = {}
    BY <1>3 DEF AccountInv, LockInv
  <2>2. ~(spin < Exclusive)  BY <2>1, ThreadsFinite, AccountingAssumption
  <2>3. at[p] \notin SharedAt  BY <2>1, ThreadGoes DEF AccountInv
  <2>4. ThreadsAt(SharedAt)' = {}  BY <2>1, <2>2, <2>3, ThreadGoes DEF AccountInv
  <2> QED  BY <1>1, <2>1, <2>4 DEF LockInv
<1> QED  BY <1>2, <1>3

LEMMA LockCounts ==
  ASSUME AccountInv, NEW p \in Threads, NEW to, at' = [at EXCEPT ![p] = to],
         to \notin UniqueAt, at[p] \notin UniqueAt,
         \/ spin' = spin + 1 /\ to \in CountedAt \ SharedAt /\ at[p] \notin CountedAt
         \/ spin' = spin - 1 /\ to \notin CountedAt /\ at[p] \in CountedAt
  PROVE  LockInv'
<1> DEFINE C == ThreadsAt(CountedAt)
<1>1. ThreadsAt(UniqueAt)' = ThreadsAt(UniqueAt)  BY ThreadGoes DEF AccountInv
<1>2. IsFiniteSet(C) /\ Cardinality(C) \in Nat /\ Exclusive \in Nat
  BY ThreadsFinite, AccountingAssumption
<1>3. C' = (IF to \in CountedAt THEN C \cup {p} ELSE C \ {p}) /\ (p \in C <=> at[p] \in CountedAt)
  BY ThreadGoes DEF AccountInv
<1>4. Cardinality(C') = Cardinality(C) + (spin' - spin) /\ spin \in Int
  <2>1. spin \in Int  BY <1>2 DEF AccountInv, LockInv
  <2>2. CASE to \in CountedAt
    <3>1. C' = C \cup {p} /\ p \notin C /\ spin' = spin + 1  BY <1>3, <2>2
    <3>2. Cardinality(C') = Cardinality(C) + 1  BY <1>2, <3>1, FS_AddElement
    <3> QED  BY <2>1, <3>1, <3>2, <1>2
  <2>3. CASE to \notin CountedAt
    <3>1. C' = C \ {p} /\ p \in C /\ spin' = spin - 1  BY <1>3, <2>3
    <3>2. Cardinality(C') = Cardinality(C) - 1  BY <1>2, <3>1, FS_RemoveElement
    <3> QED  BY <2>1, <3>1, <3>2, <1>2
  <2> QED  BY <2>2, <2>3
<1>5. spin' \in Int  BY <1>4
<1>6. SharedAt \subseteq CountedAt  BY DEF CountedAt
<1>7. ThreadsAt(SharedAt)' \subseteq ThreadsAt(SharedAt)
  <2>1. to \notin SharedAt  BY <1>6
  <2>2. ThreadsAt(SharedAt)' = ThreadsAt(SharedAt) \ {p}
    BY <2>1, ThreadGoes DEF AccountInv
  <2> QED  BY <2>2
<1>8. CASE ThreadsAt(UniqueAt) = {}
  <2>1. spin = Cardinality(C)  BY <1>8 DEF AccountInv, LockInv
  <2>2. spin' = Cardinality(C')  BY <1>2, <1>4, <1>5, <2>1
  <2> QED  BY <1>1, <1>8, <2>2 DEF LockInv
<1>9. CASE ThreadsAt(UniqueAt) # {}
  <2>1. /\ \E q \in Threads : ThreadsAt(UniqueAt) = {q}
        /\ spin = Cardinality(C) + Exclusive /\ ThreadsAt(SharedAt) = {}
    BY <1>9 DEF AccountInv, LockInv
  <2>2. spin' = Cardinality(C') + Exclusive  BY <1>2, <1>4, <1>5, <2>1
  <2> QED  BY <1>1, <1>7, <2>1, <2>2 DEF LockInv
<1> QED  BY <1>8, <1>9

LEMMA LockTaken ==
  ASSUME AccountInv, NEW p \in Threads, NEW to \in UniqueAt, at' = [at EXCEPT ![p] = to],
         at[p] \notin CountedAt, spin = 0, spin' = Exclusive
  PROVE  LockInv'
<1>1. ThreadsAt(UniqueAt) = {} /\ ThreadsAt(CountedAt) = {}
  BY ThreadsFinite, AccountingAssumption DEF AccountInv, LockInv
<1>2. to \notin CountedAt /\ to \notin SharedAt /\ SharedAt \subseteq CountedAt
  BY DEF UniqueAt, CountedAt, SharedAt
<1>3. /\ ThreadsAt(UniqueAt)' = {p} /\ ThreadsAt(CountedAt)' = {}
      /\ ThreadsAt(SharedAt)' = ThreadsAt(SharedAt) \ {p}
  BY <1>1, <1>2, ThreadGoes DEF AccountInv
<1>4. ThreadsAt(SharedAt)' = {}  BY <1>1, <1>2, <1>3 DEF ThreadsAt
<1>5. Cardinality(ThreadsAt(CountedAt)') = 0  BY <1>3, FS_EmptySet
<1> QED  BY <1>3, <1>4, <1>5, AccountingAssumption DEF LockInv

LEMMA LockLeft ==
  ASSUME AccountInv, NEW p \in Threads, at[p] \in UniqueAt, NEW to, at' = [at EXCEPT ![p] = to],
         to \notin CountedAt, to \notin UniqueAt, spin' = spin - Exclusive
  PROVE  LockInv'
<1>1. at[p] \notin CountedAt  BY DEF UniqueAt, CountedAt, SharedAt
<1>2. p \in ThreadsAt(UniqueAt)  BY ThreadGoes DEF AccountInv
<1>3. ThreadsAt(UniqueAt) = {p} /\ spin = Cardinality(ThreadsAt(CountedAt)) + Exclusive
  BY <1>2 DEF AccountInv, LockInv
<1>4. ThreadsAt(UniqueAt)' = {} /\ ThreadsAt(CountedAt)' = ThreadsAt(CountedAt)
  BY <1>1, <1>3, ThreadGoes DEF AccountInv
<1>5. spin' = Cardinality(ThreadsAt(CountedAt))
  BY <1>3, ThreadsFinite, AccountingAssumption
<1> QED  BY <1>4, <1>5 DEF LockInv

-----------------------------------------------------------------------------
(* A step within register_typed_allocation() and its relatives: the           *)
(* allocations and the usage stay what they are.                             *)
LEMMA Moves ==
  ASSUME AccountInv, NEW p \in Threads, NEW to \in (BusyAt \cup RestAt) \ {"consecutive"},
         at[p] # "consecutive", at' = [at EXCEPT ![p] = to], UNCHANGED Others,
         to \in AddingAt => at[p] \in AddingAt, to \in RemovingAt => at[p] \in RemovingAt,
         known' \in SUBSET AllTypes, known \subseteq known',
         entry' \in [AllTypes -> [count : Int, bytes : Int]],
         \A t \in AllTypes \ known' : entry'[t].count = 0 /\ entry'[t].bytes = 0,
         to \in KnownAt => at[p] \in KnownAt \/ Type(p) \in known'
  PROVE  AccountTypes' /\ JobsInv' /\ FreshInv' /\ RawInv' /\ UsageInv'
<1>1. /\ limit' = limit /\ used' = used /\ job' = job /\ live' = live
      /\ refused' = refused /\ calls' = calls /\ enforce' = enforce
  BY DEF Others
<1>2. AccountTypes'  BY <1>1 DEF AccountInv, AccountTypes
<1>3. \A W : ThreadsAt(W)' \subseteq ThreadsAt(W) \cup {p} /\ (to \notin W => p \notin ThreadsAt(W)')
  BY DEF ThreadsAt, AccountInv, AccountTypes
<1>4. \A W : p \in ThreadsAt(W) <=> at[p] \in W  BY DEF ThreadsAt
<1>5. ThreadsAt(AddingAt)' \subseteq ThreadsAt(AddingAt)  BY <1>3, <1>4
<1>6. ThreadsAt(RemovingAt)' \subseteq ThreadsAt(RemovingAt)  BY <1>3, <1>4
<1>7. ThreadsAt(BusyAt)' \subseteq ThreadsAt(BusyAt)
  BY <1>3, <1>4 DEF BusyAt
<1>8. \A q \in ThreadsAt(KnownAt)' : job[q].type \in known'
  BY <1>3, <1>4 DEF Type, AccountInv, JobsInv
<1>9. JobsInv'
  BY <1>1, <1>5, <1>6, <1>7, <1>8 DEF AccountInv, JobsInv
<1>10. \A q \in Threads : Next_n(q)' = Next_n(q)
  BY <1>1 DEF Next_n, AccountInv, AccountTypes
<1>11. FreshInv'  BY <1>1, <1>7, <1>10 DEF AccountInv, FreshInv
<1>12. RawInv' /\ UsageInv'  BY <1>1 DEF AccountInv, RawInv, UsageInv
<1> QED  BY <1>2, <1>9, <1>11, <1>12

(* EntriesExact as a statement about the places and the allocations of the   *)
(* threads, the live allocations, the entries and the types that are known.  *)
InTransit(a, j, t, W) == {j[p] : p \in {q \in Threads : a[q] \in W /\ j[q].type = t}}
OfType(l, t) == {b \in l : b.type = t}

CountIs(a, j, l, e, t) ==
  e[t].count + Cardinality(InTransit(a, j, t, ToCount))
    = Cardinality(OfType(l, t)) + Cardinality(InTransit(a, j, t, ToUncount))

BytesAre(a, j, l, e, t) ==
  e[t].bytes + BytesOf(InTransit(a, j, t, ToCount \cup {"add:bytes"}))
    = BytesOf(OfType(l, t)) + BytesOf(InTransit(a, j, t, ToUncount \cup {"remove:bytes"}))

KnownIs(a, j, l, k, t) == OfType(l, t) \ InTransit(a, j, t, ToCount) # {} => t \in k

LEMMA EntriesAre ==
  /\ EntriesExact <=> \A t \in AllTypes : /\ CountIs(at, job, live, entry, t)
                                          /\ BytesAre(at, job, live, entry, t)
                                          /\ KnownIs(at, job, live, known, t)
  /\ EntriesExact' <=> \A t \in AllTypes : /\ CountIs(at', job', live', entry', t)
                                           /\ BytesAre(at', job', live', entry', t)
                                           /\ KnownIs(at', job', live', known', t)
  BY DEF EntriesExact, NotCounted, LiveOf, CountIs, BytesAre, KnownIs, InTransit, OfType

Steps(a, b, p, to) == b = [a EXCEPT ![p] = to]

(* What is on its way into or out of an entry, after such a step. *)
LEMMA Transit ==
  ASSUME AccountInv, NEW p \in Threads, NEW to, Steps(at, at', p, to),
         NEW t, NEW W, W \subseteq BusyAt
  PROVE  /\ (to \in W <=> at[p] \in W) => InTransit(at', job, t, W) = InTransit(at, job, t, W)
         /\ job[p].type # t => InTransit(at', job, t, W) = InTransit(at, job, t, W)
         /\ at[p] \in W /\ to \notin W /\ job[p].type = t =>
              /\ InTransit(at', job, t, W) = InTransit(at, job, t, W) \ {job[p]}
              /\ job[p] \in InTransit(at, job, t, W)
<1> DEFINE A == {q \in Threads : at[q] \in W /\ job[q].type = t}
           B == {q \in Threads : at'[q] \in W /\ job[q].type = t}
<1>1. InTransit(at, job, t, W) = {job[q] : q \in A} /\ InTransit(at', job, t, W) = {job[q] : q \in B}
  BY DEF InTransit
<1>2. \A q \in Threads : q # p => (q \in B <=> q \in A)
  BY DEF AccountInv, AccountTypes, Steps
<1>3. p \in B <=> to \in W /\ job[p].type = t  BY DEF AccountInv, AccountTypes, Steps
<1>4. p \in A <=> at[p] \in W /\ job[p].type = t  OBVIOUS
<1>5. A \subseteq ThreadsAt(BusyAt) /\ B \subseteq Threads /\ A \subseteq Threads
  BY DEF ThreadsAt
<1> HIDE DEF A, B
<1>6. ASSUME to \in W <=> at[p] \in W PROVE B = A  BY <1>2, <1>3, <1>4, <1>5, <1>6
<1>7. ASSUME job[p].type # t PROVE B = A  BY <1>2, <1>3, <1>4, <1>5, <1>7
<1>8. ASSUME at[p] \in W, to \notin W, job[p].type = t PROVE B = A \ {p} /\ p \in A
  BY <1>2, <1>3, <1>4, <1>5, <1>8
<1>9. \A q \in A : p \in A /\ job[q] = job[p] => q = p
  BY <1>5 DEF AccountInv, JobsInv
<1> QED  BY <1>1, <1>6, <1>7, <1>8, <1>9

(* ... and after a step that begins with another allocation. *)
LEMMA TransitBegins ==
  ASSUME AccountInv, NEW p \in Threads, NEW to, Steps(at, at', p, to),
         at[p] \notin BusyAt, NEW b, Steps(job, job', p, b),
         NEW t, NEW W, W \subseteq BusyAt
  PROVE  /\ to \in W /\ b.type = t =>
              InTransit(at', job', t, W) = InTransit(at, job, t, W) \cup {b}
         /\ to \notin W \/ b.type # t => InTransit(at', job', t, W) = InTransit(at, job, t, W)
<1> DEFINE A == {q \in Threads : at[q] \in W /\ job[q].type = t}
           B == {q \in Threads : at'[q] \in W /\ job'[q].type = t}
<1>1. /\ InTransit(at, job, t, W) = {job[q] : q \in A}
      /\ InTransit(at', job', t, W) = {job'[q] : q \in B}
  BY DEF InTransit
<1>2. \A q \in Threads : q # p => (q \in B <=> q \in A) /\ job'[q] = job[q]
  BY DEF AccountInv, AccountTypes, Steps
<1>3. (p \in B <=> to \in W /\ b.type = t) /\ job'[p] = b  BY DEF AccountInv, AccountTypes, Steps
<1>4. p \notin A /\ A \subseteq Threads /\ B \subseteq Threads  OBVIOUS
<1> HIDE DEF A, B
<1>5. ASSUME to \in W /\ b.type = t
      PROVE  InTransit(at', job', t, W) = InTransit(at, job, t, W) \cup {b}
  <2>1. B = A \cup {p}  BY <1>2, <1>3, <1>4, <1>5
  <2>2. \A q \in A : job'[q] = job[q]  BY <1>2, <1>4
  <2> QED  BY <1>1, <1>3, <2>1, <2>2
<1>6. ASSUME to \notin W \/ b.type # t
      PROVE  InTransit(at', job', t, W) = InTransit(at, job, t, W)
  <2>1. B = A  BY <1>2, <1>3, <1>4, <1>6
  <2>2. \A q \in A : job'[q] = job[q]  BY <1>2, <1>4
  <2> QED  BY <1>1, <2>1, <2>2
<1> QED  BY <1>5, <1>6

LEMMA SumIsNat ==
  ASSUME NEW S, IsFiniteSet(S), S \subseteq Blocks
  PROVE  Cardinality(S) \in Nat /\ BytesOf(S) \in Nat /\ \A b \in S : b.bytes \in Nat
<1>1. \A b \in S : b.bytes \in Nat  BY DEF Blocks
<1>2. BytesOf(S) \in Nat
  <2>1. CASE S = {}  BY <2>1, BytesOfEmpty
  <2>2. CASE S # {}
    <3>1. PICK b \in S : TRUE  BY <2>2
    <3>2. S = S \cup {b}  OBVIOUS
    <3> QED  BY <1>1, <3>2, BytesOfMore
  <2> QED  BY <2>1, <2>2
<1> QED  BY <1>1, <1>2, FS_CardinalityType

LEMMA TransitFinite ==
  ASSUME AccountInv, NEW t, NEW W
  PROVE  LET N == InTransit(at, job, t, W)
         IN  /\ IsFiniteSet(N) /\ N \subseteq Blocks /\ \A b \in N : b.bytes \in Nat
             /\ Cardinality(N) \in Nat /\ BytesOf(N) \in Nat
<1> DEFINE Q == {q \in Threads : at[q] \in W /\ job[q].type = t}
           N == InTransit(at, job, t, W)
           f == [q \in Q |-> job[q]]
<1>1. N = {job[q] : q \in Q}  BY DEF InTransit
<1>2. IsFiniteSet(Q)
  <2>1. Q \in SUBSET Threads  OBVIOUS
  <2> QED  BY <2>1, AccountingAssumption, FS_Subset
<1>3. f \in Surjection(Q, N)  BY <1>1 DEF Surjection
<1>4. N \subseteq Blocks  BY <1>1 DEF AccountInv, AccountTypes
<1> HIDE DEF N, Q, f
<1>5. IsFiniteSet(N)  BY <1>2, <1>3, FS_Surjection
<1> QED  BY <1>4, <1>5, SumIsNat DEF N

LEMMA LiveFinite ==
  ASSUME AccountInv, NEW t
  PROVE  /\ IsFiniteSet(OfType(live, t)) /\ Cardinality(OfType(live, t)) \in Nat
         /\ \A b \in OfType(live, t) : b.bytes \in Nat
         /\ BytesOf(OfType(live, t)) \in Nat
<1>1. OfType(live, t) \in SUBSET live /\ IsFiniteSet(live) /\ OfType(live, t) \subseteq Blocks
  BY DEF OfType, AccountInv, AccountTypes
<1>2. IsFiniteSet(OfType(live, t))  BY <1>1, FS_Subset
<1> QED  BY <1>1, <1>2, SumIsNat

(* The entries, when the step is on one side of the changes. *)
SameSide(from, to) ==
  \/ {from, to} \subseteq ToCount
  \/ {from, to} \subseteq ToUncount
  \/ {from, to} \cap (ToCount \cup {"add:bytes"} \cup ToUncount \cup {"remove:bytes"}) = {}

LEMMA EntriesStay ==
  ASSUME AccountInv, NEW p \in Threads, NEW to, Steps(at, at', p, to),
         job' = job, live' = live, entry' = entry, known \subseteq known', SameSide(at[p], to)
  PROVE  EntriesExact'
<1>1. ASSUME NEW t, NEW W, W \subseteq BusyAt, to \in W <=> at[p] \in W
      PROVE  InTransit(at', job', t, W) = InTransit(at, job, t, W)
  BY <1>1, Transit
<1>2. /\ to \in ToCount <=> at[p] \in ToCount
      /\ to \in ToUncount <=> at[p] \in ToUncount
      /\ to \in ToCount \cup {"add:bytes"} <=> at[p] \in ToCount \cup {"add:bytes"}
      /\ to \in ToUncount \cup {"remove:bytes"} <=> at[p] \in ToUncount \cup {"remove:bytes"}
  BY DEF SameSide, ToCount, ToUncount
<1>3. /\ ToCount \subseteq BusyAt /\ ToCount \cup {"add:bytes"} \subseteq BusyAt
      /\ ToUncount \subseteq BusyAt /\ ToUncount \cup {"remove:bytes"} \subseteq BusyAt
  BY DEF BusyAt, AddingAt, RemovingAt
<1>4. ASSUME NEW t \in AllTypes
      PROVE  /\ CountIs(at', job', live', entry', t)
             /\ BytesAre(at', job', live', entry', t)
             /\ KnownIs(at', job', live', known', t)
  <2>1. InTransit(at', job', t, ToCount) = InTransit(at, job, t, ToCount)
    BY <1>1, <1>2, <1>3
  <2>2. InTransit(at', job', t, ToUncount) = InTransit(at, job, t, ToUncount)
    BY <1>1, <1>2, <1>3
  <2>3. InTransit(at', job', t, ToCount \cup {"add:bytes"})
          = InTransit(at, job, t, ToCount \cup {"add:bytes"})
    BY <1>1, <1>2, <1>3
  <2>4. InTransit(at', job', t, ToUncount \cup {"remove:bytes"})
          = InTransit(at, job, t, ToUncount \cup {"remove:bytes"})
    BY <1>1, <1>2, <1>3
  <2>5. /\ CountIs(at, job, live, entry, t)
        /\ BytesAre(at, job, live, entry, t)
        /\ KnownIs(at, job, live, known, t)
    BY EntriesAre DEF AccountInv
  <2>6. CountIs(at', job', live', entry', t)  BY <2>1, <2>2, <2>5 DEF CountIs
  <2>7. BytesAre(at', job', live', entry', t)  BY <2>3, <2>4, <2>5 DEF BytesAre
  <2>8. KnownIs(at', job', live', known', t)  BY <2>1, <2>5 DEF KnownIs
  <2> QED  BY <2>6, <2>7, <2>8
<1> QED  BY <1>4, EntriesAre

(* One thread fewer is on its way. *)
LEMMA TransitLess ==
  ASSUME AccountInv, NEW p \in Threads, NEW to, Steps(at, at', p, to), job' = job,
         NEW W, W \subseteq BusyAt, at[p] \in W, to \notin W
  PROVE  LET N == InTransit(at, job, job[p].type, W)
             M == InTransit(at', job', job[p].type, W)
         IN  /\ Cardinality(M) = Cardinality(N) - 1 /\ BytesOf(M) = BytesOf(N) - job[p].bytes
             /\ M = N \ {job[p]}
<1> DEFINE t == job[p].type
           N == InTransit(at, job, t, W)
           M == InTransit(at', job', t, W)
<1>1. M = N \ {job[p]} /\ job[p] \in N  BY Transit
<1>2. IsFiniteSet(N) /\ \A b \in N : b.bytes \in Nat  BY TransitFinite
<1> HIDE DEF M, N
<1>3. Cardinality(N \ {job[p]}) = Cardinality(N) - 1  BY <1>1, <1>2, FS_RemoveElement
<1>4. BytesOf(N \ {job[p]}) = BytesOf(N) - job[p].bytes  BY <1>1, <1>2, BytesOfLess
<1> QED  BY <1>1, <1>3, <1>4 DEF M, N

LEMMA TransitSame ==
  ASSUME AccountInv, NEW p \in Threads, NEW to, Steps(at, at', p, to), job' = job,
         NEW t, NEW W, W \subseteq BusyAt, (to \in W <=> at[p] \in W) \/ t # job[p].type
  PROVE  InTransit(at', job', t, W) = InTransit(at, job, t, W)
BY Transit

LEMMA AllBusy ==
  /\ ToCount \subseteq BusyAt /\ ToCount \cup {"add:bytes"} \subseteq BusyAt
  /\ ToUncount \subseteq BusyAt /\ ToUncount \cup {"remove:bytes"} \subseteq BusyAt
BY DEF BusyAt, AddingAt, RemovingAt

(* The four changes of an entry. *)
LEMMA EntriesAddCount ==
  ASSUME AccountInv, NEW p \in Threads, at[p] = "add:count", Steps(at, at', p, "add:bytes"),
         job' = job, live' = live, known' = known,
         entry' = [entry EXCEPT ![job[p].type].count = @ + 1]
  PROVE  EntriesExact'
<1>1. /\ at[p] \in ToCount /\ "add:bytes" \notin ToCount
      /\ at[p] \notin ToUncount /\ "add:bytes" \notin ToUncount
      /\ at[p] \in ToCount \cup {"add:bytes"} /\ "add:bytes" \in ToCount \cup {"add:bytes"}
      /\ at[p] \notin ToUncount \cup {"remove:bytes"}
      /\ "add:bytes" \notin ToUncount \cup {"remove:bytes"}
  BY DEF ToCount, ToUncount
<1>2. ASSUME NEW t \in AllTypes
      PROVE  /\ CountIs(at', job', live', entry', t)
             /\ BytesAre(at', job', live', entry', t)
             /\ KnownIs(at', job', live', known', t)
  <2> DEFINE N == InTransit(at, job, t, ToCount)
             M == InTransit(at', job', t, ToCount)
  <2>1. /\ CountIs(at, job, live, entry, t)
        /\ BytesAre(at, job, live, entry, t)
        /\ KnownIs(at, job, live, known, t)
    BY EntriesAre DEF AccountInv
  <2>2. InTransit(at', job', t, ToUncount) = InTransit(at, job, t, ToUncount)
    BY <1>1, AllBusy, TransitSame
  <2>3. InTransit(at', job', t, ToCount \cup {"add:bytes"})
          = InTransit(at, job, t, ToCount \cup {"add:bytes"})
    BY <1>1, AllBusy, TransitSame
  <2>4. InTransit(at', job', t, ToUncount \cup {"remove:bytes"})
          = InTransit(at, job, t, ToUncount \cup {"remove:bytes"})
    BY <1>1, AllBusy, TransitSame
  <2>5. /\ entry'[t].bytes = entry[t].bytes
        /\ entry'[t].count = IF t = job[p].type THEN entry[t].count + 1 ELSE entry[t].count
        /\ entry[t].count \in Int
    BY DEF AccountInv, AccountTypes
  <2>6. BytesAre(at', job', live', entry', t)
    BY <2>1, <2>3, <2>4, <2>5 DEF BytesAre
  <2>7. t # job[p].type => M = N  BY AllBusy, TransitSame
  <2>8. t = job[p].type => Cardinality(M) = Cardinality(N) - 1 /\ M = N \ {job[p]}
    BY <1>1, AllBusy, TransitLess
  <2>9. Cardinality(N) \in Nat  BY TransitFinite
  <2>10. entry'[t].count + Cardinality(M) = entry[t].count + Cardinality(N)
    <3> HIDE DEF M, N
    <3> QED  BY <2>5, <2>7, <2>8, <2>9
  <2>11. CountIs(at', job', live', entry', t)  BY <2>1, <2>2, <2>10 DEF CountIs
  <2>12. job[p].type \in known
    <3>1. p \in ThreadsAt(KnownAt)  BY DEF ThreadsAt, KnownAt
    <3> QED  BY <3>1 DEF AccountInv, JobsInv
  <2>13. KnownIs(at', job', live', known', t)
    <3>1. CASE t = job[p].type  BY <3>1, <2>12 DEF KnownIs
    <3>2. CASE t # job[p].type  BY <3>2, <2>1, <2>7 DEF KnownIs
    <3> QED  BY <3>1, <3>2
  <2> QED  BY <2>6, <2>11, <2>13
<1> QED  BY <1>2, EntriesAre

LEMMA EntriesAddBytes ==
  ASSUME AccountInv, NEW p \in Threads, at[p] = "add:bytes", Steps(at, at', p, "added"),
         job' = job, live' = live, known' = known,
         entry' = [entry EXCEPT ![job[p].type].bytes = @ + job[p].bytes]
  PROVE  EntriesExact'
<1> DEFINE W == ToCount \cup {"add:bytes"}
<1>1. /\ at[p] \in W /\ "added" \notin W
      /\ at[p] \notin ToCount /\ "added" \notin ToCount
      /\ at[p] \notin ToUncount /\ "added" \notin ToUncount
      /\ at[p] \notin ToUncount \cup {"remove:bytes"}
      /\ "added" \notin ToUncount \cup {"remove:bytes"}
  BY DEF ToCount, ToUncount
<1>2. ASSUME NEW t \in AllTypes
      PROVE  /\ CountIs(at', job', live', entry', t)
             /\ BytesAre(at', job', live', entry', t)
             /\ KnownIs(at', job', live', known', t)
  <2> DEFINE N == InTransit(at, job, t, W)
             M == InTransit(at', job', t, W)
  <2>1. /\ CountIs(at, job, live, entry, t)
        /\ BytesAre(at, job, live, entry, t)
        /\ KnownIs(at, job, live, known, t)
    BY EntriesAre DEF AccountInv
  <2>2. InTransit(at', job', t, ToUncount) = InTransit(at, job, t, ToUncount)
    BY <1>1, AllBusy, TransitSame
  <2>3. InTransit(at', job', t, ToCount) = InTransit(at, job, t, ToCount)
    BY <1>1, AllBusy, TransitSame
  <2>4. InTransit(at', job', t, ToUncount \cup {"remove:bytes"})
          = InTransit(at, job, t, ToUncount \cup {"remove:bytes"})
    BY <1>1, AllBusy, TransitSame
  <2>5. /\ entry'[t].count = entry[t].count
        /\ entry'[t].bytes = IF t = job[p].type THEN entry[t].bytes + job[p].bytes
                             ELSE entry[t].bytes
        /\ entry[t].bytes \in Int /\ job[p].bytes \in Nat
    BY DEF AccountInv, AccountTypes, Blocks
  <2>6. CountIs(at', job', live', entry', t) /\ KnownIs(at', job', live', known', t)
    BY <2>1, <2>2, <2>3, <2>5 DEF CountIs, KnownIs
  <2>7. t # job[p].type => M = N  BY AllBusy, TransitSame
  <2>8. t = job[p].type => BytesOf(M) = BytesOf(N) - job[p].bytes
    BY <1>1, AllBusy, TransitLess
  <2>9. BytesOf(N) \in Nat  BY TransitFinite
  <2>10. entry'[t].bytes + BytesOf(M) = entry[t].bytes + BytesOf(N)
    <3> HIDE DEF M, N
    <3> QED  BY <2>5, <2>7, <2>8, <2>9
  <2>11. BytesAre(at', job', live', entry', t)  BY <2>1, <2>4, <2>10 DEF BytesAre
  <2> QED  BY <2>6, <2>11
<1> QED  BY <1>2, EntriesAre

LEMMA EntriesRemoveCount ==
  ASSUME AccountInv, NEW p \in Threads, at[p] = "remove:find", Steps(at, at', p, "remove:bytes"),
         job' = job, live' = live, known' = known,
         entry' = [entry EXCEPT ![job[p].type].count = @ - 1]
  PROVE  EntriesExact'
<1>1. /\ at[p] \notin ToCount /\ "remove:bytes" \notin ToCount
      /\ at[p] \in ToUncount /\ "remove:bytes" \notin ToUncount
      /\ at[p] \notin ToCount \cup {"add:bytes"}
      /\ "remove:bytes" \notin ToCount \cup {"add:bytes"}
      /\ at[p] \in ToUncount \cup {"remove:bytes"}
      /\ "remove:bytes" \in ToUncount \cup {"remove:bytes"}
  BY DEF ToCount, ToUncount
<1>2. ASSUME NEW t \in AllTypes
      PROVE  /\ CountIs(at', job', live', entry', t)
             /\ BytesAre(at', job', live', entry', t)
             /\ KnownIs(at', job', live', known', t)
  <2> DEFINE N == InTransit(at, job, t, ToUncount)
             M == InTransit(at', job', t, ToUncount)
  <2>1. /\ CountIs(at, job, live, entry, t)
        /\ BytesAre(at, job, live, entry, t)
        /\ KnownIs(at, job, live, known, t)
    BY EntriesAre DEF AccountInv
  <2>2. InTransit(at', job', t, ToCount) = InTransit(at, job, t, ToCount)
    BY <1>1, AllBusy, TransitSame
  <2>3. InTransit(at', job', t, ToCount \cup {"add:bytes"})
          = InTransit(at, job, t, ToCount \cup {"add:bytes"})
    BY <1>1, AllBusy, TransitSame
  <2>4. InTransit(at', job', t, ToUncount \cup {"remove:bytes"})
          = InTransit(at, job, t, ToUncount \cup {"remove:bytes"})
    BY <1>1, AllBusy, TransitSame
  <2>5. /\ entry'[t].bytes = entry[t].bytes
        /\ entry'[t].count = IF t = job[p].type THEN entry[t].count - 1 ELSE entry[t].count
        /\ entry[t].count \in Int
    BY DEF AccountInv, AccountTypes
  <2>6. BytesAre(at', job', live', entry', t) /\ KnownIs(at', job', live', known', t)
    BY <2>1, <2>2, <2>3, <2>4, <2>5 DEF BytesAre, KnownIs
  <2>7. t # job[p].type => M = N  BY AllBusy, TransitSame
  <2>8. t = job[p].type => Cardinality(M) = Cardinality(N) - 1
    BY <1>1, AllBusy, TransitLess
  <2>9. /\ Cardinality(N) \in Nat /\ Cardinality(OfType(live, t)) \in Nat
        /\ Cardinality(InTransit(at, job, t, ToCount)) \in Nat
    BY TransitFinite, LiveFinite
  <2>10. entry'[t].count - entry[t].count = Cardinality(M) - Cardinality(N)
         /\ entry'[t].count \in Int /\ Cardinality(M) \in Int
    <3> HIDE DEF M, N
    <3> QED  BY <2>5, <2>7, <2>8, <2>9
  <2>11. entry[t].count + Cardinality(InTransit(at, job, t, ToCount))
           = Cardinality(OfType(live, t)) + Cardinality(N)
    BY <2>1 DEF CountIs
  <2>12. entry'[t].count + Cardinality(InTransit(at, job, t, ToCount))
           = Cardinality(OfType(live, t)) + Cardinality(M)
    <3> HIDE DEF M, N
    <3> QED  BY <2>5, <2>9, <2>10, <2>11
  <2>13. CountIs(at', job', live', entry', t)  BY <2>2, <2>12 DEF CountIs
  <2> QED  BY <2>6, <2>13
<1> QED  BY <1>2, EntriesAre

LEMMA EntriesRemoveBytes ==
  ASSUME AccountInv, NEW p \in Threads, at[p] = "remove:bytes", Steps(at, at', p, "removed"),
         job' = job, live' = live, known' = known,
         entry' = [entry EXCEPT ![job[p].type].bytes = @ - job[p].bytes]
  PROVE  EntriesExact'
<1>1. /\ at[p] \in ToUncount \cup {"remove:bytes"}
      /\ "removed" \notin ToUncount \cup {"remove:bytes"}
      /\ "removed" \in ToCount <=> at[p] \in ToCount
      /\ "removed" \in ToUncount <=> at[p] \in ToUncount
      /\ "removed" \in ToCount \cup {"add:bytes"} <=> at[p] \in ToCount \cup {"add:bytes"}
  BY DEF ToCount, ToUncount
<1>2. ASSUME NEW t \in AllTypes
      PROVE  /\ CountIs(at', job', live', entry', t)
             /\ BytesAre(at', job', live', entry', t)
             /\ KnownIs(at', job', live', known', t)
  <2>1. /\ CountIs(at, job, live, entry, t)
        /\ BytesAre(at, job, live, entry, t)
        /\ KnownIs(at, job, live, known, t)
    BY EntriesAre DEF AccountInv
  <2>2. InTransit(at', job', t, ToUncount) = InTransit(at, job, t, ToUncount)
    BY <1>1, AllBusy, TransitSame
  <2>3. InTransit(at', job', t, ToCount) = InTransit(at, job, t, ToCount)
    BY <1>1, AllBusy, TransitSame
  <2>4. InTransit(at', job', t, ToCount \cup {"add:bytes"})
          = InTransit(at, job, t, ToCount \cup {"add:bytes"})
    BY <1>1, AllBusy, TransitSame
  <2>5. /\ entry'[t].count = entry[t].count
        /\ entry'[t].bytes = IF t = job[p].type THEN entry[t].bytes - job[p].bytes
                             ELSE entry[t].bytes
        /\ entry[t].bytes \in Int /\ job[p].bytes \in Nat
    BY DEF AccountInv, AccountTypes, Blocks
  <2>6. CountIs(at', job', live', entry', t) /\ KnownIs(at', job', live', known', t)
    BY <2>1, <2>2, <2>3, <2>5 DEF CountIs, KnownIs
  <2> DEFINE W == ToUncount \cup {"remove:bytes"}
             N == InTransit(at, job, t, W)
             M == InTransit(at', job', t, W)
             C == InTransit(at, job, t, ToCount \cup {"add:bytes"})
  <2>7. t # job[p].type => M = N  BY AllBusy, TransitSame
  <2>8. t = job[p].type => BytesOf(M) = BytesOf(N) - job[p].bytes
    BY <1>1, AllBusy, TransitLess
  <2>9. BytesOf(N) \in Nat /\ BytesOf(OfType(live, t)) \in Nat /\ BytesOf(C) \in Nat
    BY TransitFinite, LiveFinite
  <2>10. entry[t].bytes + BytesOf(C) = BytesOf(OfType(live, t)) + BytesOf(N)
    BY <2>1 DEF BytesAre
  <2>11. entry'[t].bytes + BytesOf(C) = BytesOf(OfType(live, t)) + BytesOf(M)
    <3> HIDE DEF W, N, M, C
    <3> QED  BY <2>5, <2>7, <2>8, <2>9, <2>10
  <2>12. BytesAre(at', job', live', entry', t)  BY <2>4, <2>11 DEF BytesAre
  <2> QED  BY <2>6, <2>12
<1> QED  BY <1>2, EntriesAre

-----------------------------------------------------------------------------
(* What a thread begins. *)

(* A step between the operations that leaves the registry alone. *)
LEMMA Quiet ==
  ASSUME AccountInv, NEW p \in Threads, NEW to \in RestAt, at[p] \in RestAt, Steps(at, at', p, to),
         NEW c \in Blocks, Steps(job, job', p, c), live' = live, known' = known,
         entry' = entry, calls' \in [Threads -> Nat], \A q \in Threads \ {p} : calls'[q] = calls[q],
         (IF to = "consecutive" THEN calls'[p] + 1 ELSE calls'[p]) <= Next_n(p)
  PROVE  JobsInv' /\ FreshInv' /\ RawInv' /\ EntriesExact'
<1>1. /\ to \notin BusyAt /\ at[p] \notin BusyAt /\ to \notin KnownAt
  BY DEF RestAt, BusyAt, AddingAt, RemovingAt, KnownAt, ToCount, ToUncount
<1>2. /\ AddingAt \subseteq BusyAt /\ RemovingAt \subseteq BusyAt /\ KnownAt \subseteq BusyAt
  BY DEF BusyAt, AddingAt, RemovingAt, KnownAt, ToCount, ToUncount
<1>3. \A W : W \subseteq BusyAt => p \notin ThreadsAt(W)' /\ ThreadsAt(W)' \subseteq ThreadsAt(W)
  BY <1>1 DEF ThreadsAt, AccountInv, AccountTypes, Steps
<1>4. \A q \in Threads : q # p => job'[q] = job[q]  BY DEF AccountInv, AccountTypes, Steps
<1>5. /\ ThreadsAt(AddingAt)' \subseteq ThreadsAt(AddingAt) \ {p}
      /\ ThreadsAt(RemovingAt)' \subseteq ThreadsAt(RemovingAt) \ {p}
      /\ ThreadsAt(KnownAt)' \subseteq ThreadsAt(KnownAt) \ {p}
      /\ ThreadsAt(BusyAt)' \subseteq ThreadsAt(BusyAt) \ {p}
  BY <1>2, <1>3
<1>6. \A W : ThreadsAt(W) \subseteq Threads  BY DEF ThreadsAt
<1>7. JobsInv'  BY <1>4, <1>5, <1>6 DEF AccountInv, JobsInv
<1>8. \A q \in Threads : Next_n(q) \in Nat /\ Next_n(q)' \in Nat /\ Next_n(q)' <= Next_n(q)
  <2>1. ASSUME NEW q \in Threads, q # p PROVE Next_n(q)' = Next_n(q)
    BY <2>1 DEF Next_n, AccountInv, AccountTypes, Steps
  <2>2. Next_n(p)' = IF to = "consecutive" THEN calls'[p] + 1 ELSE calls'[p]
    BY DEF Next_n, AccountInv, AccountTypes, Steps
  <2>3. \A q \in Threads : Next_n(q) \in Nat  BY DEF Next_n, AccountInv, AccountTypes
  <2>4. calls'[p] \in Nat  OBVIOUS
  <2>5. Next_n(p)' \in Nat /\ Next_n(p)' <= Next_n(p)  BY <2>2, <2>4
  <2> QED  BY <2>1, <2>3, <2>5
<1>9. FreshInv'
  <2>1. ASSUME NEW r \in Threads, NEW b \in live, b.owner = r PROVE b.n > Next_n(r)'
    <3>1. b.n > Next_n(r) /\ b.n \in Nat  BY <2>1 DEF AccountInv, FreshInv, AccountTypes, Blocks
    <3> QED  BY <3>1, <1>8
  <2>2. ASSUME NEW r \in Threads, NEW q \in ThreadsAt(BusyAt)', job'[q].owner = r
        PROVE  job'[q].n > Next_n(r)'
    <3>1. q \in ThreadsAt(BusyAt) /\ q \in Threads /\ job'[q] = job[q]  BY <1>4, <1>5, <1>6
    <3>2. job[q].n > Next_n(r)  BY <2>2, <3>1 DEF AccountInv, FreshInv
    <3>3. job[q].n \in Nat  BY <3>1 DEF AccountInv, AccountTypes, Blocks
    <3> QED  BY <3>1, <3>2, <3>3, <1>8
  <2> QED  BY <2>1, <2>2 DEF FreshInv
<1>10. RawInv'  BY DEF AccountInv, RawInv
<1>11. ASSUME NEW t, NEW W, W \subseteq BusyAt PROVE InTransit(at', job', t, W) = InTransit(at, job, t, W)
  <2>1. to \notin W  BY <1>1, <1>11
  <2> QED  BY <1>1, <1>11, <2>1, TransitBegins
<1>12. ASSUME NEW t \in AllTypes
       PROVE  /\ CountIs(at', job', live', entry', t)
              /\ BytesAre(at', job', live', entry', t)
              /\ KnownIs(at', job', live', known', t)
  <2>1. /\ CountIs(at, job, live, entry, t)
        /\ BytesAre(at, job, live, entry, t)
        /\ KnownIs(at, job, live, known, t)
    BY EntriesAre DEF AccountInv
  <2>2. /\ InTransit(at', job', t, ToCount) = InTransit(at, job, t, ToCount)
        /\ InTransit(at', job', t, ToUncount) = InTransit(at, job, t, ToUncount)
        /\ InTransit(at', job', t, ToCount \cup {"add:bytes"})
             = InTransit(at, job, t, ToCount \cup {"add:bytes"})
        /\ InTransit(at', job', t, ToUncount \cup {"remove:bytes"})
             = InTransit(at, job, t, ToUncount \cup {"remove:bytes"})
    BY <1>11, AllBusy
  <2> QED  BY <2>1, <2>2 DEF CountIs, BytesAre, KnownIs
<1> QED  BY <1>7, <1>9, <1>10, <1>12, EntriesAre

(* One more, or one fewer, live allocation. *)
LEMMA OneMore ==
  ASSUME NEW S, IsFiniteSet(S), S \subseteq Blocks, NEW b \in Blocks, b \notin S
  PROVE  /\ Cardinality(S \cup {b}) = Cardinality(S) + 1
         /\ BytesOf(S \cup {b}) = BytesOf(S) + b.bytes
<1>1. \A x \in S \cup {b} : x.bytes \in Nat  BY DEF Blocks
<1> QED  BY <1>1, BytesOfMore, FS_AddElement

LEMMA OneLess ==
  ASSUME NEW S, IsFiniteSet(S), S \subseteq Blocks, NEW b \in S
  PROVE  /\ Cardinality(S \ {b}) = Cardinality(S) - 1
         /\ BytesOf(S \ {b}) = BytesOf(S) - b.bytes /\ BytesOf(S \ {b}) \in Nat
<1>1. \A x \in S : x.bytes \in Nat  BY DEF Blocks
<1> QED  BY <1>1, BytesOfLess, FS_RemoveElement

(* The entries, when an allocation is granted ... *)
LEMMA EntriesGrant ==
  ASSUME AccountInv, NEW p \in Threads, at[p] \notin BusyAt, Steps(at, at', p, "add:lock"),
         NEW b \in Blocks, b \notin live, \A q \in ThreadsAt(BusyAt) : job[q] # b,
         Steps(job, job', p, b), live' = live \cup {b}, known' = known, entry' = entry
  PROVE  EntriesExact'
<1>1. ASSUME NEW t, NEW W, W \subseteq BusyAt
      PROVE  /\ "add:lock" \in W /\ b.type = t =>
                  InTransit(at', job', t, W) = InTransit(at, job, t, W) \cup {b}
             /\ "add:lock" \notin W \/ b.type # t =>
                  InTransit(at', job', t, W) = InTransit(at, job, t, W)
             /\ b \notin InTransit(at, job, t, W)
             /\ IsFiniteSet(InTransit(at, job, t, W)) /\ InTransit(at, job, t, W) \subseteq Blocks
             /\ Cardinality(InTransit(at, job, t, W)) \in Nat /\ BytesOf(InTransit(at, job, t, W)) \in Nat
  <2>1. b \notin InTransit(at, job, t, W)  BY <1>1 DEF InTransit, ThreadsAt
  <2>2. /\ IsFiniteSet(InTransit(at, job, t, W)) /\ InTransit(at, job, t, W) \subseteq Blocks
        /\ Cardinality(InTransit(at, job, t, W)) \in Nat /\ BytesOf(InTransit(at, job, t, W)) \in Nat
    BY TransitFinite
  <2>3. "add:lock" \in W /\ b.type = t =>
          InTransit(at', job', t, W) = InTransit(at, job, t, W) \cup {b}
    BY <1>1, TransitBegins
  <2>4. "add:lock" \notin W \/ b.type # t =>
          InTransit(at', job', t, W) = InTransit(at, job, t, W)
    BY <1>1, TransitBegins
  <2> QED  BY <2>1, <2>2, <2>3, <2>4
<1>2. /\ "add:lock" \in ToCount /\ "add:lock" \in ToCount \cup {"add:bytes"}
      /\ "add:lock" \notin ToUncount /\ "add:lock" \notin ToUncount \cup {"remove:bytes"}
  BY DEF ToCount, ToUncount
<1>3. ASSUME NEW t \in AllTypes
      PROVE  /\ CountIs(at', job', live', entry', t)
             /\ BytesAre(at', job', live', entry', t)
             /\ KnownIs(at', job', live', known', t)
  <2> DEFINE C == InTransit(at, job, t, ToCount)
             D == InTransit(at, job, t, ToCount \cup {"add:bytes"})
             L == OfType(live, t)
             more(S) == IF b.type = t THEN S \cup {b} ELSE S
  <2>1. /\ CountIs(at, job, live, entry, t)
        /\ BytesAre(at, job, live, entry, t)
        /\ KnownIs(at, job, live, known, t)
    BY EntriesAre DEF AccountInv
  <2>2. /\ InTransit(at', job', t, ToCount) = more(C)
        /\ InTransit(at', job', t, ToUncount) = InTransit(at, job, t, ToUncount)
        /\ InTransit(at', job', t, ToCount \cup {"add:bytes"}) = more(D)
        /\ InTransit(at', job', t, ToUncount \cup {"remove:bytes"})
             = InTransit(at, job, t, ToUncount \cup {"remove:bytes"})
    <3>1. InTransit(at', job', t, ToCount) = more(C)  BY <1>1, <1>2, AllBusy
    <3>2. InTransit(at', job', t, ToCount \cup {"add:bytes"}) = more(D)  BY <1>1, <1>2, AllBusy
    <3> HIDE DEF C, D, more
    <3>3. InTransit(at', job', t, ToUncount) = InTransit(at, job, t, ToUncount)
      BY <1>1, <1>2, AllBusy
    <3>4. InTransit(at', job', t, ToUncount \cup {"remove:bytes"})
            = InTransit(at, job, t, ToUncount \cup {"remove:bytes"})
      BY <1>1, <1>2, AllBusy
    <3> QED  BY <3>1, <3>2, <3>3, <3>4
  <2>3. OfType(live', t) = more(L)  BY DEF OfType
  <2>4. /\ b \notin C /\ IsFiniteSet(C) /\ C \subseteq Blocks /\ Cardinality(C) \in Nat
        /\ b \notin D /\ IsFiniteSet(D) /\ D \subseteq Blocks /\ BytesOf(D) \in Nat
    BY <1>1, AllBusy
  <2>5. /\ b \notin L /\ IsFiniteSet(L) /\ L \subseteq Blocks
        /\ Cardinality(L) \in Nat /\ BytesOf(L) \in Nat
    BY LiveFinite DEF OfType, AccountInv, AccountTypes
  <2>6. /\ Cardinality(InTransit(at, job, t, ToUncount)) \in Nat
        /\ BytesOf(InTransit(at, job, t, ToUncount \cup {"remove:bytes"})) \in Nat
    BY <1>1, AllBusy
  <2>7. entry[t].count \in Int /\ entry[t].bytes \in Int /\ b.bytes \in Nat
    BY DEF AccountInv, AccountTypes, Blocks
  <2> HIDE DEF C, D, L
  <2>8. more(L) \ more(C) = L \ C \/ more(L) \ more(C) \subseteq L \ C  OBVIOUS
  <2>9. KnownIs(at', job', live', known', t)
    <3>1. L \ C # {} => t \in known  BY <2>1 DEF KnownIs, L, C
    <3>2. more(L) \ more(C) # {} => t \in known'  BY <2>8, <3>1
    <3> QED  BY <2>2, <2>3, <3>2 DEF KnownIs
  <2>10. CountIs(at', job', live', entry', t)
    <3>1. entry[t].count + Cardinality(C) = Cardinality(L) + Cardinality(InTransit(at, job, t, ToUncount))
      BY <2>1 DEF CountIs, C, L
    <3>2. Cardinality(more(C)) - Cardinality(C) = Cardinality(more(L)) - Cardinality(L)
          /\ Cardinality(more(C)) \in Nat /\ Cardinality(more(L)) \in Nat
      <4>1. CASE b.type = t
        <5>1. more(C) = C \cup {b} /\ more(L) = L \cup {b}  BY <4>1
        <5>2. Cardinality(C \cup {b}) = Cardinality(C) + 1 /\ Cardinality(L \cup {b}) = Cardinality(L) + 1
          BY <2>4, <2>5, OneMore
        <5> HIDE DEF more
        <5> QED  BY <2>4, <2>5, <5>1, <5>2
      <4>2. CASE b.type # t
        <5>1. more(C) = C /\ more(L) = L  BY <4>2
        <5> HIDE DEF more
        <5> QED  BY <2>4, <2>5, <5>1
      <4> QED  BY <4>1, <4>2
    <3> HIDE DEF more
    <3>3. entry[t].count + Cardinality(more(C))
            = Cardinality(more(L)) + Cardinality(InTransit(at, job, t, ToUncount))
      BY <3>1, <3>2, <2>4, <2>5, <2>6, <2>7
    <3> QED  BY <2>2, <2>3, <3>3 DEF CountIs
  <2>11. BytesAre(at', job', live', entry', t)
    <3> DEFINE U == InTransit(at, job, t, ToUncount \cup {"remove:bytes"})
    <3>1. entry[t].bytes + BytesOf(D) = BytesOf(L) + BytesOf(U)
      BY <2>1 DEF BytesAre, D, L
    <3>2. BytesOf(more(D)) - BytesOf(D) = BytesOf(more(L)) - BytesOf(L)
          /\ BytesOf(more(D)) \in Nat /\ BytesOf(more(L)) \in Nat
      <4>1. CASE b.type = t
        <5>1. more(D) = D \cup {b} /\ more(L) = L \cup {b}  BY <4>1
        <5>2. BytesOf(D \cup {b}) = BytesOf(D) + b.bytes /\ BytesOf(L \cup {b}) = BytesOf(L) + b.bytes
          BY <2>4, <2>5, OneMore
        <5> HIDE DEF more
        <5> QED  BY <2>4, <2>5, <2>7, <5>1, <5>2
      <4>2. CASE b.type # t
        <5>1. more(D) = D /\ more(L) = L  BY <4>2
        <5> HIDE DEF more
        <5> QED  BY <2>4, <2>5, <5>1
      <4> QED  BY <4>1, <4>2
    <3>3. BytesOf(U) \in Nat  BY <2>6
    <3> HIDE DEF more, U
    <3>4. entry[t].bytes + BytesOf(more(D)) = BytesOf(more(L)) + BytesOf(U)
      BY <3>1, <3>2, <3>3, <2>4, <2>5, <2>7
    <3> QED  BY <2>2, <2>3, <3>4 DEF BytesAre, U
  <2> QED  BY <2>9, <2>10, <2>11
<1> QED  BY <1>3, EntriesAre

(* ... and when one is freed. *)
LEMMA EntriesFree ==
  ASSUME AccountInv, NEW p \in Threads, at[p] \notin BusyAt, Steps(at, at', p, "remove:lock"),
         NEW b \in live, \A q \in ThreadsAt(BusyAt) : job[q] # b,
         Steps(job, job', p, b), live' = live \ {b}, known' = known, entry' = entry
  PROVE  EntriesExact'
<1>0. b \in Blocks /\ b.bytes \in Nat  BY DEF AccountInv, AccountTypes, Blocks
<1>1. ASSUME NEW t, NEW W, W \subseteq BusyAt
      PROVE  /\ "remove:lock" \in W /\ b.type = t =>
                  InTransit(at', job', t, W) = InTransit(at, job, t, W) \cup {b}
             /\ "remove:lock" \notin W \/ b.type # t =>
                  InTransit(at', job', t, W) = InTransit(at, job, t, W)
             /\ b \notin InTransit(at, job, t, W)
             /\ IsFiniteSet(InTransit(at, job, t, W)) /\ InTransit(at, job, t, W) \subseteq Blocks
             /\ Cardinality(InTransit(at, job, t, W)) \in Nat /\ BytesOf(InTransit(at, job, t, W)) \in Nat
  <2>1. b \notin InTransit(at, job, t, W)  BY <1>1 DEF InTransit, ThreadsAt
  <2>2. /\ IsFiniteSet(InTransit(at, job, t, W)) /\ InTransit(at, job, t, W) \subseteq Blocks
        /\ Cardinality(InTransit(at, job, t, W)) \in Nat /\ BytesOf(InTransit(at, job, t, W)) \in Nat
    BY TransitFinite
  <2>3. "remove:lock" \in W /\ b.type = t =>
          InTransit(at', job', t, W) = InTransit(at, job, t, W) \cup {b}
    BY <1>1, TransitBegins
  <2>4. "remove:lock" \notin W \/ b.type # t =>
          InTransit(at', job', t, W) = InTransit(at, job, t, W)
    BY <1>1, TransitBegins
  <2> QED  BY <2>1, <2>2, <2>3, <2>4
<1>2. /\ "remove:lock" \notin ToCount /\ "remove:lock" \notin ToCount \cup {"add:bytes"}
      /\ "remove:lock" \in ToUncount /\ "remove:lock" \in ToUncount \cup {"remove:bytes"}
  BY DEF ToCount, ToUncount
<1>3. ASSUME NEW t \in AllTypes
      PROVE  /\ CountIs(at', job', live', entry', t)
             /\ BytesAre(at', job', live', entry', t)
             /\ KnownIs(at', job', live', known', t)
  <2> DEFINE C == InTransit(at, job, t, ToCount)
             D == InTransit(at, job, t, ToCount \cup {"add:bytes"})
             U == InTransit(at, job, t, ToUncount)
             V == InTransit(at, job, t, ToUncount \cup {"remove:bytes"})
             L == OfType(live, t)
             more(S) == IF b.type = t THEN S \cup {b} ELSE S
             less(S) == IF b.type = t THEN S \ {b} ELSE S
  <2>1. /\ CountIs(at, job, live, entry, t)
        /\ BytesAre(at, job, live, entry, t)
        /\ KnownIs(at, job, live, known, t)
    BY EntriesAre DEF AccountInv
  <2>2. OfType(live', t) = less(L)  BY DEF OfType
  <2>3. /\ InTransit(at', job', t, ToCount) = C
        /\ InTransit(at', job', t, ToCount \cup {"add:bytes"}) = D
    <3> HIDE DEF more, less
    <3>1. InTransit(at', job', t, ToCount) = C  BY <1>1, <1>2, AllBusy
    <3>2. InTransit(at', job', t, ToCount \cup {"add:bytes"}) = D  BY <1>1, <1>2, AllBusy
    <3> QED  BY <3>1, <3>2
  <2>4. InTransit(at', job', t, ToUncount) = more(U)  BY <1>1, <1>2, AllBusy
  <2>5. InTransit(at', job', t, ToUncount \cup {"remove:bytes"}) = more(V)
    BY <1>1, <1>2, AllBusy
  <2>6. /\ Cardinality(C) \in Nat /\ BytesOf(D) \in Nat
        /\ b \notin U /\ IsFiniteSet(U) /\ U \subseteq Blocks /\ Cardinality(U) \in Nat
        /\ b \notin V /\ IsFiniteSet(V) /\ V \subseteq Blocks /\ BytesOf(V) \in Nat
    BY <1>1, AllBusy
  <2>7. /\ (b.type = t => b \in L) /\ IsFiniteSet(L) /\ L \subseteq Blocks
        /\ Cardinality(L) \in Nat /\ BytesOf(L) \in Nat
    BY LiveFinite DEF OfType, AccountInv, AccountTypes
  <2>8. entry[t].count \in Int /\ entry[t].bytes \in Int
    BY DEF AccountInv, AccountTypes
  <2>9. KnownIs(at', job', live', known', t)
    <3>1. L \ C # {} => t \in known  BY <2>1 DEF KnownIs
    <3>2. less(L) \ C # {} => t \in known'  BY <3>1
    <3> HIDE DEF C, L, less
    <3> QED  BY <2>2, <2>3, <3>2 DEF KnownIs
  <2>10. entry[t].count + Cardinality(C) = Cardinality(L) + Cardinality(U)
    BY <2>1 DEF CountIs
  <2>11. entry[t].bytes + BytesOf(D) = BytesOf(L) + BytesOf(V)
    BY <2>1 DEF BytesAre
  <2> HIDE DEF C, D, U, V, L
  <2>12. /\ Cardinality(less(L)) + Cardinality(more(U)) = Cardinality(L) + Cardinality(U)
         /\ BytesOf(less(L)) + BytesOf(more(V)) = BytesOf(L) + BytesOf(V)
    <3>1. CASE b.type = t
      <4>1. less(L) = L \ {b} /\ more(U) = U \cup {b} /\ more(V) = V \cup {b}  BY <3>1
      <4>2. Cardinality(L \ {b}) = Cardinality(L) - 1 /\ BytesOf(L \ {b}) = BytesOf(L) - b.bytes
        BY <3>1, <2>7, OneLess
      <4>3. Cardinality(U \cup {b}) = Cardinality(U) + 1  BY <1>0, <2>6, OneMore
      <4>4. BytesOf(V \cup {b}) = BytesOf(V) + b.bytes  BY <1>0, <2>6, OneMore
      <4> HIDE DEF more, less
      <4> QED  BY <1>0, <2>6, <2>7, <4>1, <4>2, <4>3, <4>4
    <3>2. CASE b.type # t  BY <3>2
    <3> QED  BY <3>1, <3>2
  <2> HIDE DEF more, less
  <2>13. entry[t].count + Cardinality(C) = Cardinality(less(L)) + Cardinality(more(U))
    BY <2>10, <2>12
  <2>14. entry[t].bytes + BytesOf(D) = BytesOf(less(L)) + BytesOf(more(V))
    BY <2>11, <2>12
  <2>15. CountIs(at', job', live', entry', t)  BY <2>2, <2>3, <2>4, <2>13 DEF CountIs
  <2>16. BytesAre(at', job', live', entry', t)  BY <2>2, <2>3, <2>5, <2>14 DEF BytesAre
  <2> QED  BY <2>9, <2>15, <2>16
<1> QED  BY <1>3, EntriesAre

(* Where the threads are after one of them began to change an entry. *)
LEMMA Begun ==
  ASSUME AccountInv, NEW p \in Threads, at[p] \in RestAt, NEW to \in {"add:lock", "remove:lock"},
         Steps(at, at', p, to)
  PROVE  /\ ThreadsAt(AddingAt)' = IF to = "add:lock" THEN ThreadsAt(AddingAt) \cup {p} ELSE ThreadsAt(AddingAt)
         /\ ThreadsAt(RemovingAt)' = IF to = "add:lock" THEN ThreadsAt(RemovingAt) ELSE ThreadsAt(RemovingAt) \cup {p}
         /\ ThreadsAt(KnownAt)' = IF to = "add:lock" THEN ThreadsAt(KnownAt) ELSE ThreadsAt(KnownAt) \cup {p}
         /\ ThreadsAt(BusyAt)' = ThreadsAt(BusyAt) \cup {p}
         /\ p \notin ThreadsAt(BusyAt) /\ ThreadsAt(BusyAt) \subseteq Threads
         /\ ThreadsAt(AddingAt) \subseteq ThreadsAt(BusyAt)
         /\ ThreadsAt(RemovingAt) \subseteq ThreadsAt(BusyAt)
         /\ ThreadsAt(KnownAt) \subseteq ThreadsAt(BusyAt)
<1>1. /\ at[p] \notin AddingAt /\ at[p] \notin RemovingAt /\ at[p] \notin KnownAt /\ at[p] \notin BusyAt
      /\ to \in BusyAt
  BY DEF RestAt, BusyAt, AddingAt, RemovingAt, KnownAt, ToCount, ToUncount
<1>2. /\ to = "add:lock" => to \in AddingAt /\ to \notin RemovingAt /\ to \notin KnownAt
      /\ to # "add:lock" => to \notin AddingAt /\ to \in RemovingAt /\ to \in KnownAt
  BY DEF AddingAt, RemovingAt, KnownAt, ToCount, ToUncount
<1>3. AddingAt \subseteq BusyAt /\ RemovingAt \subseteq BusyAt /\ KnownAt \subseteq BusyAt
  BY DEF BusyAt, AddingAt, RemovingAt, KnownAt, ToCount, ToUncount
<1>4. \A W : /\ ThreadsAt(W)' = IF to \in W THEN ThreadsAt(W) \cup {p} ELSE ThreadsAt(W) \ {p}
             /\ p \in ThreadsAt(W) <=> at[p] \in W
  BY DEF ThreadsAt, AccountInv, AccountTypes, Steps
<1>5. \A W : at[p] \notin W => ThreadsAt(W)' = IF to \in W THEN ThreadsAt(W) \cup {p} ELSE ThreadsAt(W)
  BY <1>4
<1>6. /\ ThreadsAt(BusyAt) \subseteq Threads /\ ThreadsAt(AddingAt) \subseteq ThreadsAt(BusyAt)
      /\ ThreadsAt(RemovingAt) \subseteq ThreadsAt(BusyAt)
      /\ ThreadsAt(KnownAt) \subseteq ThreadsAt(BusyAt)
  BY <1>3 DEF ThreadsAt
<1>7. ThreadsAt(AddingAt)' = IF to = "add:lock" THEN ThreadsAt(AddingAt) \cup {p} ELSE ThreadsAt(AddingAt)
  BY <1>1, <1>2, <1>5
<1>8. ThreadsAt(RemovingAt)' = IF to = "add:lock" THEN ThreadsAt(RemovingAt) ELSE ThreadsAt(RemovingAt) \cup {p}
  BY <1>1, <1>2, <1>5
<1>9. ThreadsAt(KnownAt)' = IF to = "add:lock" THEN ThreadsAt(KnownAt) ELSE ThreadsAt(KnownAt) \cup {p}
  BY <1>1, <1>2, <1>5
<1>10. ThreadsAt(BusyAt)' = ThreadsAt(BusyAt) \cup {p}  BY <1>1, <1>5
<1>11. p \notin ThreadsAt(BusyAt)  BY <1>1, <1>4
<1> QED  BY <1>6, <1>7, <1>8, <1>9, <1>10, <1>11

(* The invariant, when an allocation is granted ... *)
LEMMA Granted ==
  ASSUME AccountInv, NEW p \in Threads, at[p] \in {"idle", "consecutive"},
         Steps(at, at', p, "add:lock"), Steps(calls, calls', p, calls'[p]),
         NEW b \in Blocks, b.owner = p, b.n = Next_n(p), Steps(job, job', p, b),
         b.type = Raw => b.bytes = LargestArray(b.asked, b.heap) * Granularity,
         calls'[p] \in Nat, calls'[p] < b.n, used' = used + b.bytes, live' = live \cup {b},
         enforce = "throw" /\ limit > 0 => used' <= limit,
         UNCHANGED <<enforce, limit, spin, known, entry, refused>>
  PROVE  AccountInv'
<1>1. b \notin live /\ \A q \in ThreadsAt(BusyAt) : job[q] # b
  <2>1. b.n \in Nat  BY DEF Blocks
  <2> QED  BY <2>1 DEF AccountInv, FreshInv
<1>2. at[p] \notin BusyAt /\ at[p] \in RestAt /\ "add:lock" \in BusyAt \cup RestAt
  BY DEF RestAt, BusyAt, AddingAt, RemovingAt, ToCount, ToUncount
<1>3. EntriesExact'  BY <1>1, <1>2, EntriesGrant
<1>4. LockInv'
  <2>1. /\ "add:lock" \notin UniqueAt /\ "add:lock" \notin CountedAt /\ "add:lock" \notin SharedAt
        /\ at[p] \notin CountedAt /\ at[p] \notin UniqueAt
    BY DEF UniqueAt, CountedAt, SharedAt
  <2> QED  BY <2>1, LockStays DEF Steps
<1>5. AccountTypes'
  <2>1. used' \in Nat  BY DEF AccountInv, AccountTypes, Blocks
  <2>2. IsFiniteSet(live')  BY FS_AddElement DEF AccountInv, AccountTypes
  <2>3. live' \in SUBSET Blocks  BY DEF AccountInv, AccountTypes
  <2>4. at' \in [Threads -> BusyAt \cup RestAt] /\ job' \in [Threads -> Blocks]
        /\ calls' \in [Threads -> Nat]
    BY <1>2 DEF AccountInv, AccountTypes, Steps
  <2> QED  BY <2>1, <2>2, <2>3, <2>4 DEF AccountInv, AccountTypes
<1>6. /\ ThreadsAt(AddingAt)' = ThreadsAt(AddingAt) \cup {p}
      /\ ThreadsAt(RemovingAt)' = ThreadsAt(RemovingAt)
      /\ ThreadsAt(KnownAt)' = ThreadsAt(KnownAt)
      /\ ThreadsAt(BusyAt)' = ThreadsAt(BusyAt) \cup {p}
      /\ p \notin ThreadsAt(BusyAt) /\ ThreadsAt(BusyAt) \subseteq Threads
      /\ ThreadsAt(AddingAt) \subseteq ThreadsAt(BusyAt)
      /\ ThreadsAt(RemovingAt) \subseteq ThreadsAt(BusyAt)
      /\ ThreadsAt(KnownAt) \subseteq ThreadsAt(BusyAt)
  BY <1>2, Begun
<1>7. job'[p] = b /\ \A q \in ThreadsAt(BusyAt) : job'[q] = job[q]
  BY <1>6 DEF AccountInv, AccountTypes, Steps
<1>8. JobsInv'
  <2>1. \A q \in ThreadsAt(AddingAt)' : job'[q] \in live'
    BY <1>6, <1>7 DEF AccountInv, JobsInv
  <2>2. \A q \in ThreadsAt(RemovingAt)' : job'[q] \notin live'
    BY <1>1, <1>6, <1>7 DEF AccountInv, JobsInv
  <2>3. \A q, r \in ThreadsAt(BusyAt)' : job'[q] = job'[r] => q = r
    BY <1>1, <1>6, <1>7 DEF AccountInv, JobsInv
  <2>4. \A q \in ThreadsAt(KnownAt)' : job'[q].type \in known'
    BY <1>6, <1>7 DEF AccountInv, JobsInv
  <2>5. \A t \in AllTypes \ known' : entry'[t].count = 0 /\ entry'[t].bytes = 0
    BY DEF AccountInv, JobsInv
  <2> QED  BY <2>1, <2>2, <2>3, <2>4, <2>5 DEF JobsInv
<1>9. \A q \in Threads : /\ Next_n(q) \in Nat /\ Next_n(q)' \in Nat /\ Next_n(q)' <= Next_n(q)
                         /\ q = p => Next_n(q)' < b.n
  <2>1. ASSUME NEW q \in Threads, q # p PROVE Next_n(q)' = Next_n(q)
    BY <2>1 DEF Next_n, AccountInv, AccountTypes, Steps
  <2>2. Next_n(p)' = calls'[p]  BY DEF Next_n, AccountInv, AccountTypes, Steps
  <2>3. \A q \in Threads : Next_n(q) \in Nat  BY DEF Next_n, AccountInv, AccountTypes
  <2>4. Next_n(p)' \in Nat /\ Next_n(p)' <= Next_n(p) /\ Next_n(p)' < b.n  BY <2>2, <2>3
  <2> QED  BY <2>1, <2>3, <2>4
<1>10. FreshInv'
  <2>1. ASSUME NEW r \in Threads, NEW c \in live', c.owner = r PROVE c.n > Next_n(r)'
    <3>1. CASE c = b  BY <1>9, <2>1, <3>1 DEF Blocks
    <3>2. CASE c \in live
      <4>1. c.n > Next_n(r) /\ c.n \in Nat  BY <2>1, <3>2 DEF AccountInv, FreshInv, AccountTypes, Blocks
      <4> QED  BY <4>1, <1>9
    <3> QED  BY <3>1, <3>2
  <2>2. ASSUME NEW r \in Threads, NEW q \in ThreadsAt(BusyAt)', job'[q].owner = r
        PROVE  job'[q].n > Next_n(r)'
    <3>1. CASE q = p  BY <1>7, <1>9, <2>2, <3>1 DEF Blocks
    <3>2. CASE q # p
      <4>1. q \in ThreadsAt(BusyAt) /\ q \in Threads /\ job'[q] = job[q]  BY <1>6, <1>7, <3>2
      <4>2. job[q].n > Next_n(r)  BY <2>2, <4>1 DEF AccountInv, FreshInv
      <4>3. job[q].n \in Nat  BY <4>1 DEF AccountInv, AccountTypes, Blocks
      <4> QED  BY <4>1, <4>2, <4>3, <1>9
    <3> QED  BY <3>1, <3>2
  <2> QED  BY <2>1, <2>2 DEF FreshInv
<1>11. RawInv'  BY DEF AccountInv, RawInv
<1>12. UsageInv'
  <2>1. /\ IsFiniteSet(live) /\ live \subseteq Blocks /\ used \in Nat /\ refused \in Nat
        /\ limit \in Nat /\ used = BytesOf(live) + refused /\ b.bytes \in Nat
    BY DEF AccountInv, AccountTypes, UsageInv, Blocks
  <2>2. BytesOf(live') = BytesOf(live) + b.bytes  BY <1>1, <2>1, OneMore
  <2>3. BytesOf(live) \in Nat  BY <2>1, SumIsNat
  <2>4. used' = BytesOf(live') + refused  BY <2>1, <2>2, <2>3
  <2>5. enforce = "throw" /\ limit > 0 => BytesOf(live') <= limit
    BY <2>1, <2>2, <2>3, <2>4
  <2> QED  BY <2>4, <2>5 DEF UsageInv
<1> QED  BY <1>3, <1>4, <1>5, <1>8, <1>10, <1>11, <1>12 DEF AccountInv

(* ... and when one is freed. *)
LEMMA Freed ==
  ASSUME AccountInv, NEW p \in Threads, at[p] = "idle", Steps(at, at', p, "remove:lock"),
         calls[p] > 0, Steps(calls, calls', p, calls[p] - 1),
         NEW b \in live, \A q \in Threads : at[q] # "idle" => job[q] # b, Steps(job, job', p, b),
         used' = used - b.bytes, live' = live \ {b},
         UNCHANGED <<enforce, limit, spin, known, entry, refused>>
  PROVE  AccountInv'
<1>1. /\ at[p] \notin BusyAt /\ at[p] \in RestAt /\ "remove:lock" \in BusyAt \cup RestAt
      /\ "remove:lock" # "add:lock" /\ "idle" \notin BusyAt
  BY DEF RestAt, BusyAt, AddingAt, RemovingAt, ToCount, ToUncount
<1>2. b \in Blocks /\ \A q \in ThreadsAt(BusyAt) : job[q] # b
  BY <1>1 DEF ThreadsAt, AccountInv, AccountTypes
<1>3. EntriesExact'  BY <1>1, <1>2, EntriesFree
<1>4. LockInv'
  <2>1. /\ "remove:lock" \notin UniqueAt /\ "remove:lock" \notin CountedAt
        /\ "remove:lock" \notin SharedAt /\ at[p] \notin CountedAt /\ at[p] \notin UniqueAt
    BY DEF UniqueAt, CountedAt, SharedAt
  <2> QED  BY <2>1, LockStays DEF Steps
<1>5. b.type \in known
  <2>1. b.type \in AllTypes /\ b \in OfType(live, b.type)  BY <1>2 DEF Blocks, OfType
  <2>2. b \notin InTransit(at, job, b.type, ToCount)
    BY <1>2, AllBusy DEF InTransit, ThreadsAt
  <2>3. KnownIs(at, job, live, known, b.type)  BY <2>1, EntriesAre DEF AccountInv
  <2> QED  BY <2>1, <2>2, <2>3 DEF KnownIs
<1>6. /\ ThreadsAt(AddingAt)' = ThreadsAt(AddingAt)
      /\ ThreadsAt(RemovingAt)' = ThreadsAt(RemovingAt) \cup {p}
      /\ ThreadsAt(KnownAt)' = ThreadsAt(KnownAt) \cup {p}
      /\ ThreadsAt(BusyAt)' = ThreadsAt(BusyAt) \cup {p}
      /\ p \notin ThreadsAt(BusyAt) /\ ThreadsAt(BusyAt) \subseteq Threads
      /\ ThreadsAt(AddingAt) \subseteq ThreadsAt(BusyAt)
      /\ ThreadsAt(RemovingAt) \subseteq ThreadsAt(BusyAt)
      /\ ThreadsAt(KnownAt) \subseteq ThreadsAt(BusyAt)
  BY <1>1, Begun
<1>7. job'[p] = b /\ \A q \in ThreadsAt(BusyAt) : job'[q] = job[q]
  BY <1>6 DEF AccountInv, AccountTypes, Steps
<1>8. /\ IsFiniteSet(live) /\ live \subseteq Blocks /\ used \in Nat /\ refused \in Nat
      /\ limit \in Nat /\ used = BytesOf(live) + refused /\ b.bytes \in Nat
  BY <1>2 DEF AccountInv, AccountTypes, UsageInv, Blocks
<1>9. BytesOf(live') = BytesOf(live) - b.bytes /\ BytesOf(live') \in Nat  BY <1>8, OneLess
<1>10. BytesOf(live) \in Nat  BY <1>8, SumIsNat
<1>11. used' = BytesOf(live') + refused /\ used' \in Nat  BY <1>8, <1>9, <1>10
<1>12. UsageInv'
  <2>1. enforce = "throw" /\ limit > 0 => BytesOf(live) <= limit  BY DEF AccountInv, UsageInv
  <2>2. enforce = "throw" /\ limit > 0 => BytesOf(live') <= limit  BY <2>1, <1>8, <1>9, <1>10
  <2> QED  BY <1>11, <2>2 DEF UsageInv
<1>13. AccountTypes'
  <2>1. IsFiniteSet(live')  BY FS_RemoveElement DEF AccountInv, AccountTypes
  <2>2. live' \in SUBSET Blocks  BY <1>8
  <2>3. calls[p] - 1 \in Nat  BY DEF AccountInv, AccountTypes
  <2>4. at' \in [Threads -> BusyAt \cup RestAt] /\ job' \in [Threads -> Blocks]
        /\ calls' \in [Threads -> Nat]
    BY <1>1, <1>2, <2>3 DEF AccountInv, AccountTypes, Steps
  <2> QED  BY <1>11, <2>1, <2>2, <2>4 DEF AccountInv, AccountTypes
<1>14. JobsInv'
  <2>1. \A q \in ThreadsAt(AddingAt)' : job'[q] \in live'
    BY <1>2, <1>6, <1>7 DEF AccountInv, JobsInv
  <2>2. \A q \in ThreadsAt(RemovingAt)' : job'[q] \notin live'
    BY <1>6, <1>7 DEF AccountInv, JobsInv
  <2>3. \A q, r \in ThreadsAt(BusyAt)' : job'[q] = job'[r] => q = r
    BY <1>2, <1>6, <1>7 DEF AccountInv, JobsInv
  <2>4. \A q \in ThreadsAt(KnownAt)' : job'[q].type \in known'
    BY <1>5, <1>6, <1>7 DEF AccountInv, JobsInv
  <2>5. \A t \in AllTypes \ known' : entry'[t].count = 0 /\ entry'[t].bytes = 0
    BY DEF AccountInv, JobsInv
  <2> QED  BY <2>1, <2>2, <2>3, <2>4, <2>5 DEF JobsInv
<1>15. \A q \in Threads : Next_n(q) \in Nat /\ Next_n(q)' \in Nat /\ Next_n(q)' <= Next_n(q)
  <2>1. ASSUME NEW q \in Threads, q # p PROVE Next_n(q)' = Next_n(q)
    BY <2>1 DEF Next_n, AccountInv, AccountTypes, Steps
  <2>2. Next_n(p)' = calls[p] - 1 /\ Next_n(p) = calls[p]
    BY DEF Next_n, AccountInv, AccountTypes, Steps
  <2>3. \A q \in Threads : Next_n(q) \in Nat  BY DEF Next_n, AccountInv, AccountTypes
  <2>4. calls[p] \in Nat  BY DEF AccountInv, AccountTypes
  <2>5. Next_n(p)' \in Nat /\ Next_n(p)' <= Next_n(p)  BY <2>2, <2>4
  <2> QED  BY <2>1, <2>3, <2>5
<1>16. FreshInv'
  <2>1. ASSUME NEW r \in Threads, NEW c \in live, c.owner = r PROVE c.n > Next_n(r)'
    <3>1. c.n > Next_n(r) /\ c.n \in Nat  BY <2>1 DEF AccountInv, FreshInv, AccountTypes, Blocks
    <3> QED  BY <3>1, <1>15
  <2>2. ASSUME NEW r \in Threads, NEW q \in ThreadsAt(BusyAt)', job'[q].owner = r
        PROVE  job'[q].n > Next_n(r)'
    <3>1. CASE q = p  BY <1>7, <2>1, <2>2, <3>1
    <3>2. CASE q # p
      <4>1. q \in ThreadsAt(BusyAt) /\ q \in Threads /\ job'[q] = job[q]  BY <1>6, <1>7, <3>2
      <4>2. job[q].n > Next_n(r)  BY <2>2, <4>1 DEF AccountInv, FreshInv
      <4>3. job[q].n \in Nat  BY <4>1 DEF AccountInv, AccountTypes, Blocks
      <4> QED  BY <4>1, <4>2, <4>3, <1>15
    <3> QED  BY <3>1, <3>2
  <2> QED  BY <2>1, <2>2 DEF FreshInv
<1>17. RawInv'  BY DEF AccountInv, RawInv
<1> QED  BY <1>3, <1>4, <1>12, <1>13, <1>14, <1>16, <1>17 DEF AccountInv

-----------------------------------------------------------------------------
(* The steps of the three operations. *)

(* A step from one place to another that is part of the same operation.      *)
MayMove(from, to) ==
  /\ to \in (BusyAt \cup RestAt) \ {"consecutive"} /\ from # "consecutive"
  /\ (to \in AddingAt => from \in AddingAt) /\ (to \in RemovingAt => from \in RemovingAt)
  /\ SameSide(from, to)

LEMMA Plain ==
  ASSUME AccountInv, NEW p \in Threads, NEW from, NEW to, MayMove(from, to), Goes(p, from, to),
         to \in KnownAt => from \in KnownAt \/ Type(p) \in known,
         UNCHANGED <<Others, known, entry>>, LockInv'
  PROVE  AccountInv'
<1>1. /\ at[p] = from /\ at' = [at EXCEPT ![p] = to] /\ job' = job /\ live' = live
      /\ known' = known /\ entry' = entry
  BY DEF Goes, Others
<1>2. EntriesExact'
  <2>1. Steps(at, at', p, to)  BY <1>1 DEF Steps
  <2> QED  BY <1>1, <2>1, EntriesStay DEF MayMove
<1>3. UNCHANGED Others  OBVIOUS
<1>4. /\ known' \in SUBSET AllTypes /\ known \subseteq known'
      /\ entry' \in [AllTypes -> [count : Int, bytes : Int]]
      /\ \A t \in AllTypes \ known' : entry'[t].count = 0 /\ entry'[t].bytes = 0
  BY <1>1 DEF AccountInv, AccountTypes, JobsInv
<1>5. AccountTypes' /\ JobsInv' /\ FreshInv' /\ RawInv' /\ UsageInv'
  BY <1>1, <1>3, <1>4, Moves DEF MayMove
<1> QED  BY <1>2, <1>5 DEF AccountInv

LEMMA SharedAcquired ==
  ASSUME AccountInv, NEW p \in Threads, NEW from, NEW to, MayMove(from, to),
         AcquireShared(p, from, to), to \in KnownAt => from \in KnownAt,
         to \in CountedAt \ SharedAt, from \notin CountedAt, to \notin UniqueAt, from \notin UniqueAt
  PROVE  AccountInv'
<1>1. LockInv'  BY LockCounts DEF AcquireShared, Goes
<1> QED  BY <1>1, Plain DEF AcquireShared

LEMMA SharedIsHad ==
  ASSUME AccountInv, NEW p \in Threads, NEW from, NEW to, MayMove(from, to),
         SharedHad(p, from, to), to \in KnownAt => from \in KnownAt,
         to \in CountedAt, from \in CountedAt, to \notin UniqueAt, from \notin UniqueAt
  PROVE  AccountInv'
<1>1. LockInv'  BY LockStays DEF SharedHad, Goes
<1> QED  BY <1>1, Plain DEF SharedHad

LEMMA SharedReleased ==
  ASSUME AccountInv, NEW p \in Threads, NEW from, NEW to, MayMove(from, to),
         ReleaseShared(p, from, to), to \in KnownAt => from \in KnownAt,
         to \notin CountedAt, from \in CountedAt, to \notin UniqueAt, from \notin UniqueAt
  PROVE  AccountInv'
<1>1. LockInv'  BY LockCounts DEF ReleaseShared, Goes
<1> QED  BY <1>1, Plain DEF ReleaseShared

LEMMA UniqueAcquired ==
  ASSUME AccountInv, NEW p \in Threads, NEW from, NEW to, MayMove(from, to),
         AcquireUnique(p, from, to), to \in KnownAt => from \in KnownAt,
         to \in UniqueAt, from \notin CountedAt
  PROVE  AccountInv'
<1>1. LockInv'  BY LockTaken DEF AcquireUnique, Goes
<1> QED  BY <1>1, Plain DEF AcquireUnique

LEMMA UniqueReleased ==
  ASSUME AccountInv, NEW p \in Threads, NEW from, NEW to, MayMove(from, to),
         ReleaseUnique(p, from, to), to \in KnownAt => from \in KnownAt,
         from \in UniqueAt, to \notin CountedAt, to \notin UniqueAt
  PROVE  AccountInv'
<1>1. LockInv'  BY LockLeft DEF ReleaseUnique, Goes
<1> QED  BY <1>1, Plain DEF ReleaseUnique

LEMMA Find ==
  ASSUME AccountInv, NEW p \in Threads, FindOrInsert(p)
  PROVE  AccountInv'
<1> DEFINE to == IF Type(p) \in known THEN "add:count" ELSE "add:give_up"
<1>1. at[p] = "add:find" /\ at' = [at EXCEPT ![p] = to] /\ spin' = spin
  BY DEF FindOrInsert, Goes
<1>2. to \in {"add:count", "add:give_up"}  OBVIOUS
<1>3. to \in KnownAt => Type(p) \in known  BY DEF KnownAt, RemovingAt, ToUncount
<1>4. Goes(p, "add:find", to) /\ UNCHANGED <<Others, known, entry>>  BY DEF FindOrInsert
<1> HIDE DEF to
<1>5. MayMove("add:find", to)
  BY <1>2 DEF MayMove, SameSide, BusyAt, RestAt, AddingAt, RemovingAt, ToCount, ToUncount
<1>6. /\ to \in SharedAt /\ "add:find" \in SharedAt /\ to \in CountedAt /\ "add:find" \in CountedAt
      /\ to \notin UniqueAt /\ "add:find" \notin UniqueAt
  BY <1>2 DEF SharedAt, CountedAt, UniqueAt
<1>7. LockInv'  BY <1>1, <1>6, LockStays
<1> QED  BY <1>3, <1>4, <1>5, <1>7, Plain

(* A type that has no entry yet gets one that counts nothing. *)
LEMMA Inserts ==
  ASSUME AccountInv, NEW p \in Threads, Insert(p)
  PROVE  AccountInv'
<1>1. /\ at[p] = "insert" /\ at' = [at EXCEPT ![p] = "inserted"] /\ spin' = spin
      /\ known' = known \cup {Type(p)} /\ UNCHANGED Others /\ job' = job /\ live' = live
  BY DEF Insert, Goes, Others
<1>2. Type(p) \in AllTypes  BY DEF Type, AccountInv, AccountTypes, Blocks
<1>3. entry' = entry
  <2>1. CASE Type(p) \in known  BY <2>1 DEF Insert
  <2>2. CASE Type(p) \notin known
    <3>1. entry[Type(p)].count = 0 /\ entry[Type(p)].bytes = 0
      BY <1>2, <2>2 DEF AccountInv, JobsInv
    <3>2. entry[Type(p)] \in [count : Int, bytes : Int]
      BY <1>2 DEF AccountInv, AccountTypes
    <3>3. entry[Type(p)] = [count |-> 0, bytes |-> 0]  BY <3>1, <3>2
    <3>4. entry' = [entry EXCEPT ![Type(p)] = [count |-> 0, bytes |-> 0]]  BY <2>2 DEF Insert
    <3>5. entry = [t \in AllTypes |-> entry[t]]  BY DEF AccountInv, AccountTypes
    <3> QED  BY <3>3, <3>4, <3>5
  <2> QED  BY <2>1, <2>2
<1>4. /\ MayMove("insert", "inserted") /\ "insert" \in UniqueAt /\ "inserted" \in UniqueAt
      /\ "insert" \notin CountedAt /\ "inserted" \notin CountedAt /\ "inserted" \notin SharedAt
  BY DEF MayMove, SameSide, BusyAt, RestAt, AddingAt, RemovingAt, ToCount, ToUncount, SharedAt,
         CountedAt, UniqueAt
<1>5. LockInv'  BY <1>1, <1>4, LockStays
<1>6. EntriesExact'
  <2>1. Steps(at, at', p, "inserted") /\ known \subseteq known'  BY <1>1 DEF Steps
  <2> QED  BY <1>1, <1>3, <1>4, <2>1, EntriesStay DEF MayMove
<1>7. /\ known' \in SUBSET AllTypes /\ known \subseteq known' /\ Type(p) \in known'
      /\ entry' \in [AllTypes -> [count : Int, bytes : Int]]
      /\ \A t \in AllTypes \ known' : entry'[t].count = 0 /\ entry'[t].bytes = 0
  BY <1>1, <1>2, <1>3 DEF AccountInv, AccountTypes, JobsInv
<1>8. AccountTypes' /\ JobsInv' /\ FreshInv' /\ RawInv' /\ UsageInv'
  BY <1>1, <1>4, <1>7, Moves DEF MayMove
<1> QED  BY <1>5, <1>6, <1>8 DEF AccountInv

(* A change of the entry of the type under the shared lock. *)
LEMMA Changes ==
  ASSUME AccountInv, NEW p \in Threads, NEW from, NEW to, Goes(p, from, to),
         from \in KnownAt \cap SharedAt, to \in KnownAt \cap SharedAt,
         (from \in AddingAt /\ to \in AddingAt) \/ (from \in RemovingAt /\ to \in RemovingAt),
         from \in AddingAt => from \notin RemovingAt /\ to \notin RemovingAt,
         from \in RemovingAt => from \notin AddingAt /\ to \notin AddingAt,
         NEW e \in [count : Int, bytes : Int], entry' = [entry EXCEPT ![Type(p)] = e],
         UNCHANGED <<Others, spin, known>>, EntriesExact'
  PROVE  AccountInv'
<1>1. /\ at[p] = from /\ at' = [at EXCEPT ![p] = to] /\ known' = known /\ UNCHANGED Others
      /\ spin' = spin
  BY DEF Goes
<1>2. Type(p) \in known /\ Type(p) \in AllTypes
  <2>1. p \in ThreadsAt(KnownAt)  BY <1>1 DEF ThreadsAt
  <2> QED  BY <2>1 DEF Type, AccountInv, JobsInv, AccountTypes
<1>3. /\ known' \in SUBSET AllTypes /\ known \subseteq known'
      /\ entry' \in [AllTypes -> [count : Int, bytes : Int]]
      /\ \A t \in AllTypes \ known' : entry'[t].count = 0 /\ entry'[t].bytes = 0
  <2>1. entry' \in [AllTypes -> [count : Int, bytes : Int]]
    BY DEF AccountInv, AccountTypes
  <2>2. \A t \in AllTypes \ known' : entry'[t] = entry[t]
    BY <1>1, <1>2 DEF AccountInv, AccountTypes
  <2> QED  BY <1>1, <2>1, <2>2 DEF AccountInv, AccountTypes, JobsInv
<1>4. to \in (BusyAt \cup RestAt) \ {"consecutive"} /\ from # "consecutive"
  BY DEF KnownAt, RemovingAt, AddingAt, BusyAt, RestAt, ToCount, ToUncount
<1>5. AccountTypes' /\ JobsInv' /\ FreshInv' /\ RawInv' /\ UsageInv'
  BY <1>1, <1>3, <1>4, Moves
<1>6. LockInv'
  <2>1. /\ to \notin UniqueAt /\ from \notin UniqueAt /\ to \in CountedAt /\ from \in CountedAt
    BY DEF SharedAt, CountedAt, UniqueAt
  <2> QED  BY <1>1, <2>1, LockStays
<1> QED  BY <1>5, <1>6 DEF AccountInv

LEMMA EntryTypes ==
  ASSUME AccountInv, NEW p \in Threads
  PROVE  /\ Type(p) \in AllTypes /\ job[p].bytes \in Nat /\ job[p].type = Type(p)
         /\ entry[Type(p)] \in [count : Int, bytes : Int]
BY DEF Type, AccountInv, AccountTypes, Blocks

LEMMA CountAdded ==
  ASSUME AccountInv, NEW p \in Threads, AddCount(p)
  PROVE  AccountInv'
<1> DEFINE e == [entry[Type(p)] EXCEPT !.count = @ + 1]
<1>1. e \in [count : Int, bytes : Int]  BY EntryTypes
<1>2. /\ Goes(p, "add:count", "add:bytes") /\ UNCHANGED <<Others, spin, known>>
      /\ entry' = [entry EXCEPT ![Type(p)].count = @ + 1] /\ job' = job /\ live' = live
  BY DEF AddCount, Others
<1>3. EntriesExact'
  <2>1. at[p] = "add:count" /\ Steps(at, at', p, "add:bytes") /\ known' = known
    BY <1>2 DEF Goes, Steps
  <2> QED  BY <1>2, <2>1, EntriesAddCount DEF Type
<1>4. entry' = [entry EXCEPT ![Type(p)] = e]  BY <1>2
<1>5. /\ "add:count" \in KnownAt \cap SharedAt /\ "add:bytes" \in KnownAt \cap SharedAt
      /\ "add:count" \in AddingAt /\ "add:bytes" \in AddingAt
      /\ "add:count" \notin RemovingAt /\ "add:bytes" \notin RemovingAt
  BY DEF KnownAt, SharedAt, AddingAt, RemovingAt, ToCount, ToUncount
<1> HIDE DEF e
<1> QED  BY <1>1, <1>2, <1>3, <1>4, <1>5, Changes

LEMMA BytesAdded ==
  ASSUME AccountInv, NEW p \in Threads, AddBytes(p)
  PROVE  AccountInv'
<1> DEFINE e == [entry[Type(p)] EXCEPT !.bytes = @ + job[p].bytes]
<1>1. e \in [count : Int, bytes : Int]  BY EntryTypes
<1>2. /\ Goes(p, "add:bytes", "added") /\ UNCHANGED <<Others, spin, known>>
      /\ entry' = [entry EXCEPT ![Type(p)].bytes = @ + job[p].bytes] /\ job' = job /\ live' = live
  BY DEF AddBytes, Others
<1>3. EntriesExact'
  <2>1. at[p] = "add:bytes" /\ Steps(at, at', p, "added") /\ known' = known
    BY <1>2 DEF Goes, Steps
  <2> QED  BY <1>2, <2>1, EntriesAddBytes DEF Type
<1>4. entry' = [entry EXCEPT ![Type(p)] = e]  BY <1>2
<1>5. /\ "add:bytes" \in KnownAt \cap SharedAt /\ "added" \in KnownAt \cap SharedAt
      /\ "add:bytes" \in AddingAt /\ "added" \in AddingAt
      /\ "add:bytes" \notin RemovingAt /\ "added" \notin RemovingAt
  BY DEF KnownAt, SharedAt, AddingAt, RemovingAt, ToCount, ToUncount
<1> HIDE DEF e
<1> QED  BY <1>1, <1>2, <1>3, <1>4, <1>5, Changes

(* What is removed is always found. *)
LEMMA CountRemoved ==
  ASSUME AccountInv, NEW p \in Threads, RemoveCount(p)
  PROVE  AccountInv'
<1> DEFINE e == [entry[Type(p)] EXCEPT !.count = @ - 1]
<1>1. e \in [count : Int, bytes : Int]  BY EntryTypes
<1>2. Type(p) \in known
  <2>1. p \in ThreadsAt(KnownAt)
    BY DEF RemoveCount, Goes, ThreadsAt, KnownAt, RemovingAt, ToUncount
  <2> QED  BY <2>1 DEF Type, AccountInv, JobsInv
<1>3. /\ Goes(p, "remove:find", "remove:bytes") /\ UNCHANGED <<Others, spin, known>>
      /\ entry' = [entry EXCEPT ![Type(p)].count = @ - 1] /\ job' = job /\ live' = live
  BY <1>2 DEF RemoveCount, Others
<1>4. EntriesExact'
  <2>1. at[p] = "remove:find" /\ Steps(at, at', p, "remove:bytes") /\ known' = known
    BY <1>3 DEF Goes, Steps
  <2> QED  BY <1>3, <2>1, EntriesRemoveCount DEF Type
<1>5. entry' = [entry EXCEPT ![Type(p)] = e]  BY <1>3
<1>6. /\ "remove:find" \in KnownAt \cap SharedAt /\ "remove:bytes" \in KnownAt \cap SharedAt
      /\ "remove:find" \in RemovingAt /\ "remove:bytes" \in RemovingAt
      /\ "remove:find" \notin AddingAt /\ "remove:bytes" \notin AddingAt
  BY DEF KnownAt, SharedAt, AddingAt, RemovingAt, ToCount, ToUncount
<1> HIDE DEF e
<1> QED  BY <1>1, <1>3, <1>4, <1>5, <1>6, Changes

LEMMA BytesRemoved ==
  ASSUME AccountInv, NEW p \in Threads, RemoveBytes(p)
  PROVE  AccountInv'
<1> DEFINE e == [entry[Type(p)] EXCEPT !.bytes = @ - job[p].bytes]
<1>1. e \in [count : Int, bytes : Int]  BY EntryTypes
<1>2. /\ Goes(p, "remove:bytes", "removed") /\ UNCHANGED <<Others, spin, known>>
      /\ entry' = [entry EXCEPT ![Type(p)].bytes = @ - job[p].bytes] /\ job' = job /\ live' = live
  BY DEF RemoveBytes, Others
<1>3. EntriesExact'
  <2>1. at[p] = "remove:bytes" /\ Steps(at, at', p, "removed") /\ known' = known
    BY <1>2 DEF Goes, Steps
  <2> QED  BY <1>2, <2>1, EntriesRemoveBytes DEF Type
<1>4. entry' = [entry EXCEPT ![Type(p)] = e]  BY <1>2
<1>5. /\ "remove:bytes" \in KnownAt \cap SharedAt /\ "removed" \in KnownAt \cap SharedAt
      /\ "remove:bytes" \in RemovingAt /\ "removed" \in RemovingAt
      /\ "remove:bytes" \notin AddingAt /\ "removed" \notin AddingAt
  BY DEF KnownAt, SharedAt, AddingAt, RemovingAt, ToCount, ToUncount
<1> HIDE DEF e
<1> QED  BY <1>1, <1>2, <1>3, <1>4, <1>5, Changes

(* A beginning that grants nothing: n bytes are refused. *)
LEMMA Begin ==
  ASSUME AccountInv, NEW p \in Threads, NEW to \in {"idle", "consecutive", "read:lock"},
         at[p] \in {"idle", "consecutive"}, Steps(at, at', p, to),
         NEW c \in Blocks, Steps(job, job', p, c), NEW d \in Nat, Steps(calls, calls', p, d),
         (IF to = "consecutive" THEN d + 1 ELSE d) <= Next_n(p),
         NEW n \in Nat, used' = used + n, refused' = refused + n,
         UNCHANGED <<enforce, limit, spin, known, entry, live>>
  PROVE  AccountInv'
<1>1. to \in RestAt /\ at[p] \in RestAt  BY DEF RestAt
<1>2. calls' \in [Threads -> Nat] /\ calls'[p] = d /\ \A q \in Threads \ {p} : calls'[q] = calls[q]
  BY DEF Steps, AccountInv, AccountTypes
<1>3. JobsInv' /\ FreshInv' /\ RawInv' /\ EntriesExact'
  BY <1>1, <1>2, Quiet
<1>4. LockInv'
  <2>1. /\ to \notin UniqueAt /\ to \notin CountedAt /\ to \notin SharedAt
        /\ at[p] \notin CountedAt /\ at[p] \notin UniqueAt
    BY DEF UniqueAt, CountedAt, SharedAt
  <2> QED  BY <2>1, LockStays DEF Steps
<1>5. AccountTypes'
  <2>1. used' \in Nat /\ refused' \in Nat  BY DEF AccountInv, AccountTypes
  <2>2. at' \in [Threads -> BusyAt \cup RestAt] /\ job' \in [Threads -> Blocks]
    BY <1>1 DEF AccountInv, AccountTypes, Steps
  <2> QED  BY <1>2, <2>1, <2>2 DEF AccountInv, AccountTypes
<1>6. UsageInv'
  <2>1. used = BytesOf(live) + refused /\ refused \in Nat
    BY DEF AccountInv, AccountTypes, UsageInv
  <2>2. BytesOf(live) \in Nat  BY SumIsNat DEF AccountInv, AccountTypes
  <2>3. used' = BytesOf(live) + refused'  BY <2>1, <2>2
  <2> QED  BY <2>3 DEF AccountInv, UsageInv
<1> QED  BY <1>3, <1>4, <1>5, <1>6 DEF AccountInv

(* An increase of the usage, which is granted or refused. *)
LEMMA Takes ==
  ASSUME AccountInv, NEW p \in Threads, at[p] \in {"idle", "consecutive"},
         NEW b \in Blocks, b.owner = p, b.n = Next_n(p), Taken(p, b),
         b.type = Raw => b.bytes = LargestArray(b.asked, b.heap) * Granularity,
         NEW d \in Nat, Steps(calls, calls', p, d), d < b.n,
         UNCHANGED <<enforce, limit, spin, known, entry>>
  PROVE  AccountInv'
<1>1. b.bytes \in Nat /\ used' = used + b.bytes /\ used \in Nat /\ limit \in Nat
  BY DEF Taken, Blocks, AccountInv, AccountTypes
<1>2. calls'[p] = d  BY DEF Steps, AccountInv, AccountTypes
<1>3. CASE enforce = "throw" /\ limit > 0 /\ used + b.bytes > limit
  <2>1. /\ refused' = refused + b.bytes /\ Steps(at, at', p, "idle") /\ live' = live /\ job' = job
    BY <1>3 DEF Taken, Steps
  <2>2. job[p] \in Blocks /\ Steps(job, job', p, job[p])
    <3>1. job' = [job EXCEPT ![p] = job[p]]  BY <2>1 DEF AccountInv, AccountTypes
    <3> QED  BY <3>1 DEF Steps, AccountInv, AccountTypes
  <2>3. d <= Next_n(p)  BY DEF Blocks
  <2> QED  BY <1>1, <2>1, <2>2, <2>3, Begin
<1>4. CASE ~(enforce = "throw" /\ limit > 0 /\ used + b.bytes > limit)
  <2>1. /\ live' = live \cup {b} /\ Steps(job, job', p, b) /\ Steps(at, at', p, "add:lock")
        /\ refused' = refused
    BY <1>4 DEF Taken, Steps
  <2>2. enforce = "throw" /\ limit > 0 => used' <= limit  BY <1>1, <1>4
  <2>3. Steps(calls, calls', p, calls'[p])  BY <1>2
  <2> QED  BY <1>1, <1>2, <2>1, <2>2, <2>3, Granted
<1> QED  BY <1>3, <1>4

LEMMA Allocates ==
  ASSUME AccountInv, NEW p \in Threads, NEW t \in Types, Allocate(p, t)
  PROVE  AccountInv'
<1> DEFINE b == Block(p, calls[p], t, Bytes[t], 0, 0)
<1>1. /\ at[p] = "idle" /\ calls[p] > 0 /\ calls[p] \in Nat /\ Steps(calls, calls', p, calls[p] - 1)
      /\ Taken(p, b) /\ UNCHANGED <<enforce, limit, spin, known, entry>>
  BY DEF Allocate, Steps, AccountInv, AccountTypes
<1>2. b \in Blocks /\ b.owner = p /\ b.n = calls[p] /\ b.type # Raw
  BY <1>1, AccountingAssumption DEF Block, Blocks, AllTypes
<1>3. Next_n(p) = calls[p]  BY <1>1 DEF Next_n
<1>4. calls[p] - 1 \in Nat /\ calls[p] - 1 < calls[p]  BY <1>1
<1> HIDE DEF b
<1> QED  BY <1>1, <1>2, <1>3, <1>4, Takes

LEMMA TakesConsecutive ==
  ASSUME AccountInv, NEW p \in Threads, NEW heap \in Heaps, TakeConsecutive(p, heap)
  PROVE  AccountInv'
<1> DEFINE asked == job[p].asked
           r == LargestArray(asked, heap)
           b == Block(p, calls[p] + 1, Raw, r * Granularity, asked, heap)
<1>1. /\ at[p] = "consecutive" /\ calls[p] \in Nat /\ calls' = calls
      /\ Taken(p, b) /\ UNCHANGED <<enforce, limit, spin, known, entry>>
  BY DEF TakeConsecutive, AccountInv, AccountTypes
<1>2. asked \in Nat /\ heap \in Nat /\ Granularity \in Nat
  BY AccountingAssumption DEF AccountInv, AccountTypes, Blocks
<1>3. r \in Nat
  <2> HIDE DEF r
  <2>1. r \in 0 .. asked
    <3> HIDE DEF asked
    <3> QED  BY <1>2, LargestIs DEF r
  <2> QED  BY <2>1, <1>2
<1>4. r * Granularity \in Nat
  <2> HIDE DEF r
  <2> QED  BY <1>2, <1>3
<1>5. Steps(calls, calls', p, calls[p])
  <2>1. calls' = [calls EXCEPT ![p] = calls[p]]  BY <1>1 DEF AccountInv, AccountTypes
  <2> QED  BY <2>1 DEF Steps
<1>6. /\ b \in Blocks /\ b.owner = p /\ b.n = calls[p] + 1
      /\ b.bytes = LargestArray(b.asked, b.heap) * Granularity
  <2>1. b = [owner |-> p, n |-> calls[p] + 1, type |-> Raw, bytes |-> r * Granularity,
             asked |-> asked, heap |-> heap]
    BY DEF Block
  <2>2. Raw \in AllTypes /\ calls[p] + 1 \in Nat  BY <1>1 DEF AllTypes
  <2>3. r = LargestArray(asked, heap)  OBVIOUS
  <2> HIDE DEF r, asked, b
  <2> QED  BY <1>2, <1>4, <2>1, <2>2, <2>3 DEF Blocks
<1>7. Next_n(p) = calls[p] + 1  BY <1>1 DEF Next_n
<1>8. calls[p] < calls[p] + 1  BY <1>1
<1> HIDE DEF b, r, asked
<1> QED  BY <1>1, <1>5, <1>6, <1>7, <1>8, Takes

LEMMA Deallocates ==
  ASSUME AccountInv, NEW p \in Threads, NEW b \in live, Deallocate(p, b)
  PROVE  AccountInv'
<1>1. /\ at[p] = "idle" /\ calls[p] > 0 /\ Steps(at, at', p, "remove:lock")
      /\ Steps(calls, calls', p, calls[p] - 1) /\ Steps(job, job', p, b)
      /\ \A q \in Threads : at[q] # "idle" => job[q] # b
      /\ used' = used - b.bytes /\ live' = live \ {b}
      /\ UNCHANGED <<enforce, limit, spin, known, entry, refused>>
  BY DEF Deallocate, Begins, Steps
<1> QED  BY <1>1, Freed

LEMMA BeginsQuietly ==
  ASSUME AccountInv, NEW p \in Threads, Digest(p) \/ AskConsecutive(p)
  PROVE  AccountInv'
<1>1. NoBlock \in Blocks /\ \A k \in Nat : [NoBlock EXCEPT !.asked = k] \in Blocks
  <2>1. (CHOOSE q \in Threads : TRUE) \in Threads  OBVIOUS
  <2> QED  BY <2>1 DEF NoBlock, Block, Blocks, AllTypes
<1>2. /\ at[p] = "idle" /\ calls[p] \in Nat /\ calls[p] - 1 \in Nat
      /\ Steps(calls, calls', p, calls[p] - 1) /\ Next_n(p) = calls[p]
      /\ used' = used /\ refused' = refused /\ UNCHANGED <<enforce, limit, spin, known, entry, live>>
  BY DEF Digest, AskConsecutive, Begins, Steps, Next_n, AccountInv, AccountTypes
<1>3. used' = used + 0 /\ refused' = refused + 0  BY <1>2 DEF AccountInv, AccountTypes
<1>4. CASE Digest(p)
  <2>1. Steps(at, at', p, "read:lock") /\ Steps(job, job', p, NoBlock)
    BY <1>4 DEF Digest, Begins, Steps
  <2>2. calls[p] - 1 <= Next_n(p)  BY <1>2
  <2> QED  BY <1>1, <1>2, <1>3, <2>1, <2>2, Begin
<1>5. CASE AskConsecutive(p)
  <2> DEFINE k == Available \div Granularity
  <2>1. k \in Nat
    <3>1. Available \in Nat  BY DEF Available, AccountInv, AccountTypes
    <3> QED  BY <3>1, AccountingAssumption
  <2>2. Steps(at, at', p, "consecutive") /\ Steps(job, job', p, [NoBlock EXCEPT !.asked = k])
    BY <1>5 DEF AskConsecutive, Begins, Steps
  <2>3. (calls[p] - 1) + 1 <= Next_n(p)  BY <1>2
  <2> HIDE DEF k
  <2> QED  BY <1>1, <1>2, <1>3, <2>1, <2>2, <2>3, Begin
<1> QED  BY <1>4, <1>5

LEMMA Adds ==
  ASSUME AccountInv, NEW p \in Threads, AddStep(p)
  PROVE  AccountInv'
<1> USE DEF MayMove, SameSide, BusyAt, RestAt, AddingAt, RemovingAt, ToCount, ToUncount, SharedAt,
            CountedAt, UniqueAt, KnownAt
<1>1. MayMove("add:lock", "add:spin") /\ MayMove("add:spin", "add:find")  OBVIOUS
<1>2. MayMove("add:give_up", "insert:lock") /\ MayMove("insert:lock", "insert")  OBVIOUS
<1>3. MayMove("inserted", "add:again") /\ MayMove("add:again", "add:spin_again")  OBVIOUS
<1>4. MayMove("add:spin_again", "add:count") /\ MayMove("added", "idle")  OBVIOUS
<1>5. /\ {"add:spin", "add:spin_again"} \subseteq CountedAt \ SharedAt
      /\ {"add:find", "add:count", "add:give_up", "added"} \subseteq CountedAt
      /\ {"add:lock", "add:again", "insert:lock", "inserted", "idle", "insert"} \cap CountedAt = {}
      /\ {"insert", "inserted"} \subseteq UniqueAt
      /\ {"add:lock", "add:spin", "add:find", "add:give_up", "insert:lock", "add:again",
          "add:spin_again", "add:count", "added", "idle"} \cap UniqueAt = {}
      /\ {"add:spin", "add:find", "insert:lock", "insert", "idle"} \cap KnownAt = {}
      /\ {"inserted", "add:again", "add:spin_again", "add:count"} \subseteq KnownAt
  OBVIOUS
<1> HIDE DEF MayMove, SameSide, BusyAt, RestAt, AddingAt, RemovingAt, ToCount, ToUncount, SharedAt,
             CountedAt, UniqueAt, KnownAt
<1>6. CASE AcquireShared(p, "add:lock", "add:spin")  BY <1>1, <1>5, <1>6, SharedAcquired
<1>7. CASE SharedHad(p, "add:spin", "add:find")  BY <1>1, <1>5, <1>7, SharedIsHad
<1>8. CASE FindOrInsert(p)  BY <1>8, Find
<1>9. CASE ReleaseShared(p, "add:give_up", "insert:lock")  BY <1>2, <1>5, <1>9, SharedReleased
<1>10. CASE AcquireUnique(p, "insert:lock", "insert")  BY <1>2, <1>5, <1>10, UniqueAcquired
<1>11. CASE Insert(p)  BY <1>11, Inserts
<1>12. CASE ReleaseUnique(p, "inserted", "add:again")  BY <1>3, <1>5, <1>12, UniqueReleased
<1>13. CASE AcquireShared(p, "add:again", "add:spin_again")  BY <1>3, <1>5, <1>13, SharedAcquired
<1>14. CASE SharedHad(p, "add:spin_again", "add:count")  BY <1>4, <1>5, <1>14, SharedIsHad
<1>15. CASE AddCount(p)  BY <1>15, CountAdded
<1>16. CASE AddBytes(p)  BY <1>16, BytesAdded
<1>17. CASE ReleaseShared(p, "added", "idle")  BY <1>4, <1>5, <1>17, SharedReleased
<1> QED
  BY <1>6, <1>7, <1>8, <1>9, <1>10, <1>11, <1>12, <1>13, <1>14, <1>15, <1>16, <1>17 DEF AddStep

LEMMA RemovesOrReads ==
  ASSUME AccountInv, NEW p \in Threads, RemoveStep(p) \/ ReadStep(p)
  PROVE  AccountInv'
<1> USE DEF MayMove, SameSide, BusyAt, RestAt, AddingAt, RemovingAt, ToCount, ToUncount, SharedAt,
            CountedAt, UniqueAt, KnownAt
<1>1. MayMove("remove:lock", "remove:spin") /\ MayMove("remove:spin", "remove:find")  OBVIOUS
<1>2. MayMove("removed", "idle") /\ MayMove("read:lock", "read:spin")  OBVIOUS
<1>3. MayMove("read:spin", "read") /\ MayMove("read", "idle")  OBVIOUS
<1>4. /\ {"remove:spin", "read:spin"} \subseteq CountedAt \ SharedAt
      /\ {"remove:find", "removed", "read"} \subseteq CountedAt
      /\ {"remove:lock", "read:lock", "idle"} \cap CountedAt = {}
      /\ {"remove:lock", "remove:spin", "remove:find", "removed", "idle", "read:lock",
          "read:spin", "read"} \cap UniqueAt = {}
      /\ {"remove:lock", "remove:spin", "remove:find"} \subseteq KnownAt
      /\ {"idle", "read:spin", "read"} \cap KnownAt = {}
  OBVIOUS
<1> HIDE DEF MayMove, SameSide, BusyAt, RestAt, AddingAt, RemovingAt, ToCount, ToUncount, SharedAt,
             CountedAt, UniqueAt, KnownAt
<1>5. CASE AcquireShared(p, "remove:lock", "remove:spin")  BY <1>1, <1>4, <1>5, SharedAcquired
<1>6. CASE SharedHad(p, "remove:spin", "remove:find")  BY <1>1, <1>4, <1>6, SharedIsHad
<1>7. CASE RemoveCount(p)  BY <1>7, CountRemoved
<1>8. CASE RemoveBytes(p)  BY <1>8, BytesRemoved
<1>9. CASE ReleaseShared(p, "removed", "idle")  BY <1>2, <1>4, <1>9, SharedReleased
<1>10. CASE AcquireShared(p, "read:lock", "read:spin")  BY <1>2, <1>4, <1>10, SharedAcquired
<1>11. CASE SharedHad(p, "read:spin", "read")  BY <1>3, <1>4, <1>11, SharedIsHad
<1>12. CASE ReleaseShared(p, "read", "idle")  BY <1>3, <1>4, <1>12, SharedReleased
<1> QED
  BY <1>5, <1>6, <1>7, <1>8, <1>9, <1>10, <1>11, <1>12 DEF RemoveStep, ReadStep

LEMMA InvStep == AccountInv /\ AccountNext => AccountInv'
<1> SUFFICES ASSUME AccountInv, NEW p \in Threads,
                    \/ \E t \in Types : Allocate(p, t)
                    \/ \E block \in live : Deallocate(p, block)
                    \/ Digest(p) \/ AskConsecutive(p)
                    \/ \E heap \in Heaps : TakeConsecutive(p, heap)
                    \/ AddStep(p) \/ RemoveStep(p) \/ ReadStep(p)
             PROVE  AccountInv'
  BY DEF AccountNext
<1>1. ASSUME NEW t \in Types, Allocate(p, t) PROVE AccountInv'  BY <1>1, Allocates
<1>2. ASSUME NEW b \in live, Deallocate(p, b) PROVE AccountInv'  BY <1>2, Deallocates
<1>3. CASE Digest(p) \/ AskConsecutive(p)  BY <1>3, BeginsQuietly
<1>4. ASSUME NEW heap \in Heaps, TakeConsecutive(p, heap) PROVE AccountInv'
  BY <1>4, TakesConsecutive
<1>5. CASE AddStep(p)  BY <1>5, Adds
<1>6. CASE RemoveStep(p) \/ ReadStep(p)  BY <1>6, RemovesOrReads
<1> QED  BY <1>1, <1>2, <1>3, <1>4, <1>5, <1>6

LEMMA InvInit == AccountInit => AccountInv
<1> SUFFICES ASSUME AccountInit PROVE AccountInv  OBVIOUS
<1>1. BytesOf({}) = 0 /\ IsFiniteSet({}) /\ Cardinality({}) = 0  BY BytesOfEmpty, FS_EmptySet
<1>2. /\ "idle" \notin BusyAt /\ "idle" \notin UniqueAt /\ "idle" \notin CountedAt
      /\ "idle" \notin KnownAt /\ "idle" \notin ToCount /\ "idle" \notin ToUncount
      /\ "idle" \in RestAt
  BY DEF BusyAt, UniqueAt, CountedAt, SharedAt, KnownAt, AddingAt, RemovingAt, RestAt, ToCount, ToUncount
<1>3. \A W : "idle" \notin W => ThreadsAt(W) = {}  BY DEF AccountInit, ThreadsAt
<1>4. AddingAt \subseteq BusyAt /\ RemovingAt \subseteq BusyAt  BY DEF BusyAt
<1>5. AccountTypes
  <2>1. limit \in Nat /\ calls \in [Threads -> Nat]
    BY AccountingAssumption DEF AccountInit
  <2>2. ASSUME NEW p \in Threads PROVE NoBlock \in Blocks
    <3>1. (CHOOSE q \in Threads : TRUE) \in Threads  OBVIOUS
    <3> QED  BY <3>1 DEF NoBlock, Block, Blocks, AllTypes
  <2>3. job \in [Threads -> Blocks]
    <3>1. job = [p \in Threads |-> NoBlock]  BY DEF AccountInit
    <3> QED  BY <2>2, <3>1
  <2>4. at \in [Threads -> BusyAt \cup RestAt]  BY <1>2 DEF AccountInit
  <2> QED  BY <1>1, <2>1, <2>3, <2>4 DEF AccountInit, AccountTypes
<1>6. LockInv  BY <1>1, <1>2, <1>3 DEF AccountInit, LockInv
<1>7. /\ ThreadsAt(AddingAt) = {} /\ ThreadsAt(RemovingAt) = {} /\ ThreadsAt(BusyAt) = {}
      /\ ThreadsAt(KnownAt) = {}
  BY <1>2, <1>3, <1>4
<1>8. JobsInv /\ FreshInv /\ RawInv  BY <1>7 DEF AccountInit, JobsInv, FreshInv, RawInv
<1>9. UsageInv
  <2>1. limit \in Nat  BY <1>5 DEF AccountTypes
  <2> QED  BY <1>1, <2>1 DEF AccountInit, UsageInv
<1>10. EntriesExact
  <2>1. \A t : OfType(live, t) = {}  BY DEF AccountInit, OfType
  <2>2. \A t, W : "idle" \notin W => InTransit(at, job, t, W) = {}  BY DEF AccountInit, InTransit
  <2>3. "idle" \notin ToCount \cup {"add:bytes"} /\ "idle" \notin ToUncount \cup {"remove:bytes"}
    BY <1>2
  <2>4. ASSUME NEW t \in AllTypes
        PROVE  /\ CountIs(at, job, live, entry, t)
               /\ BytesAre(at, job, live, entry, t)
               /\ KnownIs(at, job, live, known, t)
    <3>1. entry[t].count = 0 /\ entry[t].bytes = 0  BY DEF AccountInit
    <3>2. /\ InTransit(at, job, t, ToCount) = {} /\ InTransit(at, job, t, ToUncount) = {}
          /\ InTransit(at, job, t, ToCount \cup {"add:bytes"}) = {}
          /\ InTransit(at, job, t, ToUncount \cup {"remove:bytes"}) = {}
      BY <1>2, <2>2, <2>3
    <3> QED  BY <1>1, <2>1, <3>1, <3>2 DEF CountIs, BytesAre, KnownIs
  <2> QED  BY <2>4, EntriesAre
<1> QED  BY <1>5, <1>6, <1>8, <1>9, <1>10 DEF AccountInv

-----------------------------------------------------------------------------
(* The invariant holds in every state of the registry.                       *)
THEOREM AccountInvariant == AccountSpec => []AccountInv
<1>1. ASSUME AccountInv, UNCHANGED accountVars PROVE AccountInv'
  <2>1. /\ enforce' = enforce /\ limit' = limit /\ used' = used /\ spin' = spin /\ known' = known
        /\ entry' = entry /\ at' = at /\ job' = job /\ live' = live /\ refused' = refused
        /\ calls' = calls
    BY <1>1 DEF accountVars
  <2>2. AccountTypes'  BY <1>1, <2>1 DEF AccountInv, AccountTypes
  <2>4. LockInv'  BY <1>1, <2>1 DEF AccountInv, LockInv, ThreadsAt
  <2>5. JobsInv'  BY <1>1, <2>1 DEF AccountInv, JobsInv, ThreadsAt
  <2>6. FreshInv'  BY <1>1, <2>1 DEF AccountInv, FreshInv, ThreadsAt, Next_n
  <2>7. RawInv' /\ UsageInv'  BY <1>1, <2>1 DEF AccountInv, RawInv, UsageInv
  <2>8. EntriesExact'  BY <1>1, <2>1, EntriesAre DEF AccountInv
  <2> QED  BY <2>2, <2>4, <2>5, <2>6, <2>7, <2>8 DEF AccountInv
<1>2. AccountInv /\ [AccountNext]_accountVars => AccountInv'  BY <1>1, InvStep
<1> QED  BY InvInit, <1>2, PTL DEF AccountSpec

(* Nobody reads the map while a thread adds an entry, the entries count what *)
(* is allocated, and the usage is what is live or was refused: whatever      *)
(* threads allocate, free and read at the same time.                         *)
THEOREM RegistryIsExact == AccountSpec => []RegistryExact
<1>1. ASSUME AccountInv PROVE RegistryExact
  <2>1. WriterAlone
    <3>1. Readers \subseteq ThreadsAt(SharedAt) /\ Writers \subseteq ThreadsAt(UniqueAt)
      BY DEF Readers, Writers, ThreadsAt, SharedAt, UniqueAt
    <3> SUFFICES ASSUME Writers # {} PROVE Readers = {} /\ Cardinality(Writers) = 1
      BY DEF WriterAlone
    <3>2. ThreadsAt(SharedAt) = {} /\ \E p \in Threads : ThreadsAt(UniqueAt) = {p}
      BY <1>1, <3>1 DEF AccountInv, LockInv
    <3>3. PICK p \in Threads : ThreadsAt(UniqueAt) = {p}  BY <3>2
    <3>4. Writers = {p}  BY <3>1, <3>3
    <3>5. Cardinality({p}) = 1  BY FS_Singleton
    <3> QED  BY <3>1, <3>2, <3>4, <3>5
  <2> QED  BY <1>1, <2>1 DEF AccountInv, UsageInv, RegistryExact
<1> QED  BY <1>1, AccountInvariant, PTL

(* What was granted is never more than the limit, and an array found by      *)
(* binary search is the largest that there is.                               *)
THEOREM GrantsAreWithinLimit == AccountSpec => []GrantsWithinLimit
<1>1. ASSUME AccountInv PROVE GrantsWithinLimit
  <2>1. enforce = "throw" /\ limit > 0 => BytesOf(live) <= limit
    BY <1>1 DEF AccountInv, UsageInv
  <2>2. ASSUME NEW b \in LiveOf(Raw)
        PROVE  b.bytes = Max({g * Granularity : g \in
                                {h \in 0 .. b.asked : h * Granularity <= b.heap}})
    <3> DEFINE G == {h \in 0 .. b.asked : h * Granularity <= b.heap}
               S == {g * Granularity : g \in G}
               r == LargestArray(b.asked, b.heap)
    <3>1. /\ b.asked \in Nat /\ b.heap \in Nat /\ Granularity \in Nat
          /\ b.bytes = r * Granularity
      BY <1>1, AccountingAssumption DEF LiveOf, AccountInv, AccountTypes, Blocks, RawInv
    <3>2. /\ r \in 0 .. b.asked /\ r * Granularity <= b.heap
          /\ \A g \in 0 .. b.asked : g * Granularity <= b.heap => g <= r
      BY <3>1, LargestIs
    <3> HIDE DEF r
    <3>3. r \in G /\ \A g \in G : g \in Nat /\ g <= r  BY <3>1, <3>2
    <3>4. \A g \in G : g * Granularity <= r * Granularity
      <4>1. r \in Nat  BY <3>1, <3>2
      <4> HIDE DEF G
      <4> SUFFICES ASSUME NEW g \in G PROVE g * Granularity <= r * Granularity  OBVIOUS
      <4>2. PICK d \in Nat : r = g + d  BY <3>3, <4>1
      <4>3. r * Granularity = g * Granularity + d * Granularity  BY <3>1, <3>3, <4>2
      <4>4. d * Granularity \in Nat /\ g * Granularity \in Nat  BY <3>1, <3>3, <4>2
      <4> QED  BY <4>3, <4>4
    <3>5. b.bytes \in S /\ S \subseteq Nat /\ \A s \in S : b.bytes >= s
      <4>1. \A g \in G : g * Granularity \in Nat
        <5> HIDE DEF G
        <5> QED  BY <3>1, <3>3
      <4> HIDE DEF G
      <4>2. b.bytes \in S /\ S \subseteq Nat  BY <3>1, <3>3, <4>1
      <4>3. \A s \in S : b.bytes >= s
        <5>1. b.bytes \in Nat  BY <3>1, <3>3, <4>1
        <5> QED  BY <3>1, <3>4, <4>1, <5>1
      <4> QED  BY <4>2, <4>3
    <3> HIDE DEF S
    <3>6. \A x \in S : (\A s \in S : x >= s) => x = b.bytes
      <4> HIDE DEF S, G
      <4>1. \A x, y \in Nat : x >= y /\ y >= x => x = y  OBVIOUS
      <4>2. b.bytes \in Nat  BY <3>5
      <4> QED  BY <3>5, <4>1, <4>2
    <3>7. Max(S) = b.bytes  BY <3>5, <3>6 DEF Max
    <3> QED  BY <3>7 DEF S
  <2> QED  BY <2>1, <2>2 DEF GrantsWithinLimit
<1> QED  BY <1>1, AccountInvariant, PTL
=============================================================================
