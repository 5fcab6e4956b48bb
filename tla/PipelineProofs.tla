--------------------------- MODULE PipelineProofs ---------------------------
(***************************************************************************)
(* Proofs about PhaseOrder and Pipeline, for every job.                     *)
(*                                                                         *)
(* The orders: whatever order of the phases get_phases() chooses respects   *)
(* the dependencies and keeps green edges' phases together, no such order   *)
(* needs fewer evacuations, and there is one to choose whenever there is    *)
(* such an order at all.  Paths() is first shown to be a transitive closure; *)
(* an order of classes, with every class put in order in its place, is an   *)
(* order of the nodes; and an order of the nodes in which a class's nodes   *)
(* follow one another orders the classes, so that what it satisfies can be  *)
(* counted class by class.                                                  *)
(*                                                                         *)
(* The run: go_until() takes such an order phase by phase, so that a node   *)
(* begins when what it depends on has ended.                                *)
(***************************************************************************)
EXTENDS Pipeline, FiniteSetTheorems, SequenceTheorems, WellFoundedInduction, TLAPS

-----------------------------------------------------------------------------
(* Finite sets, natural numbers and folds. *)

(* A set of subsets of a finite set has one that no removal of an element    *)
(* keeps in it.                                                              *)
LEMMA MinimalSubset ==
  ASSUME NEW S, IsFiniteSet(S), NEW Bad \in SUBSET SUBSET S, Bad # {}
  PROVE  \E T \in Bad : \A x \in T : T \ {x} \notin Bad
<1>1. FiniteSubsetsOf(S) = SUBSET S  BY FS_FiniteSubsetsOfFinite
<1>2. IsWellFoundedOn(StrictSubsetOrdering(S), SUBSET S)
  BY <1>1, FS_StrictSubsetOrderingWellFounded
<1>3. PICK T \in Bad : \A U \in Bad : ~(<<U, T>> \in StrictSubsetOrdering(S))
  BY <1>2, WFMin
<1>4. ASSUME NEW x \in T, T \ {x} \in Bad PROVE FALSE
  <2>1. <<T \ {x}, T>> \in StrictSubsetOrdering(S)  BY DEF StrictSubsetOrdering
  <2> QED  BY <1>3, <1>4, <2>1
<1> QED  BY <1>4

(* A set of natural numbers has a least. *)
LEMMA LeastOf ==
  ASSUME NEW P \in SUBSET Nat, P # {}
  PROVE  \E n \in P : \A m \in P : n <= m
<1> DEFINE R == OpToRel(<, Nat)
<1>1. PICK n \in P : \A k \in P : ~(<<k, n>> \in R)
  <2>1. IsWellFoundedOn(R, Nat)  BY NatLessThanWellFounded
  <2> HIDE DEF R
  <2> QED  BY <2>1, WFMin
<1>2. ASSUME NEW k \in P PROVE n <= k
  <2>1. k \in Nat /\ n \in Nat  BY <1>1
  <2>2. k < n => <<k, n>> \in R  BY <2>1 DEF OpToRel
  <2> HIDE DEF R
  <2>3. ~(<<k, n>> \in R)  BY <1>1
  <2> QED  BY <2>1, <2>2, <2>3
<1> QED  BY <1>1, <1>2

(* What MapThenFoldSet() defines, with a table for its operator. *)
Folded(S, base, c, H, f) ==
  f = [s \in SUBSET S |-> IF s = {} THEN base ELSE H[<<c[s], f[s \ {c[s]}]>>]]

(* Tables of a fold agree where both are defined. *)
LEMMA FoldUnique ==
  ASSUME NEW S, IsFiniteSet(S), NEW c, \A s \in SUBSET S : s # {} => c[s] \in s,
         NEW base, NEW H,
         NEW T \in SUBSET S, NEW U \in SUBSET S, NEW f, NEW g,
         Folded(T, base, c, H, f), Folded(U, base, c, H, g), NEW t \in SUBSET (T \cap U)
  PROVE  f[t] = g[t]
<1> DEFINE Bad == {s \in SUBSET (T \cap U) : f[s] # g[s]}
<1> SUFFICES ASSUME Bad # {} PROVE FALSE  OBVIOUS
<1>1. PICK s \in Bad : \A x \in s : s \ {x} \notin Bad
  <2>1. Bad \in SUBSET SUBSET S  OBVIOUS
  <2> HIDE DEF Bad
  <2> QED  BY <2>1, MinimalSubset
<1>2. s \in SUBSET T /\ s \in SUBSET U /\ s \in SUBSET S  OBVIOUS
<1>3. f[s] = IF s = {} THEN base ELSE H[<<c[s], f[s \ {c[s]}]>>]  BY <1>2 DEF Folded
<1>4. g[s] = IF s = {} THEN base ELSE H[<<c[s], g[s \ {c[s]}]>>]  BY <1>2 DEF Folded
<1>5. s # {}  BY <1>3, <1>4
<1>6. c[s] \in s  BY <1>2, <1>5
<1>7. f[s \ {c[s]}] = g[s \ {c[s]}]  BY <1>1, <1>6
<1> QED  BY <1>3, <1>4, <1>5, <1>7

(* The recursive function of a fold over a finite set exists. *)
LEMMA FoldExists ==
  ASSUME NEW S, IsFiniteSet(S), NEW c, \A s \in SUBSET S : s # {} => c[s] \in s,
         NEW base, NEW H
  PROVE  \E f : Folded(S, base, c, H, f)
<1> DEFINE Bad == {T \in SUBSET S : ~ \E f : Folded(T, base, c, H, f)}
<1> SUFFICES ASSUME Bad # {} PROVE FALSE  OBVIOUS
<1>1. PICK T \in Bad : \A x \in T : T \ {x} \notin Bad
  <2>1. Bad \in SUBSET SUBSET S  OBVIOUS
  <2> HIDE DEF Bad
  <2> QED  BY <2>1, MinimalSubset
<1> DEFINE Has(u) == \E f : Folded(u, base, c, H, f)
           F(u) == CHOOSE f : Folded(u, base, c, H, f)
           val(u) == F(u)[u]
<1>2. ASSUME NEW u \in SUBSET T, u # T PROVE Has(u)
  <2>1. PICK x \in T : u \subseteq T \ {x}  BY <1>2
  <2>2. PICK f : Folded(T \ {x}, base, c, H, f)  BY <1>1
  <2> DEFINE g == [s \in SUBSET u |-> f[s]]
  <2>3. \A s \in SUBSET u : s # {} => c[s] \in s /\ s \ {c[s]} \in SUBSET u  OBVIOUS
  <2>4. \A s \in SUBSET u : g[s] = IF s = {} THEN base ELSE H[<<c[s], g[s \ {c[s]}]>>]
    <3> TAKE s \in SUBSET u
    <3>1. f[s] = IF s = {} THEN base ELSE H[<<c[s], f[s \ {c[s]}]>>]
      BY <2>1, <2>2 DEF Folded
    <3> QED  BY <2>3, <3>1
  <2>5. g = [s \in SUBSET u |-> g[s]]  OBVIOUS
  <2> HIDE DEF g
  <2>6. Folded(u, base, c, H, g)  BY <2>4, <2>5 DEF Folded
  <2> QED  BY <2>6
<1>3. ASSUME NEW u \in SUBSET T, u # T PROVE Folded(u, base, c, H, F(u))
  BY <1>2, <1>3
<1> DEFINE f == [s \in SUBSET T |-> IF s = {} THEN base ELSE H[<<c[s], val(s \ {c[s]})>>]]
<1>4. ASSUME NEW u \in SUBSET T, u # T PROVE f[u] = val(u)
  <2>1. val(u) = IF u = {} THEN base ELSE H[<<c[u], F(u)[u \ {c[u]}]>>]
    <3>1. Folded(u, base, c, H, F(u))  BY <1>3, <1>4
    <3> HIDE DEF F
    <3>2. u \in SUBSET u  OBVIOUS
    <3> QED  BY <3>1, <3>2 DEF Folded
  <2>2. CASE u = {}
    BY <2>1, <2>2
  <2>3. CASE u # {}
    <3> DEFINE w == u \ {c[u]}
    <3>1. c[u] \in u /\ w \in SUBSET T /\ w # T /\ w \in SUBSET (u \cap w)
      BY <2>3, <1>4
    <3>2. Folded(u, base, c, H, F(u)) /\ Folded(w, base, c, H, F(w))
      BY <1>3, <1>4, <3>1
    <3> HIDE DEF F, w
    <3>3. F(u)[w] = F(w)[w]  BY <3>1, <3>2, FoldUnique
    <3> QED  BY <2>1, <2>3, <3>3 DEF w
  <2> QED  BY <2>2, <2>3
<1>5. \A s \in SUBSET T : s # {} => val(s \ {c[s]}) = f[s \ {c[s]}]
  <2> TAKE s \in SUBSET T
  <2> HAVE s # {}
  <2>1. c[s] \in s /\ s \ {c[s]} \in SUBSET T /\ s \ {c[s]} # T  OBVIOUS
  <2> HIDE DEF f, val
  <2> QED  BY <2>1, <1>4
<1>6. Folded(T, base, c, H, f)
  <2>1. \A s \in SUBSET T : f[s] = IF s = {} THEN base ELSE H[<<c[s], f[s \ {c[s]}]>>]
    <3> TAKE s \in SUBSET T
    <3>1. f[s] = IF s = {} THEN base ELSE H[<<c[s], val(s \ {c[s]})>>]  OBVIOUS
    <3> HIDE DEF f, val
    <3> QED  BY <3>1, <1>5
  <2>2. f = [s \in SUBSET T |-> f[s]]  OBVIOUS
  <2> HIDE DEF f
  <2> QED  BY <2>1, <2>2 DEF Folded
<1> QED  BY <1>1, <1>6

-----------------------------------------------------------------------------
(* Paths() is the transitive closure. *)

Transitive(R, S) == \A u, v, w \in S : <<u, v>> \in R /\ <<v, w>> \in R => <<u, w>> \in R

(* The least transitive relation on S that contains E. *)
Closure(P, S, E) ==
  /\ E \subseteq P /\ P \subseteq S \X S /\ Transitive(P, S)
  /\ \A R \in SUBSET (S \X S) : E \subseteq R /\ Transitive(R, S) => P \subseteq R

Through(S, w, known) ==
  known \cup {p \in S \X S : <<p[1], w>> \in known /\ <<w, p[2]>> \in known}

PathTable(S, E, f) ==
  /\ \A s \in SUBSET S : f[s] \in SUBSET (S \X S)
  /\ f[{}] = E /\ f[S] = Paths(S, E)
  /\ \A s \in SUBSET S : s # {} => \E x \in s : f[s] = Through(S, x, f[s \ {x}])

(* The table from which Paths() is read. *)
LEMMA PathsFold ==
  ASSUME NEW S, IsFiniteSet(S), NEW E \in SUBSET (S \X S)
  PROVE  \E f : PathTable(S, E, f)
<1> DEFINE c == [s \in SUBSET S |-> CHOOSE x \in s : TRUE]
           Pairs == SUBSET (S \X S)
           H == [z \in S \X Pairs |-> Through(S, z[1], z[2])]
<1>1. \A s \in SUBSET S : s # {} => c[s] \in s  OBVIOUS
<1>2. \A x \in S, K \in Pairs : Through(S, x, K) \in Pairs /\ H[<<x, K>>] = Through(S, x, K)
  BY DEF Through
<1>3. PICK f : Folded(S, E, c, H, f)
  <2> HIDE DEF c, H
  <2> QED  BY <1>1, FoldExists
<1>4. \A s \in SUBSET S : f[s] = IF s = {} THEN E ELSE H[<<c[s], f[s \ {c[s]}]>>]
  BY <1>3 DEF Folded
<1> HIDE DEF H
<1>5. \A s \in SUBSET S : f[s] \in Pairs
  <2> DEFINE Bad == {s \in SUBSET S : f[s] \notin Pairs}
  <2> SUFFICES ASSUME Bad # {} PROVE FALSE  OBVIOUS
  <2>1. PICK s \in Bad : \A x \in s : s \ {x} \notin Bad
    <3>1. Bad \in SUBSET SUBSET S  OBVIOUS
    <3> HIDE DEF Bad
    <3> QED  BY <3>1, MinimalSubset
  <2> HIDE DEF c
  <2>2. s # {}  BY <1>4
  <2>3. c[s] \in s  BY <1>1, <2>2
  <2>4. f[s \ {c[s]}] \in Pairs  BY <2>1, <2>3
  <2>5. f[s] = H[<<c[s], f[s \ {c[s]}]>>]  BY <1>4, <2>2
  <2>6. c[s] \in S /\ s \in SUBSET S  BY <2>3
  <2> HIDE DEF Pairs
  <2>7. H[<<c[s], f[s \ {c[s]}]>>] \in Pairs  BY <1>2, <2>4, <2>6
  <2> QED  BY <2>5, <2>7
<1>6. \A s \in SUBSET S : s # {} => f[s] = Through(S, c[s], f[s \ {c[s]}])
  <2> TAKE s \in SUBSET S
  <2> HAVE s # {}
  <2>1. c[s] \in S /\ s \ {c[s]} \in SUBSET S  BY <1>1
  <2> HIDE DEF c
  <2>2. f[s] = H[<<c[s], f[s \ {c[s]}]>>]  BY <1>4
  <2> QED  BY <1>2, <1>5, <2>1, <2>2
<1> DEFINE chosen(s) == CHOOSE x \in s : TRUE
           Fold(g) == g = [s \in SUBSET S |->
                             IF s = {} THEN E ELSE Through(S, chosen(s), g[s \ {chosen(s)}])]
<1>7. Fold(f)
  <2>1. f = [s \in SUBSET S |-> f[s]]  BY <1>3 DEF Folded
  <2>2. \A s \in SUBSET S : f[s] = IF s = {} THEN E ELSE Through(S, chosen(s), f[s \ {chosen(s)}])
    BY <1>4, <1>6
  <2> HIDE DEF chosen
  <2> QED  BY <2>1, <2>2
<1>8. ASSUME NEW g, Fold(g) PROVE g[S] = f[S]
  <2> DEFINE Bad == {s \in SUBSET S : g[s] # f[s]}
  <2> SUFFICES ASSUME Bad # {} PROVE FALSE  OBVIOUS
  <2>1. PICK s \in Bad : \A x \in s : s \ {x} \notin Bad
    <3>1. Bad \in SUBSET SUBSET S  OBVIOUS
    <3> HIDE DEF Bad
    <3> QED  BY <3>1, MinimalSubset
  <2>2. g[s] = IF s = {} THEN E ELSE Through(S, chosen(s), g[s \ {chosen(s)}])
    <3> HIDE DEF chosen
    <3> QED  BY <1>8
  <2>3. f[s] = IF s = {} THEN E ELSE Through(S, chosen(s), f[s \ {chosen(s)}])
    <3> HIDE DEF chosen
    <3> QED  BY <1>7
  <2>4. s # {}  BY <2>2, <2>3
  <2>5. chosen(s) \in s  BY <2>4
  <2> HIDE DEF chosen
  <2> QED  BY <2>1, <2>2, <2>3, <2>4, <2>5
<1>9. Paths(S, E) = (CHOOSE g : Fold(g))[S]
  BY DEF Paths, FoldSet, MapThenFoldSet, Through
<1>10. Paths(S, E) = f[S]
  <2> HIDE DEF Fold
  <2> QED  BY <1>7, <1>8, <1>9
<1> HIDE DEF c
<1>11. f[{}] = E  BY <1>4
<1> QED  BY <1>1, <1>5, <1>6, <1>10, <1>11 DEF PathTable

(* Paths() is the least transitive relation that holds the edges. *)
LEMMA PathsAreClosure ==
  ASSUME NEW S, IsFiniteSet(S), NEW E \in SUBSET (S \X S)
  PROVE  Closure(Paths(S, E), S, E)
<1>0. PICK f : PathTable(S, E, f)  BY PathsFold
<1>1. /\ \A s \in SUBSET S : f[s] \in SUBSET (S \X S)
      /\ f[{}] = E /\ f[S] = Paths(S, E)
      /\ \A s \in SUBSET S : s # {} => \E x \in s : f[s] = Through(S, x, f[s \ {x}])
  BY <1>0 DEF PathTable
<1> DEFINE Good(s) ==
             /\ E \subseteq f[s]
             /\ \A u, v \in S, w \in s : <<u, w>> \in f[s] /\ <<w, v>> \in f[s] => <<u, v>> \in f[s]
             /\ \A R \in SUBSET (S \X S) : E \subseteq R /\ Transitive(R, S) => f[s] \subseteq R
<1>2. ASSUME NEW s \in SUBSET S, NEW x \in s, Good(s \ {x}), f[s] = Through(S, x, f[s \ {x}])
      PROVE  Good(s)
  <2> DEFINE K == f[s \ {x}]
             L == f[s]
  <2>1. K \in SUBSET (S \X S) /\ x \in S  BY <1>1
  <2>2. \A u, v \in S : <<u, v>> \in L <=> <<u, v>> \in K \/ (<<u, x>> \in K /\ <<x, v>> \in K)
    BY <1>2 DEF Through
  <2>3. \A u, v \in S, w \in s \ {x} : <<u, w>> \in K /\ <<w, v>> \in K => <<u, v>> \in K
    BY <1>2
  <2>4. E \subseteq L  BY <1>2 DEF Through
  <2>5. \A R \in SUBSET (S \X S) : E \subseteq R /\ Transitive(R, S) => K \subseteq R
    BY <1>2
  <2>6. L \in SUBSET (S \X S)  BY <1>1
  <2> HIDE DEF K, L
  <2>7. ASSUME NEW u \in S, NEW v \in S, NEW w \in s, <<u, w>> \in L, <<w, v>> \in L
        PROVE  <<u, v>> \in L
    <3>1. w \in S  OBVIOUS
    <3>2. <<u, w>> \in K \/ (<<u, x>> \in K /\ <<x, w>> \in K)  BY <2>2, <2>7, <3>1
    <3>3. <<w, v>> \in K \/ (<<w, x>> \in K /\ <<x, v>> \in K)  BY <2>2, <2>7, <3>1
    <3>4. CASE w = x  BY <2>1, <2>2, <3>2, <3>3, <3>4
    <3>5. CASE w # x
      <4>1. w \in s \ {x}  BY <3>5
      <4> QED  BY <2>1, <2>2, <2>3, <3>2, <3>3, <4>1
    <3> QED  BY <3>4, <3>5
  <2>8. ASSUME NEW R \in SUBSET (S \X S), E \subseteq R, Transitive(R, S)
        PROVE  L \subseteq R
    <3>1. K \subseteq R  BY <2>5, <2>8
    <3>2. ASSUME NEW p \in L PROVE p \in R
      <4>1. PICK u \in S, v \in S : p = <<u, v>>  BY <2>6
      <4>2. <<u, v>> \in K \/ (<<u, x>> \in K /\ <<x, v>> \in K)  BY <2>2, <4>1
      <4> QED  BY <2>1, <2>8, <3>1, <4>1, <4>2 DEF Transitive
    <3> QED  BY <3>2
  <2> QED  BY <2>4, <2>7, <2>8 DEF L
<1>3. \A s \in SUBSET S : Good(s)
  <2> DEFINE Bad == {s \in SUBSET S : ~Good(s)}
  <2> SUFFICES ASSUME Bad # {} PROVE FALSE  OBVIOUS
  <2>1. PICK s \in Bad : \A x \in s : s \ {x} \notin Bad
    <3>1. Bad \in SUBSET SUBSET S  OBVIOUS
    <3> HIDE DEF Bad
    <3> QED  BY <3>1, MinimalSubset
  <2>2. Good({})  BY <1>1
  <2> HIDE DEF Good
  <2>3. s # {} /\ s \in SUBSET S  BY <2>2
  <2>4. PICK x \in s : f[s] = Through(S, x, f[s \ {x}])  BY <1>1, <2>3
  <2>5. Good(s \ {x})  BY <2>1, <2>3
  <2> QED  BY <1>2, <2>3, <2>4, <2>5
<1>4. Good(S) /\ f[S] \in SUBSET (S \X S)
  <2> HIDE DEF Good
  <2>1. S \in SUBSET S  OBVIOUS
  <2> QED  BY <1>1, <1>3, <2>1
<1> QED  BY <1>1, <1>4 DEF Closure, Transitive

(* There is one such relation. *)
LEMMA ClosureUnique ==
  ASSUME NEW S, NEW E, NEW P, NEW Q, Closure(P, S, E), Closure(Q, S, E)
  PROVE  P = Q
BY DEF Closure

(* A path ends with an edge, and begins with one. *)
LEMMA LastEdge ==
  ASSUME NEW S, NEW E \in SUBSET (S \X S), NEW P, Closure(P, S, E),
         NEW u \in S, NEW v \in S, <<u, v>> \in P
  PROVE  <<u, v>> \in E \/ \E w \in S : <<u, w>> \in P /\ <<w, v>> \in E
<1> DEFINE R == {p \in S \X S : p \in P /\ (p \in E \/ \E w \in S : <<p[1], w>> \in P /\ <<w, p[2]>> \in E)}
<1>1. E \subseteq R  BY DEF Closure
<1>2. \A a, b \in S : <<a, b>> \in R <=>
        <<a, b>> \in P /\ (<<a, b>> \in E \/ \E w \in S : <<a, w>> \in P /\ <<w, b>> \in E)
  OBVIOUS
<1>3. R \in SUBSET (S \X S)  OBVIOUS
<1> HIDE DEF R
<1>4. Transitive(R, S)
  <2>1. SUFFICES ASSUME NEW a \in S, NEW b \in S, NEW d \in S, <<a, b>> \in R, <<b, d>> \in R
                 PROVE  <<a, d>> \in R
    BY DEF Transitive
  <2>2. <<a, b>> \in P /\ <<b, d>> \in P  BY <1>2, <2>1
  <2>3. <<a, d>> \in P  BY <2>2 DEF Closure, Transitive
  <2>4. <<b, d>> \in E \/ \E w \in S : <<b, w>> \in P /\ <<w, d>> \in E  BY <1>2, <2>1
  <2>5. \A w \in S : <<b, w>> \in P => <<a, w>> \in P  BY <2>2 DEF Closure, Transitive
  <2> QED  BY <1>2, <2>2, <2>3, <2>4, <2>5
<1>5. P \subseteq R  BY <1>1, <1>3, <1>4 DEF Closure
<1> QED  BY <1>2, <1>5

(* The closure of a symmetric relation is symmetric. *)
LEMMA ClosureSymmetric ==
  ASSUME NEW S, NEW E \in SUBSET (S \X S), NEW P, Closure(P, S, E),
         \A u, v \in S : <<u, v>> \in E => <<v, u>> \in E,
         NEW u \in S, NEW v \in S, <<u, v>> \in P
  PROVE  <<v, u>> \in P
<1> DEFINE R == {p \in S \X S : <<p[2], p[1]>> \in P}
<1>1. \A a, b \in S : <<a, b>> \in R <=> <<b, a>> \in P  OBVIOUS
<1>2. R \in SUBSET (S \X S)  OBVIOUS
<1>3. E \subseteq R
  <2>1. ASSUME NEW e \in E PROVE e \in R
    <3>1. PICK a \in S, b \in S : e = <<a, b>>  OBVIOUS
    <3>2. <<b, a>> \in P  BY <3>1 DEF Closure
    <3> QED  BY <3>1, <3>2
  <2> QED  BY <2>1
<1> HIDE DEF R
<1>4. Transitive(R, S)  BY <1>1 DEF Closure, Transitive
<1>5. P \subseteq R  BY <1>2, <1>3, <1>4 DEF Closure
<1> QED  BY <1>1, <1>5

-----------------------------------------------------------------------------
(* Classes. *)

Partition(C, S) ==
  /\ UNION C = S /\ {} \notin C
  /\ \A c, d \in C, u \in S : u \in c /\ u \in d => c = d

(* In a partition a node is in its class and in no other. *)
LEMMA PartitionClass ==
  ASSUME NEW S, NEW C, Partition(C, S), NEW u \in S
  PROVE  /\ ClassOf(C, u) \in C /\ u \in ClassOf(C, u)
         /\ \A c \in C : u \in c => c = ClassOf(C, u)
<1>1. \E c \in C : u \in c  BY DEF Partition
<1>2. ClassOf(C, u) \in C /\ u \in ClassOf(C, u)  BY <1>1 DEF ClassOf
<1> QED  BY <1>2 DEF Partition

(* Classes of a finite set are finite, and so is their number. *)
LEMMA PartitionFinite ==
  ASSUME NEW S, IsFiniteSet(S), NEW C, Partition(C, S)
  PROVE  IsFiniteSet(C) /\ \A c \in C : IsFiniteSet(c) /\ c \in SUBSET S
<1>1. C \subseteq SUBSET S  BY DEF Partition
<1>2. IsFiniteSet(SUBSET S)  BY FS_SUBSET
<1>3. IsFiniteSet(C)  BY <1>1, <1>2, FS_Subset
<1>4. \A c \in C : IsFiniteSet(c)  BY <1>1, FS_Subset
<1> QED  BY <1>1, <1>3, <1>4

(* The classes of an equivalence relation. *)
LEMMA EquivalencePartition ==
  ASSUME NEW S, NEW R, Transitive(R, S), \A u, v \in S : <<u, v>> \in R => <<v, u>> \in R
  PROVE  Partition({{v \in S : v = u \/ <<u, v>> \in R} : u \in S}, S)
<1> DEFINE of(u) == {v \in S : v = u \/ <<u, v>> \in R}
           C == {of(u) : u \in S}
<1>1. \A u \in S : u \in of(u) /\ of(u) \subseteq S  OBVIOUS
<1>2. ASSUME NEW u \in S, NEW w \in of(u) PROVE of(w) = of(u)
  <2>1. w \in S /\ (w = u \/ (<<u, w>> \in R /\ <<w, u>> \in R))  OBVIOUS
  <2>2. ASSUME NEW v \in S, <<w, v>> \in R, w # u PROVE v \in of(u)
    BY <2>1, <2>2 DEF Transitive
  <2>3. ASSUME NEW v \in S, <<u, v>> \in R, w # u PROVE v \in of(w)
    BY <2>1, <2>3 DEF Transitive
  <2> QED  BY <2>1, <2>2, <2>3
<1>3. UNION C = S /\ {} \notin C  BY <1>1
<1>4. ASSUME NEW c \in C, NEW d \in C, NEW u \in S, u \in c, u \in d PROVE c = d
  <2>1. PICK a \in S, b \in S : c = of(a) /\ d = of(b)  OBVIOUS
  <2> HIDE DEF of
  <2>2. of(u) = of(a) /\ of(u) = of(b)  BY <1>2, <1>4, <2>1
  <2> QED  BY <2>1, <2>2
<1> QED  BY <1>3, <1>4 DEF Partition

Reversed(E) == {<<p[2], p[1]>> : p \in E}

(* Edges turned around. *)
LEMMA ReversedIn ==
  ASSUME NEW S, NEW E \in SUBSET (S \X S)
  PROVE  /\ Reversed(E) \in SUBSET (S \X S)
         /\ \A u, v \in S : <<u, v>> \in Reversed(E) <=> <<v, u>> \in E
<1>1. \A p \in E : p[1] \in S /\ p[2] \in S /\ p = <<p[1], p[2]>>  OBVIOUS
<1>2. ASSUME NEW u \in S, NEW v \in S, <<u, v>> \in Reversed(E) PROVE <<v, u>> \in E
  BY <1>1, <1>2 DEF Reversed
<1>3. ASSUME NEW u \in S, NEW v \in S, <<v, u>> \in E PROVE <<u, v>> \in Reversed(E)
  BY <1>3 DEF Reversed
<1>4. Reversed(E) \in SUBSET (S \X S)  BY <1>1 DEF Reversed
<1> QED  BY <1>2, <1>3, <1>4

(* disjoint_sets: classes are a partition. *)
LEMMA ClassesPartition ==
  ASSUME NEW S, IsFiniteSet(S), NEW E \in SUBSET (S \X S)
  PROVE  Partition(Classes(S, E), S)
<1> DEFINE F == E \cup Reversed(E)
           P == Paths(S, F)
<1>1. F \in SUBSET (S \X S) /\ \A u, v \in S : <<u, v>> \in F => <<v, u>> \in F
  BY ReversedIn
<1>2. Classes(S, E) = {{v \in S : v = u \/ <<u, v>> \in P} : u \in S}
  BY DEF Classes, Reversed
<1> HIDE DEF F
<1>3. Closure(P, S, F)  BY <1>1, PathsAreClosure
<1> HIDE DEF P
<1>4. \A u, v \in S : <<u, v>> \in P => <<v, u>> \in P  BY <1>1, <1>3, ClosureSymmetric
<1>5. Transitive(P, S)  BY <1>3 DEF Closure
<1> QED  BY <1>2, <1>4, <1>5, EquivalencePartition

(* Two nodes of a class are in any equivalence relation that has the pairs. *)
LEMMA ClassesLeast ==
  ASSUME NEW S, IsFiniteSet(S), NEW E \in SUBSET (S \X S),
         NEW R \in SUBSET (S \X S), Transitive(R, S), E \subseteq R,
         \A u, v \in S : <<u, v>> \in R => <<v, u>> \in R,
         NEW c \in Classes(S, E), NEW u \in c, NEW v \in c, u # v
  PROVE  <<u, v>> \in R
<1> DEFINE F == E \cup Reversed(E)
           P == Paths(S, F)
<1>1. F \in SUBSET (S \X S) /\ F \subseteq R
  <2>1. ASSUME NEW p \in Reversed(E) PROVE p \in R
    <3>1. PICK a \in S, b \in S : p = <<a, b>>  BY ReversedIn
    <3>2. <<b, a>> \in E  BY <3>1, ReversedIn
    <3> QED  BY <3>1, <3>2
  <2> QED  BY <2>1, ReversedIn
<1>2. Classes(S, E) = {{b \in S : b = a \/ <<a, b>> \in P} : a \in S}
  BY DEF Classes, Reversed
<1> HIDE DEF F
<1>3. Closure(P, S, F)  BY <1>1, PathsAreClosure
<1> HIDE DEF P
<1>4. P \subseteq R  BY <1>1, <1>3 DEF Closure
<1>5. PICK a \in S : c = {b \in S : b = a \/ <<a, b>> \in P}  BY <1>2
<1>6. u \in S /\ v \in S /\ (u = a \/ <<a, u>> \in R) /\ (v = a \/ <<a, v>> \in R)
  BY <1>4, <1>5
<1> QED  BY <1>6 DEF Transitive

(* Pairs are within a class. *)
LEMMA ClassesJoin ==
  ASSUME NEW S, IsFiniteSet(S), NEW E \in SUBSET (S \X S), NEW u \in S, NEW v \in S,
         <<u, v>> \in E
  PROVE  ClassOf(Classes(S, E), u) = ClassOf(Classes(S, E), v)
<1> DEFINE F == E \cup Reversed(E)
           P == Paths(S, F)
           of(a) == {b \in S : b = a \/ <<a, b>> \in P}
<1>1. F \in SUBSET (S \X S) /\ <<u, v>> \in F  BY ReversedIn
<1>2. Classes(S, E) = {of(a) : a \in S}  BY DEF Classes, Reversed
<1> HIDE DEF F
<1>3. Closure(P, S, F)  BY <1>1, PathsAreClosure
<1> HIDE DEF P
<1>4. u \in of(u) /\ v \in of(u)  BY <1>1, <1>3 DEF Closure
<1>5. of(u) \in Classes(S, E)  BY <1>2
<1>6. Partition(Classes(S, E), S)  BY ClassesPartition
<1> HIDE DEF of
<1> QED  BY <1>4, <1>5, <1>6, PartitionClass

(* split_graph(): components are a partition. *)
LEMMA ComponentsPartition ==
  ASSUME NEW g, IsFiniteSet(g.nodes), g.edges \in SUBSET (g.nodes \X g.nodes),
         g.red \in SUBSET (g.nodes \X g.nodes)
  PROVE  Partition(Components(g), g.nodes)
<1> DEFINE S == g.nodes
           F == g.edges \cup Reversed(g.red)
           P == Paths(S, F)
           R == {p \in S \X S : p \in P /\ <<p[2], p[1]>> \in P}
<1>1. F \in SUBSET (S \X S)  BY ReversedIn
<1>2. Components(g) = {{v \in S : v = u \/ {<<u, v>>, <<v, u>>} \subseteq P} : u \in S}
  BY DEF Components, Reversed
<1>3. \A u, v \in S : <<u, v>> \in R <=> {<<u, v>>, <<v, u>>} \subseteq P  OBVIOUS
<1> HIDE DEF F, P, R
<1>4. Closure(P, S, F)  BY <1>1, PathsAreClosure DEF P
<1>5. Transitive(R, S) /\ \A u, v \in S : <<u, v>> \in R => <<v, u>> \in R
  BY <1>3, <1>4 DEF Closure, Transitive
<1> HIDE DEF S
<1> DEFINE of(u) == {v \in S : v = u \/ {<<u, v>>, <<v, u>>} \subseteq P}
           as(u) == {v \in S : v = u \/ <<u, v>> \in R}
<1>6. \A u \in S : of(u) = as(u)  BY <1>3
<1>7. Components(g) = {as(u) : u \in S}
  <2>1. Components(g) = {of(u) : u \in S}  BY <1>2
  <2> HIDE DEF of, as
  <2> QED  BY <2>1, <1>6
<1>8. Partition(Components(g), S)  BY <1>5, <1>7, EquivalencePartition
<1> QED  BY <1>8 DEF S

-----------------------------------------------------------------------------
(* Orders. *)

Enumerates(o, S) ==
  /\ o \in Seq(S)
  /\ \A x \in S : \E k \in 1 .. Len(o) : o[k] = x
  /\ \A k, m \in 1 .. Len(o) : o[k] = o[m] => k = m

Before(o, u, v) == \E k, m \in 1 .. Len(o) : k < m /\ o[k] = u /\ o[m] = v

Ordered(o, S, E) == Enumerates(o, S) /\ \A u, v \in S : <<u, v>> \in E => Before(o, u, v)

(* Nothing comes before itself in an order. *)
LEMMA BeforeStrict ==
  ASSUME NEW o, NEW S, Enumerates(o, S), NEW u, NEW v, Before(o, u, v)
  PROVE  u # v /\ ~Before(o, v, u) /\ u \in S /\ v \in S
<1> DEFINE n == Len(o)
<1>1. n \in Nat /\ \A k \in 1 .. n : o[k] \in S  BY DEF Enumerates
<1>2. PICK k \in 1 .. n, m \in 1 .. n : k < m /\ o[k] = u /\ o[m] = v  BY DEF Before
<1>3. \A a, b \in 1 .. n : o[a] = o[b] => a = b  BY DEF Enumerates
<1>4. Before(o, v, u) => \E a, b \in 1 .. n : a < b /\ o[a] = v /\ o[b] = u  BY DEF Before
<1> HIDE DEF n
<1>5. u # v  BY <1>1, <1>2, <1>3
<1>6. ASSUME NEW a \in 1 .. n, NEW b \in 1 .. n, a < b, o[a] = v, o[b] = u PROVE FALSE
  <2>1. a = m /\ b = k  BY <1>2, <1>3, <1>6
  <2> QED  BY <1>1, <1>2, <1>6, <2>1
<1> QED  BY <1>1, <1>2, <1>4, <1>5, <1>6

(* What comes before comes before what is after. *)
LEMMA BeforeTransitive ==
  ASSUME NEW o, NEW S, Enumerates(o, S), NEW u, NEW v, NEW w, Before(o, u, v), Before(o, v, w)
  PROVE  Before(o, u, w)
<1> DEFINE n == Len(o)
<1>1. n \in Nat  BY DEF Enumerates
<1>2. PICK k \in 1 .. n, m \in 1 .. n : k < m /\ o[k] = u /\ o[m] = v  BY DEF Before
<1>3. PICK a \in 1 .. n, b \in 1 .. n : a < b /\ o[a] = v /\ o[b] = w  BY DEF Before
<1>4. m = a  BY <1>2, <1>3 DEF Enumerates
<1>5. \A x, y \in 1 .. n : x < y /\ o[x] = u /\ o[y] = w => Before(o, u, w)  BY DEF Before
<1> HIDE DEF n
<1>6. k < b  BY <1>1, <1>2, <1>3, <1>4
<1> QED  BY <1>2, <1>3, <1>5, <1>6

LEMMA EmptyOrder == ASSUME NEW E PROVE Ordered(<<>>, {}, E)
BY DEF Ordered, Enumerates

LEMMA SingleOrder == ASSUME NEW u PROVE Enumerates(<<u>>, {u})
BY DEF Enumerates

(* An order of one part and one of another, if no edge leads back. *)
LEMMA ConcatOrder ==
  ASSUME NEW S, NEW T, \A x \in S : x \notin T, NEW p, NEW q, Enumerates(p, S), Enumerates(q, T)
  PROVE  /\ Enumerates(p \o q, S \cup T)
         /\ \A u, v : Before(p, u, v) => Before(p \o q, u, v)
         /\ \A u, v : Before(q, u, v) => Before(p \o q, u, v)
         /\ \A u \in S, v \in T : Before(p \o q, u, v)
<1> DEFINE o == p \o q  n == Len(p)  m == Len(q)
<1>1. /\ n \in Nat /\ m \in Nat /\ Len(o) = n + m
      /\ p \in Seq(S) /\ q \in Seq(T)
      /\ \A k \in 1 .. n : o[k] = p[k] /\ p[k] \in S
      /\ \A k \in 1 .. m : o[n + k] = q[k] /\ q[k] \in T
  BY DEF Enumerates
<1>2. o \in Seq(S \cup T)
  <2>1. p \in Seq(S \cup T) /\ q \in Seq(S \cup T)  BY <1>1
  <2> QED  BY <2>1
<1>3. /\ \A x \in S : \E k \in 1 .. n : p[k] = x
      /\ \A x \in T : \E k \in 1 .. m : q[k] = x
      /\ \A j, k \in 1 .. n : p[j] = p[k] => j = k
      /\ \A j, k \in 1 .. m : q[j] = q[k] => j = k
  BY DEF Enumerates
<1>4. \A u, v : Before(o, u, v) <=> \E j, k \in 1 .. (n + m) : j < k /\ o[j] = u /\ o[k] = v
  BY <1>1 DEF Before
<1>5. \A u, v : Before(p, u, v) <=> \E j, k \in 1 .. n : j < k /\ p[j] = u /\ p[k] = v
  BY DEF Before
<1>6. \A u, v : Before(q, u, v) <=> \E j, k \in 1 .. m : j < k /\ q[j] = u /\ q[k] = v
  BY DEF Before
<1>7. Enumerates(o, S \cup T) <=>
        /\ \A x \in S \cup T : \E k \in 1 .. (n + m) : o[k] = x
        /\ \A j, k \in 1 .. (n + m) : o[j] = o[k] => j = k
  BY <1>1, <1>2 DEF Enumerates
<1> HIDE DEF o, n, m
<1>8. \A k \in 1 .. (n + m) : k \in 1 .. n \/ (k - n \in 1 .. m /\ n + (k - n) = k)
  BY <1>1
<1>9. /\ \A k \in 1 .. n : k \in 1 .. (n + m)
      /\ \A k \in 1 .. m : n + k \in 1 .. (n + m) /\ \A j \in 1 .. n : j < n + k
      /\ \A j, k \in 1 .. m : j < k => n + j < n + k
  BY <1>1
<1>10. ASSUME NEW x \in S \cup T PROVE \E k \in 1 .. (n + m) : o[k] = x
  <2>1. CASE x \in S
    <3>1. PICK k \in 1 .. n : p[k] = x  BY <1>3, <2>1
    <3>2. k \in 1 .. (n + m) /\ o[k] = x  BY <1>1, <1>9, <3>1
    <3> QED  BY <3>2
  <2>2. CASE x \in T
    <3>1. PICK k \in 1 .. m : q[k] = x  BY <1>3, <2>2
    <3>2. n + k \in 1 .. (n + m) /\ o[n + k] = x  BY <1>1, <1>9, <3>1
    <3> QED  BY <3>2
  <2> QED  BY <2>1, <2>2
<1>11. ASSUME NEW j \in 1 .. (n + m), NEW k \in 1 .. (n + m), o[j] = o[k] PROVE j = k
  <2>1. CASE j \in 1 .. n /\ k \in 1 .. n  BY <1>1, <1>3, <1>11, <2>1
  <2>5. \A a \in 1 .. (n + m) : a - n \in 1 .. m => o[a] \in T
    <3> TAKE a \in 1 .. (n + m)
    <3> HAVE a - n \in 1 .. m
    <3>1. o[n + (a - n)] \in T  BY <1>1
    <3>2. n + (a - n) = a  BY <1>1
    <3> QED  BY <3>1, <3>2
  <2>6. \A a \in 1 .. n : o[a] \in S  BY <1>1
  <2>2. CASE j \in 1 .. n /\ k - n \in 1 .. m  BY <1>11, <2>2, <2>5, <2>6
  <2>3. CASE j - n \in 1 .. m /\ k \in 1 .. n  BY <1>11, <2>3, <2>5, <2>6
  <2>4. CASE j - n \in 1 .. m /\ k - n \in 1 .. m
    <3>1. o[n + (j - n)] = q[j - n] /\ o[n + (k - n)] = q[k - n]  BY <1>1, <2>4
    <3>2. n + (j - n) = j /\ n + (k - n) = k  BY <1>1
    <3>3. j - n = k - n  BY <1>3, <1>11, <2>4, <3>1, <3>2
    <3> QED  BY <1>1, <3>3
  <2> QED  BY <1>8, <2>1, <2>2, <2>3, <2>4
<1>12. ASSUME NEW u, NEW v, Before(p, u, v) PROVE Before(o, u, v)
  BY <1>1, <1>4, <1>5, <1>9, <1>12
<1>13. ASSUME NEW u, NEW v, Before(q, u, v) PROVE Before(o, u, v)
  <2>1. PICK j \in 1 .. m, k \in 1 .. m : j < k /\ q[j] = u /\ q[k] = v  BY <1>6, <1>13
  <2>2. o[n + j] = u /\ o[n + k] = v /\ n + j < n + k  BY <1>1, <1>9, <2>1
  <2> QED  BY <1>4, <1>9, <2>2
<1>14. ASSUME NEW u \in S, NEW v \in T PROVE Before(o, u, v)
  <2>1. PICK j \in 1 .. n : p[j] = u  BY <1>3
  <2>2. PICK k \in 1 .. m : q[k] = v  BY <1>3
  <2>3. o[j] = u /\ o[n + k] = v /\ j < n + k  BY <1>1, <1>9, <2>1, <2>2
  <2> QED  BY <1>4, <1>9, <2>3
<1> QED  BY <1>7, <1>10, <1>11, <1>12, <1>13, <1>14 DEF o

(* An order of a set that is not empty starts with a node that no edge leads *)
(* to, and goes on with an order of the rest.                                *)
LEMMA OrderStarts ==
  ASSUME NEW S, NEW E, S # {}, NEW o, Ordered(o, S, E)
  PROVE  \E u \in S : \E p : /\ \A w \in S : <<w, u>> \notin E
                             /\ o = <<u>> \o p /\ Ordered(p, S \ {u}, E)
<1> DEFINE n == Len(o)  u == o[1]  p == Tail(o)
<1>1. o \in Seq(S) /\ n \in Nat  BY DEF Ordered, Enumerates
<1>2. /\ \A x \in S : \E k \in 1 .. n : o[k] = x
      /\ \A k, m \in 1 .. n : o[k] = o[m] => k = m
      /\ \A k \in 1 .. n : o[k] \in S
      /\ \A a, b \in S : <<a, b>> \in E => Before(o, a, b)
  <2>1. /\ \A x \in S : \E k \in 1 .. n : o[k] = x
        /\ \A k, m \in 1 .. n : o[k] = o[m] => k = m
    BY DEF Ordered, Enumerates
  <2>2. \A k \in 1 .. n : o[k] \in S
    <3> HIDE DEF u, p
    <3> QED  BY <1>1
  <2>3. \A a, b \in S : <<a, b>> \in E => Before(o, a, b)  BY DEF Ordered
  <2> HIDE DEF n, u, p
  <2> QED  BY <2>1, <2>2, <2>3
<1>3. n # 0  BY <1>2
<1>4. o # <<>>  BY <1>3
<1>5. p \in Seq(S) /\ Len(p) = n - 1 /\ \A k \in 1 .. (n - 1) : p[k] = o[k + 1]
  BY <1>1, <1>4
<1>6. o = <<u>> \o p /\ u \in S
  <2>1. Len(<<u>> \o p) = n /\ \A k \in 1 .. n : (<<u>> \o p)[k] = o[k]
    BY <1>1, <1>3, <1>5
  <2>2. <<u>> \o p \in Seq(S) /\ u \in S  BY <1>1, <1>2, <1>3, <1>5
  <2> QED  BY <1>1, <2>1, <2>2, SeqEqual
<1>7. \A a, b : Before(o, a, b) <=> \E k, m \in 1 .. n : k < m /\ o[k] = a /\ o[m] = b
  BY DEF Before
<1>8. \A a, b : Before(p, a, b) <=> \E k, m \in 1 .. (n - 1) : k < m /\ p[k] = a /\ p[m] = b
  BY <1>5 DEF Before
<1>9. Enumerates(p, S \ {u}) <=>
        /\ p \in Seq(S \ {u})
        /\ \A x \in S \ {u} : \E k \in 1 .. (n - 1) : p[k] = x
        /\ \A k, m \in 1 .. (n - 1) : p[k] = p[m] => k = m
  BY <1>5 DEF Enumerates
<1>10. u = o[1] /\ 1 \in 1 .. n  BY <1>1, <1>3
<1> HIDE DEF n, u, p
<1>11. ASSUME NEW w \in S, <<w, u>> \in E PROVE FALSE
  <2>1. PICK k \in 1 .. n, m \in 1 .. n : k < m /\ o[k] = w /\ o[m] = u
    <3>1. Before(o, w, u)  BY <1>2, <1>6, <1>11
    <3> QED  BY <1>7, <3>1
  <2>2. m = 1  BY <1>2, <1>10, <2>1
  <2> QED  BY <1>1, <2>1, <2>2
<1>12. \A k \in 1 .. (n - 1) : k + 1 \in 1 .. n /\ p[k] # u /\ p[k] \in S
  <2> TAKE k \in 1 .. (n - 1)
  <2>1. k + 1 \in 1 .. n /\ k + 1 # 1  BY <1>1
  <2> QED  BY <1>2, <1>5, <1>10, <2>1
<1>13. p \in Seq(S \ {u})
  <2>1. \A k \in 1 .. Len(p) : p[k] \in S \ {u}  BY <1>5, <1>12
  <2> QED  BY <1>5, <2>1
<1>14. \A k \in 1 .. n : o[k] # u => k - 1 \in 1 .. (n - 1) /\ p[k - 1] = o[k]
  <2> TAKE k \in 1 .. n
  <2> HAVE o[k] # u
  <2>1. k # 1  BY <1>10
  <2>2. k - 1 \in 1 .. (n - 1) /\ (k - 1) + 1 = k  BY <1>1, <2>1
  <2> QED  BY <1>5, <2>2
<1>15. \A x \in S \ {u} : \E k \in 1 .. (n - 1) : p[k] = x
  BY <1>2, <1>14
<1>16. ASSUME NEW k \in 1 .. (n - 1), NEW m \in 1 .. (n - 1), p[k] = p[m] PROVE k = m
  <2>1. o[k + 1] = o[m + 1] /\ k + 1 \in 1 .. n /\ m + 1 \in 1 .. n  BY <1>5, <1>12, <1>16
  <2>2. k + 1 = m + 1  BY <1>2, <2>1
  <2> QED  BY <1>1, <2>2
<1>17. ASSUME NEW a \in S \ {u}, NEW b \in S \ {u}, <<a, b>> \in E PROVE Before(p, a, b)
  <2>1. PICK k \in 1 .. n, m \in 1 .. n : k < m /\ o[k] = a /\ o[m] = b
    BY <1>2, <1>7, <1>17
  <2>2. k - 1 \in 1 .. (n - 1) /\ p[k - 1] = a /\ m - 1 \in 1 .. (n - 1) /\ p[m - 1] = b
    BY <1>14, <2>1
  <2>3. k - 1 < m - 1  BY <1>1, <2>1
  <2> QED  BY <1>8, <2>2, <2>3
<1>18. Ordered(p, S \ {u}, E)
  BY <1>9, <1>13, <1>15, <1>16, <1>17 DEF Ordered
<1> QED  BY <1>6, <1>11, <1>18

(* A node that no edge enters comes first, the others after it. *)
LEMMA OrderContinues ==
  ASSUME NEW S, NEW E, NEW u \in S, \A w \in S : <<w, u>> \notin E,
         NEW p, Ordered(p, S \ {u}, E)
  PROVE  Ordered(<<u>> \o p, S, E)
<1>1. Enumerates(<<u>>, {u}) /\ Enumerates(p, S \ {u})  BY SingleOrder DEF Ordered
<1>2. \A x \in {u} : x \notin S \ {u}  OBVIOUS
<1>3. {u} \cup (S \ {u}) = S  OBVIOUS
<1> DEFINE o == <<u>> \o p
<1>4. /\ Enumerates(o, S)
      /\ \A a, b : Before(p, a, b) => Before(o, a, b)
      /\ \A a \in {u}, b \in S \ {u} : Before(o, a, b)
  <2> DEFINE T == S \ {u}
  <2>1. \A x \in {u} : x \notin T  OBVIOUS
  <2>2. Enumerates(p, T)  BY <1>1
  <2> HIDE DEF T
  <2>3. /\ Enumerates(o, {u} \cup T)
        /\ \A a, b : Before(p, a, b) => Before(o, a, b)
        /\ \A a \in {u}, b \in T : Before(o, a, b)
    BY <1>1, <2>1, <2>2, ConcatOrder
  <2> QED  BY <1>3, <2>3 DEF T
<1>5. \A a, b \in S \ {u} : <<a, b>> \in E => Before(p, a, b)  BY DEF Ordered
<1> HIDE DEF o
<1>6. ASSUME NEW a \in S, NEW b \in S, <<a, b>> \in E PROVE Before(o, a, b)
  <2>1. b # u  BY <1>6
  <2>2. CASE a = u  BY <1>4, <2>1, <2>2
  <2>3. CASE a # u  BY <1>4, <1>5, <1>6, <2>1, <2>3
  <2> QED  BY <2>2, <2>3
<1> QED  BY <1>4, <1>6 DEF Ordered, o

(* topological_sort() finds all orders and nothing else. *)
LEMMA TopologicalOrdersAre ==
  ASSUME NEW S, IsFiniteSet(S), NEW E
  PROVE  \A o : o \in TopologicalOrders(S, E) <=> Ordered(o, S, E)
<1> DEFINE all(T) == {o \in Seq(T) : Ordered(o, T, E)}
           more(f, T) == UNION {{<<u>> \o o : o \in f[T \ {u}]} :
                                u \in {v \in T : \A w \in T : <<w, v>> \notin E}}
           Fold(f) == f = [T \in SUBSET S |-> IF T = {} THEN {<<>>} ELSE more(f, T)]
           g == [T \in SUBSET S |-> all(T)]
<1>1. \A T, o : o \in all(T) <=> Ordered(o, T, E)  BY DEF Ordered, Enumerates
<1>2. all({}) = {<<>>}
  <2>1. \A o \in Seq({}) : o = <<>>  OBVIOUS
  <2>2. <<>> \in all({})  BY EmptyOrder, <1>1
  <2> QED  BY <2>1, <2>2
<1>3. \A f, T, o : o \in more(f, T) <=>
        \E u \in T : \E p : /\ \A w \in T : <<w, u>> \notin E
                            /\ o = <<u>> \o p /\ p \in f[T \ {u}]
  <2> TAKE f, T, o
  <2> DEFINE starts == {v \in T : \A w \in T : <<w, v>> \notin E}
             from(u) == {<<u>> \o p : p \in f[T \ {u}]}
  <2>1. more(f, T) = UNION {from(u) : u \in starts}  OBVIOUS
  <2>2. \A u : o \in from(u) <=> \E p : o = <<u>> \o p /\ p \in f[T \ {u}]  OBVIOUS
  <2>3. \A u : u \in starts <=> u \in T /\ \A w \in T : <<w, u>> \notin E  OBVIOUS
  <2> HIDE DEF more, starts, from
  <2>4. o \in more(f, T) <=> \E u \in starts : o \in from(u)  BY <2>1
  <2> QED  BY <2>2, <2>3, <2>4
<1>4. \A T \in SUBSET S : g[T] = all(T)  OBVIOUS
<1> HIDE DEF all, more, g
<1>5. \A T \in SUBSET S : T # {} => all(T) = more(g, T)
  <2> TAKE T \in SUBSET S
  <2> HAVE T # {}
  <2>1. ASSUME NEW o \in all(T) PROVE o \in more(g, T)
    <3>1. Ordered(o, T, E)  BY <1>1
    <3>2. PICK u \in T : \E p : /\ \A w \in T : <<w, u>> \notin E
                                /\ o = <<u>> \o p /\ Ordered(p, T \ {u}, E)
      BY <3>1, OrderStarts
    <3>4. PICK p : /\ \A w \in T : <<w, u>> \notin E
                   /\ o = <<u>> \o p /\ Ordered(p, T \ {u}, E)
      BY <3>2
    <3>3. p \in g[T \ {u}]  BY <1>1, <1>4, <3>4
    <3> QED  BY <1>3, <3>3, <3>4
  <2>2. ASSUME NEW o \in more(g, T) PROVE o \in all(T)
    <3>1. PICK u \in T : \E p : /\ \A w \in T : <<w, u>> \notin E
                                /\ o = <<u>> \o p /\ p \in g[T \ {u}]
      BY <1>3
    <3>4. PICK p : /\ \A w \in T : <<w, u>> \notin E
                   /\ o = <<u>> \o p /\ p \in g[T \ {u}]
      BY <3>1
    <3>2. Ordered(p, T \ {u}, E)  BY <1>1, <1>4, <3>4
    <3>3. Ordered(o, T, E)  BY <3>2, <3>4, OrderContinues
    <3> QED  BY <1>1, <3>3
  <2> QED  BY <2>1, <2>2
<1>6. Fold(g)
  <2>1. g = [T \in SUBSET S |-> g[T]]  BY DEF g
  <2>2. \A T \in SUBSET S : g[T] = IF T = {} THEN {<<>>} ELSE more(g, T)
    BY <1>2, <1>4, <1>5
  <2> QED  BY <2>1, <2>2
<1>7. ASSUME NEW f, Fold(f) PROVE f[S] = g[S]
  <2> DEFINE Bad == {T \in SUBSET S : f[T] # g[T]}
  <2> SUFFICES ASSUME Bad # {} PROVE FALSE  OBVIOUS
  <2>1. PICK T \in Bad : \A x \in T : T \ {x} \notin Bad
    <3>1. Bad \in SUBSET SUBSET S  OBVIOUS
    <3> HIDE DEF Bad
    <3> QED  BY <3>1, MinimalSubset
  <2>2. f[T] = IF T = {} THEN {<<>>} ELSE more(f, T)  BY <1>7
  <2>3. g[T] = IF T = {} THEN {<<>>} ELSE more(g, T)  BY <1>6
  <2>4. T # {}  BY <2>2, <2>3
  <2>5. \A u \in T : f[T \ {u}] = g[T \ {u}]  BY <2>1
  <2>6. more(f, T) = more(g, T)
    <3>1. \A o : o \in more(f, T) <=>
            \E u \in T : \E p : /\ \A w \in T : <<w, u>> \notin E
                                /\ o = <<u>> \o p /\ p \in f[T \ {u}]
      BY <1>3
    <3>2. \A o : o \in more(g, T) <=>
            \E u \in T : \E p : /\ \A w \in T : <<w, u>> \notin E
                                /\ o = <<u>> \o p /\ p \in g[T \ {u}]
      BY <1>3
    <3>3. \A o : o \in more(f, T) <=> o \in more(g, T)  BY <2>5, <3>1, <3>2
    <3> QED  BY <3>3
  <2> QED  BY <2>2, <2>3, <2>4, <2>6
<1>8. TopologicalOrders(S, E) = (CHOOSE f : Fold(f))[S]
  BY DEF TopologicalOrders, more
<1> HIDE DEF Fold
<1>9. TopologicalOrders(S, E) = g[S]  BY <1>6, <1>7, <1>8
<1> QED  BY <1>1, <1>4, <1>9

(* Without a cycle there is a first node, and so an order. *)
LEMMA FirstNode ==
  ASSUME NEW S, IsFiniteSet(S), S # {}, NEW P, Transitive(P, S), \A u \in S : <<u, u>> \notin P
  PROVE  \E u \in S : \A w \in S : <<w, u>> \notin P
<1> DEFINE First(T) == \E u \in T : \A w \in T : <<w, u>> \notin P
           Bad == {T \in SUBSET S : T # {} /\ ~First(T)}
<1> SUFFICES ASSUME Bad # {} PROVE FALSE  OBVIOUS
<1>1. PICK T \in Bad : \A x \in T : T \ {x} \notin Bad
  <2>1. Bad \in SUBSET SUBSET S  OBVIOUS
  <2> HIDE DEF Bad
  <2> QED  BY <2>1, MinimalSubset
<1>2. PICK x \in T : TRUE  OBVIOUS
<1>3. CASE T \ {x} = {}  BY <1>2, <1>3
<1>4. CASE T \ {x} # {}
  <2>1. PICK y \in T \ {x} : \A w \in T \ {x} : <<w, y>> \notin P  BY <1>1, <1>2, <1>4
  <2>2. CASE <<x, y>> \notin P  BY <2>1, <2>2
  <2>3. CASE <<x, y>> \in P
    <3>1. ASSUME NEW w \in T, <<w, x>> \in P PROVE FALSE
      <4>1. w \in S /\ x \in S /\ y \in S /\ w # x  BY <1>2, <2>1, <3>1
      <4>2. <<w, y>> \in P  BY <2>3, <3>1, <4>1 DEF Transitive
      <4> QED  BY <2>1, <4>1, <4>2
    <3> QED  BY <1>2, <3>1
  <2> QED  BY <2>2, <2>3
<1> QED  BY <1>3, <1>4

(* A strict relation on a finite set has an order. *)
LEMMA OrderExists ==
  ASSUME NEW S, IsFiniteSet(S), NEW P, Transitive(P, S), \A u \in S : <<u, u>> \notin P,
         NEW E, \A u, v \in S : <<u, v>> \in E => <<u, v>> \in P
  PROVE  \E o : Ordered(o, S, E)
<1> DEFINE Bad == {T \in SUBSET S : ~ \E o : Ordered(o, T, E)}
<1> SUFFICES ASSUME Bad # {} PROVE FALSE  OBVIOUS
<1>1. PICK T \in Bad : \A x \in T : T \ {x} \notin Bad
  <2>1. Bad \in SUBSET SUBSET S  OBVIOUS
  <2> HIDE DEF Bad
  <2> QED  BY <2>1, MinimalSubset
<1>2. T # {}
  <2>1. Ordered(<<>>, {}, E)  BY EmptyOrder
  <2> QED  BY <2>1
<1>3. IsFiniteSet(T) /\ Transitive(P, T)  BY FS_Subset DEF Transitive
<1>4. PICK u \in T : \A w \in T : <<w, u>> \notin P
  <2>1. \A x \in T : <<x, x>> \notin P  OBVIOUS
  <2> QED  BY <1>2, <1>3, <2>1, FirstNode
<1>5. \A w \in T : <<w, u>> \notin E  BY <1>4
<1>6. PICK p : Ordered(p, T \ {u}, E)  BY <1>1, <1>4
<1>7. Ordered(<<u>> \o p, T, E)  BY <1>4, <1>5, <1>6, OrderContinues
<1> QED  BY <1>7

-----------------------------------------------------------------------------
(* Orders of classes, with an order of every class in its place. *)

Prefix(order, k) == UNION {order[j] : j \in 1 .. k}

(* No edge leads from a later class to an earlier one. *)
Forward(order, E) ==
  \A j, k \in 1 .. Len(order) : \A u \in order[j], v \in order[k] : <<u, v>> \in E => j <= k

(* Edges between classes are those of the nodes in them. *)
LEMMA EdgesBetweenAre ==
  ASSUME NEW S, NEW C, Partition(C, S), NEW E \in SUBSET (S \X S)
  PROVE  /\ EdgesBetween(C, E) \in SUBSET (C \X C)
         /\ \A u, v \in S : <<u, v>> \in E /\ ClassOf(C, u) # ClassOf(C, v)
                              => <<ClassOf(C, u), ClassOf(C, v)>> \in EdgesBetween(C, E)
         /\ \A p \in EdgesBetween(C, E) : \E u, v \in S :
              <<u, v>> \in E /\ p = <<ClassOf(C, u), ClassOf(C, v)>> /\ ClassOf(C, u) # ClassOf(C, v)
<1> DEFINE of(e) == <<ClassOf(C, e[1]), ClassOf(C, e[2])>>
<1>1. \A p : p \in EdgesBetween(C, E) <=> p[1] # p[2] /\ \E e \in E : p = of(e)
  BY DEF EdgesBetween
<1>2. \A e \in E : \E u, v \in S : e = <<u, v>> /\ of(e) = <<ClassOf(C, u), ClassOf(C, v)>>
  OBVIOUS
<1>3. \A u \in S : ClassOf(C, u) \in C  BY PartitionClass
<1>4. \A u, v \in S : of(<<u, v>>) = <<ClassOf(C, u), ClassOf(C, v)>>  OBVIOUS
<1>5. ASSUME NEW p \in EdgesBetween(C, E)
      PROVE  \E u, v \in S : /\ <<u, v>> \in E /\ p = <<ClassOf(C, u), ClassOf(C, v)>>
                             /\ ClassOf(C, u) # ClassOf(C, v)
  <2>1. p[1] # p[2]  BY <1>1
  <2>2. PICK e \in E : p = of(e)  BY <1>1
  <2>3. PICK u \in S, v \in S : e = <<u, v>> /\ of(e) = <<ClassOf(C, u), ClassOf(C, v)>>
    BY <1>2
  <2> QED  BY <2>1, <2>2, <2>3
<1>6. ASSUME NEW u \in S, NEW v \in S, <<u, v>> \in E, ClassOf(C, u) # ClassOf(C, v)
      PROVE  <<ClassOf(C, u), ClassOf(C, v)>> \in EdgesBetween(C, E)
  <2> DEFINE p == <<ClassOf(C, u), ClassOf(C, v)>>
  <2>1. p[1] # p[2] /\ p = of(<<u, v>>)  BY <1>6
  <2> HIDE DEF p, of
  <2>2. p \in EdgesBetween(C, E)  BY <1>1, <1>6, <2>1
  <2> QED  BY <2>2 DEF p
<1> HIDE DEF of
<1>7. ASSUME NEW p \in EdgesBetween(C, E) PROVE p \in C \X C
  <2>1. PICK u \in S, v \in S : p = <<ClassOf(C, u), ClassOf(C, v)>>  BY <1>5
  <2>2. ClassOf(C, u) \in C /\ ClassOf(C, v) \in C  BY <1>3
  <2> QED  BY <2>1, <2>2
<1> QED  BY <1>5, <1>6, <1>7

(* In an order of the classes no edge of the nodes leads back. *)
LEMMA OrderIsForward ==
  ASSUME NEW S, NEW C, Partition(C, S), NEW E \in SUBSET (S \X S),
         NEW order, Ordered(order, C, EdgesBetween(C, E))
  PROVE  Forward(order, E)
<1> DEFINE n == Len(order)
<1>1. /\ n \in Nat /\ \A k \in 1 .. n : order[k] \in C
      /\ \A j, k \in 1 .. n : order[j] = order[k] => j = k
      /\ \A c, d \in C : <<c, d>> \in EdgesBetween(C, E) => Before(order, c, d)
  BY DEF Ordered, Enumerates
<1>2. \A c, d : Before(order, c, d) => \E j, k \in 1 .. n : j < k /\ order[j] = c /\ order[k] = d
  BY DEF Before
<1> HIDE DEF n
<1>3. ASSUME NEW j \in 1 .. n, NEW k \in 1 .. n, NEW u \in order[j], NEW v \in order[k],
             <<u, v>> \in E
      PROVE  j <= k
  <2>1. u \in S /\ v \in S  BY <1>1 DEF Partition
  <2>2. order[j] = ClassOf(C, u) /\ order[k] = ClassOf(C, v)  BY <1>1, <2>1, PartitionClass
  <2>3. CASE order[j] = order[k]  BY <1>1, <2>3
  <2>4. CASE order[j] # order[k]
    <3>1. <<order[j], order[k]>> \in EdgesBetween(C, E)
      BY <1>3, <2>1, <2>2, <2>4, EdgesBetweenAre
    <3>2. Before(order, order[j], order[k])  BY <1>1, <3>1
    <3>3. PICK a \in 1 .. n, b \in 1 .. n : a < b /\ order[a] = order[j] /\ order[b] = order[k]
      BY <1>2, <3>2
    <3>4. a = j /\ b = k  BY <1>1, <3>3
    <3> QED  BY <1>1, <3>3, <3>4
  <2> QED  BY <2>3, <2>4
<1> QED  BY <1>3 DEF Forward, n

(* The order of one more class at the end. *)
LEMMA JoinStep ==
  ASSUME NEW S, NEW C, Partition(C, S), NEW E,
         NEW order, Enumerates(order, C), Forward(order, E),
         NEW k \in Nat, k < Len(order),
         NEW p, Ordered(p, Prefix(order, k), E), NEW q, Ordered(q, order[k + 1], E)
  PROVE  Ordered(p \o q, Prefix(order, k + 1), E)
<1> DEFINE n == Len(order)  A == Prefix(order, k)  B == order[k + 1]  o == p \o q
<1>1. /\ n \in Nat /\ \A j \in 1 .. n : order[j] \in C
      /\ \A j, l \in 1 .. n : order[j] = order[l] => j = l
      /\ \A j, l \in 1 .. n : \A u \in order[j], v \in order[l] : <<u, v>> \in E => j <= l
  <2>1. n \in Nat /\ \A j \in 1 .. n : order[j] \in C  BY DEF Enumerates
  <2>2. \A j, l \in 1 .. n : order[j] = order[l] => j = l  BY DEF Enumerates
  <2>3. \A j, l \in 1 .. n : \A u \in order[j], v \in order[l] : <<u, v>> \in E => j <= l
    BY DEF Forward
  <2> HIDE DEF n, A, B, o
  <2> QED  BY <2>1, <2>2, <2>3
<1>2. k + 1 \in 1 .. n /\ \A j \in 1 .. k : j \in 1 .. n /\ j # k + 1 /\ ~(k + 1 <= j)
  BY <1>1
<1>3. \A x : x \in A <=> \E j \in 1 .. k : x \in order[j]  BY DEF Prefix
<1>4. Prefix(order, k + 1) = A \cup B
  <2>1. \A x : x \in Prefix(order, k + 1) <=> \E j \in 1 .. (k + 1) : x \in order[j]
    BY DEF Prefix
  <2>2. \A j : j \in 1 .. (k + 1) <=> j \in 1 .. k \/ j = k + 1  OBVIOUS
  <2> HIDE DEF A, B
  <2>3. \A x : x \in Prefix(order, k + 1) <=> x \in A \/ x \in B  BY <1>3, <2>1, <2>2 DEF B
  <2> QED  BY <2>3
<1> HIDE DEF n, A, o
<1>5. \A x \in A : x \notin B
  <2>1. SUFFICES ASSUME NEW x \in A, x \in B PROVE FALSE  OBVIOUS
  <2>2. PICK j \in 1 .. k : x \in order[j]  BY <1>3
  <2>3. order[j] = order[k + 1] /\ j \in 1 .. n
    BY <1>1, <1>2, <2>1, <2>2 DEF Partition
  <2> QED  BY <1>1, <1>2, <2>3
<1>6. \A u \in B, v \in A : <<u, v>> \notin E
  <2>1. SUFFICES ASSUME NEW u \in B, NEW v \in A, <<u, v>> \in E PROVE FALSE  OBVIOUS
  <2>2. PICK j \in 1 .. k : v \in order[j]  BY <1>3
  <2> QED  BY <1>1, <1>2, <2>1, <2>2
<1> HIDE DEF B
<1>7. Enumerates(p, A) /\ Enumerates(q, B)  BY DEF Ordered, A, B
<1>8. /\ Enumerates(o, A \cup B)
      /\ \A u, v : Before(p, u, v) => Before(o, u, v)
      /\ \A u, v : Before(q, u, v) => Before(o, u, v)
      /\ \A u \in A, v \in B : Before(o, u, v)
  BY <1>5, <1>7, ConcatOrder DEF o
<1>9. /\ \A u, v \in A : <<u, v>> \in E => Before(p, u, v)
      /\ \A u, v \in B : <<u, v>> \in E => Before(q, u, v)
  BY DEF Ordered, A, B
<1>10. \A u, v \in A \cup B : <<u, v>> \in E => Before(o, u, v)
  BY <1>6, <1>8, <1>9
<1>11. Ordered(o, A \cup B, E)  BY <1>8, <1>10 DEF Ordered
<1> QED  BY <1>4, <1>11 DEF o

(* The first classes of an order: none, and all. *)
LEMMA PrefixAll ==
  ASSUME NEW S, NEW C, Partition(C, S), NEW order, Enumerates(order, C)
  PROVE  Prefix(order, Len(order)) = S /\ Prefix(order, 0) = {}
<1>1. UNION C = S  BY DEF Partition
<1>2. C = {order[j] : j \in 1 .. Len(order)}  BY DEF Enumerates
<1>3. 1 .. 0 = {}  OBVIOUS
<1> QED  BY <1>1, <1>2, <1>3 DEF Prefix

(* The table of FlattenSeq(). *)
Flat(seqs, m, f) == f = [k \in 1 .. m |-> IF k = 1 THEN seqs[k] ELSE f[k - 1] \o seqs[k]]

(* The table from which FlattenSeq() is read. *)
LEMMA FlatExists ==
  ASSUME NEW seqs, NEW n \in Nat
  PROVE  \E f : Flat(seqs, n, f)
<1> DEFINE Bad == {m \in Nat : ~ \E f : Flat(seqs, m, f)}
<1> SUFFICES ASSUME Bad # {} PROVE FALSE  OBVIOUS
<1>1. PICK m \in Bad : \A k \in Bad : m <= k
  <2>1. Bad \in SUBSET Nat  OBVIOUS
  <2> HIDE DEF Bad
  <2> QED  BY <2>1, LeastOf
<1>2. CASE m = 0
  <2> DEFINE f == [k \in 1 .. 0 |-> k]
  <2>1. f = [k \in 1 .. 0 |-> IF k = 1 THEN seqs[k] ELSE f[k - 1] \o seqs[k]]  OBVIOUS
  <2>2. Flat(seqs, m, f)  BY <1>2, <2>1 DEF Flat
  <2> QED  BY <2>2
<1>3. CASE m # 0
  <2>1. m - 1 \in Nat /\ m - 1 \notin Bad  BY <1>1, <1>3
  <2>2. PICK f : Flat(seqs, m - 1, f)  BY <2>1
  <2> DEFINE value(h, k) == IF k = 1 THEN seqs[k] ELSE h[k - 1] \o seqs[k]
             g == [k \in 1 .. m |-> value(f, k)]
  <2>3. f = [k \in 1 .. (m - 1) |-> value(f, k)]  BY <2>2 DEF Flat
  <2>4. \A k \in 1 .. m : g[k] = value(f, k)  OBVIOUS
  <2>5. g = [k \in 1 .. m |-> g[k]]  OBVIOUS
  <2> HIDE DEF g
  <2>6. \A k \in 1 .. m : value(f, k) = value(g, k)
    <3> TAKE k \in 1 .. m
    <3>1. CASE k = 1  BY <3>1
    <3>2. CASE k # 1
      <4>1. k - 1 \in 1 .. (m - 1) /\ k - 1 \in 1 .. m  BY <3>2
      <4> HIDE DEF value
      <4>2. f[k - 1] = value(f, k - 1) /\ g[k - 1] = value(f, k - 1)  BY <2>3, <2>4, <4>1
      <4> QED  BY <3>2, <4>2 DEF value
    <3> QED  BY <3>1, <3>2
  <2>7. g = [k \in 1 .. m |-> value(g, k)]
    <3> HIDE DEF value
    <3> QED  BY <2>4, <2>5, <2>6
  <2>8. Flat(seqs, m, g)  BY <2>7 DEF Flat
  <2> QED  BY <2>8
<1> QED  BY <1>2, <1>3

(* Orders of the classes one after the other order the nodes. *)
LEMMA FlattenOrder ==
  ASSUME NEW S, NEW C, Partition(C, S), NEW E,
         NEW order, Enumerates(order, C), Forward(order, E),
         NEW X, NEW seqs \in Seq(X), Len(seqs) = Len(order),
         \A k \in 1 .. Len(order) : Ordered(seqs[k], order[k], E)
  PROVE  Ordered(FlattenSeq(seqs), S, E)
<1> DEFINE n == Len(order)
<1>0. n \in Nat /\ Len(seqs) = n  BY DEF Enumerates
<1>1. CASE n = 0
  <2>1. S = {}  BY <1>1, PrefixAll
  <2>2. FlattenSeq(seqs) = <<>>  BY <1>0, <1>1 DEF FlattenSeq
  <2> QED  BY <2>1, <2>2, EmptyOrder
<1>2. CASE n # 0
  <2> DEFINE f == CHOOSE h : Flat(seqs, n, h)
  <2>1. Flat(seqs, n, f)  BY <1>0, FlatExists
  <2>2. FlattenSeq(seqs) = f[n]  BY <1>0, <1>2 DEF FlattenSeq, Flat
  <2> HIDE DEF f
  <2>3. f = [k \in 1 .. n |-> IF k = 1 THEN seqs[k] ELSE f[k - 1] \o seqs[k]]  BY <2>1 DEF Flat
  <2>4. \A k \in 1 .. n : f[k] = IF k = 1 THEN seqs[k] ELSE f[k - 1] \o seqs[k]  BY <2>3
  <2>5. \A k \in 1 .. n : Ordered(seqs[k], order[k], E)  OBVIOUS
  <2> HIDE DEF n
  <2> DEFINE Bad == {k \in Nat : k \in 1 .. n /\ ~Ordered(f[k], Prefix(order, k), E)}
  <2>6. ASSUME Bad # {} PROVE FALSE
    <3>1. PICK k \in Bad : \A j \in Bad : k <= j
      <4>1. Bad \in SUBSET Nat  OBVIOUS
      <4> HIDE DEF Bad
      <4> QED  BY <2>6, <4>1, LeastOf
    <3>2. CASE k = 1
      <4>1. Prefix(order, 1) = order[1]
        <5>1. \A j : j \in 1 .. 1 <=> j = 1  OBVIOUS
        <5> QED  BY <5>1 DEF Prefix
      <4>2. f[1] = seqs[1]  BY <2>4, <3>1, <3>2
      <4> QED  BY <2>5, <3>1, <3>2, <4>1, <4>2
    <3>3. CASE k # 1
      <4>1. k - 1 \in 1 .. n /\ k - 1 \in Nat /\ k - 1 < n /\ (k - 1) + 1 = k
        BY <1>0, <3>1, <3>3
      <4>2. Ordered(f[k - 1], Prefix(order, k - 1), E)  BY <3>1, <4>1
      <4>3. Ordered(seqs[(k - 1) + 1], order[(k - 1) + 1], E)  BY <2>5, <3>1, <4>1
      <4>4. Ordered(f[k - 1] \o seqs[(k - 1) + 1], Prefix(order, (k - 1) + 1), E)
        BY <4>1, <4>2, <4>3, JoinStep DEF n
      <4>5. f[k] = f[k - 1] \o seqs[k]  BY <2>4, <3>1, <3>3
      <4> QED  BY <3>1, <4>1, <4>4, <4>5
    <3> QED  BY <3>2, <3>3
  <2>7. n \in 1 .. n  BY <1>0, <1>2
  <2>8. Ordered(f[n], Prefix(order, n), E)  BY <1>0, <2>6, <2>7
  <2>9. Prefix(order, n) = S  BY PrefixAll DEF n
  <2> QED  BY <2>2, <2>8, <2>9
<1> QED  BY <1>1, <1>2

-----------------------------------------------------------------------------
(* A path that is a class: no two pairs leave or enter the same node. *)

Single(E) == \A e, f \in E : e # f => e[1] # f[1] /\ e[2] # f[2]

(* An edge is found from either end. *)
LEMMA SingleEnds ==
  ASSUME NEW E, Single(E)
  PROVE  /\ \A u, v, w : <<u, w>> \in E /\ <<v, w>> \in E => u = v
         /\ \A u, v, w : <<w, u>> \in E /\ <<w, v>> \in E => u = v
<1>1. \A e, f \in E : e # f => e[1] # f[1] /\ e[2] # f[2]  BY DEF Single
<1>2. ASSUME NEW u, NEW v, NEW w, <<u, w>> \in E, <<v, w>> \in E, u # v PROVE FALSE
  <2>1. <<u, w>> # <<v, w>>  BY <1>2
  <2>2. <<u, w>>[2] # <<v, w>>[2]  BY <1>1, <1>2, <2>1
  <2> QED  BY <2>2
<1>3. ASSUME NEW u, NEW v, NEW w, <<w, u>> \in E, <<w, v>> \in E, u # v PROVE FALSE
  <2>1. <<w, u>> # <<w, v>>  BY <1>3
  <2>2. <<w, u>>[1] # <<w, v>>[1]  BY <1>1, <1>3, <2>1
  <2> QED  BY <2>2
<1> QED  BY <1>2, <1>3

(* A path begins with an edge. *)
LEMMA FirstEdge ==
  ASSUME NEW S, NEW E \in SUBSET (S \X S), NEW P, Closure(P, S, E),
         NEW u \in S, NEW v \in S, <<u, v>> \in P
  PROVE  <<u, v>> \in E \/ \E w \in S : <<u, w>> \in E /\ <<w, v>> \in P
<1> DEFINE starts(a, b) == <<a, b>> \in E \/ \E w \in S : <<a, w>> \in E /\ <<w, b>> \in P
           R == {p \in P : starts(p[1], p[2])}
<1>1. E \in SUBSET P /\ P \in SUBSET (S \X S) /\ Transitive(P, S)  BY DEF Closure
<1>2. \A a, b \in S : <<a, b>> \in R <=> <<a, b>> \in P /\ starts(a, b)  OBVIOUS
<1>3. R \in SUBSET (S \X S)  BY <1>1
<1>4. E \subseteq R
  <2>1. SUFFICES ASSUME NEW p \in E PROVE p \in R  OBVIOUS
  <2>2. PICK a \in S, b \in S : p = <<a, b>>  OBVIOUS
  <2> QED  BY <1>1, <1>2, <2>2
<1> HIDE DEF R
<1>5. ASSUME NEW a \in S, NEW b \in S, NEW d \in S, <<a, b>> \in R, <<b, d>> \in R
      PROVE  <<a, d>> \in R
  <2>1. <<a, d>> \in P  BY <1>1, <1>2, <1>5 DEF Transitive
  <2>2. CASE <<a, b>> \in E  BY <1>2, <1>5, <2>1, <2>2
  <2>3. ASSUME NEW w \in S, <<a, w>> \in E, <<w, b>> \in P PROVE <<a, d>> \in R
    <3>1. <<w, d>> \in P  BY <1>1, <1>2, <1>5, <2>3 DEF Transitive
    <3> QED  BY <1>2, <2>1, <2>3, <3>1
  <2> QED  BY <1>2, <1>5, <2>2, <2>3
<1>6. P \subseteq R  BY <1>3, <1>4, <1>5 DEF Closure, Transitive
<1> QED  BY <1>2, <1>6

Comparable(P, u, v) == u = v \/ <<u, v>> \in P \/ <<v, u>> \in P

(* What leads to a node is on one path. *)
LEMMA PredecessorsComparable ==
  ASSUME NEW S, NEW E \in SUBSET (S \X S), Single(E), NEW P, Closure(P, S, E),
         NEW u \in S, NEW v \in S, NEW w \in S, <<u, v>> \in P, <<w, v>> \in P
  PROVE  Comparable(P, u, w)
<1> DEFINE all(a, b) == \A x \in S : <<x, b>> \in P => Comparable(P, a, x)
           R == {p \in P : all(p[1], p[2])}
<1>1. E \in SUBSET P /\ P \in SUBSET (S \X S) /\ Transitive(P, S)  BY DEF Closure
<1>2. \A a, b \in S : <<a, b>> \in R <=> <<a, b>> \in P /\ all(a, b)  OBVIOUS
<1>3. R \in SUBSET (S \X S)  BY <1>1
<1> HIDE DEF R
<1>4. E \subseteq R
  <2>1. SUFFICES ASSUME NEW p \in E PROVE p \in R  OBVIOUS
  <2>2. PICK a \in S, b \in S : p = <<a, b>>  OBVIOUS
  <2>3. ASSUME NEW x \in S, <<x, b>> \in P PROVE Comparable(P, a, x)
    <3>1. CASE <<x, b>> \in E  BY <2>1, <2>2, <3>1, SingleEnds DEF Comparable
    <3>2. ASSUME NEW y \in S, <<x, y>> \in P, <<y, b>> \in E PROVE Comparable(P, a, x)
      <4>1. y = a  BY <2>1, <2>2, <3>2, SingleEnds
      <4> QED  BY <3>2, <4>1 DEF Comparable
    <3> QED  BY <2>3, <3>1, <3>2, LastEdge
  <2>4. <<a, b>> \in P  BY <1>1, <2>1, <2>2
  <2> QED  BY <1>2, <2>2, <2>3, <2>4
<1>5. ASSUME NEW a \in S, NEW b \in S, NEW d \in S, <<a, b>> \in R, <<b, d>> \in R
      PROVE  <<a, d>> \in R
  <2>1. <<a, b>> \in P /\ <<b, d>> \in P /\ all(a, b) /\ all(b, d)  BY <1>2, <1>5
  <2>2. <<a, d>> \in P  BY <1>1, <2>1 DEF Transitive
  <2>3. ASSUME NEW x \in S, <<x, d>> \in P PROVE Comparable(P, a, x)
    <3>1. Comparable(P, b, x)  BY <2>1, <2>3
    <3>2. CASE b = x  BY <2>1, <3>2 DEF Comparable
    <3>3. CASE <<b, x>> \in P  BY <1>1, <2>1, <3>3 DEF Comparable, Transitive
    <3>4. CASE <<x, b>> \in P  BY <2>1, <3>4
    <3> QED  BY <3>1, <3>2, <3>3, <3>4 DEF Comparable
  <2> QED  BY <1>2, <2>2, <2>3
<1>6. P \subseteq R  BY <1>3, <1>4, <1>5 DEF Closure, Transitive
<1> QED  BY <1>2, <1>6

(* What a node leads to is on one path. *)
LEMMA SuccessorsComparable ==
  ASSUME NEW S, NEW E \in SUBSET (S \X S), Single(E), NEW P, Closure(P, S, E),
         NEW u \in S, NEW v \in S, NEW w \in S, <<u, v>> \in P, <<u, w>> \in P
  PROVE  Comparable(P, v, w)
<1> DEFINE all(a, b) == \A x \in S : <<a, x>> \in P => Comparable(P, b, x)
           R == {p \in P : all(p[1], p[2])}
<1>1. E \in SUBSET P /\ P \in SUBSET (S \X S) /\ Transitive(P, S)  BY DEF Closure
<1>2. \A a, b \in S : <<a, b>> \in R <=> <<a, b>> \in P /\ all(a, b)  OBVIOUS
<1>3. R \in SUBSET (S \X S)  BY <1>1
<1> HIDE DEF R
<1>4. E \subseteq R
  <2>1. SUFFICES ASSUME NEW p \in E PROVE p \in R  OBVIOUS
  <2>2. PICK a \in S, b \in S : p = <<a, b>>  OBVIOUS
  <2>3. ASSUME NEW x \in S, <<a, x>> \in P PROVE Comparable(P, b, x)
    <3>1. CASE <<a, x>> \in E  BY <2>1, <2>2, <3>1, SingleEnds DEF Comparable
    <3>2. ASSUME NEW y \in S, <<a, y>> \in E, <<y, x>> \in P PROVE Comparable(P, b, x)
      <4>1. y = b  BY <2>1, <2>2, <3>2, SingleEnds
      <4> QED  BY <3>2, <4>1 DEF Comparable
    <3> QED  BY <2>3, <3>1, <3>2, FirstEdge
  <2>4. <<a, b>> \in P  BY <1>1, <2>1, <2>2
  <2> QED  BY <1>2, <2>2, <2>3, <2>4
<1>5. ASSUME NEW a \in S, NEW b \in S, NEW d \in S, <<a, b>> \in R, <<b, d>> \in R
      PROVE  <<a, d>> \in R
  <2>1. <<a, b>> \in P /\ <<b, d>> \in P /\ all(a, b) /\ all(b, d)  BY <1>2, <1>5
  <2>2. <<a, d>> \in P  BY <1>1, <2>1 DEF Transitive
  <2>3. ASSUME NEW x \in S, <<a, x>> \in P PROVE Comparable(P, d, x)
    <3>1. Comparable(P, b, x)  BY <2>1, <2>3
    <3>2. CASE b = x  BY <2>1, <3>2 DEF Comparable
    <3>3. CASE <<b, x>> \in P  BY <2>1, <3>3
    <3>4. CASE <<x, b>> \in P  BY <1>1, <2>1, <3>4 DEF Comparable, Transitive
    <3> QED  BY <3>1, <3>2, <3>3, <3>4 DEF Comparable
  <2> QED  BY <1>2, <2>2, <2>3
<1>6. P \subseteq R  BY <1>3, <1>4, <1>5 DEF Closure, Transitive
<1> QED  BY <1>2, <1>6

(* A class is one path. *)
LEMMA ClassIsPath ==
  ASSUME NEW S, IsFiniteSet(S), NEW E \in SUBSET (S \X S), Single(E),
         NEW c \in Classes(S, E), NEW u \in c, NEW v \in c
  PROVE  Comparable(Paths(S, E), u, v)
<1> DEFINE P == Paths(S, E)
           R == {p \in S \X S : Comparable(P, p[1], p[2])}
<1>1. Closure(P, S, E)  BY PathsAreClosure
<1> HIDE DEF P
<1>2. E \in SUBSET P /\ P \in SUBSET (S \X S) /\ Transitive(P, S)  BY <1>1 DEF Closure
<1>3. \A a, b \in S : <<a, b>> \in R <=> Comparable(P, a, b)  OBVIOUS
<1>4. R \in SUBSET (S \X S)  OBVIOUS
<1> HIDE DEF R
<1>5. E \subseteq R
  <2>1. SUFFICES ASSUME NEW p \in E PROVE p \in R  OBVIOUS
  <2>2. PICK a \in S, b \in S : p = <<a, b>>  OBVIOUS
  <2>3. Comparable(P, a, b)  BY <1>2, <2>1, <2>2 DEF Comparable
  <2> QED  BY <1>3, <2>2, <2>3
<1>6. \A a, b \in S : <<a, b>> \in R => <<b, a>> \in R  BY <1>3 DEF Comparable
<1>7. ASSUME NEW a \in S, NEW b \in S, NEW d \in S, <<a, b>> \in R, <<b, d>> \in R
      PROVE  <<a, d>> \in R
  <2>1. Comparable(P, a, b) /\ Comparable(P, b, d)  BY <1>3, <1>7
  <2>2. CASE a = b \/ b = d  BY <1>7, <2>2
  <2>3. CASE <<a, b>> \in P /\ <<b, d>> \in P  BY <1>2, <1>3, <2>3 DEF Comparable, Transitive
  <2>4. CASE <<b, a>> \in P /\ <<d, b>> \in P  BY <1>2, <1>3, <2>4 DEF Comparable, Transitive
  <2>5. CASE <<a, b>> \in P /\ <<d, b>> \in P  BY <1>1, <1>3, <2>5, PredecessorsComparable
  <2>6. CASE <<b, a>> \in P /\ <<b, d>> \in P  BY <1>1, <1>3, <2>6, SuccessorsComparable
  <2> QED  BY <2>1, <2>2, <2>3, <2>4, <2>5, <2>6 DEF Comparable
<1>8. Transitive(R, S)  BY <1>7 DEF Transitive
<1>9. u \in S /\ v \in S
  <2>1. Partition(Classes(S, E), S)  BY ClassesPartition
  <2> QED  BY <2>1 DEF Partition
<1>10. CASE u = v  BY <1>10 DEF Comparable
<1>11. CASE u # v
  <2>1. <<u, v>> \in R  BY <1>4, <1>5, <1>6, <1>8, <1>11, ClassesLeast
  <2> QED  BY <1>3, <1>9, <2>1 DEF P
<1> QED  BY <1>10, <1>11

(* An order of a set that no pair leaves respects the paths as well. *)
LEMMA OrderRespectsPaths ==
  ASSUME NEW S, NEW E \in SUBSET (S \X S), NEW P, Closure(P, S, E),
         NEW c \in SUBSET S, \A u, v \in S : <<u, v>> \in E /\ u \in c => v \in c,
         NEW o, Ordered(o, c, E),
         NEW u \in c, NEW v \in S, <<u, v>> \in P
  PROVE  Before(o, u, v)
<1> DEFINE kept(a, b) == a \in c => b \in c /\ Before(o, a, b)
           R == {p \in P : kept(p[1], p[2])}
<1>1. E \in SUBSET P /\ P \in SUBSET (S \X S) /\ Transitive(P, S)  BY DEF Closure
<1>2. \A a, b \in S : <<a, b>> \in R <=> <<a, b>> \in P /\ kept(a, b)  OBVIOUS
<1>3. R \in SUBSET (S \X S)  BY <1>1
<1>4. Enumerates(o, c) /\ \A a, b \in c : <<a, b>> \in E => Before(o, a, b)  BY DEF Ordered
<1> HIDE DEF R
<1>5. E \subseteq R
  <2>1. SUFFICES ASSUME NEW p \in E PROVE p \in R  OBVIOUS
  <2>2. PICK a \in S, b \in S : p = <<a, b>>  OBVIOUS
  <2>3. kept(a, b)  BY <1>4, <2>1, <2>2
  <2> QED  BY <1>1, <1>2, <2>1, <2>2, <2>3
<1>6. ASSUME NEW a \in S, NEW b \in S, NEW d \in S, <<a, b>> \in R, <<b, d>> \in R
      PROVE  <<a, d>> \in R
  <2>1. <<a, b>> \in P /\ <<b, d>> \in P /\ kept(a, b) /\ kept(b, d)  BY <1>2, <1>6
  <2>2. <<a, d>> \in P  BY <1>1, <2>1 DEF Transitive
  <2>3. kept(a, d)
    <3>1. SUFFICES ASSUME a \in c PROVE d \in c /\ Before(o, a, d)  OBVIOUS
    <3>2. d \in c /\ Before(o, a, b) /\ Before(o, b, d)  BY <2>1, <3>1
    <3> QED  BY <1>4, <3>2, BeforeTransitive
  <2> QED  BY <1>2, <2>2, <2>3
<1>7. P \subseteq R  BY <1>3, <1>5, <1>6 DEF Closure, Transitive
<1> QED  BY <1>2, <1>7

(* More edges make more paths. *)
LEMMA MorePaths ==
  ASSUME NEW S, IsFiniteSet(S), NEW F \in SUBSET (S \X S), NEW E \in SUBSET F
  PROVE  Paths(S, E) \subseteq Paths(S, F)
<1>1. Closure(Paths(S, E), S, E)  BY PathsAreClosure
<1>2. Closure(Paths(S, F), S, F)  BY PathsAreClosure
<1> QED  BY <1>1, <1>2 DEF Closure

(* In a class, the pairs alone order what all edges order. *)
LEMMA ClassOrder ==
  ASSUME NEW S, IsFiniteSet(S), NEW F \in SUBSET (S \X S), Acyclic(S, F),
         NEW E \in SUBSET F, Single(E), NEW c \in Classes(S, E)
  PROVE  /\ \E o : Ordered(o, c, E)
         /\ \A o : Ordered(o, c, E) => Ordered(o, c, F)
<1> DEFINE C == Classes(S, E)
<1>1. Partition(C, S)  BY ClassesPartition
<1>2. IsFiniteSet(c) /\ c \in SUBSET S  BY <1>1, PartitionFinite
<1>3. Closure(Paths(S, E), S, E) /\ Closure(Paths(S, F), S, F)  BY PathsAreClosure
<1>4. Paths(S, E) \subseteq Paths(S, F)  BY MorePaths
<1>5. \A u \in S : <<u, u>> \notin Paths(S, F)  BY DEF Acyclic
<1>6. \E o : Ordered(o, c, E)
  <2>1. Transitive(Paths(S, E), c)  BY <1>2, <1>3 DEF Closure, Transitive
  <2>2. \A u \in c : <<u, u>> \notin Paths(S, E)  BY <1>2, <1>4, <1>5
  <2>3. \A u, v \in c : <<u, v>> \in E => <<u, v>> \in Paths(S, E)  BY <1>3 DEF Closure
  <2> QED  BY <1>2, <2>1, <2>2, <2>3, OrderExists
<1>7. \A u, v \in S : <<u, v>> \in E /\ u \in c => v \in c
  <2> SUFFICES ASSUME NEW u \in S, NEW v \in S, <<u, v>> \in E, u \in c PROVE v \in c
    OBVIOUS
  <2>1. ClassOf(C, u) = ClassOf(C, v)  BY ClassesJoin
  <2>2. c = ClassOf(C, u) /\ v \in ClassOf(C, v)  BY <1>1, PartitionClass
  <2> QED  BY <2>1, <2>2
<1>8. ASSUME NEW o, Ordered(o, c, E) PROVE Ordered(o, c, F)
  <2>1. ASSUME NEW u \in c, NEW v \in c, <<u, v>> \in F PROVE Before(o, u, v)
    <3>1. u \in S /\ v \in S /\ <<u, v>> \in Paths(S, F)  BY <1>2, <1>3, <2>1 DEF Closure
    <3>2. Comparable(Paths(S, E), u, v)  BY ClassIsPath
    <3>3. u # v  BY <1>5, <3>1
    <3>4. <<v, u>> \notin Paths(S, E)
      <4>1. SUFFICES ASSUME <<v, u>> \in Paths(S, E) PROVE FALSE  OBVIOUS
      <4>2. <<v, u>> \in Paths(S, F)  BY <1>4, <4>1
      <4>3. <<u, u>> \in Paths(S, F)  BY <1>3, <3>1, <4>2 DEF Closure, Transitive
      <4> QED  BY <1>5, <3>1, <4>3
    <3>5. <<u, v>> \in Paths(S, E)  BY <3>2, <3>3, <3>4 DEF Comparable
    <3>6. E \in SUBSET (S \X S)  OBVIOUS
    <3> QED  BY <1>2, <1>3, <1>7, <1>8, <3>1, <3>5, <3>6, OrderRespectsPaths
  <2> QED  BY <1>8, <2>1 DEF Ordered
<1> QED  BY <1>6, <1>8

(* What an order of the classes becomes with every class in its place. *)
LEMMA ExpandOrder ==
  ASSUME NEW S, IsFiniteSet(S), NEW F \in SUBSET (S \X S), Acyclic(S, F),
         NEW E \in SUBSET F, Single(E),
         NEW order, Ordered(order, Classes(S, E), EdgesBetween(Classes(S, E), F))
  PROVE  Ordered(Expand(order, E), S, F)
<1> DEFINE C == Classes(S, E)  n == Len(order)
           place(k) == CHOOSE o \in TopologicalOrders(order[k], E) : TRUE
           seqs == [k \in 1 .. n |-> place(k)]
           X == {place(k) : k \in 1 .. n}
<1>1. Partition(C, S)  BY ClassesPartition
<1>2. Enumerates(order, C)  BY DEF Ordered
<1>3. n \in Nat /\ \A k \in 1 .. n : order[k] \in C  BY <1>2 DEF Enumerates
<1>4. Forward(order, F)  BY <1>1, OrderIsForward
<1>5. ASSUME NEW k \in 1 .. n PROVE Ordered(place(k), order[k], F)
  <2>1. order[k] \in C /\ IsFiniteSet(order[k])  BY <1>1, <1>3, PartitionFinite
  <2>2. \E o : Ordered(o, order[k], E)  BY <2>1, ClassOrder
  <2>3. \A o : o \in TopologicalOrders(order[k], E) <=> Ordered(o, order[k], E)
    BY <2>1, TopologicalOrdersAre
  <2>4. place(k) \in TopologicalOrders(order[k], E)
    <3>1. \E o : o \in TopologicalOrders(order[k], E)  BY <2>2, <2>3
    <3> QED  BY <3>1
  <2> HIDE DEF place
  <2>5. Ordered(place(k), order[k], E)  BY <2>3, <2>4
  <2> QED  BY <2>1, <2>5, ClassOrder
<1>6. Expand(order, E) = FlattenSeq(seqs)  BY DEF Expand
<1> HIDE DEF place
<1>7. seqs \in Seq(X) /\ Len(seqs) = n /\ \A k \in 1 .. n : seqs[k] = place(k)  BY <1>3
<1> HIDE DEF seqs, X
<1>8. \A k \in 1 .. Len(order) : Ordered(seqs[k], order[k], F)  BY <1>5, <1>7
<1> QED  BY <1>1, <1>2, <1>4, <1>6, <1>7, <1>8, FlattenOrder

-----------------------------------------------------------------------------
(* The orders that satisfiable_graph finds. *)

Graph(g) ==
  /\ g = [nodes |-> g.nodes, edges |-> g.edges, red |-> g.red]
  /\ IsFiniteSet(g.nodes) /\ g.edges \in SUBSET (g.nodes \X g.nodes)
  /\ g.red \in SUBSET g.edges
  /\ Acyclic(g.nodes, g.edges)

(* Edges of which there is another path. *)
Other(S, E) ==
  {e \in E : \E w \in S : <<e[1], w>> \in Paths(S, E) /\ <<w, e[2]>> \in Paths(S, E)}

(* An order that respects the edges that are left respects all edges. *)
LEMMA ReducedOrder ==
  ASSUME NEW S, IsFiniteSet(S), NEW E \in SUBSET (S \X S), Acyclic(S, E),
         NEW o, Ordered(o, S, E \ Other(S, E))
  PROVE  Ordered(o, S, E)
<1> DEFINE R == E \ Other(S, E)  P == Paths(S, E)  Q == Paths(S, R)
           between(u, v) == {w \in S : <<u, w>> \in P /\ <<w, v>> \in P}
           Bad == {T \in SUBSET S : \E u, v \in S : /\ <<u, v>> \in P /\ <<u, v>> \notin Q
                                                    /\ between(u, v) \subseteq T}
<1>1. Closure(P, S, E) /\ Closure(Q, S, R)  BY PathsAreClosure
<1>2. \A u \in S : <<u, u>> \notin P  BY DEF Acyclic
<1>3. \A u, v \in S : <<u, v>> \in R <=> <<u, v>> \in E /\ between(u, v) = {}
  BY DEF Other
<1>4. R \in SUBSET (S \X S)  OBVIOUS
<1> HIDE DEF R, P, Q
<1>5. Transitive(P, S) /\ Transitive(Q, S) /\ R \subseteq Q /\ E \subseteq P
  BY <1>1 DEF Closure
<1>6. ASSUME Bad # {} PROVE FALSE
  <2>1. PICK T \in Bad : \A x \in T : T \ {x} \notin Bad
    <3>1. Bad \in SUBSET SUBSET S  OBVIOUS
    <3> HIDE DEF Bad
    <3> QED  BY <1>6, <3>1, MinimalSubset
  <2>2. PICK u \in S, v \in S : /\ <<u, v>> \in P /\ <<u, v>> \notin Q
                                /\ between(u, v) \subseteq T
    OBVIOUS
  <2>3. CASE between(u, v) = {}
    <3>1. <<u, v>> \in E
      <4>1. \A w \in S : <<u, w>> \in P /\ <<w, v>> \in E => w \in between(u, v)  BY <1>5
      <4> HIDE DEF Bad, between
      <4>2. <<u, v>> \in E \/ \E w \in S : <<u, w>> \in P /\ <<w, v>> \in E
        BY <1>1, <2>2, LastEdge
      <4> QED  BY <2>3, <4>1, <4>2
    <3> QED  BY <1>3, <1>5, <2>2, <2>3, <3>1
  <2>4. ASSUME NEW w \in between(u, v) PROVE FALSE
    <3>1. w \in T /\ w \in S /\ <<u, w>> \in P /\ <<w, v>> \in P  BY <2>2, <2>4
    <3>2. T \ {w} \in SUBSET S /\ T \ {w} \notin Bad  BY <2>1, <3>1
    <3>3. between(u, w) \subseteq T \ {w}
      <4>1. SUFFICES ASSUME NEW x \in between(u, w) PROVE x \in T /\ x # w  OBVIOUS
      <4>2. x \in S /\ <<u, x>> \in P /\ <<x, w>> \in P  BY <4>1
      <4>3. <<x, v>> \in P  BY <1>5, <2>2, <3>1, <4>2 DEF Transitive
      <4> QED  BY <1>2, <2>2, <4>2, <4>3
    <3>4. between(w, v) \subseteq T \ {w}
      <4>1. SUFFICES ASSUME NEW x \in between(w, v) PROVE x \in T /\ x # w  OBVIOUS
      <4>2. x \in S /\ <<w, x>> \in P /\ <<x, v>> \in P  BY <4>1
      <4>3. <<u, x>> \in P  BY <1>5, <2>2, <3>1, <4>2 DEF Transitive
      <4> QED  BY <1>2, <2>2, <4>2, <4>3
    <3> HIDE DEF between
    <3>5. <<u, w>> \in Q /\ <<w, v>> \in Q  BY <2>2, <3>1, <3>2, <3>3, <3>4
    <3> QED  BY <1>5, <2>2, <3>1, <3>5 DEF Transitive
  <2> QED  BY <2>3, <2>4
<1>7. \A u, v \in S : <<u, v>> \in P => <<u, v>> \in Q
  <2>1. SUFFICES ASSUME NEW u \in S, NEW v \in S, <<u, v>> \in P, <<u, v>> \notin Q
                 PROVE  FALSE
    OBVIOUS
  <2>2. S \in Bad  BY <2>1
  <2> QED  BY <1>6, <2>2
<1>8. Ordered(o, S, R)  BY DEF R
<1>9. ASSUME NEW u \in S, NEW v \in S, <<u, v>> \in E PROVE Before(o, u, v)
  <2>1. <<u, v>> \in Q  BY <1>5, <1>7, <1>9
  <2> QED  BY <1>1, <1>4, <1>8, <2>1, OrderRespectsPaths
<1> QED  BY <1>8, <1>9 DEF Ordered

(* preprocess() loses no path, so that an order of what is left will do. *)
LEMMA PreprocessGraph ==
  ASSUME NEW g, Graph(g)
  PROVE  /\ Graph(Preprocess(g)) /\ Preprocess(g).nodes = g.nodes
         /\ \A o : Ordered(o, g.nodes, Preprocess(g).edges) => Ordered(o, g.nodes, g.edges)
<1> DEFINE S == g.nodes  E == g.edges  D == g.red  O == Other(S, E)
<1>1. /\ g = [nodes |-> S, edges |-> E, red |-> D]
      /\ IsFiniteSet(S) /\ E \in SUBSET (S \X S) /\ D \in SUBSET E /\ Acyclic(S, E)
  BY DEF Graph
<1>2. Preprocess(g) = [g EXCEPT !.edges = g.edges \ O, !.red = g.red \ O]
  BY DEF Preprocess, Other
<1> HIDE DEF S, E, D, O
<1>3. Preprocess(g) = [nodes |-> S, edges |-> E \ O, red |-> D \ O]
  BY <1>1, <1>2 DEF S, E, D
<1>4. Acyclic(S, E \ O)
  <2>1. Paths(S, E \ O) \subseteq Paths(S, E)  BY <1>1, MorePaths
  <2> QED  BY <1>1, <2>1 DEF Acyclic
<1>5. Graph(Preprocess(g))
  <2> DEFINE h == Preprocess(g)
  <2>1. /\ h = [nodes |-> S, edges |-> E \ O, red |-> D \ O]
        /\ h.nodes = S /\ h.edges = E \ O /\ h.red = D \ O
    BY <1>3
  <2> HIDE DEF h
  <2>2. E \ O \in SUBSET (S \X S) /\ D \ O \in SUBSET (E \ O)  BY <1>1
  <2>3. Graph(h)
    <3>1. h = [nodes |-> h.nodes, edges |-> h.edges, red |-> h.red]  BY <2>1
    <3>2. IsFiniteSet(h.nodes) /\ Acyclic(h.nodes, h.edges)  BY <1>1, <1>4, <2>1
    <3>3. h.edges \in SUBSET (h.nodes \X h.nodes) /\ h.red \in SUBSET h.edges
      BY <2>1, <2>2
    <3> QED  BY <3>1, <3>2, <3>3 DEF Graph
  <2> QED  BY <2>3 DEF h
<1>6. \A o : Ordered(o, S, E \ O) => Ordered(o, S, E)  BY <1>1, ReducedOrder DEF O
<1> QED  BY <1>3, <1>5, <1>6 DEF S, E

(* A component is a graph, and an order of it respects its edges. *)
LEMMA SubgraphGraph ==
  ASSUME NEW g, Graph(g), NEW c \in SUBSET g.nodes
  PROVE  /\ Graph(Subgraph(g, c)) /\ Subgraph(g, c).nodes = c
         /\ \A o : Ordered(o, c, Subgraph(g, c).edges) => Ordered(o, c, g.edges)
<1> DEFINE S == g.nodes  E == g.edges  D == g.red  h == Subgraph(g, c)  F == E \cap (c \X c)
<1>1. IsFiniteSet(S) /\ E \in SUBSET (S \X S) /\ D \in SUBSET E /\ Acyclic(S, E)
  BY DEF Graph
<1>2. h = [nodes |-> c, edges |-> F, red |-> D \cap (c \X c)]  BY DEF Subgraph
<1>3. IsFiniteSet(c) /\ F \in SUBSET (c \X c) /\ D \cap (c \X c) \in SUBSET F
  BY <1>1, FS_Subset
<1>4. \A u, v \in c : <<u, v>> \in E => <<u, v>> \in F  OBVIOUS
<1>5. F \in SUBSET E /\ c \in SUBSET S  OBVIOUS
<1> HIDE DEF S, E, D, F, h
<1>6. Closure(Paths(S, E), S, E) /\ Closure(Paths(c, F), c, F)
  BY <1>1, <1>3, PathsAreClosure
<1> DEFINE R == Paths(S, E) \cap (c \X c)
<1>7. R \in SUBSET (c \X c) /\ F \subseteq R  BY <1>3, <1>5, <1>6 DEF Closure
<1>8. Transitive(R, c)  BY <1>5, <1>6 DEF Closure, Transitive
<1>9. Paths(c, F) \subseteq R  BY <1>6, <1>7, <1>8 DEF Closure
<1>10. Acyclic(c, F)  BY <1>1, <1>5, <1>9 DEF Acyclic
<1>11. Graph(h)  BY <1>2, <1>3, <1>10 DEF Graph
<1>12. \A o : Ordered(o, c, F) => Ordered(o, c, E)  BY <1>4 DEF Ordered
<1> QED  BY <1>2, <1>11, <1>12 DEF h, E

(* bruteforce_satisfiable_edges(): what it orders is in order. *)
LEMMA OptimalOrdersOrdered ==
  ASSUME NEW g, Graph(g), NEW o \in OptimalOrders(g)
  PROVE  Ordered(o, g.nodes, g.edges)
<1> DEFINE classes(red) == Classes(g.nodes, red)
           orders(red) == TopologicalOrders(classes(red), EdgesBetween(classes(red), g.edges))
           expanded(red) == {Expand(x, red) : x \in orders(red)}
           good == {red \in SUBSET g.red : Satisfiable(g, red)}
           best == {red \in good : \A other \in good : Cardinality(other) <= Cardinality(red)}
<1>1. OptimalOrders(g) = UNION {expanded(red) : red \in best}  BY DEF OptimalOrders
<1>2. \A red \in best : red \in SUBSET g.red /\ Satisfiable(g, red)  OBVIOUS
<1>3. \A red : \A y \in expanded(red) : \E x \in orders(red) : y = Expand(x, red)  OBVIOUS
<1> HIDE DEF best, expanded
<1>4. PICK red \in best : o \in expanded(red)  BY <1>1
<1>5. PICK x \in orders(red) : o = Expand(x, red)  BY <1>3, <1>4
<1>6. /\ IsFiniteSet(g.nodes) /\ g.edges \in SUBSET (g.nodes \X g.nodes)
      /\ Acyclic(g.nodes, g.edges) /\ red \in SUBSET g.edges
  BY <1>2, <1>4 DEF Graph
<1>7. Single(red)  BY <1>2, <1>4 DEF Satisfiable, Single
<1>8. IsFiniteSet(classes(red))
  <2>1. red \in SUBSET (g.nodes \X g.nodes)  BY <1>6
  <2>2. Partition(classes(red), g.nodes)  BY <1>6, <2>1, ClassesPartition
  <2> QED  BY <1>6, <2>2, PartitionFinite
<1>9. Ordered(x, classes(red), EdgesBetween(classes(red), g.edges))
  BY <1>5, <1>8, TopologicalOrdersAre
<1> QED  BY <1>5, <1>6, <1>7, <1>9, ExpandOrder

(* A finite set of numbers has a largest. *)
LEMMA MaxOf ==
  ASSUME NEW n \in Nat, NEW s \in SUBSET (1 .. n), s # {}
  PROVE  Max(s) \in s /\ \A y \in s : y <= Max(s)
<1> DEFINE Bounds == {m \in Nat : \A y \in s : y <= m}
<1>1. n \in Bounds  OBVIOUS
<1>2. PICK m \in Bounds : \A k \in Bounds : m <= k
  <2>1. Bounds \in SUBSET Nat /\ Bounds # {}  BY <1>1
  <2> HIDE DEF Bounds
  <2> QED  BY <2>1, LeastOf
<1>3. m \in s
  <2>1. SUFFICES ASSUME m \notin s PROVE FALSE  OBVIOUS
  <2>2. \A y \in s : y \in Nat /\ y >= 1 /\ y <= m /\ y # m  BY <1>2, <2>1
  <2>3. m \in Nat /\ \E y \in s : TRUE  OBVIOUS
  <2>4. m - 1 \in Nat /\ \A y \in s : y <= m - 1
    <3> HIDE DEF Bounds
    <3> QED  BY <2>2, <2>3
  <2>5. m - 1 \in Bounds  BY <2>4
  <2> QED  BY <1>2, <2>3, <2>5
<1>4. \A y \in s : m >= y  BY <1>2
<1>5. Max(s) \in s /\ \A y \in s : Max(s) >= y
  <2> HIDE DEF Bounds
  <2> QED  BY <1>3, <1>4 DEF Max
<1> QED  BY <1>5

(* topological_order() of satisfiable_graph: the components' orders, joined. *)
PartOrders(g, part) == OptimalOrders(Preprocess(Subgraph(g, part)))

Joined(g, o) ==
  LET concat(orders, part) == {q \o p : q \in orders, p \in PartOrders(g, part)}
  IN FoldLeft(concat, {<<>>}, o)

(* An order of a component respects its edges. *)
LEMMA PartOrdersOrdered ==
  ASSUME NEW g, Graph(g), NEW part \in SUBSET g.nodes, NEW p \in PartOrders(g, part)
  PROVE  Ordered(p, part, g.edges)
<1> DEFINE h == Subgraph(g, part)
<1>1. /\ Graph(h) /\ h.nodes = part
      /\ \A y : Ordered(y, part, h.edges) => Ordered(y, part, g.edges)
  BY SubgraphGraph
<1>2. p \in OptimalOrders(Preprocess(h))  BY DEF PartOrders
<1> HIDE DEF h
<1>3. /\ Graph(Preprocess(h)) /\ Preprocess(h).nodes = h.nodes
      /\ \A y : Ordered(y, h.nodes, Preprocess(h).edges) => Ordered(y, h.nodes, h.edges)
  BY <1>1, PreprocessGraph
<1>4. Ordered(p, Preprocess(h).nodes, Preprocess(h).edges)
  BY <1>2, <1>3, OptimalOrdersOrdered
<1> QED  BY <1>1, <1>3, <1>4

(* What the orders of the first components make, as Joined() finds it. *)
JoinTable(g, S, o, f) ==
  /\ f[0] = {<<>>} /\ f[Len(o)] = Joined(g, o)
  /\ \A k \in 1 .. Len(o) : \A y :
       y \in f[k] <=> \E q \in f[k - 1], p \in PartOrders(g, o[k]) : y = q \o p
  /\ \A k \in 0 .. Len(o) : f[k] \in SUBSET Seq(S)

(* The table from which the fold of FoldLeft is read. *)
LEMMA JoinedTable ==
  ASSUME NEW g, NEW S, NEW C, NEW o \in Seq(C), \A c \in C : PartOrders(g, c) \in SUBSET Seq(S)
  PROVE  \E f : JoinTable(g, S, o, f)
<1> DEFINE n == Len(o)  D == 1 .. n
           opt(part) == PartOrders(g, part)
           concat(orders, part) == {q \o p : q \in orders, p \in opt(part)}
<1>1. n \in Nat /\ DOMAIN o = D
      /\ \A k \in D : o[k] \in C /\ opt(o[k]) \in SUBSET Seq(S)
  OBVIOUS
<1>5. \A K, part, y : y \in concat(K, part) <=> \E q \in K, p \in opt(part) : y = q \o p
  OBVIOUS
<1> HIDE DEF opt, concat
<1>6. \A K \in SUBSET Seq(S), k \in D : concat(K, o[k]) \in SUBSET Seq(S)
  <2> TAKE K \in SUBSET Seq(S), k \in D
  <2>1. SUFFICES ASSUME NEW y \in concat(K, o[k]) PROVE y \in Seq(S)  OBVIOUS
  <2>2. PICK q \in K, p \in opt(o[k]) : y = q \o p  BY <1>5, <2>1
  <2>3. p \in Seq(S)  BY <1>1
  <2>4. q \in Seq(S)  OBVIOUS
  <2> QED  BY <2>2, <2>3, <2>4
<1> DEFINE Lists == SUBSET Seq(S)
           Fold(f) == f = [s \in SUBSET D |->
                             IF s = {} THEN {<<>>} ELSE concat(f[s \ {Max(s)}], o[Max(s)])]
           c == [s \in SUBSET D |-> Max(s)]
           H == [z \in D \X Lists |-> concat(z[2], o[z[1]])]
<1>7. \A s \in SUBSET D : s # {} => c[s] = Max(s) /\ c[s] \in s  BY <1>1, MaxOf
<1>8. \A k \in D, K \in Lists : H[<<k, K>>] = concat(K, o[k])  OBVIOUS
<1>9. <<>> \in Seq(S)  OBVIOUS
<1>10. {<<>>} \in Lists  BY <1>9
<1>11. \A K \in Lists, k \in D : concat(K, o[k]) \in Lists  BY <1>6
<1> HIDE DEF Lists, H
<1>12. \E f : Fold(f) /\ \A s \in SUBSET D : f[s] \in Lists
  <2>1. IsFiniteSet(D)  BY <1>1, FS_Interval
  <2>2. PICK f : Folded(D, {<<>>}, c, H, f)
    <3>1. \A s \in SUBSET D : s # {} => c[s] \in s  BY <1>7
    <3> HIDE DEF c, D
    <3> QED  BY <2>1, <3>1, FoldExists
  <2>3. \A s \in SUBSET D : f[s] = IF s = {} THEN {<<>>} ELSE H[<<c[s], f[s \ {c[s]}]>>]
    BY <2>2 DEF Folded
  <2> HIDE DEF c
  <2>4. \A s \in SUBSET D : f[s] \in Lists
    <3> DEFINE Bad == {s \in SUBSET D : f[s] \notin Lists}
    <3> SUFFICES ASSUME Bad # {} PROVE FALSE  OBVIOUS
    <3>1. PICK s \in Bad : \A y \in s : s \ {y} \notin Bad
      <4>1. Bad \in SUBSET SUBSET D  OBVIOUS
      <4> HIDE DEF Bad, D
      <4> QED  BY <2>1, <4>1, MinimalSubset
    <3>2. s # {}  BY <1>10, <2>3
    <3>3. c[s] \in s /\ s \in SUBSET D  BY <1>7, <3>2
    <3>4. f[s \ {c[s]}] \in Lists  BY <3>1, <3>3
    <3>5. f[s] = H[<<c[s], f[s \ {c[s]}]>>]  BY <2>3, <3>2, <3>3
    <3>6. c[s] \in D  BY <3>3
    <3>7. f[s] \in Lists  BY <1>8, <1>11, <3>4, <3>5, <3>6
    <3> QED  BY <3>7
  <2>5. \A s \in SUBSET D : f[s] = IF s = {} THEN {<<>>} ELSE concat(f[s \ {Max(s)}], o[Max(s)])
    <3> TAKE s \in SUBSET D
    <3>1. CASE s = {}  BY <2>3, <3>1
    <3>2. CASE s # {}
      <4>1. c[s] = Max(s) /\ c[s] \in D /\ s \ {c[s]} \in SUBSET D  BY <1>7, <3>2
      <4>2. f[s] = H[<<c[s], f[s \ {c[s]}]>>]  BY <2>3, <3>2
      <4>3. f[s \ {c[s]}] \in Lists  BY <2>4, <4>1
      <4>4. f[s] = concat(f[s \ {c[s]}], o[c[s]])  BY <1>8, <4>1, <4>2, <4>3
      <4> QED  BY <3>2, <4>1, <4>4
    <3> QED  BY <3>1, <3>2
  <2>6. f = [s \in SUBSET D |-> f[s]]  BY <2>2 DEF Folded
  <2>7. Fold(f)
    <3> HIDE DEF D
    <3> QED  BY <2>5, <2>6
  <2> QED  BY <2>4, <2>7
<1> DEFINE f == CHOOSE h : Fold(h)
<1>13. Joined(g, o) = f[D]
  BY <1>1 DEF Joined, FoldLeft, MapThenFoldSet, concat, opt, PartOrders
<1>14. Fold(f)
  <2> HIDE DEF Fold
  <2> QED  BY <1>12
<1>19. \A h : Fold(h) /\ (\A s \in SUBSET D : h[s] \in Lists) => \A s \in SUBSET D : f[s] \in Lists
  <2> TAKE h
  <2> HAVE Fold(h) /\ (\A s \in SUBSET D : h[s] \in Lists)
  <2> DEFINE Bad == {s \in SUBSET D : f[s] # h[s]}
  <2>0. \A s \in SUBSET D : f[s] = IF s = {} THEN {<<>>} ELSE concat(f[s \ {Max(s)}], o[Max(s)])
    BY <1>14
  <2>1. \A s \in SUBSET D : h[s] = IF s = {} THEN {<<>>} ELSE concat(h[s \ {Max(s)}], o[Max(s)])
    OBVIOUS
  <2> HIDE DEF Fold, f
  <2>2. Bad = {}
    <3> SUFFICES ASSUME Bad # {} PROVE FALSE  OBVIOUS
    <3>1. PICK s \in Bad : \A y \in s : s \ {y} \notin Bad
      <4>1. Bad \in SUBSET SUBSET D  OBVIOUS
      <4>2. IsFiniteSet(D)  BY <1>1, FS_Interval
      <4> HIDE DEF Bad, D
      <4> QED  BY <4>1, <4>2, MinimalSubset
    <3>2. s # {} /\ s \in SUBSET D  BY <2>0, <2>1
    <3>3. Max(s) \in s  BY <1>7, <3>2
    <3>4. f[s \ {Max(s)}] = h[s \ {Max(s)}]  BY <3>1, <3>2, <3>3
    <3>5. f[s] = h[s]  BY <2>0, <2>1, <3>2, <3>4
    <3> QED  BY <3>5
  <2> QED  BY <2>2
<1>20. \A s \in SUBSET D : f[s] \in Lists  BY <1>12, <1>19
<1> HIDE DEF f
<1>15. \A s \in SUBSET D : f[s] = IF s = {} THEN {<<>>} ELSE concat(f[s \ {Max(s)}], o[Max(s)])
  BY <1>14
<1> HIDE DEF Fold, c
<1> DEFINE t == [k \in 0 .. n |-> f[1 .. k]]
<1>16. \A k \in 0 .. n : 1 .. k \in SUBSET D /\ t[k] = f[1 .. k]
  BY <1>1
<1>17. t[0] = {<<>>}
  <2>1. 1 .. 0 = {} /\ 1 .. 0 \in SUBSET D  OBVIOUS
  <2>2. f[1 .. 0] = {<<>>}  BY <1>15, <2>1
  <2>3. 0 \in 0 .. n  BY <1>1
  <2> QED  BY <1>16, <2>2, <2>3
<1>18. ASSUME NEW k \in D PROVE t[k] = concat(t[k - 1], o[k])
  <2>1. k \in 0 .. n /\ k - 1 \in 0 .. n  BY <1>1
  <2>2. Max(1 .. k) = k
    <3>1. k \in 1 .. k /\ 1 .. k \in SUBSET (1 .. k) /\ k \in Nat  BY <1>1
    <3>2. Max(1 .. k) \in 1 .. k /\ \A y \in 1 .. k : y <= Max(1 .. k)  BY <3>1, MaxOf
    <3> QED  BY <3>1, <3>2
  <2>3. 1 .. k # {} /\ (1 .. k) \ {k} = 1 .. (k - 1)
    <3>1. k \in 1 .. k  BY <1>1
    <3>2. \A j : j \in (1 .. k) \ {k} <=> j \in 1 .. (k - 1)  BY <1>1
    <3> QED  BY <3>1, <3>2
  <2>4. 1 .. k \in SUBSET D  BY <1>16, <2>1
  <2>5. f[1 .. k] = concat(f[1 .. (k - 1)], o[k])  BY <1>15, <2>2, <2>3, <2>4
  <2>6. t[k] = f[1 .. k] /\ t[k - 1] = f[1 .. (k - 1)]  BY <1>16, <2>1
  <2> QED  BY <2>5, <2>6
<1> HIDE DEF t
<1>21. t[n] = Joined(g, o)
  <2>1. n \in 0 .. n  BY <1>1
  <2> QED  BY <1>13, <1>16, <2>1
<1>22. \A k \in D : \A y : y \in t[k] <=> \E q \in t[k - 1], p \in opt(o[k]) : y = q \o p
  <2> TAKE k \in D
  <2> TAKE y
  <2> DEFINE K == t[k - 1]
  <2>1. t[k] = concat(K, o[k])  BY <1>18
  <2> HIDE DEF K
  <2>2. y \in concat(K, o[k]) <=> \E q \in K, p \in opt(o[k]) : y = q \o p  BY <1>5
  <2> QED  BY <2>1, <2>2 DEF K
<1>23. \A k \in 0 .. n : t[k] \in SUBSET Seq(S)  BY <1>16, <1>20 DEF Lists
<1>24. JoinTable(g, S, o, t)  BY <1>17, <1>21, <1>22, <1>23 DEF opt, JoinTable
<1> QED  BY <1>24

(* The components' orders, one after the other, order the nodes. *)
LEMMA JoinedOrders ==
  ASSUME NEW g, Graph(g), NEW C, Partition(C, g.nodes),
         NEW o, Ordered(o, C, EdgesBetween(C, g.edges)), NEW x \in Joined(g, o)
  PROVE  Ordered(x, g.nodes, g.edges)
<1> DEFINE S == g.nodes  E == g.edges  n == Len(o)  D == 1 .. n
<1>1. Enumerates(o, C) /\ n \in Nat /\ \A k \in D : o[k] \in C
  <2>1. Enumerates(o, C)  BY DEF Ordered
  <2>2. o \in Seq(C)  BY <2>1 DEF Enumerates
  <2> QED  BY <2>1, <2>2
<1>2. E \in SUBSET (S \X S) /\ IsFiniteSet(S)  BY DEF Graph
<1>3. Forward(o, E)  BY <1>2, OrderIsForward
<1>4. \A part \in C : \A p \in PartOrders(g, part) : Ordered(p, part, E)
  BY PartOrdersOrdered DEF Partition
<1>5. \A part \in C : PartOrders(g, part) \in SUBSET Seq(S)
  <2> SUFFICES ASSUME NEW part \in C, NEW p \in PartOrders(g, part) PROVE p \in Seq(S)
    OBVIOUS
  <2>1. p \in Seq(part)  BY <1>4 DEF Ordered, Enumerates
  <2>2. part \in SUBSET S  BY DEF Partition
  <2> HIDE DEF S
  <2> QED  BY <2>1, <2>2
<1>6. PICK f : JoinTable(g, S, o, f)
  <2>1. o \in Seq(C)  BY <1>1 DEF Enumerates
  <2> HIDE DEF S
  <2> QED  BY <1>5, <2>1, JoinedTable
<1> DEFINE Holds(k) == \A y \in f[k] : Ordered(y, Prefix(o, k), E)
           Bad == {k \in Nat : k <= n /\ ~Holds(k)}
<1>7. ASSUME Bad # {} PROVE FALSE
  <2>1. PICK k \in Bad : \A j \in Bad : k <= j
    <3>1. Bad \in SUBSET Nat  OBVIOUS
    <3> HIDE DEF Bad
    <3> QED  BY <1>7, <3>1, LeastOf
  <2>2. k \in Nat /\ k <= n /\ ~Holds(k)  BY <2>1
  <2>3. CASE k = 0
    <3>1. f[0] = {<<>>}  BY <1>6 DEF JoinTable
    <3>2. Prefix(o, 0) = {}  BY <1>1, PrefixAll
    <3>3. Ordered(<<>>, {}, E)  BY EmptyOrder
    <3> QED  BY <2>2, <2>3, <3>1, <3>2, <3>3
  <2>4. CASE k # 0
    <3>1. k - 1 \in Nat /\ k - 1 < n /\ (k - 1) + 1 = k /\ k \in D  BY <1>1, <2>2, <2>4
    <3>2. Holds(k - 1)  BY <1>1, <2>1, <3>1
    <3>3. ASSUME NEW y \in f[k] PROVE Ordered(y, Prefix(o, k), E)
      <4>1. PICK q \in f[k - 1], p \in PartOrders(g, o[k]) : y = q \o p
        <5>1. \A z : z \in f[k] <=> \E q \in f[k - 1], p \in PartOrders(g, o[k]) : z = q \o p
          BY <1>6, <3>1 DEF JoinTable
        <5> QED  BY ONLY <3>3, <5>1
      <4>2. Ordered(q, Prefix(o, k - 1), E)  BY <3>2
      <4>3. Ordered(p, o[(k - 1) + 1], E)  BY <1>1, <1>4, <3>1
      <4>4. Ordered(q \o p, Prefix(o, (k - 1) + 1), E)
        BY <1>1, <1>3, <3>1, <4>2, <4>3, JoinStep
      <4> QED  BY <3>1, <4>1, <4>4
    <3> QED  BY <2>2, <3>3
  <2> QED  BY <2>3, <2>4
<1>8. Holds(n)  BY <1>1, <1>7
<1>9. Prefix(o, n) = S  BY <1>1, PrefixAll
<1>10. f[n] = Joined(g, o)  BY <1>6 DEF JoinTable
<1> QED  BY <1>8, <1>9, <1>10

(* topological_order() joins the orders of preprocessed components. *)
LEMMA SatisfyingOrdersAre ==
  ASSUME NEW graph
  PROVE  LET g == Preprocess(graph)
             parts == Components(g)
         IN SatisfyingOrders(graph)
              = UNION {Joined(g, o) : o \in TopologicalOrders(parts, EdgesBetween(parts, g.edges))}
BY DEF SatisfyingOrders, Joined, PartOrders, FoldLeft, MapThenFoldSet

(* topological_order(): an order of the nodes. *)
LEMMA SatisfyingOrdersOrdered ==
  ASSUME NEW graph, Graph(graph), NEW x \in SatisfyingOrders(graph)
  PROVE  Ordered(x, graph.nodes, graph.edges)
<1> DEFINE g == Preprocess(graph)  parts == Components(g)
           orders == TopologicalOrders(parts, EdgesBetween(parts, g.edges))
<1>1. /\ Graph(g) /\ g.nodes = graph.nodes
      /\ \A o : Ordered(o, graph.nodes, g.edges) => Ordered(o, graph.nodes, graph.edges)
  BY PreprocessGraph
<1>2. SatisfyingOrders(graph) = UNION {Joined(g, o) : o \in orders}
  BY SatisfyingOrdersAre
<1> HIDE DEF g
<1>3. /\ IsFiniteSet(g.nodes) /\ g.edges \in SUBSET (g.nodes \X g.nodes)
      /\ g.red \in SUBSET g.edges
  BY <1>1 DEF Graph
<1>4. Partition(parts, g.nodes)
  <2>1. g.red \in SUBSET (g.nodes \X g.nodes)  BY <1>3
  <2> QED  BY <1>3, <2>1, ComponentsPartition
<1>5. IsFiniteSet(parts)  BY <1>3, <1>4, PartitionFinite
<1> HIDE DEF parts
<1>6. \A o \in orders : Ordered(o, parts, EdgesBetween(parts, g.edges))
  BY <1>5, TopologicalOrdersAre
<1> HIDE DEF orders
<1>7. PICK o \in orders : x \in Joined(g, o)  BY <1>2
<1>8. Ordered(x, g.nodes, g.edges)  BY <1>1, <1>4, <1>6, <1>7, JoinedOrders
<1> QED  BY <1>1, <1>8

-----------------------------------------------------------------------------
(* The orders that get_phases() may choose. *)

AllWithin(rels, S) == \A r \in rels : r.from \in S /\ r.to \in S

Depending(rels) == {r \in rels : r.kind \in Dependencies}

(* An edge between phases is a relation, turned around. *)
LEMMA PhaseEdgesAre ==
  ASSUME NEW S, NEW C, Partition(C, S), NEW rels, AllWithin(rels, S)
  PROVE  /\ PhaseEdges(C, rels) \in SUBSET (C \X C)
         /\ \A r \in rels : Between(C, r) =>
              <<ClassOf(C, r.to), ClassOf(C, r.from)>> \in PhaseEdges(C, rels)
         /\ \A e \in PhaseEdges(C, rels) : \E r \in rels :
              e = <<ClassOf(C, r.to), ClassOf(C, r.from)>> /\ Between(C, r)
<1> DEFINE E == {<<r.to, r.from>> : r \in rels}
<1>1. \A r \in rels : r.from \in S /\ r.to \in S  BY DEF AllWithin
<1>2. E \in SUBSET (S \X S)  BY <1>1
<1>3. \A r \in rels : <<r.to, r.from>> \in E  OBVIOUS
<1>4. \A u, v : <<u, v>> \in E => \E r \in rels : r.to = u /\ r.from = v  OBVIOUS
<1>5. PhaseEdges(C, rels) = EdgesBetween(C, E)  BY DEF PhaseEdges
<1> HIDE DEF E
<1>6. EdgesBetween(C, E) \in SUBSET (C \X C)  BY <1>2, EdgesBetweenAre
<1>7. ASSUME NEW r \in rels, Between(C, r)
      PROVE  <<ClassOf(C, r.to), ClassOf(C, r.from)>> \in EdgesBetween(C, E)
  <2>1. ClassOf(C, r.to) # ClassOf(C, r.from)  BY <1>7 DEF Between
  <2> QED  BY <1>1, <1>2, <1>3, <2>1, EdgesBetweenAre
<1>8. ASSUME NEW e \in EdgesBetween(C, E)
      PROVE  \E r \in rels : e = <<ClassOf(C, r.to), ClassOf(C, r.from)>> /\ Between(C, r)
  <2>1. PICK u \in S, v \in S : /\ <<u, v>> \in E /\ e = <<ClassOf(C, u), ClassOf(C, v)>>
                                /\ ClassOf(C, u) # ClassOf(C, v)
    BY <1>2, EdgesBetweenAre
  <2>2. PICK r \in rels : r.to = u /\ r.from = v  BY <1>4, <2>1
  <2>3. Between(C, r)  BY <2>1, <2>2 DEF Between
  <2> QED  BY <2>1, <2>2, <2>3
<1> QED  BY <1>5, <1>6, <1>7, <1>8

(* Phases are a partition of the nodes. *)
LEMMA PhaseSetsPartition ==
  ASSUME NEW nodes, IsFiniteSet(nodes), NEW rels, AllWithin(rels, nodes)
  PROVE  Partition(PhaseSets(nodes, rels), nodes) /\ IsFiniteSet(PhaseSets(nodes, rels))
<1> DEFINE E == {<<r.from, r.to>> : r \in {s \in rels : s.kind \notin Dependencies}}
<1>1. E \in SUBSET (nodes \X nodes)  BY DEF AllWithin
<1>2. PhaseSets(nodes, rels) = Classes(nodes, E)  BY DEF PhaseSets
<1> HIDE DEF E
<1> QED  BY <1>1, <1>2, ClassesPartition, PartitionFinite

(* The graph of classes that get_phases() has ordered. *)
ClassGraph(all, rels, evacuable) ==
  LET classes == Classes(all, PhaseEdges(all, GreenRelations(all, rels, evacuable)))
      red == EdgesBetween(classes, PhaseEdges(all, RedRelations(all, rels, evacuable)))
      black == EdgesBetween(classes, PhaseEdges(all, BlackRelations(all, rels)))
  IN [nodes |-> classes, edges |-> red \cup black, red |-> red]

(* Some of the relations are also between the nodes. *)
LEMMA RelationsWithin ==
  ASSUME NEW all, NEW rels, NEW S, AllWithin(rels, S), NEW evacuable
  PROVE  /\ AllWithin(GreenRelations(all, rels, evacuable), S)
         /\ AllWithin(RedRelations(all, rels, evacuable), S)
         /\ AllWithin(BlackRelations(all, rels), S)
         /\ AllWithin(Depending(rels), S)
BY DEF AllWithin, GreenRelations, RedRelations, BlackRelations, Depending

(* Without a conflict, green edges are paths. *)
LEMMA GreenSingle ==
  ASSUME NEW S, NEW C, Partition(C, S), NEW rels, AllWithin(rels, S), ~GreenConflict(C, rels)
  PROVE  Single(PhaseEdges(C, rels))
<1> SUFFICES ASSUME NEW e \in PhaseEdges(C, rels), NEW f \in PhaseEdges(C, rels), e # f
             PROVE  e[1] # f[1] /\ e[2] # f[2]
  BY DEF Single
<1>1. PICK r \in rels : e = <<ClassOf(C, r.to), ClassOf(C, r.from)>>  BY PhaseEdgesAre
<1>2. PICK s \in rels : f = <<ClassOf(C, s.to), ClassOf(C, s.from)>>  BY PhaseEdgesAre
<1>3. r # s  BY <1>1, <1>2
<1>4. ClassOf(C, r.to) # ClassOf(C, s.to) /\ ClassOf(C, r.from) # ClassOf(C, s.from)
  BY <1>3 DEF GreenConflict
<1> QED  BY <1>1, <1>2, <1>4

(* Edges between classes of phases are red or black. *)
LEMMA ClassGraphEdges ==
  ASSUME NEW nodes, NEW all, IsFiniteSet(all), Partition(all, nodes),
         NEW rels, AllWithin(rels, nodes), NEW evacuable
  PROVE  /\ ClassGraph(all, rels, evacuable).edges \in
              SUBSET (ClassGraph(all, rels, evacuable).nodes
                        \X ClassGraph(all, rels, evacuable).nodes)
         /\ EdgesBetween(ClassGraph(all, rels, evacuable).nodes,
                         PhaseEdges(all, Depending(rels)))
              \subseteq ClassGraph(all, rels, evacuable).edges
<1> DEFINE G == GreenRelations(all, rels, evacuable)
           R == RedRelations(all, rels, evacuable)
           B == BlackRelations(all, rels)
           green == PhaseEdges(all, G)
           classes == Classes(all, green)
           red == EdgesBetween(classes, PhaseEdges(all, R))
           black == EdgesBetween(classes, PhaseEdges(all, B))
           F == PhaseEdges(all, Depending(rels))
<1>1. /\ AllWithin(G, nodes) /\ AllWithin(R, nodes) /\ AllWithin(B, nodes)
      /\ AllWithin(Depending(rels), nodes)
  BY RelationsWithin
<1>2. \A r : r \in Depending(rels) /\ Between(all, r) => r \in G \/ r \in R \/ r \in B
  BY DEF Depending, GreenRelations, RedRelations, BlackRelations, Dependencies
<1>3. ClassGraph(all, rels, evacuable) =
        [nodes |-> classes, edges |-> red \cup black, red |-> red]
  BY DEF ClassGraph
<1> HIDE DEF G, R, B
<1>4. /\ green \in SUBSET (all \X all) /\ F \in SUBSET (all \X all)
      /\ PhaseEdges(all, R) \in SUBSET (all \X all)
      /\ PhaseEdges(all, B) \in SUBSET (all \X all)
  BY <1>1, PhaseEdgesAre
<1>5. Partition(classes, all)  BY <1>4, ClassesPartition
<1>6. \A e \in F : \E r \in Depending(rels) :
        e = <<ClassOf(all, r.to), ClassOf(all, r.from)>> /\ Between(all, r)
  BY <1>1, PhaseEdgesAre
<1>7. \A r \in G : Between(all, r) =>
        <<ClassOf(all, r.to), ClassOf(all, r.from)>> \in green
  BY <1>1, PhaseEdgesAre
<1>8. \A r \in R : Between(all, r) =>
        <<ClassOf(all, r.to), ClassOf(all, r.from)>> \in PhaseEdges(all, R)
  BY <1>1, PhaseEdgesAre
<1>9. \A r \in B : Between(all, r) =>
        <<ClassOf(all, r.to), ClassOf(all, r.from)>> \in PhaseEdges(all, B)
  BY <1>1, PhaseEdgesAre
<1>10. \A u, v \in all : <<u, v>> \in green => ClassOf(classes, u) = ClassOf(classes, v)
  BY <1>4, ClassesJoin
<1> HIDE DEF green, F, classes
<1>11. red \in SUBSET (classes \X classes) /\ black \in SUBSET (classes \X classes)
  BY <1>4, <1>5, EdgesBetweenAre
<1>12. ASSUME NEW p \in EdgesBetween(classes, F) PROVE p \in red \cup black
  <2>0. \A q \in EdgesBetween(classes, F) : \E u, v \in all :
          /\ <<u, v>> \in F /\ q = <<ClassOf(classes, u), ClassOf(classes, v)>>
          /\ ClassOf(classes, u) # ClassOf(classes, v)
    <3> HIDE DEF red, black
    <3>1. F \in SUBSET (all \X all)  BY <1>4
    <3> QED  BY <1>5, <3>1, EdgesBetweenAre
  <2>1. PICK u \in all, v \in all :
          /\ <<u, v>> \in F /\ p = <<ClassOf(classes, u), ClassOf(classes, v)>>
          /\ ClassOf(classes, u) # ClassOf(classes, v)
    BY <2>0
  <2>2. PICK r \in Depending(rels) :
          <<u, v>> = <<ClassOf(all, r.to), ClassOf(all, r.from)>> /\ Between(all, r)
    BY <1>6, <2>1
  <2>3. CASE r \in G  BY <1>7, <1>10, <2>1, <2>2, <2>3
  <2>4. CASE r \in R
    <3>1. <<u, v>> \in PhaseEdges(all, R)  BY <1>8, <2>2, <2>4
    <3>2. p \in red  BY <1>4, <1>5, <2>1, <3>1, EdgesBetweenAre
    <3> QED  BY <3>2
  <2>5. CASE r \in B
    <3>1. <<u, v>> \in PhaseEdges(all, B)  BY <1>9, <2>2, <2>5
    <3>2. p \in black  BY <1>4, <1>5, <2>1, <3>1, EdgesBetweenAre
    <3> QED  BY <3>2
  <2> QED  BY <1>2, <2>2, <2>3, <2>4, <2>5
<1> HIDE DEF red, black
<1>13. red \cup black \in SUBSET (classes \X classes)  BY <1>11
<1>14. EdgesBetween(classes, F) \subseteq red \cup black  BY <1>12
<1>15. /\ ClassGraph(all, rels, evacuable).nodes = classes
       /\ ClassGraph(all, rels, evacuable).edges = red \cup black
  BY <1>3
<1> QED  BY <1>13, <1>14, <1>15 DEF F

(* What get_phases() has checked when it chooses an order. *)
LEMMA PlannedOrdersExpand ==
  ASSUME NEW nodes, NEW rels, NEW evacuable, NEW order \in PlannedOrders(nodes, rels, evacuable)
  PROVE  LET all == PhaseSets(nodes, rels)
             greenRelations == GreenRelations(all, rels, evacuable)
             green == PhaseEdges(all, greenRelations)
             graph == ClassGraph(all, rels, evacuable)
         IN /\ ~GreenConflict(all, greenRelations)
            /\ Acyclic(graph.nodes, graph.edges)
            /\ graph.nodes = Classes(all, green)
            /\ graph = [nodes |-> graph.nodes, edges |-> graph.edges, red |-> graph.red]
            /\ graph.red \subseteq graph.edges
            /\ \E o \in SatisfyingOrders(graph) : order = Expand(o, green)
<1> DEFINE all == PhaseSets(nodes, rels)
           greenRelations == GreenRelations(all, rels, evacuable)
           green == PhaseEdges(all, greenRelations)
           classes == Classes(all, green)
           red == EdgesBetween(classes, PhaseEdges(all, RedRelations(all, rels, evacuable)))
           black == EdgesBetween(classes, PhaseEdges(all, BlackRelations(all, rels)))
           graph == [nodes |-> classes, edges |-> red \cup black, red |-> red]
           refuses == GreenConflict(all, greenRelations) \/ ~Acyclic(all, green)
                        \/ ~Acyclic(classes, red \cup black)
           found == {Expand(o, green) : o \in SatisfyingOrders(graph)}
<1>1. PlannedOrders(nodes, rels, evacuable) = IF refuses THEN {} ELSE found
  BY DEF PlannedOrders
<1>2. ClassGraph(all, rels, evacuable) = graph  BY DEF ClassGraph
<1>3. graph.nodes = classes /\ graph.edges = red \cup black /\ graph.red = red  OBVIOUS
<1>4. \A y \in found : \E o \in SatisfyingOrders(graph) : y = Expand(o, green)  OBVIOUS
<1>5. graph = [nodes |-> graph.nodes, edges |-> graph.edges, red |-> graph.red]  OBVIOUS
<1>6. refuses <=> GreenConflict(all, greenRelations) \/ ~Acyclic(all, green)
                    \/ ~Acyclic(classes, red \cup black)
  OBVIOUS
<1> HIDE DEF found, refuses, graph, classes, green, greenRelations, red, black, all
<1>7. ~refuses /\ order \in found  BY <1>1
<1>8. \E o \in SatisfyingOrders(graph) : order = Expand(o, green)  BY <1>4, <1>7
<1>9. ~GreenConflict(all, greenRelations) /\ Acyclic(graph.nodes, graph.edges)
  BY <1>3, <1>6, <1>7
<1> QED
  BY <1>2, <1>3, <1>5, <1>8, <1>9 DEF classes, green, greenRelations, all

(* get_phases(): whichever order of the phases it chooses, a phase comes    *)
(* after all those that it depends on, for every node map in which phases   *)
(* do not depend on each other in a circle.                                 *)
THEOREM PlannedOrdersRespectDependencies ==
  ASSUME NEW nodes, IsFiniteSet(nodes), NEW rels, AllWithin(rels, nodes), NEW evacuable,
         Acyclic(PhaseSets(nodes, rels), PhaseEdges(PhaseSets(nodes, rels), Depending(rels)))
  PROVE  \A order \in PlannedOrders(nodes, rels, evacuable) :
           Ordered(order, PhaseSets(nodes, rels),
                   PhaseEdges(PhaseSets(nodes, rels), Depending(rels)))
<1> SUFFICES ASSUME NEW order \in PlannedOrders(nodes, rels, evacuable)
             PROVE  Ordered(order, PhaseSets(nodes, rels),
                            PhaseEdges(PhaseSets(nodes, rels), Depending(rels)))
  OBVIOUS
<1> DEFINE all == PhaseSets(nodes, rels)
           F == PhaseEdges(all, Depending(rels))
           greenRelations == GreenRelations(all, rels, evacuable)
           green == PhaseEdges(all, greenRelations)
           graph == ClassGraph(all, rels, evacuable)
<1>1. Partition(all, nodes) /\ IsFiniteSet(all)  BY PhaseSetsPartition
<1>2. /\ ~GreenConflict(all, greenRelations) /\ Acyclic(graph.nodes, graph.edges)
      /\ graph.nodes = Classes(all, green)
      /\ graph = [nodes |-> graph.nodes, edges |-> graph.edges, red |-> graph.red]
      /\ graph.red \subseteq graph.edges
  BY PlannedOrdersExpand
<1>3. PICK o \in SatisfyingOrders(graph) : order = Expand(o, green)  BY PlannedOrdersExpand
<1>4. AllWithin(greenRelations, nodes) /\ AllWithin(Depending(rels), nodes)
  BY RelationsWithin
<1>5. F \in SUBSET (all \X all)  BY <1>1, <1>4, PhaseEdgesAre
<1>6. green \in SUBSET F
  <2>1. greenRelations \subseteq Depending(rels)
    BY DEF GreenRelations, Depending, Dependencies
  <2>2. \A e \in green : \E r \in greenRelations :
          e = <<ClassOf(all, r.to), ClassOf(all, r.from)>> /\ Between(all, r)
    BY <1>1, <1>4, PhaseEdgesAre
  <2>3. \A r \in Depending(rels) :
          Between(all, r) => <<ClassOf(all, r.to), ClassOf(all, r.from)>> \in F
    BY <1>1, <1>4, PhaseEdgesAre
  <2> HIDE DEF green, F, all, greenRelations
  <2> QED  BY <2>1, <2>2, <2>3
<1>7. Single(green)  BY <1>1, <1>2, <1>4, GreenSingle
<1>8. /\ graph.edges \in SUBSET (graph.nodes \X graph.nodes)
      /\ EdgesBetween(graph.nodes, F) \subseteq graph.edges
  BY <1>1, ClassGraphEdges
<1>9. Acyclic(all, F)  OBVIOUS
<1> HIDE DEF all, F, greenRelations, green, graph
<1>10. Partition(graph.nodes, all) /\ IsFiniteSet(graph.nodes)
  <2>1. green \in SUBSET (all \X all)  BY <1>5, <1>6
  <2> QED  BY <1>1, <1>2, <2>1, ClassesPartition, PartitionFinite
<1>11. Graph(graph)  BY <1>2, <1>8, <1>10 DEF Graph
<1>12. Ordered(o, graph.nodes, graph.edges)  BY <1>3, <1>11, SatisfyingOrdersOrdered
<1>13. Ordered(o, Classes(all, green), EdgesBetween(Classes(all, green), F))
  BY <1>2, <1>8, <1>12 DEF Ordered
<1>14. Ordered(Expand(o, green), all, F)
  BY <1>1, <1>5, <1>6, <1>7, <1>9, <1>13, ExpandOrder
<1> QED  BY <1>3, <1>14 DEF all, F

-----------------------------------------------------------------------------
(* What follows what in an order. *)

(* What comes before has the lower position. *)
LEMMA BeforeAt ==
  ASSUME NEW o, NEW S, Enumerates(o, S), NEW j \in 1 .. Len(o), NEW k \in 1 .. Len(o)
  PROVE  Before(o, o[j], o[k]) <=> j < k
<1>1. \A a, b \in 1 .. Len(o) : o[a] = o[b] => a = b  BY DEF Enumerates
<1>2. ASSUME Before(o, o[j], o[k]) PROVE j < k
  <2>1. PICK a \in 1 .. Len(o), b \in 1 .. Len(o) : a < b /\ o[a] = o[j] /\ o[b] = o[k]
    BY <1>2 DEF Before
  <2>2. a = j /\ b = k  BY <1>1, <2>1
  <2> QED  BY <2>1, <2>2
<1> QED  BY <1>2 DEF Before

(* Of two nodes one comes before the other. *)
LEMMA BeforeTotal ==
  ASSUME NEW o, NEW S, Enumerates(o, S), NEW u \in S, NEW v \in S, u # v
  PROVE  Before(o, u, v) \/ Before(o, v, u)
<1>1. PICK j \in 1 .. Len(o) : o[j] = u  BY DEF Enumerates
<1>2. PICK k \in 1 .. Len(o) : o[k] = v  BY DEF Enumerates
<1>3. Len(o) \in Nat  BY DEF Enumerates
<1>4. j < k \/ k < j  BY <1>1, <1>2, <1>3
<1> QED  BY <1>1, <1>2, <1>4 DEF Before

(* What follows comes after, with nothing in between. *)
LEMMA FollowsBefore ==
  ASSUME NEW o, NEW S, Enumerates(o, S), NEW e, Follows(o, e)
  PROVE  /\ e[1] \in S /\ e[2] \in S /\ Before(o, e[1], e[2])
         /\ \A w : ~(Before(o, e[1], w) /\ Before(o, w, e[2]))
<1>1. PICK k \in 1 .. (Len(o) - 1) : o[k] = e[1] /\ o[k + 1] = e[2]  BY DEF Follows
<1>2. Len(o) \in Nat /\ k \in 1 .. Len(o) /\ k + 1 \in 1 .. Len(o) /\ k < k + 1
  <2>1. Len(o) \in Nat  BY DEF Enumerates
  <2> QED  BY <1>1, <2>1
<1>3. Before(o, e[1], e[2])  BY <1>1, <1>2, BeforeAt
<1>4. ASSUME NEW w, Before(o, e[1], w), Before(o, w, e[2]) PROVE FALSE
  <2>1. w \in S  BY <1>4, BeforeStrict
  <2>2. PICK m \in 1 .. Len(o) : o[m] = w  BY <2>1 DEF Enumerates
  <2>3. k < m /\ m < k + 1  BY <1>1, <1>2, <1>4, <2>2, BeforeAt
  <2> QED  BY <1>2, <2>2, <2>3
<1>5. e[1] \in S /\ e[2] \in S  BY <1>3, BeforeStrict
<1> QED  BY <1>3, <1>4, <1>5

(* What follows what in two orders joined. *)
LEMMA ConcatFollows ==
  ASSUME NEW X, NEW p \in Seq(X), NEW q \in Seq(X)
  PROVE  /\ \A e : Follows(p, e) => Follows(p \o q, e)
         /\ \A e : Follows(q, e) => Follows(p \o q, e)
         /\ p # <<>> /\ q # <<>> => Follows(p \o q, <<p[Len(p)], q[1]>>)
<1> DEFINE o == p \o q  n == Len(p)  m == Len(q)
<1>1. /\ n \in Nat /\ m \in Nat /\ Len(o) = n + m
      /\ \A k \in 1 .. n : o[k] = p[k]
      /\ \A k \in 1 .. m : o[n + k] = q[k]
  OBVIOUS
<1>2. (p # <<>> => n > 0) /\ (q # <<>> => m > 0)  OBVIOUS
<1>3. \A e : Follows(p, e) <=> \E k \in 1 .. (n - 1) : p[k] = e[1] /\ p[k + 1] = e[2]
  BY DEF Follows
<1>4. \A e : Follows(q, e) <=> \E k \in 1 .. (m - 1) : q[k] = e[1] /\ q[k + 1] = e[2]
  BY DEF Follows
<1>5. \A e : Follows(o, e) <=> \E k \in 1 .. (n + m - 1) : o[k] = e[1] /\ o[k + 1] = e[2]
  BY <1>1 DEF Follows
<1> HIDE DEF o, n, m
<1>6. ASSUME NEW e, Follows(p, e) PROVE Follows(o, e)
  <2>1. PICK k \in 1 .. (n - 1) : p[k] = e[1] /\ p[k + 1] = e[2]  BY <1>3, <1>6
  <2>2. k \in 1 .. n /\ k + 1 \in 1 .. n /\ k \in 1 .. (n + m - 1)  BY <1>1, <2>1
  <2>3. o[k] = e[1] /\ o[k + 1] = e[2]  BY <1>1, <2>1, <2>2
  <2> QED  BY <1>5, <2>2, <2>3
<1>7. ASSUME NEW e, Follows(q, e) PROVE Follows(o, e)
  <2>1. PICK k \in 1 .. (m - 1) : q[k] = e[1] /\ q[k + 1] = e[2]  BY <1>4, <1>7
  <2>2. k \in 1 .. m /\ k + 1 \in 1 .. m /\ n + k \in 1 .. (n + m - 1) /\ n + (k + 1) = (n + k) + 1
    BY <1>1, <2>1
  <2>3. o[n + k] = e[1] /\ o[(n + k) + 1] = e[2]
    <3>1. o[n + k] = q[k] /\ o[n + (k + 1)] = q[k + 1]  BY <1>1, <2>2
    <3> QED  BY <2>1, <2>2, <3>1
  <2> QED  BY <1>5, <2>2, <2>3
<1>8. ASSUME p # <<>>, q # <<>> PROVE Follows(o, <<p[n], q[1]>>)
  <2>1. n \in 1 .. n /\ 1 \in 1 .. m /\ n \in 1 .. (n + m - 1)  BY <1>1, <1>2, <1>8
  <2>2. o[n] = p[n] /\ o[n + 1] = q[1]  BY <1>1, <2>1
  <2> QED  BY <1>5, <2>1, <2>2
<1> QED  BY <1>6, <1>7, <1>8 DEF o, n

(* What follows what in orders joined. *)
LEMMA FlattenFollows ==
  ASSUME NEW X, NEW seqs \in Seq(Seq(X)), \A k \in 1 .. Len(seqs) : seqs[k] # <<>>
  PROVE  /\ \A k \in 1 .. Len(seqs) : \A e : Follows(seqs[k], e) => Follows(FlattenSeq(seqs), e)
         /\ \A k \in 1 .. (Len(seqs) - 1) :
              Follows(FlattenSeq(seqs), <<seqs[k][Len(seqs[k])], seqs[k + 1][1]>>)
<1> DEFINE n == Len(seqs)
<1>0. n \in Nat /\ \A k \in 1 .. n : seqs[k] \in Seq(X) /\ seqs[k] # <<>>  OBVIOUS
<1>1. CASE n = 0
  <2>1. 1 .. n = {} /\ 1 .. (n - 1) = {}  BY <1>1
  <2> QED  BY <2>1
<1>2. CASE n # 0
  <2> DEFINE f == CHOOSE h : Flat(seqs, n, h)
             last(q) == q[Len(q)]
  <2>1. Flat(seqs, n, f)  BY <1>0, FlatExists
  <2>2. FlattenSeq(seqs) = f[n]  BY <1>0, <1>2 DEF FlattenSeq, Flat
  <2> HIDE DEF f
  <2>3. f = [k \in 1 .. n |-> IF k = 1 THEN seqs[k] ELSE f[k - 1] \o seqs[k]]  BY <2>1 DEF Flat
  <2>4. \A k \in 1 .. n : f[k] = IF k = 1 THEN seqs[k] ELSE f[k - 1] \o seqs[k]  BY <2>3
  <2> DEFINE has(k) == /\ f[k] \in Seq(X) /\ f[k] # <<>> /\ last(f[k]) = last(seqs[k])
                       /\ \A j \in 1 .. k : \A e : Follows(seqs[j], e) => Follows(f[k], e)
                       /\ \A j \in 1 .. (k - 1) : Follows(f[k], <<last(seqs[j]), seqs[j + 1][1]>>)
             Bad == {k \in Nat : k \in 1 .. n /\ ~has(k)}
  <2> HIDE DEF n
  <2>5. ASSUME Bad # {} PROVE FALSE
    <3>1. PICK k \in Bad : \A j \in Bad : k <= j
      <4>1. Bad \in SUBSET Nat  OBVIOUS
      <4> HIDE DEF Bad
      <4> QED  BY <2>5, <4>1, LeastOf
    <3>2. k \in 1 .. n /\ ~has(k)  BY <3>1
    <3>3. \A j \in 1 .. n : j < k => has(j)
      <4> HIDE DEF has
      <4>1. \A j \in 1 .. n : j < k => j \in Nat /\ ~(k <= j)  BY <1>0, <3>2
      <4> QED  BY <3>1, <4>1
    <3> HIDE DEF Bad
    <3>4. CASE k = 1
      <4>1. f[1] = seqs[1] /\ seqs[1] \in Seq(X) /\ seqs[1] # <<>>  BY <1>0, <2>4, <3>2, <3>4
      <4>2. \A j : j \in 1 .. 1 <=> j = 1  OBVIOUS
      <4>3. 1 .. (1 - 1) = {}  OBVIOUS
      <4>4. has(1)  BY <4>1, <4>2, <4>3
      <4> QED  BY <3>2, <3>4, <4>4
    <3>5. CASE k # 1
      <4> DEFINE p == f[k - 1]  q == seqs[k]
      <4>1. k - 1 \in 1 .. n /\ k - 1 < k  BY <1>0, <3>2, <3>5
      <4>2. has(k - 1)  BY <3>3, <4>1
      <4>3. /\ p \in Seq(X) /\ p # <<>> /\ last(p) = last(seqs[k - 1])
            /\ q \in Seq(X) /\ q # <<>> /\ f[k] = p \o q
        BY <1>0, <2>4, <3>2, <3>5, <4>2
      <4>4. /\ \A j \in 1 .. (k - 1) : \A e : Follows(seqs[j], e) => Follows(p, e)
            /\ \A j \in 1 .. (k - 1 - 1) : Follows(p, <<last(seqs[j]), seqs[j + 1][1]>>)
        BY <4>2
      <4> HIDE DEF has, p, q
      <4>5. /\ \A e : Follows(p, e) => Follows(p \o q, e)
            /\ \A e : Follows(q, e) => Follows(p \o q, e)
            /\ Follows(p \o q, <<last(p), q[1]>>)
        BY <4>3, ConcatFollows
      <4>6. f[k] \in Seq(X) /\ f[k] # <<>> /\ last(f[k]) = last(q)  BY <4>3
      <4>7. ASSUME NEW j \in 1 .. k, NEW e, Follows(seqs[j], e) PROVE Follows(f[k], e)
        <5>1. CASE j = k  BY <4>3, <4>5, <4>7, <5>1 DEF q
        <5>2. CASE j # k
          <6>1. j \in 1 .. (k - 1)  BY <3>2, <5>2
          <6> QED  BY <4>3, <4>4, <4>5, <4>7, <6>1
        <5> QED  BY <5>1, <5>2
      <4>8. ASSUME NEW j \in 1 .. (k - 1) PROVE Follows(f[k], <<last(seqs[j]), seqs[j + 1][1]>>)
        <5> HIDE DEF last
        <5>1. CASE j = k - 1
          <6>1. j + 1 = k /\ q = seqs[k]  BY <3>2, <5>1 DEF q
          <6> QED  BY <4>3, <4>5, <5>1, <6>1
        <5>2. CASE j # k - 1
          <6>1. j \in 1 .. (k - 1 - 1)  BY <3>2, <5>2
          <6> QED  BY <4>3, <4>4, <4>5, <6>1
        <5> QED  BY <5>1, <5>2
      <4>9. has(k)  BY <4>6, <4>7, <4>8 DEF has, q
      <4> QED  BY <3>2, <4>9
    <3> QED  BY <3>4, <3>5
  <2>6. has(n)
    <3>1. n \in 1 .. n  BY <1>0, <1>2
    <3> HIDE DEF has
    <3> QED  BY <1>0, <2>5, <3>1
  <2> QED  BY <2>2, <2>6 DEF n
<1> QED  BY <1>1, <1>2

(* In the order of a class, what the pairs join follows one another, and    *)
(* the path's ends are the order's.                                         *)
LEMMA ClassFollows ==
  ASSUME NEW S, IsFiniteSet(S), NEW E \in SUBSET (S \X S), Single(E),
         NEW c \in Classes(S, E), NEW o, Ordered(o, c, E)
  PROVE  /\ \A u \in c, v \in S : <<u, v>> \in E => Follows(o, <<u, v>>)
         /\ \A u \in c : (\A w \in S : <<u, w>> \notin E) => o[Len(o)] = u
         /\ \A v \in c : (\A w \in S : <<w, v>> \notin E) => o[1] = v
         /\ o # <<>>
<1> DEFINE P == Paths(S, E)  C == Classes(S, E)  n == Len(o)
<1>1. Closure(P, S, E)  BY PathsAreClosure
<1>2. Partition(C, S)  BY ClassesPartition
<1>3. c \in SUBSET S /\ c # {}
  <2>1. c \in C  OBVIOUS
  <2> HIDE DEF C
  <2> QED  BY <1>2, <2>1 DEF Partition
<1>4. Enumerates(o, c)  BY DEF Ordered
<1>5. /\ n \in Nat /\ \A k \in 1 .. n : o[k] \in c
      /\ \A x \in c : \E k \in 1 .. n : o[k] = x
  BY <1>4 DEF Enumerates
<1>6. \A j, k \in 1 .. n : Before(o, o[j], o[k]) <=> j < k  BY <1>4, BeforeAt
<1>7. \A u, v \in S : <<u, v>> \in E /\ u \in c => v \in c
  <2> SUFFICES ASSUME NEW u \in S, NEW v \in S, <<u, v>> \in E, u \in c PROVE v \in c
    OBVIOUS
  <2>1. ClassOf(C, u) = ClassOf(C, v)  BY ClassesJoin
  <2>2. c = ClassOf(C, u) /\ v \in ClassOf(C, v)  BY <1>2, PartitionClass
  <2> QED  BY <2>1, <2>2
<1>8. \A u, v \in c : Comparable(P, u, v)  BY ClassIsPath
<1>9. \A u \in c, v \in S : <<u, v>> \in P => Before(o, u, v)
  BY <1>1, <1>3, <1>7, OrderRespectsPaths
<1> HIDE DEF P, C, n
(* From one node to the next in the order there is a path. *)
<1>10. ASSUME NEW j \in 1 .. n, NEW k \in 1 .. n, j < k PROVE <<o[j], o[k]>> \in P
  <2>1. o[j] \in c /\ o[k] \in c /\ o[j] \in S /\ o[k] \in S  BY <1>3, <1>5
  <2>2. Comparable(P, o[j], o[k])  BY <1>8, <2>1
  <2>3. Before(o, o[j], o[k]) /\ ~Before(o, o[k], o[j])
    <3>1. ~(k < j)  BY <1>5, <1>10
    <3> QED  BY <1>6, <1>10, <3>1
  <2>4. o[j] # o[k]  BY <2>3
  <2>5. <<o[k], o[j]>> \notin P  BY <1>9, <2>1, <2>3
  <2> QED  BY <2>2, <2>4, <2>5 DEF Comparable
<1>11. ASSUME NEW u \in c, NEW v \in S, <<u, v>> \in E PROVE Follows(o, <<u, v>>)
  <2>1. v \in c /\ u \in S /\ <<u, v>> \in P  BY <1>1, <1>3, <1>7, <1>11 DEF Closure
  <2>2. PICK j \in 1 .. n : o[j] = u  BY <1>5
  <2>3. PICK k \in 1 .. n : o[k] = v  BY <1>5, <2>1
  <2>4. j < k  BY <1>6, <1>9, <2>1, <2>2, <2>3
  <2>5. j + 1 \in 1 .. n /\ j < j + 1 /\ j \in 1 .. (n - 1)  BY <1>5, <2>2, <2>3, <2>4
  <2> DEFINE x == o[j + 1]
  <2>6. x \in c /\ x \in S /\ <<u, x>> \in P  BY <1>3, <1>5, <1>10, <2>2, <2>5
  <2>7. CASE <<u, x>> \in E
    <3>1. x = v  BY <1>11, <2>7, SingleEnds
    <3> QED  BY <2>2, <2>5, <3>1 DEF Follows, n
  <2>8. ASSUME NEW w \in S, <<u, w>> \in E, <<w, x>> \in P PROVE FALSE
    <3>1. w = v  BY <1>11, <2>8, SingleEnds
    <3>2. Before(o, o[k], o[j + 1])
      <4> HIDE DEF x
      <4>1. Before(o, v, x)  BY <1>9, <2>1, <2>6, <2>8, <3>1
      <4> QED  BY <2>3, <4>1 DEF x
    <3>3. k < j + 1  BY <1>6, <2>5, <3>2
    <3> QED  BY <1>5, <2>2, <2>3, <2>4, <3>3
  <2> HIDE DEF x
  <2>9. <<u, x>> \in E \/ \E w \in S : <<u, w>> \in E /\ <<w, x>> \in P
    BY <1>1, <2>1, <2>6, FirstEdge
  <2> QED  BY <2>7, <2>8, <2>9
<1>12. n # 0  BY <1>3, <1>5
<1>13. ASSUME NEW u \in c, \A w \in S : <<u, w>> \notin E PROVE o[n] = u
  <2>1. PICK j \in 1 .. n : o[j] = u  BY <1>5
  <2>2. SUFFICES ASSUME j # n PROVE FALSE  BY <2>1
  <2>3. j < n /\ n \in 1 .. n  BY <1>5, <2>1, <2>2
  <2>4. <<u, o[n]>> \in P /\ o[n] \in S /\ u \in S  BY <1>3, <1>5, <1>10, <2>1, <2>3
  <2>5. <<u, o[n]>> \in E \/ \E w \in S : <<u, w>> \in E /\ <<w, o[n]>> \in P
    BY <1>1, <2>4, FirstEdge
  <2> QED  BY <1>13, <2>4, <2>5
<1>14. ASSUME NEW v \in c, \A w \in S : <<w, v>> \notin E PROVE o[1] = v
  <2>1. PICK j \in 1 .. n : o[j] = v  BY <1>5
  <2>2. SUFFICES ASSUME j # 1 PROVE FALSE  BY <2>1
  <2>3. 1 < j /\ 1 \in 1 .. n  BY <1>5, <2>1, <2>2
  <2>4. <<o[1], v>> \in P /\ o[1] \in S /\ v \in S  BY <1>3, <1>5, <1>10, <2>1, <2>3
  <2>5. <<o[1], v>> \in E \/ \E w \in S : <<o[1], w>> \in P /\ <<w, v>> \in E
    BY <1>1, <2>4, LastEdge
  <2> QED  BY <1>14, <2>4, <2>5
<1> QED  BY <1>11, <1>12, <1>13, <1>14 DEF n

(* What follows what in an order of classes, once expanded. *)
LEMMA ExpandFollows ==
  ASSUME NEW S, IsFiniteSet(S), NEW F \in SUBSET (S \X S), Acyclic(S, F),
         NEW E \in SUBSET F, Single(E),
         NEW order, Enumerates(order, Classes(S, E))
  PROVE  /\ \A e \in E : Follows(Expand(order, E), e)
         /\ \A c, d : Follows(order, <<c, d>>) =>
              \A u \in c, v \in d :
                (\A w \in S : <<u, w>> \notin E /\ <<w, v>> \notin E)
                  => Follows(Expand(order, E), <<u, v>>)
<1> DEFINE C == Classes(S, E)  n == Len(order)
           place(k) == CHOOSE o \in TopologicalOrders(order[k], E) : TRUE
           seqs == [k \in 1 .. n |-> place(k)]
<1>0. E \in SUBSET (S \X S)  OBVIOUS
<1>1. Partition(C, S)  BY <1>0, ClassesPartition
<1>2. /\ n \in Nat /\ \A k \in 1 .. n : order[k] \in C
      /\ \A c \in C : \E k \in 1 .. n : order[k] = c
  BY DEF Enumerates
<1>3. ASSUME NEW k \in 1 .. n PROVE Ordered(place(k), order[k], E)
  <2>1. order[k] \in C /\ IsFiniteSet(order[k])  BY <1>1, <1>2, PartitionFinite
  <2>2. \E o : Ordered(o, order[k], E)  BY <2>1, ClassOrder
  <2>3. \A o : o \in TopologicalOrders(order[k], E) <=> Ordered(o, order[k], E)
    BY <2>1, TopologicalOrdersAre
  <2>4. place(k) \in TopologicalOrders(order[k], E)
    <3>1. \E o : o \in TopologicalOrders(order[k], E)  BY <2>2, <2>3
    <3> QED  BY <3>1
  <2> HIDE DEF place
  <2> QED  BY <2>3, <2>4
<1>4. Expand(order, E) = FlattenSeq(seqs)  BY DEF Expand
<1> HIDE DEF place
<1>5. \A k \in 1 .. n : place(k) \in Seq(S)
  <2> TAKE k \in 1 .. n
  <2>1. place(k) \in Seq(order[k])  BY <1>3 DEF Ordered, Enumerates
  <2>2. order[k] \in SUBSET S  BY <1>1, <1>2 DEF Partition
  <2> QED  BY <2>1, <2>2
<1>6. seqs \in Seq(Seq(S)) /\ Len(seqs) = n /\ \A k \in 1 .. n : seqs[k] = place(k)
  BY <1>2, <1>5
<1> HIDE DEF seqs
<1>7. ASSUME NEW k \in 1 .. n
      PROVE  /\ \A u \in order[k], v \in S : <<u, v>> \in E => Follows(seqs[k], <<u, v>>)
             /\ \A u \in order[k] : (\A w \in S : <<u, w>> \notin E) => seqs[k][Len(seqs[k])] = u
             /\ \A v \in order[k] : (\A w \in S : <<w, v>> \notin E) => seqs[k][1] = v
             /\ seqs[k] # <<>>
  <2>1. Ordered(seqs[k], order[k], E) /\ order[k] \in C  BY <1>2, <1>3, <1>6
  <2> QED  BY <1>0, <2>1, ClassFollows
<1>8. /\ \A k \in 1 .. n : \A e : Follows(seqs[k], e) => Follows(FlattenSeq(seqs), e)
      /\ \A k \in 1 .. (n - 1) :
           Follows(FlattenSeq(seqs), <<seqs[k][Len(seqs[k])], seqs[k + 1][1]>>)
  <2>1. \A k \in 1 .. Len(seqs) : seqs[k] # <<>>  BY <1>6, <1>7
  <2> QED  BY <1>6, <2>1, FlattenFollows
<1> HIDE DEF n
<1>9. ASSUME NEW e \in E PROVE Follows(Expand(order, E), e)
  <2>1. PICK u \in S, v \in S : e = <<u, v>>  OBVIOUS
  <2>2. ClassOf(C, u) \in C /\ u \in ClassOf(C, u)  BY <1>1, PartitionClass
  <2>3. PICK k \in 1 .. n : order[k] = ClassOf(C, u)  BY <1>2, <2>2
  <2>4. Follows(seqs[k], e)  BY <1>7, <2>1, <2>2, <2>3
  <2> QED  BY <1>4, <1>8, <2>4
<1>10. ASSUME NEW c, NEW d, Follows(order, <<c, d>>), NEW u \in c, NEW v \in d,
              \A w \in S : <<u, w>> \notin E /\ <<w, v>> \notin E
       PROVE  Follows(Expand(order, E), <<u, v>>)
  <2>1. PICK k \in 1 .. (n - 1) : order[k] = c /\ order[k + 1] = d
    BY <1>10 DEF Follows, n
  <2>2. k \in 1 .. n /\ k + 1 \in 1 .. n  BY <1>2, <2>1
  <2>3. seqs[k][Len(seqs[k])] = u /\ seqs[k + 1][1] = v  BY <1>7, <1>10, <2>1, <2>2
  <2> QED  BY <1>4, <1>8, <2>1, <2>3
<1> QED  BY <1>9, <1>10

-----------------------------------------------------------------------------
(* Orders as relations, and classes of what is consecutive in one. *)

StrictOrder(L, S) ==
  /\ L \in SUBSET (S \X S) /\ Transitive(L, S)
  /\ \A u \in S : <<u, u>> \notin L
  /\ \A u, v \in S : u # v => <<u, v>> \in L \/ <<v, u>> \in L

Consecutive(L, S, u, v) ==
  <<u, v>> \in L /\ \A w \in S : ~(<<u, w>> \in L /\ <<w, v>> \in L)

AllConsecutive(L, S, W) == \A u, v \in S : <<u, v>> \in W => Consecutive(L, S, u, v)

OrderRelation(o, S) == {p \in S \X S : Before(o, p[1], p[2])}

(* An order as a relation. *)
LEMMA OrderStrict ==
  ASSUME NEW o, NEW S, Enumerates(o, S)
  PROVE  /\ StrictOrder(OrderRelation(o, S), S)
         /\ \A u, v \in S : <<u, v>> \in OrderRelation(o, S) <=> Before(o, u, v)
         /\ \A u, v : Follows(o, <<u, v>>) =>
              u \in S /\ v \in S /\ Consecutive(OrderRelation(o, S), S, u, v)
<1> DEFINE L == OrderRelation(o, S)
<1>1. \A u, v \in S : <<u, v>> \in L <=> Before(o, u, v)  BY DEF OrderRelation
<1>2. L \in SUBSET (S \X S)  BY DEF OrderRelation
<1> HIDE DEF L
<1>3. Transitive(L, S)  BY <1>1, BeforeTransitive DEF Transitive
<1>4. \A u \in S : <<u, u>> \notin L  BY <1>1, BeforeStrict
<1>5. \A u, v \in S : u # v => <<u, v>> \in L \/ <<v, u>> \in L  BY <1>1, BeforeTotal
<1>6. ASSUME NEW u, NEW v, Follows(o, <<u, v>>)
      PROVE  u \in S /\ v \in S /\ Consecutive(L, S, u, v)
  <2> DEFINE e == <<u, v>>
  <2>1. e[1] = u /\ e[2] = v  OBVIOUS
  <2> HIDE DEF e
  <2>2. Follows(o, e)  BY <1>6 DEF e
  <2>3. /\ e[1] \in S /\ e[2] \in S /\ Before(o, e[1], e[2])
        /\ \A w : ~(Before(o, e[1], w) /\ Before(o, w, e[2]))
    BY <2>2, FollowsBefore
  <2> QED  BY <1>1, <2>1, <2>3 DEF Consecutive
<1> QED  BY <1>1, <1>2, <1>3, <1>4, <1>5, <1>6 DEF StrictOrder, L

(* Consecutive pairs make paths. *)
LEMMA ConsecutiveSingle ==
  ASSUME NEW S, NEW L, StrictOrder(L, S), NEW W \in SUBSET (S \X S), AllConsecutive(L, S, W)
  PROVE  Single(W)
<1> SUFFICES ASSUME NEW e \in W, NEW f \in W, e # f PROVE e[1] # f[1] /\ e[2] # f[2]
  BY DEF Single
<1>1. PICK a \in S, b \in S : e = <<a, b>>  OBVIOUS
<1>2. PICK x \in S, y \in S : f = <<x, y>>  OBVIOUS
<1>3. Consecutive(L, S, a, b) /\ Consecutive(L, S, x, y)  BY <1>1, <1>2 DEF AllConsecutive
<1>4. \A u, v \in S : u # v => <<u, v>> \in L \/ <<v, u>> \in L  BY DEF StrictOrder
<1>5. a # x
  <2>1. SUFFICES ASSUME a = x PROVE FALSE  OBVIOUS
  <2>2. b # y  BY <1>1, <1>2, <2>1
  <2>3. <<b, y>> \in L \/ <<y, b>> \in L  BY <1>4, <2>2
  <2> QED  BY <1>3, <2>1, <2>3 DEF Consecutive
<1>6. b # y
  <2>1. SUFFICES ASSUME b = y PROVE FALSE  OBVIOUS
  <2>2. a # x  BY <1>1, <1>2, <2>1
  <2>3. <<a, x>> \in L \/ <<x, a>> \in L  BY <1>4, <2>2
  <2> QED  BY <1>3, <2>1, <2>3 DEF Consecutive
<1> QED  BY <1>1, <1>2, <1>5, <1>6

(* What is not in a class is on the same side of all its nodes. *)
LEMMA ClassOnOneSide ==
  ASSUME NEW S, NEW L, StrictOrder(L, S), NEW T \in SUBSET S, IsFiniteSet(T),
         NEW W \in SUBSET (T \X T), AllConsecutive(L, S, W),
         NEW c \in Classes(T, W), NEW a \in c, NEW b \in c, NEW x \in S, x \notin c
  PROVE  <<a, x>> \in L <=> <<b, x>> \in L
<1> DEFINE C == Classes(T, W)
           same(u, v) == /\ ClassOf(C, u) = ClassOf(C, v)
                         /\ \A y \in S : y \notin ClassOf(C, u) =>
                              (<<u, y>> \in L <=> <<v, y>> \in L)
           R == {p \in T \X T : same(p[1], p[2])}
<1>1. Partition(C, T)  BY ClassesPartition
<1>2. \A u \in T : u \in ClassOf(C, u)  BY <1>1, PartitionClass
<1>3. \A u, v \in T : <<u, v>> \in W => ClassOf(C, u) = ClassOf(C, v)  BY ClassesJoin
<1>4. a \in T /\ b \in T /\ c = ClassOf(C, a)
  <2>1. c \in C  OBVIOUS
  <2> HIDE DEF C
  <2>2. a \in T /\ b \in T  BY <1>1, <2>1 DEF Partition
  <2> QED  BY <1>1, <2>1, <2>2, PartitionClass
<1> HIDE DEF C
<1>5. \A u, v \in T : <<u, v>> \in R <=> same(u, v)  OBVIOUS
<1>6. R \in SUBSET (T \X T)  OBVIOUS
<1> HIDE DEF R
<1>7. W \subseteq R
  <2>1. SUFFICES ASSUME NEW p \in W PROVE p \in R  OBVIOUS
  <2>2. PICK u \in T, v \in T : p = <<u, v>>  OBVIOUS
  <2>3. Consecutive(L, S, u, v) /\ ClassOf(C, u) = ClassOf(C, v)
    BY <1>3, <2>1, <2>2 DEF AllConsecutive
  <2>4. ASSUME NEW y \in S, y \notin ClassOf(C, u)
        PROVE  <<u, y>> \in L <=> <<v, y>> \in L
    <3>1. y # u /\ y # v  BY <1>2, <2>3, <2>4
    <3>2. <<v, y>> \in L \/ <<y, v>> \in L  BY <3>1 DEF StrictOrder
    <3>3. <<u, v>> \in L /\ ~(<<u, y>> \in L /\ <<y, v>> \in L)
      BY <2>3 DEF Consecutive
    <3>4. <<v, y>> \in L => <<u, y>> \in L  BY <3>3 DEF StrictOrder, Transitive
    <3> QED  BY <3>2, <3>3, <3>4
  <2>5. same(u, v)  BY <2>3, <2>4
  <2> HIDE DEF same
  <2> QED  BY <1>5, <2>2, <2>5
<1>8. Transitive(R, T)
  <2>1. ASSUME NEW u \in T, NEW v \in T, NEW w \in T, same(u, v), same(v, w)
        PROVE  same(u, w)
    BY <2>1
  <2> HIDE DEF same
  <2> QED  BY <1>5, <2>1 DEF Transitive
<1>9. \A u, v \in T : <<u, v>> \in R => <<v, u>> \in R
  <2>1. ASSUME NEW u \in T, NEW v \in T, same(u, v) PROVE same(v, u)  BY <2>1
  <2> HIDE DEF same
  <2> QED  BY <1>5, <2>1
<1>10. CASE a = b  BY <1>10
<1>11. CASE a # b
  <2>1. <<a, b>> \in R
    <3>1. c \in Classes(T, W)  OBVIOUS
    <3> QED  BY <1>6, <1>7, <1>8, <1>9, <1>11, <3>1, ClassesLeast
  <2>2. same(a, b)  BY <1>4, <1>5, <2>1
  <2> QED  BY <1>4, <2>2
<1> QED  BY <1>10, <1>11

(* Classes of consecutive nodes do not overlap. *)
LEMMA ClassesInOrder ==
  ASSUME NEW S, NEW L, StrictOrder(L, S), NEW T \in SUBSET S, IsFiniteSet(T),
         NEW W \in SUBSET (T \X T), AllConsecutive(L, S, W),
         NEW c \in Classes(T, W), NEW d \in Classes(T, W), c # d,
         NEW u \in c, NEW v \in d, <<u, v>> \in L, NEW x \in c, NEW y \in d
  PROVE  <<x, y>> \in L
<1> DEFINE C == Classes(T, W)
<1>1. Partition(C, T)  BY ClassesPartition
<1>2. c \in C /\ d \in C  OBVIOUS
<1> HIDE DEF C
<1>3. u \in S /\ v \in S /\ x \in S /\ y \in S /\ v \notin c /\ x \notin d
  BY <1>1, <1>2 DEF Partition
<1>4. <<x, v>> \in L  BY <1>3, ClassOnOneSide
<1>5. <<v, x>> \notin L  BY <1>3, <1>4 DEF StrictOrder, Transitive
<1>6. <<y, x>> \notin L  BY <1>3, <1>5, ClassOnOneSide
<1>7. x # y  BY <1>3
<1> QED  BY <1>3, <1>6, <1>7 DEF StrictOrder

ClassRelation(C, L) ==
  {p \in C \X C : p[1] # p[2] /\ \A u \in p[1], v \in p[2] : <<u, v>> \in L}

(* An order of the nodes orders such classes. *)
LEMMA ClassesStrict ==
  ASSUME NEW S, NEW L, StrictOrder(L, S), NEW T \in SUBSET S, IsFiniteSet(T),
         NEW W \in SUBSET (T \X T), AllConsecutive(L, S, W)
  PROVE  /\ StrictOrder(ClassRelation(Classes(T, W), L), Classes(T, W))
         /\ \A E \in SUBSET (T \X T) : E \subseteq L =>
              EdgesBetween(Classes(T, W), E) \subseteq ClassRelation(Classes(T, W), L)
         /\ \A u, v \in T :
              Consecutive(L, S, u, v) /\ ClassOf(Classes(T, W), u) # ClassOf(Classes(T, W), v)
                => Consecutive(ClassRelation(Classes(T, W), L), Classes(T, W),
                               ClassOf(Classes(T, W), u), ClassOf(Classes(T, W), v))
<1> DEFINE C == Classes(T, W)  R == ClassRelation(C, L)
<1>1. Partition(C, T)  BY ClassesPartition
<1>2. \A c, d \in C, u \in T, v \in T, x \in T, y \in T :
         /\ c # d /\ u \in c /\ v \in d /\ <<u, v>> \in L /\ x \in c /\ y \in d
         => <<x, y>> \in L
  <2>1. SUFFICES ASSUME NEW c \in Classes(T, W), NEW d \in Classes(T, W), c # d,
                        NEW u \in c, NEW v \in d, <<u, v>> \in L, NEW x \in c, NEW y \in d
                 PROVE  <<x, y>> \in L
    OBVIOUS
  <2> HIDE DEF C, R
  <2> QED  BY <2>1, ClassesInOrder
<1> HIDE DEF C
<1>3. \A c \in C : c # {} /\ c \in SUBSET T  BY <1>1 DEF Partition
<1>4. \A c, d \in C : <<c, d>> \in R <=> c # d /\ \A u \in c, v \in d : <<u, v>> \in L
  BY DEF ClassRelation
<1>5. R \in SUBSET (C \X C)  BY DEF ClassRelation
<1> HIDE DEF R
<1>6. \A c, d \in C : c # d => \A u \in c, v \in d : <<u, v>> \in L => <<c, d>> \in R
  <2> TAKE c \in C, d \in C
  <2> HAVE c # d
  <2> TAKE u \in c, v \in d
  <2> HAVE <<u, v>> \in L
  <2>1. \A x \in c, y \in d : <<x, y>> \in L  BY <1>2, <1>3
  <2> QED  BY <1>4, <2>1
<1>7. ASSUME NEW c \in C, NEW d \in C, c # d PROVE <<c, d>> \in R \/ <<d, c>> \in R
  <2>1. PICK u \in c : u \in T  BY <1>3
  <2>2. PICK v \in d : v \in T  BY <1>3
  <2>3. u # v  BY <1>1, <1>7, <2>1, <2>2 DEF Partition
  <2>4. <<u, v>> \in L \/ <<v, u>> \in L  BY <2>1, <2>2, <2>3 DEF StrictOrder
  <2> QED  BY <1>6, <1>7, <2>1, <2>2, <2>4
<1>8. ASSUME NEW c \in C, NEW d \in C, NEW e \in C, <<c, d>> \in R, <<d, e>> \in R
      PROVE  <<c, e>> \in R
  <2>1. PICK u \in c : u \in T  BY <1>3
  <2>2. PICK v \in d : v \in T  BY <1>3
  <2>3. PICK w \in e : w \in T  BY <1>3
  <2>4. <<u, v>> \in L /\ <<v, w>> \in L /\ c # d  BY <1>4, <1>8, <2>1, <2>2, <2>3
  <2>5. <<u, w>> \in L
    BY <2>1, <2>2, <2>3, <2>4 DEF StrictOrder, Transitive
  <2>6. c # e
    <3>1. SUFFICES ASSUME c = e PROVE FALSE  OBVIOUS
    <3>2. <<v, u>> \in L  BY <1>4, <1>8, <2>1, <2>2, <3>1
    <3> QED  BY <2>1, <2>2, <2>4, <3>2 DEF StrictOrder, Transitive
  <2> QED  BY <1>6, <2>1, <2>3, <2>5, <2>6
<1>9. StrictOrder(R, C)
  <2>1. Transitive(R, C)  BY <1>8 DEF Transitive
  <2>2. \A c \in C : <<c, c>> \notin R  BY <1>4
  <2> QED  BY <1>5, <1>7, <2>1, <2>2 DEF StrictOrder
<1>10. ASSUME NEW E \in SUBSET (T \X T), E \subseteq L, NEW p \in EdgesBetween(C, E)
       PROVE  p \in R
  <2>1. PICK u \in T, v \in T : /\ <<u, v>> \in E /\ p = <<ClassOf(C, u), ClassOf(C, v)>>
                                /\ ClassOf(C, u) # ClassOf(C, v)
    BY <1>1, EdgesBetweenAre
  <2>2. /\ ClassOf(C, u) \in C /\ u \in ClassOf(C, u)
        /\ ClassOf(C, v) \in C /\ v \in ClassOf(C, v)
    BY <1>1, PartitionClass
  <2>3. <<u, v>> \in L  BY <1>10, <2>1
  <2> QED  BY <1>6, <2>1, <2>2, <2>3
<1>11. ASSUME NEW u \in T, NEW v \in T, Consecutive(L, S, u, v), ClassOf(C, u) # ClassOf(C, v)
       PROVE  Consecutive(R, C, ClassOf(C, u), ClassOf(C, v))
  <2> DEFINE c == ClassOf(C, u)  d == ClassOf(C, v)
  <2>1. c \in C /\ u \in c /\ d \in C /\ v \in d  BY <1>1, PartitionClass
  <2>2. c # d  BY <1>11
  <2> HIDE DEF c, d
  <2>3. <<c, d>> \in R  BY <1>6, <1>11, <2>1, <2>2 DEF Consecutive
  <2>4. ASSUME NEW e \in C, <<c, e>> \in R, <<e, d>> \in R PROVE FALSE
    <3>1. PICK w \in e : w \in T  BY <1>3
    <3>2. <<u, w>> \in L /\ <<w, v>> \in L  BY <1>4, <2>1, <2>4, <3>1
    <3> QED  BY <1>11, <3>1, <3>2 DEF Consecutive
  <2>5. Consecutive(R, C, c, d)  BY <2>3, <2>4 DEF Consecutive
  <2> QED  BY <2>5 DEF c, d
<1> QED  BY <1>9, <1>10, <1>11 DEF R, C

(* Edges that an order respects make no cycle. *)
LEMMA StrictAcyclic ==
  ASSUME NEW S, IsFiniteSet(S), NEW L, StrictOrder(L, S), NEW E \in SUBSET L
  PROVE  Acyclic(S, E)
<1>1. E \in SUBSET (S \X S) /\ Transitive(L, S) /\ L \in SUBSET (S \X S)  BY DEF StrictOrder
<1>2. Closure(Paths(S, E), S, E)  BY <1>1, PathsAreClosure
<1>3. Paths(S, E) \subseteq L  BY <1>1, <1>2 DEF Closure
<1> QED  BY <1>3 DEF Acyclic, StrictOrder

(* A red edge with nothing in between in some order is not superfluous.     *)
LEMMA ConsecutiveKept ==
  ASSUME NEW g, Graph(g), NEW S, g.nodes \subseteq S, NEW L, StrictOrder(L, S), g.edges \subseteq L,
         NEW e \in g.red, Consecutive(L, S, e[1], e[2])
  PROVE  e \in Preprocess(g).red
<1> DEFINE N == g.nodes  E == g.edges
<1>1. E \in SUBSET (N \X N) /\ IsFiniteSet(N) /\ g.red \in SUBSET E
      /\ g = [nodes |-> N, edges |-> E, red |-> g.red]  BY DEF Graph
<1>2. Preprocess(g).red = g.red \ Other(N, E)
  BY <1>1 DEF Preprocess, Other
<1>3. Closure(Paths(N, E), N, E)  BY <1>1, PathsAreClosure
<1> HIDE DEF N, E
<1>4. Paths(N, E) \subseteq L
  <2> DEFINE R == L \cap (N \X N)
  <2>1. Transitive(L, S) /\ N \subseteq S /\ E \subseteq L  BY DEF StrictOrder, N, E
  <2>2. Transitive(R, N)  BY <2>1 DEF Transitive
  <2>3. R \in SUBSET (N \X N) /\ E \subseteq R  BY <1>1, <2>1
  <2> HIDE DEF R
  <2>4. Paths(N, E) \subseteq R  BY <1>3, <2>2, <2>3 DEF Closure
  <2> QED  BY <2>4 DEF R
<1>5. e \notin Other(N, E)
  <2>1. N \subseteq S  BY DEF N
  <2> QED  BY <1>4, <2>1 DEF Other, Consecutive
<1> QED  BY <1>2, <1>5

(* What is followed is finite. *)
LEMMA CountFollowed ==
  ASSUME NEW g, Graph(g), NEW x
  PROVE  /\ IsFiniteSet(g.red)
         /\ IsFiniteSet({e \in g.red : Follows(x, e)})
         /\ \A W \in SUBSET {e \in g.red : Follows(x, e)} :
              Cardinality(W) \in Nat /\ Cardinality(W) <= Satisfied(x, g.red)
         /\ Satisfied(x, g.red) \in Nat
<1> DEFINE B == {e \in g.red : Follows(x, e)}
<1>1. IsFiniteSet(g.nodes \X g.nodes)  BY FS_Product DEF Graph
<1>2. g.red \in SUBSET (g.nodes \X g.nodes)  BY DEF Graph
<1>3. IsFiniteSet(g.red)  BY <1>1, <1>2, FS_Subset
<1>4. B \in SUBSET g.red  OBVIOUS
<1>5. Satisfied(x, g.red) = Cardinality(B)  BY DEF Satisfied
<1> HIDE DEF B
<1>6. IsFiniteSet(B)  BY <1>3, <1>4, FS_Subset
<1>7. \A W \in SUBSET B : Cardinality(W) \in Nat /\ Cardinality(W) <= Cardinality(B)
  BY <1>6, FS_Subset, FS_CardinalityType
<1>8. Cardinality(B) \in Nat  BY <1>6, FS_CardinalityType
<1> QED  BY <1>3, <1>5, <1>6, <1>7, <1>8 DEF B

(* No set of red edges that can be satisfied together is larger than what   *)
(* the orders that are found satisfy.                                       *)
LEMMA OptimalOrdersBest ==
  ASSUME NEW g, Graph(g), NEW o \in OptimalOrders(g), NEW W \in SUBSET g.red, Satisfiable(g, W)
  PROVE  Cardinality(W) <= Satisfied(o, g.red)
<1> DEFINE classes(red) == Classes(g.nodes, red)
           orders(red) == TopologicalOrders(classes(red), EdgesBetween(classes(red), g.edges))
           expanded(red) == {Expand(x, red) : x \in orders(red)}
           good == {red \in SUBSET g.red : Satisfiable(g, red)}
           best == {red \in good : \A other \in good : Cardinality(other) <= Cardinality(red)}
<1>1. OptimalOrders(g) = UNION {expanded(red) : red \in best}  BY DEF OptimalOrders
<1>2. \A red \in best : /\ red \in SUBSET g.red /\ Satisfiable(g, red)
                        /\ Cardinality(W) <= Cardinality(red)
  <2>1. W \in good  OBVIOUS
  <2>2. \A red \in best : red \in good /\ \A other \in good : Cardinality(other) <= Cardinality(red)
    OBVIOUS
  <2>3. \A red \in good : red \in SUBSET g.red /\ Satisfiable(g, red)  OBVIOUS
  <2> HIDE DEF good, best
  <2> QED  BY <2>1, <2>2, <2>3
<1>3. \A red : \A y \in expanded(red) : \E x \in orders(red) : y = Expand(x, red)  OBVIOUS
<1> HIDE DEF best, expanded
<1>4. PICK red \in best : o \in expanded(red)  BY <1>1
<1>5. PICK x \in orders(red) : o = Expand(x, red)  BY <1>3, <1>4
<1>6. /\ IsFiniteSet(g.nodes) /\ g.edges \in SUBSET (g.nodes \X g.nodes)
      /\ Acyclic(g.nodes, g.edges) /\ red \in SUBSET g.edges
  BY <1>2, <1>4 DEF Graph
<1>7. Single(red)  BY <1>2, <1>4 DEF Satisfiable, Single
<1>8. IsFiniteSet(classes(red))
  <2>1. red \in SUBSET (g.nodes \X g.nodes)  BY <1>6
  <2>2. Partition(classes(red), g.nodes)  BY <1>6, <2>1, ClassesPartition
  <2> QED  BY <1>6, <2>2, PartitionFinite
<1>9. Enumerates(x, classes(red))
  BY <1>5, <1>8, TopologicalOrdersAre DEF Ordered
<1>10. \A e \in red : Follows(o, e)  BY <1>5, <1>6, <1>7, <1>9, ExpandFollows
<1>11. red \in SUBSET g.red /\ Cardinality(W) <= Cardinality(red)  BY <1>2, <1>4
<1>12. red \in SUBSET {e \in g.red : Follows(o, e)}  BY <1>10, <1>11
<1>13. Cardinality(red) \in Nat /\ Cardinality(red) <= Satisfied(o, g.red)
       /\ Satisfied(o, g.red) \in Nat
  BY <1>12, CountFollowed
<1>14. Cardinality(W) \in Nat
  <2>1. IsFiniteSet(g.red)  BY CountFollowed
  <2>2. IsFiniteSet(W)  BY <2>1, FS_Subset
  <2> QED  BY <2>2, FS_CardinalityType
<1> QED  BY <1>11, <1>13, <1>14

ConsecutiveRed(g, L, S) == {e \in g.red : Consecutive(L, S, e[1], e[2])}

(* What a component's orders satisfy is no less than what is consecutive    *)
(* there in any order of the nodes.                                         *)
LEMMA PartOrdersBest ==
  ASSUME NEW g, Graph(g), NEW L, StrictOrder(L, g.nodes), g.edges \subseteq L,
         NEW c \in SUBSET g.nodes, NEW o \in PartOrders(g, c)
  PROVE  /\ Ordered(o, c, g.edges)
         /\ Cardinality(ConsecutiveRed(g, L, g.nodes) \cap (c \X c)) <= Satisfied(o, g.red)
<1> DEFINE S == g.nodes  s == Subgraph(g, c)  h == Preprocess(s)
           W == ConsecutiveRed(g, L, S) \cap (c \X c)
<1>1. Graph(s) /\ s.nodes = c /\ \A y : Ordered(y, c, s.edges) => Ordered(y, c, g.edges)
  BY SubgraphGraph
<1>2. s.edges \subseteq g.edges /\ s.red = g.red \cap (c \X c)  BY DEF Subgraph
<1>3. o \in OptimalOrders(h)  BY DEF PartOrders
<1> HIDE DEF s
<1>4. /\ Graph(h) /\ h.nodes = s.nodes
      /\ \A y : Ordered(y, s.nodes, h.edges) => Ordered(y, s.nodes, s.edges)
  BY <1>1, PreprocessGraph
<1>5. h.edges \subseteq s.edges /\ h.red \subseteq s.red  
  BY <1>1 DEF Preprocess, Graph
<1> HIDE DEF h
<1>6. Ordered(o, c, g.edges)
  <2>1. Ordered(o, h.nodes, h.edges)  BY <1>3, <1>4, OptimalOrdersOrdered
  <2> QED  BY <1>1, <1>4, <2>1
<1>7. W \in SUBSET h.red
  <2>1. SUFFICES ASSUME NEW e \in W PROVE e \in h.red  OBVIOUS
  <2>2. e \in g.red /\ e \in c \X c /\ Consecutive(L, S, e[1], e[2])  BY DEF ConsecutiveRed
  <2>3. e \in s.red  BY <1>2, <2>2
  <2>4. s.nodes \subseteq S /\ s.edges \subseteq L  BY <1>1, <1>2
  <2> QED  BY <1>1, <2>2, <2>3, <2>4, ConsecutiveKept DEF h
<1>8. /\ IsFiniteSet(c) /\ W \in SUBSET (c \X c) /\ h.edges \in SUBSET (c \X c)
      /\ h.edges \subseteq L
  <2>1. IsFiniteSet(s.nodes) /\ h.edges \in SUBSET (h.nodes \X h.nodes)  BY <1>1, <1>4 DEF Graph
  <2> QED  BY <1>1, <1>2, <1>4, <1>5, <2>1
<1>9. AllConsecutive(L, S, W)  BY DEF AllConsecutive, ConsecutiveRed
<1> HIDE DEF W
<1>10. StrictOrder(L, S) /\ c \in SUBSET S  OBVIOUS
<1> HIDE DEF S
<1>11. Satisfiable(h, W)
  <2> DEFINE C == Classes(c, W)  R == ClassRelation(C, L)
  <2>1. W \in SUBSET (S \X S)  BY <1>8, <1>10
  <2>2. Single(W)  BY <1>9, <1>10, <2>1, ConsecutiveSingle
  <2>3. StrictOrder(R, C) /\ EdgesBetween(C, h.edges) \in SUBSET R
    BY <1>8, <1>9, <1>10, ClassesStrict
  <2>4. IsFiniteSet(C)
    <3>1. Partition(C, c)  BY <1>8, ClassesPartition
    <3> HIDE DEF C
    <3> QED  BY <1>8, <3>1, PartitionFinite
  <2>5. Acyclic(C, EdgesBetween(C, h.edges))
    <3> HIDE DEF C, R
    <3> QED  BY <2>3, <2>4, StrictAcyclic
  <2>6. h.nodes = c  BY <1>1, <1>4
  <2> QED  BY <2>2, <2>5, <2>6 DEF Satisfiable, Single
<1>12. Cardinality(W) <= Satisfied(o, h.red)  BY <1>3, <1>4, <1>7, <1>11, OptimalOrdersBest
<1>13. Satisfied(o, h.red) <= Satisfied(o, g.red)
  <2> DEFINE B == {e \in h.red : Follows(o, e)}
  <2>1. B \in SUBSET {e \in g.red : Follows(o, e)}  BY <1>2, <1>5
  <2>2. Satisfied(o, h.red) = Cardinality(B)  BY DEF Satisfied
  <2> HIDE DEF B
  <2> QED  BY <2>1, <2>2, CountFollowed
<1>14. Satisfied(o, h.red) \in Nat /\ Satisfied(o, g.red) \in Nat  BY <1>4, CountFollowed
<1>15. Cardinality(W) \in Nat
  <2>1. IsFiniteSet(h.red)  BY <1>4, CountFollowed
  <2>2. IsFiniteSet(W)  BY <1>7, <2>1, FS_Subset
  <2> QED  BY <2>2, FS_CardinalityType
<1>16. Cardinality(W) <= Satisfied(o, g.red)  BY <1>12, <1>13, <1>14, <1>15
<1> QED  BY <1>6, <1>16 DEF W, S

(* Red edges are within components. *)
LEMMA ComponentsHoldRed ==
  ASSUME NEW g, IsFiniteSet(g.nodes), g.edges \in SUBSET (g.nodes \X g.nodes), g.red \in SUBSET g.edges,
         NEW u \in g.nodes, NEW v \in g.nodes, <<u, v>> \in g.red
  PROVE  ClassOf(Components(g), u) = ClassOf(Components(g), v)
<1> DEFINE S == g.nodes  E == g.edges \cup Reversed(g.red)  P == Paths(S, E)
           C == Components(g)
<1>1. g.red \in SUBSET (S \X S)  OBVIOUS
<1>2. /\ Reversed(g.red) \in SUBSET (S \X S)
      /\ \A x, y \in S : <<x, y>> \in Reversed(g.red) <=> <<y, x>> \in g.red
  BY <1>1, ReversedIn
<1>3. E \in SUBSET (S \X S)  BY <1>2
<1>4. Closure(P, S, E)  BY <1>3, PathsAreClosure
<1>5. Components(g) = {{y \in S : y = x \/ {<<x, y>>, <<y, x>>} \subseteq P} : x \in S}
  BY DEF Components, Reversed
<1>6. <<u, v>> \in E /\ <<v, u>> \in E  BY <1>2
<1> HIDE DEF E
<1>7. <<u, v>> \in P /\ <<v, u>> \in P  BY <1>4, <1>6 DEF Closure
<1>8. Partition(C, S)  BY <1>1, ComponentsPartition
<1> HIDE DEF P
<1> DEFINE c == {y \in S : y = u \/ {<<u, y>>, <<y, u>>} \subseteq P}
<1>9. u \in c /\ v \in c  BY <1>7
<1>10. c \in C  BY <1>5
<1> HIDE DEF c, C
<1>11. c = ClassOf(C, u) /\ c = ClassOf(C, v)  BY <1>8, <1>9, <1>10, PartitionClass
<1> QED  BY <1>11 DEF C

(* The first classes, and one more. *)
LEMMA PrefixStep ==
  ASSUME NEW S, NEW C, Partition(C, S), NEW o, Enumerates(o, C), NEW k \in 1 .. Len(o)
  PROVE  /\ Prefix(o, k) = Prefix(o, k - 1) \cup o[k]
         /\ Prefix(o, k) \in SUBSET S /\ o[k] \in C
         /\ \A u \in Prefix(o, k - 1) : u \notin o[k]
<1>1. Len(o) \in Nat /\ \A j \in 1 .. Len(o) : o[j] \in C  BY DEF Enumerates
<1>2. \A j : j \in 1 .. k <=> j \in 1 .. (k - 1) \/ j = k  BY <1>1
<1>3. Prefix(o, k) = Prefix(o, k - 1) \cup o[k]  BY <1>2 DEF Prefix
<1>4. \A j \in 1 .. k : j \in 1 .. Len(o)  BY <1>1
<1>5. \A c \in C : c \in SUBSET S  BY DEF Partition
<1>6. Prefix(o, k) \in SUBSET S  BY <1>1, <1>4, <1>5 DEF Prefix
<1>7. ASSUME NEW u \in Prefix(o, k - 1), u \in o[k] PROVE FALSE
  <2>1. PICK j \in 1 .. (k - 1) : u \in o[j]  BY DEF Prefix
  <2>2. j \in 1 .. Len(o) /\ j # k  BY <1>1
  <2>3. u \in S  BY <1>1, <1>5, <2>1, <2>2
  <2>4. o[j] = o[k]  BY <1>1, <1>7, <2>1, <2>2, <2>3 DEF Partition
  <2> QED  BY <2>2, <2>4 DEF Enumerates
<1> QED  BY <1>1, <1>3, <1>6, <1>7

(* The components' orders satisfy what is consecutive in any order, and so  *)
(* does the order that they make.                                           *)
LEMMA JoinedBest ==
  ASSUME NEW g, Graph(g), NEW C, Partition(C, g.nodes),
         \A u, v \in g.nodes : <<u, v>> \in g.red => ClassOf(C, u) = ClassOf(C, v),
         NEW L, StrictOrder(L, g.nodes), g.edges \subseteq L,
         NEW o, Enumerates(o, C), NEW x \in Joined(g, o)
  PROVE  Cardinality(ConsecutiveRed(g, L, g.nodes)) <= Satisfied(x, g.red)
<1> DEFINE S == g.nodes  W == ConsecutiveRed(g, L, S)  n == Len(o)
           In(k) == W \cap (Prefix(o, k) \X Prefix(o, k))
           opt(c) == PartOrders(g, c)
<1>1. n \in Nat /\ o \in Seq(C) /\ \A k \in 1 .. n : o[k] \in C  BY DEF Enumerates
<1>2. \A c \in C : c \in SUBSET S  BY DEF Partition
<1>3. ASSUME NEW c \in C, NEW p \in opt(c)
      PROVE  Ordered(p, c, g.edges) /\ Cardinality(W \cap (c \X c)) <= Satisfied(p, g.red)
  <2>1. c \in SUBSET g.nodes /\ p \in PartOrders(g, c)  BY <1>2
  <2> QED  BY <2>1, PartOrdersBest
<1>4. \A c \in C : opt(c) \in SUBSET Seq(S)
  <2> TAKE c \in C
  <2>1. SUFFICES ASSUME NEW p \in opt(c) PROVE p \in Seq(S)  OBVIOUS
  <2>2. p \in Seq(c)  BY <1>3, <2>1 DEF Ordered, Enumerates
  <2>3. c \in SUBSET S  BY <1>2
  <2> HIDE DEF S
  <2> QED  BY <2>2, <2>3
<1>5. PICK f : JoinTable(g, S, o, f)
  <2>1. o \in Seq(C) /\ \A c \in C : PartOrders(g, c) \in SUBSET Seq(S)  BY <1>1, <1>4
  <2> HIDE DEF S
  <2> QED  BY <2>1, JoinedTable
<1>14. /\ f[0] = {<<>>} /\ f[n] = Joined(g, o)
       /\ \A k \in 1 .. n : \A y :
            y \in f[k] <=> \E q \in f[k - 1], p \in opt(o[k]) : y = q \o p
  BY <1>5 DEF JoinTable
<1>6. IsFiniteSet(W) /\ W \in SUBSET g.red /\ g.red \in SUBSET (S \X S)
  <2>1. IsFiniteSet(g.red)  BY CountFollowed
  <2>2. W \in SUBSET g.red  BY DEF ConsecutiveRed
  <2> QED  BY <2>1, <2>2, FS_Subset DEF Graph
<1> HIDE DEF W, opt
<1>7. \A T \in SUBSET W : IsFiniteSet(T) /\ Cardinality(T) \in Nat
  BY <1>6, FS_Subset, FS_CardinalityType
<1> DEFINE Holds(k) == \A y \in f[k] : /\ Enumerates(y, Prefix(o, k))
                                       /\ Cardinality(In(k)) <= Satisfied(y, g.red)
           Bad == {k \in Nat : k <= n /\ ~Holds(k)}
<1>8. Holds(0)
  <2>1. Prefix(o, 0) = {} /\ Enumerates(<<>>, {})  BY EmptyOrder, PrefixAll DEF Ordered
  <2>2. In(0) = {}  BY <2>1
  <2> HIDE DEF In
  <2>3. Cardinality(In(0)) = 0  BY <2>2, FS_EmptySet
  <2>5. SUFFICES ASSUME NEW y \in f[0]
                 PROVE  Enumerates(y, Prefix(o, 0)) /\ Cardinality(In(0)) <= Satisfied(y, g.red)
    OBVIOUS
  <2>6. y = <<>>  BY <1>14
  <2>7. Satisfied(y, g.red) \in Nat  BY CountFollowed
  <2> HIDE DEF Holds, Bad
  <2>8. Enumerates(y, Prefix(o, 0))  BY <2>1, <2>6
  <2>9. Cardinality(In(0)) <= Satisfied(y, g.red)  BY <2>3, <2>7
  <2> QED  BY <2>8, <2>9
<1>9. ASSUME NEW k \in 1 .. n, Holds(k - 1), NEW y \in f[k]
      PROVE  Enumerates(y, Prefix(o, k)) /\ Cardinality(In(k)) <= Satisfied(y, g.red)
  <2> DEFINE c == o[k]  A == Prefix(o, k - 1)
  <2>1. PICK q \in f[k - 1], p \in opt(c) : y = q \o p
    <3> HIDE DEF Holds, Bad
    <3> QED  BY <1>9, <1>14
  <2>2. /\ c \in C /\ Prefix(o, k) = A \cup c /\ Prefix(o, k) \in SUBSET S
        /\ \A u \in A : u \notin c
    BY PrefixStep
  <2>3. Enumerates(q, A) /\ Cardinality(In(k - 1)) <= Satisfied(q, g.red)  BY <1>9, <2>1
  <2>4. Enumerates(p, c) /\ Cardinality(W \cap (c \X c)) <= Satisfied(p, g.red)
    BY <1>3, <2>1, <2>2 DEF Ordered
  <2> HIDE DEF Holds, Bad
  <2>5. In(k) \subseteq In(k - 1) \cup (W \cap (c \X c))
    <3>1. SUFFICES ASSUME NEW e \in In(k) PROVE e \in In(k - 1) \cup (W \cap (c \X c))  OBVIOUS
    <3>2. PICK u \in S, v \in S : e = <<u, v>> /\ <<u, v>> \in g.red  BY <1>6
    <3>3. ClassOf(C, u) = ClassOf(C, v)  BY <3>2
    <3>4. u \in A \cup c /\ v \in A \cup c /\ e \in W  BY <2>2, <3>2
    <3>5. u \in c <=> v \in c
      BY <2>2, <3>2, <3>3, PartitionClass
    <3> QED  BY <3>2, <3>4, <3>5
  <2> DEFINE V == W \cap (c \X c)
  <2>6. V \in SUBSET W /\ In(k - 1) \in SUBSET W /\ In(k) \in SUBSET W  OBVIOUS
  <2> HIDE DEF In, V
  <2>7. Cardinality(In(k)) <= Cardinality(In(k - 1)) + Cardinality(V)
    <3>1. /\ IsFiniteSet(In(k - 1)) /\ IsFiniteSet(V) /\ Cardinality(In(k)) \in Nat
          /\ Cardinality(In(k - 1)) \in Nat /\ Cardinality(V) \in Nat
          /\ Cardinality(In(k - 1) \cap V) \in Nat
      <4>1. In(k - 1) \cap V \in SUBSET W  BY <2>6
      <4> QED  BY <1>7, <2>6, <4>1
    <3> DEFINE U == In(k - 1) \cup V
    <3>2. IsFiniteSet(U) /\ Cardinality(U)
            = Cardinality(In(k - 1)) + Cardinality(V) - Cardinality(In(k - 1) \cap V)
      BY <3>1, FS_Union
    <3>3. In(k) \in SUBSET U  BY <2>5 DEF V
    <3> HIDE DEF U
    <3>4. Cardinality(In(k)) <= Cardinality(U)  BY <3>2, <3>3, FS_Subset
    <3> QED  BY <3>1, <3>2, <3>4
  <2> DEFINE F(z) == {e \in g.red : Follows(z, e)}
  <2>8. \A z : F(z) \in SUBSET g.red /\ Satisfied(z, g.red) = Cardinality(F(z))
               /\ IsFiniteSet(F(z)) /\ Satisfied(z, g.red) \in Nat
    BY CountFollowed DEF Satisfied
  <2>9. F(q) \cup F(p) \subseteq F(y)
    <3>1. q \in Seq(S) /\ p \in Seq(S)
      <4>1. q \in Seq(A) /\ p \in Seq(c)  BY <2>3, <2>4 DEF Enumerates
      <4>2. A \in SUBSET S /\ c \in SUBSET S  BY <2>2
      <4> HIDE DEF S, A, c
      <4> QED  BY <4>1, <4>2
    <3>2. \A e : Follows(q, e) \/ Follows(p, e) => Follows(y, e)  BY <2>1, <3>1, ConcatFollows
    <3> QED  BY <3>2
  <2>10. F(q) \cap F(p) = {}
    <3>1. SUFFICES ASSUME NEW e \in F(q), e \in F(p) PROVE FALSE  OBVIOUS
    <3>2. Follows(q, e) /\ Follows(p, e)  BY <3>1
    <3>3. e[1] \in A /\ e[1] \in c
      <4> HIDE DEF F, A, c
      <4> QED  BY <2>3, <2>4, <3>2, FollowsBefore
    <3> QED  BY <2>2, <3>3
  <2> HIDE DEF F
  <2>11. Satisfied(q, g.red) + Satisfied(p, g.red) <= Satisfied(y, g.red)
    <3> DEFINE U == F(q) \cup F(p)
    <3>1. IsFiniteSet(F(q)) /\ IsFiniteSet(F(p))  BY <2>8
    <3>2. Cardinality(U) = Cardinality(F(q)) + Cardinality(F(p)) - Cardinality(F(q) \cap F(p))
      BY <3>1, FS_Union
    <3>3. Cardinality(F(q) \cap F(p)) = 0  BY <2>10, FS_EmptySet
    <3>4. Cardinality(U) <= Cardinality(F(y))
      <4>1. U \in SUBSET F(y) /\ IsFiniteSet(F(y))  BY <2>8, <2>9
      <4> HIDE DEF U
      <4> QED  BY <4>1, FS_Subset
    <3> HIDE DEF U
    <3>5. /\ Satisfied(q, g.red) = Cardinality(F(q)) /\ Cardinality(F(q)) \in Nat
          /\ Satisfied(p, g.red) = Cardinality(F(p)) /\ Cardinality(F(p)) \in Nat
          /\ Satisfied(y, g.red) = Cardinality(F(y)) /\ Cardinality(F(y)) \in Nat
      BY <2>8
    <3> QED  BY <3>2, <3>3, <3>4, <3>5
  <2>12. Cardinality(In(k)) <= Satisfied(y, g.red)
    <3>1. /\ Cardinality(In(k)) \in Nat /\ Cardinality(In(k - 1)) \in Nat /\ Cardinality(V) \in Nat
          /\ Satisfied(q, g.red) \in Nat /\ Satisfied(p, g.red) \in Nat /\ Satisfied(y, g.red) \in Nat
      BY <1>7, <2>6, <2>8
    <3>2. Cardinality(V) <= Satisfied(p, g.red)  BY <2>4 DEF V
    <3>3. Cardinality(In(k - 1)) <= Satisfied(q, g.red)  BY <2>3
    <3> QED  BY <2>7, <2>11, <3>1, <3>2, <3>3
  <2>13. Enumerates(y, Prefix(o, k))
    <3>1. Enumerates(q \o p, A \cup c)
      <4> HIDE DEF A, c
      <4> QED  BY <2>2, <2>3, <2>4, ConcatOrder
    <3> QED  BY <2>1, <2>2, <3>1
  <2> QED  BY <2>12, <2>13
<1>10. ASSUME Bad # {} PROVE FALSE
  <2>1. PICK k \in Bad : \A j \in Bad : k <= j
    <3>1. Bad \in SUBSET Nat  OBVIOUS
    <3> HIDE DEF Bad
    <3> QED  BY <1>10, <3>1, LeastOf
  <2>2. k \in Nat /\ k <= n /\ ~Holds(k)  BY <2>1
  <2>3. k # 0  BY <1>8, <2>2
  <2>4. k - 1 \in Nat /\ k - 1 <= n /\ ~(k <= k - 1) /\ k \in 1 .. n  BY <1>1, <2>2, <2>3
  <2>5. Holds(k - 1)
    <3> HIDE DEF Holds
    <3> QED  BY <2>1, <2>4
  <2>6. Holds(k)  BY <1>9, <2>4, <2>5
  <2> QED  BY <2>2, <2>6
<1>11. Holds(n)
  <2> HIDE DEF Holds
  <2> QED  BY <1>1, <1>10
<1>12. Cardinality(In(n)) <= Satisfied(x, g.red)  BY <1>11, <1>14
<1>13. In(n) = W
  <2>1. Prefix(o, n) = S  BY PrefixAll
  <2> QED  BY <1>6, <2>1
<1> HIDE DEF In
<1> QED  BY <1>12, <1>13 DEF W

(* The orders that satisfiable_graph finds have as many red edges from one  *)
(* node to the next as any order that respects the edges.                   *)
THEOREM SatisfyingOrdersAreBest ==
  ASSUME NEW graph, Graph(graph), NEW x \in SatisfyingOrders(graph),
         NEW L, StrictOrder(L, graph.nodes), graph.edges \subseteq L
  PROVE  Cardinality(ConsecutiveRed(graph, L, graph.nodes)) <= Satisfied(x, graph.red)
<1> DEFINE g == Preprocess(graph)  parts == Components(g)
           orders == TopologicalOrders(parts, EdgesBetween(parts, g.edges))
<1>1. Graph(g) /\ g.nodes = graph.nodes  BY PreprocessGraph
<1>2. SatisfyingOrders(graph) = UNION {Joined(g, o) : o \in orders}
  BY SatisfyingOrdersAre
<1>3. g.edges \subseteq graph.edges /\ g.red \subseteq graph.red  BY DEF Preprocess, Graph
<1>4. ConsecutiveRed(graph, L, graph.nodes) = ConsecutiveRed(g, L, g.nodes)
  <2>1. \A e \in graph.red : Consecutive(L, graph.nodes, e[1], e[2]) => e \in g.red
    BY ConsecutiveKept
  <2> HIDE DEF g
  <2> QED  BY <1>1, <1>3, <2>1 DEF ConsecutiveRed
<1> HIDE DEF g
<1>5. /\ IsFiniteSet(g.nodes) /\ g.edges \in SUBSET (g.nodes \X g.nodes)
      /\ g.red \in SUBSET g.edges
  BY <1>1 DEF Graph
<1>6. Partition(parts, g.nodes)
  <2>1. g.red \in SUBSET (g.nodes \X g.nodes)  BY <1>5
  <2> QED  BY <1>5, <2>1, ComponentsPartition
<1>7. \A u, v \in g.nodes : <<u, v>> \in g.red => ClassOf(parts, u) = ClassOf(parts, v)
  BY <1>5, ComponentsHoldRed
<1>8. IsFiniteSet(parts)  BY <1>5, <1>6, PartitionFinite
<1> HIDE DEF parts
<1>9. \A o \in orders : Enumerates(o, parts)
  BY <1>8, TopologicalOrdersAre DEF Ordered
<1> HIDE DEF orders
<1>10. PICK o \in orders : x \in Joined(g, o)  BY <1>2
<1>11. StrictOrder(L, g.nodes) /\ g.edges \subseteq L  BY <1>1, <1>3
<1>12. Cardinality(ConsecutiveRed(g, L, g.nodes)) <= Satisfied(x, g.red)
  BY <1>1, <1>6, <1>7, <1>9, <1>10, <1>11, JoinedBest
<1>13. Satisfied(x, g.red) <= Satisfied(x, graph.red)
  <2> DEFINE B == {e \in g.red : Follows(x, e)}
  <2>1. B \in SUBSET {e \in graph.red : Follows(x, e)}  BY <1>3
  <2>2. Satisfied(x, g.red) = Cardinality(B)  BY DEF Satisfied
  <2> HIDE DEF B
  <2> QED  BY <2>1, <2>2, CountFollowed
<1>14. Satisfied(x, g.red) \in Nat /\ Satisfied(x, graph.red) \in Nat  BY <1>1, CountFollowed
<1>15. Cardinality(ConsecutiveRed(g, L, g.nodes)) \in Nat
  <2>1. IsFiniteSet(g.red)  BY <1>1, CountFollowed
  <2>2. ConsecutiveRed(g, L, g.nodes) \in SUBSET g.red  BY DEF ConsecutiveRed
  <2>3. IsFiniteSet(ConsecutiveRed(g, L, g.nodes))  BY <2>1, <2>2, FS_Subset
  <2> QED  BY <2>3, FS_CardinalityType
<1> QED  BY <1>4, <1>12, <1>13, <1>14, <1>15

(* There is an order. *)

(* A graph without cycles has an order. *)
LEMMA AcyclicOrder ==
  ASSUME NEW S, IsFiniteSet(S), NEW E \in SUBSET (S \X S), Acyclic(S, E)
  PROVE  \E o : Ordered(o, S, E)
<1>1. Closure(Paths(S, E), S, E)  BY PathsAreClosure
<1>2. \A u \in S : <<u, u>> \notin Paths(S, E)  BY DEF Acyclic
<1> QED  BY <1>1, <1>2, OrderExists DEF Closure

(* Of finite sets one is largest. *)
LEMMA LargestOf ==
  ASSUME NEW S, IsFiniteSet(S), NEW Good \in SUBSET SUBSET S, Good # {}
  PROVE  \E T \in Good : \A U \in Good : Cardinality(U) <= Cardinality(T)
<1> DEFINE n == Cardinality(S)  P == {m \in Nat : \E T \in Good : m = n - Cardinality(T)}
<1>1. n \in Nat /\ \A T \in Good : Cardinality(T) \in Nat /\ Cardinality(T) <= n
  BY FS_Subset, FS_CardinalityType
<1>2. \A T \in Good : n - Cardinality(T) \in P
  <2> TAKE T \in Good
  <2>1. n - Cardinality(T) \in Nat  BY <1>1
  <2> QED  BY <2>1
<1>3. \A m \in P : \E T \in Good : m = n - Cardinality(T)  OBVIOUS
<1>4. PICK m \in P : \A k \in P : m <= k
  <2>1. P \in SUBSET Nat /\ P # {}  BY <1>2
  <2> HIDE DEF P
  <2> QED  BY <2>1, LeastOf
<1>5. PICK T \in Good : m = n - Cardinality(T)  BY <1>3
<1> HIDE DEF P, n
<1>6. \A U \in Good : Cardinality(U) <= Cardinality(T)
  <2> TAKE U \in Good
  <2>1. n - Cardinality(T) <= n - Cardinality(U)  BY <1>2, <1>4, <1>5
  <2> QED  BY <1>1, <2>1
<1> QED  BY <1>6

(* Edges that can be satisfied together, if only none.                      *)
LEMMA OptimalOrdersExist ==
  ASSUME NEW g, Graph(g)
  PROVE  OptimalOrders(g) # {}
<1> DEFINE S == g.nodes
           classes(red) == Classes(S, red)
           orders(red) == TopologicalOrders(classes(red), EdgesBetween(classes(red), g.edges))
           expanded(red) == {Expand(x, red) : x \in orders(red)}
           good == {red \in SUBSET g.red : Satisfiable(g, red)}
           best == {red \in good : \A other \in good : Cardinality(other) <= Cardinality(red)}
<1>1. OptimalOrders(g) = UNION {expanded(red) : red \in best}  BY DEF OptimalOrders
<1>2. /\ IsFiniteSet(S) /\ g.edges \in SUBSET (S \X S) /\ Acyclic(S, g.edges)
      /\ g.red \in SUBSET (S \X S)
  BY DEF Graph
<1> HIDE DEF S
<1>3. Satisfiable(g, {})
  <2>1. PICK o : Ordered(o, S, g.edges)  BY <1>2, AcyclicOrder
  <2> DEFINE L == OrderRelation(o, S)  C == Classes(S, {})  R == ClassRelation(C, L)
  <2>2. StrictOrder(L, S) /\ \A u, v \in S : <<u, v>> \in L <=> Before(o, u, v)
    BY <2>1, OrderStrict DEF Ordered
  <2>3. g.edges \subseteq L
    <3> HIDE DEF L
    <3>1. \A u, v \in S : <<u, v>> \in g.edges => <<u, v>> \in L  BY <2>1, <2>2 DEF Ordered
    <3> QED  BY <1>2, <3>1
  <2> HIDE DEF L
  <2>4. AllConsecutive(L, S, {}) /\ {} \in SUBSET (S \X S) /\ S \in SUBSET S
    BY DEF AllConsecutive
  <2>5. StrictOrder(R, C) /\ EdgesBetween(C, g.edges) \in SUBSET R
    BY <1>2, <2>2, <2>3, <2>4, ClassesStrict
  <2>6. IsFiniteSet(C)
    <3>1. Partition(C, S)  BY <1>2, <2>4, ClassesPartition
    <3> HIDE DEF C
    <3> QED  BY <1>2, <3>1, PartitionFinite
  <2>7. Acyclic(C, EdgesBetween(C, g.edges))
    <3> HIDE DEF C, R
    <3> QED  BY <2>5, <2>6, StrictAcyclic
  <2> QED  BY <2>7 DEF Satisfiable, S
<1>4. {} \in good  BY <1>3
<1>5. \E red : red \in best
  <2>1. IsFiniteSet(g.red)  BY CountFollowed
  <2>2. good \in SUBSET SUBSET g.red  OBVIOUS
  <2> HIDE DEF good
  <2>3. \E T \in good : \A U \in good : Cardinality(U) <= Cardinality(T)
    BY <1>4, <2>1, <2>2, LargestOf
  <2> QED  BY <2>3
<1>6. PICK red : red \in best  BY <1>5
<1>7. red \in SUBSET g.red /\ Satisfiable(g, red)  BY <1>6
<1>8. red \in SUBSET (S \X S)  BY <1>2, <1>7
<1>9. Partition(classes(red), S) /\ IsFiniteSet(classes(red))
  <2>1. Partition(classes(red), S)  BY <1>2, <1>8, ClassesPartition
  <2> QED  BY <1>2, <2>1, PartitionFinite
<1>10. EdgesBetween(classes(red), g.edges) \in SUBSET (classes(red) \X classes(red))
  <2> HIDE DEF classes
  <2> QED  BY <1>2, <1>9, EdgesBetweenAre
<1>11. Acyclic(classes(red), EdgesBetween(classes(red), g.edges))
  BY <1>7 DEF Satisfiable, S
<1>12. PICK x : x \in orders(red)
  <2> HIDE DEF classes
  <2>1. \E o : Ordered(o, classes(red), EdgesBetween(classes(red), g.edges))
    BY <1>9, <1>10, <1>11, AcyclicOrder
  <2> QED  BY <1>9, <2>1, TopologicalOrdersAre
<1>13. Expand(x, red) \in expanded(red)  BY <1>12
<1> HIDE DEF best, expanded
<1> QED  BY <1>1, <1>6, <1>13

(* No cycle runs through several components. *)
LEMMA ComponentsOrder ==
  ASSUME NEW g, IsFiniteSet(g.nodes), g.edges \in SUBSET (g.nodes \X g.nodes), g.red \in SUBSET g.edges
  PROVE  \E o : Ordered(o, Components(g), EdgesBetween(Components(g), g.edges))
<1> DEFINE S == g.nodes  E == g.edges \cup Reversed(g.red)  P == Paths(S, E)
           C == Components(g)
           Q == {p \in C \X C : p[1] # p[2] /\ \E u \in p[1], v \in p[2] : <<u, v>> \in P}
<1>1. g.red \in SUBSET (S \X S)  OBVIOUS
<1>2. Reversed(g.red) \in SUBSET (S \X S)  BY <1>1, ReversedIn
<1>3. E \in SUBSET (S \X S)  BY <1>2
<1>4. Closure(P, S, E)  BY <1>3, PathsAreClosure
<1>5. C = {{y \in S : y = x \/ {<<x, y>>, <<y, x>>} \subseteq P} : x \in S}
  BY DEF Components, Reversed
<1>6. Partition(C, S)  BY <1>1, ComponentsPartition
<1>7. IsFiniteSet(C)  BY <1>6, PartitionFinite
<1>8. g.edges \subseteq P /\ Transitive(P, S)  BY <1>4 DEF Closure
<1> HIDE DEF P, C
<1>9. \A u, v \in S : <<u, v>> \in P /\ <<v, u>> \in P => ClassOf(C, u) = ClassOf(C, v)
  <2> TAKE u, v \in S
  <2> HAVE <<u, v>> \in P /\ <<v, u>> \in P
  <2> DEFINE c == {y \in S : y = u \/ {<<u, y>>, <<y, u>>} \subseteq P}
  <2>1. u \in c /\ v \in c  OBVIOUS
  <2>2. c \in C  BY <1>5
  <2> HIDE DEF c
  <2>3. c = ClassOf(C, u) /\ c = ClassOf(C, v)  BY <1>6, <2>1, <2>2, PartitionClass
  <2> QED  BY <2>3
<1>10. \A c \in C : \A u, v \in c : u \in S /\ v \in S /\ (u = v \/ {<<u, v>>, <<v, u>>} \subseteq P)
  <2> TAKE c \in C
  <2> TAKE u, v \in c
  <2>1. PICK x \in S : c = {y \in S : y = x \/ {<<x, y>>, <<y, x>>} \subseteq P}  BY <1>5
  <2>2. u \in S /\ v \in S /\ x \in S  BY <2>1
  <2>3. (u = x \/ {<<x, u>>, <<u, x>>} \subseteq P) /\ (v = x \/ {<<x, v>>, <<v, x>>} \subseteq P)
    BY <2>1
  <2> QED  BY <1>8, <2>2, <2>3 DEF Transitive
<1>11. \A c, d \in C : <<c, d>> \in Q <=> c # d /\ \E u \in c, v \in d : <<u, v>> \in P
  OBVIOUS
<1>12. \A c, d \in C : <<c, d>> \in Q => \A u \in c, v \in d : <<u, v>> \in P /\ <<v, u>> \notin P
  <2> TAKE c, d \in C
  <2> HAVE <<c, d>> \in Q
  <2> TAKE u \in c, v \in d
  <2>1. PICK x \in c, y \in d : <<x, y>> \in P  BY <1>11
  <2>2. /\ u \in S /\ x \in S /\ (u = x \/ <<u, x>> \in P)
        /\ v \in S /\ y \in S /\ (y = v \/ <<y, v>> \in P)
    BY <1>10
  <2>3. <<u, y>> \in P  BY <1>8, <2>1, <2>2 DEF Transitive
  <2>4. <<u, v>> \in P  BY <1>8, <2>2, <2>3 DEF Transitive
  <2>5. c # d  BY <1>11
  <2>6. <<v, u>> \notin P
    <3>1. SUFFICES ASSUME <<v, u>> \in P PROVE FALSE  OBVIOUS
    <3>2. ClassOf(C, u) = ClassOf(C, v)  BY <1>9, <2>2, <2>4, <3>1
    <3>3. c = ClassOf(C, u) /\ d = ClassOf(C, v)  BY <1>6, <2>2, PartitionClass
    <3> QED  BY <2>5, <3>2, <3>3
  <2> QED  BY <2>4, <2>6
<1>13. Q \in SUBSET (C \X C)  OBVIOUS
<1> HIDE DEF Q
<1>14. \A c \in C : \E u \in c : u \in S
  <2> HIDE DEF S, E
  <2>1. \A c \in C : c # {} /\ c \in SUBSET S  BY <1>6 DEF Partition
  <2> QED  BY <2>1
<1>15. Transitive(Q, C)
  <2> SUFFICES ASSUME NEW c \in C, NEW d \in C, NEW e \in C, <<c, d>> \in Q, <<d, e>> \in Q
               PROVE  <<c, e>> \in Q
    BY DEF Transitive
  <2>1. PICK u \in c : u \in S  BY <1>14
  <2>2. PICK v \in d : v \in S  BY <1>14
  <2>3. PICK w \in e : w \in S  BY <1>14
  <2>4. <<u, v>> \in P /\ <<v, w>> \in P /\ <<v, u>> \notin P  BY <1>12
  <2>5. <<u, w>> \in P  BY <1>8, <2>1, <2>2, <2>3, <2>4 DEF Transitive
  <2>6. c # e
    <3>1. SUFFICES ASSUME c = e PROVE FALSE  OBVIOUS
    <3>2. <<v, u>> \in P  BY <1>12, <3>1
    <3> QED  BY <2>4, <3>2
  <2> QED  BY <1>11, <2>5, <2>6
<1>16. \A c \in C : <<c, c>> \notin Q  BY <1>11
<1>17. \A c, d \in C : <<c, d>> \in EdgesBetween(C, g.edges) => <<c, d>> \in Q
  <2> TAKE c, d \in C
  <2> HAVE <<c, d>> \in EdgesBetween(C, g.edges)
  <2>1. \A p \in EdgesBetween(C, g.edges) : \E u, v \in S :
           <<u, v>> \in g.edges /\ p = <<ClassOf(C, u), ClassOf(C, v)>> /\ ClassOf(C, u) # ClassOf(C, v)
    <3>1. g.edges \in SUBSET (S \X S)  OBVIOUS
    <3> HIDE DEF S, E
    <3> DEFINE H == g.edges
    <3> HIDE DEF H
    <3>2. H \in SUBSET (S \X S)  BY <3>1 DEF H
    <3>3. \A p \in EdgesBetween(C, H) : \E u, v \in S :
             <<u, v>> \in H /\ p = <<ClassOf(C, u), ClassOf(C, v)>> /\ ClassOf(C, u) # ClassOf(C, v)
      BY ONLY <1>6, <3>2, EdgesBetweenAre
    <3> QED  BY <3>3 DEF H
  <2>2. PICK u \in S, v \in S : /\ <<u, v>> \in g.edges
                                /\ <<c, d>> = <<ClassOf(C, u), ClassOf(C, v)>>
                                /\ ClassOf(C, u) # ClassOf(C, v)
    BY <2>1
  <2>3. c = ClassOf(C, u) /\ d = ClassOf(C, v)  BY <2>2
  <2>4. u \in c /\ v \in d  BY <1>6, <2>3, PartitionClass
  <2> QED  BY <1>8, <1>11, <2>2, <2>3, <2>4
<1> QED  BY <1>7, <1>15, <1>16, <1>17, OrderExists DEF C

(* Components' orders can be joined. *)
LEMMA JoinedExist ==
  ASSUME NEW g, Graph(g), NEW C, Partition(C, g.nodes), NEW o, Enumerates(o, C)
  PROVE  Joined(g, o) # {}
<1> DEFINE n == Len(o)  S == g.nodes
<1>1. n \in Nat /\ o \in Seq(C) /\ \A k \in 1 .. n : o[k] \in C  BY DEF Enumerates
<1>2. \A c \in C : c \in SUBSET S  BY DEF Partition
<1>3. ASSUME NEW c \in C PROVE PartOrders(g, c) # {} /\ PartOrders(g, c) \in SUBSET Seq(S)
  <2> DEFINE s == Subgraph(g, c)
  <2>1. c \in SUBSET S  BY <1>2
  <2>2. Graph(s) /\ s.nodes = c  BY <2>1, SubgraphGraph
  <2>3. PartOrders(g, c) = OptimalOrders(Preprocess(s))  BY DEF PartOrders
  <2> HIDE DEF s
  <2>4. Graph(Preprocess(s)) /\ Preprocess(s).nodes = c  BY <2>2, PreprocessGraph
  <2>5. OptimalOrders(Preprocess(s)) # {}  BY <2>4, OptimalOrdersExist
  <2>6. ASSUME NEW p \in OptimalOrders(Preprocess(s)) PROVE p \in Seq(S)
    <3>1. Ordered(p, c, Preprocess(s).edges)  BY <2>4, OptimalOrdersOrdered
    <3>2. p \in Seq(c)  BY <3>1 DEF Ordered, Enumerates
    <3> HIDE DEF S
    <3> QED  BY <2>1, <3>2
  <2> QED  BY <2>3, <2>5, <2>6
<1> HIDE DEF S
<1>4. PICK f : JoinTable(g, S, o, f)
  <2>1. o \in Seq(C) /\ \A c \in C : PartOrders(g, c) \in SUBSET Seq(S)  BY <1>1, <1>3
  <2> QED  BY <2>1, JoinedTable
<1>7. /\ f[0] = {<<>>} /\ f[n] = Joined(g, o)
      /\ \A k \in 1 .. n : \A y :
           y \in f[k] <=> \E q \in f[k - 1], p \in PartOrders(g, o[k]) : y = q \o p
  BY <1>4 DEF JoinTable
<1> DEFINE Bad == {k \in Nat : k <= n /\ f[k] = {}}
<1>5. ASSUME Bad # {} PROVE FALSE
  <2>1. PICK k \in Bad : \A j \in Bad : k <= j
    <3>1. Bad \in SUBSET Nat  OBVIOUS
    <3> HIDE DEF Bad
    <3> QED  BY <1>5, <3>1, LeastOf
  <2>2. k \in Nat /\ k <= n /\ f[k] = {}  BY <2>1
  <2>3. k # 0  BY <1>7, <2>2
  <2>4. k - 1 \in Nat /\ k - 1 <= n /\ ~(k <= k - 1) /\ k \in 1 .. n  BY <1>1, <2>2, <2>3
  <2>5. PICK q : q \in f[k - 1]  BY <2>1, <2>4
  <2>6. PICK p : p \in PartOrders(g, o[k])  BY <1>1, <1>3, <2>4
  <2> DEFINE y == q \o p
  <2>7. y \in f[k]
    <3>1. y = q \o p  OBVIOUS
    <3> HIDE DEF y, Bad
    <3> QED  BY <1>7, <2>4, <2>5, <2>6, <3>1
  <2> QED  BY <2>2, <2>7
<1>6. f[n] # {}  BY <1>1, <1>5
<1> QED  BY <1>6, <1>7

(* topological_order() finds an order. *)
LEMMA SatisfyingOrdersExist ==
  ASSUME NEW graph, Graph(graph)
  PROVE  SatisfyingOrders(graph) # {}
<1> DEFINE g == Preprocess(graph)  parts == Components(g)
           orders == TopologicalOrders(parts, EdgesBetween(parts, g.edges))
<1>1. Graph(g)  BY PreprocessGraph
<1>2. SatisfyingOrders(graph) = UNION {Joined(g, o) : o \in orders}
  BY SatisfyingOrdersAre
<1> HIDE DEF g
<1>3. /\ IsFiniteSet(g.nodes) /\ g.edges \in SUBSET (g.nodes \X g.nodes)
      /\ g.red \in SUBSET g.edges
  BY <1>1 DEF Graph
<1>4. Partition(parts, g.nodes)
  <2>1. g.red \in SUBSET (g.nodes \X g.nodes)  BY <1>3
  <2> QED  BY <1>3, <2>1, ComponentsPartition
<1>5. IsFiniteSet(parts)  BY <1>3, <1>4, PartitionFinite
<1>6. PICK o : Ordered(o, parts, EdgesBetween(parts, g.edges))  BY <1>3, ComponentsOrder
<1> HIDE DEF parts
<1>7. o \in orders  BY <1>5, <1>6, TopologicalOrdersAre
<1> HIDE DEF orders
<1>8. Joined(g, o) # {}  BY <1>1, <1>4, <1>6, JoinedExist DEF Ordered
<1> QED  BY <1>2, <1>7, <1>8

-----------------------------------------------------------------------------
(* What the order of the classes satisfies, once expanded. *)

(* A class has one node that no pair leaves, and one that none enters.      *)
LEMMA ClassEnds ==
  ASSUME NEW S, IsFiniteSet(S), NEW E \in SUBSET (S \X S), Single(E),
         NEW c \in Classes(S, E), NEW u \in c, NEW v \in c
  PROVE  /\ (\A w \in S : <<u, w>> \notin E) => u = v \/ <<v, u>> \in Paths(S, E)
         /\ (\A w \in S : <<u, w>> \notin E /\ <<v, w>> \notin E) => u = v
         /\ (\A w \in S : <<w, u>> \notin E /\ <<w, v>> \notin E) => u = v
<1> DEFINE P == Paths(S, E)  C == Classes(S, E)
<1>1. Closure(P, S, E)  BY PathsAreClosure
<1>2. Comparable(P, u, v)  BY ClassIsPath
<1>3. u \in S /\ v \in S
  <2>1. Partition(C, S) /\ c \in C  BY ClassesPartition
  <2> HIDE DEF C
  <2> QED  BY <2>1 DEF Partition
<1> HIDE DEF P, C
<1>4. \A x, y \in S : <<x, y>> \in P => \E w \in S : <<x, w>> \in E
  <2> TAKE x, y \in S
  <2> HAVE <<x, y>> \in P
  <2>1. <<x, y>> \in E \/ \E w \in S : <<x, w>> \in E /\ <<w, y>> \in P  BY <1>1, FirstEdge
  <2> QED  BY <2>1
<1>5. \A x, y \in S : <<x, y>> \in P => \E w \in S : <<w, y>> \in E
  <2> TAKE x, y \in S
  <2> HAVE <<x, y>> \in P
  <2>1. <<x, y>> \in E \/ \E w \in S : <<x, w>> \in P /\ <<w, y>> \in E  BY <1>1, LastEdge
  <2> QED  BY <2>1
<1>6. (\A w \in S : <<u, w>> \notin E) => u = v \/ <<v, u>> \in P
  BY <1>2, <1>3, <1>4 DEF Comparable
<1>7. (\A w \in S : <<u, w>> \notin E /\ <<v, w>> \notin E) => u = v
  BY <1>2, <1>3, <1>4 DEF Comparable
<1>8. (\A w \in S : <<w, u>> \notin E /\ <<w, v>> \notin E) => u = v
  BY <1>2, <1>3, <1>5 DEF Comparable
<1> QED  BY <1>6, <1>7, <1>8 DEF P

Apart(W, E) == \A e \in W, f \in E : e[1] # f[1] /\ e[2] # f[2]

(* What follows in an order of the nodes is consecutive in that of classes. *)
LEMMA FollowedClasses ==
  ASSUME NEW S, IsFiniteSet(S), NEW L, StrictOrder(L, S),
         NEW E \in SUBSET (S \X S), AllConsecutive(L, S, E),
         NEW W \in SUBSET (S \X S), Apart(W, E),
         NEW A \in SUBSET W, AllConsecutive(L, S, A),
         NEW T, IsFiniteSet(T),
         \A u, v \in S :
           <<u, v>> \in A /\ Consecutive(ClassRelation(Classes(S, E), L), Classes(S, E),
                                         ClassOf(Classes(S, E), u), ClassOf(Classes(S, E), v))
                          /\ ClassOf(Classes(S, E), u) # ClassOf(Classes(S, E), v)
           => <<ClassOf(Classes(S, E), u), ClassOf(Classes(S, E), v)>> \in T
  PROVE  Cardinality(A) <= Cardinality(T)
<1> DEFINE C == Classes(S, E)  R == ClassRelation(C, L)
           f == [e \in A |-> <<ClassOf(C, e[1]), ClassOf(C, e[2])>>]
<1>1. Partition(C, S)  BY ClassesPartition
<1>2. Single(E)  BY ConsecutiveSingle
<1>3. \A c \in C : \A u, v \in c :
        /\ (\A w \in S : <<u, w>> \notin E) => u = v \/ <<v, u>> \in Paths(S, E)
        /\ (\A w \in S : <<u, w>> \notin E /\ <<v, w>> \notin E) => u = v
        /\ (\A w \in S : <<w, u>> \notin E /\ <<w, v>> \notin E) => u = v
  BY <1>2, ClassEnds
<1>14. \A c \in C : \A u, v \in c :
         (\A w \in S : <<u, w>> \notin E /\ <<v, w>> \notin E) => u = v
  BY <1>3
<1>15. \A c \in C : \A u, v \in c :
         (\A w \in S : <<w, u>> \notin E /\ <<w, v>> \notin E) => u = v
  BY <1>3
<1>4. Paths(S, E) \subseteq L
  <2>1. Closure(Paths(S, E), S, E)  BY PathsAreClosure
  <2>2. E \subseteq L
    <3>1. \A u, v \in S : <<u, v>> \in E => <<u, v>> \in L  BY DEF AllConsecutive, Consecutive
    <3> QED  BY <3>1
  <2> QED  BY <2>1, <2>2 DEF Closure, StrictOrder
<1>5. \A u, v \in S : Consecutive(L, S, u, v) /\ ClassOf(C, u) # ClassOf(C, v)
                        => Consecutive(R, C, ClassOf(C, u), ClassOf(C, v))
  <2>1. S \in SUBSET S  OBVIOUS
  <2> QED  BY <2>1, ClassesStrict
<1>6. \A u, v \in S :
        /\ <<u, v>> \in A /\ Consecutive(R, C, ClassOf(C, u), ClassOf(C, v))
        /\ ClassOf(C, u) # ClassOf(C, v)
        => <<ClassOf(C, u), ClassOf(C, v)>> \in T
  OBVIOUS
<1> HIDE DEF C, R
<1>7. \A u \in S : ClassOf(C, u) \in C /\ u \in ClassOf(C, u)  BY <1>1, PartitionClass
<1>8. \A u, v \in S : <<u, v>> \in W => \A w \in S : <<u, w>> \notin E /\ <<w, v>> \notin E
  <2> TAKE u, v \in S
  <2> HAVE <<u, v>> \in W
  <2> TAKE w \in S
  <2>1. \A e \in E : u # e[1] /\ v # e[2]  BY DEF Apart
  <2> QED  BY <2>1
<1>9. ASSUME NEW u \in S, NEW v \in S, <<u, v>> \in A
      PROVE  <<ClassOf(C, u), ClassOf(C, v)>> \in T
  <2>1. Consecutive(L, S, u, v) /\ <<u, v>> \in W  BY <1>9 DEF AllConsecutive
  <2>2. ClassOf(C, u) # ClassOf(C, v)
    <3>1. SUFFICES ASSUME ClassOf(C, u) = ClassOf(C, v) PROVE FALSE  OBVIOUS
    <3>2. u = v \/ <<v, u>> \in L  BY <1>3, <1>4, <1>7, <1>8, <2>1, <3>1
    <3>3. <<u, v>> \in L  BY <2>1 DEF Consecutive
    <3> QED  BY <3>2, <3>3 DEF StrictOrder, Transitive
  <2> QED  BY <1>5, <1>6, <1>9, <2>1, <2>2
<1>10. ASSUME NEW a \in A, NEW b \in A, f[a] = f[b] PROVE a = b
  <2>1. PICK u \in S, v \in S : a = <<u, v>>  OBVIOUS
  <2>2. PICK x \in S, y \in S : b = <<x, y>>  OBVIOUS
  <2>3. ClassOf(C, u) = ClassOf(C, x) /\ ClassOf(C, v) = ClassOf(C, y)  BY <1>10, <2>1, <2>2
  <2>4. \A w \in S : <<u, w>> \notin E /\ <<x, w>> \notin E /\ <<w, v>> \notin E /\ <<w, y>> \notin E
    BY <1>8, <2>1, <2>2
  <2>5. u = x
    <3>1. PICK c \in C : u \in c /\ x \in c  BY <1>7, <2>3
    <3> HIDE DEF f
    <3> QED  BY <1>14, <2>4, <3>1
  <2>6. v = y
    <3>1. PICK c \in C : v \in c /\ y \in c  BY <1>7, <2>3
    <3> HIDE DEF f
    <3> QED  BY <1>15, <2>4, <3>1
  <2> QED  BY <2>1, <2>2, <2>5, <2>6
<1>11. \A e \in A : f[e] \in T
  <2> TAKE e \in A
  <2>1. PICK u \in S, v \in S : e = <<u, v>>  OBVIOUS
  <2> QED  BY <1>9, <2>1
<1>12. f \in [A -> T]  BY <1>11
<1> HIDE DEF f
<1>13. f \in Injection(A, T)  BY <1>10, <1>12 DEF Injection, IsInjective
<1> QED  BY <1>13, FS_Injection

(* What the order of classes satisfies, the expanded order satisfies.       *)
LEMMA ExpandedFollows ==
  ASSUME NEW S, IsFiniteSet(S), NEW F \in SUBSET (S \X S), Acyclic(S, F),
         NEW E \in SUBSET F, Single(E), NEW W \in SUBSET F, Apart(W, E),
         NEW x, Enumerates(x, Classes(S, E))
  PROVE  Satisfied(x, EdgesBetween(Classes(S, E), W)) <= Satisfied(Expand(x, E), W)
<1> DEFINE C == Classes(S, E)  order == Expand(x, E)
           A == {r \in EdgesBetween(C, W) : Follows(x, r)}
           T == {e \in W : Follows(order, e)}
           from(r) == CHOOSE e \in T : r = <<ClassOf(C, e[1]), ClassOf(C, e[2])>>
           f == [r \in A |-> from(r)]
<1>1. W \in SUBSET (S \X S) /\ E \in SUBSET (S \X S)  OBVIOUS
<1>2. Partition(C, S)  BY <1>1, ClassesPartition
<1>3. \A c, d : Follows(x, <<c, d>>) =>
         \A u \in c, v \in d :
           (\A w \in S : <<u, w>> \notin E /\ <<w, v>> \notin E) => Follows(order, <<u, v>>)
  BY ExpandFollows
<1> HIDE DEF C, order
<1>4. ASSUME NEW r \in A
      PROVE  \E e \in T : r = <<ClassOf(C, e[1]), ClassOf(C, e[2])>>
  <2>1. r \in EdgesBetween(C, W) /\ Follows(x, r)  OBVIOUS
  <2>2. PICK u \in S, v \in S : <<u, v>> \in W /\ r = <<ClassOf(C, u), ClassOf(C, v)>>
    <3>1. \A p \in EdgesBetween(C, W) : \E u, v \in S :
             <<u, v>> \in W /\ p = <<ClassOf(C, u), ClassOf(C, v)>> /\ ClassOf(C, u) # ClassOf(C, v)
      <4>1. W \in SUBSET (S \X S)  BY <1>1
      <4> HIDE DEF A, T, f, from
      <4> QED  BY ONLY <1>2, <4>1, EdgesBetweenAre
    <3> QED  BY <2>1, <3>1
  <2>3. u \in ClassOf(C, u) /\ v \in ClassOf(C, v)  BY <1>2, PartitionClass
  <2>4. \A w \in S : <<u, w>> \notin E /\ <<w, v>> \notin E
    <3> TAKE w \in S
    <3>1. \A e \in E : u # e[1] /\ v # e[2]  BY <2>2 DEF Apart
    <3> QED  BY <3>1
  <2>5. Follows(order, <<u, v>>)
    <3> DEFINE c == ClassOf(C, u)  d == ClassOf(C, v)
    <3>1. Follows(x, <<c, d>>) /\ u \in c /\ v \in d  BY <2>1, <2>2, <2>3
    <3> HIDE DEF c, d, A, T, f
    <3> QED  BY <1>3, <2>4, <3>1
  <2>6. <<u, v>> \in T  BY <2>2, <2>5
  <2> HIDE DEF T
  <2> QED  BY <2>2, <2>6
<1> HIDE DEF A, T
<1>5. \A r \in A : from(r) \in T /\ r = <<ClassOf(C, from(r)[1]), ClassOf(C, from(r)[2])>>
  BY <1>4
<1> HIDE DEF from
<1>6. f \in [A -> T]  BY <1>5
<1>7. \A r, s \in A : f[r] = f[s] => r = s  
  <2> TAKE r, s \in A
  <2> HAVE f[r] = f[s]
  <2>1. from(r) = from(s)  OBVIOUS
  <2> HIDE DEF f
  <2> QED  BY <1>5, <2>1
<1> HIDE DEF f
<1>8. f \in Injection(A, T)  BY <1>6, <1>7 DEF Injection, IsInjective
<1>9. IsFiniteSet(T)
  <2>1. IsFiniteSet(S \X S)  BY FS_Product
  <2>2. T \in SUBSET (S \X S)  BY <1>1 DEF T
  <2> QED  BY <2>1, <2>2, FS_Subset
<1>10. Cardinality(A) <= Cardinality(T)  BY <1>8, <1>9, FS_Injection
<1> QED  BY <1>10 DEF Satisfied, A, T, C, order

(* No order that keeps green edges together satisfies more red ones than    *)
(* the expanded order.                                                      *)
LEMMA ExpandedBest ==
  ASSUME NEW S, IsFiniteSet(S), NEW F \in SUBSET (S \X S), Acyclic(S, F),
         NEW E \in SUBSET F, Single(E), NEW W \in SUBSET F, Apart(W, E),
         NEW g, Graph(g), g.nodes = Classes(S, E), g.red = EdgesBetween(Classes(S, E), W),
         g.edges \subseteq EdgesBetween(Classes(S, E), F),
         NEW x \in SatisfyingOrders(g),
         NEW o, Ordered(o, S, F), \A e \in E : Follows(o, e)
  PROVE  Satisfied(o, W) <= Satisfied(Expand(x, E), W)
<1> DEFINE C == Classes(S, E)  L == OrderRelation(o, S)  R == ClassRelation(C, L)
           A == {e \in W : Follows(o, e)}  T == ConsecutiveRed(g, R, C)
<1>1. /\ E \in SUBSET (S \X S) /\ W \in SUBSET (S \X S) /\ A \in SUBSET W
      /\ A \in SUBSET (S \X S)
  OBVIOUS
<1>2. Partition(C, S) /\ IsFiniteSet(C)  BY <1>1, ClassesPartition, PartitionFinite
<1>3. /\ StrictOrder(L, S)
      /\ \A u, v \in S : <<u, v>> \in L <=> Before(o, u, v)
      /\ \A u, v : Follows(o, <<u, v>>) => u \in S /\ v \in S /\ Consecutive(L, S, u, v)
  BY OrderStrict DEF Ordered
<1>4. \A e \in A : Follows(o, e)  OBVIOUS
<1>5. Satisfied(o, W) = Cardinality(A)  BY DEF Satisfied
<1> HIDE DEF L, A
<1>6. F \subseteq L
  <2>1. \A u, v \in S : <<u, v>> \in F => <<u, v>> \in L  BY <1>3 DEF Ordered
  <2> QED  BY <2>1
<1>7. AllConsecutive(L, S, E) /\ AllConsecutive(L, S, A)  BY <1>3, <1>4 DEF AllConsecutive
<1>8. StrictOrder(R, C) /\ EdgesBetween(C, F) \subseteq R
  <2>1. S \in SUBSET S  OBVIOUS
  <2> QED  BY <1>1, <1>3, <1>6, <1>7, <2>1, ClassesStrict
<1>9. g.nodes = C /\ g.edges \subseteq R /\ g.red = EdgesBetween(C, W)  BY <1>8
<1> HIDE DEF C, R
<1>10. Cardinality(T) <= Satisfied(x, g.red)
  BY <1>8, <1>9, SatisfyingOrdersAreBest
<1>11. IsFiniteSet(T) /\ Cardinality(T) \in Nat
  <2>1. IsFiniteSet(g.red)  BY CountFollowed
  <2>2. T \in SUBSET g.red  BY DEF ConsecutiveRed
  <2> QED  BY <2>1, <2>2, FS_Subset, FS_CardinalityType
<1>12. Cardinality(A) <= Cardinality(T)
  <2>1. ASSUME NEW u \in S, NEW v \in S, <<u, v>> \in A,
               Consecutive(R, C, ClassOf(C, u), ClassOf(C, v)), ClassOf(C, u) # ClassOf(C, v)
        PROVE  <<ClassOf(C, u), ClassOf(C, v)>> \in T
    <3>1. <<u, v>> \in W  BY <1>1, <2>1
    <3>2. \A y, z \in S : <<y, z>> \in W /\ ClassOf(C, y) # ClassOf(C, z)
                            => <<ClassOf(C, y), ClassOf(C, z)>> \in EdgesBetween(C, W)
      BY <1>1, <1>2, EdgesBetweenAre
    <3>3. <<ClassOf(C, u), ClassOf(C, v)>> \in g.red  BY <1>9, <2>1, <3>1, <3>2
    <3> QED  BY <2>1, <3>3 DEF ConsecutiveRed
  <2> HIDE DEF T
  <2>2. \A u, v \in S :
           /\ <<u, v>> \in A /\ Consecutive(R, C, ClassOf(C, u), ClassOf(C, v))
           /\ ClassOf(C, u) # ClassOf(C, v)
           => <<ClassOf(C, u), ClassOf(C, v)>> \in T
    BY <2>1
  <2> QED  BY <1>1, <1>3, <1>7, <1>11, <2>2, FollowedClasses DEF R, C
<1>13. Satisfied(x, g.red) <= Satisfied(Expand(x, E), W)
  <2>1. Ordered(x, g.nodes, g.edges)  BY SatisfyingOrdersOrdered
  <2>2. Enumerates(x, C)  BY <1>9, <2>1 DEF Ordered
  <2> QED  BY <1>9, <2>2, ExpandedFollows DEF C
<1>14. /\ Cardinality(A) \in Nat /\ Satisfied(x, g.red) \in Nat
       /\ Satisfied(Expand(x, E), W) \in Nat
  <2>1. IsFiniteSet(S \X S)  BY FS_Product
  <2>2. IsFiniteSet(W)  BY <1>1, <2>1, FS_Subset
  <2> DEFINE B == {e \in W : Follows(Expand(x, E), e)}
  <2>3. B \in SUBSET W /\ Satisfied(Expand(x, E), W) = Cardinality(B)  BY DEF Satisfied
  <2> HIDE DEF B
  <2>4. IsFiniteSet(A) /\ IsFiniteSet(B)  BY <1>1, <2>2, <2>3, FS_Subset
  <2> QED  BY <2>3, <2>4, CountFollowed, FS_CardinalityType
<1> QED  BY <1>5, <1>10, <1>11, <1>12, <1>13, <1>14

(* What get_phases() makes of the relations. *)
LEMMA PlanFacts ==
  ASSUME NEW nodes, NEW all, IsFiniteSet(all), Partition(all, nodes),
         NEW rels, AllWithin(rels, nodes), NEW evacuable,
         NEW g, g = ClassGraph(all, rels, evacuable),
         NEW F, F = PhaseEdges(all, Depending(rels)),
         NEW green, green = PhaseEdges(all, GreenRelations(all, rels, evacuable)),
         NEW red, red = PhaseEdges(all, RedRelations(all, rels, evacuable))
  PROVE  /\ F \in SUBSET (all \X all) /\ green \in SUBSET F /\ red \in SUBSET F
         /\ ~GreenConflict(all, GreenRelations(all, rels, evacuable)) => Single(green)
         /\ g = [nodes |-> g.nodes, edges |-> g.edges, red |-> g.red]
         /\ g.nodes = Classes(all, green) /\ g.red = EdgesBetween(Classes(all, green), red)
         /\ g.red \subseteq g.edges
         /\ g.edges = EdgesBetween(Classes(all, green), F)
         /\ g.edges \in SUBSET (g.nodes \X g.nodes)
<1> DEFINE G == GreenRelations(all, rels, evacuable)
           R == RedRelations(all, rels, evacuable)
           B == BlackRelations(all, rels)
           D == Depending(rels)
           black == PhaseEdges(all, B)
           C == Classes(all, green)
<1>1. AllWithin(G, nodes) /\ AllWithin(R, nodes) /\ AllWithin(B, nodes) /\ AllWithin(D, nodes)
  BY RelationsWithin
<1>2. \A r : r \in G \/ r \in R \/ r \in B => r \in D
  BY DEF GreenRelations, RedRelations, BlackRelations, Depending, Dependencies
<1>3. ~GreenConflict(all, G) => Single(green)  BY <1>1, GreenSingle
<1>4. /\ g.nodes = C /\ g.red = EdgesBetween(C, red)
      /\ g.edges = EdgesBetween(C, red) \cup EdgesBetween(C, black)
      /\ g = [nodes |-> g.nodes, edges |-> g.edges, red |-> g.red]
  BY DEF ClassGraph
<1> HIDE DEF G, R, B, D
<1>5. ASSUME NEW Q, AllWithin(Q, nodes), \A r \in Q : r \in D
      PROVE  PhaseEdges(all, Q) \in SUBSET F
  <2>1. SUFFICES ASSUME NEW e \in PhaseEdges(all, Q) PROVE e \in F  OBVIOUS
  <2>2. PICK r \in Q : e = <<ClassOf(all, r.to), ClassOf(all, r.from)>> /\ Between(all, r)
    BY <1>5, PhaseEdgesAre
  <2>3. r \in D  BY <1>5
  <2>4. <<ClassOf(all, r.to), ClassOf(all, r.from)>> \in PhaseEdges(all, D)
    BY <1>1, <2>2, <2>3, PhaseEdgesAre
  <2> QED  BY <2>2, <2>4 DEF D
<1>6. green \in SUBSET F /\ red \in SUBSET F /\ black \in SUBSET F
  <2>1. green = PhaseEdges(all, G) /\ red = PhaseEdges(all, R)  BY DEF G, R
  <2>2. PhaseEdges(all, G) \in SUBSET F  BY <1>1, <1>2, <1>5
  <2>3. PhaseEdges(all, R) \in SUBSET F  BY <1>1, <1>2, <1>5
  <2>4. PhaseEdges(all, B) \in SUBSET F  BY <1>1, <1>2, <1>5
  <2> QED  BY <2>1, <2>2, <2>3, <2>4
<1>7. F \in SUBSET (all \X all)  BY <1>1, PhaseEdgesAre DEF D
<1>8. Partition(C, all)
  <2>1. green \in SUBSET (all \X all)  BY <1>6, <1>7
  <2> QED  BY <2>1, ClassesPartition
<1>9. EdgesBetween(C, F) \subseteq g.edges /\ g.edges \in SUBSET (g.nodes \X g.nodes)
  <2>1. /\ ClassGraph(all, rels, evacuable).edges \in
              SUBSET (ClassGraph(all, rels, evacuable).nodes
                        \X ClassGraph(all, rels, evacuable).nodes)
        /\ EdgesBetween(ClassGraph(all, rels, evacuable).nodes,
                         PhaseEdges(all, Depending(rels)))
              \subseteq ClassGraph(all, rels, evacuable).edges
    BY ClassGraphEdges
  <2> HIDE DEF C
  <2> QED  BY <1>4, <2>1
<1> HIDE DEF black, C
<1>10. ASSUME NEW Q \in SUBSET F PROVE EdgesBetween(C, Q) \subseteq EdgesBetween(C, F)
  <2>1. SUFFICES ASSUME NEW p \in EdgesBetween(C, Q) PROVE p \in EdgesBetween(C, F)  OBVIOUS
  <2>2. Q \in SUBSET (all \X all)  BY <1>7
  <2>3. PICK u \in all, v \in all : /\ <<u, v>> \in Q /\ p = <<ClassOf(C, u), ClassOf(C, v)>>
                                    /\ ClassOf(C, u) # ClassOf(C, v)
    BY <1>8, <2>2, EdgesBetweenAre
  <2>4. <<u, v>> \in F  BY <2>3
  <2> QED  BY <1>7, <1>8, <2>3, <2>4, EdgesBetweenAre
<1>11. g.edges \subseteq EdgesBetween(C, F)  BY <1>4, <1>6, <1>10
<1>12. g.red \subseteq g.edges  BY <1>4
<1>13. g.edges = EdgesBetween(C, F)  BY <1>9, <1>11
<1> QED  BY <1>3, <1>4, <1>6, <1>7, <1>9, <1>12, <1>13 DEF C, G

(* get_phases(): the order it chooses respects the dependencies and keeps   *)
(* green edges together, and if no red edge leaves or enters a phase that a *)
(* green edge leaves or enters, no such order lets more red edges' phases   *)
(* follow one another.                                                      *)
THEOREM PlannedOrdersAreBest ==
  ASSUME NEW nodes, IsFiniteSet(nodes), NEW rels, AllWithin(rels, nodes), NEW evacuable,
         NEW all, all = PhaseSets(nodes, rels),
         NEW F, F = PhaseEdges(all, Depending(rels)), Acyclic(all, F),
         NEW green, green = PhaseEdges(all, GreenRelations(all, rels, evacuable)),
         NEW red, red = PhaseEdges(all, RedRelations(all, rels, evacuable)),
         NEW order \in PlannedOrders(nodes, rels, evacuable)
  PROVE  /\ order \in ValidOrders(all, F, green)
         /\ Apart(red, green) => \A o \in ValidOrders(all, F, green) :
                                   Satisfied(o, red) <= Satisfied(order, red)
<1> DEFINE g == ClassGraph(all, rels, evacuable)
<1>1. Partition(all, nodes) /\ IsFiniteSet(all)  BY PhaseSetsPartition
<1>2. /\ ~GreenConflict(all, GreenRelations(all, rels, evacuable))
      /\ Acyclic(g.nodes, g.edges)
      /\ \E x \in SatisfyingOrders(g) : order = Expand(x, green)
  BY PlannedOrdersExpand
<1>3. g = ClassGraph(all, rels, evacuable)  OBVIOUS
<1> HIDE DEF g
<1>4. /\ F \in SUBSET (all \X all) /\ green \in SUBSET F /\ red \in SUBSET F
      /\ Single(green)
      /\ g = [nodes |-> g.nodes, edges |-> g.edges, red |-> g.red]
      /\ g.nodes = Classes(all, green) /\ g.red = EdgesBetween(Classes(all, green), red)
      /\ g.red \subseteq g.edges
      /\ g.edges = EdgesBetween(Classes(all, green), F)
      /\ g.edges \in SUBSET (g.nodes \X g.nodes)
  BY <1>1, <1>2, <1>3, PlanFacts
<1>5. PICK x \in SatisfyingOrders(g) : order = Expand(x, green)  BY <1>2
<1>6. green \in SUBSET (all \X all)  BY <1>4
<1>7. IsFiniteSet(g.nodes)
  <2>1. Partition(g.nodes, all)  BY <1>1, <1>4, <1>6, ClassesPartition
  <2> QED  BY <1>1, <2>1, PartitionFinite
<1>8. Graph(g)  BY <1>2, <1>4, <1>7 DEF Graph
<1>9. Ordered(x, g.nodes, g.edges)  BY <1>8, SatisfyingOrdersOrdered
<1>10. Ordered(order, all, F)
  <2>1. Ordered(x, Classes(all, green), EdgesBetween(Classes(all, green), F))  BY <1>4, <1>9
  <2> QED  BY <1>1, <1>4, <1>5, <2>1, ExpandOrder
<1>11. \A e \in green : Follows(order, e)
  <2>1. Enumerates(x, Classes(all, green))  BY <1>4, <1>9 DEF Ordered
  <2> QED  BY <1>1, <1>4, <1>5, <2>1, ExpandFollows
<1>12. \A o : o \in ValidOrders(all, F, green) <=>
                Ordered(o, all, F) /\ \A e \in green : Follows(o, e)
  BY <1>1, TopologicalOrdersAre DEF ValidOrders
<1>13. ASSUME Apart(red, green), NEW o \in ValidOrders(all, F, green)
       PROVE  Satisfied(o, red) <= Satisfied(order, red)
  <2>1. Ordered(o, all, F) /\ \A e \in green : Follows(o, e)  BY <1>12
  <2>2. g.edges \subseteq EdgesBetween(Classes(all, green), F)  BY <1>4
  <2>3. Satisfied(o, red) <= Satisfied(Expand(x, green), red)
    BY <1>1, <1>4, <1>8, <1>13, <2>1, <2>2, ExpandedBest
  <2> QED  BY <1>5, <2>3
<1> QED  BY <1>10, <1>11, <1>12, <1>13

(* get_phases() throws only if there is no such order, or two green         *)
(* relations meet in a phase.                                               *)
THEOREM OrdersArePlanned ==
  ASSUME NEW nodes, IsFiniteSet(nodes), NEW rels, AllWithin(rels, nodes), NEW evacuable,
         NEW all, all = PhaseSets(nodes, rels),
         NEW F, F = PhaseEdges(all, Depending(rels)),
         NEW green, green = PhaseEdges(all, GreenRelations(all, rels, evacuable)),
         ~GreenConflict(all, GreenRelations(all, rels, evacuable)),
         ValidOrders(all, F, green) # {}
  PROVE  PlannedOrders(nodes, rels, evacuable) # {}
<1> DEFINE g == ClassGraph(all, rels, evacuable)
           red == PhaseEdges(all, RedRelations(all, rels, evacuable))
<1>1. Partition(all, nodes) /\ IsFiniteSet(all)  BY PhaseSetsPartition
<1>2. /\ F \in SUBSET (all \X all) /\ green \in SUBSET F
      /\ Single(green)
      /\ g = [nodes |-> g.nodes, edges |-> g.edges, red |-> g.red]
      /\ g.nodes = Classes(all, green)
      /\ g.red \subseteq g.edges
      /\ g.edges = EdgesBetween(Classes(all, green), F)
      /\ g.edges \in SUBSET (g.nodes \X g.nodes)
  <2>1. red = PhaseEdges(all, RedRelations(all, rels, evacuable))
        /\ g = ClassGraph(all, rels, evacuable)
    OBVIOUS
  <2> HIDE DEF g, red
  <2> QED  BY <1>1, <2>1, PlanFacts
<1>3. PICK o : Ordered(o, all, F) /\ \A e \in green : Follows(o, e)
  BY <1>1, TopologicalOrdersAre DEF ValidOrders
<1>4. g.nodes = Classes(all, green)
      /\ g.edges = EdgesBetween(Classes(all, green), PhaseEdges(all, RedRelations(all, rels, evacuable)))
            \cup EdgesBetween(Classes(all, green), PhaseEdges(all, BlackRelations(all, rels)))
      /\ g = [nodes |-> g.nodes, edges |-> g.edges,
              red |-> EdgesBetween(Classes(all, green), PhaseEdges(all, RedRelations(all, rels, evacuable)))]
  BY DEF ClassGraph
<1> HIDE DEF g
<1> DEFINE L == OrderRelation(o, all)  C == Classes(all, green)  R == ClassRelation(C, L)
<1>5. /\ StrictOrder(L, all)
      /\ \A u, v \in all : <<u, v>> \in L <=> Before(o, u, v)
      /\ \A u, v : Follows(o, <<u, v>>) => u \in all /\ v \in all /\ Consecutive(L, all, u, v)
  BY <1>3, OrderStrict DEF Ordered
<1> HIDE DEF L
<1>6. F \subseteq L
  <2>1. \A u, v \in all : <<u, v>> \in F => <<u, v>> \in L  BY <1>3, <1>5 DEF Ordered
  <2> QED  BY <1>2, <2>1
<1>7. AllConsecutive(L, all, green)  BY <1>3, <1>5 DEF AllConsecutive
<1>8. green \in SUBSET (all \X all)  BY <1>2
<1>9. StrictOrder(R, C) /\ g.edges \in SUBSET R
  <2>1. all \in SUBSET all  OBVIOUS
  <2>2. StrictOrder(R, C) /\ EdgesBetween(C, F) \subseteq R
    BY <1>1, <1>2, <1>5, <1>6, <1>7, <1>8, <2>1, ClassesStrict
  <2> QED  BY <1>2, <2>2
<1>10. IsFiniteSet(C)
  <2>1. Partition(C, all)  BY <1>1, <1>8, ClassesPartition
  <2> HIDE DEF C
  <2> QED  BY <1>1, <2>1, PartitionFinite
<1> HIDE DEF R
<1>11. Acyclic(g.nodes, g.edges)
  <2>1. g.nodes = C  BY <1>2
  <2> HIDE DEF C
  <2> QED  BY <1>9, <1>10, <2>1, StrictAcyclic
<1>12. Acyclic(all, green)
  <2>1. green \in SUBSET L  BY <1>2, <1>6
  <2> QED  BY <1>1, <1>5, <2>1, StrictAcyclic
<1>13. Graph(g)  BY <1>2, <1>10, <1>11 DEF Graph
<1>14. PICK x : x \in SatisfyingOrders(g)  BY <1>13, SatisfyingOrdersExist
<1>15. Expand(x, green) \in PlannedOrders(nodes, rels, evacuable)
  <2> DEFINE classes == Classes(all, green)
             black == EdgesBetween(classes, PhaseEdges(all, BlackRelations(all, rels)))
             reds == EdgesBetween(classes, red)
             graph == [nodes |-> classes, edges |-> reds \cup black, red |-> reds]
             refuses == GreenConflict(all, GreenRelations(all, rels, evacuable))
                          \/ ~Acyclic(all, green) \/ ~Acyclic(classes, reds \cup black)
             found == {Expand(y, green) : y \in SatisfyingOrders(graph)}
  <2>1. PlannedOrders(nodes, rels, evacuable) = IF refuses THEN {} ELSE found
    BY DEF PlannedOrders
  <2>2. g = graph  BY <1>4
  <2>3. ~refuses  BY <1>4, <1>11, <1>12
  <2>4. \A y \in SatisfyingOrders(graph) : Expand(y, green) \in found  OBVIOUS
  <2> HIDE DEF refuses, found, graph
  <2> QED  BY <1>14, <2>1, <2>2, <2>3, <2>4
<1> QED  BY <1>15

-----------------------------------------------------------------------------
(* go_until() with such an order. *)

NodeStates == {"fresh", "prepared", "propagated", "begun", "ended"}

JobPhases == PhaseSets(job.nodes, job.rels)

Planned == Ordered(phases, JobPhases, PhaseEdgesOf(Dependencies))

(* The nodes of the phases before are ended, and those after not yet begun. *)
Progress ==
  \A k \in 1 .. Len(phases) : \A n \in phases[k] :
     /\ k < Current => nodeState[n] = "ended"
     /\ k > Current => nodeState[n] \notin {"begun", "ended"}

(* What the loops visit is the phase's. *)
Visiting ==
  /\ Running => Current \in 1 .. Len(phases)
  /\ pc \in {"propagate", "begin", "end", "resumed"} => todo \in Seq(phases[Current])
  /\ pc \in {"begin", "go", "stopped"} => Enumerates(actors, phases[Current])
  /\ pc \in {"end", "resumed"} =>
       \A n \in phases[Current] :
          nodeState[n] = "ended" \/ \E k \in 1 .. Len(todo) : todo[k] = n

RunInv ==
  /\ job \in Jobs
  /\ i \in Nat \ {0}
  /\ nodeState \in [job.nodes -> NodeStates]
  /\ pc \in {"init", "refused"} => \A n \in job.nodes : nodeState[n] = "fresh"
  /\ pc = "init" => i = 1
  /\ ~DependsOnItself /\ pc \notin {"init", "refused"} => Planned /\ Progress /\ Visiting

(* What JobAssumption says of the job. *)
LEMMA JobFacts ==
  ASSUME job \in Jobs
  PROVE  /\ IsFiniteSet(job.nodes) /\ AllWithin(job.rels, job.nodes)
         /\ Partition(JobPhases, job.nodes) /\ IsFiniteSet(JobPhases)
<1>1. IsFiniteSet(job.nodes) /\ AllWithin(job.rels, job.nodes)
  BY JobAssumption DEF AllWithin
<1> QED  BY <1>1, PhaseSetsPartition DEF JobPhases

(* PlannedOrdersRespectDependencies, for the job. *)
LEMMA PlansOrdered ==
  ASSUME job \in Jobs, ~DependsOnItself
  PROVE  \A order \in Plans : Ordered(order, JobPhases, PhaseEdgesOf(Dependencies))
<1>1. PhaseEdgesOf(Dependencies) = PhaseEdges(JobPhases, Depending(job.rels))
  BY DEF PhaseEdgesOf, JobPhases, Depending
<1>2. Acyclic(JobPhases, PhaseEdges(JobPhases, Depending(job.rels)))
  BY <1>1 DEF DependsOnItself, JobPhases
<1>3. IsFiniteSet(job.nodes) /\ AllWithin(job.rels, job.nodes)  BY JobFacts
<1>4. \A order \in PlannedOrders(job.nodes, job.rels, job.evacuable) :
        Ordered(order, JobPhases, PhaseEdges(JobPhases, Depending(job.rels)))
  BY <1>2, <1>3, PlannedOrdersRespectDependencies DEF JobPhases
<1> QED  BY <1>1, <1>4 DEF Plans

(* The phases that are planned: which nodes they have, and where a node is. *)
LEMMA OrderFacts ==
  ASSUME NEW order, job \in Jobs, Ordered(order, JobPhases, PhaseEdgesOf(Dependencies))
  PROVE  /\ Len(order) \in Nat
         /\ \A k \in 1 .. Len(order) : /\ order[k] \in JobPhases /\ order[k] \in SUBSET job.nodes
                                       /\ IsFiniteSet(order[k])
         /\ \A j, k \in 1 .. Len(order) : \A n : n \in order[j] /\ n \in order[k] => j = k
         /\ \A n \in job.nodes : \E k \in 1 .. Len(order) : n \in order[k]
<1>1. Partition(JobPhases, job.nodes) /\ IsFiniteSet(job.nodes)  BY JobFacts
<1>2. Enumerates(order, JobPhases)  BY DEF Ordered
<1>3. /\ Len(order) \in Nat /\ \A k \in 1 .. Len(order) : order[k] \in JobPhases
      /\ \A c \in JobPhases : \E k \in 1 .. Len(order) : order[k] = c
      /\ \A j, k \in 1 .. Len(order) : order[j] = order[k] => j = k
  BY <1>2 DEF Enumerates
<1>4. \A c \in JobPhases : IsFiniteSet(c) /\ c \in SUBSET job.nodes  BY <1>1, PartitionFinite
<1>5. ASSUME NEW j \in 1 .. Len(order), NEW k \in 1 .. Len(order), NEW n,
             n \in order[j], n \in order[k]
      PROVE  j = k
  <2>1. order[j] \in JobPhases /\ order[k] \in JobPhases /\ n \in job.nodes
    BY <1>3, <1>4, <1>5
  <2>2. order[j] = order[k]  BY <1>1, <1>5, <2>1 DEF Partition
  <2> QED  BY <1>3, <2>2
<1>6. ASSUME NEW n \in job.nodes PROVE \E k \in 1 .. Len(order) : n \in order[k]
  <2>1. ClassOf(JobPhases, n) \in JobPhases /\ n \in ClassOf(JobPhases, n)
    BY <1>1, PartitionClass
  <2> QED  BY <1>3, <2>1
<1> QED  BY <1>3, <1>4, <1>5, <1>6

(* The job and its plan stay. *)
LEMMA Kept ==
  ASSUME job' = job, phases' = phases
  PROVE  (DependsOnItself' <=> DependsOnItself) /\ (Planned' <=> Planned)
BY DEF DependsOnItself, Planned, JobPhases, PhaseEdgesOf

(* Only nodes of the current phase change. *)
LEMMA ProgressKept ==
  ASSUME job \in Jobs, Planned, Progress, nodeState \in [job.nodes -> NodeStates],
         Current \in 1 .. Len(phases),
         phases' = phases, Current' = Current,
         NEW n \in phases[Current], NEW st \in NodeStates,
         nodeState' = [nodeState EXCEPT ![n] = st]
  PROVE  Progress' /\ nodeState' \in [job.nodes -> NodeStates]
                   /\ nodeState'[n] = st /\ \A m \in job.nodes : m # n => nodeState'[m] = nodeState[m]
<1>1. /\ \A k \in 1 .. Len(phases) : phases[k] \in SUBSET job.nodes
      /\ \A j, k \in 1 .. Len(phases) : \A m : m \in phases[j] /\ m \in phases[k] => j = k
      /\ Len(phases) \in Nat
  BY OrderFacts DEF Planned
<1>2. n \in job.nodes  BY <1>1
<1>3. /\ nodeState' \in [job.nodes -> NodeStates] /\ nodeState'[n] = st
      /\ \A m \in job.nodes : m # n => nodeState'[m] = nodeState[m]
  BY <1>2
<1>4. ASSUME NEW k \in 1 .. Len(phases'), NEW m \in phases'[k]
      PROVE  /\ k < Current' => nodeState'[m] = "ended"
             /\ k > Current' => nodeState'[m] \notin {"begun", "ended"}
  <2>1. k \in 1 .. Len(phases) /\ m \in phases[k] /\ m \in job.nodes  BY <1>1, <1>4
  <2>2. CASE k = Current  BY <1>1, <2>1, <2>2
  <2>3. CASE k # Current
    <3>1. m # n  BY <1>1, <2>1, <2>3
    <3>2. nodeState'[m] = nodeState[m]  BY <1>3, <2>1, <3>1
    <3>3. /\ k < Current => nodeState[m] = "ended"
          /\ k > Current => nodeState[m] \notin {"begun", "ended"}
      BY <2>1 DEF Progress
    <3> QED  BY <3>2, <3>3
  <2> QED  BY <2>2, <2>3
<1> QED  BY <1>3, <1>4 DEF Progress

(* Nothing changes. *)
LEMMA ProgressSame ==
  ASSUME Progress, phases' = phases, Current' = Current, nodeState' = nodeState
  PROVE  Progress'
<1>1. \A k \in 1 .. Len(phases) : \A n \in phases[k] :
         /\ k < Current => nodeState[n] = "ended"
         /\ k > Current => nodeState[n] \notin {"begun", "ended"}
  BY DEF Progress
<1>2. \A k \in 1 .. Len(phases') : \A n \in phases'[k] :
         /\ k < Current' => nodeState'[n] = "ended"
         /\ k > Current' => nodeState'[n] \notin {"begun", "ended"}
  <2> HIDE DEF Current
  <2> QED  BY <1>1
<1> QED  BY <1>2 DEF Progress

(* One lemma per step of the runtime. *)

LEMMA GoInitKeeps == ASSUME RunInv, GoInit PROVE RunInv'
<1>1. PICK order \in Plans :
        /\ phases' = order /\ nodeState' = [n \in job.nodes |-> "prepared"]
        /\ pc' = "top" /\ job' = job /\ i' = i /\ pc = "init"
  BY DEF GoInit
<1>2. job \in Jobs /\ i = 1  BY <1>1 DEF RunInv
<1>3. nodeState' \in [job.nodes -> NodeStates]  BY <1>1 DEF NodeStates
<1>4. ASSUME ~DependsOnItself' PROVE Planned' /\ Progress' /\ Visiting'
  <2>1. ~DependsOnItself  BY <1>1, <1>4 DEF DependsOnItself, PhaseEdgesOf
  <2>2. Ordered(order, JobPhases, PhaseEdgesOf(Dependencies))  BY <1>2, <2>1, PlansOrdered
  <2>3. Planned'  BY <1>1, <2>2 DEF Planned, JobPhases, PhaseEdgesOf
  <2>4. /\ Len(order) \in Nat
        /\ \A k \in 1 .. Len(order) : order[k] \in SUBSET job.nodes
    BY <1>2, <2>2, OrderFacts
  <2>5. Current' = 1  BY <1>1, <1>2 DEF Current
  <2>6. \A k \in 1 .. Len(order) : \A n \in order[k] :
           ~(k < 1) /\ nodeState'[n] = "prepared"
    BY <1>1, <2>4
  <2>7. Progress'  BY <1>1, <2>5, <2>6 DEF Progress
  <2>8. Visiting'  BY <1>1 DEF Visiting, Running
  <2> QED  BY <2>3, <2>7, <2>8
<1> QED  BY <1>1, <1>2, <1>3, <1>4 DEF RunInv

LEMMA RefuseKeeps == ASSUME RunInv, Refuse PROVE RunInv'
<1>1. /\ pc' = "refused" /\ pc = "init" /\ job' = job /\ i' = i /\ nodeState' = nodeState
  BY DEF Refuse
<1> QED  BY <1>1 DEF RunInv

(* What is enough for a step of the runtime while it runs. *)
LEMMA RunningStep ==
  ASSUME RunInv, pc \notin {"init", "refused"}, pc' \notin {"init", "refused"},
         job' = job, phases' = phases, i' \in Nat \ {0},
         nodeState' \in [job.nodes -> NodeStates],
         Planned /\ Progress /\ Visiting => Progress' /\ Visiting'
  PROVE  RunInv'
<1>1. ~DependsOnItself' => Planned' /\ Progress' /\ Visiting'  BY Kept DEF RunInv
<1> QED  BY <1>1 DEF RunInv

LEMMA StartPhaseKeeps == ASSUME RunInv, StartPhase PROVE RunInv'
<1>1. /\ pc = "top" /\ i <= Len(phases) /\ pc' = "propagate"
      /\ todo' \in TopologicalOrders(Phase, ItemFlowEdges(Phase))
      /\ job' = job /\ phases' = phases /\ i' = i /\ actors' = actors /\ nodeState' = nodeState
  BY DEF StartPhase, planVars
<1>2. /\ job \in Jobs /\ i \in Nat \ {0} /\ nodeState \in [job.nodes -> NodeStates]
  BY DEF RunInv
<1>3. ASSUME Planned, Progress, Visiting PROVE Progress' /\ Visiting'
  <2>1. Current = i /\ Current' = i  BY <1>1 DEF Current
  <2>2. Progress'  BY <1>1, <1>3, <2>1, ProgressSame
  <2>3. Len(phases) \in Nat /\ \A k \in 1 .. Len(phases) : IsFiniteSet(phases[k])
    BY <1>2, <1>3, OrderFacts DEF Planned
  <2>4. i \in 1 .. Len(phases)  BY <1>1, <1>2, <2>3
  <2>5. IsFiniteSet(Phase)  BY <2>3, <2>4 DEF Phase
  <2>6. Ordered(todo', Phase, ItemFlowEdges(Phase))  BY <1>1, <2>5, TopologicalOrdersAre
  <2>7. todo' \in Seq(phases[i])  BY <2>6 DEF Ordered, Enumerates, Phase
  <2>8. Visiting'  BY <1>1, <2>1, <2>4, <2>7 DEF Visiting
  <2> QED  BY <2>2, <2>8
<1> QED  BY <1>1, <1>2, <1>3, RunningStep

LEMMA PropagateKeeps == ASSUME RunInv, Propagate PROVE RunInv'
<1>1. /\ pc = "propagate" /\ todo # <<>> /\ pc' = pc /\ todo' = Tail(todo)
      /\ job' = job /\ phases' = phases /\ i' = i
      /\ nodeState' = [nodeState EXCEPT ![Head(todo)] = "propagated"]
  BY DEF Propagate, planVars
<1>2. /\ job \in Jobs /\ i \in Nat \ {0} /\ nodeState \in [job.nodes -> NodeStates]
  BY DEF RunInv
<1>3. ASSUME Planned, Progress, Visiting PROVE Progress' /\ Visiting'
  <2>1. Current = i /\ Current' = i  BY <1>1 DEF Current
  <2>2. i \in 1 .. Len(phases) /\ todo \in Seq(phases[i])
    BY <1>1, <1>3, <2>1 DEF Visiting, Running
  <2>3. Head(todo) \in phases[i] /\ todo' \in Seq(phases[i])  BY <1>1, <2>2
  <2>4. "propagated" \in NodeStates  BY DEF NodeStates
  <2>5. Progress'  BY <1>1, <1>2, <1>3, <2>1, <2>2, <2>3, <2>4, ProgressKept
  <2>6. Visiting'  BY <1>1, <2>1, <2>2, <2>3 DEF Visiting
  <2> QED  BY <2>5, <2>6
<1>4. nodeState' \in [job.nodes -> NodeStates]  BY <1>1, <1>2 DEF NodeStates
<1> QED  BY <1>1, <1>2, <1>3, <1>4, RunningStep

(* Turned around, a list holds the same. *)
LEMMA ReverseIn ==
  ASSUME NEW S, NEW q \in Seq(S)
  PROVE  Reverse(q) \in Seq(S)
BY DEF Reverse

LEMMA ReassignKeeps == ASSUME RunInv, Reassign PROVE RunInv'
<1>1. /\ pc = "propagate" /\ pc' = "begin" /\ todo' = Reverse(actors')
      /\ actors' \in TopologicalOrders(Phase, ActorEdges(Phase))
      /\ job' = job /\ phases' = phases /\ i' = i /\ nodeState' = nodeState
  BY DEF Reassign, planVars
<1>2. /\ job \in Jobs /\ i \in Nat \ {0} /\ nodeState \in [job.nodes -> NodeStates]
  BY DEF RunInv
<1>3. ASSUME Planned, Progress, Visiting PROVE Progress' /\ Visiting'
  <2>1. Current = i /\ Current' = i  BY <1>1 DEF Current
  <2>2. Progress'  BY <1>1, <1>3, <2>1, ProgressSame
  <2>3. i \in 1 .. Len(phases)  BY <1>1, <1>3, <2>1 DEF Visiting, Running
  <2>4. IsFiniteSet(Phase)  BY <1>2, <1>3, <2>3, OrderFacts DEF Planned, Phase
  <2>5. Ordered(actors', Phase, ActorEdges(Phase))  BY <1>1, <2>4, TopologicalOrdersAre
  <2>6. Enumerates(actors', phases[i])  BY <2>5 DEF Ordered, Phase
  <2>7. actors' \in Seq(phases[i])  BY <2>6 DEF Enumerates
  <2>8. todo' \in Seq(phases[i])  BY <1>1, <2>7, ReverseIn
  <2>9. Visiting'  BY <1>1, <2>1, <2>3, <2>6, <2>8 DEF Visiting
  <2> QED  BY <2>2, <2>9
<1> QED  BY <1>1, <1>2, <1>3, RunningStep

LEMMA BeginNodeKeeps == ASSUME RunInv, BeginNode PROVE RunInv'
<1>1. /\ pc = "begin" /\ todo # <<>> /\ pc' = pc /\ todo' = Tail(todo)
      /\ job' = job /\ phases' = phases /\ i' = i /\ actors' = actors
      /\ nodeState' = [nodeState EXCEPT ![Head(todo)] = "begun"]
  BY DEF BeginNode, planVars
<1>2. /\ job \in Jobs /\ i \in Nat \ {0} /\ nodeState \in [job.nodes -> NodeStates]
  BY DEF RunInv
<1>3. ASSUME Planned, Progress, Visiting PROVE Progress' /\ Visiting'
  <2>1. Current = i /\ Current' = i  BY <1>1 DEF Current
  <2>2. i \in 1 .. Len(phases) /\ todo \in Seq(phases[i]) /\ Enumerates(actors, phases[i])
    BY <1>1, <1>3, <2>1 DEF Visiting, Running
  <2>3. Head(todo) \in phases[i] /\ todo' \in Seq(phases[i])  BY <1>1, <2>2
  <2>4. "begun" \in NodeStates  BY DEF NodeStates
  <2>5. Progress'  BY <1>1, <1>2, <1>3, <2>1, <2>2, <2>3, <2>4, ProgressKept
  <2>6. Visiting'  BY <1>1, <2>1, <2>2, <2>3 DEF Visiting
  <2> QED  BY <2>5, <2>6
<1>4. nodeState' \in [job.nodes -> NodeStates]  BY <1>1, <1>2 DEF NodeStates
<1> QED  BY <1>1, <1>2, <1>3, <1>4, RunningStep

LEMMA BegunKeeps == ASSUME RunInv, Begun PROVE RunInv'
<1>1. /\ pc = "begin" /\ \/ pc' = "stopped" /\ i' = i + 1
                         \/ pc' = "go" /\ i' = i
      /\ job' = job /\ phases' = phases /\ actors' = actors /\ nodeState' = nodeState
  BY DEF Begun, planVars
<1>2. /\ job \in Jobs /\ i \in Nat \ {0} /\ nodeState \in [job.nodes -> NodeStates]
  BY DEF RunInv
<1>3. i' \in Nat \ {0}  BY <1>1, <1>2
<1>4. ASSUME Planned, Progress, Visiting PROVE Progress' /\ Visiting'
  <2>1. Current = i /\ Current' = i  BY <1>1, <1>2 DEF Current
  <2>2. Progress'  BY <1>1, <1>4, <2>1, ProgressSame
  <2>3. i \in 1 .. Len(phases) /\ Enumerates(actors, phases[i])
    BY <1>1, <1>4, <2>1 DEF Visiting, Running
  <2>4. Visiting'  BY <1>1, <2>1, <2>3 DEF Visiting
  <2> QED  BY <2>2, <2>4
<1> QED  BY <1>1, <1>2, <1>3, <1>4, RunningStep

(* Items move: the runtime is where it was. *)
LEMMA ItemsKeep ==
  ASSUME RunInv, pc \in {"go", "stopped"}, pc' = pc, job' = job, phases' = phases, i' = i,
         actors' = actors, nodeState' = nodeState
  PROVE  RunInv'
<1>2. /\ job \in Jobs /\ i \in Nat \ {0} /\ nodeState \in [job.nodes -> NodeStates]
  BY DEF RunInv
<1>3. ASSUME Planned, Progress, Visiting PROVE Progress' /\ Visiting'
  <2>1. Current' = Current  BY DEF Current
  <2>2. Progress'  BY <1>3, <2>1, ProgressSame
  <2>3. Current \in 1 .. Len(phases) /\ Enumerates(actors, phases[Current])
    BY <1>3 DEF Visiting, Running
  <2>4. Visiting'  BY <2>1, <2>3 DEF Visiting
  <2> QED  BY <2>2, <2>4
<1> QED  BY <1>2, <1>3, RunningStep

LEMMA GoKeeps ==
  ASSUME RunInv, GoSource \/ GoCalc \/ GoOutput \/ GoDrain \/ GoReturns \/ PushFront
  PROVE  RunInv'
<1>1. /\ pc \in {"go", "stopped"} /\ pc' = pc /\ job' = job /\ phases' = phases /\ i' = i
      /\ actors' = actors /\ nodeState' = nodeState
  BY DEF GoSource, GoCalc, GoOutput, GoDrain, GoReturns, PushFront, GoneOn, planVars
<1> QED  BY <1>1, ItemsKeep

LEMMA GoneKeeps ==
  ASSUME RunInv, Gone \/ Resume
  PROVE  RunInv'
<1>1. /\ \/ pc = "go" /\ pc' = "end"
         \/ pc = "stopped" /\ pc' = "resumed"
      /\ todo' = actors
      /\ job' = job /\ phases' = phases /\ i' = i /\ actors' = actors /\ nodeState' = nodeState
  BY DEF Gone, Resume, planVars
<1>2. /\ job \in Jobs /\ i \in Nat \ {0} /\ nodeState \in [job.nodes -> NodeStates]
  BY DEF RunInv
<1>3. ASSUME Planned, Progress, Visiting PROVE Progress' /\ Visiting'
  <2>1. Current' = Current  BY <1>1 DEF Current
  <2>2. Progress'  BY <1>1, <1>3, <2>1, ProgressSame
  <2>3. Current \in 1 .. Len(phases) /\ Enumerates(actors, phases[Current])
    BY <1>1, <1>3 DEF Visiting, Running
  <2>4. /\ actors \in Seq(phases[Current])
        /\ \A n \in phases[Current] : \E k \in 1 .. Len(actors) : actors[k] = n
    BY <2>3 DEF Enumerates
  <2>5. Visiting'  BY <1>1, <2>1, <2>3, <2>4 DEF Visiting
  <2> QED  BY <2>2, <2>5
<1> QED  BY <1>1, <1>2, <1>3, RunningStep

LEMMA EndNodeKeeps == ASSUME RunInv, EndNode PROVE RunInv'
<1>1. /\ pc \in {"end", "resumed"} /\ todo # <<>> /\ pc' = pc /\ todo' = Tail(todo)
      /\ job' = job /\ phases' = phases /\ i' = i
      /\ nodeState' = [nodeState EXCEPT ![Head(todo)] = "ended"]
  BY DEF EndNode, planVars
<1>2. /\ job \in Jobs /\ i \in Nat \ {0} /\ nodeState \in [job.nodes -> NodeStates]
  BY DEF RunInv
<1>3. ASSUME Planned, Progress, Visiting PROVE Progress' /\ Visiting'
  <2>1. Current' = Current  BY <1>1 DEF Current
  <2>2. /\ Current \in 1 .. Len(phases) /\ todo \in Seq(phases[Current])
        /\ \A n \in phases[Current] :
             nodeState[n] = "ended" \/ \E k \in 1 .. Len(todo) : todo[k] = n
    BY <1>1, <1>3 DEF Visiting, Running
  <2>3. Head(todo) \in phases[Current] /\ todo' \in Seq(phases[Current])  BY <1>1, <2>2
  <2>4. "ended" \in NodeStates  BY DEF NodeStates
  <2>5. /\ Progress' /\ nodeState'[Head(todo)] = "ended"
        /\ \A m \in job.nodes : m # Head(todo) => nodeState'[m] = nodeState[m]
    BY <1>1, <1>2, <1>3, <2>1, <2>2, <2>3, <2>4, ProgressKept
  <2>6. ASSUME NEW n \in phases[Current], nodeState'[n] # "ended"
        PROVE  \E k \in 1 .. Len(todo') : todo'[k] = n
    <3>1. n # Head(todo) /\ n \in job.nodes
      BY <1>2, <1>3, <2>2, <2>5, <2>6, OrderFacts DEF Planned
    <3>2. PICK k \in 1 .. Len(todo) : todo[k] = n  BY <2>2, <2>5, <2>6, <3>1
    <3>3. k # 1  BY <1>1, <2>2, <3>1, <3>2
    <3>4. k - 1 \in 1 .. Len(todo') /\ todo'[k - 1] = n  BY <1>1, <2>2, <3>2, <3>3
    <3> QED  BY <3>4
  <2>7. Visiting'  BY <1>1, <2>1, <2>2, <2>3, <2>6 DEF Visiting
  <2> QED  BY <2>5, <2>7
<1>4. nodeState' \in [job.nodes -> NodeStates]  BY <1>1, <1>2 DEF NodeStates
<1> QED  BY <1>1, <1>2, <1>3, <1>4, RunningStep

LEMMA EndedKeeps == ASSUME RunInv, Ended PROVE RunInv'
<1>1. /\ \/ pc = "end" /\ i' = i + 1
         \/ pc = "resumed" /\ i' = i
      /\ todo = <<>> /\ pc' = "top"
      /\ job' = job /\ phases' = phases /\ nodeState' = nodeState
  BY DEF Ended, planVars
<1>2. /\ job \in Jobs /\ i \in Nat \ {0} /\ nodeState \in [job.nodes -> NodeStates]
  BY DEF RunInv
<1>3. i' \in Nat \ {0}  BY <1>1, <1>2
<1>4. ASSUME Planned, Progress, Visiting PROVE Progress' /\ Visiting'
  <2>1. Current' = Current + 1  BY <1>1, <1>2 DEF Current
  <2>2. /\ Current \in 1 .. Len(phases)
        /\ \A n \in phases[Current] :
             nodeState[n] = "ended" \/ \E k \in 1 .. Len(todo) : todo[k] = n
    BY <1>1, <1>4 DEF Visiting, Running
  <2>3. \A n \in phases[Current] : nodeState[n] = "ended"  BY <1>1, <2>2
  <2>4. \A k \in 1 .. Len(phases) : \A n \in phases[k] :
           /\ k < Current => nodeState[n] = "ended"
           /\ k > Current => nodeState[n] \notin {"begun", "ended"}
    BY <1>4 DEF Progress
  <2>5. ASSUME NEW k \in 1 .. Len(phases'), NEW n \in phases'[k]
        PROVE  /\ k < Current' => nodeState'[n] = "ended"
               /\ k > Current' => nodeState'[n] \notin {"begun", "ended"}
    <3>1. k < Current + 1 => k < Current \/ k = Current  BY <2>2
    <3>2. k > Current + 1 => k > Current  BY <2>2
    <3>3. k \in 1 .. Len(phases) /\ n \in phases[k] /\ nodeState'[n] = nodeState[n]
      BY <1>1, <2>5
    <3> QED  BY <2>1, <2>3, <2>4, <3>1, <3>2, <3>3
  <2>6. Progress'  BY <2>5 DEF Progress
  <2>7. Visiting'  BY <1>1 DEF Visiting, Running
  <2> QED  BY <2>6, <2>7
<1> QED  BY <1>1, <1>2, <1>3, <1>4, RunningStep

LEMMA FinishKeeps == ASSUME RunInv, Finish PROVE RunInv'
<1>1. /\ pc = "top" /\ i > Len(phases) /\ pc' = "done" /\ i' = i + 1
      /\ job' = job /\ phases' = phases /\ nodeState' = nodeState
  BY DEF Finish, planVars
<1>2. /\ job \in Jobs /\ i \in Nat \ {0} /\ nodeState \in [job.nodes -> NodeStates]
  BY DEF RunInv
<1>3. i' \in Nat \ {0}  BY <1>1, <1>2
<1>4. ASSUME Planned, Progress, Visiting PROVE Progress' /\ Visiting'
  <2>1. Current = i /\ Current' = i + 1  BY <1>1 DEF Current
  <2>2. Len(phases) \in Nat  BY <1>2, <1>4, OrderFacts DEF Planned
  <2>3. \A k \in 1 .. Len(phases) : k < i /\ ~(k > i + 1)  BY <1>1, <1>2, <2>2
  <2>4. \A k \in 1 .. Len(phases) : \A n \in phases[k] : nodeState[n] = "ended"
    BY <1>4, <2>1, <2>3 DEF Progress
  <2>5. Progress'  BY <1>1, <2>1, <2>3, <2>4 DEF Progress
  <2>6. Visiting'  BY <1>1 DEF Visiting, Running
  <2> QED  BY <2>5, <2>6
<1> QED  BY <1>1, <1>2, <1>3, <1>4, RunningStep

(* RunInv is inductive. *)
LEMMA RunInvNext == RunInv /\ [Next]_vars => RunInv'
<1> SUFFICES ASSUME RunInv, [Next]_vars PROVE RunInv'  OBVIOUS
<1>1. CASE GoInit  BY <1>1, GoInitKeeps
<1>2. CASE Refuse  BY <1>2, RefuseKeeps
<1>3. CASE StartPhase  BY <1>3, StartPhaseKeeps
<1>4. CASE Propagate  BY <1>4, PropagateKeeps
<1>5. CASE Reassign  BY <1>5, ReassignKeeps
<1>6. CASE BeginNode  BY <1>6, BeginNodeKeeps
<1>7. CASE Begun  BY <1>7, BegunKeeps
<1>8. CASE GoSource \/ GoCalc \/ GoOutput \/ GoDrain \/ GoReturns \/ PushFront
  BY <1>8, GoKeeps
<1>9. CASE Gone \/ Resume  BY <1>9, GoneKeeps
<1>10. CASE EndNode  BY <1>10, EndNodeKeeps
<1>11. CASE Ended  BY <1>11, EndedKeeps
<1>12. CASE Finish  BY <1>12, FinishKeeps
<1>13. CASE vars' = vars
  <2>1. /\ job' = job /\ phases' = phases /\ i' = i /\ pc' = pc /\ todo' = todo
        /\ actors' = actors /\ nodeState' = nodeState
    BY <1>13 DEF vars, planVars, loopVars
  <2>2. /\ DependsOnItself' <=> DependsOnItself
        /\ Planned' <=> Planned
    BY <2>1, Kept
  <2>3. Current' = Current  BY <2>1 DEF Current
  <2>4. Progress => Progress'  BY <2>1, <2>3, ProgressSame
  <2>5. Visiting => Visiting'  BY <2>1, <2>3 DEF Visiting, Running
  <2> QED  BY <2>1, <2>2, <2>4, <2>5 DEF RunInv
<1>14. CASE Over  BY <1>13, <1>14 DEF Over
<1> QED
  BY <1>1, <1>2, <1>3, <1>4, <1>5, <1>6, <1>7, <1>8, <1>9, <1>10, <1>11, <1>12, <1>13, <1>14
     DEF Next

(* Nodes are fresh before go_init(). *)
LEMMA RunInvInit == Init => RunInv
BY DEF Init, RunInv, NodeStates

(* A phase is current only when those before it have ended. *)
LEMMA RunInvRespects == RunInv => DependenciesRespected
<1> SUFFICES ASSUME RunInv, ~DependsOnItself, NEW r \in job.rels, r.kind \in Dependencies,
                    nodeState[r.from] \in {"begun", "ended"}, nodeState[r.to] # "ended",
                    PhaseOf(r.from) # PhaseOf(r.to)
             PROVE  FALSE
  BY DEF DependenciesRespected
<1>1. job \in Jobs  BY DEF RunInv
<1>2. r.from \in job.nodes /\ r.to \in job.nodes  BY <1>1, JobFacts DEF AllWithin
<1>3. pc \notin {"init", "refused"}  BY <1>2 DEF RunInv
<1>4. Planned /\ Progress  BY <1>3 DEF RunInv
<1>5. /\ Len(phases) \in Nat
      /\ \A k \in 1 .. Len(phases) : phases[k] \in JobPhases
      /\ \A j, k \in 1 .. Len(phases) : \A n : n \in phases[j] /\ n \in phases[k] => j = k
      /\ \A n \in job.nodes : \E k \in 1 .. Len(phases) : n \in phases[k]
  BY <1>1, <1>4, OrderFacts DEF Planned
<1>6. PICK k \in 1 .. Len(phases) : r.from \in phases[k]  BY <1>2, <1>5
<1>7. PICK m \in 1 .. Len(phases) : r.to \in phases[m]  BY <1>2, <1>5
<1>8. k # m
  <2>1. PhaseOf(r.from) = k  BY <1>5, <1>6 DEF PhaseOf
  <2>2. PhaseOf(r.to) = m  BY <1>5, <1>7 DEF PhaseOf
  <2> QED  BY <2>1, <2>2
<1>9. /\ Partition(JobPhases, job.nodes) /\ AllWithin(job.rels, job.nodes)
  BY <1>1, JobFacts
<1>10. ClassOf(JobPhases, r.from) = phases[k] /\ ClassOf(JobPhases, r.to) = phases[m]
  BY <1>2, <1>5, <1>6, <1>7, <1>9, PartitionClass
<1>11. phases[k] # phases[m]  BY <1>5, <1>6, <1>8
<1>12. <<phases[m], phases[k]>> \in PhaseEdgesOf(Dependencies)
  <2>1. AllWithin(Depending(job.rels), job.nodes)  BY <1>9 DEF AllWithin, Depending
  <2>2. r \in Depending(job.rels) /\ Between(JobPhases, r)
    BY <1>10, <1>11 DEF Depending, Between
  <2>3. <<ClassOf(JobPhases, r.to), ClassOf(JobPhases, r.from)>>
          \in PhaseEdges(JobPhases, Depending(job.rels))
    BY <1>9, <2>1, <2>2, PhaseEdgesAre
  <2> QED  BY <1>10, <2>3 DEF PhaseEdgesOf, Depending, JobPhases
<1>13. Before(phases, phases[m], phases[k])
  BY <1>4, <1>5, <1>12 DEF Planned, Ordered
<1>14. m < k
  <2>1. PICK a \in 1 .. Len(phases), b \in 1 .. Len(phases) :
          a < b /\ phases[a] = phases[m] /\ phases[b] = phases[k]
    BY <1>13 DEF Before
  <2>2. a = m /\ b = k  BY <1>5, <1>6, <1>7, <2>1
  <2> QED  BY <2>1, <2>2
<1>15. k <= Current /\ ~(m < Current)
  <2>1. ~(k > Current) /\ ~(m < Current)  BY <1>4, <1>6, <1>7 DEF Progress
  <2>2. Current \in Int /\ k \in Int  BY DEF RunInv, Current
  <2> QED  BY <2>1, <2>2
<1>16. Current \in Int /\ m \in Int /\ k \in Int  BY DEF RunInv, Current
<1> QED  BY <1>14, <1>15, <1>16

(* However a job is cut into phases and ordered, and at every step of       *)
(* go_until(), a node begins only when every node of another phase that it  *)
(* depends on has ended, for every finite node map.                         *)
THEOREM NoNodeBeforeItsDependencies == Spec => []DependenciesRespected
<1>1. Init => RunInv  BY RunInvInit
<1>2. RunInv /\ [Next]_vars => RunInv'  BY RunInvNext
<1>3. RunInv => DependenciesRespected  BY RunInvRespects
<1> QED  BY <1>1, <1>2, <1>3, PTL DEF Spec

-----------------------------------------------------------------------------
(* The order that go_init() runs, or refuses. *)

(* SetToSeq() lists a finite set. *)
LEMMA SetToSeqEnumerates ==
  ASSUME NEW S, IsFiniteSet(S)
  PROVE  Enumerates(SetToSeq(S), S)
<1> DEFINE n == Cardinality(S)
           Listing(f) == f \in [1 .. n -> S] /\ IsInjective(f)
           o == SetToSeq(S)
<1>1. n \in Nat /\ ExistsBijection(1 .. n, S)  BY FS_CardinalityType
<1>2. \E f : Listing(f)
  <2>1. PICK f : f \in Bijection(1 .. n, S)  BY <1>1 DEF ExistsBijection
  <2>2. f \in [1 .. n -> S] /\ \A a, b \in 1 .. n : f[a] = f[b] => a = b
    BY <2>1 DEF Bijection, Injection, IsInjective
  <2> QED  BY <2>2 DEF IsInjective
<1>3. o = CHOOSE f \in [1 .. n -> S] : IsInjective(f)  BY DEF SetToSeq
<1> HIDE DEF o, n
<1>4. o \in [1 .. n -> S] /\ IsInjective(o)  BY <1>2, <1>3
<1>5. o \in Injection(1 .. n, S)  BY <1>4 DEF Injection, IsInjective
<1>6. o \in Surjection(1 .. n, S)
  <2>1. Cardinality(1 .. n) = n /\ IsFiniteSet(1 .. n)  BY <1>1, FS_Interval
  <2>2. Cardinality(1 .. n) = Cardinality(S)  BY <2>1 DEF n
  <2> QED  BY <1>5, <2>2, FS_Injection
<1>7. o \in Seq(S) /\ Len(o) = n  BY <1>1, <1>4
<1>8. \A x \in S : \E k \in 1 .. n : o[k] = x  BY <1>6 DEF Surjection
<1>9. \A k, m \in 1 .. n : o[k] = o[m] => k = m  BY <1>4 DEF IsInjective
<1>10. Enumerates(o, S)  BY <1>7, <1>8, <1>9 DEF Enumerates
<1> QED  BY <1>10 DEF o

(* Whether the phases can run does not depend on their order. *)
LEMMA RunnableInAnyOrder ==
  ASSUME NEW S, NEW o, NEW p, Enumerates(o, S), Enumerates(p, S), Runnable(p)
  PROVE  Runnable(o)
<1> DEFINE CanRun(c) ==
             /\ Acyclic(c, ActorEdges(c)) /\ Acyclic(c, ItemFlowEdges(c))
             /\ job.front = NoNode => \E n \in c : IsInitiator(n)
<1>1. \A k \in 1 .. Len(p) : CanRun(p[k])  BY DEF Runnable
<1>2. Runnable(o) <=> \A k \in 1 .. Len(o) : CanRun(o[k])  BY DEF Runnable
<1> HIDE DEF CanRun
<1>3. ASSUME NEW k \in 1 .. Len(o) PROVE CanRun(o[k])
  <2>1. o[k] \in S  BY <1>3 DEF Enumerates
  <2>2. PICK m \in 1 .. Len(p) : p[m] = o[k]  BY <2>1 DEF Enumerates
  <2> QED  BY <1>1, <2>2
<1> QED  BY <1>2, <1>3

Refusable == Plans = {} \/ \E order \in Plans : ~Runnable(order)

Chosen ==
  /\ job \in Jobs
  /\ pc = "refused" => Refusable
  /\ pc \notin {"init", "refused"} => phases \in Plans

(* Whether go_init() may refuse depends on the job. *)
LEMMA RefusableKept ==
  ASSUME job' = job
  PROVE  Plans' = Plans /\ (Refusable' <=> Refusable)
<1>1. Plans' = Plans  BY DEF Plans
<1>2. \A order : Runnable(order)' <=> Runnable(order)
  <2> TAKE order
  <2>1. \A c : ActorEdges(c)' = ActorEdges(c) /\ ItemFlowEdges(c)' = ItemFlowEdges(c)
    BY DEF ActorEdges, ItemFlowEdges
  <2>2. \A n : IsInitiator(n)' <=> IsInitiator(n)  BY DEF IsInitiator, HasSuch
  <2> QED  BY <2>1, <2>2 DEF Runnable
<1> QED  BY <1>1, <1>2 DEF Refusable

(* Chosen is inductive. *)
LEMMA ChosenNext == Chosen /\ [Next]_vars => Chosen'
<1> SUFFICES ASSUME Chosen, [Next]_vars PROVE Chosen'  OBVIOUS
<1>1. ASSUME job' = job, pc' = pc, phases' = phases PROVE Chosen'
  BY <1>1, RefusableKept DEF Chosen
<1>2. ASSUME job' = job, phases' = phases, pc \notin {"init", "refused"},
             pc' \notin {"init", "refused"}
      PROVE  Chosen'
  BY <1>2, RefusableKept DEF Chosen
<1>3. CASE GoInit
  <2>1. job' = job /\ phases' \in Plans /\ pc' = "top"  BY <1>3 DEF GoInit
  <2> QED  BY <2>1, RefusableKept DEF Chosen
<1>4. CASE Refuse
  <2>1. job' = job /\ pc' = "refused" /\ Refusable  BY <1>4 DEF Refuse, Refusable
  <2> QED  BY <2>1, RefusableKept DEF Chosen
<1>5. CASE StartPhase \/ Propagate \/ Reassign
  BY <1>2, <1>5 DEF StartPhase, Propagate, Reassign, planVars
<1>6. CASE BeginNode \/ Begun
  BY <1>2, <1>6 DEF BeginNode, Begun, planVars
<1>7. CASE GoSource \/ GoCalc \/ GoOutput \/ GoDrain \/ GoReturns \/ PushFront
  BY <1>1, <1>7 DEF GoSource, GoCalc, GoOutput, GoDrain, GoReturns, PushFront, GoneOn, planVars
<1>8. CASE Gone \/ Resume
  BY <1>2, <1>8 DEF Gone, Resume, planVars
<1>9. CASE EndNode \/ Ended \/ Finish
  BY <1>2, <1>9 DEF EndNode, Ended, Finish, planVars
<1>10. CASE vars' = vars  BY <1>1, <1>10 DEF vars, planVars, loopVars
<1>11. CASE Over  BY <1>10, <1>11 DEF Over
<1> QED
  BY <1>3, <1>4, <1>5, <1>6, <1>7, <1>8, <1>9, <1>10, <1>11 DEF Next

(* What Chosen says of the order makes it the best. *)
LEMMA ChosenBest == Chosen => FewestEvacuations
<1> SUFFICES ASSUME Chosen PROVE FewestEvacuations  OBVIOUS
<1> DEFINE nodes == job.nodes
           rels == job.rels
           all == PhaseSets(nodes, rels)
           greenRelations == GreenRelations(all, rels, job.evacuable)
           green == PhaseEdges(all, greenRelations)
           red == PhaseEdges(all, RedRelations(all, rels, job.evacuable))
           F == PhaseEdges(all, Depending(rels))
           valid == ValidOrders(all, F, green)
<1>1. IsFiniteSet(nodes) /\ AllWithin(rels, nodes) /\ IsFiniteSet(all)
  BY JobFacts DEF Chosen, JobPhases
<1>2. PhaseEdgesOf(Dependencies) = F  BY DEF PhaseEdgesOf, Depending
<1>3. DependsOnItself <=> ~Acyclic(all, F)  BY <1>2 DEF DependsOnItself
<1>4. Plans = PlannedOrders(nodes, rels, job.evacuable)  BY DEF Plans
<1>5. /\ all = PhaseSets(nodes, rels) /\ F = PhaseEdges(all, Depending(rels))
      /\ greenRelations = GreenRelations(all, rels, job.evacuable)
      /\ green = PhaseEdges(all, greenRelations)
      /\ red = PhaseEdges(all, RedRelations(all, rels, job.evacuable))
      /\ valid = ValidOrders(all, F, green)
  OBVIOUS
<1> HIDE DEF F
<1>6. FewestEvacuations <=>
        /\ pc = "top" /\ i = 1 /\ ~DependsOnItself =>
             /\ phases \in valid
             /\ \/ \E e \in red, g \in green : e[1] = g[1] \/ e[2] = g[2]
                \/ \A o \in valid : Satisfied(o, red) <= Satisfied(phases, red)
        /\ pc = "refused" => \/ valid = {} \/ GreenConflict(all, greenRelations)
                             \/ ~Runnable(SetToSeq(all))
  BY <1>2 DEF FewestEvacuations
<1> HIDE DEF nodes, rels, all, greenRelations, green, red, valid
<1>7. ASSUME pc = "top", ~DependsOnItself
      PROVE  /\ phases \in valid
             /\ Apart(red, green) => \A o \in valid : Satisfied(o, red) <= Satisfied(phases, red)
  <2>1. phases \in PlannedOrders(nodes, rels, job.evacuable)  BY <1>4, <1>7 DEF Chosen
  <2>2. Acyclic(all, F)  BY <1>3, <1>7
  <2> QED  BY <1>1, <1>5, <2>1, <2>2, PlannedOrdersAreBest
<1>8. Apart(red, green) \/ \E e \in red, g \in green : e[1] = g[1] \/ e[2] = g[2]
  BY DEF Apart
<1>9. ASSUME pc = "refused", valid # {}, ~GreenConflict(all, greenRelations)
      PROVE  ~Runnable(SetToSeq(all))
  <2>1. PlannedOrders(nodes, rels, job.evacuable) # {}  BY <1>1, <1>5, <1>9, OrdersArePlanned
  <2>2. PICK order \in PlannedOrders(nodes, rels, job.evacuable) : ~Runnable(order)
    BY <1>4, <1>9, <2>1 DEF Chosen, Refusable
  <2>3. PICK o : Ordered(o, all, F)  BY <1>1, <1>5, <1>9, TopologicalOrdersAre DEF ValidOrders
  <2>4. Acyclic(all, F)
    <3>1. /\ Enumerates(o, all)
          /\ StrictOrder(OrderRelation(o, all), all)
          /\ \A u, v \in all : <<u, v>> \in OrderRelation(o, all) <=> Before(o, u, v)
      BY <2>3, OrderStrict DEF Ordered
    <3>2. F \in SUBSET (all \X all)
      <4>1. Partition(all, nodes)  BY <1>1, <1>5, PhaseSetsPartition
      <4>2. AllWithin(Depending(rels), nodes)  BY <1>1 DEF AllWithin, Depending
      <4> QED  BY <1>5, <4>1, <4>2, PhaseEdgesAre
    <3>3. F \in SUBSET OrderRelation(o, all)
      <4>1. \A u, v \in all : <<u, v>> \in F => <<u, v>> \in OrderRelation(o, all)
        BY <2>3, <3>1 DEF Ordered
      <4> QED  BY <3>2, <4>1
    <3> QED  BY <1>1, <3>1, <3>3, StrictAcyclic
  <2>5. Ordered(order, all, F)  BY <1>1, <1>5, <2>4, PlannedOrdersRespectDependencies
  <2>6. Enumerates(order, all) /\ Enumerates(SetToSeq(all), all)
    BY <1>1, <2>5, SetToSeqEnumerates DEF Ordered
  <2> QED  BY <2>2, <2>6, RunnableInAnyOrder
<1> QED  BY <1>6, <1>7, <1>8, <1>9

(* No order of the phases that respects the dependencies and keeps shared   *)
(* memory that cannot be evacuated together needs fewer evacuations than the *)
(* order that go_init() runs, and a job is refused only if there is no such *)
(* order or a phase cannot run, for every finite node map.                  *)
THEOREM FewestEvacuationsNeeded == Spec => []FewestEvacuations
<1>1. Init => Chosen  BY DEF Init, Chosen
<1>2. Chosen /\ [Next]_vars => Chosen'  BY ChosenNext
<1>3. Chosen => FewestEvacuations  BY ChosenBest
<1> QED  BY <1>1, <1>2, <1>3, PTL DEF Spec

-----------------------------------------------------------------------------
(* What is evacuated between the phases. *)

(* Phases before this one have been left, with what they share evacuated.   *)
Bound == IF pc = "top" THEN i - 1 ELSE Current

LeftEvacuated ==
  pc \notin {"init", "refused", "done"} =>
    /\ toEvacuate = EvacuateWhenDone(phases, job.rels)
    /\ \A k \in 1 .. Len(phases) :
         k < Bound => phases[k] \cap toEvacuate \cap job.evacuable \subseteq evacuated

(* A step between two phases' ends, or within a phase. *)
LEMMA LeftKept ==
  ASSUME LeftEvacuated, pc \notin {"init", "refused", "done"}, job' = job, phases' = phases,
         toEvacuate' = toEvacuate, evacuated' = evacuated, Bound' = Bound
  PROVE  LeftEvacuated'
<1> HIDE DEF Bound
<1> QED  BY DEF LeftEvacuated

LEMMA LeftEvacuatedNext == RunInv /\ LeftEvacuated /\ [Next]_vars => LeftEvacuated'
<1> SUFFICES ASSUME RunInv, LeftEvacuated, [Next]_vars PROVE LeftEvacuated'  OBVIOUS
<1>i. i \in Nat \ {0} /\ (pc = "init" => i = 1)  BY DEF RunInv
<1>1. CASE GoInit
  <2>1. /\ toEvacuate' = EvacuateWhenDone(phases', job'.rels) /\ pc' = "top" /\ i' = i /\ i = 1
    BY <1>1, <1>i DEF GoInit
  <2>2. Bound' = 0  BY <2>1 DEF Bound
  <2>3. \A k \in 1 .. Len(phases') : ~(k < 0)  OBVIOUS
  <2> QED  BY <2>1, <2>2, <2>3 DEF LeftEvacuated
<1>2. CASE Refuse
  BY <1>2 DEF Refuse, LeftEvacuated
<1>3. CASE StartPhase
  <2> DEFINE leaving == IF i > 1 THEN {n \in phases[i - 1] \cap toEvacuate : n \in job.evacuable}
                        ELSE {}
  <2>1. /\ pc = "top" /\ pc' = "propagate" /\ i' = i /\ job' = job /\ phases' = phases
        /\ toEvacuate' = toEvacuate /\ evacuated' = evacuated \cup leaving
    BY <1>3 DEF StartPhase, planVars
  <2>2. Bound = i - 1 /\ Bound' = i  BY <2>1 DEF Bound, Current
  <2>3. /\ toEvacuate = EvacuateWhenDone(phases, job.rels)
        /\ \A k \in 1 .. Len(phases) :
             k < i - 1 => phases[k] \cap toEvacuate \cap job.evacuable \subseteq evacuated
    BY <2>1, <2>2 DEF LeftEvacuated
  <2>4. ASSUME NEW k \in 1 .. Len(phases), k < i
        PROVE  phases[k] \cap toEvacuate \cap job.evacuable \subseteq evacuated'
    <3>1. CASE k < i - 1  BY <2>1, <2>3, <3>1
    <3>2. CASE k = i - 1
      <4>1. i > 1  BY <1>i, <3>2
      <4> QED  BY <2>1, <3>2, <4>1
    <3> QED  BY <1>i, <2>4, <3>1, <3>2
  <2>5. toEvacuate' = EvacuateWhenDone(phases', job'.rels)  BY <2>1, <2>3
  <2> HIDE DEF Bound, leaving
  <2> QED  BY <2>1, <2>2, <2>4, <2>5 DEF LeftEvacuated
<1>4. CASE Propagate \/ Reassign \/ BeginNode \/ Gone \/ Resume \/ EndNode
  <2>1. /\ pc \notin {"init", "refused", "done", "top"} /\ pc' # "top"
        /\ job' = job /\ phases' = phases /\ toEvacuate' = toEvacuate /\ evacuated' = evacuated
        /\ i' = i /\ (pc \in {"stopped", "resumed"} <=> pc' \in {"stopped", "resumed"})
    BY <1>4 DEF Propagate, Reassign, BeginNode, Gone, Resume, EndNode, planVars
  <2>2. Bound' = Bound  BY <2>1 DEF Bound, Current
  <2> QED  BY <2>1, <2>2, LeftKept
<1>5. CASE GoSource \/ GoCalc \/ GoOutput \/ GoDrain \/ GoReturns \/ PushFront
  <2>1. /\ pc \notin {"init", "refused", "done", "top"} /\ pc' = pc
        /\ job' = job /\ phases' = phases /\ toEvacuate' = toEvacuate /\ evacuated' = evacuated
        /\ i' = i
    BY <1>5 DEF GoSource, GoCalc, GoOutput, GoDrain, GoReturns, PushFront, GoneOn, planVars
  <2>2. Bound' = Bound  BY <2>1 DEF Bound, Current
  <2> QED  BY <2>1, <2>2, LeftKept
<1>6. CASE Begun
  <2>1. /\ pc = "begin" /\ \/ pc' = "stopped" /\ i' = i + 1
                           \/ pc' = "go" /\ i' = i
        /\ job' = job /\ phases' = phases /\ toEvacuate' = toEvacuate /\ evacuated' = evacuated
    BY <1>6 DEF Begun, planVars
  <2>2. Bound' = Bound  BY <1>i, <2>1 DEF Bound, Current
  <2> QED  BY <2>1, <2>2, LeftKept
<1>7. CASE Ended
  <2>1. /\ \/ pc = "end" /\ i' = i + 1
           \/ pc = "resumed" /\ i' = i
        /\ pc' = "top"
        /\ job' = job /\ phases' = phases /\ toEvacuate' = toEvacuate /\ evacuated' = evacuated
    BY <1>7 DEF Ended, planVars
  <2>2. Bound' = Bound  BY <1>i, <2>1 DEF Bound, Current
  <2> QED  BY <2>1, <2>2, LeftKept
<1>8. CASE Finish  BY <1>8 DEF Finish, LeftEvacuated
<1>9. CASE vars' = vars
  <2>1. /\ pc' = pc /\ i' = i /\ job' = job /\ phases' = phases
        /\ toEvacuate' = toEvacuate /\ evacuated' = evacuated
    BY <1>9 DEF vars, planVars, loopVars
  <2>2. Bound' = Bound  BY <2>1 DEF Bound, Current
  <2>3. pc \in {"init", "refused", "done"} => LeftEvacuated'  BY <2>1 DEF LeftEvacuated
  <2> QED  BY <2>1, <2>2, <2>3, LeftKept
<1>10. CASE Over  BY <1>9, <1>10 DEF Over
<1> QED
  BY <1>1, <1>2, <1>3, <1>4, <1>5, <1>6, <1>7, <1>8, <1>9, <1>10 DEF Next

LEMMA LeftEvacuatedShared ==
  RunInv /\ Chosen /\ LeftEvacuated => SharedMemoryEvacuated
<1> SUFFICES ASSUME RunInv, Chosen, LeftEvacuated, Running, NEW r \in job.rels,
                    r.kind = "memoryShareDepends",
                    nodeState[r.to] = "ended", nodeState[r.from] # "ended",
                    {r.from, r.to} \cap phases[Current] = {}, ~DependsOnItself
             PROVE  r.to \in evacuated
  BY DEF SharedMemoryEvacuated
<1>1. job \in Jobs  BY DEF Chosen
<1>2. /\ IsFiniteSet(job.nodes) /\ AllWithin(job.rels, job.nodes)
      /\ Partition(JobPhases, job.nodes) /\ IsFiniteSet(JobPhases)
  BY <1>1, JobFacts
<1>3. r.from \in job.nodes /\ r.to \in job.nodes  BY <1>2 DEF AllWithin
<1>4. pc \notin {"init", "refused", "done", "top"}  BY DEF Running
<1>5. Planned /\ Progress /\ Current \in 1 .. Len(phases)
  BY <1>4 DEF RunInv, Visiting
<1>6. /\ Len(phases) \in Nat
      /\ \A k \in 1 .. Len(phases) : phases[k] \in JobPhases
      /\ \A j, k \in 1 .. Len(phases) : \A n : n \in phases[j] /\ n \in phases[k] => j = k
      /\ \A n \in job.nodes : \E k \in 1 .. Len(phases) : n \in phases[k]
  BY <1>1, <1>5, OrderFacts DEF Planned
<1>7. PICK k \in 1 .. Len(phases) : r.to \in phases[k]  BY <1>3, <1>6
<1>8. PICK m \in 1 .. Len(phases) : r.from \in phases[m]  BY <1>3, <1>6
<1>9. k < Current /\ Current < m
  <2>1. ~(k > Current) /\ ~(m < Current)  BY <1>5, <1>7, <1>8 DEF Progress
  <2>2. k # Current /\ m # Current  BY <1>7, <1>8
  <2>3. Current \in Int /\ k \in Int /\ m \in Int  BY <1>5
  <2> HIDE DEF Current
  <2> QED  BY <2>1, <2>2, <2>3
<1>10. m - 1 \in 1 .. Len(phases) /\ m - 1 # k /\ m # 1 /\ k # m
  <2> HIDE DEF Current
  <2> QED  BY <1>5, <1>6, <1>9
<1>11. /\ toEvacuate = EvacuateWhenDone(phases, job.rels)
       /\ phases[k] \cap toEvacuate \cap job.evacuable \subseteq evacuated
  BY <1>4, <1>9 DEF LeftEvacuated, Bound
<1>12. r.to \in toEvacuate
  <2>1. r.to \notin phases[m - 1]  BY <1>6, <1>7, <1>10
  <2> QED  BY <1>8, <1>11, <2>1 DEF EvacuateWhenDone
<1>13. r.to \in job.evacuable
  <2> SUFFICES ASSUME r.to \notin job.evacuable PROVE FALSE  OBVIOUS
  <2> DEFINE green == PhaseEdges(JobPhases, GreenRelations(JobPhases, job.rels, job.evacuable))
  <2>1. ClassOf(JobPhases, r.from) = phases[m] /\ ClassOf(JobPhases, r.to) = phases[k]
    BY <1>2, <1>3, <1>6, <1>7, <1>8, PartitionClass
  <2>2. Between(JobPhases, r)
    <3>1. phases[m] # phases[k]  BY <1>6, <1>7, <1>8, <1>10
    <3> QED  BY <2>1, <3>1 DEF Between
  <2>3. r \in GreenRelations(JobPhases, job.rels, job.evacuable)  BY <2>2 DEF GreenRelations
  <2>4. <<phases[k], phases[m]>> \in green
    <3>1. AllWithin(GreenRelations(JobPhases, job.rels, job.evacuable), job.nodes)
      BY <1>2, RelationsWithin
    <3>2. <<ClassOf(JobPhases, r.to), ClassOf(JobPhases, r.from)>> \in green
      BY <1>2, <2>2, <2>3, <3>1, PhaseEdgesAre
    <3> HIDE DEF green
    <3> QED  BY <2>1, <3>2
  <2>5. \A e \in green : Follows(phases, e)
    <3> DEFINE F == PhaseEdges(JobPhases, Depending(job.rels))
               red == PhaseEdges(JobPhases, RedRelations(JobPhases, job.rels, job.evacuable))
    <3>1. phases \in PlannedOrders(job.nodes, job.rels, job.evacuable)
      BY <1>4 DEF Chosen, Plans
    <3>2. JobPhases = PhaseSets(job.nodes, job.rels)  BY DEF JobPhases
    <3>3. Acyclic(JobPhases, F)
      BY DEF DependsOnItself, PhaseEdgesOf, Depending, JobPhases
    <3>4. /\ F = PhaseEdges(JobPhases, Depending(job.rels))
          /\ green = PhaseEdges(JobPhases, GreenRelations(JobPhases, job.rels, job.evacuable))
          /\ red = PhaseEdges(JobPhases, RedRelations(JobPhases, job.rels, job.evacuable))
      OBVIOUS
    <3> HIDE DEF F, green, red
    <3>5. phases \in ValidOrders(JobPhases, F, green)
      BY ONLY <1>2, <3>1, <3>2, <3>3, <3>4, PlannedOrdersAreBest
    <3> QED  BY <3>5 DEF ValidOrders
  <2>6. PICK j \in 1 .. (Len(phases) - 1) : phases[j] = phases[k] /\ phases[j + 1] = phases[m]
    <3> DEFINE e == <<phases[k], phases[m]>>
    <3>1. e[1] = phases[k] /\ e[2] = phases[m]  OBVIOUS
    <3> HIDE DEF e, green
    <3>2. Follows(phases, e)  BY <2>4, <2>5 DEF e
    <3> QED  BY <3>1, <3>2 DEF Follows
  <2>7. j \in 1 .. Len(phases) /\ j + 1 \in 1 .. Len(phases)  BY <1>6, <2>6
  <2>8. j = k /\ j + 1 = m  BY <1>6, <1>7, <1>8, <2>6, <2>7
  <2> QED  BY <1>10, <2>7, <2>8
<1> QED  BY <1>7, <1>11, <1>12, <1>13

(* Whatever order get_phases() chose, while a phase runs what a node of an  *)
(* earlier phase shares with one of a later phase has been evacuated, for   *)
(* every finite node map: evacuateWhenDone names every node whose memory    *)
(* has to go, and where memory cannot go the phases follow one another.     *)
THEOREM OnlyNeighboursShareMemory == Spec => []SharedMemoryEvacuated
<1>1. Init => RunInv /\ Chosen /\ LeftEvacuated
  BY RunInvInit DEF Init, Chosen, LeftEvacuated
<1>2. RunInv /\ Chosen /\ LeftEvacuated /\ [Next]_vars => (RunInv /\ Chosen /\ LeftEvacuated)'
  BY RunInvNext, ChosenNext, LeftEvacuatedNext
<1>3. RunInv /\ Chosen /\ LeftEvacuated => SharedMemoryEvacuated  BY LeftEvacuatedShared
<1> QED  BY <1>1, <1>2, <1>3, PTL DEF Spec
=============================================================================
