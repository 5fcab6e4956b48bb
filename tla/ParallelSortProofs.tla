------------------------ MODULE ParallelSortProofs ------------------------
(***************************************************************************)
(* Proofs about ParallelSort, for every array, every guess of the work and *)
(* every pool: jobs at work never share an item, and when the sort returns *)
(* the array is sorted and its jobs are at rest.                           *)
(***************************************************************************)
EXTENDS ParallelSort, JobManagerProofs, NaturalsInduction

-----------------------------------------------------------------------------
(* Least and greatest numbers. *)

LEMMA LeastOf ==
  ASSUME NEW P \in SUBSET Nat, P # {}
  PROVE  \E n \in P : \A m \in P : n <= m
<1> DEFINE R == OpToRel(<, Nat)
<1>1. PICK n \in P : \A k \in P : ~(<<k, n>> \in R)
  <2>1. IsWellFoundedOn(R, Nat)  BY NatLessThanWellFounded
  <2> HIDE DEF R
  <2> QED  BY <2>1, WFMin
<1>2. ASSUME NEW k \in P PROVE n <= k
  <2>1. k \in Nat /\ n \in Nat  BY <1>1
  <2>2. k < n => <<k, n>> \in R  BY <2>1 DEF OpToRel
  <2> HIDE DEF R
  <2>3. ~(<<k, n>> \in R)  BY <1>1
  <2> QED  BY <2>1, <2>2, <2>3
<1> QED  BY <1>1, <1>2

LEMMA MinIs ==
  ASSUME NEW P \in SUBSET Nat, P # {}
  PROVE  Min(P) \in P /\ \A m \in P : Min(P) <= m
<1>1. PICK n \in P : \A m \in P : n <= m  BY LeastOf
<1> QED  BY <1>1 DEF Min

LEMMA MaxIs ==
  ASSUME NEW P \in SUBSET Nat, P # {}, NEW b \in Nat, \A m \in P : m <= b
  PROVE  Max(P) \in P /\ \A m \in P : m <= Max(P)
<1> DEFINE Q == {b - m : m \in P}
<1>1. Q \in SUBSET Nat /\ Q # {}
  <2>1. \A m \in P : b - m \in Nat /\ b - m \in Q  OBVIOUS
  <2>2. Q \subseteq Nat  BY <2>1
  <2> HIDE DEF Q
  <2> QED  BY <2>1, <2>2
<1>2. PICK q \in Q : \A r \in Q : q <= r
  <2> HIDE DEF Q
  <2> QED  BY <1>1, LeastOf
<1>3. PICK n \in P : q = b - n  OBVIOUS
<1>4. ASSUME NEW m \in P PROVE n >= m
  <2>1. b - m \in Q  OBVIOUS
  <2>2. q <= b - m  BY <1>2, <2>1
  <2>3. n \in Nat /\ m \in Nat  BY <1>3
  <2> QED  BY <1>3, <2>2, <2>3
<1>5. \E x \in P : \A y \in P : x >= y  BY <1>3, <1>4
<1>6. Max(P) \in P /\ \A m \in P : Max(P) >= m
  <2> HIDE DEF Q
  <2> QED  BY <1>5 DEF Max
<1>7. Max(P) \in Nat  BY <1>6
<1> QED  BY <1>6, <1>7

(* What is defined from one number to the next up to n is defined. *)
ByRounds(f, Step, x, n) == f = [k \in 0 .. n |-> IF k = 0 THEN x ELSE Step[f[k - 1]]]

LEMMA RoundsExist ==
  ASSUME NEW Step, NEW x, NEW n \in Nat
  PROVE  \E f : ByRounds(f, Step, x, n)
<1> USE DEF ByRounds
<1> DEFINE Is(f, m) == f = [k \in 0 .. m |-> IF k = 0 THEN x ELSE Step[f[k - 1]]]
           Bad == {m \in Nat : ~ \E f : Is(f, m)}
<1> SUFFICES ASSUME Bad # {} PROVE FALSE  OBVIOUS
<1>1. PICK m \in Bad : \A k \in Bad : m <= k
  <2>1. Bad \in SUBSET Nat  OBVIOUS
  <2> HIDE DEF Bad
  <2> QED  BY <2>1, LeastOf
<1>2. m # 0
  <2>1. Is([k \in 0 .. 0 |-> x], 0)  OBVIOUS
  <2> QED  BY <1>1, <2>1
<1>3. PICK f : Is(f, m - 1)
  <2>1. m - 1 \in Nat /\ ~(m <= m - 1)  BY <1>1, <1>2
  <2> QED  BY <1>1, <2>1
<1> DEFINE g == [k \in 0 .. m |-> IF k = m THEN Step[f[m - 1]] ELSE f[k]]
<1>4. m \in Nat  BY <1>1
<1>5. \A k \in 0 .. m - 1 : f[k] = IF k = 0 THEN x ELSE Step[f[k - 1]]
  BY <1>3
<1>6. ASSUME NEW k \in 0 .. m PROVE g[k] = IF k = 0 THEN x ELSE Step[g[k - 1]]
  <2>1. CASE k = m
    <3>1. k - 1 \in 0 .. m /\ k - 1 # m  BY <1>2, <1>4, <2>1
    <3>2. g[k - 1] = f[m - 1]  BY <3>1, <2>1
    <3> QED  BY <1>2, <2>1, <3>2
  <2>2. CASE k # m
    <3>1. k \in 0 .. m - 1 /\ k \in 0 .. m  BY <1>4, <2>2
    <3>2. g[k] = f[k]  BY <3>1, <2>2
    <3>3. k # 0 => k - 1 \in 0 .. m /\ k - 1 # m  BY <1>4, <3>1
    <3>4. k # 0 => g[k - 1] = f[k - 1]  BY <3>3
    <3> QED  BY <1>5, <3>1, <3>2, <3>4
  <2> QED  BY <2>1, <2>2
<1>7. Is(g, m)
  <2>1. DOMAIN g = 0 .. m /\ g = [k \in 0 .. m |-> g[k]]  OBVIOUS
  <2> HIDE DEF g
  <2> QED  BY <1>6, <2>1
<1> HIDE DEF g, Is
<1> QED  BY <1>1, <1>7

-----------------------------------------------------------------------------
(* Arrays with the same items. *)

Count(s, v) == Cardinality({i \in DOMAIN s : s[i] = v})

(* t has the items of s, and in a .. b-1 those that s has there. *)
Reorders(s, t, a, b) ==
  /\ t \in Seq(Int) /\ Len(t) = Len(s)
  /\ \A i \in DOMAIN s : i \notin a .. b - 1 => t[i] = s[i]
  /\ \A i \in a .. b - 1 : \E k \in a .. b - 1 : t[i] = s[k]
  /\ \A v \in Int : Count(t, v) = Count(s, v)

(* f says where each item of t stands in s. *)
Moves(s, t, f) ==
  /\ t \in Seq(Int) /\ Len(t) = Len(s)
  /\ f \in [1 .. Len(s) -> 1 .. Len(s)]
  /\ \A i, k \in 1 .. Len(s) : f[i] = f[k] => i = k
  /\ \A k \in 1 .. Len(s) : \E i \in 1 .. Len(s) : f[i] = k
  /\ \A i \in 1 .. Len(s) : t[i] = s[f[i]]

LEMMA CountAlong ==
  ASSUME NEW s \in Seq(Int), NEW t, NEW f, Moves(s, t, f), NEW v
  PROVE  Count(t, v) = Count(s, v)
<1> USE DEF Moves
<1> DEFINE A == {i \in DOMAIN t : t[i] = v}
           B == {i \in DOMAIN s : s[i] = v}
           g == [i \in A |-> f[i]]
<1>1. DOMAIN s = 1 .. Len(s) /\ DOMAIN t = 1 .. Len(s) /\ Len(s) \in Nat
  BY LenProperties
<1>2. IsFiniteSet(A)
  <2>1. A \subseteq 1 .. Len(s)  BY <1>1
  <2>2. IsFiniteSet(1 .. Len(s))
    <3>1. 1 \in Int /\ Len(s) \in Int  BY <1>1
    <3> QED  BY <3>1, FS_Interval
  <2> HIDE DEF A
  <2> QED  BY <2>1, <2>2, FS_Subset
<1>3. \A i \in A : f[i] \in B  BY <1>1
<1>4. \A k \in B : \E i \in A : f[i] = k  BY <1>1, SMTT(30)
<1>5. \A i, k \in A : f[i] = f[k] => i = k  BY <1>1
<1> HIDE DEF A, B
<1>6. g \in [A -> B]  BY <1>3
<1>7. IsInjective(g)  BY <1>5 DEF IsInjective
<1>8. \A k \in B : \E i \in A : g[i] = k  BY <1>4
<1>9. g \in Bijection(A, B)
  <2> HIDE DEF g
  <2> QED  BY <1>6, <1>7, <1>8 DEF Bijection, Injection, Surjection
<1>10. ExistsBijection(A, B)
  <2> HIDE DEF g
  <2> QED  BY <1>9 DEF ExistsBijection
<1>11. Cardinality(B) = Cardinality(A)  BY <1>2, <1>10, FS_Bijection
<1> QED  BY <1>11 DEF A, B, Count

LEMMA ReordersSelf ==
  ASSUME NEW s \in Seq(Int), NEW a \in Int, NEW b \in Int
  PROVE  Reorders(s, s, a, b)
BY DEF Reorders

LEMMA ReordersTrans ==
  ASSUME NEW s \in Seq(Int), NEW t, NEW u, NEW a \in Int, NEW b \in Int,
         Reorders(s, t, a, b), Reorders(t, u, a, b)
  PROVE  Reorders(s, u, a, b)
<1>1. DOMAIN t = DOMAIN s  BY LenProperties DEF Reorders
<1>2. ASSUME NEW i \in a .. b - 1 PROVE \E k \in a .. b - 1 : u[i] = s[k]
  <2>1. PICK k \in a .. b - 1 : u[i] = t[k]  BY DEF Reorders
  <2>2. PICK m \in a .. b - 1 : t[k] = s[m]  BY DEF Reorders
  <2> QED  BY <2>1, <2>2
<1> QED  BY <1>1, <1>2 DEF Reorders

LEMMA ReordersWiden ==
  ASSUME NEW s \in Seq(Int), NEW t, NEW a \in Int, NEW b \in Int,
         NEW c \in Int, NEW d \in Int, c <= a, b <= d, 1 <= c, d <= Len(s) + 1,
         Reorders(s, t, a, b)
  PROVE  Reorders(s, t, c, d)
<1>1. DOMAIN s = 1 .. Len(s) /\ Len(s) \in Nat  BY LenProperties
<1>2. a .. b - 1 \subseteq c .. d - 1 /\ c .. d - 1 \subseteq DOMAIN s  BY <1>1
<1>3. \A i \in c .. d - 1 : \E k \in c .. d - 1 : t[i] = s[k]
  <2> SUFFICES ASSUME NEW i \in c .. d - 1 PROVE \E k \in c .. d - 1 : t[i] = s[k]
    OBVIOUS
  <2>1. CASE i \in a .. b - 1  BY <2>1, <1>2 DEF Reorders
  <2>2. CASE i \notin a .. b - 1  BY <2>2, <1>2 DEF Reorders
  <2> QED  BY <2>1, <2>2
<1> QED  BY <1>2, <1>3 DEF Reorders

LEMMA SwappedIs ==
  ASSUME NEW s \in Seq(Int), NEW i \in DOMAIN s, NEW k \in DOMAIN s
  PROVE  /\ Swapped(s, i, k) \in Seq(Int) /\ Len(Swapped(s, i, k)) = Len(s)
         /\ Swapped(s, i, k)[i] = s[k] /\ Swapped(s, i, k)[k] = s[i]
         /\ \A m \in DOMAIN s : m # i /\ m # k => Swapped(s, i, k)[m] = s[m]
<1>1. DOMAIN s = 1 .. Len(s) /\ Len(s) \in Nat  BY LenProperties
<1>2. s[i] \in Int /\ s[k] \in Int  BY <1>1, ElementOfSeq
<1> DEFINE u == [s EXCEPT ![i] = s[k]]
           w == [u EXCEPT ![k] = s[i]]
<1>3. Swapped(s, i, k) = w  BY DEF Swapped
<1>4. u \in Seq(Int) /\ Len(u) = Len(s) /\ DOMAIN u = DOMAIN s
  BY <1>1, <1>2, ExceptSeq, LenProperties
<1>5. u[i] = s[k] /\ \A m \in DOMAIN s : m # i => u[m] = s[m]  BY <1>1
<1> HIDE DEF u
<1>6. w \in Seq(Int) /\ Len(w) = Len(s)  BY <1>1, <1>2, <1>4, ExceptSeq
<1>7. w[k] = s[i] /\ \A m \in DOMAIN s : m # k => w[m] = u[m]  BY <1>4
<1> HIDE DEF w
<1> QED  BY <1>3, <1>5, <1>6, <1>7

LEMMA SwapReorders ==
  ASSUME NEW s \in Seq(Int), NEW a \in Nat, NEW b \in Nat, 1 <= a, b <= Len(s) + 1,
         NEW i \in a .. b - 1, NEW k \in a .. b - 1
  PROVE  Reorders(s, Swapped(s, i, k), a, b)
<1> DEFINE t == Swapped(s, i, k)
           f == [m \in 1 .. Len(s) |-> IF m = i THEN k ELSE IF m = k THEN i ELSE m]
<1>1. DOMAIN s = 1 .. Len(s) /\ Len(s) \in Nat  BY LenProperties
<1>2. i \in DOMAIN s /\ k \in DOMAIN s /\ a .. b - 1 \subseteq DOMAIN s  BY <1>1
<1>3. /\ t \in Seq(Int) /\ Len(t) = Len(s) /\ t[i] = s[k] /\ t[k] = s[i]
      /\ \A m \in DOMAIN s : m # i /\ m # k => t[m] = s[m]
  BY <1>2, SwappedIs
<1> HIDE DEF t
<1>4. f \in [1 .. Len(s) -> 1 .. Len(s)]  BY <1>1, <1>2
<1>5. \A m, n \in 1 .. Len(s) : f[m] = f[n] => m = n  BY <1>1, <1>2
<1>6. \A n \in 1 .. Len(s) : f[f[n]] = n  BY <1>1, <1>2
<1>7. \A m \in 1 .. Len(s) : t[m] = s[f[m]]  BY <1>1, <1>2, <1>3
<1> HIDE DEF f
<1>8. \A n \in 1 .. Len(s) : \E m \in 1 .. Len(s) : f[m] = n  BY <1>4, <1>6
<1>9. \A v \in Int : Count(t, v) = Count(s, v)
  <2>1. Moves(s, t, f)  BY <1>3, <1>4, <1>5, <1>7, <1>8 DEF Moves
  <2> QED  BY <2>1, CountAlong
<1>10. \A m \in a .. b - 1 : \E n \in a .. b - 1 : t[m] = s[n]
  <2>1. \A m \in a .. b - 1 : m = i \/ m = k \/ t[m] = s[m]  BY <1>2, <1>3
  <2> QED  BY <2>1, <1>3
<1>11. \A m \in DOMAIN s : m \notin a .. b - 1 => t[m] = s[m]  BY <1>3
<1> QED  BY <1>3, <1>9, <1>10, <1>11 DEF Reorders, t

(* What std::sort may make of the array. *)
Permutes(f, S) ==
  /\ f \in [S -> S]
  /\ \A i, k \in S : f[i] = f[k] => i = k
  /\ \A k \in S : \E i \in S : f[i] = k

Mixed(s, S, f) == [i \in DOMAIN s |-> IF i \in S THEN s[f[i]] ELSE s[i]]

LEMMA RearrangedIs ==
  ASSUME NEW s, NEW t, NEW a, NEW b
  PROVE  t \in Rearranged(s, a, b) <=>
           \E f : Permutes(f, a .. b - 1) /\ t = Mixed(s, a .. b - 1, f)
<1> DEFINE S == a .. b - 1
<1>1. \A f : f \in Bijection(S, S) <=> Permutes(f, S)
  <2> HIDE DEF S
  <2> QED  BY DEF Bijection, Injection, Surjection, IsInjective, Permutes
<1>2. Rearranged(s, a, b) = {Mixed(s, S, f) : f \in Bijection(S, S)}
  BY DEF Rearranged, Mixed
<1>3. t \in {Mixed(s, S, f) : f \in Bijection(S, S)} <=>
        \E f : Permutes(f, S) /\ t = Mixed(s, S, f)
  <2> HIDE DEF S
  <2> QED  BY <1>1
<1> QED  BY <1>2, <1>3

LEMMA RearrangedBy ==
  ASSUME NEW s, NEW a, NEW b, NEW S, S = a .. b - 1, NEW f, Permutes(f, S)
  PROVE  Mixed(s, S, f) \in Rearranged(s, a, b)
<1> DEFINE t == Mixed(s, a .. b - 1, f)
<1>1. Permutes(f, a .. b - 1) /\ t = Mixed(s, a .. b - 1, f)  OBVIOUS
<1>2. t \in Rearranged(s, a, b)
  <2> HIDE DEF t
  <2> QED  BY <1>1, RearrangedIs
<1> QED  BY <1>2

LEMMA RearrangedReorders ==
  ASSUME NEW s \in Seq(Int), NEW a \in Nat, NEW b \in Nat, 1 <= a, b <= Len(s) + 1,
         NEW t \in Rearranged(s, a, b)
  PROVE  Reorders(s, t, a, b)
<1> DEFINE S == a .. b - 1
<1>1. DOMAIN s = 1 .. Len(s) /\ Len(s) \in Nat  BY LenProperties
<1>2. S \subseteq 1 .. Len(s)  BY <1>1
<1>3. PICK f : Permutes(f, S) /\ t = Mixed(s, S, f)  BY RearrangedIs
<1> HIDE DEF S
<1> USE DEF Permutes, Mixed
<1> DEFINE g == [i \in 1 .. Len(s) |-> IF i \in S THEN f[i] ELSE i]
<1>4. \A i \in 1 .. Len(s) : s[i] \in Int  BY ElementOfSeq
<1>5. \A i \in 1 .. Len(s) : t[i] = s[g[i]] /\ t[i] \in Int
  BY <1>1, <1>2, <1>3, <1>4
<1>6. t \in Seq(Int) /\ Len(t) = Len(s)
  <2>1. t \in [1 .. Len(s) -> Int]  BY <1>1, <1>3, <1>5
  <2> QED  BY <1>1, <2>1, IsASeq, LenProperties
<1>7. g \in [1 .. Len(s) -> 1 .. Len(s)]  BY <1>2, <1>3
<1>8. ASSUME NEW i \in 1 .. Len(s), NEW k \in 1 .. Len(s), g[i] = g[k] PROVE i = k
  <2>1. CASE i \in S /\ k \in S  BY <1>3, <1>8, <2>1
  <2>2. CASE i \in S /\ k \notin S  BY <1>3, <1>8, <2>2
  <2>3. CASE i \notin S /\ k \in S  BY <1>3, <1>8, <2>3
  <2>4. CASE i \notin S /\ k \notin S  BY <1>8, <2>4
  <2> QED  BY <2>1, <2>2, <2>3, <2>4
<1>9. \A k \in 1 .. Len(s) : \E i \in 1 .. Len(s) : g[i] = k
  <2> TAKE k \in 1 .. Len(s)
  <2>1. CASE k \in S
    <3>1. PICK i \in S : f[i] = k  BY <1>3, <2>1
    <3> QED  BY <1>2, <3>1
  <2>2. CASE k \notin S  BY <2>2
  <2> QED  BY <2>1, <2>2
<1>10. \A i \in S : t[i] = s[f[i]] /\ f[i] \in S  BY <1>1, <1>2, <1>3
<1>11. \A i \in DOMAIN s : i \notin S => t[i] = s[i]  BY <1>3
<1> HIDE DEF g
<1>12. Moves(s, t, g)  BY <1>5, <1>6, <1>7, <1>8, <1>9 DEF Moves
<1>13. \A v \in Int : Count(t, v) = Count(s, v)  BY <1>12, CountAlong
<1> QED  BY <1>6, <1>10, <1>11, <1>13 DEF Reorders, S

Ascending(t, a, b) == \A i, k \in a .. b - 1 : i < k => t[i] <= t[k]

(* A range of integers has a greatest one. *)
GreatestAt(s, a, n, m) == m \in a .. n /\ \A i \in a .. n : s[i] <= s[m]

LEMMA GreatestIn ==
  ASSUME NEW s \in Seq(Int), NEW a \in Nat, NEW b \in Nat, 1 <= a, a <= b, b <= Len(s)
  PROVE  \E m : GreatestAt(s, a, b, m)
<1> DEFINE Bad == {n \in a .. b : ~ \E m : GreatestAt(s, a, n, m)}
<1>1. DOMAIN s = 1 .. Len(s) /\ Len(s) \in Nat  BY LenProperties
<1>2. \A i \in a .. b : s[i] \in Int  BY <1>1, ElementOfSeq
<1>3. ASSUME Bad # {} PROVE FALSE
  <2>1. PICK n \in Bad : \A k \in Bad : n <= k
    <3>1. Bad \in SUBSET Nat  OBVIOUS
    <3> HIDE DEF Bad
    <3> QED  BY <1>3, <3>1, LeastOf
  <2>2. n \in a .. b /\ ~ \E m : GreatestAt(s, a, n, m)  BY <2>1
  <2>3. n # a
    <3>1. \A i \in a .. a : i = a  OBVIOUS
    <3>2. GreatestAt(s, a, a, a)  BY <1>2, <2>2, <3>1 DEF GreatestAt
    <3> QED  BY <2>2, <3>2
  <2>4. PICK m : GreatestAt(s, a, n - 1, m)
    <3>1. n - 1 \in a .. b /\ ~(n <= n - 1)  BY <2>2, <2>3
    <3> QED  BY <2>1, <3>1
  <2> HIDE DEF Bad
  <2>5. /\ m \in a .. b /\ m \in a .. n /\ n \in a .. n /\ s[m] \in Int /\ s[n] \in Int
        /\ \A i \in a .. n : i = n \/ i \in a .. n - 1
        /\ \A i \in a .. n : s[i] \in Int
        /\ \A i \in a .. n - 1 : s[i] <= s[m]
    BY <1>2, <2>2, <2>4 DEF GreatestAt
  <2>6. CASE s[m] <= s[n]
    <3>1. \A i \in a .. n : s[i] <= s[n]  BY <2>5, <2>6
    <3> QED  BY <2>2, <2>5, <3>1 DEF GreatestAt
  <2>7. CASE s[n] <= s[m]
    <3>1. \A i \in a .. n : s[i] <= s[m]  BY <2>5, <2>7
    <3> QED  BY <2>2, <2>5, <3>1 DEF GreatestAt
  <2> QED  BY <2>5, <2>6, <2>7
<1> QED  BY <1>3

(* The last item of a range is exchanged with one of the range, and what is  *)
(* before it is rearranged.                                                  *)
LEMMA RearrangedMore ==
  ASSUME NEW s \in Seq(Int), NEW a \in Nat, NEW c \in Nat, 1 <= a, a <= c, c <= Len(s),
         NEW m \in a .. c, NEW t \in Rearranged(Swapped(s, m, c), a, c)
  PROVE  t \in Rearranged(s, a, c + 1)
<1> DEFINE w == Swapped(s, m, c)
           S == a .. c - 1
           T == a .. c
<1>1. DOMAIN s = 1 .. Len(s) /\ Len(s) \in Nat  BY LenProperties
<1>2. m \in DOMAIN s /\ c \in DOMAIN s  BY <1>1
<1>3. /\ w \in Seq(Int) /\ Len(w) = Len(s) /\ w[m] = s[c] /\ w[c] = s[m]
      /\ \A i \in DOMAIN s : i # m /\ i # c => w[i] = s[i]
  BY <1>2, SwappedIs
<1>4. DOMAIN w = DOMAIN s  BY <1>1, <1>3, LenProperties
<1>5. PICK f : Permutes(f, S) /\ t = Mixed(w, S, f)  BY RearrangedIs
<1>6. T = a .. c + 1 - 1  OBVIOUS
<1>7. /\ S \subseteq T /\ T \subseteq DOMAIN s /\ c \in T /\ c \notin S /\ m \in T
      /\ \A i \in T : i \in S \/ i = c
  BY <1>1
<1> HIDE DEF S, T, w
<1> DEFINE h == [i \in T |-> IF i = c THEN m ELSE IF f[i] = m THEN c ELSE f[i]]
<1>8. \A i \in S : f[i] \in S  BY <1>5 DEF Permutes
<1>9. h \in [T -> T]  BY <1>7, <1>8
<1>10. ASSUME NEW i \in T, NEW k \in T, h[i] = h[k] PROVE i = k
  <2>1. \A x \in S : h[x] = IF f[x] = m THEN c ELSE f[x]  BY <1>7
  <2>2. \A x \in S : h[x] # m  BY <1>7, <1>8, <2>1
  <2>3. h[c] = m  BY <1>7
  <2>4. ASSUME i \in S, k \in S PROVE i = k
    <3>1. f[i] = f[k]  BY <1>7, <1>8, <1>10, <2>1, <2>4
    <3> QED  BY <1>5, <2>4, <3>1 DEF Permutes
  <2> HIDE DEF h
  <2> QED  BY <1>7, <1>10, <2>2, <2>3, <2>4
<1>11. ASSUME NEW k \in T PROVE \E i \in T : h[i] = k
  <2>1. CASE k = m  BY <1>7, <2>1
  <2>2. CASE k # m /\ k = c
    <3>1. m \in S  BY <1>7, <2>2
    <3>2. PICK i \in S : f[i] = m  BY <1>5, <3>1 DEF Permutes
    <3> QED  BY <1>7, <2>2, <3>2
  <2>3. CASE k # m /\ k # c
    <3>1. PICK i \in S : f[i] = k  BY <1>5, <1>7, <2>3 DEF Permutes
    <3> QED  BY <1>7, <2>3, <3>1
  <2> QED  BY <2>1, <2>2, <2>3
<1>12. \A i \in DOMAIN s : t[i] = IF i \in T THEN s[h[i]] ELSE s[i]
  <2> TAKE i \in DOMAIN s
  <2>1. t[i] = IF i \in S THEN w[f[i]] ELSE w[i]  BY <1>4, <1>5 DEF Mixed
  <2>2. CASE i \in S
    <3>1. t[i] = w[f[i]] /\ f[i] \in DOMAIN s /\ f[i] # c  BY <1>7, <1>8, <2>1, <2>2
    <3>2. h[i] = IF f[i] = m THEN c ELSE f[i]  BY <1>7, <2>2
    <3> HIDE DEF h
    <3> QED  BY <1>3, <1>7, <2>2, <3>1, <3>2
  <2>3. CASE i = c
    <3>1. t[i] = w[c] /\ h[i] = m  BY <1>7, <2>1, <2>3
    <3> QED  BY <1>3, <1>7, <2>3, <3>1
  <2>4. CASE i \notin T
    <3>1. t[i] = w[i] /\ i # m /\ i # c  BY <1>7, <2>1, <2>4
    <3> QED  BY <1>3, <2>4, <3>1
  <2> QED  BY <1>7, <2>2, <2>3, <2>4
<1>13. t = [i \in DOMAIN s |-> t[i]]  BY <1>4, <1>5 DEF Mixed
<1> HIDE DEF h
<1>14. t = Mixed(s, T, h)  BY <1>12, <1>13 DEF Mixed
<1>15. Permutes(h, T)  BY <1>9, <1>10, <1>11 DEF Permutes
<1> DEFINE b == c + 1
<1>16. T = a .. b - 1  BY <1>6
<1> HIDE DEF b
<1>17. Mixed(s, T, h) \in Rearranged(s, a, b)  BY <1>15, <1>16, RearrangedBy
<1> QED  BY <1>14, <1>17 DEF b

LEMMA AscendingMore ==
  ASSUME NEW s, NEW t, NEW a \in Nat, NEW c \in Nat, NEW m,
         Reorders(s, t, a, c + 1), t[c] = s[m], GreatestAt(s, a, c, m), Ascending(t, a, c)
  PROVE  Ascending(t, a, c + 1)
<1> DEFINE S == a .. c + 1 - 1
<1>1. S = a .. c /\ \A i \in a .. c : i \in a .. c - 1 \/ i = c  OBVIOUS
<1>2. \A i \in S : \E k \in S : t[i] = s[k]
  <2> DEFINE b == c + 1
  <2>1. S = a .. b - 1 /\ Reorders(s, t, a, b)  OBVIOUS
  <2> HIDE DEF b, S
  <2> QED  BY <2>1 DEF Reorders
<1>3. \A i \in a .. c : s[i] <= s[m]  BY DEF GreatestAt
<1> HIDE DEF S
<1>4. \A i \in S : t[i] <= t[c]  BY <1>1, <1>2, <1>3
<1>5. ASSUME NEW i \in S, NEW k \in S, i < k PROVE t[i] <= t[k]
  <2>1. i \in a .. c - 1 /\ (k \in a .. c - 1 \/ k = c)  BY <1>1, <1>5
  <2> QED  BY <1>4, <1>5, <2>1 DEF Ascending
<1> QED  BY <1>5 DEF S, Ascending

(* There is an order in which the items of a range ascend. *)
LEMMA SortExists ==
  ASSUME NEW s \in Seq(Int), NEW a \in Nat, NEW b \in Nat, 1 <= a, b <= Len(s) + 1
  PROVE  \E t \in Rearranged(s, a, b) : Ascending(t, a, b)
<1> DEFINE Sortable(u, n) == \E t \in Rearranged(u, a, n) : Ascending(t, a, n)
           Bad == {n \in Nat : n <= Len(s) + 1 /\
                     \E u \in Seq(Int) : Len(u) = Len(s) /\ ~Sortable(u, n)}
<1>1. Len(s) \in Nat  BY LenProperties
<1>2. ASSUME Bad # {} PROVE FALSE
  <2>1. PICK n \in Bad : \A k \in Bad : n <= k
    <3>1. Bad \in SUBSET Nat  OBVIOUS
    <3> HIDE DEF Bad
    <3> QED  BY <1>2, <3>1, LeastOf
  <2>2. n \in Nat /\ n <= Len(s) + 1  BY <2>1
  <2>3. PICK u \in Seq(Int) : Len(u) = Len(s) /\ ~Sortable(u, n)  BY <2>1
  <2>4. a < n
    <3> SUFFICES ASSUME n <= a PROVE Sortable(u, n)  BY <2>2, <2>3
    <3>1. a .. n - 1 = {}  BY <2>2
    <3> DEFINE e == [i \in {} |-> i]
    <3>2. Permutes(e, {})  BY DEF Permutes
    <3>3. u = [i \in DOMAIN u |-> u[i]]
      <4>1. DOMAIN u = 1 .. Len(u) /\ u \in [1 .. Len(u) -> Int]  BY LenProperties
      <4> QED  BY <4>1
    <3> HIDE DEF e
    <3>4. u = Mixed(u, {}, e)  BY <3>3 DEF Mixed
    <3>5. u \in Rearranged(u, a, n)  
      <4>1. Mixed(u, {}, e) \in Rearranged(u, a, n)  BY <3>1, <3>2, RearrangedBy
      <4> QED  BY <3>4, <4>1
    <3>6. Ascending(u, a, n)  BY <3>1 DEF Ascending
    <3> QED  BY <3>5, <3>6
  <2> DEFINE c == n - 1
  <2>5. c \in Nat /\ a <= c /\ c <= Len(u) /\ n = c + 1 /\ ~(n <= c) /\ c <= Len(s) + 1
    BY <1>1, <2>2, <2>3, <2>4
  <2> HIDE DEF c
  <2>6. PICK m : GreatestAt(u, a, c, m)  BY <2>5, GreatestIn
  <2>7. m \in a .. c /\ \A i \in a .. c : u[i] <= u[m]  BY <2>6 DEF GreatestAt
  <2> DEFINE w == Swapped(u, m, c)
  <2>8. /\ w \in Seq(Int) /\ Len(w) = Len(u) /\ w[c] = u[m] /\ w[m] = u[c]
        /\ \A i \in DOMAIN u : i # m /\ i # c => w[i] = u[i]
    <3>1. DOMAIN u = 1 .. Len(u) /\ Len(u) \in Nat  BY LenProperties
    <3>2. m \in DOMAIN u /\ c \in DOMAIN u  BY <2>5, <2>7, <3>1
    <3> QED  BY <3>2, SwappedIs
  <2>9. PICK t \in Rearranged(w, a, c) : Ascending(t, a, c)
    <3>1. c \notin Bad  BY <2>1, <2>5
    <3> HIDE DEF w
    <3> QED  BY <2>3, <2>5, <2>8, <3>1
  <2>10. t \in Rearranged(u, a, c + 1)  BY <2>5, <2>7, RearrangedMore
  <2>11. Reorders(w, t, a, c)
    <3> HIDE DEF w
    <3>1. c <= Len(w) + 1  BY <2>5, <2>8
    <3> QED  BY <2>5, <2>8, <3>1, RearrangedReorders
  <2>12. Reorders(u, t, a, c + 1)
    <3>1. c + 1 \in Nat /\ c + 1 <= Len(u) + 1  BY <2>5
    <3> QED  BY <2>5, <2>10, <3>1, RearrangedReorders
  <2>13. t[c] = u[m]
    <3>1. c \in DOMAIN w /\ c \notin a .. c - 1
      <4>1. DOMAIN w = 1 .. Len(w) /\ Len(w) \in Nat  BY <2>8, LenProperties
      <4> HIDE DEF w
      <4> QED  BY <2>5, <2>8, <4>1
    <3> HIDE DEF w
    <3> QED  BY <2>8, <2>11, <3>1 DEF Reorders
  <2>14. Ascending(t, a, c + 1)
    <3> HIDE DEF Bad, Sortable, w
    <3> QED  BY <2>5, <2>6, <2>9, <2>12, <2>13, AscendingMore
  <2> QED  BY <2>3, <2>5, <2>10, <2>14
<1> QED  BY <1>2

LEMMA SortedBetweenIs ==
  ASSUME NEW s \in Seq(Int), NEW a \in Nat, NEW b \in Nat, 1 <= a, b <= Len(s) + 1
  PROVE  /\ Reorders(s, SortedBetween(s, a, b), a, b)
         /\ Ascending(SortedBetween(s, a, b), a, b)
<1>1. /\ SortedBetween(s, a, b) \in Rearranged(s, a, b)
      /\ Ascending(SortedBetween(s, a, b), a, b)
  <2>1. SortedBetween(s, a, b) = CHOOSE t \in Rearranged(s, a, b) : Ascending(t, a, b)
    BY DEF SortedBetween, Ascending
  <2> QED  BY <2>1, SortExists
<1> QED  BY <1>1, RearrangedReorders

-----------------------------------------------------------------------------
(* The loop of unguarded_partition(). *)

Rounds == [first : Nat, last : Nat, array : Seq(Int)]

(* Where the scans stop and what one round makes of x. *)
ScanDown(p, x) == Max({i \in p .. x.last - 1 : x.array[i] <= x.array[p]})

ScanUp(p, x, last) ==
  IF x.first = last THEN last
  ELSE Min({i \in x.first + 1 .. last : i = last \/ x.array[i] >= x.array[p]})

RoundOf(p, x) ==
  IF x.first = x.last THEN x
  ELSE [first |-> ScanUp(p, x, ScanDown(p, x)), last |-> ScanDown(p, x),
        array |-> Swapped(x.array, ScanUp(p, x, ScanDown(p, x)), ScanDown(p, x))]

(* Up to first nothing is greater than the pivot, behind it and from last on *)
(* nothing is less.                                                          *)
LoopInv(s, p, b, x) ==
  /\ x \in Rounds /\ Reorders(s, x.array, p, b) /\ x.array[p] = s[p]
  /\ p <= x.first /\ x.first <= x.last /\ x.last <= b
  /\ x.first = x.last => x.last < b
  /\ \A i \in p .. x.first : x.array[i] <= s[p]
  /\ \A i \in p .. b - 1 : x.first < i /\ x.last <= i => x.array[i] >= s[p]

LEMMA ScansStop ==
  ASSUME NEW s \in Seq(Int), NEW p \in Nat, NEW b \in Nat, 1 <= p, p < b, b <= Len(s) + 1,
         NEW x, LoopInv(s, p, b, x), x.first # x.last
  PROVE  LET last  == ScanDown(p, x)
             first == ScanUp(p, x, last)
         IN  /\ last \in x.first .. x.last - 1 /\ x.array[last] <= s[p]
             /\ \A i \in last + 1 .. x.last - 1 : ~(x.array[i] <= s[p])
             /\ first \in x.first .. last
             /\ first # last => first > x.first /\ x.array[first] >= s[p]
             /\ \A i \in x.first + 1 .. first - 1 : i # last /\ ~(x.array[i] >= s[p])
<1> DEFINE t == x.array
           P == {i \in p .. x.last - 1 : t[i] <= t[p]}
           last == ScanDown(p, x)
           Q == {i \in x.first + 1 .. last : i = last \/ t[i] >= t[p]}
           first == ScanUp(p, x, last)
<1>1. /\ x.first \in Nat /\ x.last \in Nat /\ t[p] = s[p]
      /\ p <= x.first /\ x.first < x.last /\ x.last <= b
      /\ t[x.first] <= s[p]
  BY SMTT(30) DEF LoopInv, Rounds
<1>2. P \in SUBSET Nat /\ x.first \in P /\ \A i \in P : i <= b  BY <1>1
<1>3. last = Max(P)  BY DEF ScanDown
<1>4. last \in P /\ \A i \in P : i <= last
  <2> HIDE DEF P, last
  <2> QED  BY <1>2, <1>3, MaxIs
<1>5. last \in x.first .. x.last - 1 /\ t[last] <= s[p] /\ last \in Nat
  <2> HIDE DEF last
  <2> QED  BY <1>1, <1>2, <1>4
<1>6. \A i \in last + 1 .. x.last - 1 : ~(t[i] <= s[p])
  <2> HIDE DEF last, t
  <2> TAKE i \in last + 1 .. x.last - 1
  <2>1. i \in p .. x.last - 1 /\ ~(i <= last)  BY <1>1, <1>5
  <2> QED  BY <1>1, <1>4, <2>1
<1> HIDE DEF last, P, t
<1>7. CASE x.first = last
  <2>1. first = last  BY <1>7 DEF ScanUp
  <2>2. x.first + 1 .. last - 1 = {}  BY <1>5, <1>7
  <2> HIDE DEF first
  <2> QED  BY <1>1, <1>5, <1>6, <1>7, <2>1, <2>2 DEF t, last, first
<1>8. CASE x.first # last
  <2>1. first = Min(Q)  BY <1>8 DEF ScanUp, t
  <2>2. Q \in SUBSET Nat /\ last \in Q  BY <1>1, <1>5, <1>8
  <2> HIDE DEF first
  <2>3. first \in Q /\ \A i \in Q : first <= i
    <3> HIDE DEF Q
    <3> QED  BY <2>1, <2>2, MinIs
  <2>4. first \in x.first + 1 .. last /\ (first = last \/ t[first] >= s[p])  BY <1>1, <2>3
  <2>5. ASSUME NEW i \in x.first + 1 .. first - 1 PROVE i # last /\ ~(t[i] >= s[p])
    <3>1. i \in x.first + 1 .. last /\ ~(first <= i)  BY <1>1, <1>5, <2>4
    <3> QED  BY <1>1, <2>3, <3>1
  <2>6. first \in x.first .. last /\ first > x.first  BY <1>1, <1>5, <2>4
  <2> HIDE DEF Q
  <2> QED  BY <1>5, <1>6, <2>4, <2>5, <2>6 DEF t, last, first
<1> QED  BY <1>7, <1>8

LEMMA RoundKeeps ==
  ASSUME NEW s \in Seq(Int), NEW p \in Nat, NEW b \in Nat, 1 <= p, p < b, b <= Len(s) + 1,
         NEW x, LoopInv(s, p, b, x), x.first # x.last
  PROVE  LoopInv(s, p, b, RoundOf(p, x)) /\ RoundOf(p, x).last < x.last
<1> DEFINE t == x.array
           last == ScanDown(p, x)
           first == ScanUp(p, x, last)
           u == Swapped(t, first, last)
           y == RoundOf(p, x)
<1>1. /\ x.first \in Nat /\ x.last \in Nat /\ t \in Seq(Int) /\ Len(t) = Len(s)
      /\ t[p] = s[p] /\ p <= x.first /\ x.first < x.last /\ x.last <= b
      /\ \A i \in p .. x.first : t[i] <= s[p]
      /\ \A i \in p .. b - 1 : x.last <= i => t[i] >= s[p]
      /\ Reorders(s, t, p, b)
  BY DEF LoopInv, Rounds, Reorders
<1>2. /\ last \in x.first .. x.last - 1 /\ t[last] <= s[p]
      /\ \A i \in last + 1 .. x.last - 1 : ~(t[i] <= s[p])
      /\ first \in x.first .. last
      /\ first # last => first > x.first /\ t[first] >= s[p]
      /\ \A i \in x.first + 1 .. first - 1 : i # last /\ ~(t[i] >= s[p])
  BY ScansStop
<1>3. y = [first |-> first, last |-> last, array |-> u]  BY DEF RoundOf
<1> HIDE DEF last, first, t, y
<1>4. DOMAIN t = 1 .. Len(t) /\ Len(t) \in Nat /\ \A i \in 1 .. Len(t) : t[i] \in Int
  BY <1>1, LenProperties, ElementOfSeq
<1>5. /\ first \in Nat /\ last \in Nat /\ p <= first /\ first <= last /\ last < x.last
      /\ first \in DOMAIN t /\ last \in DOMAIN t /\ first \in p .. b - 1 /\ last \in p .. b - 1
      /\ s[p] \in Int
  <2>1. first \in Nat /\ last \in Nat  BY <1>1, <1>2
  <2>2. p <= first /\ first <= last /\ last < x.last  BY <1>1, <1>2, <2>1
  <2>3. last < b /\ last <= Len(s)  BY <1>1, <2>1, <2>2
  <2>4. first \in 1 .. Len(s) /\ last \in 1 .. Len(s) /\ p \in 1 .. Len(s)
    BY <1>1, <2>1, <2>2, <2>3
  <2>5. t[p] \in Int  BY <1>1, <1>4, <2>4
  <2> QED  BY <1>1, <1>4, <2>1, <2>2, <2>3, <2>4, <2>5
<1>6. /\ u \in Seq(Int) /\ Len(u) = Len(t) /\ u[first] = t[last] /\ u[last] = t[first]
      /\ \A i \in DOMAIN t : i # first /\ i # last => u[i] = t[i]
  BY <1>1, <1>5, SwappedIs
<1>7. Reorders(s, u, p, b)
  <2>1. Reorders(t, u, p, b)  BY <1>1, <1>5, SwapReorders
  <2> HIDE DEF u
  <2> QED  BY <1>1, <2>1, ReordersTrans
<1> HIDE DEF u
<1>8. u[p] = s[p]
  <2>1. CASE first = last
    <3>1. \A i \in DOMAIN t : u[i] = t[i]  BY <1>6, <2>1
    <3> QED  BY <1>1, <1>4, <3>1
  <2>2. CASE first # last
    <3>1. p \in DOMAIN t /\ p # first /\ p # last  BY <1>1, <1>2, <1>4, <1>5, <2>2, SMTT(30)
    <3> QED  BY <1>1, <1>6, <3>1
  <2> QED  BY <2>1, <2>2
<1>9. ASSUME NEW i \in p .. first PROVE u[i] <= s[p]
  <2>1. i \in DOMAIN t /\ t[i] \in Int  BY <1>1, <1>4, <1>5
  <2>2. CASE i = first  BY <1>2, <1>6, <2>2
  <2>3. CASE i # first
    <3>1. u[i] = t[i]  BY <1>5, <1>6, <2>1, <2>3
    <3>2. i \in p .. x.first \/ i \in x.first + 1 .. first - 1  BY <1>1, <1>5, <2>3, SMTT(30)
    <3>3. i \in x.first + 1 .. first - 1 => t[i] <= s[p]  BY <1>2, <1>5, <2>1
    <3> QED  BY <1>1, <3>1, <3>2, <3>3
  <2> QED  BY <2>2, <2>3
<1>10. ASSUME NEW i \in p .. b - 1, first < i, last <= i PROVE u[i] >= s[p]
  <2>1. i \in DOMAIN t /\ t[i] \in Int  BY <1>1, <1>4, <1>5
  <2>2. CASE i = last
    <3>1. first # last  BY <1>5, <1>10, <2>2
    <3> QED  BY <1>2, <1>6, <2>2, <3>1
  <2>3. CASE i # last
    <3>1. u[i] = t[i]  BY <1>5, <1>6, <1>10, <2>1, <2>3
    <3>2. i \in last + 1 .. x.last - 1 \/ x.last <= i  BY <1>1, <1>5, <1>10, <2>3
    <3>3. i \in last + 1 .. x.last - 1 => t[i] >= s[p]  BY <1>2, <1>5, <2>1
    <3> QED  BY <1>1, <3>1, <3>2, <3>3
  <2> QED  BY <2>2, <2>3
<1>11. y.first = first /\ y.last = last /\ y.array = u /\ y \in Rounds
  BY <1>3, <1>5, <1>6 DEF Rounds
<1>12. last < b /\ last <= b  BY <1>1, <1>5
<1>13. LoopInv(s, p, b, y)
  BY <1>5, <1>7, <1>8, <1>9, <1>10, <1>11, <1>12 DEF LoopInv
<1> QED  BY <1>5, <1>11, <1>13 DEF y

LEMMA LoopEndIs ==
  ASSUME NEW s \in Seq(Int), NEW p \in Nat, NEW b \in Nat, 1 <= p, p < b, b <= Len(s) + 1
  PROVE  LoopInv(s, p, b, LoopEnd(s, p, b)) /\ LoopEnd(s, p, b).first = LoopEnd(s, p, b).last
<1> DEFINE n == b - p
           Step == [x \in Rounds |-> RoundOf(p, x)]
           x0 == [first |-> p, last |-> b, array |-> s]
           R == CHOOSE f : ByRounds(f, Step, x0, n)
<1>1. n \in Nat /\ n > 0  OBVIOUS
<1>2. LoopEnd(s, p, b) = R[n]
  BY DEF LoopEnd, Rounds, RoundOf, ScanUp, ScanDown, ByRounds
<1>3. ByRounds(R, Step, x0, n)
  <2> HIDE DEF Step, x0, n
  <2> QED  BY <1>1, RoundsExist
<1>4. \A k \in 0 .. n : R[k] = IF k = 0 THEN x0 ELSE Step[R[k - 1]]
  <2> HIDE DEF R, Step, x0, n
  <2> QED  BY <1>3 DEF ByRounds
<1> HIDE DEF R
<1> DEFINE Good(k) == /\ LoopInv(s, p, b, R[k])
                      /\ R[k].first = R[k].last \/ R[k].last <= b - k
           Bad == {k \in 0 .. n : ~Good(k)}
<1>5. Good(0)
  <2>1. R[0] = x0
    <3> HIDE DEF n, x0, Step
    <3>1. 0 \in 0 .. n  BY <1>1
    <3> QED  BY <1>4, <3>1
  <2>2. \A i \in p .. p : i = p  OBVIOUS
  <2>3. s[p] \in Int /\ s[p] <= s[p]
    <3>1. DOMAIN s = 1 .. Len(s) /\ Len(s) \in Nat  BY LenProperties
    <3>2. p \in 1 .. Len(s)  BY <3>1
    <3>3. s[p] \in Int  BY <3>2, ElementOfSeq
    <3> QED  BY <3>3
  <2>4. Reorders(s, s, p, b)  BY ReordersSelf
  <2>5. x0.first = p /\ x0.last = b /\ x0.array = s /\ x0 \in Rounds  BY DEF Rounds
  <2>6. \A i \in p .. b - 1 : ~(b <= i)  OBVIOUS
  <2>7. LoopInv(s, p, b, x0)
    <3> HIDE DEF x0
    <3> QED  BY <2>2, <2>3, <2>4, <2>5, <2>6 DEF LoopInv
  <2> QED  BY <2>1, <2>5, <2>7
<1>6. ASSUME NEW k \in 0 .. n, k # 0, Good(k - 1) PROVE Good(k)
  <2> DEFINE x == R[k - 1]
  <2>1. LoopInv(s, p, b, x) /\ (x.first = x.last \/ x.last <= b - (k - 1))  BY <1>6
  <2>2. R[k] = Step[x]  BY <1>4, <1>6
  <2>3. x \in Rounds  BY <2>1 DEF LoopInv
  <2> HIDE DEF x
  <2>4. R[k] = RoundOf(p, x)  BY <2>2, <2>3
  <2>5. CASE x.first = x.last
    <3>1. R[k] = x  BY <2>4, <2>5 DEF RoundOf
    <3> QED  BY <2>1, <2>5, <3>1
  <2>6. CASE x.first # x.last
    <3>1. LoopInv(s, p, b, R[k]) /\ R[k].last < x.last  BY <2>1, <2>4, <2>6, RoundKeeps
    <3>2. R[k].last \in Nat /\ x.last \in Nat  BY <2>3, <3>1 DEF LoopInv, Rounds
    <3>3. R[k].last <= b - k  BY <2>1, <2>6, <3>1, <3>2
    <3> QED  BY <3>1, <3>3
  <2> QED  BY <2>5, <2>6
<1>7. Good(n)
  <2> SUFFICES ASSUME Bad # {} PROVE FALSE
    <3> HIDE DEF Good
    <3> QED  BY <1>1
  <2>1. PICK k \in Bad : \A m \in Bad : k <= m
    <3>1. Bad \in SUBSET Nat  BY <1>1
    <3> HIDE DEF Bad
    <3> QED  BY <3>1, LeastOf
  <2> HIDE DEF Good
  <2>2. k # 0 /\ k \in 0 .. n  BY <1>5, <2>1
  <2>3. k - 1 \in 0 .. n /\ ~(k <= k - 1)  BY <1>1, <2>2
  <2>4. Good(k - 1)  BY <2>1, <2>3
  <2> QED  BY <1>6, <2>1, <2>2, <2>4
<1>8. R[n].first = R[n].last
  <2>1. b - n = p  OBVIOUS
  <2> HIDE DEF n
  <2>2. LoopInv(s, p, b, R[n]) /\ (R[n].first = R[n].last \/ R[n].last <= p)  BY <1>7, <2>1
  <2>3. R[n].last \in Nat /\ R[n].first \in Nat  BY <2>2 DEF LoopInv, Rounds
  <2> QED  BY <2>2, <2>3 DEF LoopInv
<1> QED  BY <1>2, <1>7, <1>8

-----------------------------------------------------------------------------
(* partition(). *)

LEMMA MedianIs ==
  ASSUME NEW s, NEW a, NEW b, NEW c
  PROVE  Median(s, a, b, c) \in {a, b, c}
BY DEF Median

LEMMA PickPivotIs ==
  ASSUME NEW s, NEW a \in Nat, NEW b \in Nat, a < b
  PROVE  PickPivot(s, a, b) \in a .. b - 1
<1> DEFINE q == (b - a) \div 8
<1>1. q \in Nat /\ 8 * q <= b - a  OBVIOUS
<1>2. PickPivot(s, a, b) = Median(s, Median(s, a, a + q, a + 2 * q),
                                     Median(s, a + 3 * q, a + 4 * q, a + 5 * q),
                                     Median(s, a + 6 * q, a + 7 * q, b - 1))
  BY DEF PickPivot
<1> HIDE DEF q
<1> DEFINE x == Median(s, a, a + q, a + 2 * q)
           y == Median(s, a + 3 * q, a + 4 * q, a + 5 * q)
           z == Median(s, a + 6 * q, a + 7 * q, b - 1)
<1>3. x \in {a, a + q, a + 2 * q}  BY MedianIs
<1>4. y \in {a + 3 * q, a + 4 * q, a + 5 * q}  BY MedianIs
<1>5. z \in {a + 6 * q, a + 7 * q, b - 1}  BY MedianIs
<1>6. PickPivot(s, a, b) \in {x, y, z}  BY <1>2, MedianIs
<1> HIDE DEF x, y, z
<1>7. 7 * q <= b - 1 - a  BY <1>1
<1>8. {a, a + q, a + 2 * q, a + 3 * q, a + 4 * q, a + 5 * q, a + 6 * q, a + 7 * q, b - 1}
        \subseteq a .. b - 1
  BY <1>1, <1>7
<1> QED  BY <1>3, <1>4, <1>5, <1>6, <1>8

(* No item of t before m is greater than that at m, none after it is less. *)
SplitsAt(t, a, m, b) ==
  /\ m \in a .. b - 1
  /\ \A i \in a .. m - 1 : t[i] <= t[m]
  /\ \A i \in m + 1 .. b - 1 : t[m] <= t[i]

LEMMA UnguardedPartitionIs ==
  ASSUME NEW s \in Seq(Int), NEW p \in Nat, NEW b \in Nat, 1 <= p, p < b, b <= Len(s) + 1
  PROVE  LET r == UnguardedPartition(s, p, b)
         IN  Reorders(s, r.array, p, b) /\ SplitsAt(r.array, p, r.at, b)
<1> DEFINE e == LoopEnd(s, p, b)
           m == e.last
           t == e.array
           u == Swapped(t, m, p)
<1>1. LoopInv(s, p, b, e) /\ e.first = m  BY LoopEndIs
<1>2. UnguardedPartition(s, p, b).array = u /\ UnguardedPartition(s, p, b).at = m
  BY DEF UnguardedPartition
<1> HIDE DEF e
<1>3. /\ m \in Nat /\ p <= m /\ m < b /\ t \in Seq(Int) /\ Len(t) = Len(s)
      /\ Reorders(s, t, p, b) /\ t[p] = s[p]
      /\ \A i \in p .. m : t[i] <= s[p]
      /\ \A i \in p .. b - 1 : m < i /\ m <= i => t[i] >= s[p]
  BY <1>1 DEF LoopInv, Rounds, Reorders
<1> HIDE DEF m, t
<1>4. DOMAIN t = 1 .. Len(t) /\ Len(t) \in Nat /\ \A i \in 1 .. Len(t) : t[i] \in Int
  BY <1>3, LenProperties, ElementOfSeq
<1>5. /\ m \in p .. b - 1 /\ p \in p .. b - 1
      /\ p .. b - 1 \subseteq DOMAIN t /\ b <= Len(t) + 1
  BY <1>3, <1>4
<1>6. /\ u[m] = t[p] /\ u[p] = t[m]
      /\ \A i \in DOMAIN t : i # m /\ i # p => u[i] = t[i]
  BY <1>3, <1>5, SwappedIs
<1>7. Reorders(s, u, p, b)
  <2>1. Reorders(t, u, p, b)  BY <1>3, <1>5, SwapReorders
  <2> HIDE DEF u
  <2> QED  BY <1>3, <2>1, ReordersTrans
<1> HIDE DEF u
<1>8. ASSUME NEW i \in p .. m - 1 PROVE u[i] <= u[m]
  <2>1. i \in DOMAIN t /\ i # m /\ t[i] <= s[p] /\ t[m] <= s[p]  BY <1>3, <1>5
  <2> QED  BY <1>3, <1>6, <2>1
<1>9. ASSUME NEW i \in m + 1 .. b - 1 PROVE u[m] <= u[i]
  <2>1. i \in p .. b - 1 /\ i # m /\ i # p /\ t[i] >= s[p]  BY <1>3
  <2>2. i \in DOMAIN t /\ t[i] \in Int /\ t[p] \in Int  BY <1>4, <1>5, <2>1
  <2> QED  BY <1>3, <1>6, <2>1, <2>2
<1> QED  BY <1>2, <1>5, <1>7, <1>8, <1>9 DEF SplitsAt

LEMMA PartitionAtIs ==
  ASSUME NEW s \in Seq(Int), NEW a \in Nat, NEW b \in Nat, 1 <= a, a < b, b <= Len(s) + 1
  PROVE  LET r == PartitionAt(s, a, b)
         IN  Reorders(s, r.array, a, b) /\ SplitsAt(r.array, a, r.at, b)
<1> DEFINE k == PickPivot(s, a, b)
           t == Swapped(s, k, a)
           r == PartitionAt(s, a, b)
<1>1. k \in a .. b - 1  BY PickPivotIs
<1> HIDE DEF k
<1>2. Reorders(s, t, a, b)
  <2>1. a \in a .. b - 1  OBVIOUS
  <2> QED  BY <1>1, <2>1, SwapReorders
<1>3. r = UnguardedPartition(t, a, b)  BY DEF PartitionAt, k
<1> HIDE DEF t, r
<1>4. t \in Seq(Int) /\ Len(t) = Len(s)  BY <1>2 DEF Reorders
<1>5. Reorders(t, r.array, a, b) /\ SplitsAt(r.array, a, r.at, b)
  BY <1>3, <1>4, UnguardedPartitionIs
<1>6. Reorders(s, r.array, a, b)  BY <1>2, <1>5, ReordersTrans
<1> QED  BY <1>5, <1>6 DEF r

-----------------------------------------------------------------------------
(* Arrays that are in order but for what open parts have to sort.            *)

Within(q, i) == q.a <= i /\ i < q.b

Apart(q, r) == q.b <= r.a \/ r.b <= q.a

Ordered(s, pt, O) ==
  \A i, k \in 1 .. Len(s) :
    i < k => s[i] <= s[k] \/ \E j \in O : Within(pt[j], i) /\ Within(pt[j], k)

(* t has the items of s, and those of the open part j in another order.      *)
Rearranging(s, t, pt, O, j) ==
  /\ s \in Seq(Int) /\ j \in O /\ \A o \in O : pt[o] \in [a : Nat, b : Nat]
  /\ 1 <= pt[j].a /\ pt[j].b <= Len(s) + 1
  /\ \A o \in O : o # j => Apart(pt[o], pt[j])
  /\ Ordered(s, pt, O) /\ Reorders(s, t, pt[j].a, pt[j].b)

(* A pair with one item in the part that is rearranged. *)
LEMMA OrderedAcross ==
  ASSUME NEW s, NEW t, NEW O, NEW pt, NEW j, Rearranging(s, t, pt, O, j),
         NEW i \in 1 .. Len(s), NEW k \in 1 .. Len(s), i < k,
         ~(Within(pt[j], i) /\ Within(pt[j], k))
  PROVE  t[i] <= t[k] \/ \E o \in O \ {j} : Within(pt[o], i) /\ Within(pt[o], k)
<1> USE DEF Rearranging
<1> DEFINE a == pt[j].a
           b == pt[j].b
           P == a .. b - 1
<1>1. a \in Nat /\ b \in Nat /\ 1 <= a /\ b <= Len(s) + 1 /\ Len(s) \in Nat  OBVIOUS
<1>2. DOMAIN s = 1 .. Len(s)  BY LenProperties
<1>3. P \subseteq 1 .. Len(s)  BY <1>1
<1>4. /\ \A m \in P : \E n \in P : t[m] = s[n]
      /\ \A m \in 1 .. Len(s) : m \notin P => t[m] = s[m]
  BY <1>2 DEF Reorders
<1>5. \A m \in 1 .. Len(s) : m \in P <=> Within(pt[j], m)  BY <1>1 DEF Within
<1>6. ASSUME NEW m \in P, NEW o \in O, o # j PROVE ~Within(pt[o], m)
  <2>1. Apart(pt[o], pt[j])  BY <1>6
  <2>2. pt[o].a \in Nat /\ pt[o].b \in Nat  OBVIOUS
  <2>3. a <= m /\ m < b /\ m \in Nat  BY <1>1, <1>3
  <2> HIDE DEF P
  <2> QED  BY <1>1, <2>1, <2>2, <2>3 DEF Apart, Within
<1>7. \A m, n \in 1 .. Len(s) :
        m < n => s[m] <= s[n] \/ \E o \in O : Within(pt[o], m) /\ Within(pt[o], n)
  BY DEF Ordered
<1>8. CASE i \in P /\ k \notin P
  <2>1. PICK n \in P : t[i] = s[n]  BY <1>4, <1>8
  <2>2. n < k /\ n \in 1 .. Len(s)  BY <1>1, <1>3, <1>8
  <2>3. t[k] = s[k] /\ ~Within(pt[j], k)  BY <1>4, <1>5, <1>8
  <2> HIDE DEF P
  <2> QED  BY <1>6, <1>7, <2>1, <2>2, <2>3
<1>9. CASE i \notin P /\ k \in P
  <2>1. PICK n \in P : t[k] = s[n]  BY <1>4, <1>9
  <2>2. i < n /\ n \in 1 .. Len(s)  BY <1>1, <1>3, <1>9
  <2>3. t[i] = s[i] /\ ~Within(pt[j], i)  BY <1>4, <1>5, <1>9
  <2> HIDE DEF P
  <2> QED  BY <1>6, <1>7, <2>1, <2>2, <2>3
<1>10. CASE i \notin P /\ k \notin P
  <2>1. t[i] = s[i] /\ t[k] = s[k] /\ ~Within(pt[j], i)  BY <1>4, <1>5, <1>10
  <2> HIDE DEF P
  <2> QED  BY <1>7, <2>1
<1> QED  BY <1>5, <1>8, <1>9, <1>10

LEMMA OrderedReordered ==
  ASSUME NEW s, NEW t, NEW O, NEW pt, NEW j, Rearranging(s, t, pt, O, j)
  PROVE  /\ Ordered(t, pt, O)
         /\ Ascending(t, pt[j].a, pt[j].b) => Ordered(t, pt, O \ {j})
<1>1. Len(t) = Len(s)  BY DEF Rearranging, Reorders
<1>2. ASSUME NEW i \in 1 .. Len(s), NEW k \in 1 .. Len(s), i < k
      PROVE  \/ Within(pt[j], i) /\ Within(pt[j], k)
             \/ t[i] <= t[k]
             \/ \E o \in O \ {j} : Within(pt[o], i) /\ Within(pt[o], k)
  BY <1>2, OrderedAcross
<1>3. Ordered(t, pt, O)
  <2>1. j \in O  BY DEF Rearranging
  <2>2. \A i, k \in 1 .. Len(s) :
          i < k => t[i] <= t[k] \/ \E o \in O : Within(pt[o], i) /\ Within(pt[o], k)
    BY <1>2, <2>1
  <2> QED  BY <1>1, <2>2 DEF Ordered
<1>4. ASSUME Ascending(t, pt[j].a, pt[j].b) PROVE Ordered(t, pt, O \ {j})
  <2>1. ASSUME NEW i \in 1 .. Len(s), NEW k \in 1 .. Len(s), i < k,
               Within(pt[j], i), Within(pt[j], k)
        PROVE  t[i] <= t[k]
    <3>1. pt[j].a \in Nat /\ pt[j].b \in Nat  BY DEF Rearranging
    <3>2. i \in pt[j].a .. pt[j].b - 1 /\ k \in pt[j].a .. pt[j].b - 1
      BY <2>1, <3>1 DEF Within
    <3> QED  BY <1>4, <2>1, <3>2 DEF Ascending
  <2> QED  BY <1>1, <1>2, <2>1 DEF Ordered
<1> QED  BY <1>3, <1>4

LEMMA OrderedSplit ==
  ASSUME NEW s \in Seq(Int), NEW O, NEW pt, NEW pu, NEW j \in O, NEW k, k # j,
         pt[j].a \in Nat, pt[j].b \in Nat, 1 <= pt[j].a, pt[j].b <= Len(s) + 1,
         NEW m \in Int, SplitsAt(s, pt[j].a, m, pt[j].b), Ordered(s, pt, O),
         k \notin O, \A o \in O : o # j => pu[o] = pt[o],
         pu[k] = [a |-> pt[j].a, b |-> m], pu[j] = [a |-> m + 1, b |-> pt[j].b]
  PROVE  Ordered(s, pu, O \cup {k})
<1> DEFINE a == pt[j].a
           b == pt[j].b
<1>1. /\ a \in Nat /\ b \in Nat /\ m \in Nat /\ Len(s) \in Nat /\ a <= m /\ m < b
      /\ b <= Len(s) + 1
  BY DEF SplitsAt
<1>2. \A i \in 1 .. Len(s) : s[i] \in Int  BY ElementOfSeq
<1> SUFFICES ASSUME NEW i \in 1 .. Len(s), NEW n \in 1 .. Len(s), i < n, ~(s[i] <= s[n])
             PROVE  \E o \in O \cup {k} : Within(pu[o], i) /\ Within(pu[o], n)
  BY DEF Ordered
<1>3. PICK o \in O : Within(pt[o], i) /\ Within(pt[o], n)  BY DEF Ordered
<1>4. CASE o # j  BY <1>3, <1>4
<1>5. CASE o = j
  <2>1. a <= i /\ i < b /\ a <= n /\ n < b  BY <1>3, <1>5 DEF Within
  <2>2. /\ \A q \in a .. m - 1 : s[q] <= s[m]
        /\ \A q \in m + 1 .. b - 1 : s[m] <= s[q]
    BY DEF SplitsAt
  <2>3. m \in 1 .. Len(s) /\ s[m] \in Int  BY <1>1, <1>2
  <2>4. CASE n < m
    <3>1. Within(pu[k], i) /\ Within(pu[k], n)  BY <1>1, <2>1, <2>4 DEF Within
    <3> QED  BY <3>1
  <2>5. CASE m < i
    <3>1. Within(pu[j], i) /\ Within(pu[j], n)  BY <1>1, <2>1, <2>5 DEF Within
    <3> QED  BY <3>1
  <2>6. CASE i <= m /\ m <= n
    <3>1. s[i] <= s[m]
      <4>1. i = m \/ i \in a .. m - 1  BY <1>1, <2>1, <2>6
      <4> QED  BY <2>2, <2>3, <4>1
    <3>2. s[m] <= s[n]
      <4>1. n = m \/ n \in m + 1 .. b - 1  BY <1>1, <2>1, <2>6
      <4> QED  BY <2>2, <2>3, <4>1
    <3> QED  BY <1>2, <2>3, <3>1, <3>2
  <2> HIDE DEF a, b
  <2> QED  BY <1>1, <2>4, <2>5, <2>6
<1> QED  BY <1>4, <1>5

-----------------------------------------------------------------------------
(* The inductive invariant. *)

OpenJobs == {j \in Jobs : runs[j] > 0 /\ stage[j] # "sorted"}

Quiet ==
  /\ queue = <<>> /\ ~Locked
  /\ \A j \in Jobs : pc[j] = "idle" /\ state[j] = "idle" /\ deps[j] = 0

SortTypes ==
  /\ input \in Seq(Int) /\ array \in Seq(Int) /\ Len(array) = Len(input)
  /\ \A v \in Int : Count(array, v) = Count(input, v)
  /\ part \in [Jobs -> [a : Nat, b : Nat]]
  /\ stage \in [Jobs -> {"loop", "spawn", "sorted"}] /\ split \in [Jobs -> Nat]
  /\ call \in {"start", "test", "waiting", "join", "joining", "returned"}

(* The parts of the jobs are ranges of the array without a common item. *)
PartsInv ==
  /\ \A j \in Jobs : runs[j] > 0 =>
       1 <= part[j].a /\ part[j].a <= part[j].b /\ part[j].b <= Len(input) + 1
  /\ PartsDisjoint

(* How far operator() is, given where the activation is. *)
StageInv ==
  \A j \in Jobs :
    /\ runs[j] = 0 => pc[j] = "idle"
    /\ runs[j] = 0 \/ pc[j] \in {"marked", "queued", "claimed"} => stage[j] = "loop"
    /\ stage[j] = "spawn" => pc[j] = "body"
    /\ runs[j] > 0 /\ pc[j] \in {"ended", "finishing", "idle"} => stage[j] = "sorted"
    /\ deps[j] = 0 /\ pc[j] # "marked" => state[j] = "idle"

(* A job that has partitioned and has yet to create the subjob. *)
SplitInv ==
  \A j \in Jobs : stage[j] = "spawn" => SplitsAt(array, part[j].a, split[j], part[j].b)

(* Two items are in order unless an open part has both. *)
OrderInv == call # "start" => Ordered(array, part, OpenJobs)

(* Jobs are created in their order, and each by one that was created before. *)
TreeInv ==
  /\ \A j, k \in Jobs : runs[k] > 0 /\ Order[j] < Order[k] => runs[j] > 0
  /\ \A j \in Jobs \ {Master} :
       /\ pc[j] = "marked" => arg[j] \in Jobs /\ Order[arg[j]] < Order[j]
       /\ deps[j] > 0 => parent[j] \in Jobs /\ Order[parent[j]] < Order[j]

(* What the caller can rely on. *)
CallerInv ==
  /\ call = "start" => Quiet /\ \A j \in Jobs : runs[j] = 0
  /\ client.op # "free" =>
       /\ call = "joining" /\ client.job = Master
       /\ \A j \in Jobs : caller[j] # Main
  /\ call = "joining" /\ client.op = "free" => Quiet
  /\ call = "returned" => Quiet

(* What is known of the array and the parts, and the whole invariant. *)
DataInv == SortTypes /\ PartsInv /\ SplitInv /\ OrderInv

SortInv ==
  /\ JobInv /\ DataInv /\ StageInv /\ TreeInv /\ CallerInv

-----------------------------------------------------------------------------
(* Every step of the composition is one of the job manager or leaves it.     *)
LEMMA PoolOfSort == SortNext \/ UNCHANGED allVars => [Next]_vars
<1> USE SortAssumption DEF vars, allVars
<1>1. CallerStep => [Next]_vars
  BY DEF CallerStep, SortShort, EnqueueMaster, TestEstimate, JoinMaster, DeleteMaster, Next
<1>2. OnDone => [Next]_vars  BY DEF OnDone
<1>3. ASSUME NEW j \in Jobs, JobOfSortStep(j) PROVE [Next]_vars
  <2>1. CASE PartitionPart(j)  BY <2>1 DEF PartitionPart
  <2>2. CASE SortRest(j)  BY <2>2 DEF SortRest
  <2>3. CASE OperatorEnd(j)  BY <2>3 DEF OperatorEnd, Next, JobStep
  <2>4. CASE PoolStep(j)  BY <2>4 DEF PoolStep, Next, JobStep
  <2>5. CASE \E k \in Jobs : SpawnLeft(j, k)  BY <2>5 DEF SpawnLeft, Next
  <2> QED  BY <1>3, <2>1, <2>2, <2>3, <2>4, <2>5 DEF JobOfSortStep
<1>4. ASSUME NEW w \in Workers, ThreadStep(w) PROVE [Next]_vars
  BY <1>4 DEF ThreadStep, Next
<1> QED  BY <1>1, <1>2, <1>3, <1>4 DEF SortNext

LEMMA JobInvKept == ASSUME JobInv, SortNext \/ UNCHANGED allVars PROVE JobInv'
BY PoolOfSort, TypeStep, MutexStep, StateStep, QueueStep, CallStep, ParentStep,
   DepsStep DEF JobInv

-----------------------------------------------------------------------------
(* The array and the parts. *)

(* The steps that neither touch the array nor move a part. *)
Idle ==
  \/ TestEstimate \/ JoinMaster \/ DeleteMaster \/ OnDone \/ UNCHANGED allVars
  \/ \E j \in Jobs : OperatorEnd(j) \/ PoolStep(j)
  \/ \E w \in Workers : ThreadStep(w)

LEMMA StepKinds ==
  SortNext \/ UNCHANGED allVars =>
    \/ Idle \/ SortShort \/ EnqueueMaster
    \/ \E j \in Jobs : PartitionPart(j) \/ SortRest(j) \/ \E k \in Jobs : SpawnLeft(j, k)
BY DEF SortNext, CallerStep, JobOfSortStep, Idle

LEMMA IdleLeaves ==
  ASSUME Idle, SortTypes
  PROVE  /\ input' = input /\ array' = array /\ part' = part /\ stage' = stage
         /\ split' = split /\ runs' = runs
         /\ call' \in {"start", "test", "waiting", "join", "joining", "returned"}
         /\ call' = "start" <=> call = "start"
<1> USE DEF SortTypes, sortVars, allVars, vars, jobVars, lockVars, workerVars, boundVars
<1>1. CASE TestEstimate  BY <1>1 DEF TestEstimate
<1>2. CASE JoinMaster  BY <1>2 DEF JoinMaster, JoinCall
<1>3. CASE DeleteMaster  BY <1>3 DEF DeleteMaster
<1>4. CASE OnDone  BY <1>4 DEF OnDone, Woken
<1>5. CASE UNCHANGED allVars  BY <1>5
<1>6. ASSUME NEW j \in Jobs, OperatorEnd(j) PROVE runs' = runs /\ UNCHANGED sortVars
  BY <1>6 DEF OperatorEnd, BodyEnd
<1>7. ASSUME NEW j \in Jobs, PoolStep(j) PROVE runs' = runs /\ UNCHANGED sortVars
  BY <1>7 DEF PoolStep, Push, PushFull, RunStart, RunEnd, Done, JoinTest, RunReturn
<1>8. ASSUME NEW w \in Workers, ThreadStep(w) PROVE runs' = runs /\ UNCHANGED sortVars
  BY <1>8 DEF ThreadStep, WorkerStep, WorkerWait, WorkerQuit, WorkerPop
<1> QED  BY <1>1, <1>2, <1>3, <1>4, <1>5, <1>6, <1>7, <1>8 DEF Idle

LEMMA IdleKeepsData == ASSUME DataInv, Idle PROVE DataInv'
<1>1. /\ input' = input /\ array' = array /\ part' = part /\ stage' = stage
      /\ split' = split /\ runs' = runs
      /\ call' \in {"start", "test", "waiting", "join", "joining", "returned"}
      /\ call' = "start" <=> call = "start"
  BY IdleLeaves DEF DataInv
<1>2. SortTypes'  BY <1>1 DEF DataInv, SortTypes
<1>3. PartsInv'  BY <1>1 DEF DataInv, PartsInv, PartsDisjoint
<1>4. SplitInv'  BY <1>1 DEF DataInv, SplitInv
<1>5. OpenJobs' = OpenJobs  BY <1>1 DEF OpenJobs
<1>6. OrderInv'
  <2>1. call' # "start" => Ordered(array', part', OpenJobs')
    BY <1>1, <1>5 DEF DataInv, OrderInv
  <2> QED  BY <2>1 DEF OrderInv
<1> QED  BY <1>2, <1>3, <1>4, <1>6 DEF DataInv

LEMMA OpenParts ==
  ASSUME DataInv, NEW j \in Jobs, runs[j] > 0
  PROVE  /\ part[j].a \in Nat /\ part[j].b \in Nat /\ split[j] \in Nat
         /\ 1 <= part[j].a /\ part[j].a <= part[j].b /\ part[j].b <= Len(array) + 1
         /\ \A k \in Jobs : k # j /\ runs[k] > 0 => Apart(part[k], part[j])
BY DEF DataInv, SortTypes, PartsInv, PartsDisjoint, Apart

(* The items of the array stay when only part of it changes. *)
LEMMA ItemsKept ==
  ASSUME SortTypes, NEW a \in Nat, NEW b \in Nat, Reorders(array, array', a, b),
         input' = input
  PROVE  /\ array' \in Seq(Int) /\ Len(array') = Len(array) /\ Len(array') = Len(input')
         /\ \A v \in Int : Count(array', v) = Count(input', v)
BY DEF SortTypes, Reorders

LEMMA ShortKeepsData == ASSUME DataInv, StageInv, CallerInv, SortShort PROVE DataInv'
<1> USE DEF DataInv
<1> DEFINE n == Len(array)
<1>1. array \in Seq(Int) /\ n \in Nat /\ n = Len(input)  BY DEF SortTypes
<1>2. /\ Reorders(array, array', 1, n + 1) /\ Ascending(array', 1, n + 1)
      /\ call = "start" /\ call' = "returned"
      /\ input' = input /\ part' = part /\ stage' = stage /\ split' = split /\ runs' = runs
  BY <1>1, SortedBetweenIs DEF SortShort, vars, boundVars
<1>3. \A j \in Jobs : runs[j] = 0 /\ stage[j] = "loop"
  BY <1>2 DEF CallerInv, StageInv
<1>4. array' \in Seq(Int) /\ Len(array') = n  BY <1>2 DEF Reorders
<1>5. SortTypes'
  <2>1. /\ Len(array') = Len(input')
        /\ \A v \in Int : Count(array', v) = Count(input', v)
    BY <1>1, <1>2, ItemsKept
  <2> QED  BY <1>2, <1>4, <2>1 DEF SortTypes
<1>6. PartsInv' /\ SplitInv'
  BY <1>2, <1>3 DEF PartsInv, PartsDisjoint, SplitInv
<1>7. Ordered(array', part', OpenJobs')
  <2>1. \A i, k \in 1 .. Len(array') : i < k => array'[i] <= array'[k]
    <3>1. \A i \in 1 .. Len(array') : i \in 1 .. n + 1 - 1  BY <1>1, <1>4
    <3> QED  BY <1>2, <3>1 DEF Ascending
  <2> QED  BY <2>1 DEF Ordered
<1> QED  BY <1>5, <1>6, <1>7 DEF OrderInv

LEMMA MasterKeepsData == ASSUME JobInv, DataInv, StageInv, CallerInv, EnqueueMaster PROVE DataInv'
<1> USE SortAssumption DEF DataInv
<1>1. /\ call = "start" /\ call' = "test" /\ input' = input /\ array' = array
      /\ stage' = stage /\ split' = split
      /\ part' = [part EXCEPT ![Master] = [a |-> 1, b |-> Len(input) + 1]]
      /\ runs' = [runs EXCEPT ![Master] = @ + 1]
  BY DEF EnqueueMaster, EnqueueRoot, Mark
<1>2. \A j \in Jobs : runs[j] = 0 /\ stage[j] = "loop"
  BY <1>1 DEF CallerInv, StageInv
<1>3. runs \in [Jobs -> Nat]  BY DEF JobInv, TypeOK
<1>4. \A j \in Jobs : runs'[j] > 0 <=> j = Master  BY <1>1, <1>2, <1>3
<1>5. part'[Master] = [a |-> 1, b |-> Len(array) + 1] /\ Len(input) \in Nat
  BY <1>1 DEF SortTypes
<1>6. SortTypes'  BY <1>1, <1>5 DEF SortTypes
<1>7. PartsInv'
  BY <1>1, <1>4, <1>5 DEF PartsInv, PartsDisjoint, SortTypes
<1>8. SplitInv'  BY <1>1, <1>2 DEF SplitInv
<1>9. OpenJobs' = {Master}  BY <1>1, <1>2, <1>4 DEF OpenJobs
<1>10. Ordered(array', part', {Master})
  BY <1>1, <1>5 DEF Ordered, Within, SortTypes
<1> QED  BY <1>6, <1>7, <1>8, <1>9, <1>10 DEF OrderInv

(* What a job does in its own part leaves a split elsewhere as it is. *)
LEMMA SplitsElsewhere ==
  ASSUME NEW s \in Seq(Int), NEW t, NEW a \in Nat, NEW b \in Nat, Reorders(s, t, a, b),
         NEW c \in Nat, NEW m \in Nat, NEW d \in Nat, 1 <= c, d <= Len(s) + 1,
         d <= a \/ b <= c, SplitsAt(s, c, m, d)
  PROVE  SplitsAt(t, c, m, d)
<1>1. m \in c .. d - 1  BY DEF SplitsAt
<1>2. DOMAIN s = 1 .. Len(s) /\ Len(s) \in Nat  BY LenProperties
<1>3. \A i \in c .. d - 1 : t[i] = s[i]
  <2> SUFFICES ASSUME NEW i \in c .. d - 1 PROVE t[i] = s[i]  OBVIOUS
  <2>1. i \in DOMAIN s /\ i \notin a .. b - 1  BY <1>2
  <2> QED  BY <2>1 DEF Reorders
<1>4. \A i \in c .. m - 1 : i \in c .. d - 1  BY <1>1
<1>5. \A i \in m + 1 .. d - 1 : i \in c .. d - 1  BY <1>1
<1> QED  BY <1>1, <1>3, <1>4, <1>5 DEF SplitsAt

(* The job j puts the items of its part in another order. *)
LEMMA PartKeepsOrder ==
  ASSUME DataInv, NEW j \in OpenJobs, call # "start",
         Reorders(array, array', part[j].a, part[j].b)
  PROVE  /\ Ordered(array', part, OpenJobs)
         /\ Ascending(array', part[j].a, part[j].b) => Ordered(array', part, OpenJobs \ {j})
         /\ \A k \in Jobs : stage[k] = "spawn" /\ runs[k] > 0 /\ k # j =>
              SplitsAt(array', part[k].a, split[k], part[k].b)
<1>1. j \in Jobs /\ runs[j] > 0 /\ \A k \in OpenJobs : k \in Jobs /\ runs[k] > 0
  BY DEF OpenJobs
<1>2. array \in Seq(Int)  BY DEF DataInv, SortTypes
<1>3. /\ 1 <= part[j].a /\ part[j].b <= Len(array) + 1 /\ part[j].a \in Nat /\ part[j].b \in Nat
      /\ \A k \in Jobs : k # j /\ runs[k] > 0 => Apart(part[k], part[j])
  BY <1>1, OpenParts
<1>4. \A k \in Jobs : part[k] \in [a : Nat, b : Nat]  BY DEF DataInv, SortTypes
<1>5. Ordered(array, part, OpenJobs)  BY DEF DataInv, OrderInv
<1>6. Rearranging(array, array', part, OpenJobs, j)
  BY <1>1, <1>2, <1>3, <1>4, <1>5 DEF Rearranging
<1>7. ASSUME NEW k \in Jobs, stage[k] = "spawn", runs[k] > 0, k # j
      PROVE  SplitsAt(array', part[k].a, split[k], part[k].b)
  <2>1. /\ part[k].a \in Nat /\ part[k].b \in Nat /\ split[k] \in Nat
        /\ 1 <= part[k].a /\ part[k].b <= Len(array) + 1
    BY <1>7, OpenParts
  <2>2. part[k].b <= part[j].a \/ part[j].b <= part[k].a
    BY <1>3, <1>7 DEF Apart
  <2>3. SplitsAt(array, part[k].a, split[k], part[k].b)
    BY <1>7 DEF DataInv, SplitInv
  <2> QED  BY <1>2, <1>3, <2>1, <2>2, <2>3, SplitsElsewhere
<1> QED  BY <1>6, <1>7, OrderedReordered

LEMMA PartitionKeepsData ==
  ASSUME JobInv, DataInv, StageInv, CallerInv, NEW j \in Jobs, PartitionPart(j) PROVE DataInv'
<1> USE SortAssumption
<1> DEFINE a == part[j].a
           b == part[j].b
           p == PartitionAt(array, a, b)
<1>1. /\ pc[j] = "body" /\ stage[j] = "loop" /\ b - a >= MinSize
      /\ array' = p.array /\ split' = [split EXCEPT ![j] = p.at]
      /\ stage' = [stage EXCEPT ![j] = "spawn"] /\ call' = Woken
      /\ input' = input /\ part' = part /\ runs' = runs
  BY DEF PartitionPart, Working, Size, vars, boundVars
<1>2. runs \in [Jobs -> Nat] /\ runs[j] > 0
  BY <1>1 DEF JobInv, TypeOK, StageInv
<1>3. call # "start" /\ call' # "start"  BY <1>1, <1>2 DEF CallerInv, Woken
<1>4. /\ a \in Nat /\ b \in Nat /\ 1 <= a /\ b <= Len(array) + 1 /\ array \in Seq(Int)
      /\ stage \in [Jobs -> {"loop", "spawn", "sorted"}] /\ split \in [Jobs -> Nat]
      /\ call \in {"start", "test", "waiting", "join", "joining", "returned"}
  BY <1>2, OpenParts DEF DataInv, SortTypes
<1>5. a < b  BY <1>1, <1>4
<1>6. Reorders(array, array', a, b) /\ SplitsAt(array', a, p.at, b)
  <2> HIDE DEF a, b
  <2>1. LET r == PartitionAt(array, a, b)
        IN  Reorders(array, r.array, a, b) /\ SplitsAt(r.array, a, r.at, b)
    BY <1>4, <1>5, PartitionAtIs
  <2> QED  BY <1>1, <2>1
<1>7. p.at \in Nat  BY <1>4, <1>6 DEF SplitsAt
<1> HIDE DEF p
<1>8. j \in OpenJobs /\ OpenJobs' = OpenJobs
  BY <1>1, <1>2, <1>4 DEF OpenJobs
<1>9. /\ Ordered(array', part, OpenJobs)
      /\ \A k \in Jobs : stage[k] = "spawn" /\ runs[k] > 0 /\ k # j =>
           SplitsAt(array', part[k].a, split[k], part[k].b)
  BY <1>3, <1>6, <1>8, PartKeepsOrder
<1>10. SortTypes'
  <2>1. /\ array' \in Seq(Int) /\ Len(array') = Len(input')
        /\ \A v \in Int : Count(array', v) = Count(input', v)
    BY <1>1, <1>4, <1>6, ItemsKept DEF DataInv
  <2>2. call' \in {"start", "test", "waiting", "join", "joining", "returned"}
    BY <1>1, <1>4 DEF Woken
  <2>3. stage' \in [Jobs -> {"loop", "spawn", "sorted"}] /\ split' \in [Jobs -> Nat]
    BY <1>1, <1>4, <1>7
  <2>4. input' \in Seq(Int) /\ part' \in [Jobs -> [a : Nat, b : Nat]]
    BY <1>1 DEF DataInv, SortTypes
  <2> QED  BY <2>1, <2>2, <2>3, <2>4 DEF SortTypes
<1>11. PartsInv'  BY <1>1 DEF DataInv, PartsInv, PartsDisjoint
<1>12. SplitInv'
  <2> SUFFICES ASSUME NEW k \in Jobs, stage'[k] = "spawn"
               PROVE  SplitsAt(array', part'[k].a, split'[k], part'[k].b)
    BY DEF SplitInv
  <2>1. CASE k = j  BY <1>1, <1>4, <1>6, <2>1
  <2>2. CASE k # j
    <3>1. stage[k] = "spawn" /\ split'[k] = split[k]  BY <1>1, <1>4, <2>2
    <3>2. runs[k] > 0  BY <1>2, <3>1 DEF StageInv
    <3> QED  BY <1>1, <1>9, <2>2, <3>1, <3>2
  <2> QED  BY <2>1, <2>2
<1>13. OrderInv'
  <2>1. Ordered(array', part', OpenJobs')  BY <1>1, <1>8, <1>9
  <2> QED  BY <2>1 DEF OrderInv
<1> QED  BY <1>10, <1>11, <1>12, <1>13 DEF DataInv

LEMMA RestKeepsData ==
  ASSUME JobInv, DataInv, StageInv, CallerInv, NEW j \in Jobs, SortRest(j) PROVE DataInv'
<1> DEFINE a == part[j].a
           b == part[j].b
<1>1. /\ pc[j] = "body" /\ stage[j] = "loop" /\ array' = SortedBetween(array, a, b)
      /\ stage' = [stage EXCEPT ![j] = "sorted"] /\ call' = Woken
      /\ input' = input /\ part' = part /\ split' = split /\ runs' = runs
  BY DEF SortRest, Working, vars, boundVars
<1>2. runs \in [Jobs -> Nat] /\ runs[j] > 0
  BY <1>1 DEF JobInv, TypeOK, StageInv
<1>3. call # "start" /\ call' # "start"  BY <1>1, <1>2 DEF CallerInv, Woken
<1>4. /\ a \in Nat /\ b \in Nat /\ 1 <= a /\ b <= Len(array) + 1 /\ array \in Seq(Int)
      /\ stage \in [Jobs -> {"loop", "spawn", "sorted"}]
      /\ call \in {"start", "test", "waiting", "join", "joining", "returned"}
  BY <1>2, OpenParts DEF DataInv, SortTypes
<1>5. Reorders(array, array', a, b) /\ Ascending(array', a, b)
  <2> HIDE DEF a, b
  <2> QED  BY <1>1, <1>4, SortedBetweenIs
<1>6. j \in OpenJobs /\ OpenJobs' = OpenJobs \ {j}
  BY <1>1, <1>2, <1>4 DEF OpenJobs
<1>7. /\ Ordered(array', part, OpenJobs \ {j})
      /\ \A k \in Jobs : stage[k] = "spawn" /\ runs[k] > 0 /\ k # j =>
           SplitsAt(array', part[k].a, split[k], part[k].b)
  BY <1>3, <1>5, <1>6, PartKeepsOrder
<1>8. SortTypes'
  <2>1. /\ array' \in Seq(Int) /\ Len(array') = Len(input')
        /\ \A v \in Int : Count(array', v) = Count(input', v)
    BY <1>1, <1>4, <1>5, ItemsKept DEF DataInv
  <2>2. call' \in {"start", "test", "waiting", "join", "joining", "returned"}
    BY <1>1, <1>4 DEF Woken
  <2>3. stage' \in [Jobs -> {"loop", "spawn", "sorted"}]  BY <1>1, <1>4
  <2>4. /\ input' \in Seq(Int) /\ part' \in [Jobs -> [a : Nat, b : Nat]]
        /\ split' \in [Jobs -> Nat]
    BY <1>1 DEF DataInv, SortTypes
  <2> QED  BY <2>1, <2>2, <2>3, <2>4 DEF SortTypes
<1>9. PartsInv'  BY <1>1 DEF DataInv, PartsInv, PartsDisjoint
<1>10. SplitInv'
  <2> SUFFICES ASSUME NEW k \in Jobs, stage'[k] = "spawn"
               PROVE  SplitsAt(array', part'[k].a, split'[k], part'[k].b)
    BY DEF SplitInv
  <2>1. k # j /\ stage[k] = "spawn"  BY <1>1, <1>4
  <2>2. runs[k] > 0  BY <1>2, <2>1 DEF StageInv
  <2> QED  BY <1>1, <1>7, <2>1, <2>2
<1>11. OrderInv'
  <2>1. Ordered(array', part', OpenJobs')  BY <1>1, <1>6, <1>7
  <2> QED  BY <2>1 DEF OrderInv
<1> QED  BY <1>8, <1>9, <1>10, <1>11 DEF DataInv

LEMMA SpawnKeepsData ==
  ASSUME JobInv, DataInv, StageInv, CallerInv, NEW j \in Jobs, NEW k \in Jobs, SpawnLeft(j, k)
  PROVE  DataInv'
<1> DEFINE a == part[j].a
           b == part[j].b
           m == split[j]
<1>1. /\ stage[j] = "spawn" /\ runs[k] = 0 /\ pc[j] = "body"
      /\ part' = [part EXCEPT ![k] = [a |-> a, b |-> m], ![j].a = m + 1]
      /\ stage' = [stage EXCEPT ![j] = "loop"] /\ runs' = [runs EXCEPT ![k] = @ + 1]
      /\ input' = input /\ array' = array /\ split' = split /\ call' = call
  BY DEF SpawnLeft, EnqueueSub, Mark
<1>2. runs \in [Jobs -> Nat] /\ runs[j] > 0 /\ j # k
  BY <1>1 DEF JobInv, TypeOK, StageInv
<1>3. call # "start"  BY <1>2 DEF CallerInv
<1>4. /\ a \in Nat /\ b \in Nat /\ 1 <= a /\ b <= Len(array) + 1 /\ array \in Seq(Int)
      /\ \A i \in Jobs : i # j /\ runs[i] > 0 => Apart(part[i], part[j])
      /\ stage \in [Jobs -> {"loop", "spawn", "sorted"}]
      /\ part \in [Jobs -> [a : Nat, b : Nat]]
  BY <1>2, OpenParts DEF DataInv, SortTypes
<1>5. SplitsAt(array, a, m, b)  BY <1>1 DEF DataInv, SplitInv
<1>6. m \in Nat /\ a <= m /\ m < b  BY <1>4, <1>5 DEF SplitsAt
<1>7. /\ part'[k] = [a |-> a, b |-> m] /\ part'[j] = [a |-> m + 1, b |-> b]
      /\ \A i \in Jobs : i # j /\ i # k => part'[i] = part[i]
  BY <1>1, <1>2, <1>4
<1>8. stage[k] = "loop"  BY <1>1, <1>2 DEF StageInv
<1>9. /\ \A i \in Jobs : runs'[i] > 0 <=> i = k \/ runs[i] > 0
      /\ \A i \in Jobs : i # j => stage'[i] = stage[i]
      /\ stage'[j] = "loop"
  BY <1>1, <1>2, <1>4
<1>10. /\ j \in OpenJobs /\ k \notin OpenJobs /\ OpenJobs' = OpenJobs \cup {k}
  BY <1>1, <1>2, <1>8, <1>9 DEF OpenJobs
<1>11. SortTypes'
  <2>1. part' \in [Jobs -> [a : Nat, b : Nat]]
    <3>1. ASSUME NEW i \in Jobs PROVE part'[i] \in [a : Nat, b : Nat]
      <4>1. part'[k] \in [a : Nat, b : Nat]
        <5>1. a \in Nat  BY <1>4
        <5> HIDE DEF a, b, m
        <5> QED  BY <1>6, <1>7, <5>1
      <4>2. part'[j] \in [a : Nat, b : Nat]
        <5>1. b \in Nat  BY <1>4
        <5> HIDE DEF a, b, m
        <5> QED  BY <1>6, <1>7, <5>1
      <4>3. CASE i # j /\ i # k
        <5>1. part'[i] = part[i]  BY <1>7, <4>3
        <5> QED  BY <1>4, <5>1
      <4> QED  BY <4>1, <4>2, <4>3
    <3>2. part' = [i \in Jobs |-> part'[i]]  BY <1>1, <1>4
    <3> QED  BY <3>1, <3>2
  <2>2. stage' \in [Jobs -> {"loop", "spawn", "sorted"}]  BY <1>1, <1>4
  <2> QED  BY <1>1, <2>1, <2>2 DEF DataInv, SortTypes
<1>12. PartsInv'
  <2>1. ASSUME NEW i \in Jobs, runs'[i] > 0
        PROVE  1 <= part'[i].a /\ part'[i].a <= part'[i].b /\ part'[i].b <= Len(input') + 1
    <3>1. Len(input') = Len(array) /\ Len(array) \in Nat
      BY <1>1, <1>4 DEF DataInv, SortTypes
    <3>2. CASE i = j  BY <1>4, <1>6, <1>7, <3>1, <3>2
    <3>3. CASE i = k  BY <1>4, <1>6, <1>7, <3>1, <3>3
    <3>4. CASE i # j /\ i # k
      BY <1>7, <1>9, <2>1, <3>1, <3>4, OpenParts
    <3> QED  BY <3>2, <3>3, <3>4
  <2>2. ASSUME NEW i \in Jobs, NEW n \in Jobs, i # n, runs'[i] > 0, runs'[n] > 0
        PROVE  Apart(part'[n], part'[i])
    <3>1. ASSUME NEW q \in Jobs, q # j, q # k, runs'[q] > 0
          PROVE  /\ Apart(part'[q], part'[j]) /\ Apart(part'[q], part'[k])
                 /\ Apart(part'[j], part'[q]) /\ Apart(part'[k], part'[q])
      <4>1. part'[q] = part[q] /\ part[q].a \in Nat /\ part[q].b \in Nat
        BY <1>4, <1>7, <3>1
      <4>2. part[q].b <= a \/ b <= part[q].a  BY <1>4, <1>9, <3>1 DEF Apart
      <4> HIDE DEF a, b, m
      <4> QED  BY <1>4, <1>6, <1>7, <4>1, <4>2 DEF Apart
    <3>2. Apart(part'[j], part'[k]) /\ Apart(part'[k], part'[j])
      BY <1>6, <1>7 DEF Apart
    <3>3. CASE i \notin {j, k} /\ n \notin {j, k}
      <4>1. runs[i] > 0 /\ runs[n] > 0  BY <1>9, <2>2, <3>3
      <4>2. Apart(part[n], part[i])  BY <2>2, <4>1, OpenParts
      <4> QED  BY <1>7, <3>3, <4>2
    <3> QED  BY <2>2, <3>1, <3>2, <3>3
  <2> QED  BY <2>1, <2>2 DEF PartsInv, PartsDisjoint, Apart
<1>13. SplitInv'
  <2> SUFFICES ASSUME NEW i \in Jobs, stage'[i] = "spawn"
               PROVE  SplitsAt(array', part'[i].a, split'[i], part'[i].b)
    BY DEF SplitInv
  <2>1. i # j /\ i # k /\ stage[i] = "spawn"  BY <1>2, <1>8, <1>9
  <2> QED  BY <1>1, <1>7, <2>1 DEF DataInv, SplitInv
<1>14. Ordered(array', part', OpenJobs')
  <2>1. Ordered(array, part, OpenJobs)  BY <1>3 DEF DataInv, OrderInv
  <2>2. \A o \in OpenJobs : o # j => part'[o] = part[o]
    BY <1>7, <1>10 DEF OpenJobs
  <2>3. Ordered(array, part', OpenJobs \cup {k})
    <3>1. /\ part[j].a \in Nat /\ part[j].b \in Nat
          /\ 1 <= part[j].a /\ part[j].b <= Len(array) + 1
      BY <1>4
    <3>2. SplitsAt(array, part[j].a, m, part[j].b) /\ m \in Int  BY <1>5, <1>6
    <3>3. part'[k] = [a |-> part[j].a, b |-> m] /\ part'[j] = [a |-> m + 1, b |-> part[j].b]
      BY <1>7
    <3>4. array \in Seq(Int) /\ j \in OpenJobs /\ k # j /\ k \notin OpenJobs
      BY <1>2, <1>4, <1>10
    <3> HIDE DEF m
    <3> DEFINE O == OpenJobs
               pu == part'
    <3>5. /\ j \in O /\ k \notin O /\ Ordered(array, part, O)
          /\ \A o \in O : o # j => pu[o] = part[o]
          /\ pu[k] = [a |-> part[j].a, b |-> m] /\ pu[j] = [a |-> m + 1, b |-> part[j].b]
      BY <2>1, <2>2, <3>3, <3>4
    <3> HIDE DEF O, pu
    <3>6. Ordered(array, pu, O \cup {k})
      BY <3>1, <3>2, <3>4, <3>5, OrderedSplit
    <3> QED  BY <3>6 DEF O, pu
  <2> QED  BY <1>1, <1>10, <2>3
<1> QED  BY <1>11, <1>12, <1>13, <1>14 DEF DataInv, OrderInv

LEMMA DataKept ==
  ASSUME JobInv, DataInv, StageInv, CallerInv, SortNext \/ UNCHANGED allVars
  PROVE  DataInv'
BY StepKinds, IdleKeepsData, ShortKeepsData, MasterKeepsData, PartitionKeepsData,
   RestKeepsData, SpawnKeepsData

-----------------------------------------------------------------------------
(* Where operator() is. *)
LEMMA StageKept ==
  ASSUME JobInv, DataInv, StageInv, CallerInv, SortNext \/ UNCHANGED allVars
  PROVE  StageInv'
<1> USE SortAssumption, JobsAssumption DEF StageInv, vars, allVars, sortVars, jobVars,
      lockVars, workerVars, boundVars, Mark, Frames, JobOrNone
<1>1. /\ TypeOK /\ QueueInv /\ stage \in [Jobs -> {"loop", "spawn", "sorted"}]
  BY DEF JobInv, DataInv, SortTypes
<1> USE <1>1 DEF TypeOK
<1>2. CASE SortShort  BY <1>2 DEF SortShort
<1>3. CASE EnqueueMaster
  <2>1. \A j \in Jobs : runs[j] = 0 /\ stage[j] = "loop"
    BY <1>3 DEF EnqueueMaster, CallerInv
  <2> QED  BY <1>3, <2>1 DEF EnqueueMaster, EnqueueRoot
<1>4. CASE TestEstimate  BY <1>4 DEF TestEstimate
<1>5. CASE JoinMaster  BY <1>5 DEF JoinMaster, JoinCall
<1>6. CASE DeleteMaster  BY <1>6 DEF DeleteMaster
<1>7. CASE OnDone  BY <1>7 DEF OnDone
<1>8. ASSUME NEW j \in Jobs, PartitionPart(j) PROVE StageInv'
  BY <1>8 DEF PartitionPart, Working
<1>9. ASSUME NEW j \in Jobs, SortRest(j) PROVE StageInv'
  BY <1>9 DEF SortRest, Working
<1>10. ASSUME NEW j \in Jobs, NEW k \in Jobs, SpawnLeft(j, k) PROVE StageInv'
  <2>1. runs[k] = 0 /\ stage[k] = "loop" /\ stage[j] = "spawn" /\ pc[j] = "body"
    BY <1>10 DEF SpawnLeft
  <2> QED  BY <1>10, <2>1 DEF SpawnLeft, EnqueueSub
<1>11. ASSUME NEW j \in Jobs, OperatorEnd(j) PROVE StageInv'
  BY <1>11 DEF OperatorEnd, BodyEnd
<1>12. ASSUME NEW j \in Jobs, PoolStep(j) PROVE StageInv'
  <2>1. UNCHANGED sortVars  BY <1>12 DEF PoolStep
  <2>2. ASSUME Push(j) \/ PushFull(j) PROVE StageInv'
    <3>1. \A k \in Jobs : deps'[k] = 0 => deps[k] = 0 /\ k # j
      <4>1. deps' = [k \in Jobs |-> IF k = j THEN 1 ELSE
                                     IF k = arg[j] THEN deps[k] + 1 ELSE deps[k]]
        BY <2>2 DEF Push, PushFull, Register
      <4>2. deps \in [Jobs -> Nat]  OBVIOUS
      <4> QED  BY ONLY <4>1, <4>2
    <3>2. pc[j] = "marked" /\ state' = state /\ runs' = runs
          /\ \A k \in Jobs : k # j => pc'[k] = pc[k]
      BY <2>2 DEF Push, PushFull
    <3>3. pc'[j] \in {"queued", "claimed"}  BY <2>2 DEF Push, PushFull
    <3> QED  BY <2>1, <3>1, <3>2, <3>3
  <2>3. CASE RunStart(j)
    <3>1. deps[j] > 0  BY <2>3, Counts DEF RunStart, Own
    <3> QED  BY <2>1, <2>3, <3>1 DEF RunStart
  <2>4. CASE RunEnd(j)  BY <2>1, <2>4 DEF RunEnd
  <2>5. CASE Done(j)
    <3>1. deps[j] > 0 /\ holder = j  BY <2>5, Counts DEF Done
    <3>2. /\ \A k \in Jobs : k # j => deps'[k] = deps[k] /\ state'[k] = state[k]
          /\ deps'[j] = 0 => state'[j] = "idle"
          /\ pc' = pc /\ runs' = runs
      BY <2>5, <3>1 DEF Done
    <3>3. stage' = stage  BY <2>1
    <3>4. ASSUME NEW k \in Jobs, deps'[k] = 0, pc'[k] # "marked" PROVE state'[k] = "idle"
      <4>1. CASE k = j  BY <3>2, <3>4, <4>1
      <4>2. CASE k # j
        <5>1. deps[k] = 0 /\ pc[k] # "marked" /\ state'[k] = state[k]
          BY ONLY <3>2, <3>4, <4>2, k \in Jobs
        <5> QED  BY <5>1
      <4> QED  BY <4>1, <4>2
    <3> QED  BY <3>2, <3>3, <3>4
  <2>6. CASE JoinTest(j)  BY <2>1, <2>6 DEF JoinTest
  <2>7. CASE RunReturn(j)  BY <2>1, <2>7 DEF RunReturn
  <2> QED  BY <1>12, <2>2, <2>3, <2>4, <2>5, <2>6, <2>7 DEF PoolStep
<1>13. ASSUME NEW w \in Workers, ThreadStep(w) PROVE StageInv'
  <2>1. UNCHANGED sortVars  BY <1>13 DEF ThreadStep
  <2>2. CASE WorkerWait(w)  BY <2>1, <2>2 DEF WorkerWait
  <2>3. CASE WorkerQuit(w)  BY <2>1, <2>3 DEF WorkerQuit
  <2>4. CASE WorkerPop(w)
    <3>1. Head(queue) \in Jobs /\ pc[Head(queue)] = "queued"
      <4>1. queue \in Seq(Jobs) /\ queue # <<>>  BY <2>4 DEF WorkerPop
      <4>2. Head(queue) = queue[1] /\ 1 \in 1 .. Len(queue) /\ queue[1] \in Jobs
        BY <4>1, HeadTailProperties, ElementOfSeq, EmptySeq
      <4> QED  BY <4>2 DEF QueueInv
    <3> QED  BY <2>1, <2>4, <3>1 DEF WorkerPop
  <2> QED  BY <1>13, <2>2, <2>3, <2>4 DEF ThreadStep, WorkerStep
<1>14. CASE UNCHANGED allVars  BY <1>14
<1> QED
  BY <1>2, <1>3, <1>4, <1>5, <1>6, <1>7, <1>8, <1>9, <1>10, <1>11, <1>12, <1>13, <1>14
  DEF SortNext, CallerStep, JobOfSortStep

(* The order of creation. *)
LEMMA TreeKept ==
  ASSUME JobInv, StageInv, CallerInv, TreeInv, SortNext \/ UNCHANGED allVars
  PROVE  TreeInv'
<1> USE SortAssumption, JobsAssumption DEF TreeInv, vars, allVars, sortVars, jobVars,
      lockVars, workerVars, boundVars, Mark, Frames, JobOrNone
<1>1. TypeOK /\ QueueInv  BY DEF JobInv
<1> USE <1>1 DEF TypeOK
<1>2. CASE SortShort  BY <1>2 DEF SortShort
<1>3. CASE EnqueueMaster
  <2>1. \A j \in Jobs : runs[j] = 0 /\ Order[j] >= 0
    BY <1>3 DEF EnqueueMaster, CallerInv
  <2>2. /\ runs' = [runs EXCEPT ![Master] = @ + 1] /\ pc' = [pc EXCEPT ![Master] = "marked"]
        /\ arg' = [arg EXCEPT ![Master] = NoJob] /\ deps' = deps /\ parent' = parent
    BY <1>3 DEF EnqueueMaster, EnqueueRoot
  <2> QED  BY <2>1, <2>2
<1>4. CASE TestEstimate  BY <1>4 DEF TestEstimate
<1>5. CASE JoinMaster  BY <1>5 DEF JoinMaster, JoinCall
<1>6. CASE DeleteMaster  BY <1>6 DEF DeleteMaster
<1>7. CASE OnDone  BY <1>7 DEF OnDone
<1>8. ASSUME NEW j \in Jobs, PartitionPart(j) PROVE TreeInv'
  BY <1>8 DEF PartitionPart
<1>9. ASSUME NEW j \in Jobs, SortRest(j) PROVE TreeInv'
  BY <1>9 DEF SortRest
<1>10. ASSUME NEW j \in Jobs, NEW k \in Jobs, SpawnLeft(j, k) PROVE TreeInv'
  <2>1. /\ runs[k] = 0 /\ pc[j] = "body" /\ arg'[k] = j
        /\ \A i \in Jobs : Order[i] < Order[k] => runs[i] > 0
        /\ runs' = [runs EXCEPT ![k] = @ + 1] /\ pc' = [pc EXCEPT ![k] = "marked"]
        /\ \A i \in Jobs : i # k => arg'[i] = arg[i]
        /\ deps' = deps /\ parent' = parent
    BY <1>10 DEF SpawnLeft, EnqueueSub
  <2>2. runs[j] > 0 /\ j # k  BY <2>1 DEF StageInv
  <2>3. Order[j] < Order[k]
    <3>1. Order[j] \in Nat /\ Order[k] \in Nat /\ Order[j] # Order[k]  BY <2>2
    <3>2. ~(Order[k] < Order[j])  BY <2>1, <2>2
    <3> QED  BY <3>1, <3>2
  <2>4. \A i, n \in Jobs : runs'[n] > 0 /\ Order[i] < Order[n] => runs'[i] > 0
    BY <2>1
  <2>5. \A i \in Jobs \ {Master} :
          pc'[i] = "marked" => arg'[i] \in Jobs /\ Order[arg'[i]] < Order[i]
    BY <2>1, <2>3
  <2> QED  BY <2>1, <2>4, <2>5
<1>11. ASSUME NEW j \in Jobs, OperatorEnd(j) PROVE TreeInv'
  BY <1>11 DEF OperatorEnd, BodyEnd
<1>12. ASSUME NEW j \in Jobs, PoolStep(j) PROVE TreeInv'
  <2>2. ASSUME Push(j) \/ PushFull(j) PROVE TreeInv'
    <3>1. /\ pc[j] = "marked" /\ runs' = runs
          /\ parent' = [parent EXCEPT ![j] = arg[j]] /\ arg' = [arg EXCEPT ![j] = NoJob]
          /\ \A k \in Jobs : k # j => pc'[k] = pc[k]
      BY <2>2, SMTT(30) DEF Push, PushFull, Register
    <3>2. pc'[j] \in {"queued", "claimed"}  BY <2>2 DEF Push, PushFull
    <3>3. \A k \in Jobs : k # j /\ deps'[k] > 0 => deps[k] > 0
      <4> SUFFICES ASSUME NEW k \in Jobs, k # j, deps'[k] > 0 PROVE deps[k] > 0
        OBVIOUS
      <4>1. CASE k = arg[j]
        <5>1. arg[j] # NoJob  BY <4>1
        <5> QED  BY <3>1, <4>1, <5>1, MarkedParent
      <4>2. CASE k # arg[j]
        <5>1. deps'[k] = deps[k]  BY <2>2, <4>2 DEF Push, PushFull, Register
        <5> QED  BY <5>1
      <4> QED  BY <4>1, <4>2
    <3> QED  BY <3>1, <3>2, <3>3
  <2>3. CASE RunStart(j)  BY <2>3 DEF RunStart
  <2>4. CASE RunEnd(j)  BY <2>4 DEF RunEnd
  <2>5. CASE Done(j)
    <3>1. /\ \A k \in Jobs : deps'[k] > 0 => deps[k] > 0
          /\ pc' = pc /\ runs' = runs /\ arg' = arg /\ parent' = parent
      BY <2>5 DEF Done
    <3> QED  BY <3>1
  <2>6. CASE JoinTest(j)  BY <2>6 DEF JoinTest
  <2>7. CASE RunReturn(j)  BY <2>7 DEF RunReturn
  <2> QED  BY <1>12, <2>2, <2>3, <2>4, <2>5, <2>6, <2>7 DEF PoolStep
<1>13. ASSUME NEW w \in Workers, ThreadStep(w) PROVE TreeInv'
  <2>2. CASE WorkerWait(w)  BY <2>2 DEF WorkerWait
  <2>3. CASE WorkerQuit(w)  BY <2>3 DEF WorkerQuit
  <2>4. CASE WorkerPop(w)
    <3>1. /\ \A k \in Jobs : pc'[k] = "marked" => pc[k] = "marked"
          /\ runs' = runs /\ arg' = arg /\ parent' = parent /\ deps' = deps
      BY <2>4 DEF WorkerPop
    <3> QED  BY <3>1
  <2> QED  BY <1>13, <2>2, <2>3, <2>4 DEF ThreadStep, WorkerStep
<1>14. CASE UNCHANGED allVars  BY <1>14
<1> QED
  BY <1>2, <1>3, <1>4, <1>5, <1>6, <1>7, <1>8, <1>9, <1>10, <1>11, <1>12, <1>13, <1>14
  DEF SortNext, CallerStep, JobOfSortStep

-----------------------------------------------------------------------------
(* When the root has no dependency left and the mutex is free, nothing of    *)
(* the tree is left: a job that is not done keeps its parent from being done *)
(* and the parent was created before it.                                     *)
LEMMA RootIsLast ==
  ASSUME JobInv, StageInv, TreeInv, ~Locked, deps[Master] = 0,
         \A j \in Jobs : caller[j] # Main
  PROVE  Quiet
<1> USE SortAssumption, JobsAssumption
<1>1. TypeOK /\ MutexInv /\ QueueInv /\ CallInv /\ ParentOutlivesSubjob  BY DEF JobInv
<1>2. \A j \in Jobs : deps[j] = 0
  <2> DEFINE D == {j \in Jobs : deps[j] > 0}
             P == {Order[j] : j \in D}
  <2>1. D = {}
    <3> SUFFICES ASSUME D # {} PROVE FALSE  OBVIOUS
    <3>1. P \in SUBSET Nat /\ P # {}  OBVIOUS
    <3>2. PICK n \in P : \A m \in P : n <= m
      <4> HIDE DEF P
      <4> QED  BY <3>1, LeastOf
    <3>3. PICK j \in D : Order[j] = n  OBVIOUS
    <3>4. j \in Jobs \ {Master} /\ deps[j] > 0  BY <3>3
    <3>5. parent[j] \in Jobs /\ Order[parent[j]] < Order[j]  BY <3>4 DEF TreeInv
    <3>6. deps[parent[j]] > 0  BY <1>1, <3>4, <3>5 DEF ParentOutlivesSubjob
    <3>7. Order[parent[j]] \in P  BY <3>5, <3>6
    <3>8. Order[parent[j]] \in Nat /\ Order[j] \in Nat  BY <3>4, <3>5
    <3>9. n <= Order[parent[j]]
      <4> HIDE DEF P
      <4> QED  BY <3>2, <3>7
    <3> QED  BY <3>3, <3>5, <3>8, <3>9
  <2> QED  BY <1>1, <2>1 DEF TypeOK
<1>3. \A j \in Jobs : pc[j] \notin {"queued", "claimed", "body", "ended", "finishing"}
  BY <1>2, Counts DEF Own, Locked
<1>4. ASSUME NEW j \in Jobs, pc[j] = "marked" PROVE FALSE
  BY <1>1, <1>3, <1>4 DEF CallInv
<1>5. \A j \in Jobs : pc[j] = "idle"
  BY <1>1, <1>3, <1>4 DEF TypeOK, Frames
<1>6. \A j \in Jobs : state[j] = "idle"  BY <1>2, <1>5 DEF StageInv
<1>7. queue = <<>>
  <2> SUFFICES ASSUME queue # <<>> PROVE FALSE  OBVIOUS
  <2>1. queue \in Seq(Jobs)  BY <1>1 DEF TypeOK
  <2>2. 1 \in 1 .. Len(queue) /\ queue[1] \in Jobs
    BY <2>1, LenProperties, ElementOfSeq, EmptySeq
  <2> QED  BY <1>1, <1>5, <2>2 DEF QueueInv
<1> QED  BY <1>2, <1>5, <1>6, <1>7 DEF Quiet

(* Once at rest, the jobs stay at rest. *)
LEMMA QuietStays ==
  ASSUME JobInv, Quiet, call # "start", SortNext \/ UNCHANGED allVars
  PROVE  Quiet'
<1> USE DEF vars, allVars, sortVars, jobVars, lockVars, workerVars, boundVars
<1>1. /\ queue = <<>> /\ \A j \in Jobs : pc[j] = "idle" /\ state[j] = "idle" /\ deps[j] = 0
      /\ ~Locked
  BY DEF Quiet
<1>2. holder = NoJob /\ chain = {} /\ NoJob \notin Jobs
  BY <1>1, JobsAssumption DEF JobInv, MutexInv
<1> DEFINE Rest == /\ queue' = queue /\ pc' = pc /\ state' = state /\ deps' = deps
<1>3. Rest => Quiet'
  BY <1>1 DEF Quiet, Locked
<1>4. CASE CallerStep
  BY <1>3, <1>4 DEF CallerStep, SortShort, EnqueueMaster, TestEstimate, JoinMaster, JoinCall,
     DeleteMaster
<1>5. ~OnDone  BY <1>2 DEF OnDone, RootDone
<1>6. ASSUME NEW j \in Jobs, JobOfSortStep(j)
      PROVE  Rest
  <2>1. ~PartitionPart(j) /\ ~SortRest(j) /\ ~OperatorEnd(j)
    BY <1>1 DEF PartitionPart, SortRest, OperatorEnd, Working, BodyEnd
  <2>2. ~ \E k \in Jobs : SpawnLeft(j, k)
    BY <1>1 DEF SpawnLeft, EnqueueSub
  <2>3. ~Push(j) /\ ~PushFull(j) /\ ~RunStart(j) /\ ~RunEnd(j) /\ ~Done(j) /\ ~RunReturn(j)
    BY <1>1, <1>2 DEF Push, PushFull, RunStart, RunEnd, Done, RunReturn
  <2>4. JoinTest(j)  BY <1>6, <2>1, <2>2, <2>3 DEF JobOfSortStep, PoolStep
  <2> QED  BY <2>4 DEF JoinTest
<1>7. ASSUME NEW w \in Workers, ThreadStep(w) PROVE Rest
  BY <1>1, <1>7 DEF ThreadStep, WorkerStep, WorkerWait, WorkerQuit, WorkerPop
<1>8. CASE UNCHANGED allVars  BY <1>3, <1>8
<1> QED  BY <1>3, <1>4, <1>5, <1>6, <1>7, <1>8 DEF SortNext

(* What the caller relies on. *)
LEMMA CallerKept ==
  ASSUME JobInv, DataInv, StageInv, TreeInv, CallerInv, SortNext \/ UNCHANGED allVars
  PROVE  CallerInv'
<1> USE SortAssumption, JobsAssumption DEF vars, allVars, sortVars, jobVars, lockVars,
      workerVars, boundVars
<1>1. /\ TypeOK /\ MutexInv
      /\ call \in {"start", "test", "waiting", "join", "joining", "returned"}
  BY DEF JobInv, DataInv, SortTypes
<1> DEFINE Joining == call = "joining" /\ client.job = Master /\ \A j \in Jobs : caller[j] # Main
<1>2. /\ call = "start" => Quiet /\ \A j \in Jobs : runs[j] = 0
      /\ client.op # "free" => Joining
      /\ call = "joining" /\ client.op = "free" => Quiet
      /\ call = "returned" => Quiet
  BY DEF CallerInv
<1>3. call # "start" => (Quiet => Quiet')  BY QuietStays
<1>4. CASE SortShort
  <2>1. /\ call = "start" /\ call' = "returned" /\ client' = client
        /\ queue' = queue /\ pc' = pc /\ state' = state /\ deps' = deps
    BY <1>4 DEF SortShort
  <2>2. Quiet'  BY <1>2, <2>1 DEF Quiet, Locked
  <2> QED  BY <1>2, <2>1, <2>2 DEF CallerInv
<1>5. CASE EnqueueMaster
  <2>1. call = "start" /\ call' = "test" /\ client' = client
    BY <1>5 DEF EnqueueMaster, EnqueueRoot, Mark
  <2> QED  BY <1>2, <2>1 DEF CallerInv
<1>6. CASE TestEstimate
  <2>1. call = "test" /\ call' \in {"waiting", "join"} /\ client' = client
    BY <1>6 DEF TestEstimate
  <2> QED  BY <1>2, <2>1 DEF CallerInv
<1>7. CASE JoinMaster
  <2>1. /\ call' = "joining" /\ client' = [op |-> "join", job |-> Master]
        /\ caller' = caller /\ \A j \in Jobs : caller[j] # Main
    BY <1>7 DEF JoinMaster, JoinCall, Free, Blocked
  <2> QED  BY <2>1 DEF CallerInv
<1>8. CASE DeleteMaster
  <2>1. call = "joining" /\ call' = "returned" /\ client' = client /\ client.op = "free"
    BY <1>8 DEF DeleteMaster, Free
  <2> QED  BY <1>2, <1>3, <2>1 DEF CallerInv
<1>9. CASE OnDone
  <2>1. Master \in chain  BY <1>9 DEF OnDone, RootDone
  <2>2. ~Quiet  BY <1>1, <2>1 DEF MutexInv, Quiet
  <2>3. call # "start" /\ client' = client /\ caller' = caller /\ call' = Woken
    BY <1>2, <1>9, <2>2 DEF OnDone
  <2> QED  BY <1>2, <2>2, <2>3 DEF CallerInv, Woken
<1>10. ASSUME NEW j \in Jobs, JobOfSortStep(j) PROVE CallerInv'
  <2>1. ASSUME client' = client, caller' = caller, call' = Woken, call # "start"
        PROVE  CallerInv'
    BY <1>2, <1>3, <2>1 DEF CallerInv, Woken
  <2>2. ASSUME pc[j] # "idle" PROVE call # "start"  BY <1>2, <2>2 DEF Quiet
  <2>3. CASE PartitionPart(j)
    BY <2>1, <2>2, <2>3 DEF PartitionPart, Working
  <2>4. CASE SortRest(j)
    BY <2>1, <2>2, <2>4 DEF SortRest, Working
  <2>5. ASSUME NEW k \in Jobs, SpawnLeft(j, k) PROVE CallerInv'
    <3>1. /\ pc[j] = "body" /\ client' = client /\ call' = call
          /\ caller' = [caller EXCEPT ![k] = j]
      BY <2>5 DEF SpawnLeft, EnqueueSub, Mark
    <3>2. call # "start"  BY <2>2, <3>1
    <3>3. \A i \in Jobs : caller[i] # Main => caller'[i] # Main
      BY <1>1, <3>1 DEF TypeOK
    <3> QED  BY <1>2, <1>3, <3>1, <3>2, <3>3 DEF CallerInv
  <2>6. CASE OperatorEnd(j)
    <3>1. /\ pc[j] = "body" /\ client' = client /\ call' = call /\ caller' = caller
      BY <2>6 DEF OperatorEnd, BodyEnd
    <3> QED  BY <1>2, <1>3, <2>2, <3>1 DEF CallerInv
  <2>7. CASE PoolStep(j)
    <3>1. call' = call  BY <2>7 DEF PoolStep
    <3>2. ASSUME Push(j) \/ PushFull(j) \/ RunStart(j) \/ RunEnd(j) \/ RunReturn(j)
          PROVE  CallerInv'
      <4>1. pc[j] # "idle" /\ client' = client
        BY <3>2 DEF Push, PushFull, RunStart, RunEnd, RunReturn
      <4>2. \A i \in Jobs : caller[i] # Main => caller'[i] # Main
        BY <1>1, <3>2 DEF Push, PushFull, RunStart, RunEnd, RunReturn, TypeOK
      <4> QED  BY <1>2, <1>3, <2>2, <3>1, <4>1, <4>2 DEF CallerInv
    <3>3. CASE Done(j)
      <4>1. holder # NoJob /\ caller' = caller  BY <3>3 DEF Done
      <4>2. ~Quiet  BY <1>1, <4>1 DEF MutexInv, Quiet
      <4>3. \/ client' = client
            \/ client = [op |-> "joinwait", job |-> j] /\ client' = [op |-> "join", job |-> j]
        BY <3>3 DEF Done, NotifyJoin
      <4>4. client'.op = "free" <=> client.op = "free"
        BY <4>3
      <4>5. client'.job = client.job  BY <4>3
      <4> QED  BY <1>2, <3>1, <4>1, <4>2, <4>4, <4>5 DEF CallerInv
    <3>4. CASE JoinTest(j)
      <4>1. /\ client = [op |-> "join", job |-> j] /\ ~Locked /\ caller' = caller
            /\ client' = IF deps[j] = 0 THEN [op |-> "free", job |-> NoJob]
                                        ELSE [op |-> "joinwait", job |-> j]
        BY <3>4 DEF JoinTest
      <4>2. Joining /\ j = Master  BY <1>2, <4>1
      <4>3. CASE deps[j] = 0
        <5>1. Quiet  BY <4>1, <4>2, <4>3, RootIsLast
        <5>2. Quiet'  BY <1>3, <4>2, <5>1
        <5> QED  BY <3>1, <4>1, <4>2, <4>3, <5>2 DEF CallerInv
      <4>4. CASE deps[j] # 0
        BY <3>1, <4>1, <4>2, <4>4 DEF CallerInv
      <4> QED  BY <4>3, <4>4
    <3> QED  BY <2>7, <3>2, <3>3, <3>4 DEF PoolStep
  <2> QED  BY <1>10, <2>3, <2>4, <2>5, <2>6, <2>7 DEF JobOfSortStep
<1>11. ASSUME UNCHANGED sortVars, client' = client, caller' = caller,
              runs' = runs, queue = <<>> => queue' = queue /\ pc' = pc,
              state' = state, deps' = deps
       PROVE  CallerInv'
  <2>1. Quiet => Quiet'  BY <1>11 DEF Quiet, Locked
  <2> QED  BY <1>2, <1>11, <2>1 DEF CallerInv
<1>12. ASSUME NEW w \in Workers, ThreadStep(w) PROVE CallerInv'
  BY <1>11, <1>12 DEF ThreadStep, WorkerStep, WorkerWait, WorkerQuit, WorkerPop
<1>13. CASE UNCHANGED allVars  BY <1>11, <1>13
<1> QED
  BY <1>4, <1>5, <1>6, <1>7, <1>8, <1>9, <1>10, <1>12, <1>13 DEF SortNext, CallerStep

-----------------------------------------------------------------------------
LEMMA SortInitInv == SortInit => SortInv
<1> SUFFICES ASSUME SortInit PROVE SortInv  OBVIOUS
<1> USE SortAssumption, JobsAssumption DEF SortInit, Given
<1>1. JobInv  BY InitInv
<1>2. /\ queue = <<>> /\ client.op = "free"
      /\ \A j \in Jobs : pc[j] = "idle" /\ state[j] = "idle" /\ deps[j] = 0 /\ runs[j] = 0
                         /\ caller[j] = NoJob
  BY DEF Init
<1>3. Quiet  BY <1>2 DEF Quiet, Locked
<1>4. SortTypes
  <2>1. array = input /\ input \in Seq(Int)  OBVIOUS
  <2>2. /\ part \in [Jobs -> [a : Nat, b : Nat]] /\ split \in [Jobs -> Nat]
        /\ stage \in [Jobs -> {"loop", "spawn", "sorted"}] /\ call = "start"
    OBVIOUS
  <2> QED  BY <2>1, <2>2 DEF SortTypes
<1>5. PartsInv /\ SplitInv /\ OrderInv
  BY <1>2 DEF PartsInv, PartsDisjoint, SplitInv, OrderInv
<1>6. StageInv  BY <1>2 DEF StageInv
<1>7. TreeInv  BY <1>2 DEF TreeInv
<1>8. CallerInv  BY <1>2, <1>3 DEF CallerInv
<1> QED  BY <1>1, <1>4, <1>5, <1>6, <1>7, <1>8 DEF SortInv, DataInv

(* The composition of the sort with the pool keeps its invariant, whatever   *)
(* the array, the guesses of the work, the pool and the schedule.            *)
THEOREM SortInvariant == SortSpec => []SortInv
<1>1. SortInv /\ [SortNext]_allVars => SortInv'
  BY JobInvKept, DataKept, StageKept, TreeKept, CallerKept DEF SortInv
<1> QED  BY SortInitInv, <1>1, PTL DEF SortSpec

(* The pool inside the sort is the pool of JobManager: every step of the     *)
(* sort is a step of the pool or leaves it alone.                            *)
THEOREM SortUsesPool == SortSpec => Spec
<1>1. SortInit => Init  BY DEF SortInit, Given
<1>2. [SortNext]_allVars => [Next]_vars  BY PoolOfSort
<1> QED  BY <1>1, <1>2, PTL DEF SortSpec, Spec

(* When the sort has returned, everything it promises holds. *)
LEMMA SortInvSafe == SortInv => SortSafe
<1> SUFFICES ASSUME SortInv PROVE SortSafe  OBVIOUS
<1>1. PartsDisjoint  BY DEF SortInv, DataInv, PartsInv
<1>2. ASSUME call = "returned"
      PROVE  /\ InOrder(array) /\ SameItems(array, input)
             /\ queue = <<>> /\ ~Locked
             /\ \A j \in Jobs : pc[j] = "idle" /\ state[j] = "idle" /\ deps[j] = 0
  <2>1. Quiet  BY <1>2 DEF SortInv, CallerInv
  <2>2. OpenJobs = {}
    <3>1. runs \in [Jobs -> Nat]  BY DEF SortInv, JobInv, TypeOK
    <3>2. \A j \in Jobs : runs[j] > 0 => stage[j] = "sorted"
      BY <2>1, <3>1 DEF SortInv, StageInv, Quiet
    <3> QED  BY <3>2 DEF OpenJobs
  <2>3. Ordered(array, part, {})  BY <1>2, <2>2 DEF SortInv, DataInv, OrderInv
  <2>4. array \in Seq(Int) /\ input \in Seq(Int)  BY DEF SortInv, DataInv, SortTypes
  <2>5. InOrder(array)
    <3> SUFFICES ASSUME NEW i \in 1 .. Len(array) - 1 PROVE array[i] <= array[i + 1]
      BY DEF InOrder
    <3>1. Len(array) \in Nat  BY <2>4
    <3>2. i \in 1 .. Len(array) /\ i + 1 \in 1 .. Len(array) /\ i < i + 1  BY <3>1
    <3> QED  BY <2>3, <3>2 DEF Ordered
  <2>6. SameItems(array, input)
    <3>1. \A v \in Int : Count(array, v) = Count(input, v)
      BY DEF SortInv, DataInv, SortTypes
    <3>2. {array[i] : i \in DOMAIN array} \cup {input[i] : i \in DOMAIN input} \subseteq Int
      <4>1. \A i \in DOMAIN array : array[i] \in Int  BY <2>4, ElementOfSeq, LenProperties
      <4>2. \A i \in DOMAIN input : input[i] \in Int  BY <2>4, ElementOfSeq, LenProperties
      <4> QED  BY <4>1, <4>2
    <3> QED  BY <3>1, <3>2 DEF SameItems, Count
  <2> QED  BY <2>1, <2>5, <2>6 DEF Quiet
<1> QED  BY <1>1, <1>2 DEF SortSafe

(* The parallel sort is correct: two jobs never work on the same item, and   *)
(* when it returns the array is in order, holds the items it was given, and  *)
(* no thread is inside a job that the caller deletes.                        *)
THEOREM SortIsSafe == SortSpec => []SortSafe
BY SortInvariant, SortInvSafe, PTL
=============================================================================
