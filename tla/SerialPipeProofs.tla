-------------------------- MODULE SerialPipeProofs --------------------------
(***************************************************************************)
(* ParallelPipe implements SerialPipe, for every number of workers, size of *)
(* buffers, source and nodes: what the parallel pipe hands on is what its   *)
(* nodes would hand on in a single thread.                                  *)
(*                                                                         *)
(* The argument is a balance that no step upsets: for every item sent, what *)
(* was handed on, what its worker has buffered and what the worker's nodes  *)
(* have yet to push add up to what is due.                                  *)
(***************************************************************************)
EXTENDS ParallelPipeProofs

-----------------------------------------------------------------------------
(* How often x is in s. *)
Count(s, x) == Cardinality({p \in DOMAIN s : s[p] = x})

EndItem == Items + 1

(* SerialPipe's Due, Served and Permitted, of constants. *)
DueOf(x) == IF x = EndItem THEN NumJobs * EndEmits ELSE Emits[x]

ServedIn(s, n) == \A x \in 1..n : Count(s, x) = DueOf(x)

Allowed(ord, s, n) ==
  /\ \A p \in DOMAIN s : s[p] \in 1..n \cup {EndItem}
  /\ \A x \in 1..n \cup {EndItem} : Count(s, x) <= DueOf(x)
  /\ \A p \in DOMAIN s : s[p] = EndItem => ServedIn(SubSeq(s, 1, p - 1), n)
  /\ ord => \A p \in DOMAIN s : s[p] # EndItem =>
              ServedIn(SubSeq(s, 1, p - 1), s[p] - 1)

(* The outputs of each worker that are not consumed yet. *)
shown == [i \in Pipes |->
            IF state[i] \in Output \/ wpc[i] \in Working THEN outbuf[i] ELSE <<>>]

(* A worker with the outputs sh and the input buffer buf holds item x. *)
Holds(sh, buf, x) ==
  (\E p \in DOMAIN buf : buf[p] = x) \/ (\E p \in DOMAIN sh : sh[p] = x)

(* What its nodes have yet to push for item x, n of its first item's outputs *)
(* being pushed; and that with what is pushed but not consumed.              *)
ToPush(buf, n, x) ==
  IF \E p \in DOMAIN buf : buf[p] = x
  THEN IF buf[1] = x THEN Emits[x] - n ELSE Emits[x]
  ELSE 0

Owed(sh, buf, n, x) == Count(sh, x) + ToPush(buf, n, x)

(* The balance of item x, which at most one worker holds. *)
Balanced(sh, ib, em, o, x) ==
  \E i \in Pipes :
    /\ \A j \in Pipes : j # i => ~Holds(sh[j], ib[j], x)
    /\ Count(o, x) + Owed(sh[i], ib[i], em[i], x) = Emits[x]

(* A worker goes through its items in their order. *)
Sorted(sh, buf, n) ==
  /\ \A p, q \in DOMAIN buf : p < q => buf[p] < buf[q]
  /\ buf # <<>> => n <= Emits[buf[1]]
  /\ \A p, q \in DOMAIN sh : p < q => sh[p] <= sh[q]
  /\ \A p \in DOMAIN sh, q \in DOMAIN buf : sh[p] <= buf[q]

Live == ~eptr /\ result = "none"

SortedInv == Live => \A i \in Pipes : Sorted(shown[i], inbuf[i], emitted[i])

BalanceInv ==
  Live =>
    \A x \in 1..Items : x <= fed - Len(written) =>
      Balanced(shown, inbuf, emitted, out, x)

OutInv ==
  result = "none" =>
    /\ Allowed(maintainOrder, out, fed)
    /\ \A p \in DOMAIN out : out[p] = EndItem \/ out[p] <= fed - Len(written)
    /\ mpc # "ends" => \A p \in DOMAIN out : out[p] # EndItem
    /\ mpc = "ends" => Count(out, EndItem) = (NumJobs - Cardinality(toEnd)) * EndEmits

EndInv ==
  /\ mpc \in {"drain", "finish", "close", "ends"} => written = <<>>
  /\ mpc = "ends" => ~eptr /\ \A i \in Pipes : wpc[i] = "exit"
  /\ mpc \in {"begin", "feed", "full", "empty", "drain", "finish", "close"} => toEnd = Pipes
  /\ mpc \in {"begin", "feed", "full", "empty", "drain", "finish", "close", "ends"} =>
       result = "none"
  /\ mpc \in {"stop", "stopped"} /\ ~dying => result = "none"
  /\ mpc \in {"dtor", "join", "joining", "over"} \/ dying => result # "none"

SerialInv == PipeInv /\ SortedInv /\ BalanceInv /\ OutInv /\ EndInv


-----------------------------------------------------------------------------
(* Counting. *)

LEMMA CountType ==
  ASSUME NEW S, NEW s \in Seq(S), NEW x
  PROVE  /\ IsFiniteSet({p \in DOMAIN s : s[p] = x}) /\ Count(s, x) \in Nat
         /\ Count(s, x) = 0 <=> \A p \in DOMAIN s : s[p] # x
<1> DEFINE T == {p \in DOMAIN s : s[p] = x}
<1>1. DOMAIN s = 1..Len(s) /\ Len(s) \in Nat  OBVIOUS
<1>2. IsFiniteSet(DOMAIN s)
  <2>1. 1 \in Int /\ Len(s) \in Int  BY <1>1
  <2> QED  BY <1>1, <2>1, FS_Interval
<1>3. IsFiniteSet(T)
  <2>1. T \subseteq DOMAIN s  OBVIOUS
  <2> HIDE DEF T
  <2> QED  BY <1>2, <2>1, FS_Subset
<1>4. Cardinality(T) \in Nat /\ (Cardinality(T) = 0 <=> T = {})
  <2> HIDE DEF T
  <2> QED  BY <1>3, FS_CardinalityType, FS_EmptySet
<1> QED  BY <1>3, <1>4 DEF Count

LEMMA CountNone == \A x : Count(<<>>, x) = 0
<1>1. <<>> \in Seq({}) /\ DOMAIN <<>> = {}  BY EmptySeq
<1> QED  BY <1>1, CountType

(* The part of a sequence up to k counts what stands there. *)
LEMMA CountPrefix ==
  ASSUME NEW S, NEW s \in Seq(S), NEW k \in 0..Len(s), NEW x
  PROVE  /\ SubSeq(s, 1, k) \in Seq(S) /\ Len(SubSeq(s, 1, k)) = k
         /\ \A p \in 1..k : SubSeq(s, 1, k)[p] = s[p]
         /\ Count(SubSeq(s, 1, k), x) <= Count(s, x)
         /\ (\A p \in DOMAIN s : p > k => s[p] # x) =>
              Count(SubSeq(s, 1, k), x) = Count(s, x)
<1> DEFINE t == SubSeq(s, 1, k)
           T == {p \in DOMAIN s : s[p] = x}
           U == {p \in DOMAIN t : t[p] = x}
<1>1. DOMAIN s = 1..Len(s) /\ Len(s) \in Nat /\ k \in Nat /\ k <= Len(s)  OBVIOUS
<1>2. t \in Seq(S) /\ Len(t) = k /\ \A p \in 1..k : t[p] = s[p]
  <2>1. \A p \in 1..k : s[p] \in S  BY <1>1
  <2>2. 1 \in Int /\ k \in Int  BY <1>1
  <2>3. /\ t \in Seq(S) /\ Len(t) = IF 1 <= k THEN k - 1 + 1 ELSE 0
        /\ \A p \in 1..k - 1 + 1 : t[p] = s[1 + p - 1]
    BY <2>1, <2>2, SubSeqProperties
  <2>4. k - 1 + 1 = k  BY <1>1
  <2>5. Len(t) = k  BY <1>1, <2>3
  <2>6. \A p \in 1..k : 1 + p - 1 = p  BY <1>1
  <2> HIDE DEF t
  <2> QED  BY <2>3, <2>4, <2>5, <2>6
<1> HIDE DEF t
<1>3. DOMAIN t = 1..k  BY <1>2
<1>4. IsFiniteSet(T)  BY CountType
<1>5. U \subseteq T  BY <1>1, <1>2, <1>3
<1>6. Count(t, x) <= Count(s, x)
  <2> HIDE DEF T, U
  <2>1. Cardinality(U) <= Cardinality(T)  BY <1>4, <1>5, FS_Subset
  <2> QED  BY <2>1 DEF Count, T, U
<1>7. (\A p \in DOMAIN s : p > k => s[p] # x) => U = T  BY <1>1, <1>2, <1>3
<1> QED  BY <1>2, <1>6, <1>7 DEF Count, t

LEMMA CountConcat ==
  ASSUME NEW S, NEW s \in Seq(S), NEW t \in Seq(S), NEW x
  PROVE  Count(s \o t, x) = Count(s, x) + Count(t, x)
<1> DEFINE n == Len(s)
           A == {p \in DOMAIN s : s[p] = x}
           B == {p \in DOMAIN t : t[p] = x}
           C == {p \in DOMAIN (s \o t) : (s \o t)[p] = x}
           D == {n + p : p \in B}
<1>1. /\ DOMAIN s = 1..n /\ n \in Nat /\ DOMAIN t = 1..Len(t) /\ Len(t) \in Nat
      /\ s \o t \in Seq(S) /\ Len(s \o t) = n + Len(t)
      /\ \A p \in 1..n + Len(t) : (s \o t)[p] = IF p <= n THEN s[p] ELSE t[p - n]
  BY ConcatProperties
<1>2. DOMAIN (s \o t) = 1..n + Len(t)  BY <1>1
<1> HIDE DEF n
<1>3. IsFiniteSet(A) /\ IsFiniteSet(B)  BY CountType
<1>4. C = A \cup D
  <2>1. ASSUME NEW p \in C PROVE p \in A \/ p \in D
    <3>1. p \in 1..n + Len(t)  BY <1>2
    <3>2. CASE p <= n  BY <1>1, <3>1, <3>2
    <3>3. CASE p > n
      <4>1. p - n \in 1..Len(t) /\ n + (p - n) = p  BY <1>1, <3>1, <3>3
      <4>2. (s \o t)[p] = t[p - n]  BY <1>1, <3>1, <3>3
      <4>3. p - n \in B  BY <1>1, <4>1, <4>2
      <4> QED  BY <4>1, <4>3
    <3> QED  BY <1>1, <3>1, <3>2, <3>3
  <2>2. A \subseteq C  BY <1>1, <1>2
  <2>3. ASSUME NEW p \in B PROVE n + p \in C
    <3>1. n + p \in 1..n + Len(t) /\ ~(n + p <= n) /\ n + p - n = p  BY <1>1
    <3> QED  BY <1>1, <1>2, <3>1
  <2> QED  BY <2>1, <2>2, <2>3
<1>5. A \cap D = {}  BY <1>1
<1>6. IsFiniteSet(D) /\ Cardinality(D) = Cardinality(B)
  <2> DEFINE f == [p \in B |-> n + p]
  <2>1. f \in [B -> D]  OBVIOUS
  <2>2. \A p, q \in B : f[p] = f[q] => p = q  BY <1>1
  <2>3. \A d \in D : \E p \in B : f[p] = d  OBVIOUS
  <2>4. f \in Bijection(B, D)
    <3> HIDE DEF f, B, D
    <3> QED  BY <2>1, <2>2, <2>3 DEF Bijection, Injection, Surjection, IsInjective
  <2> HIDE DEF f, B, D
  <2> QED  BY <1>3, <2>4, FS_Bijection DEF ExistsBijection
<1> HIDE DEF A, B, C, D
<1>7. Cardinality(C) = Cardinality(A) + Cardinality(D) - Cardinality(A \cap D)
  BY <1>3, <1>4, <1>6, FS_Union
<1>8. Cardinality(A \cap D) = 0  BY <1>5, FS_EmptySet
<1>9. Cardinality(A) \in Nat /\ Cardinality(B) \in Nat  BY <1>3, FS_CardinalityType
<1>10. Cardinality(C) = Cardinality(A) + Cardinality(B)  BY <1>6, <1>7, <1>8, <1>9
<1> QED  BY <1>10 DEF Count, A, B, C

LEMMA CountAppend ==
  ASSUME NEW S, NEW s \in Seq(S), NEW e \in S, NEW x
  PROVE  Count(Append(s, e), x) = Count(s, x) + (IF e = x THEN 1 ELSE 0)
<1> DEFINE A == {p \in DOMAIN s : s[p] = x}
           C == {p \in DOMAIN Append(s, e) : Append(s, e)[p] = x}
<1>1. /\ DOMAIN s = 1..Len(s) /\ Len(s) \in Nat
      /\ DOMAIN Append(s, e) = 1..Len(s) + 1
      /\ \A p \in 1..Len(s) : Append(s, e)[p] = s[p]
      /\ Append(s, e)[Len(s) + 1] = e
  BY AppendProperties
<1>2. IsFiniteSet(A) /\ Cardinality(A) \in Nat  BY CountType DEF Count
<1>3. Len(s) + 1 \notin A /\ \A p \in 1..Len(s) + 1 : p \in 1..Len(s) \/ p = Len(s) + 1
  BY <1>1
<1>4. CASE e = x
  <2>1. C = A \cup {Len(s) + 1}  BY <1>1, <1>3, <1>4
  <2> HIDE DEF A, C
  <2>2. Cardinality(C) = Cardinality(A) + 1  BY <1>2, <1>3, <2>1, FS_AddElement
  <2> QED  BY <1>4, <2>2 DEF Count, A, C
<1>5. CASE e # x
  <2>1. C = A  BY <1>1, <1>3, <1>5
  <2> HIDE DEF A, C
  <2>2. Cardinality(C) = Cardinality(A) + 0  BY <1>2, <2>1
  <2> QED  BY <1>5, <2>2 DEF Count, A, C
<1> QED  BY <1>4, <1>5

(* A sequence of nothing but e. *)
LEMMA CountRepeat ==
  ASSUME NEW e, NEW s \in Seq({e}), NEW x
  PROVE  Count(s, x) = IF x = e THEN Len(s) ELSE 0
<1>1. Len(s) \in Nat /\ DOMAIN s = 1..Len(s) /\ \A p \in DOMAIN s : s[p] = e
  <2>1. Len(s) \in Nat /\ DOMAIN s = 1..Len(s)  OBVIOUS
  <2>2. \A p \in 1..Len(s) : s[p] \in {e}  BY ElementOfSeq
  <2> QED  BY <2>1, <2>2
<1>2. CASE x = e
  <2>1. {p \in DOMAIN s : s[p] = x} = 1..Len(s)  BY <1>1, <1>2
  <2>2. Cardinality(1..Len(s)) = Len(s)
    <3>1. 1 \in Int /\ Len(s) \in Int  BY <1>1
    <3>2. Cardinality(1..Len(s)) = IF 1 > Len(s) THEN 0 ELSE Len(s) - 1 + 1
      BY <3>1, FS_Interval
    <3> QED  BY <1>1, <3>2
  <2> QED  BY <1>2, <2>1, <2>2 DEF Count
<1>3. CASE x # e  BY <1>1, <1>3, CountType
<1> QED  BY <1>2, <1>3


-----------------------------------------------------------------------------
(* What may be handed on. *)

LEMMA AllowedPrefix ==
  ASSUME NEW ord, NEW S, NEW s \in Seq(S), NEW n \in 0..Items, Allowed(ord, s, n),
         NEW k \in 0..Len(s)
  PROVE  Allowed(ord, SubSeq(s, 1, k), n)
<1> DEFINE t == SubSeq(s, 1, k)
<1>1. /\ t \in Seq(S) /\ Len(t) = k /\ \A p \in 1..k : t[p] = s[p]
      /\ \A x : Count(t, x) <= Count(s, x)
  BY CountPrefix
<1>2. DOMAIN s = 1..Len(s) /\ Len(s) \in Nat /\ k \in Nat /\ k <= Len(s)  OBVIOUS
<1> HIDE DEF t
<1>3. DOMAIN t = 1..k /\ \A p \in 1..k : p \in DOMAIN s  BY <1>1, <1>2
<1>4. ASSUME NEW p \in 1..k PROVE SubSeq(t, 1, p - 1) = SubSeq(s, 1, p - 1)
  <2>1. p - 1 \in 0..Len(s) /\ p - 1 \in 0..Len(t) /\ p - 1 <= k  BY <1>1, <1>2
  <2>2. /\ SubSeq(s, 1, p - 1) \in Seq(S) /\ Len(SubSeq(s, 1, p - 1)) = p - 1
        /\ \A q \in 1..p - 1 : SubSeq(s, 1, p - 1)[q] = s[q]
    BY <2>1, CountPrefix
  <2>3. /\ SubSeq(t, 1, p - 1) \in Seq(S) /\ Len(SubSeq(t, 1, p - 1)) = p - 1
        /\ \A q \in 1..p - 1 : SubSeq(t, 1, p - 1)[q] = t[q]
    BY <1>1, <2>1, CountPrefix
  <2>4. \A q \in 1..p - 1 : q \in 1..k  BY <1>2, <2>1
  <2> QED  BY <1>1, <2>2, <2>3, <2>4, SeqEqual
<1>5. \A x \in 1..n \cup {EndItem} : Count(t, x) <= DueOf(x)
  <2>1. ASSUME NEW x \in 1..n \cup {EndItem} PROVE Count(t, x) <= DueOf(x)
    <3>1. Count(t, x) <= Count(s, x) /\ Count(s, x) <= DueOf(x)  BY <1>1 DEF Allowed
    <3>2. Count(t, x) \in Nat /\ Count(s, x) \in Nat  BY <1>1, CountType
    <3>3. DueOf(x) \in Int
      <4>1. NumJobs * EndEmits \in Nat  BY PipeAssumption
      <4>2. x # EndItem => x \in 1..Items  BY PipeAssumption DEF EndItem
      <4> QED  BY <4>1, <4>2, PipeAssumption DEF DueOf
    <3> QED  BY <3>1, <3>2, <3>3
  <2> QED  BY <2>1
<1> QED  BY <1>1, <1>3, <1>4, <1>5 DEF Allowed, t

(* One more item is accepted. *)
LEMMA AllowedMore ==
  ASSUME NEW ord, NEW S, NEW s \in Seq(S), NEW n \in Nat, n < Items, Allowed(ord, s, n),
         \A p \in DOMAIN s : s[p] # EndItem
  PROVE  Allowed(ord, s, n + 1)
<1>1. \A x : x \in 1..n + 1 => x \in 1..n \/ x = n + 1  OBVIOUS
<1>2. 1..n \subseteq 1..n + 1  OBVIOUS
<1>3. \A p \in DOMAIN s : s[p] \in 1..n + 1 \cup {EndItem}  BY <1>2 DEF Allowed
<1>4. Count(s, n + 1) = 0
  <2>1. \A p \in DOMAIN s : s[p] \in 1..n  BY DEF Allowed
  <2>2. \A p \in DOMAIN s : s[p] # n + 1  BY <2>1
  <2> QED  BY <2>2, CountType
<1>5. DueOf(n + 1) \in Nat
  <2>1. n + 1 \in 1..Items /\ n + 1 # EndItem  BY PipeAssumption DEF EndItem
  <2> QED  BY <2>1, PipeAssumption DEF DueOf
<1>6. \A x \in 1..n + 1 \cup {EndItem} : Count(s, x) <= DueOf(x)
  <2>1. \A x \in 1..n \cup {EndItem} : Count(s, x) <= DueOf(x)  BY DEF Allowed
  <2>2. Count(s, n + 1) <= DueOf(n + 1)  BY <1>4, <1>5
  <2> QED  BY <1>1, <2>1, <2>2
<1> QED  BY <1>3, <1>6 DEF Allowed

(* The outputs t of a worker are handed on. *)
LEMMA AllowedConcat ==
  ASSUME NEW ord, NEW s \in Seq(1..EndItem), NEW t \in Seq(1..Items), NEW n \in 0..Items,
         Allowed(ord, s, n), \A p \in DOMAIN s : s[p] # EndItem,
         \A p \in DOMAIN t : t[p] <= n,
         \A x \in 1..n : Count(s, x) + Count(t, x) <= Emits[x],
         ord => \A p, q \in DOMAIN t : p < q => t[p] <= t[q],
         ord => \A q \in DOMAIN t : \A y \in 1..t[q] - 1 :
                  Count(s, y) + Count(t, y) = Emits[y]
  PROVE  Allowed(ord, s \o t, n)
<1> DEFINE u == s \o t
<1>1. Items \in Nat /\ EndItem \in Nat /\ EndItem > Items  BY PipeAssumption DEF EndItem
<1>2. t \in Seq(1..EndItem)
  <2>1. 1..Items \subseteq 1..EndItem  BY <1>1
  <2> QED  BY <2>1, SeqMonotonic
<1>3. /\ u \in Seq(1..EndItem) /\ Len(u) = Len(s) + Len(t)
      /\ \A p \in 1..Len(s) + Len(t) : u[p] = IF p <= Len(s) THEN s[p] ELSE t[p - Len(s)]
      /\ \A x : Count(u, x) = Count(s, x) + Count(t, x)
  BY <1>2, ConcatProperties, CountConcat
<1>4. /\ Len(s) \in Nat /\ Len(t) \in Nat /\ DOMAIN s = 1..Len(s) /\ DOMAIN t = 1..Len(t)
      /\ DOMAIN u = 1..Len(s) + Len(t)
  BY <1>3
<1> HIDE DEF u
<1>5. ASSUME NEW p \in DOMAIN u
      PROVE  \/ p \in DOMAIN s /\ u[p] = s[p]
             \/ /\ p - Len(s) \in DOMAIN t /\ u[p] = t[p - Len(s)] /\ p > Len(s)
                /\ u[p] \in 1..n
  <2>1. CASE p <= Len(s)  BY <1>3, <1>4, <2>1
  <2>2. CASE p > Len(s)
    <3>1. p - Len(s) \in DOMAIN t /\ u[p] = t[p - Len(s)]  BY <1>3, <1>4, <2>2
    <3>2. t[p - Len(s)] \in 1..Items
      <4>1. \A q \in 1..Len(t) : t[q] \in 1..Items  BY ElementOfSeq
      <4> QED  BY <1>4, <3>1, <4>1
    <3>3. t[p - Len(s)] <= n  BY <3>1
    <3>4. u[p] \in 1..n  BY <1>1, <3>1, <3>2, <3>3
    <3> QED  BY <2>2, <3>1, <3>4
  <2> QED  BY <1>4, <2>1, <2>2
<1>6. \A x \in 1..n : x # EndItem /\ DueOf(x) = Emits[x]  BY <1>1 DEF DueOf
<1>7. \A p \in DOMAIN u : u[p] \in 1..n  BY <1>5 DEF Allowed
<1>8. \A p \in DOMAIN u : u[p] # EndItem  BY <1>6, <1>7
<1>9. \A x \in 1..n \cup {EndItem} : Count(u, x) <= DueOf(x)
  <2>1. \A x \in 1..n : Count(u, x) <= DueOf(x)  BY <1>3, <1>6
  <2>2. Count(u, EndItem) = 0  BY <1>3, <1>8, CountType
  <2>3. DueOf(EndItem) \in Nat
    <3>1. NumJobs * EndEmits \in Nat  BY PipeAssumption
    <3> QED  BY <3>1 DEF DueOf
  <2> QED  BY <2>1, <2>2, <2>3
<1>10. ASSUME ord, NEW p \in DOMAIN u, NEW y \in 1..u[p] - 1
       PROVE  Count(SubSeq(u, 1, p - 1), y) = Emits[y]
  <2>1. p - 1 \in 0..Len(u) /\ p \in Nat /\ u[p] \in 1..n  BY <1>3, <1>4, <1>7
  <2>2. CASE p \in DOMAIN s /\ u[p] = s[p]
    <3>1. SubSeq(u, 1, p - 1) = SubSeq(s, 1, p - 1)
      <4>1. p - 1 \in 0..Len(s)  BY <1>4, <2>2
      <4>2. /\ SubSeq(s, 1, p - 1) \in Seq(1..EndItem) /\ Len(SubSeq(s, 1, p - 1)) = p - 1
            /\ \A q \in 1..p - 1 : SubSeq(s, 1, p - 1)[q] = s[q]
        BY <4>1, CountPrefix
      <4>3. /\ SubSeq(u, 1, p - 1) \in Seq(1..EndItem) /\ Len(SubSeq(u, 1, p - 1)) = p - 1
            /\ \A q \in 1..p - 1 : SubSeq(u, 1, p - 1)[q] = u[q]
        <5>1. u \in Seq(1..EndItem) /\ p - 1 \in 0..Len(u)  BY <1>3, <2>1
        <5> QED  BY ONLY <5>1, CountPrefix
      <4>4. \A q \in 1..p - 1 : u[q] = s[q]  BY <1>3, <1>4, <2>2
      <4> QED  BY <4>2, <4>3, <4>4, SeqEqual
    <3>2. s[p] # EndItem  BY <2>2
    <3>3. ServedIn(SubSeq(s, 1, p - 1), s[p] - 1)  BY <1>10, <2>2, <3>2 DEF Allowed
    <3>4. Count(SubSeq(s, 1, p - 1), y) = DueOf(y)  BY <2>2, <3>3 DEF ServedIn
    <3>5. y \in 1..n  BY <2>1
    <3> QED  BY <1>6, <3>1, <3>4, <3>5
  <2>3. CASE p - Len(s) \in DOMAIN t /\ u[p] = t[p - Len(s)] /\ p > Len(s)
    <3>1. \A q \in DOMAIN u : q > p - 1 => u[q] # y
      <4>1. ASSUME NEW q \in DOMAIN u, q > p - 1 PROVE u[q] # y
        <5>1. q - Len(s) \in DOMAIN t /\ u[q] = t[q - Len(s)] /\ q >= p
          BY <1>3, <1>4, <2>1, <2>3, <4>1
        <5>2. t[p - Len(s)] <= t[q - Len(s)]
          <6>1. CASE q = p  BY <2>1, <2>3, <5>1, <6>1
          <6>2. CASE q # p
            <7>1. p - Len(s) < q - Len(s)  BY <1>4, <2>1, <5>1, <6>2
            <7> QED  BY <1>10, <2>3, <5>1, <7>1
          <6> QED  BY <6>1, <6>2
        <5>3. u[q] \in 1..n /\ y < u[p] /\ y \in Nat  BY <1>7, <2>1
        <5> QED  BY <2>1, <2>3, <5>1, <5>2, <5>3
      <4> QED  BY <4>1
    <3>2. Count(SubSeq(u, 1, p - 1), y) = Count(u, y)
      <4>1. u \in Seq(1..EndItem) /\ p - 1 \in 0..Len(u)  BY <1>3, <2>1
      <4>2. ASSUME NEW k \in 0..Len(u), \A q \in DOMAIN u : q > k => u[q] # y
            PROVE  Count(SubSeq(u, 1, k), y) = Count(u, y)
        BY <4>1, <4>2, CountPrefix
      <4> QED  BY <3>1, <4>1, <4>2
    <3>3. Count(s, y) + Count(t, y) = Emits[y]  BY <1>10, <2>3
    <3> QED  BY <1>3, <3>2, <3>3
  <2> QED  BY <1>5, <2>2, <2>3
<1>11. ord => \A p \in DOMAIN u : u[p] # EndItem => ServedIn(SubSeq(u, 1, p - 1), u[p] - 1)
  <2> SUFFICES ASSUME ord, NEW p \in DOMAIN u, NEW y \in 1..u[p] - 1
               PROVE  Count(SubSeq(u, 1, p - 1), y) = DueOf(y)
    BY DEF ServedIn
  <2>1. u[p] \in 1..n  BY <1>7
  <2>2. y \in 1..n  BY <2>1
  <2> QED  BY <1>6, <1>10, <2>2
<1> QED  BY <1>7, <1>8, <1>9, <1>11 DEF Allowed, u


(* The outputs of end() are handed on, all items being served. *)
LEMMA AllowedEnd ==
  ASSUME NEW ord, NEW s \in Seq(1..EndItem), NEW t \in Seq({EndItem}), NEW n \in 0..Items,
         Allowed(ord, s, n), \A x \in 1..n : Count(s, x) = Emits[x],
         Count(s, EndItem) + Count(t, EndItem) <= NumJobs * EndEmits
  PROVE  Allowed(ord, s \o t, n)
<1> DEFINE u == s \o t
<1>1. Items \in Nat /\ EndItem \in Nat /\ EndItem > Items  BY PipeAssumption DEF EndItem
<1>2. t \in Seq(1..EndItem)
  <2>1. {EndItem} \subseteq 1..EndItem  BY <1>1
  <2> QED  BY <2>1, SeqMonotonic
<1>3. /\ u \in Seq(1..EndItem) /\ Len(u) = Len(s) + Len(t)
      /\ \A p \in 1..Len(s) + Len(t) : u[p] = IF p <= Len(s) THEN s[p] ELSE t[p - Len(s)]
      /\ \A x : Count(u, x) = Count(s, x) + Count(t, x)
  BY <1>2, ConcatProperties, CountConcat
<1>4. /\ Len(s) \in Nat /\ Len(t) \in Nat /\ DOMAIN s = 1..Len(s) /\ DOMAIN t = 1..Len(t)
      /\ DOMAIN u = 1..Len(s) + Len(t)
  BY <1>3
<1> HIDE DEF u
<1>5. \A q \in DOMAIN t : t[q] = EndItem
  <2>1. \A q \in 1..Len(t) : t[q] \in {EndItem}  BY ElementOfSeq
  <2> QED  BY <1>4, <2>1
<1>6. ASSUME NEW p \in DOMAIN u
      PROVE  (p \in DOMAIN s /\ u[p] = s[p]) \/ (p > Len(s) /\ u[p] = EndItem)
  <2>1. CASE p <= Len(s)  BY <1>3, <1>4, <2>1
  <2>2. CASE p > Len(s)
    <3>1. p - Len(s) \in DOMAIN t /\ u[p] = t[p - Len(s)]  BY <1>3, <1>4, <2>2
    <3> QED  BY <1>5, <2>2, <3>1
  <2> QED  BY <1>4, <2>1, <2>2
<1>7. \A x \in 1..n : x # EndItem /\ DueOf(x) = Emits[x] /\ Count(u, x) = Emits[x]
                      /\ Count(s, x) = Emits[x]
  <2>1. ASSUME NEW x \in 1..n PROVE x # EndItem /\ Count(t, x) = 0 /\ Count(s, x) \in Nat
    <3>1. x # EndItem  BY <1>1
    <3>2. \A q \in DOMAIN t : t[q] # x  BY <1>5, <3>1
    <3>3. Count(t, x) = 0  BY <3>2, CountType
    <3>4. Count(s, x) \in Nat  BY CountType
    <3> QED  BY <3>1, <3>3, <3>4
  <2> QED  BY <1>3, <2>1 DEF DueOf
<1>8. \A p \in DOMAIN u : u[p] \in 1..n \cup {EndItem}  BY <1>6 DEF Allowed
<1>9. \A x \in 1..n \cup {EndItem} : Count(u, x) <= DueOf(x)
  <2>1. \A x \in 1..n : Emits[x] \in Nat
    <3>1. 1..n \subseteq 1..Items  BY <1>1
    <3> QED  BY <3>1, PipeAssumption
  <2>2. \A x \in 1..n : Count(u, x) <= DueOf(x)  BY <1>7, <2>1
  <2>3. Count(u, EndItem) <= DueOf(EndItem)  BY <1>3 DEF DueOf
  <2> QED  BY <2>2, <2>3
<1>10. ASSUME NEW p \in DOMAIN s
       PROVE  SubSeq(u, 1, p - 1) = SubSeq(s, 1, p - 1)
  <2>1. p - 1 \in 0..Len(s) /\ p - 1 \in 0..Len(u)  BY <1>3, <1>4
  <2>2. /\ SubSeq(s, 1, p - 1) \in Seq(1..EndItem) /\ Len(SubSeq(s, 1, p - 1)) = p - 1
        /\ \A q \in 1..p - 1 : SubSeq(s, 1, p - 1)[q] = s[q]
    BY <2>1, CountPrefix
  <2>3. /\ SubSeq(u, 1, p - 1) \in Seq(1..EndItem) /\ Len(SubSeq(u, 1, p - 1)) = p - 1
        /\ \A q \in 1..p - 1 : SubSeq(u, 1, p - 1)[q] = u[q]
    BY <1>3, <2>1, CountPrefix
  <2>4. \A q \in 1..p - 1 : u[q] = s[q]  BY <1>3, <1>4
  <2> QED  BY <2>2, <2>3, <2>4, SeqEqual
<1>11. ASSUME NEW p \in DOMAIN u, p > Len(s)
       PROVE  ServedIn(SubSeq(u, 1, p - 1), n)
  <2>1. p - 1 \in 0..Len(u) /\ p \in Nat  BY <1>3, <1>4
  <2>2. ASSUME NEW x \in 1..n PROVE Count(SubSeq(u, 1, p - 1), x) = Count(u, x)
    <3>1. \A q \in DOMAIN u : q > p - 1 => u[q] # x
      <4>1. ASSUME NEW q \in DOMAIN u, q > p - 1 PROVE u[q] # x
        <5>1. q > Len(s)  BY <1>4, <1>11, <2>1, <4>1
        <5>2. q \notin DOMAIN s  BY <1>4, <5>1
        <5> QED  BY <1>6, <1>7, <5>2
      <4> QED  BY <4>1
    <3>2. u \in Seq(1..EndItem)  BY <1>3
    <3>3. ASSUME NEW k \in 0..Len(u), \A q \in DOMAIN u : q > k => u[q] # x
          PROVE  Count(SubSeq(u, 1, k), x) = Count(u, x)
      BY <3>2, <3>3, CountPrefix
    <3> QED  BY <2>1, <3>1, <3>3
  <2> QED  BY <1>7, <2>2 DEF ServedIn
<1>12. \A p \in DOMAIN u : u[p] = EndItem => ServedIn(SubSeq(u, 1, p - 1), n)
  BY <1>6, <1>10, <1>11 DEF Allowed
<1>13. ord => \A p \in DOMAIN u : u[p] # EndItem => ServedIn(SubSeq(u, 1, p - 1), u[p] - 1)
  BY <1>6, <1>10 DEF Allowed
<1> QED  BY <1>8, <1>9, <1>12, <1>13 DEF Allowed, u

-----------------------------------------------------------------------------
(* The balance of the items. *)

LEMMA ShownType ==
  ASSUME TypeOK
  PROVE  /\ shown \in [Pipes -> Seq(1..Items)]
         /\ inbuf \in [Pipes -> Seq(1..Items)] /\ emitted \in [Pipes -> Nat]
         /\ \A i \in Pipes : \A x \in 1..Items :
              Holds(shown[i], inbuf[i], x) <=> x \in ItemsOf(state, wpc, inbuf, outbuf, i)
<1>1. <<>> \in Seq(1..Items) /\ DOMAIN <<>> = {}  BY EmptySeq
<1>2. outbuf \in [Pipes -> Seq(1..Items)]  BY DEF TypeOK
<1>3. shown \in [Pipes -> Seq(1..Items)]  BY <1>1, <1>2 DEF shown
<1>4. ASSUME NEW i \in Pipes, NEW x \in 1..Items
      PROVE  Holds(shown[i], inbuf[i], x) <=> x \in ItemsOf(state, wpc, inbuf, outbuf, i)
  <2>1. shown[i] = IF state[i] \in Output \/ wpc[i] \in Working THEN outbuf[i] ELSE <<>>
    BY DEF shown
  <2> QED  BY <1>1, <2>1 DEF Holds, ItemsOf
<1> QED  BY <1>3, <1>4 DEF TypeOK

(* A step that moves no item and hands nothing on. *)
LEMMA Unseen ==
  ASSUME SerialInv, PipeInv', EndInv',
         UNCHANGED <<out, fed, written, maintainOrder, toEnd>>,
         Live' => Live /\ shown' = shown /\ inbuf' = inbuf /\ emitted' = emitted,
         result' = "none" => result = "none" /\ (mpc = "ends" => mpc' = "ends"),
         mpc' = "ends" => mpc \in {"close", "ends"}
  PROVE  SerialInv'
<1>1. SortedInv' /\ BalanceInv'  BY DEF SerialInv, SortedInv, BalanceInv
<1>2. OutInv'
  <2> SUFFICES ASSUME result' = "none"
               PROVE  /\ Allowed(maintainOrder, out, fed)
                      /\ \A p \in DOMAIN out : out[p] = EndItem \/ out[p] <= fed - Len(written)
                      /\ mpc' # "ends" => \A p \in DOMAIN out : out[p] # EndItem
                      /\ mpc' = "ends" =>
                           Count(out, EndItem) = (NumJobs - Cardinality(toEnd)) * EndEmits
    BY DEF OutInv
  <2>1. OutInv /\ EndInv  BY DEF SerialInv
  <2>2. CASE mpc' = "ends" /\ mpc = "close"
    <3>1. toEnd = Pipes  BY <2>1, <2>2 DEF EndInv
    <3>2. NumJobs - Cardinality(toEnd) = 0  BY <3>1, PipesFinite, PipeAssumption
    <3>3. (NumJobs - Cardinality(toEnd)) * EndEmits = 0  BY <3>2, PipeAssumption
    <3>4. out \in Seq(1..Items + 1)  BY DEF SerialInv, PipeInv, TypeOK
    <3>5. Count(out, EndItem) = 0  BY <2>1, <2>2, <3>4, CountType DEF OutInv
    <3> QED  BY <2>1, <2>2, <3>3, <3>5 DEF OutInv
  <2>3. CASE ~(mpc' = "ends" /\ mpc = "close")  BY <2>1, <2>3 DEF OutInv
  <2> QED  BY <2>2, <2>3
<1> QED  BY <1>1, <1>2 DEF SerialInv

(* The phase ends. *)
LEMMA Ended ==
  ASSUME PipeInv', EndInv', result' # "none"
  PROVE  SerialInv'
BY DEF SerialInv, SortedInv, BalanceInv, OutInv, Live


(* The nodes push an output for the first item. *)
LEMMA PushBalance ==
  ASSUME NEW sh \in Seq(1..Items), NEW buf \in Seq(1..Items), buf # <<>>, NEW n \in Nat,
         n < Emits[buf[1]], Sorted(sh, buf, n)
  PROVE  /\ Sorted(Append(sh, buf[1]), buf, n + 1)
         /\ \A x \in 1..Items :
              /\ Holds(Append(sh, buf[1]), buf, x) => Holds(sh, buf, x)
              /\ Owed(Append(sh, buf[1]), buf, n + 1, x) = Owed(sh, buf, n, x)
<1> DEFINE e == buf[1]
           s2 == Append(sh, e)
<1>1. e \in 1..Items /\ 1 \in DOMAIN buf  BY HeadIs
<1>2. Emits[e] \in Nat  BY <1>1, PipeAssumption
<1>3. /\ s2 \in Seq(1..Items) /\ Len(s2) = Len(sh) + 1
      /\ \A p \in 1..Len(sh) : s2[p] = sh[p]
      /\ s2[Len(sh) + 1] = e
      /\ \A x : Count(s2, x) = Count(sh, x) + (IF e = x THEN 1 ELSE 0)
  BY <1>1, AppendProperties, CountAppend
<1>4. DOMAIN sh = 1..Len(sh) /\ Len(sh) \in Nat /\ DOMAIN s2 = 1..Len(sh) + 1
  BY <1>3
<1>5. \A q \in DOMAIN buf : e <= buf[q]
  <2>1. DOMAIN buf = 1..Len(buf) /\ Len(buf) \in Nat  OBVIOUS
  <2>2. \A q \in DOMAIN buf : q # 1 => e < buf[q]
    <3>1. \A q \in DOMAIN buf : q # 1 => 1 < q  BY <2>1
    <3> QED  BY <1>1, <3>1 DEF Sorted
  <2>3. \A q \in DOMAIN buf : buf[q] \in 1..Items  BY <2>1, ElementOfSeq
  <2> QED  BY <1>1, <2>2, <2>3
<1> HIDE DEF s2, e
<1>6. ASSUME NEW p \in DOMAIN s2
      PROVE  (p \in DOMAIN sh /\ s2[p] = sh[p]) \/ (p = Len(sh) + 1 /\ s2[p] = e)
  <2>1. p \in 1..Len(sh) \/ p = Len(sh) + 1  BY <1>4
  <2> QED  BY <1>3, <1>4, <2>1
<1>7. Sorted(s2, buf, n + 1)
  <2>1. n + 1 <= Emits[buf[1]]  BY <1>2 DEF e
  <2>2. ASSUME NEW p \in DOMAIN s2, NEW q \in DOMAIN s2, p < q PROVE s2[p] <= s2[q]
    <3>1. p \in DOMAIN sh /\ s2[p] = sh[p]  BY <1>4, <1>6, <2>2
    <3>2. CASE q \in DOMAIN sh /\ s2[q] = sh[q]  BY <2>2, <3>1, <3>2 DEF Sorted
    <3>3. CASE s2[q] = e  BY <1>1, <3>1, <3>3 DEF Sorted, e
    <3> QED  BY <1>6, <3>2, <3>3
  <2>3. ASSUME NEW p \in DOMAIN s2, NEW q \in DOMAIN buf PROVE s2[p] <= buf[q]
    BY <1>5, <1>6 DEF Sorted
  <2> QED  BY <2>1, <2>2, <2>3 DEF Sorted
<1>8. ASSUME NEW x \in 1..Items
      PROVE  /\ Holds(s2, buf, x) => Holds(sh, buf, x)
             /\ Owed(s2, buf, n + 1, x) = Owed(sh, buf, n, x)
  <2>1. Holds(s2, buf, x) => Holds(sh, buf, x)  BY <1>1, <1>6 DEF Holds, e
  <2>2. Count(sh, x) \in Nat  BY CountType
  <2>3. CASE x = e
    <3>1. ToPush(buf, n, x) = Emits[e] - n /\ ToPush(buf, n + 1, x) = Emits[e] - (n + 1)
      BY <1>1, <2>3 DEF ToPush, e
    <3>2. Count(s2, x) = Count(sh, x) + 1  BY <1>3, <2>3
    <3> QED  BY <1>2, <2>1, <2>2, <3>1, <3>2 DEF Owed
  <2>4. CASE x # e
    <3>1. ToPush(buf, n, x) = ToPush(buf, n + 1, x)  BY <2>4 DEF ToPush, e
    <3>2. Count(s2, x) = Count(sh, x)  BY <1>3, <2>2, <2>4
    <3> QED  BY <2>1, <3>1, <3>2 DEF Owed
  <2> QED  BY <2>3, <2>4
<1> QED  BY <1>7, <1>8 DEF s2, e

(* All outputs of the first item are pushed. *)
LEMMA NextBalance ==
  ASSUME NEW sh \in Seq(1..Items), NEW buf \in Seq(1..Items), buf # <<>>,
         Sorted(sh, buf, Emits[buf[1]])
  PROVE  /\ Sorted(sh, Tail(buf), 0)
         /\ \A x \in 1..Items :
              /\ Holds(sh, Tail(buf), x) => Holds(sh, buf, x)
              /\ Owed(sh, Tail(buf), 0, x) = Owed(sh, buf, Emits[buf[1]], x)
<1> DEFINE e == buf[1]
           b2 == Tail(buf)
<1>1. e \in 1..Items /\ 1 \in DOMAIN buf  BY HeadIs
<1>2. Emits[e] \in Nat  BY <1>1, PipeAssumption
<1>3. /\ b2 \in Seq(1..Items) /\ Len(b2) = Len(buf) - 1
      /\ \A p \in 1..Len(b2) : b2[p] = buf[p + 1]
  BY HeadTailProperties
<1>4. DOMAIN buf = 1..Len(buf) /\ Len(buf) \in Nat /\ DOMAIN b2 = 1..Len(buf) - 1
  BY <1>3
<1>5. \A p \in DOMAIN b2 : p + 1 \in DOMAIN buf /\ b2[p] = buf[p + 1] /\ 1 < p + 1
  BY <1>3, <1>4
<1>6. \A p \in DOMAIN buf : p # 1 => p - 1 \in DOMAIN b2 /\ b2[p - 1] = buf[p]
  BY <1>3, <1>4
<1>7. \A p \in DOMAIN b2 : e < b2[p] /\ b2[p] \in 1..Items
  <2>1. \A p \in DOMAIN buf : buf[p] \in 1..Items  BY <1>4, ElementOfSeq
  <2> QED  BY <1>1, <1>5, <2>1 DEF Sorted
<1> HIDE DEF b2, e
<1>8. Sorted(sh, b2, 0)
  <2>1. ASSUME NEW p \in DOMAIN b2, NEW q \in DOMAIN b2, p < q PROVE b2[p] < b2[q]
    <3>1. p + 1 < q + 1  BY <1>4, <2>1
    <3> QED  BY <1>5, <3>1 DEF Sorted
  <2>2. b2 # <<>> => 0 <= Emits[b2[1]]
    <3>1. b2 # <<>> => b2[1] \in 1..Items  BY <1>3, HeadIs
    <3> QED  BY <3>1, PipeAssumption
  <2>3. \A p \in DOMAIN sh, q \in DOMAIN b2 : sh[p] <= b2[q]  BY <1>5 DEF Sorted
  <2> QED  BY <2>1, <2>2, <2>3 DEF Sorted
<1>9. ASSUME NEW x \in 1..Items
      PROVE  /\ Holds(sh, b2, x) => Holds(sh, buf, x)
             /\ ToPush(b2, 0, x) = ToPush(buf, Emits[e], x)
  <2>1. Holds(sh, b2, x) => Holds(sh, buf, x)  BY <1>5 DEF Holds
  <2>2. Emits[x] \in Nat  BY PipeAssumption
  <2>3. CASE x = e
    <3>1. ToPush(buf, Emits[e], x) = 0  BY <1>1, <1>2, <2>3 DEF ToPush, e
    <3>2. \A p \in DOMAIN b2 : b2[p] # x  BY <1>1, <1>7, <2>3
    <3> QED  BY <2>1, <3>1, <3>2 DEF ToPush
  <2>4. CASE x # e
    <3>1. (\E p \in DOMAIN b2 : b2[p] = x) <=> (\E p \in DOMAIN buf : buf[p] = x)
      BY <1>5, <1>6, <2>4 DEF e
    <3>2. ToPush(buf, Emits[e], x) = IF \E p \in DOMAIN buf : buf[p] = x THEN Emits[x] ELSE 0
      BY <2>4 DEF ToPush, e
    <3>3. ToPush(b2, 0, x) = IF \E p \in DOMAIN b2 : b2[p] = x THEN Emits[x] ELSE 0
      BY <2>2 DEF ToPush
    <3> QED  BY <2>1, <3>1, <3>2, <3>3
  <2> QED  BY <2>3, <2>4
<1> QED  BY <1>8, <1>9 DEF Owed, b2, e

(* A step of worker k that keeps its balance. *)
LEMMA ItemMoves ==
  ASSUME SerialInv, PipeInv', EndInv', NEW k \in Pipes,
         UNCHANGED <<out, fed, written, maintainOrder, toEnd, mpc, result, eptr>>,
         Live => \A j \in Pipes : j # k => /\ shown'[j] = shown[j] /\ inbuf'[j] = inbuf[j]
                                           /\ emitted'[j] = emitted[j],
         Live => Sorted(shown'[k], inbuf'[k], emitted'[k]),
         Live => \A x \in 1..Items :
                   /\ Holds(shown'[k], inbuf'[k], x) => Holds(shown[k], inbuf[k], x)
                   /\ Owed(shown'[k], inbuf'[k], emitted'[k], x)
                        = Owed(shown[k], inbuf[k], emitted[k], x)
  PROVE  SerialInv'
<1>1. SortedInv /\ BalanceInv /\ OutInv  BY DEF SerialInv
<1>2. SortedInv'
  <2> SUFFICES ASSUME Live, NEW i \in Pipes PROVE Sorted(shown'[i], inbuf'[i], emitted'[i])
    BY DEF SortedInv, Live
  <2>1. CASE i = k  BY <2>1
  <2>2. CASE i # k  BY <1>1, <2>2 DEF SortedInv
  <2> QED  BY <2>1, <2>2
<1>3. BalanceInv'
  <2> SUFFICES ASSUME Live, NEW x \in 1..Items, x <= fed - Len(written)
               PROVE  Balanced(shown', inbuf', emitted', out, x)
    BY DEF BalanceInv, Live
  <2>1. Balanced(shown, inbuf, emitted, out, x)  BY <1>1 DEF BalanceInv
  <2>2. PICK i \in Pipes :
          /\ \A j \in Pipes : j # i => ~Holds(shown[j], inbuf[j], x)
          /\ Count(out, x) + Owed(shown[i], inbuf[i], emitted[i], x) = Emits[x]
    BY <2>1 DEF Balanced
  <2>3. \A j \in Pipes : j # i => ~Holds(shown'[j], inbuf'[j], x)
    <3>1. ASSUME NEW j \in Pipes, j # i PROVE ~Holds(shown'[j], inbuf'[j], x)
      <4>1. CASE j = k  BY <2>2, <3>1, <4>1
      <4>2. CASE j # k  BY <2>2, <3>1, <4>2
      <4> QED  BY <4>1, <4>2
    <3> QED  BY <3>1
  <2>4. Owed(shown'[i], inbuf'[i], emitted'[i], x) = Owed(shown[i], inbuf[i], emitted[i], x)
    <3>1. CASE i = k  BY <3>1
    <3>2. CASE i # k  BY <3>2
    <3> QED  BY <3>1, <3>2
  <2> QED  BY <2>2, <2>3, <2>4 DEF Balanced
<1>4. OutInv'  BY <1>1 DEF OutInv
<1> QED  BY <1>2, <1>3, <1>4 DEF SerialInv

-----------------------------------------------------------------------------
(* The steps of the workers. *)

LEMMA SameShown ==
  ASSUME \A j \in Pipes :
           (IF state'[j] \in Output \/ wpc'[j] \in Working THEN outbuf'[j] ELSE <<>>)
         = (IF state[j] \in Output \/ wpc[j] \in Working THEN outbuf[j] ELSE <<>>)
  PROVE  shown' = shown
BY DEF shown

(* A step of a worker that moves no item. *)
LEMMA UnseenWorker ==
  ASSUME SerialInv, PipeInv', NEW i \in Pipes, wpc[i] # "exit",
         UNCHANGED <<inbuf, emitted, phaseVars, flowVars, mpc>>,
         eptr => eptr',
         ~eptr' => \A j \in Pipes : j # i =>
                   state'[j] = state[j] /\ wpc'[j] = wpc[j] /\ outbuf'[j] = outbuf[j],
         ~eptr' => \/ /\ state[i] \in Output \/ wpc[i] \in Working
                      /\ state'[i] \in Output \/ wpc'[i] \in Working
                      /\ outbuf'[i] = outbuf[i]
                   \/ /\ outbuf[i] = <<>> \/ (state[i] \notin Output /\ wpc[i] \notin Working)
                      /\ outbuf'[i] = <<>> \/ (state'[i] \notin Output /\ wpc'[i] \notin Working)
  PROVE  SerialInv'
<1> USE DEF phaseVars, flowVars
<1>1. EndInv /\ mpc # "ends"  BY DEF SerialInv, EndInv
<1>2. EndInv'  BY <1>1 DEF EndInv
<1>3. ~eptr' => shown' = shown
  <2> SUFFICES ASSUME ~eptr', NEW j \in Pipes
               PROVE  (IF state'[j] \in Output \/ wpc'[j] \in Working THEN outbuf'[j] ELSE <<>>)
                    = (IF state[j] \in Output \/ wpc[j] \in Working THEN outbuf[j] ELSE <<>>)
    BY SameShown
  <2>1. CASE j = i  BY <2>1
  <2>2. CASE j # i  BY <2>2
  <2> QED  BY <2>1, <2>2
<1> QED  BY <1>2, <1>3, Unseen DEF Live

LEMMA WorkerStartSerial ==
  ASSUME SerialInv, PipeInv', NEW i \in Pipes, WorkerStart(i)
  PROVE  SerialInv'
<1>1. TypeOK /\ WorkerInv /\ ~fault  BY DEF SerialInv, PipeInv
<1>2. state[i] = "initializing" /\ wpc[i] = "start"
  BY <1>1 DEF WorkerStart, WorkerInv, StatesAt
<1>3. /\ state' = [state EXCEPT ![i] = "idle"] /\ wpc' = [wpc EXCEPT ![i] = "loop"]
      /\ UNCHANGED <<inbuf, emitted, outbuf, eptr, phaseVars, flowVars, mpc>>
  BY <1>2 DEF WorkerStart, Transition, bufferVars
<1>4. state'[i] = "idle" /\ wpc'[i] = "loop"  BY <1>1, <1>3 DEF TypeOK
<1>5. \A j \in Pipes : j # i => state'[j] = state[j] /\ wpc'[j] = wpc[j]
  BY <1>1, <1>3 DEF TypeOK
<1> QED  BY <1>2, <1>3, <1>4, <1>5, UnseenWorker DEF Output, Working

LEMMA WorkerLoopSerial ==
  ASSUME SerialInv, PipeInv', NEW i \in Pipes, WorkerLoop(i)
  PROVE  SerialInv'
<1>1. TypeOK /\ BufferInv /\ WorkerInv  BY DEF SerialInv, PipeInv
<1>2. /\ wpc[i] = "loop" /\ state' = state
      /\ \A j \in Pipes : j # i => wpc'[j] = wpc[j]
      /\ UNCHANGED <<inbuf, emitted, outbuf, eptr, phaseVars, flowVars, mpc>>
  BY <1>1 DEF WorkerLoop, bufferVars, TypeOK
<1>3. ~eptr => outbuf[i] = <<>>  BY <1>1, <1>2 DEF BufferInv
<1> QED  BY <1>2, <1>3, UnseenWorker

LEMMA PushAllDoneSerial ==
  ASSUME SerialInv, PipeInv', NEW i \in Pipes, PushAllDone(i)
  PROVE  SerialInv'
<1>1. TypeOK  BY DEF SerialInv, PipeInv
<1>2. /\ wpc[i] = "work" /\ wpc'[i] = "flush" /\ state' = state
      /\ \A j \in Pipes : j # i => wpc'[j] = wpc[j]
      /\ UNCHANGED <<inbuf, emitted, outbuf, eptr, phaseVars, flowVars, mpc>>
  BY <1>1 DEF PushAllDone, bufferVars, mainVars, TypeOK
<1> QED  BY <1>2, UnseenWorker DEF Working

LEMMA FlushSerial ==
  ASSUME SerialInv, PipeInv', NEW i \in Pipes, Flush(i)
  PROVE  SerialInv'
<1>1. TypeOK /\ WorkerInv  BY DEF SerialInv, PipeInv
<1>2. state[i] = "processing" /\ wpc[i] = "flush"
  BY <1>1 DEF Flush, WorkerInv, StatesAt
<1>3. /\ state'[i] \in Output
      /\ \A j \in Pipes : j # i => state'[j] = state[j] /\ wpc'[j] = wpc[j]
      /\ UNCHANGED <<inbuf, emitted, outbuf, eptr, phaseVars, flowVars, mpc>>
  BY <1>1, <1>2 DEF Flush, Transition, bufferVars, TypeOK, Output
<1> QED  BY <1>2, <1>3, UnseenWorker DEF Working

LEMMA FlushTestSerial ==
  ASSUME SerialInv, PipeInv', NEW i \in Pipes, FlushTest(i)
  PROVE  SerialInv'
<1>1. TypeOK  BY DEF SerialInv, PipeInv
<1>2. /\ wpc[i] = "flushtest" /\ state' = state
      /\ \A j \in Pipes : j # i => wpc'[j] = wpc[j] /\ outbuf'[j] = outbuf[j]
      /\ UNCHANGED <<inbuf, emitted, eptr, phaseVars, flowVars, mpc>>
  BY <1>1 DEF FlushTest, mainVars, TypeOK
<1>3. CASE state[i] \in Output
  <2>1. outbuf' = outbuf  BY <1>3 DEF FlushTest
  <2> QED  BY <1>2, <1>3, <2>1, UnseenWorker
<1>4. CASE state[i] \notin Output
  <2>1. outbuf'[i] = <<>>  BY <1>1, <1>4 DEF FlushTest, TypeOK
  <2> QED  BY <1>2, <1>4, <2>1, UnseenWorker DEF Working
<1> QED  BY <1>3, <1>4

LEMMA WorkerThrowSerial ==
  ASSUME SerialInv, PipeInv', NEW i \in Pipes, WorkerThrow(i)
  PROVE  SerialInv'
<1>1. TypeOK  BY DEF SerialInv, PipeInv
<1>2. /\ wpc[i] = "work" /\ wpc'[i] = "catch" /\ state' = state
      /\ \A j \in Pipes : j # i => wpc'[j] = wpc[j]
      /\ UNCHANGED <<inbuf, emitted, outbuf, eptr, phaseVars, flowVars, mpc>>
  BY <1>1 DEF WorkerThrow, bufferVars, mainVars, TypeOK
<1> QED  BY <1>2, UnseenWorker DEF Working

LEMMA WorkerCatchSerial ==
  ASSUME SerialInv, PipeInv', NEW i \in Pipes, WorkerCatch(i)
  PROVE  SerialInv'
<1>1. /\ wpc[i] = "catch" /\ eptr' = TRUE
      /\ UNCHANGED <<inbuf, emitted, phaseVars, flowVars, mpc>>
  BY DEF WorkerCatch, bufferVars
<1> QED  BY <1>1, UnseenWorker

(* The nodes of a worker push an output, unless their buffer is full. *)
LEMMA PushSerial ==
  ASSUME SerialInv, PipeInv', NEW i \in Pipes, Push(i)
  PROVE  SerialInv'
<1> USE DEF phaseVars, flowVars, mainVars
<1>1. TypeOK /\ WorkerInv /\ EndInv /\ SortedInv  BY DEF SerialInv, PipeInv
<1>2. /\ wpc[i] = "work" /\ mpc # "ends"
      /\ inbuf[i] # <<>> /\ inbuf' = inbuf /\ state' = state
      /\ emitted[i] < Emits[Head(inbuf[i])]
      /\ UNCHANGED <<eptr, phaseVars, flowVars, mainVars>>
  BY <1>1 DEF Push, EndInv
<1>3. CASE Len(outbuf[i]) < BufSize
  <2>1. /\ outbuf' = [outbuf EXCEPT ![i] = Append(@, Head(inbuf[i]))]
        /\ emitted' = [emitted EXCEPT ![i] = @ + 1] /\ wpc' = wpc
    BY <1>3 DEF Push
  <2>2. /\ outbuf'[i] = Append(outbuf[i], Head(inbuf[i]))
        /\ emitted'[i] = emitted[i] + 1
        /\ \A j \in Pipes : j # i => outbuf'[j] = outbuf[j] /\ emitted'[j] = emitted[j]
    BY <1>1, <2>1 DEF TypeOK
  <2>3. shown[i] = outbuf[i] /\ shown'[i] = outbuf'[i]
    BY <1>2, <2>1 DEF shown, Working
  <2>4. \A j \in Pipes : j # i => shown'[j] = shown[j]
    BY <1>2, <2>1, <2>2 DEF shown
  <2>5. /\ shown[i] \in Seq(1..Items) /\ inbuf[i] \in Seq(1..Items)
        /\ emitted[i] \in Nat
    BY <1>1, ShownType
  <2>6. Head(inbuf[i]) = inbuf[i][1]  BY <1>2, <2>5, HeadIs
  <2>7. Live => Sorted(shown[i], inbuf[i], emitted[i])  BY <1>1 DEF SortedInv
  <2>8. Live =>
          /\ Sorted(Append(shown[i], inbuf[i][1]), inbuf[i], emitted[i] + 1)
          /\ \A x \in 1..Items :
               /\ Holds(Append(shown[i], inbuf[i][1]), inbuf[i], x)
                    => Holds(shown[i], inbuf[i], x)
               /\ Owed(Append(shown[i], inbuf[i][1]), inbuf[i], emitted[i] + 1, x)
                    = Owed(shown[i], inbuf[i], emitted[i], x)
    BY <1>2, <2>5, <2>6, <2>7, PushBalance
  <2>9. EndInv'  BY <1>1, <1>2 DEF EndInv
  <2>10. shown'[i] = Append(shown[i], inbuf[i][1]) /\ inbuf'[i] = inbuf[i]
    BY <1>2, <2>2, <2>3, <2>6
  <2> QED  BY <1>2, <2>2, <2>4, <2>8, <2>9, <2>10, ItemMoves
<1>4. CASE ~(Len(outbuf[i]) < BufSize)
  <2>1. /\ UNCHANGED <<outbuf, emitted>> /\ wpc'[i] = "flush"
        /\ \A j \in Pipes : j # i => wpc'[j] = wpc[j]
    BY <1>1, <1>4 DEF Push, TypeOK
  <2> QED  BY <1>2, <2>1, UnseenWorker DEF Working
<1> QED  BY <1>3, <1>4

LEMMA NextItemSerial ==
  ASSUME SerialInv, PipeInv', NEW i \in Pipes, NextItem(i)
  PROVE  SerialInv'
<1> USE DEF phaseVars, flowVars, mainVars, workerVars
<1>1. TypeOK /\ EndInv /\ SortedInv  BY DEF SerialInv, PipeInv
<1>2. /\ mpc # "ends" /\ inbuf[i] # <<>> /\ emitted[i] = Emits[Head(inbuf[i])]
      /\ inbuf' = [inbuf EXCEPT ![i] = Tail(@)] /\ emitted' = [emitted EXCEPT ![i] = 0]
      /\ UNCHANGED <<outbuf, workerVars, phaseVars, flowVars, mainVars>>
  BY <1>1 DEF NextItem, EndInv
<1>3. /\ inbuf'[i] = Tail(inbuf[i]) /\ emitted'[i] = 0
      /\ \A j \in Pipes : j # i => inbuf'[j] = inbuf[j] /\ emitted'[j] = emitted[j]
  BY <1>1, <1>2 DEF TypeOK
<1>4. shown' = shown  BY <1>2 DEF shown
<1>5. shown[i] \in Seq(1..Items) /\ inbuf[i] \in Seq(1..Items)  BY <1>1, ShownType
<1>6. emitted[i] = Emits[inbuf[i][1]]  BY <1>2, <1>5, HeadIs
<1>7. Live => Sorted(shown[i], inbuf[i], Emits[inbuf[i][1]])  BY <1>1, <1>6 DEF SortedInv
<1>8. Live => /\ Sorted(shown[i], Tail(inbuf[i]), 0)
              /\ \A x \in 1..Items :
                   /\ Holds(shown[i], Tail(inbuf[i]), x) => Holds(shown[i], inbuf[i], x)
                   /\ Owed(shown[i], Tail(inbuf[i]), 0, x)
                        = Owed(shown[i], inbuf[i], Emits[inbuf[i][1]], x)
  BY <1>2, <1>5, <1>7, NextBalance
<1>9. EndInv'  BY <1>1, <1>2 DEF EndInv
<1> QED  BY <1>2, <1>3, <1>4, <1>6, <1>8, <1>9, ItemMoves

-----------------------------------------------------------------------------
(* The steps of the main thread that move no item. *)

(* The main thread goes from one place to another. *)
LEMMA UnseenMain ==
  ASSUME SerialInv, PipeInv', EndInv',
         UNCHANGED <<bufferVars, workerVars, maintainOrder, toEnd, result, flowVars>>,
         mpc # "ends", mpc' = "ends" => mpc = "close"
  PROVE  SerialInv'
<1> USE DEF bufferVars, workerVars, flowVars
<1>1. shown' = shown  BY SameShown
<1> QED  BY <1>1, Unseen DEF Live

(* The pipe is being stopped. *)
LEMMA UnseenStop ==
  ASSUME SerialInv, PipeInv', EndInv', eptr \/ result # "none",
         UNCHANGED <<eptr, maintainOrder, toEnd, result, flowVars>>,
         mpc # "ends", mpc' # "ends"
  PROVE  SerialInv'
BY Unseen DEF Live, flowVars

LEMMA StartThreadSerial ==
  ASSUME SerialInv, PipeInv', StartThread
  PROVE  SerialInv'
<1> USE DEF bufferVars, flowVars, mainVars
<1>1. EndInv /\ TypeOK /\ StartInv  BY DEF SerialInv, PipeInv
<1>2. /\ mpc = "begin" /\ started + 1 \in Pipes
      /\ wpc' = [wpc EXCEPT ![started + 1] = "start"]
      /\ UNCHANGED <<bufferVars, state, eptr, maintainOrder, dying, toEnd, result, flowVars,
                     mainVars>>
  BY <1>1, PipeAssumption DEF StartThread, TypeOK, Pipes
<1>3. EndInv'  BY <1>1, <1>2 DEF EndInv
<1>4. wpc[started + 1] = "none"
  <2>1. started + 1 > started  BY <1>1 DEF TypeOK
  <2> QED  BY <1>1, <1>2, <2>1 DEF StartInv
<1>5. \A j \in Pipes : wpc'[j] \in Working <=> wpc[j] \in Working
  <2>1. \A j \in Pipes : wpc'[j] = IF j = started + 1 THEN "start" ELSE wpc[j]
    BY <1>1, <1>2 DEF TypeOK
  <2> QED  BY <1>4, <2>1 DEF Working
<1>6. shown' = shown  BY <1>2, <1>5, SameShown
<1> QED  BY <1>2, <1>3, <1>6, Unseen DEF Live

LEMMA ProducerBeginSerial ==
  ASSUME SerialInv, PipeInv', ProducerBegin
  PROVE  SerialInv'
<1> USE DEF phaseVars
<1>1. /\ mpc = "begin" /\ mpc' \in {"begin", "feed"}
      /\ UNCHANGED <<bufferVars, workerVars, phaseVars, flowVars>>
  BY DEF ProducerBegin, GoOn, Wait
<1>2. EndInv'  BY <1>1 DEF SerialInv, EndInv, flowVars, workerVars
<1> QED  BY <1>1, <1>2, UnseenMain

LEMMA FeedFullSerial ==
  ASSUME SerialInv, PipeInv', FeedFull
  PROVE  SerialInv'
<1> USE DEF phaseVars
<1>1. /\ mpc = "full" /\ mpc' \in {"stop", "empty"}
      /\ UNCHANGED <<bufferVars, workerVars, phaseVars, flowVars>>
  BY DEF FeedFull, GoOn
<1>2. EndInv'  BY <1>1 DEF SerialInv, EndInv, flowVars, workerVars
<1> QED  BY <1>1, <1>2, UnseenMain

LEMMA EndCallSerial ==
  ASSUME SerialInv, PipeInv', EndCall
  PROVE  SerialInv'
<1>1. /\ mpc = "feed" /\ mpc' = "empty"
      /\ UNCHANGED <<bufferVars, workerVars, maintainOrder, dying, toEnd, result, flowVars>>
  BY DEF EndCall, GoOn
<1>2. EndInv'  BY <1>1 DEF SerialInv, EndInv, flowVars, workerVars
<1> QED  BY <1>1, <1>2, UnseenMain

(* All workers are idle and holding nothing: they are dismissed. *)
LEMMA FinishSerial ==
  ASSUME SerialInv, PipeInv', Finish
  PROVE  SerialInv'
<1> USE DEF phaseVars, flowVars, bufferVars
<1>1. EndInv /\ TypeOK /\ PhaseInv  BY DEF SerialInv, PipeInv
<1>2. /\ mpc = "finish" /\ mpc' = "close" /\ \A i \in Pipes : state[i] = "idle"
      /\ UNCHANGED <<bufferVars, eptr, phaseVars, flowVars>>
  BY <1>1 DEF Finish, GoOn, PhaseInv
<1>3. EndInv'  BY <1>1, <1>2 DEF EndInv
<1>4. \A j \in Pipes : /\ state'[j] = "done"
                       /\ wpc'[j] \in Working <=> wpc[j] \in Working
  BY <1>2 DEF Finish, Dismiss, Working
<1>5. shown' = shown  BY <1>2, <1>4, SameShown DEF Output
<1> QED  BY <1>2, <1>3, <1>5, Unseen DEF Live

LEMMA CloseWorkersSerial ==
  ASSUME SerialInv, PipeInv', CloseWorkers
  PROVE  SerialInv'
<1> USE DEF phaseVars
<1>1. EndInv /\ TypeOK /\ StartInv  BY DEF SerialInv, PipeInv
<1>2. /\ mpc = "close" /\ UNCHANGED <<bufferVars, workerVars, phaseVars, flowVars>>
      /\ mpc' \in {"stop", "ends", "close"}
      /\ mpc' = "ends" => ~eptr /\ runningWorkers = 0
  BY DEF CloseWorkers, GoOn, Wait
<1>3. mpc' = "ends" => \A i \in Pipes : wpc[i] = "exit"
  <2> SUFFICES ASSUME runningWorkers = 0, NEW i \in Pipes PROVE wpc[i] = "exit"
    BY <1>2
  <2>1. RunningIn(wpc) = {}  BY <1>1, RunningCount DEF StartInv
  <2>2. wpc[i] \notin {"none", "start"}
    <3>1. i \in 1..NumJobs /\ NumJobs \in Nat  BY PipeAssumption DEF Pipes
    <3> QED  BY <1>1, <1>2, <3>1 DEF StartInv
  <2> QED  BY <2>1, <2>2 DEF RunningIn
<1>4. EndInv'  BY <1>1, <1>2, <1>3 DEF EndInv, flowVars, workerVars
<1> QED  BY <1>2, <1>4, UnseenMain

LEMMA DestroySerial ==
  ASSUME SerialInv, PipeInv', Destroy
  PROVE  SerialInv'
<1>1. /\ mpc = "dtor" /\ mpc' = "stop" /\ dying' = TRUE
      /\ UNCHANGED <<bufferVars, workerVars, maintainOrder, toEnd, result, flowVars>>
  BY DEF Destroy, GoOn
<1>2. EndInv'  BY <1>1 DEF SerialInv, EndInv, flowVars, workerVars
<1> QED  BY <1>1, <1>2, UnseenMain

LEMMA StopReturnSerial ==
  ASSUME SerialInv, PipeInv', mpc \in {"stop", "stopped"}, StopReturn,
         UNCHANGED <<bufferVars, workerVars, maintainOrder, dying, toEnd, flowVars>>
  PROVE  SerialInv'
<1>1. EndInv  BY DEF SerialInv
<1>2. CASE dying
  <2>1. mpc' = "join" /\ result' = result  BY <1>2 DEF StopReturn, GoOn
  <2>2. EndInv'  BY <1>1, <1>2, <2>1 DEF EndInv, flowVars, workerVars
  <2> QED  BY <2>1, <2>2, UnseenMain
<1>3. CASE ~dying
  <2>1. mpc' = "dtor" /\ result' = "failed"  BY <1>3 DEF StopReturn, GoOn
  <2>2. EndInv'  BY <1>1, <1>3, <2>1 DEF EndInv
  <2> QED  BY <2>1, <2>2, Ended
<1> QED  BY <1>2, <1>3

LEMMA StopWorkersSerial ==
  ASSUME SerialInv, PipeInv', StopWorkers
  PROVE  SerialInv'
<1> USE DEF phaseVars
<1>1. EndInv /\ PhaseInv  BY DEF SerialInv, PipeInv
<1>2. mpc = "stop" /\ UNCHANGED <<maintainOrder, dying, toEnd, flowVars, eptr>>
  BY DEF StopWorkers, workerVars
<1>3. CASE runningWorkers = 0
  BY <1>2, <1>3, StopReturnSerial DEF StopWorkers
<1>4. CASE runningWorkers # 0
  <2>1. mpc' \in {"stop", "stopped"} /\ UNCHANGED result
    BY <1>4 DEF StopWorkers, GoOn, Wait
  <2>2. eptr \/ result # "none"  BY <1>1, <1>2 DEF PhaseInv, EndInv
  <2>3. EndInv'  BY <1>1, <1>2, <2>1 DEF EndInv, flowVars
  <2> QED  BY <1>2, <2>1, <2>2, <2>3, UnseenStop
<1> QED  BY <1>3, <1>4

LEMMA StopWaitSerial ==
  ASSUME SerialInv, PipeInv', StopWait
  PROVE  SerialInv'
<1>1. EndInv  BY DEF SerialInv
<1>2. /\ mpc = "stopped"
      /\ UNCHANGED <<bufferVars, workerVars, maintainOrder, dying, toEnd, flowVars>>
  BY DEF StopWait
<1>3. CASE Wait("stopped") /\ UNCHANGED result
  <2>1. EndInv'  BY <1>1, <1>2, <1>3 DEF EndInv, Wait, flowVars, workerVars
  <2> QED  BY <1>2, <1>3, <2>1, UnseenMain DEF Wait
<1>4. CASE StopReturn  BY <1>2, <1>4, StopReturnSerial
<1> QED  BY <1>3, <1>4 DEF StopWait

LEMMA JoinLockSerial ==
  ASSUME SerialInv, PipeInv', JoinLock
  PROVE  SerialInv'
<1> USE DEF phaseVars
<1>1. /\ mpc = "join" /\ mpc' = "joining"
      /\ UNCHANGED <<bufferVars, workerVars, phaseVars, flowVars>>
  BY DEF JoinLock, GoOn
<1>2. EndInv'  BY <1>1 DEF SerialInv, EndInv, flowVars, workerVars
<1> QED  BY <1>1, <1>2, UnseenMain

LEMMA JoinedSerial ==
  ASSUME SerialInv, PipeInv', Joined
  PROVE  SerialInv'
<1>1. /\ mpc = "joining" /\ mpc' \in {"join", "over"}
      /\ UNCHANGED <<bufferVars, workerVars, maintainOrder, dying, toEnd, result, flowVars>>
  BY DEF Joined, GoOn
<1>2. EndInv'  BY <1>1 DEF SerialInv, EndInv, flowVars, workerVars
<1> QED  BY <1>1, <1>2, UnseenMain

(* A node of the main thread throws, or the phase is over. *)
LEMMA PhaseEndsSerial ==
  ASSUME SerialInv, PipeInv', BeginThrow \/ FeedThrow \/ EndThrow \/ PhaseDone
  PROVE  SerialInv'
<1>1. mpc' = "dtor" /\ result' # "none" /\ dying' = dying
  BY DEF BeginThrow, FeedThrow, EndThrow, PhaseDone
<1>2. EndInv'  BY <1>1 DEF EndInv
<1> QED  BY <1>1, <1>2, Ended

LEMMA ReceiveThrowSerial ==
  ASSUME SerialInv, PipeInv', NEW i, ReceiveThrow(i)
  PROVE  SerialInv'
<1>1. mpc' = "dtor" /\ result' = "failed"  BY DEF ReceiveThrow, GoOn
<1>2. EndInv'  BY <1>1 DEF EndInv
<1> QED  BY <1>1, <1>2, Ended

-----------------------------------------------------------------------------
(* The steps of the main thread that move items. *)

LEMMA FeedSerial ==
  ASSUME SerialInv, PipeInv', Feed
  PROVE  SerialInv'
<1> USE DEF bufferVars, workerVars, phaseVars
<1>1. SortedInv /\ BalanceInv /\ OutInv /\ EndInv /\ TypeOK  BY DEF SerialInv, PipeInv
<1>2. /\ mpc = "feed" /\ mpc' \in {"feed", "full"} /\ fed < Items /\ fed' = fed + 1
      /\ written' = Append(written, fed + 1)
      /\ UNCHANGED <<bufferVars, workerVars, phaseVars, out, outputOrder>>
  BY DEF Feed
<1>3. result = "none"  BY <1>1, <1>2 DEF EndInv
<1>4. fed \in Nat /\ Items \in Nat /\ fed' - Len(written') = fed - Len(written)
  <2>1. fed \in Nat /\ Items \in Nat /\ fed + 1 \in 1..Items /\ written \in Seq(1..Items)
    BY <1>1, <1>2, PipeAssumption DEF TypeOK
  <2>2. Len(written') = Len(written) + 1 /\ Len(written) \in Nat
    BY <1>2, <2>1, AppendProperties
  <2> QED  BY <1>2, <2>1, <2>2
<1>5. shown' = shown  BY <1>2, SameShown
<1>6. EndInv'  BY <1>1, <1>2 DEF EndInv
<1>7. SortedInv'  BY <1>1, <1>2, <1>5 DEF SortedInv, Live
<1>8. BalanceInv'  BY <1>1, <1>2, <1>4, <1>5 DEF BalanceInv, Live
<1>9. OutInv'
  <2>1. Allowed(maintainOrder, out, fed) /\ \A p \in DOMAIN out : out[p] # EndItem
    BY <1>1, <1>2, <1>3 DEF OutInv
  <2>2. Allowed(maintainOrder, out, fed + 1)
    <3>1. out \in Seq(1..Items + 1)  BY <1>1 DEF TypeOK
    <3> QED  BY <1>2, <1>4, <2>1, <3>1, AllowedMore
  <2> QED  BY <1>1, <1>2, <1>3, <1>4, <2>1, <2>2 DEF OutInv
<1> QED  BY <1>6, <1>7, <1>8, <1>9 DEF SerialInv

(* What a worker owes is a number, and nothing for an item it does not hold. *)
LEMMA OwedType ==
  ASSUME NEW sh \in Seq(1..Items), NEW buf \in Seq(1..Items), NEW n \in Nat,
         NEW x \in 1..Items, Sorted(sh, buf, n)
  PROVE  /\ Count(sh, x) \in Nat /\ ToPush(buf, n, x) \in Nat
         /\ Owed(sh, buf, n, x) \in Nat
         /\ ~Holds(sh, buf, x) => Count(sh, x) = 0 /\ Owed(sh, buf, n, x) = 0
<1>1. Count(sh, x) \in Nat /\ (Count(sh, x) = 0 <=> \A p \in DOMAIN sh : sh[p] # x)
  BY CountType
<1>2. Emits[x] \in Nat  BY PipeAssumption
<1>3. ToPush(buf, n, x) \in Nat
  <2>1. CASE \E p \in DOMAIN buf : buf[p] = x
    <3>1. buf # <<>>  BY <2>1, EmptySeq
    <3>2. buf[1] = x => n <= Emits[x]  BY <3>1 DEF Sorted
    <3>3. buf[1] = x => Emits[x] - n \in Nat  BY <1>2, <3>2
    <3> QED  BY <1>2, <2>1, <3>3 DEF ToPush
  <2>2. CASE ~ \E p \in DOMAIN buf : buf[p] = x  BY <2>2 DEF ToPush
  <2> QED  BY <2>1, <2>2
<1>4. Owed(sh, buf, n, x) \in Nat  BY <1>1, <1>3 DEF Owed
<1>5. ASSUME ~Holds(sh, buf, x) PROVE Count(sh, x) = 0 /\ Owed(sh, buf, n, x) = 0
  <2>1. Count(sh, x) = 0  BY <1>1, <1>5 DEF Holds
  <2>2. ToPush(buf, n, x) = 0  BY <1>5 DEF Holds, ToPush
  <2> QED  BY <2>1, <2>2 DEF Owed
<1> QED  BY <1>1, <1>3, <1>4, <1>5

(* The input buffer is given to worker i, which holds nothing. *)
LEMMA SendSerial ==
  ASSUME SerialInv, PipeInv', NEW i \in Pipes, mpc = "empty", ~eptr, state[i] = "idle",
         Send(i)
  PROVE  SerialInv'
<1> USE DEF phaseVars
<1>1. /\ SortedInv /\ BalanceInv /\ OutInv /\ EndInv /\ TypeOK /\ WorkerInv /\ BufferInv
      /\ FlowInv
  BY DEF SerialInv, PipeInv
<1>2. result = "none" /\ Live  BY <1>1 DEF EndInv, Live
<1>3. /\ state' = [state EXCEPT ![i] = "processing"] /\ NotifyWorker(i)
      /\ inbuf' = [inbuf EXCEPT ![i] = written] /\ emitted' = [emitted EXCEPT ![i] = 0]
      /\ written' = <<>> /\ mpc' = "empty"
      /\ UNCHANGED <<outbuf, eptr, phaseVars, fed, out>>
  BY DEF Send, Transition, GoOn
<1>4. /\ state'[i] = "processing" /\ inbuf'[i] = written /\ emitted'[i] = 0
      /\ \A j \in Pipes : j # i => /\ state'[j] = state[j] /\ inbuf'[j] = inbuf[j]
                                   /\ emitted'[j] = emitted[j]
      /\ inbuf[i] = <<>>
  BY <1>1, <1>3 DEF TypeOK, BufferInv
<1>5. \A j \in Pipes : wpc'[j] \in Working <=> wpc[j] \in Working
  BY <1>1, <1>3, NotifyFacts
<1>6. wpc[i] \notin Working
  BY <1>1 DEF WorkerInv, StatesAt, Working
<1>7. shown[i] = <<>> /\ shown'[i] = <<>> /\ \A j \in Pipes : j # i => shown'[j] = shown[j]
  BY <1>3, <1>4, <1>5, <1>6 DEF shown, Output
<1>8. /\ written \in Seq(1..Items) /\ fed \in 0..Items /\ Items \in Nat
      /\ out \in Seq(1..Items + 1)
  BY <1>1, PipeAssumption DEF TypeOK
<1> DEFINE m == fed - Len(written)
<1>9. /\ DOMAIN written = 1..Len(written) /\ Len(written) \in Nat /\ m \in Nat /\ m <= fed
      /\ \A p \in DOMAIN written : written[p] = m + p
      /\ Len(written') = 0
  BY <1>1, <1>3, <1>8, EmptySeq DEF FlowInv
<1> HIDE DEF m
<1>10. <<>> \in Seq(1..Items) /\ DOMAIN <<>> = {}  BY EmptySeq
<1>11. Sorted(<<>>, written, 0)
  <2>1. \A p, q \in DOMAIN written : p < q => written[p] < written[q]  BY <1>9
  <2>2. written # <<>> => 0 <= Emits[written[1]]
    <3>1. written # <<>> => written[1] \in 1..Items  BY <1>8, HeadIs
    <3> QED  BY <3>1, PipeAssumption
  <2> QED  BY <1>10, <2>1, <2>2 DEF Sorted
<1>12. SortedInv'
  <2>1. \A j \in Pipes : Sorted(shown[j], inbuf[j], emitted[j])  BY <1>1, <1>2 DEF SortedInv
  <2>2. \A j \in Pipes : Sorted(shown'[j], inbuf'[j], emitted'[j])
    BY <1>4, <1>7, <1>11, <2>1
  <2> QED  BY <2>2 DEF SortedInv
<1>13. ASSUME NEW x \in 1..Items, x <= m PROVE Balanced(shown', inbuf', emitted', out, x)
  <2>1. Balanced(shown, inbuf, emitted, out, x)  BY <1>1, <1>2, <1>13 DEF BalanceInv, m
  <2>2. PICK k \in Pipes :
          /\ \A j \in Pipes : j # k => ~Holds(shown[j], inbuf[j], x)
          /\ Count(out, x) + Owed(shown[k], inbuf[k], emitted[k], x) = Emits[x]
    BY <2>1 DEF Balanced
  <2>3. \A p \in DOMAIN written : written[p] # x  BY <1>9, <1>13
  <2>4. ~Holds(shown'[i], inbuf'[i], x)  BY <1>4, <1>7, <1>10, <2>3 DEF Holds
  <2>5. \A j \in Pipes : j # k => ~Holds(shown'[j], inbuf'[j], x)
    BY <1>4, <1>7, <2>2, <2>4
  <2>6. Owed(shown'[k], inbuf'[k], emitted'[k], x) = Owed(shown[k], inbuf[k], emitted[k], x)
    <3>1. CASE k # i  BY <1>4, <1>7, <3>1
    <3>2. CASE k = i
      <4>1. ToPush(written, 0, x) = 0  BY <2>3 DEF ToPush
      <4>2. ToPush(<<>>, emitted[i], x) = 0  BY <1>10 DEF ToPush
      <4> QED  BY <1>4, <1>7, <3>2, <4>1, <4>2 DEF Owed
    <3> QED  BY <3>1, <3>2
  <2> QED  BY <2>2, <2>5, <2>6 DEF Balanced
<1>14. ASSUME NEW x \in 1..Items, x > m, x <= fed
       PROVE  Balanced(shown', inbuf', emitted', out, x)
  <2>1. ASSUME NEW j \in Pipes, j # i PROVE ~Holds(shown'[j], inbuf'[j], x)
    <3>1. x \notin ItemsOf(state, wpc, inbuf, outbuf, j)
      BY <1>1, <1>9, <1>14 DEF FlowInv, m
    <3>2. ~Holds(shown[j], inbuf[j], x)  BY <1>1, <3>1, ShownType
    <3> QED  BY <1>4, <1>7, <2>1, <3>2
  <2>2. Count(out, x) = 0
    <3>1. x # EndItem  BY <1>8 DEF EndItem
    <3>2. \A p \in DOMAIN out : out[p] = EndItem \/ out[p] <= m
      BY <1>1, <1>2 DEF OutInv, m
    <3>3. \A p \in DOMAIN out : out[p] # x  BY <1>9, <1>14, <3>1, <3>2
    <3> QED  BY <1>8, <3>3, CountType
  <2>3. Owed(<<>>, written, 0, x) = Emits[x]
    <3>1. x - m \in DOMAIN written /\ written[x - m] = x
      <4>1. x \in Nat /\ fed \in Nat /\ fed = m + Len(written)  BY <1>8, <1>9 DEF m
      <4>2. x - m \in 1..Len(written) /\ m + (x - m) = x  BY <1>9, <1>14, <4>1
      <4> QED  BY <1>9, <4>2
    <3>2. Emits[x] \in Nat  BY PipeAssumption
    <3>3. ToPush(written, 0, x) = Emits[x]  BY <3>1, <3>2 DEF ToPush
    <3> QED  BY <3>2, <3>3, CountNone DEF Owed
  <2>4. Emits[x] \in Nat  BY PipeAssumption
  <2>5. Count(out, x) + Owed(shown'[i], inbuf'[i], emitted'[i], x) = Emits[x]
    BY <1>4, <1>7, <2>2, <2>3, <2>4
  <2> QED  BY <2>1, <2>5 DEF Balanced
<1>15. BalanceInv'
  <2>1. \A x \in 1..Items : x <= fed => Balanced(shown', inbuf', emitted', out, x)
    BY <1>9, <1>13, <1>14
  <2>2. fed' - Len(written') = fed /\ out' = out  BY <1>3, <1>8, <1>9
  <2> QED  BY <2>1, <2>2 DEF BalanceInv
<1>16. OutInv'
  <2>1. \A p \in DOMAIN out : out[p] = EndItem \/ out[p] <= fed
    <3>1. \A p \in DOMAIN out : out[p] = EndItem \/ out[p] <= m
      BY <1>1, <1>2 DEF OutInv, m
    <3>2. \A p \in DOMAIN out : out[p] \in 1..Items + 1
      <4>1. \A p \in 1..Len(out) : out[p] \in 1..Items + 1  BY <1>8, ElementOfSeq
      <4> QED  BY <1>8, <4>1
    <3> QED  BY <1>8, <1>9, <3>1, <3>2
  <2>2. fed' - Len(written') = fed  BY <1>3, <1>8, <1>9
  <2> QED  BY <1>1, <1>3, <2>1, <2>2 DEF OutInv
<1>17. EndInv'  BY <1>1, <1>3 DEF EndInv
<1> QED  BY <1>12, <1>15, <1>16, <1>17 DEF SerialInv

(* Whoever holds an item is busy: the pipe is not stopped. *)
LEMMA HolderIsBusy ==
  ASSUME PipeInv, ~eptr, NEW k \in Pipes,
         NEW x \in ItemsOf(state, wpc, inbuf, outbuf, k)
  PROVE  k \in BusyIn(state)
<1>1. TypeOK /\ WorkerInv /\ BufferInv  BY DEF PipeInv
<1>2. \/ inbuf[k] # <<>>
      \/ state[k] \in Output \/ wpc[k] \in Working
  BY EmptySeq DEF ItemsOf
<1>3. CASE inbuf[k] # <<>>
  <2>1. state[k] \notin {"initializing", "idle", "done"}  BY <1>1, <1>3 DEF BufferInv
  <2>2. state[k] \in States  BY <1>1 DEF TypeOK
  <2> QED  BY <2>1, <2>2 DEF BusyIn, States, Output
<1>4. CASE wpc[k] \in Working
  <2>1. state[k] = "processing"  BY <1>1, <1>4 DEF WorkerInv, StatesAt, Working
  <2> QED  BY <2>1 DEF BusyIn
<1>5. CASE state[k] \in Output  BY <1>5 DEF BusyIn
<1> QED  BY <1>2, <1>3, <1>4, <1>5

(* With maintain_order, nobody holds an item before those of the first busy  *)
(* worker.                                                                   *)
LEMMA NobodyBefore ==
  ASSUME PipeInv, maintainOrder, ~eptr, ~dying, outputOrder # <<>>, NEW i \in Pipes,
         Head(outputOrder) = i, NEW x \in ItemsOf(state, wpc, inbuf, outbuf, i),
         NEW k \in Pipes, k # i, NEW y \in ItemsOf(state, wpc, inbuf, outbuf, k)
  PROVE  x < y
<1>1. InOrder(state, wpc, inbuf, outbuf, outputOrder) /\ outputOrder \in Seq(Pipes)
  BY DEF PipeInv, OrderInv, TypeOK
<1>2. outputOrder[1] = i /\ 1 \in DOMAIN outputOrder  BY <1>1, HeadIs
<1>3. k \in BusyIn(state)  BY HolderIsBusy
<1>4. PICK l \in DOMAIN outputOrder : outputOrder[l] = k  BY <1>1, <1>3 DEF InOrder
<1>5. 1 < l
  <2>1. DOMAIN outputOrder = 1..Len(outputOrder) /\ Len(outputOrder) \in Nat  BY <1>1
  <2>2. l # 1  BY <1>2, <1>4
  <2> QED  BY <2>1, <2>2
<1> QED  BY <1>1, <1>2, <1>4, <1>5 DEF InOrder

(* What worker i offers may be handed on. *)
LEMMA OfferAllowed ==
  ASSUME SerialInv, NEW i \in Pipes, mpc \in {"empty", "drain"}, ~eptr,
         state[i] \in Output, maintainOrder => outputOrder # <<>> /\ Head(outputOrder) = i
  PROVE  /\ Allowed(maintainOrder, out \o outbuf[i], fed)
         /\ \A q \in DOMAIN outbuf[i] :
              outbuf[i][q] \in 1..Items /\ outbuf[i][q] <= fed - Len(written)
<1>1. /\ PipeInv /\ SortedInv /\ BalanceInv /\ OutInv /\ EndInv /\ TypeOK /\ FlowInv
      /\ PhaseInv
  BY DEF SerialInv, PipeInv
<1>2. result = "none" /\ ~dying /\ Live  BY <1>1 DEF EndInv, PhaseInv, Live
<1>3. shown[i] = outbuf[i]  BY DEF shown
<1> DEFINE t == outbuf[i]
           m == fed - Len(written)
<1>4. /\ t \in Seq(1..Items) /\ out \in Seq(1..EndItem) /\ fed \in 0..Items /\ Items \in Nat
      /\ Len(written) \in Nat /\ Len(written) <= fed /\ m \in Nat /\ m <= fed
  BY <1>1, PipeAssumption DEF TypeOK, EndItem, FlowInv
<1>5. /\ shown \in [Pipes -> Seq(1..Items)] /\ inbuf \in [Pipes -> Seq(1..Items)]
      /\ emitted \in [Pipes -> Nat]
      /\ \A j \in Pipes : \A x \in 1..Items :
           Holds(shown[j], inbuf[j], x) <=> x \in ItemsOf(state, wpc, inbuf, outbuf, j)
  BY <1>1, ShownType
<1>6. \A j \in Pipes : Sorted(shown[j], inbuf[j], emitted[j])  BY <1>1, <1>2 DEF SortedInv
<1>7. ASSUME NEW j \in Pipes, NEW x \in 1..Items
      PROVE  /\ Count(shown[j], x) \in Nat /\ ToPush(inbuf[j], emitted[j], x) \in Nat
             /\ Owed(shown[j], inbuf[j], emitted[j], x) \in Nat
             /\ ~Holds(shown[j], inbuf[j], x) =>
                  /\ Count(shown[j], x) = 0
                  /\ Owed(shown[j], inbuf[j], emitted[j], x) = 0
  BY <1>5, <1>6, OwedType
<1>8. \A x \in 1..Items : Count(out, x) \in Nat /\ Emits[x] \in Nat
  BY <1>4, PipeAssumption, CountType
<1>9. \A q \in DOMAIN t : /\ t[q] \in 1..Items /\ t[q] <= m
                          /\ t[q] \in ItemsOf(state, wpc, inbuf, outbuf, i)
  <2>1. \A q \in 1..Len(t) : t[q] \in 1..Items  BY <1>4, ElementOfSeq
  <2>2. DOMAIN t = 1..Len(t)  BY <1>4
  <2>3. \A q \in DOMAIN t : t[q] \in ItemsOf(state, wpc, inbuf, outbuf, i)
    BY <2>1, <2>2 DEF ItemsOf
  <2> QED  BY <1>1, <2>1, <2>2, <2>3 DEF FlowInv
<1> HIDE DEF m, t
<1>10. ASSUME NEW x \in 1..Items, x <= m
       PROVE  /\ Count(out, x) + Count(t, x) <= Emits[x]
              /\ maintainOrder => \A q \in DOMAIN t : x < t[q] =>
                                    Count(out, x) + Count(t, x) = Emits[x]
  <2>1. Balanced(shown, inbuf, emitted, out, x)  BY <1>1, <1>2, <1>10 DEF BalanceInv, m
  <2>2. PICK k \in Pipes :
          /\ \A j \in Pipes : j # k => ~Holds(shown[j], inbuf[j], x)
          /\ Count(out, x) + Owed(shown[k], inbuf[k], emitted[k], x) = Emits[x]
    BY <2>1 DEF Balanced
  <2>3. CASE k = i
    <3>1. Count(shown[k], x) = Count(t, x) /\ Count(t, x) \in Nat
      BY <1>3, <1>7, <2>3 DEF t
    <3>2. Count(out, x) + Count(t, x) + ToPush(inbuf[k], emitted[k], x) = Emits[x]
      BY <1>7, <1>8, <2>2, <3>1 DEF Owed
    <3>3. ASSUME NEW q \in DOMAIN t, x < t[q] PROVE ToPush(inbuf[k], emitted[k], x) = 0
      <4>1. \A p \in DOMAIN inbuf[i] : t[q] <= inbuf[i][p]
        BY <1>3, <1>6 DEF Sorted, t
      <4>2. \A p \in DOMAIN inbuf[i] : inbuf[i][p] \in 1..Items
        <5>1. inbuf[i] \in Seq(1..Items)  BY <1>5
        <5>2. \A p \in 1..Len(inbuf[i]) : inbuf[i][p] \in 1..Items  BY <5>1, ElementOfSeq
        <5> QED  BY <5>1, <5>2
      <4>3. \A p \in DOMAIN inbuf[i] : inbuf[i][p] # x  BY <1>9, <3>3, <4>1, <4>2
      <4> QED  BY <2>3, <4>3 DEF ToPush
    <3>4. Count(out, x) + Count(t, x) <= Emits[x]  BY <1>7, <1>8, <3>1, <3>2
    <3>5. ASSUME NEW q \in DOMAIN t, x < t[q] PROVE Count(out, x) + Count(t, x) = Emits[x]
      BY <1>8, <3>1, <3>2, <3>3, <3>5
    <3> QED  BY <3>4, <3>5
  <2>4. CASE k # i
    <3>1. Count(t, x) = 0  BY <1>3, <1>7, <2>2, <2>4 DEF t
    <3>2. Count(out, x) + Count(t, x) <= Emits[x]
      BY <1>7, <1>8, <2>2, <3>1
    <3>3. ASSUME maintainOrder, NEW q \in DOMAIN t, x < t[q]
          PROVE  Count(out, x) + Count(t, x) = Emits[x]
      <4>1. ~Holds(shown[k], inbuf[k], x)
        <5> SUFFICES ASSUME x \in ItemsOf(state, wpc, inbuf, outbuf, k) PROVE FALSE
          BY <1>5
        <5>1. outputOrder # <<>> /\ Head(outputOrder) = i  BY <3>3
        <5>2. t[q] \in ItemsOf(state, wpc, inbuf, outbuf, i)  BY <1>9
        <5>3. t[q] < x  BY <1>1, <1>2, <2>4, <3>3, <5>1, <5>2, NobodyBefore
        <5> QED  BY <1>9, <3>3, <5>3
      <4>2. Owed(shown[k], inbuf[k], emitted[k], x) = 0  BY <1>7, <4>1
      <4> QED  BY <1>8, <2>2, <3>1, <4>2
    <3> QED  BY <3>2, <3>3
  <2> QED  BY <2>3, <2>4
<1>11. /\ Allowed(maintainOrder, out, fed)
       /\ \A p \in DOMAIN out : out[p] = EndItem \/ out[p] <= m
       /\ \A p \in DOMAIN out : out[p] # EndItem
  BY <1>1, <1>2 DEF OutInv, m
<1>12. ASSUME NEW x \in 1..fed PROVE Count(out, x) + Count(t, x) <= Emits[x]
  <2>1. x \in 1..Items  BY <1>4
  <2>2. CASE x <= m  BY <1>10, <2>1, <2>2
  <2>3. CASE ~(x <= m)
    <3>1. Count(out, x) = 0
      <4>1. \A p \in DOMAIN out : out[p] # x  BY <1>11, <2>3
      <4> QED  BY <1>4, <4>1, CountType
    <3>2. Count(t, x) = 0
      <4>1. \A p \in DOMAIN t : t[p] # x  BY <1>9, <2>3
      <4> QED  BY <1>4, <4>1, CountType
    <3> QED  BY <1>8, <2>1, <3>1, <3>2
  <2> QED  BY <2>2, <2>3
<1>13. \A p \in DOMAIN t : t[p] <= fed  BY <1>4, <1>9
<1>14. \A p, q \in DOMAIN t : p < q => t[p] <= t[q]
  BY <1>3, <1>6 DEF Sorted, t
<1>15. maintainOrder => \A q \in DOMAIN t : \A y \in 1..t[q] - 1 :
                          Count(out, y) + Count(t, y) = Emits[y]
  <2> SUFFICES ASSUME maintainOrder, NEW q \in DOMAIN t, NEW y \in 1..t[q] - 1
               PROVE  Count(out, y) + Count(t, y) = Emits[y]
    OBVIOUS
  <2>1. y \in 1..Items /\ y < t[q] /\ y <= m  BY <1>4, <1>9
  <2> QED  BY <1>10, <2>1
<1>16. Allowed(maintainOrder, out \o t, fed)
  BY <1>4, <1>11, <1>12, <1>13, <1>14, <1>15, AllowedConcat
<1> QED  BY <1>9, <1>16 DEF t, m

(* The outputs of worker i are handed on. *)
LEMMA ReceiveSerial ==
  ASSUME SerialInv, PipeInv', NEW i \in Pipes, mpc \in {"empty", "drain"}, ~eptr,
         state[i] \in Output, maintainOrder => outputOrder # <<>> /\ Head(outputOrder) = i,
         Receive(i)
  PROVE  SerialInv'
<1> USE DEF phaseVars, bufferVars
<1>1. /\ PipeInv /\ SortedInv /\ BalanceInv /\ OutInv /\ EndInv /\ TypeOK /\ WorkerInv
      /\ FlowInv
  BY DEF SerialInv, PipeInv
<1>2. result = "none" /\ Live  BY <1>1 DEF EndInv, Live
<1>3. /\ state' = [state EXCEPT ![i] = IF state[i] = "partial_output" THEN "processing"
                                                                    ELSE "idle"]
      /\ NotifyWorker(i) \/ UNCHANGED wpc
      /\ out' = out \o outbuf[i] /\ mpc' = mpc
      /\ UNCHANGED <<bufferVars, eptr, phaseVars, fed, written>>
  BY DEF Receive, Transition, GoOn, Output
<1>4. \A j \in Pipes : wpc'[j] \in Working <=> wpc[j] \in Working
  BY <1>1, <1>3, NotifyFacts
<1>5. state'[i] \notin Output /\ \A j \in Pipes : j # i => state'[j] = state[j]
  BY <1>1, <1>3 DEF TypeOK, Output
<1>6. wpc[i] \notin Working  BY <1>1 DEF WorkerInv, StatesAt, Working, Output
<1>7. /\ shown[i] = outbuf[i] /\ shown'[i] = <<>>
      /\ \A j \in Pipes : j # i => shown'[j] = shown[j]
  BY <1>3, <1>4, <1>5, <1>6 DEF shown
<1> DEFINE t == outbuf[i]
           m == fed - Len(written)
<1>8. /\ t \in Seq(1..Items) /\ t \in Seq(1..EndItem) /\ out \in Seq(1..EndItem)
      /\ Items \in Nat
  <2>1. 1..Items \subseteq 1..EndItem  BY PipeAssumption DEF EndItem
  <2>2. t \in Seq(1..Items)  BY <1>1 DEF TypeOK
  <2>3. t \in Seq(1..EndItem)  BY <2>1, <2>2, SeqMonotonic
  <2> QED  BY <1>1, <2>2, <2>3, PipeAssumption DEF TypeOK, EndItem
<1>9. Allowed(maintainOrder, out \o t, fed)
      /\ \A q \in DOMAIN t : t[q] \in 1..Items /\ t[q] <= m
  BY OfferAllowed
<1> HIDE DEF m, t
<1>10. \A j \in Pipes : Sorted(shown[j], inbuf[j], emitted[j])  BY <1>1, <1>2 DEF SortedInv
<1>11. SortedInv'
  <2>1. Sorted(<<>>, inbuf[i], emitted[i])  BY <1>10, EmptySeq DEF Sorted
  <2>2. \A j \in Pipes : Sorted(shown'[j], inbuf'[j], emitted'[j])
    BY <1>3, <1>7, <1>10, <2>1
  <2> QED  BY <2>2 DEF SortedInv
<1>12. ASSUME NEW x \in 1..Items, x <= m
       PROVE  Balanced(shown', inbuf', emitted', out', x)
  <2>1. Balanced(shown, inbuf, emitted, out, x)  BY <1>1, <1>2, <1>12 DEF BalanceInv, m
  <2>2. PICK k \in Pipes :
          /\ \A j \in Pipes : j # k => ~Holds(shown[j], inbuf[j], x)
          /\ Count(out, x) + Owed(shown[k], inbuf[k], emitted[k], x) = Emits[x]
    BY <2>1 DEF Balanced
  <2>3. \A j \in Pipes : j # k => ~Holds(shown'[j], inbuf'[j], x)
    <3>1. \A j \in Pipes : Holds(shown'[j], inbuf'[j], x) => Holds(shown[j], inbuf[j], x)
      BY <1>3, <1>7, EmptySeq DEF Holds
    <3> QED  BY <2>2, <3>1
  <2>4. /\ Count(out', x) = Count(out, x) + Count(t, x)
        /\ Count(out, x) \in Nat /\ Count(t, x) \in Nat
    <3>1. Count(out \o t, x) = Count(out, x) + Count(t, x)  BY <1>8, CountConcat
    <3>2. Count(out, x) \in Nat /\ Count(t, x) \in Nat  BY <1>8, CountType
    <3>3. out' = out \o t  BY <1>3 DEF t
    <3> QED  BY <3>1, <3>2, <3>3
  <2>5. /\ inbuf \in [Pipes -> Seq(1..Items)] /\ shown \in [Pipes -> Seq(1..Items)]
        /\ emitted \in [Pipes -> Nat]
    BY <1>1, ShownType
  <2>6. /\ ToPush(inbuf[k], emitted[k], x) \in Nat
        /\ ~Holds(shown[i], inbuf[i], x) => Count(shown[i], x) = 0
    BY <1>10, <2>5, OwedType
  <2>7. Count(out', x) + Owed(shown'[k], inbuf'[k], emitted'[k], x) = Emits[x]
    <3>1. CASE k = i
      <4>1. Count(shown[k], x) = Count(t, x) /\ Count(shown'[k], x) = 0
        BY <1>7, <3>1, CountNone DEF t
      <4> QED  BY <1>3, <2>2, <2>4, <2>6, <4>1 DEF Owed
    <3>2. CASE k # i
      <4>1. Count(t, x) = 0  BY <1>7, <2>2, <2>6, <3>2 DEF t
      <4>2. Owed(shown'[k], inbuf'[k], emitted'[k], x)
              = Owed(shown[k], inbuf[k], emitted[k], x)
        BY <1>3, <1>7, <3>2
      <4> QED  BY <2>2, <2>4, <4>1, <4>2
    <3> QED  BY <3>1, <3>2
  <2> QED  BY <2>3, <2>7 DEF Balanced
<1>13. BalanceInv'
  <2>1. fed' - Len(written') = m  BY <1>3 DEF m
  <2> QED  BY <1>12, <2>1 DEF BalanceInv
<1>14. ASSUME NEW p \in DOMAIN (out \o t)
       PROVE  (out \o t)[p] <= m /\ (out \o t)[p] # EndItem
  <2>1. /\ Len(out \o t) = Len(out) + Len(t) /\ Len(out) \in Nat /\ Len(t) \in Nat
        /\ \A q \in 1..Len(out) + Len(t) :
             (out \o t)[q] = IF q <= Len(out) THEN out[q] ELSE t[q - Len(out)]
        /\ DOMAIN out = 1..Len(out) /\ DOMAIN t = 1..Len(t)
        /\ DOMAIN (out \o t) = 1..Len(out) + Len(t)
    <3>1. out \o t \in Seq(1..EndItem) /\ Len(out \o t) = Len(out) + Len(t)
      BY <1>8, ConcatProperties
    <3> QED  BY <1>8, <3>1, ConcatProperties
  <2>2. \A q \in DOMAIN out : out[q] <= m /\ out[q] # EndItem
    BY <1>1, <1>2 DEF OutInv, m
  <2>3. CASE p <= Len(out)
    <3>1. p \in DOMAIN out /\ (out \o t)[p] = out[p]  BY <2>1, <2>3
    <3> QED  BY <2>2, <3>1
  <2>4. CASE ~(p <= Len(out))
    <3>1. p - Len(out) \in DOMAIN t /\ (out \o t)[p] = t[p - Len(out)]
      BY <2>1, <2>4
    <3>2. t[p - Len(out)] # EndItem  BY <1>8, <1>9, <3>1 DEF EndItem
    <3> QED  BY <1>9, <3>1, <3>2
  <2> QED  BY <2>3, <2>4
<1>15. OutInv'
  <2>1. out' = out \o t  BY <1>3 DEF t
  <2>2. fed' - Len(written') = m /\ mpc' # "ends"  BY <1>3 DEF m
  <2> QED  BY <1>3, <1>9, <1>14, <2>1, <2>2 DEF OutInv
<1>16. EndInv'  BY <1>1, <1>3 DEF EndInv
<1> QED  BY <1>11, <1>13, <1>15, <1>16 DEF SerialInv

LEMMA EmptyInputBufferSerial ==
  ASSUME SerialInv, PipeInv', EmptyInputBuffer
  PROVE  SerialInv'
<1> USE DEF phaseVars
<1>1. mpc = "empty" /\ EndInv  BY DEF EmptyInputBuffer, SerialInv
<1>2. ASSUME UNCHANGED <<bufferVars, workerVars, phaseVars, flowVars>>,
             mpc' \in {"drain", "feed", "stop", "empty"}, mpc' = "drain" => written = <<>>
      PROVE  SerialInv'
  <2>1. EndInv'  BY <1>1, <1>2 DEF EndInv, flowVars, workerVars
  <2> QED  BY <1>1, <1>2, <2>1, UnseenMain
<1>3. CASE /\ written = <<>>
           /\ GoOn(IF ending THEN "drain" ELSE "feed", ending)
           /\ UNCHANGED <<bufferVars, workerVars, phaseVars, flowVars, fault>>
  BY <1>2, <1>3 DEF GoOn
<1>4. CASE /\ written # <<>> /\ eptr
           /\ GoOn("stop", TRUE)
           /\ UNCHANGED <<bufferVars, workerVars, phaseVars, flowVars, fault>>
  BY <1>2, <1>4 DEF GoOn
<1>5. CASE /\ written # <<>> /\ ~eptr /\ ReadyPipes = {}
           /\ Wait("empty")
           /\ UNCHANGED <<bufferVars, workerVars, phaseVars, flowVars, fault>>
  BY <1>2, <1>5 DEF Wait
<1>6. ASSUME ~eptr, ReadyPipes # {}, NEW i, i = First(ReadyPipes),
             IF state[i] = "idle" THEN Send(i) ELSE Receive(i) \/ ReceiveThrow(i)
      PROVE  SerialInv'
  <2>1. ReadyPipes \subseteq Pipes  BY DEF ReadyPipes, OutputtingPipes
  <2>2. i \in ReadyPipes /\ i \in Pipes  BY <1>6, <2>1, FirstIn
  <2>3. CASE state[i] = "idle"  BY <1>1, <1>6, <2>2, <2>3, SendSerial
  <2>4. CASE state[i] # "idle"
    <3>1. /\ state[i] \in Output
          /\ maintainOrder => outputOrder # <<>> /\ Head(outputOrder) = i
      BY <2>2, <2>4 DEF ReadyPipes, OutputtingPipes
    <3>2. CASE Receive(i)  BY <1>1, <1>6, <2>2, <3>1, <3>2, ReceiveSerial
    <3>3. CASE ReceiveThrow(i)  BY <3>3, ReceiveThrowSerial
    <3> QED  BY <1>6, <2>4, <3>2, <3>3
  <2> QED  BY <2>3, <2>4
<1> QED  BY <1>3, <1>4, <1>5, <1>6 DEF EmptyInputBuffer

LEMMA DrainSerial ==
  ASSUME SerialInv, PipeInv', Drain
  PROVE  SerialInv'
<1> USE DEF phaseVars
<1>1. mpc = "drain" /\ EndInv  BY DEF Drain, SerialInv
<1>2. ASSUME UNCHANGED <<bufferVars, workerVars, phaseVars, flowVars>>,
             mpc' \in {"drain", "finish", "stop"}
      PROVE  SerialInv'
  <2>1. EndInv'  BY <1>1, <1>2 DEF EndInv, flowVars, workerVars
  <2> QED  BY <1>1, <1>2, <2>1, UnseenMain
<1>3. ASSUME ~eptr, OutputtingPipes(maintainOrder) # {}, NEW i,
             i = First(OutputtingPipes(maintainOrder)), Receive(i) \/ ReceiveThrow(i)
      PROVE  SerialInv'
  <2>1. OutputtingPipes(maintainOrder) \subseteq Pipes  BY DEF OutputtingPipes
  <2>2. i \in OutputtingPipes(maintainOrder) /\ i \in Pipes  BY <1>3, <2>1, FirstIn
  <2>3. /\ state[i] \in Output
        /\ maintainOrder => outputOrder # <<>> /\ Head(outputOrder) = i
    BY <2>2 DEF OutputtingPipes
  <2>4. CASE Receive(i)  BY <1>1, <1>3, <2>2, <2>3, <2>4, ReceiveSerial
  <2>5. CASE ReceiveThrow(i)  BY <2>5, ReceiveThrowSerial
  <2> QED  BY <1>3, <2>4, <2>5
<1>4. ASSUME GoOn("stop", TRUE) \/ Wait("drain") \/ GoOn("finish", TRUE),
             UNCHANGED <<bufferVars, workerVars, phaseVars, flowVars, fault>>
      PROVE  SerialInv'
  BY <1>2, <1>4 DEF GoOn, Wait
<1> QED  BY <1>3, <1>4 DEF Drain

(* When the workers are closed, every item is served. *)
LEMMA AllServed ==
  ASSUME SerialInv, mpc = "ends"
  PROVE  \A x \in 1..fed : Count(out, x) = Emits[x]
<1>1. TypeOK /\ BalanceInv /\ EndInv /\ PhaseInv /\ BufferInv  BY DEF SerialInv, PipeInv
<1>2. Live /\ written = <<>>  BY <1>1 DEF EndInv, Live
<1>3. ASSUME NEW i \in Pipes PROVE shown[i] = <<>> /\ inbuf[i] = <<>>
  <2>1. state[i] = "done" /\ ~eptr /\ wpc[i] = "exit"  BY <1>1 DEF PhaseInv, EndInv
  <2>2. inbuf[i] = <<>> /\ outbuf[i] = <<>>  BY <1>1, <2>1 DEF BufferInv
  <2> QED  BY <2>2 DEF shown
<1> SUFFICES ASSUME NEW x \in 1..fed PROVE Count(out, x) = Emits[x]
  OBVIOUS
<1>4. x \in 1..Items /\ x <= fed - Len(written) /\ out \in Seq(1..Items + 1)
  <2>1. fed \in 0..Items /\ Items \in Nat  BY <1>1, PipeAssumption DEF TypeOK
  <2>2. Len(written) = 0  BY <1>2, EmptySeq
  <2> QED  BY <1>1, <2>1, <2>2 DEF TypeOK
<1>5. Balanced(shown, inbuf, emitted, out, x)  BY <1>1, <1>2, <1>4 DEF BalanceInv
<1>6. PICK k \in Pipes : Count(out, x) + Owed(shown[k], inbuf[k], emitted[k], x) = Emits[x]
  BY <1>5 DEF Balanced
<1>7. Owed(shown[k], inbuf[k], emitted[k], x) = 0
  <2>1. ToPush(inbuf[k], emitted[k], x) = 0  BY <1>3, EmptySeq DEF ToPush
  <2>2. Count(shown[k], x) = 0  BY <1>3, CountNone
  <2> QED  BY <2>1, <2>2 DEF Owed
<1>8. Count(out, x) \in Nat  BY <1>4, CountType
<1> QED  BY <1>6, <1>7, <1>8

(* end() of the nodes of worker i pushes its outputs. *)
LEMMA EndNodesSerial ==
  ASSUME SerialInv, PipeInv', NEW i \in Pipes, EndNodes(i)
  PROVE  SerialInv'
<1> USE DEF mainVars, workerVars
<1>1. /\ TypeOK /\ SortedInv /\ BalanceInv /\ OutInv /\ EndInv /\ PhaseInv /\ BufferInv
  BY DEF SerialInv, PipeInv
<1> DEFINE t == [k \in 1..EndEmits |-> EndItem]
<1>2. /\ mpc = "ends" /\ i \in toEnd /\ toEnd' = toEnd \ {i}
      /\ out' = out \o outbuf[i] \o t /\ outbuf' = [outbuf EXCEPT ![i] = <<>>]
      /\ UNCHANGED <<inbuf, emitted, workerVars, maintainOrder, dying, result, fed, written,
                     mainVars>>
  BY DEF EndNodes, EndItem
<1>3. /\ result = "none" /\ ~eptr /\ wpc[i] = "exit" /\ written = <<>> /\ Live
  BY <1>1, <1>2 DEF EndInv, Live
<1>4. outbuf[i] = <<>>  BY <1>1, <1>3 DEF BufferInv
<1>5. outbuf' = outbuf  BY <1>1, <1>2, <1>4 DEF TypeOK
<1>6. shown' = shown  BY <1>2, <1>5, SameShown
<1>7. /\ out \in Seq(1..EndItem) /\ fed \in 0..Items /\ Items \in Nat /\ EndEmits \in Nat
      /\ NumJobs \in Nat /\ EndItem \in Nat /\ EndItem > Items
  BY <1>1, PipeAssumption DEF TypeOK, EndItem
<1>8. out' = out \o t
  <2>1. out \o <<>> = out  BY <1>7, ConcatEmptySeq
  <2> QED  BY <1>2, <1>4, <2>1
<1>9. t \in Seq({EndItem}) /\ \A x : Count(t, x) = IF x = EndItem THEN EndEmits ELSE 0
  <2>1. t \in [1..EndEmits -> {EndItem}] /\ EndEmits \in Nat  BY <1>7
  <2> HIDE DEF t
  <2>2. t \in Seq({EndItem}) /\ Len(t) = EndEmits
    <3>1. t \in Seq({EndItem})  BY <2>1, SeqDef
    <3>2. DOMAIN t = 1..EndEmits /\ DOMAIN t = 1..Len(t) /\ Len(t) \in Nat  BY <2>1, <3>1
    <3> QED  BY <2>1, <3>1, <3>2
  <2> QED  BY <2>2, CountRepeat
<1> HIDE DEF t
<1>10. t \in Seq(1..EndItem)
  <2>1. {EndItem} \subseteq 1..EndItem  BY <1>7
  <2> QED  BY <1>9, <2>1, SeqMonotonic
<1>11. /\ \A x : Count(out', x) = Count(out, x) + Count(t, x)
       /\ \A p \in DOMAIN out' : (p \in DOMAIN out /\ out'[p] = out[p]) \/ out'[p] = EndItem
  <2>1. \A x : Count(out', x) = Count(out, x) + Count(t, x)
    BY <1>7, <1>8, <1>10, CountConcat
  <2>2. /\ Len(out \o t) = Len(out) + Len(t) /\ Len(out) \in Nat /\ Len(t) \in Nat
        /\ \A p \in 1..Len(out) + Len(t) :
             (out \o t)[p] = IF p <= Len(out) THEN out[p] ELSE t[p - Len(out)]
        /\ DOMAIN out = 1..Len(out) /\ DOMAIN t = 1..Len(t)
        /\ DOMAIN (out \o t) = 1..Len(out) + Len(t)
    <3>1. out \o t \in Seq(1..EndItem) /\ Len(out \o t) = Len(out) + Len(t)
      BY <1>7, <1>10, ConcatProperties
    <3> QED  BY <1>7, <1>10, <3>1, ConcatProperties
  <2>3. \A q \in 1..Len(t) : t[q] \in {EndItem}  BY <1>9, ElementOfSeq
  <2>4. ASSUME NEW p \in DOMAIN (out \o t)
        PROVE  (p \in DOMAIN out /\ (out \o t)[p] = out[p]) \/ (out \o t)[p] = EndItem
    <3>1. CASE p <= Len(out)  BY <2>2, <3>1
    <3>2. CASE ~(p <= Len(out))
      <4>1. p - Len(out) \in 1..Len(t) /\ (out \o t)[p] = t[p - Len(out)]  BY <2>2, <3>2
      <4> QED  BY <2>3, <4>1
    <3> QED  BY <3>1, <3>2
  <2> QED  BY <1>8, <2>1, <2>4
<1>12. SortedInv'  BY <1>1, <1>2, <1>6 DEF SortedInv, Live
<1>13. BalanceInv'
  <2>1. \A x \in 1..Items : Count(out', x) = Count(out, x)
    <3>1. \A x \in 1..Items : Count(out, x) \in Nat  BY <1>7, CountType
    <3>2. \A x \in 1..Items : x # EndItem  BY <1>7
    <3>3. \A x \in 1..Items : Count(t, x) = 0  BY <1>9, <3>2
    <3> QED  BY <1>11, <3>1, <3>3
  <2>2. ASSUME NEW x \in 1..Items, Balanced(shown, inbuf, emitted, out, x)
        PROVE  Balanced(shown, inbuf, emitted, out', x)
    BY <2>1, <2>2 DEF Balanced
  <2>3. \A x \in 1..Items : x <= fed - Len(written) => Balanced(shown, inbuf, emitted, out', x)
    BY <1>1, <1>3, <2>2 DEF BalanceInv
  <2> QED  BY <1>2, <1>6, <2>3 DEF BalanceInv
<1>14. Count(out', EndItem) = (NumJobs - Cardinality(toEnd')) * EndEmits
       /\ Count(out', EndItem) <= NumJobs * EndEmits
  <2>1. IsFiniteSet(toEnd) /\ toEnd \subseteq Pipes  BY <1>1, PipesFinite, FS_Subset DEF TypeOK
  <2>2. Cardinality(toEnd') = Cardinality(toEnd) - 1 /\ Cardinality(toEnd) \in Nat
    BY <1>2, <2>1, FS_RemoveElement, FS_CardinalityType
  <2>3. Cardinality(toEnd) <= NumJobs /\ Cardinality(toEnd') \in Nat
    <3>1. Cardinality(toEnd) <= NumJobs  BY <2>1, PipesFinite, FS_Subset
    <3>2. IsFiniteSet(toEnd')  BY <1>2, <2>1, FS_Subset
    <3> QED  BY <3>1, <3>2, FS_CardinalityType
  <2>4. Count(out, EndItem) = (NumJobs - Cardinality(toEnd)) * EndEmits
    BY <1>1, <1>2, <1>3 DEF OutInv
  <2>5. Count(out', EndItem) = Count(out, EndItem) + EndEmits  BY <1>9, <1>11
  <2> DEFINE c == Cardinality(toEnd)
             d == Cardinality(toEnd')
  <2>6. c \in Nat /\ d \in Nat /\ d = c - 1 /\ c <= NumJobs  BY <2>2, <2>3
  <2> HIDE DEF c, d
  <2>7. (NumJobs - c) * EndEmits + EndEmits = (NumJobs - d) * EndEmits
    BY <1>7, <2>6
  <2>8. (NumJobs - d) * EndEmits <= NumJobs * EndEmits
    <3>1. (NumJobs - d) * EndEmits = NumJobs * EndEmits - d * EndEmits  BY <1>7, <2>6
    <3>2. d * EndEmits \in Nat /\ NumJobs * EndEmits \in Nat  BY <1>7, <2>6
    <3> QED  BY <3>1, <3>2
  <2> QED  BY <2>4, <2>5, <2>7, <2>8 DEF c, d
<1>15. OutInv'
  <2>1. Allowed(maintainOrder, out, fed)
        /\ \A p \in DOMAIN out : out[p] = EndItem \/ out[p] <= fed - Len(written)
    BY <1>1, <1>3 DEF OutInv
  <2>2. \A x \in 1..fed : Count(out, x) = Emits[x]  BY <1>2, AllServed
  <2>3. Count(out, EndItem) + Count(t, EndItem) <= NumJobs * EndEmits  BY <1>11, <1>14
  <2>4. Allowed(maintainOrder, out \o t, fed)
    BY <1>7, <1>9, <2>1, <2>2, <2>3, AllowedEnd
  <2>5. \A p \in DOMAIN out' : out'[p] = EndItem \/ out'[p] <= fed - Len(written)
    BY <1>11, <2>1
  <2> QED  BY <1>2, <1>8, <1>14, <2>4, <2>5 DEF OutInv
<1>16. EndInv'  BY <1>1, <1>2 DEF EndInv
<1> QED  BY <1>12, <1>13, <1>15, <1>16 DEF SerialInv

-----------------------------------------------------------------------------
(* The invariant holds. *)

LEMMA SerialStep ==
  ASSUME SerialInv, PipeInv', Next
  PROVE  SerialInv'
<1>1. CASE MainStep
  <2>1. CASE \E i \in Pipes : EndNodes(i)  BY <2>1, EndNodesSerial
  <2>2. CASE BeginThrow \/ FeedThrow \/ EndThrow \/ PhaseDone  BY <2>2, PhaseEndsSerial
  <2> QED
    BY <1>1, <2>1, <2>2, StartThreadSerial, ProducerBeginSerial, FeedSerial,
       FeedFullSerial, EndCallSerial, EmptyInputBufferSerial, DrainSerial, FinishSerial,
       CloseWorkersSerial, DestroySerial, StopWorkersSerial, StopWaitSerial,
       JoinLockSerial, JoinedSerial
       DEF MainStep
<1>2. CASE \E i \in Pipes : WorkerStep(i)
  <2>1. PICK i \in Pipes : WorkerStep(i)  BY <1>2
  <2> QED
    BY <2>1, WorkerStartSerial, WorkerLoopSerial, PushSerial, NextItemSerial,
       PushAllDoneSerial, FlushSerial, FlushTestSerial, WorkerThrowSerial,
       WorkerCatchSerial
       DEF WorkerStep
<1> QED  BY <1>1, <1>2 DEF Next

LEMMA SerialStutter ==
  ASSUME SerialInv, UNCHANGED vars
  PROVE  SerialInv'
<1> USE DEF vars, bufferVars, workerVars, phaseVars, flowVars, mainVars
<1>1. PipeInv'  BY PipeStutter DEF SerialInv
<1>2. EndInv'  BY DEF SerialInv, EndInv
<1>3. shown' = shown  BY SameShown
<1> QED  BY <1>1, <1>2, <1>3, Unseen DEF Live

LEMMA SerialStart == Init => SerialInv
<1> SUFFICES ASSUME Init PROVE SerialInv  OBVIOUS
<1>1. PipeInv  BY PipeStart
<1>2. \A S : <<>> \in Seq(S) /\ Len(<<>>) = 0 /\ DOMAIN <<>> = {}  BY EmptySeq
<1>3. SortedInv
  <2>1. \A i \in Pipes : shown[i] = <<>> /\ inbuf[i] = <<>>  BY DEF Init, shown
  <2> QED  BY <1>2, <2>1 DEF SortedInv, Sorted
<1>4. BalanceInv
  <2>1. \A x \in 1..Items : ~(x <= 0 - 0)  BY PipeAssumption
  <2> QED  BY <1>2, <2>1 DEF Init, BalanceInv
<1>5. OutInv
  <2>1. \A x \in 1..0 \cup {EndItem} : DueOf(x) \in Nat
    <3>1. NumJobs * EndEmits \in Nat  BY PipeAssumption
    <3> QED  BY <3>1 DEF DueOf
  <2>2. \A x \in 1..0 \cup {EndItem} : Count(<<>>, x) <= DueOf(x)  BY <2>1, CountNone
  <2>3. Allowed(maintainOrder, <<>>, 0)  BY <1>2, <2>2 DEF Allowed
  <2> QED  BY <1>2, <2>3 DEF Init, OutInv
<1>6. EndInv  BY DEF Init, EndInv
<1> QED  BY <1>1, <1>3, <1>4, <1>5, <1>6 DEF SerialInv

(* Nothing is lost, doubled or overtaken on its way through the pipe.        *)
THEOREM SerialInvariant == BeginThrows \subseteq {0} => (Spec => []SerialInv)
<1> SUFFICES ASSUME BeginThrows \subseteq {0} PROVE Spec => []SerialInv  OBVIOUS
<1>1. Init => SerialInv  BY SerialStart
<1>2. SerialInv /\ PipeInv' /\ [Next]_vars => SerialInv'  BY SerialStep, SerialStutter
<1> QED  BY <1>1, <1>2, PipeInvariant, PTL DEF Spec

-----------------------------------------------------------------------------
(* Every step is one of SerialPipe, or none. *)

(* SerialPipe's operators are those counted with here. *)
LEMMA SerialTerms ==
  /\ \A s, x : Serial!Given(s, x) = Count(s, x)
  /\ \A x : Serial!Due(x) = DueOf(x)
  /\ Serial!Last = EndItem
<1>1. \A s, x : Serial!Given(s, x) = Count(s, x)
  <2>1. \A S : Serial!Cardinality(S) = Cardinality(S)
    BY DEF Serial!Cardinality, Cardinality, Serial!IsFiniteSet, IsFiniteSet
  <2> QED  BY <2>1 DEF Serial!Given, Count
<1>2. \A x : Serial!Due(x) = DueOf(x)
  BY DEF Serial!Due, DueOf, Serial!Last, EndItem
<1>3. Serial!Last = EndItem  BY DEF Serial!Last, EndItem
<1> QED  BY <1>1, <1>2, <1>3

LEMMA SerialServes ==
  \A s, n : Serial!Served(s, n) <=> ServedIn(s, n)
<1> QED  BY SerialTerms DEF Serial!Served, ServedIn

(* What the pipe shows, after a step that hands on outputs at most. *)
LEMMA PermittedIs ==
  ASSUME Allowed(maintainOrder, out', fed)
  PROVE  Serial!Permitted(out', fed)
<1> QED
  BY SerialTerms, SerialServes DEF Serial!Permitted, Allowed

(* Nothing to be seen from outside. *)
LEMMA QuietIs ==
  ASSUME UNCHANGED <<maintainOrder, fed, out, result>>
  PROVE  UNCHANGED Serial!serialVars
BY DEF Serial!serialVars

(* Outputs are handed on. *)
LEMMA HandOnIs ==
  ASSUME UNCHANGED <<maintainOrder, fed, result>>, result = "none",
         Len(out) <= Len(out'), SubSeq(out', 1, Len(out)) = out,
         Allowed(maintainOrder, out', fed)
  PROVE  Serial!HandOn
<1>1. Serial!Permitted(out', fed)  BY PermittedIs
<1>2. Serial!Extends(out')  BY DEF Serial!Extends
<1> QED  BY <1>1, <1>2 DEF Serial!HandOn

(* Outputs may be handed on, and then the phase fails. *)
LEMMA FailIs ==
  ASSUME UNCHANGED <<maintainOrder, fed>>, result = "none", result' = "failed",
         Len(out) <= Len(out'), SubSeq(out', 1, Len(out)) = out,
         Allowed(maintainOrder, out', fed)
  PROVE  Serial!Fail
<1>1. Serial!Permitted(out', fed)  BY PermittedIs
<1>2. Serial!Extends(out')  BY DEF Serial!Extends
<1> QED  BY <1>1, <1>2 DEF Serial!Fail

(* A sequence extends itself, and the part of a longer one.                  *)
LEMMA ExtendsPart ==
  ASSUME NEW S, NEW s \in Seq(S), NEW t \in Seq(S), NEW k \in 0..Len(t)
  PROVE  /\ s \o SubSeq(t, 1, k) = SubSeq(s \o t, 1, Len(s) + k)
         /\ Len(s) + k \in 0..Len(s \o t)
         /\ Len(s) <= Len(s \o SubSeq(t, 1, k))
         /\ SubSeq(s \o SubSeq(t, 1, k), 1, Len(s)) = s
<1> DEFINE n == Len(s)
           u == SubSeq(t, 1, k)
           w == s \o t
           v == s \o u
<1>1. n \in Nat /\ Len(t) \in Nat /\ k \in Nat /\ k <= Len(t) /\ DOMAIN s = 1..n
  OBVIOUS
<1>2. u \in Seq(S) /\ Len(u) = k /\ \A p \in 1..k : u[p] = t[p]  BY CountPrefix
<1>3. /\ w \in Seq(S) /\ Len(w) = n + Len(t)
      /\ \A p \in 1..n + Len(t) : w[p] = IF p <= n THEN s[p] ELSE t[p - n]
  BY ConcatProperties
<1> HIDE DEF u
<1>4. /\ v \in Seq(S) /\ Len(v) = n + k
      /\ \A p \in 1..n + k : v[p] = IF p <= n THEN s[p] ELSE u[p - n]
  <2>1. /\ v \in Seq(S) /\ Len(v) = n + Len(u)
        /\ \A p \in 1..n + Len(u) : v[p] = IF p <= n THEN s[p] ELSE u[p - n]
    BY <1>2, ConcatProperties
  <2> HIDE DEF v, n
  <2> QED  BY <1>2, <2>1
<1> HIDE DEF w, v, n
<1>5. n + k \in 0..Len(w) /\ n \in 0..Len(v) /\ n <= Len(v)  BY <1>1, <1>3, <1>4
<1>6. SubSeq(w, 1, n + k) = v
  <2>1. /\ SubSeq(w, 1, n + k) \in Seq(S) /\ Len(SubSeq(w, 1, n + k)) = n + k
        /\ \A p \in 1..n + k : SubSeq(w, 1, n + k)[p] = w[p]
    BY <1>3, <1>5, CountPrefix
  <2>2. ASSUME NEW p \in 1..n + k PROVE SubSeq(w, 1, n + k)[p] = v[p]
    <3>1. p \in 1..n + Len(t) /\ (~(p <= n) => p - n \in 1..k)  BY <1>1
    <3> QED  BY <1>2, <1>3, <1>4, <2>1, <3>1
  <2> QED  BY <1>4, <2>1, <2>2, SeqEqual
<1>7. SubSeq(v, 1, n) = s
  <2>1. /\ SubSeq(v, 1, n) \in Seq(S) /\ Len(SubSeq(v, 1, n)) = n
        /\ \A p \in 1..n : SubSeq(v, 1, n)[p] = v[p]
    BY <1>4, <1>5, CountPrefix
  <2>2. \A p \in 1..n : v[p] = s[p]
    <3>1. \A p \in 1..n : p \in 1..n + k /\ p <= n  BY <1>1
    <3> QED  BY <1>4, <3>1
  <2>3. Len(s) = n  BY DEF n
  <2> QED  BY <2>1, <2>2, <2>3, SeqEqual
<1> QED  BY <1>5, <1>6, <1>7 DEF u, v, w, n

(* A phase fails, and nothing more is handed on. *)
LEMMA FailQuietly ==
  ASSUME SerialInv, UNCHANGED <<maintainOrder, fed, out>>, result = "none",
         result' = "failed"
  PROVE  Serial!Fail
<1>1. Allowed(maintainOrder, out, fed) /\ out \in Seq(1..Items + 1)
  BY DEF SerialInv, OutInv, PipeInv, TypeOK
<1>2. Len(out) <= Len(out) /\ SubSeq(out, 1, Len(out)) = out
  <2>1. Len(out) \in Nat /\ Len(out) \in 0..Len(out)  BY <1>1
  <2>2. /\ SubSeq(out, 1, Len(out)) \in Seq(1..Items + 1)
        /\ Len(SubSeq(out, 1, Len(out))) = Len(out)
        /\ \A p \in 1..Len(out) : SubSeq(out, 1, Len(out))[p] = out[p]
    BY <1>1, <2>1, CountPrefix
  <2> QED  BY <1>1, <2>1, <2>2, SeqEqual
<1> QED  BY <1>1, <1>2, FailIs

(* The consumer takes the outputs of worker i, or throws on the way. *)
LEMMA ReceiveIs ==
  ASSUME SerialInv, NEW i \in Pipes, mpc \in {"empty", "drain"}, ~eptr,
         state[i] \in Output, maintainOrder => outputOrder # <<>> /\ Head(outputOrder) = i,
         Receive(i) \/ ReceiveThrow(i)
  PROVE  Serial!HandOn \/ Serial!Fail
<1> USE DEF phaseVars
<1>1. TypeOK /\ EndInv  BY DEF SerialInv, PipeInv
<1>2. result = "none"  BY <1>1 DEF EndInv
<1> DEFINE t == outbuf[i]
<1>3. /\ out \in Seq(1..Items + 1) /\ t \in Seq(1..Items + 1) /\ fed \in 0..Items
      /\ Len(t) \in Nat
  <2>1. t \in Seq(1..Items) /\ Items \in Nat  BY <1>1, PipeAssumption DEF TypeOK
  <2>2. 1..Items \subseteq 1..Items + 1  BY <2>1
  <2> QED  BY <1>1, <2>1, <2>2, SeqMonotonic DEF TypeOK
<1>4. Allowed(maintainOrder, out \o t, fed)  BY OfferAllowed
<1>5. out \o t \in Seq(1..Items + 1)  BY <1>3, ConcatProperties
<1> HIDE DEF t
<1>6. ASSUME NEW k \in 0..Len(t), out' = out \o SubSeq(t, 1, k)
      PROVE  /\ Len(out) <= Len(out') /\ SubSeq(out', 1, Len(out)) = out
             /\ Allowed(maintainOrder, out', fed)
  <2>1. /\ out \o SubSeq(t, 1, k) = SubSeq(out \o t, 1, Len(out) + k)
        /\ Len(out) + k \in 0..Len(out \o t)
        /\ Len(out) <= Len(out \o SubSeq(t, 1, k))
        /\ SubSeq(out \o SubSeq(t, 1, k), 1, Len(out)) = out
    BY <1>3, ExtendsPart
  <2>2. Allowed(maintainOrder, SubSeq(out \o t, 1, Len(out) + k), fed)
    BY <1>3, <1>4, <1>5, <2>1, AllowedPrefix
  <2> QED  BY <1>6, <2>1, <2>2
<1>7. CASE Receive(i)
  <2>1. out' = out \o t /\ UNCHANGED <<maintainOrder, fed, result>>  BY <1>7 DEF Receive, t
  <2>2. SubSeq(t, 1, Len(t)) = t /\ Len(t) \in 0..Len(t)
    <3>1. Len(t) \in 0..Len(t)  BY <1>3
    <3>2. /\ SubSeq(t, 1, Len(t)) \in Seq(1..Items + 1) /\ Len(SubSeq(t, 1, Len(t))) = Len(t)
          /\ \A p \in 1..Len(t) : SubSeq(t, 1, Len(t))[p] = t[p]
      BY <1>3, <3>1, CountPrefix
    <3> QED  BY <1>3, <3>1, <3>2, SeqEqual
  <2>3. out' = out \o SubSeq(t, 1, Len(t))  BY <2>1, <2>2
  <2> QED  BY <1>2, <1>6, <2>1, <2>2, <2>3, HandOnIs
<1>8. CASE ReceiveThrow(i)
  <2>1. /\ UNCHANGED <<maintainOrder, fed>> /\ result' = "failed"
        /\ \E k \in 0..Len(t) : out' = out \o SubSeq(t, 1, k)
    BY <1>8 DEF ReceiveThrow, t
  <2> QED  BY <1>2, <1>6, <2>1, FailIs
<1> QED  BY <1>7, <1>8

LEMMA EmptyInputBufferIs ==
  ASSUME SerialInv, EmptyInputBuffer
  PROVE  Serial!HandOn \/ Serial!Fail \/ UNCHANGED Serial!serialVars
<1> USE DEF phaseVars, flowVars
<1>1. mpc = "empty"  BY DEF EmptyInputBuffer
<1>2. CASE UNCHANGED <<phaseVars, flowVars>>  BY <1>2, QuietIs
<1>3. ASSUME ~eptr, ReadyPipes # {}, NEW i, i = First(ReadyPipes),
             IF state[i] = "idle" THEN Send(i) ELSE Receive(i) \/ ReceiveThrow(i)
      PROVE  Serial!HandOn \/ Serial!Fail \/ UNCHANGED Serial!serialVars
  <2>1. ReadyPipes \subseteq Pipes  BY DEF ReadyPipes, OutputtingPipes
  <2>2. i \in ReadyPipes /\ i \in Pipes  BY <1>3, <2>1, FirstIn
  <2>3. CASE state[i] = "idle"
    <3>1. UNCHANGED <<maintainOrder, fed, out, result>>  BY <1>3, <2>3 DEF Send
    <3> QED  BY <3>1, QuietIs
  <2>4. CASE state[i] # "idle"
    <3>1. /\ state[i] \in Output
          /\ maintainOrder => outputOrder # <<>> /\ Head(outputOrder) = i
      BY <2>2, <2>4 DEF ReadyPipes, OutputtingPipes
    <3> QED  BY <1>1, <1>3, <2>2, <2>4, <3>1, ReceiveIs
  <2> QED  BY <2>3, <2>4
<1> QED  BY <1>2, <1>3 DEF EmptyInputBuffer

LEMMA DrainIs ==
  ASSUME SerialInv, Drain
  PROVE  Serial!HandOn \/ Serial!Fail \/ UNCHANGED Serial!serialVars
<1> USE DEF phaseVars, flowVars
<1>1. mpc = "drain"  BY DEF Drain
<1>2. CASE UNCHANGED <<phaseVars, flowVars>>  BY <1>2, QuietIs
<1>3. ASSUME ~eptr, OutputtingPipes(maintainOrder) # {}, NEW i,
             i = First(OutputtingPipes(maintainOrder)), Receive(i) \/ ReceiveThrow(i)
      PROVE  Serial!HandOn \/ Serial!Fail
  <2>1. OutputtingPipes(maintainOrder) \subseteq Pipes  BY DEF OutputtingPipes
  <2>2. i \in OutputtingPipes(maintainOrder) /\ i \in Pipes  BY <1>3, <2>1, FirstIn
  <2>3. /\ state[i] \in Output
        /\ maintainOrder => outputOrder # <<>> /\ Head(outputOrder) = i
    BY <2>2 DEF OutputtingPipes
  <2> QED  BY <1>1, <1>3, <2>2, <2>3, ReceiveIs
<1> QED  BY <1>2, <1>3 DEF Drain

(* end() of a worker's nodes hands on at once what they push. *)
LEMMA EndNodesIs ==
  ASSUME SerialInv, SerialInv', NEW i \in Pipes, EndNodes(i)
  PROVE  Serial!HandOn
<1> USE DEF mainVars, workerVars
<1>1. TypeOK /\ TypeOK' /\ EndInv /\ BufferInv /\ OutInv'  BY DEF SerialInv, PipeInv
<1> DEFINE t == [k \in 1..EndEmits |-> Items + 1]
<1>2. /\ mpc = "ends" /\ out' = out \o outbuf[i] \o t
      /\ UNCHANGED <<maintainOrder, fed, result>>
  BY DEF EndNodes
<1>3. result = "none" /\ ~eptr /\ wpc[i] = "exit"  BY <1>1, <1>2 DEF EndInv
<1>4. outbuf[i] = <<>>  BY <1>1, <1>3 DEF BufferInv
<1>5. out \in Seq(1..Items + 1) /\ Items \in Nat /\ EndEmits \in Nat
  BY <1>1, PipeAssumption DEF TypeOK
<1>6. t \in Seq(1..Items + 1)
  <2>1. t \in [1..EndEmits -> 1..Items + 1]  BY <1>5
  <2> HIDE DEF t
  <2> QED  BY <1>5, <2>1, SeqDef
<1> HIDE DEF t
<1>7. out' = out \o t
  <2>1. out \o <<>> = out  BY <1>5, ConcatEmptySeq
  <2> QED  BY <1>2, <1>4, <2>1
<1>8. Len(out) <= Len(out') /\ SubSeq(out', 1, Len(out)) = out
  <2>1. Len(t) \in 0..Len(t) /\ SubSeq(t, 1, Len(t)) = t
    <3>1. Len(t) \in Nat /\ Len(t) \in 0..Len(t)  BY <1>6
    <3>2. /\ SubSeq(t, 1, Len(t)) \in Seq(1..Items + 1) /\ Len(SubSeq(t, 1, Len(t))) = Len(t)
          /\ \A p \in 1..Len(t) : SubSeq(t, 1, Len(t))[p] = t[p]
      BY <1>6, <3>1, CountPrefix
    <3> QED  BY <1>6, <3>1, <3>2, SeqEqual
  <2>2. /\ Len(out) <= Len(out \o SubSeq(t, 1, Len(t)))
        /\ SubSeq(out \o SubSeq(t, 1, Len(t)), 1, Len(out)) = out
    BY <1>5, <1>6, <2>1, ExtendsPart
  <2> QED  BY <1>7, <2>1, <2>2
<1>9. Allowed(maintainOrder, out', fed)
  <2>1. Allowed(maintainOrder', out', fed')  BY <1>1, <1>2, <1>3 DEF OutInv
  <2> QED  BY <1>2, <2>1
<1> QED  BY <1>2, <1>3, <1>8, <1>9, HandOnIs

(* The phase ends normally with everything handed on. *)
LEMMA PhaseDoneIs ==
  ASSUME SerialInv, PhaseDone
  PROVE  Serial!Close
<1> USE DEF flowVars
<1>1. TypeOK /\ EndInv /\ OutInv  BY DEF SerialInv, PipeInv
<1>2. /\ mpc = "ends" /\ toEnd = {} /\ result' = "ok"
      /\ UNCHANGED <<maintainOrder, fed, out>>
  BY DEF PhaseDone
<1>3. result = "none"  BY <1>1, <1>2 DEF EndInv
<1>4. Serial!Served(out, fed)
  <2>1. \A x \in 1..fed : Count(out, x) = Emits[x]  BY <1>2, AllServed
  <2>2. \A x \in 1..fed : x # EndItem
    <3>1. fed \in 0..Items /\ Items \in Nat  BY <1>1, PipeAssumption DEF TypeOK
    <3> QED  BY <3>1 DEF EndItem
  <2>3. ServedIn(out, fed)  BY <2>1, <2>2 DEF ServedIn, DueOf
  <2> QED  BY <2>3, SerialServes
<1>5. Serial!Given(out, Serial!Last) = NumJobs * EndEmits
  <2>1. Cardinality(toEnd) = 0  BY <1>2, FS_EmptySet
  <2>2. Count(out, EndItem) = (NumJobs - 0) * EndEmits  BY <1>1, <1>2, <1>3, <2>1 DEF OutInv
  <2>3. NumJobs - 0 = NumJobs  BY PipeAssumption
  <2> QED  BY <2>2, <2>3, SerialTerms
<1> QED  BY <1>2, <1>3, <1>4, <1>5 DEF Serial!Close

(* stop_workers() drops what is left, and handle_exceptions() rethrows: then *)
(* the phase fails, if it has not done so before.                            *)
LEMMA StoppingIs ==
  ASSUME SerialInv, StopWorkers \/ StopWait
  PROVE  Serial!Fail \/ UNCHANGED Serial!serialVars
<1> USE DEF phaseVars, flowVars
<1>1. mpc \in {"stop", "stopped"} /\ UNCHANGED <<maintainOrder, fed, out>>
  BY DEF StopWorkers, StopWait
<1>2. UNCHANGED result \/ (~dying /\ result' = "failed")
  BY DEF StopWorkers, StopWait, StopReturn
<1>3. CASE UNCHANGED result  BY <1>1, <1>3, QuietIs
<1>4. CASE ~dying /\ result' = "failed"
  <2>1. result = "none"  BY <1>1, <1>4 DEF SerialInv, EndInv
  <2> QED  BY <1>1, <1>4, <2>1, FailQuietly
<1> QED  BY <1>2, <1>3, <1>4

(* A node of the main thread throws. *)
LEMMA ThrowIs ==
  ASSUME SerialInv, BeginThrow \/ FeedThrow \/ EndThrow
  PROVE  Serial!Fail
<1>1. /\ mpc \in {"begin", "feed", "ends"} /\ result' = "failed"
      /\ UNCHANGED <<maintainOrder, fed, out>>
  BY DEF BeginThrow, FeedThrow, EndThrow, flowVars
<1>2. result = "none"  BY <1>1 DEF SerialInv, EndInv
<1> QED  BY <1>1, <1>2, FailQuietly

LEMMA FeedIs ==
  ASSUME SerialInv, Feed
  PROVE  Serial!Accept
<1>1. mpc = "feed" /\ fed' = fed + 1 /\ UNCHANGED <<maintainOrder, out, result>>
  BY DEF Feed, phaseVars
<1>2. result = "none"  BY <1>1 DEF SerialInv, EndInv
<1> QED  BY <1>1, <1>2 DEF Serial!Accept

(* Each step of the pipe is one of SerialPipe, or leaves its state alone. *)
LEMMA StepIs ==
  ASSUME SerialInv, SerialInv', Next
  PROVE  [Serial!SerialNext]_(Serial!serialVars)
<1> USE DEF phaseVars, flowVars, bufferVars, workerVars, mainVars
<1>1. CASE \E i \in Pipes : WorkerStep(i)
  <2>1. UNCHANGED <<maintainOrder, fed, out, result>>
    BY <1>1 DEF WorkerStep, WorkerStart, WorkerLoop, Push, NextItem, PushAllDone, Flush,
                FlushTest, WorkerThrow, WorkerCatch
  <2> QED  BY <2>1, QuietIs
<1>2. CASE \/ StartThread \/ ProducerBegin \/ FeedFull \/ EndCall \/ Finish
           \/ CloseWorkers \/ Destroy \/ JoinLock \/ Joined
  <2>1. UNCHANGED <<maintainOrder, fed, out, result>>
    BY <1>2 DEF StartThread, ProducerBegin, FeedFull, EndCall, Finish, CloseWorkers,
                Destroy, JoinLock, Joined
  <2> QED  BY <2>1, QuietIs
<1>3. CASE EmptyInputBuffer  BY <1>3, EmptyInputBufferIs DEF Serial!SerialNext
<1>4. CASE Drain  BY <1>4, DrainIs DEF Serial!SerialNext
<1>5. CASE StopWorkers \/ StopWait  BY <1>5, StoppingIs DEF Serial!SerialNext
<1>6. CASE BeginThrow \/ FeedThrow \/ EndThrow  BY <1>6, ThrowIs DEF Serial!SerialNext
<1>7. CASE Feed  BY <1>7, FeedIs DEF Serial!SerialNext
<1>8. CASE \E i \in Pipes : EndNodes(i)  BY <1>8, EndNodesIs DEF Serial!SerialNext
<1>9. CASE PhaseDone  BY <1>9, PhaseDoneIs DEF Serial!SerialNext
<1> QED
  BY <1>1, <1>2, <1>3, <1>4, <1>5, <1>6, <1>7, <1>8, <1>9 DEF Next, MainStep

LEMMA StartIs == Init => Serial!Start
<1> SUFFICES ASSUME Init PROVE Serial!Start  OBVIOUS
<1>1. maintainOrder \in BOOLEAN /\ fed = 0 /\ out = <<>> /\ result = "none"  BY DEF Init
<1> QED  BY <1>1 DEF Serial!Start

(* With any number of workers, any buffer size, any source and any nodes,    *)
(* and wherever a node throws, what the parallel pipe hands on is what its   *)
(* nodes would hand on in a single thread, in the same order if that is      *)
(* asked for, and the phase ends normally only with nothing missing.         *)
THEOREM PipeIsSerial == BeginThrows \subseteq {0} => (Spec => ImplementsSerialPipe)
<1> SUFFICES ASSUME BeginThrows \subseteq {0} PROVE Spec => ImplementsSerialPipe
  OBVIOUS
<1>1. Init => Serial!Start  BY StartIs
<1>2. SerialInv /\ SerialInv' /\ [Next]_vars => [Serial!SerialNext]_(Serial!serialVars)
  <2>1. ASSUME UNCHANGED vars PROVE UNCHANGED Serial!serialVars
    <3>1. UNCHANGED <<maintainOrder, fed, out, result>>  BY <2>1 DEF vars, phaseVars, flowVars
    <3> QED  BY <3>1, QuietIs
  <2> QED  BY <2>1, StepIs
<1> QED
  BY <1>1, <1>2, SerialInvariant, PTL DEF Spec, ImplementsSerialPipe, Serial!SerialSpec
=============================================================================
