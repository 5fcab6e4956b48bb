-------------------------- MODULE BlockCacheProofs --------------------------
(***************************************************************************)
(* Proofs about BlockCache, for every cache of at least two blocks, every  *)
(* number of blocks and all values: the cache is consistent (CacheSafe),   *)
(* and with the file behind it it is a plain store of blocks.              *)
(***************************************************************************)
EXTENDS BlockCache, SequenceTheorems, WellFoundedInduction, NaturalsInduction, TLAPS

-----------------------------------------------------------------------------
(* Sequences of distinct elements. *)

(* What Append, Tail, Front and RemoveAt do to them. *)
LEMMA AppendFresh ==
  ASSUME NEW S, NEW s \in Seq(S), IsInjective(s), NEW e \in S, e \notin Range(s)
  PROVE  /\ Append(s, e) \in Seq(S) /\ IsInjective(Append(s, e))
         /\ Range(Append(s, e)) = Range(s) \cup {e}
         /\ Len(Append(s, e)) = Len(s) + 1 /\ Last(Append(s, e)) = e
<1> DEFINE t == Append(s, e)
<1>1. /\ t \in Seq(S) /\ Len(t) = Len(s) + 1 /\ DOMAIN s = 1 .. Len(s)
      /\ \A i \in 1 .. Len(s) : t[i] = s[i]
      /\ t[Len(s) + 1] = e /\ DOMAIN t = 1 .. Len(t) /\ Len(s) \in Nat
  BY AppendProperties, LenProperties
<1> HIDE DEF t
<1>2. \A i \in DOMAIN s : s[i] # e  BY DEF Range
<1>3. IsInjective(t)
  BY <1>1, <1>2 DEF IsInjective
<1>4. Range(t) = Range(s) \cup {e}
  <2>1. Range(t) \subseteq Range(s) \cup {e}  BY <1>1 DEF Range
  <2>2. Range(s) \cup {e} \subseteq Range(t)  BY <1>1 DEF Range
  <2> QED  BY <2>1, <2>2
<1> QED  BY <1>1, <1>3, <1>4 DEF t, Last

LEMMA TailOfDistinct ==
  ASSUME NEW S, NEW s \in Seq(S), IsInjective(s), s # <<>>
  PROVE  /\ Tail(s) \in Seq(S) /\ IsInjective(Tail(s))
         /\ Range(Tail(s)) = Range(s) \ {Head(s)} /\ Head(s) \in Range(s)
         /\ Len(Tail(s)) = Len(s) - 1 /\ Last(s) \in Range(s)
         /\ Len(s) > 1 => Last(Tail(s)) = Last(s) /\ Head(s) # Last(s)
<1> DEFINE t == Tail(s)
<1>1. /\ t \in Seq(S) /\ Len(t) = Len(s) - 1 /\ DOMAIN s = 1 .. Len(s)
      /\ \A i \in 1 .. Len(t) : t[i] = s[i + 1]
      /\ DOMAIN t = 1 .. Len(t) /\ Len(s) \in Nat \ {0} /\ Head(s) = s[1]
  BY HeadTailProperties, LenProperties, EmptySeq
<1> HIDE DEF t
<1>2. \A i \in 2 .. Len(s) : i - 1 \in DOMAIN t /\ t[i - 1] = s[i]  BY <1>1
<1>3. IsInjective(t)  BY <1>1 DEF IsInjective
<1>4. Range(t) = Range(s) \ {s[1]}
  <2>1. \A i \in DOMAIN t : t[i] \in Range(s) /\ t[i] # s[1]
    BY <1>1 DEF Range, IsInjective
  <2>2. \A i \in DOMAIN s : s[i] # s[1] => i - 1 \in DOMAIN t /\ t[i - 1] = s[i]
    BY <1>1, <1>2
  <2> QED  BY <2>1, <2>2 DEF Range
<1>5. s[1] \in Range(s) /\ s[Len(s)] \in Range(s)  BY <1>1 DEF Range
<1>6. Len(s) > 1 => t[Len(t)] = s[Len(s)] /\ s[1] # s[Len(s)]
  BY <1>1 DEF IsInjective
<1> QED  BY <1>1, <1>3, <1>4, <1>5, <1>6 DEF t, Last

LEMMA FrontOfDistinct ==
  ASSUME NEW S, NEW s \in Seq(S), s # <<>>
  PROVE  /\ Front(s) \in Seq(S) /\ Len(Front(s)) = Len(s) - 1
         /\ \A i \in 1 .. Len(s) - 1 : Front(s)[i] = s[i]
         /\ Last(s) \in Range(s)
         /\ IsInjective(s) => /\ IsInjective(Front(s))
                              /\ Range(Front(s)) = Range(s) \ {Last(s)}
<1> DEFINE n == Len(s) - 1
           t == SubSeq(s, 1, n)
<1>1. Len(s) \in Nat \ {0} /\ DOMAIN s = 1 .. Len(s) /\ \A i \in 1 .. Len(s) : s[i] \in S
  BY LenProperties, EmptySeq, ElementOfSeq
<1>2. n \in Int /\ \A i \in 1 .. n : s[i] \in S  BY <1>1
<1>3. /\ t \in Seq(S) /\ Len(t) = n /\ \A i \in 1 .. n : t[i] = s[i]
  <2> HIDE DEF n
  <2>1. /\ t \in Seq(S) /\ Len(t) = IF 1 <= n THEN n - 1 + 1 ELSE 0
        /\ \A i \in 1 .. n - 1 + 1 : t[i] = s[1 + i - 1]
    BY <1>2, SubSeqProperties
  <2>2. n - 1 + 1 = n /\ \A i \in 1 .. n : 1 + i - 1 = i  BY <1>2
  <2>3. n >= 0  BY <1>1 DEF n
  <2> QED  BY <2>1, <2>2, <2>3, <1>2
<1>4. DOMAIN t = 1 .. n  BY <1>3, LenProperties
<1> HIDE DEF t
<1>5. s[Len(s)] \in Range(s)  BY <1>1 DEF Range
<1>6. ASSUME IsInjective(s)
      PROVE  IsInjective(t) /\ Range(t) = Range(s) \ {s[Len(s)]}
  <2>1. IsInjective(t)  BY <1>1, <1>3, <1>4, <1>6 DEF IsInjective
  <2>2. \A i \in 1 .. n : t[i] \in Range(s) /\ t[i] # s[Len(s)]
    BY <1>1, <1>3, <1>6 DEF IsInjective, Range
  <2>3. \A i \in DOMAIN s : s[i] # s[Len(s)] => i \in 1 .. n  BY <1>1
  <2> QED  BY <2>1, <2>2, <2>3, <1>3, <1>4 DEF Range
<1> QED  BY <1>3, <1>5, <1>6 DEF Front, Last, t

LEMMA RemoveAtDistinct ==
  ASSUME NEW S, NEW s \in Seq(S), IsInjective(s), NEW k \in 1 .. Len(s)
  PROVE  /\ RemoveAt(s, k) \in Seq(S) /\ IsInjective(RemoveAt(s, k))
         /\ Len(RemoveAt(s, k)) = Len(s) - 1
         /\ Range(RemoveAt(s, k)) = Range(s) \ {s[k]}
<1> DEFINE u == SubSeq(s, 1, k - 1)
           v == SubSeq(s, k + 1, Len(s))
           t == u \o v
           e == s[k]
<1>1. Len(s) \in Nat /\ DOMAIN s = 1 .. Len(s) /\ \A i \in 1 .. Len(s) : s[i] \in S
  BY LenProperties, ElementOfSeq
<1>2. k \in 1 .. Len(s)  OBVIOUS
<1>3. u \in Seq(S) /\ Len(u) = k - 1 /\ \A i \in 1 .. k - 1 : u[i] = s[i]
  <2>1. /\ 1 \in Int /\ k - 1 \in Int /\ \A i \in 1 .. k - 1 : s[i] \in S
    BY <1>1, <1>2
  <2>2. /\ u \in Seq(S) /\ Len(u) = IF 1 <= k - 1 THEN (k - 1) - 1 + 1 ELSE 0
        /\ \A i \in 1 .. (k - 1) - 1 + 1 : u[i] = s[1 + i - 1]
    BY <2>1, SubSeqProperties
  <2> QED  BY <1>1, <1>2, <2>2
<1>4. /\ v \in Seq(S) /\ Len(v) = Len(s) - k
      /\ \A i \in 1 .. Len(s) - k : v[i] = s[k + i]
  <2>1. /\ k + 1 \in Int /\ Len(s) \in Int /\ \A i \in k + 1 .. Len(s) : s[i] \in S
    BY <1>1, <1>2
  <2>2. /\ v \in Seq(S) /\ Len(v) = IF k + 1 <= Len(s) THEN Len(s) - (k + 1) + 1 ELSE 0
        /\ \A i \in 1 .. Len(s) - (k + 1) + 1 : v[i] = s[(k + 1) + i - 1]
    BY <2>1, SubSeqProperties
  <2> HIDE DEF v
  <2>3. Len(v) = Len(s) - k
    <3>1. CASE k + 1 <= Len(s)  BY <1>1, <1>2, <2>2, <3>1
    <3>2. CASE k = Len(s)
      <4>1. ~(k + 1 <= Len(s)) /\ Len(s) - k = 0  BY <1>1, <3>2
      <4> QED  BY <2>2, <4>1
    <3>3. k + 1 <= Len(s) \/ k = Len(s)
      <4>1. Len(s) \in Nat  BY <1>1
      <4> QED  BY <4>1
    <3> QED  BY <3>1, <3>2, <3>3
  <2>4. ASSUME NEW i \in 1 .. Len(s) - k PROVE v[i] = s[k + i]
    <3>1. i \in 1 .. Len(s) - (k + 1) + 1 /\ (k + 1) + i - 1 = k + i  BY <1>1, <1>2
    <3> QED  BY <2>2, <3>1
  <2> QED  BY <2>2, <2>3, <2>4
<1>5. /\ t \in Seq(S) /\ Len(t) = Len(s) - 1 /\ DOMAIN t = 1 .. Len(s) - 1
      /\ \A i \in 1 .. Len(s) - 1 : t[i] = IF i < k THEN s[i] ELSE s[i + 1]
  <2> HIDE DEF u, v
  <2>1. /\ t \in Seq(S) /\ Len(t) = Len(u) + Len(v)
        /\ \A i \in 1 .. Len(u) + Len(v) : t[i] = IF i <= Len(u) THEN u[i] ELSE v[i - Len(u)]
    BY <1>3, <1>4, ConcatProperties
  <2>2. Len(u) + Len(v) = Len(s) - 1  BY <1>1, <1>2, <1>3, <1>4
  <2>3. ASSUME NEW i \in 1 .. Len(s) - 1 PROVE t[i] = IF i < k THEN s[i] ELSE s[i + 1]
    <3>1. CASE i < k
      <4>1. i \in 1 .. k - 1 /\ i <= Len(u)  BY <1>1, <1>2, <1>3, <3>1
      <4> QED  BY <4>1, <2>1, <2>2, <1>3, <3>1
    <3>2. CASE i >= k
      <4>1. i - (k - 1) \in 1 .. Len(s) - k /\ ~(i <= k - 1) /\ k + (i - (k - 1)) = i + 1
        BY <1>1, <1>2, <3>2
      <4>2. t[i] = v[i - (k - 1)]  BY <2>1, <2>2, <4>1, <1>3
      <4>3. v[i - (k - 1)] = s[k + (i - (k - 1))]  BY <4>1, <1>4
      <4>4. ~(i < k)  BY <1>2, <3>2
      <4> QED  BY <4>1, <4>2, <4>3, <4>4
    <3> HIDE DEF t
    <3>3. i < k \/ i >= k  BY <1>1, <1>2
    <3> QED  BY <3>1, <3>2, <3>3
  <2>4. DOMAIN t = 1 .. Len(t)  BY <2>1, LenProperties
  <2> QED  BY <2>1, <2>2, <2>3, <2>4
<1> HIDE DEF t
<1>6. IsInjective(t)
  <2> SUFFICES ASSUME NEW i \in DOMAIN t, NEW j \in DOMAIN t, t[i] = t[j]
               PROVE  i = j
    BY DEF IsInjective
  <2>1. i \in 1 .. Len(s) - 1 /\ j \in 1 .. Len(s) - 1  BY <1>5
  <2> DEFINE x == IF i < k THEN i ELSE i + 1
             y == IF j < k THEN j ELSE j + 1
  <2>2. x \in 1 .. Len(s) /\ y \in 1 .. Len(s)  BY <1>1, <1>2, <2>1
  <2>3. t[i] = s[x] /\ t[j] = s[y]  BY <1>5, <2>1
  <2>4. x = y => i = j  BY <1>2, <2>1
  <2>5. IsInjective(s) /\ DOMAIN s = 1 .. Len(s)  BY <1>1
  <2> HIDE DEF x, y
  <2> QED  BY <2>2, <2>3, <2>4, <2>5 DEF IsInjective
<1>7. Range(t) = Range(s) \ {e}
  <2>1. ASSUME NEW i \in DOMAIN t PROVE t[i] \in Range(s) /\ t[i] # e
    <3>1. PICK j \in 1 .. Len(s) : t[i] = s[j] /\ j # k  BY <1>1, <1>2, <1>5
    <3> QED  BY <1>1, <1>2, <3>1 DEF Range, IsInjective
  <2>2. \A i \in DOMAIN s : s[i] # e => \E j \in DOMAIN t : t[j] = s[i]
    <3> SUFFICES ASSUME NEW i \in DOMAIN s, s[i] # e PROVE \E j \in DOMAIN t : t[j] = s[i]
      OBVIOUS
    <3>1. CASE i < k
      BY <1>1, <1>2, <1>5, <3>1
    <3>2. CASE i > k
      <4>1. i - 1 \in DOMAIN t /\ ~(i - 1 < k) /\ (i - 1) + 1 = i  BY <1>1, <1>2, <1>5, <3>2
      <4> QED  BY <4>1, <1>5
    <3> QED  BY <1>1, <1>2, <3>1, <3>2
  <2> QED  BY <2>1, <2>2 DEF Range
<1>8. RemoveAt(s, k) = t  BY DEF RemoveAt, t, u, v
<1> QED  BY <1>5, <1>6, <1>7, <1>8

LEMMA RemoveDistinct ==
  ASSUME NEW S, NEW s \in Seq(S), IsInjective(s), NEW e \in Range(s)
  PROVE  LET t == RemoveAt(s, CHOOSE i \in DOMAIN s : s[i] = e)
         IN  /\ t \in Seq(S) /\ IsInjective(t) /\ Len(t) = Len(s) - 1
             /\ Range(t) = Range(s) \ {e}
<1> DEFINE k == CHOOSE i \in DOMAIN s : s[i] = e
<1>1. DOMAIN s = 1 .. Len(s)  BY LenProperties
<1>2. k \in 1 .. Len(s) /\ s[k] = e  BY <1>1 DEF Range
<1> HIDE DEF k
<1> QED  BY <1>2, RemoveAtDistinct DEF k

-----------------------------------------------------------------------------
(* The inductive invariant.  It is stated about a file, a stack of free      *)
(* blocks and an end that are those of the open file, or what opening a      *)
(* closed one will make of it.                                               *)

Content == Values \cup {"fresh"}
Entry   == [data : Content, dirty : BOOLEAN]

TheFile == IF isOpen THEN file ELSE Front(file)
TheFree == IF isOpen THEN free ELSE Front(free)
TheEnd  == IF isOpen THEN end ELSE Last(free)
Used    == (0 .. TheEnd - 1) \ Range(TheFree)

SpaceInv ==
  /\ TheFree \in Seq(Nat) /\ IsInjective(TheFree)
  /\ TheEnd \in 0 .. MaxBlocks /\ Range(TheFree) \subseteq 0 .. TheEnd - 1

ListInv ==
  /\ cached \in [DOMAIN cached -> Entry] /\ DOMAIN cached \subseteq Used
  /\ lru \in Seq(Nat) /\ IsInjective(lru)
  /\ Range(lru) = DOMAIN cached /\ Len(lru) <= CacheSize

(* The file has at h what was put there. *)
InFile(h) == h < Len(TheFile) /\ TheFile[h + 1] \in Content

RestInv ==
  /\ TheFile \in Seq(Content \cup {"hole"}) /\ Len(TheFile) <= TheEnd
  /\ \A h \in Used \ DOMAIN cached : InFile(h)

(* A block that was changed and not marked yet is marked by the calls that   *)
(* come next, before any other block is read.                                *)
Unmarked(h) ==
  \/ todo # <<>> /\ Head(todo) = Call("write", h)
  \/ /\ todo # <<>> /\ Tail(todo) # <<>>
     /\ Head(todo).call = "write" /\ Head(Tail(todo)) = Call("write", h)

SyncInv ==
  \A h \in DOMAIN cached :
    \/ cached[h].dirty \/ Unmarked(h)
    \/ InFile(h) /\ cached[h].data = TheFile[h + 1]

(* What operations on one block, on two, and on a block that is destroyed    *)
(* after another one was used, have left to do.                              *)
OneBlock(h, v) ==
  \/ todo = <<Call("read", h)>>
  \/ todo = <<Call("read", h), Assign(h, v), Call("write", h)>>
  \/ h \in DOMAIN cached /\ todo = <<Assign(h, v), Call("write", h)>>
  \/ h \in DOMAIN cached /\ todo = <<Call("write", h)>>

TwoBlocks(s, d) ==
  \/ todo = <<Call("read", s), Call("read", d), Copy(s, d), Call("write", s), Call("write", d)>>
  \/ /\ lru # <<>> /\ Last(lru) = s
     /\ todo = <<Call("read", d), Copy(s, d), Call("write", s), Call("write", d)>>
  \/ /\ {s, d} \subseteq DOMAIN cached
     /\ \/ todo = <<Copy(s, d), Call("write", s), Call("write", d)>>
        \/ todo = <<Call("write", s), Call("write", d)>>

Destroying(h, o, v) ==
  \/ todo = <<Call("read", h), Assign(h, v), Call("write", h),
              Call("read", o), Call("write", o), Call("free", h)>>
  \/ /\ h \in DOMAIN cached
     /\ \/ todo = <<Assign(h, v), Call("write", h), Call("read", o), Call("write", o), Call("free", h)>>
        \/ todo = <<Call("write", h), Call("read", o), Call("write", o), Call("free", h)>>
  \/ todo = <<Call("read", o), Call("write", o), Call("free", h)>>
  \/ o \in DOMAIN cached /\ todo = <<Call("write", o), Call("free", h)>>
  \/ lru # <<>> /\ todo = <<Call("free", h)>>

TodoInv ==
  \/ todo = <<>>
  \/ /\ isOpen
     /\ \/ \E h \in Used, v \in Content : OneBlock(h, v)
        \/ \E s, d \in Used : TwoBlocks(s, d)
        \/ \E h, o \in Used, v \in Content : h # o /\ Destroying(h, o, v)

ClosedInv ==
  ~isOpen => /\ file \in Seq(Content \cup {"hole", "trailer"})
             /\ file # <<>> /\ Last(file) = "trailer" /\ free # <<>>
             /\ cached = <<>> /\ lru = <<>>

CacheInv ==
  /\ isOpen \in BOOLEAN
  /\ SpaceInv /\ ListInv /\ RestInv /\ SyncInv /\ TodoInv /\ ClosedInv

-----------------------------------------------------------------------------
(* Writing blocks back. *)

(* The length WithDirty() chooses exists. *)
LEMMA LastWritten ==
  ASSUME NEW D \in SUBSET Nat, NEW n \in Nat, NEW b \in Nat, \A h \in D : h < b
  PROVE  \E m \in {n} \cup {h + 1 : h \in D} : m >= n /\ \A h \in D : m >= h + 1
<1> DEFINE Up == {m \in Nat : m >= n /\ \A h \in D : m >= h + 1}
           R  == OpToRel(<, Nat)
<1>1. n + b \in Up  OBVIOUS
<1>2. PICK m \in Up : \A k \in Up : ~(<<k, m>> \in R)
  <2>1. IsWellFoundedOn(R, Nat)  BY NatLessThanWellFounded
  <2>2. Up \subseteq Nat /\ Up # {}  BY <1>1
  <2> HIDE DEF Up, R
  <2> QED  BY <2>1, <2>2, WFMin
<1>3. m \in Nat /\ m >= n /\ \A h \in D : m >= h + 1  BY <1>2
<1>4. CASE m = n \/ \E h \in D : m = h + 1  BY <1>3, <1>4
<1>5. CASE m # n /\ \A h \in D : m # h + 1
  <2>1. m - 1 \in Nat /\ m - 1 >= n  BY <1>3, <1>5
  <2>2. \A h \in D : m - 1 >= h + 1  BY <1>3, <1>5
  <2>3. m - 1 \in Up  BY <2>1, <2>2
  <2>4. <<m - 1, m>> \in R  BY <2>1, <1>3 DEF OpToRel
  <2> QED  BY <1>2, <2>3, <2>4
<1> QED  BY <1>4, <1>5

LEMMA Written ==
  ASSUME file \in Seq(Content \cup {"hole"}), end \in Nat, Len(file) <= end,
         cached \in [DOMAIN cached -> Entry], DOMAIN cached \subseteq 0 .. end - 1,
         NEW hs \in SUBSET DOMAIN cached
  PROVE  LET g == WithDirty(hs)
         IN  /\ g \in Seq(Content \cup {"hole"})
             /\ Len(g) >= Len(file) /\ Len(g) <= end
             /\ \A h \in hs : cached[h].dirty =>
                  h < Len(g) /\ g[h + 1] = cached[h].data /\ g[h + 1] \in Content
             /\ \A h \in Nat : h < Len(file) /\ (h \in hs => ~cached[h].dirty) =>
                  g[h + 1] = file[h + 1]
<1> DEFINE dirty == {h \in hs : cached[h].dirty}
           last  == Len(file)
           P(n)  == n >= last /\ \A h \in dirty : n >= h + 1
           cands == {last} \cup {h + 1 : h \in dirty}
           size  == CHOOSE n \in cands : P(n)
           g     == [i \in 1 .. size |-> IF i - 1 \in dirty THEN cached[i - 1].data
                                         ELSE IF i <= last THEN file[i] ELSE "hole"]
<1>1. /\ last \in Nat /\ last <= end
      /\ dirty \in SUBSET Nat /\ \A h \in dirty : h < end /\ h \in hs
      /\ \A i \in 1 .. last : file[i] \in Content \cup {"hole"}
  BY LenProperties, ElementOfSeq
<1>2. \A h \in DOMAIN cached : cached[h].data \in Content  BY DEF Entry
<1> HIDE DEF dirty, last
<1>3. \E n \in cands : P(n)  BY <1>1, LastWritten
<1>4. size \in cands /\ P(size)
  <2> HIDE DEF cands, P
  <2> QED  BY <1>3
<1>5. size \in Nat /\ size >= last /\ size <= end /\ \A h \in dirty : size >= h + 1
  <2> HIDE DEF size
  <2> QED  BY <1>1, <1>4
<1> HIDE DEF size
<1>6. \A i \in 1 .. size : g[i] \in Content \cup {"hole"}
  BY <1>1, <1>2, <1>5
<1>7. g \in Seq(Content \cup {"hole"}) /\ Len(g) = size
  BY <1>5, <1>6
<1>8. ASSUME NEW h \in dirty PROVE h < size /\ g[h + 1] = cached[h].data
  <2>1. h + 1 \in 1 .. size /\ (h + 1) - 1 = h /\ h < size  BY <1>1, <1>5
  <2> QED  BY <2>1
<1>9. ASSUME NEW h \in Nat, h < last, h \notin dirty PROVE g[h + 1] = file[h + 1]
  <2>1. h + 1 \in 1 .. size /\ (h + 1) - 1 = h /\ h + 1 <= last  BY <1>1, <1>5, <1>9
  <2> QED  BY <2>1, <1>9
<1>10. WithDirty(hs) = g  BY DEF WithDirty, size, cands, P, dirty, last
<1> HIDE DEF g
<1> QED  BY <1>2, <1>5, <1>7, <1>8, <1>9, <1>10 DEF dirty, last

-----------------------------------------------------------------------------
(* The calls of the cache. *)

ValueAt(h) == IF h \in DOMAIN cached THEN cached[h].data ELSE TheFile[h + 1]

(* What the invariant says of an open collection, and of the list. *)
LEMMA OpenFacts ==
  ASSUME CacheInv, isOpen
  PROVE  /\ TheFile = file /\ TheFree = free /\ TheEnd = end /\ end \in Nat
         /\ Used = (0 .. end - 1) \ Range(free) /\ Used = InUse
         /\ file \in Seq(Content \cup {"hole"}) /\ Len(file) <= end
         /\ cached \in [DOMAIN cached -> Entry] /\ DOMAIN cached \subseteq 0 .. end - 1
         /\ DOMAIN cached \subseteq Used /\ Used \subseteq Nat
         /\ lru \in Seq(Nat) /\ Len(lru) \in Nat
  BY CacheAssumption, LenProperties
     DEF CacheInv, SpaceInv, ListInv, RestInv, TheFile, TheFree, TheEnd, Used, InUse

(* add_to_cache(): the block is the last of the list, the one that was last   *)
(* before it is still in the cache, and what is dropped is in the file.      *)
LEMMA AddsToCache ==
  ASSUME CacheInv, isOpen, isOpen', \A k \in DOMAIN cached : ~Unmarked(k),
         SpaceInv', end' >= end, NEW h \in Nat, Used' = Used \cup {h},
         h \notin DOMAIN cached, NEW entry \in Entry, AddToCache(h, entry),
         entry.dirty \/ (InFile(h) /\ entry.data = file[h + 1])
  PROVE  /\ ListInv' /\ RestInv' /\ SyncInv'
         /\ lru' # <<>> /\ Last(lru') = h /\ h \in DOMAIN cached' /\ cached'[h] = entry
         /\ lru # <<>> => Last(lru) \in DOMAIN cached'
         /\ \A k \in Used \ {h} : ValueAt(k)' = ValueAt(k)
<1>1. /\ TheFile = file /\ TheEnd = end /\ end \in Nat /\ Used \subseteq Nat
      /\ file \in Seq(Content \cup {"hole"}) /\ Len(file) <= end
      /\ cached \in [DOMAIN cached -> Entry] /\ DOMAIN cached \subseteq 0 .. end - 1
      /\ DOMAIN cached \subseteq Used /\ lru \in Seq(Nat) /\ Len(lru) \in Nat
  BY OpenFacts
<1>2. TheFile' = file' /\ TheEnd' = end' /\ end' \in Nat
  BY CacheAssumption DEF TheFile, TheEnd, SpaceInv
<1>3. /\ IsInjective(lru) /\ Range(lru) = DOMAIN cached /\ Len(lru) <= CacheSize
      /\ CacheSize \in Nat /\ CacheSize > 1
  BY CacheAssumption DEF CacheInv, ListInv
<1>4. \A k \in DOMAIN cached : cached[k].dirty \/ (InFile(k) /\ cached[k].data = file[k + 1])
  BY <1>1 DEF CacheInv, SyncInv
<1>5. \A k \in Used \ DOMAIN cached : InFile(k)  BY DEF CacheInv, RestInv
(* What the file is afterwards, with hs the blocks that are dropped. *)
<1> DEFINE Safe(hs) ==
      /\ file' \in Seq(Content \cup {"hole"}) /\ Len(file') <= end
      /\ Len(file') >= Len(file) /\ Len(file) \in Nat /\ Len(file') \in Nat
      /\ \A k \in Nat : k < Len(file) /\ (k \in hs => ~cached[k].dirty) => file'[k + 1] = file[k + 1]
      /\ \A k \in hs : k < Len(file') /\ file'[k + 1] = cached[k].data /\ file'[k + 1] \in Content
<1>6. ASSUME Len(lru) < CacheSize PROVE Safe({}) /\ cached' = With(cached, h, entry)
                                        /\ lru' = Append(lru, h)
  BY <1>1, <1>6, LenProperties DEF AddToCache
<1>7. ASSUME ~(Len(lru) < CacheSize)
      PROVE  /\ Safe({Head(lru)}) /\ Head(lru) \in DOMAIN cached
             /\ cached' = With(Without(cached, Head(lru)), h, entry)
             /\ lru' = Append(Tail(lru), h) /\ lru # <<>> /\ Len(lru) > 1
  <2>1. Len(lru) > 1 /\ lru # <<>>  BY <1>1, <1>3, <1>7, EmptySeq
  <2>2. Head(lru) \in DOMAIN cached  BY <1>1, <1>3, <2>1, TailOfDistinct
  <2>3. /\ file' = WithDirty({Head(lru)})
        /\ cached' = With(Without(cached, Head(lru)), h, entry)
        /\ lru' = Append(Tail(lru), h)
    BY <1>7 DEF AddToCache
  <2>4. {Head(lru)} \in SUBSET DOMAIN cached  BY <2>2
  <2>5. /\ file' \in Seq(Content \cup {"hole"})
        /\ Len(file') >= Len(file) /\ Len(file') <= end
        /\ \A k \in {Head(lru)} : cached[k].dirty =>
             k < Len(file') /\ file'[k + 1] = cached[k].data /\ file'[k + 1] \in Content
        /\ \A k \in Nat : k < Len(file) /\ (k \in {Head(lru)} => ~cached[k].dirty) =>
             file'[k + 1] = file[k + 1]
    BY <1>1, <2>3, <2>4, Written
  <2>6. Len(file) \in Nat /\ Len(file') \in Nat  BY <1>1, <2>5, LenProperties
  <2>7. ASSUME NEW k \in {Head(lru)}
        PROVE  k < Len(file') /\ file'[k + 1] = cached[k].data /\ file'[k + 1] \in Content
    <3>1. CASE cached[k].dirty  BY <2>5, <3>1
    <3>2. CASE ~cached[k].dirty
      <4>1. InFile(k) /\ cached[k].data = file[k + 1] /\ k \in Nat  BY <1>4, <2>2, <3>2, <1>1
      <4>2. k < Len(file) /\ file[k + 1] \in Content  BY <4>1, <1>1 DEF InFile
      <4>3. file'[k + 1] = file[k + 1]  BY <4>1, <4>2, <2>5, <3>2
      <4>4. k < Len(file')  BY <4>1, <4>2, <2>5, <2>6
      <4> QED  BY <4>1, <4>2, <4>3, <4>4
    <3> QED  BY <3>1, <3>2
  <2> QED  BY <2>1, <2>2, <2>3, <2>5, <2>6, <2>7
(* Both cases together: hs is dropped from the cache, the rest stays. *)
<1>8. PICK hs \in SUBSET DOMAIN cached :
        /\ Safe(hs)
        /\ DOMAIN cached' = (DOMAIN cached \ hs) \cup {h} /\ cached'[h] = entry
        /\ \A k \in DOMAIN cached \ hs : cached'[k] = cached[k]
        /\ cached' \in [DOMAIN cached' -> Entry]
        /\ lru' \in Seq(Nat) /\ IsInjective(lru') /\ Range(lru') = DOMAIN cached'
        /\ Len(lru') <= CacheSize /\ lru' # <<>> /\ Last(lru') = h
        /\ lru # <<>> => Last(lru) \notin hs /\ Last(lru) \in DOMAIN cached
  <2>1. CASE Len(lru) < CacheSize
    <3>1. Safe({}) /\ cached' = With(cached, h, entry) /\ lru' = Append(lru, h)
      BY <1>6, <2>1
    <3> HIDE DEF Safe
    <3>2. DOMAIN cached' = DOMAIN cached \cup {h} /\ cached'[h] = entry
      BY <3>1 DEF With
    <3>3. \A k \in DOMAIN cached : cached'[k] = cached[k]  BY <3>1 DEF With
    <3>4. cached' \in [DOMAIN cached' -> Entry]  BY <3>1, <1>1 DEF With
    <3>5. h \notin Range(lru)  BY <1>3
    <3>6. /\ lru' \in Seq(Nat) /\ IsInjective(lru') /\ Range(lru') = DOMAIN cached \cup {h}
          /\ Len(lru') = Len(lru) + 1 /\ Last(lru') = h
      BY <3>1, <3>5, <1>1, <1>3, AppendFresh
    <3>7. Len(lru') <= CacheSize /\ lru' # <<>>  BY <3>6, <2>1, <1>1, <1>3, EmptySeq
    <3>8. lru # <<>> => Last(lru) \in DOMAIN cached  BY <1>1, <1>3, TailOfDistinct
    <3> QED  BY <3>1, <3>2, <3>3, <3>4, <3>6, <3>7, <3>8
  <2>2. CASE ~(Len(lru) < CacheSize)
    <3> DEFINE o == Head(lru)
    <3>1. /\ Safe({o}) /\ o \in DOMAIN cached
          /\ cached' = With(Without(cached, o), h, entry)
          /\ lru' = Append(Tail(lru), h) /\ lru # <<>> /\ Len(lru) > 1
      BY <1>7, <2>2
    <3>2. /\ Tail(lru) \in Seq(Nat) /\ IsInjective(Tail(lru))
          /\ Range(Tail(lru)) = DOMAIN cached \ {o}
          /\ Len(Tail(lru)) = Len(lru) - 1 /\ Last(lru) \in DOMAIN cached
          /\ Last(lru) # o
      BY <3>1, <1>1, <1>3, TailOfDistinct
    <3> HIDE DEF Safe, o
    <3>3. DOMAIN cached' = (DOMAIN cached \ {o}) \cup {h} /\ cached'[h] = entry
      BY <3>1 DEF With, Without
    <3>4. \A k \in DOMAIN cached \ {o} : cached'[k] = cached[k]
      BY <3>1 DEF With, Without
    <3>5. cached' \in [DOMAIN cached' -> Entry]  BY <3>1, <1>1 DEF With, Without
    <3>6. h \notin Range(Tail(lru))  BY <3>2
    <3>7. /\ lru' \in Seq(Nat) /\ IsInjective(lru')
          /\ Range(lru') = (DOMAIN cached \ {o}) \cup {h}
          /\ Len(lru') = Len(Tail(lru)) + 1 /\ Last(lru') = h
      <4> DEFINE t == Tail(lru)
      <4>1. t \in Seq(Nat) /\ IsInjective(t) /\ h \notin Range(t)  BY <3>2, <3>6
      <4>2. lru' = Append(t, h) /\ Range(t) = DOMAIN cached \ {o}  BY <3>1, <3>2
      <4> HIDE DEF t
      <4>3. /\ Append(t, h) \in Seq(Nat) /\ IsInjective(Append(t, h))
            /\ Range(Append(t, h)) = Range(t) \cup {h}
            /\ Len(Append(t, h)) = Len(t) + 1 /\ Last(Append(t, h)) = h
        BY <4>1, AppendFresh
      <4> QED  BY <4>2, <4>3 DEF t
    <3>8. Len(lru') <= CacheSize /\ lru' # <<>>
      <4>1. Len(lru') = Len(lru)  BY <3>2, <3>7, <1>1
      <4> QED  BY <4>1, <3>1, <1>1, <1>3, EmptySeq
    <3> QED  BY <3>1, <3>2, <3>3, <3>4, <3>5, <3>7, <3>8
  <2> QED  BY <2>1, <2>2
<1>9. DOMAIN cached' \subseteq Used'  BY <1>1, <1>8
<1>10. ListInv'  BY <1>8, <1>9 DEF ListInv
<1>11. \A k \in Used' : k \notin DOMAIN cached' => InFile(k)'
  <2> SUFFICES ASSUME NEW k \in Used, k \notin DOMAIN cached', k # h
               PROVE  k < Len(file') /\ file'[k + 1] \in Content
    BY <1>2, <1>8 DEF InFile
  <2>1. CASE k \in hs  BY <1>8, <2>1
  <2>2. CASE k \notin hs
    <3>1. k \notin DOMAIN cached /\ k \in Nat  BY <1>1, <1>8, <2>2
    <3>2. k < Len(file) /\ file[k + 1] \in Content  BY <1>1, <1>5, <3>1 DEF InFile
    <3>3. file'[k + 1] = file[k + 1] /\ k < Len(file')  BY <1>8, <2>2, <3>1, <3>2
    <3> QED  BY <3>2, <3>3
  <2> QED  BY <2>1, <2>2
<1>12. RestInv'
  <2>1. Len(file') <= end'  BY <1>1, <1>2, <1>8
  <2> QED  BY <1>2, <1>8, <1>11, <2>1 DEF RestInv
<1>13. SyncInv'
  <2> SUFFICES ASSUME NEW k \in DOMAIN cached', ~cached'[k].dirty
               PROVE  k < Len(file') /\ file'[k + 1] \in Content /\ cached'[k].data = file'[k + 1]
    BY <1>2 DEF SyncInv, InFile
  <2>1. CASE k = h
    <3>1. /\ k < Len(file) /\ file[k + 1] \in Content
          /\ cached'[k].data = file[k + 1] /\ k \notin hs
      BY <1>1, <1>8, <2>1 DEF InFile
    <3> QED  BY <3>1, <1>8, <2>1
  <2>2. CASE k # h
    <3>1. k \in DOMAIN cached \ hs /\ cached'[k] = cached[k] /\ k \in Nat  BY <1>1, <1>8, <2>2
    <3>2. k < Len(file) /\ file[k + 1] \in Content /\ cached[k].data = file[k + 1]
      BY <1>1, <1>4, <3>1 DEF InFile
    <3> QED  BY <3>1, <3>2, <1>8
  <2> QED  BY <2>1, <2>2
<1>14. ASSUME NEW k \in Used \ {h} PROVE ValueAt(k)' = ValueAt(k)
  <2>1. CASE k \in hs
    <3>1. k \in DOMAIN cached /\ k \notin DOMAIN cached'  BY <1>8, <2>1
    <3> QED  BY <1>1, <1>2, <1>8, <2>1, <3>1 DEF ValueAt
  <2>2. CASE k \in DOMAIN cached \ hs  BY <1>8, <2>2 DEF ValueAt
  <2>3. CASE k \notin DOMAIN cached
    <3>1. k \notin DOMAIN cached' /\ k \notin hs /\ k \in Nat  BY <1>1, <1>8, <2>3
    <3>2. k < Len(file)  BY <1>1, <1>5, <2>3 DEF InFile
    <3> QED  BY <1>1, <1>2, <1>8, <2>3, <3>1, <3>2 DEF ValueAt
  <2> QED  BY <2>1, <2>2, <2>3
<1> QED  BY <1>8, <1>10, <1>12, <1>13, <1>14

(* used(): the block becomes the last of the list. *)
LEMMA Touches ==
  ASSUME CacheInv, isOpen, NEW h \in DOMAIN cached, lru' = Touched(h)
  PROVE  /\ lru' \in Seq(Nat) /\ IsInjective(lru') /\ Range(lru') = Range(lru)
         /\ Len(lru') = Len(lru) /\ lru' # <<>> /\ Last(lru') = h
         /\ lru # <<>> => Last(lru) \in DOMAIN cached
<1> DEFINE t == Erased(h)
<1>1. /\ lru \in Seq(Nat) /\ IsInjective(lru) /\ h \in Range(lru) /\ h \in Nat
      /\ Range(lru) = DOMAIN cached /\ Len(lru) \in Nat
  BY OpenFacts DEF CacheInv, ListInv
<1>2. t \in Seq(Nat) /\ IsInjective(t) /\ Len(t) = Len(lru) - 1 /\ Range(t) = Range(lru) \ {h}
  BY <1>1, RemoveDistinct DEF Erased
<1>3. lru' = Append(t, h)  BY DEF Touched
<1>4. lru # <<>> => Last(lru) \in DOMAIN cached  BY <1>1, TailOfDistinct
<1> HIDE DEF t
<1>5. /\ lru' \in Seq(Nat) /\ IsInjective(lru') /\ Range(lru') = Range(t) \cup {h}
      /\ Len(lru') = Len(t) + 1 /\ Last(lru') = h
  BY <1>1, <1>2, <1>3, AppendFresh
<1>6. Len(lru') = Len(lru) /\ lru' # <<>>  BY <1>1, <1>2, <1>5, EmptySeq
<1> QED  BY <1>1, <1>2, <1>4, <1>5, <1>6

(* A step of an operation in progress, one lemma per call: what it keeps and *)
(* what is held afterwards.                                                  *)
LEMMA GoFacts ==
  ASSUME CacheInv, Go
  PROVE  /\ isOpen /\ isOpen' /\ todo # <<>> /\ todo' = Tail(todo)
         /\ Held = [k \in Used |-> ValueAt(k)]
<1>1. isOpen /\ todo # <<>> /\ todo' = Tail(todo) /\ isOpen' = isOpen
  BY DEF CacheInv, TodoInv, Go
<1> QED  BY <1>1 DEF Held, Used, TheEnd, TheFree, TheFile, ValueAt

LEMMA GoRead ==
  ASSUME CacheInv, Go, NEW h \in Used, Head(todo) = Call("read", h)
  PROVE  /\ SpaceInv' /\ ListInv' /\ RestInv' /\ SyncInv' /\ Used' = Used
         /\ h \in DOMAIN cached' /\ lru' # <<>> /\ Last(lru') = h
         /\ lru # <<>> => Last(lru) \in DOMAIN cached'
         /\ Held' = Held
<1>1. isOpen /\ isOpen' /\ todo # <<>> /\ Held = [k \in Used |-> ValueAt(k)]  BY GoFacts
<1>2. ReadBlock(h) /\ UNCHANGED <<free, end>>  BY DEF Go, Call
<1>3. TheFree' = TheFree /\ TheEnd' = TheEnd /\ Used' = Used /\ SpaceInv'
  BY <1>1, <1>2 DEF TheFree, TheEnd, Used, SpaceInv, CacheInv
<1>4. \A k \in DOMAIN cached : ~Unmarked(k)  BY DEF Unmarked, Call
<1>5. Used \subseteq Nat /\ TheFile = file /\ DOMAIN cached \subseteq Used /\ end \in Nat
  BY <1>1, OpenFacts
<1>6. CASE h \in DOMAIN cached
  <2>1. lru' = Touched(h) /\ UNCHANGED <<file, cached>>  BY <1>2, <1>6 DEF ReadBlock
  <2>2. TheFile' = TheFile  BY <1>1, <2>1 DEF TheFile
  <2>3. /\ lru' \in Seq(Nat) /\ IsInjective(lru') /\ Range(lru') = Range(lru)
        /\ Len(lru') = Len(lru) /\ lru' # <<>> /\ Last(lru') = h
        /\ lru # <<>> => Last(lru) \in DOMAIN cached
    BY <1>1, <1>6, <2>1, Touches
  <2>4. ListInv'  BY <1>3, <2>1, <2>3 DEF CacheInv, ListInv
  <2>5. RestInv'  BY <1>3, <2>1, <2>2 DEF CacheInv, RestInv, InFile
  <2>6. SyncInv'  BY <1>4, <2>1, <2>2 DEF CacheInv, SyncInv, InFile
  <2>7. Held' = Held
    BY <1>1, <1>2, <2>1 DEF Held
  <2> QED  BY <1>3, <1>6, <2>1, <2>3, <2>4, <2>5, <2>6, <2>7
<1>7. CASE h \notin DOMAIN cached
  <2> DEFINE entry == [data |-> file[h + 1], dirty |-> FALSE]
  <2>1. AddToCache(h, entry)  BY <1>2, <1>7 DEF ReadBlock
  <2>2. InFile(h)  BY <1>7 DEF CacheInv, RestInv
  <2>3. entry \in Entry /\ entry.data = file[h + 1]  BY <1>5, <2>2 DEF InFile, Entry
  <2>4. Used' = Used \cup {h} /\ h \in Nat /\ end' >= end  BY <1>2, <1>3, <1>5
  <2> HIDE DEF entry
  <2>5. /\ ListInv' /\ RestInv' /\ SyncInv'
        /\ lru' # <<>> /\ Last(lru') = h /\ h \in DOMAIN cached' /\ cached'[h] = entry
        /\ lru # <<>> => Last(lru) \in DOMAIN cached'
        /\ \A k \in Used \ {h} : ValueAt(k)' = ValueAt(k)
    BY <1>1, <1>3, <1>4, <1>7, <2>1, <2>2, <2>3, <2>4, AddsToCache
  <2>6. ValueAt(h)' = ValueAt(h)  BY <2>3, <2>5, <1>5, <1>7 DEF ValueAt
  <2>7. Held' = [k \in Used' |-> ValueAt(k)']
    BY <1>1 DEF Held, Used, TheEnd, TheFree, TheFile, ValueAt
  <2>8. Held' = Held  BY <2>5, <2>6, <2>7, <1>1, <1>3
  <2> QED  BY <1>3, <2>5, <2>8
<1> QED  BY <1>6, <1>7

LEMMA GoWrite ==
  ASSUME CacheInv, Go, NEW h \in DOMAIN cached, Head(todo) = Call("write", h)
  PROVE  /\ SpaceInv' /\ ListInv' /\ RestInv' /\ SyncInv' /\ Used' = Used
         /\ DOMAIN cached' = DOMAIN cached /\ lru' # <<>>
         /\ Held' = Held
<1>1. /\ isOpen /\ isOpen' /\ todo # <<>> /\ todo' = Tail(todo)
      /\ Held = [k \in Used |-> ValueAt(k)]
  BY GoFacts
<1>2. WriteBlock(h) /\ UNCHANGED <<free, end>>  BY DEF Go, Call
<1>3. TheFree' = TheFree /\ TheEnd' = TheEnd /\ Used' = Used /\ SpaceInv' /\ TheFile' = TheFile
  BY <1>1, <1>2 DEF TheFree, TheEnd, TheFile, Used, SpaceInv, CacheInv, WriteBlock
<1>4. lru' = Touched(h) /\ cached' = [cached EXCEPT ![h].dirty = TRUE] /\ file' = file
  BY <1>2 DEF WriteBlock
<1>5. cached \in [DOMAIN cached -> Entry]  BY DEF CacheInv, ListInv
<1>6. /\ DOMAIN cached' = DOMAIN cached /\ cached' \in [DOMAIN cached -> Entry]
      /\ \A k \in DOMAIN cached : cached'[k].data = cached[k].data
      /\ \A k \in DOMAIN cached : k # h => cached'[k] = cached[k]
      /\ cached'[h].dirty
  BY <1>4, <1>5 DEF Entry
<1>7. /\ lru' \in Seq(Nat) /\ IsInjective(lru') /\ Range(lru') = Range(lru)
      /\ Len(lru') = Len(lru) /\ lru' # <<>>
  BY <1>1, <1>4, Touches
<1>8. ListInv'  BY <1>3, <1>6, <1>7 DEF CacheInv, ListInv
<1>9. RestInv'  BY <1>3, <1>6 DEF CacheInv, RestInv, InFile
<1>10. SyncInv'
  <2> SUFFICES ASSUME NEW k \in DOMAIN cached, k # h, ~cached[k].dirty, ~Unmarked(k)'
               PROVE  InFile(k)' /\ cached[k].data = TheFile'[k + 1]
    BY <1>6 DEF SyncInv
  <2>1. ~Unmarked(k)
    <3>1. Head(todo) # Call("write", k)  BY DEF Call
    <3>2. Tail(todo) # <<>> => Head(Tail(todo)) # Call("write", k)  BY <1>1 DEF Unmarked
    <3> QED  BY <3>1, <3>2 DEF Unmarked
  <2> QED  BY <2>1, <1>3 DEF CacheInv, SyncInv, InFile
<1>11. Held' = Held
  BY <1>1, <1>2, <1>4, <1>6 DEF Held
<1> QED  BY <1>3, <1>6, <1>7, <1>8, <1>9, <1>10, <1>11

(* A change through the pointer: assign and copy. *)
LEMMA Changes ==
  ASSUME CacheInv, Go, NEW h \in DOMAIN cached, NEW v \in Content,
         Head(todo).call \in {"assign", "copy"},
         cached' = [cached EXCEPT ![h].data = v], UNCHANGED <<file, free, end, lru>>,
         Unmarked(h)'
  PROVE  /\ SpaceInv' /\ ListInv' /\ RestInv' /\ SyncInv' /\ Used' = Used
         /\ DOMAIN cached' = DOMAIN cached
         /\ h \in DOMAIN Held /\ Held' = [Held EXCEPT ![h] = v]
<1>1. isOpen /\ isOpen' /\ todo # <<>> /\ Held = [k \in Used |-> ValueAt(k)]  BY GoFacts
<1>2. TheFree' = TheFree /\ TheEnd' = TheEnd /\ Used' = Used /\ SpaceInv' /\ TheFile' = TheFile
  BY <1>1 DEF TheFree, TheEnd, TheFile, Used, SpaceInv, CacheInv
<1>3. cached \in [DOMAIN cached -> Entry]  BY DEF CacheInv, ListInv
<1>4. /\ DOMAIN cached' = DOMAIN cached /\ cached' \in [DOMAIN cached -> Entry]
      /\ \A k \in DOMAIN cached : k # h => cached'[k] = cached[k]
      /\ cached'[h].data = v
  BY <1>3 DEF Entry
<1>5. ListInv'  BY <1>2, <1>4 DEF CacheInv, ListInv
<1>6. RestInv'  BY <1>2, <1>4 DEF CacheInv, RestInv, InFile
<1>7. \A k \in DOMAIN cached : ~Unmarked(k)  BY DEF Unmarked, Call
<1>8. SyncInv'  BY <1>2, <1>4, <1>7 DEF CacheInv, SyncInv, InFile
<1>9. h \in Used  BY DEF CacheInv, ListInv
<1>10. Held' = [k \in Used |-> ValueAt(k)']
  BY <1>1, <1>2 DEF Held, Used, TheEnd, TheFree, TheFile, ValueAt
<1>11. ValueAt(h)' = v  BY <1>4 DEF ValueAt
<1>12. \A k \in Used \ {h} : ValueAt(k)' = ValueAt(k)  BY <1>2, <1>4 DEF ValueAt
<1>13. Held' = [Held EXCEPT ![h] = v]  BY <1>1, <1>9, <1>10, <1>11, <1>12
<1> QED  BY <1>1, <1>2, <1>4, <1>5, <1>6, <1>8, <1>9, <1>13

(* free_block(): the file is never longer than the blocks it has. *)
LEMMA GoFree ==
  ASSUME CacheInv, Go, NEW h \in Used, Head(todo) = Call("free", h)
  PROVE  /\ SpaceInv' /\ ListInv' /\ RestInv' /\ SyncInv'
         /\ h \in DOMAIN Held /\ Held' = [k \in DOMAIN Held \ {h} |-> Held[k]]
<1>1. isOpen /\ isOpen' /\ todo # <<>> /\ Held = [k \in Used |-> ValueAt(k)]  BY GoFacts
<1>2. FreeBlock(h)  BY DEF Go, Call
<1>3. /\ end \in Nat /\ Used = (0 .. end - 1) \ Range(free) /\ Len(file) <= end
      /\ file \in Seq(Content \cup {"hole"}) /\ h \in Nat /\ Used \subseteq Nat
      /\ TheFile = file /\ TheFree = free /\ TheEnd = end
  BY <1>1, OpenFacts
<1>4. free \in Seq(Nat) /\ IsInjective(free) /\ Range(free) \subseteq 0 .. end - 1 /\ end <= MaxBlocks
  BY <1>3, CacheAssumption DEF CacheInv, SpaceInv
<1>5. file' = file /\ end' = end  BY <1>2, <1>3, LenProperties DEF FreeBlock
<1>6. /\ free' \in Seq(Nat) /\ IsInjective(free') /\ Range(free') = Range(free) \cup {h}
  BY <1>2, <1>3, <1>4, AppendFresh DEF FreeBlock
<1>7. TheFile' = file /\ TheFree' = free' /\ TheEnd' = end /\ Used' = Used \ {h}
  BY <1>1, <1>3, <1>5, <1>6 DEF TheFile, TheFree, TheEnd, Used
<1>8. SpaceInv'  BY <1>3, <1>4, <1>6, <1>7 DEF SpaceInv, CacheInv
<1>9. /\ DOMAIN cached' = DOMAIN cached \ {h} /\ cached' \in [DOMAIN cached' -> Entry]
      /\ \A k \in DOMAIN cached \ {h} : cached'[k] = cached[k]
  BY <1>2 DEF FreeBlock, Without, CacheInv, ListInv
<1>10. ListInv'
  <2>1. /\ lru \in Seq(Nat) /\ IsInjective(lru) /\ Range(lru) = DOMAIN cached
        /\ Len(lru) <= CacheSize /\ Len(lru) \in Nat /\ DOMAIN cached \subseteq Used
    BY <1>1, OpenFacts DEF CacheInv, ListInv
  <2>2. /\ lru' \in Seq(Nat) /\ IsInjective(lru') /\ Range(lru') = Range(lru) \ {h}
        /\ Len(lru') <= CacheSize
    <3>1. CASE h \in DOMAIN cached
      <4>1. lru' = Erased(h)  BY <1>2, <3>1 DEF FreeBlock
      <4>2. /\ lru' \in Seq(Nat) /\ IsInjective(lru') /\ Len(lru') = Len(lru) - 1
            /\ Range(lru') = Range(lru) \ {h}
        BY <2>1, <3>1, <4>1, RemoveDistinct DEF Erased
      <4> QED  BY <2>1, <4>2, CacheAssumption
    <3>2. CASE h \notin DOMAIN cached
      <4>1. lru' = lru  BY <1>2, <3>2 DEF FreeBlock
      <4> QED  BY <2>1, <3>2, <4>1
    <3> QED  BY <3>1, <3>2
  <2> QED  BY <2>1, <2>2, <1>7, <1>9 DEF ListInv
<1>11. RestInv'
  <2>1. \A k \in Used' \ DOMAIN cached' : k \in Used \ DOMAIN cached  BY <1>7, <1>9
  <2> QED  BY <1>3, <1>7, <2>1 DEF RestInv, InFile, CacheInv
<1>12. SyncInv'
  <2>1. \A k \in DOMAIN cached : ~Unmarked(k)  BY DEF Unmarked, Call
  <2> QED  BY <1>3, <1>7, <1>9, <2>1 DEF SyncInv, InFile, CacheInv
<1>13. Held' = [k \in Used' |-> ValueAt(k)']
  BY <1>1 DEF Held, Used, TheEnd, TheFree, TheFile, ValueAt
<1>14. \A k \in Used' : ValueAt(k)' = ValueAt(k)  BY <1>3, <1>7, <1>9 DEF ValueAt
<1> QED  BY <1>1, <1>7, <1>8, <1>10, <1>11, <1>12, <1>13, <1>14

(* get_free_block(): a block that is not in use, with the content of a new    *)
(* block.                                                                    *)
LEMMA Creates ==
  ASSUME CacheInv, NEW h \in Block, Create(h)
  PROVE  /\ SpaceInv' /\ ListInv' /\ RestInv' /\ SyncInv' /\ isOpen' /\ h \in Used'
         /\ h \notin DOMAIN Held
         /\ Held' = [k \in DOMAIN Held \cup {h} |-> IF k = h THEN "fresh" ELSE Held[k]]
<1> DEFINE entry == [data |-> "fresh", dirty |-> TRUE]
<1>1. isOpen /\ isOpen' /\ todo = <<>> /\ GetFreeBlock(h) /\ AddToCache(h, entry) /\ h \in Nat
  BY DEF Create, Starts, Block, GetFreeBlock
<1>2. entry \in Entry /\ entry.dirty /\ entry.data = "fresh"  BY DEF Entry, Content
<1> HIDE DEF entry
<1>3. /\ end \in Nat /\ Used = (0 .. end - 1) \ Range(free) /\ DOMAIN cached \subseteq Used
      /\ TheFile = file /\ TheFree = free /\ TheEnd = end
  BY <1>1, OpenFacts
<1>4. free \in Seq(Nat) /\ IsInjective(free) /\ Range(free) \subseteq 0 .. end - 1 /\ end <= MaxBlocks
  BY <1>3, CacheAssumption DEF CacheInv, SpaceInv
<1>5. TheFree' = free' /\ TheEnd' = end'  BY <1>1 DEF TheFree, TheEnd
<1>6. SpaceInv' /\ Used' = Used \cup {h} /\ h \notin Used /\ end' >= end
  <2>1. CASE free # <<>>
    <3>1. h = Last(free) /\ free' = Front(free) /\ end' = end  BY <1>1, <2>1 DEF GetFreeBlock
    <3>2. /\ free' \in Seq(Nat) /\ IsInjective(free') /\ Range(free') = Range(free) \ {h}
          /\ h \in Range(free)
      BY <3>1, <2>1, <1>4, FrontOfDistinct
    <3> QED  BY <1>3, <1>4, <1>5, <3>1, <3>2 DEF SpaceInv, Used
  <2>2. CASE free = <<>>
    <3>1. h = end /\ end' = end + 1 /\ free' = free  BY <1>1, <2>2 DEF GetFreeBlock
    <3>2. Range(free) = {}  BY <2>2 DEF Range
    <3>3. end + 1 <= MaxBlocks  BY <3>1, <1>3, CacheAssumption DEF Block
    <3>4. Used' = 0 .. end /\ Used = 0 .. end - 1  BY <1>3, <1>5, <3>1, <3>2 DEF Used
    <3> QED  BY <1>3, <1>4, <1>5, <3>1, <3>2, <3>3, <3>4, CacheAssumption DEF SpaceInv
  <2> QED  BY <2>1, <2>2
<1>7. \A k \in DOMAIN cached : ~Unmarked(k)  BY <1>1 DEF Unmarked
<1>8. h \notin DOMAIN cached  BY <1>3, <1>6
<1>9. /\ ListInv' /\ RestInv' /\ SyncInv'
      /\ h \in DOMAIN cached' /\ cached'[h] = entry
      /\ \A k \in Used \ {h} : ValueAt(k)' = ValueAt(k)
  BY <1>1, <1>2, <1>6, <1>7, <1>8, AddsToCache
<1>10. Held = [k \in Used |-> ValueAt(k)] /\ Held' = [k \in Used' |-> ValueAt(k)']
  BY <1>1 DEF Held, Used, TheEnd, TheFree, TheFile, ValueAt
<1>11. ValueAt(h)' = "fresh"  BY <1>2, <1>9 DEF ValueAt
<1> QED  BY <1>1, <1>6, <1>9, <1>10, <1>11

-----------------------------------------------------------------------------
(* Closing and opening the file. *)
LEMMA FrontOfAppend ==
  ASSUME NEW S, NEW s \in Seq(S), NEW e \in S
  PROVE  /\ Front(Append(s, e)) = s /\ Last(Append(s, e)) = e /\ Append(s, e) # <<>>
         /\ \A i \in 1 .. Len(s) : Append(s, e)[i] = s[i]
<1> DEFINE t == Append(s, e)
<1>1. /\ t \in Seq(S) /\ Len(t) = Len(s) + 1 /\ t[Len(s) + 1] = e /\ Len(s) \in Nat
      /\ \A i \in 1 .. Len(s) : t[i] = s[i]
  BY AppendProperties, LenProperties
<1> HIDE DEF t
<1>2. t # <<>>  BY <1>1, EmptySeq
<1>3. /\ Front(t) \in Seq(S) /\ Len(Front(t)) = Len(s)
      /\ \A i \in 1 .. Len(s) : Front(t)[i] = s[i]
  <2>1. /\ Front(t) \in Seq(S) /\ Len(Front(t)) = Len(t) - 1
        /\ \A i \in 1 .. Len(t) - 1 : Front(t)[i] = t[i]
    BY <1>1, <1>2, FrontOfDistinct
  <2>2. Len(t) - 1 = Len(s)  BY <1>1
  <2> QED  BY <1>1, <2>1, <2>2
<1>4. Front(t) = s  BY <1>3, SeqEqual
<1> QED  BY <1>1, <1>2, <1>4 DEF t, Last

LEMMA Closes ==
  ASSUME CacheInv, Close
  PROVE  /\ SpaceInv' /\ ListInv' /\ RestInv' /\ SyncInv' /\ ClosedInv' /\ isOpen' = FALSE
         /\ todo' = <<>> /\ Held' = Held
<1> DEFINE g == WithDirty(DOMAIN cached)
<1>1. /\ isOpen /\ isOpen' = FALSE /\ todo = <<>> /\ todo' = <<>>
      /\ file' = Append(g, "trailer") /\ free' = Append(free, end)
      /\ cached' = <<>> /\ lru' = <<>>
  BY DEF Close
<1>2. /\ TheFile = file /\ TheFree = free /\ TheEnd = end /\ end \in Nat
      /\ file \in Seq(Content \cup {"hole"}) /\ Len(file) <= end /\ Used \subseteq Nat
      /\ cached \in [DOMAIN cached -> Entry] /\ DOMAIN cached \subseteq 0 .. end - 1
      /\ DOMAIN cached \subseteq Used /\ Used = (0 .. end - 1) \ Range(free)
  BY <1>1, OpenFacts
<1>3. free \in Seq(Nat)  BY <1>2 DEF CacheInv, SpaceInv
<1>4. /\ g \in Seq(Content \cup {"hole"}) /\ Len(g) >= Len(file) /\ Len(g) <= end
      /\ \A h \in DOMAIN cached : cached[h].dirty =>
           h < Len(g) /\ g[h + 1] = cached[h].data /\ g[h + 1] \in Content
      /\ \A h \in Nat : h < Len(file) /\ (h \in DOMAIN cached => ~cached[h].dirty) =>
           g[h + 1] = file[h + 1]
  BY <1>2, Written
<1> HIDE DEF g
<1>5. Len(g) \in Nat /\ Len(file) \in Nat  BY <1>2, <1>4, LenProperties
<1>6. /\ Front(file') = g /\ Last(file') = "trailer" /\ file' # <<>>
      /\ \A i \in 1 .. Len(g) : file'[i] = g[i]
      /\ file' \in Seq(Content \cup {"hole", "trailer"})
  <2>1. g \in Seq(Content \cup {"hole", "trailer"})
    <3>1. \A i \in 1 .. Len(g) : g[i] \in Content \cup {"hole", "trailer"}
      BY <1>4, ElementOfSeq
    <3> QED  BY <1>4, <3>1
  <2> QED  BY <2>1, <1>1, FrontOfAppend, AppendProperties
<1>7. Front(free') = free /\ Last(free') = end /\ free' # <<>>
  BY <1>1, <1>2, <1>3, FrontOfAppend
<1>8. TheFile' = g /\ TheFree' = TheFree /\ TheEnd' = TheEnd /\ Used' = Used
  BY <1>1, <1>2, <1>6, <1>7 DEF TheFile, TheFree, TheEnd, Used
<1>9. \A h \in Used : h < Len(g) /\ g[h + 1] \in Content /\ g[h + 1] = ValueAt(h)
  <2> SUFFICES ASSUME NEW h \in Used
               PROVE  h < Len(g) /\ g[h + 1] \in Content /\ g[h + 1] = ValueAt(h)
    OBVIOUS
  <2>1. CASE h \in DOMAIN cached /\ cached[h].dirty  BY <1>4, <2>1 DEF ValueAt
  <2>2. CASE ~(h \in DOMAIN cached /\ cached[h].dirty)
    <3>1. h < Len(file) /\ file[h + 1] \in Content /\ file[h + 1] = ValueAt(h)
      <4>1. ~Unmarked(h)  BY <1>1 DEF Unmarked
      <4> QED  BY <2>2, <4>1, <1>2 DEF CacheInv, RestInv, SyncInv, InFile, ValueAt
    <3>2. g[h + 1] = file[h + 1] /\ h \in Nat  BY <1>2, <1>4, <2>2, <3>1
    <3> QED  BY <3>1, <3>2, <1>4, <1>5
  <2> QED  BY <2>1, <2>2
<1>10. DOMAIN cached' = {} /\ lru' = <<>>  BY <1>1
<1>11. SpaceInv'  BY <1>8 DEF CacheInv, SpaceInv
<1>12. ListInv'
  <2>1. cached' \in [{} -> Entry]  BY <1>1
  <2>2. lru' \in Seq(Nat) /\ IsInjective(lru') /\ Range(lru') = {} /\ Len(lru') = 0
    BY <1>1 DEF IsInjective, Range
  <2> QED  BY <1>10, <2>1, <2>2, CacheAssumption DEF ListInv
<1>13. RestInv'  BY <1>2, <1>4, <1>8, <1>9 DEF RestInv, InFile
<1>14. SyncInv'  BY <1>10 DEF SyncInv
<1>15. ClosedInv'  BY <1>1, <1>6, <1>7 DEF ClosedInv
<1>16. Held = [h \in Used |-> ValueAt(h)]
  BY <1>1 DEF Held, Used, TheEnd, TheFree, TheFile, ValueAt
<1>17. Held' = [h \in Used |-> file'[h + 1]]
  BY <1>1, <1>2, <1>7, <1>10 DEF Held
<1>18. \A h \in Used : file'[h + 1] = ValueAt(h)  BY <1>2, <1>4, <1>5, <1>6, <1>9
<1> QED  BY <1>1, <1>11, <1>12, <1>13, <1>14, <1>15, <1>16, <1>17, <1>18

LEMMA Opens ==
  ASSUME CacheInv, Open
  PROVE  /\ SpaceInv' /\ ListInv' /\ RestInv' /\ SyncInv' /\ isOpen' = TRUE
         /\ todo' = <<>> /\ Held' = Held
<1>1. /\ ~isOpen /\ isOpen' = TRUE /\ file' = Front(file) /\ end' = Last(free)
      /\ free' = Front(free) /\ UNCHANGED <<cached, lru, todo>>
  BY DEF Open
<1>2. file # <<>> /\ free # <<>> /\ cached = <<>> /\ lru = <<>> /\ todo = <<>>
  BY <1>1 DEF CacheInv, ClosedInv, TodoInv
<1>3. TheFile' = TheFile /\ TheFree' = TheFree /\ TheEnd' = TheEnd /\ Used' = Used
  BY <1>1 DEF TheFile, TheFree, TheEnd, Used
<1>4. SpaceInv' /\ ListInv' /\ RestInv'
  BY <1>1, <1>3 DEF CacheInv, SpaceInv, ListInv, RestInv, InFile
<1>5. SyncInv'  BY <1>1, <1>2 DEF SyncInv
<1>6. Held' = [h \in Used |-> Front(file)[h + 1]] /\ Held = [h \in Used |-> file[h + 1]]
  BY <1>1, <1>2 DEF Held, Used, TheFree, TheEnd
<1>7. ASSUME NEW h \in Used PROVE Front(file)[h + 1] = file[h + 1]
  <2>1. file \in Seq(Content \cup {"hole", "trailer"})  BY <1>1 DEF CacheInv, ClosedInv
  <2>2. /\ Len(Front(file)) = Len(file) - 1 /\ Len(file) \in Nat
        /\ \A i \in 1 .. Len(file) - 1 : Front(file)[i] = file[i]
    BY <2>1, <1>2, FrontOfDistinct, LenProperties
  <2>3. h < Len(Front(file)) /\ h \in Nat
    BY <1>1, <1>2, CacheAssumption DEF CacheInv, RestInv, InFile, TheFile, Used, SpaceInv
  <2>4. h + 1 \in 1 .. Len(file) - 1  BY <2>2, <2>3
  <2> QED  BY <2>2, <2>4
<1> QED  BY <1>1, <1>2, <1>4, <1>5, <1>6, <1>7

-----------------------------------------------------------------------------
(* Every step keeps the invariant and is a step of the store of blocks, or   *)
(* none of it.                                                               *)
Kept == SpaceInv /\ ListInv /\ RestInv /\ SyncInv

LEMMA PutStep ==
  ASSUME NEW h \in Used, CacheInv, NEW v \in Content, h \in DOMAIN Held,
         Held' = [Held EXCEPT ![h] = v]
  PROVE  Store!Next
<1>1. h \in Block
  BY CacheAssumption DEF CacheInv, SpaceInv, Used, Block
<1>2. Store!Put(h, v)  BY DEF Store!Put
<1> QED  BY <1>1, <1>2 DEF Store!Next, Content

LEMMA GoAssign ==
  ASSUME CacheInv, Go, NEW h \in DOMAIN cached, NEW v \in Content,
         Head(todo) = Assign(h, v), Tail(todo) # <<>>, Head(Tail(todo)) = Call("write", h)
  PROVE  Kept' /\ Used' = Used /\ DOMAIN cached' = DOMAIN cached /\ Store!Next
<1>1. /\ cached' = [cached EXCEPT ![h].data = v] /\ UNCHANGED <<file, free, end, lru>>
      /\ todo' = Tail(todo) /\ Head(todo).call = "assign"
  BY DEF Go, Assign
<1>2. Unmarked(h)'  BY <1>1 DEF Unmarked
<1>3. h \in Used  BY DEF CacheInv, ListInv
<1>4. /\ SpaceInv' /\ ListInv' /\ RestInv' /\ SyncInv' /\ Used' = Used
      /\ DOMAIN cached' = DOMAIN cached
      /\ h \in DOMAIN Held /\ Held' = [Held EXCEPT ![h] = v]
  BY <1>1, <1>2, <1>3, Changes
<1> QED  BY <1>3, <1>4, PutStep DEF Kept

LEMMA GoCopy ==
  ASSUME CacheInv, Go, NEW s \in DOMAIN cached, NEW d \in DOMAIN cached,
         todo = <<Copy(s, d), Call("write", s), Call("write", d)>>
  PROVE  Kept' /\ Used' = Used /\ DOMAIN cached' = DOMAIN cached /\ Store!Next
<1> DEFINE v == cached[s].data
<1>1. /\ cached' = [cached EXCEPT ![d].data = v] /\ UNCHANGED <<file, free, end, lru>>
      /\ todo' = <<Call("write", s), Call("write", d)>> /\ Head(todo).call = "copy"
  BY DEF Go, Copy
<1>2. Unmarked(d)'  BY <1>1 DEF Unmarked, Call
<1>3. v \in Content /\ d \in Used  BY DEF CacheInv, ListInv, Entry
<1> HIDE DEF v
<1>4. /\ SpaceInv' /\ ListInv' /\ RestInv' /\ SyncInv' /\ Used' = Used
      /\ DOMAIN cached' = DOMAIN cached
      /\ d \in DOMAIN Held /\ Held' = [Held EXCEPT ![d] = v]
  BY <1>1, <1>2, <1>3, Changes
<1> QED  BY <1>3, <1>4, PutStep DEF Kept

LEMMA GoStep ==
  ASSUME CacheInv, Go PROVE CacheInv' /\ [Store!Next]_Held
<1>1. isOpen /\ isOpen' /\ todo # <<>> /\ todo' = Tail(todo)  BY GoFacts
<1>2. SUFFICES Kept' /\ TodoInv' /\ [Store!Next]_Held
  BY <1>1 DEF Kept, CacheInv, ClosedInv
<1>3. ASSUME NEW h \in Used, NEW v \in Content, OneBlock(h, v)
      PROVE  Kept' /\ TodoInv' /\ [Store!Next]_Held
  <2>1. CASE todo = <<Call("read", h)>>
    <3>1. Kept' /\ Held' = Held  BY <2>1, GoRead DEF Kept
    <3>2. todo' = <<>>  BY <1>1, <2>1
    <3> QED  BY <3>1, <3>2 DEF TodoInv
  <2>2. CASE todo = <<Call("read", h), Assign(h, v), Call("write", h)>>
    <3>1. Kept' /\ Held' = Held /\ Used' = Used /\ h \in DOMAIN cached'
      BY <2>2, GoRead DEF Kept
    <3>2. todo' = <<Assign(h, v), Call("write", h)>>  BY <1>1, <2>2
    <3> QED  BY <1>1, <3>1, <3>2 DEF TodoInv, OneBlock
  <2>3. CASE h \in DOMAIN cached /\ todo = <<Assign(h, v), Call("write", h)>>
    <3>1. Kept' /\ Used' = Used /\ DOMAIN cached' = DOMAIN cached /\ Store!Next
      BY <2>3, GoAssign
    <3>2. todo' = <<Call("write", h)>>  BY <1>1, <2>3
    <3> QED  BY <1>1, <2>3, <3>1, <3>2 DEF TodoInv, OneBlock
  <2>4. CASE h \in DOMAIN cached /\ todo = <<Call("write", h)>>
    <3>1. Kept' /\ Held' = Held  BY <2>4, GoWrite DEF Kept
    <3>2. todo' = <<>>  BY <1>1, <2>4
    <3> QED  BY <3>1, <3>2 DEF TodoInv
  <2> QED  BY <1>3, <2>1, <2>2, <2>3, <2>4 DEF OneBlock
<1>4. ASSUME NEW s \in Used, NEW d \in Used, TwoBlocks(s, d)
      PROVE  Kept' /\ TodoInv' /\ [Store!Next]_Held
  <2>1. CASE todo = <<Call("read", s), Call("read", d), Copy(s, d), Call("write", s), Call("write", d)>>
    <3>1. Kept' /\ Held' = Held /\ Used' = Used /\ lru' # <<>> /\ Last(lru') = s
      BY <2>1, GoRead DEF Kept
    <3>2. todo' = <<Call("read", d), Copy(s, d), Call("write", s), Call("write", d)>>
      BY <1>1, <2>1
    <3> QED  BY <1>1, <3>1, <3>2 DEF TodoInv, TwoBlocks
  <2>2. CASE /\ lru # <<>> /\ Last(lru) = s
             /\ todo = <<Call("read", d), Copy(s, d), Call("write", s), Call("write", d)>>
    <3>1. Kept' /\ Held' = Held /\ Used' = Used /\ {s, d} \subseteq DOMAIN cached'
      BY <2>2, GoRead DEF Kept
    <3>2. todo' = <<Copy(s, d), Call("write", s), Call("write", d)>>  BY <1>1, <2>2
    <3> QED  BY <1>1, <3>1, <3>2 DEF TodoInv, TwoBlocks
  <2>3. CASE /\ {s, d} \subseteq DOMAIN cached
             /\ todo = <<Copy(s, d), Call("write", s), Call("write", d)>>
    <3>1. Kept' /\ Used' = Used /\ DOMAIN cached' = DOMAIN cached /\ Store!Next
      BY <2>3, GoCopy
    <3>2. todo' = <<Call("write", s), Call("write", d)>>  BY <1>1, <2>3
    <3> QED  BY <1>1, <2>3, <3>1, <3>2 DEF TodoInv, TwoBlocks
  <2>4. CASE {s, d} \subseteq DOMAIN cached /\ todo = <<Call("write", s), Call("write", d)>>
    <3>1. Kept' /\ Used' = Used /\ Held' = Held /\ DOMAIN cached' = DOMAIN cached
      BY <2>4, GoWrite DEF Kept
    <3>2. todo' = <<Call("write", d)>>  BY <1>1, <2>4
    <3> QED  BY <1>1, <2>4, <3>1, <3>2 DEF TodoInv, OneBlock, Content
  <2> QED  BY <1>4, <2>1, <2>2, <2>3, <2>4 DEF TwoBlocks
<1>5. ASSUME NEW h \in Used, NEW o \in Used, NEW v \in Content, h # o, Destroying(h, o, v)
      PROVE  Kept' /\ TodoInv' /\ [Store!Next]_Held
  <2>1. CASE todo = <<Call("read", h), Assign(h, v), Call("write", h),
                      Call("read", o), Call("write", o), Call("free", h)>>
    <3>1. Kept' /\ Held' = Held /\ Used' = Used /\ h \in DOMAIN cached'
      BY <2>1, GoRead DEF Kept
    <3>2. todo' = <<Assign(h, v), Call("write", h),
                    Call("read", o), Call("write", o), Call("free", h)>>
      BY <1>1, <2>1
    <3> QED  BY <1>1, <1>5, <3>1, <3>2 DEF TodoInv, Destroying
  <2>2. CASE /\ h \in DOMAIN cached
             /\ todo = <<Assign(h, v), Call("write", h),
                         Call("read", o), Call("write", o), Call("free", h)>>
    <3>1. Kept' /\ Used' = Used /\ DOMAIN cached' = DOMAIN cached /\ Store!Next
      BY <2>2, GoAssign
    <3>2. todo' = <<Call("write", h), Call("read", o), Call("write", o), Call("free", h)>>
      BY <1>1, <2>2
    <3> QED  BY <1>1, <1>5, <2>2, <3>1, <3>2 DEF TodoInv, Destroying
  <2>3. CASE /\ h \in DOMAIN cached
             /\ todo = <<Call("write", h), Call("read", o), Call("write", o), Call("free", h)>>
    <3>1. Kept' /\ Used' = Used /\ Held' = Held  BY <2>3, GoWrite DEF Kept
    <3>2. todo' = <<Call("read", o), Call("write", o), Call("free", h)>>  BY <1>1, <2>3
    <3> QED  BY <1>1, <1>5, <3>1, <3>2 DEF TodoInv, Destroying
  <2>4. CASE todo = <<Call("read", o), Call("write", o), Call("free", h)>>
    <3>1. Kept' /\ Used' = Used /\ Held' = Held /\ o \in DOMAIN cached'
      BY <2>4, GoRead DEF Kept
    <3>2. todo' = <<Call("write", o), Call("free", h)>>  BY <1>1, <2>4
    <3> QED  BY <1>1, <1>5, <3>1, <3>2 DEF TodoInv, Destroying
  <2>5. CASE o \in DOMAIN cached /\ todo = <<Call("write", o), Call("free", h)>>
    <3>1. Kept' /\ Used' = Used /\ Held' = Held /\ lru' # <<>>
      BY <2>5, GoWrite DEF Kept
    <3>2. todo' = <<Call("free", h)>>  BY <1>1, <2>5
    <3> QED  BY <1>1, <1>5, <3>1, <3>2 DEF TodoInv, Destroying
  <2>6. CASE todo = <<Call("free", h)>>
    <3>1. Kept' /\ h \in DOMAIN Held /\ Held' = [k \in DOMAIN Held \ {h} |-> Held[k]]
      BY <2>6, GoFree DEF Kept
    <3>2. todo' = <<>>  BY <1>1, <2>6
    <3>3. h \in Block  BY CacheAssumption DEF CacheInv, SpaceInv, Used, Block
    <3>4. Store!Next  BY <3>1, <3>3 DEF Store!Next, Store!TakeBack
    <3> QED  BY <3>1, <3>2, <3>4 DEF TodoInv
  <2> QED  BY <1>5, <2>1, <2>2, <2>3, <2>4, <2>5, <2>6 DEF Destroying
<1> QED  BY <1>1, <1>3, <1>4, <1>5 DEF CacheInv, TodoInv

LEMMA CreateStep ==
  ASSUME CacheInv, NEW h \in Block, Create(h) PROVE CacheInv' /\ [Store!Next]_Held
<1>1. /\ Kept' /\ isOpen' /\ isOpen' \in BOOLEAN /\ h \in Used' /\ h \notin DOMAIN Held
      /\ Held' = [k \in DOMAIN Held \cup {h} |-> IF k = h THEN "fresh" ELSE Held[k]]
  BY Creates DEF Kept, Create, CacheInv
<1>2. PICK v \in Values : todo' = <<Call("read", h), Assign(h, v), Call("write", h)>>
  BY DEF Create, Starts
<1>3. TodoInv'  BY <1>1, <1>2 DEF TodoInv, OneBlock, Content
<1>4. Store!Give(h, "fresh")  BY <1>1 DEF Store!Give
<1> QED  BY <1>1, <1>3, <1>4 DEF CacheInv, ClosedInv, Kept, Store!Next

(* The operations that only note what they have to do. *)
LEMMA StartStep ==
  ASSUME CacheInv, isOpen, todo = <<>>, UNCHANGED <<file, free, end, cached, lru, isOpen>>,
         TodoInv'
  PROVE  CacheInv' /\ [Store!Next]_Held
<1>1. /\ TheFile' = TheFile /\ TheFree' = TheFree /\ TheEnd' = TheEnd /\ Used' = Used
      /\ Held' = Held
  BY DEF TheFile, TheFree, TheEnd, Used, Held
<1>2. SpaceInv' /\ ListInv' /\ RestInv'
  BY <1>1 DEF CacheInv, SpaceInv, ListInv, RestInv, InFile
<1>3. \A k \in DOMAIN cached : ~Unmarked(k)  BY DEF Unmarked
<1>4. SyncInv'  BY <1>1, <1>3 DEF CacheInv, SyncInv, InFile
<1> QED  BY <1>1, <1>2, <1>4 DEF CacheInv, ClosedInv

LEMMA InUseIsUsed == ASSUME CacheInv, isOpen PROVE InUse = Used
  BY OpenFacts

LEMMA CacheStep ==
  ASSUME CacheInv, [CacheNext]_storeVars PROVE CacheInv' /\ [Store!Next]_Held
<1>1. CASE Go  BY <1>1, GoStep
<1>2. CASE Close
  BY <1>2, Closes DEF CacheInv, TodoInv
<1>3. CASE Open
  BY <1>3, Opens DEF CacheInv, TodoInv, ClosedInv
<1>4. ASSUME NEW h \in Block, Create(h) PROVE CacheInv' /\ [Store!Next]_Held
  BY <1>4, CreateStep
<1>5. ASSUME NEW h \in Block, Get(h) PROVE CacheInv' /\ [Store!Next]_Held
  <2>1. /\ isOpen /\ todo = <<>> /\ UNCHANGED <<file, free, end, cached, lru, isOpen>>
        /\ h \in InUse /\ todo' = <<Call("read", h)>>
    BY <1>5 DEF Get, Starts
  <2>2. Used' = Used /\ h \in Used
    BY <2>1, InUseIsUsed DEF Used, TheEnd, TheFree
  <2>3. TodoInv'  BY <2>1, <2>2 DEF TodoInv, OneBlock, Content
  <2> QED  BY <2>1, <2>3, StartStep
<1>6. ASSUME NEW h \in Block, NEW v \in Values, Set(h, v) PROVE CacheInv' /\ [Store!Next]_Held
  <2>1. /\ isOpen /\ todo = <<>> /\ UNCHANGED <<file, free, end, cached, lru, isOpen>>
        /\ h \in InUse /\ todo' = <<Call("read", h), Assign(h, v), Call("write", h)>>
    BY <1>6 DEF Set, Starts
  <2>2. Used' = Used /\ h \in Used
    BY <2>1, InUseIsUsed DEF Used, TheEnd, TheFree
  <2>3. TodoInv'  BY <2>1, <2>2 DEF TodoInv, OneBlock, Content
  <2> QED  BY <2>1, <2>3, StartStep
<1>7. ASSUME NEW h \in Block, NEW k \in Block, Move(h, k) PROVE CacheInv' /\ [Store!Next]_Held
  <2>1. /\ isOpen /\ todo = <<>> /\ UNCHANGED <<file, free, end, cached, lru, isOpen>>
        /\ h \in InUse /\ k \in InUse
        /\ todo' = <<Call("read", h), Call("read", k), Copy(h, k), Call("write", h), Call("write", k)>>
    BY <1>7 DEF Move, Starts
  <2>2. Used' = Used /\ h \in Used /\ k \in Used
    BY <2>1, InUseIsUsed DEF Used, TheEnd, TheFree
  <2>3. TodoInv'  BY <2>1, <2>2 DEF TodoInv, TwoBlocks
  <2> QED  BY <2>1, <2>3, StartStep
<1>8. ASSUME NEW h \in Block, NEW k \in Block, h # k, Destroy(h, k)
      PROVE  CacheInv' /\ [Store!Next]_Held
  <2>1. /\ isOpen /\ todo = <<>> /\ UNCHANGED <<file, free, end, cached, lru, isOpen>>
        /\ h \in InUse /\ k \in InUse
        /\ \E v \in Values :
             todo' = <<Call("read", h), Assign(h, v), Call("write", h),
                       Call("read", k), Call("write", k), Call("free", h)>>
    BY <1>8 DEF Destroy, Starts
  <2>2. Used' = Used /\ h \in Used /\ k \in Used
    BY <2>1, InUseIsUsed DEF Used, TheEnd, TheFree
  <2>3. TodoInv'  BY <1>8, <2>1, <2>2 DEF TodoInv, Destroying, Content
  <2> QED  BY <2>1, <2>3, StartStep
<1>9. CASE UNCHANGED storeVars
  <2>1. Held' = Held /\ CacheInv'
    BY <1>9, SMTT(30) DEF storeVars, Held, CacheInv, SpaceInv, ListInv, RestInv, SyncInv, TodoInv,
       ClosedInv, OneBlock, TwoBlocks, Destroying, Unmarked, InFile, TheFile, TheFree, TheEnd, Used
  <2> QED  BY <2>1
<1> QED
  BY <1>1, <1>2, <1>3, <1>4, <1>5, <1>6, <1>7, <1>8, <1>9 DEF CacheNext

LEMMA CacheStart ==
  ASSUME CacheInit PROVE CacheInv /\ Store!Init
<1> USE DEF CacheInit
<1>1. isOpen /\ TheFile = <<>> /\ TheFree = <<>> /\ TheEnd = 0 /\ Used = {}
  BY DEF TheFile, TheFree, TheEnd, Used
<1>2. DOMAIN cached = {}  OBVIOUS
<1>3. SpaceInv  BY <1>1, CacheAssumption DEF SpaceInv, IsInjective, Range
<1>4. ListInv
  <2>1. cached \in [{} -> Entry]  OBVIOUS
  <2> QED  BY <1>1, <1>2, <2>1, CacheAssumption DEF ListInv, IsInjective, Range
<1>5. RestInv /\ SyncInv  BY <1>1, <1>2 DEF RestInv, SyncInv
<1>6. Held = <<>>  BY <1>1, <1>2 DEF Held, Range
<1> QED  BY <1>1, <1>3, <1>4, <1>5, <1>6 DEF CacheInv, TodoInv, ClosedInv, Store!Init

-----------------------------------------------------------------------------
(* The invariant gives the property that is checked. *)
LEMMA SafeFromInv == CacheInv => CacheSafe
<1> SUFFICES ASSUME CacheInv PROVE CacheSafe  OBVIOUS
<1>1. PointersValid
  <2> SUFFICES ASSUME todo # <<>>
               PROVE  /\ Head(todo).call \in {"assign", "copy", "write"} =>
                           Head(todo).block \in DOMAIN cached
                      /\ Head(todo).call = "copy" => Head(todo).source \in DOMAIN cached
                      /\ Head(todo).call = "free" => lru # <<>>
    BY DEF PointersValid
  <2>1. ASSUME NEW h \in Used, NEW v \in Content, OneBlock(h, v)
        PROVE  /\ Head(todo).call \in {"assign", "write"} => Head(todo).block \in DOMAIN cached
               /\ Head(todo).call \in {"read", "assign", "write"}
    BY <2>1 DEF OneBlock, Call, Assign
  <2>2. ASSUME NEW s \in Used, NEW d \in Used, TwoBlocks(s, d)
        PROVE  /\ Head(todo).call \in {"copy", "write"} => Head(todo).block \in DOMAIN cached
               /\ Head(todo).call = "copy" => Head(todo).source \in DOMAIN cached
               /\ Head(todo).call \in {"read", "copy", "write"}
    BY <2>2 DEF TwoBlocks, Call, Copy
  <2>3. ASSUME NEW h \in Used, NEW o \in Used, NEW v \in Content, Destroying(h, o, v)
        PROVE  /\ Head(todo).call \in {"assign", "write"} => Head(todo).block \in DOMAIN cached
               /\ Head(todo).call = "free" => lru # <<>>
               /\ Head(todo).call \in {"read", "assign", "write", "free"}
    BY <2>3 DEF Destroying, Call, Assign
  <2>4. \/ \E h \in Used, v \in Content : OneBlock(h, v)
        \/ \E s, d \in Used : TwoBlocks(s, d)
        \/ \E h, o \in Used, v \in Content : Destroying(h, o, v)
    BY DEF CacheInv, TodoInv
  <2> QED  BY <2>1, <2>2, <2>3, <2>4
<1>2. ListAndMapAgree
  <2>1. CASE isOpen
    BY <2>1, InUseIsUsed DEF CacheInv, ListInv, ListAndMapAgree
  <2>2. CASE ~isOpen
    <3>1. DOMAIN cached = {}  BY <2>2 DEF CacheInv, ClosedInv
    <3> QED  BY <3>1 DEF CacheInv, ListInv, ListAndMapAgree
  <2> QED  BY <2>1, <2>2
<1>3. FileHoldsRest
  <2>1. CASE isOpen
    <3>1. TheFile = file /\ TheFree = free /\ TheEnd = end /\ InUse = Used
      BY <2>1, OpenFacts
    <3>2. "hole" \notin Content  BY CacheAssumption DEF Content
    <3>3. \A h : Unmarked(h) => Call("write", h) \in Range(todo)
      <4> SUFFICES ASSUME NEW h, Unmarked(h) PROVE \E i \in DOMAIN todo : todo[i] = Call("write", h)
        BY DEF Range
      <4> DEFINE InOrder ==
            /\ 1 \in DOMAIN todo /\ todo[1] = Head(todo)
            /\ Tail(todo) # <<>> => 2 \in DOMAIN todo /\ todo[2] = Head(Tail(todo))
      <4>1. todo # <<>>  BY DEF Unmarked
      <4>6. ASSUME NEW c, todo = <<c>> PROVE InOrder
        <5>1. Tail(todo) = <<>>  BY <4>6
        <5> QED  BY <4>6, <5>1
      <4>7. ASSUME NEW c, NEW d, todo = <<c, d>> PROVE InOrder  BY <4>7
      <4>8. ASSUME NEW c, NEW d, NEW e, todo = <<c, d, e>> PROVE InOrder  BY <4>8
      <4>9. ASSUME NEW c, NEW d, NEW e, NEW f, todo = <<c, d, e, f>> PROVE InOrder  BY <4>9
      <4>10. ASSUME NEW c, NEW d, NEW e, NEW f, NEW g, todo = <<c, d, e, f, g>>
             PROVE  InOrder
        BY <4>10
      <4>11. ASSUME NEW c, NEW d, NEW e, NEW f, NEW g, NEW k, todo = <<c, d, e, f, g, k>>
             PROVE  InOrder
        BY <4>11
      <4> HIDE DEF InOrder
      <4>2. ASSUME NEW b \in Used, NEW v \in Content, OneBlock(b, v) PROVE InOrder
        BY <4>2, <4>6, <4>7, <4>8 DEF OneBlock
      <4>3. ASSUME NEW s \in Used, NEW d \in Used, TwoBlocks(s, d) PROVE InOrder
        BY <4>3, <4>6, <4>7, <4>8, <4>9, <4>10 DEF TwoBlocks
      <4>4. ASSUME NEW b \in Used, NEW o \in Used, NEW v \in Content, Destroying(b, o, v)
            PROVE  InOrder
        BY <4>4, <4>6, <4>7, <4>8, <4>9, <4>10, <4>11 DEF Destroying
      <4>5. InOrder  BY <4>1, <4>2, <4>3, <4>4 DEF CacheInv, TodoInv
      <4> QED  BY <4>5 DEF Unmarked, InOrder
    <3>4. IsInjective(free) /\ Range(free) \subseteq 0 .. end - 1 /\ Len(file) <= end
      BY <3>1 DEF CacheInv, SpaceInv, RestInv
    <3>5. \A h \in InUse \ DOMAIN cached : h < Len(file) /\ file[h + 1] # "hole"
      BY <3>1, <3>2 DEF CacheInv, RestInv, InFile
    <3>6. ASSUME NEW h \in DOMAIN cached
          PROVE  \/ cached[h].dirty \/ Call("write", h) \in Range(todo)
                 \/ cached[h].data = file[h + 1]
      BY <3>1, <3>3 DEF CacheInv, SyncInv
    <3> QED  BY <2>1, <3>4, <3>5, <3>6 DEF FileHoldsRest
  <2>2. CASE ~isOpen  BY <2>2 DEF FileHoldsRest, CacheInv, ClosedInv
  <2> QED  BY <2>1, <2>2
<1> QED  BY <1>1, <1>2, <1>3 DEF CacheSafe

-----------------------------------------------------------------------------
(* The theorems. *)

(* The invariant holds always. *)
THEOREM CacheInvariant == CacheSpec => []CacheInv
<1>1. CacheInit => CacheInv  BY CacheStart
<1>2. CacheInv /\ [CacheNext]_storeVars => CacheInv'  BY CacheStep
<1> QED  BY <1>1, <1>2, PTL DEF CacheSpec

(* However large the cache and the file and whatever is put into them, every *)
(* pointer into the cache that an operation of external_store uses is valid, *)
(* list and map agree, and what is not in the cache or not marked as dirty   *)
(* is in the file.                                                           *)
THEOREM CacheIsSafe == CacheSpec => []CacheSafe
BY CacheInvariant, SafeFromInv, PTL

(* The cache in front of the file, which may be closed and opened again, is  *)
(* a plain store of blocks: nothing is lost, undone or mixed up.             *)
THEOREM CacheIsStore == CacheSpec => CacheImplementsStore
<1>1. CacheInit => Store!Init  BY CacheStart
<1>2. CacheInv /\ [CacheNext]_storeVars => [Store!Next]_Held  BY CacheStep
<1> QED  BY <1>1, <1>2, CacheInvariant, PTL DEF CacheSpec, CacheImplementsStore, Store!Spec
=============================================================================
