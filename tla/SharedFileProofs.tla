-------------------------- MODULE SharedFileProofs --------------------------
(***************************************************************************)
(* Proofs about SharedFile, for a client that makes none of LooseCalls: the *)
(* streams of a file agree on its blocks and are given what the file has    *)
(* (FileSafe), and what they do together is what SharedItems promises.      *)
(***************************************************************************)
EXTENDS SharedFile, FiniteSetTheorems, SequenceTheorems, WellFoundedInduction, TLAPS

(* The arithmetic of offsets. *)

LEMMA OffsetParts ==
  ASSUME NEW n \in Nat
  PROVE  /\ BlockAt(n) \in Nat /\ IndexOf(n) \in 0 .. FileBlock - 1
         /\ n = BlockStart(BlockAt(n)) + IndexOf(n)
BY SharedFileAssumption DEF BlockStart, BlockAt, IndexOf

LEMMA PartsOffset ==
  ASSUME NEW b \in Nat, NEW i \in 0 .. FileBlock - 1
  PROVE  BlockAt(BlockStart(b) + i) = b /\ IndexOf(BlockStart(b) + i) = i
BY SharedFileAssumption DEF BlockStart, BlockAt, IndexOf

LEMMA BlocksInOrder ==
  ASSUME NEW b \in Nat, NEW c \in Nat, b < c
  PROVE  BlockStart(b) + FileBlock <= BlockStart(c)
BY SharedFileAssumption DEF BlockStart

LEMMA BlockStarts ==
  ASSUME NEW b \in Nat
  PROVE  /\ BlockStart(b) \in Nat /\ b <= BlockStart(b) /\ BlockStart(0) = 0
         /\ BlockStart(b + 1) = BlockStart(b) + FileBlock
BY SharedFileAssumption DEF BlockStart

(* Numbers of the machine that are not too great. *)
LEMMA Words ==
  /\ FileBlock \in Nat /\ FileBlock > 0 /\ MaxFileSize \in Nat
  /\ Huge \in Nat /\ Huge > 2 * (MaxFileSize + FileBlock)
  /\ \A m \in Nat : m <= Huge => m % Word = m
  /\ \A m \in -FileBlock .. -1 : (m + Huge) % Word = m + Huge
  /\ \A m \in 1 .. FileBlock : (m + Huge) % Word = m - 1
<1>1. FileBlock \in Nat /\ FileBlock > 0 /\ MaxFileSize \in Nat /\ Word \in Nat
      /\ Word > 2 * (MaxFileSize + FileBlock + 1)
  BY SharedFileAssumption
<1>2. \A m \in Nat : m < Word => m % Word = m  BY <1>1
<1>3. \A m \in 1 .. FileBlock : (m - 1 + Word) % Word = m - 1
  BY <1>1
<1> QED  BY <1>1, <1>2, <1>3 DEF Huge

-----------------------------------------------------------------------------
(* The states of a file. *)

Datum == FileItems \cup {"garbage"}

Disks == [header : BOOLEAN, clean : BOOLEAN, size : 0 .. MaxFileSize, items : Seq(Datum)]

Places == [attached : BOOLEAN, block : Nat, start : Nat, index : Nat,
           nextBlock : Nat, nextIndex : Nat]

Buffers == [items : Seq(FileItems), usage : Nat, dirty : BOOLEAN]

Tables == UNION {[B -> Buffers] : B \in SUBSET (0 .. MaxFileSize)}

Files == [disk : Disks, mode : {"closed", "read", "read_write"},
          size : 0 .. MaxFileSize, stored : 0 .. MaxFileSize, used : Tables,
          free : Int, value : Seq(Datum), streams : [FileStreams -> Places]]

UsersOf(q, b) == {s \in FileStreams : q.streams[s].block = b}

Members(q) == {s \in FileStreams : q.streams[s].attached}

(* A stream is in a block, which it has, or about to go to one. *)
Placed(q, st) ==
  /\ st.nextBlock = Huge /\ st.nextIndex = Huge /\ st.block # Huge
  /\ st.index \in 0 .. FileBlock /\ st.start + st.index <= q.size

Pending(q, st) ==
  /\ st.index = Huge /\ st.nextBlock \in 0 .. MaxFileSize
  /\ st.nextIndex \in 0 .. FileBlock - 1
  /\ BlockStart(st.nextBlock) + st.nextIndex <= q.size

PlaceOK(q, st) ==
  /\ Placed(q, st) \/ Pending(q, st)
  /\ st.block # Huge => st.block \in DOMAIN q.used /\ st.start = BlockStart(st.block)

StreamsOK(q) ==
  \A s \in FileStreams : IF q.streams[s].attached THEN PlaceOK(q, q.streams[s])
                         ELSE q.streams[s] = Unattached

(* A block in use has its items and its users; a block that is not dirty is  *)
(* as on the disk.                                                           *)
BlockOK(q, b) ==
  /\ BlockStart(b) <= q.size
  /\ q.used[b].usage = Cardinality(UsersOf(q, b)) /\ UsersOf(q, b) # {}
  /\ Len(q.used[b].items) = Smaller(FileBlock, q.size - BlockStart(b))
  /\ ~q.used[b].dirty =>
       \A i \in 1 .. Len(q.used[b].items) :
         BlockStart(b) + i <= q.stored /\ q.used[b].items[i] = q.disk.items[BlockStart(b) + i]
  /\ q.used[b].dirty => q.mode = "read_write"

BlocksOK(q) == \A b \in DOMAIN q.used : BlockOK(q, b)

(* What is not in use is on the disk. *)
RestOnDisk(q) ==
  \A n \in 0 .. q.size - 1 :
    BlockAt(n) \in DOMAIN q.used \/ (n < q.stored /\ q.disk.items[n + 1] \in FileItems)

(* The disk of a file that is open, closed or lost. *)
DiskOK(q) ==
  /\ q.stored <= q.size
  /\ q.disk.header /\ q.disk.clean =>
       Len(q.disk.items) = q.disk.size /\ q.disk.items \in Seq(FileItems)
  /\ ~q.disk.header => q.disk = NoFile
  /\ IF q.mode = "closed"
     THEN q.size = 0 /\ q.stored = 0 /\ Members(q) = {}
     ELSE Len(q.disk.items) = q.stored /\ q.disk.header /\ (q.disk.clean <=> q.mode = "read")
  /\ q.mode = "read" => q.stored = q.size /\ q.disk.size = q.size

BuffersOK(q) == q.free + Cardinality(DOMAIN q.used) = Cardinality(Members(q))

FileInv(q) ==
  /\ q \in Files /\ StreamsOK(q) /\ BlocksOK(q) /\ RestOnDisk(q) /\ DiskOK(q)
  /\ BuffersOK(q)

(* The parts of a state. *)
LEMMA Fields ==
  ASSUME NEW q, q \in Files
  PROVE  /\ DOMAIN q.used \subseteq 0 .. MaxFileSize /\ IsFiniteSet(DOMAIN q.used)
         /\ q.used \in [DOMAIN q.used -> Buffers]
         /\ \A b \in DOMAIN q.used : /\ q.used[b] \in Buffers /\ q.used[b].items \in Seq(FileItems)
                                     /\ q.used[b].usage \in Nat /\ q.used[b].dirty \in BOOLEAN
         /\ q.disk \in Disks /\ q.disk.items \in Seq(Datum) /\ Len(q.disk.items) \in Nat
         /\ q.size \in 0 .. MaxFileSize /\ q.stored \in 0 .. MaxFileSize /\ q.free \in Int
         /\ q.streams \in [FileStreams -> Places] /\ q.value \in Seq(Datum)
<1>1. PICK B \in SUBSET (0 .. MaxFileSize) : q.used \in [B -> Buffers]
  BY DEF Files, Tables
<1>2. DOMAIN q.used = B  BY <1>1
<1>3. IsFiniteSet(0 .. MaxFileSize)  BY FS_Interval, Words
<1>4. IsFiniteSet(B)  BY <1>3, FS_Subset
<1> QED  BY <1>1, <1>2, <1>4 DEF Files, Buffers, Disks

LEMMA Parts ==
  ASSUME NEW S, NEW seq \in Seq(S), NEW m \in Nat, NEW n \in 0 .. Len(seq)
  PROVE  /\ SubSeq(seq, m + 1, n) \in Seq(S)
         /\ Len(SubSeq(seq, m + 1, n)) = IF m <= n THEN n - m ELSE 0
         /\ \A i \in 1 .. n - m : SubSeq(seq, m + 1, n)[i] = seq[m + i]
<1>0. Len(seq) \in Nat  BY LenProperties
<1>1. n \in Int /\ m + 1 \in Int /\ n \in Nat  BY <1>0
<1>2. \A i \in m + 1 .. n : seq[i] \in S
  <2>1. \A i \in m + 1 .. n : i \in 1 .. Len(seq)  BY <1>0
  <2> QED  BY <2>1, ElementOfSeq
<1>3. /\ SubSeq(seq, m + 1, n) \in Seq(S)
      /\ Len(SubSeq(seq, m + 1, n)) = IF m + 1 <= n THEN n - (m + 1) + 1 ELSE 0
      /\ \A i \in 1 .. n - (m + 1) + 1 : SubSeq(seq, m + 1, n)[i] = seq[m + 1 + i - 1]
  BY <1>1, <1>2, SubSeqProperties
<1>4. n - (m + 1) + 1 = n - m /\ 1 .. n - (m + 1) + 1 = 1 .. n - m  BY <1>1
<1>5. \A i \in 1 .. n - m : m + 1 + i - 1 = m + i  BY <1>1
<1>6. (m + 1 <= n) \/ (m = n) \/ ~(m <= n)  BY <1>1
<1> QED  BY <1>0, <1>1, <1>3, <1>4, <1>5, <1>6

(* The item at an offset, in a buffer or on the disk. *)
ItemAt(q, n) ==
  LET b == BlockAt(n)
      items == IF b \in DOMAIN q.used THEN q.used[b].items
               ELSE SubSeq(q.disk.items, BlockStart(b) + 1, Len(q.disk.items))
  IN  IF IndexOf(n) < Len(items) THEN items[IndexOf(n) + 1] ELSE "garbage"

Stored(q, n) == IF BlockAt(n) \in DOMAIN q.used THEN q.used[BlockAt(n)].items[IndexOf(n) + 1]
                ELSE q.disk.items[n + 1]

LEMMA ItemsAreStored ==
  ASSUME NEW q, FileInv(q), NEW n \in 0 .. q.size - 1
  PROVE  ItemAt(q, n) = Stored(q, n) /\ ItemAt(q, n) \in FileItems
<1> DEFINE b == BlockAt(n)
           i == IndexOf(n)
<1>1. q \in Files /\ q.mode # "closed"  BY Words DEF FileInv, DiskOK, Files
<1>2. n \in Nat  BY <1>1, Fields
<1>3. b \in Nat /\ i \in 0 .. FileBlock - 1 /\ n = BlockStart(b) + i /\ BlockStart(b) \in Nat
  BY <1>2, OffsetParts, BlockStarts
<1>4. CASE b \in DOMAIN q.used
  <2>1. Len(q.used[b].items) = Smaller(FileBlock, q.size - BlockStart(b))
    BY <1>4 DEF FileInv, BlocksOK, BlockOK
  <2>2. i < Len(q.used[b].items)  BY <1>1, <1>3, <2>1, Words, Fields DEF Smaller
  <2>3. q.used[b].items \in Seq(FileItems)  BY <1>1, <1>4, Fields
  <2>4. q.used[b].items[i + 1] \in FileItems  BY <1>3, <2>2, <2>3, ElementOfSeq
  <2> QED  BY <1>4, <2>2, <2>4 DEF ItemAt, Stored
<1>5. CASE b \notin DOMAIN q.used
  <2>1. n < q.stored /\ q.disk.items[n + 1] \in FileItems  BY <1>5 DEF FileInv, RestOnDisk
  <2>2. Len(q.disk.items) = q.stored  BY <1>1 DEF FileInv, DiskOK
  <2> DEFINE rest == SubSeq(q.disk.items, BlockStart(b) + 1, Len(q.disk.items))
             from == BlockStart(b)
  <2> HIDE DEF b, i, from
  <2>3. q.disk.items \in Seq(Datum) /\ from \in Nat /\ from <= n /\ n + 1 = from + (i + 1)
        /\ q.stored \in Nat /\ q.stored \in 0 .. q.stored
    BY <1>1, <1>3, <2>1, Fields, Words DEF from
  <2>4. /\ Len(rest) = q.stored - from
        /\ \A k \in 1 .. q.stored - from : rest[k] = q.disk.items[from + k]
    <3>1. from <= q.stored  BY <1>2, <2>1, <2>3
    <3> DEFINE disk == q.disk.items
               last == q.stored
    <3> HIDE DEF disk, last
    <3>2. disk \in Seq(Datum) /\ from \in Nat /\ last \in 0 .. Len(disk) /\ from <= last
      BY <2>2, <2>3, <3>1 DEF disk, last
    <3>3. /\ Len(SubSeq(disk, from + 1, last)) = last - from
          /\ \A k \in 1 .. last - from : SubSeq(disk, from + 1, last)[k] = disk[from + k]
      BY <3>2, Parts
    <3> QED  BY <2>2, <3>3 DEF from, disk, last
  <2> HIDE DEF rest
  <2>5. i < Len(rest) /\ i + 1 \in 1 .. q.stored - from
    <3> DEFINE last == q.stored
    <3>1. /\ i \in Nat /\ from \in Nat /\ last \in Nat /\ n \in Nat /\ n < last
          /\ n + 1 = from + (i + 1)
      BY <1>2, <1>3, <2>1, <2>3, Words
    <3> HIDE DEF last
    <3>2. i < last - from /\ i + 1 \in 1 .. last - from  BY <3>1
    <3> QED  BY <2>4, <3>2 DEF last
  <2>6. rest[i + 1] = q.disk.items[from + (i + 1)]  BY <2>4, <2>5
  <2> QED  BY <1>5, <2>1, <2>3, <2>5, <2>6 DEF ItemAt, Stored, b, i, rest
<1> QED  BY <1>4, <1>5

-----------------------------------------------------------------------------
(* What a call of a stream leaves as it is: the items and the other streams. *)

(* A block in use. *)
LEMMA UsedBlock ==
  ASSUME NEW q, FileInv(q), NEW c \in DOMAIN q.used
  PROVE  /\ c \in 0 .. MaxFileSize /\ c \in Nat /\ c # Huge /\ BlockStart(c) \in Nat
         /\ BlockStart(c) <= q.size /\ BlockOK(q, c) /\ q.used[c].items \in Seq(FileItems)
         /\ Len(q.used[c].items) \in 0 .. FileBlock
         /\ Len(q.used[c].items) = Smaller(FileBlock, q.size - BlockStart(c))
<1> DEFINE l == Len(q.used[c].items)
           k == BlockStart(c)
<1>1. q \in Files /\ BlockOK(q, c)  BY DEF FileInv, BlocksOK
<1>2. c \in 0 .. MaxFileSize /\ q.used[c].items \in Seq(FileItems) /\ q.size \in Nat
  BY <1>1, Fields, Words
<1>3. k \in Nat /\ c # Huge /\ c \in Nat  BY <1>2, BlockStarts, Words
<1>4. l \in Nat  BY <1>2, LenProperties
<1>5. k <= q.size /\ l = Smaller(FileBlock, q.size - k)  BY <1>1 DEF BlockOK
<1> HIDE DEF l, k
<1>6. l <= FileBlock  BY <1>2, <1>3, <1>4, <1>5, Words DEF Smaller
<1>7. l \in 0 .. FileBlock  BY <1>4, <1>6, Words
<1> QED  BY <1>1, <1>2, <1>3, <1>5, <1>7 DEF l, k

Kept(q, p, s) ==
  /\ FileInv(p)
  /\ p.mode = q.mode /\ p.size = q.size /\ p.disk.header = q.disk.header
  /\ p.disk.clean = q.disk.clean /\ p.disk.size = q.disk.size
  /\ \A t \in FileStreams \ {s} : p.streams[t] = q.streams[t]
  /\ \A n \in 0 .. q.size - 1 : ItemAt(p, n) = ItemAt(q, n)

LEMMA KeptByBoth ==
  ASSUME NEW q, NEW p, NEW r, NEW s \in FileStreams, Kept(q, p, s), Kept(p, r, s)
  PROVE  Kept(q, r, s)
BY DEF Kept

LEMMA KeptByNone ==
  ASSUME NEW q, NEW s \in FileStreams, FileInv(q), q.streams[s].attached
  PROVE  Kept(q, q, s)
BY DEF Kept

(* A stream that stays in its block, or without one. *)
LEMMA StreamMoves ==
  ASSUME NEW q, FileInv(q), NEW s \in FileStreams, q.streams[s].attached,
         NEW X \in Places, X.attached, X.block = q.streams[s].block, PlaceOK(q, X)
  PROVE  Kept(q, [q EXCEPT !.streams[s] = X], s)
<1> DEFINE p == [q EXCEPT !.streams[s] = X]
<1>1. q \in Files  BY DEF FileInv
<1>2. /\ p \in Files /\ p.streams = [q.streams EXCEPT ![s] = X]
      /\ p.disk = q.disk /\ p.mode = q.mode /\ p.size = q.size /\ p.stored = q.stored
      /\ p.used = q.used /\ p.free = q.free
  BY <1>1 DEF Files
<1>3. q.streams \in [FileStreams -> Places]  BY <1>1, Fields
<1> HIDE DEF p
<1>4. /\ p.streams[s] = X
      /\ \A t \in FileStreams \ {s} : p.streams[t] = q.streams[t]
  BY <1>2, <1>3
<1>5. \A b : UsersOf(p, b) = UsersOf(q, b)  BY <1>4 DEF UsersOf
<1>6. Members(p) = Members(q)  BY <1>4 DEF Members
<1>7. StreamsOK(p)
  <2>1. \A Y : PlaceOK(q, Y) => PlaceOK(p, Y)  BY <1>2 DEF PlaceOK, Placed, Pending
  <2> QED  BY <1>4, <2>1 DEF StreamsOK, FileInv
<1>8. BlocksOK(p)  BY <1>2, <1>5 DEF FileInv, BlocksOK, BlockOK
<1>9. RestOnDisk(p) /\ DiskOK(p) /\ BuffersOK(p)
  BY <1>2, <1>6 DEF FileInv, RestOnDisk, DiskOK, BuffersOK
<1>10. \A n \in 0 .. q.size - 1 : ItemAt(p, n) = ItemAt(q, n)  BY <1>2 DEF ItemAt
<1> QED  BY <1>2, <1>4, <1>7, <1>8, <1>9, <1>10 DEF Kept, FileInv, p

(* The place of an attached stream. *)
LEMMA Place ==
  ASSUME NEW q, FileInv(q), NEW s \in FileStreams, q.streams[s].attached
  PROVE  /\ q.streams[s] \in Places /\ PlaceOK(q, q.streams[s]) /\ q.mode # "closed"
         /\ q.size \in Nat /\ q.size <= MaxFileSize
BY Fields, Words DEF FileInv, StreamsOK, DiskOK, Members

(* Its offset is within the file. *)
LEMMA Offsets ==
  ASSUME NEW q, FileInv(q), NEW s \in FileStreams, q.streams[s].attached
  PROVE  LET st == q.streams[s]
         IN  /\ OffsetIn(q, s) \in 0 .. q.size
             /\ Placed(q, st) => OffsetIn(q, s) = st.start + st.index
             /\ Pending(q, st) => OffsetIn(q, s) = BlockStart(st.nextBlock) + st.nextIndex
                                  /\ st.nextBlock # Huge
<1> DEFINE st == q.streams[s]
<1>1. st \in Places /\ PlaceOK(q, st) /\ q.size \in Nat /\ q.size <= MaxFileSize  BY Place
<1>2. CASE Placed(q, st)
  <2>1. st.start + st.index \in 0 .. q.size /\ st.index + st.start = st.start + st.index
        /\ st.nextBlock = Huge
    BY <1>1, <1>2, Words DEF Placed, Places
  <2>2. st.start + st.index <= Huge  BY <1>1, <2>1, Words
  <2>3. OffsetIn(q, s) = st.start + st.index  BY <2>1, <2>2, Words DEF OffsetIn
  <2> QED  BY <1>2, <2>1, <2>3, Words DEF Pending
<1>3. CASE Pending(q, st)
  <2>1. st.nextBlock # Huge /\ BlockStart(st.nextBlock) \in Nat
    BY <1>1, <1>3, Words, BlockStarts DEF Pending, Places
  <2>2. OffsetIn(q, s) = BlockStart(st.nextBlock) + st.nextIndex
    BY <1>1, <2>1 DEF OffsetIn, Places
  <2> QED  BY <1>1, <1>3, <2>1, <2>2, Words DEF Pending, Places, Placed
<1> QED  BY <1>1, <1>2, <1>3 DEF PlaceOK

-----------------------------------------------------------------------------
(* A block is given up, or got. *)

Put(f, x, y) == [f EXCEPT ![x] = y]

(* A stream has another place. *)
Moves(q, p, s, X) ==
  /\ q.streams \in [FileStreams -> Places] /\ X \in Places
  /\ p.streams = Put(q.streams, s, X)

(* What becomes of the users of the blocks. *)
UsersMoved(q, p, s, X) ==
  /\ p.streams[s] = X
  /\ \A t \in FileStreams \ {s} : p.streams[t] = q.streams[t]
  /\ \A b : UsersOf(p, b) = IF b = X.block THEN UsersOf(q, b) \cup {s}
                            ELSE UsersOf(q, b) \ {s}
  /\ \A b : IsFiniteSet(UsersOf(q, b)) /\ Cardinality(UsersOf(q, b)) \in Nat
  /\ \A b : s \in UsersOf(q, b) =>
       Cardinality(UsersOf(q, b) \ {s}) = Cardinality(UsersOf(q, b)) - 1
  /\ \A b : s \notin UsersOf(q, b) =>
       Cardinality(UsersOf(q, b) \cup {s}) = Cardinality(UsersOf(q, b)) + 1

LEMMA UsersMove ==
  ASSUME NEW q, NEW p, NEW s \in FileStreams, NEW X, Moves(q, p, s, X)
  PROVE  UsersMoved(q, p, s, X)
<1>1. /\ p.streams[s] = X
      /\ \A t \in FileStreams \ {s} : p.streams[t] = q.streams[t]
  BY DEF Moves, Put
<1>2. \A b : UsersOf(p, b) = IF b = X.block THEN UsersOf(q, b) \cup {s}
                             ELSE UsersOf(q, b) \ {s}
  BY <1>1 DEF UsersOf
<1>3. ASSUME NEW b
      PROVE  /\ IsFiniteSet(UsersOf(q, b)) /\ Cardinality(UsersOf(q, b)) \in Nat
             /\ s \in UsersOf(q, b) =>
                  Cardinality(UsersOf(q, b) \ {s}) = Cardinality(UsersOf(q, b)) - 1
             /\ s \notin UsersOf(q, b) =>
                  Cardinality(UsersOf(q, b) \cup {s}) = Cardinality(UsersOf(q, b)) + 1
  <2> DEFINE U == UsersOf(q, b)
  <2>1. U \subseteq FileStreams  BY DEF UsersOf
  <2> HIDE DEF U
  <2>2. IsFiniteSet(U)  BY <2>1, FS_Subset, SharedFileAssumption
  <2>3. Cardinality(U) \in Nat  BY <2>2, FS_CardinalityType
  <2>4. s \in U => Cardinality(U \ {s}) = Cardinality(U) - 1  BY <2>2, FS_RemoveElement
  <2>5. s \notin U => Cardinality(U \cup {s}) = Cardinality(U) + 1  BY <2>2, FS_AddElement
  <2> QED  BY <2>2, <2>3, <2>4, <2>5 DEF U
<1> QED  BY <1>1, <1>2, <1>3 DEF UsersMoved

LEMMA MembersMove ==
  ASSUME NEW q, NEW p, NEW s \in FileStreams, NEW X, Moves(q, p, s, X)
  PROVE  /\ Cardinality(Members(q)) \in Nat
         /\ q.streams[s].attached =>
              Cardinality(Members(p)) = Cardinality(Members(q)) - IF X.attached THEN 0 ELSE 1
         /\ ~q.streams[s].attached =>
              Cardinality(Members(p)) = Cardinality(Members(q)) + IF X.attached THEN 1 ELSE 0
<1> DEFINE M == Members(q)
<1>1. M \subseteq FileStreams /\ (s \in M <=> q.streams[s].attached)  BY DEF Members
<1>2. Members(p) = IF X.attached THEN M \cup {s} ELSE M \ {s}
  <2>1. /\ p.streams[s] = X
        /\ \A t \in FileStreams \ {s} : p.streams[t] = q.streams[t]
    BY DEF Moves, Put
  <2> QED  BY <2>1 DEF Members
<1> HIDE DEF M
<1>3. IsFiniteSet(M) /\ Cardinality(M) \in Nat
  BY <1>1, FS_Subset, FS_CardinalityType, SharedFileAssumption
<1>4. s \in M => Cardinality(M \ {s}) = Cardinality(M) - 1 /\ Cardinality(M \cup {s}) = Cardinality(M)
  <2>1. s \in M => M \cup {s} = M  OBVIOUS
  <2>2. s \in M => Cardinality(M \ {s}) = Cardinality(M) - 1  BY <1>3, FS_RemoveElement
  <2> QED  BY <2>1, <2>2
<1>5. s \notin M => Cardinality(M \cup {s}) = Cardinality(M) + 1 /\ Cardinality(M \ {s}) = Cardinality(M)
  <2>1. s \notin M => M \ {s} = M  OBVIOUS
  <2>2. s \notin M => Cardinality(M \cup {s}) = Cardinality(M) + 1  BY <1>3, FS_AddElement
  <2> QED  BY <2>1, <2>2
<1>6. X.attached \in BOOLEAN  BY DEF Places, Moves
<1>7. /\ Cardinality(M) \in Nat
      /\ q.streams[s].attached =>
           Cardinality(Members(p)) = Cardinality(M) - IF X.attached THEN 0 ELSE 1
      /\ ~q.streams[s].attached =>
           Cardinality(Members(p)) = Cardinality(M) + IF X.attached THEN 1 ELSE 0
  <2>1. CASE X.attached  BY <1>1, <1>2, <1>3, <1>4, <1>5, <2>1
  <2>2. CASE ~X.attached  BY <1>1, <1>2, <1>3, <1>4, <1>5, <2>2
  <2> QED  BY <2>1, <2>2
<1> QED  BY <1>7 DEF M

(* A stream that leaves its block goes to another one, or is detached. *)
Elsewhere(q, X) ==
  /\ X \in Places /\ X.block = Huge
  /\ X.attached => Pending(q, X)
  /\ ~X.attached => X = Unattached

Freed(X) == IF X.attached THEN 0 ELSE 1

(* A block that has other users. *)
SharedLeft(q, p, s, b, X) ==
  /\ p \in Files /\ p.streams = Put(q.streams, s, X)
  /\ p.disk = q.disk /\ p.mode = q.mode /\ p.size = q.size /\ p.stored = q.stored
  /\ p.free = q.free - Freed(X)
  /\ DOMAIN p.used = DOMAIN q.used
  /\ \A c \in DOMAIN q.used : /\ p.used[c].items = q.used[c].items
                              /\ p.used[c].dirty = q.used[c].dirty
                              /\ p.used[c].usage = q.used[c].usage - IF c = b THEN 1 ELSE 0

LEMMA SharedBlockLeft ==
  ASSUME NEW q, FileInv(q), NEW s \in FileStreams, q.streams[s].attached,
         NEW b, b = q.streams[s].block, b # Huge, q.used[b].usage > 1,
         NEW X, Elsewhere(q, X), NEW p, SharedLeft(q, p, s, b, X)
  PROVE  Kept(q, p, s) /\ p.streams[s] = X
<1>1. /\ q \in Files /\ q.streams \in [FileStreams -> Places]
      /\ q.used \in [DOMAIN q.used -> Buffers] /\ q.mode # "closed"
  BY Fields, Place DEF FileInv
<1>2. b \in DOMAIN q.used  BY DEF FileInv, StreamsOK, PlaceOK
<1>3. /\ p \in Files /\ p.streams = Put(q.streams, s, X)
      /\ p.disk = q.disk /\ p.mode = q.mode /\ p.size = q.size /\ p.stored = q.stored
      /\ p.free = q.free - Freed(X)
  BY DEF SharedLeft
<1>4. /\ DOMAIN p.used = DOMAIN q.used
      /\ \A c \in DOMAIN q.used :
           /\ p.used[c].items = q.used[c].items /\ p.used[c].dirty = q.used[c].dirty
           /\ p.used[c].usage = q.used[c].usage - IF c = b THEN 1 ELSE 0
  BY DEF SharedLeft
<1>5. X \in Places /\ X.block = Huge /\ Moves(q, p, s, X)  BY <1>1, <1>3 DEF Elsewhere, Moves
<1>6. UsersMoved(q, p, s, X)  BY <1>5, UsersMove
<1>7. StreamsOK(p)
  <2>1. \A Y : PlaceOK(q, Y) => PlaceOK(p, Y)  BY <1>3, <1>4 DEF PlaceOK, Placed, Pending
  <2>2. X.attached => PlaceOK(p, X)  BY <1>3 DEF PlaceOK, Pending, Elsewhere
  <2> QED  BY <1>6, <2>1, <2>2 DEF UsersMoved, StreamsOK, FileInv, Elsewhere
<1>8. ASSUME NEW c \in DOMAIN p.used PROVE BlockOK(p, c)
  <2>1. c \in DOMAIN q.used /\ c # Huge  BY <1>1, <1>3, <1>4, Fields, Words
  <2>2. BlockOK(q, c)  BY <2>1 DEF FileInv, BlocksOK
  <2>3. p.used[c].usage = Cardinality(UsersOf(p, c)) /\ UsersOf(p, c) # {}
    <3>0. UsersOf(p, c) = UsersOf(q, c) \ {s}  BY <1>5, <1>6, <2>1 DEF UsersMoved
    <3>1. CASE c = b
      <4>1. s \in UsersOf(q, c)  BY <3>1 DEF UsersOf
      <4>3. p.used[c].usage = Cardinality(UsersOf(q, c)) - 1  BY <1>3, <1>4, <2>1, <2>2, <3>1 DEF BlockOK
      <4>4. Cardinality(UsersOf(p, c)) = Cardinality(UsersOf(q, c)) - 1  BY <1>6, <3>0, <4>1 DEF UsersMoved
      <4>5. Cardinality(UsersOf(p, c)) > 0
        <5> DEFINE m == Cardinality(UsersOf(q, c))
        <5>1. m \in Nat  BY <1>6 DEF UsersMoved
        <5>2. m > 1  BY <2>2, <3>1 DEF BlockOK
        <5> HIDE DEF m
        <5>3. m - 1 > 0  BY <5>1, <5>2
        <5> QED  BY <4>4, <5>3 DEF m
      <4> QED  BY <4>3, <4>4, <4>5, FS_EmptySet
    <3>2. CASE c # b
      <4>1. s \notin UsersOf(q, c)  BY <3>2 DEF UsersOf
      <4>2. UsersOf(p, c) = UsersOf(q, c)  BY <3>0, <4>1
      <4>3. p.used[c].usage = Cardinality(UsersOf(q, c))
        BY <1>3, <1>4, <1>6, <2>1, <2>2, <3>2 DEF BlockOK, UsersMoved
      <4> QED  BY <2>2, <4>2, <4>3 DEF BlockOK
    <3> QED  BY <3>1, <3>2
  <2> QED  BY <1>3, <1>4, <2>1, <2>2, <2>3 DEF BlockOK
<1>9. RestOnDisk(p)  BY <1>3, <1>4 DEF FileInv, RestOnDisk
<1>10. DiskOK(p)  BY <1>1, <1>3 DEF FileInv, DiskOK
<1>11. BuffersOK(p)
  <2>1. /\ Cardinality(Members(q)) \in Nat
        /\ Cardinality(Members(p)) = Cardinality(Members(q)) - Freed(X)
    BY <1>1, <1>5, MembersMove DEF Freed
  <2>2. q.free \in Int /\ Cardinality(DOMAIN q.used) \in Nat
    BY <1>1, Fields, FS_CardinalityType
  <2>3. q.free + Cardinality(DOMAIN q.used) = Cardinality(Members(q))  BY DEF FileInv, BuffersOK
  <2>4. Freed(X) \in Nat  BY DEF Freed
  <2> QED  BY <1>3, <1>4, <2>1, <2>2, <2>3, <2>4 DEF BuffersOK
<1>12. \A n \in 0 .. q.size - 1 : ItemAt(p, n) = ItemAt(q, n)  BY <1>3, <1>4 DEF ItemAt
<1> QED  BY <1>3, <1>6, <1>7, <1>8, <1>9, <1>10, <1>11, <1>12 DEF UsersMoved, Kept, FileInv, BlocksOK

(* The last user leaves a block, whose items are then on the disk. *)
LastLeft(q, p, s, b, X) ==
  LET from  == BlockStart(b)
      items == q.used[b].items
  IN  /\ p \in Files /\ p.streams = Put(q.streams, s, X)
      /\ p.mode = q.mode /\ p.size = q.size /\ p.disk.header = q.disk.header
      /\ p.disk.clean = q.disk.clean /\ p.disk.size = q.disk.size
      /\ p.free = q.free + 1 - Freed(X)
      /\ DOMAIN p.used = DOMAIN q.used \ {b}
      /\ \A c \in DOMAIN p.used : p.used[c] = q.used[c]
      /\ q.stored <= p.stored /\ p.stored <= p.size /\ Len(p.disk.items) = p.stored
      /\ \A i \in 1 .. Len(items) : from + i <= p.stored /\ p.disk.items[from + i] = items[i]
      /\ \A i \in 1 .. q.stored :
           i \notin from + 1 .. from + Len(items) => p.disk.items[i] = q.disk.items[i]
      /\ q.mode # "read_write" => p.disk = q.disk /\ p.stored = q.stored

LEMMA LastBlockLeft ==
  ASSUME NEW q, FileInv(q), NEW s \in FileStreams, q.streams[s].attached,
         NEW b, b = q.streams[s].block, b # Huge, ~(q.used[b].usage > 1),
         NEW X, Elsewhere(q, X), NEW p, LastLeft(q, p, s, b, X)
  PROVE  Kept(q, p, s) /\ p.streams[s] = X
<1> DEFINE from  == BlockStart(b)
           items == q.used[b].items
<1>1. /\ q \in Files /\ q.streams \in [FileStreams -> Places]
      /\ q.used \in [DOMAIN q.used -> Buffers] /\ q.mode # "closed"
      /\ q.size \in Nat /\ q.stored \in Nat
  BY Fields, Place, Words DEF FileInv
<1>2. b \in DOMAIN q.used /\ b \in Nat /\ BlockOK(q, b) /\ from \in Nat
  <2>1. b \in DOMAIN q.used  BY DEF FileInv, StreamsOK, PlaceOK
  <2>2. b \in Nat  BY <1>1, <2>1, Fields
  <2> QED  BY <2>1, <2>2, BlockStarts DEF FileInv, BlocksOK
<1>3. /\ p \in Files /\ p.streams = Put(q.streams, s, X)
      /\ p.mode = q.mode /\ p.size = q.size /\ p.disk.header = q.disk.header
      /\ p.disk.clean = q.disk.clean /\ p.disk.size = q.disk.size
      /\ p.free = q.free + 1 - Freed(X)
  BY DEF LastLeft
<1>4. /\ DOMAIN p.used = DOMAIN q.used \ {b}
      /\ \A c \in DOMAIN p.used : p.used[c] = q.used[c]
  BY DEF LastLeft
<1>5. /\ q.stored <= p.stored /\ p.stored <= p.size /\ Len(p.disk.items) = p.stored
      /\ \A i \in 1 .. Len(items) : from + i <= p.stored /\ p.disk.items[from + i] = items[i]
      /\ \A i \in 1 .. q.stored :
           i \notin from + 1 .. from + Len(items) => p.disk.items[i] = q.disk.items[i]
      /\ q.mode # "read_write" => p.disk = q.disk /\ p.stored = q.stored
  BY DEF LastLeft
<1>6. X \in Places /\ X.block = Huge /\ Moves(q, p, s, X) /\ UsersMoved(q, p, s, X)
  BY <1>1, <1>3, UsersMove DEF Elsewhere, Moves
<1>7. items \in Seq(FileItems) /\ Len(items) \in 0 .. FileBlock /\ p.stored \in Nat
      /\ Len(items) = Smaller(FileBlock, q.size - from) /\ from <= q.size
  <2>1. items \in Seq(FileItems) /\ p.stored \in Nat  BY <1>1, <1>2, <1>3, Fields, Words
  <2>2. Len(items) = Smaller(FileBlock, q.size - from) /\ from <= q.size  BY <1>2 DEF BlockOK
  <2>3. Len(items) \in 0 .. FileBlock  BY <1>1, <1>2, <2>2, Words DEF Smaller
  <2> QED  BY <2>1, <2>2, <2>3
<1> HIDE DEF from, items
<1>8. \A t \in FileStreams \ {s} : q.streams[t].block # b
  <2> DEFINE U == UsersOf(q, b)
  <2>1. s \in U /\ Cardinality(U) = q.used[b].usage  BY <1>2 DEF UsersOf, BlockOK
  <2>2. Cardinality(U) \in Nat /\ IsFiniteSet(U) /\ Cardinality(U \ {s}) = Cardinality(U) - 1
    BY <1>6, <2>1 DEF UsersMoved
  <2>3. IsFiniteSet(U \ {s}) /\ Cardinality(U \ {s}) = 0
    <3>1. IsFiniteSet(U \ {s})  BY <2>2, FS_Subset
    <3>2. Cardinality(U \ {s}) \in Nat  BY <3>1, FS_CardinalityType
    <3>3. ~(Cardinality(U) > 1)  BY <2>1
    <3> HIDE DEF U
    <3> QED  BY <2>2, <3>1, <3>2, <3>3
  <2>4. U \ {s} = {}  BY <2>3, FS_EmptySet
  <2> QED  BY <2>4 DEF UsersOf
<1>9. StreamsOK(p)
  <2>1. \A Y : PlaceOK(q, Y) /\ Y.block # b => PlaceOK(p, Y)
    BY <1>3, <1>4 DEF PlaceOK, Placed, Pending
  <2>2. X.attached => PlaceOK(p, X)  BY <1>3 DEF PlaceOK, Pending, Elsewhere
  <2> QED  BY <1>6, <1>8, <2>1, <2>2 DEF UsersMoved, StreamsOK, FileInv, Elsewhere
(* The blocks have no offset in common. *)
<1>10. ASSUME NEW c \in Nat, c # b, NEW i \in 1 .. FileBlock
       PROVE  BlockStart(c) + i \notin from + 1 .. from + Len(items)
  <2>1. BlockStart(c) \in Nat  BY BlockStarts
  <2>2. c < b => BlockStart(c) + FileBlock <= from  BY <1>2, BlocksInOrder DEF from
  <2>3. b < c => from + FileBlock <= BlockStart(c)  BY <1>2, BlocksInOrder DEF from
  <2> DEFINE start == BlockStart(c)
             len   == Len(items)
  <2>4. /\ start \in Nat /\ from \in Nat /\ len \in 0 .. FileBlock /\ FileBlock \in Nat
        /\ start + FileBlock <= from \/ from + FileBlock <= start
    BY <1>2, <1>7, <1>10, <2>1, <2>2, <2>3, Words
  <2> HIDE DEF start, len
  <2>5. start + i \notin from + 1 .. from + len  BY <2>4
  <2> QED  BY <2>5 DEF start, len
<1>11. ASSUME NEW c \in DOMAIN p.used PROVE BlockOK(p, c)
  <2>1. c \in DOMAIN q.used /\ c # Huge /\ c # b /\ c \in Nat /\ p.used[c] = q.used[c]
    BY <1>1, <1>3, <1>4, Fields, Words
  <2>2. BlockOK(q, c)  BY <2>1 DEF FileInv, BlocksOK
  <2>3. UsersOf(p, c) = UsersOf(q, c)
    <3>1. UsersOf(p, c) = UsersOf(q, c) \ {s}  BY <1>6, <2>1 DEF UsersMoved
    <3>2. s \notin UsersOf(q, c)  BY <2>1 DEF UsersOf
    <3> QED  BY <3>1, <3>2
  <2>4. ASSUME ~q.used[c].dirty, NEW i \in 1 .. Len(q.used[c].items)
        PROVE  /\ BlockStart(c) + i <= p.stored
               /\ q.used[c].items[i] = p.disk.items[BlockStart(c) + i]
    <3>1. BlockStart(c) + i <= q.stored
          /\ q.used[c].items[i] = q.disk.items[BlockStart(c) + i]
      BY <2>2, <2>4 DEF BlockOK
    <3>2. Len(q.used[c].items) \in 0 .. FileBlock /\ BlockStart(c) \in Nat
      BY <2>1, UsedBlock
    <3>3. i \in 1 .. FileBlock /\ BlockStart(c) \in Nat
      <4> DEFINE l == Len(q.used[c].items)
      <4>1. l \in 0 .. FileBlock /\ i \in 1 .. l  BY <3>2
      <4> HIDE DEF l
      <4> QED  BY <3>2, <4>1, Words
    <3>4. BlockStart(c) + i \in 1 .. q.stored  BY <1>1, <3>1, <3>3
    <3>5. BlockStart(c) + i \notin from + 1 .. from + Len(items)  BY <1>10, <2>1, <3>3
    <3>6. p.disk.items[BlockStart(c) + i] = q.disk.items[BlockStart(c) + i]
      BY <1>5, <3>4, <3>5
    <3> QED  BY <1>1, <1>5, <1>7, <3>1, <3>3, <3>6
  <2> QED  BY <1>3, <2>1, <2>2, <2>3, <2>4 DEF BlockOK
(* What was on the disk or in the block is on the disk. *)
<1>12. ASSUME NEW n \in 0 .. q.size - 1, BlockAt(n) \notin DOMAIN p.used
       PROVE  n < p.stored /\ p.disk.items[n + 1] = Stored(q, n) /\ Stored(q, n) \in FileItems
  <2>0. n \in Nat /\ BlockAt(n) \in Nat /\ IndexOf(n) \in 0 .. FileBlock - 1
        /\ n = BlockStart(BlockAt(n)) + IndexOf(n) /\ BlockStart(BlockAt(n)) \in Nat
    BY <1>1, OffsetParts, BlockStarts
  <2>1. Stored(q, n) \in FileItems  BY ItemsAreStored
  <2>2. CASE BlockAt(n) = b
    <3>1. IndexOf(n) + 1 \in 1 .. Len(items) /\ n + 1 = from + (IndexOf(n) + 1)
      <4> DEFINE i    == IndexOf(n)
                 size == q.size
                 len  == Len(items)
      <4>1. /\ i \in 0 .. FileBlock - 1 /\ n = from + i /\ n < size /\ n \in Nat /\ from \in Nat
            /\ len = Smaller(FileBlock, size - from) /\ size \in Nat /\ FileBlock \in Nat
        BY <1>1, <1>2, <1>7, <2>0, <2>2, Words DEF from
      <4> HIDE DEF i, size, len
      <4>2. i + 1 \in 1 .. len /\ n + 1 = from + (i + 1)  BY <4>1 DEF Smaller
      <4> QED  BY <4>2 DEF i, len
    <3>2. n + 1 <= p.stored /\ p.disk.items[n + 1] = items[IndexOf(n) + 1]  BY <1>5, <3>1
    <3>3. Stored(q, n) = items[IndexOf(n) + 1]  BY <1>2, <2>2 DEF Stored, items
    <3> QED  BY <1>7, <2>0, <2>1, <3>2, <3>3
  <2>3. CASE BlockAt(n) # b
    <3>1. BlockAt(n) \notin DOMAIN q.used  BY <1>4, <1>12, <2>3
    <3>2. n < q.stored /\ Stored(q, n) = q.disk.items[n + 1]
      BY <3>1 DEF FileInv, RestOnDisk, Stored
    <3>3. n + 1 \in 1 .. q.stored /\ IndexOf(n) + 1 \in 1 .. FileBlock
          /\ n + 1 = BlockStart(BlockAt(n)) + (IndexOf(n) + 1)
      BY <1>1, <2>0, <3>2, Words
    <3>4. n + 1 \notin from + 1 .. from + Len(items)  BY <1>10, <2>0, <2>3, <3>3
    <3>5. p.disk.items[n + 1] = q.disk.items[n + 1]  BY <1>5, <3>3, <3>4
    <3> QED  BY <1>1, <1>5, <1>7, <2>0, <2>1, <3>2, <3>5
  <2> QED  BY <2>2, <2>3
<1>13. RestOnDisk(p)  BY <1>3, <1>12 DEF RestOnDisk
<1>14. DiskOK(p)
  <2>1. q.stored <= q.size /\ Len(q.disk.items) = q.stored /\ q.disk.header
        /\ (q.disk.clean <=> q.mode = "read")
        /\ (q.disk.header /\ q.disk.clean =>
              Len(q.disk.items) = q.disk.size /\ q.disk.items \in Seq(FileItems))
        /\ (q.mode = "read" => q.stored = q.size /\ q.disk.size = q.size)
    BY <1>1 DEF FileInv, DiskOK
  <2> QED  BY <1>1, <1>3, <1>5, <2>1 DEF DiskOK
<1>15. BuffersOK(p)
  <2>1. /\ Cardinality(Members(q)) \in Nat
        /\ Cardinality(Members(p)) = Cardinality(Members(q)) - Freed(X)
    BY <1>1, <1>6, MembersMove DEF Freed
  <2>2. q.free \in Int /\ IsFiniteSet(DOMAIN q.used) /\ Cardinality(DOMAIN q.used) \in Nat
    BY <1>1, Fields, FS_CardinalityType
  <2>3. q.free + Cardinality(DOMAIN q.used) = Cardinality(Members(q))  BY DEF FileInv, BuffersOK
  <2>4. Cardinality(DOMAIN q.used \ {b}) = Cardinality(DOMAIN q.used) - 1
    <3> DEFINE D == DOMAIN q.used
    <3>1. IsFiniteSet(D) /\ b \in D  BY <1>2, <2>2
    <3> HIDE DEF D
    <3>2. Cardinality(D \ {b}) = Cardinality(D) - 1  BY <3>1, FS_RemoveElement
    <3> QED  BY <3>2 DEF D
  <2>5. Freed(X) \in Nat  BY DEF Freed
  <2> QED  BY <1>3, <1>4, <2>1, <2>2, <2>3, <2>4, <2>5 DEF BuffersOK
<1>16. FileInv(p)  BY <1>3, <1>9, <1>11, <1>13, <1>14, <1>15 DEF FileInv, BlocksOK
<1>17. ASSUME NEW n \in 0 .. q.size - 1 PROVE ItemAt(p, n) = ItemAt(q, n)
  <2>1. ItemAt(q, n) = Stored(q, n) /\ ItemAt(p, n) = Stored(p, n)
    BY <1>3, <1>16, ItemsAreStored
  <2>2. Stored(p, n) = Stored(q, n)  BY <1>4, <1>12 DEF Stored
  <2> QED  BY <2>1, <2>2
<1> QED  BY <1>3, <1>6, <1>16, <1>17 DEF UsersMoved, Kept

LEMMA TablesOf ==
  ASSUME NEW B \in SUBSET (0 .. MaxFileSize), NEW v \in [B -> Buffers]
  PROVE  v \in Tables
BY DEF Tables

(* A stream gives up its block. *)
Relocated(r, s, X, n) == [r EXCEPT !.streams[s] = X, !.free = @ - n]

LeftBlock(q, s, X) == Relocated(ReleaseBlock(q, q.streams[s].block), s, X, Freed(X))

Relocates(r, p, s, X, n) ==
  /\ p \in Files /\ p.streams = Put(r.streams, s, X)
  /\ p.disk = r.disk /\ p.mode = r.mode /\ p.size = r.size /\ p.stored = r.stored
  /\ p.used = r.used /\ p.value = r.value /\ p.free = r.free - n

LEMMA RelocatedFields ==
  ASSUME NEW r, r \in Files, NEW s \in FileStreams, NEW X \in Places, NEW n \in Int
  PROVE  Relocates(r, Relocated(r, s, X, n), s, X, n)
<1>1. r.streams \in [FileStreams -> Places] /\ r.free \in Int  BY Fields
<1>2. Put(r.streams, s, X) \in [FileStreams -> Places] /\ r.free - n \in Int  BY <1>1 DEF Put
<1> QED  BY <1>2 DEF Files, Relocated, Relocates, Put

LEMMA BlockLeft ==
  ASSUME NEW q, FileInv(q), NEW s \in FileStreams, q.streams[s].attached,
         q.streams[s].block # Huge, NEW X, Elsewhere(q, X)
  PROVE  /\ Kept(q, LeftBlock(q, s, X), s) /\ LeftBlock(q, s, X).streams[s] = X
         /\ ReleaseBlock(q, q.streams[s].block) \in Files
         /\ ReleaseBlock(q, q.streams[s].block).streams = q.streams
         /\ ReleaseBlock(q, q.streams[s].block).value = q.value
<1> DEFINE b == q.streams[s].block
           p == LeftBlock(q, s, X)
<1>1. /\ q \in Files /\ q.streams \in [FileStreams -> Places]
      /\ q.used \in [DOMAIN q.used -> Buffers] /\ DOMAIN q.used \subseteq 0 .. MaxFileSize
      /\ q.free \in Int /\ q.disk \in Disks /\ q.size \in Nat /\ q.stored \in Nat
  BY Fields, Place, Words DEF FileInv
<1>2. b \in DOMAIN q.used  BY DEF FileInv, StreamsOK, PlaceOK
<1>3. X \in Places /\ Freed(X) \in Nat /\ Put(q.streams, s, X) \in [FileStreams -> Places]
  BY <1>1 DEF Elsewhere, Freed, Put
<1>4. /\ BlockOK(q, b) /\ BlockStart(b) \in Nat /\ q.used[b].items \in Seq(FileItems)
      /\ Len(q.used[b].items) = Smaller(FileBlock, q.size - BlockStart(b))
      /\ BlockStart(b) <= q.size /\ Len(q.used[b].items) \in Nat
  BY <1>2, UsedBlock, Words
<1> HIDE DEF b
<1>5. CASE q.used[b].usage > 1
  <2> DEFINE v == [q.used EXCEPT ![b].usage = @ - 1]
  <2>1. v \in [DOMAIN q.used -> Buffers]
        /\ \A c \in DOMAIN q.used : /\ v[c].items = q.used[c].items /\ v[c].dirty = q.used[c].dirty
                                    /\ v[c].usage = q.used[c].usage - IF c = b THEN 1 ELSE 0
    <3>1. q.used[b] \in Buffers /\ q.used[b].usage - 1 \in Nat  BY <1>1, <1>2, <1>5 DEF Buffers
    <3>2. [q.used[b] EXCEPT !.usage = @ - 1] \in Buffers  BY <3>1 DEF Buffers
    <3>3. \A c \in DOMAIN q.used : q.used[c].usage - 0 = q.used[c].usage  BY <1>1 DEF Buffers
    <3> QED  BY <1>1, <1>2, <3>1, <3>2, <3>3 DEF Buffers
  <2> DEFINE left == [q EXCEPT !.used = v]
  <2>2. ReleaseBlock(q, b) = left  BY <1>1, <1>5 DEF Files, ReleaseBlock
  <2> HIDE DEF v
  <2>3. v \in Tables  BY <1>1, <2>1, TablesOf
  <2>4. /\ left \in Files /\ left.streams = q.streams /\ left.used = v
        /\ left.disk = q.disk /\ left.mode = q.mode /\ left.size = q.size
        /\ left.stored = q.stored /\ left.free = q.free /\ left.value = q.value
    BY <1>1, <2>3 DEF Files
  <2> HIDE DEF left
  <2>5. /\ p \in Files /\ p.streams = Put(q.streams, s, X) /\ p.used = v
        /\ p.disk = q.disk /\ p.mode = q.mode /\ p.size = q.size /\ p.stored = q.stored
        /\ p.free = q.free - Freed(X)
    <3>1. p = Relocated(left, s, X, Freed(X))  BY <2>2 DEF LeftBlock, b
    <3> HIDE DEF p
    <3>2. Freed(X) \in Int  BY <1>3
    <3>3. Relocates(left, p, s, X, Freed(X))  BY <1>3, <2>4, <3>1, <3>2, RelocatedFields
    <3> QED  BY <1>1, <2>4, <3>2, <3>3 DEF Relocates
  <2> HIDE DEF p
  <2>6. SharedLeft(q, p, s, b, X)  BY <2>1, <2>5 DEF SharedLeft
  <2>7. Kept(q, p, s) /\ p.streams[s] = X  BY <1>5, <2>6, SharedBlockLeft DEF b
  <2> QED  BY <2>2, <2>4, <2>7 DEF b, p
<1>6. CASE ~(q.used[b].usage > 1)
  <2> DEFINE v == [c \in DOMAIN q.used \ {b} |-> q.used[c]]
             rest == [q EXCEPT !.free = @ + 1, !.used = v]
  <2>1. v \in [DOMAIN q.used \ {b} -> Buffers]  BY <1>1
  <2>2. DOMAIN v = DOMAIN q.used \ {b} /\ \A c \in DOMAIN v : v[c] = q.used[c]  OBVIOUS
  <2>3. Len(q.disk.items) = q.stored /\ q.stored <= q.size /\ q.disk.items \in Seq(Datum)
    BY <1>1, Place, Fields DEF FileInv, DiskOK
  <2>4. ReleaseBlock(q, b) = IF q.used[b].dirty THEN WriteDisk(rest, b, q.used[b].items) ELSE rest
    BY <1>6 DEF ReleaseBlock
  <2> HIDE DEF v
  <2>5. v \in Tables  BY <1>1, <2>1, TablesOf
  <2>6. q.free + 1 \in Int /\ q.free + 1 - Freed(X) \in Int  BY <1>1, <1>3
  <2>7. /\ rest \in Files /\ rest.streams = q.streams /\ rest.used = v
        /\ rest.disk = q.disk /\ rest.mode = q.mode /\ rest.size = q.size
        /\ rest.stored = q.stored /\ rest.free = q.free + 1 /\ rest.value = q.value
    BY <1>1, <2>5, <2>6 DEF Files
  <2> HIDE DEF rest
  <2>8. CASE ~q.used[b].dirty
    <3>1. p = Relocated(rest, s, X, Freed(X))
      BY <2>4, <2>8 DEF LeftBlock, b
    <3> HIDE DEF p
    <3>2. /\ p \in Files /\ p.streams = Put(q.streams, s, X) /\ p.used = v
          /\ p.disk = q.disk /\ p.mode = q.mode /\ p.size = q.size /\ p.stored = q.stored
          /\ p.free = q.free + 1 - Freed(X)
      <4>1. Freed(X) \in Int  BY <1>3
      <4>2. Relocates(rest, p, s, X, Freed(X))  BY <1>3, <2>7, <3>1, <4>1, RelocatedFields
      <4> QED  BY <1>1, <2>7, <4>1, <4>2 DEF Relocates
    <3>3. LastLeft(q, p, s, b, X)
      BY <1>1, <1>2, <1>4, <2>2, <2>3, <2>8, <3>2 DEF LastLeft, BlockOK
    <3>4. Kept(q, p, s) /\ p.streams[s] = X  BY <1>6, <3>3, LastBlockLeft DEF b
    <3> QED  BY <2>4, <2>7, <2>8, <3>4 DEF b, p
  <2>9. CASE q.used[b].dirty
    <3> DEFINE from  == BlockStart(b)
               items == q.used[b].items
               old   == q.disk.items
               size  == Larger(Len(old), from + Len(items))
               new   == [i \in 1 .. size |->
                           IF i > from /\ i <= from + Len(items) THEN items[i - from]
                           ELSE IF i <= Len(old) THEN old[i] ELSE "garbage"]
               disk  == [q.disk EXCEPT !.items = new]
    <3>1. ReleaseBlock(q, b) = [rest EXCEPT !.stored = Larger(q.stored, from + Len(items)),
                                            !.disk = disk]
      BY <2>4, <2>7, <2>9 DEF WriteDisk
    <3> DEFINE left == [rest EXCEPT !.stored = Larger(q.stored, from + Len(items)),
                                    !.disk = disk]
    <3>2. p = Relocated(left, s, X, Freed(X))
      BY <3>1 DEF LeftBlock, b
    <3>3. /\ from \in Nat /\ Len(items) \in Nat /\ items \in Seq(FileItems) /\ from + Len(items) <= q.size
          /\ old \in Seq(Datum) /\ Len(old) = q.stored /\ q.mode = "read_write"
          /\ \A i \in 1 .. Len(items) : items[i] \in FileItems
      <4>1. q.mode = "read_write" /\ \A i \in 1 .. Len(items) : items[i] \in FileItems
        BY <1>4, <2>9, ElementOfSeq DEF BlockOK
      <4>2. from + Len(items) <= q.size
        <5> HIDE DEF from, items
        <5> QED  BY <1>1, <1>4, Words DEF Smaller, from, items
      <4> QED  BY <1>4, <2>3, <4>1, <4>2
    <3> HIDE DEF p, from, items, old, left
    <3>4. size \in Nat /\ size = Larger(q.stored, from + Len(items)) /\ size <= q.size
          /\ q.stored <= size /\ from + Len(items) <= size
      BY <1>1, <2>3, <3>3 DEF Larger
    <3> HIDE DEF size
    <3>5. \A i \in 1 .. size :
            new[i] = IF i > from /\ i <= from + Len(items) THEN items[i - from]
                     ELSE IF i <= Len(old) THEN old[i] ELSE "garbage"
      OBVIOUS
    <3>6. new \in Seq(Datum) /\ Len(new) = size
      <4>1. ASSUME NEW i \in 1 .. size PROVE new[i] \in Datum
        <5>1. CASE i > from /\ i <= from + Len(items)
          <6>1. i - from \in 1 .. Len(items)  BY <3>3, <3>4, <5>1
          <6> QED  BY <3>3, <3>5, <5>1, <6>1 DEF Datum
        <5>2. CASE ~(i > from /\ i <= from + Len(items)) /\ i <= Len(old)
          <6>1. i \in 1 .. Len(old)  BY <1>1, <3>3, <5>2
          <6>2. old[i] \in Datum  BY <3>3, <6>1, ElementOfSeq
          <6> QED  BY <3>5, <5>2, <6>2
        <5>3. CASE ~(i > from /\ i <= from + Len(items)) /\ ~(i <= Len(old))
          BY <3>5, <5>3 DEF Datum
        <5> QED  BY <5>1, <5>2, <5>3
      <4>2. new \in [1 .. size -> Datum]  BY <4>1
      <4> HIDE DEF new
      <4> QED  BY <3>4, <4>2
    <3> HIDE DEF new
    <3>7. disk \in Disks /\ disk.items = new /\ disk.header = q.disk.header
          /\ disk.clean = q.disk.clean /\ disk.size = q.disk.size
      BY <1>1, <3>6 DEF Disks
    <3> HIDE DEF disk
    <3>8. size \in 0 .. MaxFileSize
      <4>1. q.size <= MaxFileSize  BY <1>1, Place
      <4> QED  BY <1>1, <3>4, <4>1, Words
    <3>9. /\ left \in Files /\ left.streams = q.streams /\ left.value = q.value
          /\ p \in Files /\ p.streams = Put(q.streams, s, X) /\ p.used = v
          /\ p.disk = disk /\ p.mode = q.mode /\ p.size = q.size /\ p.stored = size
          /\ p.free = q.free + 1 - Freed(X)
      <4>1. /\ left \in Files /\ left.streams = q.streams /\ left.used = v
            /\ left.disk = disk /\ left.mode = q.mode /\ left.size = q.size
            /\ left.stored = size /\ left.free = q.free + 1 /\ left.value = q.value
        BY <2>7, <3>4, <3>7, <3>8 DEF Files, left
      <4>2. Freed(X) \in Int  BY <1>3
      <4>3. Relocates(left, p, s, X, Freed(X))  BY <1>3, <3>2, <4>1, <4>2, RelocatedFields
      <4> QED  BY <1>1, <4>1, <4>2, <4>3 DEF Relocates
    <3>10. \A i \in 1 .. Len(items) : from + i <= size /\ new[from + i] = items[i]
      <4> TAKE i \in 1 .. Len(items)
      <4> DEFINE k == from + i
      <4>1. k \in 1 .. size /\ k > from /\ k <= from + Len(items) /\ k - from = i
        BY <1>1, <3>3, <3>4
      <4>2. new[k] = items[k - from]
        <5> HIDE DEF k
        <5> QED  BY <3>5, <4>1
      <4> QED  BY <3>4, <4>1, <4>2
    <3>11. \A i \in 1 .. q.stored : i \notin from + 1 .. from + Len(items) => new[i] = old[i]
      <4> TAKE i \in 1 .. q.stored
      <4> HAVE i \notin from + 1 .. from + Len(items)
      <4>1. i \in 1 .. size /\ ~(i > from /\ i <= from + Len(items)) /\ i <= Len(old)
        BY <1>1, <3>3, <3>4
      <4> QED  BY <3>5, <4>1
    <3>12. LastLeft(q, p, s, b, X)
      BY <2>2, <3>3, <3>4, <3>6, <3>7, <3>9, <3>10, <3>11 DEF LastLeft, from, items, old
    <3>13. Kept(q, p, s) /\ p.streams[s] = X  BY <1>6, <3>12, LastBlockLeft DEF b
    <3> QED  BY <3>1, <3>9, <3>13 DEF b, p, left
  <2> QED  BY <1>1, <1>2, <2>8, <2>9 DEF Buffers
<1> QED  BY <1>1, <1>2, <1>5, <1>6

(* The place of a stream that has got a block. *)
Settled(q, X, b) ==
  /\ X \in Places /\ X.attached /\ X.block = b /\ X.start = BlockStart(b) /\ Placed(q, X)

(* A block that other streams have. *)
SharedGot(q, p, s, b, X) ==
  /\ p \in Files /\ p.streams = Put(q.streams, s, X)
  /\ p.disk = q.disk /\ p.mode = q.mode /\ p.size = q.size /\ p.stored = q.stored
  /\ p.free = q.free
  /\ DOMAIN p.used = DOMAIN q.used
  /\ \A c \in DOMAIN q.used : /\ p.used[c].items = q.used[c].items
                              /\ p.used[c].dirty = q.used[c].dirty
                              /\ p.used[c].usage = q.used[c].usage + IF c = b THEN 1 ELSE 0

LEMMA SharedBlockGot ==
  ASSUME NEW q, FileInv(q), NEW s \in FileStreams, q.streams[s].attached,
         q.streams[s].block = Huge, NEW b \in DOMAIN q.used, NEW X, Settled(q, X, b),
         NEW p, SharedGot(q, p, s, b, X)
  PROVE  Kept(q, p, s) /\ p.streams[s] = X
<1>1. /\ q \in Files /\ q.streams \in [FileStreams -> Places]
      /\ q.used \in [DOMAIN q.used -> Buffers] /\ q.mode # "closed"
  BY Fields, Place DEF FileInv
<1>2. b # Huge  BY UsedBlock
<1>3. /\ p \in Files /\ p.streams = Put(q.streams, s, X)
      /\ p.disk = q.disk /\ p.mode = q.mode /\ p.size = q.size /\ p.stored = q.stored
      /\ p.free = q.free
  BY DEF SharedGot
<1>4. /\ DOMAIN p.used = DOMAIN q.used
      /\ \A c \in DOMAIN q.used :
           /\ p.used[c].items = q.used[c].items /\ p.used[c].dirty = q.used[c].dirty
           /\ p.used[c].usage = q.used[c].usage + IF c = b THEN 1 ELSE 0
  BY DEF SharedGot
<1>5. X \in Places /\ X.block = b /\ X.attached /\ Moves(q, p, s, X)
  BY <1>1, <1>3 DEF Settled, Moves
<1>6. UsersMoved(q, p, s, X)  BY <1>5, UsersMove
<1>7. StreamsOK(p)
  <2>1. \A Y : PlaceOK(q, Y) => PlaceOK(p, Y)  BY <1>3, <1>4 DEF PlaceOK, Placed, Pending
  <2>2. PlaceOK(p, X)  BY <1>3, <1>4 DEF PlaceOK, Placed, Settled
  <2> QED  BY <1>5, <1>6, <2>1, <2>2 DEF UsersMoved, StreamsOK, FileInv
<1>8. ASSUME NEW c \in DOMAIN p.used PROVE BlockOK(p, c)
  <2>1. c \in DOMAIN q.used /\ c # Huge /\ BlockOK(q, c)  BY <1>4, UsedBlock
  <2>2. s \notin UsersOf(q, c)  BY <2>1 DEF UsersOf
  <2>3. p.used[c].usage = Cardinality(UsersOf(p, c)) /\ UsersOf(p, c) # {}
    <3>1. CASE c = b
      <4>1. UsersOf(p, c) = UsersOf(q, c) \cup {s}  BY <1>5, <1>6, <3>1 DEF UsersMoved
      <4>2. p.used[c].usage = Cardinality(UsersOf(q, c)) + 1
        BY <1>4, <2>1, <3>1 DEF BlockOK
      <4>3. Cardinality(UsersOf(p, c)) = Cardinality(UsersOf(q, c)) + 1
        BY <1>6, <2>2, <4>1 DEF UsersMoved
      <4> QED  BY <4>1, <4>2, <4>3
    <3>2. CASE c # b
      <4>1. UsersOf(p, c) = UsersOf(q, c) \ {s}  BY <1>5, <1>6, <3>2 DEF UsersMoved
      <4>2. UsersOf(p, c) = UsersOf(q, c)  BY <2>2, <4>1
      <4>3. p.used[c].usage = Cardinality(UsersOf(q, c))
        BY <1>3, <1>4, <1>6, <2>1, <3>2 DEF BlockOK, UsersMoved
      <4> QED  BY <2>1, <4>2, <4>3 DEF BlockOK
    <3> QED  BY <3>1, <3>2
  <2> QED  BY <1>3, <1>4, <2>1, <2>3 DEF BlockOK
<1>9. RestOnDisk(p)  BY <1>3, <1>4 DEF FileInv, RestOnDisk
<1>10. DiskOK(p)  BY <1>1, <1>3 DEF FileInv, DiskOK
<1>11. BuffersOK(p)
  <2>1. /\ Cardinality(Members(q)) \in Nat
        /\ Cardinality(Members(p)) = Cardinality(Members(q)) - 0
    BY <1>5, MembersMove
  <2> QED  BY <1>3, <1>4, <2>1 DEF FileInv, BuffersOK
<1>12. \A n \in 0 .. q.size - 1 : ItemAt(p, n) = ItemAt(q, n)  BY <1>3, <1>4 DEF ItemAt
<1> QED  BY <1>3, <1>6, <1>7, <1>8, <1>9, <1>10, <1>11, <1>12 DEF UsersMoved, Kept, FileInv, BlocksOK

(* A block that is read from the disk. *)
Fetched(q, p, s, b, X) ==
  LET from  == BlockStart(b)
      items == p.used[b].items
  IN  /\ p \in Files /\ p.streams = Put(q.streams, s, X)
      /\ p.disk = q.disk /\ p.mode = q.mode /\ p.size = q.size /\ p.stored = q.stored
      /\ p.free = q.free - 1
      /\ DOMAIN p.used = DOMAIN q.used \cup {b}
      /\ \A c \in DOMAIN q.used : p.used[c] = q.used[c]
      /\ p.used[b].usage = 1 /\ ~p.used[b].dirty
      /\ Len(items) = Smaller(FileBlock, q.size - from)
      /\ \A i \in 1 .. Len(items) : from + i <= q.stored /\ items[i] = q.disk.items[from + i]

LEMMA BlockFetched ==
  ASSUME NEW q, FileInv(q), NEW s \in FileStreams, q.streams[s].attached,
         q.streams[s].block = Huge, NEW b \in 0 .. MaxFileSize, b \notin DOMAIN q.used,
         BlockStart(b) <= q.size, NEW X, Settled(q, X, b), NEW p, Fetched(q, p, s, b, X)
  PROVE  Kept(q, p, s) /\ p.streams[s] = X
<1> DEFINE from  == BlockStart(b)
           items == p.used[b].items
<1>1. /\ q \in Files /\ q.streams \in [FileStreams -> Places]
      /\ q.used \in [DOMAIN q.used -> Buffers] /\ q.mode # "closed"
      /\ q.size \in Nat /\ q.stored \in Nat
  BY Fields, Place, Words DEF FileInv
<1>2. b # Huge /\ b \in Nat /\ from \in Nat  BY Words, BlockStarts
<1>3. /\ p \in Files /\ p.streams = Put(q.streams, s, X)
      /\ p.disk = q.disk /\ p.mode = q.mode /\ p.size = q.size /\ p.stored = q.stored
      /\ p.free = q.free - 1
  BY DEF Fetched
<1>4. /\ DOMAIN p.used = DOMAIN q.used \cup {b}
      /\ \A c \in DOMAIN q.used : p.used[c] = q.used[c]
      /\ p.used[b].usage = 1 /\ ~p.used[b].dirty
  BY DEF Fetched
<1>5. /\ Len(items) = Smaller(FileBlock, q.size - from)
      /\ \A i \in 1 .. Len(items) : from + i <= q.stored /\ items[i] = q.disk.items[from + i]
  BY DEF Fetched
<1>6. X \in Places /\ X.block = b /\ X.attached /\ Moves(q, p, s, X)
  BY <1>1, <1>3 DEF Settled, Moves
<1>7. UsersMoved(q, p, s, X)  BY <1>6, UsersMove
<1>8. \A t \in FileStreams : q.streams[t].block # b
  <2>1. ASSUME NEW t \in FileStreams PROVE q.streams[t].block # b
    <3>1. IF q.streams[t].attached THEN PlaceOK(q, q.streams[t]) ELSE q.streams[t] = Unattached
      BY DEF FileInv, StreamsOK
    <3> QED  BY <1>2, <3>1 DEF PlaceOK, Unattached
  <2> QED  BY <2>1
<1>9. StreamsOK(p)
  <2>1. \A Y : PlaceOK(q, Y) => PlaceOK(p, Y)  BY <1>3, <1>4 DEF PlaceOK, Placed, Pending
  <2>2. PlaceOK(p, X)  BY <1>3, <1>4 DEF PlaceOK, Placed, Settled
  <2> QED  BY <1>6, <1>7, <2>1, <2>2 DEF UsersMoved, StreamsOK, FileInv
<1>10. ASSUME NEW c \in DOMAIN p.used PROVE BlockOK(p, c)
  <2>1. CASE c = b
    <3>1. UsersOf(q, b) = {}  BY <1>8 DEF UsersOf
    <3>2. UsersOf(p, b) = {s}  BY <1>6, <1>7, <3>1 DEF UsersMoved
    <3>3. Cardinality({s}) = 1 /\ {s} # {}  BY FS_Singleton
    <3> QED  BY <1>3, <1>4, <1>5, <2>1, <3>2, <3>3 DEF BlockOK
  <2>2. CASE c # b
    <3>1. c \in DOMAIN q.used /\ c # Huge /\ BlockOK(q, c) /\ p.used[c] = q.used[c]
      BY <1>4, <2>2, UsedBlock
    <3>2. s \notin UsersOf(q, c)  BY <3>1 DEF UsersOf
    <3>3. UsersOf(p, c) = UsersOf(q, c) \ {s}  BY <1>6, <1>7, <2>2 DEF UsersMoved
    <3>4. UsersOf(p, c) = UsersOf(q, c)  BY <3>2, <3>3
    <3> QED  BY <1>3, <3>1, <3>4 DEF BlockOK
  <2> QED  BY <2>1, <2>2
<1>11. RestOnDisk(p)  BY <1>3, <1>4 DEF FileInv, RestOnDisk
<1>12. DiskOK(p)  BY <1>1, <1>3 DEF FileInv, DiskOK
<1>13. BuffersOK(p)
  <2>1. /\ Cardinality(Members(q)) \in Nat
        /\ Cardinality(Members(p)) = Cardinality(Members(q)) - 0
    BY <1>6, MembersMove
  <2>2. q.free \in Int /\ IsFiniteSet(DOMAIN q.used) /\ Cardinality(DOMAIN q.used) \in Nat
    BY <1>1, Fields, FS_CardinalityType
  <2>3. Cardinality(DOMAIN q.used \cup {b}) = Cardinality(DOMAIN q.used) + 1
    <3> DEFINE D == DOMAIN q.used
    <3>1. IsFiniteSet(D) /\ b \notin D  BY <2>2
    <3> HIDE DEF D
    <3>2. Cardinality(D \cup {b}) = Cardinality(D) + 1  BY <3>1, FS_AddElement
    <3> QED  BY <3>2 DEF D
  <2> QED  BY <1>3, <1>4, <2>1, <2>2, <2>3 DEF FileInv, BuffersOK
<1>14. FileInv(p)  BY <1>3, <1>9, <1>10, <1>11, <1>12, <1>13 DEF FileInv, BlocksOK
<1>15. ASSUME NEW n \in 0 .. q.size - 1 PROVE ItemAt(p, n) = ItemAt(q, n)
  <2>1. ItemAt(q, n) = Stored(q, n) /\ ItemAt(p, n) = Stored(p, n)
    BY <1>3, <1>14, ItemsAreStored
  <2>2. n \in Nat /\ BlockAt(n) \in Nat /\ IndexOf(n) \in 0 .. FileBlock - 1
        /\ n = BlockStart(BlockAt(n)) + IndexOf(n)
    BY <1>1, OffsetParts
  <2>3. CASE BlockAt(n) = b
    <3> HIDE DEF from, items
    <3>0. n = from + IndexOf(n)  BY <2>2, <2>3 DEF from
    <3>1. IndexOf(n) + 1 \in 1 .. Len(items) /\ n + 1 = from + (IndexOf(n) + 1)
      <4> DEFINE i == IndexOf(n)
                 l == Len(items)
      <4>1. i \in 0 .. FileBlock - 1 /\ n = from + i /\ l = Smaller(FileBlock, q.size - from)
        BY <1>5, <2>2, <3>0
      <4> HIDE DEF i, l
      <4>2. i + 1 \in 1 .. l /\ n + 1 = from + (i + 1)  BY <1>1, <1>2, <4>1, Words DEF Smaller
      <4> QED  BY <4>2 DEF i, l
    <3>2. items[IndexOf(n) + 1] = q.disk.items[n + 1]  BY <1>5, <3>1
    <3> QED  BY <1>4, <2>1, <2>3, <3>2 DEF Stored, items
  <2>4. CASE BlockAt(n) # b  BY <1>3, <1>4, <2>1, <2>4 DEF Stored
  <2> QED  BY <2>3, <2>4
<1> QED  BY <1>3, <1>7, <1>14, <1>15 DEF UsersMoved, Kept

(* The items of a block that is read from the disk. *)
ItemsOfBlock(r, b) ==
  SubSeq(r.disk.items, BlockStart(b) + 1,
         Smaller(Smaller(BlockStart(b) + FileBlock, r.size), Len(r.disk.items)))

LEMMA BlockOnDisk ==
  ASSUME NEW q, FileInv(q), q.mode # "closed", NEW b \in Nat, b \notin DOMAIN q.used,
         BlockStart(b) <= q.size
  PROVE  LET items == ItemsOfBlock(q, b)
             from  == BlockStart(b)
         IN  /\ items \in Seq(FileItems) /\ Len(items) = Smaller(FileBlock, q.size - from)
             /\ \A i \in 1 .. Len(items) :
                  from + i <= q.stored /\ items[i] = q.disk.items[from + i]
<1> DEFINE items == ItemsOfBlock(q, b)
           from  == BlockStart(b)
           disk  == q.disk.items
           last  == Smaller(from + FileBlock, q.size)
<1>1. /\ q \in Files /\ q.size \in Nat /\ q.stored \in Nat /\ disk \in Seq(Datum)
      /\ Len(disk) = q.stored /\ from \in Nat
  <2>1. q \in Files /\ Len(disk) = q.stored  BY DEF FileInv, DiskOK
  <2>2. q.size \in Nat /\ q.stored \in Nat /\ disk \in Seq(Datum)  BY <2>1, Fields, Words
  <2> QED  BY <2>1, <2>2, BlockStarts
<1>2. \A n \in from .. last - 1 : n < q.stored /\ disk[n + 1] \in FileItems
  <2> TAKE n \in from .. last - 1
  <2>1. n \in 0 .. q.size - 1 /\ n - from \in 0 .. FileBlock - 1 /\ n = from + (n - from)
    <3> HIDE DEF from
    <3> QED  BY <1>1, Words DEF Smaller
  <2>2. BlockAt(n) = b  BY <2>1, PartsOffset
  <2> QED  BY <2>1, <2>2 DEF FileInv, RestOnDisk
<1>3. last \in Nat /\ from <= last /\ last - from = Smaller(FileBlock, q.size - from)
  <2> HIDE DEF from
  <2> QED  BY <1>1, Words DEF Smaller, from
<1> HIDE DEF from, last, disk
<1>4. from < last => last <= q.stored
  <2>1. from < last => last - 1 \in from .. last - 1  BY <1>1, <1>3
  <2> QED  BY <1>1, <1>2, <1>3, <2>1
<1> DEFINE n == Smaller(last, Len(disk))
<1>5. n \in 0 .. Len(disk) /\ (from < last => n = last) /\ (from = last => n <= from)
  BY <1>1, <1>3, <1>4 DEF Smaller
<1>6. items = SubSeq(disk, from + 1, n)  BY DEF ItemsOfBlock, from, last, disk
<1> HIDE DEF n, items
<1>7. Len(items) = (IF from <= n THEN n - from ELSE 0)
      /\ \A i \in 1 .. n - from : items[i] = disk[from + i]
  BY <1>1, <1>5, <1>6, Parts
<1>8. Len(items) = last - from
  <2>1. CASE from < last  BY <1>1, <1>3, <1>5, <1>7, <2>1
  <2>2. CASE from = last
    <3>1. n \in Nat  BY <1>1, <1>5
    <3> QED  BY <1>1, <1>3, <1>5, <1>7, <2>2, <3>1
  <2> QED  BY <1>1, <1>3, <2>1, <2>2
<1>9. \A i \in 1 .. Len(items) : from + i <= q.stored /\ items[i] = disk[from + i]
                                 /\ items[i] \in FileItems
  <2> TAKE i \in 1 .. Len(items)
  <2>1. from < last /\ i \in 1 .. n - from /\ from + i - 1 \in from .. last - 1
        /\ from + i - 1 + 1 = from + i
    BY <1>1, <1>3, <1>5, <1>8
  <2>2. items[i] = disk[from + i]  BY <1>7, <2>1
  <2>3. from + i - 1 < q.stored /\ disk[from + i - 1 + 1] \in FileItems  BY <1>2, <2>1
  <2> QED  BY <1>1, <2>1, <2>2, <2>3
<1>10. items \in Seq(FileItems)
  <2>1. items \in Seq(Datum)  BY <1>1, <1>5, <1>6, Parts
  <2>2. Len(items) \in Nat /\ items = [i \in 1 .. Len(items) |-> items[i]]  BY <2>1, LenProperties
  <2>3. items \in [1 .. Len(items) -> FileItems]  BY <1>9, <2>2
  <2> QED  BY <2>2, <2>3
<1> QED  BY <1>3, <1>8, <1>9, <1>10 DEF items, from, disk

(* A stream gets a block. *)
Gets(r, g, b) ==
  /\ g \in Files /\ g.streams = r.streams /\ g.value = r.value
  /\ g.disk = r.disk /\ g.mode = r.mode /\ g.size = r.size /\ g.stored = r.stored
  /\ DOMAIN g.used = DOMAIN r.used \cup {b}
  /\ b \in DOMAIN r.used =>
       /\ g.free = r.free
       /\ \A c \in DOMAIN r.used : /\ g.used[c].items = r.used[c].items
                                   /\ g.used[c].dirty = r.used[c].dirty
                                   /\ g.used[c].usage = r.used[c].usage + IF c = b THEN 1 ELSE 0
  /\ b \notin DOMAIN r.used =>
       /\ g.free = r.free - 1
       /\ \A c \in DOMAIN r.used : g.used[c] = r.used[c]
       /\ g.used[b] = [items |-> ItemsOfBlock(r, b), usage |-> 1, dirty |-> FALSE]

LEMMA GetFields ==
  ASSUME NEW r, r \in Files, NEW b \in 0 .. MaxFileSize,
         b \notin DOMAIN r.used => ItemsOfBlock(r, b) \in Seq(FileItems)
  PROVE  Gets(r, GetBlock(r, b), b)
<1> DEFINE g == GetBlock(r, b)
<1>1. /\ r.used \in [DOMAIN r.used -> Buffers] /\ DOMAIN r.used \subseteq 0 .. MaxFileSize
      /\ r.free \in Int
  BY Fields
<1>2. CASE b \in DOMAIN r.used
  <2> DEFINE v == [r.used EXCEPT ![b].usage = @ + 1]
  <2>1. v \in [DOMAIN r.used -> Buffers] /\ DOMAIN v = DOMAIN r.used
        /\ \A c \in DOMAIN r.used : /\ v[c].items = r.used[c].items /\ v[c].dirty = r.used[c].dirty
                                    /\ v[c].usage = r.used[c].usage + IF c = b THEN 1 ELSE 0
    <3>1. r.used[b] \in Buffers /\ r.used[b].usage + 1 \in Nat  BY <1>1, <1>2 DEF Buffers
    <3>2. [r.used[b] EXCEPT !.usage = @ + 1] \in Buffers  BY <3>1 DEF Buffers
    <3>3. \A c \in DOMAIN r.used : r.used[c].usage + 0 = r.used[c].usage  BY <1>1 DEF Buffers
    <3> QED  BY <1>1, <1>2, <3>1, <3>2, <3>3 DEF Buffers
  <2>2. g = [r EXCEPT !.used = v]  BY <1>2 DEF GetBlock, Files
  <2> HIDE DEF v, g
  <2>3. v \in Tables  BY <1>1, <2>1, TablesOf
  <2>4. /\ g \in Files /\ g.streams = r.streams /\ g.used = v /\ g.value = r.value
        /\ g.disk = r.disk /\ g.mode = r.mode /\ g.size = r.size
        /\ g.stored = r.stored /\ g.free = r.free
    BY <2>2, <2>3 DEF Files
  <2>5. DOMAIN r.used = DOMAIN r.used \cup {b}  BY <1>2
  <2> QED  BY <1>2, <2>1, <2>4, <2>5 DEF Gets, g
<1>3. CASE b \notin DOMAIN r.used
  <2> DEFINE new == [items |-> ItemsOfBlock(r, b), usage |-> 1, dirty |-> FALSE]
             v   == [c \in DOMAIN r.used \cup {b} |-> IF c = b THEN new ELSE r.used[c]]
  <2>1. new \in Buffers  BY <1>3 DEF Buffers
  <2>2. g = [r EXCEPT !.free = @ - 1, !.used = v]
    BY <1>3 DEF GetBlock, FetchBlock, ItemsOfBlock, Files
  <2> HIDE DEF new, g
  <2>3. v \in [DOMAIN r.used \cup {b} -> Buffers] /\ DOMAIN v = DOMAIN r.used \cup {b}
        /\ v[b] = new /\ \A c \in DOMAIN r.used : v[c] = r.used[c]
    BY <1>1, <1>3, <2>1
  <2> HIDE DEF v
  <2>4. v \in Tables
    <3>1. DOMAIN r.used \cup {b} \in SUBSET (0 .. MaxFileSize)  BY <1>1
    <3> QED  BY <2>3, <3>1, TablesOf
  <2>5. r.free - 1 \in Int  BY <1>1
  <2>6. /\ g \in Files /\ g.streams = r.streams /\ g.used = v /\ g.value = r.value
        /\ g.disk = r.disk /\ g.mode = r.mode /\ g.size = r.size
        /\ g.stored = r.stored /\ g.free = r.free - 1
    BY <2>2, <2>4, <2>5 DEF Files
  <2> QED  BY <1>3, <2>3, <2>6 DEF Gets, g, new
<1> QED  BY <1>2, <1>3

(* r is q but for its streams and the value of the last call. *)
SameFile(q, r) ==
  /\ r.disk = q.disk /\ r.mode = q.mode /\ r.size = q.size /\ r.stored = q.stored
  /\ r.used = q.used /\ r.free = q.free

Occupied(r, s, b, X) == [GetBlock(r, b) EXCEPT !.streams[s] = X]

LEMMA BlockGot ==
  ASSUME NEW q, FileInv(q), NEW s \in FileStreams, q.streams[s].attached,
         q.streams[s].block = Huge, NEW b \in 0 .. MaxFileSize, BlockStart(b) <= q.size,
         NEW X, Settled(q, X, b), NEW r, r \in Files, SameFile(q, r),
         \A t \in FileStreams \ {s} : r.streams[t] = q.streams[t]
  PROVE  /\ Kept(q, Occupied(r, s, b, X), s) /\ Occupied(r, s, b, X).streams[s] = X
         /\ Occupied(r, s, b, X).value = r.value
<1> DEFINE g == GetBlock(r, b)
           p == Occupied(r, s, b, X)
<1>1. /\ q \in Files /\ q.mode # "closed" /\ q.streams \in [FileStreams -> Places]
      /\ r.streams \in [FileStreams -> Places] /\ X \in Places /\ b \in Nat
      /\ r.disk = q.disk /\ r.mode = q.mode /\ r.size = q.size /\ r.stored = q.stored
      /\ r.used = q.used /\ r.free = q.free
  BY Place, Fields, Words DEF FileInv, Settled, SameFile
<1>2. ItemsOfBlock(r, b) = ItemsOfBlock(q, b)  BY <1>1 DEF ItemsOfBlock
<1>3. b \notin DOMAIN q.used =>
        /\ ItemsOfBlock(q, b) \in Seq(FileItems)
        /\ Len(ItemsOfBlock(q, b)) = Smaller(FileBlock, q.size - BlockStart(b))
        /\ \A i \in 1 .. Len(ItemsOfBlock(q, b)) :
             /\ BlockStart(b) + i <= q.stored
             /\ ItemsOfBlock(q, b)[i] = q.disk.items[BlockStart(b) + i]
  BY <1>1, BlockOnDisk
<1>4. Gets(r, g, b)  BY <1>1, <1>2, <1>3, GetFields
<1>5. p = [g EXCEPT !.streams[s] = X]  BY DEF Occupied
<1> HIDE DEF g, p
<1>6. /\ p \in Files /\ p.streams = Put(r.streams, s, X) /\ p.value = r.value
      /\ p.disk = q.disk /\ p.mode = q.mode /\ p.size = q.size /\ p.stored = q.stored
      /\ p.used = g.used /\ p.free = g.free
  <2>1. /\ g \in Files /\ g.streams = r.streams /\ g.value = r.value
        /\ g.disk = r.disk /\ g.mode = r.mode /\ g.size = r.size /\ g.stored = r.stored
    BY <1>4 DEF Gets
  <2>2. [g.streams EXCEPT ![s] = X] \in [FileStreams -> Places]  BY <1>1, <2>1
  <2>3. p.streams = [g.streams EXCEPT ![s] = X]  BY <1>5, <2>1 DEF Files
  <2>4. p.streams = Put(r.streams, s, X)  BY <2>1, <2>3 DEF Put
  <2> QED  BY <1>1, <1>5, <2>1, <2>2, <2>4 DEF Files
<1>7. p.streams = Put(q.streams, s, X)
  <2>1. Put(r.streams, s, X) = Put(q.streams, s, X)  BY <1>1 DEF Put
  <2> QED  BY <1>6, <2>1
<1>8. CASE b \in DOMAIN q.used
  <2>1. DOMAIN g.used = DOMAIN q.used  BY <1>1, <1>4, <1>8 DEF Gets
  <2>2. SharedGot(q, p, s, b, X)  BY <1>1, <1>4, <1>6, <1>7, <1>8, <2>1 DEF Gets, SharedGot
  <2>3. Kept(q, p, s) /\ p.streams[s] = X  BY <1>8, <2>2, SharedBlockGot
  <2> QED  BY <1>6, <2>3 DEF p
<1>9. CASE b \notin DOMAIN q.used
  <2>1. Fetched(q, p, s, b, X)
    BY <1>1, <1>2, <1>3, <1>4, <1>6, <1>7, <1>9 DEF Gets, Fetched
  <2>2. Kept(q, p, s) /\ p.streams[s] = X  BY <1>9, <2>1, BlockFetched
  <2> QED  BY <1>6, <2>2 DEF p
<1> QED  BY <1>8, <1>9

(* update_block() of a stream that is at the end of its block, or about to go *)
(* to another one, does not throw and leaves the stream where it was.         *)
LEMMA BlockUpdated ==
  ASSUME NEW q, FileInv(q), NEW s \in FileStreams, q.streams[s].attached,
         q.streams[s].nextBlock = Huge => q.streams[s].index = FileBlock
  PROVE  LET p == UpdateBlock(q, s)
         IN  /\ Kept(q, p, s) /\ p.streams[s].attached /\ Placed(p, p.streams[s])
             /\ p.streams[s].index < FileBlock
             /\ OffsetIn(p, s) = OffsetIn(q, s) /\ p.value = q.value
<1> DEFINE st == q.streams[s]
           here == st.nextBlock = Huge
           nb == IF here THEN (st.block + 1) % Word ELSE st.nextBlock
           i == IF here THEN 0 ELSE st.nextIndex
           p == UpdateBlock(q, s)
           left == IF st.block = Huge THEN q ELSE ReleaseBlock(q, st.block)
           X == [st EXCEPT !.block = nb, !.start = BlockStart(nb), !.index = i,
                           !.nextBlock = Huge, !.nextIndex = Huge]
           Y == [st EXCEPT !.block = Huge, !.index = Huge, !.nextBlock = nb, !.nextIndex = i]
<1>1. /\ st \in Places /\ PlaceOK(q, st) /\ q.mode # "closed" /\ q.size \in Nat
      /\ q.size <= MaxFileSize /\ q \in Files
  BY Place DEF FileInv
<1>2. /\ nb \in 0 .. MaxFileSize /\ i \in 0 .. FileBlock - 1 /\ i \in Nat /\ nb # Huge
      /\ BlockStart(nb) \in Nat
      /\ BlockStart(nb) + i = OffsetIn(q, s) /\ BlockStart(nb) + i <= q.size
  <2>0. OffsetIn(q, s) \in 0 .. q.size /\ (Placed(q, st) => OffsetIn(q, s) = st.start + st.index)
        /\ (Pending(q, st) => OffsetIn(q, s) = BlockStart(st.nextBlock) + st.nextIndex
                              /\ st.nextBlock # Huge)
    BY Offsets
  <2>1. CASE here
    <3>1. Placed(q, st)  BY <1>1, <2>0, <2>1 DEF PlaceOK
    <3>2. st.block \in DOMAIN q.used /\ st.start = BlockStart(st.block) /\ st.index = FileBlock
      BY <1>1, <2>1, <3>1 DEF PlaceOK, Placed
    <3>3. st.block \in 0 .. MaxFileSize /\ st.block \in Nat /\ BlockStart(st.block) \in Nat
      BY <3>2, UsedBlock
    <3>4. (st.block + 1) % Word = st.block + 1  BY <3>3, Words
    <3>5. BlockStart(st.block + 1) = BlockStart(st.block) + FileBlock
          /\ st.block + 1 <= BlockStart(st.block + 1) /\ BlockStart(st.block + 1) \in Nat
      BY <3>3, BlockStarts
    <3>6. BlockStart(st.block + 1) = OffsetIn(q, s)  BY <2>0, <3>1, <3>2, <3>5
    <3>7. nb = st.block + 1 /\ i = 0  BY <2>1, <3>4
    <3> HIDE DEF nb, i, here
    <3>8. nb \in 0 .. MaxFileSize  BY <1>1, <2>0, <3>3, <3>5, <3>6, <3>7, Words
    <3> QED  BY <1>1, <2>0, <3>5, <3>6, <3>7, <3>8, Words
  <2>2. CASE ~here
    <3>1. Pending(q, st)  BY <1>1, <2>2 DEF PlaceOK, Placed
    <3> QED  BY <1>1, <2>0, <2>2, <3>1, Words, BlockStarts DEF Pending
  <2> QED  BY <2>1, <2>2
<1>3. ~(BlockStart(nb) > q.size)
  <2> HIDE DEF nb, i
  <2> QED  BY <1>1, <1>2
<1>4. p = Occupied(left, s, nb, X)
  <2>1. p = IF BlockStart(nb) > q.size
            THEN [left EXCEPT !.streams[s] = [st EXCEPT !.block = Huge, !.nextBlock = nb,
                                                        !.nextIndex = i]]
            ELSE [GetBlock(left, nb) EXCEPT !.streams[s] = X]
    BY DEF UpdateBlock
  <2> HIDE DEF p, left, nb, X, i
  <2> QED  BY <1>3, <2>1 DEF Occupied
<1> HIDE DEF nb, i, p, left
<1>4a. st \in Places /\ st.attached /\ nb \in Nat /\ i \in Nat /\ BlockStart(nb) \in Nat /\ Huge \in Nat
  BY <1>1, <1>2, Words
<1>5. /\ X \in Places /\ X.attached /\ X.block = nb /\ X.start = BlockStart(nb) /\ X.index = i
      /\ X.nextBlock = Huge /\ X.nextIndex = Huge
  BY <1>4a DEF Places
<1>6. /\ Y \in Places /\ Y.attached /\ Y.block = Huge /\ Y.index = Huge /\ Y.nextBlock = nb
      /\ Y.nextIndex = i
  BY <1>4a DEF Places
<1> HIDE DEF X, Y
<1>7. Placed(q, X) /\ Settled(q, X, nb)  BY <1>2, <1>5, Words DEF Placed, Settled
<1>8. Elsewhere(q, Y)  BY <1>2, <1>6 DEF Elsewhere, Pending
<1>9. Kept(q, p, s) /\ p.streams[s] = X /\ p.value = q.value
  <2>1. CASE st.block = Huge
    <3>1. left = q /\ SameFile(q, q)  BY <2>1 DEF SameFile, left
    <3> QED  BY <1>1, <1>2, <1>4, <1>7, <2>1, <3>1, BlockGot
  <2>2. CASE st.block # Huge
    <3> DEFINE r == LeftBlock(q, s, Y)
    <3>1. /\ Kept(q, r, s) /\ r.streams[s] = Y /\ left = ReleaseBlock(q, st.block)
          /\ left \in Files /\ left.streams = q.streams /\ left.value = q.value
      BY <1>8, <2>2, BlockLeft DEF left
    <3>2. r = Relocated(left, s, Y, 0)  BY <1>6, <3>1 DEF LeftBlock, Freed
    <3> HIDE DEF r
    <3>3. Relocates(left, r, s, Y, 0)  BY <1>6, <3>1, <3>2, RelocatedFields
    <3>4. left.free \in Int  BY <3>1, Fields
    <3>5. SameFile(r, left)  BY <3>3, <3>4 DEF Relocates, SameFile
    <3>6. FileInv(r) /\ r.streams[s].attached /\ r.streams[s].block = Huge /\ r.size = q.size
          /\ \A t \in FileStreams \ {s} : r.streams[t] = q.streams[t]
      BY <1>6, <3>1 DEF Kept
    <3>7. Settled(r, X, nb)  BY <1>7, <3>6 DEF Settled, Placed
    <3>8. BlockStart(nb) <= r.size  BY <1>1, <1>2, <3>6
    <3>9. Kept(r, p, s) /\ p.streams[s] = X /\ p.value = left.value
      BY <1>2, <1>4, <3>1, <3>5, <3>6, <3>7, <3>8, BlockGot
    <3> QED  BY <3>1, <3>9, KeptByBoth
  <2> QED  BY <2>1, <2>2
<1>10. FileInv(p) /\ p.size = q.size  BY <1>9 DEF Kept
<1>11. Placed(p, X)  BY <1>7, <1>10 DEF Placed
<1>12. OffsetIn(p, s) = X.start + X.index  BY <1>5, <1>9, <1>10, <1>11, Offsets
<1> QED  BY <1>2, <1>5, <1>9, <1>11, <1>12, Words DEF p

-----------------------------------------------------------------------------
(* Positions. *)

AtIndex(q, s, i) == [q EXCEPT !.streams[s].index = i]

LEMMA IndexMoves ==
  ASSUME NEW q, FileInv(q), NEW s \in FileStreams, q.streams[s].attached,
         Placed(q, q.streams[s]), NEW i \in 0 .. FileBlock, q.streams[s].start + i <= q.size
  PROVE  LET p == AtIndex(q, s, i)
         IN  /\ Kept(q, p, s) /\ p.streams[s].index = i /\ p.streams[s].block = q.streams[s].block
             /\ p.streams[s].attached /\ Placed(p, p.streams[s])
             /\ OffsetIn(p, s) = q.streams[s].start + i /\ p.value = q.value
<1> DEFINE st == q.streams[s]
           X == [st EXCEPT !.index = i]
           p == [q EXCEPT !.streams[s] = X]
<1>1. /\ st \in Places /\ PlaceOK(q, st) /\ q \in Files /\ q.streams \in [FileStreams -> Places]
      /\ FileBlock \in Nat /\ Huge \in Nat
  BY Place, Fields, Words DEF FileInv
<1>2. i \in Nat  BY <1>1
<1>3. /\ X \in Places /\ X.attached /\ X.block = st.block /\ X.start = st.start
      /\ X.index = i /\ X.nextBlock = st.nextBlock /\ X.nextIndex = st.nextIndex
  BY <1>1, <1>2 DEF Places
<1> HIDE DEF X
<1>4. PlaceOK(q, X) /\ Placed(q, X)  BY <1>1, <1>3 DEF PlaceOK, Placed
<1>5. Kept(q, p, s)  BY <1>3, <1>4, StreamMoves
<1>6. p.streams[s] = X /\ p.size = q.size /\ p.value = q.value  BY <1>1 DEF Files
<1>7. p = AtIndex(q, s, i)  BY DEF X, AtIndex
<1> HIDE DEF p
<1>8. Placed(p, X)  BY <1>4, <1>6 DEF Placed
<1>9. FileInv(p)  BY <1>5 DEF Kept
<1>10. OffsetIn(p, s) = st.start + i  BY <1>3, <1>6, <1>8, <1>9, Offsets
<1> QED  BY <1>3, <1>5, <1>6, <1>7, <1>8, <1>10 DEF X

(* seek() within the file. *)
LEMMA SeekToKeeps ==
  ASSUME NEW q, FileInv(q), NEW s \in FileStreams, q.streams[s].attached,
         NEW n \in 0 .. q.size
  PROVE  LET p == SeekTo(q, s, n)
         IN  /\ Kept(q, p, s) /\ p.streams[s].attached
             /\ OffsetIn(p, s) = n /\ p.value = q.value
<1> DEFINE st == q.streams[s]
           b == BlockAt(n)
           i == IndexOf(n)
           X == IF b = st.block
                THEN [st EXCEPT !.index = i, !.nextBlock = Huge, !.nextIndex = Huge]
                ELSE [st EXCEPT !.index = Huge, !.nextBlock = b, !.nextIndex = i]
           p == [q EXCEPT !.streams[s] = X]
<1>1. /\ st \in Places /\ PlaceOK(q, st) /\ q \in Files /\ q.streams \in [FileStreams -> Places]
      /\ q.size \in Nat /\ q.size <= MaxFileSize
  BY Place, Fields DEF FileInv
<1>2. n \in Nat /\ n <= q.size  BY <1>1
<1>3. b \in Nat /\ i \in 0 .. FileBlock - 1 /\ n = BlockStart(b) + i /\ BlockStart(b) \in Nat
      /\ b <= BlockStart(b)
  BY <1>2, OffsetParts, BlockStarts
<1> HIDE DEF b, i
<1>4. i \in Nat /\ b \in 0 .. MaxFileSize /\ b # Huge /\ Huge \in Nat /\ FileBlock \in Nat
  BY <1>1, <1>2, <1>3, Words
<1>5. /\ X \in Places /\ X.attached /\ X.block = st.block /\ X.start = st.start
      /\ b = st.block => X.index = i /\ X.nextBlock = Huge /\ X.nextIndex = Huge
      /\ b # st.block => X.index = Huge /\ X.nextBlock = b /\ X.nextIndex = i
  <2>1. CASE b = st.block  BY <1>1, <1>3, <1>4, <2>1 DEF Places
  <2>2. CASE b # st.block  BY <1>1, <1>3, <1>4, <2>2 DEF Places
  <2> QED  BY <2>1, <2>2
<1>6. p = SeekTo(q, s, n)
  <2>1. CASE b = st.block  BY <2>1 DEF SeekTo, b, i
  <2>2. CASE b # st.block  BY <2>2 DEF SeekTo, b, i
  <2> QED  BY <2>1, <2>2
<1>7. p.streams[s] = X /\ p.size = q.size /\ p.value = q.value
  <2> HIDE DEF X
  <2> QED  BY <1>1 DEF Files
<1> HIDE DEF X
<1>8. /\ b = st.block => Placed(q, X) /\ X.start + X.index = n
      /\ b # st.block => Pending(q, X) /\ BlockStart(X.nextBlock) + X.nextIndex = n
  <2>1. CASE b = st.block
    <3>1. st.start = BlockStart(b)  BY <1>1, <1>4, <2>1 DEF PlaceOK
    <3>2. i \in 0 .. FileBlock  BY <1>3, <1>4
    <3> QED  BY <1>2, <1>3, <1>4, <1>5, <2>1, <3>1, <3>2 DEF Placed
  <2>2. CASE b # st.block  BY <1>2, <1>3, <1>4, <1>5, <2>2 DEF Pending
  <2> QED  BY <2>1, <2>2
<1>9. PlaceOK(q, X)  BY <1>1, <1>5, <1>8 DEF PlaceOK
<1>10. Kept(q, p, s)  BY <1>5, <1>9, StreamMoves
<1>11. FileInv(p)  BY <1>10 DEF Kept
<1> HIDE DEF p
<1>12. /\ Placed(q, X) => Placed(p, X)
       /\ Pending(q, X) => Pending(p, X)
  BY <1>7 DEF Placed, Pending
<1>13. OffsetIn(p, s) = n  BY <1>5, <1>7, <1>8, <1>11, <1>12, Offsets
<1> QED  BY <1>5, <1>6, <1>7, <1>10, <1>13

(* seek(n, current) moves the offset by n. *)
LEMMA SeekCurrentKeeps ==
  ASSUME NEW q, FileInv(q), NEW s \in FileStreams, q.streams[s].attached,
         NEW n \in -FileBlock .. FileBlock, n <= 0 \/ q.streams[s].index # Huge,
         n + OffsetIn(q, s) <= q.size
  PROVE  LET p == SeekCurrent(q, s, n)
         IN  /\ Kept(q, p, s) /\ p.streams[s].attached /\ p.value = q.value
             /\ OffsetIn(p, s) = IF n + OffsetIn(q, s) >= 0 THEN n + OffsetIn(q, s)
                                 ELSE OffsetIn(q, s)
<1> DEFINE st == q.streams[s]
           p == SeekCurrent(q, s, n)
           off == OffsetIn(q, s)
<1>1. /\ st \in Places /\ PlaceOK(q, st) /\ q.size \in Nat /\ FileBlock \in Nat /\ n \in Int
      /\ Huge \in Nat /\ Huge > 2 * (MaxFileSize + FileBlock) /\ MaxFileSize \in Nat
  BY Place, Words
<1>2. off \in 0 .. q.size /\ (Placed(q, st) => off = st.start + st.index)  BY Offsets
<1>3. CASE p = SeekFrom(q, s, n + off)
  <2>1. CASE n + off >= 0
    <3>1. n + off \in 0 .. q.size  BY <1>1, <1>2, <2>1
    <3>2. p = SeekTo(q, s, n + off)  BY <1>3, <3>1 DEF SeekFrom
    <3> HIDE DEF p, off
    <3> QED  BY <2>1, <3>1, <3>2, SeekToKeeps DEF p, off
  <2>2. CASE ~(n + off >= 0)
    <3>1. p = q  BY <1>1, <1>2, <1>3, <2>2 DEF SeekFrom
    <3>2. Kept(q, q, s)  BY KeptByNone
    <3> QED  BY <2>2, <3>1, <3>2
  <2> QED  BY <2>1, <2>2
<1>4. CASE p # SeekFrom(q, s, n + off)
  <2>1. (n >= 0 \/ -n <= st.index) /\ (n + st.index) % Word < FileBlock
        /\ p = [q EXCEPT !.streams[s].index = (n + st.index) % Word]
    BY <1>4 DEF SeekCurrent
  <2>2. ~Pending(q, st)
    <3>1. ASSUME st.index = Huge PROVE FALSE
      <4>1. n \in -FileBlock .. -1 \/ n = 0  BY <1>1, <3>1
      <4>2. (n + Huge) % Word = n + Huge  BY <1>1, <4>1, Words
      <4> QED  BY <1>1, <2>1, <3>1, <4>2
    <3> QED  BY <3>1 DEF Pending
  <2>3. Placed(q, st)  BY <1>1, <2>2 DEF PlaceOK
  <2>4. st.index \in 0 .. FileBlock  BY <2>3 DEF Placed
  <2>5. n + st.index \in Nat /\ n + st.index <= Huge  BY <1>1, <2>1, <2>4
  <2>6. (n + st.index) % Word = n + st.index  BY <2>5, Words
  <2>7. n + st.index \in 0 .. FileBlock /\ st.start + (n + st.index) <= q.size
        /\ st.start + (n + st.index) = n + off /\ n + off >= 0
    BY <1>1, <1>2, <2>1, <2>3, <2>5, <2>6 DEF Places
  <2> DEFINE i == n + st.index
  <2>8. p = AtIndex(q, s, i)  BY <2>1, <2>6 DEF AtIndex
  <2>9. i \in 0 .. FileBlock /\ st.start + i <= q.size /\ st.start + i = n + off
    BY <2>7
  <2> HIDE DEF p, i, off
  <2>10. Kept(q, p, s) /\ p.streams[s].attached /\ p.value = q.value
         /\ OffsetIn(p, s) = st.start + i
    BY <2>3, <2>8, <2>9, IndexMoves
  <2> QED  BY <2>7, <2>9, <2>10 DEF p, off
<1> QED  BY <1>3, <1>4

-----------------------------------------------------------------------------
(* Reads. *)

(* The value that a call gives. *)
Giving(q, v) == [q EXCEPT !.value = v]

LEMMA GivingKeeps ==
  ASSUME NEW q, FileInv(q), NEW s, NEW v \in Seq(Datum)
  PROVE  LET p == Giving(q, v)
         IN  Kept(q, p, s) /\ p.value = v /\ p.streams = q.streams /\ OffsetIn(p, s) = OffsetIn(q, s)
<1> DEFINE p == Giving(q, v)
<1>1. q \in Files  BY DEF FileInv
<1>2. /\ p \in Files /\ p.streams = q.streams /\ p.value = v
      /\ p.disk = q.disk /\ p.mode = q.mode /\ p.size = q.size /\ p.stored = q.stored
      /\ p.used = q.used /\ p.free = q.free
  BY <1>1 DEF Files, Giving
<1> HIDE DEF p
<1>3. Members(p) = Members(q) /\ \A b : UsersOf(p, b) = UsersOf(q, b)
  BY <1>2 DEF Members, UsersOf
<1>4. StreamsOK(p)
  <2>1. \A Y : PlaceOK(q, Y) => PlaceOK(p, Y)  BY <1>2 DEF PlaceOK, Placed, Pending
  <2> QED  BY <1>2, <2>1 DEF StreamsOK, FileInv
<1>5. BlocksOK(p)  BY <1>2, <1>3 DEF FileInv, BlocksOK, BlockOK
<1>6. RestOnDisk(p) /\ DiskOK(p) /\ BuffersOK(p)
  BY <1>2, <1>3 DEF FileInv, RestOnDisk, DiskOK, BuffersOK
<1>7. \A n \in 0 .. q.size - 1 : ItemAt(p, n) = ItemAt(q, n)  BY <1>2 DEF ItemAt
<1>8. OffsetIn(p, s) = OffsetIn(q, s)  BY <1>2 DEF OffsetIn
<1> QED  BY <1>2, <1>4, <1>5, <1>6, <1>7, <1>8 DEF Kept, FileInv, p

(* A stream within its block: what is left there. *)
LEMMA InBlock ==
  ASSUME NEW q, FileInv(q), NEW s \in FileStreams, q.streams[s].attached,
         Placed(q, q.streams[s])
  PROVE  LET st == q.streams[s]
             items == q.used[st.block].items
         IN  /\ st.block \in DOMAIN q.used /\ st.block # Huge /\ st.block \in Nat
             /\ st.start = BlockStart(st.block)
             /\ st.start \in Nat /\ st.start <= q.size /\ st.index \in 0 .. FileBlock
             /\ OffsetIn(q, s) = st.start + st.index /\ BlockSize(q, s) = Len(items)
             /\ items \in Seq(FileItems) /\ Len(items) \in 0 .. FileBlock
             /\ Len(items) = Smaller(FileBlock, q.size - st.start)
             /\ \A i \in 0 .. Len(items) - 1 :
                  st.start + i < q.size /\ items[i + 1] = ItemAt(q, st.start + i)
<1> DEFINE st == q.streams[s]
           items == q.used[st.block].items
           b == st.block
<1>1. st \in Places /\ PlaceOK(q, st) /\ q.size \in Nat  BY Place
<1>2. b # Huge /\ b \in DOMAIN q.used /\ st.start = BlockStart(b) /\ st.index \in 0 .. FileBlock
  BY <1>1 DEF PlaceOK, Placed
<1>3. /\ b \in Nat /\ BlockStart(b) \in Nat /\ BlockStart(b) <= q.size
      /\ items \in Seq(FileItems) /\ Len(items) \in 0 .. FileBlock
      /\ Len(items) = Smaller(FileBlock, q.size - BlockStart(b))
  BY <1>2, UsedBlock
<1>4. OffsetIn(q, s) = st.start + st.index  BY Offsets
<1>5. BlockSize(q, s) = Len(items)  BY <1>2 DEF BlockSize
<1>6. ASSUME NEW i \in 0 .. Len(items) - 1
      PROVE  st.start + i < q.size /\ items[i + 1] = ItemAt(q, st.start + i)
  <2> DEFINE from == BlockStart(b)
             l == Len(items)
             n == from + i
  <2>1. i \in 0 .. l - 1 /\ from \in Nat /\ l = Smaller(FileBlock, q.size - from) /\ from <= q.size
        /\ l \in 0 .. FileBlock
    BY <1>3
  <2>2. i \in 0 .. FileBlock - 1 /\ n \in 0 .. q.size - 1
    <3> HIDE DEF from, l
    <3> QED  BY <1>1, <2>1, Words DEF Smaller
  <2>3. BlockAt(n) = b /\ IndexOf(n) = i  BY <1>3, <2>2, PartsOffset
  <2>4. ItemAt(q, n) = Stored(q, n)  BY <2>2, ItemsAreStored
  <2>5. Stored(q, n) = items[i + 1]  BY <1>2, <2>3 DEF Stored
  <2>6. n < q.size  BY <1>1, <2>2
  <2> QED  BY <1>2, <2>4, <2>5, <2>6
<1> QED  BY <1>2, <1>3, <1>4, <1>5, <1>6

(* A stream that is not in its block has to go to one. *)
LEMMA NotInBlock ==
  ASSUME NEW q, FileInv(q), NEW s \in FileStreams, q.streams[s].attached,
         OffsetIn(q, s) < q.size
  PROVE  LET st == q.streams[s]
         IN  /\ st.index < BlockSize(q, s) => Placed(q, st) /\ st.index < FileBlock
             /\ ~(st.index < BlockSize(q, s)) => st.index >= FileBlock
             /\ st.index >= FileBlock => (st.nextBlock = Huge => st.index = FileBlock)
<1> DEFINE st == q.streams[s]
<1>1. st \in Places /\ PlaceOK(q, st) /\ q.size \in Nat  BY Place
<1>2. FileBlock \in Nat /\ FileBlock > 0 /\ Huge \in Nat /\ Huge > FileBlock  BY Words
<1>3. CASE Placed(q, st)
  <2> DEFINE l == BlockSize(q, s)
  <2>1. /\ st.start \in Nat /\ st.index \in 0 .. FileBlock /\ st.start <= q.size
        /\ OffsetIn(q, s) = st.start + st.index
        /\ l = Smaller(FileBlock, q.size - st.start) /\ l \in 0 .. FileBlock
    BY <1>3, InBlock
  <2> HIDE DEF l
  <2>2. /\ st.index < l => st.index < FileBlock
        /\ ~(st.index < l) => st.index = FileBlock
    BY <1>1, <1>2, <2>1 DEF Smaller
  <2>3. st.index >= FileBlock => st.index = FileBlock  BY <1>2, <2>1
  <2>4. ~(st.index < l) => st.index >= FileBlock  BY <1>2, <2>2
  <2> QED  BY <1>3, <2>2, <2>3, <2>4 DEF l
<1>4. CASE ~Placed(q, st)
  <2>1. Pending(q, st)  BY <1>1, <1>4 DEF PlaceOK
  <2>2. st.index = Huge /\ st.nextBlock # Huge  BY <1>1, <2>1, Words DEF Pending
  <2>3. BlockSize(q, s) <= FileBlock /\ BlockSize(q, s) \in Nat
    <3>1. CASE st.block = Huge  BY <1>2, <3>1 DEF BlockSize
    <3>2. CASE st.block # Huge
      <4>1. st.block \in DOMAIN q.used  BY <1>1, <3>2 DEF PlaceOK
      <4>2. Len(q.used[st.block].items) \in 0 .. FileBlock  BY <4>1, UsedBlock
      <4>3. BlockSize(q, s) = Len(q.used[st.block].items)  BY <3>2 DEF BlockSize
      <4> QED  BY <1>2, <4>2, <4>3
    <3> QED  BY <3>1, <3>2
  <2>4. ~(st.index < BlockSize(q, s)) /\ st.index >= FileBlock
    <3> DEFINE l == BlockSize(q, s)
    <3>1. l <= FileBlock /\ l \in Nat  BY <2>3
    <3> HIDE DEF l
    <3>2. ~(st.index < l) /\ st.index >= FileBlock  BY <1>2, <2>2, <3>1
    <3> QED  BY <3>2 DEF l
  <2> QED  BY <2>2, <2>4
<1> QED  BY <1>3, <1>4

(* read() of a stream that is not at the end of the file. *)
LEMMA ReadOne ==
  ASSUME NEW q, FileInv(q), NEW s \in FileStreams, q.streams[s].attached,
         OffsetIn(q, s) < q.size
  PROVE  LET p == ReadItem(q, s)
         IN  /\ Kept(q, p, s) /\ p.streams[s].attached /\ Placed(p, p.streams[s])
             /\ OffsetIn(p, s) = OffsetIn(q, s) + 1
             /\ p.value = <<ItemAt(q, OffsetIn(q, s))>>
<1> DEFINE off == OffsetIn(q, s)
           r == IF q.streams[s].index >= BlockSize(q, s) THEN UpdateBlock(q, s) ELSE q
           st == r.streams[s]
           item == r.used[st.block].items[st.index + 1]
           p == ReadItem(q, s)
<1>1. q.streams[s] \in Places /\ PlaceOK(q, q.streams[s]) /\ q.size \in Nat /\ q \in Files
      /\ q.size <= MaxFileSize
  BY Place DEF FileInv
<1>2. BlockSize(q, s) \in Nat
  <2>1. CASE q.streams[s].block = Huge  BY <2>1 DEF BlockSize
  <2>2. CASE q.streams[s].block # Huge
    <3>1. q.streams[s].block \in DOMAIN q.used  BY <1>1, <2>2 DEF PlaceOK
    <3>2. BlockSize(q, s) = Len(q.used[q.streams[s].block].items)  BY <2>2 DEF BlockSize
    <3>3. BlockSize(q, s) \in 0 .. FileBlock  BY <3>1, <3>2, UsedBlock
    <3> QED  BY <3>3, Words
  <2> QED  BY <2>1, <2>2
<1>3. q.streams[s].index >= BlockSize(q, s) <=> ~(q.streams[s].index < BlockSize(q, s))
  BY <1>1, <1>2 DEF Places
<1>4. /\ Kept(q, r, s) /\ st.attached /\ Placed(r, st) /\ st.index < FileBlock
      /\ OffsetIn(r, s) = off
  <2>1. CASE q.streams[s].index >= BlockSize(q, s)
    <3>1. q.streams[s].nextBlock = Huge => q.streams[s].index = FileBlock
      BY <1>3, <2>1, NotInBlock
    <3> QED  BY <2>1, <3>1, BlockUpdated
  <2>2. CASE ~(q.streams[s].index >= BlockSize(q, s))
    <3>1. r = q  BY <2>2
    <3>2. Placed(q, q.streams[s]) /\ q.streams[s].index < FileBlock
      BY <1>3, <2>2, NotInBlock
    <3> QED  BY <3>1, <3>2, KeptByNone
  <2> QED  BY <2>1, <2>2
<1> HIDE DEF r
<1>5. FileInv(r) /\ r.size = q.size /\ r \in Files
      /\ \A n \in 0 .. q.size - 1 : ItemAt(r, n) = ItemAt(q, n)
  BY <1>4 DEF Kept, FileInv
<1>6. /\ st.block # Huge /\ st.start \in Nat /\ st.index \in 0 .. FileBlock
      /\ off = st.start + st.index /\ BlockSize(r, s) = Len(r.used[st.block].items)
      /\ Len(r.used[st.block].items) = Smaller(FileBlock, q.size - st.start)
      /\ Len(r.used[st.block].items) \in 0 .. FileBlock
      /\ \A i \in 0 .. Len(r.used[st.block].items) - 1 :
           r.used[st.block].items[i + 1] = ItemAt(r, st.start + i)
  BY <1>4, <1>5, InBlock
<1>7. off \in Nat /\ off < q.size  BY <1>1, Offsets
<1>8. st.index < BlockSize(r, s) /\ st.index \in 0 .. Len(r.used[st.block].items) - 1
  <2> DEFINE l == Len(r.used[st.block].items)
             i == st.index
             from == st.start
  <2>1. l = Smaller(FileBlock, q.size - from) /\ i \in 0 .. FileBlock /\ off = from + i
        /\ i < FileBlock /\ l \in 0 .. FileBlock /\ from \in Nat /\ BlockSize(r, s) = l
    BY <1>4, <1>6
  <2> HIDE DEF l, i, from, off
  <2>2. i < l  BY <1>1, <1>7, <2>1, Words DEF Smaller
  <2>3. i \in 0 .. l - 1  BY <2>1, <2>2, Words
  <2> QED  BY <2>1, <2>2, <2>3 DEF l, i
<1>9. item = ItemAt(q, off)
  <2>1. item = ItemAt(r, st.start + st.index)  BY <1>6, <1>8
  <2>2. off \in 0 .. q.size - 1  BY <1>1, <1>7
  <2> QED  BY <1>5, <1>6, <2>1, <2>2
<1>10. item \in FileItems
  <2>1. off \in 0 .. q.size - 1  BY <1>1, <1>7
  <2> QED  BY <1>9, <2>1, ItemsAreStored
<1> DEFINE i == st.index + 1
           t == AtIndex(r, s, i)
<1>11. p = Giving(t, <<item>>)
  <2>1. ~(st.index >= BlockSize(r, s))
    <3> DEFINE l == BlockSize(r, s)
               k == st.index
    <3>1. k < l /\ l \in Nat /\ k \in Nat  BY <1>6, <1>8, Words
    <3> HIDE DEF l, k
    <3>2. ~(k >= l)  BY <3>1
    <3> QED  BY <3>2 DEF k, l
  <2>2. p = [r EXCEPT !.streams[s].index = @ + 1, !.value = <<item>>]
    BY <2>1 DEF ReadItem, r
  <2> HIDE DEF p, item
  <2> QED  BY <2>2 DEF Giving, AtIndex
<1>12. i \in 0 .. FileBlock /\ st.start + i <= r.size /\ st.start + i = off + 1
  <2> DEFINE from == st.start
             k == st.index
  <2>1. k \in 0 .. FileBlock /\ k < FileBlock /\ from \in Nat /\ off = from + k /\ off < q.size
        /\ r.size = q.size
    BY <1>4, <1>5, <1>6, <1>7
  <2> HIDE DEF from, k, off
  <2>2. k + 1 \in 0 .. FileBlock /\ from + (k + 1) <= r.size /\ from + (k + 1) = off + 1
    BY <1>1, <2>1, Words
  <2> QED  BY <2>2 DEF from, k
<1> HIDE DEF i, t, item, p, off
<1>13. Kept(r, t, s) /\ t.streams[s].attached /\ Placed(t, t.streams[s])
       /\ OffsetIn(t, s) = off + 1
  BY <1>4, <1>5, <1>12, IndexMoves DEF t
<1>14. <<item>> \in Seq(Datum)  BY <1>10 DEF Datum
<1>15. FileInv(t) /\ t.size = r.size  BY <1>13 DEF Kept
<1>16. Kept(t, p, s) /\ p.value = <<item>> /\ p.streams = t.streams
       /\ OffsetIn(p, s) = OffsetIn(t, s)
  BY <1>11, <1>14, <1>15, GivingKeeps
<1>17. Kept(q, p, s)  BY <1>4, <1>13, <1>16, KeptByBoth
<1>18. p.size = t.size  BY <1>16 DEF Kept
<1> QED  BY <1>9, <1>13, <1>16, <1>17, <1>18 DEF Placed, p, off

(* can_read() and can_read_back() say whether there is an item.             *)
LEMMA CanReads ==
  ASSUME NEW q, FileInv(q), NEW s \in FileStreams, q.streams[s].attached
  PROVE  /\ CanRead(q, s) <=> OffsetIn(q, s) < q.size
         /\ CanReadBack(q, s) <=> OffsetIn(q, s) > 0
<1> DEFINE st == q.streams[s]
           off == OffsetIn(q, s)
           l == BlockSize(q, s)
<1>1. st \in Places /\ PlaceOK(q, st) /\ q.size \in Nat /\ st.nextBlock \in Nat
      /\ st.nextIndex \in Nat /\ st.index \in Nat /\ st.start \in Nat
  BY Place DEF Places
<1>2. FileBlock \in Nat /\ Huge \in Nat /\ Huge > FileBlock  BY Words
<1>3. CASE Placed(q, st)
  <2>1. st.nextBlock = Huge  BY <1>3 DEF Placed
  <2>2. off = st.start + st.index /\ l \in 0 .. FileBlock
        /\ \A i \in 0 .. l - 1 : st.start + i < q.size
    BY <1>3, InBlock
  <2> HIDE DEF l, off
  <2>3. st.index < l => off < q.size
    <3> DEFINE k == st.index
    <3>1. k \in Nat /\ off = st.start + k  BY <1>1, <2>2
    <3> HIDE DEF k
    <3>2. k < l => k \in 0 .. l - 1  BY <1>2, <2>2, <3>1
    <3>3. k < l => off < q.size  BY <2>2, <3>1, <3>2
    <3> QED  BY <3>3 DEF k
  <2>4. off > 0 <=> st.index > 0 \/ st.start > 0  BY <1>1, <2>2
  <2> QED  BY <2>1, <2>3, <2>4 DEF CanRead, CanReadBack, l, off
<1>4. CASE ~Placed(q, st)
  <2>1. Pending(q, st)  BY <1>1, <1>4 DEF PlaceOK
  <2>2. st.nextBlock # Huge /\ st.index = Huge /\ off = BlockStart(st.nextBlock) + st.nextIndex
    BY <2>1, Offsets DEF Pending
  <2>3. l \in 0 .. FileBlock
    <3>1. CASE st.block = Huge  BY <1>2, <3>1 DEF BlockSize
    <3>2. CASE st.block # Huge
      <4>1. st.block \in DOMAIN q.used  BY <1>1, <3>2 DEF PlaceOK
      <4>2. Len(q.used[st.block].items) \in 0 .. FileBlock  BY <4>1, UsedBlock
      <4> QED  BY <3>2, <4>2 DEF BlockSize
    <3> QED  BY <3>1, <3>2
  <2> HIDE DEF l, off
  <2>4. ~(Huge < l)  BY <1>2, <2>3
  <2>5. off > 0 <=> st.nextIndex > 0 \/ st.nextBlock > 0
    <3> DEFINE b == st.nextBlock
               i == st.nextIndex
               from == BlockStart(b)
    <3>1. /\ b \in Nat /\ i \in Nat /\ from \in Nat /\ off = from + i
          /\ b <= from /\ (b = 0 => from = 0)
      BY <1>1, <2>2, BlockStarts
    <3> HIDE DEF b, i, from
    <3>2. off > 0 <=> i > 0 \/ b > 0  BY <3>1
    <3> QED  BY <3>2 DEF b, i
  <2> QED  BY <2>2, <2>4, <2>5 DEF CanRead, CanReadBack, l, off
<1> QED  BY <1>3, <1>4

LEMMA ReadOneBack ==
  ASSUME NEW q, FileInv(q), NEW s \in FileStreams, q.streams[s].attached,
         OffsetIn(q, s) > 0
  PROVE  LET p == ReadItemBack(q, s)
         IN  /\ Kept(q, p, s) /\ p.streams[s].attached
             /\ OffsetIn(p, s) = OffsetIn(q, s) - 1
             /\ p.value = <<ItemAt(q, OffsetIn(q, s) - 1)>>
<1> DEFINE off == OffsetIn(q, s)
           a == SeekCurrent(q, s, -1)
           b == ReadItem(a, s)
           c == SeekCurrent(b, s, -1)
<1>1. off \in 0 .. q.size /\ q.size \in Nat /\ off > 0  BY Offsets, Place
<1>2. -1 \in -FileBlock .. FileBlock  BY Words
<1> HIDE DEF off
<1>3. -1 + off <= q.size /\ -1 + off >= 0 /\ -1 + off = off - 1 /\ off - 1 \in 0 .. q.size - 1
  BY <1>1
<1>4. Kept(q, a, s) /\ a.streams[s].attached /\ OffsetIn(a, s) = off - 1
  BY <1>2, <1>3, SeekCurrentKeeps DEF off
<1> HIDE DEF a
<1>5. FileInv(a) /\ a.size = q.size /\ ItemAt(a, off - 1) = ItemAt(q, off - 1)
  BY <1>3, <1>4 DEF Kept
<1>6. OffsetIn(a, s) < a.size  BY <1>1, <1>3, <1>4, <1>5
<1>7. Kept(a, b, s) /\ b.streams[s].attached /\ OffsetIn(b, s) = off - 1 + 1
      /\ b.value = <<ItemAt(q, off - 1)>>
  BY <1>4, <1>5, <1>6, ReadOne
<1> HIDE DEF b
<1>8. FileInv(b) /\ b.size = q.size /\ OffsetIn(b, s) = off  BY <1>1, <1>5, <1>7 DEF Kept
<1>9. Kept(b, c, s) /\ c.streams[s].attached /\ OffsetIn(c, s) = off - 1 /\ c.value = b.value
  BY <1>2, <1>3, <1>7, <1>8, SeekCurrentKeeps
<1>10. Kept(q, c, s)  BY <1>4, <1>7, <1>9, KeptByBoth
<1>11. ReadItemBack(q, s) = c  BY DEF ReadItemBack, a, b
<1> HIDE DEF c
<1> QED  BY <1>7, <1>9, <1>10, <1>11 DEF off

(* A call that goes on to the next block at the end of one is in a block then. *)
LEMMA BlockReady ==
  ASSUME NEW q, FileInv(q), NEW s \in FileStreams, q.streams[s].attached
  PROVE  LET p == IF q.streams[s].index >= FileBlock THEN UpdateBlock(q, s) ELSE q
         IN  /\ Kept(q, p, s) /\ p.streams[s].attached /\ Placed(p, p.streams[s])
             /\ p.streams[s].index < FileBlock
             /\ OffsetIn(p, s) = OffsetIn(q, s) /\ p.value = q.value
<1> DEFINE st == q.streams[s]
<1>1. st \in Places /\ PlaceOK(q, st) /\ FileBlock \in Nat /\ Huge \in Nat /\ Huge > FileBlock
  BY Place, Words
<1>2. CASE st.index >= FileBlock
  <2>1. st.nextBlock = Huge => Placed(q, st)  BY <1>1, Words DEF PlaceOK, Pending
  <2>2. Placed(q, st) => st.index \in 0 .. FileBlock  BY DEF Placed
  <2>3. st.nextBlock = Huge => st.index = FileBlock  BY <1>1, <1>2, <2>1, <2>2
  <2> QED  BY <1>2, <2>3, BlockUpdated
<1>3. CASE ~(st.index >= FileBlock)
  <2>1. st.index < FileBlock  BY <1>1, <1>3 DEF Places
  <2>2. Placed(q, st)  BY <1>1, <2>1 DEF PlaceOK, Pending
  <2>3. Kept(q, q, s)  BY KeptByNone
  <2> QED  BY <1>3, <2>1, <2>2, <2>3
<1> QED  BY <1>2, <1>3

(* What has been read of n items, from the offset of the stream on, after     *)
(* some rounds.  A round that is not at the end of a block takes no more than *)
(* there is.                                                                  *)
Round(q, s, n, r) ==
  /\ r.left \in 0 .. n /\ r.read \in Seq(Datum) /\ Len(r.read) = n - r.left
  /\ \A i \in 1 .. n - r.left : r.read[i] = ItemAt(q, OffsetIn(q, s) + i - 1)
  /\ Kept(q, r.file, s) /\ r.file.streams[s].attached /\ r.file.value = q.value
  /\ OffsetIn(r.file, s) = OffsetIn(q, s) + (n - r.left)
  /\ \/ r.file.streams[s].index >= FileBlock
     \/ OffsetIn(r.file, s) + Smaller(r.left, FileBlock - r.file.streams[s].index) <= q.size

LEMMA RoundReads ==
  ASSUME NEW q, FileInv(q), NEW s \in FileStreams, q.streams[s].attached,
         NEW n \in Nat, NEW r, Round(q, s, n, r)
  PROVE  LET r2 == ReadRound(r, s)
         IN  /\ Round(q, s, n, r2)
             /\ r2.left < r.left \/ r2.left = 0 \/ OffsetIn(q, s) + n > q.size
<1> DEFINE off == OffsetIn(q, s)
           f == r.file
           left == r.left
           fetch == f.streams[s].index >= FileBlock
           at == OffsetIn(f, s)
           p == IF fetch THEN UpdateBlock(f, s) ELSE f
           st == p.streams[s]
           items == IF st.block = Huge THEN <<>> ELSE p.used[st.block].items
           count == Smaller(FileBlock - st.index, left)
           more == [i \in 1 .. count |-> IF st.index + i <= Len(items) THEN items[st.index + i]
                                         ELSE "garbage"]
           stops == left = 0 \/ (fetch /\ at + left > f.size)
           r2 == ReadRound(r, s)
           next == [file |-> [p EXCEPT !.streams[s].index = @ + count],
                    left |-> left - count, read |-> r.read \o more]
<1>1. /\ left \in 0 .. n /\ r.read \in Seq(Datum) /\ Len(r.read) = n - left
      /\ \A i \in 1 .. n - left : r.read[i] = ItemAt(q, off + i - 1)
      /\ Kept(q, f, s) /\ f.streams[s].attached /\ f.value = q.value
      /\ at = off + (n - left)
      /\ fetch \/ at + Smaller(left, FileBlock - f.streams[s].index) <= q.size
  BY DEF Round
<1>2. r2 = IF stops THEN r ELSE next  BY DEF ReadRound
<1> HIDE DEF r2
<1>3. FileInv(f) /\ f.size = q.size  BY <1>1 DEF Kept
<1>4. q.size \in Nat /\ off \in 0 .. q.size /\ at \in 0 .. q.size
      /\ f.streams[s] \in Places /\ PlaceOK(f, f.streams[s]) /\ FileBlock \in Nat
      /\ Huge \in Nat /\ Huge > FileBlock /\ FileBlock > 0
  BY <1>1, <1>3, Offsets, Place, Words
<1>5. CASE stops
  <2> HIDE DEF off, at, left
  <2>1. left = 0 \/ at + left > q.size  BY <1>3, <1>5
  <2>2. left = 0 \/ off + n > q.size  BY <1>1, <1>4, <2>1
  <2>3. r2 = r  BY <1>2, <1>5
  <2> QED  BY <2>2, <2>3 DEF left, off, r2
<1>6. CASE ~stops
  <2>1. /\ Kept(f, p, s) /\ st.attached /\ Placed(p, st) /\ st.index < FileBlock
        /\ OffsetIn(p, s) = at /\ p.value = f.value
        /\ at + Smaller(left, FileBlock - st.index) <= q.size
    <3>1. /\ Kept(f, p, s) /\ st.attached /\ Placed(p, st) /\ st.index < FileBlock
          /\ OffsetIn(p, s) = at /\ p.value = f.value
      BY <1>1, <1>3, BlockReady
    <3>2. CASE fetch
      <4>1. st.index \in Nat  BY <1>4, <3>1 DEF Placed
      <4> HIDE DEF p, left, at, fetch
      <4>2. at + left <= q.size /\ left \in Nat /\ at \in Nat  BY <1>1, <1>3, <1>4, <1>6, <3>2
      <4>3. at + Smaller(left, FileBlock - st.index) <= q.size
        BY <1>4, <4>1, <4>2 DEF Smaller
      <4> QED  BY <3>1, <4>3
    <3>3. CASE ~fetch
      <4>1. p = f  BY <3>3
      <4> QED  BY <1>1, <3>1, <3>3, <4>1
    <3> QED  BY <3>2, <3>3
  <2> HIDE DEF p
  <2>2. FileInv(p) /\ p.size = q.size /\ Kept(q, p, s)
        /\ \A k \in 0 .. q.size - 1 : ItemAt(p, k) = ItemAt(q, k)
    <3>1. Kept(q, p, s)  BY <1>1, <2>1, KeptByBoth
    <3> QED  BY <3>1 DEF Kept
  <2>3. /\ st.block # Huge /\ st.start \in Nat /\ st.start <= p.size /\ st.index \in 0 .. FileBlock
        /\ OffsetIn(p, s) = st.start + st.index /\ items \in Seq(FileItems)
        /\ Len(items) \in 0 .. FileBlock /\ Len(items) = Smaller(FileBlock, p.size - st.start)
        /\ \A i \in 0 .. Len(items) - 1 :
             st.start + i < p.size /\ items[i + 1] = ItemAt(p, st.start + i)
    <3>1. st.block # Huge  BY <2>1 DEF Placed
    <3>2. items = p.used[st.block].items  BY <3>1
    <3> HIDE DEF items
    <3> QED  BY <2>1, <2>2, <3>1, <3>2, InBlock
  <2> DEFINE i0 == st.index
             from == st.start
             l == Len(items)
             i1 == i0 + count
             p2 == AtIndex(p, s, i1)
  <2>4. /\ from \in Nat /\ i0 \in Nat /\ i0 < FileBlock /\ l = Smaller(FileBlock, q.size - from)
        /\ at = from + i0 /\ at + Smaller(left, FileBlock - i0) <= q.size /\ l \in Nat
        /\ left \in Nat /\ left # 0 /\ left <= n /\ at = off + (n - left)
        /\ count = Smaller(FileBlock - i0, left) /\ i1 = i0 + count
    <3>1. left # 0  BY <1>6
    <3>2. left \in Nat /\ left <= n /\ at = off + (n - left)  BY <1>1
    <3>3. from \in Nat /\ i0 \in 0 .. FileBlock /\ i0 < FileBlock /\ at = from + i0
      BY <2>1, <2>3
    <3>4. l = Smaller(FileBlock, q.size - from) /\ l \in 0 .. FileBlock  BY <2>2, <2>3
    <3>5. at + Smaller(left, FileBlock - i0) <= q.size  BY <2>1
    <3>6. l \in Nat /\ i0 \in Nat
      <4> HIDE DEF l, i0
      <4> QED  BY <1>4, <3>3, <3>4
    <3> QED  BY <3>1, <3>2, <3>3, <3>4, <3>5, <3>6
  <2> HIDE DEF items, l, i0, from, count, left, at, off, i1, f
  <2>5. /\ count \in Nat /\ count > 0 /\ count <= left /\ i0 + count <= l /\ from + (i0 + count) <= q.size
        /\ i0 + count \in 0 .. FileBlock
        /\ count = left \/ i0 + count = FileBlock
    BY <1>4, <2>4 DEF Smaller
  <2>6. next.file = p2 /\ next.left = left - count /\ next.read = r.read \o more
    BY DEF AtIndex, i1, i0
  <2> HIDE DEF next, p2
  <2>7. /\ Kept(p, p2, s) /\ p2.streams[s].index = i1 /\ p2.streams[s].attached
        /\ OffsetIn(p2, s) = from + i1 /\ p2.value = p.value
    BY <2>1, <2>2, <2>4, <2>5, IndexMoves DEF from, p2
  <2>8. Kept(q, p2, s)  BY <2>2, <2>7, KeptByBoth
  <2>9. \A i \in 1 .. count : more[i] = ItemAt(q, off + (n - left) + i - 1) /\ more[i] \in FileItems
    <3> TAKE i \in 1 .. count
    <3> DEFINE k == i0 + i - 1
    <3>1. k \in 0 .. l - 1 /\ i0 + i <= l /\ k + 1 = i0 + i /\ from + k \in 0 .. q.size - 1
          /\ from + k = off + (n - left) + i - 1
      <4>1. off \in Nat /\ n - left \in Nat /\ from + i0 = off + (n - left) /\ q.size \in Nat
        BY <1>4, <2>4
      <4>2. i \in Nat /\ i >= 1 /\ i <= count  BY <2>5
      <4> QED  BY <2>4, <2>5, <4>1, <4>2
    <3>2. more[i] = items[i0 + i]  BY <3>1 DEF i0, l
    <3>3. items[k + 1] = ItemAt(p, from + k)
      <4> HIDE DEF k
      <4> QED  BY <2>3, <3>1 DEF l, from
    <3> HIDE DEF k, more
    <3>4. ItemAt(p, from + k) = ItemAt(q, from + k)  BY <2>2, <3>1
    <3>5. ItemAt(q, from + k) \in FileItems  BY <3>1, ItemsAreStored
    <3> QED  BY <3>1, <3>2, <3>3, <3>4, <3>5
  <2>10. /\ more \in Seq(Datum) /\ Len(more) = count
    <3>1. more \in [1 .. count -> Datum]  BY <2>9 DEF Datum
    <3> HIDE DEF more
    <3> QED  BY <2>5, <3>1
  <2> HIDE DEF more
  <2> DEFINE read == r.read
  <2>11. /\ read \in Seq(Datum) /\ Len(read) = n - left
         /\ \A i \in 1 .. n - left : read[i] = ItemAt(q, off + i - 1)
    BY <1>1 DEF left, off
  <2> HIDE DEF read
  <2>12. /\ read \o more \in Seq(Datum) /\ Len(read \o more) = n - (left - count)
         /\ \A i \in 1 .. n - (left - count) : (read \o more)[i] = ItemAt(q, off + i - 1)
    <3>1. read \o more \in Seq(Datum) /\ Len(read \o more) = n - left + count
      BY <2>10, <2>11, ConcatProperties
    <3>2. ASSUME NEW i \in 1 .. n - (left - count)
          PROVE  (read \o more)[i] = ItemAt(q, off + i - 1)
      <4>0. off \in Nat /\ left \in Nat /\ n \in Nat /\ left <= n  BY <1>4, <2>4
      <4>1. CASE i <= n - left
        <5>1. i \in 1 .. n - left  BY <2>5, <4>0, <4>1
        <5>2. (read \o more)[i] = read[i]  BY <2>10, <2>11, <5>1, ConcatProperties
        <5> QED  BY <2>11, <5>1, <5>2
      <4>2. CASE ~(i <= n - left)
        <5>1. i - (n - left) \in 1 .. count /\ i \in 1 .. n - left + count
              /\ off + (n - left) + (i - (n - left)) - 1 = off + i - 1
          BY <2>5, <4>0, <4>2
        <5>2. (read \o more)[i] = more[i - (n - left)]
          BY <2>10, <2>11, <4>2, <5>1, ConcatProperties
        <5> QED  BY <2>9, <5>1, <5>2
      <4> QED  BY <4>1, <4>2
    <3>3. n - left + count = n - (left - count)  BY <2>4, <2>5
    <3> QED  BY <3>1, <3>2, <3>3
  <2>13. from + i1 = off + (n - (left - count)) /\ left - count \in 0 .. n /\ left - count < left
    BY <1>4, <2>4, <2>5 DEF i1
  <2>14. i1 >= FileBlock \/ from + i1 + Smaller(left - count, FileBlock - i1) <= q.size
    BY <1>4, <2>4, <2>5 DEF i1, Smaller
  <2>15. Round(q, s, n, next)
    BY <1>1, <2>1, <2>6, <2>7, <2>8, <2>12, <2>13, <2>14 DEF Round, off, f, read
  <2>16. r2 = next  BY <1>2, <1>6
  <2> QED  BY <2>6, <2>13, <2>15, <2>16 DEF left, r2
<1> QED  BY <1>5, <1>6

(* From one number to the next. *)
LEMMA UpTo ==
  ASSUME NEW n \in Nat, NEW P, 0 \in P, \A k \in 1 .. n : k - 1 \in P => k \in P
  PROVE  n \in P
<1> DEFINE Bad == {k \in 0 .. n : k \notin P}
           R == OpToRel(<, Nat)
<1> SUFFICES ASSUME Bad # {} PROVE FALSE  OBVIOUS
<1>1. Bad \subseteq Nat  OBVIOUS
<1>2. PICK m \in Bad : \A k \in Bad : ~(<<k, m>> \in R)
  <2>1. IsWellFoundedOn(R, Nat)  BY NatLessThanWellFounded
  <2> HIDE DEF R, Bad
  <2> QED  BY <1>1, <2>1, WFMin
<1>3. m \in 1 .. n
  <2>1. m \in 0 .. n /\ m \notin P  OBVIOUS
  <2>2. m # 0  BY <2>1
  <2> QED  BY <2>1, <2>2
<1>4. m - 1 \in 0 .. n /\ m - 1 < m /\ m - 1 \in Nat /\ m \in Nat  BY <1>3
<1>5. <<m - 1, m>> \in R  BY <1>4 DEF OpToRel
<1>6. m - 1 \in P
  <2> HIDE DEF R
  <2>1. m - 1 \notin Bad  BY <1>2, <1>5
  <2> QED  BY <1>4, <2>1
<1> QED  BY <1>2, <1>3, <1>6

(* The rounds of read() of an array. *)
Rounds(f, q, s, n, m) ==
  f = [k \in 0 .. m |-> IF k = 0 THEN [file |-> q, left |-> n, read |-> <<>>]
                        ELSE ReadRound(f[k - 1], s)]

LEMMA RoundsExist ==
  ASSUME NEW q, NEW s, NEW n \in Nat
  PROVE  \E f : Rounds(f, q, s, n, n)
<1> DEFINE x == [file |-> q, left |-> n, read |-> <<>>]
           P == {m \in 0 .. n : \E f : Rounds(f, q, s, n, m)}
<1>1. 0 \in P
  <2>1. Rounds([k \in 0 .. 0 |-> x], q, s, n, 0)  BY DEF Rounds
  <2> HIDE DEF x
  <2> QED  BY <2>1
<1>2. ASSUME NEW m \in 1 .. n, m - 1 \in P PROVE m \in P
  <2>1. PICK f : Rounds(f, q, s, n, m - 1)  BY <1>2
  <2> HIDE DEF x
  <2>2. \A k \in 0 .. m - 1 : f[k] = IF k = 0 THEN x ELSE ReadRound(f[k - 1], s)
    BY <2>1 DEF Rounds, x
  <2> DEFINE g == [k \in 0 .. m |-> IF k = m THEN ReadRound(f[m - 1], s) ELSE f[k]]
  <2>3. ASSUME NEW k \in 0 .. m PROVE g[k] = IF k = 0 THEN x ELSE ReadRound(g[k - 1], s)
    <3>1. CASE k = m
      <4>1. k - 1 \in 0 .. m /\ k - 1 # m /\ k # 0  BY <1>2, <3>1
      <4>2. g[k - 1] = f[m - 1]  BY <3>1, <4>1
      <4> QED  BY <3>1, <4>1, <4>2
    <3>2. CASE k # m
      <4>1. k \in 0 .. m - 1  BY <1>2, <3>2
      <4>2. g[k] = f[k]  BY <3>2, <4>1
      <4>3. k # 0 => k - 1 \in 0 .. m /\ k - 1 # m  BY <4>1
      <4>4. k # 0 => g[k - 1] = f[k - 1]  BY <4>3
      <4> QED  BY <2>2, <4>1, <4>2, <4>4
    <3> QED  BY <3>1, <3>2
  <2>4. Rounds(g, q, s, n, m)
    <3>1. DOMAIN g = 0 .. m /\ g = [k \in 0 .. m |-> g[k]]  OBVIOUS
    <3> HIDE DEF g
    <3> QED  BY <2>3, <3>1 DEF Rounds, x
  <2> HIDE DEF g
  <2> QED  BY <1>2, <2>4
<1>3. n \in P
  <2> HIDE DEF P
  <2> QED  BY <1>1, <1>2, UpTo
<1> QED  BY <1>3

(* read() of an array: all of it, or nothing, when there is less.            *)
LEMMA ReadMany ==
  ASSUME NEW q, FileInv(q), NEW s \in FileStreams, q.streams[s].attached,
         NEW n \in Nat,
         \/ q.streams[s].index >= FileBlock
         \/ OffsetIn(q, s) + Smaller(n, FileBlock - q.streams[s].index) <= q.size
  PROVE  LET p == ReadItems(q, s, n)
         IN  /\ Kept(q, p, s) /\ p.streams[s].attached
             /\ OffsetIn(q, s) + n <= q.size =>
                  /\ OffsetIn(p, s) = OffsetIn(q, s) + n
                  /\ p.value \in Seq(Datum) /\ Len(p.value) = n
                  /\ \A i \in 1 .. n : p.value[i] = ItemAt(q, OffsetIn(q, s) + i - 1)
             /\ ~(OffsetIn(q, s) + n <= q.size) => p.value = q.value
<1> DEFINE off == OffsetIn(q, s)
           x == [file |-> q, left |-> n, read |-> <<>>]
           f == CHOOSE g : Rounds(g, q, s, n, n)
           last == f[n]
           p == ReadItems(q, s, n)
<1>1. p = IF last.left = 0 THEN [last.file EXCEPT !.value = last.read] ELSE last.file
  BY DEF ReadItems, Rounds
<1>2. Rounds(f, q, s, n, n)  BY RoundsExist
<1> HIDE DEF f, p
<1>3. \A k \in 0 .. n : f[k] = IF k = 0 THEN x ELSE ReadRound(f[k - 1], s)
  BY <1>2 DEF Rounds
<1>4. off \in 0 .. q.size /\ q.size \in Nat  BY Offsets, Place
<1> DEFINE Done(k) == Round(q, s, n, f[k])
                      /\ (f[k].left = 0 \/ off + n > q.size \/ n - f[k].left >= k)
           P == {k \in 0 .. n : Done(k)}
<1>5. 0 \in P
  <2>1. f[0] = x  BY <1>3
  <2>2. Kept(q, q, s)  BY KeptByNone
  <2>3. <<>> \in Seq(Datum) /\ Len(<<>>) = 0  OBVIOUS
  <2>4. off = off + (n - n) /\ n \in 0 .. n /\ n - n = 0  BY <1>4
  <2> HIDE DEF off
  <2>5. Round(q, s, n, x)  BY <2>2, <2>3, <2>4 DEF Round, off
  <2> QED  BY <2>1, <2>4, <2>5
<1>6. ASSUME NEW k \in 1 .. n, k - 1 \in P PROVE k \in P
  <2> DEFINE r == f[k - 1]
             t == f[k]
  <2>1. t = ReadRound(r, s)  BY <1>3
  <2>2. Round(q, s, n, r) /\ (r.left = 0 \/ off + n > q.size \/ n - r.left >= k - 1)  BY <1>6
  <2>3. k \in 0 .. n  BY <1>6
  <2> HIDE DEF r, t
  <2>4. Round(q, s, n, t) /\ (t.left < r.left \/ t.left = 0 \/ off + n > q.size)
    BY <2>1, <2>2, RoundReads
  <2>5. t.left \in 0 .. n /\ r.left \in 0 .. n  BY <2>2, <2>4 DEF Round
  <2>6. t.left = 0 \/ off + n > q.size \/ n - t.left >= k
    <3> HIDE DEF off
    <3> DEFINE a == t.left
               b == r.left
    <3>1. /\ a \in 0 .. n /\ b \in 0 .. n /\ (b = 0 \/ off + n > q.size \/ n - b >= k - 1)
          /\ (a < b \/ a = 0 \/ off + n > q.size)
      BY <2>2, <2>4, <2>5
    <3> HIDE DEF a, b
    <3>2. a = 0 \/ off + n > q.size \/ n - a >= k  BY <1>6, <3>1
    <3> QED  BY <3>2 DEF a
  <2> QED  BY <2>3, <2>4, <2>6 DEF t
<1>7. Done(n)
  <2>1. n \in P
    <3> HIDE DEF P
    <3> QED  BY <1>5, <1>6, UpTo
  <2> QED  BY <2>1
<1> HIDE DEF last, off
<1>8. Round(q, s, n, last) /\ (last.left = 0 \/ off + n > q.size \/ n - last.left >= n)
  BY <1>7 DEF last
<1>9. /\ last.left \in 0 .. n /\ last.read \in Seq(Datum) /\ Len(last.read) = n - last.left
      /\ \A i \in 1 .. n - last.left : last.read[i] = ItemAt(q, off + i - 1)
      /\ Kept(q, last.file, s) /\ last.file.streams[s].attached /\ last.file.value = q.value
      /\ OffsetIn(last.file, s) = off + (n - last.left)
  BY <1>8 DEF Round, off
<1>10. FileInv(last.file) /\ last.file.size = q.size  BY <1>9 DEF Kept
<1>11. OffsetIn(last.file, s) \in 0 .. q.size  BY <1>9, <1>10, Offsets
<1>12. last.left = 0 => off + n <= q.size  BY <1>4, <1>9, <1>11
<1>13. off + n <= q.size => last.left = 0  BY <1>4, <1>8, <1>9
<1>14. CASE last.left = 0
  <2> DEFINE t == last.file
             v == last.read
  <2>0. t = last.file /\ v = last.read  OBVIOUS
  <2> HIDE DEF t, v
  <2>1. p = Giving(t, v)  BY <1>1, <1>14, <2>0 DEF Giving
  <2>2. Kept(t, p, s) /\ p.value = v /\ p.streams = t.streams /\ OffsetIn(p, s) = OffsetIn(t, s)
    BY <1>9, <1>10, <2>0, <2>1, GivingKeeps
  <2>3. Kept(q, p, s)  BY <1>9, <2>0, <2>2, KeptByBoth
  <2>4. n - last.left = n  BY <1>14
  <2> QED  BY <1>9, <1>12, <1>14, <2>0, <2>2, <2>3, <2>4 DEF p, off
<1>15. CASE last.left # 0
  <2>1. p = last.file  BY <1>1, <1>15
  <2> QED  BY <1>9, <1>13, <1>15, <2>1 DEF p, off
<1> QED  BY <1>14, <1>15

-----------------------------------------------------------------------------
(* Writes. *)

(* The first n items of xs have been written, from the offset of the stream on. *)
Wrote(q, p, s, xs, n) ==
  /\ FileInv(p) /\ p.mode = q.mode /\ p.disk.header = q.disk.header
  /\ p.disk.clean = q.disk.clean /\ p.disk.size = q.disk.size
  /\ p.size = Larger(q.size, OffsetIn(q, s) + n)
  /\ p.streams[s].attached /\ OffsetIn(p, s) = OffsetIn(q, s) + n /\ p.value = q.value
  /\ \A t \in FileStreams \ {s} : p.streams[t] = q.streams[t]
  /\ \A k \in 0 .. p.size - 1 :
       ItemAt(p, k) = IF k \in OffsetIn(q, s) .. OffsetIn(q, s) + n - 1
                      THEN xs[k - OffsetIn(q, s) + 1] ELSE ItemAt(q, k)

(* An item in a block that the stream is in. *)
PutInBlock(q, w, s, x) ==
  LET st == q.streams[s]
      b  == st.block
  IN  /\ w \in Files /\ w.disk = q.disk /\ w.mode = q.mode /\ w.stored = q.stored
      /\ w.free = q.free /\ w.value = q.value /\ w.size = Larger(q.size, st.index + 1 + st.start)
      /\ \A t \in FileStreams \ {s} : w.streams[t] = q.streams[t]
      /\ w.streams[s] = [st EXCEPT !.index = @ + 1]
      /\ DOMAIN w.used = DOMAIN q.used
      /\ \A c \in DOMAIN q.used \ {b} : w.used[c] = q.used[c]
      /\ w.used[b].usage = q.used[b].usage /\ w.used[b].dirty
      /\ w.used[b].items = PutAt(q.used[b].items, st.index, x)

LEMMA PutAtIs ==
  ASSUME NEW items \in Seq(FileItems), NEW i \in 0 .. Len(items), NEW x \in FileItems
  PROVE  /\ PutAt(items, i, x) \in Seq(FileItems)
         /\ Len(PutAt(items, i, x)) = Larger(Len(items), i + 1)
         /\ PutAt(items, i, x)[i + 1] = x
         /\ \A j \in 1 .. Len(items) : j # i + 1 => PutAt(items, i, x)[j] = items[j]
<1> DEFINE n == Larger(Len(items), i + 1)
           new == [j \in 1 .. n |-> IF j = i + 1 THEN x ELSE IF j <= Len(items) THEN items[j]
                                    ELSE "garbage"]
<1>1. Len(items) \in Nat /\ i \in Nat /\ i <= Len(items)  BY LenProperties
<1>2. \A j \in 1 .. Len(items) : items[j] \in FileItems  BY ElementOfSeq
<1>3. n \in Nat /\ n >= i + 1 /\ n >= Len(items) /\ \A j \in 1 .. n : j = i + 1 \/ j <= Len(items)
  BY <1>1 DEF Larger
<1> HIDE DEF n
<1>4. new \in [1 .. n -> FileItems]  BY <1>1, <1>2, <1>3
<1>5. new[i + 1] = x /\ \A j \in 1 .. Len(items) : j # i + 1 => new[j] = items[j]
  BY <1>1, <1>3
<1>6. PutAt(items, i, x) = new  BY DEF PutAt, n
<1> HIDE DEF new
<1>7. new \in Seq(FileItems) /\ Len(new) = n  BY <1>3, <1>4
<1> QED  BY <1>5, <1>6, <1>7 DEF n

LEMMA ItemPut ==
  ASSUME NEW q, FileInv(q), NEW s \in FileStreams, q.streams[s].attached,
         Placed(q, q.streams[s]), q.streams[s].index < FileBlock, q.mode = "read_write",
         NEW x \in FileItems, NEW w, PutInBlock(q, w, s, x)
  PROVE  Wrote(q, w, s, <<x>>, 1)
<1> DEFINE st == q.streams[s]
           b == st.block
           i == st.index
           from == st.start
           off == OffsetIn(q, s)
           items == q.used[b].items
           X == w.streams[s]
           l == Len(items)
<1>1. /\ st \in Places /\ q \in Files /\ q.size \in Nat /\ PlaceOK(q, st)
      /\ FileBlock \in Nat /\ Huge \in Nat /\ Huge > FileBlock
  BY Place, Words DEF FileInv
<1>2. /\ b \in DOMAIN q.used /\ b # Huge /\ b \in Nat /\ from = BlockStart(b) /\ from \in Nat
      /\ from <= q.size /\ i \in 0 .. FileBlock /\ off = from + i /\ items \in Seq(FileItems)
      /\ l \in 0 .. FileBlock /\ l = Smaller(FileBlock, q.size - from)
  BY InBlock
<1>3. /\ w \in Files /\ w.disk = q.disk /\ w.mode = q.mode /\ w.stored = q.stored
      /\ w.free = q.free /\ w.value = q.value /\ w.size = Larger(q.size, i + 1 + from)
      /\ \A t \in FileStreams \ {s} : w.streams[t] = q.streams[t]
      /\ X = [st EXCEPT !.index = @ + 1]
      /\ DOMAIN w.used = DOMAIN q.used
      /\ \A c \in DOMAIN q.used \ {b} : w.used[c] = q.used[c]
      /\ w.used[b].usage = q.used[b].usage /\ w.used[b].dirty
      /\ w.used[b].items = PutAt(items, i, x)
  BY DEF PutInBlock
<1>4. /\ X \in Places /\ X.attached /\ X.block = b /\ X.start = from /\ X.index = i + 1
      /\ X.nextBlock = Huge /\ X.nextIndex = Huge
  BY <1>1, <1>3 DEF Places, Placed
<1> HIDE DEF b, i, from, off, items, X, l
<1>5. /\ off \in Nat /\ i \in Nat /\ l \in Nat /\ i < FileBlock /\ off <= q.size /\ off = from + i
      /\ w.size = Larger(q.size, off + 1) /\ w.size \in Nat /\ i <= l /\ i + 1 <= FileBlock
  <2>1. off <= q.size  BY <1>2, Offsets DEF Placed, i, from
  <2>2. i < FileBlock  BY DEF i
  <2>3. off \in Nat /\ i \in Nat /\ l \in Nat  BY <1>1, <1>2
  <2>4. i + 1 + from = off + 1  BY <1>2, <2>3
  <2>5. i <= l  BY <1>1, <1>2, <2>1, <2>2, <2>3 DEF Smaller
  <2> QED  BY <1>1, <1>2, <1>3, <2>1, <2>2, <2>3, <2>4, <2>5 DEF Larger
<1>6. q.size <= w.size /\ off + 1 <= w.size /\ (w.size = q.size \/ (w.size = off + 1 /\ off = q.size))
  BY <1>1, <1>5 DEF Larger
<1>6a. /\ FileBlock \in Nat /\ q.size \in Nat /\ from \in Nat /\ i \in Nat /\ l \in Nat /\ off \in Nat
       /\ off = from + i /\ off <= q.size /\ i < FileBlock /\ from <= q.size
       /\ l = Smaller(FileBlock, q.size - from) /\ w.size = Larger(q.size, off + 1)
  BY <1>1, <1>2, <1>5
<1> DEFINE new == w.used[b].items
<1>7. /\ new \in Seq(FileItems) /\ Len(new) = Larger(l, i + 1) /\ new[i + 1] = x
      /\ \A j \in 1 .. l : j # i + 1 => new[j] = items[j]
  <2>1. i \in 0 .. Len(items)  BY <1>5 DEF l
  <2> QED  BY <1>2, <1>3, <2>1, PutAtIs DEF l
<1> HIDE DEF new
<1>8. Len(new) = Smaller(FileBlock, w.size - from)
  <2> DEFINE m == Len(new)
             qs == q.size
             ws == w.size
  <2>1. m = Larger(l, i + 1)  BY <1>7
  <2> HIDE DEF m, qs, ws
  <2>2. /\ FileBlock \in Nat /\ qs \in Nat /\ from \in Nat /\ i \in Nat /\ off = from + i
        /\ off <= qs /\ i < FileBlock /\ l = Smaller(FileBlock, qs - from)
        /\ ws = Larger(qs, off + 1)
    BY <1>6a DEF qs, ws
  <2>3. m = Smaller(FileBlock, ws - from)
    <3>1. CASE off = qs  BY <2>1, <2>2, <3>1 DEF Smaller, Larger
    <3>2. CASE off < qs  BY <2>1, <2>2, <3>2 DEF Smaller, Larger
    <3> QED  BY <2>2, <3>1, <3>2
  <2> QED  BY <2>3 DEF m, ws
<1>9. \A c : UsersOf(w, c) = UsersOf(q, c)
  <2>1. w.streams[s].block = q.streams[s].block  BY <1>4 DEF X, b
  <2> QED  BY <1>3, <2>1 DEF UsersOf
<1>10. Members(w) = Members(q)
  <2>1. w.streams[s].attached /\ q.streams[s].attached  BY <1>4 DEF X
  <2> QED  BY <1>3, <2>1 DEF Members
<1>11. StreamsOK(w)
  <2>1. ASSUME NEW Y \in Places, PlaceOK(q, Y) PROVE PlaceOK(w, Y)
    <3>1. Placed(q, Y) => Placed(w, Y)
      <4> DEFINE a == Y.start + Y.index
      <4>1. a \in Int  BY <2>1 DEF Places
      <4> HIDE DEF a
      <4>2. a <= q.size => a <= w.size  BY <1>1, <1>5, <1>6, <4>1
      <4> QED  BY <4>2 DEF Placed, a
    <3>2. Pending(q, Y) => Pending(w, Y)
      <4> SUFFICES ASSUME Pending(q, Y) PROVE Pending(w, Y)  OBVIOUS
      <4> DEFINE a == BlockStart(Y.nextBlock) + Y.nextIndex
      <4>1. a \in Int  BY <2>1, BlockStarts DEF Places
      <4>2. a <= q.size  BY DEF Pending
      <4> HIDE DEF a
      <4>3. a <= w.size  BY <1>1, <1>5, <1>6, <4>1, <4>2
      <4> QED  BY <4>3 DEF Pending, a
    <3> QED  BY <1>3, <2>1, <3>1, <3>2 DEF PlaceOK
  <2>2. PlaceOK(w, X)
    <3>1. i + 1 \in 0 .. FileBlock /\ from + (i + 1) <= w.size  BY <1>1, <1>2, <1>5, <1>6
    <3>2. Placed(w, X)  BY <1>2, <1>4, <3>1 DEF Placed
    <3> QED  BY <1>2, <1>3, <1>4, <3>2 DEF PlaceOK
  <2>3. ASSUME NEW t \in FileStreams
        PROVE  IF w.streams[t].attached THEN PlaceOK(w, w.streams[t])
               ELSE w.streams[t] = Unattached
    <3>1. CASE t = s  BY <1>4, <2>2, <3>1 DEF X
    <3>2. CASE t # s
      <4>1. w.streams[t] = q.streams[t]  BY <1>3, <3>2
      <4>2. q.streams[t] \in Places  BY <1>1, Fields
      <4>3. IF q.streams[t].attached THEN PlaceOK(q, q.streams[t]) ELSE q.streams[t] = Unattached
        BY DEF FileInv, StreamsOK
      <4> QED  BY <2>1, <4>1, <4>2, <4>3
    <3> QED  BY <3>1, <3>2
  <2> QED  BY <2>3 DEF StreamsOK
<1>12. ASSUME NEW c \in DOMAIN w.used PROVE BlockOK(w, c)
  <2>1. c \in DOMAIN q.used /\ BlockOK(q, c) /\ c \in Nat /\ BlockStart(c) \in Nat
        /\ BlockStart(c) <= q.size
    BY <1>3, UsedBlock
  <2>2. BlockStart(c) <= w.size
    <3> DEFINE k == BlockStart(c)
    <3>1. k \in Nat /\ k <= q.size  BY <2>1
    <3> HIDE DEF k
    <3>2. k <= w.size  BY <1>1, <1>5, <1>6, <3>1
    <3> QED  BY <3>2 DEF k
  <2>3. CASE c = b
    <3>1. w.used[b].usage = Cardinality(UsersOf(w, b)) /\ UsersOf(w, b) # {}
      BY <1>3, <1>9, <2>1, <2>3 DEF BlockOK
    <3>2. Len(w.used[b].items) = Smaller(FileBlock, w.size - BlockStart(b))
      BY <1>2, <1>8 DEF new
    <3> QED  BY <1>3, <2>2, <2>3, <3>1, <3>2 DEF BlockOK
  <2>4. CASE c # b
    <3>1. w.used[c] = q.used[c]  BY <1>3, <2>1, <2>4
    <3>2. Smaller(FileBlock, w.size - BlockStart(c)) = Smaller(FileBlock, q.size - BlockStart(c))
      <4>1. CASE w.size = q.size  BY <4>1
      <4>2. CASE w.size = off + 1 /\ off = q.size
        <5>1. (c < b /\ BlockStart(c) + FileBlock <= from)
              \/ (b < c /\ from + FileBlock <= BlockStart(c))
          BY <1>2, <2>1, <2>4, BlocksInOrder
        <5> DEFINE k == BlockStart(c)
        <5>2. k \in Nat /\ k <= q.size /\ (k + FileBlock <= from \/ from + FileBlock <= k)
          BY <2>1, <5>1
        <5> HIDE DEF k
        <5>3. Smaller(FileBlock, w.size - k) = Smaller(FileBlock, q.size - k)
          <6>1. k + FileBlock <= q.size  BY <1>6a, <4>2, <5>2
          <6>2. q.size - k >= FileBlock /\ w.size - k >= FileBlock  BY <1>6a, <4>2, <5>2, <6>1
          <6>3. Smaller(FileBlock, q.size - k) = FileBlock  BY <1>6a, <5>2, <6>2 DEF Smaller
          <6>4. Smaller(FileBlock, w.size - k) = FileBlock  BY <1>6a, <4>2, <5>2, <6>2 DEF Smaller
          <6> QED  BY <6>3, <6>4
        <5> QED  BY <5>3 DEF k
      <4> QED  BY <1>6, <4>1, <4>2
    <3> QED  BY <1>3, <1>9, <2>1, <2>2, <3>1, <3>2 DEF BlockOK
  <2> QED  BY <2>3, <2>4
<1>13. BlockAt(off) = b /\ IndexOf(off) = i
  <2>1. i \in 0 .. FileBlock - 1  BY <1>1, <1>5
  <2> QED  BY <1>2, <2>1, PartsOffset
<1>14. RestOnDisk(w)
  <2> SUFFICES ASSUME NEW n \in 0 .. w.size - 1
               PROVE  BlockAt(n) \in DOMAIN w.used
                      \/ (n < w.stored /\ w.disk.items[n + 1] \in FileItems)
    BY DEF RestOnDisk
  <2>1. CASE n = off  BY <1>2, <1>3, <1>13, <2>1
  <2>2. CASE n # off
    <3>1. n \in 0 .. q.size - 1  BY <1>1, <1>5, <1>6, <2>2
    <3> QED  BY <1>3, <3>1 DEF FileInv, RestOnDisk
  <2> QED  BY <2>1, <2>2
<1>15. DiskOK(w)
  <2>1. q.stored <= q.size /\ q.stored \in Nat  BY <1>1, Fields, Words DEF FileInv, DiskOK
  <2>2. w.stored <= w.size  BY <1>1, <1>3, <1>5, <1>6, <2>1
  <2> QED  BY <1>3, <2>2 DEF FileInv, DiskOK
<1>16. BuffersOK(w)  BY <1>3, <1>10 DEF FileInv, BuffersOK
<1>17. FileInv(w)  BY <1>3, <1>11, <1>12, <1>14, <1>15, <1>16 DEF FileInv, BlocksOK
<1>18. OffsetIn(w, s) = off + 1
  <2>1. w.streams[s].attached  BY <1>4 DEF X
  <2>2. Placed(w, w.streams[s])
    <3>1. i + 1 \in 0 .. FileBlock /\ from + (i + 1) <= w.size  BY <1>1, <1>2, <1>5, <1>6
    <3> QED  BY <1>2, <1>4, <3>1 DEF Placed, X
  <2>3. OffsetIn(w, s) = w.streams[s].start + w.streams[s].index  BY <1>17, <2>1, <2>2, Offsets
  <2>4. OffsetIn(w, s) = from + (i + 1)  BY <1>4, <2>3 DEF X
  <2> QED  BY <1>2, <1>5, <2>4
<1>19. ASSUME NEW n \in 0 .. w.size - 1
       PROVE  ItemAt(w, n) = IF n = off THEN x ELSE ItemAt(q, n)
  <2>1. ItemAt(w, n) = Stored(w, n)  BY <1>17, ItemsAreStored
  <2>2. CASE n = off
    <3>1. Stored(w, n) = new[i + 1]  BY <1>2, <1>3, <1>13, <2>2 DEF Stored, new
    <3> QED  BY <1>7, <2>1, <2>2, <3>1
  <2>3. CASE n # off
    <3>1. n \in 0 .. q.size - 1 /\ n \in Nat  BY <1>1, <1>5, <1>6, <2>3
    <3>2. ItemAt(q, n) = Stored(q, n)  BY <3>1, ItemsAreStored
    <3>3. CASE BlockAt(n) = b
      <4> DEFINE j == IndexOf(n)
      <4>1. n = from + j /\ j \in 0 .. FileBlock - 1  BY <1>2, <3>1, <3>3, OffsetParts
      <4>2. Stored(q, n) = items[j + 1] /\ Stored(w, n) = new[j + 1]
        BY <1>2, <1>3, <3>3 DEF Stored, items, new
      <4> HIDE DEF j
      <4>3. j + 1 # i + 1 /\ j + 1 \in 1 .. l
        <5>1. n \in Nat /\ n < q.size /\ j \in Nat /\ j < FileBlock  BY <1>6a, <3>1, <4>1
        <5>2. j # i  BY <1>6a, <2>3, <4>1, <5>1
        <5>3. j < l  BY <1>6a, <4>1, <5>1 DEF Smaller
        <5> QED  BY <1>6a, <5>1, <5>2, <5>3
      <4> QED  BY <1>7, <2>1, <2>3, <3>2, <4>2, <4>3
    <3>4. CASE BlockAt(n) # b
      BY <1>3, <2>1, <2>3, <3>2, <3>4 DEF Stored
    <3> QED  BY <3>3, <3>4
  <2> QED  BY <2>2, <2>3
<1>20. ASSUME NEW n \in 0 .. w.size - 1
       PROVE  ItemAt(w, n) = IF n \in off .. off + 1 - 1 THEN <<x>>[n - off + 1] ELSE ItemAt(q, n)
  <2>1. n \in off .. off + 1 - 1 <=> n = off  BY <1>5
  <2>2. n = off => n - off + 1 = 1  BY <1>5
  <2>3. <<x>>[1] = x  OBVIOUS
  <2> QED  BY <1>19, <2>1, <2>2, <2>3
<1> QED  BY <1>3, <1>4, <1>5, <1>17, <1>18, <1>20 DEF Wrote, off, X

LEMMA WroteNone ==
  ASSUME NEW q, FileInv(q), NEW s \in FileStreams, q.streams[s].attached, NEW xs,
         NEW p, Kept(q, p, s), p.streams[s].attached, OffsetIn(p, s) = OffsetIn(q, s),
         p.value = q.value
  PROVE  Wrote(q, p, s, xs, 0)
<1> DEFINE off == OffsetIn(q, s)
<1>1. off \in 0 .. q.size /\ q.size \in Nat /\ p.size = q.size  BY Offsets, Place DEF Kept
<1> HIDE DEF off
<1>2. off + 0 = off /\ p.size = Larger(q.size, off + 0)  BY <1>1 DEF Larger
<1>3. ASSUME NEW k \in 0 .. p.size - 1
      PROVE  ItemAt(p, k) = IF k \in off .. off + 0 - 1 THEN xs[k - off + 1] ELSE ItemAt(q, k)
  <2>1. k \notin off .. off + 0 - 1  BY <1>1
  <2>2. ItemAt(p, k) = ItemAt(q, k)  BY <1>1 DEF Kept
  <2> QED  BY <2>1, <2>2
<1> QED  BY <1>2, <1>3 DEF Wrote, Kept, off

LEMMA WroteMore ==
  ASSUME NEW q, FileInv(q), NEW s \in FileStreams, q.streams[s].attached, NEW xs,
         NEW m \in Nat, NEW n \in Nat, n = m + 1, NEW f, Wrote(q, f, s, xs, m),
         NEW x, xs[n] = x, NEW w, Wrote(f, w, s, <<x>>, 1)
  PROVE  Wrote(q, w, s, xs, n)
<1> DEFINE off == OffsetIn(q, s)
           a == OffsetIn(f, s)
<1>1. off \in 0 .. q.size /\ q.size \in Nat  BY Offsets, Place
<1>2. a = off + m /\ f.size = Larger(q.size, off + m)  BY DEF Wrote
<1>3. OffsetIn(w, s) = a + 1 /\ w.size = Larger(f.size, a + 1)  BY DEF Wrote
<1>4. /\ FileInv(w) /\ w.mode = q.mode /\ w.disk.header = q.disk.header
      /\ w.disk.clean = q.disk.clean /\ w.disk.size = q.disk.size
      /\ w.streams[s].attached /\ w.value = q.value
      /\ \A t \in FileStreams \ {s} : w.streams[t] = q.streams[t]
  BY DEF Wrote
<1>5. /\ \A k \in 0 .. f.size - 1 :
           ItemAt(f, k) = IF k \in off .. off + m - 1 THEN xs[k - off + 1] ELSE ItemAt(q, k)
      /\ \A k \in 0 .. w.size - 1 :
           ItemAt(w, k) = IF k \in a .. a + 1 - 1 THEN <<x>>[k - a + 1] ELSE ItemAt(f, k)
  BY DEF Wrote
<1> HIDE DEF off, a
<1>6. off \in Nat /\ a \in Nat /\ f.size \in Nat /\ w.size \in Nat
      /\ (f.size = q.size \/ f.size = off + m) /\ (w.size = f.size \/ w.size = a + 1)
      /\ a <= f.size
  BY <1>1, <1>2, <1>3 DEF Larger
<1>7. OffsetIn(w, s) = off + n /\ w.size = Larger(q.size, off + n)
  BY <1>1, <1>2, <1>3, <1>6 DEF Larger
<1>8. ASSUME NEW k \in 0 .. w.size - 1
      PROVE  ItemAt(w, k) = IF k \in off .. off + n - 1 THEN xs[k - off + 1] ELSE ItemAt(q, k)
  <2>0. k \in Nat  BY <1>6
  <2>1. CASE k = a
    <3>1. k \in a .. a + 1 - 1 /\ k - a + 1 = 1 /\ k \in off .. off + n - 1 /\ k - off + 1 = n
      BY <1>2, <1>6, <2>1
    <3> QED  BY <1>5, <3>1
  <2>2. CASE k # a
    <3>1. k \notin a .. a + 1 - 1 /\ k \in 0 .. f.size - 1
          /\ (k \in off .. off + n - 1 <=> k \in off .. off + m - 1)
      BY <1>2, <1>6, <2>0, <2>2
    <3> QED  BY <1>5, <3>1
  <2> QED  BY <2>1, <2>2
<1> QED  BY <1>4, <1>7, <1>8 DEF Wrote, off

Marked(used, b, i, x) ==
  [used EXCEPT ![b] = [used[b] EXCEPT !.dirty = TRUE, !.items = PutAt(used[b].items, i, x)]]

(* write() *)
LEMMA WriteOne ==
  ASSUME NEW q, FileInv(q), NEW s \in FileStreams, q.streams[s].attached,
         q.mode = "read_write", OffsetIn(q, s) + 1 <= MaxFileSize, NEW x \in FileItems
  PROVE  Wrote(q, WriteItem(q, s, x), s, <<x>>, 1)
<1> DEFINE fetch == q.streams[s].index >= FileBlock
           p == IF fetch THEN UpdateBlock(q, s) ELSE q
           st == p.streams[s]
           b == st.block
           i == st.index
           w == WriteItem(q, s, x)
           X == [st EXCEPT !.index = @ + 1]
           size == Larger(p.size, i + 1 + st.start)
           new == [p.used[b] EXCEPT !.dirty = TRUE, !.items = PutAt(@, i, x)]
           S == [p.streams EXCEPT ![s] = X]
           U == [p.used EXCEPT ![b] = new]
<1>1. /\ Kept(q, p, s) /\ st.attached /\ Placed(p, st) /\ st.index < FileBlock
      /\ OffsetIn(p, s) = OffsetIn(q, s) /\ p.value = q.value
  BY BlockReady
<1>2. b # Huge  BY <1>1 DEF Placed
<1>3. w = [p EXCEPT !.streams[s].index = @ + 1, !.size = Larger(@, i + 1 + st.start),
                    !.used[b].dirty = TRUE, !.used[b].items = PutAt(@, i, x)]
  BY <1>2 DEF WriteItem, Thrown
<1> HIDE DEF p, w
<1>4. FileInv(p) /\ p \in Files /\ p.mode = "read_write" /\ p.size = q.size
  BY <1>1 DEF Kept, FileInv
<1>5. /\ st \in Places /\ p.streams \in [FileStreams -> Places]
      /\ p.used \in [DOMAIN p.used -> Buffers] /\ DOMAIN p.used \subseteq 0 .. MaxFileSize
      /\ p.size \in 0 .. MaxFileSize
  BY <1>4, Fields
<1>6. /\ b \in DOMAIN p.used /\ i \in 0 .. FileBlock /\ st.start \in Nat
      /\ OffsetIn(p, s) = st.start + i /\ p.used[b].items \in Seq(FileItems)
      /\ Len(p.used[b].items) = Smaller(FileBlock, p.size - st.start)
      /\ st.start <= p.size
  BY <1>1, <1>4, InBlock
<1>7. OffsetIn(p, s) \in 0 .. p.size  BY <1>1, <1>4, Offsets
<1>8. i \in 0 .. Len(p.used[b].items) /\ i + 1 \in Nat
  <2> DEFINE l == Len(p.used[b].items)
             from == st.start
  <2>1. /\ l = Smaller(FileBlock, p.size - from) /\ i \in 0 .. FileBlock /\ from \in Nat
        /\ from + i \in 0 .. p.size /\ i < FileBlock /\ FileBlock \in Nat
        /\ MaxFileSize \in Nat /\ p.size \in 0 .. MaxFileSize
    BY <1>1, <1>5, <1>6, <1>7, Words
  <2> HIDE DEF l, from, i
  <2>2. l \in Nat /\ i <= l /\ i \in Nat  BY <2>1 DEF Smaller
  <2>3. i \in 0 .. l /\ i + 1 \in Nat  BY <2>2
  <2> QED  BY <2>3 DEF l
<1>9. PutAt(p.used[b].items, i, x) \in Seq(FileItems)  BY <1>6, <1>8, PutAtIs
<1>10. new \in Buffers /\ new.usage = p.used[b].usage /\ new.dirty
       /\ new.items = PutAt(p.used[b].items, i, x)
  BY <1>5, <1>6, <1>9 DEF Buffers
<1>11. X \in Places  BY <1>5, <1>8 DEF Places
<1>12. size \in 0 .. MaxFileSize
  <2> DEFINE from == st.start
  <2>1. from \in Nat /\ i \in Nat /\ from + i + 1 <= MaxFileSize /\ p.size \in 0 .. MaxFileSize
    BY <1>1, <1>5, <1>6, Words
  <2> HIDE DEF i, from
  <2>2. Larger(p.size, i + 1 + from) \in 0 .. MaxFileSize  BY <2>1, Words DEF Larger
  <2> QED  BY <2>2 DEF from
<1>13. w = [p EXCEPT !.streams = S, !.size = size, !.used = U]
  <2> DEFINE y == [p EXCEPT !.streams[s].index = @ + 1]
             z == [y EXCEPT !.size = Larger(@, i + 1 + st.start)]
  <2>1. y = [p EXCEPT !.streams = S]  BY <1>4 DEF Files
  <2>2. z = [p EXCEPT !.streams = S, !.size = size]  BY <1>4, <2>1 DEF Files
  <2>3. w = [z EXCEPT !.used[b].dirty = TRUE, !.used[b].items = PutAt(@, i, x)]
    BY <1>3
  <2>4. U = Marked(p.used, b, i, x)  BY DEF Marked
  <2>5. S \in [FileStreams -> Places]
    <3> HIDE DEF X
    <3> QED  BY <1>5, <1>11
  <2> HIDE DEF z, y, size, S, U
  <2>6. z \in Files /\ z.used = p.used  BY <1>4, <1>12, <2>2, <2>5 DEF Files
  <2>8. w = [z EXCEPT !.used = Marked(z.used, b, i, x)]
    <3> HIDE DEF b, i
    <3>1. w = [z EXCEPT !.used = [z.used EXCEPT ![b] =
                 [z.used[b] EXCEPT !.dirty = TRUE, !.items = PutAt(z.used[b].items, i, x)]]]
      BY <2>3, <2>6 DEF Files
    <3> QED  BY <3>1 DEF Marked
  <2>7. w = [z EXCEPT !.used = U]  BY <2>4, <2>6, <2>8
  <2> QED  BY <1>4, <2>2, <2>7 DEF Files
<1> HIDE DEF size, X, new
<1>14. S \in [FileStreams -> Places] /\ S[s] = X /\ \A t \in FileStreams \ {s} : S[t] = p.streams[t]
  BY <1>5, <1>11
<1>15. /\ U \in [DOMAIN p.used -> Buffers] /\ DOMAIN U = DOMAIN p.used /\ U[b] = new
       /\ \A c \in DOMAIN p.used \ {b} : U[c] = p.used[c]
  BY <1>5, <1>6, <1>10
<1> HIDE DEF S, U
<1>16. U \in Tables  BY <1>5, <1>15, TablesOf
<1>17. /\ w \in Files /\ w.streams = S /\ w.size = size /\ w.used = U /\ w.disk = p.disk
       /\ w.mode = p.mode /\ w.stored = p.stored /\ w.free = p.free /\ w.value = p.value
  BY <1>4, <1>12, <1>13, <1>14, <1>16 DEF Files
<1>18. PutInBlock(p, w, s, x)
  BY <1>10, <1>14, <1>15, <1>17 DEF PutInBlock, X, size
<1>19. Wrote(p, w, s, <<x>>, 1)  BY <1>1, <1>4, <1>18, ItemPut
<1>20. Wrote(q, p, s, <<x>>, 0)  BY <1>1, WroteNone
<1>21. <<x>>[1] = x  OBVIOUS
<1>22. Wrote(q, w, s, <<x>>, 1)
  <2>1. 1 = 0 + 1 /\ 0 \in Nat /\ 1 \in Nat  OBVIOUS
  <2> QED  BY <1>19, <1>20, <1>21, <2>1, WroteMore
<1> QED  BY <1>22 DEF w

(* write() of an array. *)
Writes(f, q, s, xs, m) ==
  f = [k \in 0 .. m |-> IF k = 0 THEN q ELSE WriteItem(f[k - 1], s, xs[k])]

LEMMA WritesExist ==
  ASSUME NEW q, NEW s, NEW xs, NEW n \in Nat
  PROVE  \E f : Writes(f, q, s, xs, n)
<1> DEFINE P == {m \in 0 .. n : \E f : Writes(f, q, s, xs, m)}
<1>1. 0 \in P
  <2>1. Writes([k \in 0 .. 0 |-> q], q, s, xs, 0)  BY DEF Writes
  <2> QED  BY <2>1
<1>2. ASSUME NEW m \in 1 .. n, m - 1 \in P PROVE m \in P
  <2>1. PICK f : Writes(f, q, s, xs, m - 1)  BY <1>2
  <2>2. \A k \in 0 .. m - 1 : f[k] = IF k = 0 THEN q ELSE WriteItem(f[k - 1], s, xs[k])
    BY <2>1 DEF Writes
  <2> DEFINE g == [k \in 0 .. m |-> IF k = m THEN WriteItem(f[m - 1], s, xs[m]) ELSE f[k]]
  <2>3. ASSUME NEW k \in 0 .. m
        PROVE  g[k] = IF k = 0 THEN q ELSE WriteItem(g[k - 1], s, xs[k])
    <3>1. CASE k = m
      <4>1. k - 1 \in 0 .. m /\ k - 1 # m /\ k # 0  BY <1>2, <3>1
      <4>2. g[k - 1] = f[m - 1]  BY <3>1, <4>1
      <4> QED  BY <3>1, <4>1, <4>2
    <3>2. CASE k # m
      <4>1. k \in 0 .. m - 1  BY <1>2, <3>2
      <4>2. g[k] = f[k]  BY <3>2, <4>1
      <4>3. k # 0 => k - 1 \in 0 .. m /\ k - 1 # m  BY <4>1
      <4>4. k # 0 => g[k - 1] = f[k - 1]  BY <4>3
      <4> QED  BY <2>2, <4>1, <4>2, <4>4
    <3> QED  BY <3>1, <3>2
  <2>4. Writes(g, q, s, xs, m)
    <3>1. DOMAIN g = 0 .. m /\ g = [k \in 0 .. m |-> g[k]]  OBVIOUS
    <3> HIDE DEF g
    <3> QED  BY <2>3, <3>1 DEF Writes
  <2> HIDE DEF g
  <2> QED  BY <1>2, <2>4
<1>3. n \in P
  <2> HIDE DEF P
  <2> QED  BY <1>1, <1>2, UpTo
<1> QED  BY <1>3

LEMMA WriteMany ==
  ASSUME NEW q, FileInv(q), NEW s \in FileStreams, q.streams[s].attached,
         q.mode = "read_write", NEW n \in Nat, NEW xs \in [1 .. n -> FileItems],
         OffsetIn(q, s) + n <= MaxFileSize
  PROVE  Wrote(q, WriteItems(q, s, xs), s, xs, n)
<1> DEFINE off == OffsetIn(q, s)
           f == CHOOSE g : Writes(g, q, s, xs, n)
           P == {k \in 0 .. n : Wrote(q, f[k], s, xs, k)}
<1>1. Len(xs) = n  OBVIOUS
<1>2. WriteItems(q, s, xs) = f[n]  BY <1>1 DEF WriteItems, Writes
<1>3. Writes(f, q, s, xs, n)  BY WritesExist
<1> HIDE DEF f
<1>4. \A k \in 0 .. n : f[k] = IF k = 0 THEN q ELSE WriteItem(f[k - 1], s, xs[k])
  BY <1>3 DEF Writes
<1>5. 0 \in P
  <2>1. f[0] = q  BY <1>4
  <2>2. Wrote(q, q, s, xs, 0)  BY KeptByNone, WroteNone
  <2> QED  BY <2>1, <2>2
<1>6. ASSUME NEW k \in 1 .. n, k - 1 \in P PROVE k \in P
  <2> DEFINE p == f[k - 1]
             m == k - 1
  <2>1. Wrote(q, p, s, xs, m) /\ m \in Nat /\ k \in Nat /\ k = m + 1 /\ m <= n - 1  BY <1>6
  <2>2. f[k] = WriteItem(p, s, xs[k])  BY <1>4
  <2> HIDE DEF p, m
  <2>3. FileInv(p) /\ p.streams[s].attached /\ p.mode = "read_write" /\ OffsetIn(p, s) = off + m
    BY <2>1 DEF Wrote
  <2>4. off \in 0 .. q.size /\ q.size \in Nat  BY Offsets, Place
  <2>5. OffsetIn(p, s) + 1 <= MaxFileSize
    <3> HIDE DEF off
    <3>1. off \in Nat /\ off + n <= MaxFileSize /\ MaxFileSize \in Nat  BY <2>4, Words DEF off
    <3> QED  BY <2>1, <2>3, <3>1
  <2>6. xs[k] \in FileItems  OBVIOUS
  <2>7. Wrote(p, f[k], s, <<xs[k]>>, 1)  BY <2>2, <2>3, <2>5, <2>6, WriteOne
  <2>8. Wrote(q, f[k], s, xs, k)  BY <2>1, <2>7, WroteMore
  <2>9. k \in 0 .. n  OBVIOUS
  <2> QED  BY <2>8, <2>9
<1>7. n \in P
  <2> HIDE DEF P
  <2> QED  BY <1>5, <1>6, UpTo
<1> QED  BY <1>2, <1>7

-----------------------------------------------------------------------------
(* Actions of a stream. *)

(* A stream goes to n and is given v. *)
Goes(q, p, s, n, v) ==
  /\ FileInv(q) /\ q.streams[s].attached
  /\ Kept(q, p, s) /\ p.streams[s].attached /\ OffsetIn(p, s) = n /\ p.value = v

LEMMA GoesOn ==
  ASSUME NEW q, NEW p, NEW r, NEW s \in FileStreams, NEW m, NEW n, NEW u, NEW v,
         Goes(q, p, s, m, u), Goes(p, r, s, n, v)
  PROVE  Goes(q, r, s, n, v)
<1>1. Kept(q, r, s)  BY KeptByBoth DEF Goes
<1> QED  BY <1>1 DEF Goes

LEMMA SilentGoes ==
  ASSUME NEW q, FileInv(q), NEW s \in FileStreams, q.streams[s].attached
  PROVE  Goes(q, Silent(q), s, OffsetIn(q, s), <<>>)
<1>1. Silent(q) = Giving(q, <<>>)  BY DEF Silent, Giving
<1>2. <<>> \in Seq(Datum)  OBVIOUS
<1> QED  BY <1>1, <1>2, GivingKeeps DEF Goes

LEMMA SilentAfter ==
  ASSUME NEW q, NEW p, NEW s \in FileStreams, NEW n, NEW v, Goes(q, p, s, n, v)
  PROVE  Goes(q, Silent(p), s, n, <<>>)
<1>1. FileInv(p) /\ p.streams[s].attached /\ OffsetIn(p, s) = n  BY DEF Goes, Kept
<1>2. Goes(p, Silent(p), s, n, <<>>)  BY <1>1, SilentGoes
<1> QED  BY <1>2, GoesOn

LEMMA SeekGoes ==
  ASSUME NEW q, FileInv(q), NEW s \in FileStreams, q.streams[s].attached, NEW n \in Int
  PROVE  \E m \in 0 .. q.size : Goes(q, Silent(SeekFrom(q, s, n)), s, m, <<>>)
<1>1. CASE n \in 0 .. q.size
  <2>1. Goes(q, SeekFrom(q, s, n), s, n, q.value)
    BY <1>1, SeekToKeeps DEF SeekFrom, Goes
  <2> QED  BY <1>1, <2>1, SilentAfter
<1>2. CASE n \notin 0 .. q.size
  <2>1. SeekFrom(q, s, n) = q  BY <1>2 DEF SeekFrom
  <2>2. OffsetIn(q, s) \in 0 .. q.size  BY Offsets
  <2> QED  BY <2>1, <2>2, SilentGoes
<1> QED  BY <1>1, <1>2

LEMMA SkipGoes ==
  ASSUME Omits = LooseCalls, FileInv(shared), NEW s \in FileStreams,
         NEW n \in -FileBlock .. FileBlock, SeekFromHere(s, n)
  PROVE  \E m \in 0 .. shared.size : Goes(shared, shared', s, m, <<>>)
<1>1. /\ shared.streams[s].attached /\ n + OffsetIn(shared, s) <= shared.size
      /\ n <= 0 \/ shared.streams[s].index # Huge
      /\ shared' = Silent(SeekCurrent(shared, s, n))
  BY DEF SeekFromHere, Attached, Unfetched, LooseCalls
<1> DEFINE m == IF n + OffsetIn(shared, s) >= 0 THEN n + OffsetIn(shared, s)
                ELSE OffsetIn(shared, s)
<1>2. Goes(shared, SeekCurrent(shared, s, n), s, m, shared.value)
  BY <1>1, SeekCurrentKeeps DEF Goes
<1>3. Goes(shared, shared', s, m, <<>>)  BY <1>1, <1>2, SilentAfter
<1>4. m \in 0 .. shared.size
  <2>1. OffsetIn(shared, s) \in 0 .. shared.size /\ shared.size \in Nat  BY <1>1, Offsets, Place
  <2> DEFINE off == OffsetIn(shared, s)
  <2> HIDE DEF off
  <2>2. (IF n + off >= 0 THEN n + off ELSE off) \in 0 .. shared.size
    BY <1>1, <2>1, Words DEF off
  <2> QED  BY <2>2 DEF off
<1> QED  BY <1>3, <1>4

LEMMA ReadGoes ==
  ASSUME Omits = LooseCalls, FileInv(shared), NEW s \in FileStreams, Read(s)
  PROVE  /\ OffsetIn(shared, s) < shared.size
         /\ Goes(shared, shared', s, OffsetIn(shared, s) + 1,
                 <<ItemAt(shared, OffsetIn(shared, s))>>)
<1> DEFINE q == Silent(shared)
           off == OffsetIn(shared, s)
<1>1. shared.streams[s].attached /\ CanRead(shared, s) /\ shared' = ReadItem(q, s)
  BY DEF Read, Attached, LooseCalls
<1>2. off < shared.size  BY <1>1, CanReads
<1>3. Goes(shared, q, s, off, <<>>)  BY <1>1, SilentGoes
<1> HIDE DEF q
<1>4. FileInv(q) /\ q.size = shared.size /\ q.streams[s].attached /\ OffsetIn(q, s) = off
  BY <1>3 DEF Goes, Kept
<1>5. off \in 0 .. shared.size - 1  BY <1>1, <1>2, Offsets, Place
<1>6. ItemAt(q, off) = ItemAt(shared, off)  BY <1>3, <1>5 DEF Goes, Kept
<1>7. Goes(q, shared', s, off + 1, <<ItemAt(shared, off)>>)
  BY <1>1, <1>2, <1>4, <1>6, ReadOne DEF Goes
<1> QED  BY <1>2, <1>3, <1>7, GoesOn

LEMMA ReadBackGoes ==
  ASSUME FileInv(shared), NEW s \in FileStreams, ReadBack(s)
  PROVE  /\ OffsetIn(shared, s) > 0
         /\ Goes(shared, shared', s, OffsetIn(shared, s) - 1,
                 <<ItemAt(shared, OffsetIn(shared, s) - 1)>>)
<1> DEFINE q == Silent(shared)
           off == OffsetIn(shared, s)
<1>1. shared.streams[s].attached /\ CanReadBack(shared, s) /\ shared' = ReadItemBack(q, s)
  BY DEF ReadBack, Attached
<1>2. off > 0  BY <1>1, CanReads
<1>3. Goes(shared, q, s, off, <<>>)  BY <1>1, SilentGoes
<1> HIDE DEF q
<1>4. FileInv(q) /\ q.size = shared.size /\ q.streams[s].attached /\ OffsetIn(q, s) = off
  BY <1>3 DEF Goes, Kept
<1>5. off - 1 \in 0 .. shared.size - 1  BY <1>1, <1>2, Offsets, Place
<1>6. ItemAt(q, off - 1) = ItemAt(shared, off - 1)  BY <1>3, <1>5 DEF Goes, Kept
<1>7. Goes(q, shared', s, off - 1, <<ItemAt(shared, off - 1)>>)
  BY <1>1, <1>2, <1>4, <1>6, ReadOneBack DEF Goes
<1> QED  BY <1>2, <1>3, <1>7, GoesOn

ReadsFrom(q, p, s, n, off) ==
  /\ Kept(q, p, s) /\ p.streams[s].attached
  /\ off + n <= q.size =>
       /\ OffsetIn(p, s) = off + n /\ p.value \in Seq(Datum) /\ Len(p.value) = n
       /\ \A i \in 1 .. n : p.value[i] = ItemAt(q, off + i - 1)
  /\ ~(off + n <= q.size) => p.value = q.value

ItemsFrom(q, off, n) == [i \in 1 .. n |-> ItemAt(q, off + i - 1)]

LEMMA ReadArrayGoes ==
  ASSUME Omits = LooseCalls, FileInv(shared), NEW s \in FileStreams, NEW n \in Nat,
         ReadArray(s, n)
  PROVE  \/ /\ OffsetIn(shared, s) + n <= shared.size
            /\ Goes(shared, shared', s, OffsetIn(shared, s) + n,
                    ItemsFrom(shared, OffsetIn(shared, s), n))
         \/ \E m \in 0 .. shared.size : Goes(shared, shared', s, m, <<>>)
<1> DEFINE q == Silent(shared)
           off == OffsetIn(shared, s)
           p == ReadItems(q, s, n)
<1>1. /\ shared.streams[s].attached /\ shared' = p
      /\ \/ shared.streams[s].index >= FileBlock
         \/ off + Smaller(n, FileBlock - shared.streams[s].index) <= shared.size
  BY DEF ReadArray, Attached, LooseCalls
<1>2. Goes(shared, q, s, off, <<>>) /\ q.streams = shared.streams
  <2>1. q.streams = shared.streams  BY DEF Silent, FileInv, Files
  <2> QED  BY <1>1, <2>1, SilentGoes
<1> HIDE DEF q
<1>3. FileInv(q) /\ q.size = shared.size /\ q.streams[s].attached /\ OffsetIn(q, s) = off
      /\ q.value = <<>>
      /\ \A k \in 0 .. shared.size - 1 : ItemAt(q, k) = ItemAt(shared, k)
  BY <1>2 DEF Goes, Kept
<1>4. off \in 0 .. shared.size /\ shared.size \in Nat  BY <1>1, Offsets, Place
<1>5. \/ q.streams[s].index >= FileBlock
      \/ OffsetIn(q, s) + Smaller(n, FileBlock - q.streams[s].index) <= q.size
  BY <1>1, <1>2, <1>3
<1> HIDE DEF p, off
<1>6. /\ Kept(q, p, s) /\ p.streams[s].attached
      /\ off + n <= q.size =>
           /\ OffsetIn(p, s) = off + n /\ p.value \in Seq(Datum) /\ Len(p.value) = n
           /\ \A i \in 1 .. n : p.value[i] = ItemAt(q, off + i - 1)
      /\ ~(off + n <= q.size) => p.value = q.value
  <2>1. ReadsFrom(q, p, s, n, OffsetIn(q, s))  BY <1>3, <1>5, ReadMany DEF p, ReadsFrom
  <2>2. ReadsFrom(q, p, s, n, off)  BY <1>3, <2>1
  <2> QED  BY <2>2 DEF ReadsFrom
<1>7. CASE off + n <= shared.size
  <2>1. \A i \in 1 .. n : p.value[i] = ItemAt(shared, off + i - 1)
    <3>1. \A i \in 1 .. n : off + i - 1 \in 0 .. shared.size - 1  BY <1>4, <1>7
    <3> QED  BY <1>3, <1>6, <1>7, <3>1
  <2>2. p.value = ItemsFrom(shared, off, n)
    <3> DEFINE v == p.value
    <3>1. v \in Seq(Datum) /\ Len(v) = n  BY <1>3, <1>6, <1>7
    <3>2. v = [i \in 1 .. n |-> v[i]]  BY <3>1
    <3> QED  BY <2>1, <3>2 DEF ItemsFrom
  <2>3. Goes(q, shared', s, off + n, ItemsFrom(shared, off, n))
    BY <1>1, <1>3, <1>6, <1>7, <2>2 DEF Goes
  <2> QED  BY <1>2, <1>7, <2>3, GoesOn DEF off
<1>8. CASE ~(off + n <= shared.size)
  <2>1. Goes(q, shared', s, OffsetIn(p, s), <<>>)
    <3>1. ~(off + n <= q.size)  BY <1>3, <1>8
    <3>2. p.value = q.value  BY <1>6, <3>1
    <3>3. p.value = <<>>  BY <1>3, <3>2
    <3>4. Goes(q, p, s, OffsetIn(p, s), <<>>)  BY <1>3, <1>6, <3>3 DEF Goes
    <3> QED  BY <1>1, <3>4
  <2>2. Goes(shared, shared', s, OffsetIn(p, s), <<>>)  BY <1>2, <2>1, GoesOn
  <2>3. FileInv(p) /\ p.size = shared.size  BY <1>3, <1>6 DEF Kept
  <2>4. OffsetIn(p, s) \in 0 .. shared.size  BY <1>6, <2>3, Offsets
  <2> QED  BY <2>2, <2>4
<1> QED  BY <1>7, <1>8

(* A stream writes n items. *)
Fills(q, p, s, n) ==
  /\ FileInv(q) /\ q.streams[s].attached /\ q.mode = "read_write"
  /\ FileInv(p) /\ p.mode = q.mode /\ p.size = Larger(q.size, OffsetIn(q, s) + n)
  /\ p.streams[s].attached /\ OffsetIn(p, s) = OffsetIn(q, s) + n /\ p.value = <<>>
  /\ \A t \in FileStreams \ {s} : p.streams[t] = q.streams[t]
  /\ \A k \in 0 .. p.size - 1 :
       IF k \in OffsetIn(q, s) .. OffsetIn(q, s) + n - 1 THEN ItemAt(p, k) \in FileItems
       ELSE ItemAt(p, k) = ItemAt(q, k)

LEMMA WroteFills ==
  ASSUME NEW q, FileInv(q), NEW s \in FileStreams, q.streams[s].attached,
         q.mode = "read_write", NEW n \in Nat, NEW xs \in [1 .. n -> FileItems],
         NEW p, Wrote(Silent(q), p, s, xs, n)
  PROVE  Fills(q, p, s, n)
<1> DEFINE r == Silent(q)
           off == OffsetIn(q, s)
<1>1. Goes(q, r, s, off, <<>>)  BY SilentGoes
<1> HIDE DEF r
<1>2. /\ r.size = q.size /\ r.mode = q.mode /\ r.value = <<>> /\ OffsetIn(r, s) = off
      /\ \A t \in FileStreams \ {s} : r.streams[t] = q.streams[t]
      /\ \A k \in 0 .. q.size - 1 : ItemAt(r, k) = ItemAt(q, k)
  BY <1>1 DEF Goes, Kept
<1>3. /\ FileInv(p) /\ p.mode = r.mode /\ p.size = Larger(r.size, OffsetIn(r, s) + n)
      /\ p.streams[s].attached /\ OffsetIn(p, s) = OffsetIn(r, s) + n /\ p.value = r.value
      /\ \A t \in FileStreams \ {s} : p.streams[t] = r.streams[t]
      /\ \A k \in 0 .. p.size - 1 :
           ItemAt(p, k) = IF k \in OffsetIn(r, s) .. OffsetIn(r, s) + n - 1
                          THEN xs[k - OffsetIn(r, s) + 1] ELSE ItemAt(r, k)
  BY DEF Wrote, r
<1>4. off \in 0 .. q.size /\ q.size \in Nat  BY Offsets, Place
<1> HIDE DEF off
<1>5. p.size = Larger(q.size, off + n) /\ OffsetIn(p, s) = off + n  BY <1>2, <1>3
<1>6. ASSUME NEW k \in 0 .. p.size - 1
      PROVE  IF k \in off .. off + n - 1 THEN ItemAt(p, k) \in FileItems
             ELSE ItemAt(p, k) = ItemAt(q, k)
  <2>1. ItemAt(p, k) = IF k \in off .. off + n - 1 THEN xs[k - off + 1] ELSE ItemAt(r, k)
    BY <1>2, <1>3
  <2>2. CASE k \in off .. off + n - 1
    <3>1. k - off + 1 \in 1 .. n  BY <1>4, <2>2
    <3> QED  BY <2>1, <2>2, <3>1
  <2>3. CASE k \notin off .. off + n - 1
    <3>1. k \in 0 .. q.size - 1  BY <1>4, <1>5, <2>3 DEF Larger
    <3> QED  BY <1>2, <2>1, <2>3, <3>1
  <2> QED  BY <2>2, <2>3
<1> QED  BY <1>2, <1>3, <1>5, <1>6 DEF Fills, off

LEMMA WriteGoes ==
  ASSUME FileInv(shared), NEW s \in FileStreams, NEW x \in FileItems, Write(s, x)
  PROVE  Fills(shared, shared', s, 1)
<1> DEFINE q == Silent(shared)
<1>1. shared.streams[s].attached /\ shared.mode = "read_write"
      /\ OffsetIn(shared, s) + 1 <= MaxFileSize /\ shared' = WriteItem(q, s, x)
  BY DEF Write, Writable, Attached
<1>2. Goes(shared, q, s, OffsetIn(shared, s), <<>>)  BY <1>1, SilentGoes
<1> HIDE DEF q
<1>3. FileInv(q) /\ q.streams[s].attached /\ q.mode = "read_write"
      /\ OffsetIn(q, s) = OffsetIn(shared, s)
  BY <1>1, <1>2 DEF Goes, Kept
<1>4. Wrote(q, shared', s, <<x>>, 1)  BY <1>1, <1>3, WriteOne
<1>5. <<x>> \in [1 .. 1 -> FileItems]  OBVIOUS
<1> QED  BY <1>1, <1>4, <1>5, WroteFills DEF q

LEMMA WriteArrayGoes ==
  ASSUME FileInv(shared), NEW s \in FileStreams, NEW n \in Nat,
         NEW xs \in [1 .. n -> FileItems], WriteArray(s, xs)
  PROVE  Fills(shared, shared', s, n)
<1> DEFINE q == Silent(shared)
<1>0. Len(xs) = n  OBVIOUS
<1>1. shared.streams[s].attached /\ shared.mode = "read_write"
      /\ OffsetIn(shared, s) + n <= MaxFileSize /\ shared' = WriteItems(q, s, xs)
  BY <1>0 DEF WriteArray, Writable, Attached
<1>2. Goes(shared, q, s, OffsetIn(shared, s), <<>>)  BY <1>1, SilentGoes
<1> HIDE DEF q
<1>3. FileInv(q) /\ q.streams[s].attached /\ q.mode = "read_write"
      /\ OffsetIn(q, s) = OffsetIn(shared, s)
  BY <1>1, <1>2 DEF Goes, Kept
<1>4. Wrote(q, shared', s, xs, n)  BY <1>1, <1>3, WriteMany
<1> QED  BY <1>1, <1>4, WroteFills DEF q

(* A stream without a block is attached or detached. *)
Joins(q, p, s, X) ==
  /\ X.attached => Pending(q, X) /\ q.mode # "closed"
  /\ ~X.attached => X = Unattached
  /\ p \in Files /\ p.streams = Put(q.streams, s, X) /\ X \in Places /\ X.block = Huge
  /\ p.disk = q.disk /\ p.mode = q.mode /\ p.size = q.size /\ p.stored = q.stored
  /\ p.used = q.used
  /\ p.free = q.free - Freed(X) + Freed(q.streams[s])

LEMMA StreamJoins ==
  ASSUME NEW q, FileInv(q), NEW s \in FileStreams, q.streams[s].block = Huge,
         NEW X, NEW p, Joins(q, p, s, X)
  PROVE  Kept(q, p, s) /\ p.streams[s] = X
<1>1. q \in Files /\ q.streams \in [FileStreams -> Places] /\ q.free \in Int
      /\ IsFiniteSet(DOMAIN q.used) /\ Cardinality(DOMAIN q.used) \in Nat
  BY Fields, FS_CardinalityType DEF FileInv
<1>2. /\ p \in Files /\ p.streams = Put(q.streams, s, X) /\ X \in Places /\ X.block = Huge
      /\ p.disk = q.disk /\ p.mode = q.mode /\ p.size = q.size /\ p.stored = q.stored
      /\ p.used = q.used /\ p.free = q.free - Freed(X) + Freed(q.streams[s])
      /\ X.attached => Pending(q, X) /\ q.mode # "closed"
  BY DEF Joins
<1>3. Moves(q, p, s, X)  BY <1>1, <1>2 DEF Moves
<1>4. UsersMoved(q, p, s, X)  BY <1>3, UsersMove
<1>5. p.streams[s] = X /\ \A t \in FileStreams \ {s} : p.streams[t] = q.streams[t]
  BY <1>4 DEF UsersMoved
<1>6. \A b : UsersOf(p, b) = UsersOf(q, b)  BY <1>2, <1>5 DEF UsersOf
<1>7. StreamsOK(p)
  <2>1. \A Y : PlaceOK(q, Y) => PlaceOK(p, Y)  BY <1>2 DEF PlaceOK, Placed, Pending
  <2>2. X.attached => PlaceOK(p, X)  BY <1>2 DEF PlaceOK, Pending
  <2>3. ~X.attached => X = Unattached  BY DEF Joins
  <2> QED  BY <1>5, <2>1, <2>2, <2>3 DEF StreamsOK, FileInv
<1>8. BlocksOK(p)  BY <1>2, <1>6 DEF FileInv, BlocksOK, BlockOK
<1>9. RestOnDisk(p)  BY <1>2 DEF FileInv, RestOnDisk
<1>10. DiskOK(p)
  <2>1. q.mode = "closed" => Members(p) = {}
    <3>1. ASSUME q.mode = "closed", NEW t \in FileStreams PROVE ~p.streams[t].attached
      <4>1. Members(q) = {}  BY <3>1 DEF FileInv, DiskOK
      <4> QED  BY <1>2, <1>5, <3>1, <4>1 DEF Members
    <3> QED  BY <3>1 DEF Members
  <2> QED  BY <1>2, <2>1 DEF FileInv, DiskOK
<1>11. BuffersOK(p)
  <2> DEFINE c == Cardinality(Members(q))
             d == Cardinality(Members(p))
             u == Cardinality(DOMAIN q.used)
  <2>1. c \in Nat
        /\ (q.streams[s].attached => d = c - IF X.attached THEN 0 ELSE 1)
        /\ (~q.streams[s].attached => d = c + IF X.attached THEN 1 ELSE 0)
    BY <1>3, MembersMove
  <2>2. q.free + u = c  BY DEF FileInv, BuffersOK
  <2> HIDE DEF c, d, u
  <2>3. d = c - Freed(X) + Freed(q.streams[s])
    <3>1. CASE q.streams[s].attached /\ X.attached  BY <2>1, <3>1 DEF Freed
    <3>2. CASE q.streams[s].attached /\ ~X.attached  BY <2>1, <3>2 DEF Freed
    <3>3. CASE ~q.streams[s].attached /\ X.attached  BY <2>1, <3>3 DEF Freed
    <3>4. CASE ~q.streams[s].attached /\ ~X.attached  BY <2>1, <3>4 DEF Freed
    <3> QED  BY <3>1, <3>2, <3>3, <3>4
  <2>4. Freed(X) \in Int /\ Freed(q.streams[s]) \in Int /\ u \in Int
    BY <1>1 DEF Freed, u
  <2>5. p.free + u = d  BY <1>1, <1>2, <2>1, <2>2, <2>3, <2>4
  <2> QED  BY <1>2, <2>5 DEF BuffersOK, u, d
<1>12. \A n \in 0 .. q.size - 1 : ItemAt(p, n) = ItemAt(q, n)  BY <1>2 DEF ItemAt
<1> QED  BY <1>2, <1>5, <1>7, <1>8, <1>9, <1>10, <1>11, <1>12 DEF Kept, FileInv

(* attach() adds a stream at the beginning, with a buffer for it. *)
LEMMA AttachGoes ==
  ASSUME FileInv(shared), NEW s \in FileStreams, AttachStream(s)
  PROVE  /\ ~shared.streams[s].attached /\ shared.mode # "closed"
         /\ Kept(shared, shared', s) /\ shared'.streams[s].attached
         /\ OffsetIn(shared', s) = 0 /\ shared'.value = <<>>
<1> DEFINE Y == [Unattached EXCEPT !.attached = TRUE]
           q == Silent([shared EXCEPT !.free = @ + 1, !.streams[s] = Y])
           X == [Y EXCEPT !.index = Huge, !.nextBlock = 0, !.nextIndex = 0]
           p == [q EXCEPT !.streams[s] = X]
<1>1. /\ shared \in Files /\ shared.streams \in [FileStreams -> Places] /\ shared.free \in Int
      /\ shared.size \in Nat /\ Huge \in Nat /\ Huge > 0 /\ FileBlock \in Nat /\ FileBlock > 0
      /\ MaxFileSize \in Nat
  BY Fields, Words DEF FileInv
<1>2. ~shared.streams[s].attached /\ shared.mode # "closed"  BY DEF AttachStream, Attached
<1>3. shared.streams[s] = Unattached  BY <1>2 DEF FileInv, StreamsOK
<1>4. Y \in Places /\ Y.attached /\ Y.block = Huge  BY <1>1 DEF Unattached, Places
<1>5. /\ X \in Places /\ X.attached /\ X.block = Huge /\ X.index = Huge
      /\ X.nextBlock = 0 /\ X.nextIndex = 0
  <2> HIDE DEF Y
  <2> QED  BY <1>1, <1>4 DEF Places
<1>6. BlockAt(0) = 0 /\ IndexOf(0) = 0
  <2>1. BlockAt(0) \in Nat /\ IndexOf(0) \in Nat /\ 0 = BlockStart(BlockAt(0)) + IndexOf(0)
    BY <1>1, OffsetParts
  <2>2. BlockAt(0) <= BlockStart(BlockAt(0)) /\ BlockStart(BlockAt(0)) \in Nat
    BY <2>1, BlockStarts
  <2> QED  BY <2>1, <2>2
<1> HIDE DEF Y
<1>7. /\ q \in Files /\ q.streams = Put(shared.streams, s, Y) /\ q.streams[s] = Y
      /\ q.disk = shared.disk /\ q.mode = shared.mode /\ q.size = shared.size
      /\ q.stored = shared.stored /\ q.used = shared.used /\ q.free = shared.free + 1
      /\ q.value = <<>>
  <2> DEFINE w == [shared EXCEPT !.free = @ + 1, !.streams[s] = Y]
  <2>1. <<>> \in Seq(Datum)  OBVIOUS
  <2>2. Put(shared.streams, s, Y) \in [FileStreams -> Places] /\ shared.free + 1 \in Int
    BY <1>1, <1>4 DEF Put
  <2>3. /\ w \in Files /\ w.streams = Put(shared.streams, s, Y)
        /\ w.disk = shared.disk /\ w.mode = shared.mode /\ w.size = shared.size
        /\ w.stored = shared.stored /\ w.used = shared.used /\ w.free = shared.free + 1
    BY <1>1, <2>2 DEF Files, Put
  <2> HIDE DEF w
  <2>4. q = [w EXCEPT !.value = <<>>]  BY DEF Silent, w
  <2> HIDE DEF q
  <2>5. /\ q \in Files /\ q.streams = w.streams /\ q.disk = w.disk /\ q.mode = w.mode
        /\ q.size = w.size /\ q.stored = w.stored /\ q.used = w.used /\ q.free = w.free
        /\ q.value = <<>>
    BY <2>1, <2>3, <2>4 DEF Files
  <2>6. Put(shared.streams, s, Y)[s] = Y  BY <1>1 DEF Put
  <2> QED  BY <2>3, <2>5, <2>6
<1>8. shared' = p
  <2>1. shared' = SeekTo(q, s, 0)  BY DEF AttachStream, Y
  <2> HIDE DEF q
  <2> QED  BY <1>1, <1>4, <1>6, <1>7, <2>1 DEF SeekTo
<1> HIDE DEF q, X
<1>9. /\ p \in Files /\ p.streams = Put(q.streams, s, X)
      /\ p.disk = shared.disk /\ p.mode = shared.mode /\ p.size = shared.size
      /\ p.stored = shared.stored /\ p.used = shared.used /\ p.free = shared.free + 1
      /\ p.value = <<>>
  BY <1>5, <1>7 DEF Files, Put
<1> HIDE DEF p
<1>10. Put(q.streams, s, X) = Put(shared.streams, s, X)  BY <1>1, <1>7 DEF Put
<1>11. BlockStart(0) = 0  BY BlockStarts
<1>12. Pending(shared, X)  BY <1>1, <1>5, <1>11 DEF Pending
<1>13. Freed(X) = 0 /\ Freed(shared.streams[s]) = 1  BY <1>2, <1>5 DEF Freed
<1>14. Joins(shared, p, s, X)  BY <1>1, <1>2, <1>5, <1>9, <1>10, <1>12, <1>13 DEF Joins
<1>15. shared.streams[s].block = Huge  BY <1>3 DEF Unattached
<1>16. Kept(shared, p, s) /\ p.streams[s] = X  BY <1>14, <1>15, StreamJoins
<1>17. OffsetIn(p, s) = 0  BY <1>1, <1>5, <1>11, <1>16 DEF OffsetIn
<1> QED  BY <1>2, <1>5, <1>8, <1>9, <1>16, <1>17

(* detach() takes a stream away, and leaves the file as it is. *)
LEMMA DetachGoes ==
  ASSUME FileInv(shared), NEW s \in FileStreams, DetachStream(s)
  PROVE  /\ shared.streams[s].attached
         /\ Kept(shared, shared', s) /\ ~shared'.streams[s].attached
         /\ shared'.value = <<>>
<1> DEFINE b == shared.streams[s].block
           r == IF b = Huge THEN shared ELSE ReleaseBlock(shared, b)
           p == Relocated(r, s, Unattached, 1)
<1>1. shared.streams[s].attached /\ shared' = Silent([r EXCEPT !.free = @ - 1, !.streams[s] = Unattached])
  BY DEF DetachStream, Attached
<1>2. Unattached \in Places /\ ~Unattached.attached /\ Unattached.block = Huge
  BY Words DEF Unattached, Places
<1>3. Elsewhere(shared, Unattached) /\ Freed(Unattached) = 1  BY <1>2 DEF Elsewhere, Freed
<1>4. shared \in Files /\ 1 \in Int /\ shared.free \in Int  BY Fields DEF FileInv
<1>5. Kept(shared, p, s) /\ p.streams[s] = Unattached /\ r \in Files
  <2>1. CASE b = Huge
    <3>1. r = shared  BY <2>1
    <3> HIDE DEF r
    <3>2. Relocates(shared, p, s, Unattached, 1)  BY <1>2, <1>4, <3>1, RelocatedFields
    <3>3. Freed(shared.streams[s]) = 0  BY <1>1 DEF Freed
    <3>4. shared.free - 1 = shared.free - Freed(Unattached) + Freed(shared.streams[s])
      BY <1>3, <1>4, <3>3
    <3> HIDE DEF p
    <3>5. Joins(shared, p, s, Unattached)  BY <1>2, <3>2, <3>4 DEF Joins, Relocates
    <3> QED  BY <1>4, <2>1, <3>1, <3>5, StreamJoins
  <2>2. CASE b # Huge
    <3>1. r = ReleaseBlock(shared, b)  BY <2>2
    <3>2. p = LeftBlock(shared, s, Unattached)  BY <1>3, <3>1 DEF LeftBlock
    <3> HIDE DEF r, p
    <3> QED  BY <1>1, <1>3, <2>2, <3>1, <3>2, BlockLeft
  <2> QED  BY <2>1, <2>2
<1>6. shared' = Giving(p, <<>>)
  <2> HIDE DEF r
  <2> QED  BY <1>1, <1>5 DEF Giving, Silent, Relocated, Files
<1> HIDE DEF p
<1>7. FileInv(p) /\ <<>> \in Seq(Datum)  BY <1>5 DEF Kept
<1>8. Kept(p, shared', s) /\ shared'.value = <<>> /\ shared'.streams = p.streams
  BY <1>6, <1>7, GivingKeeps
<1>9. Kept(shared, shared', s)  BY <1>5, <1>8, KeptByBoth
<1> QED  BY <1>1, <1>2, <1>5, <1>8, <1>9

(***************************************************************************)
(* The file as a whole.                                                    *)
(***************************************************************************)

(* A file without streams: all of it is on the disk. *)
Alone(q) ==
  /\ q \in Files /\ q.used = <<>> /\ q.free = 0 /\ q.stored = q.size
  /\ q.streams = [s \in FileStreams |-> Unattached]
  /\ q.mode # "closed" => q.disk.items \in Seq(FileItems)

LEMMA NoBlocks ==
  /\ <<>> \in Tables /\ DOMAIN <<>> = {} /\ Cardinality({}) = 0
  /\ \A f \in Tables : DOMAIN f = {} => f = <<>>
<1>1. DOMAIN <<>> = {}  OBVIOUS
<1>2. <<>> \in [{} -> Buffers]  OBVIOUS
<1>3. {} \in SUBSET (0 .. MaxFileSize)  OBVIOUS
<1>4. <<>> \in Tables  BY <1>2, <1>3 DEF Tables
<1>5. ASSUME NEW f \in Tables, DOMAIN f = {} PROVE f = <<>>
  <2>1. f \in [{} -> Buffers]  BY <1>5 DEF Tables
  <2> QED  BY <1>2, <2>1
<1> QED  BY <1>1, <1>4, <1>5, FS_EmptySet

LEMMA FileAlone ==
  ASSUME NEW q, Alone(q), DiskOK(q)
  PROVE  FileInv(q) /\ Members(q) = {}
<1>1. q \in Files /\ DOMAIN q.used = {} /\ q.size \in Nat /\ q.free + 0 = 0
  BY Fields, NoBlocks DEF Alone
<1>2. \A s \in FileStreams : q.streams[s] = Unattached  BY DEF Alone
<1>3. Members(q) = {}  BY <1>2 DEF Members, Unattached
<1>4. StreamsOK(q)
  <2>1. ~Unattached.attached  BY DEF Unattached
  <2> QED  BY <1>2, <2>1 DEF StreamsOK
<1>5. BlocksOK(q)  BY <1>1 DEF BlocksOK
<1>6. RestOnDisk(q)
  <2>1. ASSUME NEW n \in 0 .. q.size - 1
        PROVE  n < q.stored /\ q.disk.items[n + 1] \in FileItems
    <3>1. n \in Nat /\ n + 1 \in 1 .. q.size /\ n < q.stored  BY <1>1, <2>1 DEF Alone
    <3>2. q.mode # "closed"  BY <1>1, <2>1 DEF DiskOK
    <3>3. q.disk.items \in Seq(FileItems) /\ Len(q.disk.items) = q.size
      BY <3>2 DEF Alone, DiskOK
    <3> QED  BY <3>1, <3>3
  <2> QED  BY <2>1 DEF RestOnDisk
<1>7. BuffersOK(q)  BY <1>1, <1>3, NoBlocks DEF BuffersOK, Alone
<1> QED  BY <1>1, <1>3, <1>4, <1>5, <1>6, <1>7 DEF FileInv

LEMMA AloneFile ==
  ASSUME NEW q, FileInv(q), Members(q) = {}
  PROVE  Alone(q)
<1>1. /\ q \in Files /\ q.size \in Nat /\ q.stored \in Nat /\ q.free \in Int
      /\ q.streams \in [FileStreams -> Places] /\ q.disk.items \in Seq(Datum)
      /\ DOMAIN q.used \subseteq 0 .. MaxFileSize /\ Huge > MaxFileSize /\ Huge \in Nat
      /\ MaxFileSize \in Nat
  BY Fields, Words DEF FileInv
<1>2. \A s \in FileStreams : q.streams[s] = Unattached  BY DEF FileInv, StreamsOK, Members
<1>3. q.streams = [s \in FileStreams |-> Unattached]  BY <1>1, <1>2
<1>4. DOMAIN q.used = {}
  <2>1. ASSUME NEW b \in DOMAIN q.used PROVE FALSE
    <3>1. UsersOf(q, b) # {} /\ b # Huge  BY <1>1, <2>1 DEF FileInv, BlocksOK, BlockOK
    <3>2. PICK s \in FileStreams : q.streams[s].block = b  BY <3>1 DEF UsersOf
    <3> QED  BY <1>2, <3>1, <3>2 DEF Unattached
  <2> QED  BY <2>1
<1>5. q.used = <<>>
  <2>1. q.used \in Tables  BY <1>1 DEF Files
  <2> QED  BY <1>4, <2>1, NoBlocks
<1>6. \A n \in 0 .. q.size - 1 : n < q.stored /\ q.disk.items[n + 1] \in FileItems
  BY <1>4 DEF FileInv, RestOnDisk
<1>7. q.stored = q.size
  <2>1. q.stored <= q.size  BY DEF FileInv, DiskOK
  <2>2. CASE q.size = 0  BY <1>1, <2>1, <2>2
  <2>3. CASE q.size > 0
    <3>1. q.size - 1 \in 0 .. q.size - 1  BY <1>1, <2>3
    <3>2. q.size - 1 < q.stored  BY <1>6, <3>1
    <3> QED  BY <1>1, <2>1, <3>2
  <2> QED  BY <1>1, <2>2, <2>3
<1>8. q.mode # "closed" => q.disk.items \in Seq(FileItems)
  <2>1. SUFFICES ASSUME q.mode # "closed" PROVE q.disk.items \in Seq(FileItems)  OBVIOUS
  <2>2. Len(q.disk.items) = q.size  BY <1>7, <2>1 DEF FileInv, DiskOK
  <2>3. ASSUME NEW i \in 1 .. q.size PROVE q.disk.items[i] \in FileItems
    <3>1. i - 1 \in 0 .. q.size - 1 /\ (i - 1) + 1 = i  BY <1>1, <2>3
    <3> QED  BY <1>6, <3>1
  <2> QED  BY <1>1, <2>2, <2>3
<1>9. q.free = 0
  <2>1. q.free + 0 = 0  BY <1>4, NoBlocks DEF FileInv, BuffersOK
  <2> QED  BY <1>1, <2>1
<1> QED  BY <1>1, <1>3, <1>5, <1>7, <1>8, <1>9 DEF Alone

LEMMA NobodyAlone ==
  ASSUME NEW q, Alone(q)
  PROVE  Members(q) = {}
<1>1. ~Unattached.attached  BY DEF Unattached
<1> QED  BY <1>1 DEF Members, Alone

(* What SharedItems sees of a file. *)
StatusOf(q) ==
  IF q.mode # "closed" THEN q.mode
  ELSE IF q.disk.header /\ ~q.disk.clean THEN "lost" ELSE "closed"

ContentsOf(q) ==
  CASE StatusOf(q) = "closed" -> SubSeq(q.disk.items, 1, q.disk.size)
    [] StatusOf(q) = "lost"   -> <<>>
    [] OTHER -> [i \in 1 .. q.size |-> ItemAt(q, i - 1)]

AtOf(q) == [s \in Members(q) |-> OffsetIn(q, s)]

LEMMA AtNone ==
  ASSUME NEW q, Members(q) = {}
  PROVE  AtOf(q) = <<>>
<1>1. AtOf(q) = [s \in {} |-> OffsetIn(q, s)]  BY DEF AtOf
<1>2. [s \in {} |-> OffsetIn(q, s)] = <<>>  OBVIOUS
<1> QED  BY <1>1, <1>2

(* An open file has the items that its streams see. *)
LEMMA OpenContents ==
  ASSUME NEW q, FileInv(q), q.mode # "closed"
  PROVE  /\ StatusOf(q) = q.mode /\ q.mode \in {"read", "read_write"}
         /\ ContentsOf(q) = [i \in 1 .. q.size |-> ItemAt(q, i - 1)]
         /\ ContentsOf(q) \in Seq(FileItems) /\ Len(ContentsOf(q)) = q.size
<1>1. q.mode \in {"read", "read_write"} /\ q.size \in Nat  BY Fields DEF FileInv, Files
<1>2. StatusOf(q) = q.mode  BY DEF StatusOf
<1>3. ContentsOf(q) = [i \in 1 .. q.size |-> ItemAt(q, i - 1)]  BY <1>1, <1>2 DEF ContentsOf
<1>4. ASSUME NEW i \in 1 .. q.size PROVE ItemAt(q, i - 1) \in FileItems
  <2>1. i - 1 \in 0 .. q.size - 1  BY <1>1
  <2> QED  BY <2>1, ItemsAreStored
<1> HIDE DEF ItemAt
<1>5. [i \in 1 .. q.size |-> ItemAt(q, i - 1)] \in [1 .. q.size -> FileItems]  BY <1>4
<1>6. /\ [i \in 1 .. q.size |-> ItemAt(q, i - 1)] \in Seq(FileItems)
      /\ Len([i \in 1 .. q.size |-> ItemAt(q, i - 1)]) = q.size
  <2>1. ASSUME NEW n \in Nat, NEW f \in [1 .. n -> FileItems]
        PROVE  f \in Seq(FileItems) /\ Len(f) = n
    OBVIOUS
  <2> QED  BY <1>1, <1>5, <2>1
<1> QED  BY <1>1, <1>2, <1>3, <1>6

(* A file that is not lost, and has no streams or nothing to write, has the *)
(* items of the disk.                                                       *)
LEMMA DiskContents ==
  ASSUME NEW q, FileInv(q), Alone(q) \/ q.mode = "read"
  PROVE  /\ StatusOf(q) # "lost" => /\ ContentsOf(q) = q.disk.items
                                    /\ q.disk.items \in Seq(FileItems)
         /\ StatusOf(q) = "lost" => ContentsOf(q) = <<>>
<1>1. /\ q.mode \in {"closed", "read", "read_write"} /\ q.size \in Nat
      /\ q.disk.items \in Seq(Datum) /\ q.disk.size \in Nat
  BY Fields DEF FileInv, Files, Disks
<1>2. CASE q.mode = "closed"
  <2>1. CASE q.disk.header /\ ~q.disk.clean
    <3>1. StatusOf(q) = "lost"  BY <1>2, <2>1 DEF StatusOf
    <3> QED  BY <3>1 DEF ContentsOf
  <2>2. CASE ~(q.disk.header /\ ~q.disk.clean)
    <3>1. StatusOf(q) = "closed"  BY <1>2, <2>2 DEF StatusOf
    <3>2. Len(q.disk.items) = q.disk.size /\ q.disk.items \in Seq(FileItems)
      <4>1. CASE q.disk.header  BY <2>2, <4>1 DEF FileInv, DiskOK
      <4>2. CASE ~q.disk.header
        <5>1. q.disk = NoFile  BY <4>2 DEF FileInv, DiskOK
        <5> QED  BY <5>1 DEF NoFile
      <4> QED  BY <4>1, <4>2
    <3>3. ContentsOf(q) = SubSeq(q.disk.items, 1, q.disk.size)  BY <3>1 DEF ContentsOf
    <3>4. SubSeq(q.disk.items, 1, Len(q.disk.items)) = q.disk.items  BY <1>1
    <3> QED  BY <3>1, <3>2, <3>3, <3>4
  <2> QED  BY <2>1, <2>2
<1>3. CASE q.mode # "closed"
  <2>1. StatusOf(q) = q.mode /\ ContentsOf(q) = [i \in 1 .. q.size |-> ItemAt(q, i - 1)]
    BY <1>3, OpenContents
  <2>2. Len(q.disk.items) = q.size
    BY <1>3 DEF FileInv, DiskOK, Alone
  <2>3. ASSUME NEW i \in 1 .. q.size
        PROVE  ItemAt(q, i - 1) = q.disk.items[i] /\ q.disk.items[i] \in FileItems
    <3>1. i - 1 \in 0 .. q.size - 1 /\ i - 1 \in Nat /\ (i - 1) + 1 = i  BY <1>1
    <3>2. ItemAt(q, i - 1) = Stored(q, i - 1) /\ ItemAt(q, i - 1) \in FileItems
      BY <3>1, ItemsAreStored
    <3> DEFINE n == i - 1
               b == BlockAt(n)
               j == IndexOf(n)
    <3>3. CASE b \in DOMAIN q.used
      <4>1. q.mode = "read"
        <5>1. ASSUME Alone(q) PROVE FALSE
          <6>1. DOMAIN q.used = {}  BY <5>1, NoBlocks DEF Alone
          <6> QED  BY <3>3, <6>1
        <5> QED  BY <5>1
      <4>2. BlockOK(q, b) /\ ~q.used[b].dirty
        <5>1. BlockOK(q, b)  BY <3>3 DEF FileInv, BlocksOK
        <5>2. q.used[b].dirty => q.mode = "read_write"  BY <5>1 DEF BlockOK
        <5> QED  BY <4>1, <5>1, <5>2
      <4>3. /\ n = BlockStart(b) + j /\ j \in 0 .. FileBlock - 1 /\ b \in Nat
            /\ BlockStart(b) \in Nat /\ FileBlock \in Nat
        BY <3>1, OffsetParts, BlockStarts, Words
      <4>4. Len(q.used[b].items) = Smaller(FileBlock, q.size - BlockStart(b))
        BY <4>2 DEF BlockOK
      <4>5. j + 1 \in 1 .. Len(q.used[b].items) /\ BlockStart(b) + (j + 1) = i
        <5> HIDE DEF b, j
        <5>1. n = i - 1 /\ n < q.size /\ n \in Nat  BY <1>1
        <5>2. i \in Int /\ q.size \in Nat  BY <1>1
        <5> HIDE DEF n
        <5> QED  BY <4>3, <4>4, <5>1, <5>2 DEF Smaller
      <4>6. q.used[b].items[j + 1] = q.disk.items[BlockStart(b) + (j + 1)]
        BY <4>2, <4>5 DEF BlockOK
      <4>7. Stored(q, n) = q.used[b].items[j + 1]  BY <3>3 DEF Stored
      <4> QED  BY <3>2, <4>5, <4>6, <4>7
    <3>4. CASE b \notin DOMAIN q.used
      <4>1. Stored(q, n) = q.disk.items[n + 1]  BY <3>4 DEF Stored
      <4> QED  BY <3>1, <3>2, <4>1
    <3> QED  BY <3>3, <3>4
  <2>4. [i \in 1 .. q.size |-> ItemAt(q, i - 1)] = q.disk.items
    <3> HIDE DEF ItemAt
    <3>1. DOMAIN q.disk.items = 1 .. q.size /\ q.disk.items = [i \in 1 .. q.size |-> q.disk.items[i]]
      BY <1>1, <2>2
    <3> QED  BY <2>3, <3>1
  <2>5. q.disk.items \in Seq(FileItems)  BY <1>1, <2>2, <2>3
  <2> QED  BY <1>1, <1>3, <2>1, <2>4, <2>5
<1> QED  BY <1>1, <1>2, <1>3

(* A call that is refused changes nothing. *)
Unchanged(q, p) ==
  /\ FileInv(p) /\ p.value = <<>>
  /\ StatusOf(p) = StatusOf(q) /\ ContentsOf(p) = ContentsOf(q) /\ AtOf(p) = AtOf(q)

LEMMA SilentUnchanged ==
  ASSUME NEW q, FileInv(q)
  PROVE  Unchanged(q, Silent(q))
<1> DEFINE p == Silent(q)
<1>1. p = Giving(q, <<>>) /\ <<>> \in Seq(Datum)  BY DEF Silent, Giving
<1>2. FileInv(p) /\ p.value = <<>>
  <2> HIDE DEF p
  <2>1. Kept(q, p, 0) /\ p.value = <<>>  BY <1>1, GivingKeeps
  <2> QED  BY <2>1 DEF Kept
<1>3. /\ p.streams = q.streams /\ p.disk = q.disk /\ p.mode = q.mode /\ p.size = q.size
      /\ p.used = q.used
  BY DEF FileInv, Files, Silent
<1> HIDE DEF p
<1>4. \A n : ItemAt(p, n) = ItemAt(q, n)  BY <1>3 DEF ItemAt
<1>5. \A s : OffsetIn(p, s) = OffsetIn(q, s)  BY <1>3 DEF OffsetIn
<1>6. StatusOf(p) = StatusOf(q)  BY <1>3 DEF StatusOf
<1>7. AtOf(p) = AtOf(q)
  <2>1. Members(p) = Members(q)  BY <1>3 DEF Members
  <2> HIDE DEF OffsetIn
  <2> QED  BY <1>5, <2>1 DEF AtOf
<1>8. ContentsOf(p) = ContentsOf(q)
  <2>1. [i \in 1 .. p.size |-> ItemAt(p, i - 1)] = [i \in 1 .. q.size |-> ItemAt(q, i - 1)]
    BY <1>3, <1>4
  <2> QED  BY <1>3, <1>6, <2>1 DEF ContentsOf
<1> QED  BY <1>2, <1>6, <1>7, <1>8 DEF Unchanged, p

(* The streams of a closed file have been detached. *)
LEMMA ClosedAlone ==
  ASSUME NEW q, FileInv(q), q.mode = "closed"
  PROVE  Alone(q) /\ AtOf(q) = <<>>
<1>1. Members(q) = {}  BY DEF FileInv, DiskOK
<1> QED  BY <1>1, AloneFile, AtNone

LEMMA DetachedAlone ==
  ASSUME FileInv(shared), NoStreams
  PROVE  Alone(shared) /\ AtOf(shared) = <<>>
<1>1. Members(shared) = {}  BY DEF NoStreams, Attached, Members
<1> QED  BY <1>1, AloneFile, AtNone

(* truncate() leaves the first items, or is refused. *)
LEMMA TruncateGoes ==
  ASSUME FileInv(shared), NEW n \in 0 .. MaxFileSize, TruncateFile(n)
  PROVE  \/ Unchanged(shared, shared')
         \/ /\ FileInv(shared') /\ shared'.value = <<>>
            /\ StatusOf(shared) = "read_write" /\ StatusOf(shared') = "read_write"
            /\ AtOf(shared) = <<>> /\ AtOf(shared') = <<>>
            /\ n \in 0 .. Len(ContentsOf(shared))
            /\ ContentsOf(shared') = SubSeq(ContentsOf(shared), 1, n)
<1>1. CASE shared.used # <<>>
  <2>1. shared' = Silent(shared)  BY <1>1 DEF TruncateFile
  <2> QED  BY <2>1, SilentUnchanged
<1>2. CASE shared.used = <<>>
  <2> DEFINE items == shared.disk.items
             m     == Smaller(n, Len(items))
             new   == SubSeq(items, 1, m)
             p     == Silent([shared EXCEPT !.size = n, !.stored = n, !.disk.items = new])
  <2>1. NoStreams /\ shared.mode = "read_write" /\ n <= shared.size /\ shared' = p
    BY <1>2 DEF TruncateFile
  <2>2. Alone(shared) /\ AtOf(shared) = <<>>  BY <2>1, DetachedAlone
  <2>3. /\ StatusOf(shared) = "read_write" /\ ContentsOf(shared) = items
        /\ items \in Seq(FileItems)
    <3>1. StatusOf(shared) = shared.mode  BY <2>1, OpenContents
    <3> QED  BY <2>1, <2>2, <3>1, DiskContents
  <2>4. /\ Len(items) = shared.size /\ shared.size \in Nat /\ n \in Nat
        /\ items \in Seq(Datum) /\ shared.disk \in Disks /\ shared \in Files
        /\ shared.disk.header /\ ~shared.disk.clean
    BY <2>1, <2>2, Fields, Words DEF FileInv, DiskOK, Alone
  <2>5. m = n  BY <2>1, <2>4 DEF Smaller
  <2>6. new \in Seq(FileItems) /\ Len(new) = n /\ new = SubSeq(items, 1, n) /\ new \in Seq(Datum)
    <3>1. SubSeq(items, 1, n) \in Seq(FileItems) /\ Len(SubSeq(items, 1, n)) = n
          /\ SubSeq(items, 1, n) \in Seq(Datum)
      BY <2>1, <2>3, <2>4
    <3> QED  BY <2>5, <3>1
  <2> HIDE DEF new
  <2>7. /\ p \in Files /\ p.used = shared.used /\ p.free = shared.free
        /\ p.streams = shared.streams /\ p.mode = shared.mode /\ p.value = <<>>
        /\ p.size = n /\ p.stored = n /\ p.disk.items = new
        /\ p.disk.header = shared.disk.header /\ p.disk.clean = shared.disk.clean
        /\ p.disk.size = shared.disk.size
    <3> DEFINE D == [shared.disk EXCEPT !.items = new]
               w == [shared EXCEPT !.size = n, !.stored = n, !.disk = D]
    <3>1. D \in Disks /\ D.items = new /\ D.header = shared.disk.header
          /\ D.clean = shared.disk.clean /\ D.size = shared.disk.size
      BY <2>4, <2>6 DEF Disks
    <3> HIDE DEF D
    <3>2. /\ w \in Files /\ w.used = shared.used /\ w.free = shared.free
          /\ w.streams = shared.streams /\ w.mode = shared.mode
          /\ w.size = n /\ w.stored = n /\ w.disk = D
      BY <2>4, <3>1 DEF Files
    <3>3. p = [w EXCEPT !.value = <<>>]  BY <2>4 DEF Silent, Files, D
    <3> HIDE DEF w, p
    <3>4. <<>> \in Seq(Datum)  OBVIOUS
    <3> QED  BY <3>1, <3>2, <3>3, <3>4 DEF Files
  <2> HIDE DEF p, items
  <2>8. Alone(p)  BY <2>2, <2>6, <2>7 DEF Alone
  <2>9. Members(p) = {}  BY <2>8, NobodyAlone
  <2>10. DiskOK(p)  BY <2>1, <2>4, <2>6, <2>7, <2>9 DEF DiskOK
  <2>11. FileInv(p) /\ AtOf(p) = <<>>  BY <2>8, <2>9, <2>10, FileAlone, AtNone
  <2>12. StatusOf(p) = "read_write"  BY <2>1, <2>7, <2>11, OpenContents
  <2>13. ContentsOf(p) = new  BY <2>7, <2>8, <2>11, <2>12, DiskContents
  <2>14. n \in 0 .. Len(ContentsOf(shared))  BY <2>1, <2>3, <2>4 DEF items
  <2> QED  BY <2>1, <2>2, <2>3, <2>6, <2>7, <2>11, <2>12, <2>13, <2>14
<1> QED  BY <1>1, <1>2

(* open() of a file that was closed. *)
LEMMA OpenGoes ==
  ASSUME FileInv(shared), NEW mode \in {"read", "read_write"}, OpenFile(mode)
  PROVE  /\ FileInv(shared') /\ shared'.value = <<>>
         /\ StatusOf(shared) = "closed" /\ StatusOf(shared') = mode
         /\ AtOf(shared) = <<>> /\ AtOf(shared') = <<>>
         /\ ContentsOf(shared') = ContentsOf(shared)
<1> DEFINE size == shared.disk.size
           D == [shared.disk EXCEPT !.header = TRUE, !.clean = mode = "read"]
           w == [shared EXCEPT !.mode = mode, !.size = size, !.stored = size, !.disk = D]
           p == [w EXCEPT !.value = <<>>]
<1>1. shared.mode = "closed" /\ IF shared.disk.header THEN shared.disk.clean ELSE mode = "read_write"
  BY DEF OpenFile
<1>2. /\ shared \in Files /\ shared.disk \in Disks /\ size \in 0 .. MaxFileSize
      /\ shared.disk.items \in Seq(Datum) /\ <<>> \in Seq(Datum)
  BY Fields DEF FileInv, Disks
<1>3. Alone(shared) /\ AtOf(shared) = <<>>  BY <1>1, ClosedAlone
<1>4. StatusOf(shared) = "closed"  BY <1>1 DEF StatusOf
<1>5. ContentsOf(shared) = shared.disk.items /\ shared.disk.items \in Seq(FileItems)
  BY <1>3, <1>4, DiskContents
<1>6. Len(shared.disk.items) = size
  <2>1. CASE shared.disk.header  BY <1>1, <2>1 DEF FileInv, DiskOK
  <2>2. CASE ~shared.disk.header
    <3>1. shared.disk = NoFile  BY <2>2 DEF FileInv, DiskOK
    <3> QED  BY <3>1 DEF NoFile
  <2> QED  BY <2>1, <2>2
<1>7. /\ D \in Disks /\ D.header /\ D.clean = (mode = "read") /\ D.size = size
      /\ D.items = shared.disk.items
  BY <1>2 DEF Disks
<1>8. p = shared'
  <2>1. shared' = Silent([shared EXCEPT !.mode = mode, !.size = shared.disk.size,
                   !.stored = shared.disk.size, !.disk.header = TRUE,
                   !.disk.clean = mode = "read"])
    BY DEF OpenFile
  <2> QED  BY <1>2, <2>1 DEF Silent, Files
<1> HIDE DEF D
<1>9. /\ w \in Files /\ w.used = shared.used /\ w.free = shared.free
      /\ w.streams = shared.streams /\ w.mode = mode
      /\ w.size = size /\ w.stored = size /\ w.disk = D
  BY <1>2, <1>7 DEF Files
<1> HIDE DEF w
<1>10. /\ p \in Files /\ p.used = shared.used /\ p.free = shared.free
       /\ p.streams = shared.streams /\ p.mode = mode /\ p.value = <<>>
       /\ p.size = size /\ p.stored = size /\ p.disk = D
  BY <1>2, <1>9 DEF Files
<1> HIDE DEF p, size
<1>11. Alone(p)  BY <1>3, <1>5, <1>7, <1>10 DEF Alone
<1>12. Members(p) = {}  BY <1>11, NobodyAlone
<1>13. DiskOK(p)
  <2>1. size <= size  BY <1>2
  <2> QED  BY <1>5, <1>6, <1>7, <1>10, <1>12, <2>1 DEF DiskOK
<1>14. FileInv(p) /\ AtOf(p) = <<>>  BY <1>11, <1>12, <1>13, FileAlone, AtNone
<1>15. StatusOf(p) = mode  BY <1>10 DEF StatusOf
<1>16. ContentsOf(p) = shared.disk.items  BY <1>7, <1>10, <1>11, <1>14, <1>15, DiskContents
<1> QED  BY <1>3, <1>4, <1>5, <1>8, <1>10, <1>14, <1>15, <1>16

(* close() of a file: all of it is on the disk, and the header says so. *)
LEMMA CloseGoes ==
  ASSUME FileInv(shared), CloseFile
  PROVE  /\ FileInv(shared') /\ shared'.value = <<>>
         /\ StatusOf(shared) \in {"read", "read_write"} /\ StatusOf(shared') = "closed"
         /\ AtOf(shared) = <<>> /\ AtOf(shared') = <<>>
         /\ ContentsOf(shared') = ContentsOf(shared)
<1> DEFINE stored == shared.stored
           D == [shared.disk EXCEPT !.clean = TRUE, !.size = stored]
           w == [shared EXCEPT !.mode = "closed", !.disk = D, !.size = 0, !.stored = 0]
           p == [w EXCEPT !.value = <<>>]
<1>1. shared.mode # "closed" /\ NoStreams  BY DEF CloseFile
<1>2. /\ shared \in Files /\ shared.disk \in Disks /\ stored \in 0 .. MaxFileSize
      /\ shared.disk.items \in Seq(Datum) /\ <<>> \in Seq(Datum)
      /\ 0 \in 0 .. MaxFileSize
  BY Fields, Words DEF FileInv
<1>3. Alone(shared) /\ AtOf(shared) = <<>>  BY <1>1, DetachedAlone
<1>4. StatusOf(shared) = shared.mode /\ shared.mode \in {"read", "read_write"}
  BY <1>1, OpenContents
<1>5. ContentsOf(shared) = shared.disk.items /\ shared.disk.items \in Seq(FileItems)
  BY <1>3, <1>4, DiskContents
<1>6. Len(shared.disk.items) = stored /\ shared.disk.header  BY <1>1 DEF FileInv, DiskOK
<1>7. /\ D \in Disks /\ D.header = shared.disk.header /\ D.clean /\ D.size = stored
      /\ D.items = shared.disk.items
  BY <1>2 DEF Disks
<1>8. p = shared'
  <2>1. shared' = Silent([shared EXCEPT !.mode = "closed", !.disk.clean = TRUE,
                   !.disk.size = shared.stored, !.size = 0, !.stored = 0])
    BY DEF CloseFile
  <2> QED  BY <1>2, <2>1 DEF Silent, Files
<1> HIDE DEF D
<1>9. /\ w \in Files /\ w.used = shared.used /\ w.free = shared.free
      /\ w.streams = shared.streams /\ w.mode = "closed"
      /\ w.size = 0 /\ w.stored = 0 /\ w.disk = D
  BY <1>2, <1>7 DEF Files
<1> HIDE DEF w
<1>10. /\ p \in Files /\ p.used = shared.used /\ p.free = shared.free
       /\ p.streams = shared.streams /\ p.mode = "closed" /\ p.value = <<>>
       /\ p.size = 0 /\ p.stored = 0 /\ p.disk = D
  BY <1>2, <1>9 DEF Files
<1> HIDE DEF p, stored
<1>11. Alone(p)  BY <1>3, <1>10 DEF Alone
<1>12. Members(p) = {}  BY <1>11, NobodyAlone
<1>13. DiskOK(p)
  <2>1. p.stored <= p.size  BY <1>10
  <2>2. Len(p.disk.items) = p.disk.size /\ p.disk.items \in Seq(FileItems) /\ p.disk.header
    BY <1>5, <1>6, <1>7, <1>10
  <2> QED  BY <1>10, <1>12, <2>1, <2>2 DEF DiskOK
<1>14. FileInv(p) /\ AtOf(p) = <<>>  BY <1>11, <1>12, <1>13, FileAlone, AtNone
<1>15. StatusOf(p) = "closed"  BY <1>7, <1>10 DEF StatusOf
<1>16. ContentsOf(p) = shared.disk.items  BY <1>7, <1>10, <1>11, <1>14, <1>15, DiskContents
<1> QED  BY <1>3, <1>4, <1>5, <1>8, <1>10, <1>14, <1>15, <1>16

(* What is left when the program ends: what is on the disk. *)
LEMMA CrashGoes ==
  ASSUME FileInv(shared), Crash
  PROVE  /\ FileInv(shared') /\ shared'.value = <<>> /\ AtOf(shared') = <<>>
         /\ StatusOf(shared) \in {"read", "read_write", "closed", "lost"}
         /\ StatusOf(shared) = "lost" => AtOf(shared) = <<>>
         /\ IF StatusOf(shared) \in {"read_write", "lost"}
            THEN StatusOf(shared') = "lost" /\ ContentsOf(shared') = <<>>
            ELSE StatusOf(shared') = "closed" /\ ContentsOf(shared') = ContentsOf(shared)
         /\ StatusOf(shared) = "lost" => ContentsOf(shared) = <<>>
<1> DEFINE none == [s \in FileStreams |-> Unattached]
           w == [shared EXCEPT !.mode = "closed", !.size = 0, !.stored = 0, !.free = 0]
           p == [w EXCEPT !.used = <<>>, !.value = <<>>, !.streams = none]
<1>1. p = shared'  BY DEF Crash, FileInv, Files
<1>2. /\ shared \in Files /\ <<>> \in Seq(Datum) /\ <<>> \in Tables
      /\ 0 \in 0 .. MaxFileSize /\ shared.mode \in {"closed", "read", "read_write"}
  BY Words, NoBlocks DEF FileInv, Files
<1>3. none \in [FileStreams -> Places]
  <2>1. Unattached \in Places  BY Words DEF Unattached, Places
  <2> QED  BY <2>1
<1> HIDE DEF none
<1>4. /\ p \in Files /\ p.mode = "closed" /\ p.size = 0 /\ p.stored = 0 /\ p.used = <<>>
      /\ p.free = 0 /\ p.value = <<>> /\ p.streams = none /\ p.disk = shared.disk
  <2>1. /\ w \in Files /\ w.mode = "closed" /\ w.size = 0 /\ w.stored = 0
        /\ w.free = 0 /\ w.disk = shared.disk
    <3>1. shared \in Files /\ 0 \in 0 .. MaxFileSize /\ 0 \in Int  BY <1>2
    <3> QED  BY <3>1 DEF Files
  <2> HIDE DEF w
  <2> QED  BY <1>2, <1>3, <2>1 DEF Files
<1> HIDE DEF p
<1>5. Alone(p)  BY <1>4 DEF Alone, none
<1>6. Members(p) = {}  BY <1>5, NobodyAlone
<1>7. DiskOK(p)  BY <1>4, <1>6 DEF DiskOK, FileInv
<1>8. FileInv(p) /\ AtOf(p) = <<>>  BY <1>5, <1>6, <1>7, FileAlone, AtNone
<1>9. /\ StatusOf(p) # "lost" => ContentsOf(p) = shared.disk.items
      /\ StatusOf(p) = "lost" => ContentsOf(p) = <<>>
  BY <1>4, <1>5, <1>8, DiskContents
<1>10. CASE shared.mode = "read_write"
  <2>1. shared.disk.header /\ ~shared.disk.clean  BY <1>10 DEF FileInv, DiskOK
  <2>2. StatusOf(p) = "lost" /\ StatusOf(shared) = "read_write"  BY <1>4, <1>10, <2>1 DEF StatusOf
  <2> QED  BY <1>1, <1>4, <1>8, <1>9, <2>2
<1>11. CASE shared.mode = "read"
  <2>1. shared.disk.header /\ shared.disk.clean  BY <1>11 DEF FileInv, DiskOK
  <2>2. StatusOf(p) = "closed" /\ StatusOf(shared) = "read"  BY <1>4, <1>11, <2>1 DEF StatusOf
  <2>3. ContentsOf(shared) = shared.disk.items  BY <1>11, <2>2, DiskContents
  <2> QED  BY <1>1, <1>4, <1>8, <1>9, <2>2, <2>3
<1>12. CASE shared.mode = "closed"
  <2>1. StatusOf(p) = StatusOf(shared) /\ StatusOf(p) \in {"closed", "lost"}
    BY <1>4, <1>12 DEF StatusOf
  <2>2. Alone(shared) /\ AtOf(shared) = <<>>  BY <1>12, ClosedAlone
  <2>3. /\ StatusOf(shared) # "lost" => ContentsOf(shared) = shared.disk.items
        /\ StatusOf(shared) = "lost" => ContentsOf(shared) = <<>>
    BY <2>2, DiskContents
  <2> QED  BY <1>1, <1>4, <1>8, <1>9, <2>1, <2>2, <2>3
<1> QED  BY <1>2, <1>10, <1>11, <1>12

(* A file that is not there has no items. *)
LEMMA NothingThere ==
  ASSUME NEW p, p \in Files, p.used = <<>>, p.free = 0, p.size = 0, p.stored = 0,
         p.streams = [s \in FileStreams |-> Unattached], p.mode = "closed", p.disk = NoFile
  PROVE  FileInv(p) /\ StatusOf(p) = "closed" /\ ContentsOf(p) = <<>> /\ AtOf(p) = <<>>
<1>1. ~NoFile.header /\ NoFile.items = <<>>  BY DEF NoFile
<1>2. Alone(p)  BY DEF Alone
<1>3. Members(p) = {}  BY <1>2, NobodyAlone
<1>4. DiskOK(p)  BY <1>1, <1>3 DEF DiskOK
<1>5. FileInv(p) /\ AtOf(p) = <<>>  BY <1>2, <1>3, <1>4, FileAlone, AtNone
<1>6. StatusOf(p) = "closed"  BY <1>1 DEF StatusOf
<1> QED  BY <1>1, <1>2, <1>5, <1>6, DiskContents

LEMMA RemoveGoes ==
  ASSUME FileInv(shared), RemoveFile
  PROVE  /\ FileInv(shared') /\ shared'.value = <<>>
         /\ StatusOf(shared) \in {"closed", "lost"} /\ StatusOf(shared') = "closed"
         /\ AtOf(shared) = <<>> /\ AtOf(shared') = <<>> /\ ContentsOf(shared') = <<>>
<1> DEFINE w == [shared EXCEPT !.disk = NoFile]
           p == [w EXCEPT !.value = <<>>]
<1>1. p = shared' /\ shared.mode = "closed"  BY DEF RemoveFile, Silent
<1>2. /\ shared \in Files /\ NoFile \in Disks /\ <<>> \in Seq(Datum)
  <2>1. <<>> \in Seq(Datum) /\ 0 \in 0 .. MaxFileSize  BY Words
  <2> QED  BY <2>1 DEF FileInv, NoFile, Disks
<1>3. Alone(shared) /\ AtOf(shared) = <<>>  BY <1>1, ClosedAlone
<1>4. shared.size = 0 /\ shared.stored = 0  BY <1>1 DEF FileInv, DiskOK
<1>5. /\ w \in Files /\ w.disk = NoFile /\ w.mode = shared.mode /\ w.size = shared.size
      /\ w.stored = shared.stored /\ w.used = shared.used /\ w.free = shared.free
      /\ w.streams = shared.streams
  BY <1>2 DEF Files
<1> HIDE DEF w
<1>6. /\ p \in Files /\ p.disk = NoFile /\ p.mode = shared.mode /\ p.size = shared.size
      /\ p.stored = shared.stored /\ p.used = shared.used /\ p.free = shared.free
      /\ p.streams = shared.streams /\ p.value = <<>>
  BY <1>2, <1>5 DEF Files
<1> HIDE DEF p
<1>7. FileInv(p) /\ StatusOf(p) = "closed" /\ ContentsOf(p) = <<>> /\ AtOf(p) = <<>>
  BY <1>1, <1>3, <1>4, <1>6, NothingThere DEF Alone
<1>8. StatusOf(shared) \in {"closed", "lost"}  BY <1>1 DEF StatusOf
<1> QED  BY <1>1, <1>3, <1>6, <1>7, <1>8

LEMMA InitGoes ==
  ASSUME FileInit
  PROVE  /\ FileInv(shared) /\ StatusOf(shared) = "closed" /\ ContentsOf(shared) = <<>>
         /\ AtOf(shared) = <<>> /\ shared.value = <<>>
<1> DEFINE none == [s \in FileStreams |-> Unattached]
<1>1. none \in [FileStreams -> Places]
  <2>1. Unattached \in Places  BY Words DEF Unattached, Places
  <2> QED  BY <2>1
<1>2. NoFile \in Disks /\ <<>> \in Seq(Datum) /\ <<>> \in Tables /\ 0 \in 0 .. MaxFileSize
  <2>1. <<>> \in Seq(Datum) /\ 0 \in 0 .. MaxFileSize /\ <<>> \in Tables  BY Words, NoBlocks
  <2> QED  BY <2>1 DEF NoFile, Disks
<1>3. shared = [disk |-> NoFile, mode |-> "closed", size |-> 0, stored |-> 0,
                used |-> <<>>, free |-> 0, value |-> <<>>, streams |-> none]
  BY DEF FileInit
<1> HIDE DEF none
<1>4. /\ shared \in Files /\ shared.used = <<>> /\ shared.free = 0 /\ shared.size = 0
      /\ shared.stored = 0 /\ shared.streams = none /\ shared.mode = "closed"
      /\ shared.disk = NoFile /\ shared.value = <<>>
  BY <1>1, <1>2, <1>3 DEF Files
<1> QED  BY <1>4, NothingThere DEF none

(***************************************************************************)
(* The steps, as SharedItems sees them.                                    *)
(***************************************************************************)

(* Status, items, offsets and what the last call gave, of a file. *)
Seen(q, status, contents, at, value) ==
  /\ StatusOf(q) = status /\ ContentsOf(q) = contents /\ AtOf(q) = at /\ q.value = value

LEMMA SeenHere ==
  /\ Seen(shared, FileStatus, FileContents, FileOffsets, shared.value)
  /\ Seen(shared', FileStatus', FileContents', FileOffsets', shared'.value)
<1>1. StatusOf(shared) = FileStatus  BY DEF StatusOf, FileStatus
<1>2. StatusOf(shared') = FileStatus'  BY DEF StatusOf, FileStatus
<1>3. \A n : ItemAt(shared, n) = ItemInFile(n)  BY DEF ItemAt, ItemInFile
<1>4. \A n : ItemAt(shared', n) = ItemInFile(n)'  BY DEF ItemAt, ItemInFile
<1>5. [i \in 1 .. shared.size |-> ItemAt(shared, i - 1)]
        = [i \in 1 .. shared.size |-> ItemInFile(i - 1)]
  BY <1>3
<1>6. [i \in 1 .. shared'.size |-> ItemAt(shared', i - 1)]
        = [i \in 1 .. shared'.size |-> ItemInFile(i - 1)']
  BY <1>4
<1>7. ContentsOf(shared) = FileContents  BY <1>1, <1>5 DEF ContentsOf, FileContents
<1>8. ContentsOf(shared') = FileContents'  BY <1>2, <1>6 DEF ContentsOf, FileContents
<1>9. AtOf(shared) = FileOffsets  BY DEF AtOf, FileOffsets, Members, Attached
<1>10. AtOf(shared') = FileOffsets'  BY DEF AtOf, FileOffsets, Members, Attached
<1> QED  BY <1>1, <1>2, <1>7, <1>8, <1>9, <1>10 DEF Seen

(* An open file, with one of its streams. *)
LEMMA AtOffset ==
  ASSUME NEW q, FileInv(q), NEW s \in FileStreams, q.streams[s].attached
  PROVE  /\ s \in DOMAIN AtOf(q) /\ AtOf(q)[s] = OffsetIn(q, s)
         /\ OffsetIn(q, s) \in 0 .. Len(ContentsOf(q)) /\ Len(ContentsOf(q)) = q.size
         /\ ContentsOf(q) \in Seq(FileItems) /\ q.size \in Nat
         /\ \A k \in 0 .. q.size - 1 : ContentsOf(q)[k + 1] = ItemAt(q, k)
         /\ q.mode \in {"read", "read_write"} /\ StatusOf(q) = q.mode
<1>1. q.mode # "closed" /\ q.size \in Nat  BY Place
<1>2. OffsetIn(q, s) \in 0 .. q.size  BY Offsets
<1>3. s \in Members(q)  BY DEF Members
<1>4. s \in DOMAIN AtOf(q) /\ AtOf(q)[s] = OffsetIn(q, s)
  <2> HIDE DEF OffsetIn
  <2> QED  BY <1>3 DEF AtOf
<1>5. /\ ContentsOf(q) = [i \in 1 .. q.size |-> ItemAt(q, i - 1)]
      /\ ContentsOf(q) \in Seq(FileItems) /\ Len(ContentsOf(q)) = q.size
      /\ StatusOf(q) = q.mode /\ q.mode \in {"read", "read_write"}
  BY <1>1, OpenContents
<1>6. ASSUME NEW k \in 0 .. q.size - 1 PROVE ContentsOf(q)[k + 1] = ItemAt(q, k)
  <2>1. k + 1 \in 1 .. q.size /\ (k + 1) - 1 = k  BY <1>1, <1>6
  <2> HIDE DEF ItemAt
  <2> QED  BY <1>5, <2>1
<1> QED  BY <1>1, <1>2, <1>4, <1>5, <1>6

LEMMA KeptSeen ==
  ASSUME NEW q, FileInv(q), q.mode # "closed", NEW p, NEW s, Kept(q, p, s)
  PROVE  StatusOf(p) = StatusOf(q) /\ ContentsOf(p) = ContentsOf(q)
<1>1. /\ FileInv(p) /\ p.mode = q.mode /\ p.size = q.size
      /\ \A n \in 0 .. q.size - 1 : ItemAt(p, n) = ItemAt(q, n)
  BY DEF Kept
<1>2. q.size \in Nat  BY Fields DEF FileInv
<1>3. /\ StatusOf(q) = q.mode /\ ContentsOf(q) = [i \in 1 .. q.size |-> ItemAt(q, i - 1)]
      /\ StatusOf(p) = p.mode /\ ContentsOf(p) = [i \in 1 .. p.size |-> ItemAt(p, i - 1)]
  BY <1>1, OpenContents
<1>4. ASSUME NEW i \in 1 .. q.size PROVE ItemAt(p, i - 1) = ItemAt(q, i - 1)
  <2>1. i - 1 \in 0 .. q.size - 1  BY <1>2
  <2> QED  BY <1>1, <2>1
<1> HIDE DEF ItemAt
<1>5. [i \in 1 .. q.size |-> ItemAt(p, i - 1)] = [i \in 1 .. q.size |-> ItemAt(q, i - 1)]
  BY <1>4
<1> QED  BY <1>1, <1>3, <1>5

(* The offset of one stream alone changes. *)
LEMMA OffsetMoves ==
  ASSUME NEW q, FileInv(q), NEW s \in FileStreams, q.streams[s].attached,
         NEW p, p.streams[s].attached,
         \A t \in FileStreams \ {s} : p.streams[t] = q.streams[t]
  PROVE  AtOf(p) = [AtOf(q) EXCEPT ![s] = OffsetIn(p, s)]
<1>1. Members(p) = Members(q) /\ s \in Members(q)  BY DEF Members
<1>2. \A t \in Members(q) \ {s} : OffsetIn(p, t) = OffsetIn(q, t)
  BY DEF OffsetIn, Members
<1> HIDE DEF OffsetIn
<1> QED  BY <1>1, <1>2 DEF AtOf

JoinsAt(at, more, s) ==
  s \notin DOMAIN at /\ more = [t \in DOMAIN at \cup {s} |-> IF t = s THEN 0 ELSE at[t]]

LEMMA OffsetJoins ==
  ASSUME NEW q, NEW s \in FileStreams, ~q.streams[s].attached,
         NEW p, p.streams[s].attached, OffsetIn(p, s) = 0,
         \A t \in FileStreams \ {s} : p.streams[t] = q.streams[t]
  PROVE  JoinsAt(AtOf(q), AtOf(p), s)
<1>1. Members(p) = Members(q) \cup {s} /\ s \notin Members(q)  BY DEF Members
<1>2. \A t \in Members(q) : OffsetIn(p, t) = OffsetIn(q, t)
  BY DEF OffsetIn, Members
<1> HIDE DEF OffsetIn
<1> QED  BY <1>1, <1>2 DEF AtOf, JoinsAt

LEMMA OffsetLeaves ==
  ASSUME NEW q, NEW s \in FileStreams, NEW p, ~p.streams[s].attached,
         \A t \in FileStreams \ {s} : p.streams[t] = q.streams[t]
  PROVE  AtOf(p) = [t \in DOMAIN AtOf(q) \ {s} |-> AtOf(q)[t]]
<1>1. Members(p) = Members(q) \ {s}  BY DEF Members
<1>2. \A t \in Members(p) : OffsetIn(p, t) = OffsetIn(q, t)
  BY <1>1 DEF OffsetIn, Members
<1> HIDE DEF OffsetIn
<1> QED  BY <1>1, <1>2 DEF AtOf

LEMMA NowSeen ==
  /\ StatusOf(shared) = FileStatus /\ StatusOf(shared') = FileStatus'
  /\ ContentsOf(shared) = FileContents /\ ContentsOf(shared') = FileContents'
  /\ AtOf(shared) = FileOffsets /\ AtOf(shared') = FileOffsets'
BY SeenHere DEF Seen

LEMMA StreamSeen ==
  ASSUME FileInv(shared), NEW s \in FileStreams, shared.streams[s].attached
  PROVE  /\ s \in DOMAIN FileOffsets /\ FileOffsets[s] = OffsetIn(shared, s)
         /\ OffsetIn(shared, s) \in 0 .. Len(FileContents) /\ Len(FileContents) = shared.size
         /\ FileContents \in Seq(FileItems) /\ shared.size \in Nat
         /\ \A k \in 0 .. shared.size - 1 : FileContents[k + 1] = ItemAt(shared, k)
         /\ FileStatus \in {"read", "read_write"} /\ FileStatus = shared.mode
<1>1. /\ s \in DOMAIN AtOf(shared) /\ AtOf(shared)[s] = OffsetIn(shared, s)
      /\ OffsetIn(shared, s) \in 0 .. Len(ContentsOf(shared))
      /\ Len(ContentsOf(shared)) = shared.size
      /\ ContentsOf(shared) \in Seq(FileItems) /\ shared.size \in Nat
      /\ \A k \in 0 .. shared.size - 1 : ContentsOf(shared)[k + 1] = ItemAt(shared, k)
      /\ shared.mode \in {"read", "read_write"} /\ StatusOf(shared) = shared.mode
  BY AtOffset
<1> QED  BY <1>1, NowSeen

(* A stream has moved, and the call has given v. *)
MovedTo(s, n, v) ==
  /\ FileOffsets' = [FileOffsets EXCEPT ![s] = n]
  /\ FileContents' = FileContents /\ FileStatus' = FileStatus /\ shared'.value = v

LEMMA GoesSeen ==
  ASSUME NEW s \in FileStreams, NEW n, NEW v, Goes(shared, shared', s, n, v)
  PROVE  FileInv(shared') /\ MovedTo(s, n, v)
<1>1. /\ FileInv(shared) /\ shared.streams[s].attached /\ Kept(shared, shared', s)
      /\ shared'.streams[s].attached /\ OffsetIn(shared', s) = n /\ shared'.value = v
  BY DEF Goes
<1>2. FileInv(shared') /\ \A t \in FileStreams \ {s} : shared'.streams[t] = shared.streams[t]
  BY <1>1 DEF Kept
<1>3. shared.mode # "closed"  BY <1>1, Place
<1>4. StatusOf(shared') = StatusOf(shared) /\ ContentsOf(shared') = ContentsOf(shared)
  BY <1>1, <1>3, KeptSeen
<1>5. AtOf(shared') = [AtOf(shared) EXCEPT ![s] = n]  BY <1>1, <1>2, OffsetMoves
<1> QED  BY <1>1, <1>2, <1>4, <1>5, NowSeen DEF MovedTo

(* What a step has to show: the invariant, and a step of SharedItems. *)
LEMMA StreamStep ==
  ASSUME NEW s \in FileStreams, s \in DOMAIN FileOffsets,
         \/ Shared!Read(s) \/ Shared!ReadBack(s) \/ Shared!ReadArray(s) \/ Shared!Write(s)
         \/ Shared!Seek(s) \/ Shared!Detach(s)
  PROVE  Shared!Next
BY DEF Shared!Next

LEMMA SeekSeen ==
  ASSUME NEW s \in FileStreams, NEW m \in 0 .. shared.size, Goes(shared, shared', s, m, <<>>)
  PROVE  FileInv(shared') /\ Shared!Next
<1>1. FileInv(shared') /\ MovedTo(s, m, <<>>)  BY GoesSeen
<1>2. s \in DOMAIN FileOffsets /\ m \in 0 .. Len(FileContents)  BY StreamSeen DEF Goes
<1>3. Shared!Seek(s)  BY <1>1, <1>2 DEF Shared!Seek, Shared!Moved, MovedTo
<1> QED  BY <1>1, <1>2, <1>3, StreamStep

LEMMA SeekStep ==
  ASSUME FileInv(shared), NEW s \in FileStreams, NEW n \in Int,
         SeekFromBeginning(s, n) \/ SeekFromEnd(s, n)
  PROVE  FileInv(shared') /\ Shared!Next
<1>1. shared.streams[s].attached  BY DEF SeekFromBeginning, SeekFromEnd, Attached
<1>2. shared.size - n \in Int  BY <1>1, Place
<1>3. PICK k \in Int : shared' = Silent(SeekFrom(shared, s, k))
  <2>1. CASE SeekFromBeginning(s, n)  BY <2>1 DEF SeekFromBeginning
  <2>2. CASE SeekFromEnd(s, n)  BY <1>2, <2>2 DEF SeekFromEnd
  <2> QED  BY <2>1, <2>2
<1>4. PICK m \in 0 .. shared.size : Goes(shared, shared', s, m, <<>>)
  BY <1>1, <1>3, SeekGoes
<1> QED  BY <1>4, SeekSeen

LEMMA SkipStep ==
  ASSUME Omits = LooseCalls, FileInv(shared), NEW s \in FileStreams,
         NEW n \in -FileBlock .. FileBlock, SeekFromHere(s, n)
  PROVE  FileInv(shared') /\ Shared!Next
<1>1. PICK m \in 0 .. shared.size : Goes(shared, shared', s, m, <<>>)  BY SkipGoes
<1> QED  BY <1>1, SeekSeen

LEMMA ReadStep ==
  ASSUME Omits = LooseCalls, FileInv(shared), NEW s \in FileStreams, Read(s)
  PROVE  FileInv(shared') /\ Shared!Next
<1> DEFINE off == OffsetIn(shared, s)
           v   == <<ItemAt(shared, off)>>
<1>1. off < shared.size /\ Goes(shared, shared', s, off + 1, v)  BY ReadGoes
<1>2. shared.streams[s].attached  BY <1>1 DEF Goes
<1>3. FileInv(shared') /\ MovedTo(s, off + 1, v)  BY <1>1, GoesSeen
<1>4. /\ s \in DOMAIN FileOffsets /\ FileOffsets[s] = off /\ off \in 0 .. Len(FileContents)
      /\ Len(FileContents) = shared.size /\ shared.size \in Nat
      /\ \A k \in 0 .. shared.size - 1 : FileContents[k + 1] = ItemAt(shared, k)
  BY <1>2, StreamSeen
<1> HIDE DEF off
<1>5. off \in 0 .. shared.size - 1  BY <1>1, <1>4
<1>6. v = <<FileContents[FileOffsets[s] + 1]>>  BY <1>4, <1>5
<1> HIDE DEF v
<1>7. Shared!Read(s)  BY <1>1, <1>3, <1>4, <1>6 DEF Shared!Read, Shared!Moved, MovedTo
<1> QED  BY <1>3, <1>4, <1>7, StreamStep

LEMMA ReadBackStep ==
  ASSUME FileInv(shared), NEW s \in FileStreams, ReadBack(s)
  PROVE  FileInv(shared') /\ Shared!Next
<1> DEFINE off == OffsetIn(shared, s)
           v   == <<ItemAt(shared, off - 1)>>
<1>1. off > 0 /\ Goes(shared, shared', s, off - 1, v)  BY ReadBackGoes
<1>2. shared.streams[s].attached  BY <1>1 DEF Goes
<1>3. FileInv(shared') /\ MovedTo(s, off - 1, v)  BY <1>1, GoesSeen
<1>4. /\ s \in DOMAIN FileOffsets /\ FileOffsets[s] = off /\ off \in 0 .. Len(FileContents)
      /\ Len(FileContents) = shared.size /\ shared.size \in Nat
      /\ \A k \in 0 .. shared.size - 1 : FileContents[k + 1] = ItemAt(shared, k)
  BY <1>2, StreamSeen
<1> HIDE DEF off
<1>5. off - 1 \in 0 .. shared.size - 1 /\ (off - 1) + 1 = off  BY <1>1, <1>4
<1>6. v = <<FileContents[FileOffsets[s]]>>
  <2>1. FileContents[(off - 1) + 1] = ItemAt(shared, off - 1)  BY <1>4, <1>5
  <2> QED  BY <1>4, <1>5, <2>1
<1> HIDE DEF v
<1>7. Shared!ReadBack(s)  BY <1>1, <1>3, <1>4, <1>6 DEF Shared!ReadBack, Shared!Moved, MovedTo
<1> QED  BY <1>3, <1>4, <1>7, StreamStep

LEMMA ReadArrayStep ==
  ASSUME Omits = LooseCalls, FileInv(shared), NEW s \in FileStreams, NEW n \in ArraySizes,
         ReadArray(s, n)
  PROVE  FileInv(shared') /\ Shared!Next
<1> DEFINE off == OffsetIn(shared, s)
           v   == ItemsFrom(shared, off, n)
<1>1. n \in Nat  BY SharedFileAssumption
<1>2. \/ off + n <= shared.size /\ Goes(shared, shared', s, off + n, v)
      \/ \E m \in 0 .. shared.size : Goes(shared, shared', s, m, <<>>)
  BY <1>1, ReadArrayGoes
<1>3. CASE \E m \in 0 .. shared.size : Goes(shared, shared', s, m, <<>>)
  BY <1>3, SeekSeen
<1>4. CASE off + n <= shared.size /\ Goes(shared, shared', s, off + n, v)
  <2>1. shared.streams[s].attached  BY <1>4 DEF Goes
  <2>2. FileInv(shared') /\ MovedTo(s, off + n, v)  BY <1>4, GoesSeen
  <2>3. /\ s \in DOMAIN FileOffsets /\ FileOffsets[s] = off /\ off \in 0 .. Len(FileContents)
        /\ Len(FileContents) = shared.size /\ shared.size \in Nat
        /\ FileContents \in Seq(FileItems)
        /\ \A k \in 0 .. shared.size - 1 : FileContents[k + 1] = ItemAt(shared, k)
    BY <1>4, <2>1, StreamSeen DEF Goes
  <2> HIDE DEF off
  <2>4. v = SubSeq(FileContents, off + 1, off + n)
    <3>1. ASSUME NEW i \in 1 .. n PROVE ItemAt(shared, off + i - 1) = FileContents[off + i]
      <4>1. off + i - 1 \in 0 .. shared.size - 1 /\ (off + i - 1) + 1 = off + i
        BY <1>1, <1>4, <2>3
      <4> QED  BY <2>3, <4>1
    <3>2. SubSeq(FileContents, off + 1, off + n) = [i \in 1 .. n |-> FileContents[off + i]]
      <4> DEFINE sub == SubSeq(FileContents, off + 1, off + n)
      <4>0. off \in Nat /\ off + n \in 0 .. Len(FileContents) /\ (off + n) - off = n
            /\ off <= off + n
        BY <1>1, <1>4, <2>3
      <4>1. /\ sub \in Seq(FileItems) /\ Len(sub) = n
            /\ \A i \in 1 .. n : sub[i] = FileContents[off + i]
        BY <2>3, <4>0, Parts
      <4> HIDE DEF sub
      <4>2. sub = [i \in 1 .. n |-> sub[i]]  BY <4>1
      <4>3. sub = [i \in 1 .. n |-> FileContents[off + i]]  BY <4>1, <4>2
      <4> QED  BY <4>3 DEF sub
    <3> HIDE DEF ItemAt
    <3> QED  BY <3>1, <3>2 DEF ItemsFrom
  <2> HIDE DEF v
  <2>5. Shared!ReadArray(s)
    BY <1>4, <2>2, <2>3, <2>4 DEF Shared!ReadArray, Shared!Moved, MovedTo
  <2> QED  BY <2>2, <2>3, <2>5, StreamStep
<1> QED  BY <1>2, <1>3, <1>4

LEMMA FillsSeen ==
  ASSUME NEW s \in FileStreams, NEW n \in Nat, n \in {1} \cup ArraySizes,
         Fills(shared, shared', s, n)
  PROVE  FileInv(shared') /\ Shared!Next
<1> DEFINE off == OffsetIn(shared, s)
<1>1. /\ FileInv(shared) /\ shared.streams[s].attached /\ shared.mode = "read_write"
      /\ FileInv(shared') /\ shared'.mode = shared.mode
      /\ shared'.size = Larger(shared.size, off + n)
      /\ shared'.streams[s].attached /\ OffsetIn(shared', s) = off + n /\ shared'.value = <<>>
      /\ \A t \in FileStreams \ {s} : shared'.streams[t] = shared.streams[t]
  BY DEF Fills
<1>2. \A k \in 0 .. shared'.size - 1 :
        IF k \in off .. off + n - 1 THEN ItemAt(shared', k) \in FileItems
        ELSE ItemAt(shared', k) = ItemAt(shared, k)
  BY DEF Fills
<1>3. /\ s \in DOMAIN FileOffsets /\ FileOffsets[s] = off /\ off \in 0 .. Len(FileContents)
      /\ Len(FileContents) = shared.size /\ shared.size \in Nat
      /\ \A k \in 0 .. shared.size - 1 : FileContents[k + 1] = ItemAt(shared, k)
      /\ FileStatus = "read_write"
  BY <1>1, StreamSeen
<1>4. /\ Len(FileContents') = shared'.size /\ shared'.size \in Nat
      /\ \A k \in 0 .. shared'.size - 1 : FileContents'[k + 1] = ItemAt(shared', k)
      /\ FileStatus' = "read_write"
  <2>1. /\ Len(ContentsOf(shared')) = shared'.size /\ shared'.size \in Nat
        /\ \A k \in 0 .. shared'.size - 1 : ContentsOf(shared')[k + 1] = ItemAt(shared', k)
        /\ StatusOf(shared') = "read_write"
    BY <1>1, AtOffset
  <2> QED  BY <2>1, NowSeen
<1>5. FileOffsets' = [FileOffsets EXCEPT ![s] = off + n]
  <2>1. AtOf(shared') = [AtOf(shared) EXCEPT ![s] = OffsetIn(shared', s)]
    BY <1>1, OffsetMoves
  <2> QED  BY <1>1, <2>1, NowSeen
<1> HIDE DEF off
<1>6. Len(FileContents') = IF off + n > Len(FileContents) THEN off + n ELSE Len(FileContents)
  <2> DEFINE size == shared.size
  <2> HIDE DEF size
  <2>1. Larger(size, off + n) = IF off + n > size THEN off + n ELSE size
    <3>1. size \in Nat /\ off \in Nat  BY <1>3 DEF size
    <3> QED  BY <3>1 DEF Larger
  <2> QED  BY <1>1, <1>3, <1>4, <2>1 DEF size
<1>7. ASSUME NEW i \in 1 .. Len(FileContents')
      PROVE  IF i \in off + 1 .. off + n THEN FileContents'[i] \in FileItems
             ELSE FileContents'[i] = FileContents[i]
  <2> DEFINE k == i - 1
  <2>1. /\ i \in Int /\ off \in Nat /\ k \in 0 .. shared'.size - 1 /\ k + 1 = i
        /\ off <= shared.size
    BY <1>3, <1>4, <1>7
  <2>2. FileContents'[i] = ItemAt(shared', k)  BY <1>4, <2>1
  <2>3. i \in off + 1 .. off + n <=> k \in off .. off + n - 1  BY <2>1
  <2>4. CASE k \in off .. off + n - 1
    <3>1. ItemAt(shared', k) \in FileItems  BY <1>2, <2>1, <2>4
    <3> QED  BY <2>2, <2>3, <2>4, <3>1
  <2>5. CASE k \notin off .. off + n - 1
    <3>1. ItemAt(shared', k) = ItemAt(shared, k)  BY <1>2, <2>1, <2>5
    <3>2. k \in 0 .. shared.size - 1
      <4>1. k < off \/ ~(k < off + n)  BY <2>1, <2>5
      <4>2. i <= Len(FileContents')  BY <1>4, <1>7
      <4> QED  BY <1>3, <1>6, <2>1, <4>1, <4>2
    <3>3. FileContents[i] = ItemAt(shared, k)  BY <1>3, <2>1, <3>2
    <3> QED  BY <2>2, <2>3, <2>5, <3>1, <3>3
  <2> QED  BY <2>4, <2>5
<1>8. Shared!Written(s, n)  BY <1>3, <1>6, <1>7 DEF Shared!Written
<1>9. Shared!Write(s)
  BY <1>1, <1>3, <1>4, <1>5, <1>8 DEF Shared!Write, Shared!Moved
<1> QED  BY <1>1, <1>3, <1>9, StreamStep

LEMMA WriteStep ==
  ASSUME FileInv(shared), NEW s \in FileStreams, NEW x \in FileItems, Write(s, x)
  PROVE  FileInv(shared') /\ Shared!Next
BY WriteGoes, FillsSeen

LEMMA WriteArrayStep ==
  ASSUME FileInv(shared), NEW s \in FileStreams, NEW n \in ArraySizes,
         NEW xs \in [1 .. n -> FileItems], WriteArray(s, xs)
  PROVE  FileInv(shared') /\ Shared!Next
<1>1. n \in Nat  BY SharedFileAssumption
<1>2. Fills(shared, shared', s, n)  BY <1>1, WriteArrayGoes
<1> QED  BY <1>1, <1>2, FillsSeen

LEMMA AttachStep ==
  ASSUME FileInv(shared), NEW s \in FileStreams, AttachStream(s)
  PROVE  FileInv(shared') /\ Shared!Next
<1>1. /\ ~shared.streams[s].attached /\ shared.mode # "closed"
      /\ Kept(shared, shared', s) /\ shared'.streams[s].attached
      /\ OffsetIn(shared', s) = 0 /\ shared'.value = <<>>
  BY AttachGoes
<1>2. FileInv(shared') /\ \A t \in FileStreams \ {s} : shared'.streams[t] = shared.streams[t]
  BY <1>1 DEF Kept
<1>3. FileStatus' = FileStatus /\ FileContents' = FileContents
  BY <1>1, KeptSeen, NowSeen
<1>4. FileStatus \in {"read", "read_write"}  BY <1>1, OpenContents, NowSeen
<1>5. JoinsAt(AtOf(shared), AtOf(shared'), s)  BY <1>1, <1>2, OffsetJoins
<1>6. JoinsAt(FileOffsets, FileOffsets', s)  BY <1>5, NowSeen
<1>7. Shared!Attach(s)  BY <1>1, <1>3, <1>6 DEF Shared!Attach, JoinsAt
<1> QED  BY <1>2, <1>4, <1>7 DEF Shared!Next

LEMMA DetachStep ==
  ASSUME FileInv(shared), NEW s \in FileStreams, DetachStream(s)
  PROVE  FileInv(shared') /\ Shared!Next
<1>1. /\ shared.streams[s].attached /\ Kept(shared, shared', s)
      /\ ~shared'.streams[s].attached /\ shared'.value = <<>>
  BY DetachGoes
<1>2. FileInv(shared') /\ \A t \in FileStreams \ {s} : shared'.streams[t] = shared.streams[t]
  BY <1>1 DEF Kept
<1>3. shared.mode # "closed"  BY <1>1, Place
<1>4. FileStatus' = FileStatus /\ FileContents' = FileContents
  BY <1>1, <1>3, KeptSeen, NowSeen
<1>5. AtOf(shared') = [t \in DOMAIN AtOf(shared) \ {s} |-> AtOf(shared)[t]]
  BY <1>1, <1>2, OffsetLeaves
<1>6. s \in DOMAIN FileOffsets  BY <1>1, StreamSeen
<1>7. Shared!Detach(s)  BY <1>1, <1>4, <1>5, NowSeen DEF Shared!Detach
<1> QED  BY <1>2, <1>6, <1>7, StreamStep

LEMMA TruncateStep ==
  ASSUME FileInv(shared), NEW n \in 0 .. MaxFileSize, TruncateFile(n)
  PROVE  FileInv(shared') /\ Shared!Next
<1>1. CASE Unchanged(shared, shared')
  <2>1. /\ FileInv(shared') /\ shared'.value = <<>> /\ FileStatus' = FileStatus
        /\ FileContents' = FileContents /\ FileOffsets' = FileOffsets
    BY <1>1, NowSeen DEF Unchanged
  <2> QED  BY <2>1 DEF Shared!Next, Shared!Refused
<1>2. CASE ~Unchanged(shared, shared')
  <2>1. /\ FileInv(shared') /\ shared'.value = <<>>
        /\ FileStatus = "read_write" /\ FileStatus' = "read_write"
        /\ FileOffsets = <<>> /\ FileOffsets' = <<>>
        /\ n \in 0 .. Len(FileContents)
        /\ FileContents' = SubSeq(FileContents, 1, n)
    BY <1>2, TruncateGoes, NowSeen
  <2>2. Shared!Truncate  BY <2>1 DEF Shared!Truncate
  <2> QED  BY <2>1, <2>2 DEF Shared!Next
<1> QED  BY <1>1, <1>2

LEMMA OpenStep ==
  ASSUME FileInv(shared), NEW mode \in {"read", "read_write"}, OpenFile(mode)
  PROVE  FileInv(shared') /\ Shared!Next
<1>1. /\ FileInv(shared') /\ shared'.value = <<>>
      /\ FileStatus = "closed" /\ FileStatus' = mode
      /\ FileOffsets = <<>> /\ FileOffsets' = <<>> /\ FileContents' = FileContents
  BY OpenGoes, NowSeen
<1>2. Shared!Open  BY <1>1 DEF Shared!Open
<1> QED  BY <1>1, <1>2 DEF Shared!Next

LEMMA CloseStep ==
  ASSUME FileInv(shared), CloseFile
  PROVE  FileInv(shared') /\ Shared!Next
<1>1. /\ FileInv(shared') /\ shared'.value = <<>>
      /\ FileStatus \in {"read", "read_write"} /\ FileStatus' = "closed"
      /\ FileOffsets = <<>> /\ FileOffsets' = <<>> /\ FileContents' = FileContents
  BY CloseGoes, NowSeen
<1>2. Shared!Close  BY <1>1 DEF Shared!Close
<1> QED  BY <1>1, <1>2 DEF Shared!Next

LEMMA CrashStep ==
  ASSUME FileInv(shared), Crash
  PROVE  FileInv(shared') /\ Shared!Next
<1>1. /\ FileInv(shared') /\ shared'.value = <<>> /\ FileOffsets' = <<>>
      /\ FileStatus \in {"read", "read_write", "closed", "lost"}
      /\ FileStatus = "lost" => FileOffsets = <<>> /\ FileContents = <<>>
      /\ FileStatus \in {"read_write", "lost"} => FileStatus' = "lost" /\ FileContents' = <<>>
      /\ FileStatus \notin {"read_write", "lost"} =>
           FileStatus' = "closed" /\ FileContents' = FileContents
  BY CrashGoes, NowSeen
<1>2. CASE FileStatus = "lost"
  <2>1. Shared!Refused  BY <1>1, <1>2 DEF Shared!Refused
  <2> QED  BY <1>1, <2>1 DEF Shared!Next
<1>3. CASE FileStatus # "lost"
  <2>1. Shared!Crash  BY <1>1, <1>3 DEF Shared!Crash
  <2> QED  BY <1>1, <2>1 DEF Shared!Next
<1> QED  BY <1>2, <1>3

LEMMA RemoveStep ==
  ASSUME FileInv(shared), RemoveFile
  PROVE  FileInv(shared') /\ Shared!Next
<1>1. /\ FileInv(shared') /\ shared'.value = <<>>
      /\ FileStatus \in {"closed", "lost"} /\ FileStatus' = "closed"
      /\ FileOffsets = <<>> /\ FileOffsets' = <<>> /\ FileContents' = <<>>
  BY RemoveGoes, NowSeen
<1>2. Shared!Remove  BY <1>1 DEF Shared!Remove
<1> QED  BY <1>1, <1>2 DEF Shared!Next

-----------------------------------------------------------------------------

LEMMA FileStep ==
  ASSUME Omits = LooseCalls, FileInv(shared), FileNext
  PROVE  FileInv(shared') /\ Shared!Next
<1>1. FileBlock \in Nat /\ MaxFileSize \in Nat  BY SharedFileAssumption
<1>2. CASE \E s \in FileStreams : AttachStream(s)  BY <1>2, AttachStep
<1>3. CASE \E s \in FileStreams : DetachStream(s)  BY <1>3, DetachStep
<1>4. CASE \E s \in FileStreams : Read(s)  BY <1>4, ReadStep
<1>5. CASE \E s \in FileStreams : ReadBack(s)  BY <1>5, ReadBackStep
<1>6. CASE \E s \in FileStreams, x \in FileItems : Write(s, x)  BY <1>6, WriteStep
<1>7. CASE \E s \in FileStreams, n \in ArraySizes : ReadArray(s, n)  BY <1>7, ReadArrayStep
<1>8. CASE \E s \in FileStreams, n \in ArraySizes :
             \E xs \in [1 .. n -> FileItems] : WriteArray(s, xs)
  BY <1>8, WriteArrayStep
<1>9. CASE \E s \in FileStreams, n \in Int : SeekFromBeginning(s, n) \/ SeekFromEnd(s, n)
  BY <1>9, SeekStep
<1>10. CASE \E s \in FileStreams, n \in -FileBlock .. FileBlock : SeekFromHere(s, n)
  BY <1>10, SkipStep
<1>11. CASE \E n \in 0 .. MaxFileSize : TruncateFile(n)  BY <1>11, TruncateStep
<1>12. CASE \E mode \in {"read", "read_write"} : OpenFile(mode)  BY <1>12, OpenStep
<1>13. CASE CloseFile  BY <1>13, CloseStep
<1>14. CASE Crash  BY <1>14, CrashStep
<1>15. CASE RemoveFile  BY <1>15, RemoveStep
<1>16. \A s \in FileStreams, n \in 0 .. MaxFileSize : SeekFromBeginning(s, n) =>
         \E m \in Int : SeekFromBeginning(s, m) \/ SeekFromEnd(s, m)
  BY <1>1
<1>17. \A s \in FileStreams, n \in {0, 1} : SeekFromEnd(s, n) =>
         \E m \in Int : SeekFromBeginning(s, m) \/ SeekFromEnd(s, m)
  OBVIOUS
<1> QED
  BY <1>2, <1>3, <1>4, <1>5, <1>6, <1>7, <1>8, <1>9, <1>10, <1>11, <1>12, <1>13, <1>14,
     <1>15, <1>16, <1>17 DEF FileNext

(* The inductive invariant of the shared file, for a client that makes none of *)
(* the loose calls: streams, blocks, buffers and disk agree (file_base.h and   *)
(* stream_crtp.h, whatever the order of the calls and wherever a crash falls). *)
THEOREM FileInvariant == Omits = LooseCalls => (FileSpec => []FileInv(shared))
<1> SUFFICES ASSUME Omits = LooseCalls PROVE FileSpec => []FileInv(shared)  OBVIOUS
<1>1. FileInit => FileInv(shared)  BY InitGoes
<1>2. FileInv(shared) /\ [FileNext]_shared => FileInv(shared)'
  <2>1. FileInv(shared) /\ FileNext => FileInv(shared')  BY FileStep
  <2>2. FileInv(shared) /\ UNCHANGED shared => FileInv(shared)'  BY DEF FileInv
  <2>3. FileInv(shared)' <=> FileInv(shared')  OBVIOUS
  <2> QED  BY <2>1, <2>2, <2>3
<1> QED  BY <1>1, <1>2, PTL DEF FileSpec

LEMMA InvariantIsSafe ==
  ASSUME FileInv(shared)
  PROVE  FileSafe
<1>1. CanReadExact  BY CanReads DEF CanReadExact, Attached
<1>2. BuffersExact
  <2>1. /\ shared.size \in Nat /\ DOMAIN shared.used \subseteq 0 .. MaxFileSize
        /\ StreamsOK(shared) /\ BlocksOK(shared) /\ RestOnDisk(shared) /\ BuffersOK(shared)
    BY Fields, Words DEF FileInv
  <2>2. \A b : Users(b) = UsersOf(shared, b)  BY DEF Users, UsersOf
  <2>3. {s \in FileStreams : Attached(s)} = Members(shared)  BY DEF Members, Attached
  <2>4. \A b \in DOMAIN shared.used :
          /\ shared.used[b].usage = Cardinality(Users(b)) /\ Users(b) # {}
          /\ Len(shared.used[b].items) = Smaller(FileBlock, shared.size - BlockStart(b))
    BY <2>1, <2>2 DEF BlocksOK, BlockOK
  <2>5. \A n \in 0 .. shared.size - 1 : BlockAt(n) \in DOMAIN shared.used \/ n < shared.stored
    BY <2>1 DEF RestOnDisk
  <2>6. shared.free + Cardinality(DOMAIN shared.used)
          = Cardinality({s \in FileStreams : Attached(s)})
    BY <2>1, <2>3 DEF BuffersOK
  <2>7. \A s \in FileStreams : shared.streams[s].block # Huge =>
          shared.streams[s].start = BlockStart(shared.streams[s].block)
    <3>1. Unattached.block = Huge  BY DEF Unattached
    <3> QED  BY <2>1, <3>1 DEF StreamsOK, PlaceOK
  <2> QED  BY <2>4, <2>5, <2>6, <2>7 DEF BuffersExact
<1>3. ReadExact
  <2>1. \A n : ItemAt(shared, n) = ItemInFile(n)  BY DEF ItemAt, ItemInFile
  <2> DEFINE off(s) == OffsetIn(shared, s)
  <2>2. ASSUME NEW s \in FileStreams, Attached(s), off(s) < shared.size
        PROVE  ReadItem(shared, s).value = <<ItemInFile(off(s))>>
    BY <2>1, <2>2, ReadOne DEF Attached
  <2>3. ASSUME NEW s \in FileStreams, Attached(s), NEW n \in ArraySizes,
               off(s) + n <= shared.size
        PROVE  ReadItems(shared, s, n).value = [i \in 1 .. n |-> ItemInFile(off(s) + i - 1)]
    <3> DEFINE v == ReadItems(shared, s, n).value
               k == shared.streams[s].index
    <3>1. n \in Nat /\ FileBlock \in Nat  BY SharedFileAssumption
    <3>2. shared.streams[s].attached /\ off(s) \in 0 .. shared.size /\ shared.size \in Nat
          /\ k \in Nat
      BY <2>3, Offsets, Place DEF Attached, Places
    <3>3. off(s) + Smaller(n, FileBlock - k) <= shared.size
      <4> HIDE DEF k
      <4>1. off(s) \in Nat  BY <3>2
      <4> HIDE DEF off
      <4> QED  BY <2>3, <3>1, <3>2, <4>1 DEF Smaller
    <3>4. /\ v \in Seq(Datum) /\ Len(v) = n
          /\ \A i \in 1 .. n : v[i] = ItemAt(shared, off(s) + i - 1)
      BY <2>3, <3>1, <3>2, <3>3, ReadMany
    <3> HIDE DEF v, off
    <3>5. \A i \in 1 .. n : v[i] = ItemInFile(off(s) + i - 1)  BY <2>1, <3>4
    <3>6. v = [i \in 1 .. n |-> v[i]]  BY <3>4
    <3> HIDE DEF ItemInFile
    <3>7. v = [i \in 1 .. n |-> ItemInFile(off(s) + i - 1)]  BY <3>5, <3>6
    <3> QED  BY <3>7 DEF v
  <2> QED  BY <2>2, <2>3 DEF ReadExact
<1> QED  BY <1>1, <1>2, <1>3 DEF FileSafe

(* Streams that share a file agree on its blocks and its size, have a buffer   *)
(* each, and are given what can_read() promises.                               *)
THEOREM FileIsSafe == Omits = LooseCalls => (FileSpec => []FileSafe)
<1> SUFFICES ASSUME Omits = LooseCalls PROVE FileSpec => []FileSafe  OBVIOUS
<1>1. FileInv(shared) => FileSafe  BY InvariantIsSafe
<1>2. FileSpec => []FileInv(shared)  BY FileInvariant
<1> QED  BY <1>1, <1>2, PTL

(* The file is one sequence of items: a stream sees at once what another has   *)
(* written, what is closed is there when it is opened again, and what was not  *)
(* closed is not opened (open(), read(), write() and close() of file_base.h).  *)
THEOREM FileRefinesItems == Omits = LooseCalls => (FileSpec => FileImplementsItems)
<1> SUFFICES ASSUME Omits = LooseCalls PROVE FileSpec => FileImplementsItems  OBVIOUS
<1>1. FileInit => Shared!Init
  <2>1. SUFFICES ASSUME FileInit PROVE Shared!Init  OBVIOUS
  <2>2. /\ StatusOf(shared) = "closed" /\ ContentsOf(shared) = <<>>
        /\ AtOf(shared) = <<>> /\ shared.value = <<>>
    BY <2>1, InitGoes
  <2> QED  BY <2>2, NowSeen DEF Shared!Init
<1>2. FileInv(shared) /\ [FileNext]_shared => [Shared!Next]_Shared!vars
  <2>1. FileInv(shared) /\ FileNext => Shared!Next  BY FileStep
  <2>2. UNCHANGED shared => UNCHANGED Shared!vars
    <3>1. SUFFICES ASSUME shared' = shared PROVE UNCHANGED Shared!vars  OBVIOUS
    <3>2. /\ FileStatus' = FileStatus /\ FileContents' = FileContents
          /\ FileOffsets' = FileOffsets /\ shared'.value = shared.value
      BY <3>1, NowSeen
    <3> QED  BY <3>2 DEF Shared!vars
  <2> QED  BY <2>1, <2>2
<1>3. FileSpec => []FileInv(shared)  BY FileInvariant
<1> QED  BY <1>1, <1>2, <1>3, PTL DEF FileSpec, FileImplementsItems, Shared!Spec
=============================================================================
