----------------------------- MODULE SharedFile -----------------------------
(***************************************************************************)
(* tpie/file_base.h, stream_crtp.h and file.h: a file whose streams share  *)
(* the buffers of its blocks, above file_accessor/stream_accessor_base.inl *)
(* with the header that says whether a file was closed.  One call is one   *)
(* step, any stream next, and the program may end between any two of them. *)
(* A crash within a call adds nothing: what a call writes to the disk is   *)
(* in a file marked as open already, but for the mark itself.              *)
(***************************************************************************)
EXTENDS Integers, Sequences, FiniteSets

CONSTANTS
  FileStreams, (* the streams                                              *)
  FileItems,   (* the items                                                *)
  FileBlock,   (* m_blockItems                                             *)
  MaxFileSize, (* bound: items of the file                                 *)
  ArraySizes,  (* of the arrays that one call reads or writes              *)
  Word,        (* one more than the greatest number of the machine         *)
  Omits        (* the calls of LooseCalls that the client does not make    *)

(* Calls whose outcome is not what their comments say: seek(n, current) of a *)
(* stream without a block, and past the end; read() at the end; read() of    *)
(* more items than are left in a block that is not full.                     *)
LooseCalls == {"skip_unfetched", "skip_past_end", "read_at_end", "array_past_end"}

ASSUME SharedFileAssumption ==
  /\ FileBlock \in Nat \ {0} /\ MaxFileSize \in Nat
  /\ Word \in Nat /\ Word > 2 * (MaxFileSize + FileBlock + 1)
  /\ ArraySizes \subseteq Nat \ {0} /\ Omits \subseteq LooseCalls
  /\ IsFiniteSet(FileStreams)
  /\ "garbage" \notin FileItems

VARIABLE shared

Huge == Word - 1   (* maxint: no such block or index                       *)
Smaller(m, n) == IF m < n THEN m ELSE n
Larger(m, n)  == IF m < n THEN n ELSE m

(* An offset is that of a block and an index in it. *)
BlockStart(b) == b * FileBlock
BlockAt(n)    == n \div FileBlock
IndexOf(n)    == n % FileBlock

(* The file on disk: what its header says, and its items.  It does not exist *)
(* (and opening it creates it) when it has no header.                        *)
NoFile == [header |-> FALSE, clean |-> FALSE, size |-> 0, items |-> <<>>]

(* m_emptyBlock stands for no block; its number is maxint. *)
Unattached == [attached |-> FALSE, block |-> Huge, start |-> 0, index |-> Huge,
               nextBlock |-> Huge, nextIndex |-> Huge]

FileInit ==
  shared = [disk |-> NoFile, mode |-> "closed", size |-> 0, stored |-> 0,
            used |-> <<>>, free |-> 0, value |-> <<>>,
            streams |-> [s \in FileStreams |-> Unattached]]

-----------------------------------------------------------------------------
(* write_block() of the accessor: a write past the end leaves a hole. *)
WriteDisk(q, b, items) ==
  LET from == BlockStart(b)
      old  == q.disk.items
      size == Larger(Len(old), from + Len(items))
  IN  [q EXCEPT !.stored = Larger(@, from + Len(items)),
                !.disk.items = [i \in 1 .. size |->
                   IF i > from /\ i <= from + Len(items) THEN items[i - from]
                   ELSE IF i <= Len(old) THEN old[i] ELSE "garbage"]]

(* free_block(): written when the last stream leaves it. *)
ReleaseBlock(q, b) ==
  LET block == q.used[b]
      left  == [q EXCEPT !.free = @ + 1,
                         !.used = [c \in DOMAIN @ \ {b} |-> @[c]]]
  IN  IF block.usage > 1 THEN [q EXCEPT !.used[b].usage = @ - 1]
      ELSE IF block.dirty THEN WriteDisk(left, b, block.items)
      ELSE left

(* get_block(): shared with the streams that have it, or read from the disk  *)
(* (which comes up short, and throws, if the size is not what was written).  *)
FetchBlock(q, b) ==
  LET from == BlockStart(b)
      to   == Smaller(Smaller(from + FileBlock, q.size), Len(q.disk.items))
      new  == [items |-> SubSeq(q.disk.items, from + 1, to),
               usage |-> 1, dirty |-> FALSE]
  IN  [q EXCEPT !.free = @ - 1,
                !.used = [c \in DOMAIN @ \cup {b} |-> IF c = b THEN new ELSE @[c]]]

(* Mutant: a block that gets another user is taken for one just read. *)
GetBlockUnmarked(q, b) ==
  IF b \notin DOMAIN q.used THEN FetchBlock(q, b)
  ELSE [q EXCEPT !.used[b].usage = @ + 1, !.used[b].dirty = FALSE]

GetBlock(q, b) ==
  IF b \notin DOMAIN q.used THEN FetchBlock(q, b)
  ELSE [q EXCEPT !.used[b].usage = @ + 1]

BlockSize(q, s) ==
  LET b == q.streams[s].block IN IF b = Huge THEN 0 ELSE Len(q.used[b].items)

(* update_block(): to the block a seek() asked for, or to the next one.  The *)
(* block of the stream is given up before get_block_check() may throw.       *)
UpdateBlock(q, s) ==
  LET st    == q.streams[s]
      here  == st.nextBlock = Huge
      block == IF here THEN (st.block + 1) % Word ELSE st.nextBlock
      index == IF here THEN 0 ELSE st.nextIndex
      left  == IF st.block = Huge THEN q ELSE ReleaseBlock(q, st.block)
  IN  IF BlockStart(block) > q.size
      THEN [left EXCEPT !.streams[s] = [st EXCEPT !.block = Huge, !.nextBlock = block,
                                                  !.nextIndex = index]]
      ELSE [GetBlock(left, block) EXCEPT !.streams[s] =
             [st EXCEPT !.block = block, !.start = BlockStart(block), !.index = index,
                        !.nextBlock = Huge, !.nextIndex = Huge]]

(* offset() *)
OffsetIn(q, s) ==
  LET st == q.streams[s]
  IN  IF st.nextBlock = Huge THEN (st.index + st.start) % Word
      ELSE st.nextIndex + BlockStart(st.nextBlock)

(* can_read() and can_read_back() *)
CanRead(q, s) ==
  q.streams[s].index < BlockSize(q, s) \/ OffsetIn(q, s) < q.size

CanReadBack(q, s) ==
  LET st == q.streams[s]
  IN  IF st.nextBlock = Huge THEN st.index > 0 \/ st.start > 0
      ELSE st.nextIndex > 0 \/ st.nextBlock > 0

(* seek(n) within the file: at once in the block of the stream. *)
SeekTo(q, s, n) ==
  LET b == BlockAt(n)
      i == IndexOf(n)
  IN  IF b = q.streams[s].block
      THEN [q EXCEPT !.streams[s] = [@ EXCEPT !.index = i, !.nextBlock = Huge,
                                              !.nextIndex = Huge]]
      ELSE [q EXCEPT !.streams[s] = [@ EXCEPT !.index = Huge, !.nextBlock = b,
                                              !.nextIndex = i]]

(* seek(), which throws when it leaves the file. *)
SeekFrom(q, s, n) == IF n \in 0 .. q.size THEN SeekTo(q, s, n) ELSE q

(* seek(n, current): within the block if the sum of n and the index is. *)
SeekCurrent(q, s, n) ==
  LET index == q.streams[s].index
  IN  IF (n >= 0 \/ -n <= index) /\ (n + index) % Word < FileBlock
      THEN [q EXCEPT !.streams[s].index = (n + index) % Word]
      ELSE SeekFrom(q, s, n + OffsetIn(q, s))

(* update_block() has thrown. *)
Thrown(q, s) == q.streams[s].block = Huge /\ q.streams[s].nextBlock # Huge

(* read(), which throws at the end. *)
ReadItem(q, s) ==
  LET p  == IF q.streams[s].index >= BlockSize(q, s) THEN UpdateBlock(q, s) ELSE q
      st == p.streams[s]
  IN  IF st.index >= BlockSize(p, s) THEN p
      ELSE [p EXCEPT !.streams[s].index = @ + 1,
                     !.value = <<p.used[st.block].items[st.index + 1]>>]

(* A round of read() of an array takes what it can from a block.  That there *)
(* are items enough is tested only when a block has to be fetched.           *)
ReadRound(r, s) ==
  LET q     == r.file
      fetch == q.streams[s].index >= FileBlock
      p     == IF fetch THEN UpdateBlock(q, s) ELSE q
      st    == p.streams[s]
      items == IF st.block = Huge THEN <<>> ELSE p.used[st.block].items
      count == Smaller(FileBlock - st.index, r.left)
      more  == [i \in 1 .. count |-> IF st.index + i <= Len(items) THEN items[st.index + i]
                                     ELSE "garbage"]
  IN  IF r.left = 0 \/ (fetch /\ OffsetIn(q, s) + r.left > q.size) THEN r
      ELSE [file |-> [p EXCEPT !.streams[s].index = @ + count],
            left |-> r.left - count, read |-> r.read \o more]

(* read() of an array: n rounds are enough. *)
ReadItems(q, s, n) ==
  LET round[k \in 0 .. n] == IF k = 0 THEN [file |-> q, left |-> n, read |-> <<>>]
                             ELSE ReadRound(round[k - 1], s)
      last == round[n]
  IN  IF last.left = 0 THEN [last.file EXCEPT !.value = last.read] ELSE last.file

(* read_back() *)
ReadItemBack(q, s) ==
  SeekCurrent(ReadItem(SeekCurrent(q, s, -1), s), s, -1)

(* Items with another one at an index; what a seek past the end has left     *)
(* before it was never written.                                              *)
PutAt(items, i, x) ==
  [j \in 1 .. Larger(Len(items), i + 1) |->
     IF j = i + 1 THEN x ELSE IF j <= Len(items) THEN items[j] ELSE "garbage"]

(* Mutant: the index is taken for the offset when the file grows. *)
WriteItemLocal(q, s, x) ==
  LET fetch == q.streams[s].index >= FileBlock
      p     == IF fetch THEN UpdateBlock(q, s) ELSE q
      st    == p.streams[s]
  IN  [p EXCEPT !.streams[s].index = @ + 1,
                !.size = Larger(@, st.index + 1),
                !.used[st.block].dirty = TRUE,
                !.used[st.block].items = PutAt(@, st.index, x)]

(* write() with write_update().  Without a block it writes to m_emptyBlock,   *)
(* which has no room for items.                                              *)
WriteItem(q, s, x) ==
  LET fetch == q.streams[s].index >= FileBlock
      p     == IF fetch THEN UpdateBlock(q, s) ELSE q
      st    == p.streams[s]
      moved == [p EXCEPT !.streams[s].index = @ + 1,
                         !.size = Larger(@, st.index + 1 + st.start)]
  IN  IF fetch /\ Thrown(p, s) THEN p
      ELSE IF st.block = Huge THEN moved
      ELSE [moved EXCEPT !.used[st.block].dirty = TRUE,
                         !.used[st.block].items = PutAt(@, st.index, x)]

(* write() of an array. *)
WriteItems(q, s, xs) ==
  LET written[k \in 0 .. Len(xs)] == IF k = 0 THEN q
                                     ELSE WriteItem(written[k - 1], s, xs[k])
  IN  written[Len(xs)]

-----------------------------------------------------------------------------
Silent(q) == [q EXCEPT !.value = <<>>]

Attached(s) == shared.streams[s].attached

(* attach() *)
AttachStream(s) ==
  /\ shared.mode # "closed" /\ ~Attached(s)
  /\ shared' = SeekTo(Silent([shared EXCEPT !.free = @ + 1,
                 !.streams[s] = [Unattached EXCEPT !.attached = TRUE]]), s, 0)

(* detach(): its block is given up, and one buffer deleted. *)
DetachStream(s) ==
  /\ Attached(s)
  /\ LET b == shared.streams[s].block
         q == IF b = Huge THEN shared ELSE ReleaseBlock(shared, b)
     IN  shared' = Silent([q EXCEPT !.free = @ - 1, !.streams[s] = Unattached])

SeekFromBeginning(s, n) == Attached(s) /\ shared' = Silent(SeekFrom(shared, s, n))

SeekFromEnd(s, n) ==
  Attached(s) /\ shared' = Silent(SeekFrom(shared, s, shared.size - n))

Unfetched(s) == shared.streams[s].index = Huge

SeekFromHere(s, n) ==
  /\ Attached(s)
  /\ "skip_unfetched" \in Omits => n <= 0 \/ ~Unfetched(s)
  /\ "skip_past_end" \in Omits => n + OffsetIn(shared, s) <= shared.size
  /\ shared' = Silent(SeekCurrent(shared, s, n))

Read(s) ==
  /\ Attached(s)
  /\ "read_at_end" \in Omits => CanRead(shared, s)
  /\ shared' = ReadItem(Silent(shared), s)

ReadBack(s) ==
  /\ Attached(s) /\ CanReadBack(shared, s)
  /\ shared' = ReadItemBack(Silent(shared), s)

(* The block that the stream is in, or will fetch, has so many items more. *)
ReadArray(s, n) ==
  LET index == shared.streams[s].index
      first == Smaller(n, FileBlock - index)
  IN  /\ Attached(s)
      /\ "array_past_end" \in Omits =>
           index >= FileBlock \/ OffsetIn(shared, s) + first <= shared.size
      /\ shared' = ReadItems(Silent(shared), s, n)

Writable(s, n) ==
  /\ Attached(s) /\ shared.mode = "read_write"
  /\ OffsetIn(shared, s) + n <= MaxFileSize

Write(s, x) == Writable(s, 1) /\ shared' = WriteItem(Silent(shared), s, x)

WriteArray(s, xs) ==
  Writable(s, Len(xs)) /\ shared' = WriteItems(Silent(shared), s, xs)

NoStreams == \A s \in FileStreams : ~Attached(s)

(* truncate(), which throws when a stream has a block, and "may only be used  *)
(* when no streams are opened to this file" (file_base.h:194-195).           *)
TruncateFile(n) ==
  /\ shared.mode = "read_write" /\ n <= shared.size
  /\ IF shared.used # <<>> THEN shared' = Silent(shared)
     ELSE /\ NoStreams
          /\ shared' = Silent([shared EXCEPT !.size = n, !.stored = n,
                                 !.disk.items = SubSeq(@, 1, Smaller(n, Len(@)))])

(* Mutant: the header of a file opened for writing still says it is closed. *)
OpenFileUnmarked(mode) ==
  /\ shared.mode = "closed"
  /\ IF shared.disk.header THEN shared.disk.clean ELSE mode = "read_write"
  /\ shared' = Silent([shared EXCEPT !.mode = mode, !.size = shared.disk.size,
                 !.stored = shared.disk.size, !.disk.header = TRUE, !.disk.clean = TRUE])

(* open() of a new file, or of one with a valid header: for writing, the     *)
(* header says from now on that the file is not closed.                      *)
OpenFile(mode) ==
  /\ shared.mode = "closed"
  /\ IF shared.disk.header THEN shared.disk.clean ELSE mode = "read_write"
  /\ shared' = Silent([shared EXCEPT !.mode = mode, !.size = shared.disk.size,
                 !.stored = shared.disk.size, !.disk.header = TRUE,
                 !.disk.clean = mode = "read"])

(* close(): the header has the size of what was written. *)
CloseFile ==
  /\ shared.mode # "closed" /\ NoStreams
  /\ shared' = Silent([shared EXCEPT !.mode = "closed", !.disk.clean = TRUE,
                 !.disk.size = shared.stored, !.size = 0, !.stored = 0])

(* The program ends, and starts again. *)
Crash ==
  shared' = [shared EXCEPT !.mode = "closed", !.size = 0, !.stored = 0, !.used = <<>>,
               !.free = 0, !.value = <<>>, !.streams = [s \in FileStreams |-> Unattached]]

(* Somebody removes a file. *)
RemoveFile == shared.mode = "closed" /\ shared' = Silent([shared EXCEPT !.disk = NoFile])

FileNext ==
  \/ \E s \in FileStreams :
       \/ AttachStream(s) \/ DetachStream(s) \/ Read(s) \/ ReadBack(s)
       \/ \E x \in FileItems : Write(s, x)
       \/ \E n \in ArraySizes :
            ReadArray(s, n) \/ \E xs \in [1 .. n -> FileItems] : WriteArray(s, xs)
       \/ \E n \in 0 .. MaxFileSize : SeekFromBeginning(s, n)
       \/ \E n \in {0, 1} : SeekFromEnd(s, n)
       \/ \E n \in -FileBlock .. FileBlock : SeekFromHere(s, n)
  \/ \E n \in 0 .. MaxFileSize : TruncateFile(n)
  \/ \E mode \in {"read", "read_write"} : OpenFile(mode)
  \/ CloseFile \/ Crash \/ RemoveFile

FileSpec == FileInit /\ [][FileNext]_shared

-----------------------------------------------------------------------------
(* seek() "moves the logical offset": by n, when that stays within the file. *)
SeekMovesOffset ==
  \A s \in FileStreams, n \in -FileBlock .. FileBlock :
    Attached(s) /\ n + OffsetIn(shared, s) \in 0 .. shared.size =>
      OffsetIn(SeekCurrent(shared, s, n), s) = n + OffsetIn(shared, s)

Users(b) == {s \in FileStreams : shared.streams[s].block = b}

(* can_read() is "logically equivalent to offset() < size()".                *)
CanReadExact ==
  \A s \in FileStreams : Attached(s) =>
    /\ CanRead(shared, s) <=> OffsetIn(shared, s) < shared.size
    /\ CanReadBack(shared, s) <=> OffsetIn(shared, s) > 0

(* Every block in use has as many users as it counts, and as many items as   *)
(* the size of the file says; what is not in use is on the disk, so that no  *)
(* read comes up short; there is a buffer for every stream.                  *)
BuffersExact ==
  /\ \A b \in DOMAIN shared.used :
       /\ shared.used[b].usage = Cardinality(Users(b)) /\ Users(b) # {}
       /\ Len(shared.used[b].items) = Smaller(FileBlock, shared.size - BlockStart(b))
  /\ \A n \in 0 .. shared.size - 1 :
       BlockAt(n) \in DOMAIN shared.used \/ n < shared.stored
  /\ shared.free + Cardinality(DOMAIN shared.used)
       = Cardinality({s \in FileStreams : Attached(s)})
  /\ \A s \in FileStreams : shared.streams[s].block # Huge =>
       shared.streams[s].start = BlockStart(shared.streams[s].block)

(* The items of the file, those in buffers before those on the disk. *)
ItemInFile(n) ==
  LET b == BlockAt(n)
      items == IF b \in DOMAIN shared.used THEN shared.used[b].items
               ELSE SubSeq(shared.disk.items, BlockStart(b) + 1, Len(shared.disk.items))
  IN  IF IndexOf(n) < Len(items) THEN items[IndexOf(n) + 1] ELSE "garbage"

(* What can_read() promises, read() gives, and that of an array likewise.    *)
ReadExact ==
  \A s \in FileStreams : Attached(s) =>
    LET at == OffsetIn(shared, s)
    IN  /\ at < shared.size => ReadItem(shared, s).value = <<ItemInFile(at)>>
        /\ \A n \in ArraySizes : at + n <= shared.size =>
             ReadItems(shared, s, n).value = [i \in 1 .. n |-> ItemInFile(at + i - 1)]

(* However the streams of a file take turns, they agree on its blocks and    *)
(* its size, know where they are, and are not refused what they can read.    *)
FileSafe == CanReadExact /\ BuffersExact /\ ReadExact

FileStatus ==
  IF shared.mode # "closed" THEN shared.mode
  ELSE IF shared.disk.header /\ ~shared.disk.clean THEN "lost" ELSE "closed"

FileContents ==
  CASE FileStatus = "closed" -> SubSeq(shared.disk.items, 1, shared.disk.size)
    [] FileStatus = "lost"   -> <<>>
    [] OTHER -> [i \in 1 .. shared.size |-> ItemInFile(i - 1)]

FileOffsets == [s \in {t \in FileStreams : Attached(t)} |-> OffsetIn(shared, s)]

Shared == INSTANCE SharedItems WITH
            Streams <- FileStreams, Items <- FileItems, Arrays <- ArraySizes,
            contents <- FileContents, status <- FileStatus, value <- shared.value,
            at <- FileOffsets

(* Streams see each other's writes at once, a closed file has all of them    *)
(* when it is opened again, and one that was not closed is never opened.     *)
FileImplementsItems == Shared!Spec
=============================================================================
