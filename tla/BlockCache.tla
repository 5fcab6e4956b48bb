---------------------------- MODULE BlockCache ----------------------------
(***************************************************************************)
(* tpie/blocks: a file of blocks (block_collection), the stack of the      *)
(* blocks that are free (freespace_collection), the cache of the blocks    *)
(* read last (block_collection_cache), and the way external_store of the   *)
(* B-tree works on them: it reads one or two blocks, changes one of them   *)
(* through the pointer it got and marks both as written.  A call of the    *)
(* cache is one step; what an operation still has to call is its todo.     *)
(***************************************************************************)
EXTENDS Integers, Sequences, FiniteSets, SequencesExt

CONSTANTS
  Values,    (* what is put into blocks                                    *)
  CacheSize, (* m_maxSize of the cache, 32 in external_store               *)
  MaxBlocks  (* bound: blocks of the file                                  *)

ASSUME CacheAssumption ==
  /\ CacheSize \in Nat \ {0, 1}
  /\ MaxBlocks \in Nat
  /\ {"fresh", "hole", "trailer"} \cap Values = {}

VARIABLES
  file,   (* the file, a sequence of blocks and, when closed, a trailer    *)
  free,   (* m_free, the stack of free blocks                              *)
  end,    (* m_end, in blocks                                              *)
  cached, (* m_blockMap: data and dirty flag of the blocks in the cache    *)
  lru,    (* m_blockList, the block used last at the end                   *)
  isOpen,
  todo    (* the calls the operation in progress still makes               *)

storeVars == <<file, free, end, cached, lru, isOpen, todo>>

Block   == 0 .. MaxBlocks - 1
InUse   == (0 .. end - 1) \ Range(free)
Without(f, h) == [k \in DOMAIN f \ {h} |-> f[k]]
With(f, h, v) == [k \in DOMAIN f \cup {h} |-> IF k = h THEN v ELSE f[k]]

CacheInit ==
  /\ file = <<>> /\ free = <<>> /\ end = 0
  /\ cached = <<>> /\ lru = <<>> /\ isOpen = TRUE /\ todo = <<>>

-----------------------------------------------------------------------------
(* block_collection::write_block() of the dirty ones of some blocks: a write *)
(* past the end of the file leaves a hole.                                   *)
WithDirty(hs) ==
  LET dirty == {h \in hs : cached[h].dirty}
      last  == Len(file)
      size  == CHOOSE n \in {last} \cup {h + 1 : h \in dirty} :
                 n >= last /\ \A h \in dirty : n >= h + 1
  IN  [i \in 1 .. size |-> IF i - 1 \in dirty THEN cached[i - 1].data
                           ELSE IF i <= last THEN file[i] ELSE "hole"]

(* Mutant: prepare_cache() drops the block that was used last. *)
DropLast(h, entry) ==
  IF Len(lru) < CacheSize
  THEN /\ cached' = With(cached, h, entry) /\ lru' = Append(lru, h)
       /\ UNCHANGED file
  ELSE /\ file' = WithDirty({Last(lru)})
       /\ cached' = With(Without(cached, Last(lru)), h, entry)
       /\ lru' = Append(Front(lru), h)

(* prepare_cache() and add_to_cache(): a full cache drops the block that was *)
(* not used for the longest time, after writing it when it is dirty.         *)
AddToCache(h, entry) ==
  IF Len(lru) < CacheSize
  THEN /\ cached' = With(cached, h, entry) /\ lru' = Append(lru, h)
       /\ UNCHANGED file
  ELSE /\ file' = WithDirty({Head(lru)})
       /\ cached' = With(Without(cached, Head(lru)), h, entry)
       /\ lru' = Append(Tail(lru), h)

(* The list without the node of a block in the cache, which its entry of the *)
(* map points to.                                                            *)
Erased(h) == RemoveAt(lru, CHOOSE i \in DOMAIN lru : lru[i] = h)

(* used() *)
Touched(h) == Append(Erased(h), h)

(* read_block() *)
ReadBlock(h) ==
  IF h \in DOMAIN cached
  THEN lru' = Touched(h) /\ UNCHANGED <<file, cached>>
  ELSE AddToCache(h, [data |-> file[h + 1], dirty |-> FALSE])

(* Mutant: write_block() forgets that the block is dirty. *)
WriteClean(h) ==
  lru' = Touched(h) /\ UNCHANGED <<file, cached>>

(* write_block(): the block must be in the cache, it is dirty now. *)
WriteBlock(h) ==
  /\ lru' = Touched(h)
  /\ cached' = [cached EXCEPT ![h].dirty = TRUE]
  /\ UNCHANGED file

(* freespace_collection::alloc() and get_free_block() of the cache. *)
GetFreeBlock(h) ==
  /\ IF free # <<>>
     THEN h = Last(free) /\ free' = Front(free) /\ UNCHANGED end
     ELSE h = end /\ end' = end + 1 /\ UNCHANGED free
  /\ AddToCache(h, [data |-> "fresh", dirty |-> TRUE])

(* Mutant: free_block() leaves the block in the cache. *)
FreeCached(h) ==
  /\ free' = Append(free, h)
  /\ UNCHANGED <<cached, lru, file, end>>

(* free_block(): out of the cache and on the stack of free blocks; the file   *)
(* is cut when it is longer than the blocks it has.                          *)
FreeBlock(h) ==
  /\ cached' = Without(cached, h)
  /\ lru' = IF h \in DOMAIN cached THEN Erased(h) ELSE lru
  /\ free' = Append(free, h)
  /\ file' = IF Len(file) > end THEN SubSeq(file, 1, end) ELSE file
  /\ UNCHANGED end

-----------------------------------------------------------------------------
Call(name, h) == [call |-> name, block |-> h]
Assign(h, v)  == [call |-> "assign", block |-> h, value |-> v]
Copy(src, h)  == [call |-> "copy", block |-> h, source |-> src]

Starts(calls) ==
  /\ isOpen /\ todo = <<>>
  /\ todo' = calls

(* create(): a block is had, read and its count set. *)
Create(h) ==
  /\ h \in Block
  /\ \E v \in Values : Starts(<<Call("read", h), Assign(h, v), Call("write", h)>>)
  /\ GetFreeBlock(h)
  /\ UNCHANGED isOpen

(* set(), set_count(), set_augment() *)
Set(h, v) ==
  /\ h \in InUse
  /\ Starts(<<Call("read", h), Assign(h, v), Call("write", h)>>)
  /\ UNCHANGED <<file, free, end, cached, lru, isOpen>>

(* move(): both blocks are read before one is copied into the other. *)
Move(src, dst) ==
  /\ src \in InUse /\ dst \in InUse
  /\ Starts(<<Call("read", src), Call("read", dst), Copy(src, dst),
             Call("write", src), Call("write", dst)>>)
  /\ UNCHANGED <<file, free, end, cached, lru, isOpen>>

(* get(), count(), index(), augment() *)
Get(h) ==
  /\ h \in InUse
  /\ Starts(<<Call("read", h)>>)
  /\ UNCHANGED <<file, free, end, cached, lru, isOpen>>

(* set_count(c, 0) and, after other blocks were used, destroy(c). *)
Destroy(h, other) ==
  /\ h \in InUse /\ other \in InUse
  /\ \E v \in Values :
       Starts(<<Call("read", h), Assign(h, v), Call("write", h),
               Call("read", other), Call("write", other), Call("free", h)>>)
  /\ UNCHANGED <<file, free, end, cached, lru, isOpen>>

(* The next call of the operation in progress. *)
Go ==
  /\ todo # <<>> /\ todo' = Tail(todo) /\ UNCHANGED isOpen
  /\ LET now == Head(todo)
         h   == now.block
     IN  \/ now.call = "read"  /\ ReadBlock(h)  /\ UNCHANGED <<free, end>>
         \/ now.call = "write" /\ WriteBlock(h) /\ UNCHANGED <<free, end>>
         \/ now.call = "free"  /\ FreeBlock(h)
         \/ /\ now.call = "assign"
            /\ cached' = [cached EXCEPT ![h].data = now.value]
            /\ UNCHANGED <<file, free, end, lru>>
         \/ /\ now.call = "copy"
            /\ cached' = [cached EXCEPT ![h].data = cached[now.source].data]
            /\ UNCHANGED <<file, free, end, lru>>

(* The destructors: dirty blocks are written, the end is pushed on the stack *)
(* of free blocks, and height, size and root follow the blocks in the file.  *)
Close ==
  /\ isOpen /\ todo = <<>> /\ isOpen' = FALSE
  /\ file' = Append(WithDirty(DOMAIN cached), "trailer")
  /\ free' = Append(free, end)
  /\ cached' = <<>> /\ lru' = <<>>
  /\ end' = 0 /\ UNCHANGED todo

(* The constructors: the trailer is read and cut off, the end popped. *)
Open ==
  /\ ~isOpen /\ isOpen' = TRUE
  /\ Last(file) = "trailer" /\ file' = Front(file)
  /\ end' = Last(free) /\ free' = Front(free)
  /\ UNCHANGED <<cached, lru, todo>>

CacheNext ==
  \/ Go \/ Close \/ Open
  \/ \E h \in Block : Create(h) \/ Get(h) \/ \E v \in Values : Set(h, v)
  \/ \E h, k \in Block : Move(h, k) \/ (h # k /\ Destroy(h, k))

CacheSpec == CacheInit /\ [][CacheNext]_storeVars

-----------------------------------------------------------------------------
(* Every pointer that is used is one into the cache, ... *)
PointersValid ==
  todo # <<>> =>
    LET now == Head(todo)
    IN  /\ now.call \in {"assign", "copy", "write"} => now.block \in DOMAIN cached
        /\ now.call = "copy" => now.source \in DOMAIN cached
        /\ now.call = "free" => lru # <<>>

(* ... the list and the map of the cache hold the same blocks, ... *)
ListAndMapAgree ==
  /\ Range(lru) = DOMAIN cached /\ IsInjective(lru)
  /\ Len(lru) <= CacheSize /\ DOMAIN cached \subseteq InUse

(* ... and the file holds all other blocks, and those that are clean, as     *)
(* long as it is open; a block is free once.                                 *)
FileHoldsRest ==
  IF isOpen
  THEN /\ IsInjective(free) /\ Range(free) \subseteq 0 .. end - 1
       /\ Len(file) <= end
       /\ \A h \in InUse \ DOMAIN cached : h < Len(file) /\ file[h + 1] # "hole"
       /\ \A h \in DOMAIN cached :
            \/ cached[h].dirty \/ Call("write", h) \in Range(todo)
            \/ cached[h].data = file[h + 1]
  ELSE Last(file) = "trailer" /\ free # <<>>

(* The cache is consistent, and the two blocks of a move and a block that    *)
(* is destroyed after another one was read are still in it when they are     *)
(* used, with a cache of two blocks already.                                 *)
CacheSafe == PointersValid /\ ListAndMapAgree /\ FileHoldsRest

(* What the file and the cache hold together. *)
Held ==
  LET last == IF isOpen THEN end ELSE Last(free)
      gone == IF isOpen THEN Range(free) ELSE Range(Front(free))
  IN  [h \in (0 .. last - 1) \ gone |->
         IF h \in DOMAIN cached THEN cached[h].data ELSE file[h + 1]]

Store == INSTANCE BlockStore WITH
           Handles <- Block, Contents <- Values \cup {"fresh"}, content <- Held

(* The collection behind its cache is a plain store of blocks: no change is  *)
(* lost or undone by an eviction, by a block that is freed and given out     *)
(* again, or by closing and opening the file.                                *)
CacheImplementsStore == Store!Spec
=============================================================================
