----------------------------- MODULE FileStream -----------------------------
(***************************************************************************)
(* tpie::file_stream (tpie/compressed/stream.h, stream_base.cpp) with its   *)
(* block buffers (buffer.h, buffer.cpp) and the compressor thread that does *)
(* its I/O (thread.cpp, request.h), for compressed and uncompressed files.  *)
(*                                                                         *)
(* The client thread runs one call at a time.  What is left of the call is  *)
(* the sequence todo of steps; a step is the code between two points where  *)
(* the compressor thread can make a difference: taking or releasing the     *)
(* compressor mutex and the waits, which release it.  The compressor thread *)
(* takes requests in order; its steps are its critical sections and the I/O *)
(* it does outside them.                                                    *)
(*                                                                         *)
(* Items are numbers, 0 stands for the contents of a buffer or file that    *)
(* nobody wrote.  Bytes are counted in items; a compressed block of n items *)
(* takes a header, a trailer and n (stored) or 1 (compressed) items.        *)
(***************************************************************************)
EXTENDS Integers, Sequences, FiniteSets

CONSTANTS
  Modes,         (* may the stream be compressed?  a subset of BOOLEAN     *)
  BlockItems,    (* m_blockItems                                           *)
  MaxItems,      (* bound: size of the stream, if compressed or not        *)
  SharedBuffers, (* EXTRA_BUFFERS of the pool, 2 in the code               *)
  Taken,         (* how many of them other streams may hold at any time    *)
  Ops,           (* the calls the client makes, if compressed or not       *)
  Avoids,        (* situations the client keeps away from, see Allowed     *)
  Spurious,      (* condition variables may wake up without a notification *)
  NoCall

ASSUME StreamAssumption ==
  /\ Modes \in (SUBSET BOOLEAN) \ {{}} /\ Spurious \in BOOLEAN
  /\ BlockItems \in Nat \ {0} /\ MaxItems \in [BOOLEAN -> Nat]
  /\ SharedBuffers \in Nat
  /\ Taken \in [BOOLEAN -> (SUBSET (0..SharedBuffers)) \ {{}}]
  /\ Ops \in [BOOLEAN -> SUBSET
       {"read", "read_back", "write", "seek", "seek_beginning", "seek_end",
        "get_position", "set_position", "truncate", "reopen"}]
  /\ Avoids \subseteq {"stale_counts", "truncate_in_flight",
                       "truncate_at_block", "read_back_after_tell",
                       "read_back_in_flight", "tell_after_rewrite"}

VARIABLES
  compressed, (* use_compression()                                         *)
  s,          (* the fields of the stream                                  *)
  bufs,       (* m_buffers: block number -> buffer                         *)
  resp,       (* m_response                                                *)
  queue,      (* the compressor thread's queue                             *)
  thread,     (* what it does: [pc, req, rec]                              *)
  file,       (* the blocks, or the items, in the file                     *)
  call,       (* the client's call: [op, arg]                              *)
  todo,       (* what is left of it                                        *)
  locked,     (* the client is inside a critical section                   *)
  waits,      (* the condition variable it waits on                        *)
  got,        (* the stream_position that a get_position() step found      *)
  saved,      (* a stream_position the client keeps                        *)
  value,      (* the item read last                                        *)
  kept,       (* history: the contents and offset when the call began      *)
  stamp,      (* tells the items of different runs of writes apart         *)
  fault       (* an exception or assertion of the implementation           *)

heapVars   == <<bufs, resp, queue>>
diskVars   == <<thread, file>>
clientVars == <<call, got, saved, value, kept, stamp>>
vars == <<compressed, s, heapVars, diskVars, clientVars, todo, locked, waits,
          fault>>

Unknown == -1
Junk    == 0
NoPosition == [off |-> Unknown, at |-> Unknown]

Nothing == [contents |-> <<>>, at |-> 0]

Blank == [k \in 1..BlockItems |-> Junk]

(* A buffer as stream_buffers::get_buffer() hands it out after reset(). *)
NewBuffer ==
  [data |-> Blank, state |-> "dirty", size |-> 0, off |-> Unknown,
   len |-> Unknown]

NoRequest == [kind |-> "none", buf |-> 0, off |-> 0, blk |-> 0, back |-> FALSE]
NoRecord  == [off |-> 0, len |-> 0, data |-> <<>>]
Idle      == [pc |-> "idle", req |-> NoRequest, rec |-> NoRecord]

Least(S) == CHOOSE x \in S : \A y \in S : x <= y

Op(d, n) == [do |-> d, n |-> n]

(* The step at the head of the call is d, and the client can take it. *)
At(d) == todo # <<>> /\ Head(todo).do = d /\ waits = "none" /\ ~fault

Arg == Head(todo).n

(* The client goes on with ops, then with the rest of the call. *)
Then(ops) == todo' = ops \o Tail(todo) /\ UNCHANGED waits

Sleep(cond) == waits' = cond /\ UNCHANGED todo

-----------------------------------------------------------------------------
(* The fields of the stream. *)

(* offset() *)
OffsetOf(t) ==
  CASE t.seekState = "none"      -> t.offset
    [] t.seekState = "beginning" -> 0
    [] t.seekState = "end"       -> t.size
    [] t.seekState = "position"  -> t.nextPosition.at
Offset == OffsetOf(s)

(* block_number() and buffer_block_number() *)
BlockOf(x) == x \div BlockItems
BlockOfBuffer(t) ==
  IF t.nextItem = BlockItems THEN BlockOf(t.offset) - 1 ELSE BlockOf(t.offset)
BufferBlock == BlockOfBuffer(s)

(* Items of block b in a stream of n items. *)
ItemsIn(b, n) ==
  IF n - b * BlockItems < BlockItems THEN n - b * BlockItems ELSE BlockItems

(* Mutant: a last block that is not full does not count. *)
FullBlocks(n) == n \div BlockItems

Blocks(n) == (n + BlockItems - 1) \div BlockItems

(* uncache_read_writes() *)
Uncached(t) == [t EXCEPT !.cachedReads = 0, !.cachedWrites = 0]

(* cache_read_writes() *)
Cached(t) ==
  IF t.buffer = Unknown \/ t.seekState # "none" THEN Uncached(t) ELSE
  IF OffsetOf(t) = t.size
  THEN [t EXCEPT !.cachedReads = 0,
                 !.cachedWrites = IF t.bufferDirty THEN BlockItems - t.nextItem
                                                   ELSE 0]
  ELSE [t EXCEPT !.cachedWrites = 0,
                 !.cachedReads = IF t.offset + BlockItems - t.nextItem > t.size
                                 THEN t.size - t.offset
                                 ELSE BlockItems - t.nextItem]

(* m_nextPosition is of use only while the stream is about to go there. *)
Seeking(t, state) == [t EXCEPT !.seekState = state, !.nextPosition = NoPosition]

(* set_position(), for a position that is not stream_position::end(). *)
Positioned(t, p) ==
  IF t.buffer # Unknown /\ BlockOf(p.at) = BlockOfBuffer(t)
  THEN [Seeking(t, "none") EXCEPT !.learns = Unknown, !.readOffset = p.off,
                                  !.offset = p.at, !.nextItem = p.at % BlockItems]
  ELSE [Uncached(t) EXCEPT !.learns = Unknown, !.nextPosition = p,
                           !.seekState = "position"]

(* Mutant: clear_block_info() forgotten. *)
NotCleared == resp

(* compressor_response: clear_block_info(), has_block_info() and the        *)
(* exception that the latter may throw.                                     *)
Cleared == [resp EXCEPT !.blk = Unknown, !.off = 0, !.len = 0]
HasInfo(b)    == resp.blk = b
BadInfo(b)    == resp.blk # Unknown /\ b < resp.blk

(* last_block_read_offset() and current_file_size(), when they are known. *)
LastKnown == s.streamBlocks <= 1 \/ s.lastOffset # Unknown
                                 \/ HasInfo(s.streamBlocks - 1)
(* Mutant: what the header says of the last block is forgotten. *)
RespondedOffset == IF s.streamBlocks <= 1 THEN 0 ELSE resp.off
LastOffset ==
  IF s.streamBlocks <= 1 THEN 0 ELSE
  IF s.lastOffset # Unknown THEN s.lastOffset ELSE resp.off
LastBad == s.streamBlocks > 1 /\ s.lastOffset = Unknown
                              /\ BadInfo(s.streamBlocks - 1)

SizeKnown == s.streamBlocks = 0 \/ s.fileSize # Unknown
                                \/ HasInfo(s.streamBlocks - 1)
FileSize ==
  IF s.streamBlocks = 0 THEN 0 ELSE
  IF s.fileSize # Unknown THEN s.fileSize ELSE resp.off + resp.len
SizeBad == s.streamBlocks > 0 /\ s.fileSize = Unknown
                              /\ BadInfo(s.streamBlocks - 1)

-----------------------------------------------------------------------------
(* The file: compressed blocks one after the other, or bare items. *)
FileEnd(f) == IF f = <<>> THEN 0 ELSE f[Len(f)].off + f[Len(f)].len

FileItem(i) ==
  LET b == BlockOf(i) + 1  k == (i % BlockItems) + 1 IN
    IF ~compressed
    THEN IF i < Len(file) THEN file[i + 1] ELSE Junk
    ELSE IF b <= Len(file) /\ k <= Len(file[b].data) THEN file[b].data[k]
                                                     ELSE Junk

(* The items of the stream: a buffer is newer than the file.  *)
Contents ==
  [i \in 1..s.size |->
     LET b == BlockOf(i - 1) IN
       IF b \in DOMAIN bufs THEN bufs[b].data[((i - 1) % BlockItems) + 1]
                            ELSE FileItem(i - 1)]

(* Blocks whose buffer somebody besides the map refers to: not unique(). *)
InFlight ==
  {queue[k].buf : k \in DOMAIN queue} \cup
  (IF thread.pc \in {"busy", "append", "announced"} THEN {thread.req.buf} ELSE {})
Unique(cur) == {b \in DOMAIN bufs : b # cur /\ b \notin InFlight}

(* stream_buffers::clean() *)
Without(S) == [b \in DOMAIN bufs \ S |-> bufs[b]]

(* m_ownBuffers < OWN_BUFFERS || can_take_shared_buffer(): the first buffer *)
(* of a stream is its own, the rest are shared with the other streams.      *)
CanTake(others) ==
  DOMAIN bufs = {} \/ Cardinality(DOMAIN bufs) - 1 + others < SharedBuffers

-----------------------------------------------------------------------------
(* Frames of the client's steps. *)

Quiet == UNCHANGED <<compressed, diskVars, clientVars>>

(* The mutex is released by the wait and taken again after it. *)
Stalls(cond) ==
  /\ Sleep(cond)
  /\ UNCHANGED <<compressed, s, heapVars, diskVars, clientVars, locked, fault>>

Fail ==
  /\ fault' = TRUE
  /\ UNCHANGED <<compressed, s, heapVars, diskVars, clientVars, todo, locked,
                 waits>>

(* while (!known) m_response.wait(l), unless has_block_info() throws. *)
Await(known, bad) == (bad /\ Fail) \/ (~bad /\ ~known /\ Stalls("changed"))

Return ==
  /\ call' = NoCall /\ todo' = <<>> /\ locked' = FALSE
  /\ kept' = Nothing
  /\ UNCHANGED <<compressed, waits, fault>>

(* A woken client takes the mutex and looks at its condition again. *)
Wake ==
  /\ \/ waits = "woken"
     \/ Spurious /\ waits \in {"changed", "request"}
  /\ waits' = "none"
  /\ UNCHANGED <<compressed, s, heapVars, diskVars, clientVars, todo, locked,
                 fault>>

Unlock ==
  /\ At("unlock")
  /\ locked' = FALSE /\ Then(<<>>)
  /\ UNCHANGED <<s, heapVars, fault>> /\ Quiet

(* The sequences of steps that the calls are made of. *)
PerformIf(dir) == IF s.seekState # "none" THEN <<Op("perform", dir)>> ELSE <<>>
(* Mutant: the old block is not written. *)
FlushNever(update) == <<>>
FlushIf(update) == IF s.bufferDirty THEN <<Op("flush", update)>> ELSE <<>>
GetBuffer(b) == <<Op("get", b), Op("ready", 0)>>
Fresh == GetBuffer(Unknown) \o <<Op("place", 0)>>
NextBlock(b) == GetBuffer(b) \o <<Op("update", 0), Op("load", b)>>
PreviousBlock(b) == GetBuffer(b) \o <<Op("update", 0), Op("load_back", b)>>

-----------------------------------------------------------------------------
(* flush_block(): hands the buffer to the compressor thread.  Arg says      *)
(* whether read offsets are to be learnt from the answer.                   *)
FlushBlock ==
  /\ At("flush")
  /\ LET b       == BufferBlock
         rewrite == compressed /\ b = s.streamBlocks - 1
         misfit  == compressed /\ b \notin {s.streamBlocks - 1, s.streamBlocks}
         off     == IF ~compressed THEN b * BlockItems ELSE
                    IF rewrite THEN LastOffset ELSE Unknown
     IN \/ misfit /\ Fail
        \/ rewrite /\ Await(LastKnown, LastBad)
        \/ /\ ~misfit /\ (rewrite => LastKnown)
           /\ s' = [Uncached(s) EXCEPT
                      !.lastOffset = Unknown, !.fileSize = Unknown,
                      !.bufferDirty = FALSE,
                      !.learns = IF Arg = 1 THEN b ELSE Unknown,
                      !.streamBlocks = IF b = @ THEN @ + 1 ELSE @]
           /\ bufs' = [bufs EXCEPT ![s.buffer].size = ItemsIn(b, s.size),
                                   ![s.buffer].state = "writing"]
           /\ queue' = Append(queue, [kind |-> "write", buf |-> s.buffer,
                                      off |-> off, blk |-> b, back |-> FALSE])
           /\ resp' = [(IF rewrite THEN Cleared ELSE resp) EXCEPT
                         !.done = FALSE, !.next = 0]
           /\ Then(<<>>)
           /\ UNCHANGED <<locked, fault>> /\ Quiet

(* stream_buffers::get_buffer(), after the stream let go of its buffer: an  *)
(* idle buffer of the stream is reused and the other idle ones go back to   *)
(* the pool; without one, the stream takes a new one or waits.              *)
Take(b, reused) ==
  /\ bufs' = [k \in (DOMAIN bufs \ reused) \cup {b} |->
                IF k = b THEN NewBuffer ELSE bufs[k]]
  /\ s' = [Uncached(s) EXCEPT !.buffer = b]
  /\ Then(<<>>)
  /\ UNCHANGED <<resp, queue, locked, fault>> /\ Quiet

Get ==
  /\ At("get")
  /\ LET b == IF Arg = Unknown THEN s.streamBlocks ELSE Arg
         idle == Unique(Unknown)
     IN \/ /\ b \in DOMAIN bufs
           /\ s' = [Uncached(s) EXCEPT !.buffer = b]
           /\ Then(<<>>)
           /\ UNCHANGED <<heapVars, locked, fault>> /\ Quiet
        \/ \E others \in Taken[compressed] :
             /\ b \notin DOMAIN bufs
             /\ IF idle # {} \/ CanTake(others) THEN Take(b, idle) ELSE
                /\ s' = [Uncached(s) EXCEPT !.buffer = Unknown]
                /\ todo' = <<Op("free", b)>> \o Tail(todo)
                /\ waits' = "request"
                /\ UNCHANGED <<heapVars, locked, fault>> /\ Quiet

(* The loop of get_buffer() looks for idle buffers only. *)
Free ==
  /\ At("free")
  /\ LET idle == Unique(Unknown) IN
       IF idle # {} THEN Take(Arg, idle) ELSE Stalls("request")

Ready ==
  /\ At("ready")
  /\ IF bufs[s.buffer].state \in {"reading", "writing"} THEN Stalls("request")
     ELSE /\ s' = [s EXCEPT !.bufferDirty = FALSE]
          /\ Then(<<>>)
          /\ UNCHANGED <<heapVars, locked, fault>> /\ Quiet

Place ==
  /\ At("place")
  /\ s' = [s EXCEPT !.nextItem = Arg]
  /\ Then(<<>>)
  /\ UNCHANGED <<heapVars, locked, fault>> /\ Quiet

(* maybe_update_read_offset() *)
Update ==
  /\ At("update")
  /\ LET wanted == s.learns # Unknown /\ compressed IN
       \/ wanted /\ Await(resp.done, resp.done /\ BadInfo(s.learns))
       \/ /\ wanted => resp.done /\ ~BadInfo(s.learns)
          /\ s' = IF ~wanted THEN s ELSE
                  IF HasInfo(s.learns)
                  THEN [s EXCEPT !.learns = Unknown,
                                 !.readOffset = resp.off,
                                 !.nextReadOffset = resp.off + resp.len]
                  ELSE [s EXCEPT !.learns = Unknown]
          /\ Then(<<>>)
          /\ UNCHANGED <<heapVars, locked, fault>> /\ Quiet

(* read_block() *)
Request(b, off, back) ==
  IF bufs[s.buffer].state # "dirty" THEN Fail ELSE
  /\ bufs' = [bufs EXCEPT ![s.buffer].state = "reading",
                          ![s.buffer].size =
                            IF compressed THEN @ ELSE ItemsIn(b, s.size)]
  /\ queue' = Append(queue, [kind |-> "read", buf |-> s.buffer, off |-> off,
                             blk |-> b, back |-> back])
  /\ resp' = [resp EXCEPT !.done = FALSE, !.next = 0]
  /\ Then(<<Op(IF back THEN "loaded_back" ELSE "loaded", b)>>)
  /\ UNCHANGED <<s, locked, fault>> /\ Quiet

(* read_next_block() and read_previous_block(): a buffer that still holds   *)
(* the block is taken as it is.                                             *)
Load ==
  /\ At("load")
  /\ LET buf == bufs[s.buffer] IN
       IF buf.state = "clean"
       THEN IF compressed /\ buf.off # s.nextReadOffset THEN Fail ELSE
            /\ s' = [s EXCEPT !.readOffset = buf.off, !.nextItem = 0,
                              !.nextReadOffset = IF compressed
                                                 THEN buf.off + buf.len ELSE @]
            /\ Then(<<>>)
            /\ UNCHANGED <<heapVars, locked, fault>> /\ Quiet
       ELSE Request(Arg, IF compressed THEN s.nextReadOffset
                                       ELSE Arg * BlockItems, FALSE)

LoadBack ==
  /\ At("load_back")
  /\ LET buf == bufs[s.buffer] IN
       IF buf.state = "clean"
       THEN /\ s' = [s EXCEPT !.readOffset = buf.off, !.nextItem = BlockItems,
                              !.nextReadOffset = buf.off + buf.len]
            /\ Then(<<>>)
            /\ UNCHANGED <<heapVars, locked, fault>> /\ Quiet
       ELSE Request(Arg, s.readOffset, TRUE)

(* Mutant: read_block() does not wait. *)
LoadedAtOnce ==
  /\ At("loaded")
  /\ s' = [s EXCEPT !.nextItem = 0]
  /\ Then(<<>>)
  /\ UNCHANGED <<heapVars, locked, fault>> /\ Quiet

Loaded ==
  /\ At("loaded")
  /\ LET buf == bufs[s.buffer] IN
       IF ~resp.done THEN Stalls("changed") ELSE
       IF \/ buf.size # ItemsIn(Arg, s.size)
          \/ compressed /\ (buf.off # s.nextReadOffset
                            \/ resp.next # buf.off + buf.len)
       THEN Fail
       ELSE /\ s' = IF ~compressed THEN [s EXCEPT !.nextItem = 0]
                    ELSE [s EXCEPT !.nextItem = 0,
                                   !.readOffset = s.nextReadOffset,
                                   !.nextReadOffset = resp.next]
            /\ Then(<<>>)
            /\ UNCHANGED <<heapVars, locked, fault>> /\ Quiet

LoadedBack ==
  /\ At("loaded_back")
  /\ LET buf == bufs[s.buffer] IN
       IF ~resp.done THEN Stalls("changed") ELSE
       IF buf.off # resp.next \/ s.readOffset # buf.off + buf.len THEN Fail
       ELSE /\ s' = [s EXCEPT !.nextItem = BlockItems,
                              !.readOffset = resp.next,
                              !.nextReadOffset = s.readOffset]
            /\ Then(<<>>)
            /\ UNCHANGED <<heapVars, locked, fault>> /\ Quiet

(* m_buffer.reset(); finish_requests() *)
Finish ==
  /\ At("finish")
  /\ LET left == Without(Unique(Unknown)) IN
       /\ bufs' = left
       /\ s' = [s EXCEPT !.buffer = Unknown, !.bufferDirty = FALSE]
       /\ locked' = TRUE
       /\ IF DOMAIN left = {} THEN Then(<<>>) ELSE Sleep("request")
  /\ UNCHANGED <<resp, queue, fault>> /\ Quiet

-----------------------------------------------------------------------------
(* perform_seek(dir); Arg is 1 for backward. *)
Perform ==
  /\ At("perform")
  /\ s' = [Uncached(s) EXCEPT !.learns = Unknown]
  /\ locked' = TRUE
  /\ Then(FlushIf(0) \o <<Op("finish", 0), Op("branch", Arg)>>)
  /\ UNCHANGED <<heapVars, fault>> /\ Quiet

Branch ==
  /\ At("branch")
  /\ LET pos   == s.nextPosition.at
         state == IF \/ s.seekState = "beginning" /\ s.size = 0
                     \/ s.seekState = "position" /\ pos = s.size
                  THEN "end" ELSE s.seekState
         fresh == s.streamBlocks * BlockItems = s.size /\ Arg = 0
         Goes(off, steps) ==
           /\ s' = [s EXCEPT !.seekState = state,
                             !.nextPosition = IF state = "end" THEN NoPosition
                                                               ELSE @,
                             !.nextReadOffset = IF compressed THEN off ELSE @]
           /\ Then(steps)
           /\ UNCHANGED <<heapVars, locked, fault>> /\ Quiet
     IN \/ /\ state = "beginning"
           /\ Goes(0, NextBlock(0) \o <<Op("land", 0)>>)
        \/ /\ state = "position"
           /\ IF Arg = 1 /\ pos % BlockItems = 0 /\ pos > 0
              THEN /\ s' = [s EXCEPT !.readOffset = IF compressed
                                       THEN s.nextPosition.off ELSE @]
                   /\ Then((IF compressed THEN PreviousBlock(BlockOf(pos) - 1)
                                          ELSE NextBlock(BlockOf(pos) - 1))
                           \o <<Op("land", BlockItems)>>)
                   /\ UNCHANGED <<heapVars, locked, fault>> /\ Quiet
              ELSE Goes(s.nextPosition.off, NextBlock(BlockOf(pos))
                                            \o <<Op("land", pos % BlockItems)>>)
        \/ /\ state = "end" /\ fresh
           /\ s' = Seeking(s, state)
           /\ Then(GetBuffer(s.streamBlocks) \o <<Op("land_fresh", 0)>>)
           /\ UNCHANGED <<heapVars, locked, fault>> /\ Quiet
        \/ /\ state = "end" /\ ~fresh
           /\ IF s.streamBlocks = 0 THEN Fail ELSE
              \/ compressed /\ Await(LastKnown, LastBad)
              \/ /\ compressed => LastKnown
                 /\ Goes(LastOffset, NextBlock(s.streamBlocks - 1)
                           \o <<Op("land", s.size - (s.streamBlocks - 1)
                                                    * BlockItems)>>)

Land ==
  /\ At("land")
  /\ IF s.seekState = "beginning" /\ s.readOffset # 0 THEN Fail ELSE
     /\ s' = [Seeking(s, "none") EXCEPT !.nextItem = Arg, !.offset = Offset]
     /\ locked' = FALSE /\ Then(<<>>)
     /\ UNCHANGED <<heapVars, fault>> /\ Quiet

LandFresh ==
  /\ At("land_fresh")
  /\ \/ compressed /\ Await(SizeKnown, SizeBad)
     \/ /\ compressed => SizeKnown
        /\ s' = [Seeking(s, "none") EXCEPT
                   !.nextItem = 0, !.offset = s.size,
                   !.readOffset = IF compressed THEN FileSize ELSE 0]
        /\ locked' = FALSE /\ Then(<<>>)
        /\ UNCHANGED <<heapVars, fault>> /\ Quiet

-----------------------------------------------------------------------------
(* The calls.  cachedReads and cachedWrites let read() and write() skip all *)
(* checks.                                                                  *)

StaleCounts ==
  \/ s.cachedReads > 0 /\ ~(/\ s.seekState = "none"
                            /\ s.cachedReads <= BlockItems - s.nextItem
                            /\ s.cachedReads <= s.size - s.offset)
  \/ s.cachedWrites > 0 /\ ~(/\ s.seekState = "none" /\ s.offset = s.size
                             /\ s.cachedWrites <= BlockItems - s.nextItem)

(* Offset x is in the last block of the stream, not written to disk yet.    *)
InUnwrittenBlock(x) ==
  s.buffer # Unknown /\ BlockOf(x) = BufferBlock /\ BufferBlock = s.streamBlocks

NoneInFlight == queue = <<>> /\ thread = Idle

(* What the client keeps away from, as far as Avoids says so.               *)
Avoided(situation, op, arg) ==
  \/ /\ situation = "stale_counts"
     /\ op \in {"read", "read_back", "write"} /\ StaleCounts
  \/ /\ situation = "truncate_in_flight"
     /\ op = "truncate" /\ (compressed \/ arg = 0) /\ ~NoneInFlight
  \/ /\ situation = "truncate_at_block"
     /\ op = "truncate" /\ arg % BlockItems = 0 /\ arg \notin {0, s.size}
     /\ compressed \/ InUnwrittenBlock(arg)
  \/ /\ compressed /\ s.seekState = "none"
     /\ \/ /\ situation = "read_back_in_flight"
           /\ op = "read_back" /\ s.nextItem = 0 /\ ~NoneInFlight
        \/ /\ situation = "read_back_after_tell"
           /\ op = "read_back" /\ s.nextItem = 0
           /\ s.buffer = s.streamBlocks /\ ~s.bufferDirty
           /\ ~(SizeKnown /\ s.readOffset = FileSize)
        \/ /\ situation = "tell_after_rewrite"
           /\ op = "get_position" /\ s.nextItem = BlockItems
           /\ s.bufferDirty /\ BufferBlock # s.streamBlocks

Allowed(op, arg) == \A situation \in Avoids : ~Avoided(situation, op, arg)

Invoke(op, arg, steps) ==
  /\ call = NoCall /\ ~fault
  /\ op \in Ops[compressed] /\ Allowed(op, arg)
  /\ call' = [op |-> op, arg |-> arg]
  /\ kept' = [contents |-> Contents, at |-> Offset]
  /\ value' = 0
  /\ todo' = steps
  /\ UNCHANGED <<compressed, s, heapVars, diskVars, got, saved, locked, waits,
                 fault>>

InvokeRead ==
  /\ s.cachedReads > 0 \/ Offset < s.size
  /\ Invoke("read", 0,
            IF s.cachedReads > 0 THEN <<Op("take_cached", 0)>>
            ELSE PerformIf(0) \o <<Op("peek", 0), Op("take", 0)>>)
  /\ UNCHANGED stamp

InvokeReadBack ==
  /\ Offset > 0
  /\ Invoke("read_back", 0,
            PerformIf(1) \o <<Op("unread", 0), Op("take_back", 0)>>)
  /\ UNCHANGED stamp

InvokeWrite ==
  /\ IF Offset = s.size THEN s.size < MaxItems[compressed] ELSE ~compressed
  /\ Invoke("write", 2 * Offset + stamp + 1,
            IF s.cachedWrites > 0 THEN <<Op("put_cached", 0)>>
            ELSE PerformIf(0) \o <<Op("room", 0), Op("put", 0)>>)
  /\ UNCHANGED stamp

InvokeSeek ==
  \/ /\ ~compressed
     /\ \E x \in 0..s.size : Invoke("seek", x, <<Op("seek", x)>>)
     /\ stamp' = 1 - stamp
  \/ /\ compressed
     /\ \/ Invoke("seek_beginning", 0, <<Op("seek_beginning", 0)>>)
        \/ Invoke("seek_end", s.size, <<Op("seek_end", 0)>>)
     /\ UNCHANGED stamp

InvokePosition ==
  /\ \/ Invoke("get_position", 0, <<Op("tell", 0), Op("told", 0)>>)
     \/ /\ saved # NoPosition
        /\ Invoke("set_position", saved.at, <<Op("set_position", 0)>>)
  /\ UNCHANGED stamp

InvokeTruncate ==
  /\ \/ Invoke("truncate", 0,
               IF s.size = 0 THEN <<Op("truncate_none", 0)>>
               ELSE <<Op("truncate_zero", 0), Op("finish", 0)>>
                    \o GetBuffer(0) \o <<Op("truncated_zero", 0)>>)
     \/ /\ ~compressed
        /\ \E x \in 1..s.size - 1 : Invoke("truncate", x, <<Op("truncate", x)>>)
     \/ /\ compressed /\ saved.at \in 1..s.size - 1
        /\ Invoke("truncate", saved.at, <<Op("truncate_at", 0)>>)
  /\ stamp' = 1 - stamp

InvokeReopen ==
  /\ Invoke("reopen", 0, <<Op("close", 0)>>)
  /\ UNCHANGED stamp

-----------------------------------------------------------------------------
(* read(), read_back() and write(). *)

(* The item at m_nextItem; Junk is what lies outside the buffer. *)
ItemAt(k) ==
  IF s.buffer # Unknown /\ k \in 0..BlockItems - 1
  THEN bufs[s.buffer].data[k + 1] ELSE Junk

Takes(t) ==
  /\ value' = ItemAt(s.nextItem)
  /\ s' = t
  /\ UNCHANGED <<heapVars, diskVars, got, saved, stamp>>
  /\ Return

TakeCached ==
  /\ At("take_cached")
  /\ Takes([s EXCEPT !.cachedReads = @ - 1, !.offset = @ + 1,
                     !.nextItem = @ + 1])

(* Mutant: the end of the block is overlooked. *)
PeekInBlock ==
  /\ At("peek")
  /\ IF s.offset = s.size THEN Fail ELSE
     Then(<<>>) /\ UNCHANGED <<s, heapVars, locked, fault>> /\ Quiet

Peek ==
  /\ At("peek")
  /\ IF s.offset = s.size THEN Fail ELSE
     /\ IF s.nextItem = BlockItems
        THEN /\ locked' = TRUE
             /\ Then(FlushIf(0) \o NextBlock(BlockOf(s.offset))
                                \o <<Op("unlock", 0)>>)
        ELSE Then(<<>>) /\ UNCHANGED locked
     /\ UNCHANGED <<s, heapVars, fault>> /\ Quiet

TakeNext ==
  /\ At("take")
  /\ Takes(Cached([s EXCEPT !.offset = @ + 1, !.nextItem = @ + 1]))

Unread ==
  /\ At("unread")
  /\ LET b == BlockOf(s.offset) - 1 IN
       IF s.nextItem # 0
       THEN Then(<<>>) /\ UNCHANGED <<s, locked>>
       ELSE /\ s' = Uncached(s)
            /\ locked' = TRUE
            /\ Then(FlushIf(1) \o
                    (IF compressed THEN PreviousBlock(b)
                     ELSE NextBlock(b) \o <<Op("place", BlockItems)>>)
                    \o <<Op("unlock", 0)>>)
  /\ UNCHANGED <<heapVars, fault>> /\ Quiet

TakeBack ==
  /\ At("take_back")
  /\ value' = ItemAt(s.nextItem - 1)
  /\ s' = [s EXCEPT !.cachedReads = @ + 1, !.offset = @ - 1,
                    !.nextItem = @ - 1]
  /\ UNCHANGED <<heapVars, diskVars, got, saved, stamp>>
  /\ Return

(* memcpy(m_nextItem, &item, sizeof(T)), which has to stay in the buffer. *)
Puts(t) ==
  IF s.nextItem \notin 0..BlockItems - 1 THEN Fail ELSE
  /\ bufs' = [bufs EXCEPT ![s.buffer].data[s.nextItem + 1] = call.arg]
  /\ s' = t
  /\ UNCHANGED <<resp, queue, diskVars, got, saved, value, stamp>>
  /\ Return

PutCached ==
  /\ At("put_cached")
  /\ Puts([s EXCEPT !.nextItem = @ + 1, !.size = @ + 1, !.offset = @ + 1,
                    !.cachedWrites = @ - 1])

Room ==
  /\ At("room")
  /\ IF compressed /\ s.offset # s.size THEN Fail ELSE
     /\ IF s.nextItem = BlockItems
        THEN /\ locked' = TRUE
             /\ Then(FlushIf(1) \o
                     (IF s.offset = s.size THEN Fresh
                                           ELSE NextBlock(BlockOf(s.offset)))
                     \o <<Op("unlock", 0)>>)
        ELSE Then(<<>>) /\ UNCHANGED locked
     /\ UNCHANGED <<s, heapVars, fault>> /\ Quiet

Put ==
  /\ At("put")
  /\ Puts(Cached([s EXCEPT !.size = IF s.offset = @ THEN @ + 1 ELSE @,
                           !.nextItem = @ + 1, !.bufferDirty = TRUE,
                           !.offset = @ + 1]))

-----------------------------------------------------------------------------
(* seek(), get_position() and set_position(). *)

Moves(t) ==
  /\ s' = t
  /\ UNCHANGED <<heapVars, diskVars, got, saved, value, stamp>>
  /\ Return

Sought == [Uncached(s) EXCEPT !.learns = Unknown]

Seek ==
  /\ At("seek")
  /\ Moves(Positioned(Sought, [off |-> 0, at |-> Arg]))

SeekBeginning ==
  /\ At("seek_beginning")
  /\ Moves(IF s.buffer # Unknown /\ BufferBlock = 0
           THEN [Seeking(Sought, "none") EXCEPT !.nextItem = 0, !.offset = 0,
                                                !.readOffset = 0]
           ELSE Seeking(Sought, "beginning"))

(* Mutant: block_item_index() for the index of the end, 0 in a full block. *)
SeekEndByIndex ==
  /\ At("seek_end")
  /\ Moves(IF s.buffer = Unknown THEN Seeking(Sought, "end") ELSE
           IF s.offset = s.size THEN Seeking(Sought, "none") ELSE
           IF BufferBlock \in {s.streamBlocks - 1, s.streamBlocks}
           THEN [Seeking(Sought, "none") EXCEPT
                   !.nextItem = s.size % BlockItems, !.offset = s.size]
           ELSE Seeking(Sought, "end"))

SeekEnd ==
  /\ At("seek_end")
  /\ Moves(IF s.buffer = Unknown THEN Seeking(Sought, "end") ELSE
           IF s.offset = s.size THEN Seeking(Sought, "none") ELSE
           IF BufferBlock \in {s.streamBlocks - 1, s.streamBlocks}
           THEN [Seeking(Sought, "none") EXCEPT
                   !.nextItem = s.size - BufferBlock * BlockItems,
                   !.offset = s.size]
           ELSE Seeking(Sought, "end"))

SetPosition ==
  /\ At("set_position")
  /\ Moves(Positioned(s, saved))

Tells(off) ==
  /\ got' = [off |-> off, at |-> Offset]
  /\ Then(<<>>)
  /\ UNCHANGED <<compressed, s, heapVars, diskVars, call, saved, value, kept,
                 stamp, locked, fault>>

Tell ==
  /\ At("tell")
  /\ LET inside == s.seekState = "none" /\ BufferBlock # s.streamBlocks
         full   == s.seekState = "none" /\ s.nextItem = BlockItems IN
       \/ ~compressed /\ Tells(0)
       \/ compressed /\ s.seekState = "position" /\ Tells(s.nextPosition.off)
       \/ compressed /\ s.seekState = "beginning" /\ Tells(0)
       \/ /\ compressed /\ inside
          /\ Tells(IF full THEN s.nextReadOffset ELSE s.readOffset)
       \/ /\ compressed /\ s.seekState \in {"none", "end"} /\ ~inside
          /\ IF full /\ ~s.bufferDirty THEN Fail ELSE
             /\ IF full
                THEN /\ locked' = TRUE
                     /\ Then(<<Op("flush", 0)>> \o Fresh
                             \o <<Op("unlock", 0), Op("locate", 0)>>)
                ELSE Then(<<Op("locate", 0)>>) /\ UNCHANGED locked
             /\ UNCHANGED <<s, heapVars, fault>> /\ Quiet

(* The end of get_position(): where the block at the end of the file is. *)
Locate ==
  /\ At("locate")
  /\ LET b == BlockOf(Offset) IN
       IF s.size % BlockItems = 0 \/ b = s.streamBlocks
       THEN Await(SizeKnown, SizeBad) \/ (SizeKnown /\ Tells(FileSize)) ELSE
       IF b = s.streamBlocks - 1
       THEN Await(LastKnown, LastBad) \/ (LastKnown /\ Tells(LastOffset))
       ELSE Fail

Told ==
  /\ At("told")
  /\ saved' = got /\ got' = NoPosition
  /\ UNCHANGED <<s, heapVars, diskVars, value, stamp>>
  /\ Return

-----------------------------------------------------------------------------
(* truncate(), close() and open(). *)

(* A position behind the end of the stream is of no use to the client. *)
Shrinks(n) ==
  /\ saved' = IF saved.at > n THEN NoPosition ELSE saved
  /\ got' = NoPosition
  /\ UNCHANGED <<thread, value, stamp>>
  /\ Return

TruncateNone ==
  /\ At("truncate_none")
  /\ Moves(Uncached(s))

(* The part of truncate_zero() that runs before it takes the mutex. *)
TruncateZero ==
  /\ At("truncate_zero")
  /\ s' = [Uncached(s) EXCEPT !.buffer = Unknown, !.learns = Unknown]
  /\ resp' = Cleared
  /\ Then(<<>>)
  /\ UNCHANGED <<bufs, queue, locked, fault>> /\ Quiet

TruncatedZero ==
  /\ At("truncated_zero")
  /\ s' = [Uncached(Seeking(s, "none")) EXCEPT
             !.size = 0, !.streamBlocks = 0, !.readOffset = 0,
             !.offset = 0, !.nextItem = 0]
  /\ file' = <<>>
  /\ UNCHANGED heapVars
  /\ Shrinks(0)

(* truncate_uncompressed(): only the last block, not written yet, can be    *)
(* cut in memory.                                                           *)
Truncate ==
  /\ At("truncate")
  /\ IF InUnwrittenBlock(Arg)
     THEN LET t == [Seeking(Sought, "none") EXCEPT !.size = Arg,
                                                   !.bufferDirty = TRUE]
              u == IF Arg >= s.offset THEN t
                   ELSE [t EXCEPT !.offset = Arg,
                                  !.nextItem = Arg - s.streamBlocks * BlockItems]
          IN /\ s' = Positioned(u, [off |-> 0, at |-> Least({kept.at, Arg})])
             /\ UNCHANGED <<heapVars, file>>
             /\ Shrinks(Arg)
     ELSE /\ s' = Uncached(s)
          /\ locked' = TRUE
          /\ Then((IF Arg < BufferBlock * BlockItems THEN <<>> ELSE FlushIf(0))
                  \o <<Op("finish", 0), Op("cut", Arg)>>)
          /\ UNCHANGED <<heapVars, fault>> /\ Quiet

Cut ==
  /\ At("cut")
  /\ file' = [i \in 1..Arg |-> IF i <= Len(file) THEN file[i] ELSE Junk]
  /\ s' = Positioned([Sought EXCEPT !.size = Arg, !.streamBlocks = Blocks(Arg)],
                     [off |-> 0, at |-> Least({kept.at, Arg})])
  /\ UNCHANGED heapVars
  /\ Shrinks(Arg)

(* truncate_compressed(): got is where the stream goes afterwards. *)
TruncateAt ==
  /\ At("truncate_at")
  /\ s' = Uncached(s)
  /\ IF saved.at < Offset
     THEN got' = saved /\ Then(<<Op("reach", 0)>>)
     ELSE UNCHANGED got /\ Then(<<Op("tell", 0), Op("reach", 0)>>)
  /\ UNCHANGED <<compressed, heapVars, diskVars, call, saved, value, kept,
                 stamp, locked, fault>>

Reach ==
  /\ At("reach")
  /\ IF s.buffer = Unknown \/ BlockOf(saved.at) # BufferBlock
     THEN /\ s' = Positioned(s, saved)
          /\ Then(<<Op("perform", 0), Op("shorten", 0)>>)
     ELSE Then(<<Op("shorten", 0)>>) /\ UNCHANGED s
  /\ UNCHANGED <<heapVars, locked, fault>> /\ Quiet

Shorten ==
  /\ At("shorten")
  /\ LET n == saved.at
         written == BufferBlock < s.streamBlocks
         t == IF written
              THEN [s EXCEPT !.streamBlocks = BufferBlock + 1,
                             !.lastOffset = saved.off, !.fileSize = Unknown,
                             !.learns = Unknown]
              ELSE s
         u == IF n >= s.offset THEN t
              ELSE [t EXCEPT !.offset = n,
                             !.nextItem = n - t.streamBlocks * BlockItems]
     IN /\ s' = Positioned([u EXCEPT !.size = n, !.bufferDirty = TRUE], got)
        /\ resp' = IF written THEN Cleared ELSE resp
        /\ UNCHANGED <<bufs, queue, file>>
        /\ Shrinks(n)

Close ==
  /\ At("close")
  /\ s' = Uncached(s)
  /\ locked' = TRUE
  /\ Then(FlushIf(0) \o <<Op("finish", 0), Op("open", 0)>>)
  /\ UNCHANGED <<heapVars, fault>> /\ Quiet

(* The rest of close(), and open_inner(): the header keeps the size and the *)
(* offset of the last block.                                                *)
Open ==
  /\ At("open")
  /\ \/ compressed /\ Await(LastKnown, LastBad)
     \/ /\ compressed => LastKnown
        /\ LET t == [Sought EXCEPT
                       !.streamBlocks = Blocks(s.size),
                       !.lastOffset = IF compressed THEN LastOffset ELSE @,
                       !.fileSize = IF compressed THEN FileEnd(file) ELSE @]
           IN s' = IF compressed THEN Seeking(t, "beginning")
                   ELSE Positioned(t, [off |-> 0, at |-> 0])
        /\ resp' = Cleared
        /\ UNCHANGED <<bufs, queue, diskVars, got, saved, value, stamp>>
        /\ Return

-----------------------------------------------------------------------------
(* The compressor thread (compressor_thread::impl::run()). *)

MutexFree == ~locked \/ waits # "none"

(* Mutants: only one of the two condition variables is ever notified. *)
NotifiedOfChange(cond) ==
  IF waits = cond /\ cond = "changed" THEN "woken" ELSE waits
NotifiedOfRequest(cond) ==
  IF waits = cond /\ cond = "request" THEN "woken" ELSE waits

Notified(cond) == IF waits = cond THEN "woken" ELSE waits

ThreadKeeps == UNCHANGED <<compressed, s, clientVars, todo, locked>>

ThreadTake ==
  /\ thread.pc = "idle" /\ queue # <<>> /\ MutexFree
  /\ thread' = [Idle EXCEPT !.pc = "busy", !.req = Head(queue)]
  /\ queue' = Tail(queue)
  /\ UNCHANGED <<bufs, resp, file, waits, fault>> /\ ThreadKeeps

(* An exception leaves run(), and the program. *)
ThreadFail ==
  /\ fault' = TRUE
  /\ UNCHANGED <<heapVars, diskVars, waits>> /\ ThreadKeeps

(* process_read_request() *)
Answer(buf, next) ==
  /\ bufs' = [bufs EXCEPT ![thread.req.buf] = buf]
  /\ resp' = [resp EXCEPT !.done = TRUE, !.next = next]
  /\ waits' = Notified("changed")
  /\ thread' = [thread EXCEPT !.pc = "announced"]
  /\ UNCHANGED <<queue, file, fault>> /\ ThreadKeeps

ThreadReadItems ==
  /\ thread.pc = "busy" /\ thread.req.kind = "read" /\ ~compressed
  /\ MutexFree
  /\ LET r == thread.req
         buf == bufs[r.buf]
         data == [k \in 1..BlockItems |->
                    IF k <= buf.size /\ r.off + k <= Len(file)
                    THEN file[r.off + k] ELSE Junk]
     IN Answer([buf EXCEPT !.state = "clean", !.data = data], Unknown)

ThreadReadBlock ==
  /\ thread.pc = "busy" /\ thread.req.kind = "read" /\ compressed
  /\ MutexFree
  /\ LET r == thread.req
         found == {i \in DOMAIN file :
                     /\ r.off = file[i].off + IF r.back THEN file[i].len ELSE 0
                     /\ file[i].len > 2}
     IN IF found = {} \/ bufs[r.buf].state # "reading" THEN ThreadFail ELSE
        LET rec == file[Least(found)]
            data == [k \in 1..BlockItems |->
                       IF k <= Len(rec.data) THEN rec.data[k] ELSE Junk]
        IN Answer([state |-> "clean", data |-> data, size |-> Len(rec.data),
                   off |-> rec.off, len |-> rec.len],
                  IF r.back THEN rec.off ELSE rec.off + rec.len)

(* process_write_request(), uncompressed: nobody is notified. *)
ThreadWriteItems ==
  /\ thread.pc = "busy" /\ thread.req.kind = "write" /\ ~compressed
  /\ MutexFree
  /\ LET r == thread.req
         buf == bufs[r.buf]
         end == r.off + buf.size
     IN /\ file' = [i \in 1..(IF end > Len(file) THEN end ELSE Len(file)) |->
                      IF i \in r.off + 1..end THEN buf.data[i - r.off] ELSE
                      IF i <= Len(file) THEN file[i] ELSE Junk]
        /\ bufs' = [bufs EXCEPT ![r.buf].state = "clean"]
  /\ resp' = [resp EXCEPT !.done = TRUE]
  /\ thread' = [thread EXCEPT !.pc = "announced"]
  /\ UNCHANGED <<queue, waits, fault>> /\ ThreadKeeps

(* Compressed: the file is cut where the block is to be rewritten, and the  *)
(* block's place is announced before it is there.                           *)
ThreadAnnounce ==
  /\ thread.pc = "busy" /\ thread.req.kind = "write" /\ compressed
  /\ MutexFree
  /\ LET r == thread.req
         buf == bufs[r.buf]
         rest == IF r.off = Unknown THEN file
                 ELSE SelectSeq(file, LAMBDA rec : rec.off + rec.len <= r.off)
         told == resp.blk = Unknown \/ resp.blk <= r.blk
     IN IF \/ r.off # Unknown /\ FileEnd(rest) # r.off
           \/ buf.state # "writing" \/ buf.size < 0
        THEN ThreadFail ELSE
        \E len \in {buf.size + 2, 3} :
          /\ file' = rest
          /\ bufs' = [bufs EXCEPT ![r.buf].state = "clean",
                                  ![r.buf].off = FileEnd(rest),
                                  ![r.buf].len = len]
          /\ resp' = IF told
                     THEN [resp EXCEPT !.done = TRUE, !.blk = r.blk,
                                       !.off = FileEnd(rest), !.len = len]
                     ELSE [resp EXCEPT !.done = TRUE]
          /\ waits' = IF told THEN Notified("changed") ELSE waits
          /\ thread' = [thread EXCEPT !.pc = "append",
                          !.rec = [off |-> FileEnd(rest), len |-> len,
                                   data |-> SubSeq(buf.data, 1, buf.size)]]
          /\ UNCHANGED <<queue, fault>> /\ ThreadKeeps

(* Outside the mutex: the block is appended, and the request, which refers  *)
(* to the buffer, is destroyed.                                             *)
ThreadAppend ==
  /\ thread.pc = "append"
  /\ file' = Append(file, [thread.rec EXCEPT !.off = FileEnd(file)])
  /\ thread' = [Idle EXCEPT !.pc = "dropped"]
  /\ UNCHANGED <<heapVars, waits, fault>> /\ ThreadKeeps

ThreadDrop ==
  /\ thread.pc = "announced"
  /\ thread' = [Idle EXCEPT !.pc = "dropped"]
  /\ UNCHANGED <<heapVars, file, waits, fault>> /\ ThreadKeeps

ThreadDone ==
  /\ thread.pc = "dropped" /\ MutexFree
  /\ thread' = Idle
  /\ waits' = Notified("request")
  /\ UNCHANGED <<heapVars, file, fault>> /\ ThreadKeeps

-----------------------------------------------------------------------------
(* open() of a new file. *)
Init ==
  /\ compressed \in Modes
  /\ s = [size |-> 0, offset |-> 0,
          seekState |-> IF compressed THEN "beginning" ELSE "position",
          nextPosition |-> IF compressed THEN NoPosition
                           ELSE [off |-> 0, at |-> 0],
          nextItem |-> 0, bufferDirty |-> FALSE, streamBlocks |-> 0,
          lastOffset |-> Unknown, fileSize |-> 0, readOffset |-> 0,
          nextReadOffset |-> 0, learns |-> Unknown, cachedReads |-> 0, cachedWrites |-> 0,
          buffer |-> Unknown]
  /\ bufs = <<>> /\ queue = <<>> /\ file = <<>> /\ thread = Idle
  /\ resp = [done |-> FALSE, blk |-> Unknown, off |-> 0, len |-> 0, next |-> 0]
  /\ call = NoCall /\ todo = <<>> /\ locked = FALSE /\ waits = "none"
  /\ got = NoPosition /\ saved = NoPosition /\ value = 0 /\ stamp = 0
  /\ kept = Nothing /\ fault = FALSE

NextCall ==
  InvokeRead \/ InvokeReadBack \/ InvokeWrite \/ InvokeSeek \/ InvokePosition
  \/ InvokeTruncate \/ InvokeReopen

ClientStep ==
  \/ Wake \/ Unlock \/ FlushBlock \/ Get \/ Free \/ Ready \/ Place \/ Update
  \/ Load \/ LoadBack \/ Loaded \/ LoadedBack \/ Finish
  \/ Perform \/ Branch \/ Land \/ LandFresh
  \/ TakeCached \/ Peek \/ TakeNext \/ Unread \/ TakeBack
  \/ PutCached \/ Room \/ Put
  \/ Seek \/ SeekBeginning \/ SeekEnd \/ SetPosition \/ Tell \/ Locate \/ Told
  \/ TruncateNone \/ TruncateZero \/ TruncatedZero \/ Truncate \/ Cut
  \/ TruncateAt \/ Reach \/ Shorten \/ Close \/ Open

ThreadStep ==
  \/ ThreadTake \/ ThreadReadItems \/ ThreadReadBlock \/ ThreadWriteItems
  \/ ThreadAnnounce \/ ThreadAppend \/ ThreadDrop \/ ThreadDone

Next == NextCall \/ ClientStep \/ ThreadStep

Spec == Init /\ [][Next]_vars

(* Both threads run when they can: a call that was begun goes on, and the   *)
(* compressor thread serves its queue.                                      *)
FairSpec == Spec /\ WF_vars(ClientStep) /\ WF_vars(ThreadStep)

-----------------------------------------------------------------------------
(* PROPERTIES *)

(* No call throws tpie::exception or fails an assertion, and no exception   *)
(* leaves the compressor thread: "a bug we must fix in the compressed       *)
(* stream" (stream.h:397-398).                                              *)
NoStreamFault == ~fault

(* Between two calls, and while a call runs outside the mutex, the client   *)
(* works within the bounds of a buffer that is not in the hands of the      *)
(* compressor thread: "Only stream may read and write" (buffer.h:45-66).    *)
CurrentBufferOwned ==
  /\ s.buffer # Unknown /\ ~locked =>
       bufs[s.buffer].state \in {"clean", "dirty"}
  /\ s.nextItem <= BlockItems

(* The stream, with its buffers, its thread and its file, does what the     *)
(* abstract stream does: a call changes the contents and the offset once,   *)
(* as specified, and nothing else ever changes them.                        *)
Abstract ==
  INSTANCE Stream WITH
    contents <- IF call = NoCall THEN Contents ELSE kept.contents,
    at       <- IF call = NoCall THEN Offset ELSE kept.at

ImplementsStream == Abstract!StreamSpec

(* Every call returns: no wait for the compressor thread lasts for ever.    *)
EveryCallReturns == (call # NoCall) ~> (call = NoCall)
=============================================================================
