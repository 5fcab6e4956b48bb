------------------------------- MODULE Stream -------------------------------
(***************************************************************************)
(* What a tpie::file_stream promises its client (tpie/compressed/stream.h): *)
(* a sequence of items and an offset into it.  A call takes effect when it  *)
(* returns; nothing changes between calls, whatever the compressor thread   *)
(* does meanwhile.                                                          *)
(***************************************************************************)
EXTENDS Integers, Sequences

CONSTANT NoCall

VARIABLES
  contents,  (* the items                                                  *)
  at,        (* offset of the next item to read or write                   *)
  call,      (* the call in progress: [op, arg]                            *)
  value      (* what the read() or read_back() that returned last gave     *)

streamVars == <<contents, at, call, value>>

Fresh == contents = <<>> /\ at = 0 /\ call = NoCall /\ value = 0

Call ==
  /\ call = NoCall /\ call' # NoCall
  /\ value' = 0
  /\ UNCHANGED <<contents, at>>

Returns(ops) == call # NoCall /\ call.op \in ops /\ call' = NoCall

Read ==
  /\ Returns({"read"})
  /\ at < Len(contents)
  /\ value' = contents[at + 1] /\ at' = at + 1
  /\ UNCHANGED contents

ReadBack ==
  /\ Returns({"read_back"})
  /\ at > 0
  /\ value' = contents[at] /\ at' = at - 1
  /\ UNCHANGED contents

(* write() appends at the end and overwrites elsewhere. *)
Write ==
  /\ Returns({"write"})
  /\ contents' = SubSeq(contents, 1, at) \o <<call.arg>>
                                         \o SubSeq(contents, at + 2, Len(contents))
  /\ at' = at + 1
  /\ UNCHANGED value

Move ==
  /\ Returns({"seek", "seek_beginning", "seek_end", "set_position"})
  /\ at' = call.arg
  /\ UNCHANGED <<contents, value>>

(* get_position(), and close() followed by open(). *)
Tell ==
  /\ Returns({"get_position"})
  /\ UNCHANGED <<contents, at, value>>

Reopen ==
  /\ Returns({"reopen"})
  /\ at' = 0
  /\ UNCHANGED <<contents, value>>

Truncate ==
  /\ Returns({"truncate"})
  /\ contents' = SubSeq(contents, 1, call.arg)
  /\ at' = IF at < call.arg THEN at ELSE call.arg
  /\ UNCHANGED value

StreamNext ==
  Call \/ Read \/ ReadBack \/ Write \/ Move \/ Tell \/ Reopen \/ Truncate

StreamSpec == Fresh /\ [][StreamNext]_streamVars
=============================================================================
