---------------------------- MODULE MCFileStream ----------------------------
(***************************************************************************)
(* Instances of FileStream: blocks of two items, and one buffer besides the *)
(* stream's own that other streams may hold.                                *)
(***************************************************************************)
EXTENDS FileStream

SequentialOps == {"read", "read_back", "write", "seek_beginning", "seek_end",
                  "truncate"}
ItemOps       == {"read", "read_back", "write", "seek", "truncate"}

(* A compressed stream is moved to its ends, or to a position; an             *)
(* uncompressed one to any offset, and closed and opened.                     *)
AllOps ==
  [compression \in BOOLEAN |->
     IF compression THEN SequentialOps \cup {"get_position", "set_position"}
                    ELSE ItemOps \cup {"reopen"}]
BlockOps == [compression \in BOOLEAN |-> SequentialOps \cup {"reopen"}]
PositionOps ==
  [compression \in BOOLEAN |-> SequentialOps \cup {"get_position", "set_position"}]
ReadWriteOps == [compression \in BOOLEAN |-> ItemOps \ {"truncate"}]

(* Other streams always hold the shared buffer, or come and go.               *)
Contended == [compression \in BOOLEAN |-> IF compression THEN {0, 1} ELSE {1}]
AtAnyTime == [compression \in BOOLEAN |-> {0, 1}]

(* Two blocks, or three of a compressed stream. *)
TwoBlocks     == [compression \in BOOLEAN |-> 3]
ManyBlocks    == [compression \in BOOLEAN |-> IF compression THEN 5 ELSE 3]

Defects == {"stale_counts", "truncate_in_flight", "truncate_at_block",
            "read_back_after_tell", "read_back_in_flight", "tell_after_rewrite"}
AllButCounts   == Defects \ {"stale_counts"}
AllButReadBack == Defects \ {"read_back_in_flight"}
AllButTell     == Defects \ {"tell_after_rewrite"}
=============================================================================
