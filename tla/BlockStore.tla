---------------------------- MODULE BlockStore ----------------------------
(***************************************************************************)
(* What the block collections promise: a block that is given out keeps     *)
(* what was last put into it until it is given back, over any number of    *)
(* other blocks and over closing and opening the file.                     *)
(***************************************************************************)
CONSTANTS
  Handles, (* the blocks there may be                                      *)
  Contents (* what a block may hold                                        *)

VARIABLE content (* content of every block that is given out               *)

Init == content = <<>>

Give(h, c) ==
  /\ h \notin DOMAIN content
  /\ content' = [k \in DOMAIN content \cup {h} |-> IF k = h THEN c ELSE content[k]]

Put(h, c) ==
  /\ h \in DOMAIN content
  /\ content' = [content EXCEPT ![h] = c]

TakeBack(h) ==
  /\ h \in DOMAIN content
  /\ content' = [k \in DOMAIN content \ {h} |-> content[k]]

Next ==
  \E h \in Handles :
    \/ TakeBack(h)
    \/ \E c \in Contents : Give(h, c) \/ Put(h, c)

Spec == Init /\ [][Next]_content
=============================================================================
