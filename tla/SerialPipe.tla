---------------------------- MODULE SerialPipe ----------------------------
(***************************************************************************)
(* What tpie::pipelining::parallel(f) promises to the nodes around it: it   *)
(* hands on what f alone would hand on.  Item x makes f push Emits[x]       *)
(* outputs, written x here; f->end() pushes EndOutputs more, written Last.  *)
(* With maintain_order the outputs come in the order of their items, else   *)
(* in any order.  An exception may cut the sequence short, and then the     *)
(* pipeline fails; it never ends normally with outputs missing.             *)
(***************************************************************************)
EXTENDS Integers, Sequences, FiniteSets

CONSTANTS
  Items,      (* bound: number of items pushed into the pipe               *)
  Emits,      (* Emits[x]: outputs pushed for the x-th item                *)
  EndOutputs  (* outputs pushed by the end() of the nodes in the pipe      *)

VARIABLES
  ordered,    (* maintain_order was asked for                              *)
  accepted,   (* items pushed so far: 1..accepted                          *)
  out,        (* the outputs handed on                                     *)
  status      (* open, closed by end(), or failed with an exception        *)

serialVars == <<ordered, accepted, out, status>>

Last == Items + 1

Due(x) == IF x = Last THEN EndOutputs ELSE Emits[x]

Given(s, x) == Cardinality({p \in DOMAIN s : s[p] = x})

(* Every output due to the first n items was given. *)
Served(s, n) == \A x \in 1..n : Given(s, x) = Due(x)

(* The sequence s may have been handed on when n items are accepted: no      *)
(* output comes from nowhere or twice, those of end() come last, and with    *)
(* maintain_order an item is not overtaken.                                  *)
Permitted(s, n) ==
  /\ \A p \in DOMAIN s : s[p] \in 1..n \cup {Last}
  /\ \A x \in 1..n \cup {Last} : Given(s, x) <= Due(x)
  /\ \A p \in DOMAIN s : s[p] = Last => Served(SubSeq(s, 1, p - 1), n)
  /\ ordered => \A p \in DOMAIN s :
                  s[p] # Last => Served(SubSeq(s, 1, p - 1), s[p] - 1)

Extends(s) ==
  /\ Len(out) <= Len(s)
  /\ SubSeq(s, 1, Len(out)) = out

Start ==
  /\ ordered \in BOOLEAN
  /\ accepted = 0 /\ out = <<>> /\ status = "open"

Accept ==
  /\ status = "open"
  /\ accepted' = accepted + 1
  /\ UNCHANGED <<ordered, out, status>>

HandOn ==
  /\ status = "open"
  /\ Extends(out') /\ Permitted(out', accepted)
  /\ UNCHANGED <<ordered, accepted, status>>

Close ==
  /\ status = "open"
  /\ Served(out, accepted) /\ Given(out, Last) = EndOutputs
  /\ status' = "closed"
  /\ UNCHANGED <<ordered, accepted, out>>

Fail ==
  /\ status = "open"
  /\ Extends(out') /\ Permitted(out', accepted)
  /\ status' = "failed"
  /\ UNCHANGED <<ordered, accepted>>

SerialNext == Accept \/ HandOn \/ Close \/ Fail

SerialSpec == Start /\ [][SerialNext]_serialVars
=============================================================================
