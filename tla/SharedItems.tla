---------------------------- MODULE SharedItems ----------------------------
(***************************************************************************)
(* What a tpie::file promises the streams that share it: one sequence of   *)
(* items, an offset for each stream, and that a file which was closed has  *)
(* its items when it is opened again.  One that was open for writing when  *)
(* the program ended is lost.                                              *)
(***************************************************************************)
EXTENDS Integers, Sequences

CONSTANTS
  Streams,
  Items,
  Arrays    (* sizes of the arrays that one call reads or writes           *)

VARIABLES
  contents, (* the items                                                   *)
  status,   (* "closed", "read", "read_write" or "lost"                    *)
  at,       (* offsets of the streams that are attached                    *)
  value     (* the items that the last call gave                           *)

vars == <<contents, status, at, value>>

Init == contents = <<>> /\ status = "closed" /\ at = <<>> /\ value = <<>>

Moved(s, n) == at' = [at EXCEPT ![s] = n]

Read(s) ==
  /\ at[s] < Len(contents)
  /\ value' = <<contents[at[s] + 1]>> /\ Moved(s, at[s] + 1)
  /\ UNCHANGED <<contents, status>>

ReadBack(s) ==
  /\ at[s] > 0
  /\ value' = <<contents[at[s]]>> /\ Moved(s, at[s] - 1)
  /\ UNCHANGED <<contents, status>>

ReadArray(s) ==
  \E n \in Arrays :
    /\ at[s] + n <= Len(contents)
    /\ value' = SubSeq(contents, at[s] + 1, at[s] + n) /\ Moved(s, at[s] + n)
    /\ UNCHANGED <<contents, status>>

(* Items are overwritten, and appended at the end. *)
Written(s, n) ==
  /\ Len(contents') = IF at[s] + n > Len(contents) THEN at[s] + n ELSE Len(contents)
  /\ \A i \in 1 .. Len(contents') :
       IF i \in at[s] + 1 .. at[s] + n THEN contents'[i] \in Items
       ELSE contents'[i] = contents[i]

Write(s) ==
  /\ status = "read_write"
  /\ \E n \in {1} \cup Arrays : Moved(s, at[s] + n) /\ Written(s, n)
  /\ value' = <<>> /\ UNCHANGED status

Seek(s) ==
  /\ \E n \in 0 .. Len(contents) : Moved(s, n)
  /\ value' = <<>> /\ UNCHANGED <<contents, status>>

(* A call that is refused gives nothing. *)
Refused == value' = <<>> /\ UNCHANGED <<contents, status, at>>

(* Streams are attached at the beginning, and detached. *)
Attach(s) ==
  /\ s \notin DOMAIN at
  /\ at' = [t \in DOMAIN at \cup {s} |-> IF t = s THEN 0 ELSE at[t]]
  /\ value' = <<>> /\ UNCHANGED <<contents, status>>

Detach(s) ==
  /\ at' = [t \in DOMAIN at \ {s} |-> at[t]]
  /\ value' = <<>> /\ UNCHANGED <<contents, status>>

(* What concerns the file as a whole: only without streams, but for a crash. *)
Truncate ==
  /\ status = "read_write" /\ at = <<>>
  /\ \E n \in 0 .. Len(contents) : contents' = SubSeq(contents, 1, n)
  /\ value' = <<>> /\ UNCHANGED <<status, at>>

Open ==
  /\ status = "closed" /\ status' \in {"read", "read_write"}
  /\ value' = <<>> /\ UNCHANGED <<contents, at>>

Close ==
  /\ status \in {"read", "read_write"} /\ at = <<>> /\ status' = "closed"
  /\ value' = <<>> /\ UNCHANGED <<contents, at>>

Crash ==
  /\ status' = IF status = "read_write" THEN "lost" ELSE "closed"
  /\ contents' = IF status = "read_write" THEN <<>> ELSE contents
  /\ at' = <<>> /\ value' = <<>>

Remove ==
  /\ status \in {"closed", "lost"} /\ status' = "closed" /\ contents' = <<>>
  /\ value' = <<>> /\ UNCHANGED at

Next ==
  \/ \E s \in Streams :
       \/ status \in {"read", "read_write"} /\ Attach(s)
       \/ s \in DOMAIN at /\ (Read(s) \/ ReadBack(s) \/ ReadArray(s) \/ Write(s) \/ Seek(s)
                            \/ Detach(s))
  \/ Refused \/ Truncate \/ Open \/ Close \/ Crash \/ Remove

Spec == Init /\ [][Next]_vars
=============================================================================
