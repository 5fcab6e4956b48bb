--------------------------- MODULE MCJobManager ---------------------------
(* Instance of JobManager for TLC: a root that spawns two subjobs, one of     *)
(* which may spawn the other, a queue of one place, two threads.              *)
EXTENDS JobManager

CONSTANTS a, b, c

MCSpawns == [j \in Jobs |-> CASE j = a -> {b, c} [] j = b -> {c} [] OTHER -> {}]

=============================================================================
