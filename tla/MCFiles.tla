---------------------------- MODULE MCFiles ----------------------------
(* A compressed stream that is longer than that of FileStreamCalls.cfg, and a  *)
(* file that several streams share.  The two have nothing in common: one of    *)
(* them is explored, the other one is not used.                                *)
EXTENDS MCFileStream, SharedFile, TLC

VARIABLE explored

MCInit == Init /\ FileInit /\ explored \in {"stream", "file"}

MCNext ==
  \/ explored = "stream" /\ Next /\ UNCHANGED <<shared, explored>>
  \/ explored = "file" /\ FileNext /\ UNCHANGED <<vars, explored>>

MCSpec == MCInit /\ [][MCNext]_<<vars, shared, explored>>

MCSymmetry == Permutations(FileStreams) \cup Permutations(FileItems)
=============================================================================
