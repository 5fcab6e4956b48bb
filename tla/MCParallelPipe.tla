-------------------------- MODULE MCParallelPipe --------------------------
(***************************************************************************)
(* Instances of ParallelPipe.  Item 1 overflows an output buffer of two     *)
(* (partial output), item 2 gives nothing, the others one or two outputs.   *)
(***************************************************************************)
EXTENDS ParallelPipe

MCEmits == <<3, 0, 1, 2, 1>>
=============================================================================
