------------------------- MODULE ParallelPipeProofs -------------------------
(***************************************************************************)
(* Proofs about ParallelPipe, for every number of workers, size of buffers  *)
(* and source: while no begin() throws once a thread is started, no         *)
(* exception of the protocol is thrown, no buffer is used by two threads at *)
(* a time, and the order of the outputs is the order of the items.          *)
(***************************************************************************)
EXTENDS ParallelPipe, FiniteSetTheorems, NaturalsInduction, SequenceTheorems, TLAPS

-----------------------------------------------------------------------------
(* The inductive invariant. *)

Places == {"none", "start", "loop", "wait", "work", "flush", "flushwait",
           "flushtest", "catch", "exit"}

Phases == {"begin", "feed", "full", "empty", "drain", "finish", "close", "ends",
           "dtor", "stop", "stopped", "join", "joining", "over"}

(* The threads that are inside before::worker(). *)
RunningIn(w) == {i \in Pipes : w[i] \notin {"none", "start", "exit"}}

(* The states a worker may be in, given where its thread is. *)
StatesAt(w, c) ==
  CASE w \in {"none", "start"} -> {"initializing"}
    [] w = "wait" -> {"idle"}
    [] w = "loop" -> {"idle", "processing", "done"}
    [] w \in {"work", "flush", "catch"} -> {"processing"}
    [] w = "flushwait" /\ c -> {"outputting", "idle", "processing"}
    [] w = "flushtest" /\ c -> {"outputting", "idle", "processing", "done"}
    [] w \in {"flushwait", "flushtest"} /\ ~c -> {"partial_output", "processing"}
    [] w = "exit" -> {"done"}

WorkerInv == \A i \in Pipes : state[i] \in StatesAt(wpc[i], complete[i])

(* The threads run before the source pushes, or none was started. *)
StartInv ==
  /\ runningWorkers = Cardinality(RunningIn(wpc))
  /\ \A i \in Pipes : wpc[i] = "none" <=> i > started
  /\ mpc # "begin" => /\ started \in {0, NumJobs}
                      /\ \A i \in Pipes : wpc[i] # "start"
  /\ mpc \in {"feed", "full", "empty", "drain", "finish", "close", "ends"} => started = NumJobs

PhaseInv ==
  /\ mpc \in {"begin", "feed", "full", "empty", "drain", "finish"} =>
       ~dying /\ \A i \in Pipes : state[i] # "done"
  /\ mpc = "finish" => held /\ \A i \in Pipes : state[i] = "idle"
  /\ mpc \in {"close", "ends"} => \A i \in Pipes : state[i] = "done"
  /\ mpc \in {"stop", "stopped"} => eptr \/ dying
  /\ mpc \in {"join", "joining", "over"} =>
       dying /\ \A i \in Pipes : wpc[i] \in {"none", "exit"}
  /\ mpc \in {"join", "joining"} => joined < NumJobs
  /\ mpc \notin {"join", "joining", "over"} => joined = 0

(* The buffers are used up before they are given away. *)
BufferInv ==
  \A i \in Pipes :
    /\ state[i] \in {"initializing", "outputting"} => inbuf[i] = <<>>
    /\ wpc[i] = "flush" /\ complete[i] => inbuf[i] = <<>>
    /\ state[i] \in {"idle", "done"} /\ ~eptr => inbuf[i] = <<>>
    /\ wpc[i] \in {"none", "start", "loop", "wait", "exit"} /\ ~eptr => outbuf[i] = <<>>

(* Where a worker has outputs that it has not offered yet. *)
Working == {"work", "flush", "catch"}

(* The items worker i has to answer for, the busy workers and their order, as *)
(* operators of the state they are read from.                                *)
ItemsOf(st, w, ib, ob, i) ==
  {x \in 1..Items :
    \/ \E p \in DOMAIN ib[i] : ib[i][p] = x
    \/ /\ st[i] \in Output \/ w[i] \in Working
       /\ \E p \in DOMAIN ob[i] : ob[i][p] = x}

BusyIn(st) == {i \in Pipes : st[i] \in Output \cup {"processing"}}

InOrder(st, w, ib, ob, order) ==
  /\ BusyIn(st) = {order[k] : k \in DOMAIN order}
  /\ \A k, l \in DOMAIN order : k < l =>
       /\ order[k] # order[l]
       /\ \A x \in ItemsOf(st, w, ib, ob, order[k]),
             y \in ItemsOf(st, w, ib, ob, order[l]) : x < y

(* Until the pipe is stopped, the busy workers are in the order of what they *)
(* hold.                                                                     *)
OrderInv ==
  maintainOrder /\ ~eptr /\ ~dying =>
    InOrder(state, wpc, inbuf, outbuf, outputOrder)

(* The items that wait in the input buffer are the last ones. *)
FlowInv ==
  /\ Len(written) <= fed
  /\ \A k \in DOMAIN written : written[k] = fed - Len(written) + k
  /\ ~eptr => \A i \in Pipes : \A x \in ItemsOf(state, wpc, inbuf, outbuf, i) :
                x <= fed - Len(written)

PipeInv ==
  /\ TypeOK /\ ~fault /\ WorkerInv /\ StartInv /\ PhaseInv
  /\ BufferInv /\ OrderInv /\ FlowInv


-----------------------------------------------------------------------------
(* Sets of workers. *)

LEMMA PipesFinite ==
  IsFiniteSet(Pipes) /\ Cardinality(Pipes) = NumJobs
<1>1. NumJobs \in Nat /\ 1 \in Int /\ NumJobs \in Int  BY PipeAssumption
<1>2. IsFiniteSet(1..NumJobs)  BY <1>1, FS_Interval
<1>3. Cardinality(1..NumJobs) = IF 1 > NumJobs THEN 0 ELSE NumJobs - 1 + 1
  BY <1>1, FS_Interval
<1>4. NumJobs >= 1  BY PipeAssumption
<1> QED  BY <1>1, <1>2, <1>3, <1>4 DEF Pipes

LEMMA RunningCount ==
  ASSUME NEW w
  PROVE  /\ IsFiniteSet(RunningIn(w)) /\ Cardinality(RunningIn(w)) \in 0..NumJobs
         /\ Cardinality(RunningIn(w)) = NumJobs <=> RunningIn(w) = Pipes
         /\ Cardinality(RunningIn(w)) = 0 <=> RunningIn(w) = {}
<1>1. RunningIn(w) \subseteq Pipes  BY DEF RunningIn
<1>2. /\ IsFiniteSet(RunningIn(w))
      /\ Cardinality(RunningIn(w)) <= Cardinality(Pipes)
      /\ Cardinality(RunningIn(w)) = Cardinality(Pipes) => RunningIn(w) = Pipes
  BY <1>1, PipesFinite, FS_Subset
<1>3. Cardinality(RunningIn(w)) \in Nat  BY <1>2, FS_CardinalityType
<1>4. Cardinality(RunningIn(w)) = 0 <=> RunningIn(w) = {}  BY <1>2, FS_EmptySet
<1>5. NumJobs \in Nat  BY PipeAssumption
<1>6. Cardinality(RunningIn(w)) \in 0..NumJobs  BY <1>2, <1>3, <1>5, PipesFinite
<1> QED  BY <1>2, <1>4, <1>6, PipesFinite

LEMMA RunningMore ==
  ASSUME NEW w, NEW v, NEW i \in Pipes,
         i \notin RunningIn(w), i \in RunningIn(v),
         \A j \in Pipes : j # i => v[j] = w[j]
  PROVE  Cardinality(RunningIn(v)) = Cardinality(RunningIn(w)) + 1
<1>1. RunningIn(v) = RunningIn(w) \cup {i}  BY DEF RunningIn
<1> QED  BY <1>1, RunningCount, FS_AddElement

LEMMA RunningLess ==
  ASSUME NEW w, NEW v, NEW i \in Pipes,
         i \in RunningIn(w), i \notin RunningIn(v),
         \A j \in Pipes : j # i => v[j] = w[j]
  PROVE  Cardinality(RunningIn(v)) = Cardinality(RunningIn(w)) - 1
<1>1. RunningIn(v) = RunningIn(w) \ {i}  BY DEF RunningIn
<1> QED  BY <1>1, RunningCount, FS_RemoveElement

(* A nonempty set of workers has a first one. *)
LEMMA FirstIn ==
  ASSUME NEW S, S \subseteq Pipes, S # {}
  PROVE  First(S) \in S
<1> DEFINE R == OpToRel(<, Nat)
<1>1. S \subseteq Nat  BY DEF Pipes
<1>2. PICK i \in S : \A k \in S : ~(<<k, i>> \in R)
  <2>1. IsWellFoundedOn(R, Nat)  BY NatLessThanWellFounded
  <2> HIDE DEF R
  <2> QED  BY <1>1, <2>1, WFMin
<1>3. ASSUME NEW k \in S PROVE i <= k
  <2>1. k \in Nat /\ i \in Nat  BY <1>1, <1>2
  <2>2. k < i => <<k, i>> \in R  BY <2>1 DEF OpToRel
  <2> HIDE DEF R
  <2>3. ~(<<k, i>> \in R)  BY <1>2
  <2> QED  BY <2>1, <2>2, <2>3
<1> QED  BY <1>3 DEF First

-----------------------------------------------------------------------------
(* What the workers hold. *)

LEMMA HeadIs ==
  ASSUME NEW S, NEW s \in Seq(S), s # <<>>
  PROVE  Head(s) = s[1] /\ Head(s) \in S /\ 1 \in DOMAIN s
<1>1. Len(s) \in Nat /\ DOMAIN s = 1..Len(s) /\ Len(s) # 0  BY EmptySeq
<1> QED  BY <1>1

LEMMA OrderKept ==
  ASSUME NEW st, NEW w, NEW ib, NEW ob, NEW order \in Seq(Pipes),
         NEW st2, NEW w2, NEW ib2, NEW ob2,
         InOrder(st, w, ib, ob, order),
         BusyIn(st2) = BusyIn(st),
         \A j \in Pipes : ItemsOf(st2, w2, ib2, ob2, j) \subseteq ItemsOf(st, w, ib, ob, j)
  PROVE  InOrder(st2, w2, ib2, ob2, order)
<1>1. \A k \in DOMAIN order : order[k] \in Pipes  OBVIOUS
<1> QED  BY <1>1 DEF InOrder

(* A step that gives no worker anything keeps the order, and the bound on the *)
(* items that are under way.                                                  *)
LEMMA OrderByWorker ==
  ASSUME TypeOK, OrderInv, FlowInv,
         UNCHANGED <<maintainOrder, outputOrder, written, fed>>,
         eptr => eptr', dying => dying',
         ~eptr' => BusyIn(state') = BusyIn(state),
         ~eptr' => \A j \in Pipes : ItemsOf(state', wpc', inbuf', outbuf', j)
                                \subseteq ItemsOf(state, wpc, inbuf, outbuf, j)
  PROVE  OrderInv' /\ FlowInv'
<1>1. outputOrder \in Seq(Pipes)  BY DEF TypeOK
<1>2. OrderInv'
  <2> SUFFICES ASSUME maintainOrder', ~eptr', ~dying'
               PROVE  InOrder(state', wpc', inbuf', outbuf', outputOrder')
    BY DEF OrderInv
  <2>1. InOrder(state, wpc, inbuf, outbuf, outputOrder)  BY DEF OrderInv
  <2>2. InOrder(state', wpc', inbuf', outbuf', outputOrder)  BY <1>1, <2>1, OrderKept
  <2> QED  BY <2>2
<1>3. FlowInv'  BY DEF FlowInv
<1> QED  BY <1>2, <1>3


-----------------------------------------------------------------------------
(* The steps of the workers. *)

LEMMA WorkerStartStep ==
  ASSUME PipeInv, NEW i \in Pipes, WorkerStart(i)
  PROVE  PipeInv'
<1> USE DEF bufferVars, phaseVars, flowVars
<1>1. /\ TypeOK /\ WorkerInv /\ StartInv /\ PhaseInv /\ BufferInv /\ OrderInv
      /\ FlowInv /\ ~fault
  BY DEF PipeInv
<1>2. state[i] = "initializing" /\ wpc[i] = "start" /\ mpc = "begin" /\ ~fault' /\ fault' \in BOOLEAN
  BY <1>1 DEF WorkerStart, Transition, WorkerInv, StatesAt, StartInv
<1>3. /\ state' = [state EXCEPT ![i] = "idle"] /\ wpc' = [wpc EXCEPT ![i] = "loop"]
      /\ runningWorkers' = runningWorkers + 1
      /\ UNCHANGED <<bufferVars, eptr, complete, phaseVars, flowVars, mpc>>
      /\ mwait' = FALSE /\ held' = held
  BY <1>2 DEF WorkerStart, Transition, NotifyProducer
<1>4. runningWorkers' = Cardinality(RunningIn(wpc')) /\ runningWorkers' \in 0..NumJobs
  <2>1. i \notin RunningIn(wpc) /\ i \in RunningIn(wpc')
    BY <1>1, <1>2, <1>3 DEF RunningIn, TypeOK
  <2>2. \A j \in Pipes : j # i => wpc'[j] = wpc[j]  BY <1>1, <1>3 DEF TypeOK
  <2>3. Cardinality(RunningIn(wpc')) = Cardinality(RunningIn(wpc)) + 1
    BY <2>1, <2>2, RunningMore
  <2>5. Cardinality(RunningIn(wpc')) \in 0..NumJobs  BY RunningCount
  <2> QED  BY <1>1, <1>3, <2>3, <2>5 DEF StartInv
<1>5. TypeOK'
  <2>1. state' \in [Pipes -> States]  BY <1>1, <1>3 DEF TypeOK, States
  <2>2. wpc' \in [Pipes -> Places]  BY <1>1, <1>3 DEF TypeOK, Places
  <2> QED  BY <1>1, <1>2, <1>3, <1>4, <2>1, <2>2 DEF TypeOK, Places
<1>6. WorkerInv'  BY <1>1, <1>2, <1>3 DEF WorkerInv, StatesAt, TypeOK
<1>7. StartInv'  BY <1>1, <1>2, <1>3, <1>4 DEF StartInv, TypeOK
<1>8. PhaseInv'  BY <1>1, <1>2, <1>3 DEF PhaseInv, TypeOK
<1>9. BufferInv'  BY <1>1, <1>2, <1>3 DEF BufferInv, TypeOK
<1>10. OrderInv' /\ FlowInv'
  <2>1. BusyIn(state') = BusyIn(state)  BY <1>1, <1>2, <1>3 DEF BusyIn, Output, TypeOK
  <2>2. \A j \in Pipes : ItemsOf(state', wpc', inbuf', outbuf', j)
                      \subseteq ItemsOf(state, wpc, inbuf, outbuf, j)
    BY <1>1, <1>2, <1>3 DEF ItemsOf, Working, Output, TypeOK
  <2> QED  BY <1>1, <1>3, <2>1, <2>2, OrderByWorker
<1> QED  BY <1>2, <1>5, <1>6, <1>7, <1>8, <1>9, <1>10 DEF PipeInv


(* A worker takes new work, stops, or begins to wait. *)
LEMMA WorkerLoopStep ==
  ASSUME PipeInv, NEW i \in Pipes, WorkerLoop(i)
  PROVE  PipeInv'
<1> USE DEF bufferVars, phaseVars, flowVars
<1> DEFINE at == IF state[i] = "processing" THEN "work" ELSE
                 IF state[i] = "done" THEN "exit" ELSE "wait"
<1>1. /\ TypeOK /\ WorkerInv /\ StartInv /\ PhaseInv /\ BufferInv /\ OrderInv
      /\ FlowInv /\ ~fault
  BY DEF PipeInv
<1>2. /\ state[i] \in {"idle", "processing", "done"} /\ wpc[i] = "loop"
      /\ ~fault' /\ fault' \in BOOLEAN
  BY <1>1 DEF WorkerLoop, WorkerInv, StatesAt
<1>3. /\ wpc' = [wpc EXCEPT ![i] = at]
      /\ IF state[i] = "done" THEN runningWorkers' = runningWorkers - 1 /\ mwait' = FALSE
                              ELSE UNCHANGED <<runningWorkers, mwait>>
      /\ UNCHANGED <<bufferVars, state, eptr, complete, phaseVars, flowVars, mpc, held>>
  BY DEF WorkerLoop, NotifyProducer
<1>4. at \in Places /\ wpc'[i] = at /\ \A j \in Pipes : j # i => wpc'[j] = wpc[j]
  BY <1>1, <1>3 DEF TypeOK, Places
<1>5. runningWorkers' = Cardinality(RunningIn(wpc')) /\ runningWorkers' \in 0..NumJobs
  <2>1. Cardinality(RunningIn(wpc')) \in 0..NumJobs  BY RunningCount
  <2>2. CASE state[i] = "done"
    <3>1. i \in RunningIn(wpc) /\ i \notin RunningIn(wpc')
      BY <1>2, <1>4, <2>2 DEF RunningIn
    <3>2. Cardinality(RunningIn(wpc')) = Cardinality(RunningIn(wpc)) - 1
      BY <1>4, <3>1, RunningLess
    <3> QED  BY <1>1, <1>3, <2>1, <2>2, <3>2 DEF StartInv
  <2>3. CASE state[i] # "done"
    <3>1. RunningIn(wpc') = RunningIn(wpc)  BY <1>2, <1>4, <2>3 DEF RunningIn
    <3> QED  BY <1>1, <1>3, <2>1, <2>3, <3>1 DEF StartInv
  <2> QED  BY <2>2, <2>3
<1>6. TypeOK'
  <2>1. wpc' \in [Pipes -> Places]  BY <1>1, <1>3, <1>4 DEF TypeOK, Places
  <2>2. mwait' \in BOOLEAN  BY <1>1, <1>3 DEF TypeOK
  <2> QED  BY <1>1, <1>2, <1>3, <1>5, <2>1, <2>2 DEF TypeOK, Places
<1>7. WorkerInv'
  <2>1. state[i] \in StatesAt(at, complete[i])  BY <1>2 DEF StatesAt
  <2> HIDE DEF at
  <2> QED  BY <1>1, <1>3, <1>4, <2>1 DEF WorkerInv
<1>8. StartInv'  BY <1>1, <1>2, <1>3, <1>4, <1>5 DEF StartInv
<1>9. PhaseInv'  BY <1>1, <1>2, <1>3, <1>4 DEF PhaseInv
<1>10. BufferInv'  BY <1>1, <1>2, <1>3, <1>4 DEF BufferInv
<1>11. OrderInv' /\ FlowInv'
  <2>1. BusyIn(state') = BusyIn(state)  BY <1>3
  <2>2. ~eptr' => outbuf[i] = <<>>  BY <1>1, <1>2, <1>3 DEF BufferInv
  <2>3. ~eptr' => \A j \in Pipes : ItemsOf(state', wpc', inbuf', outbuf', j)
                               \subseteq ItemsOf(state, wpc, inbuf, outbuf, j)
    BY <1>2, <1>3, <1>4, <2>2 DEF ItemsOf, Working
  <2> QED  BY <1>1, <1>3, <2>1, <2>3, OrderByWorker
<1> QED  BY <1>2, <1>6, <1>7, <1>8, <1>9, <1>10, <1>11 DEF PipeInv

(* The nodes of a worker push an output, or find their buffer full. *)
LEMMA PushStep ==
  ASSUME PipeInv, NEW i \in Pipes, Push(i)
  PROVE  PipeInv'
<1> USE DEF phaseVars, flowVars, mainVars
<1>1. /\ TypeOK /\ WorkerInv /\ StartInv /\ PhaseInv /\ BufferInv /\ OrderInv
      /\ FlowInv /\ ~fault
  BY DEF PipeInv
<1>2. /\ wpc[i] = "work" /\ inbuf[i] # <<>> /\ inbuf[i] \in Seq(1..Items)
      /\ state[i] = "processing"
      /\ UNCHANGED <<inbuf, state, runningWorkers, eptr, phaseVars, flowVars,
                     mainVars, fault>>
  BY <1>1 DEF Push, TypeOK, WorkerInv, StatesAt
<1>3. Head(inbuf[i]) \in 1..Items /\ inbuf[i][1] = Head(inbuf[i]) /\ 1 \in DOMAIN inbuf[i]
  BY <1>2, HeadIs
<1>4. CASE Len(outbuf[i]) < BufSize
  <2>1. /\ outbuf' = [outbuf EXCEPT ![i] = Append(@, Head(inbuf[i]))]
        /\ emitted' = [emitted EXCEPT ![i] = @ + 1]
        /\ wpc' = wpc /\ complete' = complete
    BY <1>4 DEF Push
  <2>2. /\ outbuf[i] \in Seq(1..Items)
        /\ outbuf'[i] = Append(outbuf[i], Head(inbuf[i]))
        /\ \A j \in Pipes : j # i => outbuf'[j] = outbuf[j]
    BY <1>1, <2>1 DEF TypeOK
  <2>3. /\ outbuf'[i] \in Seq(1..Items)
        /\ Len(outbuf'[i]) = Len(outbuf[i]) + 1
        /\ \A p \in 1..Len(outbuf[i]) : outbuf'[i][p] = outbuf[i][p]
        /\ outbuf'[i][Len(outbuf[i]) + 1] = Head(inbuf[i])
    BY <1>3, <2>2, AppendProperties
  <2>4. TypeOK'
    <3>1. outbuf' \in [Pipes -> Seq(1..Items)]  BY <1>1, <2>1, <2>2, <2>3 DEF TypeOK
    <3>2. emitted' \in [Pipes -> Nat]  BY <1>1, <2>1 DEF TypeOK
    <3> QED  BY <1>1, <1>2, <2>1, <3>1, <3>2 DEF TypeOK
  <2>5. WorkerInv' /\ StartInv' /\ PhaseInv'
    BY <1>1, <1>2, <2>1 DEF WorkerInv, StartInv, PhaseInv
  <2>6. BufferInv'  BY <1>1, <1>2, <2>1, <2>2 DEF BufferInv
  <2>7. OrderInv' /\ FlowInv'
    <3>1. ASSUME NEW p \in DOMAIN outbuf'[i]
          PROVE  \/ p \in DOMAIN outbuf[i] /\ outbuf'[i][p] = outbuf[i][p]
                 \/ outbuf'[i][p] = inbuf[i][1]
      BY <1>3, <2>2, <2>3
    <3>2. \A j \in Pipes : ItemsOf(state', wpc', inbuf', outbuf', j)
                        \subseteq ItemsOf(state, wpc, inbuf, outbuf, j)
      BY <1>2, <1>3, <2>1, <2>2, <3>1 DEF ItemsOf, Working
    <3> QED  BY <1>1, <1>2, <3>2, OrderByWorker
  <2> QED  BY <1>1, <1>2, <2>4, <2>5, <2>6, <2>7 DEF PipeInv
<1>5. CASE Len(outbuf[i]) >= BufSize
  <2>1. /\ wpc' = [wpc EXCEPT ![i] = "flush"] /\ complete' = [complete EXCEPT ![i] = FALSE]
        /\ UNCHANGED bufferVars
    <3>1. ~(Len(outbuf[i]) < BufSize)  BY <1>1, <1>5, PipeAssumption DEF TypeOK
    <3> QED  BY <3>1, <1>2 DEF Push, bufferVars
  <2>2. /\ wpc'[i] = "flush" /\ complete'[i] = FALSE
        /\ \A j \in Pipes : j # i => wpc'[j] = wpc[j] /\ complete'[j] = complete[j]
    BY <1>1, <2>1 DEF TypeOK
  <2>3. TypeOK'
    <3>1. wpc' \in [Pipes -> Places]  BY <1>1, <2>1 DEF TypeOK, Places
    <3>2. complete' \in [Pipes -> BOOLEAN]  BY <1>1, <2>1 DEF TypeOK
    <3> QED  BY <1>1, <1>2, <2>1, <3>1, <3>2 DEF TypeOK, Places, bufferVars
  <2>4. WorkerInv'
    <3>1. wpc[i] = "work" /\ UNCHANGED state  BY <1>2 DEF Push
    <3>2. state[i] = "processing"  BY <1>1, <3>1 DEF WorkerInv, StatesAt
    <3>3. state'[i] \in StatesAt(wpc'[i], complete'[i])  BY <2>2, <3>1, <3>2 DEF StatesAt
    <3>4. \A j \in Pipes : j # i => state'[j] \in StatesAt(wpc'[j], complete'[j])
      BY <1>1, <2>2, <3>1 DEF WorkerInv
    <3> QED  BY <3>3, <3>4 DEF WorkerInv
  <2>5. StartInv'
    <3>1. RunningIn(wpc') = RunningIn(wpc)  BY <1>2, <2>2 DEF RunningIn
    <3> QED  BY <1>1, <1>2, <2>2, <3>1 DEF StartInv
  <2>6. PhaseInv'  BY <1>1, <1>2, <2>2 DEF PhaseInv
  <2>7. BufferInv'  BY <1>1, <1>2, <2>1, <2>2 DEF BufferInv, bufferVars
  <2>8. OrderInv' /\ FlowInv'
    <3>1. \A j \in Pipes : ItemsOf(state', wpc', inbuf', outbuf', j)
                        \subseteq ItemsOf(state, wpc, inbuf, outbuf, j)
      BY <1>2, <2>1, <2>2 DEF ItemsOf, Working, bufferVars
    <3> QED  BY <1>1, <1>2, <3>1, OrderByWorker
  <2> QED  BY <1>1, <1>2, <2>3, <2>4, <2>5, <2>6, <2>7, <2>8 DEF PipeInv
<1>6. Len(outbuf[i]) < BufSize \/ Len(outbuf[i]) >= BufSize
  BY <1>1, PipeAssumption DEF TypeOK
<1> QED  BY <1>4, <1>5, <1>6


(* push_all() goes on to the next item. *)
LEMMA NextItemStep ==
  ASSUME PipeInv, NEW i \in Pipes, NextItem(i)
  PROVE  PipeInv'
<1> USE DEF workerVars, phaseVars, flowVars, mainVars
<1>1. /\ TypeOK /\ WorkerInv /\ StartInv /\ PhaseInv /\ BufferInv /\ OrderInv
      /\ FlowInv /\ ~fault
  BY DEF PipeInv
<1>2. /\ inbuf[i] # <<>> /\ inbuf[i] \in Seq(1..Items) /\ state[i] = "processing"
      /\ wpc[i] = "work"
      /\ inbuf' = [inbuf EXCEPT ![i] = Tail(@)] /\ emitted' = [emitted EXCEPT ![i] = 0]
      /\ UNCHANGED <<outbuf, workerVars, phaseVars, flowVars, mainVars, fault>>
  BY <1>1 DEF NextItem, TypeOK, WorkerInv, StatesAt
<1>3. inbuf'[i] = Tail(inbuf[i]) /\ \A j \in Pipes : j # i => inbuf'[j] = inbuf[j]
  BY <1>1, <1>2 DEF TypeOK
<1>4. /\ inbuf'[i] \in Seq(1..Items) /\ Len(inbuf'[i]) = Len(inbuf[i]) - 1
      /\ \A p \in 1..Len(inbuf'[i]) : inbuf'[i][p] = inbuf[i][p + 1]
  <2>1. ASSUME NEW s \in Seq(1..Items), s # <<>>
        PROVE  /\ Tail(s) \in Seq(1..Items) /\ Len(Tail(s)) = Len(s) - 1
               /\ \A p \in 1..Len(Tail(s)) : Tail(s)[p] = s[p + 1]
    BY <2>1, HeadTailProperties
  <2> QED  BY <1>2, <1>3, <2>1
<1>5. TypeOK'
  <2>1. inbuf' \in [Pipes -> Seq(1..Items)]  BY <1>1, <1>2, <1>3, <1>4 DEF TypeOK
  <2>2. emitted' \in [Pipes -> Nat]  BY <1>1, <1>2 DEF TypeOK
  <2> QED  BY <1>1, <1>2, <2>1, <2>2 DEF TypeOK
<1>6. WorkerInv' /\ StartInv' /\ PhaseInv'
  BY <1>1, <1>2 DEF WorkerInv, StartInv, PhaseInv
<1>7. BufferInv'  BY <1>1, <1>2, <1>3 DEF BufferInv
<1>8. OrderInv' /\ FlowInv'
  <2>1. ASSUME NEW p \in DOMAIN inbuf'[i]
        PROVE  p + 1 \in DOMAIN inbuf[i] /\ inbuf'[i][p] = inbuf[i][p + 1]
    BY <1>2, <1>4
  <2>2. \A j \in Pipes : ItemsOf(state', wpc', inbuf', outbuf', j)
                      \subseteq ItemsOf(state, wpc, inbuf, outbuf, j)
    BY <1>2, <1>3, <2>1 DEF ItemsOf, Working
  <2> QED  BY <1>1, <1>2, <2>2, OrderByWorker
<1> QED  BY <1>1, <1>2, <1>5, <1>6, <1>7, <1>8 DEF PipeInv

(* push_all() is through, and the buffer is flushed. *)
LEMMA PushAllDoneStep ==
  ASSUME PipeInv, NEW i \in Pipes, PushAllDone(i)
  PROVE  PipeInv'
<1> USE DEF bufferVars, phaseVars, flowVars, mainVars
<1>1. /\ TypeOK /\ WorkerInv /\ StartInv /\ PhaseInv /\ BufferInv /\ OrderInv
      /\ FlowInv /\ ~fault
  BY DEF PipeInv
<1>2. /\ inbuf[i] = <<>> /\ wpc[i] = "work" /\ state[i] = "processing"
      /\ wpc' = [wpc EXCEPT ![i] = "flush"] /\ complete' = [complete EXCEPT ![i] = TRUE]
      /\ UNCHANGED <<bufferVars, state, runningWorkers, eptr, phaseVars, flowVars,
                     mainVars, fault>>
  BY <1>1 DEF PushAllDone, TypeOK, WorkerInv, StatesAt
<1>3. /\ wpc'[i] = "flush" /\ complete'[i] = TRUE
      /\ \A j \in Pipes : j # i => wpc'[j] = wpc[j] /\ complete'[j] = complete[j]
  BY <1>1, <1>2 DEF TypeOK
<1>4. TypeOK'
  <2>1. wpc' \in [Pipes -> Places]  BY <1>1, <1>2 DEF TypeOK, Places
  <2>2. complete' \in [Pipes -> BOOLEAN]  BY <1>1, <1>2 DEF TypeOK
  <2> QED  BY <1>1, <1>2, <2>1, <2>2 DEF TypeOK, Places
<1>5. WorkerInv'
  <2>1. "processing" \in StatesAt("flush", TRUE)  BY DEF StatesAt
  <2> QED  BY <1>1, <1>2, <1>3, <2>1 DEF WorkerInv
<1>6. StartInv'
  <2>1. RunningIn(wpc') = RunningIn(wpc)  BY <1>2, <1>3 DEF RunningIn
  <2> QED  BY <1>1, <1>2, <1>3, <2>1 DEF StartInv
<1>7. PhaseInv'  BY <1>1, <1>2, <1>3 DEF PhaseInv
<1>8. BufferInv'  BY <1>1, <1>2, <1>3 DEF BufferInv
<1>9. OrderInv' /\ FlowInv'
  <2>1. \A j \in Pipes : ItemsOf(state', wpc', inbuf', outbuf', j)
                      \subseteq ItemsOf(state, wpc, inbuf, outbuf, j)
    BY <1>2, <1>3 DEF ItemsOf, Working
  <2> QED  BY <1>1, <1>2, <2>1, OrderByWorker
<1> QED  BY <1>1, <1>2, <1>4, <1>5, <1>6, <1>7, <1>8, <1>9 DEF PipeInv

(* A worker offers its output. *)
LEMMA FlushStep ==
  ASSUME PipeInv, NEW i \in Pipes, Flush(i)
  PROVE  PipeInv'
<1> USE DEF bufferVars, phaseVars, flowVars
<1> DEFINE to == IF complete[i] THEN "outputting" ELSE "partial_output"
<1>1. /\ TypeOK /\ WorkerInv /\ StartInv /\ PhaseInv /\ BufferInv /\ OrderInv
      /\ FlowInv /\ ~fault
  BY DEF PipeInv
<1>2. /\ wpc[i] = "flush" /\ state[i] = "processing" /\ ~fault' /\ fault' \in BOOLEAN
      /\ ~held
  BY <1>1 DEF Flush, Transition, WorkerInv, StatesAt
<1>3. /\ state' = [state EXCEPT ![i] = to] /\ wpc' = [wpc EXCEPT ![i] = "flushwait"]
      /\ mwait' = FALSE
      /\ UNCHANGED <<bufferVars, runningWorkers, eptr, complete, phaseVars, flowVars,
                     mpc, held>>
  BY <1>2 DEF Flush, Transition, NotifyProducer
<1>4. /\ state'[i] = to /\ wpc'[i] = "flushwait" /\ to \in Output /\ to \in States
      /\ complete[i] \in BOOLEAN /\ complete'[i] = complete[i]
      /\ \A j \in Pipes : j # i => wpc'[j] = wpc[j] /\ state'[j] = state[j]
  BY <1>1, <1>3 DEF TypeOK, Output, States
<1>5. TypeOK'
  <2>1. state' \in [Pipes -> States]  BY <1>1, <1>3, <1>4 DEF TypeOK
  <2>2. wpc' \in [Pipes -> Places]  BY <1>1, <1>3 DEF TypeOK, Places
  <2> QED  BY <1>1, <1>2, <1>3, <2>1, <2>2 DEF TypeOK, Places
<1>6. WorkerInv'
  <2>1. state'[i] \in StatesAt(wpc'[i], complete'[i])  BY <1>4 DEF StatesAt
  <2> HIDE DEF to
  <2> QED  BY <1>1, <1>3, <1>4, <2>1 DEF WorkerInv
<1>7. StartInv'
  <2>1. RunningIn(wpc') = RunningIn(wpc)  BY <1>2, <1>4 DEF RunningIn
  <2> QED  BY <1>1, <1>2, <1>3, <1>4, <2>1 DEF StartInv
<1>8. PhaseInv'  BY <1>1, <1>2, <1>3, <1>4 DEF PhaseInv
<1>9. BufferInv'  BY <1>1, <1>2, <1>3, <1>4 DEF BufferInv
<1>10. OrderInv' /\ FlowInv'
  <2>1. BusyIn(state') = BusyIn(state)  BY <1>2, <1>4 DEF BusyIn
  <2>2. \A j \in Pipes : ItemsOf(state', wpc', inbuf', outbuf', j)
                      \subseteq ItemsOf(state, wpc, inbuf, outbuf, j)
    BY <1>2, <1>3, <1>4 DEF ItemsOf, Working
  <2> QED  BY <1>1, <1>3, <2>1, <2>2, OrderByWorker
<1> QED  BY <1>2, <1>5, <1>6, <1>7, <1>8, <1>9, <1>10 DEF PipeInv

(* The output of a worker was consumed, or its wait was disturbed. *)
LEMMA FlushTestStep ==
  ASSUME PipeInv, NEW i \in Pipes, FlushTest(i)
  PROVE  PipeInv'
<1> USE DEF phaseVars, flowVars, mainVars
<1> DEFINE at == IF state[i] \in Output THEN "flushwait" ELSE
                 IF complete[i] THEN "loop" ELSE "work"
<1>1. /\ TypeOK /\ WorkerInv /\ StartInv /\ PhaseInv /\ BufferInv /\ OrderInv
      /\ FlowInv /\ ~fault
  BY DEF PipeInv
<1>2. /\ wpc[i] = "flushtest" /\ state[i] # "initializing" /\ complete[i] \in BOOLEAN
      /\ ~fault' /\ fault' \in BOOLEAN
      /\ state[i] \in StatesAt("flushtest", complete[i])
  BY <1>1 DEF FlushTest, WorkerInv, StatesAt, TypeOK
<1>3. /\ wpc' = [wpc EXCEPT ![i] = at]
      /\ outbuf' = IF state[i] \in Output THEN outbuf ELSE [outbuf EXCEPT ![i] = <<>>]
      /\ UNCHANGED <<inbuf, emitted, state, runningWorkers, eptr, complete,
                     phaseVars, flowVars, mainVars>>
  BY DEF FlushTest
<1>4. /\ wpc'[i] = at /\ at \in Places /\ \A j \in Pipes : j # i => wpc'[j] = wpc[j]
      /\ at \in {"flushwait", "loop", "work"}
      /\ outbuf'[i] = IF state[i] \in Output THEN outbuf[i] ELSE <<>>
      /\ \A j \in Pipes : j # i => outbuf'[j] = outbuf[j]
  BY <1>1, <1>3 DEF TypeOK, Places
<1>5. TypeOK'
  <2>1. wpc' \in [Pipes -> Places]  BY <1>1, <1>3, <1>4 DEF TypeOK, Places
  <2>2. outbuf' \in [Pipes -> Seq(1..Items)]
    <3>1. outbuf'[i] \in Seq(1..Items)  BY <1>1, <1>4, EmptySeq DEF TypeOK
    <3> QED  BY <1>1, <1>3, <1>4, <3>1 DEF TypeOK
  <2> QED  BY <1>1, <1>2, <1>3, <2>1, <2>2 DEF TypeOK, Places
<1>6. WorkerInv'
  <2>1. state[i] \in StatesAt(at, complete[i])  BY <1>2 DEF StatesAt, Output
  <2> HIDE DEF at
  <2> QED  BY <1>1, <1>3, <1>4, <2>1 DEF WorkerInv
<1>7. StartInv'
  <2>1. RunningIn(wpc') = RunningIn(wpc)  BY <1>2, <1>4 DEF RunningIn
  <2> QED  BY <1>1, <1>2, <1>3, <1>4, <2>1 DEF StartInv
<1>8. PhaseInv'  BY <1>1, <1>2, <1>3, <1>4 DEF PhaseInv
<1>9. BufferInv'  BY <1>1, <1>2, <1>3, <1>4 DEF BufferInv
<1>10. OrderInv' /\ FlowInv'
  <2>1. BusyIn(state') = BusyIn(state)  BY <1>3
  <2>2. outbuf'[i] = <<>> \/ (state[i] \in Output /\ outbuf'[i] = outbuf[i])
    BY <1>4
  <2>3. ASSUME NEW j \in Pipes
        PROVE  ItemsOf(state', wpc', inbuf', outbuf', j)
                 \subseteq ItemsOf(state, wpc, inbuf, outbuf, j)
    <3> HIDE DEF at
    <3>1. CASE j = i  BY <1>2, <1>3, <2>2, <3>1 DEF ItemsOf, Working
    <3>2. CASE j # i  BY <1>3, <1>4, <3>2 DEF ItemsOf, Working
    <3> QED  BY <3>1, <3>2
  <2> QED  BY <1>1, <1>3, <2>1, <2>3, OrderByWorker
<1> QED  BY <1>2, <1>5, <1>6, <1>7, <1>8, <1>9, <1>10 DEF PipeInv

(* A node of a worker throws. *)
LEMMA WorkerThrowStep ==
  ASSUME PipeInv, NEW i \in Pipes, WorkerThrow(i)
  PROVE  PipeInv'
<1> USE DEF bufferVars, phaseVars, flowVars, mainVars
<1>1. /\ TypeOK /\ WorkerInv /\ StartInv /\ PhaseInv /\ BufferInv /\ OrderInv
      /\ FlowInv /\ ~fault
  BY DEF PipeInv
<1>2. /\ wpc[i] = "work" /\ state[i] = "processing"
      /\ wpc' = [wpc EXCEPT ![i] = "catch"]
      /\ UNCHANGED <<bufferVars, state, runningWorkers, eptr, complete, phaseVars,
                     flowVars, mainVars, fault>>
  BY <1>1 DEF WorkerThrow, WorkerInv, StatesAt
<1>3. wpc'[i] = "catch" /\ \A j \in Pipes : j # i => wpc'[j] = wpc[j]
  BY <1>1, <1>2 DEF TypeOK
<1>4. TypeOK'
  <2>1. wpc' \in [Pipes -> Places]  BY <1>1, <1>2 DEF TypeOK, Places
  <2> QED  BY <1>1, <1>2, <2>1 DEF TypeOK, Places
<1>5. WorkerInv'  BY <1>1, <1>2, <1>3, ZenonT(60) DEF WorkerInv, StatesAt
<1>6. StartInv'
  <2>1. RunningIn(wpc') = RunningIn(wpc)  BY <1>2, <1>3 DEF RunningIn
  <2> QED  BY <1>1, <1>2, <1>3, <2>1 DEF StartInv
<1>7. PhaseInv'  BY <1>1, <1>2, <1>3 DEF PhaseInv
<1>8. BufferInv'  BY <1>1, <1>2, <1>3 DEF BufferInv
<1>9. OrderInv' /\ FlowInv'
  <2>1. \A j \in Pipes : ItemsOf(state', wpc', inbuf', outbuf', j)
                      \subseteq ItemsOf(state, wpc, inbuf, outbuf, j)
    BY <1>2, <1>3 DEF ItemsOf, Working
  <2> QED  BY <1>1, <1>2, <2>1, OrderByWorker
<1> QED  BY <1>1, <1>2, <1>4, <1>5, <1>6, <1>7, <1>8, <1>9 DEF PipeInv

(* before::worker() catches the exception: what the worker held is lost. *)
LEMMA WorkerCatchStep ==
  ASSUME PipeInv, NEW i \in Pipes, WorkerCatch(i)
  PROVE  PipeInv'
<1> USE DEF bufferVars, phaseVars, flowVars
<1>1. /\ TypeOK /\ WorkerInv /\ StartInv /\ PhaseInv /\ BufferInv /\ OrderInv
      /\ FlowInv /\ ~fault
  BY DEF PipeInv
<1>2. /\ wpc[i] = "catch" /\ state[i] = "processing" /\ ~held
      /\ ~fault' /\ fault' \in BOOLEAN
  BY <1>1 DEF WorkerCatch, Transition, WorkerInv, StatesAt
<1>3. /\ state' = [state EXCEPT ![i] = "idle"] /\ wpc' = [wpc EXCEPT ![i] = "wait"]
      /\ eptr' = TRUE /\ mwait' = FALSE
      /\ UNCHANGED <<bufferVars, runningWorkers, complete, phaseVars, flowVars, mpc,
                     held>>
  BY <1>2 DEF WorkerCatch, Transition, NotifyProducer
<1>4. /\ state'[i] = "idle" /\ wpc'[i] = "wait"
      /\ \A j \in Pipes : j # i => wpc'[j] = wpc[j] /\ state'[j] = state[j]
  BY <1>1, <1>3 DEF TypeOK
<1>5. TypeOK'
  <2>1. state' \in [Pipes -> States]  BY <1>1, <1>3 DEF TypeOK, States
  <2>2. wpc' \in [Pipes -> Places]  BY <1>1, <1>3 DEF TypeOK, Places
  <2> QED  BY <1>1, <1>2, <1>3, <2>1, <2>2 DEF TypeOK, Places
<1>6. WorkerInv'
  <2>1. "idle" \in StatesAt("wait", complete[i])  BY DEF StatesAt
  <2> QED  BY <1>1, <1>3, <1>4, <2>1 DEF WorkerInv
<1>7. StartInv'
  <2>1. RunningIn(wpc') = RunningIn(wpc)  BY <1>2, <1>4 DEF RunningIn
  <2> QED  BY <1>1, <1>2, <1>3, <1>4, <2>1 DEF StartInv
<1>8. PhaseInv'  BY <1>1, <1>2, <1>3, <1>4 DEF PhaseInv
<1>9. BufferInv'  BY <1>1, <1>2, <1>3, <1>4 DEF BufferInv
<1>10. OrderInv' /\ FlowInv'  BY <1>1, <1>3, OrderByWorker
<1> QED  BY <1>2, <1>5, <1>6, <1>7, <1>8, <1>9, <1>10 DEF PipeInv


-----------------------------------------------------------------------------
(* The steps of the main thread that leave the workers and their buffers     *)
(* alone.                                                                    *)

LEMMA QuietStep ==
  ASSUME PipeInv, ~fault', fault' \in BOOLEAN,
         UNCHANGED <<bufferVars, workerVars, maintainOrder, started, outputOrder, fed,
                     written>>,
         dying => dying',
         mpc' \in Phases, mwait' \in BOOLEAN, held' \in BOOLEAN, ending' \in BOOLEAN,
         dying' \in BOOLEAN, toEnd' = toEnd, joined' \in 0..NumJobs,
         out' \in Seq(1..Items + 1), result' \in {"none", "ok", "failed"},
         StartInv', PhaseInv'
  PROVE  PipeInv'
<1> USE DEF bufferVars, workerVars
<1>1. /\ TypeOK /\ WorkerInv /\ StartInv /\ PhaseInv /\ BufferInv /\ OrderInv
      /\ FlowInv /\ ~fault
  BY DEF PipeInv
<1>2. TypeOK'  BY <1>1 DEF TypeOK, Phases
<1>3. WorkerInv'  BY <1>1 DEF WorkerInv
<1>4. BufferInv'  BY <1>1 DEF BufferInv
<1>5. OrderInv' /\ FlowInv'  BY <1>1, OrderByWorker
<1> QED  BY <1>2, <1>3, <1>4, <1>5 DEF PipeInv

(* The main thread goes from one place to another; it has not started yet,   *)
(* or all of the threads run, or it gives up before a thread is started.     *)
LEMMA GoOnStart ==
  ASSUME PipeInv, UNCHANGED <<workerVars, started>>,
         \/ mpc' = "begin"
         \/ mpc # "begin" /\ (started = NumJobs \/ mpc' \notin {"feed", "full", "empty",
                                 "drain", "finish", "close", "ends"})
         \/ started = NumJobs /\ runningWorkers = NumJobs
         \/ started = 0 /\ mpc' = "dtor"
  PROVE  StartInv'
<1> USE DEF workerVars
<1>1. StartInv /\ TypeOK  BY DEF PipeInv
<1>2. mpc' # "begin" => started \in {0, NumJobs} /\ \A i \in Pipes : wpc[i] # "start"
  <2>1. CASE mpc # "begin"  BY <1>1, <2>1 DEF StartInv
  <2>2. CASE started = NumJobs /\ runningWorkers = NumJobs
    <3>1. RunningIn(wpc) = Pipes  BY <1>1, <2>2, RunningCount DEF StartInv
    <3>2. \A i \in Pipes : wpc[i] # "start"  BY <3>1 DEF RunningIn
    <3> QED  BY <2>2, <3>2
  <2>3. CASE started = 0
    <3>1. \A i \in Pipes : i > started  BY <2>3 DEF Pipes
    <3> QED  BY <1>1, <2>3, <3>1 DEF StartInv
  <2> QED  BY <2>1, <2>2, <2>3
<1>3. mpc' \in {"feed", "full", "empty", "drain", "finish", "close", "ends"} => started = NumJobs
  BY <1>1 DEF StartInv
<1> QED  BY <1>1, <1>2, <1>3 DEF StartInv

LEMMA BeginThrowStep ==
  ASSUME PipeInv, BeginThrows \subseteq {0}, BeginThrow
  PROVE  PipeInv'
<1> USE DEF bufferVars, workerVars, flowVars
<1>1. started = 0 /\ started \in 0..NumJobs  BY DEF BeginThrow, PipeInv, TypeOK
<1>2. StartInv'  BY <1>1, GoOnStart DEF BeginThrow
<1>3. PhaseInv'  BY DEF BeginThrow, PipeInv, PhaseInv
<1> QED  BY <1>2, <1>3, QuietStep DEF BeginThrow, PipeInv, TypeOK, Phases

LEMMA ProducerBeginStep ==
  ASSUME PipeInv, ProducerBegin
  PROVE  PipeInv'
<1> USE DEF bufferVars, workerVars, flowVars, phaseVars, GoOn, Wait
<1>1. StartInv'
  <2>1. CASE runningWorkers = NumJobs  BY <2>1, GoOnStart DEF ProducerBegin
  <2>2. CASE runningWorkers # NumJobs  BY <2>2, GoOnStart DEF ProducerBegin
  <2> QED  BY <2>1, <2>2
<1>2. PhaseInv'  BY DEF ProducerBegin, PipeInv, PhaseInv
<1> QED  BY <1>1, <1>2, QuietStep DEF ProducerBegin, PipeInv, TypeOK, Phases

LEMMA FeedFullStep ==
  ASSUME PipeInv, FeedFull
  PROVE  PipeInv'
<1> USE DEF bufferVars, workerVars, flowVars, phaseVars, GoOn, Wait
<1>1. StartInv'
  <2>1. mpc # "begin" /\ started = NumJobs  BY DEF FeedFull, PipeInv, StartInv
  <2> QED  BY <2>1, GoOnStart DEF FeedFull
<1>2. PhaseInv'  BY DEF FeedFull, PipeInv, PhaseInv
<1> QED  BY <1>1, <1>2, QuietStep DEF FeedFull, PipeInv, TypeOK, Phases

LEMMA EndCallStep ==
  ASSUME PipeInv, EndCall
  PROVE  PipeInv'
<1> USE DEF bufferVars, workerVars, flowVars, phaseVars, GoOn, Wait
<1>1. StartInv'
  <2>1. mpc # "begin" /\ started = NumJobs  BY DEF EndCall, PipeInv, StartInv
  <2> QED  BY <2>1, GoOnStart DEF EndCall
<1>2. PhaseInv'  BY DEF EndCall, PipeInv, PhaseInv
<1> QED  BY <1>1, <1>2, QuietStep DEF EndCall, PipeInv, TypeOK, Phases

LEMMA FeedThrowStep ==
  ASSUME PipeInv, FeedThrow
  PROVE  PipeInv'
<1> USE DEF bufferVars, workerVars, flowVars, phaseVars, GoOn, Wait
<1>1. StartInv'  BY GoOnStart DEF FeedThrow
<1>2. PhaseInv'  BY DEF FeedThrow, PipeInv, PhaseInv
<1> QED  BY <1>1, <1>2, QuietStep DEF FeedThrow, PipeInv, TypeOK, Phases

LEMMA CloseWorkersStep ==
  ASSUME PipeInv, CloseWorkers
  PROVE  PipeInv'
<1> USE DEF bufferVars, workerVars, flowVars, phaseVars, GoOn, Wait
<1>1. StartInv'
  <2>1. mpc # "begin" /\ started = NumJobs  BY DEF CloseWorkers, PipeInv, StartInv
  <2> QED  BY <2>1, GoOnStart DEF CloseWorkers
<1>2. PhaseInv'  BY DEF CloseWorkers, PipeInv, PhaseInv
<1> QED  BY <1>1, <1>2, QuietStep DEF CloseWorkers, PipeInv, TypeOK, Phases

LEMMA EndThrowStep ==
  ASSUME PipeInv, EndThrow
  PROVE  PipeInv'
<1> USE DEF bufferVars, workerVars, flowVars, phaseVars, GoOn, Wait
<1>1. StartInv'  BY GoOnStart DEF EndThrow
<1>2. PhaseInv'  BY DEF EndThrow, PipeInv, PhaseInv
<1> QED  BY <1>1, <1>2, QuietStep DEF EndThrow, PipeInv, TypeOK, Phases

LEMMA PhaseDoneStep ==
  ASSUME PipeInv, PhaseDone
  PROVE  PipeInv'
<1> USE DEF bufferVars, workerVars, flowVars, phaseVars, GoOn, Wait
<1>1. StartInv'  BY GoOnStart DEF PhaseDone
<1>2. PhaseInv'  BY DEF PhaseDone, PipeInv, PhaseInv
<1> QED  BY <1>1, <1>2, QuietStep DEF PhaseDone, PipeInv, TypeOK, Phases

LEMMA DestroyStep ==
  ASSUME PipeInv, Destroy
  PROVE  PipeInv'
<1> USE DEF bufferVars, workerVars, flowVars, phaseVars, GoOn, Wait
<1>1. StartInv'  BY GoOnStart DEF Destroy
<1>2. PhaseInv'  BY DEF Destroy, PipeInv, PhaseInv
<1> QED  BY <1>1, <1>2, QuietStep DEF Destroy, PipeInv, TypeOK, Phases

(* No worker runs any more: ~producer goes on to ~before. *)
LEMMA StopReturnStep ==
  ASSUME PipeInv, mpc \in {"stop", "stopped"}, runningWorkers = 0, StopReturn,
         UNCHANGED <<bufferVars, workerVars, maintainOrder, ending, dying, started,
                     toEnd, joined, flowVars, fault>>
  PROVE  PipeInv'
<1> USE DEF bufferVars, workerVars, flowVars, phaseVars, GoOn, Wait
<1>1. StartInv'  BY GoOnStart DEF StopReturn
<1>2. \A i \in Pipes : wpc[i] \in {"none", "exit"}
  <2>1. StartInv  BY DEF PipeInv
  <2>2. RunningIn(wpc) = {}  BY <2>1, RunningCount DEF StartInv
  <2> QED  BY <2>1, <2>2 DEF StartInv, RunningIn
<1>3. 0 < NumJobs  BY PipeAssumption
<1>4. PhaseInv /\ joined = 0  BY DEF PipeInv, PhaseInv
<1>5. PhaseInv'
  <2>1. CASE dying
    <3>1. mpc' = "join"  BY <2>1 DEF StopReturn
    <3> QED  BY <1>2, <1>3, <1>4, <2>1, <3>1 DEF PhaseInv
  <2>2. CASE ~dying
    <3>1. mpc' = "dtor"  BY <2>2 DEF StopReturn
    <3> QED  BY <1>2, <1>3, <1>4, <2>2, <3>1 DEF PhaseInv
  <2> QED  BY <2>1, <2>2
<1>6. mpc' \in Phases /\ held' = FALSE /\ mwait' = mwait
      /\ result' \in {"none", "ok", "failed"}
  BY DEF StopReturn, Phases, PipeInv, TypeOK
<1> QED  BY <1>1, <1>5, <1>6, QuietStep DEF PipeInv, TypeOK

LEMMA StopWaitStep ==
  ASSUME PipeInv, StopWait
  PROVE  PipeInv'
<1> USE DEF bufferVars, workerVars, flowVars, phaseVars, GoOn, Wait
<1>1. CASE runningWorkers = 0
  BY <1>1, StopReturnStep DEF StopWait
<1>2. CASE runningWorkers # 0
  <2>1. StartInv'  BY <1>2, GoOnStart DEF StopWait
  <2>2. PhaseInv'  BY <1>2 DEF StopWait, PipeInv, PhaseInv
  <2> QED  BY <1>2, <2>1, <2>2, QuietStep DEF StopWait, PipeInv, TypeOK, Phases
<1> QED  BY <1>1, <1>2

LEMMA JoinLockStep ==
  ASSUME PipeInv, JoinLock
  PROVE  PipeInv'
<1> USE DEF bufferVars, workerVars, flowVars, phaseVars, GoOn, Wait
<1>1. StartInv'  BY GoOnStart DEF JoinLock
<1>2. PhaseInv'  BY DEF JoinLock, PipeInv, PhaseInv
<1>3. ~fault' /\ fault' \in BOOLEAN
  <2>1. joined + 1 \in Pipes  BY PipeAssumption DEF JoinLock, PipeInv, TypeOK, Pipes
  <2>2. wpc[joined + 1] \in {"none", "exit"}  BY <2>1 DEF JoinLock, PipeInv, PhaseInv
  <2>3. state[joined + 1] \in {"initializing", "done"}
    BY <2>1, <2>2 DEF PipeInv, WorkerInv, StatesAt
  <2> QED  BY <2>3 DEF JoinLock
<1> QED  BY <1>1, <1>2, <1>3, QuietStep DEF JoinLock, PipeInv, TypeOK, Phases

LEMMA JoinedStep ==
  ASSUME PipeInv, Joined
  PROVE  PipeInv'
<1> USE DEF bufferVars, workerVars, flowVars, phaseVars, GoOn, Wait
<1>1. StartInv'  BY GoOnStart DEF Joined
<1>2. joined' \in 0..NumJobs
  BY PipeAssumption DEF Joined, PipeInv, TypeOK, PhaseInv
<1>3. PhaseInv'
  <2>1. /\ mpc' \in {"join", "over"} /\ (mpc' = "join" => joined' < NumJobs)
        /\ UNCHANGED <<state, wpc, dying>> /\ mpc = "joining"
    BY DEF Joined
  <2> QED  BY <2>1 DEF PipeInv, PhaseInv
<1> QED  BY <1>1, <1>2, <1>3, QuietStep DEF Joined, PipeInv, TypeOK, Phases


-----------------------------------------------------------------------------
(* The steps that feed the pipe. *)

LEMMA StartThreadStep ==
  ASSUME PipeInv, StartThread
  PROVE  PipeInv'
<1> USE DEF bufferVars, flowVars, mainVars
<1> DEFINE i == started + 1
<1>1. /\ TypeOK /\ WorkerInv /\ StartInv /\ PhaseInv /\ BufferInv /\ OrderInv
      /\ FlowInv /\ ~fault
  BY DEF PipeInv
<1>2. i \in Pipes /\ started \in Nat  BY <1>1, PipeAssumption DEF StartThread, TypeOK, Pipes
<1>3. wpc[i] = "none"  BY <1>1, <1>2 DEF StartInv
<1>4. /\ started' = i /\ wpc' = [wpc EXCEPT ![i] = "start"]
      /\ mpc = "begin" /\ started < NumJobs
      /\ UNCHANGED <<bufferVars, state, runningWorkers, eptr, complete, maintainOrder,
                     ending, dying, toEnd, joined, result, flowVars, mainVars, fault>>
  BY DEF StartThread
<1> HIDE DEF i
<1>5. wpc'[i] = "start" /\ \A j \in Pipes : j # i => wpc'[j] = wpc[j]
  BY <1>1, <1>4, <1>2 DEF TypeOK
<1>6. TypeOK'
  <2>1. wpc' \in [Pipes -> Places]  BY <1>1, <1>4 DEF TypeOK, Places
  <2>2. started' \in 0..NumJobs  BY <1>2, <1>4 DEF Pipes
  <2> QED  BY <1>1, <1>4, <2>1, <2>2 DEF TypeOK, Places
<1>7. WorkerInv'
  <2>1. \A c : StatesAt("start", c) = StatesAt("none", c)  BY DEF StatesAt
  <2> QED  BY <1>1, <1>3, <1>4, <1>5, <2>1 DEF WorkerInv
<1>8. StartInv'
  <2>1. RunningIn(wpc') = RunningIn(wpc)  BY <1>3, <1>5 DEF RunningIn
  <2>2. \A j \in Pipes : wpc'[j] = "none" <=> j > started'
    <3>1. i = started + 1  BY DEF i
    <3>2. \A j \in Pipes : wpc[j] = "none" <=> j > started  BY <1>1 DEF StartInv
    <3>3. \A j \in Pipes : j # i => (j > started <=> j > i)  BY <1>2, <3>1 DEF Pipes
    <3>4. ~(i > i)  BY <1>2 DEF Pipes
    <3> QED  BY <1>4, <1>5, <3>2, <3>3, <3>4
  <2> QED  BY <1>1, <1>4, <2>1, <2>2 DEF StartInv
<1>9. PhaseInv'  BY <1>1, <1>4 DEF PhaseInv
<1>10. BufferInv'  BY <1>1, <1>3, <1>4, <1>5 DEF BufferInv
<1>11. OrderInv' /\ FlowInv'
  <2>1. \A j \in Pipes : ItemsOf(state', wpc', inbuf', outbuf', j)
                      \subseteq ItemsOf(state, wpc, inbuf, outbuf, j)
    BY <1>4, <1>5 DEF ItemsOf, Working
  <2> QED  BY <1>1, <1>4, <2>1, OrderByWorker
<1> QED  BY <1>1, <1>4, <1>6, <1>7, <1>8, <1>9, <1>10, <1>11 DEF PipeInv

(* The source pushes the next item. *)
LEMMA FeedStep ==
  ASSUME PipeInv, Feed
  PROVE  PipeInv'
<1> USE DEF bufferVars, workerVars, phaseVars
<1>1. /\ TypeOK /\ WorkerInv /\ StartInv /\ PhaseInv /\ BufferInv /\ OrderInv
      /\ FlowInv /\ ~fault
  BY DEF PipeInv
<1>2. /\ mpc = "feed" /\ mpc' \in {"feed", "full"} /\ fed < Items /\ fed' = fed + 1
      /\ UNCHANGED <<bufferVars, workerVars, phaseVars, out, outputOrder, mwait, held,
                     fault>>
      /\ written' = Append(written, fed + 1)
  BY DEF Feed
<1>3. fed \in Nat /\ fed' \in 1..Items /\ written \in Seq(1..Items)
  BY <1>1, <1>2, PipeAssumption DEF TypeOK
<1>4. /\ written' \in Seq(1..Items) /\ Len(written') = Len(written) + 1
      /\ \A k \in 1..Len(written) : written'[k] = written[k]
      /\ written'[Len(written) + 1] = fed'
  BY <1>2, <1>3, AppendProperties
<1>5. TypeOK'  BY <1>1, <1>2, <1>3, <1>4 DEF TypeOK
<1>6. WorkerInv' /\ BufferInv' /\ StartInv'
  BY <1>1, <1>2 DEF WorkerInv, BufferInv, StartInv
<1>7. PhaseInv'  BY <1>1, <1>2 DEF PhaseInv
<1>8. OrderInv'  BY <1>1, <1>2 DEF OrderInv
<1>9. FlowInv'
  <2>1. fed' - Len(written') = fed - Len(written) /\ Len(written') <= fed'
    BY <1>1, <1>2, <1>3, <1>4 DEF FlowInv
  <2>2. \A k \in DOMAIN written' : written'[k] = fed' - Len(written') + k
    BY <1>1, <1>2, <1>3, <1>4, <2>1 DEF FlowInv
  <2> QED  BY <1>1, <1>2, <2>1, <2>2 DEF FlowInv
<1> QED  BY <1>1, <1>2, <1>5, <1>6, <1>7, <1>8, <1>9 DEF PipeInv

(* A notified worker. *)
Told(w) == IF w = "wait" THEN "loop" ELSE IF w = "flushwait" THEN "flushtest" ELSE w

LEMMA NotifyFacts ==
  ASSUME TypeOK, NEW i \in Pipes, NotifyWorker(i) \/ UNCHANGED wpc
  PROVE  /\ wpc' \in [Pipes -> Places]
         /\ wpc'[i] = Told(wpc[i]) \/ wpc'[i] = wpc[i]
         /\ NotifyWorker(i) => wpc'[i] = Told(wpc[i])
         /\ \A j \in Pipes : j # i => wpc'[j] = wpc[j]
         /\ RunningIn(wpc') = RunningIn(wpc)
         /\ \A j \in Pipes : wpc'[j] \in Working <=> wpc[j] \in Working
         /\ \A j \in Pipes : wpc'[j] = "start" <=> wpc[j] = "start"
         /\ \A j \in Pipes : wpc'[j] = "none" <=> wpc[j] = "none"
<1>1. wpc \in [Pipes -> Places]  BY DEF TypeOK, Places
<1>2. wpc' \in [Pipes -> Places]  BY <1>1 DEF NotifyWorker, Places
<1>3. wpc'[i] = Told(wpc[i]) \/ wpc'[i] = wpc[i]  BY <1>1 DEF NotifyWorker, Told
<1>4. NotifyWorker(i) => wpc'[i] = Told(wpc[i])  BY <1>1 DEF NotifyWorker, Told
<1>5. \A j \in Pipes : j # i => wpc'[j] = wpc[j]  BY <1>1 DEF NotifyWorker
<1> QED  BY <1>2, <1>3, <1>4, <1>5 DEF Told, RunningIn, Working

(* An idle worker gets the input buffer. *)
LEMMA SendStep ==
  ASSUME PipeInv, NEW i \in Pipes, mpc = "empty", ~eptr, state[i] = "idle", Send(i)
  PROVE  PipeInv'
<1> USE DEF phaseVars, GoOn
<1>1. /\ TypeOK /\ WorkerInv /\ StartInv /\ PhaseInv /\ BufferInv /\ OrderInv
      /\ FlowInv /\ ~fault
  BY DEF PipeInv
<1>2. /\ ~fault' /\ fault' \in BOOLEAN /\ state' = [state EXCEPT ![i] = "processing"]
      /\ inbuf' = [inbuf EXCEPT ![i] = written] /\ emitted' = [emitted EXCEPT ![i] = 0]
      /\ NotifyWorker(i) /\ written' = <<>> /\ mpc' = "empty" /\ held' = TRUE
      /\ outputOrder' = IF maintainOrder THEN Append(outputOrder, i) ELSE outputOrder
      /\ UNCHANGED <<mwait, outbuf, runningWorkers, eptr, complete, phaseVars, fed, out>>
  BY DEF Send, Transition
<1>3. /\ state'[i] = "processing" /\ inbuf'[i] = written
      /\ \A j \in Pipes : j # i => state'[j] = state[j] /\ inbuf'[j] = inbuf[j]
      /\ written \in Seq(1..Items) /\ outputOrder \in Seq(Pipes) /\ fed \in Nat
  BY <1>1, <1>2 DEF TypeOK
<1>4. /\ wpc' \in [Pipes -> Places] /\ wpc'[i] = Told(wpc[i])
      /\ \A j \in Pipes : j # i => wpc'[j] = wpc[j]
      /\ RunningIn(wpc') = RunningIn(wpc)
      /\ \A j \in Pipes : wpc'[j] \in Working <=> wpc[j] \in Working
      /\ \A j \in Pipes : wpc'[j] = "start" <=> wpc[j] = "start"
      /\ \A j \in Pipes : wpc'[j] = "none" <=> wpc[j] = "none"
  BY <1>1, <1>2, NotifyFacts
<1>5. /\ \/ wpc[i] \in {"wait", "loop"}
         \/ wpc[i] \in {"flushwait", "flushtest"} /\ complete[i]
      /\ complete'[i] = complete[i]
  <2>1. state[i] \in StatesAt(wpc[i], complete[i])  BY <1>1 DEF WorkerInv
  <2>2. wpc[i] \in Places /\ complete[i] \in BOOLEAN  BY <1>1 DEF TypeOK, Places
  <2> QED  BY <1>2, <2>1, <2>2 DEF StatesAt, Places
<1>6. TypeOK'
  <2>1. state' \in [Pipes -> States]  BY <1>1, <1>2 DEF TypeOK, States
  <2>2. inbuf' \in [Pipes -> Seq(1..Items)]  BY <1>1, <1>2, <1>3 DEF TypeOK
  <2>3. emitted' \in [Pipes -> Nat]  BY <1>1, <1>2 DEF TypeOK
  <2>4. outputOrder' \in Seq(Pipes)  BY <1>2, <1>3, AppendProperties
  <2>5. written' \in Seq(1..Items)  BY <1>2, EmptySeq
  <2> QED  BY <1>1, <1>2, <1>4, <2>1, <2>2, <2>3, <2>4, <2>5 DEF TypeOK, Places
<1>7. WorkerInv'
  <2>1. "processing" \in StatesAt(Told(wpc[i]), complete[i])
    BY <1>5 DEF StatesAt, Told
  <2> QED  BY <1>1, <1>2, <1>3, <1>4, <2>1 DEF WorkerInv
<1>8. StartInv'  BY <1>1, <1>2, <1>4 DEF StartInv
<1>9. PhaseInv'  BY <1>1, <1>2, <1>3, <1>4 DEF PhaseInv
<1>10. BufferInv'
  <2>1. wpc'[i] # "flush" /\ (wpc'[i] = "loop" => wpc[i] \in {"wait", "loop"})
        /\ (wpc'[i] \notin {"none", "start", "wait", "exit"})
    BY <1>4, <1>5 DEF Told
  <2> QED  BY <1>1, <1>2, <1>3, <1>4, <2>1 DEF BufferInv
<1>11. /\ \A j \in Pipes : j # i =>
            ItemsOf(state', wpc', inbuf', outbuf', j) = ItemsOf(state, wpc, inbuf, outbuf, j)
       /\ \A x \in ItemsOf(state', wpc', inbuf', outbuf', i) :
            \E p \in DOMAIN written : written[p] = x
  BY <1>2, <1>3, <1>4, <1>5, SMTT(30) DEF ItemsOf, Working, Output
<1>12. /\ \A j \in Pipes : \A x \in ItemsOf(state, wpc, inbuf, outbuf, j) :
            x <= fed - Len(written)
       /\ Len(written) <= fed /\ Len(written) \in Nat
       /\ \A p \in DOMAIN written : written[p] = fed - Len(written) + p /\ p >= 1
                                    /\ p <= Len(written) /\ p \in Nat
  BY <1>1, <1>3 DEF FlowInv
<1>13. \A j \in Pipes : \A x \in ItemsOf(state, wpc, inbuf, outbuf, j) : x \in Nat
  BY PipeAssumption DEF ItemsOf, Working
<1>14. FlowInv'
  <2>1. Len(written') = 0 /\ DOMAIN written' = {}  BY <1>2, EmptySeq
  <2>2. \A j \in Pipes : \A x \in ItemsOf(state', wpc', inbuf', outbuf', j) : x <= fed
    BY <1>3, <1>11, <1>12, <1>13
  <2>3. fed' = fed /\ fed' - Len(written') = fed /\ Len(written') <= fed'
    BY <1>2, <1>3, <2>1
  <2>4. \A k \in DOMAIN written' : written'[k] = fed' - Len(written') + k
    BY <2>1
  <2> QED  BY <2>2, <2>3, <2>4 DEF FlowInv
<1>15. OrderInv'
  <2> SUFFICES ASSUME maintainOrder PROVE InOrder(state', wpc', inbuf', outbuf', outputOrder')
    BY <1>2 DEF OrderInv
  <2>1. ~dying /\ InOrder(state, wpc, inbuf, outbuf, outputOrder)
    BY <1>1 DEF OrderInv, PhaseInv
  <2>2. /\ outputOrder' = Append(outputOrder, i)
        /\ Len(outputOrder') = Len(outputOrder) + 1 /\ outputOrder' \in Seq(Pipes)
        /\ \A k \in 1..Len(outputOrder) : outputOrder'[k] = outputOrder[k]
        /\ outputOrder'[Len(outputOrder) + 1] = i
    BY <1>2, <1>3, AppendProperties
  <2>3. /\ Len(outputOrder) \in Nat /\ DOMAIN outputOrder = 1..Len(outputOrder)
        /\ DOMAIN outputOrder' = 1..(Len(outputOrder) + 1)
        /\ \A k \in DOMAIN outputOrder : outputOrder[k] \in Pipes
    BY <1>3, <2>2
  <2>4. BusyIn(state') = BusyIn(state) \cup {i} /\ i \notin BusyIn(state)
    BY <1>3 DEF BusyIn, Output
  <2>5. BusyIn(state) = {outputOrder[k] : k \in DOMAIN outputOrder}  BY <2>1 DEF InOrder
  <2>6. BusyIn(state') = {outputOrder'[k] : k \in DOMAIN outputOrder'}
    <3>1. {outputOrder'[k] : k \in DOMAIN outputOrder'}
             = {outputOrder[k] : k \in DOMAIN outputOrder} \cup {i}
      <4>1. \A k \in DOMAIN outputOrder' : k \in DOMAIN outputOrder \/ k = Len(outputOrder) + 1
        BY <2>3
      <4>2. DOMAIN outputOrder \subseteq DOMAIN outputOrder'
            /\ Len(outputOrder) + 1 \in DOMAIN outputOrder'
        BY <2>3
      <4> QED  BY <2>2, <2>3, <4>1, <4>2
    <3> QED  BY <2>4, <2>5, <3>1
  <2>7. ASSUME NEW k \in DOMAIN outputOrder', NEW l \in DOMAIN outputOrder', k < l
        PROVE  /\ outputOrder'[k] # outputOrder'[l]
               /\ \A x \in ItemsOf(state', wpc', inbuf', outbuf', outputOrder'[k]),
                     y \in ItemsOf(state', wpc', inbuf', outbuf', outputOrder'[l]) : x < y
    <3>1. /\ k \in DOMAIN outputOrder /\ outputOrder'[k] = outputOrder[k]
          /\ outputOrder[k] \in Pipes
      BY <2>2, <2>3, <2>7
    <3>2. outputOrder[k] # i  BY <2>4, <2>5, <3>1
    <3>3. CASE l \in DOMAIN outputOrder
      <4>1. outputOrder'[l] = outputOrder[l] /\ outputOrder[l] \in Pipes
        BY <2>2, <2>3, <3>3
      <4>2. outputOrder[l] # i  BY <2>4, <2>5, <3>3
      <4> QED  BY <1>11, <2>1, <2>7, <3>1, <3>2, <3>3, <4>1, <4>2 DEF InOrder
    <3>4. CASE l = Len(outputOrder) + 1
      <4>1. outputOrder'[l] = i  BY <2>2, <3>4
      <4>2. ASSUME NEW x \in ItemsOf(state, wpc, inbuf, outbuf, outputOrder[k]),
                   NEW y \in ItemsOf(state', wpc', inbuf', outbuf', i)
            PROVE  x < y
        <5>1. x <= fed - Len(written) /\ x \in Nat  BY <1>12, <1>13, <3>1
        <5>2. PICK p \in DOMAIN written : written[p] = y  BY <1>11
        <5>3. y = fed - Len(written) + p /\ p >= 1 /\ p \in Nat  BY <1>12, <5>2
        <5> QED  BY <1>3, <1>12, <5>1, <5>3
      <4> QED  BY <1>11, <3>1, <3>2, <4>1, <4>2
    <3> QED  BY <2>3, <3>3, <3>4
  <2> QED  BY <2>6, <2>7 DEF InOrder
<1> QED  BY <1>2, <1>6, <1>7, <1>8, <1>9, <1>10, <1>14, <1>15 DEF PipeInv


-----------------------------------------------------------------------------
(* The steps that fetch outputs. *)

LEMMA FirstOrderLeaves ==
  ASSUME NEW st, NEW w, NEW ib, NEW ob, NEW order \in Seq(Pipes), order # <<>>,
         NEW st2, NEW w2, NEW ib2, NEW ob2,
         InOrder(st, w, ib, ob, order),
         BusyIn(st2) = BusyIn(st) \ {Head(order)},
         \A j \in Pipes : ItemsOf(st2, w2, ib2, ob2, j) \subseteq ItemsOf(st, w, ib, ob, j)
  PROVE  InOrder(st2, w2, ib2, ob2, Tail(order))
<1>1. /\ Head(order) = order[1] /\ Len(order) \in Nat /\ Len(order) >= 1
      /\ DOMAIN order = 1..Len(order) /\ 1 \in DOMAIN order
  BY HeadIs
<1>2. /\ Tail(order) \in Seq(Pipes) /\ Len(Tail(order)) = Len(order) - 1
      /\ \A k \in 1..Len(Tail(order)) : Tail(order)[k] = order[k + 1]
  BY HeadTailProperties
<1>3. DOMAIN Tail(order) = 1..(Len(order) - 1)  BY <1>2
<1>4. \A k \in DOMAIN Tail(order) :
        k + 1 \in DOMAIN order /\ Tail(order)[k] = order[k + 1] /\ 1 < k + 1
  BY <1>1, <1>2, <1>3
<1>5. \A k \in DOMAIN order : k # 1 =>
        k - 1 \in DOMAIN Tail(order) /\ Tail(order)[k - 1] = order[k]
  BY <1>1, <1>2, <1>3
<1>6. BusyIn(st2) = {Tail(order)[k] : k \in DOMAIN Tail(order)}
  <2>1. BusyIn(st) = {order[k] : k \in DOMAIN order}  BY DEF InOrder
  <2>2. \A k \in DOMAIN order : k # 1 => order[k] # order[1]
    <3>1. \A k \in DOMAIN order : k # 1 => 1 < k  BY <1>1
    <3> QED  BY <1>1, <3>1 DEF InOrder
  <2>3. ASSUME NEW x \in BusyIn(st2) PROVE x \in {Tail(order)[k] : k \in DOMAIN Tail(order)}
    <3>1. PICK k \in DOMAIN order : x = order[k]  BY <2>1
    <3>2. k # 1  BY <1>1, <3>1
    <3> QED  BY <1>5, <3>1, <3>2
  <2>4. ASSUME NEW k \in DOMAIN Tail(order) PROVE Tail(order)[k] \in BusyIn(st2)
    <3>1. k + 1 \in DOMAIN order /\ k + 1 # 1 /\ Tail(order)[k] = order[k + 1]
      BY <1>3, <1>4
    <3> QED  BY <1>1, <2>1, <2>2, <3>1
  <2> QED  BY <2>3, <2>4
<1>7. ASSUME NEW k \in DOMAIN Tail(order), NEW l \in DOMAIN Tail(order), k < l
      PROVE  /\ Tail(order)[k] # Tail(order)[l]
             /\ \A x \in ItemsOf(st2, w2, ib2, ob2, Tail(order)[k]),
                   y \in ItemsOf(st2, w2, ib2, ob2, Tail(order)[l]) : x < y
  <2>1. k + 1 < l + 1  BY <1>3, <1>7
  <2>2. order[k + 1] \in Pipes /\ order[l + 1] \in Pipes  BY <1>4
  <2> QED  BY <1>4, <2>1, <2>2 DEF InOrder
<1> QED  BY <1>6, <1>7 DEF InOrder

(* The main thread takes what worker i offers, whatever it does with it. *)
LEMMA Taken ==
  ASSUME PipeInv, NEW i \in Pipes, state[i] \in Output, ~fault',
         IF state[i] = "partial_output"
         THEN Transition(i, "partial_output", "processing") /\ NotifyWorker(i)
         ELSE Transition(i, "outputting", "idle") /\ (NotifyWorker(i) \/ UNCHANGED wpc),
         UNCHANGED <<bufferVars, runningWorkers, eptr, complete, started>>, mpc' = mpc
  PROVE  /\ state' \in [Pipes -> States] /\ wpc' \in [Pipes -> Places]
         /\ \A j \in Pipes : j # i => state'[j] = state[j] /\ wpc'[j] = wpc[j]
         /\ state'[i] = IF state[i] = "partial_output" THEN "processing" ELSE "idle"
         /\ \A j \in Pipes : wpc'[j] = "start" <=> wpc[j] = "start"
         /\ \A j \in Pipes : wpc'[j] \in {"none", "exit"} <=> wpc[j] \in {"none", "exit"}
         /\ WorkerInv' /\ StartInv' /\ BufferInv'
         /\ \A j \in Pipes : ItemsOf(state', wpc', inbuf', outbuf', j)
                            \subseteq ItemsOf(state, wpc, inbuf, outbuf, j)
<1> USE DEF bufferVars
<1> DEFINE to == IF state[i] = "partial_output" THEN "processing" ELSE "idle"
<1>1. TypeOK /\ WorkerInv /\ StartInv /\ BufferInv
  BY DEF PipeInv
<1>2. /\ state' = [state EXCEPT ![i] = to]
      /\ state[i] = "partial_output" => NotifyWorker(i)
      /\ NotifyWorker(i) \/ UNCHANGED wpc
  BY DEF Transition, Output
<1>3. /\ state'[i] = to /\ to \in {"processing", "idle"}
      /\ \A j \in Pipes : j # i => state'[j] = state[j]
  BY <1>1, <1>2 DEF TypeOK
<1>4. /\ wpc' \in [Pipes -> Places]
      /\ wpc'[i] = Told(wpc[i]) \/ wpc'[i] = wpc[i]
      /\ \A j \in Pipes : j # i => wpc'[j] = wpc[j]
      /\ RunningIn(wpc') = RunningIn(wpc)
      /\ \A j \in Pipes : wpc'[j] \in Working <=> wpc[j] \in Working
      /\ \A j \in Pipes : wpc'[j] = "start" <=> wpc[j] = "start"
      /\ \A j \in Pipes : wpc'[j] = "none" <=> wpc[j] = "none"
  BY <1>1, <1>2, NotifyFacts
<1>5. /\ wpc[i] \in {"flushwait", "flushtest"} /\ wpc'[i] \in {"flushwait", "flushtest"}
      /\ complete'[i] = complete[i] /\ complete[i] \in BOOLEAN
      /\ complete[i] <=> state[i] # "partial_output"
  <2>1. state[i] \in StatesAt(wpc[i], complete[i])  BY <1>1 DEF WorkerInv
  <2>2. wpc[i] \in Places /\ complete[i] \in BOOLEAN  BY <1>1 DEF TypeOK, Places
  <2>3. wpc[i] \in {"flushwait", "flushtest"} /\ (complete[i] <=> state[i] # "partial_output")
    BY <2>1, <2>2 DEF StatesAt, Places, Output
  <2> QED  BY <1>2, <1>4, <2>2, <2>3 DEF Told
<1>6. state' \in [Pipes -> States]  BY <1>1, <1>2, <1>3 DEF TypeOK, States
<1>7. WorkerInv'
  <2>1. to \in StatesAt(wpc'[i], complete[i])  BY <1>5 DEF StatesAt
  <2> HIDE DEF to
  <2> QED  BY <1>1, <1>2, <1>3, <1>4, <2>1 DEF WorkerInv
<1>8. StartInv'  BY <1>1, <1>2, <1>4 DEF StartInv
<1>9. BufferInv'
  <2>1. state[i] # "partial_output" => inbuf[i] = <<>>  BY <1>1 DEF BufferInv, Output
  <2> QED  BY <1>1, <1>2, <1>3, <1>4, <1>5, <2>1 DEF BufferInv
<1>10. \A j \in Pipes : ItemsOf(state', wpc', inbuf', outbuf', j)
                     \subseteq ItemsOf(state, wpc, inbuf, outbuf, j)
  <2>1. to \notin Output  BY DEF Output
  <2> HIDE DEF to
  <2> QED  BY <1>2, <1>3, <1>4, <1>5, <2>1 DEF ItemsOf, Working
<1>11. \A j \in Pipes : wpc'[j] \in {"none", "exit"} <=> wpc[j] \in {"none", "exit"}
  BY <1>4, <1>5
<1> QED  BY <1>3, <1>4, <1>6, <1>7, <1>8, <1>9, <1>10, <1>11

(* The main thread consumes what the worker offers. *)
LEMMA ReceiveStep ==
  ASSUME PipeInv, NEW i \in Pipes, mpc \in {"empty", "drain"}, ~eptr, state[i] \in Output,
         maintainOrder => outputOrder # <<>> /\ Head(outputOrder) = i, Receive(i)
  PROVE  PipeInv'
<1> USE DEF phaseVars, GoOn
<1>1. /\ TypeOK /\ WorkerInv /\ StartInv /\ PhaseInv /\ BufferInv /\ OrderInv
      /\ FlowInv /\ ~fault
  BY DEF PipeInv
<1>2. /\ ~fault' /\ fault' \in BOOLEAN
      /\ IF state[i] = "partial_output"
         THEN Transition(i, "partial_output", "processing") /\ NotifyWorker(i)
         ELSE Transition(i, "outputting", "idle") /\ (NotifyWorker(i) \/ UNCHANGED wpc)
      /\ out' = out \o outbuf[i]
      /\ outputOrder' = IF state[i] # "partial_output" /\ maintainOrder
                        THEN Tail(outputOrder) ELSE outputOrder
      /\ mpc' = mpc /\ held' = TRUE
      /\ UNCHANGED <<mwait, bufferVars, runningWorkers, eptr, complete, phaseVars, fed,
                     written>>
  BY DEF Receive, Transition, Output
<1>3. /\ outbuf[i] \in Seq(1..Items) /\ out \in Seq(1..Items + 1)
      /\ outputOrder \in Seq(Pipes)
  BY <1>1 DEF TypeOK
<1>4. /\ state' \in [Pipes -> States] /\ wpc' \in [Pipes -> Places]
      /\ \A j \in Pipes : j # i => state'[j] = state[j] /\ wpc'[j] = wpc[j]
      /\ state'[i] = IF state[i] = "partial_output" THEN "processing" ELSE "idle"
      /\ WorkerInv' /\ StartInv' /\ BufferInv'
      /\ \A j \in Pipes : ItemsOf(state', wpc', inbuf', outbuf', j)
                         \subseteq ItemsOf(state, wpc, inbuf, outbuf, j)
  BY <1>2, Taken
<1>5. TypeOK'
  <2>1. out' \in Seq(1..Items + 1)
    <3>1. outbuf[i] \in Seq(1..Items + 1)
      <4>1. 1..Items \subseteq 1..Items + 1  BY PipeAssumption
      <4> QED  BY <1>3, <4>1, SeqMonotonic
    <3> QED  BY <1>2, <1>3, <3>1, ConcatProperties
  <2>2. outputOrder' \in Seq(Pipes)  BY <1>2, <1>3, HeadTailProperties
  <2> QED  BY <1>1, <1>2, <1>4, <2>1, <2>2 DEF TypeOK, Places, bufferVars
<1>6. PhaseInv'  BY <1>1, <1>2, <1>4 DEF PhaseInv
<1>7. FlowInv'  BY <1>1, <1>2, <1>4 DEF FlowInv
<1>8. OrderInv'
  <2> SUFFICES ASSUME maintainOrder PROVE InOrder(state', wpc', inbuf', outbuf', outputOrder')
    BY <1>2 DEF OrderInv
  <2>1. ~dying /\ InOrder(state, wpc, inbuf, outbuf, outputOrder)
    BY <1>1 DEF OrderInv, PhaseInv
  <2>2. CASE state[i] = "partial_output"
    <3>1. BusyIn(state') = BusyIn(state)  BY <1>4, <2>2 DEF BusyIn
    <3>2. outputOrder' = outputOrder  BY <1>2, <2>2
    <3>3. InOrder(state', wpc', inbuf', outbuf', outputOrder)
      BY <1>3, <1>4, <2>1, <3>1, OrderKept
    <3> QED  BY <3>2, <3>3
  <2>3. CASE state[i] # "partial_output"
    <3>1. BusyIn(state') = BusyIn(state) \ {i}  BY <1>4, <2>3 DEF BusyIn, Output
    <3>2. outputOrder' = Tail(outputOrder)  BY <1>2, <2>3
    <3>3. outputOrder # <<>> /\ Head(outputOrder) = i  OBVIOUS
    <3>4. BusyIn(state') = BusyIn(state) \ {Head(outputOrder)}  BY <3>1, <3>3
    <3>5. InOrder(state', wpc', inbuf', outbuf', Tail(outputOrder))
      BY <1>3, <1>4, <2>1, <3>3, <3>4, FirstOrderLeaves
    <3> QED  BY <3>2, <3>5
  <2> QED  BY <2>2, <2>3
<1> QED  BY <1>2, <1>4, <1>5, <1>6, <1>7, <1>8 DEF PipeInv

(* A node behind the pipe throws while it consumes. *)
LEMMA ReceiveThrowStep ==
  ASSUME PipeInv, NEW i \in Pipes, mpc \in {"empty", "drain"}, ReceiveThrow(i)
  PROVE  PipeInv'
<1> USE DEF bufferVars, workerVars, GoOn
<1>1. StartInv'  BY GoOnStart DEF ReceiveThrow
<1>2. PhaseInv'  BY DEF ReceiveThrow, PipeInv, PhaseInv
<1>3. out' \in Seq(1..Items + 1)
  <2>1. PICK k \in 0..Len(outbuf[i]) : out' = out \o SubSeq(outbuf[i], 1, k)
    BY DEF ReceiveThrow
  <2>2. outbuf[i] \in Seq(1..Items) /\ out \in Seq(1..Items + 1)  BY DEF PipeInv, TypeOK
  <2>3. Len(outbuf[i]) \in Nat /\ \A p \in 1..Len(outbuf[i]) : outbuf[i][p] \in 1..Items
    BY <2>2, LenProperties
  <2>4. \A p \in 1..k : outbuf[i][p] \in 1..Items + 1  BY <2>3, PipeAssumption
  <2>5. SubSeq(outbuf[i], 1, k) \in Seq(1..Items + 1)
    <3>1. k \in Int /\ 1 \in Int  BY <2>3
    <3> QED  BY <2>4, <3>1, SubSeqProperties
  <2> QED  BY <2>1, <2>2, <2>5, ConcatProperties
<1> QED  BY <1>1, <1>2, <1>3, QuietStep DEF ReceiveThrow, PipeInv, TypeOK, Phases


(* One pass of the loop of empty_input_buffer(). *)
LEMMA EmptyInputBufferStep ==
  ASSUME PipeInv, EmptyInputBuffer
  PROVE  PipeInv'
<1>1. mpc = "empty" /\ started = NumJobs  BY DEF EmptyInputBuffer, PipeInv, StartInv
<1>2. ASSUME UNCHANGED <<bufferVars, workerVars, phaseVars, flowVars, fault>>,
             mpc' \in {"drain", "feed", "stop", "empty"}, held' \in BOOLEAN,
             mwait' \in BOOLEAN, mpc' = "stop" => eptr
      PROVE  PipeInv'
  <2> USE DEF bufferVars, workerVars, phaseVars, flowVars
  <2>1. StartInv'  BY <1>1, <1>2, GoOnStart
  <2>2. PhaseInv'  BY <1>1, <1>2 DEF PipeInv, PhaseInv
  <2> QED  BY <1>2, <2>1, <2>2, QuietStep DEF PipeInv, TypeOK, Phases
<1>3. CASE /\ written = <<>>
           /\ GoOn(IF ending THEN "drain" ELSE "feed", ending)
           /\ UNCHANGED <<bufferVars, workerVars, phaseVars, flowVars, fault>>
  BY <1>2, <1>3 DEF GoOn, PipeInv, TypeOK
<1>4. CASE /\ written # <<>> /\ eptr
           /\ GoOn("stop", TRUE)
           /\ UNCHANGED <<bufferVars, workerVars, phaseVars, flowVars, fault>>
  BY <1>2, <1>4 DEF GoOn, PipeInv, TypeOK
<1>5. CASE /\ written # <<>> /\ ~eptr /\ ReadyPipes = {}
           /\ Wait("empty")
           /\ UNCHANGED <<bufferVars, workerVars, phaseVars, flowVars, fault>>
  BY <1>2, <1>5 DEF Wait
<1>6. ASSUME ~eptr, ReadyPipes # {}, NEW i, i = First(ReadyPipes),
             IF state[i] = "idle" THEN Send(i) ELSE Receive(i) \/ ReceiveThrow(i)
      PROVE  PipeInv'
  <2>1. ReadyPipes \subseteq Pipes  BY DEF ReadyPipes, OutputtingPipes
  <2>2. i \in ReadyPipes /\ i \in Pipes  BY <1>6, <2>1, FirstIn
  <2>3. CASE state[i] = "idle"  BY <1>1, <1>6, <2>2, <2>3, SendStep
  <2>4. CASE state[i] # "idle"
    <3>1. /\ state[i] \in Output
          /\ maintainOrder => outputOrder # <<>> /\ Head(outputOrder) = i
      BY <2>2, <2>4 DEF ReadyPipes, OutputtingPipes
    <3>2. CASE Receive(i)  BY <1>1, <1>6, <2>2, <3>1, <3>2, ReceiveStep
    <3>3. CASE ReceiveThrow(i)  BY <1>1, <2>2, <3>3, ReceiveThrowStep
    <3> QED  BY <1>6, <2>4, <3>2, <3>3
  <2> QED  BY <2>3, <2>4
<1> QED  BY <1>3, <1>4, <1>5, <1>6 DEF EmptyInputBuffer

(* One pass of the loop of end().  It leaves the loop when all workers are   *)
(* idle: with maintain_order, the front of m_outputOrder would be busy, and  *)
(* nobody is processing or offers output.                                    *)
LEMMA DrainStep ==
  ASSUME PipeInv, Drain
  PROVE  PipeInv'
<1>1. mpc = "drain" /\ started = NumJobs  BY DEF Drain, PipeInv, StartInv
<1>2. ASSUME UNCHANGED <<bufferVars, workerVars, phaseVars, flowVars, fault>>,
             mpc' \in {"drain", "finish", "stop"}, held' \in BOOLEAN, mwait' \in BOOLEAN,
             mpc' = "stop" => eptr,
             mpc' = "finish" => held' /\ \A i \in Pipes : state[i] = "idle"
      PROVE  PipeInv'
  <2> USE DEF bufferVars, workerVars, phaseVars, flowVars
  <2>1. StartInv'  BY <1>1, <1>2, GoOnStart
  <2>2. PhaseInv'  BY <1>1, <1>2 DEF PipeInv, PhaseInv
  <2> QED  BY <1>2, <2>1, <2>2, QuietStep DEF PipeInv, TypeOK, Phases
<1>3. CASE /\ eptr
           /\ GoOn("stop", TRUE)
           /\ UNCHANGED <<bufferVars, workerVars, phaseVars, flowVars, fault>>
  BY <1>2, <1>3 DEF GoOn, PipeInv, TypeOK
<1>4. ASSUME ~eptr, OutputtingPipes(maintainOrder) # {}, NEW i,
             i = First(OutputtingPipes(maintainOrder)), Receive(i) \/ ReceiveThrow(i)
      PROVE  PipeInv'
  <2>1. OutputtingPipes(maintainOrder) \subseteq Pipes  BY DEF OutputtingPipes
  <2>2. i \in OutputtingPipes(maintainOrder) /\ i \in Pipes  BY <1>4, <2>1, FirstIn
  <2>3. /\ state[i] \in Output
        /\ maintainOrder => outputOrder # <<>> /\ Head(outputOrder) = i
    BY <2>2 DEF OutputtingPipes
  <2>4. CASE Receive(i)  BY <1>1, <1>4, <2>2, <2>3, <2>4, ReceiveStep
  <2>5. CASE ReceiveThrow(i)  BY <1>1, <2>2, <2>5, ReceiveThrowStep
  <2> QED  BY <1>4, <2>4, <2>5
<1>5. CASE /\ ~eptr /\ OutputtingPipes(maintainOrder) = {} /\ HasProcessing
           /\ Wait("drain")
           /\ UNCHANGED <<bufferVars, workerVars, phaseVars, flowVars, fault>>
  BY <1>2, <1>5 DEF Wait
<1>6. CASE /\ ~eptr /\ OutputtingPipes(maintainOrder) = {} /\ ~HasProcessing
           /\ GoOn("finish", TRUE)
           /\ UNCHANGED <<bufferVars, workerVars, phaseVars, flowVars, fault>>
  <2>1. /\ TypeOK /\ WorkerInv /\ StartInv /\ PhaseInv /\ OrderInv
    BY DEF PipeInv
  <2>2. BusyIn(state) = {}
    <3>1. BusyIn(state) \cap {i \in Pipes : state[i] = "processing"} = {}
      BY <1>6 DEF HasProcessing
    <3>2. CASE ~maintainOrder
      BY <1>6, <3>1, <3>2 DEF OutputtingPipes, BusyIn
    <3>3. CASE maintainOrder
      <4>1. InOrder(state, wpc, inbuf, outbuf, outputOrder)
        BY <1>1, <1>6, <2>1, <3>3 DEF OrderInv, PhaseInv
      <4>2. CASE outputOrder = <<>>  BY <4>1, <4>2 DEF InOrder
      <4>3. CASE outputOrder # <<>>
        <5>1. /\ Head(outputOrder) = outputOrder[1] /\ 1 \in DOMAIN outputOrder
              /\ Head(outputOrder) \in Pipes
          BY <2>1, <4>3, HeadIs DEF TypeOK
        <5>2. Head(outputOrder) \in BusyIn(state)  BY <4>1, <5>1 DEF InOrder
        <5>3. Head(outputOrder) \in OutputtingPipes(maintainOrder)
          BY <3>1, <4>3, <5>1, <5>2 DEF OutputtingPipes, BusyIn
        <5> QED  BY <1>6, <5>3
      <4> QED  BY <4>2, <4>3
    <3> QED  BY <3>2, <3>3
  <2>3. \A i \in Pipes : state[i] = "idle"
    <3>1. ASSUME NEW i \in Pipes PROVE state[i] # "initializing"
      <4>1. wpc[i] \notin {"none", "start"} /\ wpc[i] \in Places /\ complete[i] \in BOOLEAN
        BY <1>1, <2>1 DEF StartInv, TypeOK, Places, Pipes
      <4>2. state[i] \in StatesAt(wpc[i], complete[i])  BY <2>1 DEF WorkerInv
      <4> QED  BY <4>1, <4>2 DEF StatesAt, Places
    <3>2. \A i \in Pipes : state[i] # "done"  BY <1>1, <2>1 DEF PhaseInv
    <3>3. \A i \in Pipes : state[i] \in States  BY <2>1 DEF TypeOK
    <3> QED  BY <2>2, <3>1, <3>2, <3>3 DEF BusyIn, States, Output
  <2> QED  BY <1>2, <1>6, <2>3 DEF GoOn, PipeInv, TypeOK
<1> QED  BY <1>3, <1>4, <1>5, <1>6 DEF Drain

-----------------------------------------------------------------------------
(* The steps that stop the workers. *)

(* Every worker that is idle becomes done and is notified. *)
LEMMA DismissStep ==
  ASSUME PipeInv, ~fault', fault' \in BOOLEAN, started = NumJobs, mpc # "begin",
         \A i \in Pipes : state[i] \in {"idle", "done"},
         state' = [i \in Pipes |-> "done"],
         wpc' = [i \in Pipes |->
                  IF state[i] = "idle" /\ wpc[i] = "wait" THEN "loop" ELSE
                  IF state[i] = "idle" /\ wpc[i] = "flushwait" THEN "flushtest"
                  ELSE wpc[i]],
         \/ mpc = "finish" /\ mpc' = "close"
         \/ mpc = "stop" /\ mpc' = "stopped",
         held', held' \in BOOLEAN,
         UNCHANGED <<mwait, bufferVars, runningWorkers, eptr, complete, phaseVars, flowVars>>
  PROVE  PipeInv'
<1> USE DEF bufferVars, phaseVars, flowVars
<1>1. /\ TypeOK /\ WorkerInv /\ StartInv /\ PhaseInv /\ BufferInv /\ OrderInv
      /\ FlowInv /\ ~fault
  BY DEF PipeInv
<1>2. ASSUME NEW i \in Pipes
      PROVE  /\ state'[i] = "done" /\ wpc[i] \in Places /\ complete[i] \in BOOLEAN
             /\ \/ wpc[i] \in {"wait", "loop"} /\ wpc'[i] = "loop"
                \/ wpc[i] \in {"flushwait", "flushtest"} /\ wpc'[i] = "flushtest"
                   /\ complete[i]
                \/ wpc[i] = "exit" /\ wpc'[i] = "exit"
  <2>1. state[i] \in StatesAt(wpc[i], complete[i])  BY <1>1 DEF WorkerInv
  <2>2. wpc[i] \in Places /\ complete[i] \in BOOLEAN  BY <1>1 DEF TypeOK, Places
  <2>3. wpc[i] \notin {"none", "start"}  BY <1>1, PipeAssumption DEF StartInv, Pipes
  <2>4. wpc[i] = "wait" => state[i] = "idle"  BY <2>1 DEF StatesAt
  <2>5. wpc[i] = "flushwait" /\ complete[i] => state[i] = "idle"
    BY <2>1 DEF StatesAt
  <2>6. \/ wpc[i] \in {"wait", "loop", "exit"}
        \/ wpc[i] \in {"flushwait", "flushtest"} /\ complete[i]
    <3>1. wpc[i] \notin {"work", "flush", "catch"}  BY <2>1 DEF StatesAt
    <3>2. wpc[i] = "flushwait" => complete[i]  BY <2>1, <2>2 DEF StatesAt
    <3>3. wpc[i] = "flushtest" => complete[i]  BY <2>1, <2>2 DEF StatesAt
    <3> QED  BY <2>2, <2>3, <3>1, <3>2, <3>3 DEF Places
  <2> QED  BY <2>2, <2>4, <2>5, <2>6
<1>3. TypeOK'
  <2>1. state' \in [Pipes -> States]  BY DEF States
  <2>2. wpc' \in [Pipes -> Places]  BY <1>2 DEF Places
  <2>3. mpc' \in Phases  BY DEF Phases
  <2> QED  BY <1>1, <2>1, <2>2, <2>3 DEF TypeOK, Places, Phases
<1>4. WorkerInv'
  <2>1. \A c \in BOOLEAN : "done" \in StatesAt("loop", c)  BY DEF StatesAt
  <2>2. "done" \in StatesAt("exit", TRUE) /\ "done" \in StatesAt("exit", FALSE)
    BY DEF StatesAt
  <2>3. "done" \in StatesAt("flushtest", TRUE)  BY DEF StatesAt
  <2> QED  BY <1>2, <2>1, <2>2, <2>3 DEF WorkerInv
<1>5. StartInv'
  <2>1. RunningIn(wpc') = RunningIn(wpc)  BY <1>2 DEF RunningIn
  <2>2. \A i \in Pipes : (wpc'[i] = "none" <=> wpc[i] = "none") /\ wpc'[i] # "start"
    BY <1>2
  <2> QED  BY <1>1, <2>1, <2>2 DEF StartInv
<1>6. PhaseInv'  BY <1>1, <1>2 DEF PhaseInv
<1>7. BufferInv'  BY <1>1, <1>2 DEF BufferInv
<1>8. OrderInv' /\ FlowInv'
  <2>1. BusyIn(state') = BusyIn(state)  BY <1>2 DEF BusyIn, Output
  <2>2. \A j \in Pipes : ItemsOf(state', wpc', inbuf', outbuf', j)
                      \subseteq ItemsOf(state, wpc, inbuf, outbuf, j)
    BY <1>2 DEF ItemsOf, Working, Output
  <2> QED  BY <1>1, <2>1, <2>2, OrderByWorker
<1> QED  BY <1>3, <1>4, <1>5, <1>6, <1>7, <1>8 DEF PipeInv

LEMMA FinishStep ==
  ASSUME PipeInv, Finish
  PROVE  PipeInv'
<1>1. \A i \in Pipes : state[i] = "idle"  BY DEF Finish, PipeInv, PhaseInv
<1>2. mpc = "finish" /\ started = NumJobs  BY DEF Finish, PipeInv, StartInv
<1>3. ~fault' /\ fault' \in BOOLEAN  BY <1>1 DEF Finish, Dismiss
<1>4. state' = [i \in Pipes |-> "done"]  BY <1>1 DEF Finish, Dismiss
<1>5. wpc' = [i \in Pipes |->
                  IF state[i] = "idle" /\ wpc[i] = "wait" THEN "loop" ELSE
                  IF state[i] = "idle" /\ wpc[i] = "flushwait" THEN "flushtest"
                  ELSE wpc[i]]
  BY DEF Finish, Dismiss
<1>6. /\ mpc' = "close" /\ held' /\ held' \in BOOLEAN
      /\ UNCHANGED <<mwait, bufferVars, runningWorkers, eptr, complete, phaseVars, flowVars>>
  BY DEF Finish, GoOn
<1> QED  BY <1>1, <1>2, <1>3, <1>4, <1>5, <1>6, DismissStep

(* One pass of the first loop of stop_workers(). *)
LEMMA StopWorkersStep ==
  ASSUME PipeInv, StopWorkers
  PROVE  PipeInv'
<1>1. mpc = "stop" /\ (eptr \/ dying)  BY DEF StopWorkers, PipeInv, PhaseInv
<1>2. CASE /\ runningWorkers = 0
           /\ StopReturn
           /\ UNCHANGED <<bufferVars, workerVars, maintainOrder, ending, dying,
                          started, toEnd, joined, flowVars, fault>>
  BY <1>1, <1>2, StopReturnStep
<1>3. ASSUME OutputtingPipes(FALSE) # {}, NEW i, i = First(OutputtingPipes(FALSE)),
             IF state[i] = "partial_output"
             THEN Transition(i, "partial_output", "processing") /\ NotifyWorker(i)
             ELSE Transition(i, "outputting", "idle") /\ UNCHANGED wpc,
             GoOn("stop", TRUE),
             UNCHANGED <<bufferVars, runningWorkers, eptr, complete, phaseVars, flowVars>>
      PROVE  PipeInv'
  <2> USE DEF phaseVars, flowVars, GoOn
  <2>1. OutputtingPipes(FALSE) \subseteq Pipes  BY DEF OutputtingPipes
  <2>2. i \in Pipes /\ state[i] \in Output  BY <1>3, <2>1, FirstIn DEF OutputtingPipes
  <2>3. ~fault' /\ fault' \in BOOLEAN  BY <1>3, <2>2 DEF Transition, Output
  <2>4. /\ TypeOK /\ WorkerInv /\ StartInv /\ PhaseInv /\ BufferInv /\ OrderInv
        /\ FlowInv /\ ~fault
    BY DEF PipeInv
  <2>5. /\ state' \in [Pipes -> States] /\ wpc' \in [Pipes -> Places]
        /\ \A j \in Pipes : j # i => state'[j] = state[j] /\ wpc'[j] = wpc[j]
        /\ WorkerInv' /\ StartInv' /\ BufferInv'
        /\ \A j \in Pipes : ItemsOf(state', wpc', inbuf', outbuf', j)
                           \subseteq ItemsOf(state, wpc, inbuf, outbuf, j)
    <3>1. IF state[i] = "partial_output"
          THEN Transition(i, "partial_output", "processing") /\ NotifyWorker(i)
          ELSE Transition(i, "outputting", "idle") /\ (NotifyWorker(i) \/ UNCHANGED wpc)
      BY <1>3
    <3> QED  BY <1>1, <1>3, <2>2, <2>3, <3>1, Taken
  <2>6. TypeOK'  BY <1>1, <1>3, <2>3, <2>4, <2>5 DEF TypeOK, Places, bufferVars
  <2>7. PhaseInv'  BY <1>1, <1>3, <2>4 DEF PhaseInv
  <2>8. OrderInv' /\ FlowInv'  BY <1>1, <1>3, <2>4, <2>5 DEF OrderInv, FlowInv
  <2> QED  BY <2>3, <2>5, <2>6, <2>7, <2>8 DEF PipeInv
<1>4. CASE /\ runningWorkers # 0 /\ OutputtingPipes(FALSE) = {} /\ HasProcessing
           /\ Wait("stop")
           /\ UNCHANGED <<bufferVars, workerVars, phaseVars, flowVars, fault>>
  <2> USE DEF bufferVars, workerVars, phaseVars, flowVars, Wait
  <2>1. StartInv'  BY <1>1, <1>4, GoOnStart
  <2>2. PhaseInv'  BY <1>1, <1>4 DEF PipeInv, PhaseInv
  <2> QED  BY <1>4, <2>1, <2>2, QuietStep DEF PipeInv, TypeOK, Phases
<1>5. CASE /\ runningWorkers # 0 /\ OutputtingPipes(FALSE) = {} /\ ~HasProcessing
           /\ Dismiss({"idle", "initializing"}, {"done"})
           /\ GoOn("stopped", TRUE)
           /\ UNCHANGED <<bufferVars, runningWorkers, eptr, complete, phaseVars, flowVars>>
  <2>1. TypeOK /\ WorkerInv /\ StartInv  BY DEF PipeInv
  <2>2. started = NumJobs
    <3>1. RunningIn(wpc) # {}  BY <1>5, <2>1, RunningCount DEF StartInv
    <3>2. PICK i \in Pipes : wpc[i] # "none"  BY <3>1 DEF RunningIn
    <3>3. started # 0  BY <2>1, <3>2 DEF StartInv, Pipes
    <3> QED  BY <1>1, <2>1, <3>3 DEF StartInv
  <2>3. ASSUME NEW i \in Pipes PROVE state[i] \in {"idle", "done"}
    <3>1. wpc[i] \notin {"none", "start"} /\ wpc[i] \in Places /\ complete[i] \in BOOLEAN
      BY <1>1, <2>1, <2>2 DEF StartInv, TypeOK, Places, Pipes
    <3>2. state[i] \in StatesAt(wpc[i], complete[i])  BY <2>1 DEF WorkerInv
    <3>3. state[i] # "initializing"  BY <3>1, <3>2 DEF StatesAt, Places
    <3>4. state[i] \in States  BY <2>1 DEF TypeOK
    <3> QED  BY <1>5, <3>3, <3>4 DEF HasProcessing, OutputtingPipes, States, Output
  <2>4. ~fault' /\ fault' \in BOOLEAN  BY <1>5, <2>3 DEF Dismiss
  <2>5. state' = [i \in Pipes |-> "done"]  BY <1>5, <2>3 DEF Dismiss
  <2>6. wpc' = [i \in Pipes |->
                  IF state[i] = "idle" /\ wpc[i] = "wait" THEN "loop" ELSE
                  IF state[i] = "idle" /\ wpc[i] = "flushwait" THEN "flushtest"
                  ELSE wpc[i]]
    BY <1>5, <2>3 DEF Dismiss
  <2> QED  BY <1>1, <1>5, <2>2, <2>3, <2>4, <2>5, <2>6, DismissStep DEF GoOn
<1> QED  BY <1>2, <1>3, <1>4, <1>5 DEF StopWorkers

(* The main thread calls end() of the nodes of a worker. *)
LEMMA EndNodesStep ==
  ASSUME PipeInv, NEW i \in Pipes, EndNodes(i)
  PROVE  PipeInv'
<1> USE DEF workerVars, mainVars
<1>1. /\ TypeOK /\ WorkerInv /\ StartInv /\ PhaseInv /\ BufferInv /\ OrderInv
      /\ FlowInv /\ ~fault
  BY DEF PipeInv
<1>2. mpc = "ends" /\ state[i] = "done"  BY <1>1 DEF EndNodes, PhaseInv
<1>3. /\ ~fault' /\ fault' \in BOOLEAN /\ toEnd' = toEnd \ {i}
      /\ out' = out \o outbuf[i] \o [k \in 1..EndEmits |-> Items + 1]
      /\ outbuf' = [outbuf EXCEPT ![i] = <<>>]
      /\ UNCHANGED <<inbuf, emitted, workerVars, maintainOrder, ending, dying, started,
                     joined, result, fed, written, outputOrder, mainVars>>
  BY <1>2 DEF EndNodes
<1>4. outbuf'[i] = <<>> /\ \A j \in Pipes : j # i => outbuf'[j] = outbuf[j]
  BY <1>1, <1>3 DEF TypeOK
<1>5. TypeOK'
  <2>1. outbuf' \in [Pipes -> Seq(1..Items)]
    <3>1. <<>> \in Seq(1..Items)  BY EmptySeq
    <3> QED  BY <1>1, <1>3, <3>1 DEF TypeOK
  <2>2. out' \in Seq(1..Items + 1)
    <3>1. outbuf[i] \in Seq(1..Items + 1)
      <4>1. 1..Items \subseteq 1..Items + 1  BY PipeAssumption
      <4>2. outbuf[i] \in Seq(1..Items)  BY <1>1 DEF TypeOK
      <4> QED  BY <4>1, <4>2, SeqMonotonic
    <3>2. [k \in 1..EndEmits |-> Items + 1] \in Seq(1..Items + 1)
      <4>1. Items + 1 \in 1..Items + 1 /\ EndEmits \in Nat  BY PipeAssumption
      <4>2. [k \in 1..EndEmits |-> Items + 1] \in [1..EndEmits -> 1..Items + 1]
        BY <4>1
      <4> QED  BY <4>1, <4>2, SeqDef
    <3>3. out \o outbuf[i] \in Seq(1..Items + 1)  BY <1>1, <3>1, ConcatProperties DEF TypeOK
    <3> QED  BY <1>3, <3>2, <3>3, ConcatProperties
  <2>3. toEnd' \in SUBSET Pipes  BY <1>1, <1>3 DEF TypeOK
  <2> QED  BY <1>1, <1>3, <2>1, <2>2, <2>3 DEF TypeOK
<1>6. WorkerInv' /\ StartInv'  BY <1>1, <1>3 DEF WorkerInv, StartInv
<1>7. PhaseInv'  BY <1>1, <1>3 DEF PhaseInv
<1>8. BufferInv'  BY <1>1, <1>3, <1>4 DEF BufferInv
<1>9. OrderInv' /\ FlowInv'
  <2>1. \A j \in Pipes : ItemsOf(state', wpc', inbuf', outbuf', j)
                      \subseteq ItemsOf(state, wpc, inbuf, outbuf, j)
    BY <1>3, <1>4 DEF ItemsOf, Working
  <2> QED  BY <1>1, <1>3, <2>1, OrderByWorker
<1> QED  BY <1>3, <1>5, <1>6, <1>7, <1>8, <1>9 DEF PipeInv


-----------------------------------------------------------------------------
(* The invariant holds, and what follows from it. *)

LEMMA PipeStep ==
  ASSUME PipeInv, BeginThrows \subseteq {0}, Next
  PROVE  PipeInv'
<1>1. CASE MainStep
  <2>1. CASE \E i \in Pipes : EndNodes(i)  BY <2>1, EndNodesStep
  <2> QED
    BY <1>1, <2>1, StartThreadStep, BeginThrowStep, ProducerBeginStep, FeedStep,
       FeedFullStep, EndCallStep, FeedThrowStep, EmptyInputBufferStep, DrainStep,
       FinishStep, CloseWorkersStep, EndThrowStep, PhaseDoneStep, DestroyStep,
       StopWorkersStep, StopWaitStep, JoinLockStep, JoinedStep
       DEF MainStep
<1>2. CASE \E i \in Pipes : WorkerStep(i)
  <2>1. PICK i \in Pipes : WorkerStep(i)  BY <1>2
  <2> QED
    BY <2>1, WorkerStartStep, WorkerLoopStep, PushStep, NextItemStep, PushAllDoneStep,
       FlushStep, FlushTestStep, WorkerThrowStep, WorkerCatchStep
       DEF WorkerStep
<1> QED  BY <1>1, <1>2 DEF Next

LEMMA PipeStutter ==
  ASSUME PipeInv, UNCHANGED vars
  PROVE  PipeInv'
<1> USE DEF vars, bufferVars, workerVars, phaseVars, flowVars, mainVars
<1>1. TypeOK' /\ ~fault'  BY DEF PipeInv, TypeOK
<1>2. WorkerInv' /\ StartInv' /\ PhaseInv'  BY DEF PipeInv, WorkerInv, StartInv, PhaseInv
<1>3. BufferInv' /\ OrderInv' /\ FlowInv'  BY DEF PipeInv, BufferInv, OrderInv, FlowInv
<1> QED  BY <1>1, <1>2, <1>3 DEF PipeInv

LEMMA PipeStart == Init => PipeInv
<1> SUFFICES ASSUME Init PROVE PipeInv  OBVIOUS
<1>1. 0 \in 0..NumJobs /\ 0 \in 0..Items /\ 0 \in Nat  BY PipeAssumption
<1>2. \A S : <<>> \in Seq(S) /\ Len(<<>>) = 0 /\ DOMAIN <<>> = {}  BY EmptySeq
<1>3. TypeOK /\ ~fault  BY <1>1, <1>2 DEF Init, TypeOK, States
<1>4. WorkerInv  BY DEF Init, WorkerInv, StatesAt
<1>5. StartInv
  <2>1. RunningIn(wpc) = {}  BY DEF Init, RunningIn
  <2>2. Cardinality(RunningIn(wpc)) = 0  BY <2>1, RunningCount
  <2>3. \A i \in Pipes : i > 0  BY DEF Pipes
  <2> QED  BY <2>2, <2>3 DEF Init, StartInv
<1>6. PhaseInv  BY DEF Init, PhaseInv
<1>7. BufferInv  BY DEF Init, BufferInv
<1>8. OrderInv
  <2>1. BusyIn(state) = {}  BY DEF Init, BusyIn, Output
  <2>2. outputOrder = <<>> /\ DOMAIN outputOrder = {}  BY <1>2 DEF Init
  <2> QED  BY <2>1, <2>2 DEF OrderInv, InOrder
<1>9. FlowInv
  <2>1. \A i \in Pipes : ItemsOf(state, wpc, inbuf, outbuf, i) = {}
    BY <1>2 DEF Init, ItemsOf
  <2> QED  BY <1>2, <2>1 DEF Init, FlowInv
<1> QED  BY <1>3, <1>4, <1>5, <1>6, <1>7, <1>8, <1>9 DEF PipeInv

(* The list of busy workers has as many entries as there are busy workers. *)
LEMMA DistinctLength ==
  ASSUME NEW S, NEW s \in Seq(S),
         \A k, l \in DOMAIN s : k < l => s[k] # s[l]
  PROVE  Len(s) = Cardinality({s[k] : k \in DOMAIN s})
<1> DEFINE T == {s[k] : k \in DOMAIN s}
<1>1. Len(s) \in Nat /\ DOMAIN s = 1..Len(s)  OBVIOUS
<1>2. IsFiniteSet(1..Len(s)) /\ Cardinality(1..Len(s)) = Len(s)
  <2>1. 1 \in Int /\ Len(s) \in Int  BY <1>1
  <2>2. IsFiniteSet(1..Len(s))
        /\ Cardinality(1..Len(s)) = IF 1 > Len(s) THEN 0 ELSE Len(s) - 1 + 1
    BY <2>1, FS_Interval
  <2> QED  BY <1>1, <2>2
<1>3. s \in [1..Len(s) -> T]  BY <1>1
<1>4. \A k, l \in 1..Len(s) : s[k] = s[l] => k = l  BY <1>1
<1>5. \A x \in T : \E k \in 1..Len(s) : s[k] = x  BY <1>1
<1>6. s \in Bijection(1..Len(s), T)
  <2> HIDE DEF T
  <2> QED  BY <1>3, <1>4, <1>5 DEF Bijection, Injection, Surjection, IsInjective
<1>7. ExistsBijection(1..Len(s), T)  BY <1>6 DEF ExistsBijection
<1> HIDE DEF T
<1>8. Cardinality(1..Len(s)) = Cardinality(T)  BY <1>2, <1>7, FS_Bijection
<1> QED  BY <1>2, <1>8 DEF T

LEMMA OrderFromInv == PipeInv => OutputOrderExact
<1> SUFFICES ASSUME PipeInv, maintainOrder, ~eptr, ~dying
             PROVE  /\ Len(outputOrder) = Cardinality(Busy)
                    /\ Busy = {outputOrder[k] : k \in DOMAIN outputOrder}
                    /\ \A k, l \in DOMAIN outputOrder : k < l =>
                         \A x \in Inside(outputOrder[k]), y \in Inside(outputOrder[l]) :
                           x < y
  BY DEF OutputOrderExact
<1>1. InOrder(state, wpc, inbuf, outbuf, outputOrder) /\ outputOrder \in Seq(Pipes)
  BY DEF PipeInv, OrderInv, TypeOK
<1>2. Busy = {outputOrder[k] : k \in DOMAIN outputOrder}
  BY <1>1 DEF InOrder, Busy, BusyIn
<1>3. Len(outputOrder) = Cardinality(Busy)
  <2>1. \A k, l \in DOMAIN outputOrder : k < l => outputOrder[k] # outputOrder[l]
    BY <1>1 DEF InOrder
  <2> QED  BY <1>1, <1>2, <2>1, DistinctLength
<1>4. \A i : Inside(i) \subseteq ItemsOf(state, wpc, inbuf, outbuf, i)
  BY DEF Inside, ItemsOf, Working
<1> QED  BY <1>1, <1>2, <1>3, <1>4 DEF InOrder

LEMMA BuffersFromInv == PipeInv => BuffersNotShared
<1> SUFFICES ASSUME PipeInv, NEW i \in Pipes
             PROVE  /\ wpc[i] \in {"work", "flush", "catch"} => state[i] = "processing"
                    /\ state[i] \in Output => wpc[i] \in {"flushwait", "flushtest"}
                    /\ state[i] = "idle" /\ ~eptr => inbuf[i] = <<>>
  BY DEF BuffersNotShared
<1>1. state[i] \in StatesAt(wpc[i], complete[i])  BY DEF PipeInv, WorkerInv
<1>2. wpc[i] \in Places  BY DEF PipeInv, TypeOK, Places
<1>3. wpc[i] \in {"work", "flush", "catch"} => state[i] = "processing"
  BY <1>1 DEF StatesAt
<1>4. state[i] \in Output => wpc[i] \in {"flushwait", "flushtest"}
  BY <1>1, <1>2 DEF StatesAt, Places, Output
<1>5. state[i] = "idle" /\ ~eptr => inbuf[i] = <<>>  BY DEF PipeInv, BufferInv
<1> QED  BY <1>3, <1>4, <1>5

(* The assumption on BeginThrows: a begin() that throws when some threads    *)
(* are started but the pipe is not makes ~before assert (the run             *)
(* parallel_pipe_begin).                                                     *)
THEOREM PipeInvariant == BeginThrows \subseteq {0} => (Spec => []PipeInv)
<1> SUFFICES ASSUME BeginThrows \subseteq {0} PROVE Spec => []PipeInv  OBVIOUS
<1>1. Init => PipeInv  BY PipeStart
<1>2. PipeInv /\ [Next]_vars => PipeInv'  BY PipeStep, PipeStutter
<1> QED  BY <1>1, <1>2, PTL DEF Spec

(* Every variable keeps its type. *)
THEOREM PipeTypeCorrect == BeginThrows \subseteq {0} => (Spec => []TypeOK)
<1>1. PipeInv => TypeOK  BY DEF PipeInv
<1> QED  BY <1>1, PipeInvariant, PTL

(* No transition_state(), ready(), is_done() and no assertion of ~before     *)
(* throws, whatever the nodes throw and however the threads are scheduled.   *)
THEOREM ProtocolHolds == BeginThrows \subseteq {0} => (Spec => []NoProtocolFault)
<1>1. PipeInv => NoProtocolFault  BY DEF PipeInv, NoProtocolFault
<1> QED  BY <1>1, PipeInvariant, PTL

(* The main thread and a worker do not use a buffer at the same time. *)
THEOREM BuffersAreOwned == BeginThrows \subseteq {0} => (Spec => []BuffersNotShared)
<1> QED  BY BuffersFromInv, PipeInvariant, PTL

(* m_outputOrder lists the busy workers, in the order of the items they hold. *)
THEOREM OrderIsMaintained == BeginThrows \subseteq {0} => (Spec => []OutputOrderExact)
<1> QED  BY OrderFromInv, PipeInvariant, PTL
=============================================================================
