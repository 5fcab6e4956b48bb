--------------------------- MODULE ParallelPipe ---------------------------
(***************************************************************************)
(* tpie::pipelining::parallel (tpie/pipelining/parallel/base.h and          *)
(* worker_state.h): the main thread cuts its items into buffers and hands   *)
(* each to one of NumJobs worker threads; the nodes of that worker push     *)
(* their outputs into a buffer of their own, which the worker offers to the *)
(* main thread when it is full (partial_output) or when the input is used   *)
(* up (outputting).  Everything but the work itself happens under one mutex *)
(* with one condition variable for the main thread (producerCond) and one   *)
(* per worker (workerCond).                                                 *)
(*                                                                         *)
(* A critical section of a worker is one step.  The main thread keeps the   *)
(* mutex over several steps (held): the passes of its loops, of which       *)
(* condition_variable::wait alone lets go of the mutex.                     *)
(***************************************************************************)
EXTENDS Integers, Sequences, FiniteSets

CONSTANTS
  NumJobs,    (* opts.numJobs                                              *)
  BufSize,    (* opts.bufSize                                              *)
  Items,      (* bound: items the source may push                          *)
  Emits,      (* Emits[x]: outputs the worker's nodes push for item x      *)
  EndEmits,   (* outputs they push when their end() is called              *)
  MayThrow,   (* who may throw: "worker", "main" (nodes around the pipe)   *)
  BeginThrows (* k: a begin() may throw when k threads have been started   *)

ASSUME PipeAssumption ==
  /\ NumJobs \in Nat \ {0} /\ BufSize \in Nat \ {0}
  /\ Items \in Nat /\ EndEmits \in Nat
  /\ Emits \in [1..Items -> Nat]
  /\ MayThrow \subseteq {"worker", "main"}
  /\ BeginThrows \subseteq 0..NumJobs

VARIABLES
  maintainOrder, (* opts.maintainOrder                                     *)
  state,         (* st.m_states                                            *)
  inbuf,         (* st.m_inputBuffers: items not yet pushed down the pipe  *)
  emitted,       (* outputs pushed for the first of them                   *)
  outbuf,        (* st.m_outputBuffers                                     *)
  outputOrder,   (* m_outputOrder of the producer                          *)
  runningWorkers,(* st.runningWorkers                                      *)
  eptr,          (* st.eptr is set                                         *)
  wpc,           (* where each worker thread is                            *)
  complete,      (* the argument of its flush_buffer_impl                  *)
  mpc,           (* where the main thread is                               *)
  mwait,         (* the main thread waits on producerCond                  *)
  held,          (* the main thread holds the mutex                        *)
  ending,        (* producer::end() was called                             *)
  dying,         (* ~producer was called                                   *)
  started,       (* before::begin() calls made: threads 1..started exist   *)
  toEnd,         (* workers whose nodes have not seen end()                *)
  joined,        (* threads joined by ~before                              *)
  fed,           (* items pushed by the source                             *)
  written,       (* inputBuffer[0 .. written)                              *)
  out,           (* what the consumer pushed on                            *)
  result,        (* how the phase ended for its caller                     *)
  fault          (* an exception of the protocol itself was thrown         *)

bufferVars == <<inbuf, emitted, outbuf>>
workerVars == <<state, runningWorkers, eptr, wpc, complete>>
phaseVars  == <<maintainOrder, ending, dying, started, toEnd, joined,
                result>>
flowVars   == <<fed, written, out, outputOrder>>
mainVars   == <<mpc, mwait, held>>
vars == <<bufferVars, workerVars, phaseVars, flowVars, mainVars, fault>>

Pipes == 1..NumJobs

States == {"initializing", "idle", "processing", "partial_output",
           "outputting", "done"}

Output == {"partial_output", "outputting"}

-----------------------------------------------------------------------------
(* The constructors of state, before, after and producer.  A worker makes   *)
(* its own buffers when its thread starts.                                  *)
Init ==
  /\ maintainOrder \in BOOLEAN
  /\ state = [i \in Pipes |-> "initializing"]
  /\ inbuf = [i \in Pipes |-> <<>>] /\ outbuf = [i \in Pipes |-> <<>>]
  /\ emitted = [i \in Pipes |-> 0]
  /\ outputOrder = <<>> /\ runningWorkers = 0 /\ eptr = FALSE
  /\ wpc = [i \in Pipes |-> "none"]
  /\ complete = [i \in Pipes |-> FALSE]
  /\ mpc = "begin" /\ mwait = FALSE /\ held = FALSE
  /\ ending = FALSE /\ dying = FALSE /\ started = 0 /\ toEnd = Pipes
  /\ joined = 0
  /\ fed = 0 /\ written = <<>> /\ out = <<>>
  /\ result = "none" /\ fault = FALSE

(* transition_state(): throws when the worker is in another state. *)
Transition(i, from, to) ==
  /\ state' = IF state[i] = from THEN [state EXCEPT ![i] = to] ELSE state
  /\ fault' = (state[i] # from)

(* workerCond[i].notify_one() *)
NotifyWorker(i) ==
  wpc' = [wpc EXCEPT ![i] = IF @ = "wait" THEN "loop" ELSE
                            IF @ = "flushwait" THEN "flushtest" ELSE @]

(* producerCond.notify_one() *)
NotifyProducer == mwait' = FALSE

-----------------------------------------------------------------------------
(* before::worker() up to its loop. *)
WorkerStart(i) ==
  /\ wpc[i] = "start" /\ ~held
  /\ Transition(i, "initializing", "idle")
  /\ runningWorkers' = runningWorkers + 1
  /\ wpc' = [wpc EXCEPT ![i] = "loop"]
  /\ NotifyProducer
  /\ UNCHANGED <<bufferVars, eptr, complete, phaseVars, flowVars, mpc, held>>

(* One pass of the loop of before::worker() up to the unlock, with ready(). *)
WorkerLoop(i) ==
  /\ wpc[i] = "loop" /\ ~held
  /\ fault' = (state[i] \notin {"idle", "processing", "done"})
  /\ wpc' = [wpc EXCEPT ![i] =
               IF state[i] = "processing" THEN "work" ELSE
               IF state[i] = "done" THEN "exit" ELSE "wait"]
  /\ IF state[i] = "done"
     THEN runningWorkers' = runningWorkers - 1 /\ NotifyProducer
     ELSE UNCHANGED <<runningWorkers, mwait>>
  /\ UNCHANGED <<bufferVars, state, eptr, complete, phaseVars, flowVars, mpc,
                 held>>

(* A node of the worker pushes an output: after::push().  The buffer is      *)
(* flushed before the output is added, when it is full.                      *)
Push(i) ==
  /\ wpc[i] = "work" /\ inbuf[i] # <<>>
  /\ emitted[i] < Emits[Head(inbuf[i])]
  /\ IF Len(outbuf[i]) < BufSize
     THEN /\ outbuf'  = [outbuf EXCEPT ![i] = Append(@, Head(inbuf[i]))]
          /\ emitted' = [emitted EXCEPT ![i] = @ + 1]
          /\ UNCHANGED <<wpc, complete>>
     ELSE /\ wpc' = [wpc EXCEPT ![i] = "flush"]
          /\ complete' = [complete EXCEPT ![i] = FALSE]
          /\ UNCHANGED <<outbuf, emitted>>
  /\ UNCHANGED <<inbuf, state, runningWorkers, eptr, phaseVars, flowVars,
                 mainVars, fault>>

(* before_impl::push_all(): on to the next item, or to flush_buffer(). *)
NextItem(i) ==
  /\ wpc[i] = "work" /\ inbuf[i] # <<>>
  /\ emitted[i] = Emits[Head(inbuf[i])]
  /\ inbuf'   = [inbuf EXCEPT ![i] = Tail(@)]
  /\ emitted' = [emitted EXCEPT ![i] = 0]
  /\ UNCHANGED <<outbuf, workerVars, phaseVars, flowVars, mainVars, fault>>

PushAllDone(i) ==
  /\ wpc[i] = "work" /\ inbuf[i] = <<>>
  /\ wpc' = [wpc EXCEPT ![i] = "flush"]
  /\ complete' = [complete EXCEPT ![i] = TRUE]
  /\ UNCHANGED <<bufferVars, state, runningWorkers, eptr, phaseVars, flowVars,
                 mainVars, fault>>

(* Mutant: the output buffer is not offered to the main thread. *)
FlushSilent(i) ==
  /\ wpc[i] = "flush" /\ ~held
  /\ Transition(i, "processing",
                IF complete[i] THEN "outputting" ELSE "partial_output")
  /\ wpc' = [wpc EXCEPT ![i] = "flushwait"]
  /\ UNCHANGED <<bufferVars, runningWorkers, eptr, complete, phaseVars,
                 flowVars, mpc, held, mwait>>

(* Mutant: the worker does not wait until its output is consumed. *)
FlushNoWait(i) ==
  /\ wpc[i] = "flush" /\ ~held
  /\ Transition(i, "processing",
                IF complete[i] THEN "outputting" ELSE "partial_output")
  /\ NotifyProducer
  /\ wpc' = [wpc EXCEPT ![i] = IF complete[i] THEN "loop" ELSE "work"]
  /\ UNCHANGED <<bufferVars, runningWorkers, eptr, complete, phaseVars,
                 flowVars, mpc, held>>

(* flush_buffer_impl() up to the wait (on a worker thread; see EndNodes). *)
Flush(i) ==
  /\ wpc[i] = "flush" /\ ~held
  /\ Transition(i, "processing",
                IF complete[i] THEN "outputting" ELSE "partial_output")
  /\ NotifyProducer
  /\ wpc' = [wpc EXCEPT ![i] = "flushwait"]
  /\ UNCHANGED <<bufferVars, runningWorkers, eptr, complete, phaseVars,
                 flowVars, mpc, held>>

(* flush_buffer_impl() after a notification: is_done(), and then the buffer  *)
(* is emptied and the node goes on, or push_all() returns.                   *)
FlushTest(i) ==
  /\ wpc[i] = "flushtest" /\ ~held
  /\ fault' = (state[i] = "initializing")
  /\ IF state[i] \in Output
     THEN /\ wpc' = [wpc EXCEPT ![i] = "flushwait"]
          /\ UNCHANGED outbuf
     ELSE /\ wpc' = [wpc EXCEPT ![i] = IF complete[i] THEN "loop" ELSE "work"]
          /\ outbuf' = [outbuf EXCEPT ![i] = <<>>]
  /\ UNCHANGED <<inbuf, emitted, state, runningWorkers, eptr, complete,
                 phaseVars, flowVars, mainVars>>

(* A node of the worker throws in push(); before::worker() catches. *)
WorkerThrow(i) ==
  /\ "worker" \in MayThrow
  /\ wpc[i] = "work" /\ inbuf[i] # <<>>
  /\ wpc' = [wpc EXCEPT ![i] = "catch"]
  /\ UNCHANGED <<bufferVars, state, runningWorkers, eptr, complete, phaseVars,
                 flowVars, mainVars, fault>>

(* Mutant: the exception is not kept for the main thread. *)
CatchSilent(i) ==
  /\ wpc[i] = "catch" /\ ~held
  /\ Transition(i, "processing", "idle")
  /\ UNCHANGED eptr
  /\ NotifyProducer
  /\ wpc' = [wpc EXCEPT ![i] = "wait"]
  /\ UNCHANGED <<bufferVars, runningWorkers, complete, phaseVars, flowVars,
                 mpc, held>>

WorkerCatch(i) ==
  /\ wpc[i] = "catch" /\ ~held
  /\ Transition(i, "processing", "idle")
  /\ eptr' = TRUE
  /\ NotifyProducer
  /\ wpc' = [wpc EXCEPT ![i] = "wait"]
  /\ UNCHANGED <<bufferVars, runningWorkers, complete, phaseVars, flowVars,
                 mpc, held>>

-----------------------------------------------------------------------------
(* begin() of the nodes of worker started+1, the last of which starts the    *)
(* thread (before::begin()); one of the others may throw.                    *)
StartThread ==
  /\ mpc = "begin" /\ started < NumJobs
  /\ started' = started + 1
  /\ wpc' = [wpc EXCEPT ![started + 1] = "start"]
  /\ UNCHANGED <<bufferVars, state, runningWorkers, eptr, complete,
                 maintainOrder, ending, dying, toEnd, joined, result,
                 flowVars, mainVars, fault>>

BeginThrow ==
  /\ mpc = "begin" /\ started \in BeginThrows /\ ~mwait
  /\ mpc' = "dtor" /\ result' = "failed"
  /\ UNCHANGED <<bufferVars, workerVars, maintainOrder, ending, dying, started,
                 toEnd, joined, flowVars, mwait, held, fault>>

(* producerCond.wait(lock) *)
Wait(at) == mpc' = at /\ mwait' = TRUE /\ held' = FALSE

(* The main thread goes on at another place, with or without the mutex. *)
GoOn(at, lock) == mpc' = at /\ held' = lock /\ UNCHANGED mwait

(* producer::begin() *)
ProducerBegin ==
  /\ mpc = "begin" /\ started = NumJobs /\ ~mwait
  /\ IF runningWorkers = NumJobs THEN GoOn("feed", FALSE) ELSE Wait("begin")
  /\ UNCHANGED <<bufferVars, workerVars, phaseVars, flowVars, fault>>

(* producer::push() as long as the input buffer has room. *)
Feed ==
  /\ mpc = "feed" /\ fed < Items
  /\ fed' = fed + 1
  /\ written' = Append(written, fed + 1)
  /\ mpc' = IF Len(written) + 1 < BufSize THEN "feed" ELSE "full"
  /\ UNCHANGED <<bufferVars, workerVars, phaseVars, out, outputOrder, mwait,
                 held, fault>>

(* producer::push(): the input buffer is full. *)
FeedFull ==
  /\ mpc = "full"
  /\ GoOn(IF eptr THEN "stop" ELSE "empty", TRUE)
  /\ UNCHANGED <<bufferVars, workerVars, phaseVars, flowVars, fault>>

(* producer::end(), called when the source is exhausted. *)
EndCall ==
  /\ mpc = "feed"
  /\ ending' = TRUE
  /\ GoOn("empty", TRUE)
  /\ UNCHANGED <<bufferVars, workerVars, maintainOrder, dying, started, toEnd,
                 joined, result, flowVars, fault>>

(* A node before the pipe throws. *)
FeedThrow ==
  /\ "main" \in MayThrow
  /\ mpc = "feed"
  /\ mpc' = "dtor" /\ result' = "failed"
  /\ UNCHANGED <<bufferVars, workerVars, maintainOrder, ending, dying, started,
                 toEnd, joined, flowVars, mwait, held, fault>>

First(S) == CHOOSE i \in S : \A k \in S : i <= k

(* has_outputting_pipe() *)
OutputtingPipes(inOrder) ==
  {i \in Pipes : /\ state[i] \in Output
                 /\ inOrder => outputOrder # <<>> /\ Head(outputOrder) = i}

(* Mutant: the order of the outputs is not maintained. *)
AnyReadyPipe == {i \in Pipes : state[i] \in Output \cup {"idle"}}

(* has_ready_pipe() *)
ReadyPipes ==
  OutputtingPipes(maintainOrder) \cup {i \in Pipes : state[i] = "idle"}

(* has_processing_pipe() *)
HasProcessing == \E i \in Pipes : state[i] = "processing"

(* Mutant: the worker is not entered in m_outputOrder. *)
SendUnordered(i) ==
  /\ inbuf'   = [inbuf EXCEPT ![i] = written]
  /\ emitted' = [emitted EXCEPT ![i] = 0]
  /\ Transition(i, "idle", "processing")
  /\ NotifyWorker(i)
  /\ written' = <<>>
  /\ UNCHANGED outputOrder
  /\ GoOn("empty", TRUE)
  /\ UNCHANGED <<outbuf, runningWorkers, eptr, complete, phaseVars, fed, out>>

(* empty_input_buffer(), case IDLE: the input buffer goes to the worker. *)
Send(i) ==
  /\ inbuf'   = [inbuf EXCEPT ![i] = written]
  /\ emitted' = [emitted EXCEPT ![i] = 0]
  /\ Transition(i, "idle", "processing")
  /\ NotifyWorker(i)
  /\ written' = <<>>
  /\ outputOrder' = IF maintainOrder THEN Append(outputOrder, i)
                                     ELSE outputOrder
  /\ GoOn("empty", TRUE)
  /\ UNCHANGED <<outbuf, runningWorkers, eptr, complete, phaseVars, fed, out>>

(* empty_input_buffer() and end(): the consumer takes the output of worker   *)
(* i.  The loop of end() does not notify a worker it makes idle.             *)
Receive(i) ==
  /\ out' = out \o outbuf[i]
  /\ IF state[i] = "partial_output"
     THEN /\ Transition(i, "partial_output", "processing")
          /\ NotifyWorker(i)
          /\ UNCHANGED outputOrder
     ELSE /\ Transition(i, "outputting", "idle")
          /\ IF mpc = "drain" THEN UNCHANGED wpc ELSE NotifyWorker(i)
          /\ outputOrder' = IF maintainOrder THEN Tail(outputOrder)
                                             ELSE outputOrder
  /\ GoOn(mpc, TRUE)
  /\ UNCHANGED <<bufferVars, runningWorkers, eptr, complete, phaseVars, fed,
                 written>>

(* A node after the pipe throws in the middle of consume(). *)
ReceiveThrow(i) ==
  /\ "main" \in MayThrow
  /\ \E k \in 0..Len(outbuf[i]) : out' = out \o SubSeq(outbuf[i], 1, k)
  /\ GoOn("dtor", FALSE) /\ result' = "failed"
  /\ UNCHANGED <<bufferVars, workerVars, maintainOrder, ending, dying, started,
                 toEnd, joined, fed, written, outputOrder, fault>>

(* empty_input_buffer(): one pass of its loop, with handle_exceptions(). *)
EmptyInputBuffer ==
  /\ mpc = "empty" /\ ~mwait
  /\ \/ /\ written = <<>>
        /\ GoOn(IF ending THEN "drain" ELSE "feed", ending)
        /\ UNCHANGED <<bufferVars, workerVars, phaseVars, flowVars, fault>>
     \/ /\ written # <<>> /\ eptr
        /\ GoOn("stop", TRUE)
        /\ UNCHANGED <<bufferVars, workerVars, phaseVars, flowVars, fault>>
     \/ /\ written # <<>> /\ ~eptr /\ ReadyPipes = {}
        /\ Wait("empty")
        /\ UNCHANGED <<bufferVars, workerVars, phaseVars, flowVars, fault>>
     \/ /\ written # <<>> /\ ~eptr /\ ReadyPipes # {}
        /\ LET i == First(ReadyPipes) IN
             IF state[i] = "idle" THEN Send(i) ELSE Receive(i) \/ ReceiveThrow(i)

(* Mutant: end() looks at the exceptions of the workers only at its end. *)
DrainDeaf ==
  /\ mpc = "drain" /\ ~mwait
  /\ IF OutputtingPipes(maintainOrder) # {} THEN
       LET i == First(OutputtingPipes(maintainOrder)) IN
         Receive(i) \/ ReceiveThrow(i)
     ELSE IF HasProcessing THEN
       /\ Wait("drain")
       /\ UNCHANGED <<bufferVars, workerVars, phaseVars, flowVars, fault>>
     ELSE
       /\ GoOn("finish", TRUE)
       /\ UNCHANGED <<bufferVars, workerVars, phaseVars, flowVars, fault>>

(* end(): one pass of the loop that fetches the remaining outputs. *)
Drain ==
  /\ mpc = "drain" /\ ~mwait
  /\ \/ /\ eptr
        /\ GoOn("stop", TRUE)
        /\ UNCHANGED <<bufferVars, workerVars, phaseVars, flowVars, fault>>
     \/ /\ ~eptr /\ OutputtingPipes(maintainOrder) # {}
        /\ LET i == First(OutputtingPipes(maintainOrder)) IN
             Receive(i) \/ ReceiveThrow(i)
     \/ /\ ~eptr /\ OutputtingPipes(maintainOrder) = {} /\ HasProcessing
        /\ Wait("drain")
        /\ UNCHANGED <<bufferVars, workerVars, phaseVars, flowVars, fault>>
     \/ /\ ~eptr /\ OutputtingPipes(maintainOrder) = {} /\ ~HasProcessing
        /\ GoOn("finish", TRUE)
        /\ UNCHANGED <<bufferVars, workerVars, phaseVars, flowVars, fault>>

(* Every worker that is in one of the states from becomes done and is        *)
(* notified; those in the states skip are left alone.                        *)
Dismiss(from, skip) ==
  /\ fault' = (\E i \in Pipes : state[i] \notin from \cup skip)
  /\ state' = [i \in Pipes |-> IF state[i] \in from THEN "done" ELSE state[i]]
  /\ wpc' = [i \in Pipes |->
               IF state[i] \in from /\ wpc[i] = "wait" THEN "loop" ELSE
               IF state[i] \in from /\ wpc[i] = "flushwait" THEN "flushtest"
               ELSE wpc[i]]

(* end(): all workers are idle; tell them to stop, wait for them, and look   *)
(* for a last exception.                                                     *)
Finish ==
  /\ mpc = "finish"
  /\ Dismiss({"idle"}, {})
  /\ GoOn("close", TRUE)
  /\ UNCHANGED <<bufferVars, runningWorkers, eptr, complete, phaseVars, flowVars>>

CloseWorkers ==
  /\ mpc = "close" /\ ~mwait
  /\ IF eptr THEN GoOn("stop", TRUE) ELSE
     IF runningWorkers = 0 THEN GoOn("ends", FALSE) ELSE Wait("close")
  /\ UNCHANGED <<bufferVars, workerVars, phaseVars, flowVars, fault>>

(* end() of the nodes of worker i, called by the main thread once the        *)
(* producer's has returned: what they push goes through after::push() and    *)
(* flush_buffer_impl(), which finds the worker done and consumes at once.    *)
EndNodes(i) ==
  /\ mpc = "ends" /\ i \in toEnd
  /\ fault' = (state[i] # "done")
  /\ toEnd' = toEnd \ {i}
  /\ out' = out \o outbuf[i] \o [k \in 1..EndEmits |-> Items + 1]
  /\ outbuf' = [outbuf EXCEPT ![i] = <<>>]
  /\ UNCHANGED <<inbuf, emitted, workerVars, maintainOrder, ending, dying,
                 started, joined, result, fed, written, outputOrder, mainVars>>

EndThrow ==
  /\ "main" \in MayThrow
  /\ mpc = "ends" /\ toEnd # {}
  /\ mpc' = "dtor" /\ result' = "failed"
  /\ UNCHANGED <<bufferVars, workerVars, maintainOrder, ending, dying, started,
                 toEnd, joined, flowVars, mwait, held, fault>>

PhaseDone ==
  /\ mpc = "ends" /\ toEnd = {}
  /\ mpc' = "dtor" /\ result' = "ok"
  /\ UNCHANGED <<bufferVars, workerVars, maintainOrder, ending, dying, started,
                 toEnd, joined, flowVars, mwait, held, fault>>

-----------------------------------------------------------------------------
(* ~producer takes the mutex and stops the workers. *)
Destroy ==
  /\ mpc = "dtor"
  /\ dying' = TRUE
  /\ GoOn("stop", TRUE)
  /\ UNCHANGED <<bufferVars, workerVars, maintainOrder, ending, started, toEnd,
                 joined, result, flowVars, fault>>

(* stop_workers() returns: handle_exceptions() rethrows what the worker      *)
(* threw, or ~producer goes on to destroy the workers' nodes.                *)
StopReturn ==
  IF dying THEN GoOn("join", FALSE) /\ UNCHANGED result
           ELSE GoOn("dtor", FALSE) /\ result' = "failed"

(* stop_workers(): one pass of its first loop.  Outputs are dropped, in any  *)
(* order, until no worker is processing or offering output; then all of      *)
(* them are dismissed.                                                       *)
StopWorkers ==
  /\ mpc = "stop" /\ ~mwait
  /\ \/ /\ runningWorkers = 0
        /\ StopReturn
        /\ UNCHANGED <<bufferVars, workerVars, maintainOrder, ending, dying,
                       started, toEnd, joined, flowVars, fault>>
     \/ /\ runningWorkers # 0 /\ OutputtingPipes(FALSE) # {}
        /\ LET i == First(OutputtingPipes(FALSE)) IN
             IF state[i] = "partial_output"
             THEN Transition(i, "partial_output", "processing") /\ NotifyWorker(i)
             ELSE Transition(i, "outputting", "idle") /\ UNCHANGED wpc
        /\ GoOn("stop", TRUE)
        /\ UNCHANGED <<bufferVars, runningWorkers, eptr, complete, phaseVars,
                       flowVars>>
     \/ /\ runningWorkers # 0 /\ OutputtingPipes(FALSE) = {} /\ HasProcessing
        /\ Wait("stop")
        /\ UNCHANGED <<bufferVars, workerVars, phaseVars, flowVars, fault>>
     \/ /\ runningWorkers # 0 /\ OutputtingPipes(FALSE) = {} /\ ~HasProcessing
        /\ Dismiss({"idle", "initializing"}, {"done"})
        /\ GoOn("stopped", TRUE)
        /\ UNCHANGED <<bufferVars, runningWorkers, eptr, complete, phaseVars,
                       flowVars>>

StopWait ==
  /\ mpc = "stopped" /\ ~mwait
  /\ \/ /\ runningWorkers > 0
        /\ Wait("stopped")
        /\ UNCHANGED result
     \/ /\ runningWorkers = 0
        /\ StopReturn
  /\ UNCHANGED <<bufferVars, workerVars, maintainOrder, ending, dying, started,
                 toEnd, joined, flowVars, fault>>

(* ~before of the next worker: it takes the mutex, asserts the state, and    *)
(* joins the thread with the mutex in its hands.                             *)
JoinLock ==
  /\ mpc = "join" /\ joined < NumJobs
  /\ fault' = (state[joined + 1] \notin {"initializing", "done"})
  /\ GoOn("joining", TRUE)
  /\ UNCHANGED <<bufferVars, workerVars, phaseVars, flowVars>>

Joined ==
  /\ mpc = "joining"
  /\ wpc[joined + 1] \in {"none", "exit"}
  /\ joined' = joined + 1
  /\ GoOn(IF joined' < NumJobs THEN "join" ELSE "over", FALSE)
  /\ UNCHANGED <<bufferVars, workerVars, maintainOrder, ending, dying, started,
                 toEnd, result, flowVars, fault>>

-----------------------------------------------------------------------------
WorkerStep(i) ==
  \/ WorkerStart(i) \/ WorkerLoop(i)
  \/ Push(i) \/ NextItem(i) \/ PushAllDone(i)
  \/ Flush(i) \/ FlushTest(i) \/ WorkerThrow(i) \/ WorkerCatch(i)

MainStep ==
  \/ StartThread \/ BeginThrow \/ ProducerBegin
  \/ Feed \/ FeedFull \/ EndCall \/ FeedThrow
  \/ EmptyInputBuffer \/ Drain \/ Finish \/ CloseWorkers
  \/ (\E i \in Pipes : EndNodes(i)) \/ EndThrow \/ PhaseDone
  \/ Destroy \/ StopWorkers \/ StopWait \/ JoinLock \/ Joined

Next == ~fault /\ (MainStep \/ \E i \in Pipes : WorkerStep(i))

(* Every thread that can go on does: the scheduler is fair, the source and   *)
(* the nodes terminate.                                                      *)
Fairness ==
  /\ WF_vars(~fault /\ MainStep)
  /\ \A i \in Pipes : WF_vars(~fault /\ WorkerStep(i))

Spec     == Init /\ [][Next]_vars
FairSpec == Spec /\ Fairness

-----------------------------------------------------------------------------
TypeOK ==
  /\ maintainOrder \in BOOLEAN /\ eptr \in BOOLEAN /\ fault \in BOOLEAN
  /\ state \in [Pipes -> States]
  /\ inbuf \in [Pipes -> Seq(1..Items)] /\ emitted \in [Pipes -> Nat]
  /\ outbuf \in [Pipes -> Seq(1..Items)]
  /\ outputOrder \in Seq(Pipes) /\ runningWorkers \in 0..NumJobs
  /\ wpc \in [Pipes -> {"none", "start", "loop", "wait", "work", "flush",
                        "flushwait", "flushtest", "catch", "exit"}]
  /\ complete \in [Pipes -> BOOLEAN]
  /\ mpc \in {"begin", "feed", "full", "empty", "drain", "finish", "close",
              "ends", "dtor", "stop", "stopped", "join", "joining", "over"}
  /\ mwait \in BOOLEAN /\ held \in BOOLEAN
  /\ ending \in BOOLEAN /\ dying \in BOOLEAN
  /\ started \in 0..NumJobs /\ toEnd \in SUBSET Pipes /\ joined \in 0..NumJobs
  /\ fed \in 0..Items /\ written \in Seq(1..Items)
  /\ out \in Seq(1..Items + 1)
  /\ result \in {"none", "ok", "failed"}

(* Main and worker threads agree on every state of the protocol: no           *)
(* transition_state(), ready(), is_done() or assertion of ~before throws.     *)
NoProtocolFault == ~fault

(* The buffers are shared without a lock around the work: a worker runs its    *)
(* nodes only when it is processing, the main thread reads an output buffer    *)
(* only when its worker waits for that, and the input buffer of an idle        *)
(* worker, which the main thread may overwrite, has been used up.              *)
BuffersNotShared ==
  \A i \in Pipes :
    /\ wpc[i] \in {"work", "flush", "catch"} => state[i] = "processing"
    /\ state[i] \in Output => wpc[i] \in {"flushwait", "flushtest"}
    /\ state[i] = "idle" /\ ~eptr => inbuf[i] = <<>>

Busy == {i \in Pipes : state[i] \in Output \cup {"processing"}}

(* The items worker i still has to answer for: its outputs count until they   *)
(* are consumed, which it may not have noticed yet.                           *)
Inside(i) ==
  {x \in 1..Items :
    \/ \E p \in DOMAIN inbuf[i] : inbuf[i][p] = x
    \/ /\ state[i] \in Output \/ wpc[i] \in {"work", "flush"}
       /\ \E p \in DOMAIN outbuf[i] : outbuf[i][p] = x}

(* Until an exception stops the workers, m_outputOrder lists every busy        *)
(* worker once (so it stays within its NumJobs entries and has a front when    *)
(* one is asked for), in the order of the items they hold.                     *)
OutputOrderExact ==
  maintainOrder /\ ~eptr /\ ~dying =>
    /\ Len(outputOrder) = Cardinality(Busy)
    /\ Busy = {outputOrder[k] : k \in DOMAIN outputOrder}
    /\ \A k, l \in DOMAIN outputOrder : k < l =>
         \A x \in Inside(outputOrder[k]), y \in Inside(outputOrder[l]) : x < y

(* The pipe does what its nodes would do in a single thread.                   *)
Serial == INSTANCE SerialPipe WITH
  EndOutputs <- NumJobs * EndEmits, ordered <- maintainOrder, accepted <- fed,
  status <- IF result = "ok" THEN "closed" ELSE
            IF result = "failed" THEN "failed" ELSE "open"

ImplementsSerialPipe == Serial!SerialSpec

(* Whatever is thrown where, the phase comes to its end: nobody sleeps through *)
(* the notification he needs, and every thread is joined.                      *)
EveryPhaseEnds == <>(mpc = "over")

(* An exception thrown on a worker thread reaches the caller of the pipeline.  *)
ThrownIsReported == \A i \in Pipes : wpc[i] = "catch" ~> result = "failed"

(* stop_workers() is graceful: once the destruction of the pipe has begun, all  *)
(* of its threads stop and the destruction ends.                                *)
StopIsGraceful == mpc = "dtor" ~> mpc = "over"
=============================================================================
