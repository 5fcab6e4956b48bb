---------------------------- MODULE JobManager ----------------------------
(***************************************************************************)
(* The job pool of tpie/job.cpp: a bounded queue of jobs, worker threads   *)
(* that pop and run them, and a tree of jobs in which a job is done when   *)
(* its operator() and all its subjobs are done.                            *)
(*                                                                         *)
(* A job runs on at most one thread, so the position of an activation is   *)
(* kept with the job (pc) and the call stack of a thread is the chain of   *)
(* jobs linked by caller: caller[j] is the body (or Main) that is still    *)
(* inside j->enqueue(), either before the critical section or because the  *)
(* queue was full and enqueue() runs j itself.  Every critical section of  *)
(* jobs_mutex is one step, except done(), whose recursion up the tree is   *)
(* one step per job with the mutex held (Locked) in between, because       *)
(* enqueue() and run() also touch m_state without the mutex.               *)
(***************************************************************************)
EXTENDS Integers, Sequences, FiniteSets

CONSTANTS
  Jobs,      (* job objects                                                *)
  Roots,     (* the jobs the client thread enqueues without a parent       *)
  Spawns,    (* Spawns[j]: the jobs that j's operator() may enqueue        *)
  Workers,   (* thread slots; a pool is a nonempty set of them             *)
  Capacity,  (* capacity of m_jobs, 128 in the code                        *)
  MaxRuns,   (* bound: activations of one job                              *)
  MaxResize, (* bound: calls of set_worker_count                           *)
  Main,      (* the client thread, as the caller of enqueue()              *)
  NoJob      (* null job pointer                                           *)

ASSUME JobsAssumption ==
  /\ IsFiniteSet(Jobs)
  /\ Roots \subseteq Jobs
  /\ Spawns \in [Jobs -> SUBSET Jobs]
  /\ NoJob \notin Jobs /\ Main \notin Jobs /\ Main # NoJob
ASSUME PoolAssumption ==
  /\ Workers # {} /\ IsFiniteSet(Workers)
  /\ Capacity \in Nat \ {0}
  /\ MaxRuns \in Nat /\ MaxResize \in Nat

VARIABLES
  state,      (* m_state of each job                                       *)
  deps,       (* m_dependencies                                            *)
  parent,     (* m_parent                                                  *)
  queue,      (* m_jobs                                                    *)
  killed,     (* m_kill_job_pool                                           *)
  pc,         (* position of each job's activation                         *)
  caller,     (* who is inside j->enqueue()                                *)
  arg,        (* the argument parent of the enqueue() in progress          *)
  holder,     (* the job whose done() is about to run, mutex held          *)
  chain,      (* the jobs with a live done() frame, mutex held             *)
  wstate,     (* what each worker thread does                              *)
  wjob,       (* the job a worker popped and is running                    *)
  client,     (* the client thread: [op, job]                              *)
  terminated, (* an exception left a worker thread: std::terminate         *)
  runs,       (* activations started, per job (bound)                      *)
  resizes     (* calls of set_worker_count (bound)                         *)

jobVars    == <<state, deps, parent, pc, caller, arg>>
lockVars   == <<holder, chain>>
workerVars == <<wstate, wjob>>
boundVars  == <<runs, resizes>>
vars == <<jobVars, lockVars, workerVars, boundVars, queue, killed, client,
          terminated>>

JobOrNone == Jobs \cup {NoJob}
Frames    == {"queued", "claimed", "body", "ended", "finishing"}

(* done() runs with jobs_mutex held until its outermost frame returns. *)
Locked == \E j \in Jobs : pc[j] = "finishing"

(* A body is blocked while it is inside an enqueue() call. *)
Blocked(c) == \E j \in Jobs : caller[j] = c

Free == client.op = "free" /\ ~Blocked(Main)

-----------------------------------------------------------------------------
(* job::job() and job_manager::init_pool(): idle jobs, every worker about   *)
(* to take the mutex for the first time.                                    *)
Init ==
  /\ state  = [j \in Jobs |-> "idle"]
  /\ deps   = [j \in Jobs |-> 0]
  /\ parent = [j \in Jobs |-> NoJob]
  /\ pc     = [j \in Jobs |-> "idle"]
  /\ caller = [j \in Jobs |-> NoJob]
  /\ arg    = [j \in Jobs |-> NoJob]
  /\ queue  = <<>> /\ killed = FALSE
  /\ holder = NoJob /\ chain = {}
  /\ wstate = [w \in Workers |-> "ready"]
  /\ wjob   = [w \in Workers |-> NoJob]
  /\ client = [op |-> "free", job |-> NoJob]
  /\ terminated = FALSE
  /\ runs = [j \in Jobs |-> 0] /\ resizes = 0

-----------------------------------------------------------------------------
(* enqueue(), up to the mutex: m_state is tested and set without it.  The    *)
(* client keeps the contract of the class: a job is enqueued when it never   *)
(* ran or when join() or is_done() has told that it is done.                 *)
Mark(j, c, p) ==
  /\ pc[j] = "idle" /\ state[j] = "idle" /\ j \notin chain /\ ~terminated
  /\ runs[j] < MaxRuns
  /\ pc'     = [pc EXCEPT ![j] = "marked"]
  /\ state'  = [state EXCEPT ![j] = "enqueued"]
  /\ caller' = [caller EXCEPT ![j] = c]
  /\ arg'    = [arg EXCEPT ![j] = p]
  /\ runs'   = [runs EXCEPT ![j] = @ + 1]
  /\ UNCHANGED <<deps, parent, lockVars, workerVars, queue, killed, client,
                 terminated, resizes>>

EnqueueRoot(j) == j \in Roots /\ Free /\ Mark(j, Main, NoJob)

(* A body enqueues a subjob of its own, or of its parent (a sibling), which  *)
(* is alive because the running body is one of its dependencies.             *)
EnqueueSub(b, j) ==
  /\ pc[b] = "body" /\ ~Blocked(b) /\ j \in Spawns[b]
  /\ \E p \in {b, parent[b]} : Mark(j, b, p)

(* Mutant: the parent does not count the new subjob. *)
RegisterNoParent(j) ==
  /\ parent' = [parent EXCEPT ![j] = arg[j]]
  /\ deps'   = [deps EXCEPT ![j] = 1]
  /\ arg'    = [arg EXCEPT ![j] = NoJob]

(* Mutant: the job does not count its own operator(). *)
RegisterNoOwn(j) ==
  /\ parent' = [parent EXCEPT ![j] = arg[j]]
  /\ deps'   = [k \in Jobs |-> IF k = arg[j] THEN deps[k] + 1 ELSE deps[k]]
  /\ arg'    = [arg EXCEPT ![j] = NoJob]

(* The job gets its own dependency and becomes one of its parent's. *)
Register(j) ==
  /\ parent' = [parent EXCEPT ![j] = arg[j]]
  /\ deps'   = [k \in Jobs |-> IF k = j      THEN 1 ELSE
                               IF k = arg[j] THEN deps[k] + 1 ELSE deps[k]]
  /\ arg'    = [arg EXCEPT ![j] = NoJob]

(* m_has_data.notify_one() *)
NotifyOne ==
  \/ /\ \A w \in Workers : wstate[w] # "waiting"
     /\ UNCHANGED wstate
  \/ \E w \in Workers :
       /\ wstate[w] = "waiting"
       /\ wstate' = [wstate EXCEPT ![w] = "ready"]

(* Mutant: a job is pushed without notify_one(). *)
PushSilent(j) ==
  /\ pc[j] = "marked" /\ ~Locked /\ ~terminated /\ ~killed
  /\ Len(queue) < Capacity
  /\ Register(j)
  /\ queue'  = Append(queue, j)
  /\ pc'     = [pc EXCEPT ![j] = "queued"]
  /\ caller' = [caller EXCEPT ![j] = NoJob]
  /\ UNCHANGED <<state, lockVars, wstate, wjob, boundVars, killed, client,
                 terminated>>

(* enqueue(), critical section: room in the queue. *)
Push(j) ==
  /\ pc[j] = "marked" /\ ~Locked /\ ~terminated /\ ~killed
  /\ Len(queue) < Capacity
  /\ Register(j)
  /\ queue'  = Append(queue, j)
  /\ pc'     = [pc EXCEPT ![j] = "queued"]
  /\ caller' = [caller EXCEPT ![j] = NoJob]
  /\ NotifyOne
  /\ UNCHANGED <<state, lockVars, wjob, boundVars, killed, client, terminated>>

(* enqueue(), critical section: the queue is full and the calling thread     *)
(* runs the job itself; enqueue() has not returned, so caller stays.         *)
PushFull(j) ==
  /\ pc[j] = "marked" /\ ~Locked /\ ~terminated /\ ~killed
  /\ Len(queue) = Capacity
  /\ Register(j)
  /\ pc' = [pc EXCEPT ![j] = "claimed"]
  /\ UNCHANGED <<state, caller, lockVars, workerVars, boundVars, queue, killed,
                 client, terminated>>

(* enqueue(), critical section: the pool is being shut down by                *)
(* set_worker_count and job_manager_exception leaves the body and its thread. *)
PushKilled(j) ==
  /\ pc[j] = "marked" /\ ~Locked /\ ~terminated /\ killed
  /\ terminated' = TRUE
  /\ UNCHANGED <<jobVars, lockVars, workerVars, boundVars, queue, killed,
                 client>>

-----------------------------------------------------------------------------
(* job_manager::worker(): one pass of its loop up to the unlock. *)
WorkerWait(w) ==
  /\ wstate[w] = "ready" /\ ~Locked /\ ~terminated
  /\ queue = <<>> /\ ~killed
  /\ wstate' = [wstate EXCEPT ![w] = "waiting"]
  /\ UNCHANGED <<jobVars, lockVars, wjob, boundVars, queue, killed, client,
                 terminated>>

WorkerQuit(w) ==
  /\ wstate[w] = "ready" /\ ~Locked /\ ~terminated
  /\ killed
  /\ wstate' = [wstate EXCEPT ![w] = "off"]
  /\ UNCHANGED <<jobVars, lockVars, wjob, boundVars, queue, killed, client,
                 terminated>>

(* Mutant: front() without pop(). *)
WorkerFront(w) ==
  /\ wstate[w] = "ready" /\ ~Locked /\ ~terminated
  /\ queue # <<>> /\ ~killed
  /\ UNCHANGED queue
  /\ pc'     = [pc EXCEPT ![Head(queue)] = "claimed"]
  /\ wjob'   = [wjob EXCEPT ![w] = Head(queue)]
  /\ wstate' = [wstate EXCEPT ![w] = "running"]
  /\ UNCHANGED <<state, deps, parent, caller, arg, lockVars, boundVars, killed,
                 client, terminated>>

WorkerPop(w) ==
  /\ wstate[w] = "ready" /\ ~Locked /\ ~terminated
  /\ queue # <<>> /\ ~killed
  /\ queue'  = Tail(queue)
  /\ pc'     = [pc EXCEPT ![Head(queue)] = "claimed"]
  /\ wjob'   = [wjob EXCEPT ![w] = Head(queue)]
  /\ wstate' = [wstate EXCEPT ![w] = "running"]
  /\ UNCHANGED <<state, deps, parent, caller, arg, lockVars, boundVars, killed,
                 client, terminated>>

(* run(), before operator(): m_state is tested and set without the mutex. *)
RunStart(j) ==
  /\ pc[j] = "claimed" /\ ~terminated
  /\ state[j] = "enqueued"
  /\ state' = [state EXCEPT ![j] = "running"]
  /\ pc'    = [pc EXCEPT ![j] = "body"]
  /\ UNCHANGED <<deps, parent, caller, arg, lockVars, workerVars, boundVars,
                 queue, killed, client, terminated>>

(* operator() returns. *)
BodyEnd(j) ==
  /\ pc[j] = "body" /\ ~Blocked(j) /\ ~terminated
  /\ pc' = [pc EXCEPT ![j] = "ended"]
  /\ UNCHANGED <<state, deps, parent, caller, arg, lockVars, workerVars,
                 boundVars, queue, killed, client, terminated>>

(* run(), after operator(): the lock_guard, and the first call of done(). *)
RunEnd(j) ==
  /\ pc[j] = "ended" /\ ~Locked /\ ~terminated
  /\ pc'     = [pc EXCEPT ![j] = "finishing"]
  /\ holder' = j
  /\ UNCHANGED <<state, deps, parent, caller, arg, chain, workerVars,
                 boundVars, queue, killed, client, terminated>>

(* m_done.notify_all() *)
NotifyJoin(j) ==
  client' = IF client = [op |-> "joinwait", job |-> j]
            THEN [op |-> "join", job |-> j] ELSE client

(* Mutant: done() without notify_all(). *)
DoneSilent(j) ==
  /\ holder = j /\ ~terminated
  /\ state[j] = "running"
  /\ deps'  = [deps EXCEPT ![j] = @ - 1]
  /\ chain' = chain \cup {j}
  /\ IF deps[j] = 1
     THEN /\ state' = [state EXCEPT ![j] = "idle"]
          /\ holder' = parent[j]
     ELSE /\ holder' = NoJob
          /\ UNCHANGED state
  /\ UNCHANGED <<parent, pc, caller, arg, workerVars, boundVars, queue, killed,
                 terminated, client>>

(* Mutant: done() goes idle whether or not dependencies are left. *)
DoneEarly(j) ==
  /\ holder = j /\ ~terminated
  /\ state[j] = "running"
  /\ deps'  = [deps EXCEPT ![j] = @ - 1]
  /\ chain' = chain \cup {j}
  /\ state' = [state EXCEPT ![j] = "idle"]
  /\ holder' = parent[j]
  /\ NotifyJoin(j)
  /\ UNCHANGED <<parent, pc, caller, arg, workerVars, boundVars, queue, killed,
                 terminated>>

(* done(): one frame of the recursion towards the root of the tree.  The     *)
(* notification (and on_done()) of a frame follows the parent's frame in the *)
(* code; the mutex is held throughout, so the client cannot tell.            *)
Done(j) ==
  /\ holder = j /\ ~terminated
  /\ state[j] = "running"
  /\ deps'  = [deps EXCEPT ![j] = @ - 1]
  /\ chain' = chain \cup {j}
  /\ IF deps[j] = 1
     THEN /\ state' = [state EXCEPT ![j] = "idle"]
          /\ holder' = parent[j]
          /\ NotifyJoin(j)
     ELSE /\ holder' = NoJob
          /\ UNCHANGED <<state, client>>
  /\ UNCHANGED <<parent, pc, caller, arg, workerVars, boundVars, queue, killed,
                 terminated>>

(* The outermost done() and run() return: the mutex is released, and the     *)
(* thread goes back to its loop or to the body that called enqueue().        *)
RunReturn(j) ==
  /\ pc[j] = "finishing" /\ holder = NoJob /\ ~terminated
  /\ pc'     = [pc EXCEPT ![j] = "idle"]
  /\ chain'  = {}
  /\ caller' = [caller EXCEPT ![j] = NoJob]
  /\ wstate' = [w \in Workers |-> IF wjob[w] = j THEN "ready" ELSE wstate[w]]
  /\ wjob'   = [w \in Workers |-> IF wjob[w] = j THEN NoJob ELSE wjob[w]]
  /\ UNCHANGED <<state, deps, parent, arg, holder, boundVars, queue, killed,
                 client, terminated>>

-----------------------------------------------------------------------------
(* The client calls join(). *)
JoinCall(j) ==
  /\ Free /\ j \in Roots /\ runs[j] > 0 /\ ~terminated
  /\ client' = [op |-> "join", job |-> j]
  /\ UNCHANGED <<jobVars, lockVars, workerVars, boundVars, queue, killed,
                 terminated>>

(* Mutant: join() reads m_dependencies without the mutex. *)
JoinTestUnlocked(j) ==
  /\ client = [op |-> "join", job |-> j] /\ ~terminated
  /\ client' = IF deps[j] = 0 THEN [op |-> "free", job |-> NoJob]
                              ELSE [op |-> "joinwait", job |-> j]
  /\ UNCHANGED <<jobVars, lockVars, workerVars, boundVars, queue, killed,
                 terminated>>

(* join(), one test of m_dependencies under the mutex: return or wait. *)
JoinTest(j) ==
  /\ client = [op |-> "join", job |-> j] /\ ~Locked /\ ~terminated
  /\ client' = IF deps[j] = 0 THEN [op |-> "free", job |-> NoJob]
                              ELSE [op |-> "joinwait", job |-> j]
  /\ UNCHANGED <<jobVars, lockVars, workerVars, boundVars, queue, killed,
                 terminated>>

(* set_worker_count(): shutdown_pool() under the mutex ...                   *)
Shutdown ==
  /\ Free /\ ~Locked /\ ~terminated
  /\ resizes < MaxResize
  /\ resizes' = resizes + 1
  /\ killed' = TRUE
  /\ wstate' = [w \in Workers |->
                  IF wstate[w] = "waiting" THEN "ready" ELSE wstate[w]]
  /\ client' = [op |-> "shutdown", job |-> NoJob]
  /\ UNCHANGED <<jobVars, lockVars, wjob, queue, runs, terminated>>

(* ... then every thread is joined, and init_pool() starts the new pool, of   *)
(* any size (with the present size set_worker_count does nothing; a pool of   *)
(* the same threads adds no new behaviour).                                   *)
InitPool(pool) ==
  /\ client.op = "shutdown" /\ ~terminated
  /\ \A w \in Workers : wstate[w] = "off"
  /\ killed' = FALSE
  /\ wstate' = [w \in Workers |-> IF w \in pool THEN "ready" ELSE "off"]
  /\ client' = [op |-> "free", job |-> NoJob]
  /\ UNCHANGED <<jobVars, lockVars, wjob, boundVars, queue, terminated>>

-----------------------------------------------------------------------------
JobStep(j) ==
  \/ Push(j) \/ PushFull(j) \/ PushKilled(j)
  \/ RunStart(j) \/ BodyEnd(j) \/ RunEnd(j) \/ Done(j) \/ RunReturn(j)

WorkerStep(w) == WorkerWait(w) \/ WorkerQuit(w) \/ WorkerPop(w)

Next ==
  \/ \E j \in Jobs : EnqueueRoot(j) \/ JoinCall(j) \/ JoinTest(j) \/ JobStep(j)
  \/ \E b, j \in Jobs : EnqueueSub(b, j)
  \/ \E w \in Workers : WorkerStep(w)
  \/ Shutdown
  \/ \E pool \in (SUBSET Workers) \ {{}} : InitPool(pool)

(* Every thread that can go on does: the scheduler is fair and operator()    *)
(* terminates.  The client need not enqueue, join or resize, but finishes    *)
(* the call it is in.                                                        *)
Fairness ==
  /\ \A j \in Jobs : WF_vars(JobStep(j)) /\ WF_vars(JoinTest(j))
  /\ \A w \in Workers : WF_vars(WorkerStep(w))
  /\ WF_vars(\E pool \in (SUBSET Workers) \ {{}} : InitPool(pool))

Spec     == Init /\ [][Next]_vars
FairSpec == Spec /\ Fairness

-----------------------------------------------------------------------------
TypeOK ==
  /\ state \in [Jobs -> {"idle", "enqueued", "running"}]
  /\ deps \in [Jobs -> Nat]
  /\ parent \in [Jobs -> JobOrNone] /\ arg \in [Jobs -> JobOrNone]
  /\ pc \in [Jobs -> Frames \cup {"idle", "marked"}]
  /\ caller \in [Jobs -> JobOrNone \cup {Main}]
  /\ queue \in Seq(Jobs) /\ killed \in BOOLEAN /\ terminated \in BOOLEAN
  /\ holder \in JobOrNone /\ chain \in SUBSET Jobs
  /\ wstate \in [Workers -> {"ready", "waiting", "running", "off"}]
  /\ wjob \in [Workers -> JobOrNone]
  /\ client \in [op : {"free", "join", "joinwait", "shutdown"}, job : JobOrNone]
  /\ runs \in [Jobs -> Nat] /\ resizes \in Nat

(* The activation of j has not yet given up its own dependency. *)
Own(j) ==
  \/ pc[j] \in {"queued", "claimed", "body", "ended"}
  \/ pc[j] = "finishing" /\ chain = {}

(* A subjob became done and its call of parent->done() is about to run. *)
CalledByKid(j) == holder = j /\ chain # {}

Kids(j) == {c \in Jobs : parent[c] = j /\ deps[c] > 0}

One(b) == IF b THEN 1 ELSE 0

(* m_dependencies is exactly one for the job's own operator() while that is  *)
(* pending, plus one per subjob that has not reported that it is done: it    *)
(* cannot underflow in done() and it cannot keep a finished job alive.       *)
DependenciesExact ==
  \A j \in Jobs :
    deps[j] = One(Own(j)) + One(CalledByKid(j)) + Cardinality(Kids(j))

(* A job with dependencies left keeps its parent from being done, and the    *)
(* parent still in the state in which done() accepts to be called.           *)
ParentOutlivesSubjob ==
  \A c \in Jobs :
    deps[c] > 0 /\ parent[c] # NoJob =>
      /\ deps[parent[c]] > 0
      /\ state[parent[c]] = "running"

(* run() and done() never throw "Bad job state", wherever the unlocked       *)
(* accesses of m_state in enqueue() and run() fall.                          *)
NoBadJobState ==
  /\ \A j \in Jobs : pc[j] = "claimed" => state[j] = "enqueued"
  /\ holder # NoJob => state[holder] = "running" /\ deps[holder] > 0

(* The jobs reachable from r by m_parent, r included. *)
Tree(r) ==
  {c \in Jobs : \A S \in SUBSET Jobs :
     r \in S /\ (\A k \in Jobs : parent[k] \in S => k \in S) => c \in S}

(* Some thread may still read or write the job object. *)
InUse(c) == pc[c] \in Frames \/ c \in chain \/ deps[c] > 0

(* When join() returns, the job and all its subjobs are done and no thread   *)
(* will touch any of them again, so the client may delete the whole tree     *)
(* ("Wait for this job and its subjobs to complete").                        *)
JoinMeansDone ==
  [][\A r \in Jobs :
       client = [op |-> "join", job |-> r] /\ client'.op = "free"
         => \A c \in Tree(r) : ~InUse(c)]_vars

(* A queued job always has a thread that will look at the queue again: a     *)
(* notification is not lost between the worker's test and its wait, nor when *)
(* the pool is replaced.                                                     *)
QueueAttended ==
  queue # <<>> /\ ~killed =>
    \E w \in Workers : wstate[w] \in {"ready", "running"}

(* Every enqueue() leads to a finished activation, also when the pool is     *)
(* replaced while the job is queued, unless the exception killed the program.*)
EveryJobCompletes ==
  \A j \in Jobs : pc[j] = "marked" ~> (pc[j] = "idle" \/ terminated)

(* Every join() returns. *)
JoinReturns == client.op = "join" ~> (client.op = "free" \/ terminated)

=============================================================================
