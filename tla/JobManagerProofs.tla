-------------------------- MODULE JobManagerProofs --------------------------
(***************************************************************************)
(* Proofs about the job pool of JobManager, for every set of jobs, every   *)
(* spawning relation, every pool and every queue capacity.                 *)
(*                                                                         *)
(* JobInv is the inductive invariant.  Its core is DependenciesExact and   *)
(* ParentOutlivesSubjob; the other conjuncts say where a job can be while  *)
(* m_state has a given value, and what holding jobs_mutex means.           *)
(***************************************************************************)
EXTENDS JobManager, FiniteSetTheorems, SequenceTheorems, TLAPS

(* The mutex is held exactly while one activation is in done(). *)
MutexInv ==
  /\ \A i, j \in Jobs : pc[i] = "finishing" /\ pc[j] = "finishing" => i = j
  /\ holder # NoJob \/ chain # {} => Locked
  /\ \A j \in Jobs : pc[j] = "finishing" /\ chain = {} => holder = j

(* What m_state is at each position of an activation. *)
StateInv ==
  /\ \A j \in Jobs :
       /\ pc[j] = "marked" => state[j] = "enqueued" /\ deps[j] = 0
       /\ pc[j] \in {"queued", "claimed"} => state[j] = "enqueued"
       /\ pc[j] \in {"body", "ended"} => state[j] = "running"
       /\ deps[j] > 0 => state[j] # "idle"
       /\ deps[j] > 0 /\ pc[j] \notin {"queued", "claimed"} => state[j] = "running"
       /\ parent[j] # j
  /\ holder # NoJob => state[holder] = "running"

(* The queue holds distinct jobs that nobody runs. *)
QueueInv ==
  /\ \A i \in 1..Len(queue) : pc[queue[i]] = "queued"
  /\ \A i, k \in 1..Len(queue) : queue[i] = queue[k] => i = k

(* Who is inside enqueue() of a marked job, and with which parent. *)
CallInv ==
  \A j \in Jobs : pc[j] = "marked" =>
    \/ caller[j] = Main /\ arg[j] = NoJob
    \/ /\ caller[j] \in Jobs
       /\ pc[caller[j]] = "body"
       /\ arg[j] \in {caller[j], parent[caller[j]]}

JobInv ==
  /\ TypeOK /\ MutexInv /\ StateInv /\ QueueInv /\ CallInv
  /\ ParentOutlivesSubjob /\ DependenciesExact

-----------------------------------------------------------------------------
(* What the dependency count says about one job. *)
LEMMA KidsFinite ==
  ASSUME NEW j \in Jobs PROVE IsFiniteSet(Kids(j)) /\ Cardinality(Kids(j)) \in Nat
<1>1. Kids(j) \subseteq Jobs  BY DEF Kids
<1> QED  BY <1>1, JobsAssumption, FS_Subset, FS_CardinalityType

LEMMA Counts ==
  ASSUME JobInv, NEW j \in Jobs
  PROVE  /\ Own(j) => deps[j] > 0
         /\ holder = j => deps[j] > 0
         /\ deps[j] = 0 => Kids(j) = {}
         /\ holder = j /\ deps[j] = 1 =>
              Kids(j) = {} /\ pc[j] \notin {"queued", "claimed", "body", "ended"}
<1>1. deps[j] = One(Own(j)) + One(CalledByKid(j)) + Cardinality(Kids(j))
  BY DEF JobInv, DependenciesExact
<1>2. Cardinality(Kids(j)) \in Nat  BY KidsFinite
<1>3. Own(j) => deps[j] > 0  BY <1>1, <1>2 DEF One
<1>4. CalledByKid(j) => deps[j] > 0  BY <1>1, <1>2 DEF One
<1>5. holder = j => Own(j) \/ CalledByKid(j)
  BY JobsAssumption DEF JobInv, MutexInv, Own, CalledByKid, Locked
<1>6. Cardinality(Kids(j)) = 0 => Kids(j) = {}
  BY KidsFinite, FS_EmptySet
<1>7. deps[j] = 0 => Kids(j) = {}
  BY <1>1, <1>2, <1>6 DEF One
<1>8. ASSUME holder = j, deps[j] = 1
      PROVE  Kids(j) = {} /\ pc[j] \notin {"queued", "claimed", "body", "ended"}
  <2>1. Kids(j) = {} /\ ~(Own(j) /\ CalledByKid(j))
    BY <1>1, <1>2, <1>5, <1>6, <1>8 DEF One
  <2>2. chain = {} => pc[j] = "finishing"
    BY <1>8, JobsAssumption DEF JobInv, MutexInv, Locked
  <2> QED  BY <1>8, <2>1, <2>2 DEF Own, CalledByKid
<1> QED  BY <1>3, <1>4, <1>5, <1>7, <1>8

(* The parent that an enqueue() in progress was given is alive. *)
LEMMA MarkedParent ==
  ASSUME JobInv, NEW j \in Jobs, pc[j] = "marked", arg[j] # NoJob
  PROVE  /\ arg[j] \in Jobs /\ arg[j] # j
         /\ deps[arg[j]] > 0 /\ state[arg[j]] = "running"
<1>1. PICK c \in Jobs : pc[c] = "body" /\ arg[j] \in {c, parent[c]}
  BY DEF JobInv, CallInv
<1>2. deps[c] > 0 /\ state[c] = "running"
  BY <1>1, Counts DEF Own, JobInv, StateInv
<1>3. deps[j] = 0 /\ arg[j] \in Jobs
  BY DEF JobInv, StateInv, TypeOK, JobOrNone
<1> QED
  BY <1>1, <1>2, <1>3 DEF JobInv, ParentOutlivesSubjob

-----------------------------------------------------------------------------
(* One lemma per conjunct of JobInv: every step preserves it. *)
LEMMA TypeStep == ASSUME JobInv, [Next]_vars PROVE TypeOK'
<1> USE JobsAssumption, PoolAssumption DEF TypeOK, Frames, JobOrNone, vars,
      jobVars, lockVars, workerVars, boundVars, Free, Mark, NotifyOne, NotifyJoin
<1> TypeOK  BY DEF JobInv
<1>1. ASSUME NEW j \in Jobs, EnqueueRoot(j)
        PROVE  TypeOK'
    BY <1>1 DEF EnqueueRoot
<1>2. ASSUME NEW j \in Jobs, JoinCall(j)
        PROVE  TypeOK'
    BY <1>2 DEF JoinCall
<1>3. ASSUME NEW j \in Jobs, JoinTest(j)
        PROVE  TypeOK'
    BY <1>3 DEF JoinTest
<1>4. ASSUME NEW j \in Jobs, Push(j)
        PROVE  TypeOK'
    <2>1. parent' \in [Jobs -> JobOrNone] /\ arg' \in [Jobs -> JobOrNone]
      BY <1>4 DEF Push, Register
    <2>2. deps' \in [Jobs -> Nat]  BY <1>4 DEF Push, Register
    <2>3. queue' \in Seq(Jobs)  BY <1>4 DEF Push
    <2>4. wstate' \in [Workers -> {"ready", "waiting", "running", "off"}]
      BY <1>4 DEF Push
    <2> QED  BY <1>4, <2>1, <2>2, <2>3, <2>4 DEF Push
<1>5. ASSUME NEW j \in Jobs, PushFull(j)
        PROVE  TypeOK'
    <2>1. deps' \in [Jobs -> Nat]  BY <1>5 DEF PushFull, Register
    <2> QED  BY <1>5, <2>1 DEF PushFull, Register
<1>6. ASSUME NEW j \in Jobs, PushKilled(j)
        PROVE  TypeOK'
    BY <1>6 DEF PushKilled
<1>7. ASSUME NEW j \in Jobs, RunStart(j)
        PROVE  TypeOK'
    BY <1>7 DEF RunStart
<1>8. ASSUME NEW j \in Jobs, BodyEnd(j)
        PROVE  TypeOK'
    BY <1>8 DEF BodyEnd
<1>9. ASSUME NEW j \in Jobs, RunEnd(j)
        PROVE  TypeOK'
    BY <1>9 DEF RunEnd
<1>10. ASSUME NEW j \in Jobs, Done(j)
        PROVE  TypeOK'
    <2>1. holder = j  BY <1>10 DEF Done
    <2>2. deps[j] > 0  BY <2>1, Counts
    <2>3. deps' \in [Jobs -> Nat]  BY <1>10, <2>2 DEF Done
    <2>4. state' \in [Jobs -> {"idle", "enqueued", "running"}]
      <3>1. state' = state \/ state' = [state EXCEPT ![j] = "idle"]
        BY <1>10 DEF Done
      <3> QED  BY <3>1
    <2>5. holder' \in JobOrNone /\ chain' \in SUBSET Jobs  BY <1>10 DEF Done
    <2>6. client' \in [op : {"free", "join", "joinwait", "shutdown"}, job : JobOrNone]
      BY <1>10 DEF Done
    <2>7. /\ parent' = parent /\ pc' = pc /\ caller' = caller /\ arg' = arg
          /\ wstate' = wstate /\ wjob' = wjob /\ runs' = runs /\ resizes' = resizes
          /\ queue' = queue /\ killed' = killed /\ terminated' = terminated
      BY <1>10 DEF Done
    <2> QED  BY <2>3, <2>4, <2>5, <2>6, <2>7
<1>11. ASSUME NEW j \in Jobs, RunReturn(j)
        PROVE  TypeOK'
    BY <1>11 DEF RunReturn
<1>12. ASSUME NEW b \in Jobs, NEW j \in Jobs, EnqueueSub(b, j)
        PROVE  TypeOK'
    BY <1>12 DEF EnqueueSub
<1>13. ASSUME NEW w \in Workers, WorkerWait(w)
        PROVE  TypeOK'
    BY <1>13 DEF WorkerWait
<1>14. ASSUME NEW w \in Workers, WorkerQuit(w)
        PROVE  TypeOK'
    BY <1>14 DEF WorkerQuit
<1>15. ASSUME NEW w \in Workers, WorkerPop(w)
        PROVE  TypeOK'
    BY <1>15 DEF WorkerPop
<1>16. ASSUME Shutdown
        PROVE  TypeOK'
    BY <1>16 DEF Shutdown
<1>17. ASSUME NEW pool \in (SUBSET Workers) \ {{}}, InitPool(pool)
        PROVE  TypeOK'
    BY <1>17 DEF InitPool
<1>18. CASE UNCHANGED vars
    BY <1>18
<1> QED
    BY <1>1, <1>2, <1>3, <1>4, <1>5, <1>6, <1>7, <1>8, <1>9, <1>10, <1>11, <1>12, <1>13, <1>14, <1>15, <1>16, <1>17, <1>18 DEF Next, JobStep, WorkerStep

LEMMA MutexStep == ASSUME JobInv, [Next]_vars PROVE MutexInv'
<1> USE JobsAssumption DEF MutexInv, Locked, Frames, JobOrNone, vars,
      jobVars, lockVars, workerVars, boundVars, Mark
<1> TypeOK /\ MutexInv  BY DEF JobInv
<1> USE DEF TypeOK
<1>1. ASSUME NEW j \in Jobs, EnqueueRoot(j)
        PROVE  MutexInv'
    BY <1>1 DEF EnqueueRoot
<1>2. ASSUME NEW j \in Jobs, JoinCall(j)
        PROVE  MutexInv'
    BY <1>2 DEF JoinCall
<1>3. ASSUME NEW j \in Jobs, JoinTest(j)
        PROVE  MutexInv'
    BY <1>3 DEF JoinTest
<1>4. ASSUME NEW j \in Jobs, Push(j)
        PROVE  MutexInv'
    BY <1>4 DEF Push
<1>5. ASSUME NEW j \in Jobs, PushFull(j)
        PROVE  MutexInv'
    BY <1>5 DEF PushFull
<1>6. ASSUME NEW j \in Jobs, PushKilled(j)
        PROVE  MutexInv'
    BY <1>6 DEF PushKilled
<1>7. ASSUME NEW j \in Jobs, RunStart(j)
        PROVE  MutexInv'
    BY <1>7 DEF RunStart
<1>8. ASSUME NEW j \in Jobs, BodyEnd(j)
        PROVE  MutexInv'
    BY <1>8 DEF BodyEnd
<1>9. ASSUME NEW j \in Jobs, RunEnd(j)
        PROVE  MutexInv'
    BY <1>9 DEF RunEnd
<1>10. ASSUME NEW j \in Jobs, Done(j)
        PROVE  MutexInv'
    BY <1>10 DEF Done
<1>11. ASSUME NEW j \in Jobs, RunReturn(j)
        PROVE  MutexInv'
    BY <1>11 DEF RunReturn
<1>12. ASSUME NEW b \in Jobs, NEW j \in Jobs, EnqueueSub(b, j)
        PROVE  MutexInv'
    BY <1>12 DEF EnqueueSub
<1>13. ASSUME NEW w \in Workers, WorkerWait(w)
        PROVE  MutexInv'
    BY <1>13 DEF WorkerWait
<1>14. ASSUME NEW w \in Workers, WorkerQuit(w)
        PROVE  MutexInv'
    BY <1>14 DEF WorkerQuit
<1>15. ASSUME NEW w \in Workers, WorkerPop(w)
        PROVE  MutexInv'
    BY <1>15 DEF WorkerPop, JobInv, QueueInv
<1>16. ASSUME Shutdown
        PROVE  MutexInv'
    BY <1>16 DEF Shutdown
<1>17. ASSUME NEW pool \in (SUBSET Workers) \ {{}}, InitPool(pool)
        PROVE  MutexInv'
    BY <1>17 DEF InitPool
<1>18. CASE UNCHANGED vars
    BY <1>18
<1> QED
    BY <1>1, <1>2, <1>3, <1>4, <1>5, <1>6, <1>7, <1>8, <1>9, <1>10, <1>11, <1>12, <1>13, <1>14, <1>15, <1>16, <1>17, <1>18 DEF Next, JobStep, WorkerStep

LEMMA StateStep == ASSUME JobInv, [Next]_vars PROVE StateInv'
<1> USE JobsAssumption DEF StateInv, Frames, JobOrNone, vars, jobVars,
      lockVars, workerVars, boundVars, Mark
<1> TypeOK /\ StateInv /\ MutexInv  BY DEF JobInv
<1> USE DEF TypeOK
<1>1. ASSUME NEW j \in Jobs, EnqueueRoot(j)
        PROVE  StateInv'
    BY <1>1 DEF EnqueueRoot
<1>2. ASSUME NEW j \in Jobs, JoinCall(j)
        PROVE  StateInv'
    BY <1>2 DEF JoinCall
<1>3. ASSUME NEW j \in Jobs, JoinTest(j)
        PROVE  StateInv'
    BY <1>3 DEF JoinTest
<1>4. ASSUME NEW j \in Jobs, Push(j)
        PROVE  StateInv'
    <2>1. arg[j] # NoJob => arg[j] # j /\ deps[arg[j]] > 0 /\ state[arg[j]] = "running"
      BY <1>4, MarkedParent DEF Push
    <2>2. (StateInv!1)'  BY <1>4, <2>1 DEF Push, Register
    <2>3. (StateInv!2)'  BY <1>4 DEF Push, Register
    <2> QED  BY <2>2, <2>3
<1>5. ASSUME NEW j \in Jobs, PushFull(j)
        PROVE  StateInv'
    <2>1. arg[j] # NoJob => arg[j] # j /\ deps[arg[j]] > 0 /\ state[arg[j]] = "running"
      BY <1>5, MarkedParent DEF PushFull
    <2>2. (StateInv!1)'  BY <1>5, <2>1 DEF PushFull, Register
    <2>3. (StateInv!2)'  BY <1>5 DEF PushFull, Register
    <2> QED  BY <2>2, <2>3
<1>6. ASSUME NEW j \in Jobs, PushKilled(j)
        PROVE  StateInv'
    BY <1>6 DEF PushKilled
<1>7. ASSUME NEW j \in Jobs, RunStart(j)
        PROVE  StateInv'
    BY <1>7 DEF RunStart
<1>8. ASSUME NEW j \in Jobs, BodyEnd(j)
        PROVE  StateInv'
    BY <1>8 DEF BodyEnd
<1>9. ASSUME NEW j \in Jobs, RunEnd(j)
        PROVE  StateInv'
    BY <1>9 DEF RunEnd
<1>10. ASSUME NEW j \in Jobs, Done(j)
        PROVE  StateInv'
    <2>1. holder = j /\ state[j] = "running"  BY <1>10 DEF Done
    <2>2. deps[j] > 0  BY <2>1, Counts
    <2>3. parent[j] # NoJob => parent[j] # j /\ state[parent[j]] = "running"
      BY <2>2 DEF JobInv, ParentOutlivesSubjob
    <2>4. deps[j] = 1 => pc[j] \notin {"queued", "claimed", "body", "ended"}
      BY <2>1, Counts
    <2> QED  BY <1>10, <2>1, <2>2, <2>3, <2>4 DEF Done
<1>11. ASSUME NEW j \in Jobs, RunReturn(j)
        PROVE  StateInv'
    BY <1>11 DEF RunReturn
<1>12. ASSUME NEW b \in Jobs, NEW j \in Jobs, EnqueueSub(b, j)
        PROVE  StateInv'
    BY <1>12 DEF EnqueueSub
<1>13. ASSUME NEW w \in Workers, WorkerWait(w)
        PROVE  StateInv'
    BY <1>13 DEF WorkerWait
<1>14. ASSUME NEW w \in Workers, WorkerQuit(w)
        PROVE  StateInv'
    BY <1>14 DEF WorkerQuit
<1>15. ASSUME NEW w \in Workers, WorkerPop(w)
        PROVE  StateInv'
    BY <1>15 DEF WorkerPop, JobInv, QueueInv
<1>16. ASSUME Shutdown
        PROVE  StateInv'
    BY <1>16 DEF Shutdown
<1>17. ASSUME NEW pool \in (SUBSET Workers) \ {{}}, InitPool(pool)
        PROVE  StateInv'
    BY <1>17 DEF InitPool
<1>18. CASE UNCHANGED vars
    BY <1>18
<1> QED
    BY <1>1, <1>2, <1>3, <1>4, <1>5, <1>6, <1>7, <1>8, <1>9, <1>10, <1>11, <1>12, <1>13, <1>14, <1>15, <1>16, <1>17, <1>18 DEF Next, JobStep, WorkerStep

(* What is left of a sequence of distinct elements when its head is taken.  *)
LEMMA TailDistinct ==
  ASSUME NEW S, NEW q \in Seq(S), q # <<>>,
         \A i, k \in 1..Len(q) : q[i] = q[k] => i = k
  PROVE  /\ \A i \in 1..Len(Tail(q)) :
              /\ i + 1 \in 1..Len(q) /\ Tail(q)[i] = q[i + 1]
              /\ Tail(q)[i] \in S /\ Tail(q)[i] # q[1]
         /\ \A i, k \in 1..Len(Tail(q)) : Tail(q)[i] = Tail(q)[k] => i = k
<1>1. /\ Len(Tail(q)) = Len(q) - 1 /\ Tail(q) \in Seq(S)
      /\ \A i \in 1..Len(Tail(q)) : Tail(q)[i] = q[i + 1]
  BY HeadTailProperties
<1>2. Len(q) \in Nat /\ Len(q) > 0 /\ \A i \in 1..Len(q) : q[i] \in S
  BY EmptySeq, ElementOfSeq
<1>3. \A i \in 1..Len(Tail(q)) : i + 1 \in 1..Len(q) /\ 1 \in 1..Len(q) /\ i + 1 # 1
  BY <1>1, <1>2
<1>4. \A i, k \in 1..Len(Tail(q)) : Tail(q)[i] = Tail(q)[k] => i = k
  <2> TAKE i, k \in 1..Len(Tail(q))
  <2> HAVE Tail(q)[i] = Tail(q)[k]
  <2>1. q[i + 1] = q[k + 1]  BY <1>1
  <2>2. i + 1 = k + 1  BY <2>1, <1>3
  <2> QED  BY <2>2
<1> QED  BY <1>1, <1>2, <1>3, <1>4

LEMMA QueueStep == ASSUME JobInv, [Next]_vars PROVE QueueInv'
<1> USE JobsAssumption DEF QueueInv, Frames, JobOrNone, vars, jobVars,
      lockVars, workerVars, boundVars, Mark
<1> TypeOK /\ QueueInv  BY DEF JobInv
<1> USE DEF TypeOK
<1>1. ASSUME NEW j \in Jobs, EnqueueRoot(j)
        PROVE  QueueInv'
    BY <1>1 DEF EnqueueRoot
<1>2. ASSUME NEW j \in Jobs, JoinCall(j)
        PROVE  QueueInv'
    BY <1>2 DEF JoinCall
<1>3. ASSUME NEW j \in Jobs, JoinTest(j)
        PROVE  QueueInv'
    BY <1>3 DEF JoinTest
<1>4. ASSUME NEW j \in Jobs, Push(j)
        PROVE  QueueInv'
    BY <1>4 DEF Push
<1>5. ASSUME NEW j \in Jobs, PushFull(j)
        PROVE  QueueInv'
    BY <1>5 DEF PushFull
<1>6. ASSUME NEW j \in Jobs, PushKilled(j)
        PROVE  QueueInv'
    BY <1>6 DEF PushKilled
<1>7. ASSUME NEW j \in Jobs, RunStart(j)
        PROVE  QueueInv'
    BY <1>7 DEF RunStart
<1>8. ASSUME NEW j \in Jobs, BodyEnd(j)
        PROVE  QueueInv'
    BY <1>8 DEF BodyEnd
<1>9. ASSUME NEW j \in Jobs, RunEnd(j)
        PROVE  QueueInv'
    BY <1>9 DEF RunEnd
<1>10. ASSUME NEW j \in Jobs, Done(j)
        PROVE  QueueInv'
    BY <1>10 DEF Done
<1>11. ASSUME NEW j \in Jobs, RunReturn(j)
        PROVE  QueueInv'
    BY <1>11 DEF RunReturn
<1>12. ASSUME NEW b \in Jobs, NEW j \in Jobs, EnqueueSub(b, j)
        PROVE  QueueInv'
    BY <1>12 DEF EnqueueSub
<1>13. ASSUME NEW w \in Workers, WorkerWait(w)
        PROVE  QueueInv'
    BY <1>13 DEF WorkerWait
<1>14. ASSUME NEW w \in Workers, WorkerQuit(w)
        PROVE  QueueInv'
    BY <1>14 DEF WorkerQuit
<1>15. ASSUME NEW w \in Workers, WorkerPop(w)
        PROVE  QueueInv'
    <2>1. queue # <<>> /\ queue' = Tail(queue) /\ pc' = [pc EXCEPT ![queue[1]] = "claimed"]
      BY <1>15 DEF WorkerPop
    <2>2. /\ \A i \in 1..Len(queue') :
               /\ i + 1 \in 1..Len(queue) /\ queue'[i] = queue[i + 1]
               /\ queue'[i] \in Jobs /\ queue'[i] # queue[1]
          /\ \A i, k \in 1..Len(queue') : queue'[i] = queue'[k] => i = k
      <3>1. queue \in Seq(Jobs) /\ \A i, k \in 1..Len(queue) : queue[i] = queue[k] => i = k
        OBVIOUS
      <3>2. /\ \A i \in 1..Len(Tail(queue)) :
                  /\ i + 1 \in 1..Len(queue) /\ Tail(queue)[i] = queue[i + 1]
                  /\ Tail(queue)[i] \in Jobs /\ Tail(queue)[i] # queue[1]
            /\ \A i, k \in 1..Len(Tail(queue)) :
                  Tail(queue)[i] = Tail(queue)[k] => i = k
        <4> HIDE DEF TypeOK, QueueInv
        <4> QED  BY ONLY <2>1, <3>1, TailDistinct
      <3> QED  BY ONLY <2>1, <3>2
    <2>3. \A i \in 1..Len(queue') : pc'[queue'[i]] = "queued"
      BY <2>1, <2>2
    <2> QED  BY <2>2, <2>3
<1>16. ASSUME Shutdown
        PROVE  QueueInv'
    BY <1>16 DEF Shutdown
<1>17. ASSUME NEW pool \in (SUBSET Workers) \ {{}}, InitPool(pool)
        PROVE  QueueInv'
    BY <1>17 DEF InitPool
<1>18. CASE UNCHANGED vars
    BY <1>18
<1> QED
    BY <1>1, <1>2, <1>3, <1>4, <1>5, <1>6, <1>7, <1>8, <1>9, <1>10, <1>11, <1>12, <1>13, <1>14, <1>15, <1>16, <1>17, <1>18 DEF Next, JobStep, WorkerStep

LEMMA CallStep == ASSUME JobInv, [Next]_vars PROVE CallInv'
<1> USE JobsAssumption DEF CallInv, Frames, JobOrNone, vars, jobVars,
      lockVars, workerVars, boundVars, Mark
<1> TypeOK /\ CallInv /\ QueueInv  BY DEF JobInv
<1> USE DEF TypeOK
<1>1. ASSUME NEW j \in Jobs, EnqueueRoot(j)
        PROVE  CallInv'
    BY <1>1 DEF EnqueueRoot
<1>2. ASSUME NEW j \in Jobs, JoinCall(j)
        PROVE  CallInv'
    BY <1>2 DEF JoinCall
<1>3. ASSUME NEW j \in Jobs, JoinTest(j)
        PROVE  CallInv'
    BY <1>3 DEF JoinTest
<1>4. ASSUME NEW j \in Jobs, Push(j)
        PROVE  CallInv'
    BY <1>4 DEF Push, Register
<1>5. ASSUME NEW j \in Jobs, PushFull(j)
        PROVE  CallInv'
    BY <1>5 DEF PushFull, Register
<1>6. ASSUME NEW j \in Jobs, PushKilled(j)
        PROVE  CallInv'
    BY <1>6 DEF PushKilled
<1>7. ASSUME NEW j \in Jobs, RunStart(j)
        PROVE  CallInv'
    BY <1>7 DEF RunStart
<1>8. ASSUME NEW j \in Jobs, BodyEnd(j)
        PROVE  CallInv'
    BY <1>8 DEF BodyEnd, Blocked
<1>9. ASSUME NEW j \in Jobs, RunEnd(j)
        PROVE  CallInv'
    BY <1>9 DEF RunEnd
<1>10. ASSUME NEW j \in Jobs, Done(j)
        PROVE  CallInv'
    BY <1>10 DEF Done
<1>11. ASSUME NEW j \in Jobs, RunReturn(j)
        PROVE  CallInv'
    BY <1>11 DEF RunReturn
<1>12. ASSUME NEW b \in Jobs, NEW j \in Jobs, EnqueueSub(b, j)
        PROVE  CallInv'
    BY <1>12 DEF EnqueueSub
<1>13. ASSUME NEW w \in Workers, WorkerWait(w)
        PROVE  CallInv'
    BY <1>13 DEF WorkerWait
<1>14. ASSUME NEW w \in Workers, WorkerQuit(w)
        PROVE  CallInv'
    BY <1>14 DEF WorkerQuit
<1>15. ASSUME NEW w \in Workers, WorkerPop(w)
        PROVE  CallInv'
    <2>1. /\ pc' = [pc EXCEPT ![queue[1]] = "claimed"] /\ pc[queue[1]] = "queued"
          /\ queue[1] \in Jobs
      BY <1>15 DEF WorkerPop, QueueInv
    <2>2. UNCHANGED <<caller, arg, parent>>  BY <1>15 DEF WorkerPop
    <2> QED  BY <2>1, <2>2
<1>16. ASSUME Shutdown
        PROVE  CallInv'
    BY <1>16 DEF Shutdown
<1>17. ASSUME NEW pool \in (SUBSET Workers) \ {{}}, InitPool(pool)
        PROVE  CallInv'
    BY <1>17 DEF InitPool
<1>18. CASE UNCHANGED vars
    BY <1>18
<1> QED
    BY <1>1, <1>2, <1>3, <1>4, <1>5, <1>6, <1>7, <1>8, <1>9, <1>10, <1>11, <1>12, <1>13, <1>14, <1>15, <1>16, <1>17, <1>18 DEF Next, JobStep, WorkerStep

LEMMA ParentStep == ASSUME JobInv, [Next]_vars PROVE ParentOutlivesSubjob'
<1> USE JobsAssumption DEF ParentOutlivesSubjob, JobOrNone, vars, jobVars,
      lockVars, workerVars, boundVars, Mark
<1> TypeOK /\ ParentOutlivesSubjob /\ StateInv  BY DEF JobInv
<1> USE DEF TypeOK
<1>1. ASSUME NEW j \in Jobs, EnqueueRoot(j)
        PROVE  ParentOutlivesSubjob'
    BY <1>1 DEF EnqueueRoot, StateInv
<1>2. ASSUME NEW j \in Jobs, JoinCall(j)
        PROVE  ParentOutlivesSubjob'
    BY <1>2 DEF JoinCall
<1>3. ASSUME NEW j \in Jobs, JoinTest(j)
        PROVE  ParentOutlivesSubjob'
    BY <1>3 DEF JoinTest
<1>4. ASSUME NEW j \in Jobs, Push(j)
        PROVE  ParentOutlivesSubjob'
    <2>1. arg[j] # NoJob => arg[j] # j /\ deps[arg[j]] > 0 /\ state[arg[j]] = "running"
      BY <1>4, MarkedParent DEF Push
    <2>2. deps[j] = 0  BY <1>4 DEF Push, StateInv
    <2> QED  BY <1>4, <2>1, <2>2 DEF Push, Register
<1>5. ASSUME NEW j \in Jobs, PushFull(j)
        PROVE  ParentOutlivesSubjob'
    <2>1. arg[j] # NoJob => arg[j] # j /\ deps[arg[j]] > 0 /\ state[arg[j]] = "running"
      BY <1>5, MarkedParent DEF PushFull
    <2>2. deps[j] = 0  BY <1>5 DEF PushFull, StateInv
    <2> QED  BY <1>5, <2>1, <2>2 DEF PushFull, Register
<1>6. ASSUME NEW j \in Jobs, PushKilled(j)
        PROVE  ParentOutlivesSubjob'
    BY <1>6 DEF PushKilled
<1>7. ASSUME NEW j \in Jobs, RunStart(j)
        PROVE  ParentOutlivesSubjob'
    BY <1>7 DEF RunStart
<1>8. ASSUME NEW j \in Jobs, BodyEnd(j)
        PROVE  ParentOutlivesSubjob'
    BY <1>8 DEF BodyEnd
<1>9. ASSUME NEW j \in Jobs, RunEnd(j)
        PROVE  ParentOutlivesSubjob'
    BY <1>9 DEF RunEnd
<1>10. ASSUME NEW j \in Jobs, Done(j)
        PROVE  ParentOutlivesSubjob'
    <2>1. holder = j  BY <1>10 DEF Done
    <2>2. deps[j] > 0 /\ (deps[j] = 1 => Kids(j) = {})  BY <2>1, Counts
    <2>3. deps[j] = 1 => \A c \in Jobs : parent[c] = j => deps[c] = 0
      BY <2>2 DEF Kids
    <2>4. parent' = parent /\ deps' = [deps EXCEPT ![j] = @ - 1]  BY <1>10 DEF Done
    <2>5. state' = state \/ (deps[j] = 1 /\ state' = [state EXCEPT ![j] = "idle"])
      BY <1>10 DEF Done
    <2> QED  BY <2>2, <2>3, <2>4, <2>5
<1>11. ASSUME NEW j \in Jobs, RunReturn(j)
        PROVE  ParentOutlivesSubjob'
    BY <1>11 DEF RunReturn
<1>12. ASSUME NEW b \in Jobs, NEW j \in Jobs, EnqueueSub(b, j)
        PROVE  ParentOutlivesSubjob'
    BY <1>12 DEF EnqueueSub, StateInv
<1>13. ASSUME NEW w \in Workers, WorkerWait(w)
        PROVE  ParentOutlivesSubjob'
    BY <1>13 DEF WorkerWait
<1>14. ASSUME NEW w \in Workers, WorkerQuit(w)
        PROVE  ParentOutlivesSubjob'
    BY <1>14 DEF WorkerQuit
<1>15. ASSUME NEW w \in Workers, WorkerPop(w)
        PROVE  ParentOutlivesSubjob'
    BY <1>15 DEF WorkerPop
<1>16. ASSUME Shutdown
        PROVE  ParentOutlivesSubjob'
    BY <1>16 DEF Shutdown
<1>17. ASSUME NEW pool \in (SUBSET Workers) \ {{}}, InitPool(pool)
        PROVE  ParentOutlivesSubjob'
    BY <1>17 DEF InitPool
<1>18. CASE UNCHANGED vars
    BY <1>18
<1> QED
    BY <1>1, <1>2, <1>3, <1>4, <1>5, <1>6, <1>7, <1>8, <1>9, <1>10, <1>11, <1>12, <1>13, <1>14, <1>15, <1>16, <1>17, <1>18 DEF Next, JobStep, WorkerStep

(* A step that moves no job between "pending" and "given up" and changes no  *)
(* count leaves the equation as it is.                                       *)
LEMMA SameCounts ==
  ASSUME DependenciesExact,
         deps' = deps, parent' = parent,
         \A j \in Jobs :
           /\ (\/ pc'[j] \in {"queued", "claimed", "body", "ended"}
               \/ pc'[j] = "finishing" /\ chain' = {})
                <=> (\/ pc[j] \in {"queued", "claimed", "body", "ended"}
                     \/ pc[j] = "finishing" /\ chain = {})
           /\ holder' = j /\ chain' # {} <=> holder = j /\ chain # {}
  PROVE  DependenciesExact'
BY DEF DependenciesExact, Kids, Own, CalledByKid, One

(* Register(j): a new subjob counts itself, and its parent counts it.        *)
LEMMA RegisterCounts ==
  ASSUME JobInv, NEW j \in Jobs, pc[j] = "marked", ~Locked, Register(j),
         chain' = chain, holder' = holder,
         \A k \in Jobs : k # j => pc'[k] = pc[k],
         pc'[j] \in {"queued", "claimed"}
  PROVE  DependenciesExact'
<1> USE DEF TypeOK
<1>1. TypeOK /\ deps[j] = 0 /\ Kids(j) = {}
  BY Counts DEF JobInv, StateInv
<1>2. arg[j] # NoJob => arg[j] \in Jobs /\ arg[j] # j /\ deps[arg[j]] > 0
  BY MarkedParent
<1>3. /\ parent' = [parent EXCEPT ![j] = arg[j]]
      /\ deps'[j] = 1
      /\ \A k \in Jobs : k # j =>
           deps'[k] = IF k = arg[j] THEN deps[k] + 1 ELSE deps[k]
  BY DEF Register
<1>3a. \A m \in Jobs : deps'[m] > 0 <=> (m = j \/ deps[m] > 0)
  <2> TAKE m \in Jobs
  <2>1. CASE m = j  BY <2>1, <1>3
  <2>2. CASE m # j /\ m = arg[j]
    <3>1. deps[m] > 0 /\ deps[m] \in Nat  BY <2>2, <1>1, <1>2, JobsAssumption
    <3>2. deps'[m] = deps[m] + 1  BY <2>2, <1>3
    <3> QED  BY <2>2, <3>1, <3>2
  <2>3. CASE m # j /\ m # arg[j]  BY <2>3, <1>3
  <2> QED  BY <2>1, <2>2, <2>3
<1>3b. \A m \in Jobs : parent'[m] = IF m = j THEN arg[j] ELSE parent[m]
  BY <1>1, <1>3
<1>4. \A k \in Jobs : k # j /\ k # arg[j] => Kids(k)' = Kids(k)
  BY <1>1, <1>3a, <1>3b DEF Kids
<1>5. Kids(j)' = {}
  <2>1. \A m \in Jobs : parent'[m] = j => m # j /\ parent[m] = j
    BY <1>2, <1>3b, JobsAssumption
  <2>2. \A m \in Jobs : parent[m] = j => ~(deps[m] > 0)
    BY <1>1 DEF Kids
  <2> QED  BY <1>3a, <2>1, <2>2 DEF Kids
<1>6. ASSUME NEW p \in Jobs, p = arg[j]
      PROVE  Kids(p)' = Kids(p) \cup {j} /\ j \notin Kids(p)
  <2>1. \A m \in Jobs : (parent'[m] = p /\ deps'[m] > 0)
                          <=> (m = j \/ (parent[m] = p /\ deps[m] > 0))
    BY <1>1, <1>3a, <1>3b, <1>6
  <2>2. ~(deps[j] > 0)  BY <1>1
  <2> QED  BY <2>1, <2>2 DEF Kids
<1>7. ASSUME NEW p \in Jobs, p = arg[j]
      PROVE  Cardinality(Kids(p)') = Cardinality(Kids(p)) + 1
  BY <1>6, <1>7, KidsFinite, FS_AddElement
<1>8. chain = {} /\ holder = NoJob  BY DEF JobInv, MutexInv
<1>9. /\ Own(j)' /\ ~Own(j)
      /\ \A k \in Jobs : k # j => Own(k)' = Own(k)
      /\ \A k \in Jobs : CalledByKid(k)' = FALSE /\ CalledByKid(k) = FALSE
  BY <1>8 DEF Own, CalledByKid
<1>10. ASSUME NEW k \in Jobs
       PROVE  deps'[k] = One(Own(k)') + One(CalledByKid(k)') + Cardinality(Kids(k)')
  <2>1. deps[k] = One(Own(k)) + One(CalledByKid(k)) + Cardinality(Kids(k))
    BY DEF JobInv, DependenciesExact
  <2>2. Cardinality(Kids(k)) \in Nat  BY KidsFinite
  <2>3. CASE k = j
    BY <2>3, <1>3, <1>5, <1>9, FS_EmptySet DEF One
  <2>4. CASE k # j /\ k = arg[j]
    <3>2. Cardinality(Kids(k)') = Cardinality(Kids(k)) + 1
      BY <2>4, <1>7
    <3>3. deps'[k] = deps[k] + 1  BY <2>4, <1>3
    <3> QED  BY <2>1, <2>2, <2>4, <3>2, <3>3, <1>9 DEF One
  <2>5. CASE k # j /\ k # arg[j]
    BY <2>1, <2>5, <1>3, <1>4, <1>9 DEF One
  <2> QED  BY <2>3, <2>4, <2>5
<1> QED  BY <1>10 DEF DependenciesExact

(* Done(j): the job gives up one dependency and, when it was the last, its   *)
(* parent counts the call instead of the subjob.                             *)
LEMMA DoneCounts ==
  ASSUME JobInv, NEW j \in Jobs, Done(j) PROVE DependenciesExact'
<1> USE DEF TypeOK, JobOrNone
<1>1. /\ TypeOK /\ holder = j /\ deps[j] > 0 /\ parent[j] # j
      /\ deps[j] = 1 => Kids(j) = {}
  BY Counts DEF JobInv, StateInv, Done
<1>2. /\ deps' = [deps EXCEPT ![j] = @ - 1] /\ parent' = parent /\ pc' = pc
      /\ chain' = chain \cup {j}
      /\ holder' = IF deps[j] = 1 THEN parent[j] ELSE NoJob
  BY DEF Done
<1>3. One(Own(j)) + One(CalledByKid(j)) =
        One(Own(j)') + One(CalledByKid(j)') + 1
  <2>1. chain = {} => pc[j] = "finishing"
    BY <1>1, JobsAssumption DEF JobInv, MutexInv, Locked
  <2>2. chain = {} => Own(j) /\ ~Own(j)' /\ ~CalledByKid(j) /\ ~CalledByKid(j)'
    BY <2>1, <1>1, <1>2, JobsAssumption DEF Own, CalledByKid
  <2>3. chain # {} => CalledByKid(j) /\ ~CalledByKid(j)' /\ Own(j)' = Own(j)
    BY <1>1, <1>2, JobsAssumption DEF Own, CalledByKid
  <2>4. CASE chain = {}  BY <2>4, <2>2 DEF One
  <2>5. CASE chain # {}  BY <2>5, <2>3 DEF One
  <2> QED  BY <2>4, <2>5
<1>4. ASSUME NEW k \in Jobs, k # j
      PROVE  /\ Own(k)' = Own(k) /\ ~CalledByKid(k)
             /\ CalledByKid(k)' = (deps[j] = 1 /\ k = parent[j])
  <2>1. ~CalledByKid(k) /\ CalledByKid(k)' = (deps[j] = 1 /\ k = parent[j])
    BY <1>1, <1>2, <1>4, JobsAssumption DEF CalledByKid
  <2>2. pc[k] # "finishing" \/ chain # {}
    BY <1>1, <1>4 DEF JobInv, MutexInv
  <2> QED  BY <2>1, <2>2, <1>2 DEF Own
<1>5. Kids(j)' = Kids(j)
  BY <1>1, <1>2 DEF Kids
<1>6. ASSUME NEW k \in Jobs, k # j
      PROVE  Kids(k)' = IF deps[j] = 1 THEN Kids(k) \ {j} ELSE Kids(k)
  BY <1>1, <1>2, <1>6 DEF Kids
<1>7. ASSUME NEW k \in Jobs, k # j
      PROVE  Cardinality(Kids(k)') =
               Cardinality(Kids(k)) - One(deps[j] = 1 /\ k = parent[j])
  <2>1. j \in Kids(k) <=> parent[j] = k
    BY <1>1 DEF Kids
  <2>2. CASE deps[j] = 1
    <3>1. Kids(k)' = Kids(k) \ {j}  BY <1>6, <1>7, <2>2
    <3>2. Cardinality(Kids(k)') =
            IF j \in Kids(k) THEN Cardinality(Kids(k)) - 1 ELSE Cardinality(Kids(k))
      BY <3>1, KidsFinite, FS_RemoveElement
    <3>3. Cardinality(Kids(k)) \in Nat  BY KidsFinite
    <3>4. CASE parent[j] = k  BY <2>1, <2>2, <3>2, <3>3, <3>4 DEF One
    <3>5. CASE parent[j] # k  BY <2>1, <2>2, <3>2, <3>3, <3>5 DEF One
    <3> QED  BY <3>4, <3>5
  <2>3. CASE deps[j] # 1
    <3>1. Kids(k)' = Kids(k)  BY <1>6, <1>7, <2>3
    <3> QED  BY <2>3, <3>1, KidsFinite DEF One
  <2> QED  BY <2>2, <2>3
<1>8. ASSUME NEW k \in Jobs
      PROVE  deps'[k] = One(Own(k)') + One(CalledByKid(k)') + Cardinality(Kids(k)')
  <2>1. deps[k] = One(Own(k)) + One(CalledByKid(k)) + Cardinality(Kids(k))
    BY DEF JobInv, DependenciesExact
  <2>2. Cardinality(Kids(k)) \in Nat  BY KidsFinite
  <2>3. \A b \in BOOLEAN : One(b) \in {0, 1}  BY DEF One
  <2>4. CASE k = j
    <3>1. deps'[j] = deps[j] - 1  BY <1>1, <1>2
    <3>2. Own(j) \in BOOLEAN /\ CalledByKid(j) \in BOOLEAN
          /\ Own(j)' \in BOOLEAN /\ CalledByKid(j)' \in BOOLEAN
      BY DEF Own, CalledByKid
    <3> QED  BY <2>1, <2>2, <2>3, <2>4, <3>1, <3>2, <1>3, <1>5
  <2>5. CASE k # j
    <3>1. deps'[k] = deps[k]  BY <2>5, <1>1, <1>2
    <3>2. Own(k)' = Own(k) /\ One(CalledByKid(k)) = 0
          /\ One(CalledByKid(k)') = One(deps[j] = 1 /\ k = parent[j])
      BY <2>5, <1>4 DEF One
    <3> QED  BY <2>1, <2>2, <2>5, <3>1, <3>2, <1>7 DEF One
  <2> QED  BY <2>4, <2>5
<1> QED  BY <1>8 DEF DependenciesExact

LEMMA DepsStep == ASSUME JobInv, [Next]_vars PROVE DependenciesExact'
<1> USE JobsAssumption DEF JobOrNone, vars, jobVars, lockVars, workerVars,
      boundVars, Mark
<1> TypeOK /\ DependenciesExact  BY DEF JobInv
<1> USE DEF TypeOK
<1>1. ASSUME NEW j \in Jobs, EnqueueRoot(j)
        PROVE  DependenciesExact'
    BY <1>1, SameCounts DEF EnqueueRoot, Own, CalledByKid
<1>2. ASSUME NEW j \in Jobs, JoinCall(j)
        PROVE  DependenciesExact'
    BY <1>2, SameCounts DEF JoinCall, Own, CalledByKid
<1>3. ASSUME NEW j \in Jobs, JoinTest(j)
        PROVE  DependenciesExact'
    BY <1>3, SameCounts DEF JoinTest, Own, CalledByKid
<1>4. ASSUME NEW j \in Jobs, Push(j)
        PROVE  DependenciesExact'
    BY <1>4, RegisterCounts DEF Push
<1>5. ASSUME NEW j \in Jobs, PushFull(j)
        PROVE  DependenciesExact'
    BY <1>5, RegisterCounts DEF PushFull
<1>6. ASSUME NEW j \in Jobs, PushKilled(j)
        PROVE  DependenciesExact'
    BY <1>6, SameCounts DEF PushKilled, Own, CalledByKid
<1>7. ASSUME NEW j \in Jobs, RunStart(j)
        PROVE  DependenciesExact'
    BY <1>7, SameCounts DEF RunStart, Own, CalledByKid
<1>8. ASSUME NEW j \in Jobs, BodyEnd(j)
        PROVE  DependenciesExact'
    BY <1>8, SameCounts DEF BodyEnd, Own, CalledByKid
<1>9. ASSUME NEW j \in Jobs, RunEnd(j)
        PROVE  DependenciesExact'
    BY <1>9, SameCounts DEF RunEnd, Own, CalledByKid, JobInv, MutexInv
<1>10. ASSUME NEW j \in Jobs, Done(j)
        PROVE  DependenciesExact'
    BY <1>10, DoneCounts
<1>11. ASSUME NEW j \in Jobs, RunReturn(j)
        PROVE  DependenciesExact'
    BY <1>11, SameCounts DEF RunReturn, Own, CalledByKid, JobInv, MutexInv
<1>12. ASSUME NEW b \in Jobs, NEW j \in Jobs, EnqueueSub(b, j)
        PROVE  DependenciesExact'
    BY <1>12, SameCounts DEF EnqueueSub, Own, CalledByKid
<1>13. ASSUME NEW w \in Workers, WorkerWait(w)
        PROVE  DependenciesExact'
    BY <1>13, SameCounts DEF WorkerWait, Own, CalledByKid
<1>14. ASSUME NEW w \in Workers, WorkerQuit(w)
        PROVE  DependenciesExact'
    BY <1>14, SameCounts DEF WorkerQuit, Own, CalledByKid
<1>15. ASSUME NEW w \in Workers, WorkerPop(w)
        PROVE  DependenciesExact'
    <2>1. pc[Head(queue)] = "queued" /\ Head(queue) \in Jobs
      BY <1>15, EmptySeq DEF WorkerPop, JobInv, QueueInv
    <2> QED  BY <1>15, <2>1, SameCounts DEF WorkerPop, Own, CalledByKid
<1>16. ASSUME Shutdown
        PROVE  DependenciesExact'
    BY <1>16, SameCounts DEF Shutdown, Own, CalledByKid
<1>17. ASSUME NEW pool \in (SUBSET Workers) \ {{}}, InitPool(pool)
        PROVE  DependenciesExact'
    BY <1>17, SameCounts DEF InitPool, Own, CalledByKid
<1>18. CASE UNCHANGED vars
    BY <1>18, SameCounts
<1> QED
    BY <1>1, <1>2, <1>3, <1>4, <1>5, <1>6, <1>7, <1>8, <1>9, <1>10, <1>11, <1>12, <1>13, <1>14, <1>15, <1>16, <1>17, <1>18 DEF Next, JobStep, WorkerStep

-----------------------------------------------------------------------------
LEMMA InitInv == Init => JobInv
<1> SUFFICES ASSUME Init PROVE JobInv  OBVIOUS
<1> USE JobsAssumption, PoolAssumption DEF Init
<1>1. TypeOK
  <2>1. queue \in Seq(Jobs)  BY EmptySeq
  <2> QED  BY <2>1 DEF TypeOK, JobOrNone, Frames
<1>2. MutexInv /\ StateInv /\ QueueInv /\ CallInv /\ ParentOutlivesSubjob
  BY DEF MutexInv, StateInv, QueueInv, CallInv, ParentOutlivesSubjob
<1>3. ASSUME NEW j \in Jobs
      PROVE  ~Own(j) /\ ~CalledByKid(j) /\ Kids(j) = {}
  BY DEF Own, CalledByKid, Kids
<1>4. DependenciesExact
  <2>1. Cardinality({}) = 0  BY FS_EmptySet
  <2>2. ASSUME NEW j \in Jobs
        PROVE  deps[j] = One(Own(j)) + One(CalledByKid(j)) + Cardinality(Kids(j))
    <3>1. One(Own(j)) = 0 /\ One(CalledByKid(j)) = 0  BY <1>3 DEF One
    <3>2. Cardinality(Kids(j)) = 0  BY <1>3, <2>1
    <3> QED  BY <3>1, <3>2
  <2> QED  BY <2>2 DEF DependenciesExact
<1> QED  BY <1>1, <1>2, <1>4 DEF JobInv

(* The inductive invariant of job.cpp: each activation is in one place, the   *)
(* threads and frames agree about it, and the counts follow from it.         *)
THEOREM JobInvariant == Spec => []JobInv
<1>1. JobInv /\ [Next]_vars => JobInv'
  BY TypeStep, MutexStep, StateStep, QueueStep, CallStep, ParentStep, DepsStep
     DEF JobInv
<1> QED  BY InitInv, <1>1, PTL DEF Spec

(* Type correctness of the job pool. *)
THEOREM TypeCorrect == Spec => []TypeOK
<1>1. JobInv => TypeOK  BY DEF JobInv
<1> QED  BY JobInvariant, <1>1, PTL

(* m_dependencies is exact in every reachable state: job::done() neither     *)
(* underflows it nor leaves a finished job waiting.                          *)
THEOREM DependenciesAreExact == Spec => []DependenciesExact
<1>1. JobInv => DependenciesExact  BY DEF JobInv
<1> QED  BY JobInvariant, <1>1, PTL

(* A subjob that is not done keeps its parent running. *)
THEOREM ParentsOutliveSubjobs == Spec => []ParentOutlivesSubjob
<1>1. JobInv => ParentOutlivesSubjob  BY DEF JobInv
<1> QED  BY JobInvariant, <1>1, PTL

(* The two tests of m_state in run() and done() never throw. *)
THEOREM NoBadJobStateIsThrown == Spec => []NoBadJobState
<1>1. JobInv => NoBadJobState
  <2> SUFFICES ASSUME JobInv PROVE NoBadJobState  OBVIOUS
  <2>1. holder # NoJob => holder \in Jobs  BY DEF JobInv, TypeOK, JobOrNone
  <2>2. holder # NoJob => deps[holder] > 0  BY <2>1, Counts
  <2> QED  BY <2>2 DEF NoBadJobState, JobInv, StateInv
<1> QED  BY JobInvariant, <1>1, PTL

-----------------------------------------------------------------------------
(* When join() returns, the set of jobs without dependencies contains r and  *)
(* is closed under "has its parent in the set", so it contains Tree(r); and  *)
(* with the mutex free a job without dependencies is nowhere in the pool.    *)
LEMMA JoinStep ==
  ASSUME JobInv, [Next]_vars, NEW r \in Jobs,
         client = [op |-> "join", job |-> r], client'.op = "free"
  PROVE  \A c \in Tree(r) : ~InUse(c)
<1> USE JobsAssumption DEF JobOrNone
<1> DEFINE Still == {k \in Jobs : deps[k] = 0}
<1>1. deps[r] = 0 /\ ~Locked
  <2>1. client.op = "join" /\ client.job = r  OBVIOUS
  <2>2. client' # client  BY <2>1
  <2>3. \E j \in Jobs : JoinTest(j) \/ Done(j) \/ JoinCall(j)
    <3>1. ~Shutdown /\ \A pool \in (SUBSET Workers) \ {{}} : ~InitPool(pool)
      BY <2>1 DEF Shutdown, InitPool, Free
    <3> QED
      BY <2>2, <3>1 DEF Next, JobStep, WorkerStep, vars, EnqueueRoot, EnqueueSub,
         Mark, Push, PushFull, PushKilled, RunStart, BodyEnd, RunEnd, RunReturn,
         WorkerWait, WorkerQuit, WorkerPop
  <2>4. PICK j \in Jobs : JoinTest(j) \/ Done(j) \/ JoinCall(j)  BY <2>3
  <2>5. CASE JoinTest(j)
    <3>1. j = r /\ ~Locked  BY <2>1, <2>5 DEF JoinTest
    <3>2. deps[r] # 0 => client' = [op |-> "joinwait", job |-> r]
      BY <2>5, <3>1 DEF JoinTest
    <3> QED  BY <3>1, <3>2
  <2>6. CASE Done(j)
    BY <2>1, <2>2, <2>6 DEF Done, NotifyJoin
  <2>7. CASE JoinCall(j)
    BY <2>1, <2>7 DEF JoinCall, Free
  <2> QED  BY <2>4, <2>5, <2>6, <2>7
<1>2. \A k \in Jobs : parent[k] \in Still => k \in Still
  <2> TAKE k \in Jobs
  <2> HAVE parent[k] \in Still
  <2>1. parent[k] # NoJob /\ ~(deps[parent[k]] > 0)  OBVIOUS
  <2>2. ~(deps[k] > 0)  BY <2>1 DEF JobInv, ParentOutlivesSubjob
  <2> QED  BY <2>2 DEF JobInv, TypeOK
<1>3. Tree(r) \subseteq Still
  <2>1. r \in Still /\ Still \in SUBSET Jobs  BY <1>1
  <2> QED  BY <2>1, <1>2 DEF Tree
<1>4. ASSUME NEW c \in Still PROVE ~InUse(c)
  <2>1. ~Own(c)  BY Counts
  <2>2. chain = {} /\ pc[c] # "finishing"  BY <1>1 DEF JobInv, MutexInv, Locked
  <2> QED  BY <2>1, <2>2 DEF InUse, Own, Frames
<1> QED  BY <1>3, <1>4

(* join() is a sound moment to delete the job and all its subjobs. *)
THEOREM JoinIsSound == Spec => JoinMeansDone
<1>1. JobInv /\ [Next]_vars =>
        [\A r \in Jobs :
           client = [op |-> "join", job |-> r] /\ client'.op = "free"
             => \A c \in Tree(r) : ~InUse(c)]_vars
  BY JoinStep
<1> QED  BY JobInvariant, <1>1, PTL DEF Spec, JoinMeansDone

-----------------------------------------------------------------------------
(* The pool never consists of waiting threads only while a job is queued.    *)
PoolInv ==
  /\ QueueAttended
  /\ ~killed => \E w \in Workers : wstate[w] # "off"

LEMMA AttendedStep == ASSUME TypeOK, PoolInv, [Next]_vars PROVE PoolInv'
<1> USE PoolAssumption DEF PoolInv, QueueAttended, TypeOK, vars, jobVars, lockVars,
      workerVars, boundVars, Mark, NotifyOne
<1>1. ASSUME NEW j \in Jobs, EnqueueRoot(j)
        PROVE  PoolInv'
    BY <1>1 DEF EnqueueRoot
<1>2. ASSUME NEW j \in Jobs, JoinCall(j)
        PROVE  PoolInv'
    BY <1>2 DEF JoinCall
<1>3. ASSUME NEW j \in Jobs, JoinTest(j)
        PROVE  PoolInv'
    BY <1>3 DEF JoinTest
<1>4. ASSUME NEW j \in Jobs, Push(j)
        PROVE  PoolInv'
    BY <1>4 DEF Push
<1>5. ASSUME NEW j \in Jobs, PushFull(j)
        PROVE  PoolInv'
    BY <1>5 DEF PushFull
<1>6. ASSUME NEW j \in Jobs, PushKilled(j)
        PROVE  PoolInv'
    BY <1>6 DEF PushKilled
<1>7. ASSUME NEW j \in Jobs, RunStart(j)
        PROVE  PoolInv'
    BY <1>7 DEF RunStart
<1>8. ASSUME NEW j \in Jobs, BodyEnd(j)
        PROVE  PoolInv'
    BY <1>8 DEF BodyEnd
<1>9. ASSUME NEW j \in Jobs, RunEnd(j)
        PROVE  PoolInv'
    BY <1>9 DEF RunEnd
<1>10. ASSUME NEW j \in Jobs, Done(j)
        PROVE  PoolInv'
    BY <1>10 DEF Done
<1>11. ASSUME NEW j \in Jobs, RunReturn(j)
        PROVE  PoolInv'
    BY <1>11 DEF RunReturn
<1>12. ASSUME NEW b \in Jobs, NEW j \in Jobs, EnqueueSub(b, j)
        PROVE  PoolInv'
    BY <1>12 DEF EnqueueSub
<1>13. ASSUME NEW w \in Workers, WorkerWait(w)
        PROVE  PoolInv'
    BY <1>13 DEF WorkerWait
<1>14. ASSUME NEW w \in Workers, WorkerQuit(w)
        PROVE  PoolInv'
    BY <1>14 DEF WorkerQuit
<1>15. ASSUME NEW w \in Workers, WorkerPop(w)
        PROVE  PoolInv'
    BY <1>15 DEF WorkerPop
<1>16. ASSUME Shutdown
        PROVE  PoolInv'
    BY <1>16 DEF Shutdown
<1>17. ASSUME NEW pool \in (SUBSET Workers) \ {{}}, InitPool(pool)
        PROVE  PoolInv'
    <2>1. PICK w \in pool : w \in Workers  BY <1>17
    <2>2. wstate'[w] = "ready"  BY <1>17, <2>1 DEF InitPool
    <2> QED  BY <2>1, <2>2
<1>18. CASE UNCHANGED vars
    BY <1>18
<1> QED
    BY <1>1, <1>2, <1>3, <1>4, <1>5, <1>6, <1>7, <1>8, <1>9, <1>10, <1>11, <1>12, <1>13, <1>14, <1>15, <1>16, <1>17, <1>18 DEF Next, JobStep, WorkerStep

(* No notification of m_has_data is lost, also across set_worker_count.      *)
THEOREM QueueIsAttended == Spec => []QueueAttended
<1>1. Init => PoolInv
  BY PoolAssumption DEF Init, PoolInv, QueueAttended
<1>2. TypeOK /\ PoolInv /\ [Next]_vars => PoolInv'
  BY AttendedStep
<1>3. PoolInv => QueueAttended  BY DEF PoolInv
<1> QED  BY TypeCorrect, <1>1, <1>2, <1>3, PTL DEF Spec

=============================================================================
