---------------------------- MODULE MergeSorter ----------------------------
(***************************************************************************)
(* The external merge sorter (tpie/pipelining/merge_sorter.h and .cpp, with *)
(* the k-way merger of merger.h), as operators on the state of one sorter.  *)
(*                                                                         *)
(* Items are numbers.  A run file is the sequence of the items in it, a     *)
(* stream position an offset in one.  The runs of a level share 2 * fanout  *)
(* run files: run r of level l is somewhere in file                         *)
(* (l % 2) * fanout + r % fanout, and where is known only to run_positions, *)
(* two files of positions that take turns as input and output of a level.   *)
(* An exception, a failed assertion or a read past the end of a file clears *)
(* ok.  Memory is counted in items, and a stream takes the room of one.     *)
(***************************************************************************)
EXTENDS Integers, Sequences, SequencesExt

NoRun == -1
NoPosition == -1
MinimumFilesPhase2 == 5
MinimumFilesPhase3 == 5

LOCAL Least(a, b) == IF a <= b THEN a ELSE b
LOCAL Most(a, b) == IF a >= b THEN a ELSE b
LOCAL UpTo(n) == [k \in 1..n |-> k]

----------------------------------------------------------------------------
(* Parameters *)

FanoutUsage(fanout) == fanout

(* calculate_fanout(): binary search between 2 and what the files allow.    *)
CalculateFanout(memory, files) ==
  LET search[lo, hi \in Nat] ==
        LET mid == lo + (hi - lo) \div 2 IN
        IF lo >= hi - 1 THEN lo
        ELSE IF FanoutUsage(mid) <= memory THEN search[mid, hi] ELSE search[lo, mid]
  IN search[2, files - 2]

(* set_items(): no run needs to be longer than the items to come.           *)
SetItems(p, items) ==
  [p EXCEPT !.runLength = IF items < @ THEN Most(items, p.threshold) ELSE @]

(* calculate_parameters(): given are the memory of the three phases, the    *)
(* files of the last two and a bound on the number of items.                *)
CalculateParameters(given) ==
  LET fanout == CalculateFanout(given.memory2, given.files2)
      finalFanout == Least(CalculateFanout(given.memory3, given.files3), fanout)
      runLength == Most(given.memory1, 1)
      memory2 == Most(given.memory2, FanoutUsage(fanout))
      memory3 == Most(given.memory3, FanoutUsage(finalFanout))
  IN SetItems([runLength |-> runLength,
               threshold |-> Least(runLength, Least(memory2, memory3)),
               fanout |-> fanout, finalFanout |-> finalFanout], given.items)

----------------------------------------------------------------------------
(* run_positions *)

ClosedPositions ==
  [open |-> FALSE, evacuated |-> FALSE, final |-> FALSE, levels |-> 1,
   runs |-> [i \in 0..1 |-> 0], file |-> [i \in 0..1 |-> <<>>],
   off |-> [i \in 0..1 |-> 0], finals |-> <<>>, extra |-> NoPosition]

OpenPositions == [ClosedPositions EXCEPT !.open = TRUE]

EvacuatePositions(q) ==
  IF q.evacuated THEN q
  ELSE IF q.final
       THEN [q EXCEPT !.evacuated = TRUE, !.file[0] = q.finals, !.finals = <<>>]
       ELSE [q EXCEPT !.evacuated = TRUE]

UnevacuatePositions(q) ==
  IF ~q.evacuated THEN q
  ELSE IF q.final
       THEN [q EXCEPT !.evacuated = FALSE, !.finals = q.file[0]]
       ELSE [q EXCEPT !.evacuated = FALSE]

CanChangeLevel(q) == q.open /\ ~q.evacuated /\ ~q.final

(* Mutant: runs are counted on from the level before.                       *)
NextLevelCountsOn(q) ==
  LET old == q.levels % 2
  IN [q EXCEPT !.file[old] = <<>>, !.off = [i \in 0..1 |-> 0], !.levels = @ + 1]

NextLevel(q) ==
  LET old == q.levels % 2
      new == (q.levels + 1) % 2
  IN [q EXCEPT !.file[old] = <<>>, !.off = [i \in 0..1 |-> 0],
               !.runs = [i \in 0..1 |-> 0], !.levels = @ + 1]

FinalLevel(q, fanout) ==
  LET i == q.levels % 2
      n == Least(fanout, Len(q.file[i]) - q.off[i])
  IN [q EXCEPT !.final = TRUE, !.finals = SubSeq(q.file[i], q.off[i] + 1, q.off[i] + n)]

(* set_position(): in turn for every run of the level being written.        *)
SetPosition(s, level, run, at) ==
  LET q == IF s.pos.open THEN s.pos ELSE OpenPositions
      i == level % 2
      written == [k \in 1..Most(Len(q.file[i]), q.off[i] + 1) |->
                    IF k = q.off[i] + 1 THEN at ELSE q.file[i][k]]
  IN IF level + 1 # q.levels \/ (~q.final /\ run # q.runs[i])
     THEN [s EXCEPT !.ok = FALSE]
     ELSE IF q.final THEN [s EXCEPT !.pos = [q EXCEPT !.extra = at]]
     ELSE [s EXCEPT !.pos = [q EXCEPT !.runs[i] = @ + 1, !.off[i] = @ + 1,
                                      !.file[i] = written]]

(* get_position(): where the run begins, NoPosition for an exception.       *)
PositionOf(q, level, run) ==
  LET i == level % 2 IN
  IF ~q.open THEN NoPosition
  ELSE IF q.final /\ level + 1 = q.levels THEN q.extra
  ELSE IF level + 2 # q.levels THEN NoPosition
  ELSE IF q.final
       THEN IF run < Len(q.finals) THEN q.finals[run + 1] ELSE NoPosition
  ELSE IF run # q.runs[i] \/ q.off[i] >= Len(q.file[i]) THEN NoPosition
  ELSE q.file[i][q.off[i] + 1]

(* ... and what that does to the file the position is read from.            *)
PositionRead(q, level) ==
  IF q.final THEN q
  ELSE [q EXCEPT !.runs[level % 2] = @ + 1, !.off[level % 2] = @ + 1]

PositionStreams(q) == IF CanChangeLevel(q) THEN 2 ELSE 0

----------------------------------------------------------------------------
(* The sorter *)

NoMerger == [in |-> <<>>, pq |-> {}, read |-> <<>>, length |-> 0]

NewSorter ==
  [state |-> "notStarted", p |-> [runLength |-> 0, threshold |-> 0, fanout |-> 0, finalFanout |-> 0],
   buffer |-> <<>>, capacity |-> 0, finishedRuns |-> 0, internal |-> FALSE,
   pulled |-> 0, itemCount |-> 0, evacuated |-> FALSE, initialized |-> FALSE,
   finalLevel |-> 0, finalRuns |-> 0, special |-> NoRun, files |-> <<>>,
   pos |-> ClosedPositions, merger |-> NoMerger, peak |-> 0, ok |-> TRUE]

(* Streams open at once, the largest number of it since the phase began.    *)
OpenStreams(s) == PositionStreams(s.pos) + Len(s.merger.in)
Peak(s, more) == [s EXCEPT !.peak = Most(@, OpenStreams(s) + more)]

Begin(s, given) ==
  LET p == CalculateParameters(given) IN
  [s EXCEPT !.state = "runFormation", !.p = p, !.capacity = p.runLength,
            !.files = [i \in 0..(2 * p.fanout - 1) |-> <<>>],
            !.ok = @ /\ s.state = "notStarted" /\ given.files2 >= MinimumFilesPhase2
                     /\ given.files3 >= MinimumFilesPhase3]

SortCurrentRun(s) == [s EXCEPT !.buffer = SortSeq(@, LAMBDA a, b: a < b)]

RunFile(s, level, run) == (level % 2) * s.p.fanout + (run % s.p.fanout)

(* open_run_file_write(): a run is added at the end of its file, which the  *)
(* first run of a level in that file empties.                               *)
OpenRunFileWrite(s, level, run) ==
  LET f == RunFile(s, level, run)
      t == IF run < s.p.fanout THEN [s EXCEPT !.files[f] = <<>>] ELSE s
  IN Peak(SetPosition(t, level, run, Len(t.files[f])), 1)

Append1(s, f, item) == [s EXCEPT !.files[f] = Append(@, item)]

EmptyCurrentRun(s) ==
  LET t == OpenRunFileWrite(s, 0, s.finishedRuns)
      f == RunFile(s, 0, s.finishedRuns)
  IN [t EXCEPT !.files[f] = @ \o s.buffer, !.buffer = <<>>, !.finishedRuns = @ + 1]

Push(s, item) ==
  LET t == IF Len(s.buffer) >= s.p.runLength THEN EmptyCurrentRun(SortCurrentRun(s)) ELSE s
  IN [t EXCEPT !.buffer = Append(@, item), !.itemCount = @ + 1,
               !.ok = @ /\ s.state = "runFormation"]

(* The run buffer fits into the memory of the later phases, as it is or     *)
(* copied to an array of the right size (if there is memory for the copy).  *)
ReportsInternally(s, memoryForCopy) ==
  \/ s.itemCount = 0
  \/ s.finishedRuns = 0 /\ s.capacity <= s.p.threshold
  \/ s.finishedRuns = 0 /\ Len(s.buffer) <= s.p.threshold /\ memoryForCopy

End(s, memoryForCopy) ==
  LET t == [SortCurrentRun(s) EXCEPT !.state = "merge", !.ok = @ /\ s.state = "runFormation"]
  IN IF ReportsInternally(s, memoryForCopy)
     THEN [t EXCEPT !.internal = TRUE,
                    !.capacity = IF s.itemCount = 0 THEN 0
                                 ELSE IF @ <= s.p.threshold THEN @ ELSE Len(s.buffer)]
     ELSE [EmptyCurrentRun(t) EXCEPT !.internal = FALSE, !.capacity = 0]

----------------------------------------------------------------------------
(* merger *)

MergerCanPull(s) == s.merger.pq # {}
MergerTop(s) == CHOOSE x \in s.merger.pq :
                  \A y \in s.merger.pq : x[1] < y[1] \/ (x[1] = y[1] /\ x[2] <= y[2])

(* merger::reset(inputs, runLength) reads the first item of every input.    *)
ResetMerger(s, in, length) ==
  IF \A i \in 1..Len(in) : in[i].off \in 0..(Len(s.files[in[i].file]) - 1)
  THEN Peak([s EXCEPT
         !.merger = [in |-> [i \in 1..Len(in) |-> [in[i] EXCEPT !.off = @ + 1]],
                     pq |-> {<<s.files[in[i].file][in[i].off + 1], i>> : i \in 1..Len(in)},
                     read |-> [i \in 1..Len(in) |-> 1], length |-> length],
         !.ok = @ /\ s.merger.pq = {}], 0)
  ELSE [s EXCEPT !.ok = FALSE]

(* Mutant: a run is read on into the next one of its file.                  *)
MergerPullOn(s) ==
  LET top == MergerTop(s)
      i == top[2]
      from == s.merger.in[i]
      rest == s.merger.pq \ {top}
  IN IF from.off < Len(s.files[from.file])
     THEN [s EXCEPT !.merger.pq = rest \cup {<<s.files[from.file][from.off + 1], i>>},
                    !.merger.in[i].off = @ + 1, !.merger.read[i] = @ + 1]
     ELSE [s EXCEPT !.merger = IF rest = {} THEN NoMerger ELSE [@ EXCEPT !.pq = rest]]

MergerPull(s) ==
  LET top == MergerTop(s)
      i == top[2]
      from == s.merger.in[i]
      more == from.off < Len(s.files[from.file]) /\ s.merger.read[i] < s.merger.length
      rest == s.merger.pq \ {top}
  IN IF more
     THEN [s EXCEPT !.merger.pq = rest \cup {<<s.files[from.file][from.off + 1], i>>},
                    !.merger.in[i].off = @ + 1, !.merger.read[i] = @ + 1]
     ELSE [s EXCEPT !.merger = IF rest = {} THEN NoMerger ELSE [@ EXCEPT !.pq = rest]]

----------------------------------------------------------------------------
(* Merging *)

RunLengthAt(s, level) == s.p.runLength * s.p.fanout ^ level

(* open_run_file_read() for one run after the other, from run first on.     *)
OpenRunFilesRead(s, level, first, n) ==
  FoldLeft(LAMBDA x, k :
             LET run == first + k - 1
                 at == PositionOf(x.s.pos, level, run)
             IN [s |-> [x.s EXCEPT !.pos = PositionRead(@, level), !.ok = @ /\ at # NoPosition],
                 in |-> Append(x.in, [file |-> RunFile(s, level, run), off |-> at])],
           [s |-> s, in |-> <<>>], UpTo(n))

InitializeMerger(s, level, first, n) ==
  LET x == OpenRunFilesRead(s, level, first, n)
  IN ResetMerger(x.s, x.in, RunLengthAt(s, level))

MergeRuns(s, level, first, n) ==
  LET next == first \div s.p.fanout
      f == RunFile(s, level + 1, next)
  IN FoldLeft(LAMBDA t, k : IF MergerCanPull(t)
                            THEN Append1(MergerPull(t), f, MergerTop(t)[1]) ELSE t,
              OpenRunFileWrite(InitializeMerger(s, level, first, n), level + 1, next),
              UpTo(s.itemCount))

(* reinitialize_final_merger(): open the last runs (again).                 *)
ReinitializeFinalMerger(s) ==
  LET t == [s EXCEPT !.pos = UnevacuatePositions(@), !.evacuated = FALSE, !.ok = @ /\ s.initialized]
      some == OpenRunFilesRead(t, s.finalLevel, 0, s.p.finalFanout - 1)
      all == OpenRunFilesRead(some.s, s.finalLevel + 1, s.special, 1)
  IN IF s.special = NoRun THEN InitializeMerger(t, s.finalLevel, 0, s.finalRuns)
     ELSE ResetMerger(all.s, some.in \o all.in, RunLengthAt(s, s.finalLevel + 1))

(* initialize_final_merger(): the runs beyond the final fanout are merged   *)
(* into a special run of the next level first.                              *)
InitializeFinalMerger(s, level, runs) ==
  LET first == s.p.finalFanout - 1
      t == [s EXCEPT !.initialized = TRUE, !.finalLevel = level, !.finalRuns = runs,
                     !.ok = @ /\ CanChangeLevel(s.pos),
                     !.pos = FinalLevel(NextLevel(@), s.p.fanout)]
  IN IF s.initialized THEN ReinitializeFinalMerger(s)
     ELSE IF runs > s.p.finalFanout
          THEN ReinitializeFinalMerger([MergeRuns(t, level, first, runs - first)
                                          EXCEPT !.special = first \div s.p.fanout])
          ELSE ReinitializeFinalMerger(t)

(* One pass of prepare_pull(): groups of fanout runs become runs of the     *)
(* next level.                                                              *)
MergeLevel(x) ==
  LET fanout == x.s.p.fanout
      groups == (x.runs + fanout - 1) \div fanout
  IN [s |-> FoldLeft(LAMBDA t, g : MergeRuns(t, x.level, (g - 1) * fanout,
                                             Least(x.runs - (g - 1) * fanout, fanout)),
                     [x.s EXCEPT !.pos = NextLevel(@), !.ok = @ /\ CanChangeLevel(x.s.pos)],
                     UpTo(groups)),
      level |-> x.level + 1, runs |-> groups]

Calc(s) ==
  LET start == [s |-> [s EXCEPT !.pos = UnevacuatePositions(@), !.peak = 0],
                level |-> 0, runs |-> s.finishedRuns]
      merged == FoldLeft(LAMBDA x, k : IF x.runs > s.p.fanout THEN MergeLevel(x) ELSE x,
                         start, UpTo(s.finishedRuns))
      t == IF s.internal THEN s
           ELSE InitializeFinalMerger(merged.s, merged.level, merged.runs)
  IN [t EXCEPT !.state = "report", !.ok = @ /\ s.state = "merge"]

----------------------------------------------------------------------------
(* Evacuation *)

Evacuate(s) ==
  LET run == IF Len(s.buffer) > 0 THEN 1 ELSE 0
      t == InitializeFinalMerger([EmptyCurrentRun(s) EXCEPT !.internal = FALSE, !.capacity = 0],
                                 0, run)
      u == IF s.internal THEN t ELSE s
  IN IF ~s.internal /\ s.state = "merge"
     THEN [s EXCEPT !.pos = EvacuatePositions(@), !.ok = @ /\ s.pos.open]
     ELSE [u EXCEPT !.merger = NoMerger, !.evacuated = TRUE, !.pos = EvacuatePositions(@),
                    !.ok = @ /\ u.pos.open /\ s.state \in {"merge", "report"}]

EvacuateBeforeMerging(s) == IF s.state = "merge" THEN Evacuate(s) ELSE s

EvacuateBeforeReporting(s) ==
  IF s.state = "report" /\ (~s.internal \/ s.pulled = 0) THEN Evacuate(s) ELSE s

----------------------------------------------------------------------------
(* Reporting *)

(* can_pull() opens the runs again if they were evacuated.                  *)
ReadyToPull(s) == IF ~s.internal /\ s.evacuated THEN ReinitializeFinalMerger(s) ELSE s

CanPull(s) == IF s.internal THEN s.pulled < s.itemCount ELSE MergerCanPull(ReadyToPull(s))

PulledItem(s) == IF s.internal THEN s.buffer[s.pulled + 1] ELSE MergerTop(ReadyToPull(s))[1]

Pull(s) ==
  IF s.internal
  THEN [s EXCEPT !.pulled = @ + 1, !.capacity = IF s.pulled + 1 < s.itemCount THEN @ ELSE 0,
                 !.ok = @ /\ s.state = "report"]
  ELSE LET t == ReadyToPull(s) IN
       MergerPull([t EXCEPT !.pos = IF @.open THEN ClosedPositions ELSE @,
                            !.ok = @ /\ s.state = "report"])

(* actual_memory_phase_3()                                                  *)
MemoryPhase3(s) == IF s.internal THEN s.capacity ELSE FanoutUsage(s.finalRuns)

(* What the sorter keeps in memory between two phases.                      *)
Resident(s) == s.capacity + Len(s.merger.in)
=============================================================================
