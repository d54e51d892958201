-------------------------- MODULE FileReadPlanner --------------------------
(***************************************************************************)
(* Center/File/FileReadPlanner.hpp: makePlan turns an array of read        *)
(* requests into tasks in three lanes.  Requests are staged (split, if     *)
(* large), the tasks are sorted, neighbours are merged, and the result is  *)
(* distributed over the lanes.  One step is one round of a loop.           *)
(*                                                                         *)
(* A path is the rank it has in native() order.  A pointer is a position   *)
(* in a buffer of the caller.  Offsets and sizes do not pass 2^64.         *)
(***************************************************************************)
EXTENDS Integers, FiniteSets, Sequences

CONSTANTS
    RequestLists,     \* the arrays of requests makePlan is called with
    Configs,          \* the planner configurations
    Ticks             \* the values of now_ticks_

ReadUrgency == {"immediate", "frameCritical", "streaming", "preload", "background"}
ReadLane    == {"urgent", "normal", "background"}
ReadMethod  == {"directRead", "mappedCopy", "mappedView"}

Null    == [buffer |-> 0, at |-> 0]
Pointer == {Null} \cup [buffer : Nat \ {0}, at : Nat]

ReadRequest == [path : Nat, offset : Nat, size_bytes : Nat,
                destination : Pointer, destination_capacity : Nat,
                urgency : ReadUrgency, allow_split : BOOLEAN,
                allow_mapped_copy : BOOLEAN, allow_mapped_view : BOOLEAN,
                same_frame_required : BOOLEAN, startup_critical : BOOLEAN,
                deadline_ticks : Nat, request_id : Nat]

PlannerConfig == [deadline_preempt_window_ticks : Nat,
                  medium_file_threshold : Nat, large_file_threshold : Nat,
                  split_chunk_bytes : Nat, enable_range_merge : BOOLEAN,
                  merge_gap_bytes : Nat, merge_max_bytes : Nat]

ReadSegment == [source_offset : Nat, size_bytes : Nat, destination : Pointer,
                request_id : Nat]

PlannedReadTask == [path : Nat, offset : Nat, size_bytes : Nat,
                    destination : Pointer, urgency : ReadUrgency,
                    lane : ReadLane, method : ReadMethod,
                    deadline_ticks : Nat, request_id : Nat,
                    segments : Seq(ReadSegment)]

ASSUME InputsAssumption ==
    /\ \A requests \in RequestLists : requests \in Seq(ReadRequest)
    /\ \A config \in Configs : config \in PlannerConfig
    /\ \A ticks \in Ticks : ticks \in Nat

VARIABLES
    requests, config, now_ticks,    \* the call's input
    pc,                             \* the loop makePlan is in
    next,                           \* the index of that loop
    staged_tasks, merged_tasks,
    plan                            \* the tasks of each lane

plannerVars == <<requests, config, now_ticks, pc, next, staged_tasks,
                 merged_tasks, plan>>

Init ==
    /\ requests \in RequestLists /\ config \in Configs /\ now_ticks \in Ticks
    /\ pc = "stage" /\ next = 1
    /\ staged_tasks = <<>> /\ merged_tasks = <<>>
    /\ plan = [lane \in ReadLane |-> <<>>]

-----------------------------------------------------------------------------
(* Requests.                                                               *)
isValidRequest(r) ==
    /\ r.size_bytes > 0
    /\ \/ r.allow_mapped_view /\ r.destination = Null
       \/ r.destination # Null /\ r.destination_capacity >= r.size_bytes

isDeadlineUrgent(r) ==
    /\ config.deadline_preempt_window_ticks > 0 /\ r.deadline_ticks > 0
    /\ r.deadline_ticks - now_ticks <= config.deadline_preempt_window_ticks

selectLane(r) ==
    IF \/ isDeadlineUrgent(r)
       \/ r.urgency \in {"immediate", "frameCritical"}
       \/ r.same_frame_required \/ r.startup_critical
    THEN "urgent"
    ELSE IF r.urgency \in {"streaming", "preload"} THEN "normal" ELSE "background"

selectMethod(r) ==
    IF r.allow_mapped_view /\ r.size_bytes >= config.large_file_threshold
    THEN "mappedView"
    ELSE IF r.allow_mapped_copy /\ r.size_bytes >= config.medium_file_threshold
    THEN "mappedCopy" ELSE "directRead"

shouldSplit(r) ==
    /\ r.allow_split
    /\ r.size_bytes >= config.large_file_threshold
    /\ config.split_chunk_bytes > 0

AdvanceNull(p, n) == [p EXCEPT !.at = @ + n]       \* mutant of Advance
Advance(p, n) == IF p = Null THEN Null ELSE [p EXCEPT !.at = @ + n]

(* The part of r that begins at byte at of it.                             *)
makeSingleTask(r, at, size) ==
    LET destination == Advance(r.destination, at)
    IN  [path |-> r.path, offset |-> r.offset + at, size_bytes |-> size,
         destination |-> destination, urgency |-> r.urgency,
         lane |-> selectLane(r), method |-> selectMethod(r),
         deadline_ticks |-> r.deadline_ticks, request_id |-> r.request_id,
         segments |-> << [source_offset |-> r.offset + at, size_bytes |-> size,
                          destination |-> destination,
                          request_id |-> r.request_id] >>]

SplitTasksUncut(r) ==                              \* mutant: a full last chunk
    LET chunk == config.split_chunk_bytes
    IN  [k \in 1 .. (r.size_bytes + chunk - 1) \div chunk |->
            makeSingleTask(r, (k - 1) * chunk, chunk)]

SplitTasks(r) ==
    LET chunk == config.split_chunk_bytes
        left(k) == r.size_bytes - (k - 1) * chunk
    IN  [k \in 1 .. (r.size_bytes + chunk - 1) \div chunk |->
            makeSingleTask(r, (k - 1) * chunk, IF left(k) < chunk THEN left(k) ELSE chunk)]

TasksOf(r) ==
    IF ~isValidRequest(r) THEN <<>>
    ELSE IF shouldSplit(r) THEN SplitTasks(r)
    ELSE << makeSingleTask(r, 0, r.size_bytes) >>

StageRequest ==
    /\ pc = "stage" /\ next <= Len(requests)
    /\ staged_tasks' = staged_tasks \o TasksOf(requests[next])
    /\ next' = next + 1
    /\ UNCHANGED <<requests, config, now_ticks, pc, merged_tasks, plan>>

-----------------------------------------------------------------------------
(* sortTasks.                                                              *)
laneNumber   == [urgent |-> 0, normal |-> 1, background |-> 2]
urgencyScore == [immediate |-> 500, frameCritical |-> 400, streaming |-> 300,
                 preload |-> 200, background |-> 100]

(* The last keys: urgency, path, offset, size and request.                 *)
BeforeByRank(x, y) ==
    IF x.urgency # y.urgency THEN urgencyScore[x.urgency] > urgencyScore[y.urgency]
    ELSE IF x.path # y.path THEN x.path < y.path
    ELSE IF x.offset # y.offset THEN x.offset < y.offset
    ELSE IF x.size_bytes # y.size_bytes THEN x.size_bytes < y.size_bytes
    ELSE x.request_id < y.request_id

(* Mutants of Before: a deadline counts only against another deadline; no  *)
(* deadline is the earliest.                                               *)
BeforeIfBothDue(x, y) ==
    IF x.lane # y.lane THEN laneNumber[x.lane] < laneNumber[y.lane]
    ELSE IF x.deadline_ticks # y.deadline_ticks
            /\ x.deadline_ticks # 0 /\ y.deadline_ticks # 0
    THEN x.deadline_ticks < y.deadline_ticks
    ELSE BeforeByRank(x, y)
BeforeZeroFirst(x, y) ==
    IF x.lane # y.lane THEN laneNumber[x.lane] < laneNumber[y.lane]
    ELSE IF x.deadline_ticks # y.deadline_ticks
    THEN x.deadline_ticks < y.deadline_ticks
    ELSE BeforeByRank(x, y)

(* The comparison: lane, then deadline (none is the latest), then the rest. *)
Before(x, y) ==
    IF x.lane # y.lane THEN laneNumber[x.lane] < laneNumber[y.lane]
    ELSE IF x.deadline_ticks # y.deadline_ticks
    THEN x.deadline_ticks # 0
         /\ (y.deadline_ticks = 0 \/ x.deadline_ticks < y.deadline_ticks)
    ELSE BeforeByRank(x, y)

(* std::stable_sort: each task goes behind those that come before it and   *)
(* those equal to it that preceded it.                                     *)
Place(tasks, i) ==
    1 + Cardinality({j \in DOMAIN tasks :
                        \/ Before(tasks[j], tasks[i])
                        \/ j < i /\ ~Before(tasks[i], tasks[j])})
Sorted(tasks) ==
    [p \in DOMAIN tasks |-> tasks[CHOOSE i \in DOMAIN tasks : Place(tasks, i) = p]]

SortTasks ==
    /\ pc = "stage" /\ next > Len(requests)
    /\ staged_tasks' = Sorted(staged_tasks)
    /\ pc' = IF config.enable_range_merge THEN "merge" ELSE "lanes"
    /\ next' = 1
    /\ UNCHANGED <<requests, config, now_ticks, merged_tasks, plan>>

-----------------------------------------------------------------------------
(* mergeTasks.                                                             *)
EndOf(t)    == t.offset + t.size_bytes
Later(a, b) == IF a > b THEN a ELSE b

(* Mutant of canMerge: the sizes are added up, the gap is forgotten.       *)
canMergeBySizes(lhs, rhs) ==
    /\ lhs.path = rhs.path /\ lhs.lane = rhs.lane /\ lhs.method = rhs.method
    /\ lhs.deadline_ticks = rhs.deadline_ticks
    /\ lhs.offset <= rhs.offset
    /\ rhs.offset - EndOf(lhs) <= config.merge_gap_bytes
    /\ lhs.size_bytes + rhs.size_bytes <= config.merge_max_bytes
    /\ lhs.method = "directRead" => lhs.destination # Null /\ rhs.destination # Null

canMerge(lhs, rhs) ==
    /\ lhs.path = rhs.path /\ lhs.lane = rhs.lane /\ lhs.method = rhs.method
    /\ lhs.deadline_ticks = rhs.deadline_ticks
    /\ lhs.offset <= rhs.offset
    /\ rhs.offset - EndOf(lhs) <= config.merge_gap_bytes
    /\ Later(EndOf(lhs), EndOf(rhs)) - lhs.offset <= config.merge_max_bytes
    /\ lhs.method = "directRead" => lhs.destination # Null /\ rhs.destination # Null

(* Mutant of consume: the end is the end of the task consumed.             *)
consumeToEnd(dst, src) ==
    [dst EXCEPT !.size_bytes  = EndOf(src) - dst.offset,
                !.segments    = dst.segments \o src.segments,
                !.destination = Null]

(* dst takes src in; with two segments or more it has no destination.      *)
consume(dst, src) ==
    [dst EXCEPT !.size_bytes  = Later(EndOf(dst), EndOf(src)) - dst.offset,
                !.segments    = dst.segments \o src.segments,
                !.destination = Null]

(* Mutant of MergeTask: a task that has taken one in takes no other.       *)
MergeTaskOnce ==
    /\ pc = "merge" /\ next <= Len(staged_tasks)
    /\ merged_tasks' =
         IF next > 1 /\ Len(merged_tasks[Len(merged_tasks)].segments) = 1
            /\ canMerge(merged_tasks[Len(merged_tasks)], staged_tasks[next])
         THEN [merged_tasks EXCEPT ![Len(merged_tasks)] = consume(@, staged_tasks[next])]
         ELSE Append(merged_tasks, staged_tasks[next])
    /\ next' = next + 1
    /\ UNCHANGED <<requests, config, now_ticks, pc, staged_tasks, plan>>

(* The next task joins the last merged one or begins another.              *)
MergeTask ==
    /\ pc = "merge" /\ next <= Len(staged_tasks)
    /\ merged_tasks' =
         IF next > 1 /\ canMerge(merged_tasks[Len(merged_tasks)], staged_tasks[next])
         THEN [merged_tasks EXCEPT ![Len(merged_tasks)] = consume(@, staged_tasks[next])]
         ELSE Append(merged_tasks, staged_tasks[next])
    /\ next' = next + 1
    /\ UNCHANGED <<requests, config, now_ticks, pc, staged_tasks, plan>>

MergeDone ==
    /\ pc = "merge" /\ next > Len(staged_tasks)
    /\ staged_tasks' = merged_tasks
    /\ pc' = "lanes" /\ next' = 1
    /\ UNCHANGED <<requests, config, now_ticks, merged_tasks, plan>>

-----------------------------------------------------------------------------
(* The tasks go to the lanes of the plan.                                  *)
DistributeTask ==
    /\ pc = "lanes" /\ next <= Len(staged_tasks)
    /\ plan' = [plan EXCEPT ![staged_tasks[next].lane] = Append(@, staged_tasks[next])]
    /\ next' = next + 1
    /\ UNCHANGED <<requests, config, now_ticks, pc, staged_tasks, merged_tasks>>

ReturnPlan ==
    /\ pc = "lanes" /\ next > Len(staged_tasks)
    /\ pc' = "planned"
    /\ UNCHANGED <<requests, config, now_ticks, next, staged_tasks, merged_tasks, plan>>

makePlan == StageRequest \/ SortTasks \/ MergeTask \/ MergeDone \/ DistributeTask
            \/ ReturnPlan

Spec == Init /\ [][makePlan]_plannerVars

-----------------------------------------------------------------------------
(* Properties.                                                             *)

(* Every variable stays in its type; no pointer is made from nullptr.      *)
TypeOK ==
    /\ requests \in Seq(ReadRequest) /\ config \in PlannerConfig /\ now_ticks \in Nat
    /\ pc \in {"stage", "merge", "lanes", "planned"}
    /\ next \in Nat \ {0}
    /\ staged_tasks \in Seq(PlannedReadTask)
    /\ merged_tasks \in Seq(PlannedReadTask)
    /\ plan \in [ReadLane -> Seq(PlannedReadTask)]

(* The tasks that stand for the requests seen so far.                      *)
Rest == SubSeq(staged_tasks, next, Len(staged_tasks))
Tasks ==
    CASE pc = "stage" -> staged_tasks
      [] pc = "merge" -> merged_tasks \o Rest
      [] OTHER        -> plan["urgent"] \o plan["normal"] \o plan["background"] \o Rest
Seen == IF pc = "stage" THEN {i \in DOMAIN requests : i < next} ELSE DOMAIN requests
Accepted == {i \in Seen : isValidRequest(requests[i])}

(* Segment k of task t carries byte b of request r, to where r wants it.   *)
Carries(t, k, r, b) ==
    LET segment == t.segments[k]
    IN  /\ t.path = r.path /\ segment.request_id = r.request_id
        /\ segment.source_offset <= r.offset + b
        /\ r.offset + b < segment.source_offset + segment.size_bytes
        /\ segment.source_offset >= r.offset
        /\ segment.destination = Advance(r.destination, segment.source_offset - r.offset)

Carriers(r, b) ==
    {c \in UNION {{n} \X DOMAIN Tasks[n].segments : n \in DOMAIN Tasks} :
        Carries(Tasks[c[1]], c[2], r, b)}

(* At every point of makePlan the tasks carry every byte of every accepted *)
(* request exactly once, to its place in the destination, and nothing      *)
(* else: split, sort and merge lose and double nothing.                    *)
ExactCoverage ==
    /\ \A i \in Accepted : \A b \in 0 .. requests[i].size_bytes - 1 :
          Cardinality(Carriers(requests[i], b)) = 1
    /\ \A n \in DOMAIN Tasks : \A k \in DOMAIN Tasks[n].segments :
          LET segment == Tasks[n].segments[k]
          IN  \A b \in 0 .. segment.size_bytes - 1 :
                 \E i \in Accepted :
                    LET at == segment.source_offset + b - requests[i].offset
                    IN  at < requests[i].size_bytes
                        /\ Carries(Tasks[n], k, requests[i], at)

(* A task's range is exactly what its segments span: a merged read copies  *)
(* each of them out of one buffer of that size, and a task of one segment  *)
(* is read straight into its destination.  A merged direct read has a      *)
(* destination for every segment.                                          *)
SpansItsSegments(t) ==
    /\ \A k \in DOMAIN t.segments :
          /\ t.offset <= t.segments[k].source_offset
          /\ t.segments[k].source_offset + t.segments[k].size_bytes <= EndOf(t)
          /\ Len(t.segments) > 1 /\ t.method = "directRead"
                => t.segments[k].destination # Null
    /\ \E k \in DOMAIN t.segments : t.segments[k].source_offset = t.offset
    /\ \E k \in DOMAIN t.segments :
          t.segments[k].source_offset + t.segments[k].size_bytes = EndOf(t)
    /\ Len(t.segments) = 1 => t.segments[1].destination = t.destination
TasksSpanTheirSegments == \A n \in DOMAIN Tasks : SpansItsSegments(Tasks[n])

(* A merged task stays within merge_max_bytes, whatever was merged before. *)
MergedWithinMax ==
    \A n \in DOMAIN Tasks :
        Len(Tasks[n].segments) > 1 => Tasks[n].size_bytes <= config.merge_max_bytes

(* The comparison std::stable_sort is given is a strict weak order on the  *)
(* staged tasks (its behaviour is undefined otherwise).                    *)
Incomparable(x, y) == ~Before(x, y) /\ ~Before(y, x)
StagedTasks == {staged_tasks[n] : n \in DOMAIN staged_tasks}
SortIsStrictWeakOrder ==
    pc = "stage" => \A x, y, z \in StagedTasks :
        /\ ~Before(x, x)
        /\ Before(x, y) => ~Before(y, x)
        /\ Before(x, y) /\ Before(y, z) => Before(x, z)
        /\ Incomparable(x, y) /\ Incomparable(y, z) => Incomparable(x, z)

(* In a lane of the plan no task is behind one that is due later or never, *)
(* nor, when due together, behind a less urgent one: merging does not undo *)
(* the sort.                                                               *)
DueFirst ==
    pc = "planned" => \A lane \in ReadLane : \A m, n \in DOMAIN plan[lane] :
        LET x == plan[lane][m]
            y == plan[lane][n]
        IN  m < n =>
            /\ y.deadline_ticks # 0 =>
                  x.deadline_ticks # 0 /\ x.deadline_ticks <= y.deadline_ticks
            /\ x.deadline_ticks = y.deadline_ticks =>
                  urgencyScore[x.urgency] >= urgencyScore[y.urgency]

(* One pass is enough: no two neighbours of a lane could still be merged.  *)
NothingLeftToMerge ==
    (pc = "planned" /\ config.enable_range_merge) =>
        \A lane \in ReadLane : \A n \in 1 .. Len(plan[lane]) - 1 :
            ~canMerge(plan[lane][n], plan[lane][n + 1])
=============================================================================
