------------------------- MODULE FileReadScheduler -------------------------
(***************************************************************************)
(* Center/File/FileReadScheduler.hpp and ThreadCenterAdapter.hpp: a plan   *)
(* made by FileReadPlanner is run, on the workers of ThreadCenter or, in a *)
(* build without it, one task after the other.  Tasks read straight into   *)
(* the caller's memory, copy out of a mapping, or hand out views of it.    *)
(*                                                                         *)
(* A step of a worker is one access to what the workers share: has_error,  *)
(* the list of errors (under its mutex), the list of views (under its      *)
(* mutex) and the caller's callback.                                       *)
(***************************************************************************)
EXTENDS Integers, FiniteSets, Sequences

CONSTANTS
    RequestLists, Configs, Ticks,   \* the planner's inputs
    Faults,           \* the sets of paths that may turn out unreadable
    Builds,           \* values of CENTER_FILE_HAS_THREAD_CENTER
    Platforms,        \* values of CENTER_FILE_PLATFORM_WINDOWS
    Workers           \* tasks ThreadCenter runs at once

ASSUME RunAssumption ==
    /\ \A paths \in Faults : paths \subseteq Nat
    /\ Builds \subseteq BOOLEAN /\ Platforms \subseteq BOOLEAN
    /\ Workers \in Nat \ {0}

VARIABLES
    requests, config, now_ticks, pc, next, staged_tasks, merged_tasks, plan,
    has_thread_center, windows,
    out_views_given,                \* runViewRequests, not runRequests
    unreadable,                     \* paths that cannot be opened, mapped or read
    phase,                          \* planning, parallel, sequential, returned
    progress,                       \* where each task stands, and at which segment
    has_error, errors,              \* of the adapter's runPlan
    copied,                         \* what was copied to the caller's memory
    out_views, callbacks,           \* the views handed out; history: calls of the callback
    status                          \* what the call returned

Planner == INSTANCE FileReadPlanner
ASSUME PlannerAssumption == Planner!InputsAssumption

plannerVars == <<requests, config, now_ticks, pc, next, staged_tasks,
                 merged_tasks, plan>>
inputVars   == <<has_thread_center, windows, out_views_given, unreadable>>
effects     == <<copied, out_views, callbacks>>
runVars     == <<phase, progress, has_error, errors, effects, status>>
vars        == <<plannerVars, inputVars, runVars>>

Ok == [lane |-> "none", code |-> "ok"]

Init ==
    /\ Planner!Init
    /\ has_thread_center \in Builds /\ windows \in Platforms
    /\ out_views_given \in BOOLEAN
    /\ unreadable \in Faults
    /\ phase = "planning" /\ progress = <<>>
    /\ has_error = FALSE /\ errors = <<>>
    /\ copied = {} /\ out_views = <<>> /\ callbacks = <<>>
    /\ status = Ok

MakePlan == Planner!makePlan /\ UNCHANGED <<inputVars, runVars>>

-----------------------------------------------------------------------------
(* One task.                                                               *)
Keys == UNION {{lane} \X DOMAIN plan[lane] : lane \in Planner!ReadLane}
Task(k) == plan[k[1]][k[2]]

ViewTask(t) == t.method = "mappedView" /\ out_views_given

(* The error executeTask and executeTaskWithViews return for t, if any.  A *)
(* direct read looks at its destination before it opens the file, a mapped *)
(* copy after it has mapped it.                                            *)
NoDestination(t) ==
    Len(t.segments) <= 1 /\ (t.destination = Planner!Null \/ t.size_bytes = 0)
CannotOpen(t) == t.path \in unreadable
FaultOf(t) ==
    IF t.method = "directRead" /\ NoDestination(t) THEN "invalid_argument"
    ELSE IF t.method # "directRead" /\ ~windows THEN "function_not_supported"
    ELSE IF CannotOpen(t) THEN "unreadable"
    ELSE IF ~ViewTask(t) /\ NoDestination(t) THEN "invalid_argument"
    ELSE "none"

(* What t copies: its range, or each of its segments that has somewhere to *)
(* go.                                                                     *)
Copy(t, part_offset, part_size, destination) ==
    [path |-> t.path, source_offset |-> part_offset, size_bytes |-> part_size,
     destination |-> destination]
CopiesOfFirst(t) ==                                \* mutant: the first segment only
    {Copy(t, t.segments[1].source_offset, t.segments[1].size_bytes,
          t.segments[1].destination)}
CopiesOf(t) ==
    IF Len(t.segments) <= 1
    THEN {Copy(t, t.offset, t.size_bytes, t.destination)}
    ELSE {Copy(t, t.segments[n].source_offset, t.segments[n].size_bytes,
               t.segments[n].destination) :
             n \in {m \in DOMAIN t.segments :
                       t.segments[m].destination # Planner!Null
                       /\ t.segments[m].size_bytes > 0}}

(* The view of segment n.                                                  *)
ReadView(t, n) ==
    [path |-> t.path, source_offset |-> t.segments[n].source_offset,
     size_bytes |-> t.segments[n].size_bytes, request_id |-> t.segments[n].request_id]
ViewsOf(t) == [n \in DOMAIN t.segments |-> ReadView(t, n)]

-----------------------------------------------------------------------------
(* ThreadCenterAdapter::runPlan.  Without ThreadCenter it is               *)
(* function_not_supported, and the scheduler runs the plan sequentially.   *)
Finished == {"succeeded", "failed", "skipped"}
Label(k) == progress[k].label
LaneDone(lane) == \A n \in DOMAIN plan[lane] : Label(<<lane, n>>) \in Finished

At(k, from, to) ==
    /\ phase = "parallel"
    /\ Label(k) = from
    /\ progress' = [progress EXCEPT ![k].label = to]

AllWaiting == [k \in Keys |-> [label |-> "waiting", segment |-> 1]]

Dispatch ==
    /\ pc = "planned" /\ phase = "planning"
    /\ phase' = IF has_thread_center THEN "parallel" ELSE "sequential"
    /\ progress' = AllWaiting
    /\ UNCHANGED <<plannerVars, inputVars, has_error, errors, effects, status>>

(* Mutant of GateOpen: an empty lane leaves the next one without a gate.   *)
GateOpenOnEmptyLane(lane) ==
    \/ lane = "urgent"
    \/ lane = "normal" /\ LaneDone("urgent")
    \/ lane = "background" /\ LaneDone("normal")

(* The gates urgent_done and normal_done; when there is no normal task the *)
(* background lane waits for urgent_done.                                  *)
GateOpen(lane) ==
    \/ lane = "urgent"
    \/ lane = "normal" /\ LaneDone("urgent")
    \/ lane = "background" /\ IF plan["normal"] = <<>> THEN LaneDone("urgent")
                                                       ELSE LaneDone("normal")

Running == {k \in DOMAIN progress : Label(k) \notin Finished \cup {"waiting"}}

(* Mutants of BeginTask: has_error is not looked at; after an error the    *)
(* task is not taken at all.                                               *)
BeginTaskNever(k) ==
    /\ GateOpen(k[1]) /\ Cardinality(Running) < Workers /\ ~has_error
    /\ At(k, "waiting", "running")
    /\ UNCHANGED <<plannerVars, inputVars, phase, has_error, errors, effects, status>>
BeginTaskBlind(k) ==
    /\ GateOpen(k[1]) /\ Cardinality(Running) < Workers
    /\ At(k, "waiting", "running")
    /\ UNCHANGED <<plannerVars, inputVars, phase, has_error, errors, effects, status>>

(* A worker takes the task; after an error its body returns at once.       *)
BeginTask(k) ==
    /\ GateOpen(k[1]) /\ Cardinality(Running) < Workers
    /\ At(k, "waiting", IF has_error THEN "skipped" ELSE "running")
    /\ UNCHANGED <<plannerVars, inputVars, phase, has_error, errors, effects, status>>

ExecuteTask(k) ==
    /\ At(k, "running", IF FaultOf(Task(k)) # "none" THEN "failing"
                        ELSE IF ViewTask(Task(k)) THEN "view" ELSE "succeeded")
    /\ copied' = IF FaultOf(Task(k)) # "none" \/ ViewTask(Task(k)) THEN copied
                 ELSE copied \cup CopiesOf(Task(k))
    /\ UNCHANGED <<plannerVars, inputVars, phase, has_error, errors,
                   out_views, callbacks, status>>

(* push_view: the view goes into the list, then to the callback, outside   *)
(* the mutex.                                                              *)
PushView(k) ==
    /\ At(k, "view", "callback")
    /\ out_views' = Append(out_views, ReadView(Task(k), progress[k].segment))
    /\ UNCHANGED <<plannerVars, inputVars, phase, has_error, errors,
                   copied, callbacks, status>>

(* Mutants of CallBack: the loop runs one segment too far; only the first  *)
(* segment is called back.                                                 *)
CallBackTooFar(k) ==
    /\ phase = "parallel" /\ Label(k) = "callback"
    /\ callbacks' = Append(callbacks, ReadView(Task(k), progress[k].segment))
    /\ progress' = [progress EXCEPT ![k] =
          IF @.segment <= Len(Task(k).segments)
          THEN [label |-> "view", segment |-> @.segment + 1]
          ELSE [label |-> "succeeded", segment |-> @.segment]]
    /\ UNCHANGED <<plannerVars, inputVars, phase, has_error, errors,
                   copied, out_views, status>>
CallBackOnce(k) ==
    /\ phase = "parallel" /\ Label(k) = "callback"
    /\ callbacks' = IF progress[k].segment > 1 THEN callbacks
                    ELSE Append(callbacks, ReadView(Task(k), progress[k].segment))
    /\ progress' = [progress EXCEPT ![k] =
          IF @.segment < Len(Task(k).segments)
          THEN [label |-> "view", segment |-> @.segment + 1]
          ELSE [label |-> "succeeded", segment |-> @.segment]]
    /\ UNCHANGED <<plannerVars, inputVars, phase, has_error, errors,
                   copied, out_views, status>>

CallBack(k) ==
    /\ phase = "parallel" /\ Label(k) = "callback"
    /\ callbacks' = Append(callbacks, ReadView(Task(k), progress[k].segment))
    /\ progress' = [progress EXCEPT ![k] =
          IF @.segment < Len(Task(k).segments)
          THEN [label |-> "view", segment |-> @.segment + 1]
          ELSE [label |-> "succeeded", segment |-> @.segment]]
    /\ UNCHANGED <<plannerVars, inputVars, phase, has_error, errors,
                   copied, out_views, status>>

StoreError(k) ==
    /\ At(k, "failing", "recording")
    /\ has_error' = TRUE
    /\ UNCHANGED <<plannerVars, inputVars, phase, errors, effects, status>>

ErrorOf(k) == [lane |-> k[1], code |-> FaultOf(Task(k))]

(* Mutant of RecordError: only the flag is kept.                           *)
RecordNoError(k) ==
    /\ At(k, "recording", "failed")
    /\ UNCHANGED <<plannerVars, inputVars, phase, has_error, errors, effects, status>>

RecordError(k) ==
    /\ At(k, "recording", "failed")
    /\ errors' = Append(errors, ErrorOf(k))
    /\ UNCHANGED <<plannerVars, inputVars, phase, has_error, effects, status>>

(* run_handle.wait(): the first error recorded is the result.              *)
AllDone == \A lane \in Planner!ReadLane : LaneDone(lane)
NotSupported == errors # <<>> /\ errors[1].code = "function_not_supported"

Wait ==
    /\ phase = "parallel" /\ AllDone /\ ~NotSupported
    /\ status' = IF errors = <<>> THEN Ok ELSE errors[1]
    /\ phase' = "returned"
    /\ UNCHANGED <<plannerVars, inputVars, progress, has_error, errors, effects>>

(* A build that cannot map files says so through the first error; the      *)
(* scheduler then runs the whole plan again, sequentially.                 *)
RunAgain ==
    /\ phase = "parallel" /\ AllDone /\ NotSupported
    /\ phase' = "sequential"
    /\ progress' = AllWaiting
    /\ UNCHANGED <<plannerVars, inputVars, has_error, errors, effects, status>>

runPlan ==
    \/ Dispatch \/ Wait \/ RunAgain
    \/ \E k \in DOMAIN progress : \/ BeginTask(k) \/ ExecuteTask(k) \/ PushView(k)
                                 \/ CallBack(k)  \/ StoreError(k)  \/ RecordError(k)

-----------------------------------------------------------------------------
(* runPlanSequential, runPlanSequentialWithViews: the lanes in order, up   *)
(* to the first error.                                                     *)
laneNumber == [urgent |-> 0, normal |-> 1, background |-> 2]
Earlier(k, l) == \/ laneNumber[k[1]] < laneNumber[l[1]]
                 \/ k[1] = l[1] /\ k[2] < l[2]
IsNext(k) == /\ Label(k) = "waiting"
             /\ \A l \in Keys : Earlier(l, k) => Label(l) = "succeeded"

SequentialTask(k) ==
    /\ phase = "sequential" /\ IsNext(k)
    /\ FaultOf(Task(k)) = "none"
    /\ progress' = [progress EXCEPT ![k].label = "succeeded"]
    /\ copied' = IF ViewTask(Task(k)) THEN copied ELSE copied \cup CopiesOf(Task(k))
    /\ out_views' = IF ViewTask(Task(k)) THEN out_views \o ViewsOf(Task(k)) ELSE out_views
    /\ callbacks' = IF ViewTask(Task(k)) THEN callbacks \o ViewsOf(Task(k)) ELSE callbacks
    /\ UNCHANGED <<plannerVars, inputVars, phase, has_error, errors, status>>

SequentialFails(k) ==
    /\ phase = "sequential" /\ IsNext(k)
    /\ FaultOf(Task(k)) # "none"
    /\ progress' = [progress EXCEPT ![k].label = "failed"]
    /\ status' = ErrorOf(k)
    /\ phase' = "returned"
    /\ UNCHANGED <<plannerVars, inputVars, has_error, errors, effects>>

SequentialReturn ==
    /\ phase = "sequential" /\ \A k \in Keys : Label(k) = "succeeded"
    /\ phase' = "returned"
    /\ UNCHANGED <<plannerVars, inputVars, progress, has_error, errors,
                   effects, status>>

runPlanSequential ==
    SequentialReturn \/ \E k \in DOMAIN progress : SequentialTask(k) \/ SequentialFails(k)

Next == MakePlan \/ runPlan \/ runPlanSequential

(* ThreadCenter keeps running tasks that are ready, and the calling thread *)
(* keeps running.                                                          *)
Fairness == WF_vars(Next)

Spec == Init /\ [][Next]_vars /\ Fairness

-----------------------------------------------------------------------------
(* Properties.                                                             *)

(* Every variable of the run stays in its type; no task goes past its last *)
(* segment.                                                                *)
TypeOK ==
    /\ phase \in {"planning", "parallel", "sequential", "returned"}
    /\ phase # "planning" => DOMAIN progress = Keys
    /\ \A k \in DOMAIN progress :
          /\ Label(k) \in Finished \cup {"waiting", "running", "view", "callback",
                                         "failing", "recording"}
          /\ progress[k].segment \in DOMAIN Task(k).segments
    /\ has_error \in BOOLEAN
    /\ \A n \in DOMAIN errors : errors[n].lane \in Planner!ReadLane

(* No task of a lane begins before every task of the lanes before it has   *)
(* finished, whichever of them are empty.                                  *)
LanesInOrder ==
    \A k, l \in DOMAIN progress :
        laneNumber[k[1]] < laneNumber[l[1]] /\ Label(l) # "waiting"
            => Label(k) \in Finished

(* After a task has failed no task of a later lane reads anything: the     *)
(* error is stored before the gate opens.                                  *)
FailureEndsLaterLanes ==
    \A k, l \in DOMAIN progress :
        laneNumber[k[1]] < laneNumber[l[1]] /\ Label(k) = "failed"
            => Label(l) \in {"waiting", "skipped"}

(* The result is the sequential run's, whatever the workers' order: ok if  *)
(* no task of the plan has a fault, and otherwise a fault of the first     *)
(* lane that has one.                                                      *)
Faulty == {k \in Keys : FaultOf(Task(k)) # "none"}
AgreesWithSequential ==
    phase = "returned" =>
        IF Faulty = {} THEN status = Ok
        ELSE \E k \in Faulty :
                /\ status = ErrorOf(k)
                /\ \A l \in Faulty : laneNumber[k[1]] <= laneNumber[l[1]]

(* Every view is called back exactly once, after it is in the list, and no *)
(* view is handed out twice.                                               *)
Occurrences(v, s) == Cardinality({n \in DOMAIN s : s[n] = v})
ViewsCalledBack ==
    /\ \A n \in DOMAIN callbacks :
          Occurrences(callbacks[n], callbacks) <= Occurrences(callbacks[n], out_views)
    /\ \A n \in DOMAIN out_views :
          /\ Occurrences(out_views[n], out_views) = 1
          /\ phase = "returned" => Occurrences(out_views[n], callbacks) = 1

(* Byte b of request r is where r wants it, or in a view of r.             *)
ByteCopied(r, b) ==
    \E c \in copied :
        /\ c.path = r.path
        /\ r.offset + b \in c.source_offset .. c.source_offset + c.size_bytes - 1
        /\ c.source_offset >= r.offset
        /\ c.destination = Planner!Advance(r.destination, c.source_offset - r.offset)
        /\ c.destination # Planner!Null
ByteViewed(r, b) ==
    \E n \in DOMAIN out_views :
        /\ out_views[n].path = r.path /\ out_views[n].request_id = r.request_id
        /\ r.offset + b \in out_views[n].source_offset ..
                            out_views[n].source_offset + out_views[n].size_bytes - 1
Served(r) == \A b \in 0 .. r.size_bytes - 1 : ByteCopied(r, b) \/ ByteViewed(r, b)

(* A run that returns ok has served every accepted request that brings a   *)
(* destination: each of its bytes was copied there or is in a view.        *)
SuccessServesDestinations ==
    (phase = "returned" /\ status = Ok) =>
        \A i \in DOMAIN requests :
            Planner!isValidRequest(requests[i]) /\ requests[i].destination # Planner!Null
                => Served(requests[i])

(* The call returns: no gate waits for a task that is never finished, also *)
(* after an error, with empty lanes, or when the plan is run again.        *)
RunReturns == <>(phase = "returned")

-----------------------------------------------------------------------------
(* What the documents say and the code does not do.                        *)

(* A view request without a destination, accepted by a run for views that  *)
(* returns ok, is served.                                                  *)
SuccessServesViews ==
    (phase = "returned" /\ status = Ok /\ out_views_given) =>
        \A i \in DOMAIN requests :
            Planner!isValidRequest(requests[i]) => Served(requests[i])
=============================================================================
