---------------------- MODULE FileReadSchedulerProofs ----------------------
(***************************************************************************)
(* Theorems about FileReadScheduler: in what order the lanes run, what an  *)
(* error does to the later ones, that the workers' result is the one of    *)
(* the sequential run, that every view is called back once, and that a run *)
(* that succeeds has filled every destination.  What the planner's proofs  *)
(* say of a plan is brought in first.                                      *)
(***************************************************************************)
EXTENDS FileReadScheduler, FiniteSetTheorems, SequenceTheorems, TLAPS

Proved == INSTANCE FileReadPlannerProofs

-----------------------------------------------------------------------------
(* The planner of the scheduler is the planner of those proofs: every      *)
(* definition of the one is that of the other.                             *)
LEMMA SameCardinality == \A S : Planner!Cardinality(S) = Proved!Cardinality(S)
BY DEF Planner!Cardinality, Proved!Cardinality

LEMMA SameInputs == Proved!InputsAssumption
BY PlannerAssumption
   DEF Planner!InputsAssumption, Proved!InputsAssumption,
       Planner!ReadRequest, Proved!ReadRequest, Planner!Pointer, Proved!Pointer,
       Planner!Null, Proved!Null, Planner!ReadUrgency, Proved!ReadUrgency,
       Planner!PlannerConfig, Proved!PlannerConfig

LEMMA SameInit == Planner!Init => Proved!Init
BY DEF Planner!Init, Proved!Init, Planner!ReadLane, Proved!ReadLane

LEMMA SameStage == Planner!StageRequest => Proved!StageRequest
BY DEF Planner!StageRequest, Proved!StageRequest, Planner!TasksOf, Proved!TasksOf,
       Planner!isValidRequest, Proved!isValidRequest,
       Planner!shouldSplit, Proved!shouldSplit, Planner!SplitTasks, Proved!SplitTasks,
       Planner!makeSingleTask, Proved!makeSingleTask,
       Planner!selectLane, Proved!selectLane, Planner!selectMethod, Proved!selectMethod,
       Planner!Advance, Proved!Advance, Planner!Null, Proved!Null,
       Planner!isDeadlineUrgent, Proved!isDeadlineUrgent

LEMMA SamePlaces == \A tasks, i : Planner!Place(tasks, i) = Proved!Place(tasks, i)
<1> TAKE tasks, i
<1> DEFINE S == {j \in DOMAIN tasks :
                    \/ Planner!Before(tasks[j], tasks[i])
                    \/ j < i /\ ~Planner!Before(tasks[i], tasks[j])}
           T == {j \in DOMAIN tasks :
                    \/ Proved!Before(tasks[j], tasks[i])
                    \/ j < i /\ ~Proved!Before(tasks[i], tasks[j])}
<1>1. \A x, y : Planner!Before(x, y) <=> Proved!Before(x, y)
  BY DEF Planner!Before, Proved!Before, Planner!BeforeByRank, Proved!BeforeByRank,
         Planner!laneNumber, Proved!laneNumber, Planner!urgencyScore, Proved!urgencyScore
<1>2. S = T  BY <1>1
<1>3. Planner!Place(tasks, i) = 1 + Planner!Cardinality(S)  BY DEF Planner!Place
<1>4. Proved!Place(tasks, i) = 1 + Proved!Cardinality(T)  BY DEF Proved!Place
<1> HIDE DEF S, T
<1> QED  BY <1>2, <1>3, <1>4, SameCardinality

LEMMA SameSort == Planner!SortTasks => Proved!SortTasks
<1>1. ASSUME NEW tasks PROVE Planner!Sorted(tasks) = Proved!Sorted(tasks)
  <2> DEFINE F(p) == CHOOSE i \in DOMAIN tasks : Planner!Place(tasks, i) = p
             G(p) == CHOOSE i \in DOMAIN tasks : Proved!Place(tasks, i) = p
  <2>1. \A p : F(p) = G(p)  BY SamePlaces
  <2>2. Planner!Sorted(tasks) = [p \in DOMAIN tasks |-> tasks[F(p)]]  BY DEF Planner!Sorted
  <2>3. Proved!Sorted(tasks) = [p \in DOMAIN tasks |-> tasks[G(p)]]  BY DEF Proved!Sorted
  <2> HIDE DEF F, G
  <2> QED  BY <2>1, <2>2, <2>3
<1> QED  BY <1>1 DEF Planner!SortTasks, Proved!SortTasks

LEMMA SameMerge == Planner!MergeTask => Proved!MergeTask
BY DEF Planner!MergeTask, Proved!MergeTask, Planner!canMerge, Proved!canMerge,
       Planner!consume, Proved!consume, Planner!EndOf, Proved!EndOf,
       Planner!Later, Proved!Later, Planner!Null, Proved!Null

LEMMA SameRest ==
    /\ Planner!MergeDone => Proved!MergeDone
    /\ Planner!DistributeTask => Proved!DistributeTask
    /\ Planner!ReturnPlan => Proved!ReturnPlan
BY DEF Planner!MergeDone, Proved!MergeDone, Planner!DistributeTask, Proved!DistributeTask,
       Planner!ReturnPlan, Proved!ReturnPlan

(* The planner's part of a run is a run of the planner.                    *)
LEMMA PlannerRuns == Spec => Proved!Spec
<1>1. Init => Proved!Init  BY SameInit DEF Init
<1>2. [Next]_vars => [Proved!makePlan]_(Proved!plannerVars)
  <2> SUFFICES ASSUME [Next]_vars PROVE [Proved!makePlan]_(Proved!plannerVars)
    OBVIOUS
  <2>1. CASE MakePlan
    BY <2>1, SameStage, SameSort, SameMerge, SameRest
       DEF MakePlan, Planner!makePlan, Proved!makePlan
  <2>2. CASE UNCHANGED plannerVars
    BY <2>2 DEF plannerVars, Proved!plannerVars
  <2>3. CASE UNCHANGED vars
    BY <2>2, <2>3 DEF vars
  <2>4. CASE runPlan
    BY <2>2, <2>4 DEF runPlan, Dispatch, Wait, RunAgain, BeginTask, ExecuteTask, PushView,
                      CallBack, StoreError, RecordError
  <2>5. CASE runPlanSequential
    BY <2>2, <2>5 DEF runPlanSequential, SequentialReturn, SequentialTask, SequentialFails
  <2> QED  BY <2>1, <2>3, <2>4, <2>5 DEF Next
<1> QED  BY <1>1, <1>2, PTL DEF Spec, Proved!Spec

LEMMA PlanInvAlways == Spec => []Proved!PlanInv
BY PlannerRuns, SameInputs, Proved!PlanInvAlways, PTL

-----------------------------------------------------------------------------
(* The tasks of a plan: each is in one of the three lanes and has a        *)
(* segment to begin with.                                                  *)
LEMMA LaneNumbers ==
    /\ Planner!ReadLane = {"urgent", "normal", "background"}
    /\ laneNumber["urgent"] = 0 /\ laneNumber["normal"] = 1 /\ laneNumber["background"] = 2
    /\ \A lane \in Planner!ReadLane : laneNumber[lane] \in 0 .. 2
BY DEF Planner!ReadLane, laneNumber

LEMMA KeysOfPlan ==
    /\ \A k \in Keys : /\ k[1] \in Planner!ReadLane /\ k[2] \in DOMAIN plan[k[1]]
                       /\ k = <<k[1], k[2]>>
    /\ \A lane \in Planner!ReadLane : \A n \in DOMAIN plan[lane] : <<lane, n>> \in Keys
BY DEF Keys

LEMMA TasksOfPlan ==
    ASSUME Proved!PlanInv
    PROVE  /\ \A k \in Keys : Task(k) \in Proved!SoundTasks
           /\ \A lane \in Planner!ReadLane : plan[lane] # <<>> => 1 \in DOMAIN plan[lane]
<1>1. \A lane \in Planner!ReadLane : plan[lane] \in Seq(Proved!SoundTasks)
  BY DEF Proved!PlanInv, Proved!ReadLane, Planner!ReadLane
<1>2. ASSUME NEW k \in Keys PROVE Task(k) \in Proved!SoundTasks
  <2>1. PICK s \in Seq(Proved!SoundTasks) : s = plan[k[1]] /\ k[2] \in DOMAIN s
    BY <1>1, KeysOfPlan
  <2>2. s[k[2]] \in Proved!SoundTasks  BY <2>1
  <2> QED  BY <2>1, <2>2 DEF Task
<1>3. ASSUME NEW lane \in Planner!ReadLane, plan[lane] # <<>> PROVE 1 \in DOMAIN plan[lane]
  <2>1. PICK s \in Seq(Proved!SoundTasks) : s = plan[lane]  BY <1>1
  <2>2. Len(s) \in Nat /\ DOMAIN s = 1 .. Len(s) /\ Len(s) # 0  BY <1>3, <2>1, EmptySeq
  <2> QED  BY <2>1, <2>2
<1> QED  BY <1>2, <1>3

LEMMA SegmentsOfTask ==
    ASSUME NEW t \in Proved!SoundTasks
    PROVE  /\ t.segments \in Seq(Proved!ReadSegment)
           /\ 1 \in DOMAIN t.segments
           /\ DOMAIN t.segments = 1 .. Len(t.segments) /\ Len(t.segments) \in Nat
<1>1. t.segments \in Seq(Proved!ReadSegment)
  BY DEF Proved!SoundTasks, Proved!PlannedReadTask
<1>2. \E n \in DOMAIN t.segments : TRUE
  BY DEF Proved!SoundTasks, Proved!SpansItsSegments
<1> QED  BY <1>1, <1>2

-----------------------------------------------------------------------------
(* The invariant of a run.                                                 *)
Codes  == {"none", "invalid_argument", "function_not_supported", "unreadable"}
Labels == Finished \cup {"waiting", "running", "view", "callback", "failing", "recording"}
Stands == [label : Labels, segment : Nat \ {0}]

(* Types, and what is not yet there: no error before the tasks run, no     *)
(* result before the call returns.  The plan does not change while it runs.*)
RunType ==
    /\ phase \in {"planning", "parallel", "sequential", "returned"}
    /\ phase = "planning" => progress = <<>> /\ has_error = FALSE /\ errors = <<>>
    /\ phase # "planning" => pc = "planned" /\ progress \in [Keys -> Stands]
    /\ phase # "returned" => status = Ok
    /\ has_error \in BOOLEAN
    /\ errors \in Seq([lane : Planner!ReadLane, code : Codes])
    /\ \A k \in DOMAIN progress : progress[k].segment \in DOMAIN Task(k).segments

(* Lanes: a task that has begun has all earlier lanes finished, and unless *)
(* it was skipped it has them succeeded.                                   *)
LaneInv ==
    \A k, l \in DOMAIN progress :
        laneNumber[k[1]] < laneNumber[l[1]] =>
            /\ Label(l) # "waiting" => Label(k) \in Finished
            /\ Label(l) \notin {"waiting", "skipped"} => Label(k) = "succeeded"

(* Outcomes: a task succeeds or fails as its fault says.  Among the        *)
(* workers a failed or skipped task shows that has_error is stored, which  *)
(* some task has done; the errors recorded are those of failed tasks.      *)
OutcomeInv ==
    /\ \A k \in DOMAIN progress :
          Label(k) \in {"succeeded", "view", "callback"} => FaultOf(Task(k)) = "none"
    /\ phase = "parallel" =>
         /\ \A k \in DOMAIN progress :
               /\ Label(k) \in {"failing", "recording", "failed"} => FaultOf(Task(k)) # "none"
               /\ Label(k) \in {"recording", "failed", "skipped"} => has_error
               /\ Label(k) = "failed" => errors # <<>>
         /\ has_error => \E k \in DOMAIN progress : Label(k) \in {"recording", "failed"}
         /\ \A n \in DOMAIN errors : \E k \in DOMAIN progress :
               Label(k) = "failed" /\ errors[n] = ErrorOf(k)
    /\ phase = "sequential" => \A k \in DOMAIN progress : Label(k) \in {"waiting", "succeeded"}

RunInv == RunType /\ LaneInv /\ OutcomeInv /\ AgreesWithSequential

LEMMA FaultCodes == \A t : FaultOf(t) \in Codes
BY DEF FaultOf, Codes

(* What a step leaves alone as long as plan and inputs stay.               *)
LEMMA Frozen ==
    ASSUME UNCHANGED <<plan, inputVars>>
    PROVE  /\ Keys' = Keys /\ Faulty' = Faulty
           /\ \A t : FaultOf(t)' = FaultOf(t)
           /\ \A k : Task(k)' = Task(k) /\ ErrorOf(k)' = ErrorOf(k)
                     /\ FaultOf(Task(k))' = FaultOf(Task(k))
<1>1. \A t : FaultOf(t)' = FaultOf(t)
  BY DEF inputVars, FaultOf, NoDestination, CannotOpen, ViewTask
<1>2. Keys' = Keys /\ \A k : Task(k)' = Task(k)
  BY DEF Keys, Task
<1>3. \A k : FaultOf(Task(k))' = FaultOf(Task(k))
  BY <1>2 DEF inputVars, FaultOf, NoDestination, CannotOpen, ViewTask
<1> QED  BY <1>1, <1>2, <1>3 DEF Faulty, ErrorOf


-----------------------------------------------------------------------------
(* A worker's step takes one task from where it stands to another place.   *)
MovesTo(k, to) ==
    /\ phase = "parallel"
    /\ progress' = [progress EXCEPT ![k] = to]
    /\ UNCHANGED <<plannerVars, inputVars, phase, status>>

LEMMA TaskMoves ==
    ASSUME RunType, NEW k \in DOMAIN progress, NEW to \in Stands, MovesTo(k, to)
    PROVE  /\ DOMAIN progress = Keys /\ DOMAIN progress' = Keys /\ Keys' = Keys
           /\ progress' \in [Keys -> Stands]
           /\ progress'[k] = to
           /\ \A l \in Keys : l # k => progress'[l] = progress[l]
           /\ \A l : Task(l)' = Task(l) /\ ErrorOf(l)' = ErrorOf(l)
                     /\ FaultOf(Task(l))' = FaultOf(Task(l))
<1>1. DOMAIN progress = Keys /\ progress \in [Keys -> Stands]
  BY DEF RunType, MovesTo
<1>2. UNCHANGED <<plan, inputVars>>  BY DEF MovesTo, plannerVars
<1> QED  BY <1>1, <1>2, Frozen DEF MovesTo

LEMMA LabelMoves ==
    ASSUME RunType, NEW k \in DOMAIN progress, NEW to \in Labels, NEW from, At(k, from, to),
           UNCHANGED <<plannerVars, inputVars, phase, status>>
    PROVE  /\ [label |-> to, segment |-> progress[k].segment] \in Stands
           /\ MovesTo(k, [label |-> to, segment |-> progress[k].segment])
<1>1. DOMAIN progress = Keys /\ progress \in [Keys -> Stands]
  BY DEF RunType, At
<1>2. progress[k] \in Stands  BY <1>1
<1>3. [progress[k] EXCEPT !.label = to] = [label |-> to, segment |-> progress[k].segment]
  BY <1>2 DEF Stands
<1>4. progress' = [progress EXCEPT ![k] = [progress[k] EXCEPT !.label = to]]
  BY DEF At
<1>5. [label |-> to, segment |-> progress[k].segment] \in Stands
  BY <1>2 DEF Stands
<1> QED  BY <1>3, <1>4, <1>5 DEF At, MovesTo

(* Types, for a step that stays within the segments of its task.           *)
LEMMA TypeMoves ==
    ASSUME RunType, NEW k \in DOMAIN progress, NEW to \in Stands, MovesTo(k, to),
           to.segment \in DOMAIN Task(k).segments, has_error' \in BOOLEAN,
           errors' \in Seq([lane : Planner!ReadLane, code : Codes])
    PROVE  RunType' /\ AgreesWithSequential'
<1>1. /\ DOMAIN progress = Keys /\ DOMAIN progress' = Keys /\ Keys' = Keys
      /\ progress' \in [Keys -> Stands] /\ progress'[k] = to
      /\ \A l \in Keys : l # k => progress'[l] = progress[l]
      /\ \A l : Task(l)' = Task(l)
  BY TaskMoves
<1>2. /\ UNCHANGED <<phase, status, pc>> /\ phase = "parallel"
  BY DEF MovesTo, plannerVars
<1>3. ASSUME NEW l \in DOMAIN progress' PROVE progress'[l].segment \in DOMAIN Task(l).segments
  BY <1>1, <1>3 DEF RunType
<1>4. AgreesWithSequential'  BY <1>2 DEF AgreesWithSequential
<1> QED  BY <1>1, <1>2, <1>3, <1>4 DEF RunType

(* Lanes, for a task that goes on, or begins when the earlier lanes are    *)
(* through.                                                                *)
LEMMA LaneMoves ==
    ASSUME RunType, LaneInv, NEW k \in DOMAIN progress, NEW to \in Stands, MovesTo(k, to),
           Label(k) \notin Finished,
           \A l \in DOMAIN progress : laneNumber[l[1]] < laneNumber[k[1]] =>
              Label(l) \in Finished /\ (to.label # "skipped" => Label(l) = "succeeded")
    PROVE  LaneInv'
<1>1. /\ DOMAIN progress = Keys /\ DOMAIN progress' = Keys
      /\ progress'[k] = to /\ \A l \in Keys : l # k => progress'[l] = progress[l]
  BY TaskMoves
<1> SUFFICES ASSUME NEW a \in Keys, NEW b \in Keys, laneNumber[a[1]] < laneNumber[b[1]]
             PROVE  /\ progress'[b].label # "waiting" => progress'[a].label \in Finished
                    /\ progress'[b].label \notin {"waiting", "skipped"}
                          => progress'[a].label = "succeeded"
  BY <1>1 DEF LaneInv, Label
<1>2. a # b
  BY LaneNumbers, KeysOfPlan
<1>3. CASE a # k /\ b # k
  BY <1>1, <1>3 DEF LaneInv, Label
<1>4. CASE b = k
  BY <1>1, <1>2, <1>4 DEF Label
<1>5. CASE a = k
  <2>1. Label(b) = "waiting"  BY <1>1, <1>5 DEF LaneInv
  <2> QED  BY <1>1, <1>2, <1>5, <2>1 DEF Label
<1> QED  BY <1>3, <1>4, <1>5

(* A task that has begun has its earlier lanes succeeded.                  *)
LEMMA Begun ==
    ASSUME LaneInv, NEW k \in DOMAIN progress, Label(k) \notin {"waiting", "skipped"}
    PROVE  \A l \in DOMAIN progress : laneNumber[l[1]] < laneNumber[k[1]] =>
              Label(l) \in Finished /\ Label(l) = "succeeded"
BY DEF LaneInv

(* The gate of a lane opens when every task of every earlier lane is done, *)
(* whichever lanes are empty.                                              *)
LEMMA GateOpens ==
    ASSUME Proved!PlanInv, RunType, LaneInv, phase = "parallel",
           NEW k \in DOMAIN progress, GateOpen(k[1])
    PROVE  \A l \in DOMAIN progress : laneNumber[l[1]] < laneNumber[k[1]] => Label(l) \in Finished
<1>1. DOMAIN progress = Keys  BY DEF RunType
<1> SUFFICES ASSUME NEW l \in Keys, laneNumber[l[1]] < laneNumber[k[1]]
             PROVE  Label(l) \in Finished
  BY <1>1
<1>2. /\ l[1] \in Planner!ReadLane /\ l[2] \in DOMAIN plan[l[1]] /\ l = <<l[1], l[2]>>
      /\ k[1] \in Planner!ReadLane
  BY <1>1, KeysOfPlan
<1>3. LaneDone(l[1]) => Label(l) \in Finished
  BY <1>2 DEF LaneDone
<1>4. CASE k[1] = "urgent"  BY <1>2, <1>4, LaneNumbers
<1>5. CASE k[1] = "normal"
  <2>1. l[1] = "urgent"  BY <1>2, <1>5, LaneNumbers
  <2>2. LaneDone("urgent")  BY <1>5 DEF GateOpen
  <2> QED  BY <1>3, <2>1, <2>2
<1>6. CASE k[1] = "background"
  <2>1. l[1] = "urgent" \/ l[1] = "normal"  BY <1>2, <1>6, LaneNumbers
  <2>2. CASE plan["normal"] = <<>>
    <3>1. l[1] = "urgent"  BY <1>2, <2>1, <2>2
    <3>2. LaneDone("urgent")  BY <1>6, <2>2 DEF GateOpen
    <3> QED  BY <1>3, <3>1, <3>2
  <2>3. CASE plan["normal"] # <<>>
    <3>1. LaneDone("normal")  BY <1>6, <2>3 DEF GateOpen
    <3>2. 1 \in DOMAIN plan["normal"]  BY <2>3, TasksOfPlan, LaneNumbers
    <3>3. <<"normal", 1>> \in Keys /\ Label(<<"normal", 1>>) \in Finished
      BY <3>1, <3>2, KeysOfPlan, LaneNumbers DEF LaneDone
    <3>4. CASE l[1] = "normal"  BY <1>3, <3>1, <3>4
    <3>5. CASE l[1] = "urgent"
      <4>1. laneNumber[l[1]] < laneNumber[<<"normal", 1>>[1]]  BY <3>5, LaneNumbers
      <4>2. Label(<<"normal", 1>>) # "waiting"  BY <3>3 DEF Finished
      <4> QED  BY <1>1, <3>3, <4>1, <4>2 DEF LaneInv
    <3> QED  BY <2>1, <3>4, <3>5
  <2> QED  BY <2>2, <2>3
<1> QED  BY <1>2, <1>4, <1>5, <1>6, LaneNumbers


-----------------------------------------------------------------------------
(* The steps of the workers.                                               *)
LEMMA BeginKeeps ==
    ASSUME Proved!PlanInv, RunInv, NEW k \in DOMAIN progress, BeginTask(k)
    PROVE  RunInv'
<1> DEFINE to == IF has_error THEN "skipped" ELSE "running"
           stand == [label |-> to, segment |-> progress[k].segment]
<1>0. /\ RunType /\ LaneInv /\ OutcomeInv  BY DEF RunInv
<1>1. /\ GateOpen(k[1]) /\ At(k, "waiting", to) /\ UNCHANGED <<has_error, errors>>
      /\ UNCHANGED <<plannerVars, inputVars, phase, status>>
      /\ phase = "parallel" /\ Label(k) = "waiting"
  BY DEF BeginTask, effects, At
<1>2. to \in Labels /\ stand \in Stands /\ MovesTo(k, stand)
  BY <1>0, <1>1, LabelMoves DEF Labels, Finished
<1>3. /\ DOMAIN progress = Keys /\ DOMAIN progress' = Keys
      /\ progress'[k] = stand /\ \A l \in Keys : l # k => progress'[l] = progress[l]
      /\ \A l : ErrorOf(l)' = ErrorOf(l) /\ FaultOf(Task(l))' = FaultOf(Task(l))
  BY <1>0, <1>2, TaskMoves
<1>4. \A l \in DOMAIN progress : laneNumber[l[1]] < laneNumber[k[1]] =>
          Label(l) \in Finished /\ (to # "skipped" => Label(l) = "succeeded")
  <2>1. ASSUME NEW l \in DOMAIN progress, ~has_error, Label(l) \in Finished
        PROVE  Label(l) = "succeeded"
    BY <1>0, <1>1, <2>1 DEF OutcomeInv, Finished
  <2> QED  BY <1>0, <1>1, <2>1, GateOpens
<1>5. LaneInv'
  BY <1>0, <1>1, <1>2, <1>4, LaneMoves DEF Finished
<1>6. RunType' /\ AgreesWithSequential'
  BY <1>0, <1>1, <1>2, TypeMoves DEF RunType
<1>7. OutcomeInv'
  BY <1>0, <1>1, <1>3 DEF OutcomeInv, Label
<1> QED  BY <1>5, <1>6, <1>7 DEF RunInv

LEMMA ExecuteKeeps ==
    ASSUME Proved!PlanInv, RunInv, NEW k \in DOMAIN progress, ExecuteTask(k)
    PROVE  RunInv'
<1> DEFINE to == IF FaultOf(Task(k)) # "none" THEN "failing"
                 ELSE IF ViewTask(Task(k)) THEN "view" ELSE "succeeded"
           stand == [label |-> to, segment |-> progress[k].segment]
<1>0. /\ RunType /\ LaneInv /\ OutcomeInv  BY DEF RunInv
<1>1. /\ At(k, "running", to) /\ UNCHANGED <<has_error, errors>>
      /\ UNCHANGED <<plannerVars, inputVars, phase, status>>
      /\ phase = "parallel" /\ Label(k) = "running"
  BY DEF ExecuteTask, At
<1>2. to \in Labels /\ stand \in Stands /\ MovesTo(k, stand)
  BY <1>0, <1>1, LabelMoves DEF Labels, Finished
<1>3. /\ DOMAIN progress = Keys /\ DOMAIN progress' = Keys
      /\ progress'[k] = stand /\ \A l \in Keys : l # k => progress'[l] = progress[l]
      /\ \A l : ErrorOf(l)' = ErrorOf(l) /\ FaultOf(Task(l))' = FaultOf(Task(l))
  BY <1>0, <1>2, TaskMoves
<1>4. LaneInv'
  BY <1>0, <1>1, <1>2, Begun, LaneMoves DEF Finished
<1>5. RunType' /\ AgreesWithSequential'
  BY <1>0, <1>1, <1>2, TypeMoves DEF RunType
<1>6. OutcomeInv'
  BY <1>0, <1>1, <1>3 DEF OutcomeInv, Label
<1> QED  BY <1>4, <1>5, <1>6 DEF RunInv

LEMMA PushKeeps ==
    ASSUME Proved!PlanInv, RunInv, NEW k \in DOMAIN progress, PushView(k)
    PROVE  RunInv'
<1> DEFINE stand == [label |-> "callback", segment |-> progress[k].segment]
<1>0. /\ RunType /\ LaneInv /\ OutcomeInv  BY DEF RunInv
<1>1. /\ At(k, "view", "callback") /\ UNCHANGED <<has_error, errors>>
      /\ UNCHANGED <<plannerVars, inputVars, phase, status>>
      /\ phase = "parallel" /\ Label(k) = "view"
  BY DEF PushView, At
<1>2. stand \in Stands /\ MovesTo(k, stand)
  BY <1>0, <1>1, LabelMoves DEF Labels, Finished
<1>3. /\ DOMAIN progress = Keys /\ DOMAIN progress' = Keys
      /\ progress'[k] = stand /\ \A l \in Keys : l # k => progress'[l] = progress[l]
      /\ \A l : ErrorOf(l)' = ErrorOf(l) /\ FaultOf(Task(l))' = FaultOf(Task(l))
  BY <1>0, <1>2, TaskMoves
<1>4. LaneInv'
  BY <1>0, <1>1, <1>2, Begun, LaneMoves DEF Finished
<1>5. RunType' /\ AgreesWithSequential'
  BY <1>0, <1>1, <1>2, TypeMoves DEF RunType
<1>6. OutcomeInv'
  BY <1>0, <1>1, <1>3 DEF OutcomeInv, Label
<1> QED  BY <1>4, <1>5, <1>6 DEF RunInv

LEMMA CallBackKeeps ==
    ASSUME Proved!PlanInv, RunInv, NEW k \in DOMAIN progress, CallBack(k)
    PROVE  RunInv'
<1> DEFINE segment == progress[k].segment
           stand == IF segment < Len(Task(k).segments)
                    THEN [label |-> "view", segment |-> segment + 1]
                    ELSE [label |-> "succeeded", segment |-> segment]
<1>0. /\ RunType /\ LaneInv /\ OutcomeInv  BY DEF RunInv
<1>1. /\ UNCHANGED <<has_error, errors>>
      /\ UNCHANGED <<plannerVars, inputVars, phase, status>>
      /\ phase = "parallel" /\ Label(k) = "callback"
      /\ progress' = [progress EXCEPT ![k] = stand]
  BY DEF CallBack
<1>2. stand \in Stands /\ MovesTo(k, stand) /\ stand.segment \in DOMAIN Task(k).segments
  <2>1. k \in Keys  BY <1>0, <1>1 DEF RunType
  <2>2. DOMAIN Task(k).segments = 1 .. Len(Task(k).segments) /\ Len(Task(k).segments) \in Nat
    BY <2>1, TasksOfPlan, SegmentsOfTask
  <2>3. segment \in 1 .. Len(Task(k).segments)  BY <1>0, <2>2 DEF RunType
  <2> QED  BY <1>1, <2>2, <2>3 DEF MovesTo, Stands, Labels, Finished
<1>3. /\ DOMAIN progress = Keys /\ DOMAIN progress' = Keys
      /\ progress'[k] = stand /\ \A l \in Keys : l # k => progress'[l] = progress[l]
      /\ \A l : ErrorOf(l)' = ErrorOf(l) /\ FaultOf(Task(l))' = FaultOf(Task(l))
  BY <1>0, <1>2, TaskMoves
<1>4. LaneInv'
  BY <1>0, <1>1, <1>2, Begun, LaneMoves DEF Finished
<1>5. RunType' /\ AgreesWithSequential'
  <2> HIDE DEF stand
  <2> QED  BY <1>0, <1>1, <1>2, TypeMoves DEF RunType
<1>6. OutcomeInv'
  BY <1>0, <1>1, <1>3 DEF OutcomeInv, Label
<1> QED  BY <1>4, <1>5, <1>6 DEF RunInv

LEMMA StoreKeeps ==
    ASSUME Proved!PlanInv, RunInv, NEW k \in DOMAIN progress, StoreError(k)
    PROVE  RunInv'
<1> DEFINE stand == [label |-> "recording", segment |-> progress[k].segment]
<1>0. /\ RunType /\ LaneInv /\ OutcomeInv  BY DEF RunInv
<1>1. /\ At(k, "failing", "recording") /\ has_error' = TRUE /\ UNCHANGED errors
      /\ UNCHANGED <<plannerVars, inputVars, phase, status>>
      /\ phase = "parallel" /\ Label(k) = "failing"
  BY DEF StoreError, At
<1>2. stand \in Stands /\ MovesTo(k, stand)
  BY <1>0, <1>1, LabelMoves DEF Labels, Finished
<1>3. /\ DOMAIN progress = Keys /\ DOMAIN progress' = Keys
      /\ progress'[k] = stand /\ \A l \in Keys : l # k => progress'[l] = progress[l]
      /\ \A l : ErrorOf(l)' = ErrorOf(l) /\ FaultOf(Task(l))' = FaultOf(Task(l))
  BY <1>0, <1>2, TaskMoves
<1>4. LaneInv'
  BY <1>0, <1>1, <1>2, Begun, LaneMoves DEF Finished
<1>5. RunType' /\ AgreesWithSequential'
  BY <1>0, <1>1, <1>2, TypeMoves DEF RunType
<1>6. OutcomeInv'
  BY <1>0, <1>1, <1>3 DEF OutcomeInv, Label
<1> QED  BY <1>4, <1>5, <1>6 DEF RunInv

LEMMA RecordKeeps ==
    ASSUME Proved!PlanInv, RunInv, NEW k \in DOMAIN progress, RecordError(k)
    PROVE  RunInv'
<1> DEFINE stand == [label |-> "failed", segment |-> progress[k].segment]
           ErrorType == [lane : Planner!ReadLane, code : Codes]
<1>0. /\ RunType /\ LaneInv /\ OutcomeInv  BY DEF RunInv
<1>1. /\ At(k, "recording", "failed") /\ UNCHANGED has_error
      /\ errors' = Append(errors, ErrorOf(k))
      /\ UNCHANGED <<plannerVars, inputVars, phase, status>>
      /\ phase = "parallel" /\ Label(k) = "recording"
  BY DEF RecordError, At
<1>2. stand \in Stands /\ MovesTo(k, stand)
  BY <1>0, <1>1, LabelMoves DEF Labels, Finished
<1>3. /\ DOMAIN progress = Keys /\ DOMAIN progress' = Keys
      /\ progress'[k] = stand /\ \A l \in Keys : l # k => progress'[l] = progress[l]
      /\ \A l : ErrorOf(l)' = ErrorOf(l) /\ FaultOf(Task(l))' = FaultOf(Task(l))
  BY <1>0, <1>2, TaskMoves
<1>4. LaneInv'
  BY <1>0, <1>1, <1>2, Begun, LaneMoves DEF Finished
<1>e. PICK es \in Seq(ErrorType) : es = errors  BY <1>0 DEF RunType
<1>f. PICK e \in ErrorType : e = ErrorOf(k)
  <2>1. k[1] \in Planner!ReadLane  BY <1>3, KeysOfPlan
  <2> QED  BY <2>1, FaultCodes DEF ErrorOf
<1>5. /\ errors' \in Seq(ErrorType) /\ errors' # <<>>
      /\ \A n \in DOMAIN errors' : errors'[n] = e \/ (n \in DOMAIN errors /\ errors'[n] = errors[n])
  <2>1. errors' = Append(es, e)  BY <1>1, <1>e, <1>f
  <2> QED  BY <1>e, <2>1, AppendProperties
<1>6. RunType' /\ AgreesWithSequential'
  BY <1>0, <1>1, <1>2, <1>5, TypeMoves DEF RunType
<1>7. OutcomeInv'
  <2>1. phase' = "parallel"  BY <1>1
  <2>2. ASSUME NEW n \in DOMAIN errors'
        PROVE  \E l \in DOMAIN progress' : Label(l)' = "failed" /\ errors'[n] = ErrorOf(l)'
    <3>1. CASE errors'[n] = e  BY <1>3, <1>f, <3>1 DEF Label
    <3>2. CASE n \in DOMAIN errors /\ errors'[n] = errors[n]
      <4>1. PICK l \in Keys : Label(l) = "failed" /\ errors[n] = ErrorOf(l)
        BY <1>0, <1>1, <1>3, <3>2 DEF OutcomeInv
      <4>2. l # k  BY <1>1, <4>1
      <4> QED  BY <1>3, <3>2, <4>1, <4>2 DEF Label
    <3> QED  BY <1>5, <2>2, <3>1, <3>2
  <2>3. \A l \in DOMAIN progress' :
           /\ Label(l)' \in {"succeeded", "view", "callback"} => FaultOf(Task(l))' = "none"
           /\ Label(l)' \in {"failing", "recording", "failed"} => FaultOf(Task(l))' # "none"
           /\ Label(l)' \in {"recording", "failed", "skipped"} => has_error'
    BY <1>0, <1>1, <1>3 DEF OutcomeInv, Label
  <2>4. \E l \in DOMAIN progress' : Label(l)' \in {"recording", "failed"}
    BY <1>3 DEF Label
  <2> QED  BY <1>5, <2>1, <2>2, <2>3, <2>4 DEF OutcomeInv
<1> QED  BY <1>4, <1>6, <1>7 DEF RunInv


-----------------------------------------------------------------------------
(* The steps of the calling thread.                                        *)
LEMMA WaitingKeeps ==
    ASSUME Proved!PlanInv, RunType, Dispatch \/ RunAgain
    PROVE  RunInv'
<1>1. /\ progress' = AllWaiting /\ phase' \in {"parallel", "sequential"} /\ pc = "planned"
      /\ UNCHANGED <<plannerVars, inputVars, has_error, errors, status>>
      /\ phase' = "parallel" => has_error = FALSE /\ errors = <<>>
      /\ phase # "returned"
  BY DEF Dispatch, RunAgain, RunType
<1>2. Keys' = Keys /\ \A k : Task(k)' = Task(k)
  BY <1>1, Frozen DEF plannerVars
<1>3. /\ progress' \in [Keys -> Stands] /\ DOMAIN progress' = Keys
      /\ \A k \in Keys : progress'[k].label = "waiting" /\ progress'[k].segment = 1
  BY <1>1 DEF AllWaiting, Stands, Labels
<1>4. \A k \in Keys : 1 \in DOMAIN Task(k).segments
  BY TasksOfPlan, SegmentsOfTask
<1>5. RunType'
  BY <1>1, <1>2, <1>3, <1>4 DEF RunType, plannerVars
<1>6. LaneInv' /\ AgreesWithSequential'
  BY <1>1, <1>3 DEF LaneInv, Label, AgreesWithSequential
<1>7. OutcomeInv'
  BY <1>1, <1>3, EmptySeq DEF OutcomeInv, Label
<1> QED  BY <1>5, <1>6, <1>7 DEF RunInv

(* When every task is done and no error is recorded, none has a fault.     *)
LEMMA WaitKeeps == ASSUME Proved!PlanInv, RunInv, Wait PROVE RunInv'
<1>0. /\ RunType /\ LaneInv /\ OutcomeInv  BY DEF RunInv
<1>1. /\ phase = "parallel" /\ AllDone /\ phase' = "returned"
      /\ status' = IF errors = <<>> THEN Ok ELSE errors[1]
      /\ UNCHANGED <<plannerVars, inputVars, progress, has_error, errors>>
  BY DEF Wait
<1>2. /\ Keys' = Keys /\ Faulty' = Faulty /\ DOMAIN progress = Keys
      /\ \A k : Task(k)' = Task(k) /\ ErrorOf(k)' = ErrorOf(k)
                /\ FaultOf(Task(k))' = FaultOf(Task(k))
  BY <1>0, <1>1, Frozen DEF plannerVars, RunType
<1>3. \A k \in Keys : Label(k) \in Finished
  BY <1>1, KeysOfPlan DEF AllDone, LaneDone
<1>4. AgreesWithSequential'
  <2>1. CASE errors = <<>>
    <3>1. ASSUME NEW k \in Faulty PROVE FALSE
      <4>1. k \in Keys /\ FaultOf(Task(k)) # "none"  BY <3>1 DEF Faulty
      <4>2. Label(k) = "skipped"
        BY <1>0, <1>1, <1>2, <1>3, <2>1, <4>1 DEF OutcomeInv, Finished
      <4>3. has_error  BY <1>0, <1>1, <1>2, <4>1, <4>2 DEF OutcomeInv
      <4>4. PICK l \in Keys : Label(l) \in {"recording", "failed"}
        BY <1>0, <1>1, <1>2, <4>3 DEF OutcomeInv
      <4>5. Label(l) = "failed"  BY <1>3, <4>4 DEF Finished
      <4> QED  BY <1>0, <1>1, <1>2, <2>1, <4>5 DEF OutcomeInv
    <3>2. Faulty = {}  BY <3>1
    <3> QED  BY <1>1, <1>2, <2>1, <3>2 DEF AgreesWithSequential, Ok
  <2>2. CASE errors # <<>>
    <3>1. 1 \in DOMAIN errors
      <4>1. PICK es \in Seq([lane : Planner!ReadLane, code : Codes]) : es = errors
        BY <1>0 DEF RunType
      <4>2. Len(es) \in Nat /\ DOMAIN es = 1 .. Len(es) /\ Len(es) # 0
        BY <2>2, <4>1, EmptySeq
      <4> QED  BY <4>1, <4>2
    <3>2. PICK k \in Keys : Label(k) = "failed" /\ errors[1] = ErrorOf(k)
      BY <1>0, <1>1, <1>2, <3>1 DEF OutcomeInv
    <3>3. k \in Faulty
      BY <1>0, <1>1, <1>2, <3>2 DEF OutcomeInv, Faulty
    <3>4. ASSUME NEW l \in Faulty PROVE laneNumber[k[1]] <= laneNumber[l[1]]
      <4>1. l \in Keys /\ FaultOf(Task(l)) # "none"  BY <3>4 DEF Faulty
      <4>2. ~(laneNumber[l[1]] < laneNumber[k[1]])
        <5> SUFFICES ASSUME laneNumber[l[1]] < laneNumber[k[1]] PROVE FALSE
          OBVIOUS
        <5>1. Label(l) = "succeeded"  BY <1>0, <1>2, <3>2, <4>1 DEF LaneInv
        <5> QED  BY <1>0, <1>2, <4>1, <5>1 DEF OutcomeInv
      <4>3. laneNumber[l[1]] \in 0 .. 2 /\ laneNumber[k[1]] \in 0 .. 2
        BY <3>2, <4>1, KeysOfPlan, LaneNumbers
      <4> QED  BY <4>2, <4>3
    <3>5. status' = ErrorOf(k)' /\ Faulty' # {}
      BY <1>1, <1>2, <2>2, <3>2, <3>3
    <3> QED  BY <1>2, <3>3, <3>4, <3>5 DEF AgreesWithSequential, laneNumber
  <2> QED  BY <2>1, <2>2
<1>5. RunType'
  BY <1>0, <1>1, <1>2 DEF RunType, plannerVars
<1>6. LaneInv'
  BY <1>0, <1>1 DEF LaneInv, Label
<1>7. OutcomeInv'
  BY <1>0, <1>1, <1>2 DEF OutcomeInv, Label
<1> QED  BY <1>4, <1>5, <1>6, <1>7 DEF RunInv

-----------------------------------------------------------------------------
(* The sequential run.  The next task has all earlier lanes succeeded.     *)
LEMMA NextInLine ==
    ASSUME RunType, phase = "sequential", NEW k \in DOMAIN progress, IsNext(k)
    PROVE  \A l \in DOMAIN progress :
              laneNumber[l[1]] < laneNumber[k[1]] => Label(l) = "succeeded"
BY DEF RunType, IsNext, Earlier

LEMMA SequentialKeeps ==
    ASSUME Proved!PlanInv, RunInv, NEW k \in DOMAIN progress,
           SequentialTask(k) \/ SequentialFails(k)
    PROVE  RunInv'
<1> DEFINE to == IF FaultOf(Task(k)) = "none" THEN "succeeded" ELSE "failed"
           stand == [label |-> to, segment |-> progress[k].segment]
<1>0. /\ RunType /\ LaneInv /\ OutcomeInv  BY DEF RunInv
<1>1. /\ phase = "sequential" /\ IsNext(k) /\ Label(k) = "waiting"
      /\ UNCHANGED <<plannerVars, inputVars, has_error, errors>>
      /\ progress' = [progress EXCEPT ![k].label = to]
      /\ IF to = "succeeded" THEN UNCHANGED <<phase, status>>
         ELSE phase' = "returned" /\ status' = ErrorOf(k)
  BY DEF SequentialTask, SequentialFails, IsNext
<1>2. /\ Keys' = Keys /\ Faulty' = Faulty /\ DOMAIN progress = Keys
      /\ progress \in [Keys -> Stands]
      /\ \A l : Task(l)' = Task(l) /\ ErrorOf(l)' = ErrorOf(l)
                /\ FaultOf(Task(l))' = FaultOf(Task(l))
  BY <1>0, <1>1, Frozen DEF plannerVars, RunType
<1>3. progress' = [progress EXCEPT ![k] = stand] /\ stand \in Stands
  <2>1. progress[k] \in Stands  BY <1>2
  <2>2. [progress[k] EXCEPT !.label = to] = stand  BY <2>1 DEF Stands
  <2>3. progress' = [progress EXCEPT ![k] = [progress[k] EXCEPT !.label = to]]  BY <1>1
  <2>4. to \in Labels  BY DEF Labels, Finished
  <2> QED  BY <2>1, <2>2, <2>3, <2>4 DEF Stands
<1>4. /\ DOMAIN progress' = Keys /\ progress' \in [Keys -> Stands]
      /\ progress'[k] = stand /\ \A l \in Keys : l # k => progress'[l] = progress[l]
  BY <1>2, <1>3
<1>5. \A l \in Keys : laneNumber[l[1]] < laneNumber[k[1]] => Label(l) = "succeeded"
  BY <1>0, <1>1, <1>2, NextInLine
<1>6. RunType'
  <2>1. \A l \in Keys : progress'[l].segment \in DOMAIN Task(l).segments
    BY <1>0, <1>2, <1>4 DEF RunType
  <2> QED  BY <1>0, <1>1, <1>2, <1>4, <2>1 DEF RunType, plannerVars
<1>7. LaneInv'
  <2> SUFFICES ASSUME NEW a \in Keys, NEW b \in Keys, laneNumber[a[1]] < laneNumber[b[1]]
               PROVE  /\ progress'[b].label # "waiting" => progress'[a].label \in Finished
                      /\ progress'[b].label \notin {"waiting", "skipped"}
                            => progress'[a].label = "succeeded"
    BY <1>4 DEF LaneInv, Label
  <2>1. a # b  BY LaneNumbers, KeysOfPlan
  <2>2. CASE a # k /\ b # k  BY <1>0, <1>2, <1>4, <2>2 DEF LaneInv, Label
  <2>3. CASE b = k  BY <1>4, <1>5, <2>1, <2>3 DEF Label, Finished
  <2>4. CASE a = k
    <3>1. Label(b) = "waiting"  BY <1>0, <1>1, <1>2, <2>4 DEF LaneInv, Finished
    <3> QED  BY <1>4, <2>1, <2>4, <3>1 DEF Label
  <2> QED  BY <2>2, <2>3, <2>4
<1>8. OutcomeInv'
  BY <1>0, <1>1, <1>2, <1>4 DEF OutcomeInv, Label
<1>9. AgreesWithSequential'
  <2>1. CASE to = "succeeded"  BY <1>1, <2>1 DEF AgreesWithSequential
  <2>2. CASE to # "succeeded"
    <3>1. k \in Faulty  BY <1>2, <2>2 DEF Faulty
    <3>2. ASSUME NEW l \in Faulty PROVE laneNumber[k[1]] <= laneNumber[l[1]]
      <4>1. l \in Keys /\ FaultOf(Task(l)) # "none"  BY <3>2 DEF Faulty
      <4>2. ~(laneNumber[l[1]] < laneNumber[k[1]])
        BY <1>0, <1>2, <1>5, <4>1 DEF OutcomeInv
      <4>3. laneNumber[l[1]] \in 0 .. 2 /\ laneNumber[k[1]] \in 0 .. 2
        BY <1>2, <4>1, KeysOfPlan, LaneNumbers
      <4> QED  BY <4>2, <4>3
    <3>3. status' = ErrorOf(k)' /\ Faulty' # {}  BY <1>1, <1>2, <2>2, <3>1
    <3> QED  BY <1>2, <3>1, <3>2, <3>3 DEF AgreesWithSequential, laneNumber
  <2> QED  BY <2>1, <2>2
<1> QED  BY <1>6, <1>7, <1>8, <1>9 DEF RunInv

LEMMA SequentialReturnKeeps == ASSUME RunInv, SequentialReturn PROVE RunInv'
<1>0. /\ RunType /\ LaneInv /\ OutcomeInv  BY DEF RunInv
<1>1. /\ phase = "sequential" /\ phase' = "returned" /\ \A k \in Keys : Label(k) = "succeeded"
      /\ UNCHANGED <<plannerVars, inputVars, progress, has_error, errors, status>>
  BY DEF SequentialReturn
<1>2. /\ Keys' = Keys /\ Faulty' = Faulty /\ DOMAIN progress = Keys
      /\ \A l : Task(l)' = Task(l) /\ ErrorOf(l)' = ErrorOf(l)
                /\ FaultOf(Task(l))' = FaultOf(Task(l))
  BY <1>0, <1>1, Frozen DEF plannerVars, RunType
<1>3. Faulty = {} /\ status = Ok
  BY <1>0, <1>1, <1>2 DEF Faulty, OutcomeInv, RunType
<1>4. AgreesWithSequential'
  BY <1>1, <1>2, <1>3 DEF AgreesWithSequential, Ok
<1>5. RunType' /\ LaneInv' /\ OutcomeInv'
  BY <1>0, <1>1, <1>2 DEF RunType, LaneInv, OutcomeInv, Label, plannerVars
<1> QED  BY <1>4, <1>5 DEF RunInv

-----------------------------------------------------------------------------
LEMMA RunInvNext == ASSUME Proved!PlanInv, RunInv, [Next]_vars PROVE RunInv'
<1>1. CASE MakePlan
  <2>1. phase = "planning" /\ UNCHANGED <<inputVars, runVars>>
    <3>1. pc # "planned"
      BY <1>1 DEF MakePlan, Planner!makePlan, Planner!StageRequest, Planner!SortTasks,
           Planner!MergeTask, Planner!MergeDone, Planner!DistributeTask, Planner!ReturnPlan
    <3> QED  BY <1>1, <3>1 DEF MakePlan, RunInv, RunType
  <2>2. progress = <<>> /\ DOMAIN progress = {}  BY <2>1 DEF RunInv, RunType
  <2> QED
    BY <2>1, <2>2 DEF RunInv, RunType, LaneInv, OutcomeInv, AgreesWithSequential, runVars,
                      Ok
<1>2. CASE runPlan
  BY <1>2, WaitingKeeps, WaitKeeps, BeginKeeps, ExecuteKeeps, PushKeeps, CallBackKeeps,
     StoreKeeps, RecordKeeps DEF runPlan, RunInv
<1>3. CASE runPlanSequential
  BY <1>3, SequentialKeeps, SequentialReturnKeeps DEF runPlanSequential
<1>4. CASE UNCHANGED vars
  <2>1. UNCHANGED <<plannerVars, inputVars, runVars>>  BY <1>4 DEF vars
  <2>2. /\ Keys' = Keys /\ Faulty' = Faulty
        /\ \A l : Task(l)' = Task(l) /\ ErrorOf(l)' = ErrorOf(l)
                  /\ FaultOf(Task(l))' = FaultOf(Task(l))
    BY <2>1, Frozen DEF plannerVars
  <2>3. RunType' /\ LaneInv'
    BY <2>1, <2>2 DEF RunInv, RunType, LaneInv, Label, plannerVars, runVars
  <2>4. OutcomeInv'
    BY <2>1, <2>2 DEF RunInv, OutcomeInv, Label, plannerVars, runVars
  <2>5. AgreesWithSequential'
    BY <2>1, <2>2 DEF RunInv, AgreesWithSequential, runVars, Ok, laneNumber
  <2> QED  BY <2>3, <2>4, <2>5 DEF RunInv
<1> QED
  BY <1>1, <1>2, <1>3, <1>4 DEF Next

LEMMA RunInvAlways == Spec => []RunInv
<1>1. Init => RunInv
  <2> SUFFICES ASSUME Init PROVE RunInv
    OBVIOUS
  <2>1. progress = <<>> /\ DOMAIN progress = {} /\ phase = "planning" /\ status = Ok
        /\ has_error = FALSE /\ errors = <<>>
    BY DEF Init
  <2> QED
    BY <2>1, EmptySeq DEF RunInv, RunType, LaneInv, OutcomeInv, AgreesWithSequential
<1> QED
  BY <1>1, RunInvNext, PlanInvAlways, PTL DEF Spec

(* Every variable of the run keeps its type, and no task goes past its     *)
(* last segment, whatever the plan, the workers and the faults.            *)
THEOREM RunTypeOK == Spec => []TypeOK
<1>1. RunInv => TypeOK
  <2> SUFFICES ASSUME RunInv PROVE TypeOK
    OBVIOUS
  <2>1. \A k \in DOMAIN progress : Label(k) \in Labels
    BY DEF RunInv, RunType, Label, Stands
  <2>2. ASSUME NEW n \in DOMAIN errors PROVE errors[n].lane \in Planner!ReadLane
    <3>1. PICK S : S = [lane : Planner!ReadLane, code : Codes]  OBVIOUS
    <3>2. errors \in Seq(S)  BY <3>1 DEF RunInv, RunType
    <3>3. errors[n] \in S  BY <2>2, <3>2
    <3> QED  BY <3>1, <3>3
  <2> QED
    BY <2>1, <2>2 DEF RunInv, RunType, TypeOK, Labels
<1> QED
  BY <1>1, RunInvAlways, PTL

(* No task of a lane begins before every task of the earlier lanes is      *)
(* done, for every plan and every number of workers.                       *)
THEOREM LanesInOrderAlways == Spec => []LanesInOrder
<1>1. RunInv => LanesInOrder
  BY DEF RunInv, LaneInv, LanesInOrder
<1> QED
  BY <1>1, RunInvAlways, PTL

(* The error of a task is stored before the gate behind it opens: after a  *)
(* failure no task of a later lane reads.                                  *)
THEOREM FailureEndsLaterLanesAlways == Spec => []FailureEndsLaterLanes
<1>1. RunInv => FailureEndsLaterLanes
  BY DEF RunInv, LaneInv, FailureEndsLaterLanes
<1> QED
  BY <1>1, RunInvAlways, PTL

(* Workers in any number and any order return what one thread would: ok    *)
(* when no task has a fault, else a fault of the first lane with one.      *)
THEOREM AgreesWithSequentialAlways == Spec => []AgreesWithSequential
<1>1. RunInv => AgreesWithSequential
  BY DEF RunInv
<1> QED
  BY <1>1, RunInvAlways, PTL
-----------------------------------------------------------------------------
(* Views.  A place is a task of the plan and a segment of it; the views of *)
(* a task are handed out in the order of its segments, so a number for     *)
(* every task says which of them are.                                      *)
Views == [path : Nat, source_offset : Nat, size_bytes : Nat, request_id : Nat]

ViewPlaces == UNION {{k} \X DOMAIN Task(k).segments : k \in Keys}
ViewAt     == [c \in ViewPlaces |-> ReadView(Task(c[1]), c[2])]
UpTo(count) == {c \in ViewPlaces : c[2] <= count[c[1]]}

GivenOf(t, stand) ==
    IF ~ViewTask(t) THEN 0
    ELSE IF stand.label = "succeeded" THEN Len(t.segments)
    ELSE IF stand.label = "view" THEN stand.segment - 1
    ELSE IF stand.label = "callback" THEN stand.segment ELSE 0
CalledOf(t, stand) ==
    IF ~ViewTask(t) THEN 0
    ELSE IF stand.label = "succeeded" THEN Len(t.segments)
    ELSE IF stand.label \in {"view", "callback"} THEN stand.segment - 1 ELSE 0
GivenCount  == [k \in Keys |-> GivenOf(Task(k), progress[k])]
CalledCount == [k \in Keys |-> CalledOf(Task(k), progress[k])]

(* The list of views and the calls of the callback hold each of the views  *)
(* handed out so far once.                                                 *)
ViewInv ==
    /\ out_views \in Seq(Views) /\ callbacks \in Seq(Views)
    /\ phase = "planning" => out_views = <<>> /\ callbacks = <<>>
    /\ phase # "planning" => /\ Proved!Lists(ViewAt, out_views, UpTo(GivenCount))
                             /\ Proved!Lists(ViewAt, callbacks, UpTo(CalledCount))
    /\ \A k \in DOMAIN progress :
          /\ Label(k) \in {"waiting", "running"} => progress[k].segment = 1
          /\ Label(k) \in {"view", "callback"} => phase = "parallel" /\ ViewTask(Task(k))

(* A task that succeeded has copied what it had to copy, and a run that    *)
(* returns ok has had every task succeed.                                  *)
CopyInv == \A k \in DOMAIN progress :
              Label(k) = "succeeded" /\ ~ViewTask(Task(k)) => CopiesOf(Task(k)) \subseteq copied
RanInv  == phase = "returned" /\ status = Ok => \A k \in DOMAIN progress : Label(k) = "succeeded"

EffectInv == ViewInv /\ CopyInv /\ RanInv

LEMMA PlacesOfViews ==
    /\ \A c : c \in ViewPlaces <=> \E k \in Keys : \E n \in DOMAIN Task(k).segments : c = <<k, n>>
    /\ \A k \in Keys : \A n \in DOMAIN Task(k).segments :
          <<k, n>> \in ViewPlaces /\ ViewAt[<<k, n>>] = ReadView(Task(k), n)
<1>1. \A c : c \in ViewPlaces <=> \E k \in Keys : \E n \in DOMAIN Task(k).segments : c = <<k, n>>
  BY DEF ViewPlaces
<1>2. ASSUME NEW k \in Keys, NEW n \in DOMAIN Task(k).segments
      PROVE  <<k, n>> \in ViewPlaces /\ ViewAt[<<k, n>>] = ReadView(Task(k), n)
  <2>1. <<k, n>> \in ViewPlaces  BY <1>1
  <2> QED  BY <2>1 DEF ViewAt
<1> QED  BY <1>1, <1>2

LEMMA ViewsOfPlan ==
    ASSUME Proved!PlanInv, NEW k \in Keys
    PROVE  /\ DOMAIN Task(k).segments = 1 .. Len(Task(k).segments)
           /\ Len(Task(k).segments) \in Nat
           /\ \A n \in DOMAIN Task(k).segments : ReadView(Task(k), n) \in Views
           /\ ViewsOf(Task(k)) \in Seq(Views)
           /\ DOMAIN ViewsOf(Task(k)) = DOMAIN Task(k).segments
           /\ \A n \in DOMAIN Task(k).segments : ViewsOf(Task(k))[n] = ReadView(Task(k), n)
<1>1. PICK t \in Proved!SoundTasks : t = Task(k)  BY TasksOfPlan
<1>2. PICK s \in Seq(Proved!ReadSegment) : s = t.segments  BY SegmentsOfTask
<1>3. PICK m \in Nat : m = Len(s) /\ DOMAIN s = 1 .. m  BY LenProperties
<1>4. t.path \in Nat  BY DEF Proved!SoundTasks, Proved!PlannedReadTask
<1>5. ASSUME NEW n \in 1 .. m PROVE ReadView(t, n) \in Views
  <2>1. s[n] \in Proved!ReadSegment  BY <1>3
  <2> QED  BY <1>2, <1>4, <2>1 DEF ReadView, Views, Proved!ReadSegment
<1>6. ViewsOf(t) = [n \in 1 .. m |-> ReadView(t, n)]  BY <1>2, <1>3 DEF ViewsOf
<1>7. ViewsOf(t) \in Seq(Views)  BY <1>5, <1>6
<1> QED  BY <1>1, <1>2, <1>3, <1>5, <1>6, <1>7

LEMMA FrozenViews ==
    ASSUME UNCHANGED <<plan, inputVars>>
    PROVE  /\ Keys' = Keys /\ ViewPlaces' = ViewPlaces /\ ViewAt' = ViewAt
           /\ \A count : UpTo(count)' = UpTo(count)
           /\ \A k : /\ Task(k)' = Task(k) /\ ViewTask(Task(k))' = ViewTask(Task(k))
                     /\ CopiesOf(Task(k))' = CopiesOf(Task(k))
           /\ \A t, stand : /\ GivenOf(t, stand)' = GivenOf(t, stand)
                            /\ CalledOf(t, stand)' = CalledOf(t, stand)
<1>1. Keys' = Keys /\ \A k : Task(k)' = Task(k)  BY Frozen
<1>2. ViewPlaces' = ViewPlaces  BY <1>1 DEF ViewPlaces
<1>3. ViewAt' = ViewAt  BY <1>1, <1>2 DEF ViewAt, ReadView
<1>4. \A count : UpTo(count)' = UpTo(count)  BY <1>2 DEF UpTo
<1>5. \A t : ViewTask(t)' = ViewTask(t)  BY DEF ViewTask, inputVars
<1>6. ASSUME NEW k PROVE /\ ViewTask(Task(k))' = ViewTask(Task(k))
                         /\ CopiesOf(Task(k))' = CopiesOf(Task(k))
  BY <1>1 DEF ViewTask, inputVars, CopiesOf, Copy
<1>7. \A t, stand : /\ GivenOf(t, stand)' = GivenOf(t, stand)
                   /\ CalledOf(t, stand)' = CalledOf(t, stand)
  BY <1>5 DEF GivenOf, CalledOf
<1> QED  BY <1>1, <1>2, <1>3, <1>4, <1>6, <1>7

(* One more view of task k, or all of them.                                *)
LEMMA OneMore ==
    ASSUME Proved!PlanInv, NEW s \in Seq(Views), NEW f \in [Keys -> Nat], NEW k \in Keys,
           NEW n \in DOMAIN Task(k).segments, n = f[k] + 1,
           Proved!Lists(ViewAt, s, UpTo(f))
    PROVE  Proved!Lists(ViewAt, Append(s, ReadView(Task(k), n)), UpTo([f EXCEPT ![k] = n]))
<1>1. PICK e \in Views : e = ReadView(Task(k), n)  BY ViewsOfPlan
<1>2. PICK w : w = <<k, n>>  OBVIOUS
<1>3. w \in ViewPlaces /\ ViewAt[w] = e  BY <1>1, <1>2, PlacesOfViews
<1>4. PICK u \in Seq(Views) : u = <<e>>
  <2>1. <<e>> \in Seq(Views)  OBVIOUS
  <2> QED  BY <2>1
<1>5. Proved!Lists(ViewAt, u, {w})
  <2> DEFINE g == [i \in {1} |-> w]
  <2>1. DOMAIN u = {1} /\ u[1] = e  BY <1>4
  <2>2. Proved!ListedBy(g, ViewAt, u, {w})  BY <1>3, <2>1 DEF Proved!ListedBy
  <2> QED  BY <2>2 DEF Proved!Lists
<1>6. w \notin UpTo(f)
  <2>1. f[k] \in Nat /\ ~(f[k] + 1 <= f[k])  OBVIOUS
  <2> QED  BY <1>2, <2>1 DEF UpTo
<1>7. UpTo([f EXCEPT ![k] = n]) = UpTo(f) \cup {w}
  <2>1. f[k] \in Nat  OBVIOUS
  <2>2. ASSUME NEW l \in Keys, NEW m \in DOMAIN Task(l).segments
        PROVE  <<l, m>> \in UpTo([f EXCEPT ![k] = n]) <=> <<l, m>> \in UpTo(f) \cup {w}
    <3>1. <<l, m>> \in ViewPlaces  BY PlacesOfViews
    <3>2. m \in Nat  BY ViewsOfPlan
    <3>3. CASE l = k
      <4>1. m <= n <=> m <= f[k] \/ m = n  BY <2>1, <3>2
      <4> QED  BY <1>2, <3>1, <3>3, <4>1 DEF UpTo
    <3>4. CASE l # k  BY <1>2, <3>1, <3>4 DEF UpTo
    <3> QED  BY <3>3, <3>4
  <2>3. ASSUME NEW c \in ViewPlaces
        PROVE  c \in UpTo([f EXCEPT ![k] = n]) <=> c \in UpTo(f) \cup {w}
    <3>1. PICK l \in Keys : \E m \in DOMAIN Task(l).segments : c = <<l, m>>  BY PlacesOfViews
    <3>2. PICK m \in DOMAIN Task(l).segments : c = <<l, m>>  BY <3>1
    <3> QED  BY <2>2, <3>2
  <2>4. \A c \in UpTo([f EXCEPT ![k] = n]) : c \in ViewPlaces  BY DEF UpTo
  <2>5. \A c \in UpTo(f) \cup {w} : c \in ViewPlaces  BY <1>3 DEF UpTo
  <2> QED  BY <2>3, <2>4, <2>5
<1>8. UpTo(f) \cap {w} = {}  BY <1>6
<1>9. Proved!Lists(ViewAt, s \o u, UpTo(f) \cup {w})
  BY <1>5, <1>8, Proved!ConcatLists, SameInputs
<1>10. Append(s, e) = s \o u  BY <1>4, AppendIsConcat
<1> QED  BY <1>1, <1>7, <1>9, <1>10

LEMMA AllAtOnce ==
    ASSUME Proved!PlanInv, NEW s \in Seq(Views), NEW f \in [Keys -> Nat], NEW k \in Keys,
           f[k] = 0, Proved!Lists(ViewAt, s, UpTo(f))
    PROVE  Proved!Lists(ViewAt, s \o ViewsOf(Task(k)),
                        UpTo([f EXCEPT ![k] = Len(Task(k).segments)]))
<1>1. PICK u \in Seq(Views) : u = ViewsOf(Task(k))  BY ViewsOfPlan
<1>2. PICK n \in Nat : n = Len(Task(k).segments) /\ DOMAIN Task(k).segments = 1 .. n
  BY ViewsOfPlan
<1>3. DOMAIN u = 1 .. n /\ \A j \in 1 .. n : u[j] = ReadView(Task(k), j)
  BY <1>1, <1>2, ViewsOfPlan
<1>4. \A j \in 1 .. n : <<k, j>> \in ViewPlaces /\ ViewAt[<<k, j>>] = u[j]
  BY <1>2, <1>3, PlacesOfViews
<1>5. Proved!Lists(ViewAt, u, {k} \X DOMAIN u)
  <2>1. \A j \in DOMAIN u : ViewAt[<<k, j>>] = u[j]  BY <1>3, <1>4
  <2> QED  BY <2>1, Proved!LaneLists, SameInputs
<1> DEFINE B == {k} \X (1 .. n)
<1>6. UpTo([f EXCEPT ![k] = n]) = UpTo(f) \cup B
  <2>2. ASSUME NEW l \in Keys, NEW m \in DOMAIN Task(l).segments
        PROVE  <<l, m>> \in UpTo([f EXCEPT ![k] = n]) <=> <<l, m>> \in UpTo(f) \cup B
    <3>1. <<l, m>> \in ViewPlaces  BY PlacesOfViews
    <3>3. CASE l = k  BY <1>2, <3>1, <3>3 DEF UpTo
    <3>4. CASE l # k  BY <3>1, <3>4 DEF UpTo
    <3> QED  BY <3>3, <3>4
  <2>3. ASSUME NEW c \in ViewPlaces
        PROVE  c \in UpTo([f EXCEPT ![k] = n]) <=> c \in UpTo(f) \cup B
    <3>1. PICK l \in Keys : \E m \in DOMAIN Task(l).segments : c = <<l, m>>  BY PlacesOfViews
    <3>2. PICK m \in DOMAIN Task(l).segments : c = <<l, m>>  BY <3>1
    <3> QED  BY <2>2, <3>2
  <2>4. \A c \in UpTo([f EXCEPT ![k] = n]) : c \in ViewPlaces  BY DEF UpTo
  <2>5. \A c \in UpTo(f) \cup B : c \in ViewPlaces  BY <1>4 DEF UpTo
  <2> HIDE DEF B
  <2> QED  BY <2>3, <2>4, <2>5
<1>7. UpTo(f) \cap B = {}  BY DEF UpTo
<1> HIDE DEF B
<1>8. Proved!Lists(ViewAt, s \o u, UpTo(f) \cup B)
  <2>1. Proved!Lists(ViewAt, u, B)  BY <1>3, <1>5 DEF B
  <2> QED  BY <1>7, <2>1, Proved!ConcatLists, SameInputs
<1> QED  BY <1>1, <1>2, <1>6, <1>8
-----------------------------------------------------------------------------
(* One task goes on, the others stay.                                      *)
TaskGoes(k, to) ==
    /\ k \in Keys /\ DOMAIN progress = Keys /\ DOMAIN progress' = Keys
    /\ progress'[k] = to /\ \A l \in Keys : l # k => progress'[l] = progress[l]
    /\ UNCHANGED <<plan, inputVars>>

LEMMA MovesGoes ==
    ASSUME RunType, NEW k \in DOMAIN progress, NEW to \in Stands, MovesTo(k, to)
    PROVE  TaskGoes(k, to)
<1>1. UNCHANGED <<plan, inputVars>>  BY DEF MovesTo, plannerVars
<1> QED  BY <1>1, TaskMoves DEF TaskGoes

LEMMA CountsGo ==
    ASSUME NEW k, NEW to, TaskGoes(k, to)
    PROVE  /\ GivenCount' = [GivenCount EXCEPT ![k] = GivenOf(Task(k), to)]
           /\ CalledCount' = [CalledCount EXCEPT ![k] = CalledOf(Task(k), to)]
           /\ GivenCount[k] = GivenOf(Task(k), progress[k])
           /\ CalledCount[k] = CalledOf(Task(k), progress[k])
<1>1. /\ Keys' = Keys /\ k \in Keys /\ progress'[k] = to
      /\ \A l \in Keys : l # k => progress'[l] = progress[l]
      /\ \A l : Task(l)' = Task(l)
      /\ \A t, stand : /\ GivenOf(t, stand)' = GivenOf(t, stand)
                       /\ CalledOf(t, stand)' = CalledOf(t, stand)
  BY FrozenViews DEF TaskGoes
<1>2. ASSUME NEW l \in Keys
      PROVE  /\ GivenOf(Task(l), progress[l])' = GivenOf(Task(l), progress'[l])
             /\ CalledOf(Task(l), progress[l])' = CalledOf(Task(l), progress'[l])
  <2>1. ViewTask(Task(l))' = ViewTask(Task(l)) /\ Task(l)' = Task(l)
    BY FrozenViews DEF TaskGoes
  <2> QED  BY <2>1 DEF GivenOf, CalledOf
<1>3. /\ GivenCount' = [l \in Keys |-> GivenOf(Task(l), progress'[l])]
      /\ CalledCount' = [l \in Keys |-> CalledOf(Task(l), progress'[l])]
  BY <1>1, <1>2 DEF GivenCount, CalledCount
<1>4. \A l \in Keys : /\ GivenOf(Task(l), progress'[l]) =
                             IF l = k THEN GivenOf(Task(k), to) ELSE GivenCount[l]
                      /\ CalledOf(Task(l), progress'[l]) =
                             IF l = k THEN CalledOf(Task(k), to) ELSE CalledCount[l]
  BY <1>1 DEF GivenCount, CalledCount
<1>5. GivenCount[k] = GivenOf(Task(k), progress[k]) /\ CalledCount[k] = CalledOf(Task(k), progress[k])
  BY <1>1 DEF GivenCount, CalledCount
<1>6. DOMAIN GivenCount = Keys /\ DOMAIN CalledCount = Keys  BY DEF GivenCount, CalledCount
<1>7. /\ [GivenCount EXCEPT ![k] = GivenOf(Task(k), to)] =
            [l \in Keys |-> IF l = k THEN GivenOf(Task(k), to) ELSE GivenCount[l]]
      /\ [CalledCount EXCEPT ![k] = CalledOf(Task(k), to)] =
            [l \in Keys |-> IF l = k THEN CalledOf(Task(k), to) ELSE CalledCount[l]]
  BY <1>6
<1> QED  BY <1>3, <1>4, <1>5, <1>7

LEMMA CountsTyped ==
    ASSUME Proved!PlanInv, RunType, DOMAIN progress = Keys
    PROVE  GivenCount \in [Keys -> Nat] /\ CalledCount \in [Keys -> Nat]
<1>1. ASSUME NEW k \in Keys
      PROVE  GivenOf(Task(k), progress[k]) \in Nat /\ CalledOf(Task(k), progress[k]) \in Nat
  <2>1. progress[k].segment \in 1 .. Len(Task(k).segments) /\ Len(Task(k).segments) \in Nat
    BY ViewsOfPlan DEF RunType
  <2>2. PICK a \in Nat \ {0} : a = progress[k].segment  BY <2>1
  <2>3. a - 1 \in Nat  OBVIOUS
  <2> QED  BY <2>1, <2>2, <2>3 DEF GivenOf, CalledOf
<1> QED  BY <1>1 DEF GivenCount, CalledCount

(* What the invariant asks of where a task stands.                         *)
StandsWell(k, stand, running) ==
    /\ stand.label \in {"waiting", "running"} => stand.segment = 1
    /\ stand.label \in {"view", "callback"} => running = "parallel" /\ ViewTask(Task(k))

LEMMA StandsKept ==
    ASSUME RunInv, ViewInv, NEW k, NEW to, TaskGoes(k, to), StandsWell(k, to, phase'),
           phase' = phase \/ phase = "sequential"
    PROVE  \A l \in DOMAIN progress' :
              /\ Label(l)' \in {"waiting", "running"} => progress'[l].segment = 1
              /\ Label(l)' \in {"view", "callback"} => phase' = "parallel" /\ ViewTask(Task(l))'
<1>1. /\ DOMAIN progress = Keys /\ DOMAIN progress' = Keys /\ progress'[k] = to
      /\ \A l \in Keys : l # k => progress'[l] = progress[l]
      /\ \A l : ViewTask(Task(l))' = ViewTask(Task(l))
  BY FrozenViews DEF TaskGoes
<1>2. \A l \in Keys : phase = "sequential" => Label(l) \in {"waiting", "succeeded"}
  BY <1>1 DEF RunInv, OutcomeInv
<1>3. ASSUME NEW l \in Keys
      PROVE  /\ progress'[l].label \in {"waiting", "running"} => progress'[l].segment = 1
             /\ progress'[l].label \in {"view", "callback"} =>
                   phase' = "parallel" /\ ViewTask(Task(l))
  <2>1. CASE l = k  BY <1>1, <2>1 DEF StandsWell
  <2>2. CASE l # k  BY <1>1, <1>2, <2>2 DEF ViewInv, Label
  <2> QED  BY <2>1, <2>2
<1> QED  BY <1>1, <1>3 DEF Label

(* A step that hands out nothing.                                          *)
LEMMA QuietKeeps ==
    ASSUME Proved!PlanInv, RunInv, ViewInv, NEW k, NEW to, TaskGoes(k, to), phase # "planning",
           phase' = phase \/ (phase = "sequential" /\ phase' = "returned"),
           UNCHANGED <<out_views, callbacks>>, StandsWell(k, to, phase'),
           GivenOf(Task(k), to) = GivenOf(Task(k), progress[k]),
           CalledOf(Task(k), to) = CalledOf(Task(k), progress[k])
    PROVE  ViewInv'
<1>1. GivenCount' = GivenCount /\ CalledCount' = CalledCount
  <2>1. /\ GivenCount' = [GivenCount EXCEPT ![k] = GivenCount[k]]
        /\ CalledCount' = [CalledCount EXCEPT ![k] = CalledCount[k]]
    BY CountsGo
  <2>2. PICK f, g : f = GivenCount /\ g = CalledCount /\ f = [l \in Keys |-> f[l]]
                    /\ g = [l \in Keys |-> g[l]]
    BY DEF GivenCount, CalledCount
  <2> QED  BY <2>1, <2>2
<1>2. ViewAt' = ViewAt /\ \A count : UpTo(count)' = UpTo(count)
  BY FrozenViews DEF TaskGoes
<1>3. UpTo(GivenCount)' = UpTo(GivenCount) /\ UpTo(CalledCount)' = UpTo(CalledCount)
  <2>1. ViewPlaces' = ViewPlaces  BY FrozenViews DEF TaskGoes
  <2> QED  BY <1>1, <2>1 DEF UpTo
<1>4. \A l \in DOMAIN progress' :
         /\ Label(l)' \in {"waiting", "running"} => progress'[l].segment = 1
         /\ Label(l)' \in {"view", "callback"} => phase' = "parallel" /\ ViewTask(Task(l))'
  BY StandsKept
<1> QED  BY <1>2, <1>3, <1>4 DEF ViewInv

(* What was copied stays copied.                                           *)
LEMMA CopyKeeps ==
    ASSUME CopyInv, NEW k, NEW to, TaskGoes(k, to), copied \subseteq copied',
           to.label = "succeeded" /\ ~ViewTask(Task(k)) => CopiesOf(Task(k)) \subseteq copied'
    PROVE  CopyInv'
<1>1. /\ DOMAIN progress = Keys /\ DOMAIN progress' = Keys /\ progress'[k] = to
      /\ \A l \in Keys : l # k => progress'[l] = progress[l]
      /\ \A l : /\ ViewTask(Task(l))' = ViewTask(Task(l))
                /\ CopiesOf(Task(l))' = CopiesOf(Task(l))
  BY FrozenViews DEF TaskGoes
<1>2. ASSUME NEW l \in Keys, progress'[l].label = "succeeded", ~ViewTask(Task(l))
      PROVE  CopiesOf(Task(l)) \subseteq copied'
  <2>1. CASE l = k  BY <1>1, <1>2, <2>1
  <2>2. CASE l # k
    <3>1. CopiesOf(Task(l)) \subseteq copied  BY <1>1, <1>2, <2>2 DEF CopyInv, Label
    <3> QED  BY <3>1
  <2> QED  BY <2>1, <2>2
<1> QED  BY <1>1, <1>2 DEF CopyInv, Label

(* A worker's step that hands out nothing: only the label of a task moves. *)
LEMMA QuietStep ==
    ASSUME Proved!PlanInv, RunInv, EffectInv, NEW k \in DOMAIN progress,
           NEW from, NEW to \in Labels, At(k, from, to),
           UNCHANGED <<plannerVars, inputVars, phase, status, out_views, callbacks>>,
           StandsWell(k, [label |-> to, segment |-> progress[k].segment], "parallel"),
           GivenOf(Task(k), [label |-> to, segment |-> progress[k].segment])
              = GivenOf(Task(k), progress[k]),
           CalledOf(Task(k), [label |-> to, segment |-> progress[k].segment])
              = CalledOf(Task(k), progress[k]),
           copied \subseteq copied',
           to = "succeeded" /\ ~ViewTask(Task(k)) => CopiesOf(Task(k)) \subseteq copied'
    PROVE  EffectInv'
<1>1. PICK stand : stand = [label |-> to, segment |-> progress[k].segment]  OBVIOUS
<1>2. phase = "parallel" /\ phase' = "parallel" /\ UNCHANGED <<out_views, callbacks>>
  BY DEF At
<1>3. TaskGoes(k, stand) /\ stand.label = to
  BY <1>1, LabelMoves, MovesGoes DEF RunInv
<1>4. ViewInv'
  BY <1>1, <1>2, <1>3, QuietKeeps DEF EffectInv
<1>5. CopyInv'  BY <1>3, CopyKeeps DEF EffectInv
<1>6. RanInv'  BY <1>2 DEF RanInv
<1> QED  BY <1>4, <1>5, <1>6 DEF EffectInv

LEMMA StoodWell ==
    ASSUME RunInv, EffectInv, NEW k \in DOMAIN progress
    PROVE  /\ k \in Keys /\ phase # "planning" /\ DOMAIN progress = Keys
           /\ progress[k].segment \in Nat \ {0}
           /\ Label(k) = progress[k].label
           /\ Label(k) \in {"waiting", "running"} => progress[k].segment = 1
           /\ Label(k) \in {"view", "callback"} => ViewTask(Task(k))
<1>1. phase # "planning"
  <2>1. phase = "planning" => progress = <<>>  BY DEF RunInv, RunType
  <2> QED  BY <2>1
<1>2. progress \in [Keys -> Stands]  BY <1>1 DEF RunInv, RunType
<1>3. progress[k] \in Stands  BY <1>2
<1> QED  BY <1>1, <1>2, <1>3 DEF Stands, EffectInv, ViewInv, Label

LEMMA BeginEffects ==
    ASSUME Proved!PlanInv, RunInv, EffectInv, NEW k \in DOMAIN progress, BeginTask(k)
    PROVE  EffectInv'
<1>1. PICK to \in {"skipped", "running"} : At(k, "waiting", to)
  BY DEF BeginTask
<1>2. UNCHANGED <<plannerVars, inputVars, phase, status, out_views, callbacks, copied>>
  BY DEF BeginTask, effects
<1>3. Label(k) = "waiting" /\ progress[k].segment = 1 /\ progress[k].label = "waiting"
  BY <1>1, StoodWell DEF At
<1>4. to \in Labels /\ to # "succeeded"  BY DEF Labels, Finished
<1>5. PICK stand : stand = [label |-> to, segment |-> progress[k].segment]  OBVIOUS
<1>6. stand.label = to /\ stand.segment = 1  BY <1>3, <1>5
<1>7. StandsWell(k, stand, "parallel")  BY <1>6 DEF StandsWell
<1>8. /\ GivenOf(Task(k), stand) = GivenOf(Task(k), progress[k])
      /\ CalledOf(Task(k), stand) = CalledOf(Task(k), progress[k])
  BY <1>3, <1>6 DEF GivenOf, CalledOf
<1> QED  BY <1>1, <1>2, <1>4, <1>5, <1>7, <1>8, QuietStep

LEMMA ExecuteEffects ==
    ASSUME Proved!PlanInv, RunInv, EffectInv, NEW k \in DOMAIN progress, ExecuteTask(k)
    PROVE  EffectInv'
<1>1. PICK to : to = IF FaultOf(Task(k)) # "none" THEN "failing"
                     ELSE IF ViewTask(Task(k)) THEN "view" ELSE "succeeded"
  OBVIOUS
<1>2. /\ At(k, "running", to)
      /\ UNCHANGED <<plannerVars, inputVars, phase, status, out_views, callbacks>>
      /\ copied' = IF FaultOf(Task(k)) # "none" \/ ViewTask(Task(k)) THEN copied
                   ELSE copied \cup CopiesOf(Task(k))
  BY <1>1 DEF ExecuteTask
<1>3. Label(k) = "running" /\ progress[k].segment = 1 /\ progress[k].label = "running"
  BY <1>2, StoodWell DEF At
<1>4. /\ to \in Labels /\ to \in {"failing", "view", "succeeded"}
      /\ to = "view" => ViewTask(Task(k))
      /\ to = "succeeded" => ~ViewTask(Task(k)) /\ copied' = copied \cup CopiesOf(Task(k))
  BY <1>1, <1>2 DEF Labels, Finished
<1>5. PICK stand : stand = [label |-> to, segment |-> progress[k].segment]  OBVIOUS
<1>6. stand.label = to /\ stand.segment = 1  BY <1>3, <1>5
<1>7. StandsWell(k, stand, "parallel")  BY <1>4, <1>6 DEF StandsWell
<1>8. /\ GivenOf(Task(k), stand) = GivenOf(Task(k), progress[k])
      /\ CalledOf(Task(k), stand) = CalledOf(Task(k), progress[k])
  BY <1>3, <1>4, <1>6 DEF GivenOf, CalledOf
<1>9. copied \subseteq copied'  BY <1>2
<1>10. to = "succeeded" /\ ~ViewTask(Task(k)) => CopiesOf(Task(k)) \subseteq copied'
  <2>1. CopiesOf(Task(k)) \subseteq copied \cup CopiesOf(Task(k))  OBVIOUS
  <2> QED  BY <1>4, <2>1
<1> QED  BY <1>2, <1>4, <1>5, <1>7, <1>8, <1>9, <1>10, QuietStep

LEMMA ErrorEffects ==
    ASSUME Proved!PlanInv, RunInv, EffectInv, NEW k \in DOMAIN progress,
           StoreError(k) \/ RecordError(k)
    PROVE  EffectInv'
<1>1. PICK from, to : /\ At(k, from, to) /\ from \in {"failing", "recording"}
                      /\ to \in {"recording", "failed"}
  BY DEF StoreError, RecordError
<1>2. UNCHANGED <<plannerVars, inputVars, phase, status, out_views, callbacks, copied>>
  BY DEF StoreError, RecordError, effects
<1>3. progress[k].label = from
  BY <1>1, StoodWell DEF At
<1>4. to \in Labels /\ to # "succeeded"  BY <1>1 DEF Labels, Finished
<1>5. PICK stand : stand = [label |-> to, segment |-> progress[k].segment]  OBVIOUS
<1>6. stand.label = to  BY <1>5
<1>7. StandsWell(k, stand, "parallel")  BY <1>1, <1>6 DEF StandsWell
<1>8. /\ GivenOf(Task(k), stand) = GivenOf(Task(k), progress[k])
      /\ CalledOf(Task(k), stand) = CalledOf(Task(k), progress[k])
  BY <1>1, <1>3, <1>6 DEF GivenOf, CalledOf
<1> QED  BY <1>1, <1>2, <1>4, <1>5, <1>7, <1>8, QuietStep

(* A step that hands out views of task k.                                  *)
LEMMA HandingKeeps ==
    ASSUME RunInv, ViewInv, NEW k, NEW to, TaskGoes(k, to),
           phase # "planning", phase' = phase, StandsWell(k, to, phase'),
           out_views' \in Seq(Views), callbacks' \in Seq(Views),
           Proved!Lists(ViewAt, out_views',
                        UpTo([GivenCount EXCEPT ![k] = GivenOf(Task(k), to)])),
           Proved!Lists(ViewAt, callbacks',
                        UpTo([CalledCount EXCEPT ![k] = CalledOf(Task(k), to)]))
    PROVE  ViewInv'
<1>1. /\ GivenCount' = [GivenCount EXCEPT ![k] = GivenOf(Task(k), to)]
      /\ CalledCount' = [CalledCount EXCEPT ![k] = CalledOf(Task(k), to)]
  BY CountsGo
<1>2. ViewAt' = ViewAt /\ ViewPlaces' = ViewPlaces
  BY FrozenViews DEF TaskGoes
<1>3. /\ UpTo(GivenCount)' = UpTo([GivenCount EXCEPT ![k] = GivenOf(Task(k), to)])
      /\ UpTo(CalledCount)' = UpTo([CalledCount EXCEPT ![k] = CalledOf(Task(k), to)])
  BY <1>1, <1>2 DEF UpTo
<1>4. \A l \in DOMAIN progress' :
         /\ Label(l)' \in {"waiting", "running"} => progress'[l].segment = 1
         /\ Label(l)' \in {"view", "callback"} => phase' = "parallel" /\ ViewTask(Task(l))'
  BY StandsKept
<1> QED  BY <1>2, <1>3, <1>4 DEF ViewInv

LEMMA PushEffects ==
    ASSUME Proved!PlanInv, RunInv, EffectInv, NEW k \in DOMAIN progress, PushView(k)
    PROVE  EffectInv'
<1>1. /\ At(k, "view", "callback") /\ phase = "parallel" /\ phase' = "parallel"
      /\ out_views' = Append(out_views, ReadView(Task(k), progress[k].segment))
      /\ UNCHANGED <<plannerVars, inputVars, phase, status, callbacks, copied>>
  BY DEF PushView, At
<1>2. PICK n \in Nat \ {0} : n = progress[k].segment  BY StoodWell
<1>3. PICK stand : stand = [label |-> "callback", segment |-> n]  OBVIOUS
<1>4. stand.label = "callback" /\ stand.segment = n  BY <1>3
<1>5. "callback" \in Labels  BY DEF Labels
<1>6. TaskGoes(k, stand)
  BY <1>1, <1>2, <1>3, <1>5, LabelMoves, MovesGoes DEF RunInv
<1>7. progress[k].label = "view" /\ ViewTask(Task(k)) /\ k \in Keys
  BY <1>1, StoodWell DEF At
<1>8. /\ GivenOf(Task(k), stand) = n /\ GivenCount[k] = n - 1
      /\ CalledOf(Task(k), stand) = n - 1 /\ CalledCount[k] = n - 1
  <2>1. /\ GivenCount[k] = GivenOf(Task(k), progress[k])
        /\ CalledCount[k] = CalledOf(Task(k), progress[k])
    BY <1>6, CountsGo
  <2> QED  BY <1>2, <1>4, <1>7, <2>1 DEF GivenOf, CalledOf
<1>9. GivenCount \in [Keys -> Nat] /\ CalledCount \in [Keys -> Nat]
  BY <1>6, CountsTyped DEF TaskGoes, RunInv
<1>10. n \in DOMAIN Task(k).segments /\ ReadView(Task(k), n) \in Views
  <2>1. n \in DOMAIN Task(k).segments  BY <1>2 DEF RunInv, RunType
  <2> QED  BY <1>7, <2>1, ViewsOfPlan
<1>11. /\ out_views \in Seq(Views) /\ callbacks \in Seq(Views)
       /\ Proved!Lists(ViewAt, out_views, UpTo(GivenCount))
       /\ Proved!Lists(ViewAt, callbacks, UpTo(CalledCount))
  BY <1>1 DEF EffectInv, ViewInv
<1>12. Proved!Lists(ViewAt, out_views', UpTo([GivenCount EXCEPT ![k] = n]))
  <2>1. n = GivenCount[k] + 1  BY <1>8
  <2> QED  BY <1>1, <1>2, <1>7, <1>9, <1>10, <1>11, <2>1, OneMore
<1>13. out_views' \in Seq(Views) /\ callbacks' \in Seq(Views)
  <2>1. PICK e \in Views : e = ReadView(Task(k), n)  BY <1>10
  <2>2. Append(out_views, e) \in Seq(Views)  BY <1>11, <2>1, AppendProperties
  <2> QED  BY <1>1, <1>2, <1>11, <2>1, <2>2
<1>14. [CalledCount EXCEPT ![k] = CalledOf(Task(k), stand)] = CalledCount
  BY <1>8, <1>9
<1>15. StandsWell(k, stand, phase')  BY <1>1, <1>4, <1>7 DEF StandsWell
<1>16. ViewInv'
  BY <1>1, <1>6, <1>8, <1>11, <1>12, <1>13, <1>14, <1>15, HandingKeeps DEF EffectInv
<1>17. CopyInv'  BY <1>1, <1>4, <1>6, CopyKeeps DEF EffectInv
<1>18. RanInv'  BY <1>1 DEF RanInv
<1> QED  BY <1>16, <1>17, <1>18 DEF EffectInv

LEMMA CallBackEffects ==
    ASSUME Proved!PlanInv, RunInv, EffectInv, NEW k \in DOMAIN progress, CallBack(k)
    PROVE  EffectInv'
<1>1. PICK m \in Nat : m = Len(Task(k).segments) /\ DOMAIN Task(k).segments = 1 .. m
  BY StoodWell, ViewsOfPlan
<1>2. PICK n \in 1 .. m : n = progress[k].segment
  BY <1>1 DEF RunInv, RunType
<1>3. PICK stand : stand = IF n < m THEN [label |-> "view", segment |-> n + 1]
                                    ELSE [label |-> "succeeded", segment |-> n]
  OBVIOUS
<1>4. /\ phase = "parallel" /\ phase' = "parallel" /\ Label(k) = "callback"
      /\ callbacks' = Append(callbacks, ReadView(Task(k), n))
      /\ progress' = [progress EXCEPT ![k] = stand]
      /\ UNCHANGED <<plannerVars, inputVars, phase, status, out_views, copied>>
  BY <1>1, <1>2, <1>3 DEF CallBack
<1>5. stand \in Stands
  BY <1>3 DEF Stands, Labels, Finished
<1>6. TaskGoes(k, stand)
  <2>1. MovesTo(k, stand)  BY <1>4 DEF MovesTo
  <2> QED  BY <1>5, <2>1, MovesGoes DEF RunInv
<1>7. progress[k].label = "callback" /\ ViewTask(Task(k)) /\ k \in Keys
  BY <1>4, StoodWell
<1>8. /\ GivenOf(Task(k), stand) = n /\ GivenCount[k] = n
      /\ CalledOf(Task(k), stand) = n /\ CalledCount[k] = n - 1
  <2>1. /\ GivenCount[k] = GivenOf(Task(k), progress[k])
        /\ CalledCount[k] = CalledOf(Task(k), progress[k])
    BY <1>6, CountsGo
  <2>2. GivenCount[k] = n /\ CalledCount[k] = n - 1
    BY <1>2, <1>7, <2>1 DEF GivenOf, CalledOf
  <2>3. CASE n < m
    <3>1. stand.label = "view" /\ stand.segment = n + 1  BY <1>3, <2>3
    <3>2. (n + 1) - 1 = n  OBVIOUS
    <3> QED  BY <1>7, <2>2, <3>1, <3>2 DEF GivenOf, CalledOf
  <2>4. CASE ~(n < m)
    <3>1. stand.label = "succeeded" /\ n = m  BY <1>3, <2>4
    <3> QED  BY <1>1, <1>7, <2>2, <3>1 DEF GivenOf, CalledOf
  <2> QED  BY <2>3, <2>4
<1>9. GivenCount \in [Keys -> Nat] /\ CalledCount \in [Keys -> Nat]
  BY <1>6, CountsTyped DEF TaskGoes, RunInv
<1>10. n \in DOMAIN Task(k).segments /\ ReadView(Task(k), n) \in Views
  BY <1>1, <1>7, ViewsOfPlan
<1>11. /\ out_views \in Seq(Views) /\ callbacks \in Seq(Views)
       /\ Proved!Lists(ViewAt, out_views, UpTo(GivenCount))
       /\ Proved!Lists(ViewAt, callbacks, UpTo(CalledCount))
  BY <1>4 DEF EffectInv, ViewInv
<1>12. Proved!Lists(ViewAt, callbacks', UpTo([CalledCount EXCEPT ![k] = n]))
  <2>1. n = CalledCount[k] + 1  BY <1>8
  <2> QED  BY <1>4, <1>7, <1>9, <1>10, <1>11, <2>1, OneMore
<1>13. out_views' \in Seq(Views) /\ callbacks' \in Seq(Views)
  <2>1. PICK e \in Views : e = ReadView(Task(k), n)  BY <1>10
  <2>2. Append(callbacks, e) \in Seq(Views)  BY <1>11, <2>1, AppendProperties
  <2> QED  BY <1>4, <1>11, <2>1, <2>2
<1>14. [GivenCount EXCEPT ![k] = GivenOf(Task(k), stand)] = GivenCount
  BY <1>8, <1>9
<1>15. StandsWell(k, stand, phase')  BY <1>3, <1>4, <1>7 DEF StandsWell
<1>16. ViewInv'
  BY <1>4, <1>6, <1>8, <1>11, <1>12, <1>13, <1>14, <1>15, HandingKeeps DEF EffectInv
<1>17. CopyInv'  BY <1>4, <1>6, <1>7, CopyKeeps DEF EffectInv
<1>18. RanInv'  BY <1>4 DEF RanInv
<1> QED  BY <1>16, <1>17, <1>18 DEF EffectInv

-----------------------------------------------------------------------------
(* The steps of the calling thread.  A task that waits has handed out      *)
(* nothing.                                                                *)
NoViews == [k \in Keys |-> 0]

LEMMA NothingListed ==
    ASSUME Proved!PlanInv
    PROVE  Proved!Lists(ViewAt, <<>>, UpTo(NoViews))
<1>1. UpTo(NoViews) = {}
  <2>1. ASSUME NEW c \in UpTo(NoViews) PROVE FALSE
    <3>1. c \in ViewPlaces /\ c[2] <= NoViews[c[1]]  BY <2>1 DEF UpTo
    <3>2. PICK l \in Keys : \E m \in DOMAIN Task(l).segments : c = <<l, m>>
      BY <3>1, PlacesOfViews
    <3>3. PICK m \in DOMAIN Task(l).segments : c = <<l, m>>  BY <3>2
    <3>4. m \in Nat \ {0}  BY ViewsOfPlan
    <3>5. m <= 0  BY <3>1, <3>3 DEF NoViews
    <3> QED  BY <3>4, <3>5
  <2> QED  BY <2>1
<1>2. \A g : g = [j \in {} |-> j] => Proved!ListedBy(g, ViewAt, <<>>, {})
  BY DEF Proved!ListedBy
<1>3. PICK g : g = [j \in {} |-> j]  OBVIOUS
<1> QED  BY <1>1, <1>2, <1>3 DEF Proved!Lists

LEMMA WaitingEffects ==
    ASSUME Proved!PlanInv, RunInv, EffectInv, Dispatch \/ RunAgain
    PROVE  EffectInv'
<1>0. RunType /\ OutcomeInv  BY DEF RunInv
<1>1. /\ progress' = AllWaiting /\ phase' \in {"parallel", "sequential"}
      /\ UNCHANGED <<plannerVars, inputVars, out_views, callbacks, copied>>
  BY DEF Dispatch, RunAgain, effects
<1>2. /\ Keys' = Keys /\ ViewPlaces' = ViewPlaces /\ ViewAt' = ViewAt
      /\ \A k : Task(k)' = Task(k) /\ ViewTask(Task(k))' = ViewTask(Task(k))
  BY <1>1, FrozenViews DEF plannerVars
<1>3. DOMAIN progress' = Keys
      /\ \A k \in Keys : progress'[k].label = "waiting" /\ progress'[k].segment = 1
  BY <1>1 DEF AllWaiting
<1>4. GivenCount' = NoViews /\ CalledCount' = NoViews
  <2>1. ASSUME NEW k \in Keys
        PROVE  GivenOf(Task(k), progress[k])' = 0 /\ CalledOf(Task(k), progress[k])' = 0
    BY <1>3 DEF GivenOf, CalledOf
  <2>2. /\ GivenCount' = [k \in Keys |-> GivenOf(Task(k), progress[k])']
        /\ CalledCount' = [k \in Keys |-> CalledOf(Task(k), progress[k])']
    BY <1>2 DEF GivenCount, CalledCount
  <2> QED  BY <2>1, <2>2 DEF NoViews
<1>5. /\ out_views \in Seq(Views) /\ callbacks \in Seq(Views)
      /\ Proved!Lists(ViewAt, out_views, UpTo(NoViews))
      /\ Proved!Lists(ViewAt, callbacks, UpTo(NoViews))
  <2>1. CASE Dispatch
    <3>1. out_views = <<>> /\ callbacks = <<>>
      BY <2>1 DEF Dispatch, EffectInv, ViewInv
    <3> QED  BY <3>1, NothingListed DEF EffectInv, ViewInv
  <2>2. CASE RunAgain
    <3>1. phase = "parallel" /\ AllDone /\ NotSupported /\ DOMAIN progress = Keys
      BY <1>0, <2>2 DEF RunAgain, RunType
    <3>2. 1 \in DOMAIN errors
      <4>1. PICK es \in Seq([lane : Planner!ReadLane, code : Codes]) : es = errors
        BY <1>0 DEF RunType
      <4>2. Len(es) \in Nat /\ DOMAIN es = 1 .. Len(es) /\ Len(es) # 0
        BY <3>1, <4>1, EmptySeq DEF NotSupported
      <4> QED  BY <4>1, <4>2
    <3>3. PICK k \in Keys : errors[1] = ErrorOf(k)
      BY <1>0, <3>1, <3>2 DEF OutcomeInv
    <3>4. FaultOf(Task(k)) = "function_not_supported"
      BY <3>1, <3>3 DEF NotSupported, ErrorOf
    <3>5. ~windows  BY <3>4 DEF FaultOf
    <3>6. ASSUME NEW l \in Keys
          PROVE  GivenOf(Task(l), progress[l]) = 0 /\ CalledOf(Task(l), progress[l]) = 0
      <4>1. CASE ~ViewTask(Task(l))  BY <4>1 DEF GivenOf, CalledOf
      <4>2. CASE ViewTask(Task(l))
        <5>1. FaultOf(Task(l)) # "none"  BY <3>5, <4>2 DEF FaultOf, ViewTask
        <5>2. Label(l) # "succeeded"  BY <1>0, <3>1, <5>1 DEF OutcomeInv
        <5>3. Label(l) \in Finished
          BY <3>1, KeysOfPlan DEF AllDone, LaneDone
        <5> QED  BY <5>2, <5>3 DEF Finished, Label, GivenOf, CalledOf
      <4> QED  BY <4>1, <4>2
    <3>7. GivenCount = NoViews /\ CalledCount = NoViews
      BY <3>6 DEF GivenCount, CalledCount, NoViews
    <3> QED  BY <3>1, <3>7 DEF EffectInv, ViewInv
  <2> QED  BY <2>1, <2>2
<1>6. UpTo(GivenCount)' = UpTo(NoViews) /\ UpTo(CalledCount)' = UpTo(NoViews)
  BY <1>2, <1>4 DEF UpTo
<1>7. ViewInv'  BY <1>1, <1>2, <1>3, <1>5, <1>6 DEF ViewInv, Label
<1>8. CopyInv' /\ RanInv'  BY <1>1, <1>3 DEF CopyInv, RanInv, Label
<1> QED  BY <1>7, <1>8 DEF EffectInv

(* The call returns and every task stays where it is.                      *)
LEMMA ReturnEffects ==
    ASSUME Proved!PlanInv, RunInv, EffectInv, Wait \/ SequentialReturn
    PROVE  EffectInv'
<1>0. RunType /\ OutcomeInv  BY DEF RunInv
<1>1. /\ phase \in {"parallel", "sequential"} /\ phase' = "returned"
      /\ UNCHANGED <<plannerVars, inputVars, progress, out_views, callbacks, copied>>
  BY DEF Wait, SequentialReturn, effects
<1>2. /\ Keys' = Keys /\ ViewPlaces' = ViewPlaces /\ ViewAt' = ViewAt
      /\ \A k : /\ Task(k)' = Task(k) /\ ViewTask(Task(k))' = ViewTask(Task(k))
                /\ CopiesOf(Task(k))' = CopiesOf(Task(k))
      /\ \A t, stand : /\ GivenOf(t, stand)' = GivenOf(t, stand)
                       /\ CalledOf(t, stand)' = CalledOf(t, stand)
  BY <1>1, FrozenViews DEF plannerVars
<1>3. DOMAIN progress = Keys /\ \A k \in Keys : Label(k) \in Finished
  <2>1. DOMAIN progress = Keys  BY <1>0, <1>1 DEF RunType
  <2>2. CASE Wait  BY <2>1, <2>2, KeysOfPlan DEF Wait, AllDone, LaneDone
  <2>3. CASE SequentialReturn  BY <2>1, <2>3 DEF SequentialReturn, Finished
  <2> QED  BY <2>1, <2>2, <2>3
<1>4. GivenCount' = GivenCount /\ CalledCount' = CalledCount
  <2>1. ASSUME NEW k \in Keys
        PROVE  /\ GivenOf(Task(k), progress[k])' = GivenOf(Task(k), progress[k])
               /\ CalledOf(Task(k), progress[k])' = CalledOf(Task(k), progress[k])
    BY <1>1, <1>2 DEF GivenOf, CalledOf
  <2>2. /\ GivenCount' = [k \in Keys |-> GivenOf(Task(k), progress[k])']
        /\ CalledCount' = [k \in Keys |-> CalledOf(Task(k), progress[k])']
    BY <1>2 DEF GivenCount, CalledCount
  <2> QED  BY <2>1, <2>2 DEF GivenCount, CalledCount
<1>5. UpTo(GivenCount)' = UpTo(GivenCount) /\ UpTo(CalledCount)' = UpTo(CalledCount)
  BY <1>2, <1>4 DEF UpTo
<1>6. ViewInv'
  BY <1>1, <1>2, <1>3, <1>5 DEF EffectInv, ViewInv, Label, Finished
<1>7. CopyInv'  BY <1>1, <1>2 DEF EffectInv, CopyInv, Label
<1>8. RanInv'
  <2>1. CASE SequentialReturn
    BY <1>1, <1>3, <2>1 DEF SequentialReturn, RanInv, Label
  <2>2. CASE Wait /\ errors = <<>>
    <3>1. ASSUME NEW k \in Keys PROVE Label(k) = "succeeded"
      <4>1. phase = "parallel"  BY <2>2 DEF Wait
      <4>2. Label(k) # "failed"  BY <1>0, <1>3, <2>2, <4>1 DEF OutcomeInv
      <4>3. ~has_error
        <5>1. ASSUME has_error PROVE FALSE
          <6>1. PICK l \in Keys : Label(l) \in {"recording", "failed"}
            BY <1>0, <1>3, <4>1, <5>1 DEF OutcomeInv
          <6>2. Label(l) = "failed"  BY <1>3, <6>1 DEF Finished
          <6> QED  BY <1>0, <1>3, <2>2, <4>1, <6>2 DEF OutcomeInv
        <5> QED  BY <5>1
      <4>4. Label(k) # "skipped"  BY <1>0, <1>3, <4>1, <4>3 DEF OutcomeInv
      <4> QED  BY <1>3, <4>2, <4>4 DEF Finished
    <3> QED  BY <1>1, <1>3, <3>1 DEF RanInv, Label
  <2>3. CASE Wait /\ errors # <<>>
    <3>1. PICK S : S = [lane : Planner!ReadLane, code : Codes]  OBVIOUS
    <3>2. PICK es \in Seq(S) : es = errors  BY <1>0, <3>1 DEF RunType
    <3>3. 1 \in DOMAIN es
      <4>1. Len(es) \in Nat /\ DOMAIN es = 1 .. Len(es) /\ Len(es) # 0
        BY <2>3, <3>2, EmptySeq
      <4> QED  BY <4>1
    <3>4. status' = es[1] /\ es[1] \in S /\ es[1].lane \in Planner!ReadLane
      <4>1. es[1] \in S  BY <3>2, <3>3
      <4>2. status' = es[1]  BY <2>3, <3>2 DEF Wait
      <4>3. es[1].lane \in Planner!ReadLane  BY <3>1, <4>1
      <4> QED  BY <4>1, <4>2, <4>3
    <3>5. status'.lane # "none"  BY <3>4, LaneNumbers
    <3> QED  BY <3>5 DEF RanInv, Ok
  <2> QED  BY <2>1, <2>2, <2>3
<1> QED  BY <1>6, <1>7, <1>8 DEF EffectInv

(* A task of the sequential run hands out all its views at once, or none.  *)
LEMMA SequentialGoes ==
    ASSUME RunType, phase = "sequential", NEW k \in DOMAIN progress, NEW to \in Labels,
           progress' = [progress EXCEPT ![k].label = to], UNCHANGED <<plannerVars, inputVars>>
    PROVE  TaskGoes(k, [label |-> to, segment |-> progress[k].segment])
<1>1. DOMAIN progress = Keys /\ progress \in [Keys -> Stands]  BY DEF RunType
<1>2. progress[k] \in Stands  BY <1>1
<1>3. [progress[k] EXCEPT !.label = to] = [label |-> to, segment |-> progress[k].segment]
  BY <1>2 DEF Stands
<1>4. progress' = [progress EXCEPT ![k] = [progress[k] EXCEPT !.label = to]]
  OBVIOUS
<1> QED  BY <1>1, <1>3, <1>4 DEF TaskGoes, plannerVars

LEMMA SequentialEffects ==
    ASSUME Proved!PlanInv, RunInv, EffectInv, NEW k \in DOMAIN progress,
           SequentialTask(k) \/ SequentialFails(k)
    PROVE  EffectInv'
<1>1. PICK to : to = IF FaultOf(Task(k)) = "none" THEN "succeeded" ELSE "failed"
  OBVIOUS
<1>2. /\ phase = "sequential" /\ Label(k) = "waiting"
      /\ progress' = [progress EXCEPT ![k].label = to]
      /\ UNCHANGED <<plannerVars, inputVars>>
  BY <1>1 DEF SequentialTask, SequentialFails, IsNext
<1>3. to \in Labels /\ to \in {"succeeded", "failed"}  BY <1>1 DEF Labels, Finished
<1>4. PICK stand : stand = [label |-> to, segment |-> progress[k].segment]  OBVIOUS
<1>5. TaskGoes(k, stand) /\ stand.label = to
  BY <1>2, <1>3, <1>4, SequentialGoes DEF RunInv
<1>6. k \in Keys /\ progress[k].label = "waiting"  BY <1>2, StoodWell
<1>7. /\ GivenOf(Task(k), progress[k]) = 0 /\ CalledOf(Task(k), progress[k]) = 0
      /\ GivenCount[k] = 0 /\ CalledCount[k] = 0
  <2>1. GivenOf(Task(k), progress[k]) = 0 /\ CalledOf(Task(k), progress[k]) = 0
    BY <1>6 DEF GivenOf, CalledOf
  <2> QED  BY <1>5, <2>1, CountsGo
<1>8. StandsWell(k, stand, phase')  BY <1>3, <1>5 DEF StandsWell
<1>9. CASE to = "failed"
  <2>1. SequentialFails(k)  BY <1>1, <1>9 DEF SequentialTask
  <2>2. /\ phase' = "returned" /\ status' = ErrorOf(k)
        /\ UNCHANGED <<out_views, callbacks, copied>>
    BY <2>1 DEF SequentialFails, effects
  <2>3. GivenOf(Task(k), stand) = 0 /\ CalledOf(Task(k), stand) = 0
    BY <1>5, <1>9 DEF GivenOf, CalledOf
  <2>4. ViewInv'
    BY <1>2, <1>5, <1>7, <1>8, <2>2, <2>3, QuietKeeps DEF EffectInv
  <2>5. CopyInv'  BY <1>5, <1>9, <2>2, CopyKeeps DEF EffectInv
  <2>6. status'.lane # "none"
    <3>1. status'.lane = k[1]  BY <2>2 DEF ErrorOf
    <3> QED  BY <1>6, <3>1, KeysOfPlan, LaneNumbers
  <2>7. RanInv'  BY <2>6 DEF RanInv, Ok
  <2> QED  BY <2>4, <2>5, <2>7 DEF EffectInv
<1>10. CASE to = "succeeded"
  <2>1. SequentialTask(k)  BY <1>1, <1>10 DEF SequentialFails
  <2>2. /\ phase' = phase
        /\ copied' = IF ViewTask(Task(k)) THEN copied ELSE copied \cup CopiesOf(Task(k))
    BY <2>1 DEF SequentialTask
  <2>3. CopyInv'
    <3>1. copied \subseteq copied'  BY <2>2
    <3>2. ~ViewTask(Task(k)) => CopiesOf(Task(k)) \subseteq copied'  BY <2>2
    <3> QED  BY <1>5, <3>1, <3>2, CopyKeeps DEF EffectInv
  <2>4. ViewInv'
    <3>1. CASE ~ViewTask(Task(k))
      <4>1. UNCHANGED <<out_views, callbacks>>  BY <2>1, <3>1 DEF SequentialTask
      <4>2. GivenOf(Task(k), stand) = 0 /\ CalledOf(Task(k), stand) = 0
        BY <3>1 DEF GivenOf, CalledOf
      <4> QED
        BY <1>2, <1>5, <1>7, <1>8, <2>2, <4>1, <4>2, QuietKeeps DEF EffectInv
    <3>2. CASE ViewTask(Task(k))
      <4>1. PICK n : n = Len(Task(k).segments)  OBVIOUS
      <4>2. GivenOf(Task(k), stand) = n /\ CalledOf(Task(k), stand) = n
        BY <1>5, <1>10, <3>2, <4>1 DEF GivenOf, CalledOf
      <4>3. /\ out_views' = out_views \o ViewsOf(Task(k))
            /\ callbacks' = callbacks \o ViewsOf(Task(k))
        BY <2>1, <3>2 DEF SequentialTask
      <4>4. /\ out_views \in Seq(Views) /\ callbacks \in Seq(Views)
            /\ Proved!Lists(ViewAt, out_views, UpTo(GivenCount))
            /\ Proved!Lists(ViewAt, callbacks, UpTo(CalledCount))
        BY <1>2 DEF EffectInv, ViewInv
      <4>5. GivenCount \in [Keys -> Nat] /\ CalledCount \in [Keys -> Nat]
        BY <1>5, CountsTyped DEF TaskGoes, RunInv
      <4>6. out_views' \in Seq(Views) /\ callbacks' \in Seq(Views)
        <5>1. PICK u \in Seq(Views) : u = ViewsOf(Task(k))  BY <1>6, ViewsOfPlan
        <5>2. out_views \o u \in Seq(Views) /\ callbacks \o u \in Seq(Views)
          BY <4>4, <5>1, ConcatProperties
        <5> QED  BY <4>3, <5>1, <5>2
      <4>7. /\ Proved!Lists(ViewAt, out_views', UpTo([GivenCount EXCEPT ![k] = n]))
            /\ Proved!Lists(ViewAt, callbacks', UpTo([CalledCount EXCEPT ![k] = n]))
        BY <1>6, <1>7, <4>1, <4>3, <4>4, <4>5, AllAtOnce
      <4> QED
        BY <1>2, <1>5, <1>8, <2>2, <4>2, <4>6, <4>7, HandingKeeps DEF EffectInv
    <3> QED  BY <3>1, <3>2
  <2>5. RanInv'  BY <1>2, <2>2 DEF RanInv
  <2> QED  BY <2>3, <2>4, <2>5 DEF EffectInv
<1> QED  BY <1>3, <1>9, <1>10

-----------------------------------------------------------------------------
LEMMA EffectInvNext ==
    ASSUME Proved!PlanInv, RunInv, EffectInv, [Next]_vars
    PROVE  EffectInv'
<1>1. CASE MakePlan
  <2>1. phase = "planning" /\ UNCHANGED <<inputVars, runVars>>
    <3>1. pc # "planned"
      BY <1>1 DEF MakePlan, Planner!makePlan, Planner!StageRequest, Planner!SortTasks,
           Planner!MergeTask, Planner!MergeDone, Planner!DistributeTask, Planner!ReturnPlan
    <3> QED  BY <1>1, <3>1 DEF MakePlan, RunInv, RunType
  <2>2. progress = <<>> /\ DOMAIN progress = {}  BY <2>1 DEF RunInv, RunType
  <2>3. UNCHANGED <<phase, progress, out_views, callbacks>>
    BY <2>1 DEF runVars, effects
  <2> QED
    BY <2>1, <2>2, <2>3 DEF EffectInv, ViewInv, CopyInv, RanInv
<1>2. CASE runPlan
  BY <1>2, WaitingEffects, ReturnEffects, BeginEffects, ExecuteEffects, PushEffects,
     CallBackEffects, ErrorEffects DEF runPlan
<1>3. CASE runPlanSequential
  BY <1>3, SequentialEffects, ReturnEffects DEF runPlanSequential
<1>4. CASE UNCHANGED vars
  <2>1. UNCHANGED <<plannerVars, inputVars, phase, progress, copied, out_views, callbacks,
                    status>>
    BY <1>4 DEF vars, runVars, effects
  <2>2. /\ Keys' = Keys /\ ViewPlaces' = ViewPlaces /\ ViewAt' = ViewAt
        /\ \A k : /\ Task(k)' = Task(k) /\ ViewTask(Task(k))' = ViewTask(Task(k))
                  /\ CopiesOf(Task(k))' = CopiesOf(Task(k))
    BY <2>1, FrozenViews DEF plannerVars
  <2>3. GivenCount' = GivenCount /\ CalledCount' = CalledCount
    <3>1. ASSUME NEW k \in Keys
          PROVE  /\ GivenOf(Task(k), progress[k])' = GivenOf(Task(k), progress[k])
                 /\ CalledOf(Task(k), progress[k])' = CalledOf(Task(k), progress[k])
      BY <2>1, <2>2 DEF GivenOf, CalledOf
    <3>2. /\ GivenCount' = [k \in Keys |-> GivenOf(Task(k), progress[k])']
          /\ CalledCount' = [k \in Keys |-> CalledOf(Task(k), progress[k])']
      BY <2>2 DEF GivenCount, CalledCount
    <3> QED  BY <3>1, <3>2 DEF GivenCount, CalledCount
  <2>4. UpTo(GivenCount)' = UpTo(GivenCount) /\ UpTo(CalledCount)' = UpTo(CalledCount)
    BY <2>2, <2>3 DEF UpTo
  <2>5. ViewInv'  BY <2>1, <2>2, <2>4 DEF EffectInv, ViewInv, Label
  <2>6. CopyInv' /\ RanInv'
    BY <2>1, <2>2 DEF EffectInv, CopyInv, RanInv, Label, Ok
  <2> QED  BY <2>5, <2>6 DEF EffectInv
<1> QED
  BY <1>1, <1>2, <1>3, <1>4 DEF Next

LEMMA EffectInvAlways == Spec => []EffectInv
<1>1. Init => EffectInv
  <2> SUFFICES ASSUME Init PROVE EffectInv
    OBVIOUS
  <2>1. progress = <<>> /\ DOMAIN progress = {} /\ phase = "planning"
        /\ out_views = <<>> /\ callbacks = <<>>
    BY DEF Init
  <2> QED
    BY <2>1, EmptySeq DEF EffectInv, ViewInv, CopyInv, RanInv
<1> QED
  BY <1>1, EffectInvNext, PlanInvAlways, RunInvAlways, PTL DEF Spec

-----------------------------------------------------------------------------
(* What the planner's proofs say of the plan that is run: its segments are *)
(* the pieces of the accepted requests.                                    *)
LEMMA CoverAlways == Spec => []Proved!CoverInv
BY PlannerRuns, SameInputs, Proved!CoverInvAlways, PTL

LEMMA DealtAlways == Spec => []Proved!AllDealt
BY PlannerRuns, SameInputs, Proved!AllDealtAlways, PTL

Pieces == Proved!LayoutOf(Proved!Standing)

LEMMA PiecesOfPlan ==
    ASSUME Proved!PlanInv, Proved!AllDealt, pc = "planned"
    PROVE  /\ \A c : c \in DOMAIN Pieces <=> c \in ViewPlaces
           /\ \A k \in Keys : \A n \in DOMAIN Task(k).segments :
                 /\ <<k, n>> \in DOMAIN Pieces
                 /\ Pieces[<<k, n>>][1] = Task(k).path
                 /\ Pieces[<<k, n>>][2] = Task(k).segments[n]
<1>1. PICK W, T : W = Proved!Where /\ T = Proved!Standing  OBVIOUS
<1>2. DOMAIN T = W  BY <1>1 DEF Proved!Standing
<1>3. /\ \A w : w \in W <=> \E lane \in Proved!ReadLane : \E n \in DOMAIN plan[lane] :
                                w = <<lane, n>>
      /\ \A w \in W : T[w] = plan[w[1]][w[2]]
  BY <1>1, SameInputs, Proved!PlannedPieces
<1>4. Proved!ReadLane = Planner!ReadLane  BY DEF Proved!ReadLane, Planner!ReadLane
<1>5. \A k : k \in W <=> k \in Keys
  <2>1. ASSUME NEW k \in W PROVE k \in Keys
    <3>1. PICK lane \in Planner!ReadLane : \E n \in DOMAIN plan[lane] : k = <<lane, n>>
      BY <1>3, <1>4
    <3>2. PICK n \in DOMAIN plan[lane] : k = <<lane, n>>  BY <3>1
    <3> QED  BY <3>2, KeysOfPlan
  <2>2. ASSUME NEW k \in Keys PROVE k \in W
    BY <1>3, <1>4, KeysOfPlan
  <2> QED  BY <2>1, <2>2
<1>6. \A k \in Keys : T[k] = Task(k)  BY <1>3, <1>5 DEF Task
<1>7. /\ \A c : c \in DOMAIN Proved!LayoutOf(T) <=>
                  \E w \in DOMAIN T : \E k \in DOMAIN T[w].segments : c = <<w, k>>
      /\ \A w \in DOMAIN T : \A k \in DOMAIN T[w].segments :
            /\ <<w, k>> \in DOMAIN Proved!LayoutOf(T)
            /\ Proved!LayoutOf(T)[<<w, k>>] = <<T[w].path, T[w].segments[k]>>
  BY SameInputs, Proved!LayoutPlaces
<1>8. Pieces = Proved!LayoutOf(T)  BY <1>1 DEF Pieces
<1>9. ASSUME NEW k \in Keys, NEW n \in DOMAIN Task(k).segments
      PROVE  /\ <<k, n>> \in DOMAIN Pieces
             /\ Pieces[<<k, n>>][1] = Task(k).path
             /\ Pieces[<<k, n>>][2] = Task(k).segments[n]
  <2>1. k \in DOMAIN T /\ T[k] = Task(k)  BY <1>2, <1>5, <1>6
  <2>2. <<k, n>> \in DOMAIN Pieces /\ Pieces[<<k, n>>] = <<Task(k).path, Task(k).segments[n]>>
    BY <1>7, <1>8, <2>1
  <2> QED  BY <2>2
<1>10. ASSUME NEW c PROVE c \in DOMAIN Pieces <=> c \in ViewPlaces
  <2>1. c \in DOMAIN Pieces => c \in ViewPlaces
    BY <1>2, <1>5, <1>6, <1>7, <1>8, PlacesOfViews
  <2>2. c \in ViewPlaces => c \in DOMAIN Pieces
    BY <1>9, PlacesOfViews
  <2> QED  BY <2>1, <2>2
<1> QED  BY <1>9, <1>10

(* Segment n of task k of a sound plan.                                    *)
LEMMA SegmentTyped ==
    ASSUME Proved!PlanInv, NEW k \in Keys, NEW n \in DOMAIN Task(k).segments
    PROVE  /\ Task(k).segments[n].source_offset \in Nat
           /\ Task(k).segments[n].size_bytes \in Nat
           /\ Len(Task(k).segments) <= 1 =>
                 /\ Task(k).offset = Task(k).segments[n].source_offset
                 /\ Task(k).size_bytes = Task(k).segments[n].size_bytes
                 /\ Task(k).destination = Task(k).segments[n].destination
<1>1. PICK t \in Proved!SoundTasks : t = Task(k)  BY TasksOfPlan
<1>2. PICK s \in Seq(Proved!ReadSegment) : s = t.segments  BY SegmentsOfTask
<1>3. n \in DOMAIN s  BY <1>1, <1>2
<1>4. s[n] \in Proved!ReadSegment  BY <1>3
<1>5. s[n].source_offset \in Nat /\ s[n].size_bytes \in Nat
  BY <1>4 DEF Proved!ReadSegment
<1>6. ASSUME Len(s) <= 1
      PROVE  t.offset = s[n].source_offset /\ t.size_bytes = s[n].size_bytes
             /\ t.destination = s[n].destination
  <2>1. Len(s) \in Nat /\ DOMAIN s = 1 .. Len(s)  BY LenProperties
  <2>2. n = 1 /\ Len(s) = 1 /\ DOMAIN s = {1}  BY <1>3, <1>6, <2>1
  <2>3. Proved!SpansItsSegments(t)  BY DEF Proved!SoundTasks
  <2>4. t.offset \in Nat /\ t.size_bytes \in Nat
    BY DEF Proved!SoundTasks, Proved!PlannedReadTask
  <2>5. /\ s[1].source_offset = t.offset /\ s[1].destination = t.destination
        /\ s[1].source_offset + s[1].size_bytes = t.offset + t.size_bytes
    BY <1>2, <2>2, <2>3 DEF Proved!SpansItsSegments, Proved!EndOf
  <2>6. PICK a \in Nat, b \in Nat, x \in Nat, y \in Nat :
           a = t.offset /\ b = t.size_bytes /\ x = s[n].source_offset /\ y = s[n].size_bytes
    BY <1>5, <2>4
  <2>7. a = x /\ x + y = a + b  BY <2>2, <2>5, <2>6
  <2>8. y = b  BY <2>7
  <2> QED  BY <2>2, <2>5, <2>6, <2>7, <2>8
<1> QED  BY <1>1, <1>2, <1>5, <1>6

(* A valid request is what the planner's proofs call an accepted one.      *)
LEMMA AcceptedRequests ==
    ASSUME Proved!PlanInv, pc = "planned"
    PROVE  /\ \A i \in DOMAIN requests :
                 /\ requests[i].offset \in Nat /\ requests[i].size_bytes \in Nat
                 /\ Planner!isValidRequest(requests[i]) => i \in Proved!Accepted
                 /\ \A d \in Nat : requests[i].destination # Planner!Null =>
                       Planner!Advance(requests[i].destination, d) # Planner!Null
           /\ \A p, d : Planner!Advance(p, d) = Proved!Advance(p, d)
<1>1. requests \in Seq(Proved!ReadRequest)  BY DEF Proved!PlanInv
<1>2. ASSUME NEW i \in DOMAIN requests
      PROVE  /\ requests[i].offset \in Nat /\ requests[i].size_bytes \in Nat
             /\ \A d \in Nat : requests[i].destination # Planner!Null =>
                   Planner!Advance(requests[i].destination, d) # Planner!Null
  <2>1. PICK r \in Proved!ReadRequest : r = requests[i]  BY <1>1
  <2>2. r.offset \in Nat /\ r.size_bytes \in Nat /\ r.destination \in Proved!Pointer
    BY DEF Proved!ReadRequest
  <2>3. ASSUME NEW d \in Nat, r.destination # Planner!Null
        PROVE  Planner!Advance(r.destination, d) # Planner!Null
    <3>1. r.destination \in [buffer : Nat \ {0}, at : Nat]
      BY <2>2, <2>3 DEF Proved!Pointer, Proved!Null, Planner!Null
    <3>2. [r.destination EXCEPT !.at = @ + d].buffer # 0  BY <3>1
    <3> QED  BY <2>3, <3>2 DEF Planner!Advance, Planner!Null
  <2> QED  BY <2>1, <2>2, <2>3
<1>3. ASSUME NEW i \in DOMAIN requests, Planner!isValidRequest(requests[i])
      PROVE  i \in Proved!Accepted
  BY <1>3 DEF Planner!isValidRequest, Proved!isValidRequest, Planner!Null, Proved!Null,
              Proved!Accepted, Proved!Seen
<1>4. \A p, d : Planner!Advance(p, d) = Proved!Advance(p, d)
  BY DEF Planner!Advance, Proved!Advance, Planner!Null, Proved!Null
<1> QED  BY <1>2, <1>3, <1>4

(* A run that returns ok has served every accepted request that brings a   *)
(* destination, with any number of workers: each byte of it was copied     *)
(* there or is in a view of it.                                            *)
THEOREM SuccessServesDestinationsAlways == Spec => []SuccessServesDestinations
<1>1. ASSUME Proved!PlanInv, Proved!CoverInv, Proved!AllDealt, RunInv, EffectInv
      PROVE  SuccessServesDestinations
  <2> SUFFICES ASSUME phase = "returned", status = Ok, NEW i \in DOMAIN requests,
                      Planner!isValidRequest(requests[i]),
                      requests[i].destination # Planner!Null,
                      NEW b \in 0 .. requests[i].size_bytes - 1
               PROVE  ByteCopied(requests[i], b) \/ ByteViewed(requests[i], b)
    BY DEF SuccessServesDestinations, Served
  <2>1. pc = "planned" /\ DOMAIN progress = Keys  BY <1>1 DEF RunInv, RunType
  <2>2. PICK r : r = requests[i]  OBVIOUS
  <2>3. /\ i \in Proved!Accepted /\ r.offset \in Nat /\ r.size_bytes \in Nat
        /\ \A d \in Nat : Planner!Advance(r.destination, d) # Planner!Null
        /\ \A p, d : Planner!Advance(p, d) = Proved!Advance(p, d)
    BY <1>1, <2>1, <2>2, AcceptedRequests
  <2>4. PICK c \in DOMAIN Pieces : Proved!PartOf(Pieces[c], r) /\ Proved!Holds(Pieces[c], r, b)
    <3>1. Proved!Exact(Pieces, requests, Proved!Accepted)
      BY <1>1 DEF Proved!CoverInv, Pieces
    <3> QED  BY <2>2, <2>3, <3>1 DEF Proved!Exact
  <2>5. PICK k \in Keys : \E n \in DOMAIN Task(k).segments : c = <<k, n>>
    BY <1>1, <2>1, PiecesOfPlan, PlacesOfViews
  <2>6. PICK n \in DOMAIN Task(k).segments : c = <<k, n>>  BY <2>5
  <2>7. PICK t, s : t = Task(k) /\ s = t.segments[n]  OBVIOUS
  <2>8. Pieces[c][1] = t.path /\ Pieces[c][2] = s
    BY <1>1, <2>1, <2>6, <2>7, PiecesOfPlan
  <2>9. /\ s.source_offset \in Nat /\ s.size_bytes \in Nat
        /\ Len(t.segments) <= 1 => /\ t.offset = s.source_offset /\ t.size_bytes = s.size_bytes
                                   /\ t.destination = s.destination
    BY <1>1, <2>7, SegmentTyped
  <2>10. PICK x \in Nat, y \in Nat, o \in Nat, z \in Nat :
             x = s.source_offset /\ y = s.size_bytes /\ o = r.offset /\ z = b
    <3>1. b \in Nat  BY <2>2, <2>3
    <3> QED  BY <2>3, <2>9, <3>1
  <2>11. /\ t.path = r.path /\ s.request_id = r.request_id
         /\ o <= x /\ x <= o + z /\ o + z < x + y
         /\ s.destination = Planner!Advance(r.destination, x - o)
    <3>1. /\ t.path = r.path /\ s.request_id = r.request_id
          /\ o <= x /\ s.destination = Proved!Advance(r.destination, x - o)
      BY <2>4, <2>8, <2>10 DEF Proved!PartOf
    <3>2. x <= o + z /\ o + z < x + y
      BY <2>4, <2>8, <2>10 DEF Proved!Holds, Proved!PieceEnd
    <3> QED  BY <2>3, <3>1, <3>2
  <2>12. o + z \in x .. x + y - 1 /\ x >= o /\ x - o \in Nat /\ y > 0  BY <2>11
  <2>13. Label(k) = "succeeded"
    BY <1>1, <2>1 DEF EffectInv, RanInv
  <2>14. CASE ViewTask(t)
    <3>1. GivenCount[k] = Len(t.segments)
      BY <2>7, <2>13, <2>14 DEF GivenCount, GivenOf, Label
    <3>2. <<k, n>> \in UpTo(GivenCount)
      <4>1. n <= Len(t.segments)  BY <1>1, <2>7, ViewsOfPlan
      <4>2. <<k, n>> \in ViewPlaces  BY PlacesOfViews
      <4> QED  BY <3>1, <4>1, <4>2 DEF UpTo
    <3>3. PICK g : Proved!ListedBy(g, ViewAt, out_views, UpTo(GivenCount))
      BY <1>1, <2>1 DEF EffectInv, ViewInv, Proved!Lists
    <3>4. PICK j \in DOMAIN out_views : g[j] = <<k, n>>
      BY <3>2, <3>3 DEF Proved!ListedBy
    <3>5. out_views[j] = ReadView(t, n)
      <4>1. out_views[j] = ViewAt[<<k, n>>]  BY <3>3, <3>4 DEF Proved!ListedBy
      <4>2. ViewAt[<<k, n>>] = ReadView(Task(k), n)  BY PlacesOfViews
      <4> QED  BY <2>7, <4>1, <4>2
    <3>6. /\ out_views[j].path = t.path /\ out_views[j].request_id = s.request_id
          /\ out_views[j].source_offset = x /\ out_views[j].size_bytes = y
      BY <2>7, <2>10, <3>5 DEF ReadView
    <3>7. ByteViewed(r, b)
      BY <2>10, <2>11, <2>12, <3>6 DEF ByteViewed
    <3> QED  BY <2>2, <3>7
  <2>15. CASE ~ViewTask(t)
    <3>1. CopiesOf(t) \subseteq copied
      BY <1>1, <2>1, <2>7, <2>13, <2>15 DEF EffectInv, CopyInv
    <3>2. PICK e : e = Copy(t, s.source_offset, s.size_bytes, s.destination)  OBVIOUS
    <3>3. s.destination # Planner!Null  BY <2>3, <2>11, <2>12
    <3>4. e \in CopiesOf(t)
      <4>1. CASE Len(t.segments) <= 1
        <5>1. e = Copy(t, t.offset, t.size_bytes, t.destination)  BY <2>9, <3>2, <4>1
        <5> QED  BY <4>1, <5>1 DEF CopiesOf
      <4>2. CASE ~(Len(t.segments) <= 1)
        <5>1. s.size_bytes > 0  BY <2>10, <2>12
        <5>2. n \in DOMAIN t.segments  BY <2>7
        <5> QED  BY <2>7, <3>2, <3>3, <4>2, <5>1, <5>2 DEF CopiesOf
      <4> QED  BY <4>1, <4>2
    <3>5. /\ e.path = t.path /\ e.source_offset = x /\ e.size_bytes = y
          /\ e.destination = s.destination
      BY <2>10, <3>2 DEF Copy
    <3>6. ByteCopied(r, b)
      BY <2>10, <2>11, <2>12, <3>1, <3>3, <3>4, <3>5 DEF ByteCopied
    <3> QED  BY <2>2, <3>6
  <2> QED  BY <2>7, <2>14, <2>15
<1> QED
  BY <1>1, PlanInvAlways, CoverAlways, DealtAlways, RunInvAlways, EffectInvAlways, PTL

-----------------------------------------------------------------------------
(* Views of a plan whose requests have different ids tell their places     *)
(* apart.                                                                  *)
LEMMA ViewsDiffer ==
    ASSUME Proved!PlanInv, Proved!CoverInv, Proved!AllDealt, pc = "planned",
           Proved!Distinct(requests),
           NEW c \in ViewPlaces, NEW d \in ViewPlaces, ViewAt[c] = ViewAt[d]
    PROVE  c = d
<1> SUFFICES ASSUME c # d PROVE FALSE
  OBVIOUS
<1>1. Proved!Exact(Pieces, requests, Proved!Accepted)
  BY DEF Proved!CoverInv, Pieces
<1>2. c \in DOMAIN Pieces /\ d \in DOMAIN Pieces  BY PiecesOfPlan
<1>3. Proved!PiecesApart(Pieces[c], Pieces[d]) /\ Pieces[c][2].size_bytes > 0
      /\ Pieces[d][2].size_bytes > 0
  BY <1>1, <1>2 DEF Proved!Exact
<1>4. ASSUME NEW e \in ViewPlaces
      PROVE  /\ Pieces[e][2].request_id = ViewAt[e].request_id
             /\ Pieces[e][2].source_offset = ViewAt[e].source_offset
             /\ Pieces[e][2].size_bytes = ViewAt[e].size_bytes
             /\ ViewAt[e].source_offset \in Nat /\ ViewAt[e].size_bytes \in Nat
  <2>1. PICK k \in Keys : \E n \in DOMAIN Task(k).segments : e = <<k, n>>  BY PlacesOfViews
  <2>2. PICK n \in DOMAIN Task(k).segments : e = <<k, n>>  BY <2>1
  <2>3. Pieces[e][2] = Task(k).segments[n]  BY <2>2, PiecesOfPlan
  <2>4. ViewAt[e] = ReadView(Task(k), n)  BY <2>2, PlacesOfViews
  <2>5. /\ ViewAt[e].request_id = Task(k).segments[n].request_id
        /\ ViewAt[e].source_offset = Task(k).segments[n].source_offset
        /\ ViewAt[e].size_bytes = Task(k).segments[n].size_bytes
    BY <2>4 DEF ReadView
  <2> QED  BY <2>3, <2>5, SegmentTyped
<1>5. PICK x \in Nat, y \in Nat : x = ViewAt[c].source_offset /\ y = ViewAt[c].size_bytes
  BY <1>4
<1>6. /\ Pieces[c][2].request_id = Pieces[d][2].request_id
      /\ Pieces[c][2].source_offset = x /\ Pieces[d][2].source_offset = x
      /\ Pieces[c][2].size_bytes = y /\ Pieces[d][2].size_bytes = y
  BY <1>4, <1>5
<1>7. x + y <= x
  BY <1>3, <1>6 DEF Proved!PiecesApart, Proved!PieceEnd
<1>8. y > 0  BY <1>3, <1>6
<1> QED  BY <1>7, <1>8

(* Where places are told apart, what lists them has each of them once.     *)
LEMMA ListedOnce ==
    ASSUME NEW A, NEW s, Proved!Lists(ViewAt, s, A),
           \A c, d \in A : ViewAt[c] = ViewAt[d] => c = d
    PROVE  /\ \A w \in A : Occurrences(ViewAt[w], s) = 1
           /\ \A n \in DOMAIN s : \E w \in A : s[n] = ViewAt[w]
<1>1. PICK g : Proved!ListedBy(g, ViewAt, s, A)  BY DEF Proved!Lists
<1>2. /\ \A j \in DOMAIN s : g[j] \in A /\ s[j] = ViewAt[g[j]]
      /\ \A j, k \in DOMAIN s : g[j] = g[k] => j = k
      /\ \A w \in A : \E k \in DOMAIN s : g[k] = w
  BY <1>1 DEF Proved!ListedBy
<1>3. ASSUME NEW w \in A PROVE Occurrences(ViewAt[w], s) = 1
  <2>1. PICK j \in DOMAIN s : g[j] = w  BY <1>2
  <2>2. {n \in DOMAIN s : s[n] = ViewAt[w]} = {j}
    <3>1. \A n \in DOMAIN s : s[n] = ViewAt[w] => n = j  BY <1>2, <2>1
    <3>2. s[j] = ViewAt[w]  BY <1>2, <2>1
    <3> QED  BY <3>1, <3>2
  <2> QED  BY <2>2, FS_Singleton DEF Occurrences
<1> QED  BY <1>2, <1>3

(* Every view is called back exactly once, after it is in the list, and    *)
(* none is handed out twice, by any number of workers, when no two         *)
(* requests have the same id: a view says by its id whose bytes it shows.  *)
THEOREM ViewsCalledBackAlways == Spec => [](Proved!Distinct(requests) => ViewsCalledBack)
<1>1. ASSUME Proved!PlanInv, Proved!CoverInv, Proved!AllDealt, RunInv, EffectInv,
             Proved!Distinct(requests)
      PROVE  ViewsCalledBack
  <2>1. CASE phase = "planning"
    <3>1. out_views = <<>> /\ callbacks = <<>>  BY <1>1, <2>1 DEF EffectInv, ViewInv
    <3>2. DOMAIN out_views = {} /\ DOMAIN callbacks = {}  BY <3>1
    <3> QED  BY <3>2 DEF ViewsCalledBack
  <2>2. CASE phase # "planning"
    <3>1. pc = "planned" /\ DOMAIN progress = Keys /\ RunType
      BY <1>1, <2>2 DEF RunInv, RunType
    <3>2. PICK A, B : A = UpTo(GivenCount) /\ B = UpTo(CalledCount)  OBVIOUS
    <3>3. Proved!Lists(ViewAt, out_views, A) /\ Proved!Lists(ViewAt, callbacks, B)
      BY <1>1, <2>2, <3>2 DEF EffectInv, ViewInv
    <3>4. ASSUME NEW k \in Keys
          PROVE  /\ GivenCount[k] \in Nat /\ CalledCount[k] \in Nat
                 /\ CalledCount[k] <= GivenCount[k]
                 /\ phase = "returned" => CalledCount[k] = GivenCount[k]
      <4>1. GivenCount[k] \in Nat /\ CalledCount[k] \in Nat
        BY <1>1, <3>1, CountsTyped
      <4>2. /\ GivenCount[k] = GivenOf(Task(k), progress[k])
            /\ CalledCount[k] = CalledOf(Task(k), progress[k])
        BY DEF GivenCount, CalledCount
      <4>3. PICK a \in Nat \ {0} : a = progress[k].segment
        BY <1>1, <3>1, StoodWell
      <4>4. CASE progress[k].label = "callback"
        <5>1. phase = "parallel"  BY <1>1, <3>1, <4>4 DEF EffectInv, ViewInv, Label
        <5>2. CASE ViewTask(Task(k))
          <6>1. GivenCount[k] = a /\ CalledCount[k] = a - 1
            BY <4>2, <4>3, <4>4, <5>2 DEF GivenOf, CalledOf
          <6> QED  BY <4>1, <5>1, <6>1
        <5>3. CASE ~ViewTask(Task(k))
          BY <4>1, <4>2, <5>1, <5>3 DEF GivenOf, CalledOf
        <5> QED  BY <5>2, <5>3
      <4>5. CASE progress[k].label # "callback"
        <5>1. GivenCount[k] = CalledCount[k]
          BY <4>2, <4>5 DEF GivenOf, CalledOf
        <5> QED  BY <4>1, <5>1
      <4> QED  BY <4>4, <4>5
    <3>5. ASSUME NEW k \in Keys, NEW n \in DOMAIN Task(k).segments
          PROVE  /\ <<k, n>> \in B => <<k, n>> \in A
                 /\ phase = "returned" => (<<k, n>> \in A => <<k, n>> \in B)
      <4>1. PICK a \in Nat, b \in Nat : a = GivenCount[k] /\ b = CalledCount[k] /\ b <= a
                                        /\ (phase = "returned" => a = b)
        BY <3>4
      <4>2. n \in Nat  BY <1>1, ViewsOfPlan
      <4>3. (<<k, n>> \in A <=> n <= a) /\ (<<k, n>> \in B <=> n <= b)
        BY <3>2, <4>1, PlacesOfViews DEF UpTo
      <4> QED  BY <4>1, <4>2, <4>3
    <3>6. A \subseteq ViewPlaces /\ B \subseteq ViewPlaces  BY <3>2 DEF UpTo
    <3>7. ASSUME NEW c \in ViewPlaces
          PROVE  (c \in B => c \in A) /\ (phase = "returned" => (c \in A => c \in B))
      <4>1. PICK k \in Keys : \E n \in DOMAIN Task(k).segments : c = <<k, n>>
        BY PlacesOfViews
      <4>2. PICK n \in DOMAIN Task(k).segments : c = <<k, n>>  BY <4>1
      <4> QED  BY <3>5, <4>2
    <3>8. \A c, d \in ViewPlaces : ViewAt[c] = ViewAt[d] => c = d
      BY <1>1, <3>1, ViewsDiffer
    <3>9. /\ \A w \in A : Occurrences(ViewAt[w], out_views) = 1
          /\ \A n \in DOMAIN out_views : \E w \in A : out_views[n] = ViewAt[w]
      BY <3>3, <3>6, <3>8, ListedOnce
    <3>10. /\ \A w \in B : Occurrences(ViewAt[w], callbacks) = 1
           /\ \A n \in DOMAIN callbacks : \E w \in B : callbacks[n] = ViewAt[w]
      BY <3>3, <3>6, <3>8, ListedOnce
    <3>11. ASSUME NEW n \in DOMAIN callbacks
           PROVE  Occurrences(callbacks[n], callbacks) <= Occurrences(callbacks[n], out_views)
      <4>1. PICK w \in B : callbacks[n] = ViewAt[w]  BY <3>10
      <4>2. w \in A  BY <3>6, <3>7
      <4>3. Occurrences(ViewAt[w], callbacks) = 1 /\ Occurrences(ViewAt[w], out_views) = 1
        BY <3>9, <3>10, <4>2
      <4> QED  BY <4>1, <4>3
    <3>12. ASSUME NEW n \in DOMAIN out_views
           PROVE  /\ Occurrences(out_views[n], out_views) = 1
                  /\ phase = "returned" => Occurrences(out_views[n], callbacks) = 1
      <4>1. PICK w \in A : out_views[n] = ViewAt[w]  BY <3>9
      <4>2. phase = "returned" => w \in B  BY <3>6, <3>7
      <4> QED  BY <3>9, <3>10, <4>1, <4>2
    <3> QED  BY <3>11, <3>12 DEF ViewsCalledBack
  <2> QED  BY <2>1, <2>2
<1> QED
  BY <1>1, PlanInvAlways, CoverAlways, DealtAlways, RunInvAlways, EffectInvAlways, PTL
=============================================================================
