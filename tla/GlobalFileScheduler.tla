------------------------ MODULE GlobalFileScheduler ------------------------
(***************************************************************************)
(* Center/File/GlobalFileScheduler.hpp: the process has one scheduler,     *)
(* made when it is first asked for and destroyed by shutdown, which keeps  *)
(* everybody else out while it waits.  Users run one task each through it. *)
(* With ThreadCenter its workers take the task, and the pools of handles   *)
(* are theirs and end with them; without, the caller's thread reads.       *)
(***************************************************************************)
EXTENDS ReadHandlePool

CONSTANTS
    Users,
    Workers,              \* the worker threads of a scheduler
    Capacities,           \* handle_pool_capacity of the configurations given
    DefaultCapacity,      \* and of PlannerConfig{}
    TaskSizes             \* how many bytes of its path a task reads

ASSUME SchedulerAssumption ==
    TaskSizes \subseteq Nat /\ Capacities \subseteq Nat /\ DefaultCapacity \in Nat

VARIABLES
    has_thread_center,    \* the build
    instance,             \* the capacity of the scheduler, or none
    owner,                \* who holds the mutex across steps
    user,                 \* user -> where it stands, and what its task reads
    job                   \* thread -> the user whose task it runs, or nobody

NoScheduler == [exists |-> FALSE]
FileReadScheduler(capacity) == [exists |-> TRUE, capacity |-> capacity]
Nobody == "nobody"
NoRun  == [label |-> "idle", path |-> "none", size |-> 0]

User(u, label) == user[u].label = label
UserGoes(u, label) == user' = [user EXCEPT ![u].label = label]
MutexFree == owner = Nobody

-----------------------------------------------------------------------------
initialize(u) ==
    /\ User(u, "idle") /\ MutexFree /\ ~instance.exists
    /\ \E capacity \in Capacities : instance' = FileReadScheduler(capacity)
    /\ UNCHANGED <<handleVars, io, pool, owner, user, job>>

get(u) ==
    /\ User(u, "idle") /\ MutexFree
    /\ instance' = IF instance.exists THEN instance ELSE FileReadScheduler(DefaultCapacity)
    /\ UserGoes(u, "got")
    /\ UNCHANGED <<handleVars, io, pool, owner, job>>

(* A run: begun, while the plan is made; queued with ThreadCenter; running;*)
(* and returning, once its task has returned and before the call has.      *)
runRequests(u) ==
    /\ User(u, "got")
    /\ \E path \in Paths, size \in TaskSizes :
          user' = [user EXCEPT ![u] = [label |-> "begun", path |-> path, size |-> size]]
    /\ UNCHANGED <<handleVars, io, pool, instance, owner, job>>

(* The task is dispatched, or the user's own thread runs it in sequence.   *)
Dispatch(u) ==
    /\ User(u, "begun")
    /\ IF has_thread_center
       THEN UserGoes(u, "queued") /\ UNCHANGED job
       ELSE UserGoes(u, "running") /\ job' = [job EXCEPT ![u] = u]
    /\ UNCHANGED <<handleVars, io, pool, instance, owner>>

RunReturns(u) ==
    /\ User(u, "returning")
    /\ user' = [user EXCEPT ![u] = NoRun]
    /\ UNCHANGED <<handleVars, io, pool, instance, owner, job>>

-----------------------------------------------------------------------------
InRun(u) == user[u].label \in {"begun", "queued", "running", "returning"}
Dispatched(u) == has_thread_center /\ (User(u, "queued") \/ User(u, "running"))

(* Tasks dispatched are all it waits for; without ThreadCenter, nothing.   *)
waitIdle == \A u \in Users : ~Dispatched(u)

(* The users' duty, which nothing in the code enforces: when the scheduler *)
(* is destroyed, no run that waitIdle does not wait for is short of its    *)
(* return; the reference it goes through would dangle.                     *)
NoRunUnwaited == \A u \in Users : InRun(u) => Dispatched(u)

ShutdownBegins(u) ==
    /\ User(u, "idle") /\ MutexFree /\ instance.exists
    /\ owner' = u /\ UserGoes(u, "shutdown")
    /\ UNCHANGED <<handleVars, io, pool, instance, job>>

(* Nor are the references handed out and not used so far used any more.    *)
Dangling(u) ==
    user' = [v \in Users |-> IF v = u \/ User(v, "got")
                             THEN [user[v] EXCEPT !.label = "idle"] ELSE user[v]]

(* Mutants of ShutdownResets: the scheduler is kept; nobody waits for the  *)
(* tasks.                                                                  *)
ShutdownForgets(u) ==
    /\ User(u, "shutdown") /\ waitIdle /\ NoRunUnwaited
    /\ owner' = Nobody /\ Dangling(u)
    /\ UNCHANGED <<handleVars, io, pool, instance, job>>
ShutdownAtOnce(u) ==
    /\ User(u, "shutdown") /\ NoRunUnwaited
    /\ instance' = NoScheduler
    /\ clearThreads(IF has_thread_center THEN Workers ELSE {})
    /\ owner' = Nobody /\ Dangling(u)
    /\ UNCHANGED <<io, job>>

(* waitIdle, then the scheduler is destroyed, and its workers end.         *)
ShutdownResets(u) ==
    /\ User(u, "shutdown") /\ waitIdle /\ NoRunUnwaited
    /\ instance' = NoScheduler
    /\ clearThreads(IF has_thread_center THEN Workers ELSE {})
    /\ owner' = Nobody /\ Dangling(u)
    /\ UNCHANGED <<io, job>>

-----------------------------------------------------------------------------
(* A thread runs the task of a user: executeDirectReadTask.                *)
TakeTask(t) ==
    /\ has_thread_center /\ t \in Workers /\ job[t] = Nobody
    /\ \E u \in Users : /\ User(u, "queued") /\ UserGoes(u, "running")
                        /\ job' = [job EXCEPT ![t] = u]
    /\ UNCHANGED <<handleVars, io, pool, instance, owner>>

taskVars == <<instance, owner, user, job>>

AskPool(t) ==
    /\ job[t] # Nobody /\ io[t] = NoTransfer
    /\ getReadHandle(t, user[job[t]].path, instance.capacity)
    /\ UNCHANGED taskVars

PoolGoesOn(t) == (EvictTail(t) \/ InsertEntry(t)) /\ UNCHANGED taskVars

ReadTask(t) ==
    /\ Pool(t, "hit") \/ Pool(t, "inserted")
    /\ io[t] = NoTransfer
    /\ readAt(t, Entry(t, pool[t].path), 0, user[job[t]].size)
    /\ UNCHANGED <<handleVars, pool, taskVars>>

(* The status goes to the run, be it an error or not.                      *)
TaskReturns(t) ==
    /\ job[t] # Nobody
    /\ Pool(t, "failed") \/ Returned(t)
    /\ Forget(t)
    /\ pool' = [pool EXCEPT ![t].label = "idle", ![t].path = "none", ![t].capacity = 0]
    /\ UserGoes(job[t], "returning")
    /\ job' = [job EXCEPT ![t] = Nobody]
    /\ UNCHANGED <<handleVars, instance, owner>>

TaskStep(t) == TakeTask(t) \/ AskPool(t) \/ PoolGoesOn(t) \/ ReadTask(t) \/ TaskReturns(t)
RunStep(u) == Dispatch(u) \/ RunReturns(u)
UserStep(u) == \/ initialize(u) \/ get(u) \/ ShutdownBegins(u)
               \/ runRequests(u) \/ RunStep(u)

SchedulerStep(active) ==
    /\ \/ \E t \in PoolThreads \cap active : TaskStep(t)
       \/ \E u \in Users \cap active : UserStep(u) \/ ShutdownResets(u)
    /\ UNCHANGED has_thread_center

SchedulerInit ==
    /\ PoolInit
    /\ has_thread_center \in BOOLEAN
    /\ instance = NoScheduler /\ owner = Nobody
    /\ user = [u \in Users |-> NoRun]
    /\ job = [t \in PoolThreads |-> Nobody]

-----------------------------------------------------------------------------
(* shutdown returns, though it keeps the mutex while it waits: no scheduler*)
(* is left, and with ThreadCenter no handle in its workers' pools.         *)
ShutdownReturns ==
    \A u \in Users :
        User(u, "shutdown") ~> /\ ~instance.exists
                               /\ has_thread_center => \A t \in Workers : pool[t].entries = {}
=============================================================================
