-------------------------- MODULE FileServiceProofs --------------------------
(***************************************************************************)
(* Theorems about FileService: what its mapped views point to.             *)
(***************************************************************************)
EXTENDS FileService, TLAPS

(* A view as push_view makes it of a segment.                              *)
ViewOf(segment, aligned_offset) ==
    [source_offset |-> segment.offset, size |-> segment.size,
     data |-> segment.offset - aligned_offset]

(* Where an open bundle stands: its base is on the granularity, its file   *)
(* is open, and its views are of the task's segments and come only after   *)
(* the mapping.                                                            *)
BundleInv(b) ==
    /\ DOMAIN b = {"label", "task", "mapped_base", "aligned_offset", "mapped_size", "next", "views"}
    /\ b.label \in {"section", "map", "push"}
    /\ b.task \in ViewTasks
    /\ b.aligned_offset = (b.task.offset \div granularity) * granularity
    /\ b.next \in Nat \ {0}
    /\ b.label # "push" => b.views = {}
    /\ b.label = "push" => b.mapped_base = TRUE /\ b.mapped_size = MappedSize(b)
    /\ \A view \in b.views :
          \E n \in DOMAIN b.task.segments : view = ViewOf(b.task.segments[n], b.aligned_offset)

MappingInv == bundle = NoBundle \/ (BundleInv(bundle) /\ isOpen(FileHandle))

KeepsFileHandle == isOpen(FileHandle) => isOpen(FileHandle)'
-----------------------------------------------------------------------------
(* Nobody but the mapper closes its file.                                  *)
LEMMA OpenKeeps ==
    ASSUME NEW o, NEW path, NEW options, open(o, path, options) PROVE KeepsFileHandle
BY DEF open, KeepsFileHandle, isOpen, With

LEMMA CloseKeeps ==
    ASSUME NEW os, FileHandle \notin os, close(os) PROVE KeepsFileHandle
BY DEF close, KeepsFileHandle, isOpen, Without

LEMMA MoveKeeps ==
    ASSUME NEW source, NEW target, source # FileHandle, move(source, target)
    PROVE  KeepsFileHandle
BY DEF move, KeepsFileHandle, isOpen, With, Without

LEMMA UnchangedKeeps == ASSUME UNCHANGED native_handle PROVE KeepsFileHandle
BY DEF KeepsFileHandle, isOpen

LEMMA SessionKeeps == ASSUME SessionStep PROVE KeepsFileHandle
<1> USE DEF FileValue, OpenResult, FileHandle, SessionThread, MapperThread, handleVars
<1>1. CASE start
  <2>1. CASE StartStops  BY <2>1, CloseKeeps DEF StartStops
  <2>2. CASE StartOpens  BY <2>2, OpenKeeps DEF StartOpens
  <2>3. CASE StartCannotOpen  BY <2>3, UnchangedKeeps DEF StartCannotOpen
  <2>4. CASE StartAdopts  BY <2>4, MoveKeeps DEF StartAdopts, Adopt
  <2>5. CASE StartRejects  BY <2>5, CloseKeeps DEF StartRejects
  <2> QED  BY <1>1, <2>1, <2>2, <2>3, <2>4, <2>5 DEF start
<1>2. CASE stop  BY <1>2, CloseKeeps DEF stop
<1>3. CASE pause \/ resume  BY <1>3, UnchangedKeeps DEF pause, resume
<1>4. CASE readNext
  BY <1>4, UnchangedKeeps DEF readNext, ReadBegins, ReadFails, ReadAdvances, ReadAdvancesBy,
     ReadStoresEnd
<1> QED  BY <1>1, <1>2, <1>3, <1>4 DEF SessionStep

LEMMA HelperKeeps == ASSUME HelperStep PROVE KeepsFileHandle
<1> USE DEF HelperFile, FileHandle, HelperThread, MapperThread, handleVars
<1>1. CASE readFileToSpan  BY <1>1, OpenKeeps DEF readFileToSpan
<1>2. CASE SizeMatches \/ SizeMismatch \/ SizeFails \/ HelperRead
  BY <1>2, UnchangedKeeps DEF SizeMatches, SizeMismatch, SizeFails, HelperRead
<1>3. CASE HelperReturns  BY <1>3, CloseKeeps DEF HelperReturns
<1> QED  BY <1>1, <1>2, <1>3 DEF HelperStep

LEMMA WriterKeeps == ASSUME NEW active, WriterStep(active) PROVE KeepsFileHandle
<1> USE DEF WriterFile, FileHandle, MapperThread, handleVars
<1>1. CASE WriterOpen  BY <1>1, OpenKeeps DEF WriterOpen
<1>2. CASE WriterClose  BY <1>2, CloseKeeps DEF WriterClose
<1>3. CASE resize  BY <1>3, UnchangedKeeps DEF resize
<1>4. ASSUME NEW c, writeExactAt(c) \/ WriteReturns(c) PROVE KeepsFileHandle
  BY <1>4, UnchangedKeeps DEF writeExactAt, WriteReturns
<1> QED  BY <1>1, <1>2, <1>3, <1>4 DEF WriterStep

LEMMA TransferKeeps == ASSUME NEW c, TransferStep(c) PROVE KeepsFileHandle
BY UnchangedKeeps DEF TransferStep, doRead, doWrite, IoFails, handleVars

(* The handles of a thread's pool are not the mapper's.                    *)
LEMMA PoolObjects ==
    ASSUME NEW t \in PoolThreads, NEW path
    PROVE  Entry(t, path) # FileHandle /\ Miss(t) # FileHandle
BY ClientsAssumption DEF Entry, Miss, FileHandle, MapperThread

LEMMA SchedulerKeeps == ASSUME NEW active, SchedulerStep(active) PROVE KeepsFileHandle
<1> USE DEF handleVars
<1>1. ASSUME NEW t \in PoolThreads, TaskStep(t) PROVE KeepsFileHandle
  <2>1. CASE TakeTask(t)  BY <2>1, UnchangedKeeps DEF TakeTask
  <2>2. CASE AskPool(t)
    BY <2>2, OpenKeeps, UnchangedKeeps DEF AskPool, getReadHandle, HitEntry, MissOpens, MissFails
  <2>3. CASE PoolGoesOn(t)
    <3>1. CASE EvictTail(t)  BY <3>1, CloseKeeps, PoolObjects DEF EvictTail
    <3>2. CASE InsertEntry(t)  BY <3>2, MoveKeeps, PoolObjects DEF InsertEntry
    <3> QED  BY <2>3, <3>1, <3>2 DEF PoolGoesOn
  <2>4. CASE ReadTask(t) \/ TaskReturns(t)  BY <2>4, UnchangedKeeps DEF ReadTask, TaskReturns
  <2> QED  BY <1>1, <2>1, <2>2, <2>3, <2>4 DEF TaskStep
<1>2. ASSUME NEW u \in Users, UserStep(u) PROVE KeepsFileHandle
  BY <1>2, UnchangedKeeps DEF UserStep, RunStep, initialize, get, ShutdownBegins,
     runRequests, Dispatch, RunReturns
<1>3. ASSUME NEW u \in Users, ShutdownResets(u) PROVE KeepsFileHandle
  <2>1. PICK ts \in SUBSET PoolThreads : clearThreads(ts)
    BY <1>3, ClientsAssumption DEF ShutdownResets
  <2> QED  BY <2>1, CloseKeeps, PoolObjects DEF clearThreads
<1> QED  BY <1>1, <1>2, <1>3 DEF SchedulerStep

-----------------------------------------------------------------------------
(* The mapper's own steps.                                                 *)
LEMMA PushStep ==
    ASSUME BundleInv(bundle), isOpen(FileHandle), PushMappedView
    PROVE  BundleInv(bundle') /\ isOpen(FileHandle)'
<1> DEFINE segment == bundle.task.segments[bundle.next]
           view == ViewOf(segment, bundle.aligned_offset)
<1>1. /\ bundle' = [bundle EXCEPT !.views = @ \cup {view}, !.next = @ + 1]
      /\ bundle.label = "push" /\ bundle.next <= Len(bundle.task.segments)
      /\ UNCHANGED native_handle
  BY DEF PushMappedView, Bundle, ViewOf, handleVars
<1>2. bundle.next \in DOMAIN bundle.task.segments
  BY <1>1, ViewTasksAssumption DEF BundleInv
<1>3. /\ bundle'.views = bundle.views \cup {view}
      /\ bundle'.next = bundle.next + 1
      /\ DOMAIN bundle' = DOMAIN bundle
      /\ \A f \in DOMAIN bundle \ {"views", "next"} : bundle'[f] = bundle[f]
  BY <1>1 DEF BundleInv
<1>4. /\ bundle'.label = bundle.label /\ bundle'.task = bundle.task
      /\ bundle'.mapped_base = bundle.mapped_base /\ bundle'.mapped_size = bundle.mapped_size
      /\ bundle'.aligned_offset = bundle.aligned_offset
  BY <1>3 DEF BundleInv
<1> HIDE DEF view
<1>5. \A v \in bundle'.views :
        \E n \in DOMAIN bundle'.task.segments :
            v = ViewOf(bundle'.task.segments[n], bundle'.aligned_offset)
  <2>1. view = ViewOf(bundle.task.segments[bundle.next], bundle.aligned_offset)  BY DEF view
  <2> QED  BY <1>2, <1>3, <1>4, <2>1 DEF BundleInv
<1>6. isOpen(FileHandle)'  BY <1>1 DEF isOpen
<1>7. DOMAIN bundle' = DOMAIN bundle /\ bundle'.next \in Nat \ {0}
  BY <1>3 DEF BundleInv
<1>8. MappedSize(bundle') = MappedSize(bundle)  BY <1>4 DEF MappedSize
<1> QED  BY <1>1, <1>4, <1>5, <1>6, <1>7, <1>8 DEF BundleInv

(* The other steps that keep the bundle open change no view, or take one   *)
(* away.                                                                   *)
LEMMA RelabelStep ==
    ASSUME BundleInv(bundle), isOpen(FileHandle),
           CreateFileMapping \/ MapViewOfFile \/ DropView
    PROVE  BundleInv(bundle') /\ isOpen(FileHandle)'
<1>1. CASE CreateFileMapping
  <2>1. /\ bundle' = [bundle EXCEPT !.label = "map"] /\ bundle.label = "section"
        /\ native_handle' = With(native_handle, MappingHandle, NextHandle)
    BY <1>1 DEF CreateFileMapping, Bundle
  <2> QED  BY <2>1 DEF BundleInv, isOpen, With
<1>2. CASE MapViewOfFile
  <2>1. /\ bundle' = [bundle EXCEPT !.label = "push", !.mapped_base = TRUE,
                                    !.mapped_size = MappedSize(bundle)]
        /\ bundle.label = "map" /\ UNCHANGED native_handle
    BY <1>2 DEF MapViewOfFile, Bundle, handleVars
  <2> QED  BY <2>1 DEF BundleInv, isOpen, MappedSize
<1>3. CASE DropView
  <2>1. PICK view \in bundle.views : bundle' = [bundle EXCEPT !.views = @ \ {view}]
    BY <1>3 DEF DropView
  <2>2. UNCHANGED native_handle  BY <1>3 DEF DropView, handleVars
  <2> QED  BY <2>1, <2>2 DEF BundleInv, isOpen, MappedSize
<1> QED  BY <1>1, <1>2, <1>3

LEMMA MapperInvStep == ASSUME MappingInv, MapperStep PROVE MappingInv'
<1>1. CASE OpenMappedFile
  <2>1. PICK task \in ViewTasks :
          /\ open(FileHandle, task.path, OpenOptions("read", "openExisting", {"read"}))
          /\ bundle' = [label |-> "section", task |-> task, mapped_base |-> FALSE,
                        aligned_offset |-> (task.offset \div granularity) * granularity,
                        mapped_size |-> 0, next |-> 1, views |-> {}]
    BY <1>1 DEF OpenMappedFile
  <2>2. isOpen(FileHandle)'  BY <2>1 DEF open, isOpen, With
  <2>3. BundleInv(bundle')  BY <2>1 DEF BundleInv
  <2> QED  BY <2>2, <2>3 DEF MappingInv, BundleInv, isOpen, MappedSize, ViewOf
<1>2. CASE MappingFails \/ Unmap  BY <1>2 DEF MappingFails, Unmap, MappingInv
<1>3. CASE CreateFileMapping \/ MapViewOfFile \/ DropView \/ PushMappedView
  <2>1. bundle # NoBundle
    BY <1>3 DEF CreateFileMapping, MapViewOfFile, DropView, PushMappedView, Bundle, NoBundle
  <2>2. BundleInv(bundle') /\ isOpen(FileHandle)'
    BY <1>3, <2>1, RelabelStep, PushStep DEF MappingInv
  <2> QED  BY <2>2 DEF MappingInv, BundleInv, isOpen, MappedSize, ViewOf
<1> QED  BY <1>1, <1>2, <1>3 DEF MapperStep

-----------------------------------------------------------------------------
(* The invariant holds at first and is kept by every step of anybody.      *)
LEMMA MappingInvInit == Init => MappingInv
BY DEF Init, MapperInit, MappingInv

LEMMA MappingInvNext == MappingInv /\ [Next]_vars => MappingInv'
<1> SUFFICES ASSUME MappingInv, [Next]_vars PROVE MappingInv'
  OBVIOUS
<1>1. CASE Mapper_  BY <1>1, MapperInvStep DEF Mapper_
<1>2. ASSUME UNCHANGED bundle, KeepsFileHandle PROVE MappingInv'
  BY <1>2 DEF MappingInv, KeepsFileHandle, BundleInv, isOpen, MappedSize, ViewOf
<1>3. CASE Session_  BY <1>2, <1>3, SessionKeeps DEF Session_
<1>4. CASE Helper_  BY <1>2, <1>4, HelperKeeps DEF Helper_
<1>5. CASE Scheduler_  BY <1>2, <1>5, SchedulerKeeps DEF Scheduler_
<1>6. CASE Writer_  BY <1>2, <1>6, WriterKeeps DEF Writer_
<1>7. ASSUME NEW c \in Clients, Transfer_(c) PROVE MappingInv'
  BY <1>2, <1>7, TransferKeeps DEF Transfer_
<1>8. CASE UNCHANGED vars  BY <1>2, <1>8, UnchangedKeeps DEF vars, handleVars
<1> QED  BY <1>1, <1>3, <1>4, <1>5, <1>6, <1>7, <1>8 DEF Next

(* The largest multiple of the granularity below an offset.                *)
LEMMA Aligned ==
    ASSUME NEW offset \in Nat
    PROVE  LET aligned == (offset \div granularity) * granularity
           IN  aligned \in Nat /\ aligned <= offset /\ aligned % granularity = 0
<1>1. granularity \in Nat \ {0}  BY GranularityAssumption
<1>2. PICK q \in Nat : q = offset \div granularity  BY <1>1
<1>3. q * granularity \in Nat /\ q * granularity <= offset  BY <1>1, <1>2
<1>4. (q * granularity) % granularity = 0  BY <1>1, <1>2
<1> QED  BY <1>2, <1>3, <1>4

LEMMA ElementOf == ASSUME NEW S, NEW s \in Seq(S), NEW n \in DOMAIN s PROVE s[n] \in S
OBVIOUS

LEMMA MappingInvImplies == MappingInv => ViewsWithinMapping
<1> SUFFICES ASSUME BundleInv(bundle), isOpen(FileHandle), NEW view \in bundle.views
             PROVE  /\ bundle.mapped_base /\ isOpen(FileHandle)
                    /\ bundle.aligned_offset % granularity = 0
                    /\ bundle.aligned_offset + view.data = view.source_offset
                    /\ view.data >= 0 /\ view.data + view.size <= bundle.mapped_size
  BY DEF MappingInv, ViewsWithinMapping, Bundle, NoBundle
<1> DEFINE task == bundle.task
<1>1. PICK n \in DOMAIN task.segments : view = ViewOf(task.segments[n], bundle.aligned_offset)
  BY DEF BundleInv
<1> DEFINE segment == task.segments[n]
<1>2. /\ task.offset \in Nat /\ task.size \in Nat
      /\ segment.offset \in Nat /\ segment.size \in Nat
      /\ task.offset <= segment.offset
      /\ segment.offset + segment.size <= task.offset + task.size
  <2>1. task \in ViewTasks  BY DEF BundleInv
  <2>2. task.segments \in Seq([offset : Nat, size : Nat])  BY <2>1, ViewTasksAssumption
  <2>3. segment \in [offset : Nat, size : Nat]  BY <1>1, <2>2, ElementOf
  <2> QED  BY <1>1, <2>1, <2>3, ViewTasksAssumption
<1>3. /\ bundle.aligned_offset \in Nat /\ bundle.aligned_offset <= task.offset
      /\ bundle.aligned_offset % granularity = 0
  BY <1>2, Aligned DEF BundleInv
<1>4. bundle.label = "push"  BY DEF BundleInv
<1>5. /\ bundle.mapped_base = TRUE
      /\ bundle.mapped_size = task.size + (task.offset - bundle.aligned_offset)
  BY <1>4 DEF BundleInv, MappedSize
<1>6. /\ view.source_offset = segment.offset /\ view.size = segment.size
      /\ view.data = segment.offset - bundle.aligned_offset
  BY <1>1 DEF ViewOf
<1> HIDE DEF task, segment
<1> QED  BY <1>2, <1>3, <1>5, <1>6

(* Every view that somebody still holds lies within a mapping that is      *)
(* there and points to the bytes of its own range, whatever else the       *)
(* process opens and closes meanwhile (openMapping, push_view).            *)
THEOREM ViewsWithinMappingAlways == Spec => []ViewsWithinMapping
BY MappingInvInit, MappingInvNext, MappingInvImplies, PTL DEF Spec
=============================================================================
