----------------------------- MODULE MappedView -----------------------------
(***************************************************************************)
(* The mappings of Center/File/FileReadScheduler.hpp: a view of a file     *)
(* points into a mapping that every view of the task owns together; the    *)
(* mapping and its two handles go with the last of them.  One thread maps; *)
(* the views may be dropped by anybody at any time.                        *)
(***************************************************************************)
EXTENDS PlatformFile

CONSTANTS
    ViewTasks,            \* mapped tasks: path, offset, size and segments
    granularity           \* dwAllocationGranularity

ASSUME GranularityAssumption == granularity \in Nat \ {0}
(* What the planner makes of a task: its segments lie in its range.        *)
ASSUME ViewTasksAssumption ==
    \A task \in ViewTasks :
        /\ task.offset \in Nat /\ task.size \in Nat
        /\ task.segments \in Seq([offset : Nat, size : Nat])
        /\ \A n \in DOMAIN task.segments :
              LET segment == task.segments[n]
              IN  /\ task.offset <= segment.offset
                  /\ segment.offset + segment.size <= task.offset + task.size

VARIABLE bundle

MapperThread  == "viewer"
FileHandle    == <<MapperThread, "file_handle">>
MappingHandle == <<MapperThread, "mapping_handle">>

Bundle(label) == bundle.label = label
NoBundle == [label |-> "idle"]

(* openMapping: the file, the section, the view.  Each failure closes what *)
(* was opened.                                                             *)
OpenMappedFile ==
    /\ Bundle("idle")
    /\ \E task \in ViewTasks :
          /\ open(FileHandle, task.path, OpenOptions("read", "openExisting", {"read"}))
          /\ bundle' = [label |-> "section", task |-> task, mapped_base |-> FALSE,
                        aligned_offset |-> (task.offset \div granularity) * granularity,
                        mapped_size |-> 0, next |-> 1, views |-> {}]

(* A section of an empty file is refused.                                  *)
CreateFileMapping ==
    /\ Bundle("section") /\ sizeOf(FileHandle) > 0 /\ FreeHandles # {}
    /\ native_handle' = With(native_handle, MappingHandle, NextHandle)
    /\ open_handles' = With(open_handles, NextHandle,
          [path |-> PathOf(FileHandle), access |-> {}, share |-> {"read", "write", "remove"},
           seen |-> <<>>])
    /\ bundle' = [bundle EXCEPT !.label = "map"]
    /\ UNCHANGED disk

(* Mutant of MappedSize: the distance to the aligned offset is forgotten.  *)
MappedSizeUnbiased(b) == b.task.size
MappedSize(b) == b.task.size + (b.task.offset - b.aligned_offset)

MapViewOfFile ==
    /\ Bundle("map")
    /\ bundle.aligned_offset + MappedSize(bundle) <= sizeOf(FileHandle)
    /\ bundle' = [bundle EXCEPT !.label = "push", !.mapped_base = TRUE,
                                !.mapped_size = MappedSize(bundle)]
    /\ UNCHANGED handleVars

MappingFails ==
    /\ Bundle("section") \/ Bundle("map")
    /\ close({MappingHandle, FileHandle})
    /\ bundle' = NoBundle

(* push_view: data is where the view begins, counted from mapped_base.     *)
PushMappedView ==
    /\ Bundle("push") /\ bundle.next <= Len(bundle.task.segments)
    /\ LET segment == bundle.task.segments[bundle.next]
           view == [source_offset |-> segment.offset, size |-> segment.size,
                    data |-> segment.offset - bundle.aligned_offset]
       IN  bundle' = [bundle EXCEPT !.views = @ \cup {view}, !.next = @ + 1]
    /\ UNCHANGED handleVars

DropView ==
    /\ bundle.label = "push"
    /\ \E view \in bundle.views : bundle' = [bundle EXCEPT !.views = @ \ {view}]
    /\ UNCHANGED handleVars

(* The last owner is gone, the task's own pointer included.                *)
Unmap ==
    /\ Bundle("push") /\ bundle.next > Len(bundle.task.segments) /\ bundle.views = {}
    /\ close({MappingHandle, FileHandle})
    /\ bundle' = NoBundle

MapperStep ==
    /\ \/ OpenMappedFile \/ CreateFileMapping \/ MapViewOfFile \/ MappingFails
       \/ PushMappedView \/ DropView \/ Unmap
    /\ UNCHANGED io

MapperInit == bundle = NoBundle

-----------------------------------------------------------------------------
(* Every view that somebody still holds lies within a mapping that is      *)
(* there, with the file's handle open beneath it, and points to the bytes  *)
(* of its own range, wherever the task begins between two multiples of the *)
(* granularity (openMapping, push_view, MappingBundle).                    *)
ViewsWithinMapping ==
    ~Bundle("idle") =>
        \A view \in bundle.views :
            /\ bundle.mapped_base /\ isOpen(FileHandle)
            /\ bundle.aligned_offset % granularity = 0
            /\ bundle.aligned_offset + view.data = view.source_offset
            /\ view.data >= 0 /\ view.data + view.size <= bundle.mapped_size
=============================================================================
