---------------------------- MODULE FileService ----------------------------
(***************************************************************************)
(* A process that uses the file layer: a streaming session, a whole-file   *)
(* read, mapped views, users of the global scheduler with the pools of     *)
(* their threads, and threads that write, over one disk and one table of   *)
(* handles.                                                                *)
(***************************************************************************)
EXTENDS StreamReadSession, BinaryReadHelper, MappedView, GlobalFileScheduler

CONSTANT Programs        \* which clients there are, the build, the file system

ASSUME ClientsAssumption ==
    /\ PoolThreads = Users \cup Workers /\ Users \cap Workers = {}
    /\ {SessionThread, HelperThread, MapperThread, "writer"} \cap PoolThreads = {}
    /\ PoolThreads \cup {SessionThread, HelperThread, MapperThread} \subseteq Clients
    /\ Writers \cap (PoolThreads \cup {SessionThread, HelperThread, MapperThread}) = {}
    /\ Nobody \notin Users
    /\ \A program \in Programs : /\ program.clients \subseteq Clients
                                 /\ program.has_thread_center \in BOOLEAN
                                 /\ program.shares_enforced \in Sharing

VARIABLE clients

schedulerVars == <<pool, has_thread_center, taskVars>>
vars == <<handleVars, io, shares_enforced, session, helper, bundle, schedulerVars, clients>>

Init ==
    /\ PlatformInit /\ SessionInit /\ HelperInit /\ MapperInit /\ SchedulerInit
    /\ \E program \in Programs :
          /\ clients = program.clients
          /\ has_thread_center = program.has_thread_center
          /\ shares_enforced = program.shares_enforced

Session_ ==
    /\ SessionThread \in clients /\ SessionStep
    /\ UNCHANGED <<shares_enforced, helper, bundle, schedulerVars, clients>>
Helper_ ==
    /\ HelperThread \in clients /\ HelperStep
    /\ UNCHANGED <<shares_enforced, session, bundle, schedulerVars, clients>>
Mapper_ ==
    /\ MapperThread \in clients /\ MapperStep
    /\ UNCHANGED <<shares_enforced, session, helper, schedulerVars, clients>>
Scheduler_ ==
    /\ SchedulerStep(clients)
    /\ UNCHANGED <<shares_enforced, session, helper, bundle, clients>>
Writer_ ==
    /\ Writers \cap clients # {} /\ WriterStep(clients)
    /\ UNCHANGED <<shares_enforced, session, helper, bundle, schedulerVars, clients>>
Transfer_(c) ==
    /\ TransferStep(c)
    /\ UNCHANGED <<shares_enforced, session, helper, bundle, schedulerVars, clients>>

Next == \/ Session_ \/ Helper_ \/ Mapper_ \/ Scheduler_ \/ Writer_
        \/ \E c \in Clients : Transfer_(c)

(* A thread that is in a run, a task or a shutdown goes on with it once it *)
(* is let, and the system with the call the thread is in.  Nobody has to   *)
(* begin anything.                                                         *)
ThreadGoesOn(t) ==
    \/ Transfer_(t)
    \/ Scheduler_ /\ \/ TaskStep(t)
                     \/ t \in Users /\ (RunStep(t) \/ ShutdownResets(t))
Fairness == \A t \in PoolThreads : WF_vars(ThreadGoesOn(t))

Spec == Init /\ [][Next]_vars /\ Fairness

-----------------------------------------------------------------------------
TypeOK ==
    /\ DOMAIN open_handles \subseteq Handles
    /\ \A h \in DOMAIN open_handles :
          /\ open_handles[h].path \in DOMAIN disk
          /\ open_handles[h].access \subseteq {"read", "write"}
    /\ \A c \in Clients :
          io[c].kind # "none" =>
              /\ io[c].total_size \in 0 .. io[c].size
              /\ io[c].kind = "read" => Len(io[c].data) = io[c].total_size
    /\ session.stream_offset \in Nat /\ session.remaining_bytes \in Nat
    /\ owner \in Users \cup {Nobody}
    /\ \A t \in PoolThreads : job[t] \in Users \cup {Nobody}

(* Every handle of the process belongs to exactly one object, across moves,*)
(* evictions, failures and shutdown, so that none leaks and none is closed *)
(* for somebody else who got its value; an entry of a pool holds a handle  *)
(* of its own path; nobody transfers through a handle that was closed; and *)
(* a call that has returned holds no file it did not hand out.             *)
HandlesOwnedOnce ==
    /\ \A o, other \in DOMAIN native_handle :
          native_handle[o] = native_handle[other] => o = other
    /\ DOMAIN open_handles = {native_handle[o] : o \in DOMAIN native_handle}
    /\ \A t \in PoolThreads, path \in Paths :
          /\ isOpen(Entry(t, path)) <=> path \in pool[t].entries
          /\ isOpen(Entry(t, path)) => PathOf(Entry(t, path)) = path
    /\ \A c \in Clients : io[c].kind # "none" => isOpen(io[c].object)
    /\ \A t \in PoolThreads : isOpen(Miss(t)) <=> Pool(t, "evict")
    /\ Session("idle") => ~isOpen(OpenResult)
    /\ Helper("idle") => ~isOpen(HelperFile)
    /\ Bundle("idle") => ~isOpen(FileHandle) /\ ~isOpen(MappingHandle)

(* Where the file system keeps share modes, who reads through this layer   *)
(* and lets no writer in sees one version of the file, the one it opened,  *)
(* for as long as it has it open: a session through all its reads, whose   *)
(* range stays in the file, a whole-file read between the look at the size *)
(* and the last byte, a pooled handle over many tasks, a view until it is  *)
(* dropped.                                                                *)
Exclusive(h) == open_handles[h].access = {"read"} /\ "write" \notin open_handles[h].share
ReadersSeeOneVersion ==
    shares_enforced =>
        /\ \A h \in DOMAIN open_handles :
              Exclusive(h) => disk[open_handles[h].path] = open_handles[h].seen
        /\ \A c \in Clients :
              io[c].kind = "read" /\ Exclusive(native_handle[io[c].object]) =>
                  io[c].data = SubSeq(disk[PathOf(io[c].object)], io[c].offset + 1,
                                      io[c].offset + io[c].total_size)
        /\ isOpen(FileValue) =>
              session.stream_offset + session.remaining_bytes <= sizeOf(FileValue)
        /\ Helper("returned") /\ Exclusive(native_handle[HelperFile]) =>
              helper.call.size = sizeOf(HelperFile)
=============================================================================
