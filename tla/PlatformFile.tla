---------------------------- MODULE PlatformFile ----------------------------
(***************************************************************************)
(* src/PlatformFileWin32.cpp: files opened, read, written, resized and     *)
(* closed through Win32 handles.  The other modules of this layer extend   *)
(* this one and use its operations; its own clients are threads that share *)
(* one PlatformFile they write to.                                         *)
(*                                                                         *)
(* A step is one call of the system.  Bytes are small numbers.  The system *)
(* gives out the lowest handle value that is free, so a value that was     *)
(* closed is soon somebody else's.                                         *)
(***************************************************************************)
EXTENDS Integers, FiniteSets, Sequences

CONSTANTS
    Handles,             \* the values of handles
    Clients,             \* threads that read and write
    Disks,               \* what the disk may hold at first, by path
    WriterOpens,         \* the calls the writing threads make: opening,
    Writes,              \*   writing (who, where and what)
    Sizes,               \*   and resizing their file
    Sharing,             \* may the file system enforce share modes, or not
    max_io_chunk_bytes

ASSUME PlatformAssumption ==
    /\ Handles \subseteq Nat \ {0} /\ Sizes \subseteq Nat
    /\ \A content \in Disks : \A path \in DOMAIN content : content[path] \in Seq(Nat)
    /\ \A call \in WriterOpens : call.options.access \in {"write", "readWrite"}
    /\ \A w \in Writes : w.by \in Clients /\ w.offset \in Nat /\ w.source \in Seq(Nat)
    /\ Sharing \subseteq BOOLEAN
    /\ max_io_chunk_bytes \in Nat \ {0}

VARIABLES
    disk,                \* path -> bytes, of the files that exist
    open_handles,        \* handle -> what the system knows of it, of those open
    native_handle,       \* object -> its handle, of the objects that are open
    io,                  \* the transfer each client is in
    shares_enforced      \* the file system refuses what a share mode forbids

handleVars == <<disk, open_handles, native_handle>>

Minimum(a, b) == IF a < b THEN a ELSE b

-----------------------------------------------------------------------------
(* Opening, closing and moving.                                            *)
isOpen(o) == o \in DOMAIN native_handle

desiredAccess ==
    [read |-> {"read"}, write |-> {"write"}, readWrite |-> {"read", "write"}]

(* A FileShare is the set of its flags.                                    *)
OpenOptions(access, creation, share) ==
    [access |-> access, creation |-> creation, share |-> share]
openReadSharing(share) ==              \* mutant: other writers are let in
    OpenOptions("read", "openExisting", share \cup {"write"})
openRead(share) == OpenOptions("read", "openExisting", share)
openWrite(truncate, share) ==
    OpenOptions("write", IF truncate THEN "createAlways" ELSE "openAlways", share)
openReadWrite(creation, share) == OpenOptions("readWrite", creation, share)

Creates   == {"createAlways", "openAlways"}
Truncates == {"createAlways", "truncateExisting"}

(* Each side's access has to be in the other side's share mode.            *)
SharingAllows(path, options) ==
    \A h \in DOMAIN open_handles :
        open_handles[h].path = path =>
            /\ desiredAccess[options.access] \subseteq open_handles[h].share
            /\ open_handles[h].access \subseteq options.share
CanOpen(path, options) ==
    /\ path \in DOMAIN disk \/ options.creation \in Creates
    /\ shares_enforced => SharingAllows(path, options)

With(f, x, value) == [y \in DOMAIN f \cup {x} |-> IF y = x THEN value ELSE f[y]]
Without(f, xs)    == [y \in DOMAIN f \ xs |-> f[y]]

FreeHandles == Handles \ DOMAIN open_handles
NextHandle  == CHOOSE h \in FreeHandles : \A k \in FreeHandles : h <= k

(* seen is history: what a file held when it was opened for reading, kept  *)
(* where share modes are.                                                  *)
open(o, path, options) ==
    LET access  == desiredAccess[options.access]
        content == IF path \in DOMAIN disk /\ options.creation \notin Truncates
                   THEN disk[path] ELSE <<>>
    IN  /\ CanOpen(path, options) /\ FreeHandles # {}
        /\ disk' = With(disk, path, content)
        /\ native_handle' = With(native_handle, o, NextHandle)
        /\ open_handles' = With(open_handles, NextHandle,
              [path |-> path, access |-> access, share |-> options.share,
               seen |-> IF access = {"read"} /\ shares_enforced THEN content ELSE <<>>])

(* close, and the destructor, of the objects os; what is not open stays    *)
(* closed.                                                                 *)
close(os) ==
    /\ open_handles' = Without(open_handles, {native_handle[o] : o \in os \cap DOMAIN native_handle})
    /\ native_handle' = Without(native_handle, os)
    /\ UNCHANGED disk

(* Move construction and assignment from an open source.                   *)
move(source, target) ==
    /\ open_handles' = IF isOpen(target)
                       THEN Without(open_handles, {native_handle[target]}) ELSE open_handles
    /\ native_handle' = Without(With(native_handle, target, native_handle[source]), {source})
    /\ UNCHANGED disk

PathOf(o) == open_handles[native_handle[o]].path
sizeOf(o) == Len(disk[PathOf(o)])

-----------------------------------------------------------------------------
(* readAt and writeAt: a loop of ReadFile or WriteFile.                    *)
NoTransfer == [kind |-> "none"]
Transfer(kind, o, offset, source, size) ==
    [kind |-> kind, object |-> o, offset |-> offset, source |-> source,
     size |-> size, total_size |-> 0, data |-> <<>>,
     outcome |-> IF ~isOpen(o) THEN "error" ELSE IF size = 0 THEN "ok" ELSE "running"]

readAt(c, o, offset, size) ==
    io' = [io EXCEPT ![c] = Transfer("read", o, offset, <<>>, size)]
writeAt(c, o, offset, source) ==
    io' = [io EXCEPT ![c] = Transfer("write", o, offset, source, Len(source))]
Forget(c) == io' = [io EXCEPT ![c] = NoTransfer]

Running(c, kind) == io[c].kind = kind /\ io[c].outcome = "running"
Returned(c) == io[c].kind # "none" /\ io[c].outcome # "running"
(* readExactAt and writeExactAt fail if fewer bytes were moved than asked. *)
Exact(t) == t.outcome = "ok" /\ t.total_size = t.size

ChunkSize(t) == Minimum(t.size - t.total_size, max_io_chunk_bytes)

(* n bytes of the chunk were transferred; fewer than all end the loop.     *)
Progress(c, n, bytes) ==
    io' = [io EXCEPT ![c].total_size = @ + n,
                     ![c].data = @ \o bytes,
                     ![c].outcome = IF n < ChunkSize(io[c]) \/ io[c].total_size + n = io[c].size
                                    THEN "ok" ELSE "running"]

(* ReadFile at or past the end of the file fails: see IoFails.             *)
doRead(c) ==
    LET t  == io[c]
        at == t.offset + t.total_size
        content == disk[PathOf(t.object)]
        n  == Minimum(ChunkSize(t), Len(content) - at)
    IN  /\ Running(c, "read") /\ at < Len(content)
        /\ Progress(c, n, SubSeq(content, at + 1, at + n))
        /\ UNCHANGED handleVars

(* What a file holds after bytes were written at an offset: a gap is zeros.*)
Written(content, at, bytes) ==
    [i \in 1 .. IF Len(content) > at + Len(bytes) THEN Len(content) ELSE at + Len(bytes) |->
        IF i \in at + 1 .. at + Len(bytes) THEN bytes[i - at]
        ELSE IF i <= Len(content) THEN content[i] ELSE 0]

(* Mutant of doWrite: every chunk goes to the first chunk's offset.        *)
doWriteSameOffset(c) ==
    /\ Running(c, "write")
    /\ \E n \in 1 .. ChunkSize(io[c]) :
          LET t == io[c]
          IN  /\ disk' = [disk EXCEPT ![PathOf(t.object)] =
                    Written(@, t.offset, SubSeq(t.source, t.total_size + 1, t.total_size + n))]
              /\ Progress(c, n, <<>>)
    /\ UNCHANGED <<open_handles, native_handle>>

(* A full disk takes less than the chunk.                                  *)
doWrite(c) ==
    /\ Running(c, "write")
    /\ \E n \in 1 .. ChunkSize(io[c]) :
          LET t  == io[c]
              at == t.offset + t.total_size
          IN  /\ disk' = [disk EXCEPT ![PathOf(t.object)] =
                    Written(@, at, SubSeq(t.source, t.total_size + 1, t.total_size + n))]
              /\ Progress(c, n, <<>>)
    /\ UNCHANGED <<open_handles, native_handle>>

(* A chunk can fail at any time; a read at the end of the file does.       *)
IoFails(c) ==
    /\ io[c].kind # "none" /\ io[c].outcome = "running"
    /\ io' = [io EXCEPT ![c].outcome = "error"]
    /\ UNCHANGED handleVars

TransferStep(c) == doRead(c) \/ doWrite(c) \/ IoFails(c)

-----------------------------------------------------------------------------
(* The writing threads.  Reading and writing are const and may be called   *)
(* by several threads at once; opening, closing and resizing are not.      *)
WriterFile == <<"writer", "file">>
Writers    == {w.by : w \in Writes}
WritersAlone == \A c \in Writers : io[c] = NoTransfer

WriterOpen ==
    /\ ~isOpen(WriterFile)
    /\ \E call \in WriterOpens : open(WriterFile, call.path, call.options)
    /\ UNCHANGED io

writeExactAt(c) ==
    /\ isOpen(WriterFile) /\ io[c] = NoTransfer
    /\ \E w \in Writes : w.by = c /\ writeAt(c, WriterFile, w.offset, w.source)
    /\ UNCHANGED handleVars

WriteReturns(c) ==
    /\ Returned(c) /\ Forget(c)
    /\ UNCHANGED handleVars

WriterClose ==
    /\ isOpen(WriterFile) /\ WritersAlone
    /\ close({WriterFile})
    /\ UNCHANGED io

(* The file position is set and the file ends there.  Nobody else looks at *)
(* the position, so that a failure of either call changes nothing.         *)
resize ==
    /\ isOpen(WriterFile) /\ WritersAlone
    /\ \E size \in Sizes :
          disk' = [disk EXCEPT ![PathOf(WriterFile)] =
             IF size < Len(@) THEN SubSeq(@, 1, size)
             ELSE @ \o [i \in 1 .. size - Len(@) |-> 0]]
    /\ UNCHANGED <<open_handles, native_handle, io>>

WriterStep(active) ==
    \/ WriterOpen \/ WriterClose \/ resize
    \/ \E c \in Writers \cap active : writeExactAt(c) \/ WriteReturns(c)

PlatformInit ==
    /\ disk \in Disks
    /\ open_handles = <<>> /\ native_handle = <<>>
    /\ io = [c \in Clients |-> NoTransfer]
    /\ shares_enforced \in Sharing

-----------------------------------------------------------------------------
(* Threads that share one PlatformFile do not disturb each other: whatever *)
(* a write has moved so far, in however many chunks and after however many *)
(* short ones, stands in the file at the offset it was given (doWrite).    *)
WritesLand ==
    \A c \in Writers :
        io[c].kind = "write" =>
            \A n \in 1 .. io[c].total_size :
                /\ io[c].offset + n \in DOMAIN disk[PathOf(io[c].object)]
                /\ disk[PathOf(io[c].object)][io[c].offset + n] = io[c].source[n]
=============================================================================
