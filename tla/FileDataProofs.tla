---------------------------- MODULE FileDataProofs ----------------------------
(***************************************************************************)
(* Theorems about FileService: the bytes that are read and written, the    *)
(* version of a file its readers see, the paths a pool keeps, and the      *)
(* stream a session makes of a file.                                       *)
(***************************************************************************)
EXTENDS HandleProofs, FiniteSetTheorems, SequenceTheorems

-----------------------------------------------------------------------------
(* What a step may do to the disk and the handles.  Who opens for reading  *)
(* neither creates nor truncates; only the writers write.                  *)
OptionsOK(o, options) ==
    /\ options.access \in {"read", "write", "readWrite"}
    /\ options.access = "read" => options.creation = "openExisting"
    /\ o = WriterFile <=> options.access # "read"

Opens == \E o, path, options : OptionsOK(o, options) /\ ~isOpen(o) /\ open(o, path, options)
Closes == \E os : close(os)
Moves ==
    \E t \in PoolThreads \cup {SessionThread} :
        /\ io[t] = NoTransfer
        /\ \E source, target : /\ source # target /\ isOpen(source)
                               /\ source[1] = t /\ target[1] = t
                               /\ move(source, target)
MakesSection == CreateFileMapping /\ isOpen(FileHandle) /\ ~isOpen(MappingHandle)
WritesThrough == \E c \in Writers : TransferTo(c, WriterFile) /\ doWrite(c)

FileStep ==
    \/ UNCHANGED handleVars
    \/ Opens \/ Closes \/ Moves \/ MakesSection \/ WritesThrough \/ resize

(* And to the transfer of a thread.                                        *)
BeginsRead(c) ==
    /\ c \notin Writers /\ UNCHANGED handleVars
    /\ \E o : \E offset, size \in Nat :
          isOpen(o) /\ io'[c] = Transfer("read", o, offset, <<>>, size)
BeginsWrite(c) ==
    /\ c \in Writers /\ UNCHANGED handleVars /\ isOpen(WriterFile)
    /\ \E w \in Writes : /\ w.by = c
                         /\ io'[c] = Transfer("write", WriterFile, w.offset, w.source, Len(w.source))
IoStep(c) ==
    \/ io'[c] = io[c] \/ io'[c] = NoTransfer
    \/ BeginsRead(c) \/ BeginsWrite(c) \/ TransferStep(c)

-----------------------------------------------------------------------------
(* Types.                                                                  *)
DiskTypes == \A path \in DOMAIN disk : disk[path] \in Seq(Nat)

HandleTypes ==
    /\ DOMAIN open_handles \subseteq Handles
    /\ \A h \in DOMAIN open_handles :
          /\ open_handles[h].path \in DOMAIN disk
          /\ open_handles[h].access \subseteq {"read", "write"}

TransferFields ==
    {"kind", "object", "offset", "source", "size", "total_size", "data", "outcome"}
IoTypesOf(c, t) ==
    t # NoTransfer =>
        /\ DOMAIN t = TransferFields
        /\ t.offset \in Nat /\ t.size \in Nat /\ t.total_size \in 0 .. t.size
        /\ \/ t.kind = "read" /\ c \notin Writers
              /\ t.data \in Seq(Nat) /\ Len(t.data) = t.total_size
           \/ t.kind = "write" /\ c \in Writers
              /\ \E w \in Writes : /\ w.by = c /\ t.offset = w.offset /\ t.source = w.source
                                   /\ t.size = Len(w.source)
IoTypes == \A c \in Clients : IoTypesOf(c, io[c])

SessionFields ==
    {"label", "call", "chunk_bytes", "stream_offset", "remaining_bytes", "paused",
     "end_of_stream", "first", "complete", "delivered"}
SessionTypes ==
    /\ DOMAIN session = SessionFields
    /\ session.chunk_bytes \in Nat /\ session.stream_offset \in Nat
    /\ session.remaining_bytes \in Nat
    /\ Session("open") \/ Session("adopt") =>
          session.call.start_offset \in Nat /\ session.call.max_bytes \in Nat
          /\ session.call.chunk_bytes \in Nat
    /\ Session("reading") =>
          io[SessionThread] # NoTransfer /\ io[SessionThread].size <= session.remaining_bytes

HelperTypes == ~Helper("idle") => helper.call.size \in Nat /\ DOMAIN helper = {"label", "call"}

UserTypes ==
    /\ owner \in Users \cup {Nobody}
    /\ \A u \in Users : InRun(u) => user[u].size \in Nat

DataTypes == /\ DiskTypes /\ HandleTypes /\ IoTypes /\ SessionTypes /\ HelperTypes /\ UserTypes

-----------------------------------------------------------------------------
(* Transfers.                                                              *)
LEMMA NoTransferKind == NoTransfer.kind = "none"  BY DEF NoTransfer

LEMMA KindOfTransfer ==
    ASSUME IoTypes, NEW c \in Clients
    PROVE  /\ io[c].kind = "none" <=> io[c] = NoTransfer
           /\ io[c].kind = "read" => c \notin Writers
           /\ io[c].kind = "write" => c \in Writers
BY NoTransferKind DEF IoTypes, IoTypesOf

LEMMA BeginTypes ==
    ASSUME NEW kind, NEW o, NEW offset \in Nat, NEW source, NEW size \in Nat,
           NEW t, t = Transfer(kind, o, offset, source, size)
    PROVE  /\ DOMAIN t = TransferFields
           /\ t.kind = kind /\ t.object = o /\ t.offset = offset /\ t.source = source
           /\ t.size = size /\ t.total_size = 0 /\ t.data = <<>>
           /\ t # NoTransfer
<1>1. "size" \notin DOMAIN NoTransfer  BY DEF NoTransfer
<1> QED  BY <1>1 DEF Transfer, TransferFields

LEMMA ReadBeginsIo ==
    ASSUME DOMAIN io = Clients, NEW c \in Clients, c \notin Writers, NEW o, isOpen(o),
           NEW offset \in Nat, NEW size \in Nat, readAt(c, o, offset, size), UNCHANGED handleVars
    PROVE  IoStep(c) /\ io'[c] # NoTransfer /\ io'[c].size = size
<1>1. io'[c] = Transfer("read", o, offset, <<>>, size)  BY DEF readAt
<1>2. BeginsRead(c)  BY <1>1 DEF BeginsRead
<1> QED  BY <1>1, <1>2, BeginTypes DEF IoStep

(* The bytes that are in the files.                                        *)
LEMMA SizeIsNat ==
    ASSUME DiskTypes, HandleTypes, OwnedOnce, NEW o, isOpen(o)
    PROVE  /\ PathOf(o) \in DOMAIN disk /\ disk[PathOf(o)] \in Seq(Nat) /\ sizeOf(o) \in Nat
           /\ native_handle[o] \in DOMAIN open_handles
<1>1. native_handle[o] \in DOMAIN open_handles  BY DEF OwnedOnce, isOpen
<1>2. PathOf(o) \in DOMAIN disk  BY <1>1 DEF HandleTypes, PathOf
<1>3. disk[PathOf(o)] \in Seq(Nat)  BY <1>2 DEF DiskTypes
<1> QED  BY <1>1, <1>2, <1>3, LenProperties DEF sizeOf

LEMMA ReadOptions ==
    ASSUME NEW o, o # WriterFile, NEW share PROVE OptionsOK(o, openRead(share))
BY DEF OptionsOK, openRead, OpenOptions

LEMMA ObjectsApart ==
    /\ FileValue # WriterFile /\ OpenResult # WriterFile /\ FileValue # OpenResult
    /\ HelperFile # WriterFile /\ FileHandle # WriterFile /\ MappingHandle # WriterFile
    /\ \A t \in PoolThreads : Miss(t) # WriterFile /\ \A path : Entry(t, path) # WriterFile
<1>1. FileValue # OpenResult  BY DEF FileValue, OpenResult
<1> QED  BY <1>1, Owners, ThreadsApart, PoolObjects

-----------------------------------------------------------------------------
(* The steps of each client, as steps of files and of its transfer.        *)
LEMMA MinimumIs ==
    ASSUME NEW a \in Nat, NEW b \in Nat
    PROVE  Minimum(a, b) \in Nat /\ Minimum(a, b) <= a /\ Minimum(a, b) <= b
BY DEF Minimum

LEMMA TotalIsNat ==
    ASSUME NEW call, call.start_offset \in Nat, call.max_bytes \in Nat,
           NEW size \in Nat, call.start_offset <= size
    PROVE  /\ TotalReadable(call, size) \in Nat
           /\ call.start_offset + TotalReadable(call, size) <= size
<1>1. PICK first \in Nat, max \in Nat : first = call.start_offset /\ max = call.max_bytes
  OBVIOUS
<1>2. size - first \in Nat  BY <1>1
<1>3. Minimum(max, size - first) \in Nat /\ Minimum(max, size - first) <= size - first
  BY <1>2, MinimumIs
<1> QED  BY <1>1, <1>2, <1>3 DEF TotalReadable

LEMMA RequestIsNat ==
    ASSUME SessionTypes, NEW span \in SpanSizes
    PROVE  RequestBytes(span) \in Nat /\ RequestBytes(span) <= session.remaining_bytes
<1>1. span \in Nat  BY StreamAssumption
<1>2. Minimum(span, session.chunk_bytes) \in Nat  BY <1>1, MinimumIs DEF SessionTypes
<1> QED  BY <1>2, MinimumIs DEF SessionTypes, RequestBytes

LEMMA SessionData ==
    ASSUME HandlesInv, DataTypes, SessionStep
    PROVE  FileStep /\ IoStep(SessionThread) /\ SessionTypes'
<1> USE DEF Session, SetSession
<1>0. /\ OwnedOnce /\ SessionOK /\ DOMAIN io = Clients /\ SessionThread \in Clients
      /\ SessionThread \notin Writers
  BY ThreadsApart DEF HandlesInv
<1>t. SessionTypes /\ DiskTypes /\ HandleTypes /\ IoTypes  BY DEF DataTypes
<1>u. ASSUME UNCHANGED io PROVE IoStep(SessionThread)  BY <1>u DEF IoStep
<1>f. ASSUME Forget(SessionThread) PROVE IoStep(SessionThread)
  BY <1>0, <1>f, ForgetStep DEF IoStep
<1>1. CASE StartStops
  <2>1. PICK call \in StreamCalls :
          session' = [Stopped(session) EXCEPT
              !.call = IF call.chunk_bytes = 0 THEN NoCall ELSE call,
              !.label = IF call.chunk_bytes = 0 THEN "idle" ELSE "open"]
    BY <1>1 DEF StartStops
  <2>2. PICK c, label : /\ c = IF call.chunk_bytes = 0 THEN NoCall ELSE call
                        /\ label = IF call.chunk_bytes = 0 THEN "idle" ELSE "open"
    OBVIOUS
  <2>3. session' = [Stopped(session) EXCEPT !.call = c, !.label = label]  BY <2>1, <2>2
  <2>4. /\ DOMAIN session' = SessionFields /\ session'.label = label /\ session'.call = c
        /\ session'.stream_offset = 0 /\ session'.remaining_bytes = 0
        /\ session'.chunk_bytes = session.chunk_bytes
    BY <2>3, <1>t DEF Stopped, SessionTypes, SessionFields
  <2>5. label = "open" => c = call  BY <2>2
  <2>6. label \in {"idle", "open"}  BY <2>2
  <2>7. SessionTypes'  BY <1>t, <2>4, <2>5, <2>6, StreamAssumption DEF SessionTypes
  <2>8. Closes /\ UNCHANGED io  BY <1>1 DEF StartStops, Closes
  <2> QED  BY <1>u, <2>7, <2>8 DEF FileStep
<1>2. CASE StartOpens
  <2>1. /\ session' = [session EXCEPT !.label = "adopt"] /\ session.label = "open"
        /\ UNCHANGED io
    BY <1>2 DEF StartOpens
  <2>2. Opens
    BY <1>0, <1>2, ReadOptions, ObjectsApart DEF StartOpens, Opens, SessionOK
  <2>3. SessionTypes'  BY <2>1, <1>t DEF SessionTypes, SessionFields
  <2> QED  BY <1>u, <2>1, <2>2, <2>3 DEF FileStep
<1>3. CASE StartCannotOpen
  <2>1. /\ session' = [session EXCEPT !.label = "idle", !.call = NoCall]
        /\ UNCHANGED <<handleVars, io>>
    BY <1>3 DEF StartCannotOpen
  <2>2. SessionTypes'  BY <2>1, <1>t DEF SessionTypes, SessionFields
  <2> QED  BY <1>u, <2>1, <2>2 DEF FileStep
<1>4. CASE StartAdopts
  <2>1. /\ session.label = "adopt" /\ session.call.start_offset <= sizeOf(OpenResult)
        /\ move(OpenResult, FileValue) /\ UNCHANGED io
    BY <1>4 DEF StartAdopts, Adopt
  <2>2. isOpen(OpenResult)  BY <1>0, <2>1 DEF SessionOK
  <2>3. PICK total \in Nat : total = TotalReadable(session.call, sizeOf(OpenResult))
    <3>1. sizeOf(OpenResult) \in Nat  BY <1>0, <1>t, <2>2, SizeIsNat
    <3> QED  BY <1>t, <2>1, <3>1, TotalIsNat DEF SessionTypes
  <2>4. /\ DOMAIN session' = SessionFields /\ session'.label = "idle"
        /\ session'.chunk_bytes = session.call.chunk_bytes
        /\ session'.stream_offset = session.call.start_offset
        /\ session'.remaining_bytes = total
    BY <1>4, <1>t, <2>3 DEF StartAdopts, Adopt, SessionTypes, SessionFields
  <2>5. SessionTypes'  BY <1>t, <2>1, <2>4 DEF SessionTypes
  <2>6. Moves
    <3>1. io[SessionThread] = NoTransfer  BY <1>0, <2>1 DEF SessionOK
    <3> QED  BY <2>1, <2>2, <3>1, ObjectsApart, Owners DEF Moves
  <2> QED  BY <1>u, <2>1, <2>5, <2>6 DEF FileStep
<1>5. CASE StartRejects
  <2>1. /\ session' = [session EXCEPT !.label = "idle", !.call = NoCall]
        /\ UNCHANGED io /\ Closes
    BY <1>5 DEF StartRejects, Closes
  <2>2. SessionTypes'  BY <2>1, <1>t DEF SessionTypes, SessionFields
  <2> QED  BY <1>u, <2>1, <2>2 DEF FileStep
<1>6. CASE stop
  <2>1. session' = Stopped(session) /\ UNCHANGED io /\ Closes /\ session.label = "idle"
    BY <1>6 DEF stop, Closes
  <2>2. SessionTypes'  BY <2>1, <1>t DEF SessionTypes, SessionFields, Stopped
  <2> QED  BY <1>u, <2>1, <2>2 DEF FileStep
<1>7. CASE pause \/ resume
  <2>1. /\ \E b : session' = [session EXCEPT !.paused = b]
        /\ UNCHANGED <<handleVars, io>>
    BY <1>7 DEF pause, resume
  <2>2. SessionTypes'  BY <2>1, <1>t DEF SessionTypes, SessionFields
  <2> QED  BY <1>u, <2>1, <2>2 DEF FileStep
<1>8. CASE ReadBegins
  <2>1. UNCHANGED handleVars /\ isOpen(FileValue) /\ session.label = "idle"
    BY <1>8 DEF ReadBegins
  <2>2. PICK span \in SpanSizes :
          IF RequestBytes(span) = 0
          THEN session' = [session EXCEPT !.end_of_stream = TRUE] /\ UNCHANGED io
          ELSE /\ session' = [session EXCEPT !.label = "reading"]
               /\ readAt(SessionThread, FileValue, session.stream_offset, RequestBytes(span))
    BY <1>8 DEF ReadBegins
  <2>3. PICK size \in Nat : size = RequestBytes(span) /\ size <= session.remaining_bytes
    BY <1>t, RequestIsNat
  <2>4. CASE size = 0
    <3>1. session' = [session EXCEPT !.end_of_stream = TRUE] /\ UNCHANGED io
      BY <2>2, <2>3, <2>4
    <3>2. SessionTypes'  BY <2>1, <3>1, <1>t DEF SessionTypes, SessionFields
    <3> QED  BY <1>u, <2>1, <3>1, <3>2 DEF FileStep
  <2>5. CASE size # 0
    <3>1. /\ session' = [session EXCEPT !.label = "reading"]
          /\ readAt(SessionThread, FileValue, session.stream_offset, size)
      BY <2>2, <2>3, <2>5
    <3>2. IoStep(SessionThread) /\ io'[SessionThread] # NoTransfer /\ io'[SessionThread].size = size
      BY <1>0, <1>t, <2>1, <3>1, ReadBeginsIo DEF SessionTypes
    <3>3. SessionTypes'  BY <2>3, <3>1, <3>2, <1>t DEF SessionTypes, SessionFields
    <3> QED  BY <2>1, <3>2, <3>3 DEF FileStep
  <2> QED  BY <2>4, <2>5
<1>9. CASE ReadFails
  <2>1. /\ session' = [session EXCEPT !.label = "idle"] /\ UNCHANGED handleVars
        /\ Forget(SessionThread)
    BY <1>9 DEF ReadFails
  <2>2. SessionTypes'  BY <2>1, <1>t DEF SessionTypes, SessionFields
  <2> QED  BY <1>f, <2>1, <2>2 DEF FileStep
<1>10. CASE ReadAdvances
  <2>1. session.label = "reading" /\ UNCHANGED handleVars /\ Forget(SessionThread)
    BY <1>10 DEF ReadAdvances, ReadAdvancesBy
  <2>2. PICK t : t = io[SessionThread]  OBVIOUS
  <2>3. /\ t # NoTransfer /\ t.size <= session.remaining_bytes
        /\ t.size \in Nat /\ t.total_size \in 0 .. t.size
    BY <1>0, <1>t, <2>1, <2>2 DEF SessionTypes, IoTypes, IoTypesOf
  <2>4. PICK moved \in Nat : moved = t.total_size /\ moved <= session.remaining_bytes
    BY <2>3, <1>t DEF SessionTypes
  <2>5. PICK label \in {"ended", "idle"} : \E complete, delivered :
          session' = [session EXCEPT !.label = label, !.stream_offset = @ + moved,
                                     !.remaining_bytes = @ - moved,
                                     !.complete = complete, !.delivered = delivered]
    <3> DEFINE L == IF LastRead(t) THEN "ended" ELSE "idle"
               D == session.delivered \o Places(t)
    <3>1. session' = [session EXCEPT !.label = L, !.stream_offset = @ + t.total_size,
                                     !.remaining_bytes = @ - t.total_size,
                                     !.complete = LastRead(t), !.delivered = D]
      BY <1>10, <2>2 DEF ReadAdvances, ReadAdvancesBy
    <3>2. L \in {"ended", "idle"}  OBVIOUS
    <3> HIDE DEF L, D
    <3> QED  BY <3>1, <3>2, <2>4
  <2>6. /\ DOMAIN session' = SessionFields /\ session'.label = label
        /\ session'.chunk_bytes = session.chunk_bytes
        /\ session'.stream_offset = session.stream_offset + moved
        /\ session'.remaining_bytes = session.remaining_bytes - moved
    BY <2>5, <1>t DEF SessionTypes, SessionFields
  <2>7. SessionTypes'  BY <2>4, <2>6, <1>t DEF SessionTypes
  <2> QED  BY <1>f, <2>1, <2>7 DEF FileStep
<1>11. CASE ReadStoresEnd
  <2>1. /\ session' = [session EXCEPT !.label = "idle", !.end_of_stream = TRUE]
        /\ UNCHANGED <<handleVars, io>>
    BY <1>11 DEF ReadStoresEnd
  <2>2. SessionTypes'  BY <2>1, <1>t DEF SessionTypes, SessionFields
  <2> QED  BY <1>u, <2>1, <2>2 DEF FileStep
<1> QED
  BY <1>1, <1>2, <1>3, <1>4, <1>5, <1>6, <1>7, <1>8, <1>9, <1>10, <1>11
  DEF SessionStep, start, readNext

LEMMA HelperData ==
    ASSUME HandlesInv, DataTypes, HelperStep
    PROVE  FileStep /\ IoStep(HelperThread) /\ HelperTypes'
<1> USE DEF Helper, HelperGoes
<1>0. /\ OwnedOnce /\ HelperOK /\ DOMAIN io = Clients /\ HelperThread \in Clients
      /\ HelperThread \notin Writers
  BY ThreadsApart DEF HandlesInv
<1>t. HelperTypes  BY DEF DataTypes
<1>u. ASSUME UNCHANGED io PROVE IoStep(HelperThread)  BY <1>u DEF IoStep
<1>g. ASSUME NEW label, label # "idle", helper.label # "idle",
             helper' = [helper EXCEPT !.label = label]
      PROVE  HelperTypes'
  BY <1>t, <1>g DEF HelperTypes
<1>1. CASE readFileToSpan
  <2>1. PICK call \in SpanCalls :
          /\ open(HelperFile, call.path, openRead(call.share))
          /\ helper' = [label |-> "size", call |-> call]
    BY <1>1 DEF readFileToSpan
  <2>2. ~isOpen(HelperFile) /\ UNCHANGED io  BY <1>0, <1>1 DEF readFileToSpan, HelperOK
  <2>3. Opens  BY <2>1, <2>2, ReadOptions, ObjectsApart DEF Opens
  <2>4. HelperTypes'  BY <2>1, SpanCallsAssumption DEF HelperTypes
  <2> QED  BY <1>u, <2>2, <2>3, <2>4 DEF FileStep
<1>2. CASE SizeMatches
  <2>1. /\ UNCHANGED handleVars /\ helper.label = "size"
        /\ \E label \in {"returned", "reading"} : helper' = [helper EXCEPT !.label = label]
        /\ UNCHANGED io \/ readAt(HelperThread, HelperFile, 0, helper.call.size)
    BY <1>2 DEF SizeMatches
  <2>2. HelperTypes'  BY <1>g, <2>1
  <2>3. isOpen(HelperFile) /\ helper.call.size \in Nat
    BY <1>0, <1>t, <2>1 DEF HelperOK, HelperTypes
  <2>4. IoStep(HelperThread)  BY <1>0, <1>u, <2>1, <2>3, ReadBeginsIo
  <2> QED  BY <2>1, <2>2, <2>4 DEF FileStep
<1>3. CASE SizeMismatch \/ SizeFails
  <2>1. UNCHANGED <<handleVars, io>> /\ HelperTypes'  BY <1>3, <1>g DEF SizeMismatch, SizeFails
  <2> QED  BY <1>u, <2>1 DEF FileStep
<1>4. CASE HelperRead
  <2>1. /\ UNCHANGED <<handleVars, io>> /\ helper.label = "reading"
        /\ \E label \in {"returned", "failed"} : helper' = [helper EXCEPT !.label = label]
    BY <1>4 DEF HelperRead
  <2> QED  BY <1>g, <1>u, <2>1 DEF FileStep
<1>5. CASE HelperReturns
  <2>1. Closes /\ Forget(HelperThread) /\ helper' = NoHelper  BY <1>5 DEF HelperReturns, Closes
  <2>2. HelperTypes'  BY <2>1 DEF HelperTypes, NoHelper
  <2>3. IoStep(HelperThread)  BY <1>0, <2>1, ForgetStep DEF IoStep
  <2> QED  BY <2>1, <2>2, <2>3 DEF FileStep
<1> QED  BY <1>1, <1>2, <1>3, <1>4, <1>5 DEF HelperStep

LEMMA MapperData == ASSUME HandlesInv, DataTypes, MapperStep PROVE FileStep
<1>0. MapperOK  BY DEF HandlesInv
<1>1. CASE OpenMappedFile
  <2>1. PICK task \in ViewTasks :
          open(FileHandle, task.path, OpenOptions("read", "openExisting", {"read"}))
    BY <1>1 DEF OpenMappedFile
  <2>2. ~isOpen(FileHandle)  BY <1>0, <1>1 DEF OpenMappedFile, MapperOK
  <2>3. OptionsOK(FileHandle, OpenOptions("read", "openExisting", {"read"}))
    BY ObjectsApart DEF OptionsOK, OpenOptions
  <2>4. Opens  BY <2>1, <2>2, <2>3 DEF Opens
  <2> QED  BY <2>4 DEF FileStep
<1>2. CASE CreateFileMapping
  <2>1. isOpen(FileHandle) /\ ~isOpen(MappingHandle)
    BY <1>0, <1>2 DEF CreateFileMapping, MapperOK, Bundle
  <2> QED  BY <1>2, <2>1 DEF FileStep, MakesSection
<1>3. CASE MapViewOfFile \/ PushMappedView \/ DropView
  BY <1>3 DEF MapViewOfFile, PushMappedView, DropView, FileStep
<1>4. CASE MappingFails \/ Unmap
  BY <1>4 DEF MappingFails, Unmap, FileStep, Closes
<1> QED  BY <1>1, <1>2, <1>3, <1>4 DEF MapperStep

LEMMA WriterData ==
    ASSUME HandlesInv, DataTypes, NEW active, WriterStep(active)
    PROVE  FileStep /\ \A c \in Clients : IoStep(c)
<1>0. DOMAIN io = Clients /\ \A c \in Writers : c \in Clients
  BY ThreadsApart DEF HandlesInv
<1>1. CASE WriterOpen
  <2>1. PICK call \in WriterOpens : open(WriterFile, call.path, call.options)
    BY <1>1 DEF WriterOpen
  <2>2. ~isOpen(WriterFile) /\ UNCHANGED io  BY <1>1 DEF WriterOpen
  <2>3. OptionsOK(WriterFile, call.options)  BY PlatformAssumption DEF OptionsOK
  <2>4. Opens  BY <2>1, <2>2, <2>3 DEF Opens
  <2> QED  BY <2>2, <2>4 DEF FileStep, IoStep
<1>2. CASE WriterClose
  BY <1>2 DEF WriterClose, FileStep, Closes, IoStep
<1>3. CASE resize
  BY <1>3 DEF resize, FileStep, IoStep
<1>4. CASE \E c \in Writers \cap active : writeExactAt(c) \/ WriteReturns(c)
  <2>1. PICK c \in Writers : writeExactAt(c) \/ WriteReturns(c)  BY <1>4
  <2>2. UNCHANGED handleVars  BY <2>1 DEF writeExactAt, WriteReturns
  <2>3. \A d \in Clients : d # c => io'[d] = io[d]
    BY <1>0, <2>1 DEF writeExactAt, WriteReturns, writeAt, Forget
  <2>4. CASE writeExactAt(c)
    <3>1. PICK w \in Writes : w.by = c /\ writeAt(c, WriterFile, w.offset, w.source)
      BY <2>4 DEF writeExactAt
    <3>2. io'[c] = Transfer("write", WriterFile, w.offset, w.source, Len(w.source))
      BY <1>0, <3>1 DEF writeAt
    <3>3. BeginsWrite(c)  BY <2>2, <2>4, <3>1, <3>2 DEF BeginsWrite, writeExactAt
    <3> QED  BY <2>2, <2>3, <3>3 DEF FileStep, IoStep
  <2>5. CASE WriteReturns(c)
    <3>1. io'[c] = NoTransfer  BY <1>0, <2>5 DEF WriteReturns, Forget
    <3> QED  BY <2>2, <2>3, <3>1 DEF FileStep, IoStep
  <2> QED  BY <2>1, <2>4, <2>5
<1> QED  BY <1>1, <1>2, <1>3, <1>4 DEF WriterStep

LEMMA PoolsPath ==
    ASSUME HandlesInv, UserTypes, NEW t \in PoolThreads, job[t] # Nobody
    PROVE  /\ job[t] \in Users /\ user[job[t]].path \in Paths /\ user[job[t]].size \in Nat
<1>1. job[t] \in Users /\ InRun(job[t])  BY DEF HandlesInv, JobsOK, InRun, User
<1> QED  BY <1>1 DEF HandlesInv, JobsOK, UserTypes

LEMMA TaskData ==
    ASSUME HandlesInv, DataTypes, NEW t \in PoolThreads, TaskStep(t)
    PROVE  FileStep /\ IoStep(t) /\ UserTypes'
<1>0. /\ PoolOK(t) /\ JobsOK /\ DOMAIN io = Clients /\ t \in Clients /\ t \notin Writers
      /\ \A u \in Users : u # Nobody
  BY ThreadsApart, ClientsAssumption DEF HandlesInv
<1>t. UserTypes  BY DEF DataTypes
<1>u. ASSUME UNCHANGED io PROVE IoStep(t)  BY <1>u DEF IoStep
<1>f. ASSUME UNCHANGED <<owner, user>> PROVE UserTypes'
  BY <1>f, <1>t DEF UserTypes, InRun, User
<1>1. CASE TakeTask(t)
  <2>1. PICK u \in Users : User(u, "queued") /\ user' = [user EXCEPT ![u].label = "running"]
    BY <1>1 DEF TakeTask, UserGoes
  <2>2. \A v \in Users : /\ v # u => user'[v] = user[v]
                         /\ user'[u].size = user[u].size
    BY <1>0, <2>1 DEF JobsOK
  <2>3. UNCHANGED <<handleVars, io, owner>>  BY <1>1 DEF TakeTask
  <2>4. UserTypes'  BY <1>t, <2>1, <2>2, <2>3 DEF UserTypes, InRun, User
  <2> QED  BY <1>u, <2>3, <2>4 DEF FileStep
<1>2. CASE AskPool(t)
  <2>1. /\ UNCHANGED <<owner, user>>
        /\ \E path, capacity : getReadHandle(t, path, capacity)
    BY <1>2 DEF AskPool, taskVars
  <2>2. PICK path, capacity : getReadHandle(t, path, capacity)  BY <2>1
  <2>3. CASE MissOpens(t, path, capacity)
    <3>1. open(Miss(t), path, openRead({"read"})) /\ UNCHANGED io /\ ~isOpen(Miss(t))
      BY <1>0, <2>3 DEF MissOpens, PoolOK, Pool
    <3>2. Opens  BY <1>0, <3>1, ReadOptions, ObjectsApart DEF Opens
    <3> QED  BY <1>f, <1>u, <2>1, <3>1, <3>2 DEF FileStep
  <2>4. CASE HitEntry(t, path, capacity) \/ MissFails(t, path, capacity)
    BY <1>f, <1>u, <2>1, <2>4 DEF HitEntry, MissFails, FileStep
  <2> QED  BY <2>2, <2>3, <2>4 DEF getReadHandle
<1>3. CASE PoolGoesOn(t)
  <2>1. UNCHANGED <<owner, user, io>>
    BY <1>3 DEF PoolGoesOn, taskVars, EvictTail, InsertEntry
  <2>2. CASE EvictTail(t)
    BY <1>f, <1>u, <2>1, <2>2 DEF EvictTail, FileStep, Closes
  <2>3. CASE InsertEntry(t)
    <3>1. move(Miss(t), Entry(t, pool[t].path)) /\ isOpen(Miss(t))
      BY <1>0, <2>3 DEF InsertEntry, PoolOK, Pool
    <3>2. Moves
      <4>1. PICK source, target : /\ source = Miss(t) /\ target = Entry(t, pool[t].path)
                                  /\ source # target /\ source[1] = t /\ target[1] = t
        BY PoolObjects DEF Miss, Entry
      <4>2. io[t] = NoTransfer  BY <1>0, <2>3 DEF InsertEntry, PoolOK, Pool
      <4> QED  BY <3>1, <4>1, <4>2 DEF Moves
    <3> QED  BY <1>f, <1>u, <2>1, <3>2 DEF FileStep
  <2> QED  BY <1>3, <2>2, <2>3 DEF PoolGoesOn
<1>4. CASE ReadTask(t)
  <2>1. /\ Pool(t, "hit") \/ Pool(t, "inserted")
        /\ readAt(t, Entry(t, pool[t].path), 0, user[job[t]].size)
        /\ UNCHANGED <<handleVars, owner, user>>
    BY <1>4 DEF ReadTask, taskVars
  <2>2. isOpen(Entry(t, pool[t].path)) /\ job[t] # Nobody  BY <1>0, <2>1 DEF PoolOK, Pool
  <2>3. user[job[t]].size \in Nat  BY <1>t, <2>2, PoolsPath
  <2>4. IoStep(t)  BY <1>0, <2>1, <2>2, <2>3, ReadBeginsIo
  <2> QED  BY <1>f, <2>1, <2>4 DEF FileStep
<1>5. CASE TaskReturns(t)
  <2>1. /\ UNCHANGED <<handleVars, owner>> /\ Forget(t) /\ job[t] # Nobody
        /\ user' = [user EXCEPT ![job[t]].label = "returning"]
    BY <1>5 DEF TaskReturns, UserGoes
  <2>2. PICK u \in Users : u = job[t] /\ User(u, "running")
    BY <1>0, <1>t, <2>1, PoolsPath DEF JobsOK
  <2>3. user'[u].size = user[u].size /\ \A v \in Users : v # u => user'[v] = user[v]
    BY <1>0, <2>1, <2>2 DEF JobsOK
  <2>4. UserTypes'  BY <1>t, <2>1, <2>2, <2>3 DEF UserTypes, InRun, User
  <2>5. IoStep(t)  BY <1>0, <2>1, ForgetStep DEF IoStep
  <2> QED  BY <2>1, <2>4, <2>5 DEF FileStep
<1> QED  BY <1>1, <1>2, <1>3, <1>4, <1>5 DEF TaskStep

LEMMA UserData ==
    ASSUME HandlesInv, DataTypes, NEW u \in Users, UserStep(u)
    PROVE  UNCHANGED <<handleVars, io>> /\ UserTypes'
<1>0. JobsOK  BY DEF HandlesInv
<1>t. UserTypes  BY DEF DataTypes
<1>1. CASE initialize(u)  BY <1>1, <1>t DEF initialize, UserTypes, InRun, User
<1>2. CASE get(u) \/ ShutdownBegins(u)
  <2>1. PICK label \in {"got", "shutdown"} : user' = [user EXCEPT ![u].label = label]
    BY <1>2 DEF get, ShutdownBegins, UserGoes
  <2>2. owner' \in {owner, u} /\ UNCHANGED <<handleVars, io>>
    BY <1>2 DEF get, ShutdownBegins
  <2>3. user'[u].label = label /\ \A v \in Users : v # u => user'[v] = user[v]
    BY <1>0, <2>1 DEF JobsOK
  <2> QED  BY <1>t, <2>2, <2>3 DEF UserTypes, InRun, User
<1>3. CASE runRequests(u)
  <2>1. UNCHANGED <<handleVars, io, owner>>  BY <1>3 DEF runRequests
  <2>2. PICK size \in Nat : \E path :
          user' = [user EXCEPT ![u] = [label |-> "begun", path |-> path, size |-> size]]
    BY <1>3, SchedulerAssumption DEF runRequests
  <2>3. user'[u].size = size /\ \A v \in Users : v # u => user'[v] = user[v]
    BY <1>0, <2>2 DEF JobsOK
  <2> QED  BY <1>t, <2>1, <2>3 DEF UserTypes, InRun, User
<1>4. CASE Dispatch(u)
  <2>1. UNCHANGED <<handleVars, io, owner>> /\ InRun(u)  BY <1>4 DEF Dispatch, InRun, User
  <2>2. PICK label : user' = [user EXCEPT ![u].label = label]  BY <1>4 DEF Dispatch, UserGoes
  <2>3. user'[u].size = user[u].size /\ \A v \in Users : v # u => user'[v] = user[v]
    BY <1>0, <2>2 DEF JobsOK
  <2> QED  BY <1>t, <2>1, <2>3 DEF UserTypes, InRun, User
<1>5. CASE RunReturns(u)
  <2>1. UNCHANGED <<handleVars, io, owner>> /\ user' = [user EXCEPT ![u] = NoRun]
    BY <1>5 DEF RunReturns
  <2>2. user'[u].label = "idle" /\ \A v \in Users : v # u => user'[v] = user[v]
    BY <1>0, <2>1 DEF JobsOK, NoRun
  <2> QED  BY <1>t, <2>1, <2>2 DEF UserTypes, InRun, User
<1> QED  BY <1>1, <1>2, <1>3, <1>4, <1>5 DEF UserStep, RunStep

LEMMA ShutdownData ==
    ASSUME HandlesInv, DataTypes, NEW u \in Users, ShutdownResets(u)
    PROVE  FileStep /\ UNCHANGED io /\ UserTypes'
<1>0. JobsOK  BY DEF HandlesInv
<1>t. UserTypes  BY DEF DataTypes
<1>1. UNCHANGED io /\ owner' = Nobody /\ Dangling(u) /\ Closes
  BY DEF ShutdownResets, clearThreads, Closes
<1>2. \A v \in Users : user'[v] = user[v] \/ user'[v].label = "idle"
  BY <1>0, <1>1 DEF Dangling, JobsOK
<1>3. UserTypes'  BY <1>t, <1>1, <1>2 DEF UserTypes, InRun, User
<1> QED  BY <1>1, <1>3 DEF FileStep

(* The system's step of a transfer: only a writer's changes the disk.      *)
LEMMA TransferData ==
    ASSUME HandlesInv, DataTypes, NEW c \in Clients, TransferStep(c)
    PROVE  FileStep /\ UNCHANGED <<open_handles, native_handle>>
<1>1. CASE doRead(c) \/ IoFails(c)
  BY <1>1 DEF doRead, IoFails, FileStep, handleVars
<1>2. CASE doWrite(c)
  <2>1. io[c].kind = "write" /\ UNCHANGED <<open_handles, native_handle>>
    BY <1>2 DEF doWrite, Running
  <2>2. c \in Writers  BY <2>1, KindOfTransfer DEF DataTypes
  <2>3. TransferTo(c, WriterFile)  BY <2>1, <2>2, NoTransferKind DEF HandlesInv, WriterOK
  <2> QED  BY <1>2, <2>1, <2>2, <2>3 DEF FileStep, WritesThrough
<1> QED  BY <1>1, <1>2 DEF TransferStep

-----------------------------------------------------------------------------
(* What the system's steps make of a transfer.                             *)
Continues(c, n) ==
    /\ io[c] # NoTransfer /\ DOMAIN io'[c] = TransferFields
    /\ io'[c].kind = io[c].kind /\ io'[c].object = io[c].object
    /\ io'[c].offset = io[c].offset /\ io'[c].source = io[c].source
    /\ io'[c].size = io[c].size /\ io'[c].total_size = io[c].total_size + n
    /\ io[c].total_size + n <= io[c].size
    /\ \A d \in Clients : d # c => SameTransfer(d)

ReadsOn(c, n) ==
    LET at == io[c].offset + io[c].total_size
        content == disk[PathOf(io[c].object)]
    IN  /\ io[c].kind = "read" /\ at + n <= Len(content)
        /\ io'[c].data = io[c].data \o SubSeq(content, at + 1, at + n)
        /\ UNCHANGED handleVars
WritesOn(c, n) ==
    LET at == io[c].offset + io[c].total_size
    IN  /\ io[c].kind = "write"
        /\ disk' = [disk EXCEPT ![PathOf(io[c].object)] =
              Written(@, at, SubSeq(io[c].source, io[c].total_size + 1, io[c].total_size + n))]
        /\ UNCHANGED <<open_handles, native_handle>>
Stops(c) == io'[c].data = io[c].data /\ UNCHANGED handleVars

LEMMA ChunkIs ==
    ASSUME NEW t, t.size \in Nat, t.total_size \in 0 .. t.size
    PROVE  ChunkSize(t) \in Nat /\ t.total_size + ChunkSize(t) <= t.size
<1>1. PICK size \in Nat, total \in Nat : size = t.size /\ total = t.total_size /\ total <= size
  OBVIOUS
<1>2. size - total \in Nat /\ max_io_chunk_bytes \in Nat  BY <1>1, PlatformAssumption
<1>3. /\ Minimum(size - total, max_io_chunk_bytes) \in Nat
      /\ Minimum(size - total, max_io_chunk_bytes) <= size - total
  BY <1>2, MinimumIs
<1> QED  BY <1>1, <1>3 DEF ChunkSize

LEMMA ProgressContinues ==
    ASSUME IoTypes, DOMAIN io = Clients, NEW c \in Clients, io[c] # NoTransfer,
           NEW n \in Nat, n <= ChunkSize(io[c]), NEW bytes, Progress(c, n, bytes)
    PROVE  Continues(c, n) /\ io'[c].data = io[c].data \o bytes
<1>1. PICK outcome : io' = [io EXCEPT ![c].total_size = @ + n, ![c].data = @ \o bytes,
                                      ![c].outcome = outcome]
  <2>1. PICK outcome : outcome = IF n < ChunkSize(io[c]) \/ io[c].total_size + n = io[c].size
                                 THEN "ok" ELSE "running"
    OBVIOUS
  <2> QED  BY <2>1 DEF Progress
<1>2. IoTypesOf(c, io[c])  BY DEF IoTypes
<1>3. /\ DOMAIN io[c] = TransferFields /\ io[c].size \in Nat
      /\ io[c].total_size \in 0 .. io[c].size
  BY <1>2 DEF IoTypesOf
<1>4. io[c].total_size + n <= io[c].size
  <2>1. PICK size \in Nat, total \in Nat : size = io[c].size /\ total = io[c].total_size
    BY <1>3
  <2>2. PICK chunk \in Nat : chunk = ChunkSize(io[c]) /\ total + chunk <= size
    BY <1>3, <2>1, ChunkIs
  <2> QED  BY <2>1, <2>2
<1>5. /\ DOMAIN io'[c] = TransferFields
      /\ io'[c].kind = io[c].kind /\ io'[c].object = io[c].object
      /\ io'[c].offset = io[c].offset /\ io'[c].source = io[c].source
      /\ io'[c].size = io[c].size /\ io'[c].total_size = io[c].total_size + n
      /\ io'[c].data = io[c].data \o bytes
  BY <1>1, <1>3 DEF TransferFields
<1>6. \A d \in Clients : d # c => io'[d] = io[d]  BY <1>1
<1> QED  BY <1>4, <1>5, <1>6 DEF Continues, SameTransfer

LEMMA TransferContinues ==
    ASSUME HandlesInv, DataTypes, NEW c \in Clients, TransferStep(c)
    PROVE  \E n \in Nat : /\ Continues(c, n)
                          /\ ReadsOn(c, n) \/ WritesOn(c, n) \/ (n = 0 /\ Stops(c))
<1>0. IoTypes /\ DOMAIN io = Clients  BY DEF HandlesInv, DataTypes
<1>1. io[c] # NoTransfer
  BY NoTransferKind DEF TransferStep, doRead, doWrite, IoFails, Running
<1>2. IoTypesOf(c, io[c])  BY <1>0 DEF IoTypes
<1>3. /\ DOMAIN io[c] = TransferFields /\ io[c].size \in Nat /\ io[c].offset \in Nat
      /\ io[c].total_size \in 0 .. io[c].size
  BY <1>1, <1>2 DEF IoTypesOf
<1>4. ChunkSize(io[c]) \in Nat  BY <1>3, ChunkIs
<1>5. CASE doRead(c)
  <2>1. PICK content : content = disk[PathOf(io[c].object)]  OBVIOUS
  <2>2. PICK at \in Nat : at = io[c].offset + io[c].total_size  BY <1>3
  <2>3. /\ io[c].kind = "read" /\ at < Len(content) /\ UNCHANGED handleVars
        /\ Progress(c, Minimum(ChunkSize(io[c]), Len(content) - at),
              SubSeq(content, at + 1, at + Minimum(ChunkSize(io[c]), Len(content) - at)))
    BY <1>5, <2>1, <2>2 DEF doRead, Running
  <2>4. Len(content) \in Nat
    <3>1. isOpen(io[c].object)
      <4>1. io[c].kind # "none"  BY <2>3
      <4> QED  BY <4>1, HandlesInvImplies DEF HandlesOwnedOnce
    <3> QED  BY <2>1, <3>1, SizeIsNat DEF HandlesInv, DataTypes, sizeOf
  <2>5. PICK n \in Nat : /\ n = Minimum(ChunkSize(io[c]), Len(content) - at)
                         /\ n <= ChunkSize(io[c]) /\ at + n <= Len(content)
    <3>1. PICK len \in Nat, chunk \in Nat : len = Len(content) /\ chunk = ChunkSize(io[c])
      BY <1>4, <2>4
    <3>2. len - at \in Nat  BY <2>3, <3>1
    <3>3. /\ Minimum(chunk, len - at) \in Nat /\ Minimum(chunk, len - at) <= chunk
          /\ Minimum(chunk, len - at) <= len - at
      BY <3>2, MinimumIs
    <3> QED  BY <3>1, <3>3
  <2>6. Progress(c, n, SubSeq(content, at + 1, at + n))  BY <2>3, <2>5
  <2>7. /\ Continues(c, n)
        /\ io'[c].data = io[c].data \o SubSeq(content, at + 1, at + n)
    BY <1>0, <1>1, <2>5, <2>6, ProgressContinues
  <2>8. ReadsOn(c, n)  BY <2>1, <2>2, <2>3, <2>5, <2>7 DEF ReadsOn
  <2> QED  BY <2>7, <2>8
<1>6. CASE doWrite(c)
  <2>1. PICK n \in 1 .. ChunkSize(io[c]) :
          /\ io[c].kind = "write" /\ UNCHANGED <<open_handles, native_handle>>
          /\ disk' = [disk EXCEPT ![PathOf(io[c].object)] =
                Written(@, io[c].offset + io[c].total_size,
                   SubSeq(io[c].source, io[c].total_size + 1, io[c].total_size + n))]
          /\ Progress(c, n, <<>>)
    BY <1>6 DEF doWrite, Running
  <2>2. n \in Nat /\ n <= ChunkSize(io[c])  BY <1>4
  <2>3. Continues(c, n)  BY <1>0, <1>1, <2>1, <2>2, ProgressContinues
  <2> QED  BY <2>1, <2>2, <2>3 DEF WritesOn
<1>7. CASE IoFails(c)
  <2>1. io' = [io EXCEPT ![c].outcome = "error"] /\ UNCHANGED handleVars
    BY <1>7 DEF IoFails
  <2>2. /\ DOMAIN io'[c] = TransferFields
        /\ io'[c].kind = io[c].kind /\ io'[c].object = io[c].object
        /\ io'[c].offset = io[c].offset /\ io'[c].source = io[c].source
        /\ io'[c].size = io[c].size /\ io'[c].total_size = io[c].total_size
        /\ io'[c].data = io[c].data /\ \A d \in Clients : d # c => io'[d] = io[d]
    BY <1>0, <1>3, <2>1 DEF TransferFields
  <2>3. io[c].total_size + 0 = io[c].total_size /\ io[c].total_size <= io[c].size
    BY <1>3
  <2>4. Continues(c, 0) /\ Stops(c)
    BY <1>1, <2>1, <2>2, <2>3 DEF Continues, Stops, SameTransfer
  <2> QED  BY <2>4
<1> QED  BY <1>5, <1>6, <1>7 DEF TransferStep

-----------------------------------------------------------------------------
(* The types are kept.                                                     *)
LEMMA IoTypesKept ==
    ASSUME HandlesInv, DataTypes, NEW c \in Clients, IoStep(c)
    PROVE  IoTypesOf(c, io'[c])
<1>0. IoTypesOf(c, io[c])  BY DEF DataTypes, IoTypes
<1>1. CASE io'[c] = io[c] \/ io'[c] = NoTransfer  BY <1>0, <1>1 DEF IoTypesOf
<1>2. CASE BeginsRead(c)
  <2>1. c \notin Writers  BY <1>2 DEF BeginsRead
  <2>2. PICK o : \E offset, size \in Nat : io'[c] = Transfer("read", o, offset, <<>>, size)
    BY <1>2 DEF BeginsRead
  <2>3. PICK offset \in Nat, size \in Nat : io'[c] = Transfer("read", o, offset, <<>>, size)
    BY <2>2
  <2>4. /\ DOMAIN io'[c] = TransferFields /\ io'[c].kind = "read"
        /\ io'[c].offset = offset /\ io'[c].size = size /\ io'[c].total_size = 0
        /\ io'[c].data = <<>>
    BY <2>3, BeginTypes
  <2>5. io'[c].data \in Seq(Nat) /\ Len(io'[c].data) = 0  BY <2>4
  <2> QED  BY <2>1, <2>4, <2>5 DEF IoTypesOf
<1>3. CASE BeginsWrite(c)
  <2>1. PICK w \in Writes :
          /\ c \in Writers /\ w.by = c
          /\ io'[c] = Transfer("write", WriterFile, w.offset, w.source, Len(w.source))
    BY <1>3 DEF BeginsWrite
  <2>2. w.offset \in Nat /\ Len(w.source) \in Nat
    BY PlatformAssumption, LenProperties
  <2>3. /\ DOMAIN io'[c] = TransferFields /\ io'[c].kind = "write"
        /\ io'[c].offset = w.offset /\ io'[c].source = w.source
        /\ io'[c].size = Len(w.source) /\ io'[c].total_size = 0
    BY <2>1, <2>2, BeginTypes
  <2> QED  BY <2>1, <2>2, <2>3 DEF IoTypesOf
<1>4. CASE TransferStep(c)
  <2>1. PICK n \in Nat : /\ Continues(c, n)
                         /\ ReadsOn(c, n) \/ WritesOn(c, n) \/ (n = 0 /\ Stops(c))
    BY <1>4, TransferContinues
  <2>2. PICK offset \in Nat, size \in Nat, total \in Nat :
          /\ offset = io[c].offset /\ size = io[c].size /\ total = io[c].total_size
          /\ total <= size
    BY <1>0, <2>1 DEF IoTypesOf, Continues
  <2>3. /\ DOMAIN io'[c] = TransferFields /\ io'[c].kind = io[c].kind
        /\ io'[c].offset = offset /\ io'[c].source = io[c].source
        /\ io'[c].size = size /\ io'[c].total_size = total + n /\ total + n <= size
    BY <2>1, <2>2 DEF Continues
  <2>4. CASE io[c].kind = "write"
    BY <1>0, <2>1, <2>2, <2>3, <2>4 DEF IoTypesOf, Continues
  <2>5. CASE io[c].kind = "read"
    <3>1. c \notin Writers /\ io[c].data \in Seq(Nat) /\ Len(io[c].data) = total
      BY <1>0, <2>1, <2>2, <2>5 DEF IoTypesOf, Continues
    <3>2. io'[c].data \in Seq(Nat) /\ Len(io'[c].data) = total + n
      <4>1. CASE n = 0 /\ Stops(c)  BY <2>2, <3>1, <4>1 DEF Stops
      <4>2. CASE ReadsOn(c, n)
        <5>1. PICK content : content = disk[PathOf(io[c].object)]  OBVIOUS
        <5>2. content \in Seq(Nat)
          <6>1. isOpen(io[c].object)
            <7>1. io[c].kind # "none"  BY <2>5
            <7> QED  BY <7>1, HandlesInvImplies DEF HandlesOwnedOnce
          <6> QED  BY <5>1, <6>1, SizeIsNat DEF HandlesInv, DataTypes
        <5>3. PICK at \in Nat : at = offset + total  OBVIOUS
        <5>4. /\ at + n <= Len(content)
              /\ io'[c].data = io[c].data \o SubSeq(content, at + 1, at + n)
          BY <2>2, <4>2, <5>1, <5>3 DEF ReadsOn
        <5>5. /\ SubSeq(content, at + 1, at + n) \in Seq(Nat)
              /\ Len(SubSeq(content, at + 1, at + n)) = n
          <6>1. at + 1 \in 1 .. Len(content) + 1 /\ at + n \in at + 1 - 1 .. Len(content)
            BY <5>2, <5>4, LenProperties
          <6>2. (at + n) - (at + 1) + 1 = n  OBVIOUS
          <6> QED  BY <5>2, <6>1, <6>2, SubSeqProperties
        <5>6. PICK data \in Seq(Nat), more \in Seq(Nat) :
                data = io[c].data /\ more = SubSeq(content, at + 1, at + n)
          BY <3>1, <5>5
        <5>7. data \o more \in Seq(Nat) /\ Len(data \o more) = total + n
          <6>1. data \o more \in Seq(Nat) /\ Len(data \o more) = Len(data) + Len(more)
            BY ConcatProperties
          <6>2. Len(data) = total /\ Len(more) = n  BY <3>1, <5>5, <5>6
          <6> QED  BY <6>1, <6>2
        <5> QED  BY <5>4, <5>6, <5>7
      <4>3. ~WritesOn(c, n)  BY <2>5 DEF WritesOn
      <4> QED  BY <2>1, <4>1, <4>2, <4>3
    <3> QED  BY <2>2, <2>3, <2>5, <3>1, <3>2 DEF IoTypesOf
  <2> QED  BY <1>0, <2>1, <2>4, <2>5 DEF IoTypesOf, Continues
<1> QED  BY <1>1, <1>2, <1>3, <1>4 DEF IoStep

LEMMA WrittenType ==
    ASSUME NEW content \in Seq(Nat), NEW at \in Nat, NEW bytes \in Seq(Nat)
    PROVE  Written(content, at, bytes) \in Seq(Nat)
<1>1. PICK m \in Nat, k \in Nat : m = Len(content) /\ k = Len(bytes)  BY LenProperties
<1>2. PICK len \in Nat : len = IF m > at + k THEN m ELSE at + k  BY <1>1
<1>3. Written(content, at, bytes) =
        [i \in 1 .. len |-> IF i \in at + 1 .. at + k THEN bytes[i - at]
                            ELSE IF i <= m THEN content[i] ELSE 0]
  BY <1>1, <1>2 DEF Written
<1>4. ASSUME NEW i \in 1 .. len
      PROVE  (IF i \in at + 1 .. at + k THEN bytes[i - at]
              ELSE IF i <= m THEN content[i] ELSE 0) \in Nat
  <2>1. CASE i \in at + 1 .. at + k
    <3>1. i - at \in 1 .. k  BY <1>1, <2>1
    <3> QED  BY <1>1, <2>1, <3>1, ElementOfSeq
  <2>2. CASE i \notin at + 1 .. at + k /\ i <= m
    <3>1. i \in 1 .. m  BY <1>2, <2>2
    <3> QED  BY <1>1, <2>2, <3>1, ElementOfSeq
  <2>3. CASE i \notin at + 1 .. at + k /\ ~(i <= m)  BY <2>3
  <2> QED  BY <2>1, <2>2, <2>3
<1>5. \A i \in 1 .. len : Written(content, at, bytes)[i] \in Nat  BY <1>3, <1>4
<1> QED  BY <1>3, <1>5

(* What a write puts into the file is a part of its source.                *)
LEMMA WrittenPart ==
    ASSUME HandlesInv, DataTypes, NEW c \in Clients, NEW n \in Nat,
           Continues(c, n), WritesOn(c, n)
    PROVE  /\ c \in Writers /\ io[c].object = WriterFile /\ isOpen(WriterFile)
           /\ io[c].source \in Seq(Nat) /\ io[c].size = Len(io[c].source)
           /\ \E w \in Writes : w.by = c /\ io[c].offset = w.offset /\ io[c].source = w.source
           /\ io[c].offset + io[c].total_size \in Nat
           /\ SubSeq(io[c].source, io[c].total_size + 1, io[c].total_size + n) \in Seq(Nat)
           /\ Len(SubSeq(io[c].source, io[c].total_size + 1, io[c].total_size + n)) = n
           /\ \A k \in 1 .. n :
                 SubSeq(io[c].source, io[c].total_size + 1, io[c].total_size + n)[k]
                    = io[c].source[io[c].total_size + k]
<1>0. IoTypesOf(c, io[c]) /\ io[c].kind = "write" /\ io[c] # NoTransfer
  BY DEF DataTypes, IoTypes, WritesOn, Continues
<1>1. PICK w \in Writes : /\ w.by = c /\ io[c].offset = w.offset /\ io[c].source = w.source
                          /\ io[c].size = Len(w.source) /\ c \in Writers
  BY <1>0 DEF IoTypesOf
<1>2. PICK offset \in Nat, total \in Nat, source \in Seq(Nat) :
        /\ offset = io[c].offset /\ total = io[c].total_size /\ source = io[c].source
        /\ total + n <= Len(source)
  BY <1>0, <1>1, PlatformAssumption DEF IoTypesOf, Continues
<1>3. \A i \in total + 1 .. total + n : source[i] \in Nat
  <2>1. PICK len \in Nat : len = Len(source)  BY LenProperties
  <2> QED  BY SMTT(20), <1>2, <2>1, ElementOfSeq
<1>4. total + 1 \in Int /\ total + n \in Int  OBVIOUS
<1>5. /\ SubSeq(source, total + 1, total + n) \in Seq(Nat)
      /\ Len(SubSeq(source, total + 1, total + n))
           = IF total + 1 <= total + n THEN (total + n) - (total + 1) + 1 ELSE 0
      /\ \A k \in 1 .. (total + n) - (total + 1) + 1 :
            SubSeq(source, total + 1, total + n)[k] = source[total + 1 + k - 1]
  BY <1>3, <1>4, SubSeqProperties
<1>6. /\ Len(SubSeq(source, total + 1, total + n)) = n
      /\ \A k \in 1 .. n : SubSeq(source, total + 1, total + n)[k] = source[total + k]
  BY <1>5
<1>7. io[c].object = WriterFile /\ isOpen(WriterFile)
  BY <1>0, <1>1 DEF HandlesInv, WriterOK, TransferTo
<1>8. PICK part : part = SubSeq(source, total + 1, total + n)  OBVIOUS
<1>9. SubSeq(io[c].source, io[c].total_size + 1, io[c].total_size + n) = part
  BY <1>2, <1>8
<1>10. /\ part \in Seq(Nat) /\ Len(part) = n
       /\ \A k \in 1 .. n : part[k] = io[c].source[io[c].total_size + k]
  BY <1>2, <1>5, <1>6, <1>8
<1>11. /\ c \in Writers /\ io[c].source \in Seq(Nat) /\ io[c].size = Len(io[c].source)
       /\ \E v \in Writes : v.by = c /\ io[c].offset = v.offset /\ io[c].source = v.source
       /\ io[c].offset + io[c].total_size \in Nat
  BY <1>1, <1>2
<1> QED  BY <1>7, <1>9, <1>10, <1>11

LEMMA WriteStep ==
    ASSUME HandlesInv, DataTypes, WritesThrough
    PROVE  \E c \in Clients : \E n \in Nat : Continues(c, n) /\ WritesOn(c, n)
<1>1. PICK c \in Clients : doWrite(c)  BY ThreadsApart DEF WritesThrough
<1>2. PICK n \in Nat : Continues(c, n) /\ (ReadsOn(c, n) \/ WritesOn(c, n) \/ (n = 0 /\ Stops(c)))
  BY <1>1, TransferContinues DEF TransferStep
<1>3. io[c].kind = "write"  BY <1>1 DEF doWrite, Running
<1>4. CASE WritesOn(c, n)  BY <1>2, <1>4
<1>5. CASE n = 0 /\ Stops(c)
  (* doWrite moves a byte at least.                                         *)
  <2>1. PICK k \in 1 .. ChunkSize(io[c]) : Progress(c, k, <<>>)  BY <1>1 DEF doWrite
  <2>2. IoTypesOf(c, io[c]) /\ io[c] # NoTransfer
    BY <1>2 DEF DataTypes, IoTypes, Continues
  <2>3. ChunkSize(io[c]) \in Nat  BY <2>2, ChunkIs DEF IoTypesOf
  <2>4. Continues(c, k)
    BY <2>1, <2>2, <2>3, ProgressContinues DEF DataTypes, HandlesInv
  <2>5. PICK total \in Nat : total = io[c].total_size  BY <2>2 DEF IoTypesOf
  <2>6. io'[c].total_size = total + k /\ io'[c].total_size = total + 0
    BY <1>2, <1>5, <2>4, <2>5 DEF Continues
  <2> QED  BY <2>3, <2>6
<1>6. ~ReadsOn(c, n)  BY <1>3 DEF ReadsOn
<1> QED  BY <1>2, <1>4, <1>5, <1>6

LEMMA FilesKept ==
    ASSUME HandlesInv, DataTypes, FileStep
    PROVE  DiskTypes' /\ HandleTypes'
<1>0. OwnedOnce /\ DiskTypes /\ HandleTypes  BY DEF HandlesInv, DataTypes
<1>a. ASSUME DOMAIN disk' = DOMAIN disk, DOMAIN open_handles' \subseteq DOMAIN open_handles,
             \A h \in DOMAIN open_handles' : open_handles'[h] = open_handles[h]
      PROVE  HandleTypes'
  BY <1>0, <1>a DEF HandleTypes
<1>1. CASE UNCHANGED handleVars
  BY <1>0, <1>1 DEF handleVars, DiskTypes, HandleTypes
<1>2. CASE Opens
  <2>1. PICK o, path, options : OptionsOK(o, options) /\ open(o, path, options)
    BY <1>2 DEF Opens
  <2>2. PICK content : content = IF path \in DOMAIN disk /\ options.creation \notin Truncates
                                 THEN disk[path] ELSE <<>>
    OBVIOUS
  <2>3. PICK record : /\ disk' = With(disk, path, content)
                      /\ open_handles' = With(open_handles, NextHandle, record)
                      /\ record.path = path /\ record.access = desiredAccess[options.access]
                      /\ FreeHandles # {}
    BY <2>1, <2>2 DEF open
  <2>4. content \in Seq(Nat)  BY <1>0, <2>2 DEF DiskTypes
  <2>5. /\ DOMAIN disk' = DOMAIN disk \cup {path}
        /\ \A p \in DOMAIN disk' : disk'[p] = IF p = path THEN content ELSE disk[p]
    BY <2>3 DEF With
  <2>6. DiskTypes'  BY <1>0, <2>4, <2>5 DEF DiskTypes
  <2>7. record.access \subseteq {"read", "write"}
    BY <2>1, <2>3 DEF OptionsOK, desiredAccess
  <2>8. /\ DOMAIN open_handles' = DOMAIN open_handles \cup {NextHandle}
        /\ \A h \in DOMAIN open_handles' :
              open_handles'[h] = IF h = NextHandle THEN record ELSE open_handles[h]
    BY <2>3 DEF With
  <2>9. NextHandle \in Handles  BY <2>3, NextHandleFree
  <2>10. HandleTypes'  BY <1>0, <2>3, <2>5, <2>7, <2>8, <2>9 DEF HandleTypes
  <2> QED  BY <2>6, <2>10
<1>3. CASE Closes
  <2>1. PICK os : close(os)  BY <1>3 DEF Closes
  <2>2. /\ disk' = disk /\ DOMAIN open_handles' \subseteq DOMAIN open_handles
        /\ \A h \in DOMAIN open_handles' : open_handles'[h] = open_handles[h]
    BY <2>1 DEF close, Without
  <2> QED  BY <1>0, <1>a, <2>2 DEF DiskTypes
<1>4. CASE Moves
  <2>1. PICK source, target : move(source, target)  BY <1>4 DEF Moves
  <2>2. /\ disk' = disk /\ DOMAIN open_handles' \subseteq DOMAIN open_handles
        /\ \A h \in DOMAIN open_handles' : open_handles'[h] = open_handles[h]
    BY <2>1 DEF move, Without
  <2> QED  BY <1>0, <1>a, <2>2 DEF DiskTypes
<1>5. CASE MakesSection
  <2>1. isOpen(FileHandle) /\ CreateFileMapping  BY <1>5 DEF MakesSection
  <2>2. PICK record : /\ open_handles' = With(open_handles, NextHandle, record)
                      /\ record.path = PathOf(FileHandle) /\ record.access = {}
    BY <2>1 DEF CreateFileMapping
  <2>3. disk' = disk /\ NextHandle \in Handles
    BY <2>1, NextHandleFree DEF CreateFileMapping
  <2>4. PathOf(FileHandle) \in DOMAIN disk  BY <1>0, <2>1, SizeIsNat
  <2>5. /\ DOMAIN open_handles' = DOMAIN open_handles \cup {NextHandle}
        /\ \A h \in DOMAIN open_handles' :
              open_handles'[h] = IF h = NextHandle THEN record ELSE open_handles[h]
    BY <2>2 DEF With
  <2>6. HandleTypes'  BY <1>0, <2>2, <2>3, <2>4, <2>5 DEF HandleTypes
  <2> QED  BY <1>0, <2>3, <2>6 DEF DiskTypes
<1>6. CASE WritesThrough
  <2>1. PICK c \in Clients, n \in Nat : Continues(c, n) /\ WritesOn(c, n)
    BY <1>6, WriteStep
  <2>2. PICK path : path = PathOf(io[c].object)  OBVIOUS
  <2>3. path \in DOMAIN disk /\ disk[path] \in Seq(Nat)
    BY <1>0, <2>1, <2>2, WrittenPart, SizeIsNat
  <2>4. PICK at \in Nat, bytes \in Seq(Nat) : disk' = [disk EXCEPT ![path] = Written(@, at, bytes)]
    BY <2>1, <2>2, WrittenPart DEF WritesOn
  <2>5. Written(disk[path], at, bytes) \in Seq(Nat)  BY <2>3, WrittenType
  <2>6. DiskTypes'  BY <1>0, <2>3, <2>4, <2>5 DEF DiskTypes
  <2>7. HandleTypes'  BY <1>a, <2>1, <2>4 DEF WritesOn
  <2> QED  BY <2>6, <2>7
<1>7. CASE resize
  <2>1. isOpen(WriterFile)  BY <1>7 DEF resize
  <2>2. PICK path : path = PathOf(WriterFile)  OBVIOUS
  <2>3. path \in DOMAIN disk /\ disk[path] \in Seq(Nat)
    BY <1>0, <2>1, <2>2, SizeIsNat
  <2>4. PICK size \in Sizes :
          disk' = [disk EXCEPT ![path] = IF size < Len(@) THEN SubSeq(@, 1, size)
                                         ELSE @ \o [i \in 1 .. size - Len(@) |-> 0]]
    BY <1>7, <2>2 DEF resize
  <2>5. PICK content \in Seq(Nat), len \in Nat : content = disk[path] /\ len = Len(content)
    BY <2>3, LenProperties
  <2>6. size \in Nat  BY PlatformAssumption
  <2>7. ASSUME size < len PROVE SubSeq(content, 1, size) \in Seq(Nat)
    BY <2>5, <2>6, <2>7, SubSeqProperties, ElementOfSeq
  <2>8. ASSUME ~(size < len) PROVE content \o [i \in 1 .. size - len |-> 0] \in Seq(Nat)
    <3>1. PICK k \in Nat : k = size - len  BY <2>6, <2>8
    <3>2. [i \in 1 .. k |-> 0] \in Seq(Nat)  OBVIOUS
    <3> QED  BY <3>1, <3>2, ConcatProperties
  <2>9. disk'[path] \in Seq(Nat) /\ DOMAIN disk' = DOMAIN disk
        /\ \A p \in DOMAIN disk : p # path => disk'[p] = disk[p]
    <3>1. CASE size < len  BY <2>3, <2>4, <2>5, <2>7, <3>1
    <3>2. CASE ~(size < len)  BY <2>3, <2>4, <2>5, <2>8, <3>2
    <3> QED  BY <3>1, <3>2
  <2>10. UNCHANGED open_handles  BY <1>7 DEF resize
  <2> QED  BY <1>0, <1>a, <2>9, <2>10 DEF DiskTypes
<1> QED  BY <1>1, <1>2, <1>3, <1>4, <1>5, <1>6, <1>7 DEF FileStep

LEMMA SessionTypesFrame ==
    ASSUME SessionTypes, UNCHANGED session,
           Session("reading") => /\ io'[SessionThread].size = io[SessionThread].size
                                 /\ io'[SessionThread] # NoTransfer
    PROVE  SessionTypes'
BY DEF SessionTypes, Session

LEMMA UserTypesFrame == ASSUME UserTypes, UNCHANGED <<owner, user>> PROVE UserTypes'
BY DEF UserTypes, InRun, User

LEMMA OneIoStep ==
    ASSUME NEW c, IoStep(c), \A d \in Clients : d # c => SameTransfer(d)
    PROVE  \A d \in Clients : IoStep(d)
BY DEF IoStep, SameTransfer

LEMMA NextData ==
    ASSUME HandlesInv, DataTypes, Next
    PROVE  /\ FileStep /\ \A c \in Clients : IoStep(c)
           /\ SessionTypes' /\ HelperTypes' /\ UserTypes'
<1> USE DEF schedulerVars, taskVars
<1>0. /\ OwnedOnce /\ DOMAIN io = Clients /\ SessionOK /\ HelperOK /\ MapperOK
      /\ SessionTypes /\ HelperTypes /\ UserTypes
  BY DEF HandlesInv, DataTypes
<1>s. ASSUME UNCHANGED session, SameTransfer(SessionThread) PROVE SessionTypes'
  BY <1>0, <1>s, SessionTypesFrame DEF SessionTypes, SameTransfer
<1>h. ASSUME UNCHANGED helper PROVE HelperTypes'  BY <1>0, <1>h DEF HelperTypes, Helper
<1>1. CASE Session_
  <2>1. SessionStep /\ UNCHANGED <<helper, owner, user>>  BY <1>1 DEF Session_
  <2>2. FileStep /\ IoStep(SessionThread) /\ SessionTypes'  BY <2>1, SessionData
  <2>3. \A d \in Clients : d # SessionThread => SameTransfer(d)
    BY <1>0, <2>1, SessionStepOK DEF OnlyTransferOf
  <2> QED  BY <1>0, <1>h, <2>1, <2>2, <2>3, OneIoStep, UserTypesFrame
<1>2. CASE Helper_
  <2>1. HelperStep /\ UNCHANGED <<session, owner, user>>  BY <1>2 DEF Helper_
  <2>2. FileStep /\ IoStep(HelperThread) /\ HelperTypes'  BY <2>1, HelperData
  <2>3. \A d : d # HelperThread => SameTransfer(d)
    BY <1>0, <2>1, HelperStepOK DEF OnlyTransferOf
  <2>4. SameTransfer(SessionThread)  BY <2>3, ThreadsApart
  <2> QED  BY <1>0, <1>s, <2>1, <2>2, <2>3, <2>4, OneIoStep, UserTypesFrame
<1>3. CASE Mapper_
  <2>1. MapperStep /\ UNCHANGED <<session, helper, owner, user, io>>
    BY <1>3 DEF Mapper_, MapperStep
  <2>2. FileStep  BY <2>1, MapperData
  <2> QED  BY <1>0, <1>s, <1>h, <2>1, <2>2, UserTypesFrame DEF IoStep, SameTransfer
<1>4. CASE Scheduler_
  <2>1. UNCHANGED <<session, helper>>  BY <1>4 DEF Scheduler_
  <2>2. ASSUME NEW t \in PoolThreads, TaskStep(t)
        PROVE  /\ FileStep /\ \A c \in Clients : IoStep(c)
               /\ SessionTypes' /\ UserTypes'
    <3>1. FileStep /\ IoStep(t) /\ UserTypes'  BY <2>2, TaskData
    <3>2. \A d : d # t => SameTransfer(d)  BY <2>2, TaskStepOK DEF OnlyTransferOf
    <3>3. SameTransfer(SessionThread)  BY <3>2, ThreadsApart
    <3> QED  BY <1>s, <2>1, <3>1, <3>2, <3>3, OneIoStep
  <2>3. ASSUME NEW u \in Users, UserStep(u) \/ ShutdownResets(u)
        PROVE  /\ FileStep /\ \A c \in Clients : IoStep(c)
               /\ SessionTypes' /\ UserTypes'
    <3>1. FileStep /\ UNCHANGED io /\ UserTypes'
      BY <2>3, UserData, ShutdownData DEF FileStep
    <3> QED  BY <1>s, <2>1, <3>1 DEF IoStep, SameTransfer
  <2> QED  BY <1>4, <1>h, <2>1, <2>2, <2>3 DEF Scheduler_, SchedulerStep
<1>5. CASE Writer_
  <2>1. WriterStep(clients) /\ UNCHANGED <<session, helper, owner, user>>
    BY <1>5 DEF Writer_
  <2>2. FileStep /\ \A c \in Clients : IoStep(c)  BY <2>1, WriterData
  <2>3. \A c : c \notin Writers => SameTransfer(c)
    BY <1>0, <2>1, WriterStepOK DEF HandlesInv
  <2>4. SameTransfer(SessionThread)  BY <2>3, ThreadsApart
  <2> QED  BY <1>0, <1>s, <1>h, <2>1, <2>2, <2>4, UserTypesFrame
<1>6. ASSUME NEW c \in Clients, Transfer_(c)
      PROVE  /\ FileStep /\ \A d \in Clients : IoStep(d)
             /\ SessionTypes' /\ HelperTypes' /\ UserTypes'
  <2>1. TransferStep(c) /\ UNCHANGED <<session, helper, owner, user>>  BY <1>6 DEF Transfer_
  <2>2. FileStep  BY <2>1, TransferData
  <2>3. PICK n \in Nat : Continues(c, n)  BY <2>1, TransferContinues
  <2>4. \A d \in Clients : IoStep(d)
    BY <2>1, <2>3, OneIoStep DEF Continues, IoStep
  <2>5. Session("reading") => /\ io'[SessionThread].size = io[SessionThread].size
                              /\ io'[SessionThread] # NoTransfer
    <3>1. CASE c = SessionThread
      <4>1. DOMAIN io'[c] # DOMAIN NoTransfer
        <5>1. "size" \in DOMAIN io'[c]  BY <2>3 DEF Continues, TransferFields
        <5>2. "size" \notin DOMAIN NoTransfer  BY DEF NoTransfer
        <5> QED  BY <5>1, <5>2
      <4> QED  BY <2>3, <3>1, <4>1 DEF Continues
    <3>2. CASE c # SessionThread
      BY <1>0, <2>3, <3>2, ThreadsApart DEF Continues, SameTransfer, SessionTypes
    <3> QED  BY <3>1, <3>2
  <2>6. SessionTypes'  BY <1>0, <2>1, <2>5, SessionTypesFrame
  <2> QED  BY <1>0, <1>h, <2>1, <2>2, <2>4, <2>6, UserTypesFrame
<1> QED  BY <1>1, <1>2, <1>3, <1>4, <1>5, <1>6 DEF Next

LEMMA DataTypesInit == Init => DataTypes
<1> SUFFICES ASSUME Init PROVE DataTypes  OBVIOUS
<1> USE DEF Init, PlatformInit, SessionInit, HelperInit, MapperInit, SchedulerInit, PoolInit
<1>1. DiskTypes  BY PlatformAssumption DEF DiskTypes
<1>2. HandleTypes  BY DEF HandleTypes
<1>3. IoTypes  BY DEF IoTypes, IoTypesOf
<1>4. SessionTypes  BY DEF SessionTypes, SessionFields, Session
<1>5. HelperTypes  BY DEF HelperTypes, Helper, NoHelper
<1>6. UserTypes  BY DEF UserTypes, InRun, User, NoRun
<1> QED  BY <1>1, <1>2, <1>3, <1>4, <1>5, <1>6 DEF DataTypes

LEMMA DataTypesNext == HandlesInv /\ DataTypes /\ [Next]_vars => DataTypes'
<1> SUFFICES ASSUME HandlesInv, DataTypes, [Next]_vars PROVE DataTypes'  OBVIOUS
<1>1. CASE Next
  <2>1. FileStep /\ (\A c \in Clients : IoStep(c)) /\ SessionTypes' /\ HelperTypes' /\ UserTypes'
    BY <1>1, NextData
  <2>2. DiskTypes' /\ HandleTypes'  BY <2>1, FilesKept
  <2>3. IoTypes'
    <3>1. \A c \in Clients : IoTypesOf(c, io'[c])  BY <2>1, IoTypesKept
    <3> QED  BY <3>1 DEF IoTypes, IoTypesOf
  <2> QED  BY <2>1, <2>2, <2>3 DEF DataTypes
<1>2. CASE UNCHANGED vars
  <2>1. UNCHANGED <<disk, open_handles, io, session, helper, owner, user>>
    BY <1>2 DEF vars, handleVars, schedulerVars, taskVars
  <2> QED
    BY <2>1 DEF DataTypes, DiskTypes, HandleTypes, IoTypes, IoTypesOf, SessionTypes, HelperTypes,
                UserTypes, Session, Helper, InRun, User
<1> QED  BY <1>1, <1>2

LEMMA DataTypesImply == HandlesInv /\ DataTypes => TypeOK
<1> SUFFICES ASSUME HandlesInv, DataTypes PROVE TypeOK  OBVIOUS
<1>1. HandleTypes /\ SessionTypes /\ UserTypes /\ JobsOK  BY DEF HandlesInv, DataTypes
<1>2. ASSUME NEW c \in Clients, io[c].kind # "none"
      PROVE  /\ io[c].total_size \in 0 .. io[c].size
             /\ io[c].kind = "read" => Len(io[c].data) = io[c].total_size
  <2>1. IoTypesOf(c, io[c]) /\ io[c] # NoTransfer
    BY <1>2, NoTransferKind DEF DataTypes, IoTypes
  <2> QED  BY <2>1 DEF IoTypesOf
<1>3. \A t \in PoolThreads : job[t] \in Users \cup {Nobody}  BY <1>1 DEF JobsOK
<1> QED  BY <1>1, <1>2, <1>3 DEF TypeOK, HandleTypes, SessionTypes, UserTypes

(* The types of the file layer, whatever the clients, the calls they make  *)
(* and the chunks the system moves: no transfer moves more than was asked  *)
(* of it, one that reads has what it moved, and no session counts below    *)
(* zero (PlatformFileWin32, StreamReadSession, GlobalFileScheduler).       *)
THEOREM FileTypesAlways == Spec => []TypeOK
<1>1. HandlesInv /\ DataTypes /\ [Next]_vars => (HandlesInv /\ DataTypes)'
  BY HandlesInvNext, DataTypesNext
<1> QED  BY <1>1, HandlesInvInit, DataTypesInit, DataTypesImply, PTL DEF Spec

-----------------------------------------------------------------------------
(* Writes land.  What threads write at once through one file must not      *)
(* overlap, or the later one would be found where the earlier one wrote.   *)
WritesApart ==
    \A v, w \in Writes :
        v.by # w.by => \/ v.offset + Len(v.source) <= w.offset
                       \/ w.offset + Len(w.source) <= v.offset

LEMMA WrittenHolds ==
    ASSUME NEW content \in Seq(Nat), NEW at \in Nat, NEW bytes \in Seq(Nat), NEW i \in Nat \ {0},
           NEW k \in Nat, k = Len(bytes)
    PROVE  /\ i \in at + 1 .. at + k =>
                 /\ i \in DOMAIN Written(content, at, bytes)
                 /\ Written(content, at, bytes)[i] = bytes[i - at]
           /\ i \notin at + 1 .. at + k /\ i \in DOMAIN content =>
                 /\ i \in DOMAIN Written(content, at, bytes)
                 /\ Written(content, at, bytes)[i] = content[i]
<1>1. PICK m \in Nat : m = Len(content) /\ DOMAIN content = 1 .. m
  BY LenProperties
<1>2. PICK len \in Nat : len = (IF m > at + k THEN m ELSE at + k) /\ m <= len /\ at + k <= len
  BY <1>1
<1>3. Written(content, at, bytes) =
        [j \in 1 .. len |-> IF j \in at + 1 .. at + k THEN bytes[j - at]
                            ELSE IF j <= m THEN content[j] ELSE 0]
  BY <1>1, <1>2 DEF Written
<1>4. ASSUME i \in at + 1 .. at + k PROVE i \in 1 .. len  BY <1>2, <1>4
<1>5. ASSUME i \in DOMAIN content PROVE i \in 1 .. len /\ i <= m  BY <1>1, <1>2, <1>5
<1> QED  BY <1>1, <1>3, <1>4, <1>5

(* While a thread writes, nobody closes, opens anew or cuts its file.      *)
LEMMA WriterFileStays ==
    ASSUME HandlesInv, DataTypes, HandlesInv', FileStep,
           NEW c \in Writers, io[c] # NoTransfer, io'[c] # NoTransfer
    PROVE  /\ isOpen(WriterFile) /\ PathOf(WriterFile)' = PathOf(WriterFile)
           /\ \/ disk'[PathOf(WriterFile)] = disk[PathOf(WriterFile)]
              \/ WritesThrough
<1>0. OwnedOnce /\ isOpen(WriterFile) /\ isOpen(WriterFile)'
  BY DEF HandlesInv, WriterOK, TransferTo
<1>p. PathOf(WriterFile) \in DOMAIN disk  BY <1>0, SizeIsNat DEF DataTypes
<1>k. ASSUME Keeps(WriterFile) PROVE PathOf(WriterFile)' = PathOf(WriterFile)
  BY <1>0, <1>k DEF Keeps, PathOf, isOpen
<1>1. CASE UNCHANGED handleVars  BY <1>0, <1>1 DEF handleVars, PathOf
<1>2. CASE Opens
  <2>1. PICK o, path, options : OptionsOK(o, options) /\ ~isOpen(o) /\ open(o, path, options)
    BY <1>2 DEF Opens
  <2>2. o # WriterFile  BY <1>0, <2>1
  <2>3. Keeps(WriterFile)  BY <1>0, <2>1, <2>2, OpenOwns
  <2>4. options.creation = "openExisting"  BY <2>1, <2>2 DEF OptionsOK
  <2>5. path \in DOMAIN disk /\ options.creation \notin Truncates
    BY <2>1, <2>4 DEF open, CanOpen, Creates, Truncates
  <2>6. disk' = With(disk, path, disk[path])  BY <2>1, <2>5 DEF open
  <2>7. disk'[PathOf(WriterFile)] = disk[PathOf(WriterFile)]  BY <1>p, <2>6 DEF With
  <2> QED  BY <1>0, <1>k, <2>3, <2>7
<1>3. CASE Closes
  <2>1. PICK os : close(os)  BY <1>3 DEF Closes
  <2>2. WriterFile \notin os  BY <1>0, <2>1, CloseOwns
  <2>3. Keeps(WriterFile)  BY <1>0, <2>1, <2>2, CloseOwns
  <2> QED  BY <1>0, <1>k, <2>1, <2>3 DEF close
<1>4. CASE Moves
  <2>1. PICK source, target :
          /\ source # target /\ isOpen(source) /\ move(source, target)
          /\ source # WriterFile /\ target # WriterFile
    BY <1>4, Owners, ThreadsApart DEF Moves
  <2>2. Keeps(WriterFile)  BY <1>0, <2>1, MoveOwns
  <2> QED  BY <1>0, <1>k, <2>1, <2>2 DEF move
<1>5. CASE MakesSection
  <2>1. /\ ~isOpen(MappingHandle) /\ FreeHandles # {} /\ UNCHANGED disk
        /\ native_handle' = With(native_handle, MappingHandle, NextHandle)
        /\ \E record : open_handles' = With(open_handles, NextHandle, record)
    BY <1>5 DEF MakesSection, CreateFileMapping
  <2>2. Keeps(WriterFile)  BY <1>0, <2>1, GiveOwns, ObjectsApart
  <2> QED  BY <1>0, <1>k, <2>1, <2>2
<1>6. CASE WritesThrough
  <2>1. UNCHANGED <<open_handles, native_handle>>  BY <1>6 DEF WritesThrough, doWrite
  <2> QED  BY <1>0, <1>6, <2>1 DEF PathOf
<1>7. CASE resize  BY <1>7 DEF resize, WritersAlone
<1> QED  BY <1>1, <1>2, <1>3, <1>4, <1>5, <1>6, <1>7 DEF FileStep

(* What has been moved so far is in the file.                              *)
Landed(c) ==
    \A n \in 1 .. io[c].total_size :
        /\ io[c].offset + n \in DOMAIN disk[PathOf(WriterFile)]
        /\ disk[PathOf(WriterFile)][io[c].offset + n] = io[c].source[n]

LEMMA OwnWriteLands ==
    ASSUME HandlesInv, DataTypes, NEW c \in Clients, Landed(c), NEW n \in Nat,
           Continues(c, n), WritesOn(c, n)
    PROVE  Landed(c)'
<1>1. PICK path : path = PathOf(WriterFile) /\ path = PathOf(WriterFile)'
  BY DEF WritesOn, PathOf
<1>2. PICK content \in Seq(Nat) : content = disk[path] /\ path \in DOMAIN disk
  BY <1>1, WrittenPart, SizeIsNat DEF HandlesInv, DataTypes
<1>3. PICK offset \in Nat, total \in Nat :
        offset = io[c].offset /\ total = io[c].total_size
  BY DEF DataTypes, IoTypes, IoTypesOf, Continues
<1>4. PICK at \in Nat : at = offset + total  OBVIOUS
<1>9. \A m \in 1 .. total :
        offset + m \in DOMAIN content /\ content[offset + m] = io[c].source[m]
  <2>1. \A m \in 1 .. io[c].total_size :
          /\ io[c].offset + m \in DOMAIN disk[PathOf(WriterFile)]
          /\ disk[PathOf(WriterFile)][io[c].offset + m] = io[c].source[m]
    BY DEF Landed
  <2> QED  BY <1>1, <1>2, <1>3, <2>1
<1>5. PICK part \in Seq(Nat) :
        /\ part = SubSeq(io[c].source, io[c].total_size + 1, io[c].total_size + n)
        /\ Len(part) = n /\ \A k \in 1 .. n : part[k] = io[c].source[total + k]
  <2>1. /\ SubSeq(io[c].source, io[c].total_size + 1, io[c].total_size + n) \in Seq(Nat)
        /\ Len(SubSeq(io[c].source, io[c].total_size + 1, io[c].total_size + n)) = n
        /\ \A k \in 1 .. n :
              SubSeq(io[c].source, io[c].total_size + 1, io[c].total_size + n)[k]
                 = io[c].source[io[c].total_size + k]
    BY WrittenPart
  <2> QED  BY <1>3, <2>1
<1>6. disk'[path] = Written(content, at, part)
  BY <1>1, <1>2, <1>3, <1>4, <1>5, WrittenPart DEF WritesOn
<1>7. /\ io'[c].offset = offset /\ io'[c].source = io[c].source
      /\ io'[c].total_size = total + n
  BY <1>3 DEF Continues
<1>8. ASSUME NEW k \in 1 .. total + n
      PROVE  /\ offset + k \in DOMAIN disk'[path]
             /\ disk'[path][offset + k] = io[c].source[k]
  <2>1. PICK i \in Nat \ {0} : i = offset + k  OBVIOUS
  <2>0. /\ i \in at + 1 .. at + n => i \in DOMAIN disk'[path] /\ disk'[path][i] = part[i - at]
        /\ i \notin at + 1 .. at + n /\ i \in DOMAIN content =>
              i \in DOMAIN disk'[path] /\ disk'[path][i] = content[i]
    <3>1. n = Len(part)  BY <1>5
    <3> QED  BY SMTT(20), <1>6, <3>1, WrittenHolds
  <2>2. CASE k <= total
    <3>1. offset + k \notin at + 1 .. at + n  BY <1>4, <2>2
    <3>2. offset + k \in DOMAIN content /\ content[offset + k] = io[c].source[k]
      BY <1>9, <2>2
    <3> QED  BY <2>0, <2>1, <3>1, <3>2
  <2>3. CASE ~(k <= total)
    <3>1. PICK j \in 1 .. n : k = total + j  BY <2>3
    <3>2. offset + k \in at + 1 .. at + n /\ (offset + k) - at = j  BY <1>4, <3>1
    <3>3. disk'[path][offset + k] = part[j] /\ offset + k \in DOMAIN disk'[path]
      BY <2>0, <2>1, <3>2
    <3> QED  BY <1>5, <3>1, <3>3
  <2> QED  BY <2>2, <2>3
<1> QED  BY <1>1, <1>7, <1>8 DEF Landed

LEMMA OtherWriteLands ==
    ASSUME WritesApart, HandlesInv, DataTypes, NEW c \in Writers, io[c].kind = "write", Landed(c),
           NEW d \in Clients, d # c, NEW n \in Nat, Continues(d, n), WritesOn(d, n)
    PROVE  Landed(c)'
<1>0. c \in Clients /\ io'[c] = io[c] /\ io[c] # NoTransfer
  BY ThreadsApart, NoTransferKind DEF Continues, SameTransfer
<1>1. PICK path : path = PathOf(WriterFile) /\ path = PathOf(WriterFile)'
  BY DEF WritesOn, PathOf
<1>2. PICK content \in Seq(Nat) : content = disk[path] /\ path \in DOMAIN disk
  <2>1. isOpen(WriterFile)  BY WrittenPart
  <2> QED  BY <1>1, <2>1, SizeIsNat DEF HandlesInv, DataTypes
<1>3. PICK v \in Writes : /\ v.by = c /\ io[c].offset = v.offset /\ io[c].source = v.source
                          /\ io[c].total_size \in 0 .. Len(v.source)
  BY <1>0 DEF DataTypes, IoTypes, IoTypesOf
<1>4. PICK w \in Writes : /\ w.by = d /\ io[d].offset = w.offset /\ io[d].source = w.source
                          /\ io[d].size = Len(w.source)
  <2>1. PICK w \in Writes : w.by = d /\ io[d].offset = w.offset /\ io[d].source = w.source
    BY WrittenPart
  <2>2. io[d].size = Len(io[d].source)  BY WrittenPart
  <2> QED  BY <2>1, <2>2
<1>5. PICK mine \in Nat, len \in Nat, moved \in Nat :
        mine = v.offset /\ len = Len(v.source) /\ moved = io[c].total_size /\ moved <= len
  BY <1>3, PlatformAssumption, LenProperties
<1>6. PICK theirs \in Nat, size \in Nat, total \in Nat :
        /\ theirs = w.offset /\ size = Len(w.source) /\ total = io[d].total_size
        /\ total + n <= size
  BY <1>4, PlatformAssumption, LenProperties DEF DataTypes, IoTypes, IoTypesOf, Continues
<1>7. mine + len <= theirs \/ theirs + size <= mine
  BY <1>3, <1>4, <1>5, <1>6 DEF WritesApart
<1>8. PICK at \in Nat : at = theirs + total  OBVIOUS
<1>9. PICK part \in Seq(Nat) :
        /\ part = SubSeq(io[d].source, io[d].total_size + 1, io[d].total_size + n)
        /\ Len(part) = n
  <2>1. /\ SubSeq(io[d].source, io[d].total_size + 1, io[d].total_size + n) \in Seq(Nat)
        /\ Len(SubSeq(io[d].source, io[d].total_size + 1, io[d].total_size + n)) = n
    BY WrittenPart
  <2> QED  BY <2>1
<1>10. disk'[path] = Written(content, at, part)
  <2>1. /\ io[d].object = WriterFile
        /\ disk' = [disk EXCEPT ![PathOf(io[d].object)] =
              Written(@, io[d].offset + io[d].total_size,
                      SubSeq(io[d].source, io[d].total_size + 1, io[d].total_size + n))]
    BY WrittenPart DEF WritesOn
  <2>2. at = io[d].offset + io[d].total_size  BY <1>4, <1>6, <1>8
  <2>3. disk' = [disk EXCEPT ![path] = Written(@, at, part)]  BY <1>1, <1>9, <2>1, <2>2
  <2> QED  BY <1>2, <2>3
<1>11. ASSUME NEW k \in 1 .. moved
       PROVE  /\ mine + k \in DOMAIN disk'[path]
              /\ disk'[path][mine + k] = io[c].source[k]
  <2>1. PICK i \in Nat \ {0} : i = mine + k  OBVIOUS
  <2>2. i \notin at + 1 .. at + n
    <3>1. k \in Nat /\ 1 <= k /\ k <= len  BY <1>5
    <3>2. CASE mine + len <= theirs
      <4>1. i <= at  BY <1>8, <2>1, <3>1, <3>2
      <4> QED  BY <4>1
    <3>3. CASE theirs + size <= mine
      <4>1. total + n <= size  BY <1>6
      <4>2. at + n <= theirs + size  BY <1>8, <4>1
      <4>3. at + n < i  BY <2>1, <3>1, <3>3, <4>2
      <4> QED  BY <4>3
    <3> QED  BY <1>7, <3>2, <3>3
  <2>3. i \in DOMAIN content /\ content[i] = io[c].source[k]
    BY <1>1, <1>2, <1>3, <1>5, <2>1 DEF Landed
  <2>4. n = Len(part)  BY <1>9
  <2>5. i \in DOMAIN Written(content, at, part) /\ Written(content, at, part)[i] = content[i]
    BY <2>2, <2>3, <2>4, WrittenHolds
  <2> QED  BY <1>10, <2>1, <2>3, <2>5
<1> QED  BY <1>0, <1>1, <1>3, <1>5, <1>11 DEF Landed

LandInv == \A c \in Writers : io[c].kind = "write" => Landed(c)

LEMMA LandInvNext ==
    ASSUME WritesApart
    PROVE  HandlesInv /\ HandlesInv' /\ DataTypes /\ LandInv /\ [Next]_vars => LandInv'
<1> SUFFICES ASSUME HandlesInv, HandlesInv', DataTypes, LandInv, [Next]_vars,
                    NEW c \in Writers, io'[c].kind = "write"
             PROVE  Landed(c)'
  BY DEF LandInv
<1>0. c \in Clients /\ io'[c] # NoTransfer  BY ThreadsApart, NoTransferKind
<1>1. CASE Next
  <2>1. FileStep /\ IoStep(c)  BY <1>0, <1>1, NextData
  <2>2. ASSUME io[c].kind = "write", io'[c] = io[c] PROVE Landed(c)'
    <3>1. io[c] # NoTransfer /\ Landed(c)  BY <2>2, NoTransferKind DEF LandInv
    <3>2. /\ PathOf(WriterFile)' = PathOf(WriterFile)
          /\ disk'[PathOf(WriterFile)] = disk[PathOf(WriterFile)] \/ WritesThrough
      BY <1>0, <2>1, <3>1, WriterFileStays
    <3>3. CASE disk'[PathOf(WriterFile)] = disk[PathOf(WriterFile)]
      BY <2>2, <3>1, <3>2, <3>3 DEF Landed
    <3>4. CASE WritesThrough
      <4>1. PICK d \in Clients, n \in Nat : Continues(d, n) /\ WritesOn(d, n)
        BY <3>4, WriteStep
      <4> QED  BY <1>0, <2>2, <3>1, <4>1, OwnWriteLands, OtherWriteLands
    <3> QED  BY <3>2, <3>3, <3>4
  <2>3. CASE io'[c] = io[c]
    BY <2>2, <2>3
  <2>4. CASE BeginsWrite(c)
    <3>1. PICK w \in Writes : io'[c] = Transfer("write", WriterFile, w.offset, w.source, Len(w.source))
      BY <2>4 DEF BeginsWrite
    <3>2. io'[c].total_size = 0  BY <3>1 DEF Transfer
    <3> QED  BY <3>2 DEF Landed
  <2>5. CASE TransferStep(c)
    <3>1. PICK n \in Nat : /\ Continues(c, n)
                           /\ ReadsOn(c, n) \/ WritesOn(c, n) \/ (n = 0 /\ Stops(c))
      BY <1>0, <2>5, TransferContinues
    <3>2. io[c].kind = "write" /\ Landed(c)  BY <3>1 DEF Continues, LandInv
    <3>3. CASE WritesOn(c, n)  BY <1>0, <3>1, <3>2, <3>3, OwnWriteLands
    <3>4. CASE n = 0 /\ Stops(c)
      <4>1. UNCHANGED handleVars  BY <3>4 DEF Stops
      <4>2. /\ io'[c].offset = io[c].offset /\ io'[c].source = io[c].source
            /\ io'[c].total_size = io[c].total_size
        <5>1. PICK total \in Nat : total = io[c].total_size
          BY <1>0, <3>1 DEF DataTypes, IoTypes, IoTypesOf, Continues
        <5> QED  BY <3>1, <3>4, <5>1 DEF Continues
      <4> QED  BY <3>2, <4>1, <4>2 DEF Landed, handleVars, PathOf
    <3>5. ~ReadsOn(c, n)  BY <3>2 DEF ReadsOn
    <3> QED  BY <3>1, <3>3, <3>4, <3>5
  <2>6. ~BeginsRead(c)  BY DEF BeginsRead
  <2> QED  BY <1>0, <2>1, <2>3, <2>4, <2>5, <2>6 DEF IoStep
<1>2. CASE UNCHANGED vars
  BY <1>2 DEF vars, handleVars, LandInv, Landed, PathOf
<1> QED  BY <1>1, <1>2

(* Threads that write at once through one PlatformFile, each to bytes of   *)
(* its own, find what they have written where they wrote it, however the   *)
(* system cuts their writes into chunks and interleaves these, and         *)
(* whatever the readers of the file do meanwhile (writeAt).                *)
THEOREM WritesLandAlways == ASSUME WritesApart PROVE Spec => []WritesLand
<1> DEFINE Inv == HandlesInv /\ DataTypes /\ LandInv
<1>1. Init => Inv
  <2>1. Init => LandInv
    BY ThreadsApart, NoTransferKind DEF Init, PlatformInit, LandInv
  <2> QED  BY <2>1, HandlesInvInit, DataTypesInit
<1>2. Inv /\ [Next]_vars => Inv'
  BY HandlesInvNext, DataTypesNext, LandInvNext
<1>3. Inv => WritesLand
  <2> SUFFICES ASSUME Inv, NEW c \in Writers, io[c].kind = "write", NEW n \in 1 .. io[c].total_size
               PROVE  /\ io[c].offset + n \in DOMAIN disk[PathOf(io[c].object)]
                      /\ disk[PathOf(io[c].object)][io[c].offset + n] = io[c].source[n]
    BY DEF WritesLand
  <2>1. io[c].object = WriterFile  BY NoTransferKind DEF HandlesInv, WriterOK, TransferTo
  <2> QED  BY <2>1 DEF LandInv, Landed
<1> HIDE DEF Inv
<1> QED  BY <1>1, <1>2, <1>3, PTL DEF Spec

-----------------------------------------------------------------------------
(* Versions.  No two handles of a file are open whose share modes do not   *)
(* suit each other, so that nobody writes to a file while somebody has it  *)
(* open who lets no writer in.                                             *)
SharesInv ==
    /\ \A h, k \in DOMAIN open_handles :
          h # k /\ open_handles[h].path = open_handles[k].path =>
              open_handles[h].access \subseteq open_handles[k].share
    /\ isOpen(WriterFile) => "write" \in open_handles[native_handle[WriterFile]].access

SeenInv ==
    \A h \in DOMAIN open_handles :
        Exclusive(h) => disk[open_handles[h].path] = open_handles[h].seen

(* A handle given out: its record goes with what the others have open.     *)
Given(record) ==
    /\ NextHandle \in Handles \ DOMAIN open_handles
    /\ open_handles' = With(open_handles, NextHandle, record)
    /\ \A h \in DOMAIN open_handles :
          open_handles[h].path = record.path =>
              /\ record.access \subseteq open_handles[h].share
              /\ open_handles[h].access \subseteq record.share

LEMMA GivenDomain ==
    ASSUME NEW record, Given(record)
    PROVE  /\ NextHandle \notin DOMAIN open_handles
           /\ DOMAIN open_handles' = DOMAIN open_handles \cup {NextHandle}
           /\ open_handles'[NextHandle] = record
           /\ \A h \in DOMAIN open_handles :
                 h # NextHandle /\ open_handles'[h] = open_handles[h]
BY DEF Given, With

Opened(o, path, record, content) ==
    /\ ~isOpen(o) /\ Given(record)
    /\ native_handle' = With(native_handle, o, NextHandle)
    /\ disk' = With(disk, path, content)
    /\ record.path = path
    /\ record.access = {"read"} => record.seen = content
    /\ o = WriterFile => "write" \in record.access
    /\ "write" \notin record.access => path \in DOMAIN disk /\ content = disk[path]

LEMMA OpenGives ==
    ASSUME shares_enforced, NEW o, NEW path, NEW options,
           OptionsOK(o, options), ~isOpen(o), open(o, path, options)
    PROVE  \E record, content : /\ Opened(o, path, record, content)
                                /\ record.access = desiredAccess[options.access]
                                /\ record.share = options.share
<1>1. PICK content : content = IF path \in DOMAIN disk /\ options.creation \notin Truncates
                               THEN disk[path] ELSE <<>>
  OBVIOUS
<1>2. PICK access : access = desiredAccess[options.access]  OBVIOUS
<1>3. PICK seen : seen = IF access = {"read"} /\ shares_enforced THEN content ELSE <<>>
  OBVIOUS
<1>4. PICK record : record = [path |-> path, access |-> access, share |-> options.share,
                              seen |-> seen]
  OBVIOUS
<1>5. /\ disk' = With(disk, path, content)
      /\ native_handle' = With(native_handle, o, NextHandle)
      /\ open_handles' = With(open_handles, NextHandle, record)
  BY <1>1, <1>2, <1>3, <1>4 DEF open
<1>6. /\ record.path = path /\ record.access = access /\ record.share = options.share
      /\ record.access = {"read"} => record.seen = content
  BY <1>3, <1>4
<1>7. CanOpen(path, options) /\ FreeHandles # {}  BY DEF open
<1>8. Given(record)
  BY <1>2, <1>5, <1>6, <1>7, NextHandleFree DEF Given, CanOpen, SharingAllows
<1>9. o = WriterFile => "write" \in record.access
  BY <1>2, <1>6 DEF OptionsOK, desiredAccess
<1>10. "write" \notin record.access => path \in DOMAIN disk /\ content = disk[path]
  <2>1. SUFFICES ASSUME "write" \notin record.access
                 PROVE  path \in DOMAIN disk /\ content = disk[path]
    OBVIOUS
  <2>2. options.access = "read"  BY <1>2, <1>6, <2>1 DEF OptionsOK, desiredAccess
  <2>3. options.creation = "openExisting"  BY <2>2 DEF OptionsOK
  <2> QED  BY <1>1, <1>7, <2>3 DEF CanOpen, Creates, Truncates
<1>11. Opened(o, path, record, content)  BY <1>5, <1>6, <1>8, <1>9, <1>10 DEF Opened
<1> QED  BY <1>2, <1>6, <1>11

LEMMA SectionGives ==
    ASSUME HandlesInv, DataTypes, MakesSection
    PROVE  /\ \E record : Given(record) /\ record.access = {}
           /\ native_handle' = With(native_handle, MappingHandle, NextHandle)
           /\ UNCHANGED disk
<1>1. PICK record :
        record = [path |-> PathOf(FileHandle), access |-> {},
                  share |-> {"read", "write", "remove"}, seen |-> <<>>]
  OBVIOUS
<1>2. /\ open_handles' = With(open_handles, NextHandle, record)
      /\ native_handle' = With(native_handle, MappingHandle, NextHandle)
      /\ UNCHANGED disk /\ FreeHandles # {}
  BY <1>1 DEF MakesSection, CreateFileMapping
<1>3. \A h \in DOMAIN open_handles : open_handles[h].access \subseteq record.share
  BY <1>1 DEF DataTypes, HandleTypes
<1>4. Given(record) /\ record.access = {}
  BY <1>1, <1>2, <1>3, NextHandleFree DEF Given
<1> QED  BY <1>2, <1>4

LEMMA GivenShares ==
    ASSUME SharesInv, NEW record, Given(record), NEW h \in DOMAIN open_handles',
           NEW k \in DOMAIN open_handles', h # k, open_handles'[h].path = open_handles'[k].path
    PROVE  open_handles'[h].access \subseteq open_handles'[k].share
<1>1. CASE h \in DOMAIN open_handles /\ k \in DOMAIN open_handles
  BY <1>1, GivenDomain DEF SharesInv
<1>2. CASE h = NextHandle \/ k = NextHandle
  BY <1>2, GivenDomain DEF Given
<1> QED  BY <1>1, <1>2, GivenDomain

LEMMA FewerShares ==
    ASSUME SharesInv, DOMAIN open_handles' \subseteq DOMAIN open_handles,
           \A h \in DOMAIN open_handles' : open_handles'[h] = open_handles[h],
           isOpen(WriterFile)' => Keeps(WriterFile), HandlesInv'
    PROVE  SharesInv'
<1>1. ASSUME NEW h \in DOMAIN open_handles', NEW k \in DOMAIN open_handles', h # k,
             open_handles'[h].path = open_handles'[k].path
      PROVE  open_handles'[h].access \subseteq open_handles'[k].share
  BY <1>1 DEF SharesInv
<1>2. isOpen(WriterFile)' => "write" \in open_handles'[native_handle'[WriterFile]].access
  BY DEF SharesInv, Keeps, isOpen
<1> QED  BY <1>1, <1>2 DEF SharesInv

LEMMA ClosesFewer ==
    ASSUME HandlesInv, NEW os, close(os)
    PROVE  /\ disk' = disk /\ DOMAIN open_handles' \subseteq DOMAIN open_handles
           /\ \A h \in DOMAIN open_handles' : open_handles'[h] = open_handles[h]
           /\ \A o : isOpen(o)' => Keeps(o)
<1>1. OwnedOnce  BY DEF HandlesInv
<1> QED  BY <1>1, CloseOwns DEF close, Without

LEMMA MovesFewer ==
    ASSUME HandlesInv, Moves
    PROVE  /\ disk' = disk /\ DOMAIN open_handles' \subseteq DOMAIN open_handles
           /\ \A h \in DOMAIN open_handles' : open_handles'[h] = open_handles[h]
           /\ Keeps(WriterFile)
           /\ \A c \in Clients : io[c] # NoTransfer => Keeps(io[c].object)
<1>0. OwnedOnce  BY DEF HandlesInv
<1>1. PICK t \in PoolThreads \cup {SessionThread} :
        /\ io[t] = NoTransfer
        /\ \E source, target : /\ source # target /\ isOpen(source)
                               /\ source[1] = t /\ target[1] = t
                               /\ move(source, target)
  BY DEF Moves
<1>2. PICK source, target : /\ source # target /\ isOpen(source)
                            /\ source[1] = t /\ target[1] = t
                            /\ move(source, target)
  BY <1>1
<1>3. \A o : o[1] # t => Keeps(o)  BY <1>0, <1>2, MoveOwns
<1>4. Keeps(WriterFile)  BY <1>3, Owners, ThreadsApart
<1>5. ASSUME NEW c \in Clients, io[c] # NoTransfer PROVE Keeps(io[c].object)
  <2>1. c # t  BY <1>1, <1>5
  <2>2. io[c].object = WriterFile \/ io[c].object[1] = c
    <3>1. CASE c \in Writers  BY <1>5, <3>1 DEF HandlesInv, WriterOK, TransferTo
    <3>2. CASE c \in PoolThreads
      BY <1>5, <3>2, PoolObjects DEF HandlesInv, PoolOK, TransferTo
    <3>3. CASE c = SessionThread
      BY <1>5, <3>3, Owners DEF HandlesInv, SessionOK, TransferTo
    <3>4. CASE c = HelperThread
      BY <1>5, <3>4, Owners DEF HandlesInv, HelperOK, TransferTo
    <3> QED  BY <1>5, <3>1, <3>2, <3>3, <3>4 DEF HandlesInv, OthersOK, Others
  <2> QED  BY <1>3, <1>4, <2>1, <2>2
<1>6. /\ disk' = disk /\ DOMAIN open_handles' \subseteq DOMAIN open_handles
      /\ \A h \in DOMAIN open_handles' : open_handles'[h] = open_handles[h]
  BY <1>2 DEF move, Without
<1> QED  BY <1>4, <1>5, <1>6

(* Handles are what they were, or new.                                     *)
LEMMA ObjectStays ==
    ASSUME HandlesInv, HandlesInv', FileStep, NEW c \in Clients,
           io[c] # NoTransfer, io'[c] # NoTransfer, io'[c].object = io[c].object
    PROVE  Keeps(io[c].object)
<1>0. /\ OwnedOnce /\ isOpen(io[c].object) /\ isOpen(io[c].object)'
  <2>1. isOpen(io[c].object)
    BY DEF HandlesInv, WriterOK, PoolOK, SessionOK, HelperOK, OthersOK, Others, TransferTo
  <2>2. io'[c].object \in DOMAIN native_handle'
    BY DEF HandlesInv, WriterOK, PoolOK, SessionOK, HelperOK, OthersOK, Others, TransferTo, isOpen
  <2> QED  BY <2>1, <2>2 DEF HandlesInv, isOpen
<1>1. CASE UNCHANGED <<open_handles, native_handle>>  BY <1>1 DEF Keeps
<1>2. CASE Opens  BY <1>0, <1>2, OpenOwns DEF Opens
<1>3. CASE Closes  BY <1>0, <1>3, ClosesFewer DEF Closes
<1>4. CASE Moves  BY <1>4, MovesFewer
<1>5. CASE MakesSection
  <2>1. /\ ~isOpen(MappingHandle) /\ FreeHandles # {}
        /\ native_handle' = With(native_handle, MappingHandle, NextHandle)
        /\ \E record : open_handles' = With(open_handles, NextHandle, record)
    BY <1>5 DEF MakesSection, CreateFileMapping
  <2> QED  BY <1>0, <2>1, GiveOwns
<1>6. CASE WritesThrough \/ resize  BY <1>1, <1>6 DEF WritesThrough, doWrite, resize
<1> QED  BY <1>1, <1>2, <1>3, <1>4, <1>5, <1>6 DEF FileStep, handleVars

(* Who is let in alone finds the file as it is for as long as it has it    *)
(* open.                                                                   *)
LEMMA ExclusiveStays ==
    ASSUME HandlesInv, DataTypes, SharesInv, shares_enforced, FileStep,
           NEW h \in DOMAIN open_handles, Exclusive(h)
    PROVE  disk'[open_handles[h].path] = disk[open_handles[h].path]
<1>1. PICK path : path = open_handles[h].path  OBVIOUS
<1>2. path \in DOMAIN disk  BY <1>1 DEF DataTypes, HandleTypes
<1>3. isOpen(WriterFile) => PathOf(WriterFile) # path
  <2> SUFFICES ASSUME isOpen(WriterFile), PathOf(WriterFile) = path PROVE FALSE  OBVIOUS
  <2>1. PICK k \in DOMAIN open_handles :
          k = native_handle[WriterFile] /\ open_handles[k].path = path
    BY SizeIsNat DEF HandlesInv, DataTypes, PathOf
  <2>2. "write" \in open_handles[k].access /\ "write" \notin open_handles[h].access
    BY <2>1 DEF SharesInv, Exclusive
  <2>3. k # h  BY <2>2
  <2> QED  BY <1>1, <2>1, <2>2, <2>3 DEF SharesInv, Exclusive
<1>4. CASE Opens
  <2>1. PICK o, p, options : OptionsOK(o, options) /\ ~isOpen(o) /\ open(o, p, options)
    BY <1>4 DEF Opens
  <2>2. PICK record, content : Opened(o, p, record, content)  BY <2>1, OpenGives
  <2>3. disk' = With(disk, p, content)  BY <2>2 DEF Opened
  <2>4. CASE p = path
    <3>1. record.access \subseteq open_handles[h].share
      BY <1>1, <2>2, <2>4 DEF Opened, Given
    <3>2. "write" \notin record.access  BY <3>1 DEF Exclusive
    <3>3. content = disk[p]  BY <2>2, <3>2 DEF Opened
    <3> QED  BY <1>1, <1>2, <2>3, <2>4, <3>3 DEF With
  <2>5. CASE p # path  BY <1>1, <1>2, <2>3, <2>5 DEF With
  <2> QED  BY <2>4, <2>5
<1>5. CASE UNCHANGED disk  BY <1>5
<1>6. CASE WritesThrough
  <2>1. PICK c \in Clients, n \in Nat : Continues(c, n) /\ WritesOn(c, n)
    BY <1>6, WriteStep
  <2>2. io[c].object = WriterFile /\ isOpen(WriterFile)  BY <2>1, WrittenPart
  <2>3. PICK value : disk' = [disk EXCEPT ![PathOf(WriterFile)] = value]
    BY <2>1, <2>2 DEF WritesOn
  <2> QED  BY <1>1, <1>2, <1>3, <2>2, <2>3
<1>7. CASE resize
  <2>1. isOpen(WriterFile) /\ \E value : disk' = [disk EXCEPT ![PathOf(WriterFile)] = value]
    BY <1>7 DEF resize
  <2> QED  BY <1>1, <1>2, <1>3, <2>1
<1>8. CASE Closes \/ Moves \/ MakesSection \/ UNCHANGED handleVars
  BY <1>5, <1>8 DEF Closes, close, Moves, move, MakesSection, CreateFileMapping, handleVars
<1> QED  BY <1>4, <1>6, <1>7, <1>8 DEF FileStep

LEMMA SharesKept ==
    ASSUME HandlesInv, HandlesInv', DataTypes, SharesInv, SeenInv, shares_enforced, FileStep
    PROVE  SharesInv' /\ SeenInv'
<1>0. OwnedOnce  BY DEF HandlesInv
<1>s. ASSUME DOMAIN open_handles' \subseteq DOMAIN open_handles,
             \A h \in DOMAIN open_handles' : open_handles'[h] = open_handles[h]
      PROVE  SeenInv'
  <2> SUFFICES ASSUME NEW h \in DOMAIN open_handles', Exclusive(h)'
               PROVE  disk'[open_handles'[h].path] = open_handles'[h].seen
    BY DEF SeenInv
  <2>1. h \in DOMAIN open_handles /\ Exclusive(h) /\ open_handles'[h] = open_handles[h]
    BY <1>s DEF Exclusive
  <2> QED  BY <2>1, ExclusiveStays DEF SeenInv
<1>g. ASSUME NEW record, Given(record),
             "write" \notin record.access /\ record.access = {"read"} =>
                disk'[record.path] = record.seen
      PROVE  SeenInv'
  <2> SUFFICES ASSUME NEW h \in DOMAIN open_handles', Exclusive(h)'
               PROVE  disk'[open_handles'[h].path] = open_handles'[h].seen
    BY DEF SeenInv
  <2>1. CASE h = NextHandle
    <3>1. open_handles'[h] = record  BY <1>g, <2>1, GivenDomain
    <3>2. record.access = {"read"}  BY <3>1 DEF Exclusive
    <3> QED  BY <1>g, <3>1, <3>2
  <2>2. CASE h # NextHandle
    <3>1. h \in DOMAIN open_handles /\ open_handles'[h] = open_handles[h]
      BY <1>g, <2>2, GivenDomain
    <3>2. Exclusive(h)  BY <3>1 DEF Exclusive
    <3> QED  BY <3>1, <3>2, ExclusiveStays DEF SeenInv
  <2> QED  BY <2>1, <2>2
<1>1. CASE UNCHANGED <<open_handles, native_handle>>
  BY <1>1, <1>s, FewerShares DEF Keeps
<1>2. CASE Opens
  <2>1. PICK o, path, options : OptionsOK(o, options) /\ ~isOpen(o) /\ open(o, path, options)
    BY <1>2 DEF Opens
  <2>2. PICK record, content : Opened(o, path, record, content)  BY <2>1, OpenGives
  <2>3. Given(record)  BY <2>2 DEF Opened
  <2>4. disk'[path] = content  BY <2>2 DEF Opened, With
  <2>5. SeenInv'  BY <1>g, <2>2, <2>3, <2>4 DEF Opened
  <2>6. isOpen(WriterFile)' => "write" \in open_handles'[native_handle'[WriterFile]].access
    <3>1. CASE o = WriterFile
      <4>1. native_handle'[o] = NextHandle  BY <2>2 DEF Opened, With
      <4>2. open_handles'[NextHandle] = record  BY <2>3, GivenDomain
      <4> QED  BY <2>2, <3>1, <4>1, <4>2 DEF Opened
    <3>2. CASE o # WriterFile
      <4>1. Keeps(WriterFile)  BY <1>0, <2>1, <3>2, OpenOwns
      <4> QED  BY <4>1 DEF Keeps, SharesInv, isOpen
    <3> QED  BY <3>1, <3>2
  <2>7. SharesInv'  BY <2>3, <2>6, GivenShares DEF SharesInv
  <2> QED  BY <2>5, <2>7
<1>3. CASE MakesSection
  <2>1. PICK record : Given(record) /\ record.access = {}  BY <1>3, SectionGives
  <2>2. SeenInv'  BY <1>g, <2>1
  <2>3. Keeps(WriterFile)
    <3>1. FreeHandles # {} /\ ~isOpen(MappingHandle)
      BY <1>3 DEF MakesSection, CreateFileMapping
    <3>2. open_handles' = With(open_handles, NextHandle, record)  BY <2>1 DEF Given
    <3> QED  BY <1>0, <1>3, <3>1, <3>2, SectionGives, GiveOwns, ObjectsApart
  <2>4. SharesInv'  BY <2>1, <2>3, GivenShares DEF SharesInv, Keeps, isOpen
  <2> QED  BY <2>2, <2>4
<1>4. CASE Closes
  <2>1. PICK os : close(os)  BY <1>4 DEF Closes
  <2> QED  BY <1>s, <2>1, ClosesFewer, FewerShares
<1>5. CASE Moves  BY <1>s, <1>5, MovesFewer, FewerShares
<1>6. CASE WritesThrough \/ resize  BY <1>1, <1>6 DEF WritesThrough, doWrite, resize
<1> QED  BY <1>1, <1>2, <1>3, <1>4, <1>5, <1>6 DEF FileStep, handleVars

(* What a read has brought so far is what the file holds.                  *)
ReadInv(c) ==
    io[c].kind = "read" /\ Exclusive(native_handle[io[c].object]) =>
        /\ io[c].data = SubSeq(disk[PathOf(io[c].object)], io[c].offset + 1,
                               io[c].offset + io[c].total_size)
        /\ \/ io[c].total_size = 0
           \/ io[c].offset + io[c].total_size <= Len(disk[PathOf(io[c].object)])

LEMMA ReadKept ==
    ASSUME HandlesInv, HandlesInv', DataTypes, SharesInv, shares_enforced, FileStep,
           NEW c \in Clients, IoStep(c), ReadInv(c)
    PROVE  ReadInv(c)'
<1> SUFFICES ASSUME io'[c].kind = "read", Exclusive(native_handle[io[c].object])'
             PROVE  /\ io'[c].data = SubSeq(disk[PathOf(io[c].object)]', io'[c].offset + 1,
                                            io'[c].offset + io'[c].total_size)
                    /\ \/ io'[c].total_size = 0
                       \/ io'[c].offset + io'[c].total_size <= Len(disk[PathOf(io[c].object)]')
  BY DEF ReadInv
<1>0. io'[c] # NoTransfer /\ OwnedOnce  BY NoTransferKind DEF HandlesInv
<1>1. CASE io'[c] = io[c] \/ TransferStep(c)
  <2>0. /\ io[c].kind = "read" /\ io[c] # NoTransfer /\ io'[c].object = io[c].object
        /\ io'[c].offset = io[c].offset
    <3>1. CASE io'[c] = io[c]  BY <1>0, <3>1
    <3>2. CASE TransferStep(c)  BY <3>2, TransferContinues DEF Continues
    <3> QED  BY <1>1, <3>1, <3>2
  <2>1. PICK o : o = io[c].object /\ o = io'[c].object  BY <2>0
  <2>2. Keeps(o)  BY <1>0, <2>0, <2>1, ObjectStays
  <2>3. isOpen(o)
    <3>1. io[c].kind # "none"  BY <2>0
    <3> QED  BY <2>1, <3>1, HandlesInvImplies DEF HandlesOwnedOnce
  <2>4. PICK h \in DOMAIN open_handles :
          h = native_handle[o] /\ native_handle'[o] = h /\ open_handles'[h] = open_handles[h]
    BY <2>2, <2>3, SizeIsNat DEF HandlesInv, DataTypes, Keeps, isOpen
  <2>5. Exclusive(h)  BY <2>1, <2>4 DEF Exclusive
  <2>6. PICK path : path = open_handles[h].path  OBVIOUS
  <2>7. PICK content \in Seq(Nat) : content = disk[path] /\ content = disk'[path]
    <3>1. disk[path] \in Seq(Nat)  BY <2>6 DEF DataTypes, HandleTypes, DiskTypes
    <3> QED  BY <2>5, <2>6, <3>1, ExclusiveStays
  <2>8. disk[PathOf(io[c].object)] = content /\ disk[PathOf(io[c].object)]' = content
    BY <2>1, <2>4, <2>6, <2>7 DEF PathOf
  <2>9. PICK offset \in Nat, total \in Nat :
          /\ offset = io[c].offset /\ total = io[c].total_size
          /\ io[c].data = SubSeq(content, offset + 1, offset + total)
          /\ total = 0 \/ offset + total <= Len(content)
    <3>1. io[c].offset \in Nat /\ io[c].total_size \in Nat
      BY <2>0 DEF DataTypes, IoTypes, IoTypesOf
    <3> QED  BY <2>0, <2>1, <2>4, <2>5, <2>8, <3>1 DEF ReadInv
  <2>10. CASE io'[c] = io[c]  BY <2>8, <2>9, <2>10
  <2>11. CASE TransferStep(c)
    <3>1. PICK n \in Nat : /\ Continues(c, n)
                           /\ ReadsOn(c, n) \/ WritesOn(c, n) \/ (n = 0 /\ Stops(c))
      BY <2>11, TransferContinues
    <3>2. io'[c].offset = offset /\ io'[c].total_size = total + n
      BY <2>9, <3>1 DEF Continues
    <3>3. CASE ReadsOn(c, n)
      <4>1. PICK at \in Nat : at = offset + total  OBVIOUS
      <4>2. /\ at + n <= Len(content)
            /\ io'[c].data = SubSeq(content, offset + 1, at) \o SubSeq(content, at + 1, at + n)
        BY <2>8, <2>9, <3>3, <4>1 DEF ReadsOn
      <4>3. SubSeq(content, offset + 1, at) \o SubSeq(content, at + 1, at + n)
              = SubSeq(content, offset + 1, at + n)
        <5>0. PICK len \in Nat : len = Len(content)  BY LenProperties
        <5>1. PICK m \in Nat, k \in Nat : m = offset + 1 /\ k = at + n  OBVIOUS
        <5>2. m \in 1 .. len + 1 /\ at \in m - 1 .. len /\ k \in at .. len
          <6>1. at + n <= len  BY <4>2, <5>0
          <6>2. offset <= at /\ at <= len  BY <4>1, <6>1
          <6>3. m \in 1 .. len + 1  BY <5>1, <6>2
          <6>4. at \in m - 1 .. len  BY <5>1, <6>2
          <6>5. k \in at .. len  BY <5>1, <6>1
          <6> QED  BY <6>3, <6>4, <6>5
        <5>3. SubSeq(content, m, at) \o SubSeq(content, at + 1, k) = SubSeq(content, m, k)
          BY <5>0, <5>2, ConcatAdjacentSubSeq
        <5> QED  BY <5>1, <5>3
      <4>4. at + n = offset + (total + n)  BY <4>1
      <4> QED  BY <2>8, <3>2, <4>2, <4>3, <4>4
    <3>4. CASE n = 0 /\ Stops(c)
      <4>1. total + n = total  BY <3>4
      <4>2. io'[c].offset = offset /\ io'[c].total_size = total /\ io'[c].data = io[c].data
        BY <3>2, <3>4, <4>1 DEF Stops
      <4> QED  BY <2>8, <2>9, <4>2
    <3>5. ~WritesOn(c, n)  BY <2>0 DEF WritesOn
    <3> QED  BY <3>1, <3>3, <3>4, <3>5
  <2> QED  BY <1>1, <2>10, <2>11
<1>2. CASE BeginsRead(c)
  <2>1. PICK o : \E offset, size \in Nat : io'[c] = Transfer("read", o, offset, <<>>, size)
    BY <1>2 DEF BeginsRead
  <2>2. PICK offset \in Nat, size \in Nat : io'[c] = Transfer("read", o, offset, <<>>, size)
    BY <2>1
  <2>3. io'[c].offset = offset /\ io'[c].total_size = 0 /\ io'[c].data = <<>>
    BY <2>2, BeginTypes
  <2>4. \A s : SubSeq(s, offset + 1, offset + 0) = <<>>
    <3>1. offset + 1 \in Int /\ offset + 0 \in Int /\ offset + 0 < offset + 1  OBVIOUS
    <3> QED  BY <3>1, SubSeqEmpty
  <2> QED  BY <2>3, <2>4
<1>3. CASE BeginsWrite(c)
  <2>1. PICK w : io'[c] = Transfer("write", WriterFile, w.offset, w.source, Len(w.source))
    BY <1>3 DEF BeginsWrite
  <2> QED  BY <2>1 DEF Transfer
<1> QED  BY <1>0, <1>1, <1>2, <1>3 DEF IoStep

(* The same for the object of a handle that a step keeps.                  *)
LEMMA VersionStays ==
    ASSUME HandlesInv, DataTypes, SharesInv, shares_enforced, FileStep,
           NEW o, Keeps(o), isOpen(o), Exclusive(native_handle[o])
    PROVE  isOpen(o)' /\ Exclusive(native_handle[o])' /\ sizeOf(o)' = sizeOf(o)
<1>1. PICK h \in DOMAIN open_handles :
        h = native_handle[o] /\ native_handle'[o] = h /\ open_handles'[h] = open_handles[h]
  BY SizeIsNat DEF HandlesInv, DataTypes, Keeps, isOpen
<1>2. disk'[open_handles[h].path] = disk[open_handles[h].path]  BY <1>1, ExclusiveStays
<1> QED  BY <1>1, <1>2 DEF Keeps, isOpen, Exclusive, sizeOf, PathOf

LEMMA ExclusiveBack ==
    ASSUME NEW o, Keeps(o), isOpen(o), Exclusive(native_handle[o])'
    PROVE  Exclusive(native_handle[o])
BY DEF Keeps, isOpen, Exclusive

SessionVersion ==
    /\ isOpen(OpenResult) => Exclusive(native_handle[OpenResult])
    /\ isOpen(FileValue) =>
          /\ Exclusive(native_handle[FileValue])
          /\ session.stream_offset + session.remaining_bytes <= sizeOf(FileValue)

LEMMA SessionVersionFrame ==
    ASSUME HandlesInv, DataTypes, SharesInv, shares_enforced, FileStep, SessionVersion,
           UNCHANGED session, Keeps(FileValue), Keeps(OpenResult)
    PROVE  SessionVersion'
<1>1. isOpen(OpenResult)' => Exclusive(native_handle[OpenResult])'
  BY VersionStays DEF SessionVersion, Keeps, isOpen
<1>2. isOpen(FileValue)' => /\ Exclusive(native_handle[FileValue])'
                            /\ sizeOf(FileValue)' = sizeOf(FileValue) /\ isOpen(FileValue)
  BY VersionStays DEF SessionVersion, Keeps, isOpen
<1> QED  BY <1>1, <1>2 DEF SessionVersion

LEMMA SessionVersionStep ==
    ASSUME HandlesInv, DataTypes, SharesInv, shares_enforced, SessionVersion, SessionStep
    PROVE  SessionVersion'
<1> USE DEF Session, SetSession
<1>0. /\ OwnedOnce /\ SessionOK /\ FileStep /\ FileValue # OpenResult
      /\ SessionTypes /\ IoTypes /\ SessionThread \in Clients
  BY SessionData, ObjectsApart, ThreadsApart DEF HandlesInv, DataTypes
<1>o. ASSUME Keeps(OpenResult) PROVE isOpen(OpenResult)' => Exclusive(native_handle[OpenResult])'
  BY <1>0, <1>o, VersionStays DEF SessionVersion, Keeps, isOpen
<1>f. ASSUME Keeps(FileValue),
             session'.stream_offset + session'.remaining_bytes
                = session.stream_offset + session.remaining_bytes
      PROVE  isOpen(FileValue)' =>
                /\ Exclusive(native_handle[FileValue])'
                /\ session'.stream_offset + session'.remaining_bytes <= sizeOf(FileValue)'
  <2>1. isOpen(FileValue)' => /\ Exclusive(native_handle[FileValue])'
                              /\ sizeOf(FileValue)' = sizeOf(FileValue) /\ isOpen(FileValue)
    BY <1>0, <1>f, VersionStays DEF SessionVersion, Keeps, isOpen
  <2> QED  BY <1>f, <2>1 DEF SessionVersion
<1>1. CASE StartStops \/ stop
  <2>1. close({FileValue})  BY <1>1 DEF StartStops, stop
  <2>2. ~isOpen(FileValue)' /\ Keeps(OpenResult)  BY <1>0, <2>1, CloseOwns
  <2> QED  BY <1>o, <2>2 DEF SessionVersion
<1>2. CASE StartOpens
  <2>1. /\ open(OpenResult, session.call.path, openRead({"read"})) /\ ~isOpen(OpenResult)
        /\ session' = [session EXCEPT !.label = "adopt"]
    BY <1>0, <1>2 DEF StartOpens, SessionOK
  <2>2. PICK record, content :
          /\ Opened(OpenResult, session.call.path, record, content)
          /\ record.access = desiredAccess[openRead({"read"}).access]
          /\ record.share = openRead({"read"}).share
    BY <2>1, OpenGives, ReadOptions, ObjectsApart
  <2>3. record.access = {"read"} /\ "write" \notin record.share
    BY <2>2 DEF openRead, OpenOptions, desiredAccess
  <2>4. native_handle'[OpenResult] = NextHandle /\ open_handles'[NextHandle] = record
    BY <2>2, GivenDomain DEF Opened, With
  <2>5. Exclusive(native_handle[OpenResult])'  BY <2>3, <2>4 DEF Exclusive
  <2>6. Keeps(FileValue)  BY <1>0, <2>1, OpenOwns
  <2>7. session'.stream_offset = session.stream_offset
        /\ session'.remaining_bytes = session.remaining_bytes
    BY <1>0, <2>1 DEF SessionTypes, SessionFields
  <2> QED  BY <1>f, <2>5, <2>6, <2>7 DEF SessionVersion
<1>3. CASE StartAdopts
  <2>1. /\ session.label = "adopt" /\ session.call.start_offset <= sizeOf(OpenResult)
        /\ move(OpenResult, FileValue)
    BY <1>3 DEF StartAdopts, Adopt
  <2>2. isOpen(OpenResult)  BY <1>0, <2>1 DEF SessionOK
  <2>3. /\ ~isOpen(OpenResult)' /\ native_handle'[FileValue] = native_handle[OpenResult]
        /\ open_handles'[native_handle'[FileValue]] = open_handles[native_handle[OpenResult]]
    BY <1>0, <2>1, <2>2, MoveOwns
  <2>4. disk' = disk  BY <2>1 DEF move
  <2>5. sizeOf(FileValue)' = sizeOf(OpenResult) /\ Exclusive(native_handle[FileValue])'
    BY <2>2, <2>3, <2>4 DEF sizeOf, PathOf, Exclusive, SessionVersion
  <2>6. /\ session'.stream_offset = session.call.start_offset
        /\ session'.remaining_bytes = TotalReadable(session.call, sizeOf(OpenResult))
    BY <1>3, <1>0 DEF StartAdopts, Adopt, SessionTypes, SessionFields
  <2>7. session.call.start_offset + TotalReadable(session.call, sizeOf(OpenResult))
          <= sizeOf(OpenResult)
    <3>1. sizeOf(OpenResult) \in Nat  BY <2>2, SizeIsNat DEF HandlesInv, DataTypes
    <3> QED  BY <1>0, <2>1, <3>1, TotalIsNat DEF SessionTypes
  <2> QED  BY <2>3, <2>5, <2>6, <2>7 DEF SessionVersion
<1>4. CASE StartRejects
  <2>1. /\ close({OpenResult})
        /\ session' = [session EXCEPT !.label = "idle", !.call = NoCall]
    BY <1>4 DEF StartRejects
  <2>2. ~isOpen(OpenResult)' /\ Keeps(FileValue)  BY <1>0, <2>1, CloseOwns
  <2>3. session'.stream_offset = session.stream_offset
        /\ session'.remaining_bytes = session.remaining_bytes
    BY <1>0, <2>1 DEF SessionTypes, SessionFields
  <2> QED  BY <1>f, <2>2, <2>3 DEF SessionVersion
<1>5. ASSUME UNCHANGED handleVars,
             session'.stream_offset + session'.remaining_bytes
                = session.stream_offset + session.remaining_bytes
      PROVE  SessionVersion'
  <2>1. Keeps(FileValue) /\ Keeps(OpenResult)
    BY <1>0, <1>5, NothingMoves DEF handleVars
  <2> QED  BY <1>f, <1>o, <1>5, <2>1 DEF SessionVersion
<1>6. CASE StartCannotOpen \/ pause \/ resume \/ ReadBegins \/ ReadFails \/ ReadStoresEnd
  <2>1. UNCHANGED handleVars
    BY <1>6 DEF StartCannotOpen, pause, resume, ReadBegins, ReadFails, ReadStoresEnd
  <2>2. \/ \E label, call : session' = [session EXCEPT !.label = label, !.call = call]
        \/ \E b : session' = [session EXCEPT !.paused = b]
        \/ \E label : session' = [session EXCEPT !.label = label]
        \/ \E b : session' = [session EXCEPT !.end_of_stream = b]
        \/ \E label, b : session' = [session EXCEPT !.label = label, !.end_of_stream = b]
    BY <1>6 DEF StartCannotOpen, pause, resume, ReadBegins, ReadFails, ReadStoresEnd
  <2>3. session'.stream_offset = session.stream_offset
        /\ session'.remaining_bytes = session.remaining_bytes
    BY <1>0, <2>2 DEF SessionTypes, SessionFields
  <2> QED  BY <1>5, <2>1, <2>3
<1>7. CASE ReadAdvances
  <2>1. UNCHANGED handleVars /\ session.label = "reading"
    BY <1>7 DEF ReadAdvances, ReadAdvancesBy
  <2>2. PICK moved : moved = io[SessionThread].total_size  OBVIOUS
  <2>3. /\ session'.stream_offset = session.stream_offset + moved
        /\ session'.remaining_bytes = session.remaining_bytes - moved
    <3>1. PICK label, complete, delivered :
            session' = [session EXCEPT !.label = label, !.stream_offset = @ + moved,
                                       !.remaining_bytes = @ - moved,
                                       !.complete = complete, !.delivered = delivered]
      <4>1. PICK t, label, delivered :
              /\ t = io[SessionThread] /\ label = (IF LastRead(t) THEN "ended" ELSE "idle")
              /\ delivered = session.delivered \o Places(t)
        OBVIOUS
      <4> QED  BY <1>7, <2>2, <4>1 DEF ReadAdvances, ReadAdvancesBy
    <3> QED  BY <1>0, <3>1 DEF SessionTypes, SessionFields
  <2>4. PICK a \in Nat, b \in Nat, n \in Nat :
          a = session.stream_offset /\ b = session.remaining_bytes /\ n = moved
    BY <1>0, <2>1, <2>2 DEF SessionTypes, IoTypes, IoTypesOf
  <2>5. (a + n) + (b - n) = a + b  OBVIOUS
  <2> QED  BY <1>5, <2>1, <2>3, <2>4, <2>5
<1> QED
  BY <1>1, <1>2, <1>3, <1>4, <1>6, <1>7 DEF SessionStep, start, readNext

HelperVersion ==
    (Helper("reading") \/ Helper("returned")) /\ Exclusive(native_handle[HelperFile]) =>
        helper.call.size = sizeOf(HelperFile)

LEMMA HelperVersionFrame ==
    ASSUME HandlesInv, DataTypes, SharesInv, shares_enforced, FileStep, HelperVersion,
           UNCHANGED helper, Keeps(HelperFile)
    PROVE  HelperVersion'
<1> SUFFICES ASSUME helper.label \in {"reading", "returned"},
                    Exclusive(native_handle[HelperFile])'
             PROVE  helper.call.size = sizeOf(HelperFile)'
  BY DEF HelperVersion, Helper
<1>1. isOpen(HelperFile)  BY DEF HandlesInv, HelperOK, Helper
<1>2. Exclusive(native_handle[HelperFile])  BY <1>1, ExclusiveBack
<1>3. sizeOf(HelperFile)' = sizeOf(HelperFile)  BY <1>1, <1>2, VersionStays
<1> QED  BY <1>2, <1>3 DEF HelperVersion, Helper

LEMMA HelperVersionStep ==
    ASSUME HandlesInv, DataTypes, SharesInv, shares_enforced, HelperVersion, HelperStep
    PROVE  HelperVersion'
<1> USE DEF Helper, HelperGoes
<1>0. "label" \in DOMAIN helper /\ HelperTypes  BY DEF HandlesInv, HelperOK, DataTypes
<1>1. CASE readFileToSpan
  BY <1>1 DEF readFileToSpan, HelperVersion
<1>2. CASE SizeMatches
  <2>1. /\ sizeOf(HelperFile) = helper.call.size /\ UNCHANGED handleVars
        /\ \E label : helper' = [helper EXCEPT !.label = label]
        /\ helper.label = "size"
    BY <1>2 DEF SizeMatches
  <2>2. helper'.call.size = helper.call.size  BY <1>0, <2>1 DEF HelperTypes
  <2> QED  BY <2>1, <2>2 DEF HelperVersion, handleVars, sizeOf, PathOf
<1>3. CASE SizeMismatch \/ SizeFails
  <2>1. helper'.label = "failed"  BY <1>0, <1>3 DEF SizeMismatch, SizeFails
  <2> QED  BY <2>1 DEF HelperVersion
<1>4. CASE HelperRead
  <2>1. /\ helper.label = "reading" /\ UNCHANGED handleVars
        /\ \E label : helper' = [helper EXCEPT !.label = label]
    BY <1>4 DEF HelperRead
  <2>2. helper'.call.size = helper.call.size  BY <1>0, <2>1 DEF HelperTypes
  <2> QED  BY <2>1, <2>2 DEF HelperVersion, handleVars, sizeOf, PathOf, Exclusive
<1>5. CASE HelperReturns
  <2>1. helper'.label = "idle"  BY <1>5 DEF HelperReturns, NoHelper
  <2> QED  BY <2>1 DEF HelperVersion
<1> QED  BY <1>1, <1>2, <1>3, <1>4, <1>5 DEF HelperStep

VersionInv ==
    shares_enforced =>
        /\ SharesInv /\ SeenInv /\ SessionVersion /\ HelperVersion
        /\ \A c \in Clients : ReadInv(c)

LEMMA VersionsOfClients ==
    ASSUME HandlesInv, DataTypes, SharesInv, shares_enforced, SessionVersion, HelperVersion, Next
    PROVE  SessionVersion' /\ HelperVersion'
<1>0. FileStep  BY NextData
<1>s. ASSUME UNCHANGED session, Keeps(FileValue), Keeps(OpenResult) PROVE SessionVersion'
  BY <1>0, <1>s, SessionVersionFrame
<1>h. ASSUME UNCHANGED helper, Keeps(HelperFile) PROVE HelperVersion'
  BY <1>0, <1>h, HelperVersionFrame
<1>b. ASSUME UNCHANGED <<session, helper>>, \A x : x[1] \in {SessionThread, HelperThread} => Keeps(x)
      PROVE  SessionVersion' /\ HelperVersion'
  BY <1>s, <1>h, <1>b, Owners
<1>1. CASE Session_
  <2>1. SessionStep /\ UNCHANGED helper  BY <1>1 DEF Session_
  <2>2. \A x : x \notin SessionObjects => Keeps(x)  BY <2>1, SessionStepOK DEF HandlesInv
  <2>3. Keeps(HelperFile)  BY <2>2, Owners, ThreadsApart DEF SessionObjects
  <2> QED  BY <1>h, <2>1, <2>3, SessionVersionStep
<1>2. CASE Helper_
  <2>1. HelperStep /\ UNCHANGED session  BY <1>2 DEF Helper_
  <2>2. \A x : x # HelperFile => Keeps(x)  BY <2>1, HelperStepOK DEF HandlesInv
  <2>3. Keeps(FileValue) /\ Keeps(OpenResult)  BY <2>2, Owners, ThreadsApart
  <2> QED  BY <1>s, <2>1, <2>3, HelperVersionStep
<1>3. CASE Mapper_
  <2>1. MapperStep /\ UNCHANGED <<session, helper>>  BY <1>3 DEF Mapper_
  <2>2. \A x : x \notin MapperObjects => Keeps(x)  BY <2>1, MapperStepOK DEF HandlesInv
  <2>3. \A x : x[1] \in {SessionThread, HelperThread} => Keeps(x)
    BY <2>2, Owners, ThreadsApart DEF MapperObjects
  <2> QED  BY <1>b, <2>1, <2>3
<1>4. CASE Scheduler_
  <2>1. UNCHANGED <<session, helper>>  BY <1>4 DEF Scheduler_
  <2>2. ASSUME NEW t \in PoolThreads, TaskStep(t)
        PROVE  \A x : x[1] \in {SessionThread, HelperThread} => Keeps(x)
    <3>1. \A x : x[1] # t => Keeps(x)  BY <2>2, TaskStepOK DEF OthersKept
    <3> QED  BY <3>1, ThreadsApart
  <2>3. ASSUME NEW u \in Users, UserStep(u)
        PROVE  \A x : x[1] \in {SessionThread, HelperThread} => Keeps(x)
    BY <2>3, UserStepOK, NothingMoves DEF HandlesInv, handleVars
  <2>4. ASSUME NEW u \in Users, ShutdownResets(u)
        PROVE  \A x : x[1] \in {SessionThread, HelperThread} => Keeps(x)
    BY <2>4, ShutdownOK, ThreadsApart
  <2> QED  BY <1>4, <1>b, <2>1, <2>2, <2>3, <2>4 DEF Scheduler_, SchedulerStep
<1>5. CASE Writer_
  <2>1. WriterStep(clients) /\ UNCHANGED <<session, helper>>  BY <1>5 DEF Writer_
  <2>2. \A x : x # WriterFile => Keeps(x)  BY <2>1, WriterStepOK DEF HandlesInv
  <2>3. \A x : x[1] \in {SessionThread, HelperThread} => Keeps(x)
    BY <2>2, Owners, ThreadsApart
  <2> QED  BY <1>b, <2>1, <2>3
<1>6. ASSUME NEW c \in Clients, Transfer_(c) PROVE SessionVersion' /\ HelperVersion'
  <2>1. TransferStep(c) /\ UNCHANGED <<session, helper>>  BY <1>6 DEF Transfer_
  <2>2. \A x : Keeps(x)  BY <2>1, TransferStepOK DEF HandlesInv
  <2> QED  BY <1>b, <2>1, <2>2
<1> QED  BY <1>1, <1>2, <1>3, <1>4, <1>5, <1>6 DEF Next

LEMMA VersionInvNext ==
    HandlesInv /\ HandlesInv' /\ DataTypes /\ VersionInv /\ [Next]_vars => VersionInv'
<1> SUFFICES ASSUME HandlesInv, HandlesInv', DataTypes, VersionInv, [Next]_vars,
                    shares_enforced'
             PROVE  /\ SharesInv' /\ SeenInv' /\ SessionVersion' /\ HelperVersion'
                    /\ \A c \in Clients : ReadInv(c)'
  BY DEF VersionInv
<1>1. CASE Next
  <2>1. shares_enforced
    BY <1>1 DEF Next, Session_, Helper_, Mapper_, Scheduler_, Writer_, Transfer_
  <2>2. /\ SharesInv /\ SeenInv /\ SessionVersion /\ HelperVersion
        /\ \A c \in Clients : ReadInv(c)
    BY <2>1 DEF VersionInv
  <2>3. FileStep /\ \A c \in Clients : IoStep(c)  BY <1>1, NextData
  <2>4. SharesInv' /\ SeenInv'  BY <2>1, <2>2, <2>3, SharesKept
  <2>5. SessionVersion' /\ HelperVersion'  BY <1>1, <2>1, <2>2, VersionsOfClients
  <2>6. \A c \in Clients : ReadInv(c)'  BY <2>1, <2>2, <2>3, ReadKept
  <2> QED  BY <2>4, <2>5, <2>6
<1>2. CASE UNCHANGED vars
  <2>1. UNCHANGED <<disk, open_handles, native_handle, io, session, helper, shares_enforced>>
    BY <1>2 DEF vars, handleVars
  <2> QED
    BY <2>1 DEF VersionInv, SharesInv, SeenInv, SessionVersion, HelperVersion, ReadInv,
                Exclusive, isOpen, PathOf, sizeOf, Helper
<1> QED  BY <1>1, <1>2

LEMMA VersionInvInit == Init => VersionInv
<1> SUFFICES ASSUME Init PROVE VersionInv  OBVIOUS
<1> USE DEF Init, PlatformInit, HelperInit
<1>1. DOMAIN open_handles = {} /\ DOMAIN native_handle = {}  OBVIOUS
<1>2. \A o : ~isOpen(o)  BY <1>1 DEF isOpen
<1>3. SharesInv /\ SeenInv /\ SessionVersion
  BY <1>1, <1>2 DEF SharesInv, SeenInv, SessionVersion
<1>4. HelperVersion  BY DEF HelperVersion, Helper, NoHelper
<1>5. \A c \in Clients : ReadInv(c)  BY NoTransferKind DEF ReadInv
<1> QED  BY <1>3, <1>4, <1>5 DEF VersionInv

(* Where the file system keeps share modes, who has a file open and lets   *)
(* no writer in reads one version of it from the first byte to the last,   *)
(* whatever the writers and the other readers do: the bytes a read has     *)
(* brought are those of the file, a session's range stays within it, and a *)
(* whole-file read returns as many bytes as the file has (openRead,        *)
(* readAt, StreamReadSession, readFileToSpan).                             *)
THEOREM ReadersSeeOneVersionAlways == Spec => []ReadersSeeOneVersion
<1> DEFINE Inv == HandlesInv /\ DataTypes /\ VersionInv
<1>1. Init => Inv  BY HandlesInvInit, DataTypesInit, VersionInvInit
<1>2. Inv /\ [Next]_vars => Inv'
  BY HandlesInvNext, DataTypesNext, VersionInvNext
<1>3. Inv => ReadersSeeOneVersion
  BY DEF VersionInv, SeenInv, ReadInv, SessionVersion, HelperVersion, ReadersSeeOneVersion
<1> HIDE DEF Inv
<1> QED  BY <1>1, <1>2, <1>3, PTL DEF Spec

-----------------------------------------------------------------------------
(* The lists of a pool.  lru is the first part of recent.                  *)
Distinct(s) == \A m, n \in 1 .. Len(s) : s[m] = s[n] => m = n

MostRecent(lru, recent, entries) ==
    /\ lru \in Seq(Paths) /\ recent \in Seq(Paths) /\ Distinct(recent)
    /\ Len(lru) <= Len(recent)
    /\ \A n \in 1 .. Len(lru) : lru[n] = recent[n]
    /\ entries = {lru[n] : n \in DOMAIN lru}

LEMMA InFront ==
    ASSUME NEW path \in Paths, NEW s \in Seq(Paths), NEW len \in Nat, len = Len(s)
    PROVE  /\ <<path>> \o s \in Seq(Paths) /\ Len(<<path>> \o s) = len + 1
           /\ (<<path>> \o s)[1] = path
           /\ \A i \in 2 .. len + 1 : (<<path>> \o s)[i] = s[i - 1]
<1>1. /\ <<path>> \in Seq(Paths) /\ Len(<<path>>) = 1 /\ <<path>>[1] = path  OBVIOUS
<1>2. PICK one \in Seq(Paths) : one = <<path>> /\ Len(one) = 1 /\ one[1] = path  BY <1>1
<1>3. /\ one \o s \in Seq(Paths) /\ Len(one \o s) = Len(one) + Len(s)
      /\ \A i \in 1 .. Len(one) + Len(s) :
            (one \o s)[i] = IF i <= Len(one) THEN one[i] ELSE s[i - Len(one)]
  BY ConcatProperties
<1> QED  BY <1>2, <1>3

(* A path that is in the list goes to the front; those before it move one  *)
(* place back.                                                             *)
LEMMA MoveFound ==
    ASSUME NEW path \in Paths, NEW s \in Seq(Paths), NEW len \in Nat, len = Len(s), Distinct(s),
           NEW at \in 1 .. len, s[at] = path
    PROVE  /\ MoveToFront(path, s) \in Seq(Paths) /\ Len(MoveToFront(path, s)) = len
           /\ MoveToFront(path, s)[1] = path
           /\ \A i \in 2 .. len :
                 MoveToFront(path, s)[i] = IF i <= at THEN s[i - 1] ELSE s[i]
<1>0. DOMAIN s = 1 .. len /\ \A i \in 1 .. len : s[i] \in Paths  BY LenProperties, ElementOfSeq
<1>1. at = CHOOSE n \in DOMAIN s : s[n] = path
  <2>1. at \in DOMAIN s /\ s[at] = path  BY <1>0
  <2>2. \A n \in DOMAIN s : s[n] = path => n = at  BY <1>0 DEF Distinct
  <2> QED  BY <2>1, <2>2
<1>2. TakeOut(path, s) = SubSeq(s, 1, at - 1) \o SubSeq(s, at + 1, Len(s))
  <2>1. path \in {s[n] : n \in DOMAIN s}  BY <1>0
  <2> QED  BY <1>1, <2>1 DEF TakeOut
<1>3. PICK k \in Nat, r \in Nat : at = k + 1 /\ len = k + 1 + r /\ k = at - 1
  <2>1. at - 1 \in Nat /\ len - at \in Nat  OBVIOUS
  <2>2. at = (at - 1) + 1 /\ len = (at - 1) + 1 + (len - at)  OBVIOUS
  <2> QED  BY <2>1, <2>2
<1>4. /\ SubSeq(s, 1, k) \in Seq(Paths) /\ Len(SubSeq(s, 1, k)) = k
      /\ \A i \in 1 .. k : SubSeq(s, 1, k)[i] = s[i]
  <2>1. \A i \in 1 .. k : s[i] \in Paths  BY <1>0, <1>3
  <2>2. /\ SubSeq(s, 1, k) \in Seq(Paths)
        /\ Len(SubSeq(s, 1, k)) = IF 1 <= k THEN k - 1 + 1 ELSE 0
        /\ \A i \in 1 .. k - 1 + 1 : SubSeq(s, 1, k)[i] = s[1 + i - 1]
    BY <2>1, SubSeqProperties
  <2>3. k - 1 + 1 = k /\ \A i \in 1 .. k : 1 + i - 1 = i  OBVIOUS
  <2> QED  BY <2>2, <2>3
<1>5. /\ SubSeq(s, k + 2, len) \in Seq(Paths) /\ Len(SubSeq(s, k + 2, len)) = r
      /\ \A i \in 1 .. r : SubSeq(s, k + 2, len)[i] = s[k + 1 + i]
  <2>1. \A i \in k + 2 .. len : s[i] \in Paths  BY <1>0, <1>3
  <2>2. k + 2 \in Int /\ len \in Int  OBVIOUS
  <2>3. /\ SubSeq(s, k + 2, len) \in Seq(Paths)
        /\ Len(SubSeq(s, k + 2, len)) = IF k + 2 <= len THEN len - (k + 2) + 1 ELSE 0
        /\ \A i \in 1 .. len - (k + 2) + 1 : SubSeq(s, k + 2, len)[i] = s[(k + 2) + i - 1]
    BY <2>1, <2>2, SubSeqProperties
  <2>4. /\ len - (k + 2) + 1 = r /\ (k + 2 <= len <=> r # 0)
        /\ \A i \in 1 .. r : (k + 2) + i - 1 = k + 1 + i
    BY <1>3
  <2> QED  BY <2>3, <2>4
<1>6. PICK front \in Seq(Paths), back \in Seq(Paths) :
        /\ TakeOut(path, s) = front \o back /\ Len(front) = k /\ Len(back) = r
        /\ \A i \in 1 .. k : front[i] = s[i]
        /\ \A i \in 1 .. r : back[i] = s[k + 1 + i]
  <2>1. at + 1 = k + 2  BY <1>3
  <2>2. TakeOut(path, s) = SubSeq(s, 1, k) \o SubSeq(s, k + 2, len)  BY <1>2, <1>3, <2>1
  <2> QED  BY <1>4, <1>5, <2>2
<1>7. PICK short \in Nat : short = k + r /\ short + 1 = len  BY <1>3
<1>8. PICK rest \in Seq(Paths) :
        /\ rest = TakeOut(path, s) /\ Len(rest) = short
        /\ \A j \in 1 .. short : rest[j] = IF j <= k THEN s[j] ELSE s[j + 1]
  <2>1. /\ front \o back \in Seq(Paths) /\ Len(front \o back) = k + r
        /\ \A i \in 1 .. k + r :
              (front \o back)[i] = IF i <= k THEN front[i] ELSE back[i - k]
    <3>1. /\ front \o back \in Seq(Paths) /\ Len(front \o back) = Len(front) + Len(back)
          /\ \A i \in 1 .. Len(front) + Len(back) :
                (front \o back)[i] = IF i <= Len(front) THEN front[i] ELSE back[i - Len(front)]
      BY ConcatProperties
    <3> QED  BY <1>6, <3>1
  <2>2. ASSUME NEW j \in 1 .. short
        PROVE  (front \o back)[j] = IF j <= k THEN s[j] ELSE s[j + 1]
    <3>1. CASE j <= k  BY <1>6, <1>7, <2>1, <3>1
    <3>2. CASE ~(j <= k)
      <4>1. PICK i \in 1 .. r : i = j - k /\ k + 1 + i = j + 1  BY <1>7, <3>2
      <4> QED  BY <1>6, <1>7, <2>1, <3>2, <4>1
    <3> QED  BY <3>1, <3>2
  <2> QED  BY <1>6, <1>7, <2>1, <2>2
<1>9. /\ <<path>> \o rest \in Seq(Paths) /\ Len(<<path>> \o rest) = short + 1
      /\ (<<path>> \o rest)[1] = path
      /\ \A i \in 2 .. short + 1 : (<<path>> \o rest)[i] = rest[i - 1]
  BY <1>8, InFront
<1>10. MoveToFront(path, s) = <<path>> \o rest  BY <1>8 DEF MoveToFront
<1>11. ASSUME NEW i \in 2 .. len
       PROVE  MoveToFront(path, s)[i] = IF i <= at THEN s[i - 1] ELSE s[i]
  <2>1. PICK j \in 1 .. short : j = i - 1 /\ i = j + 1  BY <1>7
  <2>2. MoveToFront(path, s)[i] = rest[j]  BY <1>7, <1>9, <1>10, <2>1
  <2>3. rest[j] = IF j <= k THEN s[j] ELSE s[i]  BY <1>8, <2>1
  <2>4. j <= k <=> i <= at  BY <1>3, <2>1
  <2> QED  BY <2>1, <2>2, <2>3, <2>4
<1> QED  BY <1>7, <1>9, <1>10, <1>11

LEMMA MoveNew ==
    ASSUME NEW path, NEW s \in Seq(Paths), \A n \in 1 .. Len(s) : s[n] # path
    PROVE  MoveToFront(path, s) = <<path>> \o s
<1>1. path \notin {s[n] : n \in DOMAIN s}  BY LenProperties
<1> QED  BY <1>1 DEF MoveToFront, TakeOut

LEMMA Count ==
    ASSUME NEW lru, NEW recent, NEW entries, MostRecent(lru, recent, entries)
    PROVE  Cardinality(entries) = Len(lru)
<1>1. PICK len \in Nat : len = Len(lru) /\ DOMAIN lru = 1 .. len
  BY LenProperties DEF MostRecent
<1>2. PICK n \in Nat : n = Len(recent)  BY LenProperties DEF MostRecent
<1>3. lru \in [1 .. len -> entries]  BY <1>1, LenProperties DEF MostRecent
<1>4. \A a, b \in 1 .. len : lru[a] = lru[b] => a = b  BY <1>1, <1>2 DEF MostRecent, Distinct
<1>5. \A e \in entries : \E a \in 1 .. len : lru[a] = e  BY <1>1 DEF MostRecent
<1>6. lru \in Bijection(1 .. len, entries)
  BY <1>3, <1>4, <1>5 DEF Bijection, Injection, Surjection, IsInjective
<1>7. ExistsBijection(1 .. len, entries)  BY <1>6 DEF ExistsBijection
<1> QED  BY <1>1, <1>7, FS_CountingElements

LEMMA MoveDistinct ==
    ASSUME NEW path \in Paths, NEW s \in Seq(Paths), NEW len \in Nat, len = Len(s), Distinct(s),
           NEW at \in 1 .. len, s[at] = path
    PROVE  Distinct(MoveToFront(path, s))
<1>1. PICK m \in Seq(Paths) :
        /\ m = MoveToFront(path, s) /\ Len(m) = len /\ m[1] = s[at]
        /\ \A i \in 2 .. len : m[i] = IF i <= at THEN s[i - 1] ELSE s[i]
  BY MoveFound
<1> DEFINE from(i) == IF i = 1 THEN at ELSE IF i <= at THEN i - 1 ELSE i
<1>2. \A i \in 1 .. len : from(i) \in 1 .. len /\ m[i] = s[from(i)]
  <2> TAKE i \in 1 .. len
  <2>1. CASE i = 1  BY <1>1, <2>1
  <2>2. CASE i # 1
    <3>1. i \in 2 .. len  BY <2>2
    <3>2. m[i] = IF i <= at THEN s[i - 1] ELSE s[i]  BY <1>1, <3>1
    <3> QED  BY <2>2, <3>1, <3>2
  <2> QED  BY <2>1, <2>2
<1>3. ASSUME NEW i \in 1 .. len, NEW j \in 1 .. len, from(i) = from(j) PROVE i = j
  BY <1>3
<1> HIDE DEF from
<1>4. ASSUME NEW i \in 1 .. len, NEW j \in 1 .. len, m[i] = m[j] PROVE i = j
  <2>1. s[from(i)] = s[from(j)]  BY <1>2, <1>4
  <2>2. from(i) = from(j)  BY <1>2, <2>1 DEF Distinct
  <2> QED  BY <1>3, <2>2
<1> QED  BY <1>1, <1>4 DEF Distinct

(* Asked for again: both lists move the path to the front.                 *)
LEMMA HitLists ==
    ASSUME NEW lru, NEW recent, NEW entries, MostRecent(lru, recent, entries),
           NEW path \in entries
    PROVE  MostRecent(MoveToFront(path, lru), MoveToFront(path, recent), entries)
<1>1. PICK len \in Nat, all \in Nat :
        /\ len = Len(lru) /\ DOMAIN lru = 1 .. len /\ all = Len(recent) /\ len <= all
        /\ lru \in Seq(Paths) /\ recent \in Seq(Paths)
  BY LenProperties DEF MostRecent
<1>2. PICK at \in 1 .. len : lru[at] = path  BY <1>1 DEF MostRecent
<1>3. at \in 1 .. all /\ recent[at] = path /\ path \in Paths
  BY <1>1, <1>2, ElementOfSeq DEF MostRecent
<1>4. Distinct(recent)  BY DEF MostRecent
<1>5. \A i \in 1 .. len : i \in 1 .. all /\ lru[i] = recent[i]  BY <1>1 DEF MostRecent
<1>6. Distinct(lru)  BY <1>1, <1>4, <1>5 DEF Distinct
<1>7. PICK m \in Seq(Paths) :
        /\ m = MoveToFront(path, lru) /\ Len(m) = len /\ m[1] = path
        /\ \A i \in 2 .. len : m[i] = IF i <= at THEN lru[i - 1] ELSE lru[i]
  BY <1>1, <1>2, <1>3, <1>6, MoveFound
<1>8. PICK r \in Seq(Paths) :
        /\ r = MoveToFront(path, recent) /\ Len(r) = all /\ r[1] = path
        /\ \A i \in 2 .. all : r[i] = IF i <= at THEN recent[i - 1] ELSE recent[i]
  BY SMTT(20), <1>1, <1>3, <1>4, MoveFound
<1>9. Distinct(r)  BY <1>1, <1>3, <1>4, <1>8, MoveDistinct
<1>10. ASSUME NEW i \in 1 .. len PROVE m[i] = r[i] /\ m[i] \in entries
  <2>0. \A j \in 1 .. len : lru[j] \in entries  BY <1>1 DEF MostRecent
  <2>1. CASE i = 1  BY <1>7, <1>8, <2>1
  <2>2. CASE i # 1
    <3>1. i \in 2 .. len /\ i \in 2 .. all /\ i - 1 \in 1 .. len  BY <1>1, <2>2
    <3>2. m[i] = IF i <= at THEN lru[i - 1] ELSE lru[i]  BY <1>7, <3>1
    <3>3. r[i] = IF i <= at THEN recent[i - 1] ELSE recent[i]  BY <1>8, <3>1
    <3> QED  BY <1>5, <2>0, <3>1, <3>2, <3>3
  <2> QED  BY <2>1, <2>2
<1>11. ASSUME NEW e \in entries PROVE \E i \in 1 .. len : m[i] = e
  <2>1. PICK j \in 1 .. len : lru[j] = e  BY <1>1 DEF MostRecent
  <2>2. CASE j = at  BY <1>2, <1>7, <2>1, <2>2
  <2>3. CASE j < at
    <3>1. j + 1 \in 2 .. len /\ (j + 1) - 1 = j /\ j + 1 <= at  BY <2>3
    <3>2. m[j + 1] = lru[j]  BY <1>7, <3>1
    <3> QED  BY <2>1, <3>1, <3>2
  <2>4. CASE j > at
    <3>1. j \in 2 .. len /\ ~(j <= at)  BY <2>4
    <3>2. m[j] = lru[j]  BY <1>7, <3>1
    <3> QED  BY <2>1, <3>2
  <2> QED  BY <2>2, <2>3, <2>4
<1>12. DOMAIN m = 1 .. len  BY <1>7, LenProperties
<1>13. entries = {m[i] : i \in DOMAIN m}  BY <1>10, <1>11, <1>12
<1>14. MostRecent(m, r, entries)
  <2>1. Len(m) <= Len(r) /\ \A n \in 1 .. Len(m) : m[n] = r[n]  BY <1>1, <1>7, <1>8, <1>10
  <2> QED  BY <1>9, <1>13, <2>1 DEF MostRecent
<1> QED  BY <1>7, <1>8, <1>14

(* Opened: the path comes before all the others.                           *)
LEMMA InsertLists ==
    ASSUME NEW lru, NEW recent, NEW entries, MostRecent(lru, recent, entries),
           NEW path \in Paths, path \notin entries
    PROVE  MostRecent(<<path>> \o lru, MoveToFront(path, recent), entries \cup {path})
<1>1. PICK len \in Nat, all \in Nat :
        /\ len = Len(lru) /\ DOMAIN lru = 1 .. len /\ all = Len(recent) /\ len <= all
        /\ lru \in Seq(Paths) /\ recent \in Seq(Paths)
  BY LenProperties DEF MostRecent
<1>2. /\ Distinct(recent)
      /\ \A i \in 1 .. len : lru[i] = recent[i] /\ lru[i] \in entries
      /\ \A e \in entries : \E i \in 1 .. len : lru[i] = e
  BY <1>1 DEF MostRecent
<1>3. PICK m \in Seq(Paths) :
        /\ m = <<path>> \o lru /\ Len(m) = len + 1 /\ m[1] = path
        /\ \A i \in 2 .. len + 1 : m[i] = lru[i - 1]
  <2>1. /\ <<path>> \o lru \in Seq(Paths) /\ Len(<<path>> \o lru) = len + 1
        /\ (<<path>> \o lru)[1] = path
        /\ \A i \in 2 .. len + 1 : (<<path>> \o lru)[i] = lru[i - 1]
    BY <1>1, InFront
  <2> QED  BY <2>1
<1>4. PICK r \in Seq(Paths), n \in Nat :
        /\ r = MoveToFront(path, recent) /\ Len(r) = n /\ len + 1 <= n /\ r[1] = path
        /\ Distinct(r)
        /\ \A i \in 2 .. len + 1 : r[i] = recent[i - 1]
  <2>1. CASE \E i \in 1 .. all : recent[i] = path
    <3>1. PICK at \in 1 .. all : recent[at] = path  BY <2>1
    <3>2. at > len  BY <1>2, <3>1
    <3>3. /\ MoveToFront(path, recent) \in Seq(Paths) /\ Len(MoveToFront(path, recent)) = all
          /\ MoveToFront(path, recent)[1] = path
          /\ \A i \in 2 .. all : MoveToFront(path, recent)[i]
                                    = IF i <= at THEN recent[i - 1] ELSE recent[i]
      BY <1>1, <1>2, <3>1, MoveFound
    <3>4. Distinct(MoveToFront(path, recent))  BY <1>1, <1>2, <3>1, MoveDistinct
    <3>5. len + 1 <= all /\ \A i \in 2 .. len + 1 : i \in 2 .. all /\ i <= at  BY <3>2
    <3> QED  BY <3>3, <3>4, <3>5
  <2>2. CASE ~\E i \in 1 .. all : recent[i] = path
    <3>1. MoveToFront(path, recent) = <<path>> \o recent  BY <1>1, <2>2, MoveNew
    <3>2. PICK s \in Seq(Paths) :
            /\ s = <<path>> \o recent /\ Len(s) = all + 1 /\ s[1] = path
            /\ \A i \in 2 .. all + 1 : s[i] = recent[i - 1]
      <4>1. /\ <<path>> \o recent \in Seq(Paths) /\ Len(<<path>> \o recent) = all + 1
            /\ (<<path>> \o recent)[1] = path
            /\ \A i \in 2 .. all + 1 : (<<path>> \o recent)[i] = recent[i - 1]
        BY <1>1, InFront
      <4> QED  BY <4>1
    <3>3. ASSUME NEW i \in 1 .. all + 1, NEW j \in 1 .. all + 1, s[i] = s[j] PROVE i = j
      <4>1. CASE i = 1 /\ j = 1  BY <4>1
      <4>2. CASE i # 1 /\ j # 1
        <5>1. i - 1 \in 1 .. all /\ j - 1 \in 1 .. all /\ i \in 2 .. all + 1 /\ j \in 2 .. all + 1
          BY <4>2
        <5>2. recent[i - 1] = recent[j - 1]  BY <3>2, <3>3, <5>1
        <5>3. i - 1 = j - 1  BY <1>1, <1>2, <5>1, <5>2 DEF Distinct
        <5> QED  BY <5>3
      <4>3. CASE i = 1 /\ j # 1
        <5>1. j - 1 \in 1 .. all /\ j \in 2 .. all + 1  BY <4>3
        <5>2. recent[j - 1] = path  BY <3>2, <3>3, <4>3, <5>1
        <5> QED  BY <2>2, <5>1, <5>2
      <4>4. CASE i # 1 /\ j = 1
        <5>1. i - 1 \in 1 .. all /\ i \in 2 .. all + 1  BY <4>4
        <5>2. recent[i - 1] = path  BY <3>2, <3>3, <4>4, <5>1
        <5> QED  BY <2>2, <5>1, <5>2
      <4> QED  BY <4>1, <4>2, <4>3, <4>4
    <3>4. Distinct(s)  BY <3>2, <3>3 DEF Distinct
    <3>5. all + 1 \in Nat /\ len + 1 <= all + 1 /\ \A i \in 2 .. len + 1 : i \in 2 .. all + 1
      BY <1>1
    <3> QED  BY <3>1, <3>2, <3>4, <3>5
  <2> QED  BY <2>1, <2>2
<1>5. ASSUME NEW i \in 1 .. len + 1 PROVE m[i] = r[i] /\ m[i] \in entries \cup {path}
  <2>1. CASE i = 1  BY <1>3, <1>4, <2>1
  <2>2. CASE i # 1
    <3>1. i \in 2 .. len + 1 /\ i - 1 \in 1 .. len  BY <2>2
    <3> QED  BY <1>2, <1>3, <1>4, <3>1
  <2> QED  BY <2>1, <2>2
<1>6. ASSUME NEW e \in entries \cup {path} PROVE \E i \in 1 .. len + 1 : m[i] = e
  <2>1. CASE e = path  BY <1>3, <2>1
  <2>2. CASE e \in entries
    <3>1. PICK j \in 1 .. len : lru[j] = e  BY <1>2, <2>2
    <3>2. j + 1 \in 2 .. len + 1 /\ (j + 1) - 1 = j  OBVIOUS
    <3>3. m[j + 1] = e  BY <1>3, <3>1, <3>2
    <3> QED  BY <3>2, <3>3
  <2> QED  BY <2>1, <2>2
<1>7. DOMAIN m = 1 .. len + 1  BY <1>3, LenProperties
<1>8. entries \cup {path} = {m[i] : i \in DOMAIN m}  BY <1>5, <1>6, <1>7
<1>9. MostRecent(m, r, entries \cup {path})
  <2>1. Len(m) <= Len(r) /\ \A i \in 1 .. Len(m) : m[i] = r[i]  BY <1>3, <1>4, <1>5
  <2> QED  BY <1>4, <1>8, <2>1 DEF MostRecent
<1> QED  BY <1>3, <1>4, <1>9

(* The last path goes.                                                     *)
LEMMA EvictLists ==
    ASSUME NEW lru, NEW recent, NEW entries, MostRecent(lru, recent, entries), lru # <<>>
    PROVE  MostRecent(SubSeq(lru, 1, Len(lru) - 1), recent, entries \ {lru[Len(lru)]})
<1>1. PICK len \in Nat, all \in Nat :
        /\ len = Len(lru) /\ DOMAIN lru = 1 .. len /\ all = Len(recent) /\ len <= all
        /\ lru \in Seq(Paths) /\ recent \in Seq(Paths)
  BY LenProperties DEF MostRecent
<1>2. /\ Distinct(recent)
      /\ \A i \in 1 .. len : i \in 1 .. all /\ lru[i] = recent[i] /\ lru[i] \in entries
      /\ \A e \in entries : \E i \in 1 .. len : lru[i] = e
  BY <1>1 DEF MostRecent
<1>3. PICK k \in Nat : len = k + 1 /\ k = len - 1
  <2>1. len # 0  BY <1>1, EmptySeq
  <2> QED  BY <2>1
<1>4. PICK m \in Seq(Paths) :
        /\ m = SubSeq(lru, 1, k) /\ Len(m) = k /\ \A i \in 1 .. k : m[i] = lru[i]
  <2>1. \A i \in 1 .. k : lru[i] \in Paths  BY <1>1, <1>3, ElementOfSeq
  <2>2. /\ SubSeq(lru, 1, k) \in Seq(Paths)
        /\ Len(SubSeq(lru, 1, k)) = IF 1 <= k THEN k - 1 + 1 ELSE 0
        /\ \A i \in 1 .. k - 1 + 1 : SubSeq(lru, 1, k)[i] = lru[1 + i - 1]
    BY <2>1, SubSeqProperties
  <2>3. k - 1 + 1 = k /\ (~(1 <= k) => k = 0) /\ \A i \in 1 .. k : 1 + i - 1 = i  OBVIOUS
  <2>4. Len(SubSeq(lru, 1, k)) = k  BY <2>2, <2>3
  <2>5. \A i \in 1 .. k : SubSeq(lru, 1, k)[i] = lru[i]
    <3> TAKE i \in 1 .. k
    <3>1. i \in 1 .. k - 1 + 1 /\ 1 + i - 1 = i  OBVIOUS
    <3> QED  BY <2>2, <3>1
  <2> QED  BY <2>2, <2>4, <2>5
<1>5. \A i, j \in 1 .. len : lru[i] = lru[j] => i = j  BY <1>1, <1>2 DEF Distinct
<1>6. ASSUME NEW i \in 1 .. k PROVE m[i] = recent[i] /\ m[i] \in entries \ {lru[len]}
  <2>1. i \in 1 .. len /\ len \in 1 .. len /\ i # len  BY <1>3
  <2> QED  BY <1>2, <1>4, <1>5, <2>1
<1>7. ASSUME NEW e \in entries \ {lru[len]} PROVE \E i \in 1 .. k : m[i] = e
  <2>1. PICK j \in 1 .. len : lru[j] = e  BY <1>2
  <2>2. j \in 1 .. k  BY <1>3, <2>1
  <2> QED  BY <1>4, <2>1, <2>2
<1>8. DOMAIN m = 1 .. k  BY <1>4, LenProperties
<1>9. entries \ {lru[len]} = {m[i] : i \in DOMAIN m}  BY <1>6, <1>7, <1>8
<1>10. k <= all  BY <1>1, <1>3
<1>11. MostRecent(m, recent, entries \ {lru[len]})
  <2>1. Len(m) <= Len(recent) /\ \A i \in 1 .. Len(m) : m[i] = recent[i]
    BY <1>1, <1>4, <1>6, <1>10
  <2> QED  BY <1>1, <1>2, <1>9, <2>1 DEF MostRecent
<1> QED  BY <1>1, <1>3, <1>4, <1>11

(* Where a pool stands: what it inserts was not in it, and the capacity it *)
(* was asked with bounds it once the path is in.                           *)
ListsOK(s) ==
    /\ MostRecent(s.lru, s.recent, s.entries)
    /\ s.capacity \in Nat
    /\ s.label = "evict" => s.path \in Paths \ s.entries
    /\ s.label = "inserted" /\ s.capacity > 0 => Len(s.lru) <= s.capacity

LEMMA EmptyLists == ListsOK(EmptyPool)
<1>1. /\ <<>> \in Seq(Paths) /\ Len(<<>>) = 0 /\ DOMAIN <<>> = {}
      /\ \A n \in 1 .. 0 : FALSE
  OBVIOUS
<1>2. MostRecent(<<>>, <<>>, {})  BY <1>1 DEF MostRecent, Distinct
<1> QED  BY <1>2 DEF ListsOK, EmptyPool

LEMMA HitKeepsLists ==
    ASSUME DOMAIN pool = PoolThreads, NEW t \in PoolThreads, ListsOK(pool[t]),
           NEW path \in Paths, NEW capacity_ \in Nat, HitEntry(t, path, capacity_)
    PROVE  ListsOK(pool'[t])
<1>1. PICK lru, recent, entries :
        lru = pool[t].lru /\ recent = pool[t].recent /\ entries = pool[t].entries
  OBVIOUS
<1>2. PICK touched, used :
        touched = MoveToFront(path, lru) /\ used = MoveToFront(path, recent)
  OBVIOUS
<1>3. pool'[t] = [label |-> "hit", path |-> path, capacity |-> capacity_, entries |-> entries,
                  lru |-> touched, recent |-> used]
  BY <1>1, <1>2 DEF HitEntry, touchEntry
<1>4. MostRecent(touched, used, entries)
  BY <1>1, <1>2, HitLists DEF ListsOK, HitEntry
<1> QED  BY <1>3, <1>4 DEF ListsOK

LEMMA MissKeepsLists ==
    ASSUME DOMAIN pool = PoolThreads, NEW t \in PoolThreads, PoolOK(t), ListsOK(pool[t]),
           NEW path \in Paths, NEW capacity_ \in Nat,
           MissOpens(t, path, capacity_) \/ MissFails(t, path, capacity_)
    PROVE  ListsOK(pool'[t])
<1>1. PICK label \in {"evict", "failed"} :
        pool' = [pool EXCEPT ![t].label = label, ![t].path = path, ![t].capacity = capacity_]
  BY DEF MissOpens, MissFails
<1>2. /\ pool'[t].label = label /\ pool'[t].path = path /\ pool'[t].capacity = capacity_
      /\ pool'[t].lru = pool[t].lru /\ pool'[t].recent = pool[t].recent
      /\ pool'[t].entries = pool[t].entries
  BY <1>1 DEF PoolOK
<1>3. path \notin pool[t].entries  BY DEF MissOpens, MissFails
<1> QED  BY <1>2, <1>3 DEF ListsOK

LEMMA EvictKeepsLists ==
    ASSUME DOMAIN pool = PoolThreads, NEW t \in PoolThreads, PoolOK(t), ListsOK(pool[t]),
           EvictTail(t)
    PROVE  ListsOK(pool'[t])
<1>1. PICK lru, recent, entries, path, capacity_ :
        /\ lru = pool[t].lru /\ recent = pool[t].recent /\ entries = pool[t].entries
        /\ path = pool[t].path /\ capacity_ = pool[t].capacity
  OBVIOUS
<1>2. PICK fewer, left : fewer = SubSeq(lru, 1, Len(lru) - 1) /\ left = entries \ {lru[Len(lru)]}
  OBVIOUS
<1>3. /\ pool' = [pool EXCEPT ![t].entries = left, ![t].lru = fewer]
      /\ lru # <<>> /\ pool[t].label = "evict"
  BY <1>1, <1>2 DEF EvictTail, MustEvict, Pool
<1>4. /\ pool'[t].label = "evict" /\ pool'[t].path = path /\ pool'[t].capacity = capacity_
      /\ pool'[t].lru = fewer /\ pool'[t].recent = recent /\ pool'[t].entries = left
  BY <1>1, <1>3 DEF PoolOK
<1>5. MostRecent(fewer, recent, left)  BY <1>1, <1>2, <1>3, EvictLists DEF ListsOK
<1>6. capacity_ \in Nat /\ path \in Paths \ left  BY <1>1, <1>2, <1>3 DEF ListsOK
<1> QED  BY <1>4, <1>5, <1>6 DEF ListsOK

LEMMA InsertKeepsLists ==
    ASSUME DOMAIN pool = PoolThreads, NEW t \in PoolThreads, PoolOK(t), ListsOK(pool[t]),
           InsertEntry(t)
    PROVE  ListsOK(pool'[t])
<1>1. PICK lru, recent, entries, path, capacity_ :
        /\ lru = pool[t].lru /\ recent = pool[t].recent /\ entries = pool[t].entries
        /\ path = pool[t].path /\ capacity_ = pool[t].capacity
  OBVIOUS
<1>2. PICK more, used, all :
        /\ more = <<path>> \o lru /\ used = MoveToFront(path, recent)
        /\ all = entries \cup {path}
  OBVIOUS
<1>3. /\ pool' = [pool EXCEPT ![t].label = "inserted", ![t].entries = all,
                              ![t].lru = more, ![t].recent = used]
      /\ pool[t].label = "evict" /\ ~MustEvict(pool[t])
  BY <1>1, <1>2 DEF InsertEntry, Pool
<1>4. /\ pool'[t].label = "inserted" /\ pool'[t].capacity = capacity_
      /\ pool'[t].lru = more /\ pool'[t].recent = used /\ pool'[t].entries = all
  BY <1>1, <1>3 DEF PoolOK
<1>5. /\ MostRecent(lru, recent, entries) /\ capacity_ \in Nat /\ path \in Paths \ entries
  BY <1>1, <1>3 DEF ListsOK
<1>6. MostRecent(more, used, all)  BY <1>2, <1>5, InsertLists
<1>7. capacity_ > 0 => Len(more) <= capacity_
  <2>1. PICK len \in Nat : len = Len(lru) /\ lru \in Seq(Paths)
    BY <1>5, LenProperties DEF MostRecent
  <2>2. Len(more) = len + 1  BY <1>2, <1>5, <2>1, InFront
  <2>3. Cardinality(entries) = len  BY <1>5, <2>1, Count
  <2>4. capacity_ > 0 => len < capacity_ \/ lru = <<>>
    BY <1>1, <1>3, <1>5, <2>1, <2>3 DEF MustEvict
  <2>5. lru = <<>> => len = 0  BY <2>1
  <2> QED  BY <1>5, <2>1, <2>2, <2>4, <2>5
<1> QED  BY <1>4, <1>5, <1>6, <1>7 DEF ListsOK

(* The scheduler is there for everybody who is in a run, or may begin one, *)
(* until a shutdown resets it, when no run is short of its return.         *)
InstanceInv ==
    /\ instance = NoScheduler \/ \E capacity \in Nat : instance = FileReadScheduler(capacity)
    /\ \A u \in Users :
          /\ InRun(u) \/ User(u, "got") => instance.exists
          /\ User(u, "shutdown") => owner = u

(* A step of the users that brings nobody further.                         *)
LEMMA InstanceFrame ==
    ASSUME InstanceInv, UNCHANGED <<instance, owner>>,
           \A u \in Users : /\ InRun(u)' => InRun(u) \/ User(u, "got")
                            /\ User(u, "got")' => User(u, "got")
                            /\ User(u, "shutdown")' => User(u, "shutdown")
    PROVE  InstanceInv'
BY DEF InstanceInv

LEMMA InstanceUnchanged ==
    ASSUME InstanceInv, UNCHANGED <<instance, owner, user>> PROVE InstanceInv'
BY DEF InstanceInv, InRun, User

LEMMA TaskInstance ==
    ASSUME HandlesInv, InstanceInv, NEW t \in PoolThreads, TaskStep(t)
    PROVE  InstanceInv'
<1>0. JobsOK  BY DEF HandlesInv
<1>1. CASE TakeTask(t)
  <2>1. PICK u \in Users : /\ user[u].label = "queued" /\ UNCHANGED <<instance, owner>>
                           /\ user' = [user EXCEPT ![u].label = "running"]
    BY <1>1 DEF TakeTask, User, UserGoes
  <2>2. user'[u].label = "running" /\ \A v \in Users : v # u => user'[v] = user[v]
    BY <1>0, <2>1 DEF JobsOK
  <2> QED  BY <2>1, <2>2, InstanceFrame DEF InRun, User
<1>2. CASE AskPool(t) \/ PoolGoesOn(t) \/ ReadTask(t)
  <2>1. UNCHANGED <<instance, owner, user>>
    BY <1>2 DEF AskPool, PoolGoesOn, ReadTask, taskVars
  <2> QED  BY <2>1, InstanceUnchanged
<1>3. CASE TaskReturns(t)
  <2>1. PICK u \in Users : /\ user[u].label = "running" /\ UNCHANGED <<instance, owner>>
                           /\ user' = [user EXCEPT ![u].label = "returning"]
    BY <1>0, <1>3 DEF TaskReturns, UserGoes, User, JobsOK
  <2>2. user'[u].label = "returning" /\ \A v \in Users : v # u => user'[v] = user[v]
    BY <1>0, <2>1 DEF JobsOK
  <2> QED  BY <2>1, <2>2, InstanceFrame DEF InRun, User
<1> QED  BY <1>1, <1>2, <1>3 DEF TaskStep

LEMMA UserInstance ==
    ASSUME HandlesInv, InstanceInv, NEW u \in Users, UserStep(u)
    PROVE  InstanceInv'
<1>0. JobsOK /\ u # Nobody  BY ClientsAssumption DEF HandlesInv
<1>1. CASE initialize(u)
  <2>1. /\ instance' \in {FileReadScheduler(capacity) : capacity \in Nat}
        /\ UNCHANGED <<owner, user>>
    BY <1>1, SchedulerAssumption DEF initialize
  <2>2. instance'.exists  BY <2>1 DEF FileReadScheduler
  <2> QED  BY <2>1, <2>2 DEF InstanceInv, InRun, User
<1>2. CASE get(u)
  <2>1. /\ owner = Nobody /\ UNCHANGED owner
        /\ user' = [user EXCEPT ![u].label = "got"]
    BY <1>2 DEF get, UserGoes, MutexFree
  <2>2. user'[u].label = "got" /\ \A v \in Users : v # u => user'[v] = user[v]
    BY <1>0, <2>1 DEF JobsOK
  <2>3. /\ instance' = NoScheduler \/ \E capacity \in Nat : instance' = FileReadScheduler(capacity)
        /\ instance'.exists
    BY <1>2, SchedulerAssumption DEF get, InstanceInv, NoScheduler, FileReadScheduler
  <2> QED  BY <2>1, <2>2, <2>3 DEF InstanceInv, InRun, User
<1>3. CASE runRequests(u) \/ RunStep(u)
  <2>1. PICK label \in {"begun", "queued", "running", "idle"} :
          /\ UNCHANGED <<instance, owner>>
          /\ InRun(u) \/ User(u, "got")
          /\ user'[u].label = label /\ \A v \in Users : v # u => user'[v] = user[v]
    <3>1. CASE runRequests(u)  BY <1>0, <3>1 DEF runRequests, JobsOK
    <3>2. CASE Dispatch(u)
      <4>1. PICK label \in {"queued", "running"} : user' = [user EXCEPT ![u].label = label]
        BY <3>2 DEF Dispatch, UserGoes
      <4> QED  BY <1>0, <3>2, <4>1 DEF Dispatch, InRun, User, JobsOK
    <3>3. CASE RunReturns(u)  BY <1>0, <3>3 DEF RunReturns, InRun, User, NoRun, JobsOK
    <3> QED  BY <1>3, <3>1, <3>2, <3>3 DEF RunStep
  <2> QED  BY <2>1, InstanceFrame DEF InRun, User
<1>4. CASE ShutdownBegins(u)
  <2>1. /\ owner = Nobody /\ owner' = u /\ UNCHANGED instance
        /\ user' = [user EXCEPT ![u].label = "shutdown"]
    BY <1>4 DEF ShutdownBegins, UserGoes, MutexFree
  <2>2. user'[u].label = "shutdown" /\ \A v \in Users : v # u => user'[v] = user[v]
    BY <1>0, <2>1 DEF JobsOK
  <2>3. \A v \in Users : ~User(v, "shutdown")
    BY <2>1, ClientsAssumption DEF InstanceInv
  <2> QED  BY <2>1, <2>2, <2>3 DEF InstanceInv, InRun, User
<1> QED  BY <1>1, <1>2, <1>3, <1>4 DEF UserStep

LEMMA ShutdownInstance ==
    ASSUME HandlesInv, InstanceInv, NEW u \in Users, ShutdownResets(u)
    PROVE  InstanceInv'
<1>0. JobsOK /\ u # Nobody  BY ClientsAssumption DEF HandlesInv
<1>1. /\ instance' = NoScheduler /\ owner' = Nobody /\ Dangling(u)
      /\ user[u].label = "shutdown"
      /\ \A v \in Users : ~InRun(v)
  BY DEF ShutdownResets, waitIdle, NoRunUnwaited, User
<1>2. owner = u  BY <1>1 DEF InstanceInv, User
<1>3. \A v \in Users : ~InRun(v)' /\ user'[v].label \notin {"got", "shutdown"}
  <2> TAKE v \in Users
  <2>1. CASE v = u \/ User(v, "got")
    <3>1. user'[v] = [user[v] EXCEPT !.label = "idle"]  BY <1>1, <2>1 DEF Dangling
    <3>2. "label" \in DOMAIN user[v]  BY <1>0 DEF JobsOK
    <3> QED  BY <3>1, <3>2 DEF InRun
  <2>2. CASE ~(v = u \/ User(v, "got"))
    <3>1. user'[v] = user[v]  BY <1>1, <2>2 DEF Dangling
    <3>2. user[v].label # "shutdown"  BY <1>2, <2>2 DEF InstanceInv, User
    <3> QED  BY <1>1, <2>2, <3>1, <3>2 DEF InRun, User
  <2> QED  BY <2>1, <2>2
<1> QED  BY <1>1, <1>3 DEF InstanceInv, User

-----------------------------------------------------------------------------
PoolListsInv == InstanceInv /\ \A t \in PoolThreads : ListsOK(pool[t])

LEMMA TaskLists ==
    ASSUME HandlesInv, PoolListsInv, NEW t \in PoolThreads, TaskStep(t)
    PROVE  \A s \in PoolThreads : ListsOK(pool'[s])
<1>0. /\ DOMAIN pool = PoolThreads /\ PoolOK(t) /\ ListsOK(pool[t]) /\ JobsOK /\ InstanceInv
  BY DEF HandlesInv, PoolListsInv
<1>1. \A s \in PoolThreads \ {t} : pool'[s] = pool[s]  BY TaskStepOK DEF OnlyPoolOf
<1>2. ListsOK(pool'[t])
  <2>1. CASE TakeTask(t) \/ ReadTask(t)
    <3>1. pool' = pool  BY <2>1 DEF TakeTask, ReadTask
    <3> QED  BY <1>0, <3>1
  <2>2. CASE AskPool(t)
    <3>1. PICK u \in Users : u = job[t] /\ InRun(u)
      BY <1>0, <2>2 DEF AskPool, JobsOK, InRun, User
    <3>2. instance.exists /\ user[u].path \in Paths
      BY <1>0, <3>1 DEF InstanceInv, JobsOK
    <3>3. PICK capacity_ \in Nat : instance = FileReadScheduler(capacity_)
      BY <1>0, <3>2 DEF InstanceInv, NoScheduler
    <3>4. instance.capacity = capacity_  BY <3>3 DEF FileReadScheduler
    <3>5. PICK path \in Paths : getReadHandle(t, path, capacity_)
      BY <2>2, <3>1, <3>2, <3>4 DEF AskPool
    <3> QED  BY <1>0, <3>5, HitKeepsLists, MissKeepsLists DEF getReadHandle
  <2>3. CASE PoolGoesOn(t)
    BY <1>0, <2>3, EvictKeepsLists, InsertKeepsLists DEF PoolGoesOn
  <2>4. CASE TaskReturns(t)
    <3>1. pool' = [pool EXCEPT ![t].label = "idle", ![t].path = "none", ![t].capacity = 0]
      BY <2>4 DEF TaskReturns
    <3>2. /\ pool'[t].label = "idle" /\ pool'[t].capacity = 0
          /\ pool'[t].lru = pool[t].lru /\ pool'[t].recent = pool[t].recent
          /\ pool'[t].entries = pool[t].entries
      BY <1>0, <3>1 DEF PoolOK
    <3> QED  BY <1>0, <3>2 DEF ListsOK
  <2> QED  BY <2>1, <2>2, <2>3, <2>4 DEF TaskStep
<1> QED  BY <1>1, <1>2 DEF PoolListsInv

LEMMA PoolListsInit == Init => PoolListsInv
<1> SUFFICES ASSUME Init PROVE PoolListsInv  OBVIOUS
<1>1. \A t \in PoolThreads : ListsOK(pool[t])
  BY EmptyLists DEF Init, SchedulerInit, PoolInit
<1>2. /\ instance = NoScheduler /\ owner = Nobody /\ \A u \in Users : user[u].label = "idle"
  BY DEF Init, SchedulerInit, NoRun
<1>3. InstanceInv  BY <1>2 DEF InstanceInv, InRun, User
<1> QED  BY <1>1, <1>3 DEF PoolListsInv

LEMMA PoolListsNext == HandlesInv /\ PoolListsInv /\ [Next]_vars => PoolListsInv'
<1> SUFFICES ASSUME HandlesInv, PoolListsInv, [Next]_vars PROVE PoolListsInv'  OBVIOUS
<1>0. InstanceInv /\ \A t \in PoolThreads : ListsOK(pool[t])  BY DEF PoolListsInv
<1>1. ASSUME UNCHANGED schedulerVars PROVE PoolListsInv'
  <2>1. UNCHANGED <<pool, instance, owner, user>>
    BY <1>1 DEF schedulerVars, taskVars
  <2>2. InstanceInv'  BY <1>0, <2>1, InstanceUnchanged
  <2> QED  BY <1>0, <2>1, <2>2 DEF PoolListsInv
<1>2. CASE Session_ \/ Helper_ \/ Mapper_ \/ Writer_ \/ (\E c \in Clients : Transfer_(c))
           \/ UNCHANGED vars
  BY <1>1, <1>2 DEF Session_, Helper_, Mapper_, Writer_, Transfer_, vars
<1>3. CASE Scheduler_
  <2>1. ASSUME NEW t \in PoolThreads, TaskStep(t) PROVE PoolListsInv'
    <3>1. InstanceInv'  BY <1>0, <2>1, TaskInstance
    <3>2. \A s \in PoolThreads : ListsOK(pool'[s])  BY <2>1, TaskLists
    <3> QED  BY <3>1, <3>2 DEF PoolListsInv
  <2>2. ASSUME NEW u \in Users, UserStep(u) PROVE PoolListsInv'
    <3>1. InstanceInv'  BY <1>0, <2>2, UserInstance
    <3>2. UNCHANGED pool  BY <2>2, UserStepOK
    <3> QED  BY <1>0, <3>1, <3>2 DEF PoolListsInv
  <2>3. ASSUME NEW u \in Users, ShutdownResets(u) PROVE PoolListsInv'
    <3>1. InstanceInv'  BY <1>0, <2>3, ShutdownInstance
    <3>2. \A t \in PoolThreads : pool'[t] \in {EmptyPool, pool[t]}
      BY <2>3 DEF ShutdownResets, clearThreads
    <3>3. \A t \in PoolThreads : ListsOK(pool'[t])  BY <1>0, <3>2, EmptyLists
    <3> QED  BY <3>1, <3>3 DEF PoolListsInv
  <2> QED  BY <1>3, <2>1, <2>2, <2>3 DEF Scheduler_, SchedulerStep
<1> QED  BY <1>2, <1>3 DEF Next

LEMMA ListsAgree ==
    ASSUME NEW lru, NEW recent, NEW entries, MostRecent(lru, recent, entries)
    PROVE  /\ Len(lru) <= Len(recent) /\ lru = SubSeq(recent, 1, Len(lru))
           /\ entries = {lru[n] : n \in DOMAIN lru}
<1>1. PICK len \in Nat, all \in Nat :
        /\ len = Len(lru) /\ all = Len(recent) /\ len <= all
        /\ lru \in Seq(Paths) /\ recent \in Seq(Paths)
  BY LenProperties DEF MostRecent
<1>2. /\ SubSeq(recent, 1, len) \in Seq(Paths) /\ Len(SubSeq(recent, 1, len)) = len
      /\ \A i \in 1 .. len : SubSeq(recent, 1, len)[i] = recent[i]
  <2>1. \A i \in 1 .. len : recent[i] \in Paths  BY <1>1, ElementOfSeq
  <2>2. /\ SubSeq(recent, 1, len) \in Seq(Paths)
        /\ Len(SubSeq(recent, 1, len)) = IF 1 <= len THEN len - 1 + 1 ELSE 0
        /\ \A i \in 1 .. len - 1 + 1 : SubSeq(recent, 1, len)[i] = recent[1 + i - 1]
    BY <2>1, SubSeqProperties
  <2>3. Len(SubSeq(recent, 1, len)) = len  BY <2>2
  <2>4. \A i \in 1 .. len : SubSeq(recent, 1, len)[i] = recent[i]
    <3> TAKE i \in 1 .. len
    <3>1. i \in 1 .. len - 1 + 1 /\ 1 + i - 1 = i  OBVIOUS
    <3> QED  BY <2>2, <3>1
  <2> QED  BY <2>2, <2>3, <2>4
<1>3. lru = SubSeq(recent, 1, len)
  <2>1. \A i \in 1 .. len : lru[i] = SubSeq(recent, 1, len)[i]  BY <1>1, <1>2 DEF MostRecent
  <2>2. PICK first \in Seq(Paths) : first = SubSeq(recent, 1, len)  BY <1>2
  <2>3. Len(lru) = Len(first) /\ \A i \in 1 .. Len(lru) : lru[i] = first[i]
    BY <1>1, <1>2, <2>1, <2>2
  <2> QED  BY <1>1, <2>2, <2>3, SeqEqual
<1> QED  BY <1>1, <1>3 DEF MostRecent

(* The pool of every thread holds the paths used last, latest first, and   *)
(* no others, however many pools of whatever capacity the thread goes      *)
(* through, and after an insertion no more than the capacity it was asked  *)
(* with (touchEntry, evictIfNeeded).                                       *)
THEOREM PoolKeepsMostRecentAlways == Spec => []PoolKeepsMostRecent
<1> DEFINE Inv == HandlesInv /\ PoolListsInv
<1>1. Init => Inv  BY HandlesInvInit, PoolListsInit
<1>2. Inv /\ [Next]_vars => Inv'  BY HandlesInvNext, PoolListsNext
<1>3. Inv => PoolKeepsMostRecent
  <2> SUFFICES ASSUME PoolListsInv, NEW t \in PoolThreads
               PROVE  /\ Len(pool[t].lru) <= Len(pool[t].recent)
                      /\ pool[t].lru = SubSeq(pool[t].recent, 1, Len(pool[t].lru))
                      /\ pool[t].entries = {pool[t].lru[n] : n \in DOMAIN pool[t].lru}
                      /\ pool[t].label = "inserted" /\ pool[t].capacity > 0 =>
                            Len(pool[t].lru) <= pool[t].capacity
    BY DEF PoolKeepsMostRecent
  <2>1. ListsOK(pool[t])  BY DEF PoolListsInv
  <2> QED  BY <2>1, ListsAgree DEF ListsOK
<1> HIDE DEF Inv
<1> QED  BY <1>1, <1>2, <1>3, PTL DEF Spec

-----------------------------------------------------------------------------
(* The stream a session makes: how far it is, and what has to hold for the *)
(* next byte to be the right one.                                          *)
StreamInv ==
    /\ session.delivered \in Seq(Nat) /\ session.first \in Nat
    /\ session.complete \in BOOLEAN /\ session.end_of_stream \in BOOLEAN
    /\ session.stream_offset = session.first + Len(session.delivered)
    /\ isOpen(FileValue) => session.chunk_bytes > 0
    /\ Session("open") \/ Session("adopt") =>
          ~isOpen(FileValue) /\ session.delivered = <<>> /\ session.call.chunk_bytes > 0
    /\ Session("reading") =>
          /\ isOpen(FileValue) /\ ~session.complete /\ ~session.end_of_stream
          /\ session.remaining_bytes > 0
          /\ io[SessionThread].offset = session.stream_offset
          /\ \E span \in SpanSizes : io[SessionThread].size <= span
    /\ Session("ended") => isOpen(FileValue) /\ session.complete
    /\ Session("idle") /\ isOpen(FileValue) /\ ~session.end_of_stream =>
          ~session.complete /\ session.remaining_bytes > 0

StreamEnded == isOpen(FileValue) /\ session.end_of_stream
StreamComplete == session.complete \/ (Brought > 0 /\ LastRead(io[SessionThread]))
LongestSpan == CHOOSE n \in SpanSizes : \A k \in SpanSizes : k <= n

LEMMA LongestSpanIs == LongestSpan \in Nat /\ \A span \in SpanSizes : span <= LongestSpan
<1>1. \E most \in SpanSizes : \A span \in SpanSizes : span <= most  BY StreamAssumption
<1>2. LongestSpan \in SpanSizes /\ \A span \in SpanSizes : span <= LongestSpan
  BY <1>1 DEF LongestSpan
<1> QED  BY <1>2, StreamAssumption

(* What a step can be for whoever drains the stream.                       *)
LEMMA StreamStays ==
    ASSUME session'.delivered = session.delivered, Brought' = Brought,
           StreamComplete' = StreamComplete, StreamEnded' = StreamEnded
    PROVE  [Stream!Next]_(Stream!streamVars)
BY DEF StreamComplete, StreamEnded, Stream!streamVars

LEMMA StreamOpens ==
    ASSUME session'.delivered = <<>>, Brought' = 0,
           session'.complete \in BOOLEAN, StreamEnded' = session'.complete
    PROVE  [Stream!Next]_(Stream!streamVars)
<1>1. Len(session'.delivered) = 0 /\ StreamComplete' = session'.complete  BY DEF StreamComplete
<1>2. Stream!Open  BY <1>1 DEF StreamComplete, StreamEnded, Stream!Open
<1> QED  BY <1>2 DEF Stream!Next

LEMMA StreamEnds ==
    ASSUME session'.delivered = session.delivered, session.delivered \in Seq(Nat),
           Brought = 0, Brought' = 0, session.complete = TRUE, session'.complete = TRUE,
           StreamEnded' = TRUE
    PROVE  [Stream!Next]_(Stream!streamVars)
<1>1. Len(session.delivered) \in Nat  BY LenProperties
<1>2. Stream!End  BY <1>1 DEF StreamEnded, Stream!End
<1> QED  BY <1>2 DEF Stream!Next

LEMMA StreamProduces ==
    ASSUME NEW n \in Nat, n <= LongestSpan, session'.delivered = session.delivered,
           session.delivered \in Seq(Nat),
           Brought = 0, Brought' = n, ~StreamComplete, StreamComplete' \in BOOLEAN,
           StreamEnded' = StreamEnded
    PROVE  [Stream!Next]_(Stream!streamVars)
<1>1. PICK len \in Nat : len = Len(session.delivered)  BY LenProperties
<1>2. PICK most \in Nat : most = LongestSpan  BY LongestSpanIs
<1>3. n \in 0 .. LongestSpan  BY <1>2
<1>4. len + 0 + n - len <= LongestSpan /\ len + n = len + 0 + n  BY <1>2
<1>5. Stream!Produce(n)
  BY <1>1, <1>4 DEF StreamComplete, StreamEnded, LongestSpan, Stream!Produce
<1> QED  BY <1>3, <1>5 DEF LongestSpan, Stream!Next

LEMMA StreamDelivers ==
    ASSUME NEW n \in Nat, n <= LongestSpan, session.delivered \in Seq(Nat),
           session'.delivered \in Seq(Nat),
           session'.delivered = session.delivered \o [k \in 1 .. n |-> Len(session.delivered) + k],
           Len(session'.delivered) = Len(session.delivered) + n,
           Brought = n, Brought' = 0, StreamComplete' = StreamComplete, StreamEnded' = StreamEnded
    PROVE  [Stream!Next]_(Stream!streamVars)
<1>1. PICK len \in Nat : len = Len(session.delivered)  BY LenProperties
<1>2. PICK most \in Nat : most = LongestSpan  BY LongestSpanIs
<1>3. n \in 0 .. LongestSpan  BY <1>2
<1>4. len + n <= len + n /\ (len + n) + 0 = len + n  OBVIOUS
<1>5. Stream!Deliver(n)
  BY <1>1, <1>4 DEF StreamComplete, StreamEnded, Stream!Deliver
<1> QED  BY <1>3, <1>5 DEF LongestSpan, Stream!Next

LEMMA StreamSame ==
    ASSUME UNCHANGED io, session'.label = session.label,
           session'.delivered = session.delivered, session'.complete = session.complete,
           session'.end_of_stream = session.end_of_stream,
           session'.remaining_bytes = session.remaining_bytes,
           isOpen(FileValue)' = isOpen(FileValue)
    PROVE  [Stream!Next]_(Stream!streamVars)
<1>1. Brought' = Brought  BY DEF Brought, Session
<1>2. StreamComplete' = StreamComplete  BY <1>1 DEF StreamComplete, LastRead
<1>3. StreamEnded' = StreamEnded  BY DEF StreamEnded
<1> QED  BY <1>1, <1>2, <1>3, StreamStays

LEMMA StreamQuiet ==
    ASSUME session.label # "reading" \/ io[SessionThread].outcome # "ok",
           session'.label # "reading",
           session'.delivered = session.delivered, session'.complete = session.complete,
           StreamEnded' = StreamEnded
    PROVE  [Stream!Next]_(Stream!streamVars)
<1>1. Brought = 0 /\ Brought' = 0  BY DEF Brought, Session
<1>2. StreamComplete' = StreamComplete  BY <1>1 DEF StreamComplete
<1> QED  BY <1>1, <1>2, StreamStays

LEMMA StartStreams ==
    ASSUME HandlesInv, DataTypes, StreamInv, start \/ stop
    PROVE  StreamInv' /\ [Stream!Next]_(Stream!streamVars)
<1> USE DEF Session, SetSession
<1>0. OwnedOnce /\ SessionOK /\ SessionTypes /\ FileValue # OpenResult
  BY ObjectsApart DEF HandlesInv, DataTypes
<1>e. <<>> \in Seq(Nat) /\ Len(<<>>) = 0 /\ 0 = 0 + Len(<<>>)  OBVIOUS
<1>1. CASE StartStops \/ stop
  <2>1. close({FileValue})  BY <1>1 DEF StartStops, stop
  <2>2. ~isOpen(FileValue)'  BY <1>0, <2>1, CloseOwns
  <2>3. PICK label \in {"idle", "open"} : \E call :
          /\ label = "open" => call.chunk_bytes > 0
          /\ session' = [Stopped(session) EXCEPT !.call = call, !.label = label]
    <3>1. CASE StartStops
      <4>1. PICK c \in StreamCalls :
              session' = [Stopped(session) EXCEPT
                 !.call = IF c.chunk_bytes = 0 THEN NoCall ELSE c,
                 !.label = IF c.chunk_bytes = 0 THEN "idle" ELSE "open"]
        BY <3>1 DEF StartStops
      <4>2. CASE c.chunk_bytes = 0
        <5>1. session' = [Stopped(session) EXCEPT !.call = NoCall, !.label = "idle"]
          BY <4>1, <4>2
        <5> QED  BY <5>1
      <4>3. CASE c.chunk_bytes # 0
        <5>1. session' = [Stopped(session) EXCEPT !.call = c, !.label = "open"]
          BY <4>1, <4>3
        <5>2. c.chunk_bytes > 0  BY <4>3, StreamAssumption
        <5> QED  BY <5>1, <5>2
      <4> QED  BY <4>2, <4>3
    <3>2. CASE stop
      <4>1. session' = Stopped(session) /\ session.label = "idle"  BY <3>2 DEF stop
      <4>2. Stopped(session) = [Stopped(session) EXCEPT !.call = session.call, !.label = "idle"]
        BY <1>0, <4>1 DEF Stopped, SessionTypes, SessionFields
      <4> QED  BY <4>1, <4>2
    <3> QED  BY <1>1, <3>1, <3>2
  <2>4. /\ session'.label = label /\ session'.end_of_stream = TRUE
        /\ label = "open" => session'.call.chunk_bytes > 0
        /\ session'.stream_offset = 0 /\ session'.first = 0
        /\ session'.complete = FALSE /\ session'.delivered = <<>>
    BY <1>0, <2>3 DEF Stopped, SessionTypes, SessionFields
  <2>5. StreamInv'
    <3>1. /\ session'.complete \in BOOLEAN /\ session'.end_of_stream \in BOOLEAN
          /\ session'.delivered \in Seq(Nat)
          /\ session'.stream_offset = session'.first + Len(session'.delivered)
      BY <1>e, <2>4
    <3>2. session'.label \notin {"adopt", "reading", "ended"} /\ session'.first \in Nat
      BY <2>3, <2>4
    <3> QED  BY <2>2, <2>3, <2>4, <3>1, <3>2 DEF StreamInv
  <2>6. Brought' = 0 /\ StreamEnded' = FALSE  BY <2>2, <2>3, <2>4 DEF Brought, StreamEnded
  <2> QED  BY <2>4, <2>5, <2>6, StreamOpens
<1>2. CASE StartOpens \/ StartCannotOpen \/ StartRejects
  <2>1. PICK label \in {"adopt", "idle"} : \E call :
          /\ label = "adopt" => call = session.call
          /\ session' = [session EXCEPT !.label = label, !.call = call]
    <3>1. CASE StartOpens
      <4>1. session' = [session EXCEPT !.label = "adopt"]  BY <3>1 DEF StartOpens
      <4>2. session' = [session EXCEPT !.label = "adopt", !.call = session.call]
        BY <1>0, <4>1 DEF SessionTypes, SessionFields
      <4> QED  BY <4>2
    <3>2. CASE StartCannotOpen \/ StartRejects
      BY <3>2 DEF StartCannotOpen, StartRejects
    <3> QED  BY <1>2, <3>1, <3>2
  <2>2. session.label \in {"open", "adopt"}  BY <1>2 DEF StartOpens, StartCannotOpen, StartRejects
  <2>3. ~isOpen(FileValue) /\ session.delivered = <<>> /\ session.call.chunk_bytes > 0
    BY <2>2 DEF StreamInv
  <2>4. ~isOpen(FileValue)'
    <3>1. CASE StartOpens
      <4>1. open(OpenResult, session.call.path, openRead({"read"})) /\ ~isOpen(OpenResult)
        BY <1>0, <3>1 DEF StartOpens, SessionOK
      <4>2. Keeps(FileValue)  BY <1>0, <4>1, OpenOwns
      <4> QED  BY <2>3, <4>2 DEF Keeps, isOpen
    <3>2. CASE StartCannotOpen
      BY <2>3, <3>2 DEF StartCannotOpen, handleVars, isOpen
    <3>3. CASE StartRejects
      <4>1. Keeps(FileValue)  BY <1>0, <3>3, CloseOwns DEF StartRejects
      <4> QED  BY <2>3, <4>1 DEF Keeps, isOpen
    <3> QED  BY <1>2, <3>1, <3>2, <3>3
  <2>5. /\ session'.label = label
        /\ label = "adopt" => session'.call = session.call
        /\ session'.end_of_stream = session.end_of_stream
        /\ session'.stream_offset = session.stream_offset /\ session'.first = session.first
        /\ session'.complete = session.complete /\ session'.delivered = session.delivered
    BY <1>0, <2>1 DEF SessionTypes, SessionFields
  <2>6. StreamInv'  BY <2>1, <2>3, <2>4, <2>5 DEF StreamInv
  <2>7. StreamEnded' = StreamEnded  BY <2>3, <2>4 DEF StreamEnded
  <2> QED  BY <2>1, <2>2, <2>5, <2>6, <2>7, StreamQuiet
<1>3. CASE StartAdopts
  <2>1. /\ session.label = "adopt" /\ session.call.start_offset <= sizeOf(OpenResult)
        /\ move(OpenResult, FileValue)
    BY <1>3 DEF StartAdopts, Adopt
  <2>2. isOpen(OpenResult)  BY <1>0, <2>1 DEF SessionOK
  <2>3. isOpen(FileValue)'  BY <1>0, <2>1, <2>2, MoveOwns
  <2>4. sizeOf(OpenResult) \in Nat  BY <2>2, SizeIsNat DEF HandlesInv, DataTypes
  <2>5. PICK total \in Nat : total = TotalReadable(session.call, sizeOf(OpenResult))
    BY <1>0, <2>1, <2>4, TotalIsNat DEF SessionTypes
  <2>6. PICK empty \in BOOLEAN : empty = (total = 0)  OBVIOUS
  <2>7. session' = [session EXCEPT
            !.label = "idle", !.call = NoCall, !.chunk_bytes = session.call.chunk_bytes,
            !.stream_offset = session.call.start_offset, !.remaining_bytes = total,
            !.paused = FALSE, !.end_of_stream = empty,
            !.first = session.call.start_offset, !.complete = empty]
    BY <1>3, <2>5, <2>6 DEF StartAdopts, Adopt
  <2>8. /\ session'.label = "idle" /\ session'.chunk_bytes = session.call.chunk_bytes
        /\ session'.stream_offset = session.call.start_offset
        /\ session'.remaining_bytes = total /\ session'.end_of_stream = empty
        /\ session'.first = session.call.start_offset /\ session'.complete = empty
        /\ session'.delivered = session.delivered
    BY <1>0, <2>7 DEF SessionTypes, SessionFields
  <2>9. /\ session.delivered = <<>> /\ session.call.chunk_bytes > 0
        /\ session.call.start_offset \in Nat
    BY <1>0, <2>1 DEF StreamInv, SessionTypes
  <2>10. ~empty => total > 0
    <3>1. total = 0 \/ total > 0  OBVIOUS
    <3> QED  BY <2>6, <3>1
  <2>11. session.call.start_offset = session.call.start_offset + Len(<<>>)  BY <1>e, <2>9
  <2>12. StreamInv'  BY <1>e, <2>3, <2>8, <2>9, <2>10, <2>11 DEF StreamInv
  <2>13. Brought' = 0 /\ StreamEnded' = empty  BY <2>3, <2>8 DEF Brought, StreamEnded
  <2> QED  BY <2>8, <2>9, <2>12, <2>13, StreamOpens
<1> QED  BY <1>1, <1>2, <1>3 DEF start

LEMMA PlacesNext ==
    ASSUME session.delivered \in Seq(Nat), session.first \in Nat,
           NEW t, NEW n \in Nat, n = t.total_size,
           t.offset = session.first + Len(session.delivered)
    PROVE  /\ Places(t) = [k \in 1 .. n |-> Len(session.delivered) + k]
           /\ session.delivered \o Places(t) \in Seq(Nat)
           /\ Len(session.delivered \o Places(t)) = Len(session.delivered) + n
           /\ n = 0 => session.delivered \o Places(t) = session.delivered
<1>1. PICK first \in Nat, len \in Nat : first = session.first /\ len = Len(session.delivered)
  BY LenProperties
<1>2. \A k \in 1 .. n : first + len - first + k = len + k  OBVIOUS
<1>3. Places(t) = [k \in 1 .. n |-> first + len - first + k]  BY <1>1 DEF Places
<1>4. Places(t) = [k \in 1 .. n |-> len + k]  BY <1>2, <1>3
<1>5. PICK places : places = Places(t)  OBVIOUS
<1>6. places \in Seq(Nat) /\ Len(places) = n
  <2>1. places \in [1 .. n -> Nat]  BY <1>4, <1>5
  <2>2. places \in Seq(Nat)  BY <2>1, SeqDef
  <2>3. Len(places) \in Nat /\ 1 .. Len(places) = 1 .. n  BY <2>1, <2>2, LenProperties
  <2> QED  BY <2>2, <2>3
<1>7. PICK bytes : bytes = session.delivered  OBVIOUS
<1>8. /\ session.delivered \o places \in Seq(Nat)
       /\ Len(session.delivered \o places) = Len(session.delivered) + n
  <2>1. bytes \in Seq(Nat)  BY <1>7
  <2>2. bytes \o places \in Seq(Nat) /\ Len(bytes \o places) = Len(bytes) + Len(places)
    BY <1>6, <2>1, ConcatProperties
  <2> QED  BY <1>6, <1>7, <2>2
<1>9. n = 0 => session.delivered \o places = session.delivered
  <2> SUFFICES ASSUME n = 0 PROVE session.delivered \o places = session.delivered  OBVIOUS
  <2>1. places = <<>>  BY <1>6, EmptySeq
  <2> QED  BY <2>1, ConcatEmptySeq
<1> QED  BY <1>1, <1>4, <1>5, <1>8, <1>9

LEMMA ReadAdvanceStreams ==
    ASSUME HandlesInv, DataTypes, StreamInv, ReadAdvances
    PROVE  StreamInv' /\ [Stream!Next]_(Stream!streamVars)
<1>0. /\ SessionTypes /\ IoTypesOf(SessionThread, io[SessionThread]) /\ FileValue # OpenResult
  BY ThreadsApart, ObjectsApart DEF DataTypes, IoTypes
<1>1. /\ session.label = "reading" /\ UNCHANGED handleVars /\ io[SessionThread].outcome = "ok"
  BY DEF ReadAdvances, ReadAdvancesBy, Session
<1>2. PICK t : t = io[SessionThread]  OBVIOUS
<1>3. /\ isOpen(FileValue) /\ session.complete = FALSE /\ session.end_of_stream = FALSE
      /\ session.delivered \in Seq(Nat) /\ session.first \in Nat
      /\ session.stream_offset = session.first + Len(session.delivered)
      /\ t.offset = session.first + Len(session.delivered)
      /\ \E span \in SpanSizes : t.size <= span
      /\ session.chunk_bytes > 0
  BY <1>1, <1>2 DEF StreamInv, Session
<1>4. /\ t.size <= session.remaining_bytes /\ t.size \in Nat /\ t.total_size \in 0 .. t.size
  BY <1>0, <1>1, <1>2 DEF SessionTypes, Session, IoTypesOf
<1>5. PICK n \in Nat : n = t.total_size /\ n <= t.size /\ n <= session.remaining_bytes
  BY <1>0, <1>4 DEF SessionTypes
<1>6. PICK last \in BOOLEAN : last = LastRead(t)  BY DEF LastRead
<1>7. PICK label \in {"ended", "idle"} : label = "ended" <=> last  OBVIOUS
<1>8. PICK bytes : bytes = session.delivered \o Places(t)  OBVIOUS
<1>9. session' = [session EXCEPT !.label = label, !.stream_offset = @ + n,
                                 !.remaining_bytes = @ - n,
                                 !.complete = last, !.delivered = bytes]
  <2>1. label = IF LastRead(t) THEN "ended" ELSE "idle"  BY <1>6, <1>7
  <2> QED  BY <1>2, <1>5, <1>6, <1>8, <2>1 DEF ReadAdvances, ReadAdvancesBy, SetSession
<1>10. /\ session'.label = label /\ session'.complete = last /\ session'.delivered = bytes
       /\ session'.stream_offset = session.stream_offset + n
       /\ session'.remaining_bytes = session.remaining_bytes - n
       /\ session'.end_of_stream = session.end_of_stream
       /\ session'.first = session.first /\ session'.chunk_bytes = session.chunk_bytes
  BY <1>0, <1>9 DEF SessionTypes, SessionFields
<1>11. /\ Places(t) = [k \in 1 .. n |-> Len(session.delivered) + k]
       /\ bytes \in Seq(Nat) /\ Len(bytes) = Len(session.delivered) + n
       /\ n = 0 => bytes = session.delivered
  BY <1>3, <1>5, <1>8, PlacesNext
<1>12. isOpen(FileValue)'  BY <1>1, <1>3 DEF isOpen, handleVars
<1>13. PICK first \in Nat, len \in Nat, left \in Nat :
         /\ first = session.first /\ len = Len(session.delivered)
         /\ left = session.remaining_bytes
  BY <1>0, <1>3, LenProperties DEF SessionTypes
<1>14. (first + len) + n = first + (len + n)  OBVIOUS
<1>15. session'.stream_offset = session'.first + Len(session'.delivered)
  BY <1>3, <1>10, <1>11, <1>13, <1>14
<1>16. ~last => session'.remaining_bytes > 0
  <2>1. ~last => n # left  BY <1>5, <1>6, <1>13 DEF LastRead
  <2>2. n <= left  BY <1>5, <1>13
  <2>3. n # left => left - n > 0  BY <2>2
  <2> QED  BY <1>10, <1>13, <2>1, <2>3
<1>17. StreamInv'
  <2>1. /\ session'.delivered \in Seq(Nat) /\ session'.first \in Nat
        /\ session'.complete \in BOOLEAN /\ session'.end_of_stream \in BOOLEAN
    BY <1>3, <1>10, <1>11
  <2>2. /\ session'.label \notin {"open", "adopt", "reading"} /\ session'.chunk_bytes > 0
        /\ session'.label = "ended" => session'.complete
        /\ session'.label = "idle" => ~session'.complete
    BY <1>3, <1>7, <1>10
  <2>3. session'.label = "idle" => session'.remaining_bytes > 0  BY <1>7, <1>10, <1>16
  <2> QED  BY <1>12, <1>15, <2>1, <2>2, <2>3 DEF StreamInv, Session
<1>18. /\ Brought = n /\ Brought' = 0 /\ StreamComplete' = last
       /\ StreamEnded' = StreamEnded
  <2>1. Brought = n  BY <1>1, <1>2, <1>5 DEF Brought, Session
  <2>2. Brought' = 0  BY <1>7, <1>10 DEF Brought, Session
  <2>3. StreamComplete' = last  BY <1>10, <2>2 DEF StreamComplete
  <2>4. StreamEnded' = StreamEnded  BY <1>3, <1>10, <1>12 DEF StreamEnded
  <2> QED  BY <2>1, <2>2, <2>3, <2>4
<1>19. n <= LongestSpan
  <2>1. PICK span \in Nat : t.size <= span /\ span <= LongestSpan
    BY <1>3, LongestSpanIs, StreamAssumption
  <2>2. PICK most \in Nat : most = LongestSpan  BY LongestSpanIs
  <2> QED  BY <1>4, <1>5, <2>1, <2>2
<1>20. CASE n = 0
  <2>1. ~StreamComplete  BY <1>3, <1>18, <1>20 DEF StreamComplete
  <2>2. session'.delivered = session.delivered  BY <1>10, <1>11, <1>20
  <2>3. Brought = 0 /\ Brought' = 0 /\ StreamComplete' \in BOOLEAN /\ StreamEnded' = StreamEnded
    BY <1>18, <1>20
  <2>4. 0 <= LongestSpan  BY <1>19, <1>20
  <2>5. [Stream!Next]_(Stream!streamVars)  BY <1>3, <2>1, <2>2, <2>3, <2>4, StreamProduces
  <2> QED  BY <1>17, <2>5
<1>21. CASE n # 0
  <2>1. n > 0  BY <1>21
  <2>2. StreamComplete = last  BY <1>2, <1>3, <1>6, <1>18, <2>1 DEF StreamComplete
  <2>3. session'.delivered = session.delivered \o [k \in 1 .. n |-> Len(session.delivered) + k]
    BY <1>8, <1>10, <1>11
  <2>4. session'.delivered \in Seq(Nat) /\ Len(session'.delivered) = Len(session.delivered) + n
    BY <1>10, <1>11
  <2>5. [Stream!Next]_(Stream!streamVars)
    BY <1>3, <1>18, <1>19, <2>2, <2>3, <2>4, StreamDelivers
  <2> QED  BY <1>17, <2>5
<1> QED  BY <1>20, <1>21

LEMMA ReadBeginStreams ==
    ASSUME HandlesInv, DataTypes, StreamInv, ReadBegins
    PROVE  StreamInv' /\ [Stream!Next]_(Stream!streamVars)
<1>0. SessionTypes /\ DOMAIN io = Clients /\ SessionThread \in Clients
  BY ThreadsApart DEF HandlesInv, DataTypes
<1>1. /\ session.label = "idle" /\ UNCHANGED handleVars /\ isOpen(FileValue)
      /\ session.end_of_stream = FALSE /\ session.complete = FALSE
      /\ session.remaining_bytes > 0 /\ session.chunk_bytes > 0
  BY DEF ReadBegins, Session, StreamInv
<1>2. PICK span \in SpanSizes :
        IF RequestBytes(span) = 0
        THEN SetSession([session EXCEPT !.end_of_stream = TRUE]) /\ UNCHANGED io
        ELSE /\ SetSession([session EXCEPT !.label = "reading"])
             /\ readAt(SessionThread, FileValue, session.stream_offset, RequestBytes(span))
  BY DEF ReadBegins
<1>3. span \in Nat /\ span # 0  BY StreamAssumption
<1>4. PICK left \in Nat, chunk \in Nat :
        left = session.remaining_bytes /\ chunk = session.chunk_bytes
  BY <1>0 DEF SessionTypes
<1>5. PICK size : size = RequestBytes(span)  OBVIOUS
<1>6. size # 0 /\ size \in Nat /\ size <= span
  <2>1. left # 0 /\ chunk # 0  BY <1>1, <1>4
  <2>2. size = Minimum(left, Minimum(span, chunk))  BY <1>4, <1>5 DEF RequestBytes
  <2> QED  BY <1>3, <2>1, <2>2 DEF Minimum
<1>7. /\ session' = [session EXCEPT !.label = "reading"]
      /\ readAt(SessionThread, FileValue, session.stream_offset, size)
  BY <1>2, <1>5, <1>6 DEF SetSession
<1>8. /\ session'.label = "reading" /\ session'.delivered = session.delivered
      /\ session'.first = session.first /\ session'.complete = session.complete
      /\ session'.end_of_stream = session.end_of_stream
      /\ session'.stream_offset = session.stream_offset
      /\ session'.chunk_bytes = session.chunk_bytes
      /\ session'.remaining_bytes = session.remaining_bytes
  BY <1>0, <1>7 DEF SessionTypes, SessionFields
<1>9. PICK t : t = io'[SessionThread]  OBVIOUS
<1>10. t = Transfer("read", FileValue, session.stream_offset, <<>>, size)
  BY <1>0, <1>7, <1>9 DEF readAt
<1>11. t.offset = session.stream_offset /\ t.size = size /\ t.total_size = 0
  BY <1>0, <1>6, <1>10, BeginTypes DEF SessionTypes
<1>12. isOpen(FileValue)'  BY <1>1 DEF isOpen, handleVars
<1>13. StreamInv'
  <2>1. /\ session'.delivered \in Seq(Nat) /\ session'.first \in Nat
        /\ session'.complete \in BOOLEAN /\ session'.end_of_stream \in BOOLEAN
        /\ session'.stream_offset = session'.first + Len(session'.delivered)
    BY <1>8 DEF StreamInv
  <2>2. \E s \in SpanSizes : io'[SessionThread].size <= s  BY <1>6, <1>9, <1>11
  <2>3. io'[SessionThread].offset = session'.stream_offset  BY <1>8, <1>9, <1>11
  <2> QED  BY <1>1, <1>8, <1>12, <2>1, <2>2, <2>3 DEF StreamInv, Session
<1>14. Brought = 0 /\ Brought' = 0
  <2>1. Brought = 0  BY <1>1 DEF Brought, Session
  <2>2. Brought' = 0  BY <1>9, <1>11 DEF Brought
  <2> QED  BY <2>1, <2>2
<1>15. StreamComplete' = StreamComplete  BY <1>8, <1>14 DEF StreamComplete
<1>16. StreamEnded' = StreamEnded  BY <1>1, <1>8, <1>12 DEF StreamEnded
<1>17. [Stream!Next]_(Stream!streamVars)  BY <1>8, <1>14, <1>15, <1>16, StreamStays
<1> QED  BY <1>13, <1>17

LEMMA ReadReturnsStream ==
    ASSUME HandlesInv, DataTypes, StreamInv, ReadFails \/ ReadStoresEnd
    PROVE  StreamInv' /\ [Stream!Next]_(Stream!streamVars)
<1> USE DEF Session, SetSession
<1>0. SessionTypes  BY DEF DataTypes
<1>1. UNCHANGED handleVars /\ session.label \in {"reading", "ended"}
  BY DEF ReadFails, ReadStoresEnd
<1>2. isOpen(FileValue) /\ isOpen(FileValue)'
  <2>1. isOpen(FileValue)  BY <1>1 DEF StreamInv
  <2> QED  BY <1>1, <2>1 DEF isOpen, handleVars
<1>3. PICK e \in BOOLEAN :
        /\ session' = [session EXCEPT !.label = "idle", !.end_of_stream = e]
        /\ session.label = "reading" => e = session.end_of_stream
        /\ session.label = "ended" => e = TRUE
  <2>1. CASE ReadFails
    <3>1. session' = [session EXCEPT !.label = "idle"] /\ session.label = "reading"
      BY <2>1 DEF ReadFails
    <3>2. session' = [session EXCEPT !.label = "idle", !.end_of_stream = session.end_of_stream]
      BY <1>0, <3>1 DEF SessionTypes, SessionFields
    <3>3. session.end_of_stream \in BOOLEAN  BY DEF StreamInv
    <3> QED  BY <3>1, <3>2, <3>3
  <2>2. CASE ReadStoresEnd
    BY <2>2 DEF ReadStoresEnd
  <2> QED  BY <2>1, <2>2
<1>4. /\ session'.label = "idle" /\ session'.end_of_stream = e
      /\ session'.delivered = session.delivered /\ session'.first = session.first
      /\ session'.complete = session.complete
      /\ session'.stream_offset = session.stream_offset
      /\ session'.chunk_bytes = session.chunk_bytes
      /\ session'.remaining_bytes = session.remaining_bytes
  BY <1>0, <1>3 DEF SessionTypes, SessionFields
<1>5. StreamInv'
  <2>1. /\ session'.delivered \in Seq(Nat) /\ session'.first \in Nat
        /\ session'.complete \in BOOLEAN /\ session'.end_of_stream \in BOOLEAN
        /\ session'.stream_offset = session'.first + Len(session'.delivered)
        /\ session'.chunk_bytes > 0
    BY <1>2, <1>4 DEF StreamInv
  <2>2. ~session'.end_of_stream => ~session'.complete /\ session'.remaining_bytes > 0
    <3>1. CASE session.label = "reading"  BY <1>4, <3>1 DEF StreamInv
    <3>2. CASE session.label = "ended"  BY <1>3, <1>4, <3>2
    <3> QED  BY <1>1, <3>1, <3>2
  <2> QED  BY <1>2, <1>4, <2>1, <2>2 DEF StreamInv
<1>6. CASE ReadFails
  <2>1. session.label = "reading" /\ io[SessionThread].outcome # "ok"  BY <1>6 DEF ReadFails
  <2>2. StreamEnded' = StreamEnded  BY <1>2, <1>3, <1>4, <2>1 DEF StreamEnded
  <2> QED  BY <1>4, <1>5, <2>1, <2>2, StreamQuiet
<1>7. CASE ReadStoresEnd
  <2>1. session.label = "ended"  BY <1>7 DEF ReadStoresEnd
  <2>2. session.complete = TRUE /\ session'.complete = TRUE  BY <1>4, <2>1 DEF StreamInv
  <2>3. Brought = 0 /\ Brought' = 0  BY <1>4, <2>1 DEF Brought
  <2>4. StreamEnded' = TRUE  BY <1>2, <1>3, <1>4, <2>1 DEF StreamEnded
  <2>5. session.delivered \in Seq(Nat)  BY DEF StreamInv
  <2> QED  BY <1>4, <1>5, <2>2, <2>3, <2>4, <2>5, StreamEnds
<1> QED  BY <1>6, <1>7

LEMMA PauseStreams ==
    ASSUME HandlesInv, DataTypes, StreamInv, pause \/ resume
    PROVE  StreamInv' /\ [Stream!Next]_(Stream!streamVars)
<1>0. SessionTypes  BY DEF DataTypes
<1>1. UNCHANGED <<handleVars, io>> /\ \E b : session' = [session EXCEPT !.paused = b]
  BY DEF pause, resume, SetSession
<1>2. /\ session'.label = session.label /\ session'.call = session.call
      /\ session'.end_of_stream = session.end_of_stream
      /\ session'.delivered = session.delivered /\ session'.first = session.first
      /\ session'.complete = session.complete
      /\ session'.stream_offset = session.stream_offset
      /\ session'.chunk_bytes = session.chunk_bytes
      /\ session'.remaining_bytes = session.remaining_bytes
  BY <1>0, <1>1 DEF SessionTypes, SessionFields
<1>3. isOpen(FileValue)' = isOpen(FileValue)  BY <1>1 DEF isOpen, handleVars
<1>4. StreamInv'  BY <1>1, <1>2, <1>3 DEF StreamInv, Session
<1>5. [Stream!Next]_(Stream!streamVars)  BY <1>1, <1>2, <1>3, StreamSame
<1> QED  BY <1>4, <1>5

LEMMA SessionStreams ==
    ASSUME HandlesInv, DataTypes, StreamInv, SessionStep
    PROVE  StreamInv' /\ [Stream!Next]_(Stream!streamVars)
BY StartStreams, PauseStreams, ReadBeginStreams, ReadReturnsStream, ReadAdvanceStreams
DEF SessionStep, readNext

(* What the others do leaves the stream as it is; the system moves it on.  *)
LEMMA StreamFrame ==
    ASSUME StreamInv, UNCHANGED session, SameTransfer(SessionThread), Keeps(FileValue)
    PROVE  StreamInv' /\ [Stream!Next]_(Stream!streamVars)
<1>1. isOpen(FileValue)' = isOpen(FileValue)  BY DEF Keeps, isOpen
<1>2. io'[SessionThread] = io[SessionThread]  BY DEF SameTransfer
<1>3. StreamInv'  BY <1>1, <1>2 DEF StreamInv, Session
<1>4. Brought' = Brought  BY <1>2 DEF Brought, Session
<1>5. StreamComplete' = StreamComplete  BY <1>2, <1>4 DEF StreamComplete, LastRead
<1>6. StreamEnded' = StreamEnded  BY <1>1 DEF StreamEnded
<1> QED  BY <1>3, <1>4, <1>5, <1>6, StreamStays

LEMMA TransferStreams ==
    ASSUME HandlesInv, DataTypes, StreamInv, UNCHANGED session, TransferStep(SessionThread)
    PROVE  StreamInv' /\ [Stream!Next]_(Stream!streamVars)
<1>0. /\ SessionTypes /\ SessionOK /\ OwnedOnce /\ DOMAIN io = Clients
      /\ SessionThread \in Clients /\ IoTypesOf(SessionThread, io[SessionThread])
  BY ThreadsApart DEF HandlesInv, DataTypes, IoTypes
<1>1. PICK n \in Nat : Continues(SessionThread, n)  BY <1>0, TransferContinues
<1>2. PICK t, next : t = io[SessionThread] /\ next = io'[SessionThread]  OBVIOUS
<1>3. /\ t # NoTransfer /\ next.offset = t.offset /\ next.size = t.size
      /\ next.total_size = t.total_size + n /\ t.total_size + n <= t.size
  BY <1>1, <1>2 DEF Continues
<1>4. session.label = "reading"  BY <1>0, <1>2, <1>3 DEF SessionOK, Session
<1>5. t.outcome = "running"  BY <1>2 DEF TransferStep, doRead, doWrite, IoFails, Running
<1>6. /\ isOpen(FileValue) /\ session.complete = FALSE
      /\ session.delivered \in Seq(Nat) /\ t.offset = session.stream_offset
      /\ \E span \in SpanSizes : t.size <= span
  BY <1>2, <1>4 DEF StreamInv, Session
<1>7. Keeps(FileValue)  BY <1>0, TransferStepOK
<1>8. isOpen(FileValue)' = isOpen(FileValue)  BY <1>7 DEF Keeps, isOpen
<1>9. StreamInv'
  <2>1. /\ io'[SessionThread].offset = session.stream_offset
        /\ \E span \in SpanSizes : io'[SessionThread].size <= span
    BY <1>2, <1>3, <1>6
  <2> QED  BY <1>4, <1>8, <2>1 DEF StreamInv, Session
<1>10. PICK total \in Nat : total = next.total_size /\ total <= t.size
  <2>1. t.total_size \in Nat  BY <1>0, <1>2, <1>3 DEF IoTypesOf
  <2> QED  BY <1>3, <2>1
<1>11. PICK brought : brought = Brought'  OBVIOUS
<1>12. brought \in {0, total}
  <2>1. Brought' \in {0, next.total_size}  BY <1>2 DEF Brought
  <2> QED  BY <1>10, <1>11, <2>1
<1>13. brought \in Nat /\ brought <= LongestSpan
  <2>1. PICK span \in Nat : t.size <= span /\ span <= LongestSpan
    BY <1>6, LongestSpanIs, StreamAssumption
  <2>2. PICK most \in Nat : most = LongestSpan  BY LongestSpanIs
  <2>3. t.size \in Nat  BY <1>0, <1>2, <1>3 DEF IoTypesOf
  <2> QED  BY <1>10, <1>12, <2>1, <2>2, <2>3
<1>14. Brought = 0  BY <1>2, <1>5 DEF Brought
<1>15. ~StreamComplete  BY <1>6, <1>14 DEF StreamComplete
<1>16. StreamComplete' \in BOOLEAN
  <2>1. session'.complete \in BOOLEAN  BY <1>9 DEF StreamInv
  <2> QED  BY <2>1 DEF StreamComplete
<1>17. StreamEnded' = StreamEnded  BY <1>8 DEF StreamEnded
<1>18. [Stream!Next]_(Stream!streamVars)
  BY <1>6, <1>11, <1>13, <1>14, <1>15, <1>16, <1>17, StreamProduces
<1> QED  BY <1>9, <1>18

LEMMA StreamNext ==
    ASSUME HandlesInv, DataTypes, StreamInv, [Next]_vars
    PROVE  StreamInv' /\ [Stream!Next]_(Stream!streamVars)
<1> DEFINE Goal == StreamInv' /\ [Stream!Next]_(Stream!streamVars)
<1>0. OwnedOnce /\ DOMAIN io = Clients /\ FileValue[1] = SessionThread
  BY Owners DEF HandlesInv
<1>f. ASSUME UNCHANGED session, SameTransfer(SessionThread), Keeps(FileValue) PROVE Goal
  BY <1>f, StreamFrame
<1>1. CASE Session_
  BY <1>1, SessionStreams DEF Session_
<1>2. CASE Helper_
  <2>1. HelperStep /\ UNCHANGED session  BY <1>2 DEF Helper_
  <2>2. OnlyTransferOf(HelperThread) /\ \A x : x # HelperFile => Keeps(x)
    BY <2>1, HelperStepOK DEF HandlesInv
  <2>3. SameTransfer(SessionThread) /\ Keeps(FileValue)
    BY <2>2, Owners, ThreadsApart DEF OnlyTransferOf
  <2> QED  BY <1>f, <2>1, <2>3
<1>3. CASE Mapper_
  <2>1. MapperStep /\ UNCHANGED session  BY <1>3 DEF Mapper_
  <2>2. UNCHANGED io /\ \A x : x \notin MapperObjects => Keeps(x)
    BY <2>1, MapperStepOK DEF HandlesInv
  <2>3. SameTransfer(SessionThread) /\ Keeps(FileValue)
    BY <2>2, Owners, ThreadsApart DEF MapperObjects, SameTransfer
  <2> QED  BY <1>f, <2>1, <2>3
<1>4. CASE Scheduler_
  <2>1. UNCHANGED session  BY <1>4 DEF Scheduler_
  <2>2. ASSUME NEW t \in PoolThreads, TaskStep(t)
        PROVE  SameTransfer(SessionThread) /\ Keeps(FileValue)
    <3>1. OnlyTransferOf(t) /\ OthersKept(t) /\ t # SessionThread
      BY <2>2, TaskStepOK, ThreadsApart
    <3> QED  BY <1>0, <3>1 DEF OnlyTransferOf, OthersKept
  <2>3. ASSUME NEW u \in Users, UserStep(u)
        PROVE  SameTransfer(SessionThread) /\ Keeps(FileValue)
    BY <2>3, UserStepOK, NothingMoves DEF HandlesInv, handleVars, SameTransfer
  <2>4. ASSUME NEW u \in Users, ShutdownResets(u)
        PROVE  SameTransfer(SessionThread) /\ Keeps(FileValue)
    <3>1. UNCHANGED io /\ \A x : x[1] \notin PoolThreads => Keeps(x)
      BY <2>4, ShutdownOK
    <3> QED  BY <1>0, <3>1, ThreadsApart DEF SameTransfer
  <2> QED  BY <1>4, <1>f, <2>1, <2>2, <2>3, <2>4 DEF Scheduler_, SchedulerStep
<1>5. CASE Writer_
  <2>1. WriterStep(clients) /\ UNCHANGED session  BY <1>5 DEF Writer_
  <2>2. /\ \A c : c \notin Writers => SameTransfer(c)
        /\ \A x : x # WriterFile => Keeps(x)
    BY <2>1, WriterStepOK DEF HandlesInv
  <2>3. SameTransfer(SessionThread) /\ Keeps(FileValue)
    BY <2>2, ObjectsApart, ThreadsApart
  <2> QED  BY <1>f, <2>1, <2>3
<1>6. ASSUME NEW c \in Clients, Transfer_(c) PROVE Goal
  <2>1. TransferStep(c) /\ UNCHANGED session  BY <1>6 DEF Transfer_
  <2>2. CASE c = SessionThread  BY <2>1, <2>2, TransferStreams
  <2>3. CASE c # SessionThread
    <3>1. PICK n \in Nat : Continues(c, n)  BY <2>1, TransferContinues
    <3>2. SameTransfer(SessionThread)  BY <2>3, <3>1, ThreadsApart DEF Continues
    <3>3. Keeps(FileValue)  BY <1>0, <2>1, TransferStepOK
    <3> QED  BY <1>f, <2>1, <3>2, <3>3
  <2> QED  BY <2>2, <2>3
<1>7. CASE UNCHANGED vars
  <2>1. UNCHANGED <<open_handles, native_handle, io, session>>
    BY <1>7 DEF vars, handleVars
  <2>2. Keeps(FileValue) /\ SameTransfer(SessionThread)
    BY <1>0, <2>1, NothingMoves DEF SameTransfer
  <2> QED  BY <1>f, <2>1, <2>2
<1> QED  BY <1>1, <1>2, <1>3, <1>4, <1>5, <1>6, <1>7 DEF Next

LEMMA StreamInit == Init => StreamInv /\ Stream!Init
<1> SUFFICES ASSUME Init PROVE StreamInv /\ Stream!Init  OBVIOUS
<1>1. /\ session.label = "idle" /\ session.delivered = <<>> /\ session.first = 0
      /\ session.complete = FALSE /\ session.end_of_stream = TRUE
      /\ session.stream_offset = 0
  BY DEF Init, SessionInit
<1>2. ~isOpen(FileValue)
  <2>1. DOMAIN native_handle = {}  BY DEF Init, PlatformInit
  <2> QED  BY <2>1 DEF isOpen
<1>3. session.delivered \in Seq(Nat) /\ Len(session.delivered) = 0  BY <1>1, EmptySeq
<1>4. StreamInv
  <2>1. session.stream_offset = session.first + Len(session.delivered)  BY <1>1, <1>3
  <2>2. ~Session("open") /\ ~Session("adopt") /\ ~Session("reading") /\ ~Session("ended")
    BY <1>1 DEF Session
  <2>3. session.first \in Nat  BY <1>1
  <2>4. session.complete \in BOOLEAN  BY <1>1
  <2>5. session.end_of_stream \in BOOLEAN  BY <1>1
  <2> QED  BY <1>1, <1>2, <1>3, <2>1, <2>2, <2>3, <2>4, <2>5 DEF StreamInv
<1>5. Brought = 0  BY <1>1 DEF Brought, Session
<1> QED  BY <1>1, <1>2, <1>3, <1>4, <1>5 DEF Stream!Init

(* The session is an ordered stream, whatever the system makes of its      *)
(* reads and whoever else opens, writes and closes files: a byte is handed *)
(* out once, in file order, after it was read, and the end is reported     *)
(* only after the last one (start, readNext, stop).                        *)
THEOREM SessionStreamsInOrder == Spec => ImplementsOrderedStream
<1> DEFINE Inv == HandlesInv /\ DataTypes /\ StreamInv
<1>1. Init => Inv /\ Stream!Init  BY HandlesInvInit, DataTypesInit, StreamInit
<1>2. Inv /\ [Next]_vars => Inv' /\ [Stream!Next]_(Stream!streamVars)
  BY HandlesInvNext, DataTypesNext, StreamNext
<1> QED  BY <1>1, <1>2, PTL DEF Spec, ImplementsOrderedStream, Stream!Spec
=============================================================================
