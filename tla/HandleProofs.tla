----------------------------- MODULE HandleProofs -----------------------------
(***************************************************************************)
(* Theorems about FileService: who owns which handle.                      *)
(***************************************************************************)
EXTENDS FileService, WellFoundedInduction, TLAPS

OwnedOnce ==
    /\ \A o, other \in DOMAIN native_handle :
          native_handle[o] = native_handle[other] => o = other
    /\ DOMAIN open_handles = {native_handle[o] : o \in DOMAIN native_handle}

(* A step leaves object o and what its handle is for alone.                *)
Keeps(o) ==
    /\ o \in DOMAIN native_handle' <=> o \in DOMAIN native_handle
    /\ o \in DOMAIN native_handle =>
          /\ native_handle'[o] = native_handle[o]
          /\ open_handles'[native_handle[o]] = open_handles[native_handle[o]]

-----------------------------------------------------------------------------
(* The four ways a handle changes hands.                                   *)
LEMMA Lowest ==
    ASSUME NEW S, S \subseteq Nat, S # {} PROVE \E h \in S : \A k \in S : h <= k
<1> DEFINE R == {p \in Nat \X Nat : p[1] < p[2]}
<1>1. R = OpToRel(<, Nat)  BY DEF OpToRel
<1>2. IsWellFoundedOn(R, Nat)  BY <1>1, NatLessThanWellFounded
<1>3. \A k, h \in Nat : k < h => <<k, h>> \in R  OBVIOUS
<1> HIDE DEF R
<1>4. PICK h \in S : \A k \in S : ~(<<k, h>> \in R)  BY <1>2, WFMin
<1>5. \A k \in S : ~(k < h)  BY <1>3, <1>4
<1> QED  BY <1>5

LEMMA NextHandleFree == FreeHandles # {} => NextHandle \in Handles \ DOMAIN open_handles
<1> SUFFICES ASSUME FreeHandles # {} PROVE NextHandle \in FreeHandles
  BY DEF FreeHandles
<1>1. FreeHandles \subseteq Nat  BY PlatformAssumption DEF FreeHandles
<1>2. \E h \in FreeHandles : \A k \in FreeHandles : h <= k  BY <1>1, Lowest
<1> QED  BY <1>2 DEF NextHandle

(* A free handle is given to an object that had none.                      *)
LEMMA GiveOwns ==
    ASSUME OwnedOnce, NEW o, ~isOpen(o), FreeHandles # {}, NEW record,
           native_handle' = With(native_handle, o, NextHandle),
           open_handles' = With(open_handles, NextHandle, record)
    PROVE  /\ OwnedOnce' /\ isOpen(o)' /\ open_handles'[native_handle'[o]] = record
           /\ \A x : x # o => Keeps(x)
<1> DEFINE h == NextHandle
<1>1. h \notin DOMAIN open_handles  BY NextHandleFree
<1>2. /\ DOMAIN native_handle' = DOMAIN native_handle \cup {o}
      /\ native_handle'[o] = h
      /\ \A x \in DOMAIN native_handle : x # o /\ native_handle'[x] = native_handle[x]
  BY DEF With, isOpen
<1>3. /\ DOMAIN open_handles' = DOMAIN open_handles \cup {h}
      /\ open_handles'[h] = record
      /\ \A k \in DOMAIN open_handles : k # h => open_handles'[k] = open_handles[k]
  BY DEF With
<1> HIDE DEF h
<1>4. \A x \in DOMAIN native_handle :
        native_handle[x] \in DOMAIN open_handles /\ native_handle[x] # h
  BY <1>1 DEF OwnedOnce
<1>5. OwnedOnce'
  <2>1. ASSUME NEW x \in DOMAIN native_handle', NEW y \in DOMAIN native_handle',
               native_handle'[x] = native_handle'[y]
        PROVE  x = y
    BY <1>2, <1>4, <2>1 DEF OwnedOnce
  <2>2. DOMAIN open_handles' = {native_handle'[x] : x \in DOMAIN native_handle'}
    BY <1>2, <1>3, <1>4 DEF OwnedOnce
  <2> QED  BY <2>1, <2>2 DEF OwnedOnce
<1>6. \A x : x # o => Keeps(x)  BY <1>2, <1>3, <1>4 DEF Keeps
<1> QED  BY <1>2, <1>3, <1>5, <1>6 DEF isOpen

LEMMA OpenOwns ==
    ASSUME OwnedOnce, NEW o, ~isOpen(o), NEW path, NEW options, open(o, path, options)
    PROVE  /\ OwnedOnce' /\ isOpen(o)' /\ open_handles'[native_handle'[o]].path = path
           /\ \A x : x # o => Keeps(x)
<1>1. PICK record : /\ record.path = path
                    /\ native_handle' = With(native_handle, o, NextHandle)
                    /\ open_handles' = With(open_handles, NextHandle, record)
  BY DEF open
<1>2. FreeHandles # {}  BY DEF open
<1> QED  BY <1>1, <1>2, GiveOwns

LEMMA CloseOwns ==
    ASSUME OwnedOnce, NEW os, close(os)
    PROVE  /\ OwnedOnce' /\ \A x \in os : ~isOpen(x)'
           /\ \A x : x \notin os => Keeps(x)
<1>1. /\ DOMAIN native_handle' = DOMAIN native_handle \ os
      /\ \A x \in DOMAIN native_handle \ os : native_handle'[x] = native_handle[x]
  BY DEF close, Without
<1> DEFINE closed == {native_handle[o] : o \in os \cap DOMAIN native_handle}
<1>2. /\ DOMAIN open_handles' = DOMAIN open_handles \ closed
      /\ \A h \in DOMAIN open_handles \ closed : open_handles'[h] = open_handles[h]
  BY DEF close, Without
<1>3. \A x \in DOMAIN native_handle \ os : native_handle[x] \in DOMAIN open_handles \ closed
  BY DEF OwnedOnce
<1>4. DOMAIN open_handles \ closed = {native_handle[x] : x \in DOMAIN native_handle \ os}
  BY <1>3 DEF OwnedOnce
<1> HIDE DEF closed
<1>5. OwnedOnce'  BY <1>1, <1>2, <1>4 DEF OwnedOnce
<1> QED  BY <1>1, <1>2, <1>3, <1>5 DEF Keeps, isOpen

LEMMA MoveOwns ==
    ASSUME OwnedOnce, NEW source, NEW target, source # target, isOpen(source),
           move(source, target)
    PROVE  /\ OwnedOnce' /\ ~isOpen(source)' /\ isOpen(target)'
           /\ native_handle'[target] = native_handle[source]
           /\ open_handles'[native_handle'[target]] = open_handles[native_handle[source]]
           /\ \A x : x # source /\ x # target => Keeps(x)
<1> DEFINE closed == IF isOpen(target) THEN {native_handle[target]} ELSE {}
<1>1. /\ DOMAIN native_handle' = (DOMAIN native_handle \cup {target}) \ {source}
      /\ native_handle'[target] = native_handle[source]
      /\ \A x \in DOMAIN native_handle \ {source, target} : native_handle'[x] = native_handle[x]
  BY DEF move, With, Without
<1>2. /\ DOMAIN open_handles' = DOMAIN open_handles \ closed
      /\ \A h \in DOMAIN open_handles \ closed : open_handles'[h] = open_handles[h]
  BY DEF move, Without
<1>3. \A x \in DOMAIN native_handle \ {target} : native_handle[x] \in DOMAIN open_handles \ closed
  BY DEF OwnedOnce, isOpen
<1>4. DOMAIN open_handles \ closed = {native_handle[x] : x \in DOMAIN native_handle \ {target}}
  BY <1>3 DEF OwnedOnce, isOpen
<1> HIDE DEF closed
<1>5. source \in DOMAIN native_handle \ {target}  BY DEF isOpen
<1>6. OwnedOnce'
  <2>1. ASSUME NEW x \in DOMAIN native_handle', NEW y \in DOMAIN native_handle',
               native_handle'[x] = native_handle'[y]
        PROVE  x = y
    BY <1>1, <1>5, <2>1 DEF OwnedOnce
  <2>2. DOMAIN open_handles' = {native_handle'[x] : x \in DOMAIN native_handle'}
    BY <1>1, <1>2, <1>4, <1>5
  <2> QED  BY <2>1, <2>2 DEF OwnedOnce
<1> QED  BY <1>1, <1>2, <1>3, <1>5, <1>6 DEF Keeps, isOpen

-----------------------------------------------------------------------------
(* What each client keeps of the objects and the transfer that are its own.*)
TransferTo(c, o) ==
    /\ DOMAIN io[c] = {"kind", "object", "offset", "source", "size", "total_size", "data", "outcome"}
    /\ io[c].kind \in {"read", "write"}
    /\ io[c].object = o /\ isOpen(o)

SessionOK ==
    /\ "label" \in DOMAIN session
    /\ Session("idle") \/ Session("open") \/ Session("ended") => ~isOpen(OpenResult)
    /\ Session("adopt") => isOpen(OpenResult)
    /\ session.label \in {"idle", "open", "ended", "adopt", "reading"}
    /\ Session("reading") => ~isOpen(OpenResult)
    /\ \/ io[SessionThread] = NoTransfer
       \/ Session("reading") /\ TransferTo(SessionThread, FileValue)

HelperOK ==
    /\ "label" \in DOMAIN helper
    /\ Helper("idle") => ~isOpen(HelperFile) /\ io[HelperThread] = NoTransfer
    /\ helper.label \in {"idle", "size", "reading", "returned", "failed"}
    /\ ~Helper("idle") => isOpen(HelperFile)
    /\ io[HelperThread] = NoTransfer \/ TransferTo(HelperThread, HelperFile)

MapperOK ==
    /\ "label" \in DOMAIN bundle
    /\ bundle.label \in {"idle", "section", "map", "push"}
    /\ Bundle("idle") <=> ~isOpen(FileHandle)
    /\ Bundle("idle") \/ Bundle("section") => ~isOpen(MappingHandle)

WriterOK == \A c \in Writers : io[c] = NoTransfer \/ TransferTo(c, WriterFile)

PoolOK(t) ==
    /\ DOMAIN pool[t] = {"label", "path", "capacity", "entries", "lru", "recent"}
    /\ pool[t].label \in {"idle", "evict", "failed", "hit", "inserted"}
    /\ isOpen(Miss(t)) <=> Pool(t, "evict")
    /\ Pool(t, "evict") => PathOf(Miss(t)) = pool[t].path
    /\ \A path \in Paths :
          /\ isOpen(Entry(t, path)) <=> path \in pool[t].entries
          /\ isOpen(Entry(t, path)) => PathOf(Entry(t, path)) = path
    /\ Pool(t, "hit") \/ Pool(t, "inserted") => isOpen(Entry(t, pool[t].path))
    /\ ~Pool(t, "idle") => job[t] # Nobody
    /\ \/ io[t] = NoTransfer
       \/ /\ Pool(t, "hit") \/ Pool(t, "inserted")
          /\ TransferTo(t, Entry(t, pool[t].path))

JobsOK ==
    /\ DOMAIN user = Users /\ \A u \in Users : "label" \in DOMAIN user[u]
    /\ \A u \in Users : InRun(u) => "path" \in DOMAIN user[u] /\ user[u].path \in Paths
    /\ job \in [PoolThreads -> Users \cup {Nobody}]
    /\ \A t \in PoolThreads : job[t] # Nobody => User(job[t], "running")
    /\ \A t, other \in PoolThreads : job[t] = job[other] /\ job[t] # Nobody => t = other

Others == Clients \ (PoolThreads \cup Writers \cup {SessionThread, HelperThread})
OthersOK == \A c \in Others : io[c] = NoTransfer

HandlesInv ==
    /\ OwnedOnce /\ DOMAIN io = Clients /\ DOMAIN pool = PoolThreads
    /\ SessionOK /\ HelperOK /\ MapperOK /\ WriterOK /\ OthersOK /\ JobsOK
    /\ \A t \in PoolThreads : PoolOK(t)

(* These facts depend on nothing else.                                     *)
SameTransfer(c) == io'[c] = io[c]

LEMMA TransferFrame ==
    ASSUME NEW c, NEW o, TransferTo(c, o), SameTransfer(c), Keeps(o) PROVE TransferTo(c, o)'
BY DEF TransferTo, SameTransfer, Keeps, isOpen

LEMMA SessionFrame ==
    ASSUME SessionOK, UNCHANGED session, SameTransfer(SessionThread),
           Keeps(FileValue), Keeps(OpenResult)
    PROVE  SessionOK'
BY TransferFrame DEF SessionOK, SameTransfer, Keeps, isOpen, Session

LEMMA HelperFrame ==
    ASSUME HelperOK, UNCHANGED helper, SameTransfer(HelperThread), Keeps(HelperFile)
    PROVE  HelperOK'
BY TransferFrame DEF HelperOK, SameTransfer, Keeps, isOpen, Helper

LEMMA MapperFrame ==
    ASSUME MapperOK, UNCHANGED bundle, Keeps(FileHandle), Keeps(MappingHandle) PROVE MapperOK'
BY DEF MapperOK, Keeps, isOpen, Bundle

LEMMA WriterFrame ==
    ASSUME WriterOK, \A c \in Writers : SameTransfer(c), Keeps(WriterFile) PROVE WriterOK'
BY TransferFrame DEF WriterOK, SameTransfer

LEMMA PoolFrame ==
    ASSUME NEW t, PoolOK(t), pool'[t] = pool[t], job[t] # Nobody => job'[t] # Nobody,
           SameTransfer(t),
           Keeps(Miss(t)), \A path : Keeps(Entry(t, path))
    PROVE  PoolOK(t)'
<1>1. PathOf(Miss(t))' = PathOf(Miss(t)) \/ ~isOpen(Miss(t))
  BY DEF Keeps, PathOf, isOpen
<1>2. \A path : isOpen(Entry(t, path)) =>
        open_handles'[native_handle'[Entry(t, path)]].path = PathOf(Entry(t, path))
  BY DEF Keeps, PathOf, isOpen
<1>3. /\ isOpen(Miss(t))' <=> isOpen(Miss(t))
      /\ \A path : Entry(t, path) \in DOMAIN native_handle' <=> isOpen(Entry(t, path))
  BY DEF Keeps, isOpen
<1>4. TransferTo(t, Entry(t, pool[t].path)) => TransferTo(t, Entry(t, pool[t].path))'
  BY TransferFrame DEF Entry
<1> QED  BY <1>1, <1>2, <1>3, <1>4 DEF PoolOK, Pool, SameTransfer, PathOf, isOpen

LEMMA JobsFrame == ASSUME JobsOK, UNCHANGED <<user, job>> PROVE JobsOK'
BY DEF JobsOK, InRun, User

-----------------------------------------------------------------------------
(* The steps of each client.                                               *)
LEMMA NothingMoves ==
    ASSUME OwnedOnce, UNCHANGED <<open_handles, native_handle>>
    PROVE  OwnedOnce' /\ \A x : Keeps(x)
BY DEF OwnedOnce, Keeps

(* Of the threads only c begins, ends or goes on with a transfer.          *)
OnlyTransferOf(c) == DOMAIN io' = DOMAIN io /\ \A d : d # c => SameTransfer(d)

LEMMA UnchangedTransfers ==
    ASSUME UNCHANGED io
    PROVE  DOMAIN io' = DOMAIN io /\ \A c : SameTransfer(c) /\ OnlyTransferOf(c)
BY DEF SameTransfer, OnlyTransferOf

LEMMA ForgetStep ==
    ASSUME NEW c \in Clients, DOMAIN io = Clients, Forget(c)
    PROVE  OnlyTransferOf(c) /\ io'[c] = NoTransfer
BY DEF Forget, OnlyTransferOf, SameTransfer

LEMMA ReadAtStep ==
    ASSUME NEW c \in Clients, DOMAIN io = Clients, NEW o, isOpen(o), Keeps(o),
           NEW offset, NEW size, readAt(c, o, offset, size)
    PROVE  OnlyTransferOf(c) /\ TransferTo(c, o)'
BY DEF readAt, OnlyTransferOf, SameTransfer, TransferTo, Transfer, Keeps, isOpen

LEMMA WriteAtStep ==
    ASSUME NEW c \in Clients, DOMAIN io = Clients, NEW o, isOpen(o), Keeps(o),
           NEW offset, NEW source, writeAt(c, o, offset, source)
    PROVE  OnlyTransferOf(c) /\ TransferTo(c, o)'
BY DEF writeAt, OnlyTransferOf, SameTransfer, TransferTo, Transfer, Keeps, isOpen

SessionObjects == {FileValue, OpenResult}

LEMMA SessionStepOK ==
    ASSUME OwnedOnce, DOMAIN io = Clients, SessionOK, SessionStep
    PROVE  /\ OwnedOnce' /\ SessionOK' /\ OnlyTransferOf(SessionThread)
           /\ \A x : x \notin SessionObjects => Keeps(x)
<1> USE DEF Session, SetSession
<1>0. SessionThread \in Clients /\ FileValue # OpenResult
  BY ClientsAssumption DEF FileValue, OpenResult
<1>a. ASSUME UNCHANGED handleVars
      PROVE  OwnedOnce' /\ \A x : Keeps(x)
  BY <1>a, NothingMoves DEF handleVars
<1>b. ASSUME session.label # "reading"
      PROVE  io[SessionThread] = NoTransfer
  BY <1>b DEF SessionOK
<1>1. CASE StartStops
  <2>1. close({FileValue}) /\ UNCHANGED io  BY <1>1 DEF StartStops
  <2>2. "label" \in DOMAIN session' /\ session'.label \in {"idle", "open"}
    BY <1>1 DEF StartStops, SessionOK, Stopped
  <2>3. Keeps(OpenResult)  BY <1>0, <2>1, CloseOwns
  <2>4. ~isOpen(OpenResult) /\ io[SessionThread] = NoTransfer
    BY <1>1, <1>b DEF StartStops, SessionOK
  <2>5. SessionOK'  BY <2>1, <2>2, <2>3, <2>4 DEF SessionOK, Keeps, isOpen
  <2> QED  BY <2>1, <2>5, CloseOwns, UnchangedTransfers DEF SessionObjects
<1>2. CASE StartOpens
  <2>1. /\ open(OpenResult, session.call.path, openRead({"read"})) /\ UNCHANGED io
        /\ ~isOpen(OpenResult) /\ io[SessionThread] = NoTransfer
    BY <1>2, <1>b DEF StartOpens, SessionOK
  <2>2. "label" \in DOMAIN session' /\ session'.label = "adopt"
    BY <1>2 DEF StartOpens, SessionOK
  <2>3. OwnedOnce' /\ isOpen(OpenResult)' /\ \A x : x # OpenResult => Keeps(x)
    BY <2>1, OpenOwns
  <2>4. SessionOK'  BY <2>1, <2>2, <2>3 DEF SessionOK
  <2> QED  BY <2>1, <2>3, <2>4, UnchangedTransfers DEF SessionObjects
<1>3. CASE StartCannotOpen
  <2>1. /\ UNCHANGED <<handleVars, io>> /\ "label" \in DOMAIN session' /\ session'.label = "idle"
        /\ ~isOpen(OpenResult) /\ io[SessionThread] = NoTransfer
    BY <1>3, <1>b DEF StartCannotOpen, SessionOK
  <2>2. SessionOK'  BY <2>1 DEF SessionOK, isOpen, handleVars
  <2> QED  BY <1>a, <2>1, <2>2, UnchangedTransfers
<1>4. CASE StartAdopts
  <2>1. /\ move(OpenResult, FileValue) /\ UNCHANGED io /\ isOpen(OpenResult)
        /\ io[SessionThread] = NoTransfer
    BY <1>4, <1>b DEF StartAdopts, Adopt, SessionOK
  <2>2. "label" \in DOMAIN session' /\ session'.label = "idle"
    BY <1>4 DEF StartAdopts, Adopt, SessionOK
  <2>3. /\ OwnedOnce' /\ ~isOpen(OpenResult)'
        /\ \A x : x # OpenResult /\ x # FileValue => Keeps(x)
    BY <1>0, <2>1, MoveOwns
  <2>4. SessionOK'  BY <2>1, <2>2, <2>3 DEF SessionOK
  <2> QED  BY <2>1, <2>3, <2>4, UnchangedTransfers DEF SessionObjects
<1>5. CASE StartRejects
  <2>1. close({OpenResult}) /\ UNCHANGED io /\ io[SessionThread] = NoTransfer
    BY <1>5, <1>b DEF StartRejects
  <2>2. "label" \in DOMAIN session' /\ session'.label = "idle"
    BY <1>5 DEF StartRejects, SessionOK
  <2>3. OwnedOnce' /\ ~isOpen(OpenResult)' /\ \A x : x \notin {OpenResult} => Keeps(x)
    BY <2>1, CloseOwns
  <2>4. SessionOK'  BY <2>1, <2>2, <2>3 DEF SessionOK
  <2> QED  BY <2>1, <2>3, <2>4, UnchangedTransfers DEF SessionObjects
<1>6. CASE stop
  <2>1. /\ close({FileValue}) /\ UNCHANGED io
        /\ ~isOpen(OpenResult) /\ io[SessionThread] = NoTransfer
    BY <1>6, <1>b DEF stop, SessionOK
  <2>2. "label" \in DOMAIN session' /\ session'.label = "idle"
    BY <1>6 DEF stop, SessionOK, Stopped
  <2>3. OwnedOnce' /\ \A x : x \notin {FileValue} => Keeps(x)  BY <2>1, CloseOwns
  <2>4. SessionOK'  BY <1>0, <2>1, <2>2, <2>3 DEF SessionOK, Keeps, isOpen
  <2> QED  BY <2>1, <2>3, <2>4, UnchangedTransfers DEF SessionObjects
<1>7. CASE pause \/ resume
  <2>1. /\ UNCHANGED <<handleVars, io>> /\ "label" \in DOMAIN session'
        /\ session'.label = session.label
    BY <1>7 DEF pause, resume, SessionOK
  <2>2. SessionOK'  BY <2>1 DEF SessionOK, TransferTo, isOpen, handleVars
  <2> QED  BY <1>a, <2>1, <2>2, UnchangedTransfers
<1>8. CASE ReadBegins
  <2>1. /\ UNCHANGED handleVars /\ isOpen(FileValue) /\ ~isOpen(OpenResult)
        /\ io[SessionThread] = NoTransfer /\ session.label = "idle"
    BY <1>8, <1>b DEF ReadBegins, SessionOK
  <2>2. \A x : Keeps(x)  BY <1>a, <2>1
  <2>3. CASE UNCHANGED io /\ session' = [session EXCEPT !.end_of_stream = TRUE]
    <3>1. SessionOK'  BY <2>1, <2>3 DEF SessionOK, isOpen, handleVars
    <3> QED  BY <1>a, <2>1, <2>3, <3>1, UnchangedTransfers
  <2>4. CASE \E size : /\ session' = [session EXCEPT !.label = "reading"]
                       /\ readAt(SessionThread, FileValue, session.stream_offset, size)
    <3>1. PICK size : readAt(SessionThread, FileValue, session.stream_offset, size)
      BY <2>4
    <3>2. OnlyTransferOf(SessionThread) /\ TransferTo(SessionThread, FileValue)'
      BY <1>0, <2>1, <2>2, <3>1, ReadAtStep
    <3>3. "label" \in DOMAIN session' /\ session'.label = "reading"  BY <2>4 DEF SessionOK
    <3>4. SessionOK'  BY <2>1, <3>2, <3>3 DEF SessionOK, isOpen, handleVars
    <3> QED  BY <1>a, <2>1, <3>2, <3>4
  <2> QED  BY <1>8, <2>3, <2>4 DEF ReadBegins
<1>9. CASE ReadFails \/ ReadAdvances
  <2>1. UNCHANGED handleVars /\ Forget(SessionThread) /\ session.label = "reading"
    BY <1>9 DEF ReadFails, ReadAdvances, ReadAdvancesBy
  <2>2. "label" \in DOMAIN session' /\ session'.label \in {"idle", "ended"}
    BY <1>9 DEF ReadFails, ReadAdvances, ReadAdvancesBy, SessionOK
  <2>3. OnlyTransferOf(SessionThread) /\ io'[SessionThread] = NoTransfer
    BY <1>0, <2>1, ForgetStep
  <2>4. SessionOK'  BY <2>1, <2>2, <2>3 DEF SessionOK, isOpen, handleVars
  <2> QED  BY <1>a, <2>1, <2>3, <2>4
<1>10. CASE ReadStoresEnd
  <2>1. /\ UNCHANGED <<handleVars, io>> /\ "label" \in DOMAIN session' /\ session'.label = "idle"
        /\ ~isOpen(OpenResult) /\ io[SessionThread] = NoTransfer
    BY <1>10, <1>b DEF ReadStoresEnd, SessionOK
  <2>2. SessionOK'  BY <2>1 DEF SessionOK, isOpen, handleVars
  <2> QED  BY <1>a, <2>1, <2>2, UnchangedTransfers
<1> QED
  BY <1>1, <1>2, <1>3, <1>4, <1>5, <1>6, <1>7, <1>8, <1>9, <1>10 DEF SessionStep, start, readNext

LEMMA HelperStepOK ==
    ASSUME OwnedOnce, DOMAIN io = Clients, HelperOK, HelperStep
    PROVE  /\ OwnedOnce' /\ HelperOK' /\ OnlyTransferOf(HelperThread)
           /\ \A x : x # HelperFile => Keeps(x)
<1> USE DEF Helper, HelperGoes
<1>0. HelperThread \in Clients  BY ClientsAssumption
<1>a. ASSUME UNCHANGED handleVars
      PROVE  OwnedOnce' /\ \A x : Keeps(x)
  BY <1>a, NothingMoves DEF handleVars
<1>1. CASE readFileToSpan
  <2>1. /\ ~isOpen(HelperFile) /\ io[HelperThread] = NoTransfer /\ UNCHANGED io
    BY <1>1 DEF readFileToSpan, HelperOK
  <2>2. PICK call : /\ open(HelperFile, call.path, openRead(call.share))
                    /\ helper' = [label |-> "size", call |-> call]
    BY <1>1 DEF readFileToSpan
  <2>3. OwnedOnce' /\ isOpen(HelperFile)' /\ \A x : x # HelperFile => Keeps(x)
    BY <2>1, <2>2, OpenOwns
  <2>4. HelperOK'  BY <2>1, <2>2, <2>3 DEF HelperOK
  <2> QED  BY <2>1, <2>3, <2>4, UnchangedTransfers
<1>2. CASE SizeMatches
  <2>1. UNCHANGED handleVars /\ isOpen(HelperFile) /\ \A x : Keeps(x)
    BY <1>a, <1>2 DEF SizeMatches, HelperOK
  <2>2. isOpen(HelperFile)'  BY <2>1 DEF isOpen, handleVars
  <2>3. "label" \in DOMAIN helper' /\ helper'.label \in {"returned", "reading"}
    BY <1>2 DEF SizeMatches, HelperOK
  <2>4. CASE UNCHANGED io
    <3>1. HelperOK'
      BY <2>1, <2>2, <2>3, <2>4, TransferFrame DEF HelperOK, SameTransfer
    <3> QED  BY <1>a, <2>1, <2>4, <3>1, UnchangedTransfers
  <2>5. CASE readAt(HelperThread, HelperFile, 0, helper.call.size)
    <3>1. OnlyTransferOf(HelperThread) /\ TransferTo(HelperThread, HelperFile)'
      BY <1>0, <2>1, <2>5, ReadAtStep
    <3>2. HelperOK'  BY <2>2, <2>3, <3>1 DEF HelperOK
    <3> QED  BY <1>a, <2>1, <3>1, <3>2
  <2> QED  BY <1>2, <2>4, <2>5 DEF SizeMatches
<1>3. CASE SizeMismatch \/ SizeFails \/ HelperRead
  <2>1. /\ UNCHANGED <<handleVars, io>> /\ isOpen(HelperFile) /\ isOpen(HelperFile)'
        /\ \A x : Keeps(x)
    BY <1>a, <1>3 DEF SizeMismatch, SizeFails, HelperRead, HelperOK, isOpen, handleVars
  <2>2. "label" \in DOMAIN helper' /\ helper'.label \in {"returned", "failed"}
    BY <1>3 DEF SizeMismatch, SizeFails, HelperRead, HelperOK
  <2>3. HelperOK'  BY <2>1, <2>2, TransferFrame DEF HelperOK, SameTransfer
  <2> QED  BY <1>a, <2>1, <2>3, UnchangedTransfers
<1>4. CASE HelperReturns
  <2>1. close({HelperFile}) /\ Forget(HelperThread) /\ helper' = NoHelper
    BY <1>4 DEF HelperReturns
  <2>2. OwnedOnce' /\ ~isOpen(HelperFile)' /\ \A x : x # HelperFile => Keeps(x)
    BY <2>1, CloseOwns
  <2>3. OnlyTransferOf(HelperThread) /\ io'[HelperThread] = NoTransfer
    BY <1>0, <2>1, ForgetStep
  <2>4. HelperOK'  BY <2>1, <2>2, <2>3 DEF HelperOK, NoHelper
  <2> QED  BY <2>2, <2>3, <2>4
<1> QED  BY <1>1, <1>2, <1>3, <1>4 DEF HelperStep

MapperObjects == {FileHandle, MappingHandle}

LEMMA MapperStepOK ==
    ASSUME OwnedOnce, MapperOK, MapperStep
    PROVE  /\ OwnedOnce' /\ MapperOK' /\ UNCHANGED io
           /\ \A x : x \notin MapperObjects => Keeps(x)
<1> USE DEF Bundle
<1>0. UNCHANGED io /\ FileHandle # MappingHandle
  BY DEF MapperStep, FileHandle, MappingHandle
<1>1. CASE OpenMappedFile
  <2>1. ~isOpen(FileHandle) /\ ~isOpen(MappingHandle)  BY <1>1 DEF OpenMappedFile, MapperOK
  <2>2. PICK path, options : open(FileHandle, path, options)  BY <1>1 DEF OpenMappedFile
  <2>3. OwnedOnce' /\ isOpen(FileHandle)' /\ \A x : x # FileHandle => Keeps(x)
    BY <2>1, <2>2, OpenOwns
  <2>4. "label" \in DOMAIN bundle' /\ bundle'.label = "section"  BY <1>1 DEF OpenMappedFile
  <2>5. MapperOK'  BY <1>0, <2>1, <2>3, <2>4 DEF MapperOK, Keeps, isOpen
  <2> QED  BY <1>0, <2>3, <2>5 DEF MapperObjects
<1>2. CASE CreateFileMapping
  <2>1. ~isOpen(MappingHandle) /\ FreeHandles # {}  BY <1>2 DEF CreateFileMapping, MapperOK
  <2>2. PICK record : /\ native_handle' = With(native_handle, MappingHandle, NextHandle)
                      /\ open_handles' = With(open_handles, NextHandle, record)
    BY <1>2 DEF CreateFileMapping
  <2>3. OwnedOnce' /\ \A x : x # MappingHandle => Keeps(x)  BY <2>1, <2>2, GiveOwns
  <2>4. "label" \in DOMAIN bundle' /\ bundle'.label = "map"
    BY <1>2 DEF CreateFileMapping, MapperOK
  <2>5. isOpen(FileHandle)'
    BY <1>0, <1>2, <2>3 DEF CreateFileMapping, MapperOK, Keeps, isOpen
  <2>6. MapperOK'  BY <2>4, <2>5 DEF MapperOK
  <2> QED  BY <1>0, <2>3, <2>6 DEF MapperObjects
<1>3. CASE MapViewOfFile \/ PushMappedView \/ DropView
  <2>1. UNCHANGED handleVars  BY <1>3 DEF MapViewOfFile, PushMappedView, DropView
  <2>2. OwnedOnce' /\ \A x : Keeps(x)  BY <2>1, NothingMoves DEF handleVars
  <2>3. "label" \in DOMAIN bundle' /\ bundle'.label = "push"
    BY <1>3 DEF MapViewOfFile, PushMappedView, DropView, MapperOK
  <2>4. isOpen(FileHandle)'
    BY <1>3, <2>2 DEF MapViewOfFile, PushMappedView, DropView, MapperOK, Keeps, isOpen
  <2>5. MapperOK'  BY <2>3, <2>4 DEF MapperOK
  <2> QED  BY <1>0, <2>2, <2>5
<1>4. CASE MappingFails \/ Unmap
  <2>1. close(MapperObjects) /\ bundle' = NoBundle
    BY <1>4 DEF MappingFails, Unmap, MapperObjects
  <2>2. /\ OwnedOnce' /\ \A x \in MapperObjects : ~isOpen(x)'
        /\ \A x : x \notin MapperObjects => Keeps(x)
    BY <2>1, CloseOwns
  <2>3. MapperOK'  BY <2>1, <2>2 DEF MapperOK, NoBundle, MapperObjects
  <2> QED  BY <1>0, <2>2, <2>3
<1> QED  BY <1>1, <1>2, <1>3, <1>4 DEF MapperStep

LEMMA WriterStepOK ==
    ASSUME OwnedOnce, DOMAIN io = Clients, WriterOK, NEW active, WriterStep(active)
    PROVE  /\ OwnedOnce' /\ WriterOK' /\ DOMAIN io' = Clients
           /\ \A c : c \notin Writers => SameTransfer(c)
           /\ \A x : x # WriterFile => Keeps(x)
<1>1. CASE WriterOpen
  <2>1. ~isOpen(WriterFile) /\ UNCHANGED io  BY <1>1 DEF WriterOpen
  <2>2. PICK path, options : open(WriterFile, path, options)  BY <1>1 DEF WriterOpen
  <2>3. OwnedOnce' /\ \A x : x # WriterFile => Keeps(x)  BY <2>1, <2>2, OpenOwns
  <2>4. WriterOK'  BY <2>1 DEF WriterOK, TransferTo
  <2> QED  BY <2>1, <2>3, <2>4 DEF SameTransfer
<1>2. CASE WriterClose
  <2>1. close({WriterFile}) /\ UNCHANGED io /\ WritersAlone  BY <1>2 DEF WriterClose
  <2>2. OwnedOnce' /\ \A x : x # WriterFile => Keeps(x)  BY <2>1, CloseOwns
  <2>3. WriterOK'  BY <2>1 DEF WriterOK, WritersAlone
  <2> QED  BY <2>1, <2>2, <2>3 DEF SameTransfer
<1>3. CASE resize
  <2>1. UNCHANGED <<open_handles, native_handle, io>>  BY <1>3 DEF resize
  <2>2. OwnedOnce' /\ \A x : Keeps(x)  BY <2>1, NothingMoves
  <2>3. WriterOK'  BY <2>1, <2>2, WriterFrame DEF SameTransfer
  <2> QED  BY <2>1, <2>2, <2>3 DEF SameTransfer
<1>4. CASE \E c \in Writers \cap active : writeExactAt(c) \/ WriteReturns(c)
  <2>1. PICK c \in Writers : writeExactAt(c) \/ WriteReturns(c)  BY <1>4
  <2>2. c \in Clients  BY PlatformAssumption DEF Writers
  <2>3. UNCHANGED <<open_handles, native_handle>>
    BY <2>1 DEF writeExactAt, WriteReturns, handleVars
  <2>4. OwnedOnce' /\ \A x : Keeps(x)  BY <2>3, NothingMoves
  <2>5. OnlyTransferOf(c) /\ (io'[c] = NoTransfer \/ TransferTo(c, WriterFile)')
    <3>1. CASE writeExactAt(c)
      <4>1. isOpen(WriterFile) /\ \E offset, source : writeAt(c, WriterFile, offset, source)
        BY <3>1 DEF writeExactAt
      <4> QED  BY <2>2, <2>4, <4>1, WriteAtStep
    <3>2. CASE WriteReturns(c)  BY <2>2, <3>2, ForgetStep DEF WriteReturns
    <3> QED  BY <2>1, <3>1, <3>2
  <2>6. ASSUME NEW d \in Writers, d # c
        PROVE  io'[d] = NoTransfer \/ TransferTo(d, WriterFile)'
    <3>1. SameTransfer(d) /\ Keeps(WriterFile)  BY <2>4, <2>5, <2>6 DEF OnlyTransferOf
    <3> QED  BY <3>1, TransferFrame DEF WriterOK, SameTransfer
  <2>7. WriterOK'  BY <2>5, <2>6 DEF WriterOK
  <2> QED  BY <2>1, <2>4, <2>5, <2>7 DEF OnlyTransferOf
<1> QED  BY <1>1, <1>2, <1>3, <1>4 DEF WriterStep

(* The system goes on with the transfer of a client, or fails it.          *)
GoesOn(c) ==
    /\ DOMAIN io' = DOMAIN io /\ \A d \in DOMAIN io : d # c => io'[d] = io[d]
    /\ DOMAIN io'[c] = DOMAIN io[c]
    /\ \A f \in DOMAIN io[c] \ {"total_size", "data", "outcome"} : io'[c][f] = io[c][f]

LEMMA ProgressGoesOn ==
    ASSUME NEW c \in DOMAIN io, NEW n, NEW bytes, Progress(c, n, bytes) PROVE GoesOn(c)
<1> DEFINE outcome == IF n < ChunkSize(io[c]) \/ io[c].total_size + n = io[c].size
                      THEN "ok" ELSE "running"
           total == io[c].total_size + n
           data  == io[c].data \o bytes
<1>1. io' = [io EXCEPT ![c] = [@ EXCEPT !.total_size = total, !.data = data,
                                         !.outcome = outcome]]
  BY DEF Progress
<1> HIDE DEF outcome, total, data
<1> QED  BY <1>1 DEF GoesOn

LEMMA TransferStepOK ==
    ASSUME OwnedOnce, DOMAIN io = Clients, NEW c \in Clients, TransferStep(c)
    PROVE  /\ OwnedOnce' /\ DOMAIN io' = Clients /\ UNCHANGED native_handle
           /\ \A x : Keeps(x)
           /\ \A d \in Clients : io[d] = NoTransfer => io'[d] = NoTransfer
           /\ \A d \in Clients : \A o : TransferTo(d, o) => TransferTo(d, o)'
<1>1. UNCHANGED <<open_handles, native_handle>>
  BY DEF TransferStep, doRead, doWrite, IoFails, handleVars
<1>2. OwnedOnce' /\ \A x : Keeps(x)  BY <1>1, NothingMoves
<1>3. io[c].kind # "none"  BY DEF TransferStep, doRead, doWrite, IoFails, Running
<1>4. GoesOn(c)
  <2>1. CASE doRead(c) \/ doWrite(c)
    <3>1. \E n, bytes : Progress(c, n, bytes)  BY <2>1 DEF doRead, doWrite
    <3> QED  BY <3>1, ProgressGoesOn
  <2>2. CASE IoFails(c)  BY <2>2 DEF IoFails, GoesOn
  <2> QED  BY <2>1, <2>2 DEF TransferStep
<1>5. \A d \in Clients : io[d] = NoTransfer => d # c  BY <1>3 DEF NoTransfer
<1>6. \A o : TransferTo(c, o) => TransferTo(c, o)'
  BY <1>1, <1>4 DEF TransferTo, isOpen, GoesOn
<1>7. ASSUME NEW d \in Clients, NEW o, d # c, TransferTo(d, o) PROVE TransferTo(d, o)'
  BY <1>2, <1>4, <1>7, TransferFrame DEF SameTransfer, GoesOn
<1> QED  BY <1>1, <1>2, <1>4, <1>5, <1>6, <1>7 DEF GoesOn

-----------------------------------------------------------------------------
(* The pool of a thread, and the tasks the thread runs.                    *)
OthersKept(t) == \A x : x[1] # t => Keeps(x)
OnlyPoolOf(t) == DOMAIN pool' = PoolThreads /\ \A s \in PoolThreads \ {t} : pool'[s] = pool[s]

LEMMA PoolObjects ==
    ASSUME NEW t
    PROVE  /\ \A path : Entry(t, path) # Miss(t) /\ Entry(t, path)[1] = t
           /\ \A path, other : Entry(t, path) = Entry(t, other) => path = other
           /\ Miss(t)[1] = t
BY DEF Entry, Miss

LEMMA HitOK ==
    ASSUME OwnedOnce, DOMAIN pool = PoolThreads, NEW t \in PoolThreads, PoolOK(t),
           job[t] # Nobody, UNCHANGED job, io[t] = NoTransfer,
           NEW path \in Paths, NEW capacity_, HitEntry(t, path, capacity_)
    PROVE  OwnedOnce' /\ PoolOK(t)' /\ OnlyPoolOf(t) /\ OthersKept(t) /\ UNCHANGED io
<1>1. UNCHANGED <<handleVars, io>>  BY DEF HitEntry
<1>2. OwnedOnce' /\ \A x : Keeps(x)  BY <1>1, NothingMoves DEF handleVars
<1>3. PICK lru, recent :
        pool' = [pool EXCEPT ![t] = [label |-> "hit", path |-> path, capacity |-> capacity_,
                                     entries |-> @.entries, lru |-> lru, recent |-> recent]]
  BY DEF HitEntry
<1>4. /\ pool'[t].label = "hit" /\ pool'[t].path = path
      /\ pool'[t].entries = pool[t].entries
      /\ DOMAIN pool'[t] = {"label", "path", "capacity", "entries", "lru", "recent"}
      /\ OnlyPoolOf(t)
  BY <1>3 DEF OnlyPoolOf
<1>5. path \in pool[t].entries /\ Pool(t, "idle")  BY DEF HitEntry
<1>6. /\ ~isOpen(Miss(t)) /\ isOpen(Entry(t, path))  BY <1>5 DEF PoolOK, Pool
<1>7. PoolOK(t)'
  BY <1>1, <1>4, <1>6 DEF PoolOK, Pool, isOpen, PathOf, handleVars
<1> QED  BY <1>1, <1>2, <1>4, <1>7 DEF OthersKept

LEMMA MissOpensOK ==
    ASSUME OwnedOnce, DOMAIN pool = PoolThreads, NEW t \in PoolThreads, PoolOK(t),
           job[t] # Nobody, UNCHANGED job, io[t] = NoTransfer,
           NEW path \in Paths, NEW capacity_, MissOpens(t, path, capacity_)
    PROVE  OwnedOnce' /\ PoolOK(t)' /\ OnlyPoolOf(t) /\ OthersKept(t) /\ UNCHANGED io
<1>1. /\ Pool(t, "idle") /\ open(Miss(t), path, openRead({"read"})) /\ UNCHANGED io
      /\ pool' = [pool EXCEPT ![t].label = "evict", ![t].path = path, ![t].capacity = capacity_]
  BY DEF MissOpens
<1>2. ~isOpen(Miss(t))  BY <1>1 DEF PoolOK, Pool
<1>3. /\ OwnedOnce' /\ isOpen(Miss(t))' /\ PathOf(Miss(t))' = path
      /\ \A x : x # Miss(t) => Keeps(x)
  BY <1>1, <1>2, OpenOwns DEF PathOf
<1>4. /\ pool'[t].label = "evict" /\ pool'[t].path = path
      /\ pool'[t].entries = pool[t].entries /\ DOMAIN pool'[t] = DOMAIN pool[t]
      /\ OnlyPoolOf(t)
  BY <1>1 DEF OnlyPoolOf, PoolOK
<1>5. \A p \in Paths : /\ isOpen(Entry(t, p))' <=> isOpen(Entry(t, p))
                       /\ isOpen(Entry(t, p)) => PathOf(Entry(t, p))' = PathOf(Entry(t, p))
  BY <1>3, PoolObjects DEF Keeps, isOpen, PathOf
<1>6. PoolOK(t)'  BY <1>1, <1>3, <1>4, <1>5 DEF PoolOK, Pool
<1> QED  BY <1>1, <1>3, <1>4, <1>6, PoolObjects DEF OthersKept

LEMMA MissFailsOK ==
    ASSUME OwnedOnce, DOMAIN pool = PoolThreads, NEW t \in PoolThreads, PoolOK(t),
           job[t] # Nobody, UNCHANGED job, io[t] = NoTransfer,
           NEW path \in Paths, NEW capacity_, MissFails(t, path, capacity_)
    PROVE  OwnedOnce' /\ PoolOK(t)' /\ OnlyPoolOf(t) /\ OthersKept(t) /\ UNCHANGED io
<1>1. /\ Pool(t, "idle") /\ UNCHANGED <<handleVars, io>>
      /\ pool' = [pool EXCEPT ![t].label = "failed", ![t].path = path, ![t].capacity = capacity_]
  BY DEF MissFails
<1>2. OwnedOnce' /\ \A x : Keeps(x)  BY <1>1, NothingMoves DEF handleVars
<1>3. /\ pool'[t].label = "failed" /\ pool'[t].entries = pool[t].entries
      /\ DOMAIN pool'[t] = DOMAIN pool[t] /\ OnlyPoolOf(t)
  BY <1>1 DEF OnlyPoolOf, PoolOK
<1>4. PoolOK(t)'  BY <1>1, <1>3 DEF PoolOK, Pool, isOpen, PathOf, handleVars
<1> QED  BY <1>1, <1>2, <1>3, <1>4 DEF OthersKept

LEMMA EvictOK ==
    ASSUME OwnedOnce, DOMAIN pool = PoolThreads, NEW t \in PoolThreads, PoolOK(t),
           UNCHANGED job, EvictTail(t)
    PROVE  OwnedOnce' /\ PoolOK(t)' /\ OnlyPoolOf(t) /\ OthersKept(t) /\ UNCHANGED io
<1>1. PICK tail_path, lru :
        /\ pool' = [pool EXCEPT ![t].entries = @ \ {tail_path}, ![t].lru = lru]
        /\ close({Entry(t, tail_path)})
  BY DEF EvictTail
<1>2. Pool(t, "evict") /\ UNCHANGED io  BY DEF EvictTail
<1>3. /\ OwnedOnce' /\ ~isOpen(Entry(t, tail_path))'
      /\ \A x : x # Entry(t, tail_path) => Keeps(x)
  BY <1>1, CloseOwns
<1>4. /\ pool'[t].label = pool[t].label /\ pool'[t].path = pool[t].path
      /\ pool'[t].entries = pool[t].entries \ {tail_path}
      /\ DOMAIN pool'[t] = DOMAIN pool[t] /\ OnlyPoolOf(t)
  BY <1>1 DEF OnlyPoolOf, PoolOK
<1>5. /\ isOpen(Miss(t))' /\ PathOf(Miss(t))' = pool[t].path
      /\ io[t] = NoTransfer
  BY <1>2, <1>3, PoolObjects DEF PoolOK, Pool, Keeps, isOpen, PathOf
<1>6. ASSUME NEW path \in Paths
      PROVE  /\ isOpen(Entry(t, path))' <=> path \in pool'[t].entries
             /\ isOpen(Entry(t, path))' => PathOf(Entry(t, path))' = path
  <2>1. CASE path = tail_path  BY <1>3, <1>4, <2>1
  <2>2. CASE path # tail_path
    <3>1. Keeps(Entry(t, path))  BY <1>3, <2>2, PoolObjects
    <3> QED  BY <1>4, <2>2, <3>1 DEF PoolOK, Keeps, isOpen, PathOf
  <2> QED  BY <2>1, <2>2
<1>7. PoolOK(t)'  BY <1>2, <1>4, <1>5, <1>6 DEF PoolOK, Pool
<1> QED  BY <1>2, <1>3, <1>4, <1>7, PoolObjects DEF OthersKept

LEMMA InsertOK ==
    ASSUME OwnedOnce, DOMAIN pool = PoolThreads, NEW t \in PoolThreads, PoolOK(t),
           UNCHANGED job, InsertEntry(t)
    PROVE  OwnedOnce' /\ PoolOK(t)' /\ OnlyPoolOf(t) /\ OthersKept(t) /\ UNCHANGED io
<1>0. PICK path : path = pool[t].path  OBVIOUS
<1> DEFINE entry == Entry(t, path)
<1>1. PICK lru, recent :
        pool' = [pool EXCEPT ![t].label = "inserted", ![t].entries = @ \cup {path},
                             ![t].lru = lru, ![t].recent = recent]
  BY <1>0 DEF InsertEntry
<1>2. Pool(t, "evict") /\ move(Miss(t), entry) /\ UNCHANGED io
  BY <1>0 DEF InsertEntry
<1>3. isOpen(Miss(t)) /\ PathOf(Miss(t)) = path /\ io[t] = NoTransfer
  BY <1>0, <1>2 DEF PoolOK, Pool
<1>4. /\ OwnedOnce' /\ ~isOpen(Miss(t))' /\ isOpen(entry)' /\ PathOf(entry)' = path
      /\ \A x : x # Miss(t) /\ x # entry => Keeps(x)
  BY <1>2, <1>3, MoveOwns, PoolObjects DEF PathOf
<1>5. /\ pool'[t].label = "inserted" /\ pool'[t].path = path
      /\ pool'[t].entries = pool[t].entries \cup {path}
      /\ DOMAIN pool'[t] = DOMAIN pool[t] /\ OnlyPoolOf(t)
  BY <1>0, <1>1 DEF OnlyPoolOf, PoolOK
<1>6. ASSUME NEW p \in Paths
      PROVE  /\ isOpen(Entry(t, p))' <=> p \in pool'[t].entries
             /\ isOpen(Entry(t, p))' => PathOf(Entry(t, p))' = p
  <2>1. CASE p = path  BY <1>4, <1>5, <2>1
  <2>2. CASE p # path
    <3>1. Keeps(Entry(t, p))  BY <1>4, <2>2, PoolObjects
    <3> QED  BY <1>5, <2>2, <3>1 DEF PoolOK, Keeps, isOpen, PathOf
  <2> QED  BY <2>1, <2>2
<1>7. PoolOK(t)'
  <2>1. pool'[t].label # "evict" /\ job'[t] # Nobody  BY <1>2, <1>5 DEF PoolOK, Pool
  <2>2. isOpen(Entry(t, pool[t].path))'  BY <1>4, <1>5
  <2> HIDE DEF entry
  <2> QED  BY <1>2, <1>3, <1>4, <1>5, <1>6, <2>1, <2>2 DEF PoolOK, Pool
<1> QED  BY <1>2, <1>4, <1>5, <1>7, PoolObjects DEF OthersKept

(* Each thread runs the task of a user of its own, who is running.         *)
LEMMA TakeTaskJobs ==
    ASSUME JobsOK, NEW t \in PoolThreads, TakeTask(t)
    PROVE  JobsOK' /\ \A s \in PoolThreads : s # t => job'[s] = job[s]
<1>1. PICK u \in Users :
        /\ User(u, "queued") /\ job[t] = Nobody
        /\ user' = [user EXCEPT ![u].label = "running"] /\ job' = [job EXCEPT ![t] = u]
  BY DEF TakeTask, UserGoes
<1>2. /\ user'[u].label = "running" /\ user'[u].path \in Paths
      /\ DOMAIN user'[u] = DOMAIN user[u] /\ "path" \in DOMAIN user[u]
      /\ \A v \in Users : v # u => user'[v] = user[v]
      /\ DOMAIN user' = Users
  BY <1>1 DEF JobsOK, User, InRun
<1>3. \A s \in PoolThreads : job[s] # u  BY <1>1, ClientsAssumption DEF JobsOK, User
<1>4. job' \in [PoolThreads -> Users \cup {Nobody}]  BY <1>1 DEF JobsOK
<1>5. \A s \in PoolThreads : job'[s] = IF s = t THEN u ELSE job[s]  BY <1>1 DEF JobsOK
<1>6. \A s \in PoolThreads : job'[s] # Nobody => user'[job'[s]].label = "running"
  BY <1>2, <1>3, <1>5 DEF JobsOK, User
<1>7. \A s, other \in PoolThreads : job'[s] = job'[other] /\ job'[s] # Nobody => s = other
  BY <1>3, <1>5 DEF JobsOK
<1> QED  BY <1>2, <1>4, <1>5, <1>6, <1>7 DEF JobsOK, User, InRun

LEMMA TaskReturnsJobs ==
    ASSUME JobsOK, NEW t \in PoolThreads, TaskReturns(t)
    PROVE  JobsOK' /\ \A s \in PoolThreads : s # t => job'[s] = job[s]
<1>1. PICK u \in Users :
        /\ job[t] = u /\ u # Nobody
        /\ user' = [user EXCEPT ![u].label = "returning"] /\ job' = [job EXCEPT ![t] = Nobody]
  BY DEF TaskReturns, UserGoes, JobsOK
<1>2. /\ user'[u].label = "returning" /\ user'[u].path \in Paths
      /\ DOMAIN user'[u] = DOMAIN user[u] /\ {"label", "path"} \subseteq DOMAIN user[u]
      /\ \A v \in Users : v # u => user'[v] = user[v]
      /\ DOMAIN user' = Users
  BY <1>1 DEF JobsOK, User, InRun
<1>3. \A s \in PoolThreads : s # t => job[s] # u  BY <1>1 DEF JobsOK
<1>4. job' \in [PoolThreads -> Users \cup {Nobody}]  BY <1>1 DEF JobsOK
<1>5. \A s \in PoolThreads : job'[s] = IF s = t THEN Nobody ELSE job[s]  BY <1>1 DEF JobsOK
<1>6. \A s \in PoolThreads : job'[s] # Nobody => user'[job'[s]].label = "running"
  BY <1>2, <1>3, <1>5 DEF JobsOK, User
<1>7. \A s, other \in PoolThreads : job'[s] = job'[other] /\ job'[s] # Nobody => s = other
  BY <1>3, <1>5 DEF JobsOK
<1> QED  BY <1>2, <1>4, <1>5, <1>6, <1>7 DEF JobsOK, User, InRun

LEMMA TaskStepOK ==
    ASSUME HandlesInv, NEW t \in PoolThreads, TaskStep(t)
    PROVE  /\ OwnedOnce' /\ PoolOK(t)' /\ JobsOK'
           /\ OnlyPoolOf(t) /\ OnlyTransferOf(t) /\ OthersKept(t)
           /\ \A s \in PoolThreads : s # t => job'[s] = job[s]
<1> USE DEF HandlesInv
<1>0. t \in Clients  BY ClientsAssumption
<1>a. ASSUME UNCHANGED handleVars
      PROVE  OwnedOnce' /\ OthersKept(t) /\ \A x : Keeps(x)
  BY <1>a, NothingMoves DEF handleVars, OthersKept
<1>1. CASE TakeTask(t)
  <2>1. UNCHANGED <<handleVars, io, pool>>  BY <1>1 DEF TakeTask
  <2>2. PICK u \in Users : job' = [job EXCEPT ![t] = u]  BY <1>1 DEF TakeTask
  <2>3. job'[t] # Nobody  BY <2>2, ClientsAssumption DEF JobsOK
  <2>4. PoolOK(t)'  BY <1>a, <2>1, <2>3, PoolFrame DEF SameTransfer
  <2> QED  BY <1>a, <1>1, <2>1, <2>4, TakeTaskJobs, UnchangedTransfers DEF OnlyPoolOf
<1>2. CASE AskPool(t)
  <2>1. /\ job[t] # Nobody /\ io[t] = NoTransfer /\ UNCHANGED <<user, job>>
        /\ \E capacity : getReadHandle(t, user[job[t]].path, capacity)
    BY <1>2 DEF AskPool, taskVars
  <2>2. PICK path \in Paths : \E capacity : getReadHandle(t, path, capacity)
    <3>1. job[t] \in Users /\ InRun(job[t])  BY <2>1 DEF JobsOK, InRun, User
    <3> QED  BY <2>1, <3>1 DEF JobsOK
  <2>3. OwnedOnce' /\ PoolOK(t)' /\ OnlyPoolOf(t) /\ OthersKept(t) /\ UNCHANGED io
    BY <2>1, <2>2, HitOK, MissOpensOK, MissFailsOK DEF getReadHandle
  <2> QED  BY <2>1, <2>3, JobsFrame, UnchangedTransfers
<1>3. CASE PoolGoesOn(t)
  <2>1. UNCHANGED <<user, job>>  BY <1>3 DEF PoolGoesOn, taskVars
  <2>2. OwnedOnce' /\ PoolOK(t)' /\ OnlyPoolOf(t) /\ OthersKept(t) /\ UNCHANGED io
    BY <1>3, <2>1, EvictOK, InsertOK DEF PoolGoesOn
  <2> QED  BY <2>1, <2>2, JobsFrame, UnchangedTransfers
<1>4. CASE ReadTask(t)
  <2>1. /\ Pool(t, "hit") \/ Pool(t, "inserted")
        /\ \E size : readAt(t, Entry(t, pool[t].path), 0, size)
        /\ UNCHANGED <<handleVars, pool, user, job>>
    BY <1>4 DEF ReadTask, taskVars
  <2>2. isOpen(Entry(t, pool[t].path))  BY <2>1 DEF PoolOK
  <2>3. OnlyTransferOf(t) /\ TransferTo(t, Entry(t, pool[t].path))'
    <3>1. PICK o : o = Entry(t, pool[t].path) /\ o = Entry(t, pool'[t].path)  BY <2>1
    <3>2. OnlyTransferOf(t) /\ TransferTo(t, o)'  BY <1>0, <1>a, <2>1, <2>2, <3>1, ReadAtStep
    <3> QED  BY <3>1, <3>2
  <2>4. PoolOK(t)'  BY <2>1, <2>3 DEF PoolOK, Pool, isOpen, PathOf, handleVars
  <2> QED  BY <1>a, <2>1, <2>3, <2>4, JobsFrame DEF OnlyPoolOf
<1>5. CASE TaskReturns(t)
  <2>1. /\ UNCHANGED handleVars /\ Forget(t)
        /\ Pool(t, "failed") \/ Returned(t)
        /\ pool' = [pool EXCEPT ![t].label = "idle", ![t].path = "none", ![t].capacity = 0]
    BY <1>5 DEF TaskReturns
  <2>2. OnlyTransferOf(t) /\ io'[t] = NoTransfer  BY <1>0, <2>1, ForgetStep
  <2>3. /\ pool'[t].label = "idle" /\ pool'[t].entries = pool[t].entries
        /\ DOMAIN pool'[t] = DOMAIN pool[t] /\ OnlyPoolOf(t)
    BY <2>1 DEF PoolOK, OnlyPoolOf
  <2>4. ~Pool(t, "evict")
    BY <2>1 DEF PoolOK, Pool, Returned, NoTransfer
  <2>5. PoolOK(t)'  BY <2>1, <2>2, <2>3, <2>4 DEF PoolOK, Pool, isOpen, PathOf, handleVars
  <2> QED  BY <1>a, <1>5, <2>1, <2>2, <2>3, <2>5, TaskReturnsJobs
<1> QED  BY <1>1, <1>2, <1>3, <1>4, <1>5 DEF TaskStep

LEMMA UserStepOK ==
    ASSUME HandlesInv, NEW u \in Users, UserStep(u)
    PROVE  /\ UNCHANGED <<handleVars, io, pool>> /\ JobsOK'
           /\ \A t \in PoolThreads : job[t] # Nobody => job'[t] # Nobody
<1> USE DEF HandlesInv
<1>1. CASE initialize(u)  BY <1>1, JobsFrame DEF initialize
<1>2. CASE get(u) \/ ShutdownBegins(u)
  <2>1. PICK label \in {"got", "shutdown"} :
          /\ user' = [user EXCEPT ![u].label = label]
          /\ user[u].label = "idle" /\ UNCHANGED <<handleVars, io, pool, job>>
    BY <1>2 DEF get, ShutdownBegins, UserGoes, User
  <2>2. /\ user'[u].label = label /\ DOMAIN user'[u] = DOMAIN user[u]
        /\ DOMAIN user' = Users /\ \A v \in Users : v # u => user'[v] = user[v]
    BY <2>1 DEF JobsOK
  <2>3. JobsOK'  BY <2>1, <2>2 DEF JobsOK, InRun, User
  <2> QED  BY <2>1, <2>3
<1>3. CASE runRequests(u)
  <2>1. PICK path \in Paths, size \in TaskSizes :
          user' = [user EXCEPT ![u] = [label |-> "begun", path |-> path, size |-> size]]
    BY <1>3 DEF runRequests
  <2>2. UNCHANGED <<handleVars, io, pool, job>> /\ user[u].label = "got"
    BY <1>3 DEF runRequests, User
  <2>3. /\ user'[u] = [label |-> "begun", path |-> path, size |-> size]
        /\ DOMAIN user' = Users /\ \A v \in Users : v # u => user'[v] = user[v]
    BY <2>1 DEF JobsOK
  <2>4. \A t \in PoolThreads : job[t] # u  BY <2>2, ClientsAssumption DEF JobsOK, User
  <2>5. JobsOK'  BY <2>2, <2>3, <2>4 DEF JobsOK, InRun, User
  <2> QED  BY <2>2, <2>5
<1>4. CASE Dispatch(u)
  <2>1. PICK label \in {"queued", "running"} :
          /\ user' = [user EXCEPT ![u].label = label]
          /\ \/ label = "queued" /\ job' = job
             \/ label = "running" /\ job' = [job EXCEPT ![u] = u]
    BY <1>4 DEF Dispatch, UserGoes
  <2>2. UNCHANGED <<handleVars, io, pool>> /\ user[u].label = "begun"
    BY <1>4 DEF Dispatch, User
  <2>3. /\ user'[u].label = label /\ user'[u].path \in Paths
        /\ DOMAIN user'[u] = DOMAIN user[u] /\ {"label", "path"} \subseteq DOMAIN user[u]
        /\ DOMAIN user' = Users /\ \A v \in Users : v # u => user'[v] = user[v]
    BY <2>1, <2>2 DEF JobsOK, InRun
  <2>4. \A t \in PoolThreads : job[t] # u  BY <2>2, ClientsAssumption DEF JobsOK, User
  <2>5. /\ job' \in [PoolThreads -> Users \cup {Nobody}]
        /\ \A t \in PoolThreads :
              \/ job'[t] = job[t]
              \/ t = u /\ job'[t] = u /\ label = "running"
    <3>1. job \in [PoolThreads -> Users \cup {Nobody}] /\ u \in PoolThreads
      BY ClientsAssumption DEF JobsOK
    <3>2. CASE job' = job  BY <3>1, <3>2
    <3>3. CASE label = "running" /\ job' = [job EXCEPT ![u] = u]  BY <3>1, <3>3
    <3> QED  BY <2>1, <3>2, <3>3
  <2>6. \A t \in PoolThreads : job'[t] # Nobody => user'[job'[t]].label = "running"
    BY <2>3, <2>4, <2>5 DEF JobsOK, User
  <2>7. \A t, other \in PoolThreads : job'[t] = job'[other] /\ job'[t] # Nobody => t = other
    BY <2>4, <2>5 DEF JobsOK
  <2>8. JobsOK'  BY <2>3, <2>5, <2>6, <2>7 DEF JobsOK, InRun, User
  <2> QED  BY <2>2, <2>5, <2>8, ClientsAssumption
<1>5. CASE RunReturns(u)
  <2>1. /\ user' = [user EXCEPT ![u] = NoRun] /\ user[u].label = "returning"
        /\ UNCHANGED <<handleVars, io, pool, job>>
    BY <1>5 DEF RunReturns, User
  <2>2. /\ user'[u] = NoRun /\ DOMAIN user' = Users
        /\ \A v \in Users : v # u => user'[v] = user[v]
    BY <2>1 DEF JobsOK
  <2>3. \A t \in PoolThreads : job[t] # u  BY <2>1, ClientsAssumption DEF JobsOK, User
  <2>4. JobsOK'  BY <2>1, <2>2, <2>3 DEF JobsOK, InRun, User, NoRun
  <2> QED  BY <2>1, <2>4
<1> QED  BY <1>1, <1>2, <1>3, <1>4, <1>5 DEF UserStep, RunStep

(* No run is short of its return: the pools of all threads are at rest.    *)
LEMMA ShutdownOK ==
    ASSUME HandlesInv, NEW u \in Users, ShutdownResets(u)
    PROVE  /\ OwnedOnce' /\ JobsOK' /\ DOMAIN pool' = PoolThreads
           /\ \A t \in PoolThreads : PoolOK(t)'
           /\ UNCHANGED io
           /\ \A x : x[1] \notin PoolThreads => Keeps(x)
<1> USE DEF HandlesInv
<1>1. /\ UNCHANGED <<io, job>> /\ Dangling(u) /\ user[u].label = "shutdown"
      /\ \A v \in Users : ~InRun(v)
  BY DEF ShutdownResets, waitIdle, NoRunUnwaited, User
<1>2. PICK ts \in SUBSET PoolThreads : clearThreads(ts)
  BY ClientsAssumption DEF ShutdownResets
<1>3. /\ OwnedOnce' /\ \A t \in ts, path \in Paths : ~isOpen(Entry(t, path))'
      /\ \A x : x \notin {Entry(t, path) : t \in ts, path \in Paths} => Keeps(x)
  BY <1>2, CloseOwns DEF clearThreads
<1>4. ASSUME NEW x, x[1] \notin ts PROVE Keeps(x)
  <2>1. x \notin {Entry(t, path) : t \in ts, path \in Paths}  BY <1>4 DEF Entry
  <2> QED  BY <1>3, <2>1
<1>5. /\ DOMAIN pool' = PoolThreads
      /\ \A t \in PoolThreads : pool'[t] = IF t \in ts THEN EmptyPool ELSE pool[t]
  BY <1>2 DEF clearThreads
<1>6. \A t \in PoolThreads : job[t] = Nobody  BY <1>1 DEF InRun, User, JobsOK
<1>7. ASSUME NEW t \in PoolThreads PROVE PoolOK(t)'
  <2>1. CASE t \in ts
    <3>1. pool[t].label = "idle" /\ ~isOpen(Miss(t)) /\ io[t] = NoTransfer
      BY <1>6 DEF PoolOK, Pool
    <3>2. Keeps(Miss(t))
      <4>1. Miss(t) \notin {Entry(s, path) : s \in ts, path \in Paths}  BY DEF Miss, Entry
      <4> QED  BY <1>3, <4>1
    <3>3. ~isOpen(Miss(t))'  BY <3>1, <3>2 DEF Keeps, isOpen
    <3>4. pool'[t] = EmptyPool  BY <1>5, <2>1
    <3> QED  BY <1>1, <1>3, <2>1, <3>1, <3>3, <3>4 DEF PoolOK, Pool, EmptyPool
  <2>2. CASE t \notin ts
    <3>1. Keeps(Miss(t)) /\ \A path : Keeps(Entry(t, path))  BY <1>4, <2>2, PoolObjects
    <3> QED  BY <1>1, <1>5, <2>2, <3>1, PoolFrame DEF SameTransfer
  <2> QED  BY <2>1, <2>2
<1>8. /\ DOMAIN user' = Users
      /\ \A v \in Users : \/ user'[v] = user[v]
                         \/ /\ user[v].label \in {"got", "shutdown"}
                            /\ user'[v].label = "idle" /\ "label" \in DOMAIN user'[v]
  BY <1>1 DEF Dangling, JobsOK, User
<1>9. JobsOK'  BY <1>1, <1>8 DEF JobsOK, InRun, User
<1> QED  BY <1>1, <1>3, <1>4, <1>5, <1>7, <1>9

-----------------------------------------------------------------------------
(* The invariant holds at first and is kept by every step of anybody.      *)
LEMMA HandlesInvInit == Init => HandlesInv
<1> SUFFICES ASSUME Init PROVE HandlesInv  OBVIOUS
<1> USE DEF Init, PlatformInit, SessionInit, HelperInit, MapperInit, SchedulerInit, PoolInit
<1>1. DOMAIN native_handle = {} /\ DOMAIN open_handles = {}  OBVIOUS
<1>2. \A o : ~isOpen(o)  BY <1>1 DEF isOpen
<1>3. OwnedOnce  BY <1>1 DEF OwnedOnce
<1>4. DOMAIN io = Clients /\ \A c \in Clients : io[c] = NoTransfer  OBVIOUS
<1>5. /\ SessionThread \in Clients /\ HelperThread \in Clients /\ PoolThreads \subseteq Clients
      /\ Writers \subseteq Clients
  BY ClientsAssumption, PlatformAssumption DEF Writers
<1>6. SessionOK  BY <1>2, <1>4, <1>5 DEF SessionOK, Session
<1>7. HelperOK  BY <1>2, <1>4, <1>5 DEF HelperOK, Helper, NoHelper
<1>8. MapperOK  BY <1>2 DEF MapperOK, Bundle, NoBundle
<1>9. WriterOK /\ OthersOK  BY <1>4, <1>5 DEF WriterOK, OthersOK, Others
<1>10. JobsOK  BY DEF JobsOK, InRun, User, NoRun
<1>11. DOMAIN pool = PoolThreads /\ \A t \in PoolThreads : pool[t] = EmptyPool  OBVIOUS
<1>12. \A t \in PoolThreads : PoolOK(t)
  BY <1>2, <1>4, <1>5, <1>11 DEF PoolOK, Pool, EmptyPool
<1> QED  BY <1>3, <1>4, <1>6, <1>7, <1>8, <1>9, <1>10, <1>11, <1>12 DEF HandlesInv

(* Whose object is whose, and that the clients are different threads.      *)
LEMMA Owners ==
    /\ FileValue[1] = SessionThread /\ OpenResult[1] = SessionThread
    /\ HelperFile[1] = HelperThread
    /\ FileHandle[1] = MapperThread /\ MappingHandle[1] = MapperThread
    /\ WriterFile[1] = "writer"
BY DEF FileValue, OpenResult, HelperFile, FileHandle, MappingHandle, WriterFile

LEMMA ThreadsApart ==
    /\ SessionThread # HelperThread /\ SessionThread # MapperThread /\ SessionThread # "writer"
    /\ HelperThread # MapperThread /\ HelperThread # "writer" /\ MapperThread # "writer"
    /\ {SessionThread, HelperThread, MapperThread, "writer"} \cap PoolThreads = {}
    /\ Writers \cap (PoolThreads \cup {SessionThread, HelperThread}) = {}
    /\ PoolThreads \cup Writers \cup {SessionThread, HelperThread} \subseteq Clients
BY ClientsAssumption, PlatformAssumption DEF SessionThread, HelperThread, MapperThread, Writers

LEMMA PoolsFrame ==
    ASSUME \A t \in PoolThreads : PoolOK(t), UNCHANGED pool,
           \A t \in PoolThreads : job[t] # Nobody => job'[t] # Nobody,
           \A t \in PoolThreads : SameTransfer(t),
           \A x : x[1] \in PoolThreads => Keeps(x)
    PROVE  \A t \in PoolThreads : PoolOK(t)'
<1> SUFFICES ASSUME NEW t \in PoolThreads PROVE PoolOK(t)'  OBVIOUS
<1>1. Keeps(Miss(t)) /\ \A path : Keeps(Entry(t, path))  BY PoolObjects
<1> QED  BY <1>1, PoolFrame

LEMMA OthersFrame ==
    ASSUME OthersOK, \A c \in Others : SameTransfer(c) PROVE OthersOK'
BY DEF OthersOK, SameTransfer, Others, Writers

LEMMA HandlesInvNext == HandlesInv /\ [Next]_vars => HandlesInv'
<1> SUFFICES ASSUME HandlesInv, [Next]_vars PROVE HandlesInv'  OBVIOUS
<1> USE DEF HandlesInv, schedulerVars, taskVars
<1>1. CASE Session_
  <2>1. /\ SessionStep /\ UNCHANGED <<helper, bundle, pool, user, job>>  BY <1>1 DEF Session_
  <2>2. /\ OwnedOnce' /\ SessionOK' /\ OnlyTransferOf(SessionThread)
        /\ \A x : x \notin SessionObjects => Keeps(x)
    BY <2>1, SessionStepOK
  <2>3. \A x : x[1] # SessionThread => Keeps(x)  BY <2>2, Owners DEF SessionObjects
  <2>4. DOMAIN io' = Clients /\ \A c : c # SessionThread => SameTransfer(c)
    BY <2>2 DEF OnlyTransferOf
  <2>5. HelperOK'  BY <2>1, <2>3, <2>4, HelperFrame, Owners, ThreadsApart
  <2>6. MapperOK'  BY <2>1, <2>3, MapperFrame, Owners, ThreadsApart
  <2>7. WriterOK'  BY <2>3, <2>4, WriterFrame, Owners, ThreadsApart
  <2>8. OthersOK'  BY <2>4, OthersFrame DEF Others
  <2>9. \A t \in PoolThreads : PoolOK(t)'  BY <2>1, <2>3, <2>4, PoolsFrame, ThreadsApart
  <2> QED  BY <2>1, <2>2, <2>4, <2>5, <2>6, <2>7, <2>8, <2>9, JobsFrame
<1>2. CASE Helper_
  <2>1. /\ HelperStep /\ UNCHANGED <<session, bundle, pool, user, job>>  BY <1>2 DEF Helper_
  <2>2. /\ OwnedOnce' /\ HelperOK' /\ OnlyTransferOf(HelperThread)
        /\ \A x : x # HelperFile => Keeps(x)
    BY <2>1, HelperStepOK
  <2>3. \A x : x[1] # HelperThread => Keeps(x)  BY <2>2, Owners
  <2>4. DOMAIN io' = Clients /\ \A c : c # HelperThread => SameTransfer(c)
    BY <2>2 DEF OnlyTransferOf
  <2>5. SessionOK'  BY <2>1, <2>3, <2>4, SessionFrame, Owners, ThreadsApart
  <2>6. MapperOK'  BY <2>1, <2>3, MapperFrame, Owners, ThreadsApart
  <2>7. WriterOK'  BY <2>3, <2>4, WriterFrame, Owners, ThreadsApart
  <2>8. OthersOK'  BY <2>4, OthersFrame DEF Others
  <2>9. \A t \in PoolThreads : PoolOK(t)'  BY <2>1, <2>3, <2>4, PoolsFrame, ThreadsApart
  <2> QED  BY <2>1, <2>2, <2>4, <2>5, <2>6, <2>7, <2>8, <2>9, JobsFrame
<1>3. CASE Mapper_
  <2>1. /\ MapperStep /\ UNCHANGED <<session, helper, pool, user, job>>  BY <1>3 DEF Mapper_
  <2>2. /\ OwnedOnce' /\ MapperOK' /\ UNCHANGED io
        /\ \A x : x \notin MapperObjects => Keeps(x)
    BY <2>1, MapperStepOK
  <2>3. \A x : x[1] # MapperThread => Keeps(x)  BY <2>2, Owners DEF MapperObjects
  <2>4. DOMAIN io' = Clients /\ \A c : SameTransfer(c)  BY <2>2 DEF SameTransfer
  <2>5. SessionOK'  BY <2>1, <2>3, <2>4, SessionFrame, Owners, ThreadsApart
  <2>6. HelperOK'  BY <2>1, <2>3, <2>4, HelperFrame, Owners, ThreadsApart
  <2>7. WriterOK'  BY <2>3, <2>4, WriterFrame, Owners, ThreadsApart
  <2>8. OthersOK'  BY <2>4, OthersFrame
  <2>9. \A t \in PoolThreads : PoolOK(t)'  BY <2>1, <2>3, <2>4, PoolsFrame, ThreadsApart
  <2> QED  BY <2>1, <2>2, <2>4, <2>5, <2>6, <2>7, <2>8, <2>9, JobsFrame
<1>4. CASE Scheduler_
  <2>1. UNCHANGED <<session, helper, bundle>>  BY <1>4 DEF Scheduler_
  <2>2. ASSUME NEW t \in PoolThreads, TaskStep(t) PROVE HandlesInv'
    <3>1. /\ OwnedOnce' /\ PoolOK(t)' /\ JobsOK'
          /\ OnlyPoolOf(t) /\ OnlyTransferOf(t) /\ OthersKept(t)
          /\ \A s \in PoolThreads : s # t => job'[s] = job[s]
      BY <2>2, TaskStepOK
    <3>2. \A x : x[1] # t => Keeps(x)  BY <3>1 DEF OthersKept
    <3>3. DOMAIN io' = Clients /\ \A c : c # t => SameTransfer(c)
      BY <3>1 DEF OnlyTransferOf
    <3>4. SessionOK'  BY <2>1, <3>2, <3>3, SessionFrame, Owners, ThreadsApart
    <3>5. HelperOK'  BY <2>1, <3>2, <3>3, HelperFrame, Owners, ThreadsApart
    <3>6. MapperOK'  BY <2>1, <3>2, MapperFrame, Owners, ThreadsApart
    <3>7. WriterOK'  BY <3>2, <3>3, WriterFrame, Owners, ThreadsApart
    <3>8. OthersOK'  BY <3>3, OthersFrame DEF Others
    <3>9. ASSUME NEW s \in PoolThreads, s # t PROVE PoolOK(s)'
      <4>1. Keeps(Miss(s)) /\ \A path : Keeps(Entry(s, path))  BY <3>2, <3>9, PoolObjects
      <4> QED  BY <3>1, <3>3, <3>9, <4>1, PoolFrame DEF OnlyPoolOf
    <3> QED  BY <3>1, <3>3, <3>4, <3>5, <3>6, <3>7, <3>8, <3>9 DEF OnlyPoolOf
  <2>3. ASSUME NEW u \in Users, UserStep(u) PROVE HandlesInv'
    <3>1. /\ UNCHANGED <<handleVars, io, pool>> /\ JobsOK'
          /\ \A t \in PoolThreads : job[t] # Nobody => job'[t] # Nobody
      BY <2>3, UserStepOK
    <3>2. OwnedOnce' /\ \A x : Keeps(x)  BY <3>1, NothingMoves DEF handleVars
    <3>3. \A c : SameTransfer(c)  BY <3>1 DEF SameTransfer
    <3>4. /\ SessionOK' /\ HelperOK' /\ MapperOK' /\ WriterOK' /\ OthersOK'
      BY <2>1, <3>2, <3>3, SessionFrame, HelperFrame, MapperFrame, WriterFrame, OthersFrame
    <3>5. \A t \in PoolThreads : PoolOK(t)'  BY <3>1, <3>2, <3>3, PoolsFrame
    <3> QED  BY <3>1, <3>2, <3>4, <3>5
  <2>4. ASSUME NEW u \in Users, ShutdownResets(u) PROVE HandlesInv'
    <3>1. /\ OwnedOnce' /\ JobsOK' /\ DOMAIN pool' = PoolThreads
          /\ \A t \in PoolThreads : PoolOK(t)'
          /\ UNCHANGED io /\ \A x : x[1] \notin PoolThreads => Keeps(x)
      BY <2>4, ShutdownOK
    <3>2. \A c : SameTransfer(c)  BY <3>1 DEF SameTransfer
    <3>3. SessionOK'  BY <2>1, <3>1, <3>2, SessionFrame, Owners, ThreadsApart
    <3>4. HelperOK'  BY <2>1, <3>1, <3>2, HelperFrame, Owners, ThreadsApart
    <3>5. MapperOK'  BY <2>1, <3>1, MapperFrame, Owners, ThreadsApart
    <3>6. WriterOK' /\ OthersOK'
      BY <3>1, <3>2, WriterFrame, OthersFrame, Owners, ThreadsApart
    <3> QED  BY <3>1, <3>3, <3>4, <3>5, <3>6
  <2> QED  BY <1>4, <2>2, <2>3, <2>4 DEF Scheduler_, SchedulerStep
<1>5. CASE Writer_
  <2>1. /\ WriterStep(clients) /\ UNCHANGED <<session, helper, bundle, pool, user, job>>
    BY <1>5 DEF Writer_
  <2>2. /\ OwnedOnce' /\ WriterOK' /\ DOMAIN io' = Clients
        /\ \A c : c \notin Writers => SameTransfer(c)
        /\ \A x : x # WriterFile => Keeps(x)
    BY <2>1, WriterStepOK
  <2>3. \A x : x[1] # "writer" => Keeps(x)  BY <2>2, Owners
  <2>4. SessionOK'  BY <2>1, <2>2, <2>3, SessionFrame, Owners, ThreadsApart
  <2>5. HelperOK'  BY <2>1, <2>2, <2>3, HelperFrame, Owners, ThreadsApart
  <2>6. MapperOK'  BY <2>1, <2>3, MapperFrame, Owners, ThreadsApart
  <2>7. OthersOK'  BY <2>2, OthersFrame DEF Others
  <2>8. \A t \in PoolThreads : PoolOK(t)'  BY <2>1, <2>2, <2>3, PoolsFrame, ThreadsApart
  <2> QED  BY <2>1, <2>2, <2>4, <2>5, <2>6, <2>7, <2>8, JobsFrame
<1>6. ASSUME NEW c \in Clients, Transfer_(c) PROVE HandlesInv'
  <2>1. /\ TransferStep(c) /\ UNCHANGED <<session, helper, bundle, pool, user, job>>
    BY <1>6 DEF Transfer_
  <2>2. /\ OwnedOnce' /\ DOMAIN io' = Clients /\ \A x : Keeps(x)
        /\ \A d \in Clients : io[d] = NoTransfer => io'[d] = NoTransfer
        /\ \A d \in Clients : \A o : TransferTo(d, o) => TransferTo(d, o)'
    BY <2>1, TransferStepOK
  <2>3. \A x : isOpen(x)' <=> isOpen(x)  BY <2>2 DEF Keeps, isOpen
  <2>4. SessionOK'  BY <2>1, <2>2, <2>3, ThreadsApart DEF SessionOK, Session
  <2>5. HelperOK'  BY <2>1, <2>2, <2>3, ThreadsApart DEF HelperOK, Helper
  <2>6. MapperOK'  BY <2>1, <2>2, MapperFrame
  <2>7. WriterOK' /\ OthersOK'  BY <2>2, ThreadsApart DEF WriterOK, OthersOK, Others, Writers
  <2>8. ASSUME NEW t \in PoolThreads PROVE PoolOK(t)'
    <3>1. \A x : isOpen(x) => PathOf(x)' = PathOf(x)  BY <2>2 DEF Keeps, isOpen, PathOf
    <3>2. TransferTo(t, Entry(t, pool[t].path)) => TransferTo(t, Entry(t, pool[t].path))'
      <4>1. PICK o : o = Entry(t, pool[t].path) /\ o = Entry(t, pool'[t].path)  BY <2>1
      <4>2. TransferTo(t, o) => TransferTo(t, o)'  BY <2>2, ThreadsApart
      <4> QED  BY <4>1, <4>2
    <3>3. io[t] = NoTransfer => io'[t] = NoTransfer  BY <2>2, ThreadsApart
    <3> QED  BY <2>1, <2>3, <3>1, <3>2, <3>3 DEF PoolOK, Pool
  <2> QED  BY <2>1, <2>2, <2>4, <2>5, <2>6, <2>7, <2>8, JobsFrame
<1>7. CASE UNCHANGED vars
  <2>1. UNCHANGED <<handleVars, io, session, helper, bundle, pool, user, job>>
    BY <1>7 DEF vars
  <2>2. OwnedOnce' /\ \A x : Keeps(x)  BY <2>1, NothingMoves DEF handleVars
  <2>3. \A c : SameTransfer(c)  BY <2>1 DEF SameTransfer
  <2>4. /\ SessionOK' /\ HelperOK' /\ MapperOK' /\ WriterOK' /\ OthersOK' /\ JobsOK'
    BY <2>1, <2>2, <2>3, SessionFrame, HelperFrame, MapperFrame, WriterFrame, OthersFrame, JobsFrame
  <2>5. \A t \in PoolThreads : PoolOK(t)'  BY <2>1, <2>2, <2>3, PoolsFrame
  <2> QED  BY <2>1, <2>2, <2>4, <2>5
<1> QED  BY <1>1, <1>2, <1>3, <1>4, <1>5, <1>6, <1>7 DEF Next

LEMMA HandlesInvImplies == HandlesInv => HandlesOwnedOnce
<1> SUFFICES ASSUME HandlesInv PROVE HandlesOwnedOnce  OBVIOUS
<1> USE DEF HandlesInv
<1>1. ASSUME NEW c \in Clients, io[c].kind # "none" PROVE isOpen(io[c].object)
  <2>1. io[c] # NoTransfer  BY <1>1 DEF NoTransfer
  <2>2. \E o : TransferTo(c, o)
    BY <2>1 DEF SessionOK, HelperOK, WriterOK, PoolOK, OthersOK, Others
  <2> QED  BY <2>2 DEF TransferTo
<1>2. \A t \in PoolThreads : isOpen(Miss(t)) <=> Pool(t, "evict")  BY DEF PoolOK
<1>3. \A t \in PoolThreads, path \in Paths :
        /\ isOpen(Entry(t, path)) <=> path \in pool[t].entries
        /\ isOpen(Entry(t, path)) => PathOf(Entry(t, path)) = path
  BY DEF PoolOK
<1>4. /\ Session("idle") => ~isOpen(OpenResult)
      /\ Helper("idle") => ~isOpen(HelperFile)
      /\ Bundle("idle") => ~isOpen(FileHandle) /\ ~isOpen(MappingHandle)
  BY DEF SessionOK, HelperOK, MapperOK
<1> QED  BY <1>1, <1>2, <1>3, <1>4 DEF HandlesOwnedOnce, OwnedOnce

(* However many clients there are and in whatever order they open, move,   *)
(* evict, fail and shut down, every handle of the process belongs to one   *)
(* object, a pool's entries hold handles of their own paths, no transfer   *)
(* goes on through a handle that was closed, and no call leaves behind a   *)
(* file it did not hand out (PlatformFileWin32, ReadHandlePool, openMapping,*)
(* GlobalFileScheduler::shutdown).                                         *)
THEOREM HandlesOwnedOnceAlways == Spec => []HandlesOwnedOnce
BY HandlesInvInit, HandlesInvNext, HandlesInvImplies, PTL DEF Spec
=============================================================================
