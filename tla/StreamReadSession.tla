------------------------- MODULE StreamReadSession -------------------------
(***************************************************************************)
(* Center/File/StreamReadSession.hpp: a range of a file is read chunk by   *)
(* chunk by the thread that asks for it.  Anybody may pause and resume.    *)
(* It promises what OrderedStream says; there are no chunks read ahead.    *)
(***************************************************************************)
EXTENDS PlatformFile

CONSTANTS
    StreamCalls,        \* the calls of start
    SpanSizes           \* the sizes of the spans given to readNext

ASSUME StreamAssumption ==
    /\ \A call \in StreamCalls : call.start_offset \in Nat /\ call.max_bytes \in Nat
                                 /\ call.chunk_bytes \in Nat
    /\ SpanSizes \subseteq Nat \ {0}
    /\ \E most \in SpanSizes : \A span \in SpanSizes : span <= most

VARIABLE session

SessionThread == "session"
FileValue  == <<SessionThread, "file_value">>
OpenResult == <<SessionThread, "open_result">>     \* of start, until it is moved

NoCall == [path |-> "none", start_offset |-> 0, max_bytes |-> 0, chunk_bytes |-> 0]

(* What stop stores.  The history begins anew: first is the start of the   *)
(* range, delivered the places of the bytes handed out.                    *)
Stopped(s) == [s EXCEPT !.paused = FALSE, !.end_of_stream = TRUE,
                        !.stream_offset = 0, !.remaining_bytes = 0,
                        !.first = 0, !.complete = FALSE, !.delivered = <<>>]

SetSession(changed) == session' = changed
Session(label) == session.label = label

-----------------------------------------------------------------------------
(* start: stop, open, look at the size, adopt the file.                    *)
StartStops ==
    /\ Session("idle")
    /\ \E call \in StreamCalls :
          SetSession([Stopped(session) EXCEPT
              !.call = IF call.chunk_bytes = 0 THEN NoCall ELSE call,
              !.label = IF call.chunk_bytes = 0 THEN "idle" ELSE "open"])
    /\ close({FileValue})
    /\ UNCHANGED io

StartOpens ==
    /\ Session("open")
    /\ open(OpenResult, session.call.path, openRead({"read"}))
    /\ SetSession([session EXCEPT !.label = "adopt"])
    /\ UNCHANGED io

StartCannotOpen ==
    /\ Session("open")
    /\ SetSession([session EXCEPT !.label = "idle", !.call = NoCall])
    /\ UNCHANGED <<handleVars, io>>

TotalReadable(call, size) ==
    IF call.max_bytes = 0 THEN size - call.start_offset
    ELSE Minimum(call.max_bytes, size - call.start_offset)

Adopt ==
    /\ Session("adopt")
    /\ LET total == TotalReadable(session.call, sizeOf(OpenResult))
       IN  SetSession([session EXCEPT
              !.label = "idle", !.call = NoCall,
              !.chunk_bytes = session.call.chunk_bytes,
              !.stream_offset = session.call.start_offset,
              !.remaining_bytes = total,
              !.paused = FALSE,
              !.end_of_stream = (total = 0),
              !.first = session.call.start_offset,
              !.complete = (total = 0)])
    /\ move(OpenResult, FileValue)
    /\ UNCHANGED io

StartAdoptsUnchecked == Adopt                 \* mutant: wherever the range starts
StartAdopts ==
    /\ Session("adopt") /\ session.call.start_offset <= sizeOf(OpenResult)
    /\ Adopt

(* The offset is past the end, or the size cannot be had; the file closes. *)
StartRejects ==
    /\ Session("adopt")
    /\ close({OpenResult})
    /\ SetSession([session EXCEPT !.label = "idle", !.call = NoCall])
    /\ UNCHANGED io

start == StartStops \/ StartOpens \/ StartCannotOpen \/ StartAdopts \/ StartRejects

stop ==
    /\ Session("idle") /\ isOpen(FileValue)
    /\ SetSession(Stopped(session))
    /\ close({FileValue})
    /\ UNCHANGED io

pause  == /\ ~session.paused /\ SetSession([session EXCEPT !.paused = TRUE])
          /\ UNCHANGED <<handleVars, io>>
resume == /\ session.paused /\ SetSession([session EXCEPT !.paused = FALSE])
          /\ UNCHANGED <<handleVars, io>>

-----------------------------------------------------------------------------
(* readNext, and tryReadNext, which is the same.  A call that finds the    *)
(* session paused, closed or at its end returns and changes nothing.  A    *)
(* request of no bytes ends the stream too, but then it has ended already. *)
RequestBytes(span) ==
    Minimum(session.remaining_bytes, Minimum(span, session.chunk_bytes))

ReadBegins ==
    /\ Session("idle") /\ ~session.paused
    /\ isOpen(FileValue) /\ ~session.end_of_stream
    /\ \E span \in SpanSizes :
          IF RequestBytes(span) = 0
          THEN SetSession([session EXCEPT !.end_of_stream = TRUE]) /\ UNCHANGED io
          ELSE /\ SetSession([session EXCEPT !.label = "reading"])
               /\ readAt(SessionThread, FileValue, session.stream_offset, RequestBytes(span))
    /\ UNCHANGED handleVars

(* A read that fails leaves the session as it was; it can be tried again.  *)
ReadFails ==
    /\ Session("reading") /\ io[SessionThread].outcome = "error"
    /\ SetSession([session EXCEPT !.label = "idle"])
    /\ Forget(SessionThread)
    /\ UNCHANGED handleVars

Places(t) == [n \in 1 .. t.total_size |-> t.offset - session.first + n]
LastRead(t) == t.total_size < t.size \/ t.total_size = session.remaining_bytes

ReadAdvancesBy(moved) ==
    LET t == io[SessionThread]
    IN  /\ Session("reading") /\ t.outcome = "ok"
        /\ SetSession([session EXCEPT
              !.label = IF LastRead(t) THEN "ended" ELSE "idle",
              !.stream_offset = @ + moved,
              !.remaining_bytes = @ - t.total_size,
              !.complete = LastRead(t),
              !.delivered = @ \o Places(t)])
        /\ Forget(SessionThread)
        /\ UNCHANGED handleVars
ReadAdvancesByRequest == ReadAdvancesBy(session.chunk_bytes)   \* mutant
ReadAdvances == ReadAdvancesBy(io[SessionThread].total_size)

ReadStoresEnd ==
    /\ Session("ended")
    /\ SetSession([session EXCEPT !.label = "idle", !.end_of_stream = TRUE])
    /\ UNCHANGED <<handleVars, io>>

readNext == ReadBegins \/ ReadFails \/ ReadAdvances \/ ReadStoresEnd

SessionStep == start \/ stop \/ pause \/ resume \/ readNext

SessionInit ==
    session = [label |-> "idle", call |-> NoCall,
               chunk_bytes |-> 0, stream_offset |-> 0, remaining_bytes |-> 0,
               paused |-> FALSE, end_of_stream |-> TRUE,
               first |-> 0, complete |-> FALSE, delivered |-> <<>>]

-----------------------------------------------------------------------------
(* The session as an OrderedStream of bytes: what readAt has brought is    *)
(* produced when it returns and delivered when the session has counted it. *)
Brought == IF Session("reading") /\ io[SessionThread].outcome = "ok"
           THEN io[SessionThread].total_size ELSE 0

Stream == INSTANCE OrderedStream WITH
    Capacity  <- CHOOSE n \in SpanSizes : \A k \in SpanSizes : k <= n,
    produced  <- Len(session.delivered) + Brought,
    complete  <- session.complete \/ (Brought > 0 /\ LastRead(io[SessionThread])),
    delivered <- session.delivered,
    ended     <- isOpen(FileValue) /\ session.end_of_stream

(* The session implements OrderedStream: bytes are handed out once each    *)
(* and in file order, also when a read failed or came back short and was   *)
(* tried again; the end is reported only after the last byte (readNext).   *)
ImplementsOrderedStream == Stream!Spec
=============================================================================
