-------------------------- MODULE TripleReadBuffer --------------------------
(***************************************************************************)
(* Center/File/TripleReadBuffer.hpp: one producer and one consumer pass    *)
(* buffer_count buffers round in two rings of indexes ("empty" and         *)
(* "filled").  A counting semaphore per ring says how many indexes may be  *)
(* taken; beside it an atomic shadow count keeps the semaphore below its   *)
(* maximum.  Any other thread may request a stop or publish an error.      *)
(*                                                                         *)
(* One step is one atomic operation of the code on shared state; a step    *)
(* that also touches variables only its own thread writes is still one     *)
(* operation for the others.                                               *)
(***************************************************************************)
EXTENDS Integers, FiniteSets, Sequences

CONSTANTS
    buffer_count,     \* 3 in the code
    Producer, Consumer,
    Stoppers,         \* other threads: requestStopWakeup or publishError
    PosMod,           \* positions are counted modulo PosMod: 2^32 in the code
    MaxChunks         \* bound: chunks in the file

ASSUME BufferCountAssumption == buffer_count \in Nat \ {0}
ASSUME ThreadsAssumption ==
    /\ IsFiniteSet(Stoppers)
    /\ Producer # Consumer
    /\ Producer \notin Stoppers
    /\ Consumer \notin Stoppers
ASSUME BoundsAssumption ==
    /\ PosMod \in Nat /\ PosMod > buffer_count
    /\ MaxChunks \in Nat

Side    == {"empty", "filled"}
Index   == 0 .. buffer_count - 1
None    == -1                       \* no index: consumer_current == -1
Threads == {Producer, Consumer} \cup Stoppers

VARIABLES
    semaphore,        \* empty_semaphore, filled_semaphore
    count,            \* empty_count, filled_count
    ring,             \* empty_ring, filled_ring
    read_pos, write_pos,
    consumer_current,
    stop_requested, error_ready,
    storage,          \* initialize() has allocated the buffers
    contents,         \* the chunk of the file each buffer holds, 0 for none
    pc,               \* where each thread stands
    index,            \* the index a thread has taken and not yet put back
    block,            \* block_ of the consumer's acquireCurrent
    sent,             \* chunks the producer has put in
    delivered         \* history: chunks acquireCurrent took for the consumer

tokens == <<semaphore, count>>
rings  == <<ring, read_pos, write_pos>>
flags  == <<stop_requested, error_ready>>
data   == <<consumer_current, storage, contents, index, block, sent, delivered>>
vars   == <<tokens, rings, flags, data, pc>>

ProducerLabels == {"idle", "quit", "check", "try", "took", "pop", "unget",
                   "unget_post", "blocked", "woke", "recheck", "filling",
                   "push", "publish", "publish_post"}
ConsumerLabels == {"idle", "quit", "enter", "acquire", "acquired",
                   "error_check", "pop_filled", "stop_check", "switch",
                   "recycle_push", "recycle", "recycle_post"}
StopLabels     == {"idle", "quit", "stop_store", "stop_empty",
                   "stop_empty_post", "stop_filled", "stop_filled_post"}

-----------------------------------------------------------------------------
(* The object as its default member initialisers leave it.                 *)
Init ==
    /\ semaphore = [s \in Side |-> IF s = "empty" THEN buffer_count ELSE 0]
    /\ count = [s \in Side |-> IF s = "empty" THEN buffer_count ELSE 0]
    /\ ring = [s \in Side |-> [i \in Index |-> 0]]
    /\ read_pos = [s \in Side |-> 0]
    /\ write_pos = [s \in Side |-> 0]
    /\ consumer_current = None
    /\ stop_requested = FALSE /\ error_ready = FALSE
    /\ storage = FALSE
    /\ contents = [i \in Index |-> 0]
    /\ pc = [t \in Threads |-> "idle"]
    /\ index = [t \in {Producer, Consumer} |-> None]
    /\ block = FALSE
    /\ sent = 0 /\ delivered = <<>>

(* normalizeSemaphores: drain both semaphores, then release the empty one  *)
(* buffer_count times.                                                     *)
normalizeSemaphores ==
    /\ semaphore' = [s \in Side |-> IF s = "empty" THEN buffer_count ELSE 0]
    /\ count' = [s \in Side |-> IF s = "empty" THEN buffer_count ELSE 0]

resetQueues ==
    /\ ring' = [s \in Side |-> [i \in Index |-> IF s = "empty" THEN i ELSE 0]]
    /\ read_pos' = [s \in Side |-> 0]
    /\ write_pos' = [s \in Side |-> IF s = "empty" THEN buffer_count ELSE 0]

Quiescent == \A t \in Threads : pc[t] \in {"idle", "quit"}

(* The owner calls reset and initialize while no thread is in a call.      *)
Rearm ==
    /\ Quiescent
    /\ stop_requested' = FALSE /\ error_ready' = FALSE
    /\ consumer_current' = None
    /\ normalizeSemaphores
    /\ resetQueues
    /\ contents' = [i \in Index |-> 0]
    /\ pc' = [t \in Threads |-> "idle"]
    /\ index' = [t \in {Producer, Consumer} |-> None]
    /\ block' = FALSE
    /\ sent' = 0 /\ delivered' = <<>>

Initialize == Rearm /\ storage' = TRUE
Reset      == Rearm /\ storage /\ UNCHANGED storage

-----------------------------------------------------------------------------
Goto(t, from, to) == pc[t] = from /\ pc' = [pc EXCEPT ![t] = to]

(* A semaphore is decremented first and its shadow count afterwards.       *)
TakeToken(t, s, from, to) ==
    /\ semaphore[s] > 0
    /\ Goto(t, from, to)
    /\ semaphore' = [semaphore EXCEPT ![s] = @ - 1]
    /\ UNCHANGED <<count, rings, flags, data>>

CountDown(t, s, from, to) ==
    /\ Goto(t, from, to)
    /\ count' = [count EXCEPT ![s] = @ - 1]
    /\ UNCHANGED <<semaphore, rings, flags, data>>

(* Mutant of safeReleaseCount: the maximum is tested off by one.           *)
safeReleaseCountOffByOne(t, s, from, posting, refused) ==
    /\ IF count[s] <= buffer_count
         THEN /\ Goto(t, from, posting)
              /\ count' = [count EXCEPT ![s] = @ + 1]
         ELSE Goto(t, from, refused) /\ UNCHANGED count
    /\ UNCHANGED <<semaphore, rings, flags, data>>

(* Mutant of safeRelease: release blindly, whatever the count says.        *)
safeReleaseBlind(t, s, from, posting, to, refused) ==
    /\ Goto(t, from, to)
    /\ semaphore' = [semaphore EXCEPT ![s] = @ + 1]
    /\ UNCHANGED <<count, rings, flags, data>>

(* safeRelease: the count goes up first, if it is below the maximum; the   *)
(* semaphore is released afterwards.                                       *)
safeReleaseCount(t, s, from, posting, refused) ==
    /\ IF count[s] < buffer_count
         THEN /\ Goto(t, from, posting)
              /\ count' = [count EXCEPT ![s] = @ + 1]
         ELSE Goto(t, from, refused) /\ UNCHANGED count
    /\ UNCHANGED <<semaphore, rings, flags, data>>

safeReleasePost(t, s, posting, to) ==
    /\ Goto(t, posting, to)
    /\ semaphore' = [semaphore EXCEPT ![s] = @ + 1]
    /\ UNCHANGED <<count, rings, flags, data>>

safeRelease(t, s, from, posting, to, refused) ==
    \/ safeReleaseCount(t, s, from, posting, refused)
    \/ safeReleasePost(t, s, posting, to)

(* popEmptyIndex, popFilledIndex: the comparison is of the raw positions.  *)
RingEmpty(s) == read_pos[s] >= write_pos[s]
RingHeadAhead(s) == ring[s][(read_pos[s] + 1) % buffer_count]  \* mutant of RingHead
RingHead(s)  == ring[s][read_pos[s] % buffer_count]
PopIndex(s)  ==
    /\ read_pos' = [read_pos EXCEPT ![s] = (@ + 1) % PosMod]
    /\ UNCHANGED <<ring, write_pos>>

(* pushEmptyIndex, pushFilledIndex: the difference wraps as uint32 does.   *)
RingLen(s)   == (write_pos[s] - read_pos[s]) % PosMod
RingFull(s)  == RingLen(s) >= buffer_count
PushIndex(s, i) ==
    /\ ring' = [ring EXCEPT ![s][write_pos[s] % buffer_count] = i]
    /\ write_pos' = [write_pos EXCEPT ![s] = (@ + 1) % PosMod]
    /\ UNCHANGED read_pos

-----------------------------------------------------------------------------
(* acquireEmpty, called by the producer while the file has chunks left.    *)
CallAcquireEmpty ==
    /\ sent < MaxChunks
    /\ Goto(Producer, "idle", "check")
    /\ UNCHANGED <<tokens, rings, flags, data>>

AcquireEmptyCheckStop ==
    /\ Goto(Producer, "check", IF stop_requested THEN "quit" ELSE "try")
    /\ UNCHANGED <<tokens, rings, flags, data>>

AcquireEmptyTry ==
    \/ TakeToken(Producer, "empty", "try", "took")
    \/ /\ semaphore["empty"] = 0
       /\ Goto(Producer, "try", "blocked")
       /\ UNCHANGED <<tokens, rings, flags, data>>

(* Mutants of AcquireEmptyTaken and AcquireEmptyWoken: the countdown is    *)
(* forgotten.                                                              *)
AcquireEmptyTakenUncounted ==
    Goto(Producer, "took", "pop") /\ UNCHANGED <<tokens, rings, flags, data>>
AcquireEmptyWokenUncounted ==
    Goto(Producer, "woke", "recheck") /\ UNCHANGED <<tokens, rings, flags, data>>

AcquireEmptyTaken == CountDown(Producer, "empty", "took", "pop")

(* The blocking acquire, and the way back to the head of the loop.         *)
AcquireEmptyBlock == TakeToken(Producer, "empty", "blocked", "woke")
AcquireEmptyWoken == CountDown(Producer, "empty", "woke", "recheck")

AcquireEmptyRecheck ==
    /\ Goto(Producer, "recheck", IF stop_requested THEN "quit" ELSE "check")
    /\ UNCHANGED <<tokens, rings, flags, data>>

AcquireEmptyPop ==
    /\ \/ /\ RingEmpty("empty")
          /\ Goto(Producer, "pop", "unget")
          /\ UNCHANGED <<rings, index>>
       \/ /\ ~RingEmpty("empty")
          /\ Goto(Producer, "pop", "filling")
          /\ index' = [index EXCEPT ![Producer] = RingHead("empty")]
          /\ PopIndex("empty")
    /\ UNCHANGED <<tokens, flags, consumer_current, storage, contents, block,
                   sent, delivered>>

AcquireEmptyUnget ==
    safeRelease(Producer, "empty", "unget", "unget_post", "idle", "idle")

acquireEmpty ==
    \/ CallAcquireEmpty    \/ AcquireEmptyCheckStop \/ AcquireEmptyTry
    \/ AcquireEmptyTaken   \/ AcquireEmptyBlock     \/ AcquireEmptyWoken
    \/ AcquireEmptyRecheck \/ AcquireEmptyPop       \/ AcquireEmptyUnget

(* The producer reads the next chunk into mutableSpan, if there is one.    *)
Fill ==
    /\ storage
    /\ Goto(Producer, "filling", "push")
    /\ contents' = [contents EXCEPT ![index[Producer]] = sent + 1]
    /\ UNCHANGED <<tokens, rings, flags, consumer_current, storage, index,
                   block, sent, delivered>>

(* releaseFilled: publish the index, then the token.                       *)
ReleaseFilledPush ==
    /\ \/ /\ RingFull("filled")
          /\ Goto(Producer, "push", "quit")
          /\ UNCHANGED <<rings, index, sent>>
       \/ /\ ~RingFull("filled")
          /\ Goto(Producer, "push", "publish")
          /\ PushIndex("filled", index[Producer])
          /\ index' = [index EXCEPT ![Producer] = None]
          /\ sent' = sent + 1
    /\ UNCHANGED <<tokens, flags, consumer_current, storage, contents, block,
                   delivered>>

ReleaseFilledToken ==
    safeRelease(Producer, "filled", "publish", "publish_post", "idle", "quit")

releaseFilled == ReleaseFilledPush \/ ReleaseFilledToken

-----------------------------------------------------------------------------
(* acquireCurrent, called as getCurrent (not block) or waitCurrent.        *)
CallAcquireCurrent ==
    /\ Goto(Consumer, "idle", "enter")
    /\ block' \in BOOLEAN
    /\ UNCHANGED <<tokens, rings, flags, consumer_current, storage, contents,
                   index, sent, delivered>>

(* A buffer already held is returned again.                                *)
AcquireCurrentEnter ==
    /\ Goto(Consumer, "enter", IF error_ready THEN "quit"
                               ELSE IF consumer_current # None THEN "idle"
                               ELSE "acquire")
    /\ UNCHANGED <<tokens, rings, flags, data>>

AcquireCurrentAcquire ==
    \/ TakeToken(Consumer, "filled", "acquire", "acquired")
    \/ /\ ~block /\ semaphore["filled"] = 0
       /\ Goto(Consumer, "acquire", "idle")
       /\ UNCHANGED <<tokens, rings, flags, data>>

AcquireCurrentAcquired ==
    CountDown(Consumer, "filled", "acquired", "error_check")

AcquireCurrentErrorCheck ==
    /\ Goto(Consumer, "error_check", IF error_ready THEN "quit" ELSE "pop_filled")
    /\ UNCHANGED <<tokens, rings, flags, data>>

AcquireCurrentPop ==
    /\ \/ /\ RingEmpty("filled")
          /\ Goto(Consumer, "pop_filled", "stop_check")
          /\ UNCHANGED <<rings, consumer_current, delivered>>
       \/ /\ ~RingEmpty("filled")
          /\ Goto(Consumer, "pop_filled", "idle")
          /\ consumer_current' = RingHead("filled")
          /\ delivered' = Append(delivered, contents[RingHead("filled")])
          /\ PopIndex("filled")
    /\ UNCHANGED <<tokens, flags, storage, contents, index, block, sent>>

AcquireCurrentStopCheck ==
    /\ Goto(Consumer, "stop_check", IF stop_requested THEN "quit"
                                    ELSE IF block THEN "enter" ELSE "idle")
    /\ UNCHANGED <<tokens, rings, flags, data>>

acquireCurrent ==
    \/ CallAcquireCurrent     \/ AcquireCurrentEnter      \/ AcquireCurrentAcquire
    \/ AcquireCurrentAcquired \/ AcquireCurrentErrorCheck \/ AcquireCurrentPop
    \/ AcquireCurrentStopCheck

(* switchToNext: give the held buffer back, then getCurrent.               *)
CallSwitchToNext ==
    /\ Goto(Consumer, "idle", "switch")
    /\ block' = FALSE
    /\ UNCHANGED <<tokens, rings, flags, consumer_current, storage, contents,
                   index, sent, delivered>>

(* Mutant of SwitchExchange: a load where the code exchanges.              *)
SwitchLoad ==
    /\ Goto(Consumer, "switch", IF error_ready THEN "quit"
                                ELSE IF consumer_current # None THEN "recycle_push"
                                ELSE "enter")
    /\ \/ error_ready /\ UNCHANGED index
       \/ ~error_ready /\ index' = [index EXCEPT ![Consumer] = consumer_current]
    /\ UNCHANGED <<tokens, rings, flags, consumer_current, storage, contents,
                   block, sent, delivered>>

SwitchExchange ==
    /\ Goto(Consumer, "switch", IF error_ready THEN "quit"
                                ELSE IF consumer_current # None THEN "recycle_push"
                                ELSE "enter")
    /\ \/ error_ready /\ UNCHANGED <<consumer_current, index>>
       \/ /\ ~error_ready
          /\ index' = [index EXCEPT ![Consumer] = consumer_current]
          /\ consumer_current' = None
    /\ UNCHANGED <<tokens, rings, flags, storage, contents, block, sent, delivered>>

SwitchPush ==
    /\ \/ /\ RingFull("empty")
          /\ Goto(Consumer, "recycle_push", "quit")
          /\ UNCHANGED <<rings, index>>
       \/ /\ ~RingFull("empty")
          /\ Goto(Consumer, "recycle_push", "recycle")
          /\ PushIndex("empty", index[Consumer])
          /\ index' = [index EXCEPT ![Consumer] = None]
    /\ UNCHANGED <<tokens, flags, consumer_current, storage, contents, block,
                   sent, delivered>>

SwitchToken ==
    safeRelease(Consumer, "empty", "recycle", "recycle_post", "enter", "enter")

switchToNext == CallSwitchToNext \/ SwitchExchange \/ SwitchPush \/ SwitchToken

-----------------------------------------------------------------------------
(* requestStopWakeup, by a stopper or at the end of publishError.          *)
CallRequestStop(t) ==
    /\ Goto(t, "idle", "stop_store")
    /\ UNCHANGED <<tokens, rings, flags, data>>

AfterStop(t) == IF t = Producer THEN "quit" ELSE "idle"

(* Mutant of publishError: nobody is woken.                                *)
publishErrorSilently(t) ==
    /\ Goto(t, IF t = Producer THEN "filling" ELSE "idle", AfterStop(t))
    /\ error_ready' = TRUE
    /\ UNCHANGED <<tokens, rings, stop_requested, data>>

(* publishError: the error is ready before the stop is requested.  The     *)
(* producer publishes the failure of the read it was doing.                *)
publishError(t) ==
    /\ Goto(t, IF t = Producer THEN "filling" ELSE "idle", "stop_store")
    /\ error_ready' = TRUE
    /\ UNCHANGED <<tokens, rings, stop_requested, data>>

StopStore(t) ==
    /\ Goto(t, "stop_store", "stop_empty")
    /\ stop_requested' = TRUE
    /\ UNCHANGED <<tokens, rings, error_ready, data>>

(* Mutants of StopToken: one side is not woken.                            *)
StopTokenFilledOnly(t) ==
    \/ Goto(t, "stop_empty", "stop_filled") /\ UNCHANGED <<tokens, rings, flags, data>>
    \/ safeRelease(t, "filled", "stop_filled", "stop_filled_post",
                   AfterStop(t), AfterStop(t))
StopTokenEmptyOnly(t) ==
    \/ safeRelease(t, "empty", "stop_empty", "stop_empty_post",
                   "stop_filled", "stop_filled")
    \/ Goto(t, "stop_filled", AfterStop(t)) /\ UNCHANGED <<tokens, rings, flags, data>>

StopToken(t) ==
    \/ safeRelease(t, "empty", "stop_empty", "stop_empty_post",
                   "stop_filled", "stop_filled")
    \/ safeRelease(t, "filled", "stop_filled", "stop_filled_post",
                   AfterStop(t), AfterStop(t))

requestStopWakeup(t) == StopStore(t) \/ StopToken(t)

-----------------------------------------------------------------------------
ProducerNext == acquireEmpty \/ Fill \/ releaseFilled
                \/ publishError(Producer) \/ requestStopWakeup(Producer)
ConsumerNext == acquireCurrent \/ switchToNext
StopperNext(t) == CallRequestStop(t) \/ publishError(t) \/ requestStopWakeup(t)

Next == \/ ProducerNext
        \/ ConsumerNext
        \/ \E t \in Stoppers : StopperNext(t)
        \/ Initialize \/ Reset

Spec == Init /\ [][Next]_vars

(* A thread that is inside a call goes on; nobody is obliged to make one.  *)
InCall(t) == pc[t] # "idle"
FairSpec ==
    /\ Spec
    /\ WF_vars(InCall(Producer) /\ ProducerNext)
    /\ WF_vars(InCall(Consumer) /\ ConsumerNext)
    /\ \A t \in Stoppers : WF_vars(requestStopWakeup(t))
-----------------------------------------------------------------------------
(* Properties.                                                             *)

(* Every variable stays in its type; positions stay below PosMod.          *)
TypeOK ==
    /\ semaphore \in [Side -> 0 .. buffer_count]
    /\ count \in [Side -> 0 .. buffer_count]
    /\ ring \in [Side -> [Index -> Index]]
    /\ read_pos \in [Side -> 0 .. PosMod - 1]
    /\ write_pos \in [Side -> 0 .. PosMod - 1]
    /\ consumer_current \in Index \cup {None}
    /\ stop_requested \in BOOLEAN /\ error_ready \in BOOLEAN
    /\ storage \in BOOLEAN /\ block \in BOOLEAN
    /\ contents \in [Index -> 0 .. MaxChunks]
    /\ pc \in [Threads -> ProducerLabels \cup ConsumerLabels \cup StopLabels]
    /\ index \in [{Producer, Consumer} -> Index \cup {None}]
    /\ sent \in 0 .. MaxChunks
    /\ delivered \in Seq(0 .. MaxChunks)

(* Threads that have raised the count of a side and still owe the          *)
(* semaphore its release, and threads that have taken from the semaphore   *)
(* and not yet lowered the count.                                          *)
PostLabels(s) == IF s = "empty" THEN {"unget_post", "recycle_post", "stop_empty_post"}
                                ELSE {"publish_post", "stop_filled_post"}
TakeLabels(s) == IF s = "empty" THEN {"took", "woke"} ELSE {"acquired"}
Posting(s) == {t \in Threads : pc[t] \in PostLabels(s)}
Taking(s)  == {t \in Threads : pc[t] \in TakeLabels(s)}

(* A semaphore's release may not take it above its maximum (undefined      *)
(* behaviour): whatever threads are about to release, in whatever order,   *)
(* the semaphore stays within buffer_count ("never +N blindly", the        *)
(* comment in requestStopWakeup).                                          *)
ReleaseWithinMax ==
    \A s \in Side : semaphore[s] + Cardinality(Posting(s)) <= buffer_count

(* The shadow count is the semaphore plus what is on its way in or out.    *)
CountMatchesTokens ==
    \A s \in Side : count[s] = semaphore[s] + Cardinality(Posting(s))
                                            + Cardinality(Taking(s))

(* The indexes queued in a ring, and everybody who has buffer i.           *)
Queued(s) == {ring[s][(read_pos[s] + k) % buffer_count] : k \in 0 .. RingLen(s) - 1}
Owners(i) == {s \in Side : i \in Queued(s)}
             \cup {t \in {Producer, Consumer} : index[t] = i}
             \cup (IF consumer_current = i THEN {"current"} ELSE {})

(* Once the queues are set up, every buffer is in exactly one place: the   *)
(* empty ring, the producer's hand, the filled ring, the consumer's hand   *)
(* or on its way back.  So the producer never writes a buffer the consumer *)
(* reads, and none leaks, through stops and errors too.                    *)
OneOwner == storage => \A i \in Index : Cardinality(Owners(i)) = 1

(* The bytes behind the view getCurrent returned do not change before the  *)
(* consumer gives the view up.                                             *)
HeldViewStable ==
    [][(consumer_current # None /\ consumer_current' = consumer_current)
          => contents'[consumer_current] = contents[consumer_current]]_vars

(* Chunks reach the consumer once each, in file order, at most             *)
(* buffer_count ahead of it.                                               *)
Stream == INSTANCE OrderedStream
              WITH Capacity <- buffer_count, produced <- sent,
                   complete <- FALSE, ended <- FALSE
ImplementsOrderedStream == Stream!Spec

(* Until a stop is requested tokens never promise more than the rings      *)
(* hold: counted tokens, those already taken for a pop that is still to    *)
(* come and those a push has still to announce fit in the ring.            *)
OwedPops(s)  == IF s = "empty" THEN Cardinality({t \in Threads : pc[t] = "pop"})
                ELSE Cardinality({t \in Threads : pc[t] \in {"error_check", "pop_filled"}})
OwedTokens(s) == IF s = "empty" THEN Cardinality({t \in Threads : pc[t] = "recycle"})
                 ELSE Cardinality({t \in Threads : pc[t] = "publish"})
TokensBacked ==
    storage /\ ~stop_requested =>
        \A s \in Side : count[s] + OwedPops(s) + OwedTokens(s) <= RingLen(s)

(* A producer blocked for an empty buffer when a stop is requested comes   *)
(* out of its wait.                                                        *)
StopWakesProducer ==
    (pc[Producer] = "blocked" /\ stop_requested) ~> (pc[Producer] # "blocked")

(* A consumer blocked for a chunk when a stop reaches the filled side      *)
(* comes out of its wait, also when the count was full and the stop added  *)
(* no token.                                                               *)
StopWakesConsumer ==
    (pc[Consumer] = "acquire" /\ \E t \in Threads : pc[t] = "stop_filled")
        ~> (pc[Consumer] # "acquire")

(* An error published while the consumer waits for a chunk is what the     *)
(* wait returns.                                                           *)
ErrorReachesConsumer ==
    (pc[Consumer] = "acquire" /\ block /\ error_ready) ~> (pc[Consumer] = "quit")

-----------------------------------------------------------------------------
(* What the design document says and the code does not do.                 *)

(* Producer and consumer never both wait for a token no running thread     *)
(* will release.                                                           *)
NoMutualWait ==
    ~ /\ pc[Producer] = "blocked" /\ semaphore["empty"] = 0
      /\ pc[Consumer] = "acquire" /\ block /\ semaphore["filled"] = 0
      /\ \A t \in Stoppers : pc[t] \in {"idle", "quit"}
      /\ ~stop_requested

(* A stop interrupts a blocked waitCurrent, whenever it blocked.           *)
StopInterruptsWait ==
    (pc[Consumer] = "acquire" /\ stop_requested) ~> (pc[Consumer] # "acquire")

(* acquireEmpty succeeds while an empty buffer is queued and nobody stops  *)
(* the stream.                                                             *)
AcquireFindsEmptyBuffer ==
    (storage /\ ~stop_requested /\ pc[Producer] = "unget") => RingLen("empty") = 0
=============================================================================
