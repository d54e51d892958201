----------------------- MODULE StreamReadSessionAsync -----------------------
(***************************************************************************)
(* Center/File/StreamReadSessionAsync.hpp: a producer thread reads the     *)
(* file ahead into slot_count slots; the consumer drains them with         *)
(* readNext (block) or tryReadNext; the owner starts, stops, pauses and    *)
(* resumes the session.  The queue is guarded by queue_mutex and two       *)
(* condition variables.                                                    *)
(*                                                                         *)
(* One step is one critical section, or one access to shared state outside *)
(* the mutex.  A wait on a condition variable takes three: the predicate   *)
(* is evaluated under the mutex, the thread then blocks and releases the   *)
(* mutex at once, and a notified thread takes the mutex again.             *)
(***************************************************************************)
EXTENDS Naturals, Integers, FiniteSets, Sequences

CONSTANTS
    slot_count,       \* 3 in the code
    slot_bytes,       \* bytes of a slot (chunk_bytes, aligned)
    FileBytes,        \* bound: bytes of the file
    DestBytes,        \* sizes of the consumer's destination spans
    BlockModes,       \* values of block_ the consumer uses
    Producer, Consumer, Owner

ASSUME SizesAssumption ==
    /\ slot_count \in Nat \ {0} /\ slot_bytes \in Nat \ {0}
    /\ FileBytes \in Nat
    /\ DestBytes \subseteq Nat \ {0}
    /\ BlockModes \subseteq BOOLEAN
ASSUME ThreadsAssumption ==
    Producer # Consumer /\ Producer # Owner /\ Consumer # Owner

Slots   == 0 .. slot_count - 1
None    == -1                       \* current_slot_index < 0
Threads == {Producer, Consumer, Owner}

VARIABLES
    slots,                          \* size, end_of_stream and ready of each slot
    memory,                         \* the file offset each slot's bytes came from
    produce_index, consume_index, ready_count,
    current_slot_index, current_slot_offset,
    stream_offset, remaining_bytes, \* relative to start_offset
    paused, stop_requested, producer_done, producer_error, end_of_stream, started,
    lock,                           \* who holds queue_mutex: {} or {t}
    pc,                             \* where each thread stands
    claimed,                        \* producerLoop: slot_index_local, read_size, eos
    call,                           \* readNextInternal: block_, size of destination_,
                                    \* slot_index_local, offset_local, copy_size
    starting,                       \* the owner's stop() is the one inside start()
    produced, complete,             \* history: bytes read since start(), the last one read
    delivered                       \* history: bytes copied out, as offsets from 1

ring    == <<slots, produce_index, consume_index, ready_count,
             current_slot_index, current_slot_offset>>
file    == <<memory, stream_offset, remaining_bytes>>
flags   == <<paused, stop_requested, producer_done, producer_error,
             end_of_stream, started>>
history == <<produced, complete, delivered>>
locals  == <<claimed, call, starting, history>>
vars    == <<ring, file, flags, locals, lock, pc>>

ProducerLabels == {"none", "loop", "check_left", "notify_left", "lock", "pred",
                   "block", "waiting", "woken", "read", "fail", "publish",
                   "notify_ready", "set_done", "notify_done", "exit",
                   "exit_notify", "exited"}
ConsumerLabels == {"idle", "enter", "fast", "lock", "pred", "block", "waiting",
                   "woken", "section", "copy", "finish"}
OwnerLabels    == {"idle", "notify_producer", "notify_consumer", "join",
                   "reset", "close", "start"}

EmptySlot == [size |-> 0, end_of_stream |-> FALSE, ready |-> FALSE]

resetQueue ==
    /\ slots' = [i \in Slots |-> EmptySlot]
    /\ produce_index' = 0 /\ consume_index' = 0 /\ ready_count' = 0
    /\ current_slot_index' = None /\ current_slot_offset' = 0

Init ==
    /\ slots = [i \in Slots |-> EmptySlot]
    /\ memory = [i \in Slots |-> 0]
    /\ produce_index = 0 /\ consume_index = 0 /\ ready_count = 0
    /\ current_slot_index = None /\ current_slot_offset = 0
    /\ stream_offset = 0 /\ remaining_bytes = 0
    /\ paused = FALSE /\ stop_requested = FALSE
    /\ producer_done = TRUE /\ producer_error = FALSE
    /\ end_of_stream = TRUE /\ started = FALSE
    /\ lock = {}
    /\ pc = [t \in Threads |-> IF t = Producer THEN "none" ELSE "idle"]
    /\ claimed = [slot |-> 0, size |-> 0, eos |-> FALSE]
    /\ call = [block |-> FALSE, dest |-> 0, slot |-> 0, offset |-> 0, size |-> 0]
    /\ starting = FALSE
    /\ produced = 0 /\ complete = FALSE /\ delivered = <<>>

-----------------------------------------------------------------------------
(* std::mutex and std::condition_variable as the code uses them.           *)
Goto(t, from, to) == pc[t] = from /\ pc' = [pc EXCEPT ![t] = to]
Acquire(t) == lock = {} /\ lock' = {t}
Release(t) == lock = {t} /\ lock' = {}

(* Each condition variable has at most one waiter.                         *)
Notified(f, t) == IF f[t] = "waiting" THEN [f EXCEPT ![t] = "woken"] ELSE f

(* notify_one and notify_all on the condition variable t waits on, by a    *)
(* thread that moves on.                                                   *)
Notify(self, from, to, t) ==
    /\ pc[self] = from
    /\ pc' = Notified([pc EXCEPT ![self] = to], t)
    /\ UNCHANGED <<ring, file, flags, locals, lock>>

Block(t) ==
    /\ Goto(t, "block", "waiting")
    /\ Release(t)
    /\ UNCHANGED <<ring, file, flags, locals>>

SpuriousWakeup(t) ==
    /\ Goto(t, "waiting", "woken")
    /\ UNCHANGED <<ring, file, flags, locals, lock>>

LockFor(t, from, to) ==
    /\ Goto(t, from, to)
    /\ Acquire(t)
    /\ UNCHANGED <<ring, file, flags, locals>>

-----------------------------------------------------------------------------
(* producerLoop.                                                           *)
ProducerLoop ==
    /\ Goto(Producer, "loop", IF stop_requested THEN "exit" ELSE "check_left")
    /\ UNCHANGED <<ring, file, flags, locals, lock>>

ProducerCheckLeft ==
    /\ Goto(Producer, "check_left", IF paused THEN "loop"
                                    ELSE IF remaining_bytes = 0 THEN "notify_left"
                                    ELSE "lock")
    /\ producer_done' = (producer_done \/ (~paused /\ remaining_bytes = 0))
    /\ UNCHANGED <<ring, file, locals, lock, paused, stop_requested,
                   producer_error, end_of_stream, started>>

(* The claim of a slot at the end of the wait.                             *)
ClaimSlot ==
    /\ Goto(Producer, "pred", "read")
    /\ Release(Producer)
    /\ claimed' = [claimed EXCEPT !.slot = produce_index]
    /\ UNCHANGED <<slots, consume_index, ready_count, current_slot_index,
                   current_slot_offset, file, flags, call, starting, history>>

(* Mutants of ProducerPredicate: the ring is taken to have one slot more;  *)
(* produce_index stays; the wait does not look at the stop.                *)
ProducerPredicateOneMore ==
    \/ /\ ~stop_requested /\ ready_count > slot_count
       /\ Goto(Producer, "pred", "block")
       /\ UNCHANGED <<ring, file, flags, locals, lock>>
    \/ /\ ~stop_requested /\ ready_count <= slot_count
       /\ ClaimSlot
       /\ produce_index' = (produce_index + 1) % slot_count
ProducerPredicateSameSlot ==
    \/ /\ ~stop_requested /\ ready_count >= slot_count
       /\ Goto(Producer, "pred", "block")
       /\ UNCHANGED <<ring, file, flags, locals, lock>>
    \/ /\ ~stop_requested /\ ready_count < slot_count
       /\ ClaimSlot
       /\ UNCHANGED produce_index
ProducerPredicateDeaf ==
    \/ /\ ready_count >= slot_count
       /\ Goto(Producer, "pred", "block")
       /\ UNCHANGED <<ring, file, flags, locals, lock>>
    \/ /\ ready_count < slot_count
       /\ ClaimSlot
       /\ produce_index' = (produce_index + 1) % slot_count

(* The wait's predicate; once it holds, the stop is looked at again, and a *)
(* slot is claimed before the mutex is released.                           *)
ProducerPredicate ==
    \/ /\ ~stop_requested /\ ready_count >= slot_count
       /\ Goto(Producer, "pred", "block")
       /\ UNCHANGED <<ring, file, flags, locals, lock>>
    \/ /\ stop_requested
       /\ Goto(Producer, "pred", "exit")
       /\ Release(Producer)
       /\ UNCHANGED <<ring, file, flags, locals>>
    \/ /\ ~stop_requested /\ ready_count < slot_count
       /\ ClaimSlot
       /\ produce_index' = (produce_index + 1) % slot_count

(* readAt fills the claimed slot outside the mutex; it may come back short *)
(* or empty (the file shrank) or fail.                                     *)
RequestBytes == IF remaining_bytes < slot_bytes THEN remaining_bytes ELSE slot_bytes

ProducerRead ==
    \E n \in 0 .. RequestBytes :
        /\ Goto(Producer, "read", "publish")
        /\ memory' = [memory EXCEPT ![claimed.slot] = stream_offset]
        /\ stream_offset' = stream_offset + n
        /\ remaining_bytes' = remaining_bytes - n
        /\ claimed' = [claimed EXCEPT
                         !.size = n,
                         !.eos = n < RequestBytes \/ n = 0 \/ remaining_bytes - n = 0]
        /\ produced' = produced + n /\ complete' = claimed'.eos
        /\ UNCHANGED <<ring, flags, lock, call, starting, delivered>>

ProducerReadFails ==
    /\ Goto(Producer, "read", "fail")
    /\ UNCHANGED <<ring, file, flags, locals, lock>>

ProducerFail ==
    /\ pc[Producer] = "fail" /\ lock = {}
    /\ pc' = Notified([pc EXCEPT ![Producer] = "exit"], Consumer)
    /\ producer_error' = TRUE /\ producer_done' = TRUE
    /\ UNCHANGED <<ring, file, locals, lock, paused, stop_requested,
                   end_of_stream, started>>

ProducerPublish ==
    /\ lock = {}
    /\ Goto(Producer, "publish", "notify_ready")
    /\ slots' = [slots EXCEPT ![claimed.slot] =
                   [size |-> claimed.size, end_of_stream |-> claimed.eos, ready |-> TRUE]]
    /\ ready_count' = ready_count + 1
    /\ UNCHANGED <<produce_index, consume_index, current_slot_index,
                   current_slot_offset, file, flags, locals, lock>>

ProducerSetDone(from, to) ==
    /\ Goto(Producer, from, to)
    /\ producer_done' = TRUE
    /\ UNCHANGED <<ring, file, locals, lock, paused, stop_requested,
                   producer_error, end_of_stream, started>>

(* The thread's last act: both condition variables are notified.           *)
ProducerExit ==
    /\ pc[Producer] = "exit_notify"
    /\ pc' = Notified([pc EXCEPT ![Producer] = "exited"], Consumer)
    /\ UNCHANGED <<ring, file, flags, locals, lock>>

producerLoop ==
    \/ ProducerLoop
    \/ ProducerCheckLeft
    \/ Notify(Producer, "notify_left", "exit", Consumer)
    \/ LockFor(Producer, "lock", "pred")
    \/ ProducerPredicate
    \/ Block(Producer)
    \/ LockFor(Producer, "woken", "pred")
    \/ ProducerRead
    \/ ProducerReadFails
    \/ ProducerFail
    \/ ProducerPublish
    \/ Notify(Producer, "notify_ready", IF claimed.eos THEN "set_done" ELSE "loop", Consumer)
    \/ ProducerSetDone("set_done", "notify_done")
    \/ Notify(Producer, "notify_done", "exit", Consumer)
    \/ ProducerSetDone("exit", "exit_notify")
    \/ ProducerExit

-----------------------------------------------------------------------------
(* readNextInternal.                                                       *)
CallReadNext ==
    /\ ~starting
    /\ Goto(Consumer, "idle", "enter")
    /\ \E d \in DestBytes, b \in BlockModes :
          call' = [block |-> b, dest |-> d, slot |-> 0, offset |-> 0, size |-> 0]
    /\ UNCHANGED <<ring, file, flags, lock, claimed, starting, history>>

(* Not started: 0; paused: operation_canceled.                             *)
ReadEnter ==
    /\ Goto(Consumer, "enter", IF ~started \/ paused THEN "idle"
                               ELSE IF call.block THEN "lock" ELSE "fast")
    /\ UNCHANGED <<ring, file, flags, locals, lock>>

(* Mutant of ReadFastPath: every poll takes the mutex.                     *)
ReadFastPathLocks ==
    Goto(Consumer, "fast", "lock") /\ UNCHANGED <<ring, file, flags, locals, lock>>

(* tryReadNext returns without the mutex when there is nothing to read.    *)
ReadFastPath ==
    /\ Goto(Consumer, "fast",
            IF /\ current_slot_index = None /\ ready_count = 0
               /\ ~producer_done /\ ~producer_error
            THEN "idle" ELSE "lock")
    /\ UNCHANGED <<ring, file, flags, locals, lock>>

(* Mutant of ReadPredicate: the wait does not look at ready_count.         *)
ReadPredicateBlind ==
    /\ Goto(Consumer, "pred",
            IF \/ ~call.block
               \/ stop_requested \/ producer_error \/ producer_done
               \/ current_slot_index # None
            THEN "section" ELSE "block")
    /\ UNCHANGED <<ring, file, flags, locals, lock>>

ReadPredicate ==
    /\ Goto(Consumer, "pred",
            IF \/ ~call.block
               \/ stop_requested \/ producer_error \/ producer_done
               \/ current_slot_index # None \/ ready_count > 0
            THEN "section" ELSE "block")
    /\ UNCHANGED <<ring, file, flags, locals, lock>>

(* Mutants of Retire: consume_index stays; the producer is not notified;   *)
(* the end is taken from producer_done and not from the slot.              *)
RetireSamePlace(i) ==
    /\ slots' = [slots EXCEPT ![i] = EmptySlot]
    /\ ready_count' = IF ready_count > 0 THEN ready_count - 1 ELSE 0
    /\ current_slot_index' = None /\ current_slot_offset' = 0
    /\ end_of_stream' = (end_of_stream \/ slots[i].end_of_stream)
    /\ pc' = Notified([pc EXCEPT ![Consumer] = "idle"], Producer)
    /\ UNCHANGED <<produce_index, consume_index, paused, stop_requested,
                   producer_done, producer_error, started>>
RetireSilently(i) ==
    /\ slots' = [slots EXCEPT ![i] = EmptySlot]
    /\ ready_count' = IF ready_count > 0 THEN ready_count - 1 ELSE 0
    /\ consume_index' = (consume_index + 1) % slot_count
    /\ current_slot_index' = None /\ current_slot_offset' = 0
    /\ end_of_stream' = (end_of_stream \/ slots[i].end_of_stream)
    /\ pc' = [pc EXCEPT ![Consumer] = "idle"]
    /\ UNCHANGED <<produce_index, paused, stop_requested, producer_done,
                   producer_error, started>>

RetireEndsWhenDone(i) ==
    /\ slots' = [slots EXCEPT ![i] = EmptySlot]
    /\ ready_count' = IF ready_count > 0 THEN ready_count - 1 ELSE 0
    /\ consume_index' = (consume_index + 1) % slot_count
    /\ current_slot_index' = None /\ current_slot_offset' = 0
    /\ end_of_stream' = (end_of_stream \/ producer_done)
    /\ pc' = Notified([pc EXCEPT ![Consumer] = "idle"], Producer)
    /\ UNCHANGED <<produce_index, paused, stop_requested, producer_done,
                   producer_error, started>>

(* A drained slot goes back to the producer; the stream ends with the slot *)
(* marked so.                                                              *)
Retire(i) ==
    /\ slots' = [slots EXCEPT ![i] = EmptySlot]
    /\ ready_count' = IF ready_count > 0 THEN ready_count - 1 ELSE 0
    /\ consume_index' = (consume_index + 1) % slot_count
    /\ current_slot_index' = None /\ current_slot_offset' = 0
    /\ end_of_stream' = (end_of_stream \/ slots[i].end_of_stream)
    /\ pc' = Notified([pc EXCEPT ![Consumer] = "idle"], Producer)
    /\ UNCHANGED <<produce_index, paused, stop_requested, producer_done,
                   producer_error, started>>

(* The first critical section, from the slot chosen to the bytes to copy.  *)
NextSlot   == IF current_slot_index = None THEN consume_index ELSE current_slot_index
NextOffset == IF current_slot_index = None THEN 0 ELSE current_slot_offset
Available  == IF slots[NextSlot].size > NextOffset
              THEN slots[NextSlot].size - NextOffset ELSE 0
NothingReady == current_slot_index = None /\ ready_count = 0

ReadSectionError ==
    /\ producer_error
    /\ Goto(Consumer, "section", "idle")
    /\ Release(Consumer)
    /\ UNCHANGED <<ring, file, flags, locals>>

ReadSectionNothing ==
    /\ ~producer_error /\ NothingReady
    /\ Goto(Consumer, "section", "idle")
    /\ Release(Consumer)
    /\ end_of_stream' = (end_of_stream \/ producer_done)
    /\ UNCHANGED <<ring, file, locals, paused, stop_requested, producer_done,
                   producer_error, started>>

ReadSectionEmptySlot ==
    /\ ~producer_error /\ ~NothingReady /\ Available = 0
    /\ pc[Consumer] = "section"
    /\ Release(Consumer)
    /\ Retire(NextSlot)
    /\ UNCHANGED <<file, locals>>

ReadSectionCopy ==
    /\ ~producer_error /\ ~NothingReady /\ Available > 0
    /\ Goto(Consumer, "section", "copy")
    /\ Release(Consumer)
    /\ current_slot_index' = NextSlot /\ current_slot_offset' = NextOffset
    /\ call' = [call EXCEPT !.slot = NextSlot, !.offset = NextOffset,
                            !.size = IF call.dest < Available THEN call.dest ELSE Available]
    /\ UNCHANGED <<slots, produce_index, consume_index, ready_count, file, flags,
                   claimed, starting, history>>

(* memcpy, outside the mutex: whatever the slot's memory holds now.        *)
ReadCopy ==
    /\ Goto(Consumer, "copy", "finish")
    /\ delivered' = delivered \o
          [k \in 1 .. call.size |-> memory[call.slot] + call.offset + k]
    /\ UNCHANGED <<ring, file, flags, lock, claimed, call, starting, produced, complete>>

(* The second critical section.                                            *)
ReadFinish ==
    /\ pc[Consumer] = "finish" /\ lock = {}
    /\ IF current_slot_offset + call.size >= slots[call.slot].size
         THEN Retire(call.slot)
         ELSE /\ Goto(Consumer, "finish", "idle")
              /\ current_slot_offset' = current_slot_offset + call.size
              /\ UNCHANGED <<slots, produce_index, consume_index, ready_count,
                             current_slot_index, flags>>
    /\ UNCHANGED <<file, locals, lock>>

readNextInternal ==
    \/ ReadEnter
    \/ ReadFastPath
    \/ LockFor(Consumer, "lock", "pred")
    \/ ReadPredicate
    \/ Block(Consumer)
    \/ LockFor(Consumer, "woken", "pred")
    \/ ReadSectionError
    \/ ReadSectionNothing
    \/ ReadSectionEmptySlot
    \/ ReadSectionCopy
    \/ ReadCopy
    \/ ReadFinish

-----------------------------------------------------------------------------
(* The owner.  A client that restarts a session has no readNext in flight. *)
pause ==
    /\ pc[Owner] = "idle"
    /\ paused' = TRUE
    /\ UNCHANGED <<ring, file, locals, lock, pc, stop_requested, producer_done,
                   producer_error, end_of_stream, started>>

resume ==
    /\ pc[Owner] = "idle"
    /\ paused' = FALSE
    /\ pc' = Notified(pc, Producer)
    /\ UNCHANGED <<ring, file, locals, lock, stop_requested, producer_done,
                   producer_error, end_of_stream, started>>

(* stop(), on its own or as the first thing start() does.                  *)
CallStop ==
    /\ starting' \in {FALSE, pc[Consumer] = "idle"}
    /\ Goto(Owner, "idle", "notify_producer")
    /\ started' = FALSE /\ paused' = FALSE /\ stop_requested' = TRUE
    /\ UNCHANGED <<ring, file, lock, claimed, call, history, producer_done,
                   producer_error, end_of_stream>>

StopJoin ==
    /\ pc[Owner] = "join" /\ pc[Producer] \in {"none", "exited"}
    /\ pc' = [pc EXCEPT ![Owner] = "reset", ![Producer] = "none"]
    /\ UNCHANGED <<ring, file, flags, locals, lock>>

StopReset ==
    /\ lock = {}
    /\ Goto(Owner, "reset", "close")
    /\ resetQueue
    /\ UNCHANGED <<file, flags, locals, lock>>

StopClose ==
    /\ Goto(Owner, "close", IF starting THEN "start" ELSE "idle")
    /\ end_of_stream' = TRUE /\ producer_done' = TRUE
    /\ stream_offset' = 0 /\ remaining_bytes' = 0
    /\ UNCHANGED <<ring, memory, locals, lock, paused, stop_requested,
                   producer_error, started>>

stop ==
    \/ CallStop
    \/ Notify(Owner, "notify_producer", "notify_consumer", Producer)
    \/ Notify(Owner, "notify_consumer", "join", Consumer)
    \/ StopJoin
    \/ StopReset
    \/ StopClose

(* The rest of start(): nobody else is in the session.  It may fail before *)
(* it changes anything (bad argument, open, size, memory).                 *)
StartFails ==
    /\ pc[Owner] = "start"
    /\ pc' = [pc EXCEPT ![Owner] = "idle"]
    /\ starting' = FALSE
    /\ UNCHANGED <<ring, file, flags, lock, claimed, call, history>>

Start ==
    /\ pc[Owner] = "start"
    /\ pc' = [pc EXCEPT ![Owner] = "idle", ![Producer] = "loop"]
    /\ starting' = FALSE
    /\ stream_offset' = 0
    /\ remaining_bytes' \in 0 .. FileBytes
    /\ paused' = FALSE /\ stop_requested' = FALSE
    /\ producer_done' = (remaining_bytes' = 0)
    /\ producer_error' = FALSE
    /\ end_of_stream' = (remaining_bytes' = 0)
    /\ started' = TRUE
    /\ resetQueue
    /\ produced' = 0 /\ complete' = (remaining_bytes' = 0) /\ delivered' = <<>>
    /\ UNCHANGED <<memory, lock, claimed, call>>

start == StartFails \/ Start

-----------------------------------------------------------------------------
Next == \/ producerLoop
        \/ CallReadNext \/ readNextInternal
        \/ pause \/ resume \/ stop \/ start
        \/ SpuriousWakeup(Producer) \/ SpuriousWakeup(Consumer)

Spec == Init /\ [][Next]_vars

(* Threads run; nobody is obliged to call anything.  The mutex is not      *)
(* assumed to be fair: a thread gets it if it stays free.                  *)
FairSpec ==
    /\ Spec
    /\ WF_vars(producerLoop)
    /\ WF_vars(readNextInternal)
    /\ WF_vars((pc[Owner] # "idle" /\ stop) \/ start)

-----------------------------------------------------------------------------
(* Properties.                                                             *)

(* Every variable stays in its type; offsets and counts stay in the file   *)
(* and in the ring.                                                        *)
TypeOK ==
    /\ slots \in [Slots -> [size : 0 .. slot_bytes, end_of_stream : BOOLEAN, ready : BOOLEAN]]
    /\ memory \in [Slots -> 0 .. FileBytes]
    /\ produce_index \in Slots /\ consume_index \in Slots
    /\ ready_count \in 0 .. slot_count
    /\ current_slot_index \in Slots \cup {None}
    /\ current_slot_offset \in 0 .. slot_bytes
    /\ stream_offset \in 0 .. FileBytes /\ remaining_bytes \in 0 .. FileBytes
    /\ {paused, stop_requested, producer_done, producer_error, end_of_stream,
        started, starting, complete} \subseteq BOOLEAN
    /\ lock \in {{}} \cup {{t} : t \in Threads}
    /\ pc \in [Threads -> ProducerLabels \cup ConsumerLabels \cup OwnerLabels]
    /\ claimed \in [slot : Slots, size : 0 .. slot_bytes, eos : BOOLEAN]
    /\ call \in [block : BOOLEAN, dest : DestBytes \cup {0}, slot : Slots,
                 offset : 0 .. slot_bytes, size : 0 .. slot_bytes]
    /\ produced \in 0 .. FileBytes
    /\ delivered \in Seq(1 .. FileBytes)

(* The producer reads into a slot outside the mutex: nobody else has that  *)
(* slot.  It is not ready, not the consumer's current slot, and not the    *)
(* one a memcpy, also outside the mutex, is reading.                       *)
Holding == pc[Producer] \in {"read", "fail", "publish"}
NoSharedSlot ==
    Holding => /\ ~slots[claimed.slot].ready
               /\ claimed.slot # current_slot_index
               /\ (pc[Consumer] \in {"copy", "finish"} => claimed.slot # call.slot)

(* While the session is started the ready slots are the ready_count slots  *)
(* from consume_index on, the next slot to fill follows them (after the    *)
(* one being filled; a failed read abandons its slot), and the current     *)
(* slot is the oldest.                                                     *)
SlotAt(k) == (consume_index + k) % slot_count
RingConsistent ==
    started =>
        /\ {i \in Slots : slots[i].ready} = {SlotAt(k) : k \in 0 .. ready_count - 1}
        /\ ~producer_error =>
              produce_index = SlotAt(ready_count + IF Holding THEN 1 ELSE 0)
        /\ Holding => ready_count < slot_count /\ claimed.slot = SlotAt(ready_count)
        /\ current_slot_index # None => current_slot_index = consume_index /\ ready_count > 0

(* The reader gets the bytes of the range once each and in order, never    *)
(* before they were read, and the session reports its end only when the    *)
(* last byte has been read and copied out.                                 *)
Stream == INSTANCE OrderedStream
              WITH Capacity <- slot_count * slot_bytes,
                   ended <- started /\ end_of_stream
ImplementsOrderedStream == Stream!Spec

(* A reader blocked in readNext while data is ready is woken: the data     *)
(* becomes ready under the mutex.                                          *)
ReadyDataWakesReader ==
    (pc[Consumer] = "waiting" /\ ready_count > 0) ~> (pc[Consumer] # "waiting")

(* A producer waiting for a slot while one is free is woken.               *)
FreeSlotWakesProducer ==
    (pc[Producer] = "waiting" /\ ready_count < slot_count) ~> (pc[Producer] # "waiting")

(* A stop that finds the producer already blocked gets through.            *)
StopWakesBlockedProducer ==
    (pc[Owner] = "notify_producer" /\ pc[Producer] = "waiting") ~> (pc[Owner] = "idle")

(* A consumer that keeps reading drains the session to its end, unless a   *)
(* read fails or the owner pauses or stops it.  In particular the loop of  *)
(* the tests, polling with tryReadNext, converges: an empty poll does not  *)
(* take the mutex, so it cannot keep the producer from it.                 *)
ReadingDrains ==
    ([]<><<CallReadNext>>_vars /\ <>[](started /\ ~paused))
        => []<>(end_of_stream \/ producer_error)

-----------------------------------------------------------------------------
(* What the design document says and the code does not do.                 *)

(* stop() returns: it interrupts every wait of the producer.               *)
StopReturns == (pc[Owner] = "join") ~> (pc[Owner] # "join")

=============================================================================
