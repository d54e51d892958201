-------------------- MODULE StreamReadSessionAsyncProofs --------------------
(***************************************************************************)
(* Theorems about StreamReadSessionAsync: the ring of slots, and the bytes *)
(* that go through it.                                                     *)
(***************************************************************************)
EXTENDS StreamReadSessionAsync, TLAPS

Labels == ProducerLabels \cup ConsumerLabels \cup OwnerLabels

(* A place of the ring and how far a slot is from the oldest one.          *)
Wrap(x) == IF x < slot_count THEN x ELSE x - slot_count
Age(i)  == IF consume_index <= i THEN i - consume_index ELSE i - consume_index + slot_count

Alive     == pc[Producer] # "none"
Exiting   == pc[Producer] \in {"exit", "exit_notify", "exited"}
Unsent    == IF pc[Producer] = "publish" THEN claimed.size ELSE 0
Published == produced - Unsent
EndOf(i)  == memory[i] + slots[i].size
Copied    == IF pc[Consumer] = "finish" THEN call.size ELSE 0

(* Who can be where while the owner stops and starts.                      *)
ControlInv ==
    /\ pc[Producer] \in ProducerLabels /\ pc[Consumer] \in ConsumerLabels
    /\ pc[Owner] \in OwnerLabels
    /\ started => Alive /\ pc[Owner] = "idle" /\ ~stop_requested
    /\ starting => pc[Consumer] = "idle" /\ pc[Owner] # "idle"
    /\ pc[Owner] = "start" => starting
    /\ pc[Owner] \in {"reset", "close", "start"} => ~Alive

(* The ready slots are the ready_count slots from consume_index on; the    *)
(* slot being filled follows them, and the one to be filled follows that.  *)
RingInv ==
    /\ \A i \in Slots : slots[i].ready <=> Age(i) < ready_count
    /\ \A i \in Slots : ~slots[i].ready => slots[i] = EmptySlot
    /\ Holding => ready_count < slot_count /\ claimed.slot = Wrap(consume_index + ready_count)
    /\ Alive /\ ~producer_error =>
          produce_index = Wrap(consume_index + ready_count + (IF Holding THEN 1 ELSE 0))
    /\ Alive /\ producer_error => Exiting

(* The current slot is the oldest; a reader outside the mutex is in it, or *)
(* the session was stopped meanwhile.                                      *)
CurrentInv ==
    /\ current_slot_index = None => current_slot_offset = 0
    /\ current_slot_index # None =>
          /\ current_slot_index = consume_index /\ ready_count > 0
          /\ current_slot_offset < slots[consume_index].size
    /\ pc[Consumer] \in {"copy", "finish"} =>
          \/ /\ current_slot_index = call.slot /\ current_slot_offset = call.offset
             /\ call.offset + call.size <= slots[call.slot].size
          \/ /\ current_slot_index = None /\ ready_count = 0 /\ ~Alive

(* The bytes in the ring follow each other in the file, from the last one  *)
(* handed out to the last one published.                                   *)
ChainInv ==
    \A i \in Slots : slots[i].ready =>
        /\ EndOf(i) <= Published
        /\ Age(i) + 1 < ready_count => memory[Wrap(i + 1)] = EndOf(i)
        /\ Age(i) + 1 = ready_count => EndOf(i) = Published
        /\ Published - EndOf(i) <= (ready_count - 1 - Age(i)) * slot_bytes
        /\ slots[i].end_of_stream => complete /\ Age(i) + 1 = ready_count /\ ~Holding
BytesInv ==
    /\ delivered = [k \in 1 .. Len(delivered) |-> k]
    /\ Len(delivered) <= produced
    /\ ready_count > 0 => memory[consume_index] + current_slot_offset + Copied = Len(delivered)
    /\ Alive /\ ready_count = 0 => Published = Len(delivered)
    /\ pc[Consumer] = "copy" => /\ memory[call.slot] + call.offset = Len(delivered)
                                /\ Len(delivered) + call.size <= produced
    /\ pc[Producer] = "publish" => memory[claimed.slot] = produced - claimed.size
    /\ Alive => stream_offset = produced /\ stream_offset + remaining_bytes <= FileBytes

(* When the last byte was read, and what the producer's flag then says.    *)
EndInv ==
    /\ pc[Producer] \in {"loop", "check_left"} =>
          (complete <=> remaining_bytes = 0) /\ (producer_done <=> remaining_bytes = 0)
    /\ pc[Producer] \in {"lock", "pred", "block", "waiting", "woken", "read"} =>
          ~complete /\ remaining_bytes > 0 /\ ~producer_done
    /\ pc[Producer] \in {"publish", "notify_ready"} =>
          (complete <=> claimed.eos) /\ (remaining_bytes = 0 => complete) /\ ~producer_done
    /\ pc[Producer] = "fail" => ~producer_done
    /\ pc[Producer] \in {"notify_left", "set_done", "notify_done"} => complete
    /\ started /\ Exiting /\ ~producer_error => complete

IInv == TypeOK /\ ControlInv /\ RingInv /\ CurrentInv /\ ChainInv /\ BytesInv /\ EndInv

-----------------------------------------------------------------------------
(* Places of the ring.                                                     *)
LEMMA WrapMod ==
    ASSUME NEW x \in 0 .. 2 * slot_count - 1
    PROVE  x % slot_count = Wrap(x) /\ Wrap(x) \in Slots
<1>1. slot_count \in Nat \ {0}  BY SizesAssumption
<1>2. CASE x < slot_count  BY <1>1, <1>2 DEF Wrap, Slots
<1>3. CASE slot_count <= x  BY <1>1, <1>3 DEF Wrap, Slots
<1> QED  BY <1>1, <1>2, <1>3

LEMMA WrapNext ==
    ASSUME NEW c \in Slots, NEW r \in Slots
    PROVE  Wrap(Wrap(c + r) + 1) = Wrap(c + r + 1)
<1>1. slot_count \in Nat \ {0}  BY SizesAssumption
<1>2. CASE c + r < slot_count  BY <1>1, <1>2 DEF Wrap, Slots
<1>3. CASE slot_count <= c + r  BY <1>1, <1>3 DEF Wrap, Slots
<1> QED  BY <1>1, <1>2, <1>3 DEF Slots

LEMMA Product ==
    ASSUME NEW a \in Int, NEW b \in Int, a <= b
    PROVE  /\ a * slot_bytes \in Int /\ a * slot_bytes <= b * slot_bytes
           /\ (a + 1) * slot_bytes = a * slot_bytes + slot_bytes
BY SizesAssumption

-----------------------------------------------------------------------------
(* A thread moves on; another one that waits may be woken.                 *)
Step(self, from, to) ==
    /\ pc[self] = from /\ pc'[self] = to
    /\ \A t \in Threads \ {self} :
          pc'[t] = pc[t] \/ (pc[t] = "waiting" /\ pc'[t] = "woken")
    /\ pc' \in [Threads -> Labels]

LEMMA GotoStep ==
    ASSUME TypeOK, NEW t \in Threads, NEW from, NEW to \in Labels, Goto(t, from, to)
    PROVE  Step(t, from, to)
BY DEF TypeOK, Goto, Step, Labels

LEMMA NotifiedStep ==
    ASSUME TypeOK, NEW self \in Threads, NEW to \in Labels, NEW t \in Threads, t # self,
           pc' = Notified([pc EXCEPT ![self] = to], t)
    PROVE  Step(self, pc[self], to)
<1> DEFINE f == [pc EXCEPT ![self] = to]
<1>1. /\ f \in [Threads -> Labels] /\ f[self] = to
      /\ \A u \in Threads \ {self} : f[u] = pc[u]
  BY DEF TypeOK, Labels
<1>2. pc' = IF f[t] = "waiting" THEN [f EXCEPT ![t] = "woken"] ELSE f  BY DEF Notified
<1> HIDE DEF f
<1>3. "woken" \in Labels  BY DEF Labels, ProducerLabels
<1>4. CASE f[t] = "waiting"  BY <1>1, <1>2, <1>3, <1>4 DEF Step
<1>5. CASE f[t] # "waiting"  BY <1>1, <1>2, <1>5 DEF Step
<1> QED  BY <1>4, <1>5

-----------------------------------------------------------------------------
(* What a step leaves alone of where the producer and the consumer stand.  *)
SamePhase ==
    /\ Holding' <=> Holding
    /\ Alive' => Alive
    /\ pc'[Producer] = "publish" <=> pc[Producer] = "publish"
    /\ pc'[Consumer] = "copy" <=> pc[Consumer] = "copy"
    /\ pc'[Consumer] = "finish" <=> pc[Consumer] = "finish"
    /\ Exiting => Exiting' \/ ~Alive'

LEMMA QuietStep ==
    ASSUME IInv, SamePhase, UNCHANGED <<ring, file, history, claimed, producer_error>>,
           call' = call \/ pc[Consumer] \notin {"copy", "finish"}
    PROVE  RingInv' /\ CurrentInv' /\ ChainInv' /\ BytesInv'
<1> USE DEF IInv, SamePhase, ring, file, history
<1>1. Unsent' = Unsent /\ Published' = Published  BY DEF Unsent, Published
<1>2. Copied' = Copied  BY DEF Copied
<1>3. /\ \A i : Age(i)' = Age(i) /\ EndOf(i)' = EndOf(i)
      /\ \A x : Wrap(x)' = Wrap(x)
  BY DEF Age, EndOf, Wrap
<1>4. RingInv'  BY <1>3 DEF RingInv, Age, Wrap
<1>5. CurrentInv'  BY DEF CurrentInv
<1>6. ChainInv'  BY <1>1, <1>3 DEF ChainInv, EndOf, Age, Wrap
<1>7. BytesInv'  BY <1>1, <1>2 DEF BytesInv
<1> QED  BY <1>4, <1>5, <1>6, <1>7

-----------------------------------------------------------------------------
(* A step of the producer, the consumer or the owner that leaves the ring, *)
(* the file and the history alone.                                         *)
Rest == <<ring, file, history, claimed, producer_error>>

LEMMA ProducerQuietStep ==
    ASSUME IInv, NEW from, NEW to \in ProducerLabels \ {"none"}, Step(Producer, from, to),
           from # "none", from = "publish" <=> to = "publish",
           from \in {"read", "fail", "publish"} <=> to \in {"read", "fail", "publish"},
           from \in {"exit", "exit_notify", "exited"}
               => to \in {"exit", "exit_notify", "exited"},
           UNCHANGED <<Rest, call, starting, started, stop_requested, paused, end_of_stream>>,
           producer_done' \in BOOLEAN, lock' \in {{}} \cup {{t} : t \in Threads}, EndInv'
    PROVE  IInv'
<1> USE DEF Rest, ring, file, history
<1>1. TypeOK'  BY DEF IInv, TypeOK, Step, Labels
<1>2. ControlInv'
  BY ThreadsAssumption DEF IInv, ControlInv, Step, Threads, Alive, ProducerLabels, OwnerLabels,
     ConsumerLabels
<1>3. SamePhase
  BY ThreadsAssumption DEF SamePhase, Step, Threads, Alive, Holding, Exiting
<1>4. RingInv' /\ CurrentInv' /\ ChainInv' /\ BytesInv'  BY <1>3, QuietStep
<1> QED  BY <1>1, <1>2, <1>4 DEF IInv

LEMMA ConsumerQuietStep ==
    ASSUME IInv, NEW from \in ConsumerLabels \ {"copy", "finish"},
           NEW to \in ConsumerLabels \ {"copy", "finish"}, Step(Consumer, from, to),
           ~starting,
           UNCHANGED <<Rest, starting, started, stop_requested, paused, producer_done>>,
           call' \in [block : BOOLEAN, dest : DestBytes \cup {0}, slot : Slots,
                      offset : 0 .. slot_bytes, size : 0 .. slot_bytes],
           end_of_stream' \in BOOLEAN, lock' \in {{}} \cup {{t} : t \in Threads}
    PROVE  IInv'
<1> USE DEF Rest, ring, file, history
<1>1. TypeOK'  BY DEF IInv, TypeOK, Step, Labels
<1>2. ControlInv'
  BY ThreadsAssumption DEF IInv, ControlInv, Step, Threads, Alive, ProducerLabels, OwnerLabels
<1>3. SamePhase
  BY ThreadsAssumption DEF SamePhase, Step, Threads, Alive, Holding, Exiting
<1>4. RingInv' /\ CurrentInv' /\ ChainInv' /\ BytesInv'  BY <1>3, QuietStep DEF Step
<1>5. EndInv'
  BY ThreadsAssumption DEF IInv, EndInv, Step, Threads, Exiting
<1> QED  BY <1>1, <1>2, <1>4, <1>5 DEF IInv

LEMMA OwnerQuietStep ==
    ASSUME IInv, UNCHANGED <<Rest, call, lock, producer_done, end_of_stream>>,
           pc' \in [Threads -> Labels],
           \/ pc'[Producer] = pc[Producer]
           \/ pc[Producer] = "waiting" /\ pc'[Producer] = "woken"
           \/ pc[Producer] \in {"none", "exited"} /\ pc'[Producer] = "none",
           \/ pc'[Consumer] = pc[Consumer]
           \/ pc[Consumer] = "waiting" /\ pc'[Consumer] = "woken",
           {paused', stop_requested', started', starting'} \subseteq BOOLEAN,
           started' => started, ControlInv'
    PROVE  IInv'
<1> USE DEF Rest, ring, file, history
<1>1. TypeOK'  BY DEF IInv, TypeOK, Labels
<1>2. SamePhase  BY DEF SamePhase, Alive, Holding, Exiting
<1>3. RingInv' /\ CurrentInv' /\ ChainInv' /\ BytesInv'  BY <1>2, QuietStep
<1>4. EndInv'  BY DEF IInv, EndInv, Exiting
<1> QED  BY <1>1, <1>3, <1>4 DEF IInv

-----------------------------------------------------------------------------
(* The quiet steps.                                                        *)
LEMMA InitIInv == Init => IInv
<1> SUFFICES ASSUME Init PROVE IInv  OBVIOUS
<1> USE SizesAssumption, ThreadsAssumption DEF Init
<1>1. TypeOK
  <2>1. pc \in [Threads -> ProducerLabels \cup ConsumerLabels \cup OwnerLabels]
    BY DEF Threads, ProducerLabels, ConsumerLabels
  <2>2. 0 \in Slots  BY DEF Slots
  <2>3. delivered \in Seq(1 .. FileBytes)  OBVIOUS
  <2>4. slots \in [Slots -> [size : 0 .. slot_bytes, end_of_stream : BOOLEAN, ready : BOOLEAN]]
    BY DEF EmptySlot
  <2>5. claimed \in [slot : Slots, size : 0 .. slot_bytes, eos : BOOLEAN]  BY <2>2
  <2>6. call \in [block : BOOLEAN, dest : DestBytes \cup {0}, slot : Slots,
                  offset : 0 .. slot_bytes, size : 0 .. slot_bytes]  BY <2>2
  <2>7. lock \in {{}} \cup {{t} : t \in Threads}  OBVIOUS
  <2>8. {paused, stop_requested, producer_done, producer_error, end_of_stream,
         started, starting, complete} \subseteq BOOLEAN  OBVIOUS
  <2>9. memory \in [Slots -> 0 .. FileBytes]  OBVIOUS
  <2> QED  BY <2>1, <2>2, <2>3, <2>4, <2>5, <2>6, <2>7, <2>8, <2>9 DEF TypeOK
<1>2. ControlInv
  BY DEF ControlInv, Threads, Alive, ProducerLabels, ConsumerLabels, OwnerLabels
<1>3. RingInv  BY DEF RingInv, Age, Slots, EmptySlot, Holding, Alive, Threads
<1>4. CurrentInv  BY DEF CurrentInv, None, Threads
<1>5. ChainInv  BY DEF ChainInv, EmptySlot
<1>6. BytesInv  BY DEF BytesInv, Alive, Threads
<1>7. EndInv  BY DEF EndInv, Threads
<1> QED  BY <1>1, <1>2, <1>3, <1>4, <1>5, <1>6, <1>7 DEF IInv

QuietProducer ==
    \/ ProducerLoop
    \/ ProducerCheckLeft
    \/ Notify(Producer, "notify_left", "exit", Consumer)
    \/ LockFor(Producer, "lock", "pred")
    \/ ~(~stop_requested /\ ready_count < slot_count) /\ ProducerPredicate
    \/ Block(Producer)
    \/ LockFor(Producer, "woken", "pred")
    \/ ProducerReadFails
    \/ Notify(Producer, "notify_ready", IF claimed.eos THEN "set_done" ELSE "loop", Consumer)
    \/ ProducerSetDone("set_done", "notify_done")
    \/ Notify(Producer, "notify_done", "exit", Consumer)
    \/ ProducerSetDone("exit", "exit_notify")
    \/ ProducerExit
    \/ SpuriousWakeup(Producer)

LEMMA ProducerQuiet == ASSUME IInv, QuietProducer PROVE IInv'
<1> USE DEF Rest, ring, file, history, locals, flags
<1>t. TypeOK /\ EndInv /\ ControlInv  BY DEF IInv
<1>l. lock' \in {{}} \cup {{t} : t \in Threads}
  BY <1>t DEF TypeOK, QuietProducer, ProducerLoop, ProducerCheckLeft, Notify, LockFor, Acquire,
     Release, ProducerPredicate, Block, ProducerReadFails, ProducerSetDone, ProducerExit,
     SpuriousWakeup, Threads, ClaimSlot
<1>0. Producer \in Threads /\ Consumer \in Threads /\ Producer # Consumer
  BY ThreadsAssumption DEF Threads
<1>1. ASSUME ProducerLoop PROVE IInv'
  <2>1. PICK to : to = IF stop_requested THEN "exit" ELSE "check_left"  OBVIOUS
  <2>2. to \in Labels /\ Step(Producer, "loop", to)
    BY <1>0, <1>1, <1>t, <2>1, GotoStep DEF ProducerLoop, Labels, ProducerLabels
  <2>3. EndInv'
    BY <1>0, <1>1, <1>t, <2>1, <2>2 DEF Step, EndInv, Exiting, ProducerLoop, ControlInv
  <2> QED  BY <1>1, <1>t, <1>l, <2>1, <2>2, <2>3, ProducerQuietStep
             DEF ProducerLoop, ProducerLabels, TypeOK
<1>2. ASSUME ProducerCheckLeft PROVE IInv'
  <2>1. PICK to : to = IF paused THEN "loop" ELSE IF remaining_bytes = 0 THEN "notify_left"
                       ELSE "lock"  OBVIOUS
  <2>2. to \in Labels /\ Step(Producer, "check_left", to)
    BY <1>0, <1>2, <1>t, <2>1, GotoStep DEF ProducerCheckLeft, Labels, ProducerLabels
  <2>3. EndInv'
    BY <1>0, <1>2, <1>t, <2>1, <2>2 DEF Step, EndInv, Exiting, ProducerCheckLeft, TypeOK
  <2> QED  BY <1>2, <1>t, <1>l, <2>1, <2>2, <2>3, ProducerQuietStep
             DEF ProducerCheckLeft, ProducerLabels, TypeOK
<1>3. ASSUME Notify(Producer, "notify_left", "exit", Consumer) PROVE IInv'
  <2>1. Step(Producer, "notify_left", "exit")
    BY <1>0, <1>3, <1>t, NotifiedStep DEF Notify, Labels, ProducerLabels
  <2>2. EndInv'
    BY <1>0, <1>3, <1>t, <2>1 DEF Step, EndInv, Exiting, Notify, ControlInv
  <2> QED  BY <1>3, <1>t, <1>l, <2>1, <2>2, ProducerQuietStep DEF Notify, ProducerLabels, TypeOK
<1>4. ASSUME LockFor(Producer, "lock", "pred") PROVE IInv'
  <2>1. Step(Producer, "lock", "pred")
    BY <1>0, <1>4, <1>t, GotoStep DEF LockFor, Labels, ProducerLabels
  <2>2. EndInv'
    BY <1>0, <1>4, <1>t, <2>1 DEF Step, EndInv, Exiting, LockFor, ControlInv
  <2> QED  BY <1>4, <1>t, <1>l, <2>1, <2>2, ProducerQuietStep DEF LockFor, ProducerLabels, TypeOK
<1>5. ASSUME ~stop_requested /\ ready_count >= slot_count, ProducerPredicate PROVE IInv'
  <2>a. ready_count \in Int /\ slot_count \in Int  BY <1>t, SizesAssumption DEF TypeOK
  <2>b. ~(ready_count < slot_count)  BY <2>a, <1>5
  <2>2. Goto(Producer, "pred", "block") /\ UNCHANGED <<ring, file, flags, locals>>
    BY <2>b, <1>5 DEF ProducerPredicate
  <2>1. Step(Producer, "pred", "block")
    BY <1>0, <1>t, <2>2, GotoStep DEF Labels, ProducerLabels
  <2>3. EndInv'
    BY <1>0, <1>t, <2>1, <2>2 DEF Step, EndInv, Exiting
  <2> QED  BY <1>t, <1>l, <2>1, <2>2, <2>3, ProducerQuietStep DEF ProducerLabels, TypeOK
<1>6. ASSUME stop_requested, ProducerPredicate PROVE IInv'
  <2>1. Step(Producer, "pred", "exit")
    BY <1>0, <1>6, <1>t, GotoStep DEF ProducerPredicate, Labels, ProducerLabels
  <2>2. UNCHANGED <<ring, file, flags, locals>>
    BY <1>6 DEF ProducerPredicate
  <2>3. EndInv'
    BY <1>0, <1>6, <1>t, <2>1, <2>2 DEF Step, EndInv, Exiting, ControlInv
  <2> QED  BY <1>t, <1>l, <2>1, <2>2, <2>3, ProducerQuietStep DEF ProducerLabels, TypeOK
<1>7. ASSUME Block(Producer) PROVE IInv'
  <2>1. Step(Producer, "block", "waiting")
    BY <1>0, <1>7, <1>t, GotoStep DEF Block, Labels, ProducerLabels
  <2>2. EndInv'
    BY <1>0, <1>7, <1>t, <2>1 DEF Step, EndInv, Exiting, Block, ControlInv
  <2> QED  BY <1>7, <1>t, <1>l, <2>1, <2>2, ProducerQuietStep DEF Block, ProducerLabels, TypeOK
<1>8. ASSUME LockFor(Producer, "woken", "pred") PROVE IInv'
  <2>1. Step(Producer, "woken", "pred")
    BY <1>0, <1>8, <1>t, GotoStep DEF LockFor, Labels, ProducerLabels
  <2>2. EndInv'
    BY <1>0, <1>8, <1>t, <2>1 DEF Step, EndInv, Exiting, LockFor, ControlInv
  <2> QED  BY <1>8, <1>t, <1>l, <2>1, <2>2, ProducerQuietStep DEF LockFor, ProducerLabels, TypeOK
<1>9. ASSUME ProducerReadFails PROVE IInv'
  <2>1. Step(Producer, "read", "fail")
    BY <1>0, <1>9, <1>t, GotoStep DEF ProducerReadFails, Labels, ProducerLabels
  <2>2. EndInv'
    BY <1>0, <1>9, <1>t, <2>1 DEF Step, EndInv, Exiting, ProducerReadFails, ControlInv
  <2> QED  BY <1>9, <1>t, <1>l, <2>1, <2>2, ProducerQuietStep DEF ProducerReadFails, ProducerLabels, TypeOK
<1>10. ASSUME Notify(Producer, "notify_ready", IF claimed.eos THEN "set_done" ELSE "loop", Consumer)
      PROVE IInv'
  <2>1. PICK to : to = IF claimed.eos THEN "set_done" ELSE "loop"  OBVIOUS
  <2>2. to \in Labels /\ Step(Producer, "notify_ready", to)
    BY <1>0, <1>10, <1>t, <2>1, NotifiedStep DEF Notify, Labels, ProducerLabels
  <2>3. EndInv'
    BY <1>0, <1>10, <1>t, <2>1, <2>2 DEF Step, EndInv, Exiting, Notify, TypeOK
  <2> QED  BY <1>10, <1>t, <1>l, <2>1, <2>2, <2>3, ProducerQuietStep
             DEF Notify, ProducerLabels, TypeOK
<1>11. ASSUME ProducerSetDone("set_done", "notify_done") PROVE IInv'
  <2>1. Step(Producer, "set_done", "notify_done")
    BY <1>0, <1>11, <1>t, GotoStep DEF ProducerSetDone, Labels, ProducerLabels
  <2>2. EndInv'
    BY <1>0, <1>11, <1>t, <2>1 DEF Step, EndInv, Exiting, ProducerSetDone, ControlInv
  <2> QED  BY <1>11, <1>t, <1>l, <2>1, <2>2, ProducerQuietStep DEF ProducerSetDone, ProducerLabels, TypeOK
<1>12. ASSUME Notify(Producer, "notify_done", "exit", Consumer) PROVE IInv'
  <2>1. Step(Producer, "notify_done", "exit")
    BY <1>0, <1>12, <1>t, NotifiedStep DEF Notify, Labels, ProducerLabels
  <2>2. EndInv'
    BY <1>0, <1>12, <1>t, <2>1 DEF Step, EndInv, Exiting, Notify, ControlInv
  <2> QED  BY <1>12, <1>t, <1>l, <2>1, <2>2, ProducerQuietStep DEF Notify, ProducerLabels, TypeOK
<1>13. ASSUME ProducerSetDone("exit", "exit_notify") PROVE IInv'
  <2>1. Step(Producer, "exit", "exit_notify")
    BY <1>0, <1>13, <1>t, GotoStep DEF ProducerSetDone, Labels, ProducerLabels
  <2>2. EndInv'
    BY <1>0, <1>13, <1>t, <2>1 DEF Step, EndInv, Exiting, ProducerSetDone, ControlInv
  <2> QED  BY <1>13, <1>t, <1>l, <2>1, <2>2, ProducerQuietStep DEF ProducerSetDone, ProducerLabels, TypeOK
<1>14. ASSUME ProducerExit PROVE IInv'
  <2>1. Step(Producer, "exit_notify", "exited")
    BY <1>0, <1>14, <1>t, NotifiedStep DEF ProducerExit, Labels, ProducerLabels
  <2>2. EndInv'
    BY <1>0, <1>14, <1>t, <2>1 DEF Step, EndInv, Exiting, ProducerExit, ControlInv
  <2> QED  BY <1>14, <1>t, <1>l, <2>1, <2>2, ProducerQuietStep DEF ProducerExit, ProducerLabels, TypeOK
<1>15. ASSUME SpuriousWakeup(Producer) PROVE IInv'
  <2>1. Step(Producer, "waiting", "woken")
    BY <1>0, <1>15, <1>t, GotoStep DEF SpuriousWakeup, Labels, ProducerLabels
  <2>2. EndInv'
    BY <1>0, <1>15, <1>t, <2>1 DEF Step, EndInv, Exiting, SpuriousWakeup, ControlInv
  <2> QED  BY <1>15, <1>t, <1>l, <2>1, <2>2, ProducerQuietStep DEF SpuriousWakeup, ProducerLabels, TypeOK
<1> QED
  BY <1>1, <1>2, <1>3, <1>4, <1>5, <1>6, <1>7, <1>8, <1>9, <1>10, <1>11, <1>12, <1>13, <1>14,
     <1>15, <1>t, SizesAssumption DEF QuietProducer, TypeOK

QuietConsumer ==
    \/ CallReadNext
    \/ ReadEnter
    \/ ReadFastPath
    \/ LockFor(Consumer, "lock", "pred")
    \/ ReadPredicate
    \/ Block(Consumer)
    \/ LockFor(Consumer, "woken", "pred")
    \/ ReadSectionError
    \/ ReadSectionNothing
    \/ SpuriousWakeup(Consumer)

LEMMA ConsumerQuiet == ASSUME IInv, QuietConsumer PROVE IInv'
<1> USE DEF Rest, ring, file, history, locals, flags
<1>t. TypeOK /\ ControlInv  BY DEF IInv
<1>l. lock' \in {{}} \cup {{t} : t \in Threads}
  BY <1>t DEF TypeOK, QuietConsumer, CallReadNext, ReadEnter, ReadFastPath, LockFor, Acquire,
     Release, ReadPredicate, Block, ReadSectionError, ReadSectionNothing, SpuriousWakeup, Threads
<1>0. Consumer \in Threads  BY DEF Threads
<1>c. call' \in [block : BOOLEAN, dest : DestBytes \cup {0}, slot : Slots,
                 offset : 0 .. slot_bytes, size : 0 .. slot_bytes]
  <2>1. CASE CallReadNext  BY <2>1, SizesAssumption DEF CallReadNext, Slots
  <2> QED  BY <2>1, <1>t DEF TypeOK, QuietConsumer, ReadEnter, ReadFastPath, LockFor,
     ReadPredicate, Block, ReadSectionError, ReadSectionNothing, SpuriousWakeup
<1>s. ASSUME pc[Consumer] # "idle" PROVE ~starting  BY <1>s, <1>t DEF ControlInv, TypeOK
<1>1. ASSUME CallReadNext PROVE IInv'
  <2>1. Step(Consumer, "idle", "enter")
    BY <1>0, <1>1, <1>t, GotoStep DEF CallReadNext, Labels, ConsumerLabels
  <2> QED  BY <1>1, <1>t, <1>l, <1>c, <2>1, ConsumerQuietStep
             DEF CallReadNext, ConsumerLabels, TypeOK
<1>2. ASSUME ReadEnter PROVE IInv'
  <2>1. PICK to : to = IF ~started \/ paused THEN "idle"
                       ELSE IF call.block THEN "lock" ELSE "fast"  OBVIOUS
  <2>2. Step(Consumer, "enter", to)
    BY <1>0, <1>2, <1>t, <2>1, GotoStep DEF ReadEnter, Labels, ConsumerLabels
  <2> QED  BY <1>2, <1>t, <1>l, <1>c, <1>s, <2>1, <2>2, ConsumerQuietStep
             DEF ReadEnter, ConsumerLabels, TypeOK, Step
<1>3. ASSUME ReadFastPath PROVE IInv'
  <2>1. PICK to : to = IF /\ current_slot_index = None /\ ready_count = 0
                          /\ ~producer_done /\ ~producer_error
                       THEN "idle" ELSE "lock"  OBVIOUS
  <2>2. Step(Consumer, "fast", to)
    BY <1>0, <1>3, <1>t, <2>1, GotoStep DEF ReadFastPath, Labels, ConsumerLabels
  <2> QED  BY <1>3, <1>t, <1>l, <1>c, <1>s, <2>1, <2>2, ConsumerQuietStep
             DEF ReadFastPath, ConsumerLabels, TypeOK, Step
<1>5. ASSUME ReadPredicate PROVE IInv'
  <2>1. PICK to : to = IF \/ ~call.block
                          \/ stop_requested \/ producer_error \/ producer_done
                          \/ current_slot_index # None \/ ready_count > 0
                       THEN "section" ELSE "block"  OBVIOUS
  <2>2. Step(Consumer, "pred", to)
    BY <1>0, <1>5, <1>t, <2>1, GotoStep DEF ReadPredicate, Labels, ConsumerLabels
  <2> QED  BY <1>5, <1>t, <1>l, <1>c, <1>s, <2>1, <2>2, ConsumerQuietStep
             DEF ReadPredicate, ConsumerLabels, TypeOK, Step
<1>4. ASSUME LockFor(Consumer, "lock", "pred") PROVE IInv'
  <2>1. Step(Consumer, "lock", "pred")
    BY <1>0, <1>4, <1>t, GotoStep DEF LockFor, Labels, ConsumerLabels
  <2> QED  BY <1>4, <1>t, <1>l, <1>c, <1>s, <2>1, ConsumerQuietStep
             DEF LockFor, ConsumerLabels, TypeOK, Step
<1>6. ASSUME Block(Consumer) PROVE IInv'
  <2>1. Step(Consumer, "block", "waiting")
    BY <1>0, <1>6, <1>t, GotoStep DEF Block, Labels, ConsumerLabels
  <2> QED  BY <1>6, <1>t, <1>l, <1>c, <1>s, <2>1, ConsumerQuietStep
             DEF Block, ConsumerLabels, TypeOK, Step
<1>7. ASSUME LockFor(Consumer, "woken", "pred") PROVE IInv'
  <2>1. Step(Consumer, "woken", "pred")
    BY <1>0, <1>7, <1>t, GotoStep DEF LockFor, Labels, ConsumerLabels
  <2> QED  BY <1>7, <1>t, <1>l, <1>c, <1>s, <2>1, ConsumerQuietStep
             DEF LockFor, ConsumerLabels, TypeOK, Step
<1>8. ASSUME ReadSectionError PROVE IInv'
  <2>1. Step(Consumer, "section", "idle")
    BY <1>0, <1>8, <1>t, GotoStep DEF ReadSectionError, Labels, ConsumerLabels
  <2> QED  BY <1>8, <1>t, <1>l, <1>c, <1>s, <2>1, ConsumerQuietStep
             DEF ReadSectionError, ConsumerLabels, TypeOK, Step
<1>9. ASSUME ReadSectionNothing PROVE IInv'
  <2>1. Step(Consumer, "section", "idle")
    BY <1>0, <1>9, <1>t, GotoStep DEF ReadSectionNothing, Labels, ConsumerLabels
  <2> QED  BY <1>9, <1>t, <1>l, <1>c, <1>s, <2>1, ConsumerQuietStep
             DEF ReadSectionNothing, ConsumerLabels, TypeOK, Step
<1>10. ASSUME SpuriousWakeup(Consumer) PROVE IInv'
  <2>1. Step(Consumer, "waiting", "woken")
    BY <1>0, <1>10, <1>t, GotoStep DEF SpuriousWakeup, Labels, ConsumerLabels
  <2> QED  BY <1>10, <1>t, <1>l, <1>c, <1>s, <2>1, ConsumerQuietStep
             DEF SpuriousWakeup, ConsumerLabels, TypeOK, Step
<1> QED
  BY <1>1, <1>2, <1>3, <1>4, <1>5, <1>6, <1>7, <1>8, <1>9, <1>10 DEF QuietConsumer

QuietOwner ==
    \/ pause \/ resume \/ CallStop \/ StartFails \/ StopJoin
    \/ Notify(Owner, "notify_producer", "notify_consumer", Producer)
    \/ Notify(Owner, "notify_consumer", "join", Consumer)

LEMMA OwnerQuiet == ASSUME IInv, QuietOwner PROVE IInv'
<1> USE DEF Rest, ring, file, history, locals, flags
<1>t. TypeOK /\ ControlInv  BY DEF IInv
<1>0. Producer \in Threads /\ Consumer \in Threads /\ Owner \in Threads /\ Producer # Consumer
      /\ Producer # Owner /\ Consumer # Owner
  BY ThreadsAssumption DEF Threads
<1>1. ASSUME pause PROVE IInv'
  <2>1. ControlInv'  BY <1>1, <1>t DEF pause, ControlInv, Alive
  <2> QED  BY <1>1, <1>t, <2>1, OwnerQuietStep DEF pause, TypeOK, Labels
<1>2. ASSUME resume PROVE IInv'
  <2>1. /\ pc' \in [Threads -> Labels] /\ pc'[Consumer] = pc[Consumer] /\ pc'[Owner] = pc[Owner]
        /\ \/ pc'[Producer] = pc[Producer]
           \/ pc[Producer] = "waiting" /\ pc'[Producer] = "woken"
    BY <1>0, <1>2, <1>t DEF resume, Notified, TypeOK, Labels, ProducerLabels
  <2>2. ControlInv'  BY <1>2, <1>t, <2>1 DEF resume, ControlInv, Alive, ProducerLabels
  <2> QED  BY <1>2, <1>t, <2>1, <2>2, OwnerQuietStep DEF resume, TypeOK
<1>3. ASSUME CallStop PROVE IInv'
  <2>1. Step(Owner, "idle", "notify_producer")
    BY <1>0, <1>3, <1>t, GotoStep DEF CallStop, Labels, OwnerLabels
  <2>3. pc'[Producer] = pc[Producer] /\ pc'[Consumer] = pc[Consumer]
    BY <1>0, <1>3, <1>t DEF CallStop, Goto, TypeOK
  <2>2. ControlInv'
    BY <1>0, <1>3, <1>t, <2>1, <2>3 DEF CallStop, ControlInv, Alive, OwnerLabels, Step
  <2> QED  BY <1>3, <1>t, <2>1, <2>2, <2>3, OwnerQuietStep DEF CallStop, TypeOK, Step
<1>4. ASSUME StartFails PROVE IInv'
  <2>1. /\ pc' \in [Threads -> Labels] /\ pc'[Owner] = "idle"
        /\ pc'[Producer] = pc[Producer] /\ pc'[Consumer] = pc[Consumer]
    BY <1>0, <1>4, <1>t DEF StartFails, TypeOK, Labels, OwnerLabels
  <2>2. ControlInv'  BY <1>4, <1>t, <2>1 DEF StartFails, ControlInv, Alive, OwnerLabels
  <2> QED  BY <1>4, <1>t, <2>1, <2>2, OwnerQuietStep DEF StartFails, TypeOK
<1>5. ASSUME StopJoin PROVE IInv'
  <2>1. /\ pc' \in [Threads -> Labels] /\ pc'[Owner] = "reset"
        /\ pc'[Producer] = "none" /\ pc'[Consumer] = pc[Consumer]
    BY <1>0, <1>5, <1>t DEF StopJoin, TypeOK, Labels, OwnerLabels, ProducerLabels
  <2>2. ControlInv'
    BY <1>5, <1>t, <2>1 DEF StopJoin, ControlInv, Alive, OwnerLabels, ProducerLabels
  <2> QED  BY <1>5, <1>t, <2>1, <2>2, OwnerQuietStep DEF StopJoin, TypeOK
<1>6. ASSUME Notify(Owner, "notify_producer", "notify_consumer", Producer) PROVE IInv'
  <2>1. Step(Owner, "notify_producer", "notify_consumer")
    BY <1>0, <1>6, <1>t, NotifiedStep DEF Notify, Labels, OwnerLabels
  <2>2. ControlInv'
    BY <1>0, <1>6, <1>t, <2>1 DEF Notify, ControlInv, Alive, OwnerLabels, ProducerLabels,
       ConsumerLabels, Step
  <2> QED  BY <1>0, <1>6, <1>t, <2>1, <2>2, OwnerQuietStep DEF Notify, TypeOK, Step
<1>7. ASSUME Notify(Owner, "notify_consumer", "join", Consumer) PROVE IInv'
  <2>1. Step(Owner, "notify_consumer", "join")
    BY <1>0, <1>7, <1>t, NotifiedStep DEF Notify, Labels, OwnerLabels
  <2>2. ControlInv'
    BY <1>0, <1>7, <1>t, <2>1 DEF Notify, ControlInv, Alive, OwnerLabels, ProducerLabels,
       ConsumerLabels, Step
  <2> QED  BY <1>0, <1>7, <1>t, <2>1, <2>2, OwnerQuietStep DEF Notify, TypeOK, Step
<1> QED  BY <1>1, <1>2, <1>3, <1>4, <1>5, <1>6, <1>7 DEF QuietOwner

-----------------------------------------------------------------------------
(* The owner's steps that empty the ring: the producer has been joined, or *)
(* is not there yet.                                                       *)
LEMMA ResetRing ==
    ASSUME TypeOK, resetQueue
    PROVE  /\ \A i \in Slots : slots'[i] = EmptySlot
           /\ slots' \in [Slots -> [size : 0 .. slot_bytes, end_of_stream : BOOLEAN,
                                    ready : BOOLEAN]]
           /\ 0 \in Slots /\ ready_count' = 0 /\ consume_index' = 0 /\ produce_index' = 0
           /\ current_slot_index' = None /\ current_slot_offset' = 0
BY SizesAssumption DEF resetQueue, EmptySlot, Slots

LEMMA StopResetStep == ASSUME IInv, StopReset PROVE IInv'
<1> USE DEF file, history, locals, flags
<1>t. TypeOK /\ ControlInv  BY DEF IInv
<1>0. Producer \in Threads /\ Consumer \in Threads /\ Owner \in Threads /\ Producer # Consumer
      /\ Producer # Owner /\ Consumer # Owner
  BY ThreadsAssumption DEF Threads
<1>1. /\ pc' \in [Threads -> Labels] /\ pc[Owner] = "reset" /\ pc'[Owner] = "close"
      /\ pc'[Producer] = pc[Producer] /\ pc'[Consumer] = pc[Consumer]
  BY <1>0, <1>t DEF StopReset, Goto, TypeOK, Labels, OwnerLabels
<1>2. pc[Producer] = "none"  BY <1>1, <1>t DEF ControlInv, Alive
<1>r. /\ \A i \in Slots : slots'[i] = EmptySlot
      /\ slots' \in [Slots -> [size : 0 .. slot_bytes, end_of_stream : BOOLEAN,
                               ready : BOOLEAN]]
      /\ 0 \in Slots /\ ready_count' = 0 /\ consume_index' = 0 /\ produce_index' = 0
      /\ current_slot_index' = None /\ current_slot_offset' = 0
  BY <1>t, ResetRing DEF StopReset
<1>u. UNCHANGED <<file, flags, locals, lock>>  BY DEF StopReset
<1>3. TypeOK'
  <2>1. 0 \in 0 .. slot_count /\ 0 \in 0 .. slot_bytes  BY SizesAssumption
  <2> QED  BY <1>1, <1>r, <1>t, <1>u, <2>1 DEF TypeOK, Labels
<1>4. ControlInv'  BY <1>1, <1>t DEF ControlInv, StopReset, Alive, OwnerLabels
<1>5. RingInv'
  BY <1>1, <1>2, <1>r, SizesAssumption DEF RingInv, Age, Slots, EmptySlot, Holding, Alive
<1>6. CurrentInv'  BY <1>1, <1>2, <1>r DEF CurrentInv, Alive
<1>7. ChainInv'  BY <1>r DEF ChainInv, EmptySlot
<1>8. BytesInv'  BY <1>1, <1>2, <1>r, <1>t DEF IInv, BytesInv, Alive, StopReset
<1>9. EndInv'  BY <1>1, <1>2 DEF EndInv, Exiting
<1> QED  BY <1>3, <1>4, <1>5, <1>6, <1>7, <1>8, <1>9 DEF IInv

LEMMA StopCloseStep == ASSUME IInv, StopClose PROVE IInv'
<1> USE DEF ring, history, locals
<1>t. TypeOK /\ ControlInv  BY DEF IInv
<1>0. Producer \in Threads /\ Consumer \in Threads /\ Owner \in Threads /\ Producer # Consumer
      /\ Producer # Owner /\ Consumer # Owner
  BY ThreadsAssumption DEF Threads
<1>1. /\ pc' \in [Threads -> Labels] /\ pc[Owner] = "close"
      /\ pc'[Owner] = IF starting THEN "start" ELSE "idle"
      /\ pc'[Producer] = pc[Producer] /\ pc'[Consumer] = pc[Consumer]
  BY <1>0, <1>t DEF StopClose, Goto, TypeOK, Labels, OwnerLabels
<1>2. pc[Producer] = "none"  BY <1>1, <1>t DEF ControlInv, Alive
<1>a. /\ \A i : Age(i)' = Age(i) /\ EndOf(i)' = EndOf(i)
      /\ \A x : Wrap(x)' = Wrap(x)
      /\ Published' = Published
  BY <1>1 DEF Age, EndOf, Wrap, Published, Unsent, StopClose
<1>3. TypeOK'  BY <1>1, <1>t, SizesAssumption DEF TypeOK, StopClose, Labels
<1>4. ControlInv'  BY <1>1, <1>2, <1>t DEF ControlInv, StopClose, Alive, OwnerLabels, TypeOK
<1>5. RingInv'
  BY <1>1, <1>2, <1>a DEF IInv, RingInv, Holding, Alive, StopClose
<1>6. CurrentInv'  BY <1>1, <1>2 DEF IInv, CurrentInv, Alive, StopClose
<1>7. ChainInv'
  BY <1>1, <1>2, <1>a DEF IInv, ChainInv, StopClose, Holding
<1>8. BytesInv'  BY <1>1, <1>2, <1>t DEF IInv, BytesInv, Alive, StopClose, Copied
<1>9. EndInv'  BY <1>1, <1>2 DEF EndInv, Exiting
<1> QED  BY <1>3, <1>4, <1>5, <1>6, <1>7, <1>8, <1>9 DEF IInv

LEMMA StartStep == ASSUME IInv, Start PROVE IInv'
<1>t. TypeOK /\ ControlInv  BY DEF IInv
<1>0. Producer \in Threads /\ Consumer \in Threads /\ Owner \in Threads /\ Producer # Consumer
      /\ Producer # Owner /\ Consumer # Owner
  BY ThreadsAssumption DEF Threads
<1>1. /\ pc' \in [Threads -> Labels] /\ pc[Owner] = "start" /\ pc'[Owner] = "idle"
      /\ pc'[Producer] = "loop" /\ pc'[Consumer] = pc[Consumer]
  BY <1>0, <1>t DEF Start, TypeOK, Labels, OwnerLabels, ProducerLabels
<1>2. pc[Consumer] = "idle"  BY <1>1, <1>t DEF ControlInv
<1>r. /\ \A i \in Slots : slots'[i] = EmptySlot
      /\ slots' \in [Slots -> [size : 0 .. slot_bytes, end_of_stream : BOOLEAN,
                               ready : BOOLEAN]]
      /\ 0 \in Slots /\ ready_count' = 0 /\ consume_index' = 0 /\ produce_index' = 0
      /\ current_slot_index' = None /\ current_slot_offset' = 0
  BY <1>t, ResetRing DEF Start
<1>u. UNCHANGED <<memory, lock, claimed, call>>  BY DEF Start
<1>h. /\ produced' = 0 /\ delivered' = <<>> /\ stream_offset' = 0
      /\ remaining_bytes' \in 0 .. FileBytes
      /\ complete' = (remaining_bytes' = 0) /\ producer_done' = (remaining_bytes' = 0)
      /\ end_of_stream' = (remaining_bytes' = 0)
      /\ starting' = FALSE /\ paused' = FALSE /\ stop_requested' = FALSE
      /\ producer_error' = FALSE /\ started' = TRUE
  BY DEF Start
<1>3. TypeOK'
  <2>1. /\ 0 \in 0 .. slot_count /\ 0 \in 0 .. slot_bytes /\ 0 \in 0 .. FileBytes
    BY SizesAssumption
  <2>2. delivered' \in Seq(1 .. FileBytes)  BY <1>h
  <2>3. {paused', stop_requested', producer_done', producer_error', end_of_stream',
         started', starting', complete'} \subseteq BOOLEAN  BY <1>h
  <2> QED  BY <1>1, <1>r, <1>t, <1>u, <1>h, <2>1, <2>2, <2>3 DEF TypeOK, Labels
<1>4. ControlInv'
  BY <1>1, <1>t DEF ControlInv, Start, Alive, OwnerLabels, ProducerLabels
<1>5. RingInv'
  BY <1>1, <1>r, SizesAssumption
     DEF RingInv, Age, Slots, EmptySlot, Holding, Alive, Wrap, Exiting, Start
<1>6. CurrentInv'  BY <1>1, <1>2, <1>r DEF CurrentInv
<1>7. ChainInv'  BY <1>r DEF ChainInv, EmptySlot
<1>8. BytesInv'
  <2>1. Len(delivered') = 0 /\ delivered' = [k \in 1 .. 0 |-> k]  BY <1>h
  <2>2. Published' = 0 /\ remaining_bytes' \in Int /\ remaining_bytes' <= FileBytes
    BY <1>1, <1>h, SizesAssumption DEF Published, Unsent
  <2> QED  BY <1>1, <1>2, <1>r, <1>h, <2>1, <2>2 DEF BytesInv
<1>9. EndInv'  BY <1>1 DEF EndInv, Exiting, Start
<1> QED  BY <1>3, <1>4, <1>5, <1>6, <1>7, <1>8, <1>9 DEF IInv

-----------------------------------------------------------------------------
(* Places of the ring, counted from consume_index.                         *)
LEMMA Ages ==
    ASSUME TypeOK
    PROVE  /\ \A i \in Slots : Age(i) \in Slots /\ Wrap(consume_index + Age(i)) = i
           /\ \A k \in Slots : Wrap(consume_index + k) \in Slots
                               /\ Age(Wrap(consume_index + k)) = k
           /\ \A i \in Slots : Wrap(i + 1) \in Slots
           /\ \A i \in Slots : Age(i) + 1 < slot_count => Age(Wrap(i + 1)) = Age(i) + 1
           /\ \A i \in Slots : Wrap(i + 1) = Wrap(consume_index + Age(i) + 1)
                               \/ Age(i) + 1 = slot_count
           /\ Wrap(consume_index) = consume_index /\ Age(consume_index) = 0
<1>n. slot_count \in Nat \ {0}  BY SizesAssumption
<1>c. consume_index \in Slots  BY DEF TypeOK
<1>1. \A i \in Slots : Age(i) \in Slots /\ Wrap(consume_index + Age(i)) = i
  BY <1>n, <1>c DEF Slots, Age, Wrap
<1>2. \A k \in Slots : Wrap(consume_index + k) \in Slots /\ Age(Wrap(consume_index + k)) = k
  BY <1>n, <1>c DEF Slots, Age, Wrap
<1>3. \A i \in Slots : Wrap(i + 1) \in Slots  BY <1>n DEF Slots, Wrap
<1>4. \A i \in Slots : Age(i) + 1 < slot_count => Age(Wrap(i + 1)) = Age(i) + 1
  BY <1>n, <1>c DEF Slots, Age, Wrap
<1>5. \A i \in Slots : Wrap(i + 1) = Wrap(consume_index + Age(i) + 1)
                       \/ Age(i) + 1 = slot_count
  BY <1>n, <1>c DEF Slots, Age, Wrap
<1>6. Wrap(consume_index) = consume_index /\ Age(consume_index) = 0
  BY <1>n, <1>c DEF Slots, Age, Wrap
<1> QED  BY <1>1, <1>2, <1>3, <1>4, <1>5, <1>6

LEMMA ClaimStep ==
    ASSUME IInv, ~stop_requested, ready_count < slot_count, ClaimSlot,
           produce_index' = (produce_index + 1) % slot_count
    PROVE  IInv'
<1> USE DEF file, history, flags
<1>t. TypeOK /\ ControlInv  BY DEF IInv
<1>0. Producer \in Threads /\ Consumer \in Threads /\ Owner \in Threads /\ Producer # Consumer
      /\ Producer # Owner /\ Consumer # Owner
  BY ThreadsAssumption DEF Threads
<1>1. /\ pc' \in [Threads -> Labels] /\ pc[Producer] = "pred" /\ pc'[Producer] = "read"
      /\ pc'[Owner] = pc[Owner] /\ pc'[Consumer] = pc[Consumer]
  BY <1>0, <1>t DEF ClaimSlot, Goto, TypeOK, Labels, ProducerLabels
<1>2. ~producer_error /\ Alive /\ ~Holding  BY <1>1 DEF IInv, RingInv, Alive, Exiting, Holding
<1>3. produce_index = Wrap(consume_index + ready_count)
  BY <1>2, <1>t DEF IInv, RingInv, TypeOK, Slots
<1>4. produce_index' = Wrap(consume_index + ready_count + 1) /\ produce_index' \in Slots
  <2>1. /\ produce_index + 1 \in 0 .. 2 * slot_count - 1
        /\ Wrap(produce_index + 1) = Wrap(consume_index + ready_count + 1)
    <3>1. ready_count \in Slots /\ consume_index \in Slots /\ produce_index \in Slots
      BY <1>t, SizesAssumption DEF TypeOK, Slots
    <3>2. produce_index + 1 \in 0 .. 2 * slot_count - 1  BY <3>1, SizesAssumption DEF Slots
    <3> QED  BY <1>3, <3>1, <3>2, WrapNext
  <2> QED  BY <2>1, WrapMod
<1>a. /\ \A i : Age(i)' = Age(i) /\ EndOf(i)' = EndOf(i)
      /\ \A x : Wrap(x)' = Wrap(x)
      /\ Published' = Published
  BY <1>1 DEF Age, EndOf, Wrap, Published, Unsent, ClaimSlot
<1>b. lock' = {} /\ claimed' = [claimed EXCEPT !.slot = produce_index]
      /\ UNCHANGED <<slots, consume_index, ready_count, current_slot_index,
                   current_slot_offset, file, flags, call, starting, history>>
  BY DEF ClaimSlot, Release
<1>5. TypeOK'  BY <1>1, <1>4, <1>b, <1>t DEF TypeOK, Labels
<1>6. ControlInv'  BY <1>1, <1>b, <1>t DEF ControlInv, Alive, ProducerLabels
<1>7. RingInv'
  <2>1. claimed'.slot = Wrap(consume_index + ready_count)  BY <1>3, <1>b, <1>t DEF TypeOK
  <2> QED  BY <1>1, <1>2, <1>4, <1>a, <1>b, <2>1 DEF IInv, RingInv, Holding, Alive, Exiting
<1>8. CurrentInv'  BY <1>1, <1>2, <1>b DEF IInv, CurrentInv, Alive
<1>9. ChainInv'
  BY <1>1, <1>2, <1>a, <1>b DEF IInv, ChainInv, EndInv
<1>10. BytesInv'  BY <1>1, <1>2, <1>a, <1>b DEF IInv, BytesInv, Alive, Copied
<1>11. EndInv'  BY <1>1, <1>b DEF IInv, EndInv, Exiting
<1> QED  BY <1>5, <1>6, <1>7, <1>8, <1>9, <1>10, <1>11 DEF IInv

LEMMA ReadStep == ASSUME IInv, ProducerRead PROVE IInv'
<1> USE DEF ring, flags
<1>t. TypeOK /\ ControlInv  BY DEF IInv
<1>0. Producer \in Threads /\ Consumer \in Threads /\ Owner \in Threads /\ Producer # Consumer
      /\ Producer # Owner /\ Consumer # Owner
  BY ThreadsAssumption DEF Threads
<1>p. PICK n \in 0 .. RequestBytes :
          /\ Goto(Producer, "read", "publish")
          /\ memory' = [memory EXCEPT ![claimed.slot] = stream_offset]
          /\ stream_offset' = stream_offset + n
          /\ remaining_bytes' = remaining_bytes - n
          /\ claimed' = [claimed EXCEPT
                           !.size = n,
                           !.eos = n < RequestBytes \/ n = 0 \/ remaining_bytes - n = 0]
          /\ produced' = produced + n /\ complete' = claimed'.eos
          /\ UNCHANGED <<ring, flags, lock, call, starting, delivered>>
  BY DEF ProducerRead
<1>1. /\ pc' \in [Threads -> Labels] /\ pc[Producer] = "read" /\ pc'[Producer] = "publish"
      /\ pc'[Owner] = pc[Owner] /\ pc'[Consumer] = pc[Consumer]
  BY <1>0, <1>p, <1>t DEF Goto, TypeOK, Labels, ProducerLabels
<1>2. Alive /\ Holding /\ Alive' /\ Holding'  BY <1>1 DEF Alive, Holding
<1>3. /\ n \in Nat /\ n <= slot_bytes /\ n <= remaining_bytes
  BY <1>t, SizesAssumption DEF RequestBytes, TypeOK
<1>4. ~complete /\ ~producer_done /\ remaining_bytes > 0  BY <1>1 DEF IInv, EndInv
<1>5. stream_offset = produced /\ stream_offset + remaining_bytes <= FileBytes
  BY <1>2 DEF IInv, BytesInv
<1>6. /\ claimed'.slot = claimed.slot /\ claimed'.size = n /\ claimed'.eos \in BOOLEAN
      /\ (remaining_bytes - n = 0 => claimed'.eos)
      /\ claimed' \in [slot : Slots, size : 0 .. slot_bytes, eos : BOOLEAN]
  <2>1. PICK e \in BOOLEAN : e = (n < RequestBytes \/ n = 0 \/ remaining_bytes - n = 0)
    OBVIOUS
  <2>2. claimed' = [claimed EXCEPT !.size = n, !.eos = e]  BY <1>p, <2>1
  <2>3. claimed \in [slot : Slots, size : 0 .. slot_bytes, eos : BOOLEAN]
        /\ n \in 0 .. slot_bytes
    BY <1>t, <1>3, SizesAssumption DEF TypeOK
  <2> QED  BY <2>1, <2>2, <2>3
<1>7. /\ claimed.slot \in Slots /\ ~slots[claimed.slot].ready
      /\ Age(claimed.slot) = ready_count
  <2>1. ready_count \in Slots /\ claimed.slot = Wrap(consume_index + ready_count)
        /\ ~(ready_count < ready_count)
    BY <1>2, <1>t, SizesAssumption DEF IInv, RingInv, TypeOK, Slots
  <2>2. claimed.slot \in Slots /\ Age(claimed.slot) = ready_count  BY <2>1, <1>t, Ages
  <2> QED  BY <2>1, <2>2 DEF IInv, RingInv
<1>8. /\ \A i \in Slots : slots[i].ready => memory'[i] = memory[i] /\ EndOf(i)' = EndOf(i)
      /\ memory' \in [Slots -> 0 .. FileBytes] /\ memory'[claimed.slot] = produced
  BY <1>p, <1>t, <1>7, <1>5 DEF TypeOK, EndOf
<1>a. /\ \A i : Age(i)' = Age(i)
      /\ \A x : Wrap(x)' = Wrap(x)
      /\ Published = produced /\ Published' = produced
  <2>1. produced \in Nat /\ produced' = produced + n  BY <1>p, <1>t DEF TypeOK
  <2>2. Unsent = 0 /\ Unsent' = n  BY <1>1, <1>6 DEF Unsent
  <2>3. consume_index' = consume_index  BY <1>p
  <2> QED  BY <2>1, <2>2, <2>3, <1>3 DEF Age, Wrap, Published
<1>9. TypeOK'
  <2>1. /\ stream_offset' \in 0 .. FileBytes /\ remaining_bytes' \in 0 .. FileBytes
        /\ produced' \in 0 .. FileBytes
    <3>1. stream_offset \in Nat /\ remaining_bytes \in Nat /\ remaining_bytes <= FileBytes
      BY <1>t, SizesAssumption DEF TypeOK
    <3>2. FileBytes \in Nat  BY SizesAssumption
    <3> QED  BY <1>p, <1>3, <1>5, <3>1, <3>2
  <2>2. UNCHANGED <<ring, flags, lock, call, starting, delivered>> /\ complete' \in BOOLEAN
    BY <1>p, <1>6
  <2> QED  BY <1>1, <1>6, <1>8, <1>t, <2>1, <2>2 DEF TypeOK, Labels
<1>10. ControlInv'  BY <1>1, <1>p, <1>t DEF ControlInv, Alive, ProducerLabels
<1>11. RingInv'
  BY <1>1, <1>2, <1>6, <1>a, <1>p DEF IInv, RingInv, Holding, Alive, Exiting
<1>12. CurrentInv'  BY <1>1, <1>2, <1>p DEF IInv, CurrentInv, Alive
<1>13. ChainInv'
  <2> SUFFICES ASSUME NEW i \in Slots, slots[i].ready
               PROVE  /\ EndOf(i)' <= produced
                      /\ Age(i) + 1 < ready_count => memory'[Wrap(i + 1)] = EndOf(i)'
                      /\ Age(i) + 1 = ready_count => EndOf(i)' = produced
                      /\ produced - EndOf(i)' <= (ready_count - 1 - Age(i)) * slot_bytes
                      /\ ~slots[i].end_of_stream
    BY <1>a, <1>p DEF ChainInv
  <2>1. ASSUME Age(i) + 1 < ready_count PROVE memory'[Wrap(i + 1)] = memory[Wrap(i + 1)]
    <3>1. Age(Wrap(i + 1)) = Age(i) + 1 /\ Wrap(i + 1) \in Slots
      <4>1. Age(i) \in Slots /\ Age(i) + 1 < slot_count
        <5>1. Age(i) \in Slots  BY <1>t, Ages
        <5>2. ready_count \in Int /\ ready_count <= slot_count  BY <1>t, SizesAssumption DEF TypeOK
        <5>3. slot_count \in Int /\ Age(i) \in Int  BY <5>1, SizesAssumption DEF Slots
        <5> QED  BY <5>1, <5>2, <5>3, <2>1
      <4> QED  BY <4>1, <1>t, Ages
    <3> QED  BY <3>1, <2>1, <1>8 DEF IInv, RingInv
  <2> QED  BY <1>a, <1>4, <1>8, <2>1 DEF IInv, ChainInv
<1>14. BytesInv'
  <2>1. ready_count > 0 => memory'[consume_index] = memory[consume_index]
    BY <1>8, <1>t, Ages DEF IInv, RingInv, TypeOK
  <2>2. pc[Consumer] \in {"copy", "finish"} => call.slot = consume_index /\ ready_count > 0
    BY <1>2, <1>t DEF IInv, CurrentInv, TypeOK, Slots, None
  <2>3. call.slot \in Slots /\ delivered \in Seq(1 .. FileBytes) /\ Len(delivered) \in Nat
        /\ produced \in Nat /\ call.size \in Nat /\ stream_offset \in Nat
        /\ remaining_bytes \in Nat
    BY <1>t DEF TypeOK
  <2>4. Len(delivered) <= produced'  BY <1>3, <1>p, <2>3 DEF IInv, BytesInv
  <2>5. stream_offset' + remaining_bytes' <= FileBytes /\ stream_offset' = produced'
    BY <1>3, <1>p, <1>5, <2>3
  <2>6. pc[Consumer] = "copy" => Len(delivered) + call.size <= produced'
    BY <1>3, <1>p, <2>3 DEF IInv, BytesInv
  <2>7. produced' - n = produced  BY <1>3, <1>p, <2>3
  <2> QED  BY <1>1, <1>2, <1>6, <1>8, <1>a, <1>p, <2>1, <2>2, <2>3, <2>4, <2>5, <2>6, <2>7
           DEF IInv, BytesInv, Copied
<1>15. EndInv'  BY <1>1, <1>4, <1>6, <1>p, <1>t DEF EndInv, Exiting, TypeOK
<1> QED  BY <1>9, <1>10, <1>11, <1>12, <1>13, <1>14, <1>15 DEF IInv

LEMMA FailStep == ASSUME IInv, ProducerFail PROVE IInv'
<1> USE DEF ring, file, locals, history
<1>t. TypeOK /\ ControlInv  BY DEF IInv
<1>0. Producer \in Threads /\ Consumer \in Threads /\ Owner \in Threads /\ Producer # Consumer
      /\ Producer # Owner /\ Consumer # Owner
  BY ThreadsAssumption DEF Threads
<1>1. Step(Producer, "fail", "exit")
  BY <1>0, <1>t, NotifiedStep DEF ProducerFail, Labels, ProducerLabels
<1>u. /\ producer_error' = TRUE /\ producer_done' = TRUE
      /\ UNCHANGED <<ring, file, locals, lock, paused, stop_requested, end_of_stream, started>>
  BY DEF ProducerFail
<1>2. /\ pc' \in [Threads -> Labels] /\ pc[Producer] = "fail" /\ pc'[Producer] = "exit"
      /\ pc'[Owner] = pc[Owner]
      /\ (pc'[Consumer] = "copy" <=> pc[Consumer] = "copy")
      /\ (pc'[Consumer] = "finish" <=> pc[Consumer] = "finish")
      /\ pc'[Consumer] \in ConsumerLabels /\ (pc[Consumer] = "idle" => pc'[Consumer] = "idle")
  BY <1>0, <1>1, <1>t DEF Step, ControlInv, ConsumerLabels, OwnerLabels
<1>3. Alive /\ Holding /\ Alive' /\ ~Holding' /\ Exiting'  BY <1>2 DEF Alive, Holding, Exiting
<1>a. /\ \A i : Age(i)' = Age(i) /\ EndOf(i)' = EndOf(i)
      /\ \A x : Wrap(x)' = Wrap(x)
      /\ Published' = Published
  BY <1>2, <1>u DEF Age, Wrap, EndOf, Published, Unsent
<1>4. TypeOK'  BY <1>2, <1>u, <1>t DEF TypeOK, Labels
<1>5. ControlInv'  BY <1>2, <1>u, <1>t DEF ControlInv, Alive, ProducerLabels
<1>6. RingInv'  BY <1>3, <1>a, <1>u DEF IInv, RingInv
<1>7. CurrentInv'  BY <1>2, <1>3, <1>u DEF IInv, CurrentInv
<1>8. ChainInv'  BY <1>3, <1>a, <1>u DEF IInv, ChainInv
<1>9. BytesInv'  BY <1>2, <1>3, <1>a, <1>u DEF IInv, BytesInv, Copied
<1>10. EndInv'  BY <1>2, <1>u DEF EndInv
<1> QED  BY <1>4, <1>5, <1>6, <1>7, <1>8, <1>9, <1>10 DEF IInv

LEMMA PublishStep == ASSUME IInv, ProducerPublish PROVE IInv'
<1> USE DEF file, locals, history, flags
<1>t. TypeOK /\ ControlInv  BY DEF IInv
<1>0. Producer \in Threads /\ Consumer \in Threads /\ Owner \in Threads /\ Producer # Consumer
      /\ Producer # Owner /\ Consumer # Owner
  BY ThreadsAssumption DEF Threads
<1>1. /\ pc' \in [Threads -> Labels] /\ pc[Producer] = "publish" /\ pc'[Producer] = "notify_ready"
      /\ pc'[Owner] = pc[Owner] /\ pc'[Consumer] = pc[Consumer]
  BY <1>0, <1>t DEF ProducerPublish, Goto, TypeOK, Labels, ProducerLabels
<1>u. /\ slots' = [slots EXCEPT ![claimed.slot] =
              [size |-> claimed.size, end_of_stream |-> claimed.eos, ready |-> TRUE]]
      /\ ready_count' = ready_count + 1
      /\ UNCHANGED <<produce_index, consume_index, current_slot_index,
                     current_slot_offset, file, flags, locals, lock>>
  BY DEF ProducerPublish
<1>2. Alive /\ Holding /\ Alive' /\ ~Holding' /\ ~Exiting /\ ~Exiting' /\ ~producer_error
  BY <1>1 DEF IInv, RingInv, Alive, Holding, Exiting
<1>v. PICK j : j = claimed.slot  OBVIOUS
<1>w. PICK r : r = ready_count  OBVIOUS
<1> USE <1>v, <1>w
<1>x. ready_count' = r + 1 /\ complete' = complete /\ memory' = memory  BY <1>u
<1>3. /\ r \in Slots /\ j \in Slots /\ j = Wrap(consume_index + r) /\ Age(j) = r
      /\ ~slots[j].ready /\ consume_index \in Slots
  <2>1. r \in Slots /\ j = Wrap(consume_index + r) /\ ~(r < r) /\ consume_index \in Slots
    BY <1>2, <1>t, SizesAssumption DEF IInv, RingInv, TypeOK, Slots
  <2>2. j \in Slots /\ Age(j) = r  BY <2>1, <1>t, Ages
  <2> QED  BY <2>1, <2>2 DEF IInv, RingInv
<1>4. /\ slots'[j] = [size |-> claimed.size, end_of_stream |-> claimed.eos, ready |-> TRUE]
      /\ \A i \in Slots \ {j} : slots'[i] = slots[i]
      /\ slots' \in [Slots -> [size : 0 .. slot_bytes, end_of_stream : BOOLEAN,
                               ready : BOOLEAN]]
  BY <1>u, <1>3, <1>t DEF TypeOK
<1>5. /\ memory[j] = produced - claimed.size /\ EndOf(j)' = produced
      /\ Published = produced - claimed.size /\ Published' = produced
      /\ claimed.size \in 0 .. slot_bytes /\ produced \in Nat
  <2>1. /\ claimed.size \in 0 .. slot_bytes /\ slot_bytes \in Nat /\ FileBytes \in Nat
        /\ produced \in Nat /\ memory[j] \in Nat
    BY <1>3, <1>t, SizesAssumption DEF TypeOK
  <2>2. Unsent = claimed.size /\ Unsent' = 0 /\ produced' = produced
    BY <1>1, <1>u DEF Unsent
  <2>3. memory[j] = produced - claimed.size  BY <1>1 DEF IInv, BytesInv
  <2>4. EndOf(j)' = memory[j] + claimed.size  BY <1>4, <1>x DEF EndOf
  <2> QED  BY <2>1, <2>2, <2>3, <2>4 DEF Published
<1>a. /\ \A i : Age(i)' = Age(i)
      /\ \A x : Wrap(x)' = Wrap(x)
      /\ \A i \in Slots \ {j} : EndOf(i)' = EndOf(i)
  BY <1>u, <1>4 DEF Age, Wrap, EndOf
<1>6. \A i \in Slots \ {j} : Age(i) \in Slots /\ Age(i) # r
  BY <1>3, <1>t, Ages
<1>7. TypeOK'
  <2>1. ready_count' \in 0 .. slot_count  BY <1>3, <1>x, SizesAssumption DEF Slots
  <2>2. UNCHANGED <<produce_index, consume_index, current_slot_index, current_slot_offset,
                    file, flags, locals, lock>>
    BY <1>u
  <2> QED  BY <2>1, <2>2, <1>1, <1>4, <1>t DEF TypeOK, Labels
<1>8. ControlInv'  BY <1>1, <1>u, <1>t DEF ControlInv, Alive, ProducerLabels
<1>9. RingInv'
  <2>1. \A i \in Slots : slots'[i].ready <=> Age(i) < r + 1
    <3>1. \A i \in Slots : slots[i].ready <=> Age(i) < r  BY DEF IInv, RingInv
    <3>2. \A i \in Slots \ {j} : Age(i) \in Int /\ Age(i) # r /\ r \in Int
      BY <1>3, <1>6 DEF Slots
    <3>3. \A i \in Slots \ {j} : Age(i) < r <=> Age(i) < r + 1  BY <3>2
    <3>4. Age(j) < r + 1  BY <1>3 DEF Slots
    <3> QED  BY <3>1, <3>3, <3>4, <1>3, <1>4
  <2>2. \A i \in Slots : ~slots'[i].ready => slots'[i] = EmptySlot
    BY <1>4 DEF IInv, RingInv
  <2>3. produce_index = Wrap(consume_index + r + 1)  BY <1>2 DEF IInv, RingInv
  <2>4. consume_index + (r + 1) + 0 = consume_index + r + 1  BY <1>3 DEF Slots
  <2> QED  BY <1>2, <1>a, <1>u, <2>1, <2>2, <2>3, <2>4 DEF RingInv
<1>10. CurrentInv'
  <2>1. r > 0 => consume_index # j  BY <1>3, <1>t, Ages
  <2>2. consume_index \in Slots /\ r \in Nat  BY <1>3 DEF Slots
  <2>3. UNCHANGED <<call, consume_index, current_slot_index, current_slot_offset>>
        /\ ready_count' = r + 1 /\ pc'[Consumer] = pc[Consumer]
    BY <1>1, <1>u
  <2>4. r > 0 => slots'[consume_index] = slots[consume_index]  BY <2>1, <2>2, <1>3, <1>4
  <2>5. CurrentInv  BY DEF IInv
  <2>6. current_slot_index # None => current_slot_offset < slots'[consume_index].size
    BY <2>2, <2>4, <2>5 DEF CurrentInv
  <2>7. call.slot # None  BY <1>t DEF TypeOK, Slots, None
  <2>8. pc[Consumer] \in {"copy", "finish"} =>
           /\ current_slot_index = call.slot /\ current_slot_offset = call.offset
           /\ call.offset + call.size <= slots'[call.slot].size
    BY <2>2, <2>4, <2>5, <2>7, <1>2 DEF CurrentInv
  <2>9. ready_count' > 0  BY <2>2, <2>3
  <2> QED  BY <2>3, <2>5, <2>6, <2>8, <2>9 DEF CurrentInv
<1>11. ChainInv'
  <2> SUFFICES ASSUME NEW i \in Slots, slots'[i].ready
               PROVE  /\ EndOf(i)' <= Published'
                      /\ Age(i)' + 1 < ready_count' => memory'[Wrap(i + 1)'] = EndOf(i)'
                      /\ Age(i)' + 1 = ready_count' => EndOf(i)' = Published'
                      /\ Published' - EndOf(i)' <= (ready_count' - 1 - Age(i)') * slot_bytes
                      /\ slots'[i].end_of_stream =>
                            complete' /\ Age(i)' + 1 = ready_count' /\ ~Holding'
    BY DEF ChainInv
  <2> DEFINE Goal == /\ EndOf(i)' <= produced
                     /\ Age(i) + 1 < r + 1 => memory[Wrap(i + 1)] = EndOf(i)'
                     /\ Age(i) + 1 = r + 1 => EndOf(i)' = produced
                     /\ produced - EndOf(i)' <= (r + 1 - 1 - Age(i)) * slot_bytes
                     /\ slots'[i].end_of_stream => complete /\ Age(i) + 1 = r + 1
  <2>0. Age(i)' = Age(i) /\ Wrap(i + 1)' = Wrap(i + 1)  BY <1>a
  <2>3. SUFFICES Goal
    <3>1. EndOf(i)' <= Published'  BY <1>5
    <3>2. Age(i)' + 1 < ready_count' => memory'[Wrap(i + 1)'] = EndOf(i)'  BY <2>0, <1>x
    <3>3. Age(i)' + 1 = ready_count' => EndOf(i)' = Published'  BY <2>0, <1>x, <1>5
    <3>4. Published' - EndOf(i)' <= (ready_count' - 1 - Age(i)') * slot_bytes
      <4>1. r \in Int /\ Age(i) \in Int  BY <1>3, <1>t, Ages DEF Slots
      <4>2. ready_count' - 1 - Age(i)' = r + 1 - 1 - Age(i)  BY <2>0, <1>x, <4>1
      <4> QED  BY <4>2, <1>5
    <3>5. slots'[i].end_of_stream => complete' /\ Age(i)' + 1 = ready_count' /\ ~Holding'
      BY <2>0, <1>x, <1>2
    <3> QED  BY <3>1, <3>2, <3>3, <3>4, <3>5
  <2>1. CASE i = j
    <3>1. (r + 1 - 1 - Age(i)) * slot_bytes = 0
      BY <2>1, <1>3, SizesAssumption DEF Slots
    <3>2. slots'[i].end_of_stream => complete  BY <2>1, <1>1, <1>4 DEF IInv, EndInv
    <3>3. EndOf(i)' = produced /\ Age(i) = r /\ r \in Nat /\ produced \in Nat
      BY <2>1, <1>3, <1>5 DEF Slots
    <3> QED  BY <3>1, <3>2, <3>3
  <2>2. CASE i # j
    <3>0. PICK a, b : a = (r - 1 - Age(i)) * slot_bytes /\ b = (r + 1 - 1 - Age(i)) * slot_bytes
      OBVIOUS
    <3>1. /\ slots[i].ready /\ Age(i) \in Nat /\ r \in Nat /\ Age(i) < r
          /\ EndOf(i)' = EndOf(i) /\ slots'[i] = slots[i]
      BY <2>2, <1>3, <1>4, <1>6, <1>a DEF IInv, RingInv, Slots
    <3>2. /\ EndOf(i) <= Published
          /\ Age(i) + 1 < r => memory[Wrap(i + 1)] = EndOf(i)
          /\ Age(i) + 1 = r => EndOf(i) = Published
          /\ Published - EndOf(i) <= (r - 1 - Age(i)) * slot_bytes
          /\ ~slots[i].end_of_stream
      BY <3>1, <1>2 DEF IInv, ChainInv
    <3>3. Age(i) + 1 = r => Wrap(i + 1) = j
      BY <3>1, <1>3, <1>t, Ages DEF Slots
    <3>4. (r + 1 - 1 - Age(i)) * slot_bytes = (r - 1 - Age(i)) * slot_bytes + slot_bytes
      <4>1. r + 1 - 1 - Age(i) = (r - 1 - Age(i)) + 1 /\ r - 1 - Age(i) \in Int  BY <3>1
      <4> QED  BY <4>1, Product
    <3>5. (r - 1 - Age(i)) * slot_bytes \in Int /\ EndOf(i) \in Int
      <4>1. memory[i] \in Int /\ slots[i].size \in Int  BY <1>t DEF TypeOK
      <4>2. r - 1 - Age(i) \in Int  BY <3>1
      <4>3. (r - 1 - Age(i)) * slot_bytes \in Int  BY <4>2, SizesAssumption
      <4> QED  BY <4>1, <4>3 DEF EndOf
    <3>6. a \in Int /\ EndOf(i) \in Int /\ b = a + slot_bytes
          /\ Published - EndOf(i) <= a
      BY <3>0, <3>2, <3>4, <3>5
    <3>7. produced - EndOf(i) <= b /\ EndOf(i) <= produced
      BY <3>2, <3>6, <1>5, SizesAssumption
    <3> QED  BY <3>0, <3>1, <3>2, <3>3, <3>7, <1>5
  <2> QED  BY <2>1, <2>2
<1>12. BytesInv'
  <2>1. CASE r > 0
    BY <2>1, <1>1, <1>2, <1>5, <1>u, <1>3 DEF IInv, BytesInv, Copied, Slots
  <2>2. CASE r = 0
    <3>1. current_slot_index = None /\ current_slot_offset = 0
          /\ pc[Consumer] \notin {"copy", "finish"}
      BY <2>2, <1>2, <1>t DEF IInv, CurrentInv, TypeOK, Slots, None
    <3>2. j = consume_index  BY <2>2, <1>3, <1>t, Ages DEF Slots
    <3>3. memory[consume_index] + current_slot_offset + Copied' = Len(delivered)
      BY <2>2, <3>1, <3>2, <1>1, <1>2, <1>5, <1>u, <1>t DEF IInv, BytesInv, Copied, TypeOK
    <3>4. ready_count' = 1  BY <2>2, <1>x
    <3> QED  BY <3>1, <3>3, <3>4, <1>1, <1>2, <1>u DEF IInv, BytesInv
  <2> QED  BY <2>1, <2>2, <1>3 DEF Slots
<1>13. EndInv'  BY <1>1, <1>u DEF IInv, EndInv, Exiting
<1> QED  BY <1>7, <1>8, <1>9, <1>10, <1>11, <1>12, <1>13 DEF IInv

-----------------------------------------------------------------------------
(* The consumer's steps that touch the ring.                               *)
LEMMA CopyStep == ASSUME IInv, ReadSectionCopy PROVE IInv'
<1> USE DEF file, flags, history
<1>t. TypeOK /\ ControlInv  BY DEF IInv
<1>0. Producer \in Threads /\ Consumer \in Threads /\ Owner \in Threads /\ Producer # Consumer
      /\ Producer # Owner /\ Consumer # Owner
  BY ThreadsAssumption DEF Threads
<1>1. /\ pc' \in [Threads -> Labels] /\ pc[Consumer] = "section" /\ pc'[Consumer] = "copy"
      /\ pc'[Owner] = pc[Owner] /\ pc'[Producer] = pc[Producer]
  BY <1>0, <1>t DEF ReadSectionCopy, Goto, TypeOK, Labels, ConsumerLabels
<1>v. PICK size : size = IF call.dest < Available THEN call.dest ELSE Available  OBVIOUS
<1>w. PICK offset : offset = NextOffset  OBVIOUS
<1>x. PICK slot : slot = NextSlot  OBVIOUS
<1>u. /\ current_slot_index' = slot /\ current_slot_offset' = offset
      /\ call' = [call EXCEPT !.slot = slot, !.offset = offset, !.size = size]
      /\ lock' = {}
      /\ UNCHANGED <<slots, produce_index, consume_index, ready_count, file, flags,
                     claimed, starting, history>>
  BY <1>v, <1>w, <1>x DEF ReadSectionCopy, Release
<1>2. /\ slot = consume_index /\ slot \in Slots /\ ready_count > 0
      /\ offset = current_slot_offset /\ offset \in 0 .. slot_bytes
      /\ slots[slot].size \in 0 .. slot_bytes
  BY <1>w, <1>x, <1>t
     DEF IInv, CurrentInv, NextSlot, NextOffset, NothingReady, TypeOK, ReadSectionCopy
<1>3. /\ size \in Nat /\ size <= slot_bytes /\ offset + size <= slots[slot].size
      /\ offset < slots[slot].size
  <2>1. call.dest \in Nat
    <3>1. call.dest \in DestBytes \cup {0}  BY <1>t DEF TypeOK
    <3>2. \A d \in DestBytes : d \in Nat  BY SizesAssumption
    <3> QED  BY <3>1, <3>2
  <2>2. Available > 0 /\ Available = IF slots[slot].size > offset
                                     THEN slots[slot].size - offset ELSE 0
    BY <1>w, <1>x DEF ReadSectionCopy, Available
  <2>3. slots[slot].size \in Nat /\ offset \in Nat /\ slots[slot].size <= slot_bytes
        /\ slot_bytes \in Nat
    BY <1>2, SizesAssumption
  <2> QED  BY <2>1, <2>2, <2>3, <1>v
<1>4. call' \in [block : BOOLEAN, dest : DestBytes \cup {0}, slot : Slots,
                 offset : 0 .. slot_bytes, size : 0 .. slot_bytes]
      /\ call'.slot = slot /\ call'.offset = offset /\ call'.size = size
  <2>1. size \in 0 .. slot_bytes  BY <1>3, SizesAssumption
  <2>2. call \in [block : BOOLEAN, dest : DestBytes \cup {0}, slot : Slots,
                  offset : 0 .. slot_bytes, size : 0 .. slot_bytes]
    BY <1>t DEF TypeOK
  <2> QED  BY <1>u, <1>2, <2>1, <2>2
<1>a. /\ \A i : Age(i)' = Age(i) /\ EndOf(i)' = EndOf(i)
      /\ \A x : Wrap(x)' = Wrap(x)
      /\ Published' = Published /\ (Holding' <=> Holding) /\ (Alive' <=> Alive)
      /\ (Exiting' <=> Exiting)
  BY <1>1, <1>u DEF Age, EndOf, Wrap, Published, Unsent, Holding, Alive, Exiting
<1>5. TypeOK'  BY <1>1, <1>2, <1>4, <1>u, <1>t DEF TypeOK, Labels
<1>6. ControlInv'  BY <1>1, <1>u, <1>t DEF ControlInv, Alive, ConsumerLabels
<1>7. RingInv'  BY <1>1, <1>a, <1>u DEF IInv, RingInv
<1>8. CurrentInv'
  BY <1>2, <1>3, <1>4, <1>u DEF CurrentInv, Slots, None
<1>9. ChainInv'  BY <1>a, <1>u DEF IInv, ChainInv
<1>10. BytesInv'
  <2>1. memory[slot] + offset = Len(delivered)
    <3>1. Copied = 0  BY <1>1 DEF Copied
    <3>2. memory[slot] \in Nat /\ offset \in Nat  BY <1>2, <1>t DEF TypeOK
    <3> QED  BY <3>1, <3>2, <1>2 DEF IInv, BytesInv
  <2>2. Len(delivered) + size <= produced
    <3>1. slots[slot].ready  BY <1>2, <1>t, Ages DEF IInv, RingInv
    <3>2. EndOf(slot) <= Published  BY <3>1, <1>2 DEF IInv, ChainInv
    <3>3. Published <= produced /\ Published \in Int /\ produced \in Int
      BY <1>t DEF Published, Unsent, TypeOK
    <3>4. /\ EndOf(slot) = memory[slot] + slots[slot].size /\ memory[slot] \in Int
          /\ slots[slot].size \in Int
      BY <1>2, <1>t DEF EndOf, TypeOK
    <3>5. offset \in Int /\ size \in Int  BY <1>2, <1>3
    <3> QED  BY <2>1, <1>3, <3>2, <3>3, <3>4, <3>5
  <2>3. memory[consume_index] + offset + Copied' = Len(delivered)
    <3>1. Copied' = 0  BY <1>1 DEF Copied
    <3>2. memory[slot] \in Nat /\ offset \in Nat  BY <1>2, <1>t DEF TypeOK
    <3> QED  BY <3>1, <3>2, <2>1, <1>2
  <2> QED  BY <1>1, <1>2, <1>4, <1>a, <1>u, <2>1, <2>2, <2>3 DEF IInv, BytesInv
<1>11. EndInv'  BY <1>1, <1>u, <1>a DEF IInv, EndInv
<1> QED  BY <1>5, <1>6, <1>7, <1>8, <1>9, <1>10, <1>11 DEF IInv

LEMMA MemcpyStep ==
    ASSUME IInv, ReadCopy
    PROVE  IInv' /\ delivered' = delivered \o [k \in 1 .. call.size |-> Len(delivered) + k]
<1> USE DEF ring, file, flags
<1>t. TypeOK /\ ControlInv  BY DEF IInv
<1>0. Producer \in Threads /\ Consumer \in Threads /\ Owner \in Threads /\ Producer # Consumer
      /\ Producer # Owner /\ Consumer # Owner
  BY ThreadsAssumption DEF Threads
<1>1. /\ pc' \in [Threads -> Labels] /\ pc[Consumer] = "copy" /\ pc'[Consumer] = "finish"
      /\ pc'[Owner] = pc[Owner] /\ pc'[Producer] = pc[Producer]
  BY <1>0, <1>t DEF ReadCopy, Goto, TypeOK, Labels, ConsumerLabels
<1>u. UNCHANGED <<ring, file, flags, lock, claimed, call, starting, produced, complete>>
  BY DEF ReadCopy
<1>2. /\ memory[call.slot] + call.offset = Len(delivered)
      /\ Len(delivered) + call.size <= produced
  BY <1>1 DEF IInv, BytesInv
<1>3. delivered' = delivered \o [k \in 1 .. call.size |-> Len(delivered) + k]
  BY <1>2 DEF ReadCopy
<1>4. /\ delivered \in Seq(1 .. FileBytes) /\ Len(delivered) \in Nat /\ call.size \in Nat
      /\ produced \in Nat /\ produced <= FileBytes /\ FileBytes \in Nat
  BY <1>t, SizesAssumption DEF TypeOK
<1>5. /\ delivered' \in Seq(1 .. FileBytes) /\ Len(delivered') = Len(delivered) + call.size
      /\ delivered' = [k \in 1 .. Len(delivered') |-> k]
  <2> DEFINE more == [k \in 1 .. call.size |-> Len(delivered) + k]
  <2>1. more \in Seq(1 .. FileBytes) /\ Len(more) = call.size
    <3>1. PICK d \in Nat, n \in Nat : d = Len(delivered) /\ n = call.size  BY <1>4
    <3>2. d + n <= FileBytes  BY <1>2, <1>4, <3>1
    <3>3. \A k \in 1 .. n : d + k \in 1 .. FileBytes  BY ONLY <3>2, <1>4
    <3>4. [k \in 1 .. n |-> d + k] \in Seq(1 .. FileBytes) /\ Len([k \in 1 .. n |-> d + k]) = n
      BY ONLY <3>3, n \in Nat, d \in Nat
    <3> QED  BY ONLY <3>1, <3>4
  <2>2. delivered = [k \in 1 .. Len(delivered) |-> k]  BY DEF IInv, BytesInv
  <2>3. \A k \in 1 .. call.size : more[k] = Len(delivered) + k  OBVIOUS
  <2> HIDE DEF more
  <2>4. delivered' \in Seq(1 .. FileBytes) /\ Len(delivered') = Len(delivered) + call.size
    BY <1>3, <1>4, <2>1 DEF more
  <2>5. ASSUME NEW k \in 1 .. Len(delivered') PROVE delivered'[k] = k
    <3>1. CASE k <= Len(delivered)
      BY <3>1, <2>1, <2>2, <2>4, <1>3, <1>4 DEF more
    <3>2. CASE k > Len(delivered)
      <4>1. delivered'[k] = more[k - Len(delivered)]
        BY <3>2, <2>1, <2>4, <1>3, <1>4 DEF more
      <4>2. k - Len(delivered) \in 1 .. call.size  BY <3>2, <2>4, <1>4
      <4> QED  BY <4>1, <4>2, <2>3, <1>4
    <3> QED  BY <3>1, <3>2, <1>4
  <2> QED  BY <2>4, <2>5
<1>a. /\ \A i : Age(i)' = Age(i) /\ EndOf(i)' = EndOf(i)
      /\ \A x : Wrap(x)' = Wrap(x)
      /\ Published' = Published /\ (Holding' <=> Holding) /\ (Alive' <=> Alive)
      /\ (Exiting' <=> Exiting)
  BY <1>1, <1>u DEF Age, EndOf, Wrap, Published, Unsent, Holding, Alive, Exiting
<1>6. TypeOK'  BY <1>1, <1>5, <1>u, <1>t DEF TypeOK, Labels
<1>7. ControlInv'  BY <1>1, <1>u, <1>t DEF ControlInv, Alive, ConsumerLabels
<1>8. RingInv'  BY <1>1, <1>a, <1>u DEF IInv, RingInv
<1>9. CurrentInv'  BY <1>1, <1>a, <1>u DEF IInv, CurrentInv
<1>10. ChainInv'  BY <1>a, <1>u DEF IInv, ChainInv
<1>11. BytesInv'
  <2>0. Copied = 0 /\ Copied' = call.size  BY <1>1, <1>u DEF Copied
  <2>1. CASE ready_count = 0 /\ ~Alive
    BY <2>1, <1>1, <1>2, <1>4, <1>5, <1>a, <1>u DEF IInv, BytesInv
  <2>2. CASE call.slot = consume_index /\ current_slot_offset = call.offset /\ ready_count > 0
    <3>1. memory[consume_index] \in Nat /\ current_slot_offset \in Nat /\ ready_count # 0
      BY <2>2, <1>t DEF TypeOK
    <3>2. memory[consume_index] + current_slot_offset + Copied' = Len(delivered')
      BY <2>0, <2>2, <3>1, <1>2, <1>4, <1>5
    <3> QED  BY <2>2, <3>1, <3>2, <1>1, <1>2, <1>4, <1>5, <1>a, <1>u DEF IInv, BytesInv
  <2>3. call.slot # None  BY <1>t, SizesAssumption DEF TypeOK, Slots, None
  <2> QED  BY <2>1, <2>2, <2>3, <1>1 DEF IInv, CurrentInv
<1>12. EndInv'  BY <1>1, <1>u, <1>a DEF IInv, EndInv
<1> QED  BY <1>3, <1>6, <1>7, <1>8, <1>9, <1>10, <1>11, <1>12 DEF IInv

(* The oldest slot goes, everything in it having been handed out.          *)
LEMMA RetireOldest ==
    ASSUME IInv, Retire(consume_index), ready_count > 0, EndOf(consume_index) = Len(delivered),
           pc[Consumer] \in {"section", "finish"},
           UNCHANGED <<file, locals>>, lock' = {} \/ lock' = lock
    PROVE  IInv'
<1> USE DEF file, locals, history
<1>t. TypeOK /\ ControlInv  BY DEF IInv
<1>0. Producer \in Threads /\ Consumer \in Threads /\ Owner \in Threads /\ Producer # Consumer
      /\ Producer # Owner /\ Consumer # Owner
  BY ThreadsAssumption DEF Threads
<1>s. Step(Consumer, pc[Consumer], "idle")
  BY <1>0, <1>t, NotifiedStep DEF Retire, Labels, ConsumerLabels
<1>1. /\ pc' \in [Threads -> Labels] /\ pc'[Consumer] = "idle" /\ pc'[Owner] = pc[Owner]
      /\ \/ pc'[Producer] = pc[Producer]
         \/ pc[Producer] = "waiting" /\ pc'[Producer] = "woken"
  BY <1>0, <1>s, <1>t DEF Step, ControlInv, OwnerLabels
<1>v. PICK c : c = consume_index  OBVIOUS
<1>w. PICK r : r = ready_count  OBVIOUS
<1>2. /\ c \in Slots /\ r \in Nat /\ r > 0 /\ r <= slot_count /\ slot_count \in Nat \ {0}
      /\ (c + 1) % slot_count = Wrap(c + 1) /\ Wrap(c + 1) \in Slots
  <2>1. c \in Slots /\ r \in Nat /\ r > 0 /\ r <= slot_count /\ slot_count \in Nat \ {0}
    BY <1>v, <1>w, <1>t, SizesAssumption DEF TypeOK
  <2>2. c + 1 \in 0 .. 2 * slot_count - 1  BY <2>1 DEF Slots
  <2> QED  BY <2>1, <2>2, WrapMod
<1>u. /\ slots' = [slots EXCEPT ![c] = EmptySlot]
      /\ ready_count' = r - 1 /\ consume_index' = Wrap(c + 1)
      /\ current_slot_index' = None /\ current_slot_offset' = 0
      /\ end_of_stream' = (end_of_stream \/ slots[c].end_of_stream)
      /\ UNCHANGED <<produce_index, paused, stop_requested, producer_done, producer_error,
                     started>>
  BY <1>v, <1>w, <1>2 DEF Retire
<1>3. /\ slots'[c] = EmptySlot /\ \A i \in Slots \ {c} : slots'[i] = slots[i]
      /\ slots' \in [Slots -> [size : 0 .. slot_bytes, end_of_stream : BOOLEAN,
                               ready : BOOLEAN]]
  BY <1>u, <1>2, <1>t, SizesAssumption DEF TypeOK, EmptySlot
<1>a. /\ Age(c)' = slot_count - 1 /\ \A i \in Slots \ {c} : Age(i)' = Age(i) - 1 /\ Age(i) > 0
      /\ Age(c) = 0 /\ \A i \in Slots : Age(i) \in Slots
      /\ \A i \in Slots \ {c} : EndOf(i)' = EndOf(i)
      /\ \A x : Wrap(x)' = Wrap(x)
  BY <1>u, <1>v, <1>2, <1>3 DEF Age, Wrap, EndOf, Slots
<1>b. /\ Published' = Published /\ (Holding' <=> Holding) /\ (Alive' <=> Alive)
      /\ (Exiting' <=> Exiting)
  BY <1>1 DEF Published, Unsent, Holding, Alive, Exiting
<1>c. \A k \in Slots : Wrap(Wrap(c + 1) + k) = Wrap(c + 1 + k)
  <2> TAKE k \in Slots
  <2>1. CASE c + 1 < slot_count  BY <2>1 DEF Wrap
  <2>2. CASE c + 1 >= slot_count
    <3>1. c + 1 = slot_count /\ k \in Int /\ k < slot_count  BY <2>2, <1>2 DEF Slots
    <3> QED  BY <3>1, <1>2 DEF Wrap, Slots
  <2> QED  BY <2>1, <2>2, <1>2 DEF Slots
<1>4. TypeOK'
  <2>1. 0 \in 0 .. slot_bytes /\ ready_count' \in 0 .. slot_count
    BY <1>u, <1>2, SizesAssumption
  <2>2. end_of_stream' \in BOOLEAN  BY <1>u, <1>t, <1>2 DEF TypeOK
  <2>3. lock' \in {{}} \cup {{t} : t \in Threads}  BY <1>t DEF TypeOK
  <2> QED  BY <1>1, <1>2, <1>3, <1>u, <1>t, <2>1, <2>2, <2>3 DEF TypeOK, Labels
<1>5. ControlInv'
  BY <1>1, <1>u, <1>t DEF ControlInv, Alive, ConsumerLabels, ProducerLabels
<1>6. RingInv'
  <2>1. \A i \in Slots : slots'[i].ready <=> Age(i)' < ready_count'
    <3>1. slots'[c].ready <=> Age(c)' < ready_count'
      BY <1>2, <1>3, <1>a, <1>u DEF EmptySlot
    <3>2. ASSUME NEW i \in Slots \ {c} PROVE slots'[i].ready <=> Age(i)' < ready_count'
      <4>1. slots[i].ready <=> Age(i) < r  BY <1>w DEF IInv, RingInv
      <4>2. Age(i) \in Int /\ r \in Int  BY <1>a, <1>2 DEF Slots
      <4> QED  BY <4>1, <4>2, <1>3, <1>a, <1>u
    <3> QED  BY <3>1, <3>2
  <2>2. \A i \in Slots : ~slots'[i].ready => slots'[i] = EmptySlot
    BY <1>3 DEF IInv, RingInv
  <2>3. /\ Wrap(consume_index' + ready_count') = Wrap(c + r)
        /\ Wrap(consume_index' + ready_count' + 0) = Wrap(c + r + 0)
        /\ r < slot_count => Wrap(consume_index' + ready_count' + 1) = Wrap(c + r + 1)
    <3>1. r - 1 \in Slots /\ (r < slot_count => r \in Slots)  BY <1>2 DEF Slots
    <3>2. Wrap(c + 1) \in Int /\ c \in Int /\ r \in Int  BY <1>2 DEF Slots
    <3>3. /\ Wrap(c + 1) + (r - 1) = consume_index' + ready_count'
          /\ consume_index' + ready_count' + 0 = consume_index' + ready_count'
          /\ Wrap(c + 1) + r = consume_index' + ready_count' + 1
          /\ c + 1 + (r - 1) = c + r /\ c + r + 0 = c + r /\ c + 1 + r = c + r + 1
      BY <3>2, <1>u
    <3>4. Wrap(Wrap(c + 1) + (r - 1)) = Wrap(c + 1 + (r - 1))  BY <3>1, <1>c
    <3>5. r < slot_count => Wrap(Wrap(c + 1) + r) = Wrap(c + 1 + r)  BY <3>1, <1>c
    <3> QED  BY <3>3, <3>4, <3>5
  <2>4. Holding => r < slot_count /\ claimed.slot = Wrap(c + r)
    BY <1>v, <1>w DEF IInv, RingInv
  <2>5. Holding' => ready_count' < slot_count /\ claimed'.slot = Wrap(consume_index' + ready_count')
    <3>1. r - 1 < slot_count  BY <1>2
    <3> QED  BY <2>3, <2>4, <3>1, <1>b, <1>u
  <2>6. Alive' /\ ~producer_error' =>
          produce_index' = Wrap(consume_index' + ready_count' + (IF Holding' THEN 1 ELSE 0))
    <3>1. Alive /\ ~producer_error =>
             produce_index = Wrap(c + r + (IF Holding THEN 1 ELSE 0))
      BY <1>v, <1>w DEF IInv, RingInv
    <3>2. CASE Holding  BY <2>3, <2>4, <3>1, <3>2, <1>b, <1>u
    <3>3. CASE ~Holding  BY <2>3, <3>1, <3>3, <1>b, <1>u
    <3> QED  BY <3>2, <3>3
  <2>7. Alive' /\ producer_error' => Exiting'  BY <1>b, <1>u DEF IInv, RingInv
  <2> QED  BY <2>1, <2>2, <2>5, <2>6, <2>7 DEF RingInv
<1>7. CurrentInv'  BY <1>1, <1>u DEF CurrentInv
<1>8. ChainInv'
  <2> SUFFICES ASSUME NEW i \in Slots, slots'[i].ready
               PROVE  /\ EndOf(i)' <= Published'
                      /\ Age(i)' + 1 < ready_count' => memory'[Wrap(i + 1)'] = EndOf(i)'
                      /\ Age(i)' + 1 = ready_count' => EndOf(i)' = Published'
                      /\ Published' - EndOf(i)' <= (ready_count' - 1 - Age(i)') * slot_bytes
                      /\ slots'[i].end_of_stream =>
                            complete' /\ Age(i)' + 1 = ready_count' /\ ~Holding'
    BY DEF ChainInv
  <2>1. i # c /\ slots'[i] = slots[i] /\ slots[i].ready  BY <1>3 DEF EmptySlot
  <2>2. /\ EndOf(i) <= Published
        /\ Age(i) + 1 < r => memory[Wrap(i + 1)] = EndOf(i)
        /\ Age(i) + 1 = r => EndOf(i) = Published
        /\ Published - EndOf(i) <= (r - 1 - Age(i)) * slot_bytes
        /\ slots[i].end_of_stream => complete /\ Age(i) + 1 = r /\ ~Holding
    BY <2>1, <1>w DEF IInv, ChainInv
  <2>3. /\ Age(i) \in Int /\ r \in Int /\ Age(i)' = Age(i) - 1 /\ ready_count' = r - 1
        /\ EndOf(i)' = EndOf(i) /\ Wrap(i + 1)' = Wrap(i + 1)
    BY <2>1, <1>2, <1>a, <1>u DEF Slots
  <2>4. ready_count' - 1 - Age(i)' = r - 1 - Age(i)  BY <2>3
  <2>5. (Age(i)' + 1 < ready_count' => Age(i) + 1 < r)
        /\ (Age(i)' + 1 = ready_count' <=> Age(i) + 1 = r)
    BY <2>3
  <2> QED  BY <2>1, <2>2, <2>3, <2>4, <2>5, <1>b
<1>9. BytesInv'
  <2>1. ready_count' > 0 => memory'[consume_index'] + 0 + 0 = Len(delivered')
    <3> SUFFICES ASSUME r - 1 > 0 PROVE memory[Wrap(c + 1)] + 0 + 0 = Len(delivered)
      BY <1>u
    <3>1. slots[c].ready /\ Age(c) + 1 < r  BY <1>2, <1>a, <1>w DEF IInv, RingInv
    <3>2. memory[Wrap(c + 1)] = EndOf(c)  BY <3>1, <1>2, <1>w DEF IInv, ChainInv
    <3>3. memory[Wrap(c + 1)] \in Int  BY <1>2, <1>t DEF TypeOK
    <3> QED  BY <3>2, <3>3, <1>v
  <2>2. ready_count' = 0 => Published' = Len(delivered')
    <3> SUFFICES ASSUME r - 1 = 0 PROVE Published = Len(delivered)  BY <1>u, <1>b
    <3>1. slots[c].ready /\ Age(c) + 1 = r  BY <1>2, <1>a, <1>w DEF IInv, RingInv
    <3> QED  BY <3>1, <1>2, <1>w, <1>v DEF IInv, ChainInv
  <2>3. Copied' = 0  BY <1>1 DEF Copied
  <2> QED  BY <1>1, <1>b, <1>u, <2>1, <2>2, <2>3 DEF IInv, BytesInv
<1>10. EndInv'  BY <1>1, <1>u, <1>b DEF IInv, EndInv
<1> QED  BY <1>4, <1>5, <1>6, <1>7, <1>8, <1>9, <1>10 DEF IInv

(* A reader that comes back after stop() emptied the ring.                 *)
LEMMA RetireStopped ==
    ASSUME IInv, Retire(call.slot), current_slot_index = None, ready_count = 0, ~Alive,
           pc[Consumer] = "finish", UNCHANGED <<file, locals, lock>>
    PROVE  IInv'
<1> USE DEF file, locals, history
<1>t. TypeOK /\ ControlInv  BY DEF IInv
<1>0. Producer \in Threads /\ Consumer \in Threads /\ Owner \in Threads /\ Producer # Consumer
      /\ Producer # Owner /\ Consumer # Owner
  BY ThreadsAssumption DEF Threads
<1>s. Step(Consumer, pc[Consumer], "idle")
  BY <1>0, <1>t, NotifiedStep DEF Retire, Labels, ConsumerLabels
<1>1. /\ pc' \in [Threads -> Labels] /\ pc'[Consumer] = "idle" /\ pc'[Owner] = pc[Owner]
      /\ pc[Producer] = "none" /\ pc'[Producer] = "none"
  BY <1>0, <1>s, <1>t DEF Step, ControlInv, OwnerLabels, Alive
<1>2. /\ consume_index' \in Slots /\ call.slot \in Slots
  <2>1. consume_index \in Slots  BY <1>t DEF TypeOK
  <2>2. consume_index + 1 \in 0 .. 2 * slot_count - 1  BY <2>1, SizesAssumption DEF Slots
  <2>3. (consume_index + 1) % slot_count \in Slots  BY <2>2, WrapMod
  <2> QED  BY <2>3, <1>t DEF Retire, TypeOK
<1>3. /\ \A i \in Slots : ~slots[i].ready /\ slots[i] = EmptySlot
      /\ slots' = slots /\ ready_count' = 0
      /\ current_slot_index' = None /\ current_slot_offset' = 0
      /\ end_of_stream' \in BOOLEAN
      /\ UNCHANGED <<produce_index, paused, stop_requested, producer_done, producer_error,
                     started>>
  <2>1. \A i \in Slots : ~slots[i].ready
    <3>1. \A i \in Slots : Age(i) \in Slots  BY <1>t, Ages
    <3> QED  BY <3>1 DEF IInv, RingInv, Slots
  <2>2. \A i \in Slots : slots[i] = EmptySlot  BY <2>1 DEF IInv, RingInv
  <2>3. slots' = slots
    BY <2>2, <1>2, <1>t DEF Retire, TypeOK
  <2> QED  BY <2>1, <2>2, <2>3, <1>t, <1>2 DEF Retire, TypeOK, EmptySlot
<1>4. TypeOK'
  <2>1. 0 \in 0 .. slot_bytes /\ 0 \in 0 .. slot_count  BY SizesAssumption
  <2> QED  BY <1>1, <1>2, <1>3, <1>t, <2>1 DEF TypeOK, Labels
<1>5. ControlInv'  BY <1>1, <1>3, <1>t DEF ControlInv, Alive, ConsumerLabels
<1>6. RingInv'
  <2>1. ASSUME NEW c \in Slots, NEW i \in Slots
        PROVE  (IF c <= i THEN i - c ELSE i - c + slot_count) \in Nat
    BY SizesAssumption DEF Slots
  <2>2. \A i \in Slots : Age(i)' \in Nat  BY <1>2, <2>1 DEF Age
  <2>3. \A i \in Slots : ~(Age(i)' < 0)  BY <2>2
  <2> QED  BY <1>1, <1>3, <2>3 DEF RingInv, Alive, Holding
<1>7. CurrentInv'  BY <1>1, <1>3 DEF CurrentInv
<1>8. ChainInv'  BY <1>3 DEF ChainInv
<1>9. BytesInv'  BY <1>1, <1>3 DEF IInv, BytesInv, Alive
<1>10. EndInv'  BY <1>1 DEF EndInv, Exiting
<1> QED  BY <1>4, <1>5, <1>6, <1>7, <1>8, <1>9, <1>10 DEF IInv

LEMMA EmptySlotRetires ==
    ASSUME IInv, ReadSectionEmptySlot
    PROVE  Retire(consume_index) /\ ready_count > 0 /\ EndOf(consume_index) = Len(delivered)
<1>t. TypeOK /\ ControlInv  BY DEF IInv
<1>1. current_slot_index = None
  <2> SUFFICES ASSUME current_slot_index # None PROVE FALSE  OBVIOUS
  <2>1. current_slot_index = consume_index /\ current_slot_offset < slots[consume_index].size
    BY DEF IInv, CurrentInv
  <2>2. /\ slots[consume_index].size \in Nat /\ current_slot_offset \in Nat
        /\ current_slot_offset = NextOffset /\ consume_index = NextSlot
    BY <2>1, <1>t DEF TypeOK, NextOffset, NextSlot
  <2> QED  BY <2>1, <2>2 DEF ReadSectionEmptySlot, Available
<1>2. NextSlot = consume_index /\ NextOffset = 0 /\ ready_count > 0 /\ current_slot_offset = 0
  BY <1>1, <1>t
     DEF NextSlot, NextOffset, ReadSectionEmptySlot, NothingReady, TypeOK, IInv, CurrentInv
<1>3. slots[consume_index].size = 0 /\ memory[consume_index] \in Nat
  BY <1>2, <1>t DEF ReadSectionEmptySlot, Available, TypeOK
<1>4. EndOf(consume_index) = Len(delivered)
  <2>1. Copied = 0  BY DEF Copied, ReadSectionEmptySlot
  <2> QED  BY <1>2, <1>3, <2>1 DEF IInv, BytesInv, EndOf
<1> QED  BY <1>2, <1>4 DEF ReadSectionEmptySlot

LEMMA EmptySlotStep == ASSUME IInv, ReadSectionEmptySlot PROVE IInv'
BY EmptySlotRetires, RetireOldest DEF ReadSectionEmptySlot, Release

(* The second critical section: the slot stays current, or it is retired.  *)
Advance ==
    /\ current_slot_index = consume_index /\ ready_count > 0
    /\ current_slot_offset' = current_slot_offset + call.size
    /\ current_slot_offset + call.size < slots[consume_index].size
    /\ Goto(Consumer, "finish", "idle")
    /\ UNCHANGED <<slots, produce_index, consume_index, ready_count, current_slot_index,
                   flags, file, locals, lock>>

LEMMA FinishCases ==
    ASSUME IInv, ReadFinish
    PROVE  /\ pc[Consumer] = "finish" /\ UNCHANGED <<file, locals, lock>>
           /\ \/ Retire(call.slot) /\ current_slot_index = None /\ ready_count = 0 /\ ~Alive
              \/ Retire(consume_index) /\ ready_count > 0
                 /\ EndOf(consume_index) = Len(delivered)
              \/ Advance
<1>t. TypeOK  BY DEF IInv
<1>u. pc[Consumer] = "finish" /\ UNCHANGED <<file, locals, lock>>  BY DEF ReadFinish
<1>1. call.slot \in Slots /\ call.slot # None
  BY <1>t, SizesAssumption DEF TypeOK, Slots, None
<1>2. ASSUME current_slot_index = None, ready_count = 0, ~Alive PROVE Retire(call.slot)
  <2>1. Age(call.slot) \in Slots  BY <1>1, <1>t, Ages
  <2>2. slots[call.slot] = EmptySlot  BY <1>1, <1>2, <2>1 DEF IInv, RingInv, Slots
  <2>3. slots[call.slot].size = 0 /\ current_slot_offset = 0 /\ call.size \in Nat
    BY <1>2, <1>t, <2>2 DEF IInv, CurrentInv, TypeOK, EmptySlot
  <2> QED  BY <2>3 DEF ReadFinish
<1>3. ASSUME current_slot_index = call.slot, current_slot_offset = call.offset,
             call.offset + call.size <= slots[call.slot].size
      PROVE  \/ Retire(consume_index) /\ ready_count > 0
                /\ EndOf(consume_index) = Len(delivered)
             \/ Advance
  <2>1. call.slot = consume_index /\ ready_count > 0  BY <1>1, <1>3 DEF IInv, CurrentInv
  <2>2. /\ memory[consume_index] \in Nat /\ current_slot_offset \in Nat /\ call.size \in Nat
        /\ slots[consume_index].size \in Nat
    BY <1>t DEF TypeOK
  <2>3. memory[consume_index] + current_slot_offset + call.size = Len(delivered)
    BY <1>u, <2>1 DEF IInv, BytesInv, Copied
  <2>4. CASE current_slot_offset + call.size >= slots[call.slot].size
    <3>1. EndOf(consume_index) = Len(delivered)  BY <1>3, <2>1, <2>2, <2>3, <2>4 DEF EndOf
    <3> QED  BY <2>1, <2>4, <3>1 DEF ReadFinish
  <2>5. CASE ~(current_slot_offset + call.size >= slots[call.slot].size)
    BY <1>3, <2>1, <2>2, <2>5 DEF ReadFinish, Advance
  <2> QED  BY <2>4, <2>5
<1> QED  BY <1>2, <1>3, <1>u DEF IInv, CurrentInv

LEMMA AdvanceStep == ASSUME IInv, Advance PROVE IInv'
<1> USE DEF file, locals, flags, history
<1>t. TypeOK /\ ControlInv  BY DEF IInv
<1>0. Producer \in Threads /\ Consumer \in Threads /\ Owner \in Threads /\ Producer # Consumer
      /\ Producer # Owner /\ Consumer # Owner
  BY ThreadsAssumption DEF Threads
<1>u. /\ current_slot_index = consume_index /\ ready_count > 0 /\ pc[Consumer] = "finish"
      /\ current_slot_offset' = current_slot_offset + call.size
      /\ UNCHANGED <<slots, produce_index, consume_index, ready_count, current_slot_index,
                     flags, file, locals, lock>>
  BY DEF Advance, Goto
<1>1. /\ pc' \in [Threads -> Labels] /\ pc'[Consumer] = "idle"
      /\ pc'[Owner] = pc[Owner] /\ pc'[Producer] = pc[Producer]
  BY <1>0, <1>t DEF Advance, Goto, TypeOK, Labels, ConsumerLabels
<1>a. /\ \A i : Age(i)' = Age(i) /\ EndOf(i)' = EndOf(i)
      /\ \A x : Wrap(x)' = Wrap(x)
      /\ Published' = Published /\ (Holding' <=> Holding) /\ (Alive' <=> Alive)
      /\ (Exiting' <=> Exiting) /\ Copied' = 0
  BY <1>1, <1>u DEF Age, EndOf, Wrap, Published, Unsent, Holding, Alive, Exiting, Copied
<1>2. /\ memory[consume_index] \in Nat /\ current_slot_offset \in Nat /\ call.size \in Nat
      /\ slots[consume_index].size \in Nat /\ slots[consume_index].size <= slot_bytes
      /\ ready_count \in Nat /\ consume_index # None
  BY <1>t, SizesAssumption DEF TypeOK, Slots, None
<1>3. /\ current_slot_offset' \in 0 .. slot_bytes
      /\ current_slot_offset' < slots[consume_index].size
  BY <1>2, SizesAssumption DEF Advance
<1>4. TypeOK'  BY <1>1, <1>3, <1>u, <1>t DEF TypeOK, Labels
<1>5. ControlInv'  BY <1>1, <1>u, <1>t DEF ControlInv, Alive, ConsumerLabels
<1>6. RingInv'  BY <1>a, <1>u DEF IInv, RingInv
<1>7. CurrentInv'  BY <1>1, <1>2, <1>3, <1>u DEF CurrentInv
<1>8. ChainInv'  BY <1>a, <1>u DEF IInv, ChainInv
<1>9. BytesInv'
  <2>1. memory'[consume_index'] + current_slot_offset' + Copied' = Len(delivered')
    <3>1. memory[consume_index] + current_slot_offset + call.size = Len(delivered)
      BY <1>u DEF IInv, BytesInv, Copied
    <3>2. memory'[consume_index'] = memory[consume_index] /\ Len(delivered') = Len(delivered)
      BY <1>u
    <3> QED  BY <3>1, <3>2, <1>2, <1>a, <1>u
  <2> QED  BY <2>1, <1>1, <1>2, <1>a, <1>u DEF IInv, BytesInv
<1>10. EndInv'  BY <1>1, <1>a, <1>u DEF IInv, EndInv
<1> QED  BY <1>4, <1>5, <1>6, <1>7, <1>8, <1>9, <1>10 DEF IInv

LEMMA FinishStep == ASSUME IInv, ReadFinish PROVE IInv'
BY FinishCases, RetireStopped, RetireOldest, AdvanceStep

-----------------------------------------------------------------------------
LEMMA StutterStep == ASSUME IInv, UNCHANGED vars PROVE IInv'
<1> USE DEF vars, ring, file, flags, locals, history, Rest
<1>1. TypeOK'  BY DEF IInv, TypeOK
<1>2. ControlInv'  BY DEF IInv, ControlInv, Alive
<1>3. SamePhase  BY DEF SamePhase, Holding, Alive, Exiting
<1>4. RingInv' /\ CurrentInv' /\ ChainInv' /\ BytesInv'  BY <1>3, QuietStep
<1>5. EndInv'  BY DEF IInv, EndInv, Exiting
<1> QED  BY <1>1, <1>2, <1>4, <1>5 DEF IInv

(* Next, as the proofs take it apart.                                      *)
LEMMA NextSteps ==
    ASSUME TypeOK, Next
    PROVE  \/ QuietProducer \/ QuietConsumer \/ QuietOwner
           \/ ~stop_requested /\ ready_count < slot_count /\ ClaimSlot
              /\ produce_index' = (produce_index + 1) % slot_count
           \/ ProducerRead \/ ProducerFail \/ ProducerPublish
           \/ ReadSectionEmptySlot \/ ReadSectionCopy \/ ReadCopy \/ ReadFinish
           \/ StopReset \/ StopClose \/ Start
<1>1. ASSUME ProducerPredicate, ~stop_requested, ready_count < slot_count
      PROVE  ClaimSlot /\ produce_index' = (produce_index + 1) % slot_count
  BY <1>1, SizesAssumption DEF ProducerPredicate, TypeOK
<1>2. producerLoop => \/ QuietProducer \/ ProducerPredicate
                      \/ ProducerRead \/ ProducerFail \/ ProducerPublish
  BY DEF producerLoop, QuietProducer
<1>3. ASSUME ProducerPredicate, stop_requested \/ ~(ready_count < slot_count)
      PROVE  QuietProducer
  BY <1>3 DEF QuietProducer
<1> QED
  BY <1>1, <1>2, <1>3 DEF Next, readNextInternal, stop, start, QuietProducer, QuietConsumer,
     QuietOwner

LEMMA NextIInv == ASSUME IInv, [Next]_vars PROVE IInv'
<1>1. TypeOK  BY DEF IInv
<1> QED
  BY <1>1, NextSteps, ProducerQuiet, ConsumerQuiet, OwnerQuiet, ClaimStep, ReadStep, FailStep,
   PublishStep, EmptySlotStep, CopyStep, MemcpyStep, FinishStep, StopResetStep, StopCloseStep,
   StartStep, StutterStep

LEMMA Invariance == Spec => []IInv
<1>1. Init => IInv  BY InitIInv
<1>2. IInv /\ [Next]_vars => IInv'  BY NextIInv
<1> QED  BY <1>1, <1>2, PTL DEF Spec

(* Every variable stays in its type: the fields of StreamReadSessionAsync  *)
(* keep to the ring and the file whatever the three threads do.            *)
THEOREM TypeCorrect == Spec => []TypeOK
BY Invariance, PTL DEF IInv

(* The producer's readAt, outside queue_mutex, never fills a slot that is  *)
(* ready, current, or being copied from by readNextInternal's memcpy.      *)
THEOREM SlotsNotShared == Spec => []NoSharedSlot
<1>1. IInv => NoSharedSlot
  <2> SUFFICES ASSUME IInv, Holding
               PROVE  /\ ~slots[claimed.slot].ready
                      /\ claimed.slot # current_slot_index
                      /\ (pc[Consumer] \in {"copy", "finish"} => claimed.slot # call.slot)
    BY DEF NoSharedSlot
  <2>t. TypeOK  BY DEF IInv
  <2>1. ready_count \in Slots /\ claimed.slot = Wrap(consume_index + ready_count)
    BY <2>t, SizesAssumption DEF IInv, RingInv, TypeOK, Slots
  <2>2. claimed.slot \in Slots /\ Age(claimed.slot) = ready_count  BY <2>1, <2>t, Ages
  <2>3. ~(ready_count < ready_count) /\ claimed.slot # None
    BY <2>1, <2>2 DEF Slots, None
  <2>4. ready_count > 0 => claimed.slot # consume_index  BY <2>1, <2>2, <2>t, Ages DEF Slots
  <2>5. claimed.slot # current_slot_index  BY <2>3, <2>4 DEF IInv, CurrentInv
  <2>6. Alive  BY DEF Holding, Alive
  <2> QED  BY <2>2, <2>3, <2>5, <2>6 DEF IInv, RingInv, CurrentInv
<1> QED  BY <1>1, Invariance, PTL

(* While the session is started the indices, the count and the flags of    *)
(* the slots agree: the ready slots lie in a row from consume_index on,    *)
(* and produce_index and the claimed slot follow them.                     *)
THEOREM RingAgrees == Spec => []RingConsistent
<1>1. IInv => RingConsistent
  <2> SUFFICES ASSUME IInv, started PROVE RingConsistent  BY DEF RingConsistent
  <2>t. TypeOK /\ Alive  BY DEF IInv, ControlInv
  <2>0. consume_index \in Slots /\ ready_count \in 0 .. slot_count /\ slot_count \in Nat \ {0}
    BY <2>t, SizesAssumption DEF TypeOK
  <2>1. \A k \in Slots : SlotAt(k) = Wrap(consume_index + k)
    <3> TAKE k \in Slots
    <3>1. consume_index + k \in 0 .. 2 * slot_count - 1  BY <2>0 DEF Slots
    <3> QED  BY <3>1, WrapMod DEF SlotAt
  <2>2. {i \in Slots : slots[i].ready} = {SlotAt(k) : k \in 0 .. ready_count - 1}
    <3>1. \A k \in 0 .. ready_count - 1 : k \in Slots /\ k < ready_count  BY <2>0 DEF Slots
    <3>2. ASSUME NEW i \in Slots, slots[i].ready
          PROVE  i \in {SlotAt(k) : k \in 0 .. ready_count - 1}
      <4>1. Age(i) \in Slots /\ Wrap(consume_index + Age(i)) = i /\ Age(i) < ready_count
        BY <3>2, <2>t, Ages DEF IInv, RingInv
      <4>2. Age(i) \in 0 .. ready_count - 1 /\ SlotAt(Age(i)) = i
        BY <4>1, <2>0, <2>1 DEF Slots
      <4> QED  BY <4>2
    <3>3. ASSUME NEW k \in 0 .. ready_count - 1
          PROVE  SlotAt(k) \in Slots /\ slots[SlotAt(k)].ready
      <4>1. k \in Slots /\ k < ready_count  BY <3>1
      <4>2. SlotAt(k) \in Slots /\ Age(SlotAt(k)) = k  BY <4>1, <2>1, <2>t, Ages
      <4> QED  BY <4>1, <4>2 DEF IInv, RingInv
    <3> QED  BY <3>2, <3>3
  <2>3. Holding => ready_count < slot_count /\ claimed.slot = SlotAt(ready_count)
    BY <2>0, <2>1 DEF IInv, RingInv, Slots
  <2>4. ~producer_error => produce_index = SlotAt(ready_count + IF Holding THEN 1 ELSE 0)
    <3> SUFFICES ASSUME ~producer_error
                 PROVE  produce_index = SlotAt(ready_count + IF Holding THEN 1 ELSE 0)
      OBVIOUS
    <3>d. PICK d \in {0, 1} : d = IF Holding THEN 1 ELSE 0  OBVIOUS
    <3>1. produce_index = Wrap(consume_index + ready_count + d)
      BY <2>t, <3>d DEF IInv, RingInv
    <3>2. consume_index + ready_count + d \in 0 .. 2 * slot_count - 1
      BY <2>0, <2>3, <3>d DEF Slots
    <3>3. consume_index + (ready_count + d) = consume_index + ready_count + d
      BY <2>0 DEF Slots
    <3> QED  BY <3>1, <3>2, <3>3, <3>d, WrapMod DEF SlotAt
  <2>5. current_slot_index # None => current_slot_index = consume_index /\ ready_count > 0
    BY DEF IInv, CurrentInv
  <2> QED  BY <2>2, <2>3, <2>4, <2>5 DEF RingConsistent
<1> QED  BY <1>1, Invariance, PTL

-----------------------------------------------------------------------------
(* The stream: what each step is for whoever drains it.                    *)
Same == UNCHANGED <<produced, complete, delivered>>
Ended == started /\ end_of_stream

LEMMA StreamStep ==
    ASSUME \/ Same /\ (Ended' <=> Ended)
           \/ Same /\ ~Ended'
           \/ Same /\ Ended' /\ complete /\ Len(delivered) = produced
    PROVE  [Stream!Next]_(Stream!streamVars)
BY DEF Same, Ended, Stream!Next, Stream!streamVars, Stream!Close, Stream!End

(* Capacity: no more is ahead of the reader than the ready slots hold.     *)
LEMMA Capacity ==
    ASSUME IInv, Alive
    PROVE  /\ Published - Len(delivered) <= ready_count * slot_bytes
           /\ ready_count * slot_bytes \in Int /\ Len(delivered) \in Nat /\ Published \in Int
<1>t. TypeOK  BY DEF IInv
<1>1. /\ ready_count \in Nat /\ slot_bytes \in Nat /\ Len(delivered) \in Nat
      /\ produced \in Nat /\ claimed.size \in Nat /\ consume_index \in Slots
      /\ memory[consume_index] \in Nat /\ slots[consume_index].size \in 0 .. slot_bytes
      /\ current_slot_offset \in Nat /\ call.size \in Nat
  BY <1>t, SizesAssumption DEF TypeOK
<1>2. Published \in Int /\ Copied \in Nat  BY <1>1 DEF Published, Unsent, Copied
<1>3. ready_count * slot_bytes \in Int  BY <1>1
<1>4. CASE ready_count = 0
  <2>1. Published = Len(delivered) /\ ready_count * slot_bytes = 0
    BY <1>4, <1>1 DEF IInv, BytesInv
  <2> QED  BY <2>1, <1>1, <1>2, <1>3
<1>5. CASE ready_count > 0
  <2>1. slots[consume_index].ready /\ Age(consume_index) = 0
    BY <1>1, <1>5, <1>t, Ages DEF IInv, RingInv
  <2>2. Published - EndOf(consume_index) <= (ready_count - 1 - 0) * slot_bytes
    BY <2>1, <1>1 DEF IInv, ChainInv
  <2>3. (ready_count - 1 - 0) * slot_bytes = ready_count * slot_bytes - slot_bytes
        /\ (ready_count - 1 - 0) * slot_bytes \in Int
    <3>1. ready_count - 1 - 0 = ready_count - 1 /\ ready_count - 1 \in Int
          /\ ready_count - 1 + 1 = ready_count
      BY <1>1
    <3>2. /\ (ready_count - 1) * slot_bytes \in Int
          /\ (ready_count - 1 + 1) * slot_bytes = (ready_count - 1) * slot_bytes + slot_bytes
      BY <3>1, Product
    <3> QED  BY <3>1, <3>2, <1>1
  <2>4. memory[consume_index] + current_slot_offset + Copied = Len(delivered)
    BY <1>5 DEF IInv, BytesInv
  <2>5. EndOf(consume_index) = memory[consume_index] + slots[consume_index].size
    BY DEF EndOf
  <2>6. slots[consume_index].size \in Int /\ slots[consume_index].size <= slot_bytes
    BY <1>1
  <2>7. PICK m \in Int : m = (ready_count - 1 - 0) * slot_bytes  BY <2>3
  <2>8. Published - EndOf(consume_index) <= m /\ m = ready_count * slot_bytes - slot_bytes
    BY <2>2, <2>3, <2>7
  <2>a. ASSUME NEW a \in Nat, NEW b \in Nat, NEW c \in Nat, NEW d \in Nat, NEW e \in Int,
               NEW f \in Nat, a + b + c = d, e <= f
        PROVE  a + e \in Int /\ a + e <= d + f
    BY <2>a
  <2>9. EndOf(consume_index) \in Int /\ EndOf(consume_index) <= Len(delivered) + slot_bytes
    <3>1. PICK b \in Nat : b = current_slot_offset  BY <1>1
    <3>2. PICK e \in Int : e = slots[consume_index].size  BY <2>6
    <3>3. PICK d \in Nat : d = Len(delivered)  BY <1>1
    <3>4. PICK a \in Nat : a = memory[consume_index]  BY <1>1
    <3>5. PICK c \in Nat : c = Copied  BY <1>2
    <3>6. a + b + c = d /\ e <= slot_bytes  BY <2>4, <2>6, <3>1, <3>2, <3>3, <3>4, <3>5
    <3>7. a + e \in Int /\ a + e <= d + slot_bytes  BY <2>a, <3>6, <1>1
    <3> QED  BY <3>7, <2>5, <3>2, <3>3, <3>4
  <2>10. PICK w \in Int : w = ready_count * slot_bytes  BY <1>3
  <2>11. m = w - slot_bytes  BY <2>8, <2>10
  <2>12. Published - Len(delivered) <= w  BY <2>8, <2>9, <2>11, <1>1, <1>2
  <2> QED  BY <2>10, <2>12, <1>1, <1>2, <1>3
<1> QED  BY <1>1, <1>2, <1>3, <1>4, <1>5

LEMMA WholeRing ==
    /\ slot_count * slot_bytes \in Nat /\ slot_bytes <= slot_count * slot_bytes
    /\ \A r \in Nat : r < slot_count => r * slot_bytes + slot_bytes <= slot_count * slot_bytes
<1>1. slot_count \in Nat /\ slot_bytes \in Nat /\ slot_count > 0  BY SizesAssumption
<1>2. \A r \in Nat : r < slot_count => r * slot_bytes + slot_bytes <= slot_count * slot_bytes
  <2> TAKE r \in Nat
  <2> HAVE r < slot_count
  <2>1. r \in Int /\ r + 1 \in Int /\ slot_count \in Int /\ r <= slot_count /\ r + 1 <= slot_count
    BY <1>1
  <2>2. (r + 1) * slot_bytes = r * slot_bytes + slot_bytes  BY <2>1, Product
  <2>3. (r + 1) * slot_bytes <= slot_count * slot_bytes  BY <2>1, Product
  <2> QED  BY <2>2, <2>3
<1>3. 0 * slot_bytes + slot_bytes <= slot_count * slot_bytes  BY <1>1, <1>2
<1> QED  BY <1>1, <1>2, <1>3

(* A slot marked as the last one ends the stream when it is retired.       *)
LEMMA OldestEnds ==
    ASSUME IInv, Retire(consume_index), ready_count > 0, EndOf(consume_index) = Len(delivered),
           Same
    PROVE  [Stream!Next]_(Stream!streamVars)
<1>t. TypeOK  BY DEF IInv
<1>1. consume_index \in Slots /\ slots[consume_index].ready /\ Age(consume_index) = 0
  BY <1>t, Ages DEF IInv, RingInv, TypeOK
<1>2. CASE slots[consume_index].end_of_stream
  <2>1. complete /\ Age(consume_index) + 1 = ready_count /\ ~Holding
        /\ EndOf(consume_index) = Published
    BY <1>1, <1>2 DEF IInv, ChainInv
  <2>2. Published = produced
    <3>1. Unsent = 0  BY <2>1 DEF Unsent, Holding
    <3>2. produced \in Int  BY <1>t DEF TypeOK
    <3> QED  BY <3>1, <3>2 DEF Published
  <2> QED  BY <2>1, <2>2, StreamStep
<1>3. CASE ~slots[consume_index].end_of_stream
  <2>1. Ended' <=> Ended  BY <1>3, <1>t DEF Retire, Ended, TypeOK
  <2> QED  BY <2>1, StreamStep
<1> QED  BY <1>2, <1>3

(* An empty queue is the end when the producer is done.                    *)
LEMMA NothingEnds == ASSUME IInv, ReadSectionNothing PROVE [Stream!Next]_(Stream!streamVars)
<1>t. TypeOK /\ ControlInv  BY DEF IInv
<1>1. /\ Same /\ started' = started /\ ready_count = 0 /\ ~producer_error
      /\ end_of_stream' = (end_of_stream \/ producer_done)
  BY DEF ReadSectionNothing, NothingReady, Same, locals, history
<1>2. CASE ~started \/ ~producer_done
  <2>1. Ended' <=> Ended  BY <1>1, <1>2, <1>t DEF Ended, TypeOK
  <2> QED  BY <1>1, <2>1, StreamStep
<1>3. CASE started /\ producer_done
  <2>1. Alive /\ pc[Producer] \in ProducerLabels  BY <1>3, <1>t DEF ControlInv
  <2>2. complete /\ pc[Producer] # "publish"
    BY <1>1, <1>3, <2>1 DEF IInv, EndInv, Exiting, Alive, ProducerLabels
  <2>3. Published = Len(delivered)  BY <1>1, <2>1 DEF IInv, BytesInv
  <2>4. Published = produced  BY <2>2, <1>t DEF Published, Unsent, TypeOK
  <2> QED  BY <1>1, <2>2, <2>3, <2>4, StreamStep
<1> QED  BY <1>2, <1>3

LEMMA StopEnds ==
    ASSUME IInv, CallStop \/ StopClose \/ StopReset \/ StopJoin
    PROVE  [Stream!Next]_(Stream!streamVars)
<1>1. Same  BY DEF CallStop, StopClose, StopReset, StopJoin, Same, locals, history
<1>2. CASE CallStop
  <2>1. ~Ended'  BY <1>2 DEF CallStop, Ended
  <2> QED  BY <1>1, <2>1, StreamStep
<1>3. CASE StopClose
  <2>1. ~started /\ started' = started  BY <1>3 DEF IInv, ControlInv, StopClose, Goto
  <2> QED  BY <1>1, <2>1, StreamStep DEF Ended
<1>4. CASE StopReset \/ StopJoin
  <2>1. Ended' <=> Ended  BY <1>4 DEF StopReset, StopJoin, Ended, flags
  <2> QED  BY <1>1, <2>1, StreamStep
<1> QED  BY <1>2, <1>3, <1>4

LEMMA StartOpens == ASSUME IInv, Start PROVE [Stream!Next]_(Stream!streamVars)
BY DEF Start, Stream!Next, Stream!Open

LEMMA ReadProduces == ASSUME IInv, ProducerRead PROVE [Stream!Next]_(Stream!streamVars)
<1>t. TypeOK  BY DEF IInv
<1>p. PICK n \in 0 .. RequestBytes :
          /\ pc[Producer] = "read"
          /\ claimed' = [claimed EXCEPT
                           !.size = n,
                           !.eos = n < RequestBytes \/ n = 0 \/ remaining_bytes - n = 0]
          /\ produced' = produced + n /\ complete' = claimed'.eos
          /\ UNCHANGED <<delivered, started, end_of_stream>>
  BY DEF ProducerRead, Goto, flags
<1>1. Alive /\ Holding /\ ~complete  BY <1>p DEF Alive, Holding, IInv, EndInv
<1>2. n \in Nat /\ n <= slot_bytes
  BY <1>t, SizesAssumption DEF RequestBytes, TypeOK
<1>3. complete' \in BOOLEAN
  <2>1. PICK e \in BOOLEAN : e = (n < RequestBytes \/ n = 0 \/ remaining_bytes - n = 0)
    OBVIOUS
  <2> QED  BY <1>p, <2>1, <1>t DEF TypeOK
<1>4. produced + n - Len(delivered) <= slot_count * slot_bytes
  <2>1. /\ Published - Len(delivered) <= ready_count * slot_bytes
        /\ ready_count * slot_bytes \in Int /\ Len(delivered) \in Nat
    BY <1>1, Capacity
  <2>2. ready_count \in Nat /\ ready_count < slot_count /\ produced \in Nat
    BY <1>1, <1>t DEF IInv, RingInv, TypeOK
  <2>3. ready_count * slot_bytes + slot_bytes <= slot_count * slot_bytes
        /\ slot_count * slot_bytes \in Nat /\ slot_bytes \in Nat
    BY <2>2, WholeRing, SizesAssumption
  <2>4. Published = produced  BY <1>p, <2>2 DEF Published, Unsent
  <2> QED  BY <2>1, <2>2, <2>3, <2>4, <1>2
<1>5. n \in 0 .. slot_count * slot_bytes  BY <1>2, WholeRing, SizesAssumption
<1>6. Stream!Produce(n)  BY <1>p, <1>1, <1>3, <1>4 DEF Stream!Produce
<1> QED  BY <1>5, <1>6 DEF Stream!Next

LEMMA MemcpyDelivers == ASSUME IInv, ReadCopy PROVE [Stream!Next]_(Stream!streamVars)
<1>t. TypeOK  BY DEF IInv
<1>1. delivered' = delivered \o [k \in 1 .. call.size |-> Len(delivered) + k]
  BY MemcpyStep
<1>2. Len(delivered) + call.size <= produced
  BY DEF IInv, BytesInv, ReadCopy, Goto
<1>3. UNCHANGED <<produced, complete, started, end_of_stream>>
  BY DEF ReadCopy, flags
<1>4. Stream!Deliver(call.size)  BY <1>1, <1>2, <1>3 DEF Stream!Deliver
<1>5. call.size \in 0 .. slot_count * slot_bytes
  <2>1. call.size \in Nat /\ call.size <= slot_bytes /\ slot_bytes \in Nat
    BY <1>t, SizesAssumption DEF TypeOK
  <2> QED  BY <2>1, WholeRing
<1> QED  BY <1>4, <1>5 DEF Stream!Next

(* The other steps show the reader nothing.                                *)
LEMMA HiddenStep ==
    ASSUME UNCHANGED <<history, started, end_of_stream>>
    PROVE  [Stream!Next]_(Stream!streamVars)
BY StreamStep DEF Same, Ended, history

LEMMA NextStream == ASSUME IInv, [Next]_vars PROVE [Stream!Next]_(Stream!streamVars)
<1> USE DEF vars, ring, file, flags, locals
<1>1. CASE QuietProducer
  <2>1. UNCHANGED <<history, started, end_of_stream>>
    BY <1>1, SizesAssumption DEF QuietProducer, ProducerLoop, ProducerCheckLeft, Notify, LockFor,
       ProducerPredicate, Block, ProducerReadFails, ProducerSetDone, ProducerExit,
       SpuriousWakeup, ClaimSlot
  <2> QED  BY <2>1, HiddenStep
<1>2. CASE QuietConsumer /\ ~ReadSectionNothing
  <2>1. UNCHANGED <<history, started, end_of_stream>>
    BY <1>2 DEF QuietConsumer, CallReadNext, ReadEnter, ReadFastPath, LockFor,
       ReadPredicate, Block, ReadSectionError, SpuriousWakeup
  <2> QED  BY <2>1, HiddenStep
<1>3. CASE QuietOwner /\ ~CallStop
  <2>1. UNCHANGED <<history, started, end_of_stream>>
    BY <1>3 DEF QuietOwner, pause, resume, StartFails, StopJoin, Notify
  <2> QED  BY <2>1, HiddenStep
<1>4. CASE ClaimSlot \/ ProducerFail \/ ProducerPublish \/ ReadSectionCopy
  <2>1. UNCHANGED <<history, started, end_of_stream>>
    BY <1>4 DEF ClaimSlot, ProducerFail, ProducerPublish, ReadSectionCopy
  <2> QED  BY <2>1, HiddenStep
<1>5. CASE ReadSectionEmptySlot
  BY <1>5, EmptySlotRetires, OldestEnds DEF ReadSectionEmptySlot, Same, history
<1>6. CASE ReadFinish
  <2>1. Same  BY <1>6 DEF ReadFinish, Same, history
  <2>2. CASE Retire(consume_index) /\ ready_count > 0 /\ EndOf(consume_index) = Len(delivered)
    BY <2>1, <2>2, OldestEnds
  <2>3. CASE Advance
    BY <2>3, HiddenStep DEF Advance
  <2>4. CASE Retire(call.slot) /\ ~Alive
    <3>1. ~started /\ started' = started  BY <2>4 DEF IInv, ControlInv, Retire
    <3> QED  BY <2>1, <3>1, StreamStep DEF Ended
  <2> QED  BY <1>6, <2>2, <2>3, <2>4, FinishCases
<1>7. CASE UNCHANGED vars  BY <1>7, HiddenStep
<1>8. TypeOK  BY DEF IInv
<1> QED
  BY <1>1, <1>2, <1>3, <1>4, <1>5, <1>6, <1>7, <1>8, NextSteps, NothingEnds, StopEnds,
     StartOpens, ReadProduces, MemcpyDelivers

(* The session implements the ordered stream: whatever the producer, the   *)
(* reader and the owner do, readNext hands out the bytes of the range once *)
(* each and in order, at most slot_count slots ahead of the reader, and    *)
(* endOfStream() is true only when the last byte was copied out.           *)
THEOREM StreamsInOrder == Spec => ImplementsOrderedStream
<1>1. Init => Stream!Init  BY DEF Init, Stream!Init
<1>2. IInv /\ [Next]_vars => [Stream!Next]_(Stream!streamVars)  BY NextStream
<1> QED  BY <1>1, <1>2, Invariance, PTL DEF Spec, ImplementsOrderedStream, Stream!Spec
=============================================================================
