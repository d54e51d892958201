# A TLA+ development of Melosyne FileOp

Melosyne FileOp (`include/Center/File`, `src/PlatformFileWin32.cpp`) reads files for a
game engine: requests are planned into tasks and run on a thread pool, and large files
are streamed ahead of their consumer.  This directory holds TLA+ models of all its parts
that have behaviour, the TLC runs that check them and the TLAPS proofs about them.

## 1. The system

| component | state | operations | what makes it correct |
|---|---|---|---|
| `TripleReadBuffer` | three buffers, two index rings, two counting semaphores with atomic shadow counts, `consumer_current`, stop and error flags | `initialize`, `reset`, `acquireEmpty`, `releaseFilled`, `getCurrent`, `waitCurrent`, `switchToNext`, `requestStopWakeup`, `publishError` | a buffer has one owner; a semaphore is never released past its maximum; chunks arrive once and in order; a stop ends every wait |
| `StreamReadSessionAsync` | three slots, a mutex and two condition variables, positions, flags, a producer thread | `start`, `stop`, `pause`, `resume`, `readNext`, `tryReadNext` | the producer never fills a slot that is being copied; bytes arrive once and in order, the end after the last; no lost wakeup; `stop` returns |
| `StreamReadSession` | file, offset, bytes left, flags | the same, synchronous | bytes once and in order; a failed read can be retried |
| `FileReadPlanner` | none (`PlannerConfig`) | `makePlan`: validate, choose lane and method, split, sort, merge | the plan covers every valid request's bytes exactly once, with the destination each byte belongs to |
| `FileReadScheduler`, `ThreadCenterAdapter` | planner, executor, handle pool | `runRequests`, `runPlan`, `runViewRequests` | lanes run in order; an error stops what has not begun; a run that succeeds has executed every task |
| `ReadHandlePool` | thread-local map of open handles and their LRU list | `getReadHandle`, `clearCurrentThread` | what is kept are the paths used last, as many as the capacity; an entry's handle is its own |
| `GlobalFileScheduler` | one scheduler behind a mutex | `initialize`, `get`, `tryGet`, `shutdown` | no task reads with what a shutdown destroyed; `shutdown` returns |
| `PlatformFile` | a Win32 handle | `open*`, `close`, `readAt`, `readExactAt`, `writeAt`, `writeExactAt`, `resize`, `flush` | a transfer of several chunks lands where it belongs; a handle has one owner and is closed once |
| mappings of `FileReadScheduler` | file, section and view, shared by the views of a task | `openMapping`, `push_view`, dropping a view | a view lies in its mapping and the mapping outlives it |
| `BinaryReadHelper` | none | `readFileToSpan` | the bytes and the size belong to one version of the file |
| types, errors, build configuration, `modules/*.cppm` | none | | |

The streams call `PlatformFile::readAt`; the scheduler takes handles from the pool and
runs the planner's tasks through `ThreadCenterAdapter` on the ThreadCenter executor, an
external library.  `TripleReadBuffer` is the queue of the streaming design
(`docs/stream_triple_buffer_plan_v1.md`); its users are the tests, so its model's clients
are the protocol of the class: one producer, one consumer, anybody may stop.

Hard behaviour, component by component: semaphores and their shadow counts are changed by
separate atomic operations (`TripleReadBuffer`); two condition variables, flags stored
outside the mutex, copies and reads outside the mutex (`StreamReadSessionAsync`); a run
whose tasks fail while others run (`ThreadCenterAdapter`); a shutdown that races its users
(`GlobalFileScheduler`); handles that move between owners, whose values the system gives
out again (`PlatformFile`, `ReadHandlePool`, mappings); other handles that write to a file
somebody reads (`PlatformFile`).  `PROJECT.json` lists every hazard at its line.

## 2. Modules

| module | models |
|---|---|
| `OrderedStream` | what a stream promises: units read, handed out once each and in order, a bounded number in between, an end that comes last |
| `TripleReadBuffer` | `TripleReadBuffer.hpp` |
| `MCTripleReadBuffer` | its instances for TLC |
| `TripleReadBufferProofs`, `TripleReadBufferOrderProofs` | its theorems, about tokens and about buffers and chunks |
| `StreamReadSessionAsync` | `StreamReadSessionAsync.hpp` |
| `MCStreamReadSessionAsync` | its instances for TLC |
| `StreamReadSessionAsyncProofs` | its theorems |
| `FileReadPlanner` | `FileReadPlanner.hpp` and the types of `SchedulingTypes.hpp` |
| `MCFileReadPlanner` | its instances for TLC |
| `FileReadPlannerProofs` | its theorems |
| `FileReadScheduler` | `FileReadScheduler.hpp` with `ThreadCenterAdapter.hpp`; plans with an instance of `FileReadPlanner` |
| `MCFileReadScheduler` | its instances for TLC |
| `FileReadSchedulerProofs` | its theorems |
| `PlatformFile` | `PlatformFileWin32.cpp` and the system beneath it; extended by the next five |
| `StreamReadSession` | `StreamReadSession.hpp` |
| `BinaryReadHelper` | `BinaryReadHelper.hpp` |
| `MappedView` | `ScopedWinHandle`, `MappingBundle`, `openMapping` and `push_view` of `FileReadScheduler.hpp` |
| `ReadHandlePool` | `ReadHandlePool.hpp` |
| `GlobalFileScheduler` | `GlobalFileScheduler.hpp`, with the direct reads of `FileReadScheduler.hpp` through the pools |
| `FileService` | the composition of these six over one disk and one table of handles |
| `MCFileService` | its instances for TLC |
| `HandleProofs`, `FileServiceProofs`, `FileDataProofs` | its theorems, about handles, about mapped views, and about bytes, pools and the session's stream |

`OrderedStream` is the abstract specification; `TripleReadBuffer`, `StreamReadSessionAsync`
and `StreamReadSession` are shown to implement it, each under its own refinement mapping
(the `INSTANCE ... WITH` near the end of the module).  In `TripleReadBuffer` a unit is a
chunk and the capacity is `buffer_count`; in the sessions a unit is a byte and the
capacity the slots' bytes, or, without slots, the largest span.

### TripleReadBuffer

One step is one atomic operation of the code on shared state.  Operations on variables
only the stepping thread writes ride along: a pop reads both positions, reads the ring and
stores its own position in one step, because only the other position can change meanwhile
and it only grows.  Producer, consumer and stoppers each have a program counter `pc[t]`
whose labels follow the code: `acquireEmpty` is check → try → took → pop, or
blocked → woke → recheck → check; `safeRelease` is the successful compare-exchange (or the
refusal) followed by the semaphore's `release`.

| variable | code |
|---|---|
| `semaphore`, `count` | `empty_semaphore`/`filled_semaphore`, `empty_count`/`filled_count` |
| `ring`, `read_pos`, `write_pos` | `*_ring`, `*_read_pos`, `*_write_pos`; positions modulo `PosMod` (2^32) |
| `consumer_current`, `stop_requested`, `error_ready` | the fields of that name |
| `storage`, `contents` | `storage_ptr` is set; which chunk each buffer holds |
| `index`, `block` | the index a call has in its hand; `block_` |
| `sent`, `delivered` | chunks pushed; history of chunks handed to the consumer |

The clients are as free as the class allows.  The producer calls `acquireEmpty`, reads,
and either calls `releaseFilled` or publishes an error; the consumer calls `getCurrent`,
`waitCurrent` and `switchToNext` in any order; each stopper may request a stop or publish
an error any number of times.  A caller that was told of a cancellation or an error makes
no further call before the next `reset`.  The owner resets only while no call is in
progress: the code stores plain fields and drains semaphores there.  The value of the
error, the metadata of the views, the index and size checks at the head of `releaseFilled`
(the clients obey them) and a failing allocation are left out.  Memory is sequentially
consistent: every cross-thread access in the code is acquire/release or stronger on the
variable that guards it.  `try_acquire` fails only when the semaphore is zero, as the
platform's implementation does.

### StreamReadSessionAsync

One step is one critical section of `queue_mutex` or one access outside it.  A wait on a
condition variable is three steps, predicate under the mutex (`pred`), block and release
(`block` → `waiting`), take the mutex again (`woken` → `pred`), so that a notification can
fall between the predicate and the wait; a waiting thread may also wake by itself.  The
three flags `stop()` stores first (`started`, `paused`, `stop_requested`) are one step, and
its two notifications are one each.  `readAt` returns any number of bytes up to the
request or fails.  `memory[i]` is the file offset of the bytes in slot `i`, so that the
copy outside the mutex delivers what the slot's memory holds at that moment.  `delivered`,
`produced` and `complete` are history variables for the refinement.  The unlocked read of
`current_slot_index` in `tryReadNext` is a read of its present value.

Two things are required of the client and no more: one consumer thread, and no `readNext`
in flight or begun while `start` runs (`stop` may come at any moment).  The statistics
counters and the alignment of the slots are left out.

### FileReadPlanner

`makePlan` is sequential; a step is one round of one of its loops, so that the properties
speak of the tasks at every point between them.  `pc` is the loop (`stage`, `merge`,
`lanes`), `next` its index.  `StageRequest` stands for one request with its inner loop over
chunks, `SortTasks` for the sort, `MergeTask` for one round of `mergeTasks`, `DistributeTask`
for the lanes.  A path is its rank in `native()` order, so two spellings of one path are
not told apart; a pointer is a buffer and a position in it, `Null` is `nullptr`; offsets
stay below 2^64.  `Tasks` is the set of tasks that stand for the requests seen so far,
wherever they are.

### FileReadScheduler

A call of `runRequests` or `runViewRequests` (`out_views_given`): the planner's steps, then
the run of the plan.  `progress[k]` is where task `k` (its lane and place) stands:
waiting → running → succeeded, or failing (the flag is to be set) → recording (the error
is to be stored) → failed, or skipped, or, for views, view → callback for each segment.  A
step of a worker is one access to what workers share: the load of `has_error`, the whole
read or copy (destinations of requests are disjoint), a push into the list of views under
its mutex, a callback outside it, the store of `has_error`, the push of the error under its
mutex.  ThreadCenter is external: it runs any task whose gates are open on any of `Workers`
workers, and `wait` returns when all tasks are done.  A relaxed load of `has_error` that
misses a store of the same lane is a task that begins earlier.

`copied` is what was copied and where to, `out_views` the list, `callbacks` the history of
calls.  Which paths cannot be read (`unreadable`), whether the build has ThreadCenter and
whether it can map files are inputs.  Without ThreadCenter, or when the first error is
`function_not_supported`, the plan is run sequentially (`Dispatch`, `RunAgain`).  Left
out: bytes copied before a read fails in the middle.  The mappings and the pools are
modelled apart, in `MappedView` and `GlobalFileScheduler`.

### PlatformFile and the system

`disk` maps the paths that exist to their bytes, `open_handles` the handles that are open
to what the system knows of them, `native_handle` the objects that are open to their
handles.  An object is named by its thread and its place in the code: `<<"session",
"open_result">>` is the local of `start` before it is moved into `file_value`.  The system
gives out the lowest handle value that is free, so that a value closed by one object is
soon another's.  `CreateFileW` checks access and share mode against every handle of the
file, in both directions; the system may also be one that does not (`shares_enforced` is
false), for a file changed by somebody share modes do not bind.

A transfer is the record `io[c]` of its thread: `readAt` and `writeAt` begin it, `doRead`
and `doWrite` are one `ReadFile` or `WriteFile` of at most `max_io_chunk_bytes`, a short
write is possible at any length, and any chunk can fail (`IoFails`); a read that starts at
or after the end of the file only fails, as a `ReadFile` with an offset does.  Transfers
of several threads interleave by chunks, also through one `PlatformFile`.  The members
that are not const (`open`, `close`, `resize`, moving) are not called while others are in
a call; then nobody sees the file position that `resize` sets, so `resize` is one step.

### StreamReadSession, BinaryReadHelper, MappedView

One step is one call of the system, or one store that another thread can see.  `start` is
`StartStops` → `StartOpens` → `StartAdopts`, with `StartCannotOpen` and `StartRejects`
for its returns in between; `readNext` is `ReadBegins`, the transfer, then `ReadFails`, or
`ReadAdvances` and, at the last byte, the store of `end_of_stream`.  `pause` and `resume`
come at any moment.  `first`, `complete` and `delivered` are history for the refinement.
`readFileToSpan` is opening, looking at the size (which may fail, `SizeFails`) and comparing
it, reading, and returning.  A mapping is
opened, given a section and a view; `push_view` hands out one view per segment, the views
are dropped in any order, also before the last is handed out, and with the last and the
task's own pointer the mapping, the section and the file go.

### ReadHandlePool and GlobalFileScheduler

`pool[t]` is the thread-local state of thread `t` and where its `getReadHandle` stands: a
hit moves the path to the front; a miss opens first, then evicts from the tail while there
are as many as the capacity of the pool object that asks, then inserts.  `recent` is
history.  `instance` is the scheduler with the capacity of its configuration, `owner` the
thread that holds the mutex over several steps, which only `shutdown` does.  A user gets
the reference and runs a direct read of one path through it: the call begins and makes its
plan (`runRequests`), dispatches the task (`Dispatch`), waits for it, and returns once the
task has (`RunReturns`).  With ThreadCenter a worker takes the task and uses its own pool;
its pool ends with it when the scheduler is destroyed.  Without, the user's thread reads
through its own pool, which outlives the scheduler and meets the capacity of the next.

`shutdown` waits in `waitIdle` for the tasks that are dispatched and have not finished, and
for nothing else: not for a run whose task is still to be dispatched, not for one whose task
is done and which has still to come back from `runPlan`, and without ThreadCenter for no run
at all.  That none of these is short of its return when the scheduler is destroyed is the
users' duty (`NoRunUnwaited`), which nothing in the code enforces; the model takes it for
granted, as it does that a reference handed out before is not used after.  It is a guard of
`ShutdownResets` beside `waitIdle`, so a run may begin, be dispatched and return while a
shutdown waits.

### FileService

`clients` says who takes part in a behaviour; each action of the composition is a step of
one client or of one transfer and leaves the state of the others alone.

## 3. Runs

| run | bounds | shows |
|---|---|---|
| `trb_safety` | 3 buffers, 2 stoppers, 4 chunks, positions of 4 bits | `TypeOK`, `ReleaseWithinMax`, `CountMatchesTokens`, `OneOwner`, `TokensBacked`, `HeldViewStable`, `ImplementsOrderedStream` |
| `trb_liveness` | 3 buffers, 1 stopper, 4 chunks | `StopWakesProducer`, `StopWakesConsumer`, `ErrorReachesConsumer` |
| `trb_backpressure` | no stopper, 8 chunks | violation of `NoMutualWait` |
| `trb_stopwait` | 1 stopper, 4 chunks | violation of `StopInterruptsWait` |
| `trb_wrap` | no stopper, 20 chunks, positions of 4 bits | violation of `AcquireFindsEmptyBuffer` |
| `async_safety` | 3 slots of 2 bytes, files of 0 to 7 bytes, spans of 1 and 3 bytes | `TypeOK`, `NoSharedSlot`, `RingConsistent`, `ImplementsOrderedStream` |
| `async_liveness` | 3 slots of 1 byte, files of 0 to 4 bytes | `ReadyDataWakesReader`, `FreeSlotWakesProducer`, `StopWakesBlockedProducer`, `ReadingDrains` |
| `async_stop` | as `async_liveness` | violation of `StopReturns` |
| `planner` | up to 3 requests, ranges in 0..8, three configurations | `TypeOK`, `ExactCoverage`, `TasksSpanTheirSegments`, `MergedWithinMax`, `SortIsStrictWeakOrder`, `DueFirst`, `NothingLeftToMerge` |
| `scheduler` | plans of 3 requests of 8 kinds, 2 workers, 2 paths of which one may be unreadable, builds with and without ThreadCenter and mapping | `TypeOK`, `LanesInOrder`, `FailureEndsLaterLanes`, `AgreesWithSequential`, `ViewsCalledBack`, `SuccessServesDestinations`, `RunReturns` |
| `scheduler_views` | two requests for views of medium size | violation of `SuccessServesViews` |
| `file_service` | 3 files of 1 to 3 bytes, chunks of 2, 6 handles; eight programs: a session and a whole-file read, each beside a writer with and without share modes, mapped views beside a writer, two writers, two users and a worker, a user without ThreadCenter beside a writer | `TypeOK`, `HandlesOwnedOnce`, `ReadersSeeOneVersion`, `WritesLand`, `ViewsWithinMapping`, `PoolKeepsMostRecent`, `ImplementsOrderedStream`, `ShutdownReturns` |

Why the bounds are enough.  Three is the code's number of buffers and slots.  Four chunks
fill the ring and make the producer block once; two stoppers beside the consumer's recycle
put three releasers on one semaphore, and the counts saturate.  Seven bytes in slots of
two go round the ring with a partial last slot; a span of one byte needs two reads per
slot and one of three is cut to a slot.  Sixteen positions are, like 2^32, one more than a
multiple of three, and twenty chunks pass the wrap.  `trb_safety` stays below the wrap;
`trb_wrap` is the run that goes through it.  Three requests make three tasks to compare (a
strict weak order is about three), a merged task that meets another, and chunks of two
requests between each other; the ranges touch, overlap, nest and leave gaps of one, the
size of the permitted gap.  Each of the planner's deadlines and urgencies occurs with
each other in three requests.  Three tasks put one in every lane, or two at once in a lane
with one in the next, or leave a lane between empty.

In `file_service` a file of three bytes takes two chunks, the second shorter; the stream's
calls take it whole, in chunks of two read by spans of one and three, in part, or past its
end, and the writer truncates, cuts to two, extends and rewrites it meanwhile where share
modes do not keep it out.  Three paths and capacities of one and two make the order of
eviction visible and, on the thread of one user, two capacities meet.  The two tasks of
views begin on a multiple of the granularity and off it.  Six handles suffice for every
program: none ever waits for one.

Fairness.  The threads are scheduled by the operating system, so a thread inside a call
that can go on does go on (weak fairness); nobody is obliged to make a call.  Semaphores
and the mutex are not assumed to be fair.  `ReadingDrains` assumes in its statement that
the consumer keeps calling and that the session ends up started and not paused.  In
`FileReadScheduler` the caller and ThreadCenter go on while they can; `RunReturns` is then
that no gate and no wait is for a task that never finishes.  In `FileService` only the
threads of the scheduler have to go on, each with the task, run, call of the system or
`shutdown` it is in: what `ShutdownReturns` waits for and nothing else.  A user who has been
given a reference need not use it; one that does while a shutdown waits holds it up once,
since for another it needs the mutex.  Deadlock is checked except in
`trb_backpressure` and `trb_wrap`, where the end of the bounded file or the defect itself
stops the system, and in the planner's and the scheduler's runs, where the call returns.

## 4. What the code does and the documents say otherwise

* `trb_backpressure`: `acquireEmpty` drops the token it was woken with (line 115) and
  acquires another.  Three blocked acquisitions later no token is left, and producer and
  consumer wait for each other although two buffers are free.
* `trb_stopwait`: `waitCurrent` does not look at `stop_requested` before it blocks
  (line 331), and a stop that finds the filled count at its maximum adds no token.
* `trb_wrap`: `popEmptyIndex` compares raw positions (line 257) where `pushEmptyIndex`
  takes their wrapped difference.  When the write position has wrapped and the read
  position has not, `acquireEmpty` fails with empty buffers queued.
* `async_stop`: `stop()` stores and notifies without the mutex (line 118).  A producer
  between its predicate and its wait is not woken, and `join` does not return.
* `scheduler_views`: a view request below `large_file_threshold` is accepted without a
  destination and planned as a copy.  Alone it fails with `invalid_argument`; two
  neighbours merge into a copy whose segments have no destination and are skipped, and the
  run returns ok without a view.

## 5. Proofs

`TripleReadBufferProofs` proves, for every `buffer_count >= 1`, any finite set of
stoppers, any modulus of the positions above `buffer_count` and any number of chunks:

* `CountMatchesTokensAlways`: `Spec => []CountMatchesTokens`.
* `ReleaseWithinMaxAlways`: `Spec => []ReleaseWithinMax`.
* `TypeOKAlways`: `Spec => []TypeOK`.

The argument for the first two.  A thread that has raised a count and not yet released
the semaphore is in `Posting(s)`; one that has taken from the semaphore and not yet
lowered the count is in `Taking(s)`.  The inductive invariant `TokenInv` says that the
count is the semaphore plus those two sets' sizes, that counts and semaphores are within
`0 .. buffer_count`, and that the program counters are in their labels.  A step moves at
most one thread, so each step changes the cardinalities by at most one: `MoveThread` and
`GotoDebts` say by how much, once for all actions, and the lemmas `TakeTokenStep`,
`CountDownStep`, `ReleaseCountStep` and `ReleasePostStep` balance the equation for the four
kinds of token steps; all other steps leave the debts alone (`SettledStep`).
`ReleaseWithinMax` follows, since a count never passes `buffer_count`.  The bound
cannot be proved on its own: the count is tested before it is raised, and nothing but the
equation relates it to the semaphore.

`TypeOKAlways` adds `DataInv`: the types of the remaining variables, strengthened by three
facts about hands and program counters (a thread about to write or push has an index; a
producer looking for a buffer has a chunk to put in it).

`TripleReadBufferOrderProofs` proves what the buffers and the chunks do, for any number of
buffers and any finite set of stoppers, as long as no position comes back to zero
(`NoWrap == MaxChunks + buffer_count < PosMod`; with `PosMod` = 2^32, files of up to
2^32 - 4 chunks in three buffers).  The hypothesis is needed: beyond it `trb_wrap` shows
`acquireEmpty` failing with buffers queued.

* `OneOwnerBelowWrap`, `HeldViewStableBelowWrap` and `ChunksInOrder`
  (`Spec => ImplementsOrderedStream`) follow from `OrderInv`.  `PlaceInv` says that every
  index is in exactly one place, a position of a ring between its two counters or one of
  the three hands; `PushMoves`, `PopMoves` and `HandMoves` say once what moving an index
  from a hand to a ring, from a ring to a hand, or between hands does to that, and every
  action that moves one is one of those.  `ChunkInv` says which chunk is at which position of the filled ring,
  `HandInv` at which labels a hand can be full, and `PositionInv` that positions are the
  numbers of chunks sent and delivered, and how far the empty ring can have come: this is
  where `NoWrap` keeps `% PosMod` from mattering.  In the refinement every step is one of
  the actions of `OrderedStream` or a stutter.
* `TokensBackedBelowWrap` and `AcquireFindsEmptyBufferBelowWrap` follow from `BackedInv`
  (until a stop the tokens and the steps that owe one are no more than the ring holds) and
  `StopInv` (who can break that): only a thread that stops the stream releases a token
  without a buffer, and a producer hands one back only after that.

`StreamReadSessionAsyncProofs` proves `TypeCorrect`, `SlotsNotShared`, `RingAgrees` and
`StreamsInOrder` (`Spec => ImplementsOrderedStream`) for any number and size of slots, any
file and any destinations.  None of the three invariants is inductive.  `IInv` adds to the
types who can be where while the owner stops and starts (`ControlInv`), that the ready
slots are the `ready_count` slots from `consume_index` on with the claimed one behind them
(`RingInv`; `Age` is a slot's distance from the oldest), that a reader outside the mutex is
still in the oldest slot or the session was stopped meanwhile (`CurrentInv`), that the
slots' bytes follow each other in the file from the last one handed out to the last one
published (`ChainInv`, `BytesInv`), and when the last byte was read (`EndInv`).
`SlotsNotShared` then holds because the claimed slot has age `ready_count`, and the slot
being copied has age 0 in a ring that is not empty.

`FileReadPlannerProofs` proves every property of the run `planner`, for every set of
request arrays, configurations and times.

* `SortIsStrictWeakOrderAlways`: `BeforeIsStrictWeakOrder` proves it for any three tasks,
  from the same fact about the last five keys (`RankOrder`) and from lanes and urgencies
  having distinct numbers.
* `TypeOKAlways`, `TasksSpanTheirSegmentsAlways`, `MergedWithinMaxAlways`: the inductive
  invariant `PlanInv` says that every task, wherever it stands, is in `SoundTasks`: it has
  its type, spans its segments and is within the limit if it was merged.  A split, a single
  task and a merge make sound tasks of sound ones.
* `DueFirstAlways`: `Sorted` is shown to be a permutation in the order of the comparison
  (`PlaceTaken` counts the tasks before each one, `SortedTasks` inverts it).  `OrderInv`
  carries the order through the merge, whose result keeps the keys of the task in front,
  and into the lanes.
* `NothingLeftToMergeAlways`: `ApartInv`, with `ConsumeStaysApart`: a task that has grown is
  not within reach of the one before it.
* `ExactCoverageAlways`: `Spec => [](Distinct(requests) => ExactCoverage)`.  `CoverInv` lays
  the tasks out as pieces, each a segment with its request, its range and its place in the
  destination, and says that they are exactly the accepted requests so far; splitting
  cuts a piece without gap or overlap, sorting and distributing renumber pieces, merging
  joins the lists of two tasks.  `Distinct` (no two requests have one id) is needed because
  a segment says only by its id whose bytes it is; every array in the runs satisfies it.

`FileReadSchedulerProofs` proves every safety property of the run `scheduler`, for every
plan, any number of workers, any set of faults and every build.  The scheduler's planner is
an instance of `FileReadPlanner` and its proofs are another; the lemmas `SameInit` to
`PlannerRuns` show that they are the same machine, so that the theorems on plans apply.

* `RunTypeOK`, `LanesInOrderAlways`, `FailureEndsLaterLanesAlways` and
  `AgreesWithSequentialAlways` follow from `RunInv`.  A task that has begun has the earlier
  lanes finished, and succeeded unless it was skipped (`LaneInv`); who failed did so for a
  fault of its own, has stored `has_error` before its error and its error before its gate
  opens, and every error stored is of a task that failed (`OutcomeInv`).  So the first
  error, by lane, is a fault of the first lane with one.
* `SuccessServesDestinationsAlways` and
  `ViewsCalledBackAlways` (`Spec => [](Proved!Distinct(requests) => ViewsCalledBack)`)
  follow from `EffectInv`.  `ViewInv` says which views each task has handed out and which of
  them were called back (`GivenCount`, `CalledCount`, from its label and segment) and that
  the lists hold just those, each once; `CopyInv` that a task which succeeded has copied what
  it had to.  When a run returns ok all tasks have succeeded (`RanInv`), and by the
  planner's `CoverInv` all tasks are all bytes.  `Distinct` is needed for the same reason as
  above: two requests for one range with one id have views nobody can tell apart.

`HandleProofs` proves `HandlesOwnedOnceAlways`: `Spec => []HandlesOwnedOnce`, for any
handle values, clients, users, workers, paths and capacities.  A handle changes hands in
four ways, each with a lemma: it is given to an object that had none (`GiveOwns`; the lowest
free value exists because the natural numbers are well ordered), an object opens a file
(`OpenOwns`), objects close (`CloseOwns`), one is moved to another (`MoveOwns`).  Each
says that handles still have one owner (`OwnedOnce`) and that every other object keeps its
handle and what the handle is for (`Keeps`).  `HandlesOwnedOnce` is not inductive: that a
miss does not open a second file needs the pool to be between calls, that nothing reads
through a pool emptied by `shutdown` needs its thread to have no task, and this needs that
every thread that has one runs it for a user of its own.  `HandlesInv` therefore says, for each
client, at which labels which of its objects are open and which transfer it can be in
(`SessionOK`, `HelperOK`, `MapperOK`, `WriterOK`, `PoolOK`), and for the tasks that no two
threads run for one user (`JobsOK`).  Each client's step keeps its own part and leaves alone
the objects that do not begin with its name; the frame lemmas do the rest.

`FileServiceProofs` proves `ViewsWithinMappingAlways`: `Spec => []ViewsWithinMapping`, for
every granularity and every task.  `MappingInv` says that an open bundle is based on the
multiple of the granularity at or below its task's offset, that its views are made of the
task's segments and only once it is mapped, and that its file is open; nobody else closes
that file (`SessionKeeps` to `SchedulerKeeps`).  `MappingInvImplies` is the arithmetic: the
mapped size is the task's size and the distance to that multiple, so a segment within the
task lies within the mapping.

`FileDataProofs` proves the rest of the safety properties of `FileService`, on top of `HandlesInv`.
`FileStep` lists what a step of any client can do to the disk and the handles (open, close,
move, make a section, write, resize) and `IoStep` what it can do to one thread's transfer
(begin, go on, end); `NextData` shows once that every step of `Next` is one of these, and
the proofs below split on them and not on the actions.

* `FileTypesAlways` follows from `DataTypes`: contents are sequences of numbers, a
  transfer's count stays within its size (`ChunkSize` never passes what is left), a session
  reads no more than remains of its range.
* `WritesLandAlways` (`WritesApart` implies `Spec => []WritesLand`).  `LandInv` says that a
  transfer's bytes so far are in the file at its offset.  A chunk adds to them where they
  end (`OwnWriteLands`), a chunk of somebody else lies elsewhere (`OtherWriteLands`), and
  nobody closes, reopens or cuts the file under a writer (`WriterFileStays`).
  `WritesApart`, that no two threads write to the same bytes, is needed: positioned writes
  order nothing, so of two that overlap the later one stays.  The writes of the run satisfy
  it.
* `ReadersSeeOneVersionAlways`.  `SharesInv` says that no two open handles of a file are in
  conflict with each other's share modes; so while somebody has a file open who lets no
  writer in, every step that changes bytes changes another file (`ExclusiveStays`).
  `SeenInv` follows, then `ReadInv`, that the bytes a read has brought are those of the
  file, and `SessionVersion` and `HelperVersion`, that the size looked at still holds.
* `PoolKeepsMostRecentAlways`.  `MostRecent` strengthens the property with what it rests on:
  no path is twice in the history.  `MoveFound` says where each path stands after one moved
  to the front, `HitLists`, `InsertLists` and `EvictLists` that hit, insertion and eviction
  keep `MostRecent`; `Count` turns the number of entries the code compares with the capacity
  into the length of the list.  That the capacity is a number needs the scheduler to exist
  for as long as somebody runs a task through it, which `InstanceInv` says: only a
  shutdown takes it away, it keeps the mutex to its end, and when it destroys the scheduler
  nobody is in a run, be it that `waitIdle` waited for it or that its user had to.
* `SessionStreamsInOrder` (`Spec => ImplementsOrderedStream`).  `StreamInv` says that the
  next byte to read is the one behind those handed out, that a read which is under way
  begins there and is no longer than the span it fills, and when the last read is behind
  the session but its end not yet stored.  `StreamOpens`, `StreamProduces`,
  `StreamDelivers` and `StreamEnds` state the actions of `OrderedStream` in the session's
  terms; a start or a stop opens a stream, the return of `readAt` produces, `readNext`
  delivers and then ends it, and a read that came back with nothing or failed is a
  stutter.  Everybody else leaves the session, its transfer and its file alone
  (`StreamFrame`).

Assumptions: `InputsAssumption` for the planner and the same of the scheduler's planner
(`PlannerAssumption`); `BufferCountAssumption`, `ThreadsAssumption` and `BoundsAssumption`
for the buffer; `SizesAssumption` and its own `ThreadsAssumption` for the session;
`PlatformAssumption`, `ClientsAssumption` (threads of different kinds are different
threads), `GranularityAssumption` and `ViewTasksAssumption` (the segments of a task lie in
its range, which `TasksSpanTheirSegmentsAlways` proves of the planner),
`StreamAssumption`, `SpanCallsAssumption` and `SchedulerAssumption` (sizes, offsets and
capacities are natural numbers, and one of the spans given to `readNext` is the longest: it
is the stream's `Capacity`) for `FileService`.
TLC evaluates them in every run of those modules.  The hypotheses `NoWrap`,
`Distinct` and `WritesApart` stand in the theorems that need them.

Model-checked only: liveness, since TLAPS has no ENABLED.

## 6. Plan

Done: every component of section 1 that has behaviour is modelled, and every safety
property that a passing run checks is proved: invariants, action properties, and the
refinement of `OrderedStream` by all three streams.

## 7. Not modelled

Types, errors and build configuration (declarations without behaviour), the C++ module
interfaces (they export the same headers), benchmarks and examples.  Of modelled
components: statistics counters, `flush`, hints and attributes of a file, and
`isInitialized`, which change nothing that is modelled; the callbacks of view requests
inside `GlobalFileScheduler`; a second process.  Memory orders weaker than sequential
consistency, allocation failures, and the contents of errors are outside the models.
`PROJECT.json` lists the hazards no property covers, each with its reason.
