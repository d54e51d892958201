----------------------- MODULE FileReadPlannerProofs -----------------------
(***************************************************************************)
(* Theorems about FileReadPlanner, for every array of requests and every   *)
(* configuration: types; the comparison given to std::stable_sort is a     *)
(* strict weak order; tasks span their segments and stay within the limit  *)
(* of the merge; lanes are in order of their deadlines, with nothing left  *)
(* to merge; and every byte of every accepted request is planned once.     *)
(***************************************************************************)
EXTENDS FileReadPlanner, FiniteSetTheorems, SequenceTheorems, TLAPS

-----------------------------------------------------------------------------
(* The comparison.                                                         *)

(* A number for every lane, and one for every urgency, none of them twice. *)
LEMMA Numbers ==
    /\ \A a, b \in ReadLane : /\ laneNumber[a] \in Nat
                              /\ laneNumber[a] = laneNumber[b] => a = b
    /\ \A a, b \in ReadUrgency : /\ urgencyScore[a] \in Nat
                                 /\ urgencyScore[a] = urgencyScore[b] => a = b
BY DEF ReadLane, ReadUrgency, laneNumber, urgencyScore

(* Of tasks with the same lane and deadline: urgency, path, offset, size   *)
(* and request decide, and a task of equal rank is a task with equal keys. *)
LEMMA RankOrder ==
    ASSUME NEW x \in PlannedReadTask, NEW y \in PlannedReadTask,
           NEW z \in PlannedReadTask
    PROVE  /\ ~BeforeByRank(x, x)
           /\ BeforeByRank(x, y) => ~BeforeByRank(y, x)
           /\ BeforeByRank(x, y) /\ BeforeByRank(y, z) => BeforeByRank(x, z)
           /\ (~BeforeByRank(x, y) /\ ~BeforeByRank(y, x)
               /\ ~BeforeByRank(y, z) /\ ~BeforeByRank(z, y))
                  => ~BeforeByRank(x, z)
BY Numbers, SMTT(30) DEF BeforeByRank, PlannedReadTask

LEMMA BeforeIsStrictWeakOrder ==
    ASSUME NEW x \in PlannedReadTask, NEW y \in PlannedReadTask,
           NEW z \in PlannedReadTask
    PROVE  /\ ~Before(x, x)
           /\ Before(x, y) => ~Before(y, x)
           /\ Before(x, y) /\ Before(y, z) => Before(x, z)
           /\ Incomparable(x, y) /\ Incomparable(y, z) => Incomparable(x, z)
<1>1. \A t \in {x, y, z} :
        /\ t \in PlannedReadTask /\ t.deadline_ticks \in Nat
        /\ t.lane \in ReadLane /\ laneNumber[t.lane] \in Nat
  BY Numbers DEF PlannedReadTask
<1>2. \A s, t \in {x, y, z} : laneNumber[s.lane] = laneNumber[t.lane] => s.lane = t.lane
  BY <1>1, Numbers
<1>3. ~Before(x, x)
  BY RankOrder DEF Before
<1>4. Before(x, y) => ~Before(y, x)
  <2>1. BeforeByRank(x, y) => ~BeforeByRank(y, x)
    BY RankOrder
  <2> QED
    BY <1>1, <1>2, <2>1 DEF Before
<1>5. Before(x, y) /\ Before(y, z) => Before(x, z)
  <2>1. BeforeByRank(x, y) /\ BeforeByRank(y, z) => BeforeByRank(x, z)
    BY RankOrder
  <2> QED
    BY <1>1, <1>2, <2>1 DEF Before
<1>6. Incomparable(x, y) /\ Incomparable(y, z) => Incomparable(x, z)
  <2>1. \A s, t \in {x, y, z} : Incomparable(s, t) <=>
            /\ s.lane = t.lane /\ s.deadline_ticks = t.deadline_ticks
            /\ ~BeforeByRank(s, t) /\ ~BeforeByRank(t, s)
    BY <1>1, <1>2 DEF Before, Incomparable
  <2>2. (~BeforeByRank(x, y) /\ ~BeforeByRank(y, x)
         /\ ~BeforeByRank(y, z) /\ ~BeforeByRank(z, y))
            => ~BeforeByRank(x, z) /\ ~BeforeByRank(z, x)
    BY RankOrder
  <2> QED
    BY <2>1, <2>2
<1> QED
  BY <1>3, <1>4, <1>5, <1>6

-----------------------------------------------------------------------------
(* What is staged are tasks.                                               *)

(* n whole chunks and less than one make n * chunk bytes at least.         *)
LEMMA Chunks ==
    ASSUME NEW size \in Nat \ {0}, NEW chunk \in Nat \ {0},
           NEW k \in 1 .. (size + chunk - 1) \div chunk
    PROVE  (k - 1) * chunk \in 0 .. size - 1
<1> DEFINE total == size + chunk - 1
           q     == total \div chunk
<1>1. total \in Nat /\ q \in Nat /\ q * chunk <= total
  BY SMTT(30)
<1>2. k \in 1 .. q
  OBVIOUS
<1> HIDE DEF q
<1>3. k * chunk <= q * chunk
  BY <1>1, <1>2, SMTT(30)
<1>4. (k - 1) * chunk = k * chunk - chunk /\ (k - 1) * chunk \in Nat
  BY <1>2, <1>1, SMTT(30)
<1> QED
  BY <1>1, <1>3, <1>4

(* A task that spans its segments and, if it was merged, is within the      *)
(* limit.                                                                  *)
WithinMax(t) == Len(t.segments) > 1 => t.size_bytes <= config.merge_max_bytes
SoundTasks == {t \in PlannedReadTask : SpansItsSegments(t) /\ WithinMax(t)}

LEMMA SingleTaskSound ==
    ASSUME NEW r \in ReadRequest, NEW at \in Nat, NEW size \in Nat
    PROVE  makeSingleTask(r, at, size) \in SoundTasks
<1>1. Advance(r.destination, at) \in Pointer
  BY DEF Advance, Pointer, ReadRequest, Null
<1>2. selectLane(r) \in ReadLane /\ selectMethod(r) \in ReadMethod
  BY DEF selectLane, selectMethod, ReadLane, ReadMethod
<1>3. r.offset + at \in Nat /\ r.request_id \in Nat
  BY DEF ReadRequest
<1>4. << [source_offset |-> r.offset + at, size_bytes |-> size,
          destination |-> Advance(r.destination, at), request_id |-> r.request_id] >>
        \in Seq(ReadSegment)
  BY <1>1, <1>3 DEF ReadSegment
<1>5. makeSingleTask(r, at, size) \in PlannedReadTask
  BY <1>1, <1>2, <1>3, <1>4 DEF makeSingleTask, PlannedReadTask, ReadRequest
<1>6. PICK t : t = makeSingleTask(r, at, size)  OBVIOUS
<1>7. /\ t.offset = r.offset + at /\ t.size_bytes = size
      /\ Len(t.segments) = 1 /\ DOMAIN t.segments = {1}
      /\ t.segments[1].source_offset = r.offset + at /\ t.segments[1].size_bytes = size
      /\ t.segments[1].destination = t.destination
  BY <1>6 DEF makeSingleTask
<1>8. SpansItsSegments(t)  BY <1>3, <1>7 DEF SpansItsSegments, EndOf
<1>9. WithinMax(t)  BY <1>7 DEF WithinMax
<1> QED
  BY <1>5, <1>6, <1>8, <1>9 DEF SoundTasks

LEMMA TasksOfSound ==
    ASSUME NEW r \in ReadRequest, config \in PlannerConfig
    PROVE  TasksOf(r) \in Seq(SoundTasks)
<1>1. CASE ~isValidRequest(r)
  BY <1>1 DEF TasksOf
<1>2. CASE isValidRequest(r) /\ ~shouldSplit(r)
  BY <1>2, SingleTaskSound DEF TasksOf, isValidRequest, ReadRequest
<1>3. CASE isValidRequest(r) /\ shouldSplit(r)
  <2> DEFINE chunk   == config.split_chunk_bytes
             q       == (r.size_bytes + chunk - 1) \div chunk
             left(k) == r.size_bytes - (k - 1) * chunk
             part(k) == IF left(k) < chunk THEN left(k) ELSE chunk
  <2>1. chunk \in Nat \ {0} /\ r.size_bytes \in Nat \ {0}
    BY <1>3 DEF isValidRequest, shouldSplit, ReadRequest, PlannerConfig
  <2>2. q \in Nat
    BY <2>1, SMTT(30)
  <2>3. ASSUME NEW k \in 1 .. q
        PROVE  makeSingleTask(r, (k - 1) * chunk, part(k)) \in SoundTasks
    <3>1. (k - 1) * chunk \in 0 .. r.size_bytes - 1
      BY <2>1, Chunks
    <3>2. part(k) \in Nat
      <4> HIDE DEF q
      <4> QED
        BY <2>1, <3>1
    <3> QED
      BY <3>1, <3>2, SingleTaskSound
  <2>4. SplitTasks(r) = [k \in 1 .. q |-> makeSingleTask(r, (k - 1) * chunk, part(k))]
    BY DEF SplitTasks
  <2>5. TasksOf(r) = SplitTasks(r)
    BY <1>3 DEF TasksOf
  <2> HIDE DEF q, part
  <2> QED
    BY <2>2, <2>3, <2>4, <2>5
<1> QED
  BY <1>1, <1>2, <1>3

-----------------------------------------------------------------------------
(* The sort.  Task i is to stand before task j: it comes before it, or it  *)
(* does not come after it and stood before it.                             *)
Precedes(tasks, i, j) ==
    \/ Before(tasks[i], tasks[j])
    \/ i < j /\ ~Before(tasks[j], tasks[i])

LEMMA NegativelyTransitive ==
    ASSUME NEW x \in PlannedReadTask, NEW y \in PlannedReadTask, NEW z \in PlannedReadTask,
           ~Before(x, y), ~Before(y, z)
    PROVE  ~Before(x, z)
<1>1. Before(x, z) /\ Before(z, y) => Before(x, y)  BY BeforeIsStrictWeakOrder
<1>2. Before(y, x) /\ Before(x, z) => Before(y, z)  BY BeforeIsStrictWeakOrder
<1>3. Incomparable(x, y) /\ Incomparable(y, z) => Incomparable(x, z)
  BY BeforeIsStrictWeakOrder
<1> QED  BY <1>1, <1>2, <1>3 DEF Incomparable

LEMMA PrecedesOrder ==
    ASSUME NEW tasks \in Seq(PlannedReadTask), NEW i \in DOMAIN tasks,
           NEW j \in DOMAIN tasks, NEW k \in DOMAIN tasks
    PROVE  /\ ~Precedes(tasks, i, i)
           /\ i # j => Precedes(tasks, i, j) \/ Precedes(tasks, j, i)
           /\ Precedes(tasks, i, j) /\ Precedes(tasks, j, k) => Precedes(tasks, i, k)
<1>0. i \in Nat /\ j \in Nat /\ k \in Nat  OBVIOUS
<1>1. PICK x \in PlannedReadTask : x = tasks[i]  OBVIOUS
<1>2. PICK y \in PlannedReadTask : y = tasks[j]  OBVIOUS
<1>3. PICK z \in PlannedReadTask : z = tasks[k]  OBVIOUS
<1>4. ~Before(x, x) /\ (Before(x, y) => ~Before(y, x)) /\ (Before(y, z) => ~Before(z, y))
      /\ (Before(x, z) => ~Before(z, x))
  BY BeforeIsStrictWeakOrder
<1>5. ~Before(z, y) /\ ~Before(y, x) => ~Before(z, x)  BY NegativelyTransitive
<1>6. ~Before(x, z) /\ ~Before(z, y) => ~Before(x, y)  BY NegativelyTransitive
<1>7. ~Before(y, x) /\ ~Before(x, z) => ~Before(y, z)  BY NegativelyTransitive
<1> QED  BY <1>0, <1>1, <1>2, <1>3, <1>4, <1>5, <1>6, <1>7 DEF Precedes

(* A task's place is in the array, and those that precede it have the      *)
(* smaller ones.                                                           *)
LEMMA Places ==
    ASSUME NEW tasks \in Seq(PlannedReadTask), NEW i \in DOMAIN tasks
    PROVE  /\ Place(tasks, i) \in DOMAIN tasks
           /\ \A j \in DOMAIN tasks : Precedes(tasks, i, j) => Place(tasks, i) < Place(tasks, j)
<1> DEFINE Preds(k) == {j \in DOMAIN tasks : Precedes(tasks, j, k)}
<1>1. /\ DOMAIN tasks = 1 .. Len(tasks) /\ Len(tasks) \in Nat
      /\ IsFiniteSet(DOMAIN tasks) /\ Cardinality(DOMAIN tasks) = Len(tasks)
  <2>1. DOMAIN tasks = 1 .. Len(tasks) /\ Len(tasks) \in Nat  OBVIOUS
  <2>2. IsFiniteSet(1 .. Len(tasks))
        /\ Cardinality(1 .. Len(tasks)) = IF 1 > Len(tasks) THEN 0 ELSE Len(tasks) - 1 + 1
    BY <2>1, FS_Interval
  <2> QED  BY <2>1, <2>2
<1>2. ASSUME NEW k \in DOMAIN tasks
      PROVE  /\ IsFiniteSet(Preds(k)) /\ Cardinality(Preds(k)) \in Nat
             /\ Place(tasks, k) = 1 + Cardinality(Preds(k))
  <2>1. IsFiniteSet(Preds(k)) /\ Cardinality(Preds(k)) \in Nat
    BY <1>1, FS_Subset, FS_CardinalityType
  <2>2. Preds(k) = {j \in DOMAIN tasks : \/ Before(tasks[j], tasks[k])
                                         \/ j < k /\ ~Before(tasks[k], tasks[j])}
    BY DEF Precedes
  <2> QED  BY <2>1, <2>2 DEF Place
<1>3. ASSUME NEW j \in DOMAIN tasks, Precedes(tasks, i, j)
      PROVE  Place(tasks, i) < Place(tasks, j)
  <2>1. Preds(i) \in SUBSET Preds(j)  BY <1>3, PrecedesOrder
  <2>2. i \in Preds(j) /\ i \notin Preds(i)  BY <1>3, PrecedesOrder
  <2>3. Cardinality(Preds(i)) <= Cardinality(Preds(j))
        /\ (Cardinality(Preds(i)) = Cardinality(Preds(j)) => Preds(i) = Preds(j))
    BY <1>2, <2>1, FS_Subset
  <2>4. Cardinality(Preds(i)) # Cardinality(Preds(j))  BY <2>2, <2>3
  <2> HIDE DEF Preds
  <2> QED  BY <1>2, <2>3, <2>4
<1>4. Cardinality(Preds(i)) < Len(tasks)
  <2>1. Preds(i) \in SUBSET DOMAIN tasks /\ i \notin Preds(i)  BY PrecedesOrder
  <2>2. Cardinality(Preds(i)) <= Len(tasks)
        /\ (Len(tasks) = Cardinality(Preds(i)) => DOMAIN tasks = Preds(i))
    BY <1>1, <2>1, FS_Subset
  <2> HIDE DEF Preds
  <2> QED  BY <1>1, <1>2, <2>1, <2>2
<1> HIDE DEF Preds
<1> QED  BY <1>1, <1>2, <1>3, <1>4

(* Every place is taken by one task.                                       *)
LEMMA PlaceTaken ==
    ASSUME NEW tasks \in Seq(PlannedReadTask), NEW p \in DOMAIN tasks
    PROVE  \E i \in DOMAIN tasks : Place(tasks, i) = p
<1> SUFFICES ASSUME \A i \in DOMAIN tasks : Place(tasks, i) # p PROVE FALSE
  OBVIOUS
<1> DEFINE n == Len(tasks)
           f == [i \in 1 .. n |-> Place(tasks, i)]
<1>1. DOMAIN tasks = 1 .. n /\ n \in Nat /\ n >= 1  OBVIOUS
<1>2. /\ IsFiniteSet(1 .. n) /\ Cardinality(1 .. n) = n
      /\ IsFiniteSet((1 .. n) \ {p}) /\ Cardinality((1 .. n) \ {p}) = n - 1
  <2>1. IsFiniteSet(1 .. n) /\ Cardinality(1 .. n) = IF 1 > n THEN 0 ELSE n - 1 + 1
    BY <1>1, FS_Interval
  <2>2. IsFiniteSet(1 .. n) /\ Cardinality(1 .. n) = n  BY <1>1, <2>1
  <2>3. IsFiniteSet((1 .. n) \ {p})
        /\ Cardinality((1 .. n) \ {p}) = IF p \in 1 .. n THEN Cardinality(1 .. n) - 1
                                         ELSE Cardinality(1 .. n)
    BY <2>2, FS_RemoveElement
  <2> QED  BY <1>1, <2>2, <2>3
<1>3. f \in [1 .. n -> (1 .. n) \ {p}]  BY <1>1, Places
<1>4. Cardinality((1 .. n) \ {p}) < Cardinality(1 .. n)  BY <1>1, <1>2
<1> HIDE DEF f, n
<1>5. PICK i, j \in 1 .. n : i # j /\ f[i] = f[j]
  <2>1. PICK S, T : S = 1 .. n /\ T = (1 .. n) \ {p}  OBVIOUS
  <2>2. /\ IsFiniteSet(S) /\ IsFiniteSet(T) /\ Cardinality(T) < Cardinality(S)
        /\ f \in [S -> T]
    BY <1>2, <1>3, <1>4, <2>1
  <2>3. \E x, y \in S : x # y /\ f[x] = f[y]  BY <2>2, FS_PigeonHole
  <2> QED  BY <2>1, <2>3
<1>6. Place(tasks, i) = Place(tasks, j)  BY <1>5 DEF f
<1>7. Precedes(tasks, i, j) \/ Precedes(tasks, j, i)  BY <1>1, <1>5, PrecedesOrder
<1>8. Place(tasks, i) < Place(tasks, j) \/ Place(tasks, j) < Place(tasks, i)
  BY <1>1, <1>7, Places
<1>9. Place(tasks, i) \in Nat /\ Place(tasks, j) \in Nat  BY <1>1, Places
<1> QED  BY <1>6, <1>8, <1>9

(* The sorted array has the tasks of the array, each of them once, and     *)
(* none stands after one it comes before.                                  *)
LEMMA SortedTasks ==
    ASSUME NEW tasks \in Seq(PlannedReadTask)
    PROVE  /\ DOMAIN Sorted(tasks) = 1 .. Len(tasks)
           /\ \A p \in 1 .. Len(tasks) : \E i \in DOMAIN tasks : Sorted(tasks)[p] = tasks[i]
           /\ \A i \in DOMAIN tasks : \E p \in 1 .. Len(tasks) : Sorted(tasks)[p] = tasks[i]
           /\ \A p, q \in 1 .. Len(tasks) :
                 p < q => ~Before(Sorted(tasks)[q], Sorted(tasks)[p])
<1> DEFINE From(p) == CHOOSE i \in DOMAIN tasks : Place(tasks, i) = p
<1>1. DOMAIN tasks = 1 .. Len(tasks)  OBVIOUS
<1>2. Sorted(tasks) = [p \in 1 .. Len(tasks) |-> tasks[From(p)]]  BY <1>1 DEF Sorted
<1>3. ASSUME NEW p \in 1 .. Len(tasks)
      PROVE  From(p) \in DOMAIN tasks /\ Place(tasks, From(p)) = p
  BY <1>1, PlaceTaken
<1>4. ASSUME NEW i \in DOMAIN tasks
      PROVE  Place(tasks, i) \in 1 .. Len(tasks) /\ From(Place(tasks, i)) = i
  <2>1. Place(tasks, i) \in 1 .. Len(tasks)  BY <1>1, Places
  <2>2. PICK j \in DOMAIN tasks : j = From(Place(tasks, i)) /\ Place(tasks, j) = Place(tasks, i)
    BY <1>3, <2>1
  <2>3. CASE i = j  BY <2>1, <2>2, <2>3
  <2>4. CASE i # j
    <3>1. Precedes(tasks, i, j) \/ Precedes(tasks, j, i)  BY <2>4, PrecedesOrder
    <3>2. Place(tasks, i) < Place(tasks, j) \/ Place(tasks, j) < Place(tasks, i)
      BY <3>1, Places
    <3> QED  BY <2>1, <2>2, <3>2
  <2> QED  BY <2>3, <2>4
<1>5. ASSUME NEW p \in 1 .. Len(tasks), NEW q \in 1 .. Len(tasks), p < q
      PROVE  ~Before(tasks[From(q)], tasks[From(p)])
  <2>1. PICK i, j \in DOMAIN tasks : /\ i = From(p) /\ Place(tasks, i) = p
                                     /\ j = From(q) /\ Place(tasks, j) = q
    BY <1>3
  <2>2. ~Precedes(tasks, j, i)
    <3>1. SUFFICES ASSUME Precedes(tasks, j, i) PROVE FALSE  OBVIOUS
    <3>2. Place(tasks, j) < Place(tasks, i)  BY <3>1, Places
    <3> QED  BY <1>5, <2>1, <3>2
  <2> HIDE DEF From
  <2> QED  BY <2>1, <2>2 DEF Precedes
<1> HIDE DEF From
<1>6. DOMAIN Sorted(tasks) = 1 .. Len(tasks)
      /\ \A p \in 1 .. Len(tasks) : Sorted(tasks)[p] = tasks[From(p)]
  BY <1>2
<1> QED  BY <1>3, <1>4, <1>5, <1>6

LEMMA SortedSound ==
    ASSUME NEW tasks \in Seq(SoundTasks) PROVE Sorted(tasks) \in Seq(SoundTasks)
<1>1. tasks \in Seq(PlannedReadTask)  BY DEF SoundTasks
<1>2. Sorted(tasks) = [p \in 1 .. Len(tasks) |-> Sorted(tasks)[p]]
  BY DEF Sorted
<1>3. \A p \in 1 .. Len(tasks) : Sorted(tasks)[p] \in SoundTasks
  BY <1>1, SortedTasks
<1>4. Len(tasks) \in Nat  OBVIOUS
<1> QED  BY <1>2, <1>3, <1>4

-----------------------------------------------------------------------------
(* What a merge makes of two tasks that span their segments spans the      *)
(* segments of both, within the limit.                                     *)
LEMMA ConsumeSound ==
    ASSUME NEW dst \in SoundTasks, NEW src \in SoundTasks, config \in PlannerConfig,
           canMerge(dst, src)
    PROVE  consume(dst, src) \in SoundTasks
<1>1. /\ dst \in PlannedReadTask /\ SpansItsSegments(dst)
      /\ src \in PlannedReadTask /\ SpansItsSegments(src)
  BY DEF SoundTasks
<1>2. PICK t : t = consume(dst, src)  OBVIOUS
<1>3. PICK end : end = Later(EndOf(dst), EndOf(src))  OBVIOUS
<1>4. /\ dst.offset \in Nat /\ dst.size_bytes \in Nat /\ dst.segments \in Seq(ReadSegment)
      /\ src.offset \in Nat /\ src.size_bytes \in Nat /\ src.segments \in Seq(ReadSegment)
      /\ config.merge_max_bytes \in Nat
  BY <1>1 DEF PlannedReadTask, PlannerConfig
<1>5. /\ EndOf(dst) \in Nat /\ EndOf(src) \in Nat /\ end \in Nat
      /\ dst.offset <= EndOf(dst) /\ EndOf(dst) <= end /\ EndOf(src) <= end
      /\ end = EndOf(dst) \/ end = EndOf(src)
      /\ dst.offset <= src.offset /\ end - dst.offset <= config.merge_max_bytes
  <2>1. EndOf(dst) = dst.offset + dst.size_bytes /\ EndOf(src) = src.offset + src.size_bytes
    BY DEF EndOf
  <2>2. EndOf(dst) \in Nat /\ EndOf(src) \in Nat /\ dst.offset <= EndOf(dst)
    BY <1>4, <2>1
  <2>3. /\ end \in Nat /\ EndOf(dst) <= end /\ EndOf(src) <= end
        /\ end = EndOf(dst) \/ end = EndOf(src)
    BY <1>3, <2>2 DEF Later
  <2>4. dst.offset <= src.offset /\ end - dst.offset <= config.merge_max_bytes
    BY <1>3 DEF canMerge
  <2> QED  BY <2>2, <2>3, <2>4
<1>s. PICK ds \in Seq(ReadSegment), ss \in Seq(ReadSegment) :
        ds = dst.segments /\ ss = src.segments
  BY <1>4
<1>6. PICK c \in Seq(ReadSegment) : c = ds \o ss  BY ConcatProperties
<1>7. /\ t.offset = dst.offset /\ t.size_bytes = end - dst.offset
      /\ t.segments = c /\ t.destination = Null /\ t.method = dst.method
  BY <1>1, <1>2, <1>3, <1>s, <1>6 DEF consume, PlannedReadTask
<1>8. t \in PlannedReadTask
  <2>1. end - dst.offset \in Nat /\ Null \in Pointer  BY <1>4, <1>5 DEF Pointer
  <2> QED  BY <1>1, <1>2, <1>3, <1>s, <1>6, <2>1 DEF consume, PlannedReadTask
<1>9. EndOf(t) = end  BY <1>4, <1>5, <1>7 DEF EndOf
<1>l. PICK a \in Nat, b \in Nat : a = Len(ds) /\ b = Len(ss)  BY LenProperties
<1>10. a >= 1 /\ b >= 1 /\ DOMAIN ds = 1 .. a /\ DOMAIN ss = 1 .. b
  <2>1. (\E k \in DOMAIN ds : TRUE) /\ (\E k \in DOMAIN ss : TRUE)
    BY <1>1, <1>s DEF SpansItsSegments
  <2> QED  BY <1>l, <2>1, LenProperties
<1>11. /\ DOMAIN c = 1 .. a + b /\ Len(c) = a + b
       /\ \A k \in 1 .. a + b : c[k] = IF k <= a THEN ds[k] ELSE ss[k - a]
  <2>1. Len(c) = a + b /\ \A k \in 1 .. a + b : c[k] = IF k <= a THEN ds[k] ELSE ss[k - a]
    BY <1>6, <1>l, ConcatProperties
  <2>2. DOMAIN c = 1 .. a + b  BY <2>1, LenProperties
  <2> QED  BY <2>1, <2>2
<1>f. \A k \in 1 .. a : k \in DOMAIN c /\ c[k] = ds[k]
  <2> TAKE k \in 1 .. a
  <2>1. k \in 1 .. a + b /\ k <= a  BY <1>10
  <2> QED  BY <1>11, <2>1
<1>g. \A k \in 1 .. b : a + k \in DOMAIN c /\ c[a + k] = ss[k]
  <2> TAKE k \in 1 .. b
  <2>1. a + k \in 1 .. a + b /\ ~(a + k <= a) /\ (a + k) - a = k  BY <1>10
  <2> QED  BY <1>11, <2>1
<1>12. \A k \in DOMAIN c :
         \/ k \in DOMAIN ds /\ c[k] = ds[k]
         \/ \E j \in DOMAIN ss : c[k] = ss[j]
  <2> TAKE k \in DOMAIN c
  <2>0. k \in 1 .. a + b  BY <1>11
  <2>1. CASE k <= a
    <3>1. k \in 1 .. a  BY <2>0, <2>1
    <3> QED  BY <1>10, <1>f, <3>1
  <2>2. CASE ~(k <= a)
    <3>1. k - a \in 1 .. b  BY <2>0, <2>2
    <3> QED  BY <1>10, <1>11, <2>0, <2>2, <3>1
  <2> QED  BY <2>1, <2>2
<1>13. ASSUME NEW x \in {dst, src}, NEW j \in DOMAIN x.segments
       PROVE  /\ dst.offset <= x.segments[j].source_offset
              /\ x.segments[j].source_offset + x.segments[j].size_bytes <= end
              /\ dst.method = "directRead" => x.segments[j].destination # Null
  <2>1. /\ x.offset <= x.segments[j].source_offset
        /\ x.segments[j].source_offset + x.segments[j].size_bytes <= EndOf(x)
        /\ Len(x.segments) > 1 /\ x.method = "directRead" => x.segments[j].destination # Null
        /\ Len(x.segments) = 1 => x.segments[1].destination = x.destination
    BY <1>1 DEF SpansItsSegments
  <2>2. x.segments[j] \in ReadSegment  BY <1>4
  <2>3. PICK o \in Nat, n \in Nat :
           o = x.segments[j].source_offset /\ n = x.segments[j].size_bytes
    BY <2>2 DEF ReadSegment
  <2>4. x.method = dst.method /\ (dst.method = "directRead" => x.destination # Null)
    BY DEF canMerge
  <2>5. dst.offset <= x.offset /\ EndOf(x) <= end /\ x.offset \in Nat /\ EndOf(x) \in Nat
    BY <1>4, <1>5
  <2>6. dst.offset <= o /\ o + n <= end
    <3>1. PICK p \in Nat, q \in Nat, u \in Nat : p = dst.offset /\ q = x.offset /\ u = EndOf(x)
      BY <1>4, <2>5
    <3>2. p <= q /\ q <= o /\ o + n <= u /\ u <= end  BY <2>1, <2>3, <2>5, <3>1
    <3>3. end \in Nat  BY <1>5
    <3>4. p <= o /\ o + n <= end  BY <3>2, <3>3
    <3> QED  BY <3>1, <3>4
  <2>7. Len(x.segments) > 1 \/ (Len(x.segments) = 1 /\ j = 1)
    <3>1. x.segments = ds \/ x.segments = ss  BY <1>s
    <3>2. a > 1 \/ (a = 1 /\ DOMAIN ds = {1})
      <4>1. a > 1 \/ a = 1  BY <1>10
      <4>2. a = 1 => DOMAIN ds = {1}  BY <1>10
      <4> QED  BY <4>1, <4>2
    <3>3. b > 1 \/ (b = 1 /\ DOMAIN ss = {1})
      <4>1. b > 1 \/ b = 1  BY <1>10
      <4>2. b = 1 => DOMAIN ss = {1}  BY <1>10
      <4> QED  BY <4>1, <4>2
    <3> QED  BY <1>s, <1>l, <3>1, <3>2, <3>3
  <2>8. dst.method = "directRead" => x.segments[j].destination # Null
    BY <2>1, <2>4, <2>7
  <2> QED  BY <2>3, <2>6, <2>8
<1>14. \A k \in DOMAIN c :
         /\ t.offset <= c[k].source_offset
         /\ c[k].source_offset + c[k].size_bytes <= EndOf(t)
         /\ t.method = "directRead" => c[k].destination # Null
  BY <1>s, <1>7, <1>9, <1>12, <1>13
<1>15. \E k \in DOMAIN c : c[k].source_offset = t.offset
  <2>1. PICK k \in DOMAIN dst.segments : dst.segments[k].source_offset = dst.offset
    BY <1>1 DEF SpansItsSegments
  <2>2. k \in DOMAIN c /\ c[k] = dst.segments[k]  BY <1>s, <1>10, <1>f
  <2> QED  BY <1>7, <2>1, <2>2
<1>16. \E k \in DOMAIN c : c[k].source_offset + c[k].size_bytes = EndOf(t)
  <2>1. CASE end = EndOf(dst)
    <3>1. PICK k \in DOMAIN dst.segments :
             dst.segments[k].source_offset + dst.segments[k].size_bytes = EndOf(dst)
      BY <1>1 DEF SpansItsSegments
    <3>2. k \in DOMAIN c /\ c[k] = dst.segments[k]  BY <1>s, <1>10, <1>f
    <3> QED  BY <1>9, <2>1, <3>1, <3>2
  <2>2. CASE end = EndOf(src)
    <3>1. PICK k \in DOMAIN src.segments :
             src.segments[k].source_offset + src.segments[k].size_bytes = EndOf(src)
      BY <1>1 DEF SpansItsSegments
    <3>2. a + k \in DOMAIN c /\ c[a + k] = src.segments[k]  BY <1>s, <1>10, <1>g
    <3> QED  BY <1>9, <2>2, <3>1, <3>2
  <2> QED  BY <1>5, <2>1, <2>2
<1>17. Len(c) > 1  BY <1>10, <1>11
<1>18. SpansItsSegments(t)
  BY <1>7, <1>14, <1>15, <1>16, <1>17 DEF SpansItsSegments
<1>19. WithinMax(t)  BY <1>5, <1>7 DEF WithinMax
<1> QED  BY <1>2, <1>8, <1>18, <1>19 DEF SoundTasks

-----------------------------------------------------------------------------
(* The inductive invariant: wherever the tasks stand, they are sound; the  *)
(* merge looks back at a merged task only when there is one.               *)
PlanInv ==
    /\ requests \in Seq(ReadRequest) /\ config \in PlannerConfig /\ now_ticks \in Nat
    /\ pc \in {"stage", "merge", "lanes", "planned"}
    /\ next \in Nat \ {0}
    /\ staged_tasks \in Seq(SoundTasks)
    /\ merged_tasks \in Seq(SoundTasks)
    /\ plan \in [ReadLane -> Seq(SoundTasks)]
    /\ pc = "merge" /\ next > 1 => merged_tasks # <<>>

LEMMA StageSound == ASSUME PlanInv, StageRequest PROVE PlanInv'
<1>1. /\ UNCHANGED <<requests, config, now_ticks, pc, merged_tasks, plan>>
      /\ staged_tasks' = staged_tasks \o TasksOf(requests[next])
      /\ next' = next + 1 /\ pc = "stage" /\ next <= Len(requests)
  BY DEF StageRequest
<1>2. requests[next] \in ReadRequest
  BY <1>1 DEF PlanInv
<1>3. TasksOf(requests[next]) \in Seq(SoundTasks)
  BY <1>2, TasksOfSound DEF PlanInv
<1>4. staged_tasks' \in Seq(SoundTasks)
  BY <1>1, <1>3, ConcatProperties DEF PlanInv
<1>5. UNCHANGED SoundTasks
  BY <1>1 DEF SoundTasks, WithinMax
<1> QED
  BY <1>1, <1>4, <1>5 DEF PlanInv

(* The merge, one round.                                                   *)
LEMMA MergeSound == ASSUME PlanInv, MergeTask PROVE PlanInv'
<1>1. /\ UNCHANGED <<requests, config, now_ticks, pc, staged_tasks, plan>>
      /\ next' = next + 1 /\ pc = "merge" /\ next <= Len(staged_tasks)
  BY DEF MergeTask
<1>2. UNCHANGED SoundTasks
  BY <1>1 DEF SoundTasks, WithinMax
<1>3. staged_tasks[next] \in SoundTasks
  BY <1>1 DEF PlanInv
<1>4. merged_tasks' \in Seq(SoundTasks) /\ merged_tasks' # <<>>
  <2>1. CASE next > 1 /\ canMerge(merged_tasks[Len(merged_tasks)], staged_tasks[next])
    <3>1. Len(merged_tasks) \in 1 .. Len(merged_tasks)
      BY <1>1, <2>1, EmptySeq DEF PlanInv
    <3>2. merged_tasks[Len(merged_tasks)] \in SoundTasks
      BY <3>1 DEF PlanInv
    <3>3. consume(merged_tasks[Len(merged_tasks)], staged_tasks[next]) \in SoundTasks
      BY <1>3, <2>1, <3>2, ConsumeSound DEF PlanInv
    <3>4. merged_tasks' = [merged_tasks EXCEPT ![Len(merged_tasks)] =
                              consume(merged_tasks[Len(merged_tasks)], staged_tasks[next])]
      BY <2>1 DEF MergeTask
    <3> QED
      BY <3>1, <3>3, <3>4, ExceptSeq DEF PlanInv
  <2>2. CASE ~(next > 1 /\ canMerge(merged_tasks[Len(merged_tasks)], staged_tasks[next]))
    <3>1. merged_tasks' = Append(merged_tasks, staged_tasks[next])
      BY <2>2 DEF MergeTask
    <3> QED
      BY <1>3, <3>1, AppendProperties DEF PlanInv
  <2> QED
    BY <2>1, <2>2
<1> QED
  BY <1>1, <1>2, <1>4 DEF PlanInv

LEMMA PlanInvNext == ASSUME PlanInv, [makePlan]_plannerVars PROVE PlanInv'
<1>1. CASE SortTasks
  <2>1. /\ UNCHANGED <<requests, config, now_ticks, merged_tasks, plan>>
        /\ staged_tasks' = Sorted(staged_tasks) /\ pc' \in {"merge", "lanes"} /\ next' = 1
    BY <1>1 DEF SortTasks
  <2>2. UNCHANGED SoundTasks
    BY <2>1 DEF SoundTasks, WithinMax
  <2>3. Sorted(staged_tasks) \in Seq(SoundTasks)
    BY SortedSound DEF PlanInv
  <2> QED
    BY <2>1, <2>2, <2>3 DEF PlanInv
<1>2. CASE MergeDone
  <2>1. /\ UNCHANGED <<requests, config, now_ticks, merged_tasks, plan>>
        /\ staged_tasks' = merged_tasks /\ pc' = "lanes" /\ next' = 1
    BY <1>2 DEF MergeDone
  <2>2. UNCHANGED SoundTasks
    BY <2>1 DEF SoundTasks, WithinMax
  <2> QED
    BY <2>1, <2>2 DEF PlanInv
<1>3. CASE DistributeTask
  <2>1. /\ UNCHANGED <<requests, config, now_ticks, pc, staged_tasks, merged_tasks>>
        /\ next' = next + 1 /\ pc = "lanes" /\ next <= Len(staged_tasks)
        /\ plan' = [plan EXCEPT ![staged_tasks[next].lane] = Append(@, staged_tasks[next])]
    BY <1>3 DEF DistributeTask
  <2>2. UNCHANGED SoundTasks
    BY <2>1 DEF SoundTasks, WithinMax
  <2>3. staged_tasks[next] \in SoundTasks /\ staged_tasks[next].lane \in ReadLane
    <3>1. staged_tasks[next] \in SoundTasks
      BY <2>1 DEF PlanInv
    <3> QED
      BY <3>1 DEF SoundTasks, PlannedReadTask
  <2>4. \A lane \in ReadLane : Append(plan[lane], staged_tasks[next]) \in Seq(SoundTasks)
    BY <2>3, AppendProperties DEF PlanInv
  <2>5. plan' \in [ReadLane -> Seq(SoundTasks)]
    BY <2>1, <2>3, <2>4 DEF PlanInv
  <2> QED
    BY <2>1, <2>2, <2>5 DEF PlanInv
<1>4. CASE ReturnPlan
  <2>1. UNCHANGED SoundTasks
    BY <1>4 DEF ReturnPlan, SoundTasks, WithinMax
  <2> QED
    BY <1>4, <2>1 DEF ReturnPlan, PlanInv
<1>5. CASE UNCHANGED plannerVars
  <2>1. UNCHANGED SoundTasks
    BY <1>5 DEF plannerVars, SoundTasks, WithinMax
  <2> QED
    BY <1>5, <2>1 DEF plannerVars, PlanInv
<1> QED
  BY <1>1, <1>2, <1>3, <1>4, <1>5, StageSound, MergeSound DEF makePlan

LEMMA PlanInvAlways == Spec => []PlanInv
<1>1. Init => PlanInv
  BY InputsAssumption, EmptySeq DEF Init, PlanInv
<1> QED
  BY <1>1, PlanInvNext, PTL DEF Spec

-----------------------------------------------------------------------------
(* Every variable stays in its type, for every array of requests,          *)
(* configuration and time; makeSingleTask makes no pointer from nullptr    *)
(* and consume no negative size.                                           *)
THEOREM TypeOKAlways == Spec => []TypeOK
<1>1. PlanInv => TypeOK
  <2> SUFFICES ASSUME PlanInv PROVE TypeOK
    OBVIOUS
  <2>1. \A s \in Seq(SoundTasks) : s \in Seq(PlannedReadTask)
    BY SeqMonotonic DEF SoundTasks
  <2> QED
    BY <2>1 DEF PlanInv, TypeOK
<1> QED
  BY <1>1, PlanInvAlways, PTL

(* std::stable_sort is always given a strict weak order, for every array   *)
(* of requests, configuration and time: its behaviour is defined.          *)
THEOREM SortIsStrictWeakOrderAlways == Spec => []SortIsStrictWeakOrder
<1>1. PlanInv => SortIsStrictWeakOrder
  <2> SUFFICES ASSUME PlanInv,
                      NEW x \in StagedTasks, NEW y \in StagedTasks, NEW z \in StagedTasks
               PROVE  /\ ~Before(x, x)
                      /\ Before(x, y) => ~Before(y, x)
                      /\ Before(x, y) /\ Before(y, z) => Before(x, z)
                      /\ Incomparable(x, y) /\ Incomparable(y, z) => Incomparable(x, z)
    BY DEF SortIsStrictWeakOrder
  <2>1. x \in PlannedReadTask /\ y \in PlannedReadTask /\ z \in PlannedReadTask
    BY DEF PlanInv, StagedTasks, SoundTasks
  <2> QED
    BY <2>1, BeforeIsStrictWeakOrder
<1> QED
  BY <1>1, PlanInvAlways, PTL

(* Wherever a task stands, it is a sound one.                              *)
LEMMA TasksListed ==
    ASSUME PlanInv PROVE Rest \in Seq(SoundTasks) /\ Tasks \in Seq(SoundTasks)
<1>1. Rest \in Seq(SoundTasks)
  <2>1. CASE next <= Len(staged_tasks)
    BY <2>1, SubSeqProperties DEF Rest, PlanInv
  <2>2. CASE ~(next <= Len(staged_tasks))
    <3>1. Rest = <<>>
      BY <2>2, SubSeqEmpty DEF Rest, PlanInv
    <3> QED
      BY <3>1
  <2> QED
    BY <2>1, <2>2
<1>2. merged_tasks \o Rest \in Seq(SoundTasks)
  BY <1>1, ConcatProperties DEF PlanInv
<1>3. plan["urgent"] \o plan["normal"] \o plan["background"] \o Rest \in Seq(SoundTasks)
  <2>1. \A lane \in ReadLane : plan[lane] \in Seq(SoundTasks)
    BY DEF PlanInv
  <2>2. plan["urgent"] \in Seq(SoundTasks) /\ plan["normal"] \in Seq(SoundTasks)
        /\ plan["background"] \in Seq(SoundTasks)
    BY <2>1 DEF ReadLane
  <2>3. plan["urgent"] \o plan["normal"] \in Seq(SoundTasks)
    BY <2>2, ConcatProperties
  <2>4. plan["urgent"] \o plan["normal"] \o plan["background"] \in Seq(SoundTasks)
    BY <2>2, <2>3, ConcatProperties
  <2> QED
    BY <1>1, <2>4, ConcatProperties
<1>4. Tasks \in Seq(SoundTasks)
  BY <1>2, <1>3 DEF Tasks, PlanInv
<1> QED
  BY <1>1, <1>4

LEMMA TasksSound == ASSUME PlanInv, NEW n \in DOMAIN Tasks PROVE Tasks[n] \in SoundTasks
  BY TasksListed

(* A task's range is what its segments span, at every point of makePlan    *)
(* and however many were merged: a merged read has room for each of its    *)
(* copies and a destination for every segment of a direct read.            *)
THEOREM TasksSpanTheirSegmentsAlways == Spec => []TasksSpanTheirSegments
<1>1. PlanInv => TasksSpanTheirSegments
  BY TasksSound DEF TasksSpanTheirSegments, SoundTasks
<1> QED
  BY <1>1, PlanInvAlways, PTL

(* No sequence of merges takes a task past merge_max_bytes.                *)
THEOREM MergedWithinMaxAlways == Spec => []MergedWithinMax
<1>1. PlanInv => MergedWithinMax
  BY TasksSound DEF MergedWithinMax, SoundTasks, WithinMax
<1> QED
  BY <1>1, PlanInvAlways, PTL


-----------------------------------------------------------------------------
(* Order.  x may stand before y: in an earlier lane, or in the same lane   *)
(* and not due later, nor less urgent when due together.                   *)
NotAfter(x, y) ==
    /\ laneNumber[x.lane] <= laneNumber[y.lane]
    /\ x.lane = y.lane =>
         /\ y.deadline_ticks # 0 =>
               x.deadline_ticks # 0 /\ x.deadline_ticks <= y.deadline_ticks
         /\ x.deadline_ticks = y.deadline_ticks =>
               urgencyScore[x.urgency] >= urgencyScore[y.urgency]

(* The tasks of s stand in order; they may stand before all that is left.  *)
InOrder(s) == \A m, n \in DOMAIN s : m < n => NotAfter(s[m], s[n])
InFront(s) == \A m \in DOMAIN s, n \in DOMAIN staged_tasks :
                 next <= n => NotAfter(s[m], staged_tasks[n])

LEMMA NotBeforeNotAfter ==
    ASSUME NEW x \in PlannedReadTask, NEW y \in PlannedReadTask, ~Before(y, x)
    PROVE  NotAfter(x, y)
<1>1. /\ x.lane \in ReadLane /\ y.lane \in ReadLane
      /\ x.urgency \in ReadUrgency /\ y.urgency \in ReadUrgency
      /\ x.deadline_ticks \in Nat /\ y.deadline_ticks \in Nat
  BY DEF PlannedReadTask
<1>2. /\ laneNumber[x.lane] \in Nat /\ laneNumber[y.lane] \in Nat
      /\ urgencyScore[x.urgency] \in Nat /\ urgencyScore[y.urgency] \in Nat
      /\ laneNumber[x.lane] = laneNumber[y.lane] => x.lane = y.lane
  BY <1>1, Numbers
<1> QED  BY <1>1, <1>2 DEF Before, BeforeByRank, NotAfter

(* Joining others, a task keeps the keys that order it.                    *)
LEMMA ConsumeKeepsOrder ==
    ASSUME NEW dst \in PlannedReadTask, NEW src
    PROVE  /\ consume(dst, src).lane = dst.lane
           /\ consume(dst, src).deadline_ticks = dst.deadline_ticks
           /\ consume(dst, src).urgency = dst.urgency
           /\ \A t : /\ NotAfter(consume(dst, src), t) <=> NotAfter(dst, t)
                     /\ NotAfter(t, consume(dst, src)) <=> NotAfter(t, dst)
<1>1. /\ consume(dst, src).lane = dst.lane
      /\ consume(dst, src).deadline_ticks = dst.deadline_ticks
      /\ consume(dst, src).urgency = dst.urgency
  BY DEF consume, PlannedReadTask
<1> QED  BY <1>1 DEF NotAfter

(* A task put behind others it may follow.                                 *)
LEMMA AppendInOrder ==
    ASSUME NEW S, NEW s \in Seq(S), NEW t \in S, InOrder(s),
           \A m \in DOMAIN s : NotAfter(s[m], t)
    PROVE  InOrder(Append(s, t))
<1>1. PICK k \in Nat : k = Len(s) /\ DOMAIN s = 1 .. k  BY LenProperties
<1>2. /\ DOMAIN Append(s, t) = 1 .. k + 1
      /\ Append(s, t)[k + 1] = t
      /\ \A m \in 1 .. k : Append(s, t)[m] = s[m]
  BY <1>1, AppendProperties
<1>3. ASSUME NEW m \in 1 .. k + 1, NEW n \in 1 .. k + 1, m < n
      PROVE  NotAfter(Append(s, t)[m], Append(s, t)[n])
  <2>1. m \in 1 .. k /\ (n = k + 1 \/ n \in 1 .. k)  BY <1>3
  <2> QED  BY <1>1, <1>2, <1>3, <2>1 DEF InOrder
<1> QED  BY <1>2, <1>3 DEF InOrder

(* Wherever the tasks stand in makePlan, from the sort on, they are in     *)
(* order; those moved may stand before those still to be moved.            *)
OrderInv ==
    /\ pc = "stage" => merged_tasks = <<>>
    /\ pc \in {"stage", "merge"} => \A lane \in ReadLane : plan[lane] = <<>>
    /\ pc # "stage" => InOrder(staged_tasks)
    /\ pc = "merge" => InOrder(merged_tasks) /\ InFront(merged_tasks)
    /\ \A lane \in ReadLane :
         /\ InOrder(plan[lane])
         /\ pc = "lanes" => InFront(plan[lane])
         /\ \A m \in DOMAIN plan[lane] : plan[lane][m].lane = lane

LEMMA OrderSort == ASSUME PlanInv, OrderInv, SortTasks PROVE OrderInv'
<1>1. /\ UNCHANGED <<merged_tasks, plan>> /\ pc = "stage" /\ pc' \in {"merge", "lanes"}
      /\ staged_tasks' = Sorted(staged_tasks)
  BY DEF SortTasks
<1>2. PICK s \in Seq(PlannedReadTask) : s = staged_tasks  BY DEF PlanInv, SoundTasks
<1>3. InOrder(Sorted(s))
  <2> SUFFICES ASSUME NEW m \in DOMAIN Sorted(s), NEW n \in DOMAIN Sorted(s), m < n
               PROVE  NotAfter(Sorted(s)[m], Sorted(s)[n])
    BY DEF InOrder
  <2>1. m \in 1 .. Len(s) /\ n \in 1 .. Len(s)  BY SortedTasks
  <2>2. PICK i \in DOMAIN s, j \in DOMAIN s : Sorted(s)[m] = s[i] /\ Sorted(s)[n] = s[j]
    BY <2>1, SortedTasks
  <2>3. ~Before(Sorted(s)[n], Sorted(s)[m])  BY <2>1, SortedTasks
  <2>4. s[i] \in PlannedReadTask /\ s[j] \in PlannedReadTask  OBVIOUS
  <2> QED  BY <2>2, <2>3, <2>4, NotBeforeNotAfter
<1>4. merged_tasks = <<>> /\ \A lane \in ReadLane : plan[lane] = <<>>
  BY <1>1 DEF OrderInv
<1> QED  BY <1>1, <1>2, <1>3, <1>4 DEF OrderInv, InOrder, InFront

LEMMA OrderMerge == ASSUME PlanInv, OrderInv, MergeTask PROVE OrderInv'
<1>1. /\ UNCHANGED <<pc, staged_tasks, plan>>
      /\ next' = next + 1 /\ pc = "merge" /\ next <= Len(staged_tasks)
  BY DEF MergeTask
<1>2. staged_tasks[next] \in PlannedReadTask /\ next \in DOMAIN staged_tasks /\ next \in Nat
  <2>1. staged_tasks[next] \in SoundTasks /\ next \in DOMAIN staged_tasks /\ next \in Nat
    BY <1>1 DEF PlanInv
  <2> QED  BY <2>1 DEF SoundTasks
<1>3. PICK ms \in Seq(PlannedReadTask) : ms = merged_tasks
  BY SeqMonotonic DEF PlanInv, SoundTasks
<1>4. PICK t \in PlannedReadTask : t = staged_tasks[next]  BY <1>2
<1>5. PICK k \in Nat : k = Len(ms) /\ DOMAIN ms = 1 .. k  BY LenProperties
<1>6. InOrder(ms) /\ InOrder(staged_tasks)
      /\ \A m \in DOMAIN ms, n \in DOMAIN staged_tasks :
            next <= n => NotAfter(ms[m], staged_tasks[n])
  BY <1>1, <1>3 DEF OrderInv, InFront
<1>7. InOrder(merged_tasks') /\ \A m \in DOMAIN merged_tasks', n \in DOMAIN staged_tasks :
                                   next + 1 <= n => NotAfter(merged_tasks'[m], staged_tasks[n])
  <2>1. CASE next > 1 /\ canMerge(ms[k], t)
    <3>1. k \in DOMAIN ms  BY <1>1, <1>3, <1>5, <2>1, EmptySeq DEF PlanInv
    <3>2. merged_tasks' = [ms EXCEPT ![k] = consume(ms[k], t)]
      BY <1>3, <1>4, <1>5, <2>1 DEF MergeTask
    <3>3. DOMAIN merged_tasks' = DOMAIN ms
          /\ \A m \in DOMAIN ms : merged_tasks'[m] = IF m = k THEN consume(ms[k], t) ELSE ms[m]
      BY <3>1, <3>2
    <3>4. ms[k] \in PlannedReadTask  BY <3>1
    <3>5. \A u : /\ NotAfter(consume(ms[k], t), u) <=> NotAfter(ms[k], u)
                 /\ NotAfter(u, consume(ms[k], t)) <=> NotAfter(u, ms[k])
      BY <3>4, ConsumeKeepsOrder
    <3>6. \A m \in DOMAIN ms : \A u :
            /\ NotAfter(merged_tasks'[m], u) <=> NotAfter(ms[m], u)
            /\ NotAfter(u, merged_tasks'[m]) <=> NotAfter(u, ms[m])
      BY <3>3, <3>5
    <3>7. InOrder(merged_tasks')  BY <1>6, <3>3, <3>6 DEF InOrder
    <3>8. \A n \in DOMAIN staged_tasks : n \in Nat /\ (next + 1 <= n => next <= n)
      BY <1>2 DEF PlanInv
    <3> QED  BY <1>6, <3>3, <3>6, <3>7, <3>8
  <2>2. CASE ~(next > 1 /\ canMerge(ms[k], t))
    <3>1. merged_tasks' = Append(ms, t)
      BY <1>3, <1>4, <1>5, <2>2 DEF MergeTask
    <3>2. InOrder(merged_tasks')
      BY <1>2, <1>4, <1>6, <3>1, AppendInOrder
    <3>3. /\ DOMAIN merged_tasks' = 1 .. k + 1 /\ merged_tasks'[k + 1] = t
          /\ \A m \in 1 .. k : merged_tasks'[m] = ms[m]
      BY <1>5, <3>1, AppendProperties
    <3>4. ASSUME NEW m \in 1 .. k + 1, NEW n \in DOMAIN staged_tasks, next + 1 <= n
          PROVE  NotAfter(merged_tasks'[m], staged_tasks[n])
      <4>1. n \in Nat /\ next < n /\ next <= n  BY <1>2, <3>4 DEF PlanInv
      <4>2. m = k + 1 \/ m \in 1 .. k  BY <3>4
      <4> QED  BY <1>2, <1>4, <1>5, <1>6, <3>3, <4>1, <4>2 DEF InOrder
    <3> QED  BY <3>2, <3>3, <3>4
  <2> QED  BY <2>1, <2>2
<1> QED  BY <1>1, <1>7 DEF OrderInv, InOrder, InFront

LEMMA OrderDistribute == ASSUME PlanInv, OrderInv, DistributeTask PROVE OrderInv'
<1>1. /\ UNCHANGED <<pc, staged_tasks, merged_tasks>>
      /\ next' = next + 1 /\ pc = "lanes" /\ next <= Len(staged_tasks)
      /\ plan' = [plan EXCEPT ![staged_tasks[next].lane] =
                     Append(plan[staged_tasks[next].lane], staged_tasks[next])]
  BY DEF DistributeTask
<1>2. staged_tasks[next] \in PlannedReadTask /\ next \in DOMAIN staged_tasks /\ next \in Nat
  <2>1. staged_tasks[next] \in SoundTasks /\ next \in DOMAIN staged_tasks /\ next \in Nat
    BY <1>1 DEF PlanInv
  <2> QED  BY <2>1 DEF SoundTasks
<1>3. PICK t \in PlannedReadTask : t = staged_tasks[next]  BY <1>2
<1>4. plan \in [ReadLane -> Seq(PlannedReadTask)]
  BY SeqMonotonic DEF PlanInv, SoundTasks
<1>5. ASSUME NEW lane \in ReadLane
      PROVE  /\ InOrder(plan'[lane])
             /\ \A m \in DOMAIN plan'[lane], n \in DOMAIN staged_tasks :
                   next + 1 <= n => NotAfter(plan'[lane][m], staged_tasks[n])
             /\ \A m \in DOMAIN plan'[lane] : plan'[lane][m].lane = lane
  <2>1. PICK s \in Seq(PlannedReadTask) : s = plan[lane]  BY <1>4
  <2>2. /\ InOrder(s)
        /\ \A m \in DOMAIN s, n \in DOMAIN staged_tasks :
              next <= n => NotAfter(s[m], staged_tasks[n])
        /\ \A m \in DOMAIN s : s[m].lane = lane
    BY <1>1, <2>1 DEF OrderInv, InFront
  <2>3. CASE t.lane # lane
    <3>1. plan'[lane] = s  BY <1>1, <1>3, <1>4, <2>1, <2>3
    <3>2. \A n \in DOMAIN staged_tasks : n \in Nat /\ (next + 1 <= n => next <= n)
      BY <1>2 DEF PlanInv
    <3> QED  BY <2>2, <3>1, <3>2
  <2>4. CASE t.lane = lane
    <3>1. plan'[lane] = Append(s, t)  BY <1>1, <1>3, <1>4, <2>1, <2>4
    <3>2. InOrder(plan'[lane])  BY <1>2, <1>3, <2>2, <3>1, AppendInOrder
    <3>3. PICK k \in Nat : k = Len(s) /\ DOMAIN s = 1 .. k  BY LenProperties
    <3>4. /\ DOMAIN plan'[lane] = 1 .. k + 1 /\ plan'[lane][k + 1] = t
          /\ \A m \in 1 .. k : plan'[lane][m] = s[m]
      BY <3>1, <3>3, AppendProperties
    <3>5. ASSUME NEW m \in 1 .. k + 1
          PROVE  /\ plan'[lane][m].lane = lane
                 /\ \A n \in DOMAIN staged_tasks :
                       next + 1 <= n => NotAfter(plan'[lane][m], staged_tasks[n])
      <4>1. m = k + 1 \/ m \in 1 .. k  BY <3>5
      <4>2. \A n \in DOMAIN staged_tasks : n \in Nat /\ (next + 1 <= n => next <= n /\ next < n)
        BY <1>2 DEF PlanInv
      <4>3. InOrder(staged_tasks)  BY <1>1 DEF OrderInv
      <4> QED  BY <1>2, <1>3, <2>2, <2>4, <3>3, <3>4, <4>1, <4>2, <4>3 DEF InOrder
    <3> QED  BY <3>2, <3>4, <3>5
  <2> QED  BY <2>3, <2>4
<1> QED  BY <1>1, <1>5 DEF OrderInv, InOrder, InFront

LEMMA OrderInvNext ==
    ASSUME PlanInv, OrderInv, [makePlan]_plannerVars PROVE OrderInv'
<1>1. CASE StageRequest
  BY <1>1 DEF StageRequest, OrderInv, InOrder, InFront
<1>2. CASE MergeDone
  <2>1. /\ UNCHANGED plan /\ staged_tasks' = merged_tasks /\ pc = "merge" /\ pc' = "lanes"
    BY <1>2 DEF MergeDone
  <2>2. \A lane \in ReadLane : plan[lane] = <<>>  BY <2>1 DEF OrderInv
  <2> QED  BY <2>1, <2>2 DEF OrderInv, InOrder, InFront
<1>3. CASE ReturnPlan
  BY <1>3 DEF ReturnPlan, OrderInv, InOrder, InFront
<1>4. CASE UNCHANGED plannerVars
  BY <1>4 DEF plannerVars, OrderInv, InOrder, InFront
<1> QED
  BY <1>1, <1>2, <1>3, <1>4, OrderSort, OrderMerge, OrderDistribute DEF makePlan

LEMMA OrderInvAlways == Spec => []OrderInv
<1>1. Init => OrderInv
  BY DEF Init, OrderInv, InOrder, InFront
<1> QED
  BY <1>1, OrderInvNext, PlanInvAlways, PTL DEF Spec

(* Each lane of the plan stands in order of deadline, those without one    *)
(* last, and of urgency among those due together: neither merging nor the  *)
(* distribution undoes the sort, for every array of requests.              *)
THEOREM DueFirstAlways == Spec => []DueFirst
<1>1. OrderInv => DueFirst
  BY DEF OrderInv, InOrder, NotAfter, DueFirst
<1> QED
  BY <1>1, OrderInvAlways, PTL


-----------------------------------------------------------------------------
(* One pass of merging is enough.                                          *)
Apart(s) == \A n \in 1 .. Len(s) - 1 : ~canMerge(s[n], s[n + 1])

(* A task that has joined others is no easier to join to the one before.   *)
LEMMA ConsumeStaysApart ==
    ASSUME NEW lhs \in PlannedReadTask, NEW dst \in PlannedReadTask,
           NEW src \in PlannedReadTask, config \in PlannerConfig,
           canMerge(lhs, consume(dst, src))
    PROVE  canMerge(lhs, dst)
<1>1. PICK t : t = consume(dst, src)  OBVIOUS
<1>n. /\ dst.offset \in Nat /\ lhs.offset \in Nat /\ dst.offset <= EndOf(dst)
      /\ EndOf(lhs) \in Nat /\ EndOf(dst) \in Nat /\ EndOf(src) \in Nat
  <2>1. /\ dst.offset \in Nat /\ lhs.offset \in Nat /\ src.offset \in Nat
        /\ dst.size_bytes \in Nat /\ lhs.size_bytes \in Nat /\ src.size_bytes \in Nat
    BY DEF PlannedReadTask
  <2> QED  BY <2>1 DEF EndOf
<1>2. PICK e \in Nat, d \in Nat, s \in Nat, o \in Nat, l \in Nat :
        /\ o = dst.offset /\ l = lhs.offset
        /\ e = EndOf(lhs) /\ d = EndOf(dst) /\ s = EndOf(src) /\ o <= d
  BY <1>n
<1>3. /\ t.path = dst.path /\ t.lane = dst.lane /\ t.method = dst.method
      /\ t.deadline_ticks = dst.deadline_ticks /\ t.offset = dst.offset
      /\ t.destination = Null /\ t.size_bytes = Later(d, s) - o
  BY <1>1, <1>2 DEF consume, PlannedReadTask
<1>4. EndOf(t) = Later(d, s) /\ d <= Later(d, s) /\ Later(d, s) \in Nat
  BY <1>2, <1>3 DEF EndOf, Later
<1>5. PICK max \in Nat : max = config.merge_max_bytes  BY DEF PlannerConfig
<1>6. Later(e, Later(d, s)) - l <= max
  BY <1>1, <1>2, <1>4, <1>5 DEF canMerge
<1>7. Later(e, d) - l <= max
  BY <1>2, <1>4, <1>5, <1>6 DEF Later
<1> QED  BY <1>1, <1>2, <1>3, <1>5, <1>7 DEF canMerge

(* Appending keeps a sequence apart if its last task stays apart from the  *)
(* new one.                                                                *)
LEMMA AppendApart ==
    ASSUME NEW S, NEW s \in Seq(S), NEW t \in S, Apart(s),
           s # <<>> => ~canMerge(s[Len(s)], t)
    PROVE  Apart(Append(s, t))
<1>1. PICK k \in Nat : k = Len(s) /\ DOMAIN s = 1 .. k  BY LenProperties
<1>2. /\ Len(Append(s, t)) = k + 1 /\ Append(s, t)[k + 1] = t
      /\ \A m \in 1 .. k : Append(s, t)[m] = s[m]
  BY <1>1, AppendProperties
<1>3. ASSUME NEW n \in 1 .. (k + 1) - 1
      PROVE  ~canMerge(Append(s, t)[n], Append(s, t)[n + 1])
  <2>1. CASE n = k
    <3>1. s # <<>>  BY <1>1, <1>3, <2>1, EmptySeq
    <3> QED  BY <1>1, <1>2, <1>3, <2>1, <3>1
  <2>2. CASE n # k
    <3>1. n \in 1 .. Len(s) - 1 /\ n \in 1 .. k /\ n + 1 \in 1 .. k  BY <1>1, <1>3, <2>2
    <3> QED  BY <1>2, <3>1 DEF Apart
  <2> QED  BY <2>1, <2>2
<1> QED  BY <1>2, <1>3 DEF Apart

(* Neighbours cannot be merged: in the result of the merge so far, then in *)
(* the staged tasks, then in each lane, whose last task is the last one of *)
(* its lane that was distributed, with no other lane's in between.         *)
LastOf(lane) == plan[lane][Len(plan[lane])]
ApartInv ==
    /\ pc = "merge" => config.enable_range_merge /\ Apart(merged_tasks)
                       /\ (next = 1 => merged_tasks = <<>>)
    /\ pc = "lanes" /\ config.enable_range_merge => Apart(staged_tasks)
    /\ config.enable_range_merge => \A lane \in ReadLane : Apart(plan[lane])
    /\ pc = "lanes" => next <= Len(staged_tasks) + 1
    /\ pc = "lanes" /\ next > 1 =>
         LET t == staged_tasks[next - 1]
         IN  /\ plan[t.lane] # <<>> /\ LastOf(t.lane) = t
             /\ \A lane \in ReadLane :
                   plan[lane] # <<>> => laneNumber[lane] <= laneNumber[t.lane]
    /\ pc = "lanes" /\ next = 1 => \A lane \in ReadLane : plan[lane] = <<>>

LEMMA ApartMerge == ASSUME PlanInv, ApartInv, MergeTask PROVE ApartInv'
<1>1. /\ UNCHANGED <<config, pc, staged_tasks, plan>>
      /\ next' = next + 1 /\ pc = "merge" /\ next <= Len(staged_tasks) /\ next \in Nat \ {0}
  BY DEF MergeTask, PlanInv
<1>2. PICK t \in PlannedReadTask : t = staged_tasks[next]
  <2>1. staged_tasks[next] \in SoundTasks  BY <1>1 DEF PlanInv
  <2> QED  BY <2>1 DEF SoundTasks
<1>3. PICK ms \in Seq(PlannedReadTask) : ms = merged_tasks
  BY SeqMonotonic DEF PlanInv, SoundTasks
<1>4. PICK k \in Nat : k = Len(ms) /\ DOMAIN ms = 1 .. k  BY LenProperties
<1>5. Apart(ms) /\ (next = 1 => ms = <<>>) /\ (next > 1 => ms # <<>>)
  BY <1>1, <1>3 DEF ApartInv, PlanInv
<1>6. Apart(merged_tasks')
  <2>1. CASE next > 1 /\ canMerge(ms[k], t)
    <3>1. k \in 1 .. k  BY <1>3, <1>4, <1>5, <2>1, EmptySeq
    <3>2. merged_tasks' = [ms EXCEPT ![k] = consume(ms[k], t)]
      BY <1>2, <1>3, <1>4, <2>1 DEF MergeTask
    <3>3. /\ \A m \in 1 .. k : merged_tasks'[m] = IF m = k THEN consume(ms[k], t) ELSE ms[m]
          /\ Len(merged_tasks') = k
      BY <1>4, <3>1, <3>2
    <3>4. ASSUME NEW n \in 1 .. k - 1 PROVE ~canMerge(merged_tasks'[n], merged_tasks'[n + 1])
      <4>1. n \in 1 .. k /\ n + 1 \in 1 .. k /\ n # k  BY <3>4
      <4>2. ~canMerge(ms[n], ms[n + 1])  BY <1>4, <1>5, <3>4 DEF Apart
      <4>3. PICK x \in PlannedReadTask, y \in PlannedReadTask : x = ms[n] /\ y = ms[n + 1]
        BY <1>4, <4>1
      <4>4. ~canMerge(x, consume(y, t))  BY <4>2, <4>3, ConsumeStaysApart DEF PlanInv
      <4> QED  BY <3>3, <4>1, <4>2, <4>3, <4>4
    <3> QED  BY <3>3, <3>4 DEF Apart
  <2>2. CASE ~(next > 1 /\ canMerge(ms[k], t))
    <3>1. merged_tasks' = Append(ms, t)
      BY <1>2, <1>3, <1>4, <2>2 DEF MergeTask
    <3>2. ms # <<>> => ~canMerge(ms[Len(ms)], t)
      BY <1>1, <1>4, <1>5, <2>2
    <3> QED  BY <1>5, <3>1, <3>2, AppendApart
  <2> QED  BY <2>1, <2>2
<1>7. next' # 1  BY <1>1
<1> QED  BY <1>1, <1>6, <1>7 DEF ApartInv, Apart, canMerge, LastOf

LEMMA ApartDistribute ==
    ASSUME PlanInv, OrderInv, ApartInv, DistributeTask PROVE ApartInv'
<1>1. /\ UNCHANGED <<config, pc, staged_tasks, merged_tasks>>
      /\ next' = next + 1 /\ pc = "lanes" /\ next <= Len(staged_tasks) /\ next \in Nat \ {0}
      /\ Len(staged_tasks) \in Nat
      /\ plan' = [plan EXCEPT ![staged_tasks[next].lane] =
                     Append(plan[staged_tasks[next].lane], staged_tasks[next])]
  BY DEF DistributeTask, PlanInv
<1>2. \A n \in 1 .. next : n \in DOMAIN staged_tasks /\ staged_tasks[n] \in PlannedReadTask
  <2>1. \A n \in 1 .. next : n \in DOMAIN staged_tasks /\ staged_tasks[n] \in SoundTasks
    BY <1>1 DEF PlanInv
  <2> QED  BY <2>1 DEF SoundTasks
<1>3. PICK t \in PlannedReadTask : t = staged_tasks[next]  BY <1>1, <1>2
<1>4. plan \in [ReadLane -> Seq(PlannedReadTask)]
  BY SeqMonotonic DEF PlanInv, SoundTasks
<1>5. t.lane \in ReadLane  BY DEF PlannedReadTask
<1>6. PICK s \in Seq(PlannedReadTask) : s = plan[t.lane]  BY <1>4, <1>5
<1>7. plan' = [plan EXCEPT ![t.lane] = Append(s, t)]  BY <1>1, <1>3, <1>6
<1>8. \A lane \in ReadLane : plan'[lane] = IF lane = t.lane THEN Append(s, t) ELSE plan[lane]
  BY <1>4, <1>5, <1>7
<1>9. \A lane \in ReadLane : laneNumber[lane] \in Nat
  BY Numbers
<1>10. ASSUME next > 1
       PROVE  /\ \A lane \in ReadLane : plan[lane] # <<>> => laneNumber[lane] <= laneNumber[t.lane]
              /\ s # <<>> => s[Len(s)] = staged_tasks[next - 1]
  <2>1. PICK u \in PlannedReadTask : u = staged_tasks[next - 1] /\ next - 1 \in DOMAIN staged_tasks
    BY <1>1, <1>2, <1>10
  <2>2. /\ plan[u.lane] # <<>> /\ LastOf(u.lane) = u
        /\ \A lane \in ReadLane : plan[lane] # <<>> => laneNumber[lane] <= laneNumber[u.lane]
    BY <1>1, <1>10, <2>1 DEF ApartInv
  <2>3. NotAfter(u, t)
    BY <1>1, <1>2, <1>3, <2>1 DEF OrderInv, InOrder
  <2>4. laneNumber[u.lane] <= laneNumber[t.lane] /\ u.lane \in ReadLane
    BY <2>3 DEF NotAfter, PlannedReadTask
  <2>5. \A lane \in ReadLane : plan[lane] # <<>> => laneNumber[lane] <= laneNumber[t.lane]
    BY <1>5, <1>9, <2>2, <2>4
  <2>6. s # <<>> => laneNumber[t.lane] <= laneNumber[u.lane]
    BY <1>5, <1>6, <2>2
  <2>7. s # <<>> => t.lane = u.lane
    BY <1>5, <1>9, <2>4, <2>6, Numbers
  <2> QED  BY <1>6, <2>1, <2>2, <2>5, <2>7 DEF LastOf
<1>11. next = 1 => \A lane \in ReadLane : plan[lane] = <<>>
  BY <1>1 DEF ApartInv
<1>12. next > 1 \/ next = 1  BY <1>1
<1>13. /\ Append(s, t) # <<>> /\ Append(s, t)[Len(Append(s, t))] = t
  BY AppendProperties
<1>14. config.enable_range_merge => Apart(Append(s, t))
  <2> SUFFICES ASSUME config.enable_range_merge PROVE Apart(Append(s, t))  OBVIOUS
  <2>1. Apart(s) /\ Apart(staged_tasks)
    BY <1>1, <1>5, <1>6 DEF ApartInv
  <2>2. s # <<>> => next > 1  BY <1>5, <1>6, <1>11, <1>12
  <2>3. s # <<>> => ~canMerge(s[Len(s)], t)
    <3> SUFFICES ASSUME s # <<>> PROVE ~canMerge(s[Len(s)], t)  OBVIOUS
    <3>1. next - 1 \in 1 .. Len(staged_tasks) - 1 /\ (next - 1) + 1 = next
      BY <1>1, <2>2
    <3>2. ~canMerge(staged_tasks[next - 1], staged_tasks[next])
      BY <2>1, <3>1 DEF Apart
    <3> QED  BY <1>3, <1>10, <2>2, <3>2
  <2> QED  BY <2>1, <2>3, AppendApart
<1>15. config.enable_range_merge => \A lane \in ReadLane : Apart(plan'[lane])
  BY <1>8, <1>14 DEF ApartInv
<1>16. \A lane \in ReadLane : plan'[lane] # <<>> => laneNumber[lane] <= laneNumber[t.lane]
  BY <1>5, <1>8, <1>9, <1>10, <1>11, <1>12
<1>17. next' > 1 /\ next' - 1 = next /\ next' <= Len(staged_tasks) + 1 /\ next' # 1
  BY <1>1
<1>18. plan'[t.lane] # <<>> /\ plan'[t.lane][Len(plan'[t.lane])] = t
  BY <1>5, <1>8, <1>13
<1> QED  BY <1>1, <1>3, <1>15, <1>16, <1>17, <1>18 DEF ApartInv, Apart, canMerge, LastOf

LEMMA ApartInvNext ==
    ASSUME PlanInv, OrderInv, ApartInv, [makePlan]_plannerVars PROVE ApartInv'
<1>1. CASE StageRequest
  <2>1. UNCHANGED <<config, pc, merged_tasks, plan>> /\ pc = "stage"
    BY <1>1 DEF StageRequest
  <2> QED  BY <2>1 DEF ApartInv, Apart, canMerge, LastOf
<1>2. CASE SortTasks
  <2>1. /\ UNCHANGED <<config, merged_tasks, plan>> /\ pc = "stage" /\ next' = 1
        /\ pc' = IF config.enable_range_merge THEN "merge" ELSE "lanes"
        /\ staged_tasks' = Sorted(staged_tasks)
    BY <1>2 DEF SortTasks
  <2>2. merged_tasks = <<>> /\ \A lane \in ReadLane : plan[lane] = <<>>
    BY <2>1 DEF OrderInv
  <2>3. Len(Sorted(staged_tasks)) \in Nat
    BY SortedSound, LenProperties DEF PlanInv
  <2>4. Apart(<<>>)'  BY DEF Apart
  <2> QED  BY <2>1, <2>2, <2>3, <2>4 DEF ApartInv, LastOf
<1>3. CASE MergeDone
  <2>1. /\ UNCHANGED <<config, plan>> /\ pc = "merge" /\ pc' = "lanes" /\ next' = 1
        /\ staged_tasks' = merged_tasks
    BY <1>3 DEF MergeDone
  <2>2. \A lane \in ReadLane : plan[lane] = <<>>
    BY <2>1 DEF OrderInv
  <2>3. Len(merged_tasks) \in Nat
    BY LenProperties DEF PlanInv
  <2>4. Apart(staged_tasks)'
    <3>1. Apart(merged_tasks)  BY <2>1 DEF ApartInv
    <3> QED  BY <3>1, <2>1 DEF Apart, canMerge
  <2>5. \A lane \in ReadLane : Apart(plan[lane])'
    <3>1. Apart(<<>>)'  BY DEF Apart
    <3> QED  BY <3>1, <2>1, <2>2
  <2> QED  BY <2>1, <2>2, <2>3, <2>4, <2>5 DEF ApartInv
<1>4. CASE ReturnPlan
  BY <1>4 DEF ReturnPlan, ApartInv, Apart, canMerge, LastOf
<1>5. CASE UNCHANGED plannerVars
  BY <1>5 DEF plannerVars, ApartInv, Apart, canMerge, LastOf
<1> QED
  BY <1>1, <1>2, <1>3, <1>4, <1>5, ApartMerge, ApartDistribute DEF makePlan

LEMMA ApartInvAlways == Spec => []ApartInv
<1>1. Init => ApartInv
  BY DEF Init, ApartInv, Apart, LastOf
<1> QED
  BY <1>1, ApartInvNext, PlanInvAlways, OrderInvAlways, PTL DEF Spec

(* After one pass no two neighbours of a lane could still be merged, with  *)
(* whatever gap and limit: a task that grew did not come into reach of the *)
(* one before it.                                                          *)
THEOREM NothingLeftToMergeAlways == Spec => []NothingLeftToMerge
<1>1. ApartInv => NothingLeftToMerge
  BY DEF ApartInv, Apart, NothingLeftToMerge
<1> QED
  BY <1>1, ApartInvAlways, PTL


-----------------------------------------------------------------------------
(* Coverage.  The pieces of some tasks are their segments, each with its   *)
(* path; a task is found by where it stands, a piece by its task and its   *)
(* number in it.                                                           *)
LayoutOf(tasks) ==
    [c \in UNION {{w} \X DOMAIN tasks[w].segments : w \in DOMAIN tasks} |->
        <<tasks[c[1]].path, tasks[c[1]].segments[c[2]]>>]

PieceEnd(p) == p[2].source_offset + p[2].size_bytes

(* Piece p is a part of request r, and goes to that part of r's place.     *)
PartOf(p, r) ==
    /\ p[1] = r.path /\ p[2].request_id = r.request_id
    /\ r.offset <= p[2].source_offset /\ PieceEnd(p) <= r.offset + r.size_bytes
    /\ p[2].destination = Advance(r.destination, p[2].source_offset - r.offset)

Holds(p, r, b) == p[2].source_offset <= r.offset + b /\ r.offset + b < PieceEnd(p)

PiecesApart(p, q) ==
    \/ p[2].request_id # q[2].request_id
    \/ PieceEnd(p) <= q[2].source_offset \/ PieceEnd(q) <= p[2].source_offset

(* Requests are told apart by their ids.                                   *)
Distinct(list) ==
    \A i, j \in DOMAIN list : list[i].request_id = list[j].request_id => i = j

(* The pieces are parts of the requests in acc, none empty; every byte of  *)
(* those requests is in one, and no two overlap unless requests share an   *)
(* id.                                                                     *)
Exact(layout, list, acc) ==
    /\ \A c \in DOMAIN layout : /\ layout[c][2].size_bytes > 0
                                /\ \E i \in acc : PartOf(layout[c], list[i])
    /\ Distinct(list) =>
          \A c, d \in DOMAIN layout : c # d => PiecesApart(layout[c], layout[d])
    /\ \A i \in acc : \A b \in 0 .. list[i].size_bytes - 1 :
          \E c \in DOMAIN layout : PartOf(layout[c], list[i]) /\ Holds(layout[c], list[i], b)

LEMMA LayoutPlaces ==
    ASSUME NEW tasks
    PROVE  /\ \A c : c \in DOMAIN LayoutOf(tasks) <=>
                  \E w \in DOMAIN tasks : \E k \in DOMAIN tasks[w].segments : c = <<w, k>>
           /\ \A w \in DOMAIN tasks : \A k \in DOMAIN tasks[w].segments :
                  /\ <<w, k>> \in DOMAIN LayoutOf(tasks)
                  /\ LayoutOf(tasks)[<<w, k>>] = <<tasks[w].path, tasks[w].segments[k]>>
<1> DEFINE P == UNION {{w} \X DOMAIN tasks[w].segments : w \in DOMAIN tasks}
<1>1. \A c : c \in P <=> \E w \in DOMAIN tasks : \E k \in DOMAIN tasks[w].segments : c = <<w, k>>
  OBVIOUS
<1> HIDE DEF P
<1>2. LayoutOf(tasks) = [c \in P |-> <<tasks[c[1]].path, tasks[c[1]].segments[c[2]]>>]
  BY DEF LayoutOf, P
<1>3. ASSUME NEW w \in DOMAIN tasks, NEW k \in DOMAIN tasks[w].segments
      PROVE  /\ <<w, k>> \in P
             /\ LayoutOf(tasks)[<<w, k>>] = <<tasks[w].path, tasks[w].segments[k]>>
  <2>1. <<w, k>> \in P  BY <1>1
  <2> QED  BY <1>2, <2>1
<1>4. DOMAIN LayoutOf(tasks) = P  BY <1>2
<1> QED  BY <1>1, <1>3, <1>4

(* The pieces of one layout are those of the other, each found elsewhere.  *)
Moves(f, L, M) ==
    /\ f \in [DOMAIN M -> DOMAIN L]
    /\ \A c, d \in DOMAIN M : f[c] = f[d] => c = d
    /\ \A e \in DOMAIN L : \E c \in DOMAIN M : f[c] = e
    /\ \A c \in DOMAIN M : M[c] = L[f[c]]
SameLayout(L, M) == \E f : Moves(f, L, M)

LEMMA SameExact ==
    ASSUME NEW L, NEW M, NEW list, NEW acc, SameLayout(L, M), Exact(L, list, acc)
    PROVE  Exact(M, list, acc)
<1>1. PICK f : Moves(f, L, M)  BY DEF SameLayout
<1>2. \A c \in DOMAIN M : f[c] \in DOMAIN L /\ M[c] = L[f[c]]  BY <1>1 DEF Moves
<1>3. \A c \in DOMAIN M : /\ M[c][2].size_bytes > 0
                          /\ \E i \in acc : PartOf(M[c], list[i])
  BY <1>2 DEF Exact
<1>4. Distinct(list) => \A c, d \in DOMAIN M : c # d => PiecesApart(M[c], M[d])
  BY <1>1, <1>2 DEF Exact, Moves
<1>5. ASSUME NEW i \in acc, NEW b \in 0 .. list[i].size_bytes - 1
      PROVE  \E c \in DOMAIN M : PartOf(M[c], list[i]) /\ Holds(M[c], list[i], b)
  <2>1. PICK e \in DOMAIN L : PartOf(L[e], list[i]) /\ Holds(L[e], list[i], b)  BY DEF Exact
  <2>2. PICK c \in DOMAIN M : f[c] = e  BY <1>1 DEF Moves
  <2> QED  BY <1>2, <2>1, <2>2
<1> QED  BY <1>3, <1>4, <1>5 DEF Exact

(* The tasks of U are those of T, each standing elsewhere.                 *)
Relabels(g, T, U) ==
    /\ g \in [DOMAIN U -> DOMAIN T]
    /\ \A v, w \in DOMAIN U : g[v] = g[w] => v = w
    /\ \A t \in DOMAIN T : \E v \in DOMAIN U : g[v] = t
    /\ \A v \in DOMAIN U : U[v] = T[g[v]]

LEMMA RelabelledTasks ==
    ASSUME NEW T, NEW U, NEW g, Relabels(g, T, U)
    PROVE  SameLayout(LayoutOf(T), LayoutOf(U))
<1> DEFINE L == LayoutOf(T)
           M == LayoutOf(U)
           f == [c \in DOMAIN M |-> <<g[c[1]], c[2]>>]
<1>1. ASSUME NEW c \in DOMAIN M
      PROVE  \E v \in DOMAIN U : \E k \in DOMAIN U[v].segments :
                /\ c = <<v, k>> /\ f[c] = <<g[v], k>> /\ f[c] \in DOMAIN L
                /\ M[c] = L[f[c]]
  <2>1. PICK v \in DOMAIN U : \E k \in DOMAIN U[v].segments : c = <<v, k>>  BY LayoutPlaces
  <2>2. PICK k \in DOMAIN U[v].segments : c = <<v, k>>  BY <2>1
  <2>3. g[v] \in DOMAIN T /\ U[v] = T[g[v]]  BY DEF Relabels
  <2>4. k \in DOMAIN T[g[v]].segments  BY <2>3
  <2>5. <<g[v], k>> \in DOMAIN L
        /\ L[<<g[v], k>>] = <<T[g[v]].path, T[g[v]].segments[k]>>
    BY <2>3, <2>4, LayoutPlaces
  <2>6. M[c] = <<U[v].path, U[v].segments[k]>>  BY <2>2, LayoutPlaces
  <2>7. f[c] = <<g[v], k>>  BY <2>2
  <2> QED  BY <2>2, <2>3, <2>5, <2>6, <2>7
<1>2. ASSUME NEW c \in DOMAIN M, NEW d \in DOMAIN M, f[c] = f[d] PROVE c = d
  <2>1. PICK v \in DOMAIN U : \E k : c = <<v, k>> /\ f[c] = <<g[v], k>>  BY <1>1
  <2>2. PICK w \in DOMAIN U : \E m : d = <<w, m>> /\ f[d] = <<g[w], m>>  BY <1>1
  <2>3. PICK k : c = <<v, k>> /\ f[c] = <<g[v], k>>  BY <2>1
  <2>4. PICK m : d = <<w, m>> /\ f[d] = <<g[w], m>>  BY <2>2
  <2> HIDE DEF f
  <2>5. g[v] = g[w] /\ k = m  BY <1>2, <2>3, <2>4
  <2> QED  BY <2>3, <2>4, <2>5 DEF Relabels
<1>3. ASSUME NEW e \in DOMAIN L PROVE \E c \in DOMAIN M : f[c] = e
  <2>1. PICK t \in DOMAIN T : \E k \in DOMAIN T[t].segments : e = <<t, k>>  BY LayoutPlaces
  <2>2. PICK k \in DOMAIN T[t].segments : e = <<t, k>>  BY <2>1
  <2>3. PICK v \in DOMAIN U : g[v] = t  BY DEF Relabels
  <2>4. k \in DOMAIN U[v].segments  BY <2>2, <2>3 DEF Relabels
  <2>5. <<v, k>> \in DOMAIN M  BY <2>4, LayoutPlaces
  <2> QED  BY <2>2, <2>3, <2>5
<1>4. f \in [DOMAIN M -> DOMAIN L]
  <2>1. \A c \in DOMAIN M : f[c] \in DOMAIN L  BY <1>1
  <2> QED  BY <2>1
<1>5. \A c \in DOMAIN M : M[c] = L[f[c]]  BY <1>1
<1> HIDE DEF f, L, M
<1>6. Moves(f, L, M)  BY <1>2, <1>3, <1>4, <1>5 DEF Moves
<1> QED  BY <1>6 DEF SameLayout, L, M

(* One task goes from x to y.                                              *)
OneMoves(T, U, x, y) ==
    /\ x \in DOMAIN T /\ y \notin DOMAIN T
    /\ DOMAIN U = (DOMAIN T \ {x}) \cup {y}
    /\ U[y] = T[x] /\ \A v \in DOMAIN T \ {x} : U[v] = T[v]

LEMMA MovedTask ==
    ASSUME NEW T, NEW U, NEW x, NEW y, OneMoves(T, U, x, y)
    PROVE  SameLayout(LayoutOf(T), LayoutOf(U))
<1> DEFINE g == [v \in DOMAIN U |-> IF v = y THEN x ELSE v]
<1>1. Relabels(g, T, U)  BY DEF OneMoves, Relabels
<1> QED  BY <1>1, RelabelledTasks

(* The task at x joins the one at y: its segments go behind that one's.    *)
OneJoins(T, U, x, y) ==
    /\ x \in DOMAIN T /\ y \in DOMAIN T /\ x # y
    /\ DOMAIN U = DOMAIN T \ {x}
    /\ \A v \in DOMAIN T \ {x, y} : U[v] = T[v]
    /\ U[y].path = T[y].path /\ T[y].path = T[x].path
    /\ T[x].segments \in Seq(ReadSegment) /\ T[y].segments \in Seq(ReadSegment)
    /\ U[y].segments = T[y].segments \o T[x].segments

LEMMA JoinedTask ==
    ASSUME NEW T, NEW U, NEW x, NEW y, OneJoins(T, U, x, y)
    PROVE  SameLayout(LayoutOf(T), LayoutOf(U))
<1>1. PICK ys \in Seq(ReadSegment), xs \in Seq(ReadSegment), us \in Seq(ReadSegment) :
        ys = T[y].segments /\ xs = T[x].segments /\ us = U[y].segments /\ us = ys \o xs
  BY ConcatProperties DEF OneJoins
<1>2. PICK a \in Nat, b \in Nat : /\ a = Len(ys) /\ b = Len(xs)
                                  /\ DOMAIN ys = 1 .. a /\ DOMAIN xs = 1 .. b
  BY LenProperties
<1>3. /\ DOMAIN us = 1 .. a + b
      /\ \A k \in 1 .. a + b : us[k] = IF k <= a THEN ys[k] ELSE xs[k - a]
  <2>0. us = ys \o xs  BY <1>1
  <2>1. Len(us) = a + b /\ \A k \in 1 .. a + b : us[k] = IF k <= a THEN ys[k] ELSE xs[k - a]
    BY <1>2, <2>0, ConcatProperties
  <2> QED  BY <2>1, LenProperties
<1> DEFINE L == LayoutOf(T)
           M == LayoutOf(U)
           Late(c) == c[1] = y /\ ~(c[2] <= a)
           f == [c \in DOMAIN M |-> IF Late(c) THEN <<x, c[2] - a>> ELSE c]
<1>4. /\ x \in DOMAIN T /\ y \in DOMAIN T /\ x # y /\ DOMAIN U = DOMAIN T \ {x}
      /\ \A v \in DOMAIN T \ {x, y} : U[v] = T[v]
      /\ U[y].path = T[y].path /\ T[y].path = T[x].path
  BY DEF OneJoins
<1>5. ASSUME NEW c \in DOMAIN M
      PROVE  \/ /\ Late(c) /\ \E k \in 1 .. b : c = <<y, a + k>> /\ f[c] = <<x, k>>
                /\ f[c] \in DOMAIN L /\ M[c] = L[f[c]]
             \/ /\ ~Late(c) /\ f[c] = c /\ c \in DOMAIN L /\ c[1] # x
                /\ M[c] = L[f[c]]
  <2>1. PICK v \in DOMAIN U : \E k \in DOMAIN U[v].segments : c = <<v, k>>  BY LayoutPlaces
  <2>2. PICK k \in DOMAIN U[v].segments : c = <<v, k>>  BY <2>1
  <2>3. M[c] = <<U[v].path, U[v].segments[k]>>  BY <2>2, LayoutPlaces
  <2>4. CASE v # y
    <3>1. U[v] = T[v] /\ v \in DOMAIN T /\ v # x  BY <1>4, <2>4
    <3>2. <<v, k>> \in DOMAIN L /\ L[<<v, k>>] = <<T[v].path, T[v].segments[k]>>
      BY <2>2, <3>1, LayoutPlaces
    <3>3. ~Late(c) /\ f[c] = c /\ c[1] = v  BY <2>2, <2>4
    <3> HIDE DEF f, Late
    <3> QED  BY <2>2, <2>3, <3>1, <3>2, <3>3
  <2>5. CASE v = y /\ k <= a
    <3>0. k \in 1 .. a + b  BY <1>1, <1>3, <2>2, <2>5
    <3>1. k \in 1 .. a  BY <2>5, <3>0
    <3>2. <<y, k>> \in DOMAIN L /\ L[<<y, k>>] = <<T[y].path, T[y].segments[k]>>
      BY <1>1, <1>2, <1>4, <3>1, LayoutPlaces
    <3>3. U[y].segments[k] = T[y].segments[k]  BY <1>1, <1>3, <2>5, <3>1
    <3>4. ~Late(c) /\ f[c] = c /\ c[1] = y  BY <2>2, <2>5
    <3> HIDE DEF f, Late
    <3> QED  BY <1>4, <2>2, <2>3, <2>5, <3>2, <3>3, <3>4
  <2>6. CASE v = y /\ ~(k <= a)
    <3>1. PICK j \in 1 .. b : j = k - a /\ k = a + j
      <4>1. k \in 1 .. a + b  BY <1>1, <1>3, <2>2, <2>6
      <4>2. k - a \in 1 .. b /\ k = a + (k - a)  BY <2>6, <4>1
      <4> QED  BY <4>2
    <3>2. <<x, j>> \in DOMAIN L /\ L[<<x, j>>] = <<T[x].path, T[x].segments[j]>>
      BY <1>1, <1>2, <1>4, LayoutPlaces
    <3>3. U[y].segments[k] = T[x].segments[j]
      BY <1>1, <1>3, <2>6, <3>1
    <3>4. Late(c) /\ f[c] = <<x, j>> /\ c = <<y, a + j>>  BY <2>2, <2>6, <3>1
    <3> HIDE DEF f, Late
    <3> QED  BY <1>4, <2>3, <2>6, <3>2, <3>3, <3>4
  <2> QED  BY <2>4, <2>5, <2>6
<1>6. ASSUME NEW c \in DOMAIN M, NEW d \in DOMAIN M, f[c] = f[d] PROVE c = d
  <2> HIDE DEF f, Late
  <2>1. CASE Late(c) /\ Late(d)
    <3>1. PICK k \in 1 .. b : c = <<y, a + k>> /\ f[c] = <<x, k>>  BY <1>5, <2>1
    <3>2. PICK m \in 1 .. b : d = <<y, a + m>> /\ f[d] = <<x, m>>  BY <1>5, <2>1
    <3>3. k = m  BY <1>6, <3>1, <3>2
    <3> QED  BY <3>1, <3>2, <3>3
  <2>2. CASE ~Late(c) /\ ~Late(d)  BY <1>5, <1>6, <2>2
  <2>3. CASE Late(c) /\ ~Late(d)
    <3>1. PICK k \in 1 .. b : f[c] = <<x, k>>  BY <1>5, <2>3
    <3>2. f[d] = d /\ d[1] # x  BY <1>5, <2>3
    <3>3. d = <<x, k>>  BY <1>6, <3>1, <3>2
    <3> QED  BY <3>2, <3>3
  <2>4. CASE ~Late(c) /\ Late(d)
    <3>1. PICK k \in 1 .. b : f[d] = <<x, k>>  BY <1>5, <2>4
    <3>2. f[c] = c /\ c[1] # x  BY <1>5, <2>4
    <3>3. c = <<x, k>>  BY <1>6, <3>1, <3>2
    <3> QED  BY <3>2, <3>3
  <2> QED  BY <2>1, <2>2, <2>3, <2>4
<1>7. ASSUME NEW e \in DOMAIN L PROVE \E c \in DOMAIN M : f[c] = e
  <2>1. PICK t \in DOMAIN T : \E k \in DOMAIN T[t].segments : e = <<t, k>>  BY LayoutPlaces
  <2>2. PICK k \in DOMAIN T[t].segments : e = <<t, k>>  BY <2>1
  <2>3. CASE t = x
    <3>1. k \in 1 .. b  BY <1>1, <1>2, <2>2, <2>3
    <3>2. a + k \in DOMAIN us /\ ~(a + k <= a) /\ (a + k) - a = k  BY <1>3, <3>1
    <3>3. <<y, a + k>> \in DOMAIN M  BY <1>1, <1>4, <3>2, LayoutPlaces
    <3>4. f[<<y, a + k>>] = <<x, k>>  BY <3>2, <3>3
    <3> QED  BY <2>2, <2>3, <3>3, <3>4
  <2>4. CASE t = y
    <3>1. k \in 1 .. a  BY <1>1, <1>2, <2>2, <2>4
    <3>2. k \in DOMAIN us /\ k <= a  BY <1>3, <3>1
    <3>3. <<y, k>> \in DOMAIN M  BY <1>1, <1>4, <3>2, LayoutPlaces
    <3>4. f[<<y, k>>] = <<y, k>>  BY <3>2, <3>3
    <3> QED  BY <2>2, <2>4, <3>3, <3>4
  <2>5. CASE t # x /\ t # y
    <3>1. t \in DOMAIN U /\ U[t] = T[t]  BY <1>4, <2>5
    <3>2. <<t, k>> \in DOMAIN M  BY <2>2, <3>1, LayoutPlaces
    <3>3. f[<<t, k>>] = <<t, k>>  BY <2>5, <3>2
    <3> QED  BY <2>2, <3>2, <3>3
  <2> QED  BY <2>3, <2>4, <2>5
<1>8. f \in [DOMAIN M -> DOMAIN L]
  <2>1. \A c \in DOMAIN M : f[c] \in DOMAIN L
    <3> HIDE DEF Late
    <3> QED  BY <1>5
  <2> QED  BY <2>1
<1>9. \A c \in DOMAIN M : M[c] = L[f[c]]
  <2> HIDE DEF f, Late, L, M
  <2> QED  BY <1>5
<1> HIDE DEF f, L, M
<1>10. Moves(f, L, M)  BY <1>6, <1>7, <1>8, <1>9 DEF Moves
<1> QED  BY <1>10 DEF SameLayout, L, M


-----------------------------------------------------------------------------
(* K holds the pieces of L, and those of M where h puts them.              *)
Unites(h, K, L, M) ==
    /\ \A c \in DOMAIN K : \/ c \in DOMAIN L /\ K[c] = L[c]
                           \/ \E d \in DOMAIN M : c = h[d] /\ K[c] = M[d]
    /\ \A c \in DOMAIN L : c \in DOMAIN K /\ K[c] = L[c]
    /\ \A d \in DOMAIN M : h[d] \in DOMAIN K /\ K[h[d]] = M[d]

LEMMA UnitedExact ==
    ASSUME NEW K, NEW L, NEW M, NEW h, NEW list, NEW acc, NEW more,
           Unites(h, K, L, M), Exact(L, list, acc), Exact(M, list, more),
           acc \subseteq DOMAIN list, more \subseteq DOMAIN list, acc \cap more = {}
    PROVE  Exact(K, list, acc \cup more)
<1>1. ASSUME NEW c \in DOMAIN K
      PROVE  K[c][2].size_bytes > 0 /\ \E i \in acc \cup more : PartOf(K[c], list[i])
  BY DEF Unites, Exact
<1>2. ASSUME Distinct(list), NEW c \in DOMAIN K, NEW d \in DOMAIN K, c # d
      PROVE  PiecesApart(K[c], K[d])
  <2>1. ASSUME NEW p, NEW q, NEW i \in acc, NEW j \in more,
               PartOf(p, list[i]), PartOf(q, list[j])
        PROVE  PiecesApart(p, q) /\ PiecesApart(q, p)
    <3>1. list[i].request_id # list[j].request_id  BY <1>2 DEF Distinct
    <3> QED  BY <2>1, <3>1 DEF PartOf, PiecesApart
  <2>2. CASE c \in DOMAIN L /\ K[c] = L[c]
    <3>1. PICK i \in acc : PartOf(K[c], list[i])  BY <2>2 DEF Exact
    <3>2. CASE d \in DOMAIN L /\ K[d] = L[d]  BY <1>2, <2>2, <3>2 DEF Exact
    <3>3. CASE \E e \in DOMAIN M : d = h[e] /\ K[d] = M[e]
      <4>1. PICK j \in more : PartOf(K[d], list[j])  BY <3>3 DEF Exact
      <4> QED  BY <2>1, <3>1, <4>1
    <3> QED  BY <3>2, <3>3 DEF Unites
  <2>3. CASE \E e \in DOMAIN M : c = h[e] /\ K[c] = M[e]
    <3>1. PICK e \in DOMAIN M : c = h[e] /\ K[c] = M[e]  BY <2>3
    <3>2. PICK j \in more : PartOf(K[c], list[j])  BY <3>1 DEF Exact
    <3>3. CASE d \in DOMAIN L /\ K[d] = L[d]
      <4>1. PICK i \in acc : PartOf(K[d], list[i])  BY <3>3 DEF Exact
      <4> QED  BY <2>1, <3>2, <4>1
    <3>4. CASE \E g \in DOMAIN M : d = h[g] /\ K[d] = M[g]
      <4>1. PICK g \in DOMAIN M : d = h[g] /\ K[d] = M[g]  BY <3>4
      <4>2. g # e  BY <1>2, <3>1, <4>1
      <4> QED  BY <1>2, <3>1, <4>1, <4>2 DEF Exact
    <3> QED  BY <3>3, <3>4 DEF Unites
  <2> QED  BY <2>2, <2>3 DEF Unites
<1>3. ASSUME NEW i \in acc \cup more, NEW b \in 0 .. list[i].size_bytes - 1
      PROVE  \E c \in DOMAIN K : PartOf(K[c], list[i]) /\ Holds(K[c], list[i], b)
  <2>1. CASE i \in acc  BY <1>3, <2>1 DEF Exact, Unites
  <2>2. CASE i \in more
    <3>1. PICK d \in DOMAIN M : PartOf(M[d], list[i]) /\ Holds(M[d], list[i], b)
      BY <1>3, <2>2 DEF Exact
    <3>2. h[d] \in DOMAIN K /\ K[h[d]] = M[d]  BY DEF Unites
    <3> QED  BY <3>1, <3>2
  <2> QED  BY <2>1, <2>2
<1> QED  BY <1>1, <1>2, <1>3 DEF Exact

(* One task after the other, single parts of r that cut it without gap or  *)
(* overlap: part k is size[k] bytes from byte at[k] on.                    *)
Cuts(s, r, q, at, size) ==
    /\ DOMAIN s = 1 .. q
    /\ \A k \in 1 .. q : /\ at[k] \in Nat /\ size[k] \in Nat \ {0}
                         /\ s[k] = makeSingleTask(r, at[k], size[k])
                         /\ at[k] + size[k] <= r.size_bytes
    /\ \A k, m \in 1 .. q : k < m => at[k] + size[k] <= at[m]
    /\ \A b \in 0 .. r.size_bytes - 1 : \E k \in 1 .. q : at[k] <= b /\ b < at[k] + size[k]

LEMMA CutsExact ==
    ASSUME NEW s, NEW r \in ReadRequest, NEW q \in Nat, NEW at, NEW size,
           Cuts(s, r, q, at, size), NEW list, NEW i, list[i] = r
    PROVE  Exact(LayoutOf(s), list, {i})
<1> DEFINE M == LayoutOf(s)
<1>0. r.offset \in Nat /\ r.size_bytes \in Nat  BY DEF ReadRequest
<1>1. ASSUME NEW k \in 1 .. q
      PROVE  /\ DOMAIN s[k].segments = {1} /\ s[k].path = r.path
             /\ s[k].segments[1].source_offset = r.offset + at[k]
             /\ s[k].segments[1].size_bytes = size[k]
             /\ s[k].segments[1].destination = Advance(r.destination, at[k])
             /\ s[k].segments[1].request_id = r.request_id
             /\ at[k] \in Nat /\ size[k] \in Nat \ {0} /\ at[k] + size[k] <= r.size_bytes
  <2>1. s[k] = makeSingleTask(r, at[k], size[k]) /\ at[k] \in Nat /\ size[k] \in Nat \ {0}
        /\ at[k] + size[k] <= r.size_bytes
    BY DEF Cuts
  <2> QED  BY <2>1 DEF makeSingleTask
<1>2. ASSUME NEW k \in 1 .. q
      PROVE  /\ <<k, 1>> \in DOMAIN M /\ PartOf(M[<<k, 1>>], r)
             /\ M[<<k, 1>>][2].source_offset = r.offset + at[k]
             /\ M[<<k, 1>>][2].size_bytes > 0
             /\ PieceEnd(M[<<k, 1>>]) = (r.offset + at[k]) + size[k]
             /\ at[k] \in Nat /\ size[k] \in Nat
  <2>1. <<k, 1>> \in DOMAIN M /\ M[<<k, 1>>] = <<s[k].path, s[k].segments[1]>>
    <3>1. k \in DOMAIN s /\ 1 \in DOMAIN s[k].segments  BY <1>1 DEF Cuts
    <3> QED  BY <3>1, LayoutPlaces
  <2>2. PICK p : p = M[<<k, 1>>]  OBVIOUS
  <2>3. /\ p[1] = r.path /\ p[2].request_id = r.request_id
        /\ p[2].source_offset = r.offset + at[k] /\ p[2].size_bytes = size[k]
        /\ p[2].destination = Advance(r.destination, at[k]) /\ p[2].size_bytes > 0
    <3>1. p[1] = s[k].path /\ p[2] = s[k].segments[1]  BY <2>1, <2>2
    <3> QED  BY <1>1, <3>1
  <2>4. PICK o \in Nat, a \in Nat, n \in Nat, z \in Nat :
           o = r.offset /\ a = at[k] /\ n = size[k] /\ z = r.size_bytes /\ a + n <= z
    BY <1>0, <1>1
  <2>5. PieceEnd(p) = (o + a) + n  BY <2>3, <2>4 DEF PieceEnd
  <2>6. (o + a) - o = a /\ o <= o + a /\ (o + a) + n <= o + z  BY <2>4
  <2>7. PartOf(p, r)  BY <2>3, <2>4, <2>5, <2>6 DEF PartOf
  <2> QED  BY <1>1, <2>1, <2>2, <2>3, <2>4, <2>5, <2>7
<1>3. ASSUME NEW c \in DOMAIN M PROVE \E k \in 1 .. q : c = <<k, 1>>
  <2>1. PICK k \in DOMAIN s : \E m \in DOMAIN s[k].segments : c = <<k, m>>  BY LayoutPlaces
  <2>2. k \in 1 .. q  BY DEF Cuts
  <2> QED  BY <1>1, <2>1, <2>2
<1> HIDE DEF M
<1>4. \A c \in DOMAIN M : M[c][2].size_bytes > 0 /\ \E j \in {i} : PartOf(M[c], list[j])
  BY <1>2, <1>3
<1>5. ASSUME NEW c \in DOMAIN M, NEW d \in DOMAIN M, c # d PROVE PiecesApart(M[c], M[d])
  <2>1. PICK k \in 1 .. q : c = <<k, 1>>  BY <1>3
  <2>2. PICK m \in 1 .. q : d = <<m, 1>>  BY <1>3
  <2>3. (k < m /\ at[k] + size[k] <= at[m]) \/ (m < k /\ at[m] + size[m] <= at[k])
    <3>1. k < m \/ m < k  BY <1>5, <2>1, <2>2
    <3> QED  BY <3>1 DEF Cuts
  <2>4. /\ M[c][2].source_offset = r.offset + at[k] /\ PieceEnd(M[c]) = (r.offset + at[k]) + size[k]
        /\ M[d][2].source_offset = r.offset + at[m] /\ PieceEnd(M[d]) = (r.offset + at[m]) + size[m]
        /\ at[k] \in Nat /\ size[k] \in Nat /\ at[m] \in Nat /\ size[m] \in Nat
    BY <1>2, <2>1, <2>2
  <2>5. PieceEnd(M[c]) <= M[d][2].source_offset \/ PieceEnd(M[d]) <= M[c][2].source_offset
    <3>1. PICK o \in Nat, a \in Nat, b \in Nat, x \in Nat, y \in Nat :
             o = r.offset /\ a = at[k] /\ x = size[k] /\ b = at[m] /\ y = size[m]
      BY <1>0, <2>4
    <3>2. a + x <= b \/ b + y <= a  BY <2>3, <3>1
    <3>3. (o + a) + x <= o + b \/ (o + b) + y <= o + a  BY <3>2
    <3> QED  BY <2>4, <3>1, <3>3
  <2> QED  BY <2>5 DEF PiecesApart
<1>6. ASSUME NEW j \in {i}, NEW b \in 0 .. list[j].size_bytes - 1
      PROVE  \E c \in DOMAIN M : PartOf(M[c], list[j]) /\ Holds(M[c], list[j], b)
  <2>1. list[j] = r /\ b \in 0 .. r.size_bytes - 1  BY <1>6
  <2>2. PICK k \in 1 .. q : at[k] <= b /\ b < at[k] + size[k]  BY <2>1 DEF Cuts
  <2>3. Holds(M[<<k, 1>>], r, b)
    <3>0. b \in Nat  BY <1>0, <2>1
    <3>1. PICK o \in Nat, a \in Nat, n \in Nat, d \in Nat :
             o = r.offset /\ a = at[k] /\ n = size[k] /\ d = b
      BY <1>0, <1>2, <3>0
    <3>2. a <= d /\ d < a + n  BY <2>2, <3>1
    <3>3. o + a <= o + d /\ o + d < (o + a) + n  BY <3>2
    <3> QED  BY <1>2, <3>1, <3>3 DEF Holds
  <2> QED  BY <1>2, <2>1, <2>3
<1> QED  BY <1>4, <1>5, <1>6 DEF Exact, M

LEMMA NoPieces == ASSUME NEW list PROVE Exact(LayoutOf(<<>>), list, {})
<1>1. PICK none : none = <<>> /\ DOMAIN none = {}  OBVIOUS
<1>2. DOMAIN LayoutOf(none) = {}  BY <1>1, LayoutPlaces
<1> QED  BY <1>1, <1>2 DEF Exact

(* The chunks of a split request.                                          *)
LEMMA ChunkOf ==
    ASSUME NEW size \in Nat \ {0}, NEW chunk \in Nat \ {0}, NEW b \in 0 .. size - 1
    PROVE  \E k \in 1 .. (size + chunk - 1) \div chunk :
              (k - 1) * chunk <= b /\ b < (k - 1) * chunk + chunk
<1> DEFINE total == size + chunk - 1
           q     == total \div chunk
           j     == b \div chunk
<1>1. j \in Nat /\ j * chunk <= b /\ b < j * chunk + chunk  BY SMTT(30)
<1>2. total \in Nat /\ q \in Nat /\ q * chunk <= total /\ total < q * chunk + chunk
  BY SMTT(30)
<1> HIDE DEF q, j
<1>3. j < q
  <2>1. SUFFICES ASSUME q <= j PROVE FALSE  BY <1>1, <1>2
  <2>2. q * chunk <= j * chunk  BY <1>1, <1>2, <2>1, SMTT(30)
  <2>3. PICK x \in Nat, y \in Nat : x = q * chunk /\ y = j * chunk  BY <1>1, <1>2
  <2> QED  BY <1>1, <1>2, <2>2, <2>3
<1>4. j + 1 \in 1 .. q /\ (j + 1) - 1 = j  BY <1>1, <1>2, <1>3
<1> QED  BY <1>1, <1>4 DEF q

LEMMA ChunksInARow ==
    ASSUME NEW chunk \in Nat \ {0}, NEW k \in Nat \ {0}, NEW m \in Nat \ {0}, k < m
    PROVE  (k - 1) * chunk + chunk <= (m - 1) * chunk
<1>1. k * chunk <= (m - 1) * chunk  BY SMTT(30)
<1>2. (k - 1) * chunk + chunk = k * chunk  BY SMTT(30)
<1> QED  BY <1>1, <1>2

(* What is staged of a valid request is exactly the request.               *)
LEMMA TasksOfExact ==
    ASSUME NEW r \in ReadRequest, config \in PlannerConfig, isValidRequest(r),
           NEW list, NEW i, list[i] = r
    PROVE  Exact(LayoutOf(TasksOf(r)), list, {i})
<1>1. CASE ~shouldSplit(r)
  <2>1. r.size_bytes \in Nat \ {0}  BY DEF ReadRequest, isValidRequest
  <2>2. TasksOf(r) = << makeSingleTask(r, 0, r.size_bytes) >>  BY <1>1 DEF TasksOf
  <2>3. Cuts(TasksOf(r), r, 1, [k \in {1} |-> 0], [k \in {1} |-> r.size_bytes])
    BY <2>1, <2>2 DEF Cuts
  <2> QED  BY <2>3, CutsExact
<1>2. CASE shouldSplit(r)
  <2> DEFINE chunk   == config.split_chunk_bytes
             q       == (r.size_bytes + chunk - 1) \div chunk
             left(k) == r.size_bytes - (k - 1) * chunk
             part(k) == IF left(k) < chunk THEN left(k) ELSE chunk
             at      == [k \in 1 .. q |-> (k - 1) * chunk]
             size    == [k \in 1 .. q |-> part(k)]
  <2>1. chunk \in Nat \ {0} /\ r.size_bytes \in Nat \ {0}
    BY <1>2 DEF isValidRequest, shouldSplit, ReadRequest, PlannerConfig
  <2>2. q \in Nat
    BY <2>1, SMTT(30)
  <2>3. ASSUME NEW k \in 1 .. q
        PROVE  /\ (k - 1) * chunk \in Nat /\ part(k) \in Nat \ {0}
               /\ (k - 1) * chunk + part(k) <= r.size_bytes
               /\ (k - 1) * chunk + part(k) <= (k - 1) * chunk + chunk
               /\ \A b \in 0 .. r.size_bytes - 1 :
                     b < (k - 1) * chunk + chunk => b < (k - 1) * chunk + part(k)
    <3>1. (k - 1) * chunk \in 0 .. r.size_bytes - 1
      BY <2>1, Chunks
    <3> HIDE DEF q
    <3>2. PICK x \in Nat, n \in Nat, z \in Nat :
             /\ x = (k - 1) * chunk /\ n = chunk /\ z = r.size_bytes
             /\ x < z /\ n # 0
      BY <2>1, <3>1
    <3>3. part(k) = IF z - x < n THEN z - x ELSE n  BY <3>2
    <3> QED  BY <3>2, <3>3
  <2>4. TasksOf(r) = [k \in 1 .. q |-> makeSingleTask(r, (k - 1) * chunk, part(k))]
    BY <1>2 DEF TasksOf, SplitTasks
  <2>5. ASSUME NEW k \in 1 .. q, NEW m \in 1 .. q, k < m
        PROVE  (k - 1) * chunk + part(k) <= (m - 1) * chunk
    <3>1. k \in Nat \ {0} /\ m \in Nat \ {0}  BY <2>2
    <3>2. (k - 1) * chunk + chunk <= (m - 1) * chunk  BY <2>1, <2>5, <3>1, ChunksInARow
    <3>3. (k - 1) * chunk + part(k) <= (k - 1) * chunk + chunk /\ (k - 1) * chunk \in Nat
          /\ (m - 1) * chunk \in Nat /\ part(k) \in Nat
      BY <2>3
    <3> HIDE DEF part, q
    <3> QED  BY <2>1, <3>2, <3>3
  <2>6. ASSUME NEW b \in 0 .. r.size_bytes - 1
        PROVE  \E k \in 1 .. q : (k - 1) * chunk <= b /\ b < (k - 1) * chunk + part(k)
    <3>1. PICK k \in 1 .. q : (k - 1) * chunk <= b /\ b < (k - 1) * chunk + chunk
      BY <2>1, ChunkOf
    <3> QED  BY <2>3, <3>1
  <2> HIDE DEF q, part
  <2>7. Cuts(TasksOf(r), r, q, at, size)
    BY <2>2, <2>3, <2>4, <2>5, <2>6 DEF Cuts
  <2> HIDE DEF at, size
  <2> QED  BY <2>2, <2>7, CutsExact
<1> QED  BY <1>1, <1>2


(* U has the tasks of T, and those of N where at puts them.                *)
Adds(at, U, T, N) ==
    /\ \A v \in DOMAIN U : \/ v \in DOMAIN T /\ U[v] = T[v]
                           \/ \E j \in DOMAIN N : v = at[j] /\ U[v] = N[j]
    /\ \A v \in DOMAIN T : v \in DOMAIN U /\ U[v] = T[v]
    /\ \A j \in DOMAIN N : at[j] \in DOMAIN U /\ U[at[j]] = N[j]

LEMMA AddedTasks ==
    ASSUME NEW T, NEW U, NEW N, NEW at, Adds(at, U, T, N)
    PROVE  \E h : Unites(h, LayoutOf(U), LayoutOf(T), LayoutOf(N))
<1> DEFINE K == LayoutOf(U)
           L == LayoutOf(T)
           M == LayoutOf(N)
           h == [d \in DOMAIN M |-> <<at[d[1]], d[2]>>]
<1>1. ASSUME NEW j \in DOMAIN N, NEW k \in DOMAIN N[j].segments
      PROVE  /\ <<j, k>> \in DOMAIN M /\ h[<<j, k>>] = <<at[j], k>>
             /\ h[<<j, k>>] \in DOMAIN K /\ K[h[<<j, k>>]] = M[<<j, k>>]
  <2>1. <<j, k>> \in DOMAIN M /\ M[<<j, k>>] = <<N[j].path, N[j].segments[k]>>
    BY LayoutPlaces
  <2>2. at[j] \in DOMAIN U /\ U[at[j]] = N[j]  BY DEF Adds
  <2>3. <<at[j], k>> \in DOMAIN K /\ K[<<at[j], k>>] = <<U[at[j]].path, U[at[j]].segments[k]>>
    BY <2>2, LayoutPlaces
  <2>4. h[<<j, k>>] = <<at[j], k>>  BY <2>1
  <2> QED  BY <2>1, <2>2, <2>3, <2>4
<1>2. ASSUME NEW v \in DOMAIN T, NEW k \in DOMAIN T[v].segments
      PROVE  /\ <<v, k>> \in DOMAIN L /\ <<v, k>> \in DOMAIN K /\ K[<<v, k>>] = L[<<v, k>>]
  <2>1. v \in DOMAIN U /\ U[v] = T[v]  BY DEF Adds
  <2>2. <<v, k>> \in DOMAIN L /\ L[<<v, k>>] = <<T[v].path, T[v].segments[k]>>
    BY LayoutPlaces
  <2>3. k \in DOMAIN U[v].segments  BY <2>1
  <2>4. <<v, k>> \in DOMAIN K /\ K[<<v, k>>] = <<U[v].path, U[v].segments[k]>>
    BY <2>1, <2>3, LayoutPlaces
  <2> HIDE DEF K, L
  <2> QED  BY <2>1, <2>2, <2>4
<1>3. ASSUME NEW c \in DOMAIN K
      PROVE  \/ c \in DOMAIN L /\ K[c] = L[c]
             \/ \E d \in DOMAIN M : c = h[d] /\ K[c] = M[d]
  <2>1. PICK v \in DOMAIN U : \E k \in DOMAIN U[v].segments : c = <<v, k>>  BY LayoutPlaces
  <2>2. PICK k \in DOMAIN U[v].segments : c = <<v, k>>  BY <2>1
  <2>3. CASE v \in DOMAIN T /\ U[v] = T[v]  BY <1>2, <2>2, <2>3
  <2>4. CASE \E j \in DOMAIN N : v = at[j] /\ U[v] = N[j]
    <3>1. PICK j \in DOMAIN N : v = at[j] /\ U[v] = N[j]  BY <2>4
    <3>2. k \in DOMAIN N[j].segments  BY <2>2, <3>1
    <3> HIDE DEF h, M, K
    <3> QED  BY <1>1, <2>2, <3>1, <3>2
  <2> QED  BY <2>3, <2>4 DEF Adds
<1>4. ASSUME NEW c \in DOMAIN L PROVE c \in DOMAIN K /\ K[c] = L[c]
  BY <1>2, LayoutPlaces
<1>5. ASSUME NEW d \in DOMAIN M PROVE h[d] \in DOMAIN K /\ K[h[d]] = M[d]
  <2>1. PICK j \in DOMAIN N : \E k \in DOMAIN N[j].segments : d = <<j, k>>  BY LayoutPlaces
  <2> HIDE DEF h, M, K
  <2> QED  BY <1>1, <2>1
<1> HIDE DEF h, K, L, M
<1>6. Unites(h, K, L, M)  BY <1>3, <1>4, <1>5 DEF Unites
<1> QED  BY <1>6 DEF K, L, M

(* The sort is a permutation.                                              *)
LEMMA SortedRelabels ==
    ASSUME NEW tasks \in Seq(PlannedReadTask)
    PROVE  \E f : /\ f \in [1 .. Len(tasks) -> DOMAIN tasks]
                  /\ \A p, q \in 1 .. Len(tasks) : f[p] = f[q] => p = q
                  /\ \A i \in DOMAIN tasks : \E p \in 1 .. Len(tasks) : f[p] = i
                  /\ \A p \in 1 .. Len(tasks) : Sorted(tasks)[p] = tasks[f[p]]
<1> DEFINE From(p) == CHOOSE i \in DOMAIN tasks : Place(tasks, i) = p
           f == [p \in 1 .. Len(tasks) |-> From(p)]
<1>1. DOMAIN tasks = 1 .. Len(tasks)  OBVIOUS
<1>2. ASSUME NEW p \in 1 .. Len(tasks)
      PROVE  From(p) \in DOMAIN tasks /\ Place(tasks, From(p)) = p
  BY <1>1, PlaceTaken
<1>3. \A p \in 1 .. Len(tasks) : Sorted(tasks)[p] = tasks[From(p)]
  BY <1>1 DEF Sorted
<1>4. ASSUME NEW i \in DOMAIN tasks
      PROVE  Place(tasks, i) \in 1 .. Len(tasks) /\ From(Place(tasks, i)) = i
  <2>1. Place(tasks, i) \in 1 .. Len(tasks)  BY <1>1, Places
  <2>2. PICK j \in DOMAIN tasks : j = From(Place(tasks, i)) /\ Place(tasks, j) = Place(tasks, i)
    BY <1>2, <2>1
  <2>3. CASE i = j  BY <2>1, <2>2, <2>3
  <2>4. CASE i # j
    <3>1. Precedes(tasks, i, j) \/ Precedes(tasks, j, i)  BY <2>4, PrecedesOrder
    <3>2. Place(tasks, i) < Place(tasks, j) \/ Place(tasks, j) < Place(tasks, i)
      BY <3>1, Places
    <3> QED  BY <2>1, <2>2, <3>2
  <2> QED  BY <2>3, <2>4
<1> HIDE DEF From
<1>5. /\ f \in [1 .. Len(tasks) -> DOMAIN tasks]
      /\ \A p, q \in 1 .. Len(tasks) : f[p] = f[q] => p = q
      /\ \A i \in DOMAIN tasks : \E p \in 1 .. Len(tasks) : f[p] = i
      /\ \A p \in 1 .. Len(tasks) : Sorted(tasks)[p] = tasks[f[p]]
  BY <1>2, <1>3, <1>4
<1> QED  BY <1>5

-----------------------------------------------------------------------------
(* Where the tasks stand: staged, merged, or in a lane.                    *)
Where ==
    IF pc = "stage" THEN {"staged"} \X DOMAIN staged_tasks
    ELSE ({"staged"} \X {n \in DOMAIN staged_tasks : next <= n})
         \cup IF pc = "merge" THEN {"merged"} \X DOMAIN merged_tasks
              ELSE UNION {{lane} \X DOMAIN plan[lane] : lane \in ReadLane}
Standing ==
    [w \in Where |-> IF w[1] = "staged" THEN staged_tasks[w[2]]
                     ELSE IF w[1] = "merged" THEN merged_tasks[w[2]] ELSE plan[w[1]][w[2]]]

(* At every point of makePlan the tasks, wherever they stand, are exactly  *)
(* the requests accepted so far.                                           *)
CoverInv == Exact(LayoutOf(Standing), requests, Accepted)

LEMMA SameCovers ==
    ASSUME CoverInv, SameLayout(LayoutOf(Standing), LayoutOf(Standing')),
           UNCHANGED requests, Accepted' = Accepted
    PROVE  CoverInv'
<1>1. PICK M : M = LayoutOf(Standing')  OBVIOUS
<1>2. Exact(M, requests, Accepted)  BY <1>1, SameExact DEF CoverInv
<1> QED  BY <1>1, <1>2 DEF CoverInv

LEMMA CoverStage == ASSUME PlanInv, CoverInv, StageRequest PROVE CoverInv'
<1>1. /\ UNCHANGED <<requests, config, pc>> /\ pc = "stage" /\ next <= Len(requests)
      /\ staged_tasks' = staged_tasks \o TasksOf(requests[next]) /\ next' = next + 1
  BY DEF StageRequest
<1>2. /\ requests \in Seq(ReadRequest) /\ next \in Nat \ {0} /\ config \in PlannerConfig
      /\ staged_tasks \in Seq(SoundTasks)
  BY DEF PlanInv
<1>3. next \in DOMAIN requests /\ requests[next] \in ReadRequest  BY <1>1, <1>2
<1>4. PICK r \in ReadRequest : r = requests[next]  BY <1>3
<1>5. PICK N \in Seq(SoundTasks) : N = TasksOf(r)  BY <1>2, TasksOfSound
<1>6. PICK m \in Nat, n \in Nat : /\ m = Len(staged_tasks) /\ n = Len(N)
                                  /\ DOMAIN staged_tasks = 1 .. m /\ DOMAIN N = 1 .. n
  BY <1>2, LenProperties
<1>7. /\ DOMAIN staged_tasks' = 1 .. m + n
      /\ \A k \in 1 .. m + n : staged_tasks'[k] = IF k <= m THEN staged_tasks[k] ELSE N[k - m]
  <2>1. staged_tasks' = staged_tasks \o N  BY <1>1, <1>4, <1>5
  <2>2. staged_tasks' \in Seq(SoundTasks) /\ Len(staged_tasks') = m + n
    BY <1>2, <1>6, <2>1, ConcatProperties
  <2>3. DOMAIN staged_tasks' = 1 .. m + n  BY <2>2, LenProperties
  <2>4. \A k \in 1 .. m + n : staged_tasks'[k] = IF k <= m THEN staged_tasks[k] ELSE N[k - m]
    BY <1>2, <1>6, <2>1, ConcatProperties
  <2> QED  BY <2>3, <2>4
<1> DEFINE T == [w \in {"staged"} \X (1 .. m) |-> staged_tasks[w[2]]]
           U == [w \in {"staged"} \X (1 .. m + n) |-> staged_tasks'[w[2]]]
           at == [j \in 1 .. n |-> <<"staged", m + j>>]
<1>8. Standing = T /\ Standing' = U
  BY <1>1, <1>6, <1>7 DEF Standing, Where
<1>9. Adds(at, U, T, N)
  <2>1. ASSUME NEW k \in 1 .. m
        PROVE  k \in 1 .. m + n /\ U[<<"staged", k>>] = staged_tasks[k]
               /\ T[<<"staged", k>>] = staged_tasks[k]
    <3>1. k \in 1 .. m + n /\ k <= m  OBVIOUS
    <3> QED  BY <1>7, <3>1
  <2>2. ASSUME NEW j \in 1 .. n
        PROVE  m + j \in 1 .. m + n /\ U[<<"staged", m + j>>] = N[j]
    <3>1. m + j \in 1 .. m + n /\ ~(m + j <= m) /\ (m + j) - m = j  OBVIOUS
    <3> QED  BY <1>7, <3>1
  <2>3. ASSUME NEW k \in 1 .. m + n
        PROVE  k \in 1 .. m \/ \E j \in 1 .. n : k = m + j
    <3>1. CASE k <= m  BY <3>1
    <3>2. CASE ~(k <= m)
      <4>1. k - m \in 1 .. n /\ k = m + (k - m)  BY <3>2
      <4> QED  BY <4>1
    <3> QED  BY <3>1, <3>2
  <2>4. /\ \A w \in DOMAIN T : \E k \in 1 .. m : w = <<"staged", k>>
        /\ \A w \in DOMAIN U : \E k \in 1 .. m + n : w = <<"staged", k>>
        /\ \A k \in 1 .. m : <<"staged", k>> \in DOMAIN T
        /\ \A k \in 1 .. m + n : <<"staged", k>> \in DOMAIN U
        /\ DOMAIN N = 1 .. n /\ \A j \in 1 .. n : at[j] = <<"staged", m + j>>
    BY <1>6
  <2> HIDE DEF T, U, at
  <2>5. \A v \in DOMAIN T : v \in DOMAIN U /\ U[v] = T[v]  BY <2>1, <2>4
  <2>6. \A j \in DOMAIN N : at[j] \in DOMAIN U /\ U[at[j]] = N[j]  BY <2>2, <2>4
  <2>7. ASSUME NEW v \in DOMAIN U
        PROVE  \/ v \in DOMAIN T /\ U[v] = T[v]
               \/ \E j \in DOMAIN N : v = at[j] /\ U[v] = N[j]
    <3>1. PICK k \in 1 .. m + n : v = <<"staged", k>>  BY <2>4
    <3>2. CASE k \in 1 .. m  BY <2>1, <2>4, <3>1, <3>2
    <3>3. CASE \E j \in 1 .. n : k = m + j
      <4>1. PICK j \in 1 .. n : k = m + j  BY <3>3
      <4>2. v = at[j] /\ U[v] = N[j]  BY <2>2, <2>4, <3>1, <4>1
      <4> QED  BY <2>4, <4>2
    <3> QED  BY <2>3, <3>2, <3>3
  <2> QED  BY <2>5, <2>6, <2>7 DEF Adds
<1> HIDE DEF T, U, at
<1>10. PICK h : Unites(h, LayoutOf(U), LayoutOf(T), LayoutOf(N))  BY <1>9, AddedTasks
<1> DEFINE more == IF isValidRequest(r) THEN {next} ELSE {}
<1>11. Exact(LayoutOf(N), requests, more)
  <2>1. CASE isValidRequest(r)  BY <1>2, <1>4, <1>5, <2>1, TasksOfExact
  <2>2. CASE ~isValidRequest(r)
    <3>1. N = <<>>  BY <1>5, <2>2 DEF TasksOf
    <3> QED  BY <2>2, <3>1, NoPieces
  <2> QED  BY <2>1, <2>2
<1>12. /\ Accepted' = Accepted \cup more
       /\ Accepted \subseteq DOMAIN requests /\ more \subseteq DOMAIN requests
       /\ Accepted \cap more = {}
  <2>1. \A i \in DOMAIN requests : i \in Nat  BY <1>2
  <2>2. Accepted = {i \in DOMAIN requests : i < next /\ isValidRequest(requests[i])}
    BY <1>1 DEF Accepted, Seen
  <2>3. Accepted' = {i \in DOMAIN requests : i < next + 1 /\ isValidRequest(requests[i])}
    BY <1>1 DEF Accepted, Seen
  <2>4. \A i \in DOMAIN requests : i < next + 1 <=> (i < next \/ i = next)
    BY <1>2, <2>1
  <2> QED  BY <1>2, <1>3, <1>4, <2>2, <2>3, <2>4
<1>13. Exact(LayoutOf(U), requests, Accepted \cup more)
  <2>1. Exact(LayoutOf(T), requests, Accepted)  BY <1>8 DEF CoverInv
  <2> HIDE DEF more
  <2> QED  BY <1>10, <1>11, <1>12, <2>1, UnitedExact
<1> QED  BY <1>1, <1>8, <1>12, <1>13 DEF CoverInv
LEMMA CoverSort ==
    ASSUME PlanInv, OrderInv, CoverInv, SortTasks PROVE CoverInv'
<1>1. /\ UNCHANGED <<requests, merged_tasks, plan>> /\ pc = "stage" /\ pc' \in {"merge", "lanes"}
      /\ next > Len(requests) /\ next' = 1 /\ staged_tasks' = Sorted(staged_tasks)
  BY DEF SortTasks
<1>2. merged_tasks = <<>> /\ \A lane \in ReadLane : plan[lane] = <<>>
  BY <1>1 DEF OrderInv
<1>3. PICK s \in Seq(PlannedReadTask) : s = staged_tasks  BY DEF PlanInv, SoundTasks
<1>4. PICK n \in Nat : n = Len(s) /\ DOMAIN s = 1 .. n  BY LenProperties
<1>5. PICK f : /\ f \in [1 .. n -> DOMAIN s]
               /\ \A p, q \in 1 .. n : f[p] = f[q] => p = q
               /\ \A i \in DOMAIN s : \E p \in 1 .. n : f[p] = i
               /\ \A p \in 1 .. n : Sorted(s)[p] = s[f[p]]
  <2>1. \E f : /\ f \in [1 .. Len(s) -> DOMAIN s]
               /\ \A p, q \in 1 .. Len(s) : f[p] = f[q] => p = q
               /\ \A i \in DOMAIN s : \E p \in 1 .. Len(s) : f[p] = i
               /\ \A p \in 1 .. Len(s) : Sorted(s)[p] = s[f[p]]
    BY SortedRelabels
  <2> QED  BY <1>4, <2>1
<1>6. DOMAIN Sorted(s) = 1 .. n  BY <1>4 DEF Sorted
<1> DEFINE T == [w \in {"staged"} \X (1 .. n) |-> s[w[2]]]
           U == [w \in {"staged"} \X (1 .. n) |-> Sorted(s)[w[2]]]
           g == [w \in {"staged"} \X (1 .. n) |-> <<"staged", f[w[2]]>>]
<1>7. Standing = T
  BY <1>1, <1>3, <1>4 DEF Standing, Where
<1>8. Standing' = U
  <2>1. Where' = {"staged"} \X (1 .. n)
    <3>1. {k \in DOMAIN staged_tasks' : next' <= k} = 1 .. n  BY <1>1, <1>3, <1>6
    <3>2. DOMAIN merged_tasks' = {} /\ \A lane \in ReadLane : DOMAIN plan'[lane] = {}
      BY <1>1, <1>2
    <3>3. UNION {{lane} \X DOMAIN plan'[lane] : lane \in ReadLane} = {}  BY <3>2
    <3>4. Where' = ({"staged"} \X (1 .. n)) \cup {}
      BY <1>1, <3>1, <3>2, <3>3 DEF Where
    <3> QED  BY <3>4
  <2> QED  BY <1>1, <1>3, <2>1 DEF Standing
<1>9. Relabels(g, T, U)
  <2>1. ASSUME NEW v \in DOMAIN U
        PROVE  \E p \in 1 .. n : /\ v = <<"staged", p>> /\ g[v] = <<"staged", f[p]>>
                                 /\ g[v] \in DOMAIN T /\ U[v] = T[g[v]]
    <3>1. PICK p \in 1 .. n : v = <<"staged", p>>  OBVIOUS
    <3>2. f[p] \in 1 .. n  BY <1>4, <1>5
    <3>3. g[v] = <<"staged", f[p]>> /\ U[v] = Sorted(s)[p] /\ T[<<"staged", f[p]>>] = s[f[p]]
      BY <3>1, <3>2
    <3> QED  BY <1>5, <3>1, <3>2, <3>3
  <2>2. ASSUME NEW t \in DOMAIN T PROVE \E v \in DOMAIN U : g[v] = t
    <3>1. PICK i \in 1 .. n : t = <<"staged", i>>  OBVIOUS
    <3>2. PICK p \in 1 .. n : f[p] = i  BY <1>4, <1>5
    <3>3. <<"staged", p>> \in DOMAIN U /\ g[<<"staged", p>>] = <<"staged", f[p]>>  OBVIOUS
    <3> QED  BY <3>1, <3>2, <3>3
  <2>3. g \in [DOMAIN U -> DOMAIN T]
    <3>1. \A v \in DOMAIN U : g[v] \in DOMAIN T  BY <2>1
    <3> QED  BY <3>1
  <2> HIDE DEF T, U, g
  <2>4. ASSUME NEW v \in DOMAIN U, NEW w \in DOMAIN U, g[v] = g[w] PROVE v = w
    <3>1. PICK p \in 1 .. n : v = <<"staged", p>> /\ g[v] = <<"staged", f[p]>>  BY <2>1
    <3>2. PICK q \in 1 .. n : w = <<"staged", q>> /\ g[w] = <<"staged", f[q]>>  BY <2>1
    <3>3. f[p] = f[q]  BY <2>4, <3>1, <3>2
    <3> QED  BY <1>5, <3>1, <3>2, <3>3
  <2> QED  BY <2>1, <2>2, <2>3, <2>4 DEF Relabels
<1> HIDE DEF T, U, g
<1>10. SameLayout(LayoutOf(T), LayoutOf(U))  BY <1>9, RelabelledTasks
<1>11. Accepted' = Accepted
  BY <1>1 DEF Accepted, Seen, PlanInv
<1> QED  BY <1>1, <1>7, <1>8, <1>10, <1>11, SameCovers

(* A task leaves the staged ones for the end of another list.              *)
LEMMA CoverDistribute ==
    ASSUME PlanInv, CoverInv, DistributeTask PROVE CoverInv'
<1>1. /\ UNCHANGED <<requests, pc, staged_tasks>> /\ pc = "lanes" /\ next' = next + 1
      /\ next <= Len(staged_tasks) /\ next \in Nat \ {0}
      /\ plan' = [plan EXCEPT ![staged_tasks[next].lane] = Append(@, staged_tasks[next])]
  BY DEF DistributeTask, PlanInv
<1>2. staged_tasks \in Seq(SoundTasks) /\ plan \in [ReadLane -> Seq(SoundTasks)]
  BY DEF PlanInv
<1>3. next \in DOMAIN staged_tasks /\ staged_tasks[next] \in SoundTasks  BY <1>1, <1>2
<1>4. PICK t \in SoundTasks : t = staged_tasks[next]  BY <1>3
<1>5. t.lane \in ReadLane  BY DEF SoundTasks, PlannedReadTask
<1>6. PICK s \in Seq(SoundTasks) : s = plan[t.lane]  BY <1>2, <1>5
<1>7. PICK n \in Nat : n = Len(s) /\ DOMAIN s = 1 .. n  BY LenProperties
<1>8. /\ DOMAIN plan'[t.lane] = 1 .. n + 1 /\ plan'[t.lane][n + 1] = t
      /\ \A k \in 1 .. n : plan'[t.lane][k] = s[k]
      /\ \A lane \in ReadLane \ {t.lane} : plan'[lane] = plan[lane]
  <2>1. /\ plan'[t.lane] = Append(s, t)
        /\ \A lane \in ReadLane \ {t.lane} : plan'[lane] = plan[lane]
    BY <1>1, <1>2, <1>4, <1>5, <1>6
  <2>2. /\ Append(s, t) \in Seq(SoundTasks) /\ Len(Append(s, t)) = n + 1
        /\ Append(s, t)[n + 1] = t /\ \A k \in 1 .. n : Append(s, t)[k] = s[k]
    BY <1>7, AppendProperties
  <2>3. DOMAIN Append(s, t) = 1 .. n + 1  BY <2>2, LenProperties
  <2> QED  BY <2>1, <2>2, <2>3
<1> DEFINE x == <<"staged", next>>
           y == <<t.lane, n + 1>>
<1>9. \A w : w \in Where <=> \/ \E k \in DOMAIN staged_tasks : next <= k /\ w = <<"staged", k>>
                             \/ \E lane \in ReadLane : \E k \in DOMAIN plan[lane] : w = <<lane, k>>
  BY <1>1 DEF Where
<1>10. \A w : w \in Where' <=>
               \/ \E k \in DOMAIN staged_tasks : next + 1 <= k /\ w = <<"staged", k>>
               \/ \E lane \in ReadLane : \E k \in DOMAIN plan'[lane] : w = <<lane, k>>
  BY <1>1 DEF Where
<1>11. PICK T, U : T = Standing /\ U = Standing'  OBVIOUS
<1>12. /\ DOMAIN T = Where /\ DOMAIN U = Where'
       /\ \A k : <<"staged", k>> \in Where => T[<<"staged", k>>] = staged_tasks[k]
       /\ \A k : <<"staged", k>> \in Where' => U[<<"staged", k>>] = staged_tasks[k]
       /\ \A lane \in ReadLane : \A k :
             /\ <<lane, k>> \in Where => T[<<lane, k>>] = plan[lane][k]
             /\ <<lane, k>> \in Where' => U[<<lane, k>>] = plan'[lane][k]
  BY <1>1, <1>11 DEF Standing, ReadLane
<1>13. "staged" \notin ReadLane  BY DEF ReadLane
<1>14. \A k \in DOMAIN staged_tasks : next <= k <=> (k = next \/ next + 1 <= k)
  <2>1. DOMAIN staged_tasks \subseteq Nat  BY <1>2
  <2> QED  BY <1>1, <2>1
<1>15. \A k : k \in 1 .. n + 1 <=> k \in 1 .. n \/ k = n + 1  OBVIOUS
<1>16. n + 1 \notin 1 .. n /\ ~(next + 1 <= next)  BY <1>1
<1> HIDE DEF Where, Standing
<1>17. DOMAIN U = (DOMAIN T \ {x}) \cup {y}
  <2>1. ASSUME NEW w \in Where' PROVE w \in (Where \ {x}) \cup {y}
    <3>1. CASE \E k \in DOMAIN staged_tasks : next + 1 <= k /\ w = <<"staged", k>>
      BY <1>9, <1>14, <1>16, <3>1
    <3>2. CASE \E lane \in ReadLane : \E k \in DOMAIN plan'[lane] : w = <<lane, k>>
      <4>1. PICK lane \in ReadLane : \E k \in DOMAIN plan'[lane] : w = <<lane, k>>  BY <3>2
      <4>2. PICK k \in DOMAIN plan'[lane] : w = <<lane, k>>  BY <4>1
      <4>3. w # x  BY <1>13, <4>2
      <4>4. CASE lane = t.lane  BY <1>6, <1>7, <1>8, <1>9, <1>15, <4>2, <4>3, <4>4
      <4>5. CASE lane # t.lane  BY <1>8, <1>9, <4>2, <4>3, <4>5
      <4> QED  BY <4>4, <4>5
    <3> QED  BY <1>10, <3>1, <3>2
  <2>2. ASSUME NEW w \in Where, w # x PROVE w \in Where'
    <3>1. CASE \E k \in DOMAIN staged_tasks : next <= k /\ w = <<"staged", k>>
      BY <1>10, <1>14, <2>2, <3>1
    <3>2. CASE \E lane \in ReadLane : \E k \in DOMAIN plan[lane] : w = <<lane, k>>
      <4>1. PICK lane \in ReadLane : \E k \in DOMAIN plan[lane] : w = <<lane, k>>  BY <3>2
      <4>2. PICK k \in DOMAIN plan[lane] : w = <<lane, k>>  BY <4>1
      <4>4. CASE lane = t.lane  BY <1>5, <1>6, <1>7, <1>8, <1>10, <1>15, <4>2, <4>4
      <4>5. CASE lane # t.lane  BY <1>8, <1>10, <4>2, <4>5
      <4> QED  BY <4>4, <4>5
    <3> QED  BY <1>9, <3>1, <3>2
  <2>3. y \in Where'  BY <1>5, <1>8, <1>10, <1>15
  <2> QED  BY <1>12, <2>1, <2>2, <2>3
<1>18. x \in DOMAIN T /\ y \notin DOMAIN T
  <2>1. x \in Where  BY <1>3, <1>9, <1>14
  <2>2. y \notin Where  BY <1>5, <1>6, <1>7, <1>9, <1>13, <1>16
  <2> QED  BY <1>12, <2>1, <2>2
<1>19. U[y] = T[x]
  BY <1>4, <1>5, <1>8, <1>12, <1>17, <1>18
<1>20. ASSUME NEW v \in DOMAIN T \ {x} PROVE U[v] = T[v]
  <2>0. v \in Where /\ v \in Where'  BY <1>12, <1>17
  <2>1. CASE \E k \in DOMAIN staged_tasks : next <= k /\ v = <<"staged", k>>
    BY <1>12, <2>0, <2>1
  <2>2. CASE \E lane \in ReadLane : \E k \in DOMAIN plan[lane] : v = <<lane, k>>
    <3>1. PICK lane \in ReadLane : \E k \in DOMAIN plan[lane] : v = <<lane, k>>  BY <2>2
    <3>2. PICK k \in DOMAIN plan[lane] : v = <<lane, k>>  BY <3>1
    <3>3. U[v] = plan'[lane][k] /\ T[v] = plan[lane][k]  BY <1>12, <2>0, <3>2
    <3>4. plan'[lane][k] = plan[lane][k]
      <4>1. CASE lane = t.lane  BY <1>6, <1>7, <1>8, <3>2, <4>1
      <4>2. CASE lane # t.lane  BY <1>8, <4>2
      <4> QED  BY <4>1, <4>2
    <3> QED  BY <3>3, <3>4
  <2> QED  BY <1>9, <2>0, <2>1, <2>2
<1>21. OneMoves(T, U, x, y)  BY <1>17, <1>18, <1>19, <1>20 DEF OneMoves
<1>22. SameLayout(LayoutOf(T), LayoutOf(U))  BY <1>21, MovedTask
<1>23. Accepted' = Accepted  BY <1>1 DEF Accepted, Seen
<1> QED  BY <1>1, <1>11, <1>22, <1>23, SameCovers
LEMMA CoverMerge ==
    ASSUME PlanInv, CoverInv, MergeTask PROVE CoverInv'
<1>1. /\ UNCHANGED <<requests, pc, staged_tasks>> /\ pc = "merge" /\ next' = next + 1
      /\ next <= Len(staged_tasks) /\ next \in Nat \ {0}
  BY DEF MergeTask, PlanInv
<1>2. staged_tasks \in Seq(SoundTasks) /\ merged_tasks \in Seq(SoundTasks)
      /\ (next > 1 => merged_tasks # <<>>)
  BY <1>1 DEF PlanInv
<1>3. next \in DOMAIN staged_tasks /\ staged_tasks[next] \in SoundTasks  BY <1>1, <1>2
<1>4. PICK t \in SoundTasks : t = staged_tasks[next]  BY <1>3
<1>5. PICK s \in Seq(SoundTasks) : s = merged_tasks  BY <1>2
<1>6. PICK n \in Nat : n = Len(s) /\ DOMAIN s = 1 .. n  BY LenProperties
<1> DEFINE x == <<"staged", next>>
<1>7. PICK W, V : W = Where /\ V = Where'  OBVIOUS
<1>8. \A w : w \in W <=> \/ \E k \in DOMAIN staged_tasks : next <= k /\ w = <<"staged", k>>
                         \/ \E k \in 1 .. n : w = <<"merged", k>>
  BY <1>1, <1>5, <1>6, <1>7 DEF Where
<1>9. \A w : w \in V <=> \/ \E k \in DOMAIN staged_tasks : next + 1 <= k /\ w = <<"staged", k>>
                         \/ \E k \in DOMAIN merged_tasks' : w = <<"merged", k>>
  BY <1>1, <1>7 DEF Where
<1>10. PICK T, U : T = Standing /\ U = Standing'  OBVIOUS
<1>11. /\ DOMAIN T = W /\ DOMAIN U = V
       /\ \A k : <<"staged", k>> \in W => T[<<"staged", k>>] = staged_tasks[k]
       /\ \A k : <<"staged", k>> \in V => U[<<"staged", k>>] = staged_tasks[k]
       /\ \A k : <<"merged", k>> \in W => T[<<"merged", k>>] = s[k]
       /\ \A k : <<"merged", k>> \in V => U[<<"merged", k>>] = merged_tasks'[k]
  BY <1>1, <1>5, <1>7, <1>10 DEF Standing
<1>12. \A k \in DOMAIN staged_tasks : next <= k <=> (k = next \/ next + 1 <= k)
  <2>1. DOMAIN staged_tasks \subseteq Nat  BY <1>2
  <2> QED  BY <1>1, <2>1
<1>13. ~(next + 1 <= next)  BY <1>1
<1>14. x \in DOMAIN T /\ T[x] = t
  <2>1. x \in W  BY <1>3, <1>8, <1>12
  <2> QED  BY <1>4, <1>11, <2>1
<1>15. CASE next > 1 /\ canMerge(merged_tasks[Len(merged_tasks)], staged_tasks[next])
  <2> DEFINE y == <<"merged", n>>
  <2>1. n \in 1 .. n
    <3>1. s # <<>>  BY <1>2, <1>5, <1>15
    <3> QED  BY <1>6, <3>1
  <2>2. PICK d \in SoundTasks : d = s[n]  BY <1>6, <2>1
  <2>3. canMerge(d, t) /\ merged_tasks' = [s EXCEPT ![n] = consume(d, t)]
    BY <1>4, <1>5, <1>6, <1>15, <2>2 DEF MergeTask
  <2>4. /\ DOMAIN merged_tasks' = 1 .. n /\ merged_tasks'[n] = consume(d, t)
        /\ \A k \in 1 .. n : k # n => merged_tasks'[k] = s[k]
    BY <1>6, <2>1, <2>3
  <2>5. DOMAIN U = DOMAIN T \ {x}
    <3>1. \A w : w \in V <=> w \in W /\ w # x
      BY <1>8, <1>9, <1>12, <1>13, <2>4
    <3> QED  BY <1>11, <3>1
  <2>6. y \in DOMAIN T /\ T[y] = d /\ U[y] = consume(d, t)
    <3>1. y \in W /\ y \in V  BY <1>8, <1>9, <2>1, <2>4
    <3> QED  BY <1>11, <2>2, <2>4, <3>1
  <2>7. ASSUME NEW v \in DOMAIN T \ {x, y} PROVE U[v] = T[v]
    <3>0. v \in W /\ v \in V  BY <1>11, <2>5
    <3>1. CASE \E k \in DOMAIN staged_tasks : next <= k /\ v = <<"staged", k>>
      BY <1>11, <3>0, <3>1
    <3>2. CASE \E k \in 1 .. n : v = <<"merged", k>>
      BY <1>11, <2>4, <3>0, <3>2
    <3> QED  BY <1>8, <3>0, <3>1, <3>2
  <2>8. /\ U[y].path = d.path /\ d.path = t.path
        /\ U[y].segments = d.segments \o t.segments
        /\ d.segments \in Seq(ReadSegment) /\ t.segments \in Seq(ReadSegment)
    <3>1. d \in PlannedReadTask /\ t \in PlannedReadTask  BY DEF SoundTasks
    <3>2. consume(d, t).path = d.path /\ consume(d, t).segments = d.segments \o t.segments
      BY <3>1 DEF consume, PlannedReadTask
    <3>3. d.path = t.path  BY <2>3 DEF canMerge
    <3> QED  BY <2>6, <3>1, <3>2, <3>3 DEF PlannedReadTask
  <2>9. x # y  OBVIOUS
  <2> HIDE DEF x, y
  <2>10. OneJoins(T, U, x, y)
    BY <1>14, <2>5, <2>6, <2>7, <2>8, <2>9 DEF OneJoins
  <2>11. SameLayout(LayoutOf(T), LayoutOf(U))  BY <2>10, JoinedTask
  <2>12. Accepted' = Accepted  BY <1>1 DEF Accepted, Seen
  <2> QED  BY <1>1, <1>10, <2>11, <2>12, SameCovers
<1>16. CASE ~(next > 1 /\ canMerge(merged_tasks[Len(merged_tasks)], staged_tasks[next]))
  <2> DEFINE y == <<"merged", n + 1>>
  <2>1. merged_tasks' = Append(s, t)
    BY <1>4, <1>5, <1>16 DEF MergeTask
  <2>2. /\ DOMAIN merged_tasks' = 1 .. n + 1 /\ merged_tasks'[n + 1] = t
        /\ \A k \in 1 .. n : merged_tasks'[k] = s[k]
    <3>1. /\ Append(s, t) \in Seq(SoundTasks) /\ Len(Append(s, t)) = n + 1
          /\ Append(s, t)[n + 1] = t /\ \A k \in 1 .. n : Append(s, t)[k] = s[k]
      BY <1>6, AppendProperties
    <3>2. DOMAIN Append(s, t) = 1 .. n + 1  BY <3>1, LenProperties
    <3> QED  BY <2>1, <3>1, <3>2
  <2>3. \A k : k \in 1 .. n + 1 <=> k \in 1 .. n \/ k = n + 1  OBVIOUS
  <2>4. n + 1 \notin 1 .. n  OBVIOUS
  <2>5. DOMAIN U = (DOMAIN T \ {x}) \cup {y}
    <3>1. \A w : w \in V <=> (w \in W /\ w # x) \/ w = y
      BY <1>8, <1>9, <1>12, <1>13, <2>2, <2>3
    <3> QED  BY <1>11, <3>1
  <2>6. y \notin DOMAIN T
    <3>1. y \notin W  BY <1>8, <2>4
    <3> QED  BY <1>11, <3>1
  <2>7. U[y] = T[x]
    <3>1. y \in V  BY <1>11, <2>5
    <3> QED  BY <1>11, <1>14, <2>2, <3>1
  <2>8. ASSUME NEW v \in DOMAIN T \ {x} PROVE U[v] = T[v]
    <3>0. v \in W /\ v \in V  BY <1>11, <2>5
    <3>1. CASE \E k \in DOMAIN staged_tasks : next <= k /\ v = <<"staged", k>>
      BY <1>11, <3>0, <3>1
    <3>2. CASE \E k \in 1 .. n : v = <<"merged", k>>
      BY <1>11, <2>2, <3>0, <3>2
    <3> QED  BY <1>8, <3>0, <3>1, <3>2
  <2> HIDE DEF x, y
  <2>9. OneMoves(T, U, x, y)  BY <1>14, <2>5, <2>6, <2>7, <2>8 DEF OneMoves
  <2>10. SameLayout(LayoutOf(T), LayoutOf(U))  BY <2>9, MovedTask
  <2>11. Accepted' = Accepted  BY <1>1 DEF Accepted, Seen
  <2> QED  BY <1>1, <1>10, <2>10, <2>11, SameCovers
<1> QED  BY <1>15, <1>16

LEMMA CoverMergeDone ==
    ASSUME PlanInv, OrderInv, CoverInv, MergeDone PROVE CoverInv'
<1>1. /\ UNCHANGED <<requests, merged_tasks, plan>> /\ pc = "merge" /\ pc' = "lanes"
      /\ next > Len(staged_tasks) /\ next' = 1 /\ staged_tasks' = merged_tasks
  BY DEF MergeDone
<1>2. PICK s \in Seq(SoundTasks) : s = merged_tasks  BY DEF PlanInv
<1>3. PICK n \in Nat : n = Len(s) /\ DOMAIN s = 1 .. n  BY LenProperties
<1> DEFINE T == [w \in {"merged"} \X (1 .. n) |-> s[w[2]]]
           U == [w \in {"staged"} \X (1 .. n) |-> s[w[2]]]
           g == [w \in {"staged"} \X (1 .. n) |-> <<"merged", w[2]>>]
<1>4. Standing = T
  <2>1. {k \in DOMAIN staged_tasks : next <= k} = {}
    <3>1. staged_tasks \in Seq(SoundTasks) /\ next \in Nat  BY DEF PlanInv
    <3> QED  BY <1>1, <3>1
  <2>2. Where = {"merged"} \X (1 .. n)  BY <1>1, <1>2, <1>3, <2>1 DEF Where
  <2> QED  BY <1>2, <2>2 DEF Standing
<1>5. Standing' = U
  <2>1. {k \in DOMAIN staged_tasks' : next' <= k} = 1 .. n  BY <1>1, <1>2, <1>3
  <2>2. UNION {{lane} \X DOMAIN plan'[lane] : lane \in ReadLane} = {}
    BY <1>1 DEF OrderInv
  <2>3. Where' = {"staged"} \X (1 .. n)
    BY <1>1, <2>1, <2>2 DEF Where
  <2> QED  BY <1>1, <1>2, <2>3 DEF Standing
<1>6. Relabels(g, T, U)
  <2>1. ASSUME NEW v \in DOMAIN U
        PROVE  \E k \in 1 .. n : /\ v = <<"staged", k>> /\ g[v] = <<"merged", k>>
                                 /\ g[v] \in DOMAIN T /\ U[v] = T[g[v]]
    OBVIOUS
  <2>2. ASSUME NEW t \in DOMAIN T PROVE \E v \in DOMAIN U : g[v] = t
    <3>1. PICK k \in 1 .. n : t = <<"merged", k>>  OBVIOUS
    <3>2. <<"staged", k>> \in DOMAIN U /\ g[<<"staged", k>>] = <<"merged", k>>  OBVIOUS
    <3> QED  BY <3>1, <3>2
  <2>3. g \in [DOMAIN U -> DOMAIN T]  OBVIOUS
  <2> HIDE DEF T, U, g
  <2>4. ASSUME NEW v \in DOMAIN U, NEW w \in DOMAIN U, g[v] = g[w] PROVE v = w
    <3>1. PICK j \in 1 .. n : v = <<"staged", j>> /\ g[v] = <<"merged", j>>  BY <2>1
    <3>2. PICK k \in 1 .. n : w = <<"staged", k>> /\ g[w] = <<"merged", k>>  BY <2>1
    <3> QED  BY <2>4, <3>1, <3>2
  <2> QED  BY <2>1, <2>2, <2>3, <2>4 DEF Relabels
<1> HIDE DEF T, U, g
<1>7. SameLayout(LayoutOf(T), LayoutOf(U))  BY <1>6, RelabelledTasks
<1>8. Accepted' = Accepted  BY <1>1 DEF Accepted, Seen
<1> QED  BY <1>1, <1>4, <1>5, <1>7, <1>8, SameCovers

LEMMA CoverInvNext ==
    ASSUME PlanInv, OrderInv, CoverInv, [makePlan]_plannerVars PROVE CoverInv'
<1>1. CASE ReturnPlan
  <2>1. /\ UNCHANGED <<requests, next, staged_tasks, merged_tasks, plan>>
        /\ pc = "lanes" /\ pc' = "planned"
    BY <1>1 DEF ReturnPlan
  <2>2. Where' = Where /\ Standing' = Standing /\ Accepted' = Accepted
    BY <2>1 DEF Where, Standing, Accepted, Seen
  <2>3. PICK T : T = Standing  OBVIOUS
  <2> QED  BY <2>1, <2>2 DEF CoverInv
<1>2. CASE UNCHANGED plannerVars
  <2>1. Where' = Where /\ Standing' = Standing /\ Accepted' = Accepted /\ UNCHANGED requests
    BY <1>2 DEF plannerVars, Where, Standing, Accepted, Seen
  <2> QED  BY <2>1 DEF CoverInv
<1> QED
  BY <1>1, <1>2, CoverStage, CoverSort, CoverMerge, CoverMergeDone, CoverDistribute
  DEF makePlan

LEMMA CoverInvAlways == Spec => []CoverInv
<1>1. Init => CoverInv
  <2> SUFFICES ASSUME Init PROVE CoverInv  OBVIOUS
  <2>1. requests \in Seq(ReadRequest) /\ pc = "stage" /\ next = 1 /\ staged_tasks = <<>>
    BY InputsAssumption DEF Init
  <2>2. Accepted = {}
    <3>1. \A i \in DOMAIN requests : ~(i < 1)  BY <2>1
    <3> QED  BY <2>1, <3>1 DEF Accepted, Seen
  <2>3. DOMAIN Standing = {}  BY <2>1 DEF Where, Standing
  <2>4. PICK T : T = Standing  OBVIOUS
  <2>5. DOMAIN LayoutOf(T) = {}  BY <2>3, <2>4, LayoutPlaces
  <2> QED  BY <2>2, <2>4, <2>5 DEF CoverInv, Exact
<1> QED
  BY <1>1, CoverInvNext, PlanInvAlways, OrderInvAlways, PTL DEF Spec
-----------------------------------------------------------------------------
(* Tasks lists the standing tasks.  The sequence s lists what T has at the *)
(* places A, each of them once.                                            *)
ListedBy(g, T, s, A) ==
    /\ g \in [DOMAIN s -> A]
    /\ \A j, k \in DOMAIN s : g[j] = g[k] => j = k
    /\ \A w \in A : \E k \in DOMAIN s : g[k] = w
    /\ \A k \in DOMAIN s : s[k] = T[g[k]]
Lists(T, s, A) == \E g : ListedBy(g, T, s, A)

LEMMA ConcatLists ==
    ASSUME NEW S, NEW T, NEW A, NEW B, NEW s \in Seq(S), NEW t \in Seq(S),
           Lists(T, s, A), Lists(T, t, B), A \cap B = {}
    PROVE  Lists(T, s \o t, A \cup B)
<1>1. PICK g : ListedBy(g, T, s, A)  BY DEF Lists
<1>2. PICK h : ListedBy(h, T, t, B)  BY DEF Lists
<1>3. PICK m \in Nat, n \in Nat : /\ m = Len(s) /\ n = Len(t)
                                  /\ DOMAIN s = 1 .. m /\ DOMAIN t = 1 .. n
  BY LenProperties
<1>4. PICK u : u = s \o t  OBVIOUS
<1>5. /\ DOMAIN u = 1 .. m + n
      /\ \A k \in 1 .. m + n : u[k] = IF k <= m THEN s[k] ELSE t[k - m]
  <2>1. u \in Seq(S) /\ Len(u) = m + n  BY <1>3, <1>4, ConcatProperties
  <2>2. DOMAIN u = 1 .. m + n  BY <2>1, LenProperties
  <2>3. \A k \in 1 .. m + n : u[k] = IF k <= m THEN s[k] ELSE t[k - m]
    BY <1>3, <1>4, ConcatProperties
  <2> QED  BY <2>2, <2>3
<1> DEFINE f == [k \in 1 .. m + n |-> IF k <= m THEN g[k] ELSE h[k - m]]
<1>6. ASSUME NEW k \in 1 .. m + n
      PROVE  \/ k \in 1 .. m /\ f[k] = g[k] /\ f[k] \in A /\ u[k] = T[f[k]]
             \/ \E j \in 1 .. n : /\ k = m + j /\ f[k] = h[j] /\ f[k] \in B
                                  /\ u[k] = T[f[k]]
  <2>1. CASE k <= m
    <3>1. k \in 1 .. m  BY <2>1
    <3>2. g[k] \in A /\ s[k] = T[g[k]]  BY <1>1, <1>3, <3>1 DEF ListedBy
    <3> QED  BY <1>5, <2>1, <3>1, <3>2
  <2>2. CASE ~(k <= m)
    <3>1. PICK j \in 1 .. n : k = m + j /\ k - m = j
      <4>1. k - m \in 1 .. n /\ k = m + (k - m)  BY <2>2
      <4> QED  BY <4>1
    <3>2. h[j] \in B /\ t[j] = T[h[j]]  BY <1>2, <1>3 DEF ListedBy
    <3>3. f[k] = h[j] /\ u[k] = t[j]  BY <1>5, <2>2, <3>1
    <3> QED  BY <3>1, <3>2, <3>3
  <2> QED  BY <2>1, <2>2
<1>7. ASSUME NEW w \in A \cup B PROVE \E k \in 1 .. m + n : f[k] = w
  <2>1. CASE w \in A
    <3>1. PICK k \in 1 .. m : g[k] = w  BY <1>1, <1>3, <2>1 DEF ListedBy
    <3>2. k \in 1 .. m + n /\ k <= m  OBVIOUS
    <3> QED  BY <3>1, <3>2
  <2>2. CASE w \in B
    <3>1. PICK j \in 1 .. n : h[j] = w  BY <1>2, <1>3, <2>2 DEF ListedBy
    <3>2. m + j \in 1 .. m + n /\ ~(m + j <= m) /\ (m + j) - m = j  OBVIOUS
    <3> QED  BY <3>1, <3>2
  <2> QED  BY <2>1, <2>2
<1>8. DOMAIN f = 1 .. m + n  OBVIOUS
<1>9. f \in [1 .. m + n -> A \cup B]
  <2>1. \A k \in 1 .. m + n : f[k] \in A \cup B  BY <1>6
  <2> QED  BY <2>1
<1> HIDE DEF f
<1>10. ASSUME NEW j \in 1 .. m + n, NEW k \in 1 .. m + n, f[j] = f[k] PROVE j = k
  <2>1. CASE f[j] \in A
    <3>1. j \in 1 .. m /\ f[j] = g[j] /\ k \in 1 .. m /\ f[k] = g[k]
      BY <1>6, <1>10, <2>1
    <3> QED  BY <1>1, <1>3, <1>10, <3>1 DEF ListedBy
  <2>2. CASE f[j] \notin A
    <3>1. PICK a \in 1 .. n : j = m + a /\ f[j] = h[a]  BY <1>6, <2>2
    <3>2. PICK b \in 1 .. n : k = m + b /\ f[k] = h[b]  BY <1>6, <1>10, <2>2
    <3>3. a = b  BY <1>2, <1>3, <1>10, <3>1, <3>2 DEF ListedBy
    <3> QED  BY <3>1, <3>2, <3>3
  <2> QED  BY <2>1, <2>2
<1>11. ListedBy(f, T, u, A \cup B)
  BY <1>5, <1>6, <1>7, <1>9, <1>10 DEF ListedBy
<1> QED  BY <1>4, <1>11 DEF Lists

LEMMA LaneLists ==
    ASSUME NEW T, NEW lane, NEW s, \A k \in DOMAIN s : T[<<lane, k>>] = s[k]
    PROVE  Lists(T, s, {lane} \X DOMAIN s)
<1> DEFINE g == [k \in DOMAIN s |-> <<lane, k>>]
<1>1. ListedBy(g, T, s, {lane} \X DOMAIN s)  BY DEF ListedBy
<1> QED  BY <1>1 DEF Lists

LEMMA RestLists ==
    ASSUME PlanInv, NEW T,
           \A n \in DOMAIN staged_tasks : next <= n => T[<<"staged", n>>] = staged_tasks[n]
    PROVE  Lists(T, Rest, {"staged"} \X {n \in DOMAIN staged_tasks : next <= n})
<1>1. PICK s \in Seq(SoundTasks), a \in Nat \ {0} : s = staged_tasks /\ a = next
  BY DEF PlanInv
<1>2. PICK m \in Nat : m = Len(s) /\ DOMAIN s = 1 .. m  BY LenProperties
<1>3. PICK u : u = Rest  OBVIOUS
<1> DEFINE A == {"staged"} \X {n \in DOMAIN staged_tasks : next <= n}
<1>4. CASE a <= m
  <2>1. /\ u \in Seq(SoundTasks) /\ Len(u) = m - a + 1
        /\ \A i \in 1 .. m - a + 1 : u[i] = s[a + i - 1]
    <3>1. \A i \in a .. m : s[i] \in SoundTasks
      <4>1. \A i \in a .. m : i \in 1 .. m  OBVIOUS
      <4> QED  BY <1>2, <4>1
    <3> QED  BY <1>1, <1>2, <1>3, <1>4, <3>1, SubSeqProperties DEF Rest
  <2>2. PICK n \in Nat : n = m - a + 1 /\ a + n = m + 1
    <3>1. m - a + 1 \in Nat /\ a + (m - a + 1) = m + 1  BY <1>4
    <3> QED  BY <3>1
  <2>3. DOMAIN u = 1 .. n  BY <2>1, <2>2, LenProperties
  <2> DEFINE g == [k \in 1 .. n |-> <<"staged", a + k - 1>>]
  <2>4. ASSUME NEW k \in 1 .. n
        PROVE  /\ a + k - 1 \in 1 .. m /\ a <= a + k - 1 /\ u[k] = s[a + k - 1]
    BY <2>1, <2>2
  <2>5. ASSUME NEW k \in 1 .. n
        PROVE  g[k] \in A /\ u[k] = T[g[k]]
    <3>1. PICK c \in 1 .. m : c = a + k - 1 /\ a <= c /\ u[k] = s[c]  BY <2>4
    <3>2. g[k] = <<"staged", c>>  BY <3>1
    <3> HIDE DEF g
    <3> QED  BY <1>1, <1>2, <3>1, <3>2
  <2>6. ASSUME NEW w \in A PROVE \E k \in 1 .. n : g[k] = w
    <3>1. PICK c \in 1 .. m : w = <<"staged", c>> /\ a <= c  BY <1>1, <1>2
    <3>2. c - a + 1 \in 1 .. n /\ a + (c - a + 1) - 1 = c  BY <2>2, <3>1
    <3>3. g[c - a + 1] = <<"staged", c>>  BY <3>2
    <3> QED  BY <3>1, <3>2, <3>3
  <2>7. ASSUME NEW j \in 1 .. n, NEW k \in 1 .. n, g[j] = g[k] PROVE j = k
    <3>1. a + j - 1 = a + k - 1  BY <2>7
    <3> QED  BY <3>1
  <2>8. g \in [1 .. n -> A]
    <3>1. \A k \in 1 .. n : g[k] \in A  BY <2>5
    <3> QED  BY <3>1
  <2> HIDE DEF g, A
  <2>9. ListedBy(g, T, u, A)  BY <2>3, <2>5, <2>6, <2>7, <2>8 DEF ListedBy
  <2> QED  BY <1>3, <2>9 DEF Lists, A
<1>5. CASE ~(a <= m)
  <2>1. u = <<>>  BY <1>1, <1>2, <1>3, <1>5, SubSeqEmpty DEF Rest
  <2>2. A = {}  BY <1>1, <1>2, <1>5
  <2>3. PICK none : none = <<>> /\ DOMAIN none = {}  OBVIOUS
  <2> HIDE DEF A
  <2>4. ListedBy(none, T, none, {})  BY <2>3 DEF ListedBy
  <2> QED  BY <1>3, <2>1, <2>2, <2>3, <2>4 DEF Lists, A
<1> QED  BY <1>4, <1>5

LEMMA TasksStand == ASSUME PlanInv PROVE Lists(Standing, Tasks, Where)
<1>1. PICK T : T = Standing  OBVIOUS
<1>2. /\ Rest \in Seq(SoundTasks) /\ merged_tasks \in Seq(SoundTasks)
      /\ plan \in [ReadLane -> Seq(SoundTasks)]
  BY TasksListed DEF PlanInv
<1> DEFINE Late == {"staged"} \X {n \in DOMAIN staged_tasks : next <= n}
<1>3. ASSUME pc # "stage" PROVE Lists(T, Rest, Late)
  <2>1. \A n \in DOMAIN staged_tasks : next <= n => <<"staged", n>> \in Where
    BY <1>3 DEF Where
  <2>2. \A n \in DOMAIN staged_tasks : next <= n => T[<<"staged", n>>] = staged_tasks[n]
    BY <1>1, <2>1 DEF Standing
  <2> QED  BY <2>2, RestLists
<1>4. CASE pc = "stage"
  <2>1. Where = {"staged"} \X DOMAIN staged_tasks /\ Tasks = staged_tasks
    BY <1>4 DEF Where, Tasks
  <2>2. \A k \in DOMAIN staged_tasks : T[<<"staged", k>>] = staged_tasks[k]
    BY <1>1, <2>1 DEF Standing
  <2> QED  BY <1>1, <2>1, <2>2, LaneLists
<1>5. CASE pc = "merge"
  <2> DEFINE A == {"merged"} \X DOMAIN merged_tasks
  <2>1. Where = A \cup Late /\ Tasks = merged_tasks \o Rest
    BY <1>5 DEF Where, Tasks
  <2>2. \A k \in DOMAIN merged_tasks : T[<<"merged", k>>] = merged_tasks[k]
    BY <1>1, <2>1 DEF Standing
  <2>3. Lists(T, merged_tasks, A)  BY <2>2, LaneLists
  <2>4. A \cap Late = {}  OBVIOUS
  <2>5. Lists(T, Rest, Late)  BY <1>3, <1>5
  <2> HIDE DEF A, Late
  <2> QED  BY <1>1, <1>2, <2>1, <2>3, <2>4, <2>5, ConcatLists
<1>6. CASE pc \notin {"stage", "merge"}
  <2> DEFINE A(lane) == {lane} \X DOMAIN plan[lane]
  <2>1. /\ Where = A("urgent") \cup A("normal") \cup A("background") \cup Late
        /\ Tasks = plan["urgent"] \o plan["normal"] \o plan["background"] \o Rest
    <3>1. Where = Late \cup UNION {A(lane) : lane \in ReadLane}  BY <1>6 DEF Where
    <3>2. UNION {A(lane) : lane \in ReadLane} = A("urgent") \cup A("normal") \cup A("background")
      <4> HIDE DEF A
      <4> QED  BY DEF ReadLane
    <3>3. Tasks = plan["urgent"] \o plan["normal"] \o plan["background"] \o Rest
      BY <1>6 DEF Tasks
    <3> HIDE DEF A, Late
    <3> QED  BY <3>1, <3>2, <3>3
  <2>2. ASSUME NEW lane \in ReadLane PROVE Lists(T, plan[lane], A(lane))
    <3>1. \A k \in DOMAIN plan[lane] : <<lane, k>> \in Where  BY <1>6 DEF Where
    <3>2. \A k \in DOMAIN plan[lane] : T[<<lane, k>>] = plan[lane][k]
      BY <1>1, <3>1 DEF Standing, ReadLane
    <3> QED  BY <3>2, LaneLists
  <2>3. PICK u \in Seq(SoundTasks), n \in Seq(SoundTasks), b \in Seq(SoundTasks),
             r \in Seq(SoundTasks) :
           u = plan["urgent"] /\ n = plan["normal"] /\ b = plan["background"] /\ r = Rest
    BY <1>2 DEF ReadLane
  <2>4. A("urgent") \cap A("normal") = {}  OBVIOUS
  <2>5. (A("urgent") \cup A("normal")) \cap A("background") = {}  OBVIOUS
  <2>6. (A("urgent") \cup A("normal") \cup A("background")) \cap Late = {}  OBVIOUS
  <2>7. Lists(T, u, A("urgent")) /\ Lists(T, n, A("normal")) /\ Lists(T, b, A("background"))
    BY <2>2, <2>3 DEF ReadLane
  <2>8. Lists(T, r, Late)  BY <1>3, <1>6, <2>3
  <2> HIDE DEF A, Late
  <2>9. Lists(T, u \o n, A("urgent") \cup A("normal"))  BY <2>4, <2>7, ConcatLists
  <2>10. u \o n \in Seq(SoundTasks)  BY ConcatProperties
  <2>11. PICK v \in Seq(SoundTasks) : v = u \o n  BY <2>10
  <2>12. Lists(T, v \o b, A("urgent") \cup A("normal") \cup A("background"))
    BY <2>5, <2>7, <2>9, <2>11, ConcatLists
  <2>13. v \o b \in Seq(SoundTasks)  BY ConcatProperties
  <2>14. PICK w \in Seq(SoundTasks) : w = v \o b  BY <2>13
  <2>15. Lists(T, w \o r, A("urgent") \cup A("normal") \cup A("background") \cup Late)
    BY <2>6, <2>8, <2>12, <2>14, ConcatLists
  <2> QED  BY <1>1, <2>1, <2>3, <2>11, <2>14, <2>15
<1> QED  BY <1>4, <1>5, <1>6

LEMMA TasksExact ==
    ASSUME PlanInv, CoverInv PROVE Exact(LayoutOf(Tasks), requests, Accepted)
<1>1. PICK T, U : T = Standing /\ U = Tasks  OBVIOUS
<1>2. DOMAIN T = Where  BY <1>1 DEF Standing
<1>3. PICK g : ListedBy(g, T, U, Where)  BY <1>1, TasksStand DEF Lists
<1>4. Relabels(g, T, U)  BY <1>2, <1>3 DEF Relabels, ListedBy
<1>5. SameLayout(LayoutOf(T), LayoutOf(U))  BY <1>4, RelabelledTasks
<1> QED  BY <1>1, <1>5, SameExact DEF CoverInv

(* The tasks carry every byte of every accepted request to its place once, *)
(* and nothing else, whatever was split, sorted and merged, when no two    *)
(* requests have the same id: a segment says by its id whose bytes it is.  *)
THEOREM ExactCoverageAlways == Spec => [](Distinct(requests) => ExactCoverage)
<1>1. ASSUME PlanInv, CoverInv, Distinct(requests) PROVE ExactCoverage
  <2>1. PICK T \in Seq(SoundTasks) : T = Tasks  BY <1>1, TasksListed
  <2>2. PICK L : L = LayoutOf(T)  OBVIOUS
  <2>3. Exact(L, requests, Accepted)  BY <1>1, <2>1, <2>2, TasksExact
  <2>4. requests \in Seq(ReadRequest) /\ Accepted \subseteq DOMAIN requests
    BY <1>1 DEF PlanInv, Accepted, Seen
  <2>5. ASSUME NEW i \in Accepted
        PROVE  requests[i] \in ReadRequest /\ requests[i].offset \in Nat
               /\ requests[i].size_bytes \in Nat
    <3>1. requests[i] \in ReadRequest  BY <2>4
    <3> QED  BY <3>1 DEF ReadRequest
  <2>6. ASSUME NEW n \in DOMAIN T, NEW k \in DOMAIN T[n].segments
        PROVE  /\ <<n, k>> \in DOMAIN L
               /\ L[<<n, k>>][1] = T[n].path /\ L[<<n, k>>][2] = T[n].segments[k]
               /\ T[n].segments[k].source_offset \in Nat
               /\ T[n].segments[k].size_bytes \in Nat
               /\ PieceEnd(L[<<n, k>>]) = T[n].segments[k].source_offset + T[n].segments[k].size_bytes
    <3>1. <<n, k>> \in DOMAIN L /\ L[<<n, k>>] = <<T[n].path, T[n].segments[k]>>
      BY <2>2, LayoutPlaces
    <3>2. L[<<n, k>>][1] = T[n].path /\ L[<<n, k>>][2] = T[n].segments[k]  BY <3>1
    <3>3. T[n] \in PlannedReadTask  BY DEF SoundTasks
    <3>4. T[n].segments \in Seq(ReadSegment)  BY <3>3 DEF PlannedReadTask
    <3>5. T[n].segments[k] \in ReadSegment  BY <3>4
    <3> QED  BY <3>1, <3>2, <3>5 DEF ReadSegment, PieceEnd
  <2>7. ASSUME NEW i \in Accepted, NEW b \in 0 .. requests[i].size_bytes - 1
        PROVE  Cardinality(Carriers(requests[i], b)) = 1
    <3>1. PICK r : r = requests[i]  OBVIOUS
    <3>2. PICK c \in DOMAIN L : PartOf(L[c], r) /\ Holds(L[c], r, b)
      BY <2>3, <2>7, <3>1 DEF Exact
    <3>3. ASSUME NEW d
          PROVE  d \in Carriers(r, b) <=>
                    \E n \in DOMAIN T : \E k \in DOMAIN T[n].segments :
                        d = <<n, k>> /\ Carries(T[n], k, r, b)
      <4> DEFINE P == UNION {{n} \X DOMAIN T[n].segments : n \in DOMAIN T}
      <4>1. d \in P <=> \E n \in DOMAIN T : \E k \in DOMAIN T[n].segments : d = <<n, k>>
        OBVIOUS
      <4>2. Carriers(r, b) = {e \in P : Carries(T[e[1]], e[2], r, b)}  BY <2>1 DEF Carriers
      <4> HIDE DEF P
      <4> QED  BY <4>1, <4>2
    <3>4. c \in Carriers(r, b)
      <4>1. PICK n \in DOMAIN T : \E k \in DOMAIN T[n].segments : c = <<n, k>>
        BY <2>2, <3>2, LayoutPlaces
      <4>2. PICK k \in DOMAIN T[n].segments : c = <<n, k>>  BY <4>1
      <4>3. Carries(T[n], k, r, b)
        <5>1. r.offset \in Nat  BY <2>5, <3>1
        <5>2. PICK o \in Nat, x \in Nat : o = r.offset /\ x = T[n].segments[k].source_offset
          BY <2>6, <5>1
        <5>3. x >= o  BY <2>6, <3>2, <4>2, <5>2 DEF PartOf
        <5> QED  BY <2>6, <3>2, <4>2, <5>2, <5>3 DEF Carries, PartOf, Holds
      <4> QED  BY <3>3, <4>2, <4>3
    <3>5. ASSUME NEW d \in Carriers(r, b) PROVE d = c
      <4>1. PICK n \in DOMAIN T : \E k \in DOMAIN T[n].segments :
                d = <<n, k>> /\ Carries(T[n], k, r, b)
        BY <3>3
      <4>2. PICK k \in DOMAIN T[n].segments : d = <<n, k>> /\ Carries(T[n], k, r, b)
        BY <4>1
      <4>3. d \in DOMAIN L /\ Holds(L[d], r, b) /\ L[d][2].request_id = r.request_id
        BY <2>6, <4>2 DEF Carries, Holds
      <4>4. PICK p, q : p = L[c] /\ q = L[d]  OBVIOUS
      <4>5. p[2].request_id = q[2].request_id  BY <3>2, <4>3, <4>4 DEF PartOf
      <4>6. /\ p[2].source_offset <= r.offset + b /\ r.offset + b < PieceEnd(p)
            /\ q[2].source_offset <= r.offset + b /\ r.offset + b < PieceEnd(q)
        BY <3>2, <4>3, <4>4 DEF Holds
      <4>7. /\ r.offset + b \in Nat
            /\ p[2].source_offset \in Nat /\ PieceEnd(p) \in Nat
            /\ q[2].source_offset \in Nat /\ PieceEnd(q) \in Nat
        <5>1. ASSUME NEW e \in DOMAIN L
              PROVE  L[e][2].source_offset \in Nat /\ PieceEnd(L[e]) \in Nat
          <6>1. PICK w \in DOMAIN T : \E j \in DOMAIN T[w].segments : e = <<w, j>>
            BY <2>2, LayoutPlaces
          <6>2. PICK j \in DOMAIN T[w].segments : e = <<w, j>>  BY <6>1
          <6> QED  BY <2>6, <6>2
        <5>2. r.offset \in Nat /\ b \in Nat  BY <2>5, <2>7, <3>1
        <5> QED  BY <3>2, <4>3, <4>4, <5>1, <5>2
      <4>8. ~PiecesApart(p, q)
        <5>1. PICK x \in Nat, s \in Nat, t \in Nat, y \in Nat, z \in Nat :
                /\ x = r.offset + b /\ s = p[2].source_offset /\ t = PieceEnd(p)
                /\ y = q[2].source_offset /\ z = PieceEnd(q)
          BY <4>7
        <5>2. ~(t <= y) /\ ~(z <= s)  BY <4>6, <5>1
        <5> QED  BY <4>5, <5>1, <5>2 DEF PiecesApart
      <4> QED  BY <1>1, <2>3, <3>2, <4>3, <4>4, <4>8 DEF Exact
    <3>6. Carriers(r, b) = {c}  BY <3>4, <3>5
    <3> QED  BY <3>1, <3>6, FS_Singleton
  <2>8. ASSUME NEW n \in DOMAIN T, NEW k \in DOMAIN T[n].segments,
               NEW b \in 0 .. T[n].segments[k].size_bytes - 1
        PROVE  \E i \in Accepted :
                  LET at == T[n].segments[k].source_offset + b - requests[i].offset
                  IN  at < requests[i].size_bytes /\ Carries(T[n], k, requests[i], at)
    <3>1. PICK i \in Accepted : PartOf(L[<<n, k>>], requests[i])
      BY <2>3, <2>6 DEF Exact
    <3>2. PICK r : r = requests[i]  OBVIOUS
    <3>3. PICK x \in Nat, m \in Nat, o \in Nat, z \in Nat, y \in Nat :
             /\ x = T[n].segments[k].source_offset /\ m = T[n].segments[k].size_bytes
             /\ o = r.offset /\ z = r.size_bytes /\ y = b
      <4>1. r.offset \in Nat /\ r.size_bytes \in Nat  BY <2>5, <3>2
      <4>2. T[n].segments[k].source_offset \in Nat /\ T[n].segments[k].size_bytes \in Nat
        BY <2>6
      <4>3. b \in Nat  BY <2>8, <4>2
      <4> QED  BY <4>1, <4>2, <4>3
    <3>4. /\ T[n].path = r.path /\ T[n].segments[k].request_id = r.request_id
          /\ o <= x /\ x + m <= o + z
          /\ T[n].segments[k].destination = Advance(r.destination, x - o)
      BY <2>6, <3>1, <3>2, <3>3 DEF PartOf
    <3>5. y < m  BY <3>3
    <3>6. /\ x + y - o < z /\ o + (x + y - o) = x + y
          /\ x <= x + y /\ x + y < x + m /\ x >= o
      BY <3>4, <3>5
    <3>7. Carries(T[n], k, r, x + y - o)
      BY <3>3, <3>4, <3>6 DEF Carries
    <3> QED  BY <3>2, <3>3, <3>6, <3>7
  <2> QED  BY <2>1, <2>7, <2>8 DEF ExactCoverage
<1> QED
  BY <1>1, PlanInvAlways, CoverInvAlways, PTL
-----------------------------------------------------------------------------
(* For those who run the plan: no task is left behind.                     *)
AllDealt == pc = "planned" => next > Len(staged_tasks)

LEMMA AllDealtAlways == Spec => []AllDealt
<1>1. Init => AllDealt  BY DEF Init, AllDealt
<1>2. AllDealt /\ [makePlan]_plannerVars => AllDealt'
  <2> SUFFICES ASSUME AllDealt, [makePlan]_plannerVars PROVE AllDealt'  OBVIOUS
  <2>1. CASE UNCHANGED plannerVars  BY <2>1 DEF plannerVars, AllDealt
  <2> QED
    BY <2>1 DEF AllDealt, makePlan, StageRequest, SortTasks, MergeTask, MergeDone,
                DistributeTask, ReturnPlan
<1> QED  BY <1>1, <1>2, PTL DEF Spec

LEMMA PlannedPieces ==
    ASSUME pc = "planned", PlanInv, AllDealt
    PROVE  /\ \A w : w \in Where <=> \E lane \in ReadLane : \E n \in DOMAIN plan[lane] :
                                        w = <<lane, n>>
           /\ \A w \in Where : Standing[w] = plan[w[1]][w[2]]
<1>1. {n \in DOMAIN staged_tasks : next <= n} = {}
  <2>1. staged_tasks \in Seq(SoundTasks) /\ next \in Nat  BY DEF PlanInv
  <2> QED  BY <2>1 DEF AllDealt
<1>2. \A w : w \in Where <=> \E lane \in ReadLane : \E n \in DOMAIN plan[lane] :
                                w = <<lane, n>>
  BY <1>1 DEF Where
<1>3. ASSUME NEW w \in Where PROVE Standing[w] = plan[w[1]][w[2]]
  <2>1. w[1] \in ReadLane  BY <1>2
  <2>2. w[1] # "staged" /\ w[1] # "merged"  BY <2>1 DEF ReadLane
  <2> QED  BY <2>2 DEF Standing
<1> QED  BY <1>2, <1>3
=============================================================================
