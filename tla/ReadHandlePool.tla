--------------------------- MODULE ReadHandlePool ---------------------------
(***************************************************************************)
(* Center/File/ReadHandlePool.hpp: read handles kept open by the thread    *)
(* that opened them, the least recently used one given up first.  The      *)
(* state is the thread's; the capacity is that of the pool object asked.   *)
(***************************************************************************)
EXTENDS PlatformFile

CONSTANTS
    Paths,                \* the paths that are asked for
    PoolThreads           \* the threads that ask

VARIABLE pool             \* thread -> its State, and where its call stands

Entry(t, path) == <<t, "entries", path>>
Miss(t)        == <<t, "open_result">>

EmptyPool == [label |-> "idle", path |-> "none", capacity |-> 0,
              entries |-> {}, lru |-> <<>>, recent |-> <<>>]
Pool(t, label) == pool[t].label = label

(* The path is spliced out of the place where it is, if it is anywhere.    *)
TakeOut(path, s) ==
    IF path \notin {s[n] : n \in DOMAIN s} THEN s
    ELSE LET at == CHOOSE n \in DOMAIN s : s[n] = path
         IN  SubSeq(s, 1, at - 1) \o SubSeq(s, at + 1, Len(s))
MoveToFront(path, s) == <<path>> \o TakeOut(path, s)

touchNothing(path, lru) == lru                            \* mutant
touchEntry(path, lru)   == MoveToFront(path, lru)

(* recent is history: the paths in the order of their last use, the latest *)
(* first.                                                                  *)
HitEntry(t, path, capacity_) ==
    /\ Pool(t, "idle") /\ path \in pool[t].entries
    /\ pool' = [pool EXCEPT ![t] =
          [label |-> "hit", path |-> path, capacity |-> capacity_,
           entries |-> @.entries, lru |-> touchEntry(path, @.lru),
           recent |-> MoveToFront(path, @.recent)]]
    /\ UNCHANGED <<handleVars, io>>

MissOpens(t, path, capacity_) ==
    /\ Pool(t, "idle") /\ path \notin pool[t].entries
    /\ open(Miss(t), path, openRead({"read"}))
    /\ pool' = [pool EXCEPT ![t].label = "evict", ![t].path = path,
                            ![t].capacity = capacity_]
    /\ UNCHANGED io

(* A path that cannot be opened evicts nobody.                             *)
MissFails(t, path, capacity_) ==
    /\ Pool(t, "idle") /\ path \notin pool[t].entries
    /\ pool' = [pool EXCEPT ![t].label = "failed", ![t].path = path,
                            ![t].capacity = capacity_]
    /\ UNCHANGED <<handleVars, io>>

MustEvict(s) == s.capacity > 0 /\ Cardinality(s.entries) >= s.capacity /\ s.lru # <<>>

(* evictIfNeeded, one round.                                               *)
EvictTail(t) ==
    /\ Pool(t, "evict") /\ MustEvict(pool[t])
    /\ LET tail_path == pool[t].lru[Len(pool[t].lru)]
       IN  /\ pool' = [pool EXCEPT ![t].entries = @ \ {tail_path},
                                   ![t].lru = SubSeq(@, 1, Len(@) - 1)]
           /\ close({Entry(t, tail_path)})
    /\ UNCHANGED io

InsertEntry(t) ==
    /\ Pool(t, "evict") /\ ~MustEvict(pool[t])
    /\ pool' = [pool EXCEPT ![t].label = "inserted",
                            ![t].entries = @ \cup {pool[t].path},
                            ![t].lru = <<pool[t].path>> \o @,
                            ![t].recent = MoveToFront(pool[t].path, @)]
    /\ move(Miss(t), Entry(t, pool[t].path))
    /\ UNCHANGED io

getReadHandle(t, path, capacity_) ==
    HitEntry(t, path, capacity_) \/ MissOpens(t, path, capacity_) \/ MissFails(t, path, capacity_)

(* The threads ts end, or clear their pool: the entries close.             *)
clearThreads(ts) ==
    /\ pool' = [t \in PoolThreads |-> IF t \in ts THEN EmptyPool ELSE pool[t]]
    /\ close({Entry(t, path) : t \in ts, path \in Paths})

PoolInit == pool = [t \in PoolThreads |-> EmptyPool]

-----------------------------------------------------------------------------
(* Whatever the capacities of the pools that share a thread, what is kept  *)
(* are the paths used last, in that order, the map holds just these, and   *)
(* an insertion leaves no more than the capacity (evictIfNeeded).          *)
PoolKeepsMostRecent ==
    \A t \in PoolThreads :
        LET s == pool[t]
        IN  /\ Len(s.lru) <= Len(s.recent)
            /\ s.lru = SubSeq(s.recent, 1, Len(s.lru))
            /\ s.entries = {s.lru[n] : n \in DOMAIN s.lru}
            /\ s.label = "inserted" /\ s.capacity > 0 => Len(s.lru) <= s.capacity
=============================================================================
