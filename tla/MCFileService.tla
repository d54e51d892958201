--------------------------- MODULE MCFileService ---------------------------
(* Instances of FileService for TLC.                                       *)
EXTENDS FileService

PathsChecked == {"p1", "p2", "p3"}
DisksChecked == {[p1 |-> <<1, 1, 1>>, p2 |-> <<1>>, p3 |-> <<1, 1>>]}

UsersChecked   == {"u1", "u2"}
WorkersChecked == {"w1"}
PoolThreadsChecked == UsersChecked \cup WorkersChecked
ClientsChecked == PoolThreadsChecked \cup {"session", "helper", "viewer", "writer1", "writer2"}

(* Each client beside a writer; two writers; the workers of a scheduler.   *)
Program(names, build, enforced) ==
    [clients |-> names, has_thread_center |-> build, shares_enforced |-> enforced]
ProgramsChecked ==
    {Program({"session", "writer1"}, TRUE, enforced) : enforced \in BOOLEAN}
    \cup {Program({"helper", "writer1"}, TRUE, enforced) : enforced \in BOOLEAN}
    \cup {Program({"viewer", "writer1"}, TRUE, TRUE),
          Program({"writer1", "writer2"}, TRUE, TRUE),
          Program({"u1", "u2", "w1"}, TRUE, TRUE),
          Program({"u1", "writer2"}, FALSE, TRUE)}

WriterOpensChecked ==
    {[path |-> "p1", options |-> options] :
        options \in {openWrite(TRUE, {}), openReadWrite("openAlways", {"read", "write"})}}
WritesChecked == {[by |-> "writer1", offset |-> 0, source |-> <<2, 2, 2>>],
                  [by |-> "writer2", offset |-> 3, source |-> <<3>>]}

(* All in large chunks and in smaller ones, a part, past the end, no chunk.*)
StreamCall(offset, max, chunk) ==
    [path |-> "p1", start_offset |-> offset, max_bytes |-> max, chunk_bytes |-> chunk]
StreamCallsChecked ==
    {StreamCall(0, 0, 3), StreamCall(0, 0, 2), StreamCall(1, 2, 1), StreamCall(4, 0, 1),
     StreamCall(0, 0, 0)}
SpanCallsChecked == {[path |-> "p1", size |-> size, share |-> share] :
                        size \in {0, 3}, share \in {{"read"}, {"read", "write"}}}
ViewTasksChecked ==
    {[path |-> "p1", offset |-> 1, size |-> 2,
      segments |-> <<[offset |-> 1, size |-> 1], [offset |-> 2, size |-> 1]>>],
     [path |-> "p1", offset |-> 2, size |-> 1, segments |-> <<[offset |-> 2, size |-> 1]>>]}
=============================================================================
