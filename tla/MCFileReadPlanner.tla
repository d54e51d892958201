------------------------- MODULE MCFileReadPlanner -------------------------
(* Instances of FileReadPlanner for TLC.                                   *)
EXTENDS FileReadPlanner

Base == [path |-> 1, offset |-> 0, size_bytes |-> 2,
         destination |-> [buffer |-> 1, at |-> 0], destination_capacity |-> 9,
         urgency |-> "streaming", allow_split |-> TRUE,
         allow_mapped_copy |-> FALSE, allow_mapped_view |-> FALSE,
         same_frame_required |-> FALSE, startup_critical |-> FALSE,
         deadline_ticks |-> 0, request_id |-> 0]

(* Each request of a list has its own buffer and its own number.           *)
Numbered(list) ==
    [i \in DOMAIN list |->
        [list[i] EXCEPT !.request_id = i,
                        !.destination = IF @ = Null THEN Null ELSE [@ EXCEPT !.buffer = i]]]

(* Ranges that touch, overlap, nest and leave gaps; copies, views, views   *)
(* without destination, and requests that are not valid.                   *)
Direct  == Base
Copied  == [Base EXCEPT !.allow_mapped_copy = TRUE]
Viewed  == [Base EXCEPT !.allow_mapped_view = TRUE, !.allow_mapped_copy = TRUE,
                        !.destination = Null, !.destination_capacity = 0]
Ranges  == {[kind EXCEPT !.offset = o, !.size_bytes = n] :
              kind \in {Direct, Copied, Viewed}, o \in {0, 2, 3}, n \in {2, 5}}
Odd     == {[Base EXCEPT !.path = 2], [Base EXCEPT !.offset = 1, !.size_bytes = 1],
            [Base EXCEPT !.size_bytes = 0], [Base EXCEPT !.destination_capacity = 1],
            [Base EXCEPT !.size_bytes = 5, !.allow_split = FALSE]}

(* Deadlines and urgencies of all lanes.                                   *)
Moments == {[Base EXCEPT !.urgency = u, !.deadline_ticks = d] :
              u \in {"immediate", "streaming", "preload", "background"}, d \in {0, 3, 9}}
           \cup {[Base EXCEPT !.urgency = "background", !.startup_critical = TRUE]}

RequestListsChecked ==
    {Numbered(<<a, b, c>>) : a \in Ranges, b \in Ranges, c \in {r \in Ranges : r.offset > 0}}
    \cup {Numbered(<<a, b>>) : a \in Odd, b \in Ranges \cup Odd}
    \cup {Numbered(<<a, b, c>>) : a \in Moments, b \in Moments, c \in Moments}
    \cup {<<>>}

Config(window, chunk, merge, gap, max) ==
    [deadline_preempt_window_ticks |-> window,
     medium_file_threshold |-> 2, large_file_threshold |-> 5,
     split_chunk_bytes |-> chunk, enable_range_merge |-> merge,
     merge_gap_bytes |-> gap, merge_max_bytes |-> max]

ConfigsChecked == {Config(4, 2, TRUE, 1, 4), Config(0, 3, TRUE, 0, 3),
                   Config(0, 2, FALSE, 1, 4)}
TicksChecked   == {5}
=============================================================================
