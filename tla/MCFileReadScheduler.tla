------------------------ MODULE MCFileReadScheduler ------------------------
(* Instances of FileReadScheduler for TLC.  Nowhere is the null pointer.   *)
EXTENDS FileReadScheduler

Nowhere == [buffer |-> 0, at |-> 0]

Base == [path |-> 1, offset |-> 0, size_bytes |-> 2,
         destination |-> [buffer |-> 1, at |-> 0], destination_capacity |-> 9,
         urgency |-> "streaming", allow_split |-> TRUE,
         allow_mapped_copy |-> FALSE, allow_mapped_view |-> FALSE,
         same_frame_required |-> FALSE, startup_critical |-> FALSE,
         deadline_ticks |-> 0, request_id |-> 0]

Numbered(list) ==
    [i \in DOMAIN list |->
        [list[i] EXCEPT !.request_id = i,
                        !.destination = IF @ = Nowhere THEN @ ELSE [@ EXCEPT !.buffer = i]]]

(* One request of every lane, on two paths; neighbours that merge; a copy; *)
(* a large view that is split and one that also has a destination.         *)
Viewed == [Base EXCEPT !.allow_mapped_view = TRUE, !.allow_mapped_copy = TRUE,
                       !.destination = Nowhere, !.destination_capacity = 0]
Some == <<Base,
         [Base EXCEPT !.offset = 2],
         [Base EXCEPT !.path = 2],
         [Base EXCEPT !.urgency = "immediate"],
         [Base EXCEPT !.urgency = "background", !.path = 2],
         [Base EXCEPT !.allow_mapped_copy = TRUE, !.offset = 1],
         [Viewed EXCEPT !.size_bytes = 5],
         [Viewed EXCEPT !.size_bytes = 5, !.urgency = "immediate", !.destination =
             [buffer |-> 1, at |-> 0], !.destination_capacity = 5]>>

(* Lists in one order; the planner's own run has them in every order.       *)
RequestListsChecked ==
    {Numbered(<<Some[i], Some[j], Some[k]>>) :
        <<i, j, k>> \in {t \in (1 .. Len(Some)) \X (1 .. Len(Some)) \X (1 .. Len(Some)) :
                           t[1] < t[2] /\ t[2] <= t[3]}}

(* Two views of medium size, side by side.                                 *)
MediumViews == {Numbered(<<a, b>>) :
                   a \in {Viewed}, b \in {[Viewed EXCEPT !.offset = 2], Viewed, Base}}

ConfigsChecked ==
    {[deadline_preempt_window_ticks |-> 0, medium_file_threshold |-> 2,
      large_file_threshold |-> 5, split_chunk_bytes |-> 2,
      enable_range_merge |-> TRUE, merge_gap_bytes |-> 1, merge_max_bytes |-> 4]}
TicksChecked  == {5}
FaultsChecked == {{}, {1}, {2}}
Both    == {TRUE, FALSE}
Windows == {TRUE}
=============================================================================
