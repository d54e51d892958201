--------------------------- MODULE OrderedStream ---------------------------
(***************************************************************************)
(* What a read-ahead stream promises to whoever drains it.  The units of a *)
(* file (bytes, or chunks) are numbered from 1.  They are handed out once  *)
(* each and in file order, none before it was read, and at most Capacity   *)
(* of them wait in between.  The end is reported only after the last unit  *)
(* was read and every unit was handed out.  The owner may close the stream *)
(* and open it anew.                                                       *)
(***************************************************************************)
EXTENDS Naturals, Sequences

CONSTANT Capacity     \* how many units may be read and not yet handed out

VARIABLES
    produced,         \* units read from the file so far
    complete,         \* the last unit has been read
    delivered,        \* the units handed out, in that order
    ended             \* the stream reports its end

streamVars == <<produced, complete, delivered, ended>>

Init == produced = 0 /\ complete = FALSE /\ delivered = <<>> /\ ended = FALSE

(* n units are read at once; nothing is read after the last.               *)
Produce(n) ==
    /\ ~complete
    /\ produced + n - Len(delivered) <= Capacity
    /\ produced' = produced + n
    /\ complete' \in BOOLEAN
    /\ UNCHANGED <<delivered, ended>>

Deliver(n) ==
    /\ Len(delivered) + n <= produced
    /\ delivered' = delivered \o [k \in 1 .. n |-> Len(delivered) + k]
    /\ UNCHANGED <<produced, complete, ended>>

End ==
    /\ complete /\ Len(delivered) = produced
    /\ ended' = TRUE
    /\ UNCHANGED <<produced, complete, delivered>>

Close == ended' = FALSE /\ UNCHANGED <<produced, complete, delivered>>

(* An empty range is at its end from the start.                            *)
Open ==
    /\ produced' = 0 /\ delivered' = <<>>
    /\ complete' \in BOOLEAN
    /\ ended' = complete'

Next == \/ \E n \in 0 .. Capacity : Produce(n) \/ Deliver(n)
        \/ End \/ Close \/ Open

Spec == Init /\ [][Next]_streamVars
=============================================================================
