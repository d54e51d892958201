--------------------- MODULE MCStreamReadSessionAsync ---------------------
(* Instances of StreamReadSessionAsync for TLC.                            *)
EXTENDS StreamReadSessionAsync

Both == {TRUE, FALSE}
=============================================================================
