------------------------ MODULE MCTripleReadBuffer ------------------------
(* Instances of TripleReadBuffer for TLC.                                  *)
EXTENDS TripleReadBuffer, TLC

(* Stoppers run the same code and no property names one.                   *)
StopperSymmetry == Permutations(Stoppers)
=============================================================================
