-------------------------- MODULE BinaryReadHelper --------------------------
(***************************************************************************)
(* Center/File/BinaryReadHelper.hpp: a whole file is read into a span of   *)
(* exactly its size.                                                       *)
(***************************************************************************)
EXTENDS PlatformFile

CONSTANT SpanCalls           \* the calls: path, bytes of the span, share mode

ASSUME SpanCallsAssumption == \A call \in SpanCalls : call.size \in Nat

VARIABLE helper

HelperThread == "helper"
HelperFile == <<HelperThread, "file">>

NoHelper == [label |-> "idle"]
Helper(label) == helper.label = label
HelperGoes(label) == helper' = [helper EXCEPT !.label = label]

readFileToSpan ==
    /\ Helper("idle")
    /\ \E call \in SpanCalls :
          /\ open(HelperFile, call.path, openRead(call.share))
          /\ helper' = [label |-> "size", call |-> call]
    /\ UNCHANGED io

SizeMatches ==
    /\ Helper("size") /\ sizeOf(HelperFile) = helper.call.size
    /\ IF helper.call.size = 0
       THEN HelperGoes("returned") /\ UNCHANGED io
       ELSE /\ HelperGoes("reading")
            /\ readAt(HelperThread, HelperFile, 0, helper.call.size)
    /\ UNCHANGED handleVars

SizeMismatch ==
    /\ Helper("size") /\ sizeOf(HelperFile) # helper.call.size
    /\ HelperGoes("failed")
    /\ UNCHANGED <<handleVars, io>>

SizeFails ==
    /\ Helper("size") /\ HelperGoes("failed")
    /\ UNCHANGED <<handleVars, io>>

(* readExactAt has returned; the span is the caller's until the next call. *)
HelperRead ==
    /\ Helper("reading") /\ Returned(HelperThread)
    /\ HelperGoes(IF Exact(io[HelperThread]) THEN "returned" ELSE "failed")
    /\ UNCHANGED <<handleVars, io>>

(* The file closes with its scope.                                         *)
HelperReturns ==
    /\ Helper("returned") \/ Helper("failed")
    /\ close({HelperFile}) /\ Forget(HelperThread)
    /\ helper' = NoHelper

HelperStep == \/ readFileToSpan \/ SizeMatches \/ SizeMismatch \/ SizeFails
              \/ HelperRead \/ HelperReturns

HelperInit == helper = NoHelper
=============================================================================
