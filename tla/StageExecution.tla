--------------------------- MODULE StageExecution ---------------------------
(***************************************************************************)
(* The abstract stage: an invocation runs and then, once, yields one of    *)
(* the outcomes its call allows.  The contract is for the calls of stages; *)
(* of others it says only that they yield a result.                        *)
(***************************************************************************)
EXTENDS ConversionStage

CONSTANTS
  Calls,     \* what callers pass
  Pending    \* no result yet, and none of Results

VARIABLES
  call,      \* the invocation
  result     \* Pending, then its outcome

stageVars == <<call, result>>

Init ==
  /\ call \in Calls
  /\ result = Pending

Yield ==
  /\ result = Pending
  /\ result' \in IF call \in StageCalls THEN Outcomes(call) ELSE Results
  /\ UNCHANGED call

Next == Yield

Spec == Init /\ [][Next]_stageVars

FairSpec == Spec /\ WF_stageVars(Yield)

=============================================================================
