--------------------------- MODULE ExecutionResult ---------------------------
(***************************************************************************)
(* The results of Runner::runProgram (include/mull/ExecutionResult.h), and *)
(* which of them a call with a given time limit may have.                  *)
(***************************************************************************)
EXTENDS Integers

CONSTANT Times   \* the running times, in milliseconds

NoResult == [status |-> "Invalid", exitStatus |-> 0, runningTime |-> 0]

\* A timeout is reported after t and, since the limit counts once for the output
\* and once for the end, by 2t.
Verdicts(t) ==
  {r \in [status : {"Passed", "Failed", "Timedout"}, exitStatus : {0, 1}, runningTime : Times] :
     /\ r.status = "Passed" <=> r.exitStatus = 0
     /\ r.status = "Timedout" => r.runningTime >= t
     /\ r.status = "Timedout" /\ t > 0 => r.runningTime <= 2 * t}

=============================================================================
