------------------------------- MODULE TestRun -------------------------------
(***************************************************************************)
(* What the callers of Runner::runProgram rely on: a call with a time      *)
(* limit gives one verdict, or the whole program ends.                     *)
(***************************************************************************)
EXTENDS ExecutionResult

CONSTANT Timeouts   \* the values of the argument timeout

VARIABLES
  timeout,
  result,     \* the ExecutionResult, or NoResult
  run         \* "running", "returned" or "exited"

Init ==
  /\ timeout \in Timeouts
  /\ result = NoResult
  /\ run = "running"

Return ==
  /\ run = "running"
  /\ run' = "returned"
  /\ result' \in Verdicts(timeout)
  /\ UNCHANGED timeout

\* the program cannot be started
Exit ==
  /\ run = "running"
  /\ run' = "exited"
  /\ UNCHANGED <<timeout, result>>

Next == Return \/ Exit

Spec == Init /\ [][Next]_<<timeout, result, run>>

=============================================================================
