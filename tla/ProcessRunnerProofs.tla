------------------------- MODULE ProcessRunnerProofs -------------------------
(***************************************************************************)
(* The safety properties of ProcessRunner for all timeouts, outputs and    *)
(* capacities, and its refinement of TestRun.                              *)
(*                                                                         *)
(* None of the properties is inductive.  What has to be added is where the *)
(* child can be while the caller is at a given place (ChildInv), what the  *)
(* clock can be there (TimeInv), and that a drain that ended before the    *)
(* deadline has left nobody who could still write (OutputInv).             *)
(***************************************************************************)
EXTENDS ProcessRunner, TLAPS

ChildInv ==
  /\ pc \in {"start", "exited"} => child = "none"
  /\ child = "none" => writers = {} /\ holders = {}
  /\ pc \in {"drain", "wait", "reap"} => child \in {"running", "ended"}
  /\ pc = "stop" => child \in {"dying", "ended"}
  /\ pc = "returned" => child \in {"none", "ended", "reaped"}
  /\ "child" \in writers \cup holders => child \in {"running", "dying"}
  /\ kept /\ child \in {"running", "dying"} => "child" \in holders
  /\ pc = "reap" => holders = {}

ResultInv ==
  /\ pc \notin {"stop", "returned"} => result = NoResult
  /\ pc = "stop" => result.status = "Timedout"
  /\ result.status = "Timedout" => result.exitStatus # 0
  /\ VerdictIsTheChilds
  /\ pc = "returned" => (result.status = "Passed" <=> result.exitStatus = 0)

TimeInv ==
  /\ pc \in {"start", "exited"} => clock = 0
  /\ pc = "drain" /\ timeout > 0 => clock <= timeout
  /\ pc = "wait" => clock <= until /\ timeout <= until /\ (timeout > 0 => until <= 2 * timeout)
  /\ pc = "reap" /\ kept /\ timeout > 0 => clock <= 2 * timeout
  /\ pc = "stop" => clock <= until /\ (timeout > 0 => until <= 2 * timeout + StopWait)
  /\ child = "dying" => clock < until
  /\ pc = "returned" /\ kept /\ timeout > 0 => clock <= 2 * timeout + StopWait
  /\ kept /\ timeout > 0 => result.runningTime <= 2 * timeout
  /\ result.status = "Timedout" => /\ result.runningTime >= timeout
                                   /\ timeout > 0 => result.runningTime <= 2 * timeout

OutputInv ==
  /\ Written <= wanted
  /\ child \in {"ended", "reaped"} /\ code = 0 => Written = wanted
  /\ pc \in {"wait", "reap"} /\ (timeout = 0 \/ clock < timeout) => EndOfOutput
  /\ OutputOfPassedIsComplete

IInv == TypeOK /\ ChildInv /\ ResultInv /\ TimeInv /\ OutputInv

-----------------------------------------------------------------------------
(* The invariant is inductive. *)

USE DEF args, process, pipes

LEMMA Initial == Init => IInv
<1> SUFFICES ASSUME Init PROVE IInv
  OBVIOUS
<1> USE TimeoutsAssumption, OutputAssumption, HorizonAssumption
<1>1. TypeOK
  <2>1. NoResult \in [status : {"Invalid", "Passed", "Failed", "Timedout"},
                      exitStatus : {0, 1}, runningTime : Clock]
    BY DEF NoResult, Clock
  <2>2. result = NoResult /\ clock \in Clock /\ captured \in 0 .. MaxOutput /\ pipe \in 0 .. Capacity
    BY DEF Init, Clock
  <2> QED
    BY <2>1, <2>2 DEF Init, TypeOK
<1>2. ChildInv /\ OutputInv
  BY DEF Init, ChildInv, OutputInv, OutputOfPassedIsComplete, Written
<1>3. ResultInv /\ TimeInv
  BY DEF Init, ResultInv, TimeInv, NoResult, VerdictIsTheChilds
<1> QED
  BY <1>1, <1>2, <1>3 DEF IInv

LEMMA Inductive == IInv /\ [Next]_vars => IInv'
<1> SUFFICES ASSUME IInv, [Next]_vars PROVE IInv'
  OBVIOUS
<1> USE TimeoutsAssumption, StopWaitAssumption, OutputAssumption, HorizonAssumption
<1>1. CASE Start
  <2>1. TypeOK'
    BY <1>1 DEF IInv, TypeOK, Clock, Start
  <2>2. ChildInv'
    BY <1>1 DEF IInv, TypeOK, Clock, Start, ChildInv
  <2>3. ResultInv'
    BY <1>1 DEF IInv, TypeOK, Clock, Start, ResultInv, VerdictIsTheChilds, NoResult
  <2>4. TimeInv'
    BY <1>1 DEF IInv, TypeOK, Clock, Start, TimeInv, DeadlinePassed
  <2>5. OutputInv'
    BY <1>1 DEF IInv, TypeOK, Clock, Start, OutputInv, OutputOfPassedIsComplete, Written, EndOfOutput, DeadlinePassed
  <2> QED
    BY <2>1, <2>2, <2>3, <2>4, <2>5 DEF IInv
<1>2. CASE StartFails
  <2>1. TypeOK'
    BY <1>2 DEF IInv, TypeOK, Clock, StartFails, NoResult
  <2>2. ChildInv'
    BY <1>2 DEF IInv, TypeOK, Clock, StartFails, NoResult, ChildInv
  <2>3. ResultInv'
    BY <1>2 DEF IInv, TypeOK, Clock, StartFails, NoResult, ChildInv, ResultInv, VerdictIsTheChilds
  <2>4. TimeInv'
    BY <1>2 DEF IInv, TypeOK, Clock, StartFails, NoResult, TimeInv, DeadlinePassed
  <2>5. OutputInv'
    BY <1>2 DEF IInv, TypeOK, Clock, StartFails, NoResult, OutputInv, OutputOfPassedIsComplete, Written, EndOfOutput, DeadlinePassed
  <2> QED
    BY <2>1, <2>2, <2>3, <2>4, <2>5 DEF IInv
<1>3. CASE Read
  <2>1. TypeOK'
    BY <1>3 DEF IInv, TypeOK, Clock, Read, OutputInv, Written
  <2>2. ChildInv'
    BY <1>3 DEF IInv, TypeOK, Clock, Read, ChildInv
  <2>3. ResultInv'
    BY <1>3 DEF IInv, TypeOK, Clock, Read, ResultInv, VerdictIsTheChilds, NoResult
  <2>4. TimeInv'
    BY <1>3 DEF IInv, TypeOK, Clock, Read, TimeInv, DeadlinePassed
  <2>5. OutputInv'
    BY <1>3 DEF IInv, TypeOK, Clock, Read, OutputInv, OutputOfPassedIsComplete, Written, EndOfOutput, DeadlinePassed
  <2> QED
    BY <2>1, <2>2, <2>3, <2>4, <2>5 DEF IInv
<1>4. CASE EndDrain
  <2>1. TypeOK'
    BY <1>4 DEF IInv, TypeOK, Clock, EndDrain
  <2>2. ChildInv'
    BY <1>4 DEF IInv, TypeOK, Clock, EndDrain, ChildInv
  <2>3. ResultInv'
    BY <1>4 DEF IInv, TypeOK, Clock, EndDrain, ResultInv, VerdictIsTheChilds, NoResult
  <2>4. TimeInv'
    <3>1. clock \in Nat /\ timeout \in Nat
      BY DEF IInv, TypeOK, Clock
    <3>2. /\ clock' = clock /\ timeout' = timeout /\ until' = clock + timeout
          /\ pc = "drain" /\ pc' = "wait" /\ child' = child /\ kept' = kept /\ result' = result
      BY <1>4 DEF EndDrain
    <3>3. timeout > 0 => clock <= timeout
      BY <3>2 DEF IInv, TimeInv
    <3>4. child # "dying"
      BY <3>2 DEF IInv, ChildInv
    <3> QED
      BY <3>1, <3>2, <3>3, <3>4 DEF IInv, TimeInv
  <2>5. OutputInv'
    BY <1>4 DEF IInv, TypeOK, Clock, EndDrain, OutputInv, OutputOfPassedIsComplete, Written, EndOfOutput, DeadlinePassed
  <2> QED
    BY <2>1, <2>2, <2>3, <2>4, <2>5 DEF IInv
<1>5. CASE SeeExit
  <2>1. TypeOK'
    BY <1>5 DEF IInv, TypeOK, Clock, SeeExit
  <2>2. ChildInv'
    BY <1>5 DEF IInv, TypeOK, Clock, SeeExit, ChildInv
  <2>3. ResultInv'
    BY <1>5 DEF IInv, TypeOK, Clock, SeeExit, ResultInv, VerdictIsTheChilds, NoResult
  <2>4. TimeInv'
    BY <1>5 DEF IInv, TypeOK, Clock, SeeExit, TimeInv, DeadlinePassed
  <2>5. OutputInv'
    BY <1>5 DEF IInv, TypeOK, Clock, SeeExit, OutputInv, OutputOfPassedIsComplete, Written, EndOfOutput, DeadlinePassed
  <2> QED
    BY <2>1, <2>2, <2>3, <2>4, <2>5 DEF IInv
<1>6. CASE Reap
  <2>1. TypeOK'
    BY <1>6 DEF IInv, TypeOK, Clock, Reap
  <2>2. ChildInv'
    BY <1>6 DEF IInv, TypeOK, Clock, Reap, ChildInv
  <2>3. ResultInv'
    BY <1>6 DEF IInv, TypeOK, Clock, Reap, ResultInv, VerdictIsTheChilds, NoResult
  <2>4. TimeInv'
    BY <1>6 DEF IInv, TypeOK, Clock, Reap, TimeInv, DeadlinePassed
  <2>5. OutputInv'
    BY <1>6 DEF IInv, TypeOK, Clock, Reap, OutputInv, OutputOfPassedIsComplete, Written, EndOfOutput, DeadlinePassed
  <2> QED
    BY <2>1, <2>2, <2>3, <2>4, <2>5 DEF IInv
<1>7. CASE Timeout
  <2>1. TypeOK'
    BY <1>7 DEF IInv, TypeOK, Clock, Timeout, Killed
  <2>2. ChildInv'
    BY <1>7 DEF IInv, TypeOK, Clock, Timeout, Killed, ChildInv
  <2>3. ResultInv'
    BY <1>7 DEF IInv, TypeOK, Clock, Timeout, Killed, ResultInv, VerdictIsTheChilds, NoResult
  <2>4. TimeInv'
    BY <1>7 DEF IInv, TypeOK, Clock, Timeout, Killed, TimeInv, DeadlinePassed
  <2>5. OutputInv'
    BY <1>7 DEF IInv, TypeOK, Clock, Timeout, Killed, OutputInv, OutputOfPassedIsComplete, Written, EndOfOutput, DeadlinePassed
  <2> QED
    BY <2>1, <2>2, <2>3, <2>4, <2>5 DEF IInv
<1>8. CASE Destroy
  <2>1. TypeOK'
    BY <1>8 DEF IInv, TypeOK, Clock, Destroy
  <2>2. ChildInv'
    BY <1>8 DEF IInv, TypeOK, Clock, Destroy, ChildInv, TimeInv
  <2>3. ResultInv'
    BY <1>8 DEF IInv, TypeOK, Clock, Destroy, ResultInv, VerdictIsTheChilds, NoResult
  <2>4. TimeInv'
    BY <1>8 DEF IInv, TypeOK, Clock, Destroy, TimeInv, DeadlinePassed
  <2>5. OutputInv'
    BY <1>8 DEF IInv, TypeOK, Clock, Destroy, ResultInv, OutputInv, OutputOfPassedIsComplete, Written, EndOfOutput, DeadlinePassed
  <2> QED
    BY <2>1, <2>2, <2>3, <2>4, <2>5 DEF IInv
<1>9. CASE Write
  <2>1. TypeOK'
    BY <1>9 DEF IInv, TypeOK, Clock, Write, Alive
  <2>2. ChildInv'
    BY <1>9 DEF IInv, TypeOK, Clock, Write, Alive, ChildInv
  <2>3. ResultInv'
    BY <1>9 DEF IInv, TypeOK, Clock, Write, Alive, ResultInv, VerdictIsTheChilds, NoResult
  <2>4. TimeInv'
    BY <1>9 DEF IInv, TypeOK, Clock, Write, Alive, TimeInv, DeadlinePassed
  <2>5. OutputInv'
    BY <1>9 DEF IInv, TypeOK, Clock, Write, Alive, OutputInv, OutputOfPassedIsComplete, Written, EndOfOutput, DeadlinePassed
  <2> QED
    BY <2>1, <2>2, <2>3, <2>4, <2>5 DEF IInv
<1>10. CASE CloseOutputs
  <2>1. TypeOK'
    BY <1>10 DEF IInv, TypeOK, Clock, CloseOutputs, Alive
  <2>2. ChildInv'
    BY <1>10 DEF IInv, TypeOK, Clock, CloseOutputs, Alive, ChildInv
  <2>3. ResultInv'
    BY <1>10 DEF IInv, TypeOK, Clock, CloseOutputs, Alive, ResultInv, VerdictIsTheChilds, NoResult
  <2>4. TimeInv'
    BY <1>10 DEF IInv, TypeOK, Clock, CloseOutputs, Alive, TimeInv, DeadlinePassed
  <2>5. OutputInv'
    BY <1>10 DEF IInv, TypeOK, Clock, CloseOutputs, Alive, OutputInv, OutputOfPassedIsComplete, Written, EndOfOutput, DeadlinePassed
  <2> QED
    BY <2>1, <2>2, <2>3, <2>4, <2>5 DEF IInv
<1>11. CASE CloseExitPipe
  <2>1. TypeOK'
    BY <1>11 DEF IInv, TypeOK, Clock, CloseExitPipe, Alive
  <2>2. ChildInv'
    BY <1>11 DEF IInv, TypeOK, Clock, CloseExitPipe, Alive, ChildInv
  <2>3. ResultInv'
    BY <1>11 DEF IInv, TypeOK, Clock, CloseExitPipe, Alive, ResultInv, VerdictIsTheChilds, NoResult
  <2>4. TimeInv'
    BY <1>11 DEF IInv, TypeOK, Clock, CloseExitPipe, Alive, TimeInv, DeadlinePassed
  <2>5. OutputInv'
    BY <1>11 DEF IInv, TypeOK, Clock, CloseExitPipe, Alive, OutputInv, OutputOfPassedIsComplete, Written, EndOfOutput, DeadlinePassed
  <2> QED
    BY <2>1, <2>2, <2>3, <2>4, <2>5 DEF IInv
<1>12. CASE Fork
  <2>1. TypeOK'
    BY <1>12 DEF IInv, TypeOK, Clock, Fork, Alive
  <2>2. ChildInv'
    BY <1>12 DEF IInv, TypeOK, Clock, Fork, Alive, ChildInv
  <2>3. ResultInv'
    BY <1>12 DEF IInv, TypeOK, Clock, Fork, Alive, ResultInv, VerdictIsTheChilds, NoResult
  <2>4. TimeInv'
    BY <1>12 DEF IInv, TypeOK, Clock, Fork, Alive, TimeInv, DeadlinePassed
  <2>5. OutputInv'
    BY <1>12 DEF IInv, TypeOK, Clock, Fork, Alive, OutputInv, OutputOfPassedIsComplete, Written, EndOfOutput, DeadlinePassed
  <2> QED
    BY <2>1, <2>2, <2>3, <2>4, <2>5 DEF IInv
<1>13. CASE Exit
  <2>1. TypeOK'
    BY <1>13 DEF IInv, TypeOK, Clock, Exit, Alive, Leave
  <2>2. ChildInv'
    BY <1>13 DEF IInv, TypeOK, Clock, Exit, Alive, Leave, ChildInv
  <2>3. ResultInv'
    BY <1>13 DEF IInv, TypeOK, Clock, Exit, Alive, Leave, ResultInv, VerdictIsTheChilds, NoResult
  <2>4. TimeInv'
    BY <1>13 DEF IInv, TypeOK, Clock, Exit, Alive, Leave, TimeInv, DeadlinePassed
  <2>5. OutputInv'
    BY <1>13 DEF IInv, TypeOK, Clock, Exit, Alive, Leave, OutputInv, OutputOfPassedIsComplete, Written, EndOfOutput, DeadlinePassed
  <2> QED
    BY <2>1, <2>2, <2>3, <2>4, <2>5 DEF IInv
<1>14. CASE Die
  <2>1. TypeOK'
    BY <1>14 DEF IInv, TypeOK, Clock, Die, Leave
  <2>2. ChildInv'
    BY <1>14 DEF IInv, TypeOK, Clock, Die, Leave, ChildInv
  <2>3. ResultInv'
    BY <1>14 DEF IInv, TypeOK, Clock, Die, Leave, ResultInv, VerdictIsTheChilds, NoResult
  <2>4. TimeInv'
    BY <1>14 DEF IInv, TypeOK, Clock, Die, Leave, TimeInv, DeadlinePassed
  <2>5. OutputInv'
    BY <1>14 DEF IInv, TypeOK, Clock, Die, Leave, OutputInv, OutputOfPassedIsComplete, Written, EndOfOutput, DeadlinePassed
  <2> QED
    BY <2>1, <2>2, <2>3, <2>4, <2>5 DEF IInv
<1>15. CASE HelperEnds
  <2>1. TypeOK'
    BY <1>15 DEF IInv, TypeOK, Clock, HelperEnds, Leave
  <2>2. ChildInv'
    BY <1>15 DEF IInv, TypeOK, Clock, HelperEnds, Leave, ChildInv
  <2>3. ResultInv'
    BY <1>15 DEF IInv, TypeOK, Clock, HelperEnds, Leave, ResultInv, VerdictIsTheChilds, NoResult
  <2>4. TimeInv'
    BY <1>15 DEF IInv, TypeOK, Clock, HelperEnds, Leave, TimeInv, DeadlinePassed
  <2>5. OutputInv'
    BY <1>15 DEF IInv, TypeOK, Clock, HelperEnds, Leave, OutputInv, OutputOfPassedIsComplete, Written, EndOfOutput, DeadlinePassed
  <2> QED
    BY <2>1, <2>2, <2>3, <2>4, <2>5 DEF IInv
<1>16. CASE Tick
  <2>1. TypeOK'
    BY <1>16 DEF IInv, TypeOK, Clock, Tick, Blocked
  <2>2. ChildInv'
    BY <1>16 DEF IInv, TypeOK, Clock, Tick, Blocked, ChildInv
  <2>3. ResultInv'
    BY <1>16 DEF IInv, TypeOK, Clock, Tick, Blocked, ResultInv, VerdictIsTheChilds, NoResult
  <2>4. TimeInv'
    BY <1>16 DEF IInv, TypeOK, Clock, Tick, Blocked, ChildInv, TimeInv, DeadlinePassed
  <2>5. OutputInv'
    BY <1>16 DEF IInv, TypeOK, Clock, Tick, Blocked, OutputInv, OutputOfPassedIsComplete, Written, EndOfOutput, DeadlinePassed
  <2> QED
    BY <2>1, <2>2, <2>3, <2>4, <2>5 DEF IInv
<1>17. CASE UNCHANGED vars
  BY <1>17 DEF IInv, vars, TypeOK, Clock, ChildInv, ResultInv, TimeInv, OutputInv, VerdictIsTheChilds, NoResult,
     OutputOfPassedIsComplete, Written, EndOfOutput
<1> QED
  BY <1>1, <1>2, <1>3, <1>4, <1>5, <1>6, <1>7, <1>8, <1>9, <1>10, <1>11, <1>12, <1>13, <1>14, <1>15, <1>16, <1>17 DEF Next, RunProgram, Environment

-----------------------------------------------------------------------------
(* Theorems *)

THEOREM Invariance == Spec => []IInv
  BY Initial, Inductive, PTL DEF Spec

\* Type correctness: every variable of runProgram and of the child stays in its
\* range; in particular no output is read twice.
THEOREM TypeCorrect == Spec => []TypeOK
  BY Invariance, PTL DEF IInv

\* The status runProgram derives from wait() is the child's own exit.
THEOREM VerdictCorrect == Spec => []VerdictIsTheChilds
<1>1. IInv => VerdictIsTheChilds
  BY DEF IInv, ResultInv
<1> QED
  BY Invariance, <1>1, PTL

\* A timeout is not reported early.
THEOREM TimeoutCorrect == Spec => []TimedoutOnlyAfterTimeout
<1>1. IInv => TimedoutOnlyAfterTimeout
  BY DEF IInv, TimeInv, TimedoutOnlyAfterTimeout
<1> QED
  BY Invariance, <1>1, PTL

\* runProgram takes at most twice the timeout, and StopWait.
THEOREM ReturnsInTime == Spec => []ReturnsWithinTwiceTheTimeout
<1> USE TimeoutsAssumption, StopWaitAssumption
<1>1. ASSUME IInv, kept, timeout > 0
      PROVE  clock <= 2 * timeout + StopWait
  <2>1. /\ timeout \in Nat /\ clock \in Nat /\ until \in Nat
        /\ pc \in {"start", "drain", "wait", "reap", "stop", "returned", "exited"}
    BY <1>1, HorizonAssumption DEF IInv, TypeOK, Clock
  <2> QED
    BY <1>1, <2>1 DEF IInv, TimeInv
<1>2. IInv => ReturnsWithinTwiceTheTimeout
  BY <1>1 DEF IInv, TimeInv, ReturnsWithinTwiceTheTimeout
<1> QED
  BY Invariance, <1>2, PTL

\* The test program never outlives the call.
THEOREM ChildIsGone == Spec => []NoChildLeftRunning
<1>1. IInv => NoChildLeftRunning
  BY DEF IInv, ChildInv, NoChildLeftRunning, Ended
<1> QED
  BY Invariance, <1>1, PTL

\* The output of a program that passed before the deadline is complete.
THEOREM OutputCorrect == Spec => []OutputOfPassedIsComplete
<1>1. IInv => OutputOfPassedIsComplete
  BY DEF IInv, OutputInv
<1> QED
  BY Invariance, <1>1, PTL

\* runProgram implements the one-step run TestRun promises to its callers.
THEOREM Refinement == Spec => ImplementsTestRun
<1> DEFINE Result == IF pc = "returned" THEN result ELSE NoResult
<1>1. Init => Test!Init
  BY DEF Init, Test!Init, run, Ended, Test!NoResult, NoResult
<1>2. ASSUME IInv', pc' = "returned"
      PROVE  result' \in Test!Verdicts(timeout')
  <2>1. /\ result' \in [status : {"Invalid", "Passed", "Failed", "Timedout"},
                        exitStatus : {0, 1}, runningTime : 0 .. Horizon]
        /\ result'.status # "Invalid"
    BY <1>2 DEF IInv, TypeOK, Clock, ResultInv, VerdictIsTheChilds
  <2>2. result' \in [status : {"Passed", "Failed", "Timedout"},
                     exitStatus : {0, 1}, runningTime : 0 .. Horizon]
    BY <2>1
  <2>3. /\ result'.status = "Passed" <=> result'.exitStatus = 0
        /\ result'.status = "Timedout" => /\ result'.runningTime >= timeout'
                                          /\ timeout' > 0 => result'.runningTime <= 2 * timeout'
    BY <1>2 DEF IInv, ResultInv, TimeInv
  <2> QED
    BY <2>2, <2>3 DEF Test!Verdicts
<1>3. ASSUME [Next]_vars
      PROVE  \/ ~ Ended /\ ~ Ended'
             \/ pc' = pc /\ result' = result
             \/ ~ Ended /\ pc' = "returned"
             \/ pc = "start" /\ pc' = "exited"
  BY <1>3 DEF Next, RunProgram, Environment, Ended, Start, StartFails, Read, EndDrain, SeeExit,
     Reap, Timeout, Destroy, Write, CloseOutputs, CloseExitPipe, Fork, Exit, Die, HelperEnds, Tick, vars
<1>4. ASSUME [Next]_vars
      PROVE  timeout' = timeout
  BY <1>4 DEF Next, RunProgram, Environment, Start, StartFails, Read, EndDrain, SeeExit,
     Reap, Timeout, Destroy, Write, CloseOutputs, CloseExitPipe, Fork, Exit, Die, HelperEnds, Tick, vars
<1>5. ASSUME IInv', [Next]_vars
      PROVE  [Test!Next]_<<timeout, Result, run>>
  BY <1>2, <1>3, <1>4, <1>5
     DEF Ended, run, NoResult, Test!Next, Test!Return, Test!Exit
<1> QED
  BY <1>1, <1>5, Invariance, PTL DEF Spec, ImplementsTestRun, Test!Spec

=============================================================================
