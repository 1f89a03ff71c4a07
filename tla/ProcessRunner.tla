---------------------------- MODULE ProcessRunner ----------------------------
(***************************************************************************)
(* Runner::runProgram (lib/Runner.cpp): one run of an external program --  *)
(* the test program for every mutant, git, a compiler -- under a time      *)
(* limit.  Mull starts the child, drains its output until every writer is  *)
(* gone or the deadline has passed, waits for its end, and turns what it   *)
(* saw into a status.                                                      *)
(*                                                                         *)
(* The child and what it leaves behind are the environment.  It writes,    *)
(* blocks on a full pipe, closes its outputs, leaves a helper process that *)
(* inherits descriptors, or ends.  The end of the child is seen through a  *)
(* pipe as well: reproc gives it an "exit" pipe nobody writes to, and      *)
(* wait() polls until the last holder of that pipe is gone.                *)
(*                                                                         *)
(* The clock moves only while the caller is blocked in a poll or a wait,   *)
(* so the limits are exact: one unit stands for any number of ms.          *)
(***************************************************************************)
EXTENDS Integers

CONSTANTS
  Timeouts,   \* the values of the argument timeout
  StopWait,   \* the 100 ms of options.stop
  MaxOutput,  \* bound on the output of the child
  Capacity,   \* of the pipe, in the same unit
  Horizon     \* bound on the clock

ASSUME TimeoutsAssumption == Timeouts \subseteq Nat
ASSUME StopWaitAssumption == StopWait \in Nat \ {0}
ASSUME OutputAssumption   == MaxOutput \in Nat /\ Capacity \in Nat \ {0}
ASSUME HorizonAssumption  == Horizon \in Nat

VARIABLES
  pc,         \* "start", "drain", "wait", "reap", "stop", "returned", "exited"
  timeout,    \* the arguments
  failSilently,
  clock,      \* time since start
  until,      \* when the wait in progress gives up
  result,     \* [status, exitStatus, runningTime], or NoResult
  captured,   \* output read so far
  child,      \* "none", "running", "dying" (killed), "ended" (zombie), "reaped"
  code,       \* its exit status, once ended: 0, or 1 for any other
  wanted,     \* the output it writes before it ends by itself with 0
  pipe,       \* output written and not read
  writers,    \* processes that hold the write end of the output pipes
  holders,    \* processes that hold the write end of the exit pipe
  forked,     \* the child has left a helper behind
  kept        \* the child never closed its exit pipe itself

args    == <<timeout, failSilently>>
process == <<child, code, wanted, forked, kept>>
pipes   == <<pipe, writers, holders>>
vars    == <<args, pc, clock, until, result, captured, process, pipes>>

NoResult == [status |-> "Invalid", exitStatus |-> 0, runningTime |-> 0]

Init ==
  /\ pc = "start"
  /\ timeout \in Timeouts
  /\ failSilently \in BOOLEAN
  /\ clock = 0 /\ until = 0
  /\ result = NoResult
  /\ captured = 0
  /\ child = "none" /\ code = 0
  /\ wanted \in 0 .. MaxOutput
  /\ pipe = 0 /\ writers = {} /\ holders = {}
  /\ forked = FALSE /\ kept = TRUE

\* mutant of DeadlinePassed: options.deadline is not set
DeadlineNotSet == FALSE

\* the deadline of the process, which only the drain respects; 0 is none
DeadlinePassed == timeout > 0 /\ clock >= timeout

-----------------------------------------------------------------------------
(* runProgram *)

\* process.start() succeeds
Start ==
  /\ pc = "start"
  /\ pc' = "drain"
  /\ child' = "running"
  /\ writers' = {"child"} /\ holders' = {"child"}
  /\ UNCHANGED <<args, clock, until, result, captured, code, wanted, pipe, forked, kept>>

\* mutant of StartFails: the error is not checked for silent runs
StartFailsUnnoticed ==
  /\ pc = "start"
  /\ pc' = "returned"
  /\ result' = [status |-> "Passed", exitStatus |-> 1, runningTime |-> clock]
  /\ UNCHANGED <<args, clock, until, captured, process, pipes>>

\* process.start() fails.  The drain of a process that does not exist ends at
\* once, and so does wait(), with a negative status.
StartFails ==
  /\ pc = "start"
  /\ IF failSilently
       THEN /\ pc' = "returned"
            /\ result' = [status |-> "Failed", exitStatus |-> 1, runningTime |-> clock]
       ELSE pc' = "exited" /\ UNCHANGED result
  /\ UNCHANGED <<args, clock, until, captured, process, pipes>>

\* the drain reads what there is
Read ==
  /\ pc = "drain" /\ ~ DeadlinePassed
  /\ pipe > 0
  /\ pipe' = 0
  /\ captured' = captured + pipe
  /\ UNCHANGED <<args, pc, clock, until, result, process, writers, holders>>

EndOfOutput == pipe = 0 /\ writers = {}

\* mutant of EndDrain: the drain ends as soon as there is nothing to read
EndDrainEarly ==
  /\ pc = "drain"
  /\ DeadlinePassed \/ pipe = 0
  /\ pc' = "wait"
  /\ until' = clock + timeout
  /\ UNCHANGED <<args, clock, result, captured, process, pipes>>

\* The drain ends with the last writer or at the deadline, its error is
\* ignored, and wait(timeout) starts to count anew.
EndDrain ==
  /\ pc = "drain"
  /\ DeadlinePassed \/ EndOfOutput
  /\ pc' = "wait"
  /\ until' = clock + timeout
  /\ UNCHANGED <<args, clock, result, captured, process, pipes>>

\* wait() has seen the exit pipe close; it goes on with waitpid()
SeeExit ==
  /\ pc = "wait"
  /\ holders = {}
  /\ pc' = "reap"
  /\ UNCHANGED <<args, clock, until, result, captured, process, pipes>>

\* mutant of Reap: the status is not read
ReapPassed ==
  /\ pc = "reap" /\ child = "ended"
  /\ pc' = "returned"
  /\ child' = "reaped"
  /\ result' = [status |-> "Passed", exitStatus |-> code, runningTime |-> clock]
  /\ UNCHANGED <<args, clock, until, captured, code, wanted, forked, kept, pipes>>

Reap ==
  /\ pc = "reap" /\ child = "ended"
  /\ pc' = "returned"
  /\ child' = "reaped"
  /\ result' = [status |-> IF code = 0 THEN "Passed" ELSE "Failed",
                exitStatus |-> code, runningTime |-> clock]
  /\ UNCHANGED <<args, clock, until, captured, code, wanted, forked, kept, pipes>>

Killed == IF child = "running" THEN "dying" ELSE child

\* mutants of Timeout: nothing is killed, neither here nor by the destructor;
\* the wait ends before its time
TimeoutSpares ==
  /\ pc = "wait" /\ holders # {} /\ clock >= until
  /\ pc' = "returned"
  /\ result' = [status |-> "Timedout", exitStatus |-> 1, runningTime |-> clock]
  /\ UNCHANGED <<args, clock, until, captured, process, pipes>>

TimeoutEarly ==
  /\ pc = "wait" /\ holders # {}
  /\ pc' = "stop"
  /\ child' = Killed
  /\ until' = clock + StopWait
  /\ result' = [status |-> "Timedout", exitStatus |-> 1, runningTime |-> clock]
  /\ UNCHANGED <<args, clock, captured, code, wanted, forked, kept, pipes>>

\* wait() gives up and the child is killed.  The destructor of process kills
\* once more and waits for at most StopWait.
Timeout ==
  /\ pc = "wait"
  /\ holders # {} /\ clock >= until
  /\ pc' = "stop"
  /\ child' = Killed
  /\ until' = clock + StopWait
  /\ result' = [status |-> "Timedout", exitStatus |-> 1, runningTime |-> clock]
  /\ UNCHANGED <<args, clock, captured, code, wanted, forked, kept, pipes>>

\* the destructor reaps the child, or leaves a zombie
Destroy ==
  /\ pc = "stop"
  /\ \/ holders = {} /\ child = "ended" /\ child' = "reaped"
     \/ holders # {} /\ clock >= until /\ UNCHANGED child
  /\ pc' = "returned"
  /\ UNCHANGED <<args, clock, until, result, captured, code, wanted, forked, kept, pipes>>

RunProgram == Start \/ StartFails \/ Read \/ EndDrain \/ SeeExit \/ Reap \/ Timeout \/ Destroy

Ended == pc \in {"returned", "exited"}

-----------------------------------------------------------------------------
(* The child and its helper (external) *)

Alive == child = "running" /\ ~ Ended

Written == captured + pipe

\* a write blocks while the pipe is full
Write ==
  /\ Alive /\ "child" \in writers
  /\ Written < wanted /\ pipe < Capacity
  /\ pipe' = pipe + 1
  /\ UNCHANGED <<args, pc, clock, until, result, captured, process, writers, holders>>

\* the child redirects its outputs once it has written what it wanted to
CloseOutputs ==
  /\ Alive /\ "child" \in writers
  /\ Written = wanted
  /\ writers' = writers \ {"child"}
  /\ UNCHANGED <<args, pc, clock, until, result, captured, process, pipe, holders>>

\* the child closes all descriptors it does not know
CloseExitPipe ==
  /\ Alive /\ "child" \in holders
  /\ holders' = holders \ {"child"}
  /\ kept' = FALSE
  /\ UNCHANGED <<args, pc, clock, until, result, captured, child, code, wanted, forked, pipe, writers>>

\* a helper inherits the descriptors the child does not close for it
Fork ==
  /\ Alive /\ ~ forked
  /\ forked' = TRUE
  /\ writers' \in {writers, writers \cup {"helper"}}
  /\ holders' \in {holders, holders \cup {"helper"}}
  /\ "helper" \in writers' => "child" \in writers
  /\ "helper" \in holders' => "child" \in holders
  /\ UNCHANGED <<args, pc, clock, until, result, captured, child, code, wanted, kept, pipe>>

\* a process that ends closes its descriptors
Leave(p) ==
  /\ writers' = writers \ {p}
  /\ holders' = holders \ {p}

\* with 0 when all is written, with anything else at any time
Exit ==
  /\ Alive
  /\ \E c \in {0, 1} : (c = 0 => Written = wanted) /\ code' = c
  /\ child' = "ended"
  /\ Leave("child")
  /\ UNCHANGED <<args, pc, clock, until, result, captured, wanted, forked, kept, pipe>>

Die ==
  /\ child = "dying"
  /\ child' = "ended" /\ code' = 1
  /\ Leave("child")
  /\ UNCHANGED <<args, pc, clock, until, result, captured, wanted, forked, kept, pipe>>

HelperEnds ==
  /\ ~ Ended
  /\ "helper" \in writers \cup holders
  /\ Leave("helper")
  /\ UNCHANGED <<args, pc, clock, until, result, captured, process, pipe>>

Environment == Write \/ CloseOutputs \/ CloseExitPipe \/ Fork \/ Exit \/ Die \/ HelperEnds

-----------------------------------------------------------------------------
\* where the caller is blocked
Blocked ==
  \/ pc = "drain" /\ ~ DeadlinePassed /\ pipe = 0 /\ writers # {}
  \/ pc = "wait" /\ holders # {} /\ clock < until
  \/ pc = "reap" /\ child # "ended"
  \/ pc = "stop" /\ holders # {} /\ clock < until
  \/ pc = "stop" /\ holders = {} /\ child # "ended"

\* SIGKILL takes effect within StopWait
Tick ==
  /\ Blocked
  /\ child = "dying" => clock + 1 < until
  /\ clock < Horizon
  /\ clock' = clock + 1
  /\ UNCHANGED <<args, pc, until, result, captured, process, pipes>>

Next == RunProgram \/ Environment \/ Tick

Spec == Init /\ [][Next]_vars /\ WF_vars(RunProgram) /\ WF_vars(Tick) /\ WF_vars(Die)

-----------------------------------------------------------------------------
(* Properties *)

Clock == 0 .. Horizon

TypeOK ==
  /\ pc \in {"start", "drain", "wait", "reap", "stop", "returned", "exited"}
  /\ timeout \in Timeouts /\ failSilently \in BOOLEAN
  /\ clock \in Clock /\ until \in Nat
  /\ result \in [status : {"Invalid", "Passed", "Failed", "Timedout"},
                 exitStatus : {0, 1}, runningTime : Clock]
  /\ child \in {"none", "running", "dying", "ended", "reaped"} /\ code \in {0, 1}
  /\ wanted \in 0 .. MaxOutput /\ captured \in 0 .. MaxOutput /\ pipe \in 0 .. Capacity
  /\ writers \subseteq {"child", "helper"} /\ holders \subseteq {"child", "helper"}
  /\ forked \in BOOLEAN /\ kept \in BOOLEAN

\* A mutant "survives" only if its program really ended by itself with 0, and
\* is "killed" by its exit code only if it ended with another one: neither a
\* failed start nor the kill of the runner is mistaken for either.
VerdictIsTheChilds ==
  pc = "returned" =>
    /\ result.status = "Passed" => child = "reaped" /\ code = 0
    /\ result.status = "Failed" => (child = "reaped" /\ code # 0) \/ (child = "none" /\ failSilently)
    /\ result.status # "Invalid"

\* Timedout is never reported before the time the caller allowed is over.
TimedoutOnlyAfterTimeout ==
  result.status = "Timedout" => result.runningTime >= timeout

\* However the child behaves with its pipes, blocks or forks, the call is over
\* after twice the timeout -- unless the child closes the pipe its end is
\* watched through, or there is no timeout.
ReturnsWithinTwiceTheTimeout ==
  kept /\ timeout > 0 =>
    /\ result.runningTime <= 2 * timeout
    /\ clock <= 2 * timeout + StopWait

\* No run leaves the test program behind: with the next mutant enabled it would
\* compete with, or disturb, the next run.
NoChildLeftRunning == Ended => child \in {"none", "ended", "reaped"}

\* The output of a program that passed before the deadline is complete.
\* GitDiffReader takes it for the whole diff.
OutputOfPassedIsComplete ==
  pc = "returned" /\ result.status = "Passed" /\ (timeout = 0 \/ result.runningTime < timeout)
    => captured = wanted

\* The call returns, or ends the program, whatever the child does -- unless
\* there is no timeout, or the child has closed its exit pipe and runs on: then
\* the runner is inside waitpid(), which has no limit.
Returns == <>(Ended \/ timeout = 0 \/ (pc = "reap" /\ child = "running"))

\* What the option promises: "Timeout per test run (milliseconds)"
\* (tools/CLIOptions/CLIOptions.h).  A run that passed took no longer.
PassedWithinTimeout ==
  result.status = "Passed" /\ timeout > 0 => result.runningTime <= timeout

\* What the callers rely on.
run  == IF Ended THEN pc ELSE "running"
Test == INSTANCE TestRun WITH Times <- 0 .. Horizon, result <- IF pc = "returned" THEN result ELSE NoResult

\* runProgram implements the one-step run its callers are written against: one
\* verdict, once, that agrees with the exit status and the time it took.
ImplementsTestRun == Test!Spec

=============================================================================
