---------------------------- MODULE TaskExecutor ----------------------------
(***************************************************************************)
(* The parallel map every pass of Mull is run with: TaskExecutor::execute  *)
(* (include/mull/Parallelization/TaskExecutor.h), the batch arithmetic of  *)
(* lib/Parallelization/TaskExecutor.cpp, the loop all tasks of             *)
(* lib/Parallelization/Tasks share, and the thread that reports progress   *)
(* (lib/Parallelization/Progress.cpp).                                     *)
(*                                                                         *)
(* The caller's thread ("main") splits the input into one contiguous       *)
(* slice per worker, spawns the workers one by one -- they run while it    *)
(* still spawns the others --, then the reporter, joins all of them and    *)
(* moves the workers' private results to the output.  An item is its       *)
(* offset in the input; its results are the pairs <<item, number>>.        *)
(***************************************************************************)
EXTENDS Integers, Sequences

CONSTANTS
  MaxItems,   \* bound on in.size()
  MaxTasks,   \* bound on tasks.size()
  Emits       \* Emits[x]: how many results a task pushes for item x

ASSUME MaxItemsAssumption == MaxItems \in Nat
ASSUME MaxTasksAssumption == MaxTasks \in Nat
ASSUME EmitsAssumption    == Emits \in [0 .. MaxItems - 1 -> Nat]

VARIABLES
  n,          \* in.size(), fixed by the caller
  m,          \* tasks.size(), fixed by the caller
  pc,         \* where the main thread is
  workers,    \* number of slices: min(in.size(), tasks.size()), or 1
  reserved,   \* capacity of the vectors storages and counters
  spawned,    \* workers started so far; worker w was started with i = w
  end,        \* the iterator the spawning loop advances
  first, last,\* [w]: the slice [begin, end) given to worker w
  it,         \* [w]: the worker's iterator
  pushed,     \* [w]: results already pushed for the item at it[w]
  counter,    \* [w]: the worker's progress_counter
  storage,    \* [w]: the worker's private results
  stale,      \* workers whose std::ref points into a freed buffer
  scan,       \* the reporter: "off", "scanning" or "done"
  idx, sum,   \* the reporter's position in its loop over counters, and current
  shown,      \* progress_reporter::previousValue
  merged,     \* storages already moved to out
  out         \* the caller's output vector

inputs   == <<n, m>>
slices   == <<workers, reserved, spawned, end, first, last, stale>>
work     == <<it, pushed, counter, storage>>
reporter == <<scan, idx, sum, shown>>
vars     == <<inputs, pc, slices, work, reporter, merged, out>>

Items    == 0 .. MaxItems - 1
Workers  == 0 .. MaxTasks - 1
Results  == {r \in Nat \X Nat : r[1] \in Items /\ r[2] \in 1 .. Emits[r[1]]}

-----------------------------------------------------------------------------
\* mutant of Batch: the remainder is given to nobody
BatchRoundedDown(c, w, k) == c \div w

\* taskBatches: how many of c items the k-th of w workers gets
Batch(c, w, k) == (c - k) \div w + (IF (c - k) % w # 0 THEN 1 ELSE 0)

Smaller(a, b) == IF a < b THEN a ELSE b

Init ==
  /\ n \in 0 .. MaxItems
  /\ m \in 0 .. MaxTasks
  /\ pc = "enter"
  /\ workers = 0 /\ reserved = 0 /\ spawned = 0 /\ end = 0
  /\ first = [w \in Workers |-> 0]
  /\ last  = [w \in Workers |-> 0]
  /\ it      = [w \in Workers |-> 0]
  /\ pushed  = [w \in Workers |-> 0]
  /\ counter = [w \in Workers |-> 0]
  /\ storage = [w \in Workers |-> <<>>]
  /\ stale = {}
  /\ scan = "off" /\ idx = 0 /\ sum = 0 /\ shown = 0
  /\ merged = 0 /\ out = <<>>

-----------------------------------------------------------------------------
(* The main thread. *)

\* execute() with no tasks or nothing to do
ReturnEarly ==
  /\ pc = "enter"
  /\ m = 0 \/ n = 0
  /\ pc' = "returned"
  /\ UNCHANGED <<inputs, slices, work, reporter, merged, out>>

\* executeSequentially(): one counter, the reporter, then tasks.front() is
\* called by the main thread over the whole input, with out as its storage
StartSequential ==
  /\ pc = "enter"
  /\ m # 0 /\ n # 0
  /\ m = 1 \/ n = 1
  /\ pc' = "sequential"
  /\ workers' = 1 /\ spawned' = 1 /\ end' = n
  /\ last' = [last EXCEPT ![0] = n]
  /\ scan' = "scanning"
  /\ UNCHANGED <<inputs, reserved, first, stale, work, idx, sum, shown, merged, out>>

\* mutant of StartParallel: storages and counters are not reserved
StartUnreserved ==
  /\ pc = "enter"
  /\ n > 1 /\ m > 1
  /\ pc' = "spawn"
  /\ workers' = Smaller(n, m)
  /\ UNCHANGED <<inputs, reserved, spawned, end, first, last, stale, work, reporter, merged, out>>

\* executeInParallel() up to the spawning loop
StartParallel ==
  /\ pc = "enter"
  /\ n > 1 /\ m > 1
  /\ pc' = "spawn"
  /\ workers' = Smaller(n, m)
  /\ reserved' = Smaller(n, m)
  /\ UNCHANGED <<inputs, spawned, end, first, last, stale, work, reporter, merged, out>>

\* One turn of the spawning loop.  A push_back beyond the capacity moves the
\* elements, and leaves the references of the running workers behind.
SpawnWorker ==
  LET w == spawned
      b == Batch(n, workers, w)
  IN /\ pc = "spawn"
     /\ w < workers
     /\ first' = [first EXCEPT ![w] = end]
     /\ last'  = [last EXCEPT ![w] = end + b]
     /\ it'    = [it EXCEPT ![w] = end]
     /\ end' = end + b
     /\ spawned' = w + 1
     /\ IF w < reserved
          THEN UNCHANGED <<reserved, stale>>
          ELSE reserved' = w + 1 /\ stale' = 0 .. w - 1
     /\ UNCHANGED <<inputs, pc, workers, pushed, counter, storage, reporter, merged, out>>

SpawnReporter ==
  /\ pc = "spawn"
  /\ spawned = workers
  /\ pc' = "join"
  /\ scan' = "scanning"
  /\ UNCHANGED <<inputs, slices, work, idx, sum, shown, merged, out>>

Finished(w) == it[w] = last[w]

\* every thread of the vector threads is joined, the reporter last
JoinThreads ==
  /\ pc = "join"
  /\ \A w \in 0 .. workers - 1 : Finished(w)
  /\ scan = "done"
  /\ pc' = "merge"
  /\ UNCHANGED <<inputs, slices, work, reporter, merged, out>>

\* mutant of MergeStorage: the storages are taken from the back
MergeBackwards ==
  /\ pc = "merge"
  /\ merged < workers
  /\ out' = out \o storage[workers - 1 - merged]
  /\ merged' = merged + 1
  /\ UNCHANGED <<inputs, pc, slices, work, reporter>>

\* the merging loop, one storage at a time, in the order of the workers
MergeStorage ==
  /\ pc = "merge"
  /\ merged < workers
  /\ out' = out \o storage[merged]
  /\ merged' = merged + 1
  /\ UNCHANGED <<inputs, pc, slices, work, reporter>>

Return ==
  /\ \/ pc = "merge" /\ merged = workers
     \/ pc = "sequential" /\ Finished(0) /\ scan = "done"
  /\ pc' = "returned"
  /\ UNCHANGED <<inputs, slices, work, reporter, merged, out>>

Main == ReturnEarly \/ StartSequential \/ StartParallel \/ SpawnWorker
        \/ SpawnReporter \/ JoinThreads \/ MergeStorage \/ Return

-----------------------------------------------------------------------------
(* The tasks: for (it = begin; it != end; ++it, counter.increment()) {...} *)

Running(w) == w < spawned /\ ~ Finished(w) /\ pc \notin {"returned", "exited"}

\* mutant of Push: the workers share the output vector
PushShared(w) ==
  /\ Running(w)
  /\ pushed[w] < Emits[it[w]]
  /\ pushed' = [pushed EXCEPT ![w] = @ + 1]
  /\ out' = Append(out, <<it[w], pushed[w] + 1>>)
  /\ UNCHANGED <<inputs, pc, slices, it, counter, storage, reporter, merged>>

Push(w) ==
  LET r == <<it[w], pushed[w] + 1>> IN
  /\ Running(w)
  /\ pushed[w] < Emits[it[w]]
  /\ pushed' = [pushed EXCEPT ![w] = @ + 1]
  /\ IF pc = "sequential"
       THEN out' = Append(out, r) /\ UNCHANGED storage
       ELSE storage' = [storage EXCEPT ![w] = Append(@, r)] /\ UNCHANGED out
  /\ UNCHANGED <<inputs, pc, slices, it, counter, reporter, merged>>

\* ++it and counter.increment(), after everything the item gave was pushed
Advance(w) ==
  /\ Running(w)
  /\ pushed[w] = Emits[it[w]]
  /\ it' = [it EXCEPT ![w] = @ + 1]
  /\ pushed' = [pushed EXCEPT ![w] = 0]
  /\ counter' = [counter EXCEPT ![w] = @ + 1]
  /\ UNCHANGED <<inputs, pc, slices, storage, reporter, merged, out>>

\* A task ends the whole program: Diagnostics::error, or a warning in strict
\* mode, calls exit(1) from the worker's thread.
ExitProgram(w) ==
  /\ Running(w)
  /\ pc' = "exited"
  /\ UNCHANGED <<inputs, slices, work, reporter, merged, out>>

Worker(w) == Push(w) \/ Advance(w)

-----------------------------------------------------------------------------
(* progress_reporter::operator(): counters are read one at a time. *)

Scanning == scan = "scanning" /\ pc \notin {"returned", "exited"}

ReadCounter ==
  /\ Scanning
  /\ idx < workers
  /\ sum' = sum + counter[idx]
  /\ idx' = idx + 1
  /\ UNCHANGED <<inputs, pc, slices, work, scan, shown, merged, out>>

\* mutants of Report: the loop ends one item early, or never
ReportEndingAt(total) ==
  /\ Scanning
  /\ idx = workers
  /\ shown' = IF sum = 0 THEN shown ELSE sum
  /\ scan' = IF sum >= total THEN "done" ELSE "scanning"
  /\ idx' = 0
  /\ sum' = 0
  /\ UNCHANGED <<inputs, pc, slices, work, merged, out>>
ReportEarly == ReportEndingAt(n - 1)
ReportNever == ReportEndingAt(n + 1)

\* The end of one turn: nothing yet, or printProgress, which prints only what
\* changed, and the test that ends the loop.
Report ==
  /\ Scanning
  /\ idx = workers
  /\ shown' = IF sum = 0 THEN shown ELSE sum
  /\ scan' = IF sum = n THEN "done" ELSE "scanning"
  /\ idx' = 0
  /\ sum' = 0
  /\ UNCHANGED <<inputs, pc, slices, work, merged, out>>

Reporter == ReadCounter \/ Report

Ended == pc \in {"returned", "exited"} /\ UNCHANGED vars

Next ==
  \/ Main
  \/ \E w \in Workers : Worker(w) \/ ExitProgram(w)
  \/ Reporter
  \/ Ended

\* Every thread is scheduled again and again; a task is not assumed to call
\* exit(1), and every task ends with each of its items (see ProcessRunner for
\* the only tasks that wait for something).
Fairness ==
  /\ WF_vars(Main)
  /\ \A w \in Workers : WF_vars(Worker(w))
  /\ WF_vars(Reporter)

Spec == Init /\ [][Next]_vars /\ Fairness

-----------------------------------------------------------------------------
(* Properties. *)

TypeOK ==
  /\ n \in 0 .. MaxItems /\ m \in 0 .. MaxTasks
  /\ pc \in {"enter", "spawn", "join", "merge", "sequential", "returned", "exited"}
  /\ workers \in 0 .. MaxTasks /\ reserved \in 0 .. MaxTasks
  /\ spawned \in 0 .. workers /\ end \in 0 .. n
  /\ first \in [Workers -> 0 .. n] /\ last \in [Workers -> 0 .. n]
  /\ it \in [Workers -> 0 .. n]
  /\ pushed \in [Workers -> Nat] /\ counter \in [Workers -> 0 .. n]
  /\ storage \in [Workers -> Seq(Results)]
  /\ stale \in SUBSET Workers
  /\ scan \in {"off", "scanning", "done"}
  /\ idx \in 0 .. workers /\ sum \in 0 .. n /\ shown \in 0 .. n
  /\ merged \in 0 .. workers /\ out \in Seq(Results)

\* The slices are consecutive, none is empty, no two differ by more than one
\* item, and together they are the whole input: the loop that advances `end`
\* by batches[i], and the closing assert of taskBatches.
SlicesPartitionInput ==
  /\ \A w \in 0 .. spawned - 1 :
       /\ first[w] = (IF w = 0 THEN 0 ELSE last[w - 1])
       /\ first[w] < last[w]
       /\ \A v \in 0 .. w : last[v] - first[v] - (last[w] - first[w]) \in {0, 1}
  /\ pc \in {"join", "merge", "sequential"} => end = n /\ last[workers - 1] = n

\* A running task never writes through a reference into a vector that was
\* reallocated by a later push_back: storages and counters are reserved.
ReferencesStayValid == \A w \in stale : ~ Running(w)

\* The reporter reads the counters one by one while they grow.  Still, it ends
\* only when every item of every worker is done, so joining it cannot hide
\* unfinished work and "n/n" is never shown too early.
ReporterEndsAfterLastItem ==
  (scan = "done" \/ shown = n) /\ spawned > 0 => \A w \in 0 .. workers - 1 : Finished(w)

Before(r, s) == r[1] < s[1] \/ (r[1] = s[1] /\ r[2] < s[2])

\* Whatever the interleaving of the workers was, the caller receives each
\* result of each item exactly once and in the order of the input: the order
\* mutants are named, trampolined and reported in.
OutputInInputOrder ==
  /\ \A i, j \in DOMAIN out : i < j => Before(out[i], out[j])
  /\ pc = "returned" /\ m # 0 =>
       \A x \in 0 .. n - 1 : \A k \in 1 .. Emits[x] :
         \E i \in DOMAIN out : out[i] = <<x, k>>

status == IF pc \in {"returned", "exited"} THEN pc ELSE "running"

Map == INSTANCE OrderedMap

\* TaskExecutor::execute implements the sequential loop: in every state out is
\* a prefix of what one loop would have produced, however many workers run,
\* and it is all of it when the call returns.
ImplementsOrderedMap == Map!Spec

\* execute() returns, unless a task ended the program: no worker is lost, the
\* reporter's loop meets its exit condition, and join waits for nobody else.
Termination == <>(pc \in {"returned", "exited"})

=============================================================================
