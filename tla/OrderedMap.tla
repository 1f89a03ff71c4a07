----------------------------- MODULE OrderedMap -----------------------------
(***************************************************************************)
(* What a caller of TaskExecutor::execute relies on: the output is what a  *)
(* single loop over the input would have produced.  It may become visible  *)
(* piece by piece, always as a prefix of that sequence, and the call       *)
(* returns when it is complete -- or the program ends before.              *)
(***************************************************************************)
EXTENDS Integers, SequencesExt

CONSTANTS MaxItems, MaxTasks, Emits

VARIABLES
  n, m,       \* size of the input, number of tasks
  out,        \* the output vector
  status      \* "running", "returned" or "exited"

vars == <<n, m, out, status>>

\* the results of the items 0 .. c - 1, one item after the other
Sequential(c) ==
  FlattenSeq([i \in 1 .. c |-> [k \in 1 .. Emits[i - 1] |-> <<i - 1, k>>]])

Init ==
  /\ n \in 0 .. MaxItems
  /\ m \in 0 .. MaxTasks
  /\ out = <<>>
  /\ status = "running"

Extend ==
  /\ status = "running"
  /\ m # 0
  /\ \E len \in Len(out) + 1 .. Len(Sequential(n)) :
       out' = SubSeq(Sequential(n), 1, len)
  /\ UNCHANGED <<n, m, status>>

\* without tasks the input is dropped
Return ==
  /\ status = "running"
  /\ m = 0 \/ out = Sequential(n)
  /\ status' = "returned"
  /\ UNCHANGED <<n, m, out>>

\* one of the tasks called exit(1)
Exit ==
  /\ status = "running"
  /\ m # 0 /\ n # 0
  /\ status' = "exited"
  /\ UNCHANGED <<n, m, out>>

Next == Extend \/ Return \/ Exit

Spec == Init /\ [][Next]_vars /\ WF_vars(Extend \/ Return)

=============================================================================
