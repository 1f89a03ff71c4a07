------------------------------ MODULE Judgement ------------------------------
(***************************************************************************)
(* What mull-runner relies on when it calls MutantRunner::runMutants: one  *)
(* status for each mutant, at its place, that is NotCovered exactly for    *)
(* the mutants that are not covered, and Passed only for a mutant that its *)
(* tests do not notice -- or the program ends.                             *)
(***************************************************************************)
EXTENDS Integers

CONSTANT Identifiers

VARIABLES
  mutants,     \* identifiers, one per mutant
  covered,     \* [id]: the runner has to run it
  unnoticed,   \* [id]: the tests end with 0 under the mutant
  workers,
  results,     \* [i]: status, or "none"
  call         \* "running", "returned" or "exited"

Statuses == {"Passed", "Failed", "Timedout", "NotCovered"}

Judged(status, id) ==
  /\ status = "NotCovered" <=> ~ covered[id]
  /\ status = "Passed" => unnoticed[id]

Judgements ==
  {res \in [DOMAIN mutants -> Statuses] : \A i \in DOMAIN mutants : Judged(res[i], mutants[i])}

Nothing == [i \in DOMAIN mutants |-> "none"]

Init ==
  /\ call = "running"
  /\ results = Nothing

\* without workers nothing is judged
Return ==
  /\ call = "running"
  /\ call' = "returned"
  /\ results' \in IF workers = 0 THEN {Nothing} ELSE Judgements
  /\ UNCHANGED <<mutants, covered, unnoticed, workers>>

Exit ==
  /\ call = "running"
  /\ call' = "exited"
  /\ UNCHANGED <<mutants, covered, unnoticed, workers, results>>

Next == Return \/ Exit

Spec == Init /\ [][Next]_<<mutants, covered, unnoticed, workers, results, call>>

=============================================================================
