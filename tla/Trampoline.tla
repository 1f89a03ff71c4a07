----------------------------- MODULE Trampoline -----------------------------
(***************************************************************************)
(* How all mutants of a module end up in one program, and how the program  *)
(* selects one of them (the second half of lib/Driver.cpp,                 *)
(* lib/Parallelization/Tasks/MutantPreparationTasks.cpp and                *)
(* ApplyMutationTask.cpp).                                                 *)
(*                                                                         *)
(* The mutations that passed the filters are grouped by function.  Every   *)
(* mutated function is cloned once per mutation, moved to a copy named     *)
(* mull_<function>_original, and refilled with a trampoline: a chain of    *)
(* getenv() checks, one per mutation, that stores the clone to call.  Only *)
(* then each mutation is recorded in .mull_mutants and applied to its own  *)
(* clone.  At run time a call of the function walks the chain under the    *)
(* environment the runner has set.                                         *)
(*                                                                         *)
(* A mutation is its index in the vector mutations of mutateBitcode.       *)
(***************************************************************************)
EXTENDS Integers, Sequences

CONSTANTS
  Functions,    \* the functions of the module
  Identifiers,  \* user identifiers, mutator:file:line:column
  N,            \* number of mutations
  NoFunction, NoRun

ASSUME NAssumption == N \in Nat
ASSUME NoFunctionAssumption == NoFunction \notin Functions

Mutations == 1 .. N

VARIABLES
  function,   \* [p]: getOriginalFunction of the mutation
  identifier, \* [p]: its user identifier, which others may share
  phase,      \* the task of mutateBitcode that is running
  added,      \* iterator of the loop over mutations
  pending,    \* keys of the map the loop of the phase has not reached
  points,     \* [f]: Bitcode::mutationPoints
  body,       \* [f]: what the body of the function is
  copy,       \* [f]: the body of mull_<f>_original
  clone,      \* [p]: the body of getMutatedFunction
  applied,    \* [p]: the mutations applied to that clone
  chain,      \* [f]: the mutations in the order of insertion into the chain
  records,    \* the section .mull_mutants
  env,        \* environment variables of the program
  called,     \* the function being called, or NoFunction
  head,       \* the block of the trampoline: check number head, 0 is "original"
  ran         \* the last call: [of, from, muts], or NoRun

input  == <<function, identifier>>
module == <<points, body, copy, clone, applied, chain, records>>
call   == <<env, called, head, ran>>
vars   == <<input, phase, added, pending, module, call>>

Bodies == {"absent", "code", "empty", "trampoline"}

Init ==
  /\ function \in [Mutations -> Functions]
  /\ identifier \in [Mutations -> Identifiers]
  /\ phase = "prepare" /\ added = 0 /\ pending = {}
  /\ points  = [f \in Functions |-> <<>>]
  /\ body    = [f \in Functions |-> "code"]
  /\ copy    = [f \in Functions |-> "absent"]
  /\ clone   = [p \in Mutations |-> "absent"]
  /\ applied = [p \in Mutations |-> {}]
  /\ chain   = [f \in Functions |-> <<>>]
  /\ records = <<>>
  /\ env = {} /\ called = NoFunction /\ head = 0 /\ ran = NoRun

-----------------------------------------------------------------------------
(* The passes of mutateBitcode.  Each but the first and the last goes over *)
(* a std::map ordered by the addresses of the functions: in any order.     *)

Mutated == {f \in Functions : Len(points[f]) > 0}

PointsOf(f) == {points[f][i] : i \in 1 .. Len(points[f])}

\* mutant of AddMutation: later mutations are put in front
AddInFront ==
  /\ phase = "prepare" /\ added < N
  /\ added' = added + 1
  /\ points' = [points EXCEPT ![function[added + 1]] = <<added + 1>> \o @]
  /\ UNCHANGED <<input, phase, pending, body, copy, clone, applied, chain, records, call>>

AddMutation ==
  /\ phase = "prepare" /\ added < N
  /\ added' = added + 1
  /\ points' = [points EXCEPT ![function[added + 1]] = Append(@, added + 1)]
  /\ UNCHANGED <<input, phase, pending, body, copy, clone, applied, chain, records, call>>

After == [prepare |-> "clone", clone |-> "delete", delete |-> "redirect",
          redirect |-> "apply", apply |-> "run"]

\* singleTask.execute() of the next pass
NextPass ==
  /\ \/ phase \in {"prepare", "apply"} /\ added = N
     \/ phase \in {"clone", "delete", "redirect"} /\ pending = {}
  /\ phase' = After[phase]
  /\ pending' = IF phase' \in {"clone", "delete", "redirect"} THEN Mutated ELSE {}
  /\ added' = 0
  /\ UNCHANGED <<input, module, call>>

\* cloneFunctions, for one function
CloneFunction(f) ==
  /\ phase = "clone" /\ f \in pending
  /\ pending' = pending \ {f}
  /\ clone' = [p \in Mutations |-> IF p \in PointsOf(f) THEN body[f] ELSE clone[p]]
  /\ UNCHANGED <<input, phase, added, points, body, copy, applied, chain, records, call>>

\* deleteFunctions, for one function: one copy, whatever the number of points
DeleteOriginal(f) ==
  /\ phase = "delete" /\ f \in pending
  /\ pending' = pending \ {f}
  /\ copy' = [copy EXCEPT ![f] = body[f]]
  /\ body' = [body EXCEPT ![f] = "empty"]
  /\ UNCHANGED <<input, phase, added, points, clone, applied, chain, records, call>>

\* insertTrampolines, for one function.  New blocks are appended to the
\* function: the block "entry" is its entry only if the function was empty.
InsertTrampoline(f) ==
  /\ phase = "redirect" /\ f \in pending
  /\ pending' = pending \ {f}
  /\ body' = [body EXCEPT ![f] = IF @ = "empty" THEN "trampoline" ELSE @]
  /\ chain' = [chain EXCEPT ![f] = points[f]]
  /\ UNCHANGED <<input, phase, added, points, copy, clone, applied, records, call>>

\* mutant of ApplyMutation: the mutation is applied to the clone made first
ApplyToFirst ==
  LET p == added + 1
      q == points[function[p]][1]
  IN /\ phase = "apply" /\ added < N
     /\ added' = p
     /\ records' = Append(records, p)
     /\ applied' = [applied EXCEPT ![q] = @ \cup {p}]
     /\ UNCHANGED <<input, phase, pending, points, body, copy, clone, chain, call>>

\* ApplyMutationTask, one task for all: recordMutation and applyMutation
ApplyMutation ==
  LET p == added + 1
  IN /\ phase = "apply" /\ added < N
     /\ added' = p
     /\ records' = Append(records, p)
     /\ applied' = [applied EXCEPT ![p] = @ \cup {p}]
     /\ UNCHANGED <<input, phase, pending, points, body, copy, clone, chain, call>>

MutateBitcode ==
  \/ AddMutation \/ NextPass \/ ApplyMutation
  \/ \E f \in Functions : CloneFunction(f) \/ DeleteOriginal(f) \/ InsertTrampoline(f)

-----------------------------------------------------------------------------
(* The program, under the environment of one run. *)

StartProgram ==
  /\ phase = "run" /\ called = NoFunction
  /\ env' \in SUBSET Identifiers
  /\ ran' = NoRun
  /\ UNCHANGED <<input, phase, added, pending, module, called, head>>

\* a call enters the last check inserted, or the code of the function
Call(f) ==
  /\ phase = "run" /\ called = NoFunction
  /\ IF body[f] = "trampoline"
       THEN /\ called' = f
            /\ head' = Len(chain[f])
            /\ UNCHANGED ran
       ELSE /\ ran' = [of |-> f, from |-> body[f], muts |-> {}]
            /\ UNCHANGED <<called, head>>
  /\ UNCHANGED <<input, phase, added, pending, module, env>>

\* mutant of CheckMutation: the new check does not become the head of the chain
CheckLoops ==
  LET p == chain[called][head]
  IN /\ called # NoFunction /\ head > 0
     /\ IF identifier[p] \in env
          THEN /\ ran' = [of |-> called, from |-> clone[p], muts |-> applied[p]]
               /\ called' = NoFunction /\ head' = 0
          ELSE UNCHANGED <<head, called, ran>>
     /\ UNCHANGED <<input, phase, added, pending, module, env>>

\* <identifier>_check: getenv() is not null, or on to the check inserted before
CheckMutation ==
  LET p == chain[called][head]
  IN /\ called # NoFunction /\ head > 0
     /\ IF identifier[p] \in env
          THEN /\ ran' = [of |-> called, from |-> clone[p], muts |-> applied[p]]
               /\ called' = NoFunction /\ head' = 0
          ELSE head' = head - 1 /\ UNCHANGED <<called, ran>>
     /\ UNCHANGED <<input, phase, added, pending, module, env>>

\* the block "original"
CallOriginal ==
  /\ called # NoFunction /\ head = 0
  /\ ran' = [of |-> called, from |-> copy[called], muts |-> {}]
  /\ called' = NoFunction
  /\ UNCHANGED <<input, phase, added, pending, module, env, head>>

Program == StartProgram \/ CheckMutation \/ CallOriginal \/ \E f \in Functions : Call(f)

Next == MutateBitcode \/ Program

Spec == Init /\ [][Next]_vars /\ WF_vars(MutateBitcode) /\ WF_vars(CheckMutation \/ CallOriginal)

-----------------------------------------------------------------------------
(* Properties *)

TypeOK ==
  /\ function \in [Mutations -> Functions] /\ identifier \in [Mutations -> Identifiers]
  /\ phase \in DOMAIN After \cup {"run"}
  /\ added \in 0 .. N /\ pending \in SUBSET Functions
  /\ points \in [Functions -> Seq(Mutations)] /\ chain \in [Functions -> Seq(Mutations)]
  /\ body \in [Functions -> Bodies] /\ copy \in [Functions -> Bodies]
  /\ clone \in [Mutations -> Bodies] /\ applied \in [Mutations -> SUBSET Mutations]
  /\ records \in Seq(Mutations)
  /\ env \in SUBSET Identifiers /\ called \in Functions \cup {NoFunction} /\ head \in Nat
  /\ ran = NoRun \/ ran \in [of : Functions, from : Bodies, muts : SUBSET Mutations]

Enabled(f) == {p \in Mutations : function[p] = f /\ identifier[p] \in env}

\* A call runs the program's own code for that function: unchanged when none of
\* its mutants is enabled, and otherwise with exactly one mutation, one that is
\* enabled.  Of several it is the one found last: a mutation shadows those
\* found before it in the same function under the same identifier.
RunsSelectedMutation ==
  ran # NoRun =>
    /\ ran.from = "code"
    /\ ran.muts = {p \in Enabled(ran.of) : \A q \in Enabled(ran.of) : q <= p}

\* What the runner reads from the program -- the records -- can be selected: the
\* identifier of every record is checked by the trampoline of its function, and
\* the clone behind the check has this mutation and no other.
RecordsAreSelectable ==
  phase = "run" =>
    \A p \in Mutations :
      /\ records[p] = p
      /\ \E i \in 1 .. Len(chain[function[p]]) : chain[function[p]][i] = p
      /\ clone[p] = "code" /\ applied[p] = {p}
      /\ body[function[p]] = "trampoline"

\* Every call gets through the trampoline.
CallsReturn == \A f \in Functions : (called = f) ~> (called = NoFunction)

=============================================================================
