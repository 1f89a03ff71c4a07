-------------------------- MODULE TrampolineProofs --------------------------
(***************************************************************************)
(* Theorems about Trampoline, for any set of functions, any number of      *)
(* mutations and any way they share functions and identifiers.             *)
(*                                                                         *)
(* PointsInv is what makes "the last one" well-defined: the mutations of a *)
(* function are kept in the order they were found.  BodyInv says, for each *)
(* pass, which functions still have their code and which have lost it to   *)
(* the copy; ApplyInv which clones are mutated; CallInv that the checks a  *)
(* call has passed were not enabled.                                       *)
(***************************************************************************)
EXTENDS Trampoline, TLAPS

\* how many mutations the functions have been given
Given == IF phase = "prepare" THEN added ELSE N

PointsInv ==
  \A f \in Functions :
    /\ \A i, j \in 1 .. Len(points[f]) : i < j => points[f][i] < points[f][j]
    /\ \A p \in Mutations : p \in PointsOf(f) <=> function[p] = f /\ p <= Given

\* whether the pass that is running, or an earlier one, has dealt with f
Done(pass, f) ==
  \/ phase = "clone"    /\ pass = "clone" /\ f \notin pending
  \/ phase = "delete"   /\ (pass = "clone" \/ (pass = "delete" /\ f \notin pending))
  \/ phase = "redirect" /\ (pass # "redirect" \/ f \notin pending)
  \/ phase \in {"apply", "run"}

BodyInv ==
  /\ pending \subseteq Mutated
  /\ \A f \in Functions :
       /\ body[f] = IF f \notin Mutated \/ ~ Done("delete", f) THEN "code"
                    ELSE IF Done("redirect", f) THEN "trampoline" ELSE "empty"
       /\ f \in Mutated /\ Done("delete", f) => copy[f] = "code"
       /\ f \in Mutated /\ Done("redirect", f) => chain[f] = points[f]
  /\ \A p \in Mutations : Done("clone", function[p]) => clone[p] = "code"

ApplyInv ==
  LET done == IF phase = "apply" THEN added ELSE IF phase = "run" THEN N ELSE 0
  IN /\ \A p \in Mutations : applied[p] = IF p <= done THEN {p} ELSE {}
     /\ Len(records) = done
     /\ \A p \in 1 .. done : records[p] = p

CallInv ==
  /\ called # NoFunction \/ ran # NoRun => phase = "run"
  /\ called # NoFunction =>
       /\ called \in Mutated
       /\ head <= Len(chain[called])
       /\ \A i \in head + 1 .. Len(chain[called]) : identifier[chain[called][i]] \notin env
  /\ RunsSelectedMutation

IInv == TypeOK /\ PointsInv /\ BodyInv /\ ApplyInv /\ CallInv

-----------------------------------------------------------------------------
(* The invariant is inductive. *)

USE DEF input, module, call, Mutations

LEMMA Phases == DOMAIN After = {"prepare", "clone", "delete", "redirect", "apply"}
  BY DEF After

\* NextPass, one pass at a time
LEMMA NextPassFacts ==
  ASSUME TypeOK, NextPass
  PROVE  /\ \/ phase = "prepare" /\ added = N /\ phase' = "clone" /\ pending' = Mutated
            \/ phase = "clone" /\ pending = {} /\ phase' = "delete" /\ pending' = Mutated
            \/ phase = "delete" /\ pending = {} /\ phase' = "redirect" /\ pending' = Mutated
            \/ phase = "redirect" /\ pending = {} /\ phase' = "apply" /\ pending' = {}
            \/ phase = "apply" /\ added = N /\ phase' = "run" /\ pending' = {}
         /\ added' = 0
         /\ UNCHANGED <<input, module, call>>
  BY DEF NextPass, After

LEMMA Initial == Init => IInv
<1> SUFFICES ASSUME Init PROVE IInv
  OBVIOUS
<1> USE NAssumption
<1>1. TypeOK
  BY Phases DEF Init, TypeOK, Bodies
<1>2. PointsInv
  <2> SUFFICES ASSUME NEW f \in Functions
               PROVE  /\ \A i, j \in 1 .. Len(points[f]) : i < j => points[f][i] < points[f][j]
                      /\ \A p \in Mutations : p \in PointsOf(f) <=> function[p] = f /\ p <= Given
    BY DEF PointsInv
  <2>1. Len(points[f]) = 0 /\ Given = 0
    BY DEF Init, Given
  <2>2. 1 .. Len(points[f]) = {}
    BY <2>1
  <2>3. PointsOf(f) = {}
    BY <2>2 DEF PointsOf
  <2> QED
    BY <2>1, <2>2, <2>3
<1>3. BodyInv
  BY DEF Init, BodyInv, Mutated, Done
<1>4. ApplyInv
  BY DEF Init, ApplyInv
<1>5. CallInv
  BY DEF Init, CallInv, RunsSelectedMutation
<1> QED
  BY <1>1, <1>2, <1>3, <1>4, <1>5 DEF IInv

\* Appending the next mutation to the sequence of its function.
LEMMA AddMutationPoints ==
  ASSUME IInv, AddMutation
  PROVE  PointsInv'
<1> DEFINE q == added + 1
<1> USE NAssumption
<1>1. /\ q \in Mutations /\ added \in Nat /\ added' = q /\ phase = "prepare" /\ phase' = phase
      /\ function' = function /\ function[q] \in Functions
      /\ points \in [Functions -> Seq(Mutations)]
      /\ points' = [points EXCEPT ![function[q]] = Append(@, q)]
  BY DEF IInv, TypeOK, AddMutation
<1>2. Given = added /\ Given' = q
  BY <1>1 DEF Given
<1> SUFFICES ASSUME NEW f \in Functions
             PROVE  /\ \A i, j \in 1 .. Len(points'[f]) : i < j => points'[f][i] < points'[f][j]
                    /\ \A p \in Mutations : p \in PointsOf(f)' <=> function[p] = f /\ p <= q
  BY <1>1, <1>2 DEF PointsInv
<1>3. /\ \A i, j \in 1 .. Len(points[f]) : i < j => points[f][i] < points[f][j]
      /\ \A p \in Mutations : p \in PointsOf(f) <=> function[p] = f /\ p <= added
  BY <1>2 DEF IInv, PointsInv
<1>4. CASE function[q] # f
  <2>1. points'[f] = points[f]
    BY <1>1, <1>4
  <2>2. PointsOf(f)' = PointsOf(f)
    BY <2>1 DEF PointsOf
  <2>3. ASSUME NEW p \in Mutations, function[p] = f
        PROVE  p <= added <=> p <= q
    <3>1. p # q /\ p \in Nat
      BY <1>4, <2>3
    <3> QED
      BY <1>1, <3>1
  <2> QED
    BY <1>3, <2>1, <2>2, <2>3
<1>5. CASE function[q] = f
  <2> DEFINE s == points[f]
             n == Len(points[f])
  <2>1. s \in Seq(Mutations) /\ n \in Nat /\ points'[f] = Append(s, q)
    BY <1>1, <1>5
  <2>2. /\ Len(points'[f]) = n + 1
        /\ \A i \in 1 .. n : points'[f][i] = s[i] /\ s[i] \in Mutations
        /\ points'[f][n + 1] = q
    BY <2>1
  <2>3. PointsOf(f) = {s[i] : i \in 1 .. n} /\ PointsOf(f)' = {points'[f][i] : i \in 1 .. n + 1}
    BY <2>2 DEF PointsOf
  <2>4. PointsOf(f)' = PointsOf(f) \cup {q}
    <3>1. 1 .. n + 1 = (1 .. n) \cup {n + 1}
      BY <2>1
    <3> QED
      BY <2>2, <2>3, <3>1
  <2>5. \A i \in 1 .. n : s[i] < q
    <3> SUFFICES ASSUME NEW i \in 1 .. n PROVE s[i] < q
      OBVIOUS
    <3>1. s[i] \in PointsOf(f) /\ s[i] \in Mutations
      BY <2>2, <2>3
    <3>2. s[i] <= added
      BY <1>3, <3>1
    <3> QED
      BY <1>1, <3>1, <3>2
  <2>6. ASSUME NEW i \in 1 .. n + 1, NEW j \in 1 .. n + 1, i < j
        PROVE  points'[f][i] < points'[f][j]
    <3>1. i \in 1 .. n
      BY <2>1, <2>6
    <3>2. CASE j = n + 1
      BY <2>2, <2>5, <3>1, <3>2
    <3>3. CASE j \in 1 .. n
      BY <1>3, <2>2, <2>6, <3>1, <3>3
    <3> QED
      BY <2>1, <3>2, <3>3
  <2>7. ASSUME NEW p \in Mutations
        PROVE  p \in PointsOf(f)' <=> function[p] = f /\ p <= q
    <3>1. p <= q <=> p <= added \/ p = q
      BY <1>1
    <3> QED
      BY <1>3, <1>5, <2>4, <3>1
  <2> QED
    BY <2>2, <2>6, <2>7
<1> QED
  BY <1>4, <1>5

\* Nothing else changes the points of a function.
LEMMA PointsStable ==
  ASSUME PointsInv, UNCHANGED <<function, points>>, Given' = Given
  PROVE  PointsInv'
  BY DEF PointsInv, PointsOf

\* The body of a function that belongs to a mutation, in terms of PointsOf.
LEMMA MutatedFunctions ==
  ASSUME IInv
  PROVE  /\ \A f \in Functions : f \in Mutated <=> PointsOf(f) # {}
         /\ phase # "prepare" => \A p \in Mutations : function[p] \in Mutated /\ p \in PointsOf(function[p])
<1> USE NAssumption
<1>1. ASSUME NEW f \in Functions
      PROVE  f \in Mutated <=> PointsOf(f) # {}
  <2>1. points[f] \in Seq(Mutations)
    BY DEF IInv, TypeOK
  <2>3. Len(points[f]) > 0 <=> 1 .. Len(points[f]) # {}
    <3>1. Len(points[f]) \in Nat
      BY <2>1
    <3>2. Len(points[f]) > 0 => 1 \in 1 .. Len(points[f])
      BY <3>1
    <3>3. \A i \in 1 .. Len(points[f]) : Len(points[f]) > 0
      BY <3>1
    <3> QED
      BY <3>2, <3>3
  <2> QED
    BY <2>3 DEF PointsOf, Mutated
<1>2. ASSUME phase # "prepare", NEW p \in Mutations
      PROVE  p \in PointsOf(function[p])
  <2>1. function[p] \in Functions /\ Given = N /\ p <= N
    BY <1>2 DEF IInv, TypeOK, Given
  <2> QED
    BY <2>1 DEF IInv, PointsInv
<1>3. \A p \in Mutations : function[p] \in Functions
  BY DEF IInv, TypeOK
<1> QED
  BY <1>1, <1>2, <1>3

\* When the program runs, the chain of a mutated function holds its mutations in
\* ascending order, and each clone has exactly its own.
LEMMA ChainFacts ==
  ASSUME IInv, phase = "run", NEW f \in Functions, f \in Mutated
  PROVE  /\ copy[f] = "code" /\ body[f] = "trampoline"
         /\ \A i \in 1 .. Len(chain[f]) :
              /\ chain[f][i] \in Mutations /\ function[chain[f][i]] = f
              /\ clone[chain[f][i]] = "code" /\ applied[chain[f][i]] = {chain[f][i]}
         /\ \A i, j \in 1 .. Len(chain[f]) : i < j => chain[f][i] < chain[f][j]
         /\ \A q \in Mutations : function[q] = f => \E i \in 1 .. Len(chain[f]) : chain[f][i] = q
<1> USE NAssumption
<1>1. /\ \A pass, g : Done(pass, g)
      /\ Given = N
  BY DEF Done, Given
<1>2. chain[f] = points[f] /\ copy[f] = "code" /\ body[f] = "trampoline"
  BY <1>1 DEF IInv, BodyInv
<1>3. /\ \A i, j \in 1 .. Len(points[f]) : i < j => points[f][i] < points[f][j]
      /\ \A p \in Mutations : p \in PointsOf(f) <=> function[p] = f
  BY <1>1 DEF IInv, PointsInv
<1>4. \A p \in Mutations : clone[p] = "code" /\ applied[p] = {p}
  BY <1>1 DEF IInv, BodyInv, ApplyInv
<1>5. \A i \in 1 .. Len(points[f]) : points[f][i] \in Mutations /\ points[f][i] \in PointsOf(f)
  BY DEF IInv, TypeOK, PointsOf
<1>6. \A q \in PointsOf(f) : \E i \in 1 .. Len(points[f]) : points[f][i] = q
  BY DEF PointsOf
<1> QED
  BY <1>2, <1>3, <1>4, <1>5, <1>6

LEMMA Inductive == IInv /\ [Next]_vars => IInv'
<1> SUFFICES ASSUME IInv, [Next]_vars PROVE IInv'
  OBVIOUS
<1> USE NAssumption, NoFunctionAssumption
<1>1. CASE AddMutation
  <2>1. TypeOK'
    <3>1. /\ added + 1 \in Mutations /\ added' = added + 1
          /\ points' = [points EXCEPT ![function[added + 1]] = Append(@, added + 1)]
      BY <1>1 DEF IInv, TypeOK, AddMutation
    <3>2. points' \in [Functions -> Seq(Mutations)]
      <4>1. \A f \in Functions : Append(points[f], added + 1) \in Seq(Mutations)
        BY <3>1 DEF IInv, TypeOK
      <4> QED
        BY <3>1, <4>1 DEF IInv, TypeOK
    <3>3. added' \in 0 .. N
      BY <3>1
    <3> QED
      BY <1>1, <3>2, <3>3, Phases DEF IInv, TypeOK, AddMutation, Bodies
  <2>2. PointsInv'
    BY <1>1, AddMutationPoints
  <2>3. BodyInv'
    <3>1. /\ phase = "prepare" /\ phase' = "prepare"
          /\ UNCHANGED <<pending, body, copy, clone, chain, function>>
      BY <1>1 DEF AddMutation
    <3>2. Mutated \subseteq Mutated'
      <4> SUFFICES ASSUME NEW f \in Functions, Len(points[f]) > 0 PROVE Len(points'[f]) > 0
        BY DEF Mutated
      <4>1. Len(Append(points[f], added + 1)) = Len(points[f]) + 1 /\ Len(points[f]) \in Nat
        <5>1. points[f] \in Seq(Mutations) /\ added + 1 \in Mutations
          BY <1>1 DEF IInv, TypeOK, AddMutation
        <5> QED
          BY <5>1
      <4> QED
        BY <1>1, <4>1 DEF IInv, TypeOK, AddMutation
    <3>3. pending' \subseteq Mutated'
      BY <3>1, <3>2 DEF IInv, BodyInv
    <3>4. \A pass, f : ~ Done(pass, f) /\ ~ Done(pass, f)'
      BY <3>1 DEF Done
    <3> QED
      BY <3>1, <3>3, <3>4 DEF IInv, BodyInv
  <2>4. ApplyInv'
    BY <1>1 DEF IInv, AddMutation, TypeOK, Bodies, ApplyInv
  <2>5. CallInv'
    BY <1>1 DEF IInv, AddMutation, TypeOK, Bodies, CallInv, RunsSelectedMutation, Enabled, Mutated
  <2> QED
    BY <2>1, <2>2, <2>3, <2>4, <2>5 DEF IInv
<1>2. CASE NextPass
  <2>1. TypeOK'
    <3>1. phase' \in {"clone", "delete", "redirect", "apply", "run"} /\ pending' \in SUBSET Functions
      BY <1>2, NextPassFacts DEF IInv, Mutated
    <3>2. added' \in 0 .. N /\ UNCHANGED <<input, module, call>>
      BY <1>2, NextPassFacts DEF IInv
    <3> QED
      BY <3>1, <3>2, Phases DEF IInv, TypeOK, Bodies
  <2>2. PointsInv'
    BY <1>2, NextPassFacts, PointsStable DEF IInv, Given
  <2>3. BodyInv'
    <3>1. UNCHANGED <<body, copy, clone, chain, function>> /\ Mutated' = Mutated
      BY <1>2, NextPassFacts DEF IInv, Mutated
    <3>2. CASE phase = "prepare"
      <4>1. phase' = "clone" /\ pending' = Mutated /\ added = N
        BY <1>2, <3>2, NextPassFacts DEF IInv
      <4>2. ASSUME NEW p \in Mutations PROVE function[p] \in Mutated
        <5>1. function[p] \in Functions /\ Given = N /\ p <= N
          BY <3>2, <4>1 DEF IInv, TypeOK, Given
        <5>2. p \in PointsOf(function[p])
          BY <5>1 DEF IInv, PointsInv
        <5> QED
          BY <5>1, <5>2, MutatedFunctions
      <4> QED
        BY <3>1, <3>2, <4>1, <4>2 DEF IInv, BodyInv, Done
    <3>3. CASE phase = "clone"
      <4>1. pending = {} /\ phase' = "delete" /\ pending' = Mutated
        BY <1>2, <3>3, NextPassFacts DEF IInv
      <4> QED
        BY <3>1, <3>3, <4>1 DEF IInv, BodyInv, Done
    <3>4. CASE phase = "delete"
      <4>1. pending = {} /\ phase' = "redirect" /\ pending' = Mutated
        BY <1>2, <3>4, NextPassFacts DEF IInv
      <4> QED
        BY <3>1, <3>4, <4>1 DEF IInv, BodyInv, Done
    <3>5. CASE phase = "redirect"
      <4>1. pending = {} /\ phase' = "apply" /\ pending' = {}
        BY <1>2, <3>5, NextPassFacts DEF IInv
      <4>2. \A pass, f : Done(pass, f) /\ Done(pass, f)'
        BY <3>5, <4>1 DEF Done
      <4>3. /\ \A f \in Functions : /\ body[f] = IF f \notin Mutated THEN "code" ELSE "trampoline"
                                    /\ f \in Mutated => copy[f] = "code" /\ chain[f] = points[f]
            /\ \A p \in Mutations : clone[p] = "code"
        BY <4>2 DEF IInv, BodyInv
      <4>4. points' = points /\ pending' \subseteq Mutated'
        BY <1>2, <4>1, NextPassFacts DEF IInv
      <4>5. /\ \A f \in Functions : /\ body'[f] = IF f \notin Mutated' THEN "code" ELSE "trampoline"
                                    /\ f \in Mutated' => copy'[f] = "code" /\ chain'[f] = points'[f]
            /\ \A p \in Mutations : clone'[p] = "code"
        BY <3>1, <4>3, <4>4
      <4> QED
        BY <4>1, <4>4, <4>5 DEF BodyInv, Done
    <3>6. CASE phase = "apply"
      <4>1. phase' = "run" /\ pending' = {}
        BY <1>2, <3>6, NextPassFacts DEF IInv
      <4>2. \A pass, f : Done(pass, f) /\ Done(pass, f)'
        BY <3>6, <4>1 DEF Done
      <4>3. /\ \A f \in Functions : /\ body[f] = IF f \notin Mutated THEN "code" ELSE "trampoline"
                                    /\ f \in Mutated => copy[f] = "code" /\ chain[f] = points[f]
            /\ \A p \in Mutations : clone[p] = "code"
        BY <4>2 DEF IInv, BodyInv
      <4>4. points' = points /\ pending' \subseteq Mutated'
        BY <1>2, <4>1, NextPassFacts DEF IInv
      <4>5. /\ \A f \in Functions : /\ body'[f] = IF f \notin Mutated' THEN "code" ELSE "trampoline"
                                    /\ f \in Mutated' => copy'[f] = "code" /\ chain'[f] = points'[f]
            /\ \A p \in Mutations : clone'[p] = "code"
        BY <3>1, <4>3, <4>4
      <4> QED
        BY <4>1, <4>4, <4>5 DEF BodyInv, Done
    <3> QED
      BY <1>2, <3>2, <3>3, <3>4, <3>5, <3>6, NextPassFacts DEF IInv
  <2>4. ApplyInv'
    BY <1>2, NextPassFacts DEF IInv, ApplyInv
  <2>5. CallInv'
    BY <1>2 DEF IInv, NextPass, TypeOK, Bodies, CallInv, RunsSelectedMutation, Enabled, Mutated
  <2> QED
    BY <2>1, <2>2, <2>3, <2>4, <2>5 DEF IInv
<1>3. CASE ApplyMutation
  <2>1. TypeOK'
    <3>1. added + 1 \in Mutations /\ added' = added + 1 /\ added' \in 0 .. N
      BY <1>3 DEF IInv, TypeOK, ApplyMutation
    <3>2. records' = Append(records, added + 1) /\ records' \in Seq(Mutations)
      BY <1>3, <3>1 DEF IInv, TypeOK, ApplyMutation
    <3>3. applied' \in [Mutations -> SUBSET Mutations]
      BY <1>3, <3>1 DEF IInv, TypeOK, ApplyMutation
    <3> QED
      BY <1>3, <3>1, <3>2, <3>3 DEF IInv, TypeOK, ApplyMutation, Bodies
  <2>2. PointsInv'
    BY <1>3, PointsStable DEF IInv, ApplyMutation, Given
  <2>3. BodyInv'
    BY <1>3 DEF IInv, ApplyMutation, TypeOK, Bodies, BodyInv, Mutated, Done
  <2>4. ApplyInv'
    <3>1. /\ added + 1 \in Mutations /\ added \in Nat /\ added' = added + 1
          /\ phase = "apply" /\ phase' = "apply"
          /\ applied' = [applied EXCEPT ![added + 1] = @ \cup {added + 1}]
          /\ records' = Append(records, added + 1)
          /\ records \in Seq(Mutations) /\ applied \in [Mutations -> SUBSET Mutations]
      BY <1>3 DEF IInv, TypeOK, ApplyMutation
    <3>2. /\ \A p \in Mutations : applied[p] = IF p <= added THEN {p} ELSE {}
          /\ Len(records) = added
          /\ \A p \in 1 .. added : records[p] = p
      BY <3>1 DEF IInv, ApplyInv
    <3>3. ASSUME NEW p \in Mutations
          PROVE  applied'[p] = IF p <= added + 1 THEN {p} ELSE {}
      <4>1. CASE p = added + 1
        BY <3>1, <3>2, <4>1
      <4>2. CASE p # added + 1
        <5>1. applied'[p] = applied[p] /\ (p <= added <=> p <= added + 1)
          BY <3>1, <4>2
        <5> QED
          BY <3>2, <5>1
      <4> QED
        BY <4>1, <4>2
    <3>4. Len(records') = added + 1 /\ \A p \in 1 .. added + 1 : records'[p] = p
      BY <3>1, <3>2
    <3> QED
      BY <3>1, <3>3, <3>4 DEF ApplyInv
  <2>5. CallInv'
    BY <1>3 DEF IInv, ApplyMutation, TypeOK, Bodies, CallInv, RunsSelectedMutation, Enabled, Mutated
  <2> QED
    BY <2>1, <2>2, <2>3, <2>4, <2>5 DEF IInv
<1>4. ASSUME NEW f \in Functions, CloneFunction(f) PROVE IInv'
  <2>1. TypeOK'
    BY <1>4 DEF IInv, CloneFunction, TypeOK, Bodies
  <2>2. PointsInv'
    BY <1>4, PointsStable DEF IInv, CloneFunction, Given
  <2>3. BodyInv'
    <3>1. /\ phase = "clone" /\ phase' = "clone" /\ pending' = pending \ {f}
          /\ UNCHANGED <<body, copy, chain, function, points>>
          /\ clone' = [p \in Mutations |-> IF p \in PointsOf(f) THEN body[f] ELSE clone[p]]
      BY <1>4 DEF CloneFunction
    <3>2. body[f] = "code"
      BY <3>1 DEF IInv, BodyInv, Done
    <3>3. ASSUME NEW p \in Mutations, Done("clone", function[p])'
          PROVE  clone'[p] = "code"
      <4>1. CASE function[p] = f
        BY <3>1, <3>2, <4>1, MutatedFunctions
      <4>2. CASE function[p] # f
        <5>1. Done("clone", function[p])
          BY <3>1, <3>3, <4>2 DEF Done
        <5> QED
          BY <3>1, <3>2, <5>1 DEF IInv, BodyInv
      <4> QED
        BY <4>1, <4>2
    <3>4. Mutated' = Mutated
      BY <3>1 DEF Mutated
    <3> QED
      BY <3>1, <3>3, <3>4 DEF IInv, BodyInv, Done
  <2>4. ApplyInv'
    BY <1>4 DEF IInv, CloneFunction, TypeOK, Bodies, ApplyInv
  <2>5. CallInv'
    BY <1>4 DEF IInv, CloneFunction, TypeOK, Bodies, CallInv, RunsSelectedMutation, Enabled, Mutated
  <2> QED
    BY <2>1, <2>2, <2>3, <2>4, <2>5 DEF IInv
<1>5. ASSUME NEW f \in Functions, DeleteOriginal(f) PROVE IInv'
  <2>1. TypeOK'
    BY <1>5 DEF IInv, DeleteOriginal, TypeOK, Bodies
  <2>2. PointsInv'
    BY <1>5, PointsStable DEF IInv, DeleteOriginal, Given
  <2>3. BodyInv'
    <3>1. /\ phase = "delete" /\ phase' = "delete" /\ f \in pending /\ pending' = pending \ {f}
          /\ UNCHANGED <<clone, chain, function, points>>
          /\ copy' = [copy EXCEPT ![f] = body[f]]
          /\ body' = [body EXCEPT ![f] = "empty"]
          /\ copy \in [Functions -> Bodies] /\ body \in [Functions -> Bodies]
      BY <1>5 DEF DeleteOriginal, IInv, TypeOK
    <3>2. Mutated' = Mutated /\ f \in Mutated
      BY <3>1 DEF IInv, BodyInv, Mutated
    <3>3. \A pass, g : /\ Done(pass, g) <=> pass = "clone" \/ (pass = "delete" /\ g \notin pending)
                       /\ Done(pass, g)' <=> pass = "clone" \/ (pass = "delete" /\ (g \notin pending \/ g = f))
      BY <3>1 DEF Done
    <3>4. body[f] = "code"
      BY <3>1, <3>3 DEF IInv, BodyInv
    <3>5. ASSUME NEW g \in Functions
          PROVE  /\ body'[g] = IF g \notin Mutated \/ g \in pending' THEN "code" ELSE "empty"
                 /\ g \in Mutated /\ g \notin pending' => copy'[g] = "code"
      <4>1. CASE g = f
        BY <3>1, <3>2, <3>4, <4>1
      <4>2. CASE g # f
        BY <3>1, <3>3, <4>2 DEF IInv, BodyInv
      <4> QED
        BY <4>1, <4>2
    <3>6. \A p \in Mutations : clone'[p] = "code"
      BY <3>1, <3>3 DEF IInv, BodyInv
    <3> QED
      BY <3>1, <3>2, <3>3, <3>5, <3>6 DEF IInv, BodyInv
  <2>4. ApplyInv'
    BY <1>5 DEF IInv, DeleteOriginal, TypeOK, Bodies, ApplyInv
  <2>5. CallInv'
    BY <1>5 DEF IInv, DeleteOriginal, TypeOK, Bodies, CallInv, RunsSelectedMutation, Enabled, Mutated
  <2> QED
    BY <2>1, <2>2, <2>3, <2>4, <2>5 DEF IInv
<1>6. ASSUME NEW f \in Functions, InsertTrampoline(f) PROVE IInv'
  <2>1. TypeOK'
    BY <1>6 DEF IInv, InsertTrampoline, TypeOK, Bodies
  <2>2. PointsInv'
    BY <1>6, PointsStable DEF IInv, InsertTrampoline, Given
  <2>3. BodyInv'
    BY <1>6 DEF IInv, InsertTrampoline, TypeOK, Bodies, BodyInv, Mutated, Done
  <2>4. ApplyInv'
    BY <1>6 DEF IInv, InsertTrampoline, TypeOK, Bodies, ApplyInv
  <2>5. CallInv'
    BY <1>6 DEF IInv, InsertTrampoline, TypeOK, Bodies, CallInv, RunsSelectedMutation, Enabled, Mutated
  <2> QED
    BY <2>1, <2>2, <2>3, <2>4, <2>5 DEF IInv
<1>7. CASE StartProgram
  <2>1. TypeOK'
    BY <1>7 DEF IInv, StartProgram, TypeOK, Bodies
  <2>2. PointsInv'
    BY <1>7, PointsStable DEF IInv, StartProgram, Given
  <2>3. BodyInv'
    BY <1>7 DEF IInv, StartProgram, TypeOK, Bodies, BodyInv, Mutated, Done
  <2>4. ApplyInv'
    BY <1>7 DEF IInv, StartProgram, TypeOK, Bodies, ApplyInv
  <2>5. CallInv'
    BY <1>7 DEF IInv, StartProgram, TypeOK, Bodies, CallInv, RunsSelectedMutation, Enabled, Mutated
  <2> QED
    BY <2>1, <2>2, <2>3, <2>4, <2>5 DEF IInv
<1>8. ASSUME NEW f \in Functions, Call(f) PROVE IInv'
  <2>1. TypeOK'
    BY <1>8 DEF IInv, Call, TypeOK, Bodies
  <2>2. PointsInv'
    BY <1>8, PointsStable DEF IInv, Call, Given
  <2>3. BodyInv'
    BY <1>8 DEF IInv, Call, TypeOK, Bodies, BodyInv, Mutated, Done
  <2>4. ApplyInv'
    BY <1>8 DEF IInv, Call, TypeOK, Bodies, ApplyInv
  <2>5. CallInv'
    <3>1. /\ phase = "run" /\ phase' = "run" /\ called = NoFunction
          /\ UNCHANGED <<function, identifier, points, chain, body, env>>
      BY <1>8 DEF Call
    <3>2. CASE body[f] = "trampoline"
      <4>1. called' = f /\ head' = Len(chain[f]) /\ ran' = ran
        BY <1>8, <3>2 DEF Call
      <4>2. f \in Mutated /\ Mutated' = Mutated
        BY <3>1, <3>2 DEF IInv, BodyInv, Mutated
      <4>3. Len(chain[f]) \in Nat
        BY DEF IInv, TypeOK
      <4>4. RunsSelectedMutation'
        BY <3>1, <4>1 DEF IInv, CallInv, RunsSelectedMutation, Enabled
      <4> QED
        BY <3>1, <4>1, <4>2, <4>3, <4>4 DEF CallInv
    <3>3. CASE body[f] # "trampoline"
      <4>1. ran' = [of |-> f, from |-> body[f], muts |-> {}] /\ called' = called
        BY <1>8, <3>3 DEF Call
      <4>2. body[f] = "code" /\ f \notin Mutated
        BY <3>1, <3>3 DEF IInv, BodyInv, Done
      <4>3. \A p \in Mutations : function[p] # f
        BY <3>1, <4>2, MutatedFunctions
      <4>4. Enabled(f)' = {}
        BY <3>1, <4>3 DEF Enabled
      <4> QED
        BY <3>1, <4>1, <4>2, <4>4 DEF CallInv, RunsSelectedMutation
    <3> QED
      BY <3>2, <3>3
  <2> QED
    BY <2>1, <2>2, <2>3, <2>4, <2>5 DEF IInv
<1>9. CASE CheckMutation
  <2>1. TypeOK'
    <3> PICK f \in Functions : f = called
      BY <1>9 DEF IInv, TypeOK, CheckMutation
    <3>1. chain[f] \in Seq(Mutations) /\ head \in 1 .. Len(chain[f])
      BY <1>9 DEF IInv, TypeOK, CallInv, CheckMutation
    <3>2. PICK p \in Mutations : p = chain[f][head]
      BY <3>1
    <3>3. ran' = ran \/ ran' = [of |-> f, from |-> clone[p], muts |-> applied[p]]
      BY <1>9, <3>2 DEF CheckMutation
    <3>4. clone[p] \in Bodies /\ applied[p] \in SUBSET Mutations
      BY DEF IInv, TypeOK
    <3>5. ran' = NoRun \/ ran' \in [of : Functions, from : Bodies, muts : SUBSET Mutations]
      BY <3>3, <3>4 DEF IInv, TypeOK
    <3>6. called' \in Functions \cup {NoFunction} /\ head' \in Nat
      <4>1. head - 1 \in Nat
        BY <3>1 DEF IInv, TypeOK
      <4>2. head' = head - 1 \/ head' = 0
        BY <1>9 DEF CheckMutation
      <4> QED
        BY <1>9, <4>1, <4>2 DEF CheckMutation, IInv, TypeOK
    <3> QED
      BY <1>9, <3>5, <3>6 DEF IInv, TypeOK, CheckMutation
  <2>2. PointsInv'
    BY <1>9, PointsStable DEF IInv, CheckMutation, Given
  <2>3. BodyInv'
    BY <1>9 DEF IInv, CheckMutation, TypeOK, Bodies, BodyInv, Mutated, Done
  <2>4. ApplyInv'
    BY <1>9 DEF IInv, CheckMutation, TypeOK, Bodies, ApplyInv
  <2>5. CallInv'
    <3> PICK f \in Functions : f = called
      BY <1>9 DEF IInv, TypeOK, CheckMutation
    <3> DEFINE p == chain[f][head]
    <3>1. /\ phase = "run" /\ phase' = "run" /\ f \in Mutated /\ f \in Functions /\ head \in 1 .. Len(chain[f])
          /\ UNCHANGED <<function, identifier, points, chain, env>>
          /\ \A i \in head + 1 .. Len(chain[f]) : identifier[chain[f][i]] \notin env
      BY <1>9 DEF IInv, TypeOK, CallInv, CheckMutation
    <3>2. p \in Mutations /\ function[p] = f /\ clone[p] = "code" /\ applied[p] = {p}
      <4>1. \A i \in 1 .. Len(chain[f]) :
              /\ chain[f][i] \in Mutations /\ function[chain[f][i]] = f
              /\ clone[chain[f][i]] = "code" /\ applied[chain[f][i]] = {chain[f][i]}
        BY <3>1, ChainFacts
      <4> QED
        BY <3>1, <4>1
    <3>3. CASE identifier[p] \in env
      <4>1. ran' = [of |-> f, from |-> clone[p], muts |-> applied[p]] /\ called' = NoFunction
        BY <1>9, <3>3 DEF CheckMutation
      <4>2. Enabled(f)' = Enabled(f) /\ p \in Enabled(f)
        BY <3>1, <3>2, <3>3 DEF Enabled
      <4>3. ASSUME NEW q \in Enabled(f) PROVE q <= p /\ q \in Nat
        <5>1. q \in Mutations /\ function[q] = f /\ identifier[q] \in env
          BY DEF Enabled
        <5>2. PICK i \in 1 .. Len(chain[f]) : chain[f][i] = q
          BY <3>1, <5>1, ChainFacts
        <5>3. i <= head
          BY <3>1, <5>1, <5>2
        <5>4. i < head => q < p
          BY <3>1, <5>2, ChainFacts
        <5> QED
          BY <3>1, <3>2, <5>1, <5>2, <5>3, <5>4
      <4>4. {x \in Enabled(f) : \A q \in Enabled(f) : q <= x} = {p}
        BY <3>2, <4>2, <4>3
      <4> QED
        BY <3>1, <3>2, <4>1, <4>2, <4>4 DEF CallInv, RunsSelectedMutation
    <3>4. CASE identifier[p] \notin env
      <4>1. head' = head - 1 /\ called' = called /\ ran' = ran
        BY <1>9, <3>4 DEF CheckMutation
      <4>2. Mutated' = Mutated /\ Len(chain[f]) \in Nat /\ head \in Nat
        BY <3>1 DEF IInv, TypeOK, Mutated
      <4>3. RunsSelectedMutation'
        BY <3>1, <4>1 DEF IInv, CallInv, RunsSelectedMutation, Enabled
      <4>4. \A i \in head - 1 + 1 .. Len(chain[f]) : identifier[chain[f][i]] \notin env
        BY <3>1, <3>4, <4>2
      <4> QED
        BY <3>1, <4>1, <4>2, <4>3, <4>4 DEF CallInv
    <3> QED
      BY <3>3, <3>4
  <2> QED
    BY <2>1, <2>2, <2>3, <2>4, <2>5 DEF IInv
<1>10. CASE CallOriginal
  <2>1. TypeOK'
    BY <1>10 DEF IInv, CallOriginal, TypeOK, Bodies
  <2>2. PointsInv'
    BY <1>10, PointsStable DEF IInv, CallOriginal, Given
  <2>3. BodyInv'
    BY <1>10 DEF IInv, CallOriginal, TypeOK, Bodies, BodyInv, Mutated, Done
  <2>4. ApplyInv'
    BY <1>10 DEF IInv, CallOriginal, TypeOK, Bodies, ApplyInv
  <2>5. CallInv'
    <3> PICK f \in Functions : f = called
      BY <1>10 DEF IInv, TypeOK, CallOriginal
    <3>1. /\ phase = "run" /\ phase' = "run" /\ f \in Mutated /\ f \in Functions /\ head = 0
          /\ UNCHANGED <<function, identifier, points, chain, env>>
          /\ ran' = [of |-> f, from |-> copy[f], muts |-> {}] /\ called' = NoFunction
          /\ \A i \in 1 .. Len(chain[f]) : identifier[chain[f][i]] \notin env
      BY <1>10 DEF IInv, TypeOK, CallInv, CallOriginal
    <3>2. Enabled(f)' = {}
      BY <3>1, ChainFacts DEF Enabled
    <3>3. copy[f] = "code"
      BY <3>1, ChainFacts
    <3> QED
      BY <3>1, <3>2, <3>3 DEF CallInv, RunsSelectedMutation
  <2> QED
    BY <2>1, <2>2, <2>3, <2>4, <2>5 DEF IInv
<1>11. CASE UNCHANGED vars
  <2>1. UNCHANGED <<input, phase, added, pending, module, call>>
    BY <1>11 DEF vars
  <2>2. TypeOK' /\ ApplyInv'
    BY <2>1 DEF IInv, TypeOK, ApplyInv
  <2>3. PointsInv'
    BY <2>1, PointsStable DEF IInv, Given
  <2>4. BodyInv'
    BY <2>1 DEF IInv, BodyInv, Mutated, Done
  <2>5. CallInv'
    BY <2>1 DEF IInv, CallInv, RunsSelectedMutation, Enabled, Mutated
  <2> QED
    BY <2>2, <2>3, <2>4, <2>5 DEF IInv
<1> QED
  BY <1>1, <1>2, <1>3, <1>4, <1>5, <1>6, <1>7, <1>8, <1>9, <1>10, <1>11 DEF Next, MutateBitcode, Program

-----------------------------------------------------------------------------
(* Theorems *)

THEOREM Invariance == Spec => []IInv
  BY Initial, Inductive, PTL DEF Spec

\* Type correctness of the passes and of the program they produce.
THEOREM TypeCorrect == Spec => []TypeOK
  BY Invariance, PTL DEF IInv

\* Whatever the environment, a call runs the original code or exactly one
\* mutation, the enabled one that was found last.
THEOREM SelectionCorrect == Spec => []RunsSelectedMutation
<1>1. IInv => RunsSelectedMutation
  BY DEF IInv, CallInv
<1> QED
  BY Invariance, <1>1, PTL

\* Each mutation the runner learns of from .mull_mutants is in the chain of its
\* function, behind a clone that has it and nothing else.
THEOREM RecordsCorrect == Spec => []RecordsAreSelectable
<1>1. ASSUME IInv, phase = "run", NEW p \in Mutations
      PROVE  /\ records[p] = p
             /\ \E i \in 1 .. Len(chain[function[p]]) : chain[function[p]][i] = p
             /\ clone[p] = "code" /\ applied[p] = {p}
             /\ body[function[p]] = "trampoline"
  <2>1. function[p] \in Functions /\ function[p] \in Mutated
    BY <1>1, MutatedFunctions DEF IInv, TypeOK
  <2>2. records[p] = p
    BY <1>1 DEF IInv, ApplyInv
  <2>3. PICK f \in Functions : f = function[p] /\ f \in Mutated
    BY <2>1
  <2>4. /\ \E i \in 1 .. Len(chain[f]) : chain[f][i] = p
        /\ body[f] = "trampoline"
    BY <1>1, <2>3, ChainFacts
  <2>5. clone[p] = "code" /\ applied[p] = {p}
    BY <1>1, NAssumption DEF IInv, BodyInv, Done, ApplyInv
  <2> QED
    BY <2>2, <2>3, <2>4, <2>5
<1>2. IInv => RecordsAreSelectable
  BY <1>1 DEF RecordsAreSelectable
<1> QED
  BY Invariance, <1>2, PTL

=============================================================================
