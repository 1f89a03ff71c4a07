------------------------ MODULE JunkDetectionProofs ------------------------
(***************************************************************************)
(* Theorems about JunkDetection, for any number of mutations, units and    *)
(* workers.                                                                *)
(*                                                                         *)
(* That a unit is parsed once rests on the mutex of the storage: a worker  *)
(* that parses has it, and the unit it parses has not been parsed.  What   *)
(* unit that is does not change under it, because the others give verdicts *)
(* on mutations of their own slices only.                                  *)
(***************************************************************************)
EXTENDS JunkDetection, WellFoundedInduction, TLAPS

TypeOK ==
  /\ unitFilePath \in [Mutations -> Units]
  /\ worker \in [Mutations -> Workers]
  /\ exists \subseteq Units
  /\ pc \in [Workers -> {"next", "parse", "unit"}]
  /\ astUnits \in [Units -> {"none", "ast", "empty", "broken"}]
  /\ parses \in [Units -> Nat]
  /\ storageMutex \in Workers \cup {NoWorker}
  /\ unitMutex \in [Units -> Workers \cup {NoWorker}]
  /\ at \in [Workers -> 0 .. Len(Accesses)]
  /\ inside \subseteq Workers
  /\ verdict \in [Mutations -> {"none", "junk", "kept"}]
  /\ program \in {"runs", "crashed"}

\* A worker that parses a unit, or is in one, has a mutation, which gives the unit.
SliceInv == \A w \in Workers : pc[w] # "next" => Slice(w) # {}

\* A worker in the middle of an access is in a unit with an AST; the last access ends
\* the call.
InsideInv ==
  /\ \A w \in inside : pc[w] = "unit" /\ at[w] > 0 /\ astUnits[Unit(w)] \in {"ast", "empty"}
  /\ \A w \in Workers : at[w] = Len(Accesses) => w \in inside

ParseInv ==
  /\ \A w \in Workers : pc[w] = "parse" => storageMutex = w /\ astUnits[Unit(w)] = "none"
  /\ \A u \in Units : parses[u] <= 1 /\ (astUnits[u] = "none" => parses[u] = 0)

\* Whoever is in a guarded access has the mutex of the unit.
GuardInv == \A w \in inside : Accesses[at[w]] \in Guarded => unitMutex[Unit(w)] = w

IInv == TypeOK /\ SliceInv /\ InsideInv /\ ParseInv /\ GuardInv

-----------------------------------------------------------------------------
(* The mutation of a worker is in its slice, and stays it while others move. *)

LEMMA MinIsMember ==
  ASSUME NEW S, S \subseteq Nat, S # {}
  PROVE  Min(S) \in S
<1> DEFINE R == {ss \in Nat \X Nat : ss[1] < ss[2]}
<1>1. IsWellFoundedOn(R, Nat)
  BY NatLessThanWellFounded, Zenon DEF OpToRel
<1>2. \E x \in S : \A y \in S : ~ (<<y, x>> \in R)
  <2> HIDE DEF R
  <2> QED
    BY <1>1, WFMin
<1>3. \A x, y \in Nat : y < x => <<y, x>> \in R
  OBVIOUS
<1>4. \E x \in S : \A y \in S : x <= y
  <2> HIDE DEF R
  <2>1. PICK x \in S : \A y \in S : ~ (<<y, x>> \in R)
    BY <1>2
  <2>2. \A y \in S : ~ (y < x)
    BY <2>1, <1>3
  <2> QED
    BY <2>2
<1> QED
  BY <1>4 DEF Min

LEMMA PointInSlice ==
  ASSUME TypeOK, NEW w \in Workers, Slice(w) # {}
  PROVE  /\ Point(w) \in Slice(w)
         /\ Point(w) \in Mutations /\ worker[Point(w)] = w /\ verdict[Point(w)] = "none"
         /\ Unit(w) \in Units
<1>1. Slice(w) \subseteq Nat
  BY NAssumption DEF Slice, Mutations
<1>2. Point(w) \in Slice(w)
  BY <1>1, MinIsMember DEF Point
<1> QED
  BY <1>2 DEF Slice, Unit, TypeOK

\* The slices that a step leaves alone, and the units with them.
LEMMA SliceStays ==
  ASSUME NEW v \in Workers, worker' = worker, unitFilePath' = unitFilePath,
         \A p \in Mutations : worker[p] = v => verdict'[p] = verdict[p]
  PROVE  Slice(v)' = Slice(v) /\ Unit(v)' = Unit(v)
<1>1. Slice(v)' = Slice(v)
  BY DEF Slice
<1> QED
  BY <1>1 DEF Unit, Point

LEMMA SevenAccesses == Len(Accesses) = 7 /\ Accesses[7] \notin Decisive
  BY DEF Accesses, Decisive

\* What a call of isJunk in one worker leaves alone of another one.
LEMMA OthersStay ==
  ASSUME IInv, NEW w \in Workers, IsJunk(w), NEW v \in Workers, v # w
  PROVE  /\ Slice(v)' = Slice(v) /\ Unit(v)' = Unit(v)
         /\ pc'[v] = pc[v] /\ at'[v] = at[v] /\ (v \in inside' <=> v \in inside)
<1> USE DEF IInv, TypeOK
<1>1. /\ worker' = worker /\ unitFilePath' = unitFilePath
      /\ pc'[v] = pc[v] /\ at'[v] = at[v] /\ (v \in inside' <=> v \in inside)
  BY DEF IsJunk, MissingUnit, FindAST, ParseUnit, NoAST, NoDeclarations, EnterUnit, LeaveUnit, Answer, input
<1>2. pc[w] # "next" => worker[Point(w)] = w
  BY PointInSlice DEF SliceInv
<1>3. \A p \in Mutations : worker[p] = v => verdict'[p] = verdict[p]
  <2>1. CASE verdict' = verdict
    BY <2>1
  <2>2. CASE pc[w] # "next" /\ \E x : verdict' = [verdict EXCEPT ![Point(w)] = x]
    BY <1>2, <2>2
  <2> QED
    BY <2>1, <2>2 DEF IsJunk, MissingUnit, FindAST, ParseUnit, NoAST, NoDeclarations, EnterUnit, LeaveUnit,
                      Answer, InsideInv
<1> QED
  BY <1>1, <1>3, SliceStays

-----------------------------------------------------------------------------
(* The invariant *)

LEMMA InitIInv == Init => IInv
<1> SUFFICES ASSUME Init PROVE IInv
  OBVIOUS
<1>1. TypeOK
  BY SevenAccesses DEF Init, TypeOK
<1>2. SliceInv /\ InsideInv /\ ParseInv /\ GuardInv
  BY SevenAccesses DEF Init, SliceInv, InsideInv, ParseInv, GuardInv
<1> QED
  BY <1>1, <1>2 DEF IInv

LEMMA TypeStep ==
  ASSUME IInv, NEW w \in Workers, IsJunk(w)
  PROVE  TypeOK'
<1> USE DEF IInv, TypeOK, input, IsJunk
<1>1. Slice(w) # {} => Unit(w) \in Units /\ Point(w) \in Mutations
  BY PointInSlice
<1>2. CASE MissingUnit(w)
  BY <1>2 DEF MissingUnit
<1>3. CASE FindAST(w)
  BY <1>3 DEF FindAST
<1>4. CASE ParseUnit(w)
  <2>1. /\ pc' \in [Workers -> {"next", "parse", "unit"}]
        /\ astUnits' \in [Units -> {"none", "ast", "empty", "broken"}]
    <3>1. PICK outcome \in {"ast", "empty", "broken"} : astUnits' = [astUnits EXCEPT ![Unit(w)] = outcome]
      BY <1>4 DEF ParseUnit
    <3> QED
      BY <1>4, <3>1 DEF ParseUnit
  <2>2. parses' \in [Units -> Nat]
    <3>1. parses[Unit(w)] + 1 \in Nat
      <4>1. Unit(w) \in Units
        BY <1>1, <1>4 DEF ParseUnit, SliceInv
      <4> QED
        BY <4>1
    <3> QED
      BY <1>4, <3>1 DEF ParseUnit
  <2> QED
    BY <1>4, <2>1, <2>2 DEF ParseUnit
<1>5. CASE NoAST(w)
  BY <1>1, <1>5 DEF NoAST, SliceInv
<1>6. CASE NoDeclarations(w)
  BY <1>1, <1>6, SevenAccesses DEF NoDeclarations, SliceInv, Answer
<1>7. CASE EnterUnit(w)
  <2>1. at[w] # 7
    BY <1>7, SevenAccesses DEF EnterUnit, InsideInv
  <2> QED
    BY <1>7, <2>1, SevenAccesses DEF EnterUnit
<1>8. CASE LeaveUnit(w)
  <2>1. unitMutex' \in [Units -> Workers \cup {NoWorker}]
    BY <1>8 DEF LeaveUnit, Released
  <2>2. /\ pc' \in [Workers -> {"next", "parse", "unit"}]
        /\ at' \in [Workers -> 0 .. Len(Accesses)]
        /\ verdict' \in [Mutations -> {"none", "junk", "kept"}]
    BY <1>8, SevenAccesses DEF LeaveUnit, Answer
  <2> QED
    BY <1>8, <2>1, <2>2 DEF LeaveUnit
<1> QED
  BY <1>2, <1>3, <1>4, <1>5, <1>6, <1>7, <1>8

\* A step that gives no verdict leaves the worker at its mutation.
LEMMA OwnStays ==
  ASSUME NEW w \in Workers, worker' = worker, unitFilePath' = unitFilePath, verdict' = verdict
  PROVE  Slice(w)' = Slice(w) /\ Unit(w)' = Unit(w)
  BY SliceStays

LEMMA SliceStep ==
  ASSUME IInv, NEW w \in Workers, IsJunk(w)
  PROVE  SliceInv'
<1> SUFFICES ASSUME NEW v \in Workers, pc'[v] # "next"
             PROVE  Slice(v)' # {}
  BY DEF SliceInv
<1>1. CASE v # w
  BY <1>1, OthersStay DEF IInv, SliceInv
<1>2. CASE v = w
  <2>1. verdict' = verdict /\ worker' = worker /\ unitFilePath' = unitFilePath /\ Slice(w) # {}
    BY <1>2 DEF IInv, TypeOK, SliceInv, InsideInv, IsJunk, MissingUnit, FindAST, ParseUnit, NoAST, NoDeclarations, EnterUnit,
                LeaveUnit, Answer, input
  <2> QED
    BY <1>2, <2>1, OwnStays
<1> QED
  BY <1>1, <1>2

LEMMA InsideStep ==
  ASSUME IInv, NEW w \in Workers, IsJunk(w)
  PROVE  InsideInv'
<1> USE DEF IInv, TypeOK, input, IsJunk
<1>1. ASSUME NEW u \in Units, astUnits'[u] # astUnits[u]
      PROVE  astUnits[u] = "none"
  BY <1>1, PointInSlice DEF MissingUnit, FindAST, ParseUnit, NoAST, NoDeclarations, EnterUnit, LeaveUnit,
                            ParseInv, SliceInv
<1>2. ASSUME NEW v \in inside'
      PROVE  pc'[v] = "unit" /\ at'[v] > 0 /\ astUnits'[Unit(v)'] \in {"ast", "empty"}
  <2>1. CASE v # w
    <3>1. v \in inside /\ Unit(v) \in Units
      BY <2>1, <1>2, OthersStay, PointInSlice, TypeStep DEF InsideInv, SliceInv
    <3>2. pc[v] = "unit" /\ at[v] > 0 /\ astUnits[Unit(v)] \in {"ast", "empty"}
      BY <3>1 DEF InsideInv
    <3>3. pc'[v] = pc[v] /\ at'[v] = at[v] /\ Unit(v)' = Unit(v)
      BY <2>1, <3>1, OthersStay
    <3>4. astUnits'[Unit(v)] = astUnits[Unit(v)]
      BY <3>1, <3>2, <1>1
    <3> QED
      BY <3>2, <3>3, <3>4
  <2>2. CASE v = w
    <3>1. Unit(w)' = Unit(w)
      <4>1. verdict' = verdict /\ worker' = worker /\ unitFilePath' = unitFilePath
        BY <1>2, <2>2 DEF MissingUnit, FindAST, ParseUnit, NoAST, NoDeclarations, EnterUnit, LeaveUnit, InsideInv
      <4> QED
        BY <4>1, OwnStays
    <3> QED
      BY <1>2, <2>2, <3>1 DEF MissingUnit, FindAST, ParseUnit, NoAST, NoDeclarations, EnterUnit, LeaveUnit, InsideInv
  <2> QED
    BY <2>1, <2>2
<1>3. ASSUME NEW v \in Workers, at'[v] = Len(Accesses)
      PROVE  v \in inside'
  <2>1. CASE v # w
    BY <2>1, <1>3, OthersStay DEF InsideInv
  <2>2. CASE v = w
    BY <1>3, <2>2, SevenAccesses DEF MissingUnit, FindAST, ParseUnit, NoAST, NoDeclarations, EnterUnit, LeaveUnit, Answer,
                                     InsideInv
  <2> QED
    BY <2>1, <2>2
<1> QED
  BY <1>2, <1>3 DEF InsideInv

\* Only ParseUnit parses, and it has the mutex of the storage until it has a unit.
LEMMA ParseStep ==
  ASSUME IInv, NEW w \in Workers, IsJunk(w)
  PROVE  ParseInv'
<1> USE DEF IInv, TypeOK, input, IsJunk
<1>1. CASE ParseUnit(w)
  <2>1. Unit(w) \in Units /\ storageMutex = w /\ astUnits[Unit(w)] = "none"
    BY <1>1, PointInSlice DEF ParseUnit, SliceInv, ParseInv
  <2>2. \A u \in Units : parses'[u] <= 1 /\ (astUnits'[u] = "none" => parses'[u] = 0)
    BY <1>1, <2>1 DEF ParseUnit, ParseInv
  <2>3. \A v \in Workers : pc'[v] # "parse"
    BY <1>1, <2>1 DEF ParseUnit, ParseInv
  <2> QED
    BY <2>2, <2>3 DEF ParseInv
<1>2. CASE ~ ParseUnit(w)
  <2>1. astUnits' = astUnits /\ parses' = parses
    BY <1>2 DEF MissingUnit, FindAST, NoAST, NoDeclarations, EnterUnit, LeaveUnit
  <2>2. ASSUME NEW v \in Workers, pc'[v] = "parse"
        PROVE  storageMutex' = v /\ astUnits[Unit(v)'] = "none"
    <3>1. CASE v # w
      <4>1. pc[v] = "parse" /\ Unit(v)' = Unit(v) /\ storageMutex = v
        BY <3>1, <2>2, OthersStay DEF ParseInv
      <4>2. storageMutex' = storageMutex
        BY <1>2, <4>1, NoWorkerAssumption DEF MissingUnit, FindAST, NoAST, NoDeclarations, EnterUnit, LeaveUnit
      <4> QED
        BY <4>1, <4>2 DEF ParseInv
    <3>2. CASE v = w
      <4>1. CASE FindAST(w)
        <5>1. Unit(w)' = Unit(w)
          BY <4>1, OwnStays DEF FindAST
        <5> QED
          BY <3>2, <2>2, <4>1, <5>1 DEF FindAST
      <4>2. CASE MissingUnit(w)
        <5>1. Unit(w)' = Unit(w)
          BY <4>2, OwnStays DEF MissingUnit
        <5> QED
          BY <3>2, <2>2, <4>2, <5>1 DEF MissingUnit
      <4>3. pc'[w] # "parse" \/ FindAST(w) \/ MissingUnit(w)
        BY <1>2 DEF NoAST, NoDeclarations, EnterUnit, LeaveUnit, Answer, InsideInv
      <4> QED
        BY <3>2, <2>2, <4>1, <4>2, <4>3
    <3> QED
      BY <3>1, <3>2
  <2> QED
    BY <2>1, <2>2 DEF ParseInv
<1> QED
  BY <1>1, <1>2

LEMMA GuardStep ==
  ASSUME IInv, NEW w \in Workers, IsJunk(w)
  PROVE  GuardInv'
<1> USE DEF IInv, TypeOK, input, IsJunk
<1> SUFFICES ASSUME NEW v \in inside', Accesses[at'[v]] \in Guarded
             PROVE  unitMutex'[Unit(v)'] = v
  BY DEF GuardInv
<1>1. CASE v # w
  <2>1. v \in inside /\ Unit(v)' = Unit(v) /\ unitMutex[Unit(v)] = v /\ Unit(v) \in Units
    <3>1. v \in Workers
      BY TypeStep
    <3>2. v \in inside /\ Unit(v)' = Unit(v) /\ at'[v] = at[v]
      BY <1>1, <3>1, OthersStay
    <3>3. unitMutex[Unit(v)] = v
      BY <3>2 DEF GuardInv
    <3> QED
      BY <3>1, <3>2, <3>3, PointInSlice DEF InsideInv, SliceInv
  <2>2. unitMutex'[Unit(v)] = unitMutex[Unit(v)]
    BY <1>1, <2>1, NoWorkerAssumption DEF MissingUnit, FindAST, ParseUnit, NoAST, NoDeclarations, EnterUnit, LeaveUnit, Released
  <2> QED
    BY <2>1, <2>2
<1>2. CASE v = w
  <2>1. Unit(w)' = Unit(w) /\ Unit(w) \in Units
    <3>1. verdict' = verdict /\ worker' = worker /\ unitFilePath' = unitFilePath /\ Slice(w) # {}
      BY <1>2 DEF MissingUnit, FindAST, ParseUnit, NoAST, NoDeclarations, EnterUnit, LeaveUnit, InsideInv, SliceInv
    <3> QED
      BY <3>1, OwnStays, PointInSlice
  <2>2. CASE EnterUnit(w)
    BY <1>2, <2>1, <2>2 DEF EnterUnit
  <2>3. CASE ~ EnterUnit(w)
    BY <1>2, <2>1, <2>3 DEF MissingUnit, FindAST, ParseUnit, NoAST, NoDeclarations, LeaveUnit, InsideInv, GuardInv
  <2> QED
    BY <2>2, <2>3
<1> QED
  BY <1>1, <1>2

LEMMA Stuttering == IInv /\ UNCHANGED vars => IInv'
<1> SUFFICES ASSUME IInv, UNCHANGED vars PROVE IInv'
  OBVIOUS
<1>1. \A v \in Workers : Slice(v)' = Slice(v) /\ Unit(v)' = Unit(v)
  BY OwnStays DEF vars, input
<1> QED
  BY <1>1 DEF vars, input, IInv, TypeOK, SliceInv, InsideInv, ParseInv, GuardInv

LEMMA InvariantCorrect == Spec => []IInv
<1>1. IInv /\ [Next]_vars => IInv'
  <2> SUFFICES ASSUME IInv, [Next]_vars PROVE IInv'
    OBVIOUS
  <2>1. CASE UNCHANGED vars
    BY <2>1, Stuttering
  <2>2. ASSUME NEW w \in Workers, IsJunk(w) PROVE IInv'
    BY <2>2, TypeStep, SliceStep, InsideStep, ParseStep, GuardStep DEF IInv
  <2> QED
    BY <2>1, <2>2 DEF Next
<1> QED
  BY <1>1, InitIInv, PTL DEF Spec

-----------------------------------------------------------------------------
(* Theorems *)

\* The types of the state: in particular, no worker goes beyond the last access.
THEOREM TypeCorrect == Spec => []TypeOK
<1>1. IInv => TypeOK
  BY DEF IInv
<1> QED
  BY <1>1, InvariantCorrect, PTL

\* ASTStorage::findAST parses the file of a unit once, whatever workers ask for it.
THEOREM UnitsParsedCorrect == Spec => []UnitsParsedOnce
<1>1. IInv => UnitsParsedOnce
  BY DEF IInv, ParseInv, UnitsParsedOnce
<1> QED
  BY <1>1, InvariantCorrect, PTL

\* Two workers that are in accesses of one unit that take its mutex are the same one.
GuardedAreExclusive ==
  \A v, w \in inside :
    Accesses[at[v]] \in Guarded /\ Accesses[at[w]] \in Guarded /\ Unit(v) = Unit(w) => v = w

\* What the mutex of ThreadSafeASTUnit does give: getLocation, getDecl and
\* getLocForEndOfToken of one unit exclude each other (the other accesses do not).
THEOREM GuardedCorrect == Spec => []GuardedAreExclusive
<1>1. IInv => GuardedAreExclusive
  BY DEF IInv, GuardInv, GuardedAreExclusive
<1> QED
  BY <1>1, InvariantCorrect, PTL
=============================================================================
