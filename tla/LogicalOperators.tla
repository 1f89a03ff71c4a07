--------------------------- MODULE LogicalOperators ---------------------------
(***************************************************************************)
(* The mutators for && and || (LogicalAndToOr and LogicalOrToAnd in        *)
(* lib/Mutators/CXX).  Clang compiles a condition to one block for each    *)
(* operand; there is no instruction for && to be replaced.  In an if       *)
(* statement each block ends with a branch that depends on its operand; in *)
(* a loop the condition is a value, that a phi node of a further block     *)
(* takes from the block it was reached from.  The mutators look in the     *)
(* rest of the function for a second branch that shares a target with the  *)
(* first, or depends on such a phi node, and turn the first one round.     *)
(***************************************************************************)
EXTENDS Integers, SequencesExt

VARIABLES
  condition, \* of the statement, an expression
  statement, \* "if" or "while"
  code,      \* its blocks, in order: [name, phi, negated, true, false, location]
  point,     \* the mutation: [mutator, block]
  stage      \* "source", "compiled", "found", "kept", "junk", "applied"

vars == <<condition, statement, code, point, stage>>

-----------------------------------------------------------------------------
\* Conditions of up to four operands, each node possibly negated.

Operand == [op |-> "operand", negated |-> FALSE]
Nodes(L, R) == [op : {"&&", "||"}, negated : BOOLEAN, l : L, r : R]

Conditions1 == [op : {"operand"}, negated : BOOLEAN]
Conditions2 == Nodes(Conditions1, Conditions1)
Conditions3 == Nodes(Conditions1, Conditions2) \union Nodes(Conditions2, Conditions1)
Conditions4 ==
  Nodes(Conditions1, Conditions3) \union Nodes(Conditions2, Conditions2) \union Nodes(Conditions3, Conditions1)

Conditions == Conditions1 \union Conditions2 \union Conditions3 \union Conditions4

Size[e \in Conditions] == IF e.op = "operand" THEN 1 ELSE Size[e.l] + Size[e.r]

\* An operand has the number of its block, an operator that of the first operand
\* on its right.  At[e, f, p]: the operators at location p in e, whose operands are
\* numbered from f.
At[e \in Conditions, f \in Nat, p \in Nat] ==
  IF e.op = "operand" THEN {}
  ELSE (IF p = f + Size[e.l] THEN {e} ELSE {}) \union At[e.l, f, p] \union At[e.r, f + Size[e.l], p]

With[e \in Conditions, f \in Nat, p \in Nat, op \in {"&&", "||"}] ==
  IF e.op = "operand" THEN e
  ELSE [e EXCEPT !.op = IF p = f + Size[e.l] THEN op ELSE @,
                 !.l = With[@, f, p, op], !.r = With[@, f + Size[e.l], p, op]]

-----------------------------------------------------------------------------
\* A block has the number of its operand as its name, the one with the phi node of an
\* operator the negative of its location.  Its result is the operand, or what the phi
\* node has for the block before, negated or not, and it goes to "true" or to "false":
\* the same if nothing depends on the result but a phi node.  A branch has the
\* location of the operator whose left operand it ends, 0 for that of the statement.

Block(name, phi, negated, end) ==
  [name |-> name, phi |-> phi, negated |-> negated, true |-> end.true, false |-> end.false, location |-> end.location]

Ends == [true : Int, false : Int, location : Nat]
End(true, false, location) == [true |-> true, false |-> false, location |-> location]

Then == 100
Else == 101

\* Clang's EmitBranchOnBoolExpr
Branches[e \in Conditions, f \in Nat, end \in Ends] ==
  LET yes == IF e.negated THEN end.false ELSE end.true
      no  == IF e.negated THEN end.true ELSE end.false
      mid == f + Size[e.l]
  IN CASE e.op = "operand" -> <<Block(f, <<>>, FALSE, End(yes, no, end.location))>>
       [] e.op = "&&" -> Branches[e.l, f, End(mid, no, mid)] \o Branches[e.r, mid, End(yes, no, end.location)]
       [] e.op = "||" -> Branches[e.l, f, End(yes, mid, mid)] \o Branches[e.r, mid, End(yes, no, end.location)]

\* Clang's EvaluateExprAsBool: the phi node has a constant for every branch of the left
\* operand that decides, the last one first, and the result of the right one.
Value[e \in Conditions, f \in Nat, end \in Ends] ==
  IF e.op = "operand" THEN <<Block(f, <<>>, e.negated, end)>>
  ELSE LET mid  == f + Size[e.l]
           left == Branches[e.l, f, IF e.op = "&&" THEN End(mid, -mid, mid) ELSE End(-mid, mid, mid)]
           right == Value[e.r, mid, End(-mid, -mid, mid)]
           deciding == SelectSeq(Reverse(left), LAMBDA b : -mid \in {b.true, b.false})
           phi == [k \in DOMAIN deciding |->
                     [from |-> deciding[k].name, value |-> IF e.op = "&&" THEN "false" ELSE "true"]]
       IN left \o right \o <<Block(-mid, Append(phi, [from |-> Last(right).name, value |-> "result"]), e.negated, end)>>

Compiled(e, s) == IF s = "if" THEN Branches[e, 1, End(Then, Else, 0)] ELSE Value[e, 1, End(Then, Else, 0)]

\* Where the code gets with these values of the operands, from block n if it is reached
\* from a block with that result; without an entry for that block the phi node has no value.
NoValue == 102

Outcome(c, values) ==
  LET Reached[n \in Int, from \in Int, result \in BOOLEAN] ==
        IF \A k \in DOMAIN c : c[k].name # n THEN n
        ELSE LET b == SelectSeq(c, LAMBDA d : d.name = n)[1]
                 entries == {b.phi[k].value : k \in {l \in DOMAIN b.phi : b.phi[l].from = from}}
                 Here(v) == v # b.negated
                 Go(r) == Reached[IF r THEN b.true ELSE b.false, n, r]
             IN IF b.phi = <<>> THEN Go(Here(values[n]))
                ELSE IF Cardinality(entries) # 1 THEN NoValue
                ELSE Go(Here(IF entries = {"result"} THEN result ELSE entries = {"true"}))
  IN Reached[1, 0, FALSE]

-----------------------------------------------------------------------------
\* The second branch that a mutator takes for a block, and the pattern it is found
\* by: the first one, in the rest of the function, that shares a target, or that
\* depends on the phi node of a target.

Original(m) == IF m = "LogicalAndToOr" THEN "&&" ELSE "||"
Replacing(m) == IF m = "LogicalAndToOr" THEN "||" ELSE "&&"

\* where a branch goes if its operand decides, and where if it does not
Decided(m, i) == IF m = "LogicalAndToOr" THEN code[i].false ELSE code[i].true
Open(m, i)    == IF m = "LogicalAndToOr" THEN code[i].true ELSE code[i].false

Pattern1(m, i, j) == Decided(m, j) = Decided(m, i)
Pattern2(m, i, j) == Decided(m, j) = Open(m, i)
Pattern3(m, i, j) ==
  code[j].name = Decided(m, i) /\ \E k \in DOMAIN code[j].phi : code[j].phi[k].from # code[i].name

Conditional(i) == code[i].true # code[i].false

Seconds(m, i) ==
  {j \in DOMAIN code : /\ j > i /\ Conditional(i) /\ Conditional(j)
                       /\ Pattern1(m, i, j) \/ Pattern2(m, i, j) \/ Pattern3(m, i, j)}

\* mutant of Second: the last branch that shares a target
LastSecond(m, i) == Max(Seconds(m, i))
Second(m, i) == Min(Seconds(m, i))

\* findPossibleMutationInBranch, for all branches of the function
FindMutation ==
  /\ stage = "compiled"
  /\ \E m \in {"LogicalAndToOr", "LogicalOrToAnd"}, i \in DOMAIN code :
       Seconds(m, i) # {} /\ point' = [mutator |-> m, block |-> i]
  /\ stage' = "found"
  /\ UNCHANGED <<condition, statement, code>>

\* findMutantExpression: is there such an operator at the location of the branch?
Matches(m, i) == \E e \in At[condition, 1, code[i].location] : e.op = Original(m)

IsJunk ==
  /\ stage = "found"
  /\ stage' = IF Matches(point.mutator, point.block) THEN "kept" ELSE "junk"
  /\ UNCHANGED <<condition, statement, code, point>>

Towards(m, b, decided, open) ==
  IF m = "LogicalAndToOr" THEN [b EXCEPT !.false = decided, !.true = open]
                          ELSE [b EXCEPT !.true = decided, !.false = open]

\* applyMutationANDToOR_Pattern1 and 2, applyMutationORToAND_Pattern1 and 2: the first
\* branch goes on where it was decided, or where the second one goes on.  A phi node there
\* gets an entry for it, as for the second; one where it does not go any more keeps its
\* entry.
Joined(m, i) ==
  LET j == Second(m, i)
      goal == Open(m, j)
      first == IF Pattern1(m, i, j) THEN Towards(m, code[i], Open(m, i), goal)
                                    ELSE Towards(m, code[i], goal, Decided(m, i))
      Entries(b) == SelectSeq(b.phi, LAMBDA e : e.from = code[j].name)
      Added(b) == IF b.name # goal \/ Entries(b) = <<>> THEN b
                  ELSE [b EXCEPT !.phi = Append(@, [from |-> code[i].name, value |-> Entries(b)[1].value])]
  IN [k \in DOMAIN code |-> Added(IF k = i THEN first ELSE code[k])]

\* applyMutationANDToOR_Pattern3, applyMutationORToAND_Pattern3: the first entry of the
\* phi node is turned, and the branch with it.
Swapped(m, i) ==
  LET Not(v) == IF v = "true" THEN "false" ELSE "true"
  IN [code EXCEPT ![Second(m, i)].phi[1].value = Not(@),
                  ![i] = [@ EXCEPT !.true = code[i].false, !.false = code[i].true]]

TurnedRound(m, i) ==
  IF Pattern1(m, i, Second(m, i)) \/ Pattern2(m, i, Second(m, i)) THEN Joined(m, i) ELSE Swapped(m, i)

ApplyMutation ==
  /\ stage = "kept"
  /\ code' = TurnedRound(point.mutator, point.block)
  /\ stage' = "applied"
  /\ UNCHANGED <<condition, statement, point>>

Init ==
  /\ condition = Operand /\ statement = "if"
  /\ code = <<>>
  /\ point = [mutator |-> "none"]
  /\ stage = "source"

Compile ==
  /\ stage = "source" /\ stage' = "compiled"
  /\ condition' \in Conditions
  /\ statement' \in {"if", "while"}
  /\ code' = Compiled(condition', statement')
  /\ UNCHANGED point

Next == Compile \/ FindMutation \/ IsJunk \/ ApplyMutation

Spec == Init /\ [][Next]_vars

-----------------------------------------------------------------------------

\* An operator with a single operand on its left and a plain one on its right,
\* or several that are joined by the other operator and nowhere negated.
Plain[e \in Conditions, op \in {"&&", "||"}] ==
  ~e.negated /\ (e.op = "operand" \/ (e.op = op /\ Plain[e.l, op] /\ Plain[e.r, op]))
Simple(e) == e.l.op = "operand" /\ Plain[e.r, IF e.op = "&&" THEN "||" ELSE "&&"]

\* The mutated code gets where the code of the statement with the operator
\* replaced would get, for all values of the operands.
IsReplaced ==
  LET new == With[condition, 1, code[point.block].location, Replacing(point.mutator)]
  IN \A values \in [1 .. Size[condition] -> BOOLEAN] :
       Outcome(code, values) = Outcome(Compiled(new, statement), values)

\* An operator has at most one mutation, a simple one in a condition without phi nodes
\* has one: the branches that look the same to the mutators (all that share a target)
\* are told apart by their locations.  And wherever a simple operator stands, negated or
\* among others, turning the one branch round replaces it.  After any mutation a phi node
\* has a value, wherever it is reached from.
SimpleOperatorIsReplaced ==
  /\ stage = "compiled" =>
       \A p \in 1 .. Size[condition] : \A e \in At[condition, 1, p] :
         LET m == CHOOSE k \in {"LogicalAndToOr", "LogicalOrToAnd"} : Original(k) = e.op
             own == {i \in DOMAIN code : code[i].location = p /\ Seconds(m, i) # {}}
         IN Cardinality(own) <= 1 /\ (Simple(e) /\ statement = "if" => Cardinality(own) = 1)
  /\ stage = "applied" /\ (\A e \in At[condition, 1, code[point.block].location] : Simple(e)) => IsReplaced
  /\ stage = "applied" =>
       \A values \in [1 .. Size[condition] -> BOOLEAN] : Outcome(code, values) # NoValue

\* The same for every operator: "Replaces && with ||".
OperatorIsReplaced == stage = "applied" => IsReplaced

=============================================================================
