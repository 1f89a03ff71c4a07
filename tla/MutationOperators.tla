-------------------------- MODULE MutationOperators --------------------------
(***************************************************************************)
(* What the mutators for operators, assigned values and calls              *)
(* (lib/Mutators/CXX) do to an operator of the source: Clang compiles it   *)
(* to an instruction, the patterns of the mutators match the instruction,  *)
(* the junk detector keeps the mutations whose operator is there in the    *)
(* source, and the pattern of a kept one changes the instruction.          *)
(*                                                                         *)
(* Different operators are the same instruction (a + b, a += b, ++a), so   *)
(* that their mutators share patterns and only the junk detector tells     *)
(* them apart, and one operator is different instructions for different    *)
(* types.  Whether the changed instruction is the one of the new operator  *)
(* is checked by running both, on all numbers of W bits.                   *)
(*                                                                         *)
(* With -ftrapv, arithmetic of signed numbers is an intrinsic of its own;  *)
(* these numbers are a type here.  The mutators for &&, || are in          *)
(* LogicalOperators, negate_mutator and scalar_value_mutator in no module. *)
(***************************************************************************)
EXTENDS Integers, Sequences, FiniteSets

CONSTANT W   \* bits of an integer

VARIABLES
  construct,   \* the operator in the source: <<operator, form>>
  type,        \* of its operands
  instruction, \* [opcode, l, r], the operands "a", "b" or numbers
  point,       \* the mutation: [mutator, pattern]
  stage        \* "source", "compiled", "found", "kept", "junk", "applied"

vars == <<construct, type, instruction, point, stage>>

-----------------------------------------------------------------------------
\* Operators and their instructions (Clang).  A comparison has an opcode of two
\* parts: signedness, or what it says of NaN, and the relation.

Relations  == [lt |-> "<", le |-> "<=", gt |-> ">", ge |-> ">=", eq |-> "==", ne |-> "!="]
Assignable == {"+", "-", "*", "/", "%", "&", "|", "^", "<<", ">>"}

Constructs ==
  {<<o, f>> : o \in Assignable, f \in {"binary", "assign"}}
    \union {<<Relations[r], "binary">> : r \in DOMAIN Relations}
    \union {<<o, f>> : o \in {"++", "--"}, f \in {"pre", "post"}}
    \union {<<o, "unary">> : o \in {"-", "~", "!"}}
    \union {<<"=", f>> : f \in {"assign", "init", "const init"}}
    \union {<<"f()", f>> : f \in {"value", "statement"}}

Types(c) ==
  CASE c[1] = "!" -> {"bool"}
    [] c = <<"f()", "statement">> -> {"void"}
    [] c[1] \in {"=", "f()"} -> {"int", "unsigned", "bool", "double"}
    [] c[1] \in {"%", "&", "|", "^", "<<", ">>", "~"} -> {"int", "unsigned"}
    [] c[1] \in {"+", "-", "*", "/", "++", "--"} -> {"int", "trapping", "unsigned", "double"}
    [] OTHER -> {"int", "unsigned", "double"}

OneOf(t, i, s, u, d) == CASE t = "int" -> i [] t = "trapping" -> s [] t = "unsigned" -> u [] t = "double" -> d

BinaryOpcode(o, t) ==
  CASE o = "+"  -> <<OneOf(t, "Add", "SAddO", "Add", "FAdd")>>
    [] o = "-"  -> <<OneOf(t, "Sub", "SSubO", "Sub", "FSub")>>
    [] o = "*"  -> <<OneOf(t, "Mul", "SMulO", "Mul", "FMul")>>
    [] o = "/"  -> <<OneOf(t, "SDiv", "SDiv", "UDiv", "FDiv")>>
    [] o = "%"  -> <<OneOf(t, "SRem", "SRem", "URem", "FRem")>>
    [] o = "<<" -> <<"Shl">>
    [] o = ">>" -> <<OneOf(t, "AShr", "AShr", "LShr", "none")>>
    [] o = "&"  -> <<"And">>
    [] o = "|"  -> <<"Or">>
    [] o = "^"  -> <<"Xor">>
    [] o = "==" -> <<OneOf(t, "ICMP", "ICMP", "ICMP", "FCMP_O"), "eq">>
    [] o = "!=" -> <<OneOf(t, "ICMP", "ICMP", "ICMP", "FCMP_U"), "ne">>
    [] OTHER -> <<OneOf(t, "ICMP_S", "ICMP_S", "ICMP_U", "FCMP_O"),
                  CHOOSE r \in DOMAIN Relations : Relations[r] = o>>

Width(t) == IF t = "bool" THEN 1 ELSE W

\* 2 ^ n, as a recursive function
TwoTo[n \in 0 .. W] == IF n = 0 THEN 1 ELSE 2 * TwoTo[n - 1]

AllBits(t) == TwoTo[Width(t)] - 1

\* A number and a variable are told apart as operands by their length.
Variable(x) == <<"v", x>>
Constant(n) == <<n>>
Instruction(opcode, l, r) == [opcode |-> opcode, l |-> l, r |-> r]
A == Variable("a")
B == Variable("b")

\* "OtherCall" is a call through a pointer, one that an exception may leave through a
\* cleanup (an invoke), or an intrinsic with a value.
Compiled(c, t) ==
  LET adds(n) == {Instruction(BinaryOpcode("+", t), A, Constant(IF t = "double" THEN n ELSE n % TwoTo[W]))}
  IN CASE c[1] = "++" -> adds(1)
       [] c[1] = "--" -> IF t = "trapping" THEN {Instruction(<<"SSubO">>, A, Constant(1))} ELSE adds(-1)
       [] c \in {<<"~", "unary">>, <<"!", "unary">>} -> {Instruction(<<"Xor">>, A, Constant(AllBits(t)))}
       [] c = <<"-", "unary">> ->
            {Instruction(BinaryOpcode("-", t), Constant(0), A)}
              \union (IF t = "double" THEN {Instruction(<<"FNeg">>, A, A)} ELSE {})
       [] c[1] = "=" -> {Instruction(<<"Store">>, B, B)}
       [] c = <<"f()", "statement">> -> {Instruction(<<o>>, A, A) : o \in {"VoidCall", "VoidIntrinsic", "OtherCall"}}
       [] c = <<"f()", "value">> -> {Instruction(<<o>>, A, A) : o \in {"Call", "OtherCall"}}
       [] OTHER -> {Instruction(BinaryOpcode(c[1], t), A, B)}

\* a number of the source; as a bool, every one but 0 is true
Literal(n, t) ==
  LET c == Constant(CASE t = "bool" -> 1 [] t = "double" -> n [] OTHER -> n % TwoTo[W])
  IN {Instruction(<<"Copy">>, c, c)}

\* what the operand alone is
Noop == {Instruction(<<"Copy">>, A, A)}

-----------------------------------------------------------------------------
\* What an instruction computes: numbers of w bits, or doubles among which are
\* a few integers and NaN; their quotients stay uninterpreted.

NaN       == 100
Undefined == -1000

Signed(x, w)    == IF x >= TwoTo[w - 1] THEN x - TwoTo[w] ELSE x
Bits(x, w)      == {k \in 0 .. w - 1 : (x \div TwoTo[k]) % 2 = 1}
Number(bits, w) == CHOOSE n \in 0 .. TwoTo[w] - 1 : Bits(n, w) = bits
Truncated(x, y) ==
  LET abs(z) == IF z < 0 THEN -z ELSE z
  IN IF (x < 0) = (y < 0) THEN abs(x) \div abs(y) ELSE -(abs(x) \div abs(y))

Related(r, x, y) ==
  CASE r = "lt" -> x < y [] r = "le" -> x <= y [] r = "gt" -> x > y
    [] r = "ge" -> x >= y [] r = "eq" -> x = y [] r = "ne" -> x # y

Compare(opcode, w, x, y) ==
  LET unordered == NaN \in {x, y} IN
  CASE opcode[1] = "ICMP_S" -> Related(opcode[2], Signed(x, w), Signed(y, w))
    [] opcode[1] \in {"ICMP", "ICMP_U"} -> Related(opcode[2], x, y)
    [] opcode[1] = "FCMP_O" -> ~unordered /\ Related(opcode[2], x, y)
    [] opcode[1] = "FCMP_U" -> unordered \/ Related(opcode[2], x, y)

Checked(o, s, t) == CASE o = "SAddO" -> s + t [] o = "SSubO" -> s - t [] o = "SMulO" -> s * t

\* no division by zero, no shift by too many bits, no overflow that is trapped
Defined(o, w, x, y) ==
  LET s == Signed(x, w)
      t == Signed(y, w)
      lowest == -TwoTo[w - 1]
  IN /\ o \in {"SDiv", "UDiv", "SRem", "URem"} => y # 0
     /\ o \in {"SDiv", "SRem"} => ~(s = lowest /\ t = -1)
     /\ o \in {"Shl", "LShr", "AShr"} => y < w
     /\ o \in {"SAddO", "SSubO", "SMulO"} => Checked(o, s, t) \in lowest .. TwoTo[w - 1] - 1

Result(o, w, x, y) ==
  LET m == TwoTo[w]
      s == Signed(x, w)
      t == Signed(y, w)
  IN CASE o \in {"SAddO", "SSubO", "SMulO"} -> Checked(o, s, t) % m
       [] o = "Add"  -> (x + y) % m
       [] o = "Sub"  -> (x - y) % m
       [] o = "Mul"  -> (x * y) % m
       [] o = "SDiv" -> Truncated(s, t) % m
       [] o = "UDiv" -> x \div y
       [] o = "SRem" -> (s - t * Truncated(s, t)) % m
       [] o = "URem" -> x % y
       [] o = "Shl"  -> (x * TwoTo[y]) % m
       [] o = "LShr" -> x \div TwoTo[y]
       [] o = "AShr" -> (s \div TwoTo[y]) % m
       [] o = "And"  -> Number(Bits(x, w) \intersect Bits(y, w), w)
       [] o = "Or"   -> Number(Bits(x, w) \union Bits(y, w), w)
       [] o = "Xor"  -> Number((Bits(x, w) \union Bits(y, w)) \ (Bits(x, w) \intersect Bits(y, w)), w)
       [] o = "FAdd" -> x + y
       [] o = "FSub" -> x - y
       [] o = "FMul" -> x * y
       [] o = "FDiv" -> 10 * x + y
       [] o = "FNeg" -> -x
       [] o \in {"Copy", "Store"} -> x

Compute(o, w, x, y) ==
  IF ~Defined(o, w, x, y) THEN Undefined
  ELSE IF o \in {"FAdd", "FSub", "FMul", "FDiv", "FNeg"} /\ NaN \in {x, y} THEN NaN
  ELSE Result(o, w, x, y)

Operands(t) == IF t = "double" THEN {-1, 0, 1, NaN} ELSE 0 .. AllBits(t)

Run(i, t, a, b) ==
  LET value(x) == IF x = A THEN a ELSE IF x = B THEN b ELSE x[1]
  IN IF Len(i.opcode) = 1 THEN Compute(i.opcode[1], Width(t), value(i.l), value(i.r))
     ELSE IF Compare(i.opcode, Width(t), value(i.l), value(i.r)) THEN 1 ELSE 0

-----------------------------------------------------------------------------
\* The mutators: the operator the junk detector asks for, the new operator, and
\* the patterns, each with what it matches and what it makes of it.

Replace(from, to) == [from |-> <<from>>, to |-> <<to>>]

AddToSub == {Replace("Add", "Sub"), Replace("FAdd", "FSub"), Replace("SAddO", "SSubO")}
SubToAdd == {Replace("Sub", "Add"), Replace("FSub", "FAdd"), Replace("SSubO", "SAddO")}
\* mutant of DecToInc: x-- taken for sub x, 1
DecToIncOfSub == SubToAdd
\* x-- is compiled to add x, -1
DecToInc == SubToAdd \union {Replace("Add", "Sub")}
MulToDiv == {Replace("Mul", "SDiv"), Replace("FMul", "FDiv")}
DivToMul == {Replace("FDiv", "FMul"), Replace("SDiv", "Mul"), Replace("UDiv", "Mul")}
RemToDiv == {Replace("FRem", "FDiv"), Replace("SRem", "SDiv"), Replace("URem", "UDiv")}

LShiftToRShift == {Replace("Shl", "LShr")}
RShiftToLShift == {Replace("LShr", "Shl"), Replace("AShr", "Shl")}

UnaryMinus == {Replace("Sub", "swap operands"), Replace("FSub", "swap operands"), Replace("FNeg", "operand")}
BitNot   == {Replace("Xor", "And")}
Negation == {Replace("Xor", "negate operand")}

Numbers == {Replace("Store", "42")}
ScalarCalls == {Replace("Call", "42")}
VoidCalls == {Replace("VoidCall", "operand"), Replace("VoidIntrinsic", "operand")}

Relational(from, to) ==
  {[from |-> <<p, from>>, to |-> <<p, to>>] :
     p \in IF from \in {"eq", "ne"} THEN {"ICMP", "FCMP_O", "FCMP_U"}
                                    ELSE {"ICMP_S", "ICMP_U", "FCMP_O", "FCMP_U"}}

Mutator(o, form, to, patterns) == [kind |-> <<o, form>>, to |-> to, patterns |-> patterns]

\* an operator and its assignment share patterns
Both(o, to, patterns) == {Mutator(o, f, to, patterns) : f \in {"binary", "assign"}}

IncDec == {Mutator("++", f, "--", AddToSub) : f \in {"pre", "post"}}
            \union {Mutator("--", f, "++", DecToInc) : f \in {"pre", "post"}}

Arithmetic == Both("+", "-", AddToSub) \union Both("-", "+", SubToAdd) \union Both("*", "/", MulToDiv)
                \union Both("/", "*", DivToMul) \union Both("%", "/", RemToDiv)

Bitwise == Both("<<", ">>", LShiftToRShift) \union Both(">>", "<<", RShiftToLShift)
             \union Both("|", "&", {Replace("Or", "And")}) \union Both("&", "|", {Replace("And", "Or")})
             \union Both("^", "|", {Replace("Xor", "Or")})

Noops == {Mutator("-", "unary", "", UnaryMinus), Mutator("~", "unary", "", BitNot),
          Mutator("!", "unary", "", Negation)}

\* every comparison: to its negation and to its neighbour
Comparison ==
  {Mutator(Relations[p[1]], "binary", Relations[p[2]], Relational(p[1], p[2])) :
     p \in {<<"lt", "ge">>, <<"ge", "lt">>, <<"gt", "le">>, <<"le", "gt">>, <<"eq", "ne">>, <<"ne", "eq">>,
            <<"lt", "le">>, <<"le", "lt">>, <<"gt", "ge">>, <<"ge", "gt">>}}

\* A constant is not given another value: VarDeclVisitor leaves it out.
Values ==
  {Mutator("=", f, "42", Numbers) : f \in {"assign", "init"}}
    \union {Mutator("f()", "value", "42", ScalarCalls), Mutator("f()", "statement", "", VoidCalls)}

Mutators == IncDec \union Arithmetic \union Bitwise \union Noops \union Comparison \union Values

\* getDescription: "Replaces o with p" (or with its operand)
Description(m) ==
  IF m.kind = <<">>", "binary">> THEN <<"<<", ">>">> ELSE <<m.kind[1], m.to>>

\* getMutations.  Unary minus looks for a zero in front, if there are two operands.
CanMutate(m, p, i) ==
  /\ p.from = i.opcode
  /\ (m.kind = <<"-", "unary">> /\ i.opcode # <<"FNeg">>) => i.l = Constant(0)

\* IntValueConstructor: as many bits of 42 as the type has
Const42(t) == Constant(IF t = "double" THEN 42 ELSE 42 % TwoTo[Width(t)])

\* mutate.  (x ^ y becomes x ^ !y.)
Mutate(p, i, t) ==
  CASE p.to = <<"swap operands">>  -> Instruction(i.opcode, i.r, i.l)
    [] p.to = <<"operand">>        -> Instruction(<<"Copy">>, i.l, i.l)
    [] p.to = <<"negate operand">> -> Instruction(i.opcode, i.l, Constant(AllBits(t) - i.r[1]))
    [] p.to = <<"42">>             -> Instruction(<<"Copy">>, Const42(t), Const42(t))
    [] OTHER -> [i EXCEPT !.opcode = p.to]

-----------------------------------------------------------------------------

NoPoint == [mutator |-> "none"]

Init ==
  /\ construct = <<"none", "none">> /\ type = "none"
  /\ instruction = Instruction(<<"none">>, A, B)
  /\ point = NoPoint
  /\ stage = "source"

Compile ==
  /\ stage = "source" /\ stage' = "compiled"
  /\ construct' \in Constructs
  /\ type' \in Types(construct')
  /\ instruction' \in Compiled(construct', type')
  /\ UNCHANGED point

FindMutation ==
  /\ stage = "compiled"
  /\ \E m \in Mutators : \E p \in m.patterns :
       CanMutate(m, p, instruction) /\ point' = [mutator |-> m, pattern |-> p]
  /\ stage' = "found"
  /\ UNCHANGED <<construct, type, instruction>>

\* mutant of IsJunk: the location alone decides
IsJunkByLocation ==
  stage = "found" /\ stage' = "kept" /\ UNCHANGED <<construct, type, instruction, point>>

\* findMutantExpression: an expression with the operator of the mutator at the
\* location of the instruction.
IsJunk ==
  /\ stage = "found"
  /\ stage' = IF point.mutator.kind = construct THEN "kept" ELSE "junk"
  /\ UNCHANGED <<construct, type, instruction, point>>

\* applyMutation.  (A variable that is negated is not in the source of any operator
\* that is kept with that pattern.)
ApplyMutation ==
  /\ stage = "kept"
  /\ instruction' = Mutate(point.pattern, instruction, type)
  /\ stage' = "applied"
  /\ UNCHANGED <<construct, type, point>>

Next == Compile \/ FindMutation \/ IsJunk \/ ApplyMutation

Spec == Init /\ [][Next]_vars

-----------------------------------------------------------------------------

\* what the new operator is compiled to
Replacement ==
  IF point.mutator.to = "" THEN Noop
  ELSE IF point.mutator.to = "42" THEN Literal(42, type)
  ELSE Compiled(<<point.mutator.to, construct[2]>>, type)

Agrees(values) ==
  \A a, b \in values : \A i \in Replacement :
    LET wanted == Run(i, type, a, b)
    IN wanted # Undefined => Run(instruction, type, a, b) = wanted

\* On numbers that are neither negative nor NaN, a mutant computes what the source
\* would with the operator replaced as the mutator says, wherever that is defined:
\* sharing patterns, and ignoring signs, does no harm there.  (A bool that is given
\* 42 gets its lowest bit, which is 0.)
MutantIsTheReplacement ==
  stage = "applied" /\ ~(type = "bool" /\ point.mutator.to = "42") =>
    Agrees({x \in Operands(type) :
              /\ type = "double" => x # NaN
              /\ type \in {"int", "trapping", "unsigned"} => x < TwoTo[W - 1]})

\* An operator on integers, an assignment and a call have one mutation for each of
\* their mutators, no two of which do the same, whatever other mutators match the same
\* instruction; an operator on doubles, one that -ftrapv checks and a call of another
\* kind never more.
OneMutationPerMutator ==
  stage = "compiled" =>
    LET own == {m \in Mutators : m.kind = construct}
        kept == {mp \in UNION {{<<m, p>> : p \in m.patterns} : m \in own} : CanMutate(mp[1], mp[2], instruction)}
    IN /\ Cardinality({Mutate(mp[2], instruction, type) : mp \in kept}) = Cardinality(kept)
       /\ Cardinality(kept) <= Cardinality(own)
       /\ type \notin {"double", "trapping"} /\ instruction.opcode # <<"OtherCall">> => {mp[1] : mp \in kept} = own

\* The same on all numbers, as the descriptions have it ("Replaces * with /").
MutantIsAlwaysTheReplacement == stage = "applied" => Agrees(Operands(type))

\* A mutator is described by what it does.
DescriptionIsTrue == stage = "applied" => Description(point.mutator) = <<construct[1], point.mutator.to>>

=============================================================================
