--------------------------- MODULE MutatorsFactory ---------------------------
(***************************************************************************)
(* From the names of mutators and groups in the configuration to the       *)
(* mutators the driver runs (lib/Mutators/MutatorsFactory.cpp).  The       *)
(* result is sorted by name: here it is the set.                           *)
(***************************************************************************)
EXTENDS Integers, SequencesExt

CONSTANTS
  Names,     \* what the configuration may name
  MaxNames   \* at most so many at once

VARIABLES
  called,    \* mutators() was
  wanted,    \* groups of the call
  ignored,   \* its ignoreGroups
  mapping,   \* mutatorsMapping: the names of the mutators that are there
  result,    \* the mutators it returned
  warnings   \* the names it warned about; "" is "No valid mutators specified."

vars == <<called, wanted, ignored, mapping, result, warnings>>

Calls      == {"cxx_remove_void_call", "cxx_replace_scalar_call"}
Constants  == {"cxx_assign_const", "cxx_init_const"}
BitAssigns == {"cxx_and_assign_to_or_assign", "cxx_or_assign_to_and_assign", "cxx_xor_assign_to_or_assign",
               "cxx_lshift_assign_to_rshift_assign", "cxx_rshift_assign_to_lshift_assign"}
Assigns    == {"cxx_add_assign_to_sub_assign", "cxx_sub_assign_to_add_assign", "cxx_mul_assign_to_div_assign",
               "cxx_div_assign_to_mul_assign", "cxx_rem_assign_to_div_assign"}
Increments == {"cxx_pre_inc_to_pre_dec", "cxx_post_inc_to_post_dec"}
Decrements == {"cxx_pre_dec_to_pre_inc", "cxx_post_dec_to_post_inc"}
Arithmetic == {"cxx_minus_to_noop", "cxx_add_to_sub", "cxx_sub_to_add", "cxx_mul_to_div", "cxx_div_to_mul",
               "cxx_rem_to_div"}
Bits       == {"cxx_bitwise_not_to_noop", "cxx_and_to_or", "cxx_or_to_and", "cxx_xor_to_or",
               "cxx_lshift_to_rshift", "cxx_rshift_to_lshift"}
Logicals   == {"cxx_logical_and_to_or", "cxx_logical_or_to_and", "cxx_remove_negation"}
Comparison == {"cxx_eq_to_ne", "cxx_ne_to_eq", "cxx_le_to_gt", "cxx_lt_to_ge", "cxx_ge_to_lt", "cxx_gt_to_le"}
Boundary   == {"cxx_le_to_lt", "cxx_lt_to_le", "cxx_ge_to_gt", "cxx_gt_to_ge"}

GroupsMapping == [
  cxx_calls |-> Calls, cxx_const_assignment |-> Constants, cxx_bitwise_assignment |-> BitAssigns,
  cxx_arithmetic_assignment |-> Assigns, cxx_increment |-> Increments, cxx_decrement |-> Decrements,
  cxx_arithmetic |-> Arithmetic, cxx_bitwise |-> Bits, cxx_logical |-> Logicals,
  cxx_comparison |-> Comparison, cxx_boundary |-> Boundary,
  cxx_assignment |-> {"cxx_bitwise_assignment", "cxx_arithmetic_assignment", "cxx_const_assignment"},
  cxx_all |-> {"cxx_assignment", "cxx_increment", "cxx_decrement", "cxx_arithmetic", "cxx_comparison",
               "cxx_boundary", "cxx_bitwise", "cxx_calls"},
  cxx_default |-> {"cxx_increment", "cxx_arithmetic", "cxx_comparison", "cxx_boundary"},
  experimental |-> {"negate_mutator", "scalar_value_mutator", "cxx_logical"},
  all |-> {"cxx_all", "experimental"}]

Registered ==
  UNION {Calls, Constants, BitAssigns, Assigns, Increments, Decrements, Arithmetic, Bits, Logicals,
         Comparison, Boundary, {"negate_mutator", "scalar_value_mutator"}}

-----------------------------------------------------------------------------

Words == Names \union Registered \union DOMAIN GroupsMapping

ExpandGroup[group \in Words] ==
  IF group \notin DOMAIN GroupsMapping THEN {group}
  ELSE UNION {ExpandGroup[member] : member \in GroupsMapping[group]}

ExpandGroups(groups) == UNION {ExpandGroup[group] : group \in groups}

Init ==
  /\ called = FALSE
  /\ wanted = {} /\ ignored = {}
  /\ mapping = {}
  /\ result = {}
  /\ warnings = {}

\* mutant of Selected: ignored names are taken as they are
SelectedButNamed(groups, ignore) ==
  ExpandGroups(IF groups = {} THEN {"cxx_default"} ELSE groups) \ ignore

Selected(groups, ignore) ==
  ExpandGroups(IF groups = {} THEN {"cxx_default"} ELSE groups) \ ExpandGroups(ignore)

\* The mutators that are returned are moved out of the mapping.
Mutators(groups, ignore) ==
  LET there == Selected(groups, ignore) \cap Registered
      unknown == Selected(groups, ignore) \ Registered
  IN /\ ~ called /\ called' = TRUE
     /\ wanted' = groups /\ ignored' = ignore
     /\ result' = there
     /\ mapping' = Registered \ there
     /\ warnings' = unknown \cup (IF there = {} THEN {""} ELSE {})

Requests == {S \in SUBSET Names : Cardinality(S) <= MaxNames}

Next == \E groups, ignore \in Requests : Mutators(groups, ignore)

Spec == Init /\ [][Next]_vars

-----------------------------------------------------------------------------
(* Properties *)

\* mutators that a group stands for: those at the ends of the paths that lead from it
Under(groups) ==
  LET Step(S) == S \cup UNION {GroupsMapping[g] : g \in S \cap DOMAIN GroupsMapping}
  IN Step(Step(Step(Step(groups)))) \ DOMAIN GroupsMapping

\* The mutators returned are those of the groups, or of cxx_default if none is named,
\* without those of the ignored groups, however deep either is nested, and all of them
\* exist: every member of "all" was made, and no mutator is in no group.  A warning
\* names something the user wrote, never a member of a group, and there is the general
\* one exactly if there is nothing to do.
SelectionIsExact ==
  /\ mapping \subseteq Under({"all"})
  /\ called =>
       /\ result = (Under(IF wanted = {} THEN {"cxx_default"} ELSE wanted) \ Under(ignored)) \cap Under({"all"})
       /\ "" \in warnings <=> result = {}
  /\ warnings \ {""} \subseteq wanted \ DOMAIN GroupsMapping

=============================================================================
