--------------------------- MODULE MCBodyInference ---------------------------
(* Instances of BodyInference: small bodies against any solver. *)
EXTENDS BodyInference

Answer(certainty, x, y, residual, lowers) ==
  [certainty |-> certainty, x |-> x, y |-> y, residual |-> residual, lowers |-> lowers]

(* Refutation, ambiguity with and without a hint, and success that binds   *)
(* nothing, an input or an output, outright or on a condition.             *)
MCAnswers ==
  {Answer("No", Open, Open, Proven, FALSE),
   Answer("Maybe", Open, Open, Proven, FALSE),
   Answer("Maybe", "int", Open, Proven, FALSE),
   Answer("Maybe", "Part", Open, Proven, TRUE),
   Answer("Yes", Open, Open, Proven, FALSE),
   Answer("Yes", Open, "Part", Proven, FALSE),
   Answer("Yes", Open, "int", "rest", FALSE)}

Obligation(kind, x, y, slot) ==
  [kind |-> kind, goal |-> "goal", x |-> x, y |-> y, slot |-> slot]

(* An operator whose result is the third variable, as a trait bound and as *)
(* a projection, the same bound on another operand, and a bound between    *)
(* the operand and the result.                                             *)
MCSubmissions ==
  {Obligation("Prove", 1, 3, NoSlot), Obligation("Prove", 2, 3, NoSlot),
   Obligation("Normalize", 2, 3, 3), Obligation("Prove", 2, 2, 3)}
MCMayAwait == {1}

(* The first variable is a literal's. *)
MCDomains == {[v \in 1 .. VarBound |-> IF v = 1 THEN "Integer" ELSE "Any"]}
=============================================================================
