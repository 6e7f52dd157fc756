------------------------------ MODULE Severity ------------------------------
(***************************************************************************)
(* The severity of an analysis (services/lens_builder.py): the weights of  *)
(* the rules it matches or, when they come to nothing and the scene is     *)
(* suspicious, what its hint or its confidence gives.                      *)
(*                                                                         *)
(* A number is counted in tenths and says whether it is a float; booleans  *)
(* are the integers 0 and 1.  A field the result does not have is Absent,  *)
(* as is the null of a condition.                                          *)
(***************************************************************************)
EXTENDS Integers, FiniteSetsExt

CONSTANT Absent

Whole(n) == [tenths |-> 10 * n, float |-> FALSE]
Tenth(n) == [tenths |-> n, float |-> TRUE]

Truthy(x) == x # Absent /\ x.tenths # 0

MatchesCondition(condition, result) ==
    LET field  == IF condition.field = "suspicious" THEN "is_suspicious"
                                                    ELSE condition.field
        actual == IF field \in DOMAIN result THEN result[field] ELSE Absent
        present == actual # Absent
    IN  \/ /\ condition.op = "eq"
           /\ \/ actual = condition.value
              \/ /\ present /\ condition.value # Absent
                 /\ actual.tenths = condition.value.tenths
        \/ condition.op = "gte" /\ present /\ actual.tenths >= condition.value.tenths

WeightOf(result, rules) ==
    MapThenSumSet(LAMBDA rule : rule.severity_weight,
                  { rule \in rules : MatchesCondition(rule.condition, result) })

\* Mutant: the lower bound is missing.
HintedBelow(hint) ==
    IF hint.float THEN (hint.tenths * 3) \div 10 ELSE hint.tenths \div 10

\* int(hint * 3), at least 1, of a float; int(hint) of anything else.
Hinted(hint) ==
    IF hint.float
    THEN IF (hint.tenths * 3) \div 10 > 1 THEN (hint.tenths * 3) \div 10 ELSE 1
    ELSE hint.tenths \div 10

\* vlm_result.get("severity_hint") or vlm_result.get("confidence_score", 1)
HintOf(result) ==
    IF Truthy(result.severity_hint) THEN result.severity_hint
    ELSE IF result.confidence_score = Absent THEN Whole(1)
    ELSE result.confidence_score

ComputeSeverityScore(result, rules) ==
    LET score == WeightOf(result, rules)
    IN  IF score = 0 /\ Truthy(result.is_suspicious) THEN Hinted(HintOf(result))
                                                     ELSE score

=============================================================================
