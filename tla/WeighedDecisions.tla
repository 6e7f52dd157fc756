-------------------------- MODULE WeighedDecisions --------------------------
(***************************************************************************)
(* Decisions over evidence that the VLM worker has weighed: the severity   *)
(* that the aggregator adds up is the score of an answer of the model      *)
(* under the rules the task had loaded (workers/vlm_analyzer.py).          *)
(***************************************************************************)
EXTENDS DecisionLifecycle, Severity

CONSTANTS Result,  \* [Evidence -> what the model answered]
          Rules    \* [Evidence -> the rules of the mode when it was analysed]

Number == [tenths : Int, float : BOOLEAN]

ScoredFields == {"is_suspicious", "severity_hint", "confidence_score"}

ASSUME WeighedAssumption ==
    \A e \in Evidence :
       /\ IsFiniteSet(Rules[e])
       /\ \A rule \in Rules[e] : rule.severity_weight \in Int
       /\ \A field \in ScoredFields : Result[e][field] \in Number \cup {Absent}
       /\ Severity[e] = ComputeSeverityScore(Result[e], Rules[e])

Suspicious(e) == Truthy(Result[e].is_suspicious)

\* The schemas take any integer for a weight and any number for an answer.  A
\* negative weight cancels others, and int() of a whole number below 1 gives
\* nothing; a float is never worth less than 1, however small it is.
NoNegativeWeight ==
    \A e \in Evidence : \A rule \in Rules[e] : rule.severity_weight >= 0

HintsWeigh ==
    \A e \in Evidence : Suspicious(e) /\ WeightOf(Result[e], Rules[e]) = 0 =>
        \/ HintOf(Result[e]).float
        \/ HintOf(Result[e]).tenths >= Whole(1).tenths

\* Every suspicious scene weighs at least 1 in the decision it is linked to, as
\* long as no two tasks had the decision loaded at the same time: a low
\* confidence is not rounded away on its way into the total.
SuspicionWeighs ==
    \A d \in Task : Committed(d) /\ d \notin overlapped =>
        decisions[d].severity >= Cardinality({ e \in LinksOf(d) : Suspicious(e) })

=============================================================================
