------------------------- MODULE MCDecisionLifecycle -------------------------
(***************************************************************************)
(* Instances of WeighedDecisions for TLC.  Every task delivers its own     *)
(* evidence except in MCRepeated, where two tasks deliver the same one.    *)
(* Time is counted in units: a window of 2 separates captures 0 and 1,     *)
(* which share a decision, from 3, which does not fit one that begins at 0.*)
(***************************************************************************)
EXTENDS WeighedDecisions, TLC

CONSTANTS t1, t2, t3, t4, e1, e2, e3, e4, r1, r2, q1

MCEvidenceOf == t1 :> e1 @@ t2 :> e2 @@ t3 :> e3
MCRepeated   == t1 :> e1 @@ t2 :> e1 @@ t3 :> e3 @@ t4 :> e4

\* e3 is late for the window of e1, the others fit it
MCCapturedAt == [e \in Evidence |-> IF e = e1 THEN 0 ELSE IF e = e3 THEN 3 ELSE 1]
\* all fit one window
MCTogether   == [e \in Evidence |-> IF e = e1 THEN 0 ELSE IF e = e2 THEN 1 ELSE 2]

\* What the analyses say: all scenes are suspicious, with little confidence, a
\* hint or none, and e3 matches the rule that asks for much confidence.
Analysis(hint, confidence) ==
    [ is_suspicious |-> Whole(1), severity_hint |-> hint,
      confidence_score |-> confidence ]
MCResult == [e \in Evidence |->
    IF e = e1 THEN Analysis(Absent, Tenth(2))
    ELSE IF e = e2 THEN Analysis(Whole(1), Tenth(3))
    ELSE IF e = e3 THEN Analysis(Absent, Tenth(8))
    ELSE Analysis(Absent, Absent)]
MCRules == [e \in Evidence |->
    { [ condition |-> [field |-> "confidence_score", op |-> "gte", value |-> Tenth(5)],
        severity_weight |-> 4 ],
      [ condition |-> [field |-> "persons", op |-> "gte", value |-> Whole(1)],
        severity_weight |-> 2 ] }]
MCSeverity == [e \in Evidence |-> ComputeSeverityScore(MCResult[e], MCRules[e])]

\* what SuspicionWeighs needs
ASSUME MCWeighs == NoNegativeWeight /\ HintsWeigh

MCOneRegion  == [e \in Evidence |-> r1]
MCTwoRegions == [e \in Evidence |-> IF e = e4 THEN r2 ELSE r1]

\* the watchers disagree
MCDispositions == [q \in Request |-> IF q = q1 THEN {"true_positive"}
                                            ELSE {"false_positive"}]

=============================================================================
