\* A notice is given up and nothing tells.
CONSTANTS
    n1 = n1
    n2 = n2
    d1 = d1
    c1 = c1
    c2 = c2
    Decision = {d1}
    Config = {c1, c2}
    DecisionOf <- MCDecisionOf
    Notice = {n1}
    MaxRetries = 3
SPECIFICATION Spec
PROPERTIES
    FailureIsRecorded
