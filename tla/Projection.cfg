SPECIFICATION Spec
CONSTANTS
    MaxSequence = 3
    Sizes <- MCSizes
    Policies <- MCPolicies
    Views <- MCViews
    MaxOutages = 1
    MaxFailures = 1
INVARIANT FoldedOnce
PROPERTIES NeverBack Converges
CHECK_DEADLOCK FALSE
