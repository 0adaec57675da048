SPECIFICATION FairSpec
CONSTANTS
    Flaws = {"phantom", "fabrication", "sycophancy", "action_intent"}
    MaxFlaws = 2
    Limit <- MCLimit
INVARIANTS RecoveriesBounded FlaggedTextIsLastResort
PROPERTY RunEnds
CHECK_DEADLOCK FALSE
