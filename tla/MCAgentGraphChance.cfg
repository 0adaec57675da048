SPECIFICATION FairSpec
CONSTANTS
    Flaws = {"phantom", "fabrication", "sycophancy", "action_intent"}
    MaxFlaws = 2
    Limit <- MCLimit
PROPERTY LastChanceIsGiven
CHECK_DEADLOCK FALSE
