SPECIFICATION MemorySpec
CONSTANTS
    Window = 1
    BatchSize = 2
    FailureLimit = 1
    ChurnLimit = 2
    Verbatim = {1}
    Jobs = {j1, j2}
    Rolls = {r1}
    MaxTurns = 4
    Past = 1
    MaxEvents = 1
SYMMETRY Symmetry
INVARIANTS SummaryCoversBoundary RestartCovers NoReplyOverlooked CleanMeansSaved
PROPERTY BoundaryNeverRewinds
CHECK_DEADLOCK FALSE
