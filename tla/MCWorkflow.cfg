SPECIFICATION Spec
CONSTANTS
    plan = plan  build = build
    Node <- MCNode
    MaxRun = 1
    MaxBoots = 2
    MaxAttempts = 1
INVARIANTS
    TypeOK
    AfterDependencies
    EngineAwake
    JournalCovers
    StopReachesAll
PROPERTIES ImplementsDagRun
CHECK_DEADLOCK FALSE
