SPECIFICATION FairSpec
CONSTANTS
    plan = plan  build = build
    Node <- MCOneNode
    MaxRun = 1
    MaxBoots = 3
    MaxAttempts = 1
PROPERTIES
    RowSettles
    EveryRunReported
CHECK_DEADLOCK FALSE
