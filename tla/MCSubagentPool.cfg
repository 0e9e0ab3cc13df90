SPECIFICATION Spec
CONSTANTS
    t1 = t1  t2 = t2  t3 = t3
    chanA = chanA  chanB = chanB  chanN = chanN  planner = planner  chat = chat
    Turns <- MCTurns
    Channels <- MCChannels
    Parents <- MCParents
    ChannelOf <- MCChannelOf
    ParentOf <- MCParentOf
    Nested <- MCNested
    Cap = 2
    MaxTurns = 1
    MaxHosts = 2
    MaxResets = 1
    MaxReaps = 1
    MaxCrashes = 1
    MaxReleases = 2
    NoHost = NoHost
    NoSpawn = NoSpawn
    NoProc = NoProc
INVARIANTS
    TypeOK
    AdmissionExact
    RoutesLive
    NoDoubleRun
    QueueHoldsWaiting
    NoRunnerOfAnOldEpoch
PROPERTIES
    DrainExhausts
CHECK_DEADLOCK FALSE
