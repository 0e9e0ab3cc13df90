SPECIFICATION FairSpec
CONSTANTS
    t1 = t1  t2 = t2  t3 = t3
    chanA = chanA  chanB = chanB  chanN = chanN  planner = planner  chat = chat
    Turns <- MCTurns
    Channels <- MCChannels
    Parents <- MCParents
    ChannelOf <- MCChannelOf
    ParentOf <- MCParentOf
    Nested <- MCNested
    Cap = 1
    MaxTurns = 1
    MaxHosts = 2
    MaxResets = 0
    MaxReaps = 0
    MaxCrashes = 1
    MaxReleases = 0
    NoHost = NoHost
    NoSpawn = NoSpawn
    NoProc = NoProc
PROPERTIES QueuedTurnRuns
CHECK_DEADLOCK FALSE
