SPECIFICATION FairSpec
CONSTANTS
    Root = Root  NoCall = NoCall
    review = review  testRun = testRun  search = search
    Calls <- MCCalls
    Caller <- MCCaller
    Background <- MCBackground
    Spilled <- MCNone
    MaxAttempts = 1
    MaxBoots = 3
INVARIANTS
    OpenRowsDriven
    PromisesKept
    FoldedAtOnce
PROPERTIES
    SettlementIntegrates
    OutcomesHeld
    RecoveredCallHeard
