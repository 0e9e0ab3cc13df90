\* Every call asks at most once, so the state space is finite without a bound.
SPECIFICATION FairSpec
CONSTANTS
    a1 = a1
    a2 = a2
    a3 = a3
    q1 = q1
    q2 = q2
    s1 = s1
    s2 = s2
    NoCall = NoCall
    Calls <- MCCalls
    Approvals <- MCApprovals
    Sessions <- MCSessions
    SessionOf <- MCSessionOf
CHECK_DEADLOCK FALSE
INVARIANTS
    TypeOK
    OnePromptOfAKind
    RevokedNeverPrompt
    RejectedOnlyByCancel
    ScreensMatchPending
PROPERTIES
    EveryAskSettles
