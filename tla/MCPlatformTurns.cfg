CONSTANTS
    Messages = {m1, m2}
    Parkable = {m1, m2}
    MaxResume = 2
    MaxDelivery = 2
    NoOne = NoOne
SPECIFICATION FairSpec
INVARIANTS
    TypeOK
    NothingLost
    RetriesBounded
PROPERTY OwedSettles
