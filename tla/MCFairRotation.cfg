SPECIFICATION Spec
CONSTANTS
    workflow = workflow  chat = chat  review = review
    Producers <- MCProducers
    MaxPushed = 3
INVARIANTS
    QueueExact
    BoundedPassing
    LaneInPushOrder
PROPERTIES
    FruitlessDrainRestores
SYMMETRY Interchangeable
CHECK_DEADLOCK FALSE
