SPECIFICATION Spec
CONSTANTS
    Messages = {m1, m2, m3}
    None = None
    MaxExits = 2
SYMMETRY Symmetry
INVARIANT CheckpointHasMarker
CHECK_DEADLOCK FALSE
