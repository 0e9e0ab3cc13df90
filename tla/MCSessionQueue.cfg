SPECIFICATION Spec
CONSTANTS
    Messages = {m1, m2, m3}
    None = None
    MaxExits = 2
SYMMETRY Symmetry
INVARIANTS NothingLost OneCopy
PROPERTIES ImplementsMailbox
CHECK_DEADLOCK FALSE
