SPECIFICATION Spec
CONSTANTS
    Unit = {u1, u2, u3}
    None = None
    MaxVersion = 4
INVARIANTS
    TypeOK
    OrderIsWhole
    DeletedOnce
PROPERTIES
    NoBlindOverwrite
CHECK_DEADLOCK FALSE
