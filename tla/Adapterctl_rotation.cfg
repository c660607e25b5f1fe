SPECIFICATION Spec
CONSTANTS
    MaxCommands = 3
    MaxRows = 1
INVARIANT RotationTakesEffect
CHECK_DEADLOCK FALSE
