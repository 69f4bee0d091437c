SPECIFICATION Spec
CONSTANT
    MaxAddresses = 3
INVARIANT
    UsesNothingReleased
CHECK_DEADLOCK FALSE
