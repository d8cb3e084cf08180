CONSTANTS
    anna = anna
    ben = ben
    Nobody = Nobody
    Accounts = {anna, ben}
    MaxScreens = 4
    MaxCalls = 3
SPECIFICATION Spec
INVARIANTS TypeOK SignedInIsLetIn GuestsHaveCancelled
CHECK_DEADLOCK FALSE
SYMMETRY AccountSymmetry
