CONSTANTS
    anna = anna
    ben = ben
    Nobody = Nobody
    Accounts = {anna, ben}
    MaxScreens = 2
    MaxCalls = 1
SPECIFICATION Spec
INVARIANTS LoginHasWindow
CHECK_DEADLOCK FALSE
