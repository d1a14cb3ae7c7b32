SPECIFICATION Spec
CONSTANTS
    error = error
    cannot = cannot
    Exception = {d, e}
    Class = {error, cannot}
    Handles <- MCHandles
    Outcomes = {"resume"}
    KillScope = "never"
    DeadReturnScope = "never"
    CannotReturn = cannot
    MaxSerial = 9
INVARIANT
    InProgressOnlyWithin
