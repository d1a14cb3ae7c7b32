SPECIFICATION Spec
CONSTANTS
    error = error
    cannot = cannot
    Exception = {d, e}
    Class = {error, cannot}
    Handles <- MCHandles
    Outcomes = {"resume", "pass"}
    KillScope = "never"
    DeadReturnScope = "never"
    CannotReturn = cannot
    MaxSerial = 9
PROPERTY
    FallsOffToItsHandler
