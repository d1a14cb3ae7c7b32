SPECIFICATION Spec
CONSTANTS
    error = error
    cannot = cannot
    Exception = {d, e}
    Class = {error, cannot}
    Handles <- MCHandles
    Outcomes = {"return", "resume", "retry"}
    KillScope = "settled"
    DeadReturnScope = "called"
    CannotReturn = cannot
    MaxSerial = 9
SYMMETRY Symmetry
INVARIANTS
    TypeOK
    HandlerNotReentered
    ExceptionIsCurrent
    UnwindsArrive
PROPERTIES
    EnsureRunsOnce
    EnsureNotSkipped
