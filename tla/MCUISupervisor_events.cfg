SPECIFICATION FairSpec
CONSTANTS
    Place = {here, there}
    Outside = Outside
    CursorVisible = FALSE
    MaxPosted = 1
INVARIANTS
    TypeOK
    EdgesAddUp
    CaughtUp
    PresentsCurrent
PROPERTIES
    PumpEnds
    InputArrives
    CloseEndsLoop
