SPECIFICATION Spec
CONSTANTS
    Root = root
    Main = main
    Process = {main, p}
    Stack = {s, t, u}
    Data = {a}
    HeldMoves = FALSE
SYMMETRY Symmetry
INVARIANTS
    TypeOK
    NothingLost
    OldPointersRemembered
