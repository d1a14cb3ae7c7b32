SPECIFICATION Spec
CONSTANTS
    Root = root
    Main = main
    Process = {main, p}
    Stack = {s, t}
    Data = {a, b}
    HeldMoves = TRUE
SYMMETRY Symmetry
INVARIANTS
    NothingLost
