SPECIFICATION Spec
CONSTANTS
    Process = {p1, p2, p3, p4}
    List = {a, b}
    Nil = Nil
INVARIANTS
    TypeOK
    ChainsAreQueues
