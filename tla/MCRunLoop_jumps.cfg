SPECIFICATION FairSpec
CONSTANTS
    low = low
    mid = mid
    high = high
    peer = peer
    LowOp = "plain"
    Process = {low, mid, high, peer}
    Priority <- MCPriority
    Code <- MCCode
    Target = high
    NoInsn = NoInsn
    NoProcess = NoProcess
INVARIANTS
    TypeOK
    OwnInstruction
    SavedInPlace
    NothingLeftBehind
PROPERTIES
    DueGetsCpu
    SampleTaken
