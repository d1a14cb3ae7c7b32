SPECIFICATION Spec
CONSTANTS
    low = low
    mid = mid
    high = high
    peer = peer
    LowOp = "send"
    Process = {low, mid, high, peer}
    Priority <- MCPriority
    Code <- MCCode
    Target = low
    NoInsn = NoInsn
    NoProcess = NoProcess
INVARIANTS
    OwnInstruction
