SPECIFICATION Spec
CONSTANTS
    unset = unset
    NumBuf = 2
    NumBlocks = 5
    Interruptible <- AnyTime
    Unset = unset
INVARIANT NoSharedBuffer
