SPECIFICATION FairSpec
CONSTANTS
    unset = unset
    NumBuf = 3
    NumBlocks = 7
    Interruptible <- AnyTimeAtomic
    Unset = unset
INVARIANT NoSharedBuffer
PROPERTIES RefinesFifo Gapless WriterServed
