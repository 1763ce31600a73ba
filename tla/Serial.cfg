SPECIFICATION MCSpec
CONSTANTS
    Capacity = 3
    rxQueueMin = 2
    MaxRead = 2
    Bytes = {x, y}
    Unset = Unset
    txBufferSize = 2
    MaxTransfer = 2
    MaxWrite = 5
    MaxTotal = 8
    Junk = Junk
    x = x  y = y
INVARIANTS ReaderServed InOrder
PROPERTIES RefinesTailDrop ReaderReturns WriterReturns
CHECK_DEADLOCK FALSE
