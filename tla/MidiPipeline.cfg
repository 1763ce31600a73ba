SPECIFICATION FairSpec
CONSTANTS
    unset = unset
    Unset = unset
    BufferSize = 2
    Recovery = 3
INVARIANTS InStep GateFollowsKeyboard
PROPERTIES RefinesLossyFifo GateSettles
