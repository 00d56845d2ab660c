CONSTANTS
    Clients = {0, 1}
    mBatchSize = 2
    Threshold = 2
    MaxPerClient = 3
    MaxWidth = 4
    MaxDepth = 3
    MaxInputs = 1
    MaxAdds = 2
    MaxMults = 3
    MaxOutputs = 1
    MaxLayers = 2
SPECIFICATION FSpec
INVARIANTS
    SlotIsFlat
    OwnShare
    LinearRight
    FromConfigRight
CHECK_DEADLOCK FALSE
