CONSTANTS
    v1 = v1
    v2 = v2
    c1 = c1
    c2 = c2
    Values <- MCValues
    Channels <- MCChannels
    Batches <- MCBatches
    MaxValues = 4
SPECIFICATION HistorySpec
INVARIANTS
    HistoryTypeOK
    NothingLost
    SendNeverBlocks
PROPERTIES
    WaitIsAnswered
    ImplementsFlushBarrier
