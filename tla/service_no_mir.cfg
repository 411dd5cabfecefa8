\* The same without Mir: the tracker gives up and ends its thread at once.
CONSTANTS
    MaxOverlays = 1
    Addresses = {a1}
    NoAddress = NoAddress
    Nothing = Nothing
    MirUp = FALSE
    Works <- MC_Works
    Signals <- MC_Signals
SPECIFICATION FairSpec
CHECK_DEADLOCK FALSE
PROPERTY QuitReturns
