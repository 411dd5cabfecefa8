\* Two overlays whose sessions may share an address, Mir there.
CONSTANTS
    MaxOverlays = 2
    Addresses = {a1, a2}
    NoAddress = NoAddress
    Nothing = Nothing
    MirUp = TRUE
    Works <- MC_Works
    Signals <- MC_Signals
SPECIFICATION FairSpec
CHECK_DEADLOCK FALSE
INVARIANTS
    TypeOK
    NothingStray
    ShutdownOrder
PROPERTIES
    StopsOnlyEnded
    ImplementsWorkQueue
    AddReturns
    SessionFollows
    HelperFollows
    ServiceExits
