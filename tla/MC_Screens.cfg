SPECIFICATION ScreensSpec
CONSTANTS
    Trips <- MCTrips
    Forgets <- MCForgets
    Ignored <- MCIgnored
    MaxCalls = 2
    NoData = NoData
INVARIANT
    OwnChangesShow
