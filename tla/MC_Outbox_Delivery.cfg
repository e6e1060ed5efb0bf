SPECIFICATION FairSpec
CONSTANTS
    e1 = e1
    e2 = e2
    e3 = e3
    i1 = i1
    i2 = i2
    Event <- TwoEvents
    Instance <- MCInstances
    Take = 2
    MaxTime = 1
    MaxCrashes = 1
    MaxFaults = 2
    NoEvent = NoEvent
PROPERTIES
    KeepsPromise
CHECK_DEADLOCK FALSE
