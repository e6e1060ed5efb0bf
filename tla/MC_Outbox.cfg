SPECIFICATION Spec
CONSTANTS
    e1 = e1
    e2 = e2
    e3 = e3
    i1 = i1
    i2 = i2
    Event <- MCEvents
    Instance <- MCInstances
    Take = 2
    MaxTime = 2
    MaxCrashes = 1
    MaxFaults = 2
    NoEvent = NoEvent
SYMMETRY Symmetry
INVARIANTS
    TypeOK
    OnlyCommittedPublished
    MarkedWasPublished
    PublishedInOrder
    DuplicatesNeedAFault
CHECK_DEADLOCK FALSE
