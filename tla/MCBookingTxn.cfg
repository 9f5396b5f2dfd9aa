\* Three requests of one organization with one resource.
SPECIFICATION SliceSpec
CONSTANTS
    r1 = r1
    r2 = r2
    r3 = r3
    chair = chair
    Requests <- ThreeRequests
    Resources <- Chair
    Slots <- CrossingAndNext
    Kinds <- AllKinds
    MaxSerialization = 3
    MaxReference = 2
    MaxToken = 2
    MaxOrgChanges = 1
    MaxLost = 1
SYMMETRY Symmetry
INVARIANTS AnswersConsistent ConflictHasWinner
PROPERTIES ImplementsCalendar ClosedOrganizationKeepsBookings CancellationIsFinal
