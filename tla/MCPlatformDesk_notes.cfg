\* Two organizations and one decision at a time.
SPECIFICATION Spec
CONSTANTS
    None = None
    o1 = o1
    o2 = o2
    q1 = q1
    q2 = q2
    Organizations <- TwoOrganizations
    Requests <- OneRequest
    MaxChanges = 0
    MaxMoves = 0
SYMMETRY Symmetry
INVARIANTS InternalNotesStayInternal
