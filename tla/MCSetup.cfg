\* Requests for organizations, hours, listings, names and dialogs.
SPECIFICATION SetupSpec
CONSTANTS
    None = None
    Invalid = Invalid
    owner = owner
    staff = staff
    r1 = r1
    k1 = k1
    k2 = k2
    u1 = u1
    u2 = u2
    q1 = q1
    q2 = q2
    t1 = t1
    t2 = t2
    slug1 = slug1
    slug2 = slug2
    open = open
    decided = decided
    o1 = o1
    o2 = o2
    decision = decision
    Users <- TwoUsers
    Admins <- OneAdmin
    Requests <- TwoRequests
    Slugs <- TwoSlugs
    Candidates <- BothSlugs
    Transactions <- TwoTransactions
INVARIANTS ScheduleConsistent OnboardingConsistent DirectoryConsistent DialogsConsistent
SYMMETRY Symmetry
CHECK_DEADLOCK FALSE
