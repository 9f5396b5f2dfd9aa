\* Members, invitations and links of one organization.
SPECIFICATION SliceSpec
CONSTANTS
    None = None
    p1 = p1
    p2 = p2
    r1 = r1
    r2 = r2
    i1 = i1
    i2 = i2
    Users <- ThreeUsers
    Owner = 1
    Resources <- TwoResources
    Invitations <- TwoInvitations
    Requests <- TwoRequests
    Events = {"delivery", "expiry", "booking", "closing"}
SYMMETRY Symmetry
INVARIANTS TeamConsistent AlwaysOwned
PROPERTIES AuthorizedAtCommit SettledInvitationsFinal
