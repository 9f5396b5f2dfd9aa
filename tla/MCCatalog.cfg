\* The catalogue and the publication of one organization.
SPECIFICATION SliceSpec
CONSTANTS
    None = None
    s1 = s1
    s2 = s2
    s3 = s3
    r1 = r1
    r2 = r2
    l1 = l1
    w1 = w1
    w2 = w2
    b1 = b1
    b2 = b2
    q1 = q1
    q2 = q2
    v1 = v1
    v2 = v2
    Services <- ThreeServices
    Resources <- TwoResources
    Links <- OneLink
    Own <- StaffResource
    Writers <- TwoWriters
    Bookers <- TwoBookers
    Requests <- TwoRequests
    Reviewers <- TwoReviewers
    MaxOrder = 3
    MaxEvents = 6
INVARIANTS CatalogConsistent OffersConsistent ReviewsConsistent
PROPERTIES PublishedWhenReady BookedWhileOffered ImplementsPublicationFlow
