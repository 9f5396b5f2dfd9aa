\* What must end.
SPECIFICATION EndingsSpec
CONSTANTS
    None = None
    Free = Free
    b1 = b1
    b2 = b2
    r1 = r1
    c1 = c1
    c2 = c2
    w1 = w1
    s1 = s1
    h1 = h1
    i1 = i1
    p1 = p1
    p2 = p2
    u1 = u1
    u2 = u2
    q1 = q1
    slug1 = slug1
    slug2 = slug2
    t1 = t1
    t2 = t2
    BookingIds <- TwoBookings
    Resources <- OneResource
    Starts = {2, 3}
    Shapes <- Plain
    Cutoffs = {0}
    Lead = 1
    BatchSize = 1
    MaxTime = 2
    MaxLag = 0
    MaxReminders = 1
    MaxEvents = 2
PROPERTIES RemindersSettle RequestsAreAnswered EventsSettle WaitsEnd
CHECK_DEADLOCK FALSE
