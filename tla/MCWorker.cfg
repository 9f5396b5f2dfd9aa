\* Requests, schedulers and the e-mail handler on the rows of one booking; two
\* workers: the outbox and its consumers.
SPECIFICATION SliceSpec
CONSTANTS
    x1 = x1
    x2 = x2
    s1 = s1
    s2 = s2
    h1 = h1
    Free = Free
    None = None
    Requests <- Both
    Kinds = {"cancel", "no_show", "revert", "move", "forget_email", "suspend", "unsuspend"}
    Schedulers <- TwoSchedulers
    Handlers <- OneHandler
    Starts = {2, 3}
    Lead = 1
    MaxClock = 2
    MaxSerialization = 2
    MaxAttempts = 2
SYMMETRY Symmetry
INVARIANTS RowsConsistent SentWhileTrue OutboxConsistent
PROPERTIES DispatchFits MailsOneAtATime
