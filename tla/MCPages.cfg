\* The pages for visitors and for the settings.
SPECIFICATION PagesSpec
CONSTANTS
    None = None
    s1 = s1
    s2 = s2
    r1 = r1
    r2 = r2
    t1 = t1
    t2 = t2
    Unknown = Unknown
    Empty = Empty
    x1 = x1
    x2 = x2
    date = date
    content = content
    Services <- TwoServices
    Resources <- TwoResources
    Times <- TwoTimes
    Fits <- FitApart
    Catalogs <- ThreeCatalogs
    Reach = 1
    LastDay = 1
    MaxChanges = 1
    MaxConfirms = 2
SYMMETRY Symmetry
INVARIANTS SelectionConsistent PagesConsistent
PROPERTIES RepairLeadsOn CancellationStaysShown OnlyErrorsLoseDrafts
CHECK_DEADLOCK FALSE
