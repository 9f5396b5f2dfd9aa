\* The question about unsaved changes against an error of the hours.
SPECIFICATION Spec
CONSTANTS
    None = None
    Unknown = Unknown
    Empty = Empty
    resource = resource
    date = date
    content = content
    Editors <- HoursEditors
    Resources <- OneResource
    Dates <- OneDate
    Hours <- OneContent
    MaxMoves = 1
    MaxSaves = 0
PROPERTIES UnsavedIsAskedAbout
CHECK_DEADLOCK FALSE
