\* The numbered candidates against the check constraint.
SPECIFICATION Spec
CONSTANTS
    MaxName = 6
    MaxBase = 4
    MaxSuggestion = 5
    Tries = 12
INVARIANTS CandidatesAccepted
