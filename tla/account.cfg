SPECIFICATION Spec
CONSTANTS
    Accounts = {a, b}
    Names = {n1, n2}
    NoOne = NoOne
    None = None
    Torn = Torn
    MaxTokens = 2
    MaxCrashes = 1
    MaxSyncs = 1
INVARIANT LoggedOutStaysOut
INVARIANT PresetsComplete
PROPERTY SessionSurvives
SYMMETRY Symmetry
