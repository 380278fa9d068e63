SPECIFICATION Spec
CONSTANTS
    full = full
    bare = bare
    hidden = hidden
    Rows = {0, 1, 2}
    Items = {full, bare, hidden}
    Filled <- MCFilled
    Number <- MCNumber
    None = None
    MaxChanges = 2
INVARIANTS
    UntouchedRowsExact
    EntriesComeFromOneRow
PROPERTIES
    ReadEnds
