SPECIFICATION Spec
CONSTANTS
    r1 = r1
    r2 = r2
    NoRow = NoRow
    Rows = {r1, r2}
    Forms = {"content", "template", "flags", "limits"}
    Stored = {r1, r2}
    MaxChanges = 2
SYMMETRY EditingSymmetry
INVARIANTS
    TypeOK
    OwnChangeShown
PROPERTIES
    OverwritesExplained
