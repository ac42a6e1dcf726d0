SPECIFICATION EventsSpec
CONSTANTS
    Ids = {e1, e2}
    Jobs = {j1, j2, j3}
    NoJob = NoJob
    Editors = {h1, h2}
    Findings = {f1, f2}
    NoFinding = NoFinding
    Fields = {"title", "source_url"}
    Values = {A, B}
    NoValue = NoValue
    NoId = NoId
    Editable = {"title", "source_url"}
    f1 = f1
    f2 = f2
    s1 = s1
    A = A
    B = B
    Said <- MCSaid
    SourceOf <- MCSourceOf
    ExternalId <- MCExternalId
SYMMETRY Symmetry
CHECK_DEADLOCK FALSE
INVARIANTS TypeOK BaselineKept AllOrNothing TwinsExplained
