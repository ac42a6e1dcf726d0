SPECIFICATION Spec
CONSTANTS
    Ids = {e1}
    Jobs = {j1}
    NoJob = NoJob
    Editors = {h1, h2}
    Findings = {f1, f2}
    NoFinding = NoFinding
    Fields = {"title", "source_url"}
    Values = {A, B}
    NoValue = NoValue
    NoId = NoId
    Editable = {"title", "source_url"}
    f1 = f1
    f2 = f2
    s1 = s1
    A = A
    B = B
    Said <- MCSaid
    SourceOf <- MCSourceOf
    ExternalId <- MCExternalId
SYMMETRY Symmetry
CHECK_DEADLOCK FALSE
INVARIANTS ClearRestoresSource
