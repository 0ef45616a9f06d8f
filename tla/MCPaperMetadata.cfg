CONSTANTS
    Clients = {c1, c2}
    Titles = {t1, t2}
    Cascade <- Crossref
    MaxAttempts = 2
    None = None
    NoTitle = NoTitle

SPECIFICATION MetadataSpec

CONSTRAINT Bounded
SYMMETRY Symmetry

INVARIANTS
    TitleIsSelected
    BudgetKept
