CONSTANTS
    Sources = {1, 2}
    None = None
SPECIFICATION FairSpec
INVARIANTS
    VerifiedBeforePublished
    NeverUnsupervised
    NothingLeftBehind
PROPERTIES
    MisroutedStops
    CancelReturns
