\* The real budgets and slot bound; one TSID below the slot bound (only
\* reachable through the TMCC table) and one above it.
CONSTANTS
    SlotCount = 12
    Tsids = {5, 12}
    PollMax = 100
SPECIFICATION FairSpec
INVARIANTS
    TypeOK
    SelectedWhenOk
    NoZeroTsidWritten
PROPERTIES
    SetStreamIdReturns
