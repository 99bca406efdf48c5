\* The code's poll budget of 50; every call failing or not, tunes of both
\* systems and of an unknown one repeated at will.
CONSTANT PollMax = 50
SPECIFICATION FairSpec
INVARIANTS
    TypeOK
    TunedOnlyWhenLocked
    ReadyAfterTune
    
PROPERTIES
    TuneReturns
    
