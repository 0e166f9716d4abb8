SPECIFICATION FairSpec
CONSTANTS
    w1 = w1  w2 = w2
    generatedIntake = generatedIntake
    Workers = {w1, w2}
    Owners = {generatedIntake}
    OwnerOf <- OneName
    MaxAttempts = 3
    NoOwner = NoOwner
CHECK_DEADLOCK FALSE
INVARIANTS
    TypeOK
    OneAsset
    OnlyScreenedContent
    ObjectOutlivesLosers
PROPERTIES
    ImplementsIntake
    IntakeEnds
