SPECIFICATION Spec
CONSTANTS
    Items <- MCItems
INVARIANTS
    TypeOK
    OneOwner
    PairsLikeBrackets
    OnlyLeftOversAdopted
CHECK_DEADLOCK FALSE
