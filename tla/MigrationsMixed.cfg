CONSTANTS
    Old = Old
    New = New
    Newer = Newer
    NoOne = NoOne
    Openers = {Old, New, Newer}
    Last = 3
    Latest <- MixedBuilds
    ReadFirst <- ThirdReads
SPECIFICATION Spec
CHECK_DEADLOCK FALSE
INVARIANT TypeOK
INVARIANT VersionCovered
INVARIANT OpenHasSchema
PROPERTY EveryOpenSettles
