CONSTANTS
    Old = Old
    New = New
    Newer = Newer
    NoOne = NoOne
    Openers = {Old, New}
    Last = 6
    Latest <- SameBuild
    ReadFirst <- ColumnAdds

SPECIFICATION Spec

INVARIANT NeverLockedAtOnce

CHECK_DEADLOCK FALSE
