CONSTANTS
    Text <- Statements
    Modules <- AllModules
    Paths <- ModuleAndPackage
    Names = {"A", "f", "g", "x", "self"}
    NoName = NoName

SPECIFICATION Spec

CHECK_DEADLOCK FALSE
INVARIANT TypeOK
INVARIANT StraightIsNeverWrong
INVARIANT CertainIsFound
