CONSTANTS
    Ids = {1, 2, 3, 9}
    Nodes = {1, 2, 3}
    Relations = {"CALLS", "INHERITS"}
    Pool <- Cyclic
    Seedings = {{1}, {3, 1}, {2, 9}, {9}}
    Depths = {0, 1, 2, 3}
    NoPath = NoPath

SPECIFICATION Spec

CHECK_DEADLOCK FALSE
INVARIANT TypeOK
INVARIANT ReachedByWalks
INVARIANT BoundedSearchIsExact
PROPERTY QueryReturns
