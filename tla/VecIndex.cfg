CONSTANTS
    Ids = {1, 2}
    Uids = {u, v}
    Texts = {1}
    Models = {"A", "B"}
    DimOf <- TwoDims
    Kinds = {"vec", "plain"}
    Rebuilds = TRUE
    Crashes = TRUE
    NoNode = NoNode
    NoVec = NoVec
    NoDim = NoDim
    NoModel = NoModel

SPECIFICATION Spec
SYMMETRY Swaps
ACTION_CONSTRAINT CutFromOrder

CHECK_DEADLOCK FALSE
INVARIANT TypeOK
PROPERTY RebuildRepairs
PROPERTY StaysInSync
