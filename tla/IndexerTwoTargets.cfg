CONSTANTS
    Files = {"a", "b", "m"}
    Names = {"f", "g"}
    Contents <- TwoTargetsContents
    NoContent = NoContent
    NoUid = NoUid
    NoEmb = NoEmb
    InitForm <- NoPackages
    Versions <- TwoTargetsVersions
    Flaky <- None
    HasEmbedder = FALSE
    Interrupts = FALSE
    TornEdges = FALSE

SPECIFICATION Spec

CHECK_DEADLOCK FALSE
PROPERTY PreciseEdgeSurvives
