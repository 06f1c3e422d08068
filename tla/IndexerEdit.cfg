CONSTANTS
    Files = {"a", "a/__init__", "m"}
    Names = {"f", "g"}
    Contents <- EditContents
    NoContent = NoContent
    NoUid = NoUid
    NoEmb = NoEmb
    InitForm <- APackage
    Versions <- EditVersions
    Flaky <- None
    HasEmbedder = FALSE
    Interrupts = FALSE
    TornEdges = FALSE
    Unread = Unread
    NoRun = NoRun
SPECIFICATION Spec
CHECK_DEADLOCK FALSE
INVARIANT TypeOK
INVARIANT TokenNeverAhead
INVARIANT PendingResolved
INVARIANT EdgesClaimed
INVARIANT ForcedRunRebuilds
PROPERTY UnambiguousEdgeSurvives
PROPERTY ImplementsIndexSpec
