CONSTANTS
    Files = {"a", "m"}
    Names = {"f", "g"}
    Contents <- EmbedContents
    NoContent = NoContent
    NoUid = NoUid
    NoEmb = NoEmb
    InitForm <- NoPackages
    Versions <- EmbedVersions
    Flaky <- None
    HasEmbedder = TRUE
    Interrupts = TRUE
    TornEdges = FALSE

SPECIFICATION Spec

CHECK_DEADLOCK FALSE

INVARIANT EmbeddingsCurrent
INVARIANT ForcedRunRebuilds
