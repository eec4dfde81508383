\* Five sources, two workers, 1,368 manifests.
SPECIFICATION Spec
CONSTANTS
    N = 5
    Workers = 2
    NotYet = NotYet
    p1 = p1
    p2 = p2
    p3 = p3
    g1 = g1
    Pixels <- MCPixels
    SourceGroups <- MCSourceGroups
    Manifests <- MCManifests
    assign_split <- MCAssignSplit
CHECK_DEADLOCK FALSE
INVARIANTS
    EachSourceReported
    GroupsAreComponents
    NoCopyCrossesSplits
PROPERTIES
    PreparationEnds
