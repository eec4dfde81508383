SPECIFICATION Spec
CONSTANTS
    NotYet = NotYet
    Runs = {run1, run2}
    Count = 2
    Ids <- SmallIds
    Metadata <- SmallMetadata
    Excluded = {4}
    Copies = {1}
    Corrupt = {3}
    MaxChanges = 1
SYMMETRY Symmetric
INVARIANTS SampleIsLowest SampledOnce OneRunPerDestination ManifestIsTrue
