SPECIFICATION Spec
CONSTANTS
    Session = {s1, s2}
    NumChunks = 2
    Version = {"v1", "v2"}
    MaxRevision = 2
    MaxWrites = 3
    MaxCrashes = 2
SYMMETRY Symmetric
INVARIANTS TypeOK StagedUntilCommitted CommittedOnce
