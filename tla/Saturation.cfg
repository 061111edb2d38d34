SPECIFICATION FairSpec
CONSTANTS
    Worlds <- MCWorlds
    Start = 1
    Families <- MCFamilies
INVARIANTS VerdictSound CertificatesCheck RunIsUnsaturatedRun ComparisonSound ClosureSound
PROPERTIES AnalysisEnds
CHECK_DEADLOCK FALSE
