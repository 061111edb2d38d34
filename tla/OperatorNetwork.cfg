SPECIFICATION FairSpec
CONSTANTS
    NumOps <- MCNumOps
    Kind <- MCKind
    Inputs <- MCInputs
    Relation <- MCRelation
    Outputs <- MCOutputs
    Rels = {"orders", "parents"}
    Key = {1, 2}
    Rows <- MCRows
    Row <- MCRow
    Pass <- MCPass
    KeyOf <- MCKeyOf
    Merge <- MCMerge
    GroupOf <- MCGroupOf
    AggOf <- MCAggOf
    NoRow = NoRow
    NoOp = 0
    Quantum = 2
    CollectLimit = 3
    MaxOps = 2
INVARIANTS TypeOK NoDeltaLeftBehind NetworkMaintained AcceptedIsLawful
PROPERTIES GroupsRunOnce BatchEnds
