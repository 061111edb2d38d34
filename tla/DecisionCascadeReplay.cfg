SPECIFICATION Spec
CONSTANTS
    NumDecides = 2
    Entity = {1, 2}
    Rels = {"orders", "gates"}
    Key = {1, 2}
    Rows <- MCRows
    NoRow = NoRow
    Source <- ExcludingSource
    Proposal <- MCProposal
    Priority <- MCPriority
    Guard <- MCGuard
    ValueOf <- MCValueOf
    Value <- MCValue
    Tie <- MCTie
    None = None
    MaxOps = 2
INVARIANTS Replayable
