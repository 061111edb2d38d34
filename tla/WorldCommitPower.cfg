SPECIFICATION Spec
CONSTANTS
    Session = {s1, s2}
    Key = {k1, k2}
    Ops = {o1}
    MaxSeq = 2
    MaxTail = 1
    NoOne = NoOne
    NoBatch = NoBatch
    MaxFailures = 2
SYMMETRY Symmetry
INVARIANTS TypeOK ExactlyOnce ReceiptsDurable SessionOnHistory IndexExact FreshAckDurable
INVARIANTS AckVisible CrashRecovers HolderProceeds 
PROPERTY ImplementsLog
