SPECIFICATION Spec
CONSTANTS
    Session = {s1, s2}
    Node = {n1}
    NoOne = NoOne
    Gc = Gc
    MaxSeq = 2
    MaxPacks = 3
    MaxEpoch = 3
    Window = FALSE
SYMMETRY Symmetry
INVARIANTS TypeOK HeadResolvable CacheResolvable VouchSound
