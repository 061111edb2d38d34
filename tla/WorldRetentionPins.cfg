SPECIFICATION Spec
CONSTANTS
    Session = {s1, s2}
    MaxSeq = 2
    MaxPins = 1
    KeepAll = KeepAll
    Keeps = {KeepAll, 0, 1, 2}
SYMMETRY Symmetry
INVARIANT AnchorSurvives
