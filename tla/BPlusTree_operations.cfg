\* Six keys with up to two rows each: three levels, runs of equal keys that fit a leaf.
SPECIFICATION Spec
CONSTANTS
    r1 = r1
    r2 = r2
    Key <- Keys6
    Rid <- TwoRids
    kLeafMaxKeys = 4
    kInternalMaxKeys = 2
SYMMETRY RidSymmetry
INVARIANTS WellFormed SearchIsExact ScanIsExact Balanced
VIEW TreeView
