\* As Namespace.cfg: a directory with an open file is enough.
CONSTANTS
    Names = {a, b}
    MaxInode = 3
    MaxLookups = 2
    MaxOpens = 1
SPECIFICATION Spec
SYMMETRY NameSymmetry
INVARIANT MountStays
CHECK_DEADLOCK FALSE
