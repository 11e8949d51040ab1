\* The root and two more numbers, two names, one to two lookups, links and handles
\* of an inode: a directory with an open file in it, a file renamed over another, a
\* number given again.  Nothing happens once the program has died after its one restart.
CONSTANTS
    Names = {a, b}
    MaxInode = 3
    MaxLookups = 2
    MaxOpens = 1
SPECIFICATION Spec
SYMMETRY NameSymmetry
INVARIANTS TypeOK NamesUnique Reachable OpenKept
CHECK_DEADLOCK FALSE
