\* Two names and three numbers: two files and the second inode of a truncation, or
\* one file and two, when a truncation fails and another begins, also after crashes.
CONSTANTS
    Names = {n1, n2}
    MaxInode = 5
SPECIFICATION Spec
INVARIANTS TypeOK NameFound SecondInodesGone FileWhole  ListingComplete
