\* Fair threads: an unused block waits for the collector for ever.
\* No deadlock check: clients may stop calling, the counter of dedup calls ends
\* them, and the garbage collector's thread may have died.
CONSTANTS
    Hashes = {h1}
    Workers = {w1}
    Stores = {d0}
    FirstStore = d0
    Small = {h1}
    SmallDbOpens = FALSE
    WritesMayFail = FALSE
    MaxDedups = 1
SPECIFICATION Spec
PROPERTY UnusedIsReclaimed
CHECK_DEADLOCK FALSE
