\* Two datastores: a read goes to the store of the entry made in advance.
\* No deadlock check: clients may stop calling, the counter of dedup calls ends
\* them, and the garbage collector's thread may have died.
CONSTANTS
    Hashes = {h1}
    Workers = {w1}
    Stores = {d0,d1}
    FirstStore = d0
    Small = {h1}
    SmallDbOpens = FALSE
    WritesMayFail = FALSE
    MaxDedups = 3
SPECIFICATION SafetySpec
INVARIANT ReadSucceeds
CHECK_DEADLOCK FALSE
