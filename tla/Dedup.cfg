\* Two blocks, the two writer threads of config.yaml and three calls of dedup: a
\* block is found again while it is queued, popped, written and uncached, and two
\* blocks are written side by side.
\* No deadlock check: clients may stop calling, the counter of dedup calls ends
\* them, and the garbage collector's thread may have died.
CONSTANTS
    Hashes = {h1, h2}
    Workers = {w1, w2}
    Stores = {d0}
    FirstStore = d0
    Small = {h1}
    SmallDbOpens = TRUE
    WritesMayFail = TRUE
    MaxDedups = 3
SPECIFICATION SafetySpec
SYMMETRY WorkerSymmetry
INVARIANTS TypeOK OneWriterPerBlock WriterFindsBlock NoBlockLost ReadSucceeds
PROPERTY ImplementsBlockStore
CHECK_DEADLOCK FALSE
