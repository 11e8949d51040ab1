\* One block, one writer, one datastore: the unmount alone loses the block.
CONSTANTS
    Hashes = {h1}
    Files = {f1}
    Workers = {w1}
    Main = main
    Gc = gc
    Stores = {s0}
    FirstStore = s0
SPECIFICATION Spec
INVARIANT UnmountFlushes
