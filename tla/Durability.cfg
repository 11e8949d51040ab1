\* One block: every property speaks of one, and of each the threads' steps are the
\* same. The two writers of config.yaml, the main and the persist thread; a block can
\* be in the datastore a new Block names, in another one, and in a third after a
\* second writing.
CONSTANTS
    Hashes = {h1}
    Files = {f1}
    Workers = {w1, w2}
    Main = main
    Gc = gc
    Stores = {s0, s1, s2}
    FirstStore = s0
SPECIFICATION FairSpec
INVARIANTS TypeOK FinalEntryHasBlock KnownBlockExists SettledStays
 
