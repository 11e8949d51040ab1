\* Two datastores of one block and a mirror of two, so that each write meets a full
\* store, a store with room for one and none at all; the two writers of config.yaml.
\* Capacity 5, the least with which the buffer can stall above a fifth of it.
\* Slack 0: sizes are exact, so what goes beyond a limit is the writers' doing.
CONSTANTS
    Capacity = 5
    Workers = {w1, w2}
    NumStores = 2
    NumMirrors = 1
    Limit <- MCLimit
    Slack = 0
    WriteSpread = FALSE
    Replicate = TRUE
SPECIFICATION DSSpec
INVARIANTS DSTypeOK Bounded FillsInOrder NoSpaceOnlyWhenFull  CommittedWhereItSays
 
