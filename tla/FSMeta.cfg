\* FSMeta: only the main task uses it. Two keys; six updates let an update fall
\* in every window of a commit, and a deletion and a crash after each.
\* No deadlock check: the counter of updates ends the behaviour.
CONSTANTS
    Keys = {k1, k2}
    Threads = {main}
    Committers = {main}
    Deletes = TRUE
    Replicated = TRUE
    Crashes = TRUE
    MaxSets = 6
SPECIFICATION Spec
INVARIANTS TypeOK  NeverAhead 
CHECK_DEADLOCK FALSE
