\* The bounds of FileBlocks.cfg.
\* No deadlock check: the counter of writes ends the behaviour.
CONSTANTS
    MaxWrite = 3
    MaxWrites = 3
    MaxSize = 5
SPECIFICATION Spec
INVARIANT AppendedReadsBack
CHECK_DEADLOCK FALSE
