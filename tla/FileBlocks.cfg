\* Three writes of up to three bytes, cut into blocks in every way, so that a file
\* has up to five blocks and a block up to three bytes.
\* No deadlock check: the counter of writes ends the behaviour.
CONSTANTS
    MaxWrite = 3
    MaxWrites = 3
    MaxSize = 5
SPECIFICATION Spec
INVARIANTS TypeOK WrittenOnceReadsBack
CHECK_DEADLOCK FALSE
