SPECIFICATION FairSpec
CONSTANTS
    Iterators <- MCIterators
    End = 4
    Cache = 2
    Near = 2
    MaxBytes = 2
CHECK_DEADLOCK FALSE
INVARIANTS TypeOK QueuesInStep WithinCache
PROPERTIES SeekLands SeekReturns ReadToTheEnd
