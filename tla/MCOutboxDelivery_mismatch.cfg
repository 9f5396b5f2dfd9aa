SPECIFICATION FairSpec
CONSTANTS
    w1 = w1
    w2 = w2
    Free = Free
    NumEvents = 2
    Workers <- OneWorker
    BatchSize = 2
    Prefetch = 2
    MaxAttempts = 2
    PublisherDelay = 5
    ConsumerDelay = 3
    MaxFaults = 0
PROPERTIES AtLeastOnce
CHECK_DEADLOCK FALSE
