\* A stop between the producer's predicate and its wait.
CONSTANTS
    slot_count = 3
    slot_bytes = 1
    FileBytes = 4
    DestBytes = {1}
    BlockModes <- Both
    Producer = producer
    Consumer = consumer
    Owner = owner
SPECIFICATION FairSpec
PROPERTY StopReturns
