\* Wake-ups and the end of the file under fairness; one-byte slots and reads.
CONSTANTS
    slot_count = 3
    slot_bytes = 1
    FileBytes = 4
    DestBytes = {1}
    BlockModes <- Both
    Producer = producer
    Consumer = consumer
    Owner = owner
SPECIFICATION FairSpec
PROPERTIES
    ReadyDataWakesReader
    FreeSlotWakesProducer
    StopWakesBlockedProducer
    ReadingDrains
