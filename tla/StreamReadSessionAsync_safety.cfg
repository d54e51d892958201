\* Three slots of two bytes, a file of up to seven bytes, reads smaller and larger than a slot.
CONSTANTS
    slot_count = 3
    slot_bytes = 2
    FileBytes = 7
    DestBytes = {1, 3}
    BlockModes <- Both
    Producer = producer
    Consumer = consumer
    Owner = owner
SPECIFICATION Spec
INVARIANTS
    TypeOK
    NoSharedSlot
    RingConsistent
PROPERTY ImplementsOrderedStream
