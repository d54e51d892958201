\* Positions of four bits: like 2^32, their modulus is one more than a multiple of three.
CONSTANTS
    buffer_count = 3
    Producer = producer
    Consumer = consumer
    Stoppers = {}
    PosMod = 16
    MaxChunks = 20
SPECIFICATION Spec
INVARIANT AcquireFindsEmptyBuffer
CHECK_DEADLOCK FALSE
