\* Repeated backpressure and no stop.
CONSTANTS
    buffer_count = 3
    Producer = producer
    Consumer = consumer
    Stoppers = {}
    PosMod = 16
    MaxChunks = 8
SPECIFICATION Spec
INVARIANT NoMutualWait
CHECK_DEADLOCK FALSE
