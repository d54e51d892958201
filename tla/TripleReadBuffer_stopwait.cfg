\* A wait that begins after the stop.
CONSTANTS
    buffer_count = 3
    Producer = producer
    Consumer = consumer
    Stoppers = {s1}
    PosMod = 16
    MaxChunks = 4
SPECIFICATION FairSpec
PROPERTY StopInterruptsWait
