\* Wake-ups under fairness; the end of the file and a wait nobody ends are stops.
CONSTANTS
    buffer_count = 3
    Producer = producer
    Consumer = consumer
    Stoppers = {s1}
    PosMod = 16
    MaxChunks = 4
SPECIFICATION FairSpec
PROPERTIES
    StopWakesProducer
    StopWakesConsumer
    ErrorReachesConsumer
