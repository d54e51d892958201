\* Two stoppers against a producer and a consumer, three buffers.
CONSTANTS
    buffer_count = 3
    Producer = producer
    Consumer = consumer
    Stoppers = {s1, s2}
    PosMod = 16
    MaxChunks = 4
SPECIFICATION Spec
INVARIANTS
    TypeOK
    ReleaseWithinMax
    CountMatchesTokens
    OneOwner
    TokensBacked
PROPERTIES
    HeldViewStable
    ImplementsOrderedStream
SYMMETRY StopperSymmetry
