\* A UDP socket whose datagrams each fit one chunk; four of them against a pool of two.
SPECIFICATION Spec
CONSTANTS
    Chunks = {c1, c2}
    NoChunk = NoChunk
    ChunkSize = 2
    RecvBufSize = 4
    Kinds = {"UDP"}
    UrcLens = {0, 1, 2}
    ReadSizes = {1, 2}
    MaxArrivals = 4
SYMMETRY ChunkSymmetry
INVARIANTS OneDatagramPerCall SourceNotStale
