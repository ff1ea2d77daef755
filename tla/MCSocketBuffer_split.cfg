\* Datagrams of two chunks, and room for all of them.
SPECIFICATION Spec
CONSTANTS
    Chunks = {c1, c2, c3, c4}
    NoChunk = NoChunk
    ChunkSize = 2
    RecvBufSize = 4
    Kinds = {"UDP"}
    UrcLens = {3}
    ReadSizes = {4}
    MaxArrivals = 2
SYMMETRY ChunkSymmetry
INVARIANT OneDatagramPerCall
