\* One slot used in turn by UDP, TCP and TLS sockets; URCs of a single byte,
\* and longer than the pool and the decode buffer.  No symmetry: liveness.
SPECIFICATION FairSpec
CONSTANTS
    Chunks = {c1, c2}
    NoChunk = NoChunk
    ChunkSize = 2
    RecvBufSize = 5
    Kinds = {"UDP", "TCP", "TLS"}
    UrcLens = {1, 6}
    ReadSizes = {0, 1, 3}
    MaxArrivals = 2
INVARIANTS TypeOK ChunksPartitioned PutHasRoom ResultFits ResultInOrder
PROPERTIES ImplementsFifo 
