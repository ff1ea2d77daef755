\* A UDP and a TCP slot, each used by one socket after the other.  No symmetry: liveness.
SPECIFICATION FairSpec
CONSTANTS
    Slots = {udp, tcp}
    Udp = {udp}
    NoMsg = NoMsg
    Stale = Stale
    BufferSize = 2
INVARIANTS EofMeansClosed  SleeperHasNothing
PROPERTIES ReadReturns
