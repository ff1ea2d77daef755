\* Two slots, one TLS socket at a time, every command may fail.  No symmetry: liveness.
SPECIFICATION FairSpec
CONSTANTS
    Slots = {s1, s2}
    NoId = NoId
    NoMsg = NoMsg
    MaxTls = 1
    MaxChunks = 2
    MayFail = {"upload", "seclevel", "sslversion", "dataformat", "open", "close", "send"}
    EarlyClose = FALSE
INVARIANTS  NoOrphan LevelAsAsked
PROPERTIES CallsReturn
