\* Every path of every call on one socket.  No symmetry: liveness.
SPECIFICATION FairSpec
CONSTANTS
    s1 = s1
    s2 = s2
    Slots = {s1}
    NoId = NoId
    NoOne = NoOne
    NoMsg = NoMsg
    Protocols <- AnyProtocol
    Families = {"IPv4", "IPv6"}
    MaxCalls = 1
    EarlyClose = TRUE
PROPERTIES ImplementsLife 
