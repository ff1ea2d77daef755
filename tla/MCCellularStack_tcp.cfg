\* Two TCP sockets, one call at a time, peers that close after connect() returned.
SPECIFICATION Spec
CONSTANTS
    s1 = s1
    s2 = s2
    Slots = {s1, s2}
    NoId = NoId
    NoOne = NoOne
    NoMsg = NoMsg
    Protocols <- AllTCP
    Families = {"IPv4"}
    MaxCalls = 1
    EarlyClose = FALSE
INVARIANTS TypeOK    LockNotHeldWhileWaiting
 
