\* One UDP call at a time, IPv4 only.
SPECIFICATION Spec
CONSTANTS
    s1 = s1
    s2 = s2
    Slots = {s1, s2}
    NoId = NoId
    NoOne = NoOne
    NoMsg = NoMsg
    Protocols <- AllUDP
    Families = {"IPv4"}
    MaxCalls = 1
    EarlyClose = FALSE
INVARIANT LockNotHeldWhileWaiting
