\* A TCP and a UDP socket used concurrently: foreign answers and reopening under the lock happen.
SPECIFICATION Spec
CONSTANTS
    s1 = s1
    s2 = s2
    Slots = {s1, s2}
    NoId = NoId
    NoOne = NoOne
    NoMsg = NoMsg
    Protocols <- OneOfEach
    Families = {"IPv4"}
    MaxCalls = 2
    EarlyClose = FALSE
INVARIANTS LockReleased NeverStuck
PROPERTIES CallsDescend
