\* Two contexts and the default bearer, any contents; two APNs or none.
SPECIFICATION Spec
CONSTANTS
    default = default
    mine = mine
    Apns = {default, mine}
    NoApn = NoApn
    DefaultApn = default
    WithApn = TRUE
    DefaultType = "IP"
    MaxCid = 3
    NoStack = NoStack
    NoContext = NoContext
    Tables <- SomeTables
INVARIANTS  OneContextCreated
PROPERTIES NoContextOverwritten
