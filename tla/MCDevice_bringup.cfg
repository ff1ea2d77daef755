\* Three commands may fail, one power-off call.  The reset pin is connected.
SPECIFICATION FairSpec
CONSTANTS
    Configure = TRUE
    ResetWired = TRUE
    MaxFaults = 3
    MaxOffs = 1
INVARIANTS ConfiguredIsStored ReturnsClean
PROPERTIES CallsDescend InitTurnsRadioOn NvramWrittenRadioOff Recovers
