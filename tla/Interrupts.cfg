SPECIFICATION FairSpec
CONSTANTS
    LinesPerPic = 4
    Cascade = 2
    BiosMask <- Mask
    Devices <- MCDevices
    Glitches <- MCGlitches
    Builds = {"dev", "release"}
    DevicesWhileBooting = FALSE
    SleepTimes = {1, 2}
    MaxPulses = 3
    MaxRaises = 3
INVARIANTS TypeOK EveryPulseCountedOnce OnlyCascadeLeftInService OnlyRaisedIrqsDispatched
PROPERTIES HandlerReturns UrgentIrqServed SleepReturns
CHECK_DEADLOCK FALSE
