SPECIFICATION FairSpec
CONSTANTS
    LinesPerPic = 4
    Cascade = 2
    BiosMask <- Mask
    Devices <- MCDevices
    Glitches <- MCGlitches
    Builds = {"release"}
    DevicesWhileBooting = TRUE
    SleepTimes = {1, 2}
    MaxPulses = 0
    MaxRaises = 1
PROPERTIES HandlerReturns
CHECK_DEADLOCK FALSE
