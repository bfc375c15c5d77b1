SPECIFICATION FairSpec
CONSTANTS
    LinesPerPic = 4
    Cascade = 2
    BiosMask <- Mask
    Devices <- MCDevices
    Glitches <- MCGlitches
    Builds = {"release"}
    DevicesWhileBooting = FALSE
    SleepTimes = {1, 2}
    MaxPulses = 2
    MaxRaises = 2
PROPERTIES EveryIrqServed
CHECK_DEADLOCK FALSE
