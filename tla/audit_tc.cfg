SPECIFICATION FairSpec
CONSTANTS
    cpu0 = cpu0
    cpu1 = cpu1
    Cpu = {cpu0, cpu1}
    RingSize = 2
    Capacity = 2
    Word = {0}
    MaxVerdicts = 2
    Nothing = Nothing
PROPERTIES EveryVerdictExplained
CHECK_DEADLOCK FALSE
