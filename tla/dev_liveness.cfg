SPECIFICATION FairSpec
CONSTANTS
    Thread = {t1, t2}
    t1 = t1
    t2 = t2
    Device <- DwRemovable
    Timeout = {"short", "long"}
    EarlyOpen = FALSE
PROPERTIES
    CallsReturn
    KernelKeepsFeeding
CHECK_DEADLOCK FALSE
