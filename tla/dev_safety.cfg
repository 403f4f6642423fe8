SPECIFICATION Spec
CONSTANTS
    Thread = {t1, t2}
    t1 = t1
    t2 = t2
    Device <- BootRunningDevices
    Timeout = {"short", "long"}
    EarlyOpen = FALSE
SYMMETRY ThreadSymmetry
INVARIANTS
    TypeOK
    KernelFeeds
    
    ActiveMeansCounting
    SingleOpen
    NoUseAfterFree
    NoRmmodUnderUser
    QuiescentAfterRemoval
PROPERTIES
    StopNeedsMagic
    NoWayOutKeepsCounting
CHECK_DEADLOCK FALSE
