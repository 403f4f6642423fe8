SPECIFICATION Spec
CONSTANTS
    Rate = 5
    Shift = 2
    MaxTop = 7
    Default = 30
    TimeoutSec = 9
    Request <- Seconds
    ResetLine = {"none", "own"}
    MaxDeassert = 2
INVARIANTS
    TypeOK
    PeriodApplied
    NoSilentHardware
    AlwaysResets
    ClocksFollowPhase
PROPERTIES
    BootPeriodKept
CHECK_DEADLOCK FALSE
