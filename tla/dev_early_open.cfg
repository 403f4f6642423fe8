SPECIFICATION Spec
CONSTANTS
    Thread = {t1, t2}
    t1 = t1
    t2 = t2
    Device <- DwUnstoppable
    Timeout = {"short"}
    EarlyOpen = TRUE
SYMMETRY ThreadSymmetry
INVARIANTS
    ClosedIsFed
CHECK_DEADLOCK FALSE
