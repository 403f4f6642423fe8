SPECIFICATION Spec
CONSTANTS
    w1 = w1
    w2 = w2
    w3 = w3
    Wdd = {w1, w2, w3}
    MaxDogs = 2
    Alias <- Aliases
    StopOnReboot = {w1, w3}
    Restart = {w1, w2}
    MayFail = TRUE
INVARIANTS
    TypeOK
    IdsExact
    MiscIsZero
    NotifiersLive
    UnboundForgotten
CHECK_DEADLOCK FALSE
