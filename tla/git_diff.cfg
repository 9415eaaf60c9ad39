SPECIFICATION Spec
CONSTANTS
    Files = {f1, f2}
    HEAD = HEAD
    GitUse = {TRUE, FALSE}
    WatcherUse = {TRUE, FALSE}
    InitialModes = {"Event"}
    CanStop = TRUE
    MaxChanges = 1
    MaxFaults = 2
    MaxTicks = 1
INVARIANTS NoLostWakeup NoMissedChange
PROPERTIES NeverShowsOlder Converges EverythingIsHandedOver ImplementsHandOff
