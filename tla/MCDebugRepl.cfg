SPECIFICATION DbgSpec
CONSTANTS
    Components = {"i", "c"}
    Notifiers = {"i"}
    MaxTicks = 6
    MaxSteps = 3
INVARIANTS
    StepsExactly
    ContinuesToChange
    BreaksAtTick
    ExitIsFinal
CHECK_DEADLOCK FALSE
