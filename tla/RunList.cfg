CONSTANTS
    MaxPid = 3
    MAX_PROCESSES = 4
    QuantumUnit = 2
    Priorities = {1}
    StartTicks = 1
    TickWrap = 1
    Wild = Wild
SPECIFICATION FairListSpec
INVARIANTS OneCycle HarmOnlyBeforeLastStore
PROPERTIES ImplementsRing CreateReturns
\* a scheduler that followed an uninitialized pointer does nothing more
CHECK_DEADLOCK FALSE
