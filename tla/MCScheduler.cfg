CONSTANTS
    MaxPid = 3
    MAX_PROCESSES = 16
    QuantumUnit = 2
    Priorities = {1, 2}
    StartTicks = 1
    TickWrap = 1
SPECIFICATION FairSpec
INVARIANTS TypeOK EachProcessOnce RunningHoldsCPU ContextsIntact WithinQuantum
PROPERTIES NeverOvertaken OnlyReadyDispatched ReadyGetsCPU ImplementsRoundRobin
