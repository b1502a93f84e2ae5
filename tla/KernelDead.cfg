CONSTANTS
    MaxPid = 5
    MAX_PROCESSES = 16
    QuantumUnit = 5
    Priorities = {1, 2, 4}
    StartTicks = 4
    TickWrap = 1
    ProgramEnds = {"hlt", "exit"}
    Disk <- MCDisk
    Headers <- MCHeaders
    Names = {"long", "bss", "empty", "huge", "absent"}
    MaxSizes = {4}
    BufferSize = 4
    UserMemory = {0, 1}
SPECIFICATION KernelSpec
PROPERTIES DeadSkipped
CHECK_DEADLOCK FALSE
