CONSTANTS
    VGA_COLS = 4
    VGA_ROWS = 3
    INT_MAX = 15
    Task = {1, 2}
    DemoRow <- MCDemoRow
    DemoCols = 1
    CMD_MAX = 3
    ReadMax = 4
    Text <- MCText
    Scancodes <- MCScancodes
    FifoSize = 1
    MaxKeys = 4
SPECIFICATION TerminalSpec
INVARIANTS TerminalTypeOK DemoInItsRows EchoShowsLine
PROPERTIES LinesAsTyped SumShown
\* SYS_EXIT ends the shell
CHECK_DEADLOCK FALSE
