CONSTANTS
    Timeout = 2
    Faults = {"error"}
    SectorSize = 2
    PerSector = 2
    RootStart = 1
    RootSectors = 2
    DataStart = 3
    PerCluster = 2
    Directories <- MCDirectories
    FAT <- MCContiguous
    Names = {"long", "whole", "label"}
    MaxSizes = {5, 8}
SPECIFICATION FsSpec
PROPERTIES RefusedOnlyWhenBusy
