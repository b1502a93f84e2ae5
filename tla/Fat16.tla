-------------------------------- MODULE Fat16 --------------------------------
(***************************************************************************)
(* The read-only FAT16 file system of fat16.c over the driver of Ata:      *)
(* mounting, listing the root directory and reading a file, with every     *)
(* sector read as a call of ata_read_sector that may fail.                 *)
(*                                                                         *)
(* A byte is represented by where it is on the disk, and a buffer by the   *)
(* sequence of the bytes written to it.                                    *)
(***************************************************************************)
EXTENDS Ata, Sequences, FiniteSets, FiniteSetsExt

CONSTANTS
    SectorSize,             \* 512
    PerSector,              \* directory entries in a sector (16)
    RootStart, RootSectors, \* what the boot sector says
    DataStart, PerCluster,
    Directories,            \* root directories considered
    FAT,                    \* next cluster of each cluster
    Names, MaxSizes         \* arguments of fat16_read_file

Slots == 1..(RootSectors * PerSector)

\* The boot sector's numbers, and the sizes of buffers.
ASSUME DiskAssumption ==
    /\ {SectorSize, PerSector, PerCluster, RootSectors} \subseteq Nat \ {0}
    /\ {RootStart, DataStart} \subseteq Nat /\ MaxSizes \subseteq Nat

\* "" stands for no name at all.
ASSUME NamesAssumption == "" \notin Names

\* A file can be asked for by its name, and a file with contents has a cluster;
\* the clusters are numbered from 2.
ASSUME DirectoryAssumption ==
    \A d \in Directories, i \in Slots :
        /\ {d[i].first, d[i].file_size} \subseteq Nat
        /\ d[i].kind = "file" => d[i].name \in Names
        /\ d[i].kind \notin {"end", "deleted"} /\ d[i].file_size > 0 => d[i].first >= 2

VARIABLES
    dir,                \* the root directory on the disk
    root_sectors,       \* 0 until fat16_init has read the boot sector
    task,               \* "off", "mount", "list", "search", "read", or "idle"
    want, max_size,     \* arguments of fat16_read_file
    sector,             \* directory sector s, or data sector, being read
    size,               \* bytes to read
    buffer,             \* the caller's buffer
    result,             \* what fat16_read_file returned last
    listed              \* the names fat16_list_root has shown

fatVars == <<dir, root_sectors, task, want, max_size, sector, size, buffer,
             result, listed>>
fsVars == <<ataVars, fatVars>>
request == <<dir, root_sectors, want, max_size>>

None == -2              \* no result yet

FsInit ==
    /\ AtaInit
    /\ dir \in Directories
    /\ root_sectors = 0
    /\ task = "off"
    /\ want \in Names /\ max_size \in MaxSizes
    /\ sector = 0 /\ size = 0
    /\ buffer = <<>> /\ result = None /\ listed = {}

-----------------------------------------------------------------------------
\* kernel_main mounts the file system only if ata_init finds a disk; either way
\* it goes on, and so do the callers of fat16_read_file.
NoDisk ==
    /\ task = "off"
    /\ task' = "idle"
    /\ UNCHANGED <<ataVars, request, sector, size, buffer, result, listed>>

Mount ==
    /\ task = "off"
    /\ task' = "mount"
    /\ Call(0)
    /\ UNCHANGED <<request, sector, size, buffer, result, listed>>

fat16_init ==
    /\ task = "mount" /\ ata \in {"done", "failed"}
    /\ root_sectors' = IF ata = "done" THEN RootSectors ELSE 0
    /\ task' = "idle"
    /\ Rest
    /\ UNCHANGED <<dir, want, max_size, sector, size, buffer, result, listed>>

\* The caller gets its result.
Returns(n) ==
    /\ task' = "idle"
    /\ result' = n
    /\ Rest

-----------------------------------------------------------------------------
\* The entries of the directory sector in sector_buf, and the first of them
\* that ends a search.
EntriesRead == {i \in Slots : (i - 1) \div PerSector = sector_buf - RootStart}

Matches(i) == dir[i].kind \notin {"end", "deleted"} /\ dir[i].name = want
Decisive == {i \in EntriesRead : dir[i].kind = "end" \/ Matches(i)}

\* Mutant: volume labels are shown.
Visible_Labels(e) == e.kind \in {"file", "volume"}

Visible(e) == e.kind = "file"

fat16_list_root ==
    /\ task = "idle" /\ root_sectors > 0
    /\ task' = "list"
    /\ sector' = 0 /\ listed' = {}
    /\ Call(RootStart)
    /\ UNCHANGED <<request, size, buffer, result>>

ListSector ==
    /\ task = "list" /\ ata \in {"done", "failed"}
    /\ LET ends == {i \in EntriesRead : dir[i].kind = "end"}
           shown == IF ata = "failed" THEN {}
                    ELSE {i \in EntriesRead : Visible(dir[i]) /\ \A j \in ends : i < j}
       IN /\ listed' = listed \cup {dir[i].name : i \in shown}
          /\ IF ata = "failed" \/ ends # {} \/ sector + 1 = root_sectors
             THEN task' = "idle" /\ Rest /\ UNCHANGED sector
             ELSE task' = task /\ Call(RootStart + sector + 1) /\ sector' = sector + 1
    /\ UNCHANGED <<request, size, buffer, result>>

-----------------------------------------------------------------------------
fat16_read_file(name, max) ==
    /\ task = "idle"
    /\ want' = name /\ max_size' = max
    /\ buffer' = <<>>
    /\ sector' = 0
    /\ IF root_sectors = 0
       THEN Returns(-1)
       ELSE task' = "search" /\ result' = None /\ Call(RootStart)
    /\ UNCHANGED <<dir, root_sectors, size, listed>>

SearchFails ==
    /\ task = "search" /\ ata = "failed"
    /\ Returns(-1)
    /\ UNCHANGED <<request, sector, size, buffer, listed>>

\* Mutant: one sector too many is looked at.
SearchNext_OneTooFar ==
    /\ task = "search" /\ ata = "done" /\ Decisive = {}
    /\ IF sector = root_sectors
       THEN Returns(-1) /\ UNCHANGED sector
       ELSE /\ task' = task /\ result' = result
            /\ Call(RootStart + sector + 1) /\ sector' = sector + 1
    /\ UNCHANGED <<request, size, buffer, listed>>

SearchNext ==
    /\ task = "search" /\ ata = "done" /\ Decisive = {}
    /\ IF sector + 1 = root_sectors
       THEN Returns(-1) /\ UNCHANGED sector
       ELSE /\ task' = task /\ result' = result
            /\ Call(RootStart + sector + 1) /\ sector' = sector + 1
    /\ UNCHANGED <<request, size, buffer, listed>>

SearchMeetsEnd ==
    /\ task = "search" /\ ata = "done" /\ Decisive # {}
    /\ dir[Min(Decisive)].kind = "end"
    /\ Returns(-1)
    /\ UNCHANGED <<request, sector, size, buffer, listed>>

FirstSector(e) == DataStart + (e.first - 2) * PerCluster
Smaller(a, b) == IF a < b THEN a ELSE b

SearchFinds ==
    /\ task = "search" /\ ata = "done" /\ Decisive # {}
    /\ LET e == dir[Min(Decisive)] IN
       /\ e.kind # "end"
       /\ size' = Smaller(e.file_size, max_size)
       /\ sector' = FirstSector(e)
       /\ IF size' = 0 THEN Returns(0)
          ELSE task' = "read" /\ result' = result /\ Call(sector')
    /\ UNCHANGED <<request, buffer, listed>>

ToCopy == Smaller(SectorSize, size - Len(buffer))

\* Mutant: the last sector is copied whole.
CopySector_Whole ==
    /\ task = "read" /\ ata = "done"
    /\ buffer' = buffer \o [b \in 1..SectorSize |-> <<sector_buf, b - 1>>]
    /\ IF Len(buffer') >= size
       THEN Returns(Len(buffer')) /\ UNCHANGED sector
       ELSE /\ task' = task /\ result' = result
            /\ Call(sector + 1) /\ sector' = sector + 1
    /\ UNCHANGED <<request, size, listed>>

CopySector ==
    /\ task = "read" /\ ata = "done"
    /\ buffer' = buffer \o [b \in 1..ToCopy |-> <<sector_buf, b - 1>>]
    /\ IF Len(buffer') >= size
       THEN Returns(Len(buffer')) /\ UNCHANGED sector
       ELSE /\ task' = task /\ result' = result
            /\ Call(sector + 1) /\ sector' = sector + 1
    /\ UNCHANGED <<request, size, listed>>

\* A disk error ends the read with what has been read so far.
ReadFails ==
    /\ task = "read" /\ ata = "failed"
    /\ Returns(Len(buffer))
    /\ UNCHANGED <<request, sector, size, buffer, listed>>

FsStep ==
    \/ fat16_init \/ ListSector
    \/ SearchFails \/ SearchNext \/ SearchMeetsEnd \/ SearchFinds
    \/ CopySector \/ ReadFails

UserReads ==
    \/ fat16_list_root
    \/ \E name \in Names, max \in MaxSizes : fat16_read_file(name, max)

DriverStep == (ata_read_sector \/ DiskStep) /\ UNCHANGED fatVars

FsNext == NoDisk \/ Mount \/ FsStep \/ UserReads \/ DriverStep
FsSpec == FsInit /\ [][FsNext]_fsVars

\* The processor runs on; nothing is asked of the disk.
FairFsSpec ==
    /\ FsSpec
    /\ WF_fsVars(FsStep)
    /\ WF_fsVars(ata_read_sector /\ UNCHANGED fatVars)

-----------------------------------------------------------------------------
\* The entry of a name, and where its bytes are, following the chain of its
\* clusters in the FAT.
Entries(name) ==
    {i \in Slots : /\ dir[i].kind \notin {"end", "deleted"} /\ dir[i].name = name
                   /\ \A j \in 1..(i - 1) : dir[j].kind # "end"}

ClusterSize == PerCluster * SectorSize
ClusterOf(e, k) ==
    LET c[i \in 0..k] == IF i = 0 THEN e.first ELSE FAT[c[i - 1]] IN c[k]
SectorOf(e, b) ==
    DataStart + (ClusterOf(e, b \div ClusterSize) - 2) * PerCluster
              + (b % ClusterSize) \div SectorSize

\* Type invariant of the file system and of the driver under it: a search stays
\* in the sectors of the directory, a buffer being filled in its size.
FsTypeOK ==
    /\ ata \in {"idle", "wait_ready", "command", "wait_drq", "transfer", "done", "failed"}
    /\ polls \in 0..Timeout
    /\ {bsy, drdy, drq, err} \subseteq BOOLEAN
    /\ {lba, sector_buf, loaded} \subseteq Nat \cup {NoSector}
    /\ task \in {"off", "mount", "list", "search", "read", "idle"}
    /\ root_sectors \in {0, RootSectors}
    /\ task \in {"list", "search"} => sector \in 0..(RootSectors - 1)
    /\ task = "read" => sector \in Nat /\ Len(buffer) < size

\* The bytes of each file there is, the read that is going on, and the answer to
\* the last one.
FilesOnDisk ==
    [n \in {name \in Names : Entries(name) # {}} |->
       LET e == dir[Min(Entries(n))]
       IN  [b \in 1..e.file_size |-> <<SectorOf(e, b - 1), (b - 1) % SectorSize>>]]
CallSeen ==
    IF task \in {"search", "read"} THEN [name |-> want, max |-> max_size]
                                  ELSE [name |-> "", max |-> 0]
AnswerSeen == [count |-> result, bytes |-> IF result = None THEN <<>> ELSE buffer]

F == INSTANCE Files WITH
        files  <- FilesOnDisk,  faulty <- err \/ Overdue \/ root_sectors = 0,
        call   <- CallSeen,     answer <- AnswerSeen

\* Callers see files: a read delivers the file's own bytes, from the first one
\* on and as many as the file and the buffer have, wherever deleted entries,
\* labels and sector boundaries fall; a file is found if it is there; and only
\* a disk that fails, hangs or is absent makes a difference (fat16.c 123-174).
ImplementsFiles == F!FilesSpec

\* A listing that no failure of the disk cut short has shown every file there is, and
\* no label or deleted file, in whichever sectors they are (fat16.c 69-111).
ListsEveryFile ==
    [][(task = "list" /\ task' = "idle" /\ ata = "done") =>
          listed' = {name \in Names : \E i \in Entries(name) : dir[i].kind = "file"}]_fsVars

\* Every call returns, whatever the disk does, also if it never sets one of the
\* bits it is polled for (ata.c 34 and 49, fat16.c 164-173).
CallsReturn == task \in {"mount", "list", "search", "read"} ~> task = "idle"
=============================================================================
