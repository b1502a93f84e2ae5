----------------------------- MODULE Fat16Proofs -----------------------------
(***************************************************************************)
(* Machine-checked proofs about Fat16 and the driver under it, for every   *)
(* disk, directory and size of buffer that satisfies the assumptions of    *)
(* Ata and Fat16: that a search stays in the directory and a copy in the   *)
(* buffer, that the driver delivers the sector it was asked for, and that  *)
(* callers see the files of the module Files.                              *)
(***************************************************************************)
EXTENDS Fat16, LeastNumber, SequenceTheorems

\* Without it the driver may give up on a command whose data then comes as the
\* answer to the next one.
NeverLate == "late" \notin Faults

\* fat16.c 172 reads the clusters of a file as if they followed one another.
Contiguous ==
    \A d \in Directories, i \in Slots :
        d[i].kind \notin {"end", "deleted"} =>
            \A k \in 1..((d[i].file_size - 1) \div ClusterSize) :
                FAT[d[i].first + k - 1] = d[i].first + k

-----------------------------------------------------------------------------
(* The inductive invariants.                                               *)

Bytes == (Nat \cup {NoSector}) \X (0..(SectorSize - 1))

\* The type invariant, with the root directory's size tied to the calls.
FsTypes ==
    /\ FsTypeOK
    /\ dir \in Directories /\ want \in Names /\ max_size \in MaxSizes
    /\ size \in Nat /\ buffer \in Seq(Bytes)
    /\ task \in {"off", "mount"} => root_sectors = 0
    /\ task \in {"list", "search", "read"} => root_sectors = RootSectors
    /\ task = "search" => buffer = <<>>

\* Driver and disk agree: data is offered only for the command that is going
\* on, and once the file system is mounted a call fails only after an error, or
\* when the disk hangs at a command.
InStep ==
    /\ bsy => ata \notin {"command", "transfer", "done"} /\ ~drq /\ ~err
    /\ drq => ata \in {"wait_drq", "transfer"} /\ ~err
    /\ ata = "wait_drq" => bsy \/ (polls > 0 /\ (drq \/ err))
    /\ ata = "transfer" => drq
    /\ ata = "wait_ready" /\ polls = 0 => bsy \/ root_sectors = 0
    /\ ata \in {"wait_drq", "transfer"} => loaded = lba
    /\ ata = "done" => sector_buf = lba
    /\ ata \in {"command", "done"} => ~err
    /\ ata = "failed" => err \/ bsy \/ root_sectors = 0
    /\ ata \in {"command", "wait_drq", "transfer", "done"} \/ root_sectors # 0 => drdy

\* The driver works for the file system, on the sector it is at.
Serves ==
    /\ ata = "idle" <=> task \in {"off", "idle"}
    /\ task \in {"list", "search"} => lba = RootStart + sector
    /\ task = "read" => lba = sector

\* The entries of the sectors of the directory before s.
Before(s) == {i \in Slots : (i - 1) \div PerSector < s}

\* What a listing and a search know of the sectors they have passed.
Passed ==
    /\ task \in {"list", "search"} => \A i \in Before(sector) : dir[i].kind # "end"
    /\ task = "list" => listed = {dir[i].name : i \in {j \in Before(sector) : Visible(dir[j])}}
    /\ task = "search" => \A i \in Before(sector) : ~Matches(i)

Entry == dir[Min(Entries(want))]

\* Byte b of a file that starts at a sector.
ByteOf(first, b) == <<first + b \div SectorSize, b % SectorSize>>

\* What a read has copied: whole sectors of the file, from its first byte on.
Copied ==
    /\ task \in {"search", "read"} => result = None
    /\ task = "read" =>
         /\ Entries(want) # {}
         /\ size = Smaller(Entry.file_size, max_size)
         /\ FirstSector(Entry) \in Nat
         /\ \E k \in Nat : sector = FirstSector(Entry) + k /\ Len(buffer) = SectorSize * k
         /\ \A b \in 1..Len(buffer) : buffer[b] = ByteOf(FirstSector(Entry), b - 1)

FsInv == FsTypes /\ InStep /\ Serves /\ Passed /\ Copied

-----------------------------------------------------------------------------
(* Numbers.                                                                *)

LEMMA Sizes ==
    /\ SectorSize \in Nat \ {0} /\ PerSector \in Nat \ {0}
    /\ PerCluster \in Nat \ {0} /\ RootSectors \in Nat \ {0}
    /\ RootStart \in Nat /\ DataStart \in Nat
    /\ MaxSizes \subseteq Nat /\ Timeout \in Nat \ {0}
  BY DiskAssumption, AtaAssumption

LEMMA SlotsAreNumbers == Slots \subseteq Nat \ {0}
  BY Sizes DEF Slots

LEMMA SmallerIs ==
    ASSUME NEW a \in Nat, NEW b \in Nat
    PROVE  Smaller(a, b) \in Nat /\ Smaller(a, b) <= a /\ Smaller(a, b) <= b
  BY DEF Smaller

\* The entry a search stops at is one of the sector that has been read.
LEMMA DecisiveEntry ==
    ASSUME Decisive # {}
    PROVE  /\ Min(Decisive) \in Slots /\ Min(Decisive) \in Decisive
           /\ \A i \in Decisive : Min(Decisive) <= i
<1>1. Decisive \in SUBSET Nat /\ Decisive \subseteq Slots
  BY SlotsAreNumbers DEF Decisive, EntriesRead
<1> QED BY <1>1, MinIsMember

\* Where a file that has contents starts.
LEMMA FirstSectorIs ==
    ASSUME dir \in Directories, NEW i \in Slots,
           dir[i].kind \notin {"end", "deleted"}
    PROVE  /\ dir[i].first \in Nat /\ dir[i].file_size \in Nat
           /\ dir[i].file_size > 0 => FirstSector(dir[i]) \in Nat
<1>1. dir[i].first \in Nat /\ dir[i].file_size \in Nat
      /\ (dir[i].file_size > 0 => dir[i].first >= 2)
  BY DirectoryAssumption
<1>2. ASSUME dir[i].first >= 2 PROVE FirstSector(dir[i]) \in Nat
  <2>1. PICK k \in Nat : k = dir[i].first - 2
    BY <1>1, <1>2
  <2>2. k * PerCluster \in Nat
    BY Sizes
  <2> QED BY <2>1, <2>2, Sizes DEF FirstSector
<1> QED BY <1>1, <1>2

-----------------------------------------------------------------------------
(* Type correctness.                                                       *)

AtaTypes ==
    /\ ata \in {"idle", "wait_ready", "command", "wait_drq", "transfer", "done", "failed"}
    /\ polls \in 0..Timeout
    /\ {bsy, drdy, drq, err} \subseteq BOOLEAN
    /\ {lba, sector_buf, loaded} \subseteq Nat \cup {NoSector}

LEMMA CallKeepsTypes == ASSUME AtaTypes, NEW s \in Nat, Call(s) PROVE AtaTypes'
  BY Sizes DEF AtaTypes, Call, disk

LEMMA RestKeepsTypes == ASSUME AtaTypes, Rest PROVE AtaTypes'
  BY DEF AtaTypes, Rest, disk

LEMMA DriverKeepsTypes ==
    ASSUME AtaTypes, ata_read_sector \/ DiskStep PROVE AtaTypes'
<1>1. CASE ata_wait_ready
  BY <1>1, Sizes DEF AtaTypes, ata_wait_ready, PollAgain, Ends, disk
<1>2. CASE Command
  <2>1. CASE bsy' = TRUE /\ drq' = FALSE /\ err' = FALSE /\ loaded' = lba /\ drdy' = drdy
    <3>1. {bsy', drdy', drq', err'} \subseteq BOOLEAN
      BY <2>1, Zenon DEF AtaTypes
    <3> QED BY <1>2, <2>1, <3>1, Sizes DEF AtaTypes, Command
  <2>2. CASE UNCHANGED disk
    BY <1>2, <2>2, Sizes DEF AtaTypes, Command, disk
  <2> QED BY <1>2, <2>1, <2>2 DEF Command
<1>3. CASE ata_wait_drq
  BY <1>3, Sizes DEF AtaTypes, ata_wait_drq, PollAgain, Ends, disk
<1>4. CASE Transfer
  BY <1>4 DEF AtaTypes, Transfer
<1>5. CASE DiskStep
  BY <1>5 DEF AtaTypes, DiskStep, DiskAnswers, DiskGetsReady
<1> QED BY <1>1, <1>2, <1>3, <1>4, <1>5 DEF ata_read_sector

\* The rest of FsTypes, in terms of AtaTypes.
CallTypes ==
    /\ task \in {"off", "mount", "list", "search", "read", "idle"}
    /\ root_sectors \in {0, RootSectors}
    /\ task \in {"list", "search"} => sector \in 0..(RootSectors - 1)
    /\ task = "read" => sector \in Nat /\ Len(buffer) < size
    /\ dir \in Directories /\ want \in Names /\ max_size \in MaxSizes
    /\ size \in Nat /\ buffer \in Seq(Bytes)
    /\ task \in {"off", "mount"} => root_sectors = 0
    /\ task \in {"list", "search", "read"} => root_sectors = RootSectors
    /\ task = "search" => buffer = <<>>

LEMMA TypesSplit == FsTypes <=> AtaTypes /\ CallTypes
  BY DEF FsTypes, FsTypeOK, AtaTypes, CallTypes

LEMMA TypesSplitNext == FsTypes' <=> AtaTypes' /\ CallTypes'
  BY TypesSplit, PTL

LEMMA TypesInitially == FsInit => FsTypes
<1> SUFFICES ASSUME FsInit PROVE AtaTypes /\ CallTypes
  BY TypesSplit
<1>1. AtaTypes
  <2>1. bsy \in BOOLEAN /\ drq \in BOOLEAN /\ err \in BOOLEAN
    BY Zenon DEF FsInit, AtaInit
  <2> QED BY <2>1, Sizes DEF FsInit, AtaInit, AtaTypes
<1>2. CallTypes
  BY Sizes DEF FsInit, CallTypes
<1> QED BY <1>1, <1>2

\* The bytes a sector adds to the buffer.
LEMMA CopyAppends ==
    ASSUME CallTypes, AtaTypes, CopySector
    PROVE  /\ buffer' \in Seq(Bytes)
           /\ ToCopy \in Nat /\ ToCopy = Smaller(SectorSize, size - Len(buffer))
           /\ Len(buffer') = Len(buffer) + ToCopy
           /\ \A b \in 1..Len(buffer) : buffer'[b] = buffer[b]
           /\ \A b \in 1..ToCopy : buffer'[Len(buffer) + b] = <<sector_buf, b - 1>>
<1>1. ToCopy \in Nat /\ ToCopy <= SectorSize /\ Len(buffer) \in Nat
  BY Sizes DEF CallTypes, CopySector, ToCopy, Smaller
<1>2. PICK add : add = [b \in 1..ToCopy |-> <<sector_buf, b - 1>>]
  OBVIOUS
<1>3. add \in Seq(Bytes) /\ Len(add) = ToCopy
  <2>1. ASSUME NEW b \in 1..ToCopy PROVE add[b] \in Bytes
    BY <1>1, <1>2, Sizes DEF AtaTypes, Bytes
  <2> QED BY <1>1, <1>2, <2>1
<1>4. buffer' = buffer \o add /\ buffer \in Seq(Bytes)
  BY <1>2 DEF CopySector, CallTypes
<1>5. buffer' \in Seq(Bytes) /\ Len(buffer') = Len(buffer) + ToCopy
  BY <1>3, <1>4, ConcatProperties
<1>6. /\ \A b \in 1..Len(buffer) : buffer'[b] = buffer[b]
      /\ \A b \in 1..ToCopy : buffer'[Len(buffer) + b] = add[b]
  BY <1>1, <1>3, <1>4, ConcatProperties
<1> QED BY <1>1, <1>2, <1>5, <1>6 DEF ToCopy

LEMMA TypesStep == FsTypes /\ [FsNext]_fsVars => FsTypes'
<1> SUFFICES ASSUME AtaTypes, CallTypes, [FsNext]_fsVars
             PROVE  AtaTypes' /\ CallTypes'
  BY TypesSplit, TypesSplitNext
<1>1. CASE NoDisk
  BY <1>1 DEF NoDisk, AtaTypes, CallTypes, request, ataVars, disk
<1>2. CASE Mount
  <2>1. AtaTypes'
    BY <1>2, CallKeepsTypes DEF Mount
  <2> QED BY <1>2, <2>1 DEF Mount, CallTypes, request
<1>3. CASE fat16_init
  <2>1. AtaTypes'
    BY <1>3, RestKeepsTypes DEF fat16_init
  <2> QED BY <1>3, <2>1 DEF fat16_init, CallTypes
<1>4. CASE fat16_list_root
  <2>1. AtaTypes'
    BY <1>4, CallKeepsTypes, Sizes DEF fat16_list_root
  <2>2. CallTypes'
    BY <1>4, Sizes DEF fat16_list_root, CallTypes, request
  <2> QED BY <2>1, <2>2
<1>5. CASE ListSector
  <2>1. CASE task' = "idle" /\ Rest /\ UNCHANGED sector
    BY <1>5, <2>1, RestKeepsTypes DEF ListSector, CallTypes, request
  <2>2. CASE sector + 1 # root_sectors /\ task' = task /\ Call(RootStart + sector + 1) /\ sector' = sector + 1
    <3>1. sector \in 0..(RootSectors - 1) /\ root_sectors = RootSectors
      BY <1>5 DEF ListSector, CallTypes
    <3>2. sector' \in 0..(RootSectors - 1) /\ RootStart + sector + 1 \in Nat
      BY <2>2, <3>1, Sizes
    <3>3. AtaTypes'
      BY <2>2, <3>2, CallKeepsTypes
    <3>4. CallTypes'
      BY <1>5, <2>2, <3>2 DEF ListSector, CallTypes, request
    <3> QED BY <3>3, <3>4
  <2> QED BY <1>5, <2>1, <2>2 DEF ListSector
<1>6. ASSUME NEW name \in Names, NEW max \in MaxSizes, fat16_read_file(name, max)
      PROVE  AtaTypes' /\ CallTypes'
  <2>1. CASE Returns(-1) /\ root_sectors = 0
    <3>1. AtaTypes'
      BY <2>1, RestKeepsTypes DEF Returns
    <3> QED BY <1>6, <2>1, <3>1 DEF fat16_read_file, Returns, CallTypes
  <2>2. CASE root_sectors # 0 /\ task' = "search" /\ result' = None /\ Call(RootStart)
    <3>1. AtaTypes'
      BY <2>2, CallKeepsTypes, Sizes
    <3> QED BY <1>6, <2>2, <3>1, Sizes DEF fat16_read_file, CallTypes
  <2> QED BY <1>6, <2>1, <2>2 DEF fat16_read_file
<1>7. CASE SearchFails \/ SearchMeetsEnd \/ ReadFails
  <2>1. AtaTypes'
    BY <1>7, RestKeepsTypes DEF SearchFails, SearchMeetsEnd, ReadFails, Returns
  <2> QED BY <1>7, <2>1
       DEF SearchFails, SearchMeetsEnd, ReadFails, Returns, CallTypes, request
<1>8. CASE SearchNext
  <2>1. CASE Returns(-1) /\ UNCHANGED sector
    BY <1>8, <2>1, RestKeepsTypes DEF SearchNext, Returns, CallTypes, request
  <2>2. CASE sector + 1 # root_sectors /\ task' = task /\ Call(RootStart + sector + 1) /\ sector' = sector + 1
    <3>1. sector \in 0..(RootSectors - 1) /\ root_sectors = RootSectors
      BY <1>8 DEF SearchNext, CallTypes
    <3>2. sector' \in 0..(RootSectors - 1) /\ RootStart + sector + 1 \in Nat
      BY <2>2, <3>1, Sizes
    <3>3. AtaTypes'
      BY <2>2, <3>2, CallKeepsTypes
    <3>4. CallTypes'
      BY <1>8, <2>2, <3>2 DEF SearchNext, CallTypes, request
    <3> QED BY <3>3, <3>4
  <2> QED BY <1>8, <2>1, <2>2 DEF SearchNext
<1>9. CASE SearchFinds
  <2>1. PICK i \in Slots : i = Min(Decisive) /\ dir[i].kind \notin {"end", "deleted"}
    BY <1>9, DecisiveEntry DEF SearchFinds, Decisive, Matches
  <2>2. /\ size' = Smaller(dir[i].file_size, max_size)
        /\ sector' = FirstSector(dir[i])
        /\ IF size' = 0 THEN Returns(0)
           ELSE task' = "read" /\ result' = result /\ Call(sector')
        /\ UNCHANGED <<request, buffer, listed>> /\ task = "search"
    BY <1>9, <2>1 DEF SearchFinds
  <2>3. /\ dir[i].file_size \in Nat /\ max_size \in Nat
        /\ dir[i].file_size > 0 => FirstSector(dir[i]) \in Nat
    BY <2>1, FirstSectorIs, Sizes DEF CallTypes
  <2>4. size' \in Nat /\ (size' # 0 => sector' \in Nat)
    <3>1. size' \in Nat /\ size' <= dir[i].file_size
      BY <2>2, <2>3, SmallerIs
    <3>2. size' # 0 => dir[i].file_size > 0
      BY <2>3, <3>1
    <3> QED BY <2>2, <2>3, <3>1, <3>2
  <2>5. CASE Returns(0)
    BY <2>2, <2>4, <2>5, RestKeepsTypes DEF Returns, CallTypes, request
  <2>6. CASE size' # 0 /\ task' = "read" /\ result' = result /\ Call(sector')
    <3>1. PICK s \in Nat : s = sector'
      BY <2>4, <2>6
    <3>2. AtaTypes'
      BY <2>6, <3>1, CallKeepsTypes
    <3>3. buffer' = <<>> /\ Len(buffer') < size'
      BY <2>2, <2>4, <2>6 DEF CallTypes
    <3> QED BY <2>2, <2>4, <2>6, <3>2, <3>3 DEF CallTypes, request
  <2> QED BY <2>2, <2>5, <2>6
<1>10. CASE CopySector
  <2>1. buffer' \in Seq(Bytes) /\ sector \in Nat /\ size \in Nat /\ size' = size
    BY <1>10, CopyAppends DEF CopySector, CallTypes
  <2>2. CASE Returns(Len(buffer')) /\ UNCHANGED sector
    BY <1>10, <2>1, <2>2, RestKeepsTypes DEF CopySector, Returns, CallTypes, request
  <2>3. CASE /\ ~(Len(buffer') >= size) /\ task' = task /\ result' = result
             /\ Call(sector + 1) /\ sector' = sector + 1
    <3>1. AtaTypes'
      BY <2>1, <2>3, CallKeepsTypes
    <3>2. Len(buffer') < size' /\ sector' \in Nat
      BY <2>1, <2>3
    <3>3. UNCHANGED request /\ task' = "read"
      BY <1>10, <2>3 DEF CopySector
    <3>4. CallTypes'
      BY <1>10, <2>1, <3>2, <3>3 DEF CopySector, CallTypes, request
    <3> QED BY <3>1, <3>4
  <2> QED BY <1>10, <2>2, <2>3 DEF CopySector
<1>11. CASE DriverStep
  <2>1. AtaTypes'
    BY <1>11, DriverKeepsTypes DEF DriverStep
  <2> QED BY <1>11, <2>1 DEF DriverStep, CallTypes, fatVars
<1>12. CASE UNCHANGED fsVars
  BY <1>12 DEF fsVars, ataVars, disk, fatVars, AtaTypes, CallTypes
<1> QED
  BY <1>1, <1>2, <1>3, <1>4, <1>5, <1>6, <1>7, <1>8, <1>9, <1>10, <1>11, <1>12
  DEF FsNext, FsStep, UserReads

\* fat16.c 69-174, ata.c 20-94: whatever the disk does, a listing and a search
\* stay in the sectors of the root directory and a copy in the caller's buffer.
THEOREM FileSystemTypeCorrect == FsSpec => []FsTypeOK
<1>1. FsTypes => FsTypeOK
  BY DEF FsTypes
<1> QED BY <1>1, TypesInitially, TypesStep, PTL DEF FsSpec

-----------------------------------------------------------------------------
(* The driver.                                                             *)

Resting == ata \in {"idle", "done", "failed"}

\* What a step does to driver and disk.
LEMMA DriverSees ==
    ASSUME Serves, [FsNext]_fsVars
    PROVE  \/ UNCHANGED <<ataVars, root_sectors>>
           \/ Resting /\ Rest /\ (root_sectors' \in {0, root_sectors} \/ ata = "done")
           \/ Resting /\ (\E s : Call(s)) /\ UNCHANGED root_sectors
           \/ (ata_read_sector \/ DiskStep) /\ UNCHANGED root_sectors
<1>1. CASE NoDisk \/ UNCHANGED fsVars
  BY <1>1 DEF NoDisk, fsVars, fatVars, request
<1>2. CASE Mount \/ fat16_list_root
  BY <1>2 DEF Mount, fat16_list_root, Serves, Resting, request
<1>3. CASE fat16_init \/ SearchFails \/ SearchMeetsEnd \/ ReadFails
  BY <1>3 DEF fat16_init, SearchFails, SearchMeetsEnd, ReadFails, Returns, Resting, request
<1>4. CASE ListSector
  BY <1>4 DEF ListSector, Resting, request
<1>5. ASSUME NEW name \in Names, NEW max \in MaxSizes, fat16_read_file(name, max)
      PROVE  Resting /\ (Rest \/ \E s : Call(s)) /\ UNCHANGED root_sectors
  BY <1>5 DEF fat16_read_file, Returns, Serves, Resting
<1>6. CASE SearchNext
  BY <1>6 DEF SearchNext, Returns, Resting, request
<1>7. CASE SearchFinds
  BY <1>7 DEF SearchFinds, Returns, Resting, request
<1>8. CASE CopySector
  BY <1>8 DEF CopySector, Returns, Resting, request
<1>9. CASE DriverStep
  BY <1>9 DEF DriverStep, fatVars
<1> QED BY <1>1, <1>2, <1>3, <1>4, <1>5, <1>6, <1>7, <1>8, <1>9
        DEF FsNext, FsStep, UserReads

LEMMA StaysInStep ==
    ASSUME NeverLate, AtaTypes, InStep, Serves, [FsNext]_fsVars
    PROVE  InStep'
<1>1. CASE UNCHANGED <<ataVars, root_sectors>>
  BY <1>1 DEF ataVars, disk, InStep
<1>2. CASE Resting /\ Rest /\ (root_sectors' \in {0, root_sectors} \/ ata = "done")
  BY <1>2 DEF Resting, Rest, disk, InStep
<1>3. CASE Resting /\ (\E s : Call(s)) /\ UNCHANGED root_sectors
  <2>1. ~drq
    BY <1>3 DEF Resting, InStep
  <2>2. /\ polls' # 0 /\ ata' = "wait_ready" /\ drq' = drq /\ bsy' = bsy /\ err' = err
        /\ drdy' = drdy /\ root_sectors' = root_sectors
    BY <1>3, Sizes DEF Call, disk
  <2> QED BY <2>1, <2>2 DEF InStep
<1>4. CASE ata_wait_ready /\ UNCHANGED root_sectors
  <2>1. ~drq /\ polls \in Nat /\ ata = "wait_ready"
    BY <1>4 DEF ata_wait_ready, InStep, AtaTypes
  <2>2. CASE (err \/ polls = 0) /\ Ends("failed")
    BY <1>4, <2>1, <2>2 DEF Ends, disk, InStep
  <2>3. CASE ~err /\ ~bsy /\ drdy /\ Ends("command")
    BY <1>4, <2>1, <2>3 DEF Ends, disk, InStep
  <2>4. CASE (bsy \/ ~drdy) /\ PollAgain
    BY <1>4, <2>1, <2>4 DEF PollAgain, disk, InStep
  <2> QED BY <1>4, <2>2, <2>3, <2>4 DEF ata_wait_ready
<1>5. CASE Command /\ UNCHANGED root_sectors
  <2>1. ~drq /\ drdy
    BY <1>5 DEF Command, InStep
  <2>2. /\ bsy' = TRUE /\ drq' = FALSE /\ err' = FALSE /\ loaded' = lba /\ drdy' = drdy
        /\ ata' = "wait_drq" /\ polls' = Timeout /\ lba' = lba
    BY <1>5, <2>1 DEF Command
  <2>3. ata' \notin {"command", "transfer", "done", "wait_ready", "failed"}
    BY <2>2
  <2> QED BY <1>5, <2>1, <2>2, <2>3, Zenon DEF InStep
<1>6. CASE ata_wait_drq /\ UNCHANGED root_sectors
  <2>1. polls \in Nat /\ loaded = lba /\ ata = "wait_drq" /\ drdy
    BY <1>6 DEF ata_wait_drq, InStep, AtaTypes
  <2>2. CASE (err \/ polls = 0) /\ Ends("failed")
    BY <1>6, <2>1, <2>2 DEF Ends, disk, InStep
  <2>3. CASE ~err /\ drq /\ Ends("transfer")
    BY <1>6, <2>1, <2>3 DEF Ends, disk, InStep
  <2>4. CASE ~err /\ ~drq /\ PollAgain
    BY <1>6, <2>1, <2>4 DEF PollAgain, disk, InStep
  <2> QED BY <1>6, <2>2, <2>3, <2>4 DEF ata_wait_drq
<1>7. CASE Transfer /\ UNCHANGED root_sectors
  <2>1. loaded = lba /\ ~bsy /\ ~err /\ ata = "transfer" /\ drdy
    BY <1>7 DEF Transfer, InStep
  <2>2. /\ sector_buf' = lba' /\ drq' = FALSE /\ ata' = "done" /\ bsy' = bsy /\ err' = err
        /\ drdy' = drdy
    BY <1>7, <2>1 DEF Transfer
  <2>3. ata' \notin {"wait_drq", "transfer", "wait_ready", "failed"}
    BY <2>2
  <2> QED BY <2>1, <2>2, <2>3, Zenon DEF InStep
<1>8. CASE DiskAnswers /\ UNCHANGED root_sectors
  <2>1. ata = "wait_drq" /\ ~drq /\ ~err /\ polls > 0 /\ loaded = lba /\ drdy
    BY <1>8 DEF DiskAnswers, Overdue, NeverLate, InStep
  <2>2. /\ bsy' = FALSE /\ ata' = ata /\ polls' = polls /\ loaded' = loaded /\ lba' = lba
        /\ drdy' = drdy
        /\ (drq' = TRUE /\ err' = err) \/ (err' = TRUE /\ drq' = drq)
    BY <1>8 DEF DiskAnswers
  <2>3. ata' = "wait_drq" /\ polls' > 0 /\ loaded' = lba' /\ drdy'
    BY <2>1, <2>2
  <2>4. ata' \notin {"transfer", "command", "done", "failed", "wait_ready"}
        /\ ata' \in {"wait_drq", "transfer"}
    BY <2>3
  <2>5. CASE drq' = TRUE /\ err' = err
    BY <2>1, <2>2, <2>3, <2>4, <2>5, Zenon DEF InStep
  <2>6. CASE err' = TRUE /\ drq' = drq
    BY <2>1, <2>2, <2>3, <2>4, <2>6, Zenon DEF InStep
  <2> QED BY <2>2, <2>5, <2>6
<1>9. CASE DiskGetsReady /\ UNCHANGED root_sectors
  BY <1>9 DEF DiskGetsReady, InStep
<1> QED BY <1>1, <1>2, <1>3, <1>4, <1>5, <1>6, <1>7, <1>8, <1>9, DriverSees
        DEF ata_read_sector, DiskStep

LEMMA StaysServing ==
    ASSUME AtaTypes, CallTypes, InStep, Serves, [FsNext]_fsVars
    PROVE  Serves'
<1>1. CASE NoDisk
  BY <1>1 DEF NoDisk, Serves, ataVars
<1>2. CASE Mount
  BY <1>2 DEF Mount, Call, Serves
<1>3. CASE fat16_init \/ SearchFails \/ SearchMeetsEnd \/ ReadFails
  BY <1>3 DEF fat16_init, SearchFails, SearchMeetsEnd, ReadFails, Returns, Rest, Serves
<1>4. CASE fat16_list_root
  BY <1>4, Sizes DEF fat16_list_root, Call, Serves
<1>5. CASE ListSector
  <2>1. CASE task' = "idle" /\ Rest
    BY <2>1 DEF Rest, Serves
  <2>2. CASE task' = task /\ Call(RootStart + sector + 1) /\ sector' = sector + 1
    <3>1. RootStart + sector + 1 = RootStart + (sector + 1)
      BY <1>5, Sizes DEF ListSector, CallTypes
    <3> QED BY <1>5, <2>2, <3>1 DEF ListSector, Call, Serves
  <2> QED BY <1>5, <2>1, <2>2 DEF ListSector
<1>6. ASSUME NEW name \in Names, NEW max \in MaxSizes, fat16_read_file(name, max)
      PROVE  Serves'
  <2>1. CASE Returns(-1)
    BY <2>1 DEF Returns, Rest, Serves
  <2>2. CASE task' = "search" /\ Call(RootStart) /\ sector' = 0
    BY <2>2, Sizes DEF Call, Serves
  <2> QED BY <1>6, <2>1, <2>2 DEF fat16_read_file
<1>7. CASE SearchNext
  <2>1. CASE Returns(-1)
    BY <2>1 DEF Returns, Rest, Serves
  <2>2. CASE task' = task /\ Call(RootStart + sector + 1) /\ sector' = sector + 1
    <3>1. RootStart + sector + 1 = RootStart + (sector + 1)
      BY <1>7, Sizes DEF SearchNext, CallTypes
    <3> QED BY <1>7, <2>2, <3>1 DEF SearchNext, Call, Serves
  <2> QED BY <1>7, <2>1, <2>2 DEF SearchNext
<1>8. CASE SearchFinds
  <2>1. CASE Returns(0)
    BY <2>1 DEF Returns, Rest, Serves
  <2>2. CASE task' = "read" /\ Call(sector')
    BY <2>2 DEF Call, Serves
  <2> QED BY <1>8, <2>1, <2>2 DEF SearchFinds
<1>9. CASE CopySector
  <2>1. CASE Returns(Len(buffer'))
    BY <2>1 DEF Returns, Rest, Serves
  <2>2. CASE task' = task /\ Call(sector + 1) /\ sector' = sector + 1
    BY <1>9, <2>2 DEF CopySector, Call, Serves
  <2> QED BY <1>9, <2>1, <2>2 DEF CopySector
<1>10. CASE DriverStep
  <2>1. (ata' = "idle" <=> ata = "idle") /\ lba' = lba
    BY <1>10 DEF DriverStep, ata_read_sector, ata_wait_ready, Command, ata_wait_drq,
                 Transfer, DiskStep, DiskAnswers, DiskGetsReady, PollAgain, Ends
  <2> QED BY <1>10, <2>1 DEF DriverStep, fatVars, Serves
<1>11. CASE UNCHANGED fsVars
  BY <1>11 DEF fsVars, ataVars, fatVars, Serves
<1> QED BY <1>1, <1>2, <1>3, <1>4, <1>5, <1>6, <1>7, <1>8, <1>9, <1>10, <1>11
        DEF FsNext, FsStep, UserReads

-----------------------------------------------------------------------------
(* The sectors a listing and a search have passed.                         *)

At(s) == {i \in Slots : (i - 1) \div PerSector = s}

LEMMA SectorsInTurn ==
    /\ Before(0) = {} /\ Before(RootSectors) = Slots
    /\ \A s \in Nat : Before(s + 1) = Before(s) \cup At(s)
<1>1. ASSUME NEW i \in Slots
      PROVE  (i - 1) \div PerSector \in Nat /\ (i - 1) \div PerSector < RootSectors
  <2>1. PICK x \in Nat : x = i - 1 /\ x < RootSectors * PerSector
    BY Sizes DEF Slots
  <2>2. PICK q \in Nat, r \in Nat : q = x \div PerSector /\ x = PerSector * q + r
    BY Sizes
  <2>3. ASSUME q >= RootSectors PROVE FALSE
    <3>1. PICK t \in Nat : q = RootSectors + t
      <4>1. q - RootSectors \in Nat /\ q = RootSectors + (q - RootSectors)
        BY <2>3, Sizes
      <4> QED BY <4>1
    <3>2. PerSector * q = RootSectors * PerSector + PerSector * t
      BY <3>1, Sizes
    <3>3. PerSector * t \in Nat /\ RootSectors * PerSector \in Nat
      BY Sizes
    <3> QED BY <2>1, <2>2, <3>2, <3>3
  <2> QED BY <2>1, <2>2, <2>3, Sizes
<1> QED BY <1>1, Sizes DEF Before, At

\* A sector that has been read is the one the search is at.
LEMMA ReadsWhereItIs ==
    ASSUME AtaTypes, CallTypes, InStep, Serves, ata = "done", task \in {"list", "search"}
    PROVE  EntriesRead = At(sector) /\ sector \in Nat
<1>1. sector \in Nat /\ sector_buf = RootStart + sector /\ RootStart \in Nat
  BY Sizes DEF CallTypes, InStep, Serves
<1>2. sector_buf - RootStart = sector
  BY <1>1
<1> QED BY <1>1, <1>2 DEF EntriesRead, At

\* A sector in which the search is over is the first such one.
LEMMA LastSector ==
    ASSUME CallTypes, task \in {"list", "search"}, sector + 1 = root_sectors
    PROVE  Before(sector) \cup At(sector) = Slots
<1>1. root_sectors = RootSectors /\ sector \in Nat
  BY Sizes DEF CallTypes
<1> QED BY <1>1, SectorsInTurn

FsBase == AtaTypes /\ CallTypes /\ InStep /\ Serves

LEMMA PassedSame ==
    ASSUME Passed, UNCHANGED <<dir, want, task, sector, listed>>
    PROVE  Passed'
  BY DEF Passed, Before, Matches, Visible

LEMMA StaysPassed ==
    ASSUME FsBase, Passed, [FsNext]_fsVars
    PROVE  Passed'
<1>1. CASE task' \notin {"list", "search"}
  BY <1>1 DEF Passed
<1>2. CASE fat16_list_root
  BY <1>2, SectorsInTurn DEF fat16_list_root, Passed, Before
<1>3. CASE ListSector /\ task' # "idle"
  <2> DEFINE ends == {i \in EntriesRead : dir[i].kind = "end"}
             shown == IF ata = "failed" THEN {}
                      ELSE {i \in EntriesRead : Visible(dir[i]) /\ \A j \in ends : i < j}
  <2>1. /\ ata = "done" /\ ends = {} /\ task = "list" /\ task' = "list" /\ sector' = sector + 1
        /\ listed' = listed \cup {dir[i].name : i \in shown} /\ UNCHANGED <<dir, want>>
    BY <1>3 DEF ListSector, request
  <2>2. EntriesRead = At(sector) /\ sector \in Nat
    BY <2>1, ReadsWhereItIs DEF FsBase
  <2>3. Before(sector') = Before(sector) \cup At(sector)
    BY <2>1, <2>2, SectorsInTurn
  <2>4. shown = {i \in At(sector) : Visible(dir[i])}
    BY <2>1, <2>2
  <2>5. \A i \in At(sector) : dir[i].kind # "end"
    BY <2>1, <2>2
  <2>6. \A i \in Before(sector') : dir[i].kind # "end"
    BY <2>1, <2>3, <2>5 DEF Passed
  <2>7. listed' = {dir[i].name : i \in {j \in Before(sector') : Visible(dir[j])}}
    <3> HIDE DEF ends, shown
    <3>1. listed = {dir[i].name : i \in {j \in Before(sector) : Visible(dir[j])}}
      BY <2>1 DEF Passed
    <3> QED BY <2>1, <2>3, <2>4, <3>1
  <2>8. dir' = dir /\ Before(sector)' = Before(sector') /\ task' = "list"
    BY <2>1 DEF Before
  <2> QED BY <2>6, <2>7, <2>8 DEF Passed, Visible
<1>4. ASSUME NEW name \in Names, NEW max \in MaxSizes, fat16_read_file(name, max)
      PROVE  Passed'
  <2>1. sector' = 0 /\ task' # "list"
    BY <1>4 DEF fat16_read_file, Returns
  <2> QED BY <2>1, SectorsInTurn DEF Passed, Before
<1>5. CASE SearchNext /\ task' # "idle"
  <2>1. /\ ata = "done" /\ Decisive = {} /\ task = "search" /\ task' = "search"
        /\ sector' = sector + 1 /\ UNCHANGED <<dir, want>>
    BY <1>5 DEF SearchNext, Returns, request
  <2>2. EntriesRead = At(sector) /\ sector \in Nat
    BY <2>1, ReadsWhereItIs DEF FsBase
  <2>3. Before(sector') = Before(sector) \cup At(sector)
    BY <2>1, <2>2, SectorsInTurn
  <2>4. \A i \in Before(sector') : dir[i].kind # "end" /\ ~Matches(i)
    BY <2>1, <2>2, <2>3 DEF Passed, Decisive
  <2> QED BY <2>1, <2>4 DEF Passed, Before, Matches
<1>6. CASE DriverStep \/ UNCHANGED fsVars
  BY <1>6, PassedSame DEF DriverStep, fatVars, fsVars
<1>7. CASE NoDisk \/ Mount \/ fat16_init \/ SearchFails \/ SearchMeetsEnd \/ ReadFails
  BY <1>1, <1>7 DEF NoDisk, Mount, fat16_init, SearchFails, SearchMeetsEnd, ReadFails, Returns
<1>8. CASE SearchFinds \/ CopySector
  BY <1>1, <1>8 DEF SearchFinds, CopySector, Returns
<1> QED BY <1>1, <1>2, <1>3, <1>4, <1>5, <1>6, <1>7, <1>8 DEF FsNext, FsStep, UserReads

-----------------------------------------------------------------------------
(* The entry a search finds.                                               *)

LEMMA EntriesAreSlots == Entries(want) \in SUBSET Nat /\ Entries(want) \subseteq Slots
  BY SlotsAreNumbers DEF Entries

\* The first entry that ends the search is the file's, if it is not the end.
LEMMA SearchIsRight ==
    ASSUME FsBase, Passed, task = "search", ata = "done", Decisive # {},
           dir[Min(Decisive)].kind # "end"
    PROVE  Entries(want) # {} /\ Min(Entries(want)) = Min(Decisive)
<1>1. PICK m \in Slots : m = Min(Decisive)
  BY DecisiveEntry
<1>2. EntriesRead = At(sector) /\ sector \in Nat
  BY ReadsWhereItIs DEF FsBase
<1>3. m \in At(sector) /\ Matches(m) /\ \A i \in Decisive : m <= i
  BY <1>1, <1>2, DecisiveEntry DEF Decisive
<1>4. ASSUME NEW j \in Slots, j < m
      PROVE  dir[j].kind # "end" /\ ~Matches(j)
  <2>1. (j - 1) \div PerSector <= (m - 1) \div PerSector
    <3>1. PICK x \in Nat, y \in Nat : x = j - 1 /\ y = m - 1 /\ x < y
      BY <1>4, SlotsAreNumbers
    <3> QED BY <3>1, Sizes
  <2>2. (j - 1) \div PerSector <= sector /\ (j - 1) \div PerSector \in Int
    BY <1>3, <2>1, SlotsAreNumbers, Sizes DEF At
  <2>3. j \in Before(sector) \/ j \in At(sector)
    BY <1>2, <2>2 DEF Before, At
  <2>4. j \in At(sector) => j \notin Decisive
    BY <1>1, <1>3, <1>4, SlotsAreNumbers
  <2> QED BY <1>2, <2>3, <2>4 DEF Passed, Decisive
<1>5. m \in Entries(want)
  <2>1. \A j \in 1..(m - 1) : j \in Slots /\ j < m
    BY <1>1, Sizes DEF Slots
  <2> QED BY <1>1, <1>3, <1>4, <2>1 DEF Entries, Matches
<1>6. ASSUME NEW i \in Entries(want) PROVE m <= i
  <2>1. i \in Slots /\ Matches(i)
    BY <1>6 DEF Entries, Matches
  <2> QED BY <1>4, <2>1, SlotsAreNumbers
<1>7. PICK n \in Slots : n = Min(Entries(want)) /\ n \in Entries(want) /\ n <= m
  BY <1>5, EntriesAreSlots, MinIsMember
<1>8. m = n
  BY <1>6, <1>7, SlotsAreNumbers
<1> QED BY <1>1, <1>5, <1>7, <1>8

\* When the search gives up, there is no such file.
LEMMA SearchMisses ==
    ASSUME FsBase, Passed, task = "search", ata = "done",
           \/ Decisive = {} /\ sector + 1 = root_sectors
           \/ Decisive # {} /\ dir[Min(Decisive)].kind = "end"
    PROVE  Entries(want) = {}
<1>1. EntriesRead = At(sector) /\ sector \in Nat
  BY ReadsWhereItIs DEF FsBase
<1>2. CASE Decisive = {} /\ sector + 1 = root_sectors
  <2>1. Before(sector) \cup At(sector) = Slots
    BY <1>2, LastSector DEF FsBase
  <2>2. \A i \in Slots : ~Matches(i)
    BY <1>1, <1>2, <2>1 DEF Passed, Decisive
  <2> QED BY <2>2 DEF Entries, Matches
<1>3. CASE Decisive # {} /\ dir[Min(Decisive)].kind = "end"
  <2> SUFFICES ASSUME NEW i \in Entries(want) PROVE FALSE
    OBVIOUS
  <2>1. PICK m \in Slots : m = Min(Decisive)
    BY <1>3, DecisiveEntry
  <2>2. dir[m].kind = "end" /\ m \in At(sector) /\ \A j \in Decisive : m <= j
    BY <1>1, <1>3, <2>1, DecisiveEntry DEF Decisive
  <2>3. i \in Slots /\ Matches(i) /\ \A j \in 1..(i - 1) : dir[j].kind # "end"
    BY DEF Entries, Matches
  <2>4. i < m
    <3>1. i # m /\ m \notin 1..(i - 1)
      BY <2>2, <2>3 DEF Matches
    <3> QED BY <2>1, <2>3, <3>1, SlotsAreNumbers
  <2>5. (i - 1) \div PerSector <= (m - 1) \div PerSector
    <3>1. PICK x \in Nat, y \in Nat : x = i - 1 /\ y = m - 1 /\ x < y
      BY <2>1, <2>3, <2>4, SlotsAreNumbers
    <3> QED BY <3>1, Sizes
  <2>6. (i - 1) \div PerSector <= sector /\ (i - 1) \div PerSector \in Int
    BY <2>2, <2>3, <2>5, SlotsAreNumbers, Sizes DEF At
  <2>7. i \in Before(sector) \/ i \in At(sector)
    BY <1>1, <2>3, <2>6 DEF Before, At
  <2>8. i \notin Before(sector)
    BY <2>3 DEF Passed
  <2>9. i \in Decisive
    BY <1>1, <2>3, <2>7, <2>8 DEF Decisive
  <2> QED BY <2>2, <2>4, <2>9, <2>1, <2>3, SlotsAreNumbers
<1> QED BY <1>2, <1>3

-----------------------------------------------------------------------------
(* The bytes a read copies.                                                *)

LEMMA SmallerWhole ==
    ASSUME NEW n \in Nat, NEW k \in Nat, n = SectorSize * k
    PROVE  /\ \A j \in 1..SectorSize : (n + j - 1) \div SectorSize = k
           /\ \A j \in 1..SectorSize : (n + j - 1) % SectorSize = j - 1
           /\ n + SectorSize = SectorSize * (k + 1)
<1>1. ASSUME NEW j \in 1..SectorSize
      PROVE  (n + j - 1) \div SectorSize = k /\ (n + j - 1) % SectorSize = j - 1
  <2>1. PICK r \in Nat : r = j - 1 /\ r < SectorSize
    BY Sizes
  <2>2. n + j - 1 = SectorSize * k + r
    BY <2>1, Sizes
  <2>3. (SectorSize * k + r) \div SectorSize = k /\ (SectorSize * k + r) % SectorSize = r
    BY <2>1, Sizes, QuotientUnique
  <2> QED BY <2>1, <2>2, <2>3
<1> QED BY <1>1, Sizes

\* The sector just read goes on where the copy has got to.
LEMMA CopyGoesOn ==
    ASSUME FsBase, Copied, CopySector
    PROVE  /\ Len(buffer') <= size
           /\ \A b \in 1..Len(buffer') : buffer'[b] = ByteOf(FirstSector(Entry), b - 1)
           /\ Len(buffer') < size => Len(buffer') = Len(buffer) + SectorSize
<1>1. PICK first \in Nat : first = FirstSector(Entry)
  BY DEF Copied, CopySector
<1>2. PICK k \in Nat : sector = first + k /\ Len(buffer) = SectorSize * k
  BY <1>1 DEF Copied, CopySector
<1>3. /\ Len(buffer) \in Nat /\ size \in Nat /\ Len(buffer) < size
      /\ sector_buf = sector
  BY DEF CopySector, FsBase, CallTypes, InStep, Serves
<1>4. /\ ToCopy = Smaller(SectorSize, size - Len(buffer))
      /\ Len(buffer') = Len(buffer) + ToCopy
      /\ \A b \in 1..Len(buffer) : buffer'[b] = buffer[b]
      /\ \A b \in 1..ToCopy : buffer'[Len(buffer) + b] = <<sector_buf, b - 1>>
  BY CopyAppends DEF FsBase
<1>5. ToCopy \in Nat /\ ToCopy <= SectorSize /\ ToCopy <= size - Len(buffer)
      /\ (ToCopy # SectorSize => ToCopy = size - Len(buffer))
  BY <1>3, <1>4, Sizes DEF Smaller
<1>6. PICK n \in Nat : n = Len(buffer)
  BY <1>3
<1>7. PICK m \in Nat : m = Len(buffer') /\ m = n + ToCopy
  BY <1>4, <1>5, <1>6
<1>8. ASSUME NEW b \in 1..m PROVE buffer'[b] = ByteOf(first, b - 1)
  <2>1. CASE b \in 1..n
    BY <1>1, <1>4, <1>6, <2>1 DEF Copied, CopySector
  <2>2. CASE b \notin 1..n
    <3>1. PICK j \in 1..SectorSize : b = n + j /\ j \in 1..ToCopy
      <4>1. b - n \in 1..ToCopy /\ b = n + (b - n)
        BY <1>5, <1>7, <2>2
      <4>2. b - n \in 1..SectorSize
        BY <1>5, <4>1, Sizes
      <4> QED BY <4>1, <4>2
    <3>2. buffer'[b] = <<first + k, j - 1>>
      BY <1>2, <1>3, <1>4, <1>6, <3>1
    <3>3. (n + j - 1) \div SectorSize = k /\ (n + j - 1) % SectorSize = j - 1
      BY <1>2, <1>6, SmallerWhole
    <3>4. b - 1 = n + j - 1
      BY <3>1, Sizes
    <3> QED BY <3>2, <3>3, <3>4 DEF ByteOf
  <2> QED BY <2>1, <2>2
<1> QED BY <1>1, <1>3, <1>5, <1>6, <1>7, <1>8

LEMMA EntrySame ==
    ASSUME UNCHANGED <<dir, want>>
    PROVE  Entry' = Entry /\ Entries(want)' = Entries(want)
  BY DEF Entry, Entries

LEMMA CopiedSame ==
    ASSUME Copied, UNCHANGED <<dir, want, max_size, task, sector, size, buffer, result>>
    PROVE  Copied'
<1>1. Entry' = Entry /\ Entries(want)' = Entries(want)
  BY EntrySame
<1>2. FirstSector(Entry)' = FirstSector(Entry)
  BY <1>1 DEF FirstSector
<1> QED BY <1>1, <1>2 DEF Copied

LEMMA StaysCopied ==
    ASSUME FsBase, Passed, Copied, [FsNext]_fsVars
    PROVE  Copied'
<1>1. CASE task' \notin {"search", "read"}
  BY <1>1 DEF Copied
<1>2. CASE SearchFinds /\ task' # "idle"
  <2>1. PICK i \in Slots : /\ i = Min(Decisive) /\ dir[i].kind \notin {"end", "deleted"}
                           /\ i = Min(Entries(want)) /\ Entries(want) # {}
    BY <1>2, DecisiveEntry, SearchIsRight DEF SearchFinds, Decisive, Matches
  <2>2. /\ size' = Smaller(dir[i].file_size, max_size) /\ size' # 0
        /\ sector' = FirstSector(dir[i]) /\ task' = "read" /\ result' = result
        /\ UNCHANGED <<dir, want, max_size, buffer>> /\ task = "search"
    BY <1>2, <2>1 DEF SearchFinds, Returns, request
  <2>3. dir[i] = Entry /\ Entry' = Entry /\ Entries(want)' # {}
    BY <2>1, <2>2, EntrySame DEF Entry
  <2>4. FirstSector(Entry) \in Nat
    <3>1. /\ dir[i].file_size \in Nat /\ max_size \in Nat
          /\ dir[i].file_size > 0 => FirstSector(dir[i]) \in Nat
      BY <2>1, FirstSectorIs, Sizes DEF FsBase, CallTypes
    <3>2. size' \in Nat /\ size' <= dir[i].file_size
      BY <2>2, <3>1, SmallerIs
    <3>3. dir[i].file_size > 0
      BY <2>2, <3>1, <3>2
    <3> QED BY <2>3, <3>1, <3>3
  <2>5. buffer' = <<>> /\ result' = None
    BY <2>2 DEF FsBase, CallTypes, Copied
  <2>6. sector' = FirstSector(Entry) + 0 /\ Len(buffer') = SectorSize * 0
    BY <2>2, <2>3, <2>4, <2>5, Sizes
  <2>7. FirstSector(Entry)' = FirstSector(Entry) /\ \A b \in 1..Len(buffer') : FALSE
    BY <2>3, <2>5 DEF FirstSector
  <2>8. size' = Smaller(Entry'.file_size, max_size')
    BY <2>2, <2>3
  <2>9. \E k \in Nat : sector' = FirstSector(Entry)' + k /\ Len(buffer') = SectorSize * k
    BY <2>6, <2>7
  <2> QED BY <2>2, <2>3, <2>4, <2>5, <2>7, <2>8, <2>9 DEF Copied
<1>3. CASE CopySector /\ task' # "idle"
  <2>1. /\ task = "read" /\ task' = "read" /\ result' = result /\ sector' = sector + 1
        /\ ~(Len(buffer') >= size) /\ UNCHANGED <<dir, want, max_size, size>>
    BY <1>3 DEF CopySector, Returns, request
  <2>2. Entry' = Entry /\ Entries(want)' = Entries(want)
    BY <2>1, EntrySame
  <2>3. FirstSector(Entry)' = FirstSector(Entry)
    BY <2>2 DEF FirstSector
  <2>4. buffer' \in Seq(Bytes) /\ size \in Nat
    BY <1>3, CopyAppends DEF FsBase, CallTypes
  <2>5. Len(buffer') \in Nat /\ Len(buffer') < size
    BY <2>1, <2>4
  <2>6. /\ \A b \in 1..Len(buffer') : buffer'[b] = ByteOf(FirstSector(Entry), b - 1)
        /\ Len(buffer') = Len(buffer) + SectorSize
    BY <1>3, <2>5, CopyGoesOn
  <2>7. PICK first \in Nat : first = FirstSector(Entry)
    BY <2>1 DEF Copied
  <2>8. PICK k \in Nat : sector = first + k /\ Len(buffer) = SectorSize * k
    BY <2>1, <2>7 DEF Copied
  <2>9. k + 1 \in Nat /\ sector' = first + (k + 1) /\ Len(buffer') = SectorSize * (k + 1)
    BY <2>1, <2>6, <2>8, Sizes
  <2>10. \E l \in Nat : sector' = FirstSector(Entry)' + l /\ Len(buffer') = SectorSize * l
    BY <2>3, <2>7, <2>9
  <2> QED BY <2>1, <2>2, <2>3, <2>6, <2>10 DEF Copied, ByteOf
<1>4. ASSUME NEW name \in Names, NEW max \in MaxSizes, fat16_read_file(name, max)
      PROVE  Copied'
  <2>1. task' # "read" /\ (task' = "search" => result' = None)
    BY <1>4 DEF fat16_read_file, Returns
  <2> QED BY <2>1 DEF Copied
<1>5. CASE SearchNext /\ task' # "idle"
  <2>1. task = "search" /\ task' = "search" /\ result' = result
    BY <1>5 DEF SearchNext, Returns
  <2> QED BY <2>1 DEF Copied
<1>6. CASE DriverStep \/ UNCHANGED fsVars
  BY <1>6, CopiedSame DEF DriverStep, fatVars, fsVars
<1>7. CASE NoDisk \/ Mount \/ fat16_init \/ SearchFails \/ SearchMeetsEnd \/ ReadFails
  BY <1>1, <1>7 DEF NoDisk, Mount, fat16_init, SearchFails, SearchMeetsEnd, ReadFails, Returns
<1>8. CASE fat16_list_root \/ ListSector
  BY <1>1, <1>8 DEF fat16_list_root, ListSector
<1> QED BY <1>1, <1>2, <1>3, <1>4, <1>5, <1>6, <1>7, <1>8 DEF FsNext, FsStep, UserReads

-----------------------------------------------------------------------------
(* The inductive invariant on a disk that is never late.                   *)

LEMMA FsInvSplit == FsInv <=> FsBase /\ Passed /\ Copied
  BY TypesSplit DEF FsInv, FsBase

LEMMA FsInvInitially == FsInit => FsInv
<1> SUFFICES ASSUME FsInit PROVE FsInv
  OBVIOUS
<1>1. FsTypes
  BY TypesInitially
<1>2. InStep /\ Serves
  BY DEF FsInit, AtaInit, InStep, Serves
<1>3. Passed /\ Copied
  BY DEF FsInit, Passed, Copied
<1> QED BY <1>1, <1>2, <1>3 DEF FsInv

LEMMA FsInvStep == ASSUME NeverLate PROVE FsInv /\ [FsNext]_fsVars => FsInv'
<1> SUFFICES ASSUME FsInv, [FsNext]_fsVars PROVE FsInv'
  OBVIOUS
<1>1. AtaTypes /\ CallTypes /\ InStep /\ Serves /\ Passed /\ Copied /\ FsBase
  BY FsInvSplit DEF FsBase
<1>2. FsTypes'
  BY TypesStep DEF FsInv
<1>3. InStep' /\ Serves'
  BY <1>1, StaysInStep, StaysServing
<1>4. Passed' /\ Copied'
  BY <1>1, StaysPassed, StaysCopied
<1> QED BY <1>2, <1>3, <1>4 DEF FsInv

\* fat16.c 69-174: on a disk that is never late the inductive invariant holds,
\* whichever commands fail or are never answered.
THEOREM FsInvariant == ASSUME NeverLate PROVE FsSpec => []FsInv
  BY FsInvInitially, FsInvStep, PTL DEF FsSpec

\* ata.c 91-94: unless the disk is so late that the driver gives up on a
\* command whose data is still to come, a read that succeeds has put the data of
\* the sector it was asked for into the buffer.
THEOREM RightSectorRead == ASSUME NeverLate PROVE FsSpec => []ReadsTheSectorAsked
<1>1. FsInv => ReadsTheSectorAsked
  BY DEF FsInv, InStep, ReadsTheSectorAsked
<1> QED BY <1>1, FsInvariant, PTL

\* fat16.c 69-111: a listing that no failure of the disk cut short has shown all the
\* files of the root directory, and nothing else, on every directory.
THEOREM ListingIsComplete == ASSUME NeverLate PROVE FsSpec => ListsEveryFile
<1> DEFINE All == {name \in Names : \E i \in Entries(name) : dir[i].kind = "file"}
           Shown == task = "list" /\ task' = "idle" /\ ata = "done" => listed' = All
<1>1. FsInv /\ [FsNext]_fsVars => [Shown]_fsVars
  <2> SUFFICES ASSUME FsInv, [FsNext]_fsVars, task = "list", task' = "idle", ata = "done"
               PROVE  listed' = All
    OBVIOUS
  <2>1. ListSector
    BY DEF FsNext, FsStep, UserReads, DriverStep, fsVars, fatVars, NoDisk, Mount, fat16_init,
           SearchFails, SearchNext, SearchMeetsEnd, SearchFinds, CopySector, ReadFails,
           fat16_list_root, fat16_read_file
  <2>2. FsBase /\ Passed
    BY FsInvSplit
  <2>3. EntriesRead = At(sector) /\ sector \in Nat
    BY <2>2, ReadsWhereItIs DEF FsBase
  <2> DEFINE ends == {i \in EntriesRead : dir[i].kind = "end"}
             shown == {i \in EntriesRead : Visible(dir[i]) /\ \A j \in ends : i < j}
             old == {j \in Before(sector) : Visible(dir[j])}
             files == {i \in Slots : Visible(dir[i]) /\ \A j \in 1..(i - 1) : dir[j].kind # "end"}
  <2>4. listed' = listed \cup {dir[i].name : i \in shown} /\ (ends # {} \/ sector + 1 = root_sectors)
    BY <2>1 DEF ListSector
  <2>5. listed = {dir[i].name : i \in old} /\ \A i \in Before(sector) : dir[i].kind # "end"
    BY <2>2 DEF Passed
  <2>6. ASSUME NEW i \in old \cup shown PROVE i \in files
    <3>1. i \in Slots /\ Visible(dir[i])
      BY <2>3 DEF Before, At
    <3>2. ASSUME NEW j \in 1..(i - 1) PROVE dir[j].kind # "end"
      <4>1. j \in Slots /\ j < i
        BY <3>1, Sizes DEF Slots
      <4>2. (j - 1) \div PerSector <= (i - 1) \div PerSector
        <5>1. PICK x \in Nat, y \in Nat : x = j - 1 /\ y = i - 1 /\ x < y
          BY <3>1, <4>1, SlotsAreNumbers
        <5> QED BY <5>1, Sizes
      <4>3. (j - 1) \div PerSector \in Int /\ (i - 1) \div PerSector <= sector
        BY <2>3, <3>1, <4>1, SlotsAreNumbers, Sizes DEF Before, At
      <4>4. (i - 1) \div PerSector \in Int
        BY <3>1, SlotsAreNumbers, Sizes
      <4>5. j \in Before(sector) \/ j \in At(sector)
        BY <2>3, <4>1, <4>2, <4>3, <4>4 DEF Before, At
      <4>6. j \in At(sector) => dir[j].kind # "end"
        <5> SUFFICES ASSUME j \in ends PROVE FALSE
          BY <2>3
        <5>1. i \notin shown
          BY <3>1, <4>1, SlotsAreNumbers
        <5>2. (i - 1) \div PerSector < sector
          BY <5>1 DEF Before
        <5>3. (j - 1) \div PerSector = sector
          BY <2>3 DEF At
        <5> QED BY <2>3, <4>2, <4>3, <4>4, <5>2, <5>3
      <4> QED BY <2>5, <4>5, <4>6
    <3> QED BY <3>1, <3>2
  <2>7. ASSUME NEW i \in files PROVE i \in old \cup shown
    <3>1. i \in Slots /\ Visible(dir[i]) /\ \A j \in 1..(i - 1) : dir[j].kind # "end"
      OBVIOUS
    <3>2. \A j \in Slots : dir[j].kind = "end" => i < j
      <4> SUFFICES ASSUME NEW j \in Slots, dir[j].kind = "end", ~(i < j) PROVE FALSE
        OBVIOUS
      <4>1. i # j
        BY <3>1 DEF Visible
      <4>2. j \in 1..(i - 1)
        BY <3>1, <4>1, SlotsAreNumbers
      <4> QED BY <3>1, <4>2
    <3>3. CASE i \in Before(sector) \cup At(sector)
      BY <2>3, <3>1, <3>2, <3>3 DEF At
    <3>4. CASE i \notin Before(sector) \cup At(sector)
      <4>1. PICK j \in At(sector) : dir[j].kind = "end"
        BY <2>2, <2>3, <2>4, <3>1, <3>4, LastSector DEF FsBase
      <4>2. i < j /\ j \in Slots /\ (j - 1) \div PerSector = sector
        BY <3>2, <4>1 DEF At
      <4>3. (i - 1) \div PerSector <= (j - 1) \div PerSector
        <5>1. PICK x \in Nat, y \in Nat : x = i - 1 /\ y = j - 1 /\ x < y
          BY <3>1, <4>2, SlotsAreNumbers
        <5> QED BY <5>1, Sizes
      <4>4. (i - 1) \div PerSector \in Int
        BY <3>1, SlotsAreNumbers, Sizes
      <4> QED BY <2>3, <3>1, <3>4, <4>2, <4>3, <4>4 DEF Before, At
    <3> QED BY <3>3, <3>4
  <2>8. listed' = {dir[i].name : i \in files}
    <3> HIDE DEF old, shown, files, ends
    <3> QED BY <2>4, <2>5, <2>6, <2>7
  <2>9. {dir[i].name : i \in files} = All
    <3>1. ASSUME NEW i \in files PROVE dir[i].name \in All
      <4>1. dir \in Directories
        BY <2>2 DEF FsBase, CallTypes
      <4>2. dir[i].name \in Names
        BY <4>1, DirectoryAssumption DEF Visible
      <4>3. i \in Entries(dir[i].name) /\ dir[i].kind = "file"
        BY DEF Entries, Visible
      <4> QED BY <4>2, <4>3
    <3>2. ASSUME NEW name \in All PROVE \E i \in files : name = dir[i].name
      BY DEF Entries, Visible
    <3> QED BY <3>1, <3>2
  <2> QED BY <2>8, <2>9
<1>2. FsSpec => [][Shown]_fsVars
  BY <1>1, FsInvariant, PTL DEF FsSpec
<1> QED BY <1>2, PTL DEF ListsEveryFile

-----------------------------------------------------------------------------
(* Where the bytes of a file are.                                          *)

\* The clusters of a file that are next to one another in the FAT.
LEMMA ClustersInARow ==
    ASSUME NEW e, NEW k \in Nat, e.first \in Nat,
           \A i \in 1..k : FAT[e.first + i - 1] = e.first + i
    PROVE  ClusterOf(e, k) = e.first + k
<1> DEFINE Chain(c) == c = [i \in 0..k |-> IF i = 0 THEN e.first ELSE FAT[c[i - 1]]]
<1>1. PICK c : Chain(c) /\ ClusterOf(e, k) = c[k]
  <2> DEFINE d == [i \in 0..k |-> e.first + i]
  <2>1. \A i \in 0..k : d[i] = IF i = 0 THEN e.first ELSE FAT[d[i - 1]]
    OBVIOUS
  <2>2. Chain(d)
    BY <2>1
  <2>3. Chain(CHOOSE c : Chain(c))
    <3> HIDE DEF Chain, d
    <3> QED BY <2>2, Zenon
  <2>4. ClusterOf(e, k) = (CHOOSE c : Chain(c))[k]
    BY Zenon DEF ClusterOf
  <2> QED BY <2>3, <2>4
<1>2. c[0] = e.first /\ \A i \in 1..k : c[i] = FAT[c[i - 1]]
  BY <1>1
<1>3. PICK S : S = {i \in Nat : c[i] = e.first + i}
  OBVIOUS
<1>4. 0 \in S
  BY <1>2, <1>3
<1>5. ASSUME NEW i \in 0..(k - 1), i \in S PROVE i + 1 \in S
  BY <1>2, <1>3, <1>5
<1>6. k \in S
  BY <1>4, <1>5, IntervalInduction
<1> QED BY <1>1, <1>3, <1>6

\* Then following the chain is the same as counting sectors.
LEMMA SectorsInARow ==
    ASSUME NEW e, e.first \in Nat, e.file_size \in Nat, FirstSector(e) \in Nat,
           NEW b \in Nat, b < e.file_size,
           \A k \in 1..((e.file_size - 1) \div ClusterSize) : FAT[e.first + k - 1] = e.first + k
    PROVE  <<SectorOf(e, b), b % SectorSize>> = ByteOf(FirstSector(e), b)
<1>1. ClusterSize \in Nat \ {0} /\ ClusterSize = PerCluster * SectorSize
  BY Sizes DEF ClusterSize
<1>2. PICK q \in Nat, r \in Nat : /\ q = b \div ClusterSize /\ r = b % ClusterSize
                                /\ b = ClusterSize * q + r
  <2>1. /\ b \div ClusterSize \in Nat /\ b % ClusterSize \in Nat
        /\ b = ClusterSize * (b \div ClusterSize) + (b % ClusterSize)
    <3>1. PICK c \in Nat \ {0} : c = ClusterSize
      BY <1>1
    <3> QED BY <3>1, Division
  <2> QED BY <2>1, Zenon
<1>3. PICK u \in Nat, v \in Nat : /\ u = r \div SectorSize /\ r = SectorSize * u + v
                                /\ v < SectorSize
  BY Sizes, Division, Zenon
<1>4. b = SectorSize * (PerCluster * q + u) + v
  <2>1. PICK p \in Nat : p = PerCluster * q
    BY Sizes
  <2>2. PICK x \in Nat, y \in Nat : x = SectorSize * p /\ y = SectorSize * u
    BY Sizes
  <2>3. ClusterSize * q = x
    BY <1>1, <2>1, <2>2, Sizes
  <2>4. SectorSize * (p + u) = x + y
    BY <2>2, Sizes
  <2>5. b = (x + y) + v
    BY <1>2, <1>3, <2>2, <2>3
  <2> QED BY <2>1, <2>4, <2>5
<1>5. b \div SectorSize = PerCluster * q + u
  <2>1. PerCluster * q + u \in Nat
    BY Sizes
  <2> QED BY <1>3, <1>4, <2>1, Sizes, QuotientUnique
<1>6. ClusterOf(e, q) = e.first + q
  <2>1. q <= (e.file_size - 1) \div ClusterSize
    <3>1. PICK x \in Nat : x = e.file_size - 1 /\ b <= x
      OBVIOUS
    <3> QED BY <1>1, <1>2, <3>1, DivisionMonotonic
  <2>2. (e.file_size - 1) \div ClusterSize \in Int
    BY <1>1
  <2>3. \A i \in 1..q : FAT[e.first + i - 1] = e.first + i
    BY <2>1, <2>2
  <2> QED BY <2>3, ClustersInARow
<1>7. SectorOf(e, b) = DataStart + (e.first + q - 2) * PerCluster + u
  <2>1. SectorOf(e, b) = DataStart + (ClusterOf(e, b \div ClusterSize) - 2) * PerCluster
                                   + (b % ClusterSize) \div SectorSize
    BY Zenon DEF SectorOf
  <2>2. b \div ClusterSize = q /\ b % ClusterSize = r /\ r \div SectorSize = u
    BY <1>2, <1>3, Zenon
  <2>3. SectorOf(e, b) = DataStart + (ClusterOf(e, q) - 2) * PerCluster + u
    BY <2>1, <2>2
  <2> QED BY <1>6, <2>3
<1>8. (e.first + q - 2) * PerCluster = (e.first - 2) * PerCluster + PerCluster * q
  BY Sizes
<1>9. SectorOf(e, b) = FirstSector(e) + (PerCluster * q + u)
  <2>1. (e.first - 2) * PerCluster \in Int /\ PerCluster * q \in Int
    BY Sizes
  <2> QED BY <1>7, <1>8, <2>1, Sizes DEF FirstSector
<1> QED BY <1>5, <1>9 DEF ByteOf

-----------------------------------------------------------------------------
(* What callers see.                                                       *)

LEMMA FilesStay == ASSUME dir' = dir PROVE FilesOnDisk' = FilesOnDisk
  BY DEF FilesOnDisk, Entries

LEMMA NothingAsked == ASSUME task \notin {"search", "read"} PROVE CallSeen = F!NoCall
  BY Zenon DEF CallSeen, F!NoCall

LEMMA NothingAskedNext ==
    ASSUME task' \notin {"search", "read"} PROVE CallSeen' = F!NoCall
  BY Zenon DEF CallSeen, F!NoCall

LEMMA SomethingAsked ==
    ASSUME task \in {"search", "read"}, want \in Names
    PROVE  /\ CallSeen = [name |-> want, max |-> max_size] /\ CallSeen # F!NoCall
           /\ CallSeen.name = want /\ CallSeen.max = max_size
<1>1. CallSeen = [name |-> want, max |-> max_size]
  BY Zenon DEF CallSeen
<1>2. CallSeen.name = want /\ CallSeen.max = max_size
  BY <1>1
<1>3. F!NoCall.name \notin Names
  BY NamesAssumption, Zenon DEF F!NoCall
<1> QED BY <1>1, <1>2, <1>3

\* The file a read is about, if there is one.
LEMMA FileRead ==
    ASSUME Contiguous, CallTypes
    PROVE  /\ want \in DOMAIN FilesOnDisk <=> Entries(want) # {}
           /\ Entries(want) # {} =>
                /\ Entry.file_size \in Nat /\ Len(FilesOnDisk[want]) = Entry.file_size
                /\ Entry.file_size > 0 => FirstSector(Entry) \in Nat
                /\ \A b \in 1..Entry.file_size :
                      FilesOnDisk[want][b] = ByteOf(FirstSector(Entry), b - 1)
<1>1. want \in Names
  BY DEF CallTypes
<1>2. want \in DOMAIN FilesOnDisk <=> Entries(want) # {}
  BY <1>1 DEF FilesOnDisk
<1>3. ASSUME Entries(want) # {}
      PROVE  /\ Entry.file_size \in Nat /\ Len(FilesOnDisk[want]) = Entry.file_size
             /\ Entry.file_size > 0 => FirstSector(Entry) \in Nat
             /\ \A b \in 1..Entry.file_size :
                   FilesOnDisk[want][b] = ByteOf(FirstSector(Entry), b - 1)
  <2>1. PICK i \in Slots : i = Min(Entries(want)) /\ dir[i].kind \notin {"end", "deleted"}
    <3>1. Min(Entries(want)) \in Entries(want)
      BY <1>3, EntriesAreSlots, MinIsMember
    <3> QED BY <3>1 DEF Entries
  <2>2. Entry = dir[i] /\ dir \in Directories
    BY <2>1 DEF Entry, CallTypes
  <2>3. /\ Entry.first \in Nat /\ Entry.file_size \in Nat
        /\ Entry.file_size > 0 => FirstSector(Entry) \in Nat
    BY <2>1, <2>2, FirstSectorIs
  <2>4. FilesOnDisk[want]
          = [b \in 1..Entry.file_size |-> <<SectorOf(Entry, b - 1), (b - 1) % SectorSize>>]
    BY <1>1, <1>3 DEF FilesOnDisk, Entry
  <2>5. \A k \in 1..((Entry.file_size - 1) \div ClusterSize) :
          FAT[Entry.first + k - 1] = Entry.first + k
    BY <2>1, <2>2 DEF Contiguous
  <2>6. ASSUME NEW b \in 1..Entry.file_size
        PROVE  FilesOnDisk[want][b] = ByteOf(FirstSector(Entry), b - 1)
    <3>1. b - 1 \in Nat /\ b - 1 < Entry.file_size /\ FirstSector(Entry) \in Nat
      BY <2>3
    <3>2. <<SectorOf(Entry, b - 1), (b - 1) % SectorSize>> = ByteOf(FirstSector(Entry), b - 1)
      BY <2>3, <2>5, <3>1, SectorsInARow
    <3> QED BY <2>4, <3>2
  <2>7. Len(FilesOnDisk[want]) = Entry.file_size
    BY <2>3, <2>4
  <2> QED BY <2>3, <2>6, <2>7
<1> QED BY <1>2, <1>3

\* Bytes that are the file's from the first one on are a part of it.
LEMMA FirstBytesOf ==
    ASSUME NEW S, NEW s \in Seq(S), NEW file, NEW n \in Nat, Len(s) = n,
           \A b \in 1..n : s[b] = file[b]
    PROVE  s = SubSeq(file, 1, n)
<1>1. \A b \in 1..n : s[b] \in S
  OBVIOUS
<1>2. \A b \in 1..n : file[b] \in S
  BY <1>1
<1>3. /\ SubSeq(file, 1, n) \in Seq(S) /\ Len(SubSeq(file, 1, n)) = n
      /\ \A b \in 1..n : SubSeq(file, 1, n)[b] = file[b]
  BY <1>2, SubSeqProperties
<1> QED BY <1>3, SeqEqual

-----------------------------------------------------------------------------
(* Each step of the file system is a step of Files or changes nothing that *)
(* callers see.                                                            *)

Faulty == err \/ Overdue \/ root_sectors = 0

\* A caller that goes on with the driver does not change the disk.
LEMMA FaultySame ==
    ASSUME Resting, Rest \/ \E s : Call(s), root_sectors' = root_sectors
    PROVE  Faulty' = Faulty
  BY DEF Resting, Rest, Call, disk, Faulty, Overdue

\* Callers see no more of the file system than this.
LEMMA SeenSame ==
    ASSUME dir' = dir, Faulty' = Faulty, CallSeen' = CallSeen, AnswerSeen' = AnswerSeen
    PROVE  UNCHANGED F!filesVars
  BY FilesStay DEF F!filesVars, Faulty

\* The bytes in the buffer are an answer to the read that is going on.
LEMMA BufferAnswers ==
    ASSUME Contiguous, CallTypes, task \in {"search", "read"}, Entries(want) # {},
           NEW s \in Seq(Bytes), NEW n \in Nat, Len(s) = n,
           \A b \in 1..n : s[b] = ByteOf(FirstSector(Entry), b - 1),
           NEW wanted, wanted = Smaller(Entry.file_size, max_size),
           n <= wanted, Faulty \/ n = wanted
    PROVE  [count |-> n, bytes |-> s] \in F!Outcomes(CallSeen)
<1>1. CallSeen.name = want /\ CallSeen.max = max_size /\ max_size \in Nat
  BY SomethingAsked, Sizes DEF CallTypes
<1>2. /\ want \in DOMAIN FilesOnDisk
      /\ Entry.file_size \in Nat /\ Len(FilesOnDisk[want]) = Entry.file_size
      /\ \A b \in 1..Entry.file_size :
            FilesOnDisk[want][b] = ByteOf(FirstSector(Entry), b - 1)
  BY FileRead
<1>3. wanted \in Nat /\ wanted <= Entry.file_size
  BY <1>1, <1>2, SmallerIs
<1>4. F!Wanted(CallSeen) = wanted
  BY <1>1, <1>2 DEF F!Wanted, F!Smaller, Smaller
<1>5. \A b \in 1..n : s[b] = FilesOnDisk[want][b]
  BY <1>2, <1>3
<1>6. s = SubSeq(FilesOnDisk[want], 1, n)
  BY <1>5, FirstBytesOf
<1>7. [count |-> n, bytes |-> s] = F!FirstBytes(FilesOnDisk[CallSeen.name], n)
  BY <1>1, <1>6 DEF F!FirstBytes
<1>8. n \in 0..F!Wanted(CallSeen) /\ (Faulty \/ n = F!Wanted(CallSeen))
  BY <1>3, <1>4
<1>9. CallSeen.name \in DOMAIN FilesOnDisk
  BY <1>1, <1>2
<1>10. CASE Faulty
  BY <1>7, <1>8, <1>9, <1>10 DEF F!Outcomes, Faulty
<1>11. CASE ~Faulty
  BY <1>7, <1>8, <1>9, <1>11 DEF F!Outcomes, Faulty
<1> QED BY <1>10, <1>11

\* "Not found" is an answer if there is no such file or the disk has failed.
LEMMA NotFoundAnswers ==
    ASSUME Contiguous, CallTypes, task \in {"search", "read"}, Entries(want) = {} \/ Faulty
    PROVE  F!NotFound \in F!Outcomes(CallSeen)
<1>1. CallSeen.name = want
  BY SomethingAsked DEF CallTypes
<1>2. CASE Entries(want) = {}
  <2>1. CallSeen.name \notin DOMAIN FilesOnDisk
    BY <1>1, <1>2, FileRead
  <2> QED BY <2>1 DEF F!Outcomes
<1>3. CASE Faulty
  BY <1>3 DEF F!Outcomes, Faulty
<1> QED BY <1>2, <1>3

\* The end of a call.
LEMMA CallEnds ==
    ASSUME CallTypes, Resting, task \in {"search", "read"}, NEW n \in Int, Returns(n), n # None,
           UNCHANGED request, [count |-> n, bytes |-> buffer'] \in F!Outcomes(CallSeen)
    PROVE  F!Answer
<1>1. task' = "idle" /\ result' = n /\ Faulty' = Faulty /\ UNCHANGED <<dir, root_sectors>>
  BY FaultySame DEF Returns, request
<1>2. CallSeen # F!NoCall /\ CallSeen' = F!NoCall
  BY <1>1, SomethingAsked, NothingAskedNext DEF CallTypes
<1>3. AnswerSeen' = [count |-> n, bytes |-> buffer']
  BY <1>1 DEF AnswerSeen
<1>4. FilesOnDisk' = FilesOnDisk
  BY <1>1, FilesStay
<1> QED BY <1>1, <1>2, <1>3, <1>4 DEF F!Answer, Faulty

LEMMA CallerSees ==
    ASSUME Contiguous, FsInv, [FsNext]_fsVars
    PROVE  [F!FilesNext]_(F!filesVars)
<1>1. FsBase /\ Passed /\ Copied /\ AtaTypes /\ CallTypes /\ InStep /\ Serves
  BY FsInvSplit DEF FsBase
<1>2. CASE NoDisk \/ Mount
  <2>1. /\ UNCHANGED <<dir, root_sectors, result, buffer>>
        /\ task \notin {"search", "read"} /\ task' \notin {"search", "read"}
    BY <1>2 DEF NoDisk, Mount, request
  <2>2. Faulty' = Faulty
    <3>1. CASE NoDisk
      BY <2>1, <3>1 DEF NoDisk, ataVars, disk, Faulty, Overdue
    <3>2. CASE Mount
      BY <1>1, <2>1, <3>2, FaultySame DEF Mount, Serves, Resting
    <3> QED BY <1>2, <3>1, <3>2
  <2>3. CallSeen' = CallSeen /\ AnswerSeen' = AnswerSeen
    BY <2>1, NothingAsked, NothingAskedNext DEF AnswerSeen
  <2> QED BY <2>1, <2>2, <2>3, SeenSame
<1>3. CASE fat16_init
  <2>1. /\ UNCHANGED <<dir, result, buffer>> /\ root_sectors = 0
        /\ task \notin {"search", "read"} /\ task' \notin {"search", "read"}
        /\ root_sectors' = IF ata = "done" THEN RootSectors ELSE 0
        /\ ata = "done" => ~err' /\ ~bsy'
    BY <1>1, <1>3 DEF fat16_init, Rest, disk, CallTypes, InStep
  <2>2. CallSeen' = CallSeen /\ AnswerSeen' = AnswerSeen /\ FilesOnDisk' = FilesOnDisk
    BY <2>1, NothingAsked, NothingAskedNext, FilesStay DEF AnswerSeen
  <2>3. CASE ata = "done"
    <3>1. root_sectors' # 0 /\ ~err' /\ ~Overdue'
      BY <2>1, <2>3, Sizes DEF Overdue
    <3>2. (err \/ Overdue \/ root_sectors = 0)' = ~(err \/ Overdue \/ root_sectors = 0)
      BY <2>1, <3>1, Zenon
    <3>3. F!DiskChanges
      BY <2>2, <3>2 DEF F!DiskChanges
    <3> QED BY <3>3 DEF F!FilesNext
  <2>4. CASE ata # "done"
    <3>1. Faulty' = Faulty
      BY <2>1, <2>4 DEF Faulty
    <3> QED BY <2>1, <2>2, <3>1, SeenSame
  <2> QED BY <2>3, <2>4
<1>4. CASE fat16_list_root \/ ListSector
  <2>1. /\ UNCHANGED <<dir, root_sectors, result, buffer>>
        /\ task \notin {"search", "read"} /\ task' \notin {"search", "read"}
    BY <1>4 DEF fat16_list_root, ListSector, request
  <2>2. Resting /\ (Rest \/ \E s : Call(s))
    BY <1>1, <1>4 DEF fat16_list_root, ListSector, Serves, Resting
  <2>3. CallSeen' = CallSeen /\ AnswerSeen' = AnswerSeen
    BY <2>1, NothingAsked, NothingAskedNext DEF AnswerSeen
  <2> QED BY <2>1, <2>2, <2>3, FaultySame, SeenSame
<1>5. ASSUME NEW name \in Names, NEW max \in MaxSizes, fat16_read_file(name, max)
      PROVE  [F!FilesNext]_(F!filesVars)
  <2>1. /\ UNCHANGED <<dir, root_sectors>> /\ task = "idle" /\ buffer' = <<>>
        /\ want' = name /\ max_size' = max /\ Resting
    BY <1>1, <1>5 DEF fat16_read_file, Serves, Resting
  <2>2. FilesOnDisk' = FilesOnDisk /\ CallSeen = F!NoCall
    BY <2>1, NothingAsked, FilesStay
  <2>3. CASE root_sectors = 0 /\ Returns(-1)
    <3>1. task' = "idle" /\ result' = -1 /\ Faulty' = Faulty
      BY <2>1, <2>3, FaultySame DEF Returns
    <3>2. CallSeen' = F!NoCall /\ AnswerSeen' = F!NotFound
      BY <2>1, <3>1, NothingAskedNext DEF AnswerSeen, F!NotFound, None
    <3>3. F!Refuse
      BY <2>1, <2>2, <2>3, <3>1, <3>2 DEF F!Refuse, Faulty
    <3> QED BY <3>3 DEF F!FilesNext
  <2>4. CASE task' = "search" /\ result' = None /\ Call(RootStart)
    <3>1. Faulty' = Faulty
      BY <2>1, <2>4, FaultySame
    <3>2. CallSeen' = [name |-> name, max |-> max]
      BY <2>1, <2>4, Zenon DEF CallSeen
    <3>3. AnswerSeen' = F!NoAnswer
      BY <2>4 DEF AnswerSeen, F!NoAnswer, None
    <3>4. F!Ask(name, max)
      BY <2>1, <2>2, <3>1, <3>2, <3>3 DEF F!Ask, Faulty
    <3> QED BY <3>4 DEF F!FilesNext
  <2> QED BY <1>5, <2>3, <2>4 DEF fat16_read_file
<1>6. CASE SearchFails
  <2>1. /\ Returns(-1) /\ UNCHANGED request /\ buffer' = <<>> /\ Faulty
        /\ task = "search" /\ Resting
    BY <1>1, <1>6 DEF SearchFails, InStep, CallTypes, Faulty, Overdue, Resting
  <2>2. F!NotFound = [count |-> -1, bytes |-> buffer']
    BY <2>1 DEF F!NotFound
  <2>3. F!Answer
    BY <1>1, <2>1, <2>2, NotFoundAnswers, CallEnds DEF None
  <2> QED BY <2>3 DEF F!FilesNext
<1>7. CASE SearchNext \/ SearchMeetsEnd
  <2>1. CASE Returns(-1)
    <3>1. UNCHANGED request /\ buffer' = <<>> /\ task = "search" /\ Resting
      BY <1>1, <1>7 DEF SearchNext, SearchMeetsEnd, CallTypes, Resting
    <3>2. Entries(want) = {}
      <4>1. CASE SearchNext
        <5>1. sector + 1 = root_sectors
          BY <2>1, <4>1 DEF SearchNext, Returns
        <5> QED BY <1>1, <4>1, <5>1, SearchMisses DEF SearchNext
      <4>2. CASE SearchMeetsEnd
        BY <1>1, <4>2, SearchMisses DEF SearchMeetsEnd
      <4> QED BY <1>7, <4>1, <4>2
    <3>3. F!NotFound = [count |-> -1, bytes |-> buffer']
      BY <3>1 DEF F!NotFound
    <3>4. F!Answer
      BY <1>1, <2>1, <3>1, <3>2, <3>3, NotFoundAnswers, CallEnds DEF None
    <3> QED BY <3>4 DEF F!FilesNext
  <2>2. CASE task' = task /\ result' = result /\ Call(RootStart + sector + 1)
    <3>1. UNCHANGED <<dir, root_sectors, want, max_size, buffer>> /\ Resting
      BY <1>7, <2>2 DEF SearchNext, SearchMeetsEnd, request, Resting
    <3>2. CallSeen' = CallSeen /\ AnswerSeen' = AnswerSeen
      BY <2>2, <3>1, Zenon DEF CallSeen, AnswerSeen
    <3> QED BY <2>2, <3>1, <3>2, FaultySame, SeenSame
  <2> QED BY <1>7, <2>1, <2>2 DEF SearchNext, SearchMeetsEnd
<1>8. CASE SearchFinds
  <2>1. /\ UNCHANGED request /\ buffer' = <<>> /\ task = "search" /\ buffer = <<>>
        /\ Entries(want) # {} /\ dir[Min(Decisive)] = Entry /\ Resting
    BY <1>1, <1>8, SearchIsRight DEF SearchFinds, CallTypes, Entry, Resting
  <2>2. /\ size' = Smaller(Entry.file_size, max_size)
        /\ IF size' = 0 THEN Returns(0)
           ELSE task' = "read" /\ result' = result /\ Call(sector')
    BY <1>8, <2>1 DEF SearchFinds
  <2>3. CASE size' = 0 /\ Returns(0)
    <3>1. PICK s \in Seq(Bytes) : s = <<>> /\ Len(s) = 0
      <4>1. <<>> \in Seq(Bytes) /\ Len(<<>>) = 0
        OBVIOUS
      <4> QED BY <4>1, Zenon
    <3>2. PICK wanted \in Nat : wanted = Smaller(Entry.file_size, max_size) /\ wanted = 0
      BY <2>2, <2>3
    <3>3. \A b \in 1..0 : s[b] = ByteOf(FirstSector(Entry), b - 1)
      OBVIOUS
    <3>4. 0 <= wanted /\ 0 = wanted
      BY <3>2
    <3>5. [count |-> 0, bytes |-> s] \in F!Outcomes(CallSeen)
      BY <1>1, <2>1, <3>1, <3>2, <3>3, <3>4, BufferAnswers
    <3>6. F!Answer
      BY <1>1, <2>1, <2>3, <3>1, <3>5, CallEnds DEF None
    <3> QED BY <3>6 DEF F!FilesNext
  <2>4. CASE task' = "read" /\ result' = result /\ Call(sector')
    <3>1. UNCHANGED <<dir, root_sectors, want, max_size, buffer>>
      BY <2>1 DEF request
    <3>2. CallSeen' = CallSeen /\ AnswerSeen' = AnswerSeen
      BY <2>1, <2>4, <3>1, Zenon DEF CallSeen, AnswerSeen
    <3> QED BY <2>1, <2>4, <3>1, <3>2, FaultySame, SeenSame
  <2> QED BY <2>2, <2>3, <2>4
<1>9. CASE CopySector
  <2>1. /\ task = "read" /\ UNCHANGED request /\ Entries(want) # {} /\ result = None
        /\ size = Smaller(Entry.file_size, max_size) /\ Resting
    BY <1>1, <1>9 DEF CopySector, Copied, Resting
  <2>2. PICK n \in Nat : n = Len(buffer')
    BY <1>1, <1>9, CopyAppends
  <2>3. /\ buffer' \in Seq(Bytes) /\ n <= size
        /\ \A b \in 1..n : buffer'[b] = ByteOf(FirstSector(Entry), b - 1)
    BY <1>1, <1>9, <2>2, CopyAppends, CopyGoesOn
  <2>4. CASE n >= size /\ Returns(n)
    <3>1. n = size
      BY <1>1, <2>3, <2>4 DEF CallTypes
    <3>2. PICK s \in Seq(Bytes) : s = buffer'
      BY <2>3
    <3>3. Len(s) = n /\ \A b \in 1..n : s[b] = ByteOf(FirstSector(Entry), b - 1)
      BY <2>2, <2>3, <3>2
    <3>4. [count |-> n, bytes |-> s] \in F!Outcomes(CallSeen)
      BY <1>1, <2>1, <2>3, <3>1, <3>3, BufferAnswers
    <3>5. F!Answer
      BY <1>1, <2>1, <2>4, <3>2, <3>4, CallEnds DEF None
    <3> QED BY <3>5 DEF F!FilesNext
  <2>5. CASE task' = task /\ result' = result /\ Call(sector + 1)
    <3>1. UNCHANGED <<dir, root_sectors, want, max_size>>
      BY <2>1 DEF request
    <3>2. CallSeen' = CallSeen /\ AnswerSeen' = AnswerSeen
      BY <2>1, <2>5, <3>1, Zenon DEF CallSeen, AnswerSeen
    <3> QED BY <2>1, <2>5, <3>1, <3>2, FaultySame, SeenSame
  <2> QED BY <1>9, <2>2, <2>4, <2>5 DEF CopySector
<1>10. CASE ReadFails
  <2>1. /\ task = "read" /\ UNCHANGED request /\ Entries(want) # {} /\ Faulty
        /\ size = Smaller(Entry.file_size, max_size) /\ buffer' = buffer
        /\ Returns(Len(buffer)) /\ Resting
    BY <1>1, <1>10 DEF ReadFails, Copied, InStep, Faulty, Overdue, Resting
  <2>2. PICK n \in Nat : n = Len(buffer) /\ n <= size /\ buffer \in Seq(Bytes)
    BY <1>1, <2>1 DEF CallTypes
  <2>3. \A b \in 1..n : buffer[b] = ByteOf(FirstSector(Entry), b - 1)
    BY <1>1, <2>1, <2>2 DEF Copied
  <2>4. [count |-> n, bytes |-> buffer] \in F!Outcomes(CallSeen)
    BY <1>1, <2>1, <2>2, <2>3, BufferAnswers
  <2>5. F!Answer
    BY <1>1, <2>1, <2>2, <2>4, CallEnds DEF None
  <2> QED BY <2>5 DEF F!FilesNext
<1>11. CASE DriverStep
  <2>1. UNCHANGED <<dir, root_sectors, want, max_size, task, result, buffer>>
    BY <1>11 DEF DriverStep, fatVars
  <2>2. CallSeen' = CallSeen /\ AnswerSeen' = AnswerSeen /\ FilesOnDisk' = FilesOnDisk
    BY <2>1, FilesStay, Zenon DEF CallSeen, AnswerSeen
  <2>3. CASE Faulty' = Faulty
    BY <2>1, <2>2, <2>3, SeenSame
  <2>4. CASE Faulty' # Faulty
    <3>1. (err \/ Overdue \/ root_sectors = 0)' = ~(err \/ Overdue \/ root_sectors = 0)
      BY <2>4, Zenon DEF Faulty
    <3>2. F!DiskChanges
      BY <2>2, <3>1 DEF F!DiskChanges
    <3> QED BY <3>2 DEF F!FilesNext
  <2> QED BY <2>3, <2>4
<1>12. CASE UNCHANGED fsVars
  <2>1. UNCHANGED <<dir, root_sectors, want, max_size, task, result, buffer>>
    BY <1>12 DEF fsVars, fatVars
  <2>2. CallSeen' = CallSeen /\ AnswerSeen' = AnswerSeen
    BY <2>1, Zenon DEF CallSeen, AnswerSeen
  <2>3. Faulty' = Faulty
    BY <1>12 DEF fsVars, fatVars, ataVars, disk, Faulty, Overdue
  <2> QED BY <2>1, <2>2, <2>3, SeenSame
<1> QED
  BY <1>2, <1>3, <1>4, <1>5, <1>6, <1>7, <1>8, <1>9, <1>10, <1>11, <1>12
  DEF FsNext, FsStep, UserReads

\* fat16.c 123-174: on every directory whose files lie in one piece, and on a
\* disk that may fail or hang at any command but is never late, fat16_read_file
\* gives its callers the files of the module Files.
THEOREM CallersSeeFiles ==
    ASSUME NeverLate, Contiguous PROVE FsSpec => ImplementsFiles
<1>1. FsInit => F!FilesInit
  <2> SUFFICES ASSUME FsInit PROVE F!FilesInit
    OBVIOUS
  <2>1. task \notin {"search", "read"} /\ result = None /\ root_sectors = 0
    BY DEF FsInit
  <2>2. CallSeen = F!NoCall
    BY <2>1, NothingAsked
  <2>3. AnswerSeen = F!NoAnswer
    BY <2>1 DEF AnswerSeen, F!NoAnswer, None
  <2>4. (err \/ Overdue \/ root_sectors = 0) \in BOOLEAN
    BY Zenon
  <2> QED BY <2>2, <2>3, <2>4 DEF F!FilesInit
<1>2. FsInv /\ [FsNext]_fsVars => [F!FilesNext]_(F!filesVars)
  BY CallerSees
<1> QED BY <1>1, <1>2, FsInvariant, PTL DEF FsSpec, ImplementsFiles, F!FilesSpec
=============================================================================
