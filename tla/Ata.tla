--------------------------------- MODULE Ata ---------------------------------
(***************************************************************************)
(* The polling driver of ata.c (ata_wait_ready, ata_wait_drq,              *)
(* ata_read_sector) and the disk it polls.  Driver and disk take turns in  *)
(* any order; the driver gives up after Timeout polls.  The disk may take  *)
(* as long as it likes to become ready, and may never answer a command.    *)
(* The data of a sector is represented by its number, so that sector_buf   *)
(* says whose data the buffer holds.  Nothing calls ata_write_sector.      *)
(***************************************************************************)
EXTENDS Integers

CONSTANTS
    Timeout,    \* polls before the driver gives up (100000)
    Faults      \* what else the disk may do: "error", and "late", to answer
                \* after the driver has given up

ASSUME AtaAssumption == Timeout \in Nat \ {0} /\ Faults \subseteq {"error", "late"}

VARIABLES
    ata,                \* where ata_read_sector is; "done" and "failed" at its end
    lba,                \* its argument
    polls,              \* local variable timeout of the loop it is in
    sector_buf,         \* the sector whose data is in the buffer
    bsy, drdy, drq, err,    \* the disk's status register
    loaded              \* the sector the data register will deliver

disk == <<bsy, drdy, drq, err, loaded>>
ataVars == <<ata, lba, polls, sector_buf, disk>>

NoSector == -1

\* The disk after ata_init has selected it: not busy, perhaps not ready yet.
AtaInit ==
    /\ ata = "idle" /\ lba = 0 /\ polls = 0
    /\ sector_buf = NoSector
    /\ bsy = FALSE /\ drdy \in BOOLEAN /\ drq = FALSE /\ err = FALSE
    /\ loaded = NoSector

\* A call of ata_read_sector, and what the caller does when it has returned.
Call(sector) ==
    /\ ata' = "wait_ready"
    /\ lba' = sector
    /\ polls' = Timeout
    /\ UNCHANGED <<sector_buf, disk>>

Rest == ata' = "idle" /\ UNCHANGED <<lba, polls, sector_buf, disk>>

-----------------------------------------------------------------------------
\* The polling loops.
PollAgain ==
    /\ polls' = polls - 1
    /\ UNCHANGED <<ata, lba, sector_buf, disk>>

Ends(outcome) == ata' = outcome /\ UNCHANGED <<lba, polls, sector_buf, disk>>

ata_wait_ready ==
    /\ ata = "wait_ready"
    /\ \/ polls > 0 /\ err /\ Ends("failed")
       \/ polls > 0 /\ ~err /\ ~bsy /\ drdy /\ Ends("command")
       \/ polls > 0 /\ ~err /\ (bsy \/ ~drdy) /\ PollAgain
       \/ polls = 0 /\ Ends("failed")

\* The READ command.  A disk that still has data to deliver may ignore it.
Command ==
    /\ ata = "command"
    /\ ata' = "wait_drq"
    /\ polls' = Timeout
    /\ \/ bsy' = TRUE /\ drq' = FALSE /\ err' = FALSE /\ loaded' = lba /\ UNCHANGED drdy
       \/ drq /\ UNCHANGED disk
    /\ UNCHANGED <<lba, sector_buf>>

\* Mutant: the loop counts on the disk to set one of the bits it polls.
ata_wait_drq_NoTimeout ==
    /\ ata = "wait_drq"
    /\ \/ err /\ Ends("failed")
       \/ ~err /\ drq /\ Ends("transfer")
       \/ ~err /\ ~drq /\ UNCHANGED ataVars

ata_wait_drq ==
    /\ ata = "wait_drq"
    /\ \/ polls > 0 /\ err /\ Ends("failed")
       \/ polls > 0 /\ ~err /\ drq /\ Ends("transfer")
       \/ polls > 0 /\ ~err /\ ~drq /\ PollAgain
       \/ polls = 0 /\ Ends("failed")

\* 256 words are read from the data register.
Transfer ==
    /\ ata = "transfer"
    /\ sector_buf' = loaded
    /\ drq' = FALSE
    /\ ata' = "done"
    /\ UNCHANGED <<lba, polls, bsy, drdy, err, loaded>>

ata_read_sector == ata_wait_ready \/ Command \/ ata_wait_drq \/ Transfer

-----------------------------------------------------------------------------
\* The disk is busy with a command the driver waits for no longer.
Overdue == bsy /\ ~(ata = "wait_drq" /\ polls > 0)

\* The disk ends the command it is busy with; one that is never late does it in
\* time or not at all.
DiskAnswers ==
    /\ bsy
    /\ Overdue => "late" \in Faults
    /\ bsy' = FALSE
    /\ \/ drq' = TRUE /\ UNCHANGED err
       \/ "error" \in Faults /\ err' = TRUE /\ UNCHANGED drq
    /\ UNCHANGED <<ata, lba, polls, sector_buf, drdy, loaded>>

DiskGetsReady ==
    /\ ~drdy
    /\ drdy' = TRUE
    /\ UNCHANGED <<ata, lba, polls, sector_buf, bsy, drq, err, loaded>>

DiskStep == DiskAnswers \/ DiskGetsReady

-----------------------------------------------------------------------------
\* ata.c 91-94: ata_read_sector reads the sector it is given.
ReadsTheSectorAsked == ata = "done" => sector_buf = lba

\* ata.c 30: the driver waits until the disk is not busy; unless it has waited
\* in vain, it does not refuse to read from a disk that is idle.
RefusedOnlyWhenBusy ==
    [][ata = "wait_ready" /\ ata' = "failed" /\ polls > 0 => bsy]_ataVars
=============================================================================
