-------------------------------- MODULE Files --------------------------------
(***************************************************************************)
(* What fat16_read_file promises its callers, without sectors, entries or  *)
(* disk commands: a call is answered with the first bytes of the file it   *)
(* names, as many as the file and the caller's buffer have, and only a     *)
(* faulty disk makes the answer shorter or turns it into "not found".      *)
(*                                                                         *)
(* Fat16 implements this module; Kernel reads files through it.            *)
(***************************************************************************)
EXTENDS Integers, Sequences

CONSTANTS
    Names,      \* the names files are asked for by
    MaxSizes    \* the sizes of callers' buffers

VARIABLES
    files,      \* the bytes of each file there is: a function from some names
    faulty,     \* the disk has failed, or there is none
    call,       \* the read that is going on, NoCall if none
    answer      \* the answer to the last one, NoAnswer if none

filesVars == <<files, faulty, call, answer>>

NoCall == [name |-> "", max |-> 0]
Calls == [name : Names, max : MaxSizes]

\* count is what fat16_read_file returns, bytes what it wrote to the buffer.
NoAnswer == [count |-> -2, bytes |-> <<>>]
NotFound == [count |-> -1, bytes |-> <<>>]
FirstBytes(file, n) == [count |-> n, bytes |-> SubSeq(file, 1, n)]

Smaller(a, b) == IF a < b THEN a ELSE b
Wanted(c) == Smaller(Len(files[c.name]), c.max)

Outcomes(c) ==
    IF c.name \notin DOMAIN files THEN {NotFound}
    ELSE IF ~faulty THEN {FirstBytes(files[c.name], Wanted(c))}
    ELSE {NotFound} \cup {FirstBytes(files[c.name], n) : n \in 0..Wanted(c)}

-----------------------------------------------------------------------------
Ask(name, max) ==
    /\ call = NoCall
    /\ call' = [name |-> name, max |-> max]
    /\ answer' = NoAnswer
    /\ UNCHANGED <<files, faulty>>

\* A file system that is not mounted does not even look.
Refuse ==
    /\ call = NoCall /\ faulty
    /\ answer' = NotFound
    /\ UNCHANGED <<files, faulty, call>>

Answer ==
    /\ call # NoCall
    /\ answer' \in Outcomes(call)
    /\ call' = NoCall
    /\ UNCHANGED <<files, faulty>>

\* Failing, and mounting.
DiskChanges == faulty' = ~faulty /\ UNCHANGED <<files, call, answer>>

FilesInit == call = NoCall /\ answer = NoAnswer /\ faulty \in BOOLEAN

FilesNext ==
    \/ \E name \in Names, max \in MaxSizes : Ask(name, max)
    \/ Refuse \/ Answer \/ DiskChanges

FilesSpec == FilesInit /\ [][FilesNext]_filesVars
=============================================================================
