------------------------------- MODULE MCFat16 -------------------------------
(***************************************************************************)
(* An instance of Fat16 for TLC: four directory entries in two sectors,    *)
(* with two files, a volume label, a deleted entry and the end marker in   *)
(* any order, and files that end inside a sector and at a cluster's end.   *)
(***************************************************************************)
EXTENDS Fat16

MCEntry(kind, name, first, file_size) ==
    [kind |-> kind, name |-> name, first |-> first, file_size |-> file_size]

MCEntries ==
    {MCEntry("file", "long", 2, 7), MCEntry("file", "whole", 4, 4),
     MCEntry("volume", "label", 0, 0), MCEntry("deleted", "whole", 2, 3),
     MCEntry("end", "", 0, 0)}

\* A directory holds a name once.
MCDirectories ==
    {d \in [1..4 -> MCEntries] :
        \A i, j \in 1..4 : d[i] = d[j] /\ d[i].kind \in {"file", "volume"} => i = j}

\* Cluster 0 ends a chain.  Files copied to a new image follow one another.
MCContiguous == [c \in 2..5 |-> IF c = 2 THEN 3 ELSE 0]
=============================================================================
