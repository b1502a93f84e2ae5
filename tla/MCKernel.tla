------------------------------ MODULE MCKernel ------------------------------
(***************************************************************************)
(* An instance of Kernel for TLC: two programs, of which the shorter one   *)
(* has a bss where the longer one has bytes, an empty file, and a program  *)
(* that is too long for the loader's buffer.                               *)
(***************************************************************************)
EXTENDS Kernel

MCFile(name, length) == [i \in 1..length |-> <<name, i>>]

MCDisk == [name \in {"long", "bss", "empty", "huge"} |->
             MCFile(name, CASE name = "long" -> 3 [] name = "bss" -> 2
                            [] name = "empty" -> 0 [] name = "huge" -> 5)]

MCSegment(offset, filesz, vaddr, memsz) ==
    [p_vaddr |-> vaddr, p_offset |-> offset, p_filesz |-> filesz, p_memsz |-> memsz]

MCHeaders == [h \in {<<"long", 1>>, <<"bss", 1>>, <<"huge", 1>>} |->
                CASE h[1] = "long" -> <<MCSegment(1, 1, 0, 1), MCSegment(2, 1, 1, 1)>>
                  [] h[1] = "bss"  -> <<MCSegment(1, 1, 0, 2)>>
                  [] h[1] = "huge" -> <<MCSegment(3, 2, 0, 2)>>]
=============================================================================
