--------------------------------- MODULE Elf ---------------------------------
(***************************************************************************)
(* The data of the ELF loader (elf_load of elf.c): the static elf_buffer a *)
(* file is read into, and the memory programs are linked for, which the    *)
(* segments are copied to.  Kernel has the loader's steps.                 *)
(*                                                                         *)
(* A byte of a file says which file it is from and where it is in it.  The *)
(* ELF header and the program headers, which fit in a sector, are one      *)
(* byte; Headers says what the loader finds in it.                         *)
(***************************************************************************)
EXTENDS Files

CONSTANTS
    BufferSize,     \* sizeof(elf_buffer): 65536
    UserMemory,     \* the addresses of the programs' memory (user.ld: 0x300000 on)
    Headers         \* program headers of the bytes that are a valid ELF header:
                    \* a sequence of [p_vaddr, p_offset, p_filesz, p_memsz]

ASSUME ElfAssumption ==
    /\ BufferSize \in MaxSizes
    /\ \A h \in DOMAIN Headers : \A i \in DOMAIN Headers[h] :
         LET s == Headers[h][i] IN
         /\ s.p_vaddr..(s.p_vaddr + s.p_memsz - 1) \subseteq UserMemory
         /\ s.p_filesz <= s.p_memsz     \* as in every ELF file

VARIABLES
    elf_buffer,
    memory          \* what is in UserMemory

elfVars == <<elf_buffer, memory>>

Zero == <<"zero", 0>>
Unknown == <<"unknown", 0>>    \* whatever RAM held, or what lies behind elf_buffer

ElfInit ==
    /\ elf_buffer = [i \in 0..(BufferSize - 1) |-> Zero]
    /\ memory = [a \in UserMemory |-> Unknown]

\* fat16_read_file writes the bytes it reads, and leaves the rest alone.
Received(bytes) ==
    elf_buffer' = [i \in DOMAIN elf_buffer |->
                     IF i < Len(bytes) THEN bytes[i + 1] ELSE elf_buffer[i]]

elf_verify == elf_buffer[0] \in DOMAIN Headers

\* Mutant: memory behind the file's bytes is left as it is.
Segment_NoBss(s, a) ==
    LET i == s.p_offset + a - s.p_vaddr IN
    IF a - s.p_vaddr >= s.p_filesz THEN memory[a]
    ELSE IF i \in DOMAIN elf_buffer THEN elf_buffer[i] ELSE Unknown

\* What a segment puts at address a.
Segment(s, a) ==
    LET i == s.p_offset + a - s.p_vaddr IN
    IF a - s.p_vaddr >= s.p_filesz THEN Zero
    ELSE IF i \in DOMAIN elf_buffer THEN elf_buffer[i] ELSE Unknown

Occupies(s, a) == a \in s.p_vaddr..(s.p_vaddr + s.p_memsz - 1)

\* The PT_LOAD segments are copied, and their bss zeroed, in order.
LoadSegments ==
    LET segments == Headers[elf_buffer[0]]
        At(a) == {i \in DOMAIN segments : Occupies(segments[i], a)}
    IN  memory' = [a \in UserMemory |->
                     IF At(a) = {} THEN memory[a]
                     ELSE LET last == CHOOSE i \in At(a) : \A j \in At(a) : j <= i
                          IN  Segment(segments[last], a)]

-----------------------------------------------------------------------------
\* memory holds the program that is in file "name": its bytes where its headers
\* want them, and zeros behind.
Holds(mem, name) ==
    /\ name \in DOMAIN files /\ files[name] # <<>>
    /\ files[name][1] \in DOMAIN Headers
    /\ \A i \in DOMAIN Headers[files[name][1]] :
         LET s == Headers[files[name][1]][i] IN
         \A k \in 0..(s.p_memsz - 1) :
            mem[s.p_vaddr + k] = IF k < s.p_filesz
                                 THEN files[name][s.p_offset + k + 1] ELSE Zero
=============================================================================
