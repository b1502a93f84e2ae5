------------------------------- MODULE Memory -------------------------------
(***************************************************************************)
(* Memory management as kernel_main sets it up: the size of memory is what *)
(* GRUB says (memory_init_multiboot of memory.c), the frames are managed   *)
(* by Pmm, and one range of addresses is the heap's.  The two allocators   *)
(* are called in any order, each call to its end.                          *)
(*                                                                         *)
(* Sizes of memory are in kilobytes.  paging_init maps the first 4 MB one  *)
(* to one, and neither allocator looks at the tables it fills.             *)
(***************************************************************************)
EXTENDS Heap, Pmm

CONSTANTS
    MemUpper,       \* kilobytes above the first megabyte, of the machines considered
    LowMemory,      \* 1024: kilobytes below it
    AddressSpace,   \* 2^22: kilobytes a 32-bit number of bytes can count
    FrameSize       \* PMM_FRAME_SIZE in kilobytes (256)

ASSUME MachineAssumption ==
    /\ MemUpper \subseteq Nat /\ LowMemory \in Nat
    /\ AddressSpace \in Nat \ {0} /\ FrameSize \in 1..LowMemory

VARIABLE machine    \* the kilobytes of contiguous memory the machine has

memoryVars == <<heapVars, pmmVars, machine>>

\* (mbi->mem_upper + 1024) * 1024 in 32 bits; 0 unless GRUB was the loader and
\* its flags say that the size is there.
memory_init_multiboot(mem_upper, told) ==
    IF told THEN (mem_upper + LowMemory) % AddressSpace ELSE 0

\* Mutant: a frame of which only a part exists counts.
Frames_RoundedUp(total_memory) == (total_memory + FrameSize - 1) \div FrameSize

FramesOf(total_memory) == total_memory \div FrameSize

MemoryInit ==
    \E mem_upper \in MemUpper, told \in BOOLEAN :
        /\ machine = mem_upper + LowMemory
        /\ pmm_init(FramesOf(memory_init_multiboot(mem_upper, told)))
        /\ heap_init

MemoryNext ==
    \/ HeapNext /\ UNCHANGED <<pmmVars, machine>>
    \/ PmmNext /\ UNCHANGED <<heapVars, machine>>

MemorySpec == MemoryInit /\ [][MemoryNext]_memoryVars

-----------------------------------------------------------------------------
\* Type invariant of both allocators.
MemoryTypeOK == HeapTypeOK /\ PmmTypeOK

\* No frame is handed out that is not, from its first byte to its last, memory
\* the machine has, although the number of bytes wraps at 4 GB and is rounded
\* to frames (memory.c 10-15, pmm.c 24-43).
FramesExist == \A f \in free \cup held : (f + 1) * FrameSize <= machine
=============================================================================
