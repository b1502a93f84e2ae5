# A formal model of Learnix OS

TLA+ modules that model the kernel in `src/`, TLC configurations that check them
on small instances, and TLAPS proofs, for every value of the constants, of the
scheduler and the pointers under it, of the whole kernel that runs on it, of the two
memory managers, of the file system and of the shared screen.
Line numbers refer to the files of `src/`; `PROJECT.json` relates every
definition to the lines it stands for.

- [1. The system](#1-the-system)
- [2. Modules, and how they correspond to the code](#2-modules-and-how-they-correspond-to-the-code)
- [3. What is checked](#3-what-is-checked)
- [4. What is proved](#4-what-is-proved)
- [5. Where the code and its comments disagree](#5-where-the-code-and-its-comments-disagree)
- [6. What is not modelled](#6-what-is-not-modelled)
- [7. Plan](#7-plan)

## 1. The system

Learnix is a 32-bit kernel for one processor. GRUB enters `kernel_main` with
interrupts disabled; it initialises the devices, shows a few screens, creates four
processes, enables interrupts and jumps into the first one. From then on the
timer (IRQ0, 100 Hz) is the only interrupt that is not masked, and all
concurrency is preemption by it: there are no locks, only `cli`/`sti`.

| Component | State | Operations | Interacts with | Correct when |
|---|---|---|---|---|
| Process table, `process.c` | circular list of PCBs, `current_process`, `next_pid` | create, exit, block, unblock, block_others, count_active | scheduler (shares the list), heap (PCB and stack), shell, ELF loader | every process is on the list exactly once; the list is one cycle |
| Scheduler, `scheduler.c` + `irq0` | `tick_count`, `scheduler_running`, saved `esp` of each PCB | tick, start | preempts everything that runs with IF set | contexts are never mixed up; a process gets its quantum, no more; nobody starves; blocked and dead processes are skipped |
| Kernel start, `kernel.c` | none of its own | the boot sequence | all others | handlers and boot table are complete before interrupts are enabled |
| Interrupt tables, `idt.c`, `isr.c` | the IDT, the controller's vectors and masks | initialisation at boot | hardware, `irq0`, `int80_handler` | every interrupt that can arrive has its own handler |
| Shell, `shell.c` | phase, command line | key wait, block_others, `ls cat run ps sys help exit` | process table, disk, ELF loader, system calls, keyboard, screen | takes the processor from the demonstration for good; every command comes back |
| System calls, `syscall.c` + `int80_handler` | none | print, exit, getpid, read line, read file ... | run with IF clear | atomic with respect to the timer |
| ELF loader, `elf.c` | `elf_buffer` | verify, load | FAT16, process table; calls the program in the shell's context | runs the program asked for, never over one that is alive |
| User programs, `suma.c`, `hello.c` | their stack | read two numbers, print their sum | system calls, video memory | the sum shown is the sum of what was typed |
| Heap, `heap.c` | doubly linked list of block headers | kmalloc, kfree | process table | blocks tile the heap, callers' ranges are disjoint, free neighbours are merged |
| Physical frames, `pmm.c` | bitmap, counters | init, alloc, free, self-test | (nothing allocates yet) | counter and bitmap agree, no frame is shared or lost |
| Memory map, `memory.c` | total memory | sum of what GRUB reports | frame manager | no frame is counted that does not exist |
| FAT16, `fat16.c` | boot sector, sector numbers | init, list_root, read_file | ATA driver; used by kernel start, shell, loader, system calls | a read returns the bytes of the file asked for |
| ATA driver, `ata.c` | none (the disk's registers) | init, read (write has no caller) | the disk | reads the sector asked for, always returns |
| Screen, `vga.c` | video memory, cursor, colour | print, print_at, scroll, clear | everybody, without mutual exclusion | writers stay in their rows; what is typed appears behind the prompt |
| Keyboard, `keyboard.c` | one-byte buffer (unused: IRQ1 is masked) | esperar_tecla, esperar_tecla_char | shell, system calls | no key is lost or read twice |
| Paging, start-up assembly | tables | initialisation at boot | hardware | (section 6) |

**What is hard to test here.** A tick may fall between any two instructions that
run with IF set, and the processes it switches between share the list of PCBs, one
`tick_count`, one cursor and the disk. The search loop of `scheduler_tick` depends
on the number of processes, on the one that is current and on a limit nobody
enforces. A context saved by one tick is restored by another many ticks later.
Creating a PCB takes several stores. The heap's and the frame allocator's
bookkeeping goes wrong, when it does, many calls after the mistake. The disk may
fail at any sector, never answer, or answer after the driver has given up. The loader's buffer and
the programs' memory still hold the previous program when the next one is loaded.
Lines are typed, corrected and cut off at buffer sizes while the screen wraps and
scrolls. `PROJECT.json` lists each hazard at its line with the properties that cover it.

## 2. Modules, and how they correspond to the code

| Module | Extends | Shown to implement | Instance for TLC | Proofs |
|---|---|---|---|---|
| Scheduler | | RoundRobin (SchedulerRefinement) | MCScheduler | SchedulerProofs |
| RunList | | Scheduler (RunListProofs) | | RunListProofs |
| Kernel | Scheduler, Interrupts, Elf | Scheduler (KernelProofs) | MCKernel | KernelProofs |
| Elf | Files | | | |
| Heap | | Allocator (HeapProofs) | | HeapProofs |
| Pmm | | | | MemoryProofs |
| Memory | Heap, Pmm | | | MemoryProofs |
| Fat16 | Ata | Files (Fat16Proofs) | MCFat16 | Fat16Proofs |
| Terminal | Vga, Suma | | MCTerminal | TerminalProofs |

Files is both what Fat16 is shown to implement and what Kernel reads files through.

**Scheduler** — `process.c`, `scheduler.c` and the context switch of `irq0`. The
circular list is the sequence `ring`, read from `current_process` on: linking a PCB
in front of `current_process` appends to it, moving `current_process` rotates it.
`state`, `ticks_quantum`, `ticks_total`, `esp` are the fields of the PCBs,
`tick_count` and `scheduler_running` the variables of `scheduler.c`. A saved `esp`
stands for the register context it points at, a record of *whose* context it is and
*where* it resumes; `cpu` is the context the processor is executing, `position` the
truth about where each process is, which the code must preserve without having such
a variable. `Advance` is any instruction of the current process, and flips its
position; a bit tells the latest context from a stale one. Actions have the names of
the C functions. `scheduler_tick` is split by its outcome: `TickInQuantum` (line
31), `TickKeeps` (the return of line 54), `TickSwitches`; `Candidate(i)` is the PCB
the search loop has reached after `i` hops and `SearchEnds(i)` says that it stops
there. `scheduler_start` takes two steps, because interrupts are already enabled
when it sets `scheduler_running`: ticks may fall before it loads the first `esp`.
`process_create` is one atomic action here. This is so for the calls made by
`kernel_main` (interrupts disabled); RunList examines the other one.

**RoundRobin** and **SchedulerRefinement** — what the scheduler promises: one holder,
a FIFO queue of those that can run, a slice of ticks for each, and a withdrawn
process is given the processor only when nobody can run. `current_process` is the
holder, the READY processes met along the list are the queue.

**RunList** — the same list with its `next` pointers and `process_create` in the steps
the compiler generates for it (the build uses no optimisation): read the head,
walk to the last PCB, store the tail's `next`, store the new PCB's `next`. Ticks,
exits, blocking and unblocking may fall between any two of them, as they do when
`elf_load` creates a process with interrupts enabled. `Wild` is the uninitialized
value of a fresh PCB's `next`; following it sets `crashed`, after which anything
could happen and the model stops. The module instantiates Scheduler with the
sequence read through the pointers (`ReadList`), and shows that it implements it.
The fields of the new PCB are written in the step that links it: no pointer leads
to them before.

**Interrupts** — the interrupt table as a function from vectors to handlers, the
controller's first vector and its mask, in the order `kernel_main` changes them:
`idt_init`, `isr_init`, the remapping, the gates of lines 114-116 and the mask.

**Files** — what `fat16_read_file` promises: a call is answered with the first bytes of
the file it names; only a failing disk makes the answer shorter, or "not found".

**Elf** — the loader's data: the static `elf_buffer`, which a short read leaves partly as
it was, and the memory the programs are linked for. A byte of a file says which file
it is from and where it is in it, the headers are one byte, and `Headers` says what
the loader finds there. `LoadSegments` copies what the file has and clears the rest.

**Kernel** — the composed system from `kernel_main` on: the interrupt tables, the boot
table (Task-A HIGH, Task-B NORMAL, Task-C LOW, Shell HIGH, `kernel.c` 241-244), the
shell's three phases and commands, the loader, programs and their system calls, and
the interrupt flag. It extends Scheduler: the process operations are Scheduler's
actions, taken by whoever holds the processor. `pc[p]` is where process `p` is in its
code, `walk` the local variable of `process_block_others`. A saved context always has
IF set, so one variable `interrupts` is enough. `run` takes the steps of `elf_load`: the
file is asked for, arrives while ticks go on (`FileArrives`, with any outcome Files
allows), is checked, copied and called. A program that returns to `elf_load` becomes
a process that runs the program again (`CreateProgram`, or `CreateFails` when
`kmalloc` has no memory). `process_create` puts no return address on the stack it makes
(`process.c` 36-56), so when that process returns as well (`ReturnsAgain`), the processor
jumps to whatever lies behind the stack. `RunsAstray` is what is left of it then: the
programs' memory and the interrupt flag change arbitrarily. That is less than it could do,
and the properties that such a program could break hold only in states where none has
(`Sane`). `DiskFails` may happen at any time. `ps`, `help` and unknown commands change nothing and have no action. MCKernel
holds the instance for TLC.

**Heap** and **Allocator** — `kmalloc` (first fit, `TakeFront` when it splits,
`TakeWhole` when it does not) and `kfree` (merge with the next block, then with the
previous one) on functions from addresses to header fields; sizes are computed modulo
`Word`. Allocator is the callers' view: disjoint ranges of the heap.

**Pmm** — the bitmap is the set `free` of frames whose bit is clear. `Alloc` and `Free` are
the effect of a call on bitmap and counter, so that the self-test of `pmm_print_info`
is six of them in a row, with however few frames are left: a frame it did not get is given
back as frame 0. `short` records that this has happened. Callers give back only frames
they hold.

**Memory** — both managers as `kernel_main` sets them up, on machines with any amount
of memory: `memory_init_multiboot` in 32 bits, the division into frames, then calls
of the heap and of the frame manager in any order.

**Ata** and **Fat16** — Ata has the driver's two polling loops and the transfer, and
the disk's status register (BSY, DRDY, DRQ, ERR); driver and disk take turns in any order,
and the disk is the part of the model that is not code. It may become ready late or never,
and end a command or hang; with "error" among its `Faults` a command may fail, with "late" it
may end one the driver no longer waits for. Fat16 extends it: each step
of `fat16_init`, `fat16_list_root` and `fat16_read_file` between two sector reads is
an action. A byte is represented by where it is on the disk, so that the buffer says
which bytes were copied. The directory is an arbitrary sequence of entries: file,
volume label, deleted, end marker. `FAT` is the cluster chain; only the refinement
mapping reads it, as the code never does. MCFat16 holds the instance for TLC.

**Vga**, **Suma** and **Terminal** — Vga has the cells of the screen, the cursor,
`vga_putchar` and scrolling; Suma the number conversions of `suma.c` on ints
up to `INT_MAX`. Terminal puts them together: the demonstration tasks, each call of
`vga_print_at` in steps of one load or store with ticks in between; the shell, which
blocks them and clears the screen; the keyboard, from whose FIFO `esperar_tecla` and
`esperar_tecla_char` take scancodes (presses with a character and without, and releases; only
the first function cares about the last difference); the line editor `leer_linea` of the shell and the
one of SYS_READ; and suma from its first prompt to its last print. Which process is
on the processor is left open (any that is not blocked): Scheduler says which.

**SchedulerProofs, RunListProofs, KernelProofs, HeapProofs, MemoryProofs, Fat16Proofs,
TerminalProofs** — section 4. **LeastNumber** has what several of them need about natural
numbers: the least member of a set, induction over an interval, quotients.

Several modules contain definitions marked *Mutant*: a plausible bug in the
definition that follows. Each property is known to fail when one of them takes the
place of the original, which shows that the property says something about the code.

## 3. What is checked

All runs use every interleaving of the actions; deadlock is checked except where
stated.

| Run | Instance | Distinct states | Shows |
|---|---|---|---|
| `scheduler` | 3 processes, quanta 2 and 4, search limit 16 | 78,685 | Table, contexts and quanta stay consistent; the processor is given in FIFO order; a READY process is never overtaken, never starves; blocked and dead ones are dispatched only when nobody is READY; the whole implements RoundRobin, its fairness included |
| `runlist` | 3 processes, search limit 4 | 13,826 | With ticks anywhere in `process_create`, the pointers are one cycle and implement Scheduler, and the walk terminates, except for ticks between its last two stores |
| `kernel` | the real boot table and quanta, one program process; two programs, an empty file, one longer than `elf_buffer`, one absent | 52,862 | The first interrupt finds its handler; a key leads to the prompt however the tasks compete with the shell that is blocking them; no tick returns the processor to a task afterwards; sections under `cli` are not interrupted; two processes are never in the middle of a disk read; the program called is the one asked for, and is never loaded over one that is alive, all of this until a program that has become a process returns; until a key is pressed every task keeps running; `ls`, `cat` and `sys` return with the timer on |
| `memory` | a heap of 24 bytes, headers of 1, requests of 3, 6 and 12; a bitmap of 5 frames; six machines, on one of which the sum wraps | 45,540 | Tiling, links, merging and disjointness for every sequence of calls; no frame lost or shared, and counter and bitmap agree, until (and after) a self-test finds fewer than three frames; every frame handed out is memory the machine has |
| `fat16` | directories of 4 entries in 2 sectors, files of 4 and 7 bytes, 2-byte sectors, 2-sector clusters; a disk that may fail or stop answering at any command, or never become ready | 890,530 | Callers see files as Files promises; `ls` lists all of them; every call returns |
| `terminal` | a screen of 4x3, two tasks, a shell line of 3 bytes and a program's of 4, ints from -16 to 15, four keys, presses without a character and releases | 1,527,491 | Interrupted writers stay in their rows and harm nobody else; while a line is read the screen shows prompt and line, across row ends and scrolling; a finished line is what was typed, with backspaces applied, no key lost or read twice; the sum shown is the sum typed, modulo the width of an int |

Six more runs show the disagreements of section 5: `kernel_dead`, `kernel_run`,
`runlist_preempted`, `fat16_late`, `fat16_refused`, `terminal_backspace`.

**Bounds.**
- `MaxPid` bounds the processes ever created: three give a current process, the one
  overtaken and the one overtaking, and a place for dead or blocked ones in between.
  The `scheduler` instance with `MaxPid = 4` was run too, for its safety properties
  (3.8 million states, no error). In `kernel` it is 5: the boot table and one program process. No second
  one can be created (section 4, `ProgramKeepsShell`).
- `MAX_PROCESSES` is larger than the list in `scheduler` and `kernel`, as it is in the
  code unless 17 processes are created; the proofs of section 4 say where the limit
  bites. In `runlist` it is 4, so that the loop ends by its limit as well as by
  finding the head.
- `TickWrap` stands for 2^32, modulo which `ticks_total` is counted. It is 1 in all
  runs: nothing reads that counter but `ps`.
- `StartTicks` bounds the ticks between `scheduler_running = 1` and the load of the first
  `esp`: the code prints one line there, which takes far less than a quantum.
- In `kernel` files have at most 5 bytes, the buffer 4 and programs two bytes of memory:
  enough for one program longer than the other, for one with a bss where the other has
  bytes, and for a segment that lies partly behind the buffer.
- In `memory`, `Header` and `Word` are small (the packed header has 13 bytes); what
  matters is that requests come that fit exactly, with less than a header and four
  bytes to spare, and with more. The machines have less memory than the first frame
  needs, some frames, more than the bitmap has, and more than a word counts.
- `Timeout` is 2 polls instead of 100000: each loop is seen to succeed at once, to poll
  again, and to give up. Two sectors of directory put the end marker,
  deleted entries and the file on either side of a sector boundary; the files end at
  a cluster's end and inside a sector; the caller's buffer is smaller or larger than
  the longer one.
- In `terminal` a line of four characters and its prompt reach the end of a row and of
  the screen; both buffers fill up; `MaxKeys` is the longest line with a character too
  many; `FifoSize` 1 makes the keyboard drop keys. With `INT_MAX` 15 numbers
  and sums wrap, and reach the smallest int.

**Assumptions of the instances.** Files are contiguous, as on the image that the README
of the source builds (`mkfs` and copying to an empty disk), and in `fat16` the disk ends no
command after the driver has given up on it; it may leave it unfinished for ever. In `terminal` a tick takes the processor from a task at
most once within one call of `vga_print_at`: quanta are of 50 ms and more, the call
takes microseconds. The screen is blank when the demonstration starts and the names
of commands are left out (a line may be any command).

**Fairness.** The timer keeps ticking whenever interrupts are enabled (weak fairness
of `scheduler_tick`, `irq0`): the PIT is periodic and never reprogrammed.
`kernel_main` runs on (weak fairness): nothing else runs at that time. In Kernel, a
process that gets the processor again and again executes its next instruction
(strong fairness of `ShellStep`, `ProgramStep`: it holds the processor for a whole
quantum each time, so its step is enabled infinitely often but not continuously).
`ShellStep` contains `FileArrives`, the return of `fat16_read_file`; that it does return,
whatever the disk does, is `CallsReturn` of Fat16. The same fairness holds of `CreateSteps`
in RunList. In Fat16 the driver executes its instructions, and nothing at all
is asked of the disk: what makes `CallsReturn` true is the limit of the two loops. The user may never type anything: no fairness is assumed of
`UserTypes`, and none in Terminal, whose properties are about safety only.

`CHECK_DEADLOCK FALSE` is used in `kernel` and its variants (SYS_EXIT in the shell halts
the machine with interrupts disabled), in `terminal` (for the same reason) and in `runlist`
(the model stops once a wild pointer was followed, and when all processes have been
created).

## 4. What is proved

Everything below is proved for all values of the constants that satisfy the modules'
assumptions: any number of processes, priorities, quanta and ticks; any set of files,
program headers and ways programs end; any heap, header, set of requests, bitmap and
machine; any disk layout, directory and size of buffer; any screen, line buffers, texts and
keys.

**The scheduler** (`SchedulerProofs`):

| Theorem | States |
|---|---|
| `Invariance` | `Spec => []IInv`, the inductive invariant |
| `TypeCorrect` | `TypeOK` |
| `ListComplete` | `EachProcessOnce`: no creation or switch loses a process or links it twice |
| `RunningCorrect` | `RunningHoldsCPU` |
| `ContextsCorrect` | `ContextsIntact`: a switch resumes a process exactly where it was interrupted |
| `QuantumCorrect` | `WithinQuantum`: the one tick counter never reaches the quantum of the process it is charged to |
| `NoProcessOvertaken` | `NeverOvertaken`, an action property |
| `OnlyReadyGetCPU` | `OnlyReadyDispatched`, if `MaxPid <= MAX_PROCESSES + 1` |
| `SchedulerIsRoundRobin` | the safety half of `ImplementsRoundRobin`, under the same condition |

None of the invariants is inductive alone. `ContextsIntact` needs to know that the
current process is the owner of `cpu` (`Phases`: before the start, during it, after
it) and that the PCB a switch goes to exists (`PidsInUse`: the PCBs on the list are
exactly those with pids below `next_pid`). `WithinQuantum` needs positive quanta
(`QuantaPositive`), and that ticks before the first `esp` is loaded are fewer than
any quantum (`StartAssumption`). `IInv` is the conjunction of these with the
properties; it has one lemma per action (`CreatePreserves`, `ExitPreserves`, ...,
`SwitchPreserves`), and `NextPreserves` puts them together. The list part rests on
lemmas about rotation (`RotateShape`, `RotateMoves`, `RotateInjective`) and about
where the search loop gets (`CandidateInList`, `CandidateFirstRound`,
`CandidateComesRound`). The condition of `OnlyReadyGetCPU` is tight: with one process
more, the search can give up before it has seen all, and `process_create` does not
enforce `MAX_PROCESSES`.

`SchedulerIsRoundRobin` goes step by step: a creation is `Admit`, an exit or a blocking is
`Quit` for the current process and `Withdraw` for a waiting one, `process_unblock` is
`Return` (or `Resume`), and a tick is `Count`, `KeepTurn`, `TakeTurn` or `Takeover`. `RInv`
adds to `IInv` that a process not created yet has no quantum (`NoQuantumYet`) and that
before the start none is RUNNING (`NobodyRunsYet`). The queue is what `Chosen` selects from
the list behind the current process, a recursive function over the length; the lemmas about
it (`ChosenAppend`, `ChosenConcat`, `ChosenSame`, `ChosenNone`, `ChosenAround`) come from
`AppendInduction`, an induction over sequences whose property is a set. `ChosenAround` says
that a change of one PCB's state takes one element out of the queue or puts it in and leaves
the others in their order. `RotatedOthers` says what a switch to the `j`-th PCB does to
the list, and since all the PCBs the search went over were not READY (`SearchedAre`), what it
does to the queue is to move the head out and the old holder to the end. Beyond
`MAX_PROCESSES + 1` processes the search can miss a READY one, and the theorem fails.

**The pointers of the list** (`RunListProofs`), for any number of processes and any length
of the search:

| Theorem | States |
|---|---|
| `ListIsOneCycle` | `OneCycle`: when `process_create` is not at work the pointers go round all PCBs |
| `HarmIsBeforeLastStore` | `HarmOnlyBeforeLastStore`: a tick can go wrong only between lines 65 and 66 of `process.c` |
| `PointersImplementRing` | `ImplementsRing`: until it has, each step on the pointers is a step of Scheduler |

The invariant `ListInv` says in `Chained` that the sequence read through the pointers
has every PCB once, that each leads to the next and the last to the first, and that
only the PCB being linked may lead nowhere. `Creating` carries the walk: a tail that has
been found leads to the caller (`Target`), although `current_process` may since have
moved away and come back, for the caller goes on only when it is current again
(`CallerIsCurrent`, from `Working` and `CallersContext`); this is why the store of
line 66, which reads `current_process` anew, closes the circle. `HopOnList`, by
induction on the hops, is the heart of the refinement: the pointer of the search is at
the element of the sequence that Scheduler's `Candidate` counts to, or it has met the
pointer not yet stored. `ChainRotates` says that a switch reads the same circle from
another PCB on. What a recursive function has as its value (`ReadingFollows`,
`HopsExist`) is found by induction over an interval (`IntervalInduction`).

**The whole kernel** (`KernelProofs`), if `MaxPid <= MAX_PROCESSES + 1`:

| Theorem | States |
|---|---|
| `KernelInvariance` | `KernelSpec => [](Sane => IInv /\ KInv)` |
| `KernelImplementsScheduler` | `KernelSpec => Init /\ [][Sane => [Next]_vars]_kvars`: the kernel takes the steps of Scheduler, whose theorems hold of the boot table, the shell and its programs |
| `TasksStayBlocked` | `TasksBlocked`: ticks in the middle of `process_block_others` do not matter |
| `ShellKeepsCPU` | `ShellUndisturbed`: no tick returns the processor to a task |
| `FlagKeepsCPU` | `ClearFlagKeepsCPU`: sections under `cli` are atomic, and end where they should |
| `HandlersInPlace` | `InterruptsHaveHandlers` |
| `DiskUsedByOne` | `OneDiskUser`, although `run` reads with interrupts enabled |
| `MemoryKept` | `ProgramsKeepMemory` |

`Sane` says that no program that has become a process has returned from there. Each of the
properties below it has `Sane` as a condition: a processor that executes data may do
anything, also clear the list of processes. Before that return the process may
run, read the disk and halt beside the shell as long as it likes, and that is what the
properties are about.

The parts of `KInv`, and what they are for: `BootOrder` (with the tables and the four
PCBs in place before interrupts are enabled, the list is one of the four rotations
of the boot table as long as it has four PCBs, which is what the walk of
`process_block_others` follows); `TablesReady`; `FlagClear` (whoever has cleared IF
still has the processor); `Alive` (the tasks never die, programs run until they
exit, and `current_process` is not blocked while the shell lives, so that line 58 of
`scheduler.c` does not revive a blocked task); `Passed` (`process_block_others` has
blocked the tasks it has passed, and no tick unblocks them); `ShellAlone`; and
`ProgramKeepsShell`: once a program has become a process, the shell never returns from
its wait, because that program either loops for ever, or exits with interrupts
disabled, or returns into nowhere, which ends what can be claimed. `OneDiskUser` and `ProgramsKeepMemory` hold for that reason, and not because
anything in the code protects the disk or the programs' memory: a program that
could end without halting the machine or losing its way would break both. `OnlyReadyStep` of
SchedulerProofs is where the condition on `MaxPid` enters: a blocked task does not get
the processor as long as somebody else is READY.

**The loader** (also in `KernelProofs`):

| Theorem | States |
|---|---|
| `RightProgramCalled` | `CallsFileAsked`, if the files are sequences of bytes (`FilesAreBytes`) and their headers sound (`SoundHeaders`) |
| `KernelTypeCorrect` | `KernelTypeOK`, if `MaxPid <= MAX_PROCESSES + 1` and `FilesAreBytes` |

`elf_buffer` is never cleared, so the invariant cannot say that it holds a file. `LoaderInv`
says that between the answer and the check it *begins* with as many bytes of the file
asked for as the answer counts, and that no step outside the loader changes that. If the count
is the length of the file, the header that is checked is that file's, and `LoadedIsHeld`
follows each byte through the segment it belongs to. `SoundHeaders` is what the
loader trusts without looking: segments lie in their file and do not overlap. With
segments that do, the last one wins, and the theorem fails. `TypesInv` relates the
pending read and its answer to the place in the shell's code.

**The memory managers** (`HeapProofs`, `MemoryProofs`):

| Theorem | States |
|---|---|
| `HeapInvariant`, `PmmInvariant`, `MemoryInvariant` | the inductive invariants of each manager, and of both with their calls mixed |
| `MemoryTypeCorrect` | `MemoryTypeOK` |
| `HeapTiled`, `HeapLinked`, `HeapMerged` | `Tiled`, `DoublyLinked`, `Coalesced` |
| `HeapImplementsAllocator`, `GrantsDisjoint` | the heap implements Allocator, if no request is larger than `Word - 4` |
| `CounterCorrect`, `NoFrameLost` | `CounterExact`, `NoFrameLostOrShared` |
| `HandedOutExist` | `FramesExist`, on every machine |

`HeapInv` adds `Separate` to the properties: no block begins inside another one.
`Tiled` alone relates a block to the one its `next` leads to and does not say that the
blocks met that way are all there are. With `Separate`, a split or a merge need only be
looked at where it happens, and no induction along the list is needed. `Granted` ties
what callers asked for to blocks in use that are long enough; the refinement maps
`granted` to it. `NoneWraps` is tight: `heap.c:32` rounds a larger request up to 0.
`PmmInv` is inductive as it stands; it rests on `AllocTakesOne` and `FreeReturnsOne`, which
also carry it through the six calls of the self-test. Each null pointer that a
self-test gives back clears the bit of frame 0 and lowers the counter by one. The counter is
too low from then on, never too high: it does not stop a request while a managed frame is
free. (A later request may find frame 0 first; what its caller gets is a null pointer, so
nobody holds frame 0.) That is all `CounterExact` says once a self-test has run short
(`short`); before, it says that counter and bitmap agree. `CountFits` says that the frames
counted fit in the machine: a sum that wraps is smaller, never larger.

**The file system** (`Fat16Proofs`):

| Theorem | States | If |
|---|---|---|
| `FileSystemTypeCorrect` | `FsTypeOK`: searches stay in the directory, copies in the buffer | |
| `RightSectorRead` | `ReadsTheSectorAsked` | `NeverLate` |
| `ListingIsComplete` | `ListsEveryFile` | `NeverLate` |
| `CallersSeeFiles` | `ImplementsFiles`: `fat16_read_file` keeps the promise of Files | `NeverLate`, `Contiguous` |

`NeverLate` (the disk does not answer after the driver has given up) is needed: `fat16_late`
is a counterexample of `ReadsTheSectorAsked` without it. The disk may still fail at any
command, or never end it.
`Contiguous` (the clusters of a file follow one another) is needed because `fat16.c:172` adds one
instead of reading the FAT. The invariant `FsInv` has a part for each layer. `InStep`
and `Serves` tie driver and disk: data is transferred for the command the driver waits
on, and for the sector the caller of `ata_read_sector` asked for. `Passed` says that a
search or listing has passed the directory sectors before the present one, in which
nothing decisive was, so that the first match in the sector read is the first of the
directory (`Min`). `Copied` says that the buffer is the beginning of the file: its
length is a whole number of sectors below the one being read, and byte `b` is where the
cluster chain puts byte `b` (`ClusterOf`, by induction along the chain). The arithmetic of sectors
and clusters rests on `QuotientUnique` of LeastNumber.

**The terminal** (`TerminalProofs`):

| Theorem | States |
|---|---|
| `TerminalTypeCorrect` | `TerminalTypeOK`: no store leaves the screen, or a line its buffer |
| `LettersInTheirRows` | `DemoInItsRows`: what ticks inside `vga_print_at` do to the letters stays small, and is gone at the prompt |
| `LineIsShown` | `EchoShowsLine`: prompt and line are what stands before the cursor |
| `LinesAreTyped` | `LinesAsTyped`: a finished line is what was typed since the last one, with backspaces applied |
| `SumIsShown` | `SumShown`: what stands behind the last "=" is the sum of the two lines modulo 2^32, for ints of every width |

They rest on three facts about `vga.c`. `WrapAndScroll`: after the two tests at the end of
`vga_putchar` the cursor is on the screen, wherever the character has moved it.
`PrintType`: printing a text of some characters leaves a screen of these characters (an
induction over the length of the text). `PutSeen`: a visible character moves everything before
the cursor one place further back, whether the row ends, the screen scrolls, or neither.

`DemoInItsRows` is far from inductive: nothing in it says where the cursor is. `CursorNear` does. A
task that was not interrupted since it set `cursor_x` finds its own column there. One that
was interrupted finds another's, which may be further right by one column for each task that
is between two letters, because each of these has moved the cursor once since it was stored; but a
task interrupted within `vga_print_at` runs to the end of it the next time, so it leaves the
cursor no further right than the number of tasks allows. `RowsKept` and `LettersKept` carry
this to the cells; `Alone` says that no task is left on the way when the shell clears the
screen, and `Screen(Plain)` that no letter is there from then on. `DemoAssumption` is what
makes this fit: the columns of the demonstration and one more for each task are on the screen
(43 of 80), and the letters of the tasks are not typed (the keyboard map has small letters
only) nor printed otherwise. The last is an abstraction: a text of the kernel may
contain an "A", but it is not the letter a task has written.

`EchoInv` says in `LineSeen` that the character before the cursor is the last one of the line,
the one before it the last but one, and so on to the last character of the prompt; `TypedInv`
that what was typed is what was read and what the keyboard still holds. `LineAssumption` has what
this needs: no key maps to a carriage return (`keyboard.c` 20-25), a line is no longer than
the screen without its last row (64 and 32 against 3920), what asks for a line or comes before
the sum ends with a visible character, and the text of a number fits the buffer it is converted
in (11 characters against 32; `suma.c` 112). With a longer line the prompt would scroll off the
screen.

`KeysInv` says of the same reading that while a line is read, `Edited` of what was read is the
beginning of the buffer up to `i`, and that between lines nothing read is left over. `Edited` is a
recursive function over the keys (`EditedAppend`: one key more is one `Pressed` more); a
key then does to the buffer what `Pressed` does (`KeyPressed`, by `BeginningGrows` and
`BeginningShrinks`). What ends the line stores the zero behind it, and there is none before, since
no key maps to a zero (`LineAssumption`; `keyboard.c` 101 ignores those that do): so the reader of
the string sees all of it and nothing else (`LineAtEnd`). MCTerminal has a second definition
of `Edited`, which counts backspaces instead of following the keys, and TLC finds them equal on every
text of up to six characters.

`SumShown` needs no invariant beyond the types, but it needs to know what suma's conversions
compute. `NumeralIsRead`: what `str_to_int` makes of a numeral is what the numeral means, as far as
an int goes. The int may wrap at every digit; what is kept is that it differs from the
`Magnitude` of the digits so far by a multiple of 2^32 (`Alike`, `ReadIsWorth`), which the product
with ten, the sum and the sign preserve. `TextMeans`: what `int_to_str` makes of a number other than
`INT_MIN` means that number (`BackwardsWorth`: the digits that leave a number one by one are worth
the number when they are read in reverse, by induction over an interval). `PrintEnd`, a
consequence of `PutSeen`, puts the sum and the character before it in front of the cursor.
`Magnitude` says what digits mean by a recursive function; MCTerminal has the sum of the digits
with their powers of ten, and TLC finds the two equal on numbers of up to five digits.

**Left to TLC:** liveness under fairness (`ReadyGetsCPU`, `DemoRuns`,
`PromptComesBack`, `CreateReturns`, `CallsReturn`), which the prover does not handle, and
the fairness half of `ImplementsRoundRobin`. That two definitions of the same thing agree
on every text (`Edited`, `Magnitude`) is compared on short texts only.

## 5. Where the code and its comments disagree

Each has a run that TLC ends with a counterexample.

1. `kernel_dead` — `process.c:96` says the scheduler will skip a process that called
   `process_exit`. When all the others are blocked (the shell has exited), the search
   ends on a blocked process, `scheduler.c:58` sets the dead one to READY, and a later
   tick resumes it. Blocked processes get the processor as well.
2. `kernel_run` — `shell.c:173` says the shell waits until the program ends. The
   program is called in the shell's own context (`elf.c:159`); if it ends with
   SYS_EXIT, as `suma.c` does, the shell is dead and the machine halts with interrupts
   disabled.
3. `runlist_preempted` — `shell.c:161-164` calls the loader with interrupts enabled to
   protect the list of processes. A tick between `process.c:65` and `66` follows an
   uninitialized pointer. Only reached by programs that return, against the advice of
   the source's README (lines 300-305) that they end in a `hlt` loop.
4. `fat16_late` — a read that timed out leaves its command with the disk; the next call
   may deliver that sector's data as the one asked for (`ata.c:37` does not look at DRQ).
5. `fat16_refused` — after one disk error ERR stays set until the next command, and
   `ata_wait_ready` refuses to let one be sent (`ata.c:36`).
6. `terminal_backspace` — `shell.c:77` and `syscall.c:53` say a backspace erases the
   character on the screen. `vga_putchar` has no case for it (`vga.c:53-60`): three more
   cells are written and the cursor moves on. The line itself is right (`LinesAsTyped`).

Also seen while modelling, without a run of their own.

Processes and programs:
- `kernel.c:48-49` and `228` say the demonstration tasks end with `process_exit` after
  40 iterations; they loop for ever (`DemoRuns` relies on that), and the shell blocks them.
- `process_unblock` (`process.c` 107) would make a dead process READY, and `process_block` a dead
  one BLOCKED; nothing calls either. Scheduler has both as they are.
- Once a program has become a process, `run` waits for ever (`shell.c:177`).
- After an empty file, or a read that failed before its first byte was copied, `elf.c:108`
  checks the header the previous program left in `elf_buffer`, and that program is run
  (`CallsFileAsked` therefore asks that the file was read whole and is not empty).
- `elf.c:93` reads the disk with interrupts enabled, where `ls` and `cat` disable them
  so that the timer does not interrupt a transfer (`shell.c:127-128`).
- A program that returned to `elf_load` and returns again as a process jumps to whatever
  lies behind its stack: `process.c` 36-56 leaves it no return address.
- `isr.asm:77` puts `int80_handler` into the section `.note.GNU-stack`, which is not loaded
  with the kernel unless the linker is told to. The models take system calls to
  reach their handler.
- `int80_handler` does not preserve ECX and EDX, which the `asm` of `suma.c` says it does.

Screen and keyboard:
- A tick between the two stores of `vga_print_at` (`vga.c:82-83`) puts a letter on
  another task's row, in that task's colour. `timer.c:28-29` recommends the function
  because it does not move the global cursor; it does.
- `esperar_tecla_char` prints "<ENTER>" when Enter is pressed (`keyboard.c:102`).
- `vga_print_int` and `int_to_str` print the smallest int as "-".
- `suma.c:7` says that it never touches the hardware; line 117 writes video memory.

Files, memory and interrupts:
- `fat16_read_file` never reads the FAT (`fat16.c:172`): a file in two pieces is
  returned with other clusters' data. Files longer than 64 KB are cut off by the loader.
- `shell.c:149` and `kernel.c` store the zero one past `filebuf[512]` when the file fills it.
- `heap.c:32` wraps to 0 for sizes above 2^32 - 4, and `kmalloc` then returns an empty
  block. No caller asks for such sizes.
- `pmm.c:160-162` frees what `pmm_alloc_frame` returned without testing it for null:
  with fewer than three frames left, the self-test frees frame 0, once or more, and the
  counter is too low from then on (`CounterExact`). `kernel_main` does not call it.
- `pmm.h:6` defines frames of 256 KB (the comment says 4 KB), and the frames start at
  2 MB, where the heap (`heap.h`) starts too.
- The README of the source (lines 311-324) says the timer arrives at vector 0x08;
  `kernel_main` moves it to 0x20, and its gates for 0x08 and 0x0E replace those of the
  double fault and the page fault. A spurious IRQ7 would find no gate.

## 6. What is not modelled

- The wording of what is printed, colours, and the screens of `kernel_main`; comparison of
  command names and the conversion to 8.3 names.
- The contents of programs, beyond how they call the system and how they end; `suma.c` is
  modelled in Terminal.
- `paging_init`, which maps 4 MB one to one before anything runs (`paging_map` has no
  caller); PIT set-up; start-up assembly, which GRUB largely replaces.
- Code that is never called: `context_switch.asm`, `ata_write_sector`, `memory_init`,
  `isr_handler`, `irq_handler`, `pic_init` and `timer_init`; `keyboard_handler` never
  runs because IRQ1 is masked. `timer_handler` counts ticks that nothing reads.
- SYS_EXEC from inside a program: no program in the source uses it, and it would nest
  `elf_load`.
- `kmalloc` inside `process_create`: there it is a bound on the number of processes, and
  may fail; Memory models the heap by itself.

## 7. Plan

Done: Scheduler (with RoundRobin and its proofs), RunList (with the proof that it
implements Scheduler), Kernel over Interrupts, Elf and Files (with their proofs), Memory
over Heap and Pmm (with their proofs), Ata and Fat16 (with the proof that it implements
Files), Terminal over Vga and Suma (with the proofs of its invariants).

Next, in this order:
1. Fragmented files and a disk that answers late, as fault models of Fat16 with the
   weaker promise that still holds.
2. Terminal composed with Kernel's loader instead of RunSuma, so that the texts of two programs
   run one after the other share a screen.
3. Processor shares of the demonstration (`kernel.c` 42-46): turns of the four
   processes balanced to within one.
