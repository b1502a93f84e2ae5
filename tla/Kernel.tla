------------------------------- MODULE Kernel -------------------------------
(***************************************************************************)
(* Learnix as a whole, from kernel_main on: the interrupt tables, the four *)
(* processes of the boot table, the shell (shell.c), the user programs it  *)
(* loads and runs (elf.c) and their system calls (syscall.c,               *)
(* int80_handler), scheduled by Scheduler and preempted by the timer       *)
(* whenever the processor's interrupt flag is set.                         *)
(*                                                                         *)
(* pc[p] is where process p is in its code.  Only the process that holds   *)
(* the processor takes steps.  A saved context always has the flag set     *)
(* (irq0 only runs when it is, and process_create's first frame sets it),  *)
(* so that one variable for the processor's flag is enough.                *)
(***************************************************************************)
EXTENDS Scheduler, Interrupts, Elf, FiniteSets

CONSTANTS
    ProgramEnds,    \* how programs may end: "hlt", "exit", "return"
    Disk            \* the files on the disk

VARIABLES
    pc,             \* where each process is
    interrupts,     \* IF, the processor's interrupt flag
    walk,           \* local variable p of process_block_others
    stage,          \* of the first screen of kernel_main
    filename        \* argument of elf_load

loaderVars == <<filesVars, elfVars, filename>>
deviceVars == <<tables, stage, loaderVars>>
kvars == <<vars, pc, interrupts, walk, deviceVars>>

PRIORITY_LOW    == 1
PRIORITY_NORMAL == 2
PRIORITY_HIGH   == 4

\* Task-A, Task-B, Task-C and Shell
BootTable == <<PRIORITY_HIGH, PRIORITY_NORMAL, PRIORITY_LOW, PRIORITY_HIGH>>
Tasks == 1..3
Shell == 4
Programs == {p \in Pid : p > Shell}     \* created by elf_load

ASSUME BootAssumption ==
    Shell \in Pid /\ \A t \in 1..Len(BootTable) : BootTable[t] \in Priorities

EntryPoint(p) == CASE p \in Tasks -> "task"             \* while (1), for ever
                   [] p = Shell -> "esperar_tecla"
                   [] OTHER -> "program"

KernelInit ==
    /\ Init
    /\ pc = [p \in Pid |-> EntryPoint(p)]
    /\ interrupts = FALSE               \* GRUB enters the kernel with IF clear
    /\ walk = NULL
    /\ TablesInit /\ stage = "idt_init"
    /\ FilesInit /\ files = Disk
    /\ ElfInit /\ filename = ""

\* Mutant: the list is read as if it ended in NULL.
Successor_Linear(p) ==
    LET i == CHOOSE k \in 1..Len(ring) : ring[k] = p
    IN  IF i = Len(ring) THEN NULL ELSE ring[i + 1]

Successor(p) ==
    LET i == CHOOSE k \in 1..Len(ring) : ring[k] = p
    IN  IF i = Len(ring) THEN ring[1] ELSE ring[i + 1]

process_count_active ==
    Cardinality({p \in Pid : state[p] \in {READY, RUNNING}})

-----------------------------------------------------------------------------
\* kernel_main: the interrupt tables, then process_create four times, sti,
\* scheduler_start.  The screens in between change nothing the model keeps.
Step(from, to, Action) ==
    /\ BootExecutes /\ stage = from
    /\ stage' = to
    /\ Action
    /\ UNCHANGED <<vars, pc, interrupts, walk, loaderVars>>

BootTables ==
    \/ Step("idt_init", "isr_init", idt_init)
    \/ Step("isr_init", "remap", isr_init)
    \/ Step("remap", "gates", RemapPic)
    \/ Step("gates", "mask", SetGates)
    \/ Step("mask", "processes", UnmaskTimer)

BootCreates ==
    /\ BootExecutes /\ stage = "processes"
    /\ ~interrupts /\ Len(ring) < Len(BootTable)
    /\ process_create(BootTable[Len(ring) + 1])
    /\ UNCHANGED <<pc, interrupts, walk, deviceVars>>

BootEnables ==
    /\ BootExecutes /\ ~interrupts /\ Len(ring) = Len(BootTable)
    /\ interrupts' = TRUE
    /\ UNCHANGED <<vars, pc, walk, deviceVars>>

BootStarts ==
    /\ interrupts
    /\ scheduler_start \/ LoadFirst
    /\ UNCHANGED <<pc, interrupts, walk, deviceVars>>

kernel_main == BootTables \/ BootCreates \/ BootEnables \/ BootStarts

\* Mutant: the timer is served with the interrupt flag clear.
irq0_Unmasked == scheduler_tick /\ UNCHANGED <<pc, interrupts, walk, deviceVars>>

\* irq0, where the gate of the timer's vector leads to it.
irq0 ==
    /\ interrupts /\ 0 \notin pic_mask /\ IrqHandler(0) = "irq0"
    /\ scheduler_tick
    /\ UNCHANGED <<pc, interrupts, walk, deviceVars>>

-----------------------------------------------------------------------------
\* Process p, at "from", goes on to "to".
Goes(p, from, to) ==
    /\ Executes(p) /\ pc[p] = from
    /\ pc' = [pc EXCEPT ![p] = to]

Quietly == UNCHANGED <<vars, interrupts, walk, deviceVars>>

\* shell_run, phase 1: any key ends the demonstration.
KeyPressed ==
    /\ Goes(Shell, "esperar_tecla", "block_others")
    /\ walk' = Successor(Shell)
    /\ UNCHANGED <<vars, interrupts, deviceVars>>

\* Phase 2: one turn of the loop of process_block_others.
process_block_others ==
    /\ walk # Shell
    /\ Goes(Shell, "block_others", "block_others")
    /\ IF state[walk] = DEAD THEN UNCHANGED vars ELSE process_block(walk)
    /\ walk' = Successor(walk)
    /\ UNCHANGED <<interrupts, deviceVars>>

\* Mutant: the loop ends one PCB early.
BlockingDone_Early ==
    /\ Goes(Shell, "block_others", "prompt")
    /\ Successor(walk) = Shell
    /\ walk' = NULL
    /\ UNCHANGED <<vars, interrupts, deviceVars>>

BlockingDone ==
    /\ walk = Shell
    /\ Goes(Shell, "block_others", "prompt")
    /\ walk' = NULL
    /\ UNCHANGED <<vars, interrupts, deviceVars>>

\* Phase 3, the commands.  ps, help and unknown commands change nothing.
\* ls and cat: cli, the transfer, sti.
CommandDisk ==
    /\ Goes(Shell, "prompt", "disk")
    /\ interrupts' = FALSE
    /\ UNCHANGED <<vars, walk, deviceVars>>

\* Mutant: cat returns without its sti.
DiskDone_NoSti == Goes(Shell, "disk", "prompt") /\ Quietly

DiskDone ==
    /\ Goes(Shell, "disk", "prompt")
    /\ interrupts' = TRUE
    /\ UNCHANGED <<vars, walk, deviceVars>>

\* sys: the shell makes a system call of its own.
CommandSys ==
    /\ Goes(Shell, "prompt", "sys")
    /\ interrupts' = FALSE
    /\ UNCHANGED <<vars, walk, deviceVars>>

SysDone ==
    /\ Goes(Shell, "sys", "prompt")
    /\ interrupts' = TRUE
    /\ UNCHANGED <<vars, walk, deviceVars>>

\* run: elf_load asks for the file, whose sectors arrive while ticks go on,
\* looks at the header, copies the segments and calls the entry point.
CommandRun(name) ==
    /\ Goes(Shell, "prompt", "elf_read")
    /\ Ask(name, BufferSize)
    /\ filename' = name
    /\ UNCHANGED <<vars, interrupts, walk, tables, stage, elfVars>>

FileArrives ==
    /\ Goes(Shell, "elf_read", "elf_check")
    /\ Answer
    /\ Received(answer'.bytes)
    /\ UNCHANGED <<vars, interrupts, walk, tables, stage, memory, filename>>

\* The caller is done with the answer.
Forget == answer' = NoAnswer /\ filename' = "" /\ UNCHANGED <<files, faulty, call>>

LoadFails ==
    /\ answer.count < 0 \/ ~elf_verify
    /\ Goes(Shell, "elf_check", "prompt")
    /\ Forget
    /\ UNCHANGED <<vars, interrupts, walk, tables, stage, elfVars>>

ProgramCalled ==
    /\ answer.count >= 0 /\ elf_verify
    /\ Goes(Shell, "elf_check", "program")
    /\ LoadSegments
    /\ Forget
    /\ UNCHANGED <<vars, interrupts, walk, tables, stage, elf_buffer>>

\* The disk fails for good, in the middle of a read or at any other time.
DiskFails ==
    /\ ~faulty
    /\ DiskChanges
    /\ UNCHANGED <<vars, pc, interrupts, walk, tables, stage, elfVars, filename>>

\* A program that returns to elf_load becomes a process of its own as well
\* (or kmalloc fails, and the shell is at its prompt again).
ProgramReturns ==
    /\ "return" \in ProgramEnds
    /\ Goes(Shell, "ending", "process_create")
    /\ Quietly

CreateProgram ==
    /\ Goes(Shell, "process_create", "await")
    /\ process_create(PRIORITY_NORMAL)
    /\ UNCHANGED <<interrupts, walk, deviceVars>>

CreateFails ==
    /\ Goes(Shell, "process_create", "prompt")
    /\ Quietly

\* Mutant: the shell goes on as soon as only one process runs beside it.
AwaitProgram_OneMore ==
    /\ Goes(Shell, "await", IF process_count_active > 2 THEN "await" ELSE "prompt")
    /\ Quietly

\* while (process_count_active() > 1) hlt
AwaitProgram ==
    /\ Goes(Shell, "await", IF process_count_active > 1 THEN "await" ELSE "prompt")
    /\ Quietly

CommandExit == Goes(Shell, "prompt", "exit") /\ Quietly

-----------------------------------------------------------------------------
\* A program, called by the shell or running as a process: its system calls,
\* those that read the disk apart, and its end.  int80_handler is an interrupt
\* gate: IF is clear until its iret.
SystemCall(p) ==
    /\ Handler(128) = "int80_handler"
    /\ Goes(p, "program", "syscall") \/ Goes(p, "program", "sys_disk")
    /\ interrupts' = FALSE
    /\ UNCHANGED <<vars, walk, deviceVars>>

SystemCallReturns(p) ==
    /\ Goes(p, "syscall", "ending") \/ Goes(p, "sys_disk", "ending")
    /\ interrupts' = TRUE
    /\ UNCHANGED <<vars, walk, deviceVars>>

NoSystemCall(p) == Goes(p, "program", "ending") /\ Quietly

\* for (;;) hlt, as hello.c ends
ProgramHalts(p) ==
    /\ "hlt" \in ProgramEnds
    /\ Goes(p, "ending", "hlt_loop")
    /\ Quietly

\* SYS_EXIT, as suma.c ends: process_exit inside the gate
SYS_EXIT(p) ==
    /\ "exit" \in ProgramEnds
    /\ Goes(p, "ending", "exit")
    /\ interrupts' = FALSE
    /\ UNCHANGED <<vars, walk, deviceVars>>

Exits(p) ==
    /\ Goes(p, "exit", "halted")
    /\ process_exit
    /\ UNCHANGED <<interrupts, walk, deviceVars>>

ProgramStep(p) ==
    \/ SystemCall(p) \/ SystemCallReturns(p) \/ NoSystemCall(p)
    \/ ProgramHalts(p) \/ SYS_EXIT(p) \/ Exits(p)

\* A program that has become a process returns once more.  Its first frame is at
\* the end of its stack and there is no return address behind it: ret takes the
\* header of the heap's next block for one, and jumps there.
ReturnsAgain(p) ==
    /\ "return" \in ProgramEnds
    /\ Goes(p, "ending", "astray")
    /\ Quietly

\* From there on it executes whatever it comes across, and may overwrite anything;
\* of that only the programs' memory and the flag are modelled.  The handlers of
\* the exceptions return to it.
RunsAstray(p) ==
    /\ Executes(p) /\ pc[p] = "astray"
    /\ \E lost \in SUBSET UserMemory :
          memory' = [a \in UserMemory |-> IF a \in lost THEN Unknown ELSE memory[a]]
    /\ interrupts' \in BOOLEAN
    /\ UNCHANGED <<vars, pc, walk, tables, stage, filesVars, elf_buffer, filename>>

\* What the shell does by itself, and what it only does when the user types.
ShellStep ==
    \/ process_block_others \/ BlockingDone
    \/ DiskDone \/ SysDone
    \/ FileArrives \/ LoadFails \/ ProgramCalled
    \/ ProgramReturns \/ CreateProgram \/ CreateFails \/ AwaitProgram
    \/ ProgramStep(Shell)

UserTypes ==
    \/ KeyPressed \/ CommandDisk \/ CommandSys \/ CommandExit
    \/ \E name \in Names : CommandRun(name)

KernelNext ==
    \/ kernel_main
    \/ irq0
    \/ DiskFails
    \/ UserTypes
    \/ ShellStep
    \/ \E p \in Programs : ProgramStep(p) \/ ReturnsAgain(p) \/ RunsAstray(p)

KernelSpec == KernelInit /\ [][KernelNext]_kvars

\* The timer ticks, kernel_main runs on, and a process that keeps getting the
\* processor keeps executing instructions.  The user may never type anything.
FairKernelSpec ==
    /\ KernelSpec
    /\ WF_kvars(kernel_main)
    /\ WF_kvars(irq0)
    /\ SF_kvars(ShellStep)
    /\ \A p \in Programs : SF_kvars(ProgramStep(p))

-----------------------------------------------------------------------------
Booted == scheduler_running /\ cpu.owner # Boot

\* No program has returned twice.  Once one has, nothing is claimed any more.
Sane == \A p \in Pid : pc[p] # "astray"

\* The shell has left process_block_others and has not exited.
Interactive ==
    pc[Shell] \in {"prompt", "disk", "sys", "elf_read", "elf_check", "program",
                   "syscall", "sys_disk", "ending", "process_create", "await",
                   "hlt_loop"}

Places == {"task", "esperar_tecla", "block_others", "prompt", "disk", "sys", "elf_read",
           "elf_check", "program", "syscall", "sys_disk", "ending", "process_create",
           "await", "hlt_loop", "exit", "halted", "astray"}

\* Type invariant: the program counters, the flag, and the walk of
\* process_block_others, which is at a PCB exactly while the shell is in it.
KernelTypeOK ==
    /\ pc \in [Pid -> Places]
    /\ interrupts \in BOOLEAN
    /\ walk \in IF pc[Shell] = "block_others" THEN Pid ELSE {NULL}
    /\ TablesTypeOK
    /\ call # NoCall <=> pc[Shell] = "elf_read"
    /\ answer # NoAnswer <=> pc[Shell] = "elf_check"

\* Once the shell is at its prompt all three demonstration tasks are out of
\* the scheduler's way, although the timer may have switched to any of them
\* between any two steps of process_block_others (shell.c 103-106).
TasksBlocked ==
    (Sane /\ Interactive) => \A p \in Tasks : state[p] = BLOCKED

\* From then on no tick gives a task the processor as long as the shell lives,
\* whatever programs it runs (shell.c 103-106, scheduler.c 45-51).
ShellUndisturbed ==
    [][(Sane /\ Interactive /\ cpu.owner \notin Tasks) => cpu'.owner \notin Tasks]_kvars

\* A system call and the transfers of ls and cat are never interrupted half
\* way: the processor stays with the process that cleared IF, and the flag is
\* set again only where that process sets it (shell.c 130-132, 144-146).
ClearFlagKeepsCPU ==
    [][(Sane /\ Booted /\ ~interrupts) =>
          /\ cpu'.owner = cpu.owner
          /\ interrupts' => pc'[cpu.owner] # pc[cpu.owner]]_kvars

\* While no key is pressed, every task of the demonstration keeps getting the
\* processor (shell.c 97-101).
DemoRuns ==
    \A p \in Tasks :
        (Booted /\ pc[Shell] = "esperar_tecla") ~>
            (cpu.owner = p \/ pc[Shell] # "esperar_tecla")

\* A key pressed during the demonstration leads to the prompt, however the
\* tasks compete with the shell while it blocks them, and so does every ls, cat
\* and sys; the interrupt flag is set again then, so that the timer goes on
\* (shell.c 101-119, 130-159, 189-200).
PromptComesBack ==
    pc[Shell] \in {"block_others", "disk", "sys"} ~> (pc[Shell] = "prompt" /\ interrupts)

\* No interrupt can arrive that has no handler of its own: from sti on every
\* line that is not masked leads to its handler, through a vector that is not
\* an exception of the processor (kernel.c 103-135, 258).
InterruptsHaveHandlers ==
    (Sane /\ interrupts) =>
        \A line \in Lines \ pic_mask :
            /\ <<line, IrqHandler(line)>> \in {<<0, "irq0">>, <<1, "irq1">>}
            /\ pic_base + line \notin Exceptions

Called == Sane /\ pc[Shell] = "elf_check" /\ pc'[Shell] = "program"
ReadWhole == answer.count = Len(files[filename]) /\ answer.count > 0

\* The program called is the one of the file asked for, byte by byte and with a
\* clean bss, whatever was loaded before and is left in elf_buffer and in the
\* programs' memory, provided that the file is not empty and was read whole; a
\* file that is not there is never run (elf.c 93-145).
CallsFileAsked ==
    [][Called => /\ filename \in DOMAIN files
                 /\ ReadWhole => Holds(memory', filename)]_kvars

\* The memory of a program that became a process is not loaded over as long as
\* that process can run, until it returns a second time (shell.c 177-179, elf.c
\* 135-145, 159-162).
ProgramsKeepMemory ==
    [][(Sane /\ memory' # memory) =>
          \A p \in Programs : state[p] \in {NONE, DEAD}]_kvars

DiskUsers == {p \in Pid : pc[p] \in {"disk", "elf_read", "sys_disk"}}

\* No process starts to read the disk while another one is in the middle of a
\* read, although run reads with interrupts enabled, and a program that returned
\* reads as a process of its own; until it returns a second time (elf.c 93,
\* 159-162, shell.c 126-132).
OneDiskUser == Sane => Cardinality(DiskUsers) <= 1

-----------------------------------------------------------------------------
(* What comments of the source say of the program, and its code does not do. *)

\* process.c 96: the scheduler skips a process that called process_exit.
DeadSkipped ==
    [][cpu'.owner # cpu.owner => pc[cpu'.owner] # "halted"]_kvars

\* shell.c 173: the shell waits until the program it runs terminates.
ShellResumes == pc[Shell] = "program" ~> pc[Shell] = "prompt"
=============================================================================
